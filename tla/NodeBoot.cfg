SPECIFICATION Spec
CONSTANTS
    BundleSize = 13
    Waits = 1
    Lives = 2
    Interfaces <- MCInterfaces
    Subnets <- MCSubnets
    FamilyOf <- MCFamilyOf
    Private <- MCPrivate
    NoName = NoName
    Nodes <- MCNodes
    Packets <- MCPackets
INVARIANTS
    InOrder
    FailureStopsTheNode
    OnlyAllowedPasses
    AllowedPasses
    NothingOutlivesBoot
PROPERTIES
    TranslatedAsListed
    BootEnds
CHECK_DEADLOCK FALSE
