SPECIFICATION Spec
CONSTANT Nodes <- MCNodes
INVARIANTS
    OneRulePerDestination
    ReturnReachesDownstream
    AccessTrafficKeepsItsLane
    SharedTrafficFindsItsOwner
    SelectionDecides
    ResolverAnswersFindTheirWay
    DeniedIPv4IsSilent
CHECK_DEADLOCK FALSE
