\* The reconciliation of the resolvers of each lab, once, and queries afterwards.
SPECIFICATION DnsSpec
CONSTANTS
    Addresses <- MCAddresses
    AddressFamily <- MCAddressFamily
    Hosts <- MCHosts
    Closest <- MCClosest
    EndsIn <- MCEndsIn
    Labs <- MCLabs
    Queries <- MCQueries
    PublicRoots <- MCPublicRoots
    PublicServers <- MCPublicServers
    PublicResolvers <- MCPublicResolvers
    NoAuthority = NoAuthority
    NoEgress = NoEgress
    NoService = NoService
    NoAddress = NoAddress
    NoQuery = NoQuery
    MaxHops = 3
    AddressTries = 1
    SocketTries = 1
    MaxRuns = 1
INVARIANTS
    LocalNamesStay
    RequestersConfined
    RequestersServed
    NothingLeavesAside
CHECK_DEADLOCK FALSE
