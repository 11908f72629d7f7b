----------------------------- MODULE MainRoutes -----------------------------
(***************************************************************************)
(* The routes of the main table (linux_routes.py, linux_uplink_routes.py): *)
(* the connected subnets, static routes, default routes, and the uplink    *)
(* routes of nodes that speak BGP.                                         *)
(***************************************************************************)
EXTENDS NodeData

Selector(node) == node.role \in {"downstream-selector", "upstream-selector"}

\* The kernel's own routes, which come with the addresses of a node.
ConnectedRoutes(node, f) ==
    LET with == InSomeOrder({i \in Interfaces(node) : HasSubnet(node, i, f)})
    IN  [k \in 1..Len(with) |->
            Route(f, Main, node.ifs[with[k]].net[f], {Hop(OnLink, with[k])})]

\* Only destinations with one next hop are rendered: two are a conflict, and
\* nothing is printed for it.
GroupRoutes(groups, f) ==
    LET unique == InSomeOrder({d \in DOMAIN groups : Len(groups[d]) = 1})
    IN  [k \in 1..Len(unique) |->
            Route(f, Main, unique[k], ToSet(groups[unique[k]]))]

Static(node, f, r) ==
    /\ ~r.route.policyOnly
    /\ r.route.dst # Default
    /\ r.route.proto # "connected"
    /\ r.route.dst \notin ConnectedPrefixes(node, f)
    /\ ~IsLocal(r.route.via)

StaticRoutes(node, f) ==
    GroupRoutes(Grouped(node, f, {r \in ToSet(Routes(node, f)) : Static(node, f, r)}), f)
----------------------------------------------------------------------------
HasAllocation(node) == \E i \in Interfaces(node) : node.ifs[i].alloc # <<>>

MainDefaultsAllowed(node) ==
    \/ Selector(node)
    \/ node.exitsSite
    \/ node.defaultReachability
    \/ ~HasAllocation(node)

MainDefaultAllowed(node, r) ==
    \/ Selector(node)
    \/ /\ MainDefaultsAllowed(node)
       /\ ~ /\ r.route.defaultIntent
            /\ node.ifs[r.on].alloc # <<>>
            /\ ~node.ifs[r.on].exitFacing

MainDefault(node, r) ==
    /\ ~r.route.policyOnly
    /\ r.route.dst = Default
    /\ MainDefaultAllowed(node, r)
    /\ ~IsLocal(r.route.via)

\* What a selector does without an IPv4 default route: it takes one from the
\* forwarding rules, the gateway being the peer on the link the rule comes from
\* (downstream selector) or goes to (upstream selector).
ChainDefaults(node) ==
    LET toward(r) == node.ifs[r.to].name
                     = IF node.role = "downstream-selector" THEN "policy" ELSE "core"
        via(r) == Peer(node, IF node.role = "downstream-selector" THEN r.from ELSE r.to, 4)
        chosen == Keep(node.forwarding,
                       {r \in ToSet(node.forwarding) :
                           r.logical /\ toward(r) /\ via(r) # OnLink})
    IN  AddAll(NoGroups, [k \in 1..Len(chosen) |->
            Listed(Default, Hop(via(chosen[k]), chosen[k].to))])

DefaultRoutes(node, f) ==
    LET given == Grouped(node, f, {r \in ToSet(Routes(node, f)) : MainDefault(node, r)})
        fallback == Selector(node) /\ f = 4 /\ given = NoGroups
    IN  GroupRoutes(IF fallback THEN ChainDefaults(node) ELSE given, f)

\* One command per uplink route: the last one for a destination stays.
UplinkRoutes(node, f) ==
    LET usable(r) == /\ r.route.proto = "uplink"
                     /\ EffectiveVia(node, r.on, r.route, f) # OnLink
        uplinks == Keep(Routes(node, f), {r \in ToSet(Routes(node, f)) : usable(r)})
    IN  [k \in 1..Len(uplinks) |->
            LET r == uplinks[k]
            IN  Route(f, Main, r.route.dst,
                      {Hop(EffectiveVia(node, r.on, r.route, f), r.on)})]
=============================================================================
