---------------------------- MODULE PolicyRoutes ----------------------------
(***************************************************************************)
(* The policy tables and rules of a node (linux_policy_routes.py): which   *)
(* interfaces are lanes, the routes of a lane's table, the interfaces its  *)
(* traffic comes from, and the commands of the five phases of `render`.    *)
(***************************************************************************)
EXTENDS NodeData

PolicyOnlyRoutes(node, i) ==
    \E f \in Families : \E k \in 1..Len(node.ifs[i].routes[f]) :
        node.ifs[i].routes[f][k].policyOnly

Allocated(node, i) == node.ifs[i].alloc # <<>>

IsLane(node, i) ==
    \/ Lane(node, i).access # None
    \/ /\ Uplinks(Lane(node, i)) # {}
       /\ PolicyOnlyRoutes(node, i)
       /\ Allocated(node, i)

\* May a policy-only route with this lane carry what enters on the other lane?
RouteMatchesIngress(ingress, lane, d) ==
    CASE ingress.access = None ->
           /\ Uplinks(ingress) # {}
           /\ SameUplink(ingress, lane)
           /\ lane.access = None => d = Default
      [] ingress.access # None /\ lane.access = None ->
           d = Default /\ SameUplink(ingress, lane)
      [] ingress.access # None /\ lane.access # None ->
           /\ lane.access = ingress.access
           /\ \/ None \in {ingress.uplink, lane.uplink}
              \/ ingress.uplink = lane.uplink

\* The interface a route leaves by: the one whose subnet has the gateway, else
\* the one with the route's lane, else the one that lists it.
Surface(node, j, lane, route, f) ==
    LET link == IF route.via < 0 THEN -route.via ELSE route.via
        sameLane == {i \in Interfaces(node) :
                        /\ Lane(node, i).access = lane.access
                        /\ Lane(node, i).uplink = lane.uplink}
    IN  CASE route.via # OnLink /\ HasSubnet(node, link, f) -> link
          [] ~(route.via # OnLink /\ HasSubnet(node, link, f)) ->
               IF /\ lane.access # None
                  /\ lane.uplink # None
                  /\ sameLane # {}
               THEN CHOOSE i \in sameLane : \A k \in sameLane : i <= k
               ELSE j

\* Destinations that are, written out, the address of an interface of another
\* access: only a network's first address is written like the network.
OtherLaneAddresses(node, t) ==
    LET others == {i \in Interfaces(node) \ {t} :
                      /\ node.ifs[i].firstAddress
                      /\ Lane(node, t).access # None
                      /\ Lane(node, i).access \notin {None, Lane(node, t).access}}
    IN  {node.ifs[i].net[f] : i \in others, f \in Families} \ {None}

Eligible(node, t, r) ==
    IF r.route.policyOnly
    THEN RouteMatchesIngress(Lane(node, t), RouteLane(node, r.on, r.route), r.route.dst)
    ELSE r.on = t

OwnDefault(t, r) == ~r.route.policyOnly /\ r.on = t /\ r.route.dst = Default

\* One route of the loop over all interfaces.  A lane's own routes are preferred
\* to the ones other interfaces list for the same destination, which is looked
\* up as the route spells it.
AddLaneRoute(node, t, f, acc, r) ==
    LET d == r.route.dst
        surface == IF OwnDefault(t, r) THEN t
                   ELSE Surface(node, r.on, RouteLane(node, r.on, r.route), r.route, f)
        prefers == r.on = t /\ d # Default /\ d \notin acc.preferred
        before == IF prefers THEN Without(acc.groups, d) ELSE acc.groups
    IN  CASE ~Eligible(node, t, r) -> acc
          [] Eligible(node, t, r) /\ ~r.route.policyOnly /\ r.route.proto = "connected" ->
               [acc EXCEPT !.groups = AddHop(@, d, Hop(OnLink, t))]
          [] OTHER ->
               IF \/ ~OwnDefault(t, r) /\ r.route.canonical
                                       /\ d \in OtherLaneAddresses(node, t)
                  \/ r.on # t /\ r.route.canonical /\ d \in acc.preferred
               THEN acc
               ELSE [preferred |-> acc.preferred \cup (IF prefers THEN {d} ELSE {}),
                     groups |-> AddGateway(before, d,
                                    EffectiveVia(node, surface, r.route, f), surface)]

LaneGroups(node, t, f) ==
    LET routes == Routes(node, f)
        upTo[k \in 0 .. Len(routes)] ==
            IF k = 0 THEN [preferred |-> {}, groups |-> NoGroups]
            ELSE AddLaneRoute(node, t, f, upTo[k - 1], routes[k])
    IN  upTo[Len(routes)].groups

\* The other interfaces a lane's traffic comes from: the access-less ones with
\* an uplink of the lane, then those the forwarding rules accept.
SharedInterfaces(node, t) ==
    LET uplinked == Keep([i \in Interfaces(node) |-> i],
                         {i \in Interfaces(node) \ {t} :
                             /\ Lane(node, i).access = None
                             /\ SameUplink(Lane(node, i), Lane(node, t))})
        accepted == Keep(node.forwarding,
                         {r \in ToSet(node.forwarding) :
                             r.accept /\ r.to = t /\ r.from # t})
    IN  Unrepeated(uplinked \o [k \in 1..Len(accepted) |-> accepted[k].from])

\* Phase 1: what `render` keeps of a lane.
LaneData(node, t) ==
    [on |-> t,
     table |-> node.ifs[t].alloc[1].table,
     priority |-> node.ifs[t].alloc[1].priority,
     suppress |-> node.ifs[t].alloc[1].suppress,
     shared |-> SharedInterfaces(node, t),
     groups |-> [f \in Families |-> LaneGroups(node, t, f)]]

Denied(lane) == \A f \in Families : lane.groups[f] = NoGroups
----------------------------------------------------------------------------
\* Phase 2: the tables of the lanes and the rules by source.

\* Every hop on the link of the lane, wherever its gateway is.
OwnLinkRoutes(lane, f) ==
    LET dsts == InSomeOrder(DOMAIN lane.groups[f])
    IN  [k \in 1..Len(dsts) |->
            Route(f, lane.table, dsts[k],
                  {Hop(h.via, lane.on) : h \in ToSet(lane.groups[f][dsts[k]])})]

TableRoutes(lane, f) ==
    LET dsts == InSomeOrder(DOMAIN lane.groups[f])
    IN  [k \in 1..Len(dsts) |->
            Route(f, lane.table, dsts[k], ToSet(lane.groups[f][dsts[k]]))]

\* The sources of an interface: its subnet unless a point-to-point link, its
\* connected routes, and for a shared interface what lies behind an access node.
SourcePrefixes(node, i, f, reachable) ==
    (IF node.ifs[i].lan /\ HasSubnet(node, i, f) THEN {node.ifs[i].net[f]} ELSE {})
    \cup {r.dst : r \in {q \in ToSet(node.ifs[i].routes[f]) :
                            /\ q.dst # Default
                            /\ (q.proto = "connected" \/ (reachable /\ q.behindAccess))}}

SourceRules(node, lane, f, i) ==
    LET own == i = lane.on
        prefixes == InSomeOrder(SourcePrefixes(node, i, f, ~own))
        rule(from, to, priority, table, suppress) ==
            Rule(f, from, to, i, priority, table, suppress)
        pair(p, priority, table, suppress) ==
            <<rule(p, Default, priority, table, suppress)>>
            \o IF own THEN <<rule(Default, p, priority, table, suppress)>> ELSE <<>>
        rules(p) ==
            pair(p, lane.priority, lane.table, FALSE)
            \o IF lane.suppress = 0 THEN <<>> ELSE pair(p, lane.suppress, Main, TRUE)
    IN  IF prefixes # <<>>
        THEN Concat([k \in 1..Len(prefixes) |-> rules(prefixes[k])])
        ELSE IF own THEN <<rule(Default, Default, lane.priority, lane.table, FALSE)>>
        ELSE <<>>

OwnRulesOnly(node, lane, f, sources) ==
    LET bound == Keep(node.resolverSources, ToSet(sources))
    IN  [k \in 1..Len(bound) |->
            Rule(f, node.ifs[bound[k]].self[f], Default, AnyDevice,
                 lane.priority, lane.table, FALSE)]

\* What the node's own resolver sends from addresses on these interfaces.
OwnSourceRules(node, lane, f, sources) ==
    LET bound == Keep(node.resolverSources,
                      {i \in ToSet(sources) : HasSubnet(node, i, f)})
    IN  Concat([k \in 1..Len(bound) |->
            <<Route(f, lane.table, node.ifs[bound[k]].net[f], {Hop(OnLink, bound[k])}),
              Rule(f, node.ifs[bound[k]].self[f], Default, AnyDevice,
                   lane.priority, lane.table, FALSE)>>])

FacesUplink(node, lane) == Lane(node, lane.on).kind = "access-uplink"
HasDefault(lane, f) == Default \in DOMAIN lane.groups[f]

UnscopedRule(lane, f) ==
    Rule(f, Default, Default, lane.on, lane.priority, lane.table, FALSE)

FamilyTable(node, lane, f) ==
    LET sources == <<lane.on>> \o lane.shared
        rules == Concat([k \in 1..Len(sources) |->
                    SourceRules(node, lane, f, sources[k])])
    IN  TableRoutes(lane, f)
        \o (IF ~FacesUplink(node, lane) \/ HasDefault(lane, f) THEN rules ELSE <<>>)
        \o (IF HasDefault(lane, f) THEN OwnSourceRules(node, lane, f, sources) ELSE <<>>)

EmptyLanesSkipped(node, lane) ==
    Concat([k \in {1, 2} |-> IF lane.groups[2 * k + 2] = NoGroups THEN <<>>
                                ELSE FamilyTable(node, lane, 2 * k + 2)])

\* A lane without IPv4 routes gets a rule and a blackhole; one without any gets
\* the IPv6 rule too.
LaneTables(node, lane) ==
    LET empty(f) == lane.groups[f] = NoGroups
        deny4 == <<Route(4, lane.table, Default, Blackhole), UnscopedRule(lane, 4)>>
    IN  (CASE ~empty(4) -> FamilyTable(node, lane, 4)
           [] empty(4) /\ ~FacesUplink(node, lane) -> deny4
           [] empty(4) /\ FacesUplink(node, lane) -> <<>>)
        \o
        (CASE ~empty(6) -> FamilyTable(node, lane, 6)
           [] Denied(lane) /\ ~FacesUplink(node, lane) -> <<UnscopedRule(lane, 6)>>
           [] OTHER -> <<>>)
----------------------------------------------------------------------------
\* Phases 3 and 4: rules by destination, each claimed by one lane only.

\* The lanes by descending priority number.
Descending(lanes) ==
    Sorted(DOMAIN lanes,
           {p \in (DOMAIN lanes) \X (DOMAIN lanes) :
               \/ lanes[p[1]].priority > lanes[p[2]].priority
               \/ lanes[p[1]].priority = lanes[p[2]].priority /\ p[1] < p[2]})

\* The rules by destination a lane asks for on some devices, without those for
\* which there is one.
NewClaims(claimed, lane, devices, priority, table) ==
    LET free(f, d, i) == ~\E r \in claimed : <<r.fam, r.to, r.iif>> = <<f, d, i>>
        wanted == UNION {{f} \X (DOMAIN lane.groups[f] \ {Default}) \X devices :
                         f \in Families}
    IN  {Rule(w[1], Default, w[2], w[3], priority, table, FALSE) :
            w \in {v \in wanted : free(v[1], v[2], v[3])}}

FacesUpstream(node, lane) == Lane(node, lane.on).kind \in {"access-uplink", "access"}
FacesDownstream(node, lane) == Lane(node, lane.on).kind \in {"access", "access-edge"}

\* Lanes of any access.
AllPairs(node, lanes) ==
    LET order == Descending(lanes)
    IN  Concat([u \in DOMAIN order |->
            [d \in DOMAIN order |-> [us |-> lanes[order[u]], ds |-> lanes[order[d]]]]])

\* The pairs of an upstream and a downstream lane of the same access, each side
\* in descending order.
CrossPairs(node, lanes) ==
    LET order == Descending(lanes)
        grid == Concat([u \in DOMAIN order |->
                    [d \in DOMAIN order |->
                        [us |-> lanes[order[u]], ds |-> lanes[order[d]]]]])
        linked(p) ==
            /\ ~Denied(p.us) /\ ~Denied(p.ds)
            /\ Lane(node, p.us.on).access # None
            /\ Lane(node, p.us.on).access = Lane(node, p.ds.on).access
            /\ FacesUpstream(node, p.us) /\ FacesDownstream(node, p.ds)
            /\ p.us.table # p.ds.table
    IN  Keep(grid, {p \in ToSet(grid) : linked(p)})
----------------------------------------------------------------------------
\* Phase 5: the routes of a downstream lane, copied into the upstream table.

ListedRoutes(node, i, f) ==
    Grouped(node, f, {r \in ToSet(Routes(node, f)) :
                         r.on = i /\ ~r.route.policyOnly /\ r.route.dst # Default})

Merged(groups, more) ==
    LET all == InSomeOrder(DOMAIN more)
    IN  AddAll(groups, Concat([k \in 1..Len(all) |->
            [n \in 1..Len(more[all[k]]) |-> Listed(all[k], more[all[k]][n])]]))

\* Every hop is a command of its own; a missing gateway is printed as "None".
Printed(hop) == IF hop.via = OnLink THEN Hop(Garbled, hop.dev) ELSE hop

CopiedRoutes(node, pair, f) ==
    LET groups == Merged(pair.ds.groups[f], ListedRoutes(node, pair.ds.on, f))
        dsts == InSomeOrder(DOMAIN groups \ {Default})
    IN  Concat([k \in 1..Len(dsts) |->
            [n \in 1..Len(groups[dsts[k]]) |->
                Route(f, pair.us.table, dsts[k], {Printed(groups[dsts[k]][n])})]])

ConnectedSubnet(node, pair, f) ==
    IF HasSubnet(node, pair.ds.on, f)
    THEN <<Route(f, pair.us.table, node.ifs[pair.ds.on].net[f],
                 {Hop(pair.ds.on, pair.ds.on)})>>
    ELSE <<>>

Augmentation(node, pair) ==
    CopiedRoutes(node, pair, 4) \o CopiedRoutes(node, pair, 6)
    \o ConnectedSubnet(node, pair, 4) \o ConnectedSubnet(node, pair, 6)
=============================================================================
