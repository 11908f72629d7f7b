------------------------------ MODULE NodeData ------------------------------
(***************************************************************************)
(* The data a router node of the control plane model carries, and what the *)
(* renderer reads out of it: lanes, gateways and the groups of next hops   *)
(* it collects (linux_route_values.py, linux_route_via.py,                 *)
(* linux_route_state.py).                                                  *)
(*                                                                         *)
(* The interfaces of a node are a sequence in the order of their names;    *)
(* an interface is known by its position, which also stands for its device.*)
(* An interface with a subnet is a link with one neighbour or a tenant     *)
(* network; a gateway is the neighbour of such a link or an own address.   *)
(* Overlays, loopbacks and the addresses of WAN peers are left out.        *)
(***************************************************************************)
EXTENDS KernelRouting, ListOps, Functions

None == "none"

\* A lane: the access node and the uplinks its traffic belongs to.
NoLane == [kind |-> None, access |-> None, uplink |-> None, uplinks |-> {}]

\* A route that no relation grants.
NoRelation == [id |-> None, direction |-> None]

Interfaces(node) == 1..Len(node.ifs)

\* The shape of the data: lists are lists, numbers are numbers, and what is
\* referred to is there.
WellShaped(node) ==
    /\ IsSequence(node.ifs) /\ IsSequence(node.forwarding)
    /\ IsSequence(node.selectors) /\ IsSequence(node.resolverSources)
    /\ \A i \in Interfaces(node) :
           /\ node.ifs[i].alloc # <<>> =>
                  {node.ifs[i].alloc[1].priority, node.ifs[i].alloc[1].suppress} \subseteq Nat
           /\ \A f \in Families :
                  /\ node.ifs[i].net[f] # Default
                  /\ IsSequence(node.ifs[i].routes[f])
                  /\ \A r \in ToSet(node.ifs[i].routes[f]) : r.via \in Int
    /\ \A r \in ToSet(node.forwarding) : {r.from, r.to} \subseteq Interfaces(node)
    /\ \A s \in ToSet(node.selectors) : s.fam \in Families /\ s.priority \in Nat
    /\ ToSet(node.resolverSources) \subseteq Interfaces(node)

Lane(node, i) == node.ifs[i].lane
Uplinks(lane) == lane.uplinks \cup ({lane.uplink} \ {None})
SameUplink(a, b) == Uplinks(a) \cap Uplinks(b) # {}

RouteLane(node, j, route) ==
    IF route.lane # NoLane THEN route.lane ELSE Lane(node, j)

\* The routes of all interfaces for a family, with the interface of each.
Routes(node, f) ==
    Concat([j \in Interfaces(node) |->
        [k \in 1..Len(node.ifs[j].routes[f]) |->
            [on |-> j, route |-> node.ifs[j].routes[f][k]]]])

HasSubnet(node, i, f) == node.ifs[i].net[f] # None
ConnectedPrefixes(node, f) ==
    {node.ifs[i].net[f] : i \in Interfaces(node)} \ {None}

\* The other end of a link.
Peer(node, i, f) == IF HasSubnet(node, i, f) THEN i ELSE OnLink

IsLocal(via) == via < 0

\* The gateway of a route out of interface i, OnLink when it has none there:
\* an own address is no gateway, an uplink route may use the other end, and
\* the gateway must be in the interface's subnet.
EffectiveVia(node, i, route, f) ==
    LET given == IF IsLocal(route.via) THEN OnLink ELSE route.via
        via == IF given = OnLink /\ route.proto = "uplink"
               THEN Peer(node, i, f) ELSE given
    IN  IF via = i /\ HasSubnet(node, i, f) THEN via ELSE OnLink
----------------------------------------------------------------------------
\* Next hops by destination, each list in the order of insertion.
NoGroups == [d \in {} |-> <<>>]
HopsFor(groups, d) == IF d \in DOMAIN groups THEN groups[d] ELSE <<>>

AddHop(groups, d, hop) ==
    IF Contains(HopsFor(groups, d), hop) THEN groups
    ELSE [e \in DOMAIN groups \cup {d} |->
             IF e = d THEN Append(HopsFor(groups, d), hop) ELSE groups[e]]

Without(groups, d) == Restrict(groups, DOMAIN groups \ {d})

Hop(via, dev) == [via |-> via, dev |-> dev]

\* A hop by a gateway; a route without one is left out.
AddGateway(groups, d, via, dev) ==
    IF via = OnLink THEN groups ELSE AddHop(groups, d, Hop(via, dev))

\* A list of hops, one after the other.
AddAll(groups, listed) ==
    LET upTo[k \in 0 .. Len(listed)] ==
            IF k = 0 THEN groups
            ELSE AddHop(upTo[k - 1], listed[k].dst, listed[k].hop)
    IN  upTo[Len(listed)]

Listed(d, hop) == [dst |-> d, hop |-> hop]

\* The hops of some of a node's routes, each by a gateway out of the interface
\* that lists it.
Grouped(node, f, chosen) ==
    LET via(r) == EffectiveVia(node, r.on, r.route, f)
        routes == Keep(Routes(node, f), {r \in chosen : via(r) # OnLink})
    IN  AddAll(NoGroups, [k \in 1..Len(routes) |->
            Listed(routes[k].route.dst, Hop(via(routes[k]), routes[k].on))])
=============================================================================
