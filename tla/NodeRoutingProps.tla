-------------------------- MODULE NodeRoutingProps --------------------------
(***************************************************************************)
(* What the routing of a node must do, once its commands have run.         *)
(***************************************************************************)
EXTENDS NodeRouting

Ready == stage = "ready"
Access(i) == Lane(node, i).access

\* Every subnet a packet can come from or go to, and the rest of the world.
World == "world"
Subnets(n, f) ==
    ConnectedPrefixes(n, f) \cup {r.route.dst : r \in ToSet(Routes(n, f))}
Hosts(f) == ({World} \cup Subnets(node, f)) \ {Default}

Packet(src, dst, iif) == [src |-> src, dst |-> dst, iif |-> iif]

LaneOn(i) == {n \in DOMAIN lanes : lanes[n].on = i}
Serves(lane, i) == i = lane.on \/ Contains(lane.shared, i)

\* A destination an interface lists with a gateway of its own link.
Lists(n, i, f, d) ==
    \E r \in ToSet(Routes(n, f)) :
        /\ r.on = i /\ ~r.route.policyOnly
        /\ r.route.dst = d /\ d # Default
        /\ EffectiveVia(n, i, r.route, f) # OnLink

\* The two sides of a lane: what comes in on u and belongs behind d.
Sides(n, u, d) ==
    /\ u # d
    /\ Lane(n, u).access # None /\ Lane(n, u).access = Lane(n, d).access
    /\ Lane(n, u).kind \in {"access", "access-uplink"}
    /\ Lane(n, d).kind \in {"access", "access-edge"}
----------------------------------------------------------------------------
\* The data structures of the renderer and of the kernel are well formed; the
\* kernel's rules for a family are commands for that family.
TypeOK ==
    /\ node \in Nodes
    /\ stage \in {"main", "relations", "collect", "tables", "shared", "cross",
                  "augment", "uplinks", "validate", "deploy", "ready", "rejected"}
    /\ at \in Nat
    /\ \A n \in DOMAIN lanes : lanes[n].on \in Interfaces(node)
    /\ DOMAIN kernel = Families
    /\ \A f \in Families :
           /\ kernel[f] = [routes |-> kernel[f].routes, rules |-> kernel[f].rules]
           /\ kernel[f].rules \in Seq({c \in Commands : c.fam = f})

\* Comment at linux_policy_routes.py:835: a destination is claimed once on an
\* interface, by whichever lane or pair of lanes comes first.
ClaimedOnce ==
    \A r, s \in claimed : <<r.fam, r.to, r.iif>> = <<s.fam, s.to, s.iif>> => r = s

\* fs370_forwarding_validation.py:134: in a node that is deployed no two rules of
\* the kernel send a destination that comes in on an interface to two tables,
\* whichever phases they come from.
OneRulePerDestination ==
    Ready => \A f \in Families :
        \A r, s \in {q \in ToSet(kernel[f].rules) : DestinationRule(q)} :
            <<r.to, r.iif>> = <<s.to, s.iif>>
            => <<r.priority, r.table>> = <<s.priority, s.table>>

\* SMS-101, comment at linux_policy_routes.py:635: what comes back from
\* upstream for a subnet behind a lane's downstream interface leaves by that
\* interface, whoever sent it, and does not go back upstream.
ReturnReachesDownstream ==
    Ready => \A f \in Families : \A u, d \in Interfaces(node) :
        (Sides(node, u, d) /\ \A n \in LaneOn(u) : ~Denied(lanes[n]))
        => \A dst \in {h \in Hosts(f) : Lists(node, d, f, h)} : \A src \in Hosts(f) \ {dst} :
               Devices(kernel[f], Packet(src, dst, u)) = {d}

\* Where the packets of an access come from that enter on an interface.
Sources(i, f) ==
    IF SourcePrefixes(node, i, f, TRUE) # {} THEN SourcePrefixes(node, i, f, TRUE)
    ELSE Hosts(f)

\* A lane with a default route serves what enters on i.
Served(i, f) ==
    \E n \in DOMAIN lanes :
        /\ HasDefault(lanes[n], f)
        /\ \/ i = lanes[n].on
           \/ Contains(lanes[n].shared, i) /\ SourcePrefixes(node, i, f, TRUE) # {}
        /\ Access(lanes[n].on) \in {Access(i), None}

\* A lane of no access that carries the destination for what enters on i.
Carried(i, f, dst) ==
    \E n \in DOMAIN lanes :
        /\ Access(lanes[n].on) = None
        /\ Contains(lanes[n].shared, i)
        /\ dst \in DOMAIN lanes[n].groups[f]

\* What enters on an interface of an access that has a default route finds a
\* way, and leaves by interfaces of that access or of none, unless a lane that
\* accesses share carries it: the direct routes between two accesses in the main
\* table are not used.
AccessTrafficKeepsItsLane ==
    Ready => \A f \in Families : \A i \in Interfaces(node) :
        (Access(i) # None /\ Served(i, f))
        => \A src \in Sources(i, f) : \A dst \in Hosts(f) \ {src} :
               LET out == Devices(kernel[f], Packet(src, dst, i))
               IN  /\ out # {}
                   /\ \/ Carried(i, f, dst)
                      \/ \A dev \in out : Access(dev) \in {Access(i), None}

\* What enters on an interface several accesses share leaves toward the access
\* that its destination belongs to.
SharedTrafficFindsItsOwner ==
    Ready => \A f \in Families : \A i \in Interfaces(node) :
        \A r \in ToSet(Routes(node, f)) :
            LET owner == RouteLane(node, r.on, r.route).access
                out(src) == Devices(kernel[f], Packet(src, r.route.dst, i))
            IN  (/\ Access(i) = None /\ Uplinks(Lane(node, i)) # {}
                 /\ r.route.policyOnly /\ r.route.dst # Default /\ owner # None)
                => \A src \in Hosts(f) \ {r.route.dst} :
                       out(src) # {} /\ \A dev \in out(src) : Access(dev) = owner

\* The lanes with rules for what enters on a selector's incoming interface that
\* come before the selector's own rule, or beside it.
InFront(s) ==
    {n \in DOMAIN lanes :
        /\ Serves(lanes[n], s.incoming)
        /\ \/ lanes[n].priority <= s.priority
           \/ lanes[n].suppress # 0 /\ lanes[n].suppress <= s.priority}

\* Comment at relation_selection_rules.py:147: what a relation selects is looked
\* up in the table of the policy that owns it. Line 146 compares its priority
\* with the lane of that policy only; a lane in front of it that serves the
\* incoming interface may look up the packet first, which is left out here. The
\* lanes of all other interfaces may stand in front: none of the phases gives
\* them a rule that the packet meets.
SelectionDecides ==
    Ready => \A s \in ToSet(node.selectors) :
        InFront(s) = {}
        => DecidingTable(kernel[s.fam], Packet(s.src, s.dst, s.incoming)) = s.table

\* A resolver answers its own subnet directly and the rest of the world by the
\* default route of a lane, if one of the lanes it serves has one.
ResolverAnswersFindTheirWay ==
    Ready => \A i \in ToSet(node.resolverSources) : \A f \in Families :
        (/\ HasSubnet(node, i, f)
         /\ \E n \in DOMAIN lanes : HasDefault(lanes[n], f) /\ Serves(lanes[n], i))
        => LET self == node.ifs[i].self[f]
               out(dst) == Devices(kernel[f], Packet(self, dst, AnyDevice))
           IN  /\ out(node.ifs[i].net[f]) = {i}
               /\ \E n \in DOMAIN lanes :
                      /\ Serves(lanes[n], i)
                      /\ out(World) = {h.dev : h \in ToSet(lanes[n].groups[f][Default])}

\* What a lane without routes drops, it drops without an answer.
Silent(f) ==
    \A n \in DOMAIN lanes :
        (Denied(lanes[n]) /\ ~FacesUplink(node, lanes[n]))
        => \A src, dst \in Hosts(f) :
               (~\E r \in ToSet(kernel[f].rules) : <<r.to, r.iif>> = <<dst, lanes[n].on>>)
               => Dropped(kernel[f], Packet(src, dst, lanes[n].on))

\* IPv4: what enters on a denied lane for no one else meets the blackhole.
DeniedIPv4IsSilent == Ready => Silent(4)
----------------------------------------------------------------------------
(***************************************************************************)
(* What a node has to be like for these to hold, beyond what the renderer  *)
(* checks of it: how the control plane model numbers tables and rules, and *)
(* where it puts the routes of a subnet.                                   *)
(***************************************************************************)

LaneLinks(n) == {i \in Interfaces(n) : IsLane(n, i) /\ Allocated(n, i)}
Alloc(n, i) == n.ifs[i].alloc[1]

\* Every lane has a table of its own.
TablesApart(n) ==
    \A i, j \in LaneLinks(n) :
        /\ Alloc(n, i).table # Main
        /\ Alloc(n, i).table = Alloc(n, j).table => i = j

\* An address of the node is not written like a subnet.
AddressesApart(n) ==
    \A i \in Interfaces(n) : \A f \in Families :
        HasSubnet(n, i, f) => n.ifs[i].self[f] \notin {World, Default} \cup Subnets(n, f)

\* Where a route that a lane carries leaves.
Out(n, t, r, f) ==
    IF ~r.route.policyOnly /\ (r.route.proto = "connected" \/ r.route.dst = Default) THEN t
    ELSE Surface(n, r.on, RouteLane(n, r.on, r.route), r.route, f)

\* A lane takes what its interface lists for a destination.
Takes(n, t, r, f) ==
    /\ Eligible(n, t, r)
    /\ r.route.policyOnly \/ r.route.proto # "connected"
    /\ EffectiveVia(n, Out(n, t, r, f), r.route, f) # OnLink
    /\ ~(r.route.canonical /\ r.route.dst \in OtherLaneAddresses(n, t))

\* The selectors for the same packets agree, and the interface that owns the policy
\* has a lane that takes the granted route.
SelectorsFit(n) ==
    \A s \in ToSet(n.selectors) :
        /\ \A t \in ToSet(n.selectors) :
               <<s.fam, s.src, s.dst, s.incoming>> = <<t.fam, t.src, t.dst, t.incoming>>
               => s.table = t.table
        /\ IsLane(n, s.policy)
        /\ \A k \in Granting(n, s) :
               Takes(n, s.policy, [on |-> s.policy, route |-> n.ifs[s.policy].routes[s.fam][k]],
                     s.fam)

\* The interfaces whose routes end up in the table of a lane.
Behind(n, t) ==
    {t} \cup {i \in Interfaces(n) :
                 Lane(n, i).access # None /\ Lane(n, i).access = Lane(n, t).access}

\* What a lane's table says of a destination, it says that it is out there.
OnlyBehind(n, f, dst, out, t) ==
    /\ \A j \in Behind(n, t) : \A r \in ToSet(Routes(n, f)) :
           (Eligible(n, j, r) /\ r.route.dst = dst) => Out(n, j, r, f) \in out
    /\ \A j \in Behind(n, t) : Lists(n, j, f, dst) => j \in out
    /\ \A j \in Behind(n, t) \cup ToSet(n.resolverSources) :
           n.ifs[j].net[f] = dst => j \in out

\* The lanes whose tables are asked about what enters on u.
Asked(n, u) ==
    {t \in LaneLinks(n) : \/ t \in Behind(n, u)
                          \/ Contains(SharedInterfaces(n, t), u)}

\* Nothing is behind the upstream side of a lane that the renderer knows of, and
\* what the downstream side lists is behind it for every lane that is asked.
ReturnsFit(n) ==
    \A f \in Families : \A u, d \in Interfaces(n) : Sides(n, u, d) =>
        /\ SourcePrefixes(n, u, f, TRUE) = {}
        /\ \A r \in ToSet(Routes(n, f)) :
               LET dst == r.route.dst
               IN  (/\ r.on = d /\ ~r.route.policyOnly /\ dst # Default
                    /\ EffectiveVia(n, d, r.route, f) # OnLink)
                   => /\ Takes(n, d, r, f)
                      /\ \A t \in Asked(n, u) : OnlyBehind(n, f, dst, {d}, t)
                      /\ \A s \in ToSet(n.selectors) :
                             <<s.fam, s.incoming, s.dst>> # <<f, u, dst>>

\* No subnet is behind a lane without routes.
DenialsFit(n) ==
    \A i \in LaneLinks(n) :
        Denied(LaneData(n, i)) => SourcePrefixes(n, i, 4, TRUE) = {}

\* A resolver's addresses differ, and its subnets are behind the interfaces they
\* are on.
ResolversFit(n) ==
    \A f \in Families : \A i \in {j \in ToSet(n.resolverSources) : HasSubnet(n, j, f)} :
        /\ \A j \in {k \in ToSet(n.resolverSources) : HasSubnet(n, k, f)} :
               n.ifs[i].self[f] = n.ifs[j].self[f] => i = j
        /\ World \notin Subnets(n, f)
        /\ \A t \in LaneLinks(n) :
               (i = t \/ Contains(SharedInterfaces(n, t), i))
               => OnlyBehind(n, f, n.ifs[i].net[f], {i}, t)

\* The interfaces of an access, or of none.
Of(n, access) == {i \in Interfaces(n) : Lane(n, i).access = access}

\* A subnet of an access is taken by the lane of an interface that accesses share,
\* and whatever table is asked about what enters there says that it is behind that
\* access.
OwnerFits(n, f, i, dst, owner) ==
    /\ IsLane(n, i)
    /\ \E r \in ToSet(Routes(n, f)) : r.on = i /\ r.route.dst = dst /\ Takes(n, i, r, f)
    /\ Lane(n, i).kind # "access-uplink"
    /\ SourcePrefixes(n, i, f, TRUE) = {}
    /\ \A t \in Asked(n, i) : OnlyBehind(n, f, dst, Of(n, owner), t)
    /\ \A s \in ToSet(n.selectors) : <<s.fam, s.incoming, s.dst>> # <<f, i, dst>>

\* That is so of every subnet that a policy lists.
OwnersFit(n) ==
    \A f \in Families : \A i \in Of(n, None) : Uplinks(Lane(n, i)) # {} =>
        \A r \in ToSet(Routes(n, f)) :
            (/\ r.route.policyOnly /\ r.route.dst # Default
             /\ RouteLane(n, r.on, r.route).access # None)
            => OwnerFits(n, f, i, r.route.dst, RouteLane(n, r.on, r.route).access)

\* A lane with a default route serves what enters on i, as Served says.
Provides(n, f, t, i) ==
    /\ Default \in DOMAIN LaneGroups(n, t, f)
    /\ \/ t = i
       \/ Contains(SharedInterfaces(n, t), i) /\ SourcePrefixes(n, i, f, TRUE) # {}

\* The main table is asked after every lane.
MainLast(n) ==
    \A i, j \in LaneLinks(n) :
        Alloc(n, i).suppress = 0 \/ Alloc(n, j).priority < Alloc(n, i).suppress

\* The interfaces of the access that an interface belongs to, or of none.
OwnOrShared(n, i) == Of(n, Lane(n, i).access) \cup Of(n, None)

\* The lane of an interface of an access has routes and knows all that is behind it,
\* the policies that select there have a lane that is asked anyway, and whatever
\* table is asked leads out by the links of that access or of none, except for the
\* subnets that a lane of none carries.
AccessFits(n, f, i) ==
    /\ LaneGroups(n, i, f) # NoGroups
    /\ SourcePrefixes(n, i, f, FALSE) \in {{}, SourcePrefixes(n, i, f, TRUE)}
    /\ \A s \in ToSet(n.selectors) : (s.fam = f /\ s.incoming = i) =>
           s.policy \in Asked(n, i) /\ LaneGroups(n, s.policy, f) # NoGroups
    /\ \A b \in ToSet(n.resolverSources) : HasSubnet(n, b, f) => b \in OwnOrShared(n, i)
    /\ \A t \in Asked(n, i) :
           /\ t \in OwnOrShared(n, i)
           /\ \A dst \in {Default} \cup Subnets(n, f) :
                  (dst = Default \/ Lane(n, t).access # None)
                  => OnlyBehind(n, f, dst, OwnOrShared(n, i), t)

\* That is so of every interface of an access for which a lane provides.
AccessesFit(n) ==
    /\ MainLast(n)
    /\ \A f \in Families : \A i \in Interfaces(n) \ Of(n, None) :
           (\E t \in LaneLinks(n) : Provides(n, f, t, i)) => AccessFits(n, f, i)
=============================================================================
