--------------------------- MODULE MCNodeRouting ---------------------------
(***************************************************************************)
(* Instances of NodeRouting for TLC: the four kinds of node between a      *)
(* tenant and a core, for two access nodes a and b.                        *)
(***************************************************************************)
EXTENDS NodeRoutingProps

LaneOf(kind, access, uplink, uplinks) ==
    [kind |-> kind, access |-> access, uplink |-> uplink, uplinks |-> uplinks]

Plain == [dst |-> Default, via |-> 0, policyOnly |-> FALSE, proto |-> "internal",
          lane |-> NoLane, canonical |-> TRUE, behindAccess |-> FALSE,
          defaultIntent |-> FALSE, relation |-> NoRelation]

ToTenant(t, k) == [Plain EXCEPT !.dst = t, !.via = k, !.behindAccess = TRUE]
DefaultVia(k) == [Plain EXCEPT !.via = k, !.proto = "default", !.defaultIntent = TRUE]
PolicyDefault(k, lane) == [DefaultVia(k) EXCEPT !.policyOnly = TRUE, !.lane = lane]
PolicyTenant(t, k, lane) == [Plain EXCEPT !.dst = t, !.via = k, !.policyOnly = TRUE, !.lane = lane]
Connected(n) == [Plain EXCEPT !.dst = n, !.proto = "connected"]

Both(routes) == [f \in Families |-> routes]
Names == <<"n1", "n2", "n3", "n4", "n5">>
Selfs == <<"s1", "s2", "s3", "s4", "s5">>

Link(i, name, lane, priority, routes) ==
    [name |-> name, lane |-> lane, lan |-> FALSE, firstAddress |-> FALSE,
     exitFacing |-> FALSE,
     net |-> Both(Names[i]), self |-> Both(Selfs[i]), routes |-> routes,
     alloc |-> <<[table |-> 1000 + i, priority |-> 1000 + priority,
                  suppress |-> 11000 + priority, ruled |-> TRUE]>>]

Accept(from, to) == [accept |-> TRUE, from |-> from, to |-> to, logical |-> TRUE]

BaseNode(role, ifs, forwarding) ==
    [role |-> role, ifs |-> ifs, forwarding |-> forwarding, selectors |-> <<>>,
     resolverSources |-> <<>>, bgp |-> FALSE,
     exitsSite |-> FALSE, defaultReachability |-> FALSE]

Orders == {<<1, 2, 3, 4>>, <<4, 3, 2, 1>>, <<2, 1, 4, 3>>, <<3, 1, 4, 2>>}

\* Which of the accesses have a default route, per family.
Grants == [Families -> SUBSET {"a", "b"}]
PolicyDefaults(grants, access, k, lane) ==
    [f \in Families |-> IF access \in grants[f] THEN <<PolicyDefault(k, lane)>> ELSE <<>>]

Edge(access) == LaneOf("access-edge", access, None, {})
ToPolicy(access) == LaneOf("access", access, None, {})
Uplinked(access, u) == LaneOf("access-uplink", access, u, {u})
GrantLane(access, u) == LaneOf(None, access, u, {})

DownstreamSelector(order, grants) ==
    BaseNode("downstream-selector",
        <<Link(1, "edge-a", Edge("a"), order[1], Both(<<ToTenant("ta", 1)>>)),
          Link(2, "edge-b", Edge("b"), order[2], Both(<<ToTenant("tb", 2)>>)),
          Link(3, "policy", ToPolicy("a"), order[3], PolicyDefaults(grants, "a", 3, GrantLane("a", "u"))),
          Link(4, "policy", ToPolicy("b"), order[4], PolicyDefaults(grants, "b", 4, GrantLane("b", "u")))>>,
        <<Accept(1, 3), Accept(3, 1), Accept(2, 4), Accept(4, 2)>>)

\* The same for one access node only.
SingleAccess(order, families) ==
    BaseNode("downstream-selector",
        <<Link(1, "edge-a", Edge("a"), order[1], Both(<<ToTenant("ta", 1)>>)),
          Link(2, "policy", ToPolicy("a"), order[2],
               PolicyDefaults([f \in Families |-> IF f \in families THEN {"a"} ELSE {}],
                              "a", 2, GrantLane("a", "u")))>>,
        <<Accept(1, 2), Accept(2, 1)>>)

PolicyNode(order, grants) ==
    BaseNode("policy",
        <<Link(1, "downstream-a", ToPolicy("a"), order[1], Both(<<ToTenant("ta", 1)>>)),
          Link(2, "downstream-b", ToPolicy("b"), order[2], Both(<<ToTenant("tb", 2)>>)),
          Link(3, "upstream-a", Uplinked("a", "u"), order[3], PolicyDefaults(grants, "a", 3, GrantLane("a", "u"))),
          Link(4, "upstream-b", Uplinked("b", "u"), order[4], PolicyDefaults(grants, "b", 4, GrantLane("b", "u")))>>,
        <<Accept(1, 3), Accept(3, 1), Accept(2, 4), Accept(4, 2)>>)

\* Two uplinks for one access; granted names the uplinks with a default route.
TwoUplinks(order, granted) ==
    LET defaults(u, k) == IF u \in granted
                          THEN Both(<<PolicyDefault(k, GrantLane("a", u))>>)
                          ELSE Both(<<>>)
    IN  BaseNode("policy",
            <<Link(1, "downstream-a", ToPolicy("a"), order[1], Both(<<ToTenant("ta", 1)>>)),
              Link(2, "upstream-a-u", Uplinked("a", "u"), order[2], defaults("u", 2)),
              Link(3, "upstream-a-w", Uplinked("a", "w"), order[3], defaults("w", 3))>>,
            <<Accept(1, 2), Accept(2, 1), Accept(1, 3), Accept(3, 1)>>)

\* A lane for two accesses' uplinks; IPv6 prefixes may come written out.
UpstreamSelector(order, canonical) ==
    LET tenant(t, k, access, u, f) ==
            [PolicyTenant(t, k, Uplinked(access, u)) EXCEPT !.canonical = f = 4 \/ canonical]
        listed == [f \in Families |->
                    <<PolicyDefault(1, NoLane), tenant("ta", 2, "a", "u", f),
                      tenant("ta", 3, "a", "w", f), tenant("tb", 4, "b", "u", f)>>]
    IN  BaseNode("upstream-selector",
            <<Link(1, "core", LaneOf(None, None, None, {"u", "w"}), order[1], listed),
              Link(2, "policy-a-u", Uplinked("a", "u"), order[2], Both(<<>>)),
              Link(3, "policy-a-w", Uplinked("a", "w"), order[3], Both(<<>>)),
              Link(4, "policy-b-u", Uplinked("b", "u"), order[4], Both(<<>>))>>,
            <<Accept(2, 1), Accept(1, 2), Accept(3, 1), Accept(1, 3),
              Accept(4, 1), Accept(1, 4)>>)

\* Two tenant networks behind one access node, which may run a resolver.
TenantLink(i, priority) ==
    [Link(i, "tenant", LaneOf("tenant", "a", None, {}), priority,
          Both(<<Connected(Names[i])>>)) EXCEPT !.lan = TRUE]

AccessNode(order, families, resolver) ==
    [BaseNode("access",
        <<Link(1, "edge", Edge("a"), order[1],
               [f \in Families |-> (IF f \in families THEN <<DefaultVia(1)>> ELSE <<>>)
                                   \o <<Connected(Names[1])>>]),
          TenantLink(2, order[2]),
          TenantLink(3, order[3])>>,
        <<Accept(2, 1), Accept(1, 2), Accept(3, 1), Accept(1, 3)>>)
     EXCEPT !.resolverSources = resolver]

\* A node that speaks BGP toward its uplink.
BgpNode(order) ==
    LET uplink(d) == [Plain EXCEPT !.dst = d, !.proto = "uplink"]
    IN  [AccessNode(order, {}, <<>>) EXCEPT
            !.role = "core", !.bgp = TRUE, !.exitsSite = TRUE,
            !.ifs[1].routes = Both(<<uplink(Default), uplink("ta")>>)]

\* A relation between tenants of the two accesses, in a node that sends either
\* direction to the policy node by the sender's own link.
Selector4(direction, src, dst, incoming, policy, priority) ==
    [relation |-> "r", fam |-> 4, direction |-> direction, src |-> src, dst |-> dst,
     incoming |-> incoming, policy |-> policy, table |-> 1000 + policy,
     priority |-> priority]

Granted(t, k, direction) ==
    [PolicyTenant(t, k, NoLane) EXCEPT !.relation = [id |-> "r", direction |-> direction]]

Related(order, selectors) ==
    [DownstreamSelector(order, [f \in Families |-> {"a", "b"}]) EXCEPT
        !.ifs[3].routes[4] = Append(@, Granted("tb", 3, "forward")),
        !.ifs[4].routes[4] = Append(@, Granted("ta", 4, "return")),
        !.selectors = selectors]

Forward == Selector4("forward", "ta", "tb", 1, 3, 10)
Return == Selector4("return", "tb", "ta", 2, 4, 10)

\* The relation's rules right in front of the lane of their own policy: behind no
\* other lane, behind lanes of the other access, or behind one of their own.
Close(order) ==
    Related(order, <<[Forward EXCEPT !.priority = 999 + order[3]],
                     [Return EXCEPT !.priority = 999 + order[4]]>>)
CloseOrders == {<<4, 3, 2, 1>>, <<4, 2, 3, 1>>, <<2, 4, 1, 3>>, <<1, 2, 3, 4>>}

\* Nodes the renderer must refuse: a lane without its table, a selector without
\* its counterpart or late, a link listed behind the lane that shares it, and an
\* access route with two gateways.
BadNodes(order) ==
    LET base == DownstreamSelector(order, [f \in Families |-> {"a", "b"}])
    IN  {[base EXCEPT !.ifs[3].alloc = <<>>],
         Related(order, <<Forward>>),
         Related(order, <<Forward, [Return EXCEPT !.priority = 2000]>>),
         [base EXCEPT !.ifs[1].routes = Both(<<ToTenant("ta", 1), Connected(Names[1])>>),
                      !.ifs[3].routes[4] = Append(@, PolicyTenant(Names[1], 3, ToPolicy("a")))],
         [AccessNode(order, {4}, <<>>) EXCEPT
             !.ifs[2].routes[4] = <<ToTenant("ta", 2)>>,
             !.ifs[3].routes[4] = <<ToTenant("ta", 3)>>]}

MCNodes ==
    {DownstreamSelector(o, g) : o \in Orders, g \in Grants}
    \cup {PolicyNode(o, g) : o \in Orders, g \in Grants}
    \cup {SingleAccess(o, f) : o \in Orders, f \in SUBSET Families}
    \cup {TwoUplinks(o, u) : o \in Orders, u \in SUBSET {"u", "w"}}
    \cup {UpstreamSelector(o, c) : o \in Orders, c \in BOOLEAN}
    \cup {AccessNode(o, f, r) : o \in Orders, f \in SUBSET Families, r \in {<<>>, <<2>>}}
    \cup {BgpNode(o) : o \in Orders}
    \cup {Related(o, <<Forward, Return>>) : o \in Orders}
    \cup {Close(o) : o \in CloseOrders}
    \cup UNION {BadNodes(o) : o \in Orders}

\* The nodes that are not refused are such that all the properties apply.
ASSUME NodesFit ==
    \A n \in MCNodes \ UNION {BadNodes(o) : o \in Orders} :
        /\ TablesApart(n)
        /\ AddressesApart(n)
        /\ SelectorsFit(n)
        /\ ReturnsFit(n)
        /\ DenialsFit(n)
        /\ ResolversFit(n)
        /\ OwnersFit(n)
        /\ AccessesFit(n)
=============================================================================
