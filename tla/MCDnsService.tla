---------------------------- MODULE MCDnsService ----------------------------
(***************************************************************************)
(* Labs for TLC: a local-only resolver whose namespace a forwarding one    *)
(* owns, which asks a core that recurses; resolvers with a proxy; and      *)
(* variations of each, of which many are refused.                          *)
(***************************************************************************)
EXTENDS DnsService

Nets == {"rec", "loc", "core", "edge", "cr", "cl", "guest", "ce", "pub", "root", "tld", "ctl", "dlg", "isp"}
Address(net, family) == <<net, family>>
Both(net) == {Address(net, 4), Address(net, 6)}
MCAddresses == Nets \X {4, 6}
MCAddressFamily == [a \in MCAddresses |-> a[2]]

\* A prefix is a set of networks in one family: the second contains the first.
Prefix(nets, family) == <<nets, family>>
MCPrefixes == {{n} : n \in Nets} \cup {{"cl", "guest"}, {"pub", "isp"}}
MCHosts == [p \in MCPrefixes \X {4, 6} |-> p[1] \X {p[2]}]
Dual(nets) == {Prefix(nets, 4), Prefix(nets, 6)}

MCClosest ==
    ("host.lab." :> <<"host.lab.", "lab.", ".">>) @@
    ("box.home." :> <<"box.home.", "home.", ".">>) @@
    ("athome." :> <<"athome.", ".">>)
MCEndsIn ==
    ("host.lab." :> {"host.lab.", "lab.", "."}) @@
    ("box.home." :> {"box.home.", "home.", "."}) @@
    ("athome." :> {"athome.", "home.", "."})
Query(name, class) == [name |-> name, class |-> class]
MCQueries == {Query(n, "A") : n \in {"host.lab.", "box.home.", "athome."}} \cup {Query("box.home.", "AAAA")}
MCPublicRoots == Both("root")
MCPublicServers == Both("tld") \cup {Address("pub", 4)}
MCPublicResolvers == Both("pub")
----------------------------------------------------------------------------
Contract(mode, listen, allow) ==
    [mode |-> mode, fatal |-> FALSE, legacy |-> <<>>, upstream |-> {}, bindings |-> {},
     listen |-> listen, allow |-> allow, policies |-> {}, forwardZones |-> {},
     localZones |-> {}, localOnly |-> FALSE, protected |-> <<>>, fallback |-> {},
     records |-> {}, outgoing |-> {}, kill |-> FALSE, denied |-> {},
     validation |-> NoAuthority]

Upstream(kind, net) == [kind |-> kind, addrs |-> Both(net), endpoint |-> TRUE]
Binding(at, net) == [at |-> at, addrs |-> Both(net), complete |-> TRUE]
Zone(name, type) == [name |-> name, type |-> type]
Forward(name, net) == [name |-> name, to |-> Both(net), first |-> FALSE, owned |-> TRUE]
Policy(prefixes) == [prefixes |-> prefixes, complete |-> TRUE]
Decision(name, action, classes) ==
    [namespace |-> name, action |-> action, public |-> FALSE, allowed |-> {}, denied |-> classes]
Publication(scope, name, records) ==
    [scope |-> scope, namespace |-> name, approved |-> TRUE, records |-> records]
Egress(uplink) == [required |-> TRUE, complete |-> TRUE, uplink |-> uplink]
Harness(uplink) ==
    [harness |-> TRUE, consistent |-> TRUE, selected |-> uplink, alternates |-> <<"wan3">>,
     bridge |-> uplink, root |-> Both("ctl"), delegated |-> Both("dlg")]

Node(dns, net, above) ==
    [dns |-> dns, interfaces |-> {[at |-> net, addrs |-> Both(net)]}, egress |-> NoEgress,
     closed |-> FALSE, guarded |-> TRUE, above |-> above, resolvers |-> <<>>]
Client(net, above, asks) ==
    [Node(NoService, net, above) EXCEPT !.resolvers = [i \in DOMAIN asks |->
        [v4 |-> Address(asks[i], 4), v6 |-> Address(asks[i], 6)]]]
----------------------------------------------------------------------------
Core ==
    [Node([Contract("iterative", Both("core"), Dual({"rec"})) EXCEPT
              !.bindings = {Binding("core", "core")}],
          "core", <<>>)
     EXCEPT !.egress = Egress("wan1"), !.closed = TRUE]

Recursive ==
    Node([Contract("forwarding", Both("rec"), Dual({"cr"})) EXCEPT
             !.upstream = {Upstream("named-core-resolver", "core")},
             !.policies = {Policy(Dual({"loc"}))},
             !.localZones = {Zone("lab.", "static")},
             !.records = {Query("host.lab.", "A")},
             !.outgoing = Both("rec"),
             !.kill = TRUE, !.denied = Dual({"pub", "isp"})],
         "rec", <<"core">>)

Local ==
    Node([Contract("local-only", Both("loc"), Dual({"cl"})) EXCEPT
             !.upstream = {Upstream("local-namespace-authority", "rec")},
             !.forwardZones = {Forward("lab.", "rec")},
             !.localZones = {Zone("lab.", "transparent")},
             !.localOnly = TRUE,
             !.outgoing = Both("loc")],
         "loc", <<"core">>)

Edge ==
    Node([Contract("none", Both("edge"), {}) EXCEPT
             !.legacy = <<Address("isp", 4), Address("isp", 6), Address("pub", 4)>>,
             !.records = {Query("host.lab.", "A")},
             !.fallback = {Decision("home.", "block", {"A"})},
             !.outgoing = Both("edge"),
             !.kill = TRUE, !.denied = Dual({"pub", "isp"})],
         "edge", <<>>)

Site(core, rec, loc) ==
    [core |-> core, rec |-> rec, loc |-> loc,
     cr |-> Client("cr", <<"rec", "core">>, <<"rec">>),
     cl |-> Client("cl", <<"loc", "core">>, <<"loc", "rec">>),
     guest |-> Client("guest", <<"loc", "core">>, <<"loc">>)]
EdgeSite(edge) == [edge |-> edge, ce |-> Client("ce", <<"edge">>, <<"edge">>)]
TwoTier(core, rec) ==
    [core |-> core, rec |-> rec,
     cr |-> Client("cr", <<"rec", "core">>, <<"rec">>),
     cl |-> Client("cl", <<"rec", "core">>, <<"rec">>)]
----------------------------------------------------------------------------
\* Variations, of one or two fields each

With(node, dns) == [node EXCEPT !.dns = dns]
CoreNodes ==
    {[Core EXCEPT !.dns.validation = Harness(u)] : u \in {"wan1", "wan2"}}
      \cup {[Core EXCEPT !.dns.validation = [Harness("wan1") EXCEPT !.harness = FALSE]],
            [Core EXCEPT !.dns.legacy = <<Address("isp", 4)>>],
            [Core EXCEPT !.egress.complete = FALSE],
            [Core EXCEPT !.dns.kill = TRUE, !.dns.denied = Dual({"pub", "isp"}),
                         !.dns.outgoing = Both("core")],
            [Core EXCEPT !.dns.mode = "forwarding", !.dns.validation = Harness("wan1"),
                         !.dns.upstream = {Upstream("named-core-resolver", "isp")}],
            [Core EXCEPT !.interfaces = @ \cup {[at |-> "core", addrs |-> {}]}],
            [Core EXCEPT !.dns.policies = {Policy(Dual({"rec"}))}, !.dns.allow = {}]}

Home == Publication("s1", "home.", {Query("nas.home.", "A")})
RecursiveNodes ==
    LET dns == Recursive.dns
    IN  {With(Recursive, d) : d \in
         {[dns EXCEPT !.policies = {Policy(Dual({"cl"}))}, !.allow = Dual({"cr"}) \cup Dual({"cl", "guest"})],
          [dns EXCEPT !.policies = {[prefixes |-> Dual({"cl"}), complete |-> FALSE]}],
          [dns EXCEPT !.protected = <<Home>>],
          [dns EXCEPT !.protected = <<Home>>, !.localZones = @ \cup {Zone("home.", "transparent")}],
          [dns EXCEPT !.protected = <<Home>>, !.forwardZones = {Forward("home.", "isp")}],
          [dns EXCEPT !.protected = <<Home, [Home EXCEPT !.namespace = "lab."]>>],
          [dns EXCEPT !.protected = <<[Home EXCEPT !.approved = FALSE]>>],
          [dns EXCEPT !.protected = <<[Home EXCEPT !.namespace = "."]>>],
          [dns EXCEPT !.fallback = {Decision("home.", "deny", {})}],
          [dns EXCEPT !.fallback = {[Decision("home.", "deny", {}) EXCEPT !.public = TRUE]}],
          [dns EXCEPT !.legacy = <<Address("core", 6), Address("core", 4)>>],
          [dns EXCEPT !.legacy = <<Address("isp", 4)>>],
          [dns EXCEPT !.outgoing = {Address("rec", 4)}],
          [dns EXCEPT !.outgoing = {}],
          [dns EXCEPT !.upstream = {[kind |-> "named-core-resolver", addrs |-> Both("isp"), endpoint |-> TRUE]}],
          [dns EXCEPT !.fatal = TRUE],
          [dns EXCEPT !.localZones = {Zone("lab.", "always_refuse"), Zone("home.", "deny")}],
          [dns EXCEPT !.bindings = {Binding("rec", "core")}],
          [dns EXCEPT !.bindings = {Binding("elsewhere", "rec")}]}}

LocalNodes ==
    LET dns == Local.dns
        lab == Forward("lab.", "rec")
    IN  {With(Local, d) : d \in
         {[dns EXCEPT !.forwardZones = {[lab EXCEPT !.first = TRUE]}],
          [dns EXCEPT !.forwardZones = {[lab EXCEPT !.owned = FALSE]}],
          [dns EXCEPT !.localOnly = FALSE],
          [dns EXCEPT !.localZones = {}],
          [dns EXCEPT !.localZones = {Zone("lab.", "static")}]}}

EdgeNodes ==
    LET dns == Edge.dns
    IN  {With(Edge, d) : d \in
         {[dns EXCEPT !.fallback = {[Decision("home.", "block", {}) EXCEPT !.allowed = {"A"}]}],
          [dns EXCEPT !.fallback = {Decision("home.", "deny", {"PUBLIC-RECURSION"})}],
          [dns EXCEPT !.legacy = <<Address("isp", 4), Address("edge", 4)>>],
          [dns EXCEPT !.outgoing = {}],
          [dns EXCEPT !.kill = FALSE],
          [dns EXCEPT !.mode = "other"]}}
      \cup {[Edge EXCEPT !.closed = TRUE], [Edge EXCEPT !.guarded = FALSE]}

MCLabs ==
    {TwoTier(c, Recursive) : c \in CoreNodes}
      \cup {TwoTier(Core, r) : r \in RecursiveNodes \cup {[Recursive EXCEPT !.guarded = FALSE]}}
      \cup {Site(Core, Recursive, l) : l \in LocalNodes \cup {Local}}
      \cup {EdgeSite(e) : e \in EdgeNodes \cup {Edge}}
=============================================================================
