----------------------------- MODULE DnsService -----------------------------
(***************************************************************************)
(* The resolvers of a deployed lab (dns_service.py): Unbound where the     *)
(* contract has a recursion mode, the proxy where it has none; the rules   *)
(* that let requesters in and keep resolvers out; and one query on its way *)
(* from a requester from resolver to resolver.                             *)
(*                                                                         *)
(* A node is a record as in DnsContract, with further                      *)
(*   closed     whether its input chain drops what no rule accepts;        *)
(*   guarded    whether the commands of its guard against public resolvers *)
(*              have all succeeded: the script goes on where one fails;    *)
(*   above      the nodes between it and the uplinks, nearest first;       *)
(*   resolvers  the dnsResolver records of its interfaces, a sequence of   *)
(*              [v4, v6], each an address or NoAddress.                    *)
(* Routes lead to the node that has an address, or out of the lab by some  *)
(* uplink: by which, and what the table of the DNS egress holds, is the    *)
(* business of other modules.  The input rules of requesters are in force. *)
(***************************************************************************)
EXTENDS UnboundReconcile, UnboundService, DnsProxy

CONSTANTS
    Labs,              \* the labs to render, functions from names to nodes
    Queries,           \* what is asked: a set of [name, class]
    PublicResolvers,   \* what programs ask that do not read resolv.conf
    MaxHops,           \* bound: how often a query is sent on
    NoAddress, NoQuery

\* What is asked is a name, and the proxy finds its namespaces in its text.  The
\* prefixes of contracts are prefixes.
ASSUME QueriesAssumption ==
    \A q \in Queries : q.name \in DOMAIN Closest /\ ToSet(Closest[q.name]) \subseteq EndsIn[q.name]
ASSUME LabsAssumption ==
    \A lab \in Labs :
        /\ IsFiniteSet(DOMAIN lab)
        /\ \A n \in DOMAIN lab :
               lab[n].dns # NoService =>
                   lab[n].dns.allow \cup PolicyPrefixes(lab[n].dns) \subseteq DOMAIN Hosts

VARIABLES
    nodes,     \* the lab that was rendered and deployed
    threads,   \* the listeners of proxies whose thread lives
    query,     \* the query under way or decided
    trail      \* who sent it on: a sequence of [node, src, dst]

dnsVars == <<nodes, threads, query, trail>>
allVars == <<vars, dnsVars>>

Serving(n) == nodes[n].dns # NoService
\* _has_unbound_runtime
RunsUnbound(node) == node.dns # NoService /\ node.dns.mode # "none"
Proxies(lab) == {n \in DOMAIN lab : lab[n].dns # NoService /\ ~RunsUnbound(lab[n])}

Owners(a) == {n \in DOMAIN nodes : a \in Materialized(nodes[n])}
Family(a) == AddressFamily[a]

\* A lab is rendered if nothing in it is refused.  A thread of a proxy ends if its
\* address is not there yet.
DnsInit ==
    /\ nodes \in {lab \in Labs : \A n \in DOMAIN lab : ~Refused(lab[n])}
    /\ LoopInit(SetToSeq({n \in DOMAIN nodes : RunsUnbound(nodes[n])}))
    /\ threads \in SUBSET UNION {nodes[n].dns.listen : n \in Proxies(nodes)}
    /\ query = NoQuery /\ trail = <<>>

\* render_dns_resolver_config
Nameservers(node) ==
    IF node.dns # NoService THEN {}
    ELSE UNION {{r.v4, r.v6} : r \in ToSet(node.resolvers)} \ {NoAddress}
----------------------------------------------------------------------------
\* _dns_input_commands: inserted in front of the rules of the input chain
AllowedOnly(dns) == dns.allow
InputPrefixes(dns) == dns.allow \cup PolicyPrefixes(dns)

LetIn(node, src, dst) ==
    \/ ~node.closed
    \/ /\ RunsUnbound(node) /\ dst \in node.dns.listen
       /\ Family(src) = Family(dst)
       /\ \E p \in InputPrefixes(node.dns) : src \in Hosts[p]

\* _public_resolver_drop_commands: the service's own queries are accepted before
\* the rest is dropped.
Denied(dns, a) == dns.kill /\ \E p \in dns.denied : a \in Hosts[p]

PassesDropsFirst(dns, src, dst) == ~Denied(dns, dst)
PassesFromService(dns, src, dst) == Denied(dns, dst) => src \in dns.outgoing
PassesOutput(dns, src, dst) ==
    Denied(dns, dst) => /\ src \in dns.outgoing /\ dst \in RootForwarders(dns)
                        /\ Family(src) = Family(dst)
PassesForward(dns, dst) == ~Denied(dns, dst)

Guards(n, a) == Serving(n) /\ Denied(nodes[n].dns, a)

\* The nodes a query passes through.
Way(n, dst) ==
    LET above == nodes[n].above
        ends == {i \in DOMAIN above : above[i] \in Owners(dst)}
    IN  IF ends # {} THEN {above[i] : i \in 1 .. Min(ends) - 1}
        ELSE IF Owners(dst) = {} THEN ToSet(above) ELSE {}

Passes ==
    /\ Serving(query.by) /\ nodes[query.by].guarded =>
           PassesOutput(nodes[query.by].dns, query.src, query.dst)
    /\ \A n \in Way(query.by, query.dst) :
           Serving(n) /\ nodes[n].guarded => PassesForward(nodes[n].dns, query.dst)

\* Of a guard that was set up in part, some rules may hold.
MayStop ==
    \E n \in Way(query.by, query.dst) \cup {query.by} :
        Guards(n, query.dst) /\ ~nodes[n].guarded
----------------------------------------------------------------------------
\* query_forwarder, outgoing-interface
Sources(node, dst) ==
    LET own == {a \in Materialized(node) : Family(a) = Family(dst)}
        chosen == {a \in node.dns.outgoing : Family(a) = Family(dst)}
    IN  IF chosen # {} THEN chosen
        ELSE IF RunsUnbound(node) /\ node.dns.outgoing # {} THEN {} ELSE own

\* A socket that is open keeps a query until it is served.
Listens(n, dst, states) ==
    /\ Serving(n)
    /\ dst \in nodes[n].dns.listen
    /\ IF RunsUnbound(nodes[n]) THEN \E r \in Runs : daemon[n][r] \in states
                                ELSE dst \in threads

DecisionsAt(n) ==
    IF RunsUnbound(nodes[n]) THEN Verdicts(nodes[n].dns, query.src, query.q)
    ELSE {ProxyVerdict(nodes[n].dns, Family(query.dst), query.q)}

AskedBy(n) ==
    IF RunsUnbound(nodes[n]) THEN Asked(nodes[n].dns, query.q.name)
    ELSE Forwarders(nodes[n].dns, Family(query.dst))

Sendings(n) ==
    UNION {{[node |-> n, src |-> s, dst |-> d] : s \in Addresses \cap Sources(nodes[n], d)} :
             d \in AskedBy(n)}
----------------------------------------------------------------------------
AtRest == pc \in {"ready", "failed"}
UnderWay == AtRest /\ query # NoQuery /\ query.state = "sent"
Ends(state) == query' = [query EXCEPT !.state = state] /\ UNCHANGED <<vars, nodes, threads, trail>>

\* A node without resolver asks what its resolv.conf names, or what it likes.
Ask(n) ==
    /\ AtRest /\ ~UnderWay /\ ~Serving(n)
    /\ \E dst \in Nameservers(nodes[n]) \cup PublicResolvers, src \in Materialized(nodes[n]), q \in Queries :
        /\ Family(src) = Family(dst)
        /\ query' = [by |-> n, src |-> src, dst |-> dst, q |-> q, state |-> "sent"]
    /\ trail' = <<>>
    /\ UNCHANGED <<vars, nodes, threads>>

IsStopped == UnderWay /\ (~Passes \/ MayStop) /\ Ends("stopped")

Leaves ==
    /\ UnderWay /\ Passes /\ Owners(query.dst) = {}
    /\ Ends("left")

Arrives(n) == UnderWay /\ Passes /\ n \in Owners(query.dst)

IsKeptOut(n) ==
    /\ Arrives(n) /\ ~LetIn(nodes[n], query.src, query.dst)
    /\ Ends("kept out")

Enters(n) == Arrives(n) /\ LetIn(nodes[n], query.src, query.dst)

FindsNobody(n) ==
    /\ Enters(n) /\ ~Listens(n, query.dst, Holding)
    /\ Ends("silent")

Heard(n) == Enters(n) /\ Listens(n, query.dst, {"serving"})

IsDecided(n) ==
    /\ Heard(n)
    /\ \E decision \in DecisionsAt(n) \ {"resolved"} : Ends(decision)

\* No forwarder can be reached from the sources it may use.
HasNobodyToAsk(n) ==
    /\ Heard(n) /\ "resolved" \in DecisionsAt(n) /\ Sendings(n) = {}
    /\ Ends("failed")

IsSentOn(n) ==
    /\ Heard(n) /\ "resolved" \in DecisionsAt(n)
    /\ Len(trail) < MaxHops
    /\ \E s \in Sendings(n) :
        /\ query' = [query EXCEPT !.by = n, !.src = s.src, !.dst = s.dst]
        /\ trail' = Append(trail, [node |-> n, src |-> query.src, dst |-> s.dst])
    /\ UNCHANGED <<vars, nodes, threads>>

\* sendto raises in the thread of a listener.
ThreadEnds ==
    /\ AtRest
    /\ \E a \in threads : threads' = threads \ {a}
    /\ UNCHANGED <<vars, nodes, query, trail>>

Resolution ==
    \/ IsStopped \/ Leaves
    \/ \E n \in DOMAIN nodes : IsKeptOut(n) \/ FindsNobody(n) \/ IsDecided(n) \/ HasNobodyToAsk(n) \/ IsSentOn(n)

\* The resolvers are asked while the loop rests.
Reconciliation ==
    /\ Next
    /\ IF AtRest' THEN UNCHANGED <<query, trail>> ELSE query' = NoQuery /\ trail' = <<>>
    /\ UNCHANGED <<nodes, threads>>

DnsNext ==
    \/ Reconciliation
    \/ \E n \in DOMAIN nodes : Ask(n)
    \/ Resolution
    \/ ThreadEnds

DnsSpec == DnsInit /\ [][DnsNext]_allVars

-----------------------------------------------------------------------------
(***************************************************************************)
(* What the resolvers of a lab must not do, and must do, with a query.     *)
(***************************************************************************)

Dns(n) == nodes[n].dns
Unbounds == ToSet(loop)

\* The namespaces that end at a resolver, and those it opens again.
Ending(dns) ==
    ProtectedNames(dns) \cup {d.namespace : d \in {e \in dns.fallback : Blocked(e)}}
      \cup {z.name : z \in {y \in dns.localZones : y.type # "transparent"}}
Opening(dns) == {z.name : z \in {y \in dns.localZones : y.type = "transparent"}}

KeptAtUnbound(dns, name) ==
    LET ns == Closest[name]
    IN  \E i \in DOMAIN ns :
            /\ ns[i] \in Ending(dns)
            /\ \A j \in 1 .. i :
                   ns[j] \in Opening(dns) => j = i /\ ns[i] \in ProtectedNames(dns)

KeptAtProxy(dns, q) ==
    \E d \in dns.fallback :
        /\ Blocked(d) /\ d.namespace \in ToSet(Closest[q.name])
        /\ q.class \in d.allowed \cup d.denied

\* unbound_service.py:194 and 228, dns_proxy_protocol.py:74: what is asked about a
\* namespace that is protected, blocked or ends here by its zone is not passed on
\* to another resolver, unless a closer zone is transparent.
LocalNamesStay ==
    \A i \in DOMAIN trail :
        LET dns == Dns(trail[i].node)
        IN  IF trail[i].node \in Unbounds THEN ~KeptAtUnbound(dns, query.q.name)
                                          ELSE ~KeptAtProxy(dns, query.q)

\* A requester that a policy names, and allowFrom does not name again as closely.
Confined(dns, src) ==
    \E p \in PolicyPrefixes(dns) :
        /\ src \in Hosts[p]
        /\ \A a \in dns.allow : src \in Hosts[a] => ~(Hosts[a] \subseteq Hosts[p])

\* What a contract forwards, it forwards within the lab; and it forwards what it opens.
\* The renderer checks neither: dns_authority.py asks of a forward zone that it has a
\* relation, and of a zone that it is not in the way of a forward zone.
ForwardsWithin(dns) == \A z \in dns.forwardZones : \A a \in z.to : Owners(a) # {}
ForwardsOpened(dns) ==
    \A z \in dns.localZones : z.type = "transparent" => \E f \in dns.forwardZones : f.name = z.name

\* dns_authority.py:324 and 374: nothing a refuse_non_local requester asks is
\* passed on, and nothing that is asked of a local-only resolver leaves the lab,
\* neither from there nor, where its provider confines it, from the provider.
RequestersConfined ==
    \A i \in DOMAIN trail :
        LET step == trail[i]
            dns == Dns(step.node)
        IN  step.node \in Unbounds =>
                /\ ~Confined(dns, step.src)
                /\ dns.mode = "local-only" /\ ForwardsWithin(dns) /\ ForwardsOpened(dns)
                   => Owners(step.dst) # {}

\* The resolver that asks and whether it was told to ask that address.
ToldToAsk(n, src, dst) ==
    Serving(n) /\ dst \in RootForwarders(Dns(n)) /\ src \in Dns(n).outgoing

\* dns_service.py:190, 141 and 363: when the loop has ended well, a requester that
\* the contract lists is let in and heard, as long as the daemon lives and no other
\* node has its address; and what the resolver asks the forwarders it was told to ask
\* is not stopped by its own guard, if its commands have succeeded.
RequestersServed ==
    /\ query # NoQuery =>
        \A n \in Unbounds :
            /\ Owners(query.dst) = {n} /\ query.dst \in Dns(n).listen
            /\ \E p \in Dns(n).allow \cup PolicyPrefixes(Dns(n)) : query.src \in Hosts[p]
            => /\ query.state # "kept out"
               /\ query.state = "silent" /\ pc = "ready" /\ n \in alone
                  => \A r \in Runs : daemon[n][r] \notin Holding
    /\ query # NoQuery /\ query.state = "stopped" =>
        \/ ~ToldToAsk(query.by, query.src, query.dst)
        \/ ~nodes[query.by].guarded
        \/ \E n \in Way(query.by, query.dst) : Guards(n, query.dst)

\* dns_service.py:135: where the commands of its guard have succeeded, no query gets
\* to a denied resolver past a node with the kill switch but its own to its
\* forwarders, whatever an iterative Unbound there or behind it is referred to.
\* dns_authority.py:95: a resolver with a controlled authority asks outside the lab
\* the name servers of that hierarchy alone, by whatever uplink.
NothingLeavesAside ==
    query # NoQuery /\ query.state = "left" =>
        /\ \A n \in Way(query.by, query.dst) \cup {query.by} :
               Guards(n, query.dst) /\ nodes[n].guarded
               => n = query.by /\ ToldToAsk(n, query.src, query.dst)
        /\ LET v == Dns(query.by).validation
           IN  query.by \in Unbounds /\ v # NoAuthority /\ ForwardsWithin(Dns(query.by))
               => query.dst \in v.root \cup v.delegated
=============================================================================
