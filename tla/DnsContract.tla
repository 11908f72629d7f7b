---------------------------- MODULE DnsContract ----------------------------
(***************************************************************************)
(* The DNS contract of a node, and what of it is refused                   *)
(* (dns_authority.py, dns_service.py, unbound_service.py).                 *)
(*                                                                         *)
(* A contract (services.dns) is a record:                                  *)
(*   mode        recursionMode, "none" where there is none;                *)
(*   fatal       whether a fatal reproducibility warning is attached;      *)
(*   legacy      the forwarders or upstreams, a sequence of addresses;     *)
(*   upstream    upstreamResolvers: a set of [kind, addrs, endpoint];      *)
(*   bindings    serviceEndpointBindings: a set of [at, addrs, complete];  *)
(*   listen      a set of addresses, not empty, without the loopbacks;     *)
(*   allow       allowFrom, a set of prefixes;                             *)
(*   policies    requesterPolicies: a set of [prefixes, complete],         *)
(*               complete where the action is refuse_non_local;            *)
(*   forwardZones  localForwardZones: a set of [name, to, first, owned];   *)
(*   localZones  a set of [name, type];                                    *)
(*   localOnly   whether localOnlyPolicy is there and permits nothing;     *)
(*   protected   protectedReservationPublications: a sequence of           *)
(*               [scope, namespace, approved, records], the scope by the   *)
(*               name of the file that is included for it;                 *)
(*   fallback    namespaceFallback.decisions: a set of [namespace, action, *)
(*               public, allowed, denied], the last two sets of classes;   *)
(*   records     localRecords: a set of [name, class];                     *)
(*   outgoing    outgoingInterfaces, a set of addresses;                   *)
(*   kill, denied  killSwitch.blockPublicResolvers, deniedResolverCidrs;   *)
(*   validation  NoAuthority, or [harness, selected, alternates, bridge,   *)
(*               consistent, root, delegated], the last two the addresses  *)
(*               of the name servers of the hierarchy.                     *)
(* A node has a contract (dns, NoService where there is none), interfaces  *)
(* (a set of [at, addrs]), and egress: NoEgress, or [required, complete,   *)
(* uplink], its runtimeOriginEgress, required also where there is a        *)
(* selection that nobody asked for.                                        *)
(***************************************************************************)
EXTENDS Naturals, Sequences, FiniteSets, SequencesExt

CONSTANTS
    Addresses,
    AddressFamily,      \* of each address: 4 or 6
    Hosts,              \* the addresses in each prefix
    Closest,            \* the namespaces a name is in, from itself to the root
    NoAuthority, NoEgress, NoService

\* Every name is in the root; and of two prefixes that have an address in common,
\* one has all that the other has.
ASSUME NamesAssumption ==
    \A name \in DOMAIN Closest :
        Closest[name] \in Seq(ToSet(Closest[name])) /\ "." \in ToSet(Closest[name])
ASSUME HostsAssumption ==
    \A p, q \in DOMAIN Hosts :
        /\ IsFiniteSet(Hosts[p])
        /\ Hosts[p] \cap Hosts[q] = {} \/ Hosts[p] \subseteq Hosts[q] \/ Hosts[q] \subseteq Hosts[p]

Distinct(s) == Cardinality(ToSet(s)) = Len(s)
DualStack(addrs) == {AddressFamily[a] : a \in addrs} = {4, 6}
OfKind(dns, kind) == {u \in dns.upstream : u.kind = kind}
Cores(dns) == OfKind(dns, "named-core-resolver")
CoreAddresses(dns) == UNION {u.addrs : u \in Cores(dns)}
----------------------------------------------------------------------------
\* normalize_dns_authority: one definition for each complaint

BindingsDiverge(dns) ==
    /\ dns.bindings # {}
    /\ ~ /\ \A b \in dns.bindings : b.complete /\ DualStack(b.addrs)
         /\ UNION {b.addrs : b \in dns.bindings} = dns.listen

\* A local zone that ends a namespace in front of its forward zone.
Shadowed(dns) ==
    \E z \in dns.localZones : \E f \in dns.forwardZones :
        z.name = f.name /\ z.type # "transparent"

PoliciesLeak(dns) == \E p \in dns.policies : ~p.complete \/ p.prefixes = {}

ForwardingDiverges(dns) ==
    ~ /\ Cardinality(Cores(dns)) = 1
      /\ \A u \in Cores(dns) : u.endpoint
      /\ DualStack(CoreAddresses(dns))
      /\ dns.legacy = <<>> \/ ToSet(dns.legacy) = CoreAddresses(dns)

IterativeForwards(dns) == dns.legacy # <<>> \/ Cores(dns) # {}

\* A forward zone may fall back to recursion.
LocalOnlyUnowned(dns) ==
    ~ /\ dns.legacy = <<>>
      /\ Cardinality(OfKind(dns, "local-namespace-authority")) = 1
      /\ dns.forwardZones # {} /\ dns.localOnly
LocalOnlyLeaks(dns) ==
    ~ /\ dns.legacy = <<>>
      /\ Cardinality(OfKind(dns, "local-namespace-authority")) = 1
      /\ dns.forwardZones # {}
      /\ \A z \in dns.forwardZones : z.owned /\ ~z.first /\ DualStack(z.to)
      /\ dns.localOnly

\* _controlled_validation_authority
ValidationOfAnyMode(dns) ==
    LET v == dns.validation
    IN  /\ v # NoAuthority
        /\ ~ /\ v.harness /\ v.consistent
             /\ v.alternates # <<>> /\ Distinct(v.alternates)
             /\ ~Contains(v.alternates, v.selected)
             /\ v.bridge = v.selected

ValidationExternal(dns) ==
    LET v == dns.validation
    IN  /\ v # NoAuthority
        /\ ~ /\ v.harness /\ v.consistent
             /\ dns.mode = "iterative"
             /\ v.alternates # <<>> /\ Distinct(v.alternates)
             /\ ~Contains(v.alternates, v.selected)
             /\ v.bridge = v.selected

AuthorityRefused(dns) ==
    \/ dns.mode \notin {"none", "iterative", "forwarding", "local-only"}
    \/ dns.fatal
    \/ BindingsDiverge(dns) \/ Shadowed(dns) \/ PoliciesLeak(dns)
    \/ dns.mode = "forwarding" /\ ForwardingDiverges(dns)
    \/ dns.mode = "iterative" /\ IterativeForwards(dns)
    \/ dns.mode = "local-only" /\ LocalOnlyLeaks(dns)
    \/ ValidationExternal(dns)

RootForwarders(dns) ==
    CASE dns.mode = "forwarding" -> CoreAddresses(dns)
      [] dns.mode = "none" -> ToSet(dns.legacy)
      [] OTHER -> {}
----------------------------------------------------------------------------
\* normalize_dns_egress_policy
EgressRefused(node) ==
    node.egress # NoEgress /\ node.egress.required /\ ~node.egress.complete
EgressSelected(node) == node.egress # NoEgress /\ node.egress.complete

\* render_dns_service: the egress selects the uplink of the controlled authority.
ValidationElsewhere(node) ==
    /\ node.dns.mode # "none" /\ node.dns.validation # NoAuthority
    /\ ~ /\ EgressSelected(node)
         /\ node.egress.uplink = node.dns.validation.selected

\* _service_endpoint_address_commands
Attached(node, b) == {i \in node.interfaces : i.at = b.at}
EndpointRefused(node) ==
    \E b \in node.dns.bindings : Cardinality(Attached(node, b)) # 1
Materialized(node) ==
    UNION {i.addrs : i \in node.interfaces}
      \cup (IF node.dns = NoService \/ node.dns.mode = "none" THEN {}
           ELSE UNION {b.addrs : b \in node.dns.bindings})

\* _protected_reservation_artifacts, and the conflicts render_unbound_dns_service
\* finds with zones and forward zones
ProtectedNames(dns) == {p.namespace : p \in ToSet(dns.protected)}
ProtectedWithZone(dns) ==
    \/ \E p \in ToSet(dns.protected) : ~p.approved
    \/ ~Distinct([i \in DOMAIN dns.protected |-> dns.protected[i].scope])
    \/ ~Distinct([i \in DOMAIN dns.protected |-> dns.protected[i].namespace])
ProtectedRefused(dns) ==
    \/ \E p \in ToSet(dns.protected) : ~p.approved
    \/ ~Distinct([i \in DOMAIN dns.protected |-> dns.protected[i].scope])
    \/ ~Distinct([i \in DOMAIN dns.protected |-> dns.protected[i].namespace])
    \/ \E z \in dns.localZones :
            z.name \in ProtectedNames(dns) /\ z.type # "static"
    \/ \E z \in dns.forwardZones : z.name \in ProtectedNames(dns)
    \/ RootForwarders(dns) # {} /\ "." \in ProtectedNames(dns)

\* _zone_type: for any other, Verdict says nothing
ZoneTypeRefused(dns) ==
    \E z \in dns.localZones :
        z.type \notin {"static", "transparent", "refuse", "deny", "always_refuse"}

\* The proxy would ask itself.
ForwardsToItself(dns) == ToSet(dns.legacy) \cap dns.listen # {}

Refused(node) ==
    /\ node.dns # NoService
    /\ \/ AuthorityRefused(node.dns)
       \/ node.dns.mode = "none" /\ ForwardsToItself(node.dns)
       \/ node.dns.mode # "none" /\ (\/ EgressRefused(node) \/ ValidationElsewhere(node)
                                     \/ EndpointRefused(node) \/ ProtectedRefused(node.dns)
                                     \/ ZoneTypeRefused(node.dns))
=============================================================================
