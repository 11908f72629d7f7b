--------------------------- MODULE UnboundService ---------------------------
(***************************************************************************)
(* The configuration of Unbound that unbound_service.py writes for a DNS   *)
(* contract with a recursion mode, and what Unbound does with it.          *)
(*                                                                         *)
(* A query is for a name and a class.  What the configuration says of the  *)
(* loopbacks, which only the node itself can use, is left out.  Of several *)
(* entries for the same prefix or zone Unbound keeps one: which one is     *)
(* left open.                                                              *)
(***************************************************************************)
EXTENDS DnsContract

CONSTANTS
    PublicRoots,     \* the addresses of the public root servers
    PublicServers    \* and of those that public zones are delegated to

PolicyPrefixes(dns) == UNION {p.prefixes : p \in dns.policies}

\* access-control
AccessControl(dns) ==
    {[prefix |-> p, action |-> "allow"] : p \in dns.allow}
      \cup {[prefix |-> p, action |-> "refuse_non_local"] : p \in PolicyPrefixes(dns)}

\* local-zone
Blocked(d) == d.action \in {"block", "deny"} /\ ~d.public

LocalZones(dns) ==
    dns.localZones
      \cup {[name |-> n, type |-> "static"] :
               n \in ProtectedNames(dns) \cup {d.namespace : d \in {e \in dns.fallback : Blocked(e)}}}
      \cup (IF dns.mode = "local-only" THEN {[name |-> ".", type |-> "refuse"]} ELSE {})

\* local-data, and that of the included files
LocalData(dns) == dns.records \cup UNION {p.records : p \in ToSet(dns.protected)}

\* forward-zone
ForwardZones(dns) ==
    {[name |-> z.name, to |-> z.to, first |-> z.first] : z \in dns.forwardZones}
      \cup (IF RootForwarders(dns) = {} THEN {}
            ELSE {[name |-> ".", to |-> RootForwarders(dns), first |-> FALSE]})

\* root-hints, or what is built in
Roots(dns) == IF dns.validation = NoAuthority THEN PublicRoots ELSE dns.validation.root

\* Whom the servers asked refer to: the zone of the controlled root has one delegation.
Delegated(dns) ==
    IF dns.validation = NoAuthority THEN PublicServers ELSE dns.validation.delegated
----------------------------------------------------------------------------
\* Unbound

\* Those of the most specific prefix.
Access(dns, src) ==
    LET covering == {e \in AccessControl(dns) : src \in Hosts[e.prefix]}
    IN  IF covering = {} THEN {"refuse"}
        ELSE {e.action : e \in {c \in covering :
                  \A d \in covering : Cardinality(Hosts[c.prefix]) <= Cardinality(Hosts[d.prefix])}}

\* The entries of a table for the closest namespace of a name that has one.
ClosestIn(table, name) ==
    LET known == {i \in DOMAIN Closest[name] : \E e \in table : e.name = Closest[name][i]}
    IN  IF known = {} THEN {} ELSE {e \in table : e.name = Closest[name][Min(known)]}

ZoneTypes(dns, name) ==
    LET zones == ClosestIn(LocalZones(dns), name)
    IN  IF zones = {} THEN {"transparent"} ELSE {z.type : z \in zones}

\* What is done with a query, by the action for its source and the zone of its
\* name: answered from the data here, or refused, or dropped, or resolved.
Verdict(dns, action, type, q) ==
    CASE action = "refuse" -> "refused"
      [] type # "always_refuse" /\ q \in LocalData(dns) -> "answered"
      [] type = "static" -> "answered"
      [] type \in {"refuse", "always_refuse"} -> "refused"
      [] type = "deny" -> "dropped"
      [] \E d \in LocalData(dns) : d.name = q.name -> "answered"
      [] action = "refuse_non_local" -> "refused"
      [] OTHER -> "resolved"

Verdicts(dns, src, q) ==
    {Verdict(dns, action, type, q) : action \in Access(dns, src), type \in ZoneTypes(dns, q.name)}

\* Whom it may ask: where no zone says otherwise it starts at the root and follows
\* what it is referred to.
Hierarchy(dns) == Roots(dns) \cup Delegated(dns)
Asked(dns, name) ==
    LET zones == ClosestIn(ForwardZones(dns), name)
    IN  IF zones = {} THEN Hierarchy(dns)
        ELSE UNION {z.to \cup (IF z.first THEN Hierarchy(dns) ELSE {}) : z \in zones}
=============================================================================
