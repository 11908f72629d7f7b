------------------------------ MODULE DnsProxy ------------------------------
(***************************************************************************)
(* The proxy that answers for a DNS contract without a recursion mode      *)
(* (dns_proxy_protocol.py, dns_proxy_runtime.py).                          *)
(***************************************************************************)
EXTENDS DnsContract

CONSTANT EndsIn     \* the namespaces a name ends in, as text: "athome." ends in "home."

\* add_record_answers
LocalAnswer(dns, q) ==
    \E r \in dns.records : r.name = q.name /\ q.class \in {r.class, "ANY"}

\* namespace_fallback_blocks
BlocksAllowedOnly(dns, q) ==
    \E d \in dns.fallback :
        /\ d.action \in {"block", "deny"} /\ ~d.public
        /\ d.namespace \in EndsIn[q.name]
        /\ q.class \in d.allowed
Blocks(dns, q) ==
    \E d \in dns.fallback :
        /\ d.action \in {"block", "deny"} /\ ~d.public
        /\ d.namespace \in EndsIn[q.name]
        /\ q.class \in d.allowed \cup d.denied \/ "PUBLIC-RECURSION" \in d.denied

\* The first forwarder of the family in which the query came.
Forwarders(dns, family) ==
    LET ofFamily(a) == AddressFamily[a] = family
        usable == SelectSeq(dns.legacy, ofFamily)
    IN  IF usable = <<>> THEN {} ELSE {usable[1]}

\* forward_udp
ProxyVerdict(dns, family, q) ==
    CASE LocalAnswer(dns, q) -> "answered"
      [] Blocks(dns, q) \/ Forwarders(dns, family) = {} -> "failed"
      [] OTHER -> "resolved"
=============================================================================
