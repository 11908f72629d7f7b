----------------------------- MODULE NodeServices -----------------------------
(***************************************************************************)
(* What is rendered for the services of a node: the commands of its boot   *)
(* that deal with protected sources, DHCP, router advertisements and its   *)
(* resolver, the files that are mounted, and the labels that tell the      *)
(* deployment which loops to run (linux_runtime.py,                        *)
(* access_advertisements.py, unbound_service.py, node_runtime.py).         *)
(*                                                                         *)
(* A node is a record:                                                     *)
(*   devices   the interfaces that are realized (the domain of eth_map);   *)
(*   dhcp4, dhcp6  sequences of scopes [id, enabled, on, source, complete, *)
(*             listed]: `on' is bindInterface, None where there is none;   *)
(*             `listed' are the reservations that the scope itself lists;  *)
(*   ra        a sequence of [enabled, on, prefixes];                      *)
(*   routes    a sequence of IPv6 routes with a protected source, in the   *)
(*             order of their interfaces: [on, source, returns, delegated, *)
(*             tenant, slot], `returns' for a runtime-routed-prefix-return;*)
(*   addresses the runtime destinations of its firewall: [source,          *)
(*             delegated, tenant, slot, identifier];                       *)
(*   dns       None, or [mode, listen, protected]: recursionMode, the      *)
(*             addresses as canonical text, and a sequence of              *)
(*             [scope, namespace, approved].  unbound_service.py brings    *)
(*             them to that form and drops empty ones; node_runtime.py     *)
(*             compares them as they are, and would label a node without a *)
(*             script for text in another form.                            *)
(* A scope's source is None or [file, approved, family, publication], with *)
(* a publication None or [namespace, owner, requesters, classes, family,   *)
(* local].                                                                 *)
(***************************************************************************)
EXTENDS ListOps

CONSTANTS
    None,
    Stem,      \* of each scope's id, what _safe_stem makes of it
    Width      \* of an IPv6 address: 128

ASSUME WidthAssumption == Width \in Nat

\* What is assumed of the data of a node: sequences are sequences, lengths and
\* identifiers are numbers, and a runtime destination has these fields only.
NodeShape(node) ==
    /\ \A s \in {node.dhcp4, node.dhcp6, node.ra, node.routes, node.addresses} : IsSequence(s)
    /\ \A r \in ToSet(node.routes) : r.tenant \in Nat
    /\ \A a \in ToSet(node.addresses) :
           /\ a.tenant \in Nat /\ a.identifier \in Nat
           /\ a = [source |-> a.source, delegated |-> a.delegated, tenant |-> a.tenant,
                   slot |-> a.slot, identifier |-> a.identifier]

Loopbacks == {"127.0.0.1", "::1"}
Dhcp(node, family) == IF family = "ipv4" THEN node.dhcp4 ELSE node.dhcp6
Families == {"ipv4", "ipv6"}
-----------------------------------------------------------------------------
\* Refusals

\* protected_reservation_source, _protected_name_publication
PublicationRefused(scope, family) ==
    LET p == scope.source.publication
    IN  /\ p # None
        /\ \/ p.owner # scope.id \/ p.owner \notin p.requesters \/ "*" \in p.requesters
           \/ p.classes = {} \/ ~(p.classes \subseteq {"A", "AAAA", "PTR"})
           \/ p.family # family \/ ~p.local

SourceRefused(scope, family) ==
    /\ scope.source # None
    /\ \/ ~scope.source.approved
       \/ scope.source.family \notin {None, family}
       \/ scope.listed # {}
       \/ PublicationRefused(scope, family)

\* A scope that is enabled must say where, and DHCPv6 needs a source.
ScopeRefused(node, scope, family) ==
    /\ scope.enabled
    /\ \/ scope.on = None \/ SourceRefused(scope, family)
       \/ /\ scope.on \in node.devices
          /\ ~scope.complete \/ (family = "ipv6" /\ scope.source = None)

RaRefused(node, ra) ==
    ra.enabled /\ (ra.on = None \/ (ra.on \in node.devices /\ ~ra.prefixes))

\* _protected_reservation_artifacts
DnsRefused(dns) ==
    /\ dns # None /\ dns.mode # None /\ ~(dns.listen \subseteq Loopbacks)
    /\ \/ \E i \in DOMAIN dns.protected : ~dns.protected[i].approved
       \/ \E i, j \in DOMAIN dns.protected :
              /\ i # j
              /\ \/ Stem[dns.protected[i].scope] = Stem[dns.protected[j].scope]
                 \/ dns.protected[i].namespace = dns.protected[j].namespace

ServicesRefused(node) ==
    \/ \E f \in Families : \E i \in DOMAIN Dhcp(node, f) : ScopeRefused(node, Dhcp(node, f)[i], f)
    \/ \E i \in DOMAIN node.ra : RaRefused(node, node.ra[i])
    \/ DnsRefused(node.dns)
-----------------------------------------------------------------------------
\* Commands, in the order in which they are run

\* Of advertisements: those that are enabled, on a device that is there.
Realized(node, scopes) == Keep(scopes, {s \in ToSet(scopes) : s.enabled /\ s.on \in node.devices})

Each(seq, command(_)) == [i \in DOMAIN seq |-> command(seq[i])]

\* _render_runtime_delegated_routes
RouteCommands(node) ==
    Each(Keep(node.routes, {r \in ToSet(node.routes) : r.returns /\ r.on \in node.devices}),
         LAMBDA r : [kind |-> "route", source |-> r.source, route |-> r])

\* _runtime_destination_rule
AddressCommands(node) ==
    Each(node.addresses, LAMBDA a : [kind |-> "address", source |-> a.source, address |-> a])

\* _dhcp4_command, _dhcp6_command, _kea_command
DhcpCommand(scope, family) ==
    IF scope.source = None
    THEN [kind |-> "udhcpd", on |-> scope.on]
    ELSE [kind |-> "kea", source |-> scope.source.file, on |-> scope.on, family |-> family,
          scope |-> scope.id, publication |-> scope.source.publication]

AdvertisementCommands(node) ==
    Each(Realized(node, node.dhcp4), LAMBDA s : DhcpCommand(s, "ipv4"))
      \o Each(Realized(node, node.dhcp6), LAMBDA s : DhcpCommand(s, "ipv6"))
      \o Each(Realized(node, node.ra), LAMBDA s : [kind |-> "ra", on |-> s.on])

\* render_dns_service, render_unbound_dns_service: the configuration includes a
\* file for every protected publication.
DnsCommands(node) ==
    IF node.dns = None \/ node.dns.listen = {} THEN <<>>
    ELSE IF node.dns.mode = None THEN <<[kind |-> "proxy"]>>
    ELSE IF node.dns.listen \subseteq Loopbacks THEN <<>>
    ELSE <<[kind |-> "unbound"]>>

ServiceCommands(node) ==
    RouteCommands(node) \o AddressCommands(node) \o AdvertisementCommands(node)
      \o DnsCommands(node)

Included(node) == {Stem[p.scope] : p \in ToSet(node.dns.protected)}
-----------------------------------------------------------------------------
\* Binds and labels

\* _protected_runtime_binds
ReservationBinds(node) ==
    UNION {{s.source.file : s \in {t \in ToSet(Dhcp(node, f)) : t.enabled /\ t.source # None}} :
             f \in Families}

BindsOfDhcp4(node) ==
    {s.source.file : s \in {t \in ToSet(node.dhcp4) : t.enabled /\ t.source # None}}
      \cup {r.source : r \in ToSet(node.routes \o node.addresses)}

ProtectedBinds(node) ==
    ReservationBinds(node) \cup {r.source : r \in ToSet(node.routes \o node.addresses)}

\* _has_kea_runtime
AnySourceIsKea(node) == ProtectedBinds(node) # {}

HasKea4Runtime(node) ==
    \E s \in ToSet(node.dhcp4) : s.enabled /\ s.on \in node.devices /\ s.source # None

HasKeaRuntime(node) ==
    \E f \in Families : \E s \in ToSet(Dhcp(node, f)) :
        s.enabled /\ s.on \in node.devices /\ s.source # None

\* _has_unbound_runtime
AnyResolverIsUnbound(node) == node.dns # None /\ ~(node.dns.listen \subseteq Loopbacks)

HasUnboundRuntime(node) ==
    node.dns # None /\ ~(node.dns.listen \subseteq Loopbacks) /\ node.dns.mode # None
-----------------------------------------------------------------------------
\* protected-ipv6-materializer.py: an address is a number of Width bits, a prefix
\* its first address and its length.

TwoTo[n \in 0 .. Width] == IF n = 0 THEN 1 ELSE 2 * TwoTo[n - 1]

Derivable(parent, r) ==
    /\ parent.len = r.delegated
    /\ r.delegated <= r.tenant /\ r.tenant <= Width
    /\ r.slot \in 0 .. TwoTo[r.tenant - parent.len] - 1

DerivedTooFar(parent, r) ==
    [first |-> parent.first + r.slot * TwoTo[Width - parent.len], len |-> r.tenant]

Derived(parent, r) ==
    [first |-> parent.first + r.slot * TwoTo[Width - r.tenant], len |-> r.tenant]

\* With an interface identifier: of tenants of half the width.
AddressDerivable(parent, a) ==
    /\ Derivable(parent, a)
    /\ 2 * a.tenant = Width /\ a.identifier < TwoTo[a.tenant]

DerivedAddress(parent, a) == Derived(parent, a).first + a.identifier

AddressesOf(p) == p.first .. p.first + TwoTo[Width - p.len] - 1
=============================================================================
