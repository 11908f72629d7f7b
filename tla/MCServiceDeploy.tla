--------------------------- MODULE MCServiceDeploy ---------------------------
(***************************************************************************)
(* Labs for TLC: access nodes with scopes of one family or of both, with   *)
(* resolvers that publish what is leased, proxies, and nodes that only     *)
(* have protected routes and addresses; and labs that are refused.         *)
(***************************************************************************)
EXTENDS ServiceDeploy

MCStem == [id \in {"client", "guest", "x/y", "x-y"} |-> IF id = "x/y" THEN "x-y" ELSE id]
MCContents == [file \in {"long", "short"} |->
    IF file = "long" THEN [first |-> 8, len |-> 1] ELSE [first |-> 0, len |-> 2]]

Bare == [devices |-> {"eth1", "eth2"}, dhcp4 |-> <<>>, dhcp6 |-> <<>>, ra |-> <<>>,
         routes |-> <<>>, addresses |-> <<>>, dns |-> None]

Publication(id, family) ==
    [namespace |-> "lan.", owner |-> id, requesters |-> {id}, classes |-> {"A", "AAAA"},
     family |-> family, local |-> TRUE]
Source(file, publication) ==
    [file |-> file, approved |-> TRUE, family |-> None, publication |-> publication]
Scope(id, on, source) ==
    [id |-> id, enabled |-> TRUE, on |-> on, source |-> source, complete |-> TRUE, listed |-> {}]
Published(id, on, family) == Scope(id, on, Source("set", Publication(id, family)))
Leased(id, on) == Scope(id, on, Source("set", None))
Leased6(id, on) == Scope(id, on, Source("set6", None))
Plain(id, on) == Scope(id, on, None)

Names(id) == [scope |-> id, namespace |-> "lan.", approved |-> TRUE]
Iterative(names) ==
    [mode |-> "iterative", listen |-> {"127.0.0.1", "10.0.0.1"}, protected |-> names]
Proxy == [Iterative(<<>>) EXCEPT !.mode = None]

Return(on, source, length, slot) ==
    [on |-> on, source |-> source, returns |-> TRUE, delegated |-> length, tenant |-> 3,
     slot |-> slot]

Destination(slot, identifier) ==
    [source |-> "long", delegated |-> 1, tenant |-> 2, slot |-> slot, identifier |-> identifier]

\* FS-560: an access node that publishes what it leases in both families, beside
\* a core that has protected routes only.
DualStack == [Bare EXCEPT !.dhcp4 = <<Published("client", "eth1", "ipv4")>>,
                          !.dhcp6 = <<Leased6("client", "eth1")>>,
                          !.ra = <<[enabled |-> TRUE, on |-> "eth1", prefixes |-> TRUE]>>,
                          !.dns = Iterative(<<Names("client")>>)]
Both == [Bare EXCEPT !.dhcp4 = <<Leased("guest", "eth2")>>,
                     !.dhcp6 = <<[Published("client", "eth1", "ipv6") EXCEPT !.source.file = "set6"]>>,
                     !.dns = Iterative(<<Names("client")>>)]
Core == [Bare EXCEPT !.routes = <<Return("eth1", "long", 1, 0), Return("eth2", "long", 1, 3),
                                  [Return("eth2", "short", 2, 0) EXCEPT !.returns = FALSE]>>,
                     !.addresses = <<Destination(1, 3), Destination(0, 3)>>]
Mismatch == [Bare EXCEPT !.routes = <<Return("eth1", "short", 1, 0)>>]
NoSlash64 == [Bare EXCEPT !.addresses = <<[Destination(0, 0) EXCEPT !.tenant = 3]>>]
Beyond == [Bare EXCEPT !.routes = <<Return("eth1", "long", 1, 4)>>]

\* DHCPv6 alone, with a proxy; scopes that are disabled or not realized.
Only6 == [Bare EXCEPT !.dhcp6 = <<Leased6("guest", "eth2")>>, !.dns = Proxy,
                      !.dhcp4 = <<Leased("client", "eth9"),
                                  [Leased("x-y", "eth1") EXCEPT !.enabled = FALSE]>>]
PlainOnly == [Bare EXCEPT !.dhcp4 = <<Plain("client", "eth1")>>]

\* Several scopes of a family: one of them plain; with the same stem; on the same
\* device.
Beside == [Bare EXCEPT !.dhcp4 = <<Plain("guest", "eth1"), Leased("client", "eth2")>>]
SameStem == [Bare EXCEPT !.dhcp4 = <<Published("x/y", "eth1", "ipv4"), Published("x-y", "eth2", "ipv4")>>,
                         !.dns = Iterative(<<Names("x/y")>>)]
SameDevice == [Bare EXCEPT !.dhcp4 = <<Leased("guest", "eth1"), Leased("client", "eth1")>>]

\* A resolver includes what another node publishes.
Elsewhere == [Bare EXCEPT !.dns = Iterative(<<Names("client")>>)]

\* Several nodes with scripts, and several resolvers.
NoResolver == [DualStack EXCEPT !.dns = None]
Published4 == [DualStack EXCEPT !.dhcp6 = <<>>]
Resolving == [Bare EXCEPT !.dns = Iterative(<<>>)]

\* What is refused
No6 == [Bare EXCEPT !.dhcp6 = <<Plain("client", "eth1")>>]
Wild == [Bare EXCEPT !.dhcp4 = <<[Leased("client", "eth1") EXCEPT
            !.source.publication = [Publication("client", "ipv4") EXCEPT !.requesters = {"client", "*"}]]>>]
Twice == [Bare EXCEPT !.dns = Iterative(<<Names("x/y"), [Names("x-y") EXCEPT !.namespace = "b."]>>)]

MCLabs == {<<Core, DualStack>>, <<Mismatch>>, <<Beyond>>, <<NoSlash64>>, <<Only6, PlainOnly>>, <<Beside, Core>>,
           <<SameStem>>, <<SameDevice>>, <<DualStack, Elsewhere>>, <<Both>>, <<Only6, NoResolver>>,
           <<Published4, Resolving>>, <<Only6, No6>>, <<Wild>>, <<Twice>>}
=============================================================================
