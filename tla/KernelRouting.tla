--------------------------- MODULE KernelRouting ---------------------------
(***************************************************************************)
(* The routing tables and policy rules of a Linux network namespace, as    *)
(* far as the commands of the renderer use them: `ip route replace` and    *)
(* `ip rule add`, and the lookup of a forwarded packet.                    *)
(*                                                                         *)
(* Prefixes are names.  Default covers everything; every other prefix is   *)
(* the name of one subnet, and a host is named after the subnet it is in,  *)
(* so that two different subnets never overlap.  A hop is a gateway and a  *)
(* device.  A gateway k > 0 is the neighbour on link k, -k an address of   *)
(* the node itself on link k, OnLink the destination itself.               *)
(***************************************************************************)
EXTENDS Integers, Sequences, SequencesExt

Families == {4, 6}
Default == "default"
Main == 254
OnLink == 0
\* The gateway "None" of a command line that a missing value was printed into;
\* no other gateway of a command is negative.
Garbled == -1
AnyDevice == 0

Route(f, table, dst, hops) ==
    [op |-> "route", fam |-> f, table |-> table, dst |-> dst, hops |-> hops]

\* suppress: the rule ignores what it finds by the default route.
Rule(f, from, to, iif, priority, table, suppress) ==
    [op |-> "rule", fam |-> f, from |-> from, to |-> to, iif |-> iif,
     priority |-> priority, table |-> table, suppress |-> suppress]

\* A route that drops silently.
Blackhole == {}

EmptyKernel == [f \in Families |-> [routes |-> {}, rules |-> <<>>]]

\* `ip` rejects a command line it cannot parse, and the kernel a rule it has;
\* every command's failure is ignored.
ReplaceRoute(k, c) ==
    LET kept == {r \in k.routes : <<r.table, r.dst>> # <<c.table, c.dst>>}
        new == [table |-> c.table, dst |-> c.dst, hops |-> c.hops]
    IN  IF \E h \in c.hops : h.via = Garbled THEN k
        ELSE [routes |-> kept \cup {new}, rules |-> k.rules]

AddRule(k, c) ==
    IF Contains(k.rules, c) THEN k
    ELSE [routes |-> k.routes, rules |-> Append(k.rules, c)]

Execute(kernel, c) ==
    [kernel EXCEPT ![c.fam] =
        IF c.op = "route" THEN ReplaceRoute(@, c) ELSE AddRule(@, c)]
----------------------------------------------------------------------------
Covers(prefix, host) == prefix \in {Default, host}

\* The routes of a table for a host: the ones by its subnet before the default.
Matching(k, table, host) ==
    LET of(d) == {r \in k.routes : r.table = table /\ r.dst = d}
    IN  IF of(host) # {} THEN of(host) ELSE of(Default)

RuleMatches(r, packet) ==
    /\ r.iif \in {AnyDevice, packet.iif}
    /\ Covers(r.from, packet.src)
    /\ Covers(r.to, packet.dst)

\* The rules that decide a packet, by position: they match it, and their table
\* has a route for it that they do not ignore.
Deciding(k, packet) ==
    {n \in 1..Len(k.rules) :
        LET r == k.rules[n]
            found == Matching(k, r.table, packet.dst)
        IN  /\ RuleMatches(r, packet)
            /\ found # {}
            /\ r.suppress => \A e \in found : e.dst # Default}

\* Lower priority numbers first, then the older rule.
Precedes(k, m, n) ==
    \/ k.rules[m].priority < k.rules[n].priority
    \/ k.rules[m].priority = k.rules[n].priority /\ m <= n

FirstDeciding(k, packet) ==
    CHOOSE n \in Deciding(k, packet) :
        \A m \in Deciding(k, packet) : Precedes(k, n, m)

\* The table that routes a packet, the main table when no rule decides.
DecidingTable(k, packet) ==
    IF Deciding(k, packet) = {} THEN Main
    ELSE k.rules[FirstDeciding(k, packet)].table

Lookup(k, packet) == Matching(k, DecidingTable(k, packet), packet.dst)

\* Where a packet may go; none when it is dropped or there is no route.
Hops(k, packet) == UNION {r.hops : r \in Lookup(k, packet)}
Devices(k, packet) == {h.dev : h \in Hops(k, packet)}
Dropped(k, packet) == \E r \in Lookup(k, packet) : r.hops = Blackhole
=============================================================================
