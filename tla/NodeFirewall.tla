---------------------------- MODULE NodeFirewall ----------------------------
(***************************************************************************)
(* From a node's forwarding and NAT intent to its nftables commands        *)
(* (EM/base.py, CM/base.py, cpm_firewall_rules.py, policy_firewall.py,     *)
(* firewall_wan.py, nat.py, management_egress_guard.py).                   *)
(*                                                                         *)
(* A node is a record:                                                     *)
(*   eth         the interface that realizes each logical name;            *)
(*   interfaces  a sequence of [name, runtime, kind];                      *)
(*   rules       forwardingIntent.rules;                                   *)
(*   uplinks, wans, masquerade, egress   the uplinkInterfaces of the       *)
(*               forwarding intent, and the wanInterfaces,                 *)
(*               masqueradeInterfaces and the selected uplinks of the      *)
(*               translation records of the NAT intent (sequences);        *)
(*   nat         the families translated, if any; saddr their sources;     *)
(*   pppoe       whether it has a PPPoE service; ppp the runtimeInterface  *)
(*               of a PPPoE client, or NoName.                             *)
(* A rule is [id, from, to, action, fam, src, dst, matches, dns, state,    *)
(* ret, runtime, exact]: fam is 0 where none is said, src and dst are sets *)
(* of prefixes, matches a sequence of [fam, proto, ports], dns says that   *)
(* its traffic type is dns, ret that it is a return rule, runtime is the   *)
(* set of its runtime addresses and exact says that these come with the    *)
(* no-translation, stateful-return contract.                               *)
(***************************************************************************)
EXTENDS Netfilter, ListOps, FiniteSets, TLC

CONSTANT NoName

Management == "eth0"
----------------------------------------------------------------------------
\* EM/interface_names.py, EM/base.py: names

\* An interface the node does not have keeps its name if it is a PPPoE session
\* or says which name it has.  One kind stands for sourceKind here and for kind or
\* sourceKind where a session is looked for (EM/base.py:34 and 199).
NamesOf(node, i) ==
    CASE i.name \in DOMAIN node.eth ->
            (i.runtime :> node.eth[i.name]) @@ (i.name :> node.eth[i.name])
      [] i.name \notin DOMAIN node.eth /\ i.kind = "pppoe-session" ->
            (i.runtime :> i.runtime) @@ (i.name :> i.name)
      [] OTHER -> i.runtime :> i.runtime

NameMap(node) ==
    LET m == FoldLeft(LAMBDA names, i : NamesOf(node, i) @@ names, <<>>, node.interfaces)
    IN  [n \in DOMAIN m \ {NoName} |-> m[n]]

PppNames == {"ppp0", "ppp1"}
Runtime(m, name) == IF name \in DOMAIN m THEN m[name] ELSE name
Runtimes(node, s) == [i \in 1 .. Len(s) |-> Runtime(NameMap(node), s[i])]

\* A rule may name an interface of another node.
ForwardingNames(node) ==
    LET said == UNION {{r.from, r.to} : r \in ToSet(node.rules)}
    IN  NameMap(node) @@ [n \in said \ PppNames |-> n]
Name(node, name) == Runtime(ForwardingNames(node), name)
InContainer(node, r) == [r EXCEPT !.from = Name(node, @), !.to = Name(node, @)]

\* The interfaces of WAN and NAT have to be the node's own.
WanNames(node) == IF node.wans # <<>> THEN node.wans ELSE node.uplinks
NatNames(node) == IF node.nat = {} THEN {} ELSE ToSet(node.masquerade \o node.egress)
NamesKnown(node) ==
    ToSet(WanNames(node)) \cup NatNames(node) \subseteq DOMAIN NameMap(node) \cup PppNames
----------------------------------------------------------------------------
\* EM/base.py: rules for PPPoE sessions

SessionNames(node) ==
    LET sessions == Keep(node.interfaces,
                         {i \in ToSet(node.interfaces) : i.kind = "pppoe-session"})
        client == IF node.ppp = NoName THEN <<>> ELSE <<node.ppp>>
    IN  client \o [i \in 1 .. Len(sessions) |-> sessions[i].name]

Sessions(node) ==
    IF node.pppoe
    THEN Unrepeated([i \in 1 .. Len(SessionNames(node)) |-> Name(node, SessionNames(node)[i])])
    ELSE <<>>

\* The interfaces some rule names, and those of them that are no session.
Named(node) ==
    Unrepeated(Concat([i \in 1 .. Len(node.rules) |->
        <<Name(node, node.rules[i].from), Name(node, node.rules[i].to)>>]))
Peers(node) == Keep(Named(node), ToSet(Named(node)) \ ToSet(Sessions(node)))

PppRule(from, to) ==
    [id |-> "pppoe-fabric", from |-> from, to |-> to, action |-> "accept",
     fam |-> 0, src |-> {}, dst |-> {}, matches |-> <<>>, dns |-> FALSE, state |-> "",
     ret |-> FALSE, runtime |-> {}, exact |-> FALSE]
BothWays(session, peers) ==
    Concat([i \in 1 .. Len(peers) |-> <<PppRule(peers[i], session), PppRule(session, peers[i])>>])

\* Whether or not a rule speaks of the pair.
AllPppRules(node) ==
    Concat([i \in 1 .. Len(Sessions(node)) |-> BothWays(Sessions(node)[i], Peers(node))])

\* Both ways between each session and each interface some rule names, unless a
\* rule speaks of the pair.
PppRules(node) ==
    LET said == {<<Name(node, r.from), Name(node, r.to)>> : r \in ToSet(node.rules)}
        all == Concat([i \in 1 .. Len(Sessions(node)) |->
                          BothWays(Sessions(node)[i], Peers(node))])
    IN  Keep(all, {r \in ToSet(all) : <<r.from, r.to>> \notin said})

\* The rules with the names of interfaces.
ForwardingRules(node) ==
    LET rules == node.rules \o PppRules(node)
    IN  [i \in 1 .. Len(rules) |-> InContainer(node, rules[i])]
----------------------------------------------------------------------------
\* cpm_firewall_rules.py

FamiliesOf(r) == IF r.fam \in Families THEN <<r.fam>> ELSE <<4, 6>>
OfFamily(prefixes, f) == {x \in prefixes : FamilyOf[x] = f}
Applies(m, f) == m.fam \in {0, f}

Icmp(f) == IF f = 6 THEN {<<"icmpv6", 0>>} ELSE {<<"icmp", 0>>}
MatchServices(m, f) ==
    CASE m.proto \in {"icmp", "icmpv4", "icmpv6"} -> Icmp(f)
      [] m.proto \in {"tcp", "udp"} -> {<<m.proto, port>> : port \in m.ports}
      [] OTHER -> Services

\* nft knows no port without a protocol, and no protocol by itself.
Readable(m) ==
    CASE m.proto \in {"tcp", "udp"} -> m.ports # {}
      [] m.proto = "any" -> m.ports = {}
      [] OTHER -> TRUE

IcmpConflict(m, f) ==
    Applies(m, f) /\ <<m.proto, f>> \in {<<"icmpv4", 6>>, <<"icmpv6", 4>>}

RuntimeContract(r) ==
    /\ Cardinality(r.runtime) = 1
    /\ r.dst = {}
    /\ r.exact
    /\ Len(r.matches) = 1
    /\ LET m == r.matches[1]
       IN  m.fam = 6 /\ m.proto \in {"tcp", "udp"} /\ Cardinality(m.ports) = 1
    /\ r.id # NoName

\* Return rules need no connection state.
ReturnRulesPass(r) ==
    \/ r.state \notin {"", "established,related"}
    \/ r.runtime # {} /\ ~RuntimeContract(r)

\* The rules that are refused, and the node with them.
RuleRefused(r) ==
    \/ r.state = "" /\ r.ret
    \/ r.state \notin {"", "established,related"}
    \/ r.runtime # {} /\ ~RuntimeContract(r)
    \/ r.runtime = {} /\ \E f \in ToSet(FamiliesOf(r)) : \E m \in ToSet(r.matches) :
            /\ ~(r.dst # {} /\ OfFamily(r.dst, f) = {})
            /\ IcmpConflict(m, f)

\* What a statement says of interfaces, connection state and addresses.
Only(prefixes, f) ==
    IF OfFamily(prefixes, f) = {} THEN Subnets ELSE OfFamily(prefixes, f)
Base(r, src, dst, services) ==
    [iif |-> {r.from}, oif |-> {r.to}, src |-> src, dst |-> dst, svc |-> services,
     ct |-> IF r.state = "" THEN States ELSE {"established"},
     verdict |-> IF r.action = "accept" THEN "accept" ELSE "drop"]

Statement(r, f, services) ==
    AddRuleOf(r.id, "fw", Base(r, Only(r.src, f), Only(r.dst, f), services))
MatchStatement(r, f, m) ==
    IF Readable(m) THEN Statement(r, f, MatchServices(m, f)) ELSE Unparsable

FamilyStatements(r, f) ==
    CASE r.dst # {} /\ OfFamily(r.dst, f) = {} -> <<>>
      [] r.matches # <<>> /\ ~(r.dst # {} /\ OfFamily(r.dst, f) = {}) ->
            Concat([i \in 1 .. Len(r.matches) |->
                IF Applies(r.matches[i], f) THEN <<MatchStatement(r, f, r.matches[i])>>
                ELSE <<>>])
      [] OTHER ->
            IF r.dns
            THEN <<Statement(r, f, {<<"udp", 53>>}), Statement(r, f, {<<"tcp", 53>>})>>
            ELSE <<Statement(r, f, Services)>>

\* The address is derived from a protected prefix when the command runs.
RuntimeStatement(r) ==
    AddRuleOf(r.id, "fw", Base(r, OfFamily(Subnets, 6), r.runtime,
                               MatchServices(r.matches[1], 6)))

RulesForCpmRule(r) ==
    IF r.runtime # {} THEN <<RuntimeStatement(r)>>
    ELSE Concat([i \in 1 .. Len(FamiliesOf(r)) |-> FamilyStatements(r, FamiliesOf(r)[i])])
----------------------------------------------------------------------------
\* The commands of each part

Established == [Always("accept") EXCEPT !.ct = {"established"}]

\* policy_firewall.py
PolicyRules(node) ==
    LET rules == ForwardingRules(node)
    IN  Unrepeated(Concat([i \in 1 .. Len(rules) |-> RulesForCpmRule(rules[i])]))

\* These, and the chain, are added with `|| true`; the rules of the intent are not.
PolicyChain(policy) == OrTrue(AddChain("fw", policy))
AnswersPass == OrTrue(AddRule("fw", Established))
FromManagement == OrTrue(AddRule("fw", [Always("drop") EXCEPT !.iif = {Management}]))
ToManagement == OrTrue(AddRule("fw", [Always("drop") EXCEPT !.oif = {Management}]))

\* What is not accepted is dropped by a last rule; or answers are left to the rules.
PolicyDropsLast(node) ==
    <<PolicyChain("accept"), AnswersPass, FromManagement, ToManagement>>
    \o PolicyRules(node) \o <<AddRule("fw", Always("drop"))>>
AnswersUnknown(node) ==
    <<PolicyChain("drop"), FromManagement, ToManagement>> \o PolicyRules(node)

PolicyFirewall(node) ==
    <<PolicyChain("drop"), AnswersPass, FromManagement, ToManagement>> \o PolicyRules(node)

\* firewall_wan.py
Wans(node) == Runtimes(node, WanNames(node))

WanInput(wan) ==
    <<AddRule("input", [Always("drop") EXCEPT !.iif = {wan}, !.src = Private]),
      AddRule("input", [Always("accept") EXCEPT !.iif = Interfaces \ {wan},
                                                !.svc = {<<"tcp", 22>>}])>>
WanForward(wan) == <<AddRule("wan", [Always("drop") EXCEPT !.iif = {wan}, !.src = Private])>>

FirstWan(wan) ==
    <<AddChain("input", "drop"), AddChain("wan", "accept"),
      AddRule("input", [Always("accept") EXCEPT !.iif = {"lo"}]),
      AddRule("input", Established),
      AddRule("input", [Always("accept") EXCEPT !.svc = {<<"icmpv6", 0>>}])>>
    \o WanInput(wan) \o <<AddRule("wan", Established)>> \o WanForward(wan)

WanFilter(node) ==
    Concat([i \in 1 .. Len(Wans(node)) |->
               IF i = 1 THEN FirstWan(Wans(node)[i])
               ELSE WanInput(Wans(node)[i]) \o WanForward(Wans(node)[i])])

\* firewall_wan.py and nat.py, which add the same rules again
NatChain(f) == IF f = 4 THEN "nat4" ELSE "nat6"
Masquerade(node, f, interfaces) ==
    IF OfFamily(node.saddr, f) = {} THEN <<>>
    ELSE [i \in 1 .. Len(interfaces) |->
            AddRule(NatChain(f), [Always("masquerade") EXCEPT
                                    !.src = OfFamily(node.saddr, f), !.oif = {interfaces[i]}])]
Translated(node, f, interfaces) ==
    IF f \in node.nat THEN <<AddChain(NatChain(f), "accept")>> \o Masquerade(node, f, interfaces)
    ELSE <<>>

WanNat(node) ==
    LET to == Runtimes(node, node.masquerade)
        With(f) == IF to = <<>> \/ OfFamily(node.saddr, f) = {} THEN <<>>
                   ELSE Translated(node, f, to)
    IN  With(4) \o With(6)

\* The selected uplinks are left out.
MasqueradeOnly(node) ==
    LET to == Runtimes(node, node.masquerade)
    IN  IF node.nat = {} THEN <<>>
        ELSE <<EnableForwarding>> \o Translated(node, 4, to) \o Translated(node, 6, to)

\* The interfaces listed, then the selected uplinks that are not among them.
NatInterfaces(node) ==
    LET listed == Runtimes(node, node.masquerade)
        uplinks == Unrepeated(Runtimes(node, node.egress))
    IN  listed \o Keep(uplinks, ToSet(uplinks) \ ToSet(listed))
NatTables(node) ==
    IF node.nat = {} THEN <<>>
    ELSE <<EnableForwarding>> \o Translated(node, 4, NatInterfaces(node))
           \o Translated(node, 6, NatInterfaces(node))

\* management_egress_guard.py
Guard ==
    <<AddChain("guard", "accept"),
      AddRule("guard", [Always("drop") EXCEPT !.oif = {Management}])>>

Forwarding(node) ==
    IF node.rules \o node.uplinks \o node.wans = <<>> /\ node.nat = {} THEN <<>>
    ELSE <<EnableForwarding>>

\* CM/base.py: INPUT_ORDER; and what linux_runtime.py puts before and after
BeforePolicy(node) ==
    <<Other>> \o Forwarding(node) \o WanFilter(node) \o WanNat(node) \o NatTables(node)
PolicyCommands(node) == IF ForwardingRules(node) = <<>> THEN <<>> ELSE PolicyFirewall(node)
Commands(node) == BeforePolicy(node) \o PolicyCommands(node) \o Guard \o <<Other>>

\* The names of a session's peers are looked up again, and a shortened name is
\* not in the map.
PeersKnown(node) ==
    \A r \in ToSet(PppRules(node)) :
        {r.from, r.to} \subseteq DOMAIN ForwardingNames(node) \cup PppNames

Refused(node) ==
    \/ ~NamesKnown(node) \/ ~PeersKnown(node)
    \/ \E r \in ToSet(ForwardingRules(node)) : RuleRefused(r)
=============================================================================
