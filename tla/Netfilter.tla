----------------------------- MODULE Netfilter -----------------------------
(***************************************************************************)
(* Netfilter of a Linux network namespace, as far as the renderer's `nft`  *)
(* commands use it: base chains, rules, and the way of a packet through    *)
(* them.                                                                   *)
(*                                                                         *)
(* Interfaces and subnets are names; subnets do not overlap, and a host is *)
(* called after its subnet.  A service is a protocol and a destination     *)
(* port.  A rule is the set of packets it matches, field by field.         *)
(***************************************************************************)
EXTENDS Naturals, Sequences, SequencesExt

CONSTANTS
    Interfaces,
    Subnets,
    FamilyOf,       \* of each subnet: 4 or 6
    Private         \* those of private address space

States == {"new", "established"}
Families == {4, 6}
High == 40000
Services ==
    {<<"icmp", 0>>, <<"icmpv6", 0>>, <<"tcp", 22>>, <<"tcp", 53>>, <<"udp", 53>>,
     <<"tcp", 443>>, <<"tcp", High>>, <<"udp", High>>}

Chains == {"input", "wan", "fw", "guard", "nat4", "nat6"}
\* What the chains of a hook are passed for.
ForwardHook == {"wan", "fw", "guard"}

\* A rule that matches everything, with a verdict.
Always(verdict) ==
    [iif |-> Interfaces, oif |-> Interfaces, src |-> Subnets, dst |-> Subnets,
     svc |-> Services, ct |-> States, verdict |-> verdict]

AddChain(c, policy) == [do |-> "chain", chain |-> c, policy |-> policy, orTrue |-> FALSE]
\* A rule may carry a comment, such as who asked for it.
AddRuleOf(owner, c, rule) ==
    [do |-> "rule", chain |-> c, rule |-> rule, comment |-> owner, orTrue |-> FALSE]
AddRule(c, rule) == AddRuleOf("", c, rule)
EnableForwarding == [do |-> "forwarding"]
\* A command of another kind, and one that nft cannot parse.
Other == [do |-> "other"]
Unparsable == [do |-> "unparsable"]

\* `2>/dev/null || true`: nobody notices when the command fails.
OrTrue(cmd) == [cmd EXCEPT !.orTrue = TRUE]
Hides(cmd) == cmd.do \in {"chain", "rule"} /\ cmd.orTrue

NoRuleset == [c \in {} |-> {}]

\* Adding a chain that exists changes nothing.
Execute(ruleset, cmd) ==
    CASE cmd.do = "chain" ->
            [c \in DOMAIN ruleset \cup {cmd.chain} |->
                IF c \in DOMAIN ruleset THEN ruleset[c]
                ELSE [policy |-> cmd.policy, rules |-> <<>>]]
      [] cmd.do = "rule" -> [ruleset EXCEPT ![cmd.chain].rules = Append(@, cmd.rule)]
      [] OTHER -> ruleset

CanExecute(ruleset, cmd) ==
    /\ cmd.do # "unparsable"
    /\ cmd.do = "rule" => cmd.chain \in DOMAIN ruleset
----------------------------------------------------------------------------
Matches(rule, p) ==
    /\ p.iif \in rule.iif /\ p.oif \in rule.oif
    /\ p.src \in rule.src /\ p.dst \in rule.dst
    /\ p.svc \in rule.svc /\ p.ct \in rule.ct

\* The first rule that matches decides.
ChainVerdict(chain, p) ==
    LET Hit(i) == Matches(chain.rules[i], p)
        end == Len(chain.rules) + 1
        first == CHOOSE i \in 1 .. end :
                    (i = end \/ Hit(i)) /\ \A j \in 1 .. i - 1 : ~Hit(j)
    IN  IF first = end THEN chain.policy ELSE chain.rules[first].verdict

\* A packet is accepted by a hook if each of its chains accepts it.
Accepts(ruleset, hook, p) ==
    \A c \in hook \cap DOMAIN ruleset : ChainVerdict(ruleset[c], p) = "accept"

Forwards(ruleset, p) == Accepts(ruleset, ForwardHook, p)

\* Connections are tracked as soon as some rule asks for their state, or
\* addresses are translated.
Tracks(ruleset) ==
    \/ {"nat4", "nat6"} \cap DOMAIN ruleset # {}
    \/ \E c \in DOMAIN ruleset : \E i \in 1 .. Len(ruleset[c].rules) :
            ruleset[c].rules[i].ct # States

\* The first packet of a connection decides on its translation.
Translates(ruleset, p) ==
    LET c == IF FamilyOf[p.src] = 4 THEN "nat4" ELSE "nat6"
    IN  c \in DOMAIN ruleset /\ ChainVerdict(ruleset[c], p) = "masquerade"

\* The packets that answer p.
Answer(p) ==
    [p EXCEPT !.iif = p.oif, !.oif = p.iif, !.src = p.dst, !.dst = p.src,
              !.svc = IF p.svc[1] \in {"tcp", "udp"} THEN <<p.svc[1], High>> ELSE p.svc,
              !.ct = "established"]
=============================================================================
