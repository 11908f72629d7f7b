---------------------------- MODULE NodeBootProps ----------------------------
(***************************************************************************)
(* What the firewall of a node promises, while its exec bundles build it   *)
(* and afterwards.                                                         *)
(***************************************************************************)
EXTENDS NodeBoot

\* What a rule of the forwarding intent says, whatever the renderer makes of it;
\* the rule has the names of interfaces.
MatchCovers(m, p) ==
    /\ m.fam \in {0, FamilyOf[p.src]}
    /\ CASE m.proto \in {"tcp", "udp"} -> p.svc[1] = m.proto /\ p.svc[2] \in m.ports
         [] m.proto = "any" -> TRUE
         [] OTHER -> p.svc = <<IF FamilyOf[p.src] = 6 THEN "icmpv6" ELSE "icmp", 0>>

Covers(r, p) ==
    /\ p.iif = r.from /\ p.oif = r.to
    /\ r.state = "" /\ ~r.ret
    /\ r.fam \in {0, FamilyOf[p.src]}
    /\ r.src = {} \/ p.src \in r.src
    /\ r.runtime \cup r.dst = {} \/ p.dst \in r.runtime \cup r.dst
    /\ IF r.matches = <<>> THEN ~r.dns \/ p.svc \in {<<"udp", 53>>, <<"tcp", 53>>}
       ELSE \E m \in ToSet(r.matches) : MatchCovers(m, p)

\* A session reaches an interface of the intent if no rule speaks of the two.
SessionPair(rules, sessions, p) ==
    LET named == UNION {{r.from, r.to} : r \in rules}
    IN  /\ \/ p.iif \in sessions /\ p.oif \in named \ sessions
           \/ p.oif \in sessions /\ p.iif \in named \ sessions
        /\ \A r \in rules : <<r.from, r.to>> # <<p.iif, p.oif>>

\* The first rule that covers a packet decides.
Accepted(n, p) ==
    LET rules == [i \in 1 .. Len(n.rules) |-> InContainer(n, n.rules[i])]
        FirstCovers(i) == Covers(rules[i], p) /\ \A j \in 1 .. i - 1 : ~Covers(rules[j], p)
    IN  \/ \E i \in 1 .. Len(rules) : FirstCovers(i) /\ rules[i].action = "accept"
        \/ /\ \A i \in 1 .. Len(rules) : ~Covers(rules[i], p)
           /\ SessionPair(ToSet(rules), ToSet(Sessions(n)), p)
AllowedBy(n) == Packets \ {p \in Packets : ~Accepted(n, p)}

\* What the intents of the nodes come to, which TLC computes once.
Meaning(n) == [of |-> n, allowed |-> AllowedBy(n), wans |-> ToSet(Wans(n))]
OfNodes(f(_)) == {f(n) : n \in Nodes}
Meanings == OfNodes(Meaning)
Meant == CHOOSE meaning \in Meanings : meaning.of = node
Allowed == Meant.allowed
WanSet == Meant.wans

\* Each family a rule speaks of is told by the prefixes of the rule: where there
\* are none, the statement for one family matches the other family, too.  And
\* the sources and the family of a rule for a runtime address are not rendered.
Tight(r) ==
    LET families == {f \in ToSet(FamiliesOf(r)) : r.dst = {} \/ OfFamily(r.dst, f) # {}}
    IN  /\ r.runtime # {} => r.src = {} /\ r.fam # 4
        /\ \A f \in families :
            /\ r.src # {} => OfFamily(r.src, f) # {}
            /\ r.fam # 0 \/ (\E m \in ToSet(r.matches) : m.fam # 0)
               => r.runtime # {} \/ OfFamily(r.src \cup r.dst, f) # {}

HasPolicy == "fw" \in DOMAIN ruleset /\ \A r \in ToSet(node.rules) : Tight(r)

Spoofed(p) == p.iif \in WanSet /\ p.src \in Private
----------------------------------------------------------------------------
\* The state of the scripts and of the kernel is well formed: a chain is there
\* before its rules are.
TypeOK ==
    /\ node \in Nodes /\ total = Len(commands)
    /\ life \in 1 .. Lives
    /\ pc \in [Bundles -> {"idle", "wait", "run", "done", "failed"}]
    /\ waited \in [Bundles -> 0 .. Waits]
    /\ \A b \in Bundles : at[b] \in BeginOf(b) .. EndOf(b) + 1
    /\ DOMAIN ruleset \subseteq Chains
    /\ forwarding \in BOOLEAN /\ Known \subseteq Packets
    /\ lost \subseteq 1 .. total

\* policy_firewall.py: from the moment the chain exists, and however many of its
\* rules the node has run, nothing opens a connection across the node but what
\* the first rule of the intent that covers it accepts.
OnlyAllowedPasses == HasPolicy => passing \subseteq Allowed

\* When the scripts have come to their end, whatever the intent accepts can be
\* opened and answered, across all the chains of the hook, unless it comes from a
\* WAN with a private source or crosses the management interface.  The chain of the
\* policy and its first rules may have failed without a trace (policy_firewall.py:119):
\* that opens nothing and keeps nothing from being opened, but without the rule for
\* answers a node that is complete may open connections that get none.
AnswersLost == \E i \in lost : commands[i] = AnswersPass
AllowedPasses ==
    Complete /\ HasPolicy =>
        \A p \in Allowed :
            ~Spoofed(p) /\ Management \notin {p.iif, p.oif}
            => p \in passing /\ (p \in Known /\ ~AnswersLost => Passes(Answer(p)))

\* A packet that the intent does not accept passes before the policy is there; on
\* a node without WAN and without translation the tracker does not know it, so
\* that it opens nothing that the policy would let continue.
NothingOutlivesBoot ==
    HasPolicy /\ WanSet = {} /\ node.nat = {} => Known \subseteq Allowed

\* nat.py and firewall_wan.py write to the same chain: a connection is translated
\* only if its source is listed and it leaves by an interface that is; and one
\* that is opened once all commands have run always is.
Listed(p) ==
    /\ FamilyOf[p.src] \in node.nat
    /\ p.src \in node.saddr
    /\ p.oif \in ToSet(Runtimes(node, node.masquerade \o node.egress))
TranslatedAsListed ==
    [][\A flow \in flows' \ flows :
            /\ flow.translated => Listed(flow.packet)
            /\ Complete /\ Listed(flow.packet) => flow.translated]_vars

\* Every script of the node comes to its end: the waits are bounded, and there is
\* no cycle among them.
BootEnds == <>[](\A b \in Bundles : pc[b] \in {"done", "failed"})
=============================================================================
