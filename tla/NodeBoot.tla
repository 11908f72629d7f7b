------------------------------ MODULE NodeBoot ------------------------------
(***************************************************************************)
(* A node while its exec bundles build its firewall, and after.            *)
(*                                                                         *)
(* Packets pass meanwhile: the network namespace may forward from the      *)
(* start, and whatever the rules so far let through is remembered by the   *)
(* connection tracker.  A restart of the container loses rules and         *)
(* connections.                                                            *)
(***************************************************************************)
EXTENDS NodeExec, NodeFirewall

CONSTANTS
    Nodes,
    Packets         \* the first packets of the connections somebody may open

ASSUME FamiliesAssumption == FamilyOf \in [Subnets -> Families]

\* Ports above High are the clients' own; a packet has one family.
ASSUME PacketsAssumption ==
    /\ Packets \subseteq
        [iif : Interfaces, oif : Interfaces, src : Subnets, dst : Subnets,
         svc : {svc \in Services : svc[2] # High}, ct : {"new"}]
    /\ \A p \in Packets :
        /\ FamilyOf[p.src] = FamilyOf[p.dst]
        /\ p.svc[1] = "icmp" => FamilyOf[p.src] = 4
        /\ p.svc[1] = "icmpv6" => FamilyOf[p.src] = 6

IsMatch(m) ==
    m.fam \in {0, 4, 6} /\ m.proto \in {"any", "tcp", "udp", "icmp", "icmpv4", "icmpv6"}
IsRule(r) ==
    /\ r = [id |-> r.id, from |-> r.from, to |-> r.to, action |-> r.action, fam |-> r.fam,
            src |-> r.src, dst |-> r.dst, matches |-> r.matches, dns |-> r.dns,
            state |-> r.state, ret |-> r.ret, runtime |-> r.runtime, exact |-> r.exact]
    /\ r.fam \in {0, 4, 6}
    /\ IsSequence(r.matches) /\ \A m \in ToSet(r.matches) : IsMatch(m)

\* What EM/base.py reads are lists, whose rules say a family or none and name
\* protocols that it knows.  The name an interface has in the container is not
\* what another one is called by.
ASSUME NodesAssumption ==
    \A n \in Nodes :
        /\ IsSequence(n.interfaces) /\ IsSequence(n.rules) /\ IsSequence(n.uplinks)
        /\ IsSequence(n.wans) /\ IsSequence(n.masquerade) /\ IsSequence(n.egress)
        /\ \A r \in ToSet(n.rules) : IsRule(r)
        /\ \A name \in DOMAIN ForwardingNames(n) : Name(n, Name(n, name)) = Name(n, name)

VARIABLES
    node,
    commands,       \* what is rendered for it
    inherited,      \* whether a network namespace of this host forwards from the start
    ruleset,        \* of nftables
    forwarding,     \* net.ipv4.ip_forward, net.ipv6.conf.all.forwarding
    passing,        \* the first packets that these let through (follows from the two)
    flows,          \* [packet, translated]: the connections the tracker knows
    lost            \* history: the commands of this life whose failure nobody noticed

network == <<ruleset, forwarding, passing, flows, lost>>
given == <<node, commands, inherited>>
vars == <<execVars, given, network>>

Passes(p) == forwarding /\ Forwards(ruleset, p)
Passing == Packets \ {p \in Packets : ~Passes(p)}
Known == {flow.packet : flow \in flows}

\* A node whose intent is refused is never rendered.
Init ==
    /\ node \in {n \in Nodes : ~Refused(n)}
    /\ commands = Commands(node)
    /\ total = Len(commands)
    /\ ruleset = NoRuleset /\ inherited \in BOOLEAN /\ forwarding = inherited
    /\ passing = Passing /\ flows = {} /\ lost = {}
    /\ ExecInit

Script(b) == Quiet(b) /\ UNCHANGED <<given, network>>

Run(b) ==
    /\ RunCommand(b)
    /\ CanExecute(ruleset, commands[at[b]])
    /\ ruleset' = Execute(ruleset, commands[at[b]])
    /\ forwarding' = (forwarding \/ commands[at[b]] = EnableForwarding)
    /\ passing' = IF <<ruleset, forwarding>>' = <<ruleset, forwarding>> THEN passing ELSE Passing'
    /\ UNCHANGED <<given, flows, lost>>

\* Any command may fail; nft fails where it has to.
Fail(b) == CommandFails(b) /\ ~Hides(commands[at[b]]) /\ UNCHANGED <<given, network>>

\* The script goes on as if the command had done what it says.
FailUnnoticed(b) ==
    /\ RunCommand(b)
    /\ Hides(commands[at[b]])
    /\ lost' = lost \cup {at[b]}
    /\ UNCHANGED <<given, ruleset, forwarding, passing, flows>>

\* Hosts on all sides open every connection the node lets through.
Traffic ==
    /\ Tracks(ruleset)
    /\ flows' = flows \cup {[packet |-> p, translated |-> Translates(ruleset, p)] :
                            p \in passing \ Known}
    /\ flows' # flows
    /\ UNCHANGED <<execVars, given, ruleset, forwarding, passing, lost>>

Reboot ==
    /\ Restart
    /\ ruleset' = NoRuleset /\ forwarding' = inherited
    /\ passing' = Passing' /\ flows' = {} /\ lost' = {}
    /\ UNCHANGED given

Boot(b) == Script(b) \/ Run(b) \/ Fail(b) \/ FailUnnoticed(b)
Next == (\E b \in Bundles : Boot(b)) \/ Traffic \/ Reboot

\* Containerlab starts every script, and a shell runs on.
Fairness == WF_execVars(ExecStep)

Spec == Init /\ [][Next]_vars /\ Fairness
=============================================================================
