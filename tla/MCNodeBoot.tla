----------------------------- MODULE MCNodeBoot -----------------------------
(***************************************************************************)
(* Instances of NodeBoot for TLC: policy nodes, cores with one and with    *)
(* two WANs, a PPPoE handoff, and intents that are refused.                *)
(***************************************************************************)
EXTENDS NodeBootProps

MCInterfaces == {"lan0", "eth2", "wan0", "wan1", "ppp0", Management}
MCSubnets == {"lan4", "net4", "lan6", "net6"}
MCWays ==
    {<<"lan0", "eth2">>, <<"eth2", "lan0">>, <<"lan0", "wan0">>, <<"wan0", "lan0">>,
     <<"lan0", "wan1">>, <<"wan1", "lan0">>, <<"lan0", "ppp0">>, <<"ppp0", "lan0">>,
     <<"ppp0", "wan0">>, <<"lan0", Management>>}
MCFamilyOf == [s \in MCSubnets |-> IF s \in {"lan4", "net4"} THEN 4 ELSE 6]
MCPrivate == {"lan4", "lan6"}

Across(way, pair, svc) ==
    [iif |-> way[1], oif |-> way[2], src |-> pair[1], dst |-> pair[2], svc |-> svc, ct |-> "new"]
Ports == {<<"tcp", 22>>, <<"udp", 53>>, <<"tcp", 443>>}
MCPackets ==
    {Across(w, pair, svc) : w \in MCWays, pair \in {<<"lan4", "net4">>, <<"net4", "lan4">>},
                            svc \in Ports \cup Icmp(4)}
    \cup
    {Across(w, pair, svc) : w \in MCWays, pair \in {<<"lan6", "net6">>, <<"net6", "lan6">>},
                            svc \in Ports \cup Icmp(6)}

\* The interface dmz has the name eth2 in the container.
Eth == [lan |-> "lan0", dmz |-> "eth2", isp |-> "wan0", alt |-> "wan1"]
If(name, runtime) == [name |-> name, runtime |-> runtime, kind |-> ""]
Ifs == <<If("lan", "lan0"), If("dmz", "dmz-long-name"), If("isp", "wan0"), If("alt", "wan1")>>

Plain(id, from, to, action) ==
    [id |-> id, from |-> from, to |-> to, action |-> action, fam |-> 0, src |-> {},
     dst |-> {}, matches |-> <<>>, dns |-> FALSE, state |-> "", ret |-> FALSE,
     runtime |-> {}, exact |-> FALSE]
Match(fam, proto, ports) == [fam |-> fam, proto |-> proto, ports |-> ports]
Return(id, from, to) ==
    [Plain(id, from, to, "accept") EXCEPT !.state = "established,related", !.ret = TRUE]
Runtime6(id, from, to) ==
    [Plain(id, from, to, "accept") EXCEPT
        !.runtime = {"lan6"}, !.exact = TRUE, !.matches = <<Match(6, "tcp", {443})>>]

BaseNode(rules) ==
    [eth |-> Eth, interfaces |-> Ifs, rules |-> rules, uplinks |-> <<>>, wans |-> <<>>,
     masquerade |-> <<>>, egress |-> <<>>, nat |-> {}, saddr |-> {}, pppoe |-> FALSE,
     ppp |-> NoName]

\* A deny in front of an accept, rules by prefix, by match and by traffic type,
\* and the way back of a connection.
Policy ==
    BaseNode(<<
        [Plain("deny-web", "lan", "dmz-long-name", "deny") EXCEPT
            !.matches = <<Match(0, "tcp", {443})>>],
        [Plain("lan4", "lan", "dmz", "accept") EXCEPT !.fam = 4, !.src = {"lan4"}],
        [Plain("lan6", "lan", "dmz", "accept") EXCEPT
            !.src = {"lan4", "lan6"}, !.dst = {"net6"}, !.matches = <<Match(6, "icmpv6", {})>>],
        [Plain("dns", "dmz", "lan", "accept") EXCEPT !.dns = TRUE, !.dst = {"lan4"}],
        Return("back", "dmz", "lan"),
        Runtime6("ingress", "wan0", "lan")>>)

\* Two matches, one of them unreadable: udp without a port.
Unreadable ==
    BaseNode(<<[Plain("voice", "lan", "dmz", "accept") EXCEPT
                    !.matches = <<Match(0, "tcp", {22}), Match(0, "udp", {})>>]>>)

Core(wans, rules) ==
    [BaseNode(rules) EXCEPT
        !.uplinks = wans, !.masquerade = <<"isp">>, !.egress = wans, !.nat = {4, 6},
        !.saddr = {"lan4", "lan6"}]
Outward == <<[Plain("out", "lan", "wan0", "accept") EXCEPT !.src = {"lan4", "lan6"}],
             Plain("in", "wan0", "lan", "accept")>>
SingleWan == Core(<<"isp">>, Outward)
DoubleWan == Core(<<"isp", "alt">>, Outward \o <<Plain("alt", "lan", "alt", "accept")>>)
NatOnly ==
    [BaseNode(<<>>) EXCEPT !.masquerade = <<"isp">>, !.nat = {4}, !.saddr = {"lan4"}]

\* The handoff knows the session by the service and by an interface; one rule
\* speaks of the session already.
Session == [name |-> "ppp0", runtime |-> NoName, kind |-> "pppoe-session"]
Pppoe ==
    [BaseNode(<<[Plain("up", "lan", "ppp0", "deny") EXCEPT !.matches = <<Match(0, "tcp", {443})>>],
                Plain("side", "isp", "lan", "accept")>>)
        EXCEPT !.interfaces = Ifs \o <<Session>>, !.pppoe = TRUE, !.ppp = "ppp0"]

\* The intents that are refused.
StatelessReturn == BaseNode(<<[Return("back", "dmz", "lan") EXCEPT !.state = ""]>>)
ForeignWan == [SingleWan EXCEPT !.uplinks = <<"elsewhere">>]
AmbiguousRuntime == BaseNode(<<[Runtime6("in", "wan0", "lan") EXCEPT !.dst = {"lan6"}]>>)
MixedIcmp ==
    BaseNode(<<[Plain("ping", "lan", "dmz", "accept") EXCEPT
                    !.matches = <<Match(0, "icmpv6", {})>>]>>)
ShortenedPeer ==
    [Pppoe EXCEPT !.rules = <<Plain("side", "dmz", "lan", "accept")>>]
RefusedNodes == {StatelessReturn, ForeignWan, AmbiguousRuntime, MixedIcmp, ShortenedPeer}

\* Rules whose family their prefixes do not tell: the premise of the policy
\* properties is false.
Loose == BaseNode(<<[Plain("v4", "lan", "dmz", "accept") EXCEPT !.fam = 4]>>)

MCNodes ==
    {Policy, Unreadable, SingleWan, DoubleWan, NatOnly, Pppoe, Loose} \cup RefusedNodes
=============================================================================
