----------------------------- MODULE ServiceDeploy -----------------------------
(***************************************************************************)
(* The services of a lab, from the boot of its nodes to the end of the     *)
(* deployment: the nodes run the commands of NodeServices, and deploy-clab *)
(* goes through the labelled ones, first those of the resolvers, then      *)
(* those of Kea.                                                           *)
(*                                                                         *)
(* The shells of the Kea and Unbound commands run on when one of their     *)
(* lines fails: a reservation set that the materializer rejects, or a      *)
(* configuration that unbound-checkconf rejects, does not stop the boot.   *)
(* Nodes are known by their place in the order of their names.             *)
(*                                                                         *)
(* The counted waits of the Kea scripts are left to KeaReconcile: a wait   *)
(* may end in failure at any time here.                                    *)
(***************************************************************************)
EXTENDS NodeServices, UnboundReconcile

CONSTANTS
    ServiceLabs,  \* a lab is a sequence of nodes
    Contents      \* of the protected files of routes: the prefix in each

ASSUME ServiceLabsAssumption ==
    \A l \in ServiceLabs :
        /\ IsSequence(l)
        /\ \A n \in DOMAIN l :
               /\ NodeShape(l[n])
               /\ \A r \in ToSet(l[n].routes) \cup ToSet(l[n].addresses) : r.source \in DOMAIN Contents
ASSUME ContentsAssumption ==
    \A file \in DOMAIN Contents : Contents[file].first \in Nat /\ Contents[file].len \in Nat

VARIABLES
    lab,
    stage,      \* of the deployment
    at,         \* the command each node is at
    routes,     \* of each node: a set of [to, on]
    opened,     \* the addresses that the firewall of each node lets through
    config,     \* Kea's configurations in each node: the scope, by device and family
    scripts,    \* the Kea scripts in each node, by device and family
    include,    \* the files for Unbound in each node: the publisher, by stem
    unbound,    \* the nodes with a script for Unbound
    queue,      \* the containers the Kea loop has still to go through
    left,       \* the scripts it has found in the first of them
    current,    \* the one of them that runs
    kea,        \* the daemons of Kea that live
    served,     \* history: the scopes that the last daemon of their script opened its socket for
    lone        \* history: the scripts whose last daemon was started when no other of its port lived

files == <<routes, opened, config, scripts, include, unbound>>
keaLoop == <<queue, left, current>>
keaWorld == <<kea, served, lone>>
serviceVars == <<lab, stage, at, files, keaLoop, keaWorld>>

Nodes == DOMAIN lab
ByName(nodes) == Keep([n \in Nodes |-> n], nodes)
Commands(n) == ServiceCommands(lab[n])
Nothing == [x \in {} |-> None]
With(f, x, y) == [z \in DOMAIN f \cup {x} |-> IF z = x THEN y ELSE f[z]]

\* What is refused is never deployed.
ServiceInit ==
    /\ lab \in {l \in ServiceLabs : \A n \in DOMAIN l : ~ServicesRefused(l[n])}
    /\ stage = "boot"
    /\ at = [n \in Nodes |-> 1]
    /\ routes = [n \in Nodes |-> {}] /\ opened = [n \in Nodes |-> {}]
    /\ config = [n \in Nodes |-> Nothing] /\ include = [n \in Nodes |-> Nothing]
    /\ scripts = [n \in Nodes |-> {}]
    /\ unbound = {}
    /\ queue = <<>> /\ left = {} /\ current = None
    /\ kea = {} /\ served = {} /\ lone = {}
    /\ LoopInit(ByName({n \in Nodes : HasUnboundRuntime(lab[n])}))

-----------------------------------------------------------------------------
\* The boot of a node

\* A source that is not mounted is not there.
Reads(c) == IF c.kind \in {"route", "address", "kea"} THEN {c.source} ELSE {}
Mounted(n, c) == Reads(c) \subseteq ProtectedBinds(lab[n])
Accepted(c) ==
    /\ c.kind = "route" => Derivable(Contents[c.source], c.route)
    /\ c.kind = "address" => AddressDerivable(Contents[c.source], c.address)

\* ip route replace
Replaced(table, route) == {r \in table : r.to # route.to} \cup {route}

RunRoute(n, c) ==
    /\ c.kind = "route"
    /\ routes' = [routes EXCEPT ![n] =
           Replaced(@, [to |-> Derived(Contents[c.source], c.route), on |-> c.route.on])]
    /\ UNCHANGED <<opened, config, scripts, include, unbound>>

RunAddress(n, c) ==
    /\ c.kind = "address"
    /\ opened' = [opened EXCEPT ![n] = @ \cup {DerivedAddress(Contents[c.source], c.address)}]
    /\ UNCHANGED <<routes, config, scripts, include, unbound>>

\* What the materializer makes of the source: the file for Unbound is written
\* before the configuration of Kea.  The script is written whatever comes of it.
Outcomes == {"both", "names", "nothing"}
RunKea(n, c) ==
    /\ c.kind = "kea"
    /\ \E written \in Outcomes :
        /\ config' = IF written # "both" THEN config
                     ELSE [config EXCEPT ![n] = With(@, <<c.on, c.family>>, c.scope)]
        /\ include' = IF written = "nothing" \/ c.publication = None THEN include
                      ELSE [include EXCEPT ![n] = With(@, Stem[c.scope],
                              [scope |-> c.scope, family |-> c.family])]
    /\ scripts' = [scripts EXCEPT ![n] = @ \cup {<<c.on, c.family>>}]
    /\ UNCHANGED <<routes, opened, unbound>>

RunUnbound(n, c) ==
    /\ c.kind = "unbound"
    /\ unbound' = unbound \cup {n}
    /\ UNCHANGED <<routes, opened, config, scripts, include>>

RunOther(n, c) ==
    /\ c.kind \in {"udhcpd", "ra", "proxy"}
    /\ UNCHANGED files

Run(n) ==
    /\ stage = "boot" /\ at[n] <= Len(Commands(n))
    /\ LET c == Commands(n)[at[n]]
       IN  /\ Mounted(n, c) /\ Accepted(c)
           /\ \/ RunRoute(n, c) \/ RunAddress(n, c)
              \/ RunKea(n, c) \/ RunUnbound(n, c) \/ RunOther(n, c)
    /\ at' = [at EXCEPT ![n] = @ + 1]
    /\ UNCHANGED <<vars, lab, stage, keaLoop, keaWorld>>

\* A command that stops the boot ends the deployment (ClabDeploy).
Fail(n) ==
    /\ stage = "boot" /\ at[n] <= Len(Commands(n))
    /\ stage' = IF Mounted(n, Commands(n)[at[n]]) THEN "failed" ELSE "missing"
    /\ UNCHANGED <<vars, lab, at, files, keaLoop, keaWorld>>
-----------------------------------------------------------------------------
\* The loops

\* deploy_lab has returned; or somebody runs the loops again.
Booted == \A n \in Nodes : at[n] > Len(Commands(n))
StartLoops ==
    /\ Booted /\ stage \in {"boot", "ready", "failed"}
    /\ Reconcile
    /\ stage' = "dns"
    /\ left' = {} /\ queue' = <<>>
    /\ UNCHANGED <<lab, at, files, current, keaWorld>>

\* "advertises DNS reconciliation without a runtime script"
DnsLoop ==
    /\ stage = "dns"
    /\ IF pc = "stop" /\ Resolver \notin unbound
       THEN stage' = "missing" /\ UNCHANGED vars
       ELSE Script /\ stage' = IF pc' = "failed" THEN "failed" ELSE stage
    /\ UNCHANGED <<lab, at, files, keaLoop, keaWorld>>

\* A daemon of a resolver that includes a file that is not there ends.
Daemons ==
    /\ World
    /\ \A n \in Resolvers : \A r \in Runs :
           daemon'[n][r] = "bound" => Included(lab[n]) \subseteq DOMAIN include[n]
    /\ UNCHANGED serviceVars

StartKea ==
    /\ stage = "dns" /\ pc = "ready"
    /\ stage' = "kea"
    /\ queue' = ByName({n \in Nodes : HasKeaRuntime(lab[n])})
    /\ UNCHANGED <<vars, lab, at, files, left, current, keaWorld>>

\* find; "advertises Kea reconciliation without runtime scripts"
FindScripts ==
    /\ stage = "kea" /\ queue # <<>> /\ left = {}
    /\ left' = scripts[Head(queue)]
    /\ stage' = IF left' = {} THEN "missing" ELSE stage
    /\ UNCHANGED <<vars, lab, at, files, queue, current, keaWorld>>

\* The script that runs, in its container.
Current == <<Head(queue), current[1], current[2]>>
ScriptOf(d) == <<d.node, d.on, d.family>>
HoldsPort == {"serving", "stopping"}
NotTold == {"starting", "serving"}

\* In any order.  TERM to the daemon of the pid file.
Stopped(state) == IF state \in HoldsPort THEN "stopping" ELSE "stoppingMute"
ToEnd(d, script) == IF ScriptOf(d) = script THEN [d EXCEPT !.state = Stopped(@)] ELSE d
StopKea ==
    /\ stage = "kea" /\ current' \in left
    /\ stage' = "start"
    /\ kea' = {ToEnd(d, <<Head(queue), current'[1], current'[2]>>) : d \in kea}
    /\ UNCHANGED <<vars, lab, at, files, queue, left, served, lone>>

\* One second later, whatever has become of the old daemon.
Launched(n, script) ==
    [node |-> n, on |-> script[1], family |-> script[2],
     scope |-> IF script \in DOMAIN config[n] THEN config[n][script] ELSE None,
     state |-> "starting"]
LaunchKea ==
    /\ stage = "start"
    /\ stage' = "alive"
    /\ kea' = kea \cup {Launched(Head(queue), current)}
    /\ served' = {s \in served : ScriptOf(s) # Current}
    /\ lone' = IF \E d \in kea : d.node = Head(queue) /\ d.family = current[2]
               THEN lone \ {Current} ELSE lone \cup {Current}
    /\ UNCHANGED <<vars, lab, at, files, keaLoop>>

\* kill -0
KeaAlive ==
    /\ stage = "alive" /\ \E d \in kea : ScriptOf(d) = Current /\ d.state \in NotTold
    /\ stage' = "socket"
    /\ UNCHANGED <<vars, lab, at, files, keaLoop, keaWorld>>

\* Somebody has the port: any daemon of Kea, or udhcpd.
PortHeld(n, family) ==
    \/ \E d \in kea : d.node = n /\ d.family = family /\ d.state \in HoldsPort
    \/ family = "ipv4" /\ \E s \in ToSet(Realized(lab[n], lab[n].dhcp4)) : s.source = None

\* ss
NotProbed(n, family) == TRUE
SocketHeld(n, family) == PortHeld(n, family)
KeaProbed ==
    /\ stage = "socket"
    /\ IF SocketHeld(Head(queue), current[2])
       THEN /\ stage' = "kea"
            /\ left' = left \ {current}
            /\ queue' = IF left' = {} THEN Tail(queue) ELSE queue
       ELSE stage' = "alive" /\ UNCHANGED <<left, queue>>
    /\ UNCHANGED <<vars, lab, at, files, current, keaWorld>>

RunScript == StopKea \/ LaunchKea \/ KeaAlive \/ KeaProbed

\* A wait, for an interface or a daemon, is over.
ScriptFails ==
    /\ stage \in {"kea", "alive", "socket"} /\ left # {}
    /\ stage' = "failed"
    /\ UNCHANGED <<vars, lab, at, files, keaLoop, keaWorld>>

Finish ==
    /\ stage = "kea" /\ queue = <<>>
    /\ stage' = "ready"
    /\ UNCHANGED <<vars, lab, at, files, keaLoop, keaWorld>>

ServesScope(d) == [node |-> d.node, on |-> d.on, family |-> d.family, scope |-> d.scope]

\* A daemon binds the addresses of its interface, which the one before must have let
\* go; it may go on without, and has no use for them without a configuration.
OpensKea(d) ==
    /\ d.state = "starting" /\ d.scope # None
    /\ \A o \in kea : ScriptOf(o) = ScriptOf(d) => o.state \notin HoldsPort
    /\ kea' = (kea \ {d}) \cup {[d EXCEPT !.state = "serving"]}
    /\ served' = served \cup {ServesScope(d)}

EndsKea(d) == kea' = kea \ {d} /\ UNCHANGED served

KeaDaemons ==
    /\ \E d \in kea : OpensKea(d) \/ EndsKea(d)
    /\ UNCHANGED <<vars, lab, stage, at, files, keaLoop, lone>>

ServiceStep == StartKea \/ FindScripts \/ RunScript \/ ScriptFails \/ Finish \/ KeaDaemons

ServiceNext ==
    \/ \E n \in Nodes : Run(n) \/ Fail(n)
    \/ StartLoops \/ DnsLoop \/ Daemons
    \/ ServiceStep

ServiceSpec == ServiceInit /\ [][ServiceNext]_<<vars, serviceVars>>
-----------------------------------------------------------------------------
\* linux_runtime.py, access_advertisements.py and node_runtime.py read the same data
\* for the commands, the binds and the labels of a node: no command finds a protected
\* source missing that the host has, and no loop finds a container that is labelled
\* for it without a script ("advertises ... without runtime scripts").
NothingIsMissing == stage # "missing"

\* The scopes that are the only ones of their family on a node.
Only(n, family) ==
    LET scopes == Realized(lab[n], Dhcp(lab[n], family))
    IN  IF Len(scopes) = 1 THEN ToSet(scopes) ELSE {}

ScopesServed(n) ==
    \A f \in Families : \A s \in Only(n, f) :
        s.source # None /\ <<n, s.on, f>> \in lone
        => [node |-> n, on |-> s.on, family |-> f, scope |-> s.id] \in served

\* What a resolver includes is there, and names what is leased.
NamesServed(n) ==
    n \in Resolvers \cap alone =>
        \A stem \in Included(lab[n]) :
            /\ stem \in DOMAIN include[n]
            /\ LET e == include[n][stem]
               IN  \A s \in Only(n, e.family) :
                       <<n, s.on, e.family>> \in lone =>
                           [node |-> n, on |-> s.on, family |-> e.family, scope |-> e.scope] \in served

\* Routes for different parts of one protected prefix do not get into each other's
\* way, and stay within it; as do the addresses that are opened.  Prefixes of two
\* files may overlap: whoever delegates them decides that.
Apart(p, q) == AddressesOf(p) \cap AddressesOf(q) = {}
RoutesServed(n) ==
    LET given == {c.route : c \in ToSet(RouteCommands(lab[n]))}
        Prefix(r) == Derived(Contents[r.source], r)
    IN  /\ \A r \in given :
               (\A q \in given : <<q.source, q.slot>> = <<r.source, r.slot>> => q = r)
               => /\ (\A q \in given : q.source = r.source \/ Apart(Contents[q.source], Contents[r.source]))
                     => [to |-> Prefix(r), on |-> r.on] \in routes[n]
                  /\ AddressesOf(Prefix(r)) \subseteq AddressesOf(Contents[r.source])
                  /\ \A q \in given \ {r} :
                         <<q.source, q.tenant>> = <<r.source, r.tenant>> => Apart(Prefix(q), Prefix(r))
        /\ opened[n] \subseteq UNION {AddressesOf(Contents[a.source]) : a \in ToSet(lab[n].addresses)}
        /\ \A a, b \in ToSet(lab[n].addresses) :
               a # b /\ <<a.source, a.tenant>> = <<b.source, b.tenant>>
               => DerivedAddress(Contents[a.source], a) # DerivedAddress(Contents[b.source], b)

\* regression.md:41: "materializes secret-backed configuration during init, starts
\* both Kea families only after Containerlab has finalized links, and fails
\* deployment unless UDP 67 and 547 become ready".  When the deployment of a lab, or
\* a later round of its loops, ends well, every protected scope that no other scope
\* of its family on the node could answer for has a daemon of this round that got its
\* socket with that scope's reservations, provided that no other daemon of the port,
\* such as the one of the last round, lived when it was started: the script waits a
\* second for that one, and would take its socket for the new one's.  The scope's
\* resolver has the names of what is leased; and every tenant has the route to its
\* part of the protected prefix, in which its addresses are.
ReadyMeansServed ==
    stage = "ready" => \A n \in Nodes : ScopesServed(n) /\ NamesServed(n) /\ RoutesServed(n)
=============================================================================
