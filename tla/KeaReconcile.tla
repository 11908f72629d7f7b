---------------------------- MODULE KeaReconcile ----------------------------
(***************************************************************************)
(* The Kea reconcile scripts that access_advertisements.py writes, and the *)
(* loop of deploy-clab.sh (and of the host program) that runs them, one    *)
(* after the other, in the containers of a deployed lab.                   *)
(*                                                                         *)
(* A script waits for its interface, stops the daemon named in its pid     *)
(* file, starts a new one, and waits for a socket on the service port.     *)
(* Daemons live on between runs of the loop: the n-th run starts the n-th  *)
(* daemon of a scope.  A daemon that cannot open its socket tries again    *)
(* and may go on without one; one that was told to stop takes its time.    *)
(***************************************************************************)
EXTENDS Naturals, Sequences, FiniteSets

CONSTANTS
    Scripts,         \* the scopes with a script, in the order of the loop
    PortOf,          \* the service port of each, in its container
    InterfaceTries,  \* 60 in the code
    SocketTries,     \* 30 in the code
    MaxRuns          \* bound: how often the loop is run

Scopes == {Scripts[i] : i \in DOMAIN Scripts}
Runs == 1 .. MaxRuns

ASSUME ScriptsAssumption ==
    /\ Scripts \in Seq(Scopes) /\ Scripts # <<>>
    /\ \A i, j \in DOMAIN Scripts : Scripts[i] = Scripts[j] => i = j
ASSUME TriesAssumption == InterfaceTries \in Nat \ {0} /\ SocketTries \in Nat \ {0}
ASSUME MaxRunsAssumption == MaxRuns \in Nat \ {0}

VARIABLES
    pc,       \* where the loop is
    run,      \* how often it was started
    pos,      \* the script it is at
    tries,    \* kea_interface_attempt, kea_socket_attempt
    link,     \* which scopes have their interface up, with an address
    daemon,   \* the state of every daemon of every scope
    pidFile,  \* the daemon named in the pid file of a scope, 0 for none
    opened,   \* history: the daemons that ever opened their socket
    alone     \* history: the scopes whose last daemon was started when no other of its port lived

vars == <<pc, run, pos, tries, link, daemon, pidFile, opened, alone>>
loopVars == <<run, pos>>
worldVars == <<link, daemon, pidFile, opened, alone>>

Live == {"starting", "serving", "mute", "stopping", "stoppingMute"}
Holding == {"serving", "stopping"}
States == Live \cup {"none", "dead"}

TypeOK ==
    /\ pc \in {"idle", "interface", "kill", "start", "alive", "socket", "ready", "failed"}
    /\ run \in 0 .. MaxRuns /\ pos \in 0 .. Len(Scripts)
    /\ tries \in Nat
    /\ pc = "interface" => tries < InterfaceTries
    /\ pc \in {"alive", "socket"} => tries < SocketTries
    /\ link \in [Scopes -> BOOLEAN]
    /\ daemon \in [Scopes -> [Runs -> States]]
    /\ pidFile \in [Scopes -> 0 .. MaxRuns]
    /\ opened \in [Scopes -> SUBSET Runs]
    /\ alone \in SUBSET Scopes

Init ==
    /\ pc = "idle" /\ run = 0 /\ pos = 0 /\ tries = 0
    /\ link \in [Scopes -> BOOLEAN]
    /\ daemon = [s \in Scopes |-> [r \in Runs |-> "none"]]
    /\ pidFile = [s \in Scopes |-> 0]
    /\ opened = [s \in Scopes |-> {}]
    /\ alone = {}

Scope == Scripts[pos]
LivesOnPort(p) ==
    \E s \in Scopes, r \in Runs : PortOf[s] = p /\ daemon[s][r] \in Live
HeldPort(p) ==
    \E s \in Scopes, r \in Runs : PortOf[s] = p /\ daemon[s][r] \in Holding

-----------------------------------------------------------------------------
\* The loop and the script it is at

\* The loop is started, after a deployment or by hand.
Reconcile ==
    /\ pc \in {"idle", "ready", "failed"} /\ run < MaxRuns
    /\ run' = run + 1 /\ pos' = 1 /\ tries' = 0
    /\ pc' = "interface"
    /\ UNCHANGED worldVars

InterfaceReady ==
    /\ pc = "interface" /\ link[Scope]
    /\ pc' = "kill" /\ tries' = 0
    /\ UNCHANGED <<loopVars, worldVars>>

\* The counter goes up and is tested: out of tries is the end of the loop.
TriesLeft(limit) == tries + 1 < limit

WaitUncounted(limit, again) ==
    /\ pc' = again
    /\ UNCHANGED <<tries, loopVars, worldVars>>

WaitFor(limit, again) ==
    /\ IF TriesLeft(limit)
       THEN pc' = again /\ tries' = tries + 1
       ELSE pc' = "failed" /\ tries' = 0
    /\ UNCHANGED <<loopVars, worldVars>>

WaitForInterface ==
    /\ pc = "interface" /\ ~link[Scope]
    /\ WaitFor(InterfaceTries, "interface")

\* TERM to the daemon of the pid file, if it lives.
Stopped(state) ==
    CASE state = "serving" -> "stopping"
      [] state \in {"starting", "mute"} -> "stoppingMute"
      [] OTHER -> state

KillNothing ==
    /\ pc = "kill"
    /\ pc' = "start"
    /\ UNCHANGED <<loopVars, tries, worldVars>>

KillOld ==
    /\ pc = "kill"
    /\ IF pidFile[Scope] = 0
       THEN UNCHANGED daemon
       ELSE daemon' = [daemon EXCEPT ![Scope][pidFile[Scope]] = Stopped(@)]
    /\ pc' = "start"
    /\ UNCHANGED <<loopVars, tries, link, pidFile, opened, alone>>

\* One second later.
StartDaemon ==
    /\ pc = "start"
    /\ daemon' = [daemon EXCEPT ![Scope][run] = "starting"]
    /\ pidFile' = [pidFile EXCEPT ![Scope] = run]
    /\ alone' = IF LivesOnPort(PortOf[Scope]) THEN alone \ {Scope} ELSE alone \cup {Scope}
    /\ pc' = "alive" /\ tries' = 0
    /\ UNCHANGED <<loopVars, link, opened>>

\* kill -0, and then ss with a filter on the port alone
DaemonAlive ==
    /\ pc = "alive" /\ daemon[Scope][pidFile[Scope]] \in Live
    /\ pc' = "socket"
    /\ UNCHANGED <<loopVars, tries, worldVars>>

DaemonGone ==
    /\ pc = "alive" /\ daemon[Scope][pidFile[Scope]] \notin Live
    /\ WaitFor(SocketTries, "alive")

NotProbed == TRUE
SocketSeen == HeldPort(PortOf[Scope])

\* The script ends with 0; the loop goes on or ends.
SocketOpen ==
    /\ pc = "socket" /\ SocketSeen
    /\ IF pos < Len(Scripts)
       THEN pc' = "interface" /\ pos' = pos + 1
       ELSE pc' = "ready" /\ pos' = 0
    /\ tries' = 0
    /\ UNCHANGED <<run, worldVars>>

SocketClosed ==
    /\ pc = "socket" /\ ~SocketSeen
    /\ WaitFor(SocketTries, "alive")

Script ==
    \/ InterfaceReady \/ WaitForInterface
    \/ KillOld \/ StartDaemon
    \/ DaemonAlive \/ DaemonGone
    \/ SocketOpen \/ SocketClosed

-----------------------------------------------------------------------------
\* The interfaces and the daemons

InterfaceComesUp(s) ==
    /\ ~link[s]
    /\ link' = [link EXCEPT ![s] = TRUE]
    /\ UNCHANGED <<pc, run, pos, tries, daemon, pidFile, opened, alone>>

Becomes(s, r, state) ==
    /\ daemon' = [daemon EXCEPT ![s][r] = state]
    /\ UNCHANGED <<pc, run, pos, tries, link, pidFile, alone>>

\* An address is bound once: the daemon of an earlier run must have let it go.
OpensSocket(s, r) ==
    /\ daemon[s][r] = "starting"
    /\ \A o \in Runs : daemon[s][o] \notin Holding
    /\ Becomes(s, r, "serving")
    /\ opened' = [opened EXCEPT ![s] = @ \cup {r}]

\* service-sockets-max-retries is used up.
GoesOnMute(s, r) ==
    /\ daemon[s][r] = "starting"
    /\ Becomes(s, r, "mute")
    /\ UNCHANGED opened

Exits(s, r) ==
    /\ daemon[s][r] \in Live
    /\ Becomes(s, r, "dead")
    /\ UNCHANGED opened

World ==
    \E s \in Scopes :
        \/ InterfaceComesUp(s)
        \/ \E r \in Runs : OpensSocket(s, r) \/ GoesOnMute(s, r) \/ Exits(s, r)

Next == Reconcile \/ Script \/ World

\* The script sleeps and asks; nothing it asks can keep it waiting.
Spec == Init /\ [][Next]_vars /\ WF_vars(Script)

-----------------------------------------------------------------------------
(***************************************************************************)
(* What the reconcile loop promises of the daemons.                        *)
(***************************************************************************)

\* A loop that ends well has seen the socket of every daemon it started, as long as
\* no other daemon of the port was alive when it started it.
ReadyMeansServing ==
    pc = "ready" => \A s \in alone : run \in opened[s]

\* However the loop was repeated and wherever it failed, the only daemon of a scope
\* that has not been told to stop is the one its pid file names: the next loop can
\* stop it.
NoForgottenDaemon ==
    \A s \in Scopes, r \in Runs :
        daemon[s][r] \in {"starting", "serving", "mute"} => pidFile[s] = r

\* The loop ends, whatever the interfaces and the daemons do.
ReconcileEnds == pc = "interface" ~> pc \in {"ready", "failed"}
=============================================================================
