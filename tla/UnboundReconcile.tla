-------------------------- MODULE UnboundReconcile --------------------------
(***************************************************************************)
(* The script that unbound_service.py leaves in the container of a         *)
(* resolver, and the loop of deploy-clab.sh that runs it in one container  *)
(* of a deployed lab after the other.                                      *)
(*                                                                         *)
(* The script stops the daemon of the pid file, waits for the addresses to *)
(* listen at, starts a daemon, and waits for the sockets.  The n-th run of *)
(* the loop starts the n-th daemon of a resolver.  A daemon opens its      *)
(* sockets before it writes its pid file and serves; it cannot open them   *)
(* while another holds them.                                               *)
(***************************************************************************)
EXTENDS Naturals, Sequences, SequencesExt

CONSTANTS
    AddressTries,    \* 3000 in the code
    SocketTries,     \* 600 in the code
    MaxRuns          \* bound: how often the loop is run

ASSUME LoopAssumption == MaxRuns \in Nat /\ AddressTries \in Nat /\ SocketTries \in Nat

Runs == 1 .. MaxRuns

VARIABLES
    loop,      \* the resolvers with a script, in the order of the loop
    pc,        \* where the loop is
    run,       \* how often it was started
    pos,       \* the resolver it is at
    tries,
    usable,    \* the resolvers whose addresses are there and no longer tentative
    daemon,    \* the state of every daemon of every resolver
    pidFile,   \* the daemon named in the pid file, 0 for none
    alone      \* history: the resolvers whose last daemon was started when no other lived

vars == <<loop, pc, run, pos, tries, usable, daemon, pidFile, alone>>
worldVars == <<usable, daemon, pidFile, alone>>

Resolvers == ToSet(loop)
Resolver == loop[pos]
GoesOn == {"starting", "bound", "serving"}
Holding == {"bound", "serving", "stopping"}
Live == GoesOn \cup {"stopping"}

\* After a deployment whose resolvers are given.
LoopInit(resolvers) ==
    /\ loop = resolvers
    /\ pc = "idle" /\ run = 0 /\ pos = 0 /\ tries = 0
    /\ usable \in SUBSET Resolvers
    /\ daemon = [n \in Resolvers |-> [r \in Runs |-> "none"]]
    /\ pidFile = [n \in Resolvers |-> 0]
    /\ alone = {}

TypeOK ==
    /\ pc \in {"idle", "stop", "addresses", "start", "alive", "sockets", "giveUp", "ready", "failed"}
    /\ run \in 0 .. MaxRuns /\ pos \in 0 .. Len(loop)
    /\ tries \in Nat
    /\ usable \subseteq Resolvers /\ alone \subseteq Resolvers
    /\ daemon \in [Resolvers -> [Runs -> Live \cup {"none", "gone"}]]
    /\ pidFile \in [Resolvers -> 0 .. MaxRuns]

Goto(there) == pc' = there /\ UNCHANGED <<loop, run, pos>>
-----------------------------------------------------------------------------
\* The loop and the script it is at

Reconcile ==
    /\ pc \in {"idle", "ready", "failed"} /\ run < MaxRuns
    /\ run' = run + 1 /\ tries' = 0
    /\ pos' = IF loop = <<>> THEN 0 ELSE 1
    /\ pc' = IF loop = <<>> THEN "ready" ELSE "stop"
    /\ UNCHANGED <<loop, worldVars>>

\* TERM; a daemon that has not set up its handler yet dies of it.
Told(state) ==
    CASE state \in {"bound", "serving"} -> "stopping"
      [] state = "starting" -> "gone"
      [] OTHER -> state

StopOld ==
    /\ pc = "stop"
    /\ IF pidFile[Resolver] = 0
       THEN UNCHANGED daemon
       ELSE daemon' = [daemon EXCEPT ![Resolver][pidFile[Resolver]] = Told(@)]
    /\ pidFile' = [pidFile EXCEPT ![Resolver] = 0]
    /\ Goto("addresses")
    /\ UNCHANGED <<tries, usable, alone>>

\* One more attempt, or the end of them.
WaitFor(limit, again, otherwise) ==
    /\ IF tries + 1 < limit
       THEN Goto(again) /\ tries' = tries + 1
       ELSE Goto(otherwise) /\ tries' = 0
    /\ UNCHANGED worldVars

AddressesThere ==
    /\ pc = "addresses" /\ Resolver \in usable
    /\ Goto("start") /\ tries' = 0
    /\ UNCHANGED worldVars

WaitForAddresses ==
    /\ pc = "addresses" /\ Resolver \notin usable
    /\ WaitFor(AddressTries, "addresses", "failed")

StartDaemon ==
    /\ pc = "start"
    /\ daemon' = [daemon EXCEPT ![Resolver][run] = "starting"]
    /\ alone' = IF \E r \in Runs : daemon[Resolver][r] \in Live
                THEN alone \ {Resolver} ELSE alone \cup {Resolver}
    /\ Goto("alive")
    /\ UNCHANGED <<tries, usable, pidFile>>

\* kill -0
DaemonAlive ==
    /\ pc = "alive" /\ daemon[Resolver][run] \in Live
    /\ Goto("sockets")
    /\ UNCHANGED <<tries, worldVars>>

DaemonGone ==
    /\ pc = "alive" /\ daemon[Resolver][run] \notin Live
    /\ Goto("giveUp")
    /\ UNCHANGED <<tries, worldVars>>

\* ss does not say whose sockets they are.
SocketsNotAsked == TRUE
SocketsSeen == \E r \in Runs : daemon[Resolver][r] \in Holding

\* The script ends with 0; the loop goes on or ends.
SocketsOpen ==
    /\ pc = "sockets" /\ SocketsSeen
    /\ IF pos < Len(loop) THEN pc' = "stop" /\ pos' = pos + 1
                          ELSE pc' = "ready" /\ pos' = 0
    /\ tries' = 0
    /\ UNCHANGED <<loop, run, worldVars>>

SocketsClosed ==
    /\ pc = "sockets" /\ ~SocketsSeen
    /\ WaitFor(SocketTries, "alive", "giveUp")

\* "DNS resolver did not remain available"
GiveUpOnly ==
    /\ pc = "giveUp" /\ Goto("failed")
    /\ UNCHANGED <<tries, worldVars>>
GiveUp ==
    /\ pc = "giveUp"
    /\ daemon' = [daemon EXCEPT ![Resolver][run] = Told(@)]
    /\ Goto("failed")
    /\ UNCHANGED <<tries, usable, pidFile, alone>>

Script ==
    \/ StopOld
    \/ AddressesThere \/ WaitForAddresses
    \/ StartDaemon
    \/ DaemonAlive \/ DaemonGone
    \/ SocketsOpen \/ SocketsClosed
    \/ GiveUp
-----------------------------------------------------------------------------
\* The addresses and the daemons

AddressesCome(n) ==
    /\ n \notin usable
    /\ usable' = usable \cup {n}
    /\ UNCHANGED <<loop, pc, run, pos, tries, daemon, pidFile, alone>>

Becomes(n, r, state) ==
    /\ daemon' = [daemon EXCEPT ![n][r] = state]
    /\ UNCHANGED <<loop, pc, run, pos, tries, usable, alone>>

Binds(n, r) ==
    /\ daemon[n][r] = "starting"
    /\ \A o \in Runs : daemon[n][o] \notin Holding
    /\ Becomes(n, r, "bound")
    /\ UNCHANGED pidFile

Serves(n, r) ==
    /\ daemon[n][r] = "bound"
    /\ Becomes(n, r, "serving")
    /\ pidFile' = [pidFile EXCEPT ![n] = r]

\* In good order: it removes the pid file.
Stops(n, r) ==
    /\ daemon[n][r] = "stopping"
    /\ Becomes(n, r, "gone")
    /\ pidFile' = [pidFile EXCEPT ![n] = 0]

\* It cannot bind, or crashes.
Dies(n, r) ==
    /\ daemon[n][r] \in Live
    /\ Becomes(n, r, "gone")
    /\ UNCHANGED pidFile

World ==
    \E n \in Resolvers :
        \/ AddressesCome(n)
        \/ \E r \in Runs : Binds(n, r) \/ Serves(n, r) \/ Stops(n, r) \/ Dies(n, r)

Next == Reconcile \/ Script \/ World
-----------------------------------------------------------------------------
\* unbound_service.py:359 and 362, deploy-clab.sh:671: the loop reports resolvers
\* ready only if every one has a daemon of this run that got its sockets and, as
\* long as it serves, is the one that the next run will stop, unless an earlier one
\* that no pid file named was in its way; and when it fails, the resolver it was at
\* keeps no daemon of this run that goes on.
LoopTellsTheTruth ==
    /\ pc = "ready" =>
        \A n \in alone :
            /\ daemon[n][run] \notin {"none", "starting"}
            /\ daemon[n][run] = "serving" => pidFile[n] = run
            /\ \A r \in Runs \ {run} : daemon[n][r] \notin Live
    /\ pc = "failed" => daemon[Resolver][run] \notin GoesOn
=============================================================================
