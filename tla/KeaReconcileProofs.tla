------------------------- MODULE KeaReconcileProofs -------------------------
(***************************************************************************)
(* What is proved about the reconcile loop, for every list of scripts,     *)
(* every assignment of ports, every limit and every number of runs.        *)
(***************************************************************************)
EXTENDS KeaReconcile, TLAPS

Active == {"interface", "kill", "start", "alive", "socket"}
Unstopped == {"starting", "serving", "mute"}

\* Where the loop is, and that the daemons of later runs do not exist yet.
PlaceInv ==
    /\ pc # "idle" => run \in Runs
    /\ pc \in Active => pos \in DOMAIN Scripts
    /\ \A s \in Scopes : pidFile[s] \in 0 .. run
    /\ \A s \in Scopes, r \in Runs : r > run => daemon[s][r] = "none"

\* Nor do those of the scripts that this run has still to start.
PendingInv ==
    pc \in Active =>
        \A i \in DOMAIN Scripts :
            i > pos \/ (i = pos /\ pc \in {"interface", "kill", "start"}) =>
                daemon[Scripts[i]][run] = "none"

\* Between the kill and the start no daemon of the scope is left that was not told
\* to stop; after the start the pid file names the new one.
KillInv ==
    /\ pc = "start" => \A r \in Runs : daemon[Scope][r] \notin Unstopped
    /\ pc \in {"alive", "socket"} => pidFile[Scope] = run

\* A daemon that was started alone is the only one of its port until it is ready.
AloneInv ==
    pc \in {"alive", "socket"} /\ Scope \in alone =>
        \A s \in Scopes, r \in Runs :
            PortOf[s] = PortOf[Scope] /\ daemon[s][r] \in Live => s = Scope /\ r = run

\* Who holds a socket has opened it.
OpenedInv == \A s \in Scopes, r \in Runs : daemon[s][r] \in Holding => r \in opened[s]

\* What ReadyMeansServing says, of the scripts that this run is through with.
ServedInv ==
    \A i \in DOMAIN Scripts :
        pc = "ready" \/ (pc \in Active /\ i < pos) =>
            (Scripts[i] \in alone => run \in opened[Scripts[i]])

IInv ==
    /\ TypeOK
    /\ PlaceInv /\ PendingInv /\ KillInv /\ AloneInv /\ OpenedInv /\ ServedInv
    /\ NoForgottenDaemon

\* Every scope is the one of some script, and only of one.
LEMMA ScriptScopes ==
    /\ DOMAIN Scripts = 1 .. Len(Scripts) /\ Len(Scripts) \in Nat \ {0}
    /\ \A i \in DOMAIN Scripts : Scripts[i] \in Scopes
    /\ \A s \in Scopes : \E i \in DOMAIN Scripts : s = Scripts[i]
    /\ \A i, j \in DOMAIN Scripts : Scripts[i] = Scripts[j] => i = j
BY ScriptsAssumption DEF Scopes

LEMMA InitIInv == Init => IInv
BY ScriptScopes, TriesAssumption, MaxRunsAssumption
   DEF Init, IInv, TypeOK, PlaceInv, PendingInv, KillInv, AloneInv, OpenedInv, ServedInv,
       NoForgottenDaemon, Runs, States, Live, Holding, Unstopped, Active

\* A step of a daemon or an interface: the loop's own variables stay.
LEMMA WorldStep == IInv /\ World => IInv'
<1> SUFFICES ASSUME IInv, NEW s \in Scopes,
                    \/ InterfaceComesUp(s)
                    \/ \E r \in Runs : OpensSocket(s, r) \/ GoesOnMute(s, r) \/ Exits(s, r)
             PROVE  IInv'
  BY DEF World
<1> USE ScriptScopes
    DEF IInv, TypeOK, PlaceInv, PendingInv, KillInv, AloneInv, OpenedInv, ServedInv,
        NoForgottenDaemon, Runs, States, Live, Holding, Unstopped, Active, Scope
<1>1. CASE InterfaceComesUp(s)
  BY <1>1 DEF InterfaceComesUp
<1>2. ASSUME NEW r \in Runs, OpensSocket(s, r) PROVE IInv'
  BY <1>2 DEF OpensSocket, Becomes
<1>3. ASSUME NEW r \in Runs, GoesOnMute(s, r) PROVE IInv'
  BY <1>3 DEF GoesOnMute, Becomes
<1>4. ASSUME NEW r \in Runs, Exits(s, r) PROVE IInv'
  BY <1>4 DEF Exits, Becomes
<1> QED
  BY <1>1, <1>2, <1>3, <1>4

\* The kill leaves no daemon of the scope that was not told to stop: the pid file
\* named the only one.
LEMMA KillStep == IInv /\ KillOld => IInv'
<1> SUFFICES ASSUME IInv, KillOld PROVE IInv'
  OBVIOUS
<1>1. /\ pc = "kill" /\ pc' = "start"
      /\ UNCHANGED <<run, pos, tries, link, pidFile, opened, alone>>
      /\ daemon' = IF pidFile[Scope] = 0
                   THEN daemon
                   ELSE [daemon EXCEPT ![Scope][pidFile[Scope]] = Stopped(@)]
  BY DEF KillOld, loopVars
<1>2. /\ pos \in DOMAIN Scripts /\ Scope \in Scopes /\ Scope' = Scope
      /\ run \in Runs /\ pidFile[Scope] \in 0 .. run
  BY <1>1, ScriptScopes DEF IInv, PlaceInv, Active, Scope
<1>3. daemon \in [Scopes -> [Runs -> States]]
  BY DEF IInv, TypeOK
<1>4. \A s \in Scopes, r \in Runs :
          daemon'[s][r] = IF s = Scope /\ r = pidFile[Scope]
                          THEN Stopped(daemon[s][r])
                          ELSE daemon[s][r]
  <2>1. CASE pidFile[Scope] = 0
    BY <1>1, <2>1 DEF Runs
  <2>2. CASE pidFile[Scope] # 0
    BY <1>1, <1>2, <1>3, <2>2
  <2> QED
    BY <2>1, <2>2
<1>5. daemon' \in [Scopes -> [Runs -> States]]
  <2>1. \A x \in States : Stopped(x) \in States
    BY DEF Stopped, States, Live
  <2>2. CASE pidFile[Scope] = 0
    BY <1>1, <1>3, <2>2
  <2>3. CASE pidFile[Scope] # 0
    <3>1. pidFile[Scope] \in Runs
      BY <1>2, <2>3, MaxRunsAssumption DEF Runs
    <3>2. Stopped(daemon[Scope][pidFile[Scope]]) \in States
      BY <1>2, <1>3, <2>1, <3>1
    <3> QED
      BY <1>1, <1>2, <1>3, <2>3, <3>1, <3>2
  <2> QED
    BY <2>2, <2>3
<1>6. \A s \in Scopes, r \in Runs :
          /\ (daemon'[s][r] = "none") <=> (daemon[s][r] = "none")
          /\ daemon'[s][r] \in Holding => daemon[s][r] \in Holding
          /\ daemon'[s][r] \in Live => daemon[s][r] \in Live
          /\ daemon'[s][r] \in Unstopped =>
                daemon[s][r] \in Unstopped /\ ~(s = Scope /\ r = pidFile[Scope])
  <2> TAKE s \in Scopes, r \in Runs
  <2>1. CASE s = Scope /\ r = pidFile[Scope]
    <3>1. daemon'[s][r] = Stopped(daemon[s][r]) /\ daemon[s][r] \in States
      BY <1>3, <1>4, <2>1
    <3> QED
      BY <2>1, <3>1 DEF Stopped, Holding, Unstopped, States, Live
  <2>2. CASE ~(s = Scope /\ r = pidFile[Scope])
    BY <1>4, <2>2
  <2> QED
    BY <2>1, <2>2
<1>7. TypeOK'
  BY <1>1, <1>5 DEF IInv, TypeOK
<1>8. PlaceInv' /\ PendingInv'
  <2>1. PlaceInv'
    BY <1>1, <1>2, <1>6 DEF IInv, PlaceInv, Active
  <2>2. PendingInv'
    BY <1>1, <1>2, <1>6, ScriptScopes DEF IInv, PendingInv, Active
  <2> QED
    BY <2>1, <2>2
<1>9. NoForgottenDaemon'
  BY <1>1, <1>6 DEF IInv, NoForgottenDaemon, Unstopped
<1>10. KillInv'
  <2>1. \A r \in Runs : daemon'[Scope][r] \notin Unstopped
    BY <1>2, <1>6 DEF IInv, NoForgottenDaemon, Unstopped
  <2> QED
    BY <1>1, <1>2, <2>1 DEF KillInv
<1>11. OpenedInv' /\ AloneInv' /\ ServedInv'
  <2>1. OpenedInv'
    BY <1>1, <1>6 DEF IInv, OpenedInv
  <2>2. AloneInv'
    BY <1>1 DEF AloneInv
  <2>3. ServedInv'
    BY <1>1 DEF IInv, ServedInv, Active
  <2> QED
    BY <2>1, <2>2, <2>3
<1> QED
  BY <1>7, <1>8, <1>9, <1>10, <1>11 DEF IInv

\* The new daemon takes the pid file over; it counts as alone only if no other of
\* its port lives.
LEMMA StartStep == IInv /\ StartDaemon => IInv'
<1> SUFFICES ASSUME IInv, StartDaemon PROVE IInv'
  OBVIOUS
<1>1. /\ pc = "start" /\ pc' = "alive" /\ tries' = 0
      /\ UNCHANGED <<run, pos, link, opened>>
      /\ daemon' = [daemon EXCEPT ![Scope][run] = "starting"]
      /\ pidFile' = [pidFile EXCEPT ![Scope] = run]
      /\ alone' = IF LivesOnPort(PortOf[Scope]) THEN alone \ {Scope} ELSE alone \cup {Scope}
  BY DEF StartDaemon, loopVars
<1>2. /\ pos \in DOMAIN Scripts /\ Scope = Scripts[pos] /\ Scope \in Scopes
      /\ Scope' = Scope /\ run \in Runs
  BY <1>1, ScriptScopes DEF IInv, PlaceInv, Active, Scope
<1>3. /\ daemon \in [Scopes -> [Runs -> States]]
      /\ pidFile \in [Scopes -> 0 .. MaxRuns] /\ alone \in SUBSET Scopes
  BY DEF IInv, TypeOK
<1>4. /\ \A s \in Scopes, r \in Runs :
            daemon'[s][r] = IF s = Scope /\ r = run THEN "starting" ELSE daemon[s][r]
      /\ \A s \in Scopes : pidFile'[s] = IF s = Scope THEN run ELSE pidFile[s]
  BY <1>1, <1>2, <1>3
<1>5. "starting" \in States /\ run \in 0 .. MaxRuns
  BY <1>2 DEF States, Live, Runs
<1>6. daemon' \in [Scopes -> [Runs -> States]]
  BY <1>1, <1>2, <1>3, <1>5
<1>7. TypeOK'
  <2>1. pidFile' \in [Scopes -> 0 .. MaxRuns] /\ alone' \in SUBSET Scopes
    BY <1>1, <1>2, <1>3, <1>5
  <2> QED
    BY <1>1, <1>6, <2>1, TriesAssumption DEF IInv, TypeOK
<1>8. PlaceInv'
  BY <1>1, <1>2, <1>4 DEF IInv, PlaceInv, Active, Runs
<1>9. PendingInv'
  <2> SUFFICES ASSUME NEW i \in DOMAIN Scripts, i > pos
               PROVE  daemon'[Scripts[i]][run] = "none"
    BY <1>1 DEF PendingInv
  <2>1. Scripts[i] # Scope /\ Scripts[i] \in Scopes
    BY <1>2, ScriptScopes
  <2>2. daemon[Scripts[i]][run] = "none"
    BY <1>1 DEF IInv, PendingInv, Active
  <2> QED
    BY <1>2, <1>4, <2>1, <2>2
<1>10. KillInv'
  BY <1>1, <1>2, <1>4 DEF KillInv
<1>11. NoForgottenDaemon'
  BY <1>1, <1>2, <1>4 DEF IInv, NoForgottenDaemon, KillInv, Unstopped
<1>12. OpenedInv'
  BY <1>1, <1>4 DEF IInv, OpenedInv, Holding
<1>13. AloneInv'
  <2> SUFFICES ASSUME Scope \in alone', NEW s \in Scopes, NEW r \in Runs,
                      PortOf[s] = PortOf[Scope], daemon'[s][r] \in Live
               PROVE  s = Scope /\ r = run
    BY <1>1, <1>2 DEF AloneInv
  <2>1. ~LivesOnPort(PortOf[Scope])
    BY <1>1
  <2> QED
    BY <1>4, <2>1 DEF LivesOnPort
<1>14. ServedInv'
  <2> SUFFICES ASSUME NEW i \in DOMAIN Scripts, i < pos, Scripts[i] \in alone'
               PROVE  run \in opened[Scripts[i]]
    BY <1>1 DEF ServedInv
  <2>1. Scripts[i] # Scope
    BY <1>2, ScriptScopes
  <2> QED
    BY <1>1, <2>1 DEF IInv, ServedInv, Active
<1> QED
  BY <1>7, <1>8, <1>9, <1>10, <1>11, <1>12, <1>13, <1>14 DEF IInv

\* The loop goes on when a socket of the port is seen: if the daemon was started
\* alone, it is its own.
LEMMA OpenStep == IInv /\ SocketOpen => IInv'
<1> SUFFICES ASSUME IInv, SocketOpen PROVE IInv'
  OBVIOUS
<1>1. /\ pc = "socket" /\ tries' = 0
      /\ UNCHANGED <<run, link, daemon, pidFile, opened, alone>>
      /\ \/ pos < Len(Scripts) /\ pc' = "interface" /\ pos' = pos + 1
         \/ ~(pos < Len(Scripts)) /\ pc' = "ready" /\ pos' = 0
  BY DEF SocketOpen, worldVars
<1>2. /\ pos \in DOMAIN Scripts /\ Scope = Scripts[pos] /\ Scope \in Scopes
      /\ run \in Runs
  BY <1>1, ScriptScopes DEF IInv, PlaceInv, Active, Scope
<1>3. Scope \in alone => run \in opened[Scope]
  <2> SUFFICES ASSUME Scope \in alone PROVE run \in opened[Scope]
    OBVIOUS
  <2>1. PICK s \in Scopes, r \in Runs :
            PortOf[s] = PortOf[Scope] /\ daemon[s][r] \in Holding
    BY DEF SocketOpen, SocketSeen, HeldPort
  <2>2. s = Scope /\ r = run
    BY <1>1, <2>1 DEF IInv, AloneInv, Holding, Live
  <2> QED
    BY <2>1, <2>2 DEF IInv, OpenedInv
<1>4. TypeOK'
  BY <1>1, <1>2, ScriptScopes, TriesAssumption DEF IInv, TypeOK
<1>5. PlaceInv'
  BY <1>1, <1>2, ScriptScopes DEF IInv, PlaceInv, Active
<1>6. PendingInv'
  BY <1>1, <1>2, ScriptScopes DEF IInv, PendingInv, Active
<1>7. KillInv' /\ AloneInv' /\ OpenedInv' /\ NoForgottenDaemon'
  BY <1>1 DEF IInv, KillInv, AloneInv, OpenedInv, NoForgottenDaemon
<1>8. ServedInv'
  BY <1>1, <1>2, <1>3, ScriptScopes DEF IInv, ServedInv, Active
<1> QED
  BY <1>4, <1>5, <1>6, <1>7, <1>8 DEF IInv

\* The other steps only move the loop on, or end it.
LEMMA ScriptStep == IInv /\ Script => IInv'
<1> SUFFICES ASSUME IInv, Script PROVE IInv'
  OBVIOUS
<1> USE ScriptScopes, TriesAssumption
    DEF IInv, TypeOK, PlaceInv, PendingInv, KillInv, AloneInv, OpenedInv, ServedInv,
        NoForgottenDaemon, Runs, States, Live, Holding, Unstopped, Active,
        loopVars, worldVars
<1>1. CASE InterfaceReady
  BY <1>1 DEF InterfaceReady, Scope
<1>2. CASE WaitForInterface
  BY <1>2 DEF WaitForInterface, WaitFor, TriesLeft, Scope
<1>3. CASE DaemonAlive
  BY <1>3 DEF DaemonAlive, Scope
<1>4. CASE DaemonGone
  BY <1>4 DEF DaemonGone, WaitFor, TriesLeft, Scope
<1>5. CASE SocketClosed
  BY <1>5 DEF SocketClosed, WaitFor, TriesLeft, Scope
<1> QED
  BY <1>1, <1>2, <1>3, <1>4, <1>5, KillStep, StartStep, OpenStep DEF Script

LEMMA NextIInv == IInv /\ [Next]_vars => IInv'
<1> SUFFICES ASSUME IInv, [Next]_vars PROVE IInv'
  OBVIOUS
<1> USE ScriptScopes, TriesAssumption
    DEF IInv, TypeOK, PlaceInv, PendingInv, KillInv, AloneInv, OpenedInv, ServedInv,
        NoForgottenDaemon, Runs, States, Live, Holding, Unstopped, Active, Scope
<1>1. CASE Reconcile
  BY <1>1, MaxRunsAssumption DEF Reconcile, worldVars
<1>2. CASE UNCHANGED vars
  BY <1>2 DEF vars
<1> QED
  BY <1>1, <1>2, WorldStep, ScriptStep DEF Next

\* The inductive invariant holds in every state of the loop.
THEOREM Invariance == Spec => []IInv
<1> QED
  BY InitIInv, NextIInv, PTL DEF Spec

\* Every state is well typed: no attempt goes beyond its limit.
THEOREM TypeCorrect == Spec => []TypeOK
<1>1. IInv => TypeOK
  BY DEF IInv
<1> QED
  BY <1>1, Invariance, PTL

\* The only daemon of a scope that was not told to stop is the one of its pid file.
THEOREM NoneForgotten == Spec => []NoForgottenDaemon
<1>1. IInv => NoForgottenDaemon
  BY DEF IInv
<1> QED
  BY <1>1, Invariance, PTL

\* A loop that ends well has seen the socket of every daemon it started alone.
THEOREM ReadyServing == Spec => []ReadyMeansServing
<1>1. IInv => ReadyMeansServing
  <2> SUFFICES ASSUME IInv, pc = "ready", NEW s \in alone
               PROVE  run \in opened[s]
    BY DEF ReadyMeansServing
  <2>1. PICK i \in DOMAIN Scripts : s = Scripts[i]
    BY ScriptScopes DEF IInv, TypeOK
  <2> QED
    BY <2>1 DEF IInv, ServedInv
<1> QED
  BY <1>1, Invariance, PTL
=============================================================================
