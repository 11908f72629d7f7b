--------------------------- MODULE ServiceProofs ---------------------------
(***************************************************************************)
(* Proofs about the services of a lab, the loops that start them and the   *)
(* queries that its resolvers are asked (ServiceDeploy, UnboundReconcile,  *)
(* DnsService), for every lab, every content of the protected files, every *)
(* name and prefix, and every number of runs, of tries and of hops.        *)
(***************************************************************************)
EXTENDS ServiceDeploy, DnsService, ListLemmas, FiniteSetTheorems, Integers, TLAPS

(***************************************************************************)
(* The loop over the resolvers                                             *)
(***************************************************************************)

Simple(s) == \A i, j \in 1 .. Len(s) : s[i] = s[j] => i = j

\* Where the loop is; which resolvers it has still to start, and has started.
Places ==
    /\ loop \in Seq(Resolvers) /\ Simple(loop)
    /\ IF pc \in {"idle", "ready"} THEN pos = 0 ELSE pos \in 1 .. Len(loop)
    /\ pc # "idle" => run \in Runs
ToCome(i) == i > pos \/ (i = pos /\ pc \in {"stop", "addresses", "start"})
Done(i) == pc = "ready" \/ i < pos
StartedNow(i) == Done(i) \/ (i = pos /\ pc \in {"alive", "sockets"})

\* There is no daemon of a run to come, nor of a resolver to come.
Unstarted ==
    /\ \A n \in Resolvers, r \in Runs : r > run => daemon[n][r] = "none"
    /\ pc \notin {"idle", "ready"} =>
           \A i \in 1 .. Len(loop) : ToCome(i) => daemon[loop[i]][run] = "none"

\* A daemon that was started alone has no rival, is the one its pid file names, and
\* has held its sockets when the loop went on.
Lonely ==
    pc # "idle" =>
        \A i \in 1 .. Len(loop) :
            StartedNow(i) /\ loop[i] \in alone =>
                /\ \A r \in Runs \ {run} : daemon[loop[i]][r] \notin Live
                /\ daemon[loop[i]][run] = "serving" => pidFile[loop[i]] = run
                /\ Done(i) => daemon[loop[i]][run] \notin {"none", "starting"}

GivenUp == pc = "failed" => daemon[Resolver][run] \notin GoesOn

LoopInv == TypeOK /\ Places /\ Unstarted /\ Lonely /\ GivenUp
----------------------------------------------------------------------------
LEMMA LoopStarts ==
  ASSUME NEW resolvers, IsSequence(resolvers), Simple(resolvers), LoopInit(resolvers)
  PROVE  LoopInv
<1>1. loop \in Seq(Resolvers) /\ Simple(loop)
  BY DEF LoopInit, IsSequence, Resolvers
<1>2. TypeOK
  <2>1. Len(loop) \in Nat
    BY <1>1
  <2> QED BY <2>1, LoopAssumption DEF LoopInit, TypeOK
<1>3. Unstarted
  BY DEF LoopInit, Unstarted
<1> QED BY <1>1, <1>2, <1>3 DEF LoopInit, LoopInv, Places, Lonely, GivenUp

LEMMA ReconcileKeeps == LoopInv /\ Reconcile => LoopInv'
<1> SUFFICES ASSUME LoopInv, Reconcile PROVE LoopInv'
  OBVIOUS
<1>1. /\ loop' = loop /\ Resolvers' = Resolvers /\ loop \in Seq(Resolvers) /\ Len(loop) \in Nat
      /\ daemon' = daemon /\ usable' = usable /\ pidFile' = pidFile /\ alone' = alone
      /\ run \in Nat /\ run' = run + 1 /\ run' \in Runs /\ tries' = 0
  BY LoopAssumption DEF LoopInv, TypeOK, Places, Reconcile, worldVars, Resolvers, Runs
<1>2. \A n \in Resolvers : daemon'[n][run'] = "none"
  BY <1>1 DEF LoopInv, Unstarted, Runs
<1>3. CASE loop = <<>>
  <2>1. pc' = "ready" /\ pos' = 0 /\ Len(loop) = 0
    BY <1>3 DEF Reconcile
  <2>2. TypeOK' /\ Places'
    BY <1>1, <2>1, LoopAssumption DEF LoopInv, TypeOK, Places, Simple, Runs
  <2>3. Unstarted'
    BY <1>1, <2>1 DEF LoopInv, Unstarted, Runs
  <2> QED BY <1>1, <2>1, <2>2, <2>3 DEF LoopInv, Lonely, GivenUp
<1>4. CASE loop # <<>>
  <2>1. pc' = "stop" /\ pos' = 1 /\ 1 \in 1 .. Len(loop)
    <3>1. Len(loop) # 0
      BY <1>1, <1>4
    <3> QED BY <1>1, <1>4, <3>1 DEF Reconcile
  <2>2. TypeOK' /\ Places'
    BY <1>1, <2>1, LoopAssumption DEF LoopInv, TypeOK, Places, Simple, Runs
  <2>3. Unstarted'
    <3>1. \A i \in 1 .. Len(loop) : loop[i] \in Resolvers
      BY <1>1
    <3> QED BY <1>1, <1>2, <2>1, <3>1 DEF LoopInv, Unstarted, Runs
  <2>4. Lonely'
    BY <1>1, <2>1 DEF Lonely, StartedNow, Done
  <2> QED BY <2>1, <2>2, <2>3, <2>4 DEF LoopInv, GivenUp
<1> QED BY <1>3, <1>4

\* What a step of the script at a resolver keeps.
LEMMA AtResolver ==
  ASSUME LoopInv, pc \notin {"idle", "ready"}
  PROVE  /\ pos \in 1 .. Len(loop) /\ Resolver \in Resolvers /\ run \in Runs
         /\ \A i \in 1 .. Len(loop) : loop[i] \in Resolvers /\ (loop[i] = Resolver => i = pos)
         /\ Len(loop) \in Nat
BY DEF LoopInv, Places, Resolver, Simple

LEMMA StopKeeps == LoopInv /\ StopOld => LoopInv'
<1> SUFFICES ASSUME LoopInv, StopOld PROVE LoopInv'
  OBVIOUS
<1>1. /\ pc = "stop" /\ pc' = "addresses" /\ loop' = loop /\ run' = run /\ pos' = pos
      /\ tries' = tries /\ usable' = usable /\ alone' = alone /\ Resolvers' = Resolvers
      /\ pidFile' = [pidFile EXCEPT ![Resolver] = 0]
  BY DEF StopOld, Goto, Resolvers
<1>2. /\ pos \in 1 .. Len(loop) /\ Resolver \in Resolvers /\ run \in Runs
      /\ \A i \in 1 .. Len(loop) : loop[i] \in Resolvers /\ (loop[i] = Resolver => i = pos)
  BY <1>1, AtResolver
<1>3. /\ daemon \in [Resolvers -> [Runs -> Live \cup {"none", "gone"}]]
      /\ daemon' \in [Resolvers -> [Runs -> Live \cup {"none", "gone"}]]
      /\ \A n \in Resolvers : n # Resolver => daemon'[n] = daemon[n]
      /\ \A n \in Resolvers, r \in Runs : daemon[n][r] = "none" => daemon'[n][r] = "none"
  <2>1. daemon \in [Resolvers -> [Runs -> Live \cup {"none", "gone"}]]
        /\ pidFile[Resolver] \in 0 .. MaxRuns
    BY <1>2 DEF LoopInv, TypeOK
  <2>2. CASE pidFile[Resolver] = 0
    BY <2>1, <2>2 DEF StopOld
  <2>3. CASE pidFile[Resolver] # 0
    <3>1. pidFile[Resolver] \in Runs
      BY <2>1, <2>3, LoopAssumption DEF Runs
    <3>2. /\ \A x \in Live \cup {"none", "gone"} : Told(x) \in Live \cup {"none", "gone"}
          /\ Told("none") = "none"
      BY DEF Told, Live, GoesOn
    <3>3. daemon' = [daemon EXCEPT ![Resolver][pidFile[Resolver]] = Told(@)]
      BY <2>3 DEF StopOld
    <3> QED BY <1>2, <2>1, <3>1, <3>2, <3>3
  <2> QED BY <2>2, <2>3
<1>4. TypeOK' /\ Places'
  <2>1. Places'
    BY <1>1, <1>2 DEF LoopInv, Places, Simple
  <2>2. pidFile' \in [Resolvers -> 0 .. MaxRuns]
    BY <1>1, <1>2, LoopAssumption DEF LoopInv, TypeOK
  <2>3. TypeOK'
    BY <1>1, <1>3, <2>2 DEF LoopInv, TypeOK
  <2> QED BY <2>1, <2>3
<1>5. Unstarted'
  BY <1>1, <1>2, <1>3 DEF LoopInv, Unstarted, ToCome
<1>6. Lonely'
  <2> SUFFICES ASSUME NEW i \in 1 .. Len(loop), i < pos, loop[i] \in alone
               PROVE  /\ \A r \in Runs \ {run} : daemon'[loop[i]][r] \notin Live
                      /\ daemon'[loop[i]][run] = "serving" => pidFile'[loop[i]] = run
                      /\ daemon'[loop[i]][run] \notin {"none", "starting"}
    BY <1>1 DEF Lonely, StartedNow, Done
  <2>1. loop[i] \in Resolvers /\ loop[i] # Resolver
    BY <1>2
  <2>2. daemon'[loop[i]] = daemon[loop[i]] /\ pidFile'[loop[i]] = pidFile[loop[i]]
    BY <1>1, <1>3, <2>1 DEF LoopInv, TypeOK
  <2> QED BY <1>1, <2>2 DEF LoopInv, Lonely, StartedNow, Done
<1> QED BY <1>1, <1>4, <1>5, <1>6 DEF LoopInv, GivenUp

LEMMA WaitingKeeps ==
  LoopInv /\ (AddressesThere \/ WaitForAddresses \/ DaemonAlive \/ DaemonGone \/ SocketsClosed)
  => LoopInv'
<1> SUFFICES ASSUME LoopInv,
                    AddressesThere \/ WaitForAddresses \/ DaemonAlive \/ DaemonGone \/ SocketsClosed
             PROVE  LoopInv'
  OBVIOUS
<1>1. /\ loop' = loop /\ run' = run /\ pos' = pos /\ Resolvers' = Resolvers /\ Resolver' = Resolver
      /\ daemon' = daemon /\ usable' = usable /\ pidFile' = pidFile /\ alone' = alone
      /\ tries' = tries \/ tries' = 0 \/ tries' = tries + 1
  BY DEF AddressesThere, WaitForAddresses, DaemonAlive, DaemonGone, SocketsClosed, WaitFor, Goto,
         worldVars, Resolvers, Resolver
<1>2. \/ pc \in {"addresses"} /\ pc' \in {"addresses", "start", "failed"}
      \/ pc \in {"alive", "sockets"} /\ pc' \in {"alive", "sockets", "giveUp"}
  BY DEF AddressesThere, WaitForAddresses, DaemonAlive, DaemonGone, SocketsClosed, WaitFor, Goto
<1>3. /\ pos \in 1 .. Len(loop) /\ Resolver \in Resolvers /\ run \in Runs
  BY <1>2, AtResolver
<1>4. TypeOK' /\ Places'
  BY <1>1, <1>2, <1>3, LoopAssumption DEF LoopInv, TypeOK, Places, Simple
<1>5. Unstarted'
  BY <1>1, <1>2 DEF LoopInv, Unstarted, ToCome
<1>6. Lonely'
  BY <1>1, <1>2 DEF LoopInv, Lonely, StartedNow, Done
<1>7. GivenUp'
  <2>1. pc' = "failed" => pc = "addresses"
    BY <1>2
  <2>2. pc = "addresses" => daemon[Resolver][run] = "none"
    BY <1>3 DEF LoopInv, Unstarted, ToCome, Resolver
  <2> QED BY <1>1, <2>1, <2>2 DEF GivenUp, GoesOn
<1> QED BY <1>4, <1>5, <1>6, <1>7 DEF LoopInv

LEMMA StartKeeps == LoopInv /\ StartDaemon => LoopInv'
<1> SUFFICES ASSUME LoopInv, StartDaemon PROVE LoopInv'
  OBVIOUS
<1>1. /\ pc = "start" /\ pc' = "alive" /\ loop' = loop /\ run' = run /\ pos' = pos
      /\ tries' = tries /\ usable' = usable /\ pidFile' = pidFile /\ Resolvers' = Resolvers
      /\ daemon' = [daemon EXCEPT ![Resolver][run] = "starting"]
  BY DEF StartDaemon, Goto, Resolvers
<1>2. /\ pos \in 1 .. Len(loop) /\ Resolver \in Resolvers /\ run \in Runs /\ Len(loop) \in Nat
      /\ \A i \in 1 .. Len(loop) : loop[i] \in Resolvers /\ (loop[i] = Resolver => i = pos)
  BY <1>1, AtResolver
<1>3. /\ daemon \in [Resolvers -> [Runs -> Live \cup {"none", "gone"}]]
      /\ daemon' \in [Resolvers -> [Runs -> Live \cup {"none", "gone"}]]
      /\ \A n \in Resolvers : n # Resolver => daemon'[n] = daemon[n]
      /\ \A r \in Runs : r # run => daemon'[Resolver][r] = daemon[Resolver][r]
      /\ daemon'[Resolver][run] = "starting"
  BY <1>1, <1>2 DEF LoopInv, TypeOK, Live, GoesOn
<1>4. /\ alone' \subseteq Resolvers
      /\ \A n \in Resolvers : n # Resolver => (n \in alone' <=> n \in alone)
      /\ Resolver \in alone' => \A r \in Runs : daemon[Resolver][r] \notin Live
  BY <1>2 DEF StartDaemon, LoopInv, TypeOK
<1>5. TypeOK' /\ Places'
  <2>1. Places'
    BY <1>1, <1>2 DEF LoopInv, Places, Simple
  <2>2. TypeOK'
    BY <1>1, <1>3, <1>4 DEF LoopInv, TypeOK
  <2> QED BY <2>1, <2>2
<1>6. Unstarted'
  <2>1. \A n \in Resolvers, r \in Runs : r > run => daemon'[n][r] = "none"
    <3> SUFFICES ASSUME NEW n \in Resolvers, NEW r \in Runs, r > run PROVE daemon'[n][r] = "none"
      OBVIOUS
    <3>1. daemon[n][r] = "none" /\ r # run
      BY <1>2 DEF LoopInv, Unstarted, Runs
    <3> QED BY <1>3, <3>1
  <2>2. \A i \in 1 .. Len(loop) : i > pos => daemon'[loop[i]][run] = "none"
    <3> SUFFICES ASSUME NEW i \in 1 .. Len(loop), i > pos PROVE daemon'[loop[i]][run] = "none"
      OBVIOUS
    <3>1. i # pos /\ daemon[loop[i]][run] = "none"
      BY <1>1, <1>2 DEF LoopInv, Unstarted, ToCome
    <3> QED BY <1>2, <1>3, <3>1
  <2> QED BY <1>1, <2>1, <2>2 DEF Unstarted, ToCome
<1>7. Lonely'
  <2> SUFFICES ASSUME NEW i \in 1 .. Len(loop), i < pos \/ i = pos, loop[i] \in alone'
               PROVE  /\ \A r \in Runs \ {run} : daemon'[loop[i]][r] \notin Live
                      /\ daemon'[loop[i]][run] = "serving" => pidFile'[loop[i]] = run
                      /\ i < pos => daemon'[loop[i]][run] \notin {"none", "starting"}
    BY <1>1 DEF Lonely, StartedNow, Done
  <2>1. CASE i < pos
    <3>1. loop[i] \in Resolvers /\ loop[i] # Resolver
      BY <1>2, <2>1
    <3>2. daemon'[loop[i]] = daemon[loop[i]] /\ loop[i] \in alone
      BY <1>3, <1>4, <3>1
    <3> QED BY <1>1, <2>1, <3>2 DEF LoopInv, Lonely, StartedNow, Done
  <2>2. CASE i = pos
    <3>1. loop[i] = Resolver /\ ~(i < pos)
      BY <1>2, <2>2 DEF Resolver
    <3> QED BY <1>3, <1>4, <3>1
  <2> QED BY <2>1, <2>2
<1> QED BY <1>1, <1>5, <1>6, <1>7 DEF LoopInv, GivenUp

LEMMA OpenKeeps == LoopInv /\ SocketsOpen => LoopInv'
<1> SUFFICES ASSUME LoopInv, SocketsOpen PROVE LoopInv'
  OBVIOUS
<1>1. /\ pc = "sockets" /\ loop' = loop /\ run' = run /\ Resolvers' = Resolvers
      /\ tries' = 0 /\ usable' = usable /\ pidFile' = pidFile /\ daemon' = daemon /\ alone' = alone
  BY DEF SocketsOpen, Resolvers, worldVars
<1>2. /\ pos \in 1 .. Len(loop) /\ Resolver \in Resolvers /\ run \in Runs /\ Len(loop) \in Nat
      /\ \A i \in 1 .. Len(loop) : loop[i] \in Resolvers /\ (loop[i] = Resolver => i = pos)
  BY <1>1, AtResolver
<1>3. \/ pos + 1 \in 1 .. Len(loop) /\ pc' = "stop" /\ pos' = pos + 1
      \/ pos = Len(loop) /\ pc' = "ready" /\ pos' = 0
  BY <1>2 DEF SocketsOpen
<1>4. TypeOK' /\ Places'
  BY <1>1, <1>2, <1>3, LoopAssumption DEF LoopInv, TypeOK, Places, Simple
<1>5. Unstarted'
  BY <1>1, <1>2, <1>3 DEF LoopInv, Unstarted, ToCome
\* Sockets that are open are those of the daemon that is alone.
<1>6. Resolver \in alone => daemon[Resolver][run] \notin {"none", "starting"}
  <2> SUFFICES ASSUME Resolver \in alone
               PROVE  daemon[Resolver][run] \notin {"none", "starting"}
    OBVIOUS
  <2>1. PICK r \in Runs : daemon[Resolver][r] \in Holding
    BY DEF SocketsOpen, SocketsSeen
  <2>2. daemon[Resolver][r] \in Live
    BY <2>1 DEF Holding, Live, GoesOn
  <2>3. r = run
    BY <1>1, <1>2, <2>2 DEF LoopInv, Lonely, StartedNow, Resolver
  <2> QED BY <2>1, <2>3 DEF Holding
<1>7. Lonely'
  <2> SUFFICES ASSUME NEW i \in 1 .. Len(loop), i < pos \/ i = pos, loop[i] \in alone
               PROVE  /\ \A r \in Runs \ {run} : daemon[loop[i]][r] \notin Live
                      /\ daemon[loop[i]][run] = "serving" => pidFile[loop[i]] = run
                      /\ daemon[loop[i]][run] \notin {"none", "starting"}
    BY <1>1, <1>2, <1>3 DEF Lonely, StartedNow, Done
  <2>1. CASE i < pos
    BY <1>1, <2>1 DEF LoopInv, Lonely, StartedNow, Done
  <2>2. CASE i = pos
    BY <1>1, <1>6, <2>2 DEF LoopInv, Lonely, StartedNow, Resolver
  <2> QED BY <2>1, <2>2
<1> QED BY <1>1, <1>3, <1>4, <1>5, <1>7 DEF LoopInv, GivenUp

LEMMA GiveUpKeeps == LoopInv /\ GiveUp => LoopInv'
<1> SUFFICES ASSUME LoopInv, GiveUp PROVE LoopInv'
  OBVIOUS
<1>1. /\ pc = "giveUp" /\ pc' = "failed" /\ loop' = loop /\ run' = run /\ pos' = pos
      /\ tries' = tries /\ usable' = usable /\ pidFile' = pidFile /\ Resolvers' = Resolvers
      /\ alone' = alone /\ Resolver' = Resolver
      /\ daemon' = [daemon EXCEPT ![Resolver][run] = Told(@)]
  BY DEF GiveUp, Goto, Resolvers, Resolver
<1>2. /\ pos \in 1 .. Len(loop) /\ Resolver \in Resolvers /\ run \in Runs /\ Len(loop) \in Nat
      /\ \A i \in 1 .. Len(loop) : loop[i] \in Resolvers /\ (loop[i] = Resolver => i = pos)
  BY <1>1, AtResolver
<1>3. /\ daemon \in [Resolvers -> [Runs -> Live \cup {"none", "gone"}]]
      /\ daemon' \in [Resolvers -> [Runs -> Live \cup {"none", "gone"}]]
      /\ \A n \in Resolvers : n # Resolver => daemon'[n] = daemon[n]
      /\ \A r \in Runs : r # run => daemon'[Resolver][r] = daemon[Resolver][r]
      /\ daemon'[Resolver][run] \notin GoesOn
  <2>1. \A x \in Live \cup {"none", "gone"} :
            Told(x) \in Live \cup {"none", "gone"} /\ Told(x) \notin GoesOn
    BY DEF Told, Live, GoesOn
  <2>2. daemon \in [Resolvers -> [Runs -> Live \cup {"none", "gone"}]]
    BY DEF LoopInv, TypeOK
  <2>3. daemon[Resolver][run] \in Live \cup {"none", "gone"}
    BY <1>2, <2>2
  <2>4. daemon'[Resolver][run] = Told(daemon[Resolver][run])
    BY <1>1, <1>2, <2>2
  <2> QED BY <1>1, <1>2, <2>1, <2>2, <2>3, <2>4
<1>4. TypeOK' /\ Places'
  <2>1. Places'
    BY <1>1, <1>2 DEF LoopInv, Places, Simple
  <2>2. TypeOK'
    BY <1>1, <1>3 DEF LoopInv, TypeOK
  <2> QED BY <2>1, <2>2
<1>5. Unstarted'
  <2>1. \A n \in Resolvers, r \in Runs : r > run => daemon'[n][r] = "none"
    <3> SUFFICES ASSUME NEW n \in Resolvers, NEW r \in Runs, r > run PROVE daemon'[n][r] = "none"
      OBVIOUS
    <3>1. daemon[n][r] = "none" /\ r # run
      BY <1>2 DEF LoopInv, Unstarted, Runs
    <3> QED BY <1>3, <3>1
  <2>2. \A i \in 1 .. Len(loop) : i > pos => daemon'[loop[i]][run] = "none"
    <3> SUFFICES ASSUME NEW i \in 1 .. Len(loop), i > pos PROVE daemon'[loop[i]][run] = "none"
      OBVIOUS
    <3>1. i # pos /\ daemon[loop[i]][run] = "none"
      BY <1>1, <1>2 DEF LoopInv, Unstarted, ToCome
    <3> QED BY <1>2, <1>3, <3>1
  <2> QED BY <1>1, <2>1, <2>2 DEF Unstarted, ToCome
<1>6. Lonely'
  <2> SUFFICES ASSUME NEW i \in 1 .. Len(loop), i < pos, loop[i] \in alone
               PROVE  /\ \A r \in Runs \ {run} : daemon'[loop[i]][r] \notin Live
                      /\ daemon'[loop[i]][run] = "serving" => pidFile'[loop[i]] = run
                      /\ daemon'[loop[i]][run] \notin {"none", "starting"}
    BY <1>1 DEF Lonely, StartedNow, Done
  <2>1. loop[i] \in Resolvers /\ loop[i] # Resolver
    BY <1>2
  <2>2. daemon'[loop[i]] = daemon[loop[i]]
    BY <1>3, <2>1
  <2> QED BY <1>1, <2>2 DEF LoopInv, Lonely, StartedNow, Done
<1> QED BY <1>1, <1>3, <1>4, <1>5, <1>6 DEF LoopInv, GivenUp

\* A daemon that changes by itself was there, and lives or is gone.
LEMMA DaemonKeeps ==
  ASSUME LoopInv, NEW n \in Resolvers, NEW r \in Runs,
         Binds(n, r) \/ Serves(n, r) \/ Stops(n, r) \/ Dies(n, r)
  PROVE  LoopInv'
<1>1. /\ loop' = loop /\ pc' = pc /\ run' = run /\ pos' = pos /\ tries' = tries /\ usable' = usable
      /\ alone' = alone /\ Resolvers' = Resolvers /\ Resolver' = Resolver
  BY DEF Binds, Serves, Stops, Dies, Becomes, Resolvers, Resolver
<1>2. /\ daemon \in [Resolvers -> [Runs -> Live \cup {"none", "gone"}]]
      /\ pidFile \in [Resolvers -> 0 .. MaxRuns]
  BY DEF LoopInv, TypeOK
<1>3. PICK state \in {"bound", "serving", "gone"} :
          /\ daemon' = [daemon EXCEPT ![n][r] = state]
          /\ state = "bound" => daemon[n][r] = "starting"
          /\ state = "serving" => daemon[n][r] = "bound" /\ pidFile' = [pidFile EXCEPT ![n] = r]
          /\ state # "serving" => \/ pidFile' = pidFile
                                  \/ daemon[n][r] = "stopping" /\ pidFile' = [pidFile EXCEPT ![n] = 0]
  BY DEF Binds, Serves, Stops, Dies, Becomes
<1>4. daemon[n][r] \in Live
  BY <1>3 DEF Binds, Serves, Stops, Dies, Live, GoesOn
<1>5. /\ daemon' \in [Resolvers -> [Runs -> Live \cup {"none", "gone"}]]
      /\ pidFile' \in [Resolvers -> 0 .. MaxRuns]
      /\ \A m \in Resolvers : m # n => daemon'[m] = daemon[m] /\ pidFile'[m] = pidFile[m]
      /\ \A q \in Runs : q # r => daemon'[n][q] = daemon[n][q]
      /\ daemon'[n][r] = state
  <2>1. r \in 0 .. MaxRuns /\ 0 \in 0 .. MaxRuns
    BY LoopAssumption DEF Runs
  <2>2. state \in Live \cup {"none", "gone"}
    BY DEF Live, GoesOn
  <2>3. daemon' \in [Resolvers -> [Runs -> Live \cup {"none", "gone"}]]
    BY <1>2, <1>3, <2>2
  <2>4. \/ pidFile' = pidFile \/ pidFile' = [pidFile EXCEPT ![n] = r]
        \/ pidFile' = [pidFile EXCEPT ![n] = 0]
    BY <1>3
  <2> QED BY <1>2, <1>3, <2>1, <2>3, <2>4
<1>6. TypeOK' /\ Places'
  BY <1>1, <1>5 DEF LoopInv, TypeOK, Places, Simple
<1>7. \A m \in Resolvers, q \in Runs : daemon[m][q] = "none" => daemon'[m][q] = "none"
  BY <1>4, <1>5 DEF Live, GoesOn
<1>8. /\ pc \notin {"idle", "ready"} => run \in Runs /\ \A i \in 1 .. Len(loop) : loop[i] \in Resolvers
      /\ pc # "idle" => run \in Runs
      /\ \A i \in 1 .. Len(loop) : loop[i] \in Resolvers
  BY DEF LoopInv, Places
<1>9. Unstarted'
  BY <1>1, <1>7, <1>8 DEF LoopInv, Unstarted, ToCome
<1>10. Lonely'
  <2> SUFFICES ASSUME NEW i \in 1 .. Len(loop), pc # "idle", StartedNow(i), loop[i] \in alone
               PROVE  /\ \A q \in Runs \ {run} : daemon'[loop[i]][q] \notin Live
                      /\ daemon'[loop[i]][run] = "serving" => pidFile'[loop[i]] = run
                      /\ Done(i) => daemon'[loop[i]][run] \notin {"none", "starting"}
    BY <1>1 DEF Lonely, StartedNow, Done
  <2>1. /\ \A q \in Runs \ {run} : daemon[loop[i]][q] \notin Live
        /\ daemon[loop[i]][run] = "serving" => pidFile[loop[i]] = run
        /\ Done(i) => daemon[loop[i]][run] \notin {"none", "starting"}
    BY DEF LoopInv, Lonely
  <2>2. CASE loop[i] # n
    BY <1>5, <1>8, <2>1, <2>2
  <2>3. CASE loop[i] = n
    <3>1. r = run
      BY <1>4, <2>1, <2>3
    <3>2. \A q \in Runs \ {run} : daemon'[n][q] \notin Live
      BY <1>5, <2>1, <2>3, <3>1
    <3>3. state = "serving" => pidFile'[n] = run
      BY <1>2, <1>3, <3>1
    <3>4. daemon'[n][run] = state /\ state \notin {"none", "starting"}
      BY <1>5, <3>1
    <3> QED BY <2>3, <3>2, <3>3, <3>4
  <2> QED BY <2>2, <2>3
<1>11. GivenUp'
  <2> SUFFICES ASSUME pc = "failed" PROVE daemon'[Resolver][run] \notin GoesOn
    BY <1>1 DEF GivenUp
  <2>1. Resolver \in Resolvers /\ run \in Runs /\ daemon[Resolver][run] \notin GoesOn
    BY AtResolver DEF LoopInv, GivenUp
  <2>2. CASE Resolver = n /\ run = r
    <3>1. state = "gone"
      BY <1>3, <2>1, <2>2 DEF GoesOn
    <3> QED BY <1>5, <2>2, <3>1 DEF GoesOn
  <2>3. CASE ~(Resolver = n /\ run = r)
    BY <1>5, <2>1, <2>3
  <2> QED BY <2>2, <2>3
<1> QED BY <1>6, <1>9, <1>10, <1>11 DEF LoopInv

LEMMA LoopStep == LoopInv /\ [Next]_vars => LoopInv'
<1> SUFFICES ASSUME LoopInv, [Next]_vars PROVE LoopInv'
  OBVIOUS
<1>1. CASE Script
  BY <1>1, StopKeeps, WaitingKeeps, StartKeeps, OpenKeeps, GiveUpKeeps DEF Script
<1>2. CASE World
  <2>1. ASSUME NEW n \in Resolvers, AddressesCome(n) PROVE LoopInv'
    BY <2>1 DEF AddressesCome, LoopInv, TypeOK, Places, Unstarted, Lonely, GivenUp, Simple,
                Resolvers, Resolver, ToCome, StartedNow, Done
  <2> QED BY <1>2, <2>1, DaemonKeeps DEF World
<1>3. CASE UNCHANGED vars
  BY <1>3 DEF vars, LoopInv, TypeOK, Places, Unstarted, Lonely, GivenUp, Simple,
              Resolvers, Resolver, ToCome, StartedNow, Done
<1> QED BY <1>1, <1>2, <1>3, ReconcileKeeps DEF Next

LEMMA LoopIsTrue == LoopInv => LoopTellsTheTruth
<1> SUFFICES ASSUME LoopInv PROVE LoopTellsTheTruth
  OBVIOUS
<1>1. ASSUME pc = "ready", NEW n \in alone
      PROVE  /\ daemon[n][run] \notin {"none", "starting"}
             /\ daemon[n][run] = "serving" => pidFile[n] = run
             /\ \A r \in Runs \ {run} : daemon[n][r] \notin Live
  <2>1. n \in ToSet(loop) /\ loop \in Seq(Resolvers)
    BY <1>1 DEF LoopInv, TypeOK, Places, Resolvers
  <2>2. PICK i \in 1 .. Len(loop) : loop[i] = n
    BY <2>1, InToSet
  <2> QED BY <1>1, <2>2 DEF LoopInv, Lonely, StartedNow, Done
<1> QED BY <1>1 DEF LoopTellsTheTruth, LoopInv, GivenUp

(***************************************************************************)
(* The commands of a node                                                  *)
(***************************************************************************)

LEMMA SimpleKept ==
  ASSUME NEW s, IsSequence(s), NEW T
  PROVE  /\ IsSequence(Keep(s, T))
         /\ \A x : x \in ToSet(Keep(s, T)) <=> x \in ToSet(s) /\ x \in T
         /\ Simple(s) => Simple(Keep(s, T))
<1>1. PICK U : U = ToSet(s)
  OBVIOUS
<1>2. s \in Seq(U)
  BY <1>1 DEF IsSequence
<1>3. /\ Keep(s, T) \in Seq(U)
      /\ ToSet(Keep(s, T)) = ToSet(s) \cap T
      /\ Simple(s) => Simple(Keep(s, T))
  BY <1>2, KeepFacts DEF Simple
<1>4. IsSequence(Keep(s, T))
  BY <1>3, SequenceIs
<1> QED BY <1>3, <1>4

LEMMA ByNameIs ==
  ASSUME IsSequence(lab), NEW S
  PROVE  /\ IsSequence(ByName(S)) /\ Simple(ByName(S))
         /\ \A n : n \in ToSet(ByName(S)) <=> n \in Nodes /\ n \in S
<1>1. PICK s : s = [n \in Nodes |-> n]
  OBVIOUS
<1>2. Nodes = 1 .. Len(lab) /\ Len(lab) \in Nat
  BY DEF IsSequence, Nodes
<1>3. s \in Seq(Nat) /\ Len(s) = Len(lab) /\ \A i \in 1 .. Len(lab) : s[i] = i
  BY <1>1, <1>2
<1>4. IsSequence(s) /\ Simple(s)
  BY <1>3, SequenceIs DEF Simple
<1>5. \A n : n \in ToSet(s) <=> n \in Nodes
  BY <1>2, <1>3, InToSet
<1>6. ByName(S) = Keep(s, S)
  BY <1>1 DEF ByName
<1> QED BY <1>4, <1>5, <1>6, SimpleKept

LEMMA ServiceStepLoops == [ServiceNext]_<<vars, serviceVars>> => [Next]_vars
<1> SUFFICES ASSUME ServiceNext PROVE [Next]_vars
  OBVIOUS
<1>1. ASSUME NEW n \in Nodes, Run(n) \/ Fail(n) PROVE [Next]_vars
  BY <1>1 DEF Run, Fail
<1>2. CASE StartLoops
  BY <1>2 DEF StartLoops, Next
<1>3. CASE DnsLoop
  BY <1>3 DEF DnsLoop, Next
<1>4. CASE Daemons
  BY <1>4 DEF Daemons, Next
<1>5. CASE ServiceStep
  BY <1>5 DEF ServiceStep, StartKea, FindScripts, RunScript, StopKea, LaunchKea, KeaAlive,
              KeaProbed, ScriptFails, Finish, KeaDaemons
<1> QED BY <1>1, <1>2, <1>3, <1>4, <1>5 DEF ServiceNext

LEMMA ServiceStartsLoop == ServiceInit => LoopInv
<1> SUFFICES ASSUME ServiceInit PROVE LoopInv
  OBVIOUS
<1>1. IsSequence(lab)
  BY ServiceLabsAssumption DEF ServiceInit
<1>2. PICK resolvers : /\ resolvers = ByName({n \in Nodes : HasUnboundRuntime(lab[n])})
                       /\ LoopInit(resolvers)
  BY DEF ServiceInit
<1>3. IsSequence(resolvers) /\ Simple(resolvers)
  BY <1>1, <1>2, ByNameIs
<1> QED BY <1>2, <1>3, LoopStarts

\* The loop over the resolvers of a deployment tells the truth: every resolver that
\* it reports has a daemon of this run that got its sockets and is the one that the
\* next run will find, and the one it gives up keeps none, however daemons die,
\* and are slow, in between.
THEOREM LoopTruthful == ServiceSpec => []LoopTellsTheTruth
<1>1. LoopInv /\ [ServiceNext]_<<vars, serviceVars>> => LoopInv'
  BY ServiceStepLoops, LoopStep
<1>2. ServiceSpec => []LoopInv
  BY <1>1, ServiceStartsLoop, PTL DEF ServiceSpec
<1> QED BY <1>2, LoopIsTrue, PTL

Present(node, s) == s.enabled /\ s.on \in node.devices
RouteOf(r) == [kind |-> "route", source |-> r.source, route |-> r]
AddressOf(a) == [kind |-> "address", source |-> a.source, address |-> a]
RaOf(s) == [kind |-> "ra", on |-> s.on]

LEMMA RealizedIs ==
  ASSUME NEW node, NEW scopes, IsSequence(scopes)
  PROVE  /\ IsSequence(Realized(node, scopes))
         /\ \A s : s \in ToSet(Realized(node, scopes)) <=> s \in ToSet(scopes) /\ Present(node, s)
<1>1. PICK T : T = {s \in ToSet(scopes) : s.enabled /\ s.on \in node.devices}
  OBVIOUS
<1>2. Realized(node, scopes) = Keep(scopes, T)
  BY <1>1 DEF Realized
<1>3. \A s : s \in T <=> s \in ToSet(scopes) /\ Present(node, s)
  BY <1>1 DEF Present
<1> QED BY <1>2, <1>3, SimpleKept

LEMMA RouteCommandsAre ==
  ASSUME NEW node, NodeShape(node)
  PROVE  /\ IsSequence(RouteCommands(node))
         /\ \A c : c \in ToSet(RouteCommands(node)) <=>
                \E r \in ToSet(node.routes) : r.returns /\ r.on \in node.devices /\ c = RouteOf(r)
<1>1. PICK T : T = {r \in ToSet(node.routes) : r.returns /\ r.on \in node.devices}
  OBVIOUS
<1>2. PICK s : s = Keep(node.routes, T)
  OBVIOUS
<1>3. IsSequence(s) /\ \A r : r \in ToSet(s) <=> r \in ToSet(node.routes) /\ r \in T
  BY <1>2, SimpleKept DEF NodeShape
<1>4. PICK e : e = [i \in DOMAIN s |-> RouteOf(s[i])]
  OBVIOUS
<1>5. RouteCommands(node) = e
  BY <1>1, <1>2, <1>4 DEF RouteCommands, Each, RouteOf
<1>6. /\ e = [i \in DOMAIN s |-> e[i]] /\ DOMAIN s = 1 .. Len(s)
      /\ \A i \in 1 .. Len(s) : e[i] = RouteOf(s[i])
  BY <1>3, <1>4 DEF IsSequence
<1>7. IsSequence(e) /\ \A c : c \in ToSet(e) <=> \E i \in 1 .. Len(s) : c = e[i]
  BY <1>3, <1>6, EachIs
<1>8. \A r : r \in ToSet(s) <=> \E i \in 1 .. Len(s) : s[i] = r
  BY <1>3, InToSet DEF IsSequence
<1>9. \A c : c \in ToSet(e) <=> \E r \in ToSet(s) : c = RouteOf(r)
  BY <1>6, <1>7, <1>8
<1> QED BY <1>1, <1>3, <1>5, <1>7, <1>9

LEMMA AddressCommandsAre ==
  ASSUME NEW node, NodeShape(node)
  PROVE  /\ IsSequence(AddressCommands(node))
         /\ \A c : c \in ToSet(AddressCommands(node)) <=>
                \E a \in ToSet(node.addresses) : c = AddressOf(a)
<1>1. PICK s : s = node.addresses
  OBVIOUS
<1>2. IsSequence(s)
  BY <1>1 DEF NodeShape
<1>3. PICK e : e = [i \in DOMAIN s |-> AddressOf(s[i])]
  OBVIOUS
<1>4. AddressCommands(node) = e
  BY <1>1, <1>3 DEF AddressCommands, Each, AddressOf
<1>5. /\ e = [i \in DOMAIN s |-> e[i]] /\ DOMAIN s = 1 .. Len(s)
      /\ \A i \in 1 .. Len(s) : e[i] = AddressOf(s[i])
  BY <1>2, <1>3 DEF IsSequence
<1>6. IsSequence(e) /\ \A c : c \in ToSet(e) <=> \E i \in 1 .. Len(s) : c = e[i]
  BY <1>2, <1>5, EachIs
<1>7. \A a : a \in ToSet(s) <=> \E i \in 1 .. Len(s) : s[i] = a
  BY <1>2, InToSet DEF IsSequence
<1>8. \A c : c \in ToSet(e) <=> \E a \in ToSet(s) : c = AddressOf(a)
  BY <1>5, <1>6, <1>7
<1> QED BY <1>1, <1>4, <1>6, <1>8

LEMMA DhcpCommandsAre ==
  ASSUME NEW node, NEW scopes, IsSequence(scopes), NEW family, NEW e,
         e = [i \in DOMAIN Realized(node, scopes) |-> DhcpCommand(Realized(node, scopes)[i], family)]
  PROVE  /\ IsSequence(e)
         /\ \A c : c \in ToSet(e) <=>
                \E s \in ToSet(scopes) : Present(node, s) /\ c = DhcpCommand(s, family)
<1>1. PICK s : s = Realized(node, scopes)
  OBVIOUS
<1>2. IsSequence(s) /\ \A x : x \in ToSet(s) <=> x \in ToSet(scopes) /\ Present(node, x)
  BY <1>1, RealizedIs
<1>3. e = [i \in DOMAIN s |-> DhcpCommand(s[i], family)]
  BY <1>1
<1>4. /\ e = [i \in DOMAIN s |-> e[i]] /\ DOMAIN s = 1 .. Len(s)
      /\ \A i \in 1 .. Len(s) : e[i] = DhcpCommand(s[i], family)
  BY <1>2, <1>3 DEF IsSequence
<1>5. IsSequence(e) /\ \A c : c \in ToSet(e) <=> \E i \in 1 .. Len(s) : c = e[i]
  BY <1>2, <1>4, EachIs
<1>6. \A x : x \in ToSet(s) <=> \E i \in 1 .. Len(s) : s[i] = x
  BY <1>2, InToSet DEF IsSequence
<1>7. \A c : c \in ToSet(e) <=> \E x \in ToSet(s) : c = DhcpCommand(x, family)
  BY <1>4, <1>5, <1>6
<1> QED BY <1>2, <1>5, <1>7

LEMMA RaCommandsAre ==
  ASSUME NEW node, IsSequence(node.ra), NEW e,
         e = [i \in DOMAIN Realized(node, node.ra) |-> RaOf(Realized(node, node.ra)[i])]
  PROVE  IsSequence(e) /\ \A c \in ToSet(e) : c.kind = "ra"
<1>1. PICK s : s = Realized(node, node.ra)
  OBVIOUS
<1>2. IsSequence(s)
  BY <1>1, RealizedIs
<1>3. /\ e = [i \in DOMAIN s |-> e[i]] /\ DOMAIN s = 1 .. Len(s)
      /\ \A i \in 1 .. Len(s) : e[i] = RaOf(s[i])
  BY <1>1, <1>2 DEF IsSequence
<1>4. IsSequence(e) /\ \A c : c \in ToSet(e) <=> \E i \in 1 .. Len(s) : c = e[i]
  BY <1>2, <1>3, EachIs
<1>5. \A i \in 1 .. Len(s) : e[i].kind = "ra"
  BY <1>3 DEF RaOf
<1> QED BY <1>4, <1>5

LEMMA DnsCommandsAre ==
  ASSUME NEW node
  PROVE  /\ IsSequence(DnsCommands(node))
         /\ \A c \in ToSet(DnsCommands(node)) : c.kind \in {"proxy", "unbound"}
         /\ HasUnboundRuntime(node) => \E c \in ToSet(DnsCommands(node)) : c.kind = "unbound"
<1>1. PICK p : p = [kind |-> "proxy"]
  OBVIOUS
<1>2. PICK u : u = [kind |-> "unbound"]
  OBVIOUS
<1>3. DnsCommands(node) = <<>> \/ DnsCommands(node) = <<p>> \/ DnsCommands(node) = <<u>>
  BY <1>1, <1>2 DEF DnsCommands
<1>4. /\ <<>> \in Seq({p, u}) /\ <<p>> \in Seq({p, u}) /\ <<u>> \in Seq({p, u})
      /\ Len(<<u>>) = 1 /\ <<u>>[1] = u
  OBVIOUS
<1>5. DnsCommands(node) \in Seq({p, u})
  BY <1>3, <1>4
<1>6. p.kind = "proxy" /\ u.kind = "unbound"
  BY <1>1, <1>2
<1>7. \A c \in ToSet(DnsCommands(node)) : c \in {p, u}
  BY <1>5, InToSet
<1>8. u \in ToSet(<<u>>)
  <2>1. PICK s : s = <<u>>
    OBVIOUS
  <2>2. s \in Seq({p, u}) /\ Len(s) = 1 /\ s[1] = u
    BY <2>1
  <2>3. u \in ToSet(s)
    BY <2>2, InToSet
  <2> QED BY <2>1, <2>3
<1>9. HasUnboundRuntime(node) => DnsCommands(node) = <<u>>
  BY <1>2 DEF HasUnboundRuntime, DnsCommands
<1> QED BY <1>5, <1>6, <1>7, <1>8, <1>9, SequenceIs

LEMMA CommandsAre ==
  ASSUME NEW node, NodeShape(node)
  PROVE  /\ IsSequence(ServiceCommands(node))
         /\ \A c : c \in ToSet(ServiceCommands(node)) =>
                \/ \E r \in ToSet(node.routes) : r.returns /\ r.on \in node.devices /\ c = RouteOf(r)
                \/ \E a \in ToSet(node.addresses) : c = AddressOf(a)
                \/ \E f \in Families : \E s \in ToSet(Dhcp(node, f)) :
                       Present(node, s) /\ c = DhcpCommand(s, f)
                \/ c.kind \in {"ra", "proxy", "unbound"}
         /\ \A r \in ToSet(node.routes) :
                r.returns /\ r.on \in node.devices => RouteOf(r) \in ToSet(ServiceCommands(node))
         /\ \A a \in ToSet(node.addresses) : AddressOf(a) \in ToSet(ServiceCommands(node))
         /\ \A f \in Families : \A s \in ToSet(Dhcp(node, f)) :
                Present(node, s) => DhcpCommand(s, f) \in ToSet(ServiceCommands(node))
         /\ HasUnboundRuntime(node) =>
                \E c \in ToSet(ServiceCommands(node)) : c.kind = "unbound"
<1>1. PICK e4, e6, er :
          /\ e4 = [i \in DOMAIN Realized(node, node.dhcp4) |->
                      DhcpCommand(Realized(node, node.dhcp4)[i], "ipv4")]
          /\ e6 = [i \in DOMAIN Realized(node, node.dhcp6) |->
                      DhcpCommand(Realized(node, node.dhcp6)[i], "ipv6")]
          /\ er = [i \in DOMAIN Realized(node, node.ra) |-> RaOf(Realized(node, node.ra)[i])]
  OBVIOUS
<1>2. AdvertisementCommands(node) = e4 \o e6 \o er
  BY <1>1 DEF AdvertisementCommands, Each, RaOf
<1>3. /\ IsSequence(e4) /\ IsSequence(e6) /\ IsSequence(er)
      /\ \A c : c \in ToSet(e4) <=>
             \E s \in ToSet(node.dhcp4) : Present(node, s) /\ c = DhcpCommand(s, "ipv4")
      /\ \A c : c \in ToSet(e6) <=>
             \E s \in ToSet(node.dhcp6) : Present(node, s) /\ c = DhcpCommand(s, "ipv6")
      /\ \A c \in ToSet(er) : c.kind = "ra"
  <2>1. IsSequence(node.dhcp4) /\ IsSequence(node.dhcp6) /\ IsSequence(node.ra)
    BY DEF NodeShape
  <2>2. IsSequence(e4) /\ \A c : c \in ToSet(e4) <=>
             \E s \in ToSet(node.dhcp4) : Present(node, s) /\ c = DhcpCommand(s, "ipv4")
    BY <1>1, <2>1, DhcpCommandsAre
  <2>3. IsSequence(e6) /\ \A c : c \in ToSet(e6) <=>
             \E s \in ToSet(node.dhcp6) : Present(node, s) /\ c = DhcpCommand(s, "ipv6")
    BY <1>1, <2>1, DhcpCommandsAre
  <2>4. IsSequence(er) /\ \A c \in ToSet(er) : c.kind = "ra"
    BY <1>1, <2>1, RaCommandsAre
  <2> QED BY <2>2, <2>3, <2>4
<1>4. /\ IsSequence(e4 \o e6) /\ ToSet(e4 \o e6) = ToSet(e4) \cup ToSet(e6)
      /\ IsSequence(e4 \o e6 \o er) /\ ToSet(e4 \o e6 \o er) = ToSet(e4) \cup ToSet(e6) \cup ToSet(er)
  BY <1>3, JoinIs
<1>5. PICK a, b, c, d : /\ a = RouteCommands(node) /\ b = AddressCommands(node)
                        /\ c = AdvertisementCommands(node) /\ d = DnsCommands(node)
  OBVIOUS
<1>6. IsSequence(a) /\ IsSequence(b) /\ IsSequence(c) /\ IsSequence(d)
  BY <1>2, <1>4, <1>5, RouteCommandsAre, AddressCommandsAre, DnsCommandsAre
<1>7. /\ IsSequence(a \o b) /\ ToSet(a \o b) = ToSet(a) \cup ToSet(b)
      /\ IsSequence(a \o b \o c) /\ ToSet(a \o b \o c) = ToSet(a) \cup ToSet(b) \cup ToSet(c)
      /\ IsSequence(a \o b \o c \o d)
      /\ ToSet(a \o b \o c \o d) = ToSet(a) \cup ToSet(b) \cup ToSet(c) \cup ToSet(d)
  BY <1>6, JoinIs
<1>8. /\ IsSequence(ServiceCommands(node))
      /\ ToSet(ServiceCommands(node)) = ToSet(a) \cup ToSet(b) \cup ToSet(e4) \cup ToSet(e6)
                                          \cup ToSet(er) \cup ToSet(d)
  BY <1>2, <1>4, <1>5, <1>7 DEF ServiceCommands
<1>9. Families = {"ipv4", "ipv6"} /\ Dhcp(node, "ipv4") = node.dhcp4 /\ Dhcp(node, "ipv6") = node.dhcp6
  BY DEF Families, Dhcp
<1>10. ASSUME NEW x \in ToSet(ServiceCommands(node))
       PROVE  \/ \E r \in ToSet(node.routes) : r.returns /\ r.on \in node.devices /\ x = RouteOf(r)
              \/ \E r \in ToSet(node.addresses) : x = AddressOf(r)
              \/ \E f \in Families : \E s \in ToSet(Dhcp(node, f)) :
                     Present(node, s) /\ x = DhcpCommand(s, f)
              \/ x.kind \in {"ra", "proxy", "unbound"}
  <2>1. CASE x \in ToSet(a)
    BY <1>5, <2>1, RouteCommandsAre
  <2>2. CASE x \in ToSet(b)
    BY <1>5, <2>2, AddressCommandsAre
  <2>3. CASE x \in ToSet(e4)
    BY <1>3, <1>9, <2>3
  <2>4. CASE x \in ToSet(e6)
    BY <1>3, <1>9, <2>4
  <2>5. CASE x \in ToSet(er)
    BY <1>3, <2>5
  <2>6. CASE x \in ToSet(d)
    BY <1>5, <2>6, DnsCommandsAre
  <2> QED BY <1>8, <1>10, <2>1, <2>2, <2>3, <2>4, <2>5, <2>6
<1>11. ASSUME NEW r \in ToSet(node.routes), r.returns, r.on \in node.devices
       PROVE  RouteOf(r) \in ToSet(ServiceCommands(node))
  <2>1. RouteOf(r) \in ToSet(a)
    BY <1>5, <1>11, RouteCommandsAre
  <2> QED BY <1>8, <2>1
<1>12. ASSUME NEW f \in Families, NEW s \in ToSet(Dhcp(node, f)), Present(node, s)
       PROVE  DhcpCommand(s, f) \in ToSet(ServiceCommands(node))
  <2>1. DhcpCommand(s, f) \in ToSet(e4) \/ DhcpCommand(s, f) \in ToSet(e6)
    BY <1>3, <1>9, <1>12
  <2> QED BY <1>8, <2>1
<1>13. ASSUME HasUnboundRuntime(node)
       PROVE  \E x \in ToSet(ServiceCommands(node)) : x.kind = "unbound"
  BY <1>5, <1>8, <1>13, DnsCommandsAre
<1>14. ASSUME NEW x \in ToSet(node.addresses)
       PROVE  AddressOf(x) \in ToSet(ServiceCommands(node))
  <2>1. AddressOf(x) \in ToSet(b)
    BY <1>5, AddressCommandsAre
  <2> QED BY <1>8, <2>1
<1> QED BY <1>8, <1>10, <1>11, <1>12, <1>13, <1>14

(***************************************************************************)
(* The boot of the nodes: nothing that the loops look for is missing       *)
(***************************************************************************)

\* The commands that a node has executed.
Behind(n) == {Commands(n)[i] : i \in 1 .. at[n] - 1}
KeaDone(n) == {c \in Behind(n) : c.kind = "kea"}
KeaNodes == {n \in Nodes : HasKeaRuntime(lab[n])}
RouteNodes(node) == {r \in ToSet(node.routes) : r.returns /\ r.on \in node.devices}
PrefixOf(r) == Derived(Contents[r.source], r)

\* Where the deployment is.
\* The stages of the Kea loop, and its end.
Going == {"kea", "start", "alive", "socket", "ready"}

Phases ==
    /\ lab \in ServiceLabs
    /\ at \in [Nodes -> Nat \ {0}] /\ \A n \in Nodes : at[n] <= Len(Commands(n)) + 1
    /\ Resolvers = {n \in Nodes : HasUnboundRuntime(lab[n])}
    /\ stage = "dns" \/ stage \in Going => Booted
    /\ stage = "boot" => pc = "idle"
    /\ stage = "dns" => pc # "failed"
    /\ stage \in Going => pc = "ready"

\* What the executed commands have left in a node.
Executed(n) ==
    /\ \A c \in Behind(n) : Accepted(c)
    /\ n \in unbound <=> \E c \in Behind(n) : c.kind = "unbound"
    /\ \A x : x \in scripts[n] <=> \E c \in KeaDone(n) : x = <<c.on, c.family>>
    /\ \A x \in opened[n] :
           \E c \in Behind(n) :
               c.kind = "address" /\ x = DerivedAddress(Contents[c.source], c.address)
    /\ \A key \in DOMAIN config[n] :
           \E c \in KeaDone(n) : key = <<c.on, c.family>> /\ config[n][key] = c.scope
    /\ \A stem \in DOMAIN include[n] :
           \E c \in KeaDone(n) : include[n][stem] = [scope |-> c.scope, family |-> c.family]
    /\ \A r \in RouteNodes(lab[n]) :
           /\ RouteOf(r) \in Behind(n)
           /\ \A q \in RouteNodes(lab[n]) : PrefixOf(q) = PrefixOf(r) => q = r
           => [to |-> PrefixOf(r), on |-> r.on] \in routes[n]
FileInv ==
    /\ DOMAIN routes = Nodes /\ DOMAIN opened = Nodes /\ DOMAIN config = Nodes
    /\ DOMAIN scripts = Nodes /\ DOMAIN include = Nodes
    /\ \A n \in Nodes : Executed(n)

LEMMA ShapesAre ==
  ASSUME lab \in ServiceLabs, NEW n \in Nodes
  PROVE  /\ NodeShape(lab[n])
         /\ IsSequence(Commands(n)) /\ Len(Commands(n)) \in Nat
         /\ \A c : c \in ToSet(Commands(n)) <=> \E i \in 1 .. Len(Commands(n)) : Commands(n)[i] = c
<1>1. NodeShape(lab[n])
  BY ServiceLabsAssumption DEF Nodes
<1>2. IsSequence(Commands(n))
  BY <1>1, CommandsAre DEF Commands
<1> QED BY <1>1, <1>2, InToSet DEF IsSequence

LEMMA KindsAre ==
  ASSUME NEW node, NodeShape(node), NEW c \in ToSet(ServiceCommands(node))
  PROVE  /\ c.kind = "route" => \E r \in RouteNodes(node) : c = RouteOf(r)
         /\ c.kind = "address" => \E a \in ToSet(node.addresses) : c = AddressOf(a)
         /\ c.kind = "kea" =>
                \E f \in Families : \E s \in ToSet(Dhcp(node, f)) :
                    Present(node, s) /\ s.source # None /\ c = DhcpCommand(s, f)
         /\ Reads(c) \subseteq ProtectedBinds(node)
<1>1. ToSet(node.routes \o node.addresses) = ToSet(node.routes) \cup ToSet(node.addresses)
  BY JoinIs DEF NodeShape
<1>2. CASE \E r \in ToSet(node.routes) : r.returns /\ r.on \in node.devices /\ c = RouteOf(r)
  <2>1. PICK r \in ToSet(node.routes) : r.returns /\ r.on \in node.devices /\ c = RouteOf(r)
    BY <1>2
  <2>2. c.kind = "route" /\ c.source = r.source /\ r \in RouteNodes(node)
    BY <2>1 DEF RouteOf, RouteNodes
  <2> QED BY <1>1, <2>1, <2>2 DEF Reads, ProtectedBinds
<1>3. CASE \E a \in ToSet(node.addresses) : c = AddressOf(a)
  <2>1. PICK a \in ToSet(node.addresses) : c = AddressOf(a)
    BY <1>3
  <2>2. c.kind = "address" /\ c.source = a.source
    BY <2>1 DEF AddressOf
  <2> QED BY <1>1, <2>1, <2>2 DEF Reads, ProtectedBinds
<1>4. CASE \E f \in Families : \E s \in ToSet(Dhcp(node, f)) : Present(node, s) /\ c = DhcpCommand(s, f)
  <2>0. PICK f \in Families : \E s \in ToSet(Dhcp(node, f)) : Present(node, s) /\ c = DhcpCommand(s, f)
    BY <1>4
  <2>1. PICK s \in ToSet(Dhcp(node, f)) : Present(node, s) /\ c = DhcpCommand(s, f)
    BY <2>0
  <2>2. CASE s.source = None
    BY <2>1, <2>2 DEF DhcpCommand, Reads
  <2>3. CASE s.source # None
    <3>1. c.kind = "kea" /\ c.source = s.source.file
      BY <2>1, <2>3 DEF DhcpCommand
    <3>2. s.enabled
      BY <2>1 DEF Present
    <3>3. Reads(c) \subseteq ProtectedBinds(node)
      BY <2>1, <2>3, <3>1, <3>2 DEF Reads, ProtectedBinds, ReservationBinds
    <3> QED BY <2>1, <2>3, <3>1, <3>3
  <2> QED BY <2>2, <2>3
<1>5. CASE c.kind \in {"ra", "proxy", "unbound"}
  BY <1>5 DEF Reads
<1> QED BY <1>2, <1>3, <1>4, <1>5, CommandsAre

LEMMA RunsNext ==
  ASSUME Phases, NEW n \in Nodes, Run(n)
  PROVE  /\ lab' = lab /\ Nodes' = Nodes /\ stage = "boot" /\ stage' = "boot" /\ UNCHANGED vars
         /\ UNCHANGED <<keaLoop, keaWorld>>
         /\ at' = [at EXCEPT ![n] = @ + 1]
         /\ \E c \in ToSet(Commands(n)) :
                /\ Accepted(c)
                /\ RunRoute(n, c) \/ RunAddress(n, c) \/ RunKea(n, c)
                     \/ RunUnbound(n, c) \/ RunOther(n, c)
                /\ Behind(n)' = Behind(n) \cup {c}
                /\ \A m \in Nodes \ {n} : Behind(m)' = Behind(m)
<1>1. PICK c : c = Commands(n)[at[n]]
  OBVIOUS
<1>2. at[n] \in 1 .. Len(Commands(n)) /\ at[n] \in Nat \ {0} /\ Len(Commands(n)) \in Nat
  BY ShapesAre DEF Phases, Run
<1>3. c \in ToSet(Commands(n))
  BY <1>1, <1>2, ShapesAre DEF Phases
<1>4. lab' = lab /\ Nodes' = Nodes /\ \A m : Commands(m)' = Commands(m)
  BY DEF Run, Nodes, Commands
<1>5. at'[n] = at[n] + 1 /\ \A m \in Nodes \ {n} : at'[m] = at[m]
  BY DEF Run, Phases
<1>6. \A i : i \in 1 .. at'[n] - 1 <=> i \in 1 .. at[n] - 1 \/ i = at[n]
  BY <1>2, <1>5
<1>7. Behind(n)' = Behind(n) \cup {c}
  <2>1. Behind(n)' = {Commands(n)[i] : i \in 1 .. at'[n] - 1}
    BY <1>4 DEF Behind
  <2> QED BY <1>1, <1>6, <2>1 DEF Behind
<1>8. \A m \in Nodes \ {n} : Behind(m)' = Behind(m)
  BY <1>4, <1>5 DEF Behind
<1>9. /\ Accepted(c)
      /\ RunRoute(n, c) \/ RunAddress(n, c) \/ RunKea(n, c) \/ RunUnbound(n, c) \/ RunOther(n, c)
      /\ stage = "boot" /\ stage' = stage /\ UNCHANGED <<vars, keaLoop, keaWorld>>
      /\ at' = [at EXCEPT ![n] = @ + 1]
  BY <1>1 DEF Run
<1> QED BY <1>3, <1>4, <1>7, <1>8, <1>9

LEMMA PhasesStart == ServiceInit => Phases
<1> SUFFICES ASSUME ServiceInit PROVE Phases
  OBVIOUS
<1>1. lab \in ServiceLabs /\ IsSequence(lab)
  BY ServiceLabsAssumption DEF ServiceInit
<1>2. \A n \in Nodes : Len(Commands(n)) \in Nat
  BY <1>1, ShapesAre
<1>3. at \in [Nodes -> Nat \ {0}] /\ \A n \in Nodes : at[n] <= Len(Commands(n)) + 1
  BY <1>2 DEF ServiceInit
<1>4. PICK S : S = {n \in Nodes : HasUnboundRuntime(lab[n])}
  OBVIOUS
<1>5. loop = ByName(S)
  BY <1>4 DEF ServiceInit, LoopInit
<1>6. \A n : n \in ToSet(ByName(S)) <=> n \in Nodes /\ n \in S
  BY <1>1, ByNameIs
<1>7. Resolvers = S
  BY <1>4, <1>5, <1>6 DEF Resolvers
<1> QED BY <1>1, <1>3, <1>4, <1>7 DEF Phases, Going, ServiceInit, LoopInit

LEMMA PhasesStep == Phases /\ [ServiceNext]_<<vars, serviceVars>> => Phases'
<1> SUFFICES ASSUME Phases, [ServiceNext]_<<vars, serviceVars>> PROVE Phases'
  OBVIOUS
<1> USE DEF Phases, Going, Resolvers, Booted, Nodes, Commands
<1>1. ASSUME NEW n \in Nodes, Run(n) PROVE Phases'
  <2>1. /\ lab' = lab /\ stage = "boot" /\ stage' = "boot" /\ pc' = pc /\ loop' = loop
        /\ at' = [at EXCEPT ![n] = @ + 1]
    BY <1>1, RunsNext DEF vars
  <2>2. at[n] <= Len(Commands(n)) /\ Len(Commands(n)) \in Nat
    BY <1>1, ShapesAre DEF Run
  <2> QED BY <2>1, <2>2
<1>2. ASSUME NEW n \in Nodes, Fail(n) PROVE Phases'
  BY <1>2 DEF Fail, vars
<1>3. CASE StartLoops
  BY <1>3 DEF StartLoops, Reconcile
<1>4. CASE DnsLoop
  <2>1. CASE UNCHANGED vars /\ stage' = "missing"
    BY <1>4, <2>1 DEF DnsLoop, vars
  <2>2. CASE Script /\ stage' = IF pc' = "failed" THEN "failed" ELSE stage
    <3>1. loop' = loop
      BY <2>2 DEF Script, StopOld, AddressesThere, WaitForAddresses, StartDaemon, DaemonAlive,
                  DaemonGone, SocketsOpen, SocketsClosed, GiveUp, WaitFor, Goto
    <3>2. stage = "dns" /\ lab' = lab /\ at' = at
      BY <1>4 DEF DnsLoop
    <3> QED BY <2>2, <3>1, <3>2
  <2> QED BY <1>4, <2>1, <2>2 DEF DnsLoop
<1>5. CASE Daemons
  <2>1. pc' = pc /\ loop' = loop
    BY <1>5 DEF Daemons, World, AddressesCome, Binds, Serves, Stops, Dies, Becomes
  <2> QED BY <1>5, <2>1 DEF Daemons, serviceVars
<1>6. CASE ServiceStep
  <2>1. UNCHANGED <<vars, lab, at>>
    BY <1>6 DEF ServiceStep, StartKea, FindScripts, RunScript, StopKea, LaunchKea, KeaAlive,
                KeaProbed, ScriptFails, Finish, KeaDaemons
  <2>2. CASE StartKea \/ FindScripts \/ ScriptFails \/ Finish
    BY <2>1, <2>2 DEF StartKea, FindScripts, ScriptFails, Finish, vars
  <2>3. CASE RunScript
    BY <2>1, <2>3 DEF RunScript, StopKea, LaunchKea, KeaAlive, KeaProbed, vars
  <2>4. CASE KeaDaemons
    BY <2>1, <2>4 DEF KeaDaemons, vars
  <2> QED BY <1>6, <2>2, <2>3, <2>4 DEF ServiceStep
<1>7. CASE UNCHANGED <<vars, serviceVars>>
  BY <1>7 DEF vars, serviceVars
<1> QED BY <1>1, <1>2, <1>3, <1>4, <1>5, <1>6, <1>7 DEF ServiceNext

\* What the commands do adds up.
LEMMA FilesStart == ServiceInit => FileInv
<1> SUFFICES ASSUME ServiceInit PROVE FileInv
  OBVIOUS
<1>1. /\ at = [n \in Nodes |-> 1] /\ unbound = {}
      /\ routes = [n \in Nodes |-> {}] /\ opened = [n \in Nodes |-> {}]
      /\ scripts = [n \in Nodes |-> {}]
      /\ config = [n \in Nodes |-> Nothing] /\ include = [n \in Nodes |-> Nothing]
  BY DEF ServiceInit
<1>2. DOMAIN Nothing = {}
  BY DEF Nothing
<1>3. ASSUME NEW n \in Nodes PROVE Executed(n)
  <2>1. Behind(n) = {}
    BY <1>1 DEF Behind
  <2> QED BY <1>1, <1>2, <2>1 DEF Executed, KeaDone
<1> QED BY <1>1, <1>3 DEF FileInv

LEMMA FilesStay ==
  ASSUME FileInv, UNCHANGED <<lab, at, files>>
  PROVE  FileInv'
<1>1. /\ Nodes' = Nodes /\ (\A n \in Nodes : Behind(n)' = Behind(n))
      /\ routes' = routes /\ opened' = opened /\ config' = config
      /\ scripts' = scripts /\ include' = include /\ unbound' = unbound /\ lab' = lab
  BY DEF files, Nodes, Behind, Commands
<1> QED BY <1>1 DEF FileInv, Executed, KeaDone, Accepted

\* A command c of a node n, in a step of that node.
RunsThis(n, c) ==
    RunRoute(n, c) \/ RunAddress(n, c) \/ RunKea(n, c) \/ RunUnbound(n, c) \/ RunOther(n, c)

\* It leaves the other nodes alone.
LEMMA RunsHere ==
  ASSUME FileInv, NEW n \in Nodes, NEW c, RunsThis(n, c), NEW m \in Nodes \ {n}
  PROVE  /\ routes'[m] = routes[m] /\ opened'[m] = opened[m] /\ config'[m] = config[m]
         /\ scripts'[m] = scripts[m] /\ include'[m] = include[m]
         /\ m \in unbound' <=> m \in unbound
BY DEF FileInv, RunsThis, RunRoute, RunAddress, RunKea, RunUnbound, RunOther, files

LEMMA RunsKeepDomains ==
  ASSUME FileInv, NEW n \in Nodes, NEW c, RunsThis(n, c)
  PROVE  /\ DOMAIN routes' = Nodes /\ DOMAIN opened' = Nodes /\ DOMAIN config' = Nodes
         /\ DOMAIN scripts' = Nodes /\ DOMAIN include' = Nodes
BY DEF FileInv, RunsThis, RunRoute, RunAddress, RunKea, RunUnbound, RunOther, files

\* What the step does to the files of the node itself.
LEMMA RunsConfig ==
  ASSUME FileInv, NEW n \in Nodes, NEW c, RunsThis(n, c)
  PROVE  /\ \A key \in DOMAIN config'[n] :
                \/ key \in DOMAIN config[n] /\ config'[n][key] = config[n][key]
                \/ c.kind = "kea" /\ key = <<c.on, c.family>> /\ config'[n][key] = c.scope
         /\ \A stem \in DOMAIN include'[n] :
                \/ stem \in DOMAIN include[n] /\ include'[n][stem] = include[n][stem]
                \/ /\ c.kind = "kea"
                   /\ include'[n][stem] = [scope |-> c.scope, family |-> c.family]
         /\ DOMAIN config[n] \subseteq DOMAIN config'[n]
         /\ DOMAIN include[n] \subseteq DOMAIN include'[n]
         /\ \A x : x \in scripts'[n] <=>
                x \in scripts[n] \/ (c.kind = "kea" /\ x = <<c.on, c.family>>)
<1>1. CASE RunKea(n, c)
  <2>1. PICK written \in Outcomes :
            /\ config' = IF written # "both" THEN config
                         ELSE [config EXCEPT ![n] = With(@, <<c.on, c.family>>, c.scope)]
            /\ include' = IF written = "nothing" \/ c.publication = None THEN include
                          ELSE [include EXCEPT ![n] = With(@, Stem[c.scope],
                                  [scope |-> c.scope, family |-> c.family])]
    BY <1>1 DEF RunKea
  <2>2. c.kind = "kea" /\ scripts' = [scripts EXCEPT ![n] = @ \cup {<<c.on, c.family>>}]
    BY <1>1 DEF RunKea
  <2>3. n \in DOMAIN config /\ n \in DOMAIN include /\ n \in DOMAIN scripts
    BY DEF FileInv
  <2>4. \/ config'[n] = config[n]
        \/ config'[n] = With(config[n], <<c.on, c.family>>, c.scope)
    BY <2>1, <2>3
  <2>5. \/ include'[n] = include[n]
        \/ include'[n] = With(include[n], Stem[c.scope], [scope |-> c.scope, family |-> c.family])
    BY <2>1, <2>3
  <2>6. scripts'[n] = scripts[n] \cup {<<c.on, c.family>>}
    BY <2>2, <2>3
  <2>7. PICK k, v, f, g : /\ k = <<c.on, c.family>> /\ v = [scope |-> c.scope, family |-> c.family]
                          /\ f = With(config[n], k, c.scope) /\ g = With(include[n], Stem[c.scope], v)
    OBVIOUS
  <2>8. /\ DOMAIN f = DOMAIN config[n] \cup {k} /\ f[k] = c.scope
        /\ \A z \in DOMAIN config[n] \ {k} : f[z] = config[n][z]
    BY <2>7 DEF With
  <2>9. /\ DOMAIN g = DOMAIN include[n] \cup {Stem[c.scope]} /\ g[Stem[c.scope]] = v
        /\ \A z \in DOMAIN include[n] \ {Stem[c.scope]} : g[z] = include[n][z]
    BY <2>7 DEF With
  <2>10. config'[n] = config[n] \/ config'[n] = f
    BY <2>4, <2>7
  <2>11. include'[n] = include[n] \/ include'[n] = g
    BY <2>5, <2>7
  <2>12. /\ \A key \in DOMAIN config'[n] :
               \/ key \in DOMAIN config[n] /\ config'[n][key] = config[n][key]
               \/ key = k /\ config'[n][key] = c.scope
        /\ DOMAIN config[n] \subseteq DOMAIN config'[n]
    BY <2>8, <2>10
  <2>13. /\ \A stem \in DOMAIN include'[n] :
               \/ stem \in DOMAIN include[n] /\ include'[n][stem] = include[n][stem]
               \/ include'[n][stem] = v
        /\ DOMAIN include[n] \subseteq DOMAIN include'[n]
    BY <2>9, <2>11
  <2> QED BY <2>2, <2>6, <2>7, <2>12, <2>13
<1>2. CASE RunRoute(n, c) \/ RunAddress(n, c) \/ RunUnbound(n, c) \/ RunOther(n, c)
  <2>1. c.kind # "kea" /\ config' = config /\ include' = include /\ scripts' = scripts
    BY <1>2 DEF RunRoute, RunAddress, RunUnbound, RunOther, files
  <2> QED BY <2>1
<1> QED BY <1>1, <1>2 DEF RunsThis

LEMMA RunsTables ==
  ASSUME FileInv, NEW n \in Nodes, NEW c, RunsThis(n, c)
  PROVE  /\ c.kind = "route" =>
                routes'[n] = Replaced(routes[n],
                    [to |-> Derived(Contents[c.source], c.route), on |-> c.route.on])
         /\ c.kind # "route" => routes'[n] = routes[n]
         /\ \A x \in opened'[n] :
                \/ x \in opened[n]
                \/ c.kind = "address" /\ x = DerivedAddress(Contents[c.source], c.address)
         /\ n \in unbound' <=> n \in unbound \/ c.kind = "unbound"
<1>1. n \in DOMAIN routes /\ n \in DOMAIN opened
  BY DEF FileInv
<1>2. CASE RunRoute(n, c)
  BY <1>1, <1>2 DEF RunRoute
<1>3. CASE RunAddress(n, c)
  BY <1>1, <1>3 DEF RunAddress
<1>4. CASE RunKea(n, c)
  BY <1>1, <1>4 DEF RunKea
<1>5. CASE RunUnbound(n, c)
  BY <1>1, <1>5 DEF RunUnbound
<1>6. CASE RunOther(n, c)
  BY <1>1, <1>6 DEF RunOther, files
<1> QED BY <1>2, <1>3, <1>4, <1>5, <1>6 DEF RunsThis

LEMMA FilesRun ==
  ASSUME Phases, FileInv, NEW n \in Nodes, Run(n)
  PROVE  FileInv'
<1>1. PICK c \in ToSet(Commands(n)) :
          /\ Accepted(c) /\ RunsThis(n, c)
          /\ Behind(n)' = Behind(n) \cup {c}
          /\ \A m \in Nodes \ {n} : Behind(m)' = Behind(m)
  BY RunsNext DEF RunsThis
<1>2. lab' = lab /\ Nodes' = Nodes
  BY RunsNext
<1>3. Executed(n)
  BY DEF FileInv
<1>4. \A d : d \in Behind(n)' <=> d \in Behind(n) \/ d = c
  BY <1>1
<1>5. \A d \in Behind(n)' : Accepted(d)'
  BY <1>1, <1>3, <1>4 DEF Executed, Accepted
<1>6. (n \in unbound <=> \E d \in Behind(n) : d.kind = "unbound")'
  BY <1>1, <1>3, <1>4, RunsTables DEF Executed
<1>7. (\A x : x \in scripts[n] <=> \E d \in KeaDone(n) : x = <<d.on, d.family>>)'
  <2>1. \A d : d \in KeaDone(n)' <=> d \in KeaDone(n) \/ (d = c /\ c.kind = "kea")
    BY <1>4 DEF KeaDone
  <2>2. \A x : x \in scripts'[n] <=> x \in scripts[n] \/ (c.kind = "kea" /\ x = <<c.on, c.family>>)
    BY <1>1, RunsConfig
  <2> QED BY <1>3, <2>1, <2>2 DEF Executed
<1>8. (\A x \in opened[n] :
          \E d \in Behind(n) :
              d.kind = "address" /\ x = DerivedAddress(Contents[d.source], d.address))'
  <2>1. \A x \in opened'[n] :
            x \in opened[n] \/ (c.kind = "address" /\ x = DerivedAddress(Contents[c.source], c.address))
    BY <1>1, RunsTables
  <2> QED BY <1>3, <1>4, <2>1 DEF Executed
<1>9. /\ (\A key \in DOMAIN config[n] :
             \E d \in KeaDone(n) : key = <<d.on, d.family>> /\ config[n][key] = d.scope)'
      /\ (\A stem \in DOMAIN include[n] :
             \E d \in KeaDone(n) : include[n][stem] = [scope |-> d.scope, family |-> d.family])'
  <2>1. \A d : d \in KeaDone(n)' <=> d \in KeaDone(n) \/ (d = c /\ c.kind = "kea")
    BY <1>4 DEF KeaDone
  <2>2. /\ \A key \in DOMAIN config'[n] :
                \/ key \in DOMAIN config[n] /\ config'[n][key] = config[n][key]
                \/ c.kind = "kea" /\ key = <<c.on, c.family>> /\ config'[n][key] = c.scope
        /\ \A stem \in DOMAIN include'[n] :
                \/ stem \in DOMAIN include[n] /\ include'[n][stem] = include[n][stem]
                \/ /\ c.kind = "kea"
                   /\ include'[n][stem] = [scope |-> c.scope, family |-> c.family]
    BY <1>1, RunsConfig
  <2>3. ASSUME NEW key \in DOMAIN config'[n]
        PROVE  \E d \in KeaDone(n)' : key = <<d.on, d.family>> /\ config'[n][key] = d.scope
    <3>1. CASE key \in DOMAIN config[n] /\ config'[n][key] = config[n][key]
      BY <1>3, <2>1, <3>1 DEF Executed
    <3>2. CASE c.kind = "kea" /\ key = <<c.on, c.family>> /\ config'[n][key] = c.scope
      BY <2>1, <3>2
    <3> QED BY <2>2, <3>1, <3>2
  <2>4. ASSUME NEW stem \in DOMAIN include'[n]
        PROVE  \E d \in KeaDone(n)' : include'[n][stem] = [scope |-> d.scope, family |-> d.family]
    <3>1. CASE stem \in DOMAIN include[n] /\ include'[n][stem] = include[n][stem]
      BY <1>3, <2>1, <3>1 DEF Executed
    <3>2. CASE c.kind = "kea" /\ include'[n][stem] = [scope |-> c.scope, family |-> c.family]
      BY <2>1, <3>2
    <3> QED BY <2>2, <3>1, <3>2
  <2> QED BY <2>3, <2>4
<1>10. ASSUME NEW r \in RouteNodes(lab[n]), RouteOf(r) \in Behind(n)',
              \A q \in RouteNodes(lab[n]) : PrefixOf(q) = PrefixOf(r) => q = r
       PROVE  [to |-> PrefixOf(r), on |-> r.on] \in routes'[n]
  <2>1. CASE c.kind # "route"
    <3>1. RouteOf(r) \in Behind(n)
      BY <1>4, <1>10, <2>1 DEF RouteOf
    <3> QED BY <1>1, <1>3, <1>10, <2>1, <3>1, RunsTables DEF Executed
  <2>2. CASE c.kind = "route"
    <3>1. PICK q \in RouteNodes(lab[n]) : c = RouteOf(q)
      BY <1>1, <2>2, ShapesAre, KindsAre DEF Phases, Commands
    <3>2. c.source = q.source /\ c.route = q
      BY <3>1 DEF RouteOf
    <3>3. PICK new : new = [to |-> PrefixOf(q), on |-> q.on]
      OBVIOUS
    <3>4. routes'[n] = {x \in routes[n] : x.to # new.to} \cup {new}
      BY <1>1, <2>2, <3>2, <3>3, RunsTables DEF Replaced, PrefixOf
    <3>5. CASE q = r
      BY <3>3, <3>4, <3>5
    <3>6. CASE q # r
      <4>1. RouteOf(r) \in Behind(n)
        <5>1. RouteOf(r).route = r
          BY DEF RouteOf
        <5> QED BY <1>4, <1>10, <3>2, <3>6, <5>1
      <4>2. [to |-> PrefixOf(r), on |-> r.on] \in routes[n]
        BY <1>3, <1>10, <4>1 DEF Executed
      <4>3. PrefixOf(r) # new.to
        BY <1>10, <3>3, <3>6
      <4> QED BY <3>4, <4>2, <4>3
    <3> QED BY <3>5, <3>6
  <2> QED BY <2>1, <2>2
<1>11. Executed(n)'
  BY <1>2, <1>5, <1>6, <1>7, <1>8, <1>9, <1>10 DEF Executed, RouteNodes, PrefixOf
<1>12. ASSUME NEW m \in Nodes \ {n} PROVE Executed(m)'
  <2>1. /\ routes'[m] = routes[m] /\ opened'[m] = opened[m] /\ config'[m] = config[m]
        /\ scripts'[m] = scripts[m] /\ include'[m] = include[m]
        /\ m \in unbound' <=> m \in unbound
    BY <1>1, RunsHere
  <2>2. Behind(m)' = Behind(m)
    BY <1>1
  <2>3. Executed(m)
    BY DEF FileInv
  <2> QED BY <1>2, <2>1, <2>2, <2>3 DEF Executed, KeaDone, Accepted, RouteNodes
<1>13. /\ DOMAIN routes' = Nodes /\ DOMAIN opened' = Nodes /\ DOMAIN config' = Nodes
       /\ DOMAIN scripts' = Nodes /\ DOMAIN include' = Nodes
  BY <1>1, RunsKeepDomains
<1> QED BY <1>2, <1>11, <1>12, <1>13 DEF FileInv

\* Once a node has booted, it has executed all that was rendered for it.
LEMMA BootedIs ==
  ASSUME Phases, Booted, NEW n \in Nodes
  PROVE  \A c \in ToSet(Commands(n)) : c \in Behind(n)
<1>1. /\ Len(Commands(n)) \in Nat /\ at[n] \in Nat /\ at[n] > Len(Commands(n))
      /\ \A c : c \in ToSet(Commands(n)) <=> \E i \in 1 .. Len(Commands(n)) : Commands(n)[i] = c
  BY ShapesAre DEF Phases, Booted
<1>2. \A i \in 1 .. Len(Commands(n)) : i \in 1 .. at[n] - 1
  BY <1>1
<1> QED BY <1>1, <1>2 DEF Behind

LEMMA ScopesHaveScripts ==
  ASSUME Phases, FileInv, Booted, NEW n \in Nodes,
         NEW f \in Families, NEW s \in ToSet(Dhcp(lab[n], f)), Present(lab[n], s), s.source # None
  PROVE  <<s.on, f>> \in scripts[n]
<1>1. DhcpCommand(s, f) \in ToSet(Commands(n))
  BY ShapesAre, CommandsAre DEF Commands, Phases
<1>2. PICK c \in Behind(n) : c = DhcpCommand(s, f)
  BY <1>1, BootedIs
<1>3. c.kind = "kea" /\ c.on = s.on /\ c.family = f
  BY <1>2 DEF DhcpCommand
<1> QED BY <1>2, <1>3 DEF FileInv, Executed, KeaDone

LEMMA KeaNodesHaveScripts ==
  ASSUME Phases, FileInv, Booted, NEW n \in KeaNodes
  PROVE  scripts[n] # {}
<1>1. PICK f \in Families : \E s \in ToSet(Dhcp(lab[n], f)) :
          s.enabled /\ s.on \in lab[n].devices /\ s.source # None
  BY DEF KeaNodes, HasKeaRuntime
<1>2. PICK s \in ToSet(Dhcp(lab[n], f)) : Present(lab[n], s) /\ s.source # None
  BY <1>1 DEF Present
<1>3. n \in Nodes
  BY DEF KeaNodes
<1>4. <<s.on, f>> \in scripts[n]
  BY <1>2, <1>3, ScopesHaveScripts
<1> QED BY <1>4

LEMMA ResolversHaveScripts ==
  ASSUME Phases, FileInv, Booted, NEW n \in Resolvers
  PROVE  n \in unbound
<1>1. n \in Nodes /\ HasUnboundRuntime(lab[n])
  BY DEF Phases
<1>2. PICK c \in ToSet(Commands(n)) : c.kind = "unbound"
  BY <1>1, ShapesAre, CommandsAre DEF Commands, Phases
<1>3. c \in Behind(n)
  BY <1>1, <1>2, BootedIs
<1> QED BY <1>1, <1>2, <1>3 DEF FileInv, Executed

\* The Kea loop goes through the containers that are labelled for it.
QueueInv ==
    /\ queue \in Seq(KeaNodes)
    /\ left # {} => queue # <<>>
    /\ stage = "dns" => left = {}
    /\ stage \in {"start", "alive", "socket"} => current \in left
    /\ stage # "missing"

BootInv == LoopInv /\ Phases /\ FileInv /\ QueueInv

LEMMA BootStarts == ServiceInit => BootInv
<1> SUFFICES ASSUME ServiceInit PROVE BootInv
  OBVIOUS
<1>1. QueueInv
  BY DEF ServiceInit, QueueInv
<1> QED BY <1>1, ServiceStartsLoop, PhasesStart, FilesStart DEF BootInv

LEMMA FilesStep == Phases /\ FileInv /\ [ServiceNext]_<<vars, serviceVars>> => FileInv'
<1> SUFFICES ASSUME Phases, FileInv, [ServiceNext]_<<vars, serviceVars>> PROVE FileInv'
  OBVIOUS
<1>1. ASSUME NEW n \in Nodes, Run(n) PROVE FileInv'
  BY <1>1, FilesRun
<1>2. CASE UNCHANGED <<lab, at, files>>
  BY <1>2, FilesStay
<1>3. ASSUME NEW n \in Nodes, Fail(n) PROVE UNCHANGED <<lab, at, files>>
  BY <1>3 DEF Fail
<1>4. StartLoops \/ DnsLoop \/ Daemons \/ ServiceStep => UNCHANGED <<lab, at, files>>
  BY DEF StartLoops, DnsLoop, Daemons, ServiceStep, StartKea, FindScripts, RunScript, StopKea, LaunchKea,
         KeaAlive, KeaProbed, ScriptFails, Finish, KeaDaemons, serviceVars
<1>5. UNCHANGED <<vars, serviceVars>> => UNCHANGED <<lab, at, files>>
  BY DEF serviceVars
<1> QED BY <1>1, <1>2, <1>3, <1>4, <1>5 DEF ServiceNext

LEMMA QueueStep == BootInv /\ [ServiceNext]_<<vars, serviceVars>> => QueueInv'
<1> SUFFICES ASSUME BootInv, [ServiceNext]_<<vars, serviceVars>> PROVE QueueInv'
  OBVIOUS
<1>0. LoopInv /\ Phases /\ FileInv /\ QueueInv
  BY DEF BootInv
<1>1. lab' = lab => KeaNodes' = KeaNodes
  BY DEF KeaNodes, Nodes
<1>2. ASSUME NEW n \in Nodes, Run(n) PROVE QueueInv'
  BY <1>0, <1>1, <1>2 DEF Run, QueueInv, keaLoop
<1>3. ASSUME NEW n \in Nodes, Fail(n) PROVE QueueInv'
  <2>1. Mounted(n, Commands(n)[at[n]])
    <3>1. at[n] \in 1 .. Len(Commands(n))
      BY <1>0, <1>3, ShapesAre DEF Fail, Phases
    <3>2. Commands(n)[at[n]] \in ToSet(ServiceCommands(lab[n]))
      BY <1>0, <3>1, ShapesAre DEF Phases, Commands
    <3> QED BY <1>0, <3>2, ShapesAre, KindsAre DEF Phases, Mounted
  <2>2. stage' = "failed" /\ lab' = lab /\ UNCHANGED keaLoop
    BY <1>3, <2>1 DEF Fail
  <2> QED BY <1>0, <1>1, <2>2 DEF QueueInv, keaLoop
<1>4. CASE StartLoops
  <2>1. queue' = <<>> /\ left' = {} /\ stage' = "dns" /\ lab' = lab
    BY <1>4 DEF StartLoops
  <2> QED BY <2>1 DEF QueueInv
<1>5. CASE DnsLoop
  <2>1. pc = "stop" => Resolver \in unbound
    <3>1. ASSUME pc = "stop" PROVE Resolver \in Resolvers
      BY <1>0, <3>1, AtResolver
    <3> QED BY <1>0, <1>5, <3>1, ResolversHaveScripts DEF DnsLoop, Phases
  <2>2. stage' \in {"failed", "dns"} /\ lab' = lab /\ UNCHANGED keaLoop /\ stage = "dns"
    BY <1>5, <2>1 DEF DnsLoop
  <2> QED BY <1>0, <1>1, <2>2 DEF QueueInv, keaLoop
<1>6. CASE Daemons
  BY <1>0, <1>1, <1>6 DEF Daemons, serviceVars, QueueInv, keaLoop
<1>7. CASE StartKea
  <2>1. PICK S : S = {n \in Nodes : HasKeaRuntime(lab[n])}
    OBVIOUS
  <2>2. queue' = ByName(S) /\ stage' = "kea" /\ left' = {} /\ lab' = lab
    BY <1>0, <1>7, <2>1 DEF StartKea, QueueInv
  <2>3. IsSequence(ByName(S)) /\ \A n : n \in ToSet(ByName(S)) <=> n \in Nodes /\ n \in S
    BY <1>0, ByNameIs, ServiceLabsAssumption DEF Phases
  <2>4. ToSet(ByName(S)) = KeaNodes'
    BY <1>1, <2>1, <2>2, <2>3 DEF KeaNodes
  <2> QED BY <2>2, <2>3, <2>4 DEF QueueInv, IsSequence
<1>8. CASE FindScripts
  <2>1. Head(queue) \in KeaNodes
    BY <1>0, <1>8 DEF FindScripts, QueueInv
  <2>2. scripts[Head(queue)] # {}
    BY <1>0, <1>8, <2>1, KeaNodesHaveScripts DEF FindScripts, Phases, Going
  <2> QED BY <1>0, <1>1, <1>8, <2>2 DEF FindScripts, QueueInv
<1>9. CASE RunScript
  <2>1. CASE StopKea
    BY <1>0, <1>1, <2>1 DEF StopKea, QueueInv
  <2>2. CASE LaunchKea \/ KeaAlive
    BY <1>0, <1>1, <2>2 DEF LaunchKea, KeaAlive, QueueInv, keaLoop
  <2>3. CASE KeaProbed
    <3>1. /\ queue \in Seq(KeaNodes) /\ queue # <<>> /\ current \in left
          /\ lab' = lab /\ current' = current /\ stage = "socket"
      BY <1>0, <2>3 DEF KeaProbed, QueueInv
    <3>2. CASE stage' = "alive" /\ queue' = queue /\ left' = left
      BY <1>0, <1>1, <3>1, <3>2 DEF QueueInv
    <3>3. CASE /\ stage' = "kea" /\ left' = left \ {current}
               /\ queue' = IF left' = {} THEN Tail(queue) ELSE queue
      <4>1. queue' \in Seq(KeaNodes)
        BY <3>1, <3>3
      <4>2. left' # {} => queue' # <<>>
        BY <3>1, <3>3
      <4> QED BY <1>1, <3>1, <3>3, <4>1, <4>2 DEF QueueInv
    <3> QED BY <2>3, <3>2, <3>3 DEF KeaProbed
  <2> QED BY <1>9, <2>1, <2>2, <2>3 DEF RunScript
<1>10. CASE ScriptFails \/ Finish \/ KeaDaemons
  BY <1>0, <1>1, <1>10 DEF ScriptFails, Finish, KeaDaemons, QueueInv, keaLoop
<1>11. CASE UNCHANGED <<vars, serviceVars>>
  BY <1>0, <1>1, <1>11 DEF serviceVars, QueueInv, keaLoop
<1> QED BY <1>2, <1>3, <1>4, <1>5, <1>6, <1>7, <1>8, <1>9, <1>10, <1>11 DEF ServiceNext, ServiceStep

LEMMA BootStep == BootInv /\ [ServiceNext]_<<vars, serviceVars>> => BootInv'
BY ServiceStepLoops, LoopStep, PhasesStep, FilesStep, QueueStep DEF BootInv

LEMMA BootIs == ServiceSpec => []BootInv
BY BootStarts, BootStep, PTL DEF ServiceSpec

\* No command finds a protected file missing that was rendered for it, and no loop a
\* container that is labelled for it without a script: what the commands, the binds
\* and the labels of a node are rendered from agrees, whatever the node is, and so
\* do the order of boot and the moments at which the loops look.
THEOREM NothingMissing == ServiceSpec => []NothingIsMissing
<1>1. BootInv => NothingIsMissing
  BY DEF BootInv, QueueInv, NothingIsMissing
<1> QED BY <1>1, BootIs, PTL

(***************************************************************************)
(* The loop over the Kea scripts: what is ready serves                     *)
(***************************************************************************)

Record(n, f, s) == [node |-> n, on |-> s.on, family |-> f, scope |-> s.id]

\* The script of a scope is still to be found, or found and still to end.
Awaited(n, script) ==
    n \in ToSet(queue) /\ (left = {} \/ n # Head(queue) \/ script \in left)

\* Otherwise its last daemon has got its socket, if it was started alone.
Answered(n, f, s) == <<n, s.on, f>> \in lone => Record(n, f, s) \in served

ServedInv ==
    /\ stage \in Going =>
           \A n \in Nodes, f \in Families : \A s \in Only(n, f) :
               s.source # None => Awaited(n, <<s.on, f>>) \/ Answered(n, f, s)
    /\ stage = "ready" => queue = <<>>
    /\ \A script \in left : script = <<script[1], script[2]>>

\* What lives has been started from a configuration that is still there, if it holds a
\* socket, and is known to have got it; and what a script started alone is alone.
DaemonIs(d) ==
    /\ d = [node |-> d.node, on |-> d.on, family |-> d.family, scope |-> d.scope, state |-> d.state]
    /\ d.scope # None => /\ <<d.on, d.family>> \in DOMAIN config[d.node]
                         /\ d.scope = config[d.node][<<d.on, d.family>>]
    /\ d.state \in HoldsPort => d.scope # None

KeaInv ==
    /\ stage = "boot" => kea = {}
    /\ \A d \in kea : DaemonIs(d)
    /\ \A d \in kea : d.state = "serving" => ServesScope(d) \in served
    /\ stage = "start" => \A d \in kea : ScriptOf(d) = Current => d.state \notin NotTold
    /\ stage \in {"alive", "socket"} /\ Current \in lone =>
           \A d \in kea : d.node = Head(queue) /\ d.family = current[2] => d.state \in NotTold

LEMMA BehindIs ==
  ASSUME Phases, NEW n \in Nodes, NEW c \in Behind(n)
  PROVE  c \in ToSet(Commands(n))
<1>1. /\ Len(Commands(n)) \in Nat /\ at[n] \in Nat /\ at[n] <= Len(Commands(n)) + 1
      /\ \A d : d \in ToSet(Commands(n)) <=> \E i \in 1 .. Len(Commands(n)) : Commands(n)[i] = d
  BY ShapesAre DEF Phases
<1>2. PICK i \in 1 .. at[n] - 1 : c = Commands(n)[i]
  BY DEF Behind
<1>3. i \in 1 .. Len(Commands(n))
  BY <1>1
<1> QED BY <1>1, <1>2, <1>3

LEMMA OnlyIs ==
  ASSUME lab \in ServiceLabs, NEW n \in Nodes, NEW f \in Families, NEW s \in Only(n, f)
  PROVE  /\ s \in ToSet(Dhcp(lab[n], f)) /\ Present(lab[n], s)
         /\ \A t \in ToSet(Dhcp(lab[n], f)) : Present(lab[n], t) => t = s
<1>1. IsSequence(Dhcp(lab[n], f))
  BY ShapesAre DEF NodeShape, Dhcp
<1>2. PICK r : r = Realized(lab[n], Dhcp(lab[n], f))
  OBVIOUS
<1>3. IsSequence(r) /\ \A t : t \in ToSet(r) <=> t \in ToSet(Dhcp(lab[n], f)) /\ Present(lab[n], t)
  BY <1>1, <1>2, RealizedIs
<1>4. Len(r) = 1 /\ s \in ToSet(r)
  BY <1>2 DEF Only
<1>5. \A t : t \in ToSet(r) <=> \E i \in 1 .. Len(r) : r[i] = t
  BY <1>3, InToSet DEF IsSequence
<1>6. \A t \in ToSet(r) : t = r[1]
  BY <1>4, <1>5
<1> QED BY <1>3, <1>4, <1>6

\* Only one command of its family is Kea's then.
LEMMA OnlyCommand ==
  ASSUME Phases, NEW n \in Nodes, NEW f \in Families, NEW s \in Only(n, f),
         NEW c \in KeaDone(n), c.family = f
  PROVE  c.on = s.on /\ c.scope = s.id /\ s.source # None
<1>1. lab \in ServiceLabs /\ NodeShape(lab[n]) /\ c \in ToSet(ServiceCommands(lab[n])) /\ c.kind = "kea"
  BY BehindIs, ShapesAre DEF KeaDone, Commands, Phases
<1>2. \E g \in Families : \E t \in ToSet(Dhcp(lab[n], g)) :
          Present(lab[n], t) /\ t.source # None /\ c = DhcpCommand(t, g)
  BY <1>1, KindsAre
<1>3. PICK g \in Families : \E t \in ToSet(Dhcp(lab[n], g)) :
          Present(lab[n], t) /\ t.source # None /\ c = DhcpCommand(t, g)
  BY <1>2
<1>4. PICK t \in ToSet(Dhcp(lab[n], g)) :
          Present(lab[n], t) /\ t.source # None /\ c = DhcpCommand(t, g)
  BY <1>3
<1>5. c.family = g /\ c.on = t.on /\ c.scope = t.id
  BY <1>4 DEF DhcpCommand
<1>6. t = s
  BY <1>1, <1>4, <1>5, OnlyIs
<1> QED BY <1>4, <1>5, <1>6

\* What Kea serves in the family of the only scope is that scope.
LEMMA OwnScope ==
  ASSUME Phases, FileInv, NEW n \in Nodes, NEW f \in Families, NEW s \in Only(n, f),
         NEW d, DaemonIs(d), d.scope # None, d.node = n, d.family = f
  PROVE  ServesScope(d) = Record(n, f, s)
<1>1. \A k \in DOMAIN config[n] : \E c \in KeaDone(n) : k = <<c.on, c.family>> /\ config[n][k] = c.scope
  BY DEF FileInv, Executed
<1>2. <<d.on, f>> \in DOMAIN config[n] /\ d.scope = config[n][<<d.on, f>>]
  BY DEF DaemonIs
<1>3. PICK c \in KeaDone(n) : <<d.on, f>> = <<c.on, c.family>> /\ d.scope = c.scope
  BY <1>1, <1>2
<1>4. c.family = f /\ c.on = d.on
  BY <1>3
<1>5. c.on = s.on /\ c.scope = s.id
  BY <1>4, OnlyCommand
<1> QED BY <1>3, <1>4, <1>5 DEF ServesScope, Record

\* The script of the only scope of its family cannot be content with a socket that
\* is not its daemon's, if that was started alone.
LEMMA OwnDaemon ==
  ASSUME Phases, FileInv, KeaInv, NEW n \in Nodes, NEW f \in Families, NEW s \in Only(n, f),
         s.source # None, stage = "socket", n = Head(queue), current = <<s.on, f>>, PortHeld(n, f)
  PROVE  Answered(n, f, s)
<1>1. current[1] = s.on /\ current[2] = f
  OBVIOUS
<1>2. Current = <<n, s.on, f>>
  BY <1>1 DEF Current
<1> SUFFICES ASSUME Current \in lone PROVE Record(n, f, s) \in served
  BY <1>2 DEF Answered
<1>3. ASSUME NEW d \in kea, d.node = n, d.family = f, d.state \in HoldsPort
      PROVE  Record(n, f, s) \in served
  <2>1. d.state \in NotTold
    BY <1>1, <1>3 DEF KeaInv
  <2>2. d.state = "serving"
    BY <1>3, <2>1 DEF NotTold, HoldsPort
  <2>3. DaemonIs(d) /\ ServesScope(d) \in served
    BY <2>2 DEF KeaInv
  <2>4. d.scope # None
    BY <1>3, <2>3 DEF DaemonIs
  <2>5. ServesScope(d) = Record(n, f, s)
    BY <1>3, <2>3, <2>4, OwnScope
  <2> QED BY <2>3, <2>5
<1>4. ASSUME f = "ipv4", NEW t \in ToSet(Realized(lab[n], lab[n].dhcp4)), t.source = None
      PROVE  FALSE
  <2>1. lab \in ServiceLabs /\ IsSequence(lab[n].dhcp4) /\ Dhcp(lab[n], f) = lab[n].dhcp4
    BY <1>4, ShapesAre DEF NodeShape, Dhcp, Phases
  <2>2. t \in ToSet(lab[n].dhcp4) /\ Present(lab[n], t)
    BY <1>4, <2>1, RealizedIs
  <2>3. t = s
    BY <2>1, <2>2, OnlyIs
  <2> QED BY <1>4, <2>3
<1> QED BY <1>3, <1>4 DEF PortHeld

(* The daemons *)

LEMMA KeaStart == ServiceInit => KeaInv
BY DEF ServiceInit, KeaInv

\* A step that leaves the daemons of Kea alone.
LEMMA KeaStays ==
  ASSUME KeaInv, UNCHANGED <<config, kea, served>>,
         \/ stage' \notin {"boot", "start", "alive", "socket"}
         \/ UNCHANGED <<stage, queue, current, lone>>
  PROVE  KeaInv'
<1>1. \A d : DaemonIs(d)' = DaemonIs(d)
  BY DEF DaemonIs
<1>2. CASE stage' \notin {"boot", "start", "alive", "socket"}
  BY <1>1, <1>2 DEF KeaInv, ServesScope
<1>3. CASE UNCHANGED <<stage, queue, current, lone>>
  BY <1>1, <1>3 DEF KeaInv, ServesScope, ScriptOf, Current
<1> QED BY <1>2, <1>3

LEMMA KeaStop == ASSUME KeaInv, StopKea PROVE KeaInv'
<1>1. PICK k : k = <<Head(queue), current'[1], current'[2]>>
  OBVIOUS
<1>2. /\ stage' = "start" /\ kea' = {ToEnd(d, k) : d \in kea} /\ queue' = queue
      /\ served' = served /\ config' = config
  BY <1>1 DEF StopKea, files
<1>3. Current' = k
  BY <1>1, <1>2 DEF Current
<1>4. ASSUME NEW e \in kea'
      PROVE  /\ DaemonIs(e)' /\ (e.state = "serving" => ServesScope(e)' \in served')
             /\ ScriptOf(e)' = k => e.state \notin NotTold
  <2>1. PICK d \in kea : e = ToEnd(d, k)
    BY <1>2
  <2>2. DaemonIs(d) /\ (d.state = "serving" => ServesScope(d) \in served)
    BY DEF KeaInv
  <2>3. CASE ScriptOf(d) # k
    BY <1>2, <2>1, <2>2, <2>3 DEF ToEnd, DaemonIs, ServesScope, ScriptOf
  <2>4. CASE ScriptOf(d) = k
    <3>1. e = [d EXCEPT !.state = Stopped(d.state)]
      BY <2>1, <2>4 DEF ToEnd
    <3>2. e = [node |-> d.node, on |-> d.on, family |-> d.family, scope |-> d.scope,
               state |-> Stopped(d.state)]
      BY <2>2, <3>1 DEF DaemonIs
    <3>3. /\ e.state = Stopped(d.state) /\ e.node = d.node /\ e.on = d.on
          /\ e.family = d.family /\ e.scope = d.scope
      BY <3>2
    <3>4. /\ Stopped(d.state) \notin NotTold /\ Stopped(d.state) # "serving"
          /\ Stopped(d.state) \in HoldsPort => d.state \in HoldsPort
      BY DEF Stopped, NotTold, HoldsPort
    <3>5. DaemonIs(e)'
      BY <1>2, <2>2, <3>2, <3>3, <3>4 DEF DaemonIs
    <3> QED BY <3>3, <3>4, <3>5
  <2> QED BY <2>3, <2>4
<1> QED BY <1>2, <1>3, <1>4 DEF KeaInv

LEMMA KeaLaunch == ASSUME QueueInv, ServedInv, KeaInv, LaunchKea PROVE KeaInv'
<1>1. PICK new : new = Launched(Head(queue), current)
  OBVIOUS
<1>2. /\ stage = "start" /\ stage' = "alive" /\ kea' = kea \cup {new}
      /\ served' = {x \in served : ScriptOf(x) # Current}
      /\ lone' = IF \E d \in kea : d.node = Head(queue) /\ d.family = current[2]
                 THEN lone \ {Current} ELSE lone \cup {Current}
      /\ queue' = queue /\ current' = current /\ config' = config
  BY <1>1 DEF LaunchKea, files, keaLoop
<1>3. Current' = Current
  BY <1>2 DEF Current
<1>4. /\ new.node = Head(queue) /\ new.on = current[1] /\ new.family = current[2]
      /\ new.state = "starting"
      /\ new = [node |-> new.node, on |-> new.on, family |-> new.family, scope |-> new.scope,
                state |-> new.state]
  BY <1>1 DEF Launched
<1>5. new.scope # None => current \in DOMAIN config[Head(queue)] /\ new.scope = config[Head(queue)][current]
  BY <1>1 DEF Launched
<1>6. current = <<current[1], current[2]>>
  BY <1>2 DEF QueueInv, ServedInv
<1>7. DaemonIs(new)'
  BY <1>2, <1>4, <1>5, <1>6 DEF DaemonIs, HoldsPort
<1>8. ASSUME NEW d \in kea
      PROVE  DaemonIs(d)' /\ (d.state = "serving" => ServesScope(d)' \in served')
  <2>1. DaemonIs(d) /\ (d.state = "serving" => ServesScope(d) \in served)
    BY DEF KeaInv
  <2>2. DaemonIs(d)'
    BY <1>2, <2>1 DEF DaemonIs
  <2>3. ASSUME d.state = "serving" PROVE ServesScope(d) \in served'
    <3>1. ScriptOf(d) # Current
      BY <1>2, <2>3 DEF KeaInv, NotTold
    <3>2. ScriptOf(ServesScope(d)) # Current
      BY <3>1 DEF ScriptOf, ServesScope
    <3> QED BY <1>2, <2>1, <2>3, <3>2
  <2> QED BY <2>2, <2>3 DEF ServesScope
<1>9. Current \in lone' =>
          \A d \in kea' : d.node = Head(queue) /\ d.family = current[2] => d.state \in NotTold
  BY <1>2, <1>4 DEF NotTold
<1> QED BY <1>2, <1>3, <1>4, <1>7, <1>8, <1>9 DEF KeaInv

LEMMA KeaMoves == ASSUME KeaInv, KeaDaemons PROVE KeaInv'
<1>1. /\ UNCHANGED <<stage, config, queue, current, lone>>
      /\ \E d \in kea : OpensKea(d) \/ EndsKea(d)
  BY DEF KeaDaemons, files, keaLoop
<1>2. Current' = Current /\ \A d : DaemonIs(d)' = DaemonIs(d)
  BY <1>1 DEF Current, DaemonIs
<1>3. PICK d \in kea : OpensKea(d) \/ EndsKea(d)
  BY <1>1
<1>4. stage # "boot"
  BY <1>3 DEF KeaInv
<1>5. CASE EndsKea(d)
  <2>1. kea' = kea \ {d} /\ served' = served
    BY <1>5 DEF EndsKea
  <2> QED BY <1>1, <1>2, <1>4, <2>1 DEF KeaInv, ServesScope, ScriptOf
<1>6. CASE OpensKea(d)
  <2>1. PICK e : e = [d EXCEPT !.state = "serving"]
    OBVIOUS
  <2>2. /\ d.state = "starting" /\ d.scope # None /\ kea' = (kea \ {d}) \cup {e}
        /\ served' = served \cup {ServesScope(d)}
    BY <1>6, <2>1 DEF OpensKea
  <2>3. DaemonIs(d)
    BY DEF KeaInv
  <2>4. e = [node |-> d.node, on |-> d.on, family |-> d.family, scope |-> d.scope, state |-> "serving"]
    BY <2>1, <2>3 DEF DaemonIs
  <2>5. /\ e.node = d.node /\ e.on = d.on /\ e.family = d.family /\ e.scope = d.scope
        /\ e.state = "serving"
    BY <2>4
  <2>6. DaemonIs(e)
    BY <2>2, <2>3, <2>4, <2>5 DEF DaemonIs
  <2>7. ServesScope(e) = ServesScope(d)
    BY <2>5 DEF ServesScope
  <2>8. \A x \in kea' : DaemonIs(x) /\ (x.state = "serving" => ServesScope(x) \in served')
    BY <2>2, <2>6, <2>7 DEF KeaInv
  <2>9. stage = "start" => \A x \in kea' : ScriptOf(x) = Current => x.state \notin NotTold
    <3>1. ASSUME stage = "start" PROVE ScriptOf(d) # Current
      BY <2>2, <3>1 DEF KeaInv, NotTold
    <3>2. ScriptOf(e) = ScriptOf(d)
      BY <2>5 DEF ScriptOf
    <3> QED BY <2>2, <3>1, <3>2 DEF KeaInv
  <2>10. stage \in {"alive", "socket"} /\ Current \in lone =>
             \A x \in kea' : x.node = Head(queue) /\ x.family = current[2] => x.state \in NotTold
    BY <2>2, <2>5 DEF KeaInv, NotTold
  <2> QED BY <1>1, <1>2, <1>4, <2>8, <2>9, <2>10 DEF KeaInv, ServesScope, ScriptOf
<1> QED BY <1>3, <1>5, <1>6

LEMMA KeaStep ==
  ASSUME BootInv, ServedInv, KeaInv, [ServiceNext]_<<vars, serviceVars>> PROVE KeaInv'
<1>0. Phases /\ QueueInv
  BY DEF BootInv
<1>1. ASSUME NEW n \in Nodes, Run(n) PROVE KeaInv'
  <2>1. stage = "boot" /\ stage' = "boot" /\ kea' = kea
    BY <1>0, <1>1, RunsNext DEF keaWorld
  <2> QED BY <2>1 DEF KeaInv
<1>2. ASSUME NEW n \in Nodes, Fail(n) PROVE KeaInv'
  BY <1>2, KeaStays DEF Fail, files, keaWorld
<1>3. CASE StartLoops
  BY <1>3, KeaStays DEF StartLoops, files, keaWorld
<1>4. CASE DnsLoop
  <2>1. stage' \in {"missing", "failed", "dns"} /\ UNCHANGED <<config, kea, served>>
    BY <1>4 DEF DnsLoop, files, keaWorld
  <2> QED BY <2>1, KeaStays
<1>5. CASE Daemons
  BY <1>5, KeaStays DEF Daemons, serviceVars, files, keaLoop, keaWorld
<1>6. CASE StartKea \/ FindScripts \/ ScriptFails \/ Finish
  <2>1. stage' \in {"kea", "missing", "failed", "ready"} /\ UNCHANGED <<config, kea, served>>
    BY <1>6 DEF StartKea, FindScripts, ScriptFails, Finish, files, keaWorld
  <2> QED BY <2>1, KeaStays
<1>7. CASE KeaAlive \/ KeaProbed
  <2>1. UNCHANGED <<config, kea, served, lone, current>>
    BY <1>7 DEF KeaAlive, KeaProbed, files, keaLoop, keaWorld
  <2>2. CASE stage' = "kea"
    BY <2>1, <2>2, KeaStays
  <2>3. CASE stage' # "kea"
    <3>1. stage \in {"alive", "socket"} /\ stage' \in {"alive", "socket"} /\ queue' = queue
      BY <1>7, <2>3 DEF KeaAlive, KeaProbed, keaLoop
    <3>2. Current' = Current /\ \A d : DaemonIs(d)' = DaemonIs(d)
      BY <2>1, <3>1 DEF Current, DaemonIs
    <3> QED BY <2>1, <3>1, <3>2 DEF KeaInv, ServesScope
  <2> QED BY <2>2, <2>3
<1>8. CASE UNCHANGED <<vars, serviceVars>>
  BY <1>8, KeaStays DEF serviceVars, files, keaLoop, keaWorld
<1> QED BY <1>0, <1>1, <1>2, <1>3, <1>4, <1>5, <1>6, <1>7, <1>8, KeaStop, KeaLaunch, KeaMoves
      DEF ServiceNext, ServiceStep, RunScript

(* The scopes *)

LEMMA ServedStart == ServiceInit => ServedInv
BY DEF ServiceInit, ServedInv, Going

\* A step that leaves the services alone.
LEMMA ServedStays ==
  ASSUME ServedInv, UNCHANGED <<lab, served, lone, queue, left>>,
         stage' = stage \/ stage' \notin {"kea", "ready"},
         stage' \in Going => stage \in Going
  PROVE  ServedInv'
<1>1. Nodes' = Nodes /\ \A n, f : Only(n, f)' = Only(n, f)
  BY DEF Nodes, Only
<1>2. \A n, f, s : Answered(n, f, s)' = Answered(n, f, s)
  BY DEF Answered, Record
<1>3. \A n, k : Awaited(n, k)' = Awaited(n, k)
  BY DEF Awaited
<1> QED BY <1>1, <1>2, <1>3 DEF ServedInv

LEMMA ServedKea ==
  ASSUME Phases, ServedInv, QueueInv, StartKea
  PROVE  ServedInv'
<1>1. PICK S : S = {n \in Nodes : HasKeaRuntime(lab[n])}
  OBVIOUS
<1>2. /\ queue' = ByName(S) /\ stage' = "kea" /\ left' = {} /\ lab' = lab
  BY <1>1 DEF StartKea, QueueInv
<1>3. \A n : n \in ToSet(ByName(S)) <=> n \in Nodes /\ n \in S
  BY ByNameIs, ServiceLabsAssumption DEF Phases
<1>4. Nodes' = Nodes /\ \A n, f : Only(n, f)' = Only(n, f)
  BY <1>2 DEF Nodes, Only
<1>5. ASSUME NEW n \in Nodes, NEW f \in Families, NEW s \in Only(n, f), s.source # None
      PROVE  Awaited(n, <<s.on, f>>)'
  <2>1. s \in ToSet(Dhcp(lab[n], f)) /\ s.enabled /\ s.on \in lab[n].devices
    BY OnlyIs DEF Present, Phases
  <2>2. HasKeaRuntime(lab[n])
    BY <1>5, <2>1 DEF HasKeaRuntime
  <2> QED BY <1>1, <1>2, <1>3, <2>2 DEF Awaited
<1> QED BY <1>2, <1>4, <1>5 DEF ServedInv, Going

LEMMA ServedFind ==
  ASSUME Phases, FileInv, QueueInv, ServedInv, FindScripts
  PROVE  ServedInv'
<1>1. /\ stage = "kea" /\ left = {} /\ left' = scripts[Head(queue)] /\ queue' = queue
      /\ lab' = lab /\ served' = served /\ lone' = lone /\ stage' \in {"kea", "missing"}
      /\ Booted
  BY DEF FindScripts, keaWorld, Phases, Going
<1>2. Nodes' = Nodes /\ \A n, f : Only(n, f)' = Only(n, f)
  BY <1>1 DEF Nodes, Only
<1>3. ASSUME NEW n \in Nodes, NEW f \in Families, NEW s \in Only(n, f), s.source # None,
             Awaited(n, <<s.on, f>>)
      PROVE  Awaited(n, <<s.on, f>>)'
  <2>1. s \in ToSet(Dhcp(lab[n], f)) /\ Present(lab[n], s)
    BY OnlyIs DEF Phases
  <2>2. <<s.on, f>> \in scripts[n]
    BY <1>1, <1>3, <2>1, ScopesHaveScripts
  <2> QED BY <1>1, <1>3, <2>2 DEF Awaited
<1>4. \A x \in left' : x = <<x[1], x[2]>>
  <2>1. Head(queue) \in Nodes
    BY DEF FindScripts, QueueInv, KeaNodes
  <2> QED BY <1>1, <2>1 DEF FileInv, Executed
<1>5. \A n, f, s : Answered(n, f, s)' = Answered(n, f, s)
  BY <1>1 DEF Answered, Record
<1> QED BY <1>1, <1>2, <1>3, <1>4, <1>5 DEF ServedInv, Going

\* Starting a daemon is nothing to the other scopes; its own is still awaited.
LEMMA ServedLaunch ==
  ASSUME QueueInv, ServedInv, LaunchKea
  PROVE  ServedInv'
<1>1. /\ stage = "start" /\ stage' = "alive" /\ UNCHANGED <<lab, queue, left>>
      /\ served' = {x \in served : ScriptOf(x) # Current}
      /\ \A k : k # Current => (k \in lone' <=> k \in lone)
  BY DEF LaunchKea, keaLoop
<1>2. Nodes' = Nodes /\ \A n, f : Only(n, f)' = Only(n, f)
  BY <1>1 DEF Nodes, Only
<1>3. /\ queue \in Seq(KeaNodes) /\ queue # <<>> /\ current \in left
      /\ current = <<current[1], current[2]>>
  BY <1>1 DEF QueueInv, ServedInv
<1>4. Head(queue) \in ToSet(queue)
  BY <1>3, InToSet
<1>5. ASSUME NEW n \in Nodes, NEW f \in Families, NEW s \in Only(n, f), s.source # None
      PROVE  Awaited(n, <<s.on, f>>)' \/ Answered(n, f, s)'
  <2>1. Awaited(n, <<s.on, f>>) \/ Answered(n, f, s)
    BY <1>1, <1>5 DEF ServedInv, Going
  <2>2. CASE <<n, s.on, f>> = Current
    <3>1. n = Head(queue) /\ <<s.on, f>> = current
      BY <1>3, <2>2 DEF Current
    <3> QED BY <1>1, <1>3, <1>4, <3>1 DEF Awaited
  <2>3. CASE <<n, s.on, f>> # Current
    <3>1. ScriptOf(Record(n, f, s)) = <<n, s.on, f>>
      BY DEF ScriptOf, Record
    <3>2. Record(n, f, s) \in served => Record(n, f, s) \in served'
      BY <1>1, <2>3, <3>1
    <3>3. <<n, s.on, f>> \in lone' => <<n, s.on, f>> \in lone
      BY <1>1, <2>3
    <3>4. Answered(n, f, s) => Answered(n, f, s)'
      BY <3>2, <3>3 DEF Answered, Record
    <3>5. Awaited(n, <<s.on, f>>) => Awaited(n, <<s.on, f>>)'
      BY <1>1 DEF Awaited
    <3> QED BY <2>1, <3>4, <3>5
  <2> QED BY <2>2, <2>3
<1> QED BY <1>1, <1>2, <1>5 DEF ServedInv

\* A script has ended.
LEMMA ServedProbed ==
  ASSUME Phases, FileInv, QueueInv, ServedInv, KeaInv, KeaProbed,
         PortHeld(Head(queue), current[2])
  PROVE  ServedInv'
<1>1. PICK h : h = Head(queue)
  OBVIOUS
<1>2. /\ stage = "socket" /\ stage' = "kea" /\ lab' = lab /\ UNCHANGED <<served, lone>>
      /\ left' = left \ {current} /\ queue' = IF left' = {} THEN Tail(queue) ELSE queue
  BY DEF KeaProbed, SocketHeld, keaWorld
<1>3. current \in left /\ queue \in Seq(KeaNodes) /\ queue # <<>> /\ h \in Nodes
  BY <1>1, <1>2 DEF QueueInv, KeaNodes
<1>4. Nodes' = Nodes /\ \A n, f : Only(n, f)' = Only(n, f)
  BY <1>2 DEF Nodes, Only
<1>5. \A n, f, s : Answered(n, f, s)' = Answered(n, f, s)
  BY <1>2 DEF Answered, Record
<1>6. ASSUME NEW n \in ToSet(queue), n # h PROVE n \in ToSet(Tail(queue))
  <2>1. PICK i \in 1 .. Len(queue) : queue[i] = n
    BY <1>3, InToSet
  <2>2. queue[1] = h /\ i # 1
    BY <1>1, <1>3, <1>6, <2>1
  <2>3. Tail(queue) \in Seq(KeaNodes) /\ i - 1 \in 1 .. Len(Tail(queue)) /\ Tail(queue)[i - 1] = n
    BY <1>3, <2>1, <2>2
  <2> QED BY <2>3, InToSet
<1>7. ASSUME NEW n \in Nodes, NEW f \in Families, NEW s \in Only(n, f), s.source # None,
             Awaited(n, <<s.on, f>>) \/ Answered(n, f, s)
      PROVE  Awaited(n, <<s.on, f>>)' \/ Answered(n, f, s)
  <2>1. CASE n = h /\ current = <<s.on, f>>
    <3>1. PortHeld(n, f)
      BY <1>1, <2>1
    <3> QED BY <1>1, <1>2, <1>7, <2>1, <3>1, OwnDaemon
  <2>2. CASE n # h /\ Awaited(n, <<s.on, f>>)
    <3>1. n \in ToSet(queue)
      BY <2>2 DEF Awaited
    <3> QED BY <1>1, <1>2, <1>6, <2>2, <3>1 DEF Awaited
  <2>3. CASE n = h /\ current # <<s.on, f>> /\ Awaited(n, <<s.on, f>>)
    <3>1. n \in ToSet(queue) /\ <<s.on, f>> \in left
      BY <1>1, <1>3, <2>3 DEF Awaited
    <3> QED BY <1>2, <2>3, <3>1 DEF Awaited
  <2> QED BY <1>7, <2>1, <2>2, <2>3
<1>8. \A x \in left' : x = <<x[1], x[2]>>
  BY <1>2 DEF ServedInv
<1> QED BY <1>2, <1>4, <1>5, <1>7, <1>8 DEF ServedInv, Going

LEMMA ServedScript ==
  ASSUME Phases, FileInv, QueueInv, ServedInv, KeaInv, RunScript
  PROVE  ServedInv'
<1>1. CASE StopKea
  BY <1>1, ServedStays DEF StopKea, Going
<1>2. CASE LaunchKea
  BY <1>2, ServedLaunch
<1>3. CASE KeaAlive
  BY <1>3, ServedStays DEF KeaAlive, Going, keaLoop, keaWorld
<1>4. CASE KeaProbed
  <2>1. CASE PortHeld(Head(queue), current[2])
    BY <1>4, <2>1, ServedProbed
  <2>2. CASE ~PortHeld(Head(queue), current[2])
    BY <1>4, <2>2, ServedStays DEF KeaProbed, SocketHeld, Going, keaWorld
  <2> QED BY <2>1, <2>2
<1> QED BY <1>1, <1>2, <1>3, <1>4 DEF RunScript

\* What a daemon does can only serve.
LEMMA ServedMoves == ASSUME ServedInv, KeaDaemons PROVE ServedInv'
<1>1. UNCHANGED <<lab, stage, queue, left, lone>> /\ served \subseteq served'
  BY DEF KeaDaemons, OpensKea, EndsKea, keaLoop
<1>2. Nodes' = Nodes /\ \A n, f : Only(n, f)' = Only(n, f)
  BY <1>1 DEF Nodes, Only
<1>3. \A n, f, s : Answered(n, f, s) => Answered(n, f, s)'
  BY <1>1 DEF Answered, Record
<1>4. \A n, k : Awaited(n, k)' = Awaited(n, k)
  BY <1>1 DEF Awaited
<1> QED BY <1>1, <1>2, <1>3, <1>4 DEF ServedInv

LEMMA ServedStep ==
  ASSUME BootInv, ServedInv, KeaInv, [ServiceNext]_<<vars, serviceVars>> PROVE ServedInv'
<1>0. Phases /\ FileInv /\ QueueInv
  BY DEF BootInv
<1>1. ASSUME NEW n \in Nodes, Run(n) PROVE ServedInv'
  <2>1. stage = "boot" /\ stage' = "boot" /\ left' = left
    BY <1>0, <1>1, RunsNext DEF keaLoop
  <2> QED BY <2>1 DEF ServedInv, Going
<1>2. ASSUME NEW n \in Nodes, Fail(n) PROVE ServedInv'
  BY <1>2 DEF Fail, keaLoop, ServedInv, Going
<1>3. CASE StartLoops
  BY <1>3 DEF StartLoops, ServedInv, Going
<1>4. CASE DnsLoop
  <2>1. stage' \in {"missing", "failed", "dns"} /\ left' = left
    BY <1>4 DEF DnsLoop, keaLoop
  <2> QED BY <2>1 DEF ServedInv, Going
<1>5. CASE Daemons
  BY <1>5, ServedStays DEF Daemons, serviceVars, keaLoop, keaWorld
<1>6. CASE StartKea
  BY <1>0, <1>6, ServedKea
<1>7. CASE FindScripts
  BY <1>0, <1>7, ServedFind
<1>8. CASE RunScript
  BY <1>0, <1>8, ServedScript
<1>9. CASE ScriptFails
  BY <1>9 DEF ScriptFails, keaLoop, ServedInv, Going
<1>10. CASE Finish
  <2>1. /\ stage = "kea" /\ stage' = "ready" /\ queue = <<>> /\ queue' = queue /\ left' = left
        /\ lab' = lab /\ lone' = lone /\ served' = served
    BY <1>10 DEF Finish, keaLoop, keaWorld
  <2>2. Nodes' = Nodes /\ \A n, f : Only(n, f)' = Only(n, f)
    BY <2>1 DEF Nodes, Only
  <2>3. \A n, f, s : Answered(n, f, s)' = Answered(n, f, s)
    BY <2>1 DEF Answered, Record
  <2>4. \A n, k : Awaited(n, k)' = Awaited(n, k)
    BY <2>1 DEF Awaited
  <2> QED BY <2>1, <2>2, <2>3, <2>4 DEF ServedInv, Going
<1>11. CASE KeaDaemons
  BY <1>11, ServedMoves
<1>12. CASE UNCHANGED <<vars, serviceVars>>
  BY <1>12, ServedStays DEF serviceVars, keaLoop, keaWorld
<1> QED BY <1>1, <1>2, <1>3, <1>4, <1>5, <1>6, <1>7, <1>8, <1>9, <1>10, <1>11, <1>12
      DEF ServiceNext, ServiceStep

LEMMA ServedScopes ==
  ASSUME ServedInv, stage = "ready", NEW n \in Nodes
  PROVE  ScopesServed(n)
<1>1. ToSet(<<>>) = {}
  BY DEF ToSet
<1> QED BY <1>1 DEF ServedInv, Going, Awaited, Answered, ScopesServed, Record

(***************************************************************************)
(* What a resolver includes                                                *)
(***************************************************************************)

\* A daemon that has got its sockets has read what it includes; and so has the one
\* that was started alone, when the loop goes on.
NamesThere(n) == Included(lab[n]) \subseteq DOMAIN include[n]
NamesInv ==
    /\ \A n \in Resolvers : \A r \in Runs : daemon[n][r] \in Holding => NamesThere(n)
    /\ pc # "idle" => \A i \in 1 .. Len(loop) : Done(i) => NamesThere(loop[i])

\* No step of the loop gives a daemon its sockets.
LEMMA SocketsKept ==
  ASSUME LoopInv, Script, NEW n \in Resolvers, NEW r \in Runs, daemon'[n][r] \in Holding
  PROVE  daemon[n][r] \in Holding
<1>0. daemon \in [Resolvers -> [Runs -> Live \cup {"none", "gone"}]]
  BY DEF LoopInv, TypeOK
<1>1. CASE StopOld \/ StartDaemon \/ GiveUp
  <2>1. PICK k, v : /\ daemon' = daemon \/ daemon' = [daemon EXCEPT ![Resolver][k] = v]
                    /\ v \in {"starting", Told(daemon[Resolver][k])}
    BY <1>1 DEF StopOld, StartDaemon, GiveUp
  <2>2. CASE daemon' = daemon
    BY <2>2
  <2>3. CASE daemon' = [daemon EXCEPT ![Resolver][k] = v]
    <3>1. daemon'[n][r] = daemon[n][r] \/ (n = Resolver /\ r = k /\ daemon'[n][r] = v)
      BY <1>0, <2>3
    <3>2. v \in Holding => daemon[Resolver][k] \in Holding
      BY <2>1 DEF Told, Holding
    <3> QED BY <3>1, <3>2
  <2> QED BY <2>1, <2>2, <2>3
<1>2. CASE AddressesThere \/ WaitForAddresses \/ DaemonAlive \/ DaemonGone \/ SocketsOpen \/ SocketsClosed
  BY <1>2 DEF AddressesThere, WaitForAddresses, DaemonAlive, DaemonGone, SocketsOpen,
              SocketsClosed, WaitFor, worldVars
<1> QED BY <1>1, <1>2 DEF Script

LEMMA NamesGrow ==
  ASSUME FileInv, NEW n \in Nodes, NEW c, RunsThis(n, c), NEW m \in Nodes, NamesThere(m), lab' = lab
  PROVE  NamesThere(m)'
<1>1. DOMAIN include[m] \subseteq DOMAIN include'[m]
  <2>1. CASE m = n
    BY <2>1, RunsConfig
  <2>2. CASE m # n
    BY <2>2, RunsHere
  <2> QED BY <2>1, <2>2
<1> QED BY <1>1 DEF NamesThere

LEMMA NamesStart == ServiceInit => NamesInv
<1> SUFFICES ASSUME ServiceInit PROVE NamesInv
  OBVIOUS
<1>1. pc = "idle" /\ \A n \in Resolvers : \A r \in Runs : daemon[n][r] = "none"
  BY DEF ServiceInit, LoopInit
<1> QED BY <1>1 DEF NamesInv, Holding

LEMMA NamesStay ==
  ASSUME NamesInv, UNCHANGED <<vars, lab, include>>
  PROVE  NamesInv'
<1>1. /\ Resolvers' = Resolvers /\ (\A n : NamesThere(n)' = NamesThere(n))
      /\ loop' = loop /\ pc' = pc /\ daemon' = daemon /\ \A i : Done(i)' = Done(i)
  BY DEF vars, Resolvers, NamesThere, Done
<1> QED BY <1>1 DEF NamesInv

LEMMA NamesRun ==
  ASSUME Phases, FileInv, NamesInv, NEW n \in Nodes, Run(n)
  PROVE  NamesInv'
<1>1. lab' = lab /\ UNCHANGED vars /\ \E c : RunsThis(n, c)
  BY RunsNext DEF RunsThis
<1>2. \A m \in Nodes : NamesThere(m) => NamesThere(m)'
  BY <1>1, NamesGrow
<1>3. /\ Resolvers' = Resolvers /\ Resolvers \subseteq Nodes
      /\ loop' = loop /\ pc' = pc /\ daemon' = daemon /\ \A i : Done(i)' = Done(i)
  BY <1>1 DEF vars, Resolvers, Done, Phases
<1>4. \A i \in 1 .. Len(loop) : pc # "idle" /\ Done(i) => loop[i] \in Nodes
  BY <1>1, RunsNext DEF Phases
<1> QED BY <1>2, <1>3, <1>4 DEF NamesInv

LEMMA NamesScript ==
  ASSUME LoopInv, NamesInv, Script, UNCHANGED <<lab, include>>, pc \notin {"idle", "ready"}
  PROVE  NamesInv'
<1>1. loop' = loop /\ Resolvers' = Resolvers /\ \A n : NamesThere(n)' = NamesThere(n)
  BY DEF Script, StopOld, AddressesThere, WaitForAddresses, StartDaemon, DaemonAlive,
         DaemonGone, SocketsOpen, SocketsClosed, GiveUp, WaitFor, Goto, Resolvers, NamesThere
<1>2. \A n \in Resolvers : \A r \in Runs : daemon'[n][r] \in Holding => NamesThere(n)
  BY SocketsKept DEF NamesInv
<1>3. /\ pos \in 1 .. Len(loop) /\ Len(loop) \in Nat /\ Resolver \in Resolvers
      /\ \A i \in 1 .. Len(loop) : i < pos => NamesThere(loop[i])
  BY AtResolver DEF NamesInv, Done
<1>4. CASE SocketsOpen
  <2>1. NamesThere(Resolver)
    BY <1>3, <1>4 DEF SocketsOpen, SocketsSeen, NamesInv
  <2>2. \A i \in 1 .. Len(loop) : i <= pos => NamesThere(loop[i])
    BY <1>3, <2>1 DEF Resolver
  <2>3. \A i \in 1 .. Len(loop) : Done(i)' => i <= pos
    BY <1>3, <1>4 DEF SocketsOpen, Done
  <2> QED BY <1>1, <1>2, <2>2, <2>3 DEF NamesInv
<1>5. CASE ~SocketsOpen
  <2>1. pos' = pos /\ pc' # "ready"
    BY <1>5 DEF Script, StopOld, AddressesThere, WaitForAddresses, StartDaemon, DaemonAlive,
         DaemonGone, SocketsClosed, GiveUp, WaitFor, Goto
  <2> QED BY <1>1, <1>2, <1>3, <2>1 DEF NamesInv, Done
<1> QED BY <1>4, <1>5

LEMMA NamesDaemons ==
  ASSUME LoopInv, NamesInv, Daemons
  PROVE  NamesInv'
<1>1. /\ loop' = loop /\ pc' = pc /\ pos' = pos /\ Resolvers' = Resolvers
      /\ lab' = lab /\ include' = include
      /\ \A n : NamesThere(n)' = NamesThere(n)
  BY DEF Daemons, World, AddressesCome, Binds, Serves, Stops, Dies, Becomes, Resolvers,
         serviceVars, files, NamesThere
<1>2. ASSUME NEW n \in Resolvers, NEW r \in Runs, daemon'[n][r] \in Holding
      PROVE  daemon[n][r] \in Holding \/ daemon'[n][r] = "bound"
  <2>1. daemon \in [Resolvers -> [Runs -> Live \cup {"none", "gone"}]]
    BY DEF LoopInv, TypeOK
  <2>2. daemon' = daemon
        \/ \E m \in Resolvers, k \in Runs : \E v \in {"bound", "serving", "gone"} :
               /\ daemon' = [daemon EXCEPT ![m][k] = v]
               /\ v = "serving" => daemon[m][k] = "bound"
    BY DEF Daemons, World, AddressesCome, Binds, Serves, Stops, Dies, Becomes
  <2> QED BY <1>2, <2>1, <2>2 DEF Holding
<1>3. \A n \in Resolvers : \A r \in Runs : daemon'[n][r] = "bound" => NamesThere(n)
  BY DEF Daemons, NamesThere
<1>4. \A n \in Resolvers : \A r \in Runs : daemon'[n][r] \in Holding => NamesThere(n)
  BY <1>2, <1>3 DEF NamesInv
<1> QED BY <1>1, <1>4 DEF NamesInv, Done

LEMMA NamesStep == BootInv /\ NamesInv /\ [ServiceNext]_<<vars, serviceVars>> => NamesInv'
<1> SUFFICES ASSUME BootInv, NamesInv, [ServiceNext]_<<vars, serviceVars>> PROVE NamesInv'
  OBVIOUS
<1>0. LoopInv /\ Phases /\ FileInv
  BY DEF BootInv
<1>1. ASSUME NEW n \in Nodes, Run(n) PROVE NamesInv'
  BY <1>0, <1>1, NamesRun
<1>2. ASSUME NEW n \in Nodes, Fail(n) PROVE NamesInv'
  BY <1>2, NamesStay DEF Fail, files
<1>3. CASE StartLoops
  <2>1. /\ loop' = loop /\ daemon' = daemon /\ lab' = lab /\ include' = include
        /\ IF loop = <<>> THEN pc' = "ready" ELSE pc' = "stop" /\ pos' = 1
    BY <1>3 DEF StartLoops, Reconcile, worldVars, files
  <2>2. Resolvers' = Resolvers /\ \A n : NamesThere(n)' = NamesThere(n)
    BY <2>1 DEF Resolvers, NamesThere
  <2>3. loop = <<>> => Len(loop) = 0
    OBVIOUS
  <2>4. \A i \in 1 .. Len(loop) : ~Done(i)'
    BY <2>1, <2>3 DEF Done
  <2> QED BY <2>1, <2>2, <2>4 DEF NamesInv
<1>4. CASE DnsLoop
  <2>1. CASE UNCHANGED vars
    BY <1>4, <2>1, NamesStay DEF DnsLoop, files
  <2>2. CASE Script
    <3>1. pc \notin {"idle", "ready"}
      BY <2>2 DEF Script, StopOld, AddressesThere, WaitForAddresses, StartDaemon, DaemonAlive,
                  DaemonGone, SocketsOpen, SocketsClosed, GiveUp
    <3> QED BY <1>0, <1>4, <2>2, <3>1, NamesScript DEF DnsLoop, files
  <2> QED BY <1>4, <2>1, <2>2 DEF DnsLoop
<1>5. CASE Daemons
  BY <1>0, <1>5, NamesDaemons
<1>6. CASE ServiceStep
  BY <1>6, NamesStay DEF ServiceStep, StartKea, FindScripts, RunScript, StopKea, LaunchKea, KeaAlive,
              KeaProbed, ScriptFails, Finish, KeaDaemons, files
<1>7. CASE UNCHANGED <<vars, serviceVars>>
  BY <1>7, NamesStay DEF serviceVars, files
<1> QED BY <1>1, <1>2, <1>3, <1>4, <1>5, <1>6, <1>7 DEF ServiceNext

LEMMA ServedNames ==
  ASSUME BootInv, ServedInv, NamesInv, stage = "ready", NEW n \in Nodes
  PROVE  NamesServed(n)
<1> SUFFICES ASSUME n \in Resolvers, NEW stem \in Included(lab[n])
             PROVE  /\ stem \in DOMAIN include[n]
                    /\ \A s \in Only(n, include[n][stem].family) :
                           <<n, s.on, include[n][stem].family>> \in lone =>
                               [node |-> n, on |-> s.on, family |-> include[n][stem].family,
                                scope |-> include[n][stem].scope] \in served
  BY DEF NamesServed
<1>0. Phases /\ LoopInv /\ FileInv /\ pc = "ready"
  BY DEF BootInv, Phases, Going
<1>1. stem \in DOMAIN include[n]
  <2>1. loop \in Seq(Resolvers)
    BY <1>0 DEF LoopInv, Places
  <2>2. PICK i \in 1 .. Len(loop) : loop[i] = n
    BY <2>1, InToSet DEF Resolvers
  <2> QED BY <1>0, <2>2 DEF NamesInv, Done, NamesThere
<1>2. PICK c \in KeaDone(n) : include[n][stem] = [scope |-> c.scope, family |-> c.family]
  BY <1>0, <1>1 DEF FileInv, Executed
<1>3. PICK f : f = include[n][stem].family
  OBVIOUS
<1>4. c.family = f /\ include[n][stem].scope = c.scope
  BY <1>2, <1>3
<1>5. ASSUME NEW s \in Only(n, f), <<n, s.on, f>> \in lone
      PROVE  [node |-> n, on |-> s.on, family |-> f, scope |-> c.scope] \in served
  <2>1. f \in Families
    <3>1. NodeShape(lab[n]) /\ c \in ToSet(ServiceCommands(lab[n])) /\ c.kind = "kea"
      BY <1>0, BehindIs, ShapesAre DEF KeaDone, Commands, Phases
    <3>2. \E g \in Families : \E t \in ToSet(Dhcp(lab[n], g)) :
              Present(lab[n], t) /\ t.source # None /\ c = DhcpCommand(t, g)
      BY <3>1, KindsAre
    <3> QED BY <1>4, <3>2 DEF DhcpCommand
  <2>2. c.scope = s.id /\ s.source # None
    BY <1>0, <1>4, <1>5, <2>1, OnlyCommand
  <2>3. Answered(n, f, s)
    <3>1. ToSet(<<>>) = {}
      BY DEF ToSet
    <3> QED BY <1>5, <2>1, <2>2, <3>1 DEF ServedInv, Going, Awaited
  <2> QED BY <1>5, <2>2, <2>3 DEF Answered, Record
<1> QED BY <1>1, <1>3, <1>4, <1>5

(***************************************************************************)
(* Parts of prefixes                                                       *)
(***************************************************************************)

LEMMA TwoToIs ==
  /\ TwoTo \in [0 .. Width -> Nat]
  /\ TwoTo[0] = 1
  /\ \A i \in 1 .. Width : TwoTo[i] = 2 * TwoTo[i - 1]
<1> DEFINE Powers(g) == g = [i \in 0 .. Width |-> IF i = 0 THEN 1 ELSE 2 * g[i - 1]]
<1>1. TwoTo = CHOOSE g : Powers(g)
  BY DEF TwoTo
<1>2. PICK f \in [0 .. Width -> Nat] :
          f[0] = 1 /\ \A i \in 1 .. Width : f[i] = 2 * f[i - 1]
  <2>1. PICK step : step = [i \in 1 .. Width |-> [r \in Nat |-> 2 * r]]
    OBVIOUS
  <2>2. step \in [1 .. Width -> [Nat -> Nat]] /\ \A i \in 1 .. Width, r \in Nat : step[i][r] = 2 * r
    BY <2>1
  <2>3. PICK V, base, n : V = Nat /\ base = 1 /\ n = Width
    OBVIOUS
  <2>4. n \in Nat /\ base \in V /\ step \in [1 .. n -> [V -> V]]
    BY <2>2, <2>3, WidthAssumption
  <2>5. \E f \in [0 .. n -> V] : f[0] = base /\ \A i \in 1 .. n : f[i] = step[i][f[i - 1]]
    BY ONLY <2>4, Recursion, SMTT(30)
  <2>6. PICK f \in [0 .. Width -> Nat] : f[0] = 1 /\ \A i \in 1 .. Width : f[i] = step[i][f[i - 1]]
    BY <2>3, <2>5
  <2>7. \A i \in 1 .. Width : i - 1 \in 0 .. Width
    BY WidthAssumption
  <2>8. \A i \in 1 .. Width : f[i] = 2 * f[i - 1]
    BY <2>2, <2>6, <2>7
  <2> QED BY <2>6, <2>8
<1>3. Powers(f)
  <2>1. \A i \in 0 .. Width : f[i] = IF i = 0 THEN 1 ELSE 2 * f[i - 1]
    BY <1>2, WidthAssumption
  <2>2. f = [i \in 0 .. Width |-> f[i]]
    OBVIOUS
  <2> QED BY <2>1, <2>2
<1>4. Powers(TwoTo)
  <2> HIDE DEF Powers
  <2> QED BY <1>1, <1>3
<1>5. TwoTo = [i \in 0 .. Width |-> TwoTo[i]]
  BY <1>4
<1>6. TwoTo[0] = 1 /\ \A i \in 1 .. Width : TwoTo[i] = 2 * TwoTo[i - 1]
  <2>1. \A i \in 0 .. Width : TwoTo[i] = IF i = 0 THEN 1 ELSE 2 * TwoTo[i - 1]
    BY <1>4
  <2>2. 0 \in 0 .. Width /\ \A i \in 1 .. Width : i \in 0 .. Width /\ i # 0
    BY WidthAssumption
  <2> QED BY <2>1, <2>2
<1>7. \A i \in 0 .. Width : TwoTo[i] \in Nat
  <2> DEFINE S == {i \in 0 .. Width : TwoTo[i] \in Nat}
  <2>1. 0 \in S
    BY <1>6, WidthAssumption
  <2>2. ASSUME NEW i \in 1 .. Width, i - 1 \in S PROVE i \in S
    BY <1>6, <2>2
  <2> HIDE DEF S
  <2>3. \A i \in 0 .. Width : i \in S
    BY <2>1, <2>2, Induction, WidthAssumption
  <2> QED BY <2>3 DEF S
<1> QED BY <1>5, <1>6, <1>7

LEMMA TwoToIsSomething == \A i \in 0 .. Width : TwoTo[i] \in Nat /\ TwoTo[i] >= 1
<1> DEFINE S == {i \in 0 .. Width : TwoTo[i] \in Nat /\ TwoTo[i] >= 1}
<1>1. 0 \in S
  BY TwoToIs, WidthAssumption
<1>2. ASSUME NEW i \in 1 .. Width, i - 1 \in S PROVE i \in S
  BY TwoToIs, <1>2
<1> HIDE DEF S
<1>3. \A i \in 0 .. Width : i \in S
  BY <1>1, <1>2, Induction, WidthAssumption
<1> QED BY <1>3 DEF S

\* A prefix has as many addresses as its parts have together.
LEMMA TwoToSum ==
  ASSUME NEW a \in Nat, NEW b \in Nat, a + b <= Width
  PROVE  TwoTo[a + b] = TwoTo[a] * TwoTo[b]
<1> DEFINE S == {i \in 0 .. a : TwoTo[i + b] = TwoTo[i] * TwoTo[b]}
<1>1. 0 \in S
  BY TwoToIs, TwoToIsSomething, WidthAssumption
<1>2. ASSUME NEW i \in 1 .. a, i - 1 \in S PROVE i \in S
  <2>1. /\ i \in 1 .. Width /\ i + b \in 1 .. Width /\ b \in 0 .. Width /\ i - 1 \in 0 .. Width
        /\ (i + b) - 1 = (i - 1) + b /\ i \in 0 .. a
    BY WidthAssumption
  <2>2. TwoTo[i] = 2 * TwoTo[i - 1] /\ TwoTo[i + b] = 2 * TwoTo[(i - 1) + b]
    BY TwoToIs, <2>1
  <2>3. TwoTo[(i - 1) + b] = TwoTo[i - 1] * TwoTo[b]
    BY <1>2
  <2>4. PICK x \in Nat, y \in Nat : x = TwoTo[i - 1] /\ y = TwoTo[b]
    BY <2>1, TwoToIsSomething
  <2>5. 2 * (x * y) = (2 * x) * y
    OBVIOUS
  <2> QED BY <2>1, <2>2, <2>3, <2>4, <2>5
<1> HIDE DEF S
<1>3. \A i \in 0 .. a : i \in S
  BY <1>1, <1>2, Induction
<1> QED BY <1>3 DEF S

\* Slots of one size do not overlap.
LEMMA SlotsApart ==
  ASSUME NEW x \in Nat, NEW y \in Nat, NEW size \in Nat, x < y
  PROVE  x * size + size <= y * size
<1>1. PICK d \in Nat : y = x + 1 + d
  <2>1. y - x - 1 \in Nat /\ y = x + 1 + (y - x - 1)
    OBVIOUS
  <2> QED BY <2>1
<1>2. d * size \in Nat /\ x * size \in Nat
  OBVIOUS
<1>3. (x + 1 + d) * size = x * size + size + d * size
  OBVIOUS
<1> QED BY <1>1, <1>2, <1>3

LEMMA PartIs ==
  ASSUME NEW parent, parent.first \in Nat, parent.len \in Nat,
         NEW r, r.tenant \in Nat, Derivable(parent, r),
         NEW size, size = TwoTo[Width - r.tenant]
  PROVE  /\ r.slot \in Nat /\ size \in Nat /\ size >= 1
         /\ Derived(parent, r) = [first |-> parent.first + r.slot * size, len |-> r.tenant]
         /\ AddressesOf(Derived(parent, r)) =
                (parent.first + r.slot * size) .. (parent.first + r.slot * size + size - 1)
         /\ r.slot * size \in Nat
         /\ r.slot * size + size <= TwoTo[Width - parent.len]
         /\ AddressesOf(parent) = parent.first .. parent.first + TwoTo[Width - parent.len] - 1
         /\ TwoTo[Width - parent.len] \in Nat
<1>1. PICK a, b : a = r.tenant - parent.len /\ b = Width - r.tenant
  OBVIOUS
<1>2. /\ a \in Nat /\ b \in Nat /\ a + b = Width - parent.len /\ a + b <= Width
      /\ a \in 0 .. Width /\ b \in 0 .. Width /\ a + b \in 0 .. Width
  BY <1>1, WidthAssumption DEF Derivable
<1>3. PICK m : m = TwoTo[a]
  OBVIOUS
<1>4. m \in Nat /\ size \in Nat /\ size >= 1 /\ TwoTo[a + b] = m * size /\ TwoTo[a + b] \in Nat
  BY <1>1, <1>2, <1>3, TwoToIsSomething, TwoToSum
<1>5. r.slot \in Nat /\ r.slot < m
  BY <1>1, <1>3, <1>4 DEF Derivable
<1>6. r.slot * size + size <= m * size /\ r.slot * size \in Nat
  <2>1. PICK i \in Nat : i = r.slot
    BY <1>5
  <2>2. i * size + size <= m * size
    BY <1>4, <1>5, <2>1, SlotsApart
  <2>3. i * size \in Nat
    BY <1>4
  <2> QED BY <2>1, <2>2, <2>3
<1>7. Derived(parent, r) = [first |-> parent.first + r.slot * size, len |-> r.tenant]
  BY DEF Derived
<1>8. AddressesOf(Derived(parent, r)) =
          (parent.first + r.slot * size) .. (parent.first + r.slot * size + size - 1)
  BY <1>7 DEF AddressesOf
<1> QED BY <1>2, <1>4, <1>5, <1>6, <1>7, <1>8 DEF AddressesOf

LEMMA PartsApart ==
  ASSUME NEW parent, parent.first \in Nat, parent.len \in Nat,
         NEW q, q.tenant \in Nat, Derivable(parent, q),
         NEW r, r.tenant \in Nat, Derivable(parent, r),
         q.tenant = r.tenant, q.slot # r.slot
  PROVE  Apart(Derived(parent, q), Derived(parent, r))
<1>1. PICK size : size = TwoTo[Width - r.tenant]
  OBVIOUS
<1>2. PICK i, j, f : i = q.slot /\ j = r.slot /\ f = parent.first
  OBVIOUS
<1>3. /\ i \in Nat /\ j \in Nat /\ i # j /\ size \in Nat /\ f \in Nat
      /\ AddressesOf(Derived(parent, q)) = (f + i * size) .. (f + i * size + size - 1)
      /\ AddressesOf(Derived(parent, r)) = (f + j * size) .. (f + j * size + size - 1)
      /\ i * size \in Nat /\ j * size \in Nat
  <2>1. size = TwoTo[Width - q.tenant]
    BY <1>1
  <2>2. /\ q.slot \in Nat /\ size \in Nat /\ q.slot * size \in Nat
        /\ AddressesOf(Derived(parent, q)) =
               (parent.first + q.slot * size) .. (parent.first + q.slot * size + size - 1)
    BY <2>1, PartIs, SMTT(60)
  <2>3. /\ r.slot \in Nat /\ r.slot * size \in Nat
        /\ AddressesOf(Derived(parent, r)) =
               (parent.first + r.slot * size) .. (parent.first + r.slot * size + size - 1)
    BY <1>1, PartIs, SMTT(60)
  <2> QED BY <1>2, <2>2, <2>3
<1>4. CASE i < j
  <2>1. i * size + size <= j * size
    BY <1>3, <1>4, SlotsApart
  <2> QED BY <1>3, <2>1 DEF Apart
<1>5. CASE j < i
  <2>1. j * size + size <= i * size
    BY <1>3, <1>5, SlotsApart
  <2> QED BY <1>3, <2>1 DEF Apart
<1> QED BY <1>3, <1>4, <1>5

LEMMA PartInside ==
  ASSUME NEW parent, parent.first \in Nat, parent.len \in Nat,
         NEW r, r.tenant \in Nat, Derivable(parent, r)
  PROVE  /\ AddressesOf(Derived(parent, r)) \subseteq AddressesOf(parent)
         /\ Derived(parent, r).first \in AddressesOf(Derived(parent, r))
<1>1. PICK size : size = TwoTo[Width - r.tenant]
  OBVIOUS
<1>2. PICK i, f, all : i = r.slot * size /\ f = parent.first /\ all = TwoTo[Width - parent.len]
  OBVIOUS
<1>3. /\ i \in Nat /\ f \in Nat /\ size \in Nat /\ size >= 1 /\ all \in Nat /\ i + size <= all
      /\ AddressesOf(Derived(parent, r)) = (f + i) .. (f + i + size - 1)
      /\ AddressesOf(parent) = f .. f + all - 1
      /\ Derived(parent, r) = [first |-> f + i, len |-> r.tenant]
  BY <1>1, <1>2, PartIs
<1>4. Derived(parent, r).first = f + i
  BY <1>3
<1> QED BY <1>3, <1>4

\* The addresses of interfaces.
LEMMA AddressInside ==
  ASSUME NEW parent, parent.first \in Nat, parent.len \in Nat,
         NEW a, a.tenant \in Nat, a.identifier \in Nat, AddressDerivable(parent, a)
  PROVE  DerivedAddress(parent, a) \in AddressesOf(parent)
<1>1. PICK size : size = TwoTo[Width - a.tenant]
  OBVIOUS
<1>2. PICK i, f, all, id : /\ i = a.slot * size /\ f = parent.first /\ all = TwoTo[Width - parent.len]
                           /\ id = a.identifier
  OBVIOUS
<1>3. /\ i \in Nat /\ f \in Nat /\ size \in Nat /\ all \in Nat /\ i + size <= all
      /\ AddressesOf(parent) = f .. f + all - 1
      /\ Derived(parent, a) = [first |-> f + i, len |-> a.tenant]
  BY <1>1, <1>2, PartIs DEF AddressDerivable
<1>4. Width - a.tenant = a.tenant
  BY WidthAssumption DEF AddressDerivable
<1>5. id \in Nat /\ id < size
  BY <1>1, <1>2, <1>4 DEF AddressDerivable
<1>6. DerivedAddress(parent, a) = (f + i) + id
  BY <1>2, <1>3 DEF DerivedAddress
<1> QED BY <1>3, <1>5, <1>6

LEMMA AddressesDiffer ==
  ASSUME NEW parent, parent.first \in Nat, parent.len \in Nat,
         NEW a, a.tenant \in Nat, a.identifier \in Nat, AddressDerivable(parent, a),
         NEW b, b.tenant \in Nat, b.identifier \in Nat, AddressDerivable(parent, b),
         a.tenant = b.tenant, DerivedAddress(parent, a) = DerivedAddress(parent, b)
  PROVE  a.slot = b.slot /\ a.identifier = b.identifier /\ a.delegated = b.delegated
<1>1. PICK size : size = TwoTo[Width - a.tenant]
  OBVIOUS
<1>2. PICK i, j, f, x, y : /\ i = a.slot /\ j = b.slot /\ f = parent.first
                           /\ x = a.identifier /\ y = b.identifier
  OBVIOUS
<1>3. /\ i \in Nat /\ j \in Nat /\ f \in Nat /\ size \in Nat
      /\ Derived(parent, a) = [first |-> f + i * size, len |-> a.tenant]
      /\ Derived(parent, b) = [first |-> f + j * size, len |-> b.tenant]
      /\ i * size \in Nat /\ j * size \in Nat
  BY <1>1, <1>2, PartIs DEF AddressDerivable
<1>4. Width - a.tenant = a.tenant
  BY WidthAssumption DEF AddressDerivable
<1>5. x \in Nat /\ y \in Nat /\ x < size /\ y < size
  BY <1>1, <1>2, <1>4 DEF AddressDerivable
<1>6. DerivedAddress(parent, a) = (f + i * size) + x /\ DerivedAddress(parent, b) = (f + j * size) + y
  BY <1>2, <1>3 DEF DerivedAddress
<1>7. i * size + x = j * size + y
  <2>1. PICK u \in Nat, v \in Nat : u = i * size /\ v = j * size
    BY <1>3
  <2>2. (f + u) + x = (f + v) + y
    BY <1>6, <2>1
  <2>3. u + x = v + y
    BY <1>3, <1>5, <2>2
  <2> QED BY <2>1, <2>3
<1>8. ~(i < j)
  <2>1. i < j => i * size + size <= j * size
    BY <1>3, SlotsApart
  <2> QED BY <1>3, <1>5, <1>7, <2>1
<1>9. ~(j < i)
  <2>1. j < i => j * size + size <= i * size
    BY <1>3, SlotsApart
  <2> QED BY <1>3, <1>5, <1>7, <2>1
<1>10. i = j
  BY <1>3, <1>8, <1>9
<1>11. x = y
  BY <1>3, <1>5, <1>7, <1>10
<1> QED BY <1>2, <1>10, <1>11 DEF AddressDerivable, Derivable

\* What the routes of a node, and its addresses, are derived from.
LEMMA SourcesAre ==
  ASSUME Phases, NEW n \in Nodes
  PROVE  /\ \A r \in RouteNodes(lab[n]) :
                /\ Contents[r.source].first \in Nat /\ Contents[r.source].len \in Nat
                /\ r.tenant \in Nat
         /\ \A a \in ToSet(lab[n].addresses) :
                /\ Contents[a.source].first \in Nat /\ Contents[a.source].len \in Nat
                /\ a.tenant \in Nat /\ a.identifier \in Nat
<1>1. NodeShape(lab[n])
  BY ShapesAre DEF Phases
<1>2. \A r \in ToSet(lab[n].routes) \cup ToSet(lab[n].addresses) : r.source \in DOMAIN Contents
  BY ServiceLabsAssumption DEF Phases, Nodes
<1> QED BY <1>1, <1>2, ContentsAssumption DEF NodeShape, RouteNodes

\* When a node has booted, it has accepted them all.
LEMMA SourcesAccepted ==
  ASSUME Phases, FileInv, Booted, NEW n \in Nodes
  PROVE  /\ \A r \in RouteNodes(lab[n]) :
                RouteOf(r) \in Behind(n) /\ Derivable(Contents[r.source], r)
         /\ \A a \in ToSet(lab[n].addresses) : AddressDerivable(Contents[a.source], a)
<1>1. NodeShape(lab[n])
  BY ShapesAre DEF Phases
<1>2. \A c \in ToSet(ServiceCommands(lab[n])) : c \in Behind(n) /\ Accepted(c)
  BY BootedIs DEF Commands, FileInv, Executed
<1>3. ASSUME NEW r \in RouteNodes(lab[n])
      PROVE  RouteOf(r) \in Behind(n) /\ Derivable(Contents[r.source], r)
  <2>1. RouteOf(r) \in ToSet(ServiceCommands(lab[n]))
    BY <1>1, CommandsAre DEF RouteNodes
  <2>2. RouteOf(r).kind = "route" /\ RouteOf(r).source = r.source /\ RouteOf(r).route = r
    BY DEF RouteOf
  <2> QED BY <1>2, <2>1, <2>2 DEF Accepted
<1>4. ASSUME NEW a \in ToSet(lab[n].addresses) PROVE AddressDerivable(Contents[a.source], a)
  <2>1. AddressOf(a) \in ToSet(ServiceCommands(lab[n]))
    BY <1>1, CommandsAre
  <2>2. AddressOf(a).kind = "address" /\ AddressOf(a).source = a.source /\ AddressOf(a).address = a
    BY DEF AddressOf
  <2> QED BY <1>2, <2>1, <2>2 DEF Accepted
<1> QED BY <1>3, <1>4

\* Routes to different parts of a prefix have different destinations.
LEMMA PrefixesDiffer ==
  ASSUME NEW p, p.first \in Nat, p.len \in Nat, NEW p2, p2.first \in Nat, p2.len \in Nat,
         NEW q, q.tenant \in Nat, Derivable(p2, q),
         NEW r, r.tenant \in Nat, Derivable(p, r),
         p2 = p \/ Apart(p2, p), Derived(p2, q) = Derived(p, r)
  PROVE  p2 = p /\ q.slot = r.slot
<1>1. Derived(p2, q).first \in AddressesOf(p2) /\ Derived(p, r).first \in AddressesOf(p)
  BY PartInside
<1>2. p2 = p
  BY <1>1 DEF Apart
<1>3. q.tenant = r.tenant
  <2>1. Derived(p2, q).len = q.tenant /\ Derived(p, r).len = r.tenant
    BY DEF Derived
  <2> QED BY <2>1
<1>4. ASSUME q.slot # r.slot PROVE FALSE
  <2>1. Apart(Derived(p, q), Derived(p, r))
    BY <1>2, <1>3, <1>4, PartsApart
  <2>2. Derived(p, r).first \in AddressesOf(Derived(p, r))
    BY PartInside
  <2> QED BY <1>2, <2>1, <2>2 DEF Apart
<1> QED BY <1>2, <1>4

LEMMA ServedRoutes ==
  ASSUME BootInv, stage = "ready", NEW n \in Nodes
  PROVE  RoutesServed(n)
<1>0. Phases /\ FileInv /\ Booted /\ NodeShape(lab[n])
  BY ShapesAre DEF BootInv, Phases, Going
<1>1. PICK given : given = {c.route : c \in ToSet(RouteCommands(lab[n]))}
  OBVIOUS
<1>2. \A r : r \in given <=> r \in RouteNodes(lab[n])
  <2>1. \A c : c \in ToSet(RouteCommands(lab[n])) <=>
            \E r \in RouteNodes(lab[n]) : c = RouteOf(r)
    BY <1>0, RouteCommandsAre DEF RouteNodes
  <2>2. \A r : RouteOf(r).route = r
    BY DEF RouteOf
  <2> QED BY <1>1, <2>1, <2>2
<1>3. \A r \in given :
          /\ RouteOf(r) \in Behind(n) /\ Derivable(Contents[r.source], r) /\ r.tenant \in Nat
          /\ Contents[r.source].first \in Nat /\ Contents[r.source].len \in Nat
  BY <1>0, <1>2, SourcesAre, SourcesAccepted
<1>4. \A a \in ToSet(lab[n].addresses) :
          /\ AddressDerivable(Contents[a.source], a) /\ a.tenant \in Nat /\ a.identifier \in Nat
          /\ Contents[a.source].first \in Nat /\ Contents[a.source].len \in Nat
  BY <1>0, SourcesAre, SourcesAccepted
<1>5. ASSUME NEW r \in given, \A q \in given : <<q.source, q.slot>> = <<r.source, r.slot>> => q = r
      PROVE  /\ (\A q \in given :
                     q.source = r.source \/ Apart(Contents[q.source], Contents[r.source]))
                => [to |-> Derived(Contents[r.source], r), on |-> r.on] \in routes[n]
             /\ AddressesOf(Derived(Contents[r.source], r)) \subseteq AddressesOf(Contents[r.source])
             /\ \A q \in given \ {r} :
                    <<q.source, q.tenant>> = <<r.source, r.tenant>>
                    => Apart(Derived(Contents[q.source], q), Derived(Contents[r.source], r))
  <2>1. ASSUME \A q \in given : q.source = r.source \/ Apart(Contents[q.source], Contents[r.source])
        PROVE  [to |-> Derived(Contents[r.source], r), on |-> r.on] \in routes[n]
    <3>1. ASSUME NEW q \in given, PrefixOf(q) = PrefixOf(r) PROVE q = r
      <4>1. CASE q.source = r.source
        <5>1. q.slot = r.slot
          BY <1>3, <3>1, <4>1, PrefixesDiffer DEF PrefixOf
        <5> QED BY <1>5, <4>1, <5>1
      <4>2. CASE q.source # r.source
        <5>1. Apart(Contents[q.source], Contents[r.source])
          BY <2>1, <4>2
        <5>2. Derived(Contents[q.source], q).first \in AddressesOf(Contents[q.source])
          BY <1>3, PartInside
        <5>3. Derived(Contents[r.source], r).first \in AddressesOf(Contents[r.source])
          BY <1>3, PartInside
        <5> QED BY <3>1, <5>1, <5>2, <5>3 DEF Apart, PrefixOf
      <4> QED BY <4>1, <4>2
    <3>2. [to |-> PrefixOf(r), on |-> r.on] \in routes[n]
      BY <1>0, <1>2, <1>3, <3>1 DEF FileInv, Executed
    <3> QED BY <3>2 DEF PrefixOf
  <2>2. AddressesOf(Derived(Contents[r.source], r)) \subseteq AddressesOf(Contents[r.source])
    BY <1>3, PartInside
  <2>3. ASSUME NEW q \in given \ {r}, <<q.source, q.tenant>> = <<r.source, r.tenant>>
        PROVE  Apart(Derived(Contents[q.source], q), Derived(Contents[r.source], r))
    <3>1. q.source = r.source /\ q.tenant = r.tenant /\ q.slot # r.slot
      BY <1>5, <2>3
    <3> QED BY <1>3, <3>1, PartsApart
  <2> QED BY <2>1, <2>2, <2>3
<1>6. ASSUME NEW x \in opened[n]
      PROVE  \E a \in ToSet(lab[n].addresses) : x \in AddressesOf(Contents[a.source])
  <2>1. PICK c \in Behind(n) :
            c.kind = "address" /\ x = DerivedAddress(Contents[c.source], c.address)
    BY <1>0 DEF FileInv, Executed
  <2>2. PICK a \in ToSet(lab[n].addresses) : c = AddressOf(a)
    BY <1>0, <2>1, BehindIs, KindsAre DEF Commands
  <2>3. c.source = a.source /\ c.address = a
    BY <2>2 DEF AddressOf
  <2> QED BY <1>4, <2>1, <2>3, AddressInside
<1>7. ASSUME NEW a \in ToSet(lab[n].addresses), NEW b \in ToSet(lab[n].addresses), a # b,
             <<a.source, a.tenant>> = <<b.source, b.tenant>>
      PROVE  DerivedAddress(Contents[a.source], a) # DerivedAddress(Contents[b.source], b)
  <2> SUFFICES ASSUME DerivedAddress(Contents[a.source], a) = DerivedAddress(Contents[b.source], b)
               PROVE  FALSE
    OBVIOUS
  <2>1. a.source = b.source /\ a.tenant = b.tenant
    BY <1>7
  <2>2. a.slot = b.slot /\ a.identifier = b.identifier /\ a.delegated = b.delegated
    BY <1>4, <2>1, AddressesDiffer
  <2>3. /\ a = [source |-> a.source, delegated |-> a.delegated, tenant |-> a.tenant,
                slot |-> a.slot, identifier |-> a.identifier]
        /\ b = [source |-> b.source, delegated |-> b.delegated, tenant |-> b.tenant,
                slot |-> b.slot, identifier |-> b.identifier]
    BY <1>0 DEF NodeShape
  <2> QED BY <1>7, <2>1, <2>2, <2>3
<1> QED BY <1>1, <1>5, <1>6, <1>7 DEF RoutesServed

ServiceInv == BootInv /\ ServedInv /\ KeaInv /\ NamesInv

LEMMA ServiceIs == ServiceSpec => []ServiceInv
<1>1. ServiceInit => ServiceInv
  BY BootStarts, ServedStart, KeaStart, NamesStart DEF ServiceInv
<1>2. ServiceInv /\ [ServiceNext]_<<vars, serviceVars>> => ServiceInv'
  BY BootStep, ServedStep, KeaStep, NamesStep DEF ServiceInv
<1> QED BY <1>1, <1>2, PTL DEF ServiceSpec

\* When the deployment of any lab ends well, or any later round of its loops, every
\* protected scope that is the only one of its family on a node, and whose daemon was
\* started when no other of its port lived, has had that daemon get its socket with
\* the scope's own reservations; the resolver of the node has the names of what is
\* leased, and every route into a protected prefix is there, with the prefix it was
\* given and no other's.
THEOREM DeployedIsServed == ServiceSpec => []ReadyMeansServed
<1>1. ServiceInv => ReadyMeansServed
  BY ServedScopes, ServedNames, ServedRoutes DEF ServiceInv, ReadyMeansServed
<1> QED BY <1>1, ServiceIs, PTL

(***************************************************************************)
(* The resolvers of a lab and the queries they send on                     *)
(***************************************************************************)

LEMMA SetToSeqIs ==
  ASSUME NEW S, IsFiniteSet(S)
  PROVE  /\ IsSequence(SetToSeq(S)) /\ Simple(SetToSeq(S))
         /\ \A x : x \in ToSet(SetToSeq(S)) <=> x \in S
<1> DEFINE n == Cardinality(S)
           s == SetToSeq(S)
           T == ToSet(s)
<1>1. n \in Nat /\ ExistsBijection(1 .. n, S)
  BY FS_CardinalityType
<1>2. \E f \in [1 .. n -> S] : IsInjective(f)
  BY <1>1 DEF ExistsBijection, Bijection, Injection
<1>3. s \in [1 .. n -> S] /\ IsInjective(s)
  BY <1>2 DEF SetToSeq
<1> HIDE DEF s
<1>4. s \in Seq(S) /\ Len(s) = n /\ DOMAIN s = 1 .. n
  BY <1>1, <1>3
<1>5. IsSequence(s) /\ Simple(s)
  BY <1>3, <1>4, SequenceIs DEF Simple, IsInjective
<1>6. T \subseteq S /\ \A i \in 1 .. n : s[i] \in T
  BY <1>3, <1>4 DEF ToSet
<1>7. \A t \in T : \E i \in 1 .. n : s[i] = t
  BY <1>4 DEF ToSet
<1> HIDE DEF T
<1>8. ExistsBijection(1 .. n, T)
  <2>1. s \in [1 .. n -> T]
    BY <1>3, <1>6
  <2>2. s \in Bijection(1 .. n, T)
    BY <1>3, <1>7, <2>1 DEF Bijection, Injection, Surjection
  <2> QED BY <2>2 DEF ExistsBijection
<1>9. Cardinality(T) = n
  BY <1>1, <1>8, FS_CountingElements
<1>10. T = S
  <2>1. T \in SUBSET S
    BY <1>6
  <2>2. Cardinality(S) = Cardinality(T) => S = T
    BY <2>1, FS_Subset
  <2> QED BY <1>9, <2>2
<1> QED BY <1>5, <1>10 DEF s, T

LEMMA MinIs ==
  ASSUME NEW S, S \subseteq Nat, S # {}
  PROVE  Min(S) \in S /\ \A i \in S : Min(S) <= i
<1>1. \E m \in S : \A i \in S : m <= i
  BY Least
<1> QED BY <1>1 DEF Min

LEMMA AppendIs ==
  ASSUME NEW s, IsSequence(s), NEW e
  PROVE  /\ IsSequence(Append(s, e))
         /\ \A i \in DOMAIN Append(s, e) :
                Append(s, e)[i] = e \/ (i \in DOMAIN s /\ Append(s, e)[i] = s[i])
<1>1. PICK U : U = ToSet(s) \cup {e}
  OBVIOUS
<1>2. s \in Seq(U) /\ e \in U
  <2>1. s \in Seq(ToSet(s)) /\ ToSet(s) \subseteq U
    BY <1>1 DEF IsSequence
  <2> QED BY <1>1, <2>1
<1>3. Append(s, e) \in Seq(U)
  BY <1>2
<1>4. IsSequence(Append(s, e))
  BY <1>3, SequenceIs
<1>5. /\ DOMAIN s = 1 .. Len(s) /\ DOMAIN Append(s, e) = 1 .. Len(s) + 1 /\ Len(s) \in Nat
      /\ Append(s, e)[Len(s) + 1] = e /\ \A i \in 1 .. Len(s) : Append(s, e)[i] = s[i]
  BY <1>2
<1>6. \A i \in 1 .. Len(s) + 1 : i = Len(s) + 1 \/ i \in 1 .. Len(s)
  BY <1>5
<1> QED BY <1>4, <1>5, <1>6

\* What a query that is resolved says of the access control and the zones.
LEMMA ResolvedIs ==
  ASSUME NEW dns, NEW src, NEW q, "resolved" \in Verdicts(dns, src, q)
  PROVE  /\ "allow" \in Access(dns, src)
         /\ \E type \in ZoneTypes(dns, q.name) :
                type \notin {"static", "refuse", "deny", "always_refuse"}
<1>1. PICK action \in Access(dns, src) : \E type \in ZoneTypes(dns, q.name) :
          Verdict(dns, action, type, q) = "resolved"
  BY DEF Verdicts
<1>2. PICK type \in ZoneTypes(dns, q.name) : Verdict(dns, action, type, q) = "resolved"
  BY <1>1
<1>3. /\ action \notin {"refuse", "refuse_non_local"}
      /\ type \notin {"static", "refuse", "deny", "always_refuse"}
  BY <1>2 DEF Verdict
<1>4. action \in {"allow", "refuse_non_local", "refuse"}
  BY DEF Access, AccessControl
<1> QED BY <1>3, <1>4

\* The zone that a resolved query finds closest, if there is any, is transparent,
\* and the contract has it.
LEMMA ZoneIs ==
  ASSUME NEW dns, NEW name \in DOMAIN Closest, ~ZoneTypeRefused(dns),
         NEW type \in ZoneTypes(dns, name),
         type \notin {"static", "refuse", "deny", "always_refuse"},
         NEW i \in DOMAIN Closest[name], NEW e \in LocalZones(dns), e.name = Closest[name][i]
  PROVE  \E m \in DOMAIN Closest[name], z \in dns.localZones :
             /\ z.name = Closest[name][m] /\ z.type = "transparent"
             /\ m \in 1 .. i
<1> DEFINE known == {k \in DOMAIN Closest[name] : \E z \in LocalZones(dns) : z.name = Closest[name][k]}
<1>1. Closest[name] \in Seq(ToSet(Closest[name]))
  BY NamesAssumption
<1>2. DOMAIN Closest[name] = 1 .. Len(Closest[name]) /\ Len(Closest[name]) \in Nat
  BY <1>1
<1>3. known \subseteq Nat /\ known \subseteq DOMAIN Closest[name] /\ i \in known
  BY <1>2
<1>4. ClosestIn(LocalZones(dns), name) =
          {z \in LocalZones(dns) : z.name = Closest[name][Min(known)]}
  BY <1>3 DEF ClosestIn
<1>5. \A k \in known : \E z \in LocalZones(dns) : z.name = Closest[name][k]
  OBVIOUS
<1> HIDE DEF known
<1>6. PICK m : m = Min(known)
  OBVIOUS
<1>7. m \in known /\ m <= i
  BY <1>3, <1>6, MinIs
<1>8. PICK z \in LocalZones(dns) : z.name = Closest[name][m]
  BY <1>5, <1>7
<1>9. z \in ClosestIn(LocalZones(dns), name)
  BY <1>4, <1>6, <1>8
<1>10. PICK y \in ClosestIn(LocalZones(dns), name) : y.type = type
  BY <1>9 DEF ZoneTypes
<1>11. y \in LocalZones(dns) /\ y.name = Closest[name][m]
  BY <1>4, <1>6, <1>10
<1>12. y.type \notin {"static", "refuse", "deny", "always_refuse"}
  BY <1>10
<1>13. y \in dns.localZones
  BY <1>11, <1>12 DEF LocalZones
<1>14. y.type = "transparent"
  BY <1>12, <1>13 DEF ZoneTypeRefused
<1>15. m \in DOMAIN Closest[name] /\ m \in 1 .. i
  <2>1. m \in DOMAIN Closest[name]
    BY <1>3, <1>7
  <2>2. m \in 1 .. Len(Closest[name]) /\ i \in 1 .. Len(Closest[name])
    BY <1>2, <2>1
  <2> QED BY <1>2, <1>7, <2>1, <2>2
<1> QED BY <1>11, <1>13, <1>14, <1>15

\* A contract that is not refused does not let pass what it protects or blocks.
LEMMA KeptIsNotResolved ==
  ASSUME NEW dns, NEW src, NEW q, q.name \in DOMAIN Closest,
         ~ZoneTypeRefused(dns), ~ProtectedRefused(dns),
         "resolved" \in Verdicts(dns, src, q)
  PROVE  ~KeptAtUnbound(dns, q.name)
<1> SUFFICES ASSUME KeptAtUnbound(dns, q.name) PROVE FALSE
  OBVIOUS
<1>1. PICK ns : ns = Closest[q.name]
  OBVIOUS
<1>2. PICK i \in DOMAIN ns :
          /\ ns[i] \in Ending(dns)
          /\ \A j \in 1 .. i : ns[j] \in Opening(dns) => j = i /\ ns[i] \in ProtectedNames(dns)
  BY <1>1 DEF KeptAtUnbound
<1>3. PICK e \in LocalZones(dns) : e.name = ns[i]
  <2>1. CASE ns[i] \in ProtectedNames(dns) \cup {d.namespace : d \in {e \in dns.fallback : Blocked(e)}}
    <3>1. [name |-> ns[i], type |-> "static"] \in LocalZones(dns)
      BY <2>1 DEF LocalZones
    <3> QED BY <3>1
  <2>2. CASE ns[i] \in {z.name : z \in {y \in dns.localZones : y.type # "transparent"}}
    BY <2>2 DEF LocalZones
  <2> QED BY <1>2, <2>1, <2>2 DEF Ending
<1>4. PICK type \in ZoneTypes(dns, q.name) :
          type \notin {"static", "refuse", "deny", "always_refuse"}
  BY ResolvedIs
<1>5. PICK name : name = q.name
  OBVIOUS
<1>6. \E m \in DOMAIN Closest[name], z \in dns.localZones :
          z.name = Closest[name][m] /\ z.type = "transparent" /\ m \in 1 .. i
  BY <1>1, <1>2, <1>3, <1>4, <1>5, ZoneIs
<1>7. PICK m \in DOMAIN ns : \E z \in dns.localZones :
          z.name = ns[m] /\ z.type = "transparent" /\ m \in 1 .. i
  BY <1>1, <1>5, <1>6
<1>8. PICK z \in dns.localZones : z.name = ns[m] /\ z.type = "transparent" /\ m \in 1 .. i
  BY <1>7
<1>9. ns[m] \in Opening(dns)
  BY <1>8 DEF Opening
<1>10. m = i /\ z.name \in ProtectedNames(dns)
  BY <1>2, <1>8, <1>9
<1> QED BY <1>8, <1>10 DEF ProtectedRefused

\* Of the prefixes that hold a source, what is resolved has found one of allowFrom
\* to be among the narrowest.
LEMMA ConfinedIsNotResolved ==
  ASSUME NEW dns, NEW src, NEW q,
         dns.allow \cup PolicyPrefixes(dns) \subseteq DOMAIN Hosts,
         "resolved" \in Verdicts(dns, src, q)
  PROVE  ~Confined(dns, src)
<1> SUFFICES ASSUME Confined(dns, src) PROVE FALSE
  OBVIOUS
<1> DEFINE covering == {e \in AccessControl(dns) : src \in Hosts[e.prefix]}
<1>1. PICK p \in PolicyPrefixes(dns) :
          src \in Hosts[p] /\ \A a \in dns.allow : src \in Hosts[a] => ~(Hosts[a] \subseteq Hosts[p])
  BY DEF Confined
<1>2. "allow" \in Access(dns, src)
  BY ResolvedIs
<1>3. PICK e \in covering :
          /\ e.action = "allow"
          /\ \A d \in covering : Cardinality(Hosts[e.prefix]) <= Cardinality(Hosts[d.prefix])
  BY <1>2 DEF Access
<1>4. PICK narrow \in covering : narrow = [prefix |-> p, action |-> "refuse_non_local"]
  BY <1>1 DEF AccessControl
<1>5. PICK a \in dns.allow : a = e.prefix /\ src \in Hosts[a]
  BY <1>3 DEF AccessControl
<1>6. Cardinality(Hosts[a]) <= Cardinality(Hosts[p])
  BY <1>3, <1>4, <1>5
<1>7. IsFiniteSet(Hosts[a]) /\ IsFiniteSet(Hosts[p]) /\ a \in DOMAIN Hosts /\ p \in DOMAIN Hosts
  BY HostsAssumption
<1>8. Hosts[p] \subseteq Hosts[a] /\ Hosts[p] # Hosts[a]
  <2>1. src \in Hosts[p] /\ src \in Hosts[a] /\ ~(Hosts[a] \subseteq Hosts[p])
    BY <1>1, <1>5
  <2> QED BY <1>7, <2>1, HostsAssumption
<1>9. PICK H, I : H = Hosts[p] /\ I = Hosts[a]
  OBVIOUS
<1>10. IsFiniteSet(I) /\ H \in SUBSET I /\ H # I /\ IsFiniteSet(H)
  BY <1>7, <1>8, <1>9
<1>11. Cardinality(H) <= Cardinality(I) /\ (Cardinality(I) = Cardinality(H) => I = H)
  BY <1>10, FS_Subset
<1>12. Cardinality(H) \in Nat /\ Cardinality(I) \in Nat
  BY <1>10, FS_CardinalityType
<1> QED BY <1>6, <1>9, <1>10, <1>11, <1>12

\* Whom a contract without forwarders asks.
LEMMA AskedIs ==
  ASSUME NEW dns, NEW name, RootForwarders(dns) = {}, NEW a \in Asked(dns, name)
  PROVE  \/ \E z \in dns.forwardZones : a \in z.to
         \/ /\ a \in Hierarchy(dns)
            /\ ClosestIn(ForwardZones(dns), name) = {} \/ \E z \in dns.forwardZones : z.first
<1>1. ForwardZones(dns) = {[name |-> z.name, to |-> z.to, first |-> z.first] : z \in dns.forwardZones}
  BY DEF ForwardZones
<1>2. CASE ClosestIn(ForwardZones(dns), name) = {}
  BY <1>2 DEF Asked
<1>3. CASE ClosestIn(ForwardZones(dns), name) # {}
  <2>1. ClosestIn(ForwardZones(dns), name) \subseteq ForwardZones(dns)
    BY <1>3 DEF ClosestIn
  <2>2. PICK f \in ClosestIn(ForwardZones(dns), name) :
            a \in f.to \cup (IF f.first THEN Hierarchy(dns) ELSE {})
    BY <1>3 DEF Asked
  <2>3. PICK z \in dns.forwardZones : f = [name |-> z.name, to |-> z.to, first |-> z.first]
    BY <1>1, <2>1, <2>2
  <2>4. a \in z.to \/ (z.first /\ a \in Hierarchy(dns))
    BY <2>2, <2>3
  <2> QED BY <2>4
<1> QED BY <1>2, <1>3

\* A local-only resolver asks those it forwards to, if what it opens it forwards.
LEMMA LocalOnlyAsks ==
  ASSUME NEW dns, NEW src, NEW q, q.name \in DOMAIN Closest,
         dns.mode = "local-only", ~LocalOnlyLeaks(dns), ~ZoneTypeRefused(dns),
         ForwardsOpened(dns), "resolved" \in Verdicts(dns, src, q),
         NEW a \in Asked(dns, q.name)
  PROVE  \E z \in dns.forwardZones : a \in z.to
<1>1. RootForwarders(dns) = {}
  BY DEF RootForwarders
<1>2. \A z \in dns.forwardZones : ~z.first
  BY DEF LocalOnlyLeaks
<1>3. PICK name, root : name = q.name /\ root = [name |-> ".", type |-> "refuse"]
  OBVIOUS
<1>4. root \in LocalZones(dns) /\ root.name = "."
  BY <1>3 DEF LocalZones
<1>5. PICK i \in DOMAIN Closest[name] : Closest[name][i] = root.name
  BY <1>3, <1>4, NamesAssumption DEF ToSet
<1>6. PICK type \in ZoneTypes(dns, name) :
          type \notin {"static", "refuse", "deny", "always_refuse"}
  BY <1>3, ResolvedIs
<1>7. name \in DOMAIN Closest
  BY <1>3
<1>8. \E m \in DOMAIN Closest[name], z \in dns.localZones :
          z.name = Closest[name][m] /\ z.type = "transparent" /\ m \in 1 .. i
  BY <1>4, <1>5, <1>6, <1>7, ZoneIs
<1>9. PICK m \in DOMAIN Closest[name] : \E z \in dns.localZones :
          z.name = Closest[name][m] /\ z.type = "transparent"
  BY <1>8
<1>10. PICK z \in dns.localZones : z.name = Closest[name][m] /\ z.type = "transparent"
  BY <1>9
<1>11. PICK f \in dns.forwardZones : f.name = Closest[name][m]
  BY <1>10 DEF ForwardsOpened
<1>12. PICK e \in ForwardZones(dns) : e.name = Closest[name][m]
  <2>1. PICK e : e = [name |-> f.name, to |-> f.to, first |-> f.first]
    OBVIOUS
  <2>2. e \in ForwardZones(dns) /\ e.name = f.name
    BY <2>1 DEF ForwardZones
  <2> QED BY <1>11, <2>2
<1>13. ClosestIn(ForwardZones(dns), name) # {}
  <2> DEFINE known == {k \in DOMAIN Closest[name] : \E y \in ForwardZones(dns) : y.name = Closest[name][k]}
  <2>1. Closest[name] \in Seq(ToSet(Closest[name]))
    BY <1>7, NamesAssumption
  <2>2. DOMAIN Closest[name] = 1 .. Len(Closest[name]) /\ Len(Closest[name]) \in Nat
    BY <2>1
  <2>3. known \subseteq Nat /\ m \in known
    BY <1>12, <2>2
  <2>4. ClosestIn(ForwardZones(dns), name) =
            {y \in ForwardZones(dns) : y.name = Closest[name][Min(known)]}
    BY <2>3 DEF ClosestIn
  <2>5. \A k \in known : \E y \in ForwardZones(dns) : y.name = Closest[name][k]
    OBVIOUS
  <2> HIDE DEF known
  <2>6. Min(known) \in known
    BY <2>3, MinIs
  <2> QED BY <2>4, <2>5, <2>6
<1> QED BY <1>1, <1>2, <1>3, <1>13, AskedIs

\* What the proxy resolves no decision of its contract blocks.
LEMMA BlockedIsNotResolved ==
  ASSUME NEW dns, NEW family, NEW q \in Queries, ProxyVerdict(dns, family, q) = "resolved"
  PROVE  ~KeptAtProxy(dns, q)
<1>1. ~Blocks(dns, q)
  BY DEF ProxyVerdict
<1>2. ToSet(Closest[q.name]) \subseteq EndsIn[q.name]
  BY QueriesAssumption
<1> QED BY <1>1, <1>2 DEF Blocks, KeptAtProxy, Blocked
----------------------------------------------------------------------------
\* The lab is one that is rendered, and the loop is over its resolvers.
Rendered ==
    /\ nodes \in Labs
    /\ \A n \in DOMAIN nodes : ~Refused(nodes[n])
    /\ \A n : n \in Unbounds <=> n \in DOMAIN nodes /\ RunsUnbound(nodes[n])

\* While the loop runs nothing is asked.  What a resolver asks, it asks whom its
\* configuration tells it to.
Idle == query = NoQuery /\ trail = <<>>
Asking ==
    /\ query = [by |-> query.by, src |-> query.src, dst |-> query.dst, q |-> query.q,
                state |-> query.state]
    /\ query.by \in DOMAIN nodes /\ query.q \in Queries
    /\ Family(query.src) = Family(query.dst)
    /\ query.by \in Unbounds => query.dst \in Asked(Dns(query.by), query.q.name)

\* Who sent a query on was not told to keep it.
Proper(step, q) ==
    IF step.node \in Unbounds
    THEN /\ ~KeptAtUnbound(Dns(step.node), q.name)
         /\ ~Confined(Dns(step.node), step.src)
         /\ Dns(step.node).mode = "local-only" /\ ForwardsWithin(Dns(step.node))
               /\ ForwardsOpened(Dns(step.node))
            => Owners(step.dst) # {}
    ELSE ~KeptAtProxy(Dns(step.node), q)

Sent == IsSequence(trail) /\ \A i \in DOMAIN trail : Proper(trail[i], query.q)

QueryInv ==
    /\ LoopInv /\ Rendered
    /\ Idle \/ (AtRest /\ Asking /\ Sent)
    /\ RequestersServed /\ NothingLeavesAside
----------------------------------------------------------------------------
LEMMA DnsStepLoops == [DnsNext]_allVars => [Next]_vars
<1> SUFFICES ASSUME [DnsNext]_allVars PROVE [Next]_vars
  OBVIOUS
<1>1. CASE Reconciliation
  BY <1>1 DEF Reconciliation
<1>2. CASE Resolution
  BY <1>2 DEF Resolution, IsStopped, Leaves, IsKeptOut, FindsNobody, IsDecided, HasNobodyToAsk,
              IsSentOn, Ends
<1> QED BY <1>1, <1>2 DEF DnsNext, Ask, ThreadEnds, allVars

LEMMA DnsStarts == DnsInit => QueryInv
<1> SUFFICES ASSUME DnsInit PROVE QueryInv
  OBVIOUS
<1> DEFINE S == {n \in DOMAIN nodes : RunsUnbound(nodes[n])}
<1>1. IsFiniteSet(DOMAIN nodes)
  BY LabsAssumption DEF DnsInit
<1>2. IsFiniteSet(S)
  BY <1>1, FS_Subset
<1>3. PICK resolvers : resolvers = SetToSeq(S) /\ LoopInit(resolvers)
  BY DEF DnsInit
<1> HIDE DEF S
<1>4. IsSequence(resolvers) /\ Simple(resolvers) /\ \A n : n \in ToSet(resolvers) <=> n \in S
  BY <1>2, <1>3, SetToSeqIs
<1>5. LoopInv
  BY <1>3, <1>4, LoopStarts
<1>6. Rendered
  BY <1>3, <1>4 DEF S, DnsInit, Rendered, Unbounds, LoopInit
<1> QED BY <1>5, <1>6 DEF DnsInit, QueryInv, Idle, RequestersServed, NothingLeavesAside

\* The lab and the loop are what they were.
LEMMA RenderedStays ==
  ASSUME [DnsNext]_allVars, Rendered
  PROVE  nodes' = nodes /\ loop' = loop /\ Rendered'
<1>1. nodes' = nodes
  BY DEF DnsNext, Reconciliation, Resolution, IsStopped, Leaves, IsKeptOut, FindsNobody, IsDecided,
         HasNobodyToAsk, IsSentOn, Ends, Ask, ThreadEnds, allVars, dnsVars
<1>2. loop' = loop
  <2>1. [Next]_vars
    BY DnsStepLoops
  <2>2. CASE Script
    BY <2>2 DEF Script, StopOld, AddressesThere, WaitForAddresses, StartDaemon, DaemonAlive,
                DaemonGone, SocketsOpen, SocketsClosed, GiveUp, WaitFor, Goto
  <2>3. CASE World
    BY <2>3 DEF World, AddressesCome, Binds, Serves, Stops, Dies, Becomes
  <2> QED BY <2>1, <2>2, <2>3 DEF Next, Reconcile, vars
<1> QED BY <1>1, <1>2 DEF Rendered, Unbounds

\* Where no daemon held the sockets of a resolver that was started alone, none opens
\* them while the loop rests.
LEMMA SilentStays ==
  ASSUME LoopInv, Next, AtRest, AtRest', pc' = "ready", NEW n \in Unbounds, n \in alone',
         pc = "ready" /\ n \in alone => \A r \in Runs : daemon[n][r] \notin Holding
  PROVE  \A r \in Runs : daemon'[n][r] \notin Holding
<1>1. PICK i \in 1 .. Len(loop) : loop[i] = n
  BY InToSet DEF Unbounds, LoopInv, Places
<1>2. CASE Reconcile
  <2>1. loop # <<>>
    BY <1>1
  <2> QED BY <1>2, <2>1 DEF Reconcile
<1>3. CASE Script
  BY <1>3 DEF Script, StopOld, AddressesThere, WaitForAddresses, StartDaemon, DaemonAlive,
              DaemonGone, SocketsOpen, SocketsClosed, GiveUp, AtRest
<1>4. CASE World
  <2>1. pc = "ready" /\ n \in alone
    BY <1>4 DEF World, AddressesCome, Binds, Serves, Stops, Dies, Becomes
  <2>2. \A r \in Runs : daemon[n][r] \notin Holding
    BY <2>1
  <2>3. \A r \in Runs : daemon[n][r] # "starting"
    BY <1>1, <2>1 DEF LoopInv, Lonely, StartedNow, Done, Live, GoesOn
  <2>4. ASSUME NEW m, AddressesCome(m) PROVE daemon' = daemon
    BY <2>4 DEF AddressesCome
  <2>5. n \in Resolvers /\ daemon \in [Resolvers -> [Runs -> Live \cup {"none", "gone"}]]
    BY DEF LoopInv, TypeOK, Resolvers, Unbounds
  <2>6. ASSUME NEW m \in Resolvers, NEW o \in Runs,
               Binds(m, o) \/ Serves(m, o) \/ Stops(m, o) \/ Dies(m, o)
        PROVE  \A r \in Runs : daemon'[n][r] \notin Holding
    <3>1. CASE m = n
      <4>1. daemon' = [daemon EXCEPT ![m][o] = "gone"]
        BY <2>2, <2>3, <2>6, <3>1 DEF Binds, Serves, Stops, Dies, Becomes, Holding
      <4> QED BY <2>2, <2>5, <4>1 DEF Holding
    <3>2. CASE m # n
      <4>1. \E state : daemon' = [daemon EXCEPT ![m][o] = state]
        BY <2>6 DEF Binds, Serves, Stops, Dies, Becomes
      <4>2. daemon'[n] = daemon[n]
        BY <2>5, <3>2, <4>1
      <4> QED BY <2>2, <4>2
    <3> QED BY <3>1, <3>2
  <2> QED BY <1>4, <2>2, <2>4, <2>6 DEF World
<1> QED BY <1>2, <1>3, <1>4 DEF Next

LEMMA ReconciliationKeeps ==
  ASSUME QueryInv, Reconciliation, nodes' = nodes, loop' = loop
  PROVE  /\ Idle' \/ (AtRest' /\ Asking' /\ Sent')
         /\ RequestersServed' /\ NothingLeavesAside'
<1>1. CASE ~AtRest'
  <2>1. query' = NoQuery /\ trail' = <<>>
    BY <1>1 DEF Reconciliation
  <2> QED BY <2>1 DEF Idle, RequestersServed, NothingLeavesAside
<1>2. CASE AtRest'
  <2>1. query' = query /\ trail' = trail
    BY <1>2 DEF Reconciliation
  <2>2. NothingLeavesAside'
    <3>1. NothingLeavesAside
      BY DEF QueryInv
    <3>2. Unbounds' = Unbounds /\ query' = query /\ nodes' = nodes
      BY <2>1 DEF Unbounds
    <3>3. /\ \A n : Guards(n, query.dst)' <=> Guards(n, query.dst)
          /\ \A n : ToldToAsk(n, query.src, query.dst)' <=> ToldToAsk(n, query.src, query.dst)
          /\ Way(query.by, query.dst)' = Way(query.by, query.dst)
          /\ Dns(query.by)' = Dns(query.by)
          /\ ForwardsWithin(Dns(query.by))' <=> ForwardsWithin(Dns(query.by))
      BY <3>2 DEF Guards, Way, Owners, Serving, Denied, Dns, ToldToAsk, ForwardsWithin
    <3> QED BY <3>1, <3>2, <3>3 DEF NothingLeavesAside
  <2>3. CASE Idle
    BY <2>1, <2>2, <2>3 DEF Idle, RequestersServed
  <2>4. CASE AtRest /\ Asking /\ Sent
    <3>1. Asking'
      BY <2>1, <2>4 DEF Asking, Dns, Unbounds, Family
    <3>2. Sent'
      BY <2>1, <2>4 DEF Sent, Proper, Dns, Unbounds, ForwardsWithin, Owners
    <3>3. ASSUME NEW n \in Unbounds, query'.state = "silent", pc' = "ready", n \in alone',
                 query # NoQuery, Owners(query.dst) = {n}, query.dst \in Dns(n).listen,
                 \E p \in Dns(n).allow \cup PolicyPrefixes(Dns(n)) : query.src \in Hosts[p]
          PROVE  \A r \in Runs : daemon'[n][r] \notin Holding
      <4>1. pc = "ready" /\ n \in alone => \A r \in Runs : daemon[n][r] \notin Holding
        BY <2>1, <3>3 DEF QueryInv, RequestersServed
      <4> QED BY <1>2, <2>4, <3>3, <4>1, SilentStays DEF QueryInv, Reconciliation
    <3>4. RequestersServed'
      BY <2>1, <3>3 DEF QueryInv, RequestersServed, Owners, Dns, Unbounds, ToldToAsk, Serving, Way,
                        Guards, Denied
    <3> QED BY <1>2, <2>2, <3>1, <3>2, <3>4
  <2> QED BY <2>3, <2>4 DEF QueryInv
<1> QED BY <1>1, <1>2

LEMMA AskKeeps ==
  ASSUME QueryInv, NEW n \in DOMAIN nodes, Ask(n), nodes' = nodes, loop' = loop
  PROVE  /\ Idle' \/ (AtRest' /\ Asking' /\ Sent')
         /\ RequestersServed' /\ NothingLeavesAside'
<1>1. PICK src, dst, q :
          /\ q \in Queries /\ Family(src) = Family(dst)
          /\ query' = [by |-> n, src |-> src, dst |-> dst, q |-> q, state |-> "sent"]
  BY DEF Ask
<1>2. n \notin Unbounds
  BY DEF Ask, QueryInv, Rendered, RunsUnbound, Serving
<1>3. AtRest' /\ trail' = <<>>
  BY DEF Ask, AtRest, vars
<1>4. Asking'
  BY <1>1, <1>2 DEF Asking, Family, Unbounds
<1>5. Sent'
  BY <1>3 DEF Sent, IsSequence
<1>6. query'.state = "sent"
  BY <1>1
<1> QED BY <1>3, <1>4, <1>5, <1>6 DEF RequestersServed, NothingLeavesAside

\* How a query that is under way ends.
LEMMA EndsKeeps ==
  ASSUME QueryInv, UnderWay, NEW state, Ends(state), nodes' = nodes, loop' = loop
  PROVE  /\ AtRest' /\ Asking' /\ Sent' /\ Asking
         /\ query'.by = query.by /\ query'.src = query.src /\ query'.dst = query.dst
         /\ query'.q = query.q /\ query'.state = state
         /\ pc' = pc /\ alone' = alone /\ daemon' = daemon
<1>1. AtRest /\ Asking /\ Sent
  BY DEF QueryInv, UnderWay, Idle
<1>2. query' = [query EXCEPT !.state = state] /\ trail' = trail
  BY DEF Ends
<1>3. query = [by |-> query.by, src |-> query.src, dst |-> query.dst, q |-> query.q,
               state |-> query.state]
  BY <1>1 DEF Asking
<1>4. /\ query' = [by |-> query.by, src |-> query.src, dst |-> query.dst, q |-> query.q,
                   state |-> state]
  BY <1>2, <1>3
<1>5. /\ query'.by = query.by /\ query'.src = query.src /\ query'.dst = query.dst
      /\ query'.q = query.q /\ query'.state = state
  BY <1>4
<1>6. Asking'
  BY <1>1, <1>4, <1>5 DEF Asking, Dns, Unbounds, Family
<1>7. Sent'
  BY <1>1, <1>2, <1>5 DEF Sent, Proper, Dns, Unbounds, ForwardsWithin, Owners
<1>8. pc' = pc /\ alone' = alone /\ daemon' = daemon
  BY DEF Ends, vars
<1> QED BY <1>1, <1>5, <1>6, <1>7, <1>8 DEF AtRest

\* A query with any other end than these four says nothing.
LEMMA OtherEnds ==
  ASSUME QueryInv, UnderWay, NEW state, Ends(state), nodes' = nodes, loop' = loop,
         state \notin {"stopped", "left", "kept out", "silent"}
  PROVE  RequestersServed' /\ NothingLeavesAside'
<1>1. query'.state = state
  BY EndsKeeps
<1> QED BY <1>1 DEF RequestersServed, NothingLeavesAside

LEMMA StoppedIs ==
  ASSUME QueryInv, IsStopped, nodes' = nodes, loop' = loop
  PROVE  RequestersServed' /\ NothingLeavesAside'
<1>1. /\ Asking /\ query'.by = query.by /\ query'.src = query.src /\ query'.dst = query.dst
      /\ query'.state = "stopped"
  BY EndsKeeps DEF IsStopped
<1>2. \/ ~ToldToAsk(query.by, query.src, query.dst)
      \/ ~nodes[query.by].guarded
      \/ \E n \in Way(query.by, query.dst) : Guards(n, query.dst)
  <2>1. CASE MayStop
    BY <2>1 DEF MayStop
  <2>2. CASE ~Passes
    BY <1>1, <2>2 DEF Passes, PassesOutput, PassesForward, Guards, ToldToAsk, Dns, Asking
  <2> QED BY <2>1, <2>2 DEF IsStopped
<1>3. RequestersServed'
  BY <1>1, <1>2 DEF RequestersServed, ToldToAsk, Serving, Way, Owners, Guards, Denied, Dns
<1> QED BY <1>1, <1>3 DEF NothingLeavesAside

LEMMA LeftIs ==
  ASSUME QueryInv, Leaves, nodes' = nodes, loop' = loop
  PROVE  RequestersServed' /\ NothingLeavesAside'
<1>1. /\ Asking /\ query'.by = query.by /\ query'.src = query.src /\ query'.dst = query.dst
      /\ query'.state = "left" /\ Owners(query.dst) = {}
  BY EndsKeeps DEF Leaves
<1>2. ASSUME NEW n \in Way(query.by, query.dst) \cup {query.by}, Guards(n, query.dst), nodes[n].guarded
      PROVE  n = query.by /\ ToldToAsk(n, query.src, query.dst)
  BY <1>2 DEF Leaves, Passes, PassesOutput, PassesForward, Guards, ToldToAsk, Dns
<1>3. ASSUME query.by \in Unbounds, Dns(query.by).validation # NoAuthority,
             ForwardsWithin(Dns(query.by))
      PROVE  query.dst \in Dns(query.by).validation.root \cup Dns(query.by).validation.delegated
  <2>1. PICK dns : dns = nodes[query.by].dns
    OBVIOUS
  <2>2. /\ query.by \in DOMAIN nodes /\ RunsUnbound(nodes[query.by])
        /\ dns # NoService /\ dns.mode # "none"
        /\ ~AuthorityRefused(dns)
    BY <1>3, <2>1 DEF QueryInv, Rendered, RunsUnbound, Refused
  <2>3. dns.validation # NoAuthority /\ dns.mode = "iterative"
    BY <1>3, <2>1, <2>2 DEF AuthorityRefused, ValidationExternal, Dns
  <2>4. RootForwarders(dns) = {}
    BY <2>3 DEF RootForwarders
  <2>5. query.dst \in Asked(dns, query.q.name)
    BY <1>1, <1>3, <2>1 DEF Asking, Dns
  <2>6. \A z \in dns.forwardZones : query.dst \notin z.to
    BY <1>1, <1>3, <2>1 DEF ForwardsWithin, Dns
  <2>7. PICK name, a : name = query.q.name /\ a = query.dst
    OBVIOUS
  <2>8. a \in Asked(dns, name)
    BY <2>5, <2>7
  <2>9. a \in Hierarchy(dns)
    BY <2>4, <2>6, <2>7, <2>8, AskedIs
  <2> QED BY <2>1, <2>3, <2>7, <2>9 DEF Hierarchy, Roots, Delegated, Dns
<1>4. NothingLeavesAside'
  BY <1>1, <1>2, <1>3 DEF NothingLeavesAside, Guards, Way, Owners, Serving, Denied, Dns, ToldToAsk,
                          Unbounds, ForwardsWithin
<1> QED BY <1>1, <1>4 DEF RequestersServed

LEMMA KeptOutIs ==
  ASSUME QueryInv, NEW n \in DOMAIN nodes, IsKeptOut(n), nodes' = nodes, loop' = loop
  PROVE  RequestersServed' /\ NothingLeavesAside'
<1>1. /\ Asking /\ query'.by = query.by /\ query'.src = query.src /\ query'.dst = query.dst
      /\ query'.state = "kept out" /\ n \in Owners(query.dst)
  BY EndsKeeps DEF IsKeptOut, Arrives
<1>2. ASSUME NEW m \in Unbounds, Owners(query.dst) = {m}, query.dst \in Dns(m).listen,
             \E p \in Dns(m).allow \cup PolicyPrefixes(Dns(m)) : query.src \in Hosts[p]
      PROVE  FALSE
  <2>1. m = n /\ RunsUnbound(nodes[n])
    BY <1>1, <1>2 DEF QueryInv, Rendered
  <2>2. Family(query.src) = Family(query.dst)
    BY <1>1 DEF Asking
  <2>3. LetIn(nodes[n], query.src, query.dst)
    BY <1>2, <2>1, <2>2 DEF LetIn, InputPrefixes, Dns
  <2> QED BY <2>3 DEF IsKeptOut
<1>3. RequestersServed'
  BY <1>1, <1>2 DEF RequestersServed, Owners, Dns, Unbounds
<1> QED BY <1>1, <1>3 DEF NothingLeavesAside

LEMMA SilentIs ==
  ASSUME QueryInv, NEW n \in DOMAIN nodes, FindsNobody(n), nodes' = nodes, loop' = loop
  PROVE  RequestersServed' /\ NothingLeavesAside'
<1>1. /\ Asking /\ query'.by = query.by /\ query'.src = query.src /\ query'.dst = query.dst
      /\ query'.state = "silent" /\ n \in Owners(query.dst) /\ daemon' = daemon
  BY EndsKeeps DEF FindsNobody, Enters, Arrives
<1>2. ASSUME NEW m \in Unbounds, Owners(query.dst) = {m}, query.dst \in Dns(m).listen
      PROVE  \A r \in Runs : daemon[m][r] \notin Holding
  <2>1. m = n /\ RunsUnbound(nodes[n])
    BY <1>1, <1>2 DEF QueryInv, Rendered
  <2> QED BY <1>2, <2>1 DEF FindsNobody, Listens, Serving, RunsUnbound, Dns
<1>3. RequestersServed'
  BY <1>1, <1>2 DEF RequestersServed, Owners, Dns, Unbounds
<1> QED BY <1>1, <1>3 DEF NothingLeavesAside

\* A resolver that sends a query on may do so.
LEMMA SentOnIsProper ==
  ASSUME QueryInv, NEW n \in DOMAIN nodes, Heard(n), "resolved" \in DecisionsAt(n), Asking,
         NEW dst \in AskedBy(n)
  PROVE  Proper([node |-> n, src |-> query.src, dst |-> dst], query.q)
<1>1. PICK dns, src, q : q \in Queries /\ dns = nodes[n].dns /\ src = query.src /\ q = query.q
  BY DEF Asking
<1>2. q \in Queries /\ q.name \in DOMAIN Closest
  BY <1>1, QueriesAssumption
<1>3. dns # NoService
  BY <1>1 DEF Heard, Listens, Serving
<1>4. CASE RunsUnbound(nodes[n])
  <2>1. "resolved" \in Verdicts(dns, src, q)
    BY <1>1, <1>4 DEF DecisionsAt
  <2>2. dns.mode # "none" /\ ~Refused(nodes[n]) /\ n \in Unbounds
    BY <1>1, <1>4 DEF QueryInv, Rendered, RunsUnbound
  <2>3. ~ZoneTypeRefused(dns) /\ ~ProtectedRefused(dns) /\ ~AuthorityRefused(dns)
    BY <1>1, <1>3, <2>2 DEF Refused
  <2>4. dns.allow \cup PolicyPrefixes(dns) \subseteq DOMAIN Hosts
    BY <1>1, <1>3, LabsAssumption DEF QueryInv, Rendered
  <2>5. ~KeptAtUnbound(dns, q.name)
    BY <1>2, <2>1, <2>3, KeptIsNotResolved
  <2>6. ~Confined(dns, src)
    BY <2>1, <2>4, ConfinedIsNotResolved
  <2>7. ASSUME dns.mode = "local-only", ForwardsWithin(dns), ForwardsOpened(dns)
        PROVE  Owners(dst) # {}
    <3>1. ~LocalOnlyLeaks(dns)
      BY <2>3, <2>7 DEF AuthorityRefused
    <3>2. PICK a \in Asked(dns, q.name) : a = dst
      BY <1>1, <1>4 DEF AskedBy
    <3>3. \E z \in dns.forwardZones : a \in z.to
      BY <1>2, <2>1, <2>3, <2>7, <3>1, LocalOnlyAsks
    <3> QED BY <2>7, <3>2, <3>3 DEF ForwardsWithin
  <2> QED BY <1>1, <2>2, <2>5, <2>6, <2>7 DEF Proper, Dns
<1>5. CASE ~RunsUnbound(nodes[n])
  <2>1. PICK family : family = Family(query.dst)
    OBVIOUS
  <2>2. ProxyVerdict(dns, family, q) = "resolved"
    BY <1>1, <1>5, <2>1 DEF DecisionsAt
  <2>3. ~KeptAtProxy(dns, q)
    BY <1>2, <2>2, BlockedIsNotResolved
  <2>4. n \notin Unbounds
    BY <1>5 DEF QueryInv, Rendered
  <2> QED BY <1>1, <2>3, <2>4 DEF Proper, Dns
<1> QED BY <1>4, <1>5

LEMMA SentOnKeeps ==
  ASSUME QueryInv, NEW n \in DOMAIN nodes, IsSentOn(n), nodes' = nodes, loop' = loop
  PROVE  /\ AtRest' /\ Asking' /\ Sent'
         /\ RequestersServed' /\ NothingLeavesAside'
<1>1. AtRest /\ Asking /\ Sent /\ query.state = "sent"
  BY DEF QueryInv, IsSentOn, Heard, Enters, Arrives, UnderWay, Idle
<1>2. PICK s \in Sendings(n) :
          /\ query' = [query EXCEPT !.by = n, !.src = s.src, !.dst = s.dst]
          /\ trail' = Append(trail, [node |-> n, src |-> query.src, dst |-> s.dst])
  BY DEF IsSentOn
<1>3. PICK dst \in AskedBy(n) : \E src \in Sources(nodes[n], dst) : s = [node |-> n, src |-> src, dst |-> dst]
  BY DEF Sendings
<1>4. PICK src \in Sources(nodes[n], dst) : s = [node |-> n, src |-> src, dst |-> dst]
  BY <1>3
<1>5. Family(src) = Family(dst)
  BY <1>4 DEF Sources
<1>6. s.src = src /\ s.dst = dst
  BY <1>4
<1>7. query' = [by |-> n, src |-> src, dst |-> dst, q |-> query.q, state |-> "sent"]
  <2>1. PICK by, a, d, q : query = [by |-> by, src |-> a, dst |-> d, q |-> q, state |-> "sent"]
    BY <1>1 DEF Asking
  <2>2. query' = [by |-> n, src |-> src, dst |-> dst, q |-> q, state |-> "sent"]
    BY <1>2, <1>6, <2>1
  <2> QED BY <2>1, <2>2
<1>8. /\ query'.by = n /\ query'.src = src /\ query'.dst = dst
      /\ query'.q = query.q /\ query'.state = "sent"
  BY <1>7
<1>9. AtRest'
  BY <1>1 DEF IsSentOn, AtRest, vars
<1>10. Asking'
  <2>1. n \in Unbounds => dst \in Asked(Dns(n), query.q.name)
    BY DEF QueryInv, Rendered, AskedBy, Dns
  <2> QED BY <1>1, <1>5, <1>7, <1>8, <2>1 DEF Asking, Dns, Unbounds, Family
<1>11. Sent'
  <2>1. PICK step : step = [node |-> n, src |-> query.src, dst |-> dst]
    OBVIOUS
  <2>2. Proper(step, query.q)
    BY <1>1, <2>1, SentOnIsProper DEF IsSentOn
  <2>3. trail' = Append(trail, step) /\ IsSequence(trail)
    BY <1>1, <1>2, <1>6, <2>1 DEF Sent
  <2>4. PICK t : t = trail
    OBVIOUS
  <2>5. /\ IsSequence(Append(t, step))
        /\ \A i \in DOMAIN Append(t, step) :
               Append(t, step)[i] = step \/ (i \in DOMAIN t /\ Append(t, step)[i] = t[i])
    BY <2>3, <2>4, AppendIs
  <2>6. \A i \in DOMAIN trail' : trail'[i] = step \/ (i \in DOMAIN trail /\ trail'[i] = trail[i])
    BY <2>3, <2>4, <2>5
  <2>7. \A i \in DOMAIN trail' : Proper(trail'[i], query.q)
    BY <1>1, <2>2, <2>6 DEF Sent
  <2>8. ASSUME NEW sent, Proper(sent, query.q) PROVE Proper(sent, query.q)'
    BY <1>8, <2>8 DEF Proper, Dns, Unbounds, ForwardsWithin, Owners
  <2> QED BY <2>3, <2>4, <2>5, <2>7, <2>8 DEF Sent
<1>12. RequestersServed' /\ NothingLeavesAside'
  BY <1>8 DEF RequestersServed, NothingLeavesAside
<1> QED BY <1>9, <1>10, <1>11, <1>12

LEMMA QueryStep == QueryInv /\ [DnsNext]_allVars => QueryInv'
<1> SUFFICES ASSUME QueryInv, [DnsNext]_allVars PROVE QueryInv'
  OBVIOUS
<1>1. nodes' = nodes /\ loop' = loop /\ Rendered' /\ LoopInv'
  BY RenderedStays, DnsStepLoops, LoopStep DEF QueryInv
<1> DEFINE Kept == /\ Idle' \/ (AtRest' /\ Asking' /\ Sent')
                   /\ RequestersServed' /\ NothingLeavesAside'
<1> SUFFICES Kept
  BY <1>1 DEF QueryInv
<1>2. CASE Reconciliation
  BY <1>1, <1>2, ReconciliationKeeps
<1>3. ASSUME NEW n \in DOMAIN nodes, Ask(n) PROVE Kept
  BY <1>1, <1>3, AskKeeps
<1>4. CASE IsStopped
  BY <1>1, <1>4, StoppedIs, EndsKeeps DEF IsStopped
<1>5. CASE Leaves
  BY <1>1, <1>5, LeftIs, EndsKeeps DEF Leaves
<1>6. ASSUME NEW n \in DOMAIN nodes, IsKeptOut(n) PROVE Kept
  BY <1>1, <1>6, KeptOutIs, EndsKeeps DEF IsKeptOut, Arrives
<1>7. ASSUME NEW n \in DOMAIN nodes, FindsNobody(n) PROVE Kept
  BY <1>1, <1>7, SilentIs, EndsKeeps DEF FindsNobody, Enters, Arrives
<1>8. ASSUME NEW n \in DOMAIN nodes, IsDecided(n) PROVE Kept
  <2>1. PICK state : Ends(state) /\ state \in DecisionsAt(n)
    BY <1>8 DEF IsDecided
  <2>2. state \in {"refused", "answered", "dropped", "failed", "resolved"}
    BY <2>1 DEF DecisionsAt, Verdicts, Verdict, ProxyVerdict
  <2>3. UnderWay
    BY <1>8 DEF IsDecided, Heard, Enters, Arrives
  <2> QED BY <1>1, <2>1, <2>2, <2>3, OtherEnds, EndsKeeps
<1>9. ASSUME NEW n \in DOMAIN nodes, HasNobodyToAsk(n) PROVE Kept
  <2>1. UnderWay /\ Ends("failed")
    BY <1>9 DEF HasNobodyToAsk, Heard, Enters, Arrives
  <2> QED BY <1>1, <2>1, OtherEnds, EndsKeeps
<1>10. ASSUME NEW n \in DOMAIN nodes, IsSentOn(n) PROVE Kept
  BY <1>1, <1>10, SentOnKeeps
<1>11. CASE ThreadEnds \/ UNCHANGED allVars
  <2>1. UNCHANGED <<vars, nodes, query, trail>>
    BY <1>11 DEF ThreadEnds, allVars, dnsVars
  <2>2. (Idle \/ (AtRest /\ Asking /\ Sent)) => (Idle' \/ (AtRest' /\ Asking' /\ Sent'))
    BY <2>1 DEF Idle, AtRest, Asking, Sent, Proper, Dns, Unbounds, ForwardsWithin, Owners, Family, vars
  <2>3. RequestersServed => RequestersServed'
    BY <2>1 DEF RequestersServed, Dns, Unbounds, Owners, Way, Serving, Guards, Denied, ToldToAsk, vars
  <2>4. NothingLeavesAside => NothingLeavesAside'
    BY <2>1 DEF NothingLeavesAside, Dns, Unbounds, Owners, Way, Serving, Guards, Denied,
                ToldToAsk, ForwardsWithin, vars
  <2> QED BY <2>2, <2>3, <2>4 DEF QueryInv
<1> QED BY <1>2, <1>3, <1>4, <1>5, <1>6, <1>7, <1>8, <1>9, <1>10, <1>11 DEF DnsNext, Resolution

LEMMA QueryIs == DnsSpec => []QueryInv
<1>1. DnsSpec => DnsInit /\ [][DnsNext]_allVars
  BY DEF DnsSpec
<1> QED BY <1>1, DnsStarts, QueryStep, PTL

LEMMA QuerySays == QueryInv => LocalNamesStay /\ RequestersConfined
<1> SUFFICES ASSUME QueryInv PROVE LocalNamesStay /\ RequestersConfined
  OBVIOUS
<1>1. ASSUME NEW i \in DOMAIN trail PROVE Proper(trail[i], query.q)
  BY <1>1 DEF QueryInv, Sent, Idle
<1> QED BY <1>1 DEF LocalNamesStay, RequestersConfined, Proper

\* What is asked about a namespace that a contract protects, blocks or ends by a
\* zone is not passed on by its resolver, unless a closer zone is transparent,
\* whatever the labs, the names and the prefixes are.
THEOREM LocalNamesKept == DnsSpec => []LocalNamesStay
BY QueryIs, QuerySays, PTL

\* Nothing that a requester with refuse_non_local asks is passed on, and nothing that
\* is asked of a local-only resolver leaves the lab.
THEOREM ConfinedStay == DnsSpec => []RequestersConfined
BY QueryIs, QuerySays, PTL

\* A requester that the contract lists is let in, and heard once the loop has ended
\* well; and what a resolver asks its forwarders its own guard does not stop, if its
\* commands have succeeded.
THEOREM RequestersHeard == DnsSpec => []RequestersServed
<1>1. QueryInv => RequestersServed
  BY DEF QueryInv
<1> QED BY <1>1, QueryIs, PTL

\* No query gets to a denied resolver past a guard that was set up, but that of the
\* resolver itself to its forwarders; and where the authority is controlled the name
\* servers of its hierarchy are all that is asked outside, referrals included.
THEOREM NothingAside == DnsSpec => []NothingLeavesAside
<1>1. QueryInv => NothingLeavesAside
  BY DEF QueryInv
<1> QED BY <1>1, QueryIs, PTL
=============================================================================
