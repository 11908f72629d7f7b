--------------------------- MODULE ClabDeployProofs ---------------------------
(***************************************************************************)
(* Proofs about the deploy loop, for every number of attempts, every set   *)
(* of output lines and every size of the fifo; and about the builder of    *)
(* the image it deploys, for every set of runs and keys and any number of  *)
(* repetitions.                                                            *)
(***************************************************************************)
EXTENDS ClabDeployProps, ToolingCache, SequenceTheorems, TLAPS

\* The script has an attempt in its hands from the read loop until it has judged
\* it; InAttempt also covers what follows an accepted attempt.
InAttempt == {"read", "probe", "term", "kill", "wait", "judge", "inspect", "done"}

\* The leader outlives its child, and the script leaves `wait` only without it.
ProcessInv ==
    /\ clab = "alive" => leader = "alive"
    /\ ReaderOpen => leader # "none"
    /\ pc = "wait" => leader \in {"closed", "gone"}
    /\ pc \in Outside => leader \in {"none", "gone"}
    /\ hasSetsid => ~stray

\* What the exit statuses say about the processes.
StatusInv ==
    /\ leader \in {"closed", "gone"} /\ leaderRc = 0 => clab = "ok" /\ ~timedOut
    /\ leaderRc = 124 => timedOut
    /\ pc \in {"judge", "inspect", "done"} =>
          /\ rc = 0 => leaderRc = 0 /\ leader = "gone"
          /\ rc = 67 => sawIdle
          /\ rc = 124 => leaderRc = 124
    /\ pc \in {"inspect", "done"} => CleanAttempt

\* Every mark written is in the log, or still in the fifo, and nothing else is.
OutputInv ==
    /\ log \subseteq wrote
    /\ \A i \in 1 .. Len(fifo) : fifo[i] \subseteq wrote
    /\ \A m \in wrote : m \in log \/ \E i \in 1 .. Len(fifo) : m \in fifo[i]
    /\ readEnd = "eof" => fifo = <<>> /\ clab # "alive"

\* A running containerlab is building the lab of an attempt, one that exited with
\* status 0 has left it complete.
LabInv ==
    /\ pc \in InAttempt => attempt > 0
    /\ hasSetsid =>
          /\ clab = "alive" => lab = "partial"
          /\ clab = "ok" /\ pc \in InAttempt => lab = "full"

-----------------------------------------------------------------------------
IInv == TypeOK /\ ProcessInv /\ StatusInv /\ OutputInv /\ LabInv

\* The invariant holds initially.
LEMMA InitIInv == Init => IInv
  <1> SUFFICES ASSUME Init PROVE IInv
    OBVIOUS
  <1>1. TypeOK
    <2>1. fifo \in Seq(SUBSET Marks)
      BY EmptySeq DEF Init
    <2>2. log \in SUBSET Marks /\ wrote \in SUBSET Marks
      BY DEF Init
    <2>3. attempt \in 0 .. DeployAttempts
      BY DeployAttemptsAssumption DEF Init
    <2> QED
      BY <2>1, <2>2, <2>3 DEF Init, TypeOK, PCs
  <1>2. ProcessInv /\ StatusInv /\ LabInv
    BY DEF Init, ProcessInv, ReaderOpen, StatusInv, LabInv, InAttempt, Outside, Stopped
  <1>3. OutputInv
    BY DEF Init, OutputInv
  <1> QED
    BY <1>1, <1>2, <1>3 DEF IInv

\* Every step preserves it.
LEMMA NextIInv == IInv /\ [Next]_vars => IInv'
  <1> SUFFICES ASSUME IInv, [Next]_vars PROVE IInv'
    OBVIOUS
  <1> USE DeployAttemptsAssumption, LinesAssumption
  <1>1. CASE CleanupStaleLab
    BY <1>1 DEF CleanupStaleLab, IInv, TypeOK, PCs, Marks, ProcessInv, ReaderOpen, StatusInv, OutputInv,
        LabInv, InAttempt, Outside, Stopped, CleanAttempt, scriptVars, processVars
  <1>2. CASE MaterializeBridges
    BY <1>2 DEF MaterializeBridges, IInv, TypeOK, PCs, Marks, ProcessInv, ReaderOpen, StatusInv, OutputInv,
        LabInv, InAttempt, Outside, Stopped, CleanAttempt, scriptVars, processVars
  <1>3. CASE StartAttempt
    <2>1. TypeOK'
      <3>1. fifo' \in Seq(SUBSET Marks)
        BY <1>3, EmptySeq DEF StartAttempt
      <3>2. log' \in SUBSET Marks /\ wrote' \in SUBSET Marks
        BY <1>3 DEF StartAttempt, FreshLog
      <3>3. attempt' \in 0 .. DeployAttempts
        BY <1>3 DEF StartAttempt, AttemptsLeft, IInv, TypeOK
      <3> QED
        BY <1>3, <3>1, <3>2, <3>3 DEF StartAttempt, IInv, TypeOK, PCs
    <2>2. ProcessInv' /\ LabInv'
      BY <1>3 DEF StartAttempt, AttemptsLeft, FreshLog, IInv, TypeOK, ProcessInv, ReaderOpen, LabInv,
          InAttempt, Outside,
          Stopped, processVars
    <2>3. StatusInv'
      BY <1>3 DEF StartAttempt, AttemptsLeft, FreshLog, IInv, TypeOK, ProcessInv, StatusInv, CleanAttempt,
          processVars
    <2>4. OutputInv'
      BY <1>3 DEF StartAttempt, AttemptsLeft, FreshLog, IInv, TypeOK, OutputInv, processVars
    <2> QED
      BY <2>1, <2>2, <2>3, <2>4 DEF IInv
  <1>4. CASE ReadLine
    <2> DEFINE line == Head(fifo)
    <2>0. /\ fifo' \in Seq(SUBSET Marks)
          /\ line \subseteq Marks
          /\ fifo[1] = line
          /\ Len(fifo) \in Nat \ {0}
          /\ Len(fifo') = Len(fifo) - 1
          /\ \A i \in 1 .. Len(fifo') : fifo'[i] = fifo[i + 1]
      BY <1>4, HeadTailProperties DEF ReadLine, IInv, TypeOK
    <2>1. TypeOK'
      BY <1>4, <2>0 DEF ReadLine, IInv, TypeOK, PCs, processVars
    <2>2. ProcessInv' /\ LabInv'
      BY <1>4 DEF ReadLine, IInv, TypeOK, ProcessInv, ReaderOpen, LabInv,
          InAttempt, Outside,
          Stopped, processVars
    <2>3. StatusInv'
      BY <1>4 DEF ReadLine, IInv, TypeOK, ProcessInv, StatusInv, CleanAttempt,
          processVars
    <2>4. OutputInv'
      <3>1. /\ log' = log \cup line
            /\ wrote' = wrote
            /\ clab' = clab
            /\ fifo # <<>>
            /\ readEnd' \in {"ERRO", readEnd}
        BY <1>4 DEF ReadLine, processVars
      <3>2. log' \subseteq wrote'
        BY <2>0, <3>1 DEF IInv, OutputInv
      <3>3. \A i \in 1 .. Len(fifo') : fifo'[i] \subseteq wrote'
        BY <2>0, <3>1 DEF IInv, OutputInv
      <3>4. ASSUME NEW m \in wrote', m \notin log'
            PROVE  \E i \in 1 .. Len(fifo') : m \in fifo'[i]
        <4>1. PICK i \in 1 .. Len(fifo) : m \in fifo[i]
          BY <3>1, <3>4 DEF IInv, OutputInv
        <4>2. i # 1 /\ i - 1 \in 1 .. Len(fifo')
          BY <2>0, <3>1, <3>4, <4>1
        <4>3. fifo'[i - 1] = fifo[i]
          BY <2>0, <4>2
        <4> QED
          BY <4>1, <4>2, <4>3
      <3>5. readEnd' # "eof"
        BY <3>1 DEF IInv, OutputInv
      <3> QED
        BY <3>2, <3>3, <3>4, <3>5 DEF OutputInv
    <2> QED
      BY <2>1, <2>2, <2>3, <2>4 DEF IInv
  <1>5. CASE ReadFails
    BY <1>5 DEF ReadFails, WritersGone, IInv, TypeOK, PCs, Marks, ProcessInv, ReaderOpen, StatusInv, OutputInv,
        LabInv, InAttempt, Outside, Stopped, CleanAttempt, scriptVars, processVars
  <1>6. CASE ProbeDeployPid
    <2>1. TypeOK'
      BY <1>6 DEF ProbeDeployPid, IInv, TypeOK, PCs, Marks, processVars
    <2>2. ProcessInv' /\ LabInv'
      BY <1>6 DEF ProbeDeployPid, IInv, TypeOK, ProcessInv, ReaderOpen, LabInv,
          InAttempt, Outside,
          Stopped, processVars
    <2>3. StatusInv'
      BY <1>6 DEF ProbeDeployPid, IInv, TypeOK, ProcessInv, StatusInv, CleanAttempt,
          processVars
    <2>4. OutputInv'
      BY <1>6 DEF ProbeDeployPid, IInv, TypeOK, OutputInv, processVars
    <2> QED
      BY <2>1, <2>2, <2>3, <2>4 DEF IInv
  <1>7. CASE StopTerm
    BY <1>7 DEF StopTerm, IInv, TypeOK, PCs, Marks, ProcessInv, ReaderOpen, StatusInv, OutputInv,
        LabInv, InAttempt, Outside, Stopped, CleanAttempt, scriptVars, processVars
  <1>8. CASE StopKill
    <2>1. TypeOK'
      BY <1>8 DEF StopKill, KillsGroup, IInv, TypeOK, PCs, Marks, processVars
    <2>2. ProcessInv' /\ LabInv'
      BY <1>8 DEF StopKill, KillsGroup, IInv, TypeOK, ProcessInv, ReaderOpen, LabInv,
          InAttempt, Outside,
          Stopped, processVars
    <2>3. StatusInv'
      BY <1>8 DEF StopKill, KillsGroup, IInv, TypeOK, ProcessInv, StatusInv, CleanAttempt,
          processVars
    <2>4. OutputInv'
      BY <1>8 DEF StopKill, KillsGroup, IInv, TypeOK, OutputInv, processVars
    <2> QED
      BY <2>1, <2>2, <2>3, <2>4 DEF IInv
  <1>9. CASE WaitDeployPid
    BY <1>9 DEF WaitDeployPid, IInv, TypeOK, PCs, Marks, ProcessInv, ReaderOpen, StatusInv, OutputInv,
        LabInv, InAttempt, Outside, Stopped, CleanAttempt, scriptVars, processVars
  <1>10. CASE AcceptAttempt
    BY <1>10 DEF AcceptAttempt, IInv, TypeOK, PCs, Marks, ProcessInv, ReaderOpen, StatusInv, OutputInv,
        LabInv, InAttempt, Outside, Stopped, CleanAttempt, scriptVars, processVars
  <1>11. CASE RetryAttempt
    BY <1>11 DEF RetryAttempt, AttemptsLeft, IInv, TypeOK, PCs, Marks, ProcessInv, ReaderOpen, StatusInv, OutputInv,
        LabInv, InAttempt, Outside, Stopped, CleanAttempt, scriptVars, processVars
  <1>12. CASE GiveUp
    BY <1>12 DEF GiveUp, IInv, TypeOK, PCs, Marks, ProcessInv, ReaderOpen, StatusInv, OutputInv,
        LabInv, InAttempt, Outside, Stopped, CleanAttempt, scriptVars, processVars
  <1>13. CASE InspectLab
    BY <1>13 DEF InspectLab, IInv, TypeOK, PCs, Marks, ProcessInv, ReaderOpen, StatusInv, OutputInv,
        LabInv, InAttempt, Outside, Stopped, CleanAttempt, scriptVars, processVars
  <1>14. CASE ClabWrites
    BY <1>14 DEF ClabWrites, IInv, TypeOK, PCs, Marks, ProcessInv, ReaderOpen, StatusInv, OutputInv,
        LabInv, InAttempt, Outside, Stopped, CleanAttempt, scriptVars, processVars
  <1>15. CASE ClabExits
    BY <1>15 DEF ClabExits, IInv, TypeOK, PCs, Marks, ProcessInv, ReaderOpen, StatusInv, OutputInv,
        LabInv, InAttempt, Outside, Stopped, CleanAttempt, scriptVars, processVars
  <1>16. CASE DeployTimer
    BY <1>16 DEF DeployTimer, IInv, TypeOK, PCs, Marks, ProcessInv, ReaderOpen, StatusInv, OutputInv,
        LabInv, InAttempt, Outside, Stopped, CleanAttempt, scriptVars, processVars
  <1>17. CASE LeaderExits
    BY <1>17 DEF LeaderExits, IInv, TypeOK, PCs, Marks, ProcessInv, ReaderOpen, StatusInv, OutputInv,
        LabInv, InAttempt, Outside, Stopped, CleanAttempt, scriptVars, processVars
  <1>18. CASE LeaderReaped
    BY <1>18 DEF LeaderReaped, IInv, TypeOK, PCs, Marks, ProcessInv, ReaderOpen, StatusInv, OutputInv,
        LabInv, InAttempt, Outside, Stopped, CleanAttempt, scriptVars, processVars
  <1>19. CASE StrayBuilds
    BY <1>19 DEF StrayBuilds, IInv, TypeOK, PCs, Marks, ProcessInv, ReaderOpen, StatusInv, OutputInv,
        LabInv, InAttempt, Outside, Stopped, CleanAttempt, scriptVars, processVars
  <1>20. CASE Finished \/ UNCHANGED vars
    BY <1>20 DEF Finished, vars, IInv, TypeOK, ProcessInv, ReaderOpen, StatusInv, OutputInv, LabInv,
        CleanAttempt, scriptVars, processVars
  <1> QED
    BY <1>1, <1>2, <1>3, <1>4, <1>5, <1>6, <1>7, <1>8, <1>9, <1>10, <1>11, <1>12, <1>13, <1>14, <1>15, <1>16, <1>17, <1>18, <1>19, <1>20 DEF Next, Script, Watcher, Processes

\* The invariant is an invariant of the specification.
THEOREM Invariance == Spec => []IInv
  BY InitIInv, NextIInv, PTL DEF Spec

-----------------------------------------------------------------------------
\* The variables of the deploy loop keep their types.
THEOREM TypeCorrect == Spec => []TypeOK
  <1>1. IInv => TypeOK
    BY DEF IInv
  <1> QED
    BY <1>1, Invariance, PTL

\* Whatever the attempts, lines and timers: an accepted attempt's containerlab
\* exited with status 0 in time, and wrote no ERRO line that could be read.
LEMMA AcceptedFromIInv == IInv => AcceptedIsClean
  <1> SUFFICES ASSUME IInv, pc \in {"inspect", "done"}
               PROVE  /\ clab = "ok" /\ ~timedOut
                      /\ readEnd = "eof" => "ERRO" \notin wrote
    BY DEF AcceptedIsClean
  <1>1. leaderRc = 0 /\ leader = "gone" /\ "ERRO" \notin log
    BY DEF IInv, StatusInv, CleanAttempt
  <1>2. clab = "ok" /\ ~timedOut
    BY <1>1 DEF IInv, StatusInv
  <1>3. ASSUME readEnd = "eof" PROVE "ERRO" \notin wrote
    <2>1. Len(fifo) = 0
      BY <1>3, EmptySeq DEF IInv, OutputInv
    <2> QED
      BY <1>1, <2>1 DEF IInv, OutputInv
  <1> QED
    BY <1>2, <1>3

THEOREM AcceptedClean == Spec => []AcceptedIsClean
  BY AcceptedFromIInv, Invariance, PTL

\* Where setsid exists, no attempt outlives the watcher's judgement of it.
THEOREM NothingLeft == Spec => []NothingLeftRunning
  <1>1. IInv => NothingLeftRunning
    BY DEF IInv, ProcessInv, NothingLeftRunning
  <1> QED
    BY <1>1, Invariance, PTL

\* Where setsid exists, an accepted lab is complete and stays so.
THEOREM AcceptedStays == Spec => []AcceptedLabStays
  <1>1. IInv /\ AcceptedIsClean => AcceptedLabStays
    BY DEF IInv, LabInv, AcceptedIsClean, AcceptedLabStays, InAttempt
  <1> QED
    BY <1>1, Invariance, AcceptedClean, PTL

\* No attempt is repeated without a cause of its own.
LEMMA RetryCauseStep ==
    IInv /\ [Next]_vars => (pc = "judge" /\ pc' = "cleanup" => RetryCause)
  <1> SUFFICES ASSUME IInv, [Next]_vars, pc = "judge", pc' = "cleanup"
               PROVE  RetryCause
    OBVIOUS
  <1>1. Retryable
    BY DEF Next, Script, Watcher, Processes, CleanupStaleLab, MaterializeBridges,
      StartAttempt, ReadLine, ReadFails, ProbeDeployPid, StopTerm, StopKill,
      WaitDeployPid, AcceptAttempt, RetryAttempt, GiveUp, InspectLab, ClabWrites,
      ClabExits, DeployTimer, LeaderExits, LeaderReaped, StrayBuilds, Finished,
      vars, scriptVars
  <1>2. CASE log \cap {"statfs", "fileExists"} # {}
    BY <1>2 DEF IInv, OutputInv, RetryCause
  <1>3. CASE rc = 67
    BY <1>3 DEF IInv, StatusInv, RetryCause
  <1>4. CASE rc = 124
    BY <1>4 DEF IInv, StatusInv, RetryCause
  <1> QED
    BY <1>1, <1>2, <1>3, <1>4 DEF Retryable

THEOREM RetryCaused == Spec => RetryHasCause
  <1>1. IInv /\ [Next]_vars => [pc = "judge" /\ pc' = "cleanup" => RetryCause]_vars
    BY RetryCauseStep
  <1> QED
    BY <1>1, Invariance, PTL DEF Spec, RetryHasCause

-----------------------------------------------------------------------------
\* deploy_lab implements the contract of its caller.
LEMMA ContractInit == Init => Contract!Init
  BY DEF Init, Contract!Init, Outcome

LEMMA ContractStep ==
    IInv /\ [Next]_vars => [Contract!Next]_(Contract!contractVars)
  <1> SUFFICES ASSUME IInv, [Next]_vars
               PROVE  Contract!Next \/ UNCHANGED <<Outcome, attempt, lab, hasSetsid>>
    BY DEF Contract!contractVars
  <1> USE DEF Outcome, Contract!Next, processVars
  <1>1. CASE CleanupStaleLab
    BY <1>1 DEF CleanupStaleLab, Contract!TakeDown, IInv, TypeOK
  <1>2. CASE MaterializeBridges
    BY <1>2 DEF MaterializeBridges, Contract!Fail
  <1>3. CASE StartAttempt
    BY <1>3 DEF StartAttempt, AttemptsLeft, Contract!Try
  <1>4. CASE ReadLine \/ ReadFails \/ ProbeDeployPid \/ StopTerm \/ StopKill
             \/ WaitDeployPid \/ AcceptAttempt \/ RetryAttempt
    BY <1>4 DEF ReadLine, ReadFails, ProbeDeployPid, StopTerm, StopKill,
      WaitDeployPid, AcceptAttempt, RetryAttempt
  <1>5. CASE GiveUp
    BY <1>5 DEF GiveUp, Contract!Fail
  <1>6. CASE InspectLab
    <2>1. (hasSetsid => lab = "full") /\ attempt > 0
      BY <1>6, AcceptedFromIInv DEF InspectLab, IInv, LabInv, InAttempt, AcceptedIsClean
    <2> QED
      BY <1>6, <2>1 DEF InspectLab, Contract!Succeed, Contract!Fail
  <1>7. CASE ClabExits
    <2>1. pc \in InAttempt \ {"done"} /\ pc \notin Stopped
      BY <1>7 DEF ClabExits, IInv, TypeOK, PCs, ProcessInv, Outside, Stopped, InAttempt
    <2>2. (hasSetsid => lab = "partial") /\ attempt > 0
      BY <1>7, <2>1 DEF ClabExits, IInv, LabInv
    <2> QED
      BY <1>7, <2>1, <2>2
      DEF ClabExits, scriptVars, Stopped, IInv, TypeOK, Contract!Complete, Contract!Disturb
  <1>8. CASE ClabWrites \/ DeployTimer \/ LeaderExits \/ LeaderReaped
    BY <1>8 DEF ClabWrites, DeployTimer, LeaderExits, LeaderReaped, scriptVars
  <1>9. CASE StrayBuilds
    BY <1>9 DEF StrayBuilds, scriptVars, IInv, TypeOK, ProcessInv, Contract!Disturb
  <1>10. CASE Finished \/ UNCHANGED vars
    BY <1>10 DEF Finished, vars, scriptVars
  <1> QED
    BY <1>1, <1>2, <1>3, <1>4, <1>5, <1>6, <1>7, <1>8, <1>9, <1>10
    DEF Next, Script, Watcher, Processes

THEOREM Refinement == Spec => ImplementsContract
  <1>1. IInv /\ [Next]_vars => [Contract!Next]_(Contract!contractVars)
    BY ContractStep
  <1> QED
    BY <1>1, ContractInit, Invariance, PTL DEF Spec, ImplementsContract, Contract!Spec
(***************************************************************************)
(* The image and its cache                                                 *)
(***************************************************************************)

\* An image that a run has built, or the foreign one, with the key of its origin.
Named(i) == i.id \in DOMAIN origin /\ i.key = origin[i.id]

\* The types, as far as the arguments need them.
Shape ==
    /\ place \in [Runs -> Places]
    /\ present \in [Runs -> BOOLEAN]
    /\ built \in [Runs -> BOOLEAN]
    /\ saved \in [Runs -> BOOLEAN]
    /\ DOMAIN tar = Keys
    /\ DOMAIN idFile = Keys
    /\ origin \in Seq(Keys \cup {NoKey})

\* What holds an archive: the flags and the position of a run say that its key
\* has one, which nothing takes away again.
ArchiveInv ==
    \A r \in Runs :
        (\/ present[r]
         \/ saved[r]
         \/ place[r] = "saveId"
         \/ SaveCache /\ place[r] = "diagnose" /\ ~built[r]
         \/ SaveCache /\ place[r] \in {"skipped", "evidence", "ready"})
        => tar[KeyOf[r]] # NoImage

\* Every image has a name.
NamesInv ==
    /\ image # NoImage => Named(image)
    /\ \A k \in Keys : tar[k] # NoImage => Named(tar[k])

\* The runs that are under way have the same inputs, and those that have found the
\* tag usable, or have built, find an image of these inputs there or none.
TagInv ==
    KeptApart =>
        /\ \A q, r \in Runs : Active(q) /\ Active(r) => KeyOf[q] = KeyOf[r]
        /\ \A r \in Runs :
              place[r] \in {"use", "seed", "save", "saveId"} /\ image # NoImage => image.key = KeyOf[r]

\* What the files of a key hold has that key.
FilesInv ==
    KeptApart =>
        \A k \in Keys :
            /\ tar[k] # NoImage => tar[k].key = k
            /\ idFile[k] # NoId => idFile[k] \in DOMAIN origin /\ origin[idFile[k]] = k

CacheInv == Shape /\ ArchiveInv /\ NamesInv /\ TagInv /\ FilesInv

-----------------------------------------------------------------------------
\* The invariant holds initially.
LEMMA CacheStarts == CacheInit => CacheInv
  BY DEF CacheInit, CacheInv, Shape, ArchiveInv, NamesInv, TagInv, FilesInv, Named, Active, Places,
      Foreign, NoImage, NoId

\* A usable image is one of the inputs.
LEMMA UsableIsOwn ==
    ASSUME KeptApart, Shape, NamesInv, FilesInv, NEW r \in Runs, IsUsable(r)
    PROVE  image.key = KeyOf[r]
  <1>1. MatchesCacheKey(KeyOf[r]) /\ KeyOf[r] \in Keys
    BY KeysAssumption, FlagsAssumption DEF IsUsable, KeptApart, NoForeign
  <1>2. CASE IdMatches(KeyOf[r])
    <2>1. image # NoImage /\ image.id = idFile[KeyOf[r]] /\ Named(image)
      BY <1>2 DEF IdMatches, HasImage, NamesInv
    <2>2. image.id # NoId
      BY <2>1 DEF Named, Shape, NoId
    <2> QED
      BY <1>1, <2>1, <2>2 DEF Named, FilesInv
  <1> QED
    BY <1>1, <1>2 DEF MatchesCacheKey

\* Every step preserves it.
LEMMA CacheInductive == CacheInv /\ [CacheNext]_toolingVars => CacheInv'
  <1> SUFFICES ASSUME CacheInv, [CacheNext]_toolingVars PROVE CacheInv'
    OBVIOUS
  <1> USE KeysAssumption, FlagsAssumption
  <1>1. ASSUME NEW r \in Runs, Begin(r) PROVE CacheInv'
    <2>1. Shape'
      BY <1>1 DEF Begin, Goto, flagVars, cacheVars, CacheInv, Shape, Places, Ended, Foreign
    <2>2. ArchiveInv'
      BY <1>1 DEF Begin, Goto, flagVars, cacheVars, CacheInv, Shape, ArchiveInv, Active, Ended
    <2>3. NamesInv'
      BY <1>1 DEF Begin, Goto, flagVars, cacheVars, CacheInv, Shape, NamesInv, Named
    <2>4. TagInv'
      BY <1>1 DEF Begin, Goto, flagVars, cacheVars, CacheInv, Shape, TagInv, KeptApart, Active, Ended
    <2>5. FilesInv'
      BY <1>1 DEF Begin, Goto, flagVars, cacheVars, CacheInv, Shape, FilesInv, KeptApart
    <2> QED
      BY <2>1, <2>2, <2>3, <2>4, <2>5 DEF CacheInv
  <1>2. ASSUME NEW r \in Runs, MaybeLoadCachedImage(r) PROVE CacheInv'
    <2>1. Shape'
      BY <1>2 DEF MaybeLoadCachedImage, Goto, flagVars, cacheVars, CacheInv, Shape, Places, Ended, Foreign
    <2>2. ArchiveInv'
      BY <1>2 DEF MaybeLoadCachedImage, Goto, flagVars, cacheVars, CacheInv, Shape, ArchiveInv, Active, Ended
    <2>3. NamesInv'
      BY <1>2 DEF MaybeLoadCachedImage, Goto, flagVars, cacheVars, CacheInv, Shape, NamesInv, Named
    <2>4. TagInv'
      BY <1>2 DEF MaybeLoadCachedImage, Goto, flagVars, cacheVars, CacheInv, Shape, TagInv, FilesInv, KeptApart, Active, Ended
    <2>5. FilesInv'
      BY <1>2 DEF MaybeLoadCachedImage, Goto, flagVars, cacheVars, CacheInv, Shape, FilesInv, KeptApart
    <2> QED
      BY <2>1, <2>2, <2>3, <2>4, <2>5 DEF CacheInv
  <1>3. ASSUME NEW r \in Runs, Decide(r) PROVE CacheInv'
    <2>1. Shape'
      BY <1>3 DEF Decide, Goto, flagVars, cacheVars, CacheInv, Shape, Places, Ended, Foreign
    <2>2. ArchiveInv'
      BY <1>3 DEF Decide, Goto, flagVars, cacheVars, CacheInv, Shape, ArchiveInv, Active, Ended
    <2>3. NamesInv'
      BY <1>3 DEF Decide, Goto, flagVars, cacheVars, CacheInv, Shape, NamesInv, Named
    <2>4. TagInv'
      BY <1>3, UsableIsOwn DEF Decide, Goto, flagVars, cacheVars, CacheInv, Shape, TagInv, KeptApart, Active, Ended
    <2>5. FilesInv'
      BY <1>3 DEF Decide, Goto, flagVars, cacheVars, CacheInv, Shape, FilesInv, KeptApart
    <2> QED
      BY <2>1, <2>2, <2>3, <2>4, <2>5 DEF CacheInv
  <1>4. ASSUME NEW r \in Runs, Build(r) PROVE CacheInv'
    <2>1. Shape'
      BY <1>4 DEF Build, Goto, flagVars, cacheVars, CacheInv, Shape, Places, Ended, Foreign
    <2>2. ArchiveInv'
      BY <1>4 DEF Build, Goto, flagVars, cacheVars, CacheInv, Shape, ArchiveInv, Active, Ended
    <2>3. NamesInv'
      BY <1>4 DEF Build, Goto, flagVars, cacheVars, CacheInv, Shape, NamesInv, Named
    <2>4. TagInv'
      BY <1>4 DEF Build, Goto, flagVars, cacheVars, CacheInv, Shape, TagInv, KeptApart, Active, Ended
    <2>5. FilesInv'
      BY <1>4 DEF Build, Goto, flagVars, cacheVars, CacheInv, Shape, FilesInv, KeptApart
    <2> QED
      BY <2>1, <2>2, <2>3, <2>4, <2>5 DEF CacheInv
  <1>5. ASSUME NEW r \in Runs, UseExisting(r) PROVE CacheInv'
    <2>1. Shape'
      BY <1>5 DEF UseExisting, Goto, flagVars, cacheVars, CacheInv, Shape, Places, Ended, Foreign
    <2>2. ArchiveInv'
      BY <1>5 DEF UseExisting, Goto, flagVars, cacheVars, CacheInv, Shape, ArchiveInv, Active, Ended, HasImage
    <2>3. NamesInv'
      BY <1>5 DEF UseExisting, Goto, flagVars, cacheVars, CacheInv, Shape, NamesInv, Named, HasImage
    <2>4. TagInv'
      BY <1>5 DEF UseExisting, Goto, flagVars, cacheVars, CacheInv, Shape, TagInv, KeptApart, Active, Ended, HasImage
    <2>5. FilesInv'
      BY <1>5 DEF UseExisting, Goto, flagVars, cacheVars, CacheInv, Shape, FilesInv, KeptApart, HasImage
    <2> QED
      BY <2>1, <2>2, <2>3, <2>4, <2>5 DEF CacheInv
  <1>6. ASSUME NEW r \in Runs, SaveTar(r) PROVE CacheInv'
    <2>1. Shape'
      BY <1>6 DEF SaveTar, Goto, flagVars, cacheVars, CacheInv, Shape, Places, Ended, Foreign
    <2>2. ArchiveInv'
      BY <1>6 DEF SaveTar, Goto, flagVars, cacheVars, CacheInv, Shape, ArchiveInv, Active, Ended, HasImage
    <2>3. NamesInv'
      BY <1>6 DEF SaveTar, Goto, flagVars, cacheVars, CacheInv, Shape, NamesInv, Named, HasImage
    <2>4. TagInv'
      BY <1>6 DEF SaveTar, Goto, flagVars, cacheVars, CacheInv, Shape, TagInv, KeptApart, Active, Ended, HasImage
    <2>5. FilesInv'
      BY <1>6 DEF SaveTar, Goto, flagVars, cacheVars, CacheInv, Shape, NamesInv, Named, TagInv, NoId, NoImage, FilesInv, KeptApart, HasImage
    <2> QED
      BY <2>1, <2>2, <2>3, <2>4, <2>5 DEF CacheInv
  <1>7. ASSUME NEW r \in Runs, SaveId(r) PROVE CacheInv'
    <2>1. Shape'
      BY <1>7 DEF SaveId, Goto, flagVars, cacheVars, CacheInv, Shape, Places, Ended, Foreign
    <2>2. ArchiveInv'
      BY <1>7 DEF SaveId, Goto, flagVars, cacheVars, CacheInv, Shape, ArchiveInv, Active, Ended, HasImage
    <2>3. NamesInv'
      BY <1>7 DEF SaveId, Goto, flagVars, cacheVars, CacheInv, Shape, NamesInv, Named, HasImage
    <2>4. TagInv'
      BY <1>7 DEF SaveId, Goto, flagVars, cacheVars, CacheInv, Shape, TagInv, KeptApart, Active, Ended, HasImage
    <2>5. FilesInv'
      BY <1>7 DEF SaveId, Goto, flagVars, cacheVars, CacheInv, Shape, NamesInv, Named, TagInv, NoId, NoImage, FilesInv, KeptApart, HasImage
    <2> QED
      BY <2>1, <2>2, <2>3, <2>4, <2>5 DEF CacheInv
  <1>8. ASSUME NEW r \in Runs, Diagnose(r) PROVE CacheInv'
    <2>1. Shape'
      BY <1>8 DEF Diagnose, Goto, flagVars, cacheVars, CacheInv, Shape, Places, Ended, Foreign
    <2>2. ArchiveInv'
      BY <1>8 DEF Diagnose, Goto, flagVars, cacheVars, CacheInv, Shape, ArchiveInv, Active, Ended
    <2>3. NamesInv'
      BY <1>8 DEF Diagnose, Goto, flagVars, cacheVars, CacheInv, Shape, NamesInv, Named
    <2>4. TagInv'
      BY <1>8 DEF Diagnose, Goto, flagVars, cacheVars, CacheInv, Shape, TagInv, KeptApart, Active, Ended
    <2>5. FilesInv'
      BY <1>8 DEF Diagnose, Goto, flagVars, cacheVars, CacheInv, Shape, FilesInv, KeptApart
    <2> QED
      BY <2>1, <2>2, <2>3, <2>4, <2>5 DEF CacheInv
  <1>9. ASSUME NEW r \in Runs, WriteCacheEvidence(r) PROVE CacheInv'
    <2>1. Shape'
      BY <1>9 DEF WriteCacheEvidence, Goto, flagVars, cacheVars, CacheInv, Shape, Places, Ended, Foreign
    <2>2. ArchiveInv'
      BY <1>9 DEF WriteCacheEvidence, Goto, flagVars, cacheVars, CacheInv, Shape, ArchiveInv, Active, Ended
    <2>3. NamesInv'
      BY <1>9 DEF WriteCacheEvidence, Goto, flagVars, cacheVars, CacheInv, Shape, NamesInv, Named
    <2>4. TagInv'
      BY <1>9 DEF WriteCacheEvidence, Goto, flagVars, cacheVars, CacheInv, Shape, TagInv, KeptApart, Active, Ended
    <2>5. FilesInv'
      BY <1>9 DEF WriteCacheEvidence, Goto, flagVars, cacheVars, CacheInv, Shape, FilesInv, KeptApart
    <2> QED
      BY <2>1, <2>2, <2>3, <2>4, <2>5 DEF CacheInv
  <1>10. ASSUME NEW r \in Runs, Stops(r) PROVE CacheInv'
    <2>1. Shape'
      BY <1>10 DEF Stops, Goto, flagVars, cacheVars, CacheInv, Shape, Places, Ended, Foreign
    <2>2. ArchiveInv'
      BY <1>10 DEF Stops, Goto, flagVars, cacheVars, CacheInv, Shape, ArchiveInv, Active, Ended
    <2>3. NamesInv'
      BY <1>10 DEF Stops, Goto, flagVars, cacheVars, CacheInv, Shape, NamesInv, Named
    <2>4. TagInv'
      BY <1>10 DEF Stops, Goto, flagVars, cacheVars, CacheInv, Shape, TagInv, KeptApart, Active, Ended
    <2>5. FilesInv'
      BY <1>10 DEF Stops, Goto, flagVars, cacheVars, CacheInv, Shape, FilesInv, KeptApart
    <2> QED
      BY <2>1, <2>2, <2>3, <2>4, <2>5 DEF CacheInv
  <1>11. CASE ImageRemoved
    BY <1>11 DEF ImageRemoved, flagVars, cacheVars, CacheInv, Shape, ArchiveInv, NamesInv, Named, TagInv,
        FilesInv, KeptApart, Active
  <1>12. CASE UNCHANGED toolingVars
    BY <1>12 DEF toolingVars, CacheInv, Shape, ArchiveInv, NamesInv, Named, TagInv, FilesInv, KeptApart, Active
  <1> QED
    BY <1>1, <1>2, <1>3, <1>4, <1>5, <1>6, <1>7, <1>8, <1>9, <1>10, <1>11, <1>12 DEF CacheNext

\* The invariant holds in every reachable state.
LEMMA CacheInvariance == CacheSpec => []CacheInv
  BY CacheStarts, CacheInductive, PTL DEF CacheSpec

\* The archive and the id file of a key hold what was built for that key, over any
\* number of versions of the inputs and of runs that overlap or are killed, as long as
\* no runs of different versions have overlapped.
THEOREM CacheOfKey == CacheSpec => []CacheHoldsItsKey
  <1>1. CacheInv => CacheHoldsItsKey
    BY DEF CacheInv, FilesInv, CacheHoldsItsKey
  <1> QED
    BY <1>1, CacheInvariance, PTL

\* A run that is ready has an archive of its key, and its inputs have been built.
THEOREM ReadyCached == CacheSpec => []ReadyMeansCached
  <1>1. CacheInv => ReadyMeansCached
    <2> SUFFICES ASSUME CacheInv, KeptApart, SaveCache, NEW r \in Runs, place[r] = "ready"
                 PROVE  WasBuilt(KeyOf[r]) /\ tar[KeyOf[r]] # NoImage
      BY DEF ReadyMeansCached
    <2>1. KeyOf[r] \in Keys /\ tar[KeyOf[r]] # NoImage
      BY KeysAssumption DEF CacheInv, ArchiveInv
    <2> QED
      BY <2>1 DEF CacheInv, NamesInv, Named, FilesInv, WasBuilt
  <1> QED
    BY <1>1, CacheInvariance, PTL

\* A run refused for using an existing image has left an archive of its key.
THEOREM RefusedSeeded == CacheSpec => []RefusedRunSeeded
  <1>1. CacheInv => RefusedRunSeeded
    BY DEF CacheInv, ArchiveInv, RefusedRunSeeded
  <1> QED
    BY <1>1, CacheInvariance, PTL
=============================================================================
