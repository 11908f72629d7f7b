--------------------------- MODULE NodeBootProofs ---------------------------
(***************************************************************************)
(* The exec bundles of a node keep its commands in order, for bundles of   *)
(* every size, waits of every length and every number of lives; and the    *)
(* firewall that they build does what the intent of the node says, for     *)
(* every node and at every point of its boot.                              *)
(***************************************************************************)
EXTENDS NodeBootProps, ListLemmas, SequenceTheorems, TLAPS

PCs == {"idle", "wait", "run", "done", "failed"}

ExecTypes ==
    /\ total \in Nat /\ life \in 1 .. Lives
    /\ pc \in [Bundles -> PCs]
    /\ at \in [Bundles -> Nat]
    /\ waited \in [Bundles -> Nat]
    /\ ran \in Seq(Nat)
    /\ ready \subseteq (1 .. life) \X Bundles

\* A script that runs commands is at the next one; before it, all are done.
Turn(b) ==
    /\ pc[b] = "run" =>
            at[b] = Len(ran) + 1 /\ BeginOf(b) <= at[b] /\ at[b] <= EndOf(b) + 1
    /\ pc[b] = "done" => EndOf(b) <= Len(ran)
    /\ pc[b] \in {"idle", "wait"} => Len(ran) < BeginOf(b) /\ at[b] = BeginOf(b)
    /\ <<life, b>> \in ready => pc[b] = "done"
    /\ pc[b] \in {"run", "done"} \/ at[b] # BeginOf(b) =>
            \A c \in Bundles : c < b => pc[c] = "done"

ExecInv == ExecTypes /\ InOrder /\ \A b \in Bundles : Turn(b)

\* Commands of different bundles do not overlap.
LEMMA Products ==
    ASSUME NEW b \in Nat, NEW c \in Nat, NEW s \in Nat \ {0}, c < b
    PROVE  c * s \in Nat /\ (b - 1) * s \in Nat /\ b * s \in Nat
           /\ c * s <= (b - 1) * s /\ b * s = (b - 1) * s + s
<1> DEFINE d == (b - 1) - c
<1>1. d \in Nat /\ b - 1 = c + d /\ b - 1 \in Nat
  OBVIOUS
<1>2. (c + d) * s = c * s + d * s
  BY <1>1
<1>3. d * s \in Nat /\ c * s \in Nat
  BY <1>1
<1>4. b * s = (b - 1) * s + s
  BY <1>1
<1> HIDE DEF d
<1> QED
  BY <1>1, <1>2, <1>3, <1>4

\* What a bundle holds.
LEMMA Cuts ==
    ASSUME total \in Nat, NEW b \in Bundles
    PROVE  /\ b \in Nat /\ b >= 1 /\ BeginOf(b) \in Nat /\ EndOf(b) \in Nat
           /\ BeginOf(b) <= EndOf(b) /\ BeginOf(b) >= 1
           /\ b = 1 => BeginOf(b) = 1
           /\ \A c \in Bundles : c < b => EndOf(c) < BeginOf(b)
           /\ b > 1 => b - 1 \in Bundles /\ EndOf(b - 1) + 1 = BeginOf(b)
<1>1. b \in Nat /\ b >= 1 /\ b <= total /\ (b - 1) * BundleSize < total
  BY DEF Bundles
<1>2. /\ (b - 1) * BundleSize \in Nat /\ b * BundleSize \in Nat
      /\ b * BundleSize = (b - 1) * BundleSize + BundleSize
  BY <1>1, 0 < b, Products, BundleSizeAssumption
<1>3. BeginOf(b) \in Nat /\ EndOf(b) \in Nat /\ BeginOf(b) <= EndOf(b) /\ BeginOf(b) >= 1
  BY <1>1, <1>2, BundleSizeAssumption DEF BeginOf, EndOf
<1>4. b = 1 => BeginOf(b) = 1
  <2>1. 0 * BundleSize = 0
    BY BundleSizeAssumption
  <2> QED
    BY <2>1, <1>1 DEF BeginOf
<1>5. ASSUME NEW c \in Bundles, c < b
      PROVE  EndOf(c) < BeginOf(b)
  <2>1. c \in Nat /\ c * BundleSize \in Nat /\ c * BundleSize <= (b - 1) * BundleSize
    BY <1>1, <1>5, Products, BundleSizeAssumption DEF Bundles
  <2> QED
    BY <2>1, <1>1, <1>2 DEF BeginOf, EndOf
<1>6. ASSUME b > 1
      PROVE  b - 1 \in Bundles /\ EndOf(b - 1) + 1 = BeginOf(b)
  <2>1. /\ b - 1 \in Nat /\ b - 2 \in Nat /\ b - 2 < b
        /\ (b - 1) - 1 = b - 2
    BY <1>1, <1>6
  <2>2. (b - 2) * BundleSize \in Nat /\ (b - 2) * BundleSize <= (b - 1) * BundleSize
    BY <2>1, <1>1, Products, BundleSizeAssumption
  <2>3. b - 1 \in Bundles
    BY <1>1, <1>2, <1>6, <2>1, <2>2 DEF Bundles
  <2> QED
    BY <2>3, <1>1, <1>2 DEF BeginOf, EndOf
<1> QED
  BY <1>1, <1>3, <1>4, <1>5, <1>6

\* No script has begun.
LEMMA ExecStarts ==
    ASSUME ExecInit, total \in Nat
    PROVE  ExecInv
<1>1. ExecTypes /\ InOrder
  BY LivesAssumption, Cuts, EmptySeq DEF ExecInit, ExecTypes, InOrder, PCs
<1>2. ASSUME NEW b \in Bundles
      PROVE  Turn(b)
  BY Cuts, EmptySeq DEF ExecInit, Turn
<1> QED
  BY <1>1, <1>2 DEF ExecInv

\* What RunCommand does to the commands that have run.
LEMMA OneMore ==
    ASSUME ExecInv, NEW b \in Bundles, RunCommand(b)
    PROVE  /\ ran' \in Seq(Nat) /\ Len(ran') = Len(ran) + 1 /\ InOrder'
           /\ Len(ran) \in Nat /\ at[b] = Len(ran) + 1 /\ at[b] <= EndOf(b)
           /\ at[b] \in Nat /\ BeginOf(b) <= at[b]
<1>1. ran \in Seq(Nat) /\ at[b] \in Nat /\ Turn(b) /\ pc[b] = "run" /\ at[b] <= EndOf(b)
  BY DEF ExecInv, ExecTypes, RunCommand
<1>2. at[b] = Len(ran) + 1 /\ BeginOf(b) <= at[b]
  BY <1>1 DEF Turn
<1>3. ran' = Append(ran, at[b])
  BY DEF RunCommand
<1>4. ran' \in Seq(Nat) /\ Len(ran') = Len(ran) + 1 /\ Len(ran) \in Nat
  BY <1>1, <1>3
<1>5. \A i \in 1 .. Len(ran') : ran'[i] = i
  <2> SUFFICES ASSUME NEW i \in 1 .. Len(ran')
               PROVE  ran'[i] = i
    OBVIOUS
  <2>1. CASE i = Len(ran) + 1
    BY <2>1, <1>1, <1>2, <1>3, <1>4
  <2>2. CASE i # Len(ran) + 1
    <3>1. i \in 1 .. Len(ran)
      BY <2>2, <1>4
    <3> QED
      BY <3>1, <1>1, <1>3 DEF ExecInv, InOrder
  <2> QED
    BY <2>1, <2>2
<1> QED
  BY <1>1, <1>2, <1>4, <1>5 DEF InOrder

\* No step of a script changes how the commands are cut.
LEMMA SameCuts ==
    ASSUME total' = total
    PROVE  /\ Bundles' = Bundles
           /\ \A b : BeginOf(b)' = BeginOf(b) /\ EndOf(b)' = EndOf(b)
BY DEF Bundles, BeginOf, EndOf

\* A script that runs no command.
LEMMA QuietSteps ==
    ASSUME ExecInv, NEW b \in Bundles, Quiet(b) \/ CommandFails(b)
    PROVE  ExecInv'
<1>1. total' = total /\ total \in Nat /\ life' = life /\ ran' = ran /\ at' = at
  BY DEF Quiet, StartBundle, SeeMarker, SeeNothing, StopWaiting, LeaveMarker, CommandFails,
         ExecInv, ExecTypes
<1>2. /\ Bundles' = Bundles
      /\ \A c : BeginOf(c)' = BeginOf(c) /\ EndOf(c)' = EndOf(c)
  BY <1>1, SameCuts
<1>3. /\ ExecTypes /\ InOrder
      /\ \A c \in Bundles : Turn(c)
      /\ ran \in Seq(Nat) /\ Len(ran) \in Nat
  BY DEF ExecInv, ExecTypes
<1>4. /\ pc \in [Bundles -> PCs]
      /\ \E p \in PCs : pc' = [pc EXCEPT ![b] = p]
      /\ pc[b] # "done"
      /\ \/ ready' = ready
         \/ LeaveMarker(b) /\ ready' = ready \cup {<<life, b>>} /\ pc'[b] = "done"
  <2>1. pc \in [Bundles -> PCs]
    BY <1>3 DEF ExecTypes
  <2>2. CASE StartBundle(b)
    BY <2>1, <2>2 DEF StartBundle, PCs
  <2>3. CASE SeeMarker(b)
    BY <2>1, <2>3 DEF SeeMarker, PCs
  <2>4. CASE SeeNothing(b)
    <3>1. pc' = [pc EXCEPT ![b] = "wait"]
      BY <2>1, <2>4 DEF SeeNothing
    <3> QED
      BY <3>1, <2>1, <2>4 DEF SeeNothing, PCs
  <2>5. CASE StopWaiting(b)
    BY <2>1, <2>5 DEF StopWaiting, PCs
  <2>6. CASE LeaveMarker(b)
    BY <2>1, <2>6 DEF LeaveMarker, PCs
  <2>7. CASE CommandFails(b)
    BY <2>1, <2>7 DEF CommandFails, PCs
  <2> QED
    BY <2>2, <2>3, <2>4, <2>5, <2>6, <2>7 DEF Quiet
<1>5. waited' \in [Bundles -> Nat]
  BY <1>3 DEF ExecTypes, Quiet, StartBundle, SeeMarker, SeeNothing, StopWaiting, LeaveMarker,
              CommandFails
<1>6. ExecTypes' /\ InOrder'
  <2>1. pc' \in [Bundles -> PCs]
    BY <1>4
  <2>2. ready' \subseteq (1 .. life) \X Bundles
    BY <1>3, <1>4 DEF ExecTypes
  <2> QED
    BY <2>1, <2>2, <1>1, <1>2, <1>3, <1>5 DEF ExecTypes, InOrder
<1>7. /\ \A d \in Bundles : pc[d] = "done" => pc'[d] = "done"
      /\ \A d \in Bundles : d # b => pc'[d] = pc[d]
      /\ \A d \in Bundles : d # b => (<<life, d>> \in ready' => <<life, d>> \in ready)
  BY <1>4
<1>8. ASSUME NEW c \in Bundles, c # b
      PROVE  Turn(c)'
  <2>1. Turn(c)
    BY <1>3
  <2> QED
    BY <2>1, <1>1, <1>2, <1>7, <1>8 DEF Turn
<1>9. Turn(b)'
  <2> DEFINE Earlier == \A c \in Bundles : c < b => pc[c] = "done"
  <2>1. Earlier => \A c \in Bundles' : c < b => pc'[c] = "done"
    BY <1>2, <1>7
  <2>2. Turn(b)
    BY <1>3
  <2>3. ASSUME pc'[b] = "run" => at[b] = Len(ran) + 1 /\ at[b] = BeginOf(b),
               pc'[b] # "done", ready' = ready,
               pc'[b] \in {"idle", "wait"} => pc[b] \in {"idle", "wait"},
               pc'[b] = "run" => Earlier
        PROVE  Turn(b)'
    <3>1. <<life, b>> \notin ready'
      BY <2>2, <2>3, <1>4 DEF Turn
    <3>2. BeginOf(b) <= BeginOf(b) /\ BeginOf(b) <= EndOf(b) + 1
      BY <1>1, Cuts
    <3>3. pc'[b] \in {"run", "done"} \/ at[b] # BeginOf(b) => Earlier
      BY <2>2, <2>3 DEF Turn
    <3> HIDE DEF Earlier
    <3> QED
      BY <3>1, <3>2, <3>3, <2>1, <2>2, <2>3, <1>1, <1>2 DEF Turn
  <2>4. CASE StartBundle(b)
    <3>1. pc[b] = "idle" /\ ready' = ready /\ pc'[b] = IF b > 1 THEN "wait" ELSE "run"
      BY <2>4, <1>4 DEF StartBundle
    <3>2. b > 1 \/ (b = 1 /\ BeginOf(b) = 1)
      BY <1>1, Cuts
    <3>3. b = 1 => Earlier
      BY <1>1, Cuts
    <3>4. at[b] = BeginOf(b) /\ Len(ran) < BeginOf(b)
      BY <3>1, <2>2 DEF Turn
    <3> HIDE DEF Earlier
    <3> QED
      BY <3>1, <3>2, <3>3, <3>4, <2>3, <1>3
  <2>5. CASE SeeMarker(b)
    <3>1. <<life, b - 1>> \in ready /\ pc[b] = "wait" /\ pc'[b] = "run" /\ ready' = ready
      BY <2>5, <1>4 DEF SeeMarker
    <3>2. b - 1 \in Bundles
      BY <3>1, <1>3 DEF ExecTypes
    <3>3. /\ b \in Nat /\ b > 1 /\ EndOf(b - 1) + 1 = BeginOf(b)
          /\ EndOf(b - 1) \in Nat /\ BeginOf(b) \in Nat
      BY <3>2, <1>1, Cuts
    <3>4. pc[b - 1] = "done" /\ EndOf(b - 1) <= Len(ran) /\ Turn(b - 1)
      BY <3>1, <3>2, <1>3 DEF Turn
    <3>5. Earlier
      <4> SUFFICES ASSUME NEW d \in Bundles, d < b, d # b - 1
                   PROVE  pc[d] = "done"
        BY <3>4
      <4>1. d < b - 1
        BY <3>3, <1>1, Cuts
      <4> QED
        BY <4>1, <3>4 DEF Turn
    <3>6. at[b] = BeginOf(b) /\ Len(ran) < BeginOf(b)
      BY <3>1, <2>2 DEF Turn
    <3>7. at[b] = Len(ran) + 1
      BY <3>3, <3>4, <3>6, <1>3
    <3> HIDE DEF Earlier
    <3> QED
      BY <3>1, <3>5, <3>6, <3>7, <2>3
  <2>6. CASE SeeNothing(b)
    BY <2>6, <2>3, <1>4 DEF SeeNothing
  <2>7. CASE StopWaiting(b)
    <3>1. pc'[b] = "failed" /\ ready' = ready
      BY <2>7, <1>4 DEF StopWaiting
    <3> QED
      BY <3>1, <2>3
  <2>8. CASE LeaveMarker(b)
    <3>1. pc[b] = "run" /\ pc'[b] = "done" /\ at[b] > EndOf(b)
      BY <2>8, <1>4 DEF LeaveMarker
    <3>2. Earlier /\ at[b] = Len(ran) + 1 /\ EndOf(b) \in Nat
      BY <3>1, <2>2, <1>1, Cuts DEF Turn
    <3>3. EndOf(b) <= Len(ran)
      BY <3>1, <3>2, <1>3
    <3> HIDE DEF Earlier
    <3> QED
      BY <3>1, <3>2, <3>3, <2>1, <1>1, <1>2 DEF Turn
  <2>9. CASE CommandFails(b)
    <3>1. pc'[b] = "failed" /\ ready' = ready
      BY <2>9, <1>4 DEF CommandFails
    <3> QED
      BY <3>1, <2>3
  <2> QED
    BY <2>4, <2>5, <2>6, <2>7, <2>8, <2>9 DEF Quiet
<1> QED
  BY <1>2, <1>3, <1>6, <1>8, <1>9 DEF ExecInv

\* A script that runs its next command.
LEMMA CommandSteps ==
    ASSUME ExecInv, NEW b \in Bundles, RunCommand(b)
    PROVE  ExecInv'
<1>1. /\ total' = total /\ total \in Nat /\ life' = life /\ pc' = pc /\ ready' = ready
      /\ waited' = waited /\ pc[b] = "run"
      /\ at \in [Bundles -> Nat] /\ at' = [at EXCEPT ![b] = @ + 1]
      /\ ExecTypes /\ \A c \in Bundles : Turn(c)
  BY DEF RunCommand, ExecInv, ExecTypes
<1>2. /\ Bundles' = Bundles
      /\ \A c : BeginOf(c)' = BeginOf(c) /\ EndOf(c)' = EndOf(c)
  BY <1>1, SameCuts
<1>3. /\ Len(ran') = Len(ran) + 1 /\ Len(ran) \in Nat /\ at[b] = Len(ran) + 1
      /\ at[b] <= EndOf(b) /\ BeginOf(b) <= at[b] /\ ran' \in Seq(Nat) /\ InOrder'
  BY OneMore
<1>4. ExecTypes'
  BY <1>1, <1>2, <1>3 DEF ExecTypes
<1>5. ASSUME NEW c \in Bundles
      PROVE  Turn(c)'
  <2>1. CASE c = b
    BY <2>1, <1>1, <1>2, <1>3, Cuts DEF Turn
  <2>2. CASE c < b
    <3>1. pc[c] = "done"
      BY <2>2, <1>1 DEF Turn
    <3>2. /\ Turn(c) /\ at'[c] = at[c] /\ EndOf(c) <= Len(ran) + 1 /\ EndOf(c) \in Nat
          /\ c \in Nat /\ b \in Nat
      <4>1. c \in Nat /\ b \in Nat /\ EndOf(c) \in Nat
        BY <1>1, Cuts
      <4>2. Turn(c) /\ EndOf(c) <= Len(ran)
        BY <3>1, <1>1 DEF Turn
      <4> QED
        BY <4>1, <4>2, <2>2, <1>1, <1>3
    <3> QED
      BY <3>1, <3>2, <2>2, <1>1, <1>2, <1>3 DEF Turn
  <2>3. CASE b < c
    <3>1. EndOf(b) < BeginOf(c) /\ BeginOf(c) \in Nat /\ EndOf(b) \in Nat
      BY <2>3, <1>1, Cuts
    <3>2. pc[c] \notin {"run", "done"}
      BY <2>3, <1>1 DEF Turn
    <3> QED
      BY <3>1, <3>2, <2>3, <1>1, <1>2, <1>3, Cuts DEF Turn
  <2>4. b \in Nat /\ c \in Nat
    BY <1>1, Cuts
  <2> QED
    BY <2>1, <2>2, <2>3, <2>4
<1> QED
  BY <1>2, <1>3, <1>4, <1>5 DEF ExecInv

\* A marker of the life before does not count in the next.
LEMMA RestartStep ==
    ASSUME ExecInv, Restart
    PROVE  ExecInv'
<1>1. /\ total' = total /\ total \in Nat /\ life \in 1 .. Lives /\ life' = life + 1
      /\ life < Lives /\ ready' = ready /\ ready \subseteq (1 .. life) \X Bundles
      /\ ran' = <<>>
      /\ pc' = [b \in Bundles |-> "idle"] /\ at' = [b \in Bundles |-> BeginOf(b)]
      /\ waited' = [b \in Bundles |-> 0]
  BY DEF ExecInv, ExecTypes, Restart
<1>2. /\ Bundles' = Bundles
      /\ \A c : BeginOf(c)' = BeginOf(c) /\ EndOf(c)' = EndOf(c)
  BY <1>1, SameCuts
<1>3. life' \in 1 .. Lives /\ ready' \subseteq (1 .. life') \X Bundles
  BY <1>1, LivesAssumption
<1>4. ExecTypes' /\ InOrder'
  BY <1>1, <1>2, <1>3, Cuts, EmptySeq DEF ExecTypes, InOrder, PCs
<1>5. ASSUME NEW b \in Bundles
      PROVE  Turn(b)'
  <2>1. <<life', b>> \notin ready'
    BY <1>1, LivesAssumption
  <2> QED
    BY <2>1, <1>1, <1>2, Cuts, EmptySeq DEF Turn
<1> QED
  BY <1>2, <1>4, <1>5 DEF ExecInv
\* Whatever a script does.
LEMMA ExecSteps ==
    ASSUME ExecInv, [ExecNext]_execVars
    PROVE  ExecInv'
<1>1. ASSUME NEW b \in Bundles, Quiet(b) \/ RunCommand(b) \/ CommandFails(b)
      PROVE  ExecInv'
  BY <1>1, QuietSteps, CommandSteps
<1>2. ASSUME UNCHANGED execVars
      PROVE  ExecInv'
  BY <1>2 DEF execVars, progress, ExecInv, ExecTypes, InOrder, Turn, Bundles, BeginOf, EndOf
<1> QED
  BY <1>1, <1>2, RestartStep DEF ExecNext, ExecStep

\* What the invariant is for.
LEMMA ExecPromises ==
    ASSUME ExecInv
    PROVE  InOrder /\ FailureStopsTheNode
<1> SUFFICES ASSUME NEW b \in Bundles, NEW c \in Bundles, b < c, pc[b] = "failed"
             PROVE  pc[c] \in {"idle", "wait", "failed"} /\ at[c] = BeginOf(c)
  BY DEF ExecInv, FailureStopsTheNode
<1>1. Turn(c) /\ pc[c] \in PCs
  BY DEF ExecInv, ExecTypes
<1> QED
  BY <1>1 DEF Turn, PCs

\* bundle_exec_commands, by itself: for every number of commands, bundle size,
\* patience and number of restarts, the commands run in order and a failure
\* stops the scripts behind it.
THEOREM ExecOrder == ExecSpec => [](InOrder /\ FailureStopsTheNode)
<1>1. total \in Nat /\ ExecInit => ExecInv
  BY ExecStarts
<1>2. ExecInv /\ [ExecNext]_execVars => ExecInv'
  BY ExecSteps
<1>3. ExecInv => InOrder /\ FailureStopsTheNode
  BY ExecPromises
<1> QED
  BY <1>1, <1>2, <1>3, PTL DEF ExecSpec

----------------------------------------------------------------------------
\* What a node does is what its scripts do; the packets change nothing there.
LEMMA BootSteps == [Next]_vars => [ExecNext]_execVars
<1> SUFFICES ASSUME [Next]_vars
             PROVE  [ExecNext]_execVars
  OBVIOUS
<1>1. ASSUME NEW b \in Bundles, Boot(b)
      PROVE  ExecNext
  BY <1>1 DEF Boot, Script, Run, Fail, FailUnnoticed, ExecNext, ExecStep
<1>2. CASE Traffic
  BY <1>2 DEF Traffic
<1>3. CASE Reboot
  BY <1>3 DEF Reboot, ExecNext
<1>4. CASE UNCHANGED vars
  BY <1>4 DEF vars
<1> QED
  BY <1>1, <1>2, <1>3, <1>4 DEF Next

----------------------------------------------------------------------------
\* The statements that are rendered of a rule of the policy, and what they match.

\* cpm_firewall_rules.py: the statements of a rule for one family.
StatementsOf(r, f) ==
    IF r.dst # {} /\ OfFamily(r.dst, f) = {} THEN {}
    ELSE IF r.matches # <<>>
    THEN {MatchStatement(r, f, m) : m \in {m \in ToSet(r.matches) : Applies(m, f)}}
    ELSE IF r.dns THEN {Statement(r, f, {<<"udp", 53>>}), Statement(r, f, {<<"tcp", 53>>})}
    ELSE {Statement(r, f, Services)}

FamiliesSaid(r) == IF r.fam \in Families THEN {r.fam} ELSE {4, 6}

\* The list of the statements for a family has no others and misses none.
LEMMA FamilyStatementsAre ==
  ASSUME NEW r, IsSequence(r.matches), NEW f
  PROVE  IsSequence(FamilyStatements(r, f)) /\ ToSet(FamilyStatements(r, f)) = StatementsOf(r, f)
<1> DEFINE Skipped == r.dst # {} /\ OfFamily(r.dst, f) = {}
<1>1. CASE Skipped
  BY <1>1, Spelled DEF FamilyStatements, StatementsOf
<1>2. CASE ~Skipped /\ r.matches # <<>>
  <2>1. PICK ss : ss = [i \in 1 .. Len(r.matches) |->
                IF Applies(r.matches[i], f) THEN <<MatchStatement(r, f, r.matches[i])>>
                ELSE <<>>]
    OBVIOUS
  <2>2. FamilyStatements(r, f) = Concat(ss)
    BY <1>2, <2>1 DEF FamilyStatements
  <2>3. /\ Len(r.matches) \in Nat /\ DOMAIN r.matches = 1 .. Len(r.matches)
        /\ \A m : m \in ToSet(r.matches) <=> \E i \in 1 .. Len(r.matches) : r.matches[i] = m
    BY ListIs
  <2>4. IsSequence(ss) /\ Len(ss) = Len(r.matches)
    <3>1. DOMAIN ss = 1 .. Len(r.matches) /\ ss = [i \in DOMAIN r.matches |-> ss[i]]
      BY <2>1, <2>3
    <3> QED BY <3>1, <2>3, EachIs, ListIs
  <2>5. \A i \in 1 .. Len(ss) :
            /\ IsSequence(ss[i])
            /\ ToSet(ss[i]) = IF Applies(r.matches[i], f) THEN {MatchStatement(r, f, r.matches[i])}
                              ELSE {}
    BY <2>1, <2>4, Spelled
  <2>6. /\ IsSequence(Concat(ss))
        /\ \A x : x \in ToSet(Concat(ss)) <=> \E k \in 1 .. Len(ss) : x \in ToSet(ss[k])
    BY <2>4, <2>5, ConcatIs
  <2>7. \A x : x \in ToSet(Concat(ss)) <=>
               \E i \in 1 .. Len(r.matches) :
                  Applies(r.matches[i], f) /\ x = MatchStatement(r, f, r.matches[i])
    BY <2>4, <2>5, <2>6
  <2>8. StatementsOf(r, f) =
            {MatchStatement(r, f, m) : m \in {m \in ToSet(r.matches) : Applies(m, f)}}
    BY <1>2 DEF StatementsOf
  <2>9. \A x : x \in StatementsOf(r, f) <=> x \in ToSet(Concat(ss))
    BY <2>3, <2>7, <2>8
  <2> QED BY <2>2, <2>6, <2>9
<1>3. CASE ~Skipped /\ ~(r.matches # <<>>) /\ r.dns
  BY <1>3, Spelled DEF FamilyStatements, StatementsOf
<1>4. CASE ~Skipped /\ ~(r.matches # <<>>) /\ ~r.dns
  BY <1>4, Spelled DEF FamilyStatements, StatementsOf
<1> QED BY <1>1, <1>2, <1>3, <1>4

\* cpm_firewall_rules.py: the statements of a rule, whatever families it is for.
LEMMA StatementsAre ==
  ASSUME NEW r, IsSequence(r.matches)
  PROVE  /\ IsSequence(RulesForCpmRule(r))
         /\ r.runtime # {} => ToSet(RulesForCpmRule(r)) = {RuntimeStatement(r)}
         /\ r.runtime = {} => \A x : x \in ToSet(RulesForCpmRule(r)) <=>
                                     \E f \in FamiliesSaid(r) : x \in StatementsOf(r, f)
<1>1. CASE r.runtime # {}
  BY <1>1, Spelled DEF RulesForCpmRule
<1>2. CASE r.runtime = {}
  <2>1. PICK fs : fs = FamiliesOf(r)
    OBVIOUS
  <2>2. PICK ss : ss = [i \in 1 .. Len(fs) |-> FamilyStatements(r, fs[i])]
    OBVIOUS
  <2>3. RulesForCpmRule(r) = Concat(ss)
    BY <1>2, <2>1, <2>2 DEF RulesForCpmRule
  <2>4. IsSequence(fs) /\ ToSet(fs) = FamiliesSaid(r)
    <3>1. CASE r.fam \in Families
      BY <3>1, <2>1, Spelled DEF FamiliesOf, FamiliesSaid
    <3>2. CASE r.fam \notin Families
      BY <3>2, <2>1, Spelled DEF FamiliesOf, FamiliesSaid
    <3> QED BY <3>1, <3>2
  <2>5. /\ Len(fs) \in Nat /\ DOMAIN fs = 1 .. Len(fs)
        /\ \A f : f \in ToSet(fs) <=> \E i \in 1 .. Len(fs) : fs[i] = f
    BY <2>4, ListIs
  <2>6. IsSequence(ss) /\ Len(ss) = Len(fs)
    <3>1. DOMAIN ss = 1 .. Len(fs) /\ ss = [i \in DOMAIN fs |-> ss[i]]
      BY <2>2, <2>5
    <3> QED BY <3>1, <2>4, <2>5, EachIs, ListIs
  <2>7. \A i \in 1 .. Len(ss) : IsSequence(ss[i]) /\ ToSet(ss[i]) = StatementsOf(r, fs[i])
    BY <2>2, <2>6, FamilyStatementsAre
  <2>8. /\ IsSequence(Concat(ss))
        /\ \A x : x \in ToSet(Concat(ss)) <=> \E k \in 1 .. Len(ss) : x \in ToSet(ss[k])
    BY <2>6, <2>7, ConcatIs
  <2> QED BY <1>2, <2>3, <2>4, <2>5, <2>6, <2>7, <2>8
<1> QED BY <1>1, <1>2

\* A command that adds a rule to c which matches p.
Speaks(c, cmd, p) == cmd.do = "rule" /\ cmd.chain = c /\ Matches(cmd.rule, p)

\* The packets that open connections.
LEMMA PacketIs ==
  ASSUME NEW p \in Packets
  PROVE  /\ p.iif \in Interfaces /\ p.oif \in Interfaces /\ p.src \in Subnets /\ p.dst \in Subnets
         /\ p.svc \in Services /\ p.ct = "new"
         /\ FamilyOf[p.src] \in {4, 6} /\ FamilyOf[p.dst] = FamilyOf[p.src]
         /\ p.svc = <<"icmp", 0>> => FamilyOf[p.src] = 4
         /\ p.svc = <<"icmpv6", 0>> => FamilyOf[p.src] = 6
         /\ p.svc[2] # High
<1>1. p \in [iif : Interfaces, oif : Interfaces, src : Subnets, dst : Subnets,
             svc : {svc \in Services : svc[2] # High}, ct : {"new"}]
  BY PacketsAssumption
<1>2. /\ FamilyOf[p.src] = FamilyOf[p.dst]
      /\ p.svc[1] = "icmp" => FamilyOf[p.src] = 4
      /\ p.svc[1] = "icmpv6" => FamilyOf[p.src] = 6
  BY PacketsAssumption
<1>3. PICK svc : svc = p.svc
  OBVIOUS
<1>4. svc = <<"icmp", 0>> => svc[1] = "icmp"
  OBVIOUS
<1>5. svc = <<"icmpv6", 0>> => svc[1] = "icmpv6"
  OBVIOUS
<1>6. FamilyOf[p.src] \in {4, 6}
  BY <1>1, FamiliesAssumption DEF Families
<1> QED BY <1>1, <1>2, <1>3, <1>4, <1>5, <1>6

\* What a statement matches, in the terms of its rule.
LEMMA StatementSpeaks ==
  ASSUME NEW r, NEW f, NEW S, NEW p \in Packets
  PROVE  Speaks("fw", Statement(r, f, S), p) <=>
            /\ p.iif = r.from /\ p.oif = r.to /\ r.state = "" /\ p.svc \in S
            /\ p.src \in Only(r.src, f) /\ p.dst \in Only(r.dst, f)
<1>1. PICK rule : rule = Base(r, Only(r.src, f), Only(r.dst, f), S)
  OBVIOUS
<1>2. /\ rule.iif = {r.from} /\ rule.oif = {r.to} /\ rule.svc = S
      /\ rule.src = Only(r.src, f) /\ rule.dst = Only(r.dst, f)
      /\ rule.ct = IF r.state = "" THEN {"new", "established"} ELSE {"established"}
  BY <1>1 DEF Base, States
<1>3. PICK cmd : cmd = Statement(r, f, S)
  OBVIOUS
<1>4. cmd.do = "rule" /\ cmd.chain = "fw" /\ cmd.rule = rule
  BY <1>1, <1>3 DEF Statement, AddRuleOf
<1>5. p.ct = "new"
  BY PacketIs
<1>6. p.ct \in rule.ct <=> r.state = ""
  BY <1>2, <1>5
<1> QED BY <1>2, <1>3, <1>4, <1>6 DEF Speaks, Matches

\* What the statement of a rule for a runtime address matches.
LEMMA RuntimeSpeaks ==
  ASSUME NEW r, NEW p \in Packets
  PROVE  Speaks("fw", RuntimeStatement(r), p) <=>
            /\ p.iif = r.from /\ p.oif = r.to /\ r.state = ""
            /\ p.svc \in MatchServices(r.matches[1], 6)
            /\ p.src \in OfFamily(Subnets, 6) /\ p.dst \in r.runtime
<1>1. PICK rule : rule = Base(r, OfFamily(Subnets, 6), r.runtime, MatchServices(r.matches[1], 6))
  OBVIOUS
<1>2. /\ rule.iif = {r.from} /\ rule.oif = {r.to} /\ rule.svc = MatchServices(r.matches[1], 6)
      /\ rule.src = OfFamily(Subnets, 6) /\ rule.dst = r.runtime
      /\ rule.ct = IF r.state = "" THEN {"new", "established"} ELSE {"established"}
  BY <1>1 DEF Base, States
<1>3. PICK cmd : cmd = RuntimeStatement(r)
  OBVIOUS
<1>4. cmd.do = "rule" /\ cmd.chain = "fw" /\ cmd.rule = rule
  BY <1>1, <1>3 DEF RuntimeStatement, AddRuleOf
<1>5. p.ct = "new"
  BY PacketIs
<1>6. p.ct \in rule.ct <=> r.state = ""
  BY <1>2, <1>5
<1> QED BY <1>2, <1>3, <1>4, <1>6 DEF Speaks, Matches

\* What nft cannot parse adds no rule.
LEMMA UnparsableIsSilent == ASSUME NEW c, NEW p PROVE ~Speaks(c, Unparsable, p)
<1>1. Unparsable.do = "unparsable"
  BY DEF Unparsable
<1> QED BY <1>1 DEF Speaks

\* The services a match stands for, on a packet of the family.
LEMMA ServicesOfMatch ==
  ASSUME NEW m, IsMatch(m), NEW p \in Packets, NEW f \in {4, 6}
  PROVE  /\ p.svc \in MatchServices(m, f) /\ m.fam \in {0, FamilyOf[p.src]} => MatchCovers(m, p)
         /\ MatchCovers(m, p) /\ f = FamilyOf[p.src] => p.svc \in MatchServices(m, f)
<1>1. /\ p.svc \in Services /\ FamilyOf[p.src] \in {4, 6}
      /\ p.svc = <<"icmp", 0>> => FamilyOf[p.src] = 4
      /\ p.svc = <<"icmpv6", 0>> => FamilyOf[p.src] = 6
  BY PacketIs
<1>2. PICK svc, proto, ports, g : svc = p.svc /\ proto = m.proto /\ ports = m.ports
                                  /\ g = FamilyOf[p.src]
  OBVIOUS
<1>3. svc = <<svc[1], svc[2]>>
  BY <1>1, <1>2 DEF Services
<1>4. CASE proto \in {"icmp", "icmpv4", "icmpv6"}
  <2>1. MatchServices(m, f) = IF f = 6 THEN {<<"icmpv6", 0>>} ELSE {<<"icmp", 0>>}
    BY <1>2, <1>4 DEF MatchServices, Icmp
  <2>2. MatchCovers(m, p) <=>
          m.fam \in {0, g} /\ svc = <<IF g = 6 THEN "icmpv6" ELSE "icmp", 0>>
    BY <1>2, <1>4 DEF MatchCovers
  <2> QED BY <2>1, <2>2, <1>1, <1>2
<1>5. CASE proto \in {"tcp", "udp"}
  <2>1. MatchServices(m, f) = {<<proto, port>> : port \in ports}
    BY <1>2, <1>5 DEF MatchServices
  <2>2. MatchCovers(m, p) <=> m.fam \in {0, g} /\ svc[1] = proto /\ svc[2] \in ports
    BY <1>2, <1>5 DEF MatchCovers
  <2>3. svc \in {<<proto, port>> : port \in ports} <=> svc[1] = proto /\ svc[2] \in ports
    BY <1>3
  <2> QED BY <2>1, <2>2, <2>3, <1>2
<1>6. CASE proto = "any"
  <2>1. MatchServices(m, f) = Services
    BY <1>2, <1>6 DEF MatchServices
  <2>2. MatchCovers(m, p) <=> m.fam \in {0, g}
    BY <1>2, <1>6 DEF MatchCovers
  <2> QED BY <2>1, <2>2, <1>1, <1>2
<1> QED BY <1>2, <1>4, <1>5, <1>6 DEF IsMatch

\* Which prefixes a statement for a family has.
LEMMA FamilyTold ==
  ASSUME NEW P, NEW f, NEW x
  PROVE  /\ x \in OfFamily(P, f) <=> x \in P /\ FamilyOf[x] = f
         /\ x \in Only(P, f) /\ OfFamily(P, f) # {} => x \in P /\ FamilyOf[x] = f
         /\ x \in P /\ FamilyOf[x] = f /\ x \in Subnets => x \in Only(P, f)
         /\ P = {} => OfFamily(P, f) = {} /\ Only(P, f) = Subnets
BY DEF OfFamily, Only

\* What a statement of a rule says, the rule says, if the rule is tight.
LEMMA StatementSound ==
  ASSUME NEW r, IsRule(r), r.runtime = {}, ~RuleRefused(r), Tight(r), NEW p \in Packets,
         NEW f \in FamiliesSaid(r), NEW x \in StatementsOf(r, f), Speaks("fw", x, p)
  PROVE  Covers(r, p)
<1>1. /\ p.iif \in Interfaces /\ p.src \in Subnets /\ p.dst \in Subnets
      /\ p.svc \in Services /\ FamilyOf[p.src] \in {4, 6} /\ FamilyOf[p.dst] = FamilyOf[p.src]
  BY PacketIs
<1>2. PICK g : g = FamilyOf[p.src]
  OBVIOUS
<1>3. /\ r.fam \in {0, 4, 6} /\ f \in {4, 6} /\ (r.fam # 0 => f = r.fam)
      /\ f \in ToSet(FamiliesOf(r))
  <2>1. r.fam \in {0, 4, 6}
    BY DEF IsRule
  <2>2. f \in {4, 6} /\ (r.fam # 0 => f = r.fam)
    BY <2>1 DEF FamiliesSaid, Families
  <2>3. f \in ToSet(FamiliesOf(r))
    BY Spelled DEF FamiliesSaid, FamiliesOf
  <2> QED BY <2>1, <2>2, <2>3
<1>4. ~(r.dst # {} /\ OfFamily(r.dst, f) = {})
  BY DEF StatementsOf
<1>5. /\ r.src # {} => OfFamily(r.src, f) # {}
      /\ r.fam # 0 \/ (\E m \in ToSet(r.matches) : m.fam # 0) => OfFamily(r.src \cup r.dst, f) # {}
  <2>1. f \in {h \in ToSet(FamiliesOf(r)) : r.dst = {} \/ OfFamily(r.dst, h) # {}}
    BY <1>3, <1>4
  <2> QED BY <2>1 DEF Tight
<1>6. \E S : /\ p.iif = r.from /\ p.oif = r.to /\ r.state = "" /\ p.svc \in S
             /\ p.src \in Only(r.src, f) /\ p.dst \in Only(r.dst, f)
             /\ \/ r.matches = <<>> /\ r.dns /\ S \in {{<<"udp", 53>>}, {<<"tcp", 53>>}}
                \/ r.matches = <<>> /\ ~r.dns
                \/ \E m \in ToSet(r.matches) : Applies(m, f) /\ S = MatchServices(m, f)
  <2>1. ASSUME NEW S, x = Statement(r, f, S)
        PROVE  /\ p.iif = r.from /\ p.oif = r.to /\ r.state = "" /\ p.svc \in S
               /\ p.src \in Only(r.src, f) /\ p.dst \in Only(r.dst, f)
    BY <2>1, StatementSpeaks
  <2>2. CASE r.matches # <<>>
    <3>1. PICK m \in ToSet(r.matches) : Applies(m, f) /\ x = MatchStatement(r, f, m)
      BY <1>4, <2>2 DEF StatementsOf
    <3>2. x = Statement(r, f, MatchServices(m, f))
      BY <3>1, UnparsableIsSilent DEF MatchStatement
    <3> QED BY <3>1, <3>2, <2>1
  <2>3. CASE r.matches = <<>> /\ r.dns
    <3>1. x \in {Statement(r, f, {<<"udp", 53>>}), Statement(r, f, {<<"tcp", 53>>})}
      BY <1>4, <2>3 DEF StatementsOf
    <3>2. CASE x = Statement(r, f, {<<"udp", 53>>})
      BY <3>2, <2>1, <2>3
    <3>3. CASE x = Statement(r, f, {<<"tcp", 53>>})
      BY <3>3, <2>1, <2>3
    <3> QED BY <3>1, <3>2, <3>3
  <2>4. CASE r.matches = <<>> /\ ~r.dns
    <3>1. x = Statement(r, f, Services)
      BY <1>4, <2>4 DEF StatementsOf
    <3> QED BY <3>1, <2>1, <2>4
  <2> QED BY <2>2, <2>3, <2>4
<1>7. /\ p.iif = r.from /\ p.oif = r.to /\ r.state = ""
      /\ p.src \in Only(r.src, f) /\ p.dst \in Only(r.dst, f)
  BY <1>6
<1>8. ~r.ret
  BY <1>7 DEF RuleRefused
<1>9. /\ r.src = {} \/ p.src \in r.src
      /\ r.dst = {} \/ p.dst \in r.dst
  BY <1>4, <1>5, <1>7, FamilyTold
<1>10. OfFamily(r.src \cup r.dst, f) # {} => g = f
  <2>1. ASSUME OfFamily(r.src \cup r.dst, f) # {}
        PROVE  OfFamily(r.src, f) # {} \/ OfFamily(r.dst, f) # {}
    BY <2>1 DEF OfFamily
  <2>2. OfFamily(r.src, f) # {} => FamilyOf[p.src] = f
    BY <1>7 DEF Only, OfFamily
  <2>3. OfFamily(r.dst, f) # {} => FamilyOf[p.dst] = f
    BY <1>7 DEF Only, OfFamily
  <2> QED BY <2>1, <2>2, <2>3, <1>1, <1>2
<1>11. r.fam \in {0, g}
  BY <1>3, <1>5, <1>10
<1>12. CASE r.matches = <<>>
  <2>1. ToSet(r.matches) = {}
    BY <1>12, Spelled
  <2>2. ~r.dns \/ p.svc \in {<<"udp", 53>>, <<"tcp", 53>>}
    BY <1>6, <2>1
  <2> QED BY <2>2, <1>12, <1>2, <1>7, <1>8, <1>9, <1>11 DEF Covers
<1>13. CASE r.matches # <<>>
  <2>1. PICK m \in ToSet(r.matches) : Applies(m, f) /\ p.svc \in MatchServices(m, f)
    BY <1>6, <1>13
  <2>2. m.fam \in {0, g}
    BY <2>1, <1>5, <1>10 DEF Applies
  <2>3. IsMatch(m)
    BY DEF IsRule
  <2>4. MatchCovers(m, p)
    BY <2>1, <2>2, <2>3, <1>2, <1>3, ServicesOfMatch
  <2> QED BY <2>1, <2>4, <1>13, <1>2, <1>7, <1>8, <1>9, <1>11 DEF Covers
<1> QED BY <1>12, <1>13

\* And what the rule says, one of its statements says.
LEMMA StatementComplete ==
  ASSUME NEW r, IsRule(r), r.runtime = {}, NEW p \in Packets, Covers(r, p),
         \A f \in FamiliesSaid(r) : Unparsable \notin StatementsOf(r, f)
  PROVE  \E f \in FamiliesSaid(r) : \E x \in StatementsOf(r, f) : Speaks("fw", x, p)
<1>1. /\ p.src \in Subnets /\ p.dst \in Subnets
      /\ p.svc \in Services /\ FamilyOf[p.src] \in {4, 6} /\ FamilyOf[p.dst] = FamilyOf[p.src]
  BY PacketIs
<1>2. PICK f : f = FamilyOf[p.src]
  OBVIOUS
<1>3. /\ p.iif = r.from /\ p.oif = r.to /\ r.state = ""
      /\ r.fam \in {0, f}
      /\ r.src = {} \/ p.src \in r.src
      /\ r.runtime \cup r.dst = {} \/ p.dst \in r.runtime \cup r.dst
      /\ IF r.matches = <<>> THEN ~r.dns \/ p.svc \in {<<"udp", 53>>, <<"tcp", 53>>}
         ELSE \E m \in ToSet(r.matches) : MatchCovers(m, p)
  BY <1>2 DEF Covers
<1>4. f \in FamiliesSaid(r) /\ f \in {4, 6}
  <2>1. f \in {4, 6}
    BY <1>1, <1>2
  <2>2. r.fam \in {0, f}
    BY <1>3
  <2> QED BY <2>1, <2>2 DEF FamiliesSaid, Families
<1>5. r.dst = {} \/ p.dst \in r.dst
  BY <1>3
<1>6. ~(r.dst # {} /\ OfFamily(r.dst, f) = {})
  <2>1. p.dst \in r.dst => p.dst \in OfFamily(r.dst, f)
    BY <1>1, <1>2, FamilyTold
  <2> QED BY <1>5, <2>1
<1>7. p.src \in Only(r.src, f) /\ p.dst \in Only(r.dst, f)
  <2>1. r.src = {} \/ p.src \in r.src
    BY <1>3
  <2>2. ASSUME NEW P, NEW x \in Subnets, FamilyOf[x] = f, P = {} \/ x \in P
        PROVE  x \in Only(P, f)
    BY <2>2, FamilyTold
  <2>3. p.src \in Only(r.src, f)
    BY <2>1, <2>2, <1>1, <1>2
  <2>4. p.dst \in Only(r.dst, f)
    BY <1>5, <2>2, <1>1, <1>2
  <2> QED BY <2>3, <2>4
<1>8. \A S : p.svc \in S => Speaks("fw", Statement(r, f, S), p)
  BY <1>3, <1>7, StatementSpeaks
<1>9. CASE r.matches = <<>> /\ r.dns
  <2>1. StatementsOf(r, f) = {Statement(r, f, {<<"udp", 53>>}), Statement(r, f, {<<"tcp", 53>>})}
    BY <1>6, <1>9 DEF StatementsOf
  <2>2. p.svc \in {<<"udp", 53>>} \/ p.svc \in {<<"tcp", 53>>}
    BY <1>3, <1>9
  <2> QED BY <2>1, <2>2, <1>4, <1>8
<1>10. CASE r.matches = <<>> /\ ~r.dns
  <2>1. StatementsOf(r, f) = {Statement(r, f, Services)}
    BY <1>6, <1>10 DEF StatementsOf
  <2> QED BY <2>1, <1>1, <1>4, <1>8
<1>11. CASE r.matches # <<>>
  <2>1. PICK m \in ToSet(r.matches) : MatchCovers(m, p)
    BY <1>3, <1>11
  <2>2. IsMatch(m)
    BY DEF IsRule
  <2>3. Applies(m, f) /\ p.svc \in MatchServices(m, f)
    <3>1. m.fam \in {0, f}
      BY <2>1, <1>2 DEF MatchCovers
    <3> QED BY <3>1, <2>1, <2>2, <1>2, <1>4, ServicesOfMatch DEF Applies
  <2>4. MatchStatement(r, f, m) \in StatementsOf(r, f)
    BY <2>3, <1>6, <1>11 DEF StatementsOf
  <2>5. MatchStatement(r, f, m) = Statement(r, f, MatchServices(m, f))
    BY <2>4, <1>4 DEF MatchStatement
  <2> QED BY <2>3, <2>4, <2>5, <1>4, <1>8
<1> QED BY <1>9, <1>10, <1>11

\* A rule for a runtime address covers what its statement matches.
LEMMA RuntimeExact ==
  ASSUME NEW r, IsRule(r), r.runtime # {}, ~RuleRefused(r), Tight(r), NEW p \in Packets
  PROVE  Speaks("fw", RuntimeStatement(r), p) <=> Covers(r, p)
<1>1. /\ p.src \in Subnets /\ p.dst \in Subnets
      /\ p.svc \in Services /\ FamilyOf[p.src] \in {4, 6} /\ FamilyOf[p.dst] = FamilyOf[p.src]
  BY PacketIs
<1>2. PICK m : m = r.matches[1]
  OBVIOUS
<1>3. /\ r.dst = {} /\ Len(r.matches) = 1
      /\ m.fam = 6 /\ r.src = {} /\ r.fam # 4
  BY <1>2 DEF RuleRefused, RuntimeContract, Tight
<1>4. r.matches # <<>> /\ ToSet(r.matches) = {m} /\ IsMatch(m) /\ r.fam \in {0, 6}
  <2>1. /\ DOMAIN r.matches = 1 .. 1
        /\ \A x : x \in ToSet(r.matches) <=> \E i \in 1 .. 1 : r.matches[i] = x
    BY <1>3, ListIs DEF IsRule
  <2>2. ToSet(r.matches) = {m}
    BY <2>1, <1>2
  <2>3. r.matches # <<>>
    BY <2>2, Spelled
  <2> QED BY <2>2, <2>3, <1>3 DEF IsRule
<1>5. Covers(r, p) <=>
          /\ p.iif = r.from /\ p.oif = r.to /\ r.state = "" /\ ~r.ret
          /\ r.fam \in {0, FamilyOf[p.src]}
          /\ p.dst \in r.runtime /\ MatchCovers(m, p)
  BY <1>3, <1>4 DEF Covers
<1>6. r.state = "" => ~r.ret
  BY DEF RuleRefused
<1>7. MatchCovers(m, p) <=> FamilyOf[p.src] = 6 /\ p.svc \in MatchServices(m, 6)
  <2>1. MatchCovers(m, p) => FamilyOf[p.src] = 6
    BY <1>3, <1>1 DEF MatchCovers
  <2> QED BY <2>1, <1>3, <1>4, ServicesOfMatch
<1>8. p.src \in OfFamily(Subnets, 6) <=> FamilyOf[p.src] = 6
  BY <1>1, FamilyTold
<1> QED BY <1>2, <1>4, <1>5, <1>6, <1>7, <1>8, RuntimeSpeaks

\* cpm_firewall_rules.py: the statements of a rule match what it covers.
LEMMA RuleSpeaks ==
  ASSUME NEW r, IsRule(r), ~RuleRefused(r), Tight(r), NEW p \in Packets
  PROVE  /\ (\E x \in ToSet(RulesForCpmRule(r)) : Speaks("fw", x, p)) => Covers(r, p)
         /\ Covers(r, p) /\ Unparsable \notin ToSet(RulesForCpmRule(r))
            => \E x \in ToSet(RulesForCpmRule(r)) : Speaks("fw", x, p)
<1>1. IsSequence(r.matches)
  BY DEF IsRule
<1>2. CASE r.runtime # {}
  BY <1>1, <1>2, StatementsAre, RuntimeExact
<1>3. CASE r.runtime = {}
  BY <1>1, <1>3, StatementsAre, StatementSound, StatementComplete
<1> QED BY <1>2, <1>3

\* What adds a rule adds it to the policy, and with the rule's action.
LEMMA PolicyStatement ==
  ASSUME NEW r, IsRule(r), NEW x \in ToSet(RulesForCpmRule(r))
  PROVE  \/ x = Unparsable
         \/ /\ x.do = "rule" /\ x.chain = "fw" /\ ~x.orTrue
            /\ x.rule.verdict = IF r.action = "accept" THEN "accept" ELSE "drop"
<1>1. IsSequence(r.matches)
  BY DEF IsRule
<1>2. ASSUME NEW A, NEW B, NEW S, NEW cmd, cmd = AddRuleOf(r.id, "fw", Base(r, A, B, S))
      PROVE  /\ cmd.do = "rule" /\ cmd.chain = "fw" /\ ~cmd.orTrue
             /\ cmd.rule.verdict = IF r.action = "accept" THEN "accept" ELSE "drop"
  BY <1>2 DEF AddRuleOf, Base
<1>3. CASE r.runtime # {}
  <2>1. x = RuntimeStatement(r)
    BY <1>1, <1>3, StatementsAre
  <2> QED BY <2>1, <1>2 DEF RuntimeStatement
<1>4. CASE r.runtime = {}
  <2>1. PICK f \in FamiliesSaid(r) : x \in StatementsOf(r, f)
    BY <1>1, <1>4, StatementsAre
  <2>2. x = Unparsable \/ \E S : x = Statement(r, f, S)
    <3>1. \A m : \/ MatchStatement(r, f, m) = Unparsable
                 \/ \E S : MatchStatement(r, f, m) = Statement(r, f, S)
      BY DEF MatchStatement
    <3> QED BY <2>1, <3>1 DEF StatementsOf
  <2> QED BY <2>2, <1>2 DEF Statement
<1> QED BY <1>3, <1>4

----------------------------------------------------------------------------
\* The rules in the names of the container, and those of the PPPoE sessions.

\* A rule in the names of the container.
LEMMA Contained ==
  ASSUME NEW n, NEW r, IsRule(r), NEW c, c = InContainer(n, r)
  PROVE  /\ IsRule(c) /\ c.from = Name(n, r.from) /\ c.to = Name(n, r.to)
         /\ c.action = r.action
         /\ c.from = r.from /\ c.to = r.to => c = r
         /\ Tight(r) => Tight(c)
<1>1. PICK a, b : a = Name(n, r.from) /\ b = Name(n, r.to)
  OBVIOUS
<1>2. c = [r EXCEPT !.from = a, !.to = b]
  BY <1>1 DEF InContainer
<1>3. r = [id |-> r.id, from |-> r.from, to |-> r.to, action |-> r.action, fam |-> r.fam,
           src |-> r.src, dst |-> r.dst, matches |-> r.matches, dns |-> r.dns,
           state |-> r.state, ret |-> r.ret, runtime |-> r.runtime, exact |-> r.exact]
  BY DEF IsRule
<1>4. c = [id |-> r.id, from |-> a, to |-> b, action |-> r.action, fam |-> r.fam,
           src |-> r.src, dst |-> r.dst, matches |-> r.matches, dns |-> r.dns,
           state |-> r.state, ret |-> r.ret, runtime |-> r.runtime, exact |-> r.exact]
  BY <1>2, <1>3
<1>5. /\ c.id = r.id /\ c.from = a /\ c.to = b /\ c.action = r.action /\ c.fam = r.fam
      /\ c.src = r.src /\ c.dst = r.dst /\ c.matches = r.matches /\ c.dns = r.dns
      /\ c.state = r.state /\ c.ret = r.ret /\ c.runtime = r.runtime /\ c.exact = r.exact
  BY <1>4
<1>6. IsRule(c)
  <2>1. c = [id |-> c.id, from |-> c.from, to |-> c.to, action |-> c.action, fam |-> c.fam,
             src |-> c.src, dst |-> c.dst, matches |-> c.matches, dns |-> c.dns,
             state |-> c.state, ret |-> c.ret, runtime |-> c.runtime, exact |-> c.exact]
    BY <1>4
  <2>2. /\ r.fam \in {0, 4, 6} /\ IsSequence(r.matches)
        /\ \A m \in ToSet(r.matches) : IsMatch(m)
    BY DEF IsRule
  <2> QED BY <2>1, <2>2, <1>5 DEF IsRule
<1>7. FamiliesOf(c) = FamiliesOf(r)
  BY <1>5 DEF FamiliesOf
<1>8. Tight(r) => Tight(c)
  BY <1>5, <1>7 DEF Tight
<1>9. a = r.from /\ b = r.to => c = r
  BY <1>3, <1>4
<1> QED BY <1>1, <1>5, <1>6, <1>8, <1>9

\* A rule that is added for a session covers all that passes between the two.
LEMMA PppRuleIs ==
  ASSUME NEW a, NEW b, NEW r, r = PppRule(a, b)
  PROVE  /\ IsRule(r) /\ Tight(r) /\ r.from = a /\ r.to = b /\ r.action = "accept"
         /\ \A n, c : c = InContainer(n, r) /\ Name(n, a) = a /\ Name(n, b) = b => c = r
         /\ \A p : Covers(r, p) <=> p.iif = a /\ p.oif = b
<1>0. PICK none, no, empty, id, accept, zero, blank :
          /\ none = <<>> /\ no = FALSE /\ empty = {} /\ id = "pppoe-fabric"
          /\ accept = "accept" /\ zero = 0 /\ blank = ""
  OBVIOUS
<1>1. r = [id |-> id, from |-> a, to |-> b, action |-> accept,
           fam |-> zero, src |-> empty, dst |-> empty, matches |-> none, dns |-> no,
           state |-> blank, ret |-> no, runtime |-> empty, exact |-> no]
  BY <1>0 DEF PppRule
<1>2. /\ r.id = id /\ r.from = a /\ r.to = b /\ r.action = accept /\ r.fam = zero
      /\ r.src = empty /\ r.dst = empty /\ r.matches = none /\ r.dns = no /\ r.state = blank
      /\ r.ret = no /\ r.runtime = empty /\ r.exact = no
  BY <1>1
<1>3. ToSet(r.matches) = {} /\ IsSequence(r.matches)
  BY <1>0, <1>2, Spelled
<1>4. IsRule(r)
  <2>1. r = [id |-> r.id, from |-> r.from, to |-> r.to, action |-> r.action, fam |-> r.fam,
             src |-> r.src, dst |-> r.dst, matches |-> r.matches, dns |-> r.dns,
             state |-> r.state, ret |-> r.ret, runtime |-> r.runtime, exact |-> r.exact]
    BY <1>1
  <2> QED BY <2>1, <1>0, <1>2, <1>3 DEF IsRule
<1>5. Tight(r)
  BY <1>0, <1>2, <1>3 DEF Tight
<1>6. ASSUME NEW n, NEW c, c = InContainer(n, r), Name(n, a) = a, Name(n, b) = b
      PROVE  c = r
  BY <1>2, <1>4, <1>6, Contained
<1>7. ASSUME NEW p
      PROVE  Covers(r, p) <=> p.iif = a /\ p.oif = b
  BY <1>0, <1>2 DEF Covers
<1> QED BY <1>0, <1>2, <1>4, <1>5, <1>6, <1>7

\* EM/base.py: what the sessions and the interfaces named are.
NamedSet(n) == UNION {{Name(n, r.from), Name(n, r.to)} : r \in ToSet(n.rules)}

SaidSet(n) == {<<Name(n, r.from), Name(n, r.to)>> : r \in ToSet(n.rules)}

\* A name of the container is not translated again.
LEMMA NamesStay ==
  ASSUME NEW n \in Nodes, NEW x
  PROVE  Name(n, Name(n, x)) = Name(n, x)
<1>1. CASE x \in DOMAIN ForwardingNames(n)
  BY <1>1, NodesAssumption
<1>2. CASE x \notin DOMAIN ForwardingNames(n)
  BY <1>2 DEF Name, Runtime
<1> QED BY <1>1, <1>2

\* _pppoe_session_interface_names: names of the container.
LEMMA SessionsAre ==
  ASSUME NEW n \in Nodes
  PROVE  IsSequence(Sessions(n)) /\ \A s \in ToSet(Sessions(n)) : Name(n, s) = s
<1>1. CASE ~n.pppoe
  BY <1>1, Spelled DEF Sessions
<1>2. CASE n.pppoe
  <2>1. PICK ns : ns = SessionNames(n)
    OBVIOUS
  <2>2. IsSequence(ns)
    <3>1. IsSequence(n.interfaces)
      BY NodesAssumption
    <3>2. PICK s : s = Keep(n.interfaces, {i \in ToSet(n.interfaces) : i.kind = "pppoe-session"})
      OBVIOUS
    <3>3. IsSequence(s) /\ DOMAIN s = 1 .. Len(s)
      BY <3>1, <3>2, KeepIs, ListIs
    <3>4. PICK e : e = [i \in 1 .. Len(s) |-> s[i].name]
      OBVIOUS
    <3>5. DOMAIN e = 1 .. Len(s) /\ e = [i \in DOMAIN s |-> e[i]]
      BY <3>3, <3>4
    <3>6. IsSequence(e)
      BY <3>3, <3>5, EachIs
    <3>7. PICK c : c = IF n.ppp = NoName THEN <<>> ELSE <<n.ppp>>
      OBVIOUS
    <3>8. IsSequence(c)
      BY <3>7, Spelled
    <3>9. ns = c \o e
      BY <2>1, <3>2, <3>4, <3>7 DEF SessionNames
    <3> QED BY <3>6, <3>8, <3>9, JoinIs
  <2>3. PICK e : e = [i \in 1 .. Len(ns) |-> Name(n, ns[i])]
    OBVIOUS
  <2>4. DOMAIN ns = 1 .. Len(ns) /\ e = [i \in DOMAIN ns |-> e[i]]
    BY <2>2, <2>3, ListIs
  <2>5. IsSequence(e) /\ \A x : x \in ToSet(e) <=> \E i \in 1 .. Len(ns) : x = e[i]
    BY <2>2, <2>4, EachIs
  <2>6. Sessions(n) = Unrepeated(e)
    BY <1>2, <2>1, <2>3 DEF Sessions
  <2>7. IsSequence(Sessions(n)) /\ ToSet(Sessions(n)) = ToSet(e)
    BY <2>5, <2>6, UnrepeatedIs
  <2>8. \A i \in 1 .. Len(ns) : e[i] = Name(n, ns[i])
    BY <2>3
  <2> QED BY <2>5, <2>7, <2>8, NamesStay
<1> QED BY <1>1, <1>2

\* _augment_pppoe_forwarding_rules: the interfaces named that are no sessions.
LEMMA PeersAre ==
  ASSUME NEW n \in Nodes
  PROVE  /\ IsSequence(Peers(n)) /\ ToSet(Peers(n)) = NamedSet(n) \ ToSet(Sessions(n))
         /\ \A x \in NamedSet(n) : Name(n, x) = x
<1>1. /\ IsSequence(n.rules) /\ Len(n.rules) \in Nat /\ DOMAIN n.rules = 1 .. Len(n.rules)
      /\ \A r : r \in ToSet(n.rules) <=> \E i \in 1 .. Len(n.rules) : n.rules[i] = r
  <2>1. IsSequence(n.rules)
    BY NodesAssumption
  <2> QED BY <2>1, ListIs
<1>2. PICK ss : ss = [i \in 1 .. Len(n.rules) |->
                        <<Name(n, n.rules[i].from), Name(n, n.rules[i].to)>>]
  OBVIOUS
<1>3. ss = [i \in DOMAIN n.rules |-> ss[i]] /\ DOMAIN ss = 1 .. Len(n.rules)
  BY <1>1, <1>2
<1>4. IsSequence(ss) /\ Len(ss) = Len(n.rules)
  BY <1>1, <1>3, EachIs, ListIs
<1>5. \A i \in 1 .. Len(ss) : /\ IsSequence(ss[i])
                              /\ ToSet(ss[i]) = {Name(n, n.rules[i].from), Name(n, n.rules[i].to)}
  BY <1>2, <1>4, Spelled
<1>6. /\ IsSequence(Concat(ss))
      /\ \A x : x \in ToSet(Concat(ss)) <=> \E k \in 1 .. Len(ss) : x \in ToSet(ss[k])
  BY <1>4, <1>5, ConcatIs
<1>7. \A x : x \in ToSet(Concat(ss)) <=> x \in NamedSet(n)
  <2>1. \A x : x \in NamedSet(n) <=>
                  \E i \in 1 .. Len(n.rules) :
                      x \in {Name(n, n.rules[i].from), Name(n, n.rules[i].to)}
    BY <1>1 DEF NamedSet
  <2>2. \A x : x \in ToSet(Concat(ss)) <=>
                  \E i \in 1 .. Len(n.rules) :
                      x \in {Name(n, n.rules[i].from), Name(n, n.rules[i].to)}
    <3> TAKE x
    <3>1. x \in ToSet(Concat(ss)) <=> \E k \in 1 .. Len(n.rules) : x \in ToSet(ss[k])
      BY <1>4, <1>6
    <3>2. \A k \in 1 .. Len(n.rules) :
             ToSet(ss[k]) = {Name(n, n.rules[k].from), Name(n, n.rules[k].to)}
      BY <1>4, <1>5
    <3> QED BY <3>1, <3>2
  <2> QED BY <2>1, <2>2
<1>8. Named(n) = Unrepeated(Concat(ss))
  BY <1>2 DEF Named
<1>9. IsSequence(Named(n)) /\ ToSet(Named(n)) = NamedSet(n)
  BY <1>6, <1>7, <1>8, UnrepeatedIs
<1>10. IsSequence(Peers(n)) /\ ToSet(Peers(n)) = NamedSet(n) \ ToSet(Sessions(n))
  BY <1>9, KeepIs DEF Peers
<1>11. \A x \in NamedSet(n) : Name(n, x) = x
  BY NamesStay DEF NamedSet
<1> QED BY <1>10, <1>11

\* _augment_pppoe_forwarding_rules: each session with each peer, unless a rule speaks of
\* the two.
LEMMA PppRulesAre ==
  ASSUME NEW n \in Nodes
  PROVE  /\ IsSequence(PppRules(n))
         /\ \A r : r \in ToSet(PppRules(n)) <=>
               \E s \in ToSet(Sessions(n)), q \in NamedSet(n) \ ToSet(Sessions(n)) :
                  /\ r \in {PppRule(q, s), PppRule(s, q)}
                  /\ <<r.from, r.to>> \notin SaidSet(n)
<1>1. PICK sessions, peers : sessions = Sessions(n) /\ peers = Peers(n)
  OBVIOUS
<1>2. /\ IsSequence(sessions) /\ Len(sessions) \in Nat /\ DOMAIN sessions = 1 .. Len(sessions)
      /\ \A s : s \in ToSet(sessions) <=> \E i \in 1 .. Len(sessions) : sessions[i] = s
  BY <1>1, SessionsAre, ListIs
<1>3. /\ IsSequence(peers) /\ Len(peers) \in Nat /\ DOMAIN peers = 1 .. Len(peers)
      /\ \A q : q \in ToSet(peers) <=> \E i \in 1 .. Len(peers) : peers[i] = q
  BY <1>1, PeersAre, ListIs
<1>4. ASSUME NEW s
      PROVE  /\ IsSequence(BothWays(s, peers))
             /\ \A r : r \in ToSet(BothWays(s, peers)) <=>
                          \E q \in ToSet(peers) : r \in {PppRule(q, s), PppRule(s, q)}
  <2>1. PICK ss : ss = [i \in 1 .. Len(peers) |-> <<PppRule(peers[i], s), PppRule(s, peers[i])>>]
    OBVIOUS
  <2>2. ss = [i \in DOMAIN peers |-> ss[i]] /\ DOMAIN ss = 1 .. Len(peers)
    BY <1>3, <2>1
  <2>3. IsSequence(ss) /\ Len(ss) = Len(peers)
    BY <1>3, <2>2, EachIs, ListIs
  <2>4. \A i \in 1 .. Len(ss) : /\ IsSequence(ss[i])
                                /\ ToSet(ss[i]) = {PppRule(peers[i], s), PppRule(s, peers[i])}
    BY <2>1, <2>3, Spelled
  <2>5. /\ IsSequence(Concat(ss))
        /\ \A x : x \in ToSet(Concat(ss)) <=> \E k \in 1 .. Len(ss) : x \in ToSet(ss[k])
    BY <2>3, <2>4, ConcatIs
  <2>6. BothWays(s, peers) = Concat(ss)
    BY <2>1 DEF BothWays
  <2>7. \A r : r \in ToSet(BothWays(s, peers)) <=>
                 \E i \in 1 .. Len(peers) : r \in {PppRule(peers[i], s), PppRule(s, peers[i])}
    <3> TAKE r
    <3>1. r \in ToSet(Concat(ss)) <=> \E k \in 1 .. Len(peers) : r \in ToSet(ss[k])
      BY <2>3, <2>5
    <3>2. \A k \in 1 .. Len(peers) :
             ToSet(ss[k]) = {PppRule(peers[k], s), PppRule(s, peers[k])}
      BY <2>3, <2>4
    <3> QED BY <3>1, <3>2, <2>6
  <2>8. \A q : q \in ToSet(peers) <=> \E i \in 1 .. Len(peers) : peers[i] = q
    BY <1>3
  <2> QED BY <2>5, <2>6, <2>7, <2>8
<1>5. PICK ss : ss = [i \in 1 .. Len(sessions) |-> BothWays(sessions[i], peers)]
  OBVIOUS
<1>6. ss = [i \in DOMAIN sessions |-> ss[i]] /\ DOMAIN ss = 1 .. Len(sessions)
  BY <1>2, <1>5
<1>7. IsSequence(ss) /\ Len(ss) = Len(sessions)
  BY <1>2, <1>6, EachIs, ListIs
<1>8. \A i \in 1 .. Len(ss) :
         /\ IsSequence(ss[i])
         /\ \A r : r \in ToSet(ss[i]) <=>
                   \E q \in ToSet(peers) : r \in {PppRule(q, sessions[i]), PppRule(sessions[i], q)}
  BY <1>4, <1>5, <1>7
<1>9. PICK all : all = Concat(ss)
  OBVIOUS
<1>10. /\ IsSequence(all)
       /\ \A x : x \in ToSet(all) <=> \E k \in 1 .. Len(ss) : x \in ToSet(ss[k])
  BY <1>7, <1>8, <1>9, ConcatIs
<1>11. \A r : r \in ToSet(all) <=> \E s \in ToSet(sessions), q \in ToSet(peers) :
                                      r \in {PppRule(q, s), PppRule(s, q)}
  BY <1>2, <1>7, <1>8, <1>10
<1>12. PppRules(n) = Keep(all, {r \in ToSet(all) : <<r.from, r.to>> \notin SaidSet(n)})
  BY <1>1, <1>5, <1>9 DEF PppRules, SaidSet
<1>13. /\ IsSequence(PppRules(n))
       /\ ToSet(PppRules(n)) = {r \in ToSet(all) : <<r.from, r.to>> \notin SaidSet(n)}
  BY <1>10, <1>12, KeepIs
<1>14. ToSet(peers) = NamedSet(n) \ ToSet(sessions)
  BY <1>1, PeersAre
<1> QED BY <1>1, <1>11, <1>13, <1>14

----------------------------------------------------------------------------
\* The forwarding rules of a node, and what the verdict of their statements is.

\* The rules of a node in the names of the container, and their order.
LEMMA ForwardingRulesAre ==
  ASSUME NEW n \in Nodes, NEW fr, fr = ForwardingRules(n)
  PROVE  /\ IsSequence(fr) /\ IsSequence(n.rules) /\ Len(n.rules) \in Nat
         /\ Len(n.rules) <= Len(fr)
         /\ \A i \in 1 .. Len(n.rules) : fr[i] = InContainer(n, n.rules[i]) /\ IsRule(n.rules[i])
         /\ \A i \in 1 .. Len(fr) : i \notin 1 .. Len(n.rules) => fr[i] \in ToSet(PppRules(n))
         /\ \A r \in ToSet(PppRules(n)) : \E i \in 1 .. Len(fr) : fr[i] = r
         /\ \A i \in 1 .. Len(fr) : IsRule(fr[i])
         /\ (\A r \in ToSet(n.rules) : Tight(r)) => \A i \in 1 .. Len(fr) : Tight(fr[i])
         /\ \A r \in ToSet(PppRules(n)) :
               IsRule(r) /\ Tight(r) /\ r.action = "accept" /\ InContainer(n, r) = r
<1>1. PICK ppp : ppp = PppRules(n)
  OBVIOUS
<1>2. /\ IsSequence(ppp) /\ Len(ppp) \in Nat
      /\ \A r : r \in ToSet(ppp) <=> \E i \in 1 .. Len(ppp) : ppp[i] = r
  BY <1>1, PppRulesAre, ListIs
<1>3. \A r \in ToSet(ppp) : IsRule(r) /\ Tight(r) /\ r.action = "accept" /\ InContainer(n, r) = r
  <2> TAKE r \in ToSet(ppp)
  <2>1. PICK s \in ToSet(Sessions(n)), q \in NamedSet(n) \ ToSet(Sessions(n)) :
            r \in {PppRule(q, s), PppRule(s, q)}
    BY <1>1, PppRulesAre
  <2>2. Name(n, s) = s /\ Name(n, q) = q
    BY <2>1, SessionsAre, PeersAre
  <2> QED BY <2>1, <2>2, PppRuleIs
<1>4. /\ IsSequence(n.rules) /\ Len(n.rules) \in Nat
      /\ \A r : r \in ToSet(n.rules) <=> \E i \in 1 .. Len(n.rules) : n.rules[i] = r
      /\ \A r \in ToSet(n.rules) : IsRule(r)
  <2>1. IsSequence(n.rules) /\ \A r \in ToSet(n.rules) : IsRule(r)
    BY NodesAssumption
  <2> QED BY <2>1, ListIs
<1>5. PICK rules : rules = n.rules \o ppp
  OBVIOUS
<1>6. /\ IsSequence(rules) /\ DOMAIN rules = 1 .. Len(rules)
      /\ Len(rules) = Len(n.rules) + Len(ppp)
      /\ \A i \in 1 .. Len(n.rules) : rules[i] = n.rules[i]
      /\ \A i \in 1 .. Len(ppp) : rules[Len(n.rules) + i] = ppp[i]
      /\ \A i \in 1 .. Len(rules) : i \in 1 .. Len(n.rules) \/ i - Len(n.rules) \in 1 .. Len(ppp)
  BY <1>2, <1>4, <1>5, JoinIs, JoinAt, ListIs
<1>7. fr = [i \in 1 .. Len(rules) |-> InContainer(n, rules[i])]
  BY <1>1, <1>5 DEF ForwardingRules
<1>8. fr = [i \in DOMAIN rules |-> fr[i]] /\ DOMAIN fr = 1 .. Len(rules)
  BY <1>6, <1>7
<1>9. IsSequence(fr) /\ Len(fr) = Len(rules)
  BY <1>6, <1>8, EachIs, ListIs
<1>10. \A i \in 1 .. Len(n.rules) :
          fr[i] = InContainer(n, n.rules[i]) /\ n.rules[i] \in ToSet(n.rules)
  BY <1>2, <1>4, <1>6, <1>7
<1>11. \A i \in 1 .. Len(ppp) : fr[Len(n.rules) + i] = ppp[i] /\ ppp[i] \in ToSet(ppp)
  <2> TAKE i \in 1 .. Len(ppp)
  <2>1. ppp[i] \in ToSet(ppp) /\ Len(n.rules) + i \in 1 .. Len(rules)
    BY <1>2, <1>4, <1>6
  <2> QED BY <2>1, <1>3, <1>6, <1>7
<1>12. \A i \in 1 .. Len(fr) : i \notin 1 .. Len(n.rules) => fr[i] \in ToSet(ppp)
  <2> TAKE i \in 1 .. Len(fr)
  <2>1. i \notin 1 .. Len(n.rules) =>
            i - Len(n.rules) \in 1 .. Len(ppp) /\ Len(n.rules) + (i - Len(n.rules)) = i
    BY <1>4, <1>6, <1>9
  <2> QED BY <2>1, <1>11
<1>13. \A r \in ToSet(ppp) : \E i \in 1 .. Len(fr) : fr[i] = r
  <2> TAKE r \in ToSet(ppp)
  <2>1. PICK i \in 1 .. Len(ppp) : ppp[i] = r
    BY <1>2
  <2>2. Len(n.rules) + i \in 1 .. Len(fr)
    BY <1>2, <1>4, <1>6, <1>9
  <2> QED BY <2>1, <2>2, <1>11
<1>14. \A i \in 1 .. Len(n.rules) :
          IsRule(n.rules[i]) /\ IsRule(fr[i]) /\ (Tight(n.rules[i]) => Tight(fr[i]))
  BY <1>4, <1>10, Contained
<1>15. \A i \in 1 .. Len(fr) : IsRule(fr[i])
  BY <1>3, <1>12, <1>14
<1>16. (\A r \in ToSet(n.rules) : Tight(r)) => \A i \in 1 .. Len(fr) : Tight(fr[i])
  BY <1>3, <1>10, <1>12, <1>14
<1>17. Len(n.rules) <= Len(fr)
  BY <1>2, <1>4, <1>6, <1>9
<1> QED BY <1>1, <1>3, <1>4, <1>9, <1>10, <1>12, <1>13, <1>14, <1>15, <1>16, <1>17

\* policy_firewall.py: no statement twice, those of earlier rules first.
LEMMA PolicyRulesAre ==
  ASSUME NEW n \in Nodes, NEW fr, fr = ForwardingRules(n), NEW D, D = PolicyRules(n)
  PROVE  /\ IsSequence(D)
         /\ \A x : x \in ToSet(D) <=> \E k \in 1 .. Len(fr) : x \in ToSet(RulesForCpmRule(fr[k]))
         /\ \A i \in 1 .. Len(D) :
               \E k \in 1 .. Len(fr) :
                  /\ D[i] \in ToSet(RulesForCpmRule(fr[k]))
                  /\ \A l \in 1 .. k - 1 : ToSet(RulesForCpmRule(fr[l])) \subseteq Before(D, i)
<1>1. /\ IsSequence(fr) /\ DOMAIN fr = 1 .. Len(fr) /\ Len(fr) \in Nat
      /\ \A i \in 1 .. Len(fr) : IsRule(fr[i])
  BY ForwardingRulesAre, ListIs
<1>2. PICK ss : ss = [i \in 1 .. Len(fr) |-> RulesForCpmRule(fr[i])]
  OBVIOUS
<1>3. ss = [i \in DOMAIN fr |-> ss[i]] /\ DOMAIN ss = 1 .. Len(fr)
  BY <1>1, <1>2
<1>4. IsSequence(ss) /\ Len(ss) = Len(fr)
  BY <1>1, <1>3, EachIs, ListIs
<1>5. \A i \in 1 .. Len(ss) : ss[i] = RulesForCpmRule(fr[i]) /\ IsSequence(ss[i])
  BY <1>1, <1>2, <1>4, StatementsAre DEF IsRule
<1>6. PICK c : c = Concat(ss)
  OBVIOUS
<1>7. /\ IsSequence(c)
      /\ \A x : x \in ToSet(c) <=> \E k \in 1 .. Len(ss) : x \in ToSet(ss[k])
      /\ \A i \in 1 .. Len(c) :
                \E k \in 1 .. Len(ss) :
                    /\ c[i] \in ToSet(ss[k])
                    /\ \A l \in 1 .. k - 1 : ToSet(ss[l]) \subseteq Before(c, i)
  BY <1>4, <1>5, <1>6, ConcatIs
<1>8. D = Unrepeated(c)
  BY <1>2, <1>6 DEF PolicyRules
<1>9. /\ IsSequence(D) /\ ToSet(D) = ToSet(c)
      /\ \A i \in 1 .. Len(D) :
            \E k \in 1 .. Len(c) : D[i] = c[k] /\ Before(c, k) \subseteq Before(D, i)
  BY <1>7, <1>8, UnrepeatedIs
<1>10. \A i \in 1 .. Len(D) :
               \E k \in 1 .. Len(fr) :
                  /\ D[i] \in ToSet(RulesForCpmRule(fr[k]))
                  /\ \A l \in 1 .. k - 1 : ToSet(RulesForCpmRule(fr[l])) \subseteq Before(D, i)
  <2> TAKE i \in 1 .. Len(D)
  <2>1. PICK j \in 1 .. Len(c) : D[i] = c[j] /\ Before(c, j) \subseteq Before(D, i)
    BY <1>9
  <2>2. PICK k \in 1 .. Len(ss) :
                    /\ c[j] \in ToSet(ss[k])
                    /\ \A l \in 1 .. k - 1 : ToSet(ss[l]) \subseteq Before(c, j)
    BY <1>7
  <2>3. k \in 1 .. Len(fr) /\ \A l \in 1 .. k - 1 : l \in 1 .. Len(ss)
    BY <1>1, <1>4
  <2>4. D[i] \in ToSet(RulesForCpmRule(fr[k]))
    BY <2>1, <2>2, <1>5
  <2>5. ASSUME NEW l \in 1 .. k - 1
        PROVE  ToSet(RulesForCpmRule(fr[l])) \subseteq Before(D, i)
    <3>1. ss[l] = RulesForCpmRule(fr[l])
      BY <2>3, <1>5
    <3> QED BY <3>1, <2>1, <2>2
  <2> QED BY <2>3, <2>4, <2>5
<1>11. \A x : x \in ToSet(D) <=> \E k \in 1 .. Len(fr) : x \in ToSet(RulesForCpmRule(fr[k]))
  <2> TAKE x
  <2>1. x \in ToSet(D) <=> \E k \in 1 .. Len(fr) : x \in ToSet(ss[k])
    BY <1>4, <1>7, <1>9
  <2>2. \A k \in 1 .. Len(fr) : ss[k] = RulesForCpmRule(fr[k])
    BY <1>4, <1>5
  <2> QED BY <2>1, <2>2
<1> QED BY <1>9, <1>10, <1>11

\* What Accepted says of a node, in the names that its rules get.
LEMMA AcceptedIs ==
  ASSUME NEW n \in Nodes, NEW p, NEW fr, fr = ForwardingRules(n)
  PROVE  Accepted(n, p) <=>
            \/ \E i \in 1 .. Len(n.rules) :
                  /\ Covers(fr[i], p) /\ \A j \in 1 .. i - 1 : ~Covers(fr[j], p)
                  /\ fr[i].action = "accept"
            \/ /\ \A i \in 1 .. Len(n.rules) : ~Covers(fr[i], p)
               /\ \E r \in ToSet(PppRules(n)) : Covers(r, p)
<1>1. PICK rules : rules = [i \in 1 .. Len(n.rules) |-> InContainer(n, n.rules[i])]
  OBVIOUS
<1>2. /\ IsSequence(n.rules) /\ Len(n.rules) \in Nat
      /\ \A i \in 1 .. Len(n.rules) : fr[i] = InContainer(n, n.rules[i]) /\ IsRule(n.rules[i])
  BY ForwardingRulesAre
<1>3. DOMAIN n.rules = 1 .. Len(n.rules)
      /\ \A r : r \in ToSet(n.rules) <=> \E i \in 1 .. Len(n.rules) : n.rules[i] = r
  BY <1>2, ListIs
<1>4. rules = [i \in DOMAIN n.rules |-> rules[i]]
  BY <1>1, <1>3
<1>5. /\ IsSequence(rules) /\ Len(rules) = Len(n.rules)
      /\ \A r : r \in ToSet(rules) <=> \E i \in 1 .. Len(n.rules) : r = rules[i]
  <2>1. DOMAIN rules = 1 .. Len(n.rules)
    BY <1>1
  <2>2. IsSequence(rules) /\ \A r : r \in ToSet(rules) <=> \E i \in 1 .. Len(n.rules) : r = rules[i]
    BY <1>2, <1>4, EachIs
  <2> QED BY <2>1, <2>2, <1>2, ListIs
<1>6. \A i \in 1 .. Len(n.rules) :
        /\ rules[i] = fr[i]
        /\ rules[i].from = Name(n, n.rules[i].from) /\ rules[i].to = Name(n, n.rules[i].to)
  BY <1>1, <1>2, Contained
<1>7. SessionPair(ToSet(rules), ToSet(Sessions(n)), p)
         <=> \E r \in ToSet(PppRules(n)) : Covers(r, p)
  <2> DEFINE named == UNION {{r.from, r.to} : r \in ToSet(rules)}
             S == ToSet(Sessions(n))
  <2>1. \A x : x \in named <=> x \in NamedSet(n)
    <3>1. ASSUME NEW x PROVE x \in NamedSet(n) <=>
              \E i \in 1 .. Len(n.rules) : x \in {rules[i].from, rules[i].to}
      BY <1>3, <1>6 DEF NamedSet
    <3>2. ASSUME NEW x PROVE x \in named <=>
              \E i \in 1 .. Len(n.rules) : x \in {rules[i].from, rules[i].to}
      BY <1>5
    <3> QED BY <3>1, <3>2
  <2>2. (\A r \in ToSet(rules) : <<r.from, r.to>> # <<p.iif, p.oif>>)
        <=> <<p.iif, p.oif>> \notin SaidSet(n)
    <3>1. <<p.iif, p.oif>> \in SaidSet(n) <=>
            \E i \in 1 .. Len(n.rules) : <<rules[i].from, rules[i].to>> = <<p.iif, p.oif>>
      BY <1>3, <1>6 DEF SaidSet
    <3> QED BY <3>1, <1>5
  <2>3. SessionPair(ToSet(rules), S, p) <=>
            /\ \/ p.iif \in S /\ p.oif \in NamedSet(n) \ S
               \/ p.oif \in S /\ p.iif \in NamedSet(n) \ S
            /\ <<p.iif, p.oif>> \notin SaidSet(n)
    <3>1. SessionPair(ToSet(rules), S, p) <=>
            /\ \/ p.iif \in S /\ p.oif \in named \ S
               \/ p.oif \in S /\ p.iif \in named \ S
            /\ \A r \in ToSet(rules) : <<r.from, r.to>> # <<p.iif, p.oif>>
      BY DEF SessionPair
    <3> HIDE DEF named, S
    <3> QED BY <3>1, <2>1, <2>2
  <2>4. ASSUME NEW r \in ToSet(PppRules(n)), Covers(r, p)
        PROVE  SessionPair(ToSet(rules), S, p)
    <3>1. PICK s \in S : \E q \in NamedSet(n) \ S :
              r \in {PppRule(q, s), PppRule(s, q)} /\ <<r.from, r.to>> \notin SaidSet(n)
      BY <2>4, PppRulesAre
    <3>2. PICK q \in NamedSet(n) \ S :
              r \in {PppRule(q, s), PppRule(s, q)} /\ <<r.from, r.to>> \notin SaidSet(n)
      BY <3>1
    <3>3. \/ r.from = q /\ r.to = s /\ p.iif = q /\ p.oif = s
          \/ r.from = s /\ r.to = q /\ p.iif = s /\ p.oif = q
      BY <3>2, <2>4, PppRuleIs
    <3> HIDE DEF S
    <3> QED BY <3>2, <3>3, <2>3
  <2>5. ASSUME SessionPair(ToSet(rules), S, p)
        PROVE  \E r \in ToSet(PppRules(n)) : Covers(r, p)
    <3>1. PICK s \in S, q \in NamedSet(n) :
            /\ q \notin S
            /\ \/ p.iif = s /\ p.oif = q
               \/ p.iif = q /\ p.oif = s
      <4> HIDE DEF S
      <4> QED BY <2>5, <2>3
    <3>2. PICK r : r = PppRule(p.iif, p.oif)
      OBVIOUS
    <3>3. r.from = p.iif /\ r.to = p.oif /\ Covers(r, p)
      BY <3>2, PppRuleIs
    <3>4. <<r.from, r.to>> \notin SaidSet(n)
      BY <2>5, <2>3, <3>3
    <3>5. r \in {PppRule(q, s), PppRule(s, q)}
      BY <3>1, <3>2
    <3>6. q \in NamedSet(n) \ S
      BY <3>1
    <3>7. r \in ToSet(PppRules(n))
      BY <3>4, <3>5, <3>6, PppRulesAre
    <3> QED BY <3>3, <3>7
  <2> QED BY <2>4, <2>5
<1>8. Accepted(n, p) <=>
            \/ \E i \in 1 .. Len(rules) :
                  /\ Covers(rules[i], p) /\ \A j \in 1 .. i - 1 : ~Covers(rules[j], p)
                  /\ rules[i].action = "accept"
            \/ /\ \A i \in 1 .. Len(rules) : ~Covers(rules[i], p)
               /\ SessionPair(ToSet(rules), ToSet(Sessions(n)), p)
  BY <1>1 DEF Accepted
<1>9. \A i \in 1 .. Len(n.rules) : \A j \in 1 .. i - 1 : j \in 1 .. Len(n.rules)
  BY <1>2
<1>10. (\E i \in 1 .. Len(rules) :
                  /\ Covers(rules[i], p) /\ \A j \in 1 .. i - 1 : ~Covers(rules[j], p)
                  /\ rules[i].action = "accept")
       <=> \E i \in 1 .. Len(n.rules) :
                  /\ Covers(fr[i], p) /\ \A j \in 1 .. i - 1 : ~Covers(fr[j], p)
                  /\ fr[i].action = "accept"
  BY <1>5, <1>6, <1>9
<1>11. (\A i \in 1 .. Len(rules) : ~Covers(rules[i], p))
       <=> \A i \in 1 .. Len(n.rules) : ~Covers(fr[i], p)
  BY <1>5, <1>6
<1> QED BY <1>7, <1>8, <1>10, <1>11

\* The first statement of the policy that a packet meets decides as the first
\* rule that covers it.
LEMMA PolicyVerdict ==
  ASSUME NEW n \in Nodes, ~Refused(n), \A r \in ToSet(n.rules) : Tight(r),
         NEW p \in Packets, NEW D, D = PolicyRules(n), NEW x \in 1 .. Len(D),
         Speaks("fw", D[x], p),
         \A y \in Before(D, x) : y # Unparsable /\ ~Speaks("fw", y, p)
  PROVE  D[x].rule.verdict = "accept" <=> Accepted(n, p)
<1>1. PICK fr : fr = ForwardingRules(n)
  OBVIOUS
<1>2. /\ IsSequence(fr) /\ IsSequence(n.rules) /\ Len(n.rules) \in Nat
      /\ Len(n.rules) <= Len(fr)
      /\ \A i \in 1 .. Len(fr) : i \notin 1 .. Len(n.rules) => fr[i] \in ToSet(PppRules(n))
      /\ \A i \in 1 .. Len(fr) : IsRule(fr[i]) /\ Tight(fr[i])
      /\ \A r \in ToSet(PppRules(n)) : r.action = "accept"
  BY <1>1, ForwardingRulesAre
<1>3. PICK k \in 1 .. Len(fr) :
          /\ D[x] \in ToSet(RulesForCpmRule(fr[k]))
          /\ \A l \in 1 .. k - 1 : ToSet(RulesForCpmRule(fr[l])) \subseteq Before(D, x)
  BY <1>1, PolicyRulesAre
<1>4. Len(fr) \in Nat /\ \A i \in 1 .. Len(fr) : ~RuleRefused(fr[i])
  <2>1. Len(fr) \in Nat /\ \A r : r \in ToSet(fr) <=> \E i \in 1 .. Len(fr) : fr[i] = r
    BY <1>2, ListIs
  <2>2. \A r \in ToSet(fr) : ~RuleRefused(r)
    BY <1>1 DEF Refused
  <2> QED BY <2>1, <2>2
<1>5. Covers(fr[k], p)
  BY <1>2, <1>3, <1>4, RuleSpeaks
<1>6. ASSUME NEW l \in 1 .. k - 1 PROVE ~Covers(fr[l], p)
  <2>1. l \in 1 .. Len(fr)
    BY <1>4
  <2>2. \A y \in ToSet(RulesForCpmRule(fr[l])) : y # Unparsable /\ ~Speaks("fw", y, p)
    BY <1>3
  <2> QED BY <2>1, <2>2, <1>2, <1>4, RuleSpeaks
<1>7. D[x].rule.verdict = IF fr[k].action = "accept" THEN "accept" ELSE "drop"
  BY <1>2, <1>3, PolicyStatement, UnparsableIsSilent
<1>8. CASE k \in 1 .. Len(n.rules)
  <2>1. \A i \in 1 .. Len(n.rules) :
            Covers(fr[i], p) /\ (\A j \in 1 .. i - 1 : ~Covers(fr[j], p)) => i = k
    <3> SUFFICES ASSUME NEW i \in 1 .. Len(n.rules), Covers(fr[i], p),
                        \A j \in 1 .. i - 1 : ~Covers(fr[j], p), i # k
                 PROVE  FALSE
      OBVIOUS
    <3>1. i \in 1 .. k - 1 \/ k \in 1 .. i - 1
      BY <1>2, <1>8
    <3> QED BY <3>1, <1>5, <1>6
  <2>2. Accepted(n, p) <=> fr[k].action = "accept"
    BY <2>1, <1>1, <1>5, <1>6, <1>8, AcceptedIs
  <2> QED BY <2>2, <1>7
<1>9. CASE k \notin 1 .. Len(n.rules)
  <2>1. fr[k] \in ToSet(PppRules(n)) /\ fr[k].action = "accept"
    BY <1>2, <1>9
  <2>2. \A i \in 1 .. Len(n.rules) : i \in 1 .. k - 1
    BY <1>2, <1>4, <1>9
  <2>3. \A i \in 1 .. Len(n.rules) : ~Covers(fr[i], p)
    BY <2>2, <1>6
  <2>4. Accepted(n, p)
    BY <2>1, <2>3, <1>1, <1>5, AcceptedIs
  <2> QED BY <2>1, <2>4, <1>7
<1> QED BY <1>8, <1>9

\* What is accepted, some statement of the policy speaks of.
LEMMA PolicySpeaks ==
  ASSUME NEW n \in Nodes, ~Refused(n), \A r \in ToSet(n.rules) : Tight(r),
         NEW p \in Packets, Accepted(n, p), NEW D, D = PolicyRules(n),
         Unparsable \notin ToSet(D)
  PROVE  \E x \in ToSet(D) : Speaks("fw", x, p)
<1>1. PICK fr : fr = ForwardingRules(n)
  OBVIOUS
<1>2. /\ IsSequence(fr) /\ Len(n.rules) \in Nat
      /\ Len(n.rules) <= Len(fr)
      /\ \A i \in 1 .. Len(fr) : IsRule(fr[i]) /\ Tight(fr[i])
      /\ \A r \in ToSet(PppRules(n)) : \E i \in 1 .. Len(fr) : fr[i] = r
  BY <1>1, ForwardingRulesAre
<1>3. Len(fr) \in Nat /\ \A i \in 1 .. Len(fr) : ~RuleRefused(fr[i])
  <2>1. Len(fr) \in Nat /\ \A r : r \in ToSet(fr) <=> \E i \in 1 .. Len(fr) : fr[i] = r
    BY <1>2, ListIs
  <2>2. \A r \in ToSet(fr) : ~RuleRefused(r)
    BY <1>1 DEF Refused
  <2> QED BY <2>1, <2>2
<1>4. PICK k \in 1 .. Len(fr) : Covers(fr[k], p)
  <2>1. \A i \in 1 .. Len(n.rules) : i \in 1 .. Len(fr)
    BY <1>2, <1>3
  <2> QED BY <2>1, <1>1, <1>2, AcceptedIs
<1>5. ToSet(RulesForCpmRule(fr[k])) \subseteq ToSet(D)
  BY <1>1, PolicyRulesAre
<1>6. \E x \in ToSet(RulesForCpmRule(fr[k])) : Speaks("fw", x, p)
  BY <1>2, <1>3, <1>4, <1>5, RuleSpeaks
<1> QED BY <1>5, <1>6

----------------------------------------------------------------------------
\* What the commands of the firewall are: their kind, and their order.

RuleOf(c, x) == x.do = "rule" /\ x.chain = c

EstablishedOf(c) == IF c = "fw" THEN AnswersPass ELSE AddRule(c, Established)

\* Where the chains of a WAN and of the policy let answers pass, this comes first;
\* and the statements of the policy, D, keep their order.
Good(s, D) ==
    /\ \A i \in 1 .. Len(s) : \A c \in {"wan", "fw"} :
          RuleOf(c, s[i]) => EstablishedOf(c) \in Before(s, i) \cup {s[i]}
    /\ \A i \in 1 .. Len(s) :
          RuleOf("fw", s[i]) =>
            s[i] \in {EstablishedOf("fw"), FromManagement, ToManagement} \/ Shows(s, i, D)

\* Two good lists of commands make a good one.
LEMMA GoodJoin ==
  ASSUME NEW s, NEW t, NEW D, IsSequence(s), IsSequence(t), Good(s, D), Good(t, D)
  PROVE  Good(s \o t, D)
<1>1. PICK u : u = s \o t /\ Joined(s, t, u)
  BY DEF Joined
<1>2. /\ \A i \in 1 .. Len(s) : u[i] = s[i] /\ Before(u, i) = Before(s, i)
      /\ \A i \in 1 .. Len(t) :
             /\ u[Len(s) + i] = t[i]
             /\ Before(t, i) \subseteq Before(u, Len(s) + i)
             /\ ToSet(s) \subseteq Before(u, Len(s) + i)
      /\ \A i \in 1 .. Len(u) : i \in 1 .. Len(s) \/ \E j \in 1 .. Len(t) : i = Len(s) + j
  BY <1>1, JoinOrder
<1>3. ASSUME NEW i \in 1 .. Len(u), NEW c \in {"wan", "fw"}, RuleOf(c, u[i])
      PROVE  EstablishedOf(c) \in Before(u, i) \cup {u[i]}
  <2>1. CASE i \in 1 .. Len(s)
    <3>1. RuleOf(c, s[i]) /\ u[i] = s[i] /\ Before(u, i) = Before(s, i)
      BY <1>2, <1>3, <2>1
    <3> QED BY <3>1, <2>1 DEF Good
  <2>2. ASSUME NEW j \in 1 .. Len(t), i = Len(s) + j
        PROVE  EstablishedOf(c) \in Before(u, i) \cup {u[i]}
    <3>1. RuleOf(c, t[j]) /\ u[i] = t[j] /\ Before(t, j) \subseteq Before(u, i)
      BY <1>2, <1>3, <2>2
    <3> QED BY <3>1 DEF Good
  <2> QED BY <1>2, <2>1, <2>2
<1>4. ASSUME NEW i \in 1 .. Len(u), RuleOf("fw", u[i])
      PROVE  u[i] \in {EstablishedOf("fw"), FromManagement, ToManagement} \/ Shows(u, i, D)
  <2>1. CASE i \in 1 .. Len(s)
    <3>1. RuleOf("fw", s[i]) /\ u[i] = s[i] /\ Before(u, i) = Before(s, i)
      BY <1>2, <1>4, <2>1
    <3>2. Shows(s, i, D) => Shows(u, i, D)
      BY <3>1 DEF Shows
    <3> QED BY <3>1, <3>2, <2>1 DEF Good
  <2>2. ASSUME NEW j \in 1 .. Len(t), i = Len(s) + j
        PROVE  u[i] \in {EstablishedOf("fw"), FromManagement, ToManagement} \/ Shows(u, i, D)
    <3>1. RuleOf("fw", t[j]) /\ u[i] = t[j] /\ Before(t, j) \subseteq Before(u, i)
      BY <1>2, <1>4, <2>2
    <3>2. Shows(t, j, D) => Shows(u, i, D)
      BY <3>1 DEF Shows
    <3> QED BY <3>1, <3>2 DEF Good
  <2> QED BY <1>2, <2>1, <2>2
<1>5. Good(u, D)
  BY <1>3, <1>4 DEF Good
<1> QED BY <1>1, <1>5

\* Commands without a rule of the two chains.
LEMMA GoodWithout ==
  ASSUME NEW s, NEW D, IsSequence(s), \A x \in ToSet(s) : ~RuleOf("wan", x) /\ ~RuleOf("fw", x)
  PROVE  Good(s, D)
<1>1. \A i \in 1 .. Len(s) : s[i] \in ToSet(s)
  BY ListIs
<1> QED BY <1>1 DEF Good

\* Behind the rule for answers, rules of the WAN may come in any order.
LEMMA GoodAfter ==
  ASSUME NEW s, NEW t, NEW D, IsSequence(s), IsSequence(t), Good(s, D),
         EstablishedOf("wan") \in ToSet(s), \A x \in ToSet(t) : ~RuleOf("fw", x)
  PROVE  Good(s \o t, D)
<1>0. IsSequence(s) /\ IsSequence(t)
  OBVIOUS
<1>1. PICK u : u = s \o t /\ Joined(s, t, u)
  BY DEF Joined
<1>2. /\ \A i \in 1 .. Len(s) : u[i] = s[i] /\ Before(u, i) = Before(s, i)
      /\ \A i \in 1 .. Len(t) :
             /\ u[Len(s) + i] = t[i]
             /\ Before(t, i) \subseteq Before(u, Len(s) + i)
             /\ ToSet(s) \subseteq Before(u, Len(s) + i)
      /\ \A i \in 1 .. Len(u) : i \in 1 .. Len(s) \/ \E j \in 1 .. Len(t) : i = Len(s) + j
  BY ONLY <1>0, <1>1, JoinOrder
<1>3. \A i \in 1 .. Len(t) : t[i] \in ToSet(t)
  BY ListIs
<1>4. ASSUME NEW i \in 1 .. Len(u), NEW c \in {"wan", "fw"}, RuleOf(c, u[i])
      PROVE  EstablishedOf(c) \in Before(u, i) \cup {u[i]}
  <2>1. CASE i \in 1 .. Len(s)
    <3>1. RuleOf(c, s[i]) /\ u[i] = s[i] /\ Before(u, i) = Before(s, i)
      BY <1>2, <1>4, <2>1
    <3> QED BY <3>1, <2>1 DEF Good
  <2>2. ASSUME NEW j \in 1 .. Len(t), i = Len(s) + j
        PROVE  EstablishedOf(c) \in Before(u, i) \cup {u[i]}
    <3>1. RuleOf(c, t[j]) /\ t[j] \in ToSet(t) /\ ToSet(s) \subseteq Before(u, i)
      BY <1>2, <1>3, <1>4, <2>2
    <3>2. c = "wan"
      BY <3>1
    <3> QED BY <3>1, <3>2
  <2> QED BY <1>2, <2>1, <2>2
<1>5. ASSUME NEW i \in 1 .. Len(u), RuleOf("fw", u[i])
      PROVE  u[i] \in {EstablishedOf("fw"), FromManagement, ToManagement} \/ Shows(u, i, D)
  <2>1. i \in 1 .. Len(s)
    BY <1>2, <1>3, <1>5
  <2>2. RuleOf("fw", s[i]) /\ u[i] = s[i] /\ Before(u, i) = Before(s, i)
    BY <1>2, <1>5, <2>1
  <2>3. Shows(s, i, D) => Shows(u, i, D)
    BY <2>2 DEF Shows
  <2> QED BY <2>1, <2>2, <2>3 DEF Good
<1>6. Good(u, D)
  BY <1>4, <1>5 DEF Good
<1> QED BY <1>1, <1>6

WanDrop(wan) == [Always("drop") EXCEPT !.iif = {wan}, !.src = Private]

NatTargets(n) == ToSet(Runtimes(n, n.masquerade \o n.egress))

NatRule(n, f, to) ==
    [Always("masquerade") EXCEPT !.src = OfFamily(n.saddr, f), !.oif = {to}]

\* What a command of a node may be, chain by chain.
FitsChain(n, x) ==
    /\ x.chain \in Chains
    /\ x.chain = "fw" => x.policy = "drop" /\ ForwardingRules(n) # <<>>
    /\ x.chain \in {"wan", "guard", "nat4", "nat6"} => x.policy = "accept"
    /\ x.chain = "nat4" => 4 \in n.nat
    /\ x.chain = "nat6" => 6 \in n.nat

FitsRule(n, x) ==
    /\ x.chain \in Chains
    /\ x.chain \in {"input", "wan"} => Wans(n) # <<>>
    /\ x.chain = "wan" => x.rule = Established \/ \E wan \in ToSet(Wans(n)) : x.rule = WanDrop(wan)
    /\ x.chain = "guard" => x.rule = [Always("drop") EXCEPT !.oif = {Management}]
    /\ \A f \in {4, 6} : x.chain = NatChain(f) =>
            f \in n.nat /\ \E to \in NatTargets(n) : x.rule = NatRule(n, f, to)

Fits(n, x) == (x.do = "chain" => FitsChain(n, x)) /\ (x.do = "rule" => FitsRule(n, x))

\* The fields of the two kinds of commands.
LEMMA RuleIs ==
  ASSUME NEW c, NEW r, NEW x, x = AddRule(c, r)
  PROVE  x.do = "rule" /\ x.chain = c /\ x.rule = r /\ ~Hides(x)
BY DEF AddRule, AddRuleOf, Hides

LEMMA ChainIs ==
  ASSUME NEW c, NEW policy, NEW x, x = AddChain(c, policy)
  PROVE  x.do = "chain" /\ x.chain = c /\ x.policy = policy /\ ~Hides(x)
BY DEF AddChain, Hides

\* What follows the command does not change what it says.
LEMMA OrTrueIs ==
  ASSUME NEW c, NEW r
  PROVE  /\ OrTrue(AddRule(c, r)).do = "rule" /\ OrTrue(AddRule(c, r)).chain = c
         /\ OrTrue(AddRule(c, r)).rule = r
         /\ OrTrue(AddChain(c, r)).do = "chain" /\ OrTrue(AddChain(c, r)).chain = c
         /\ OrTrue(AddChain(c, r)).policy = r
BY DEF OrTrue, AddRule, AddRuleOf, AddChain

\* Commands that are none of nft fit anywhere.
LEMMA PlainFit ==
  ASSUME NEW n, NEW x, x \in {Other, EnableForwarding, Unparsable}
  PROVE  Fits(n, x) /\ \A c : ~RuleOf(c, x)
<1>1. x.do \notin {"chain", "rule"}
  BY DEF Other, EnableForwarding, Unparsable
<1> QED BY <1>1 DEF Fits, RuleOf

\* What firewall_wan.py, nat.py and linux_runtime.py add, chain by chain.
LEMMA InputFits ==
  ASSUME NEW n, Wans(n) # <<>>, NEW x, x.do = "rule", x.chain = "input"
  PROVE  Fits(n, x) /\ ~RuleOf("wan", x) /\ ~RuleOf("fw", x)
BY DEF Fits, FitsRule, Chains, NatChain, RuleOf

LEMMA WanFits ==
  ASSUME NEW n, Wans(n) # <<>>, NEW x,
         \/ x = EstablishedOf("wan")
         \/ \E wan \in ToSet(Wans(n)) : x = AddRule("wan", WanDrop(wan))
  PROVE  Fits(n, x) /\ RuleOf("wan", x)
<1>1. x.do = "rule" /\ x.chain = "wan"
      /\ (x.rule = Established \/ \E wan \in ToSet(Wans(n)) : x.rule = WanDrop(wan))
  BY RuleIs DEF EstablishedOf
<1> QED BY <1>1 DEF Fits, FitsRule, Chains, NatChain, RuleOf

LEMMA NatFits ==
  ASSUME NEW n, NEW f \in {4, 6}, f \in n.nat, NEW x,
         \/ x = AddChain(NatChain(f), "accept")
         \/ \E to \in NatTargets(n) : x = AddRule(NatChain(f), NatRule(n, f, to))
  PROVE  Fits(n, x) /\ ~RuleOf("wan", x) /\ ~RuleOf("fw", x)
<1>1. CASE x = AddChain(NatChain(f), "accept")
  <2>1. x.do = "chain" /\ x.chain = NatChain(f) /\ x.policy = "accept"
    BY <1>1, ChainIs
  <2> QED BY <2>1 DEF Fits, FitsChain, Chains, NatChain, RuleOf
<1>2. CASE \E to \in NatTargets(n) : x = AddRule(NatChain(f), NatRule(n, f, to))
  <2>1. x.do = "rule" /\ x.chain = NatChain(f) /\ \E to \in NatTargets(n) : x.rule = NatRule(n, f, to)
    BY <1>2, RuleIs
  <2>2. \A g \in {4, 6} : NatChain(g) = NatChain(f) => g = f
    BY DEF NatChain
  <2>3. NatChain(f) \in Chains \ {"wan", "fw", "input", "guard"}
    BY DEF NatChain, Chains
  <2> QED BY <2>1, <2>2, <2>3 DEF Fits, FitsRule, RuleOf
<1> QED BY <1>1, <1>2

\* EM/interface_names.py: translate_names goes name by name.
LEMMA RuntimesAre ==
  ASSUME NEW n, NEW s, IsSequence(s)
  PROVE  /\ IsSequence(Runtimes(n, s))
         /\ ToSet(Runtimes(n, s)) = {Runtime(NameMap(n), y) : y \in ToSet(s)}
         /\ Runtimes(n, s) = <<>> <=> s = <<>>
<1>1. PICK m, u : m = NameMap(n) /\ u = Runtimes(n, s)
  OBVIOUS
<1>2. u = [i \in 1 .. Len(s) |-> Runtime(m, s[i])]
  BY <1>1 DEF Runtimes
<1>3. /\ Len(s) \in Nat /\ DOMAIN s = 1 .. Len(s)
      /\ \A x : x \in ToSet(s) <=> \E i \in 1 .. Len(s) : s[i] = x
  BY ListIs
<1>4. u = [i \in DOMAIN s |-> u[i]]
  BY <1>2, <1>3
<1>5. IsSequence(u) /\ \A x : x \in ToSet(u) <=> \E i \in 1 .. Len(s) : x = u[i]
  BY <1>4, EachIs
<1>6. \A i \in 1 .. Len(s) : u[i] = Runtime(m, s[i])
  BY <1>2
<1>7. ToSet(u) = {Runtime(m, y) : y \in ToSet(s)}
  BY <1>3, <1>5, <1>6
<1>8. u = <<>> <=> s = <<>>
  <2>1. DOMAIN u = DOMAIN s
    BY <1>2, <1>3
  <2>2. u \in Seq(ToSet(u)) /\ s \in Seq(ToSet(s))
    BY <1>5 DEF IsSequence
  <2>3. u = <<>> <=> Len(u) = 0
    BY <2>2
  <2>4. s = <<>> <=> Len(s) = 0
    BY <2>2
  <2>5. Len(u) = Len(s)
    BY <2>1, <2>2
  <2> QED BY <2>3, <2>4, <2>5
<1> QED BY <1>1, <1>5, <1>7, <1>8

\* nat.py and firewall_wan.py: what is written for a family.
LEMMA TranslatedIs ==
  ASSUME NEW n, NEW f \in {4, 6}, NEW to, IsSequence(to)
  PROVE  /\ IsSequence(Translated(n, f, to))
         /\ \A x \in ToSet(Translated(n, f, to)) :
               /\ f \in n.nat
               /\ \/ x = AddChain(NatChain(f), "accept")
                  \/ \E w \in ToSet(to) : x = AddRule(NatChain(f), NatRule(n, f, w))
         /\ f \in n.nat => AddChain(NatChain(f), "accept") \in ToSet(Translated(n, f, to))
         /\ f \in n.nat /\ OfFamily(n.saddr, f) # {} =>
               \A w \in ToSet(to) :
                  AddRule(NatChain(f), NatRule(n, f, w)) \in ToSet(Translated(n, f, to))
<1>1. PICK m : m = Masquerade(n, f, to)
  OBVIOUS
<1>2. /\ Len(to) \in Nat /\ DOMAIN to = 1 .. Len(to)
      /\ \A x : x \in ToSet(to) <=> \E i \in 1 .. Len(to) : to[i] = x
  BY ListIs
<1>3. IsSequence(m)
      /\ (\A x \in ToSet(m) : \E w \in ToSet(to) : x = AddRule(NatChain(f), NatRule(n, f, w)))
      /\ (OfFamily(n.saddr, f) # {} =>
            \A w \in ToSet(to) : AddRule(NatChain(f), NatRule(n, f, w)) \in ToSet(m))
  <2>1. CASE OfFamily(n.saddr, f) = {}
    BY <1>1, <2>1, Spelled DEF Masquerade
  <2>2. CASE OfFamily(n.saddr, f) # {}
    <3>1. m = [i \in 1 .. Len(to) |-> AddRule(NatChain(f), NatRule(n, f, to[i]))]
      BY <1>1, <2>2 DEF Masquerade, NatRule
    <3>2. m = [i \in DOMAIN to |-> m[i]]
      BY <1>2, <3>1
    <3>3. IsSequence(m) /\ \A x : x \in ToSet(m) <=> \E i \in 1 .. Len(to) : x = m[i]
      BY <3>2, EachIs
    <3>4. \A i \in 1 .. Len(to) : m[i] = AddRule(NatChain(f), NatRule(n, f, to[i]))
      BY <3>1
    <3> QED BY <1>2, <3>3, <3>4
  <2> QED BY <2>1, <2>2
<1>4. CASE f \notin n.nat
  BY <1>4, Spelled DEF Translated
<1>5. CASE f \in n.nat
  <2>1. PICK c : c = AddChain(NatChain(f), "accept")
    OBVIOUS
  <2>2. Translated(n, f, to) = <<c>> \o m
    BY <1>1, <1>5, <2>1 DEF Translated
  <2>3. IsSequence(<<c>>) /\ ToSet(<<c>>) = {c}
    BY Spelled
  <2>4. IsSequence(<<c>> \o m) /\ ToSet(<<c>> \o m) = {c} \cup ToSet(m)
    BY <1>3, <2>3, JoinIs
  <2> QED BY <1>3, <1>5, <2>1, <2>2, <2>4
<1> QED BY <1>4, <1>5

----------------------------------------------------------------------------
\* The commands, renderer by renderer.

AllFit(n, s) == \A x \in ToSet(s) : Fits(n, x)

IsInput(x) == x.do = "rule" /\ x.chain = "input"

\* firewall_wan.py, piece by piece.
LEMMA WansAre ==
  ASSUME NEW n \in Nodes
  PROVE  IsSequence(Wans(n))
<1>1. IsSequence(WanNames(n))
  BY NodesAssumption DEF WanNames
<1> QED BY <1>1, RuntimesAre DEF Wans

LEMMA WanInputIs ==
  ASSUME NEW wan
  PROVE  IsSequence(WanInput(wan)) /\ \A x \in ToSet(WanInput(wan)) : IsInput(x)
<1>1. PICK a, b :
        /\ a = AddRule("input", [Always("drop") EXCEPT !.iif = {wan}, !.src = Private])
        /\ b = AddRule("input", [Always("accept") EXCEPT !.iif = Interfaces \ {wan},
                                                         !.svc = {<<"tcp", 22>>}])
  OBVIOUS
<1>2. WanInput(wan) = <<a, b>>
  BY <1>1 DEF WanInput
<1>3. IsInput(a) /\ IsInput(b)
  BY <1>1, RuleIs DEF IsInput
<1>4. IsSequence(<<a, b>>) /\ ToSet(<<a, b>>) = {a, b}
  BY Spelled
<1> QED BY <1>2, <1>3, <1>4

LEMMA WanForwardIs ==
  ASSUME NEW wan
  PROVE  IsSequence(WanForward(wan)) /\ ToSet(WanForward(wan)) = {AddRule("wan", WanDrop(wan))}
<1>1. PICK a : a = AddRule("wan", WanDrop(wan))
  OBVIOUS
<1>2. WanForward(wan) = <<a>>
  BY <1>1 DEF WanForward, WanDrop
<1> QED BY <1>1, <1>2, Spelled

\* firewall_wan.py, where a WAN is the first.
LEMMA FirstWanIs ==
  ASSUME NEW n, NEW wan \in ToSet(Wans(n)), Wans(n) # <<>>, NEW D
  PROVE  /\ IsSequence(FirstWan(wan)) /\ AllFit(n, FirstWan(wan)) /\ Good(FirstWan(wan), D)
         /\ EstablishedOf("wan") \in ToSet(FirstWan(wan))
<1>1. PICK a, b, c, d, e, s, t, u, v :
        /\ a = AddChain("input", "drop") /\ b = AddChain("wan", "accept")
        /\ c = AddRule("input", [Always("accept") EXCEPT !.iif = {"lo"}])
        /\ d = AddRule("input", Established)
        /\ e = AddRule("input", [Always("accept") EXCEPT !.svc = {<<"icmpv6", 0>>}])
        /\ s = <<a, b, c, d, e>>
        /\ t = WanInput(wan) /\ u = <<EstablishedOf("wan")>> /\ v = WanForward(wan)
  OBVIOUS
<1>2. FirstWan(wan) = ((s \o t) \o u) \o v
  <2>1. FirstWan(wan) = <<a, b, c, d, e>> \o t \o <<AddRule("wan", Established)>> \o v
    BY <1>1 DEF FirstWan
  <2> QED BY <2>1, <1>1 DEF EstablishedOf
<1>3. IsSequence(s) /\ ToSet(s) = {a, b, c, d, e}
  <2>1. /\ IsSequence(<<a, b, c, d, e>>) /\ ToSet(<<a, b, c, d, e>>) = {a, b, c, d, e}
    BY SpelledFive
  <2>2. s = <<a, b, c, d, e>>
    BY <1>1
  <2> QED BY <2>1, <2>2
<1>4. \A x \in ToSet(s) : Fits(n, x) /\ ~RuleOf("wan", x) /\ ~RuleOf("fw", x)
  <2>1. /\ a.do = "chain" /\ a.chain = "input" /\ b.do = "chain" /\ b.chain = "wan"
        /\ b.policy = "accept"
    BY <1>1, ChainIs
  <2>2. Fits(n, a) /\ ~RuleOf("wan", a) /\ ~RuleOf("fw", a)
    BY <2>1 DEF Fits, FitsChain, Chains, RuleOf
  <2>3. Fits(n, b) /\ ~RuleOf("wan", b) /\ ~RuleOf("fw", b)
    BY <2>1 DEF Fits, FitsChain, Chains, RuleOf
  <2>4. IsInput(c) /\ IsInput(d) /\ IsInput(e)
    BY <1>1, RuleIs DEF IsInput
  <2>5. \A x \in {c, d, e} : Fits(n, x) /\ ~RuleOf("wan", x) /\ ~RuleOf("fw", x)
    BY <2>4, InputFits DEF IsInput
  <2> QED BY <1>3, <2>2, <2>3, <2>5
<1>5. /\ IsSequence(t)
      /\ \A x \in ToSet(t) : Fits(n, x) /\ ~RuleOf("wan", x) /\ ~RuleOf("fw", x)
  BY <1>1, WanInputIs, InputFits DEF IsInput
<1>6. IsSequence(s \o t) /\ ToSet(s \o t) = ToSet(s) \cup ToSet(t) /\ Good(s \o t, D)
  <2>1. IsSequence(s \o t) /\ ToSet(s \o t) = ToSet(s) \cup ToSet(t)
    BY <1>3, <1>5, JoinIs
  <2> QED BY <2>1, <1>3, <1>4, <1>5, GoodWithout, GoodJoin
<1>7. /\ IsSequence(u) /\ ToSet(u) = {EstablishedOf("wan")}
      /\ Fits(n, EstablishedOf("wan")) /\ RuleOf("wan", EstablishedOf("wan"))
  BY <1>1, Spelled, WanFits
<1>8. Good(u, D)
  <2>1. \A i \in 1 .. Len(u) : u[i] = EstablishedOf("wan")
    BY <1>7, ListIs
  <2>2. ~RuleOf("fw", EstablishedOf("wan"))
    BY <1>7 DEF RuleOf
  <2> QED BY <2>1, <2>2, <1>7 DEF Good, RuleOf
<1>9. /\ IsSequence((s \o t) \o u) /\ Good((s \o t) \o u, D)
      /\ ToSet((s \o t) \o u) = ToSet(s) \cup ToSet(t) \cup {EstablishedOf("wan")}
  BY <1>6, <1>7, <1>8, JoinIs, GoodJoin
<1>10. /\ IsSequence(v) /\ ToSet(v) = {AddRule("wan", WanDrop(wan))}
       /\ \A x \in ToSet(v) : Fits(n, x) /\ RuleOf("wan", x)
  BY <1>1, WanForwardIs, WanFits
<1>11. PICK w : w = (s \o t) \o u
  OBVIOUS
<1>12. IsSequence(w \o v) /\ ToSet(w \o v) = ToSet(w) \cup ToSet(v)
  BY <1>9, <1>10, <1>11, JoinIs
<1>13. Good(w \o v, D)
  <2>1. \A x \in ToSet(v) : ~RuleOf("fw", x)
    BY <1>10 DEF RuleOf
  <2> QED BY <2>1, <1>9, <1>10, <1>11, GoodAfter
<1>14. FirstWan(wan) = w \o v
  BY <1>2, <1>11
<1>15. AllFit(n, w \o v)
  BY <1>4, <1>5, <1>7, <1>9, <1>10, <1>11, <1>12 DEF AllFit
<1> QED BY <1>9, <1>11, <1>12, <1>13, <1>14, <1>15

LEMMA NextWanIs ==
  ASSUME NEW n, NEW wan \in ToSet(Wans(n)), Wans(n) # <<>>
  PROVE  /\ IsSequence(WanInput(wan) \o WanForward(wan))
         /\ \A x \in ToSet(WanInput(wan) \o WanForward(wan)) : Fits(n, x) /\ ~RuleOf("fw", x)
<1>1. PICK s, t : s = WanInput(wan) /\ t = WanForward(wan)
  OBVIOUS
<1>2. IsSequence(s) /\ \A x \in ToSet(s) : Fits(n, x) /\ ~RuleOf("fw", x)
  BY <1>1, WanInputIs, InputFits DEF IsInput
<1>3. IsSequence(t) /\ \A x \in ToSet(t) : Fits(n, x) /\ RuleOf("wan", x)
  BY <1>1, WanForwardIs, WanFits
<1>4. IsSequence(s \o t) /\ ToSet(s \o t) = ToSet(s) \cup ToSet(t)
  BY <1>2, <1>3, JoinIs
<1> QED BY <1>1, <1>2, <1>3, <1>4 DEF RuleOf

\* firewall_wan.py: the commands of all WANs.
LEMMA WanFilterIs ==
  ASSUME NEW n \in Nodes, NEW D
  PROVE  IsSequence(WanFilter(n)) /\ AllFit(n, WanFilter(n)) /\ Good(WanFilter(n), D)
<1>1. PICK W, ss, c :
        /\ W = Wans(n)
        /\ ss = [i \in 1 .. Len(W) |-> IF i = 1 THEN FirstWan(W[i])
                                       ELSE WanInput(W[i]) \o WanForward(W[i])]
        /\ c = Concat(ss)
  OBVIOUS
<1>2. WanFilter(n) = c
  BY <1>1 DEF WanFilter
<1>3. /\ IsSequence(W) /\ Len(W) \in Nat /\ DOMAIN W = 1 .. Len(W)
      /\ \A x : x \in ToSet(W) <=> \E i \in 1 .. Len(W) : W[i] = x
  BY <1>1, WansAre, ListIs
<1>4. IsSequence(ss) /\ Len(ss) = Len(W)
  <2>1. ss = [i \in DOMAIN W |-> ss[i]] /\ DOMAIN ss = 1 .. Len(W)
    BY <1>1, <1>3
  <2> QED BY <2>1, <1>3, EachIs, ListIs
<1>5. ASSUME NEW i \in 1 .. Len(W) PROVE W[i] \in ToSet(Wans(n)) /\ Wans(n) # <<>>
  BY <1>1, <1>3
<1>6. 1 \in 1 .. Len(W) =>
        /\ IsSequence(ss[1]) /\ AllFit(n, ss[1]) /\ Good(ss[1], D)
        /\ EstablishedOf("wan") \in ToSet(ss[1])
  <2>1. 1 \in 1 .. Len(W) => ss[1] = FirstWan(W[1])
    BY <1>1
  <2> QED BY <2>1, <1>5, FirstWanIs
<1>7. ASSUME NEW i \in 1 .. Len(W), i # 1
      PROVE  IsSequence(ss[i]) /\ \A x \in ToSet(ss[i]) : Fits(n, x) /\ ~RuleOf("fw", x)
  <2>1. ss[i] = WanInput(W[i]) \o WanForward(W[i])
    BY <1>1, <1>7
  <2> QED BY <2>1, <1>5, NextWanIs
<1>8. /\ IsSequence(c)
      /\ \A x : x \in ToSet(c) <=> \E k \in 1 .. Len(ss) : x \in ToSet(ss[k])
      /\ \A i \in 1 .. Len(c) :
                \E k \in 1 .. Len(ss) :
                    /\ c[i] \in ToSet(ss[k]) /\ Shows(c, i, ss[k])
                    /\ \A l \in 1 .. k - 1 : ToSet(ss[l]) \subseteq Before(c, i)
  <2>1. \A i \in 1 .. Len(ss) : IsSequence(ss[i])
    BY <1>4, <1>6, <1>7
  <2>2. c = Concat(ss)
    BY <1>1
  <2> QED BY <2>1, <2>2, <1>4, ConcatIs
<1>9. AllFit(n, c)
  BY <1>4, <1>6, <1>7, <1>8 DEF AllFit
<1>10. ASSUME NEW i \in 1 .. Len(c)
       PROVE  /\ RuleOf("wan", c[i]) => EstablishedOf("wan") \in Before(c, i) \cup {c[i]}
              /\ ~RuleOf("fw", c[i]) \/ EstablishedOf("fw") \in Before(c, i) \cup {c[i]}
              /\ ~RuleOf("fw", c[i])
                 \/ c[i] \in {EstablishedOf("fw"), FromManagement, ToManagement} \/ Shows(c, i, D)
  <2>1. PICK k \in 1 .. Len(W) :
                    /\ c[i] \in ToSet(ss[k]) /\ Shows(c, i, ss[k])
                    /\ \A l \in 1 .. k - 1 : ToSet(ss[l]) \subseteq Before(c, i)
    BY <1>4, <1>8
  <2>2. CASE k = 1
    <3>1. PICK j \in 1 .. Len(ss[1]) : c[i] = ss[1][j] /\ Before(ss[1], j) \subseteq Before(c, i)
      BY <2>1, <2>2 DEF Shows
    <3>2. Shows(ss[1], j, D) => Shows(c, i, D)
      BY <3>1 DEF Shows
    <3>3. Good(ss[1], D)
      BY <1>6, <2>2
    <3> QED BY <3>1, <3>2, <3>3 DEF Good
  <2>3. CASE k # 1
    <3>1. 1 \in 1 .. k - 1 /\ 1 \in 1 .. Len(W)
      BY <1>3, <2>3
    <3>2. EstablishedOf("wan") \in Before(c, i) /\ ~RuleOf("fw", c[i])
      BY <3>1, <2>1, <2>3, <1>6, <1>7
    <3> QED BY <3>2
  <2> QED BY <2>2, <2>3
<1>11. Good(c, D)
  BY <1>10 DEF Good
<1> QED BY <1>2, <1>8, <1>9, <1>11

\* Every interface that is translated is one of the two lists.
LEMMA NatTargetsAre ==
  ASSUME NEW n \in Nodes
  PROVE  /\ IsSequence(Runtimes(n, n.masquerade))
         /\ ToSet(Runtimes(n, n.masquerade)) \subseteq NatTargets(n)
         /\ IsSequence(NatInterfaces(n)) /\ ToSet(NatInterfaces(n)) = NatTargets(n)
<1>1. PICK a, b, s, t, u :
        /\ a = n.masquerade /\ b = n.egress /\ s = Runtimes(n, a) /\ u = Runtimes(n, b)
        /\ t = Unrepeated(u)
  OBVIOUS
<1>2. IsSequence(a) /\ IsSequence(b)
  BY <1>1, NodesAssumption
<1>3. /\ IsSequence(s) /\ ToSet(s) = {Runtime(NameMap(n), y) : y \in ToSet(a)}
      /\ IsSequence(t) /\ ToSet(t) = {Runtime(NameMap(n), y) : y \in ToSet(b)}
  <2>1. /\ IsSequence(s) /\ ToSet(s) = {Runtime(NameMap(n), y) : y \in ToSet(a)}
        /\ IsSequence(u) /\ ToSet(u) = {Runtime(NameMap(n), y) : y \in ToSet(b)}
    BY <1>1, <1>2, RuntimesAre
  <2> QED BY <2>1, <1>1, UnrepeatedIs
<1>4. IsSequence(a \o b) /\ ToSet(a \o b) = ToSet(a) \cup ToSet(b)
  BY <1>2, JoinIs
<1>5. ToSet(Runtimes(n, a \o b)) = {Runtime(NameMap(n), y) : y \in ToSet(a \o b)}
  BY <1>4, RuntimesAre
<1>6. NatTargets(n) = ToSet(s) \cup ToSet(t)
  BY <1>1, <1>3, <1>4, <1>5 DEF NatTargets
<1>7. PICK k : k = Keep(t, ToSet(t) \ ToSet(s))
  OBVIOUS
<1>8. IsSequence(k) /\ ToSet(k) = ToSet(t) \cap (ToSet(t) \ ToSet(s))
  BY <1>3, <1>7, KeepIs
<1>9. IsSequence(s \o k) /\ ToSet(s \o k) = ToSet(s) \cup ToSet(k)
  BY <1>3, <1>8, JoinIs
<1>10. NatInterfaces(n) = s \o k
  BY <1>1, <1>7 DEF NatInterfaces
<1> QED BY <1>1, <1>3, <1>6, <1>8, <1>9, <1>10

\* What fits, and touches neither the chain of the WAN nor that of the policy.
Aside(n, x) == Fits(n, x) /\ ~RuleOf("wan", x) /\ ~RuleOf("fw", x)

\* nat.py: the commands for one family.
LEMMA TranslatedAside ==
  ASSUME NEW n, NEW f \in {4, 6}, NEW to, IsSequence(to), ToSet(to) \subseteq NatTargets(n)
  PROVE  IsSequence(Translated(n, f, to)) /\ \A x \in ToSet(Translated(n, f, to)) : Aside(n, x)
<1>1. IsSequence(Translated(n, f, to))
  BY TranslatedIs
<1>2. ASSUME NEW x \in ToSet(Translated(n, f, to)) PROVE Aside(n, x)
  <2>1. /\ f \in n.nat
        /\ \/ x = AddChain(NatChain(f), "accept")
           \/ \E w \in NatTargets(n) : x = AddRule(NatChain(f), NatRule(n, f, w))
    BY TranslatedIs
  <2> QED BY <2>1, NatFits DEF Aside
<1> QED BY <1>1, <1>2

\* firewall_wan.py: the translation.
LEMMA WanNatIs ==
  ASSUME NEW n \in Nodes
  PROVE  IsSequence(WanNat(n)) /\ \A x \in ToSet(WanNat(n)) : Aside(n, x)
<1> DEFINE to == Runtimes(n, n.masquerade)
           With(f) == IF to = <<>> \/ OfFamily(n.saddr, f) = {} THEN <<>>
                      ELSE Translated(n, f, to)
<1>1. IsSequence(to) /\ ToSet(to) \subseteq NatTargets(n)
  BY NatTargetsAre
<1> HIDE DEF to
<1>2. ASSUME NEW f \in {4, 6}
      PROVE  IsSequence(With(f)) /\ \A x \in ToSet(With(f)) : Aside(n, x)
  <2>1. With(f) = <<>> \/ With(f) = Translated(n, f, to)
    OBVIOUS
  <2> HIDE DEF With
  <2>2. CASE With(f) = <<>>
    <3>1. IsSequence(<<>>) /\ ToSet(<<>>) = {}
      BY Spelled
    <3> QED BY <2>2, <3>1
  <2>3. CASE With(f) = Translated(n, f, to)
    BY <1>1, <2>3, TranslatedAside
  <2> QED BY <2>1, <2>2, <2>3
<1>3. WanNat(n) = With(4) \o With(6)
  BY DEF WanNat, to
<1> HIDE DEF With
<1>4. PICK s, t : s = With(4) /\ t = With(6)
  OBVIOUS
<1>5. /\ IsSequence(s) /\ IsSequence(t)
      /\ \A x \in ToSet(s) \cup ToSet(t) : Aside(n, x)
  BY <1>2, <1>4
<1>6. IsSequence(s \o t) /\ ToSet(s \o t) = ToSet(s) \cup ToSet(t)
  BY <1>5, JoinIs
<1> QED BY <1>3, <1>4, <1>5, <1>6

\* nat.py: a rule for every interface that is listed.
LEMMA NatTablesAre ==
  ASSUME NEW n \in Nodes
  PROVE  /\ IsSequence(NatTables(n)) /\ \A x \in ToSet(NatTables(n)) : Aside(n, x)
         /\ \A f \in {4, 6} : f \in n.nat =>
               /\ AddChain(NatChain(f), "accept") \in ToSet(NatTables(n))
               /\ OfFamily(n.saddr, f) # {} => \A w \in NatTargets(n) :
                     AddRule(NatChain(f), NatRule(n, f, w)) \in ToSet(NatTables(n))
<1>1. PICK to, s, t, e :
        /\ to = NatInterfaces(n) /\ s = Translated(n, 4, to) /\ t = Translated(n, 6, to)
        /\ e = <<EnableForwarding>>
  OBVIOUS
<1>2. IsSequence(to) /\ ToSet(to) = NatTargets(n)
  BY <1>1, NatTargetsAre
<1>3. CASE n.nat = {}
  <2>1. NatTables(n) = <<>>
    BY <1>3 DEF NatTables
  <2>2. IsSequence(<<>>) /\ ToSet(<<>>) = {}
    BY Spelled
  <2> QED BY <1>3, <2>1, <2>2
<1>4. CASE n.nat # {}
  <2>1. NatTables(n) = (e \o s) \o t
    BY <1>1, <1>4 DEF NatTables
  <2>2. /\ IsSequence(s) /\ IsSequence(t)
        /\ \A x \in ToSet(s) \cup ToSet(t) : Aside(n, x)
    BY <1>1, <1>2, TranslatedAside
  <2>3. /\ IsSequence(e) /\ ToSet(e) = {EnableForwarding} /\ Aside(n, EnableForwarding)
    BY <1>1, Spelled, PlainFit DEF Aside
  <2>4. IsSequence(e \o s) /\ ToSet(e \o s) = ToSet(e) \cup ToSet(s)
    BY <2>2, <2>3, JoinIs
  <2>5. IsSequence((e \o s) \o t) /\ ToSet((e \o s) \o t) = ToSet(e) \cup ToSet(s) \cup ToSet(t)
    BY <2>2, <2>4, JoinIs
  <2>6. ASSUME NEW f \in {4, 6}, f \in n.nat
        PROVE  /\ AddChain(NatChain(f), "accept") \in ToSet(s) \cup ToSet(t)
               /\ OfFamily(n.saddr, f) # {} => \A w \in NatTargets(n) :
                     AddRule(NatChain(f), NatRule(n, f, w)) \in ToSet(s) \cup ToSet(t)
    <3>1. /\ AddChain(NatChain(f), "accept") \in ToSet(Translated(n, f, to))
          /\ OfFamily(n.saddr, f) # {} => \A w \in NatTargets(n) :
                AddRule(NatChain(f), NatRule(n, f, w)) \in ToSet(Translated(n, f, to))
      BY <1>2, <2>6, TranslatedIs
    <3>2. Translated(n, f, to) \in {s, t}
      BY <1>1
    <3> QED BY <3>1, <3>2
  <2> QED BY <2>1, <2>2, <2>3, <2>5, <2>6
<1> QED BY <1>3, <1>4

\* Whatever comes before the policy.
LEMMA BeforePolicyIs ==
  ASSUME NEW n \in Nodes, NEW D
  PROVE  /\ IsSequence(BeforePolicy(n)) /\ AllFit(n, BeforePolicy(n))
         /\ Good(BeforePolicy(n), D)
         /\ ToSet(Forwarding(n)) \subseteq ToSet(BeforePolicy(n))
         /\ ToSet(NatTables(n)) \subseteq ToSet(BeforePolicy(n))
<1>1. PICK a, b, c, d, e :
        /\ a = <<Other>> /\ b = Forwarding(n) /\ c = WanFilter(n) /\ d = WanNat(n)
        /\ e = NatTables(n)
  OBVIOUS
<1>2. BeforePolicy(n) = ((((a \o b) \o c) \o d) \o e)
  BY <1>1 DEF BeforePolicy
<1>0. /\ IsSequence(<<>>) /\ ToSet(<<>>) = {}
      /\ IsSequence(<<Other>>) /\ ToSet(<<Other>>) = {Other}
      /\ IsSequence(<<EnableForwarding>>) /\ ToSet(<<EnableForwarding>>) = {EnableForwarding}
      /\ Aside(n, Other) /\ Aside(n, EnableForwarding)
  BY Spelled, PlainFit DEF Aside
<1>3. IsSequence(a) /\ \A x \in ToSet(a) : Aside(n, x)
  BY <1>0, <1>1
<1>4. IsSequence(b) /\ \A x \in ToSet(b) : Aside(n, x)
  <2>1. b = <<>> \/ b = <<EnableForwarding>>
    BY <1>1 DEF Forwarding
  <2> QED BY <2>1, <1>0
<1>5. IsSequence(c) /\ AllFit(n, c) /\ Good(c, D)
  BY <1>1, WanFilterIs
<1>6. IsSequence(d) /\ \A x \in ToSet(d) : Aside(n, x)
  BY <1>1, WanNatIs
<1>7. IsSequence(e) /\ \A x \in ToSet(e) : Aside(n, x)
  BY <1>1, NatTablesAre
<1>8. Good(a, D) /\ Good(b, D) /\ Good(d, D) /\ Good(e, D)
  BY <1>3, <1>4, <1>6, <1>7, GoodWithout DEF Aside
<1>9. PICK u, v, w : u = a \o b /\ v = u \o c /\ w = v \o d
  OBVIOUS
<1>10. IsSequence(u) /\ ToSet(u) = ToSet(a) \cup ToSet(b) /\ Good(u, D)
  BY <1>3, <1>4, <1>8, <1>9, JoinIs, GoodJoin
<1>11. IsSequence(v) /\ ToSet(v) = ToSet(u) \cup ToSet(c) /\ Good(v, D)
  BY <1>5, <1>9, <1>10, JoinIs, GoodJoin
<1>12. IsSequence(w) /\ ToSet(w) = ToSet(v) \cup ToSet(d) /\ Good(w, D)
  BY <1>6, <1>8, <1>9, <1>11, JoinIs, GoodJoin
<1>13. IsSequence(w \o e) /\ ToSet(w \o e) = ToSet(w) \cup ToSet(e) /\ Good(w \o e, D)
  BY <1>7, <1>8, <1>12, JoinIs, GoodJoin
<1>14. BeforePolicy(n) = w \o e
  BY <1>2, <1>9
<1>15. AllFit(n, w \o e)
  BY <1>3, <1>4, <1>5, <1>6, <1>7, <1>10, <1>11, <1>12, <1>13 DEF AllFit, Aside
<1> QED BY <1>1, <1>10, <1>11, <1>12, <1>13, <1>14, <1>15

\* policy_firewall.py
LEMMA PolicyFirewallIs ==
  ASSUME NEW n \in Nodes, ForwardingRules(n) # <<>>, NEW D, D = PolicyRules(n)
  PROVE  /\ IsSequence(PolicyFirewall(n)) /\ AllFit(n, PolicyFirewall(n))
         /\ Good(PolicyFirewall(n), D)
         /\ EstablishedOf("fw") \in ToSet(PolicyFirewall(n))
         /\ ToSet(D) \subseteq ToSet(PolicyFirewall(n)) /\ \A x \in ToSet(D) : ~Hides(x)
<1>1. PICK a, b, c, d, h :
        /\ a = PolicyChain("drop") /\ b = EstablishedOf("fw")
        /\ c = FromManagement /\ d = ToManagement /\ h = <<a, b, c, d>>
  OBVIOUS
<1>2. PICK u : u = h \o D /\ Joined(h, D, u)
  BY DEF Joined
<1>3. PolicyFirewall(n) = u
  BY <1>1, <1>2 DEF PolicyFirewall, EstablishedOf
<1>4. IsSequence(h) /\ ToSet(h) = {a, b, c, d} /\ h[1] = a /\ Len(h) = 4
      /\ h[2] = b /\ h[3] = c /\ h[4] = d
  <2>1. IsSequence(<<a, b, c, d>>) /\ ToSet(<<a, b, c, d>>) = {a, b, c, d}
    BY SpelledFour
  <2>2. h = <<a, b, c, d>>
    BY <1>1
  <2> QED BY <2>1, <2>2
<1>5. IsSequence(D)
  BY PolicyRulesAre
<1>6. IsSequence(u) /\ ToSet(u) = ToSet(h) \cup ToSet(D)
  BY <1>2, <1>4, <1>5, JoinIs
<1>7. /\ a.do = "chain" /\ a.chain = "fw" /\ a.policy = "drop"
      /\ \A x \in {b, c, d} : RuleOf("fw", x)
  BY <1>1, OrTrueIs
     DEF PolicyChain, AnswersPass, EstablishedOf, FromManagement, ToManagement, RuleOf
<1>8. \A x \in ToSet(D) : (x = Unparsable \/ RuleOf("fw", x)) /\ ~Hides(x)
  <2>1. PICK fr : fr = ForwardingRules(n)
    OBVIOUS
  <2>2. /\ \A x : x \in ToSet(D) <=> \E k \in 1 .. Len(fr) : x \in ToSet(RulesForCpmRule(fr[k]))
        /\ \A i \in 1 .. Len(fr) : IsRule(fr[i])
    BY <2>1, PolicyRulesAre, ForwardingRulesAre
  <2>3. ~Hides(Unparsable)
    BY DEF Hides, Unparsable
  <2>4. \A x \in ToSet(D) : x = Unparsable \/ (RuleOf("fw", x) /\ ~x.orTrue)
    BY <2>2, PolicyStatement DEF RuleOf
  <2> QED BY <2>3, <2>4 DEF Hides
<1>9. \A x : RuleOf("fw", x) => Fits(n, x)
  BY DEF RuleOf, Fits, FitsRule, Chains, NatChain
<1>10. AllFit(n, u)
  <2>1. Fits(n, a)
    BY <1>7 DEF Fits, FitsChain, Chains
  <2> QED BY <2>1, <1>4, <1>6, <1>7, <1>8, <1>9, PlainFit DEF AllFit
<1>11. /\ \A i \in 1 .. Len(h) : u[i] = h[i] /\ Before(u, i) = Before(h, i)
       /\ \A i \in 1 .. Len(D) :
              /\ u[Len(h) + i] = D[i]
              /\ Before(D, i) \subseteq Before(u, Len(h) + i)
              /\ ToSet(h) \subseteq Before(u, Len(h) + i)
       /\ \A i \in 1 .. Len(u) : i \in 1 .. Len(h) \/ \E j \in 1 .. Len(D) : i = Len(h) + j
  <2>1. IsSequence(h) /\ IsSequence(D) /\ Joined(h, D, u)
    BY <1>2, <1>4, <1>5
  <2> QED BY ONLY <2>1, JoinOrder
<1>12. ASSUME NEW i \in 1 .. Len(u)
       PROVE  /\ ~RuleOf("wan", u[i])
              /\ RuleOf("fw", u[i]) => b \in Before(u, i) \cup {u[i]}
              /\ RuleOf("fw", u[i]) => u[i] \in {b, c, d} \/ Shows(u, i, D)
  <2>1. CASE i \in 1 .. Len(h)
    <3>1. i \in {1, 2, 3, 4} /\ u[i] = h[i] /\ Before(u, i) = Before(h, i)
      BY <1>4, <1>11, <2>1
    <3>2. ~RuleOf("wan", u[i])
      BY <3>1, <1>4, <1>7 DEF RuleOf
    <3>3. i = 1 => ~RuleOf("fw", u[i])
      BY <3>1, <1>4, <1>7 DEF RuleOf
    <3>4. i \in {2, 3, 4} => u[i] \in {b, c, d}
      BY <3>1, <1>4
    <3>5. i \in {2, 3, 4} => b \in Before(u, i) \cup {u[i]}
      <4>1. i \in {3, 4} => 2 \in 1 .. i - 1
        OBVIOUS
      <4>2. i \in {3, 4} => h[2] \in Before(h, i)
        BY <4>1 DEF Before
      <4> QED BY <3>1, <4>2, <1>4
    <3> QED BY <3>1, <3>2, <3>3, <3>4, <3>5
  <2>2. ASSUME NEW j \in 1 .. Len(D), i = Len(h) + j
        PROVE  ~RuleOf("wan", u[i]) /\ b \in Before(u, i) /\ Shows(u, i, D)
    <3>1. /\ u[i] = D[j] /\ Before(D, j) \subseteq Before(u, i)
          /\ ToSet(h) \subseteq Before(u, i)
      BY <1>11, <2>2
    <3>2. D[j] \in ToSet(D)
      BY <1>5, ListIs
    <3>3. ~RuleOf("wan", D[j])
      BY <3>2, <1>8, PlainFit DEF RuleOf
    <3> QED BY <3>1, <3>3, <1>4 DEF Shows
  <2> QED BY <1>11, <2>1, <2>2
<1>13. Good(u, D)
  <2>1. EstablishedOf("fw") = b /\ FromManagement = c /\ ToManagement = d
    BY <1>1
  <2> QED BY <2>1, <1>12 DEF Good
<1> QED BY <1>1, <1>3, <1>4, <1>6, <1>8, <1>10, <1>13

\* management_egress_guard.py
LEMMA GuardIs ==
  ASSUME NEW n
  PROVE  IsSequence(Guard) /\ \A x \in ToSet(Guard) : Aside(n, x)
<1>1. PICK a, b :
        /\ a = AddChain("guard", "accept")
        /\ b = AddRule("guard", [Always("drop") EXCEPT !.oif = {Management}])
  OBVIOUS
<1>2. Guard = <<a, b>>
  BY <1>1 DEF Guard
<1>3. IsSequence(<<a, b>>) /\ ToSet(<<a, b>>) = {a, b}
  BY Spelled
<1>4. /\ a.do = "chain" /\ a.chain = "guard" /\ a.policy = "accept"
      /\ b.do = "rule" /\ b.chain = "guard" /\ b.rule = [Always("drop") EXCEPT !.oif = {Management}]
  BY <1>1, ChainIs, RuleIs
<1>5. Aside(n, a)
  BY <1>4 DEF Aside, Fits, FitsChain, RuleOf, Chains
<1>6. Aside(n, b)
  BY <1>4 DEF Aside, Fits, FitsRule, RuleOf, Chains, NatChain
<1> QED BY <1>2, <1>3, <1>5, <1>6

\* The commands of a node.
LEMMA CommandsAre ==
  ASSUME NEW n \in Nodes, NEW D, D = PolicyRules(n), NEW C, C = Commands(n)
  PROVE  /\ IsSequence(C) /\ AllFit(n, C) /\ Good(C, D)
         /\ ForwardingRules(n) # <<>> =>
               /\ EstablishedOf("fw") \in ToSet(C)
               /\ ToSet(D) \subseteq ToSet(C) /\ \A x \in ToSet(D) : ~Hides(x)
         /\ ToSet(Forwarding(n)) \subseteq ToSet(C)
         /\ ToSet(NatTables(n)) \subseteq ToSet(C)
<1>1. PICK a, b, c, d :
        /\ a = BeforePolicy(n) /\ b = PolicyCommands(n) /\ c = Guard /\ d = <<Other>>
  OBVIOUS
<1>2. C = ((a \o b) \o c) \o d
  BY <1>1 DEF Commands
<1>3. /\ IsSequence(a) /\ AllFit(n, a) /\ Good(a, D)
      /\ ToSet(Forwarding(n)) \subseteq ToSet(a) /\ ToSet(NatTables(n)) \subseteq ToSet(a)
  BY <1>1, BeforePolicyIs
<1>4. /\ IsSequence(b) /\ AllFit(n, b) /\ Good(b, D)
      /\ ForwardingRules(n) # <<>> =>
            /\ EstablishedOf("fw") \in ToSet(b)
            /\ ToSet(D) \subseteq ToSet(b) /\ \A x \in ToSet(D) : ~Hides(x)
  <2>1. CASE ForwardingRules(n) = <<>>
    <3>1. b = <<>>
      BY <1>1, <2>1 DEF PolicyCommands
    <3>2. IsSequence(b) /\ ToSet(b) = {}
      BY <3>1, Spelled
    <3>3. Good(b, D) /\ AllFit(n, b)
      BY <3>2, GoodWithout DEF AllFit
    <3> QED BY <2>1, <3>2, <3>3
  <2>2. CASE ForwardingRules(n) # <<>>
    <3>1. b = PolicyFirewall(n)
      BY <1>1, <2>2 DEF PolicyCommands
    <3> QED BY <2>2, <3>1, PolicyFirewallIs
  <2> QED BY <2>1, <2>2
<1>5. IsSequence(c) /\ AllFit(n, c) /\ Good(c, D)
  BY <1>1, GuardIs, GoodWithout DEF Aside, AllFit
<1>6. IsSequence(d) /\ ToSet(d) = {Other} /\ AllFit(n, d) /\ Good(d, D)
  <2>1. IsSequence(<<Other>>) /\ ToSet(<<Other>>) = {Other}
    BY Spelled
  <2>2. Aside(n, Other)
    BY PlainFit DEF Aside
  <2> QED BY <2>1, <2>2, <1>1, GoodWithout DEF Aside, AllFit
<1>7. PICK u, v : u = a \o b /\ v = u \o c
  OBVIOUS
<1>8. IsSequence(u) /\ ToSet(u) = ToSet(a) \cup ToSet(b) /\ Good(u, D)
  BY <1>3, <1>4, <1>7, JoinIs, GoodJoin
<1>9. IsSequence(v) /\ ToSet(v) = ToSet(u) \cup ToSet(c) /\ Good(v, D)
  BY <1>5, <1>7, <1>8, JoinIs, GoodJoin
<1>10. IsSequence(v \o d) /\ ToSet(v \o d) = ToSet(v) \cup ToSet(d) /\ Good(v \o d, D)
  BY <1>6, <1>9, JoinIs, GoodJoin
<1>11. C = v \o d
  BY <1>2, <1>7
<1>12. AllFit(n, v \o d)
  BY <1>3, <1>4, <1>5, <1>6, <1>8, <1>9, <1>10 DEF AllFit
<1> QED BY <1>3, <1>4, <1>8, <1>9, <1>10, <1>11, <1>12

----------------------------------------------------------------------------
\* What commands that have run have built in the kernel.

AddsChain(c, x) == x.do = "chain" /\ x.chain = c

\* The rules of a chain are those that the first k commands have added, in their
\* order.
ListsRules(rules, c, C, k) ==
    /\ IsSequence(rules)
    /\ \A j \in 1 .. Len(rules) : \E i \in 1 .. k :
          /\ RuleOf(c, C[i]) /\ C[i].rule = rules[j]
          /\ \A m \in 1 .. i - 1 : RuleOf(c, C[m]) => C[m].rule \in Before(rules, j)
    /\ \A i \in 1 .. k : RuleOf(c, C[i]) => C[i].rule \in ToSet(rules)

\* The ruleset is what the first k commands have built.
Built(R, C, k) ==
    /\ \A c : c \in DOMAIN R <=> \E i \in 1 .. k : AddsChain(c, C[i])
    /\ \A c \in DOMAIN R :
          /\ R[c] = [policy |-> R[c].policy, rules |-> R[c].rules]
          /\ \E i \in 1 .. k : AddsChain(c, C[i]) /\ C[i].policy = R[c].policy
          /\ ListsRules(R[c].rules, c, C, k)
    /\ \A i \in 1 .. k :
          C[i].do # "unparsable" /\ \A c : RuleOf(c, C[i]) => c \in DOMAIN R

\* A command that adds a rule to a chain, and one that does not.
LEMMA MoreRules ==
  ASSUME NEW rules, NEW c, NEW C, NEW k \in Nat, ListsRules(rules, c, C, k),
         RuleOf(c, C[k + 1]), NEW more, more = Append(rules, C[k + 1].rule)
  PROVE  ListsRules(more, c, C, k + 1)
<1>1. PICK r : r = C[k + 1].rule
  OBVIOUS
<1>2. IsSequence(rules) /\ IsSequence(<<r>>) /\ ToSet(<<r>>) = {r}
  BY Spelled DEF ListsRules
<1>3. more = rules \o <<r>>
  <2>1. rules \in Seq(ToSet(rules))
    BY <1>2 DEF IsSequence
  <2>2. Append(rules, r) = rules \o <<r>>
    BY <2>1
  <2> QED BY <2>2, <1>1
<1>4. Joined(rules, <<r>>, more) /\ Len(<<r>>) = 1 /\ <<r>>[1] = r
  BY <1>3 DEF Joined
<1>5. IsSequence(more) /\ ToSet(more) = ToSet(rules) \cup {r}
  BY <1>2, <1>3, JoinIs
<1>6. PICK one : one = <<r>>
  OBVIOUS
<1>7. /\ \A i \in 1 .. Len(rules) : more[i] = rules[i] /\ Before(more, i) = Before(rules, i)
      /\ \A i \in 1 .. Len(one) :
             /\ more[Len(rules) + i] = one[i]
             /\ Before(one, i) \subseteq Before(more, Len(rules) + i)
             /\ ToSet(rules) \subseteq Before(more, Len(rules) + i)
      /\ \A i \in 1 .. Len(more) :
             i \in 1 .. Len(rules) \/ \E j \in 1 .. Len(one) : i = Len(rules) + j
  <2>1. IsSequence(rules) /\ IsSequence(one) /\ Joined(rules, one, more)
    BY <1>2, <1>4, <1>6
  <2> QED BY ONLY <2>1, JoinOrder
<1>8. ASSUME NEW j \in 1 .. Len(more)
      PROVE  \E i \in 1 .. k + 1 :
                /\ RuleOf(c, C[i]) /\ C[i].rule = more[j]
                /\ \A m \in 1 .. i - 1 : RuleOf(c, C[m]) => C[m].rule \in Before(more, j)
  <2>1. CASE j \in 1 .. Len(rules)
    <3>1. PICK i \in 1 .. k :
                /\ RuleOf(c, C[i]) /\ C[i].rule = rules[j]
                /\ \A m \in 1 .. i - 1 : RuleOf(c, C[m]) => C[m].rule \in Before(rules, j)
      BY <2>1 DEF ListsRules
    <3>2. i \in 1 .. k + 1 /\ more[j] = rules[j] /\ Before(more, j) = Before(rules, j)
      BY <1>7, <2>1
    <3> QED BY <3>1, <3>2
  <2>2. CASE j \notin 1 .. Len(rules)
    <3>1. j = Len(rules) + 1 /\ 1 \in 1 .. Len(one) /\ one[1] = r
      BY <1>4, <1>6, <1>7, <2>2
    <3>2. more[j] = r /\ ToSet(rules) \subseteq Before(more, j)
      BY <3>1, <1>7
    <3>3. \A m \in 1 .. (k + 1) - 1 : m \in 1 .. k
      OBVIOUS
    <3>4. \A m \in 1 .. (k + 1) - 1 : RuleOf(c, C[m]) => C[m].rule \in Before(more, j)
      BY <3>2, <3>3 DEF ListsRules
    <3>5. k + 1 \in 1 .. k + 1
      OBVIOUS
    <3> QED BY <1>1, <3>2, <3>4, <3>5
  <2> QED BY <2>1, <2>2
<1>9. ASSUME NEW i \in 1 .. k + 1, RuleOf(c, C[i]) PROVE C[i].rule \in ToSet(more)
  <2>1. i \in 1 .. k \/ i = k + 1
    OBVIOUS
  <2> QED BY <2>1, <1>1, <1>5, <1>9 DEF ListsRules
<1> QED BY <1>5, <1>8, <1>9 DEF ListsRules

LEMMA SameRules ==
  ASSUME NEW rules, NEW c, NEW C, NEW k \in Nat, ListsRules(rules, c, C, k),
         ~RuleOf(c, C[k + 1])
  PROVE  ListsRules(rules, c, C, k + 1)
<1>1. \A i \in 1 .. k : i \in 1 .. k + 1
  OBVIOUS
<1>2. \A i \in 1 .. k + 1 : i \in 1 .. k \/ i = k + 1
  OBVIOUS
<1>3. \A j \in 1 .. Len(rules) : \E i \in 1 .. k + 1 :
          /\ RuleOf(c, C[i]) /\ C[i].rule = rules[j]
          /\ \A m \in 1 .. i - 1 : RuleOf(c, C[m]) => C[m].rule \in Before(rules, j)
  BY <1>1 DEF ListsRules
<1>4. \A i \in 1 .. k + 1 : RuleOf(c, C[i]) => C[i].rule \in ToSet(rules)
  BY <1>2 DEF ListsRules
<1> QED BY <1>3, <1>4 DEF ListsRules

\* nft: one more command, and the ruleset is what these have built.
LEMMA ExecuteBuilds ==
  ASSUME NEW R, NEW C, NEW k \in Nat, Built(R, C, k), NEW x, x = C[k + 1],
         CanExecute(R, x), NEW Q, Q = Execute(R, x)
  PROVE  Built(Q, C, k + 1)
<1>0. /\ \A i \in 1 .. k : i \in 1 .. k + 1
      /\ \A i \in 1 .. k + 1 : i \in 1 .. k \/ i = k + 1
      /\ k + 1 \in 1 .. k + 1
  OBVIOUS
<1>1. /\ \A c : c \in DOMAIN R <=> \E i \in 1 .. k : AddsChain(c, C[i])
      /\ \A c \in DOMAIN R :
            /\ R[c] = [policy |-> R[c].policy, rules |-> R[c].rules]
            /\ \E i \in 1 .. k : AddsChain(c, C[i]) /\ C[i].policy = R[c].policy
            /\ ListsRules(R[c].rules, c, C, k)
      /\ \A i \in 1 .. k :
            C[i].do # "unparsable" /\ \A c : RuleOf(c, C[i]) => c \in DOMAIN R
  BY DEF Built
<1>2. x.do # "unparsable" /\ (x.do = "rule" => x.chain \in DOMAIN R)
  BY DEF CanExecute
<1>3. CASE x.do = "chain"
  <2>1. \A c : ~RuleOf(c, x)
    BY <1>3 DEF RuleOf
  <2>2. Q = [c \in DOMAIN R \cup {x.chain} |->
                IF c \in DOMAIN R THEN R[c] ELSE [policy |-> x.policy, rules |-> <<>>]]
    BY <1>3 DEF Execute
  <2>3. \A c : c \in DOMAIN Q <=> c \in DOMAIN R \/ AddsChain(c, x)
    BY <2>2, <1>3 DEF AddsChain
  <2>4. \A c : c \in DOMAIN Q <=> \E i \in 1 .. k + 1 : AddsChain(c, C[i])
    BY <2>3, <1>0, <1>1
  <2>5. ASSUME NEW c \in DOMAIN R
        PROVE  /\ Q[c] = [policy |-> Q[c].policy, rules |-> Q[c].rules]
               /\ \E i \in 1 .. k + 1 : AddsChain(c, C[i]) /\ C[i].policy = Q[c].policy
               /\ ListsRules(Q[c].rules, c, C, k + 1)
    <3>1. Q[c] = R[c]
      BY <2>2
    <3>2. ListsRules(R[c].rules, c, C, k + 1)
      BY <1>1, <2>1, SameRules
    <3>3. \E i \in 1 .. k + 1 : AddsChain(c, C[i]) /\ C[i].policy = R[c].policy
      BY <1>0, <1>1
    <3> QED BY <3>1, <3>2, <3>3, <1>1
  <2>6. ASSUME NEW c, c \notin DOMAIN R, c = x.chain
        PROVE  /\ Q[c] = [policy |-> Q[c].policy, rules |-> Q[c].rules]
               /\ \E i \in 1 .. k + 1 : AddsChain(c, C[i]) /\ C[i].policy = Q[c].policy
               /\ ListsRules(Q[c].rules, c, C, k + 1)
    <3>1. PICK none : none = <<>>
      OBVIOUS
    <3>2. Q[c] = [policy |-> x.policy, rules |-> none]
      BY <2>2, <2>6, <3>1
    <3>3. Q[c].policy = x.policy /\ Q[c].rules = none
      BY <3>2
    <3>4. ListsRules(none, c, C, k + 1)
      <4>1. IsSequence(none) /\ Len(none) = 0
        BY <3>1, Spelled
      <4>2. \A i \in 1 .. k + 1 : ~RuleOf(c, C[i])
        BY <1>0, <1>1, <2>1, <2>6
      <4>3. \A j \in 1 .. Len(none) : FALSE
        BY <4>1
      <4> QED BY <4>1, <4>2, <4>3 DEF ListsRules
    <3> QED BY <3>2, <3>3, <3>4, <1>0, <1>3, <2>6 DEF AddsChain
  <2>7. \A c \in DOMAIN Q : c \in DOMAIN R \/ (c \notin DOMAIN R /\ c = x.chain)
    BY <2>2
  <2>8. \A i \in 1 .. k + 1 :
            C[i].do # "unparsable" /\ \A c : RuleOf(c, C[i]) => c \in DOMAIN Q
    BY <1>0, <1>1, <1>2, <2>1, <2>3
  <2> QED BY <2>4, <2>5, <2>6, <2>7, <2>8 DEF Built
<1>4. CASE x.do = "rule"
  <2>1. PICK d : d = x.chain
    OBVIOUS
  <2>2. d \in DOMAIN R /\ RuleOf(d, x) /\ \A c : RuleOf(c, x) => c = d
    BY <1>2, <1>4, <2>1 DEF RuleOf
  <2>3. PICK policy, rules, more :
            policy = R[d].policy /\ rules = R[d].rules /\ more = Append(rules, x.rule)
    OBVIOUS
  <2>4. R[d] = [policy |-> policy, rules |-> rules] /\ ListsRules(rules, d, C, k)
    BY <1>1, <2>2, <2>3
  <2>5. Q = [R EXCEPT ![d] = [R[d] EXCEPT !.rules = Append(R[d].rules, x.rule)]]
    BY <1>4, <2>1 DEF Execute
  <2>6. Q = [R EXCEPT ![d] = [policy |-> policy, rules |-> more]]
    <3>1. [R[d] EXCEPT !.rules = Append(R[d].rules, x.rule)] = [policy |-> policy, rules |-> more]
      <4>1. PICK was : was = R[d]
        OBVIOUS
      <4>2. was = [policy |-> policy, rules |-> rules] /\ Append(was.rules, x.rule) = more
        BY <4>1, <2>3, <2>4
      <4>3. [was EXCEPT !.rules = more] = [policy |-> policy, rules |-> more]
        BY <4>2
      <4> QED BY <4>1, <4>2, <4>3
    <3> QED BY <2>5, <3>1
  <2>7. DOMAIN Q = DOMAIN R /\ \A c \in DOMAIN R : c # d => Q[c] = R[c]
    BY <2>6
  <2>8. Q[d] = [policy |-> policy, rules |-> more]
    BY <2>2, <2>6
  <2>9. Q[d].policy = policy /\ Q[d].rules = more
    BY <2>8
  <2>10. ListsRules(more, d, C, k + 1)
    BY <2>2, <2>3, <2>4, MoreRules
  <2>11. \A c : ~AddsChain(c, x)
    BY <1>4 DEF AddsChain
  <2>12. \A c : c \in DOMAIN Q <=> \E i \in 1 .. k + 1 : AddsChain(c, C[i])
    BY <1>0, <1>1, <2>7, <2>11
  <2>13. ASSUME NEW c \in DOMAIN R
         PROVE  /\ Q[c] = [policy |-> Q[c].policy, rules |-> Q[c].rules]
                /\ \E i \in 1 .. k + 1 : AddsChain(c, C[i]) /\ C[i].policy = Q[c].policy
                /\ ListsRules(Q[c].rules, c, C, k + 1)
    <3>1. \E i \in 1 .. k + 1 : AddsChain(c, C[i]) /\ C[i].policy = R[c].policy
      BY <1>0, <1>1
    <3>2. CASE c = d
      BY <3>1, <3>2, <2>3, <2>8, <2>9, <2>10
    <3>3. CASE c # d
      <4>1. Q[c] = R[c] /\ ~RuleOf(c, C[k + 1])
        BY <3>3, <2>2, <2>7
      <4>2. ListsRules(R[c].rules, c, C, k + 1)
        BY <4>1, <1>1, SameRules
      <4> QED BY <3>1, <4>1, <4>2, <1>1
    <3> QED BY <3>2, <3>3
  <2>14. \A i \in 1 .. k + 1 :
            C[i].do # "unparsable" /\ \A c : RuleOf(c, C[i]) => c \in DOMAIN Q
    BY <1>0, <1>1, <1>2, <2>2, <2>7
  <2> QED BY <2>7, <2>12, <2>13, <2>14 DEF Built
<1>5. CASE x.do \notin {"chain", "rule"}
  <2>1. Q = R
    BY <1>5 DEF Execute
  <2>2. \A c : ~RuleOf(c, x) /\ ~AddsChain(c, x)
    BY <1>5 DEF RuleOf, AddsChain
  <2>3. \A c : c \in DOMAIN Q <=> \E i \in 1 .. k + 1 : AddsChain(c, C[i])
    BY <1>0, <1>1, <2>1, <2>2
  <2>4. ASSUME NEW c \in DOMAIN R
        PROVE  /\ \E i \in 1 .. k + 1 : AddsChain(c, C[i]) /\ C[i].policy = R[c].policy
               /\ ListsRules(R[c].rules, c, C, k + 1)
    BY <1>0, <1>1, <2>2, SameRules
  <2>5. \A i \in 1 .. k + 1 :
            C[i].do # "unparsable" /\ \A c : RuleOf(c, C[i]) => c \in DOMAIN R
    BY <1>0, <1>1, <1>2, <2>2
  <2> QED BY <1>1, <2>1, <2>3, <2>4, <2>5 DEF Built
<1> QED BY <1>3, <1>4, <1>5

\* A chain says of a packet what the first command that speaks of it says.
LEMMA ChainSays ==
  ASSUME NEW R, NEW C, NEW k \in Nat, Built(R, C, k), NEW c \in DOMAIN R, NEW p
  PROVE  \/ /\ \A i \in 1 .. k : ~Speaks(c, C[i], p)
            /\ ChainVerdict(R[c], p) = R[c].policy
         \/ \E i \in 1 .. k :
               /\ Speaks(c, C[i], p) /\ \A m \in 1 .. i - 1 : ~Speaks(c, C[m], p)
               /\ ChainVerdict(R[c], p) = C[i].rule.verdict
<1>1. PICK rules : rules = R[c].rules
  OBVIOUS
<1>2. /\ IsSequence(rules)
      /\ \A j \in 1 .. Len(rules) : \E i \in 1 .. k :
            /\ RuleOf(c, C[i]) /\ C[i].rule = rules[j]
            /\ \A m \in 1 .. i - 1 : RuleOf(c, C[m]) => C[m].rule \in Before(rules, j)
      /\ \A i \in 1 .. k : RuleOf(c, C[i]) => C[i].rule \in ToSet(rules)
  BY <1>1 DEF Built, ListsRules
<1>3. /\ Len(rules) \in Nat
      /\ \A x : x \in ToSet(rules) <=> \E i \in 1 .. Len(rules) : rules[i] = x
  BY <1>2, ListIs
<1>4. \A x : Speaks(c, x, p) <=> RuleOf(c, x) /\ Matches(x.rule, p)
  BY DEF Speaks, RuleOf
<1> DEFINE Hit(j) == Matches(rules[j], p)
           end == Len(rules) + 1
           Decides(j) == (j = end \/ Hit(j)) /\ \A l \in 1 .. j - 1 : ~Hit(l)
           Stops == {j \in 1 .. end : j = end \/ Hit(j)}
<1>5. PICK stop \in 1 .. end : Decides(stop)
  <2>1. Stops \subseteq Nat /\ end \in Stops
    BY <1>3
  <2>2. PICK j \in Stops : \A l \in Stops : j <= l
    <3> HIDE DEF Stops
    <3> QED BY <2>1, Least
  <2>3. ASSUME NEW l \in 1 .. j - 1 PROVE ~Hit(l)
    <3>1. l \in 1 .. end /\ ~(j <= l)
      BY <1>3, <2>2
    <3> HIDE DEF Hit
    <3> QED BY <3>1, <2>2
  <2> QED BY <2>2, <2>3
<1>6. PICK first :
        first = (CHOOSE j \in 1 .. end : Decides(j)) /\ first \in 1 .. end /\ Decides(first)
  <2> HIDE DEF Decides, end
  <2> QED BY <1>5
<1>7. ChainVerdict(R[c], p) = IF first = end THEN R[c].policy ELSE rules[first].verdict
  BY <1>1, <1>6 DEF ChainVerdict
<1>8. CASE first = end
  <2>1. \A j \in 1 .. Len(rules) : ~Hit(j)
    BY <1>3, <1>6, <1>8
  <2>2. ASSUME NEW i \in 1 .. k, Speaks(c, C[i], p) PROVE FALSE
    <3>1. RuleOf(c, C[i]) /\ Matches(C[i].rule, p)
      BY <1>4, <2>2
    <3>2. PICK j \in 1 .. Len(rules) : rules[j] = C[i].rule
      BY <1>2, <1>3, <3>1
    <3> QED BY <2>1, <3>1, <3>2
  <2> QED BY <2>2, <1>7, <1>8
<1>9. CASE first # end
  <2>1. first \in 1 .. Len(rules) /\ Hit(first)
    BY <1>3, <1>6, <1>9
  <2>2. PICK i \in 1 .. k :
            /\ RuleOf(c, C[i]) /\ C[i].rule = rules[first]
            /\ \A m \in 1 .. i - 1 : RuleOf(c, C[m]) => C[m].rule \in Before(rules, first)
    BY <1>2, <2>1
  <2>3. \A r \in Before(rules, first) : ~Matches(r, p)
    BY <1>6 DEF Before
  <2>4. Speaks(c, C[i], p) /\ \A m \in 1 .. i - 1 : ~Speaks(c, C[m], p)
    BY <1>4, <2>1, <2>2, <2>3
  <2> QED BY <2>2, <2>4, <1>7, <1>9
<1> QED BY <1>8, <1>9

----------------------------------------------------------------------------
\* What the chains of a node say of a packet, and what that has to do with the policy.

\* The rules that all nodes have, on a packet.
LEMMA FixedRules ==
  ASSUME NEW q, NEW c
  PROVE  /\ Speaks(c, EstablishedOf(c), q) <=>
               /\ q.iif \in Interfaces /\ q.oif \in Interfaces
               /\ q.src \in Subnets /\ q.dst \in Subnets
               /\ q.svc \in Services /\ q.ct = "established"
         /\ EstablishedOf(c).rule.verdict = "accept"
         /\ Speaks(c, FromManagement, q) => q.iif = Management
         /\ FromManagement.rule.verdict = "drop"
         /\ Speaks(c, ToManagement, q) => q.oif = Management
         /\ ToManagement.rule.verdict = "drop"
         /\ \A wan : Matches(WanDrop(wan), q) => q.iif = wan /\ q.src \in Private
         /\ Matches([Always("drop") EXCEPT !.oif = {Management}], q) => q.oif = Management
<1>1. PICK e, x : e = Established /\ x = EstablishedOf(c)
  OBVIOUS
<1>2. /\ e.iif = Interfaces /\ e.oif = Interfaces /\ e.src = Subnets /\ e.dst = Subnets
      /\ e.svc = Services /\ e.ct = {"established"} /\ e.verdict = "accept"
  BY <1>1 DEF Established, Always
<1>3. x.do = "rule" /\ x.chain = c /\ x.rule = e
  BY <1>1, RuleIs, OrTrueIs DEF EstablishedOf, AnswersPass
<1>4. PICK y, f : y = FromManagement /\ f = [Always("drop") EXCEPT !.iif = {Management}]
  OBVIOUS
<1>5. f.iif = {Management} /\ f.verdict = "drop" /\ y.rule = f
  BY <1>4, OrTrueIs DEF FromManagement, Always
<1>6. PICK z, t : z = ToManagement /\ t = [Always("drop") EXCEPT !.oif = {Management}]
  OBVIOUS
<1>7. t.oif = {Management} /\ t.verdict = "drop" /\ z.rule = t
  BY <1>6, OrTrueIs DEF ToManagement, Always
<1>8. \A wan : WanDrop(wan).iif = {wan} /\ WanDrop(wan).src = Private
  BY DEF WanDrop, Always
<1>9. Speaks(c, x, q) <=>
               /\ q.iif \in Interfaces /\ q.oif \in Interfaces
               /\ q.src \in Subnets /\ q.dst \in Subnets
               /\ q.svc \in Services /\ q.ct = "established"
  BY <1>2, <1>3 DEF Speaks, Matches
<1>10. Speaks(c, y, q) => q.iif = Management
  BY <1>5 DEF Speaks, Matches
<1>11. (Speaks(c, z, q) => q.oif = Management) /\ (Matches(t, q) => q.oif = Management)
  BY <1>7 DEF Speaks, Matches
<1>12. \A wan : Matches(WanDrop(wan), q) => q.iif = wan /\ q.src \in Private
  BY <1>8 DEF Matches
<1> QED BY <1>1, <1>2, <1>3, <1>4, <1>5, <1>6, <1>7, <1>9, <1>10, <1>11, <1>12

\* The commands that have had an effect, when the failures of some went unnoticed.
Kept(C, lostOnes) == [i \in 1 .. Len(C) |-> IF i \in lostOnes THEN Other ELSE C[i]]

\* A ruleset that the first commands of a node have built, on the way of the boot:
\* those whose failure hides have been lost, or some of them.
OnTheWay(n, L, C, k, R) ==
    /\ n \in Nodes /\ ~Refused(n) /\ C = Kept(Commands(n), L)
    /\ \A i \in L : Hides(Commands(n)[i])
    /\ k \in Nat /\ k <= Len(C) /\ Built(R, C, k)

AnswersThere(n, L) == \A i \in L : Commands(n)[i] # AnswersPass

\* What is lost leaves the others where they were.
LEMMA KeptIs ==
  ASSUME NEW C, NEW L, NEW E, E = Kept(C, L), Len(C) \in Nat
  PROVE  /\ Len(E) = Len(C)
         /\ \A i \in 1 .. Len(C) : E[i] = IF i \in L THEN Other ELSE C[i]
         /\ \A i \in 1 .. Len(C) : \A x \in Before(C, i) :
                x \in Before(E, i) \/ \E m \in 1 .. i - 1 : m \in L /\ x = C[m]
         /\ DOMAIN E = 1 .. Len(C)
<1>1. /\ DOMAIN E = 1 .. Len(C)
      /\ \A i \in 1 .. Len(C) : E[i] = IF i \in L THEN Other ELSE C[i]
  BY DEF Kept
<1>2. Len(E) = Len(C)
  BY <1>1
<1>3. ASSUME NEW i \in 1 .. Len(C), NEW x \in Before(C, i)
      PROVE  x \in Before(E, i) \/ \E m \in 1 .. i - 1 : m \in L /\ x = C[m]
  <2>1. PICK m \in 1 .. i - 1 : x = C[m]
    BY DEF Before
  <2>2. m \in 1 .. Len(C)
    OBVIOUS
  <2> QED BY <2>1, <2>2, <1>1 DEF Before
<1> QED BY <1>1, <1>2, <1>3

\* What is known of such a ruleset and of its commands.
LEMMA WayFacts ==
  ASSUME NEW n, NEW L, NEW C, NEW k, NEW R, OnTheWay(n, L, C, k, R),
         NEW D, D = PolicyRules(n)
  PROVE  /\ n \in Nodes /\ k \in Nat
         /\ \A i \in 1 .. k : i \in 1 .. Len(C) /\ Fits(n, C[i]) /\ C[i].do # "unparsable"
         /\ \A c \in DOMAIN R : \E i \in 1 .. k :
                C[i].do = "chain" /\ C[i].chain = c /\ C[i].policy = R[c].policy /\ FitsChain(n, C[i])
         /\ \A c \in {"wan", "fw"} : c = "wan" \/ AnswersThere(n, L) =>
                \A i \in 1 .. k :
                    RuleOf(c, C[i]) => EstablishedOf(c) \in Before(C, i) \cup {C[i]}
         /\ \A i \in 1 .. k : RuleOf("fw", C[i]) =>
                C[i] \in {EstablishedOf("fw"), FromManagement, ToManagement} \/ Shows(C, i, D)
         /\ ForwardingRules(n) # <<>> =>
                /\ AnswersThere(n, L) => \E i \in 1 .. Len(C) : C[i] = EstablishedOf("fw")
                /\ \A x \in ToSet(D) : \E i \in 1 .. Len(C) : C[i] = x
         /\ \A x \in ToSet(Forwarding(n)) \cup ToSet(NatTables(n)) :
                ~Hides(x) => \E i \in 1 .. Len(C) : C[i] = x
         /\ IsSequence(D) /\ \A x : x \in ToSet(D) <=> \E i \in 1 .. Len(D) : D[i] = x
<1>1. PICK A : A = Commands(n)
  OBVIOUS
<1>2. /\ n \in Nodes /\ C = Kept(A, L) /\ k \in Nat /\ k <= Len(C) /\ Built(R, C, k)
      /\ \A i \in L : Hides(A[i])
  BY <1>1 DEF OnTheWay
<1>3. /\ IsSequence(A) /\ AllFit(n, A) /\ Good(A, D)
      /\ ForwardingRules(n) # <<>> =>
            /\ EstablishedOf("fw") \in ToSet(A)
            /\ ToSet(D) \subseteq ToSet(A) /\ \A x \in ToSet(D) : ~Hides(x)
      /\ ToSet(Forwarding(n)) \subseteq ToSet(A)
      /\ ToSet(NatTables(n)) \subseteq ToSet(A)
  BY <1>1, <1>2, CommandsAre
<1>4. /\ Len(A) \in Nat
      /\ \A x : x \in ToSet(A) <=> \E i \in 1 .. Len(A) : A[i] = x
  BY <1>3, ListIs
<1>5. /\ Len(C) = Len(A)
      /\ \A i \in 1 .. Len(A) : C[i] = IF i \in L THEN Other ELSE A[i]
      /\ \A i \in 1 .. Len(A) : \A x \in Before(A, i) :
             x \in Before(C, i) \/ \E m \in 1 .. i - 1 : m \in L /\ x = A[m]
  BY <1>2, <1>4, KeptIs
<1>6. IsSequence(D) /\ \A x : x \in ToSet(D) <=> \E i \in 1 .. Len(D) : D[i] = x
  <2>1. IsSequence(D)
    BY <1>2, PolicyRulesAre
  <2> QED BY <2>1, ListIs
<1>7. \A i \in 1 .. k : i \in 1 .. Len(C) /\ C[i].do # "unparsable"
  BY <1>2, <1>4, <1>5 DEF Built
<1>8. \A i \in 1 .. k : Fits(n, C[i])
  <2>1. \A i \in 1 .. Len(A) : Fits(n, A[i])
    BY <1>3, <1>4 DEF AllFit
  <2> QED BY <2>1, <1>5, <1>7, PlainFit
<1>9. ASSUME NEW c \in DOMAIN R
      PROVE  \E i \in 1 .. k :
                C[i].do = "chain" /\ C[i].chain = c /\ C[i].policy = R[c].policy /\ FitsChain(n, C[i])
  <2>1. PICK i \in 1 .. k : AddsChain(c, C[i]) /\ C[i].policy = R[c].policy
    BY <1>2 DEF Built
  <2> QED BY <2>1, <1>8 DEF AddsChain, Fits
<1>10. ASSUME NEW i \in 1 .. k, NEW c, RuleOf(c, C[i])
       PROVE  i \in 1 .. Len(A) /\ C[i] = A[i] /\ RuleOf(c, A[i])
  <2>1. ~RuleOf(c, Other)
    BY PlainFit
  <2> QED BY <2>1, <1>5, <1>7, <1>10
<1>11. ASSUME NEW c \in {"wan", "fw"}, c = "wan" \/ AnswersThere(n, L),
              NEW i \in 1 .. k, RuleOf(c, C[i])
       PROVE  EstablishedOf(c) \in Before(C, i) \cup {C[i]}
  <2>1. i \in 1 .. Len(A) /\ C[i] = A[i] /\ EstablishedOf(c) \in Before(A, i) \cup {A[i]}
    BY <1>3, <1>10, <1>11 DEF Good
  <2>2. ASSUME NEW m \in L, EstablishedOf(c) = A[m] PROVE FALSE
    <3>1. CASE c = "wan"
      <4>1. ~Hides(EstablishedOf(c))
        BY <3>1, RuleIs DEF EstablishedOf
      <4> QED BY <4>1, <1>2, <2>2
    <3>2. CASE c = "fw"
      BY <3>2, <1>1, <1>11, <2>2 DEF AnswersThere, EstablishedOf
    <3> QED BY <3>1, <3>2
  <2> QED BY <2>1, <2>2, <1>5
<1>12. ASSUME NEW i \in 1 .. k, RuleOf("fw", C[i])
       PROVE  C[i] \in {EstablishedOf("fw"), FromManagement, ToManagement} \/ Shows(C, i, D)
  <2>1. /\ i \in 1 .. Len(A) /\ C[i] = A[i]
        /\ A[i] \in {EstablishedOf("fw"), FromManagement, ToManagement} \/ Shows(A, i, D)
    BY <1>3, <1>10, <1>12 DEF Good
  <2>2. ASSUME Shows(A, i, D) PROVE Shows(C, i, D)
    <3>1. PICK x \in 1 .. Len(D) : A[i] = D[x] /\ Before(D, x) \subseteq Before(A, i)
      BY <2>2 DEF Shows
    <3>2. ASSUME NEW y \in Before(D, x) PROVE y \in Before(C, i)
      <4>1. y \in ToSet(D)
        <5>1. PICK z \in 1 .. x - 1 : y = D[z]
          BY DEF Before
        <5>2. z \in 1 .. Len(D)
          BY <1>6, ListIs
        <5> QED BY <5>1, <5>2, <1>6
      <4>2. ForwardingRules(n) # <<>>
        <5>1. "fw" \in DOMAIN R
          BY <1>2, <1>12 DEF Built
        <5> QED BY <5>1, <1>9 DEF FitsChain
      <4>3. ~Hides(y)
        BY <4>1, <4>2, <1>3
      <4>4. y \in Before(A, i)
        BY <3>1
      <4> QED BY <4>3, <4>4, <1>2, <1>5, <2>1
    <3> QED BY <3>1, <3>2, <2>1 DEF Shows
  <2> QED BY <2>1, <2>2
<1>13. ASSUME NEW x \in ToSet(A), \A i \in L : A[i] # x
       PROVE  \E i \in 1 .. Len(C) : C[i] = x
  <2>1. PICK i \in 1 .. Len(A) : A[i] = x
    BY <1>4
  <2> QED BY <2>1, <1>5, <1>13
<1>14. ASSUME ForwardingRules(n) # <<>>
       PROVE  /\ AnswersThere(n, L) => \E i \in 1 .. Len(C) : C[i] = EstablishedOf("fw")
              /\ \A x \in ToSet(D) : \E i \in 1 .. Len(C) : C[i] = x
  <2>1. \A x \in ToSet(D) : x \in ToSet(A) /\ \A i \in L : A[i] # x
    BY <1>2, <1>3, <1>14
  <2>2. /\ EstablishedOf("fw") \in ToSet(A)
        /\ AnswersThere(n, L) => \A i \in L : A[i] # EstablishedOf("fw")
    BY <1>1, <1>3, <1>14 DEF AnswersThere, EstablishedOf
  <2> QED BY <2>1, <2>2, <1>13
<1>15. \A x \in ToSet(Forwarding(n)) \cup ToSet(NatTables(n)) :
          ~Hides(x) => \E i \in 1 .. Len(C) : C[i] = x
  BY <1>2, <1>3, <1>13
<1>16. \A c \in {"wan", "fw"} : c = "wan" \/ AnswersThere(n, L) =>
          \A i \in 1 .. k : RuleOf(c, C[i]) => EstablishedOf(c) \in Before(C, i) \cup {C[i]}
  BY <1>11
<1> QED BY <1>2, <1>6, <1>7, <1>8, <1>9, <1>12, <1>14, <1>15, <1>16

\* What the first statement that speaks of a new packet says.
LEMMA FirstSays ==
  ASSUME NEW n, NEW L, NEW C, NEW k, NEW R, OnTheWay(n, L, C, k, R),
         \A r \in ToSet(n.rules) : Tight(r), NEW p \in Packets,
         NEW i \in 1 .. k, Speaks("fw", C[i], p),
         \A m \in 1 .. i - 1 : ~Speaks("fw", C[m], p)
  PROVE  \/ C[i] = FromManagement /\ p.iif = Management
         \/ C[i] = ToManagement /\ p.oif = Management
         \/ C[i].rule.verdict = "accept" <=> Accepted(n, p)
<1>1. PICK D : D = PolicyRules(n)
  OBVIOUS
<1>2. /\ n \in Nodes /\ k \in Nat
      /\ \A j \in 1 .. k : j \in 1 .. Len(C) /\ C[j].do # "unparsable"
  BY <1>1, WayFacts
<1>3. RuleOf("fw", C[i]) /\ i \in 1 .. Len(C)
  BY <1>2 DEF Speaks, RuleOf
<1>4. C[i] \in {EstablishedOf("fw"), FromManagement, ToManagement} \/ Shows(C, i, D)
  BY <1>1, <1>3, WayFacts
<1>5. C[i] # EstablishedOf("fw")
  <2>1. p.ct # "established"
    BY PacketIs
  <2> QED BY <2>1, FixedRules
<1>6. CASE Shows(C, i, D)
  <2>1. PICK x \in 1 .. Len(D) : C[i] = D[x] /\ Before(D, x) \subseteq Before(C, i)
    BY <1>6 DEF Shows
  <2>2. ASSUME NEW y \in Before(C, i) PROVE y # Unparsable /\ ~Speaks("fw", y, p)
    <3>1. PICK m \in 1 .. i - 1 : y = C[m]
      BY DEF Before
    <3>2. m \in 1 .. k
      BY <1>2
    <3>3. Unparsable.do = "unparsable"
      BY DEF Unparsable
    <3> QED BY <3>1, <3>2, <3>3, <1>2
  <2>3. ~Refused(n)
    BY DEF OnTheWay
  <2> QED BY <2>1, <2>2, <2>3, <1>1, <1>2, PolicyVerdict
<1> QED BY <1>4, <1>5, <1>6, FixedRules

\* policy_firewall.py: what the chain of the policy accepts, the intent accepts, however
\* many of its rules are there.
LEMMA FwSound ==
  ASSUME NEW n, NEW L, NEW C, NEW k, NEW R, OnTheWay(n, L, C, k, R),
         \A r \in ToSet(n.rules) : Tight(r), NEW p \in Packets,
         "fw" \in DOMAIN R, ChainVerdict(R["fw"], p) = "accept"
  PROVE  Accepted(n, p)
<1>1. /\ k \in Nat /\ R["fw"].policy = "drop"
  BY WayFacts DEF FitsChain
<1>2. Built(R, C, k)
  BY DEF OnTheWay
<1>3. PICK i \in 1 .. k :
          /\ Speaks("fw", C[i], p) /\ \A m \in 1 .. i - 1 : ~Speaks("fw", C[m], p)
          /\ ChainVerdict(R["fw"], p) = C[i].rule.verdict
  BY <1>1, <1>2, ChainSays
<1>4. FromManagement.rule.verdict = "drop" /\ ToManagement.rule.verdict = "drop"
  BY FixedRules
<1> QED BY <1>3, <1>4, FirstSays

\* policy_firewall.py: with all of its rules it accepts whatever the intent accepts.
LEMMA FwComplete ==
  ASSUME NEW n, NEW L, NEW C, NEW k, NEW R, OnTheWay(n, L, C, k, R), k = Len(C),
         \A r \in ToSet(n.rules) : Tight(r), NEW p \in Packets,
         "fw" \in DOMAIN R, Accepted(n, p), Management \notin {p.iif, p.oif}
  PROVE  ChainVerdict(R["fw"], p) = "accept"
<1>1. PICK D : D = PolicyRules(n)
  OBVIOUS
<1>2. /\ n \in Nodes /\ k \in Nat
      /\ \A j \in 1 .. k : C[j].do # "unparsable"
      /\ ForwardingRules(n) # <<>>
      /\ \A x \in ToSet(D) : \E i \in 1 .. k : C[i] = x
  BY <1>1, WayFacts DEF FitsChain
<1>3. Built(R, C, k) /\ ~Refused(n)
  BY DEF OnTheWay
<1>4. Unparsable \notin ToSet(D)
  <2>1. Unparsable.do = "unparsable"
    BY DEF Unparsable
  <2> QED BY <2>1, <1>2
<1>5. \E i \in 1 .. k : Speaks("fw", C[i], p)
  <2>1. PICK x \in ToSet(D) : Speaks("fw", x, p)
    BY <1>1, <1>2, <1>3, <1>4, PolicySpeaks
  <2> QED BY <2>1, <1>2
<1>6. PICK i \in 1 .. k :
          /\ Speaks("fw", C[i], p) /\ \A m \in 1 .. i - 1 : ~Speaks("fw", C[m], p)
          /\ ChainVerdict(R["fw"], p) = C[i].rule.verdict
  BY <1>2, <1>3, <1>5, ChainSays
<1> QED BY <1>6, FirstSays

\* A packet that belongs to a connection passes the chain of the WAN as soon as
\* this is there, and that of the policy when all commands have run and the rule for
\* answers is not lost.
LEMMA EstablishedPasses ==
  ASSUME NEW n, NEW L, NEW C, NEW k, NEW R, OnTheWay(n, L, C, k, R), NEW c \in {"wan", "fw"},
         c \in DOMAIN R, c = "fw" => k = Len(C) /\ AnswersThere(n, L), NEW q,
         q.iif \in Interfaces, q.oif \in Interfaces, q.src \in Subnets, q.dst \in Subnets,
         q.svc \in Services, q.ct = "established"
  PROVE  ChainVerdict(R[c], q) = "accept"
<1>1. PICK D : D = PolicyRules(n)
  OBVIOUS
<1>2. /\ n \in Nodes /\ k \in Nat
      /\ \A i \in 1 .. k : RuleOf(c, C[i]) => EstablishedOf(c) \in Before(C, i) \cup {C[i]}
  BY <1>1, WayFacts
<1>3. Speaks(c, EstablishedOf(c), q) /\ EstablishedOf(c).rule.verdict = "accept"
  BY FixedRules
<1>4. CASE /\ \A i \in 1 .. k : ~Speaks(c, C[i], q)
           /\ ChainVerdict(R[c], q) = R[c].policy
  <2>1. CASE c = "wan"
    <3>1. R[c].policy = "accept"
      BY <2>1, WayFacts DEF FitsChain
    <3> QED BY <3>1, <1>4
  <2>2. CASE c = "fw"
    <3>1. ForwardingRules(n) # <<>>
      BY <2>2, WayFacts DEF FitsChain
    <3>2. \E i \in 1 .. k : C[i] = EstablishedOf("fw")
      BY <2>2, <3>1, WayFacts
    <3> QED BY <3>2, <2>2, <1>3, <1>4
  <2> QED BY <2>1, <2>2
<1>5. ASSUME NEW i \in 1 .. k, Speaks(c, C[i], q), \A m \in 1 .. i - 1 : ~Speaks(c, C[m], q)
      PROVE  C[i].rule.verdict = "accept"
  <2>1. RuleOf(c, C[i])
    BY <1>5 DEF Speaks, RuleOf
  <2>2. EstablishedOf(c) \in Before(C, i) \cup {C[i]}
    BY <1>2, <2>1
  <2>3. EstablishedOf(c) \notin Before(C, i)
    BY <1>3, <1>5 DEF Before
  <2> QED BY <2>2, <2>3, <1>3
<1>6. Built(R, C, k)
  BY DEF OnTheWay
<1> QED BY <1>2, <1>4, <1>5, <1>6, ChainSays

\* The other chains of the hook let pass what is neither spoofed nor management.
LEMMA OthersPass ==
  ASSUME NEW n, NEW L, NEW C, NEW k, NEW R, OnTheWay(n, L, C, k, R), NEW q
  PROVE  /\ "guard" \in DOMAIN R /\ q.oif # Management => ChainVerdict(R["guard"], q) = "accept"
         /\ /\ "wan" \in DOMAIN R /\ q.ct = "new"
            /\ ~(q.iif \in ToSet(Wans(n)) /\ q.src \in Private)
            => ChainVerdict(R["wan"], q) = "accept"
<1>1. k \in Nat /\ Built(R, C, k) /\ \A i \in 1 .. k : Fits(n, C[i])
  BY WayFacts DEF OnTheWay
<1>2. ASSUME "guard" \in DOMAIN R, q.oif # Management
      PROVE  ChainVerdict(R["guard"], q) = "accept"
  <2>1. R["guard"].policy = "accept"
    BY <1>2, WayFacts DEF FitsChain
  <2>2. ASSUME NEW i \in 1 .. k, Speaks("guard", C[i], q) PROVE FALSE
    <3>1. /\ C[i].do = "rule" /\ C[i].chain = "guard" /\ Matches(C[i].rule, q)
          /\ FitsRule(n, C[i])
      BY <1>1, <2>2 DEF Speaks, Fits
    <3>2. C[i].rule = [Always("drop") EXCEPT !.oif = {Management}]
      BY <3>1 DEF FitsRule
    <3>3. Matches([Always("drop") EXCEPT !.oif = {Management}], q)
      BY <3>1, <3>2
    <3> QED BY <3>3, <1>2, FixedRules
  <2> QED BY <2>1, <2>2, <1>1, <1>2, ChainSays
<1>3. ASSUME "wan" \in DOMAIN R, q.ct = "new", ~(q.iif \in ToSet(Wans(n)) /\ q.src \in Private)
      PROVE  ChainVerdict(R["wan"], q) = "accept"
  <2>1. R["wan"].policy = "accept"
    BY <1>3, WayFacts DEF FitsChain
  <2>2. ASSUME NEW i \in 1 .. k, Speaks("wan", C[i], q) PROVE FALSE
    <3>1. /\ C[i].do = "rule" /\ C[i].chain = "wan" /\ Matches(C[i].rule, q)
          /\ FitsRule(n, C[i])
      BY <1>1, <2>2 DEF Speaks, Fits
    <3>2. C[i].rule = Established \/ \E wan \in ToSet(Wans(n)) : C[i].rule = WanDrop(wan)
      BY <3>1 DEF FitsRule
    <3>3. ~Matches(Established, q)
      <4>1. Established.ct = {"established"}
        BY DEF Established, Always
      <4> QED BY <4>1, <1>3 DEF Matches
    <3> QED BY <3>1, <3>2, <3>3, <1>3, FixedRules
  <2> QED BY <2>1, <2>2, <1>1, <1>3, ChainSays
<1> QED BY <1>2, <1>3

\* What nat.py and firewall_wan.py list for translation.
ListedFor(n, p) == FamilyOf[p.src] \in n.nat /\ p.src \in n.saddr /\ p.oif \in NatTargets(n)

\* What a rule of nat.py matches.
LEMMA NatMatches ==
  ASSUME NEW n, NEW f, NEW to, NEW p \in Packets
  PROVE  /\ NatRule(n, f, to).verdict = "masquerade"
         /\ Matches(NatRule(n, f, to), p) <=> p.src \in OfFamily(n.saddr, f) /\ p.oif = to
<1>1. PICK r : r = NatRule(n, f, to)
  OBVIOUS
<1>2. /\ r.iif = Interfaces /\ r.oif = {to} /\ r.src = OfFamily(n.saddr, f) /\ r.dst = Subnets
      /\ r.svc = Services /\ r.ct = {"new", "established"} /\ r.verdict = "masquerade"
  BY <1>1 DEF NatRule, Always, States
<1>3. p.iif \in Interfaces /\ p.dst \in Subnets /\ p.svc \in Services /\ p.ct = "new"
  BY PacketIs
<1>4. Matches(r, p) <=> p.src \in OfFamily(n.saddr, f) /\ p.oif = to
  BY <1>2, <1>3 DEF Matches
<1> QED BY <1>1, <1>2, <1>4

\* nat.py and firewall_wan.py: what is translated is listed, and with all rules there
\* what is listed is translated.
LEMMA TranslationIs ==
  ASSUME NEW n, NEW L, NEW C, NEW k, NEW R, OnTheWay(n, L, C, k, R), NEW p \in Packets
  PROVE  /\ Translates(R, p) => ListedFor(n, p)
         /\ k = Len(C) /\ ListedFor(n, p) => Translates(R, p)
<1>1. PICK f \in {4, 6} : f = FamilyOf[p.src]
  BY PacketIs
<1>2. PICK c : c = NatChain(f)
  OBVIOUS
<1>3. Translates(R, p) <=> c \in DOMAIN R /\ ChainVerdict(R[c], p) = "masquerade"
  BY <1>1, <1>2 DEF Translates, NatChain
<1>4. /\ n \in Nodes /\ k \in Nat /\ Built(R, C, k)
      /\ \A i \in 1 .. k : Fits(n, C[i])
  BY WayFacts DEF OnTheWay
<1>5. c \in DOMAIN R => R[c].policy = "accept" /\ f \in n.nat
  <2>1. c \in {"nat4", "nat6"} /\ (c = "nat4" => f = 4) /\ (c = "nat6" => f = 6)
    BY <1>2 DEF NatChain
  <2> QED BY <2>1, WayFacts DEF FitsChain
<1>6. ASSUME NEW i \in 1 .. k, Speaks(c, C[i], p)
      PROVE  /\ f \in n.nat
             /\ \E to \in NatTargets(n) : C[i].rule = NatRule(n, f, to)
             /\ Matches(C[i].rule, p)
  <2>1. C[i].do = "rule" /\ C[i].chain = c /\ Matches(C[i].rule, p) /\ FitsRule(n, C[i])
    BY <1>4, <1>6 DEF Speaks, Fits
  <2> QED BY <2>1, <1>2 DEF FitsRule
<1>7. ASSUME Translates(R, p) PROVE ListedFor(n, p)
  <2>1. c \in DOMAIN R /\ ChainVerdict(R[c], p) = "masquerade" /\ R[c].policy = "accept"
    BY <1>3, <1>5, <1>7
  <2>2. PICK i \in 1 .. k : Speaks(c, C[i], p)
    BY <2>1, <1>4, ChainSays
  <2>3. PICK to \in NatTargets(n) : f \in n.nat /\ Matches(NatRule(n, f, to), p)
    BY <2>2, <1>6
  <2>4. p.src \in OfFamily(n.saddr, f) /\ p.oif = to
    BY <2>3, NatMatches
  <2> QED BY <2>3, <2>4, <1>1 DEF ListedFor, OfFamily
<1>8. ASSUME k = Len(C), ListedFor(n, p) PROVE Translates(R, p)
  <2>1. f \in n.nat /\ p.src \in OfFamily(n.saddr, f) /\ p.oif \in NatTargets(n)
    BY <1>1, <1>8 DEF ListedFor, OfFamily
  <2>2. /\ AddChain(c, "accept") \in ToSet(NatTables(n))
        /\ AddRule(c, NatRule(n, f, p.oif)) \in ToSet(NatTables(n))
    BY <2>1, <1>2, <1>4, NatTablesAre
  <2>3. \E i, j \in 1 .. k : C[i] = AddChain(c, "accept") /\ C[j] = AddRule(c, NatRule(n, f, p.oif))
    <3>1. ~Hides(AddChain(c, "accept")) /\ ~Hides(AddRule(c, NatRule(n, f, p.oif)))
      BY ChainIs, RuleIs
    <3> QED BY <3>1, <2>2, <1>8, WayFacts
  <2>4. PICK i, j \in 1 .. k : C[i] = AddChain(c, "accept") /\ C[j] = AddRule(c, NatRule(n, f, p.oif))
    BY <2>3
  <2>5. c \in DOMAIN R
    <3>1. AddsChain(c, C[i])
      BY <2>4, ChainIs DEF AddsChain
    <3> QED BY <3>1, <1>4 DEF Built
  <2>6. Speaks(c, C[j], p)
    BY <2>1, <2>4, RuleIs, NatMatches DEF Speaks
  <2>7. PICK first \in 1 .. k :
            Speaks(c, C[first], p) /\ ChainVerdict(R[c], p) = C[first].rule.verdict
    BY <2>5, <2>6, <1>4, ChainSays
  <2>8. ChainVerdict(R[c], p) = "masquerade"
    BY <2>7, <1>6, NatMatches
  <2> QED BY <2>5, <2>8, <1>3
<1> QED BY <1>7, <1>8

\* A node without WAN and without translation tracks nothing before its policy.
LEMMA TracksLate ==
  ASSUME NEW n, NEW L, NEW C, NEW k, NEW R, OnTheWay(n, L, C, k, R), Tracks(R),
         Wans(n) = <<>>, n.nat = {}
  PROVE  "fw" \in DOMAIN R
<1>1. /\ k \in Nat /\ Built(R, C, k) /\ \A i \in 1 .. k : Fits(n, C[i])
  BY WayFacts DEF OnTheWay
<1>2. {"nat4", "nat6"} \cap DOMAIN R = {}
  BY WayFacts DEF FitsChain
<1>3. PICK c \in DOMAIN R : \E j \in 1 .. Len(R[c].rules) : R[c].rules[j].ct # States
  BY <1>2 DEF Tracks
<1>4. PICK j \in 1 .. Len(R[c].rules) : R[c].rules[j].ct # States
  BY <1>3
<1>5. PICK i \in 1 .. k : RuleOf(c, C[i]) /\ C[i].rule = R[c].rules[j]
  BY <1>1 DEF Built, ListsRules
<1>6. FitsRule(n, C[i]) /\ C[i].chain = c
  BY <1>1, <1>5 DEF Fits, RuleOf
<1>7. c \in {"input", "wan", "fw", "guard", "nat4", "nat6"}
  BY <1>6 DEF FitsRule, Chains
<1>8. c \notin {"input", "wan"}
  BY <1>6 DEF FitsRule
<1>9. c # "guard"
  <2>1. ([Always("drop") EXCEPT !.oif = {Management}]).ct = States
    BY DEF Always
  <2> QED BY <2>1, <1>4, <1>5, <1>6 DEF FitsRule
<1>10. c \notin {"nat4", "nat6"}
  BY <1>2
<1> QED BY <1>7, <1>8, <1>9, <1>10

\* Forwarding is asked for wherever there is a policy.
LEMMA PolicyForwards ==
  ASSUME NEW n \in Nodes, ForwardingRules(n) # <<>>
  PROVE  EnableForwarding \in ToSet(Forwarding(n))
<1>1. PICK fr : fr = ForwardingRules(n)
  OBVIOUS
<1>2. /\ IsSequence(fr) /\ IsSequence(n.rules) /\ Len(n.rules) \in Nat
      /\ \A i \in 1 .. Len(fr) : i \notin 1 .. Len(n.rules) => fr[i] \in ToSet(PppRules(n))
  BY <1>1, ForwardingRulesAre
<1>3. fr \in Seq(ToSet(fr)) /\ n.rules \in Seq(ToSet(n.rules))
  BY <1>2 DEF IsSequence
<1>4. Len(fr) # 0
  BY <1>1, <1>3
<1>5. n.rules # <<>>
  <2> SUFFICES ASSUME n.rules = <<>> PROVE FALSE
    OBVIOUS
  <2>1. Len(n.rules) = 0 /\ ToSet(n.rules) = {}
    BY Spelled
  <2>2. fr[1] \in ToSet(PppRules(n))
    BY <2>1, <1>2, <1>3, <1>4
  <2>3. \E q : q \in NamedSet(n)
    BY <2>2, PppRulesAre
  <2> QED BY <2>1, <2>3 DEF NamedSet
<1>6. n.rules \o n.uplinks \o n.wans # <<>>
  <2>1. PICK a, b, c : a = n.rules /\ b = n.uplinks /\ c = n.wans
    OBVIOUS
  <2>2. a \in Seq(ToSet(a)) /\ b \in Seq(ToSet(b)) /\ c \in Seq(ToSet(c))
    BY <2>1, NodesAssumption DEF IsSequence
  <2>3. Len(a) # 0
    BY <2>1, <2>2, <1>5
  <2>4. IsSequence(a) /\ IsSequence(b) /\ IsSequence(c)
    BY <2>2 DEF IsSequence
  <2>5. IsSequence(a \o b) /\ Len(a \o b) = Len(a) + Len(b)
    BY <2>4, JoinIs, JoinAt
  <2>6. Len((a \o b) \o c) = Len(a \o b) + Len(c)
    BY <2>4, <2>5, JoinAt
  <2>7. Len(a) \in Nat /\ Len(b) \in Nat /\ Len(c) \in Nat
    BY <2>2
  <2>8. Len((a \o b) \o c) # 0
    BY <2>3, <2>5, <2>6, <2>7
  <2>9. (a \o b) \o c # <<>>
    BY <2>8
  <2> QED BY <2>1, <2>9
<1>7. Forwarding(n) = <<EnableForwarding>>
  BY <1>6 DEF Forwarding
<1> QED BY <1>7, Spelled

\* What the table of meanings says of the node.
LEMMA MeantIs ==
  ASSUME node \in Nodes
  PROVE  Allowed = AllowedBy(node) /\ WanSet = ToSet(Wans(node))
<1>1. Meanings = {Meaning(n) : n \in Nodes}
  BY DEF Meanings, OfNodes
<1>2. \A n : /\ Meaning(n).of = n /\ Meaning(n).allowed = AllowedBy(n)
             /\ Meaning(n).wans = ToSet(Wans(n))
  BY DEF Meaning
<1>3. Meant \in Meanings /\ Meant.of = node
  BY <1>1, <1>2 DEF Meant
<1>4. PICK n \in Nodes : Meant = Meaning(n)
  BY <1>1, <1>3
<1>5. n = node
  BY <1>2, <1>3, <1>4
<1> QED BY <1>2, <1>4, <1>5 DEF Allowed, WanSet

----------------------------------------------------------------------------
\* The kernel of a node that boots.

\* The commands of a node are a list.
LEMMA CommandsCounted == \A n \in Nodes : Len(Commands(n)) \in Nat
<1> SUFFICES ASSUME NEW n \in Nodes PROVE Len(Commands(n)) \in Nat
  OBVIOUS
<1>1. PICK C, D : C = Commands(n) /\ D = PolicyRules(n)
  OBVIOUS
<1>2. IsSequence(C)
  BY <1>1, CommandsAre
<1> QED BY <1>1, <1>2, ListIs

\* A node that boots runs its bundles as ExecSpec says, whatever its firewall.
THEOREM BootImplementsExec == Spec => ExecSpec
<1>1. Init => total \in Nat /\ ExecInit
  BY CommandsCounted DEF Init
<1>2. [Next]_vars => [ExecNext]_execVars
  BY BootSteps
<1> QED
  BY <1>1, <1>2, PTL DEF Spec, ExecSpec

\* bundle_exec_commands in a node that boots: the commands, and with them the
\* rules of the firewall, take effect in the order they are rendered in.
THEOREM BootInOrder == Spec => []InOrder
BY BootImplementsExec, ExecOrder, PTL

\* bundle_exec_commands in a node that boots: after a script has failed, none
\* behind it changes the firewall.
THEOREM BootFailureStops == Spec => []FailureStopsTheNode
BY BootImplementsExec, ExecOrder, PTL

AllTight(n) == \A r \in ToSet(n.rules) : Tight(r)

\* What nothing opens before the policy, on a node that tracks nothing then.
NoneAside(n) ==
    Wans(n) = <<>> /\ n.nat = {} /\ AllTight(n) => Known \subseteq AllowedBy(n)

\* The kernel holds what the commands that have run have built.
KernelInv ==
    /\ ExecInv
    /\ total = Len(commands)
    /\ commands = Commands(node)
    /\ \A i \in lost : i \in 1 .. Len(ran)
    /\ OnTheWay(node, lost, Kept(commands, lost), Len(ran), ruleset)
    /\ \A i \in 1 .. Len(ran) : commands[i] = EnableForwarding => forwarding
    /\ passing = Passing
    /\ NoneAside(node)

\* No ruleset is what no command has built.
LEMMA NothingBuilt == ASSUME NEW C PROVE Built(NoRuleset, C, 0)
<1>1. DOMAIN NoRuleset = {}
  BY DEF NoRuleset
<1> QED BY <1>1 DEF Built

\* A node that starts has run no command.
LEMMA KernelStarts ==
  ASSUME Init
  PROVE  KernelInv
<1>1. /\ node \in Nodes /\ ~Refused(node) /\ commands = Commands(node) /\ total = Len(commands)
      /\ ruleset = NoRuleset /\ passing = Passing /\ flows = {} /\ ran = <<>> /\ lost = {}
  BY DEF Init, ExecInit
<1>2. total \in Nat
  BY <1>1, CommandsCounted
<1>3. ExecInv
  BY <1>2, ExecStarts DEF Init
<1>4. Len(ran) = 0
  BY <1>1
<1>5. OnTheWay(node, lost, Kept(commands, lost), Len(ran), ruleset)
  <2>1. Len(Kept(commands, lost)) \in Nat
    BY <1>1, <1>2, KeptIs
  <2> QED BY <2>1, <1>1, <1>2, <1>4, NothingBuilt DEF OnTheWay
<1>6. NoneAside(node)
  BY <1>1 DEF NoneAside, Known
<1>7. \A i \in 1 .. Len(ran) : commands[i] = EnableForwarding => forwarding
  BY <1>4
<1> QED BY <1>1, <1>3, <1>5, <1>6, <1>7 DEF KernelInv

\* policy_firewall.py: what passes, once the chain is there.
LEMMA PassingAllowed ==
  ASSUME KernelInv, "fw" \in DOMAIN ruleset, AllTight(node)
  PROVE  passing \subseteq AllowedBy(node)
<1>1. OnTheWay(node, lost, Kept(commands, lost), Len(ran), ruleset) /\ passing = Passing
  BY DEF KernelInv
<1> SUFFICES ASSUME NEW p \in passing PROVE p \in AllowedBy(node)
  OBVIOUS
<1>2. p \in Packets /\ Passes(p)
  BY <1>1 DEF Passing
<1>3. ChainVerdict(ruleset["fw"], p) = "accept"
  BY <1>2 DEF Passes, Forwards, Accepts, ForwardHook
<1>4. \A r \in ToSet(node.rules) : Tight(r)
  BY DEF AllTight
<1>5. Accepted(node, p)
  BY <1>1, <1>2, <1>3, <1>4, FwSound
<1> QED BY <1>2, <1>5 DEF AllowedBy

\* What has been built depends on the commands so far, and on no other.
LEMMA SameBuilt ==
  ASSUME NEW R, NEW B, NEW C, NEW k \in Nat, Built(R, B, k), \A i \in 1 .. k : C[i] = B[i]
  PROVE  Built(R, C, k)
<1>1. ASSUME NEW c, NEW rules, ListsRules(rules, c, B, k)
      PROVE  ListsRules(rules, c, C, k)
  <2>1. \A i \in 1 .. k : \A m \in 1 .. i - 1 : m \in 1 .. k
    OBVIOUS
  <2> QED BY <1>1, <2>1 DEF ListsRules
<1>2. \A c : c \in DOMAIN R <=> \E i \in 1 .. k : AddsChain(c, C[i])
  BY DEF Built
<1>3. ASSUME NEW c \in DOMAIN R
      PROVE  /\ R[c] = [policy |-> R[c].policy, rules |-> R[c].rules]
             /\ \E i \in 1 .. k : AddsChain(c, C[i]) /\ C[i].policy = R[c].policy
             /\ ListsRules(R[c].rules, c, C, k)
  BY <1>1 DEF Built
<1>4. \A i \in 1 .. k : C[i].do # "unparsable" /\ \A c : RuleOf(c, C[i]) => c \in DOMAIN R
  BY DEF Built
<1> QED BY <1>2, <1>3, <1>4 DEF Built

\* The command a script is at, and how far the commands before it have come.
LEMMA NextCommand ==
  ASSUME KernelInv, NEW b \in Bundles, RunCommand(b), NEW k, k = Len(ran)
  PROVE  /\ Len(ran') = k + 1 /\ k \in Nat /\ at[b] = k + 1 /\ k + 1 <= Len(commands)
         /\ Len(commands) \in Nat /\ total' = total /\ ExecInv' /\ k + 1 \notin lost
<1>1. ExecInv /\ total = Len(commands) /\ total \in Nat /\ \A i \in lost : i \in 1 .. k
  BY DEF KernelInv, ExecInv, ExecTypes
<1>2. Len(ran') = k + 1 /\ k \in Nat /\ at[b] = k + 1 /\ at[b] <= EndOf(b)
  BY <1>1, OneMore
<1>3. total' = total
  BY DEF RunCommand
<1>4. EndOf(b) <= total
  <2>1. b \in Nat /\ EndOf(b) \in Nat
    BY <1>1, Cuts
  <2>2. (EndOf(b) = b * BundleSize /\ b * BundleSize < total) \/ EndOf(b) = total
    BY DEF EndOf
  <2> QED BY <2>1, <2>2, <1>1
<1>5. EndOf(b) \in Nat
  BY <1>1, Cuts
<1>6. k + 1 <= Len(commands)
  BY <1>1, <1>2, <1>4, <1>5
<1>7. k + 1 \notin lost
  BY <1>1, <1>2
<1> QED BY <1>1, <1>2, <1>3, <1>6, <1>7, CommandSteps

\* One more command has run, and the kernel holds what it builds.
LEMMA RunKeeps ==
  ASSUME KernelInv, NEW b \in Bundles, Run(b)
  PROVE  KernelInv'
<1>1. PICK k, E : k = Len(ran) /\ E = Kept(commands, lost)
  OBVIOUS
<1>2. /\ total = Len(commands) /\ commands = Commands(node)
      /\ \A i \in lost : i \in 1 .. k
      /\ OnTheWay(node, lost, E, k, ruleset)
      /\ \A i \in 1 .. k : commands[i] = EnableForwarding => forwarding
      /\ passing = Passing /\ NoneAside(node)
  BY <1>1 DEF KernelInv
<1>3. /\ RunCommand(b) /\ CanExecute(ruleset, commands[at[b]])
      /\ ruleset' = Execute(ruleset, commands[at[b]])
      /\ forwarding' = (forwarding \/ commands[at[b]] = EnableForwarding)
      /\ passing' = IF <<ruleset, forwarding>>' = <<ruleset, forwarding>> THEN passing ELSE Passing'
      /\ node' = node /\ commands' = commands /\ flows' = flows /\ lost' = lost
  BY DEF Run, given
<1>4. /\ Len(ran') = k + 1 /\ k \in Nat /\ at[b] = k + 1 /\ k + 1 <= Len(commands)
      /\ Len(commands) \in Nat /\ total' = total /\ ExecInv' /\ k + 1 \notin lost
  BY <1>1, <1>3, NextCommand
<1>5. OnTheWay(node, lost, E, k + 1, ruleset')
  <2>1. Built(ruleset, E, k)
    BY <1>2 DEF OnTheWay
  <2>2. PICK Q, x : Q = ruleset' /\ x = E[k + 1]
    OBVIOUS
  <2>3. Len(E) = Len(commands) /\ x = commands[k + 1]
    BY <2>2, <1>1, <1>4, KeptIs
  <2>4. CanExecute(ruleset, x) /\ Q = Execute(ruleset, x)
    BY <2>2, <2>3, <1>3, <1>4
  <2>5. Built(Q, E, k + 1)
    BY <2>1, <2>2, <2>4, <1>4, ExecuteBuilds
  <2> QED BY <2>2, <2>3, <2>5, <1>2, <1>4 DEF OnTheWay
<1>6. ASSUME NEW i \in 1 .. k + 1, commands[i] = EnableForwarding PROVE forwarding'
  <2>1. i \in 1 .. k \/ i = k + 1
    BY <1>4
  <2> QED BY <2>1, <1>2, <1>3, <1>4, <1>6
<1>7. passing' = Passing'
  <2>1. CASE <<ruleset, forwarding>>' = <<ruleset, forwarding>>
    <3>1. ruleset' = ruleset /\ forwarding' = forwarding /\ passing' = passing
      BY <2>1, <1>3
    <3> QED BY <3>1, <1>2 DEF Passing, Passes
  <2>2. CASE <<ruleset, forwarding>>' # <<ruleset, forwarding>>
    BY <2>2, <1>3
  <2> QED BY <2>1, <2>2
<1>8. NoneAside(node)'
  BY <1>2, <1>3 DEF NoneAside, Known
<1>9. \A i \in lost : i \in 1 .. k + 1
  BY <1>2, <1>4
<1>10. Kept(commands, lost)' = E
  BY <1>1, <1>3
<1>11. commands' = Commands(node')
  BY <1>2, <1>3
<1> QED BY <1>2, <1>3, <1>4, <1>5, <1>6, <1>7, <1>8, <1>9, <1>10, <1>11 DEF KernelInv

\* policy_firewall.py: a command is lost, and the kernel holds what the others build.
LEMMA FailUnnoticedKeeps ==
  ASSUME KernelInv, NEW b \in Bundles, FailUnnoticed(b)
  PROVE  KernelInv'
<1>1. PICK k, E, M, F :
        /\ k = Len(ran) /\ E = Kept(commands, lost)
        /\ M = lost \cup {at[b]} /\ F = Kept(commands, M)
  OBVIOUS
<1>2. /\ total = Len(commands) /\ commands = Commands(node)
      /\ \A i \in lost : i \in 1 .. k
      /\ OnTheWay(node, lost, E, k, ruleset)
      /\ \A i \in 1 .. k : commands[i] = EnableForwarding => forwarding
      /\ passing = Passing /\ NoneAside(node)
  BY <1>1 DEF KernelInv
<1>3. /\ RunCommand(b) /\ Hides(commands[at[b]]) /\ lost' = M
      /\ ruleset' = ruleset /\ forwarding' = forwarding /\ passing' = passing
      /\ node' = node /\ commands' = commands /\ flows' = flows
  BY <1>1 DEF FailUnnoticed, given
<1>4. /\ Len(ran') = k + 1 /\ k \in Nat /\ at[b] = k + 1 /\ k + 1 <= Len(commands)
      /\ Len(commands) \in Nat /\ total' = total /\ ExecInv' /\ k + 1 \notin lost
  BY <1>1, <1>3, NextCommand
<1>5. /\ Len(F) = Len(commands) /\ F[k + 1] = Other
      /\ \A i \in 1 .. k : F[i] = E[i]
  <2>1. /\ Len(F) = Len(commands)
        /\ \A i \in 1 .. Len(commands) : F[i] = IF i \in M THEN Other ELSE commands[i]
    BY <1>1, <1>4, KeptIs
  <2>2. \A i \in 1 .. Len(commands) : E[i] = IF i \in lost THEN Other ELSE commands[i]
    BY <1>1, <1>4, KeptIs
  <2>3. k + 1 \in 1 .. Len(commands) /\ k + 1 \in M
    BY <1>1, <1>4
  <2>4. \A i \in 1 .. k : i \in 1 .. Len(commands) /\ (i \in M <=> i \in lost)
    BY <1>1, <1>4
  <2> QED BY <2>1, <2>2, <2>3, <2>4
<1>6. OnTheWay(node, M, F, k + 1, ruleset)
  <2>1. Built(ruleset, F, k)
    <3>1. Built(ruleset, E, k)
      BY <1>2 DEF OnTheWay
    <3> QED BY <3>1, <1>4, <1>5, SameBuilt
  <2>2. CanExecute(ruleset, Other) /\ ruleset = Execute(ruleset, Other)
    BY DEF CanExecute, Execute, Other
  <2>3. PICK x, Q : x = F[k + 1] /\ Q = Execute(ruleset, x)
    OBVIOUS
  <2>4. Built(Q, F, k + 1)
    BY <2>1, <2>2, <2>3, <1>4, <1>5, ExecuteBuilds
  <2>5. Q = ruleset
    BY <2>2, <2>3, <1>5
  <2>6. \A i \in M : Hides(commands[i])
    BY <1>1, <1>2, <1>3 DEF OnTheWay
  <2> QED BY <2>4, <2>5, <2>6, <1>1, <1>2, <1>4, <1>5 DEF OnTheWay
<1>7. ASSUME NEW i \in 1 .. k + 1, commands[i] = EnableForwarding PROVE forwarding
  <2>1. ~Hides(EnableForwarding)
    BY DEF Hides, EnableForwarding
  <2>2. i \in 1 .. k \/ i = k + 1
    BY <1>4
  <2> QED BY <2>1, <2>2, <1>2, <1>3, <1>4, <1>7
<1>8. passing' = Passing' /\ NoneAside(node)'
  BY <1>2, <1>3 DEF Passing, Passes, NoneAside, Known
<1>9. \A i \in M : i \in 1 .. k + 1
  BY <1>1, <1>2, <1>4
<1>10. Kept(commands, lost)' = F
  BY <1>1, <1>3
<1>11. commands' = Commands(node')
  BY <1>2, <1>3
<1> QED BY <1>2, <1>3, <1>4, <1>6, <1>7, <1>8, <1>9, <1>10, <1>11 DEF KernelInv

\* Connections are those that pass.
LEMMA TrafficKeeps ==
  ASSUME KernelInv, Traffic
  PROVE  KernelInv'
<1>1. /\ Tracks(ruleset)
      /\ flows' = flows \cup {[packet |-> p, translated |-> Translates(ruleset, p)] :
                              p \in passing \ Known}
      /\ execVars' = execVars /\ node' = node /\ commands' = commands /\ ruleset' = ruleset
      /\ forwarding' = forwarding /\ passing' = passing /\ lost' = lost
  BY DEF Traffic, given
<1>2. ExecInv'
  BY <1>1, ExecSteps DEF KernelInv
<1>3. total' = total /\ ran' = ran
  BY <1>1 DEF execVars, progress
<1>4. Passing' = Passing
  BY <1>1 DEF Passing, Passes
<1>5. Known' \subseteq Known \cup passing
  BY <1>1 DEF Known
<1>6. ASSUME Wans(node) = <<>>, node.nat = {}, AllTight(node)
      PROVE  Known' \subseteq AllowedBy(node)
  <2>1. "fw" \in DOMAIN ruleset
    BY <1>1, <1>6, TracksLate DEF KernelInv
  <2>2. passing \subseteq AllowedBy(node)
    BY <2>1, <1>6, PassingAllowed
  <2>3. Known \subseteq AllowedBy(node)
    BY <1>6 DEF KernelInv, NoneAside
  <2> QED BY <2>2, <2>3, <1>5
<1>7. NoneAside(node)'
  BY <1>1, <1>6 DEF NoneAside
<1> QED BY <1>1, <1>2, <1>3, <1>4, <1>7 DEF KernelInv

\* A new network namespace: no command has run in it.
LEMMA RebootKeeps ==
  ASSUME KernelInv, Reboot
  PROVE  KernelInv'
<1>1. /\ Restart /\ ruleset' = NoRuleset /\ passing' = Passing' /\ flows' = {}
      /\ node' = node /\ commands' = commands /\ ran' = <<>> /\ total' = total /\ lost' = {}
  BY DEF Reboot, given, Restart
<1>2. ExecInv'
  BY <1>1, RestartStep DEF KernelInv
<1>3. Len(ran') = 0
  BY <1>1
<1>4. OnTheWay(node, {}, Kept(commands, {}), 0, ruleset')
  <2>1. Len(commands) \in Nat /\ commands = Commands(node)
    BY DEF KernelInv, ExecInv, ExecTypes
  <2>2. Len(Kept(commands, {})) \in Nat
    BY <2>1, KeptIs
  <2>3. Built(ruleset', Kept(commands, {}), 0)
    BY <1>1, NothingBuilt
  <2> QED BY <2>1, <2>2, <2>3 DEF KernelInv, OnTheWay
<1>5. NoneAside(node)'
  BY <1>1 DEF NoneAside, Known
<1>6. \A i \in 1 .. Len(ran') : commands'[i] = EnableForwarding => forwarding'
  BY <1>3
<1> QED BY <1>1, <1>2, <1>3, <1>4, <1>5, <1>6 DEF KernelInv

\* Whatever happens to a booting node, its kernel holds what its commands have built.
LEMMA KernelSteps ==
  ASSUME KernelInv, [Next]_vars
  PROVE  KernelInv'
<1>1. ASSUME NEW b \in Bundles, Script(b) \/ Fail(b)
      PROVE  KernelInv'
  <2>1. /\ Quiet(b) \/ CommandFails(b)
        /\ node' = node /\ commands' = commands /\ ruleset' = ruleset
        /\ forwarding' = forwarding /\ passing' = passing /\ flows' = flows /\ lost' = lost
    BY <1>1 DEF Script, Fail, given, network
  <2>2. ran' = ran /\ total' = total
    BY <2>1 DEF Quiet, StartBundle, SeeMarker, SeeNothing, StopWaiting, LeaveMarker, CommandFails
  <2>3. ExecInv'
    BY <2>1, QuietSteps DEF KernelInv
  <2>4. Passing' = Passing /\ (NoneAside(node)' <=> NoneAside(node))
    BY <2>1 DEF Passing, Passes, NoneAside, Known
  <2> QED BY <2>1, <2>2, <2>3, <2>4 DEF KernelInv
<1>2. CASE UNCHANGED vars
  <2>1. /\ execVars' = execVars /\ ran' = ran /\ total' = total
        /\ node' = node /\ commands' = commands /\ ruleset' = ruleset
        /\ forwarding' = forwarding /\ passing' = passing /\ flows' = flows /\ lost' = lost
    BY <1>2 DEF vars, given, network, execVars, progress
  <2>2. ExecInv'
    BY <2>1, ExecSteps DEF KernelInv
  <2>3. Passing' = Passing /\ (NoneAside(node)' <=> NoneAside(node))
    BY <2>1 DEF Passing, Passes, NoneAside, Known
  <2> QED BY <2>1, <2>2, <2>3 DEF KernelInv
<1> QED BY <1>1, <1>2, RunKeeps, FailUnnoticedKeeps, TrafficKeeps, RebootKeeps DEF Next, Boot

LEMMA AlwaysKernel == Spec => []KernelInv
<1>1. Init => KernelInv
  BY KernelStarts
<1>2. KernelInv /\ [Next]_vars => KernelInv'
  BY KernelSteps
<1> QED BY <1>1, <1>2, PTL DEF Spec

\* What TLC computes once is what the intent of the node says.
LEMMA MeantFacts ==
  ASSUME KernelInv
  PROVE  /\ node \in Nodes /\ Allowed = AllowedBy(node) /\ WanSet = ToSet(Wans(node))
         /\ (HasPolicy <=> "fw" \in DOMAIN ruleset /\ AllTight(node))
<1>1. node \in Nodes
  BY DEF KernelInv, OnTheWay
<1> QED BY <1>1, MeantIs DEF HasPolicy, AllTight

\* The packets that answer a connection are of an established one.
LEMMA AnswerIs ==
  ASSUME NEW p \in Packets, NEW q, q = Answer(p)
  PROVE  /\ q.iif = p.oif /\ q.oif = p.iif /\ q.ct = "established"
         /\ q.iif \in Interfaces /\ q.oif \in Interfaces /\ q.src \in Subnets /\ q.dst \in Subnets
         /\ q.svc \in Services
<1>1. /\ p.iif \in Interfaces /\ p.oif \in Interfaces /\ p.src \in Subnets /\ p.dst \in Subnets
      /\ p.svc \in Services
  BY PacketIs
<1>2. PICK svc : svc = IF p.svc[1] \in {"tcp", "udp"} THEN <<p.svc[1], High>> ELSE p.svc
  OBVIOUS
<1>3. svc \in Services
  <2>1. CASE p.svc[1] \in {"tcp", "udp"}
    <3>1. svc = <<"tcp", High>> \/ svc = <<"udp", High>>
      BY <1>2, <2>1
    <3> QED BY <3>1 DEF Services
  <2>2. CASE p.svc[1] \notin {"tcp", "udp"}
    BY <1>1, <1>2, <2>2
  <2> QED BY <2>1, <2>2
<1>4. p \in [iif : Interfaces, oif : Interfaces, src : Subnets, dst : Subnets,
             svc : {svcs \in Services : svcs[2] # High}, ct : {"new"}]
  BY PacketsAssumption
<1>5. q = [p EXCEPT !.iif = p.oif, !.oif = p.iif, !.src = p.dst, !.dst = p.src,
                    !.svc = svc, !.ct = "established"]
  BY <1>2 DEF Answer
<1>6. /\ q.iif = p.oif /\ q.oif = p.iif /\ q.src = p.dst /\ q.dst = p.src
      /\ q.svc = svc /\ q.ct = "established"
  BY <1>4, <1>5
<1> QED BY <1>1, <1>3, <1>6

\* The kernel of a node, at every point of its boot, against its intent.
LEMMA KernelOnlyAllowed ==
  ASSUME KernelInv
  PROVE  OnlyAllowedPasses /\ NothingOutlivesBoot
<1>1. OnlyAllowedPasses
  BY MeantFacts, PassingAllowed DEF OnlyAllowedPasses
<1>2. NothingOutlivesBoot
  <2> SUFFICES ASSUME HasPolicy, WanSet = {}, node.nat = {}
               PROVE  Known \subseteq Allowed
    BY DEF NothingOutlivesBoot
  <2>1. node \in Nodes /\ ToSet(Wans(node)) = {} /\ AllTight(node) /\ Allowed = AllowedBy(node)
    BY MeantFacts
  <2>2. Wans(node) = <<>>
    <3>1. PICK w : w = Wans(node)
      OBVIOUS
    <3>2. IsSequence(w) /\ ToSet(w) = {}
      BY <2>1, <3>1, WansAre
    <3>3. w \in Seq({})
      BY <3>2 DEF IsSequence
    <3>4. w = <<>>
      BY <3>3, EmptySeq
    <3> QED BY <3>1, <3>4
  <2> QED BY <2>1, <2>2 DEF KernelInv, NoneAside
<1> QED BY <1>1, <1>2

\* The kernel of a node that has run all commands, against its intent.
LEMMA KernelAllowed ==
  ASSUME KernelInv
  PROVE  AllowedPasses
<1> SUFFICES ASSUME Complete, HasPolicy, NEW p \in Allowed, ~Spoofed(p),
                    Management \notin {p.iif, p.oif}
             PROVE  p \in passing /\ (~AnswersLost => Passes(Answer(p)))
  BY DEF AllowedPasses
<1>1. PICK n, L, C, k, R :
        n = node /\ L = lost /\ C = Kept(commands, lost) /\ k = Len(ran) /\ R = ruleset
  OBVIOUS
<1>2. /\ OnTheWay(n, L, C, k, R) /\ k = Len(C) /\ "fw" \in DOMAIN R
      /\ \A r \in ToSet(n.rules) : Tight(r)
      /\ \A i \in 1 .. k : C[i] = EnableForwarding => forwarding
  <2>1. /\ Len(commands) \in Nat /\ Len(commands) = k
        /\ \A i \in 1 .. k : commands[i] = EnableForwarding => forwarding
    BY <1>1 DEF KernelInv, Complete, ExecInv, ExecTypes
  <2>2. /\ Len(C) = k
        /\ \A i \in 1 .. k : C[i] = IF i \in L THEN Other ELSE commands[i]
    BY <2>1, <1>1, KeptIs
  <2>3. Other # EnableForwarding
    BY DEF Other, EnableForwarding
  <2> QED BY <2>1, <2>2, <2>3, <1>1, MeantFacts DEF KernelInv, AllTight
<1>3. /\ n \in Nodes /\ p \in Packets /\ Accepted(n, p)
      /\ ~(p.iif \in ToSet(Wans(n)) /\ p.src \in Private)
  BY <1>1, MeantFacts DEF AllowedBy, Spoofed
<1>4. forwarding
  <2>1. ForwardingRules(n) # <<>>
    BY <1>2, WayFacts DEF FitsChain
  <2>2. EnableForwarding \in ToSet(Forwarding(n))
    BY <1>3, <2>1, PolicyForwards
  <2>3. \E i \in 1 .. k : C[i] = EnableForwarding
    <3>1. ~Hides(EnableForwarding)
      BY DEF Hides, EnableForwarding
    <3> QED BY <3>1, <1>2, <2>2, WayFacts
  <2> QED BY <1>2, <2>3
<1>5. p.ct = "new"
  BY <1>3, PacketIs
<1>6. Passes(p)
  <2>1. ChainVerdict(R["fw"], p) = "accept"
    BY <1>2, <1>3, FwComplete
  <2>2. "wan" \in DOMAIN R => ChainVerdict(R["wan"], p) = "accept"
    BY <1>2, <1>3, <1>5, OthersPass
  <2>3. "guard" \in DOMAIN R => ChainVerdict(R["guard"], p) = "accept"
    BY <1>2, OthersPass
  <2> QED BY <1>1, <1>4, <2>1, <2>2, <2>3 DEF Passes, Forwards, Accepts, ForwardHook
<1>7. p \in passing
  BY <1>3, <1>6 DEF KernelInv, Passing
<1>8. ASSUME ~AnswersLost PROVE Passes(Answer(p))
  <2>0. AnswersThere(n, L)
    BY <1>1, <1>8 DEF AnswersThere, AnswersLost, KernelInv
  <2>1. PICK q : q = Answer(p)
    OBVIOUS
  <2>2. /\ q.iif \in Interfaces /\ q.oif \in Interfaces /\ q.src \in Subnets /\ q.dst \in Subnets
        /\ q.svc \in Services /\ q.ct = "established" /\ q.oif # Management
    BY <1>3, <2>1, AnswerIs
  <2>3. \A c \in {"wan", "fw"} : c \in DOMAIN R => ChainVerdict(R[c], q) = "accept"
    BY <1>2, <2>0, <2>2, EstablishedPasses
  <2>4. "guard" \in DOMAIN R => ChainVerdict(R["guard"], q) = "accept"
    BY <1>2, <2>2, OthersPass
  <2> QED BY <1>1, <1>4, <2>1, <2>3, <2>4 DEF Passes, Forwards, Accepts, ForwardHook
<1> QED BY <1>7, <1>8

\* The connections that are opened, against the lists of the NAT intent.
LEMMA KernelTranslates ==
  ASSUME KernelInv, [Next]_vars
  PROVE  \A flow \in flows' \ flows :
            /\ flow.translated => Listed(flow.packet)
            /\ Complete /\ Listed(flow.packet) => flow.translated
<1>1. CASE Traffic
  <2> SUFFICES ASSUME NEW flow \in flows', flow \notin flows
               PROVE  /\ flow.translated => Listed(flow.packet)
                      /\ Complete /\ Listed(flow.packet) => flow.translated
    OBVIOUS
  <2>1. PICK p \in passing : flow = [packet |-> p, translated |-> Translates(ruleset, p)]
    BY <1>1 DEF Traffic
  <2>2. flow.packet = p /\ flow.translated = Translates(ruleset, p)
    BY <2>1
  <2>3. /\ p \in Packets /\ OnTheWay(node, lost, Kept(commands, lost), Len(ran), ruleset)
        /\ total = Len(commands) /\ Len(Kept(commands, lost)) = Len(commands)
    <3>1. Len(commands) \in Nat
      BY DEF KernelInv, ExecInv, ExecTypes
    <3> QED BY <3>1, <2>1, KeptIs DEF KernelInv, Passing
  <2>4. Listed(p) <=> ListedFor(node, p)
    BY DEF Listed, ListedFor, NatTargets
  <2>5. /\ Translates(ruleset, p) => ListedFor(node, p)
        /\ Len(ran) = Len(commands) /\ ListedFor(node, p) => Translates(ruleset, p)
    BY <2>3, TranslationIs
  <2> QED BY <2>2, <2>3, <2>4, <2>5 DEF Complete
<1>2. CASE ~Traffic
  <2>1. flows' = flows \/ flows' = {}
    BY <1>2 DEF Next, Boot, Script, Run, Fail, FailUnnoticed, Reboot, network, vars
  <2> QED BY <2>1
<1> QED BY <1>1, <1>2

\* policy_firewall.py, cpm_firewall_rules.py and EM/base.py: for every node and whatever its
\* rules, sessions, WANs and translations, from the moment the chain of the policy exists,
\* and however many of its rules have run, nothing opens a connection across the node but
\* what the first rule of the intent that covers it accepts.
THEOREM BootLetsOnlyAllowedPass == Spec => []OnlyAllowedPasses
<1>1. KernelInv => OnlyAllowedPasses
  BY KernelOnlyAllowed
<1> QED BY <1>1, AlwaysKernel, PTL

\* The chains of policy_firewall.py, firewall_wan.py and management_egress_guard.py
\* together: once the scripts have come to their end, whatever the intent accepts can be
\* opened, whichever of the commands with `|| true` have failed, and it is answered
\* unless the rule for answers is among these; packets with a private source from a WAN
\* and those that cross eth0 are left out.
THEOREM BootLetsAllowedPass == Spec => []AllowedPasses
<1>1. KernelInv => AllowedPasses
  BY KernelAllowed
<1> QED BY <1>1, AlwaysKernel, PTL

\* forwarding.py enables forwarding before policy_firewall.py closes the node: on a node
\* without WAN and translation, no connection that the intent does not accept is known to
\* the tracker when it does, nor afterwards.
THEOREM BootLeavesNothingAside == Spec => []NothingOutlivesBoot
<1>1. KernelInv => NothingOutlivesBoot
  BY KernelOnlyAllowed
<1> QED BY <1>1, AlwaysKernel, PTL

\* nat.py and firewall_wan.py add rules to the same chains: a connection is translated only
\* if source, family and interface are listed, and once all commands have run, if they are.
THEOREM BootTranslatesAsListed == Spec => TranslatedAsListed
<1>1. KernelInv /\ [Next]_vars =>
        [\A flow \in flows' \ flows :
            /\ flow.translated => Listed(flow.packet)
            /\ Complete /\ Listed(flow.packet) => flow.translated]_vars
  BY KernelTranslates
<1> QED BY <1>1, AlwaysKernel, PTL DEF Spec, TranslatedAsListed

\* What the scripts count stays in its bounds.
Within ==
    /\ waited \in [Bundles -> 0 .. Waits]
    /\ \A b \in Bundles : at[b] \in BeginOf(b) .. EndOf(b) + 1
    /\ forwarding \in BOOLEAN /\ inherited \in BOOLEAN /\ Known \subseteq Packets

LEMMA WithinSteps ==
  ASSUME KernelInv, Within, [Next]_vars
  PROVE  Within'
<1>1. /\ ExecInv /\ total \in Nat /\ at \in [Bundles -> Nat] /\ passing = Passing
  BY DEF KernelInv, ExecInv, ExecTypes
<1>2. total' = total
  BY DEF Next, Boot, Script, Run, Fail, FailUnnoticed, Traffic, Reboot, vars, Quiet, StartBundle, SeeMarker,
         SeeNothing, StopWaiting, LeaveMarker, RunCommand, CommandFails, Restart, execVars
<1>3. /\ Bundles' = Bundles
      /\ \A c : BeginOf(c)' = BeginOf(c) /\ EndOf(c)' = EndOf(c)
  BY <1>2, SameCuts
<1>4. \A b \in Bundles : /\ BeginOf(b) \in Nat /\ EndOf(b) \in Nat
                         /\ BeginOf(b) \in BeginOf(b) .. EndOf(b) + 1
  BY <1>1, Cuts
<1>5. waited' \in [Bundles -> 0 .. Waits]
  <2>1. CASE waited' = waited
    BY <2>1 DEF Within
  <2>2. ASSUME NEW b \in Bundles, SeeNothing(b) PROVE waited' \in [Bundles -> 0 .. Waits]
    <3>1. waited[b] + 1 \in 0 .. Waits
      BY <2>2, WaitsAssumption DEF SeeNothing, Within
    <3> QED BY <3>1, <2>2 DEF SeeNothing, Within
  <2>3. CASE Restart
    BY <2>3, WaitsAssumption DEF Restart
  <2>4. waited' = waited \/ Restart \/ \E b \in Bundles : SeeNothing(b)
    BY DEF Next, Boot, Script, Run, Fail, FailUnnoticed, Traffic, Reboot, vars, Quiet, StartBundle, SeeMarker,
           StopWaiting, LeaveMarker, RunCommand, CommandFails, execVars, progress
  <2> QED BY <2>1, <2>2, <2>3, <2>4
<1>6. ASSUME NEW c \in Bundles PROVE at'[c] \in BeginOf(c) .. EndOf(c) + 1
  <2>1. CASE at' = at
    BY <2>1 DEF Within
  <2>2. ASSUME NEW b \in Bundles, RunCommand(b) PROVE at'[c] \in BeginOf(c) .. EndOf(c) + 1
    <3>1. /\ at[b] <= EndOf(b) /\ at' = [at EXCEPT ![b] = @ + 1]
      BY <2>2 DEF RunCommand
    <3>2. CASE c = b
      BY <3>1, <3>2, <1>1, <1>4 DEF Within
    <3>3. CASE c # b
      BY <3>1, <3>3, <1>1 DEF Within
    <3> QED BY <3>2, <3>3
  <2>3. CASE Restart
    BY <2>3, <1>4 DEF Restart
  <2>4. at' = at \/ Restart \/ \E b \in Bundles : RunCommand(b)
    BY DEF Next, Boot, Script, Run, Fail, FailUnnoticed, Traffic, Reboot, vars, Quiet, StartBundle, SeeMarker,
           SeeNothing, StopWaiting, LeaveMarker, CommandFails, execVars, progress
  <2> QED BY <2>1, <2>2, <2>3, <2>4
<1>7. forwarding' \in BOOLEAN /\ inherited' \in BOOLEAN
  <2>1. forwarding \in BOOLEAN /\ inherited \in BOOLEAN
    BY DEF Within
  <2>2. inherited' = inherited
    BY DEF Next, Boot, Script, Run, Fail, FailUnnoticed, Traffic, Reboot, vars, given
  <2>3. ASSUME NEW b \in Bundles, Run(b) PROVE forwarding' \in BOOLEAN
    BY <2>3 DEF Run
  <2>4. forwarding' = forwarding \/ forwarding' = inherited \/ \E b \in Bundles : Run(b)
    BY DEF Next, Boot, Script, Fail, FailUnnoticed, Traffic, Reboot, vars, network
  <2> QED BY <2>1, <2>2, <2>3, <2>4
<1>8. Known' \subseteq Packets
  <2>1. CASE Traffic
    <3>1. flows' = flows \cup {[packet |-> p, translated |-> Translates(ruleset, p)] :
                               p \in passing \ Known}
      BY <2>1 DEF Traffic
    <3>2. Known' \subseteq Known \cup passing
      BY <3>1 DEF Known
    <3> QED BY <3>2, <1>1 DEF Within, Passing
  <2>2. CASE ~Traffic
    <3>1. flows' = flows \/ flows' = {}
      BY <2>2 DEF Next, Boot, Script, Run, Fail, FailUnnoticed, Reboot, network, vars
    <3> QED BY <3>1 DEF Within, Known
  <2> QED BY <2>1, <2>2
<1> QED BY <1>3, <1>5, <1>6, <1>7, <1>8 DEF Within

LEMMA WithinStarts ==
  ASSUME Init
  PROVE  Within
<1>1. total \in Nat
  BY CommandsCounted DEF Init
<1>2. \A b \in Bundles : BeginOf(b) \in BeginOf(b) .. EndOf(b) + 1
  BY <1>1, Cuts
<1> QED BY <1>1, <1>2, WaitsAssumption DEF Init, ExecInit, Within, Known

\* The scripts and the kernel keep to their values, and only chains of the renderer
\* are ever there.
THEOREM BootTypes == Spec => []TypeOK
<1>1. Init => Within
  BY WithinStarts
<1>2. KernelInv /\ Within /\ [Next]_vars => Within'
  BY WithinSteps
<1>3. KernelInv /\ Within => TypeOK
  <2> SUFFICES ASSUME KernelInv, Within PROVE TypeOK
    OBVIOUS
  <2>1. /\ node \in Nodes /\ total = Len(commands)
        /\ OnTheWay(node, lost, Kept(commands, lost), Len(ran), ruleset)
        /\ lost \subseteq 1 .. total
        /\ life \in 1 .. Lives /\ pc \in [Bundles -> PCs]
    <3>1. /\ node \in Nodes /\ total = Len(commands)
          /\ OnTheWay(node, lost, Kept(commands, lost), Len(ran), ruleset)
          /\ life \in 1 .. Lives /\ pc \in [Bundles -> PCs]
      BY DEF KernelInv, OnTheWay, ExecInv, ExecTypes
    <3>2. Len(ran) <= total /\ Len(ran) \in Nat /\ total \in Nat
      <4>1. Len(commands) \in Nat
        BY DEF KernelInv, ExecInv, ExecTypes
      <4>2. Len(Kept(commands, lost)) = Len(commands)
        BY <4>1, KeptIs
      <4> QED BY <3>1, <4>1, <4>2 DEF OnTheWay
    <3>3. lost \subseteq 1 .. total
      BY <3>2 DEF KernelInv
    <3> QED BY <3>1, <3>3
  <2>2. DOMAIN ruleset \subseteq Chains
    BY <2>1, WayFacts DEF FitsChain
  <2> QED BY <2>1, <2>2 DEF TypeOK, Within, PCs
<1> QED BY <1>1, <1>2, <1>3, AlwaysKernel, PTL DEF Spec
=============================================================================
