------------------------------ MODULE ListLemmas ------------------------------
(***************************************************************************)
(* Lemmas about numbers, recursive functions and the operators of ListOps. *)
(***************************************************************************)
EXTENDS ListOps, Integers, FiniteSetTheorems, WellFoundedInduction, TLAPS

LEMMA Least ==
  ASSUME NEW S, S \subseteq Nat, S # {}
  PROVE  \E n \in S : \A m \in S : n <= m
<1> DEFINE R == OpToRel(<, Nat)
<1>1. IsWellFoundedOn(R, Nat)
  BY NatLessThanWellFounded
<1>2. \A x, y \in Nat : <<y, x>> \in R <=> y < x
  BY DEF OpToRel
<1> HIDE DEF R
<1>3. PICK n \in S : \A m \in S : <<m, n>> \notin R
  BY <1>1, WFMin
<1>4. \A m \in S : n \in Nat /\ m \in Nat /\ ~(m < n)
  BY <1>2, <1>3
<1>5. \A m \in S : n <= m
  BY <1>4
<1> QED BY <1>5

LEMMA Induction ==
  ASSUME NEW N \in Nat, NEW S, 0 \in S, \A i \in 1 .. N : i - 1 \in S => i \in S
  PROVE  \A i \in 0 .. N : i \in S
<1> SUFFICES ASSUME NEW k \in 0 .. N, k \notin S PROVE FALSE
  OBVIOUS
<1> DEFINE Out == {i \in 0 .. N : i \notin S}
<1>1. PICK n \in Out : \A m \in Out : n <= m
  <2>1. Out \subseteq Nat /\ k \in Out
    OBVIOUS
  <2> HIDE DEF Out
  <2> QED BY <2>1, Least
<1>2. n \in 0 .. N /\ n # 0 /\ n \notin S
  BY <1>1
<1>3. n \in 1 .. N /\ n - 1 \in 0 .. N /\ ~(n <= n - 1)
  BY <1>2
<1>4. n - 1 \in S
  BY <1>1, <1>3
<1> QED BY <1>2, <1>3, <1>4

\* What is defined step by step is there.
LEMMA Recursion ==
  ASSUME NEW V, NEW base \in V, NEW n \in Nat, NEW step \in [1 .. n -> [V -> V]]
  PROVE  \E f \in [0 .. n -> V] :
             f[0] = base /\ \A i \in 1 .. n : f[i] = step[i][f[i - 1]]
<1> DEFINE Good(k, f) == f = [i \in 0 .. k |-> IF i = 0 THEN base ELSE step[i][f[i - 1]]]
           S == {k \in 0 .. n : \E f \in [0 .. k -> V] : Good(k, f)}
<1>1. 0 \in S
  <2> DEFINE f == [i \in 0 .. 0 |-> base]
  <2>1. f \in [0 .. 0 -> V] /\ Good(0, f)
    OBVIOUS
  <2>2. 0 \in 0 .. n
    OBVIOUS
  <2> QED BY <2>1, <2>2
<1>2. ASSUME NEW k \in 1 .. n, k - 1 \in S PROVE k \in S
  <2>1. PICK f \in [0 .. k - 1 -> V] : Good(k - 1, f)
    BY <1>2
  <2> DEFINE g == [i \in 0 .. k |-> IF i = k THEN step[k][f[k - 1]] ELSE f[i]]
  <2>2. k - 1 \in 0 .. k - 1 /\ k - 1 # k /\ k # 0
    OBVIOUS
  <2>3. step[k][f[k - 1]] \in V
    BY <2>2
  <2>4. \A i \in 0 .. k : i # k => i \in 0 .. k - 1
    OBVIOUS
  <2>5. g \in [0 .. k -> V]
    BY <2>3, <2>4
  <2>6. ASSUME NEW i \in 0 .. k PROVE g[i] = IF i = 0 THEN base ELSE step[i][g[i - 1]]
    <3>1. CASE i = k
      BY <2>2, <3>1
    <3>2. CASE i # k
      <4>1. i \in 0 .. k - 1 /\ g[i] = f[i]
        BY <3>2
      <4>2. f[i] = IF i = 0 THEN base ELSE step[i][f[i - 1]]
        BY <2>1, <4>1
      <4>3. i # 0 => i - 1 \in 0 .. k /\ i - 1 # k
        BY <4>1
      <4> QED BY <4>1, <4>2, <4>3
    <3> QED BY <3>1, <3>2
  <2>7. Good(k, g)
    <3>1. g = [i \in 0 .. k |-> g[i]]
      OBVIOUS
    <3> HIDE DEF g
    <3> QED BY <2>6, <3>1
  <2>8. k \in 0 .. n
    OBVIOUS
  <2> HIDE DEF Good, g
  <2> QED BY <2>5, <2>7, <2>8
<1>3. n \in S
  <2> HIDE DEF S
  <2>1. n \in 0 .. n
    OBVIOUS
  <2> QED BY <1>1, <1>2, <2>1, Induction
<1>4. PICK f \in [0 .. n -> V] : Good(n, f)
  BY <1>3
<1>5. \A i \in 1 .. n : i \in 0 .. n /\ i # 0
  OBVIOUS
<1>6. f[0] = base /\ \A i \in 1 .. n : f[i] = step[i][f[i - 1]]
  BY <1>4, <1>5
<1> QED BY <1>6

LEMMA InToSet ==
  ASSUME NEW U, NEW s \in Seq(U)
  PROVE  \A x : x \in ToSet(s) <=> \E k \in 1 .. Len(s) : s[k] = x
<1>1. DOMAIN s = 1 .. Len(s)
  OBVIOUS
<1> QED BY <1>1 DEF ToSet

LEMMA KeepFacts ==
  ASSUME NEW U, NEW s \in Seq(U), NEW T
  PROVE  /\ Keep(s, T) \in Seq(U)
         /\ ToSet(Keep(s, T)) = ToSet(s) \cap T
         /\ (\A i, j \in 1 .. Len(s) : s[i] = s[j] => i = j)
            => \A i, j \in 1 .. Len(Keep(s, T)) : Keep(s, T)[i] = Keep(s, T)[j] => i = j
<1>0. PICK n \in Nat : n = Len(s)
  OBVIOUS
<1> DEFINE V == Seq(U)
           More(i, r) == IF s[i] \in T THEN Append(r, s[i]) ELSE r
           step == [i \in 1 .. n |-> [r \in V |-> More(i, r)]]
           Kept(f) == f = [i \in 0 .. n |-> IF i = 0 THEN <<>> ELSE More(i, f[i - 1])]
<1>1. n \in Nat /\ <<>> \in V /\ \A i \in 1 .. n : s[i] \in U
  BY <1>0
<1>2. \A i \in 1 .. n, r \in V : More(i, r) \in V
  BY <1>1
<1>3. Keep(s, T) = (CHOOSE g : Kept(g))[n]
  BY <1>0 DEF Keep
<1> HIDE DEF V, More
<1>4. step \in [1 .. n -> [V -> V]] /\ \A i \in 1 .. n, r \in V : step[i][r] = More(i, r)
  BY <1>2
<1> HIDE DEF step
<1>5. PICK f \in [0 .. n -> V] :
          f[0] = <<>> /\ \A i \in 1 .. n : f[i] = step[i][f[i - 1]]
  <2>1. PICK W, m, none, st : W = V /\ m = n /\ none = <<>> /\ st = step
    OBVIOUS
  <2>2. m \in Nat /\ none \in W /\ st \in [1 .. m -> [W -> W]]
    BY <1>1, <1>4, <2>1
  <2>3. \E f \in [0 .. m -> W] :
            f[0] = none /\ \A i \in 1 .. m : f[i] = st[i][f[i - 1]]
    BY ONLY <2>2, Recursion, SMTT(30)
  <2> QED BY <2>1, <2>3
<1>6. \A i \in 1 .. n : i \in 0 .. n /\ i # 0 /\ i - 1 \in 0 .. n
  BY <1>1
<1>7. Kept(f)
  <2>1. \A i \in 0 .. n : f[i] = IF i = 0 THEN <<>> ELSE More(i, f[i - 1])
    <3> SUFFICES ASSUME NEW i \in 0 .. n
                 PROVE  f[i] = IF i = 0 THEN <<>> ELSE More(i, f[i - 1])
      OBVIOUS
    <3>1. CASE i = 0
      BY <1>5, <3>1
    <3>2. CASE i \in 1 .. n
      <4>1. f[i - 1] \in V /\ f[i] = step[i][f[i - 1]] /\ i # 0
        BY <1>5, <1>6, <3>2
      <4> QED BY <1>4, <3>2, <4>1
    <3> QED BY <1>1, <3>1, <3>2
  <2>2. f = [i \in 0 .. n |-> f[i]]
    OBVIOUS
  <2> QED BY <2>1, <2>2
<1>8. PICK g : g = (CHOOSE h : Kept(h)) /\ Kept(g)
  <2> HIDE DEF Kept
  <2> QED BY <1>7
<1>9. /\ g[0] = <<>>
      /\ \A i \in 1 .. n : g[i] = More(i, g[i - 1])
      /\ g = [i \in 0 .. n |-> g[i]]
  <2>1. g = [i \in 0 .. n |-> IF i = 0 THEN <<>> ELSE More(i, g[i - 1])]
    BY <1>8
  <2>2. 0 \in 0 .. n
    BY <1>1
  <2>3. \A i \in 1 .. n : g[i] = More(i, g[i - 1])
    BY <1>6, <2>1
  <2>4. g[0] = <<>>
    BY <2>1, <2>2
  <2>5. g = [i \in 0 .. n |-> g[i]]
    BY <2>1
  <2> QED BY <2>3, <2>4, <2>5
<1>10. \A i \in 0 .. n : g[i] \in V
  <2> DEFINE S == {i \in 0 .. n : g[i] \in V}
  <2>1. 0 \in S
    BY <1>1, <1>9
  <2>2. ASSUME NEW i \in 1 .. n, i - 1 \in S PROVE i \in S
    BY <1>2, <1>6, <1>9, <2>2
  <2> HIDE DEF S
  <2>3. \A i \in 0 .. n : i \in S
    BY <1>1, <2>1, <2>2, Induction
  <2> QED BY <2>3 DEF S
<1>11. g \in [0 .. n -> V] /\ Keep(s, T) = g[n]
  BY <1>3, <1>8, <1>9, <1>10
<1>12. PICK kept \in [0 .. n -> Seq(U)] :
           /\ Keep(s, T) = kept[n]
           /\ kept[0] = <<>>
           /\ \A i \in 1 .. n :
                  kept[i] = IF s[i] \in T THEN Append(kept[i - 1], s[i]) ELSE kept[i - 1]
  BY <1>9, <1>11 DEF V, More
<1> DEFINE From(i) == \A k \in 1 .. Len(kept[i]) : \E j \in 1 .. i : s[j] \in T /\ kept[i][k] = s[j]
           All(i) == \A j \in 1 .. i : s[j] \in T => \E k \in 1 .. Len(kept[i]) : kept[i][k] = s[j]
           Once(i) == \A k, l \in 1 .. Len(kept[i]) : kept[i][k] = kept[i][l] => k = l
           Single == \A i, j \in 1 .. n : s[i] = s[j] => i = j
           S == {i \in 0 .. n : From(i) /\ All(i) /\ (Single => Once(i))}
<1>14. 0 \in S
  BY <1>12, <1>0
<1>15. ASSUME NEW i \in 1 .. n, i - 1 \in S PROVE i \in S
  <2>1. /\ kept[i - 1] \in Seq(U) /\ kept[i] \in Seq(U) /\ i \in 0 .. n
        /\ kept[i] = IF s[i] \in T THEN Append(kept[i - 1], s[i]) ELSE kept[i - 1]
    <3>1. i \in 1 .. Len(s) /\ i \in 0 .. Len(s) /\ i - 1 \in 0 .. Len(s)
      BY <1>0
    <3> QED BY <1>12, <1>0, <3>1
  <2>2. From(i - 1) /\ All(i - 1) /\ (Single => Once(i - 1))
    BY <1>15
  <2>3. \A j \in 1 .. i : j = i \/ j \in 1 .. i - 1
    OBVIOUS
  <2>4. CASE s[i] \in T
    <3>1. /\ Len(kept[i]) = Len(kept[i - 1]) + 1
          /\ Len(kept[i - 1]) \in Nat
          /\ kept[i][Len(kept[i])] = s[i]
          /\ \A k \in 1 .. Len(kept[i - 1]) : kept[i][k] = kept[i - 1][k]
      BY <2>1, <2>4
    <3>2. \A k \in 1 .. Len(kept[i]) : k = Len(kept[i]) \/ k \in 1 .. Len(kept[i - 1])
      BY <3>1
    <3>3. From(i)
      <4> SUFFICES ASSUME NEW k \in 1 .. Len(kept[i])
                   PROVE  \E j \in 1 .. i : s[j] \in T /\ kept[i][k] = s[j]
        OBVIOUS
      <4>1. CASE k = Len(kept[i])
        BY <2>4, <3>1, <4>1
      <4>2. CASE k \in 1 .. Len(kept[i - 1])
        <5>1. PICK j \in 1 .. i - 1 : s[j] \in T /\ kept[i - 1][k] = s[j]
          BY <2>2, <4>2
        <5>2. j \in 1 .. i
          OBVIOUS
        <5>3. kept[i][k] = kept[i - 1][k]
          BY <3>1, <4>2
        <5> QED BY <5>1, <5>2, <5>3
      <4> QED BY <3>2, <4>1, <4>2
    <3>4. All(i)
      <4> SUFFICES ASSUME NEW j \in 1 .. i, s[j] \in T
                   PROVE  \E k \in 1 .. Len(kept[i]) : kept[i][k] = s[j]
        OBVIOUS
      <4>1. CASE j = i
        <5>1. Len(kept[i]) \in 1 .. Len(kept[i]) /\ kept[i][Len(kept[i])] = s[j]
          BY <3>1, <4>1
        <5> QED BY <5>1
      <4>2. CASE j \in 1 .. i - 1
        <5>1. PICK k \in 1 .. Len(kept[i - 1]) : kept[i - 1][k] = s[j]
          BY <2>2, <4>2
        <5>2. k \in 1 .. Len(kept[i]) /\ kept[i][k] = s[j]
          BY <3>1, <5>1
        <5> QED BY <5>2
      <4> QED BY <2>3, <4>1, <4>2
    <3>5. ASSUME Single PROVE Once(i)
      <4>1. \A k \in 1 .. Len(kept[i - 1]) : kept[i][k] # s[i]
        <5> SUFFICES ASSUME NEW k \in 1 .. Len(kept[i - 1]), kept[i][k] = s[i] PROVE FALSE
          OBVIOUS
        <5>1. PICK j \in 1 .. i - 1 : kept[i - 1][k] = s[j]
          BY <2>2
        <5>2. s[j] = s[i] /\ j \in 1 .. n /\ j # i
          BY <3>1, <5>1
        <5> QED BY <3>5, <5>2
      <4> SUFFICES ASSUME NEW k \in 1 .. Len(kept[i]), NEW l \in 1 .. Len(kept[i]),
                          kept[i][k] = kept[i][l]
                   PROVE  k = l
        OBVIOUS
      <4>2. CASE k \in 1 .. Len(kept[i - 1]) /\ l \in 1 .. Len(kept[i - 1])
        BY <2>2, <3>1, <3>5, <4>2
      <4>3. CASE k = Len(kept[i])
        BY <3>1, <3>2, <4>1, <4>3
      <4>4. CASE l = Len(kept[i])
        BY <3>1, <3>2, <4>1, <4>4
      <4> QED BY <3>2, <4>2, <4>3, <4>4
    <3> QED BY <2>1, <3>3, <3>4, <3>5
  <2>5. CASE s[i] \notin T
    <3>1. kept[i] = kept[i - 1]
      BY <2>1, <2>5
    <3>2. From(i)
      <4> SUFFICES ASSUME NEW k \in 1 .. Len(kept[i])
                   PROVE  \E j \in 1 .. i : s[j] \in T /\ kept[i][k] = s[j]
        OBVIOUS
      <4>1. PICK j \in 1 .. i - 1 : s[j] \in T /\ kept[i - 1][k] = s[j]
        BY <2>2, <3>1
      <4>2. j \in 1 .. i /\ s[j] \in T /\ kept[i][k] = s[j]
        BY <3>1, <4>1
      <4> QED BY <4>2
    <3>3. All(i)
      BY <2>2, <2>3, <2>5, <3>1
    <3> QED BY <2>1, <2>2, <3>1, <3>2, <3>3
  <2> QED BY <2>4, <2>5
<1>16. n \in S
  <2> HIDE DEF S
  <2>1. \A i \in 0 .. n : i \in S
    BY <1>14, <1>15, Induction
  <2> QED BY <2>1
<1>17. kept[n] \in Seq(U) /\ Keep(s, T) = kept[n]
  BY <1>12, <1>0
<1>18. \A x : x \in ToSet(kept[n]) <=> x \in ToSet(s) /\ x \in T
  <2>1. From(n) /\ All(n)
    BY <1>16
  <2>2. \A x : x \in ToSet(kept[n]) <=> \E k \in 1 .. Len(kept[n]) : kept[n][k] = x
    BY <1>17, InToSet
  <2>3. \A x : x \in ToSet(s) <=> \E j \in 1 .. n : s[j] = x
    BY <1>0, InToSet
  <2> SUFFICES ASSUME NEW x
               PROVE  x \in ToSet(kept[n]) <=> x \in ToSet(s) /\ x \in T
    OBVIOUS
  <2>4. ASSUME x \in ToSet(kept[n]) PROVE x \in ToSet(s) /\ x \in T
    <3>1. PICK k \in 1 .. Len(kept[n]) : kept[n][k] = x
      BY <2>2, <2>4
    <3>2. PICK j \in 1 .. n : s[j] \in T /\ kept[n][k] = s[j]
      BY <2>1
    <3> QED BY <2>3, <3>1, <3>2
  <2>5. ASSUME x \in ToSet(s), x \in T PROVE x \in ToSet(kept[n])
    <3>1. PICK j \in 1 .. n : s[j] = x
      BY <2>3, <2>5
    <3>2. PICK k \in 1 .. Len(kept[n]) : kept[n][k] = s[j]
      BY <2>1, <2>5, <3>1
    <3> QED BY <2>2, <3>1, <3>2
  <2> QED BY <2>4, <2>5
<1> QED BY <1>0, <1>16, <1>17, <1>18

LEMMA SequenceIs ==
  ASSUME NEW U, NEW s \in Seq(U)
  PROVE  IsSequence(s)
<1>1. \A i \in 1 .. Len(s) : s[i] \in ToSet(s)
  BY InToSet
<1>2. s = [i \in 1 .. Len(s) |-> s[i]] /\ Len(s) \in Nat
  OBVIOUS
<1> HIDE DEF ToSet
<1>3. s \in Seq(ToSet(s))
  BY <1>1, <1>2
<1> QED BY <1>3 DEF IsSequence

LEMMA JoinIs ==
  ASSUME NEW s, NEW t, IsSequence(s), IsSequence(t)
  PROVE  IsSequence(s \o t) /\ ToSet(s \o t) = ToSet(s) \cup ToSet(t)
<1> DEFINE U == ToSet(s) \cup ToSet(t)
<1>1. s \in Seq(U) /\ t \in Seq(U)
  <2>1. s \in Seq(ToSet(s)) /\ t \in Seq(ToSet(t))
    BY DEF IsSequence
  <2>2. ToSet(s) \subseteq U /\ ToSet(t) \subseteq U
    OBVIOUS
  <2> HIDE DEF U
  <2> QED BY <2>1, <2>2
<1> HIDE DEF U
<1>2. /\ s \o t \in Seq(U) /\ Len(s) \in Nat /\ Len(t) \in Nat
      /\ Len(s \o t) = Len(s) + Len(t)
      /\ \A i \in 1 .. Len(s) : (s \o t)[i] = s[i]
      /\ \A i \in 1 .. Len(t) : (s \o t)[Len(s) + i] = t[i]
  BY <1>1
<1>3. ASSUME NEW x \in ToSet(s \o t) PROVE x \in ToSet(s) \cup ToSet(t)
  <2>1. PICK k \in 1 .. Len(s \o t) : (s \o t)[k] = x
    BY <1>2, <1>3, InToSet
  <2>2. CASE k \in 1 .. Len(s)
    <3>1. s[k] = x
      BY <1>2, <2>1, <2>2
    <3>2. x \in ToSet(s)
      BY <1>1, <2>2, <3>1, InToSet
    <3> QED BY <3>2
  <2>3. CASE k \notin 1 .. Len(s)
    <3>1. k - Len(s) \in 1 .. Len(t) /\ k = Len(s) + (k - Len(s))
      BY <1>2, <2>3
    <3>2. t[k - Len(s)] = x
      BY <1>2, <2>1, <3>1
    <3>3. x \in ToSet(t)
      BY <1>1, <3>1, <3>2, InToSet
    <3> QED BY <3>3
  <2> QED BY <2>2, <2>3
<1>4. ASSUME NEW x \in ToSet(s) PROVE x \in ToSet(s \o t)
  <2>1. PICK k \in 1 .. Len(s) : s[k] = x
    BY <1>1, <1>4, InToSet
  <2>2. k \in 1 .. Len(s \o t) /\ (s \o t)[k] = x
    BY <1>2, <2>1
  <2> QED BY <1>2, <2>2, InToSet
<1>5. ASSUME NEW x \in ToSet(t) PROVE x \in ToSet(s \o t)
  <2>1. PICK k \in 1 .. Len(t) : t[k] = x
    BY <1>1, <1>5, InToSet
  <2>2. Len(s) + k \in 1 .. Len(s \o t) /\ (s \o t)[Len(s) + k] = x
    BY <1>2, <2>1
  <2> QED BY <1>2, <2>2, InToSet
<1>6. IsSequence(s \o t)
  BY <1>2, SequenceIs
<1> QED BY <1>3, <1>4, <1>5, <1>6

LEMMA EachIs ==
  ASSUME NEW s, IsSequence(s), NEW e, e = [i \in DOMAIN s |-> e[i]]
  PROVE  IsSequence(e) /\ \A x : x \in ToSet(e) <=> \E i \in 1 .. Len(s) : x = e[i]
<1>1. DOMAIN s = 1 .. Len(s) /\ Len(s) \in Nat
  BY DEF IsSequence
<1>2. PICK U : U = {e[i] : i \in 1 .. Len(s)}
  OBVIOUS
<1>3. e \in Seq(U) /\ Len(e) = Len(s)
  <2>1. \A i \in 1 .. Len(s) : e[i] \in U
    BY <1>2
  <2>2. e \in [1 .. Len(s) -> U]
    BY <1>1, <2>1
  <2> QED BY <1>1, <2>2
<1>4. IsSequence(e)
  BY <1>3, SequenceIs
<1>5. \A x : x \in ToSet(e) <=> \E i \in 1 .. Len(e) : e[i] = x
  BY <1>3, InToSet
<1> QED BY <1>3, <1>4, <1>5

\* What stands before a place of a sequence.
Before(s, i) == {s[j] : j \in 1 .. i - 1}
\* A place of s that shows a place of t, after all that stands before that one.
Shows(s, i, t) == \E j \in 1 .. Len(t) : s[i] = t[j] /\ Before(t, j) \subseteq Before(s, i)

\* The elements of the concatenation are those of the sequences, in their order,
\* and before an element of one stand all those of the sequences before it.
LEMMA ConcatFacts ==
  ASSUME NEW U, NEW ss \in Seq(Seq(U))
  PROVE  /\ Concat(ss) \in Seq(U)
         /\ \A k \in 1 .. Len(ss) : ToSet(ss[k]) \subseteq ToSet(Concat(ss))
         /\ \A i \in 1 .. Len(Concat(ss)) :
                \E k \in 1 .. Len(ss) :
                    /\ Concat(ss)[i] \in ToSet(ss[k]) /\ Shows(Concat(ss), i, ss[k])
                    /\ \A l \in 1 .. k - 1 : ToSet(ss[l]) \subseteq Before(Concat(ss), i)
<1>0. PICK n \in Nat : n = Len(ss)
  OBVIOUS
<1> DEFINE V == Seq(U)
           step == [i \in 1 .. n |-> [r \in V |-> r \o ss[i]]]
           UpTo(f) == f = [i \in 0 .. n |-> IF i = 0 THEN <<>> ELSE f[i - 1] \o ss[i]]
<1>1. n \in Nat /\ <<>> \in V /\ \A i \in 1 .. n : ss[i] \in V
  BY <1>0
<1>2. \A i \in 1 .. n, r \in V : r \o ss[i] \in V
  BY <1>1
<1>3. Concat(ss) = (CHOOSE g : UpTo(g))[n]
  BY <1>0 DEF Concat
<1> HIDE DEF V
<1>4. step \in [1 .. n -> [V -> V]] /\ \A i \in 1 .. n, r \in V : step[i][r] = r \o ss[i]
  BY <1>2
<1> HIDE DEF step
<1>5. PICK f \in [0 .. n -> V] :
          f[0] = <<>> /\ \A i \in 1 .. n : f[i] = step[i][f[i - 1]]
  <2>1. PICK W, m, none, st : W = V /\ m = n /\ none = <<>> /\ st = step
    OBVIOUS
  <2>2. m \in Nat /\ none \in W /\ st \in [1 .. m -> [W -> W]]
    BY <1>1, <1>4, <2>1
  <2>3. \E f \in [0 .. m -> W] :
            f[0] = none /\ \A i \in 1 .. m : f[i] = st[i][f[i - 1]]
    BY ONLY <2>2, Recursion, SMTT(30)
  <2> QED BY <2>1, <2>3
<1>6. \A i \in 1 .. n : i \in 0 .. n /\ i # 0 /\ i - 1 \in 0 .. n
  BY <1>1
<1>7. UpTo(f)
  <2>1. \A i \in 0 .. n : f[i] = IF i = 0 THEN <<>> ELSE f[i - 1] \o ss[i]
    <3> SUFFICES ASSUME NEW i \in 0 .. n
                 PROVE  f[i] = IF i = 0 THEN <<>> ELSE f[i - 1] \o ss[i]
      OBVIOUS
    <3>1. CASE i = 0
      BY <1>5, <3>1
    <3>2. CASE i \in 1 .. n
      <4>1. f[i - 1] \in V /\ f[i] = step[i][f[i - 1]] /\ i # 0
        BY <1>5, <1>6, <3>2
      <4> QED BY <1>4, <3>2, <4>1
    <3>3. i = 0 \/ i \in 1 .. n
      OBVIOUS
    <3> QED BY <3>1, <3>2, <3>3
  <2>2. f = [i \in 0 .. n |-> f[i]]
    OBVIOUS
  <2> QED BY <2>1, <2>2
<1>8. PICK g : g = (CHOOSE h : UpTo(h)) /\ UpTo(g)
  <2> HIDE DEF UpTo
  <2> QED BY <1>7
<1>9. /\ g[0] = <<>>
      /\ \A i \in 1 .. n : g[i] = g[i - 1] \o ss[i]
      /\ g = [i \in 0 .. n |-> g[i]]
  <2>1. g = [i \in 0 .. n |-> IF i = 0 THEN <<>> ELSE g[i - 1] \o ss[i]]
    BY <1>8
  <2>2. 0 \in 0 .. n
    BY <1>1
  <2>3. \A i \in 1 .. n : g[i] = g[i - 1] \o ss[i]
    BY <1>6, <2>1
  <2>4. g[0] = <<>>
    BY <2>1, <2>2
  <2>5. g = [i \in 0 .. n |-> g[i]]
    BY <2>1
  <2> QED BY <2>3, <2>4, <2>5
<1>10. \A i \in 0 .. n : g[i] \in V
  <2> DEFINE S == {i \in 0 .. n : g[i] \in V}
  <2>1. 0 \in S
    BY <1>1, <1>9
  <2>2. ASSUME NEW i \in 1 .. n, i - 1 \in S PROVE i \in S
    BY <1>2, <1>6, <1>9, <2>2
  <2> HIDE DEF S
  <2>3. \A i \in 0 .. n : i \in S
    BY <1>1, <2>1, <2>2, Induction
  <2> QED BY <2>3 DEF S
<1>11. /\ \A i \in 0 .. n : g[i] \in Seq(U)
       /\ \A i \in 1 .. n : ss[i] \in Seq(U)
       /\ Concat(ss) = g[n]
  BY <1>1, <1>3, <1>8, <1>10 DEF V
<1> DEFINE All(i) == \A k \in 1 .. i : ToSet(ss[k]) \subseteq ToSet(g[i])
           Order(i) == \A j \in 1 .. Len(g[i]) :
                           \E k \in 1 .. i :
                               /\ g[i][j] \in ToSet(ss[k]) /\ Shows(g[i], j, ss[k])
                               /\ \A l \in 1 .. k - 1 : ToSet(ss[l]) \subseteq Before(g[i], j)
           S == {i \in 0 .. n : All(i) /\ Order(i)}
<1>12. 0 \in S
  <2>1. 0 \in 0 .. n /\ Len(g[0]) = 0
    BY <1>0, <1>9
  <2> QED BY <2>1
<1>13. ASSUME NEW i \in 1 .. n, i - 1 \in S PROVE i \in S
  <2>1. PICK s, t, r : s = g[i - 1] /\ t = ss[i] /\ r = g[i]
    OBVIOUS
  <2>2. s \in Seq(U) /\ t \in Seq(U) /\ r \in Seq(U) /\ r = s \o t
    BY <1>6, <1>9, <1>11, <2>1
  <2>3. /\ Len(s) \in Nat /\ Len(t) \in Nat /\ Len(r) = Len(s) + Len(t)
        /\ \A j \in 1 .. Len(s) : r[j] = s[j]
        /\ \A j \in 1 .. Len(t) : r[Len(s) + j] = t[j]
    BY <2>2
  <2>4. ToSet(s) \subseteq ToSet(r) /\ ToSet(t) \subseteq ToSet(r)
    <3>1. IsSequence(s) /\ IsSequence(t)
      BY <2>2, SequenceIs
    <3>2. ToSet(r) = ToSet(s) \cup ToSet(t)
      BY <2>2, <3>1, JoinIs
    <3> QED BY <3>2
  <2>5. All(i - 1) /\ Order(i - 1)
    BY <1>13
  <2>6. \A k \in 1 .. i : k = i \/ k \in 1 .. i - 1
    OBVIOUS
  <2>7. All(i)
    BY <2>1, <2>4, <2>5, <2>6
  <2>8. Order(i)
    <3> SUFFICES ASSUME NEW j \in 1 .. Len(r)
                 PROVE  \E k \in 1 .. i :
                            /\ r[j] \in ToSet(ss[k]) /\ Shows(r, j, ss[k])
                            /\ \A l \in 1 .. k - 1 : ToSet(ss[l]) \subseteq Before(r, j)
      BY <2>1
    <3>1. CASE j \in 1 .. Len(s)
      <4>1. PICK k \in 1 .. i - 1 :
                /\ s[j] \in ToSet(ss[k]) /\ Shows(s, j, ss[k])
                /\ \A l \in 1 .. k - 1 : ToSet(ss[l]) \subseteq Before(s, j)
        BY <2>1, <2>5, <3>1
      <4>2. Before(s, j) = Before(r, j)
        <5>1. \A m \in 1 .. j - 1 : r[m] = s[m]
          BY <2>3, <3>1
        <5> QED BY <5>1 DEF Before
      <4>3. k \in 1 .. i /\ r[j] = s[j]
        BY <2>3, <3>1
      <4>4. Shows(r, j, ss[k])
        BY <4>1, <4>2, <4>3 DEF Shows
      <4> QED BY <4>1, <4>2, <4>3, <4>4
    <3>2. CASE j \notin 1 .. Len(s)
      <4>1. j - Len(s) \in 1 .. Len(t) /\ r[j] = t[j - Len(s)]
        <5>1. j - Len(s) \in 1 .. Len(t) /\ j = Len(s) + (j - Len(s))
          BY <2>3, <3>2
        <5> QED BY <2>3, <5>1
      <4>2. r[j] \in ToSet(ss[i])
        BY <2>1, <2>2, <4>1, InToSet
      <4>3. ASSUME NEW l \in 1 .. i - 1 PROVE ToSet(ss[l]) \subseteq Before(r, j)
        <5>1. ToSet(ss[l]) \subseteq ToSet(s)
          BY <2>1, <2>5
        <5>2. ASSUME NEW x \in ToSet(s) PROVE x \in Before(r, j)
          <6>1. PICK m \in 1 .. Len(s) : s[m] = x
            BY <2>2, InToSet
          <6>2. m \in 1 .. j - 1 /\ r[m] = x
            BY <2>3, <3>2, <6>1
          <6> QED BY <6>2 DEF Before
        <5> QED BY <5>1, <5>2
      <4>4. i \in 1 .. i
        OBVIOUS
      <4>5. Shows(r, j, ss[i])
        <5>1. PICK m : m = j - Len(s)
          OBVIOUS
        <5>2. m \in 1 .. Len(t) /\ r[j] = t[m] /\ j = Len(s) + m
          BY <2>3, <4>1, <5>1
        <5>3. ASSUME NEW q \in 1 .. m - 1 PROVE t[q] \in Before(r, j)
          <6>1. q \in 1 .. Len(t) /\ Len(s) + q \in 1 .. j - 1
            BY <2>3, <5>2
          <6>2. r[Len(s) + q] = t[q]
            BY <2>3, <6>1
          <6> QED BY <6>1, <6>2 DEF Before
        <5>4. Before(t, m) \subseteq Before(r, j)
          BY <5>3 DEF Before
        <5> QED BY <2>1, <5>2, <5>4 DEF Shows
      <4> QED BY <4>2, <4>3, <4>4, <4>5
    <3> QED BY <3>1, <3>2
  <2>9. i \in 0 .. n
    OBVIOUS
  <2> QED BY <2>7, <2>8, <2>9
<1>14. n \in S
  <2> HIDE DEF S
  <2>1. \A i \in 0 .. n : i \in S
    BY <1>12, <1>13, Induction
  <2> QED BY <2>1
<1>15. All(n) /\ Order(n)
  BY <1>14
<1>16. n \in 0 .. n
  OBVIOUS
<1> QED BY <1>0, <1>11, <1>15, <1>16

\* Without its repetitions a sequence has the same elements, and before an element
\* stand all those that stood before its first occurrence.
LEMMA UnrepeatedFacts ==
  ASSUME NEW U, NEW s \in Seq(U)
  PROVE  /\ Unrepeated(s) \in Seq(U)
         /\ ToSet(Unrepeated(s)) = ToSet(s)
         /\ \A i \in 1 .. Len(Unrepeated(s)) :
                \E k \in 1 .. Len(s) :
                    Unrepeated(s)[i] = s[k] /\ Before(s, k) \subseteq Before(Unrepeated(s), i)
<1> DEFINE Repeated(i) == \E j \in 1 .. i - 1 : s[j] = s[i]
<1>1. PICK ss : ss = [i \in 1 .. Len(s) |-> IF Repeated(i) THEN <<>> ELSE <<s[i]>>]
  OBVIOUS
<1>2. PICK u : u = Unrepeated(s)
  OBVIOUS
<1>3. u = Concat(ss)
  BY <1>1, <1>2 DEF Unrepeated
<1> HIDE DEF Repeated
<1>4. Len(s) \in Nat /\ \A i \in 1 .. Len(s) : s[i] \in U
  OBVIOUS
<1>5. ss \in Seq(Seq(U)) /\ Len(ss) = Len(s)
  <2>1. \A i \in 1 .. Len(s) : ss[i] \in Seq(U)
    BY <1>1, <1>4
  <2>2. ss = [i \in 1 .. Len(s) |-> ss[i]]
    BY <1>1
  <2> QED BY <1>4, <2>1, <2>2
<1>6. /\ u \in Seq(U)
      /\ \A k \in 1 .. Len(s) : ToSet(ss[k]) \subseteq ToSet(u)
      /\ \A i \in 1 .. Len(u) :
             \E k \in 1 .. Len(s) :
                 /\ u[i] \in ToSet(ss[k])
                 /\ \A l \in 1 .. k - 1 : ToSet(ss[l]) \subseteq Before(u, i)
  BY <1>3, <1>5, ConcatFacts
<1>7. ASSUME NEW k \in 1 .. Len(s)
      PROVE  ToSet(ss[k]) = IF Repeated(k) THEN {} ELSE {s[k]}
  <2>1. ss[k] = IF Repeated(k) THEN <<>> ELSE <<s[k]>>
    BY <1>1
  <2>2. CASE Repeated(k)
    BY <2>1, <2>2 DEF ToSet
  <2>3. CASE ~Repeated(k)
    <3>1. ss[k] = <<s[k]>> /\ s[k] \in U
      BY <1>4, <2>1, <2>3
    <3>2. ss[k] \in Seq(U) /\ Len(ss[k]) = 1 /\ ss[k][1] = s[k]
      BY <3>1
    <3>3. \A x : x \in ToSet(ss[k]) <=> x = s[k]
      BY <3>2, InToSet
    <3> QED BY <2>3, <3>3
  <2> QED BY <2>2, <2>3
\* What has a place has a first place.
<1>8. ASSUME NEW m \in 1 .. Len(s)
      PROVE  \E k \in 1 .. m : s[k] = s[m] /\ ~Repeated(k)
  <2> DEFINE Places == {k \in 1 .. m : s[k] = s[m]}
  <2>1. Places \subseteq Nat /\ Places # {}
    OBVIOUS
  <2>2. PICK k \in Places : \A j \in Places : k <= j
    <3> HIDE DEF Places
    <3> QED BY <2>1, Least
  <2>3. ~Repeated(k)
    BY <2>2 DEF Repeated
  <2> QED BY <2>2, <2>3
<1>9. ToSet(u) = ToSet(s)
  <2>1. ASSUME NEW x \in ToSet(u) PROVE x \in ToSet(s)
    <3>1. PICK i \in 1 .. Len(u) : u[i] = x
      BY <1>6, InToSet
    <3>2. PICK k \in 1 .. Len(s) : u[i] \in ToSet(ss[k])
      BY <1>6
    <3>3. x = s[k]
      BY <1>7, <3>1, <3>2
    <3> QED BY <3>3, InToSet
  <2>2. ASSUME NEW x \in ToSet(s) PROVE x \in ToSet(u)
    <3>1. PICK m \in 1 .. Len(s) : s[m] = x
      BY InToSet
    <3>2. PICK k \in 1 .. m : s[k] = s[m] /\ ~Repeated(k)
      BY <1>8
    <3>3. k \in 1 .. Len(s)
      OBVIOUS
    <3>4. x \in ToSet(ss[k])
      BY <1>7, <3>1, <3>2, <3>3
    <3> QED BY <1>6, <3>3, <3>4
  <2> QED BY <2>1, <2>2
<1>10. ASSUME NEW i \in 1 .. Len(u)
       PROVE  \E k \in 1 .. Len(s) : u[i] = s[k] /\ Before(s, k) \subseteq Before(u, i)
  <2>1. PICK k \in 1 .. Len(s) :
            /\ u[i] \in ToSet(ss[k])
            /\ \A l \in 1 .. k - 1 : ToSet(ss[l]) \subseteq Before(u, i)
    BY <1>6
  <2>2. u[i] = s[k]
    BY <1>7, <2>1
  <2>3. ASSUME NEW m \in 1 .. k - 1 PROVE s[m] \in Before(u, i)
    <3>1. m \in 1 .. Len(s)
      BY <1>4
    <3>2. PICK l \in 1 .. m : s[l] = s[m] /\ ~Repeated(l)
      BY <1>8, <3>1
    <3>3. l \in 1 .. Len(s) /\ l \in 1 .. k - 1
      BY <1>4
    <3>4. s[m] \in ToSet(ss[l])
      BY <1>7, <3>2, <3>3
    <3> QED BY <2>1, <3>3, <3>4
  <2> QED BY <2>2, <2>3 DEF Before
<1> QED BY <1>2, <1>6, <1>9, <1>10

\* Sequences written out.
LEMMA Spelled ==
  ASSUME NEW a, NEW b
  PROVE  /\ IsSequence(<<>>) /\ ToSet(<<>>) = {}
         /\ IsSequence(<<a>>) /\ ToSet(<<a>>) = {a}
         /\ IsSequence(<<a, b>>) /\ ToSet(<<a, b>>) = {a, b}
<1>1. IsSequence(<<>>) /\ ToSet(<<>>) = {}
  BY DEF IsSequence, ToSet
<1>2. IsSequence(<<a>>) /\ ToSet(<<a>>) = {a}
  BY DEF IsSequence, ToSet
<1>3. PICK s : s = <<a, b>>
  OBVIOUS
<1>4. DOMAIN s = 1 .. 2 /\ s[1] = a /\ s[2] = b /\ s \in Seq({a, b})
  BY <1>3
<1>5. ToSet(s) = {a, b}
  BY <1>4 DEF ToSet
<1>6. IsSequence(s)
  BY <1>4, <1>5 DEF IsSequence
<1> QED BY <1>1, <1>2, <1>3, <1>5, <1>6

LEMMA ConcatIs ==
  ASSUME NEW ss, IsSequence(ss), \A i \in 1 .. Len(ss) : IsSequence(ss[i])
  PROVE  /\ IsSequence(Concat(ss))
         /\ \A x : x \in ToSet(Concat(ss)) <=> \E k \in 1 .. Len(ss) : x \in ToSet(ss[k])
         /\ \A i \in 1 .. Len(Concat(ss)) :
                \E k \in 1 .. Len(ss) :
                    /\ Concat(ss)[i] \in ToSet(ss[k]) /\ Shows(Concat(ss), i, ss[k])
                    /\ \A l \in 1 .. k - 1 : ToSet(ss[l]) \subseteq Before(Concat(ss), i)
<1> DEFINE U == UNION {ToSet(ss[i]) : i \in 1 .. Len(ss)}
<1>1. \A i \in 1 .. Len(ss) : ss[i] \in Seq(U)
  <2> TAKE i \in 1 .. Len(ss)
  <2>1. ss[i] \in Seq(ToSet(ss[i])) /\ ToSet(ss[i]) \subseteq U
    BY DEF IsSequence
  <2> HIDE DEF U
  <2> QED BY <2>1
<1>2. ss \in Seq(Seq(U))
  <2>1. ss \in Seq(ToSet(ss))
    BY DEF IsSequence
  <2>2. PICK V : V = Seq(U)
    OBVIOUS
  <2>3. \A i \in 1 .. Len(ss) : ss[i] \in V
    BY <1>1, <2>2
  <2> HIDE DEF U
  <2>4. ss \in Seq(V)
    BY <2>1, <2>3
  <2> QED BY <2>2, <2>4
<1> HIDE DEF U
<1>3. PICK c : c = Concat(ss)
  OBVIOUS
<1>4. /\ c \in Seq(U)
      /\ \A k \in 1 .. Len(ss) : ToSet(ss[k]) \subseteq ToSet(c)
      /\ \A i \in 1 .. Len(c) :
                \E k \in 1 .. Len(ss) :
                    /\ c[i] \in ToSet(ss[k]) /\ Shows(c, i, ss[k])
                    /\ \A l \in 1 .. k - 1 : ToSet(ss[l]) \subseteq Before(c, i)
  BY <1>2, <1>3, ConcatFacts
<1>5. IsSequence(c)
  BY <1>4, SequenceIs
<1>6. \A x : x \in ToSet(c) <=> \E i \in 1 .. Len(c) : c[i] = x
  BY <1>4, InToSet
<1> QED BY <1>3, <1>4, <1>5, <1>6

LEMMA UnrepeatedIs ==
  ASSUME NEW s, IsSequence(s)
  PROVE  /\ IsSequence(Unrepeated(s)) /\ ToSet(Unrepeated(s)) = ToSet(s)
         /\ \A i \in 1 .. Len(Unrepeated(s)) :
                \E k \in 1 .. Len(s) :
                    Unrepeated(s)[i] = s[k] /\ Before(s, k) \subseteq Before(Unrepeated(s), i)
<1>1. s \in Seq(ToSet(s))
  BY DEF IsSequence
<1> QED BY <1>1, UnrepeatedFacts, SequenceIs

LEMMA KeepIs ==
  ASSUME NEW s, IsSequence(s), NEW T
  PROVE  IsSequence(Keep(s, T)) /\ ToSet(Keep(s, T)) = ToSet(s) \cap T
<1>1. s \in Seq(ToSet(s))
  BY DEF IsSequence
<1> QED BY <1>1, KeepFacts, SequenceIs

LEMMA ListIs ==
  ASSUME NEW s, IsSequence(s)
  PROVE  /\ Len(s) \in Nat /\ DOMAIN s = 1 .. Len(s)
         /\ \A x : x \in ToSet(s) <=> \E i \in 1 .. Len(s) : s[i] = x
<1>1. s \in Seq(ToSet(s))
  BY DEF IsSequence
<1> QED BY <1>1, InToSet

\* Where the elements of two joined sequences are.
LEMMA JoinAt ==
  ASSUME NEW s, NEW t, IsSequence(s), IsSequence(t)
  PROVE  /\ Len(s \o t) = Len(s) + Len(t)
         /\ \A i \in 1 .. Len(s) : (s \o t)[i] = s[i]
         /\ \A i \in 1 .. Len(t) : (s \o t)[Len(s) + i] = t[i]
         /\ \A i \in 1 .. Len(s \o t) : i \in 1 .. Len(s) \/ i - Len(s) \in 1 .. Len(t)
<1>1. PICK U : U = ToSet(s) \cup ToSet(t)
  OBVIOUS
<1>2. s \in Seq(U) /\ t \in Seq(U)
  <2>1. s \in Seq(ToSet(s)) /\ t \in Seq(ToSet(t))
    BY DEF IsSequence
  <2>2. ToSet(s) \subseteq U /\ ToSet(t) \subseteq U
    BY <1>1
  <2> QED BY <2>1, <2>2
<1> QED BY <1>2

LEMMA SpelledFour ==
  ASSUME NEW a, NEW b, NEW c, NEW d
  PROVE  IsSequence(<<a, b, c, d>>) /\ ToSet(<<a, b, c, d>>) = {a, b, c, d}
<1>1. PICK s : s = <<a, b, c, d>>
  OBVIOUS
<1>2. DOMAIN s = 1 .. 4 /\ s[1] = a /\ s[2] = b /\ s[3] = c /\ s[4] = d /\ s \in Seq({a, b, c, d})
  BY <1>1
<1>3. ToSet(s) = {a, b, c, d}
  BY <1>2 DEF ToSet
<1>4. IsSequence(s)
  BY <1>2, <1>3 DEF IsSequence
<1> QED BY <1>1, <1>3, <1>4

LEMMA SpelledFive ==
  ASSUME NEW a, NEW b, NEW c, NEW d, NEW e
  PROVE  IsSequence(<<a, b, c, d, e>>) /\ ToSet(<<a, b, c, d, e>>) = {a, b, c, d, e}
<1>1. PICK s : s = <<a, b, c, d, e>>
  OBVIOUS
<1>2. DOMAIN s = 1 .. 5 /\ s[1] = a /\ s[2] = b /\ s[3] = c /\ s[4] = d /\ s[5] = e
      /\ s \in Seq({a, b, c, d, e})
  BY <1>1
<1>3. ToSet(s) = {a, b, c, d, e}
  BY <1>2 DEF ToSet
<1>4. IsSequence(s)
  BY <1>2, <1>3 DEF IsSequence
<1> QED BY <1>1, <1>3, <1>4

Joined(s, t, u) == u = s \o t

\* What stands before a place of two sequences joined.
LEMMA JoinOrder ==
  ASSUME NEW s, NEW t, IsSequence(s), IsSequence(t), NEW u, Joined(s, t, u)
  PROVE  /\ \A i \in 1 .. Len(s) : u[i] = s[i] /\ Before(u, i) = Before(s, i)
         /\ \A i \in 1 .. Len(t) :
                /\ u[Len(s) + i] = t[i]
                /\ Before(t, i) \subseteq Before(u, Len(s) + i)
                /\ ToSet(s) \subseteq Before(u, Len(s) + i)
         /\ \A i \in 1 .. Len(u) : i \in 1 .. Len(s) \/ \E j \in 1 .. Len(t) : i = Len(s) + j
<1>1. /\ Len(u) = Len(s) + Len(t)
      /\ \A i \in 1 .. Len(s) : u[i] = s[i]
      /\ \A i \in 1 .. Len(t) : u[Len(s) + i] = t[i]
      /\ \A i \in 1 .. Len(u) : i \in 1 .. Len(s) \/ i - Len(s) \in 1 .. Len(t)
  BY JoinAt DEF Joined
<1>2. /\ Len(s) \in Nat /\ Len(t) \in Nat
      /\ \A x : x \in ToSet(s) <=> \E i \in 1 .. Len(s) : s[i] = x
  BY ListIs
<1>3. ASSUME NEW i \in 1 .. Len(s) PROVE Before(u, i) = Before(s, i)
  <2>1. \A j \in 1 .. i - 1 : u[j] = s[j]
    BY <1>1, <1>2
  <2> QED BY <2>1 DEF Before
<1>4. ASSUME NEW i \in 1 .. Len(t)
      PROVE  /\ Before(t, i) \subseteq Before(u, Len(s) + i)
             /\ ToSet(s) \subseteq Before(u, Len(s) + i)
  <2>1. ASSUME NEW j \in 1 .. i - 1 PROVE t[j] \in Before(u, Len(s) + i)
    <3>1. j \in 1 .. Len(t) /\ Len(s) + j \in 1 .. (Len(s) + i) - 1
      BY <1>2
    <3>2. u[Len(s) + j] = t[j]
      BY <1>1, <3>1
    <3> QED BY <3>1, <3>2 DEF Before
  <2>2. ASSUME NEW j \in 1 .. Len(s) PROVE s[j] \in Before(u, Len(s) + i)
    <3>1. j \in 1 .. (Len(s) + i) - 1 /\ u[j] = s[j]
      BY <1>1, <1>2
    <3> QED BY <3>1 DEF Before
  <2>3. Before(t, i) \subseteq Before(u, Len(s) + i)
    BY <2>1 DEF Before
  <2> QED BY <2>2, <2>3, <1>2
<1>5. ASSUME NEW i \in 1 .. Len(u), i \notin 1 .. Len(s)
      PROVE  \E j \in 1 .. Len(t) : i = Len(s) + j
  <2>1. PICK j : j = i - Len(s)
    OBVIOUS
  <2>2. j \in 1 .. Len(t) /\ i = Len(s) + j
    BY <1>1, <1>2, <1>5, <2>1
  <2> QED BY <2>2
<1> QED BY <1>1, <1>3, <1>4, <1>5
----------------------------------------------------------------------------
\* Finite sets, sorted.

LEMMA FiniteList ==
  ASSUME NEW s, IsSequence(s)
  PROVE  IsFiniteSet(ToSet(s))
<1>1. s \in [1 .. Len(s) -> ToSet(s)] /\ Len(s) \in Nat
  BY DEF IsSequence
<1>2. s \in Surjection(1 .. Len(s), ToSet(s))
  BY <1>1, ListIs DEF Surjection
<1> QED BY <1>1, <1>2, FS_Interval, FS_Surjection

\* The values of a function on a finite set.
LEMMA FiniteImage ==
  ASSUME NEW S, IsFiniteSet(S), NEW g, NEW T, \A y \in T : \E x \in S : y = g[x]
  PROVE  IsFiniteSet(T)
<1> DEFINE W == {g[x] : x \in S}
           h == [x \in S |-> g[x]]
<1>1. h \in Surjection(S, W)
  BY DEF Surjection
<1>2. IsFiniteSet(W)
  BY <1>1, FS_Surjection
<1>3. T \in SUBSET W
  OBVIOUS
<1> QED BY <1>2, <1>3, FS_Subset

\* A finite set that a relation puts in order.
LEMMA SortedIs ==
  ASSUME NEW S, IsFiniteSet(S), NEW R,
         \A T \in SUBSET S : T # {} => \E x \in T : \A y \in T : y = x \/ <<x, y>> \in R
  PROVE  /\ IsSequence(Sorted(S, R)) /\ ToSet(Sorted(S, R)) = S
         /\ Len(Sorted(S, R)) = Cardinality(S)
<1>0. PICK n \in Nat : n = Cardinality(S)
  BY FS_CardinalityType
<1> DEFINE First(T) == CHOOSE x \in T : \A y \in T : y = x \/ <<x, y>> \in R
           U == S \cup {First({})}
           V == Seq(U)
           More(r) == Append(r, First(S \ ToSet(r)))
           step == [i \in 1 .. n |-> [r \in V |-> More(r)]]
           Built(f) == f = [i \in 0 .. n |-> IF i = 0 THEN <<>> ELSE More(f[i - 1])]
<1>1. \A T \in SUBSET S : T # {} => First(T) \in T
  OBVIOUS
<1>2. \A r \in V : More(r) \in V
  <2> SUFFICES ASSUME NEW r \in V PROVE First(S \ ToSet(r)) \in U
    OBVIOUS
  <2>1. S \ ToSet(r) = {} \/ S \ ToSet(r) # {}
    OBVIOUS
  <2> HIDE DEF First
  <2> QED BY <1>1, <2>1
<1>3. Sorted(S, R) = (CHOOSE g : Built(g))[n]
  BY <1>0 DEF Sorted
<1>4. <<>> \in V
  OBVIOUS
<1> HIDE DEF V, More
<1>5. step \in [1 .. n -> [V -> V]] /\ \A i \in 1 .. n, r \in V : step[i][r] = More(r)
  BY <1>2
<1> HIDE DEF step
<1>6. PICK f \in [0 .. n -> V] :
          f[0] = <<>> /\ \A i \in 1 .. n : f[i] = step[i][f[i - 1]]
  <2>1. PICK W, m, none, st : W = V /\ m = n /\ none = <<>> /\ st = step
    OBVIOUS
  <2>2. m \in Nat /\ none \in W /\ st \in [1 .. m -> [W -> W]]
    BY <1>0, <1>4, <1>5, <2>1
  <2>3. \E f \in [0 .. m -> W] :
            f[0] = none /\ \A i \in 1 .. m : f[i] = st[i][f[i - 1]]
    BY ONLY <2>2, Recursion, SMTT(30)
  <2> QED BY <2>1, <2>3
<1>7. \A i \in 1 .. n : i \in 0 .. n /\ i # 0 /\ i - 1 \in 0 .. n
  BY <1>0
<1>8. Built(f)
  <2>1. ASSUME NEW i \in 0 .. n PROVE f[i] = IF i = 0 THEN <<>> ELSE More(f[i - 1])
    <3>1. CASE i = 0
      BY <1>6, <3>1
    <3>2. CASE i \in 1 .. n
      <4>1. f[i - 1] \in V /\ f[i] = step[i][f[i - 1]] /\ i # 0
        BY <1>6, <1>7, <3>2
      <4> QED BY <1>5, <3>2, <4>1
    <3> QED BY <1>0, <3>1, <3>2
  <2>2. f = [i \in 0 .. n |-> f[i]]
    OBVIOUS
  <2> QED BY <2>1, <2>2
<1>9. PICK g : g = (CHOOSE h : Built(h)) /\ Built(g)
  <2> HIDE DEF Built
  <2> QED BY <1>8
<1>10. g[0] = <<>> /\ \A i \in 1 .. n : g[i] = More(g[i - 1])
  <2>1. g = [i \in 0 .. n |-> IF i = 0 THEN <<>> ELSE More(g[i - 1])]
    BY <1>9
  <2>2. 0 \in 0 .. n
    BY <1>0
  <2>3. \A i \in 1 .. n : g[i] = More(g[i - 1])
    BY <1>7, <2>1
  <2> QED BY <2>1, <2>2, <2>3
<1> DEFINE Good(i) == /\ g[i] \in Seq(S) /\ Len(g[i]) = i
                      /\ IsFiniteSet(ToSet(g[i])) /\ Cardinality(ToSet(g[i])) = i
           G == {i \in 0 .. n : Good(i)}
<1>11. 0 \in G
  <2>1. ToSet(<<>>) = {} /\ <<>> \in Seq(S) /\ Len(<<>>) = 0
    BY DEF ToSet
  <2>2. Good(0)
    BY <1>10, <2>1, FS_EmptySet
  <2> QED BY <1>0, <2>2
<1>12. ASSUME NEW i \in 1 .. n, i - 1 \in G PROVE i \in G
  <2>1. PICK r : r = g[i - 1]
    OBVIOUS
  <2>2. /\ r \in Seq(S) /\ Len(r) = i - 1
        /\ IsFiniteSet(ToSet(r)) /\ Cardinality(ToSet(r)) = i - 1
    BY <1>12, <2>1
  <2>3. PICK x : x = First(S \ ToSet(r))
    OBVIOUS
  <2>4. g[i] = Append(r, x)
    BY <1>10, <2>1, <2>3 DEF More
  <2>5. x \in S \ ToSet(r)
    <3>1. ToSet(r) \subseteq S
      BY <2>2, InToSet
    <3>2. ToSet(r) # S
      BY <1>0, <2>2
    <3>3. S \ ToSet(r) # {} /\ S \ ToSet(r) \in SUBSET S
      BY <3>1, <3>2
    <3> HIDE DEF First
    <3> QED BY <1>1, <2>3, <3>3
  <2>6. ToSet(Append(r, x)) = ToSet(r) \cup {x}
    <3>1. Len(Append(r, x)) = Len(r) + 1 /\ Len(r) \in Nat /\ Append(r, x) \in Seq(S)
          /\ Append(r, x)[Len(r) + 1] = x
          /\ \A k \in 1 .. Len(r) : Append(r, x)[k] = r[k]
      BY <2>2, <2>5
    <3>2. \A k \in 1 .. Len(r) + 1 : k = Len(r) + 1 \/ k \in 1 .. Len(r)
      BY <3>1
    <3>3. \A k \in 1 .. Len(r) : k \in 1 .. Len(r) + 1
      BY <3>1
    <3>4. Len(r) + 1 \in 1 .. Len(r) + 1
      BY <3>1
    <3>5. /\ \A y : y \in ToSet(r) <=> \E k \in 1 .. Len(r) : r[k] = y
          /\ \A y : y \in ToSet(Append(r, x)) <=>
                        \E k \in 1 .. Len(r) + 1 : Append(r, x)[k] = y
      <4>1. DOMAIN r = 1 .. Len(r) /\ DOMAIN Append(r, x) = 1 .. Len(r) + 1
        BY <2>2, <3>1
      <4> QED BY <4>1 DEF ToSet
    <3> QED BY <3>1, <3>2, <3>3, <3>4, <3>5
  <2>7. /\ IsFiniteSet(ToSet(r) \cup {x})
        /\ Cardinality(ToSet(r) \cup {x}) = i
    <3>1. PICK T : T = ToSet(r)
      OBVIOUS
    <3>2. /\ IsFiniteSet(T \cup {x})
          /\ Cardinality(T \cup {x}) = Cardinality(T) + 1
      BY <2>2, <2>5, <3>1, FS_AddElement
    <3>3. (i - 1) + 1 = i
      OBVIOUS
    <3> QED BY <2>2, <3>1, <3>2, <3>3
  <2>8. Append(r, x) \in Seq(S) /\ Len(Append(r, x)) = i
    BY <2>2, <2>5
  <2> QED BY <1>7, <2>4, <2>6, <2>7, <2>8
<1> HIDE DEF G
<1>13. \A i \in 0 .. n : i \in G
  BY <1>0, <1>11, <1>12, Induction
<1>14. n \in G
  BY <1>0, <1>13
<1>15. g[n] \in Seq(S) /\ Len(g[n]) = n /\ Cardinality(ToSet(g[n])) = Cardinality(S) /\ Sorted(S, R) = g[n]
  BY <1>0, <1>3, <1>9, <1>14 DEF G
<1>16. ToSet(g[n]) \in SUBSET S
  BY <1>15, InToSet
<1>17. ToSet(g[n]) = S
  BY <1>15, <1>16, FS_Subset
<1> QED BY <1>0, <1>15, <1>17, SequenceIs

LEMMA InSomeOrderIs ==
  ASSUME NEW S, IsFiniteSet(S)
  PROVE  IsSequence(InSomeOrder(S)) /\ ToSet(InSomeOrder(S)) = S
<1>1. \A T \in SUBSET S : T # {} => \E x \in T : \A y \in T : y = x \/ <<x, y>> \in S \X S
  OBVIOUS
<1> QED BY <1>1, SortedIs DEF InSomeOrder

\* Finitely many numbers have a bound.
LEMMA Bound ==
  ASSUME NEW n \in Nat, NEW f, \A i \in 1 .. n : f[i] \in Nat
  PROVE  \E b \in Nat : \A i \in 1 .. n : f[i] <= b
<1> DEFINE Bounded(k, b) == \A i \in 1 .. k : f[i] <= b
           S == {k \in 0 .. n : \E b \in Nat : Bounded(k, b)}
<1>1. 0 \in S
  <2>1. Bounded(0, 0)
    OBVIOUS
  <2> QED BY <2>1
<1>2. ASSUME NEW k \in 1 .. n, k - 1 \in S PROVE k \in S
  <2>1. PICK b \in Nat : Bounded(k - 1, b)
    BY <1>2
  <2>2. \A i \in 1 .. k : i = k \/ i \in 1 .. k - 1
    OBVIOUS
  <2>3. f[k] \in Nat
    OBVIOUS
  <2>4. CASE f[k] <= b
    <3>1. Bounded(k, b)
      BY <2>1, <2>2, <2>4
    <3> QED BY <3>1
  <2>5. CASE b <= f[k]
    <3>1. \A i \in 1 .. k - 1 : i \in 1 .. n /\ f[i] <= b
      BY <2>1
    <3>2. \A i \in 1 .. k - 1 : f[i] <= f[k]
      BY <2>3, <2>5, <3>1
    <3>3. Bounded(k, f[k])
      BY <2>2, <2>3, <3>2
    <3> QED BY <2>3, <3>3
  <2> QED BY <2>3, <2>4, <2>5
<1> HIDE DEF S
<1>3. n \in S
  <2>1. n \in 0 .. n
    OBVIOUS
  <2> QED BY <1>1, <1>2, <2>1, Induction
<1> QED BY <1>3 DEF S

\* A set of positions has a first one by descending numbers.
LEMMA Highest ==
  ASSUME NEW n \in Nat, NEW f, \A i \in 1 .. n : f[i] \in Nat,
         NEW T \in SUBSET (1 .. n), T # {}
  PROVE  \E x \in T : \A y \in T : y = x \/ f[x] > f[y] \/ (f[x] = f[y] /\ x < y)
<1>1. PICK b \in Nat : \A i \in 1 .. n : f[i] <= b
  BY Bound
<1>0. \A i \in T : i \in Nat /\ f[i] \in Nat /\ f[i] <= b
  BY <1>1
<1> DEFINE D == {b - f[i] : i \in T}
<1>2. PICK m \in D : \A k \in D : m <= k
  <2>1. \A i \in T : b - f[i] \in Nat
    BY <1>0
  <2>2. D \subseteq Nat /\ D # {}
    BY <2>1
  <2> HIDE DEF D
  <2> QED BY <2>2, Least
<1> DEFINE E == {i \in T : b - f[i] = m}
<1>3. PICK x \in E : \A y \in E : x <= y
  <2>1. E \subseteq Nat
    BY <1>0
  <2>3. E # {}
    BY <1>2
  <2> HIDE DEF E
  <2> QED BY <2>1, <2>3, Least
<1>4. x \in T /\ b - f[x] = m
  BY <1>3
<1>5. ASSUME NEW y \in T PROVE y = x \/ f[x] > f[y] \/ (f[x] = f[y] /\ x < y)
  <2>1. m <= b - f[y] /\ (b - f[y] = m => x <= y)
    BY <1>2, <1>3
  <2>2. f[x] \in Nat /\ f[y] \in Nat /\ x \in Nat /\ y \in Nat
    BY <1>0, <1>4
  <2> QED BY <1>4, <2>1, <2>2
<1> QED BY <1>4, <1>5
=============================================================================
