------------------------------- MODULE ListOps -------------------------------
(***************************************************************************)
(* Operators on sequences that the renderer's modules are built from,      *)
(* written as recursive functions, so that they can be proved about.       *)
(***************************************************************************)
EXTENDS Naturals, FiniteSets, SequencesExt

IsSequence(s) == s \in Seq(ToSet(s))

\* The elements of a sequence that are in a set, in their order.
Keep(s, T) ==
    LET kept[i \in 0 .. Len(s)] ==
            IF i = 0 THEN <<>>
            ELSE IF s[i] \in T THEN Append(kept[i - 1], s[i]) ELSE kept[i - 1]
    IN  kept[Len(s)]

\* The sequences of a sequence, one after the other.
Concat(ss) ==
    LET upTo[i \in 0 .. Len(ss)] == IF i = 0 THEN <<>> ELSE upTo[i - 1] \o ss[i]
    IN  upTo[Len(ss)]

\* The elements of a finite set, sorted by a relation.
Sorted(S, R) ==
    LET upTo[i \in 0 .. Cardinality(S)] ==
            IF i = 0 THEN <<>>
            ELSE LET before == upTo[i - 1]
                     rest == S \ ToSet(before)
                 IN  Append(before, CHOOSE x \in rest :
                                        \A y \in rest : y = x \/ <<x, y>> \in R)
    IN  upTo[Cardinality(S)]

\* The elements of a finite set, where their order does not matter.
InSomeOrder(S) == Sorted(S, S \X S)

\* Of each element the first occurrence.
Unrepeated(s) ==
    Concat([i \in 1 .. Len(s) |->
               IF \E j \in 1 .. i - 1 : s[j] = s[i] THEN <<>> ELSE <<s[i]>>])
=============================================================================
