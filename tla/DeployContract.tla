---------------------------- MODULE DeployContract ----------------------------
(***************************************************************************)
(* What a caller of deploy_lab may rely on, without the watcher, the fifo  *)
(* and the processes: a bounded number of tries, each of which rebuilds    *)
(* the lab; success only with a complete lab that the last try built; and  *)
(* a lab that nobody touches any more once the outcome is known.  The      *)
(* second half holds only where a try can be stopped as a group.           *)
(***************************************************************************)
EXTENDS Naturals

CONSTANT MaxTries

VARIABLES outcome, tries, lab, grouped
contractVars == <<outcome, tries, lab, grouped>>

Init ==
    /\ outcome = "pending"
    /\ tries = 0
    /\ lab \in {"absent", "partial", "full"}
    /\ grouped \in BOOLEAN

\* Between two tries the lab may be taken down, wholly or partly.
TakeDown ==
    /\ outcome = "pending"
    /\ lab' \in {"absent", "partial"}
    /\ UNCHANGED <<outcome, tries, grouped>>

Try ==
    /\ outcome = "pending"
    /\ tries < MaxTries
    /\ tries' = tries + 1
    /\ lab' = "partial"
    /\ UNCHANGED <<outcome, grouped>>

Complete ==
    /\ outcome = "pending"
    /\ tries > 0
    /\ lab = "partial"
    /\ lab' = "full"
    /\ UNCHANGED <<outcome, tries, grouped>>

Succeed ==
    /\ outcome = "pending"
    /\ tries > 0
    /\ grouped => lab = "full"
    /\ outcome' = "deployed"
    /\ UNCHANGED <<tries, lab, grouped>>

Fail ==
    /\ outcome = "pending"
    /\ outcome' = "failed"
    /\ UNCHANGED <<tries, lab, grouped>>

\* What was left of an earlier try builds and breaks the lab, even a decided one.
Disturb ==
    /\ ~grouped
    /\ lab' \in {"partial", "full"}
    /\ UNCHANGED <<outcome, tries, grouped>>

Next == TakeDown \/ Try \/ Complete \/ Succeed \/ Fail \/ Disturb

Spec == Init /\ [][Next]_contractVars
=============================================================================
