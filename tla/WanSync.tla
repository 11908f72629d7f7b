------------------------------ MODULE WanSync ------------------------------
(***************************************************************************)
(* The script that copies the default route an interface learns by router  *)
(* advertisements from the main table to the table the DNS egress policy   *)
(* selects (linux_wan_dynamic.py, `_slaac_command`): it tries for a while, *)
(* then follows the kernel's route events.  Routers and the kernel change  *)
(* the routes between any two of its commands.                             *)
(*                                                                         *)
(* A table's default routes by the interface are the sequence of their     *)
(* routers, in the order `ip route show` prints them.                      *)
(***************************************************************************)
EXTENDS Naturals, Sequences, SequencesExt

CONSTANTS
    Routers,
    Attempts,       \* how often the script tries before it listens: 50
    MaxPending      \* events that are counted; further ones change nothing

ASSUME RoutersAssumption == Routers # {}
ASSUME AttemptsAssumption == Attempts \in Nat \ {0}
ASSUME MaxPendingAssumption == MaxPending \in Nat \ {0}

VARIABLES
    learned,    \* the routers in the main table
    copied,     \* the router in the selected table
    pc,
    attempt,
    read,       \* what the script last read of the main table
    selected,   \* and of the selected table
    listening,  \* `ip monitor` has subscribed
    pending,    \* events not read yet
    missed      \* the routes changed unheard since the script last read the
                \* main table (only the properties look at it)

environment == <<learned, copied>>
syncVars == <<learned, copied, pc, attempt, read, selected, listening, pending, missed>>

SyncInit ==
    /\ learned = <<>> \/ \E r \in Routers : learned = <<r>>
    /\ copied = <<>>
    /\ pc = "main"
    /\ attempt = 1
    /\ read = <<>> /\ selected = <<>>
    /\ listening = FALSE
    /\ pending = 0
    /\ missed = FALSE

\* The kernel tells a change to whoever listens.
Notify ==
    pending' = IF listening /\ pending < MaxPending THEN pending + 1 ELSE pending

EnvironmentChanges ==
    /\ Notify
    /\ missed' = (missed \/ ~listening)
    /\ UNCHANGED <<pc, attempt, read, selected, listening>>

\* A first advertisement of a router.
Announce(r) ==
    /\ ~Contains(learned, r)
    /\ learned' = Append(learned, r)
    /\ UNCHANGED copied
    /\ EnvironmentChanges

\* The lifetime of the n-th one is over.
Expire(n) ==
    /\ learned' = RemoveAt(learned, n)
    /\ UNCHANGED copied
    /\ EnvironmentChanges

\* The link goes down: the kernel flushes the interface's routes in all tables,
\* and comes back.
LinkDown ==
    /\ learned # <<>> \/ copied # <<>>
    /\ learned' = <<>> /\ copied' = <<>>
    /\ EnvironmentChanges
----------------------------------------------------------------------------
\* sync_selected_ra_route

ReadMain ==
    /\ pc = "main"
    /\ read' = learned
    /\ missed' = FALSE
    /\ pc' = "table"
    /\ UNCHANGED <<environment, attempt, selected, listening, pending>>

ReadTable ==
    /\ pc = "table"
    /\ selected' = copied
    /\ pc' = "sync"
    /\ UNCHANGED <<environment, attempt, read, listening, pending, missed>>

AfterSync == IF listening THEN "wait" ELSE "check"

Written(new) == copied' = new /\ Notify

\* `ip` takes one route, not the lines of two.
Replace ==
    /\ read # <<>> /\ read # selected
    /\ IF Len(read) = 1 THEN Written(read) ELSE UNCHANGED <<copied, pending>>

Delete ==
    /\ read = <<>> /\ selected # <<>>
    /\ IF copied # <<>> THEN Written(<<>>) ELSE UNCHANGED <<copied, pending>>

InStep ==
    /\ read = selected
    /\ UNCHANGED <<copied, pending>>

\* As if only the addition of routes were followed.
SyncAdditions ==
    /\ pc = "sync"
    /\ Replace \/ ((read = <<>> \/ InStep) /\ UNCHANGED <<copied, pending>>)
    /\ pc' = AfterSync
    /\ UNCHANGED <<learned, attempt, read, selected, listening, missed>>

Sync ==
    /\ pc = "sync"
    /\ Replace \/ Delete \/ InStep
    /\ pc' = AfterSync
    /\ UNCHANGED <<learned, attempt, read, selected, listening, missed>>
----------------------------------------------------------------------------
AttemptLeft == copied = <<>> /\ attempt < Attempts

\* Until the selected table has a route, or the attempts are used up.
TryAgain ==
    /\ pc = "check" /\ AttemptLeft
    /\ attempt' = attempt + 1
    /\ pc' = "main"
    /\ UNCHANGED <<environment, read, selected, listening, pending, missed>>

Listen ==
    /\ pc = "check" /\ ~AttemptLeft
    /\ listening' = TRUE
    /\ pc' = "wait"
    /\ UNCHANGED <<environment, attempt, read, selected, pending, missed>>

\* As if events that come in a burst were the script's own.
HearSingle ==
    /\ pc = "wait" /\ pending > 0
    /\ pending' = 0
    /\ pc' = IF pending = 1 THEN "main" ELSE "wait"
    /\ UNCHANGED <<environment, attempt, read, selected, listening, missed>>

\* One line of the monitor, one synchronisation.
Hear ==
    /\ pc = "wait" /\ pending > 0
    /\ pending' = pending - 1
    /\ pc' = "main"
    /\ UNCHANGED <<environment, attempt, read, selected, listening, missed>>

Script == ReadMain \/ ReadTable \/ Sync \/ TryAgain \/ Listen \/ Hear

Environment ==
    \/ \E r \in Routers : Announce(r)
    \/ \E n \in DOMAIN learned : Expire(n)
    \/ LinkDown

SyncNext == Script \/ Environment

\* The script's commands return; nothing is assumed of routers.
SyncSpec == SyncInit /\ [][SyncNext]_syncVars /\ WF_syncVars(Script)

-----------------------------------------------------------------------------
(***************************************************************************)
(* What the copy of the default route must be when nothing is under way.   *)
(***************************************************************************)

Tables == Seq(Routers)
AtRest == pc = "wait" /\ pending = 0

\* The selected table follows the main table's only route, or its lack of one.
Follows == Len(learned) <= 1 => copied = learned

\* The script's data is well formed: the selected table never holds two routes,
\* and nothing is heard before the monitor is there.
SyncTypeOK ==
    /\ learned \in Tables /\ read \in Tables
    /\ \A t \in {copied, selected} : t = <<>> \/ \E r \in Routers : t = <<r>>
    /\ pc \in {"main", "table", "sync", "check", "wait"}
    /\ attempt \in 1 .. Attempts
    /\ listening \in BOOLEAN /\ missed \in BOOLEAN
    /\ pending \in 0 .. MaxPending
    /\ ~listening => pending = 0

\* _slaac_command: when every event is dealt with, the selected table agrees with
\* the main table, in whatever order routes changed and the script read and wrote,
\* unless the main table has several routes or changed between the last attempt
\* and the subscription.
RestMeansFollowing == AtRest /\ ~missed => Follows

\* Once the routers are quiet the selected table agrees with the main table for
\* good: the script's own events do not keep it going.
Converges ==
    \A m \in {<<>>} \cup {<<r>> : r \in Routers} :
        <>[](learned = m /\ ~missed) => <>[](copied = m /\ AtRest)
=============================================================================
