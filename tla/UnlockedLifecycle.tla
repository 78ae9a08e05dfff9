-------------------------- MODULE UnlockedLifecycle --------------------------
(***************************************************************************)
(* What the row of one job promises although nobody locks it.  A service   *)
(* function reads the row, checks that the move it is to make is allowed,  *)
(* and only later writes it; in between anybody else may write or delete   *)
(* the row.  So a status may be followed by one that the table does not    *)
(* allow after it, but only by one that its writer has found allowed after *)
(* some status the row really had.                                         *)
(*                                                                         *)
(* As long as operations do not overlap, all this is JobLifecycle with one *)
(* job: SerialIsLifecycle in UnlockedProofs.                               *)
(***************************************************************************)
EXTENDS JobFsm

CONSTANT Agents    \* whoever may have such an operation in flight, one at a time

VARIABLES
    state,     \* a JobStatus; "NONE" before the job, "GONE" once its row is deleted
    intent     \* [Agents -> status it has found allowed and not yet written, or "none"]

uvars == << state, intent >>

Init ==
    /\ state = "NONE"
    /\ intent = [a \in Agents |-> "none"]

Create ==
    /\ state = "NONE"
    /\ state' = "PENDING"
    /\ UNCHANGED intent

Check(a) ==
    /\ state \in JobStatus
    /\ UNCHANGED state
    /\ \E to \in JobStatus :
         /\ CanMove(state, to)
         /\ intent' = [intent EXCEPT ![a] = to]

\* The row is read again after the COMMIT, and that may be the next check.
Write(a) ==
    /\ intent[a] # "none"
    /\ state \in JobStatus
    /\ state' = intent[a]
    /\ \E next \in JobStatus \cup {"none"} :
         /\ next # "none" => CanMove(state', next)
         /\ intent' = [intent EXCEPT ![a] = next]

\* The row is not there, a database call fails, or the process ends.
GiveUp(S) ==
    /\ UNCHANGED state
    /\ intent' = [a \in Agents |-> IF a \in S THEN "none" ELSE intent[a]]

Delete ==
    /\ state \in JobStatus
    /\ state' = "GONE"
    /\ UNCHANGED intent

Next ==
    \/ Create
    \/ Delete
    \/ \E S \in SUBSET Agents : GiveUp(S)
    \/ \E a \in Agents : Check(a) \/ Write(a)

Spec == Init /\ [][Next]_uvars

-------------------------------------------------------------------------------
\* No operation is in flight.
Quiet == \A a \in Agents : intent[a] = "none"

\* At most one operation is in flight, as with a lock on the row.
Alone == \A a, b \in Agents : intent[a] # "none" /\ intent[b] # "none" => a = b

\* A job has settled: it is in a terminal status and nobody has an operation in flight.
Settled == state \in TERMINAL_STATES /\ Quiet

\* What remains of "no transitions out of these": a terminal status may be overwritten
\* by operations that looked at the row before it, but once these are over it stands
\* until the row is deleted, and nobody finds a move allowed again.
SettledIsFinal == [][Settled => state' = "GONE" \/ (Settled' /\ state' = state)]_uvars

\* The first move of a job is one of the table's, however many operations race for it.
FirstMoveIsLegal ==
    [][state = "PENDING" =>
         state' \in VALID_TRANSITIONS.PENDING \cup { "PENDING", "GONE" }]_uvars

\* The row as one of a job table, for the behaviours in which operations do not overlap.
Lifecycle == INSTANCE JobLifecycle WITH Scans <- { "job" }, state <- [s \in { "job" } |-> state]
===============================================================================
