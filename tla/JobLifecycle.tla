----------------------------- MODULE JobLifecycle -----------------------------
(***************************************************************************)
(* What the job table promises to everyone who reads a status: a scan id   *)
(* is created once, as PENDING; from then on its status follows the table  *)
(* of JobFsm, whichever operation writes it; a deleted id never comes back.*)
(* One step may move or delete several jobs: crash detection and cleanup   *)
(* are bulk operations.                                                    *)
(***************************************************************************)
EXTENDS JobFsm

CONSTANT Scans

VARIABLE state    \* [Scans -> JobStatus \cup {"NONE", "GONE"}]

Jobs == { s \in Scans : state[s] \in JobStatus }

Init == state = [s \in Scans |-> "NONE"]

Set(S, to) == state' = [s \in Scans |-> IF s \in S THEN to ELSE state[s]]

Create == \E s \in Scans : state[s] = "NONE" /\ Set({s}, "PENDING")

Move ==
    \E S \in SUBSET Jobs, to \in JobStatus :
        /\ \A s \in S : CanMove(state[s], to)
        /\ Set(S, to)

Delete == \E S \in SUBSET Jobs : Set(S, "GONE")

Next == Create \/ Move \/ Delete

Spec == Init /\ [][Next]_state
===============================================================================
