-------------------------------- MODULE JobFsm --------------------------------
(***************************************************************************)
(* The job state machine of app/models/job.py: the statuses of a job, the  *)
(* terminal ones and the table of allowed moves.  Every other module of    *)
(* the project takes the table from here.                                  *)
(***************************************************************************)

\* The members of the JobStatus enum.  "UPLOADING" stands for UPLOADING_TO_MINIO.
JobStatus ==
    { "PENDING", "RUNNING", "PAUSED", "RESUMING", "NORMALIZING",
      "UPLOADING", "COMPLETED", "FAILED", "CANCELLED", "CRASHED" }

TERMINAL_STATES == { "COMPLETED", "FAILED", "CANCELLED" }

VALID_TRANSITIONS ==
    [ PENDING     |-> { "RUNNING", "PAUSED", "CANCELLED", "FAILED" },
      RUNNING     |-> { "PAUSED", "NORMALIZING", "FAILED", "CANCELLED", "CRASHED" },
      PAUSED      |-> { "RESUMING", "CANCELLED", "FAILED" },
      RESUMING    |-> { "RUNNING", "FAILED", "CANCELLED" },
      NORMALIZING |-> { "UPLOADING", "FAILED", "CANCELLED" },
      UPLOADING   |-> { "COMPLETED", "FAILED", "CANCELLED" },
      CRASHED     |-> { "RESUMING", "CANCELLED", "FAILED" },
      COMPLETED   |-> {},
      FAILED      |-> {},
      CANCELLED   |-> {} ]

\* The two checks update_job_status makes before it writes a new status.
CanMove(from, to) ==
    /\ from \notin TERMINAL_STATES
    /\ to \in VALID_TRANSITIONS[from]
===============================================================================
