------------------------------ MODULE JobService ------------------------------
(***************************************************************************)
(* app/services/job_service.py over the jobs and job_checkpoints tables.   *)
(*                                                                         *)
(* Each operation is one action here: what an operation does when no other *)
(* transaction comes between its SELECT and its COMMIT.  Extraction splits *)
(* the same operations into their SELECT and COMMIT halves.                *)
(*                                                                         *)
(* A column of the jobs table is a function on scan ids.  status is "NONE" *)
(* until the id is generated and "GONE" once its row is deleted.           *)
(***************************************************************************)
EXTENDS JobFsm, Naturals

CONSTANTS
    Scans,         \* the scan ids start_scan generates (uuid4, never reused)
    ObjectTypes,   \* CRM object types
    Positions,     \* what a checkpoint row may hold: a cursor and a record count
    Null,          \* SQL NULL
    MaxTime        \* bound of the clock

ASSUME NullIsNoTime == Null \notin Nat
ASSUME NullIsNoPosition == Null \notin Positions
ASSUME MaxTimeIsNat == MaxTime \in Nat

VARIABLES
    now,           \* datetime.utcnow()
    status, created_at, started_at, completed_at, failed_at, last_heartbeat,
    checkpoint     \* rows of job_checkpoints: [Scans -> [ObjectTypes -> Positions or Null]]

stamps == << created_at, started_at, completed_at, failed_at, last_heartbeat >>
vars == << now, status, stamps, checkpoint >>

Rows == { s \in Scans : status[s] \in JobStatus }

Init ==
    /\ now = 0
    /\ status = [s \in Scans |-> "NONE"]
    /\ created_at = [s \in Scans |-> Null]
    /\ started_at = [s \in Scans |-> Null]
    /\ completed_at = [s \in Scans |-> Null]
    /\ failed_at = [s \in Scans |-> Null]
    /\ last_heartbeat = [s \in Scans |-> Null]
    /\ checkpoint = [s \in Scans |-> [t \in ObjectTypes |-> Null]]

-------------------------------------------------------------------------------
\* Creation and status changes

create_job(s) ==
    /\ status[s] = "NONE"
    /\ status' = [status EXCEPT ![s] = "PENDING"]
    /\ created_at' = [created_at EXCEPT ![s] = now]
    /\ UNCHANGED << now, started_at, completed_at, failed_at, last_heartbeat, checkpoint >>

\* Bug: a job paused before it ran is started without a start time.
StampFirstRun(s, new) ==
    started_at' = IF new = "RUNNING" /\ status[s] = "PENDING"
                    THEN [started_at EXCEPT ![s] = now] ELSE started_at

\* Bug: every resume is a new start.
StampEveryRun(s, new) ==
    started_at' = IF new = "RUNNING" THEN [started_at EXCEPT ![s] = now] ELSE started_at

\* Bug: the first heartbeat is left to the first page.
NoFirstHeartbeat(s, new) == UNCHANGED last_heartbeat

\* The timing fields update_job_status sets; complete_job is this with COMPLETED.
StampStart(s, new) ==
    started_at' = IF new = "RUNNING" /\ started_at[s] = Null
                    THEN [started_at EXCEPT ![s] = now] ELSE started_at

StampHeartbeat(s, new) ==
    last_heartbeat' = IF new = "RUNNING" THEN [last_heartbeat EXCEPT ![s] = now]
                                         ELSE last_heartbeat

StampOutcome(s, new) ==
    /\ completed_at' = IF new = "COMPLETED" THEN [completed_at EXCEPT ![s] = now]
                                            ELSE completed_at
    /\ failed_at' = IF new = "FAILED" THEN [failed_at EXCEPT ![s] = now] ELSE failed_at

update_job_status(s, new) ==
    /\ s \in Rows
    /\ CanMove(status[s], new)
    /\ status' = [status EXCEPT ![s] = new]
    /\ StampStart(s, new)
    /\ StampHeartbeat(s, new)
    /\ StampOutcome(s, new)
    /\ UNCHANGED << now, created_at, checkpoint >>

\* Bug: the failure is not timed.
FailWithoutStamp(s) ==
    /\ s \in Rows
    /\ status[s] \notin TERMINAL_STATES
    /\ status' = [status EXCEPT ![s] = "FAILED"]
    /\ UNCHANGED << now, stamps, checkpoint >>

\* The four operations below write a status without consulting VALID_TRANSITIONS.
fail_job(s) ==
    /\ s \in Rows
    /\ status[s] \notin TERMINAL_STATES
    /\ status' = [status EXCEPT ![s] = "FAILED"]
    /\ failed_at' = [failed_at EXCEPT ![s] = now]
    /\ UNCHANGED << now, created_at, started_at, completed_at, last_heartbeat, checkpoint >>

cancel_job(s) ==
    /\ s \in Rows
    /\ status[s] \notin TERMINAL_STATES
    /\ status' = [status EXCEPT ![s] = "CANCELLED"]
    /\ UNCHANGED << now, stamps, checkpoint >>

\* Bug: a job that is being resumed can be paused.
PauseResuming(s) ==
    /\ status[s] \in { "RUNNING", "PENDING", "RESUMING" }
    /\ status' = [status EXCEPT ![s] = "PAUSED"]
    /\ UNCHANGED << now, stamps, checkpoint >>

pause_job(s) ==
    /\ status[s] \in { "RUNNING", "PENDING" }
    /\ status' = [status EXCEPT ![s] = "PAUSED"]
    /\ UNCHANGED << now, stamps, checkpoint >>

\* From RUNNING and RESUMING the call returns without writing; elsewhere it raises.
resume_job(s) ==
    /\ status[s] \in { "PAUSED", "CRASHED" }
    /\ status' = [status EXCEPT ![s] = "RESUMING"]
    /\ UNCHANGED << now, stamps, checkpoint >>

-------------------------------------------------------------------------------
\* Checkpoints and heartbeat: neither looks at the status

\* Bug: the job is not looked up.
SaveWithoutJob(s, t, position) ==
    /\ checkpoint' = [checkpoint EXCEPT ![s][t] = position]
    /\ UNCHANGED << now, status, stamps >>

save_checkpoint(s, t, position) ==
    /\ s \in Rows
    /\ checkpoint' = [checkpoint EXCEPT ![s][t] = position]
    /\ UNCHANGED << now, status, stamps >>

\* Bug: the time the heartbeat is good for, not the time of the beat.
HeartbeatAhead(s) ==
    /\ s \in Rows
    /\ last_heartbeat' = [last_heartbeat EXCEPT ![s] = now + 1]
    /\ UNCHANGED << now, status, created_at, started_at, completed_at, failed_at, checkpoint >>

update_heartbeat(s) ==
    /\ s \in Rows
    /\ last_heartbeat' = [last_heartbeat EXCEPT ![s] = now]
    /\ UNCHANGED << now, status, created_at, started_at, completed_at, failed_at, checkpoint >>

-------------------------------------------------------------------------------
\* Maintenance

\* A NULL heartbeat satisfies no comparison.
Stale(timeout) ==
    { s \in Rows : /\ status[s] = "RUNNING"
                   /\ last_heartbeat[s] # Null
                   /\ last_heartbeat[s] + timeout < now }

detect_crashed_jobs(timeout) ==
    /\ status' = [s \in Scans |-> IF s \in Stale(timeout) THEN "CRASHED" ELSE status[s]]
    /\ UNCHANGED << now, stamps, checkpoint >>

Cleared(column, S) == [s \in Scans |-> IF s \in S THEN Null ELSE column[s]]

\* DELETE FROM jobs: the foreign key cascades to job_checkpoints.
DeleteRows(S) ==
    /\ status' = [s \in Scans |-> IF s \in S THEN "GONE" ELSE status[s]]
    /\ created_at' = Cleared(created_at, S)
    /\ started_at' = Cleared(started_at, S)
    /\ completed_at' = Cleared(completed_at, S)
    /\ failed_at' = Cleared(failed_at, S)
    /\ last_heartbeat' = Cleared(last_heartbeat, S)
    /\ checkpoint' = [s \in Scans |-> IF s \in S THEN [t \in ObjectTypes |-> Null]
                                                 ELSE checkpoint[s]]
    /\ UNCHANGED now

cleanup_old_jobs(age) == DeleteRows({ s \in Rows : created_at[s] + age < now })

remove_job(s) ==
    /\ s \in Rows
    /\ status[s] # "RUNNING"
    /\ DeleteRows({s})

Tick ==
    /\ now < MaxTime
    /\ now' = now + 1
    /\ UNCHANGED << status, stamps, checkpoint >>

-------------------------------------------------------------------------------
JobStep(s) ==
    \/ create_job(s)
    \/ \E new \in JobStatus : update_job_status(s, new)
    \/ fail_job(s)
    \/ cancel_job(s)
    \/ pause_job(s)
    \/ resume_job(s)
    \/ \E t \in ObjectTypes, p \in Positions : save_checkpoint(s, t, p)
    \/ update_heartbeat(s)
    \/ remove_job(s)

Next ==
    \/ \E s \in Scans : JobStep(s)
    \/ \E n \in 0..MaxTime : detect_crashed_jobs(n)
    \/ \E n \in 0..MaxTime : cleanup_old_jobs(n)
    \/ Tick

Spec == Init /\ [][Next]_vars

-------------------------------------------------------------------------------
\* Types: no column ever holds a time of the future, and a status is one of the
\* enum's members or says that there is no row.
Stamp == (0..now) \cup {Null}

TypeOK ==
    /\ now \in 0..MaxTime
    /\ status \in [Scans -> JobStatus \cup {"NONE", "GONE"}]
    /\ created_at \in [Scans -> Stamp]
    /\ started_at \in [Scans -> Stamp]
    /\ completed_at \in [Scans -> Stamp]
    /\ failed_at \in [Scans -> Stamp]
    /\ last_heartbeat \in [Scans -> Stamp]
    /\ checkpoint \in [Scans -> [ObjectTypes -> Positions \cup {Null}]]

\* detect_crashed_jobs selects RUNNING jobs by last_heartbeat < threshold, which a
\* NULL never satisfies: every RUNNING job, by whatever path it came to run, has a
\* heartbeat no older than its start, so a dead run is always found in the end.
EveryRunIsDetectable ==
    \A s \in Scans : status[s] = "RUNNING" =>
        /\ started_at[s] # Null
        /\ last_heartbeat[s] # Null
        /\ started_at[s] <= last_heartbeat[s]

\* completed_at and failed_at tell the outcome, through every path that ends a job,
\* the direct write of fail_job included: a stamp is there exactly in its status.
StampsMatchOutcome ==
    \A s \in Scans :
        /\ completed_at[s] # Null <=> status[s] = "COMPLETED"
        /\ failed_at[s] # Null <=> status[s] = "FAILED"

\* get_scan_status computes a duration from started_at to completed_at: a completed
\* job has both, in order, and was not started before it was created.
DurationIsDefined ==
    \A s \in Scans : status[s] = "COMPLETED" =>
        /\ created_at[s] # Null /\ started_at[s] # Null /\ completed_at[s] # Null
        /\ created_at[s] <= started_at[s]
        /\ started_at[s] <= completed_at[s]

\* A checkpoint row belongs to a job row: a deleted scan leaves none behind, whether
\* remove_job or cleanup_old_jobs deleted it.
NoOrphanCheckpoint ==
    \A s \in Scans, t \in ObjectTypes : checkpoint[s][t] # Null => s \in Rows

\* started_at is the first start: pauses, crashes and resumes leave it alone for as
\* long as the row exists.
StartIsKept ==
    [][\A s \in Scans : started_at[s] # Null =>
            started_at'[s] = started_at[s] \/ status'[s] = "GONE"]_vars

\* The abstract lifecycle: although only update_job_status consults the table, the
\* operations that write a status directly keep to it too.
Lifecycle == INSTANCE JobLifecycle WITH state <- status

FollowsLifecycle == Lifecycle!Spec
===============================================================================
