--------------------------- MODULE JobServiceProofs ---------------------------
(***************************************************************************)
(* Proofs about JobService, for any set of scans, types and positions and  *)
(* any bound of the clock.                                                 *)
(***************************************************************************)
EXTENDS JobService, TLAPS

\* The statuses a job reaches only through RUNNING, and not by the way of a pause.
Ran == { "RUNNING", "NORMALIZING", "UPLOADING", "COMPLETED", "CRASHED" }

\* What the invariants need to know of one scan to be inductive: where its stamps
\* must be there and where they must not.
RowInv(s) ==
    /\ created_at[s] # Null <=> s \in Rows
    /\ s \notin Rows => /\ started_at[s] = Null
                        /\ last_heartbeat[s] = Null
                        /\ \A t \in ObjectTypes : checkpoint[s][t] = Null
    /\ status[s] \in Ran => started_at[s] # Null
    /\ status[s] = "RUNNING" => last_heartbeat[s] # Null

\* How its stamps are ordered, and which belong to which status.
StampInv(s) ==
    /\ completed_at[s] # Null <=> status[s] = "COMPLETED"
    /\ failed_at[s] # Null <=> status[s] = "FAILED"
    /\ started_at[s] # Null => created_at[s] <= started_at[s]
    /\ started_at[s] # Null /\ last_heartbeat[s] # Null => started_at[s] <= last_heartbeat[s]
    /\ started_at[s] # Null /\ completed_at[s] # Null => started_at[s] <= completed_at[s]

\* The invariant: the types, and those of every scan.
IInv == TypeOK /\ \A s \in Scans : RowInv(s) /\ StampInv(s)

-------------------------------------------------------------------------------
\* The statuses CanMove leads to are statuses, and it never leads to one of Ran
\* except from another of them or to RUNNING itself.
LEMMA MoveLemma ==
    ASSUME NEW from \in JobStatus, NEW to, CanMove(from, to)
    PROVE  /\ to \in JobStatus
           /\ from \notin TERMINAL_STATES
           /\ to \in Ran => from \in Ran \/ to = "RUNNING"
           /\ to # "PENDING"
  BY DEF JobStatus, CanMove, VALID_TRANSITIONS, TERMINAL_STATES, Ran

-------------------------------------------------------------------------------
\* Type correctness: whichever operations run, a status is a status and no stamp
\* lies in the future of the clock.
LEMMA InitTypes == Init => TypeOK
  BY MaxTimeIsNat DEF Init, TypeOK, Stamp

\* Every operation keeps the types.
LEMMA StepTypes == TypeOK /\ [Next]_vars => TypeOK'
<1> SUFFICES ASSUME TypeOK, [Next]_vars PROVE TypeOK'
  OBVIOUS
<1> USE DEF TypeOK, Stamp
<1>1. ASSUME NEW s \in Scans, JobStep(s) PROVE TypeOK'
  <2>1. CASE create_job(s)
    BY <2>1 DEF create_job, JobStatus
  <2>2. ASSUME NEW new \in JobStatus, update_job_status(s, new) PROVE TypeOK'
    BY <2>2 DEF update_job_status, StampStart, StampHeartbeat, StampOutcome
  <2>3. CASE fail_job(s)
    BY <2>3 DEF fail_job, JobStatus
  <2>4. CASE cancel_job(s)
    BY <2>4 DEF cancel_job, stamps, JobStatus
  <2>5. CASE pause_job(s)
    BY <2>5 DEF pause_job, stamps, JobStatus
  <2>6. CASE resume_job(s)
    BY <2>6 DEF resume_job, stamps, JobStatus
  <2>7. ASSUME NEW t \in ObjectTypes, NEW p \in Positions, save_checkpoint(s, t, p)
        PROVE  TypeOK'
    BY <2>7 DEF save_checkpoint, stamps
  <2>8. CASE update_heartbeat(s)
    BY <2>8 DEF update_heartbeat
  <2>9. CASE remove_job(s)
    BY <2>9 DEF remove_job, DeleteRows, Cleared
  <2> QED
    BY <1>1, <2>1, <2>2, <2>3, <2>4, <2>5, <2>6, <2>7, <2>8, <2>9 DEF JobStep
<1>2. ASSUME NEW n \in 0..MaxTime, detect_crashed_jobs(n) PROVE TypeOK'
  BY <1>2 DEF detect_crashed_jobs, stamps, JobStatus
<1>3. ASSUME NEW n \in 0..MaxTime, cleanup_old_jobs(n) PROVE TypeOK'
  BY <1>3 DEF cleanup_old_jobs, DeleteRows, Cleared
<1>4. CASE Tick
  <2>1. now \in Nat /\ now' = now + 1 /\ now' \in 0..MaxTime
    BY <1>4, MaxTimeIsNat DEF Tick
  <2>2. 0..now \subseteq 0..now'
    BY <2>1
  <2> QED
    BY <1>4, <2>1, <2>2 DEF Tick, stamps
<1>5. CASE UNCHANGED vars
  BY <1>5 DEF vars, stamps
<1> QED
  BY <1>1, <1>2, <1>3, <1>4, <1>5 DEF Next

\* Every column of the jobs table has its type, however the operations follow each other.
THEOREM TypeCorrect == Spec => []TypeOK
  BY InitTypes, StepTypes, PTL DEF Spec

-------------------------------------------------------------------------------
\* The inductive invariant.
LEMMA InitInv == Init => IInv
  BY InitTypes DEF Init, IInv, RowInv, StampInv, Rows, JobStatus, Ran

\* A step that leaves a scan's columns alone leaves its part of the invariant alone.
LEMMA OtherScan ==
    ASSUME NEW s \in Scans, RowInv(s), StampInv(s),
           status'[s] = status[s], created_at'[s] = created_at[s],
           started_at'[s] = started_at[s], completed_at'[s] = completed_at[s],
           failed_at'[s] = failed_at[s], last_heartbeat'[s] = last_heartbeat[s],
           \A t \in ObjectTypes : checkpoint'[s][t] = checkpoint[s][t]
    PROVE  RowInv(s)' /\ StampInv(s)'
  BY DEF RowInv, StampInv, Rows

\* Every operation keeps the invariant.
LEMMA StepInv == IInv /\ [Next]_vars => IInv'
<1> SUFFICES ASSUME IInv, [Next]_vars PROVE IInv'
  OBVIOUS
<1>0. TypeOK /\ TypeOK' /\ (\A s \in Scans : RowInv(s) /\ StampInv(s))
  BY StepTypes DEF IInv
<1> SUFFICES ASSUME NEW r \in Scans PROVE RowInv(r)' /\ StampInv(r)'
  BY <1>0 DEF IInv
<1>r. RowInv(r) /\ StampInv(r)
  BY <1>0
<1>t. /\ now \in Nat
      /\ status \in [Scans -> JobStatus \cup { "NONE", "GONE" }]
      /\ created_at \in [Scans -> Stamp]
      /\ started_at \in [Scans -> Stamp]
      /\ completed_at \in [Scans -> Stamp]
      /\ failed_at \in [Scans -> Stamp]
      /\ last_heartbeat \in [Scans -> Stamp]
      /\ checkpoint \in [Scans -> [ObjectTypes -> Positions \cup {Null}]]
      /\ Null \notin 0..now
  BY <1>0, NullIsNoTime DEF TypeOK
<1>1. ASSUME NEW s \in Scans, JobStep(s) PROVE RowInv(r)' /\ StampInv(r)'
  <2>1. CASE create_job(s)
    <3>1. CASE r # s
      BY <2>1, <3>1, <1>r, <1>t, OtherScan DEF create_job
    <3>2. CASE r = s
      BY <2>1, <3>2, <1>r, <1>t
      DEF create_job, RowInv, StampInv, Rows, JobStatus, Ran, Stamp
    <3> QED BY <3>1, <3>2
  <2>2. ASSUME NEW new \in JobStatus, update_job_status(s, new)
        PROVE  RowInv(r)' /\ StampInv(r)'
    <3> USE DEF update_job_status, StampStart, StampHeartbeat, StampOutcome
    <3>1. CASE r # s
      BY <2>2, <3>1, <1>r, <1>t, OtherScan
    <3>2. CASE r = s
      <4>1. /\ status[s] \in JobStatus \ TERMINAL_STATES
            /\ new \in Ran => status[s] \in Ran \/ new = "RUNNING"
        BY <2>2, MoveLemma DEF Rows
      <4>2. /\ status'[s] = new
            /\ completed_at[s] = Null /\ failed_at[s] = Null
            /\ created_at'[s] = created_at[s] /\ created_at[s] \in 0..now
            /\ checkpoint' = checkpoint
        BY <2>2, <3>2, <4>1, <1>r, <1>t DEF RowInv, StampInv, Rows, TERMINAL_STATES, Stamp
      <4>3. started_at'[s] = IF new = "RUNNING" /\ started_at[s] = Null
                               THEN now ELSE started_at[s]
        BY <2>2, <1>t
      <4>4. last_heartbeat'[s] = IF new = "RUNNING" THEN now ELSE last_heartbeat[s]
        BY <2>2, <1>t
      <4>5. /\ completed_at'[s] = IF new = "COMPLETED" THEN now ELSE Null
            /\ failed_at'[s] = IF new = "FAILED" THEN now ELSE Null
        BY <2>2, <4>2, <1>t
      <4>6. RowInv(s)'
        BY <3>2, <4>1, <4>2, <4>3, <4>4, <1>r, <1>t DEF RowInv, Rows, Ran, Stamp
      <4>7. StampInv(s)'
        BY <3>2, <4>1, <4>2, <4>3, <4>4, <4>5, <1>r, <1>t DEF StampInv, Stamp
      <4> QED BY <3>2, <4>6, <4>7
    <3> QED BY <3>1, <3>2
  <2>3. CASE fail_job(s)
    <3>1. CASE r # s
      BY <2>3, <3>1, <1>r, <1>t, OtherScan DEF fail_job
    <3>2. CASE r = s
      BY <2>3, <3>2, <1>r, <1>t
      DEF fail_job, RowInv, StampInv, Rows, JobStatus, TERMINAL_STATES, Ran, Stamp
    <3> QED BY <3>1, <3>2
  <2>4. CASE cancel_job(s)
    <3>1. CASE r # s
      BY <2>4, <3>1, <1>r, <1>t, OtherScan DEF cancel_job, stamps
    <3>2. CASE r = s
      BY <2>4, <3>2, <1>r, <1>t
      DEF cancel_job, stamps, RowInv, StampInv, Rows, JobStatus, TERMINAL_STATES, Ran
    <3> QED BY <3>1, <3>2
  <2>5. CASE pause_job(s)
    <3>1. CASE r # s
      BY <2>5, <3>1, <1>r, <1>t, OtherScan DEF pause_job, stamps
    <3>2. CASE r = s
      BY <2>5, <3>2, <1>r, <1>t
      DEF pause_job, stamps, RowInv, StampInv, Rows, JobStatus, Ran
    <3> QED BY <3>1, <3>2
  <2>6. CASE resume_job(s)
    <3>1. CASE r # s
      BY <2>6, <3>1, <1>r, <1>t, OtherScan DEF resume_job, stamps
    <3>2. CASE r = s
      BY <2>6, <3>2, <1>r, <1>t
      DEF resume_job, stamps, RowInv, StampInv, Rows, JobStatus, Ran
    <3> QED BY <3>1, <3>2
  <2>7. ASSUME NEW t \in ObjectTypes, NEW p \in Positions, save_checkpoint(s, t, p)
        PROVE  RowInv(r)' /\ StampInv(r)'
    BY <2>7, <1>r, <1>t DEF save_checkpoint, stamps, RowInv, StampInv, Rows
  <2>8. CASE update_heartbeat(s)
    <3>1. CASE r # s
      BY <2>8, <3>1, <1>r, <1>t, OtherScan DEF update_heartbeat
    <3>2. CASE r = s
      BY <2>8, <3>2, <1>r, <1>t DEF update_heartbeat, RowInv, StampInv, Rows, Stamp
    <3> QED BY <3>1, <3>2
  <2>9. CASE remove_job(s)
    BY <2>9, <1>r, <1>t
    DEF remove_job, DeleteRows, Cleared, RowInv, StampInv, Rows, JobStatus, Ran
  <2> QED
    BY <1>1, <2>1, <2>2, <2>3, <2>4, <2>5, <2>6, <2>7, <2>8, <2>9 DEF JobStep
<1>2. ASSUME NEW n \in 0..MaxTime, detect_crashed_jobs(n) PROVE RowInv(r)' /\ StampInv(r)'
  BY <1>2, <1>r, <1>t
  DEF detect_crashed_jobs, Stale, stamps, RowInv, StampInv, Rows, JobStatus, Ran
<1>3. ASSUME NEW n \in 0..MaxTime, cleanup_old_jobs(n) PROVE RowInv(r)' /\ StampInv(r)'
  BY <1>3, <1>r, <1>t
  DEF cleanup_old_jobs, DeleteRows, Cleared, RowInv, StampInv, Rows, JobStatus, Ran
<1>4. CASE Tick
  BY <1>4, <1>r, OtherScan DEF Tick, stamps
<1>5. CASE UNCHANGED vars
  BY <1>5, <1>r, OtherScan DEF vars, stamps
<1> QED
  BY <1>1, <1>2, <1>3, <1>4, <1>5 DEF Next

\* The invariant, in every state.
LEMMA Invariance == Spec => []IInv
  BY InitInv, StepInv, PTL DEF Spec

-------------------------------------------------------------------------------
\* The safety invariants follow from the inductive one.

\* Every RUNNING job has a start and a heartbeat no older than it.
THEOREM RunsAreDetectable == Spec => []EveryRunIsDetectable
<1>1. IInv => EveryRunIsDetectable
  BY DEF IInv, EveryRunIsDetectable, RowInv, StampInv, Ran
<1> QED
  BY <1>1, Invariance, PTL

\* completed_at and failed_at are there exactly in COMPLETED and in FAILED.
THEOREM StampsTellOutcome == Spec => []StampsMatchOutcome
<1>1. IInv => StampsMatchOutcome
  BY DEF IInv, StampsMatchOutcome, StampInv
<1> QED
  BY <1>1, Invariance, PTL

\* A completed job was created, started and completed in that order.
THEOREM DurationsAreDefined == Spec => []DurationIsDefined
<1>1. IInv => DurationIsDefined
  BY DEF IInv, DurationIsDefined, RowInv, StampInv, Rows, JobStatus, Ran
<1> QED
  BY <1>1, Invariance, PTL

\* No checkpoint row outlives its job.
THEOREM CheckpointsHaveJobs == Spec => []NoOrphanCheckpoint
<1>1. IInv => NoOrphanCheckpoint
  BY DEF IInv, NoOrphanCheckpoint, RowInv
<1> QED
  BY <1>1, Invariance, PTL

-------------------------------------------------------------------------------
\* What a step does to started_at and to the status of any one scan.

\* started_at, once set, stays as it is until the row is deleted.
THEOREM FirstStartIsKept == Spec => StartIsKept
<1> DEFINE Kept == \A s \in Scans : started_at[s] # Null =>
                     started_at'[s] = started_at[s] \/ status'[s] = "GONE"
<1>1. TypeOK /\ [Next]_vars => [Kept]_vars
  <2> SUFFICES ASSUME TypeOK, Next PROVE Kept
    OBVIOUS
  <2> SUFFICES ASSUME NEW r \in Scans, started_at[r] # Null
               PROVE  started_at'[r] = started_at[r] \/ status'[r] = "GONE"
    OBVIOUS
  <2>t. started_at \in [Scans -> Stamp]
    BY DEF TypeOK
  <2>1. ASSUME NEW s \in Scans, JobStep(s)
        PROVE  started_at'[r] = started_at[r] \/ status'[r] = "GONE"
    <3>1. CASE \E new \in JobStatus : update_job_status(s, new)
      BY <3>1, <2>t DEF update_job_status, StampStart
    <3>2. CASE remove_job(s)
      BY <3>2, <2>t DEF remove_job, DeleteRows, Cleared
    <3> QED
      BY <2>1, <3>1, <3>2
      DEF JobStep, create_job, fail_job, cancel_job, pause_job, resume_job, save_checkpoint,
          update_heartbeat, stamps
  <2>2. CASE \E n \in 0..MaxTime : cleanup_old_jobs(n)
    BY <2>2, <2>t DEF cleanup_old_jobs, DeleteRows, Cleared
  <2>3. CASE (\E n \in 0..MaxTime : detect_crashed_jobs(n)) \/ Tick
    BY <2>3 DEF detect_crashed_jobs, Tick, stamps
  <2> QED
    BY <2>1, <2>2, <2>3 DEF Next
<1> QED
  BY <1>1, TypeCorrect, PTL DEF Spec, StartIsKept

\* The two modules speak of one and the same state machine.
LEMMA SameFsm ==
    /\ Lifecycle!JobStatus = JobStatus
    /\ \A from, to : CanMove(from, to) => Lifecycle!CanMove(from, to)
  BY DEF JobStatus, CanMove, TERMINAL_STATES, VALID_TRANSITIONS,
         Lifecycle!JobStatus, Lifecycle!CanMove, Lifecycle!TERMINAL_STATES,
         Lifecycle!VALID_TRANSITIONS

\* Every step of the service is a step of the abstract lifecycle or leaves every
\* status alone: the operations that bypass VALID_TRANSITIONS keep to it all the same.
LEMMA StepFollows == TypeOK /\ [Next]_vars => [Lifecycle!Next]_status
<1> SUFFICES ASSUME TypeOK, [Next]_vars PROVE [Lifecycle!Next]_status
  OBVIOUS
<1>t. status \in [Scans -> JobStatus \cup { "NONE", "GONE" }]
  BY DEF TypeOK
<1>m. ASSUME NEW S \in SUBSET Scans, NEW to \in JobStatus,
             \A s \in S : status[s] \in JobStatus /\ CanMove(status[s], to),
             status' = [s \in Scans |-> IF s \in S THEN to ELSE status[s]]
      PROVE  Lifecycle!Next
  <2>1. S \in SUBSET Lifecycle!Jobs
    BY <1>m, SameFsm DEF Lifecycle!Jobs
  <2> QED
    BY <1>m, <2>1, SameFsm DEF Lifecycle!Next, Lifecycle!Move, Lifecycle!Set
<1>d. ASSUME NEW S \in SUBSET Rows, DeleteRows(S) PROVE Lifecycle!Next
  BY <1>d, SameFsm DEF DeleteRows, Rows, Lifecycle!Next, Lifecycle!Delete, Lifecycle!Set, Lifecycle!Jobs
<1>1. ASSUME NEW s \in Scans, JobStep(s) PROVE [Lifecycle!Next]_status
  <2>m. ASSUME NEW to \in JobStatus, status[s] \in JobStatus, CanMove(status[s], to),
               status' = [status EXCEPT ![s] = to]
        PROVE  Lifecycle!Next
    <3>1. status' = [r \in Scans |-> IF r \in {s} THEN to ELSE status[r]]
      BY <2>m, <1>t
    <3> QED
      BY <2>m, <3>1, <1>m
  <2>1. CASE create_job(s)
    <3>1. status' = [r \in Scans |-> IF r \in {s} THEN "PENDING" ELSE status[r]]
      BY <2>1, <1>t DEF create_job
    <3> QED
      BY <2>1, <3>1 DEF create_job, Lifecycle!Next, Lifecycle!Create, Lifecycle!Set
  <2>2. CASE \E new \in JobStatus : update_job_status(s, new)
    BY <2>2, <2>m DEF update_job_status, Rows
  <2>3. CASE fail_job(s)
    <3>1. status[s] \in JobStatus /\ CanMove(status[s], "FAILED")
      BY <2>3 DEF fail_job, Rows, CanMove, VALID_TRANSITIONS, JobStatus, TERMINAL_STATES
    <3> QED
      BY <2>3, <3>1, <2>m DEF fail_job, JobStatus
  <2>4. CASE cancel_job(s)
    <3>1. status[s] \in JobStatus /\ CanMove(status[s], "CANCELLED")
      BY <2>4 DEF cancel_job, Rows, CanMove, VALID_TRANSITIONS, JobStatus, TERMINAL_STATES
    <3> QED
      BY <2>4, <3>1, <2>m DEF cancel_job, JobStatus
  <2>5. CASE pause_job(s)
    <3>1. status[s] \in JobStatus /\ CanMove(status[s], "PAUSED")
      BY <2>5 DEF pause_job, CanMove, VALID_TRANSITIONS, JobStatus, TERMINAL_STATES
    <3> QED
      BY <2>5, <3>1, <2>m DEF pause_job, JobStatus
  <2>6. CASE resume_job(s)
    <3>1. status[s] \in JobStatus /\ CanMove(status[s], "RESUMING")
      BY <2>6 DEF resume_job, CanMove, VALID_TRANSITIONS, JobStatus, TERMINAL_STATES
    <3> QED
      BY <2>6, <3>1, <2>m DEF resume_job, JobStatus
  <2>7. CASE remove_job(s)
    BY <2>7, <1>d DEF remove_job
  <2>8. CASE (\E t \in ObjectTypes, p \in Positions : save_checkpoint(s, t, p))
              \/ update_heartbeat(s)
    BY <2>8 DEF save_checkpoint, update_heartbeat
  <2> QED
    BY <1>1, <2>1, <2>2, <2>3, <2>4, <2>5, <2>6, <2>7, <2>8 DEF JobStep
<1>2. ASSUME NEW n \in 0..MaxTime, detect_crashed_jobs(n) PROVE Lifecycle!Next
  <2>1. Stale(n) \in SUBSET Scans
    BY DEF Stale, Rows
  <2>2. \A s \in Stale(n) : status[s] \in JobStatus /\ CanMove(status[s], "CRASHED")
    BY DEF Stale, CanMove, VALID_TRANSITIONS, JobStatus, TERMINAL_STATES
  <2> QED
    BY <1>2, <2>1, <2>2, <1>m DEF detect_crashed_jobs, JobStatus
<1>3. ASSUME NEW n \in 0..MaxTime, cleanup_old_jobs(n) PROVE Lifecycle!Next
  BY <1>3, <1>d DEF cleanup_old_jobs, Rows
<1>4. CASE Tick \/ UNCHANGED vars
  BY <1>4 DEF Tick, vars
<1> QED
  BY <1>1, <1>2, <1>3, <1>4 DEF Next

\* The job service implements the abstract lifecycle.
THEOREM ServiceImplementsLifecycle == Spec => FollowsLifecycle
<1>1. Init => Lifecycle!Init
  BY DEF Init, Lifecycle!Init
<1> QED
  BY <1>1, StepFollows, TypeCorrect, PTL DEF Spec, FollowsLifecycle, Lifecycle!Spec
===============================================================================
