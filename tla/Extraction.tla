------------------------------ MODULE Extraction ------------------------------
(***************************************************************************)
(* One scan of app/services/extraction_service.py: the handlers that       *)
(* start, pause, resume, cancel, remove and clean it up, the background    *)
(* threads that extract it, crash detection and process crashes, over the  *)
(* scan's job row, its checkpoint rows and its raw files.                  *)
(*                                                                         *)
(* A handler and a background thread each own a database session under     *)
(* READ COMMITTED, and an operation that changes a row is a SELECT, a      *)
(* check, and later an UPDATE of the changed columns with no condition on  *)
(* what was read: each such operation is two steps here.                   *)
(*                                                                         *)
(* A page is numbered; cursor c > 0 asks for page c + 1 and 0 is the NULL  *)
(* cursor, that of the first page and of a finished type.  Records are     *)
(* counted in pages.                                                       *)
(***************************************************************************)
EXTENDS JobFsm, Naturals, Sequences, FiniteSets

CONSTANTS
    ObjectTypes,     \* CRM object types
    Pages,           \* pages HubSpot holds for each type
    Workers,         \* background threads, one for each launch (bounds the launches)
    Handlers,        \* requests in flight at once
    Requests,        \* what start_scan may be asked for: sequences of types, or Omitted
    Omitted,         \* the request names no object types
    CallerHasLoop,   \* whether start_scan and resume_scan run on an event loop's thread
    MaxFaults,       \* bound of the process crashes and failed database calls together
    NoTask           \* no entry in _running_tasks

ASSUME PagesAssumption == Pages \in Nat \ {0}
ASSUME RequestAssumption == /\ Requests \subseteq Seq(ObjectTypes) \cup {Omitted}
                            /\ Omitted \notin Seq(ObjectTypes)
ASSUME LoopAssumption == CallerHasLoop \subseteq BOOLEAN
ASSUME FaultAssumption == MaxFaults \in Nat
ASSUME TaskAssumption == NoTask \notin Workers

VARIABLES
    status,       \* jobs.status; "NEVER" before the scan, "GONE" once its row is deleted
    objectTypes,  \* jobs.object_types
    heartbeat,    \* jobs.last_heartbeat: "null", "fresh" or "stale" for crash detection
    counts,       \* jobs.entity_record_counts
    ckpt,         \* job_checkpoints: [ObjectTypes -> Checkpoint]
    raw,          \* <type>_raw.json: the pages in the file, {} when there is no file
    dataDir,      \* whether the scan's data directory exists
    hpc,          \* handlers: what each is about to commit
    pc, todo, cursor, records, pages, stats, base,   \* locals of each background thread
    registry,     \* _running_tasks[scan_id]
    faults,       \* crashes and failed database calls so far
    fetched,      \* history: the <<type, page>> pairs fetched so far
    overrun,      \* history: pages each thread fetched since a stop was last requested
    launchLost    \* history: the last launch asked for has raised

row == << status, objectTypes, heartbeat, counts >>
store == << row, ckpt, raw, dataDir >>
locals == << todo, cursor, records, pages, stats, base >>
thread == << pc, locals >>
history == << fetched, overrun, launchLost >>
vars == << store, hpc, thread, registry, faults, history >>

-------------------------------------------------------------------------------
NoCkpt == [cursor |-> 0, records |-> 0]      \* no row: one fetched page makes records > 0

NoStats == [t \in {} |-> 0]

RowExists == status \in JobStatus

Active == { "PENDING", "RESUMING", "RUNNING", "NORMALIZING", "UPLOADING" }

\* Whether a pause or a cancel is in force.
Stopped == status \in { "PAUSED", "CANCELLED" }

\* Bug: a pause stops the extraction, a cancel does not.
OnlyPauseStops == status = "PAUSED"

\* _should_stop on the row as it is.
StopRequested == status \in { "PAUSED", "CANCELLED" }

Live(w) == pc[w] \notin { "idle", "done" }

Goto(w, label) == pc' = [pc EXCEPT ![w] = label]

Init ==
    /\ status = "NEVER"
    /\ objectTypes = << >>
    /\ heartbeat = "null"
    /\ counts = NoStats
    /\ ckpt = [t \in ObjectTypes |-> NoCkpt]
    /\ raw = [t \in ObjectTypes |-> {}]
    /\ dataDir = FALSE
    /\ hpc = [h \in Handlers |-> "idle"]
    /\ pc = [w \in Workers |-> "idle"]
    /\ todo = [w \in Workers |-> << >>]
    /\ cursor = [w \in Workers |-> 0]
    /\ records = [w \in Workers |-> 0]
    /\ pages = [w \in Workers |-> {}]
    /\ stats = [w \in Workers |-> NoStats]
    /\ base = [w \in Workers |-> NoCkpt]
    /\ registry = NoTask
    /\ faults = 0
    /\ fetched = {}
    /\ overrun = [w \in Workers |-> 0]
    /\ launchLost = FALSE

-------------------------------------------------------------------------------
\* Launching.  A handler commits PENDING or RESUMING, reads the row back, and only then
\* calls asyncio.create_task; the task starts its thread in its own time.

Fault == faults < MaxFaults /\ faults' = faults + 1

HandlerDone(h) == hpc' = [hpc EXCEPT ![h] = "idle"]

LaunchLabels == { "start_launch", "resume_launch" }

Launching(h) == hpc[h] \in LaunchLabels

\* Bounds the launches: a thread is left for one more handler that is about to launch.
ThreadLeft ==
    Cardinality({ h \in Handlers : Launching(h) }) < Cardinality({ w \in Workers : pc[w] = "idle" })

\* create_job
StartScan(h, types) ==
    /\ hpc[h] = "idle"
    /\ status = "NEVER"
    /\ ThreadLeft
    /\ status' = "PENDING"
    /\ objectTypes' = types
    /\ hpc' = [hpc EXCEPT ![h] = "start_launch"]
    /\ UNCHANGED << heartbeat, counts, ckpt, raw, dataDir, thread, registry, faults, history >>

\* resume_scan: job.object_types or []
ResumeTypes == IF objectTypes = Omitted THEN << >> ELSE objectTypes

LaunchTypes(h) == IF hpc[h] = "start_launch" THEN objectTypes ELSE ResumeTypes

Launch(w, types) ==
    /\ pc[w] = "idle"
    /\ Goto(w, "run")
    /\ todo' = [todo EXCEPT ![w] = types]
    /\ registry' = w
    /\ launchLost' = FALSE
    /\ UNCHANGED << cursor, records, pages, stats, base, faults >>

\* create_task raises where no event loop runs, and reading back a row that has been
\* deleted does; so may any reading back, where it counts as a fault.
LaunchRaises(loop) ==
    /\ \/ (~loop \/ ~RowExists) /\ UNCHANGED faults
       \/ Fault
    /\ launchLost' = TRUE
    /\ UNCHANGED << thread, registry >>

\* Bug: no second task while the registry still names one.
LaunchIfUnregistered(h, loop) ==
    /\ Launching(h)
    /\ HandlerDone(h)
    /\ IF registry = NoTask
         THEN (loop /\ \E w \in Workers : Launch(w, LaunchTypes(h))) \/ LaunchRaises(loop)
         ELSE UNCHANGED << thread, registry, faults, launchLost >>
    /\ UNCHANGED << store, fetched, overrun >>

LaunchTask(h, loop) ==
    /\ Launching(h)
    /\ HandlerDone(h)
    /\ (loop /\ \E w \in Workers : Launch(w, LaunchTypes(h))) \/ LaunchRaises(loop)
    /\ UNCHANGED << store, fetched, overrun >>

-------------------------------------------------------------------------------
\* Handlers: the SELECT and its checks, then the UPDATE and COMMIT

\* The statuses each handler lets pass.
Allowed ==
    [ pause  |-> { "RUNNING", "PENDING" },
      cancel |-> JobStatus \ TERMINAL_STATES,
      resume |-> { "PAUSED", "CRASHED" },
      remove |-> JobStatus \ { "RUNNING" },
      detect |-> { "RUNNING" } ]

Writes == [ pause |-> "PAUSED", cancel |-> "CANCELLED", detect |-> "CRASHED" ]

HandlerRead(h, op) ==
    /\ hpc[h] = "idle"
    /\ status \in Allowed[op]
    /\ op = "detect" => heartbeat = "stale"
    /\ hpc' = [hpc EXCEPT ![h] = op]
    /\ UNCHANGED << store, thread, registry, faults, history >>

\* pause_job, cancel_job, detect_crashed_jobs.  An UPDATE that finds no row raises.
WriteCommit(h, op) ==
    /\ hpc[h] = op
    /\ status' = IF RowExists THEN Writes[op] ELSE status
    /\ overrun' = IF RowExists /\ op # "detect" THEN [w \in Workers |-> 0] ELSE overrun
    /\ HandlerDone(h)
    /\ UNCHANGED << objectTypes, heartbeat, counts, ckpt, raw, dataDir, thread, registry,
                    faults, fetched, launchLost >>

\* resume_job
ResumeCommit(h) ==
    /\ hpc[h] = "resume"
    /\ IF RowExists THEN ThreadLeft /\ status' = "RESUMING" /\ hpc' = [hpc EXCEPT ![h] = "resume_launch"]
                    ELSE HandlerDone(h) /\ UNCHANGED status
    /\ UNCHANGED << objectTypes, heartbeat, counts, ckpt, raw, dataDir, thread, registry, faults,
                    history >>

\* resume_job returns early from RUNNING and RESUMING; resume_scan launches all the same.
ResumeAgain(h) ==
    /\ hpc[h] = "idle"
    /\ status \in { "RUNNING", "RESUMING" }
    /\ ThreadLeft
    /\ hpc' = [hpc EXCEPT ![h] = "resume_launch"]
    /\ UNCHANGED << store, thread, registry, faults, history >>

DeleteRow ==
    /\ status' = "GONE"
    /\ ckpt' = [t \in ObjectTypes |-> NoCkpt]
    /\ heartbeat' = "null"
    /\ counts' = NoStats
    /\ objectTypes' = << >>

\* A DELETE that finds no row is only warned about.
RemoveCommit(h) ==
    /\ hpc[h] = "remove"
    /\ DeleteRow
    /\ hpc' = [hpc EXCEPT ![h] = "rmtree"]
    /\ UNCHANGED << raw, dataDir, thread, registry, faults, history >>

\* shutil.rmtree unlinks file by file, in any order, and then the directory, which must
\* be empty; errors are ignored, so that it may end with anything left over.
UnlinkRaw(h, t) ==
    /\ hpc[h] = "rmtree"
    /\ raw[t] # {}
    /\ raw' = [raw EXCEPT ![t] = {}]
    /\ UNCHANGED << row, ckpt, dataDir, hpc, thread, registry, faults, history >>

RemoveDir(h) ==
    /\ hpc[h] = "rmtree"
    /\ dataDir' = FALSE \/ UNCHANGED dataDir
    /\ ~dataDir' => \A t \in ObjectTypes : raw[t] = {}
    /\ HandlerDone(h)
    /\ UNCHANGED << row, ckpt, raw, thread, registry, faults, history >>

\* cleanup_old_jobs: one DELETE, of any status, and no file is touched.
Cleanup ==
    /\ RowExists
    /\ DeleteRow
    /\ UNCHANGED << raw, dataDir, hpc, thread, registry, faults, history >>

-------------------------------------------------------------------------------
\* _execute_scan, from inside.  A missing row raises JobNotFoundError, for which
\* fail_job finds no row either.

\* update_job_status: SELECT and checks.  InvalidTransitionError ends the thread.
Target == [ run |-> "RUNNING", normalize |-> "NORMALIZING",
            upload |-> "UPLOADING", complete |-> "COMPLETED" ]

CommitLabel == [ run |-> "run_commit", normalize |-> "normalize_commit",
                 upload |-> "upload_commit", complete |-> "complete_commit" ]

AfterCommit == [ run |-> "auth", normalize |-> "upload",
                 upload |-> "complete", complete |-> "complete_stats" ]

UpdateStatusRead(w, stage) ==
    /\ pc[w] = stage
    /\ \/ RowExists /\ CanMove(status, Target[stage]) /\ Goto(w, CommitLabel[stage])
       \/ RowExists /\ ~CanMove(status, Target[stage]) /\ Goto(w, "returned")
       \/ ~RowExists /\ Goto(w, "failing")
    /\ UNCHANGED << store, hpc, locals, registry, faults, history >>

\* Bug: the first heartbeat is left to the first page.
HeartbeatUntouched(stage) == heartbeat

HeartbeatAfter(stage) == IF stage = "run" THEN "fresh" ELSE heartbeat

\* Bug: the row is saved as it was loaded, and a deleted one comes back.
SaveAsLoaded(w, stage) ==
    /\ pc[w] = CommitLabel[stage]
    /\ status' = Target[stage]
    /\ heartbeat' = HeartbeatAfter(stage)
    /\ Goto(w, AfterCommit[stage])
    /\ UNCHANGED << objectTypes, counts, ckpt, raw, dataDir, hpc, locals, registry, faults,
                    history >>

\* The UPDATE and COMMIT.  A flush that finds no row leaves a session in which
\* fail_job raises too: the thread ends without a trace.
UpdateStatusCommit(w, stage) ==
    /\ pc[w] = CommitLabel[stage]
    /\ \/ /\ RowExists
          /\ status' = Target[stage]
          /\ heartbeat' = HeartbeatAfter(stage)
          /\ Goto(w, AfterCommit[stage])
       \/ ~RowExists /\ Goto(w, "returned") /\ UNCHANGED << status, heartbeat >>
    /\ UNCHANGED << objectTypes, counts, ckpt, raw, dataDir, hpc, locals, registry, faults,
                    history >>

\* get_access_token may raise; iterating over an object_types of None does.
Authenticate(w) ==
    /\ pc[w] = "auth"
    /\ \/ Goto(w, "failing") /\ UNCHANGED dataDir
       \/ /\ dataDir' = TRUE
          /\ Goto(w, IF todo[w] = Omitted THEN "failing" ELSE "next_type")
    /\ UNCHANGED << row, ckpt, raw, hpc, locals, registry, faults, history >>

\* for obj_type in object_types, with _should_stop before each type
NextType(w) ==
    /\ pc[w] = "next_type"
    /\ Goto(w, IF todo[w] = << >> THEN "save_stats"
               ELSE IF StopRequested THEN "returned" ELSE "load_ckpt")
    /\ UNCHANGED << store, hpc, locals, registry, faults, history >>

-------------------------------------------------------------------------------
\* _fetch_object_type

Type(w) == Head(todo[w])

LoadCheckpoint(w) ==
    /\ pc[w] = "load_ckpt"
    /\ pages' = [pages EXCEPT ![w] = {}]
    /\ IF RowExists
         THEN /\ cursor' = [cursor EXCEPT ![w] = ckpt[Type(w)].cursor]
              /\ records' = [records EXCEPT ![w] = ckpt[Type(w)].records]
              /\ base' = [base EXCEPT ![w] = ckpt[Type(w)]]
              /\ Goto(w, "check")
         ELSE Goto(w, "failing") /\ UNCHANGED << cursor, records, base >>
    /\ UNCHANGED << store, hpc, todo, stats, registry, faults, history >>

\* Bug: a stop ends the loop over the pages and not the extraction.
BreakOnStop(w) ==
    /\ pc[w] = "check"
    /\ Goto(w, IF StopRequested THEN "save_raw" ELSE "fetch")
    /\ UNCHANGED << store, hpc, locals, registry, faults, history >>

\* Bug: the thread waits where it is for the stop to be lifted.
WaitOnStop(w) ==
    /\ pc[w] = "check"
    /\ ~StopRequested
    /\ Goto(w, "fetch")
    /\ UNCHANGED << store, hpc, locals, registry, faults, history >>

CheckStop(w) ==
    /\ pc[w] = "check"
    /\ Goto(w, IF StopRequested THEN "returned" ELSE "fetch")
    /\ UNCHANGED << store, hpc, locals, registry, faults, history >>

\* Bug: one page too many.
CursorPastTheEnd(c) == IF c < Pages THEN c + 1 ELSE 0

NextCursor(c) == IF c + 1 < Pages THEN c + 1 ELSE 0

\* get_page raises when its retries are exhausted.
FetchPage(w) ==
    /\ pc[w] = "fetch"
    /\ LET page == cursor[w] + 1 IN
         /\ pages' = [pages EXCEPT ![w] = @ \cup {page}]
         /\ fetched' = fetched \cup { << Type(w), page >> }
         /\ cursor' = [cursor EXCEPT ![w] = NextCursor(@)]
    /\ records' = [records EXCEPT ![w] = @ + 1]
    /\ overrun' = IF Stopped THEN [overrun EXCEPT ![w] = @ + 1] ELSE overrun
    /\ Goto(w, "ckpt_read")
    /\ UNCHANGED << store, hpc, todo, stats, base, registry, faults, launchLost >>

\* Bug: a page that cannot be fetched is skipped.
SkipPage(w) ==
    /\ pc[w] = "fetch"
    /\ cursor' = [cursor EXCEPT ![w] = NextCursor(@)]
    /\ records' = [records EXCEPT ![w] = @ + 1]
    /\ Goto(w, "ckpt_read")
    /\ UNCHANGED << store, hpc, todo, pages, stats, base, registry, faults, history >>

FetchFails(w) ==
    /\ pc[w] = "fetch"
    /\ Goto(w, "failing")
    /\ UNCHANGED << store, hpc, locals, registry, faults, history >>

\* save_checkpoint: SELECT.  The row loaded by LoadCheckpoint, if there was one, is
\* still in the session when the first page is saved, so the SELECT does not renew it.
CheckpointRead(w) ==
    /\ pc[w] = "ckpt_read"
    /\ IF RowExists
         THEN /\ base' = IF Cardinality(pages[w]) = 1 /\ base[w] # NoCkpt
                           THEN base ELSE [base EXCEPT ![w] = ckpt[Type(w)]]
              /\ Goto(w, "ckpt_commit")
         ELSE Goto(w, "failing") /\ UNCHANGED base
    /\ UNCHANGED << store, hpc, todo, cursor, records, pages, stats, registry, faults, history >>

\* A flush writes the columns that differ from what the session loaded.
Column(current, loaded, new) == IF new = loaded THEN current ELSE new

\* Bug: no foreign key holds the checkpoints to their job.
SavedWithoutJob(w) == base[w] = NoCkpt => ckpt[Type(w)] = NoCkpt

\* The INSERT may lose to the unique constraint, and both it and the UPDATE to a
\* deleted job.
CheckpointSaved(w) == RowExists /\ (base[w] = NoCkpt => ckpt[Type(w)] = NoCkpt)

\* As above, a failed flush ends the thread without a trace.
CheckpointCommit(w) ==
    /\ pc[w] = "ckpt_commit"
    /\ IF CheckpointSaved(w)
         THEN /\ ckpt' = [ckpt EXCEPT ![Type(w)] =
                   [cursor  |-> Column(@.cursor, base[w].cursor, cursor[w]),
                    records |-> Column(@.records, base[w].records, records[w])]]
              /\ Goto(w, "beat")
         ELSE Goto(w, "returned") /\ UNCHANGED ckpt
    /\ UNCHANGED << row, raw, dataDir, hpc, locals, registry, faults, history >>

\* update_heartbeat, after a page and after a type, whatever the status is.
UpdateHeartbeat(w) ==
    /\ IF RowExists THEN heartbeat' = "fresh" ELSE UNCHANGED heartbeat
    /\ UNCHANGED << status, objectTypes, counts, ckpt, raw, dataDir, hpc, registry, faults,
                    history >>

BeatAfterPage(w) ==
    /\ pc[w] = "beat"
    /\ UpdateHeartbeat(w)
    /\ Goto(w, IF ~RowExists THEN "failing"
               ELSE IF cursor[w] = 0 THEN "save_raw" ELSE "check")
    /\ UNCHANGED locals

\* _save_raw_records overwrites the file with what this call fetched, and makes the
\* directory if it is not there.
SaveRaw(w) ==
    /\ pc[w] = "save_raw"
    /\ raw' = [raw EXCEPT ![Type(w)] = pages[w]]
    /\ dataDir' = TRUE
    /\ stats' = [stats EXCEPT ![w] = [t \in DOMAIN @ \cup {Type(w)} |->
                                        IF t = Type(w) THEN records[w] ELSE @[t]]]
    /\ Goto(w, "type_beat")
    /\ UNCHANGED << row, ckpt, hpc, todo, cursor, records, pages, base, registry, faults,
                    history >>

\* The disk is full, or the directory has been removed since it was made.
SaveRawFails(w) ==
    /\ pc[w] = "save_raw"
    /\ Goto(w, "failing")
    /\ UNCHANGED << store, hpc, locals, registry, faults, history >>

BeatAfterType(w) ==
    /\ pc[w] = "type_beat"
    /\ UpdateHeartbeat(w)
    /\ todo' = [todo EXCEPT ![w] = Tail(@)]
    /\ Goto(w, IF RowExists THEN "next_type" ELSE "failing")
    /\ UNCHANGED << cursor, records, pages, stats, base >>

-------------------------------------------------------------------------------
\* The end of _execute_scan

\* entity_record_counts = total_stats
SaveStats(w) ==
    /\ pc[w] = "save_stats"
    /\ IF RowExists THEN counts' = stats[w] /\ Goto(w, "normalize")
                    ELSE Goto(w, "failing") /\ UNCHANGED counts
    /\ UNCHANGED << status, objectTypes, heartbeat, ckpt, raw, dataDir, hpc, locals, registry,
                    faults, history >>

\* complete_job writes the counts again, unless there are none.
CompleteStats(w) ==
    /\ pc[w] = "complete_stats"
    /\ counts' = IF RowExists /\ stats[w] # NoStats THEN stats[w] ELSE counts
    /\ Goto(w, "returned")
    /\ UNCHANGED << status, objectTypes, heartbeat, ckpt, raw, dataDir, hpc, locals, registry,
                    faults, history >>

\* Bug: whatever ended the thread, the job has failed.
FailWhatever(w) ==
    /\ pc[w] = "failing"
    /\ Goto(w, IF RowExists THEN "fail_commit" ELSE "returned")
    /\ UNCHANGED << store, hpc, locals, registry, faults, history >>

\* fail_job in the handler of every other exception.
FailRead(w) ==
    /\ pc[w] = "failing"
    /\ Goto(w, IF RowExists /\ status \notin TERMINAL_STATES THEN "fail_commit" ELSE "returned")
    /\ UNCHANGED << store, hpc, locals, registry, faults, history >>

FailCommit(w) ==
    /\ pc[w] = "fail_commit"
    /\ status' = IF RowExists THEN "FAILED" ELSE status
    /\ Goto(w, "returned")
    /\ UNCHANGED << objectTypes, heartbeat, counts, ckpt, raw, dataDir, hpc, locals, registry,
                    faults, history >>

\* The thread is over and its locals with it.
Forget(w) ==
    /\ todo' = [todo EXCEPT ![w] = << >>]
    /\ cursor' = [cursor EXCEPT ![w] = 0]
    /\ records' = [records EXCEPT ![w] = 0]
    /\ pages' = [pages EXCEPT ![w] = {}]
    /\ stats' = [stats EXCEPT ![w] = NoStats]
    /\ base' = [base EXCEPT ![w] = NoCkpt]

\* Bug: the entry is left behind.
KeepEntry(w) ==
    /\ pc[w] = "returned"
    /\ Goto(w, "done")
    /\ Forget(w)
    /\ UNCHANGED << store, hpc, registry, faults, history >>

\* _run_extraction_in_background: the finally clause pops whatever the entry holds.
Unregister(w) ==
    /\ pc[w] = "returned"
    /\ Goto(w, "done")
    /\ Forget(w)
    /\ registry' = NoTask
    /\ UNCHANGED << store, hpc, faults, history >>

-------------------------------------------------------------------------------
\* Faults and time

\* A database call of a thread fails; fail_job may then get through or not.  At "auth" it
\* is the reading back of the row after the COMMIT of RUNNING.
DbLabels == { "run", "run_commit", "auth", "load_ckpt", "ckpt_read", "ckpt_commit", "beat", "type_beat",
              "save_stats", "normalize", "normalize_commit", "upload", "upload_commit",
              "complete", "complete_commit", "complete_stats" }

DbError(w) ==
    /\ pc[w] \in DbLabels
    /\ Fault
    /\ Goto(w, "failing") \/ Goto(w, "returned")
    /\ UNCHANGED << store, hpc, locals, registry, history >>

\* When its query fails _should_stop says no, and the thread goes on.
StopUnseen(w) ==
    /\ Fault
    /\ \/ pc[w] = "next_type" /\ todo[w] # << >> /\ Goto(w, "load_ckpt")
       \/ pc[w] = "check" /\ Goto(w, "fetch")
    /\ UNCHANGED << store, hpc, locals, registry, history >>

\* Nothing beats while a page is being fetched, retried or waited for.
HeartbeatAges ==
    /\ heartbeat = "fresh"
    /\ heartbeat' = "stale"
    /\ UNCHANGED << status, objectTypes, counts, ckpt, raw, dataDir, hpc, thread, registry,
                    faults, history >>

\* The process ends and is started again; nothing at startup looks at the jobs.
Crash ==
    /\ Fault
    /\ pc' = [w \in Workers |-> IF Live(w) THEN "done" ELSE pc[w]]
    /\ todo' = [w \in Workers |-> << >>]
    /\ cursor' = [w \in Workers |-> 0]
    /\ records' = [w \in Workers |-> 0]
    /\ pages' = [w \in Workers |-> {}]
    /\ stats' = [w \in Workers |-> NoStats]
    /\ base' = [w \in Workers |-> NoCkpt]
    /\ hpc' = [h \in Handlers |-> "idle"]
    /\ registry' = NoTask
    /\ UNCHANGED << store, history >>

-------------------------------------------------------------------------------
WorkerStep(w) ==
    \/ \E stage \in DOMAIN Target : UpdateStatusRead(w, stage)
    \/ \E stage \in DOMAIN Target : UpdateStatusCommit(w, stage)
    \/ Authenticate(w)
    \/ NextType(w)
    \/ LoadCheckpoint(w)
    \/ CheckStop(w)
    \/ FetchPage(w)
    \/ FetchFails(w)
    \/ CheckpointRead(w)
    \/ CheckpointCommit(w)
    \/ BeatAfterPage(w)
    \/ SaveRaw(w)
    \/ SaveRawFails(w)
    \/ BeatAfterType(w)
    \/ SaveStats(w)
    \/ CompleteStats(w)
    \/ FailRead(w)
    \/ FailCommit(w)
    \/ Unregister(w)
    \/ DbError(w)
    \/ StopUnseen(w)

HandlerStep(h) ==
    \/ \E types \in Requests : StartScan(h, types)
    \/ \E op \in DOMAIN Allowed : HandlerRead(h, op)
    \/ \E op \in DOMAIN Writes : WriteCommit(h, op)
    \/ ResumeCommit(h)
    \/ ResumeAgain(h)
    \/ \E loop \in CallerHasLoop : LaunchTask(h, loop)
    \/ RemoveCommit(h)
    \/ \E t \in ObjectTypes : UnlinkRaw(h, t)
    \/ RemoveDir(h)

\* Everything but the end of the process.
ScanStep ==
    \/ \E h \in Handlers : HandlerStep(h)
    \/ Cleanup
    \/ \E w \in Workers : WorkerStep(w)
    \/ HeartbeatAges

Next == ScanStep \/ Crash

Spec == Init /\ [][Next]_vars

\* The operating system schedules every thread, a request to HubSpot has a timeout, and
\* a handler that has committed goes on to its launch.  That a database call ends is
\* assumed of the driver and the server: database.py sets no timeout.  Nobody is obliged
\* to send a request.
FairSpec ==
    /\ Spec
    /\ \A w \in Workers : WF_vars(WorkerStep(w))
    /\ \A h \in Handlers : WF_vars(\E loop \in CallerHasLoop : LaunchTask(h, loop))

-------------------------------------------------------------------------------
\* Safety

Checkpoint == [cursor : 0..(Pages - 1), records : Nat]

Labels == { "idle", "run", "run_commit", "auth", "next_type", "load_ckpt", "check", "fetch",
            "ckpt_read", "ckpt_commit", "beat", "save_raw", "type_beat", "save_stats",
            "normalize", "normalize_commit", "upload", "upload_commit", "complete",
            "complete_commit", "complete_stats", "failing", "fail_commit", "returned", "done" }

StatsOK(f) == DOMAIN f \subseteq ObjectTypes /\ \A t \in DOMAIN f : f[t] \in Nat

\* Types of the state, and what each thread's locals may hold, but for the counts: a
\* normalize request writes them too, by table.
ScanTypeOK ==
    /\ status \in JobStatus \cup { "NEVER", "GONE" }
    /\ objectTypes \in Seq(ObjectTypes) \cup {Omitted}
    /\ heartbeat \in { "null", "fresh", "stale" }
    /\ ckpt \in [ObjectTypes -> Checkpoint]
    /\ raw \in [ObjectTypes -> SUBSET (1..Pages)]
    /\ dataDir \in BOOLEAN
    /\ hpc \in [Handlers -> DOMAIN Allowed \cup LaunchLabels \cup { "idle", "rmtree" }]
    /\ pc \in [Workers -> Labels]
    /\ todo \in [Workers -> Seq(ObjectTypes) \cup {Omitted}]
    /\ cursor \in [Workers -> 0..(Pages - 1)]
    /\ records \in [Workers -> Nat]
    /\ pages \in [Workers -> SUBSET (1..Pages)]
    /\ \A w \in Workers : StatsOK(stats[w])
    /\ base \in [Workers -> Checkpoint]
    /\ registry \in Workers \cup {NoTask}
    /\ faults \in 0..MaxFaults
    /\ fetched \subseteq ObjectTypes \X (1..Pages)
    /\ overrun \in [Workers -> Nat]
    /\ launchLost \in BOOLEAN

\* Types of the state.
TypeOK == ScanTypeOK /\ StatsOK(counts)

Fetched(t) == { p \in 1..Pages : << t, p >> \in fetched }

\* A checkpoint never runs ahead of the fetching, however many threads write it and
\* in whatever order, with columns mixed from two flushes: every page before its
\* cursor was fetched, and every page at all when it says that the type is finished.
NoSkippedPage ==
    \A t \in ObjectTypes :
        /\ 1..ckpt[t].cursor \subseteq Fetched(t)
        /\ ckpt[t].records > 0 /\ ckpt[t].cursor = 0 => Fetched(t) = 1..Pages

RequestedTypes == { ResumeTypes[i] : i \in DOMAIN ResumeTypes }

\* A COMPLETED scan has fetched every page of every type it was asked for, across
\* pauses, crashes and concurrent threads; each type has a file that reaches the last
\* page and a reported count.  Of how many records is not said: a row mixed from the
\* columns of two flushes may go on from one thread's cursor with another's count.
CompletedCovers ==
    status = "COMPLETED" =>
        \A t \in RequestedTypes :
            /\ Fetched(t) = 1..Pages
            /\ Pages \in raw[t]
            /\ t \in DOMAIN counts /\ counts[t] > 0

\* A raw file has no hole: it is everything from some page to the last one.
RawIsSuffix ==
    \A t \in ObjectTypes : \A p \in raw[t] : p..Pages \subseteq raw[t]

\* Cooperative pause and cancel: from the moment either is committed, and for as
\* long as it stands, no thread of the scan fetches more than the page it was at, but
\* for one more each time that its look at the status fails.
OverrunBounded == \A w \in Workers : overrun[w] <= 1 + faults

\* _running_tasks holds no task that has ended.
RegistryIsLive == registry # NoTask => Live(registry)

\* A RUNNING job can be found by crash detection, whatever has been interleaved.
RunningHasHeartbeat == status = "RUNNING" => heartbeat # "null"

\* A deleted scan leaves no checkpoint rows, and no late thread brings any back.
NoOrphanCheckpoint == ~RowExists => \A t \in ObjectTypes : ckpt[t] = NoCkpt

\* Where a thread is bound to move a job on from each of the active statuses.  One
\* about to read a status it cannot start from will only raise.
Carries ==
    LET writing == { "normalize_commit", "upload_commit", "complete_commit",
                     "failing", "fail_commit" }
        extracting == { "auth", "next_type", "load_ckpt", "check", "fetch", "ckpt_read",
                        "ckpt_commit", "beat", "save_raw", "type_beat", "save_stats" }
    IN [ PENDING     |-> { "run", "run_commit" },
         RESUMING    |-> { "run", "run_commit" },
         RUNNING     |-> extracting \cup { "normalize" } \cup writing,
         NORMALIZING |-> { "upload" } \cup writing,
         UPLOADING   |-> { "complete" } \cup writing ]

\* A job that no thread has taken up: a handler is about to launch one, or the launch
\* that was last asked for has raised.
AwaitsThread ==
    status \in { "PENDING", "RESUMING" } /\ (launchLost \/ \E h \in Handlers : Launching(h))

\* As long as the process lives and the database answers, no job is left behind that a
\* launch has reached: a job in an active status always has a thread positioned to move it
\* on, lost updates, doubled threads and lost INSERTs included.  The one gap is between a
\* PENDING or RESUMING that is committed and its thread.
ActiveHasWorker ==
    faults = 0 /\ status \in Active =>
        (\E w \in Workers : pc[w] \in Carries[status]) \/ AwaitsThread

-------------------------------------------------------------------------------
\* Liveness, under FairSpec

\* Every background thread ends: a pause, a cancel, a removal or another thread can
\* neither block it nor send it round for ever.
ThreadsEnd == \A w \in Workers : Live(w) ~> ~Live(w)

\* A job does not stay in an active status: each time it leaves it, for a pause, for
\* crash detection, or for good.
ActiveSettles == (status \in Active) ~> (status \notin Active)

-------------------------------------------------------------------------------
\* What an unlocked job row still promises.  The intents are the statuses found allowed
\* and about to be committed; a deletion checks nothing that it would have to keep.

HandlerIntent ==
    [ pause |-> "PAUSED", cancel |-> "CANCELLED", detect |-> "CRASHED", resume |-> "RESUMING" ]

ThreadIntent ==
    [ run_commit |-> "RUNNING", normalize_commit |-> "NORMALIZING",
      upload_commit |-> "UPLOADING", complete_commit |-> "COMPLETED", fail_commit |-> "FAILED" ]

IntentAt(intents, label) == IF label \in DOMAIN intents THEN intents[label] ELSE "none"

Agents == ({ "handler" } \X Handlers) \cup ({ "thread" } \X Workers)

RowState == IF status = "NEVER" THEN "NONE" ELSE status

Intent ==
    [ a \in Agents |-> IF a[1] = "handler" THEN IntentAt(HandlerIntent, hpc[a[2]])
                                           ELSE IntentAt(ThreadIntent, pc[a[2]]) ]

Unlocked == INSTANCE UnlockedLifecycle WITH state <- RowState, intent <- Intent

\* The row is the row of UnlockedLifecycle: each write of a status, by whichever handler or
\* thread, is of a status that it found allowed after one the row had, and a deleted row
\* never comes back.
FollowsUnlocked == Unlocked!Spec

\* A terminal status stands once the operations are over that looked at the row before it.
TerminalSettles == Unlocked!SettledIsFinal

-------------------------------------------------------------------------------
\* What comments of the repository promise and the code does not keep

\* TERMINAL_STATES is introduced by "no transitions out of these".
TerminalIsFinal ==
    [][(status \in TERMINAL_STATES) => (status' \in { status, "GONE" })]_vars

\* A completed scan's raw files, kept "for later normalization", hold the records of
\* every page that the scan has fetched and reports.
CompletedDataIsWhole ==
    status = "COMPLETED" => \A t \in RequestedTypes : raw[t] = 1..Pages

\* The start endpoint "creates a job record and kicks off background extraction".
PendingIsPickedUp == (status = "PENDING") ~> (status # "PENDING")
===============================================================================
