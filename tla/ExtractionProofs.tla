--------------------------- MODULE ExtractionProofs ---------------------------
(***************************************************************************)
(* Theorems about Extraction for every number of threads, handlers, types, *)
(* pages and faults: the types, and the invariants about the job row, the  *)
(* registry of tasks and the threads.  Those about the data (raw files,    *)
(* checkpoints, what COMPLETED covers) are in ExtractionDataProofs.        *)
(***************************************************************************)
EXTENDS Extraction, TLAPS

\* The labels at which a thread is working on a type.
InType == { "load_ckpt", "check", "fetch", "ckpt_read", "ckpt_commit", "beat", "save_raw",
            "type_beat" }

\* A thread has the scan's types in hand once it goes through them, and inside a type
\* that one is still among them.
Placed(w) ==
    /\ pc[w] = "next_type" => todo[w] # Omitted
    /\ pc[w] \in InType => todo[w] # Omitted /\ todo[w] # << >>

\* ScanTypeOK with what the types of a step rest on: Type(w) is a type only for a thread
\* that is Placed.  The counts are not in it, for ScanTypeOK holds beside normalize
\* requests too, which write counts by table.
TypeInv == ScanTypeOK /\ DOMAIN stats = Workers /\ \A w \in Workers : Placed(w)

\* The type at hand and those after it.
LEMMA HeadLemma ==
    ASSUME NEW w \in Workers, todo \in [Workers -> Seq(ObjectTypes) \cup {Omitted}],
           todo[w] # Omitted, todo[w] # << >>
    PROVE  Type(w) \in ObjectTypes /\ Tail(todo[w]) \in Seq(ObjectTypes)
  BY DEF Type

\* The row that is not there is written as a checkpoint at page 0.
LEMMA NoCkptIsCkpt == NoCkpt \in Checkpoint
  BY PagesAssumption DEF NoCkpt, Checkpoint

\* No counts are counts.
LEMMA NoStatsOK == StatsOK(NoStats)
  BY DEF StatsOK, NoStats

\* Initially every variable has its type.
LEMMA InitTypes == Init => TypeInv
<1> SUFFICES ASSUME Init PROVE TypeInv
  OBVIOUS
<1>1. /\ 0 \in 0..(Pages - 1) /\ 0 \in 0..MaxFaults
      /\ << >> \in Seq(ObjectTypes)
  BY PagesAssumption, FaultAssumption
<1>2. ScanTypeOK
  BY <1>1, NoCkptIsCkpt, NoStatsOK DEF Init, ScanTypeOK, Labels, StatsOK
<1>3. DOMAIN stats = Workers /\ \A w \in Workers : Placed(w)
  BY DEF Init, Placed, InType
<1> QED
  BY <1>2, <1>3 DEF TypeInv

\* asyncio.create_task keeps the types of a thread.
LEMMA LaunchKeepsTypes ==
    ASSUME TypeInv, NEW w \in Workers, NEW types \in Seq(ObjectTypes) \cup {Omitted},
           Launch(w, types)
    PROVE  /\ pc' \in [Workers -> Labels]
           /\ todo' \in [Workers -> Seq(ObjectTypes) \cup {Omitted}]
           /\ \A v \in Workers : Placed(v)'
<1> USE DEF TypeInv, ScanTypeOK, Placed, InType
<1>1. pc' = [pc EXCEPT ![w] = "run"] /\ todo' = [todo EXCEPT ![w] = types]
  BY DEF Launch, Goto
<1>2. pc' \in [Workers -> Labels]
  BY <1>1 DEF Labels
<1>3. ASSUME NEW v \in Workers PROVE Placed(v)'
  BY <1>1
<1> QED
  BY <1>1, <1>2, <1>3

\* What a resumed thread is asked for are types.
LEMMA ResumeTypesOK == ScanTypeOK => ResumeTypes \in Seq(ObjectTypes)
  BY DEF ScanTypeOK, ResumeTypes

\* A deletion leaves nothing of the row and its checkpoints but values of their types.
LEMMA DeleteTypes ==
    ASSUME DeleteRow
    PROVE  /\ status' = "GONE"
           /\ objectTypes' \in Seq(ObjectTypes)
           /\ heartbeat' = "null"
           /\ StatsOK(counts)'
           /\ ckpt' \in [ObjectTypes -> Checkpoint]
  BY NoCkptIsCkpt, NoStatsOK DEF DeleteRow, StatsOK

\* A fault is counted within its bound.
LEMMA FaultLemma == ScanTypeOK /\ Fault => faults' \in 0..MaxFaults
  BY FaultAssumption DEF ScanTypeOK, Fault

\* What a handler launches a thread with are types, or none named.
LEMMA LaunchTypesOK ==
    ASSUME ScanTypeOK, NEW h
    PROVE  LaunchTypes(h) \in Seq(ObjectTypes) \cup {Omitted}
  BY ResumeTypesOK DEF ScanTypeOK, LaunchTypes

\* A launch keeps the types, whether create_task raises or not.
LEMMA LaunchTaskTypes ==
    ASSUME TypeInv, NEW h \in Handlers, NEW loop, LaunchTask(h, loop)
    PROVE  TypeInv'
<1>t. TypeInv /\ hpc' \in [Handlers -> DOMAIN Allowed \cup LaunchLabels \cup { "idle", "rmtree" }]
  BY DEF LaunchTask, HandlerDone, TypeInv, ScanTypeOK
<1> USE <1>t DEF LaunchTask, TypeInv, ScanTypeOK, Placed, store, row, thread, locals
<1>1. ASSUME NEW w \in Workers, Launch(w, LaunchTypes(h)) PROVE TypeInv'
  <2>1. /\ pc' \in [Workers -> Labels]
        /\ todo' \in [Workers -> Seq(ObjectTypes) \cup {Omitted}]
        /\ \A v \in Workers : Placed(v)'
    BY <1>1, LaunchKeepsTypes, LaunchTypesOK
  <2> QED
    BY <1>1, <2>1 DEF Launch
<1>2. ASSUME LaunchRaises(loop) PROVE TypeInv'
  BY <1>2, FaultLemma DEF LaunchRaises
<1> QED
  BY <1>1, <1>2

\* A step of a handler keeps the types.
LEMMA HandlerTypes ==
    ASSUME TypeInv, NEW h \in Handlers, HandlerStep(h)
    PROVE TypeInv'
<1> USE DEF TypeInv, ScanTypeOK, Placed, store, row, thread, locals, history
<1>1. ASSUME NEW op \in DOMAIN Allowed, HandlerRead(h, op) PROVE TypeInv'
  BY <1>1 DEF HandlerRead
<1>2. ASSUME NEW op \in DOMAIN Writes, WriteCommit(h, op) PROVE TypeInv'
  BY <1>2 DEF WriteCommit, Writes, HandlerDone, JobStatus
<1>3. CASE ResumeCommit(h) \/ ResumeAgain(h)
  BY <1>3 DEF ResumeCommit, ResumeAgain, HandlerDone, LaunchLabels, JobStatus
<1>4. CASE RemoveCommit(h)
  BY <1>4, DeleteTypes DEF RemoveCommit
<1>5. ASSUME NEW t \in ObjectTypes, UnlinkRaw(h, t) PROVE TypeInv'
  BY <1>5 DEF UnlinkRaw
<1>6. CASE RemoveDir(h)
  BY <1>6 DEF RemoveDir, HandlerDone
<1>7. ASSUME NEW types \in Requests, StartScan(h, types) PROVE TypeInv'
  BY <1>7, RequestAssumption DEF StartScan, LaunchLabels, JobStatus
<1> QED
  BY <1>1, <1>2, <1>3, <1>4, <1>5, <1>6, <1>7, LaunchTaskTypes DEF HandlerStep

\* The labels and the status of each stage of a thread.
LEMMA StageLemma ==
    ASSUME NEW stage \in DOMAIN Target
    PROVE  /\ stage \in { "run", "normalize", "upload", "complete" }
           /\ Target[stage] \in { "RUNNING", "NORMALIZING", "UPLOADING", "COMPLETED" }
           /\ Target[stage] = "RUNNING" <=> stage = "run"
           /\ CommitLabel[stage] \in { "run_commit", "normalize_commit", "upload_commit",
                                       "complete_commit" }
           /\ AfterCommit[stage] \in { "auth", "upload", "complete", "complete_stats" }
  BY DEF Target, CommitLabel, AfterCommit

\* Where a step of a thread leaves it, and with which types still to do.
LEMMA WorkerPlaces ==
    ASSUME TypeInv, NEW w \in Workers, WorkerStep(w)
    PROVE  /\ pc' \in [Workers -> Labels]
           /\ todo' \in [Workers -> Seq(ObjectTypes) \cup {Omitted}]
           /\ \A v \in Workers : Placed(v)'
<1> DEFINE Goal == /\ pc' \in [Workers -> Labels]
                   /\ todo' \in [Workers -> Seq(ObjectTypes) \cup {Omitted}]
                   /\ \A v \in Workers : Placed(v)'
<1>t. /\ pc \in [Workers -> Labels]
      /\ todo \in [Workers -> Seq(ObjectTypes) \cup {Omitted}]
      /\ \A v \in Workers : Placed(v)
  BY DEF TypeInv, ScanTypeOK
<1>g. ASSUME NEW label \in Labels, Goto(w, label), UNCHANGED todo,
             label = "next_type" => todo[w] # Omitted,
             label \in InType => todo[w] # Omitted /\ todo[w] # << >>
      PROVE  Goal
  BY <1>g, <1>t DEF Goto, Placed
<1>p. Placed(w)
  BY <1>t
<1>1. ASSUME NEW stage \in DOMAIN Target, UpdateStatusRead(w, stage) PROVE Goal
  <2>1. {CommitLabel[stage], "returned", "failing"} \subseteq Labels \ (InType \cup { "next_type" })
    BY StageLemma DEF Labels, InType
  <2> QED
    BY <1>1, <1>g, <2>1 DEF UpdateStatusRead, locals
<1>2. ASSUME NEW stage \in DOMAIN Target, UpdateStatusCommit(w, stage) PROVE Goal
  <2>1. {AfterCommit[stage], "returned"} \subseteq Labels \ (InType \cup { "next_type" })
    BY StageLemma DEF Labels, InType
  <2> QED
    BY <1>2, <1>g, <2>1 DEF UpdateStatusCommit, locals
<1>3. CASE Authenticate(w) \/ FetchFails(w) \/ SaveRawFails(w)
  BY <1>3, <1>g DEF Authenticate, FetchFails, SaveRawFails, locals, Labels, InType
<1>4. CASE NextType(w) \/ LoadCheckpoint(w) \/ CheckStop(w)
  BY <1>4, <1>g, <1>p DEF NextType, LoadCheckpoint, CheckStop, locals, Placed, Labels, InType
<1>5. CASE FetchPage(w) \/ CheckpointRead(w) \/ CheckpointCommit(w)
  BY <1>5, <1>g, <1>p
  DEF FetchPage, CheckpointRead, CheckpointCommit, locals, Placed, Labels, InType
<1>6. CASE BeatAfterPage(w) \/ SaveRaw(w)
  BY <1>6, <1>g, <1>p DEF BeatAfterPage, SaveRaw, locals, Placed, Labels, InType
<1>7. CASE BeatAfterType(w)
  <2>1. Tail(todo[w]) \in Seq(ObjectTypes) /\ Tail(todo[w]) # Omitted
    BY <1>7, <1>t, <1>p, HeadLemma, RequestAssumption DEF BeatAfterType, Placed, InType
  <2>2. /\ todo' = [todo EXCEPT ![w] = Tail(todo[w])]
        /\ pc' = [pc EXCEPT ![w] = "next_type"] \/ pc' = [pc EXCEPT ![w] = "failing"]
    BY <1>7 DEF BeatAfterType, Goto
  <2> QED
    BY <1>t, <2>1, <2>2 DEF Placed, Labels, InType
<1>8. CASE SaveStats(w) \/ CompleteStats(w) \/ FailRead(w) \/ FailCommit(w)
  BY <1>8, <1>g DEF SaveStats, CompleteStats, FailRead, FailCommit, locals, Labels, InType
<1>9. CASE Unregister(w)
  <2>1. pc' = [pc EXCEPT ![w] = "done"] /\ todo' = [todo EXCEPT ![w] = << >>]
    BY <1>9 DEF Unregister, Goto, Forget
  <2> QED
    BY <1>t, <2>1 DEF Placed, Labels, InType
<1>10. CASE DbError(w) \/ StopUnseen(w)
  BY <1>10, <1>g, <1>p DEF DbError, StopUnseen, locals, Placed, Labels, InType
<1> QED
  BY <1>1, <1>2, <1>3, <1>4, <1>5, <1>6, <1>7, <1>8, <1>9, <1>10 DEF WorkerStep

\* A step of a thread keeps the types.
LEMMA WorkerTypes ==
    ASSUME TypeInv, NEW w \in Workers, WorkerStep(w)
    PROVE  TypeInv'
<1>p. /\ pc' \in [Workers -> Labels]
      /\ todo' \in [Workers -> Seq(ObjectTypes) \cup {Omitted}]
      /\ \A v \in Workers : Placed(v)'
  BY WorkerPlaces
<1>t. ScanTypeOK /\ DOMAIN stats = Workers
  BY DEF TypeInv
<1>h. pc[w] \in InType => Type(w) \in ObjectTypes
  BY HeadLemma DEF TypeInv, ScanTypeOK, Placed
<1>q. ScanTypeOK' /\ DOMAIN stats' = Workers
  <2> USE <1>p, <1>t DEF ScanTypeOK, store, row, thread, locals, history
  <2>1. ASSUME NEW stage \in DOMAIN Target, UpdateStatusCommit(w, stage)
        PROVE  ScanTypeOK' /\ DOMAIN stats' = Workers
    <3>1. /\ status' \in JobStatus \cup { "NEVER", "GONE" }
          /\ heartbeat' \in { "null", "fresh", "stale" }
      BY <2>1, StageLemma DEF UpdateStatusCommit, HeartbeatAfter, JobStatus
    <3> QED
      BY <2>1, <3>1 DEF UpdateStatusCommit
  <2>2. CASE Authenticate(w)
    BY <2>2 DEF Authenticate
  <2>3. CASE LoadCheckpoint(w)
    <3>1. /\ ckpt[Type(w)] \in Checkpoint
          /\ ckpt[Type(w)].cursor \in 0..(Pages - 1)
          /\ ckpt[Type(w)].records \in Nat
      BY <2>3, <1>h DEF LoadCheckpoint, InType, Checkpoint
    <3>2. /\ pages' = [pages EXCEPT ![w] = {}]
          /\ cursor' = cursor \/ cursor' = [cursor EXCEPT ![w] = ckpt[Type(w)].cursor]
          /\ records' = records \/ records' = [records EXCEPT ![w] = ckpt[Type(w)].records]
          /\ base' = base \/ base' = [base EXCEPT ![w] = ckpt[Type(w)]]
          /\ UNCHANGED << store, hpc, stats, registry, faults, history >>
      BY <2>3 DEF LoadCheckpoint
    <3>3. /\ cursor' \in [Workers -> 0..(Pages - 1)] /\ records' \in [Workers -> Nat]
          /\ base' \in [Workers -> Checkpoint] /\ pages' \in [Workers -> SUBSET (1..Pages)]
      BY <3>1, <3>2
    <3> QED
      BY <3>2, <3>3
  <2>4. CASE FetchPage(w)
    <3>1. Type(w) \in ObjectTypes
      BY <2>4, <1>h DEF FetchPage, InType
    <3>2. /\ cursor[w] + 1 \in 1..Pages /\ NextCursor(cursor[w]) \in 0..(Pages - 1)
          /\ records[w] + 1 \in Nat /\ overrun[w] + 1 \in Nat
      BY PagesAssumption DEF NextCursor
    <3>3. /\ cursor' = [cursor EXCEPT ![w] = NextCursor(cursor[w])]
          /\ pages' = [pages EXCEPT ![w] = pages[w] \cup {cursor[w] + 1}]
          /\ records' = [records EXCEPT ![w] = records[w] + 1]
          /\ fetched' = fetched \cup { << Type(w), cursor[w] + 1 >> }
          /\ overrun' = overrun \/ overrun' = [overrun EXCEPT ![w] = overrun[w] + 1]
          /\ UNCHANGED << store, hpc, stats, base, registry, faults, launchLost >>
      BY <2>4 DEF FetchPage
    <3>4. cursor' \in [Workers -> 0..(Pages - 1)]
      BY <3>2, <3>3
    <3>5. records' \in [Workers -> Nat] /\ overrun' \in [Workers -> Nat]
      BY <3>2, <3>3
    <3>6. pages' \in [Workers -> SUBSET (1..Pages)]
      <4>1. pages[w] \cup {cursor[w] + 1} \in SUBSET (1..Pages)
        BY <3>2
      <4> QED
        BY <3>3, <4>1
    <3>7. fetched' \subseteq ObjectTypes \X (1..Pages)
      BY <3>1, <3>2, <3>3
    <3> QED
      BY <3>3, <3>4, <3>5, <3>6, <3>7
  <2>5. CASE CheckpointRead(w)
    <3>1. ckpt[Type(w)] \in Checkpoint
      BY <2>5, <1>h DEF CheckpointRead, InType
    <3>2. base' = base \/ base' = [base EXCEPT ![w] = ckpt[Type(w)]]
      BY <2>5, Zenon DEF CheckpointRead
    <3>3. base' \in [Workers -> Checkpoint]
      BY <3>1, <3>2
    <3> QED
      BY <2>5, <3>3 DEF CheckpointRead
  <2>6. CASE CheckpointCommit(w)
    <3> DEFINE new == [cursor  |-> Column(ckpt[Type(w)].cursor, base[w].cursor, cursor[w]),
                       records |-> Column(ckpt[Type(w)].records, base[w].records, records[w])]
    <3>1. Type(w) \in ObjectTypes
      BY <2>6, <1>h DEF CheckpointCommit, InType
    <3>2. new \in Checkpoint
      BY <3>1 DEF Column, Checkpoint
    <3>3. ckpt' = ckpt \/ ckpt' = [ckpt EXCEPT ![Type(w)] = new]
      BY <2>6 DEF CheckpointCommit
    <3> HIDE DEF new
    <3>4. ckpt' \in [ObjectTypes -> Checkpoint]
      BY <3>1, <3>2, <3>3
    <3> QED
      BY <2>6, <3>4 DEF CheckpointCommit
  <2>7. CASE BeatAfterPage(w)
    BY <2>7 DEF BeatAfterPage, UpdateHeartbeat
  <2>8. CASE SaveRaw(w)
    <3>1. Type(w) \in ObjectTypes
      BY <2>8, <1>h DEF SaveRaw, InType
    <3>2. /\ raw' = [raw EXCEPT ![Type(w)] = pages[w]]
          /\ stats' = [stats EXCEPT ![w] = [t \in DOMAIN stats[w] \cup {Type(w)} |->
                                             IF t = Type(w) THEN records[w] ELSE stats[w][t]]]
          /\ dataDir' = TRUE
      BY <2>8 DEF SaveRaw
    <3>3. raw' \in [ObjectTypes -> SUBSET (1..Pages)]
      BY <3>1, <3>2
    <3>4. StatsOK([t \in DOMAIN stats[w] \cup {Type(w)} |->
                     IF t = Type(w) THEN records[w] ELSE stats[w][t]])
      BY <3>1 DEF StatsOK
    <3>5. \A v \in Workers : StatsOK(stats'[v])
      BY <3>2, <3>4
    <3> QED
      BY <2>8, <3>2, <3>3, <3>5 DEF SaveRaw
  <2>9. CASE BeatAfterType(w)
    BY <2>9 DEF BeatAfterType, UpdateHeartbeat
  <2>10. CASE SaveStats(w)
    BY <2>10 DEF SaveStats
  <2>11. CASE CompleteStats(w)
    BY <2>11 DEF CompleteStats
  <2>12. CASE FailCommit(w)
    BY <2>12 DEF FailCommit, JobStatus
  <2>13. CASE Unregister(w)
    <3>1. 0 \in 0..(Pages - 1) /\ NoCkpt \in Checkpoint /\ StatsOK(NoStats)
      BY NoCkptIsCkpt, NoStatsOK, PagesAssumption
    <3> QED
      BY <2>13, <3>1 DEF Unregister, Forget
  <2>14. CASE DbError(w) \/ StopUnseen(w)
    BY <2>14, FaultLemma DEF DbError, StopUnseen
  <2>15. CASE \/ \E stage \in DOMAIN Target : UpdateStatusRead(w, stage)
              \/ NextType(w) \/ CheckStop(w) \/ FetchFails(w) \/ SaveRawFails(w) \/ FailRead(w)
    BY <2>15 DEF UpdateStatusRead, NextType, CheckStop, FetchFails, SaveRawFails, FailRead
  <2> QED
    BY <2>1, <2>2, <2>3, <2>4, <2>5, <2>6, <2>7, <2>8, <2>9, <2>10, <2>11, <2>12, <2>13, <2>14,
       <2>15
    DEF WorkerStep
<1> QED
  BY <1>p, <1>q DEF TypeInv

\* Every step keeps the types.
LEMMA StepTypes == TypeInv /\ [Next]_vars => TypeInv'
<1> SUFFICES ASSUME TypeInv, [Next]_vars PROVE TypeInv'
  OBVIOUS
<1> USE DEF TypeInv, ScanTypeOK, Placed, store, row, thread, locals, history
<1>3. CASE Cleanup
  BY <1>3, DeleteTypes DEF Cleanup
<1>4. CASE HeartbeatAges
  BY <1>4 DEF HeartbeatAges
<1>5. CASE Crash
  BY <1>5, NoCkptIsCkpt, NoStatsOK, PagesAssumption, FaultLemma
  DEF Crash, Labels, InType, Live
<1>6. CASE UNCHANGED vars
  BY <1>6 DEF vars
<1> QED
  BY <1>3, <1>4, <1>5, <1>6, HandlerTypes, WorkerTypes DEF Next, ScanStep

\* The job's counts are those of one of its threads, or none.
LEMMA CountsSteps ==
    ASSUME [Next]_vars
    PROVE  counts' \in { counts, NoStats } \/ \E w \in Workers : counts' = stats[w]
<1> DEFINE Goal == counts' \in { counts, NoStats } \/ \E w \in Workers : counts' = stats[w]
<1> USE DEF store, row, thread, locals
<1>1. ASSUME NEW w \in Workers, WorkerStep(w) PROVE Goal
  <2>1. CASE SaveStats(w) \/ CompleteStats(w)
    BY <2>1 DEF SaveStats, CompleteStats
  <2>2. CASE \/ \E stage \in DOMAIN Target :
                  UpdateStatusRead(w, stage) \/ UpdateStatusCommit(w, stage)
             \/ Authenticate(w) \/ NextType(w) \/ LoadCheckpoint(w) \/ CheckStop(w)
             \/ FetchPage(w) \/ FetchFails(w) \/ CheckpointRead(w) \/ CheckpointCommit(w)
    BY <2>2
    DEF UpdateStatusRead, UpdateStatusCommit, Authenticate, NextType, LoadCheckpoint,
        CheckStop, FetchPage, FetchFails, CheckpointRead, CheckpointCommit
  <2>3. CASE \/ BeatAfterPage(w) \/ SaveRaw(w) \/ SaveRawFails(w) \/ BeatAfterType(w)
             \/ FailRead(w) \/ FailCommit(w) \/ Unregister(w) \/ DbError(w) \/ StopUnseen(w)
    BY <2>3
    DEF BeatAfterPage, SaveRaw, SaveRawFails, BeatAfterType, UpdateHeartbeat, FailRead,
        FailCommit, Unregister, DbError, StopUnseen
  <2> QED
    BY <1>1, <2>1, <2>2, <2>3 DEF WorkerStep
<1>2. ASSUME NEW h \in Handlers, HandlerStep(h) PROVE Goal
  BY <1>2
  DEF HandlerStep, StartScan, HandlerRead, WriteCommit, ResumeCommit, ResumeAgain, LaunchTask,
      RemoveCommit, UnlinkRaw, RemoveDir, DeleteRow
<1>3. CASE Cleanup \/ HeartbeatAges \/ Crash \/ UNCHANGED vars
  BY <1>3 DEF Cleanup, DeleteRow, HeartbeatAges, Crash, vars
<1> QED
  BY <1>1, <1>2, <1>3 DEF Next, ScanStep

\* TypeInv, for the proofs that cite it in every state.
LEMMA TypeInvariance == Spec => []TypeInv
  BY InitTypes, StepTypes, PTL DEF Spec

\* Every variable has its type: the status is one of the state machine's, a cursor is a
\* page, a thread at one of its labels, and there are counts only of types.
THEOREM TypeCorrect == Spec => []TypeOK
<1>1. Init => StatsOK(counts)
  BY NoStatsOK DEF Init
<1>2. TypeInv /\ StatsOK(counts) /\ [Next]_vars => StatsOK(counts)'
  <2> SUFFICES ASSUME TypeInv, StatsOK(counts), [Next]_vars PROVE StatsOK(counts')
    BY DEF StatsOK
  <2> QED
    BY CountsSteps, NoStatsOK DEF TypeInv, ScanTypeOK
<1>3. TypeInv /\ StatsOK(counts) => TypeOK
  BY DEF TypeInv, TypeOK
<1> QED
  BY <1>1, <1>2, <1>3, TypeInvariance, PTL DEF Spec

-------------------------------------------------------------------------------
\* What any step may do to the job row and to the rows and counters beside it.
RowSteps ==
    /\ status = "GONE" => status' = "GONE"
    /\ status' = "NEVER" => status = "NEVER"
    /\ status' = "RUNNING" => status = "RUNNING" \/ heartbeat' = "fresh"
    /\ status' \in { "PAUSED", "CANCELLED" } =>
         status' = status \/ overrun' = [w \in Workers |-> 0]
    /\ heartbeat' = "null" => heartbeat = "null" \/ status' = "GONE"
    /\ \/ ckpt' = ckpt /\ (RowExists => RowExists')
       \/ RowExists /\ status' = status
       \/ status' = "GONE" /\ ckpt' = [t \in ObjectTypes |-> NoCkpt]
    /\ \/ objectTypes' = objectTypes
       \/ status = "NEVER"
       \/ status' = "GONE"
    /\ faults <= faults'

\* Every step is a row step.
LEMMA FollowsRowSteps == TypeInv /\ [Next]_vars => RowSteps
<1> SUFFICES ASSUME TypeInv, [Next]_vars PROVE RowSteps
  OBVIOUS
<1>t. faults \in Nat
  BY FaultAssumption DEF TypeInv, ScanTypeOK
<1> USE <1>t DEF RowSteps, RowExists, JobStatus, store, row, thread, locals, history
<1>1. ASSUME NEW w \in Workers, WorkerStep(w) PROVE RowSteps
  <2>1. ASSUME NEW stage \in DOMAIN Target, UpdateStatusCommit(w, stage) PROVE RowSteps
    BY <2>1, StageLemma DEF UpdateStatusCommit, HeartbeatAfter
  <2>2. CASE CheckpointCommit(w)
    BY <2>2 DEF CheckpointCommit, CheckpointSaved
  <2>3. CASE BeatAfterPage(w) \/ BeatAfterType(w)
    BY <2>3 DEF BeatAfterPage, BeatAfterType, UpdateHeartbeat
  <2>4. CASE FailCommit(w)
    BY <2>4 DEF FailCommit
  <2>5. CASE DbError(w) \/ StopUnseen(w)
    BY <2>5 DEF DbError, StopUnseen, Fault
  <2>6. CASE \/ \E stage \in DOMAIN Target : UpdateStatusRead(w, stage)
             \/ Authenticate(w) \/ NextType(w) \/ LoadCheckpoint(w) \/ CheckStop(w)
             \/ FetchPage(w) \/ FetchFails(w) \/ CheckpointRead(w) \/ SaveRaw(w)
             \/ SaveRawFails(w) \/ SaveStats(w) \/ CompleteStats(w) \/ FailRead(w) \/ Unregister(w)
    BY <2>6
    DEF UpdateStatusRead, Authenticate, NextType, LoadCheckpoint, CheckStop, FetchPage,
        FetchFails, CheckpointRead, SaveRaw, SaveRawFails, SaveStats, CompleteStats, FailRead,
        Unregister
  <2> QED
    BY <1>1, <2>1, <2>2, <2>3, <2>4, <2>5, <2>6 DEF WorkerStep
<1>2. ASSUME NEW h \in Handlers, HandlerStep(h) PROVE RowSteps
  <2>1. ASSUME NEW op \in DOMAIN Writes, WriteCommit(h, op) PROVE RowSteps
    BY <2>1 DEF WriteCommit, Writes
  <2>2. CASE RemoveCommit(h)
    BY <2>2 DEF RemoveCommit, DeleteRow
  <2>3. CASE \/ ResumeCommit(h) \/ ResumeAgain(h)
             \/ \E types \in Requests : StartScan(h, types)
    BY <2>3 DEF ResumeCommit, ResumeAgain, StartScan
  <2>4. CASE \E loop \in CallerHasLoop : LaunchTask(h, loop)
    BY <2>4 DEF LaunchTask, LaunchRaises, Launch, Fault
  <2>5. CASE \/ \E op \in DOMAIN Allowed : HandlerRead(h, op)
             \/ \E t \in ObjectTypes : UnlinkRaw(h, t)
             \/ RemoveDir(h)
    BY <2>5 DEF HandlerRead, UnlinkRaw, RemoveDir
  <2> QED
    BY <1>2, <2>1, <2>2, <2>3, <2>4, <2>5 DEF HandlerStep
<1>4. CASE Cleanup
  BY <1>4 DEF Cleanup, DeleteRow
<1>5. CASE Crash
  BY <1>5 DEF Crash, Fault
<1>6. CASE HeartbeatAges \/ UNCHANGED vars
  BY <1>6 DEF HeartbeatAges, vars
<1> QED
  BY <1>1, <1>2, <1>4, <1>5, <1>6 DEF Next, ScanStep

\* A RUNNING job always has a heartbeat for crash detection to judge.
THEOREM RunsHaveHeartbeats == Spec => []RunningHasHeartbeat
<1>1. Init => RunningHasHeartbeat
  BY DEF Init, RunningHasHeartbeat
<1>2. TypeInv /\ RunningHasHeartbeat /\ [Next]_vars => RunningHasHeartbeat'
  BY FollowsRowSteps DEF RowSteps, RunningHasHeartbeat
<1> QED
  BY <1>1, <1>2, TypeInvariance, PTL DEF Spec

\* Every step keeps the checkpoints to their job.
LEMMA OrphanStep == TypeInv /\ NoOrphanCheckpoint /\ [Next]_vars => NoOrphanCheckpoint'
<1> SUFFICES ASSUME TypeInv, NoOrphanCheckpoint, [Next]_vars, ~RowExists',
                    NEW t \in ObjectTypes
             PROVE  ckpt'[t] = NoCkpt
  BY DEF NoOrphanCheckpoint
<1>1. status' \in { "NEVER", "GONE" }
  BY StepTypes DEF TypeInv, ScanTypeOK, RowExists
<1>2. RowSteps
  BY FollowsRowSteps
<1>3. CASE ckpt' = ckpt /\ (RowExists => RowExists')
  BY <1>3 DEF NoOrphanCheckpoint
<1>4. CASE RowExists /\ status' = status
  BY <1>4, <1>1 DEF RowExists, JobStatus
<1> QED
  BY <1>2, <1>3, <1>4 DEF RowSteps

\* No checkpoint row outlives its job or is brought back by a late thread.
THEOREM CheckpointsHaveJobs == Spec => []NoOrphanCheckpoint
<1>1. Init => NoOrphanCheckpoint
  BY DEF Init, NoOrphanCheckpoint
<1> QED
  BY <1>1, OrphanStep, TypeInvariance, PTL DEF Spec

-------------------------------------------------------------------------------
\* What any step may do to the threads.
SameThread(v) ==
    /\ pc'[v] = pc[v]
    /\ todo'[v] = todo[v]
    /\ cursor'[v] = cursor[v]
    /\ records'[v] = records[v]
    /\ pages'[v] = pages[v]
    /\ stats'[v] = stats[v]
    /\ base'[v] = base[v]
    /\ overrun'[v] = overrun[v]

\* A step of a thread leaves every other thread where it is.
LEMMA OtherThreads ==
    ASSUME TypeInv, NEW w \in Workers, WorkerStep(w), NEW v \in Workers, v # w
    PROVE  SameThread(v)
<1> USE DEF SameThread, TypeInv, ScanTypeOK, Goto, thread, locals, history
<1>1. CASE \/ \E stage \in DOMAIN Target :
                UpdateStatusRead(w, stage) \/ UpdateStatusCommit(w, stage)
           \/ Authenticate(w) \/ NextType(w) \/ CheckStop(w) \/ FetchFails(w)
           \/ SaveRawFails(w)
  BY <1>1
  DEF UpdateStatusRead, UpdateStatusCommit, Authenticate, NextType, CheckStop, FetchFails,
      SaveRawFails
<1>2. CASE LoadCheckpoint(w) \/ FetchPage(w) \/ CheckpointRead(w)
  BY <1>2 DEF LoadCheckpoint, FetchPage, CheckpointRead
<1>3. CASE CheckpointCommit(w) \/ BeatAfterPage(w) \/ SaveRaw(w) \/ BeatAfterType(w)
  BY <1>3 DEF CheckpointCommit, BeatAfterPage, SaveRaw, BeatAfterType, UpdateHeartbeat
<1>4. CASE \/ SaveStats(w) \/ CompleteStats(w) \/ FailRead(w) \/ FailCommit(w)
           \/ Unregister(w) \/ DbError(w) \/ StopUnseen(w)
  BY <1>4
  DEF SaveStats, CompleteStats, FailRead, FailCommit, Unregister, Forget, DbError, StopUnseen
<1> QED
  BY <1>1, <1>2, <1>3, <1>4 DEF WorkerStep

\* A new thread starts at "run", and nothing of it or of any other moves with it.
Launched(w) ==
    /\ pc[w] = "idle" /\ pc' = [pc EXCEPT ![w] = "run"]
    /\ registry' = w
    /\ \A v \in Workers \ {w} : todo'[v] = todo[v]
    /\ UNCHANGED << cursor, records, pages, stats, base >>

\* A launch makes one thread or, when it raises, none.
LEMMA LaunchedLemma ==
    ASSUME TypeInv, NEW h, NEW loop, LaunchTask(h, loop)
    PROVE  \/ UNCHANGED << thread, registry >> /\ launchLost'
           \/ \E w \in Workers : Launched(w) /\ todo'[w] = LaunchTypes(h)
  BY DEF LaunchTask, LaunchRaises, Launch, Launched, Goto, TypeInv, ScanTypeOK

\* A launch for what the job asks for, if any.
NewThread ==
    \/ UNCHANGED << thread, registry >>
    \/ \E w \in Workers : Launched(w) /\ todo'[w] \in { objectTypes', ResumeTypes' }

\* Whatever is no step of a thread leaves the threads alone, launches one or ends all.
LEMMA NoThreadSteps ==
    ASSUME TypeInv, [Next]_vars, ~ \E w \in Workers : WorkerStep(w)
    PROVE  /\ NewThread \/ Crash
           /\ overrun' = overrun \/ overrun' = [w \in Workers |-> 0]
<1> USE DEF history, NewThread
<1>1. ASSUME NEW h \in Handlers, HandlerStep(h)
      PROVE  NewThread /\ (overrun' = overrun \/ overrun' = [w \in Workers |-> 0])
  <2>1. ASSUME NEW loop \in CallerHasLoop, LaunchTask(h, loop)
        PROVE  NewThread /\ overrun' = overrun
    <3>1. objectTypes' = objectTypes /\ overrun' = overrun
      BY <2>1 DEF LaunchTask, store, row
    <3>2. LaunchTypes(h) \in { objectTypes', ResumeTypes' }
      BY <3>1 DEF LaunchTypes, ResumeTypes
    <3> QED
      BY <2>1, <3>1, <3>2, LaunchedLemma
  <2>2. ASSUME NEW op \in DOMAIN Writes, WriteCommit(h, op)
        PROVE  NewThread /\ (overrun' = overrun \/ overrun' = [w \in Workers |-> 0])
    BY <2>2 DEF WriteCommit
  <2>3. CASE \/ \E types \in Requests : StartScan(h, types)
             \/ \E op \in DOMAIN Allowed : HandlerRead(h, op)
             \/ ResumeCommit(h) \/ ResumeAgain(h) \/ RemoveCommit(h) \/ RemoveDir(h)
             \/ \E t \in ObjectTypes : UnlinkRaw(h, t)
    BY <2>3
    DEF StartScan, HandlerRead, ResumeCommit, ResumeAgain, RemoveCommit, RemoveDir, UnlinkRaw
  <2> QED
    BY <1>1, <2>1, <2>2, <2>3 DEF HandlerStep
<1>4. CASE Cleanup \/ HeartbeatAges
  BY <1>4 DEF Cleanup, HeartbeatAges
<1>5. CASE Crash
  BY <1>5 DEF Crash
<1>6. CASE UNCHANGED vars
  BY <1>6 DEF vars
<1> QED
  BY <1>1, <1>4, <1>5, <1>6 DEF Next, ScanStep

\* No thread comes to a fetch, to the end or to the registry in another way than these.
LEMMA Arrivals ==
    ASSUME TypeInv, NEW w \in Workers, WorkerStep(w)
    PROVE  /\ pc'[w] = "fetch" => overrun' = overrun /\ (~Stopped \/ Fault)
           /\ pc'[w] \in { "idle", "done" } => registry' = NoTask
           /\ registry' \in { registry, NoTask }
           /\ \/ overrun' = overrun
              \/ pc[w] = "fetch" /\ Stopped /\ overrun' = [overrun EXCEPT ![w] = @ + 1]
<1> USE DEF TypeInv, ScanTypeOK, Goto, thread, history
<1>1. ASSUME NEW stage \in DOMAIN Target, UpdateStatusRead(w, stage) \/ UpdateStatusCommit(w, stage)
      PROVE  /\ pc'[w] \notin { "idle", "done", "fetch" }
             /\ registry' = registry /\ overrun' = overrun
  BY <1>1, StageLemma DEF UpdateStatusRead, UpdateStatusCommit
<1>2. CASE CheckStop(w) \/ StopUnseen(w)
  BY <1>2 DEF CheckStop, StopUnseen, StopRequested, Stopped
<1>3. CASE FetchPage(w)
  BY <1>3 DEF FetchPage
<1>4. CASE \/ Authenticate(w) \/ NextType(w) \/ LoadCheckpoint(w) \/ FetchFails(w)
           \/ CheckpointRead(w) \/ SaveRawFails(w)
  BY <1>4 DEF Authenticate, NextType, LoadCheckpoint, FetchFails, CheckpointRead, SaveRawFails
<1>5. CASE CheckpointCommit(w) \/ BeatAfterPage(w) \/ SaveRaw(w) \/ BeatAfterType(w)
  BY <1>5 DEF CheckpointCommit, BeatAfterPage, SaveRaw, BeatAfterType, UpdateHeartbeat
<1>6. CASE \/ SaveStats(w) \/ CompleteStats(w) \/ FailRead(w) \/ FailCommit(w) \/ DbError(w)
           \/ Unregister(w)
  BY <1>6 DEF SaveStats, CompleteStats, FailRead, FailCommit, DbError, Unregister
<1> QED
  BY <1>1, <1>2, <1>3, <1>4, <1>5, <1>6 DEF WorkerStep

-------------------------------------------------------------------------------
\* Every step keeps the registry to the tasks that run.
LEMMA RegistryStep == TypeInv /\ RegistryIsLive /\ [Next]_vars => RegistryIsLive'
<1> SUFFICES ASSUME TypeInv, RegistryIsLive, [Next]_vars PROVE RegistryIsLive'
  OBVIOUS
<1>t. pc \in [Workers -> Labels] /\ registry \in Workers \cup {NoTask}
  BY DEF TypeInv, ScanTypeOK
<1>1. ASSUME NEW w \in Workers, WorkerStep(w) PROVE RegistryIsLive'
  <2>1. registry' \in { registry, NoTask }
    BY <1>1, Arrivals
  <2>2. CASE registry = w
    BY <1>1, <2>1, <2>2, Arrivals DEF RegistryIsLive, Live
  <2>3. CASE registry # w
    BY <1>1, <1>t, <2>1, <2>3, OtherThreads DEF RegistryIsLive, Live, SameThread
  <2> QED
    BY <2>2, <2>3
<1>2. ASSUME NEW w \in Workers, Launched(w) PROVE RegistryIsLive'
  BY <1>2, <1>t DEF Launched, RegistryIsLive, Live
<1>3. CASE Crash
  BY <1>3 DEF Crash, RegistryIsLive
<1>4. CASE UNCHANGED << thread, registry >>
  BY <1>4 DEF thread, RegistryIsLive, Live
<1> QED
  BY <1>1, <1>2, <1>3, <1>4, NoThreadSteps DEF NewThread

\* _running_tasks names no task that has ended.
THEOREM RegistryNamesLiveTasks == Spec => []RegistryIsLive
<1>1. Init => RegistryIsLive
  BY DEF Init, RegistryIsLive
<1> QED
  BY <1>1, RegistryStep, TypeInvariance, PTL DEF Spec

\* A thread about to fetch while a stop is in force has the fetch still before it: it
\* looked at the status before the stop, or its look failed.
OverrunInv ==
    \A w \in Workers :
        /\ overrun[w] <= 1 + faults
        /\ Stopped /\ pc[w] = "fetch" => overrun[w] <= faults

\* Every step keeps OverrunInv: one that looks at the status at CheckStop goes on to
\* fetch only when no stop is in force, or by a fault that is counted.
LEMMA OverrunStep == TypeInv /\ OverrunInv /\ [Next]_vars => OverrunInv'
<1> SUFFICES ASSUME TypeInv, OverrunInv, [Next]_vars, NEW v \in Workers
             PROVE  /\ overrun'[v] <= 1 + faults'
                    /\ Stopped' /\ pc'[v] = "fetch" => overrun'[v] <= faults'
  BY DEF OverrunInv
<1>t. /\ overrun \in [Workers -> Nat] /\ faults \in Nat /\ faults' \in Nat
      /\ pc \in [Workers -> Labels]
  <2>1. faults \in 0..MaxFaults /\ faults' \in 0..MaxFaults
    <3>1. TypeInv'
      BY StepTypes
    <3> QED
      BY <3>1 DEF TypeInv, ScanTypeOK
  <2> QED
    BY <2>1, FaultAssumption DEF TypeInv, ScanTypeOK
<1>v. /\ overrun[v] <= 1 + faults
      /\ Stopped /\ pc[v] = "fetch" => overrun[v] <= faults
  BY DEF OverrunInv
<1>r. /\ faults <= faults'
      /\ Stopped' => Stopped \/ overrun' = [w \in Workers |-> 0]
  BY FollowsRowSteps DEF RowSteps, Stopped
<1>z. CASE overrun' = [w \in Workers |-> 0]
  <2>1. overrun'[v] = 0
    BY <1>z
  <2>2. faults' \in Nat
    BY <1>t
  <2>3. \A n \in Nat : 0 <= 1 + n /\ 0 <= n
    OBVIOUS
  <2> QED
    BY <2>1, <2>2, <2>3, Zenon
<1>s. CASE pc'[v] = pc[v] /\ overrun'[v] = overrun[v]
  BY <1>s, <1>t, <1>v, <1>r, <1>z
<1>1. ASSUME NEW w \in Workers, WorkerStep(w)
      PROVE  /\ overrun'[v] <= 1 + faults'
             /\ Stopped' /\ pc'[v] = "fetch" => overrun'[v] <= faults'
  <2>1. CASE v # w
    BY <1>1, <2>1, <1>s, OtherThreads DEF SameThread
  <2>2. CASE v = w /\ pc'[w] = "fetch"
    <3>1. overrun' = overrun /\ (~Stopped \/ faults' = faults + 1)
      BY <1>1, <2>2, Arrivals DEF Fault
    <3> QED
      BY <2>2, <3>1, <1>t, <1>v, <1>r, <1>z
  <2>3. CASE v = w /\ pc'[w] # "fetch"
    <3>1. \/ overrun' = overrun
          \/ pc[w] = "fetch" /\ Stopped /\ overrun'[w] = overrun[w] + 1
      BY <1>1, <1>t, Arrivals
    <3> QED
      BY <2>3, <3>1, <1>t, <1>v, <1>r
  <2> QED
    BY <2>1, <2>2, <2>3
<1>2. CASE ~ \E w \in Workers : WorkerStep(w)
  <2>1. CASE overrun' = overrun /\ pc'[v] # pc[v]
    <3>1. pc'[v] # "fetch"
      BY <1>2, <2>1, <1>t, NoThreadSteps DEF NewThread, Launched, Crash, thread
    <3> QED
      BY <2>1, <3>1, <1>t, <1>v, <1>r
  <2> QED
    BY <1>2, <2>1, <1>s, <1>z, NoThreadSteps
<1> QED
  BY <1>1, <1>2

\* After a pause or a cancel a thread fetches no more than the page it was at, and one
\* more for each look at the status that failed.
THEOREM StopsAreObeyed == Spec => []OverrunBounded
<1>1. Init => OverrunInv
  BY FaultAssumption DEF Init, OverrunInv
<1>2. OverrunInv => OverrunBounded
  BY DEF OverrunInv, OverrunBounded
<1> QED
  BY <1>1, <1>2, OverrunStep, TypeInvariance, PTL DEF Spec

\* Where a thread that takes a step is.
LEMMA SteppingThreads ==
    ASSUME TypeInv, NEW w \in Workers, WorkerStep(w)
    PROVE  /\ pc[w] # "idle"
           /\ UNCHANGED << objectTypes, hpc, launchLost >>
           /\ status' = "GONE" => status = "GONE"
<1> USE DEF store, row, history
<1>1. ASSUME NEW stage \in DOMAIN Target, UpdateStatusRead(w, stage) \/ UpdateStatusCommit(w, stage)
      PROVE  /\ pc[w] # "idle"
             /\ UNCHANGED << objectTypes, hpc, launchLost >>
             /\ status' = "GONE" => status = "GONE"
  BY <1>1, StageLemma DEF UpdateStatusRead, UpdateStatusCommit
<1>2. CASE \/ Authenticate(w) \/ NextType(w) \/ LoadCheckpoint(w) \/ CheckStop(w)
           \/ FetchPage(w) \/ FetchFails(w) \/ CheckpointRead(w) \/ CheckpointCommit(w)
           \/ SaveRawFails(w)
  BY <1>2
  DEF Authenticate, NextType, LoadCheckpoint, CheckStop, FetchPage, FetchFails,
      CheckpointRead, CheckpointCommit, SaveRawFails
<1>3. CASE \/ BeatAfterPage(w) \/ SaveRaw(w) \/ BeatAfterType(w) \/ SaveStats(w)
           \/ CompleteStats(w) \/ FailRead(w) \/ FailCommit(w) \/ Unregister(w)
           \/ DbError(w) \/ StopUnseen(w)
  BY <1>3
  DEF BeatAfterPage, SaveRaw, BeatAfterType, UpdateHeartbeat, SaveStats, CompleteStats,
      FailRead, FailCommit, Unregister, DbError, DbLabels, StopUnseen
<1> QED
  BY <1>1, <1>2, <1>3 DEF WorkerStep

-------------------------------------------------------------------------------
\* A thread whose INSERT is already lost to the one of another thread.
Doomed(w) == pc[w] = "ckpt_commit" /\ base[w] = NoCkpt /\ ckpt[Type(w)] # NoCkpt

\* A thread that carries the job: at one of the labels of its status, and not Doomed.
Carrier(w) == pc[w] \in Carries[status] /\ ~Doomed(w)

\* Of the threads positioned to move an active job on, one is not bound to fail, unless
\* the job still awaits its thread.
CarrierInv ==
    faults = 0 /\ status \in Active => (\E w \in Workers : Carrier(w)) \/ AwaitsThread

\* The labels at which a thread carries a job, status by status.
LEMMA CarryingLabels ==
    /\ Carries["PENDING"] = { "run", "run_commit" }
    /\ Carries["RESUMING"] = { "run", "run_commit" }
    /\ Carries["RUNNING"] =
         { "auth", "next_type", "load_ckpt", "check", "fetch", "ckpt_read", "ckpt_commit", "beat",
           "save_raw", "type_beat", "save_stats", "normalize", "normalize_commit",
           "upload_commit", "complete_commit", "failing", "fail_commit" }
    /\ Carries["NORMALIZING"] =
         { "upload", "normalize_commit", "upload_commit", "complete_commit", "failing",
           "fail_commit" }
    /\ Carries["UPLOADING"] =
         { "complete", "normalize_commit", "upload_commit", "complete_commit", "failing",
           "fail_commit" }
  BY DEF Carries

\* A carrier that takes a step without a fault carries the job in its new status.
LEMMA CarriersCarryOn ==
    ASSUME TypeInv, NEW w \in Workers, WorkerStep(w), ~Fault, status \in Active, Carrier(w),
           status' \in Active
    PROVE  Carrier(w)'
<1> DEFINE Good(label) == pc'[w] = label /\ label # "ckpt_commit" /\ label \in Carries[status']
<1>t. pc \in [Workers -> Labels] /\ pc[w] \in Carries[status] /\ base \in [Workers -> Checkpoint]
  BY DEF TypeInv, ScanTypeOK, Carrier
<1>g. ASSUME NEW label, Goto(w, label), label # "ckpt_commit", label \in Carries[status']
      PROVE  Carrier(w)'
  BY <1>g, <1>t DEF Goto, Carrier, Doomed
<1>r. RowExists /\ status \notin TERMINAL_STATES /\ ~StopRequested
  BY DEF RowExists, Active, JobStatus, TERMINAL_STATES, StopRequested
<1> HIDE DEF Good
<1> USE CarryingLabels DEF Active
<1>1. ASSUME NEW stage \in DOMAIN Target, UpdateStatusRead(w, stage) PROVE Carrier(w)'
  <2>1. pc[w] = stage /\ status' = status
    BY <1>1 DEF UpdateStatusRead, store, row
  <2>2. CanMove(status, Target[stage]) /\ CommitLabel[stage] \in Carries[status]
    BY <1>t, <2>1, StageLemma
    DEF CanMove, VALID_TRANSITIONS, TERMINAL_STATES, Target, CommitLabel
  <2>3. Goto(w, CommitLabel[stage]) /\ CommitLabel[stage] # "ckpt_commit"
    BY <1>1, <1>r, <2>2, StageLemma DEF UpdateStatusRead
  <2> QED
    BY <1>g, <2>1, <2>2, <2>3
<1>2. ASSUME NEW stage \in DOMAIN Target, UpdateStatusCommit(w, stage) PROVE Carrier(w)'
  <2>1. status' = Target[stage] /\ Goto(w, AfterCommit[stage])
    BY <1>2, <1>r DEF UpdateStatusCommit
  <2>2. AfterCommit[stage] \in Carries[status'] /\ AfterCommit[stage] # "ckpt_commit"
    BY <2>1, StageLemma DEF Target, AfterCommit
  <2> QED
    BY <1>g, <2>1, <2>2
<1>3. CASE \/ Authenticate(w) \/ NextType(w) \/ CheckStop(w) \/ FetchFails(w) \/ FailRead(w)
           \/ SaveRawFails(w)
  BY <1>3, <1>g, <1>r, <1>t
  DEF Authenticate, NextType, CheckStop, FetchFails, FailRead, SaveRawFails, store, row
<1>4. CASE LoadCheckpoint(w) \/ FetchPage(w)
  BY <1>4, <1>g, <1>r, <1>t DEF LoadCheckpoint, FetchPage, store, row
<1>5. CASE CheckpointRead(w)
  <2>1. /\ status' = status /\ ckpt' = ckpt /\ todo' = todo
        /\ pc' = [pc EXCEPT ![w] = "ckpt_commit"]
        /\ \/ base[w] # NoCkpt /\ base' = base
           \/ base' = [base EXCEPT ![w] = ckpt[Type(w)]]
    BY <1>5, <1>r DEF CheckpointRead, Goto, store, row
  <2>2. pc'[w] = "ckpt_commit" /\ Type(w)' = Type(w) /\ status = "RUNNING"
    BY <1>5, <1>t, <2>1 DEF CheckpointRead, Type
  <2>3. base'[w] # NoCkpt \/ base'[w] = ckpt[Type(w)]
    BY <1>t, <2>1
  <2> QED
    BY <2>1, <2>2, <2>3 DEF Carrier, Doomed
<1>6. CASE CheckpointCommit(w)
  <2>1. CheckpointSaved(w)
    BY <1>6, <1>r DEF CheckpointCommit, CheckpointSaved, Carrier, Doomed
  <2> QED
    BY <1>6, <1>g, <1>t, <2>1 DEF CheckpointCommit, row
<1>7. CASE BeatAfterPage(w) \/ SaveRaw(w) \/ BeatAfterType(w)
  BY <1>7, <1>g, <1>r, <1>t DEF BeatAfterPage, SaveRaw, BeatAfterType, UpdateHeartbeat, row
<1>8. CASE SaveStats(w) \/ CompleteStats(w) \/ Unregister(w)
  BY <1>8, <1>g, <1>r, <1>t DEF SaveStats, CompleteStats, Unregister, store, row
<1>9. CASE FailCommit(w)
  BY <1>9, <1>r DEF FailCommit
<1>10. CASE DbError(w) \/ StopUnseen(w)
  BY <1>10 DEF DbError, StopUnseen
<1> QED
  BY <1>1, <1>2, <1>3, <1>4, <1>5, <1>6, <1>7, <1>8, <1>9, <1>10 DEF WorkerStep

\* A thread whose step moves the job or a checkpoint is itself a carrier after it.
LEMMA MoversCarry ==
    ASSUME TypeInv, NEW w \in Workers, WorkerStep(w), status' \in Active
    PROVE  \/ UNCHANGED << status, ckpt >>
           \/ Carrier(w)'
           \/ status' = status /\ pc'[w] = "beat"
<1>t. pc \in [Workers -> Labels]
  BY DEF TypeInv, ScanTypeOK
<1> USE DEF store, row, Active
<1>1. ASSUME NEW stage \in DOMAIN Target, UpdateStatusCommit(w, stage)
      PROVE  UNCHANGED << status, ckpt >> \/ Carrier(w)'
  <2>1. CASE RowExists
    <3>1. status' = Target[stage] /\ pc'[w] = AfterCommit[stage]
      BY <1>1, <1>t, <2>1 DEF UpdateStatusCommit, Goto
    <3> QED
      BY <3>1, StageLemma, CarryingLabels DEF Target, AfterCommit, Carrier, Doomed
  <2>2. CASE ~RowExists
    BY <1>1, <2>2 DEF UpdateStatusCommit
  <2> QED
    BY <2>1, <2>2
<1>3. CASE CheckpointCommit(w)
  BY <1>3, <1>t DEF CheckpointCommit, Goto
<1>4. CASE BeatAfterPage(w) \/ BeatAfterType(w) \/ SaveRaw(w)
  BY <1>4 DEF BeatAfterPage, BeatAfterType, SaveRaw, UpdateHeartbeat
<1>5. CASE FailCommit(w)
  BY <1>5 DEF FailCommit
<1>6. CASE \/ \E stage \in DOMAIN Target : UpdateStatusRead(w, stage)
           \/ Authenticate(w) \/ NextType(w) \/ LoadCheckpoint(w) \/ CheckStop(w)
           \/ FetchPage(w) \/ FetchFails(w) \/ CheckpointRead(w)
  BY <1>6
  DEF UpdateStatusRead, Authenticate, NextType, LoadCheckpoint, CheckStop, FetchPage,
      FetchFails, CheckpointRead
<1>7. CASE \/ SaveRawFails(w) \/ SaveStats(w) \/ CompleteStats(w) \/ FailRead(w)
           \/ Unregister(w) \/ DbError(w) \/ StopUnseen(w)
  BY <1>7 DEF SaveRawFails, SaveStats, CompleteStats, FailRead, Unregister, DbError, StopUnseen
<1> QED
  BY <1>1, <1>3, <1>4, <1>5, <1>6, <1>7 DEF WorkerStep

\* A job's thread is announced: the row moves to where one starts it, and a handler is
\* about to launch.
Announced == status' \in { "PENDING", "RESUMING" } /\ \E h \in Handlers : Launching(h)'

\* A job is left as it is, with its threads, and what it awaits is still to come.
LeftAlone ==
    /\ status' = status
    /\ UNCHANGED << thread, registry >>
    /\ AwaitsThread => AwaitsThread'

\* A handler that does not launch leaves the others about to launch.
LEMMA LaunchesStand ==
    ASSUME NEW h \in Handlers, ~Launching(h), \A k \in Handlers \ {h} : hpc'[k] = hpc[k],
           UNCHANGED << status, launchLost >>
    PROVE  AwaitsThread => AwaitsThread'
  BY DEF AwaitsThread, Launching

\* Whatever is no step of a thread leaves an active job as it is, announces its thread or
\* launches it.
LEMMA OthersLaunch ==
    ASSUME TypeInv, [Next]_vars, ~ \E w \in Workers : WorkerStep(w), status' \in Active, ~Fault
    PROVE  /\ ckpt' = ckpt
           /\ \/ LeftAlone
              \/ Announced
              \/ status' = status /\ \E w \in Workers : Launched(w)
<1> DEFINE Goal == /\ ckpt' = ckpt
                   /\ \/ LeftAlone
                      \/ Announced
                      \/ status' = status /\ \E w \in Workers : Launched(w)
<1> USE DEF store, row, history
<1>1. ASSUME NEW h \in Handlers, HandlerStep(h) PROVE Goal
  <2>t. hpc \in [Handlers -> DOMAIN Allowed \cup LaunchLabels \cup { "idle", "rmtree" }]
    BY DEF TypeInv, ScanTypeOK
  <2>1. ASSUME NEW loop \in CallerHasLoop, LaunchTask(h, loop) PROVE Goal
    <3>1. ckpt' = ckpt /\ status' = status
      BY <2>1 DEF LaunchTask
    <3>2. launchLost' => (AwaitsThread => AwaitsThread')
      BY <3>1 DEF AwaitsThread
    <3> QED
      BY <2>1, <3>1, <3>2, LaunchedLemma DEF LeftAlone
  <2>2. CASE (\E types \in Requests : StartScan(h, types)) \/ (ResumeCommit(h) /\ RowExists)
    <3>1. hpc'[h] \in LaunchLabels
      BY <2>2, <2>t DEF StartScan, ResumeCommit, LaunchLabels
    <3> QED
      BY <2>2, <3>1 DEF StartScan, ResumeCommit, Announced, Launching
  <2>3. ASSUME NEW op \in DOMAIN Writes, WriteCommit(h, op) PROVE Goal
    <3>1. status' = status
      BY <2>3 DEF WriteCommit, Writes, Active
    <3>2. ~Launching(h)
      BY <2>3 DEF WriteCommit, Writes, Launching, LaunchLabels
    <3> QED
      BY <2>t, <2>3, <3>1, <3>2, LaunchesStand DEF WriteCommit, HandlerDone, LeftAlone
  <2>4. ASSUME NEW op \in DOMAIN Allowed, HandlerRead(h, op) PROVE Goal
    BY <2>t, <2>4, LaunchesStand DEF HandlerRead, LeftAlone, Launching, LaunchLabels
  <2>5. CASE ResumeAgain(h) \/ RemoveDir(h) \/ \E t \in ObjectTypes : UnlinkRaw(h, t)
    BY <2>t, <2>5, LaunchesStand
    DEF ResumeAgain, RemoveDir, HandlerDone, UnlinkRaw, LeftAlone, Launching, LaunchLabels
  <2>6. CASE RemoveCommit(h) \/ (ResumeCommit(h) /\ ~RowExists)
    BY <2>6 DEF RemoveCommit, DeleteRow, ResumeCommit, RowExists, Active, JobStatus
  <2> QED
    BY <1>1, <2>1, <2>2, <2>3, <2>4, <2>5, <2>6 DEF HandlerStep
<1>4. CASE Cleanup
  BY <1>4 DEF Cleanup, DeleteRow, Active
<1>5. CASE HeartbeatAges \/ UNCHANGED vars
  BY <1>5 DEF HeartbeatAges, vars, LeftAlone, AwaitsThread, Launching
<1>6. CASE Crash
  BY <1>6 DEF Crash
<1> QED
  BY <1>1, <1>4, <1>5, <1>6 DEF Next, ScanStep

\* Every step without a fault keeps CarrierInv.
LEMMA CarrierStep == TypeInv /\ CarrierInv /\ [Next]_vars => CarrierInv'
<1> SUFFICES ASSUME TypeInv, CarrierInv, [Next]_vars, faults' = 0, status' \in Active
             PROVE  (\E w \in Workers : Carrier(w)') \/ AwaitsThread'
  BY DEF CarrierInv
<1>t. pc \in [Workers -> Labels] /\ faults \in Nat
  BY FaultAssumption DEF TypeInv, ScanTypeOK
<1>f. faults = 0 /\ ~Fault
  BY <1>t, FollowsRowSteps DEF RowSteps, Fault
<1>s. ASSUME NEW v \in Workers, Carrier(v), SameThread(v), status' = status, ckpt' = ckpt
      PROVE  Carrier(v)'
  BY <1>s DEF Carrier, Doomed, SameThread, Type
<1>1. ASSUME NEW u \in Workers, WorkerStep(u), ~AwaitsThread'
      PROVE  \E w \in Workers : Carrier(w)'
  <2>a. status' = status => ~AwaitsThread
    BY <1>1, SteppingThreads DEF AwaitsThread, Launching
  <2>1. CASE Carrier(u)'
    BY <2>1
  <2>2. CASE pc'[u] = "beat" /\ status' = status
    <3>1. CASE status = "RUNNING"
      BY <2>2, <3>1, CarryingLabels DEF Carrier, Doomed
    <3>2. CASE status # "RUNNING"
      <4>1. PICK v \in Workers : Carrier(v)
        BY <1>f, <2>2, <2>a DEF CarrierInv
      <4>2. pc[v] # "ckpt_commit" /\ pc[v] \in Carries[status]
        BY <2>2, <3>2, <4>1, CarryingLabels DEF Carrier, Active
      <4>3. CASE v = u
        BY <1>1, <1>f, <2>2, <4>1, <4>3, CarriersCarryOn
      <4>4. CASE v # u
        BY <1>1, <2>2, <4>2, <4>4, OtherThreads DEF SameThread, Carrier, Doomed
      <4> QED
        BY <4>3, <4>4
    <3> QED
      BY <3>1, <3>2
  <2>3. CASE status' = status /\ ckpt' = ckpt
    <3>1. PICK v \in Workers : Carrier(v)
      BY <1>f, <2>3, <2>a DEF CarrierInv
    <3>2. CASE v = u
      BY <1>1, <1>f, <2>3, <3>1, <3>2, CarriersCarryOn
    <3>3. CASE v # u
      BY <1>1, <1>s, <2>3, <3>1, <3>3, OtherThreads
    <3> QED
      BY <3>2, <3>3
  <2> QED
    BY <1>1, <2>1, <2>2, <2>3, MoversCarry
<1>2. CASE ~ \E w \in Workers : WorkerStep(w)
  <2>1. CASE LeftAlone /\ ckpt' = ckpt
    BY <1>f, <2>1 DEF LeftAlone, CarrierInv, Carrier, Doomed, Type, thread, locals
  <2>2. CASE Announced
    BY <2>2 DEF Announced, AwaitsThread
  <2>3. ASSUME NEW w \in Workers, Launched(w), status' = status, ckpt' = ckpt
        PROVE  \E v \in Workers : Carrier(v)'
    <3>1. CASE status \in { "PENDING", "RESUMING" }
      <4>1. pc'[w] = "run"
        BY <1>t, <2>3 DEF Launched
      <4>2. "run" \in Carries[status']
        BY <2>3, <3>1, CarryingLabels
      <4> QED
        BY <4>1, <4>2 DEF Carrier, Doomed
    <3>2. CASE status \notin { "PENDING", "RESUMING" }
      <4>1. PICK v \in Workers : Carrier(v)
        BY <1>f, <2>3, <3>2 DEF CarrierInv, AwaitsThread
      <4>2. pc[v] # "idle"
        BY <2>3, <4>1, CarryingLabels DEF Carrier, Active
      <4>3. pc'[v] = pc[v] /\ base'[v] = base[v] /\ Type(v)' = Type(v)
        BY <1>t, <2>3, <4>2 DEF Launched, Type
      <4> QED
        BY <2>3, <4>1, <4>3 DEF Carrier, Doomed
    <3> QED
      BY <3>1, <3>2
  <2> QED
    BY <1>2, <1>f, <2>1, <2>2, <2>3, OthersLaunch
<1> QED
  BY <1>1, <1>2

\* As long as nothing fails, a job in an active status has a thread positioned to move
\* it on, from the moment a thread has been launched: before that a handler is about to
\* launch one, or the launch has raised.
THEOREM ActiveJobsAreCarried == Spec => []ActiveHasWorker
<1>1. Init => CarrierInv
  BY DEF Init, CarrierInv, Active
<1>2. TypeInv /\ CarrierInv /\ [Next]_vars => CarrierInv'
  BY CarrierStep
<1>3. CarrierInv => ActiveHasWorker
  BY DEF CarrierInv, Carrier, ActiveHasWorker
<1> QED
  BY <1>1, <1>2, <1>3, TypeInvariance, PTL DEF Spec

-------------------------------------------------------------------------------
\* What a handler intends at each of its places.
LEMMA HandlerIntents ==
    /\ \A op \in DOMAIN Writes : IntentAt(HandlerIntent, op) = Writes[op]
    /\ IntentAt(HandlerIntent, "resume") = "RESUMING"
    /\ IntentAt(HandlerIntent, "idle") = "none"
    /\ IntentAt(HandlerIntent, "remove") = "none"
    /\ IntentAt(HandlerIntent, "rmtree") = "none"
    /\ \A label \in LaunchLabels : IntentAt(HandlerIntent, label) = "none"
  BY DEF LaunchLabels, IntentAt, HandlerIntent, Writes

\* Where a thread has checked a move and not yet made it.
Committing ==
    { "run_commit", "normalize_commit", "upload_commit", "complete_commit", "fail_commit" }

\* What a thread intends at each of its places.
LEMMA ThreadIntents ==
    /\ \A stage \in DOMAIN Target : IntentAt(ThreadIntent, CommitLabel[stage]) = Target[stage]
    /\ IntentAt(ThreadIntent, "fail_commit") = "FAILED"
    /\ \A label : label \notin Committing => IntentAt(ThreadIntent, label) = "none"
  BY DEF IntentAt, ThreadIntent, Target, CommitLabel, Committing

\* A new thread intends nothing, like the idle one it was.
LEMMA LaunchIntends ==
    ASSUME TypeInv, NEW v \in Workers, Launched(v)
    PROVE  \A w \in Workers : IntentAt(ThreadIntent, pc'[w]) = IntentAt(ThreadIntent, pc[w])
<1>1. pc[v] = "idle" /\ pc'[v] = "run" /\ \A w \in Workers \ {v} : pc'[w] = pc[w]
  BY DEF Launched, TypeInv, ScanTypeOK
<1>2. IntentAt(ThreadIntent, "idle") = "none" /\ IntentAt(ThreadIntent, "run") = "none"
  BY ThreadIntents DEF Committing
<1> QED
  BY <1>1, <1>2

\* The checks of the handlers and of fail_job are checks of the table.
LEMMA AllowedMoves ==
    /\ \A op \in DOMAIN Writes : \A from \in Allowed[op] :
         /\ from \in JobStatus /\ Writes[op] \in JobStatus
         /\ CanMove(from, Writes[op])
    /\ \A from \in Allowed["resume"] : from \in JobStatus /\ CanMove(from, "RESUMING")
    /\ \A from \in JobStatus \ TERMINAL_STATES : CanMove(from, "FAILED")
  BY DEF Allowed, Writes, CanMove, VALID_TRANSITIONS, JobStatus, TERMINAL_STATES

\* An agent is a handler or a thread, and no handler is a thread.
LEMMA AgentsLemma ==
    /\ \A h \in Handlers : << "handler", h >> \in Agents
    /\ \A w \in Workers : << "thread", w >> \in Agents
    /\ \A a \in Agents : \/ a[1] = "handler" /\ a[2] \in Handlers /\ a = << "handler", a[2] >>
                         \/ a[1] = "thread" /\ a[2] \in Workers /\ a = << "thread", a[2] >>
  BY DEF Agents

\* A handler moves and no intent of a thread changes: one intent changes at most.
LEMMA OneHandlerMoves ==
    ASSUME NEW h \in Handlers, \A k \in Handlers \ {h} : hpc'[k] = hpc[k],
           \A w \in Workers : IntentAt(ThreadIntent, pc'[w]) = IntentAt(ThreadIntent, pc[w])
    PROVE  /\ << "handler", h >> \in Agents
           /\ Intent[<< "handler", h >>] = IntentAt(HandlerIntent, hpc[h])
           /\ Intent' = [Intent EXCEPT ![<< "handler", h >>] = IntentAt(HandlerIntent, hpc'[h])]
<1> DEFINE a == << "handler", h >>
<1>1. a \in Agents /\ a[1] = "handler" /\ a[2] = h
  BY AgentsLemma
<1>2. Intent[a] = IntentAt(HandlerIntent, hpc[h])
  BY <1>1 DEF Intent
<1>3. ASSUME NEW b \in Agents
      PROVE  Intent'[b] = IF b = a THEN IntentAt(HandlerIntent, hpc'[h]) ELSE Intent[b]
  <2>1. CASE b[1] = "handler"
    <3>1. b[2] \in Handlers /\ (b[2] = h => b = a)
      BY <2>1, AgentsLemma
    <3>2. /\ Intent[b] = IntentAt(HandlerIntent, hpc[b[2]])
          /\ Intent'[b] = IntentAt(HandlerIntent, hpc'[b[2]])
      BY <2>1 DEF Intent
    <3> QED
      BY <1>1, <3>1, <3>2
  <2>2. CASE b[1] # "handler"
    <3>1. b[2] \in Workers /\ b # a
      BY <1>1, <2>2, AgentsLemma
    <3>2. /\ Intent[b] = IntentAt(ThreadIntent, pc[b[2]])
          /\ Intent'[b] = IntentAt(ThreadIntent, pc'[b[2]])
      BY <2>2 DEF Intent
    <3> QED
      BY <3>1, <3>2
  <2> QED
    BY <2>1, <2>2
<1>4. Intent' = [b \in Agents |-> Intent'[b]] /\ Intent = [b \in Agents |-> Intent[b]]
  BY DEF Intent
<1> QED
  BY <1>1, <1>2, <1>3, <1>4

\* Likewise for a thread.
LEMMA OneThreadMoves ==
    ASSUME NEW w \in Workers, NEW label, pc \in [Workers -> Labels], Goto(w, label), hpc' = hpc
    PROVE  /\ << "thread", w >> \in Agents
           /\ Intent[<< "thread", w >>] = IntentAt(ThreadIntent, pc[w])
           /\ Intent' = [Intent EXCEPT ![<< "thread", w >>] = IntentAt(ThreadIntent, label)]
<1> DEFINE a == << "thread", w >>
<1>1. a \in Agents /\ a[1] = "thread" /\ a[2] = w
  BY AgentsLemma
<1>2. Intent[a] = IntentAt(ThreadIntent, pc[w])
  BY <1>1 DEF Intent
<1>3. ASSUME NEW b \in Agents
      PROVE  Intent'[b] = IF b = a THEN IntentAt(ThreadIntent, label) ELSE Intent[b]
  <2>1. CASE b[1] = "handler"
    BY <1>1, <2>1 DEF Intent
  <2>2. CASE b[1] # "handler"
    <3>1. b[2] \in Workers /\ (b[2] = w => b = a)
      BY <2>2, AgentsLemma
    <3>2. /\ Intent[b] = IntentAt(ThreadIntent, pc[b[2]])
          /\ Intent'[b] = IntentAt(ThreadIntent, pc'[b[2]])
      BY <2>2 DEF Intent
    <3> QED
      BY <1>1, <3>1, <3>2 DEF Goto
  <2> QED
    BY <2>1, <2>2
<1>4. Intent' = [b \in Agents |-> Intent'[b]] /\ Intent = [b \in Agents |-> Intent[b]]
  BY DEF Intent
<1> QED
  BY <1>1, <1>2, <1>3, <1>4

\* What any step of the scan does to the row and to the intents.
RowMoves ==
    \/ status = "NEVER" /\ status' = "PENDING" /\ Intent' = Intent
    \/ RowExists /\ status' = "GONE" /\ Intent' = Intent
    \/ status' = status /\ \A a \in Agents : Intent'[a] \in { Intent[a], "none" }
    \/ /\ RowExists /\ status' = status
       /\ \E a \in Agents, to \in JobStatus :
            CanMove(status, to) /\ Intent' = [Intent EXCEPT ![a] = to]
    \/ /\ RowExists
       /\ \E a \in Agents :
            /\ Intent[a] # "none" /\ status' = Intent[a]
            /\ Intent' = [Intent EXCEPT ![a] = "none"]

\* Before the scan no handler has anything to do with it.
NotYet == status = "NEVER" => \A h \in Handlers : hpc[h] = "idle"

\* A step of a handler is one of the row's.
LEMMA HandlerRowMoves ==
    ASSUME TypeInv, NotYet, NEW h \in Handlers, HandlerStep(h)
    PROVE  RowMoves
<1> DEFINE a == << "handler", h >>
<1>t. hpc \in [Handlers -> DOMAIN Allowed \cup LaunchLabels \cup { "idle", "rmtree" }]
  BY DEF TypeInv, ScanTypeOK
<1>i. \A b \in Agents : [Intent EXCEPT ![a] = "none"][b] \in { Intent[b], "none" }
  BY DEF Intent
<1>g. ASSUME status' = status, Intent' = [Intent EXCEPT ![a] = "none"]
      PROVE  RowMoves
  BY <1>g, <1>i, Zenon DEF RowMoves
<1>1. ASSUME NEW op \in DOMAIN Allowed, HandlerRead(h, op) PROVE RowMoves
  <2>1. /\ a \in Agents
        /\ Intent' = [Intent EXCEPT ![a] = IntentAt(HandlerIntent, op)]
    BY <1>1, <1>t, OneHandlerMoves DEF HandlerRead, thread
  <2>2. status \in Allowed[op] /\ status' = status
    BY <1>1 DEF HandlerRead, store, row
  <2>3. CASE op = "remove"
    BY <2>1, <2>3, <2>2, <1>g, HandlerIntents
  <2>4. CASE op # "remove"
    <3>1. /\ status \in JobStatus
          /\ IntentAt(HandlerIntent, op) \in JobStatus
          /\ CanMove(status, IntentAt(HandlerIntent, op))
      <4>1. CASE op \in DOMAIN Writes
        BY <2>2, <4>1, AllowedMoves, HandlerIntents
      <4>2. CASE op = "resume"
        BY <2>2, <4>2, AllowedMoves, HandlerIntents DEF JobStatus
      <4> QED
        BY <2>4, <4>1, <4>2 DEF Allowed, Writes
    <3> QED
      BY <2>1, <2>2, <3>1 DEF RowMoves, RowExists
  <2> QED
    BY <2>3, <2>4
<1>w. ASSUME NEW to \in JobStatus, IntentAt(HandlerIntent, hpc[h]) = to,
             status' = IF RowExists THEN to ELSE status,
             a \in Agents, Intent[a] = to, Intent' = [Intent EXCEPT ![a] = "none"]
      PROVE  RowMoves
  BY <1>w, <1>g DEF RowMoves, JobStatus
<1>2. ASSUME NEW op \in DOMAIN Writes, WriteCommit(h, op) PROVE RowMoves
  <2>1. /\ a \in Agents /\ Intent[a] = IntentAt(HandlerIntent, op)
        /\ Intent' = [Intent EXCEPT ![a] = "none"]
    <3>1. hpc[h] = op /\ pc' = pc /\ hpc' = [hpc EXCEPT ![h] = "idle"]
      BY <1>2 DEF WriteCommit, HandlerDone, thread
    <3> QED
      BY <1>t, <3>1, OneHandlerMoves, HandlerIntents
  <2>2. Writes[op] \in JobStatus /\ IntentAt(HandlerIntent, op) = Writes[op]
    BY HandlerIntents DEF Writes, JobStatus
  <2> QED
    BY <1>2, <1>w, <2>1, <2>2 DEF WriteCommit
<1>l. "start_launch" \in LaunchLabels /\ "resume_launch" \in LaunchLabels
  BY DEF LaunchLabels
<1>3. CASE ResumeCommit(h)
  <2>1. /\ a \in Agents /\ Intent[a] = "RESUMING"
        /\ Intent' = [Intent EXCEPT ![a] = "none"]
    <3>1. /\ hpc[h] = "resume" /\ pc' = pc
          /\ hpc' = [hpc EXCEPT ![h] = "resume_launch"] \/ hpc' = [hpc EXCEPT ![h] = "idle"]
      BY <1>3 DEF ResumeCommit, HandlerDone, thread
    <3>2. /\ \A k \in Handlers \ {h} : hpc'[k] = hpc[k]
          /\ IntentAt(HandlerIntent, hpc'[h]) = "none"
      BY <1>t, <1>l, <3>1, HandlerIntents
    <3> QED
      BY <3>1, <3>2, OneHandlerMoves, HandlerIntents
  <2>2. status' = IF RowExists THEN "RESUMING" ELSE status
    BY <1>3 DEF ResumeCommit
  <2> QED
    BY <1>3, <1>w, <2>1, <2>2, HandlerIntents DEF ResumeCommit, JobStatus
<1>4. CASE RemoveCommit(h)
  <2>1. /\ Intent[a] = "none" /\ Intent' = [Intent EXCEPT ![a] = "none"] /\ status' = "GONE"
    BY <1>4, <1>t, OneHandlerMoves, HandlerIntents DEF RemoveCommit, DeleteRow, thread
  <2>2. Intent' = Intent
    BY <2>1 DEF Intent
  <2>3. RowExists \/ status = "GONE"
    BY <1>4 DEF RemoveCommit, NotYet, TypeInv, ScanTypeOK, RowExists
  <2> QED
    BY <1>g, <2>1, <2>2, <2>3 DEF RowMoves
<1>5. CASE RemoveDir(h) \/ ResumeAgain(h) \/ \E t \in ObjectTypes : UnlinkRaw(h, t)
  <2>1. /\ status' = status /\ pc' = pc
        /\ hpc' \in { hpc, [hpc EXCEPT ![h] = "idle"], [hpc EXCEPT ![h] = "resume_launch"] }
        /\ hpc[h] \in { "idle", "rmtree" }
    BY <1>5 DEF RemoveDir, ResumeAgain, UnlinkRaw, HandlerDone, thread, store, row
  <2>2. /\ \A k \in Handlers \ {h} : hpc'[k] = hpc[k]
        /\ IntentAt(HandlerIntent, hpc'[h]) = "none"
    BY <1>t, <1>l, <2>1, HandlerIntents
  <2> QED
    BY <1>g, <2>1, <2>2, OneHandlerMoves
<1>6. ASSUME NEW loop \in CallerHasLoop, LaunchTask(h, loop) PROVE RowMoves
  <2>1. \A w \in Workers : IntentAt(ThreadIntent, pc'[w]) = IntentAt(ThreadIntent, pc[w])
    <3>1. CASE UNCHANGED pc
      BY <3>1
    <3>2. ASSUME NEW v \in Workers, Launched(v)
          PROVE \A w \in Workers : IntentAt(ThreadIntent, pc'[w]) = IntentAt(ThreadIntent, pc[w])
      BY <3>2, LaunchIntends
    <3> QED
      BY <1>6, <3>1, <3>2, LaunchedLemma DEF thread
  <2>2. status' = status /\ hpc' = [hpc EXCEPT ![h] = "idle"]
    BY <1>6 DEF LaunchTask, HandlerDone, store, row
  <2> QED
    BY <1>t, <1>g, <2>1, <2>2, OneHandlerMoves, HandlerIntents
<1>7. ASSUME NEW types \in Requests, StartScan(h, types) PROVE RowMoves
  <2>1. /\ hpc[h] = "idle" /\ hpc' = [hpc EXCEPT ![h] = "start_launch"] /\ pc' = pc
        /\ status = "NEVER" /\ status' = "PENDING"
    BY <1>7 DEF StartScan, thread
  <2>2. Intent[a] = "none" /\ Intent' = [Intent EXCEPT ![a] = "none"]
    BY <1>t, <1>l, <2>1, OneHandlerMoves, HandlerIntents
  <2>3. Intent' = Intent
    BY <2>2 DEF Intent
  <2> QED
    BY <2>1, <2>3 DEF RowMoves
<1> QED
  BY <1>1, <1>2, <1>3, <1>4, <1>5, <1>6, <1>7 DEF HandlerStep

\* A step of a thread is one of the row's.
LEMMA ThreadRowMoves ==
    ASSUME TypeInv, NEW w \in Workers, WorkerStep(w)
    PROVE  RowMoves
<1> DEFINE a == << "thread", w >>
<1>t. pc \in [Workers -> Labels]
  BY DEF TypeInv, ScanTypeOK
<1>i. \A b \in Agents : [Intent EXCEPT ![a] = "none"][b] \in { Intent[b], "none" }
  BY DEF Intent
<1>g. ASSUME NEW label, Goto(w, label), label \notin Committing, status' = status, hpc' = hpc
      PROVE  RowMoves
  <2>1. Intent' = [Intent EXCEPT ![a] = "none"]
    BY <1>t, <1>g, OneThreadMoves, ThreadIntents
  <2> QED
    BY <1>g, <1>i, <2>1, Zenon DEF RowMoves
<1>c. ASSUME NEW label, Goto(w, label), IntentAt(ThreadIntent, label) \in JobStatus,
             RowExists, CanMove(status, IntentAt(ThreadIntent, label)),
             status' = status, hpc' = hpc
      PROVE  RowMoves
  <2>1. a \in Agents /\ Intent' = [Intent EXCEPT ![a] = IntentAt(ThreadIntent, label)]
    BY <1>t, <1>c, OneThreadMoves
  <2> QED
    BY <1>c, <2>1 DEF RowMoves
<1>w. ASSUME NEW label, Goto(w, label), label \notin Committing,
             IntentAt(ThreadIntent, pc[w]) \in JobStatus,
             RowExists, status' = IntentAt(ThreadIntent, pc[w]), hpc' = hpc
      PROVE  RowMoves
  <2>1. /\ a \in Agents /\ Intent[a] = IntentAt(ThreadIntent, pc[w])
        /\ Intent' = [Intent EXCEPT ![a] = "none"]
    BY <1>t, <1>w, OneThreadMoves, ThreadIntents
  <2>2. Intent[a] # "none"
    BY <1>w, <2>1 DEF JobStatus
  <2> QED
    BY <1>w, <2>1, <2>2 DEF RowMoves
<1>1. ASSUME NEW stage \in DOMAIN Target, UpdateStatusRead(w, stage) PROVE RowMoves
  <2>1. /\ IntentAt(ThreadIntent, CommitLabel[stage]) = Target[stage]
        /\ Target[stage] \in JobStatus
    BY ThreadIntents, StageLemma DEF JobStatus
  <2>2. status' = status /\ hpc' = hpc
    BY <1>1 DEF UpdateStatusRead, store, row
  <2> QED
    BY <1>1, <1>g, <1>c, <2>1, <2>2 DEF UpdateStatusRead, Committing
<1>2. ASSUME NEW stage \in DOMAIN Target, UpdateStatusCommit(w, stage) PROVE RowMoves
  <2>1. /\ IntentAt(ThreadIntent, pc[w]) = Target[stage] /\ Target[stage] \in JobStatus
        /\ AfterCommit[stage] \notin Committing
    BY <1>2, ThreadIntents, StageLemma DEF UpdateStatusCommit, JobStatus, Committing
  <2> QED
    BY <1>2, <1>g, <1>w, <2>1 DEF UpdateStatusCommit, Committing
<1>3. CASE \/ Authenticate(w) \/ NextType(w) \/ LoadCheckpoint(w) \/ CheckStop(w)
           \/ FetchPage(w) \/ FetchFails(w) \/ CheckpointRead(w) \/ SaveRawFails(w)
  BY <1>3, <1>g
  DEF Authenticate, NextType, LoadCheckpoint, CheckStop, FetchPage, FetchFails, CheckpointRead,
      SaveRawFails, Committing, store, row
<1>4. CASE \/ CheckpointCommit(w) \/ BeatAfterPage(w) \/ SaveRaw(w) \/ BeatAfterType(w)
           \/ SaveStats(w) \/ CompleteStats(w)
  BY <1>4, <1>g
  DEF CheckpointCommit, BeatAfterPage, SaveRaw, BeatAfterType, SaveStats, CompleteStats,
      UpdateHeartbeat, Committing, store, row
<1>5. CASE Unregister(w) \/ DbError(w) \/ StopUnseen(w)
  BY <1>5, <1>g DEF Unregister, DbError, StopUnseen, Committing, store, row
<1>6. CASE FailRead(w)
  <2>1. CASE RowExists /\ status \notin TERMINAL_STATES
    <3>1. /\ IntentAt(ThreadIntent, "fail_commit") = "FAILED" /\ CanMove(status, "FAILED")
          /\ "FAILED" \in JobStatus
      BY <2>1, ThreadIntents, AllowedMoves DEF RowExists, JobStatus
    <3> QED
      BY <1>6, <1>c, <2>1, <3>1 DEF FailRead, store, row
  <2>2. CASE ~(RowExists /\ status \notin TERMINAL_STATES)
    BY <1>6, <1>g, <2>2 DEF FailRead, Committing, store, row
  <2> QED
    BY <2>1, <2>2
<1>7. CASE FailCommit(w)
  <2>1. IntentAt(ThreadIntent, pc[w]) = "FAILED" /\ "FAILED" \in JobStatus
    BY <1>7, ThreadIntents DEF FailCommit, JobStatus
  <2> QED
    BY <1>7, <1>g, <1>w, <2>1 DEF FailCommit, Committing
<1> QED
  BY <1>1, <1>2, <1>3, <1>4, <1>5, <1>6, <1>7 DEF WorkerStep

\* Whatever is no step of a handler leaves the handlers alone or ends them.
LEMMA HandlersAlone ==
    ASSUME TypeInv, [Next]_vars, ~ \E h \in Handlers : HandlerStep(h)
    PROVE  hpc' = hpc \/ hpc' = [h \in Handlers |-> "idle"]
<1>1. CASE Cleanup \/ HeartbeatAges \/ Crash \/ UNCHANGED vars
  BY <1>1 DEF Cleanup, HeartbeatAges, Crash, vars
<1> QED
  BY <1>1, SteppingThreads DEF Next, ScanStep

\* A crash ends every operation in flight.
LEMMA CrashEndsAll == Crash => status' = status /\ \A a \in Agents : Intent'[a] = "none"
<1> SUFFICES ASSUME Crash PROVE status' = status /\ \A a \in Agents : Intent'[a] = "none"
  OBVIOUS
<1>1. \A w \in Workers : IntentAt(ThreadIntent, pc'[w]) = "none"
  BY ThreadIntents DEF Crash, Live, Committing
<1>2. \A h \in Handlers : IntentAt(HandlerIntent, hpc'[h]) = "none"
  BY HandlerIntents DEF Crash
<1>3. \A a \in Agents : Intent'[a] = "none"
  BY <1>1, <1>2 DEF Intent, Agents
<1> QED
  BY <1>3 DEF Crash, store, row

\* Every step of the scan is one of the row's.
LEMMA ScanRowMoves == TypeInv /\ NotYet /\ [Next]_vars => RowMoves /\ NotYet'
<1> SUFFICES ASSUME TypeInv, NotYet, [Next]_vars PROVE RowMoves /\ NotYet'
  OBVIOUS
<1>n. NotYet'
  <2>1. status' = "NEVER" => status = "NEVER"
    BY FollowsRowSteps DEF RowSteps
  <2>2. CASE hpc' = hpc \/ hpc' = [h \in Handlers |-> "idle"]
    BY <2>1, <2>2 DEF NotYet
  <2>3. ASSUME NEW h \in Handlers, HandlerStep(h) PROVE status' # "NEVER"
    <3> SUFFICES ASSUME status = "NEVER", status' = "NEVER" PROVE FALSE
      BY <2>1
    <3>1. hpc[h] = "idle" /\ \A op \in DOMAIN Allowed : status \notin Allowed[op]
      BY DEF NotYet, Allowed, JobStatus
    <3> QED
      BY <2>3, <3>1
      DEF HandlerStep, StartScan, HandlerRead, WriteCommit, ResumeCommit, ResumeAgain, LaunchTask,
          Launching, LaunchLabels, RemoveCommit, UnlinkRaw, RemoveDir, Writes
  <2> QED
    BY <2>1, <2>2, <2>3, HandlersAlone DEF NotYet
<1>q. ASSUME pc' = pc, hpc' = hpc PROVE Intent' = Intent
  BY <1>q DEF Intent
<1>i. ASSUME status' = status, Intent' = Intent PROVE RowMoves
  BY <1>i DEF RowMoves
<1>3. ASSUME Cleanup PROVE RowMoves
  <2>1. RowExists /\ status' = "GONE" /\ pc' = pc /\ hpc' = hpc
    BY <1>3 DEF Cleanup, DeleteRow, thread
  <2> QED
    BY <1>q, <2>1 DEF RowMoves
<1>4. ASSUME HeartbeatAges \/ UNCHANGED vars PROVE RowMoves
  <2>1. status' = status /\ pc' = pc /\ hpc' = hpc
    BY <1>4 DEF HeartbeatAges, vars, store, row, thread
  <2> QED
    BY <1>i, <1>q, <2>1
<1>5. ASSUME Crash PROVE RowMoves
  BY <1>5, CrashEndsAll, Zenon DEF RowMoves
<1>6. RowMoves
  BY <1>3, <1>4, <1>5, HandlerRowMoves, ThreadRowMoves DEF Next, ScanStep
<1> QED
  BY <1>n, <1>6

\* The states and moves of the row are those of the scan.
LEMMA SameTable ==
    /\ Unlocked!JobStatus = JobStatus
    /\ \A from, to : CanMove(from, to) => Unlocked!CanMove(from, to)
  BY DEF JobStatus, CanMove, TERMINAL_STATES, VALID_TRANSITIONS, Unlocked!JobStatus,
         Unlocked!CanMove, Unlocked!TERMINAL_STATES, Unlocked!VALID_TRANSITIONS

\* A move of the row is a step of UnlockedLifecycle.
LEMMA MovesAreUnlocked ==
    ASSUME RowMoves, status' = "NEVER" => status = "NEVER"
    PROVE  [Unlocked!Next]_(Unlocked!uvars)
<1>s. /\ RowExists => RowState = status /\ RowState \in JobStatus
      /\ status' # "NEVER" => RowState' = status'
      /\ status' = status => RowState' = RowState
  BY DEF RowState, RowExists, JobStatus
<1>1. CASE status = "NEVER" /\ status' = "PENDING" /\ Intent' = Intent
  BY <1>1, <1>s DEF Unlocked!Next, Unlocked!Create, RowState
<1>2. CASE RowExists /\ status' = "GONE" /\ Intent' = Intent
  BY <1>2, <1>s, SameTable DEF Unlocked!Next, Unlocked!Delete
<1>3. CASE status' = status /\ \A a \in Agents : Intent'[a] \in { Intent[a], "none" }
  <2> DEFINE S == { a \in Agents : Intent'[a] = "none" }
  <2>1. Intent' = [a \in Agents |-> IF a \in S THEN "none" ELSE Intent[a]]
    BY <1>3 DEF Intent
  <2>2. RowState' = RowState
    BY <1>3, <1>s
  <2> HIDE DEF S
  <2>3. S \in SUBSET Agents
    BY DEF S
  <2>4. Unlocked!GiveUp(S)
    BY <2>1, <2>2 DEF Unlocked!GiveUp
  <2> QED
    BY <2>3, <2>4 DEF Unlocked!Next
<1>4. ASSUME RowExists, status' = status, NEW a \in Agents, NEW to \in JobStatus,
             CanMove(status, to), Intent' = [Intent EXCEPT ![a] = to]
      PROVE  Unlocked!Next
  <2>1. Unlocked!Check(a)
    BY <1>4, <1>s, SameTable DEF Unlocked!Check
  <2> QED
    BY <2>1 DEF Unlocked!Next
<1>5. ASSUME RowExists, NEW a \in Agents, Intent[a] # "none", status' = Intent[a],
             Intent' = [Intent EXCEPT ![a] = "none"]
      PROVE  Unlocked!Next
  <2>1. RowState' = Intent[a]
    BY <1>5, <1>s DEF RowExists, JobStatus
  <2>2. Unlocked!Write(a)
    BY <1>5, <1>s, <2>1, SameTable DEF Unlocked!Write
  <2> QED
    BY <2>2 DEF Unlocked!Next
<1> QED
  BY <1>1, <1>2, <1>3, <1>4, <1>5 DEF RowMoves

\* NotYet, for the proofs that cite it in every state.
LEMMA NotYetInvariance == Spec => []NotYet
<1>1. Init => NotYet
  BY DEF Init, NotYet
<1> QED
  BY <1>1, ScanRowMoves, TypeInvariance, PTL DEF Spec

\* The job row of a scan is the row of UnlockedLifecycle, under any interleaving of
\* handlers and threads, with any faults.
THEOREM ScanImplementsUnlocked == Spec => FollowsUnlocked
<1>1. Init => Unlocked!Init
  <2> SUFFICES ASSUME Init PROVE \A a \in Agents : Intent[a] = "none"
    BY DEF Init, Unlocked!Init, RowState, Intent
  <2> QED
    BY HandlerIntents, ThreadIntents DEF Init, Intent, Agents, Committing
<1>2. TypeInv /\ NotYet /\ [Next]_vars => [Unlocked!Next]_(Unlocked!uvars)
  BY ScanRowMoves, MovesAreUnlocked, FollowsRowSteps DEF RowSteps
<1> QED
  BY <1>1, <1>2, TypeInvariance, NotYetInvariance, PTL DEF Spec, FollowsUnlocked, Unlocked!Spec

\* The theorems about UnlockedLifecycle, for this row.
Row == INSTANCE UnlockedProofs WITH state <- RowState, intent <- Intent

\* The row they speak of is the same.
LEMMA SameRow == FollowsUnlocked => Row!Spec
<1>1. Unlocked!Init => Row!Init
  BY DEF Unlocked!Init, Row!Init
<1>2. [Unlocked!Next]_(Unlocked!uvars) => [Row!Next]_(Row!uvars)
  BY DEF Unlocked!uvars, Unlocked!Next, Unlocked!Create, Unlocked!Check, Unlocked!Write,
         Unlocked!GiveUp, Unlocked!Delete, Unlocked!JobStatus, Unlocked!CanMove,
         Unlocked!TERMINAL_STATES, Unlocked!VALID_TRANSITIONS,
         Row!uvars, Row!Next, Row!Create, Row!Check, Row!Write, Row!GiveUp, Row!Delete,
         Row!JobStatus, Row!CanMove, Row!TERMINAL_STATES, Row!VALID_TRANSITIONS
<1> QED
  BY <1>1, <1>2, PTL DEF FollowsUnlocked, Unlocked!Spec, Row!Spec

\* Once the operations that looked at the row before are over, a terminal status stands.
THEOREM TerminalStatusStands == Spec => TerminalSettles
<1>1. [Row!Settled => RowState' = "GONE" \/ (Row!Settled' /\ RowState' = RowState)]_(Row!uvars)
      => [Unlocked!Settled =>
            RowState' = "GONE" \/ (Unlocked!Settled' /\ RowState' = RowState)]_(Unlocked!uvars)
  BY DEF Row!Settled, Row!Quiet, Row!TERMINAL_STATES, Row!uvars,
         Unlocked!Settled, Unlocked!Quiet, Unlocked!TERMINAL_STATES, Unlocked!uvars
<1> QED
  BY <1>1, ScanImplementsUnlocked, SameRow, Row!SettledStays, PTL
  DEF TerminalSettles, Unlocked!SettledIsFinal, Row!SettledIsFinal

\* Whatever races for a new scan, the status after PENDING is one of the table's.
THEOREM FirstMoveOfAScan ==
    Spec => [][status = "PENDING" =>
                 status' \in VALID_TRANSITIONS.PENDING \cup { "PENDING", "GONE" }]_status
<1>1. ASSUME [RowState = "PENDING" =>
               RowState' \in Row!VALID_TRANSITIONS.PENDING \cup { "PENDING", "GONE" }]_(Row!uvars),
             status' = "NEVER" => status = "NEVER"
      PROVE  [status = "PENDING" =>
               status' \in VALID_TRANSITIONS.PENDING \cup { "PENDING", "GONE" }]_status
  BY <1>1 DEF RowState, Row!uvars, Row!VALID_TRANSITIONS, VALID_TRANSITIONS
<1>2. TypeInv /\ [Next]_vars => (status' = "NEVER" => status = "NEVER")
  BY FollowsRowSteps DEF RowSteps
<1> QED
  BY <1>1, <1>2, ScanImplementsUnlocked, SameRow, TypeInvariance, Row!FirstMoves, PTL
  DEF Spec, Row!FirstMoveIsLegal

\* If no two operations on the row overlap, a scan keeps to the lifecycle that JobService
\* implements: what a lock on the row would restore is exactly the table of moves.
THEOREM SerialScansFollowTable == Spec /\ []Unlocked!Alone => Unlocked!Lifecycle!Spec
<1>1. Unlocked!Alone => Row!Alone
  BY DEF Unlocked!Alone, Row!Alone
<1>2. Row!Lifecycle!Init => Unlocked!Lifecycle!Init
  BY DEF Row!Lifecycle!Init, Unlocked!Lifecycle!Init
<1> DEFINE job == [s \in { "job" } |-> RowState]
<1>3. [Row!Lifecycle!Next]_job => [Unlocked!Lifecycle!Next]_job
  BY DEF Row!Lifecycle!Next, Row!Lifecycle!Create, Row!Lifecycle!Move, Row!Lifecycle!Delete,
         Row!Lifecycle!Set, Row!Lifecycle!Jobs, Row!Lifecycle!JobStatus, Row!Lifecycle!CanMove,
         Row!Lifecycle!TERMINAL_STATES, Row!Lifecycle!VALID_TRANSITIONS,
         Unlocked!Lifecycle!Next, Unlocked!Lifecycle!Create, Unlocked!Lifecycle!Move,
         Unlocked!Lifecycle!Delete, Unlocked!Lifecycle!Set, Unlocked!Lifecycle!Jobs,
         Unlocked!Lifecycle!JobStatus, Unlocked!Lifecycle!CanMove,
         Unlocked!Lifecycle!TERMINAL_STATES, Unlocked!Lifecycle!VALID_TRANSITIONS
<1> QED
  BY <1>1, <1>2, <1>3, ScanImplementsUnlocked, SameRow, Row!SerialIsLifecycle, PTL
  DEF Row!Lifecycle!Spec, Unlocked!Lifecycle!Spec
===============================================================================
