------------------------- MODULE ExtractionDataProofs -------------------------
(***************************************************************************)
(* Theorems about the data of Extraction: the raw files have no hole, no   *)
(* checkpoint runs ahead of the fetching, and a COMPLETED job has fetched, *)
(* filed and counted all it was asked for.                                 *)
(***************************************************************************)
EXTENDS ExtractionProofs

\* The labels of a thread before its first page, on its way through a type and after
\* the last type; at the others it is not there yet, or over.
Starting == { "run", "run_commit", "auth", "next_type", "load_ckpt" }

\* Between two pages, a page in hand, a type in hand, and past the last type.
Fetching == { "check", "fetch" }

Saving == { "ckpt_read", "ckpt_commit", "beat" }

Saved == { "save_raw", "type_beat" }

Finishing == { "normalize", "normalize_commit", "upload", "upload_commit", "complete",
               "complete_commit", "complete_stats" }

\* The labels of a thread that is at work, neither failing nor over.
Working == Starting \cup Fetching \cup Saving \cup Saved \cup Finishing \cup { "save_stats" }

\* A step of a thread that only moves the thread itself, or the job's status.
Moves(w) ==
    /\ UNCHANGED << objectTypes, counts, ckpt, raw, locals, fetched >>
    /\ \/ pc'[w] \in { "failing", "fail_commit", "returned" }
       \/ {pc[w], pc'[w]} \subseteq Starting
       \/ pc[w] = "next_type" /\ pc'[w] = "save_stats" /\ todo[w] = << >>
       \/ pc[w] = "check" /\ pc'[w] = "fetch"
       \/ {pc[w], pc'[w]} \subseteq Finishing
    /\ status' = "COMPLETED" => status = "COMPLETED" \/ pc[w] = "complete_commit"

\* The steps of a thread that do more than that.
DataStep(w) ==
    \/ LoadCheckpoint(w)
    \/ FetchPage(w)
    \/ CheckpointRead(w)
    \/ CheckpointCommit(w)
    \/ BeatAfterPage(w)
    \/ SaveRaw(w)
    \/ BeatAfterType(w)
    \/ SaveStats(w)
    \/ CompleteStats(w)
    \/ Unregister(w)

\* A step of a thread is one of the two.
LEMMA ThreadSteps ==
    ASSUME TypeInv, NEW w \in Workers, WorkerStep(w)
    PROVE  DataStep(w) \/ Moves(w)
<1>t. pc \in [Workers -> Labels]
  BY DEF TypeInv, ScanTypeOK
<1> USE <1>t DEF Moves, Goto, Starting, Finishing, store, row, history
<1>1. ASSUME NEW stage \in DOMAIN Target, UpdateStatusRead(w, stage) PROVE Moves(w)
  <2>1. \/ stage = "run" /\ CommitLabel[stage] = "run_commit"
        \/ {stage, CommitLabel[stage]} \subseteq Finishing
    BY StageLemma DEF CommitLabel
  <2> QED
    BY <1>1, <2>1 DEF UpdateStatusRead
<1>2. ASSUME NEW stage \in DOMAIN Target, UpdateStatusCommit(w, stage) PROVE Moves(w)
  <2>1. \/ CommitLabel[stage] = "run_commit" /\ AfterCommit[stage] = "auth"
        \/ {CommitLabel[stage], AfterCommit[stage]} \subseteq Finishing
    BY StageLemma DEF CommitLabel, AfterCommit, Target
  <2>2. Target[stage] = "COMPLETED" => CommitLabel[stage] = "complete_commit"
    BY StageLemma DEF Target, CommitLabel
  <2> QED
    BY <1>2, <2>1, <2>2 DEF UpdateStatusCommit
<1>3. CASE Authenticate(w) \/ NextType(w) \/ CheckStop(w) \/ FetchFails(w) \/ SaveRawFails(w)
  BY <1>3 DEF Authenticate, NextType, CheckStop, FetchFails, SaveRawFails
<1>4. CASE FailRead(w) \/ FailCommit(w) \/ DbError(w) \/ StopUnseen(w)
  BY <1>4 DEF FailRead, FailCommit, DbError, StopUnseen
<1> QED
  BY <1>1, <1>2, <1>3, <1>4 DEF WorkerStep, DataStep

\* What the handlers, the cleanup, the clock and a crash may do to the data.
OtherSteps ==
    /\ fetched' = fetched
    /\ \/ raw' = raw
       \/ /\ \E t \in ObjectTypes : raw' = [raw EXCEPT ![t] = {}]
          /\ \E h \in Handlers : hpc[h] = "rmtree"
    /\ \/ ckpt' = ckpt
       \/ status' = "GONE" /\ ckpt' = [t \in ObjectTypes |-> NoCkpt]
    /\ counts' = counts \/ status' = "GONE"
    /\ objectTypes' = objectTypes \/ status = "NEVER" \/ status' = "GONE"
    /\ status' = "GONE" =>
         (status = "GONE" /\ objectTypes' = objectTypes) \/ objectTypes' = << >>
    /\ status' = "COMPLETED" => status = "COMPLETED"
    /\ UNCHANGED << thread, registry >> \/ Crash \/ \E h \in Handlers : Launching(h)
    /\ \A h \in Handlers : hpc'[h] = "rmtree" => hpc[h] = "rmtree" \/ status' = "GONE"

\* Every step that is none of a thread is one of those.
LEMMA OthersFollow ==
    ASSUME TypeInv, [Next]_vars, ~ \E w \in Workers : WorkerStep(w)
    PROVE  OtherSteps
<1>t. /\ hpc \in [Handlers -> DOMAIN Allowed \cup LaunchLabels \cup { "idle", "rmtree" }]
      /\ "rmtree" \notin DOMAIN Allowed
  BY DEF TypeInv, ScanTypeOK, Allowed
<1> USE <1>t DEF OtherSteps, store, row, history
<1>1. ASSUME NEW h \in Handlers, HandlerStep(h) PROVE OtherSteps
  <2>1. CASE ResumeCommit(h) \/ ResumeAgain(h) \/ \E types \in Requests : StartScan(h, types)
    BY <2>1 DEF ResumeCommit, ResumeAgain, StartScan, HandlerDone, RowExists, JobStatus
  <2>2. ASSUME NEW op \in DOMAIN Writes, WriteCommit(h, op) PROVE OtherSteps
    BY <2>2 DEF WriteCommit, Writes, HandlerDone
  <2>3. ASSUME NEW op \in DOMAIN Allowed, HandlerRead(h, op) PROVE OtherSteps
    BY <2>3 DEF HandlerRead
  <2>4. CASE RemoveCommit(h)
    BY <2>4 DEF RemoveCommit, DeleteRow
  <2>5. CASE RemoveDir(h) \/ \E t \in ObjectTypes : UnlinkRaw(h, t)
    BY <2>5 DEF RemoveDir, UnlinkRaw, HandlerDone
  <2>6. CASE \E loop \in CallerHasLoop : LaunchTask(h, loop)
    BY <2>6 DEF LaunchTask, HandlerDone
  <2> QED
    BY <1>1, <2>1, <2>2, <2>3, <2>4, <2>5, <2>6 DEF HandlerStep
<1>4. CASE Cleanup
  BY <1>4 DEF Cleanup, DeleteRow
<1>5. CASE HeartbeatAges
  BY <1>5 DEF HeartbeatAges
<1>6. CASE Crash
  BY <1>6 DEF Crash
<1>7. CASE UNCHANGED vars
  BY <1>7 DEF vars
<1> QED
  BY <1>1, <1>4, <1>5, <1>6, <1>7 DEF Next, ScanStep

-------------------------------------------------------------------------------
\* The pages of P go up to page n without a hole.
UpTo(P, n) == \A p \in P : p <= n /\ p..n \subseteq P

\* The page before cursor c, once one has been fetched.
LastFetched(c) == IF c = 0 THEN Pages ELSE c

\* The next page leaves no hole.
LEMMA OnePageMore ==
    ASSUME NEW n \in Nat, NEW P \in SUBSET Nat, UpTo(P, n)
    PROVE  UpTo(P \cup {n + 1}, n + 1)
<1> SUFFICES ASSUME NEW p \in P \cup {n + 1}, NEW q \in p..(n + 1)
             PROVE  p <= n + 1 /\ q \in P \cup {n + 1}
  BY DEF UpTo
<1>1. CASE p = n + 1
  BY <1>1
<1>2. CASE p \in P
  <2>1. p <= n /\ p..n \subseteq P
    BY <1>2 DEF UpTo
  <2>2. q \in p..n \/ q = n + 1
    BY <1>2
  <2> QED
    BY <1>2, <2>1, <2>2
<1> QED
  BY <1>1, <1>2

\* The cursor after a page is the page's number, or 0 after the last page.
LEMMA NextCursorLemma ==
    ASSUME NEW c \in 0..(Pages - 1)
    PROVE  /\ c \in Nat /\ c + 1 \in 1..Pages
           /\ NextCursor(c) \in 0..(Pages - 1)
           /\ LastFetched(NextCursor(c)) = c + 1
           /\ NextCursor(c) = 0 => c + 1 = Pages
           /\ NextCursor(c) # 0 => NextCursor(c) = c + 1
  BY PagesAssumption DEF NextCursor, LastFetched

\* Neither a file nor what a thread has in hand has a hole.
PagesOf(w) ==
    /\ pc[w] \in Fetching => UpTo(pages[w], cursor[w])
    /\ pc[w] \in Saving \cup Saved =>
         /\ UpTo(pages[w], LastFetched(cursor[w]))
         /\ LastFetched(cursor[w]) \in pages[w]
    /\ pc[w] \in Saved => cursor[w] = 0

\* The invariant of the files: with those on disk, the pages every thread has in hand.
PagesInv ==
    /\ \A t \in ObjectTypes : UpTo(raw[t], Pages)
    /\ \A w \in Workers : PagesOf(w)


\* A thread keeps its pages without a hole: it starts from its cursor and each page it
\* adds is the cursor's.
LEMMA PagesOfThread ==
    ASSUME TypeInv, NEW w \in Workers, WorkerStep(w), PagesOf(w)
    PROVE  PagesOf(w)'
<1>t. /\ pc \in [Workers -> Labels] /\ cursor \in [Workers -> 0..(Pages - 1)]
      /\ pages \in [Workers -> SUBSET (1..Pages)]
  BY DEF TypeInv, ScanTypeOK
<1> USE <1>t DEF PagesOf, Starting, Fetching, Saving, Saved, Finishing, Goto
<1>1. CASE Moves(w)
  BY <1>1 DEF Moves, locals
<1>2. CASE LoadCheckpoint(w)
  <2>1. pages'[w] = {} /\ pc'[w] \in { "check", "failing" }
    BY <1>2 DEF LoadCheckpoint
  <2> QED
    BY <2>1 DEF UpTo
<1>3. CASE FetchPage(w)
  <2>1. /\ pc[w] = "fetch" /\ pc'[w] = "ckpt_read"
        /\ cursor'[w] = NextCursor(cursor[w])
        /\ pages'[w] = pages[w] \cup {cursor[w] + 1}
    BY <1>3 DEF FetchPage
  <2>2. cursor[w] \in Nat /\ pages[w] \in SUBSET Nat /\ UpTo(pages[w], cursor[w])
    BY <2>1, PagesAssumption
  <2>3. UpTo(pages'[w], cursor[w] + 1)
    BY <2>1, <2>2, OnePageMore
  <2>4. LastFetched(cursor'[w]) = cursor[w] + 1
    BY <2>1, NextCursorLemma
  <2> QED
    BY <2>1, <2>3, <2>4
<1>4. CASE CheckpointRead(w) \/ CheckpointCommit(w)
  BY <1>4 DEF CheckpointRead, CheckpointCommit, locals
<1>5. CASE BeatAfterPage(w)
  BY <1>5 DEF BeatAfterPage, locals, LastFetched
<1>6. CASE SaveRaw(w)
  BY <1>6 DEF SaveRaw
<1>7. CASE BeatAfterType(w) \/ SaveStats(w) \/ CompleteStats(w) \/ Unregister(w)
  BY <1>7 DEF BeatAfterType, SaveStats, CompleteStats, Unregister
<1> QED
  BY <1>1, <1>2, <1>3, <1>4, <1>5, <1>6, <1>7, ThreadSteps DEF DataStep

\* Every step keeps PagesInv.
LEMMA PagesStep == TypeInv /\ PagesInv /\ [Next]_vars => PagesInv'
<1> SUFFICES ASSUME TypeInv, PagesInv, [Next]_vars PROVE PagesInv'
  OBVIOUS
<1>t. pc \in [Workers -> Labels] /\ raw \in [ObjectTypes -> SUBSET (1..Pages)]
  BY DEF TypeInv, ScanTypeOK
<1>s. ASSUME NEW v \in Workers, PagesOf(v),
             UNCHANGED << pc[v], cursor[v], pages[v] >> \/ pc'[v] \in { "idle", "run", "done" }
      PROVE  PagesOf(v)'
  BY <1>s DEF PagesOf, Fetching, Saving, Saved
<1>1. ASSUME NEW w \in Workers, WorkerStep(w) PROVE PagesInv'
  <2>1. \A v \in Workers : PagesOf(v)'
    BY <1>1, <1>s, PagesOfThread, OtherThreads DEF PagesInv, SameThread
  <2>2. raw' = raw \/ SaveRaw(w)
    BY <1>1, ThreadSteps
    DEF DataStep, Moves, LoadCheckpoint, FetchPage, CheckpointRead, CheckpointCommit,
        BeatAfterPage, BeatAfterType, UpdateHeartbeat, SaveStats, CompleteStats, Unregister,
        store
  <2>3. ASSUME SaveRaw(w) PROVE \A t \in ObjectTypes : UpTo(raw'[t], Pages)
    <3>1. PagesOf(w) /\ pc[w] \in Saved
      BY <2>3 DEF PagesInv, SaveRaw, Saved
    <3>2. UpTo(pages[w], Pages)
      BY <3>1 DEF PagesOf, LastFetched
    <3>3. raw' = [raw EXCEPT ![Type(w)] = pages[w]]
      BY <2>3 DEF SaveRaw
    <3> QED
      BY <1>t, <3>2, <3>3 DEF PagesInv
  <2> QED
    BY <2>1, <2>2, <2>3 DEF PagesInv
<1>2. CASE ~ \E w \in Workers : WorkerStep(w)
  <2>1. ASSUME NEW t \in ObjectTypes PROVE UpTo(raw'[t], Pages)
    <3>1. raw'[t] \in { raw[t], {} }
      BY <1>t, <1>2, OthersFollow DEF OtherSteps
    <3> QED
      BY <3>1 DEF PagesInv, UpTo
  <2>2. ASSUME NEW v \in Workers PROVE PagesOf(v)'
    <3>1. CASE Crash
      <4>1. pc'[v] \in { "idle", "done" }
        BY <1>t, <3>1 DEF Crash, Live
      <4> QED
        BY <1>s, <4>1 DEF PagesInv
    <3>2. CASE UNCHANGED << thread, registry >>
      BY <1>s, <3>2 DEF PagesInv, thread, locals
    <3>3. ASSUME NEW w \in Workers, Launched(w) PROVE PagesOf(v)'
      BY <1>t, <1>s, <3>3 DEF PagesInv, Launched
    <3> QED
      BY <1>2, <3>1, <3>2, <3>3, NoThreadSteps DEF NewThread
  <2> QED
    BY <2>1, <2>2 DEF PagesInv
<1> QED
  BY <1>1, <1>2

\* PagesInv, in every state.
LEMMA PagesInvariance == Spec => []PagesInv
<1>1. Init => PagesInv
  BY DEF Init, PagesInv, PagesOf, UpTo, Fetching, Saving, Saved
<1> QED
  BY <1>1, PagesStep, TypeInvariance, PTL DEF Spec

\* A raw file is everything from some page to the last one.
THEOREM FilesHaveNoHole == Spec => []RawIsSuffix
<1>1. PagesInv => RawIsSuffix
  BY DEF PagesInv, UpTo, RawIsSuffix
<1> QED
  BY <1>1, PagesInvariance, PTL

-------------------------------------------------------------------------------
\* What a step of another actor makes of a thread.
Bystander(v) ==
    \/ /\ UNCHANGED << pc[v], todo[v], cursor[v], records[v], pages[v] >>
       /\ UNCHANGED << stats[v], base[v] >>
    \/ pc'[v] \in { "idle", "done" }
    \/ pc[v] = "idle" /\ pc'[v] = "run" /\ todo'[v] \in { objectTypes', ResumeTypes' }

\* A thread that takes no step is launched, ended by a crash or left as it is.
LEMMA Bystanders ==
    ASSUME TypeInv, [Next]_vars, NEW v \in Workers, ~WorkerStep(v)
    PROVE  Bystander(v)
<1>t. pc \in [Workers -> Labels]
  BY DEF TypeInv, ScanTypeOK
<1>1. ASSUME NEW w \in Workers, WorkerStep(w) PROVE Bystander(v)
  BY <1>1, OtherThreads DEF Bystander, SameThread
<1>2. CASE ~ \E w \in Workers : WorkerStep(w)
  <2>1. CASE Crash
    BY <1>t, <2>1 DEF Crash, Live, Bystander
  <2>2. CASE UNCHANGED << thread, registry >>
    BY <2>2 DEF Bystander, thread, locals
  <2>3. ASSUME NEW w \in Workers, Launched(w), todo'[w] \in { objectTypes', ResumeTypes' }
        PROVE  Bystander(v)
    BY <1>t, <2>3 DEF Launched, Bystander
  <2> QED
    BY <1>2, <2>1, <2>2, <2>3, NoThreadSteps DEF NewThread
<1> QED
  BY <1>1, <1>2

-------------------------------------------------------------------------------
\* A cursor and a count of records that do not run ahead of the fetching.
Valid(t, c, r) ==
    /\ 1..c \subseteq Fetched(t)
    /\ r > 0 /\ c = 0 => Fetched(t) = 1..Pages

\* A checkpoint of type t is valid, and one that was written counts records.
CkptOf(t) ==
    /\ Valid(t, ckpt[t].cursor, ckpt[t].records)
    /\ ckpt[t] = NoCkpt \/ ckpt[t].records > 0

\* The cursor a thread has in hand is valid, has counted records once it is to be saved,
\* and a row the thread has loaded is still there, unless the whole job is gone.
CursorOf(w) ==
    /\ pc[w] \in Fetching \cup Saving \cup Saved => Valid(Type(w), cursor[w], records[w])
    /\ pc[w] \in Saving \cup Saved => records[w] > 0
    /\ pc[w] \in Fetching \cup Saving /\ status # "GONE" /\ base[w] # NoCkpt =>
         ckpt[Type(w)] # NoCkpt

\* The invariant of the checkpoints: with the rows, the cursors of the threads that will
\* be flushed to them.
CkptInv ==
    /\ \A t \in ObjectTypes : CkptOf(t)
    /\ \A w \in Workers : CursorOf(w)

\* What has been fetched stays fetched.
LEMMA FetchedGrows ==
    ASSUME TypeInv, [Next]_vars
    PROVE  fetched \subseteq fetched'
<1>1. ASSUME NEW w \in Workers, WorkerStep(w) PROVE fetched \subseteq fetched'
  BY <1>1, ThreadSteps
  DEF DataStep, Moves, LoadCheckpoint, FetchPage, CheckpointRead, CheckpointCommit,
      BeatAfterPage, BeatAfterType, UpdateHeartbeat, SaveRaw, SaveStats, CompleteStats,
      Unregister, history
<1> QED
  BY <1>1, OthersFollow DEF OtherSteps

\* A valid cursor stays valid while more is fetched.
LEMMA ValidStays ==
    ASSUME NEW t, NEW c, NEW r, Valid(t, c, r), fetched \subseteq fetched'
    PROVE  Valid(t, c, r)'
  BY DEF Valid, Fetched

\* A row mixed from the columns of two flushes is as valid as the rows it comes from.
LEMMA MixedColumns ==
    ASSUME NEW t, NEW current \in Checkpoint, NEW loaded \in Checkpoint,
           NEW c \in 0..(Pages - 1), NEW r \in Nat, r > 0,
           Valid(t, current.cursor, current.records),
           current = NoCkpt \/ current.records > 0,
           Valid(t, c, r),
           loaded = NoCkpt <=> current = NoCkpt
    PROVE  /\ Valid(t, Column(current.cursor, loaded.cursor, c),
                       Column(current.records, loaded.records, r))
           /\ Column(current.records, loaded.records, r) > 0
<1>1. /\ current.cursor \in Nat /\ current.records \in Nat
      /\ loaded.cursor \in Nat /\ loaded.records \in Nat /\ c \in Nat
  BY PagesAssumption DEF Checkpoint
<1>2. CASE current = NoCkpt
  <2>1. /\ loaded.cursor = 0 /\ current.cursor = 0
        /\ loaded.records = 0 /\ current.records = 0
    BY <1>2 DEF NoCkpt
  <2>2. Column(0, 0, c) = c /\ Column(0, 0, r) = r
    BY DEF Column
  <2> QED
    BY <2>1, <2>2
<1>3. CASE current.records > 0
  BY <1>1, <1>3 DEF Valid, Column
<1> QED
  BY <1>2, <1>3

\* A checkpoint once written is not NoCkpt.
LEMMA WrittenLemma ==
    ASSUME NEW k, k.records > 0
    PROVE  k # NoCkpt
  BY DEF NoCkpt

\* The checkpoint rows after a step: as they were, gone with the job, or one written.
LEMMA CkptSteps ==
    ASSUME TypeInv, CkptInv, [Next]_vars
    PROVE  /\ \/ ckpt' = ckpt
              \/ status' = "GONE"
              \/ \E t \in ObjectTypes :
                   /\ \A u \in ObjectTypes \ {t} : ckpt'[u] = ckpt[u]
                   /\ ckpt'[t].records > 0
           /\ \A t \in ObjectTypes : CkptOf(t)'
<1> DEFINE Steps == \/ ckpt' = ckpt
                    \/ status' = "GONE"
                    \/ \E t \in ObjectTypes :
                         /\ \A u \in ObjectTypes \ {t} : ckpt'[u] = ckpt[u]
                         /\ ckpt'[t].records > 0
<1>t. /\ ckpt \in [ObjectTypes -> Checkpoint] /\ base \in [Workers -> Checkpoint]
      /\ cursor \in [Workers -> 0..(Pages - 1)] /\ records \in [Workers -> Nat]
  BY DEF TypeInv, ScanTypeOK
<1>f. fetched \subseteq fetched'
  BY FetchedGrows
<1>1. CASE ckpt' = ckpt
  BY <1>1, <1>f, ValidStays DEF CkptInv, CkptOf
<1>2. CASE status' = "GONE" /\ ckpt' = [t \in ObjectTypes |-> NoCkpt]
  BY <1>2, PagesAssumption DEF CkptOf, Valid, NoCkpt
<1>3. ASSUME NEW w \in Workers, CheckpointCommit(w), CheckpointSaved(w)
      PROVE  Steps /\ \A t \in ObjectTypes : CkptOf(t)'
  <2> DEFINE t == Type(w)
             c == Column(ckpt[t].cursor, base[w].cursor, cursor[w])
             r == Column(ckpt[t].records, base[w].records, records[w])
  <2>1. t \in ObjectTypes /\ pc[w] = "ckpt_commit"
    BY <1>3, HeadLemma DEF CheckpointCommit, TypeInv, ScanTypeOK, Placed, InType
  <2>2. ckpt' = [ckpt EXCEPT ![t] = [cursor |-> c, records |-> r]]
    BY <1>3 DEF CheckpointCommit
  <2>3. /\ Valid(t, cursor[w], records[w]) /\ records[w] > 0
        /\ base[w] = NoCkpt <=> ckpt[t] = NoCkpt
        /\ Valid(t, ckpt[t].cursor, ckpt[t].records)
        /\ ckpt[t] = NoCkpt \/ ckpt[t].records > 0
    BY <1>3, <2>1
    DEF CkptInv, CkptOf, CursorOf, Fetching, Saving, Saved, CheckpointSaved, RowExists, JobStatus
  <2>4. Valid(t, c, r) /\ r > 0
    BY <1>t, <2>1, <2>3, MixedColumns
  <2> HIDE DEF t, c, r
  <2>5. /\ ckpt'[t].cursor = c /\ ckpt'[t].records = r
        /\ \A u \in ObjectTypes \ {t} : ckpt'[u] = ckpt[u]
    BY <1>t, <2>1, <2>2
  <2>6. fetched' = fetched
    BY <1>3 DEF CheckpointCommit, history
  <2> QED
    BY <2>1, <2>4, <2>5, <2>6 DEF CkptInv, CkptOf, Valid, Fetched
<1>4. ASSUME NEW w \in Workers, WorkerStep(w), ckpt' # ckpt
      PROVE  CheckpointCommit(w) /\ CheckpointSaved(w)
  BY <1>4, ThreadSteps
  DEF DataStep, Moves, LoadCheckpoint, FetchPage, CheckpointRead, CheckpointCommit,
      BeatAfterPage, BeatAfterType, UpdateHeartbeat, SaveRaw, SaveStats, CompleteStats,
      Unregister, store
<1> QED
  BY <1>1, <1>2, <1>3, <1>4, OthersFollow DEF OtherSteps

\* A type that has a checkpoint keeps one, as long as the job is there.
LEMMA CkptStays ==
    ASSUME TypeInv, CkptInv, [Next]_vars, status' # "GONE",
           NEW t \in ObjectTypes, ckpt[t] # NoCkpt
    PROVE  ckpt'[t] # NoCkpt
  BY CkptSteps, WrittenLemma

\* A thread keeps its cursor valid through its own steps.
LEMMA CursorOfThread ==
    ASSUME TypeInv, CkptInv, [Next]_vars, NEW w \in Workers, WorkerStep(w)
    PROVE  CursorOf(w)'
<1>t. /\ pc \in [Workers -> Labels] /\ cursor \in [Workers -> 0..(Pages - 1)]
      /\ records \in [Workers -> Nat] /\ pages \in [Workers -> SUBSET (1..Pages)]
      /\ base \in [Workers -> Checkpoint]
  BY DEF TypeInv, ScanTypeOK
<1>c. CursorOf(w)
  BY DEF CkptInv
<1>f. fetched \subseteq fetched'
  BY FetchedGrows
<1>g. status = "GONE" => status' = "GONE"
  BY FollowsRowSteps DEF RowSteps
<1>h. pc[w] \in InType => Type(w) \in ObjectTypes
  BY HeadLemma DEF TypeInv, ScanTypeOK, Placed
<1>v. \A t, c, r : Valid(t, c, r) => Valid(t, c, r)'
  BY <1>f, ValidStays
<1> USE DEF Fetching, Saving, Saved, Goto
<1>1. CASE Moves(w)
  BY <1>1, <1>t, <1>c, <1>g DEF Moves, Starting, Finishing, CursorOf, locals, Type, Valid, Fetched
<1>2. CASE LoadCheckpoint(w)
  <2>1. CASE RowExists
    <3>1. /\ pc'[w] = "check" /\ Type(w)' = Type(w)
          /\ cursor'[w] = ckpt[Type(w)].cursor /\ records'[w] = ckpt[Type(w)].records
          /\ base'[w] = ckpt[Type(w)] /\ ckpt' = ckpt /\ fetched' = fetched
      BY <1>2, <1>t, <2>1 DEF LoadCheckpoint, store, history, Type
    <3>2. CkptOf(Type(w))
      BY <1>2, <1>h DEF LoadCheckpoint, InType, CkptInv
    <3> QED
      BY <3>1, <3>2 DEF CursorOf, CkptOf, Valid, Fetched
  <2>2. CASE ~RowExists
    BY <1>2, <1>t, <2>2 DEF LoadCheckpoint, CursorOf
  <2> QED
    BY <2>1, <2>2
<1>3. CASE FetchPage(w)
  <2>0. PICK c, t : c = cursor[w] /\ t = Type(w)
    OBVIOUS
  <2>1. /\ pc[w] = "fetch" /\ pc'[w] = "ckpt_read" /\ Type(w)' = t
        /\ cursor'[w] = NextCursor(c) /\ records'[w] = records[w] + 1
        /\ base' = base /\ ckpt' = ckpt /\ status' = status
        /\ fetched' = fetched \cup { << t, c + 1 >> }
    BY <1>3, <1>t, <2>0 DEF FetchPage, store, row, Type
  <2>2. /\ c \in Nat /\ c + 1 \in 1..Pages
        /\ NextCursor(c) = 0 => c + 1 = Pages
        /\ NextCursor(c) # 0 => NextCursor(c) = c + 1
    BY <1>t, <2>0, NextCursorLemma
  <2>3. 1..c \subseteq Fetched(t)
    BY <1>c, <2>0, <2>1 DEF CursorOf, Valid
  <2>4. 1..(c + 1) \subseteq Fetched(t)'
    <3>1. Fetched(t) \subseteq Fetched(t)'
      BY <1>f DEF Fetched
    <3>2. c + 1 \in Fetched(t)'
      BY <2>1, <2>2 DEF Fetched
    <3>3. 1..(c + 1) = (1..c) \cup {c + 1}
      BY <2>2
    <3> QED
      BY <2>3, <3>1, <3>2, <3>3
  <2>5. \A r : Valid(t, NextCursor(c), r)'
    <3>1. Fetched(t)' \subseteq 1..Pages
      BY DEF Fetched
    <3>2. Pages \in Nat
      BY PagesAssumption
    <3>3. CASE NextCursor(c) = 0
      <4>1. Fetched(t)' = 1..Pages
        BY <2>2, <2>4, <3>1, <3>3
      <4>2. 1..0 \subseteq Fetched(t)'
        OBVIOUS
      <4> QED
        BY <3>3, <4>1, <4>2 DEF Valid
    <3>4. CASE NextCursor(c) = c + 1 /\ NextCursor(c) # 0
      BY <2>2, <2>4, <3>4 DEF Valid
    <3> QED
      BY <2>2, <3>3, <3>4
  <2>6. records'[w] > 0
    BY <1>t, <2>1
  <2> QED
    BY <1>c, <2>0, <2>1, <2>5, <2>6 DEF CursorOf
<1>4. CASE CheckpointRead(w)
  <2>1. /\ pc[w] = "ckpt_read" /\ Type(w)' = Type(w)
        /\ UNCHANGED << cursor, records, ckpt, status, fetched >>
        /\ pc'[w] \in { "ckpt_commit", "failing" }
        /\ base'[w] = base[w] \/ base'[w] = ckpt[Type(w)]
    BY <1>4, <1>t DEF CheckpointRead, store, row, history, Type
  <2> QED
    BY <1>c, <1>v, <2>1 DEF CursorOf
<1>5. CASE CheckpointCommit(w)
  <2>1. /\ pc[w] = "ckpt_commit" /\ Type(w)' = Type(w) /\ UNCHANGED << cursor, records, base >>
        /\ UNCHANGED << status, fetched >>
        /\ pc'[w] \in { "returned", "beat" }
    BY <1>5, <1>t DEF CheckpointCommit, locals, row, history, Type
  <2>2. status' # "GONE" /\ base[w] # NoCkpt => ckpt'[Type(w)] # NoCkpt
    BY <1>c, <1>h, <2>1, CkptStays DEF CursorOf, InType
  <2> QED
    BY <1>c, <1>v, <2>1, <2>2 DEF CursorOf
<1>6. CASE BeatAfterPage(w)
  <2>1. /\ pc[w] = "beat" /\ Type(w)' = Type(w)
        /\ UNCHANGED << cursor, records, base, ckpt, status, fetched >>
        /\ pc'[w] \in { "failing", "save_raw", "check" }
    BY <1>6, <1>t DEF BeatAfterPage, UpdateHeartbeat, locals, history, Type
  <2> QED
    BY <1>c, <1>v, <2>1 DEF CursorOf
<1>7. CASE SaveRaw(w)
  <2>1. /\ pc[w] = "save_raw" /\ pc'[w] = "type_beat" /\ Type(w)' = Type(w)
        /\ UNCHANGED << cursor, records, base, ckpt, status, fetched >>
    BY <1>7, <1>t DEF SaveRaw, row, history, Type
  <2> QED
    BY <1>c, <1>v, <2>1 DEF CursorOf
<1>8. CASE BeatAfterType(w) \/ SaveStats(w) \/ CompleteStats(w) \/ Unregister(w)
  BY <1>8, <1>t DEF BeatAfterType, SaveStats, CompleteStats, Unregister, CursorOf
<1> QED
  BY <1>1, <1>2, <1>3, <1>4, <1>5, <1>6, <1>7, <1>8, ThreadSteps DEF DataStep

\* Every step keeps CkptInv.
LEMMA CkptStep == TypeInv /\ CkptInv /\ [Next]_vars => CkptInv'
<1> SUFFICES ASSUME TypeInv, CkptInv, [Next]_vars, NEW v \in Workers
             PROVE  CursorOf(v)'
  BY CkptSteps DEF CkptInv
<1>g. status = "GONE" => status' = "GONE"
  BY FollowsRowSteps DEF RowSteps
<1>f. fetched \subseteq fetched'
  BY FetchedGrows
<1>1. CASE WorkerStep(v)
  BY <1>1, CursorOfThread
<1>2. CASE pc'[v] \in { "idle", "run", "done" }
  BY <1>2 DEF CursorOf, Fetching, Saving, Saved
<1>3. CASE UNCHANGED << pc[v], todo[v], cursor[v], records[v], base[v] >>
  <2>1. Type(v)' = Type(v) /\ CursorOf(v)
    BY <1>3 DEF Type, CkptInv
  <2>2. \A t, c, r : Valid(t, c, r) => Valid(t, c, r)'
    BY <1>f, ValidStays
  <2>3. status' # "GONE" /\ ckpt[Type(v)] # NoCkpt /\ pc[v] \in InType => ckpt'[Type(v)] # NoCkpt
    <3>1. pc[v] \in InType => Type(v) \in ObjectTypes
      BY HeadLemma DEF TypeInv, ScanTypeOK, Placed
    <3> QED
      BY <3>1, CkptStays
  <2> QED
    BY <1>3, <1>g, <2>1, <2>2, <2>3 DEF CursorOf, Fetching, Saving, Saved, InType
<1> QED
  BY <1>1, <1>2, <1>3, Bystanders DEF Bystander

\* CkptInv, in every state.
LEMMA CkptInvariance == Spec => []CkptInv
<1>1. Init => CkptInv
  BY PagesAssumption DEF Init, CkptInv, CkptOf, CursorOf, Valid, NoCkpt, Fetching, Saving, Saved
<1> QED
  BY <1>1, CkptStep, TypeInvariance, PTL DEF Spec

\* A checkpoint never runs ahead of the fetching.
THEOREM CheckpointsSkipNoPage == Spec => []NoSkippedPage
<1>1. CkptInv => NoSkippedPage
  BY DEF CkptInv, CkptOf, Valid, NoSkippedPage
<1> QED
  BY <1>1, CkptInvariance, PTL

-------------------------------------------------------------------------------
\* Before the scan there is no thread and none is about to be launched; after it nothing
\* is asked for, and only then are its files removed.
EndsInv ==
    /\ status = "NEVER" => \A w \in Workers : pc[w] = "idle"
    /\ NotYet
    /\ \A h \in Handlers : hpc[h] = "rmtree" => status = "GONE"
    /\ status = "GONE" => objectTypes = << >>

\* Every step keeps EndsInv.
LEMMA EndsStep == TypeInv /\ EndsInv /\ [Next]_vars => EndsInv'
<1> SUFFICES ASSUME TypeInv, EndsInv, [Next]_vars PROVE EndsInv'
  OBVIOUS
<1>r. /\ status = "GONE" => status' = "GONE"
      /\ status' = "NEVER" => status = "NEVER"
      /\ NotYet'
  BY FollowsRowSteps, ScanRowMoves DEF RowSteps, EndsInv
<1>1. ASSUME NEW w \in Workers, WorkerStep(w) PROVE EndsInv'
  <2>1. status' # "NEVER"
    BY <1>1, <1>r, SteppingThreads DEF EndsInv
  <2> QED
    BY <1>1, <1>r, <2>1, SteppingThreads DEF EndsInv
<1>2. CASE ~ \E w \in Workers : WorkerStep(w)
  <2>1. OtherSteps
    BY <1>2, OthersFollow
  <2>2. ASSUME status' = "NEVER", NEW w \in Workers PROVE pc'[w] = "idle"
    <3>1. status = "NEVER" /\ pc[w] = "idle"
      BY <1>r, <2>2 DEF EndsInv
    <3>2. CASE UNCHANGED << thread, registry >>
      BY <3>1, <3>2 DEF thread
    <3>3. CASE Crash
      BY <3>1, <3>3 DEF Crash, Live
    <3>4. ASSUME NEW h \in Handlers, Launching(h) PROVE FALSE
      BY <3>1, <3>4 DEF EndsInv, NotYet, Launching, LaunchLabels
    <3> QED
      BY <2>1, <3>2, <3>3, <3>4 DEF OtherSteps
  <2> QED
    BY <1>r, <2>1, <2>2 DEF EndsInv, OtherSteps
<1> QED
  BY <1>1, <1>2

\* EndsInv, in every state.
LEMMA EndsInvariance == Spec => []EndsInv
<1>1. Init => EndsInv
  BY DEF Init, EndsInv, NotYet
<1> QED
  BY <1>1, EndsStep, TypeInvariance, PTL DEF Spec

-------------------------------------------------------------------------------
\* A type is whole once all of it was fetched and its file reaches the last page.
Whole(t) == Fetched(t) = 1..Pages /\ Pages \in raw[t]

\* The counts f report type t.
Counted(f, t) == t \in DOMAIN f /\ f[t] > 0

\* A type among those of a sequence.
Member(t, s) == \E i \in DOMAIN s : s[i] = t

\* The types a thread has still to do.
Owed(w) == IF pc[w] = "type_beat" THEN Tail(todo[w]) ELSE todo[w]

\* Of the types asked for, a thread has those left that it has not done itself or found
\* done.
CoverOf(w) ==
    /\ pc[w] \in Working =>
         \A t \in RequestedTypes :
             Member(t, Owed(w)) \/ (Whole(t) /\ Counted(stats[w], t))
    /\ pc[w] \in Finishing \cup { "save_stats" } => todo[w] = << >>
    /\ pc[w] \in Finishing => \A t \in RequestedTypes : Counted(counts, t)

\* The invariant of a completed scan: the threads on their way to COMPLETED are covered,
\* and so is the row that is COMPLETED.
CoverInv ==
    /\ \A w \in Workers : CoverOf(w)
    /\ status = "COMPLETED" =>
         \A t \in RequestedTypes : Whole(t) /\ Counted(counts, t)

\* Everything the cover rests on.
DataInv == TypeInv /\ PagesInv /\ CkptInv /\ EndsInv

\* What is asked for are types.
LEMMA RequestedOK == ScanTypeOK => RequestedTypes \subseteq ObjectTypes
<1> SUFFICES ASSUME ScanTypeOK PROVE RequestedTypes \subseteq ObjectTypes
  OBVIOUS
<1>1. ResumeTypes \in Seq(ObjectTypes)
  BY ResumeTypesOK
<1> QED
  BY <1>1 DEF RequestedTypes

\* Nothing is asked for once the job is gone.
LEMMA GoneLemma == TypeInv /\ EndsInv /\ [Next]_vars /\ status' = "GONE" => RequestedTypes' = {}
<1> SUFFICES ASSUME TypeInv, EndsInv, [Next]_vars, status' = "GONE" PROVE RequestedTypes' = {}
  OBVIOUS
<1>1. objectTypes' = << >>
  BY EndsStep DEF EndsInv
<1>2. ResumeTypes' = << >>
  BY <1>1 DEF ResumeTypes
<1> QED
  BY <1>2 DEF RequestedTypes

\* What is asked for changes at the start of the scan and at its end only.
LEMMA RequestedSteps ==
    ASSUME DataInv, [Next]_vars
    PROVE  \/ status = "NEVER"
           \/ RequestedTypes' = {}
           \/ RequestedTypes' = RequestedTypes
<1>1. CASE objectTypes' = objectTypes
  BY <1>1 DEF RequestedTypes, ResumeTypes
<1>2. CASE status' = "GONE"
  BY <1>2, GoneLemma DEF DataInv
<1> QED
  BY <1>1, <1>2, SteppingThreads, OthersFollow DEF DataInv, OtherSteps

\* A type that is whole stays whole, for as long as anybody asks for it.
LEMMA WholeStays ==
    ASSUME DataInv, [Next]_vars, NEW t \in ObjectTypes, Whole(t), RequestedTypes' # {}
    PROVE  Whole(t)'
<1>t. raw \in [ObjectTypes -> SUBSET (1..Pages)] /\ fetched' \subseteq ObjectTypes \X (1..Pages)
  BY StepTypes DEF DataInv, TypeInv, ScanTypeOK
<1>1. Fetched(t)' = 1..Pages
  BY FetchedGrows DEF Whole, Fetched, DataInv
<1>2. Pages \in raw'[t]
  <2>1. ASSUME NEW w \in Workers, WorkerStep(w) PROVE Pages \in raw'[t]
    <3>1. CASE raw' = raw
      BY <3>1 DEF Whole
    <3>2. CASE SaveRaw(w)
      <4>1. raw' = [raw EXCEPT ![Type(w)] = pages[w]] /\ pc[w] \in Saved
        BY <3>2 DEF SaveRaw, Saved
      <4>2. Pages \in pages[w]
        BY <4>1 DEF DataInv, PagesInv, PagesOf, LastFetched
      <4> QED
        BY <1>t, <4>1, <4>2 DEF Whole
    <3> QED
      BY <2>1, <3>1, <3>2, ThreadSteps
      DEF DataInv, DataStep, Moves, LoadCheckpoint, FetchPage, CheckpointRead,
          CheckpointCommit, BeatAfterPage, BeatAfterType, UpdateHeartbeat, SaveStats,
          CompleteStats, Unregister, store
  <2>2. CASE ~ \E w \in Workers : WorkerStep(w)
    <3>1. OtherSteps
      BY <2>2, OthersFollow DEF DataInv
    <3>2. ASSUME NEW h \in Handlers, hpc[h] = "rmtree" PROVE FALSE
      <4>1. status' = "GONE"
        BY <3>2, FollowsRowSteps DEF DataInv, EndsInv, RowSteps
      <4> QED
        BY <4>1, GoneLemma DEF DataInv
    <3> QED
      BY <3>1, <3>2 DEF OtherSteps, Whole
  <2> QED
    BY <2>1, <2>2
<1> QED
  BY <1>1, <1>2 DEF Whole

\* A count stays in the row, for as long as its type is asked for: a thread that writes
\* other counts has a count for every type itself.
LEMMA CountsStay ==
    ASSUME DataInv, CoverInv, [Next]_vars, RequestedTypes' = RequestedTypes,
           NEW t \in RequestedTypes, Counted(counts, t)
    PROVE  Counted(counts, t)'
<1>1. ASSUME NEW w \in Workers, WorkerStep(w) PROVE Counted(counts, t)'
  <2>1. CASE counts' = counts
    BY <2>1 DEF Counted
  <2>2. CASE counts' = stats[w] /\ pc[w] \in Finishing \cup { "save_stats" }
    <3>1. Owed(w) = << >> /\ CoverOf(w)
      BY <2>2 DEF CoverInv, CoverOf, Owed, Finishing
    <3>2. ~Member(t, Owed(w))
      BY <3>1 DEF Member
    <3>3. Counted(stats[w], t)
      BY <2>2, <3>1, <3>2 DEF CoverOf, Working
    <3> QED
      BY <2>2, <3>3 DEF Counted
  <2> QED
    BY <1>1, <2>1, <2>2, ThreadSteps
    DEF DataInv, DataStep, Moves, LoadCheckpoint, FetchPage, CheckpointRead,
        CheckpointCommit, BeatAfterPage, BeatAfterType, UpdateHeartbeat, SaveRaw, SaveStats,
        CompleteStats, Unregister, store, row, Finishing
<1>2. CASE ~ \E w \in Workers : WorkerStep(w)
  <2>1. counts' = counts \/ status' = "GONE"
    BY <1>2, OthersFollow DEF DataInv, OtherSteps
  <2>2. status' # "GONE"
    BY GoneLemma DEF DataInv
  <2> QED
    BY <2>1, <2>2 DEF Counted
<1> QED
  BY <1>1, <1>2

\* The head of a sequence and its tail are all there is in it.
LEMMA HeadOrTail ==
    ASSUME NEW S, NEW s \in Seq(S), s # << >>, NEW t, Member(t, s)
    PROVE  t = Head(s) \/ Member(t, Tail(s))
<1>1. PICK i \in DOMAIN s : s[i] = t
  BY DEF Member
<1>2. CASE i = 1
  BY <1>1, <1>2
<1>3. CASE i # 1
  <2>1. i - 1 \in DOMAIN Tail(s) /\ Tail(s)[i - 1] = t
    BY <1>1, <1>3
  <2> QED
    BY <2>1 DEF Member
<1> QED
  BY <1>2, <1>3

\* A thread keeps its cover while others move.
LEMMA CoverOfBystander ==
    ASSUME DataInv, CoverInv, [Next]_vars, NEW v \in Workers, ~WorkerStep(v)
    PROVE  CoverOf(v)'
<1>b. Bystander(v) /\ CoverOf(v)
  BY Bystanders DEF DataInv, CoverInv
<1>1. CASE pc'[v] \notin Working
  BY <1>1 DEF CoverOf, Working
<1>2. CASE pc'[v] = "run" /\ todo'[v] \in { objectTypes', ResumeTypes' }
  <2>1. ASSUME NEW t \in RequestedTypes' PROVE Member(t, todo'[v])
    <3>1. PICK i \in DOMAIN ResumeTypes' : t = ResumeTypes'[i]
      BY <2>1 DEF RequestedTypes
    <3>2. ResumeTypes' # << >>
      BY <3>1
    <3>3. todo'[v] = ResumeTypes'
      BY <1>2, <3>2 DEF ResumeTypes
    <3> QED
      BY <3>1, <3>3 DEF Member
  <2> QED
    BY <1>2, <2>1 DEF CoverOf, Owed, Finishing
<1>3. CASE /\ pc'[v] \in Working
           /\ UNCHANGED << pc[v], todo[v], stats[v] >>
  <2>1. status # "NEVER"
    BY <1>3 DEF DataInv, EndsInv, Working, Starting, Fetching, Saving, Saved, Finishing
  <2>2. RequestedTypes' \subseteq RequestedTypes /\ RequestedTypes \subseteq ObjectTypes
    BY <2>1, RequestedSteps, RequestedOK DEF DataInv, TypeInv
  <2>3. ASSUME NEW t \in RequestedTypes' PROVE Whole(t) => Whole(t)'
    BY <2>2, <2>3, WholeStays
  <2>4. ASSUME NEW t \in RequestedTypes' PROVE Counted(counts, t) => Counted(counts, t)'
    BY <2>1, <2>2, <2>4, RequestedSteps, CountsStay
  <2>5. Owed(v)' = Owed(v) /\ \A t : Counted(stats[v], t) => Counted(stats[v], t)'
    BY <1>3 DEF Owed, Counted
  <2> QED
    BY <1>b, <1>3, <2>2, <2>3, <2>4, <2>5 DEF CoverOf
<1> QED
  BY <1>b, <1>1, <1>2, <1>3 DEF Bystander, Working, Starting, Fetching, Saving, Saved, Finishing

\* A thread keeps its cover through its own steps.
LEMMA CoverOfThread ==
    ASSUME DataInv, CoverInv, [Next]_vars, NEW w \in Workers, WorkerStep(w)
    PROVE  CoverOf(w)'
<1>t. /\ pc \in [Workers -> Labels] /\ DOMAIN stats = Workers
      /\ todo \in [Workers -> Seq(ObjectTypes) \cup {Omitted}]
  BY DEF DataInv, TypeInv, ScanTypeOK
<1>c. CoverOf(w)
  BY DEF CoverInv
<1>r. RequestedTypes' = RequestedTypes /\ RequestedTypes \subseteq ObjectTypes
  BY SteppingThreads, RequestedOK DEF RequestedTypes, ResumeTypes, DataInv, TypeInv
<1>w. ASSUME NEW t \in RequestedTypes PROVE Whole(t) => Whole(t)'
  BY <1>r, <1>w, WholeStays
<1>k. ASSUME NEW t \in RequestedTypes PROVE Counted(counts, t) => Counted(counts, t)'
  BY <1>r, <1>k, CountsStay
<1> USE DEF Starting, Fetching, Saving, Saved, Finishing, Goto
<1>1. CASE Moves(w)
  <2>1. UNCHANGED << todo, stats >>
    BY <1>1 DEF Moves, locals
  <2>2. CASE pc'[w] \in { "failing", "fail_commit", "returned" }
    BY <2>2 DEF CoverOf, Working
  <2>3. CASE pc'[w] \notin { "failing", "fail_commit", "returned" }
    <3>1. /\ pc[w] \in Working /\ pc[w] # "type_beat" /\ pc'[w] # "type_beat"
          /\ pc'[w] = "save_stats" => todo[w] = << >>
          /\ pc'[w] \in Finishing => pc[w] \in Finishing
      BY <1>1, <2>3 DEF Moves, Working
    <3>2. Owed(w)' = Owed(w) /\ \A t : Counted(stats[w], t) => Counted(stats[w], t)'
      BY <2>1, <3>1 DEF Owed, Counted
    <3> QED
      BY <1>c, <1>r, <1>w, <1>k, <2>1, <3>1, <3>2 DEF CoverOf
  <2> QED
    BY <2>2, <2>3
<1>2. CASE \/ LoadCheckpoint(w) \/ FetchPage(w) \/ CheckpointRead(w) \/ CheckpointCommit(w)
           \/ BeatAfterPage(w)
  <2>1. /\ UNCHANGED << todo, stats >>
        /\ pc[w] \in Working /\ pc[w] # "type_beat"
        /\ pc'[w] \in { "failing", "returned", "check", "ckpt_read", "ckpt_commit", "beat",
                        "save_raw" }
    BY <1>2, <1>t
    DEF LoadCheckpoint, FetchPage, CheckpointRead, CheckpointCommit, BeatAfterPage, locals,
        Working
  <2>2. Owed(w)' = Owed(w) /\ \A t : Counted(stats[w], t) => Counted(stats[w], t)'
    BY <2>1 DEF Owed, Counted
  <2> QED
    BY <1>c, <1>r, <1>w, <2>1, <2>2 DEF CoverOf
<1>3. CASE SaveRaw(w)
  <2>1. /\ pc[w] = "save_raw" /\ pc'[w] = "type_beat" /\ todo' = todo /\ fetched' = fetched
        /\ raw' = [raw EXCEPT ![Type(w)] = pages[w]]
        /\ stats'[w] = [t \in DOMAIN stats[w] \cup {Type(w)} |->
                          IF t = Type(w) THEN records[w] ELSE stats[w][t]]
    BY <1>3, <1>t DEF SaveRaw, history
  <2>2. todo[w] \in Seq(ObjectTypes) /\ todo[w] # << >> /\ Type(w) \in ObjectTypes
    BY <2>1, HeadLemma, <1>t DEF DataInv, TypeInv, Placed, InType
  <2>3. ASSUME NEW t, t = Type(w) PROVE Whole(t)'
    <3>1. Valid(Type(w), cursor[w], records[w]) /\ records[w] > 0 /\ cursor[w] = 0
      BY <2>1 DEF DataInv, CkptInv, CursorOf, PagesInv, PagesOf
    <3>2. Fetched(Type(w)) = 1..Pages
      BY <3>1 DEF Valid
    <3>3. Pages \in pages[w]
      BY <2>1, <3>1 DEF DataInv, PagesInv, PagesOf, LastFetched
    <3>4. raw \in [ObjectTypes -> SUBSET (1..Pages)]
      BY DEF DataInv, TypeInv, ScanTypeOK
    <3>5. raw'[Type(w)] = pages[w]
      BY <2>1, <2>2, <3>4
    <3> QED
      BY <2>1, <2>3, <3>2, <3>3, <3>5 DEF Whole, Fetched
  <2>4. records[w] > 0
    BY <2>1 DEF DataInv, CkptInv, CursorOf
  <2>5. \A t : t = Type(w) \/ Counted(stats[w], t) => Counted(stats'[w], t)
    BY <2>1, <2>4 DEF Counted
  <2>6. ASSUME NEW t \in RequestedTypes
        PROVE  Member(t, Tail(todo[w])) \/ (Whole(t)' /\ Counted(stats'[w], t))
    <3>1. CASE Member(t, todo[w])
      <4>1. t = Type(w) \/ Member(t, Tail(todo[w]))
        BY <2>2, <3>1, HeadOrTail DEF Type
      <4> QED
        BY <2>3, <2>5, <4>1
    <3>2. CASE ~Member(t, todo[w])
      <4>1. Whole(t) /\ Counted(stats[w], t)
        BY <1>c, <2>1, <2>6, <3>2 DEF CoverOf, Owed, Working
      <4> QED
        BY <1>w, <2>5, <2>6, <4>1
    <3> QED
      BY <3>1, <3>2
  <2> QED
    BY <1>r, <2>1, <2>6 DEF CoverOf, Owed
<1>4. CASE BeatAfterType(w)
  <2>1. /\ pc[w] = "type_beat" /\ pc'[w] \in { "next_type", "failing" }
        /\ todo'[w] = Tail(todo[w]) /\ stats' = stats
    BY <1>4, <1>t DEF BeatAfterType
  <2>2. /\ pc'[w] = "next_type" => Owed(w)' = Owed(w)
        /\ \A t : Counted(stats[w], t) => Counted(stats[w], t)'
    BY <2>1 DEF Owed, Counted
  <2> QED
    BY <1>c, <1>r, <1>w, <2>1, <2>2 DEF CoverOf, Working
<1>5. CASE SaveStats(w)
  <2>1. /\ pc[w] = "save_stats" /\ UNCHANGED << todo, stats >>
        /\ pc'[w] = "failing" \/ (pc'[w] = "normalize" /\ counts' = stats[w])
    BY <1>5, <1>t DEF SaveStats, locals
  <2>2. todo[w] = << >> /\ Owed(w) = << >> /\ (pc'[w] = "normalize" => Owed(w)' = << >>)
    BY <1>c, <2>1 DEF CoverOf, Owed
  <2>3. ASSUME NEW t \in RequestedTypes PROVE Whole(t) /\ Counted(stats[w], t)
    BY <1>c, <2>1, <2>2, <2>3 DEF CoverOf, Working, Member
  <2>4. \A t : Counted(stats[w], t) => Counted(stats[w], t)' /\ (pc'[w] = "normalize" => Counted(counts, t)')
    BY <2>1 DEF Counted
  <2> QED
    BY <1>r, <1>w, <2>1, <2>2, <2>3, <2>4 DEF CoverOf, Working
<1>6. CASE CompleteStats(w) \/ Unregister(w)
  BY <1>6, <1>t DEF CompleteStats, Unregister, CoverOf, Working
<1> QED
  BY <1>1, <1>2, <1>3, <1>4, <1>5, <1>6, ThreadSteps DEF DataInv, DataStep

\* Every step keeps CoverInv.
LEMMA CoverStep == DataInv /\ CoverInv /\ [Next]_vars => CoverInv'
<1> SUFFICES ASSUME DataInv, CoverInv, [Next]_vars PROVE CoverInv'
  OBVIOUS
<1>1. ASSUME NEW v \in Workers PROVE CoverOf(v)'
  BY CoverOfThread, CoverOfBystander
<1>2. ASSUME status' = "COMPLETED", NEW t \in RequestedTypes'
      PROVE  Whole(t)' /\ Counted(counts, t)'
  <2>1. CASE status = "COMPLETED"
    <3>1. RequestedTypes' = RequestedTypes /\ t \in ObjectTypes
      BY <1>2, <2>1, RequestedSteps, RequestedOK DEF DataInv, TypeInv
    <3>2. Whole(t) /\ Counted(counts, t)
      BY <1>2, <2>1, <3>1 DEF CoverInv
    <3> QED
      BY <1>2, <3>1, <3>2, WholeStays, CountsStay
  <2>2. ASSUME NEW w \in Workers, WorkerStep(w), pc[w] = "complete_commit"
        PROVE  Whole(t)' /\ Counted(counts, t)'
    <3>1. RequestedTypes' = RequestedTypes /\ t \in ObjectTypes
      BY <1>2, <2>2, SteppingThreads, RequestedOK
      DEF RequestedTypes, ResumeTypes, DataInv, TypeInv
    <3>2. Owed(w) = << >> /\ CoverOf(w)
      BY <2>2 DEF CoverInv, CoverOf, Owed, Finishing
    <3>3. Whole(t) /\ Counted(counts, t)
      BY <1>2, <2>2, <3>1, <3>2 DEF CoverOf, Member, Working, Finishing
    <3> QED
      BY <1>2, <3>1, <3>3, WholeStays, CountsStay
  <2>3. ASSUME NEW w \in Workers, WorkerStep(w), status # "COMPLETED"
        PROVE  pc[w] = "complete_commit"
    BY <1>2, <2>3, ThreadSteps
    DEF DataInv, DataStep, Moves, LoadCheckpoint, FetchPage, CheckpointRead,
        CheckpointCommit, BeatAfterPage, BeatAfterType, UpdateHeartbeat, SaveRaw, SaveStats,
        CompleteStats, Unregister, store, row
  <2> QED
    BY <1>2, <2>1, <2>2, <2>3, OthersFollow DEF DataInv, OtherSteps
<1> QED
  BY <1>1, <1>2 DEF CoverInv

\* A COMPLETED scan has fetched, filed and counted every type it was asked for.
THEOREM CompletedScansCover == Spec => []CompletedCovers
<1>1. Init => CoverInv
  BY DEF Init, CoverInv, CoverOf, Working, Starting, Fetching, Saving, Saved, Finishing
<1>2. CoverInv => CompletedCovers
  BY DEF CoverInv, CompletedCovers, Whole, Counted
<1> QED
  BY <1>1, <1>2, CoverStep, TypeInvariance, PagesInvariance, CkptInvariance, EndsInvariance, PTL
  DEF Spec, DataInv
===============================================================================
