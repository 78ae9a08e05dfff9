----------------------------- MODULE Normalization -----------------------------
(***************************************************************************)
(* The normalize endpoint, app/services/normalization_service.py with      *)
(* app/clients/minio_client.py, beside the handlers and the threads of     *)
(* Extraction: they write the same job row, and a request reads the raw    *)
(* files that the threads write and a removal deletes.                     *)
(*                                                                         *)
(* The endpoint runs in a thread of the server's pool with a session of    *)
(* its own, so every read of the row, every commit and every file or       *)
(* object written is a step of its own.                                    *)
(*                                                                         *)
(* A table is what the normalizer of its object type makes of the raw      *)
(* file; its contents are named by the pages the rows come from.           *)
(***************************************************************************)
EXTENDS Extraction

CONSTANTS
    NormRequests,    \* normalize requests in flight at once
    NormOptions,     \* what they may ask for, among save_to_disk and upload_to_minio
    Tables,          \* names of tables
    TablesOf,        \* NORMALIZER_REGISTRY: the tables each object type gives
    MaxAsked,        \* bound of the normalize requests in all
    Expired          \* the session holds no loaded copy of the job row

ASSUME OptionsAssumption == NormOptions \subseteq SUBSET { "save", "upload" }
ASSUME TablesAssumption == TablesOf \in [ObjectTypes -> (SUBSET Tables) \ {{}}]
ASSUME TablesAreOwn == \A o, p \in ObjectTypes : o # p => TablesOf[o] \cap TablesOf[p] = {}
ASSUME AskedAssumption == MaxAsked \in Nat
ASSUME ExpiredAssumption == Expired \notin JobStatus

VARIABLES
    normalizedAt,    \* jobs.normalized_at is set
    uploadedAt,      \* jobs.minio_uploaded_at is set
    normDir,         \* whether <data_dir>/normalized exists
    disk,            \* the normalized files: the pages in each table, {} for no file
    bucket,          \* the objects in MinIO: likewise
    npc, local,      \* where each request is, and its local variables
    asked,           \* how many there were
    stranded         \* history: a request left the job in a NORMALIZING of its own

outcome == << normDir, disk, bucket, npc, local, asked, stranded >>
nvars == << vars, normalizedAt, uploadedAt, outcome >>

-------------------------------------------------------------------------------
NoTables == [t \in Tables |-> {}]

\* The locals of normalize_scan: the options, the job row as loaded, the types still
\* to do, all_tables, the tables of the present type still to be saved, those still
\* to be uploaded, whether an upload failed, whether it moved the job to NORMALIZING,
\* whether its session is of no use any more, and the answer's uploaded_to_minio.
NoLocals ==
    [save |-> FALSE, upload |-> FALSE, seen |-> Expired, left |-> << >>,
     all |-> [t \in {} |-> {}], unsaved |-> {}, unsent |-> {}, ok |-> TRUE, moved |-> FALSE,
     broken |-> FALSE, uploaded |-> FALSE]

NInit ==
    /\ Init
    /\ normalizedAt = FALSE
    /\ uploadedAt = FALSE
    /\ normDir = FALSE
    /\ disk = NoTables
    /\ bucket = NoTables
    /\ npc = [r \in NormRequests |-> "idle"]
    /\ local = [r \in NormRequests |-> NoLocals]
    /\ asked = 0
    /\ stranded = FALSE

NGoto(r, label) == npc' = [npc EXCEPT ![r] = label]

AtWork(r) == npc[r] \notin { "idle", "answered" }

\* A request that will not try to upload.
NothingToUpload(l) == ~l.upload \/ DOMAIN l.all = {}

\* What a request leaves behind that has moved the job to NORMALIZING: it may stay so.
Strand(l, failed) ==
    stranded' = (stranded \/ (l.moved /\ status = "NORMALIZING" /\ (failed \/ NothingToUpload(l))))

\* A 404 or a 500.
Fail(r) ==
    /\ NGoto(r, "idle")
    /\ local' = [local EXCEPT ![r] = NoLocals]
    /\ Strand(local[r], TRUE)

\* "completed".  What is remembered is uploaded_to_minio and the tables it speaks of.
AnswerWith(r, uploaded) ==
    /\ NGoto(r, "answered")
    /\ local' = [local EXCEPT ![r] =
         [NoLocals EXCEPT !.save = local[r].save, !.all = local[r].all, !.uploaded = uploaded]]
    /\ Strand(local[r], FALSE)

Answer(r) == AnswerWith(r, local[r].uploaded)

\* What a request leaves alone unless it says otherwise.
KeepScan == UNCHANGED << objectTypes, heartbeat, ckpt, raw, hpc, thread, registry, faults,
                         history, asked >>

KeepStamps == UNCHANGED << normalizedAt, uploadedAt >>

KeepStores == UNCHANGED << dataDir, normDir, disk, bucket >>

-------------------------------------------------------------------------------
\* The beginning of normalize_scan

NormRequest(r, options) ==
    /\ ~AtWork(r)
    /\ status # "NEVER"
    /\ asked < MaxAsked
    /\ asked' = asked + 1
    /\ NGoto(r, "read")
    /\ local' = [local EXCEPT ![r] = [NoLocals EXCEPT !.save = "save" \in options,
                                                  !.upload = "upload" \in options]]
    /\ KeepStamps /\ KeepStores
    /\ UNCHANGED << store, hpc, thread, registry, faults, history, stranded >>

\* get_job.  The row as loaded here decides, however much later, on NORMALIZING.
ReadJob(r) ==
    /\ npc[r] = "read"
    /\ IF RowExists
         THEN /\ local' = [local EXCEPT ![r].seen = status, ![r].left = ResumeTypes]
              /\ NGoto(r, "mkdir")
              /\ UNCHANGED stranded
         ELSE Fail(r)
    /\ KeepScan /\ KeepStamps /\ KeepStores
    /\ UNCHANGED << status, counts >>

\* Bug: the status is written without a look at the one before it.
MoveUnchecked(r) ==
    /\ npc[r] = "mkdir"
    /\ dataDir' = (dataDir \/ local[r].save)
    /\ normDir' = (normDir \/ local[r].save)
    /\ NGoto(r, "nz_commit")
    /\ local' = [local EXCEPT ![r].seen = Expired]
    /\ KeepScan /\ KeepStamps
    /\ UNCHANGED << status, counts, disk, bucket, stranded >>

\* os.makedirs, and the checks of update_job_status, whose refusal is ignored.  The row as
\* loaded has then done its duty: the next look at the status comes after a commit.
MakeDirs(r) ==
    /\ npc[r] = "mkdir"
    /\ dataDir' = (dataDir \/ local[r].save)
    /\ normDir' = (normDir \/ local[r].save)
    /\ NGoto(r, IF CanMove(local[r].seen, "NORMALIZING") THEN "nz_commit" ELSE "load")
    /\ local' = [local EXCEPT ![r].seen = Expired]
    /\ KeepScan /\ KeepStamps
    /\ UNCHANGED << status, counts, disk, bucket, stranded >>

\* os.makedirs raises: a removal is deleting the directories, or the disk is full.
MakeDirsFails(r) ==
    /\ npc[r] = "mkdir"
    /\ local[r].save
    /\ Fail(r)
    /\ KeepScan /\ KeepStamps /\ KeepStores
    /\ UNCHANGED << status, counts >>

\* A flush that finds no row leaves a session that raises at the next use.
NormalizingCommit(r) ==
    /\ npc[r] = "nz_commit"
    /\ IF RowExists
         THEN /\ status' = "NORMALIZING"
              /\ local' = [local EXCEPT ![r].moved = TRUE]
              /\ NGoto(r, "load")
              /\ UNCHANGED stranded
         ELSE Fail(r) /\ UNCHANGED status
    /\ KeepScan /\ KeepStamps /\ KeepStores
    /\ UNCHANGED counts

-------------------------------------------------------------------------------
\* for obj_type in object_types

Obj(r) == Head(local[r].left)

SkipType(r) ==
    /\ npc[r] = "load"
    /\ local[r].left # << >>
    /\ raw[Obj(r)] = {}
    /\ local' = [local EXCEPT ![r].left = Tail(@)]
    /\ KeepScan /\ KeepStamps /\ KeepStores
    /\ UNCHANGED << status, counts, npc, stranded >>

\* Bug: each table is made of the file as it is when the table is saved.
TableAnew(r, t) == raw[CHOOSE o \in ObjectTypes : t \in TablesOf[o]]

\* The table as it was made when the file was read.
Table(r, t) == local[r].all[t]

\* The raw file is read once for all the tables of its type.
NormalizeType(r) ==
    /\ npc[r] = "load"
    /\ local[r].left # << >>
    /\ raw[Obj(r)] # {}
    /\ LET new == TablesOf[Obj(r)] IN
         local' = [local EXCEPT
             ![r].left = Tail(@),
             ![r].all = [t \in DOMAIN @ \cup new |-> IF t \in new THEN raw[Obj(r)] ELSE @[t]],
             ![r].unsaved = IF local[r].save THEN new ELSE {}]
    /\ KeepScan /\ KeepStamps /\ KeepStores
    /\ NGoto(r, IF local[r].save THEN "save" ELSE "load")
    /\ UNCHANGED << status, counts, stranded >>

\* The normalizer raises (NormalizeRaises of Normalizers), or the file is being written
\* or deleted while it is read: json.load or open raises.
NormalizeTypeFails(r) ==
    /\ npc[r] = "load"
    /\ local[r].left # << >>
    /\ \/ raw[Obj(r)] # {}
       \/ \E w \in Workers : pc[w] = "save_raw" /\ Type(w) = Obj(r)
       \/ \E h \in Handlers : hpc[h] = "rmtree"
    /\ Fail(r)
    /\ KeepScan /\ KeepStamps /\ KeepStores
    /\ UNCHANGED << status, counts >>

\* Bug: the tables are saved outside the scan's own directory.
SaveElsewhere(r, t) ==
    /\ npc[r] = "save"
    /\ t \in local[r].unsaved
    /\ disk' = [disk EXCEPT ![t] = Table(r, t)]
    /\ local' = [local EXCEPT ![r].unsaved = @ \ {t}]
    /\ NGoto(r, IF local[r].unsaved = {t} THEN "load" ELSE "save")
    /\ KeepScan /\ KeepStamps
    /\ UNCHANGED << status, counts, dataDir, normDir, bucket, stranded >>

\* _save_table, which may raise over any table: the directory has been removed since
\* MakeDirs, the disk is full, the rows do not make a Parquet table.
SaveTable(r, t) ==
    /\ npc[r] = "save"
    /\ t \in local[r].unsaved
    /\ \/ /\ normDir
          /\ disk' = [disk EXCEPT ![t] = Table(r, t)]
          /\ local' = [local EXCEPT ![r].unsaved = @ \ {t}]
          /\ NGoto(r, IF local[r].unsaved = {t} THEN "load" ELSE "save")
          /\ UNCHANGED stranded
       \/ Fail(r) /\ UNCHANGED disk
    /\ KeepScan /\ KeepStamps
    /\ UNCHANGED << status, counts, dataDir, normDir, bucket >>

\* job.normalized_at and COMMIT.
NormalizedCommit(r) ==
    /\ npc[r] = "load"
    /\ local[r].left = << >>
    /\ IF RowExists /\ ~local[r].broken
         THEN /\ normalizedAt' = TRUE
              /\ NGoto(r, IF NothingToUpload(local[r]) THEN "cp_read" ELSE "up_read")
              /\ UNCHANGED << local, stranded >>
         ELSE Fail(r) /\ UNCHANGED normalizedAt
    /\ KeepScan /\ KeepStores
    /\ UNCHANGED << status, counts, uploadedAt >>

-------------------------------------------------------------------------------
\* The upload, all of whose exceptions are caught.

UploadingRead(r) ==
    /\ npc[r] = "up_read"
    /\ local' = [local EXCEPT ![r].seen = IF RowExists THEN status ELSE Expired]
    /\ NGoto(r, IF RowExists /\ CanMove(status, "UPLOADING") THEN "up_commit" ELSE "cp_read")
    /\ KeepScan /\ KeepStamps /\ KeepStores
    /\ UNCHANGED << status, counts, stranded >>

UploadingCommit(r) ==
    /\ npc[r] = "up_commit"
    /\ IF RowExists
         THEN /\ status' = "UPLOADING"
              /\ local' = [local EXCEPT ![r].seen = "UPLOADING",
                                        ![r].unsent = DOMAIN local[r].all]
              /\ NGoto(r, "put")
              /\ UNCHANGED stranded
         ELSE Answer(r) /\ UNCHANGED status
    /\ KeepScan /\ KeepStamps /\ KeepStores
    /\ UNCHANGED counts

\* The tables are serialized, and the client made, before the first object is put.
UploadRaises(r) ==
    /\ npc[r] = "put"
    /\ local[r].unsent = DOMAIN local[r].all
    /\ local' = [local EXCEPT ![r].unsent = {}]
    /\ NGoto(r, "cp_read")
    /\ KeepScan /\ KeepStamps /\ KeepStores
    /\ UNCHANGED << status, counts, stranded >>

\* Bug: any(results.values()), from a result that starts out FALSE.
AnyStored(r, stored) ==
    (local[r].ok /\ local[r].unsent # DOMAIN local[r].all) \/ stored

\* all(results.values())
AllStored(r, stored) == local[r].ok /\ stored

\* upload_bytes: put_object, whose errors become FALSE.
Put(r, t, stored) ==
    /\ npc[r] = "put"
    /\ t \in local[r].unsent
    /\ bucket' = IF stored THEN [bucket EXCEPT ![t] = local[r].all[t]] ELSE bucket
    /\ local' = [local EXCEPT ![r].unsent = @ \ {t}, ![r].ok = AllStored(r, stored)]
    /\ KeepScan /\ KeepStamps
    /\ UNCHANGED << status, counts, dataDir, normDir, disk, npc, stranded >>

\* job.minio_uploaded_at, whatever the results were, and COMMIT.
UploadedCommit(r) ==
    /\ npc[r] = "put"
    /\ local[r].unsent = {}
    /\ IF RowExists
         THEN /\ uploadedAt' = TRUE
              /\ local' = [local EXCEPT ![r].uploaded = local[r].ok, ![r].seen = Expired]
              /\ NGoto(r, "cp_read")
              /\ UNCHANGED stranded
         ELSE AnswerWith(r, local[r].ok) /\ UNCHANGED uploadedAt
    /\ KeepScan /\ KeepStores
    /\ UNCHANGED << status, counts, normalizedAt >>

-------------------------------------------------------------------------------
\* complete_job, whose exceptions are caught, and the answer.

\* The row as loaded, unless a commit has expired it.
Loaded(r) == IF local[r].seen = Expired THEN status ELSE local[r].seen

\* Bug: after a failed upload the job is left as it is.
CompleteIfUploaded(r) ==
    /\ npc[r] = "cp_read"
    /\ IF RowExists /\ CanMove(Loaded(r), "COMPLETED") /\ (local[r].uploaded \/ ~local[r].upload)
         THEN NGoto(r, "cp_commit") /\ UNCHANGED << local, stranded >>
         ELSE Answer(r)
    /\ KeepScan /\ KeepStamps /\ KeepStores
    /\ UNCHANGED << status, counts >>

CompleteRead(r) ==
    /\ npc[r] = "cp_read"
    /\ IF RowExists /\ CanMove(Loaded(r), "COMPLETED")
         THEN NGoto(r, "cp_commit") /\ UNCHANGED << local, stranded >>
         ELSE Answer(r)
    /\ KeepScan /\ KeepStamps /\ KeepStores
    /\ UNCHANGED << status, counts >>

CompleteCommit(r) ==
    /\ npc[r] = "cp_commit"
    /\ IF RowExists
         THEN /\ status' = "COMPLETED"
              /\ NGoto(r, "cp_counts")
              /\ UNCHANGED << local, stranded >>
         ELSE Answer(r) /\ UNCHANGED status
    /\ KeepScan /\ KeepStamps /\ KeepStores
    /\ UNCHANGED counts

\* entity_record_counts = record_counts, by table and no longer by type.
CompleteCounts(r) ==
    /\ npc[r] = "cp_counts"
    /\ counts' = IF RowExists /\ DOMAIN local[r].all # {}
                   THEN [t \in DOMAIN local[r].all |-> Cardinality(local[r].all[t])]
                   ELSE counts
    /\ Answer(r)
    /\ KeepScan /\ KeepStamps /\ KeepStores
    /\ UNCHANGED status

-------------------------------------------------------------------------------
\* A database call of a request fails, and its session is of no use from then on.  At
\* "mkdir" that is swallowed; later, until normalized_at is committed, the endpoint answers
\* 500, and afterwards "completed".  At "load" it is the row that is read back after
\* NORMALIZING, or the COMMIT of normalized_at.
RequestDbError(r) ==
    /\ Fault
    /\ \/ /\ npc[r] \in { "read", "nz_commit", "load" }
          /\ npc[r] = "load" => local[r].moved \/ local[r].left = << >>
          /\ Fail(r)
          /\ KeepStores
       \/ /\ npc[r] \in { "up_read", "up_commit", "cp_read", "cp_commit", "cp_counts" }
          /\ Answer(r)
          /\ KeepStores
       \/ /\ npc[r] = "put" /\ local[r].unsent = {}
          /\ AnswerWith(r, local[r].ok)
          /\ KeepStores
       \/ /\ npc[r] = "mkdir"
          /\ dataDir' = (dataDir \/ local[r].save)
          /\ normDir' = (normDir \/ local[r].save)
          /\ local' = [local EXCEPT ![r].seen = Expired, ![r].broken = TRUE]
          /\ NGoto(r, "load")
          /\ UNCHANGED << disk, bucket, stranded >>
    /\ KeepStamps
    /\ UNCHANGED << row, ckpt, raw, hpc, thread, registry, history, asked >>

RequestStep(r) ==
    \/ \E options \in NormOptions : NormRequest(r, options)
    \/ ReadJob(r)
    \/ MakeDirs(r)
    \/ MakeDirsFails(r)
    \/ NormalizingCommit(r)
    \/ SkipType(r)
    \/ NormalizeType(r)
    \/ NormalizeTypeFails(r)
    \/ \E t \in Tables : SaveTable(r, t)
    \/ NormalizedCommit(r)
    \/ UploadingRead(r)
    \/ UploadingCommit(r)
    \/ UploadRaises(r)
    \/ \E t \in Tables, stored \in BOOLEAN : Put(r, t, stored)
    \/ UploadedCommit(r)
    \/ CompleteRead(r)
    \/ CompleteCommit(r)
    \/ CompleteCounts(r)
    \/ RequestDbError(r)

\* What a step of the scan does to the stamps, which go with the row, and to the
\* normalized files, which lie in a directory of the scan's data directory.  A thread
\* stamps the row as it moves it on: that it does so in a COMMIT of its own is left out.
FollowScan ==
    LET moved(from, to) == \E w \in Workers : pc[w] = from /\ pc'[w] = to IN
    /\ normalizedAt' = ((normalizedAt \/ moved("normalize_commit", "upload")) /\ status' # "GONE")
    /\ uploadedAt' = ((uploadedAt \/ moved("upload_commit", "complete")) /\ status' # "GONE")
    /\ normDir => dataDir'
    /\ UNCHANGED << normDir, disk >>

\* shutil.rmtree in the normalized directory
UnlinkTable(h, t) ==
    /\ hpc[h] = "rmtree"
    /\ disk[t] # {}
    /\ disk' = [disk EXCEPT ![t] = {}]
    /\ UNCHANGED << vars, normalizedAt, uploadedAt, normDir, bucket, npc, local, asked, stranded >>

RemoveNormDir(h) ==
    /\ hpc[h] = "rmtree"
    /\ normDir
    /\ disk = NoTables
    /\ normDir' = FALSE
    /\ UNCHANGED << vars, normalizedAt, uploadedAt, disk, bucket, npc, local, asked, stranded >>

NNext ==
    \/ ScanStep /\ FollowScan /\ UNCHANGED << bucket, npc, local, asked, stranded >>
    \/ \E h \in Handlers : (\E t \in Tables : UnlinkTable(h, t)) \/ RemoveNormDir(h)
    \/ \E r \in NormRequests : RequestStep(r)
    \/ /\ Crash /\ FollowScan
       /\ npc' = [r \in NormRequests |-> "idle"]
       /\ local' = [r \in NormRequests |-> NoLocals]
       /\ UNCHANGED << bucket, asked, stranded >>

NSpec == NInit /\ [][NNext]_nvars

-------------------------------------------------------------------------------
\* Safety

NLabels == { "idle", "read", "mkdir", "nz_commit", "load", "save", "up_read", "up_commit",
             "put", "cp_read", "cp_commit", "cp_counts", "answered" }

Contents == SUBSET (1..Pages)

\* Types of the state, also of the scan's with requests beside it, and two facts that go
\* with where a request is: only in "save" has it tables to save, and no file is without its directory.
NTypeOK ==
    /\ ScanTypeOK
    /\ { normalizedAt, uploadedAt, normDir, stranded } \subseteq BOOLEAN
    /\ disk \in [Tables -> Contents]
    /\ bucket \in [Tables -> Contents]
    /\ npc \in [NormRequests -> NLabels]
    /\ \A r \in NormRequests :
         /\ local[r].seen \in JobStatus \cup {Expired}
         /\ local[r].left \in Seq(ObjectTypes)
         /\ local[r].unsent \subseteq DOMAIN local[r].all
         /\ (npc[r] = "save") <=> (local[r].unsaved # {})
    /\ normDir => dataDir
    /\ ~normDir => disk = NoTables

\* An answer that says uploaded_to_minio can be relied on: the bucket holds every table
\* the request made, whichever puts failed, whatever became of the job meanwhile and
\* whether or not its status could be written.  It holds the very rows unless another
\* request has come, whose tables have the same keys.
UploadedIsStored ==
    \A r \in NormRequests :
        npc[r] = "answered" /\ local[r].uploaded =>
            \A t \in DOMAIN local[r].all :
                /\ bucket[t] # {}
                /\ asked = 1 => bucket[t] = local[r].all[t]

\* Where a request is once normalized_at is committed.
PastNormalized == { "up_read", "up_commit", "put", "cp_read", "cp_commit", "cp_counts", "answered" }

\* What a request has saved stands.  From its COMMIT of normalized_at on, and as long as
\* the job exists, the normalized files hold the very rows of its tables, and those of one
\* object type come of one raw file: a deal and its associations are of one extraction.
\* Neither a second thread that rewrites the raw file between two tables, nor a save that
\* raises over the second, nor a removal whose unlinks fall between the saves can bring
\* about anything else.  Overlapping requests can: there is one at a time here.
SavedTablesStand ==
    \A r \in NormRequests :
        /\ \A s \in NormRequests : s = r
        /\ local[r].save
        /\ npc[r] \in PastNormalized
        /\ RowExists
        =>
        /\ \A t \in DOMAIN local[r].all : disk[t] = local[r].all[t]
        /\ \A o \in ObjectTypes : \A t, u \in TablesOf[o] :
             t \in DOMAIN local[r].all => u \in DOMAIN local[r].all /\ disk[t] = disk[u]

\* Where a request is bound to move a job on from NORMALIZING or UPLOADING.
RequestCarries(r) ==
    \/ npc[r] \in { "nz_commit", "up_commit", "cp_commit" }
    \/ /\ status = "NORMALIZING"
       /\ \/ npc[r] \in { "load", "save", "up_read" }
          \/ npc[r] = "cp_read" /\ NothingToUpload(local[r])
    \/ status = "UPLOADING" /\ npc[r] \in { "put", "cp_read" }

\* normalize_scan takes the job from the thread that extracts it, whose own moves then
\* raise.  Between them they still leave no job behind, whichever of the two finds the
\* other's status and whatever MinIO does, but for the one case of a request that moved
\* it to NORMALIZING and has nothing to upload or has failed.
ActiveHasCarrier ==
    faults = 0 /\ status \in Active =>
        \/ \E w \in Workers : pc[w] \in Carries[status]
        \/ AwaitsThread
        \/ \E r \in NormRequests : RequestCarries(r)
        \/ status = "NORMALIZING" /\ stranded

-------------------------------------------------------------------------------
\* The unlocked row with requests among those who write it.  A request whose copy of the
\* row decides has made its check when that copy was loaded.

Intention(label, seen) ==
    LET allowed(to) == seen # Expired /\ CanMove(seen, to) IN
    CASE label = "mkdir" /\ allowed("NORMALIZING") -> "NORMALIZING"
      [] label = "nz_commit" -> "NORMALIZING"
      [] label = "up_commit" -> "UPLOADING"
      [] label \in { "put", "cp_commit" } -> "COMPLETED"
      [] label = "cp_read" /\ allowed("COMPLETED") -> "COMPLETED"
      [] OTHER -> "none"

NAgents == Agents \cup ({ "request" } \X NormRequests)

NIntent ==
    [ a \in NAgents |-> IF a[1] = "request"
                          THEN Intention(npc[a[2]], local[a[2]].seen)
                          ELSE Intent[a] ]

NUnlocked == INSTANCE UnlockedLifecycle
    WITH Agents <- NAgents, state <- RowState, intent <- NIntent

\* With requests, too, that decide on a copy of the row as old as their directories, each
\* write of a status is of one found allowed after one the row had.
NFollowsUnlocked == NUnlocked!Spec

\* A request, too, can undo a terminal status only if it looked at the row before it.
NTerminalSettles == NUnlocked!SettledIsFinal

-------------------------------------------------------------------------------
\* What the endpoint promises and the code does not keep

\* The endpoint is to "Run the normalization pipeline for a completed scan" and
\* "optionally saves to disk and uploads to MinIO": of a scan that was COMPLETED when
\* it was asked to upload it, something is put into the bucket before it is answered.
CompletedScanIsUploaded ==
    [][\A r \in NormRequests :
         /\ npc[r] = "cp_read" /\ npc'[r] = "answered"
         /\ local[r].upload /\ local[r].seen = "COMPLETED" /\ DOMAIN local[r].all # {}
         => \E t \in DOMAIN local[r].all : bucket[t] # {}]_nvars
===============================================================================
