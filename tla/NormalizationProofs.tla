-------------------------- MODULE NormalizationProofs --------------------------
(***************************************************************************)
(* Theorems about Normalization for every number of threads, handlers,     *)
(* normalize requests, types, tables, pages and faults.                    *)
(***************************************************************************)
EXTENDS Normalization, ExtractionDataProofs

\* What a table holds that a normalizer has made: a raw file that exists has a page.
Filled == Contents \ {{}}

\* The tables made so far, each with what it holds.
TableMaps == UNION { [made -> Filled] : made \in SUBSET Tables }

\* What a request keeps, field by field.
LocalTypes ==
    [save : BOOLEAN, upload : BOOLEAN, seen : JobStatus \cup {Expired}, left : Seq(ObjectTypes),
     all : TableMaps, unsaved : SUBSET Tables, unsent : SUBSET Tables, ok : BOOLEAN,
     moved : BOOLEAN, broken : BOOLEAN, uploaded : BOOLEAN]

\* Before the tables are sent a request has nothing to say of the upload.
Unsent == { "idle", "read", "mkdir", "nz_commit", "load", "save", "up_read", "up_commit" }

\* Locals that go with a place: the tables to be saved or sent are among those made, only
\* at "save" there are some to be saved, at "put" the row is as it was just written, and
\* of the copy that "mkdir" looks at nothing is left while the tables are made.
Fits(label, l) ==
    /\ l.unsaved \subseteq DOMAIN l.all
    /\ l.unsent \subseteq DOMAIN l.all
    /\ (label = "save") <=> (l.unsaved # {})
    /\ label \in Unsent => ~l.uploaded
    /\ label = "put" => l.seen = "UPLOADING"
    /\ label = "mkdir" => l.seen # Expired
    /\ label \in { "nz_commit", "load", "save" } => l.seen = Expired

\* Every request is at one of its places with locals that go with it.
RequestTypes ==
    /\ npc \in [NormRequests -> NLabels]
    /\ local \in [NormRequests -> LocalTypes]
    /\ \A r \in NormRequests : Fits(npc[r], local[r])

\* The stamps, the files and the objects.
StoreTypes ==
    /\ normalizedAt \in BOOLEAN /\ uploadedAt \in BOOLEAN
    /\ normDir \in BOOLEAN /\ stranded \in BOOLEAN
    /\ disk \in [Tables -> Contents]
    /\ bucket \in [Tables -> Contents]
    /\ asked \in Nat
    /\ normDir => dataDir
    /\ ~normDir => disk = NoTables

\* The types of the scan, of the requests and of what they leave behind: the inductive
\* invariant the others rest on.
NTypeInv == TypeInv /\ RequestTypes /\ StoreTypes

\* An object in the bucket for table t: that of this request unless there was another.
Stored(r, t) ==
    /\ bucket[t] # {}
    /\ asked = 1 => bucket[t] = local[r].all[t]

\* While one request was made, one at most has anything in hand.
Alone ==
    /\ asked = 0 => \A r \in NormRequests : npc[r] = "idle"
    /\ asked = 1 => \A r, s \in NormRequests : npc[r] # "idle" /\ npc[s] # "idle" => r = s

\* What a request has put, unless a put has failed, and what it says it has put is stored.
PutIsStored(r) ==
    /\ local[r].uploaded => \A t \in DOMAIN local[r].all : Stored(r, t)
    /\ npc[r] = "put" /\ local[r].ok =>
         \A t \in DOMAIN local[r].all \ local[r].unsent : Stored(r, t)

\* The invariant of the uploads, with what is on its way to be said.
UploadInv == Alone /\ \A r \in NormRequests : PutIsStored(r)

\* A removal begins once the row is gone.
RemovalsLast == \A h \in Handlers : hpc[h] = "rmtree" => status = "GONE"

\* The tables of one type are made together, of one raw file.
MadeTogether(r) ==
    \A o \in ObjectTypes : \A t, u \in TablesOf[o] :
        t \in DOMAIN local[r].all =>
            u \in DOMAIN local[r].all /\ local[r].all[t] = local[r].all[u]

\* What has been saved is on disk, while the row is there.
SavedSoFar(r) ==
    local[r].save /\ status # "GONE" =>
        \A t \in DOMAIN local[r].all \ local[r].unsaved : disk[t] = local[r].all[t]

\* The invariant of the files, for a request that has none beside it.
SavedInv ==
    /\ RemovalsLast
    /\ \A r \in NormRequests :
         /\ MadeTogether(r)
         /\ (\A s \in NormRequests : s = r) => SavedSoFar(r)

\* A request that will move the job on, or leave it stranded.
Bound(r) ==
    \/ npc[r] \in { "nz_commit", "up_commit", "cp_commit" }
    \/ /\ status = "NORMALIZING" /\ local[r].moved
       /\ \/ npc[r] \in { "load", "save", "up_read" }
          \/ npc[r] = "cp_read" /\ NothingToUpload(local[r])
    \/ status = "UPLOADING" /\ npc[r] = "put"
    \/ status = "UPLOADING" /\ npc[r] = "cp_read" /\ CanMove(Loaded(r), "COMPLETED")

\* Of the threads and the requests one is sure to move an active job on, or it awaits its
\* thread, or is left stranded.
BoundInv ==
    faults = 0 /\ status \in Active =>
        \/ \E w \in Workers : Carrier(w)
        \/ AwaitsThread
        \/ \E r \in NormRequests : Bound(r)
        \/ status = "NORMALIZING" /\ stranded

-------------------------------------------------------------------------------
\* What a step of a request may do to the scan.
ScanFrame ==
    /\ UNCHANGED << objectTypes, heartbeat, ckpt, raw, hpc, thread, registry, history >>
    /\ \/ status' = status
       \/ RowExists /\ status' \in { "NORMALIZING", "UPLOADING", "COMPLETED" }
    /\ faults' = faults \/ Fault

\* Every step of a request keeps to that.
LEMMA RequestFrame ==
    ASSUME NEW r \in NormRequests, RequestStep(r)
    PROVE  ScanFrame
<1> USE DEF ScanFrame, KeepScan, store, row, history
<1>1. CASE \/ \E options \in NormOptions : NormRequest(r, options)
           \/ ReadJob(r) \/ MakeDirs(r) \/ MakeDirsFails(r) \/ NormalizingCommit(r)
  BY <1>1 DEF NormRequest, ReadJob, MakeDirs, MakeDirsFails, NormalizingCommit
<1>2. CASE \/ SkipType(r) \/ NormalizeType(r) \/ NormalizeTypeFails(r)
           \/ \E t \in Tables : SaveTable(r, t)
           \/ NormalizedCommit(r)
  BY <1>2 DEF SkipType, NormalizeType, NormalizeTypeFails, SaveTable, NormalizedCommit
<1>3. CASE \/ UploadingRead(r) \/ UploadingCommit(r) \/ UploadRaises(r)
           \/ \E t \in Tables, stored \in BOOLEAN : Put(r, t, stored)
           \/ UploadedCommit(r)
  BY <1>3 DEF UploadingRead, UploadingCommit, UploadRaises, Put, UploadedCommit
<1>4. CASE CompleteRead(r) \/ CompleteCommit(r) \/ CompleteCounts(r) \/ RequestDbError(r)
  BY <1>4 DEF CompleteRead, CompleteCommit, CompleteCounts, RequestDbError
<1> QED
  BY <1>1, <1>2, <1>3, <1>4 DEF RequestStep

\* A request leaves every other where it is.
LEMMA OtherRequests ==
    ASSUME RequestTypes, NEW r \in NormRequests, RequestStep(r), NEW s \in NormRequests, s # r
    PROVE  npc'[s] = npc[s] /\ local'[s] = local[s]
<1> USE DEF RequestTypes, NGoto, Fail, Answer, AnswerWith
<1>1. CASE \/ \E options \in NormOptions : NormRequest(r, options)
           \/ ReadJob(r) \/ MakeDirs(r) \/ MakeDirsFails(r) \/ NormalizingCommit(r)
  BY <1>1 DEF NormRequest, ReadJob, MakeDirs, MakeDirsFails, NormalizingCommit
<1>2. CASE \/ SkipType(r) \/ NormalizeType(r) \/ NormalizeTypeFails(r)
           \/ \E t \in Tables : SaveTable(r, t)
           \/ NormalizedCommit(r)
  BY <1>2 DEF SkipType, NormalizeType, NormalizeTypeFails, SaveTable, NormalizedCommit
<1>3. CASE \/ UploadingRead(r) \/ UploadingCommit(r) \/ UploadRaises(r)
           \/ \E t \in Tables, stored \in BOOLEAN : Put(r, t, stored)
           \/ UploadedCommit(r)
  BY <1>3 DEF UploadingRead, UploadingCommit, UploadRaises, Put, UploadedCommit
<1>4. CASE CompleteRead(r) \/ CompleteCommit(r) \/ CompleteCounts(r) \/ RequestDbError(r)
  BY <1>4 DEF CompleteRead, CompleteCommit, CompleteCounts, RequestDbError
<1> QED
  BY <1>1, <1>2, <1>3, <1>4 DEF RequestStep

\* No tables are tables, and what is made of a raw file is added to them.
LEMMA TableMapsLemma ==
    /\ [t \in {} |-> {}] \in TableMaps
    /\ \A m \in TableMaps :
         /\ DOMAIN m \subseteq Tables
         /\ m \in [DOMAIN m -> Filled]
         /\ \A new \in SUBSET Tables, p \in Filled :
              [t \in DOMAIN m \cup new |-> IF t \in new THEN p ELSE m[t]] \in TableMaps
<1>1. [t \in {} |-> {}] \in [{} -> Filled]
  OBVIOUS
<1>2. ASSUME NEW m \in TableMaps
      PROVE  DOMAIN m \subseteq Tables /\ m \in [DOMAIN m -> Filled]
  BY DEF TableMaps
<1>3. ASSUME NEW m \in TableMaps, NEW new \in SUBSET Tables, NEW p \in Filled
      PROVE  [t \in DOMAIN m \cup new |-> IF t \in new THEN p ELSE m[t]] \in TableMaps
  <2>1. [t \in DOMAIN m \cup new |-> IF t \in new THEN p ELSE m[t]] \in [DOMAIN m \cup new -> Filled]
    BY <1>2
  <2> QED
    BY <1>2, <2>1 DEF TableMaps
<1> QED
  BY <1>1, <1>2, <1>3 DEF TableMaps

\* The locals of a request that has not begun.
LEMMA NoLocalsLemma ==
    /\ NoLocals \in LocalTypes
    /\ DOMAIN NoLocals.all = {} /\ NoLocals.unsaved = {} /\ NoLocals.unsent = {}
    /\ ~NoLocals.uploaded /\ ~NoLocals.moved
  BY TableMapsLemma DEF NoLocals, LocalTypes

\* A step of a request keeps the types of its locals.
LEMMA RequestTypesStep ==
    ASSUME TypeInv, RequestTypes, NEW r \in NormRequests, RequestStep(r)
    PROVE  RequestTypes'
<1> DEFINE l == local[r]
<1>t. /\ npc \in [NormRequests -> NLabels] /\ local \in [NormRequests -> LocalTypes]
      /\ l \in LocalTypes /\ Fits(npc[r], l)
      /\ \A s \in NormRequests : Fits(npc[s], local[s])
  BY DEF RequestTypes
<1>g. ASSUME NEW label \in NLabels, NEW new \in LocalTypes, Fits(label, new),
             npc' = [npc EXCEPT ![r] = label], local' = [local EXCEPT ![r] = new]
      PROVE  RequestTypes'
  <2>1. npc' \in [NormRequests -> NLabels] /\ local' \in [NormRequests -> LocalTypes]
    BY <1>g, <1>t
  <2>2. ASSUME NEW s \in NormRequests PROVE Fits(npc'[s], local'[s])
    <3>1. CASE s = r
      <4>1. npc'[s] = label /\ local'[s] = new
        BY <1>g, <1>t, <3>1
      <4> QED
        BY <1>g, <4>1
    <3>2. CASE s # r
      <4>1. npc'[s] = npc[s] /\ local'[s] = local[s]
        BY <1>g, <1>t, <3>2
      <4> QED
        BY <1>t, <4>1
    <3> QED
      BY <3>1, <3>2
  <2>3. ASSUME NEW s \in NormRequests PROVE Fits(npc[s], local[s])'
    BY <2>2 DEF Fits
  <2> QED
    BY <2>1, <2>3 DEF RequestTypes
<1>m. ASSUME NEW label \in NLabels, NGoto(r, label), UNCHANGED local, Fits(label, l)
      PROVE  RequestTypes'
  BY <1>g, <1>m, <1>t DEF NGoto
<1>f. ASSUME NGoto(r, "idle") \/ NGoto(r, "answered"), local' = [local EXCEPT ![r] = NoLocals]
      PROVE  RequestTypes'
  BY <1>g, <1>f, NoLocalsLemma DEF NGoto, NLabels, Fits
<1>a. ASSUME NEW uploaded \in BOOLEAN, AnswerWith(r, uploaded)
      PROVE  RequestTypes'
  <2> DEFINE new == [NoLocals EXCEPT !.save = l.save, !.all = l.all, !.uploaded = uploaded]
  <2>1. new \in LocalTypes /\ Fits("answered", new)
    BY <1>t, NoLocalsLemma DEF LocalTypes, Fits, Unsent
  <2>2. NGoto(r, "answered") /\ local' = [local EXCEPT ![r] = new]
    BY <1>a DEF AnswerWith
  <2> HIDE DEF new
  <2> QED
    BY <1>g, <2>1, <2>2 DEF NGoto, NLabels
<1>1. ASSUME NEW options \in NormOptions, NormRequest(r, options) PROVE RequestTypes'
  <2> DEFINE save == "save" \in options
             upload == "upload" \in options
             new == [NoLocals EXCEPT !.save = save, !.upload = upload]
  <2>1. new \in LocalTypes /\ Fits("read", new)
    <3>1. save \in BOOLEAN /\ upload \in BOOLEAN
      OBVIOUS
    <3> HIDE DEF save, upload
    <3> QED
      BY <3>1, NoLocalsLemma DEF LocalTypes, Fits
  <2>2. npc' = [npc EXCEPT ![r] = "read"] /\ local' = [local EXCEPT ![r] = new]
    BY <1>1 DEF NormRequest, NGoto
  <2> HIDE DEF new
  <2> QED
    BY <1>g, <2>1, <2>2 DEF NLabels
<1> USE DEF LocalTypes, Fits, NGoto, NLabels, Unsent
<1>2. CASE ReadJob(r)
  <2>1. CASE RowExists
    <3> DEFINE new == [l EXCEPT !.seen = status, !.left = ResumeTypes]
    <3>1. ResumeTypes \in Seq(ObjectTypes)
      BY ResumeTypesOK DEF TypeInv
    <3>2. new \in LocalTypes /\ Fits("mkdir", new)
      BY <1>2, <1>t, <2>1, <3>1, ExpiredAssumption DEF ReadJob, RowExists
    <3>3. npc' = [npc EXCEPT ![r] = "mkdir"] /\ local' = [local EXCEPT ![r] = new]
      BY <1>2, <1>t, <2>1 DEF ReadJob
    <3> HIDE DEF new
    <3> QED
      BY <1>g, <3>2, <3>3
  <2>2. CASE ~RowExists
    BY <1>2, <1>f, <2>2 DEF ReadJob, Fail
  <2> QED
    BY <2>1, <2>2
<1>3. CASE MakeDirs(r) \/ MakeDirsFails(r)
  <2>1. CASE MakeDirs(r)
    BY <1>g, <1>t, <2>1 DEF MakeDirs
  <2>2. CASE MakeDirsFails(r)
    BY <1>f, <2>2 DEF MakeDirsFails, Fail
  <2> QED
    BY <1>3, <2>1, <2>2
<1>4. CASE NormalizingCommit(r)
  BY <1>4, <1>g, <1>f, <1>t DEF NormalizingCommit, Fail
<1>5. CASE SkipType(r)
  <2> DEFINE new == [l EXCEPT !.left = Tail(l.left)]
  <2>1. Tail(l.left) \in Seq(ObjectTypes)
    BY <1>5, <1>t DEF SkipType
  <2>2. new \in LocalTypes /\ Fits("load", new)
    BY <1>5, <1>t, <2>1 DEF SkipType
  <2>3. npc' = [npc EXCEPT ![r] = "load"] /\ local' = [local EXCEPT ![r] = new]
    BY <1>5, <1>t DEF SkipType
  <2> HIDE DEF new
  <2> QED
    BY <1>g, <2>2, <2>3
<1>6. CASE NormalizeType(r)
  <2> DEFINE tables == TablesOf[Obj(r)]
             file == raw[Obj(r)]
             all == [t \in DOMAIN l.all \cup tables |-> IF t \in tables THEN file ELSE l.all[t]]
             new == [l EXCEPT !.left = Tail(l.left), !.all = all,
                              !.unsaved = IF l.save THEN tables ELSE {}]
             label == IF l.save THEN "save" ELSE "load"
  <2>1. Tail(l.left) \in Seq(ObjectTypes) /\ Obj(r) \in ObjectTypes
    <3>1. l.left \in Seq(ObjectTypes) /\ l.left # << >>
      BY <1>6, <1>t DEF NormalizeType
    <3> QED
      BY <3>1 DEF Obj
  <2>2. tables \in SUBSET Tables /\ tables # {}
    BY <2>1, TablesAssumption
  <2>f. file \in Filled
    <3>1. raw \in [ObjectTypes -> SUBSET (1..Pages)]
      BY DEF TypeInv, ScanTypeOK
    <3> QED
      BY <1>6, <2>1, <3>1 DEF NormalizeType, Filled, Contents
  <2> HIDE DEF tables, file
  <2>3. all \in TableMaps /\ DOMAIN all = DOMAIN l.all \cup tables
    <3>1. l.all \in TableMaps
      BY <1>t
    <3> QED
      BY <2>2, <2>f, <3>1, TableMapsLemma
  <2> USE DEF tables, file
  <2>4. npc' = [npc EXCEPT ![r] = label] /\ local' = [local EXCEPT ![r] = new]
    BY <1>6, <1>t DEF NormalizeType
  <2> HIDE DEF all, tables
  <2>5. new \in LocalTypes
    BY <1>t, <2>1, <2>2, <2>3
  <2>6. Fits(label, new)
    BY <1>6, <1>t, <2>2, <2>3 DEF NormalizeType
  <2> HIDE DEF new
  <2> QED
    BY <1>g, <2>4, <2>5, <2>6
<1>7. CASE NormalizeTypeFails(r)
  BY <1>7, <1>f DEF NormalizeTypeFails, Fail
<1>8. ASSUME NEW t \in Tables, SaveTable(r, t) PROVE RequestTypes'
  <2> DEFINE new == [l EXCEPT !.unsaved = l.unsaved \ {t}]
             label == IF l.unsaved = {t} THEN "load" ELSE "save"
  <2>1. CASE ~Fail(r)
    <3>1. new \in LocalTypes /\ Fits(label, new)
      BY <1>8, <1>t DEF SaveTable
    <3>2. npc' = [npc EXCEPT ![r] = label] /\ local' = [local EXCEPT ![r] = new]
      BY <1>8, <1>t, <2>1 DEF SaveTable
    <3> HIDE DEF new
    <3> QED
      BY <1>g, <3>1, <3>2
  <2>2. CASE Fail(r)
    BY <1>f, <2>2 DEF Fail
  <2> QED
    BY <2>1, <2>2
<1>9. CASE NormalizedCommit(r)
  BY <1>9, <1>m, <1>f, <1>t DEF NormalizedCommit, Fail
<1>10. CASE UploadingRead(r)
  BY <1>10, <1>g, <1>t DEF UploadingRead, RowExists
<1>11. CASE UploadingCommit(r)
  <2> DEFINE new == [l EXCEPT !.seen = "UPLOADING", !.unsent = DOMAIN l.all]
  <2>1. CASE RowExists
    <3>1. new \in LocalTypes /\ Fits("put", new)
      BY <1>11, <1>t, TableMapsLemma DEF UploadingCommit, JobStatus
    <3>2. npc' = [npc EXCEPT ![r] = "put"] /\ local' = [local EXCEPT ![r] = new]
      BY <1>11, <1>t, <2>1 DEF UploadingCommit
    <3> HIDE DEF new
    <3> QED
      BY <1>g, <3>1, <3>2
  <2>2. CASE ~RowExists
    BY <1>11, <1>a, <1>t, <2>2 DEF UploadingCommit, Answer
  <2> QED
    BY <2>1, <2>2
<1>12. CASE UploadRaises(r)
  BY <1>12, <1>g, <1>t DEF UploadRaises
<1>13. ASSUME NEW t \in Tables, NEW stored \in BOOLEAN, Put(r, t, stored) PROVE RequestTypes'
  <2> DEFINE ok == l.ok /\ stored
             new == [l EXCEPT !.unsent = l.unsent \ {t}, !.ok = ok]
  <2>1. ok \in BOOLEAN
    OBVIOUS
  <2>2. npc' = npc /\ npc[r] = "put" /\ local' = [local EXCEPT ![r] = new]
    BY <1>13, <1>t DEF Put, AllStored
  <2> HIDE DEF ok
  <2>3. new \in LocalTypes /\ Fits("put", new)
    BY <1>t, <2>1, <2>2
  <2> HIDE DEF new
  <2>4. npc' = [npc EXCEPT ![r] = "put"]
    BY <1>t, <2>2
  <2> QED
    BY <1>g, <2>2, <2>3, <2>4
<1>14. CASE UploadedCommit(r)
  <2> DEFINE new == [l EXCEPT !.uploaded = l.ok, !.seen = Expired]
  <2>1. CASE RowExists
    <3>1. new \in LocalTypes /\ Fits("cp_read", new)
      BY <1>14, <1>t DEF UploadedCommit
    <3>2. npc' = [npc EXCEPT ![r] = "cp_read"] /\ local' = [local EXCEPT ![r] = new]
      BY <1>14, <1>t, <2>1 DEF UploadedCommit
    <3> HIDE DEF new
    <3> QED
      BY <1>g, <3>1, <3>2
  <2>2. CASE ~RowExists
    BY <1>14, <1>a, <1>t, <2>2 DEF UploadedCommit
  <2> QED
    BY <2>1, <2>2
<1>15. CASE CompleteRead(r) \/ CompleteCommit(r)
  BY <1>15, <1>m, <1>a, <1>t DEF CompleteRead, CompleteCommit, Answer
<1>16. CASE CompleteCounts(r)
  BY <1>16, <1>a, <1>t DEF CompleteCounts, Answer
<1>17. CASE RequestDbError(r)
  <2>1. CASE Fail(r) \/ Answer(r) \/ AnswerWith(r, l.ok)
    BY <1>f, <1>a, <1>t, <2>1 DEF Fail, Answer
  <2>2. CASE ~(Fail(r) \/ Answer(r) \/ AnswerWith(r, l.ok))
    <3> DEFINE new == [l EXCEPT !.seen = Expired, !.broken = TRUE]
    <3>1. npc[r] = "mkdir" /\ npc' = [npc EXCEPT ![r] = "load"] /\ local' = [local EXCEPT ![r] = new]
      BY <1>17, <1>t, <2>2 DEF RequestDbError
    <3>2. new \in LocalTypes /\ Fits("load", new)
      BY <1>t, <3>1
    <3> HIDE DEF new
    <3> QED
      BY <1>g, <3>1, <3>2
  <2> QED
    BY <2>1, <2>2
<1> QED
  BY <1>1, <1>2, <1>3, <1>4, <1>5, <1>6, <1>7, <1>8, <1>9, <1>10, <1>11, <1>12, <1>13, <1>14,
     <1>15, <1>16, <1>17
  DEF RequestStep

\* A step of a request keeps the types of the files, the objects and the stamps, and a
\* file in its directory.
LEMMA StoreTypesStep ==
    ASSUME TypeInv, RequestTypes, StoreTypes, NEW r \in NormRequests, RequestStep(r)
    PROVE  StoreTypes' /\ dataDir' \in BOOLEAN
<1> DEFINE l == local[r]
<1>t. /\ l \in LocalTypes /\ Fits(npc[r], l) /\ l.save \in BOOLEAN
      /\ dataDir \in BOOLEAN
  BY DEF RequestTypes, LocalTypes, TypeInv, ScanTypeOK
<1>m. l.all \in [DOMAIN l.all -> Filled]
  BY <1>t, TableMapsLemma DEF LocalTypes
<1>s. StoreTypes
  OBVIOUS
<1>b. Fail(r) \/ Answer(r) \/ AnswerWith(r, l.ok) => stranded' \in BOOLEAN
  BY Zenon DEF Fail, Answer, AnswerWith, Strand
<1> USE DEF StoreTypes, KeepScan, KeepStamps, KeepStores
<1>1. ASSUME NEW options \in NormOptions, NormRequest(r, options)
      PROVE  StoreTypes' /\ dataDir' = dataDir
  BY <1>1 DEF NormRequest, store
<1>2. CASE ReadJob(r)
  BY <1>2, <1>t, <1>b DEF ReadJob
<1>d. ASSUME dataDir' = (dataDir \/ l.save), normDir' = (normDir \/ l.save)
      PROVE  /\ dataDir' \in BOOLEAN /\ normDir' \in BOOLEAN
             /\ (normDir' => dataDir') /\ (normDir => normDir')
  BY <1>d, <1>t
<1>3. CASE MakeDirs(r) \/ MakeDirsFails(r)
  <2>1. CASE MakeDirs(r)
    BY <1>d, <2>1 DEF MakeDirs
  <2>2. CASE MakeDirsFails(r)
    BY <1>t, <1>b, <2>2 DEF MakeDirsFails
  <2> QED
    BY <1>3, <2>1, <2>2
<1>4. CASE NormalizingCommit(r)
  BY <1>4, <1>t, <1>b DEF NormalizingCommit
<1>5. CASE SkipType(r) \/ NormalizeType(r) \/ NormalizeTypeFails(r)
  <2>1. CASE NormalizeTypeFails(r)
    BY <1>t, <1>b, <2>1 DEF NormalizeTypeFails
  <2>2. CASE SkipType(r)
    BY <1>t, <2>2 DEF SkipType
  <2>3. CASE NormalizeType(r)
    BY <1>t, <2>3 DEF NormalizeType
  <2> QED
    BY <1>5, <2>1, <2>2, <2>3
<1>6. ASSUME NEW t \in Tables, SaveTable(r, t) PROVE StoreTypes' /\ dataDir' \in BOOLEAN
  <2>1. l.all[t] \in Contents
    BY <1>6, <1>t, <1>m DEF SaveTable, Fits, Filled
  <2>2. /\ disk' = [disk EXCEPT ![t] = l.all[t]] \/ disk' = disk
        /\ ~normDir => disk' = disk
    BY <1>6 DEF SaveTable, Table
  <2>3. disk' \in [Tables -> Contents]
    BY <2>1, <2>2
  <2> QED
    BY <1>6, <1>t, <1>b, <2>2, <2>3 DEF SaveTable
<1>7. CASE NormalizedCommit(r)
  BY <1>7, <1>t, <1>b DEF NormalizedCommit
<1>8. CASE UploadingRead(r) \/ UploadingCommit(r) \/ UploadRaises(r)
  <2>1. CASE UploadingCommit(r)
    BY <1>t, <1>b, <2>1 DEF UploadingCommit
  <2> QED
    BY <1>8, <1>t, <2>1 DEF UploadingRead, UploadRaises
<1>9. ASSUME NEW t \in Tables, NEW stored \in BOOLEAN, Put(r, t, stored)
      PROVE  StoreTypes' /\ dataDir' \in BOOLEAN
  <2>1. l.all[t] \in Contents
    BY <1>9, <1>t, <1>m DEF Put, Fits, Filled
  <2>2. bucket' = [bucket EXCEPT ![t] = l.all[t]] \/ bucket' = bucket
    BY <1>9 DEF Put
  <2>3. bucket' \in [Tables -> Contents]
    BY <2>1, <2>2
  <2> QED
    BY <1>9, <1>t, <2>3 DEF Put
<1>10. CASE UploadedCommit(r)
  BY <1>10, <1>t, <1>b DEF UploadedCommit
<1>11. CASE CompleteRead(r) \/ CompleteCommit(r) \/ CompleteCounts(r)
  <2>1. CASE CompleteRead(r)
    BY <1>t, <1>b, <2>1 DEF CompleteRead
  <2>2. CASE CompleteCommit(r)
    BY <1>t, <1>b, <2>2 DEF CompleteCommit
  <2>3. CASE CompleteCounts(r)
    BY <1>t, <1>b, <2>3 DEF CompleteCounts
  <2> QED
    BY <1>11, <2>1, <2>2, <2>3
<1>12. CASE RequestDbError(r)
  <2>1. CASE KeepStores /\ stranded' \in BOOLEAN
    BY <1>12, <1>t, <2>1 DEF RequestDbError
  <2>2. CASE ~(KeepStores /\ stranded' \in BOOLEAN)
    <3>1. /\ dataDir' = (dataDir \/ l.save) /\ normDir' = (normDir \/ l.save)
          /\ UNCHANGED << disk, bucket, stranded, asked, normalizedAt, uploadedAt >>
      BY <1>12, <1>b, <2>2 DEF RequestDbError
    <3> QED
      BY <1>d, <3>1
  <2> QED
    BY <2>1, <2>2
<1> QED
  BY <1>1, <1>2, <1>3, <1>4, <1>5, <1>6, <1>7, <1>8, <1>9, <1>10, <1>11, <1>12, <1>t DEF RequestStep

\* A removal takes a file from the normalized directory, or the directory.
Unlinks ==
    /\ \E h \in Handlers : hpc[h] = "rmtree"
    /\ \/ normDir' = normDir /\ \E t \in Tables : disk' = [disk EXCEPT ![t] = {}]
       \/ disk = NoTables /\ disk' = disk /\ normDir' = FALSE

\* A step of the scan or of nothing, with the files and stamps following it.
ScanOnly ==
    /\ [Next]_vars
    /\ \/ FollowScan
       \/ /\ UNCHANGED << vars, normalizedAt, uploadedAt >>
          /\ UNCHANGED << normDir, disk >> \/ Unlinks
    /\ UNCHANGED << bucket, asked, stranded >>
    /\ \/ UNCHANGED << npc, local >>
       \/ /\ Crash
          /\ npc' = [r \in NormRequests |-> "idle"]
          /\ local' = [r \in NormRequests |-> NoLocals]

\* Every step is one of the scan or one of a request.
LEMMA NSteps ==
    ASSUME [NNext]_nvars
    PROVE  ScanOnly \/ \E r \in NormRequests : RequestStep(r)
<1>1. CASE UNCHANGED nvars
  BY <1>1 DEF nvars, outcome, ScanOnly
<1>2. CASE \E h \in Handlers : (\E t \in Tables : UnlinkTable(h, t)) \/ RemoveNormDir(h)
  BY <1>2 DEF UnlinkTable, RemoveNormDir, Unlinks, ScanOnly
<1>3. CASE NNext
  BY <1>2, <1>3 DEF NNext, ScanOnly, Next
<1> QED
  BY <1>1, <1>3

\* A request takes nothing of the scan out of its types.
LEMMA FrameTypes ==
    ASSUME TypeInv, ScanFrame, dataDir' \in BOOLEAN
    PROVE  TypeInv'
<1>1. faults' \in 0..MaxFaults
  BY FaultLemma DEF TypeInv, ScanTypeOK, ScanFrame
<1>2. status' \in JobStatus \cup { "NEVER", "GONE" }
  BY DEF TypeInv, ScanTypeOK, ScanFrame, JobStatus
<1> QED
  BY <1>1, <1>2 DEF TypeInv, ScanTypeOK, ScanFrame, thread, locals, history, Placed

\* Initially every variable has its type.
LEMMA NInitTypes == NInit => NTypeInv
<1> SUFFICES ASSUME NInit PROVE NTypeInv
  OBVIOUS
<1>1. TypeInv
  BY InitTypes DEF NInit
<1>2. RequestTypes
  BY NoLocalsLemma DEF NInit, RequestTypes, Fits, NLabels
<1>3. StoreTypes
  BY DEF NInit, Init, StoreTypes, NoTables, Contents
<1> QED
  BY <1>1, <1>2, <1>3 DEF NTypeInv

\* Every step keeps the types.
LEMMA NStepTypes == NTypeInv /\ [NNext]_nvars => NTypeInv'
<1> SUFFICES ASSUME NTypeInv, [NNext]_nvars PROVE NTypeInv'
  OBVIOUS
<1>t. TypeInv /\ RequestTypes /\ StoreTypes
  BY DEF NTypeInv
<1>1. CASE \E r \in NormRequests : RequestStep(r)
  BY <1>1, <1>t, RequestTypesStep, StoreTypesStep, RequestFrame, FrameTypes DEF NTypeInv
<1>2. CASE ScanOnly
  <2>1. TypeInv' /\ dataDir' \in BOOLEAN
    BY <1>2, <1>t, StepTypes DEF ScanOnly, TypeInv, ScanTypeOK
  <2>2. RequestTypes'
    <3>1. CASE UNCHANGED << npc, local >>
      BY <1>t, <3>1 DEF RequestTypes, Fits
    <3>2. CASE /\ npc' = [r \in NormRequests |-> "idle"]
               /\ local' = [r \in NormRequests |-> NoLocals]
      BY <3>2, NoLocalsLemma DEF RequestTypes, Fits, NLabels
    <3> QED
      BY <1>2, <3>1, <3>2 DEF ScanOnly
  <2>3. StoreTypes'
    <3>1. CASE FollowScan
      BY <1>2, <1>t, <2>1, <3>1 DEF ScanOnly, FollowScan, StoreTypes
    <3>2. CASE /\ UNCHANGED << vars, normalizedAt, uploadedAt >>
               /\ UNCHANGED << normDir, disk >> \/ Unlinks
      <4>1. /\ disk' \in [Tables -> Contents] /\ normDir' \in BOOLEAN
            /\ normDir' => normDir
            /\ ~normDir' => disk' = NoTables
        <5>1. CASE UNCHANGED << normDir, disk >>
          BY <1>t, <5>1 DEF StoreTypes
        <5>3. CASE disk = NoTables /\ disk' = disk /\ normDir' = FALSE
          BY <1>t, <5>3, Zenon DEF StoreTypes
        <5>2. ASSUME NEW t \in Tables, normDir' = normDir, disk' = [disk EXCEPT ![t] = {}]
              PROVE  /\ disk' \in [Tables -> Contents]
                     /\ ~normDir => disk' = NoTables
          BY <1>t, <5>2 DEF StoreTypes, NoTables, Contents
        <5> QED
          BY <1>t, <3>2, <5>1, <5>2, <5>3 DEF Unlinks, StoreTypes
      <4> QED
        BY <1>2, <1>t, <3>2, <4>1 DEF ScanOnly, StoreTypes, vars, store
    <3> QED
      BY <1>2, <3>1, <3>2 DEF ScanOnly
  <2> QED
    BY <2>1, <2>2, <2>3 DEF NTypeInv
<1> QED
  BY <1>1, <1>2, NSteps

\* The types, for the proofs that cite them in every state.
LEMMA NTypeInvariance == NSpec => []NTypeInv
  BY NInitTypes, NStepTypes, PTL DEF NSpec

\* Every variable has its type, those of the scan with any number of requests beside it
\* too; and no normalized file is without its directory.
THEOREM NTypes == NSpec => []NTypeOK
<1>1. NTypeInv => NTypeOK
  BY DEF NTypeInv, TypeInv, RequestTypes, StoreTypes, LocalTypes, Fits, NTypeOK
<1> QED
  BY <1>1, NTypeInvariance, PTL

-------------------------------------------------------------------------------
\* What the scan promises of itself, with the strengthenings its own proofs need.
ScanInv ==
    /\ RunningHasHeartbeat
    /\ NoOrphanCheckpoint
    /\ RegistryIsLive
    /\ OverrunInv
    /\ PagesInv
    /\ CkptInv

\* A step within ScanFrame keeps it: a request may take the job out of a stop or a run,
\* never into one, and touches no thread, checkpoint or raw file.
LEMMA FrameKeepsScanInv ==
    ASSUME TypeInv, ScanInv, ScanFrame
    PROVE  ScanInv'
<1>t. /\ overrun \in [Workers -> Nat] /\ faults \in Nat /\ faults' \in Nat /\ faults <= faults'
  BY FaultAssumption DEF TypeInv, ScanTypeOK, ScanFrame, Fault
<1>s. /\ UNCHANGED << heartbeat, ckpt, raw, registry, fetched, overrun >>
      /\ UNCHANGED << pc, todo, cursor, records, pages, base >>
  BY DEF ScanFrame, thread, locals, history
<1>r. \/ status' = status
      \/ RowExists /\ status' \in { "NORMALIZING", "UPLOADING", "COMPLETED" }
  BY DEF ScanFrame
<1>1. RunningHasHeartbeat' /\ NoOrphanCheckpoint' /\ RegistryIsLive'
  BY <1>s, <1>r
  DEF ScanInv, RunningHasHeartbeat, NoOrphanCheckpoint, RegistryIsLive, Live, RowExists, JobStatus
<1>2. OverrunInv'
  <2> SUFFICES ASSUME NEW w \in Workers
               PROVE  /\ overrun'[w] <= 1 + faults'
                      /\ Stopped' /\ pc'[w] = "fetch" => overrun'[w] <= faults'
    BY DEF OverrunInv
  <2>1. Stopped' => Stopped
    BY <1>r DEF Stopped
  <2>2. /\ overrun[w] <= 1 + faults
        /\ Stopped /\ pc[w] = "fetch" => overrun[w] <= faults
    BY DEF ScanInv, OverrunInv
  <2>3. overrun[w] \in Nat
    BY <1>t
  <2> QED
    BY <1>s, <1>t, <2>1, <2>2, <2>3
<1>3. PagesInv'
  BY <1>s DEF ScanInv, PagesInv, PagesOf
<1>4. CkptInv'
  <2>1. status' # "GONE" => status # "GONE"
    BY <1>r DEF RowExists, JobStatus
  <2>2. ASSUME NEW t \in ObjectTypes PROVE CkptOf(t)'
    BY <1>s DEF ScanInv, CkptInv, CkptOf, Valid, Fetched
  <2>3. ASSUME NEW w \in Workers PROVE CursorOf(w)'
    <3>1. CursorOf(w) /\ Type(w)' = Type(w)
      BY <1>s DEF ScanInv, CkptInv, Type
    <3> QED
      BY <1>s, <2>1, <3>1 DEF CursorOf, Valid, Fetched
  <2> QED
    BY <2>2, <2>3 DEF CkptInv
<1> QED
  BY <1>1, <1>2, <1>3, <1>4 DEF ScanInv

\* Whatever normalize requests do beside it, the scan keeps what it promises but for its
\* COMPLETED, which a request may write over a scan that still runs.
THEOREM ScanKeepsItsPromises ==
    NSpec => [](/\ RunningHasHeartbeat /\ NoOrphanCheckpoint /\ RegistryIsLive
                /\ OverrunBounded /\ RawIsSuffix /\ NoSkippedPage)
<1>1. NInit => ScanInv
  <2> SUFFICES ASSUME Init PROVE ScanInv
    BY DEF NInit
  <2>1. RunningHasHeartbeat /\ NoOrphanCheckpoint /\ RegistryIsLive /\ OverrunInv
    BY FaultAssumption DEF Init, RunningHasHeartbeat, NoOrphanCheckpoint, RegistryIsLive, OverrunInv
  <2>2. PagesInv
    BY DEF Init, PagesInv, PagesOf, UpTo, Fetching, Saving, Saved
  <2>3. CkptInv
    BY PagesAssumption
    DEF Init, CkptInv, CkptOf, CursorOf, Valid, NoCkpt, Fetching, Saving, Saved
  <2> QED
    BY <2>1, <2>2, <2>3 DEF ScanInv
<1>2. NTypeInv /\ ScanInv /\ [NNext]_nvars => ScanInv'
  <2> SUFFICES ASSUME NTypeInv, ScanInv, [NNext]_nvars PROVE ScanInv'
    OBVIOUS
  <2>1. CASE \E r \in NormRequests : RequestStep(r)
    BY <2>1, RequestFrame, FrameKeepsScanInv DEF NTypeInv
  <2>2. CASE ScanOnly
    <3>1. TypeInv /\ [Next]_vars
      BY <2>2 DEF ScanOnly, NTypeInv
    <3>2. RunningHasHeartbeat'
      BY <3>1, FollowsRowSteps DEF RowSteps, RunningHasHeartbeat, ScanInv
    <3> QED
      BY <3>1, <3>2, OrphanStep, RegistryStep, OverrunStep, PagesStep, CkptStep DEF ScanInv
  <2> QED
    BY <2>1, <2>2, NSteps
<1>3. ScanInv => /\ RunningHasHeartbeat /\ NoOrphanCheckpoint /\ RegistryIsLive
                 /\ OverrunBounded /\ RawIsSuffix /\ NoSkippedPage
  BY DEF ScanInv, OverrunInv, OverrunBounded, PagesInv, UpTo, RawIsSuffix, CkptInv, CkptOf, Valid,
         NoSkippedPage
<1> QED
  BY <1>1, <1>2, <1>3, NTypeInvariance, PTL DEF NSpec

-------------------------------------------------------------------------------
\* What a step of a request does to what is said of its upload.
LEMMA UploadSteps ==
    ASSUME RequestTypes, NEW r \in NormRequests, RequestStep(r)
    PROVE  \/ /\ bucket' = bucket
              /\ local'[r].uploaded =>
                   /\ local'[r].all = local[r].all
                   /\ \/ local[r].uploaded
                      \/ npc[r] = "put" /\ local[r].unsent = {} /\ local[r].ok
              /\ npc'[r] = "put" => local'[r].unsent = DOMAIN local'[r].all
              /\ \/ asked' = asked /\ npc[r] # "idle"
                 \/ asked' = asked + 1 /\ ~local'[r].uploaded
           \/ \E t \in Tables, stored \in BOOLEAN : Put(r, t, stored)
<1> DEFINE l == local[r]
           Goal == /\ bucket' = bucket
                   /\ local'[r].uploaded =>
                        /\ local'[r].all = local[r].all
                        /\ \/ local[r].uploaded
                           \/ npc[r] = "put" /\ local[r].unsent = {} /\ local[r].ok
                   /\ npc'[r] = "put" => local'[r].unsent = DOMAIN local'[r].all
                   /\ \/ asked' = asked /\ npc[r] # "idle"
                      \/ asked' = asked + 1 /\ ~local'[r].uploaded
<1>t. /\ npc \in [NormRequests -> NLabels] /\ local \in [NormRequests -> LocalTypes]
      /\ l \in LocalTypes /\ Fits(npc[r], l)
  BY DEF RequestTypes
<1>f. ASSUME Fail(r) PROVE npc'[r] = "idle" /\ ~local'[r].uploaded
  BY <1>f, <1>t, NoLocalsLemma DEF Fail, NGoto
<1>a. ASSUME NEW uploaded \in BOOLEAN, AnswerWith(r, uploaded)
      PROVE  /\ npc'[r] = "answered"
             /\ local'[r].uploaded => uploaded
             /\ local'[r].all = l.all
  <2> DEFINE new == [NoLocals EXCEPT !.save = l.save, !.all = l.all, !.uploaded = uploaded]
  <2>1. npc'[r] = "answered" /\ local'[r] = new
    BY <1>a, <1>t DEF AnswerWith, NGoto
  <2>2. new.all = l.all /\ new.uploaded = uploaded
    BY NoLocalsLemma DEF LocalTypes
  <2> QED
    BY <2>1, <2>2
<1> USE DEF KeepScan, KeepStores, NGoto, LocalTypes, Fits, Unsent
<1>1. ASSUME NEW options \in NormOptions, NormRequest(r, options) PROVE Goal
  BY <1>1, <1>t, NoLocalsLemma DEF NormRequest
<1>2. CASE ReadJob(r)
  <2>1. CASE RowExists
    <3>1. local'[r].uploaded = l.uploaded /\ npc'[r] = "mkdir"
      BY <1>2, <1>t, <2>1 DEF ReadJob
    <3> QED
      BY <1>2, <1>t, <3>1 DEF ReadJob
  <2>2. CASE ~RowExists
    BY <1>2, <1>t, <1>f, <2>2 DEF ReadJob
  <2> QED
    BY <2>1, <2>2
<1>3. CASE MakeDirs(r) \/ MakeDirsFails(r)
  <2>1. CASE MakeDirs(r)
    BY <1>t, <2>1 DEF MakeDirs
  <2>2. CASE MakeDirsFails(r)
    BY <1>t, <1>f, <2>2 DEF MakeDirsFails
  <2> QED
    BY <1>3, <2>1, <2>2
<1>4. CASE NormalizingCommit(r)
  <2>1. CASE RowExists
    <3>1. local'[r] = [l EXCEPT !.moved = TRUE] /\ npc'[r] = "load"
      BY <1>4, <1>t, <2>1 DEF NormalizingCommit
    <3> QED
      BY <1>4, <1>t, <2>1, <3>1 DEF NormalizingCommit
  <2>2. CASE ~RowExists
    BY <1>4, <1>f, <2>2 DEF NormalizingCommit
  <2> QED
    BY <2>1, <2>2
<1>5. CASE SkipType(r)
  BY <1>5, <1>t DEF SkipType
<1>6. CASE NormalizeType(r)
  BY <1>6, <1>t DEF NormalizeType
<1>7. CASE NormalizeTypeFails(r)
  BY <1>7, <1>t, <1>f DEF NormalizeTypeFails
<1>8. ASSUME NEW t \in Tables, SaveTable(r, t) PROVE Goal
  BY <1>8, <1>t, <1>f DEF SaveTable
<1>9. CASE NormalizedCommit(r)
  BY <1>9, <1>t, <1>f DEF NormalizedCommit
<1>10. CASE UploadingRead(r)
  BY <1>10, <1>t DEF UploadingRead
<1>11. CASE UploadingCommit(r)
  BY <1>11, <1>t, <1>a DEF UploadingCommit, Answer
<1>12. CASE UploadRaises(r)
  BY <1>12, <1>t DEF UploadRaises
<1>13. CASE UploadedCommit(r)
  BY <1>13, <1>t, <1>a DEF UploadedCommit
<1>14. CASE CompleteRead(r)
  BY <1>14, <1>t, <1>a DEF CompleteRead, Answer
<1>15. CASE CompleteCommit(r)
  BY <1>15, <1>t, <1>a DEF CompleteCommit, Answer
<1>16. CASE CompleteCounts(r)
  BY <1>16, <1>t, <1>a DEF CompleteCounts, Answer
<1>17. CASE RequestDbError(r)
  <2>1. CASE Fail(r) \/ Answer(r) \/ AnswerWith(r, l.ok)
    BY <1>17, <1>t, <1>f, <1>a, <2>1 DEF RequestDbError, Answer
  <2>2. CASE ~(Fail(r) \/ Answer(r) \/ AnswerWith(r, l.ok))
    BY <1>17, <1>t, <2>2 DEF RequestDbError
  <2> QED
    BY <2>1, <2>2
<1> QED
  BY <1>1, <1>2, <1>3, <1>4, <1>5, <1>6, <1>7, <1>8, <1>9, <1>10, <1>11, <1>12, <1>13, <1>14,
     <1>15, <1>16, <1>17
  DEF RequestStep

\* Every step keeps UploadInv: a put that fails is remembered in ok, and another request's
\* put replaces an object by another.
LEMMA UploadInvStep == NTypeInv /\ UploadInv /\ [NNext]_nvars => UploadInv'
<1> SUFFICES ASSUME NTypeInv, UploadInv, [NNext]_nvars PROVE UploadInv'
  OBVIOUS
<1>t. /\ npc \in [NormRequests -> NLabels] /\ local \in [NormRequests -> LocalTypes]
      /\ RequestTypes /\ asked \in Nat /\ bucket \in [Tables -> Contents]
      /\ \A s \in NormRequests : Fits(npc[s], local[s])
  BY DEF NTypeInv, RequestTypes, StoreTypes
<1>u. Alone /\ \A s \in NormRequests : PutIsStored(s)
  BY DEF UploadInv
<1>1. ASSUME NEW r \in NormRequests, RequestStep(r) PROVE UploadInv'
  <2>o. \A s \in NormRequests : s # r => npc'[s] = npc[s] /\ local'[s] = local[s]
    BY <1>1, <1>t, OtherRequests
  <2>1. CASE \E t \in Tables, stored \in BOOLEAN : Put(r, t, stored)
    <3>1. PICK t \in Tables, stored \in BOOLEAN : Put(r, t, stored)
      BY <2>1
    <3>2. /\ npc[r] = "put" /\ npc' = npc /\ asked' = asked /\ t \in local[r].unsent
          /\ bucket' = IF stored THEN [bucket EXCEPT ![t] = local[r].all[t]] ELSE bucket
          /\ local'[r].unsent = local[r].unsent \ {t}
          /\ local'[r].ok = (local[r].ok /\ stored)
          /\ local'[r].all = local[r].all /\ local'[r].uploaded = local[r].uploaded
      BY <3>1, <1>t DEF Put, KeepScan, AllStored, LocalTypes
    <3>3. local[r].all[t] # {}
      BY <3>2, <1>t, TableMapsLemma DEF LocalTypes, Fits, Filled
    <3>4. \A u : bucket[u] # {} => bucket'[u] # {}
      BY <3>2, <3>3, <1>t
    <3>5. Alone'
      BY <1>u, <3>2 DEF Alone
    <3>6. ASSUME NEW s \in NormRequests, s # r PROVE PutIsStored(s)'
      <4>1. asked = 1 => npc[s] = "idle" /\ ~local[s].uploaded
        BY <1>t, <1>u, <3>2, <3>6 DEF Alone, Fits, Unsent
      <4> QED
        BY <1>u, <2>o, <3>2, <3>4, <3>6, <4>1 DEF PutIsStored, Stored
    <3>7. PutIsStored(r)'
      <4>1. ASSUME NEW u, Stored(r, u) PROVE Stored(r, u)'
        BY <4>1, <1>t, <3>2, <3>4 DEF Stored
      <4>2. stored /\ t \in Tables => Stored(r, t)'
        BY <1>t, <3>2, <3>3 DEF Stored
      <4> QED
        BY <1>u, <3>2, <4>1, <4>2 DEF PutIsStored
    <3> QED
      BY <3>5, <3>6, <3>7 DEF UploadInv
  <2>2. CASE ~ \E t \in Tables, stored \in BOOLEAN : Put(r, t, stored)
    <3>1. /\ bucket' = bucket
          /\ local'[r].uploaded =>
               /\ local'[r].all = local[r].all
               /\ \/ local[r].uploaded
                  \/ npc[r] = "put" /\ local[r].unsent = {} /\ local[r].ok
          /\ npc'[r] = "put" => local'[r].unsent = DOMAIN local'[r].all
          /\ \/ asked' = asked /\ npc[r] # "idle"
             \/ asked' = asked + 1 /\ ~local'[r].uploaded
      BY <1>1, <1>t, <2>2, UploadSteps
    <3>2. Alone'
      BY <1>t, <1>u, <2>o, <3>1 DEF Alone
    <3>3. ASSUME NEW s \in NormRequests, s # r PROVE PutIsStored(s)'
      <4>1. asked' = asked \/ asked' # 1 \/ (npc[s] = "idle" /\ ~local[s].uploaded)
        BY <1>t, <1>u, <3>1 DEF Alone, Fits, Unsent
      <4> QED
        BY <1>u, <2>o, <3>1, <3>3, <4>1 DEF PutIsStored, Stored
    <3>4. PutIsStored(r)'
      BY <1>u, <3>1 DEF PutIsStored, Stored
    <3> QED
      BY <3>2, <3>3, <3>4 DEF UploadInv
  <2> QED
    BY <2>1, <2>2
<1>2. CASE ScanOnly
  <2>1. CASE UNCHANGED << npc, local >>
    BY <1>2, <1>u, <2>1 DEF ScanOnly, UploadInv, Alone, PutIsStored, Stored
  <2>2. CASE /\ npc' = [r \in NormRequests |-> "idle"]
             /\ local' = [r \in NormRequests |-> NoLocals]
    BY <2>2, NoLocalsLemma DEF UploadInv, Alone, PutIsStored
  <2> QED
    BY <1>2, <2>1, <2>2 DEF ScanOnly
<1> QED
  BY <1>1, <1>2, NSteps

\* An answer that says uploaded_to_minio is true of the bucket, for any number of requests
\* at once, types and tables, whatever fails.
THEOREM UploadsAreStored == NSpec => []UploadedIsStored
<1>1. NInit => UploadInv
  BY NoLocalsLemma DEF NInit, UploadInv, Alone, PutIsStored
<1>2. UploadInv => UploadedIsStored
  BY DEF UploadInv, PutIsStored, Stored, UploadedIsStored
<1> QED
  BY <1>1, <1>2, UploadInvStep, NTypeInvariance, PTL DEF NSpec

-------------------------------------------------------------------------------
\* Only saving a table changes the files, only NormalizeType makes tables, and else a
\* request keeps its own or has done with them.
LEMMA TableSteps ==
    ASSUME RequestTypes, NEW r \in NormRequests, RequestStep(r)
    PROVE  \/ /\ disk' = disk
              /\ \/ DOMAIN local'[r].all = {}
                 \/ /\ local'[r].all = local[r].all
                    /\ local'[r].save = local[r].save
                    /\ local'[r].unsaved = local[r].unsaved
           \/ NormalizeType(r)
           \/ \E t \in Tables : SaveTable(r, t)
<1> DEFINE l == local[r]
           Keeps == \/ DOMAIN local'[r].all = {}
                    \/ /\ local'[r].all = l.all
                       /\ local'[r].save = l.save
                       /\ local'[r].unsaved = l.unsaved
<1>t. /\ local \in [NormRequests -> LocalTypes] /\ l \in LocalTypes
      /\ npc[r] # "save" => l.unsaved = {}
  BY DEF RequestTypes, Fits
<1>f. ASSUME Fail(r) PROVE Keeps
  BY <1>f, <1>t, NoLocalsLemma DEF Fail
<1>a. ASSUME NEW uploaded, AnswerWith(r, uploaded), npc[r] # "save" PROVE Keeps
  <2> DEFINE new == [NoLocals EXCEPT !.save = l.save, !.all = l.all, !.uploaded = uploaded]
  <2>1. local'[r] = new
    BY <1>a, <1>t DEF AnswerWith
  <2>2. new.all = l.all /\ new.save = l.save /\ new.unsaved = {}
    BY NoLocalsLemma DEF LocalTypes
  <2> QED
    BY <1>a, <1>t, <2>1, <2>2
<1> USE DEF KeepStores, LocalTypes
<1>1. CASE \E options \in NormOptions : NormRequest(r, options)
  <2>1. PICK options \in NormOptions : NormRequest(r, options)
    BY <1>1
  <2>2. local'[r] = [NoLocals EXCEPT !.save = "save" \in options, !.upload = "upload" \in options]
    BY <1>t, <2>1 DEF NormRequest
  <2>3. local'[r].all = NoLocals.all
    BY <2>2, NoLocalsLemma
  <2> QED
    BY <2>1, <2>3, NoLocalsLemma DEF NormRequest
<1>2. CASE ReadJob(r) \/ MakeDirs(r) \/ MakeDirsFails(r) \/ NormalizingCommit(r)
  BY <1>2, <1>t, <1>f DEF ReadJob, MakeDirs, MakeDirsFails, NormalizingCommit
<1>3. CASE SkipType(r) \/ NormalizeTypeFails(r) \/ NormalizedCommit(r)
  BY <1>3, <1>t, <1>f DEF SkipType, NormalizeTypeFails, NormalizedCommit
<1>4. CASE UploadingRead(r) \/ UploadingCommit(r) \/ UploadRaises(r)
  BY <1>4, <1>t, <1>a DEF UploadingRead, UploadingCommit, UploadRaises, Answer
<1>5. CASE UploadedCommit(r)
  BY <1>5, <1>t, <1>a DEF UploadedCommit
<1>8. ASSUME NEW t \in Tables, NEW stored \in BOOLEAN, Put(r, t, stored)
      PROVE  disk' = disk /\ Keeps
  <2>1. local' = [local EXCEPT ![r] = [l EXCEPT !.unsent = l.unsent \ {t}, !.ok = AllStored(r, stored)]]
    BY <1>8, <1>t DEF Put
  <2> QED
    BY <1>8, <1>t, <2>1 DEF Put
<1>6. CASE CompleteRead(r) \/ CompleteCommit(r) \/ CompleteCounts(r)
  BY <1>6, <1>t, <1>a DEF CompleteRead, CompleteCommit, CompleteCounts, Answer
<1>7. CASE RequestDbError(r)
  BY <1>7, <1>t, <1>f, <1>a DEF RequestDbError, Answer
<1> QED
  BY <1>1, <1>2, <1>3, <1>4, <1>5, <1>6, <1>7, <1>8 DEF RequestStep

\* A step of the scan lets no removal begin before the row is gone.
LEMMA RemovalsStep ==
    ASSUME TypeInv, RemovalsLast, [Next]_vars
    PROVE  RemovalsLast'
<1>1. status = "GONE" => status' = "GONE"
  BY FollowsRowSteps DEF RowSteps
<1>2. ASSUME NEW w \in Workers, WorkerStep(w) PROVE RemovalsLast'
  BY <1>1, <1>2, SteppingThreads DEF RemovalsLast
<1>3. CASE ~ \E w \in Workers : WorkerStep(w)
  BY <1>1, <1>3, OthersFollow DEF OtherSteps, RemovalsLast
<1> QED
  BY <1>2, <1>3

\* Every step keeps SavedInv: what a save leaves undone ends the request, and a removal
\* unlinks what was saved for a job that is no more.
LEMMA SavedInvStep == NTypeInv /\ SavedInv /\ [NNext]_nvars => SavedInv'
<1> SUFFICES ASSUME NTypeInv, SavedInv, [NNext]_nvars PROVE SavedInv'
  OBVIOUS
<1>t. /\ npc \in [NormRequests -> NLabels] /\ local \in [NormRequests -> LocalTypes]
      /\ TypeInv /\ RequestTypes /\ disk \in [Tables -> Contents]
      /\ \A o \in ObjectTypes : TablesOf[o] \subseteq Tables
  BY TablesAssumption DEF NTypeInv, RequestTypes, StoreTypes
<1>i. \A r \in NormRequests : MadeTogether(r) /\ ((\A s \in NormRequests : s = r) => SavedSoFar(r))
  BY DEF SavedInv
<1>n. ASSUME NEW r \in NormRequests, DOMAIN local'[r].all = {}
      PROVE  MadeTogether(r)' /\ SavedSoFar(r)'
  BY <1>n DEF MadeTogether, SavedSoFar
<1>1. CASE ScanOnly
  <2>1. RemovalsLast'
    BY <1>1, <1>t, RemovalsStep DEF ScanOnly, SavedInv
  <2>2. CASE UNCHANGED << npc, local >>
    <3>1. status' # "GONE" => status # "GONE" /\ disk' = disk
      <4>1. status = "GONE" => status' = "GONE"
        BY <1>1, <1>t, FollowsRowSteps DEF ScanOnly, RowSteps
      <4>2. Unlinks => status = "GONE"
        BY DEF Unlinks, SavedInv, RemovalsLast
      <4> QED
        BY <1>1, <4>1, <4>2 DEF ScanOnly, FollowScan
    <3>2. ASSUME NEW r \in NormRequests
          PROVE  /\ MadeTogether(r)'
                 /\ SavedSoFar(r) => SavedSoFar(r)'
      BY <1>i, <2>2, <3>1 DEF MadeTogether, SavedSoFar
    <3> QED
      BY <1>i, <2>1, <3>2 DEF SavedInv
  <2>3. CASE local' = [r \in NormRequests |-> NoLocals]
    BY <1>n, <2>1, <2>3, NoLocalsLemma DEF SavedInv
  <2> QED
    BY <1>1, <2>2, <2>3 DEF ScanOnly
<1>2. ASSUME NEW r \in NormRequests, RequestStep(r) PROVE SavedInv'
  <2>s. ScanFrame /\ (status' # "GONE" => status # "GONE")
    BY <1>2, RequestFrame DEF ScanFrame, RowExists, JobStatus
  <2>r. RemovalsLast'
    BY <2>s DEF ScanFrame, SavedInv, RemovalsLast, RowExists, JobStatus
  <2>o. ASSUME NEW s \in NormRequests, s # r
        PROVE  /\ MadeTogether(s)'
               /\ ~ \A q \in NormRequests : q = s
    BY <1>2, <1>t, <1>i, <2>o, OtherRequests DEF MadeTogether
  <2>g. ASSUME MadeTogether(r)', SavedSoFar(r) => SavedSoFar(r)' PROVE SavedInv'
    <3>1. ASSUME NEW s \in NormRequests
          PROVE  MadeTogether(s)' /\ ((\A q \in NormRequests : q = s) => SavedSoFar(s)')
      BY <1>i, <2>o, <2>g
    <3> QED
      BY <2>r, <3>1 DEF SavedInv
  <2>1. CASE DOMAIN local'[r].all = {}
    BY <1>n, <2>g, <2>1
  <2>2. CASE /\ disk' = disk
             /\ local'[r].all = local[r].all
             /\ local'[r].save = local[r].save
             /\ local'[r].unsaved = local[r].unsaved
    BY <1>i, <2>s, <2>g, <2>2 DEF MadeTogether, SavedSoFar
  <2>3. CASE NormalizeType(r)
    <3>o. PICK o \in ObjectTypes : o = Obj(r)
      <4>1. local[r].left \in Seq(ObjectTypes) /\ local[r].left # << >>
        BY <1>t, <2>3 DEF NormalizeType, LocalTypes
      <4> QED
        BY <4>1 DEF Obj
    <3> DEFINE all == [t \in DOMAIN local[r].all \cup TablesOf[o] |->
                         IF t \in TablesOf[o] THEN raw[o] ELSE local[r].all[t]]
               unsaved == IF local[r].save THEN TablesOf[o] ELSE {}
    <3>1. /\ local[r] \in LocalTypes /\ disk' = disk
          /\ local' = [local EXCEPT ![r] = [local[r] EXCEPT !.left = Tail(local[r].left),
                                              !.all = all, !.unsaved = unsaved]]
      BY <1>t, <2>3, <3>o DEF NormalizeType, KeepStores
    <3>2. local[r].unsaved = {}
      BY <1>t, <2>3 DEF NormalizeType, RequestTypes, Fits
    <3> HIDE DEF all, unsaved
    <3>3. local'[r].unsaved = unsaved /\ local'[r].all = all /\ local'[r].save = local[r].save
      BY <1>t, <3>1 DEF LocalTypes
    <3>4. MadeTogether(r)'
      <4>1. ASSUME NEW p \in ObjectTypes, NEW t \in TablesOf[p], NEW u \in TablesOf[p],
                   t \in DOMAIN all
            PROVE  u \in DOMAIN all /\ all[t] = all[u]
        <5>1. CASE p = o
          BY <4>1, <5>1 DEF all
        <5>2. CASE p # o
          <6>1. t \notin TablesOf[o] /\ u \notin TablesOf[o]
            BY <5>2, TablesAreOwn
          <6> QED
            BY <1>i, <4>1, <6>1 DEF all, MadeTogether
        <5> QED
          BY <5>1, <5>2
      <4> QED
        BY <3>3, <4>1 DEF MadeTogether
    <3>5. SavedSoFar(r) => SavedSoFar(r)'
      BY <2>s, <3>1, <3>2, <3>3 DEF SavedSoFar, all, unsaved
    <3> QED
      BY <2>g, <3>4, <3>5
  <2>4. ASSUME NEW t \in Tables, SaveTable(r, t) PROVE SavedInv'
    <3>1. CASE Fail(r)
      BY <1>n, <1>t, <2>g, <3>1, NoLocalsLemma DEF Fail
    <3>2. CASE ~Fail(r)
      <4>1. /\ disk' = [disk EXCEPT ![t] = local[r].all[t]]
            /\ local'[r].unsaved = local[r].unsaved \ {t}
            /\ local'[r].all = local[r].all /\ local'[r].save = local[r].save
        BY <1>t, <2>4, <3>2 DEF SaveTable, Table, LocalTypes
      <4> QED
        BY <1>t, <1>i, <2>s, <2>g, <4>1 DEF MadeTogether, SavedSoFar
    <3> QED
      BY <3>1, <3>2
  <2> QED
    BY <1>2, <1>t, <2>1, <2>2, <2>3, <2>4, TableSteps
<1> QED
  BY <1>1, <1>2, NSteps

\* What a request has saved stands as long as the job does, and the tables of one type are
\* of one raw file, whatever rewrites it, whichever save raises and however far a removal
\* has got.
THEOREM SavedTablesLast == NSpec => []SavedTablesStand
<1>1. NInit => SavedInv
  BY NoLocalsLemma DEF NInit, Init, SavedInv, RemovalsLast, MadeTogether, SavedSoFar
<1>2. NTypeInv /\ SavedInv => SavedTablesStand
  <2> SUFFICES ASSUME NTypeInv, SavedInv, NEW r \in NormRequests,
                      \A s \in NormRequests : s = r,
                      local[r].save, npc[r] \in PastNormalized, RowExists
               PROVE  /\ \A t \in DOMAIN local[r].all : disk[t] = local[r].all[t]
                      /\ \A o \in ObjectTypes : \A t, u \in TablesOf[o] :
                           t \in DOMAIN local[r].all =>
                             u \in DOMAIN local[r].all /\ disk[t] = disk[u]
    BY DEF SavedTablesStand
  <2>1. MadeTogether(r) /\ SavedSoFar(r) /\ status # "GONE"
    BY DEF SavedInv, RowExists, JobStatus
  <2>2. local[r].unsaved = {}
    BY DEF NTypeInv, RequestTypes, Fits, PastNormalized
  <2> QED
    BY <2>1, <2>2 DEF MadeTogether, SavedSoFar
<1> QED
  BY <1>1, <1>2, SavedInvStep, NTypeInvariance, PTL DEF NSpec

-------------------------------------------------------------------------------
\* A step without a fault is no crash.
LEMMA NoFaults ==
    ASSUME NTypeInv, [NNext]_nvars, faults' = 0
    PROVE  faults = 0 /\ ~Fault
<1>1. faults \in Nat
  BY FaultAssumption DEF NTypeInv, TypeInv, ScanTypeOK
<1>2. faults <= faults'
  <2>1. CASE ScanOnly
    BY <2>1, FollowsRowSteps DEF ScanOnly, RowSteps, NTypeInv
  <2>2. ASSUME NEW r \in NormRequests, RequestStep(r) PROVE faults <= faults'
    BY <1>1, <2>2, RequestFrame DEF ScanFrame, Fault
  <2> QED
    BY <2>1, <2>2, NSteps
<1> QED
  BY <1>1, <1>2 DEF Fault

\* A request that holds the job moves it on, remains bound to, or leaves it stranded.
LEMMA BoundSteps ==
    ASSUME RequestTypes, NEW r \in NormRequests, RequestStep(r), ~Fault, status' \in Active
    PROVE  /\ \/ Bound(r)'
              \/ status' = status /\ ~Bound(r)
              \/ status' = status /\ status = "NORMALIZING" /\ stranded'
           /\ stranded => stranded'
<1> DEFINE l == local[r]
           Goal == /\ \/ Bound(r)'
                      \/ status' = status /\ ~Bound(r)
                      \/ status' = status /\ status = "NORMALIZING" /\ stranded'
                   /\ stranded => stranded'
<1>t. /\ npc \in [NormRequests -> NLabels] /\ local \in [NormRequests -> LocalTypes]
      /\ l \in LocalTypes /\ Fits(npc[r], l)
  BY DEF RequestTypes
<1>r. status' = status => RowExists
  BY DEF Active, RowExists, JobStatus
<1>x. CanMove("NORMALIZING", "UPLOADING") /\ CanMove("UPLOADING", "COMPLETED")
  BY DEF CanMove, VALID_TRANSITIONS, TERMINAL_STATES
<1> USE DEF NGoto, KeepScan
<1>1. CASE \/ \E options \in NormOptions : NormRequest(r, options)
           \/ ReadJob(r) \/ MakeDirs(r) \/ MakeDirsFails(r) \/ CompleteCounts(r)
  <2>1. npc[r] \in { "idle", "answered", "read", "mkdir", "cp_counts" }
    BY <1>1 DEF NormRequest, AtWork, ReadJob, MakeDirs, MakeDirsFails, CompleteCounts
  <2>2. status' = status /\ (stranded => stranded')
    <3>1. CASE \E options \in NormOptions : NormRequest(r, options)
      BY <3>1 DEF NormRequest, store, row
    <3>2. CASE ReadJob(r)
      BY <3>2 DEF ReadJob, Fail, Strand
    <3>3. CASE MakeDirs(r)
      BY <3>3 DEF MakeDirs
    <3>5. CASE MakeDirsFails(r)
      BY <3>5 DEF MakeDirsFails, Fail, Strand
    <3>4. CASE CompleteCounts(r)
      BY <3>4 DEF CompleteCounts, Answer, AnswerWith, Strand
    <3> QED
      BY <1>1, <3>1, <3>2, <3>3, <3>4, <3>5
  <2> QED
    BY <2>1, <2>2 DEF Bound
<1>2. CASE NormalizingCommit(r)
  <2>1. /\ status' = "NORMALIZING" /\ npc'[r] = "load" /\ local'[r].moved
        /\ stranded' = stranded
    BY <1>2, <1>t, <1>r DEF NormalizingCommit, LocalTypes
  <2> QED
    BY <2>1 DEF Bound
<1>3. CASE SkipType(r) \/ NormalizeType(r)
  <2>1. /\ status' = status /\ stranded' = stranded /\ npc[r] = "load"
        /\ npc'[r] \in { "load", "save" } /\ local'[r].moved = l.moved
    <3>1. CASE SkipType(r)
      BY <1>t, <3>1 DEF SkipType, LocalTypes
    <3>2. CASE NormalizeType(r)
      <4>1. PICK all, unsaved :
              local' = [local EXCEPT ![r].left = Tail(@), ![r].all = all, ![r].unsaved = unsaved]
        BY <3>2, Zenon DEF NormalizeType
      <4>2. local'[r].moved = l.moved
        BY <1>t, <4>1 DEF LocalTypes
      <4> QED
        BY <1>t, <3>2, <4>2 DEF NormalizeType
    <3> QED
      BY <1>3, <3>1, <3>2
  <2> QED
    BY <2>1 DEF Bound
<1>f. ASSUME Fail(r), status' = status, npc[r] \in { "load", "save" } PROVE Goal
  BY <1>f DEF Fail, Strand, Bound
<1>4. CASE NormalizeTypeFails(r)
  BY <1>4, <1>f DEF NormalizeTypeFails
<1>5. ASSUME NEW t \in Tables, SaveTable(r, t) PROVE Goal
  <2>1. CASE ~Fail(r)
    <3>1. /\ status' = status /\ stranded' = stranded /\ npc[r] = "save"
          /\ npc'[r] \in { "load", "save" } /\ local'[r].moved = l.moved
      BY <1>5, <1>t, <2>1 DEF SaveTable, LocalTypes
    <3> QED
      BY <3>1 DEF Bound
  <2>2. CASE Fail(r)
    BY <1>5, <1>f, <2>2 DEF SaveTable
  <2> QED
    BY <2>1, <2>2
<1>6. CASE NormalizedCommit(r)
  <2>1. CASE l.broken
    BY <1>6, <1>f, <2>1 DEF NormalizedCommit
  <2>2. CASE ~l.broken
    <3>1. /\ status' = status /\ stranded' = stranded /\ npc[r] = "load" /\ local' = local
          /\ npc'[r] = IF NothingToUpload(l) THEN "cp_read" ELSE "up_read"
      BY <1>6, <1>t, <1>r, <2>2 DEF NormalizedCommit
    <3> QED
      BY <3>1 DEF Bound
  <2> QED
    BY <2>1, <2>2
<1>7. CASE UploadingRead(r)
  <2>1. /\ status' = status /\ stranded' = stranded /\ npc[r] = "up_read"
        /\ npc'[r] = IF CanMove(status, "UPLOADING") THEN "up_commit" ELSE "cp_read"
    BY <1>7, <1>t, <1>r DEF UploadingRead
  <2> QED
    BY <1>x, <2>1 DEF Bound
<1>8. CASE UploadingCommit(r)
  <2>1. status' = "UPLOADING" /\ npc'[r] = "put" /\ stranded' = stranded
    BY <1>8, <1>t, <1>r DEF UploadingCommit
  <2> QED
    BY <2>1 DEF Bound
<1>9. CASE UploadRaises(r)
  <2>1. /\ status' = status /\ stranded' = stranded /\ npc[r] = "put" /\ npc'[r] = "cp_read"
        /\ local'[r].seen = "UPLOADING"
    BY <1>9, <1>t DEF UploadRaises, LocalTypes, Fits
  <2> QED
    BY <1>x, <2>1 DEF Bound, Loaded
<1>10. ASSUME NEW t \in Tables, NEW stored \in BOOLEAN, Put(r, t, stored) PROVE Goal
  <2>1. status' = status /\ stranded' = stranded /\ npc[r] = "put" /\ npc' = npc
    BY <1>10 DEF Put
  <2> QED
    BY <2>1 DEF Bound
<1>11. CASE UploadedCommit(r)
  <2>1. /\ status' = status /\ stranded' = stranded /\ npc[r] = "put" /\ npc'[r] = "cp_read"
        /\ local'[r].seen = Expired
    BY <1>11, <1>t, <1>r DEF UploadedCommit, LocalTypes
  <2> QED
    BY <1>x, <2>1 DEF Bound, Loaded
<1>12. CASE CompleteRead(r)
  <2>1. CASE CanMove(Loaded(r), "COMPLETED")
    <3>1. npc'[r] = "cp_commit" /\ stranded' = stranded
      BY <1>12, <1>t, <1>r, <2>1 DEF CompleteRead
    <3> QED
      BY <3>1 DEF Bound
  <2>2. CASE ~CanMove(Loaded(r), "COMPLETED")
    <3>1. Answer(r) /\ status' = status /\ npc[r] = "cp_read"
      BY <1>12, <2>2 DEF CompleteRead
    <3> QED
      BY <2>2, <3>1 DEF Bound, Answer, AnswerWith, Strand
  <2> QED
    BY <2>1, <2>2
<1>13. CASE CompleteCommit(r)
  BY <1>13, <1>r DEF CompleteCommit, Active
<1>14. CASE RequestDbError(r)
  BY <1>14 DEF RequestDbError
<1> QED
  BY <1>1, <1>2, <1>3, <1>4, <1>5, <1>6, <1>7, <1>8, <1>9, <1>10, <1>11, <1>12, <1>13, <1>14
  DEF RequestStep

\* Every step without a fault keeps BoundInv.
LEMMA BoundInvStep == NTypeInv /\ BoundInv /\ [NNext]_nvars => BoundInv'
<1> DEFINE Held == \/ \E w \in Workers : Carrier(w)
                   \/ AwaitsThread
                   \/ \E r \in NormRequests : Bound(r)
                   \/ status = "NORMALIZING" /\ stranded
<1> SUFFICES ASSUME NTypeInv, BoundInv, [NNext]_nvars, faults' = 0, status' \in Active
             PROVE  Held'
  BY DEF BoundInv
<1>t. TypeInv /\ RequestTypes /\ pc \in [Workers -> Labels]
  BY DEF NTypeInv, TypeInv, ScanTypeOK
<1>f. faults = 0 /\ ~Fault
  BY NoFaults
<1>i. status \in Active => Held
  BY <1>f DEF BoundInv
<1>1. CASE ScanOnly
  <2>1. UNCHANGED << npc, local, stranded >> /\ [Next]_vars
    BY <1>1, <1>f DEF ScanOnly, Crash
  <2>2. CASE status \notin Active \/ (\E w \in Workers : Carrier(w)) \/ AwaitsThread
    <3>1. CarrierInv'
      BY <1>t, <2>1, <2>2, CarrierStep DEF CarrierInv
    <3> QED
      BY <3>1 DEF CarrierInv
  <2>3. CASE /\ status' = status /\ status \in Active
             /\ ~ \E w \in Workers : Carrier(w)
             /\ ~AwaitsThread
    BY <1>i, <2>1, <2>3 DEF Bound, Loaded
  <2>4. CASE status' # status
    <3>1. ASSUME NEW w \in Workers, WorkerStep(w) PROVE Carrier(w)'
      BY <1>t, <2>4, <3>1, MoversCarry
    <3>2. CASE ~ \E w \in Workers : WorkerStep(w)
      BY <1>t, <1>f, <2>1, <2>4, <3>2, OthersLaunch DEF LeftAlone, Announced, AwaitsThread
    <3> QED
      BY <3>1, <3>2
  <2> QED
    BY <2>2, <2>3, <2>4
<1>2. ASSUME NEW r \in NormRequests, RequestStep(r) PROVE Held'
  <2>1. ScanFrame
    BY <1>2, RequestFrame
  <2>2. ASSUME status' = status, NEW w \in Workers, Carrier(w) PROVE Carrier(w)'
    BY <2>1, <2>2 DEF ScanFrame, thread, locals, Carrier, Doomed, Type
  <2>3. ASSUME status' = status, NEW s \in NormRequests, s # r, Bound(s) PROVE Bound(s)'
    <3>1. npc'[s] = npc[s] /\ local'[s] = local[s]
      BY <1>2, <1>t, <2>3, OtherRequests
    <3> QED
      BY <2>3, <3>1 DEF Bound, Loaded
  <2>4. status' = status /\ AwaitsThread => AwaitsThread'
    BY <2>1 DEF ScanFrame, history, AwaitsThread, Launching
  <2> QED
    BY <1>2, <1>t, <1>f, <1>i, <2>2, <2>3, <2>4, BoundSteps
<1> QED
  BY <1>1, <1>2, NSteps

\* Between the threads and the requests no job is left behind while nothing fails, once it
\* has had its thread, but for a request that moved it to NORMALIZING and could not move it
\* on.
THEOREM JobsAreCarriedBetween == NSpec => []ActiveHasCarrier
<1>1. NInit => BoundInv
  BY DEF NInit, Init, BoundInv, Active
<1>2. NTypeInv /\ BoundInv /\ [NNext]_nvars => BoundInv'
  BY BoundInvStep
<1>3. BoundInv => ActiveHasCarrier
  BY DEF BoundInv, Bound, Carrier, ActiveHasCarrier, RequestCarries
<1> QED
  BY <1>1, <1>2, <1>3, NTypeInvariance, PTL DEF NSpec

-------------------------------------------------------------------------------
\* Where a request has nothing in mind for the status.
Unconcerned == { "idle", "read", "load", "save", "up_read", "cp_counts", "answered" }

\* What a request intends at each of its places.
LEMMA IntentionLemma ==
    /\ \A seen : \A label \in Unconcerned : Intention(label, seen) = "none"
    /\ \A seen : Intention("mkdir", seen) =
         IF seen # Expired /\ CanMove(seen, "NORMALIZING") THEN "NORMALIZING" ELSE "none"
    /\ \A seen : Intention("nz_commit", seen) = "NORMALIZING"
    /\ \A seen : Intention("up_commit", seen) = "UPLOADING"
    /\ \A seen : \A label \in { "put", "cp_commit" } : Intention(label, seen) = "COMPLETED"
    /\ \A seen : Intention("cp_read", seen) =
         IF seen # Expired /\ CanMove(seen, "COMPLETED") THEN "COMPLETED" ELSE "none"
  BY DEF Intention, Unconcerned

\* What a request intends, and what it intends next.
Now(r) == Intention(npc[r], local[r].seen)

\* What a step of a request does to the row and to its own intent.
RequestMoves(r) ==
    \/ status' = status /\ Now(r)' \in { Now(r), "none" }
    \/ RowExists /\ status' = status /\ Now(r)' \in JobStatus /\ CanMove(status, Now(r)')
    \/ /\ RowExists /\ Now(r) # "none" /\ status' = Now(r)
       /\ Now(r)' # "none" => Now(r)' \in JobStatus /\ CanMove(status', Now(r)')

\* Every step of a request does that.
LEMMA RequestRowMoves ==
    ASSUME RequestTypes, NEW r \in NormRequests, RequestStep(r)
    PROVE  RequestMoves(r)
<1> DEFINE l == local[r]
<1>t. /\ npc \in [NormRequests -> NLabels] /\ local \in [NormRequests -> LocalTypes]
      /\ l \in LocalTypes /\ Fits(npc[r], l)
  BY DEF RequestTypes
<1>x. /\ CanMove("UPLOADING", "COMPLETED")
      /\ { "NORMALIZING", "UPLOADING", "COMPLETED" } \subseteq JobStatus
  BY DEF CanMove, VALID_TRANSITIONS, TERMINAL_STATES, JobStatus
<1>q. ASSUME npc'[r] \in Unconcerned, status' = status PROVE RequestMoves(r)
  BY <1>q, IntentionLemma DEF RequestMoves, Now
<1>f. ASSUME Fail(r) \/ (\E uploaded : AnswerWith(r, uploaded)), status' = status
      PROVE  RequestMoves(r)
  <2>1. npc'[r] \in Unconcerned
    BY <1>f, <1>t DEF Fail, AnswerWith, NGoto, Unconcerned
  <2> QED
    BY <1>f, <1>q, <2>1
<1> USE <1>t DEF NGoto
<1>1. ASSUME NEW options \in NormOptions, NormRequest(r, options) PROVE RequestMoves(r)
  BY <1>1, <1>q DEF NormRequest, Unconcerned, store, row
<1>2. CASE ReadJob(r)
  <2>1. CASE RowExists
    <3>1. /\ npc[r] = "read" /\ npc'[r] = "mkdir" /\ local'[r].seen = status
          /\ status' = status /\ status \in JobStatus
      BY <1>2, <2>1 DEF ReadJob, LocalTypes, RowExists
    <3> QED
      BY <1>x, <2>1, <3>1, IntentionLemma DEF RequestMoves, Now, Unconcerned
  <2>2. CASE ~RowExists
    BY <1>2, <1>f, <2>2 DEF ReadJob
  <2> QED
    BY <2>1, <2>2
<1>18. CASE MakeDirsFails(r)
  BY <1>18, <1>f DEF MakeDirsFails
<1>3. CASE MakeDirs(r)
  <2>1. /\ npc[r] = "mkdir" /\ l.seen # Expired /\ status' = status
        /\ npc'[r] = IF CanMove(l.seen, "NORMALIZING") THEN "nz_commit" ELSE "load"
    BY <1>3 DEF MakeDirs, Fits
  <2> QED
    BY <2>1, IntentionLemma DEF RequestMoves, Now, Unconcerned
<1>4. CASE NormalizingCommit(r)
  <2>1. CASE RowExists
    <3>1. npc[r] = "nz_commit" /\ npc'[r] = "load" /\ status' = "NORMALIZING"
      BY <1>4, <2>1 DEF NormalizingCommit
    <3> QED
      BY <2>1, <3>1, IntentionLemma DEF RequestMoves, Now, Unconcerned
  <2>2. CASE ~RowExists
    BY <1>4, <1>f, <2>2 DEF NormalizingCommit
  <2> QED
    BY <2>1, <2>2
<1>5. CASE SkipType(r) \/ NormalizeType(r)
  <2>1. npc'[r] \in Unconcerned /\ status' = status
    BY <1>5 DEF SkipType, NormalizeType, Unconcerned
  <2> QED
    BY <1>q, <2>1
<1>6. CASE NormalizeTypeFails(r)
  BY <1>6, <1>f DEF NormalizeTypeFails
<1>7. ASSUME NEW t \in Tables, SaveTable(r, t) PROVE RequestMoves(r)
  <2>1. status' = status /\ (Fail(r) \/ npc'[r] \in { "load", "save" })
    BY <1>7 DEF SaveTable
  <2> QED
    BY <1>f, <1>q, <2>1 DEF Unconcerned
<1>8. CASE NormalizedCommit(r)
  <2>1. CASE RowExists /\ ~l.broken
    <3>1. /\ npc'[r] \in { "cp_read", "up_read" } /\ local'[r].seen = Expired
          /\ status' = status
      BY <1>8, <2>1 DEF NormalizedCommit, Fits
    <3> QED
      BY <3>1, IntentionLemma DEF RequestMoves, Now, Unconcerned
  <2>2. CASE ~(RowExists /\ ~l.broken)
    BY <1>8, <1>f, <2>2 DEF NormalizedCommit
  <2> QED
    BY <2>1, <2>2
<1>9. CASE UploadingRead(r)
  <2>1. /\ status' = status
        /\ local'[r].seen = IF RowExists THEN status ELSE Expired
        /\ npc'[r] = IF RowExists /\ CanMove(status, "UPLOADING") THEN "up_commit" ELSE "cp_read"
    BY <1>9 DEF UploadingRead, LocalTypes
  <2>2. CASE npc'[r] = "up_commit"
    BY <1>x, <2>1, <2>2, IntentionLemma DEF RequestMoves, Now
  <2>3. CASE npc'[r] = "cp_read"
    BY <1>x, <2>1, <2>3, IntentionLemma DEF RequestMoves, Now
  <2> QED
    BY <2>1, <2>2, <2>3
<1>10. CASE UploadingCommit(r)
  <2>1. CASE RowExists
    <3>1. npc[r] = "up_commit" /\ npc'[r] = "put" /\ status' = "UPLOADING"
      BY <1>10, <2>1 DEF UploadingCommit
    <3> QED
      BY <1>x, <2>1, <3>1, IntentionLemma DEF RequestMoves, Now
  <2>2. CASE ~RowExists
    BY <1>10, <1>f, <2>2 DEF UploadingCommit, Answer
  <2> QED
    BY <2>1, <2>2
<1>11. CASE UploadRaises(r)
  <2>1. /\ npc[r] = "put" /\ npc'[r] = "cp_read" /\ local'[r].seen = "UPLOADING"
        /\ status' = status
    BY <1>11 DEF UploadRaises, Fits, LocalTypes
  <2> QED
    BY <1>x, <2>1, IntentionLemma DEF RequestMoves, Now
<1>12. ASSUME NEW t \in Tables, NEW stored \in BOOLEAN, Put(r, t, stored) PROVE RequestMoves(r)
  <2>1. npc[r] = "put" /\ npc' = npc /\ status' = status
    BY <1>12 DEF Put
  <2> QED
    BY <2>1, IntentionLemma DEF RequestMoves, Now
<1>13. CASE UploadedCommit(r)
  <2>1. CASE RowExists
    <3>1. npc'[r] = "cp_read" /\ local'[r].seen = Expired /\ status' = status
      BY <1>13, <2>1 DEF UploadedCommit, LocalTypes
    <3> QED
      BY <3>1, IntentionLemma DEF RequestMoves, Now
  <2>2. CASE ~RowExists
    BY <1>13, <1>f, <2>2 DEF UploadedCommit
  <2> QED
    BY <2>1, <2>2
<1>14. CASE CompleteRead(r)
  <2>1. CASE RowExists /\ CanMove(Loaded(r), "COMPLETED")
    <3>1. /\ npc[r] = "cp_read" /\ npc'[r] = "cp_commit" /\ status' = status
      BY <1>14, <2>1 DEF CompleteRead
    <3>2. CASE l.seen = Expired
      BY <1>x, <2>1, <3>1, <3>2, IntentionLemma DEF RequestMoves, Now, Loaded
    <3>3. CASE l.seen # Expired
      BY <2>1, <3>1, <3>3, IntentionLemma DEF RequestMoves, Now, Loaded
    <3> QED
      BY <3>2, <3>3
  <2>2. CASE ~(RowExists /\ CanMove(Loaded(r), "COMPLETED"))
    BY <1>14, <1>f, <2>2 DEF CompleteRead, Answer
  <2> QED
    BY <2>1, <2>2
<1>15. CASE CompleteCommit(r)
  <2>1. CASE RowExists
    <3>1. npc[r] = "cp_commit" /\ npc'[r] = "cp_counts" /\ status' = "COMPLETED"
      BY <1>15, <2>1 DEF CompleteCommit
    <3> QED
      BY <2>1, <3>1, IntentionLemma DEF RequestMoves, Now, Unconcerned
  <2>2. CASE ~RowExists
    BY <1>15, <1>f, <2>2 DEF CompleteCommit, Answer
  <2> QED
    BY <2>1, <2>2
<1>16. CASE CompleteCounts(r)
  BY <1>16, <1>f DEF CompleteCounts, Answer
<1>17. CASE RequestDbError(r)
  <2>1. status' = status /\ (Fail(r) \/ Answer(r) \/ AnswerWith(r, l.ok) \/ npc'[r] = "load")
    BY <1>17 DEF RequestDbError, row
  <2> QED
    BY <1>f, <1>q, <2>1 DEF Answer, Unconcerned
<1> QED
  BY <1>1, <1>2, <1>3, <1>4, <1>5, <1>6, <1>7, <1>8, <1>9, <1>10, <1>11, <1>12, <1>13, <1>14,
     <1>15, <1>16, <1>17, <1>18
  DEF RequestStep

\* What any step does to the row and to the intents, those of requests included.
NRowMoves ==
    \/ status = "NEVER" /\ status' = "PENDING" /\ NIntent' = NIntent
    \/ RowExists /\ status' = "GONE" /\ NIntent' = NIntent
    \/ status' = status /\ \A a \in NAgents : NIntent'[a] \in { NIntent[a], "none" }
    \/ /\ RowExists /\ status' = status
       /\ \E a \in NAgents, to \in JobStatus :
            CanMove(status, to) /\ NIntent' = [NIntent EXCEPT ![a] = to]
    \/ /\ RowExists
       /\ \E a \in NAgents, next \in JobStatus \cup {"none"} :
            /\ NIntent[a] # "none" /\ status' = NIntent[a]
            /\ next # "none" => CanMove(status', next)
            /\ NIntent' = [NIntent EXCEPT ![a] = next]

\* The intents of the scan are among all of them, and a request is neither a handler nor
\* a thread.
LEMMA NAgentsLemma ==
    /\ \A a \in Agents : a \in NAgents /\ a[1] # "request"
    /\ \A r \in NormRequests :
        LET a == << "request", r >> IN a \in NAgents /\ a[1] = "request" /\ a[2] = r
    /\ \A a \in NAgents : \/ a \in Agents
                          \/ a[1] = "request" /\ a[2] \in NormRequests /\ a = << "request", a[2] >>
  BY AgentsLemma DEF NAgents

\* A step of a request moves one intent at most, its own.
LEMMA RequestsFollow ==
    ASSUME RequestTypes, NEW r \in NormRequests, RequestStep(r)
    PROVE  NRowMoves
<1> DEFINE b == << "request", r >>
<1>b. b \in NAgents /\ b[1] = "request" /\ b[2] = r
  BY NAgentsLemma
<1>1. NIntent[b] = Now(r)
  BY <1>b DEF NIntent, Now
<1>2. Intent' = Intent
  BY RequestFrame DEF ScanFrame, Intent, thread
<1>3. ASSUME NEW a \in NAgents
      PROVE  NIntent'[a] = IF a = b THEN Now(r)' ELSE NIntent[a]
  <2>1. CASE a \in Agents
    <3>1. a[1] # "request" /\ a # b
      BY <1>b, <2>1, NAgentsLemma
    <3>2. NIntent[a] = Intent[a] /\ NIntent'[a] = Intent'[a]
      BY <3>1 DEF NIntent
    <3> QED
      BY <1>2, <3>1, <3>2
  <2>2. CASE a \notin Agents
    <3>1. a[1] = "request" /\ a[2] \in NormRequests /\ (a[2] = r <=> a = b)
      BY <1>b, <2>2, NAgentsLemma
    <3>2. /\ NIntent[a] = Intention(npc[a[2]], local[a[2]].seen)
          /\ NIntent'[a] = Intention(npc'[a[2]], local'[a[2]].seen)
      BY <3>1 DEF NIntent
    <3> QED
      BY <3>1, <3>2, OtherRequests DEF Now
  <2> QED
    BY <2>1, <2>2
<1>4. NIntent' = [NIntent EXCEPT ![b] = Now(r)']
  <2>1. NIntent' = [a \in NAgents |-> NIntent'[a]] /\ NIntent = [a \in NAgents |-> NIntent[a]]
    BY DEF NIntent
  <2> QED
    BY <1>3, <2>1
<1>5. CASE status' = status /\ Now(r)' \in { Now(r), "none" }
  BY <1>1, <1>3, <1>5 DEF NRowMoves
<1>6. CASE RowExists /\ status' = status /\ Now(r)' \in JobStatus /\ CanMove(status, Now(r)')
  BY <1>b, <1>4, <1>6 DEF NRowMoves
<1>7. CASE /\ RowExists /\ Now(r) # "none" /\ status' = Now(r)
           /\ Now(r)' # "none" => Now(r)' \in JobStatus /\ CanMove(status', Now(r)')
  BY <1>b, <1>1, <1>4, <1>7 DEF NRowMoves
<1> QED
  BY <1>5, <1>6, <1>7, RequestRowMoves DEF RequestMoves

\* A step of the scan moves what it moves without the requests.
LEMMA ScanFollows ==
    ASSUME TypeInv, NotYet, ScanOnly
    PROVE  NRowMoves
<1>i. /\ NIntent' = [a \in NAgents |-> NIntent'[a]] /\ NIntent = [a \in NAgents |-> NIntent[a]]
      /\ Intent' = [a \in Agents |-> Intent'[a]] /\ Intent = [a \in Agents |-> Intent[a]]
  BY DEF NIntent, Intent
<1>a. ASSUME NEW a \in Agents PROVE NIntent[a] = Intent[a] /\ NIntent'[a] = Intent'[a]
  BY NAgentsLemma DEF NIntent
<1>r. RowMoves
  BY ScanRowMoves DEF ScanOnly
<1>1. CASE UNCHANGED << npc, local >>
  <2>1. ASSUME NEW a \in NAgents, a \notin Agents PROVE NIntent'[a] = NIntent[a]
    BY <1>1, <2>1, NAgentsLemma DEF NIntent
  <2>2. ASSUME Intent' = Intent PROVE NIntent' = NIntent
    BY <1>a, <1>i, <2>1, <2>2
  <2>3. ASSUME NEW a \in Agents, NEW to, Intent' = [Intent EXCEPT ![a] = to]
        PROVE  a \in NAgents /\ NIntent' = [NIntent EXCEPT ![a] = to]
    <3>1. ASSUME NEW b \in NAgents PROVE NIntent'[b] = IF b = a THEN to ELSE NIntent[b]
      <4>1. CASE b \in Agents
        BY <1>a, <1>i, <2>3, <4>1
      <4>2. CASE b \notin Agents
        BY <2>1, <4>2
      <4> QED
        BY <4>1, <4>2
    <3> QED
      BY <1>i, <3>1, NAgentsLemma
  <2>4. CASE status' = status /\ \A a \in Agents : Intent'[a] \in { Intent[a], "none" }
    BY <1>a, <2>1, <2>4 DEF NRowMoves
  <2> QED
    BY <1>a, <1>r, <2>2, <2>3, <2>4 DEF RowMoves, NRowMoves
<1>2. CASE /\ Crash
           /\ npc' = [r \in NormRequests |-> "idle"]
           /\ local' = [r \in NormRequests |-> NoLocals]
  <2>1. ASSUME NEW a \in NAgents PROVE NIntent'[a] = "none"
    <3>1. CASE a \in Agents
      BY <1>2, <1>a, <3>1, CrashEndsAll
    <3>2. CASE a \notin Agents
      <4>1. a[1] = "request" /\ a[2] \in NormRequests
        BY <3>2, NAgentsLemma
      <4>2. NIntent'[a] = Intention(npc'[a[2]], local'[a[2]].seen)
        BY <4>1 DEF NIntent
      <4> QED
        BY <1>2, <4>1, <4>2, IntentionLemma DEF Unconcerned
    <3> QED
      BY <3>1, <3>2
  <2> QED
    BY <1>2, <2>1, CrashEndsAll, Zenon DEF NRowMoves
<1> QED
  BY <1>1, <1>2 DEF ScanOnly

\* A move of the row is a step of UnlockedLifecycle, as MovesAreUnlocked has it for the
\* scan alone.
LEMMA NMovesAreUnlocked ==
    ASSUME NRowMoves, status' = "NEVER" => status = "NEVER"
    PROVE  [NUnlocked!Next]_(NUnlocked!uvars)
<1>s. /\ RowExists => RowState = status /\ RowState \in JobStatus
      /\ status' # "NEVER" => RowState' = status'
      /\ status' = status => RowState' = RowState
  BY DEF RowState, RowExists, JobStatus
<1>e. /\ NUnlocked!JobStatus = JobStatus
      /\ \A from, to : CanMove(from, to) => NUnlocked!CanMove(from, to)
  BY DEF JobStatus, CanMove, TERMINAL_STATES, VALID_TRANSITIONS, NUnlocked!JobStatus,
         NUnlocked!CanMove, NUnlocked!TERMINAL_STATES, NUnlocked!VALID_TRANSITIONS
<1>1. CASE status = "NEVER" /\ status' = "PENDING" /\ NIntent' = NIntent
  BY <1>1, <1>s DEF NUnlocked!Next, NUnlocked!Create, RowState
<1>2. CASE RowExists /\ status' = "GONE" /\ NIntent' = NIntent
  BY <1>2, <1>s, <1>e DEF NUnlocked!Next, NUnlocked!Delete
<1>3. CASE status' = status /\ \A a \in NAgents : NIntent'[a] \in { NIntent[a], "none" }
  <2> DEFINE S == { a \in NAgents : NIntent'[a] = "none" }
  <2>1. NIntent' = [a \in NAgents |-> IF a \in S THEN "none" ELSE NIntent[a]]
    <3>1. NIntent' = [a \in NAgents |-> NIntent'[a]]
      BY DEF NIntent
    <3> QED
      BY <1>3, <3>1
  <2>2. RowState' = RowState
    BY <1>3, <1>s
  <2> HIDE DEF S
  <2>3. S \in SUBSET NAgents
    BY DEF S
  <2>4. NUnlocked!GiveUp(S)
    BY <2>1, <2>2 DEF NUnlocked!GiveUp
  <2> QED
    BY <2>3, <2>4 DEF NUnlocked!Next
<1>4. ASSUME RowExists, status' = status, NEW a \in NAgents, NEW to \in JobStatus,
             CanMove(status, to), NIntent' = [NIntent EXCEPT ![a] = to]
      PROVE  NUnlocked!Next
  <2>1. NUnlocked!Check(a)
    BY <1>4, <1>s, <1>e DEF NUnlocked!Check
  <2> QED
    BY <2>1 DEF NUnlocked!Next
<1>5. ASSUME RowExists, NEW a \in NAgents, NEW next \in JobStatus \cup {"none"},
             NIntent[a] # "none", status' = NIntent[a],
             next # "none" => CanMove(status', next),
             NIntent' = [NIntent EXCEPT ![a] = next]
      PROVE  NUnlocked!Next
  <2>1. RowState' = NIntent[a]
    BY <1>5, <1>s DEF RowExists, JobStatus
  <2>2. NUnlocked!Write(a)
    BY <1>5, <1>s, <1>e, <2>1 DEF NUnlocked!Write
  <2> QED
    BY <2>2 DEF NUnlocked!Next
<1> QED
  BY <1>1, <1>2, <1>3, <1>4, <1>5 DEF NRowMoves

\* With any number of normalize requests beside its handlers and threads, the row of a
\* scan is still the row of UnlockedLifecycle.
THEOREM RequestsImplementUnlocked == NSpec => NFollowsUnlocked
<1>1. NInit => NotYet /\ NUnlocked!Init
  <2> SUFFICES ASSUME NInit PROVE NotYet /\ \A a \in NAgents : NIntent[a] = "none"
    BY DEF NInit, Init, NUnlocked!Init, RowState, NIntent
  <2>1. \A a \in Agents : Intent[a] = "none"
    BY HandlerIntents, ThreadIntents DEF NInit, Init, Intent, Agents, Committing
  <2>2. \A r \in NormRequests : Intention(npc[r], local[r].seen) = "none"
    BY IntentionLemma DEF NInit, Unconcerned
  <2> QED
    BY <2>1, <2>2, NAgentsLemma DEF NInit, Init, NotYet, NIntent
<1>2. NTypeInv /\ NotYet /\ [NNext]_nvars =>
        /\ [NUnlocked!Next]_(NUnlocked!uvars)
        /\ NotYet'
        /\ status' = "NEVER" => status = "NEVER"
  <2> SUFFICES ASSUME NTypeInv, NotYet, [NNext]_nvars
               PROVE  NRowMoves /\ NotYet' /\ (status' = "NEVER" => status = "NEVER")
    BY NMovesAreUnlocked
  <2>1. ASSUME NEW r \in NormRequests, RequestStep(r)
        PROVE  NRowMoves /\ NotYet' /\ (status' = "NEVER" => status = "NEVER")
    BY <2>1, RequestsFollow, RequestFrame DEF NTypeInv, ScanFrame, NotYet
  <2>2. CASE ScanOnly
    BY <2>2, ScanFollows, ScanRowMoves, FollowsRowSteps DEF NTypeInv, ScanOnly, RowSteps
  <2> QED
    BY <2>1, <2>2, NSteps
<1> QED
  BY <1>1, <1>2, NTypeInvariance, PTL DEF NSpec, NFollowsUnlocked, NUnlocked!Spec

\* The theorems about UnlockedLifecycle, with requests among its agents.
NRow == INSTANCE UnlockedProofs WITH Agents <- NAgents, state <- RowState, intent <- NIntent

\* The row they speak of is the same.
LEMMA SameNRow == NFollowsUnlocked => NRow!Spec
<1>1. NUnlocked!Init => NRow!Init
  BY DEF NUnlocked!Init, NRow!Init
<1>2. [NUnlocked!Next]_(NUnlocked!uvars) => [NRow!Next]_(NRow!uvars)
  BY DEF NUnlocked!uvars, NUnlocked!Next, NUnlocked!Create, NUnlocked!Check, NUnlocked!Write,
         NUnlocked!GiveUp, NUnlocked!Delete, NUnlocked!JobStatus, NUnlocked!CanMove,
         NUnlocked!TERMINAL_STATES, NUnlocked!VALID_TRANSITIONS,
         NRow!uvars, NRow!Next, NRow!Create, NRow!Check, NRow!Write, NRow!GiveUp, NRow!Delete,
         NRow!JobStatus, NRow!CanMove, NRow!TERMINAL_STATES, NRow!VALID_TRANSITIONS
<1> QED
  BY <1>1, <1>2, PTL DEF NFollowsUnlocked, NUnlocked!Spec, NRow!Spec

\* With requests, too, a terminal status stands once nobody is left who looked at the row
\* before it.
THEOREM TerminalStatusStandsWithRequests == NSpec => NTerminalSettles
<1>1. [NRow!Settled => RowState' = "GONE" \/ (NRow!Settled' /\ RowState' = RowState)]_(NRow!uvars)
      => [NUnlocked!Settled =>
            RowState' = "GONE" \/ (NUnlocked!Settled' /\ RowState' = RowState)]_(NUnlocked!uvars)
  BY DEF NRow!Settled, NRow!Quiet, NRow!TERMINAL_STATES, NRow!uvars,
         NUnlocked!Settled, NUnlocked!Quiet, NUnlocked!TERMINAL_STATES, NUnlocked!uvars
<1> QED
  BY <1>1, RequestsImplementUnlocked, SameNRow, NRow!SettledStays, PTL
  DEF NTerminalSettles, NUnlocked!SettledIsFinal, NRow!SettledIsFinal
===============================================================================
