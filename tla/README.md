# Formal models of the HubSpot extraction service

TLA+ models of `app/`, a FastAPI service that copies a HubSpot account's CRM
objects: a *scan* (or *job*) is started by an HTTP request, extracted page by
page on a background thread with checkpoints, can be paused, resumed, cancelled
and removed while it runs, and is normalized into tables and uploaded to MinIO.
The models are checked with TLC; theorems about them are proved with TLAPS.

1. [The system](#1-the-system)
2. [The modules](#2-the-modules)
3. [What the runs check](#3-what-the-runs-check)
4. [What is proved](#4-what-is-proved)
5. [Where the code and its comments disagree](#5-where-the-code-and-its-comments-disagree)
6. [What is left out](#6-what-is-left-out)
7. [Plan](#7-plan)

## 1. The system

| Component | State it keeps | Operations | What makes it correct |
|---|---|---|---|
| Job model, `models/job.py` | the status enum, the table of legal transitions, the terminal statuses | `is_valid_transition` | a status moves along the table; terminal statuses stay |
| Job service, `services/job_service.py` | rows of `jobs` (status, five time stamps, counts) and `job_checkpoints` | create, update status, complete, fail, cancel, pause, resume, save checkpoint, heartbeat, detect crashed, clean up, remove | every run can be detected when it dies; stamps agree with the status and with each other; no checkpoint outlives its job |
| Extraction service, `services/extraction_service.py` | one thread for each launch with its own session; `_running_tasks`; `<type>_raw.json` files | start, pause, resume, cancel, remove; the thread's loop over types and pages | nothing is skipped, a stop stops, no job is left behind in an active status, threads end |
| HubSpot client, `clients/hubspot_client.py`, and rate limiter, retry and DLQ in `resilience/` | attempt counter, last error, `failed_external_calls` rows | `get_page`, `get_associations` | the retry budget is used exactly; the dead letter tells the error |
| HubSpot authentication, `clients/hubspot_auth.py` | a cached OAuth token and its expiry | `get_access_token`, `validate_credentials`, `clear_cache` | a token from the cache has life left; one of unknown life is not trusted for ever |
| Normalization service, `services/normalization_service.py`, and MinIO client | the same job rows, the raw files, tables on disk, objects in a bucket | `normalize_scan`, `upload_normalized_data` | what the answer says of the upload is true, what a request saved stands, no job is left behind |
| Normalizers, `services/normalizers/` | none (pure) | `normalize` per object type | every record gives a row, every association a link row |
| HMAC authentication, `auth/hmac.py` | a cache of nonces, bounded by age and size | `hmac_auth_required` | the cache stays in order; a signed request is acted on once |
| Job and audit lists, `utils/pagination.py` | none | `list_jobs`, `get_audit_logs` | a client that reads to the end has seen what was there |
| Database, `database.py` | engine with a pool of 10 and an overflow of 5 | sessions | a waiting request is served in the end |
| Other routers, schemas, utilities, migrations | none of their own, or rows nothing else reads | | |

**How they interact.** A router calls the extraction service, which creates the
job through the job service and starts a thread (`asyncio.create_task` around
`asyncio.to_thread`). The thread and every request own separate database
sessions; they meet only in the job row, the checkpoint rows, the raw files and
the dictionary `_running_tasks`. The thread learns of a pause or a cancel by
reading the row between pages. The normalization endpoints move the same rows
and read the same files. Maintenance endpoints mark stale RUNNING jobs as
CRASHED and delete old jobs.

**What is hard.** A job row is never locked: PostgreSQL runs at READ COMMITTED,
an operation is a SELECT, a check in Python, and then an UPDATE whose condition
is the primary key only. So two operations on one scan interleave with lost
updates; a resume may start a second thread beside one that has not yet seen
the pause; a stale heartbeat may be that of a live thread waiting for HubSpot;
a process may crash between any two commits; an INSERT may lose to a unique
constraint and leave the session unusable; a job may be deleted under its
thread. `PROJECT.json` lists these hazards line by line, each with the
properties that would catch it.

## 2. The modules

| Module | Models | Uses |
|---|---|---|
| `JobFsm` | `JobStatus`, `TERMINAL_STATES`, `VALID_TRANSITIONS` | |
| `JobLifecycle` | abstract: what a reader of the job table may see a set of jobs do | `JobFsm` |
| `UnlockedLifecycle` | abstract: what is left of that for one row which is read, checked and written without a lock | `JobFsm`; refers to `JobLifecycle` |
| `UnlockedProofs` | theorems about `UnlockedLifecycle`, for whoever implements it | `UnlockedLifecycle`, `TLAPS` |
| `JobService` | every operation of the job service, each as one transaction, over all rows, with a clock | `JobFsm`; implements `JobLifecycle` |
| `JobServiceProofs` | theorems about `JobService` | `JobService`, `TLAPS` |
| `Extraction` | one scan: handlers and background threads, with SELECT and COMMIT apart, files, registry, faults | `JobFsm`; implements `UnlockedLifecycle` |
| `ExtractionProofs` | theorems about its types, the job row, the registry and the threads | `Extraction`, `UnlockedProofs` |
| `ExtractionDataProofs` | theorems about its pages, checkpoints, files and counts | `ExtractionProofs` |
| `Normalization` | `normalize_scan` with its files and uploads, beside everything `Extraction` does | extends `Extraction`; implements `UnlockedLifecycle` |
| `NormalizationProofs` | theorems about `Normalization`, and about the scan under it | `Normalization`, `ExtractionDataProofs` |
| `HubSpotRequest` | one retried call: answers, retries, rate limits, dead letter | |
| `NonceCache` | verification of signed requests and the cache of nonces | |
| `TokenCache` | the cache of the OAuth token, its refresh and what fails in it | |
| `AuthProofs` | theorems about both caches | `NonceCache`, `TokenCache` |
| `Listing` | a client reading a list page by page while rows come and go | |
| `Normalizers` | the loop of a normalizer over the raw records | |
| `PartsProofs` | theorems about the three | `HubSpotRequest`, `Listing`, `Normalizers` |
| `DeadLetter` | what of a payload and an error message is stored | |
| `MCJobService`, `MCExtraction`, `MCNormalization` | instances for TLC | |
| `MCParts` | the six parts `HubSpotRequest`, `NonceCache`, `TokenCache`, `Listing`, `Normalizers` and `DeadLetter`, one at a time | extends all six |

The operators introduced by a comment `Bug:` are not part of any specification.
Each is a definition of the model with a plausible mistake in it (a dropped
guard, an off-by-one, a missing stamp); put in place of the definition beside
it, it makes TLC report the property that should notice, so that no property is
true merely because nothing could break it. `PROJECT.json` pairs them.

### JobService

A column is a function on the scan ids; `"NONE"` stands for an id not yet
generated and `"GONE"` for a row deleted. Ids are `uuid4` and never reused. The
actions carry the names of the Python functions. `update_job_status` covers
`complete_job`, which calls it; `fail_job`, `cancel_job`, `pause_job`,
`resume_job` and `detect_crashed_jobs` write their status without looking at
`VALID_TRANSITIONS`, in the code and in the model, each with its own check.
The stamps are instants of the clock `now`; `Null` is SQL NULL. Cleanup and
crash detection take all the jobs that qualify in one step, with any threshold.
`normalized_at` and `minio_uploaded_at` are in `Normalization`.

`JobLifecycle` has only the status of each scan and three actions: create,
move some jobs along the legal moves, delete some. Legal moves are
`VALID_TRANSITIONS` and nothing else: that the five functions which do not
consult the table still respect it is what `FollowsLifecycle` says.

`UnlockedLifecycle` is one row without a lock, and `Agents` that work on it. `state`
is its status; `intent[a]` is the status that agent `a` has found allowed and not yet
written, or `"none"`. `Check` is the SELECT with the check, a legal move from what
`state` is *now*; `Write` is the UPDATE and COMMIT, of that status onto whatever
`state` is *then*; `GiveUp` is an operation, or all of them, ending without a write;
`Delete` needs no check. So two statuses may follow each other that the table does not
allow, but only by an overlap. `Extraction` and `Normalization` are shown to implement
it: `Intent` and `NIntent` read the intents off the places of the handlers, threads and
requests, so that no variable is added to the models for it.

### Extraction

`JobService` treats an operation as atomic; `Extraction` takes it apart, for one
scan. Its store (`status`, `heartbeat`, `ckpt`, `counts`, `raw`, ...) is what
all share; the rest are locals.

* **Handlers.** `HandlerRead` is the SELECT and the check of pause, cancel,
  resume, remove or crash detection, `WriteCommit`, `ResumeCommit` and
  `RemoveCommit` the UPDATE or DELETE with the COMMIT, whatever was committed in
  between. An UPDATE that finds no row raises; a DELETE that finds none only
  warns. A remove then deletes the data directory as `shutil.rmtree` does, file by
  file in any order (`UnlinkRaw`) and then the directory, if it is empty
  (`RemoveDir`); errors are ignored, so that anything may be left over, and a thread
  may save a file between two unlinks.
* **Launching.** `StartScan` and `ResumeCommit` commit PENDING or RESUMING and
  leave the handler at `start_launch` or `resume_launch`; a resume of a job already
  RUNNING or RESUMING comes there without a write (`ResumeAgain`). `LaunchTask` is
  what follows the COMMIT: the row is read back, and `create_task` starts a thread
  and makes the entry in `_running_tasks` (`Launch`), or something raises
  (`LaunchRaises`) because there is no event loop, the row has been deleted, or the
  reading back failed. In between the process may crash and others may run.
  `launchLost` is history: the launch last asked for has raised. A launch takes a
  worker that has not been used, so the number of `Workers` bounds the launches of a
  behaviour (`ThreadLeft`). `CallerHasLoop` says where `start_scan` and `resume_scan`
  run: the service needs the thread of an event loop, and the shipped endpoints, which
  are plain `def`, run it on a thread without one. The runs `extraction_races`,
  `extraction_faults` and `normalization` let it be either, call by call; those that
  need threads to say anything have `{TRUE}`, the service as it was meant to be called;
  `start_endpoint` has `{FALSE}`.
* **Threads.** `pc[w]` walks through `_execute_scan` and `_fetch_object_type`:
  `run` → `auth` → for each type `load_ckpt`, then for each page `check`,
  `fetch`, `ckpt_read`, `ckpt_commit`, `beat`, then `save_raw`, `type_beat` →
  `save_stats` → `normalize` → `upload` → `complete` → `complete_stats` →
  `returned` → `done`. An operation that checks before it writes has two labels,
  `x` and `x_commit`. Any exception, that of a file that cannot be written
  (`SaveRawFails`) included, goes to `failing`, which is `fail_job`; an illegal
  transition, and a stop seen, go to `returned`, which is the `finally` clause that pops
  the registry.
* **Sessions.** SQLAlchemy writes only the columns that differ from what the
  session has loaded, and does not overwrite a loaded row by a second SELECT
  while it is still referenced. `base[w]` is the checkpoint row as loaded, so a
  flush of `CheckpointCommit` mixes its columns with those another thread
  committed. A flush that fails (no row, or a second INSERT of the same key)
  leaves a session in which `fail_job` raises too, and the thread ends without a
  trace.
* **Data.** Pages are numbered and records counted in pages; the `NULL` cursor,
  which means both "first page" and "finished", is 0, which is why a resume
  fetches a finished type again. A page is assumed non-empty, and HubSpot's data
  not to change between two fetches.
* **Faults.** `Crash` ends the process with all threads and handlers and keeps
  the store, also between a handler's COMMIT and its launch; `DbError` lets any
  database call of a thread fail, with `fail_job` getting through or not (at `auth` it
  is the refresh after the COMMIT of RUNNING); `StopUnseen` is `_should_stop`, which
  answers "no" when its query fails; and a launch may fail to read its row back.
  `MaxFaults` bounds them together. `FetchFails` (retries exhausted), a failing
  authentication and a file that cannot be written are not bounded.
  `HeartbeatAges` may happen at any time, for nothing beats while a page is
  awaited: the crash detection of a live thread's job is among the behaviours.

### Normalization

`normalize_scan` runs in a thread of the server's pool with a session of its
own, on a scan in whatever status it is. `Normalization` extends `Extraction`:
`NNext` is a step of the scan, a step of a request, or the end of the process.
`npc[r]` walks through `read` → `mkdir` → `nz_commit` → for each type `load` and,
for each table, `save` → `up_read` → `up_commit` → `put` for each table →
`cp_read` → `cp_commit` → `cp_counts` → `answered`; a 404 or a 500 goes back to
`idle`.

* **The row.** `update_job_status` for NORMALIZING looks at the row as `get_job`
  loaded it, however long ago; every COMMIT expires it, and `local[r].seen` says
  which of the two holds. A refusal there, and every exception of the upload and of
  `complete_job`, is swallowed by the code. A flush that finds no row leaves a
  session in which the next statement raises, which is a 500 before
  `normalized_at` is committed and a "completed" afterwards; so does a failed call,
  which `RequestDbError` allows at every one of them. One that fails in the look at the
  row before NORMALIZING is swallowed, and the session is `broken` from then on: the files
  are saved and the answer is a 500.
* **Files and objects.** A table's contents are the pages its rows come from, and
  `{}` is no file. The raw file is read once per type (`NormalizeType`); the
  tables are saved one by one, and saving any of them may raise (`SaveTable`), for the
  directory is gone, the disk is full, or the rows do not make a Parquet table; then
  the new first table stands beside the old second one. Making the directories may
  raise as well (`MakeDirsFails`). One file or object is written at once or not at all,
  but reading a file that is being written or deleted may raise, as may the
  normalizer. Puts fail one by one and independently.
* **Removals** delete the normalized files one by one (`UnlinkTable`) and then their
  directory, if it is empty (`RemoveNormDir`). A save may fall between two unlinks, or
  come before the end of a removal that thereby leaves the directory.
* **Following the scan.** What a step of `Extraction` does to the row also
  concerns the two stamps, which are its columns and which the thread sets as it moves
  the job on (`FollowScan`); its data directory goes only after the normalized one.
* **Bounds.** `NormRequests` are requests at once, `MaxAsked` all of them.
* `stranded` remembers that a request which had moved the job to NORMALIZING
  ended without being able to move it on; `ActiveHasCarrier` excepts that case
  by name.

### The parts

These share no state with a scan or with each other. That a part has its own
module and its own `Spec` makes it readable and open to proofs; `MCParts` checks
all of them in one run, in which a behaviour is one of the part chosen at first.

**HubSpotRequest.** One action per iteration's outcome: a result, a rate limit,
an error (retryable or not), and the end of the loop with `write_to_dlq` and
`RetryExhaustedError`. `kind` chooses among the three loops of the code:
`get_page` and `get_associations`, which are alike, and `retry_call` with its
synchronous twin, which has no rate-limit branch, no dead letter, does not retry
a 5xx, and raises an error it cannot mend as it is. A rate limit sleeps and
`continue`s, which is the loop's next attempt. A `Retry-After` that `float`
accepts and `time.sleep` rejects raises inside the `try` and counts as an error
that no retry mends.

**NonceCache.** `_verify_request` has no `await`, so a request is one step:
malformed, out of date, a nonce already held, or the nonce stored and the
signature compared. Expired entries go from the front until one is not expired;
then the oldest go until there is room for one more, before the look-up. Whose
key made the signature is a part of the request. `acted` and `since` are
history. A restart empties the cache. A stamp is a time or `NotANumber`, which
`float` reads from `nan` and which no comparison finds out of date.

**TokenCache.** One client with one set of credentials of every combination.
A refresh takes time, up to `Latency`; HubSpot counts a token's life from its
grant, at some instant since the request was sent, and the client from the
arrival. `life` is history and knows the truth. An answer without `expires_in`
leaves that `Unknown`, and the client assumes half an hour. A failed refresh leaves the
cache as it was.

**Listing.** Each page is a count and a select, with inserts and deletes in
between. Rows are numbered in the order of `created_at`; equal ones, which the
database may order differently each time, are left out. `list_jobs` and
`get_audit_logs` are the same code but for their filters.

**Normalizers.** One action per turn of the loop. A record has what the loop looks
at: the id, the two places of the creation time, an owner's teams, a deal's
associations by type, and where it has a null instead of an object.

**DeadLetter.** A payload is a tree of dictionaries, lists and strings; its size
is the number of its strings, and a preview the first few of them. A string over 500
characters (`LongTexts`) is `cut` to its first 200 and a marker. `Scrub` rewrites the tree; the property reads it by another definition, `Open`.

## 3. What the runs check

| Run | Instance | States | Question |
|---|---|---|---|
| `job_service` | 2 scans, 1 type, 1 checkpoint position, clock 0..2 | 132 thousand | do the stamps, checkpoints and statuses of the job table agree after any sequence of calls, and does it implement `JobLifecycle`? |
| `extraction_races` | 2 types of 1 page, 2 launches, 2 handlers, no faults, no aging heartbeat | 2.3 million | what can concurrent requests and doubled threads do to a scan? |
| `extraction_faults` | 1 type of 2 pages or none named, 2 launches, 1 handler, 1 fault | 2.2 million | what do crashes and failed database calls do to its data? |
| `extraction_live` | 1 type of 1 page, 2 launches, 1 handler, fairness | 452 thousand | do threads end and jobs settle? |
| `normalization` | 1 type of 1 page with 2 tables, 1 launch, 1 handler, 2 requests in turn that save and may upload, 1 fault | 1.9 million | is an answer true, and does a job get stuck between its thread and a request? |
| `normalization_races` | 1 type of 2 pages with 2 tables, 2 launches, 1 handler, 2 requests in turn that save, `Races` | 7.1 million | do saved tables stand, and of which extraction are they, while a second thread writes the raw file again and a removal unlinks files? |
| `parts` | 3 retries; 3 nonces, room for 2; 2 refreshes; 5 rows, pages of 2; 2 records; 264 payloads | 237 thousand | the six parts above |
| `terminal_is_final`, `resumed_data`, `start_endpoint`, `rate_limit_budget`, `completed_upload` | | | counterexamples to what comments say, section 5 |

**job_service.** *EveryRunIsDetectable*: a RUNNING job has a heartbeat, which
crash detection needs. *StampsMatchOutcome*: `completed_at` is set exactly in
COMPLETED and `failed_at` exactly in FAILED. *DurationIsDefined*: a completed
job has a start, no later than its completion, whatever pauses and crashes came
between. *NoOrphanCheckpoint*: neither removal nor bulk cleanup leaves
checkpoints. *StartIsKept*: a start time is set once. *FollowsLifecycle*: the
refinement. Two scans let a bulk operation take one and spare another; three
instants let a stale heartbeat, a fresh one and an earlier start differ. No
operation reads the value of a checkpoint, so one position is enough.

**extraction_races** and **extraction_faults.** The races are bounded by `RacesSpec`:
no heartbeat ages, so that crash detection, which is in the faults' run, finds
nothing.
*CompletedCovers*: a COMPLETED scan has fetched every page of every type it was
asked for, each type has a file that reaches the last page and a count, across
pauses, crashes and two threads at once. It says no more of the count than that
there is one; section 5 says why.
*NoSkippedPage*: no checkpoint runs ahead of the fetching.
*RawIsSuffix*: a raw file has no hole in it.
*OverrunBounded*: once a pause or cancel is committed, and while it stands, a
thread fetches at most the one page it was at, and one more for each fault: a
look at the status that fails is taken for "go on".
*RegistryIsLive*: `_running_tasks` names no ended task; a resumed scan's entry
may be popped by the older thread, but not the other way round.
*RunningHasHeartbeat* and *NoOrphanCheckpoint* are those of `JobService` with
the operations taken apart: late commits of threads whose job was deleted
included.
*ActiveHasWorker*: without faults, a job in an active status always has a thread
at a place from which it can move it on, but for one gap (`AwaitsThread`): a PENDING or
RESUMING whose launch is still to come or has raised, as it does in the shipped
endpoints (`start_endpoint`). Launches with and without a loop follow each other in
this run. Lost INSERTs end threads silently, so that this holds needs an argument over
two threads: the one that loses the INSERT lost it to one that goes on.

*FollowsUnlocked* (in the races): the row implements `UnlockedLifecycle`. Whatever
interleaves, a status is written only by somebody who found it allowed after a status
the row really had, and a deleted row does not come back. *TerminalSettles*: once a job
is in a terminal status and nobody has an operation on it in flight, it stays there
until it is deleted, and nobody begins another. This is what holds of the comment
that `terminal_is_final` refutes, and it follows from *FollowsUnlocked* (section 4).

**extraction_live.** *ThreadsEnd*: every thread that starts ends.
*ActiveSettles*: a job does not stay active; it is paused, marked, deleted, or
ends. The fairness is `WF` of each thread's steps and of each handler's `LaunchTask`:
the operating system schedules threads, a request to HubSpot has a timeout, and a
handler that has committed does not stop there. `database.py` sets no timeout of its
own; that a database call ends is assumed of the driver and the server. No fairness is
assumed of requests, of time or of faults.

**normalization.** *UploadedIsStored*: when an answer says `uploaded_to_minio`,
every table of the request is in the bucket, whichever puts failed, whatever the
scan's thread, a removal or a failed call did meanwhile.
*ActiveHasCarrier* is `ActiveHasWorker` with requests in the picture: a request
moves a RUNNING job away from its thread, which then meets refusals and gives
up, and the thread may complete a job under the request; still one of them is at
a place from which it must move the job on. The exception it states is real: a
request that takes a job to NORMALIZING and then fails, or has nothing to
upload, leaves it there unless the thread is still to complete it, since
COMPLETED is not reached from NORMALIZING. *NTypeOK* has the types of the scan
with requests beside it (not of its counts, which a request replaces by counts by
table), those of the requests, and that no file lies outside a directory that
exists. *NFollowsUnlocked* is *FollowsUnlocked* with the requests among the agents, and with a
fault. They are the operations that look longest before they leap: NORMALIZING is
decided on the row as `get_job` loaded it, and an upload stands
between the check for UPLOADING and that for COMPLETED.

**normalization_races.** *SavedTablesStand*: from the COMMIT of `normalized_at` on, and
as long as the job exists, the normalized files hold the very rows of the request's
tables, and those of one type come from one reading of the raw file: a deal and its
associations are of one extraction. A thread rewrites the raw file between two saves, a
save raises over the second table, a removal unlinks files between the saves: none of
these can bring about anything else, for a failed save ends the request before it
commits, and a removal begins only when the row is gone. Overlapping requests can, and
the property is of one at a time. The run is bounded by `Races`: the handlers
pause, resume (which makes the second thread) and remove; the first request comes once both
threads are there, no handler but a removal is at work and there is a raw file, and the
second once one of the threads has ended; and no heartbeat ages. `normalization` has the
other handlers, and requests at any time. With two threads *ActiveHasCarrier* is a
theorem (section 4).

**parts.** Of the request: *RaisesOnlyWhenSpent*, *NoCallAfterTheLast*,
*DeadLetterTellsTheError*, and *EveryCallEnds* under `WF` of the request's
steps: requests time out and sleeps end. With 3 retries the last, the first and a
middle attempt are all different.
*CacheInOrder*: the nonce cache is in order of time, without a nonce twice and
within its size, which evicting from the front relies on.
*SignedRequestOnce*: a request is not acted on twice, with the four exceptions it
names: a restart, a nonce pushed out by `MaxCache - 1` later ones, a stamp
ahead of the server's clock, and a stamp that is no number. Two entries and three nonces let every order of
expiry and overflow occur.
*CachedTokenHasLife*: a token from the cache has more life left than the margin
less the longest request, so the 60 seconds of the code must exceed
`HUBSPOT_REQUEST_TIMEOUT`; of a token granted without `expires_in` nothing can be
said. *SuppliedIsRetired*: with a refresh token, the
supplied token is not used once its assumed life, less the margin, is over.
*SteadyRowsAreShown*: following `has_next` to the end shows every row that was
there all along, under any number of inserts, but for one pushed off between the
count and the select of the last page. *NoEmptyPage*: without deletions no
announced page is empty. Five rows are two full pages and a part.
*RowPerRecord* and *LinksResolve*: tables are returned with a row for every
record in its place and a link row for every association, or not at all.
*NothingSensitiveStored*: a stored text stood at a place with no sensitive key
above it, previews included; every text at any other place is stored, whole or, if it is
long, cut, unless the payload is too big for that.

**Bounds.** Two threads are the least that race; two handlers let a
request be overtaken by another; two types let a thread be at one while another
is at the next, and two pages let a cursor be neither first nor last. One fault
is a crash or a failed call at any one place. Larger instances were explored once
with the same properties and no error: three launches with one handler (11
million states), two types of two pages with two handlers (8.5 million), two
faults, so that a crash hits the recovery from a crash (4.3 million), and the races
with aging heartbeats and one type (1.1 million). Deadlock is not
checked for `Extraction` and `HubSpotRequest`, where a scan removed with its
launches spent, and a call that has returned, are ends. Symmetry of threads and of
handlers is used in the safety runs only; they differ in nothing but their names.

For `normalization`, two requests in turn let the second find what the first left;
two requests at once that save and upload, with one thread and no faults, were
explored once (4.0 million states) with the same properties and no error. Deadlock is not checked for
`Normalization` and `MCParts` either, whose requests, walks and calls end.

## 4. What is proved

Every safety invariant and action property that a passing run checks is also a
theorem, for all values of the constants, except those of `DeadLetter` and the
conjunction `PartsTypeOK` (see the end of this section). A theorem speaks of the specification
the run checks, without the run's bounds: of any number of threads, handlers,
requests, types, tables, pages and faults. One argument serves for all: an
inductive invariant, one lemma that says that each step keeps it, and its proof by
actions.

### JobService

`JobServiceProofs`, for any sets of scans, types and positions and any bound of
the clock, from `NullIsNoTime`, `NullIsNoPosition` and `MaxTimeIsNat`:

| Theorem | States |
|---|---|
| `TypeCorrect` | `[]TypeOK`; no stamp lies ahead of the clock |
| `RunsAreDetectable` | `[]EveryRunIsDetectable` |
| `StampsTellOutcome` | `[]StampsMatchOutcome` |
| `DurationsAreDefined` | `[]DurationIsDefined` |
| `CheckpointsHaveJobs` | `[]NoOrphanCheckpoint` |
| `FirstStartIsKept` | `StartIsKept` |
| `ServiceImplementsLifecycle` | `FollowsLifecycle`, the refinement of `JobLifecycle` |

None of the invariants is inductive as it stands. That a completed job has a
start no later than its completion needs that one which is still RUNNING,
NORMALIZING or UPLOADING has one already (`Ran` in `RowInv`), that a job comes
to those statuses only through RUNNING (`MoveLemma`, read off the transition
table), and that no stamp is in the future (`TypeOK`), since the completion is
stamped with the present. That `completed_at` is set *exactly* in COMPLETED
needs that no row in another status has it, which a job can only keep because
COMPLETED is never left while operations are atomic: the theorem is about
`JobService`, and `terminal_is_final` shows that it is not true of interleaved
operations. `IInv` is `TypeOK` with `RowInv` and `StampInv` for each scan;
`StepInv` shows that every action keeps it for the scan it writes, and
`OtherScan` for all the others.

### Extraction

`ExtractionProofs` and `ExtractionDataProofs`, from `PagesAssumption` (at least
one page), `RequestAssumption` (a request is a sequence of types or names none),
`LoopAssumption`, `FaultAssumption` and `TaskAssumption`:

| Theorem | States |
|---|---|
| `TypeCorrect` | `[]TypeOK` |
| `RunsHaveHeartbeats` | `[]RunningHasHeartbeat` |
| `CheckpointsHaveJobs` | `[]NoOrphanCheckpoint` |
| `RegistryNamesLiveTasks` | `[]RegistryIsLive` |
| `StopsAreObeyed` | `[]OverrunBounded` |
| `ActiveJobsAreCarried` | `[]ActiveHasWorker`, whether or not a launch has its event loop |
| `FilesHaveNoHole` | `[]RawIsSuffix` |
| `CheckpointsSkipNoPage` | `[]NoSkippedPage` |
| `CompletedScansCover` | `[]CompletedCovers` |

* `TypeInv` is the types and `Placed`: a thread has the types of its scan in hand
  once it goes through them, and inside a type that one is still first among them,
  without which `Type(w)` would be the head of an empty sequence.
* `FollowsRowSteps`, `NoThreadSteps`, `Arrivals` and `OthersFollow` say once what
  any step may do to the row, to the threads and to the data. Most of the later
  proofs cite these and not the actions.
* `OverrunInv` adds to `OverrunBounded` that a thread about to fetch while a stop is
  in force has not yet used up its page.
* `CarrierInv`. `ActiveHasWorker` is not inductive: of two threads that insert the
  same checkpoint row one loses and ends without a trace, and the other must be
  known to go on. A thread whose INSERT is already lost is `Doomed`; a `Carrier` is
  one that is positioned and not doomed. Whoever writes the row it lost to is itself
  a carrier after the write (`MoversCarry`), and a carrier's step without a fault
  leaves it one (`CarriersCarryOn`). What handlers do about launches leaves things as
  they are, announces a launch, or makes one or loses it (`OthersLaunch`), and each of
  these leaves a carrier or a job that `AwaitsThread`.
* `PagesInv`: the pages every thread has in hand go up to its cursor without a hole.
* `CkptInv`: every cursor in hand, not only those in rows, is backed by fetched
  pages, and a row that a thread has loaded is still there. The second part is
  what a flush of mixed columns (`MixedColumns`) needs: one that mixes with nothing
  writes nothing, and two valid rows mix into a valid one.
* `CoverInv`: of the types asked for, a thread at work still owes those that it has
  neither fetched itself nor found whole and counted; a thread past the last type has
  written counts of all. A resumed thread, whose types may differ from those of the thread
  before, counts as covered only what it finds so.
* `NotYet`: no handler is at work on a scan that does not exist. The refinement of
  `UnlockedLifecycle` (next section) needs it: a removal may commit only where there
  is, or was, a row.
* `EndsInv`: before the scan exists there is no thread, once its row is gone no type is
  asked for, and a request removes its files only then. A job removed under its threads
  needs it.

### The row without a lock

`UnlockedProofs`, for any set of agents and without any assumption, proves what
follows from the abstract specification alone; `ExtractionProofs` and
`NormalizationProofs` prove that theirs implements it, and by instantiating
`UnlockedProofs` with their mapping have its theorems for their own row:

| Module | Theorem | States |
|---|---|---|
| `UnlockedProofs` | `SettledStays` | `SettledIsFinal` |
| | `FirstMoves` | `FirstMoveIsLegal`: a PENDING row moves only as the table allows |
| | `SerialIsLifecycle` | `Spec /\ []Alone => Lifecycle!Spec`: without overlaps it is `JobLifecycle` |
| `ExtractionProofs` | `ScanImplementsUnlocked` | `FollowsUnlocked` |
| | `TerminalStatusStands` | `TerminalSettles` |
| | `FirstMoveOfAScan` | the same as `FirstMoves`, of a scan |
| | `SerialScansFollowTable` | a scan on which no two operations overlap implements `JobLifecycle` |
| `NormalizationProofs` | `RequestsImplementUnlocked` | `NFollowsUnlocked` |
| | `TerminalStatusStandsWithRequests` | `NTerminalSettles` |

The last but two joins the two models of the job table: `JobService` implements
`JobLifecycle` because its operations are atomic, `Extraction` does whenever they
happen not to overlap, and a lock on the row, held from the SELECT to the COMMIT, would
see to it that they never do.

No run checks `FirstMoveOfAScan`, `SerialScansFollowTable` and `NTerminalSettles`; TLC
was asked once, the first two on the instance of `extraction_faults` (the second with
every step kept from an overlap), the third on that of `normalization`, and found no
error.

* `RowInv` of `UnlockedProofs` says that nobody intends anything on a row that does
  not exist yet, and that the only intents on a PENDING row are moves the table allows
  from there; the latter is inductive because nothing leads back to PENDING. The serial
  theorem adds `Fresh`: while an agent is alone, its intent is allowed from the status
  the row has, for nobody has written in between.
* `RowMoves` says what a step of a scan does to the row and to the intents: it creates
  the row, or an agent's intent appears with a legal move from the present status, or
  an agent writes its own, or intents vanish, or the row is deleted. Handlers
  (`HandlerRowMoves`) and threads (`ThreadRowMoves`) are shown to make such steps,
  `MovesAreUnlocked` that they are those of `UnlockedLifecycle`.
* With requests, `Fits` had to be made stronger: a request still has its copy of the
  row at `mkdir` and has none from there until it has committed `normalized_at`.
  Otherwise it could come to `cp_read` with the copy of the beginning and find
  COMPLETED allowed after a status that the row has long left.

### Normalization

`NormalizationProofs`, from the above, `OptionsAssumption`, `AskedAssumption`,
`ExpiredAssumption`, `TablesAssumption` (every type has a table) and
`TablesAreOwn` (no table belongs to two types; the table names in
`services/normalizers/` are all different):

| Theorem | States |
|---|---|
| `NTypes` | `[]NTypeOK` |
| `ScanKeepsItsPromises` | under `NSpec`, `RunningHasHeartbeat`, `NoOrphanCheckpoint`, `RegistryIsLive`, `OverrunBounded`, `RawIsSuffix` and `NoSkippedPage` still hold |
| `UploadsAreStored` | `[]UploadedIsStored` |
| `SavedTablesLast` | `[]SavedTablesStand` |
| `JobsAreCarriedBetween` | `[]ActiveHasCarrier` |

* `RequestFrame` says what a request may do to a scan: nothing, but for moving an
  existing row to NORMALIZING, UPLOADING or COMPLETED, its counts and its directory.
  With it and the step lemmas of `Extraction` the scan's promises carry over;
  `CompletedCovers` does not, and is not true there (section 5).
* `UploadInv` adds to `UploadedIsStored` what a request in the middle of its puts
  has stored, as long as none has failed, and that while only one request was ever
  made no other is at work (`Alone`).
* `SavedInv`: of a request that saves, and as long as the row exists, all its tables but
  those still unsaved are on disk as made (`SavedSoFar`), and those of one type were made
  together (`MadeTogether`), which needs `TablesAreOwn`: a shared table would undo the type
  saved before. That nothing unlinks them is `RemovalsLast`: a removal is at its files
  only when the row is gone, and a row does not come back. A failed save needs no case
  of its own: the request has no locals after it.
* `BoundInv` joins `Carrier` with `Bound`, a request that *will* move the job on.
  `ActiveHasCarrier` alone is not inductive: a request at `load` in a job that is
  NORMALIZING is bound to move it only if it moved it there itself (`moved`), and one
  about to complete an UPLOADING job only if the row as it has loaded it allows that
  (`Loaded`).

### The parts

`PartsProofs`, and `AuthProofs` for the nonces and the token:

| Theorem | States | Assumes |
|---|---|---|
| `RequestsAreBounded` | `[]TypeOK` of `HubSpotRequest` | `MaxRetriesIsNat`, `HasDbIsBoolean` |
| `LoopsRaiseOnlyWhenSpent` | `[]RaisesOnlyWhenSpent` | |
| `NothingAfterTheLast` | `[]NoCallAfterTheLast` | |
| `DeadLettersTellTheError` | `[]DeadLetterTellsTheError` | |
| `NonceTypes`, `CacheStaysInOrder` | `[]NonceTypeOK`, `[]CacheInOrder` | `AgeAssumption`, `CacheAssumption` (room for one nonce), `NowAssumption`, `EngineerAssumption`, `NanAssumption` |
| `SignedRequestsActOnce` | `SignedRequestOnce`, an action property | |
| `TokenTypes`, `CachedTokensHaveLife`, `SuppliedTokenIsRetired` | `[]TokenTypeOK`, `[]CachedTokenHasLife`, `[]SuppliedIsRetired` | `MarginAssumption`, `GrantsAssumption`, `TokenBounds`, `UnknownAssumption`, `NoTokenIsNone` |
| `ListTypes`, `SteadyRowsShown`, `NoPageIsEmpty` | `[]ListTypeOK`, `[]SteadyRowsAreShown`, `[]NoEmptyPage` | `PageSizeAssumption`, `RowBounds` |
| `NormTypes`, `RecordsHaveRows`, `LinksAreAssociations` | `[]NormTypeOK`, `[]RowPerRecord`, `[]LinksResolve` | `MaxRecordsAssumption`, `ListsAssumption` (associations come as lists) |

`LoopInv` ties the loop's variable to the answers there were, all of which were
ones to try again after; `LetterInv` says that `last_error` is the latest one all along.
`CacheInv` has the order and the size of the cache. `KeptInv` follows the nonce of each
request acted on: it is still in the cache, and at most `since` entries lie behind
it, or one of the exceptions holds; `SurvivesLemma` takes it through the two
evictions. `TokenInv` says how the entry's expiry relates to the token's true
life: they differ by the time an answer takes, hence the margin. `WalkInv`:
as long as nothing is deleted the table is `1..newest`, so a row's place is known, and
what lies before the page asked for was shown. `NormalizerInv` says of the tables so
far what the properties say of the returned ones: as many rows as records, and each
link row as often as the records so far have it (`CountInv`). A turn of the loop adds to
both counts alike (`PlacesStep`, `LinksOfLemma`), and the rows of two lists after each
other are counted together (`RowsOfBoth`).

### Only model-checked

* Liveness: `ThreadsEnd`, `ActiveSettles`, `EveryCallEnds`. Fairness and `ENABLED`
  are beyond the proof system.
* `NothingSensitiveStored` and the type invariant of `DeadLetter`, which recurses over
  a tree: nothing can be proved in reach of a recursive operator with the installed
  provers. `PartsTypeOK` is the conjunction of the parts' type invariants, of which the
  other five are theorems.
* The counterexamples of section 5, each a single behaviour.

## 5. Where the code and its comments disagree

Each of the first five is a run whose property TLC finds violated.

* `terminal_is_final`: `models/job.py:43` says of the terminal statuses "no
  transitions out of these". A thread that has read PENDING commits RUNNING over
  a CANCELLED committed meanwhile, and a cancel in its turn overwrites COMPLETED. Both
  need an operation that looked at the row before it became terminal;
  `TerminalStatusStands` shows that nothing else can do it.
* `resumed_data`: the records of a type are in memory until its last page and
  are then written over the file, while the checkpoint is committed page by
  page. A scan paused within a type and resumed completes with the later pages
  only and reports the count of all (`extraction_service.py:265`).
* `start_endpoint`: the start endpoint is a plain `def`; `create_task` raises in
  its thread after the PENDING row was committed, and no thread ever takes the
  job (`extraction_service.py:81`). A resume has the same fate.
* `rate_limit_budget`: `hubspot_client.py:188` says that a rate limit "does NOT
  count against retry budget"; four in a row exhaust it.
* `completed_upload`: the endpoint is to "Run the normalization pipeline for a
  completed scan" (`routers/normalization.py:41`), but a COMPLETED job may not move to
  UPLOADING_TO_MINIO, so that `update_job_status` raises before the upload
  (`normalization_service.py:148`): nothing is put into the bucket and the answer is
  "completed".

Seen while modelling, with no run of their own:

* A crash in NORMALIZING or UPLOADING_TO_MINIO leaves a job which neither crash
  detection (RUNNING only) nor resume (PAUSED or CRASHED) accepts.
* A remove that deletes the directory before a late thread saves a type's file
  leaves a directory of a scan that no longer exists.
* Cleanup deletes rows and no file, though `routers/maintenance.py:32` speaks of
  both.
* A start request without `object_types` stores `None`, although
  `schemas/scan.py:16` says "Defaults to all supported types.": the thread
  raises `TypeError` and the job FAILS; if it was paused first, the resume takes
  `None` for `[]` and completes with no data.
* A finished type has a NULL cursor: a resume fetches it again and adds to the
  old count.
* A count can also be too small. A thread that is slow over its first page loads a row
  that a later thread has written on a second pass: the cursor after page 1 and four
  records. While it holds that, the later thread commits page 2 and stops. The slow one
  then flushes only its record count, 1, as its cursor is the loaded one. Whoever
  resumes has the cursor after page 2 and one record, and completes with two records
  for three pages. `CompletedCovers` therefore asks for a count and not for its value.
* A resume of a RUNNING or RESUMING job launches another thread, though
  `job_service.py:223` calls it idempotent.
* The older thread of a resumed scan pops the newer one's registry entry.
* A dead letter always says `max_retries + 1` attempts, after one call too.
* The thread's NORMALIZING and UPLOADING stages normalize and upload nothing.
* A normalize request on a RUNNING scan can take it to COMPLETED before all its pages are
  fetched; its thread then gives up at its next status change. `CompletedCovers` is
  therefore a property of `Extraction` alone.
* A request with nothing to upload leaves such a job in NORMALIZING and answers
  "completed", and `complete_job` from a request replaces the counts by type by counts
  by table.
* `minio_uploaded_at` is set after a partial upload as well.
* An object's key names the table, the organization and the day, but no scan: two
  scans of a day put their tables over each other.
* A remove can be followed by tables of the removed scan: a request that has read
  the row makes the directories again and normalizes what a late thread saved.
* `get_page` never asks for associations and `get_associations` is called by nothing,
  so the link tables of deals stay empty in practice.
* `is_retryable_exception` is documented as covering 5xx answers and does not;
  `retry_call` therefore does not retry them (`retry.py:46`).
* The placeholder for a payload over the limit holds a preview as long as the limit
  and is thus longer than it (`dlq.py:77`).
* Every thread makes an authentication client of its own, so the first-use branch of
  the cache is the one a scan takes.
* A stamp ahead of the clock is accepted for longer than its nonce is kept, one that
  reads `nan` for ever, and the nonce of a request is stored before its signature is
  compared.
* A normalize request that fails over its second table leaves new deals beside old
  associations, with `normalized_at` as an earlier request set it, until the next
  request that succeeds. *SavedTablesStand* is of requests that committed theirs.
* A table saved while a removal is at the normalized files is left over, with its
  directories, beside no job.

## 6. What is left out

Status, statistics and health endpoints, catalogs, the shapes of requests and
responses, logging, formatting and configuration do not change what the models
are about. `write_audit`, `handle_rate_limit`, `paginate_list`, `upload_file` and
`hmac_auth_optional` are called from nowhere. With `HMAC_ENABLED` off every request
is let through. Signatures and encryption are cryptography. The connection pool
needs many scans at once, where `Extraction` has one; a pool without a free
connection appears as a failed database call. HubSpot, PostgreSQL and MinIO appear
by what the code sees of them: an answer or an error, committed rows, a failed
flush. One step stands for each of these: a commit, which succeeds or fails and is
known to have done so; a bulk DELETE with its cascades; the writing of one file, which
happens or raises, so that a file torn in the middle is left out; and a thread's COMMIT
of `normalized_at` or `minio_uploaded_at` together with that of its status. `PROJECT.json` gives every component's status
and the reason.

## 7. Plan

Done, in this order: `JobFsm`, `JobLifecycle`, `JobService` with its proofs,
`Extraction`, `HubSpotRequest`, `Normalization`, `NonceCache`, `TokenCache`,
`Listing`, `Normalizers`, `DeadLetter`.

Then the proofs: `ExtractionProofs`, `ExtractionDataProofs`, those of the parts
and `NormalizationProofs`; last `UnlockedLifecycle` with `UnlockedProofs`, and the
proofs that `Extraction` and `Normalization` implement it.

Left: a pool of connections shared by several scans, with its time-outs.
