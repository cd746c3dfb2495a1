# TLA+ models of the private media upload service

This directory specifies the upload protocol of the repository: a WeChat mini
program sends a file in parts to an API server, which keeps the parts on local
disk (the *spool*), records everything in PostgreSQL, and delivers the file to
an R2 bucket in the background. The modules are written from the code in
`src/`; line references are in `PROJECT.json` (`map`).

## 1. The system

### 1.1 Server (`apps/api/src`)

| part | state it keeps | operations | talks to | what makes it hard |
|---|---|---|---|---|
| upload repository (`uploads/upload-repository.ts`) | rows of `upload_sessions`, `media_objects`, `upload_parts`, `idempotency_records`, each with a `row_version` bumped by a trigger | two-phase initialization, prepare/confirm part, complete, abort, validation abort | the service | each operation is one transaction; what is between two of them is not protected by anything but fences and statuses |
| upload service (`uploads/upload-service.ts`) | none of its own | initialize, uploadPart, complete, abort | locks, repository, spool | awaits between transactions; streams, storage and validation run concurrently |
| upload locks (`uploads/upload-concurrency.ts`) | PostgreSQL session-level advisory locks on pooled connections | exclusive gate, shared gate + part lock + slots | service, finalizer, aborter, reconciler | all try-locks; a dropped connection drops the lock unnoticed |
| finalizer (`uploads/finalizer.ts`) | `next_finalize_at` as lease and schedule | claim, HEAD, list, complete, HEAD, settle or retry | spool, R2 | leases end while the work goes on; an error of R2 says nothing about its effect |
| aborter (`uploads/aborter.ts`) | `next_abort_at` | claim, cleanup, settle | spool, R2 | settles three rows, one of them another handler's |
| reconciler, deadline scanner (`uploads/reconciler.ts`) | `locked_until` of an initialization key | claim, clean, settle; expire | spool, R2 | runs against an initializer that may still be alive |
| spool and delivery (`uploads/queued-object-storage.ts`) | a directory per upload: manifest, part files, remote state | create, write part, list, remove; deliver parts to R2 | R2 | crash between two renames; re-uploads; adoption of a remote multipart |
| history (`uploads/history-*.ts`, `cursor.ts`) | `history_hidden_at` | page, hide one, hide all received | repository's rows | touches rows without the gate; SQL and TypeScript compute the public status separately |
| retention cleaner (`uploads/retention-cleaner.ts`) | - | batch deletes | the same rows | deletes what others may still replay |
| worker supervisor (`uploads/worker-supervisor.ts`) | one loop per job | start, stop | workers | stop waits for loops |
| auth (`auth/*`) | `user_sessions` with refresh token hashes | login, refresh rotation, logout | client | lost answers, reuse detection |
| profile, admin, http, observability, config, db | - | - | - | none of their own |

### 1.2 Client (`apps/miniprogram/miniprogram`)

| part | state | operations | talks to | what makes it hard |
|---|---|---|---|---|
| app (`app.ts`) | hidden, pause generation, batch lock | hide, show, dispatch a batch, retry, delete a record | services, pages | hide and show come while either is still being worked on |
| upload runner (`services/upload-runner.ts`) | the active upload, parked chunks, pause generation | run, pause, resume, foreground | API client, chunk files, registry | callbacks of an earlier generation, a pause during a resume, late details of the server |
| completion controller (`services/completion-controller.ts`) | busy, backgrounded, pause generation | run, pause, foreground | runner | pause and foreground in any order |
| upload queue (`core/upload-queue.ts`) | items, places | run, settle | runners | a place must be refilled however a file ends |
| chunk files, resume registry | slots and files on disk; records by initialization key | create, delete, clean up; save, clear | all runners | one budget for all files, records of runs that are gone |
| API client, session store | tokens, one login and one renewal in flight | request, ensure session, renew | auth routes | concurrent expired tokens, lost answers, killed app |
| upload page | nickname review, privacy prompt, selection | type, review, submit, choose, remove, upload | platform, profile, app | verdicts without a name, late answers |
| history page | records, cursor, refresh timer, watch | load, refresh, cancel, retry, delete, clear, pause | history | overlapping requests |
| pure functions | - | progress, resume plan, reducer, validation, hash | - | boundaries |
| runtime adapters | - | - | platform | wrappers |

### 1.3 How they interact

An upload's session row goes `initiating -> uploading -> completing ->
completed`, or leaves through `aborting` to `aborted`, `expired` or `failed`,
or fails. Its writers are the request handlers (initialize, parts, complete,
abort, history), the finalizer, the aborter, the reconciler and the deadline
scanner; the retention cleaner deletes the rows of its key and parts. They
coordinate by three means that are independent of each other:

1. the *gate*, an advisory lock: shared by part requests, exclusive for the
   initializer, complete, abort and the three claiming workers. Part
   validation, the deadline scanner and history do not take it exclusively;
2. *statuses*, re-read under row locks in every transaction;
3. *fences*: a worker remembers the `row_version` its claim produced (session
   row for finalizer and aborter, idempotency row for initializer and
   reconciler), and its last transaction does nothing when it has changed.

What must be true in the end: the rows agree; a user is never told two stories;
`completed` means that R2 has the object; bytes are deleted only when nobody
needs them; every session ends.

## 2. Modules

| module | models |
|---|---|
| `UploadLifecycle` | the promise: an upload is open, then either accepted or cancelled; only an accepted upload is delivered; how it ends follows from that |
| `UploadSession` | the rows, the handlers, the workers, the gate, and what storage contains, at the level of one action per transaction and per storage call |
| `MCUploadSession` | its instances for TLC |
| `SpoolDelivery` | the bytes of one upload: part files and JSON files of its directory, interrupted and repeated part requests, and their delivery to R2 by finalizers that may overlap |
| `MCSpoolDelivery` | its instances for TLC |
| `UploadRunner`, `MCUploadRunner` | one upload of the mini program from start to result, while the app is hidden and shown |
| `UploadBatch`, `MCUploadBatch` | the uploads of the mini program together: batches, queue, chunk slots and files, registry, retry, restart |
| `UploadPage` | nickname review, privacy authorization and the selection of files |
| `HistoryView` | the history page against the server's list |
| `AuthSessions` | the client's session store against the server's `user_sessions` |
| `ServerProcess` | one API process: lock connections, worker loops, shutdown |
| `PartForm` | one part request: multipart form, stream and storage side by side |
| `MCDevice` | `UploadBatch` and `UploadPage` for TLC |
| `RowLocks` | the rows that each transaction of the service locks, in their order and strength, and who waits for whom |
| `MCService` | `HistoryView`, `AuthSessions`, `ServerProcess`, `PartForm` and `RowLocks` for TLC |
| `UploadSessionProofs` | theorems on `UploadSession`: types, agreement of the rows; claims, gates, stored bytes, the limit, final results, the refinement of `UploadLifecycle` |
| `SpoolDeliveryProofs`, `UploadRunnerProofs`, `UploadBatchProofs`, `UploadPageProofs`, `HistoryViewProofs`, `AuthSessionsProofs` | theorems on the module each is named after; `UploadPageProofs` also on `MCDevice` |
| `ServiceProofs` | theorems on `ServerProcess`, `PartForm`, `RowLocks` and `MCService` |

### 2.1 How `UploadSession` corresponds to the code

State. `session`, `media`, `idem`, `parts` are the columns that control flow
depends on. `answers` is the set of 202/410 bodies persisted for the keys of
`complete` and `abort`. `spool` says that the upload's directory exists,
`object` what HEAD of its key returns (`none`, an object with the expected size
and metadata, or another one). `initializer`, `request` and `worker` are the
local variables of running handlers: where they are, whether they hold the gate
(`gated`) and, for those that carry a fence, whether the version they remember
is still the row's (`fresh`).

* A transaction is one action: it re-reads what it tests under its row locks. That
  transactions do not wait for each other in a circle is the subject of `RowLocks`.
* `row_version` is not a number. Every action that updates a session or
  idempotency row clears `fresh` of whoever remembers that row (`Touched`),
  which is what the trigger `touch_versioned_row` does.
* Time is not a number. A timestamp is `later` or `due`; a timer action may turn
  the former into the latter in any state, so leases can end at the worst time.
* A crash of the process is `AbandonInitialization`, `DropPart` or `LeaveClaim`:
  the handler's local state and its locks vanish, the rows stay. The same
  actions stand for a refused transaction and for thrown errors.
* `LoseGate` takes the advisory lock away from a holder that goes on working.
* Storage calls are nondeterministic: refused, ambiguous (the effect may or may
  not have happened), or successful.
* Progress numbers are replaced by `received`, which says that the session's
  confirmed bytes equal its expected ones. `confirmPart` writes it: it holds exactly
  when every part row is confirmed, because prepare and confirm enforce the planned
  size of each part. The column outlives the part rows, so the public status of an
  ended upload does not change when the retention cleaner deletes them.
* The retention cleaner (`CleanerStep`) deletes the settled row of a key and the
  part rows of an ended upload, each with one statement and without a lock. The
  code asks for 7 and 90 days; here a row may be old enough at any moment, so
  nothing rests on how long the cleaner waits, only on which rows it takes.

### 2.2 How `SpoolDelivery` corresponds to the code

`UploadSession` says who may work on an upload at the same time; `SpoolDelivery`
takes that as given and opens what is a single flag there. `confirmed` are the
ETags of the part rows, `bin` and `meta` the part files and their descriptions,
`remote` is `remote.json`; an ETag identifies the bytes it was computed of, so
all four hold bytes. A file appears by a rename, so `RenamePart`, `DescribePart`
and `ConfirmPart` are the three points between which a request can end.
`QueuedR2ObjectStorage.listParts`, which reads the directory, finds or creates an
R2 multipart upload and sends the parts one by one, has one action per call or
file access; so a crash, another finalizer, an expired multipart upload or a late
answer can come between any two. R2 (`created`, `live`, `stored`, `calls`,
`object`) is external: a CompleteMultipartUpload call is sent by
`CompleteMultipart` and takes effect, or not, at any later time (`Complete`),
because its caller stops waiting after a timeout.

`InterruptedParts` names the parts whose requests may end between the file and
the row. For parts that are only ever sent in one version, that is harmless and
part of the passing run; for a part in two versions it is a flaw of the code,
shown by `spool_rewrite`. The passing run therefore says what holds for clients
whose parts never change and for clients whose requests are not cut off there;
it does not hide the third kind.

### 2.3 How the modules of the client correspond to the code

JavaScript runs one callback at a time. A step of `UploadRunner`, `UploadBatch`,
`UploadPage`, `HistoryView` and of the client in `AuthSessions` is what the code
does from one `await` or callback to the next; `wx` storage is synchronous and
belongs to the step that calls it.

`UploadRunner`. `at` is where `#runFresh` or `#execute` awaits, `pending` the
parts that still have to be sent, `part` where each `#uploadPart` awaits,
`parked` the parts whose chunk file outlived a pause, `partCall` and `call` the
requests and answers in transit. A request that failed for the client may still
be taken by the server. `gate` joins the flags that stop the sending
(`backgrounded`, `#pauseRequested`, `active.paused`), and `foreground` is where
`#resumeCurrent` awaits, with the detail it was given. App, controller and runner
each count their pauses; while an upload runs the three counters count the same
hides, so one counter stands for them. The server is `session` and `stored`: how
far the session is, and which parts it has confirmed.

`UploadBatch`. An attempt is one run of one file: what the queue thinks of it
(`item`), where its runner awaits (`work`), and its record in the registry. It
has one part, since only the points at which something shared is taken or given
back matter here. The registry is a sequence because the retry of a file whose
name and size are known picks a record by its position. `disk`, `stray` and
`stuck` are the chunk files, those half-written, and those whose deletion failed
with their slot kept. `Restart` loses all but disk, registry and server.

`UploadPage`. The platform begins reviews and says that one is over, not which;
`reviews` is what is under way, `passed` what the platform has let through. Edits,
reviews and privacy requests are numbered as in the code. A selected file is an
entry: the file and the number of the name it has, 0 being the one it was picked
with. A renaming replaces the entry by the next one; `gone` keeps the entries that
were removed, renamed or handed over. `sequence` is `{}` where
`#nicknameReviewSequence` is undefined and `{n}` where it is `n`: a review that begins
before any edit, of the nickname the session brought, has the number 0 and counts like
any other. A nickname is a number; 0 is the empty field, which is reviewed too. The
session's nickname is confirmed whenever there is one, for `updateNickname` of the server
(`auth-repository.ts:431`) is all that writes it.

`HistoryView`. A list request is sent, read by the server and answered in three
steps, so records may change between any two; the page keeps the answer's rows
and the cursor. Cancel, retry, delete and clear have the same three steps.
Leaving and entering the page (`Generation`) drops every request under way.

`AuthSessions`. A token is the number of its session row. A rotation locks its
row in one step (`RotateLocks`) and decides in another, so two rotations of one
family and the retention cleaner meet in between. `calls` are the handlers; an
answer that is lost (`AnswerDropped`) and a killed app (`AppKilled`) leave the
handler working. Time is `stale` and `overdue`, reached at any moment.

### 2.4 How the other modules of the server correspond to the code

`ServerProcess` opens the step that `UploadSession` takes as one: which advisory
locks an owner gets. A lock belongs to a connection of the lock pool; an
acquisition takes gate, part, a slot of the upload and one of the user in single
queries, any of which may fail or find its connection broken; the release unlocks
in reverse order, one query each. Locks of one connection never conflict, as in
PostgreSQL. The loops of the jobs and the shutdown are in the same module, for
the pools are closed only after both have stopped using connections.

`PartForm`. `request.parts()` (external) yields the items of the form and cannot
pass a file whose bytes nobody reads. `multi`, `inspect` and `store` are the three
promises of `UploadService.uploadPart`: the rest of the form, length, digest and
signature of the stream, and the writing of it. A stream that a failed storage has
destroyed lets the parser go on to the next item; that this is so is assumed of the
external parser, and `BodyHasReader` speaks of open streams only.

`RowLocks`. A transaction is what it locks: `wants` has one entry for each row, with
the statement's place, the table and the strength (PostgreSQL's four row-level
modes), `has` what it has got. Each transaction of the repositories and workers has a
plan (`LoginLocks` ... `ReconciliationLocks`), each statement of the retention cleaner
another. Besides `select ... for` there are the locks that no query spells out: an
UPDATE's, that of a foreign key on the row it names (the audit event's on
`actor_session_id`), that of an insert on a unique key, and those of `ON DELETE SET
NULL`. Four simplifications, each on the side of more waiting:

* rows of one statement may be locked in any order, although some have an ORDER BY;
  a join with two `for` clauses locks one table after the other, as PostgreSQL does;
* the rows a plan names may be any of the account's or, for the workers, any at all;
  which statuses lead to which statement is left out, and a transaction may end after
  each lock, so an early return, an error or a crash is a prefix of the plan;
* who else waits is not asked for: a lock is given when no holder conflicts, in any
  order, and a transaction may wait for any conflicting holder;
* an advisory lock of a token family is one more row.

Rows that a transaction has inserted itself, rows it has locked as strongly before,
and audit rows, which nobody but the cleaner touches again, do not make it wait.

These modules share no variable with one another. Each is a specification of its
own (`HistorySpec`, `AuthSpec`, ...); `MCDevice` and `MCService` extend several of
them only to let one run of TLC explore them (`side` chooses one, the others stay in
their initial states). That is why their `Init`, `Next`, `Spec` and `TypeOK` have
the module's name in front: the properties of those runs and of the theorems are
the same definitions. What a module assumes about its constants is one named
`ASSUME`, which TLC evaluates in the run and the proofs cite.

### 2.5 Properties

Of `UploadSession`:

| property | says | would break if |
|---|---|---|
| `TypeOK` | every column has a value of its enum | a reason were written as a status |
| `RowsAgree` | media, session, key and part rows tell the same story, also beside the retention cleaner | the aborter left an unfinished key behind, or the cleaner took a key in progress |
| `SchemaChecks` | no UPDATE trips a CHECK, so no worker is stuck on a row | the second transaction trusted the first |
| `OneVerdict` | "accepted", "cancelling" and "expired" exclude each other, and bind the session | an accepted upload could be aborted |
| `SingleFreshClaim` | of several claimants only one can settle | claims were not fenced |
| `CompletedIsStored` | `completed` implies a verified object; nothing is ever delivered for an upload that was not accepted | HEAD were tested for existence only |
| `SpoolKeptWhileNeeded` | a live session has its directory | an initializer that was given up could still finish |
| `NoWriterBesideOwner` | while locks hold, no request writes bytes of an accepted or claimed upload | part locks did not exclude the gate |
| `PublicStatusIsFinal` | a terminal public status never changes | a received upload could be cancelled |
| `ImplementsLifecycle` | every behaviour is one of `UploadLifecycle` | any of the above |
| `SessionLimitHolds` | a user has at most `SessionLimit` unfinished sessions | the count were off by one |
| `EverySessionSettles` | each session becomes terminal | a loop's query missed a status |
| `EveryKeyAnswered` | each initialization key is answered | the aborter left the key in progress |

Of `SpoolDelivery`:

| property | says | would break if |
|---|---|---|
| `TypeOK` | types; the delivery loop stays within the parts | the loop ran one part too far |
| `DeliveredAsConfirmed` | what R2 has is what the client was told had been received | an incomplete list of parts were completed |
| `AcceptedBytesKept` | accepted bytes are in R2 or complete in the spool | complete did not wait for part requests |
| `StoredOnce` | a late or repeated completion never changes the object | as above |
| `AcceptedIsDelivered` | an accepted upload settles once the faults end | a multipart upload that R2 dropped were retried for ever |

Of `UploadRunner` (`TypeOK` here bounds the progress baseline too):

| property | says | would break if |
|---|---|---|
| `CompletionCovered` | completion is asked for only when the server has every part, or takes none any more | the loop ended while parts were parked or in flight |
| `NoChunkLeft` | an upload that ends leaves no chunk file, unless a deletion failed | parked chunks were forgotten at the end |
| `ToldIsTrue` | "uploaded" means that the server accepted every byte, and the progress never exceeds what it has | any answer to `complete` counted as success |
| `QuietWhileHidden` | while the app is hidden no initialization, part or completion is sent | the loop did not wait for the foreground |
| `VisibleUploadEnds` | once the app stays visible the upload ends, unless its last foreground could not read the server's state | a foreground overtaken by a hide were not run again |

Of `UploadBatch` and `UploadPage`:

| property | says | would break if |
|---|---|---|
| `SlotsAccounted` | every chunk slot is that of a runner's chunk or of a failed deletion, and every file on disk has one | a failed creation kept its slot |
| `RetryHasRoom` | a retry finds room for its record even in a full registry | the record it replaces left later |
| `QueueFlows` | no file waits beside a free place, a batch has a file under way until it ends | a place were not refilled |
| `NicknameAllowed` | what is saved has passed a review or is the confirmed nickname; authorization needs consent as the user's last answer | the review begun last replaced those under way |
| `SelectionIsCurrent` | a removed or handed-over file is not selected by an older choice, nor a renamed one under its old name | removal were possible while a choice is under way |

`NicknameAllowed` excludes behaviours in which a review begins while a nickname
is being saved: `onNicknameReviewStart` (`pages/upload/index.ts:229`) ignores it,
so its verdict may be taken for that of the next review. `overlooked` records it.
The confirmed nickname needs no review of this page to be saved again: a submission of
the empty field shows it again (`:260`) and leaves the edit number as it is, so the
verdict on the empty field, if that is under way, counts for it.

Of `HistoryView`, `AuthSessions`, `ServerProcess`, `PartForm` and `RowLocks`:

| property | says | would break if |
|---|---|---|
| `RefreshAlive` | a shown page with an unfinished record has a timer or a request for the list | a failed list did not set the timer |
| `NothingSkipped` | the page has no gap between its newest record and its cursor | a refresh replaced what further pages had brought |
| `FamilyHasOneHead` | of a token family at most one token is live, none after a reuse | a rotation did not lock its family |
| `TokenSpentOnce` | without a lost answer, requests that share an expired token spend it once | each request renewed for itself |
| `OneUserPerIdentity` | racing first logins make one user | the loser's insert were kept |
| `LeasesExclude` | exclusive owner and parts exclude each other, parts within their slots | the gate were exclusive against exclusive only |
| `PooledHoldsNothing` | a connection goes back to the pool without locks, wherever the acquisition stopped | one lock were forgotten in the release |
| `ConfirmedIsWhole` | a part is confirmed only if its form, bytes, digest, signature and storage were right | a settled form counted as a good one |
| `BodyHasReader` | somebody reads the file as long as its stream is open | a rejected storage left the stream alone |
| `NoServerDeadlock` | handlers and workers never wait for each other's rows in a circle | a rotation locked its session `for update`, which the audit event of an upload would wait for |

## 3. Model checking

All runs: `tlc -workers 2 -config <cfg> <MC module>`.

| run | instance | checks | states |
|---|---|---|---|
| `session_safety` | 1 upload of 2 parts, 2 part requests, 2 workers, 2 lost locks | all safety properties, refinement | 111 163 |
| `session_limit` | 2 uploads of 1 part, 1 request, 1 worker, limit 1 | `SessionLimitHolds` | 512 731 |
| `session_liveness` | 1 upload of 1 part, 1 request, 2 workers, 1 lost lock | both liveness properties | 19 065 |
| `validation_reported` | 1 upload of 1 part | expects a violation, see 5 | |
| `abort_spool` | 1 upload of 1 part | expects a violation, see 5 | |
| `spool_delivery` | 2 parts (2 versions, 1 version), 2 part requests, 2 finalizers, 2 faults, 4 multipart uploads | safety and liveness of the delivery | 282 311 |
| `spool_rewrite` | the same, the part with 2 versions may be interrupted | expects a violation, see 5 | |
| `spool_cleanup` | the same, no faults | expects a violation, see 5 | |
| `client_upload` | 3 parts, 2 at a time, 2 hides | all properties of `UploadRunner` | 111 322 |
| `device` | batches: 3 attempts, registry of 2, 1 chunk slot, 1 restart; page: 3 edits, 3 reviews, 2 prompts, 2 files of 2 names | safety of `UploadBatch` and `UploadPage` but for their types, see 4 | 1 837 902 |
| `service` | history: 3 records, 2 of them there at first, pages of 1; sessions: 2 requests, 2 calls, 3 sessions, 2 faults, 1 event; process: 2 requests, 1 job, 2 connections, 1 broken, 2 upload slots, 1 user slot; form: 3 items, 2 allowed; rows: 2 transactions, 1 user with 2 sessions, 2 uploads of 2 parts, 1 key | safety of the other five | 1 162 698 |
| `batch_failures` | 3 files, 5 places, 2 chunk slots | expects a violation, see 5 | |

Why these bounds are enough. Uploads interact only through the limit, so one
upload shows everything else. Two parts distinguish the first part (whose bytes
are validated, and which must be confirmed before the others) from the rest. Two
part requests can meet on one part and on different ones. Two workers are needed
for a claim to be overtaken; a worker can take any job, so the two cover every
pair of jobs on one upload, and two processes as well as one. A third claimant
adds nothing that the second does not show: the older claim has lost its fence
when the next one is made. `MaxGateLosses = 2` lets both parties of such a pair
lose their lock. The runs use symmetry of uploads, requests and workers for
safety only, never for liveness.

In `spool_delivery`, two parts let a finalizer stop between parts, two finalizers
and two faults let a job be overtaken and the multipart upload expire in the same
behaviour; four multipart uploads are more than these can make the code create,
so `MaxMultiparts` never blocks a step that matters.

In `client_upload`, three parts are the first, sent alone, and two later ones in
flight together; two hides are needed for a foreground to be overtaken by the
next hide and for the generation to matter, a third repeats the second. The app
allows one part at a time; the run takes the limit that the runner itself allows,
two, and so covers both. In `device`, a registry of two and one slot are full with
two of the three attempts, so the third meets the limit that five and two are in
the program; attempts 1 and 3 are files of one name and size, so a retry can
find two records for its file. Three edits let a nickname be entered, emptied
and replaced, beside the one the session brought; two files of two names let a choice
that began before a renaming meet it. In `service`, a page of one record makes every list have a
continuation; refreshes reach all three records, see 4 for longer histories.
Three sessions are a login, a rotation and a reuse, or a login beside another's
rotation. Two slots of an upload and one of the user let the user's limit bite
before the upload's. Two transactions show every pair of plans, of which each may have
several instances of its rows; a single user makes them conflict as often as they can.
Circles of three and more are left to the theorem of section 4. Without its exception
for the retention cleaner, `NoServerDeadlock` does not hold of this instance (6).

Deadlock is checked in the runs of `UploadSession`: a finished upload can still
be sent a part request. It is not checked in the others, whose systems stop: an
upload that was delivered, has failed or has ended, a page that is gone, a
process that has closed, a form that was read, or a bound that was reached.

### Fairness

`FairSpec` assumes only what the process does by itself:

* weak fairness of a started handler or a claimed job: it goes on or gives up
  (every storage call has a timeout, every handler a `finally`);
* weak fairness of timers and of the deadline scanner, which takes no gate;
* strong fairness of finding a due row (`FinalizeClaim`, `AbortClaim`): the
  loops of `UploadWorkerSupervisor` try for ever, but the gate is a try-lock,
  so a claim may find it taken any number of times. Strong fairness assumes
  that a poll falls at some time into a moment when it is free. One request is
  in the liveness instance, so the gate is free in between; a client that keeps
  overlapping part requests going for ever would keep it shared for ever;
* strong fairness of a storage call that is retried for ever: it succeeds at
  some time. A permanent mismatch of parts or a lost manifest is outside of this
  assumption; the code retries those for ever and alerts an operator.

`FairSpec` of `UploadRunner` is weak fairness of each of four: a step of the
runner, of a part, of the foreground, of the server. Every `await` of the client
ends, because `wx.request` and `wx.uploadFile` have time-outs and a file operation
calls back; whether a call succeeds is not assumed. Nothing makes the user show
or hide the app: `VisibleUploadEnds` has this as its premise. `FairSpec` of
`UploadBatch`, used by `batch_failures`, assumes the same of its attempts.

`FairSpec` of `SpoolDelivery` is weaker: weak fairness of claims, of the steps of
a claimed job, and of the arrival of a call that was sent. Storage fails at most
`MaxFaults` times there, so no success has to be assumed.

No fairness is assumed for clients, for the loss of locks, for the retention
cleaner, or for the reconciler: sessions nobody initialized are also reached by
the deadline scanner.

## 4. Proofs

`tlapm <module>.tla` checks them: every theorem below and every lemma under it has
a proof to the last leaf. They say for all values of the constants what the runs
of section 3 say of one instance.

| theorem | property | for any |
|---|---|---|
| **`UploadSessionProofs`** | | finite set of uploads; requests, workers, parts, session limit, lost locks |
| `Typing` | `TypeOK` | |
| `RowsInvariant` | `RowsAndActors`, inductive | |
| `RowsAlwaysAgree` | `RowsAgree` | |
| `ChecksNeverTripped` | `SchemaChecks` | |
| `VerdictsAreUnique` | `OneVerdict` | |
| `ClaimsInvariant` | `ClaimsAndRows`, inductive | |
| `ClaimsAreExclusive` | `SingleFreshClaim` | |
| `CompletedIsAlwaysStored` | `CompletedIsStored` | |
| `SpoolAlwaysKept` | `SpoolKeptWhileNeeded` | |
| `OwnersAreAlone` | `NoWriterBesideOwner` | |
| `LimitHolds` | `SessionLimitHolds` | |
| `ShownIsFinal` | `PublicStatusIsFinal`, an action property | |
| `SessionsImplementLifecycle` | `ImplementsLifecycle`, the refinement of `UploadLifecycle` | |
| **`SpoolDeliveryProofs`** | | parts, contents, requests, finalizers, multipart uploads, faults; under `RewritesFinish` |
| `DeliveryInvariant` | `DeliveryInv`, inductive | |
| `DeliveryTyping` | `TypeOK` | |
| `ObjectIsConfirmed` | `DeliveredAsConfirmed` | |
| `BytesAreKept` | `AcceptedBytesKept` | |
| `ObjectStands` | `StoredOnce`, an action property | |
| **`UploadRunnerProofs`** | | parts, hides; one or two parts at a time |
| `RunnerInvariant` | `RunnerInv`, inductive | |
| `RunnerTyping` | `TypeOK` | |
| `CompletionIsCovered` | `CompletionCovered` | |
| `NoChunkIsLeft` | `NoChunkLeft` | |
| `TheTruthIsTold` | `ToldIsTrue` | |
| `HiddenIsQuiet` | `QuietWhileHidden`, an action property | |
| `GatesReopen` | `GateReopens`, for `VisibleUploadEnds` | |
| **`UploadBatchProofs`** | | attempts, unfinished uploads, chunk slots, restarts; any looks of the files |
| `BatchInvariant` | `BatchInv`, inductive | |
| `BatchTyping` | `BatchTypeOK` | |
| `SlotsAreAccounted` | `SlotsAccounted` | |
| `QueueKeepsFlowing` | `QueueFlows` | |
| `RetriesFindRoom` | `RetryHasRoom` | |
| **`UploadPageProofs`** | | edits, reviews, prompts, renamings; finite set of files |
| `PageInvariant` | `PageInv`, inductive | |
| `PageTyping` | `PageTypeOK` | |
| `NamesAreAllowed` | `NicknameAllowed` | |
| `SelectionsAreCurrent` | `SelectionIsCurrent` | |
| `DeviceComposes`, `DeviceTyping` | `MCDevice` behaves as each of its modules; its `TypeOK` | as `UploadBatch` and `UploadPage` |
| **`HistoryViewProofs`** | | records, page and refresh sizes, watched refreshes, taps |
| `HistoryInvariant` | `HistoryInv`, inductive | |
| `HistoryTyping` | `HistoryTypeOK` | |
| `PageHasNoGap` | `NothingSkipped` | under `FewNewRecords` |
| `RefreshingGoesOn` | `RefreshAlive` | under `WholePageRefreshed` |
| **`ServiceProofs`**, process | | requests, jobs, connections, uploads, parts, slots, broken connections |
| `ProcessInvariant` | `ProcessInv`, inductive | |
| `ProcessTyping` | `ProcessTypeOK` | |
| `PoolHoldsNothing` | `PooledHoldsNothing` | |
| `LeasesKeepOut` | `LeasesExclude` | |
| **`AuthSessionsProofs`** | | finite sets of requests and calls; sessions, faults, events |
| `SessionsInvariant` | `SessionsInv`, inductive | |
| `SessionsTyping` | `AuthTypeOK` | |
| `OneHead` | `FamilyHasOneHead` | |
| `OneUser` | `OneUserPerIdentity` | |
| `SpentOnce` | `TokenSpentOnce` | |
| **`ServiceProofs`**, form | | length of the form, limit of the parser |
| `FormInvariant` | `FormInv`, inductive | |
| `FormTyping` | `FormTypeOK` | |
| `ConfirmedAreWhole` | `ConfirmedIsWhole` | |
| `BodiesAreRead` | `BodyHasReader` | |
| **`ServiceProofs`**, row locks | | transactions, users, sessions, uploads, parts, keys |
| `LocksTyped` | `LocksTypeOK` | |
| `HandlersDoNotDeadlock` | `NoServerDeadlock` | |
| **`ServiceProofs`**, side by side | | as each of the five modules |
| `ServiceComposes`, `ServiceTyping` | `MCService` behaves as each of its modules; its `TypeOK` | |

### Assumptions

The theorems rest on the named `ASSUME`s of the modules. They say of the bounds
that they are numbers (of some, not 0), of the sets whose members are counted that
they are finite, and of the values that stand for "nobody" or "nothing" that they are not
members of the set they are missing from (`NoUpload`, `NoWorker`, `NoBytes`, the
owner `"none"`, and `"none"` and `"login"` for the calls of the auth routes), and
of `RowLocks` that every session and upload has a user and every session a family. The
proofs found two that had been left out: `MaxBroken` must be a number, and
`MaxEdits` not 0, for the answer of the session counts as the first edit.

The theorems on `SpoolDelivery` have one hypothesis more, `RewritesFinish`: a part
whose requests may be cut off between the file and the row is always sent with the
same bytes. It holds of the instance of `spool_delivery` and not of that of
`spool_rewrite`, whose violation is the proof that it cannot be left out; section
5 says what the code does there.

Two theorems on `HistoryView` have a hypothesis each. Both hold of the instance of
`service`, and TLC finds a counterexample on an instance without them:

* `FewNewRecords`: no more records are created while the page is open than a page
  of the list has (`PAGE_SIZE`, 20). A refresh asks for the newest records only. If
  more were added since the last one, there is a gap between its answer and what
  the page had, until the page is loaded again (2 records at first, 4 in the end,
  pages of 1).
* `WholePageRefreshed`: a refresh reaches all records (`MAX_REFRESH_PAGE_SIZE`,
  100). The controller waits for the unfinished ones among the first 100 of the
  page. If a newer record of a longer page is deleted, an unfinished one may move
  up among them, and `deleteRecord` is the one operation that does not set the
  timer (3 records, all at first, refreshes of 1). The next request for a page, or
  showing the page again, sets it.

### Arguments

None of the properties is inductive alone; each inductive invariant was first
checked by TLC on the instance of the module's run.

*Rows.* That `AbortSettle` writes a legal row depends on the reason and the key it
finds, that a verdict stays true depends on the reason it was given for.
`RowInv(u)` conjoins, for one upload, the agreement of its rows, the CHECKs, the
verdicts, and two facts that none of them states: whoever was told "cancelling"
cancelled (the reason is theirs or the deadline, never a failed validation), and
whoever was told "expired" finds the reason `expired`. `ActorInv` says that a
request or worker that is not idle works on an upload of the system. Every action
changes the rows of at most one upload, so each transaction has one step for that
upload and one, `RowFrame`, for all others. Of the key rows `RowInv` says only what
holds without a row too, for the cleaner may delete any that is settled; and it has
`received` in every status, since an upload that takes no more parts keeps the value
its last part has left (`ReceivedSteps`) while its part rows may go. No lock and no
fence appears: these properties rest on the statuses that every transaction reads again
under its row locks, and hold however many advisory locks are lost and however late a
worker is.

*Claims and bytes.* `ClaimsInv` says of each job what a claim that is still fresh
implies: an aborter's, that the session is still aborting; a reconciler's, that the
initializer has lost its fence; of an initializer about to open the session, that
its directory is there. `StoredInv` ties status, object, spool and parts together.
The lemmas of the middle part of `UploadSessionProofs` say, one variable at a time,
what any step can do to it (`StatusSteps`: a status moves along one of the listed edges,
each with what was read in that transaction, and voids the claims); preservation
follows from these and goes through no action again. The fences alone carry it:
no lock is in `ClaimsInv`.

*Gates.* `NoWriterBesideOwner` is the one property that does rest on the advisory
locks, so `GateInv` is conditional on none having been lost; who holds a gate and
who works on the upload then exclude each other. *The limit* is a cardinality: a
step adds at most the one session whose admission counted the others.

*Refinement.* `AnsweredInv` says that a verdict a client was given is one of the
abstract state's. The lemmas on status steps make each step of a session one of
`UploadLifecycle` or a stutter; all other steps leave the mapped state alone.

*Delivery.* `DeliveryInv` splits at acceptance. Before it, a confirmed part's two
files are its bytes, or a request that is alone with the part is replacing them,
and `RewritesFinish` makes the replacement harmless where it may stop half-way.
After it the rows are fixed and every list of parts anywhere (`Copies`: the spool,
`remote.json`, multipart uploads of R2, the memory of a finalizer, calls in
transit) has for each part the confirmed bytes or none. So whatever is completed
late or twice is complete and the same.

*Runner.* `CoverInv` says that while the loop runs unpaused every part is
confirmed, pending or in flight; pauses break this, and the detail applied by the
foreground that ends them mends it, which needs `GateInv` (a hidden app and a
foreground keep the gate shut) and `PartInv` (where parts can be in flight).
`ShownInv` bounds the progress by what the server has. `GateReopens` is the part of
`VisibleUploadEnds` that is safety: in a visible app whose foregrounds are through and
none has failed, no gate is shut, so whatever waits may go on. It is inductive beside
the types, since a foreground that was overtaken by a hide either ends hidden or is
followed by another one.

*Batch.* `QueueInv` counts places: the files under way never exceed the limit, and
none waits while they are below it. `#drain` starts as many files as there
are places, and no fewer while one waits: the argument looks at the last file started
and the first one that waits. `ChunkInv` says
where the runner of a file is whose chunk is on disk or could not be deleted, so that
giving a slot back never takes another's. `RecordsInv` says that no upload has two
records; with it the removal of one record frees exactly one place. `RoomInv` follows
a retry: it is alone in its batch, so from the removal of the old record on nobody
else takes the place that has become free.

*History page.* `ListsInv` says what a request of the current generation asks for: only
that for a further page has a cursor, which is still the page's. `AnswersInv` says of
an answer under way what it may miss: a record the server lists is older than all the
answer has, and then the answer is full, or newer than all of it (`Complete`). Since
records are created in order (`OrderInv`), a record that is new cannot make an older
answer incomplete. `FinalInv` lets a record leave the page only when the server has
finished or hidden it. `OldInv`, `NothingSkipped` for the records there were at first,
needs no hypothesis: no answer can lose one of these. With it, a refresh that leaves a
gap has only new records in its answer and misses another, which are more than
`FewNewRecords` allows. As in *Claims*, lemmas say one variable at a time what a step
can do (`HistorySteps`), and preservation goes through no action again. `RefreshAlive` is
inductive beside the types: every way out of a request looks at the records again.

*Upload page.* The code counts the reviews it waits for, so `ReviewInv` counts too:
`AwaitedOf` makes the bag of reviews under way a set whose cardinality is
`#nicknameReviewPendingCount`. A lone review that is not ambiguous is then that of the
field's value, unless the field shows the confirmed nickname again, which is what lets a
verdict without a name be trusted. `FilesInv`
says that an entry which has gone has an older name than a selected one of its file.

*Server process.* `StageInv` says which locks a task that has come so far has on its
connection, `ConnInv` that the connection is its own, `ExclusionInv` that no two
connections hold conflicting locks, as the database guarantees; `LeasesExclude`
counts distinct slots.

*Sessions.* `LocksInv` gives a transaction that locked its family what it has read,
`HeadInv` makes the live session the only one of its family, and `ClientInv` follows the
single renewal or login while nothing is lost. *Form.* `RouteInv` and `BytesInv` say
what each settled promise implies about the items and bytes that have arrived.

*Row locks.* The tables are not locked in one order (a logout locks session before
user, a rotation likewise, a nickname user before session), so the proof needs more
than an order of tables. `RowLocksInv` says that locks are taken in the order of the
statements (`InTurn`), that no two transactions hold conflicting ones (`Excluded`) and
that what a transaction other than the cleaner's wants is `Orderly`, which each plan is
shown to be by a lemma of its own: which strengths occur, what may follow what, and
what comes before it. `Rank` then numbers what a transaction may be waiting for, from a
token family or an identity (0) over a user to be updated (1), a session to be revoked
(2, in a family's turn 3), a user to be shared (4), media, upload, part and key (5 to
9) to the session of an audit event (10). `WaitingRaisesRank`: whoever has the lock
that a transaction waits for, and waits itself, waits at a greater rank. In a circle,
or in any set whose members all wait for members, ranks would grow without end.
Strengths matter in two places: a shared user keeps out updates only, and a session
that is revoked, `for no key update`, lets foreign keys refer to it.

*Side by side.* A step of `MCService` or `MCDevice` is one of one module and a stutter
of the others, so each of their behaviours is a behaviour of every module
(`ServiceComposes`, `DeviceComposes`): what is proved of the modules' specifications
holds of what the two runs explore, their `TypeOK` included.

### Only model-checked

* Liveness (`EverySessionSettles`, `EveryKeyAnswered`, `AcceptedIsDelivered`,
  `VisibleUploadEnds`): fairness and `ENABLED` are out of the prover's reach.
* The violations of section 5 are counterexamples, which TLC finds.

## 5. Disagreements of code and documentation

* `validation_reported`. After all parts are confirmed and before `complete`,
  part 1 can be sent again with other bytes. If their signature is wrong, the
  session is cancelled and ends `failed`, as documented. But its confirmed bytes
  equal its size, so `getDetail` (`upload-repository.ts:1403`) shows it as
  `uploaded`; `docs/api/media-upload-api.md:773` says `upload_failed`.
* `abort_spool`. The initializer creates its directory after waiting for the
  gate (`upload-service.ts:292`), without reading the session again. If the
  upload was cancelled and cleaned up while it waited, the directory is created
  after the cleanup, and no worker looks for it afterwards;
  `docs/api/media-upload-api.md:638` says that the aborter deletes it.
* `spool_rewrite`. A part that is confirmed can be sent again with other bytes;
  `uploadPart` renames them over the old file before the row changes
  (`queued-object-storage.ts:268`). If the request ends there, the row still
  names the old bytes, sending those again is answered as a replay without
  writing, and `complete` accepts on the word of the rows. The delivery then
  finds a mismatch and is retried for ever. `docs/design/upload-state-model.md:88`
  says of this crash that the database never shows as uploaded what the server
  does not have.
* `spool_cleanup`. `removeCompletedObject` (`queued-object-storage.ts:381`) looks
  for `mediaId` and `userId` in a manifest that has `mediaid` and `userid`
  (`upload-service.ts:304`), so the directory of a delivered upload is never
  removed; `docs/runbooks/manual-acceptance.md:154` expects that it is.

* `batch_failures`. All files share one `ChunkFileService` of two slots, and
  `create` does not wait for one but throws (`chunk-files.ts:143`). The queue
  starts up to five files at once, so a third one that was initialized on the
  server finds no slot, is aborted and shown as failed, although none of its own
  requests failed. `docs/design/upload-state-model.md:203` has the first five
  files of a selection created and the others follow, line 204 says that one part
  per file at a time avoids the pressure of parallel files, and
  `docs/api/media-upload-api.md:809` knows failed requests only.

Not counted as a disagreement: a finalizer that is overtaken by another one's
completion gets NOT_FOUND for its next part and fails the upload, whose object
exists. It takes a lost lock, and `docs/database/media-upload-database.md:790`
allows failing on definite evidence.

## 6. Plan

Done: the core of the server with its abstraction (`UploadSession`), the delivery
(`SpoolDelivery`), the client (`UploadRunner`, `UploadBatch`, `UploadPage`,
`HistoryView`), what both share (`AuthSessions`, `PartForm`) and the server's
process (`ServerProcess`, `RowLocks`), all model-checked; every safety property of a run and
the refinement of `UploadLifecycle` proved. What may come next:

1. The steps of the liveness arguments that are safety, as `GatesReopen` is one: of
   `AcceptedIsDelivered`, that each part of a delivery goes on to the next or ends.
2. The statements of `RowLocks` that only some statuses reach, to say which circles
   with the retention cleaner the data rules out.

### Not modelled

* `#resumeCold`, the restore coordinator and the controller's polling: the app
  never calls them, so no behaviour of the program has them.
* What a lock holder does after its connection broke is modelled where it
  matters, in `UploadSession` (`LoseGate`); `ServerProcess` breaks a connection
  only while its locks are being taken or released.
* A second termination signal and a listener that fails while the server starts.
* Of the retention cleaner, the audit rows, the sizes of its batches and the ages
  of the rows it takes.
* The retention cleaner takes many rows by one statement without an ORDER BY, so a
  circle with one of its statements is possible: its deletion of sessions beside the
  reuse of a token, which revokes the whole family, or its deletion of an old upload's
  parts beside a late `complete`, which locks them before it looks at the status.
  PostgreSQL ends one of the two, whose work is repeated or refused; `NoServerDeadlock`
  excepts these circles. Tests of the repository try four pairs of handlers by hand
  (`upload-initialize.test.ts:339`, `:502`, `upload-part.test.ts:1101`, `:1170`).
* A nickname review that begins during a save (2.5), and the replacement of one
  user by another on the same device.
* Histories longer than one refresh reads are in the model (`MaxRefresh`), but no run
  has one, for there the two properties of the page do not hold, see 4.
* Torn writes and fsync of the spool.
* Media policy, file signatures, hash and id functions (pure predicates; their
  verdicts are inputs), HTTP decoding, configuration, observability, admin pages,
  deployment, rendering, and the generated contracts.
