---------------------------- MODULE UploadSession ----------------------------
(***************************************************************************)
(* The lifecycle of one user's upload sessions: the rows that PostgreSQL   *)
(* keeps for an upload, the HTTP handlers that change them, and the        *)
(* background workers (finalizer, aborter, initialization reconciler and   *)
(* deadline scanner) that drive every session to a terminal status.        *)
(*                                                                         *)
(* A database transaction takes its row locks in one fixed order and is    *)
(* one action here.  Whatever a handler awaits BETWEEN transactions (an    *)
(* advisory lock, the spool, R2) separates two actions, so every other     *)
(* actor may run in between.                                               *)
(*                                                                         *)
(* Time is kept as what a query can tell about a timestamp: "later" (after *)
(* now), "due" (now or before) or "null".  Any timer may fire at any       *)
(* moment, whatever the durations, which includes every schedule the real  *)
(* durations allow.  A remembered row_version is kept as the Boolean "it   *)
(* still is the version of the row"; see Touched.                          *)
(***************************************************************************)
EXTENDS Naturals, FiniteSets

CONSTANTS
  Uploads,        \* the upload ids of one user
  Requests,       \* concurrent PUT part requests
  Workers,        \* background workers, of one or more API processes
  NoUpload,       \* the upload of a request or a worker that has none
  PartCount,      \* expected_part_count
  SessionLimit,   \* unfinished sessions a user may have (5 in the code)
  MaxGateLosses   \* bound: dropped lock connections in one behaviour

ASSUME UploadsAssumption == NoUpload \notin Uploads /\ IsFiniteSet(Uploads)
ASSUME PartCountAssumption == PartCount \in Nat \ {0}
ASSUME SessionLimitAssumption == SessionLimit \in Nat
ASSUME MaxGateLossesAssumption == MaxGateLosses \in Nat

VARIABLES
  session,      \* media_app.upload_sessions; received is the comparison
                \* confirmed_size_bytes = expected_size_bytes
  media,        \* media_app.media_objects.storage_status
  idem,         \* the upload.initialize row of media_app.idempotency_records
  parts,        \* media_app.upload_parts.status
  answers,      \* what clients were told by upload.complete and upload.abort
  spool,        \* the multipart directory of the upload exists on disk
  object,       \* what HEAD of the object key finds in R2
  initializer,  \* the POST /uploads handler of the upload
  request,      \* the PUT part handlers
  worker,       \* the background workers
  gateLosses    \* lock connections dropped so far

rows == <<session, media, idem, parts, answers>>
storage == <<spool, object>>
vars == <<session, media, idem, parts, answers, spool, object,
          initializer, request, worker, gateLosses>>

PartNumbers == 1..PartCount

Unfinished == {"initiating", "uploading", "aborting"}
Terminal == {"completed", "aborted", "expired", "failed"}
Status == {"absent", "initiating", "uploading", "completing", "aborting"} \union Terminal
Timestamp == {"null", "later", "due"}
Reason == {"none", "userCancelled", "expired", "validationFailed"}

Session == [status : Status, abort_reason : Reason, r2_upload_id : BOOLEAN,
            next_finalize_at : Timestamp, next_abort_at : Timestamp,
            expires_at : Timestamp, hidden : BOOLEAN, received : BOOLEAN]
Idempotency == [status : {"absent", "in_progress", "completed", "failed"},
                locked_until : Timestamp]
Initializer == [at : {"idle", "waiting", "creating", "completing", "failing", "done"},
                gated : BOOLEAN, fresh : BOOLEAN]
Request == [at : {"idle", "preparing", "storing", "confirming"},
            upload : Uploads \union {NoUpload}, part : PartNumbers \union {0},
            gated : BOOLEAN]
Worker == [job : {"none", "finalize", "abort", "reconcile"},
           at : {"idle", "head", "list", "complete", "verify", "settle", "fail",
                 "clean", "relist"},
           upload : Uploads \union {NoUpload}, gated : BOOLEAN, fresh : BOOLEAN]

AbsentSession ==
  [status |-> "absent", abort_reason |-> "none", r2_upload_id |-> FALSE,
   next_finalize_at |-> "null", next_abort_at |-> "null",
   expires_at |-> "null", hidden |-> FALSE, received |-> FALSE]
Unstarted == [at |-> "idle", gated |-> FALSE, fresh |-> FALSE]
Finished == [at |-> "done", gated |-> FALSE, fresh |-> FALSE]
IdleRequest == [at |-> "idle", upload |-> NoUpload, part |-> 0, gated |-> FALSE]
IdleWorker == [job |-> "none", at |-> "idle", upload |-> NoUpload,
               gated |-> FALSE, fresh |-> FALSE]

Init ==
  /\ session = [u \in Uploads |-> AbsentSession]
  /\ media = [u \in Uploads |-> "absent"]
  /\ idem = [u \in Uploads |-> [status |-> "absent", locked_until |-> "null"]]
  /\ parts = [u \in Uploads |-> [n \in PartNumbers |-> "absent"]]
  /\ answers = [u \in Uploads |-> {}]
  /\ spool = [u \in Uploads |-> FALSE]
  /\ object = [u \in Uploads |-> "none"]
  /\ initializer = [u \in Uploads |-> Unstarted]
  /\ request = [r \in Requests |-> IdleRequest]
  /\ worker = [w \in Workers |-> IdleWorker]
  /\ gateLosses = 0

-----------------------------------------------------------------------------
(* The session-level advisory lock of an upload ("gate"): shared by part   *)
(* requests, exclusive for everyone else.  A holder is its own connection, *)
(* and never notices when the server drops it.                             *)

HeldExclusively(u) ==
  \/ initializer[u].gated
  \/ \E w \in Workers : worker[w].upload = u /\ worker[w].gated
HeldShared(u) == \E r \in Requests : request[r].upload = u /\ request[r].gated

CanTakeExclusive_BesideParts(u) == ~HeldExclusively(u)   \* mutant: part locks do not conflict
CanTakeExclusive(u) == ~HeldExclusively(u) /\ ~HeldShared(u)

CanTakePart(u, n) ==
  /\ ~HeldExclusively(u)
  /\ ~ \E r \in Requests : request[r].upload = u /\ request[r].part = n /\ request[r].gated

(* The trigger touch_versioned_row: an UPDATE of a row makes the version   *)
(* that other actors remember for it out of date.                          *)
SessionJobs == {"finalize", "abort"}
AllJobs == {"finalize", "abort", "reconcile"}
Touched_NoTrigger(u, jobs) == worker   \* mutant: the trigger is missing
Touched(u, jobs) ==
  [w \in Workers |-> IF worker[w].upload = u /\ worker[w].job \in jobs
                     THEN [worker[w] EXCEPT !.fresh = FALSE] ELSE worker[w]]

Confirmed == {"uploaded", "verified"}

(* Every part is confirmed by its row; every part that is not n is.        *)
AllConfirmed(u) == \A n \in PartNumbers : parts[u][n] \in Confirmed
AllBut(u, n) == \A m \in PartNumbers \ {n} : parts[u][m] \in Confirmed

(* The update that schedules a session for the aborter.                    *)
Aborting(u, reason) ==
  [session[u] EXCEPT !.status = "aborting", !.abort_reason = reason, !.next_abort_at = "due"]

-----------------------------------------------------------------------------
(* POST /uploads: a first transaction, the gate, the spool directory, a    *)
(* second transaction fenced by the idempotency row's version.             *)

UnfinishedUploads == {v \in Uploads : session[v].status \in Unfinished}
UnderSessionLimit_Inclusive == Cardinality(UnfinishedUploads) <= SessionLimit   \* mutant: off by one
UnderSessionLimit == Cardinality(UnfinishedUploads) < SessionLimit

BeginInitialization(u) ==
  /\ session[u].status = "absent"
  /\ UnderSessionLimit
  /\ session' = [session EXCEPT ![u].status = "initiating", ![u].expires_at = "later"]
  /\ media' = [media EXCEPT ![u] = "pending_upload"]
  /\ idem' = [idem EXCEPT ![u] = [status |-> "in_progress", locked_until |-> "later"]]
  /\ initializer' = [initializer EXCEPT ![u] = [at |-> "waiting", gated |-> FALSE, fresh |-> TRUE]]
  /\ UNCHANGED <<parts, answers, storage, request, worker, gateLosses>>

AcquireInitializationGate(u) ==
  /\ initializer[u].at = "waiting"
  /\ CanTakeExclusive(u)
  /\ initializer' = [initializer EXCEPT ![u].at = "creating", ![u].gated = TRUE]
  /\ UNCHANGED <<rows, storage, request, worker, gateLosses>>

CreateMultipart(u) ==
  /\ initializer[u].at = "creating"
  /\ spool' = [spool EXCEPT ![u] = TRUE]
  /\ initializer' = [initializer EXCEPT ![u].at = "completing"]
  /\ UNCHANGED <<rows, object, request, worker, gateLosses>>

(* The storage refuses for certain: nothing was created.                   *)
CreateMultipartRejected(u) ==
  /\ initializer[u].at = "creating"
  /\ initializer' = [initializer EXCEPT ![u].at = "failing"]
  /\ UNCHANGED <<rows, storage, request, worker, gateLosses>>

(* An ambiguous failure: the directory may or may not be there.            *)
CreateMultipartUnknown(u) ==
  /\ initializer[u].at = "creating"
  /\ \E created \in BOOLEAN : spool' = [spool EXCEPT ![u] = created \/ spool[u]]
  /\ initializer' = [initializer EXCEPT ![u] = Finished]
  /\ UNCHANGED <<rows, object, request, worker, gateLosses>>

\* Mutants: the fence is not compared; the session row is not read again.
Initializing_Unfenced(u) ==
  session[u].status = "initiating" /\ media[u] = "pending_upload" /\ idem[u].status = "in_progress"
Initializing_StaleSession(u) ==
  initializer[u].fresh /\ media[u] = "pending_upload" /\ idem[u].status = "in_progress"

Initializing(u) ==
  /\ initializer[u].fresh
  /\ session[u].status = "initiating"
  /\ media[u] = "pending_upload"
  /\ idem[u].status = "in_progress"

CompleteInitialization(u) ==
  /\ initializer[u].at = "completing"
  /\ Initializing(u)
  /\ session' = [session EXCEPT ![u].status = "uploading", ![u].r2_upload_id = TRUE]
  /\ parts' = [parts EXCEPT ![u] = [n \in PartNumbers |-> "pending"]]
  /\ idem' = [idem EXCEPT ![u] = [status |-> "completed", locked_until |-> "null"]]
  /\ initializer' = [initializer EXCEPT ![u] = Finished]
  /\ worker' = Touched(u, AllJobs)
  /\ UNCHANGED <<media, answers, storage, request, gateLosses>>

FailInitialization(u) ==
  /\ initializer[u].at = "failing"
  /\ Initializing(u)
  /\ session' = [session EXCEPT ![u].status = "failed"]
  /\ media' = [media EXCEPT ![u] = "failed"]
  /\ idem' = [idem EXCEPT ![u] = [status |-> "failed", locked_until |-> "null"]]
  /\ initializer' = [initializer EXCEPT ![u] = Finished]
  /\ worker' = Touched(u, AllJobs)
  /\ UNCHANGED <<parts, answers, storage, request, gateLosses>>

(* The gate stays busy, a transaction rolls back (lost fence, disabled     *)
(* user, database error) or the process dies: nothing more is written.     *)
AbandonInitialization(u) ==
  /\ initializer[u].at \in {"waiting", "creating", "completing", "failing"}
  /\ initializer' = [initializer EXCEPT ![u] = Finished]
  /\ UNCHANGED <<rows, storage, request, worker, gateLosses>>

-----------------------------------------------------------------------------
(* PUT /uploads/:id/parts/:n                                               *)

AcquirePart(r, u, n) ==
  /\ request[r].at = "idle"
  /\ session[u].status # "absent"
  /\ CanTakePart(u, n)
  /\ request' = [request EXCEPT ![r] = [at |-> "preparing", upload |-> u, part |-> n, gated |-> TRUE]]
  /\ UNCHANGED <<rows, storage, initializer, worker, gateLosses>>

PreparePart(r) ==
  LET u == request[r].upload
      n == request[r].part
  IN /\ request[r].at = "preparing"
     /\ session[u].status = "uploading"
     /\ session[u].expires_at = "later"
     /\ parts[u][n] \in {"pending", "uploaded"}
     /\ n > 1 => parts[u][1] \in {"uploaded", "verified"}
     /\ request' = [request EXCEPT ![r].at = "storing"]
     /\ UNCHANGED <<rows, storage, initializer, worker, gateLosses>>

PreparePartExpired(r) ==
  LET u == request[r].upload
  IN /\ request[r].at = "preparing"
     /\ session[u].status = "uploading"
     /\ session[u].expires_at = "due"
     /\ session' = [session EXCEPT ![u] = Aborting(u, "expired")]
     /\ request' = [request EXCEPT ![r] = IdleRequest]
     /\ worker' = Touched(u, SessionJobs)
     /\ UNCHANGED <<media, idem, parts, answers, storage, initializer, gateLosses>>

StorePart(r) ==
  /\ request[r].at = "storing"
  /\ spool[request[r].upload]
  /\ request' = [request EXCEPT ![r].at = "confirming"]
  /\ UNCHANGED <<rows, storage, initializer, worker, gateLosses>>

(* The first part's bytes do not have the declared file signature.         *)
ScheduleValidationAbort(r) ==
  LET u == request[r].upload
  IN /\ request[r].at = "storing"
     /\ request[r].part = 1
     /\ session[u].status = "uploading"
     /\ session' = [session EXCEPT ![u] = Aborting(u, "validationFailed")]
     /\ request' = [request EXCEPT ![r] = IdleRequest]
     /\ worker' = Touched(u, SessionJobs)
     /\ UNCHANGED <<media, idem, parts, answers, storage, initializer, gateLosses>>

ConfirmPart(r) ==
  LET u == request[r].upload
      n == request[r].part
  IN /\ request[r].at = "confirming"
     /\ session[u].status = "uploading"
     /\ parts[u][n] # "verified"
     /\ parts' = [parts EXCEPT ![u][n] = "uploaded"]
     /\ session' = [session EXCEPT ![u].received = AllBut(u, n)]
     /\ request' = [request EXCEPT ![r] = IdleRequest]
     /\ worker' = Touched(u, SessionJobs)
     /\ UNCHANGED <<media, idem, answers, storage, initializer, gateLosses>>

(* A replayed part, a rejected part, a storage error or a crash.           *)
DropPart(r) ==
  /\ request[r].at # "idle"
  /\ request' = [request EXCEPT ![r] = IdleRequest]
  /\ UNCHANGED <<rows, storage, initializer, worker, gateLosses>>

-----------------------------------------------------------------------------
(* POST complete, POST abort and the history operations: the gate is held  *)
(* around one transaction.                                                 *)

(* The request's idempotency row is inserted and settled in the            *)
(* transaction: no other transaction sees it in progress.                  *)
SettleLifecycle(u, answer) == answers' = [answers EXCEPT ![u] = @ \union {answer}]

CompleteUpload(u) ==
  /\ CanTakeExclusive(u)
  /\ session[u].status = "uploading"
  /\ session[u].expires_at = "later"
  /\ AllConfirmed(u) /\ session[u].received
  /\ session' = [session EXCEPT ![u].status = "completing", ![u].next_finalize_at = "due"]
  /\ SettleLifecycle(u, "accepted")
  /\ worker' = Touched(u, SessionJobs)
  /\ UNCHANGED <<media, idem, parts, storage, initializer, request, gateLosses>>

CompleteUploadExpired(u) ==
  /\ CanTakeExclusive(u)
  /\ session[u].status = "uploading"
  /\ session[u].expires_at = "due"
  /\ session' = [session EXCEPT ![u] = Aborting(u, "expired")]
  /\ SettleLifecycle(u, "expired")
  /\ worker' = Touched(u, SessionJobs)
  /\ UNCHANGED <<media, idem, parts, storage, initializer, request, gateLosses>>

\* Mutant: an accepted upload may still be aborted.
Abortable_Accepted(u) == session[u].status \in {"initiating", "uploading", "completing"}
Abortable(u) == session[u].status \in {"initiating", "uploading"}

(* "userCancelled" stands for "replaced" as well: no statement tells them  *)
(* apart.                                                                  *)
AbortUpload(u) ==
  /\ CanTakeExclusive(u)
  /\ Abortable(u)
  /\ session' = [session EXCEPT ![u] =
       Aborting(u, IF session[u].expires_at = "due" THEN "expired" ELSE "userCancelled")]
  /\ SettleLifecycle(u, "cancelling")
  /\ worker' = Touched(u, SessionJobs)
  /\ UNCHANGED <<media, idem, parts, storage, initializer, request, gateLosses>>

(* No gate: a history operation may touch a row that a worker has claimed. *)
HideHistory(u) ==
  /\ \/ session[u].status \in {"completing", "completed", "failed"} /\ session[u].received
     \/ session[u].status \in Terminal
  /\ ~session[u].hidden
  /\ session' = [session EXCEPT ![u].hidden = TRUE]
  /\ worker' = Touched(u, SessionJobs)
  /\ UNCHANGED <<media, idem, parts, answers, storage, initializer, request, gateLosses>>

-----------------------------------------------------------------------------
(* The deadline scanner: one transaction, no gate.                         *)

\* Mutant: the scanner looks at initiating sessions only.
PastDeadline_Initiating(u) == session[u].status = "initiating" /\ session[u].expires_at = "due"
PastDeadline(u) ==
  session[u].status \in {"initiating", "uploading"} /\ session[u].expires_at = "due"

ScheduleExpiry(u) ==
  /\ PastDeadline(u)
  /\ session' = [session EXCEPT ![u] = Aborting(u, "expired")]
  /\ worker' = Touched(u, SessionJobs)
  /\ UNCHANGED <<media, idem, parts, answers, storage, initializer, request, gateLosses>>

-----------------------------------------------------------------------------
(* What the three claiming workers share.                                  *)

Advance(w, at) ==
  /\ worker' = [worker EXCEPT ![w].at = at]
  /\ UNCHANGED <<rows, storage, initializer, request, gateLosses>>

Claimed(w, u, job, at) ==
  [job |-> job, at |-> at, upload |-> u, gated |-> TRUE, fresh |-> TRUE]

Released(w, u, jobs) == [Touched(u, jobs) EXCEPT ![w] = IdleWorker]

(* "ignored": the row is no longer the claimed one; a thrown error or a    *)
(* crash ends the same way, the claim's lease has to run out.              *)
LeaveClaim(w) ==
  /\ worker[w].job # "none"
  /\ worker' = [worker EXCEPT ![w] = IdleWorker]
  /\ UNCHANGED <<rows, storage, initializer, request, gateLosses>>

-----------------------------------------------------------------------------
(* The finalizer.                                                          *)

FinalizeClaim(w, u) ==
  /\ worker[w].job = "none"
  /\ CanTakeExclusive(u)
  /\ session[u].status = "completing"
  /\ session[u].next_finalize_at = "due"
  /\ session' = [session EXCEPT ![u].next_finalize_at = "later"]
  /\ worker' = [Touched(u, SessionJobs) EXCEPT ![w] = Claimed(w, u, "finalize", "head")]
  /\ UNCHANGED <<media, idem, parts, answers, storage, initializer, request, gateLosses>>

(* loadWork still finds the claimed version, then HEAD.                    *)
FinalizeHead(w) ==
  /\ worker[w].job = "finalize" /\ worker[w].at = "head"
  /\ worker[w].fresh
  /\ Advance(w, IF object[worker[w].upload] = "none" THEN "list" ELSE "settle")

(* listParts delivers the spooled parts to R2 and returns them.            *)
FinalizeList(w) ==
  /\ worker[w].job = "finalize" /\ worker[w].at = "list"
  /\ Advance(w, "complete")

(* R2 answers for certain that the multipart upload does not exist.        *)
FinalizeListMissing(w) ==
  /\ worker[w].job = "finalize" /\ worker[w].at = "list"
  /\ Advance(w, "fail")

(* completeMultipart; an error says nothing about the object, and HEAD may *)
(* later show one whose size or metadata is not what the row expects.      *)
FinalizeComplete(w) ==
  LET u == worker[w].upload
  IN /\ worker[w].job = "finalize" /\ worker[w].at = "complete"
     /\ \/ object[u] = "none" /\ \E o \in {"match", "mismatch"} : object' = [object EXCEPT ![u] = o]
        \/ UNCHANGED object
     /\ worker' = [worker EXCEPT ![w].at = "verify"]
     /\ UNCHANGED <<rows, spool, initializer, request, gateLosses>>

FinalizeVerify(w) ==
  /\ worker[w].job = "finalize" /\ worker[w].at = "verify"
  /\ object[worker[w].upload] # "none"
  /\ Advance(w, "settle")

ObjectMatches_Exists(u) == object[u] # "none"   \* mutant: size and metadata are not compared
ObjectMatches(u) == object[u] = "match"

FinalizeSucceed(w) ==
  LET u == worker[w].upload
  IN /\ worker[w].job = "finalize" /\ worker[w].at = "settle"
     /\ ObjectMatches(u)
     /\ worker[w].fresh /\ session[u].status = "completing"
     /\ session' = [session EXCEPT ![u].status = "completed", ![u].next_finalize_at = "null"]
     /\ parts' = [parts EXCEPT ![u] = [n \in PartNumbers |-> "verified"]]
     /\ media' = [media EXCEPT ![u] = "ready"]
     /\ worker' = Released(w, u, SessionJobs)
     /\ UNCHANGED <<idem, answers, storage, initializer, request, gateLosses>>

FinalizeFail(w) ==
  LET u == worker[w].upload
  IN /\ worker[w].job = "finalize"
     /\ worker[w].at = "fail" \/ (worker[w].at = "settle" /\ ~ObjectMatches(u))
     /\ worker[w].fresh /\ session[u].status = "completing"
     /\ session' = [session EXCEPT ![u].status = "failed", ![u].next_finalize_at = "null"]
     /\ media' = [media EXCEPT ![u] = "failed"]
     /\ worker' = Released(w, u, SessionJobs)
     /\ UNCHANGED <<idem, parts, answers, storage, initializer, request, gateLosses>>

(* Any storage error, a part mismatch, no object after Complete, or an     *)
(* object without an ETag.                                                 *)
FinalizeRetry(w) ==
  LET u == worker[w].upload
  IN /\ worker[w].job = "finalize" /\ worker[w].at \in {"head", "list", "verify", "settle"}
     /\ worker[w].fresh /\ session[u].status = "completing"
     /\ session' = [session EXCEPT ![u].next_finalize_at = "later"]
     /\ worker' = Released(w, u, SessionJobs)
     /\ UNCHANGED <<media, idem, parts, answers, storage, initializer, request, gateLosses>>

-----------------------------------------------------------------------------
(* The aborter.                                                            *)

AbortClaim(w, u) ==
  /\ worker[w].job = "none"
  /\ CanTakeExclusive(u)
  /\ session[u].status = "aborting"
  /\ session[u].next_abort_at = "due"
  /\ session' = [session EXCEPT ![u].next_abort_at = "later"]
  /\ worker' = [Touched(u, SessionJobs) EXCEPT ![w] = Claimed(w, u, "abort", "clean")]
  /\ UNCHANGED <<media, idem, parts, answers, storage, initializer, request, gateLosses>>

(* loadWork, HEAD finds no object, then the multipart is aborted: the one  *)
(* the row names, or every one listed under the object key.                *)
AbortClean(w) ==
  LET u == worker[w].upload
  IN /\ worker[w].job = "abort" /\ worker[w].at = "clean"
     /\ worker[w].fresh
     /\ object[u] = "none"
     /\ spool' = [spool EXCEPT ![u] = FALSE]
     /\ worker' = [worker EXCEPT ![w].at = "settle"]
     /\ UNCHANGED <<rows, object, initializer, request, gateLosses>>

TerminalStatus_Reason(reason) == reason   \* mutant: the reason is written as the status
TerminalStatus(reason) ==
  CASE reason = "expired" -> "expired"
    [] reason = "validationFailed" -> "failed"
    [] OTHER -> "aborted"

(* An initialization nobody answered is answered by the aborter.           *)
SettledKey_Kept(u) == idem[u]   \* mutant: the key is left in progress
SettledKey(u) ==
  IF idem[u].status = "in_progress" THEN [status |-> "failed", locked_until |-> "null"] ELSE idem[u]

AbortSettle(w) ==
  LET u == worker[w].upload
      status == TerminalStatus(session[u].abort_reason)
      answers_key == SettledKey(u) # idem[u]
  IN /\ worker[w].job = "abort" /\ worker[w].at = "settle"
     /\ worker[w].fresh /\ session[u].status = "aborting"
     /\ session' = [session EXCEPT ![u].status = status, ![u].next_abort_at = "null"]
     /\ media' = [media EXCEPT ![u] = IF status = "failed" THEN "failed" ELSE "aborted"]
     /\ idem' = [idem EXCEPT ![u] = SettledKey(u)]
     /\ initializer' = [initializer EXCEPT ![u].fresh = @ /\ ~answers_key]
     /\ worker' = Released(w, u, IF answers_key THEN AllJobs ELSE SessionJobs)
     /\ UNCHANGED <<parts, answers, storage, request, gateLosses>>

AbortRetry(w) ==
  LET u == worker[w].upload
  IN /\ worker[w].job = "abort" /\ worker[w].at = "clean"
     /\ worker[w].fresh /\ session[u].status = "aborting"
     /\ session' = [session EXCEPT ![u].next_abort_at = "later"]
     /\ worker' = Released(w, u, SessionJobs)
     /\ UNCHANGED <<media, idem, parts, answers, storage, initializer, request, gateLosses>>

-----------------------------------------------------------------------------
(* The reconciler of initializations nobody finished.                      *)

ReconcileClaim(w, u) ==
  /\ worker[w].job = "none"
  /\ CanTakeExclusive(u)
  /\ media[u] = "pending_upload"
  /\ session[u].status = "initiating"
  /\ idem[u].status = "in_progress" /\ idem[u].locked_until = "due"
  /\ idem' = [idem EXCEPT ![u].locked_until = "later"]
  /\ initializer' = [initializer EXCEPT ![u].fresh = FALSE]
  /\ worker' = [Touched(u, {"reconcile"}) EXCEPT ![w] = Claimed(w, u, "reconcile", "clean")]
  /\ UNCHANGED <<session, media, parts, answers, storage, request, gateLosses>>

ReconcileClean(w) ==
  LET u == worker[w].upload
  IN /\ worker[w].job = "reconcile" /\ worker[w].at = "clean"
     /\ spool' = [spool EXCEPT ![u] = FALSE]
     /\ worker' = [worker EXCEPT ![w].at = "relist"]
     /\ UNCHANGED <<rows, object, initializer, request, gateLosses>>

ReconcileRelist(w) ==
  /\ worker[w].job = "reconcile" /\ worker[w].at = "relist"
  /\ ~spool[worker[w].upload]
  /\ Advance(w, "settle")

ReconcileSettle(w) ==
  LET u == worker[w].upload
  IN /\ worker[w].job = "reconcile" /\ worker[w].at = "settle"
     /\ media[u] = "pending_upload"
     /\ session[u].status = "initiating"
     /\ idem[u].status = "in_progress" /\ worker[w].fresh
     /\ session' = [session EXCEPT ![u].status = "failed"]
     /\ media' = [media EXCEPT ![u] = "failed"]
     /\ idem' = [idem EXCEPT ![u] = [status |-> "failed", locked_until |-> "null"]]
     /\ initializer' = [initializer EXCEPT ![u].fresh = FALSE]
     /\ worker' = Released(w, u, AllJobs)
     /\ UNCHANGED <<parts, answers, storage, request, gateLosses>>

-----------------------------------------------------------------------------
(* The retention cleaner, a process of its own: every query is a statement *)
(* without locks of the handlers.  A row may be old enough at any moment.  *)

Settled == {"completed", "failed"}   \* the statuses of a stable idempotency row

deleteStableIdempotency(u) ==
  /\ idem[u].status \in Settled
  /\ idem' = [idem EXCEPT ![u].status = "absent"]
  /\ UNCHANGED <<session, media, parts, answers, storage, initializer, request, worker, gateLosses>>

deleteTerminalUploadParts(u) ==
  /\ session[u].status \in Terminal
  /\ \E n \in PartNumbers : parts[u][n] # "absent"
  /\ parts' = [parts EXCEPT ![u] = [n \in PartNumbers |-> "absent"]]
  /\ UNCHANGED <<session, media, idem, answers, storage, initializer, request, worker, gateLosses>>

-----------------------------------------------------------------------------
(* The environment: timers run out, lock connections drop.                 *)

FinalizeDue(u) ==
  /\ session[u].next_finalize_at = "later"
  /\ session' = [session EXCEPT ![u].next_finalize_at = "due"]
  /\ UNCHANGED <<media, idem, parts, answers, storage, initializer, request, worker, gateLosses>>

AbortDue(u) ==
  /\ session[u].next_abort_at = "later"
  /\ session' = [session EXCEPT ![u].next_abort_at = "due"]
  /\ UNCHANGED <<media, idem, parts, answers, storage, initializer, request, worker, gateLosses>>

SessionExpires(u) ==
  /\ session[u].expires_at = "later"
  /\ session[u].status \in {"initiating", "uploading"}  \* nobody reads it afterwards
  /\ session' = [session EXCEPT ![u].expires_at = "due"]
  /\ UNCHANGED <<media, idem, parts, answers, storage, initializer, request, worker, gateLosses>>

InitializationLeaseEnds(u) ==
  /\ idem[u].locked_until = "later"
  /\ idem' = [idem EXCEPT ![u].locked_until = "due"]
  /\ UNCHANGED <<session, media, parts, answers, storage, initializer, request, worker, gateLosses>>

LoseGate ==
  /\ gateLosses < MaxGateLosses
  /\ gateLosses' = gateLosses + 1
  /\ \/ /\ \E u \in Uploads : initializer[u].gated /\ initializer' = [initializer EXCEPT ![u].gated = FALSE]
        /\ UNCHANGED <<request, worker>>
     \/ /\ \E r \in Requests : request[r].gated /\ request' = [request EXCEPT ![r].gated = FALSE]
        /\ UNCHANGED <<initializer, worker>>
     \/ /\ \E w \in Workers : worker[w].gated /\ worker' = [worker EXCEPT ![w].gated = FALSE]
        /\ UNCHANGED <<initializer, request>>
  /\ UNCHANGED <<rows, storage>>

-----------------------------------------------------------------------------
InitializerStep(u) ==
  \/ AcquireInitializationGate(u)
  \/ CreateMultipart(u) \/ CreateMultipartRejected(u) \/ CreateMultipartUnknown(u)
  \/ CompleteInitialization(u) \/ FailInitialization(u) \/ AbandonInitialization(u)

RequestStep(r) ==
  \/ PreparePart(r) \/ PreparePartExpired(r) \/ StorePart(r)
  \/ ScheduleValidationAbort(r) \/ ConfirmPart(r) \/ DropPart(r)

ClientStep(u) ==
  \/ CompleteUpload(u) \/ CompleteUploadExpired(u) \/ AbortUpload(u) \/ HideHistory(u)

ClaimStep(w, u) == FinalizeClaim(w, u) \/ AbortClaim(w, u) \/ ReconcileClaim(w, u)

WorkerStep(w) ==
  \/ FinalizeHead(w) \/ FinalizeList(w) \/ FinalizeListMissing(w) \/ FinalizeComplete(w)
  \/ FinalizeVerify(w) \/ FinalizeSucceed(w) \/ FinalizeFail(w) \/ FinalizeRetry(w)
  \/ AbortClean(w) \/ AbortSettle(w) \/ AbortRetry(w)
  \/ ReconcileClean(w) \/ ReconcileRelist(w) \/ ReconcileSettle(w)
  \/ LeaveClaim(w)

TimerStep(u) ==
  \/ FinalizeDue(u) \/ AbortDue(u) \/ SessionExpires(u) \/ InitializationLeaseEnds(u)

CleanerStep(u) == deleteStableIdempotency(u) \/ deleteTerminalUploadParts(u)

Next ==
  \/ \E u \in Uploads : BeginInitialization(u) \/ InitializerStep(u) \/ ClientStep(u) \/ ScheduleExpiry(u) \/ TimerStep(u)
  \/ \E u \in Uploads : CleanerStep(u)
  \/ \E r \in Requests : RequestStep(r) \/ \E u \in Uploads, n \in PartNumbers : AcquirePart(r, u, n)
  \/ \E w \in Workers : WorkerStep(w) \/ \E u \in Uploads : ClaimStep(w, u)
  \/ LoseGate

Spec == Init /\ [][Next]_vars

(* What the schedulers of the API process justify: a handler that started  *)
(* ends, timers run out, the workers' polling loops (WorkerSupervisor) try *)
(* every due row for ever, and a storage call that is retried for ever is  *)
(* answered at some time.  The gate is a try-lock, hence SF for the claims.*)
StorageAnswers(u) ==
  /\ SF_vars(\E w \in Workers : worker[w].upload = u /\ FinalizeHead(w))
  /\ SF_vars(\E w \in Workers : worker[w].upload = u /\ FinalizeList(w))
  /\ SF_vars(\E w \in Workers : worker[w].upload = u /\ FinalizeComplete(w) /\ object' # object)
  /\ SF_vars(\E w \in Workers : worker[w].upload = u /\ (FinalizeSucceed(w) \/ FinalizeFail(w)))
  /\ SF_vars(\E w \in Workers : worker[w].upload = u /\ AbortClean(w))
  /\ SF_vars(\E w \in Workers : worker[w].upload = u /\ AbortSettle(w))

Fairness ==
  /\ \A u \in Uploads :
       /\ WF_vars(InitializerStep(u))
       /\ WF_vars(ScheduleExpiry(u))
       /\ WF_vars(FinalizeDue(u)) /\ WF_vars(AbortDue(u)) /\ WF_vars(SessionExpires(u))
       /\ SF_vars(\E w \in Workers : FinalizeClaim(w, u))
       /\ SF_vars(\E w \in Workers : AbortClaim(w, u))
       /\ StorageAnswers(u)
  /\ \A r \in Requests : WF_vars(RequestStep(r))
  /\ \A w \in Workers : WF_vars(WorkerStep(w))

FairSpec == Spec /\ Fairness

-----------------------------------------------------------------------------
(* Properties.                                                             *)

(* Every variable has its type: the columns hold only values of their      *)
(* enums, and every handler is at one of its steps.                        *)
TypeOK ==
  /\ session \in [Uploads -> Session]
  /\ media \in [Uploads -> {"absent", "pending_upload", "ready", "failed", "aborted"}]
  /\ idem \in [Uploads -> Idempotency]
  /\ parts \in [Uploads -> [PartNumbers -> {"absent", "pending", "uploaded", "verified"}]]
  /\ answers \in [Uploads -> SUBSET {"accepted", "expired", "cancelling"}]
  /\ spool \in [Uploads -> BOOLEAN]
  /\ object \in [Uploads -> {"none", "match", "mismatch"}]
  /\ initializer \in [Uploads -> Initializer]
  /\ request \in [Requests -> Request]
  /\ worker \in [Workers -> Worker]
  /\ gateLosses \in 0..MaxGateLosses

(* The rows of an upload, written by seven handlers and workers and        *)
(* deleted by the cleaner in transactions of their own, always tell the    *)
(* same story: the media object is in the state its session implies, the   *)
(* answer kept for the initialization key is the one the session's history *)
(* justifies, and the size the session has received is that of its parts   *)
(* until it is settled.                                                    *)
RowsAgree ==
  \A u \in Uploads :
    LET status == session[u].status
    IN /\ media[u] = "absent" <=> status = "absent"
       /\ media[u] = "ready" <=> status = "completed"
       /\ media[u] = "failed" <=> status = "failed"
       /\ media[u] = "aborted" <=> status \in {"aborted", "expired"}
       /\ status = "absent" => idem[u].status = "absent"
       /\ idem[u].status = "completed" => session[u].r2_upload_id
       /\ session[u].r2_upload_id => idem[u].status \in {"completed", "absent"}
       /\ idem[u].status = "in_progress" => status \in {"initiating", "aborting"}
       /\ idem[u].status # "in_progress" => status # "initiating"
       /\ idem[u].status = "failed" => status \in {"failed", "aborted", "expired"}
       /\ idem[u].status = "in_progress" <=> idem[u].locked_until # "null"
       /\ status \in {"uploading", "completing"} => (session[u].received <=> AllConfirmed(u))

(* No statement of any handler trips a CHECK of upload_sessions, whichever *)
(* row it finds: a tripped CHECK rolls the transaction back and would stop *)
(* a worker on that row for ever.                                          *)
SchemaChecks ==
  \A u \in Uploads :
    LET row == session[u]
    IN /\ row.status = "completing" <=> row.next_finalize_at # "null"
       /\ row.status = "aborting" <=> row.next_abort_at # "null"
       /\ \/ row.status = "aborting" /\ row.abort_reason # "none"
          \/ row.status = "aborted" /\ row.abort_reason = "userCancelled"
          \/ row.status = "expired" /\ row.abort_reason = "expired"
          \/ row.status = "failed" /\ row.abort_reason \in {"none", "validationFailed"}
          \/ row.status \notin {"aborting", "aborted", "expired", "failed"} /\ row.abort_reason = "none"
       /\ row.status \in {"uploading", "completing", "completed"} => row.r2_upload_id
       /\ row.status = "completed" => row.received
       /\ row.hidden => row.status \in {"completing"} \union Terminal

(* A client that was told "uploaded" (complete, 202) is never also told    *)
(* "cancelling" (abort, 202) or "expired" (complete, 410), under any key,  *)
(* and what it was told is where the session goes.                         *)
Verdicts == [accepted   |-> {"completing", "completed", "failed"},
             expired    |-> {"aborting", "expired"},
             cancelling |-> {"aborting", "aborted", "expired"}]
OneVerdict ==
  \A u \in Uploads :
    /\ \A answer, other \in answers[u] : answer = other
    /\ \A answer \in answers[u] : session[u].status \in Verdicts[answer]

(* Of the workers that claimed an upload, also after gates and leases were *)
(* lost, at most one can still settle it.                                  *)
SingleFreshClaim ==
  \A v, w \in Workers :
    /\ worker[v].fresh /\ worker[w].fresh /\ worker[v].upload = worker[w].upload
    /\ worker[v].job \in SessionJobs <=> worker[w].job \in SessionJobs
    => v = w

(* A session is completed only over an object that was verified in R2, and *)
(* no object ever appears for a session that was not accepted.             *)
CompletedIsStored ==
  \A u \in Uploads :
    /\ session[u].status = "completed" => object[u] = "match"
    /\ object[u] # "none" => session[u].status \in {"completing", "completed", "failed"}

(* The spooled bytes are kept as long as the session may still need them,  *)
(* although two cleaners delete directories without a database lock.       *)
SpoolKeptWhileNeeded ==
  \A u \in Uploads : session[u].status \in {"uploading", "completing"} => spool[u]

(* While the locks hold, no request can still write bytes of an upload     *)
(* that was accepted or that a worker is cleaning up: what the finalizer   *)
(* reads is what the client confirmed.                                     *)
NoWriterBesideOwner ==
  gateLosses = 0 =>
    \A r \in Requests :
      request[r].at \in {"storing", "confirming"} =>
        /\ session[request[r].upload].status \in {"uploading", "aborting"}
        /\ \A w \in Workers : worker[w].upload # request[r].upload

(* A user never has more unfinished sessions than the limit.               *)
SessionLimitHolds == Cardinality(UnfinishedUploads) <= SessionLimit

(* What GET /uploads/:id and the history page report.                      *)
PublicStatus(u) ==
  LET status == session[u].status
      serverReceived == session[u].received /\ status \in {"completing", "completed", "failed"}
  IN IF serverReceived THEN "uploaded"
     ELSE CASE status = "aborting" -> "cancelling"
            [] status = "completing" /\ media[u] = "pending_upload" -> "finalizing"
            [] status = "completed" /\ media[u] = "ready" -> "uploaded"
            [] status \in {"aborted", "expired"} /\ media[u] = "aborted" -> status
            [] status \in {"initiating", "uploading"} /\ media[u] = "pending_upload" -> "uploading"
            [] OTHER -> "upload_failed"

(* A result the client was shown is never taken back: a terminal public    *)
(* status stays, whatever the finalizer finds later.                       *)
PublicStatusIsFinal ==
  [][\A u \in Uploads :
       session[u].status # "absent" /\ PublicStatus(u) \in {"uploaded", "aborted", "expired", "upload_failed"}
       => PublicStatus(u)' = PublicStatus(u)]_vars

(* The sessions behave as the service promises, see UploadLifecycle.       *)
Phase(status) ==
  CASE status = "absent" -> "none"
    [] status \in {"initiating", "uploading"} -> "open"
    [] status = "aborting" -> "cancelling"
    [] status = "completing" -> "accepted"
    [] OTHER -> status

Lifecycle == INSTANCE UploadLifecycle WITH
  phase <- [u \in Uploads |-> Phase(session[u].status)],
  ending <- [u \in Uploads |-> IF session[u].abort_reason = "none" THEN "none"
                               ELSE TerminalStatus(session[u].abort_reason)],
  told <- answers

ImplementsLifecycle == Lifecycle!Spec

(* Every session reaches a terminal status, whatever clients do, crashes,  *)
(* and lost locks included.                                                *)
EverySessionSettles ==
  \A u \in Uploads : session[u].status # "absent" ~> session[u].status \in Terminal

(* Nobody polls an initialization key for ever: it gets its answer.        *)
EveryKeyAnswered ==
  \A u \in Uploads : idem[u].status = "in_progress" ~> idem[u].status # "in_progress"

(* A reported validation failure is reported as a failure.                 *)
ValidationFailureReported ==
  \A u \in Uploads :
    session[u].status = "failed" /\ session[u].abort_reason = "validationFailed"
    => PublicStatus(u) = "upload_failed"

(* Once an upload was aborted and its initializer has gone, its directory  *)
(* is gone too.                                                            *)
AbortRemovesSpool ==
  \A u \in Uploads :
    session[u].status \in {"aborted", "expired"} /\ initializer[u].at = "done" => ~spool[u]
=============================================================================
