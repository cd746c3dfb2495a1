------------------------- MODULE UploadSessionProofs -------------------------
(***************************************************************************)
(* Theorems about UploadSession for every number of uploads, part          *)
(* requests, workers, parts and lost locks: that every variable has its    *)
(* type, the invariants of the rows of one upload, and then the properties *)
(* that relate several actors (the claims of the workers, the gates of the *)
(* part requests, the bytes of an upload) and the refinement of            *)
(* UploadLifecycle.                                                        *)
(***************************************************************************)
EXTENDS UploadSession, FiniteSetTheorems, TLAPS

(* Updates that keep a row, a handler or a worker in its type.             *)

LEMMA SessionRow ==
  ASSUME NEW row \in Session, NEW status \in Status, NEW reason \in Reason, NEW t \in Timestamp
  PROVE  /\ [row EXCEPT !.status = status] \in Session
         /\ [row EXCEPT !.status = status, !.expires_at = t] \in Session
         /\ [row EXCEPT !.status = status, !.r2_upload_id = TRUE] \in Session
         /\ [row EXCEPT !.status = status, !.next_finalize_at = t] \in Session
         /\ [row EXCEPT !.status = status, !.next_abort_at = t] \in Session
         /\ [row EXCEPT !.status = status, !.abort_reason = reason, !.next_abort_at = t] \in Session
         /\ [row EXCEPT !.next_finalize_at = t] \in Session
         /\ [row EXCEPT !.next_abort_at = t] \in Session
         /\ [row EXCEPT !.expires_at = t] \in Session
         /\ [row EXCEPT !.hidden = TRUE] \in Session
         /\ \A b \in BOOLEAN : [row EXCEPT !.received = b] \in Session
BY Zenon DEF Session

LEMMA InitializerRow ==
  ASSUME NEW row \in Initializer, NEW b \in BOOLEAN,
         NEW at \in {"idle", "waiting", "creating", "completing", "failing", "done"}
  PROVE  /\ [row EXCEPT !.at = at] \in Initializer
         /\ [row EXCEPT !.at = at, !.gated = TRUE] \in Initializer
         /\ [row EXCEPT !.fresh = b] \in Initializer
         /\ [row EXCEPT !.gated = FALSE] \in Initializer
         /\ [at |-> at, gated |-> FALSE, fresh |-> b] \in Initializer
         /\ Finished \in Initializer /\ Unstarted \in Initializer
BY Zenon DEF Initializer, Finished, Unstarted

LEMMA RequestRow ==
  ASSUME NEW row \in Request, NEW at \in {"idle", "preparing", "storing", "confirming"}
  PROVE  /\ [row EXCEPT !.at = at] \in Request
         /\ [row EXCEPT !.gated = FALSE] \in Request
         /\ IdleRequest \in Request
BY Zenon DEF Request, IdleRequest

LEMMA WorkerRow ==
  ASSUME NEW row \in Worker,
         NEW at \in {"idle", "head", "list", "complete", "verify", "settle", "fail", "clean", "relist"}
  PROVE  /\ [row EXCEPT !.at = at] \in Worker
         /\ [row EXCEPT !.gated = FALSE] \in Worker
         /\ [row EXCEPT !.fresh = FALSE] \in Worker
         /\ IdleWorker \in Worker
BY Zenon DEF Worker, IdleWorker

LEMMA Words ==
  /\ "initiating" \in Status /\ "uploading" \in Status /\ "completing" \in Status
  /\ "aborting" \in Status /\ "absent" \in Status
  /\ "completed" \in Status /\ "failed" \in Status /\ "aborted" \in Status /\ "expired" \in Status
  /\ "null" \in Timestamp /\ "later" \in Timestamp /\ "due" \in Timestamp
  /\ "none" \in Reason /\ "userCancelled" \in Reason /\ "expired" \in Reason
  /\ "validationFailed" \in Reason
BY DEF Status, Terminal, Timestamp, Reason

LEMMA TerminalStatusType == \A reason : TerminalStatus(reason) \in {"aborted", "expired", "failed"}
BY DEF TerminalStatus

LEMMA TouchedType ==
  ASSUME worker \in [Workers -> Worker], NEW u, NEW jobs
  PROVE  Touched(u, jobs) \in [Workers -> Worker]
BY WorkerRow DEF Touched

LEMMA ReleasedType ==
  ASSUME worker \in [Workers -> Worker], NEW w, NEW u, NEW jobs
  PROVE  Released(w, u, jobs) \in [Workers -> Worker]
<1>1. IdleWorker \in Worker
  BY DEF Worker, IdleWorker
<1> QED BY <1>1, TouchedType DEF Released

LEMMA ClaimedType ==
  ASSUME worker \in [Workers -> Worker], NEW w, NEW u \in Uploads, NEW jobs,
         NEW job \in AllJobs, NEW at \in {"head", "clean"}
  PROVE  [Touched(u, jobs) EXCEPT ![w] = Claimed(w, u, job, at)] \in [Workers -> Worker]
<1>1. Claimed(w, u, job, at) \in Worker
  BY DEF Claimed, Worker, AllJobs
<1> QED BY <1>1, TouchedType

LEMMA AbortingType ==
  ASSUME session \in [Uploads -> Session], NEW u, NEW reason \in Reason
  PROVE  [session EXCEPT ![u] = Aborting(u, reason)] \in [Uploads -> Session]
<1>1. ASSUME u \in Uploads PROVE Aborting(u, reason) \in Session
  BY <1>1, SessionRow, Words DEF Aborting
<1> QED BY <1>1

LEMMA AdvanceType ==
  ASSUME TypeOK, NEW w \in Workers,
         NEW at \in {"idle", "head", "list", "complete", "verify", "settle", "fail", "clean", "relist"},
         Advance(w, at)
  PROVE  TypeOK'
<1>1. worker' \in [Workers -> Worker]
  BY WorkerRow DEF Advance, TypeOK
<1> QED BY <1>1 DEF Advance, TypeOK, rows, storage

-----------------------------------------------------------------------------
LEMMA InitializerTypes ==
  ASSUME TypeOK, NEW u \in Uploads, BeginInitialization(u) \/ InitializerStep(u)
  PROVE  TypeOK'
<1>1. CASE BeginInitialization(u)
  <2>1. session' = [session EXCEPT ![u] = [@ EXCEPT !.status = "initiating", !.expires_at = "later"]]
    BY <1>1 DEF BeginInitialization
  <2>2. session' \in [Uploads -> Session]
    BY <2>1, SessionRow, Words DEF TypeOK
  <2>3. idem' \in [Uploads -> Idempotency]
    <3>1. [status |-> "in_progress", locked_until |-> "later"] \in Idempotency
      BY Words DEF Idempotency
    <3> QED BY <1>1, <3>1 DEF BeginInitialization, TypeOK
  <2>4. initializer' \in [Uploads -> Initializer]
    <3>1. [at |-> "waiting", gated |-> FALSE, fresh |-> TRUE] \in Initializer
      BY Zenon DEF Initializer
    <3> QED BY <1>1, <3>1 DEF BeginInitialization, TypeOK
  <2> QED BY <1>1, <2>2, <2>3, <2>4 DEF BeginInitialization, TypeOK, storage
<1>2. CASE AcquireInitializationGate(u)
  <2>1. initializer' = [initializer EXCEPT ![u] = [@ EXCEPT !.at = "creating", !.gated = TRUE]]
    BY <1>2 DEF AcquireInitializationGate
  <2>2. initializer' \in [Uploads -> Initializer]
    BY <2>1, InitializerRow DEF TypeOK
  <2> QED BY <1>2, <2>2 DEF AcquireInitializationGate, TypeOK, rows, storage
<1>3. CASE CreateMultipart(u) \/ CreateMultipartRejected(u)
  <2>1. initializer' \in [Uploads -> Initializer]
    <3>1. PICK at \in {"completing", "failing"} : initializer' = [initializer EXCEPT ![u] = [@ EXCEPT !.at = at]]
      BY <1>3 DEF CreateMultipart, CreateMultipartRejected
    <3>2. [initializer[u] EXCEPT !.at = at] \in Initializer
      BY InitializerRow DEF TypeOK
    <3> QED BY <3>1, <3>2 DEF TypeOK
  <2> QED BY <1>3, <2>1 DEF CreateMultipart, CreateMultipartRejected, TypeOK, rows, storage
<1>4. CASE CreateMultipartUnknown(u) \/ AbandonInitialization(u)
  <2>1. Finished \in Initializer
    BY Zenon DEF Finished, Initializer
  <2> QED BY <1>4, <2>1 DEF CreateMultipartUnknown, AbandonInitialization, TypeOK, rows, storage
<1>5. CASE CompleteInitialization(u) \/ FailInitialization(u)
  <2>1. session' \in [Uploads -> Session]
    <3>1. \/ session' = [session EXCEPT ![u] = [@ EXCEPT !.status = "uploading", !.r2_upload_id = TRUE]]
          \/ session' = [session EXCEPT ![u] = [@ EXCEPT !.status = "failed"]]
      BY <1>5 DEF CompleteInitialization, FailInitialization
    <3>2. /\ [session[u] EXCEPT !.status = "uploading", !.r2_upload_id = TRUE] \in Session
          /\ [session[u] EXCEPT !.status = "failed"] \in Session
      BY SessionRow, Words DEF TypeOK
    <3> QED BY <3>1, <3>2 DEF TypeOK
  <2>2. PICK status \in {"completed", "failed"} :
          idem' = [idem EXCEPT ![u] = [status |-> status, locked_until |-> "null"]]
    BY <1>5 DEF CompleteInitialization, FailInitialization
  <2>3. [status |-> status, locked_until |-> "null"] \in Idempotency
    BY Words DEF Idempotency
  <2>4. idem' \in [Uploads -> Idempotency]
    BY <2>2, <2>3 DEF TypeOK
  <2>5. initializer' \in [Uploads -> Initializer]
    <3>1. Finished \in Initializer
      BY Zenon DEF Finished, Initializer
    <3> QED BY <1>5, <3>1 DEF CompleteInitialization, FailInitialization, TypeOK
  <2>6. media' \in [Uploads -> {"absent", "pending_upload", "ready", "failed", "aborted"}]
    BY <1>5 DEF CompleteInitialization, FailInitialization, TypeOK
  <2>7. parts' \in [Uploads -> [PartNumbers -> {"absent", "pending", "uploaded", "verified"}]]
    <3>1. [n \in PartNumbers |-> "pending"] \in [PartNumbers -> {"absent", "pending", "uploaded", "verified"}]
      OBVIOUS
    <3>2. parts' = parts \/ parts' = [parts EXCEPT ![u] = [n \in PartNumbers |-> "pending"]]
      BY <1>5 DEF CompleteInitialization, FailInitialization
    <3> QED BY <3>1, <3>2 DEF TypeOK
  <2> QED BY <1>5, <2>1, <2>4, <2>5, <2>6, <2>7, TouchedType
          DEF CompleteInitialization, FailInitialization, TypeOK, storage
<1> QED BY <1>1, <1>2, <1>3, <1>4, <1>5 DEF InitializerStep

LEMMA RequestTypes ==
  ASSUME TypeOK, NEW r \in Requests,
         RequestStep(r) \/ \E u \in Uploads, n \in PartNumbers : AcquirePart(r, u, n)
  PROVE  TypeOK'
<1>1. IdleRequest \in Request
  BY DEF IdleRequest, Request
<1>2. CASE \E u \in Uploads, n \in PartNumbers : AcquirePart(r, u, n)
  <2>1. PICK u \in Uploads, n \in PartNumbers : AcquirePart(r, u, n)
    BY <1>2
  <2>2. [at |-> "preparing", upload |-> u, part |-> n, gated |-> TRUE] \in Request
    BY DEF Request
  <2> QED BY <2>1, <2>2 DEF AcquirePart, TypeOK, rows, storage
<1>3. CASE PreparePart(r) \/ StorePart(r)
  <2>1. \E at \in {"storing", "confirming"} : request' = [request EXCEPT ![r] = [@ EXCEPT !.at = at]]
    BY <1>3 DEF PreparePart, StorePart
  <2>2. \A at \in {"storing", "confirming"} : [request[r] EXCEPT !.at = at] \in Request
    BY RequestRow DEF TypeOK
  <2>3. request' \in [Requests -> Request]
    BY <2>1, <2>2 DEF TypeOK
  <2> QED BY <1>3, <2>3 DEF PreparePart, StorePart, TypeOK, rows, storage
<1>4. CASE PreparePartExpired(r) \/ ScheduleValidationAbort(r)
  <2>1. session' \in [Uploads -> Session]
    BY <1>4, AbortingType, Words DEF PreparePartExpired, ScheduleValidationAbort, TypeOK
  <2> QED BY <1>1, <1>4, <2>1, TouchedType DEF PreparePartExpired, ScheduleValidationAbort, TypeOK, storage
<1>5. CASE ConfirmPart(r)
  <2>1. parts' \in [Uploads -> [PartNumbers -> {"absent", "pending", "uploaded", "verified"}]]
    BY <1>5 DEF ConfirmPart, TypeOK
  <2>2. session' \in [Uploads -> Session]
    <3> DEFINE u == request[r].upload
               b == AllBut(u, request[r].part)
    <3>1. session' = [session EXCEPT ![u] = [@ EXCEPT !.received = b]]
      BY <1>5 DEF ConfirmPart
    <3>2. u \in Uploads => [session[u] EXCEPT !.received = b] \in Session
      <4>1. b \in BOOLEAN
        BY DEF AllBut
      <4> HIDE DEF b
      <4> QED BY <4>1, SessionRow, Words DEF TypeOK
    <3> QED BY <3>1, <3>2 DEF TypeOK
  <2> QED BY <1>1, <1>5, <2>1, <2>2, TouchedType DEF ConfirmPart, TypeOK, storage
<1>6. CASE DropPart(r)
  BY <1>1, <1>6 DEF DropPart, TypeOK, rows, storage
<1> QED BY <1>2, <1>3, <1>4, <1>5, <1>6 DEF RequestStep

LEMMA ClientTypes ==
  ASSUME TypeOK, NEW u \in Uploads, ClientStep(u) \/ ScheduleExpiry(u)
  PROVE  TypeOK'
<1>1. CASE CompleteUpload(u)
  <2>1. session' = [session EXCEPT ![u] = [@ EXCEPT !.status = "completing", !.next_finalize_at = "due"]]
    BY <1>1 DEF CompleteUpload, SettleLifecycle
  <2>2. session' \in [Uploads -> Session]
    BY <2>1, SessionRow, Words DEF TypeOK
  <2> QED BY <1>1, <2>2, TouchedType DEF CompleteUpload, SettleLifecycle, TypeOK, storage
<1>2. CASE CompleteUploadExpired(u) \/ AbortUpload(u) \/ ScheduleExpiry(u)
  <2>1. session' \in [Uploads -> Session]
    BY <1>2, AbortingType, Words DEF CompleteUploadExpired, AbortUpload, SettleLifecycle, ScheduleExpiry, TypeOK
  <2> QED BY <1>2, <2>1, TouchedType DEF CompleteUploadExpired, AbortUpload, SettleLifecycle, ScheduleExpiry, TypeOK, storage
<1>3. CASE HideHistory(u)
  <2>1. session' = [session EXCEPT ![u] = [@ EXCEPT !.hidden = TRUE]]
    BY <1>3 DEF HideHistory
  <2>2. session' \in [Uploads -> Session]
    BY <2>1, SessionRow, Words DEF TypeOK
  <2> QED BY <1>3, <2>2, TouchedType DEF HideHistory, TypeOK, storage
<1> QED BY <1>1, <1>2, <1>3 DEF ClientStep
LEMMA WorkerTypes ==
  ASSUME TypeOK, NEW w \in Workers, WorkerStep(w) \/ \E u \in Uploads : ClaimStep(w, u)
  PROVE  TypeOK'
<1> DEFINE u == worker[w].upload
<1>1. CASE LeaveClaim(w)
  <2>1. IdleWorker \in Worker
    BY DEF Worker, IdleWorker
  <2> QED BY <1>1, <2>1 DEF LeaveClaim, TypeOK, rows, storage
<1>2. CASE \E v \in Uploads : FinalizeClaim(w, v) \/ AbortClaim(w, v)
  <2>1. PICK v \in Uploads : FinalizeClaim(w, v) \/ AbortClaim(w, v)
    BY <1>2
  <2>2. /\ [session[v] EXCEPT !.next_finalize_at = "later"] \in Session
        /\ [session[v] EXCEPT !.next_abort_at = "later"] \in Session
    BY SessionRow, Words DEF TypeOK
  <2>3. \/ session' = [session EXCEPT ![v] = [@ EXCEPT !.next_finalize_at = "later"]]
        \/ session' = [session EXCEPT ![v] = [@ EXCEPT !.next_abort_at = "later"]]
    BY <2>1 DEF FinalizeClaim, AbortClaim
  <2>4. session' \in [Uploads -> Session]
    BY <2>2, <2>3 DEF TypeOK
  <2>5. worker' \in [Workers -> Worker]
    <3>1. \/ worker' = [Touched(v, SessionJobs) EXCEPT ![w] = Claimed(w, v, "finalize", "head")]
          \/ worker' = [Touched(v, SessionJobs) EXCEPT ![w] = Claimed(w, v, "abort", "clean")]
      BY <2>1 DEF FinalizeClaim, AbortClaim
    <3>2. CASE worker' = [Touched(v, SessionJobs) EXCEPT ![w] = Claimed(w, v, "finalize", "head")]
      BY <3>2, ClaimedType DEF TypeOK, AllJobs
    <3>3. CASE worker' = [Touched(v, SessionJobs) EXCEPT ![w] = Claimed(w, v, "abort", "clean")]
      BY <3>3, ClaimedType DEF TypeOK, AllJobs
    <3> QED BY <3>1, <3>2, <3>3
  <2> QED BY <2>1, <2>4, <2>5 DEF FinalizeClaim, AbortClaim, TypeOK, storage
<1>3. CASE \E v \in Uploads : ReconcileClaim(w, v)
  <2>1. PICK v \in Uploads : ReconcileClaim(w, v)
    BY <1>3
  <2>2. idem' \in [Uploads -> Idempotency]
    BY <2>1, Words DEF ReconcileClaim, TypeOK, Idempotency
  <2>3. initializer' \in [Uploads -> Initializer]
    <3>1. initializer' = [initializer EXCEPT ![v] = [@ EXCEPT !.fresh = FALSE]]
      BY <2>1 DEF ReconcileClaim
    <3>2. [initializer[v] EXCEPT !.fresh = FALSE] \in Initializer
      BY InitializerRow DEF TypeOK
    <3> QED BY <3>1, <3>2 DEF TypeOK
  <2>4. worker' \in [Workers -> Worker]
    BY <2>1, ClaimedType DEF ReconcileClaim, TypeOK, AllJobs
  <2> QED BY <2>1, <2>2, <2>3, <2>4 DEF ReconcileClaim, TypeOK, storage
<1>4. CASE FinalizeHead(w) \/ FinalizeList(w) \/ FinalizeListMissing(w) \/ FinalizeVerify(w) \/ ReconcileRelist(w)
  BY <1>4, AdvanceType DEF FinalizeHead, FinalizeList, FinalizeListMissing, FinalizeVerify, ReconcileRelist
<1>5. CASE FinalizeComplete(w) \/ AbortClean(w) \/ ReconcileClean(w)
  <2>1. \E at \in {"verify", "settle", "relist"} : worker' = [worker EXCEPT ![w] = [@ EXCEPT !.at = at]]
    BY <1>5 DEF FinalizeComplete, AbortClean, ReconcileClean
  <2>2. \A at \in {"verify", "settle", "relist"} : [worker[w] EXCEPT !.at = at] \in Worker
    BY WorkerRow DEF TypeOK
  <2>3. worker' \in [Workers -> Worker]
    BY <2>1, <2>2 DEF TypeOK
  <2>4. CASE FinalizeComplete(w)
    BY <2>3, <2>4 DEF FinalizeComplete, TypeOK, rows
  <2>5. CASE AbortClean(w)
    BY <2>3, <2>5 DEF AbortClean, TypeOK, rows
  <2>6. CASE ReconcileClean(w)
    BY <2>3, <2>6 DEF ReconcileClean, TypeOK, rows
  <2> QED BY <1>5, <2>4, <2>5, <2>6
<1>6. CASE FinalizeSucceed(w) \/ FinalizeFail(w)
  <2>1. PICK status \in {"completed", "failed"} :
          session' = [session EXCEPT ![u] = [@ EXCEPT !.status = status, !.next_finalize_at = "null"]]
    BY <1>6 DEF FinalizeSucceed, FinalizeFail
  <2>2. u \in Uploads => [session[u] EXCEPT !.status = status, !.next_finalize_at = "null"] \in Session
    BY SessionRow, Words DEF TypeOK
  <2>3. session' \in [Uploads -> Session]
    BY <2>1, <2>2 DEF TypeOK
  <2>4. worker' \in [Workers -> Worker]
    BY <1>6, ReleasedType DEF FinalizeSucceed, FinalizeFail, TypeOK
  <2>5. media' \in [Uploads -> {"absent", "pending_upload", "ready", "failed", "aborted"}]
    BY <1>6 DEF FinalizeSucceed, FinalizeFail, TypeOK
  <2>6. parts' \in [Uploads -> [PartNumbers -> {"absent", "pending", "uploaded", "verified"}]]
    <3>1. [n \in PartNumbers |-> "verified"] \in [PartNumbers -> {"absent", "pending", "uploaded", "verified"}]
      OBVIOUS
    <3>2. parts' = parts \/ parts' = [parts EXCEPT ![u] = [n \in PartNumbers |-> "verified"]]
      BY <1>6 DEF FinalizeSucceed, FinalizeFail
    <3> QED BY <3>1, <3>2 DEF TypeOK
  <2> QED BY <1>6, <2>3, <2>4, <2>5, <2>6 DEF FinalizeSucceed, FinalizeFail, TypeOK, storage
<1>7. CASE FinalizeRetry(w) \/ AbortRetry(w)
  <2>1. \/ session' = [session EXCEPT ![u] = [@ EXCEPT !.next_finalize_at = "later"]]
        \/ session' = [session EXCEPT ![u] = [@ EXCEPT !.next_abort_at = "later"]]
    BY <1>7 DEF FinalizeRetry, AbortRetry
  <2>2. u \in Uploads => /\ [session[u] EXCEPT !.next_finalize_at = "later"] \in Session
                         /\ [session[u] EXCEPT !.next_abort_at = "later"] \in Session
    BY SessionRow, Words DEF TypeOK
  <2>3. session' \in [Uploads -> Session]
    BY <2>1, <2>2 DEF TypeOK
  <2> QED BY <1>7, <2>3, ReleasedType DEF FinalizeRetry, AbortRetry, TypeOK, storage
<1>8. CASE AbortSettle(w)
  <2> DEFINE status == TerminalStatus(session[u].abort_reason)
  <2>1. session' = [session EXCEPT ![u] = [@ EXCEPT !.status = status, !.next_abort_at = "null"]]
    BY <1>8 DEF AbortSettle
  <2>2. u \in Uploads => [session[u] EXCEPT !.status = status, !.next_abort_at = "null"] \in Session
    BY SessionRow, Words, TerminalStatusType DEF TypeOK
  <2>3. session' \in [Uploads -> Session]
    BY <2>1, <2>2 DEF TypeOK
  <2>4. idem' \in [Uploads -> Idempotency]
    <3>1. u \in Uploads => SettledKey(u) \in Idempotency
      BY Words DEF SettledKey, Idempotency, TypeOK
    <3> QED BY <1>8, <3>1 DEF AbortSettle, TypeOK
  <2>5. initializer' \in [Uploads -> Initializer]
    <3>1. PICK b \in BOOLEAN : initializer' = [initializer EXCEPT ![u] = [@ EXCEPT !.fresh = b]]
      BY <1>8 DEF AbortSettle
    <3>2. u \in Uploads => [initializer[u] EXCEPT !.fresh = b] \in Initializer
      BY InitializerRow DEF TypeOK
    <3> QED BY <3>1, <3>2 DEF TypeOK
  <2>6. worker' \in [Workers -> Worker]
    BY <1>8, ReleasedType DEF AbortSettle, TypeOK
  <2>7. media' \in [Uploads -> {"absent", "pending_upload", "ready", "failed", "aborted"}]
    BY <1>8 DEF AbortSettle, TypeOK
  <2> QED BY <1>8, <2>3, <2>4, <2>5, <2>6, <2>7 DEF AbortSettle, TypeOK, storage
<1>9. CASE ReconcileSettle(w)
  <2>1. session' = [session EXCEPT ![u] = [@ EXCEPT !.status = "failed"]]
    BY <1>9 DEF ReconcileSettle
  <2>2. u \in Uploads => [session[u] EXCEPT !.status = "failed"] \in Session
    BY SessionRow, Words DEF TypeOK
  <2>3. session' \in [Uploads -> Session]
    BY <2>1, <2>2 DEF TypeOK
  <2>4. idem' \in [Uploads -> Idempotency]
    BY <1>9, Words DEF ReconcileSettle, TypeOK, Idempotency
  <2>5. initializer' \in [Uploads -> Initializer]
    <3>1. initializer' = [initializer EXCEPT ![u] = [@ EXCEPT !.fresh = FALSE]]
      BY <1>9 DEF ReconcileSettle
    <3>2. u \in Uploads => [initializer[u] EXCEPT !.fresh = FALSE] \in Initializer
      BY InitializerRow DEF TypeOK
    <3> QED BY <3>1, <3>2 DEF TypeOK
  <2>6. worker' \in [Workers -> Worker]
    BY <1>9, ReleasedType DEF ReconcileSettle, TypeOK
  <2> QED BY <1>9, <2>3, <2>4, <2>5, <2>6 DEF ReconcileSettle, TypeOK, storage
<1> QED BY <1>1, <1>2, <1>3, <1>4, <1>5, <1>6, <1>7, <1>8, <1>9 DEF WorkerStep, ClaimStep

LEMMA EnvironmentTypes ==
  ASSUME TypeOK, LoseGate \/ \E u \in Uploads : TimerStep(u)
  PROVE  TypeOK'
<1>1. CASE \E u \in Uploads : FinalizeDue(u) \/ AbortDue(u) \/ SessionExpires(u)
  <2>1. PICK u \in Uploads : FinalizeDue(u) \/ AbortDue(u) \/ SessionExpires(u)
    BY <1>1
  <2>2. \/ session' = [session EXCEPT ![u] = [@ EXCEPT !.next_finalize_at = "due"]]
        \/ session' = [session EXCEPT ![u] = [@ EXCEPT !.next_abort_at = "due"]]
        \/ session' = [session EXCEPT ![u] = [@ EXCEPT !.expires_at = "due"]]
    BY <2>1 DEF FinalizeDue, AbortDue, SessionExpires
  <2>3. /\ [session[u] EXCEPT !.next_finalize_at = "due"] \in Session
        /\ [session[u] EXCEPT !.next_abort_at = "due"] \in Session
        /\ [session[u] EXCEPT !.expires_at = "due"] \in Session
    BY SessionRow, Words DEF TypeOK
  <2>4. session' \in [Uploads -> Session]
    BY <2>2, <2>3 DEF TypeOK
  <2> QED BY <2>1, <2>4 DEF FinalizeDue, AbortDue, SessionExpires, TypeOK, storage
<1>2. CASE \E u \in Uploads : InitializationLeaseEnds(u)
  <2>1. PICK u \in Uploads : InitializationLeaseEnds(u)
    BY <1>2
  <2>2. [idem[u] EXCEPT !.locked_until = "due"] \in Idempotency
    BY Words DEF TypeOK, Idempotency
  <2>3. idem' = [idem EXCEPT ![u] = [@ EXCEPT !.locked_until = "due"]]
    BY <2>1 DEF InitializationLeaseEnds
  <2> QED BY <2>1, <2>2, <2>3 DEF InitializationLeaseEnds, TypeOK, storage
<1>3. CASE LoseGate
  <2>1. gateLosses' \in 0..MaxGateLosses
    BY <1>3, MaxGateLossesAssumption DEF LoseGate, TypeOK
  <2>2. initializer' \in [Uploads -> Initializer]
    <3>1. \A u \in Uploads : [initializer[u] EXCEPT !.gated = FALSE] \in Initializer
      BY InitializerRow DEF TypeOK
    <3> QED BY <1>3, <3>1 DEF LoseGate, TypeOK
  <2>3. request' \in [Requests -> Request]
    <3>1. \A r \in Requests : [request[r] EXCEPT !.gated = FALSE] \in Request
      BY RequestRow DEF TypeOK
    <3> QED BY <1>3, <3>1 DEF LoseGate, TypeOK
  <2>4. worker' \in [Workers -> Worker]
    <3>1. \A w \in Workers : [worker[w] EXCEPT !.gated = FALSE] \in Worker
      BY WorkerRow DEF TypeOK
    <3> QED BY <1>3, <3>1 DEF LoseGate, TypeOK
  <2> QED BY <1>3, <2>1, <2>2, <2>3, <2>4 DEF LoseGate, TypeOK, rows, storage
<1> QED BY <1>1, <1>2, <1>3 DEF TimerStep

(* The cleaner deletes rows of two tables and touches nothing else.        *)
LEMMA CleanerLeaves ==
  ASSUME NEW u \in Uploads, CleanerStep(u)
  PROVE  UNCHANGED <<session, media, answers, storage, initializer, request, worker, gateLosses>>
BY DEF CleanerStep, deleteStableIdempotency, deleteTerminalUploadParts

LEMMA CleanerTypes ==
  ASSUME TypeOK, NEW u \in Uploads, CleanerStep(u)
  PROVE  TypeOK'
<1>1. idem' \in [Uploads -> Idempotency]
  <2>1. [idem[u] EXCEPT !.status = "absent"] \in Idempotency
    BY DEF TypeOK, Idempotency
  <2>2. idem' = idem \/ idem' = [idem EXCEPT ![u] = [@ EXCEPT !.status = "absent"]]
    BY DEF CleanerStep, deleteStableIdempotency, deleteTerminalUploadParts
  <2> QED BY <2>1, <2>2 DEF TypeOK
<1>2. parts' \in [Uploads -> [PartNumbers -> {"absent", "pending", "uploaded", "verified"}]]
  <2>1. [n \in PartNumbers |-> "absent"] \in [PartNumbers -> {"absent", "pending", "uploaded", "verified"}]
    OBVIOUS
  <2>2. parts' = parts \/ parts' = [parts EXCEPT ![u] = [n \in PartNumbers |-> "absent"]]
    BY DEF CleanerStep, deleteStableIdempotency, deleteTerminalUploadParts
  <2> QED BY <2>1, <2>2 DEF TypeOK
<1> QED BY <1>1, <1>2, CleanerLeaves DEF TypeOK, storage

LEMMA InitTyped == Init => TypeOK
<1>1. AbsentSession \in Session
  BY Words, Zenon DEF AbsentSession, Session
<1>2. [status |-> "absent", locked_until |-> "null"] \in Idempotency
  BY Words DEF Idempotency
<1>3. Unstarted \in Initializer
  BY Zenon DEF Unstarted, Initializer
<1>4. IdleRequest \in Request /\ IdleWorker \in Worker
  BY DEF IdleRequest, Request, IdleWorker, Worker
<1> QED BY <1>1, <1>2, <1>3, <1>4, MaxGateLossesAssumption DEF Init, TypeOK

LEMMA StepTyped == TypeOK /\ [Next]_vars => TypeOK'
<1> SUFFICES ASSUME TypeOK, [Next]_vars PROVE TypeOK'
  OBVIOUS
<1>1. CASE Next
  BY <1>1, InitializerTypes, RequestTypes, ClientTypes, WorkerTypes, CleanerTypes, EnvironmentTypes DEF Next
<1>2. CASE UNCHANGED vars
  BY <1>2 DEF TypeOK, vars
<1> QED BY <1>1, <1>2

(* Every variable keeps its type in every behaviour.                       *)
THEOREM Typing == Spec => []TypeOK
BY InitTyped, StepTyped, PTL DEF Spec

-----------------------------------------------------------------------------
(* RowInv(u) is the inductive invariant of the rows of one upload: it      *)
(* joins RowsAgree, SchemaChecks and OneVerdict, which need each other,    *)
(* and adds why a cancelled session ends the way its owner was told and    *)
(* from when on a session has received all its bytes.                      *)

RowInv(u) ==
  LET row == session[u]
      status == session[u].status
  IN /\ media[u] = "absent" <=> status = "absent"
     /\ media[u] = "ready" <=> status = "completed"
     /\ media[u] = "failed" <=> status = "failed"
     /\ media[u] = "aborted" <=> status \in {"aborted", "expired"}
     /\ status = "absent" => idem[u].status = "absent"
     /\ idem[u].status = "completed" => row.r2_upload_id
     /\ row.r2_upload_id => idem[u].status \in {"completed", "absent"}
     /\ idem[u].status = "in_progress" => status \in {"initiating", "aborting"}
     /\ idem[u].status # "in_progress" => status # "initiating"
     /\ idem[u].status = "failed" => status \in {"failed", "aborted", "expired"}
     /\ idem[u].status = "in_progress" <=> idem[u].locked_until # "null"
     /\ row.status = "completing" <=> row.next_finalize_at # "null"
     /\ row.status = "aborting" <=> row.next_abort_at # "null"
     /\ \/ row.status = "aborting" /\ row.abort_reason # "none"
        \/ row.status = "aborted" /\ row.abort_reason = "userCancelled"
        \/ row.status = "expired" /\ row.abort_reason = "expired"
        \/ row.status = "failed" /\ row.abort_reason \in {"none", "validationFailed"}
        \/ row.status \notin {"aborting", "aborted", "expired", "failed"} /\ row.abort_reason = "none"
     /\ row.status \in {"uploading", "completing", "completed"} => row.r2_upload_id
     /\ status \in {"absent", "initiating"} => ~row.received /\ ~row.r2_upload_id
     /\ status \in {"uploading", "completing"} => (row.received <=> AllConfirmed(u))
     /\ status \in {"completing", "completed"} => row.received
     /\ row.hidden => row.status \in {"completing"} \union Terminal
     /\ \A answer, other \in answers[u] : answer = other
     /\ \A answer \in answers[u] : status \in Verdicts[answer]
     /\ "cancelling" \in answers[u] => row.abort_reason \in {"userCancelled", "expired"}
     /\ "expired" \in answers[u] => row.abort_reason = "expired"

RowsInv == \A u \in Uploads : RowInv(u)

LEMMA RowsInvIsEnough == RowsInv => RowsAgree /\ SchemaChecks /\ OneVerdict
BY DEF RowsInv, RowInv, RowsAgree, SchemaChecks, OneVerdict

(* No part is confirmed when its session opens, and the last part that is  *)
(* missing completes them.                                                 *)
LEMMA NoPartConfirmed ==
  ASSUME NEW u, parts'[u] = [n \in PartNumbers |-> "pending"]
  PROVE  ~AllConfirmed(u)'
<1>1. 1 \in PartNumbers
  BY PartCountAssumption DEF PartNumbers
<1> QED BY <1>1 DEF AllConfirmed, Confirmed

LEMMA LastConfirmed ==
  ASSUME TypeOK, NEW u \in Uploads, NEW n \in PartNumbers, parts' = [parts EXCEPT ![u][n] = "uploaded"]
  PROVE  AllConfirmed(u)' <=> AllBut(u, n)
<1>1. \A m \in PartNumbers : parts'[u][m] = IF m = n THEN "uploaded" ELSE parts[u][m]
  BY DEF TypeOK
<1> QED BY <1>1 DEF AllConfirmed, AllBut, Confirmed

LEMMA RowFrame ==
  ASSUME NEW v \in Uploads, RowInv(v),
         session'[v] = session[v], media'[v] = media[v], idem'[v] = idem[v],
         answers'[v] = answers[v], parts'[v] = parts[v]
  PROVE  RowInv(v)'
BY DEF RowInv, AllConfirmed

(* Workers and requests work on an upload, and only when they have a job.  *)
ActorInv ==
  /\ \A w \in Workers : worker[w].job # "none" => worker[w].upload \in Uploads
  /\ \A r \in Requests : request[r].at # "idle" => request[r].upload \in Uploads /\ request[r].part \in PartNumbers

(* Nobody has been told anything about a session that still takes parts.   *)
LEMMA Unanswered ==
  ASSUME TypeOK, NEW u \in Uploads, RowInv(u), session[u].status \in {"absent", "initiating", "uploading"}
  PROVE  answers[u] = {}
<1>1. ASSUME NEW answer \in answers[u] PROVE FALSE
  <2>1. answer \in {"accepted", "expired", "cancelling"}
    BY <1>1 DEF TypeOK
  <2>2. session[u].status \in Verdicts[answer]
    BY <1>1 DEF RowInv
  <2> QED BY <2>1, <2>2 DEF Verdicts
<1> QED BY <1>1

LEMMA InitializerRows ==
  ASSUME TypeOK, RowsInv, NEW u \in Uploads, BeginInitialization(u) \/ InitializerStep(u)
  PROVE  RowsInv'
<1>1. CASE BeginInitialization(u)
  <2>1. RowInv(u)'
    <3>1. answers[u] = {}
      BY <1>1, Unanswered DEF BeginInitialization, RowsInv
    <3>2. /\ session'[u].status = "initiating"
          /\ \A field \in {"abort_reason", "r2_upload_id", "next_finalize_at", "next_abort_at", "hidden", "received"} :
               session'[u][field] = session[u][field]
      BY <1>1 DEF BeginInitialization, TypeOK, Session
    <3>3. /\ media'[u] = "pending_upload" /\ answers'[u] = answers[u]
          /\ idem'[u] = [status |-> "in_progress", locked_until |-> "later"]
      BY <1>1 DEF BeginInitialization, TypeOK
    <3>4. RowInv(u) /\ session[u].status = "absent"
      BY <1>1 DEF BeginInitialization, RowsInv
    <3> QED BY <3>1, <3>2, <3>3, <3>4 DEF RowInv, Terminal
  <2>2. ASSUME NEW v \in Uploads, v # u PROVE RowInv(v)'
    BY <1>1, <2>2, RowFrame DEF BeginInitialization, RowsInv, TypeOK
  <2> QED BY <2>1, <2>2 DEF RowsInv
<1>2. CASE CompleteInitialization(u)
  <2>1. RowInv(u)'
    <3>1. ~AllConfirmed(u)'
      BY <1>2, NoPartConfirmed DEF CompleteInitialization, TypeOK
    <3>2. answers[u] = {}
      BY <1>2, Unanswered DEF CompleteInitialization, Initializing, RowsInv
    <3>3. /\ session'[u].status = "uploading" /\ session'[u].r2_upload_id
          /\ \A field \in {"abort_reason", "next_finalize_at", "next_abort_at", "hidden", "received"} :
               session'[u][field] = session[u][field]
      BY <1>2 DEF CompleteInitialization, TypeOK, Session
    <3>4. /\ idem'[u] = [status |-> "completed", locked_until |-> "null"]
          /\ media'[u] = media[u] /\ answers'[u] = answers[u]
      BY <1>2 DEF CompleteInitialization, TypeOK
    <3>5. RowInv(u) /\ session[u].status = "initiating"
      BY <1>2 DEF CompleteInitialization, Initializing, RowsInv
    <3> QED BY <3>1, <3>2, <3>3, <3>4, <3>5 DEF RowInv, Terminal
  <2>2. ASSUME NEW v \in Uploads, v # u PROVE RowInv(v)'
    BY <1>2, <2>2, RowFrame DEF CompleteInitialization, RowsInv, TypeOK
  <2> QED BY <2>1, <2>2 DEF RowsInv
<1>3. CASE FailInitialization(u)
  <2>1. RowInv(u)'
    BY <1>3 DEF FailInitialization, Initializing, RowsInv, RowInv, TypeOK, Session, Verdicts, Terminal
  <2>2. ASSUME NEW v \in Uploads, v # u PROVE RowInv(v)'
    BY <1>3, <2>2, RowFrame DEF FailInitialization, RowsInv, TypeOK
  <2> QED BY <2>1, <2>2 DEF RowsInv
<1>4. CASE AcquireInitializationGate(u) \/ CreateMultipart(u) \/ CreateMultipartRejected(u)
           \/ CreateMultipartUnknown(u) \/ AbandonInitialization(u)
  BY <1>4, RowFrame DEF AcquireInitializationGate, CreateMultipart, CreateMultipartRejected,
     CreateMultipartUnknown, AbandonInitialization, rows, RowsInv
<1> QED BY <1>1, <1>2, <1>3, <1>4 DEF InitializerStep

(* Every way into "aborting".                                              *)
LEMMA AbortingRows ==
  ASSUME TypeOK, RowsInv, NEW u \in Uploads, NEW reason \in Reason \ {"none"},
         session[u].status \in {"initiating", "uploading"},
         session' = [session EXCEPT ![u] = Aborting(u, reason)],
         \/ answers' = answers
         \/ reason = "expired" /\ answers' = [answers EXCEPT ![u] = @ \union {"expired"}]
         \/ reason # "validationFailed" /\ answers' = [answers EXCEPT ![u] = @ \union {"cancelling"}],
         UNCHANGED <<media, idem, parts>>
  PROVE  RowsInv'
<1>1. RowInv(u)'
  <2>1. RowInv(u) /\ answers[u] = {}
    BY Unanswered DEF RowsInv
  <2>2. /\ session'[u].status = "aborting" /\ session'[u].abort_reason = reason
        /\ session'[u].next_abort_at = "due"
        /\ \A field \in {"r2_upload_id", "next_finalize_at", "hidden", "received"} :
             session'[u][field] = session[u][field]
    BY DEF Aborting, TypeOK, Session
  <2>3. \/ answers'[u] = {}
        \/ reason = "expired" /\ answers'[u] = {"expired"}
        \/ reason \in {"expired", "userCancelled"} /\ answers'[u] = {"cancelling"}
    BY <2>1 DEF TypeOK, Reason
  <2> QED BY <2>1, <2>2, <2>3 DEF RowInv, Terminal, Verdicts
<1>2. ASSUME NEW v \in Uploads, v # u PROVE RowInv(v)'
  BY <1>2, RowFrame DEF RowsInv, TypeOK
<1> QED BY <1>1, <1>2 DEF RowsInv

LEMMA RequestRows ==
  ASSUME TypeOK, RowsInv, ActorInv, NEW r \in Requests,
         RequestStep(r) \/ \E u \in Uploads, n \in PartNumbers : AcquirePart(r, u, n)
  PROVE  RowsInv'
<1>0. PICK u : u = request[r].upload
  OBVIOUS
<1>1. CASE PreparePartExpired(r) \/ ScheduleValidationAbort(r)
  <2>1. u \in Uploads
    BY <1>0, <1>1 DEF PreparePartExpired, ScheduleValidationAbort, ActorInv
  <2>2. \E reason \in {"expired", "validationFailed"} : session' = [session EXCEPT ![u] = Aborting(u, reason)]
    BY <1>0, <1>1 DEF PreparePartExpired, ScheduleValidationAbort
  <2>3. /\ session[u].status = "uploading"
        /\ UNCHANGED <<media, idem, parts, answers>>
    BY <1>0, <1>1 DEF PreparePartExpired, ScheduleValidationAbort
  <2> QED BY <2>1, <2>2, <2>3, AbortingRows DEF Reason
<1>2. CASE ConfirmPart(r)
  <2>1. PICK n : n = request[r].part
    OBVIOUS
  <2>2. u \in Uploads /\ n \in PartNumbers /\ session[u].status = "uploading"
    BY <1>0, <1>2, <2>1 DEF ConfirmPart, ActorInv
  <2>3. RowInv(u)'
    <3>1. /\ session'[u].received <=> AllConfirmed(u)'
          /\ \A field \in {"status", "abort_reason", "r2_upload_id", "next_finalize_at", "next_abort_at", "hidden"} :
               session'[u][field] = session[u][field]
      <4>1. session'[u] = [session[u] EXCEPT !.received = AllBut(u, n)]
        BY <1>0, <1>2, <2>1, <2>2 DEF ConfirmPart, TypeOK
      <4>2. session[u] \in Session
        BY <2>2 DEF TypeOK
      <4>3. /\ session'[u].received = AllBut(u, n)
            /\ \A field \in {"status", "abort_reason", "r2_upload_id", "next_finalize_at", "next_abort_at", "hidden"} :
                 session'[u][field] = session[u][field]
        BY <4>1, <4>2 DEF Session
      <4>4. AllConfirmed(u)' <=> AllBut(u, n)
        BY <1>0, <1>2, <2>1, <2>2, LastConfirmed DEF ConfirmPart
      <4> QED BY <4>3, <4>4
    <3>2. RowInv(u) /\ UNCHANGED <<media, idem, answers>>
      BY <1>2, <2>2 DEF ConfirmPart, RowsInv
    <3> QED BY <2>2, <3>1, <3>2 DEF RowInv
  <2>4. ASSUME NEW v \in Uploads, v # u PROVE RowInv(v)'
    BY <1>0, <1>2, <2>4, RowFrame DEF ConfirmPart, RowsInv, TypeOK
  <2> QED BY <2>3, <2>4 DEF RowsInv
<1>3. CASE \/ PreparePart(r) \/ StorePart(r) \/ DropPart(r)
           \/ \E v \in Uploads, n \in PartNumbers : AcquirePart(r, v, n)
  <2>1. UNCHANGED rows
    BY <1>3 DEF PreparePart, StorePart, DropPart, AcquirePart
  <2> QED BY <2>1, RowFrame DEF rows, RowsInv
<1> QED BY <1>1, <1>2, <1>3 DEF RequestStep

LEMMA ClientRows ==
  ASSUME TypeOK, RowsInv, NEW u \in Uploads, ClientStep(u) \/ ScheduleExpiry(u)
  PROVE  RowsInv'
<1>1. CASE CompleteUpload(u)
  <2>1. RowInv(u)'
    <3>1. answers'[u] = {"accepted"}
      BY <1>1, Unanswered DEF CompleteUpload, SettleLifecycle, RowsInv, TypeOK
    <3>2. /\ session'[u].status = "completing" /\ session'[u].next_finalize_at = "due"
          /\ \A field \in {"abort_reason", "r2_upload_id", "next_abort_at", "hidden", "received"} :
               session'[u][field] = session[u][field]
      BY <1>1 DEF CompleteUpload, SettleLifecycle, TypeOK, Session
    <3>3. /\ RowInv(u) /\ session[u].status = "uploading" /\ UNCHANGED <<media, idem, parts>>
          /\ AllConfirmed(u) /\ session[u].received
      BY <1>1 DEF CompleteUpload, SettleLifecycle, RowsInv
    <3> QED BY <3>1, <3>2, <3>3 DEF RowInv, AllConfirmed, Terminal, Verdicts
  <2>2. ASSUME NEW v \in Uploads, v # u PROVE RowInv(v)'
    BY <1>1, <2>2, RowFrame DEF CompleteUpload, SettleLifecycle, RowsInv, TypeOK
  <2> QED BY <2>1, <2>2 DEF RowsInv
<1>2. CASE CompleteUploadExpired(u)
  BY <1>2, AbortingRows DEF CompleteUploadExpired, SettleLifecycle, Reason
<1>3. CASE AbortUpload(u)
  <2> DEFINE reason == IF session[u].expires_at = "due" THEN "expired" ELSE "userCancelled"
  <2>1. reason \in Reason \ {"none"} /\ reason # "validationFailed"
    BY DEF Reason
  <2>2. /\ session' = [session EXCEPT ![u] = Aborting(u, reason)]
        /\ session[u].status \in {"initiating", "uploading"}
        /\ answers' = [answers EXCEPT ![u] = @ \union {"cancelling"}]
        /\ UNCHANGED <<media, idem, parts>>
    BY <1>3 DEF AbortUpload, SettleLifecycle, Abortable
  <2> HIDE DEF reason
  <2> QED BY <2>1, <2>2, AbortingRows
<1>4. CASE ScheduleExpiry(u)
  BY <1>4, AbortingRows DEF ScheduleExpiry, PastDeadline, Reason
<1>5. CASE HideHistory(u)
  <2>1. RowInv(u)'
    <3>1. /\ session'[u].hidden
          /\ \A field \in {"status", "abort_reason", "r2_upload_id", "next_finalize_at", "next_abort_at", "received"} :
               session'[u][field] = session[u][field]
      BY <1>5 DEF HideHistory, TypeOK, Session
    <3>2. /\ RowInv(u) /\ session[u].status \in {"completing"} \union Terminal
          /\ UNCHANGED <<media, idem, parts, answers>>
      BY <1>5 DEF HideHistory, RowsInv, Terminal
    <3> QED BY <3>1, <3>2 DEF RowInv, AllConfirmed
  <2>2. ASSUME NEW v \in Uploads, v # u PROVE RowInv(v)'
    BY <1>5, <2>2, RowFrame DEF HideHistory, RowsInv, TypeOK
  <2> QED BY <2>1, <2>2 DEF RowsInv
<1> QED BY <1>1, <1>2, <1>3, <1>4, <1>5 DEF ClientStep

(* The workers write a row only after they found it in the state they      *)
(* claimed it in.                                                          *)
LEMMA WorkerRows ==
  ASSUME TypeOK, RowsInv, ActorInv, NEW w \in Workers, WorkerStep(w) \/ \E u \in Uploads : ClaimStep(w, u)
  PROVE  RowsInv'
<1>0. PICK u : u = worker[w].upload
  OBVIOUS
<1>1. CASE \/ LeaveClaim(w) \/ FinalizeHead(w) \/ FinalizeList(w) \/ FinalizeListMissing(w)
           \/ FinalizeComplete(w) \/ FinalizeVerify(w) \/ AbortClean(w) \/ ReconcileClean(w)
           \/ ReconcileRelist(w)
  <2>1. UNCHANGED rows
    BY <1>1 DEF LeaveClaim, FinalizeHead, FinalizeList, FinalizeListMissing, FinalizeComplete,
       FinalizeVerify, AbortClean, ReconcileClean, ReconcileRelist, Advance
  <2> QED BY <2>1, RowFrame DEF rows, RowsInv
<1>2. CASE \E v \in Uploads : FinalizeClaim(w, v) \/ AbortClaim(w, v) \/ ReconcileClaim(w, v)
  <2>1. PICK v \in Uploads : FinalizeClaim(w, v) \/ AbortClaim(w, v) \/ ReconcileClaim(w, v)
    BY <1>2
  <2>2. RowInv(v)'
    <3>1. CASE FinalizeClaim(w, v)
      BY <3>1 DEF FinalizeClaim, RowsInv, RowInv, AllConfirmed, TypeOK, Session
    <3>2. CASE AbortClaim(w, v)
      BY <3>2 DEF AbortClaim, RowsInv, RowInv, AllConfirmed, TypeOK, Session
    <3>3. CASE ReconcileClaim(w, v)
      BY <3>3 DEF ReconcileClaim, RowsInv, RowInv, AllConfirmed, TypeOK, Idempotency
    <3> QED BY <2>1, <3>1, <3>2, <3>3
  <2>3. ASSUME NEW x \in Uploads, x # v PROVE RowInv(x)'
    BY <2>1, <2>3, RowFrame DEF FinalizeClaim, AbortClaim, ReconcileClaim, RowsInv, TypeOK
  <2> QED BY <2>2, <2>3 DEF RowsInv
<1>3. CASE FinalizeSucceed(w) \/ FinalizeFail(w) \/ FinalizeRetry(w)
  <2>1. u \in Uploads /\ RowInv(u) /\ session[u].status = "completing"
    BY <1>0, <1>3 DEF FinalizeSucceed, FinalizeFail, FinalizeRetry, ActorInv, RowsInv
  <2>2. RowInv(u)'
    <3>1. \A field \in {"abort_reason", "r2_upload_id", "next_abort_at", "hidden", "received"} :
            session'[u][field] = session[u][field]
      BY <1>0, <1>3, <2>1 DEF FinalizeSucceed, FinalizeFail, FinalizeRetry, TypeOK, Session
    <3>2. idem'[u] = idem[u] /\ answers'[u] = answers[u]
      BY <1>0, <1>3 DEF FinalizeSucceed, FinalizeFail, FinalizeRetry
    <3>6. answers[u] \subseteq {"accepted"}
      BY <2>1 DEF RowInv, TypeOK, Verdicts
    <3>3. CASE FinalizeSucceed(w)
      <4>1. /\ session'[u].status = "completed" /\ session'[u].next_finalize_at = "null"
            /\ media'[u] = "ready"
        BY <1>0, <2>1, <3>3 DEF FinalizeSucceed, TypeOK, Session
      <4> QED BY <2>1, <3>1, <3>2, <3>6, <4>1 DEF RowInv, Verdicts, Terminal
    <3>4. CASE FinalizeFail(w)
      <4>1. /\ session'[u].status = "failed" /\ session'[u].next_finalize_at = "null"
            /\ media'[u] = "failed"
        BY <1>0, <2>1, <3>4 DEF FinalizeFail, TypeOK, Session
      <4> QED BY <2>1, <3>1, <3>2, <3>6, <4>1 DEF RowInv, Verdicts, Terminal
    <3>5. CASE FinalizeRetry(w)
      <4>1. /\ session'[u].status = "completing" /\ session'[u].next_finalize_at = "later"
            /\ UNCHANGED <<media, parts>>
        BY <1>0, <2>1, <3>5 DEF FinalizeRetry, TypeOK, Session
      <4> QED BY <2>1, <3>1, <3>2, <3>6, <4>1 DEF RowInv, AllConfirmed, Verdicts, Terminal
    <3> QED BY <1>3, <3>3, <3>4, <3>5
  <2>3. ASSUME NEW x \in Uploads, x # u PROVE RowInv(x)'
    BY <1>0, <1>3, <2>3, RowFrame DEF FinalizeSucceed, FinalizeFail, FinalizeRetry, RowsInv, TypeOK
  <2> QED BY <2>2, <2>3 DEF RowsInv
<1>4. CASE AbortSettle(w)
  <2>1. u \in Uploads /\ RowInv(u) /\ session[u].status = "aborting"
    BY <1>0, <1>4 DEF AbortSettle, ActorInv, RowsInv
  <2> DEFINE status == TerminalStatus(session[u].abort_reason)
  <2>2. RowInv(u)'
    <3>1. /\ session'[u].status = status /\ session'[u].next_abort_at = "null"
          /\ \A field \in {"abort_reason", "r2_upload_id", "next_finalize_at", "hidden", "received"} :
               session'[u][field] = session[u][field]
      BY <1>0, <1>4, <2>1 DEF AbortSettle, TypeOK, Session
    <3>2. /\ media'[u] = IF status = "failed" THEN "failed" ELSE "aborted"
          /\ idem'[u] = SettledKey(u) /\ answers'[u] = answers[u]
      BY <1>0, <1>4, <2>1 DEF AbortSettle, TypeOK
    <3>3. session[u].abort_reason \in Reason /\ answers[u] \subseteq {"accepted", "expired", "cancelling"}
      BY <2>1 DEF TypeOK, Session
    <3>4. CASE session[u].abort_reason = "userCancelled"
      <4>1. status = "aborted"
        BY <3>4 DEF TerminalStatus
      <4> QED BY <2>1, <3>1, <3>2, <3>3, <3>4, <4>1 DEF RowInv, SettledKey, Verdicts, Terminal
    <3>5. CASE session[u].abort_reason = "expired"
      <4>1. status = "expired"
        BY <3>5 DEF TerminalStatus
      <4> QED BY <2>1, <3>1, <3>2, <3>3, <3>5, <4>1 DEF RowInv, SettledKey, Verdicts, Terminal
    <3>6. CASE session[u].abort_reason = "validationFailed"
      <4>1. status = "failed"
        BY <3>6 DEF TerminalStatus
      <4> QED BY <2>1, <3>1, <3>2, <3>3, <3>6, <4>1 DEF RowInv, SettledKey, Verdicts, Terminal
    <3>7. session[u].abort_reason # "none"
      BY <2>1 DEF RowInv
    <3> QED BY <3>3, <3>4, <3>5, <3>6, <3>7 DEF Reason
  <2>3. ASSUME NEW x \in Uploads, x # u PROVE RowInv(x)'
    BY <1>0, <1>4, <2>3, RowFrame DEF AbortSettle, RowsInv, TypeOK
  <2> QED BY <2>2, <2>3 DEF RowsInv
<1>5. CASE AbortRetry(w)
  <2>1. u \in Uploads /\ RowInv(u)
    BY <1>0, <1>5 DEF AbortRetry, ActorInv, RowsInv
  <2>2. RowInv(u)'
    BY <1>0, <1>5, <2>1 DEF AbortRetry, RowInv, AllConfirmed, TypeOK, Session
  <2>3. ASSUME NEW x \in Uploads, x # u PROVE RowInv(x)'
    BY <1>0, <1>5, <2>3, RowFrame DEF AbortRetry, RowsInv, TypeOK
  <2> QED BY <2>2, <2>3 DEF RowsInv
<1>6. CASE ReconcileSettle(w)
  <2>1. u \in Uploads /\ RowInv(u)
    BY <1>0, <1>6 DEF ReconcileSettle, ActorInv, RowsInv
  <2>2. RowInv(u)'
    <3>1. answers[u] = {} /\ session[u].status = "initiating" /\ idem[u].status = "in_progress"
      BY <1>0, <1>6, <2>1, Unanswered DEF ReconcileSettle
    <3>2. /\ session'[u].status = "failed"
          /\ \A field \in {"abort_reason", "r2_upload_id", "next_finalize_at", "next_abort_at", "hidden", "received"} :
               session'[u][field] = session[u][field]
      BY <1>0, <1>6, <2>1 DEF ReconcileSettle, TypeOK, Session
    <3>3. /\ media'[u] = "failed" /\ answers'[u] = answers[u]
          /\ idem'[u] = [status |-> "failed", locked_until |-> "null"]
      BY <1>0, <1>6, <2>1 DEF ReconcileSettle, TypeOK
    <3> QED BY <2>1, <3>1, <3>2, <3>3 DEF RowInv, Terminal
  <2>3. ASSUME NEW x \in Uploads, x # u PROVE RowInv(x)'
    BY <1>0, <1>6, <2>3, RowFrame DEF ReconcileSettle, RowsInv, TypeOK
  <2> QED BY <2>2, <2>3 DEF RowsInv
<1> QED BY <1>1, <1>2, <1>3, <1>4, <1>5, <1>6 DEF WorkerStep, ClaimStep

(* The cleaner deletes an answer only when it is settled, and the parts    *)
(* only of a session that nobody goes on with.                             *)
LEMMA CleanerRows ==
  ASSUME TypeOK, RowsInv, NEW u \in Uploads, CleanerStep(u)
  PROVE  RowsInv'
<1>1. UNCHANGED <<session, media, answers>>
  BY CleanerLeaves
<1>2. RowInv(u)'
  <2>1. CASE deleteStableIdempotency(u)
    <3>1. /\ idem[u].status \in {"completed", "failed"} /\ idem'[u].status = "absent"
          /\ idem'[u].locked_until = idem[u].locked_until
          /\ parts' = parts
      BY <2>1 DEF deleteStableIdempotency, Settled, TypeOK, Idempotency
    <3> QED BY <1>1, <3>1 DEF RowsInv, RowInv, AllConfirmed
  <2>2. CASE deleteTerminalUploadParts(u)
    <3>1. session[u].status \in Terminal /\ idem' = idem
      BY <2>2 DEF deleteTerminalUploadParts
    <3> QED BY <1>1, <3>1 DEF RowsInv, RowInv, Terminal
  <2> QED BY <2>1, <2>2 DEF CleanerStep
<1>3. ASSUME NEW v \in Uploads, v # u PROVE RowInv(v)'
  BY <1>1, <1>3, RowFrame DEF CleanerStep, deleteStableIdempotency, deleteTerminalUploadParts, RowsInv, TypeOK
<1> QED BY <1>2, <1>3 DEF RowsInv

LEMMA EnvironmentRows ==
  ASSUME TypeOK, RowsInv, LoseGate \/ \E u \in Uploads : TimerStep(u)
  PROVE  RowsInv'
<1>1. CASE LoseGate
  BY <1>1, RowFrame DEF LoseGate, rows, RowsInv
<1>2. CASE \E u \in Uploads : TimerStep(u)
  <2>1. PICK u \in Uploads : TimerStep(u)
    BY <1>2
  <2>2. RowInv(u)'
    <3>1. CASE FinalizeDue(u) \/ AbortDue(u) \/ SessionExpires(u)
      <4>1. /\ \A field \in {"status", "abort_reason", "r2_upload_id", "hidden", "received"} :
                 session'[u][field] = session[u][field]
            /\ session'[u].next_finalize_at = "null" <=> session[u].next_finalize_at = "null"
            /\ session'[u].next_abort_at = "null" <=> session[u].next_abort_at = "null"
        BY <3>1 DEF FinalizeDue, AbortDue, SessionExpires, TypeOK, Session
      <4>2. UNCHANGED <<media, idem, parts, answers>>
        BY <3>1 DEF FinalizeDue, AbortDue, SessionExpires
      <4> QED BY <4>1, <4>2 DEF RowsInv, RowInv, AllConfirmed
    <3>2. CASE InitializationLeaseEnds(u)
      BY <3>2 DEF InitializationLeaseEnds, RowsInv, RowInv, AllConfirmed, TypeOK, Idempotency
    <3> QED BY <2>1, <3>1, <3>2 DEF TimerStep
  <2>3. ASSUME NEW x \in Uploads, x # u PROVE RowInv(x)'
    BY <2>1, <2>3, RowFrame DEF TimerStep, FinalizeDue, AbortDue, SessionExpires,
       InitializationLeaseEnds, RowsInv, TypeOK
  <2> QED BY <2>2, <2>3 DEF RowsInv
<1> QED BY <1>1, <1>2

-----------------------------------------------------------------------------
(* What the trigger does to a remembered version is no change of job.      *)
LEMMA TouchedKeepsJobs ==
  ASSUME TypeOK, NEW u, NEW jobs, NEW w \in Workers
  PROVE  /\ Touched(u, jobs)[w].job = worker[w].job
         /\ Touched(u, jobs)[w].upload = worker[w].upload
BY DEF Touched, TypeOK, Worker

LEMMA ActorsKept ==
  ASSUME TypeOK, ActorInv, [Next]_vars
  PROVE  ActorInv'
<1> DEFINE SameJobs == \A w \in Workers : worker'[w].job = worker[w].job /\ worker'[w].upload = worker[w].upload
           SameRequests == \A r \in Requests : /\ request'[r].upload = request[r].upload
                                               /\ request'[r].part = request[r].part
                                               /\ request'[r].at # "idle" => request[r].at # "idle"
<1>1. ASSUME SameJobs, SameRequests PROVE ActorInv'
  BY <1>1 DEF ActorInv
<1>2. ASSUME worker' = worker PROVE SameJobs
  BY <1>2
<1>3. ASSUME request' = request PROVE SameRequests
  BY <1>3
<1>4. ASSUME NEW u \in Uploads, BeginInitialization(u) \/ InitializerStep(u) PROVE ActorInv'
  <2>1. SameJobs
    BY <1>4, TouchedKeepsJobs DEF BeginInitialization, InitializerStep, AcquireInitializationGate,
       CreateMultipart, CreateMultipartRejected, CreateMultipartUnknown, CompleteInitialization,
       FailInitialization, AbandonInitialization
  <2>2. SameRequests
    BY <1>4 DEF BeginInitialization, InitializerStep, AcquireInitializationGate,
       CreateMultipart, CreateMultipartRejected, CreateMultipartUnknown, CompleteInitialization,
       FailInitialization, AbandonInitialization
  <2> QED BY <1>1, <2>1, <2>2
<1>5. ASSUME NEW u \in Uploads, ClientStep(u) \/ ScheduleExpiry(u) \/ TimerStep(u) PROVE ActorInv'
  <2>1. SameJobs
    BY <1>5, TouchedKeepsJobs DEF ClientStep, CompleteUpload, CompleteUploadExpired, AbortUpload, SettleLifecycle,
       HideHistory, ScheduleExpiry, TimerStep, FinalizeDue, AbortDue, SessionExpires, InitializationLeaseEnds
  <2>2. SameRequests
    BY <1>5 DEF ClientStep, CompleteUpload, CompleteUploadExpired, AbortUpload, SettleLifecycle,
       HideHistory, ScheduleExpiry, TimerStep, FinalizeDue, AbortDue, SessionExpires, InitializationLeaseEnds
  <2> QED BY <1>1, <2>1, <2>2
<1>6. ASSUME NEW r \in Requests, RequestStep(r) \/ \E u \in Uploads, n \in PartNumbers : AcquirePart(r, u, n)
      PROVE  ActorInv'
  <2>1. SameJobs
    BY <1>6, TouchedKeepsJobs DEF RequestStep, PreparePart, PreparePartExpired, StorePart,
       ScheduleValidationAbort, ConfirmPart, DropPart, AcquirePart
  <2>2. ASSUME NEW q \in Requests, request'[q].at # "idle"
        PROVE  request'[q].upload \in Uploads /\ request'[q].part \in PartNumbers
    <3>1. CASE \E u \in Uploads, n \in PartNumbers : AcquirePart(r, u, n)
      BY <2>2, <3>1 DEF AcquirePart, ActorInv, TypeOK
    <3>2. CASE PreparePart(r) \/ StorePart(r)
      <4>1. request[r].at # "idle" /\ \E at : request' = [request EXCEPT ![r].at = at]
        BY <3>2 DEF PreparePart, StorePart
      <4>2. request'[q].upload = request[q].upload /\ request'[q].part = request[q].part
        BY <4>1 DEF TypeOK, Request
      <4>3. q # r => request'[q] = request[q]
        BY <4>1 DEF TypeOK
      <4> QED BY <2>2, <4>1, <4>2, <4>3 DEF ActorInv
    <3>3. CASE PreparePartExpired(r) \/ ScheduleValidationAbort(r) \/ ConfirmPart(r) \/ DropPart(r)
      <4>1. request' = [request EXCEPT ![r] = IdleRequest]
        BY <3>3 DEF PreparePartExpired, ScheduleValidationAbort, ConfirmPart, DropPart
      <4> QED BY <2>2, <4>1 DEF ActorInv, TypeOK, IdleRequest
    <3> QED BY <1>6, <3>1, <3>2, <3>3 DEF RequestStep
  <2> QED BY <2>1, <2>2 DEF ActorInv
<1>7. ASSUME NEW w \in Workers, WorkerStep(w) \/ \E u \in Uploads : ClaimStep(w, u) PROVE ActorInv'
  <2>1. SameRequests
    BY <1>7 DEF WorkerStep, ClaimStep, LeaveClaim, FinalizeHead, FinalizeList, FinalizeListMissing,
       FinalizeComplete, FinalizeVerify, FinalizeSucceed, FinalizeFail, FinalizeRetry, AbortClean,
       AbortSettle, AbortRetry, ReconcileClean, ReconcileRelist, ReconcileSettle, Advance,
       FinalizeClaim, AbortClaim, ReconcileClaim
  <2>2. ASSUME NEW x \in Workers, worker'[x].job # "none" PROVE worker'[x].upload \in Uploads
    <3>1. CASE \E u \in Uploads : ClaimStep(w, u)
      <4>1. PICK u \in Uploads, jobs \in {SessionJobs, {"reconcile"}}, job \in AllJobs, at \in {"head", "clean"} :
              worker' = [Touched(u, jobs) EXCEPT ![w] = Claimed(w, u, job, at)]
        BY <3>1 DEF ClaimStep, FinalizeClaim, AbortClaim, ReconcileClaim, AllJobs
      <4>2. x # w => worker'[x] = Touched(u, jobs)[x]
        BY <4>1 DEF Touched
      <4>3. x = w => worker'[x].upload = u
        BY <4>1 DEF Touched, Claimed
      <4> QED BY <2>2, <4>2, <4>3, TouchedKeepsJobs DEF ActorInv
    <3>2. CASE FinalizeHead(w) \/ FinalizeList(w) \/ FinalizeListMissing(w) \/ FinalizeComplete(w)
               \/ FinalizeVerify(w) \/ AbortClean(w) \/ ReconcileClean(w) \/ ReconcileRelist(w)
      <4>1. \E at : worker' = [worker EXCEPT ![w].at = at]
        BY <3>2 DEF FinalizeHead, FinalizeList, FinalizeListMissing, FinalizeComplete, FinalizeVerify,
           AbortClean, ReconcileClean, ReconcileRelist, Advance
      <4> QED BY <2>2, <4>1 DEF ActorInv, TypeOK, Worker
    <3>3. CASE LeaveClaim(w)
      BY <2>2, <3>3 DEF LeaveClaim, ActorInv, TypeOK, IdleWorker
    <3>4. CASE FinalizeSucceed(w) \/ FinalizeFail(w) \/ FinalizeRetry(w) \/ AbortSettle(w)
               \/ AbortRetry(w) \/ ReconcileSettle(w)
      <4>1. PICK u, jobs : worker' = Released(w, u, jobs)
        <5>1. CASE FinalizeSucceed(w) \/ FinalizeFail(w) \/ FinalizeRetry(w) \/ AbortRetry(w)
          BY <5>1 DEF FinalizeSucceed, FinalizeFail, FinalizeRetry, AbortRetry
        <5>2. CASE AbortSettle(w)
          BY <5>2 DEF AbortSettle
        <5>3. CASE ReconcileSettle(w)
          BY <5>3 DEF ReconcileSettle
        <5> QED BY <3>4, <5>1, <5>2, <5>3
      <4>2. x # w => worker'[x] = Touched(u, jobs)[x]
        BY <4>1 DEF Released, Touched
      <4>3. x = w => worker'[x].job = "none"
        BY <4>1 DEF Released, Touched, IdleWorker
      <4> QED BY <2>2, <4>2, <4>3, TouchedKeepsJobs DEF ActorInv
    <3> QED BY <1>7, <3>1, <3>2, <3>3, <3>4 DEF WorkerStep
  <2> QED BY <1>6, <2>1, <2>2 DEF ActorInv
<1>8. ASSUME LoseGate PROVE ActorInv'
  <2>1. SameJobs
    <3>1. worker' = worker \/ \E w \in Workers : worker' = [worker EXCEPT ![w].gated = FALSE]
      BY <1>8 DEF LoseGate
    <3> QED BY <3>1 DEF TypeOK, Worker
  <2>2. SameRequests
    BY <1>8 DEF LoseGate, TypeOK, Request
  <2> QED BY <1>1, <2>1, <2>2
<1>9. ASSUME NEW u \in Uploads, CleanerStep(u) PROVE ActorInv'
  BY <1>1, <1>9, CleanerLeaves
<1>10. ASSUME UNCHANGED vars PROVE ActorInv'
  BY <1>1, <1>10 DEF vars
<1> QED BY <1>4, <1>5, <1>6, <1>7, <1>8, <1>9, <1>10 DEF Next

RowsAndActors == TypeOK /\ RowsInv /\ ActorInv

(* The rows of an upload agree, trip no CHECK and give one verdict: the    *)
(* inductive invariant behind RowsAgree, SchemaChecks and OneVerdict.      *)
THEOREM RowsInvariant == Spec => []RowsAndActors
<1>1. Init => RowsAndActors
  <2> SUFFICES ASSUME Init PROVE RowsAndActors
    OBVIOUS
  <2>1. RowsInv
    BY DEF Init, RowsInv, RowInv, AbsentSession, Terminal
  <2>2. ActorInv
    BY DEF Init, ActorInv, IdleWorker, IdleRequest
  <2> QED BY <2>1, <2>2, InitTyped DEF RowsAndActors
<1>2. RowsAndActors /\ [Next]_vars => RowsAndActors'
  <2> SUFFICES ASSUME RowsAndActors, [Next]_vars PROVE RowsAndActors'
    OBVIOUS
  <2>1. TypeOK /\ RowsInv /\ ActorInv
    BY DEF RowsAndActors
  <2>2. RowsInv'
    <3>1. CASE Next
      BY <2>1, <3>1, InitializerRows, RequestRows, ClientRows, WorkerRows, CleanerRows, EnvironmentRows
         DEF Next
    <3>2. CASE UNCHANGED vars
      BY <2>1, <3>2, RowFrame DEF vars, RowsInv
    <3> QED BY <3>1, <3>2
  <2> QED BY <2>1, <2>2, StepTyped, ActorsKept DEF RowsAndActors
<1> QED BY <1>1, <1>2, PTL DEF Spec

(* The three rows of every upload tell the same story in every behaviour.  *)
THEOREM RowsAlwaysAgree == Spec => []RowsAgree
<1>1. RowsAndActors => RowsAgree
  BY RowsInvIsEnough DEF RowsAndActors
<1> QED BY <1>1, RowsInvariant, PTL

(* No statement of any handler or worker ever trips a CHECK.               *)
THEOREM ChecksNeverTripped == Spec => []SchemaChecks
<1>1. RowsAndActors => SchemaChecks
  BY RowsInvIsEnough DEF RowsAndActors
<1> QED BY <1>1, RowsInvariant, PTL

(* No owner is told two different things about an upload.                  *)
THEOREM VerdictsAreUnique == Spec => []OneVerdict
<1>1. RowsAndActors => OneVerdict
  BY RowsInvIsEnough DEF RowsAndActors
<1> QED BY <1>1, RowsInvariant, PTL

-----------------------------------------------------------------------------
(* What relates several actors.  The lemmas up to the first invariant say, *)
(* one variable at a time, what a step can do to it; the proofs that the   *)
(* invariants are preserved cite them instead of going through the actions *)
(* again.                                                                  *)

(* A job of worker w on upload u, whose claim may be out of date.          *)
Works(w, u, job) == worker[w].upload = u /\ worker[w].job = job

(* A finalizer's upload was accepted, and stays so.                        *)
FinalizeInv(u) ==
  \A w \in Workers : Works(w, u, "finalize") => session[u].status \in {"completing", "completed", "failed"}

(* An aborter's upload is cancelled; a claim that is still good means that *)
(* nobody settled it.                                                      *)
AbortInv(u) ==
  \A w \in Workers : Works(w, u, "abort") =>
    /\ session[u].status \in {"aborting", "aborted", "expired", "failed"}
    /\ worker[w].fresh => session[u].status = "aborting"

(* A reconciler has fenced off the handler of its upload.                  *)
ReconcileInv(u) ==
  \A w \in Workers : Works(w, u, "reconcile") =>
    /\ session[u].status \in {"initiating", "aborting", "aborted", "expired", "failed"}
    /\ ~initializer[u].fresh

(* What the handler that is about to open a session has created is there.  *)
CreatedInv(u) ==
  initializer[u].at = "completing" /\ initializer[u].fresh /\ session[u].status = "initiating" => spool[u]

StoredInv(u) ==
  /\ session[u].status = "completed" => object[u] = "match"
  /\ object[u] # "none" => session[u].status \in {"completing", "completed", "failed"}
  /\ session[u].status \in {"uploading", "completing"} => spool[u]

ClaimsInv ==
  /\ \A u \in Uploads : FinalizeInv(u) /\ AbortInv(u) /\ ReconcileInv(u) /\ CreatedInv(u) /\ StoredInv(u)
  /\ \A w \in Workers : worker[w].fresh => worker[w].job # "none"
  /\ SingleFreshClaim

(* As long as no lock was lost, whoever works on an upload holds its gate. *)
GateInv ==
  /\ \A w \in Workers : worker[w].job = "none" => worker[w].upload = NoUpload
  /\ gateLosses = 0 =>
       /\ \A r \in Requests : request[r].at # "idle" => request[r].gated
       /\ \A w \in Workers : worker[w].job # "none" => worker[w].gated
       /\ \A r \in Requests, w \in Workers :
            request[r].at # "idle" /\ worker[w].job # "none" => worker[w].upload # request[r].upload
       /\ \A r \in Requests :
            request[r].at \in {"storing", "confirming"} =>
              session[request[r].upload].status \in {"uploading", "aborting"}

-----------------------------------------------------------------------------
(* What a step can do to each variable.                                    *)

(* A status is changed by one handler or worker, which has read it in the  *)
(* same transaction; the claims on a session that existed are then out of  *)
(* date.                                                                   *)
StatusMove(u, from, to) == session[u].status \in from /\ session'[u].status = to
ClaimsVoided(u) ==
  \A w \in Workers : worker'[w].upload = u /\ worker'[w].job \in SessionJobs => ~worker'[w].fresh

LEMMA TouchedVoids ==
  ASSUME TypeOK, NEW u, NEW jobs, NEW w \in Workers
  PROVE  /\ Touched(u, jobs)[w].fresh => worker[w].fresh
         /\ worker[w].upload = u /\ worker[w].job \in jobs => ~Touched(u, jobs)[w].fresh
         /\ Touched(u, jobs)[w].gated = worker[w].gated
         /\ Touched(u, jobs)[w].at = worker[w].at
BY DEF Touched, TypeOK, Worker

LEMMA VoidedByTouch ==
  ASSUME TypeOK, NEW u \in Uploads, NEW jobs, SessionJobs \subseteq jobs,
         worker' = Touched(u, jobs) \/ \E w : worker' = Released(w, u, jobs)
  PROVE  ClaimsVoided(u)
<1>1. CASE worker' = Touched(u, jobs)
  BY <1>1, TouchedVoids, TouchedKeepsJobs DEF ClaimsVoided
<1>2. ASSUME NEW w, worker' = Released(w, u, jobs) PROVE ClaimsVoided(u)
  <2>1. ASSUME NEW v \in Workers PROVE worker'[v] = IdleWorker \/ worker'[v] = Touched(u, jobs)[v]
    BY <1>2 DEF Released, Touched
  <2>2. IdleWorker.job \notin SessionJobs
    BY DEF IdleWorker, SessionJobs
  <2> QED BY <2>1, <2>2, TouchedVoids, TouchedKeepsJobs DEF ClaimsVoided
<1> QED BY <1>1, <1>2

LEMMA AbortingStatus ==
  ASSUME TypeOK, NEW u \in Uploads, NEW reason, session' = [session EXCEPT ![u] = Aborting(u, reason)]
  PROVE  session'[u].status = "aborting"
BY DEF Aborting, TypeOK, Session

(* A confirmed part counts towards the size of its session and changes     *)
(* nothing else of it.                                                     *)
LEMMA ConfirmLeaves ==
  ASSUME TypeOK, NEW r, ConfirmPart(r), NEW u \in Uploads
  PROVE  /\ session'[u].status = session[u].status /\ session'[u].abort_reason = session[u].abort_reason
         /\ session[u].status # "uploading" => session'[u] = session[u]
<1> DEFINE v == request[r].upload
           b == AllBut(v, request[r].part)
<1>1. session[v].status = "uploading" /\ session' = [session EXCEPT ![v] = [@ EXCEPT !.received = b]]
  BY DEF ConfirmPart
<1> HIDE DEF v, b
<1> QED BY <1>1 DEF TypeOK, Session

LEMMA StatusSteps ==
  ASSUME TypeOK, [Next]_vars, NEW u \in Uploads, session'[u].status # session[u].status
  PROVE  \/ /\ StatusMove(u, {"absent"}, "initiating") /\ UnderSessionLimit
            /\ \A v \in Uploads \ {u} : session'[v] = session[v]
            /\ initializer'[u].at = "waiting"
         \/ /\ ClaimsVoided(u)
            /\ \/ StatusMove(u, {"initiating"}, "uploading") /\ initializer[u].at = "completing" /\ initializer[u].fresh
               \/ StatusMove(u, {"initiating"}, "failed")
               \/ StatusMove(u, {"initiating", "uploading"}, "aborting")
               \/ /\ StatusMove(u, {"uploading"}, "completing") /\ CanTakeExclusive(u)
                  /\ UNCHANGED spool /\ "accepted" \in answers'[u]
               \/ StatusMove(u, {"completing"}, "completed") /\ object[u] = "match"
               \/ StatusMove(u, {"completing"}, "failed")
               \/ /\ session[u].status = "aborting" /\ session'[u].status \in {"aborted", "expired", "failed"}
                  /\ \E w \in Workers : Works(w, u, "abort")
<1>1. CASE BeginInitialization(u)
  BY <1>1 DEF BeginInitialization, StatusMove, TypeOK, Session
<1>2. ASSUME NEW v \in Uploads, BeginInitialization(v) \/ InitializerStep(v), ~BeginInitialization(u)
      PROVE  \/ StatusMove(u, {"initiating"}, "uploading") /\ initializer[u].at = "completing" /\ initializer[u].fresh /\ ClaimsVoided(u)
             \/ StatusMove(u, {"initiating"}, "failed") /\ ClaimsVoided(u)
  <2>1. v = u /\ (CompleteInitialization(u) \/ FailInitialization(u))
    BY <1>2 DEF BeginInitialization, InitializerStep, AcquireInitializationGate, CreateMultipart,
       CreateMultipartRejected, CreateMultipartUnknown, CompleteInitialization, FailInitialization,
       AbandonInitialization, rows, TypeOK
  <2>2. ClaimsVoided(u)
    BY <2>1, VoidedByTouch DEF CompleteInitialization, FailInitialization, AllJobs, SessionJobs
  <2> QED BY <2>1, <2>2 DEF CompleteInitialization, FailInitialization, Initializing, StatusMove, TypeOK, Session
<1>3. ASSUME NEW v \in Uploads, ClientStep(v) \/ ScheduleExpiry(v) \/ TimerStep(v)
      PROVE  /\ ClaimsVoided(u)
             /\ \/ StatusMove(u, {"initiating", "uploading"}, "aborting")
                \/ /\ StatusMove(u, {"uploading"}, "completing") /\ CanTakeExclusive(u)
                   /\ UNCHANGED spool /\ "accepted" \in answers'[u]
  <2>1. v = u /\ (CompleteUpload(u) \/ CompleteUploadExpired(u) \/ AbortUpload(u) \/ ScheduleExpiry(u))
    <3>1. v = u
      BY <1>3 DEF ClientStep, CompleteUpload, CompleteUploadExpired, AbortUpload, SettleLifecycle, HideHistory, ScheduleExpiry,
         TimerStep, FinalizeDue, AbortDue, SessionExpires, InitializationLeaseEnds, TypeOK
    <3>2. ASSUME FinalizeDue(u) \/ AbortDue(u) \/ SessionExpires(u) PROVE session'[u].status = session[u].status
      BY <3>2 DEF FinalizeDue, AbortDue, SessionExpires, TypeOK, Session
    <3>3. ASSUME InitializationLeaseEnds(u) \/ HideHistory(u) PROVE session'[u].status = session[u].status
      BY <3>3 DEF InitializationLeaseEnds, HideHistory, TypeOK, Session
    <3> QED BY <1>3, <3>1, <3>2, <3>3 DEF ClientStep, TimerStep
  <2>2. ClaimsVoided(u)
    BY <2>1, VoidedByTouch DEF CompleteUpload, CompleteUploadExpired, AbortUpload, SettleLifecycle, ScheduleExpiry
  <2>3. CASE CompleteUpload(u)
    BY <2>2, <2>3 DEF CompleteUpload, SettleLifecycle, StatusMove, TypeOK, Session, storage
  <2>4. CASE CompleteUploadExpired(u) \/ AbortUpload(u) \/ ScheduleExpiry(u)
    <3>1. /\ session[u].status \in {"initiating", "uploading"}
          /\ \E reason \in Reason : session' = [session EXCEPT ![u] = Aborting(u, reason)]
      BY <2>4, Words DEF CompleteUploadExpired, AbortUpload, SettleLifecycle, ScheduleExpiry, PastDeadline, Abortable
    <3> QED BY <2>2, <3>1, AbortingStatus DEF StatusMove
  <2> QED BY <2>1, <2>3, <2>4
<1>4. ASSUME NEW r \in Requests, RequestStep(r) \/ \E v \in Uploads, n \in PartNumbers : AcquirePart(r, v, n)
      PROVE  ClaimsVoided(u) /\ StatusMove(u, {"initiating", "uploading"}, "aborting")
  <2>1. request[r].upload = u /\ (PreparePartExpired(r) \/ ScheduleValidationAbort(r))
    BY <1>4, ConfirmLeaves DEF RequestStep, PreparePart, PreparePartExpired, StorePart, ScheduleValidationAbort,
       DropPart, AcquirePart, rows, TypeOK
  <2>2. ClaimsVoided(u)
    BY <2>1, VoidedByTouch DEF PreparePartExpired, ScheduleValidationAbort
  <2>3. /\ session[u].status \in {"initiating", "uploading"}
        /\ \E reason \in Reason : session' = [session EXCEPT ![u] = Aborting(u, reason)]
    BY <2>1, Words DEF PreparePartExpired, ScheduleValidationAbort
  <2> QED BY <2>2, <2>3, AbortingStatus DEF StatusMove
<1>5. ASSUME NEW w \in Workers, WorkerStep(w) \/ \E v \in Uploads : ClaimStep(w, v)
      PROVE  /\ ClaimsVoided(u)
             /\ \/ StatusMove(u, {"initiating"}, "failed")
                \/ StatusMove(u, {"completing"}, "completed") /\ object[u] = "match"
                \/ StatusMove(u, {"completing"}, "failed")
                \/ /\ session[u].status = "aborting" /\ session'[u].status \in {"aborted", "expired", "failed"}
                   /\ Works(w, u, "abort")
  <2>1. worker[w].upload = u /\ (FinalizeSucceed(w) \/ FinalizeFail(w) \/ AbortSettle(w) \/ ReconcileSettle(w))
    <3>1. CASE \/ LeaveClaim(w) \/ FinalizeHead(w) \/ FinalizeList(w) \/ FinalizeListMissing(w)
               \/ FinalizeComplete(w) \/ FinalizeVerify(w) \/ AbortClean(w) \/ ReconcileClean(w)
               \/ ReconcileRelist(w)
      BY <3>1 DEF LeaveClaim, FinalizeHead, FinalizeList, FinalizeListMissing, FinalizeComplete,
         FinalizeVerify, AbortClean, ReconcileClean, ReconcileRelist, Advance, rows
    <3>2. CASE \/ \E v \in Uploads : ClaimStep(w, v)
               \/ FinalizeRetry(w) \/ AbortRetry(w)
      <4>1. \/ session' = session
            \/ \E v : session' = [session EXCEPT ![v].next_finalize_at = "later"]
            \/ \E v : session' = [session EXCEPT ![v].next_abort_at = "later"]
        BY <3>2 DEF ClaimStep, FinalizeClaim, AbortClaim, ReconcileClaim, FinalizeRetry, AbortRetry
      <4>2. ASSUME NEW v, session' = [session EXCEPT ![v].next_finalize_at = "later"]
            PROVE  session'[u].status = session[u].status
        BY <4>2 DEF TypeOK, Session
      <4>3. ASSUME NEW v, session' = [session EXCEPT ![v].next_abort_at = "later"]
            PROVE  session'[u].status = session[u].status
        BY <4>3 DEF TypeOK, Session
      <4> QED BY <4>1, <4>2, <4>3
    <3>3. CASE FinalizeSucceed(w) \/ FinalizeFail(w) \/ AbortSettle(w) \/ ReconcileSettle(w)
      BY <3>3 DEF FinalizeSucceed, FinalizeFail, AbortSettle, ReconcileSettle, TypeOK
    <3> QED BY <1>5, <3>1, <3>2, <3>3 DEF WorkerStep
  <2>2. CASE FinalizeSucceed(w)
    <3>1. ClaimsVoided(u)
      BY <2>1, <2>2, VoidedByTouch DEF FinalizeSucceed
    <3> QED BY <2>1, <2>2, <3>1 DEF FinalizeSucceed, ObjectMatches, StatusMove, TypeOK, Session
  <2>3. CASE FinalizeFail(w)
    <3>1. ClaimsVoided(u)
      BY <2>1, <2>3, VoidedByTouch DEF FinalizeFail
    <3> QED BY <2>1, <2>3, <3>1 DEF FinalizeFail, StatusMove, TypeOK, Session
  <2>4. CASE AbortSettle(w)
    <3>1. ClaimsVoided(u)
      <4>1. \E jobs \in {AllJobs, SessionJobs} : worker' = Released(w, u, jobs)
        BY <2>1, <2>4 DEF AbortSettle
      <4> QED BY <4>1, VoidedByTouch DEF AllJobs, SessionJobs
    <3> QED BY <2>1, <2>4, <3>1, TerminalStatusType DEF AbortSettle, Works, TypeOK, Session
  <2>5. CASE ReconcileSettle(w)
    <3>1. ClaimsVoided(u)
      BY <2>1, <2>5, VoidedByTouch DEF ReconcileSettle, AllJobs, SessionJobs
    <3> QED BY <2>1, <2>5, <3>1 DEF ReconcileSettle, StatusMove, TypeOK, Session
  <2> QED BY <2>1, <2>2, <2>3, <2>4, <2>5
<1>6. ~LoseGate /\ ~UNCHANGED vars /\ \A v \in Uploads : ~CleanerStep(v)
  BY CleanerLeaves DEF LoseGate, rows, vars
<1> QED BY <1>1, <1>2, <1>3, <1>4, <1>5, <1>6 DEF Next

(* A worker keeps its claim, or what is left of it; drops it; or claims an *)
(* upload in the state its job wants, and voids the claims like its own.   *)
Rivals(job) == IF job = "reconcile" THEN {"reconcile"} ELSE SessionJobs
Wanted == [finalize |-> "completing", abort |-> "aborting", reconcile |-> "initiating"]

KeepsClaim(w) ==
  /\ worker'[w].job = worker[w].job /\ worker'[w].upload = worker[w].upload
  /\ worker'[w].fresh => worker[w].fresh
  /\ worker'[w].gated = worker[w].gated \/ gateLosses' = gateLosses + 1

Claims(w, u, job) ==
  /\ CanTakeExclusive(u)
  /\ session[u].status = Wanted[job] /\ session'[u].status = Wanted[job]
  /\ job = "reconcile" => ~initializer'[u].fresh
  /\ worker'[w].job = job /\ worker'[w].upload = u /\ worker'[w].gated
  /\ \A v \in Workers \ {w} :
       worker'[v].upload = u /\ worker'[v].job \in Rivals(job) => ~worker'[v].fresh
  /\ UNCHANGED <<request, gateLosses>>

LEMMA WorkerSteps ==
  ASSUME TypeOK, [Next]_vars, NEW w \in Workers
  PROVE  \/ KeepsClaim(w)
         \/ worker'[w] = IdleWorker
         \/ worker[w].job = "none" /\ \E u \in Uploads, job \in AllJobs : Claims(w, u, job)
<1>1. ASSUME worker' = worker PROVE KeepsClaim(w)
  BY <1>1 DEF KeepsClaim
<1>2. ASSUME NEW u, NEW jobs, worker' = Touched(u, jobs) PROVE KeepsClaim(w)
  BY <1>2, TouchedKeepsJobs, TouchedVoids DEF KeepsClaim
<1>3. ASSUME NEW x, NEW u, NEW jobs, worker' = Released(x, u, jobs)
      PROVE  KeepsClaim(w) \/ worker'[w] = IdleWorker
  <2>1. worker'[w] = IdleWorker \/ worker'[w] = Touched(u, jobs)[w]
    BY <1>3 DEF Released, Touched
  <2> QED BY <2>1, TouchedKeepsJobs, TouchedVoids DEF KeepsClaim
<1>4. ASSUME NEW x, NEW at, worker' = [worker EXCEPT ![x].at = at] PROVE KeepsClaim(w)
  BY <1>4 DEF KeepsClaim, TypeOK, Worker
<1>5. ASSUME NEW x, worker' = [worker EXCEPT ![x] = IdleWorker] PROVE KeepsClaim(w) \/ worker'[w] = IdleWorker
  BY <1>5 DEF KeepsClaim, TypeOK
<1>6. ASSUME LoseGate PROVE KeepsClaim(w)
  <2>1. gateLosses' = gateLosses + 1
    BY <1>6 DEF LoseGate
  <2>2. worker' = worker \/ \E x \in Workers : worker' = [worker EXCEPT ![x].gated = FALSE]
    BY <1>6 DEF LoseGate
  <2>3. worker'[w].job = worker[w].job /\ worker'[w].upload = worker[w].upload /\ worker'[w].fresh = worker[w].fresh
    <3>1. worker'[w] = worker[w] \/ worker'[w] = [worker[w] EXCEPT !.gated = FALSE]
      BY <2>2 DEF TypeOK
    <3> QED BY <3>1 DEF TypeOK, Worker
  <2> QED BY <2>1, <2>3 DEF KeepsClaim
<1>7. ASSUME NEW x \in Workers, NEW u \in Uploads, NEW job \in AllJobs, NEW at,
             worker' = [Touched(u, Rivals(job)) EXCEPT ![x] = Claimed(x, u, job, at)],
             worker[x].job = "none", CanTakeExclusive(u),
             session[u].status = Wanted[job], session'[u].status = Wanted[job],
             job = "reconcile" => ~initializer'[u].fresh,
             UNCHANGED <<request, gateLosses>>
      PROVE  KeepsClaim(w) \/ (worker[w].job = "none" /\ Claims(w, u, job))
  <2>1. \A v \in Workers \ {x} : worker'[v] = Touched(u, Rivals(job))[v]
    BY <1>7 DEF Touched
  <2>2. w # x => KeepsClaim(w)
    BY <2>1, TouchedKeepsJobs, TouchedVoids DEF KeepsClaim
  <2>3. worker'[x].job = job /\ worker'[x].upload = u /\ worker'[x].gated
    BY <1>7 DEF Touched, Claimed
  <2>4. \A v \in Workers \ {x} : worker'[v].upload = u /\ worker'[v].job \in Rivals(job) => ~worker'[v].fresh
    BY <2>1, TouchedKeepsJobs, TouchedVoids
  <2>5. Claims(x, u, job)
    BY <1>7, <2>3, <2>4 DEF Claims
  <2>6. CASE w = x
    BY <1>7, <2>5, <2>6
  <2> QED BY <2>2, <2>6
<1>8. ASSUME NEW u \in Uploads,
             BeginInitialization(u) \/ InitializerStep(u) \/ ClientStep(u) \/ ScheduleExpiry(u) \/ TimerStep(u)
      PROVE  KeepsClaim(w)
  <2>1. worker' = worker \/ \E jobs : worker' = Touched(u, jobs)
    BY <1>8 DEF BeginInitialization, InitializerStep, AcquireInitializationGate, CreateMultipart,
       CreateMultipartRejected, CreateMultipartUnknown, CompleteInitialization, FailInitialization,
       AbandonInitialization, ClientStep, CompleteUpload, CompleteUploadExpired, AbortUpload, SettleLifecycle, HideHistory,
       ScheduleExpiry, TimerStep, FinalizeDue, AbortDue, SessionExpires, InitializationLeaseEnds
  <2> QED BY <1>1, <1>2, <2>1
<1>9. ASSUME NEW r \in Requests, RequestStep(r) \/ \E u \in Uploads, n \in PartNumbers : AcquirePart(r, u, n)
      PROVE  KeepsClaim(w)
  <2>1. worker' = worker \/ \E u, jobs : worker' = Touched(u, jobs)
    BY <1>9 DEF RequestStep, PreparePart, PreparePartExpired, StorePart, ScheduleValidationAbort, ConfirmPart,
       DropPart, AcquirePart
  <2> QED BY <1>1, <1>2, <2>1
<1>10. ASSUME NEW x \in Workers, WorkerStep(x) PROVE KeepsClaim(w) \/ worker'[w] = IdleWorker
  <2>1. CASE LeaveClaim(x)
    BY <1>5, <2>1 DEF LeaveClaim
  <2>2. CASE \/ FinalizeHead(x) \/ FinalizeList(x) \/ FinalizeListMissing(x) \/ FinalizeComplete(x)
             \/ FinalizeVerify(x) \/ AbortClean(x) \/ ReconcileClean(x) \/ ReconcileRelist(x)
    <3>1. \E at : worker' = [worker EXCEPT ![x].at = at]
      BY <2>2 DEF FinalizeHead, FinalizeList, FinalizeListMissing, FinalizeComplete, FinalizeVerify,
         AbortClean, ReconcileClean, ReconcileRelist, Advance
    <3> QED BY <1>4, <3>1
  <2>3. CASE \/ FinalizeSucceed(x) \/ FinalizeFail(x) \/ FinalizeRetry(x) \/ AbortSettle(x)
             \/ AbortRetry(x) \/ ReconcileSettle(x)
    <3>1. \E u, jobs : worker' = Released(x, u, jobs)
      <4>1. CASE FinalizeSucceed(x) \/ FinalizeFail(x) \/ FinalizeRetry(x) \/ AbortRetry(x)
        BY <4>1 DEF FinalizeSucceed, FinalizeFail, FinalizeRetry, AbortRetry
      <4>2. CASE AbortSettle(x)
        BY <4>2 DEF AbortSettle
      <4>3. CASE ReconcileSettle(x)
        BY <4>3 DEF ReconcileSettle
      <4> QED BY <2>3, <4>1, <4>2, <4>3
    <3> QED BY <1>3, <3>1
  <2> QED BY <1>10, <2>1, <2>2, <2>3 DEF WorkerStep
<1>11. ASSUME NEW x \in Workers, NEW u \in Uploads, ClaimStep(x, u)
       PROVE  \/ KeepsClaim(w)
              \/ worker[w].job = "none" /\ \E job \in AllJobs : Claims(w, u, job)
  <2>2. CASE FinalizeClaim(x, u)
    <3>1. session'[u].status = Wanted["finalize"] /\ session[u].status = Wanted["finalize"]
      BY <2>2 DEF FinalizeClaim, Wanted, TypeOK, Session
    <3>2. "finalize" \in AllJobs /\ Rivals("finalize") = SessionJobs
      BY DEF AllJobs, Rivals
    <3> QED BY <1>7, <2>2, <3>1, <3>2 DEF FinalizeClaim
  <2>3. CASE AbortClaim(x, u)
    <3>1. session'[u].status = Wanted["abort"] /\ session[u].status = Wanted["abort"]
      BY <2>3 DEF AbortClaim, Wanted, TypeOK, Session
    <3>2. "abort" \in AllJobs /\ Rivals("abort") = SessionJobs
      BY DEF AllJobs, Rivals
    <3> QED BY <1>7, <2>3, <3>1, <3>2 DEF AbortClaim
  <2>4. CASE ReconcileClaim(x, u)
    <3>1. session'[u].status = Wanted["reconcile"] /\ session[u].status = Wanted["reconcile"]
      BY <2>4 DEF ReconcileClaim, Wanted
    <3>2. "reconcile" \in AllJobs /\ Rivals("reconcile") = {"reconcile"}
      BY DEF AllJobs, Rivals
    <3>3. ~initializer'[u].fresh
      BY <2>4 DEF ReconcileClaim, TypeOK, Initializer
    <3> QED BY <1>7, <2>4, <3>1, <3>2, <3>3 DEF ReconcileClaim
  <2> QED BY <1>11, <2>2, <2>3, <2>4 DEF ClaimStep
<1>12. ASSUME NEW u \in Uploads, CleanerStep(u) PROVE KeepsClaim(w)
  BY <1>1, <1>12, CleanerLeaves
<1> QED BY <1>1, <1>6, <1>8, <1>9, <1>10, <1>11, <1>12 DEF Next, vars

(* The handler of POST /uploads is fenced for good, and has created the    *)
(* directory when it goes on to complete.                                  *)
LEMMA InitializerSteps ==
  ASSUME TypeOK, [Next]_vars, NEW u \in Uploads
  PROVE  /\ initializer'[u].fresh => initializer[u].fresh \/ session[u].status = "absent"
         /\ initializer'[u].at = "completing" => initializer[u].at = "completing" \/ spool'[u]
<1>1. CASE initializer' = initializer
  BY <1>1
<1>2. ASSUME NEW v \in Uploads, BeginInitialization(v) \/ InitializerStep(v)
      PROVE  /\ initializer'[u].fresh => initializer[u].fresh \/ session[u].status = "absent"
             /\ initializer'[u].at = "completing" => initializer[u].at = "completing" \/ spool'[u]
  <2>0. v # u => initializer'[u] = initializer[u]
    BY <1>2 DEF BeginInitialization, InitializerStep, AcquireInitializationGate, CreateMultipart,
       CreateMultipartRejected, CreateMultipartUnknown, CompleteInitialization, FailInitialization,
       AbandonInitialization, TypeOK
  <2>1. CASE BeginInitialization(v)
    BY <2>1 DEF BeginInitialization, TypeOK, Initializer
  <2>2. CASE AcquireInitializationGate(v) \/ CreateMultipart(v) \/ CreateMultipartRejected(v)
    <3>1. v = u => /\ initializer'[u].fresh = initializer[u].fresh
                   /\ initializer'[u].at = "completing" => spool'[u]
      <4>1. CASE AcquireInitializationGate(v) \/ CreateMultipartRejected(v)
        BY <4>1 DEF AcquireInitializationGate, CreateMultipartRejected, TypeOK, Initializer
      <4>2. CASE CreateMultipart(v)
        BY <4>2 DEF CreateMultipart, TypeOK, Initializer
      <4> QED BY <2>2, <4>1, <4>2
    <3> QED BY <2>0, <3>1
  <2>3. CASE CreateMultipartUnknown(v) \/ CompleteInitialization(v) \/ FailInitialization(v) \/ AbandonInitialization(v)
    <3>1. initializer'[u] = initializer[u] \/ initializer'[u] = Finished
      BY <2>3 DEF CreateMultipartUnknown, CompleteInitialization, FailInitialization, AbandonInitialization, TypeOK
    <3> QED BY <3>1 DEF Finished
  <2> QED BY <1>2, <2>1, <2>2, <2>3 DEF InitializerStep
<1>3. ASSUME NEW v \in Uploads, ClientStep(v) \/ ScheduleExpiry(v) \/ TimerStep(v) PROVE initializer' = initializer
  BY <1>3 DEF ClientStep, CompleteUpload, CompleteUploadExpired, AbortUpload, SettleLifecycle, HideHistory, ScheduleExpiry,
     TimerStep, FinalizeDue, AbortDue, SessionExpires, InitializationLeaseEnds
<1>4. ASSUME NEW r \in Requests, RequestStep(r) \/ \E v \in Uploads, n \in PartNumbers : AcquirePart(r, v, n)
      PROVE  initializer' = initializer
  BY <1>4 DEF RequestStep, PreparePart, PreparePartExpired, StorePart, ScheduleValidationAbort, ConfirmPart,
     DropPart, AcquirePart
<1>5. ASSUME NEW w \in Workers, WorkerStep(w) \/ \E v \in Uploads : ClaimStep(w, v)
      PROVE  /\ initializer'[u].fresh => initializer[u].fresh
             /\ initializer'[u].at = initializer[u].at
  <2>1. CASE AbortSettle(w)
    <3>1. \E b \in BOOLEAN : initializer' = [initializer EXCEPT ![worker[w].upload].fresh = @ /\ b]
      BY <2>1 DEF AbortSettle
    <3> QED BY <3>1 DEF TypeOK, Initializer
  <2>2. CASE ReconcileSettle(w) \/ \E v \in Uploads : ReconcileClaim(w, v)
    <3>1. \E v : initializer' = [initializer EXCEPT ![v].fresh = FALSE]
      <4>1. CASE ReconcileSettle(w)
        BY <4>1 DEF ReconcileSettle
      <4>2. CASE \E v \in Uploads : ReconcileClaim(w, v)
        BY <4>2 DEF ReconcileClaim
      <4> QED BY <2>2, <4>1, <4>2
    <3> QED BY <3>1 DEF TypeOK, Initializer
  <2>3. CASE \/ LeaveClaim(w) \/ FinalizeHead(w) \/ FinalizeList(w) \/ FinalizeListMissing(w)
             \/ FinalizeComplete(w) \/ FinalizeVerify(w) \/ FinalizeSucceed(w) \/ FinalizeFail(w)
             \/ FinalizeRetry(w) \/ AbortClean(w) \/ AbortRetry(w) \/ ReconcileClean(w) \/ ReconcileRelist(w)
             \/ \E v \in Uploads : FinalizeClaim(w, v) \/ AbortClaim(w, v)
    BY <2>3 DEF LeaveClaim, FinalizeHead, FinalizeList, FinalizeListMissing, FinalizeComplete, FinalizeVerify,
       FinalizeSucceed, FinalizeFail, FinalizeRetry, AbortClean, AbortRetry, ReconcileClean, ReconcileRelist,
       Advance, FinalizeClaim, AbortClaim
  <2> QED BY <1>5, <2>1, <2>2, <2>3 DEF WorkerStep, ClaimStep
<1>6. CASE LoseGate
  <2>1. initializer' = initializer \/ \E v \in Uploads : initializer' = [initializer EXCEPT ![v].gated = FALSE]
    BY <1>6 DEF LoseGate
  <2>2. ASSUME NEW v \in Uploads, initializer' = [initializer EXCEPT ![v].gated = FALSE]
        PROVE  initializer'[u].fresh = initializer[u].fresh /\ initializer'[u].at = initializer[u].at
    <3>1. CASE v = u
      BY <2>2, <3>1 DEF TypeOK, Initializer
    <3>2. CASE v # u
      BY <2>2, <3>2 DEF TypeOK
    <3> QED BY <3>1, <3>2
  <2> QED BY <2>1, <2>2
<1>7. ASSUME NEW v \in Uploads, CleanerStep(v) PROVE initializer' = initializer
  BY <1>7, CleanerLeaves
<1> QED BY <1>1, <1>2, <1>3, <1>4, <1>5, <1>6, <1>7 DEF Next, vars

(* Only an aborter or a reconciler removes a directory, only a finalizer's *)
(* Complete makes an object, and neither changes a row.                    *)
LEMMA StorageSteps ==
  ASSUME TypeOK, [Next]_vars, NEW u \in Uploads
  PROVE  /\ spool[u] /\ ~spool'[u] =>
              /\ UNCHANGED rows
              /\ \E w \in Workers : Works(w, u, "reconcile") \/ (Works(w, u, "abort") /\ worker[w].fresh)
         /\ object'[u] # object[u] =>
              /\ UNCHANGED rows /\ object[u] = "none"
              /\ \E w \in Workers : Works(w, u, "finalize")
<1> DEFINE Goal ==
         /\ spool[u] /\ ~spool'[u] =>
              /\ UNCHANGED rows
              /\ \E w \in Workers : Works(w, u, "reconcile") \/ (Works(w, u, "abort") /\ worker[w].fresh)
         /\ object'[u] # object[u] =>
              /\ UNCHANGED rows /\ object[u] = "none"
              /\ \E w \in Workers : Works(w, u, "finalize")
<1>1. ASSUME NEW w \in Workers, AbortClean(w) \/ ReconcileClean(w) \/ FinalizeComplete(w) PROVE Goal
  <2>1. CASE AbortClean(w)
    BY <2>1 DEF AbortClean, Works, TypeOK
  <2>2. CASE ReconcileClean(w)
    BY <2>2 DEF ReconcileClean, Works, TypeOK
  <2>3. CASE FinalizeComplete(w)
    BY <2>3 DEF FinalizeComplete, Works, TypeOK
  <2> QED BY <1>1, <2>1, <2>2, <2>3
<1>2. ASSUME NEW v \in Uploads, CreateMultipart(v) \/ CreateMultipartUnknown(v) PROVE Goal
  BY <1>2 DEF CreateMultipart, CreateMultipartUnknown, TypeOK
<1>3. ASSUME UNCHANGED storage PROVE Goal
  BY <1>3 DEF storage
<1>4. ASSUME NEW v \in Uploads,
             BeginInitialization(v) \/ InitializerStep(v) \/ ClientStep(v) \/ ScheduleExpiry(v) \/ TimerStep(v)
      PROVE  Goal
  <2>1. \/ UNCHANGED storage
        \/ CreateMultipart(v) \/ CreateMultipartUnknown(v)
    BY <1>4 DEF BeginInitialization, InitializerStep, AcquireInitializationGate, CreateMultipartRejected,
       CompleteInitialization, FailInitialization, AbandonInitialization, ClientStep, CompleteUpload,
       CompleteUploadExpired, AbortUpload, SettleLifecycle, HideHistory, ScheduleExpiry, TimerStep, FinalizeDue, AbortDue,
       SessionExpires, InitializationLeaseEnds
  <2> QED BY <1>2, <1>3, <2>1
<1>5. ASSUME NEW r \in Requests, RequestStep(r) \/ \E v \in Uploads, n \in PartNumbers : AcquirePart(r, v, n)
      PROVE  UNCHANGED storage
  BY <1>5 DEF RequestStep, PreparePart, PreparePartExpired, StorePart, ScheduleValidationAbort, ConfirmPart,
     DropPart, AcquirePart
<1>6. ASSUME NEW w \in Workers, WorkerStep(w) \/ \E v \in Uploads : ClaimStep(w, v)
      PROVE  UNCHANGED storage \/ AbortClean(w) \/ ReconcileClean(w) \/ FinalizeComplete(w)
  BY <1>6 DEF WorkerStep, ClaimStep, LeaveClaim, FinalizeHead, FinalizeList, FinalizeListMissing, FinalizeVerify,
     FinalizeSucceed, FinalizeFail, FinalizeRetry, AbortSettle, AbortRetry, ReconcileRelist, ReconcileSettle,
     Advance, FinalizeClaim, AbortClaim, ReconcileClaim
<1>7. ASSUME LoseGate \/ UNCHANGED vars \/ \E v \in Uploads : CleanerStep(v) PROVE UNCHANGED storage
  BY <1>7, CleanerLeaves DEF LoseGate, vars, storage
<1> HIDE DEF Goal
<1>8. Goal
  BY <1>1, <1>3, <1>4, <1>5, <1>6, <1>7 DEF Next
<1> QED BY <1>8 DEF Goal

(* What a session has received is fixed once it takes no more parts.       *)
LEMMA ReceivedSteps ==
  ASSUME TypeOK, [Next]_vars, NEW u \in Uploads, session[u].status # "uploading"
  PROVE  session'[u].received = session[u].received
<1> DEFINE Same == session'[u].received = session[u].received
<1>1. ASSUME session' = session PROVE Same
  BY <1>1
<1>2. ASSUME NEW v, NEW row, session' = [session EXCEPT ![v] = row],
             v \in Uploads /\ session[v] \in Session => row.received = session[v].received
      PROVE  Same
  BY <1>2 DEF TypeOK
<1>3. ASSUME NEW v, NEW t,
             \/ session' = [session EXCEPT ![v] = [@ EXCEPT !.next_finalize_at = t]]
             \/ session' = [session EXCEPT ![v] = [@ EXCEPT !.next_abort_at = t]]
             \/ session' = [session EXCEPT ![v] = [@ EXCEPT !.expires_at = t]]
             \/ session' = [session EXCEPT ![v] = [@ EXCEPT !.hidden = t]]
      PROVE  Same
  <2>1. ASSUME session[v] \in Session
        PROVE  /\ [session[v] EXCEPT !.next_finalize_at = t].received = session[v].received
               /\ [session[v] EXCEPT !.next_abort_at = t].received = session[v].received
               /\ [session[v] EXCEPT !.expires_at = t].received = session[v].received
               /\ [session[v] EXCEPT !.hidden = t].received = session[v].received
    BY <2>1, Zenon DEF Session
  <2> HIDE DEF Same
  <2> QED BY <1>2, <1>3, <2>1
<1>4. ASSUME NEW v, NEW status, NEW t,
             \/ session' = [session EXCEPT ![v] = [@ EXCEPT !.status = status]]
             \/ session' = [session EXCEPT ![v] = [@ EXCEPT !.status = status, !.expires_at = t]]
             \/ session' = [session EXCEPT ![v] = [@ EXCEPT !.status = status, !.r2_upload_id = t]]
             \/ session' = [session EXCEPT ![v] = [@ EXCEPT !.status = status, !.next_finalize_at = t]]
             \/ session' = [session EXCEPT ![v] = [@ EXCEPT !.status = status, !.next_abort_at = t]]
      PROVE  Same
  <2>1. ASSUME session[v] \in Session
        PROVE  /\ [session[v] EXCEPT !.status = status].received = session[v].received
               /\ [session[v] EXCEPT !.status = status, !.expires_at = t].received = session[v].received
               /\ [session[v] EXCEPT !.status = status, !.r2_upload_id = t].received = session[v].received
               /\ [session[v] EXCEPT !.status = status, !.next_finalize_at = t].received = session[v].received
               /\ [session[v] EXCEPT !.status = status, !.next_abort_at = t].received = session[v].received
    BY <2>1, SMT DEF Session
  <2> HIDE DEF Same
  <2> QED BY <1>2, <1>4, <2>1
<1>5. ASSUME NEW v, NEW reason, session' = [session EXCEPT ![v] = Aborting(v, reason)] PROVE Same
  <2>1. ASSUME session[v] \in Session PROVE Aborting(v, reason).received = session[v].received
    BY <2>1, Zenon DEF Aborting, Session
  <2> HIDE DEF Same
  <2> QED BY <1>2, <1>5, <2>1
<1>6. ASSUME LoseGate \/ UNCHANGED vars \/ \E v \in Uploads : CleanerStep(v) PROVE Same
  <2>1. session' = session
    BY <1>6, CleanerLeaves DEF LoseGate, rows, vars
  <2> QED BY <1>1, <2>1
<1>7. ASSUME NEW r \in Requests, ConfirmPart(r) PROVE Same
  BY <1>7, ConfirmLeaves
<1> HIDE DEF Same
<1>8. ASSUME NEW v \in Uploads, BeginInitialization(v) \/ InitializerStep(v) PROVE Same
  <2>1. CASE BeginInitialization(v)
    <3>1. session' = [session EXCEPT ![v] = [@ EXCEPT !.status = "initiating", !.expires_at = "later"]]
      BY <2>1 DEF BeginInitialization
    <3> QED BY <1>4, <3>1
  <2>2. CASE CompleteInitialization(v)
    <3>1. session' = [session EXCEPT ![v] = [@ EXCEPT !.status = "uploading", !.r2_upload_id = TRUE]]
      BY <2>2 DEF CompleteInitialization
    <3> QED BY <1>4, <3>1
  <2>3. CASE FailInitialization(v)
    BY <1>4, <2>3 DEF FailInitialization
  <2>4. CASE AcquireInitializationGate(v) \/ CreateMultipart(v) \/ CreateMultipartRejected(v)
             \/ CreateMultipartUnknown(v) \/ AbandonInitialization(v)
    BY <1>1, <2>4 DEF AcquireInitializationGate, CreateMultipart, CreateMultipartRejected,
       CreateMultipartUnknown, AbandonInitialization, rows
  <2> QED BY <1>8, <2>1, <2>2, <2>3, <2>4 DEF InitializerStep
<1>9. ASSUME NEW v \in Uploads, ClientStep(v) \/ ScheduleExpiry(v) \/ TimerStep(v) PROVE Same
  <2>1. CASE CompleteUploadExpired(v) \/ AbortUpload(v) \/ ScheduleExpiry(v)
    BY <1>5, <2>1 DEF CompleteUploadExpired, AbortUpload, SettleLifecycle, ScheduleExpiry
  <2>2. CASE CompleteUpload(v)
    BY <1>4, <2>2 DEF CompleteUpload, SettleLifecycle
  <2>3. CASE HideHistory(v) \/ TimerStep(v)
    BY <1>1, <1>3, <2>3 DEF HideHistory, TimerStep, FinalizeDue, AbortDue, SessionExpires, InitializationLeaseEnds
  <2> QED BY <1>9, <2>1, <2>2, <2>3 DEF ClientStep
<1>10. ASSUME NEW r \in Requests, RequestStep(r) \/ \E v \in Uploads, n \in PartNumbers : AcquirePart(r, v, n)
       PROVE  Same
  BY <1>1, <1>5, <1>7, <1>10 DEF RequestStep, PreparePart, PreparePartExpired, StorePart,
     ScheduleValidationAbort, DropPart, AcquirePart, rows
<1>11. ASSUME NEW w \in Workers, WorkerStep(w) \/ \E v \in Uploads : ClaimStep(w, v) PROVE Same
  <2>1. CASE \/ LeaveClaim(w) \/ FinalizeHead(w) \/ FinalizeList(w) \/ FinalizeListMissing(w)
             \/ FinalizeComplete(w) \/ FinalizeVerify(w) \/ AbortClean(w) \/ ReconcileClean(w)
             \/ ReconcileRelist(w)
    BY <1>1, <2>1 DEF LeaveClaim, FinalizeHead, FinalizeList, FinalizeListMissing, FinalizeComplete,
       FinalizeVerify, AbortClean, ReconcileClean, ReconcileRelist, Advance, rows
  <2>2. ASSUME NEW v \in Uploads, ClaimStep(w, v) PROVE Same
    <3>1. CASE FinalizeClaim(w, v)
      BY <1>3, <3>1 DEF FinalizeClaim
    <3>2. CASE AbortClaim(w, v)
      BY <1>3, <3>2 DEF AbortClaim
    <3>3. CASE ReconcileClaim(w, v)
      BY <1>1, <3>3 DEF ReconcileClaim
    <3> QED BY <2>2, <3>1, <3>2, <3>3 DEF ClaimStep
  <2>3. CASE FinalizeRetry(w)
    BY <1>3, <2>3 DEF FinalizeRetry
  <2>4. CASE AbortRetry(w)
    BY <1>3, <2>4 DEF AbortRetry
  <2>5. CASE FinalizeSucceed(w)
    <3>1. session' = [session EXCEPT ![worker[w].upload] = [@ EXCEPT !.status = "completed", !.next_finalize_at = "null"]]
      BY <2>5 DEF FinalizeSucceed
    <3> QED BY <1>4, <3>1
  <2>6. CASE FinalizeFail(w)
    <3>1. session' = [session EXCEPT ![worker[w].upload] = [@ EXCEPT !.status = "failed", !.next_finalize_at = "null"]]
      BY <2>6 DEF FinalizeFail
    <3> QED BY <1>4, <3>1
  <2>7. CASE AbortSettle(w)
    <3> DEFINE status == TerminalStatus(session[worker[w].upload].abort_reason)
    <3>1. session' = [session EXCEPT ![worker[w].upload] = [@ EXCEPT !.status = status, !.next_abort_at = "null"]]
      BY <2>7 DEF AbortSettle
    <3> HIDE DEF status
    <3> QED BY <1>4, <3>1
  <2>8. CASE ReconcileSettle(w)
    BY <1>4, <2>8 DEF ReconcileSettle
  <2> QED BY <1>11, <2>1, <2>2, <2>3, <2>4, <2>5, <2>6, <2>7, <2>8 DEF WorkerStep
<1> QED BY <1>6, <1>8, <1>9, <1>10, <1>11 DEF Next, Same

-----------------------------------------------------------------------------
(* The claims.                                                             *)

LEMMA JobsKept ==
  ASSUME TypeOK, ActorInv, RowsInv, ClaimsInv, [Next]_vars, NEW u \in Uploads
  PROVE  FinalizeInv(u)' /\ AbortInv(u)' /\ ReconcileInv(u)'
<1> DEFINE from == session[u].status
           to == session'[u].status
<1>1. FinalizeInv(u) /\ AbortInv(u) /\ ReconcileInv(u)
  BY DEF ClaimsInv
<1>2. ASSUME NEW w \in Workers, Works(w, u, "finalize")' PROVE to \in {"completing", "completed", "failed"}
  <2>1. CASE KeepsClaim(w)
    <3>1. from \in {"completing", "completed", "failed"}
      BY <1>1, <1>2, <2>1 DEF KeepsClaim, Works, FinalizeInv
    <3> QED BY <3>1, StatusSteps DEF StatusMove
  <2>2. CASE \E v \in Uploads, job \in AllJobs : Claims(w, v, job)
    BY <1>2, <2>2 DEF Claims, Works, Wanted
  <2> QED BY <1>2, <2>1, <2>2, WorkerSteps DEF IdleWorker, Works
<1>3. ASSUME NEW w \in Workers, Works(w, u, "abort")'
      PROVE  /\ to \in {"aborting", "aborted", "expired", "failed"}
             /\ worker'[w].fresh => to = "aborting"
  <2>1. CASE KeepsClaim(w)
    <3>1. /\ from \in {"aborting", "aborted", "expired", "failed"}
          /\ worker'[w].fresh => from = "aborting"
      BY <1>1, <1>3, <2>1 DEF KeepsClaim, Works, AbortInv
    <3>2. to # from => ~worker'[w].fresh
      BY <1>3, <3>1, StatusSteps DEF ClaimsVoided, Works, SessionJobs, StatusMove
    <3> QED BY <3>1, <3>2, StatusSteps DEF StatusMove
  <2>2. CASE \E v \in Uploads, job \in AllJobs : Claims(w, v, job)
    BY <1>3, <2>2 DEF Claims, Works, Wanted
  <2> QED BY <1>3, <2>1, <2>2, WorkerSteps DEF IdleWorker, Works
<1>4. ASSUME NEW w \in Workers, Works(w, u, "reconcile")'
      PROVE  /\ to \in {"initiating", "aborting", "aborted", "expired", "failed"}
             /\ ~initializer'[u].fresh
  <2>1. CASE KeepsClaim(w)
    <3>1. /\ from \in {"initiating", "aborting", "aborted", "expired", "failed"}
          /\ ~initializer[u].fresh
      BY <1>1, <1>4, <2>1 DEF KeepsClaim, Works, ReconcileInv
    <3>2. ~initializer'[u].fresh
      BY <3>1, InitializerSteps
    <3> QED BY <3>1, <3>2, StatusSteps DEF StatusMove
  <2>2. CASE \E v \in Uploads, job \in AllJobs : Claims(w, v, job)
    BY <1>4, <2>2 DEF Claims, Works, Wanted
  <2> QED BY <1>4, <2>1, <2>2, WorkerSteps DEF IdleWorker, Works
<1> QED BY <1>2, <1>3, <1>4 DEF FinalizeInv, AbortInv, ReconcileInv, Works

LEMMA StoredKept ==
  ASSUME TypeOK, ClaimsInv, [Next]_vars, NEW u \in Uploads
  PROVE  CreatedInv(u)' /\ StoredInv(u)'
<1> DEFINE from == session[u].status
           to == session'[u].status
<1>1. FinalizeInv(u) /\ AbortInv(u) /\ ReconcileInv(u) /\ CreatedInv(u) /\ StoredInv(u)
  BY DEF ClaimsInv
<1>2. spool[u] /\ ~spool'[u] =>
        /\ to = from /\ from \notin {"uploading", "completing"}
        /\ ~(initializer[u].fresh /\ from = "initiating")
  BY <1>1, StorageSteps DEF rows, AbortInv, ReconcileInv
<1>3. CreatedInv(u)'
  <2> SUFFICES ASSUME initializer'[u].at = "completing", initializer'[u].fresh, to = "initiating"
               PROVE  spool'[u]
    BY DEF CreatedInv
  <2>1. CASE from = "absent"
    BY <2>1, StatusSteps DEF StatusMove
  <2>2. CASE from # "absent"
    <3>1. from = "initiating"
      BY <2>2, StatusSteps DEF StatusMove
    <3> QED BY <1>1, <1>2, <2>2, <3>1, InitializerSteps DEF CreatedInv
  <2> QED BY <2>1, <2>2
<1>4. to = "completed" => object'[u] = "match"
  <2> SUFFICES ASSUME to = "completed" PROVE object'[u] = "match"
    OBVIOUS
  <2>1. object[u] = "match"
    BY <1>1, StatusSteps DEF StoredInv, StatusMove
  <2> QED BY <2>1, StorageSteps
<1>5. object'[u] # "none" => to \in {"completing", "completed", "failed"}
  <2> SUFFICES ASSUME object'[u] # "none" PROVE to \in {"completing", "completed", "failed"}
    OBVIOUS
  <2>1. from \in {"completing", "completed", "failed"}
    BY <1>1, StorageSteps DEF StoredInv, FinalizeInv
  <2> QED BY <2>1, StatusSteps DEF StatusMove
<1>6. to \in {"uploading", "completing"} => spool'[u]
  <2> SUFFICES ASSUME to \in {"uploading", "completing"} PROVE spool'[u]
    OBVIOUS
  <2>1. spool[u]
    BY <1>1, StatusSteps DEF StoredInv, CreatedInv, StatusMove
  <2> QED BY <1>2, <2>1
<1> QED BY <1>3, <1>4, <1>5, <1>6 DEF StoredInv

LEMMA FreshKept ==
  ASSUME TypeOK, ClaimsInv, [Next]_vars
  PROVE  /\ \A w \in Workers : worker'[w].fresh => worker'[w].job # "none"
         /\ SingleFreshClaim'
<1>1. ASSUME NEW w \in Workers, worker'[w].fresh PROVE worker'[w].job # "none"
  <2>1. KeepsClaim(w) => worker'[w].job # "none"
    BY <1>1 DEF KeepsClaim, ClaimsInv
  <2>2. ASSUME NEW u \in Uploads, NEW job \in AllJobs, Claims(w, u, job) PROVE worker'[w].job # "none"
    BY <2>2 DEF Claims, AllJobs
  <2> QED BY <1>1, <2>1, <2>2, WorkerSteps DEF IdleWorker
<1>2. ASSUME NEW v \in Workers, NEW w \in Workers, v # w,
             worker'[v].fresh, worker'[w].fresh, worker'[v].upload = worker'[w].upload,
             worker'[v].job \in SessionJobs <=> worker'[w].job \in SessionJobs
      PROVE  FALSE
  <2>1. worker'[v] # IdleWorker /\ worker'[w] # IdleWorker
    BY <1>2 DEF IdleWorker
  <2>2. worker'[v].job \in AllJobs /\ worker'[w].job \in AllJobs
    <3>1. worker' \in [Workers -> Worker]
      BY StepTyped DEF TypeOK
    <3>2. \A x \in Workers : worker'[x].job \in AllJobs \union {"none"}
      BY <3>1 DEF Worker, AllJobs
    <3> QED BY <1>1, <1>2, <3>2
  <2>3. ASSUME NEW x \in Workers, NEW y \in Workers, x # y, NEW u \in Uploads, NEW job \in AllJobs, Claims(x, u, job),
               worker'[y].upload = worker'[x].upload, worker'[y].job \in AllJobs,
               worker'[y].job \in SessionJobs <=> worker'[x].job \in SessionJobs
        PROVE  ~worker'[y].fresh
    <3>1. worker'[y].upload = u /\ worker'[y].job \in Rivals(job)
      BY <2>3 DEF Claims, Rivals, AllJobs, SessionJobs
    <3> QED BY <2>3, <3>1 DEF Claims
  <2>4. KeepsClaim(v) /\ KeepsClaim(w)
    BY <1>2, <2>1, <2>2, <2>3, WorkerSteps
  <2> QED BY <1>2, <2>4 DEF KeepsClaim, ClaimsInv, SingleFreshClaim
<1> QED BY <1>1, <1>2 DEF SingleFreshClaim

ClaimsAndRows == RowsAndActors /\ ClaimsInv

(* The inductive invariant behind the three properties that follow: who    *)
(* may still settle an upload, what state it is in meanwhile, and what is  *)
(* stored for it.                                                          *)
THEOREM ClaimsInvariant == Spec => []ClaimsAndRows
<1>1. Init => ClaimsInv
  BY DEF Init, ClaimsInv, SingleFreshClaim, FinalizeInv, AbortInv, ReconcileInv, CreatedInv, StoredInv, Works,
     IdleWorker, AbsentSession, Unstarted
<1>2. RowsAndActors /\ ClaimsInv /\ [Next]_vars => ClaimsInv'
  BY JobsKept, StoredKept, FreshKept DEF RowsAndActors, ClaimsInv
<1> QED BY <1>1, <1>2, RowsInvariant, PTL DEF Spec, ClaimsAndRows

(* At most one of the workers that claimed an upload can still settle it,  *)
(* however many leases ran out and locks were lost.                        *)
THEOREM ClaimsAreExclusive == Spec => []SingleFreshClaim
<1>1. ClaimsAndRows => SingleFreshClaim
  BY DEF ClaimsAndRows, ClaimsInv
<1> QED BY <1>1, ClaimsInvariant, PTL

(* No session is completed over a missing or a foreign object, and no      *)
(* object appears for a session that was not accepted.                     *)
THEOREM CompletedIsAlwaysStored == Spec => []CompletedIsStored
<1>1. ClaimsAndRows => CompletedIsStored
  BY DEF ClaimsAndRows, ClaimsInv, StoredInv, CompletedIsStored
<1> QED BY <1>1, ClaimsInvariant, PTL

(* No cleaner removes the bytes of a session that still needs them.        *)
THEOREM SpoolAlwaysKept == Spec => []SpoolKeptWhileNeeded
<1>1. ClaimsAndRows => SpoolKeptWhileNeeded
  BY DEF ClaimsAndRows, ClaimsInv, StoredInv, SpoolKeptWhileNeeded
<1> QED BY <1>1, ClaimsInvariant, PTL

-----------------------------------------------------------------------------
(* The gates.                                                              *)

(* A part request takes its lock first, and every step of it that may      *)
(* write bytes has seen an open session.                                   *)
Acquires(r) ==
  /\ \E u \in Uploads : /\ request'[r].upload = u
                       /\ \A w \in Workers : ~(worker[w].upload = u /\ worker[w].gated)
  /\ request'[r].at = "preparing" /\ request'[r].gated
  /\ UNCHANGED <<session, worker, gateLosses>>

KeepsLock(r) ==
  /\ request'[r].upload = request[r].upload
  /\ request'[r].at # "idle" => request[r].at # "idle"
  /\ request'[r].gated = request[r].gated \/ gateLosses' = gateLosses + 1
  /\ request'[r].at \in {"storing", "confirming"} =>
       \/ request[r].at \in {"storing", "confirming"}
       \/ session[request[r].upload].status = "uploading" /\ UNCHANGED session

LEMMA RequestSteps ==
  ASSUME TypeOK, [Next]_vars, NEW r \in Requests
  PROVE  KeepsLock(r) \/ request'[r] = IdleRequest \/ Acquires(r)
<1>1. ASSUME request' = request PROVE KeepsLock(r)
  BY <1>1 DEF KeepsLock
<1>2. ASSUME NEW q \in Requests, NEW u \in Uploads, NEW n \in PartNumbers, AcquirePart(q, u, n)
      PROVE  KeepsLock(r) \/ Acquires(r)
  <2>1. CASE q = r
    BY <1>2, <2>1 DEF AcquirePart, CanTakePart, HeldExclusively, Acquires, TypeOK, rows
  <2>2. CASE q # r
    BY <1>1, <1>2, <2>2 DEF AcquirePart, KeepsLock, TypeOK
  <2> QED BY <2>1, <2>2
<1>3. ASSUME NEW q \in Requests, PreparePart(q) \/ StorePart(q) PROVE KeepsLock(r)
  <2>1. CASE q = r
    <3>1. CASE PreparePart(q)
      BY <2>1, <3>1 DEF PreparePart, KeepsLock, TypeOK, Request, rows
    <3>2. CASE StorePart(q)
      BY <2>1, <3>2 DEF StorePart, KeepsLock, TypeOK, Request, rows
    <3> QED BY <1>3, <3>1, <3>2
  <2>2. CASE q # r
    BY <1>3, <2>2 DEF PreparePart, StorePart, KeepsLock, TypeOK
  <2> QED BY <2>1, <2>2
<1>4. ASSUME NEW q \in Requests,
             PreparePartExpired(q) \/ ScheduleValidationAbort(q) \/ ConfirmPart(q) \/ DropPart(q)
      PROVE  KeepsLock(r) \/ request'[r] = IdleRequest
  <2>1. request' = [request EXCEPT ![q] = IdleRequest]
    BY <1>4 DEF PreparePartExpired, ScheduleValidationAbort, ConfirmPart, DropPart
  <2> QED BY <2>1 DEF KeepsLock, TypeOK
<1>5. ASSUME LoseGate PROVE KeepsLock(r)
  <2>1. gateLosses' = gateLosses + 1
    BY <1>5 DEF LoseGate
  <2>2. request' = request \/ \E q \in Requests : request' = [request EXCEPT ![q].gated = FALSE]
    BY <1>5 DEF LoseGate
  <2>3. request'[r].upload = request[r].upload /\ request'[r].at = request[r].at
    <3>1. ASSUME NEW q \in Requests, request' = [request EXCEPT ![q].gated = FALSE]
          PROVE  request'[r].upload = request[r].upload /\ request'[r].at = request[r].at
      <4>1. CASE q = r
        BY <3>1, <4>1 DEF TypeOK, Request
      <4>2. CASE q # r
        BY <3>1, <4>2 DEF TypeOK
      <4> QED BY <4>1, <4>2
    <3> QED BY <2>2, <3>1
  <2> QED BY <2>1, <2>3 DEF KeepsLock
<1>6. ASSUME NEW u \in Uploads,
             BeginInitialization(u) \/ InitializerStep(u) \/ ClientStep(u) \/ ScheduleExpiry(u) \/ TimerStep(u)
      PROVE  request' = request
  BY <1>6 DEF BeginInitialization, InitializerStep, AcquireInitializationGate, CreateMultipart,
     CreateMultipartRejected, CreateMultipartUnknown, CompleteInitialization, FailInitialization,
     AbandonInitialization, ClientStep, CompleteUpload, CompleteUploadExpired, AbortUpload, SettleLifecycle, HideHistory,
     ScheduleExpiry, TimerStep, FinalizeDue, AbortDue, SessionExpires, InitializationLeaseEnds
<1>7. ASSUME NEW w \in Workers, WorkerStep(w) \/ \E u \in Uploads : ClaimStep(w, u) PROVE request' = request
  BY <1>7 DEF WorkerStep, ClaimStep, LeaveClaim, FinalizeHead, FinalizeList, FinalizeListMissing,
     FinalizeComplete, FinalizeVerify, FinalizeSucceed, FinalizeFail, FinalizeRetry, AbortClean, AbortSettle,
     AbortRetry, ReconcileClean, ReconcileRelist, ReconcileSettle, Advance, FinalizeClaim, AbortClaim, ReconcileClaim
<1>8. ASSUME NEW u \in Uploads, CleanerStep(u) PROVE request' = request
  BY <1>8, CleanerLeaves
<1> QED BY <1>1, <1>2, <1>3, <1>4, <1>5, <1>6, <1>7, <1>8 DEF Next, RequestStep, vars

LEMMA GateLossesOnly ==
  ASSUME [Next]_vars
  PROVE  gateLosses' = gateLosses \/ gateLosses' = gateLosses + 1
<1>1. ASSUME NEW u \in Uploads,
             BeginInitialization(u) \/ InitializerStep(u) \/ ClientStep(u) \/ ScheduleExpiry(u) \/ TimerStep(u)
      PROVE  gateLosses' = gateLosses
  BY <1>1 DEF BeginInitialization, InitializerStep, AcquireInitializationGate, CreateMultipart,
     CreateMultipartRejected, CreateMultipartUnknown, CompleteInitialization, FailInitialization,
     AbandonInitialization, ClientStep, CompleteUpload, CompleteUploadExpired, AbortUpload, SettleLifecycle, HideHistory,
     ScheduleExpiry, TimerStep, FinalizeDue, AbortDue, SessionExpires, InitializationLeaseEnds
<1>2. ASSUME NEW r \in Requests, RequestStep(r) \/ \E u \in Uploads, n \in PartNumbers : AcquirePart(r, u, n)
      PROVE  gateLosses' = gateLosses
  BY <1>2 DEF RequestStep, PreparePart, PreparePartExpired, StorePart, ScheduleValidationAbort, ConfirmPart,
     DropPart, AcquirePart
<1>3. ASSUME NEW w \in Workers, WorkerStep(w) \/ \E u \in Uploads : ClaimStep(w, u) PROVE gateLosses' = gateLosses
  BY <1>3 DEF WorkerStep, ClaimStep, LeaveClaim, FinalizeHead, FinalizeList, FinalizeListMissing,
     FinalizeComplete, FinalizeVerify, FinalizeSucceed, FinalizeFail, FinalizeRetry, AbortClean, AbortSettle,
     AbortRetry, ReconcileClean, ReconcileRelist, ReconcileSettle, Advance, FinalizeClaim, AbortClaim, ReconcileClaim
<1>4. ASSUME LoseGate \/ UNCHANGED vars \/ \E u \in Uploads : CleanerStep(u)
      PROVE  gateLosses' = gateLosses \/ gateLosses' = gateLosses + 1
  BY <1>4, CleanerLeaves DEF LoseGate, vars
<1> QED BY <1>1, <1>2, <1>3, <1>4 DEF Next

LEMMA GatesKept ==
  ASSUME TypeOK, ActorInv, GateInv, [Next]_vars
  PROVE  GateInv'
<1>1. ASSUME NEW w \in Workers, worker'[w].job = "none" PROVE worker'[w].upload = NoUpload
  <2>1. KeepsClaim(w) => worker'[w].upload = NoUpload
    BY <1>1 DEF KeepsClaim, GateInv
  <2>2. \A u \in Uploads, job \in AllJobs : ~Claims(w, u, job)
    BY <1>1 DEF Claims, AllJobs
  <2> QED BY <2>1, <2>2, WorkerSteps DEF IdleWorker
<1> SUFFICES ASSUME gateLosses' = 0
             PROVE  /\ \A r \in Requests : request'[r].at # "idle" => request'[r].gated
                    /\ \A w \in Workers : worker'[w].job # "none" => worker'[w].gated
                    /\ \A r \in Requests, w \in Workers :
                         request'[r].at # "idle" /\ worker'[w].job # "none" => worker'[w].upload # request'[r].upload
                    /\ \A r \in Requests :
                         request'[r].at \in {"storing", "confirming"} =>
                           session'[request'[r].upload].status \in {"uploading", "aborting"}
  BY <1>1 DEF GateInv
<1>2. gateLosses = 0 /\ gateLosses' # gateLosses + 1
  <2>1. gateLosses \in Nat /\ (gateLosses' = gateLosses \/ gateLosses' = gateLosses + 1)
    <3>1. gateLosses' = gateLosses \/ gateLosses' = gateLosses + 1
      BY GateLossesOnly
    <3> QED BY <3>1, MaxGateLossesAssumption DEF TypeOK
  <2> QED BY <2>1
<1>3. ASSUME NEW r \in Requests, request'[r].at # "idle" PROVE request'[r].gated
  BY <1>2, <1>3, RequestSteps DEF GateInv, KeepsLock, Acquires, IdleRequest
<1>4. ASSUME NEW w \in Workers, worker'[w].job # "none" PROVE worker'[w].gated
  BY <1>2, <1>4, WorkerSteps DEF GateInv, KeepsClaim, Claims, IdleWorker
<1>5. ASSUME NEW r \in Requests, NEW w \in Workers, request'[r].at # "idle", worker'[w].job # "none",
             worker'[w].upload = request'[r].upload
      PROVE  FALSE
  <2>1. CASE Acquires(r)
    BY <1>2, <1>5, <2>1 DEF Acquires, GateInv
  <2>2. CASE KeepsLock(r)
    <3>1. request[r].at # "idle" /\ request[r].gated /\ request[r].upload = request'[r].upload
      BY <1>2, <1>5, <2>2 DEF KeepsLock, GateInv
    <3>2. CASE KeepsClaim(w)
      BY <1>2, <1>5, <3>1, <3>2 DEF KeepsClaim, GateInv
    <3>3. CASE \E u \in Uploads, job \in AllJobs : Claims(w, u, job)
      BY <1>5, <3>1, <3>3 DEF Claims, CanTakeExclusive, HeldShared
    <3> QED BY <1>5, <3>2, <3>3, WorkerSteps DEF IdleWorker
  <2> QED BY <1>5, <2>1, <2>2, RequestSteps DEF IdleRequest
<1>6. ASSUME NEW r \in Requests, request'[r].at \in {"storing", "confirming"}
      PROVE  session'[request'[r].upload].status \in {"uploading", "aborting"}
  <2>1. KeepsLock(r)
    BY <1>6, RequestSteps DEF Acquires, IdleRequest
  <2> DEFINE u == request[r].upload
  <2>2. request'[r].upload = u /\ request[r].at # "idle" /\ request[r].gated
    BY <1>2, <1>6, <2>1 DEF KeepsLock, GateInv
  <2>3. u \in Uploads
    BY <2>2 DEF ActorInv
  <2>4. session[u].status \in {"uploading", "aborting"}
    BY <1>2, <1>6, <2>1 DEF KeepsLock, GateInv
  <2>5. ~CanTakeExclusive(u)
    BY <2>2 DEF CanTakeExclusive, HeldShared
  <2>6. \A w \in Workers : ~Works(w, u, "abort")
    BY <1>2, <2>2 DEF Works, GateInv
  <2> QED BY <2>2, <2>3, <2>4, <2>5, <2>6, StatusSteps DEF StatusMove
<1> QED BY <1>3, <1>4, <1>5, <1>6

(* While no lock was lost, no request can write bytes of an upload that    *)
(* was accepted or that a worker is finishing or cleaning up.              *)
THEOREM OwnersAreAlone == Spec => []NoWriterBesideOwner
<1>1. Init => GateInv
  BY DEF Init, GateInv, IdleWorker, IdleRequest
<1>2. RowsAndActors /\ GateInv /\ [Next]_vars => GateInv'
  BY GatesKept DEF RowsAndActors
<1>3. RowsAndActors /\ GateInv => NoWriterBesideOwner
  BY UploadsAssumption DEF RowsAndActors, ActorInv, GateInv, NoWriterBesideOwner
<1> QED BY <1>1, <1>2, <1>3, RowsInvariant, PTL DEF Spec

-----------------------------------------------------------------------------
(* The limit on unfinished sessions.                                       *)

LEMMA UnfinishedSteps ==
  ASSUME TypeOK, [Next]_vars
  PROVE  \/ UnfinishedUploads' \subseteq UnfinishedUploads
         \/ /\ UnderSessionLimit
            /\ \E u \in Uploads : UnfinishedUploads' = UnfinishedUploads \union {u}
<1>1. CASE \E u \in Uploads : StatusMove(u, {"absent"}, "initiating")
  <2>1. PICK u \in Uploads : StatusMove(u, {"absent"}, "initiating")
    BY <1>1
  <2>2. UnderSessionLimit /\ \A v \in Uploads \ {u} : session'[v] = session[v]
    BY <2>1, StatusSteps DEF StatusMove
  <2>3. UnfinishedUploads' = UnfinishedUploads \union {u}
    BY <2>1, <2>2 DEF StatusMove, UnfinishedUploads, Unfinished
  <2> QED BY <2>2, <2>3
<1>2. CASE ~\E u \in Uploads : StatusMove(u, {"absent"}, "initiating")
  <2>1. ASSUME NEW u \in Uploads, session'[u].status \in Unfinished PROVE session[u].status \in Unfinished
    BY <1>2, <2>1, StatusSteps DEF StatusMove, Unfinished
  <2> QED BY <2>1 DEF UnfinishedUploads
<1> QED BY <1>1, <1>2

(* No sequence of initializations, however interleaved with the endings of *)
(* other sessions, takes a user over the limit.                            *)
THEOREM LimitHolds == Spec => []SessionLimitHolds
<1>1. IsFiniteSet(UnfinishedUploads)
  BY UploadsAssumption, FS_Subset DEF UnfinishedUploads
<1>2. Init => SessionLimitHolds
  <2> SUFFICES ASSUME Init PROVE SessionLimitHolds
    OBVIOUS
  <2>1. UnfinishedUploads = {}
    BY DEF Init, UnfinishedUploads, Unfinished, AbsentSession
  <2> QED BY <2>1, FS_EmptySet, SessionLimitAssumption DEF SessionLimitHolds
<1>3. TypeOK /\ SessionLimitHolds /\ [Next]_vars => SessionLimitHolds'
  <2> SUFFICES ASSUME TypeOK, SessionLimitHolds, [Next]_vars PROVE SessionLimitHolds'
    OBVIOUS
  <2>1. Cardinality(UnfinishedUploads) \in Nat
    BY <1>1, FS_CardinalityType
  <2>2. CASE UnfinishedUploads' \subseteq UnfinishedUploads
    <3>1. Cardinality(UnfinishedUploads') \in Nat /\ Cardinality(UnfinishedUploads') <= Cardinality(UnfinishedUploads)
      BY <1>1, <2>2, FS_Subset, FS_CardinalityType
    <3> QED BY <2>1, <3>1, SessionLimitAssumption DEF SessionLimitHolds
  <2>3. CASE UnderSessionLimit /\ \E u \in Uploads : UnfinishedUploads' = UnfinishedUploads \union {u}
    <3>1. PICK u \in Uploads : UnfinishedUploads' = UnfinishedUploads \union {u}
      BY <2>3
    <3>2. Cardinality(UnfinishedUploads \union {u}) \in {Cardinality(UnfinishedUploads), Cardinality(UnfinishedUploads) + 1}
      BY <1>1, FS_AddElement
    <3>3. Cardinality(UnfinishedUploads') \in {Cardinality(UnfinishedUploads), Cardinality(UnfinishedUploads) + 1}
      BY <3>1, <3>2
    <3>4. Cardinality(UnfinishedUploads) < SessionLimit
      BY <2>3 DEF UnderSessionLimit
    <3> QED BY <2>1, <3>3, <3>4, SessionLimitAssumption DEF SessionLimitHolds
  <2> QED BY <2>2, <2>3, UnfinishedSteps
<1> QED BY <1>2, <1>3, Typing, PTL DEF Spec

-----------------------------------------------------------------------------
(* What the client was shown.                                              *)

Shown == {"uploaded", "aborted", "expired", "upload_failed"}

LEMMA PublicStatusKept ==
  ASSUME TypeOK, TypeOK', RowsInv, RowsInv', [Next]_vars, NEW u \in Uploads,
         session[u].status # "absent", PublicStatus(u) \in Shown
  PROVE  PublicStatus(u)' = PublicStatus(u)
<1> DEFINE from == session[u].status
           to == session'[u].status
<1>1. RowInv(u) /\ RowInv(u)'
  BY DEF RowsInv
<1>2. /\ media[u] \in {"absent", "pending_upload", "ready", "failed", "aborted"}
      /\ from \in Status
  BY DEF TypeOK, Session
<1>3. from \in {"completing"} \union Terminal
  BY <1>1, <1>2 DEF PublicStatus, Shown, RowInv, Status, Terminal
<1>4. CASE from = "completing"
  <2>1. session[u].received
    BY <1>1, <1>4 DEF RowInv
  <2>2. to \in {"completing", "completed", "failed"}
    BY <1>4, StatusSteps DEF StatusMove
  <2>3. session'[u].received
    BY <1>4, <2>1, ReceivedSteps
  <2> QED BY <1>4, <2>1, <2>2, <2>3 DEF PublicStatus
<1>5. CASE from \in Terminal
  <2>1. to = from
    BY <1>5, StatusSteps DEF StatusMove, Terminal
  <2>2. session'[u].received = session[u].received
    BY <1>5, ReceivedSteps DEF Terminal
  <2>3. media'[u] = media[u]
    <3>1. media'[u] \in {"absent", "pending_upload", "ready", "failed", "aborted"}
      BY DEF TypeOK
    <3> QED BY <1>1, <1>2, <1>5, <2>1, <3>1 DEF RowInv, Terminal
  <2> QED BY <2>1, <2>2, <2>3 DEF PublicStatus
<1> QED BY <1>3, <1>4, <1>5

(* No step takes back a result that a client may have been shown.          *)
THEOREM ShownIsFinal == Spec => PublicStatusIsFinal
<1>1. ClaimsAndRows /\ ClaimsAndRows' /\ [Next]_vars =>
        [\A u \in Uploads :
           session[u].status # "absent" /\ PublicStatus(u) \in {"uploaded", "aborted", "expired", "upload_failed"}
           => PublicStatus(u)' = PublicStatus(u)]_vars
  BY PublicStatusKept DEF ClaimsAndRows, RowsAndActors, Shown
<1> QED BY <1>1, ClaimsInvariant, PTL DEF Spec, PublicStatusIsFinal

-----------------------------------------------------------------------------
(* UploadSession implements UploadLifecycle: whatever the handlers and     *)
(* workers do, in any number and with any number of lost locks, an owner   *)
(* sees the life of an upload that the abstract specification allows.      *)

(* A finalizer works on an upload whose owner was told "uploaded".         *)
AnsweredInv ==
  \A u \in Uploads :
    /\ session[u].status = "completing" => "accepted" \in answers[u]
    /\ \A w \in Workers : Works(w, u, "finalize") => "accepted" \in answers[u]

(* An answer that was given stays.                                         *)
LEMMA AnswersGrow ==
  ASSUME TypeOK, [Next]_vars, NEW u \in Uploads
  PROVE  answers[u] \subseteq answers'[u]
<1>1. ASSUME NEW v \in Uploads, ClientStep(v) PROVE answers[u] \subseteq answers'[u]
  <2>1. answers' = answers \/ \E answer : answers' = [answers EXCEPT ![v] = @ \union {answer}]
    BY <1>1 DEF ClientStep, CompleteUpload, CompleteUploadExpired, AbortUpload, SettleLifecycle, HideHistory
  <2> QED BY <2>1 DEF TypeOK
<1>2. ASSUME NEW v \in Uploads, BeginInitialization(v) \/ InitializerStep(v) \/ ScheduleExpiry(v) \/ TimerStep(v)
      PROVE  answers' = answers
  BY <1>2 DEF BeginInitialization, InitializerStep, AcquireInitializationGate, CreateMultipart,
     CreateMultipartRejected, CreateMultipartUnknown, CompleteInitialization, FailInitialization,
     AbandonInitialization, rows, ScheduleExpiry, TimerStep, FinalizeDue, AbortDue, SessionExpires,
     InitializationLeaseEnds
<1>3. ASSUME NEW r \in Requests, RequestStep(r) \/ \E v \in Uploads, n \in PartNumbers : AcquirePart(r, v, n)
      PROVE  answers' = answers
  BY <1>3 DEF RequestStep, PreparePart, PreparePartExpired, StorePart, ScheduleValidationAbort, ConfirmPart,
     DropPart, AcquirePart, rows
<1>4. ASSUME NEW w \in Workers, WorkerStep(w) \/ \E v \in Uploads : ClaimStep(w, v) PROVE answers' = answers
  BY <1>4 DEF WorkerStep, ClaimStep, LeaveClaim, FinalizeHead, FinalizeList, FinalizeListMissing,
     FinalizeComplete, FinalizeVerify, FinalizeSucceed, FinalizeFail, FinalizeRetry, AbortClean, AbortSettle,
     AbortRetry, ReconcileClean, ReconcileRelist, ReconcileSettle, Advance, FinalizeClaim, AbortClaim,
     ReconcileClaim, rows
<1>5. ASSUME LoseGate \/ UNCHANGED vars \/ \E v \in Uploads : CleanerStep(v) PROVE answers' = answers
  BY <1>5, CleanerLeaves DEF LoseGate, rows, vars
<1> QED BY <1>1, <1>2, <1>3, <1>4, <1>5 DEF Next

LEMMA AnsweredKept ==
  ASSUME TypeOK, AnsweredInv, [Next]_vars
  PROVE  AnsweredInv'
<1>1. ASSUME NEW u \in Uploads, session'[u].status = "completing" PROVE "accepted" \in answers'[u]
  BY <1>1, StatusSteps, AnswersGrow DEF AnsweredInv, StatusMove
<1>2. ASSUME NEW u \in Uploads, NEW w \in Workers, Works(w, u, "finalize")' PROVE "accepted" \in answers'[u]
  <2>1. CASE KeepsClaim(w)
    BY <1>2, <2>1, AnswersGrow DEF KeepsClaim, Works, AnsweredInv
  <2>2. CASE \E v \in Uploads, job \in AllJobs : Claims(w, v, job)
    <3>1. session[u].status = "completing"
      BY <1>2, <2>2 DEF Claims, Works, Wanted
    <3> QED BY <3>1, AnswersGrow DEF AnsweredInv
  <2> QED BY <1>2, <2>1, <2>2, WorkerSteps DEF IdleWorker, Works
<1> QED BY <1>1, <1>2 DEF AnsweredInv, Works

-----------------------------------------------------------------------------
(* The refinement mapping.                                                 *)

Ending(reason) == IF reason = "none" THEN "none" ELSE TerminalStatus(reason)
phase == [u \in Uploads |-> Phase(session[u].status)]
ending == [u \in Uploads |-> Ending(session[u].abort_reason)]

(* A step that writes at most one session row moves one upload.            *)
LEMMA OneMoves ==
  ASSUME NEW u \in Uploads, \A v \in Uploads \ {u} : session'[v] = session[v]
  PROVE  /\ phase' = [phase EXCEPT ![u] = Phase(session'[u].status)]
         /\ ending' = [ending EXCEPT ![u] = Ending(session'[u].abort_reason)]
         /\ session'[u].status = session[u].status => phase' = phase
         /\ session'[u].abort_reason = session[u].abort_reason => ending' = ending
BY DEF phase, ending

LEMMA Phases ==
  /\ Phase("absent") = "none"
  /\ Phase("initiating") = "open" /\ Phase("uploading") = "open"
  /\ Phase("aborting") = "cancelling" /\ Phase("completing") = "accepted"
  /\ Phase("completed") = "completed" /\ Phase("failed") = "failed"
  /\ Phase("aborted") = "aborted" /\ Phase("expired") = "expired"
BY DEF Phase

(* Nothing that the abstract specification can see.                        *)
LEMMA Invisible ==
  ASSUME NEW u \in Uploads, \A v \in Uploads \ {u} : session'[v] = session[v],
         session'[u].abort_reason = session[u].abort_reason,
         Phase(session'[u].status) = Phase(session[u].status),
         answers' = answers, object' = object
  PROVE  UNCHANGED Lifecycle!lifecycle
<1>1. phase' = phase /\ ending' = ending
  BY DEF phase, ending
<1> QED BY <1>1 DEF Lifecycle!lifecycle, phase, ending, Ending

LEMMA InvisibleEverywhere ==
  ASSUME session' = session, answers' = answers, object' = object
  PROVE  UNCHANGED Lifecycle!lifecycle
BY DEF Lifecycle!lifecycle

LEMMA MappedInit == Init => Lifecycle!Init
<1> SUFFICES ASSUME Init PROVE Lifecycle!Init
  OBVIOUS
<1>1. \A u \in Uploads : Phase(session[u].status) = "none" /\ session[u].abort_reason = "none"
  BY DEF Init, AbsentSession, Phase
<1>2. answers = [u \in Uploads |-> {}] /\ object = [u \in Uploads |-> "none"]
  BY DEF Init
<1> QED BY <1>1, <1>2 DEF Lifecycle!Init

(* Every way into "aborting" is a Cancel.                                  *)
LEMMA MappedCancel ==
  ASSUME TypeOK, RowsInv, NEW u \in Uploads, NEW reason \in Reason \ {"none"},
         session[u].status \in {"initiating", "uploading"},
         session' = [session EXCEPT ![u] = Aborting(u, reason)],
         \/ answers' = answers /\ reason \in {"expired", "validationFailed"}
         \/ reason = "expired" /\ answers' = [answers EXCEPT ![u] = @ \union {"expired"}]
         \/ reason # "validationFailed" /\ answers' = [answers EXCEPT ![u] = @ \union {"cancelling"}],
         object' = object
  PROVE  Lifecycle!Cancel(u)
<1>1. answers[u] = {}
  BY Unanswered DEF RowsInv
<1>2. session'[u].status = "aborting" /\ session'[u].abort_reason = reason
  BY DEF Aborting, TypeOK, Session
<1>3. phase[u] = "open" /\ phase' = [phase EXCEPT ![u] = "cancelling"]
      /\ ending' = [ending EXCEPT ![u] = TerminalStatus(reason)]
  <2>1. \A v \in Uploads \ {u} : session'[v] = session[v]
    BY DEF TypeOK
  <2>2. phase[u] = "open"
    BY Phases DEF phase
  <2> QED BY <1>2, <2>1, <2>2, OneMoves, Phases DEF Ending
<1>4. \E verdict \in {{}, {"cancelling"}, {"expired"}} :
        /\ answers' = [answers EXCEPT ![u] = verdict]
        /\ verdict = {"expired"} => TerminalStatus(reason) = "expired"
        /\ verdict = {"cancelling"} => TerminalStatus(reason) # "failed"
        /\ TerminalStatus(reason) = "aborted" => verdict # {}
  <2>1. TerminalStatus("expired") = "expired" /\ TerminalStatus("validationFailed") = "failed"
        /\ TerminalStatus("userCancelled") = "aborted"
    BY DEF TerminalStatus
  <2>2. CASE answers' = answers /\ reason \in {"expired", "validationFailed"}
    BY <1>1, <2>1, <2>2 DEF TypeOK
  <2>3. CASE reason = "expired" /\ answers' = [answers EXCEPT ![u] = @ \union {"expired"}]
    BY <1>1, <2>1, <2>3
  <2>4. CASE reason # "validationFailed" /\ answers' = [answers EXCEPT ![u] = @ \union {"cancelling"}]
    BY <1>1, <2>1, <2>4 DEF Reason
  <2> QED BY <2>2, <2>3, <2>4
<1> QED BY <1>3, <1>4, TerminalStatusType DEF Lifecycle!Cancel, phase, ending, Ending

(* The instance has its own Cardinality.                                   *)
LEMMA SameCardinality == \A S : Lifecycle!Cardinality(S) = Cardinality(S)
BY Zenon DEF Lifecycle!Cardinality, Cardinality

(* The two ways in which a session never opens.                            *)
LEMMA MappedFailToOpen ==
  ASSUME NEW u \in Uploads, session[u].status = "initiating", session'[u].status = "failed",
         session'[u].abort_reason = session[u].abort_reason,
         \A v \in Uploads \ {u} : session'[v] = session[v],
         answers' = answers, object' = object
  PROVE  Lifecycle!Next
<1>1. phase[u] = "open" /\ phase' = [phase EXCEPT ![u] = "failed"] /\ ending' = ending
  BY OneMoves, Phases DEF phase
<1>2. Lifecycle!FailToOpen(u)
  BY <1>1 DEF Lifecycle!FailToOpen, phase, ending, Ending
<1> QED BY <1>2 DEF Lifecycle!Next

-----------------------------------------------------------------------------
(* Every step is a step of the lifecycle or cannot be seen.                *)

LEMMA InitializerMaps ==
  ASSUME TypeOK, RowsInv, NEW u \in Uploads, BeginInitialization(u) \/ InitializerStep(u)
  PROVE  Lifecycle!Next \/ UNCHANGED Lifecycle!lifecycle
<1>0. \A v \in Uploads \ {u} : session'[v] = session[v]
  BY DEF BeginInitialization, InitializerStep, AcquireInitializationGate, CreateMultipart,
     CreateMultipartRejected, CreateMultipartUnknown, CompleteInitialization, FailInitialization,
     AbandonInitialization, rows, TypeOK
<1>1. CASE BeginInitialization(u)
  <2>1. /\ session[u].status = "absent" /\ session'[u].status = "initiating"
        /\ session'[u].abort_reason = session[u].abort_reason
    BY <1>1 DEF BeginInitialization, TypeOK, Session
  <2>2. phase[u] = "none" /\ phase' = [phase EXCEPT ![u] = "open"] /\ ending' = ending
    BY <1>0, <2>1, OneMoves, Phases DEF phase
  <2>3. {v \in Uploads : phase[v] \in {"open", "cancelling"}} = UnfinishedUploads
    <3>1. \A v \in Uploads : phase[v] \in {"open", "cancelling"} <=> session[v].status \in Unfinished
      <4>1. \A status \in Status : Phase(status) \in {"open", "cancelling"} <=> status \in Unfinished
        BY DEF Phase, Status, Terminal, Unfinished
      <4>2. \A v \in Uploads : session[v].status \in Status
        BY DEF TypeOK, Session
      <4> QED BY <4>1, <4>2 DEF phase
    <3> QED BY <3>1 DEF UnfinishedUploads
  <2>4. Cardinality({v \in Uploads : phase[v] \in {"open", "cancelling"}}) < SessionLimit
    BY <1>1, <2>3 DEF BeginInitialization, UnderSessionLimit
  <2>5. answers' = answers /\ object' = object
    BY <1>1 DEF BeginInitialization, storage
  <2>6. Lifecycle!Open(u)
    BY Zenon, <2>2, <2>4, <2>5, SameCardinality DEF Lifecycle!Open, phase, ending, Ending
  <2> QED BY <2>6 DEF Lifecycle!Next
<1>2. CASE CompleteInitialization(u)
  <2>1. /\ session[u].status = "initiating" /\ session'[u].status = "uploading"
        /\ session'[u].abort_reason = session[u].abort_reason
        /\ answers' = answers /\ object' = object
    BY <1>2 DEF CompleteInitialization, Initializing, TypeOK, Session, storage
  <2> QED BY <1>0, <2>1, Phases, Invisible
<1>3. CASE FailInitialization(u)
  <2>1. /\ session[u].status = "initiating" /\ session'[u].status = "failed"
        /\ session'[u].abort_reason = session[u].abort_reason
        /\ answers' = answers /\ object' = object
    BY <1>3 DEF FailInitialization, Initializing, TypeOK, Session, storage
  <2> QED BY <1>0, <2>1, MappedFailToOpen
<1>4. CASE AcquireInitializationGate(u) \/ CreateMultipart(u) \/ CreateMultipartRejected(u)
           \/ CreateMultipartUnknown(u) \/ AbandonInitialization(u)
  <2>1. session' = session /\ answers' = answers /\ object' = object
    BY <1>4 DEF AcquireInitializationGate, CreateMultipart, CreateMultipartRejected, CreateMultipartUnknown,
       AbandonInitialization, rows, storage
  <2> QED BY <2>1, InvisibleEverywhere
<1> QED BY <1>1, <1>2, <1>3, <1>4 DEF InitializerStep

LEMMA RequestMaps ==
  ASSUME TypeOK, RowsInv, ActorInv, NEW r \in Requests,
         RequestStep(r) \/ \E u \in Uploads, n \in PartNumbers : AcquirePart(r, u, n)
  PROVE  Lifecycle!Next \/ UNCHANGED Lifecycle!lifecycle
<1>1. CASE PreparePartExpired(r) \/ ScheduleValidationAbort(r)
  <2>1. PICK u : u = request[r].upload
    OBVIOUS
  <2>2. u \in Uploads
    BY <1>1, <2>1 DEF PreparePartExpired, ScheduleValidationAbort, ActorInv
  <2>3. /\ session[u].status = "uploading"
        /\ \E reason \in {"expired", "validationFailed"} : session' = [session EXCEPT ![u] = Aborting(u, reason)]
        /\ answers' = answers /\ object' = object
    BY <1>1, <2>1 DEF PreparePartExpired, ScheduleValidationAbort, storage
  <2>4. Lifecycle!Cancel(u)
    BY <2>2, <2>3, MappedCancel DEF Reason
  <2> QED BY <2>2, <2>4 DEF Lifecycle!Next
<1>2. CASE ConfirmPart(r)
  <2>1. PICK u : u = request[r].upload
    OBVIOUS
  <2>2. u \in Uploads
    BY <1>2, <2>1 DEF ConfirmPart, ActorInv
  <2>3. \A v \in Uploads \ {u} : session'[v] = session[v]
    BY <1>2, <2>1 DEF ConfirmPart, TypeOK
  <2>4. answers' = answers /\ object' = object
    BY <1>2 DEF ConfirmPart, storage
  <2> QED BY <1>2, <2>2, <2>3, <2>4, ConfirmLeaves, Invisible
<1>3. CASE \/ PreparePart(r) \/ StorePart(r) \/ DropPart(r)
           \/ \E v \in Uploads, n \in PartNumbers : AcquirePart(r, v, n)
  <2>1. session' = session /\ answers' = answers /\ object' = object
    BY <1>3 DEF PreparePart, StorePart, DropPart, AcquirePart, rows, storage
  <2> QED BY <2>1, InvisibleEverywhere
<1> QED BY <1>1, <1>2, <1>3 DEF RequestStep

LEMMA ClientMaps ==
  ASSUME TypeOK, RowsInv, NEW u \in Uploads, ClientStep(u) \/ ScheduleExpiry(u) \/ TimerStep(u)
  PROVE  Lifecycle!Next \/ UNCHANGED Lifecycle!lifecycle
<1>0. \A v \in Uploads \ {u} : session'[v] = session[v]
  BY DEF ClientStep, CompleteUpload, CompleteUploadExpired, AbortUpload, SettleLifecycle, HideHistory, ScheduleExpiry,
     TimerStep, FinalizeDue, AbortDue, SessionExpires, InitializationLeaseEnds, TypeOK
<1>1. CASE CompleteUpload(u)
  <2>1. /\ session[u].status = "uploading" /\ session'[u].status = "completing"
        /\ session'[u].abort_reason = session[u].abort_reason
    BY <1>1 DEF CompleteUpload, SettleLifecycle, TypeOK, Session
  <2>2. phase[u] = "open" /\ phase' = [phase EXCEPT ![u] = "accepted"] /\ ending' = ending
    BY <1>0, <2>1, OneMoves, Phases DEF phase
  <2>3. answers[u] = {}
    BY <2>1, Unanswered DEF RowsInv
  <2>4. answers' = [answers EXCEPT ![u] = {"accepted"}] /\ object' = object
    BY <1>1, <2>3 DEF CompleteUpload, SettleLifecycle, storage
  <2>5. Lifecycle!Accept(u)
    BY <2>2, <2>4 DEF Lifecycle!Accept, phase, ending, Ending
  <2> QED BY <2>5 DEF Lifecycle!Next
<1>2. CASE CompleteUploadExpired(u)
  <2>1. Lifecycle!Cancel(u)
    BY <1>2, MappedCancel DEF CompleteUploadExpired, SettleLifecycle, Reason, storage
  <2> QED BY <2>1 DEF Lifecycle!Next
<1>3. CASE AbortUpload(u)
  <2> DEFINE reason == IF session[u].expires_at = "due" THEN "expired" ELSE "userCancelled"
  <2>1. reason \in Reason \ {"none"} /\ reason # "validationFailed"
    BY DEF Reason
  <2>2. /\ session' = [session EXCEPT ![u] = Aborting(u, reason)]
        /\ session[u].status \in {"initiating", "uploading"}
        /\ answers' = [answers EXCEPT ![u] = @ \union {"cancelling"}]
        /\ object' = object
    BY <1>3 DEF AbortUpload, SettleLifecycle, Abortable, storage
  <2> HIDE DEF reason
  <2>3. Lifecycle!Cancel(u)
    BY <2>1, <2>2, MappedCancel
  <2> QED BY <2>3 DEF Lifecycle!Next
<1>4. CASE ScheduleExpiry(u)
  <2>1. Lifecycle!Cancel(u)
    BY <1>4, MappedCancel DEF ScheduleExpiry, PastDeadline, Reason, storage
  <2> QED BY <2>1 DEF Lifecycle!Next
<1>5. CASE HideHistory(u)
  <2>1. /\ session'[u].status = session[u].status /\ session'[u].abort_reason = session[u].abort_reason
        /\ answers' = answers /\ object' = object
    BY <1>5 DEF HideHistory, TypeOK, Session, storage
  <2> QED BY <1>0, <2>1, Invisible
<1>6. CASE TimerStep(u)
  <2>1. CASE FinalizeDue(u) \/ AbortDue(u) \/ SessionExpires(u)
    <3>1. /\ session'[u].status = session[u].status /\ session'[u].abort_reason = session[u].abort_reason
          /\ answers' = answers /\ object' = object
      BY <2>1 DEF FinalizeDue, AbortDue, SessionExpires, TypeOK, Session, storage
    <3> QED BY <1>0, <3>1, Invisible
  <2>2. CASE InitializationLeaseEnds(u)
    BY <2>2, InvisibleEverywhere DEF InitializationLeaseEnds, storage
  <2> QED BY <1>6, <2>1, <2>2 DEF TimerStep
<1> QED BY <1>1, <1>2, <1>3, <1>4, <1>5, <1>6 DEF ClientStep

LEMMA WorkerMaps ==
  ASSUME TypeOK, RowsInv, ActorInv, ClaimsInv, AnsweredInv, NEW w \in Workers,
         WorkerStep(w) \/ \E u \in Uploads : ClaimStep(w, u)
  PROVE  Lifecycle!Next \/ UNCHANGED Lifecycle!lifecycle
<1>0. PICK u : u = worker[w].upload
  OBVIOUS
<1>1. CASE \/ LeaveClaim(w) \/ FinalizeHead(w) \/ FinalizeList(w) \/ FinalizeListMissing(w)
           \/ FinalizeVerify(w) \/ AbortClean(w) \/ ReconcileClean(w) \/ ReconcileRelist(w)
           \/ \E v \in Uploads : ReconcileClaim(w, v)
  <2>1. session' = session /\ answers' = answers /\ object' = object
    BY <1>1 DEF LeaveClaim, FinalizeHead, FinalizeList, FinalizeListMissing, FinalizeVerify, AbortClean,
       ReconcileClean, ReconcileRelist, Advance, ReconcileClaim, rows, storage
  <2> QED BY <2>1, InvisibleEverywhere
<1>2. CASE \E v \in Uploads : FinalizeClaim(w, v) \/ AbortClaim(w, v)
  <2>1. PICK v \in Uploads : FinalizeClaim(w, v) \/ AbortClaim(w, v)
    BY <1>2
  <2>2. /\ session'[v].status = session[v].status /\ session'[v].abort_reason = session[v].abort_reason
        /\ answers' = answers /\ object' = object
        /\ \A x \in Uploads \ {v} : session'[x] = session[x]
    BY <2>1 DEF FinalizeClaim, AbortClaim, TypeOK, Session, storage
  <2> QED BY <2>2, Invisible
<1>3. CASE FinalizeComplete(w)
  <2>1. u \in Uploads /\ Works(w, u, "finalize") /\ UNCHANGED rows
    BY <1>0, <1>3 DEF FinalizeComplete, ActorInv, Works
  <2>2. CASE object' = object
    BY <2>1, <2>2, InvisibleEverywhere DEF rows
  <2>3. CASE object[u] = "none" /\ \E o \in {"match", "mismatch"} : object' = [object EXCEPT ![u] = o]
    <3>1. session[u].status \in {"completing", "failed"} /\ "accepted" \in answers[u]
      BY <2>1, <2>3 DEF ClaimsInv, FinalizeInv, StoredInv, AnsweredInv
    <3>2. phase[u] \in {"accepted", "failed"} /\ phase' = phase /\ ending' = ending /\ answers' = answers
      BY <2>1, <3>1, Phases DEF phase, ending, rows
    <3>3. Lifecycle!Deliver(u)
      BY <2>3, <3>1, <3>2 DEF Lifecycle!Deliver, phase, ending, Ending
    <3> QED BY <2>1, <3>3 DEF Lifecycle!Next
  <2> QED BY <1>0, <1>3, <2>2, <2>3 DEF FinalizeComplete
<1>4. CASE FinalizeSucceed(w) \/ FinalizeFail(w) \/ FinalizeRetry(w)
  <2>0. u \in Uploads /\ session[u].status = "completing"
    BY <1>0, <1>4 DEF FinalizeSucceed, FinalizeFail, FinalizeRetry, ActorInv
  <2>1. /\ session'[u].abort_reason = session[u].abort_reason /\ answers' = answers /\ object' = object
        /\ \A v \in Uploads \ {u} : session'[v] = session[v]
    BY <1>0, <1>4, <2>0 DEF FinalizeSucceed, FinalizeFail, FinalizeRetry, TypeOK, Session, storage
  <2>2. CASE FinalizeRetry(w)
    <3>1. session'[u].status = session[u].status
      BY <1>0, <2>0, <2>2 DEF FinalizeRetry, TypeOK, Session
    <3> QED BY <2>0, <2>1, <3>1, Invisible
  <2>3. CASE FinalizeSucceed(w)
    <3>1. session'[u].status = "completed" /\ object[u] = "match"
      BY <1>0, <2>0, <2>3 DEF FinalizeSucceed, ObjectMatches, TypeOK, Session
    <3>2. phase[u] = "accepted" /\ phase' = [phase EXCEPT ![u] = "completed"] /\ ending' = ending
      BY <2>0, <2>1, <3>1, OneMoves, Phases DEF phase
    <3>3. Lifecycle!Store(u)
      BY <2>1, <3>1, <3>2 DEF Lifecycle!Store, phase, ending, Ending
    <3> QED BY <2>0, <3>3 DEF Lifecycle!Next
  <2>4. CASE FinalizeFail(w)
    <3>1. session'[u].status = "failed"
      BY <1>0, <2>0, <2>4 DEF FinalizeFail, TypeOK, Session
    <3>2. phase[u] = "accepted" /\ phase' = [phase EXCEPT ![u] = "failed"] /\ ending' = ending
      BY <2>0, <2>1, <3>1, OneMoves, Phases DEF phase
    <3>3. Lifecycle!Fail(u)
      BY <2>1, <3>2 DEF Lifecycle!Fail, phase, ending, Ending
    <3> QED BY <2>0, <3>3 DEF Lifecycle!Next
  <2> QED BY <1>4, <2>2, <2>3, <2>4
<1>5. CASE AbortSettle(w)
  <2>0. u \in Uploads /\ session[u].status = "aborting" /\ RowInv(u)
    BY <1>0, <1>5 DEF AbortSettle, ActorInv, RowsInv
  <2>1. /\ session'[u].status = TerminalStatus(session[u].abort_reason)
        /\ session'[u].abort_reason = session[u].abort_reason /\ answers' = answers /\ object' = object
        /\ \A v \in Uploads \ {u} : session'[v] = session[v]
    BY <1>0, <1>5, <2>0 DEF AbortSettle, TypeOK, Session, storage
  <2>2. Phase(TerminalStatus(session[u].abort_reason)) = ending[u]
    BY <2>0, TerminalStatusType, Phases DEF RowInv, Terminal, ending, Ending
  <2>3. phase[u] = "cancelling" /\ phase' = [phase EXCEPT ![u] = ending[u]] /\ ending' = ending
    BY <2>0, <2>1, <2>2, OneMoves, Phases DEF phase
  <2>4. Lifecycle!Withdraw(u)
    BY <2>0, <2>1, <2>3 DEF Lifecycle!Withdraw, phase, ending, Ending
  <2> QED BY <2>0, <2>4 DEF Lifecycle!Next
<1>6. CASE AbortRetry(w)
  <2>0. u \in Uploads
    BY <1>0, <1>6 DEF AbortRetry, ActorInv
  <2>1. /\ session'[u].status = session[u].status /\ session'[u].abort_reason = session[u].abort_reason
        /\ answers' = answers /\ object' = object
        /\ \A v \in Uploads \ {u} : session'[v] = session[v]
    BY <1>0, <1>6, <2>0 DEF AbortRetry, TypeOK, Session, storage
  <2> QED BY <2>0, <2>1, Invisible
<1>7. CASE ReconcileSettle(w)
  <2>0. u \in Uploads /\ session[u].status = "initiating"
    BY <1>0, <1>7 DEF ReconcileSettle, ActorInv
  <2>1. /\ session'[u].status = "failed" /\ session'[u].abort_reason = session[u].abort_reason
        /\ answers' = answers /\ object' = object
        /\ \A v \in Uploads \ {u} : session'[v] = session[v]
    BY <1>0, <1>7, <2>0 DEF ReconcileSettle, TypeOK, Session, storage
  <2> QED BY <2>0, <2>1, MappedFailToOpen
<1> QED BY <1>1, <1>2, <1>3, <1>4, <1>5, <1>6, <1>7 DEF WorkerStep, ClaimStep

(* The handlers, the workers and the storage give every upload the life    *)
(* the service promises: accepted or cancelled but never both, accepted    *)
(* before anything is in R2, and ended the way its owner was told.         *)
THEOREM SessionsImplementLifecycle == Spec => ImplementsLifecycle
<1>1. Init => AnsweredInv
  BY DEF Init, AnsweredInv, Works, IdleWorker, AbsentSession
<1>2. ClaimsAndRows /\ AnsweredInv /\ [Next]_vars => AnsweredInv'
  BY AnsweredKept DEF ClaimsAndRows, RowsAndActors
<1>3. ClaimsAndRows /\ AnsweredInv /\ [Next]_vars => [Lifecycle!Next]_(Lifecycle!lifecycle)
  <2> SUFFICES ASSUME ClaimsAndRows, AnsweredInv, [Next]_vars
               PROVE  Lifecycle!Next \/ UNCHANGED Lifecycle!lifecycle
    OBVIOUS
  <2>1. TypeOK /\ RowsInv /\ ActorInv /\ ClaimsInv
    BY DEF ClaimsAndRows, RowsAndActors
  <2>2. CASE LoseGate \/ UNCHANGED vars \/ \E u \in Uploads : CleanerStep(u)
    <3>1. session' = session /\ answers' = answers /\ object' = object
      BY <2>2, CleanerLeaves DEF LoseGate, rows, storage, vars
    <3> QED BY <3>1, InvisibleEverywhere
  <2> QED BY <2>1, <2>2, InitializerMaps, RequestMaps, ClientMaps, WorkerMaps DEF Next
<1> QED BY <1>1, <1>2, <1>3, MappedInit, ClaimsInvariant, PTL DEF Spec, ImplementsLifecycle, Lifecycle!Spec
=============================================================================
