------------------------- MODULE SpoolDeliveryProofs -------------------------
(***************************************************************************)
(* Theorems about SpoolDelivery for every number of parts, contents,       *)
(* requests, finalizers, multipart uploads and faults.                     *)
(***************************************************************************)
EXTENDS SpoolDelivery, TLAPS

(* The clients the theorems are about: a part whose request may end        *)
(* between its file and its row is always sent with the same bytes.  For   *)
(* others the run spool_rewrite shows that the spool may lose them.        *)
RewritesFinish == \A n \in InterruptedParts : \A x, y \in Sent[n] : x = y

(* Of these parts none differs from the confirmed one.                     *)
Copies(parts) == \A n \in PartNumbers : parts[n] \in {NoBytes, confirmed[n]}

RequestRows == [at : {"idle", "writing", "renamed", "stored"},
                part : PartNumbers \union {0}, body : Bytes \union {NoBytes}]

WorkerRows ==
  [at : {"idle", "head", "local", "state", "adopt", "create", "save", "remote", "deliver",
         "record", "complete", "verify", "settle", "fail"},
   local : Parts, id : Multiparts \union {0}, parts : Parts, existing : Parts,
   next : PartNumbers, excluded : Multiparts \union {0}]

(* A request under way is alone with its part, and its files are as far as *)
(* it has come.                                                            *)
RequestInv ==
  \A r \in Requests :
    /\ request[r].at = "idle" => request[r].part = 0
    /\ request[r].at # "idle" =>
         /\ status = "uploading" /\ request[r].part \in PartNumbers
         /\ request[r].body \in Sent[request[r].part]
         /\ \A q \in Requests : request[q].part = request[r].part => q = r
    /\ request[r].at \in {"renamed", "stored"} => bin[request[r].part] = request[r].body
    /\ request[r].at = "stored" => meta[request[r].part] = request[r].body

Rewritten(n) ==
  \E r \in Requests : request[r].part = n /\ request[r].at \in {"renamed", "stored"}

(* While parts are taken, the files of a confirmed part are its bytes, or  *)
(* a request is replacing them.                                            *)
UploadingInv ==
  status = "uploading" =>
    /\ manifest /\ remote = NoRemote /\ object = NoParts /\ live = {} /\ calls = {}
    /\ stored = [id \in Multiparts |-> NoParts]
    /\ worker = [w \in Workers |-> IdleWorker]
    /\ \A n \in PartNumbers :
         /\ {bin[n], meta[n], confirmed[n]} \subseteq Sent[n] \union {NoBytes}
         /\ meta[n] # NoBytes => bin[n] # NoBytes
         /\ confirmed[n] # NoBytes => meta[n] # NoBytes
         /\ confirmed[n] # NoBytes =>
              (bin[n] = confirmed[n] /\ meta[n] = confirmed[n]) \/ Rewritten(n)

(* From then on the rows do not change, and whoever has bytes has theirs.  *)
AcceptedInv ==
  status # "uploading" =>
    /\ \A n \in PartNumbers : confirmed[n] # NoBytes
    /\ Copies(bin)
    /\ object = confirmed \/ (manifest /\ bin = confirmed /\ meta = confirmed)

RemoteInv ==
  /\ Copies(remote.parts) /\ \A id \in Multiparts : Copies(stored[id])
  /\ \A w \in Workers : Copies(worker[w].parts) /\ Copies(worker[w].existing)
  /\ \A call \in calls : call.parts = confirmed
  /\ object \in {NoParts, confirmed}

DeliveryInv == TypeOK /\ RequestInv /\ UploadingInv /\ AcceptedInv /\ RemoteInv

-----------------------------------------------------------------------------
(* Contents of parts.                                                      *)

LEMMA SameParts ==
  ASSUME NEW p \in Parts, NEW q \in Parts, \A n \in PartNumbers : p[n] = q[n]
  PROVE  p = q
BY DEF Parts

LEMMA AllCopied ==
  ASSUME confirmed \in Parts, NEW p \in Parts, Copies(p), \A n \in PartNumbers : p[n] # NoBytes
  PROVE  p = confirmed
<1>1. \A n \in PartNumbers : p[n] = confirmed[n]
  BY DEF Copies
<1> QED BY <1>1, SameParts

LEMMA Nothing == NoParts \in Parts /\ Copies(NoParts) /\ \A n \in PartNumbers : NoParts[n] = NoBytes
BY DEF NoParts, Parts, Copies

LEMMA Begins == Init => DeliveryInv
<1> SUFFICES ASSUME Init PROVE DeliveryInv
  OBVIOUS
<1>1. PartCount \in Nat \ {0} /\ 1 \in PartNumbers /\ 0 \notin PartNumbers
  BY PartCountAssumption DEF PartNumbers
<1>2. IdleWorker \in WorkerRows /\ IdleWorker.parts = NoParts /\ IdleWorker.existing = NoParts
  BY <1>1, Nothing DEF IdleWorker, WorkerRows
<1>3. IdleRequest \in RequestRows /\ IdleRequest.at = "idle" /\ IdleRequest.part = 0
  BY DEF IdleRequest, RequestRows
<1>4. TypeOK
  <2>1. worker \in [Workers -> WorkerRows] /\ request \in [Requests -> RequestRows]
    BY <1>2, <1>3 DEF Init
  <2>2. remote \in [id : Multiparts \union {0}, parts : Parts] /\ stored \in [Multiparts -> Parts]
    BY Nothing DEF Init, NoRemote
  <2>3. created \in 0..MaxMultiparts /\ live \subseteq 1..created /\ faults \in 0..MaxFaults
    BY BoundsAssumption DEF Init
  <2> QED BY <2>1, <2>2, <2>3, Nothing DEF Init, TypeOK, WorkerRows, RequestRows
<1>5. RequestInv
  BY <1>3 DEF Init, RequestInv
<1>6. UploadingInv
  BY Nothing DEF Init, UploadingInv
<1>7. RemoteInv
  BY <1>2, Nothing DEF Init, RemoteInv, NoRemote
<1> QED BY <1>4, <1>5, <1>6, <1>7 DEF DeliveryInv, AcceptedInv, Init

-----------------------------------------------------------------------------
(* The requests.                                                           *)

LEMMA StartKeeps ==
  ASSUME DeliveryInv, NEW r \in Requests, NEW n \in PartNumbers, NEW b \in Sent[n],
         StartPart(r, n, b)
  PROVE  DeliveryInv'
<1>1. /\ request[r].at = "idle" /\ status = "uploading"
      /\ \A q \in Requests : request[q].part # n
      /\ request' = [request EXCEPT ![r] = [at |-> "writing", part |-> n, body |-> b]]
      /\ UNCHANGED <<row, spool, r2, worker, faults>>
  BY DEF StartPart
<1>2. b \in Bytes /\ request \in [Requests -> RequestRows]
  BY SentAssumption DEF DeliveryInv, TypeOK, RequestRows
<1>3. /\ request' \in [Requests -> RequestRows]
      /\ \A q \in Requests : request'[q] = IF q = r THEN [at |-> "writing", part |-> n, body |-> b]
                                           ELSE request[q]
  BY <1>1, <1>2 DEF RequestRows
<1>4. TypeOK'
  BY <1>1, <1>3 DEF DeliveryInv, TypeOK, RequestRows, row, spool, r2
<1>5. RequestInv'
  BY <1>1, <1>3, PartCountAssumption DEF DeliveryInv, RequestInv, row, spool, PartNumbers
<1>6. \A m \in PartNumbers : Rewritten(m) => Rewritten(m)'
  BY <1>1, <1>3 DEF Rewritten
<1>7. UploadingInv'
  BY <1>1, <1>6 DEF DeliveryInv, UploadingInv, row, spool, r2
<1>8. AcceptedInv' /\ RemoteInv'
  BY <1>1 DEF DeliveryInv, AcceptedInv, RemoteInv, Copies, row, spool, r2
<1> QED BY <1>4, <1>5, <1>7, <1>8 DEF DeliveryInv

LEMMA RenameKeeps ==
  ASSUME DeliveryInv, NEW r \in Requests, RenamePart(r)
  PROVE  DeliveryInv'
<1> DEFINE n == request[r].part
           b == request[r].body
<1>1. /\ request[r].at = "writing" /\ bin' = [bin EXCEPT ![n] = b]
      /\ request' = [request EXCEPT ![r].at = "renamed"]
      /\ UNCHANGED <<row, manifest, meta, remote, r2, worker, faults>>
  BY DEF RenamePart
<1>2. /\ status = "uploading" /\ n \in PartNumbers /\ b \in Sent[n] /\ b \in Bytes
      /\ \A q \in Requests : request[q].part = n => q = r
  BY <1>1, SentAssumption DEF DeliveryInv, RequestInv
<1>3. bin \in Parts /\ meta \in Parts /\ request \in [Requests -> RequestRows]
  BY DEF DeliveryInv, TypeOK, RequestRows
<1>4. bin' \in Parts /\ \A m \in PartNumbers : bin'[m] = IF m = n THEN b ELSE bin[m]
  BY <1>1, <1>2, <1>3 DEF Parts
<1>5. /\ request' \in [Requests -> RequestRows]
      /\ \A q \in Requests \ {r} : request'[q] = request[q]
      /\ request'[r].at = "renamed" /\ request'[r].part = n /\ request'[r].body = b
  BY <1>1, <1>3 DEF RequestRows
<1>6. TypeOK'
  BY <1>1, <1>4, <1>5 DEF DeliveryInv, TypeOK, RequestRows, row, r2
<1>7. RequestInv'
  BY <1>1, <1>2, <1>4, <1>5 DEF DeliveryInv, RequestInv, row
<1>8. \A m \in PartNumbers : Rewritten(m) => Rewritten(m)'
  BY <1>1, <1>5 DEF Rewritten
<1>9. Rewritten(n)'
  BY <1>5 DEF Rewritten
<1>10. b # NoBytes
  BY <1>2, BytesAssumption
<1>11. UploadingInv'
  BY <1>1, <1>2, <1>4, <1>8, <1>9, <1>10 DEF DeliveryInv, UploadingInv, row, r2
<1>12. AcceptedInv' /\ RemoteInv'
  BY <1>1, <1>2 DEF DeliveryInv, AcceptedInv, RemoteInv, Copies, row, r2
<1> QED BY <1>6, <1>7, <1>11, <1>12 DEF DeliveryInv

LEMMA DescribeKeeps ==
  ASSUME DeliveryInv, NEW r \in Requests, DescribePart(r)
  PROVE  DeliveryInv'
<1> DEFINE n == request[r].part
           b == request[r].body
<1>1. /\ request[r].at = "renamed" /\ meta' = [meta EXCEPT ![n] = b]
      /\ request' = [request EXCEPT ![r].at = "stored"]
      /\ UNCHANGED <<row, manifest, bin, remote, r2, worker, faults>>
  BY DEF DescribePart
<1>2. /\ status = "uploading" /\ n \in PartNumbers /\ b \in Sent[n] /\ b \in Bytes /\ bin[n] = b
      /\ \A q \in Requests : request[q].part = n => q = r
  BY <1>1, SentAssumption DEF DeliveryInv, RequestInv
<1>3. meta \in Parts /\ request \in [Requests -> RequestRows]
  BY DEF DeliveryInv, TypeOK, RequestRows
<1>4. meta' \in Parts /\ \A m \in PartNumbers : meta'[m] = IF m = n THEN b ELSE meta[m]
  BY <1>1, <1>2, <1>3 DEF Parts
<1>5. /\ request' \in [Requests -> RequestRows]
      /\ \A q \in Requests \ {r} : request'[q] = request[q]
      /\ request'[r].at = "stored" /\ request'[r].part = n /\ request'[r].body = b
  BY <1>1, <1>3 DEF RequestRows
<1>6. TypeOK'
  BY <1>1, <1>4, <1>5 DEF DeliveryInv, TypeOK, RequestRows, row, r2
<1>7. RequestInv'
  BY <1>1, <1>2, <1>4, <1>5 DEF DeliveryInv, RequestInv, row
<1>8. \A m \in PartNumbers : Rewritten(m) => Rewritten(m)'
  BY <1>1, <1>5 DEF Rewritten
<1>9. Rewritten(n)'
  BY <1>5 DEF Rewritten
<1>10. b # NoBytes
  BY <1>2, BytesAssumption
<1>11. UploadingInv'
  BY <1>1, <1>2, <1>4, <1>8, <1>9, <1>10 DEF DeliveryInv, UploadingInv, row, r2
<1>12. AcceptedInv' /\ RemoteInv'
  BY <1>1, <1>2 DEF DeliveryInv, AcceptedInv, RemoteInv, Copies, row, r2
<1> QED BY <1>6, <1>7, <1>11, <1>12 DEF DeliveryInv

(* A request that ends is idle again.                                      *)
LEMMA RequestEnds ==
  ASSUME DeliveryInv, NEW r \in Requests, request[r].at # "idle",
         request' = [request EXCEPT ![r] = IdleRequest]
  PROVE  /\ request' \in [Requests -> RequestRows]
         /\ \A q \in Requests \ {r} : request'[q] = request[q]
         /\ request'[r].at = "idle" /\ request'[r].part = 0
         /\ \A m \in PartNumbers : Rewritten(m) => Rewritten(m)' \/ m = request[r].part
<1>1. request \in [Requests -> RequestRows] /\ IdleRequest \in RequestRows
  BY DEF DeliveryInv, TypeOK, RequestRows, IdleRequest
<1>2. /\ request' \in [Requests -> RequestRows]
      /\ \A q \in Requests \ {r} : request'[q] = request[q]
      /\ request'[r] = IdleRequest
  BY <1>1
<1> QED BY <1>2 DEF IdleRequest, Rewritten

LEMMA ConfirmKeeps ==
  ASSUME DeliveryInv, NEW r \in Requests, ConfirmPart(r)
  PROVE  DeliveryInv'
<1> DEFINE n == request[r].part
           b == request[r].body
<1>1. /\ request[r].at = "stored" /\ status = "uploading" /\ confirmed' = [confirmed EXCEPT ![n] = b]
      /\ request' = [request EXCEPT ![r] = IdleRequest]
      /\ UNCHANGED <<status, owner, spool, r2, worker, faults>>
  BY DEF ConfirmPart
<1>2. /\ n \in PartNumbers /\ b \in Sent[n] /\ b \in Bytes /\ bin[n] = b /\ meta[n] = b
  BY <1>1, SentAssumption DEF DeliveryInv, RequestInv
<1>3. confirmed' \in Parts /\ \A m \in PartNumbers : confirmed'[m] = IF m = n THEN b ELSE confirmed[m]
  BY <1>1, <1>2 DEF DeliveryInv, TypeOK, Parts
<1>4. /\ request' \in [Requests -> RequestRows]
      /\ \A q \in Requests \ {r} : request'[q] = request[q]
      /\ request'[r].at = "idle" /\ request'[r].part = 0
      /\ \A m \in PartNumbers : Rewritten(m) => Rewritten(m)' \/ m = n
  BY <1>1, RequestEnds
<1>5. TypeOK'
  BY <1>1, <1>3, <1>4 DEF DeliveryInv, TypeOK, RequestRows, spool, r2
<1>6. 0 \notin PartNumbers
  BY PartCountAssumption DEF PartNumbers
<1>7. RequestInv'
  BY <1>1, <1>4, <1>6 DEF DeliveryInv, RequestInv, spool
<1>8. UploadingInv'
  BY <1>1, <1>2, <1>3, <1>4 DEF DeliveryInv, UploadingInv, spool, r2
<1>9. /\ remote = NoRemote /\ object = NoParts /\ calls = {} /\ stored = [id \in Multiparts |-> NoParts]
      /\ worker = [w \in Workers |-> IdleWorker]
  BY <1>1 DEF DeliveryInv, UploadingInv
<1>10. Copies(NoParts)'
  BY DEF Copies, NoParts
<1>11. RemoteInv'
  BY <1>1, <1>9, <1>10 DEF RemoteInv, NoRemote, IdleWorker, spool, r2, Copies
<1>12. AcceptedInv'
  BY <1>1 DEF AcceptedInv
<1> QED BY <1>5, <1>7, <1>8, <1>11, <1>12 DEF DeliveryInv

LEMMA DropKeeps ==
  ASSUME DeliveryInv, RewritesFinish, NEW r \in Requests, DropPart(r)
  PROVE  DeliveryInv'
<1> DEFINE n == request[r].part
<1>1. /\ request[r].at # "idle" /\ request' = [request EXCEPT ![r] = IdleRequest]
      /\ request[r].at = "writing" \/ n \in InterruptedParts
      /\ UNCHANGED <<row, spool, r2, worker, faults>>
  BY DEF DropPart, MayDrop
<1>2. /\ request' \in [Requests -> RequestRows]
      /\ \A q \in Requests \ {r} : request'[q] = request[q]
      /\ request'[r].at = "idle" /\ request'[r].part = 0
      /\ \A m \in PartNumbers : Rewritten(m) => Rewritten(m)' \/ m = n
  BY <1>1, RequestEnds
<1>3. TypeOK'
  BY <1>1, <1>2 DEF DeliveryInv, TypeOK, RequestRows, row, spool, r2
<1>4. 0 \notin PartNumbers
  BY PartCountAssumption DEF PartNumbers
<1>5. RequestInv'
  BY <1>1, <1>2, <1>4 DEF DeliveryInv, RequestInv, row, spool
<1>6. /\ status = "uploading" /\ n \in PartNumbers
      /\ \A q \in Requests : request[q].part = n => q = r
  BY <1>1 DEF DeliveryInv, RequestInv
<1>7. confirmed[n] # NoBytes => bin[n] = confirmed[n] /\ meta[n] = confirmed[n]
  <2>1. CASE request[r].at = "writing"
    <3>1. ~Rewritten(n)
      BY <2>1, <1>6 DEF Rewritten
    <3> QED BY <3>1, <1>6 DEF DeliveryInv, UploadingInv
  <2>2. CASE n \in InterruptedParts
    <3>1. {bin[n], meta[n], confirmed[n]} \subseteq Sent[n] \union {NoBytes}
      BY <1>6 DEF DeliveryInv, UploadingInv
    <3>2. confirmed[n] # NoBytes => meta[n] # NoBytes /\ bin[n] # NoBytes
      BY <1>6 DEF DeliveryInv, UploadingInv
    <3>3. confirmed[n] # NoBytes => {bin[n], meta[n], confirmed[n]} \subseteq Sent[n]
      BY <3>1, <3>2
    <3> QED BY <2>2, <3>3 DEF RewritesFinish
  <2> QED BY <1>1, <2>1, <2>2
<1>8. UploadingInv'
  BY <1>1, <1>2, <1>6, <1>7 DEF DeliveryInv, UploadingInv, row, spool, r2
<1>9. AcceptedInv' /\ RemoteInv'
  BY <1>1 DEF DeliveryInv, AcceptedInv, RemoteInv, Copies, row, spool, r2
<1> QED BY <1>3, <1>5, <1>8, <1>9 DEF DeliveryInv

(* With no request under way the files are the rows' bytes.                *)
LEMMA AcceptKeeps ==
  ASSUME DeliveryInv, CompleteUpload
  PROVE  DeliveryInv'
<1>1. /\ status = "uploading" /\ status' = "completing"
      /\ \A r \in Requests : request[r].at = "idle"
      /\ \A n \in PartNumbers : confirmed[n] # NoBytes
      /\ UNCHANGED <<owner, confirmed, spool, r2, request, worker, faults>>
  BY DEF CompleteUpload, MayAccept
<1>2. \A n \in PartNumbers : ~Rewritten(n)
  BY <1>1 DEF Rewritten
<1>3. manifest /\ \A n \in PartNumbers : bin[n] = confirmed[n] /\ meta[n] = confirmed[n]
  BY <1>1, <1>2 DEF DeliveryInv, UploadingInv
<1>4. bin = confirmed /\ meta = confirmed
  BY <1>3, SameParts DEF DeliveryInv, TypeOK
<1>5. TypeOK'
  BY <1>1 DEF DeliveryInv, TypeOK, spool, r2
<1>6. RequestInv'
  BY <1>1 DEF DeliveryInv, RequestInv, spool
<1>7. AcceptedInv'
  BY <1>1, <1>3, <1>4 DEF AcceptedInv, Copies, spool, r2
<1>8. UploadingInv' /\ RemoteInv'
  BY <1>1 DEF DeliveryInv, UploadingInv, RemoteInv, Copies, spool, r2
<1> QED BY <1>5, <1>6, <1>7, <1>8 DEF DeliveryInv

-----------------------------------------------------------------------------
(* The finalizers.                                                         *)

(* What each of their steps does to the finalizers themselves.             *)
Works(w) ==
  /\ worker' \in [Workers -> WorkerRows]
  /\ \A v \in Workers \ {w} : worker'[v] = worker[v]
  /\ Copies(worker'[w].parts) /\ Copies(worker'[w].existing)

LEMMA WorkerTyped ==
  ASSUME DeliveryInv, NEW w \in Workers
  PROVE  /\ worker \in [Workers -> WorkerRows] /\ worker[w] \in WorkerRows
         /\ Copies(worker[w].parts) /\ Copies(worker[w].existing)
         /\ worker[w].at # "idle" => status # "uploading"
BY DEF DeliveryInv, TypeOK, WorkerRows, RemoteInv, UploadingInv, IdleWorker

(* A step that gives the finalizer another good row.                       *)
LEMMA GivesRow ==
  ASSUME DeliveryInv, NEW w \in Workers, NEW next \in WorkerRows,
         Copies(next.parts), Copies(next.existing), worker' = [worker EXCEPT ![w] = next]
  PROVE  Works(w)
<1>1. worker \in [Workers -> WorkerRows]
  BY WorkerTyped
<1>2. worker' \in [Workers -> WorkerRows] /\ worker'[w] = next
  BY <1>1
<1>3. \A v \in Workers \ {w} : worker'[v] = worker[v]
  BY <1>1
<1> QED BY <1>2, <1>3 DEF Works

LEMMA Goes ==
  ASSUME DeliveryInv, NEW w \in Workers,
         NEW at \in {"head", "local", "create", "verify", "settle", "fail"}, Goto(w, at)
  PROVE  Works(w)
<1>1. worker \in [Workers -> WorkerRows]
  BY WorkerTyped
<1>2. worker' \in [Workers -> WorkerRows] /\ worker'[w].parts = worker[w].parts
      /\ worker'[w].existing = worker[w].existing
  BY <1>1 DEF Goto, WorkerRows
<1>3. \A v \in Workers \ {w} : worker'[v] = worker[v]
  BY <1>1 DEF Goto
<1> QED BY <1>2, <1>3, WorkerTyped DEF Works

LEMMA IdleTyped ==
  IdleWorker \in WorkerRows /\ Copies(IdleWorker.parts) /\ Copies(IdleWorker.existing)
<1>1. 1 \in PartNumbers
  BY PartCountAssumption DEF PartNumbers
<1> QED BY <1>1, Nothing DEF IdleWorker, WorkerRows

LEMMA Leaves ==
  ASSUME DeliveryInv, NEW w \in Workers, Leave(w)
  PROVE  Works(w)
BY IdleTyped, GivesRow DEF Leave

(* A step of a finalizer that leaves the spool and R2 as they are.         *)
LEMMA FinalizerOnly ==
  ASSUME DeliveryInv, NEW w \in Workers, Works(w),
         status # "uploading", status' \in {"completing", "completed", "failed"},
         owner' \in Workers \union {NoWorker}, faults' \in 0..MaxFaults,
         UNCHANGED <<confirmed, spool, r2, request>>
  PROVE  DeliveryInv'
<1>1. TypeOK'
  BY DEF DeliveryInv, TypeOK, Works, WorkerRows, spool, r2
<1>2. RequestInv'
  BY DEF DeliveryInv, RequestInv, spool
<1>3. AcceptedInv' /\ UploadingInv'
  BY DEF DeliveryInv, AcceptedInv, UploadingInv, Copies, spool, r2
<1>4. RemoteInv'
  BY DEF DeliveryInv, RemoteInv, Copies, Works, spool, r2
<1> QED BY <1>1, <1>2, <1>3, <1>4 DEF DeliveryInv

LEMMA ClaimKeeps ==
  ASSUME DeliveryInv, NEW w \in Workers, Claim(w)
  PROVE  DeliveryInv'
<1>1. /\ status = "completing" /\ UNCHANGED <<status, confirmed, spool, r2, request>>
      /\ owner' = w /\ Goto(w, "head")
  BY DEF Claim
<1>2. faults' \in 0..MaxFaults
  BY BoundsAssumption DEF Claim, DeliveryInv, TypeOK
<1>3. Works(w)
  BY <1>1, Goes
<1> QED BY <1>1, <1>2, <1>3, FinalizerOnly

(* A finalizer that only reads, or that writes the outcome into the row.   *)
LEMMA ReaderKeeps ==
  ASSUME DeliveryInv, NEW w \in Workers,
         \/ HeadMissing(w) \/ ListLocal(w) \/ ReadState(w) \/ Adopt(w) \/ ListRemote(w) \/ Reuse(w)
         \/ Succeed(w) \/ Fail(w) \/ Ignore(w)
  PROVE  DeliveryInv'
<1> DEFINE Reads == UNCHANGED <<row, spool, r2, request, faults>>
<1>1. worker[w] \in WorkerRows /\ worker \in [Workers -> WorkerRows] /\ faults \in 0..MaxFaults
  BY WorkerTyped DEF DeliveryInv, TypeOK
<1>2. /\ status \in {"uploading", "completing", "completed", "failed"}
      /\ owner \in Workers \union {NoWorker}
      /\ worker[w].at # "idle" => status # "uploading"
  BY WorkerTyped DEF DeliveryInv, TypeOK
<1>3. worker[w].at # "idle" /\ Works(w) /\ Reads => DeliveryInv'
  BY <1>1, <1>2, FinalizerOnly DEF row
<1>4. CASE HeadMissing(w)
  <2>1. worker[w].at # "idle" /\ Reads /\ (Goto(w, "local") \/ Leave(w))
    BY <1>4 DEF HeadMissing
  <2> QED BY <2>1, <1>3, Goes, Leaves
<1>5. CASE ListLocal(w)
  <2>1. worker[w].at # "idle" /\ Reads
    BY <1>5 DEF ListLocal
  <2>2. CASE Leave(w)
    BY <2>1, <2>2, <1>3, Leaves
  <2>3. CASE worker' = [worker EXCEPT ![w].at = "state", ![w].local = meta]
    <3>1. /\ worker' \in [Workers -> WorkerRows] /\ worker'[w].parts = worker[w].parts
          /\ worker'[w].existing = worker[w].existing
          /\ \A v \in Workers \ {w} : worker'[v] = worker[v]
      BY <2>3, <1>1 DEF WorkerRows, DeliveryInv, TypeOK
    <3> QED BY <3>1, <2>1, <1>3, WorkerTyped DEF Works
  <2> QED BY <2>2, <2>3, <1>5 DEF ListLocal
<1>6. CASE ReadState(w)
  <2>1. worker[w].at # "idle" /\ Reads
    BY <1>6 DEF ReadState
  <2>2. remote.id \in Multiparts \union {0} /\ remote.parts \in Parts /\ Copies(remote.parts)
    BY DEF DeliveryInv, TypeOK, RemoteInv
  <2>3. /\ worker' \in [Workers -> WorkerRows] /\ worker'[w].parts = remote.parts
        /\ worker'[w].existing = worker[w].existing
        /\ \A v \in Workers \ {w} : worker'[v] = worker[v]
    BY <2>2, <1>6, <1>1 DEF ReadState, WorkerRows
  <2> QED BY <2>1, <2>2, <2>3, <1>3, WorkerTyped DEF Works
<1>7. CASE Adopt(w)
  <2>1. worker[w].at # "idle" /\ Reads
    BY <1>7 DEF Adopt
  <2>2. CASE Goto(w, "create")
    BY <2>1, <2>2, <1>3, Goes
  <2>3. ASSUME NEW id \in Candidates(w),
               worker' = [worker EXCEPT ![w].at = "save", ![w].id = id, ![w].parts = NoParts]
        PROVE  DeliveryInv'
    <3>1. id \in Multiparts
      BY <2>3, BoundsAssumption DEF Candidates, DeliveryInv, TypeOK, Multiparts
    <3>2. /\ worker' \in [Workers -> WorkerRows] /\ worker'[w].parts = NoParts
          /\ worker'[w].existing = worker[w].existing
          /\ \A v \in Workers \ {w} : worker'[v] = worker[v]
      BY <3>1, <2>3, <1>1, Nothing DEF WorkerRows
    <3> QED BY <3>2, <2>1, <1>3, WorkerTyped, Nothing DEF Works
  <2> QED BY <2>2, <2>3, <1>7 DEF Adopt
<1>8. CASE ListRemote(w)
  <2>1. worker[w].at # "idle" /\ Reads
    BY <1>8 DEF ListRemote
  <2>2. CASE Known(w) /\ worker' = [worker EXCEPT ![w].at = "deliver",
                                      ![w].existing = stored[worker[w].id], ![w].next = 1]
    <3>1. worker[w].id \in Multiparts
      BY <2>2, BoundsAssumption DEF Known, DeliveryInv, TypeOK, Multiparts
    <3>2. stored[worker[w].id] \in Parts /\ Copies(stored[worker[w].id])
      BY <3>1 DEF DeliveryInv, TypeOK, RemoteInv
    <3>3. 1 \in PartNumbers
      BY PartCountAssumption DEF PartNumbers
    <3>4. /\ worker' \in [Workers -> WorkerRows] /\ worker'[w].parts = worker[w].parts
          /\ worker'[w].existing = stored[worker[w].id]
          /\ \A v \in Workers \ {w} : worker'[v] = worker[v]
      BY <3>2, <3>3, <2>2, <1>1 DEF WorkerRows
    <3> QED BY <3>2, <3>4, <2>1, <1>3, WorkerTyped DEF Works
  <2>3. CASE worker' = [worker EXCEPT ![w].at = "adopt", ![w].excluded = worker[w].id]
    <3>1. /\ worker' \in [Workers -> WorkerRows] /\ worker'[w].parts = worker[w].parts
          /\ worker'[w].existing = worker[w].existing
          /\ \A v \in Workers \ {w} : worker'[v] = worker[v]
      BY <2>3, <1>1 DEF WorkerRows
    <3> QED BY <3>1, <2>1, <1>3, WorkerTyped DEF Works
  <2>4. CASE Goto(w, "fail")
    BY <2>1, <2>4, <1>3, Goes
  <2> QED BY <2>2, <2>3, <2>4, <1>8 DEF ListRemote, WhenUnknown
<1>9. CASE Reuse(w)
  <2> DEFINE n == worker[w].next
             b == worker[w].existing[n]
  <2>1. /\ worker[w].at # "idle" /\ Reads
        /\ worker' = [worker EXCEPT ![w].at = "record", ![w].parts[n] = b]
    BY <1>9 DEF Reuse
  <2>2. n \in PartNumbers /\ worker[w].parts \in Parts /\ b \in Bytes \union {NoBytes}
        /\ b \in {NoBytes, confirmed[n]}
    BY <1>1, WorkerTyped DEF WorkerRows, Parts, Copies
  <2>3. /\ worker' \in [Workers -> WorkerRows]
        /\ worker'[w].parts = [worker[w].parts EXCEPT ![n] = b]
        /\ worker'[w].existing = worker[w].existing
        /\ \A v \in Workers \ {w} : worker'[v] = worker[v]
    <3> DEFINE p == [worker[w].parts EXCEPT ![n] = b]
    <3>1. p \in Parts
      BY <2>2 DEF Parts
    <3>2. worker' = [worker EXCEPT ![w] = [worker[w] EXCEPT !.at = "record", !.parts = p]]
      BY <2>1
    <3>3. [worker[w] EXCEPT !.at = "record", !.parts = p] \in WorkerRows
      BY <3>1, <1>1 DEF WorkerRows
    <3> QED BY <3>2, <3>3, <1>1 DEF WorkerRows
  <2>4. Copies(worker'[w].parts)
    BY <2>2, <2>3, WorkerTyped DEF Copies, Parts
  <2> QED BY <2>1, <2>3, <2>4, <1>3, WorkerTyped DEF Works
<1>10. CASE Succeed(w) \/ Fail(w)
  <2>1. /\ worker[w].at # "idle" /\ Leave(w) /\ status' \in {"completed", "failed"}
        /\ UNCHANGED <<owner, confirmed, spool, r2, request, faults>>
    BY <1>10 DEF Succeed, Fail, Settle
  <2> QED BY <2>1, <1>1, <1>2, Leaves, FinalizerOnly
<1>11. CASE Ignore(w)
  <2>1. worker[w].at # "idle" /\ Reads /\ Leave(w)
    BY <1>11 DEF Ignore
  <2> QED BY <2>1, <1>3, Leaves
<1> QED BY <1>4, <1>5, <1>6, <1>7, <1>8, <1>9, <1>10, <1>11

(* The directory is removed when the object is there, if at all.           *)
LEMMA HeadFoundKeeps ==
  ASSUME DeliveryInv, NEW w \in Workers, HeadFound(w)
  PROVE  DeliveryInv'
<1>1. /\ worker[w].at # "idle" /\ object # NoParts /\ RemoveCompletedObject /\ Goto(w, "settle")
      /\ UNCHANGED <<row, r2, request, faults>>
  BY DEF HeadFound
<1>2. Works(w) /\ status # "uploading" /\ object = confirmed
  BY <1>1, Goes, WorkerTyped DEF DeliveryInv, RemoteInv
<1>3. UNCHANGED spool \/ (~manifest' /\ bin' = NoParts /\ meta' = NoParts /\ remote' = NoRemote)
  BY <1>1 DEF RemoveCompletedObject
<1>4. /\ manifest' \in BOOLEAN /\ bin' \in Parts /\ meta' \in Parts
      /\ remote' \in [id : Multiparts \union {0}, parts : Parts]
      /\ Copies(bin') /\ Copies(remote'.parts)
  <2>1. CASE UNCHANGED spool
    BY <1>2, <2>1 DEF DeliveryInv, TypeOK, AcceptedInv, RemoteInv, spool
  <2>2. CASE ~manifest' /\ bin' = NoParts /\ meta' = NoParts /\ remote' = NoRemote
    <3>1. manifest' = FALSE
      BY <1>1, <2>2 DEF RemoveCompletedObject, DeliveryInv, TypeOK, spool
    <3>2. NoRemote \in [id : Multiparts \union {0}, parts : Parts] /\ NoRemote.parts = NoParts
      BY Nothing DEF NoRemote
    <3> QED BY <2>2, <3>1, <3>2, Nothing
  <2> QED BY <1>3, <2>1, <2>2
<1>5. TypeOK'
  BY <1>1, <1>2, <1>4 DEF DeliveryInv, TypeOK, Works, WorkerRows, row, r2
<1>6. RequestInv' /\ UploadingInv'
  BY <1>1, <1>2 DEF DeliveryInv, RequestInv, UploadingInv, row
<1>7. AcceptedInv'
  BY <1>1, <1>2, <1>4 DEF DeliveryInv, AcceptedInv, Copies, row, r2
<1>8. RemoteInv'
  BY <1>1, <1>2, <1>4 DEF DeliveryInv, RemoteInv, Copies, Works, row, r2
<1> QED BY <1>5, <1>6, <1>7, <1>8 DEF DeliveryInv

LEMMA CreateKeeps ==
  ASSUME DeliveryInv, NEW w \in Workers, CreateRemote(w)
  PROVE  DeliveryInv'
<1>1. /\ worker[w].at # "idle" /\ created < MaxMultiparts
      /\ created' = created + 1 /\ live' = live \union {created'}
      /\ worker' = [worker EXCEPT ![w].at = "save", ![w].id = created', ![w].parts = NoParts]
      /\ UNCHANGED <<row, spool, stored, calls, object, request, faults>>
  BY DEF CreateRemote
<1>2. created' \in Multiparts /\ created' \in 0..MaxMultiparts /\ live' \subseteq 1..created'
  BY <1>1, BoundsAssumption DEF DeliveryInv, TypeOK, Multiparts
<1>3. Works(w)
  <2>1. /\ worker' \in [Workers -> WorkerRows] /\ worker'[w].parts = NoParts
        /\ worker'[w].existing = worker[w].existing
        /\ \A v \in Workers \ {w} : worker'[v] = worker[v]
    BY <1>1, <1>2, WorkerTyped, Nothing DEF WorkerRows
  <2> QED BY <2>1, WorkerTyped, Nothing DEF Works
<1>4. status # "uploading"
  BY <1>1, WorkerTyped
<1>5. TypeOK'
  BY <1>1, <1>2, <1>3 DEF DeliveryInv, TypeOK, Works, WorkerRows, row, spool
<1>6. RequestInv' /\ UploadingInv' /\ AcceptedInv'
  BY <1>1, <1>4 DEF DeliveryInv, RequestInv, UploadingInv, AcceptedInv, Copies, row, spool
<1>7. RemoteInv'
  BY <1>1, <1>3 DEF DeliveryInv, RemoteInv, Copies, Works, row, spool
<1> QED BY <1>5, <1>6, <1>7 DEF DeliveryInv

LEMMA WriteKeeps ==
  ASSUME DeliveryInv, NEW w \in Workers, worker[w].at # "idle", NEW following \in WorkerRows,
         Copies(following.parts), Copies(following.existing), WriteState(w, following)
  PROVE  DeliveryInv'
<1>1. worker[w] \in WorkerRows /\ Copies(worker[w].parts) /\ status # "uploading"
  BY WorkerTyped
<1>2. remote' \in {remote, [id |-> worker[w].id, parts |-> worker[w].parts]} /\ Works(w)
  BY GivesRow, Leaves DEF WriteState
<1>3. remote' \in [id : Multiparts \union {0}, parts : Parts] /\ Copies(remote'.parts)
  BY <1>1, <1>2 DEF DeliveryInv, TypeOK, RemoteInv, WorkerRows
<1>4. UNCHANGED <<row, manifest, bin, meta, r2, request, faults>>
  BY DEF WriteState
<1>5. TypeOK'
  BY <1>2, <1>3, <1>4 DEF DeliveryInv, TypeOK, Works, WorkerRows, row, r2
<1>6. RequestInv' /\ UploadingInv' /\ AcceptedInv'
  BY <1>1, <1>4 DEF DeliveryInv, RequestInv, UploadingInv, AcceptedInv, Copies, row, r2
<1>7. RemoteInv'
  BY <1>2, <1>3, <1>4 DEF DeliveryInv, RemoteInv, Copies, Works, row, r2
<1> QED BY <1>5, <1>6, <1>7 DEF DeliveryInv

LEMMA StateKeeps ==
  ASSUME DeliveryInv, NEW w \in Workers, SaveState(w) \/ RecordPart(w)
  PROVE  DeliveryInv'
<1>1. worker[w] \in WorkerRows /\ Copies(worker[w].parts) /\ Copies(worker[w].existing)
  BY WorkerTyped
<1>2. CASE SaveState(w)
  <2> DEFINE following == [worker[w] EXCEPT !.at = "remote"]
  <2>1. /\ following \in WorkerRows /\ following.parts = worker[w].parts
        /\ following.existing = worker[w].existing
    BY <1>1 DEF WorkerRows
  <2>2. worker[w].at # "idle" /\ WriteState(w, following)
    BY <1>2 DEF SaveState
  <2> HIDE DEF following
  <2> QED BY <1>1, <2>1, <2>2, WriteKeeps
<1>3. CASE RecordPart(w)
  <2> DEFINE following == [worker[w] EXCEPT !.at = After(w), !.next = Following(w)]
  <2>1. After(w) \in {"complete", "deliver"} /\ Following(w) \in PartNumbers
    BY <1>1, PartCountAssumption DEF After, Following, LastPart, PartNumbers, WorkerRows
  <2>2. /\ following \in WorkerRows /\ following.parts = worker[w].parts
        /\ following.existing = worker[w].existing
    BY <1>1, <2>1 DEF WorkerRows
  <2>3. worker[w].at # "idle" /\ WriteState(w, following)
    BY <1>3 DEF RecordPart
  <2> HIDE DEF following
  <2> QED BY <1>1, <2>2, <2>3, WriteKeeps
<1> QED BY <1>2, <1>3

(* A part that is sent is the confirmed one.                               *)
LEMMA DeliverKeeps ==
  ASSUME DeliveryInv, NEW w \in Workers, Deliver(w)
  PROVE  DeliveryInv'
<1> DEFINE n == worker[w].next
           id == worker[w].id
<1>1. /\ worker[w].at # "idle"
      /\ UNCHANGED <<row, spool, created, live, calls, object, request, faults>>
  BY DEF Deliver
<1>2. /\ worker \in [Workers -> WorkerRows] /\ worker[w] \in WorkerRows
      /\ status # "uploading" /\ n \in PartNumbers
  BY <1>1, WorkerTyped DEF WorkerRows
<1>3. CASE UNCHANGED stored /\ (Leave(w) \/ Goto(w, "fail"))
  <2>1. Works(w)
    BY <1>3, Leaves, Goes
  <2>2. status' \in {"completing", "completed", "failed"} /\ owner' \in Workers \union {NoWorker}
        /\ faults' \in 0..MaxFaults
    BY <1>1, <1>2 DEF DeliveryInv, TypeOK, row
  <2> QED BY <1>1, <1>2, <1>3, <2>1, <2>2, FinalizerOnly DEF row, r2
<1>4. CASE /\ Known(w) /\ bin[n] # NoBytes
           /\ stored' = [stored EXCEPT ![id][n] = bin[n]]
           /\ worker' = [worker EXCEPT ![w].at = "record", ![w].parts[n] = bin[n]]
  <2>1. bin[n] = confirmed[n] /\ bin[n] \in Bytes
    BY <1>2, <1>4 DEF DeliveryInv, AcceptedInv, TypeOK, Copies, Parts
  <2>2. id \in Multiparts
    BY <1>4, BoundsAssumption DEF Known, DeliveryInv, TypeOK, Multiparts
  <2>3. /\ stored' \in [Multiparts -> Parts]
        /\ \A i \in Multiparts : \A m \in PartNumbers :
             stored'[i][m] = IF i = id /\ m = n THEN bin[n] ELSE stored[i][m]
    BY <1>2, <1>4, <2>1, <2>2 DEF DeliveryInv, TypeOK, Parts
  <2>4. \A i \in Multiparts : Copies(stored'[i])
    BY <2>1, <2>3 DEF DeliveryInv, RemoteInv, Copies
  <2>5. /\ worker' \in [Workers -> WorkerRows]
        /\ worker'[w].parts = [worker[w].parts EXCEPT ![n] = bin[n]]
        /\ worker'[w].existing = worker[w].existing
        /\ \A v \in Workers \ {w} : worker'[v] = worker[v]
    <3> DEFINE p == [worker[w].parts EXCEPT ![n] = bin[n]]
    <3>1. p \in Parts
      BY <1>2, <2>1 DEF Parts, WorkerRows
    <3>2. worker' = [worker EXCEPT ![w] = [worker[w] EXCEPT !.at = "record", !.parts = p]]
      BY <1>4
    <3>3. [worker[w] EXCEPT !.at = "record", !.parts = p] \in WorkerRows
      BY <3>1, <1>2 DEF WorkerRows
    <3> QED BY <3>2, <3>3, <1>2 DEF WorkerRows
  <2>6. Copies(worker'[w].parts)
    BY <1>2, <2>1, <2>5, WorkerTyped DEF Copies, Parts, WorkerRows
  <2>7. Works(w)
    BY <2>5, <2>6, WorkerTyped DEF Works
  <2>8. TypeOK'
    BY <1>1, <2>3, <2>7 DEF DeliveryInv, TypeOK, Works, WorkerRows, row, spool
  <2>9. RequestInv' /\ UploadingInv' /\ AcceptedInv'
    BY <1>1, <1>2 DEF DeliveryInv, RequestInv, UploadingInv, AcceptedInv, Copies, row, spool
  <2>10. RemoteInv'
    BY <1>1, <2>4, <2>7 DEF DeliveryInv, RemoteInv, Copies, Works, row, spool
  <2> QED BY <2>8, <2>9, <2>10 DEF DeliveryInv
<1> QED BY <1>3, <1>4 DEF Deliver

(* A completion names every part, as it was confirmed.                     *)
LEMMA MultipartKeeps ==
  ASSUME DeliveryInv, NEW w \in Workers, CompleteMultipart(w)
  PROVE  DeliveryInv'
<1>1. /\ worker[w].at # "idle" /\ (Leave(w) \/ Goto(w, "verify"))
      /\ calls' = calls \/ (Recorded /\ calls' = calls \union {remote})
      /\ UNCHANGED <<row, spool, created, live, stored, object, request, faults>>
  BY DEF CompleteMultipart
<1>2. Works(w) /\ status # "uploading"
  BY <1>1, Leaves, Goes, WorkerTyped
<1>3. Recorded => remote \in [id : Multiparts, parts : Parts] /\ remote.parts = confirmed
  BY AllCopied DEF Recorded, DeliveryInv, TypeOK, RemoteInv
<1>4. TypeOK'
  BY <1>1, <1>2, <1>3 DEF DeliveryInv, TypeOK, Works, WorkerRows, row, spool
<1>5. RequestInv' /\ UploadingInv' /\ AcceptedInv'
  BY <1>1, <1>2 DEF DeliveryInv, RequestInv, UploadingInv, AcceptedInv, Copies, row, spool
<1>6. RemoteInv'
  BY <1>1, <1>2, <1>3 DEF DeliveryInv, RemoteInv, Copies, Works, row, spool
<1> QED BY <1>4, <1>5, <1>6 DEF DeliveryInv

-----------------------------------------------------------------------------
(* R2 and the faults.                                                      *)

LEMMA CompletionKeeps ==
  ASSUME DeliveryInv, NEW call \in calls, Complete(call)
  PROVE  DeliveryInv'
<1>1. /\ call \in [id : Multiparts, parts : Parts] /\ call.parts = confirmed
      /\ status # "uploading"
  BY DEF DeliveryInv, TypeOK, RemoteInv, UploadingInv
<1>2. /\ calls' \subseteq calls /\ live' \subseteq live /\ object' \in {object, confirmed}
      /\ UNCHANGED <<row, spool, created, stored, request, worker, faults>>
  BY <1>1 DEF Complete
<1>3. TypeOK'
  BY <1>1, <1>2 DEF DeliveryInv, TypeOK, row, spool
<1>4. RequestInv' /\ UploadingInv'
  BY <1>1, <1>2 DEF DeliveryInv, RequestInv, UploadingInv, row, spool
<1>5. AcceptedInv'
  BY <1>1, <1>2 DEF DeliveryInv, AcceptedInv, Copies, row, spool
<1>6. RemoteInv'
  BY <1>2 DEF DeliveryInv, RemoteInv, Copies, row, spool
<1> QED BY <1>3, <1>4, <1>5, <1>6 DEF DeliveryInv

LEMMA FaultKeeps ==
  ASSUME DeliveryInv, Fault
  PROVE  DeliveryInv'
<1>1. /\ faults' \in 0..MaxFaults /\ live' \subseteq live /\ calls' \subseteq calls
      /\ UNCHANGED <<row, spool, created, stored, object, request>>
  BY BoundsAssumption DEF Fault, DeliveryInv, TypeOK
<1>2. /\ worker' \in [Workers -> WorkerRows]
      /\ \A v \in Workers : Copies(worker'[v].parts) /\ Copies(worker'[v].existing)
      /\ status = "uploading" => worker' = worker
  <2>1. CASE UNCHANGED worker
    BY <2>1 DEF DeliveryInv, TypeOK, WorkerRows, RemoteInv
  <2>2. ASSUME NEW w \in Workers, worker[w].at # "idle", Leave(w)
        PROVE  <1>2!1 /\ <1>2!2 /\ status # "uploading"
    BY <2>2, Leaves, WorkerTyped DEF Works
  <2> QED BY <2>1, <2>2 DEF Fault
<1>3. TypeOK'
  BY <1>1, <1>2 DEF DeliveryInv, TypeOK, WorkerRows, row, spool
<1>4. RequestInv' /\ UploadingInv' /\ AcceptedInv'
  BY <1>1, <1>2 DEF DeliveryInv, RequestInv, UploadingInv, AcceptedInv, Copies, Rewritten, row, spool
<1>5. RemoteInv'
  BY <1>1, <1>2 DEF DeliveryInv, RemoteInv, Copies, row, spool
<1> QED BY <1>3, <1>4, <1>5 DEF DeliveryInv

-----------------------------------------------------------------------------
(* Every step keeps the inductive invariant.                               *)
LEMMA Keeps ==
  ASSUME RewritesFinish, DeliveryInv, [Next]_vars
  PROVE  DeliveryInv'
<1>1. ASSUME NEW r \in Requests, PartStep(r)
      PROVE  DeliveryInv'
  BY <1>1, RenameKeeps, DescribeKeeps, ConfirmKeeps, DropKeeps DEF PartStep
<1>2. ASSUME NEW w \in Workers, DeliveryStep(w)
      PROVE  DeliveryInv'
  BY <1>2, HeadFoundKeeps, ReaderKeeps, CreateKeeps, StateKeeps, DeliverKeeps, MultipartKeeps
     DEF DeliveryStep
<1>3. CASE UNCHANGED vars
  BY <1>3 DEF vars, DeliveryInv, TypeOK, RequestInv, UploadingInv, AcceptedInv, RemoteInv, Copies,
     Rewritten
<1> QED
  BY <1>1, <1>2, <1>3, StartKeeps, AcceptKeeps, ClaimKeeps, CompletionKeeps, FaultKeeps DEF Next

(* The inductive invariant of the delivery: from the acceptance on, the    *)
(* confirmed rows stand still and every place that has bytes of a part has *)
(* the confirmed ones.                                                     *)
THEOREM DeliveryInvariant == ASSUME RewritesFinish PROVE Spec => []DeliveryInv
<1>1. DeliveryInv /\ [Next]_vars => DeliveryInv'
  BY Keeps
<1> QED BY <1>1, Begins, PTL DEF Spec

(* The variables keep their types; the finalizer's loop stays within the   *)
(* parts of the upload.                                                    *)
THEOREM DeliveryTyping == ASSUME RewritesFinish PROVE Spec => []TypeOK
<1>1. DeliveryInv => TypeOK
  BY DEF DeliveryInv
<1> QED BY <1>1, DeliveryInvariant, PTL

(* R2 has exactly the parts the client was told had been received, however *)
(* many finalizers overlap, crash and begin again.                         *)
THEOREM ObjectIsConfirmed == ASSUME RewritesFinish PROVE Spec => []DeliveredAsConfirmed
<1>1. DeliveryInv => DeliveredAsConfirmed
  BY DEF DeliveryInv, RemoteInv, DeliveredAsConfirmed
<1> QED BY <1>1, DeliveryInvariant, PTL

(* The bytes of an accepted upload are in R2 or whole in the spool.        *)
THEOREM BytesAreKept == ASSUME RewritesFinish PROVE Spec => []AcceptedBytesKept
<1>1. DeliveryInv => AcceptedBytesKept
  BY DEF DeliveryInv, AcceptedInv, AcceptedBytesKept
<1> QED BY <1>1, DeliveryInvariant, PTL

(* A completion that arrives late, or twice, does not change the object.   *)
THEOREM ObjectStands == ASSUME RewritesFinish PROVE Spec => StoredOnce
<1>1. DeliveryInv /\ DeliveryInv' /\ [Next]_vars => [object # NoParts => object' = object]_vars
  <2> SUFFICES ASSUME DeliveryInv, DeliveryInv', [Next]_vars, object # NoParts
               PROVE  object' = object
    OBVIOUS
  <2>1. object = confirmed /\ status # "uploading"
    BY DEF DeliveryInv, RemoteInv, UploadingInv
  <2>2. object' \in {object, confirmed}
    <3>1. CASE \E call \in calls : Complete(call)
      BY <3>1 DEF Complete, DeliveryInv, RemoteInv
    <3>2. CASE ~ \E call \in calls : Complete(call)
      BY <3>2 DEF Next, vars, PartStep, StartPart, RenamePart, DescribePart, ConfirmPart, DropPart,
         CompleteUpload, Claim, DeliveryStep, HeadFound, HeadMissing, ListLocal, ReadState, Adopt,
         CreateRemote, SaveState, WriteState, ListRemote, Reuse, Deliver, RecordPart,
         CompleteMultipart, Succeed, Fail, Settle, Ignore, Fault, r2
    <3> QED BY <3>1, <3>2
  <2> QED BY <2>1, <2>2
<1> QED BY <1>1, DeliveryInvariant, PTL DEF Spec, StoredOnce
=============================================================================
