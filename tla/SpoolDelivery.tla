---------------------------- MODULE SpoolDelivery ----------------------------
(***************************************************************************)
(* The bytes of one upload: the part files and JSON files of its directory *)
(* in the spool, and their delivery to R2 by the finalizer, from the end   *)
(* of its initialization to the end of its delivery.                       *)
(*                                                                         *)
(* Bytes are values that are equal or not; their SHA-256 (the ETag of the  *)
(* spool) and their R2 ETag identify them, and their size is the planned   *)
(* size of the part.  A file appears under its name by a rename, at once.  *)
(* UploadSession shows who may work on an upload at the same time: part    *)
(* requests on different parts, no request beside accepted bytes.  Workers *)
(* may overlap here, as they do when a lock was lost; the last claim owns  *)
(* the row.  The bytes of an accepted part never change, so an R2 call     *)
(* that sends one and is answered late changes nothing.                    *)
(***************************************************************************)
EXTENDS Naturals, FiniteSets

CONSTANTS
  PartCount,         \* expected_part_count
  Bytes, NoBytes,    \* contents of a part, and "there are none"
  Sent,              \* for each part, the contents that requests carry
  InterruptedParts,  \* parts whose requests may end between file and row
  Requests,          \* concurrent PUT part requests
  Workers, NoWorker, \* finalizers, and "nobody"
  MaxMultiparts,     \* bound: R2 multipart uploads ever created
  MaxFaults          \* bound: failed calls, crashes, expired multiparts

PartNumbers == 1..PartCount
Multiparts == 1..MaxMultiparts

ASSUME PartCountAssumption == PartCount \in Nat \ {0}
ASSUME BytesAssumption == NoBytes \notin Bytes
ASSUME WorkersAssumption == NoWorker \notin Workers
ASSUME SentAssumption == Sent \in [PartNumbers -> SUBSET Bytes]
ASSUME InterruptedAssumption == InterruptedParts \subseteq PartNumbers
ASSUME BoundsAssumption == MaxMultiparts \in Nat \ {0} /\ MaxFaults \in Nat

VARIABLES
  status,     \* upload_sessions.status
  owner,      \* the worker whose claim made the row's current version
  confirmed,  \* upload_parts: the ETag of each confirmed part
  manifest,   \* manifest.json (and so the directory) exists
  bin,        \* NNNNN.bin
  meta,       \* NNNNN.json
  remote,     \* remote.json
  created,    \* number of R2 multipart uploads created, the latest is the highest
  live,       \* those that are neither completed nor aborted
  stored,     \* the parts R2 keeps of each
  calls,      \* CompleteMultipartUpload calls on their way to R2
  object,     \* the object's parts
  request,    \* the PUT part handlers
  worker,     \* the finalizers
  faults

row == <<status, owner, confirmed>>
spool == <<manifest, bin, meta, remote>>
r2 == <<created, live, stored, calls, object>>
vars == <<status, owner, confirmed, manifest, bin, meta, remote,
          created, live, stored, calls, object, request, worker, faults>>

Parts == [PartNumbers -> Bytes \union {NoBytes}]
NoParts == [n \in PartNumbers |-> NoBytes]

NoRemote == [id |-> 0, parts |-> NoParts]
IdleRequest == [at |-> "idle", part |-> 0, body |-> NoBytes]
IdleWorker == [at |-> "idle", local |-> NoParts, id |-> 0, parts |-> NoParts,
               existing |-> NoParts, next |-> 1, excluded |-> 0]

Init ==
  /\ status = "uploading" /\ owner = NoWorker /\ confirmed = NoParts
  /\ manifest = TRUE /\ bin = NoParts /\ meta = NoParts /\ remote = NoRemote
  /\ created = 0 /\ live = {} /\ stored = [id \in Multiparts |-> NoParts]
  /\ calls = {} /\ object = NoParts
  /\ request = [r \in Requests |-> IdleRequest]
  /\ worker = [w \in Workers |-> IdleWorker]
  /\ faults = 0

-----------------------------------------------------------------------------
(* PUT part.  The same bytes as the confirmed ones are answered without    *)
(* writing; other bytes replace the files, then the row.                   *)

StartPart(r, n, b) ==
  /\ request[r].at = "idle"
  /\ status = "uploading"
  /\ ~ \E other \in Requests : request[other].part = n
  /\ confirmed[n] # b
  /\ n > 1 => confirmed[1] # NoBytes
  /\ request' = [request EXCEPT ![r] = [at |-> "writing", part |-> n, body |-> b]]
  /\ UNCHANGED <<row, spool, r2, worker, faults>>

RenamePart(r) ==
  /\ request[r].at = "writing"
  /\ manifest
  /\ bin' = [bin EXCEPT ![request[r].part] = request[r].body]
  /\ request' = [request EXCEPT ![r].at = "renamed"]
  /\ UNCHANGED <<row, manifest, meta, remote, r2, worker, faults>>

DescribePart(r) ==
  /\ request[r].at = "renamed"
  /\ meta' = [meta EXCEPT ![request[r].part] = request[r].body]
  /\ request' = [request EXCEPT ![r].at = "stored"]
  /\ UNCHANGED <<row, manifest, bin, remote, r2, worker, faults>>

ConfirmPart(r) ==
  /\ request[r].at = "stored"
  /\ status = "uploading"
  /\ confirmed' = [confirmed EXCEPT ![request[r].part] = request[r].body]
  /\ request' = [request EXCEPT ![r] = IdleRequest]
  /\ UNCHANGED <<status, owner, spool, r2, worker, faults>>

(* The request or the process ends.  Between the file and the row that     *)
(* happens in InterruptedParts only.                                       *)
MayDrop(r) ==
  request[r].at = "writing" \/ (request[r].at # "idle" /\ request[r].part \in InterruptedParts)

DropPart(r) ==
  /\ MayDrop(r)
  /\ request' = [request EXCEPT ![r] = IdleRequest]
  /\ UNCHANGED <<row, spool, r2, worker, faults>>

(* POST complete: the exclusive gate waits for every part request.         *)
MayAccept_Ungated == \A n \in PartNumbers : confirmed[n] # NoBytes   \* mutant: no gate
MayAccept ==
  /\ \A r \in Requests : request[r].at = "idle"
  /\ \A n \in PartNumbers : confirmed[n] # NoBytes

CompleteUpload ==
  /\ status = "uploading"
  /\ MayAccept
  /\ status' = "completing"
  /\ UNCHANGED <<owner, confirmed, spool, r2, request, worker, faults>>

-----------------------------------------------------------------------------
(* What HEAD does besides reading the object: removeCompletedObject.       *)

(* The metadata as initialize writes it into the manifest, and as the R2   *)
(* client returns it from HEAD.                                            *)
ManifestMetadata == [mediaid |-> "media", userid |-> "user"]
HeadMetadata == [mediaId |-> "media", userId |-> "user"]
Field(metadata, key) == IF key \in DOMAIN metadata THEN metadata[key] ELSE "undefined"

Readable == manifest /\ \A n \in PartNumbers : meta[n] # NoBytes => bin[n] # NoBytes
Removable ==
  /\ Readable
  /\ \A key \in {"mediaId", "userId"} : Field(HeadMetadata, key) = Field(ManifestMetadata, key)
  /\ \A n \in PartNumbers : meta[n] # NoBytes

RemoveCompletedObject ==
  IF Removable
  THEN /\ manifest' = FALSE /\ bin' = NoParts /\ meta' = NoParts /\ remote' = NoRemote
  ELSE UNCHANGED spool

-----------------------------------------------------------------------------
(* The finalizer.                                                          *)

Goto(w, at) == worker' = [worker EXCEPT ![w].at = at]
Leave(w) == worker' = [worker EXCEPT ![w] = IdleWorker]

(* The claim and the reading of the claimed row.  One beside a working     *)
(* finalizer takes a lost lock and an ended lease.                         *)
Claim(w) ==
  /\ worker[w].at = "idle"
  /\ status = "completing"
  /\ IF \A other \in Workers : worker[other].at = "idle" THEN UNCHANGED faults
     ELSE faults < MaxFaults /\ faults' = faults + 1
  /\ owner' = w
  /\ Goto(w, "head")
  /\ UNCHANGED <<status, confirmed, spool, r2, request>>

HeadFound(w) ==
  /\ worker[w].at \in {"head", "verify"}
  /\ object # NoParts
  /\ RemoveCompletedObject
  /\ Goto(w, "settle")
  /\ UNCHANGED <<row, r2, request, faults>>

HeadMissing(w) ==
  /\ object = NoParts
  /\ \/ worker[w].at = "head" /\ Goto(w, "local")
     \/ worker[w].at = "verify" /\ Leave(w)
  /\ UNCHANGED <<row, spool, r2, request, faults>>

(* Without readable files the job is left, and retried later.              *)
ListLocal(w) ==
  /\ worker[w].at = "local"
  /\ IF Readable THEN worker' = [worker EXCEPT ![w].at = "state", ![w].local = meta]
     ELSE Leave(w)
  /\ UNCHANGED <<row, spool, r2, request, faults>>

ReadState(w) ==
  /\ worker[w].at = "state"
  /\ worker' = [worker EXCEPT ![w].at = IF remote.id = 0 THEN "adopt" ELSE "remote",
                              ![w].id = remote.id, ![w].parts = remote.parts]
  /\ UNCHANGED <<row, spool, r2, request, faults>>

(* createOrAdoptRemote: the oldest live multipart upload of the key, or a  *)
(* new one; either is written to remote.json before it is used.            *)
Candidates(w) == live \ {worker[w].excluded}

Adopt(w) ==
  /\ worker[w].at = "adopt"
  /\ IF Candidates(w) = {} THEN Goto(w, "create")
     ELSE \E id \in Candidates(w) :
            /\ \A other \in Candidates(w) : id <= other
            /\ worker' = [worker EXCEPT ![w].at = "save", ![w].id = id, ![w].parts = NoParts]
  /\ UNCHANGED <<row, spool, r2, request, faults>>

CreateRemote(w) ==
  /\ worker[w].at = "create"
  /\ created < MaxMultiparts
  /\ created' = created + 1
  /\ live' = live \union {created'}
  /\ worker' = [worker EXCEPT ![w].at = "save", ![w].id = created', ![w].parts = NoParts]
  /\ UNCHANGED <<row, spool, stored, calls, object, request, faults>>

WriteState(w, following) ==
  /\ IF manifest
     THEN /\ remote' = [id |-> worker[w].id, parts |-> worker[w].parts]
          /\ worker' = [worker EXCEPT ![w] = following]
     ELSE UNCHANGED remote /\ Leave(w)
  /\ UNCHANGED <<row, manifest, bin, meta, r2, request, faults>>

SaveState(w) == worker[w].at = "save" /\ WriteState(w, [worker[w] EXCEPT !.at = "remote"])

(* What R2 does not know any more it answers with a definite NOT_FOUND;    *)
(* every other error leaves it open what happened.                         *)
Known(w) == worker[w].id \in live

(* The parts R2 has.  A multipart upload that R2 does not know any more is *)
(* replaced once; if the replacement is unknown, too, NOT_FOUND goes up.   *)
WhenUnknown_Kept(w) == Leave(w)   \* mutant: the lost multipart is retried
WhenUnknown(w) ==
  IF worker[w].excluded = 0
  THEN worker' = [worker EXCEPT ![w].at = "adopt", ![w].excluded = worker[w].id]
  ELSE Goto(w, "fail")

ListRemote(w) ==
  /\ worker[w].at = "remote"
  /\ IF Known(w)
     THEN worker' = [worker EXCEPT ![w].at = "deliver", ![w].existing = stored[worker[w].id],
                                   ![w].next = 1]
     ELSE WhenUnknown(w)
  /\ UNCHANGED <<row, spool, r2, request, faults>>

(* The listed parts, which are all parts, one after the other.  A part     *)
(* that R2 has in the right size is not sent again.                        *)
Reuse(w) ==
  LET n == worker[w].next
  IN /\ worker[w].at = "deliver"
     /\ worker[w].existing[n] # NoBytes
     /\ worker' = [worker EXCEPT ![w].at = "record", ![w].parts[n] = worker[w].existing[n]]
     /\ UNCHANGED <<row, spool, r2, request, faults>>

Deliver(w) ==
  LET n == worker[w].next
      id == worker[w].id
  IN /\ worker[w].at = "deliver"
     /\ worker[w].existing[n] = NoBytes
     /\ IF Known(w) /\ bin[n] # NoBytes
        THEN /\ stored' = [stored EXCEPT ![id][n] = bin[n]]
             /\ worker' = [worker EXCEPT ![w].at = "record", ![w].parts[n] = bin[n]]
        ELSE /\ UNCHANGED stored
             /\ IF Known(w) THEN Leave(w) ELSE Goto(w, "fail")
     /\ UNCHANGED <<row, spool, created, live, calls, object, request, faults>>

LastPart_Beyond == PartCount + 1   \* mutant: off by one
LastPart == PartCount
After(w) == IF worker[w].next = LastPart THEN "complete" ELSE "deliver"
Following(w) == IF worker[w].next = LastPart THEN LastPart ELSE worker[w].next + 1

RecordPart(w) ==
  /\ worker[w].at = "record"
  /\ WriteState(w, [worker[w] EXCEPT !.at = After(w), !.next = Following(w)])

(* If the listed parts are those of the rows, remote.json is read again;   *)
(* it must have an ETag for every part.  An error is swallowed, and HEAD   *)
(* decides.  A mismatch is retried later.                                  *)
Recorded_Partly == remote.id # 0   \* mutant: parts without an ETag are left out
Recorded == remote.id # 0 /\ \A n \in PartNumbers : remote.parts[n] # NoBytes

Mismatched(w) == worker[w].local # confirmed

CompleteMultipart(w) ==
  /\ worker[w].at = "complete"
  /\ IF Mismatched(w) THEN UNCHANGED calls /\ Leave(w)
     ELSE /\ calls' = IF Recorded THEN calls \union {remote} ELSE calls
          /\ Goto(w, "verify")
  /\ UNCHANGED <<row, spool, created, live, stored, object, request, faults>>

Settle(w, outcome) ==
  /\ owner = w /\ status = "completing"
  /\ status' = outcome
  /\ Leave(w)
  /\ UNCHANGED <<owner, confirmed, spool, r2, request, faults>>

Succeed(w) == worker[w].at = "settle" /\ Settle(w, "completed")
Fail(w) == worker[w].at = "fail" /\ Settle(w, "failed")

(* The row has another owner, or is not completing any more.               *)
Ignore(w) ==
  /\ worker[w].at \in {"settle", "fail"}
  /\ owner # w \/ status # "completing"
  /\ Leave(w)
  /\ UNCHANGED <<row, spool, r2, request, faults>>

-----------------------------------------------------------------------------
(* R2 and the faults.                                                      *)

(* A completion takes effect if the multipart upload is there and has the  *)
(* named parts; its caller may have stopped waiting long before.           *)
Complete(call) ==
  /\ calls' = calls \ {call}
  /\ IF /\ call.id \in live
        /\ \A n \in PartNumbers : call.parts[n] \in {NoBytes, stored[call.id][n]}
     THEN object' = call.parts /\ live' = live \ {call.id}
     ELSE UNCHANGED <<object, live>>
  /\ UNCHANGED <<row, spool, created, stored, request, worker, faults>>

Fault ==
  /\ faults < MaxFaults
  /\ faults' = faults + 1
  /\ \/ \E w \in Workers : worker[w].at # "idle" /\ Leave(w)
        /\ UNCHANGED <<live, calls>>
     \/ \E call \in calls : calls' = calls \ {call}
        /\ UNCHANGED <<live, worker>>
     \/ \E id \in live : live' = live \ {id}   \* R2 expires old multipart uploads
        /\ UNCHANGED <<calls, worker>>
  /\ UNCHANGED <<row, spool, created, stored, object, request>>

-----------------------------------------------------------------------------
PartStep(r) == RenamePart(r) \/ DescribePart(r) \/ ConfirmPart(r) \/ DropPart(r)

DeliveryStep(w) ==
  \/ HeadFound(w) \/ HeadMissing(w) \/ ListLocal(w) \/ ReadState(w)
  \/ Adopt(w) \/ CreateRemote(w) \/ SaveState(w) \/ ListRemote(w)
  \/ Reuse(w) \/ Deliver(w) \/ RecordPart(w)
  \/ CompleteMultipart(w) \/ Succeed(w) \/ Fail(w) \/ Ignore(w)

Next ==
  \/ \E r \in Requests : PartStep(r) \/ \E n \in PartNumbers : \E b \in Sent[n] : StartPart(r, n, b)
  \/ CompleteUpload
  \/ \E w \in Workers : Claim(w) \/ DeliveryStep(w)
  \/ \E call \in calls : Complete(call)
  \/ Fault

Spec == Init /\ [][Next]_vars

(* Once R2 answers: after the last fault (MaxFaults), the polling loop     *)
(* claims the row again and again, a claimed job goes on, and a call that  *)
(* was sent arrives.  Nothing is assumed of clients.                       *)
Fairness ==
  /\ \A w \in Workers : WF_vars(Claim(w)) /\ WF_vars(DeliveryStep(w))
  /\ WF_vars(\E call \in calls : Complete(call))

FairSpec == Spec /\ Fairness

-----------------------------------------------------------------------------
(* Properties.                                                             *)

(* Every variable has its type; in particular, the finalizer's loop never  *)
(* leaves the parts of the upload.                                         *)
TypeOK ==
  /\ status \in {"uploading", "completing", "completed", "failed"}
  /\ owner \in Workers \union {NoWorker}
  /\ {confirmed, bin, meta, object} \subseteq Parts
  /\ manifest \in BOOLEAN
  /\ remote \in [id : Multiparts \union {0}, parts : Parts]
  /\ created \in 0..MaxMultiparts
  /\ live \subseteq 1..created
  /\ stored \in [Multiparts -> Parts]
  /\ calls \subseteq [id : Multiparts, parts : Parts]
  /\ request \in [Requests -> [at : {"idle", "writing", "renamed", "stored"},
                               part : PartNumbers \union {0}, body : Bytes \union {NoBytes}]]
  /\ worker \in [Workers ->
       [at : {"idle", "head", "local", "state", "adopt", "create", "save", "remote", "deliver",
              "record", "complete", "verify", "settle", "fail"},
        local : Parts, id : Multiparts \union {0}, parts : Parts, existing : Parts,
        next : PartNumbers, excluded : Multiparts \union {0}]]
  /\ faults \in 0..MaxFaults

(* What R2 holds is what the client was told had been received, part by    *)
(* part, whoever delivered it in however many attempts.                    *)
DeliveredAsConfirmed == object # NoParts => object = confirmed

(* From the moment an upload is accepted, its bytes are never lost: they   *)
(* are in R2, or complete and readable in the spool.                       *)
AcceptedBytesKept ==
  status # "uploading" =>
    object = confirmed \/ (manifest /\ bin = confirmed /\ meta = confirmed)

(* A late or repeated completion never puts a second, different object in  *)
(* the place of the first.                                                 *)
StoredOnce == [][object # NoParts => object' = object]_vars

(* An accepted upload is delivered once the faults end, unless R2 dropped  *)
(* the multipart upload in the middle.                                     *)
AcceptedIsDelivered == status = "completing" ~> status \in {"completed", "failed"}

(* The directory of a delivered upload is removed.                         *)
SpoolRemovedWhenDelivered == status = "completed" => ~manifest
=============================================================================
