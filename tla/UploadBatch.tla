----------------------------- MODULE UploadBatch -----------------------------
(***************************************************************************)
(* The uploads of the mini program together: the batch lock of App and of  *)
(* MediaUploadService, the UploadQueue, the chunk files and the registry   *)
(* of resume records that all runners share, and the retry and deletion    *)
(* that the history page offers.  UploadRunner has one upload in detail;   *)
(* here it is the steps at which it takes or returns something shared,     *)
(* with one part per file and the app always visible.                      *)
(*                                                                         *)
(* An attempt is one run of one file.  Numbers give the order in which a   *)
(* selection lists its files.                                              *)
(***************************************************************************)
EXTENDS Naturals, FiniteSets, SequencesExt

CONSTANTS
  AttemptCount,    \* bound: attempts there can ever be
  MaxUnfinished,   \* MAX_UNFINISHED_UPLOADS, of queue, registry and server
  MaxActiveChunks, \* MAX_ACTIVE_CHUNKS
  MaxRestarts,     \* bound: restarts of the app
  Look             \* name and size of an attempt's file

Attempts == 1..AttemptCount

(* What the constants must satisfy.                                        *)
ASSUME BatchAssumption ==
  /\ AttemptCount \in Nat \ {0} /\ Look \in [Attempts -> Nat]
  /\ MaxUnfinished \in Nat \ {0} /\ MaxActiveChunks \in Nat \ {0}
  /\ MaxRestarts \in Nat

VARIABLES
  services,  \* uploadServicesPromise
  restarts,
  batch,     \* uploadBatchActive, #batchLocked, and the record to be replaced
  item,      \* the queue's item
  work,      \* where the attempt's runner awaits
  allocated, \* #allocatedCount
  stuck,     \* chunks whose deletion failed, which keep their slot
  disk,      \* attempts with a chunk file on disk
  stray,     \* of these, the files left by a failed write
  registry,  \* keys of the resume records, oldest first
  ids,       \* attempts whose uploadId the client has received
  server,    \* the server's session
  visible    \* history records not deleted

client == <<batch, item, work, registry>>
chunks == <<allocated, stuck, disk, stray>>
remote == <<server, visible>>
batchVars == <<services, restarts, client, chunks, ids, remote>>

NoBatch == [at |-> "none", retry |-> 0]
Holding == {a \in Attempts : work[a] \in {"cut", "send", "drop", "dropFailed"}}
Open == {a \in Attempts : server[a] = "open"}
Terminal == {"accepted", "closed"}

BatchInit ==
  /\ services = "down" /\ restarts = 0
  /\ batch = NoBatch
  /\ item = [a \in Attempts |-> "none"] /\ work = [a \in Attempts |-> "none"]
  /\ allocated = 0 /\ stuck = {} /\ disk = {} /\ stray = {}
  /\ registry = <<>> /\ ids = {}
  /\ server = [a \in Attempts |-> "none"] /\ visible = {}

BatchTypeOK ==
  /\ services \in {"down", "ready"} /\ restarts \in 0..MaxRestarts
  /\ batch \in [at : {"none", "prepare", "run"}, retry : 0..AttemptCount]
  /\ item \in [Attempts -> {"none", "selected", "queued", "uploading", "uploaded", "failed", "lost"}]
  /\ work \in [Attempts -> {"none", "key", "init", "cut", "send", "drop", "dropFailed",
                            "completeKey", "complete", "abort"}]
  /\ allocated \in 0..MaxActiveChunks
  /\ stuck \subseteq Attempts /\ disk \subseteq Attempts /\ stray \subseteq Attempts
  /\ IsInjective(registry) /\ Range(registry) \subseteq Attempts /\ Len(registry) <= MaxUnfinished
  /\ ids \subseteq Attempts /\ visible \subseteq Attempts
  /\ server \in [Attempts -> {"none", "open", "accepted", "closed"}]

-----------------------------------------------------------------------------
(* The registry of resume records.                                         *)

CanSave(a) == a \in Range(registry) \/ Len(registry) < MaxUnfinished
Saved(a) == IF a \in Range(registry) THEN registry ELSE Append(registry, a)
Without(a) == RemoveFirst(registry, a)

(* The record of this upload, or else the newest of a file that looks      *)
(* alike; 0 is none.                                                       *)
Retained(a) ==
  LET alike == {i \in DOMAIN registry : Look[registry[i]] = Look[a]}
  IN IF a \in ids /\ a \in Range(registry) THEN a
     ELSE IF alike = {} THEN 0 ELSE registry[CHOOSE i \in alike : \A j \in alike : j <= i]

-----------------------------------------------------------------------------
(* The queue.                                                              *)

(* #drain: as many queued items as there is room for, in their order.      *)
Started(items) ==
  LET queued(a) == {b \in Attempts : items[b] = "queued" /\ b <= a}
      room == MaxUnfinished - Cardinality({a \in Attempts : items[a] = "uploading"})
  IN [a \in Attempts |-> IF items[a] = "queued" /\ Cardinality(queued(a)) <= room
                         THEN "uploading" ELSE items[a]]

Run(items) ==
  /\ item' = Started(items)
  /\ work' = [a \in Attempts |-> IF item'[a] # "uploading" THEN "none"
                                 ELSE IF item[a] # "uploading" THEN "key" ELSE work[a]]

ItemEnds_Unfilled(a, result) ==   \* mutant: a free place is not given to the next file
  /\ item' = [item EXCEPT ![a] = result]
  /\ work' = [work EXCEPT ![a] = "none"]
  /\ batch' = IF \E b \in Attempts : item'[b] = "uploading" THEN batch ELSE NoBatch
ItemEnds(a, result) ==
  /\ Run([item EXCEPT ![a] = result])
  /\ batch' = IF \E b \in Attempts : item'[b] = "uploading" THEN batch ELSE NoBatch

-----------------------------------------------------------------------------
(* Batches.                                                                *)

(* Uploads are offered once the chunk files of an earlier process are gone. *)
CleanupOrphans ==
  /\ services = "down"
  /\ \E left \in SUBSET disk :
       /\ disk' = left
       /\ services' = IF left = {} THEN "ready" ELSE "down"
  /\ stray' = stray \intersect disk'
  /\ UNCHANGED <<restarts, client, allocated, stuck, ids, remote>>

Begin(selection, record) ==
  /\ services = "ready" /\ batch.at = "none"
  /\ batch' = [at |-> "prepare", retry |-> record]
  /\ item' = [a \in Attempts |-> IF a \in selection THEN "selected" ELSE item[a]]
  /\ UNCHANGED <<services, restarts, work, registry, chunks, ids, remote>>

Unstarted == {a \in Attempts : item[a] = "none"}

Dispatch == \E selection \in (SUBSET Unstarted) \ {{}} : Begin(selection, 0)

Retry(a) ==
  /\ a \in visible /\ server[a] = "closed"
  /\ Retained(a) # 0
  /\ \E b \in Unstarted : Look[b] = Look[Retained(a)] /\ Begin({b}, Retained(a))

(* Every source is readable: the batch runs, and a retried record makes    *)
(* room for the new one.                                                   *)
Prepared_RecordKept ==   \* mutant: the retried record keeps its place
  /\ batch.at = "prepare"
  /\ batch' = [batch EXCEPT !.at = "run"]
  /\ Run([a \in Attempts |-> IF item[a] = "selected" THEN "queued" ELSE item[a]])
  /\ UNCHANGED <<services, restarts, registry, chunks, ids, remote>>
Prepared ==
  /\ batch.at = "prepare"
  /\ batch' = [batch EXCEPT !.at = "run"]
  /\ Run([a \in Attempts |-> IF item[a] = "selected" THEN "queued" ELSE item[a]])
  /\ registry' = Without(batch.retry)
  /\ UNCHANGED <<services, restarts, chunks, ids, remote>>

SourceInvalid ==
  /\ batch.at = "prepare"
  /\ batch' = NoBatch
  /\ item' = [a \in Attempts |-> IF item[a] = "selected" THEN "none" ELSE item[a]]
  /\ UNCHANGED <<services, restarts, work, registry, chunks, ids, remote>>

(* The delete request is answered, or its answer is lost.                  *)
DeleteRecord(a) ==
  /\ services = "ready"
  /\ a \in visible /\ server[a] \in Terminal
  /\ visible' = visible \ {a}
  /\ registry' \in {registry, Without(Retained(a))}
  /\ UNCHANGED <<services, restarts, batch, item, work, chunks, ids, server>>

-----------------------------------------------------------------------------
(* An attempt.                                                             *)

GoTo(a, place) == work' = [work EXCEPT ![a] = place] /\ UNCHANGED <<batch, item>>

RecordMade(a) ==
  /\ work[a] = "key"
  /\ IF CanSave(a)
     THEN registry' = Saved(a) /\ GoTo(a, "init")
     ELSE ItemEnds(a, "failed") /\ UNCHANGED registry
  /\ UNCHANGED <<services, restarts, chunks, ids, remote>>

ServerInitializes(a) ==
  /\ Cardinality(Open) < MaxUnfinished
  /\ server' = [server EXCEPT ![a] = "open"] /\ visible' = visible \union {a}

(* The random number source or the request fails, and the request arrives  *)
(* all the same or not.                                                    *)
InitFails(a) ==
  /\ work[a] \in {"key", "init"}
  /\ ItemEnds(a, "failed")
  /\ \/ UNCHANGED remote
     \/ work[a] = "init" /\ ServerInitializes(a)
  /\ UNCHANGED <<services, restarts, registry, chunks, ids>>

(* create() takes a slot at once or fails.                                 *)
TakeSlot(a) ==
  IF allocated < MaxActiveChunks
  THEN allocated' = allocated + 1 /\ GoTo(a, "cut")
  ELSE GoTo(a, "abort") /\ UNCHANGED allocated

InitAnswered(a) ==
  /\ work[a] = "init" /\ ServerInitializes(a)
  /\ ids' = ids \union {a}
  /\ IF CanSave(a)
     THEN registry' = Saved(a) /\ TakeSlot(a)
     ELSE ItemEnds(a, "failed") /\ UNCHANGED <<registry, allocated>>
  /\ UNCHANGED <<services, restarts, stuck, disk, stray>>

CutDone(a) ==
  /\ work[a] = "cut"
  /\ disk' = disk \union {a} /\ stray' = stray \ {a}
  /\ GoTo(a, "send")
  /\ UNCHANGED <<services, restarts, registry, allocated, stuck, ids, remote>>

ReturnSlot_Never == UNCHANGED allocated   \* mutant: a slot is not returned
ReturnSlot == allocated' = allocated - 1

(* The source cannot be read, or the file cannot be written and what was   *)
(* written may stay.                                                       *)
CutFails(a) ==
  /\ work[a] = "cut"
  /\ ReturnSlot
  /\ \/ UNCHANGED <<disk, stray>>
     \/ disk' = disk \union {a} /\ stray' = stray \union {a}
  /\ GoTo(a, "abort")
  /\ UNCHANGED <<services, restarts, registry, stuck, ids, remote>>

PartConfirmed(a) ==
  /\ work[a] = "send" /\ server[a] = "open"
  /\ IF CanSave(a)
     THEN registry' = Saved(a) /\ GoTo(a, "drop")
     ELSE GoTo(a, "dropFailed") /\ UNCHANGED registry
  /\ UNCHANGED <<services, restarts, chunks, ids, remote>>

PartFails(a) ==
  /\ work[a] = "send"
  /\ GoTo(a, "dropFailed")
  /\ UNCHANGED <<services, restarts, registry, chunks, ids, remote>>

ChunkDeleted(a) ==
  /\ work[a] \in {"drop", "dropFailed"}
  /\ ReturnSlot /\ disk' = disk \ {a}
  /\ GoTo(a, IF work[a] = "drop" THEN "completeKey" ELSE "abort")
  /\ UNCHANGED <<services, restarts, registry, stuck, stray, ids, remote>>

ChunkStays(a) ==
  /\ work[a] \in {"drop", "dropFailed"}
  /\ stuck' = stuck \union {a}
  /\ GoTo(a, "abort")
  /\ UNCHANGED <<services, restarts, registry, allocated, disk, stray, ids, remote>>

CompleteKeyReady(a) ==
  /\ work[a] = "completeKey"
  /\ IF CanSave(a)
     THEN registry' = Saved(a) /\ GoTo(a, "complete")
     ELSE GoTo(a, "abort") /\ UNCHANGED registry
  /\ UNCHANGED <<services, restarts, chunks, ids, remote>>

Completed(a) ==
  /\ work[a] = "complete" /\ server[a] = "open"
  /\ server' = [server EXCEPT ![a] = "accepted"]
  /\ registry' = Without(a)
  /\ ItemEnds(a, "uploaded")
  /\ UNCHANGED <<services, restarts, chunks, ids, visible>>

CompleteFails(a) ==
  /\ work[a] = "complete"
  /\ \/ UNCHANGED server
     \/ server[a] = "open" /\ server' = [server EXCEPT ![a] = "accepted"]
  /\ GoTo(a, "abort")
  /\ UNCHANGED <<services, restarts, registry, chunks, ids, visible>>

(* #scheduleFailureCleanup, whatever becomes of its request.               *)
AbortEnds(a) ==
  /\ work[a] = "abort"
  /\ registry' = IF CanSave(a) THEN Saved(a) ELSE registry
  /\ \/ UNCHANGED server
     \/ CanSave(a) /\ server[a] = "open" /\ server' = [server EXCEPT ![a] = "closed"]
  /\ ItemEnds(a, "failed")
  /\ UNCHANGED <<services, restarts, chunks, ids, visible>>

-----------------------------------------------------------------------------
(* The server and the platform.                                            *)

(* The user cancels the record, or its deadline passes.                    *)
ServerCloses(a) ==
  /\ a \in Open
  /\ server' = [server EXCEPT ![a] = "closed"]
  /\ UNCHANGED <<services, restarts, client, chunks, ids, visible>>

Restart ==
  /\ services = "ready" /\ restarts < MaxRestarts
  /\ services' = "down" /\ restarts' = restarts + 1
  /\ batch' = NoBatch
  /\ item' = [a \in Attempts |->
                IF item[a] \in {"selected", "queued", "uploading"} THEN "lost" ELSE item[a]]
  /\ work' = [a \in Attempts |-> "none"]
  /\ allocated' = 0 /\ stuck' = {}
  /\ UNCHANGED <<registry, disk, stray, ids, remote>>

-----------------------------------------------------------------------------
AttemptStep ==
  \E a \in Attempts :
    \/ RecordMade(a) \/ InitFails(a) \/ InitAnswered(a) \/ CutDone(a) \/ CutFails(a)
    \/ PartConfirmed(a) \/ PartFails(a) \/ ChunkDeleted(a) \/ ChunkStays(a)
    \/ CompleteKeyReady(a) \/ Completed(a) \/ CompleteFails(a) \/ AbortEnds(a)

BatchStep == Prepared \/ SourceInvalid

BatchNext ==
  \/ AttemptStep \/ BatchStep \/ CleanupOrphans \/ Dispatch \/ Restart
  \/ \E a \in Attempts : Retry(a) \/ DeleteRecord(a) \/ ServerCloses(a)

BatchSpec == BatchInit /\ [][BatchNext]_batchVars

(* Every request and file operation of a batch ends, well or badly.        *)
FairSpec == BatchSpec /\ WF_batchVars(AttemptStep) /\ WF_batchVars(BatchStep)

-----------------------------------------------------------------------------
(* Every slot belongs to a chunk that some runner still has, or to one     *)
(* whose deletion failed, and every chunk file on disk, restarts included,  *)
(* has its slot, but for a half-written one that could not be removed: no   *)
(* failure of any step loses a slot, returns one twice or leaves a file     *)
(* that nobody counts.                                                      *)
SlotsAccounted ==
  /\ allocated = Cardinality(Holding) + Cardinality(stuck)
  /\ services = "ready" => disk \ stray \subseteq Holding \union stuck

(* A retry always finds room for its record, even in a full registry: the  *)
(* record it replaces leaves before its own is saved.                      *)
RetryHasRoom ==
  \A a \in Attempts :
    batch.at = "run" /\ batch.retry # 0 /\ work[a] = "key" => CanSave(a)

(* The queue cannot stall: a batch that holds the lock has a file under    *)
(* way, no file waits beside a free place, and every file under way has a  *)
(* runner that will end it, whichever files fail and at whatever step.     *)
QueueFlows ==
  LET running == {a \in Attempts : item[a] = "uploading"}
  IN /\ batch.at = "run" <=> running # {}
     /\ (\E a \in Attempts : item[a] = "queued") => Cardinality(running) = MaxUnfinished
     /\ running = {a \in Attempts : work[a] # "none"}

(* An upload that the server has initialized is not given up before its    *)
(* first chunk was tried: only a failed request or file operation of its   *)
(* own ends it.                                                            *)
FailsOnlyByOwn == [][\A a \in Attempts : work[a] = "init" => work'[a] # "abort"]_batchVars
=============================================================================
