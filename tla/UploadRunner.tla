---------------------------- MODULE UploadRunner ----------------------------
(***************************************************************************)
(* One upload of the mini program, from its start to its result, while the *)
(* app is hidden and shown: the UploadRunner and its CompletionController, *)
(* the part of App and MediaUploadService that pauses and resumes them,    *)
(* and what they see of the server.                                        *)
(*                                                                         *)
(* JavaScript runs one callback at a time, so a step ends where the code   *)
(* awaits the network, a file or the random number source.  Storage is     *)
(* synchronous.  A request may fail at any time for the client and still   *)
(* arrive.  The generation counters of App, controller and runner count    *)
(* the same hides while an upload runs: one counter stands for the three.  *)
(***************************************************************************)
EXTENDS Naturals, FiniteSets

CONSTANTS
  PartCount,   \* parts of the file
  MaxParallel, \* maxParallelParts
  MaxHides     \* bound: how often the app is hidden

Parts == 1..PartCount
Calls == {"init", "get", "complete", "abort"}

ASSUME PartsAssumption == PartCount \in Nat \ {0}
ASSUME ParallelAssumption == MaxParallel \in 1..2
ASSUME HidesAssumption == MaxHides \in Nat

VARIABLES
  hidden,     \* applicationHidden
  hides,      \* applicationPauseGeneration, #pauseGeneration
  foreground, \* foregroundPromise and where its #resumeCurrent awaits
  gate,       \* backgrounded, #pauseRequested, active.paused
  at,         \* where #runFresh or #execute awaits
  pending,    \* active.pending
  part,       \* active.inFlight: where #uploadPart awaits
  parked,     \* active.parkedChunks
  verdict,    \* active.serverResult, active.terminalError
  shown,      \* parts the progress bar counts as confirmed
  result,     \* what run() gives
  store,      \* the resume record is in storage
  stray,      \* chunk files whose deletion failed
  call, partCall, reported, detail, \* requests and answers in transit
  session, stored \* the server's session and its confirmed parts

app == <<hidden, hides, foreground>>
run == <<at, pending, part, parked, result>>
net == <<call, partCall, reported, detail>>
server == <<session, stored>>
vars == <<app, gate, run, verdict, shown, store, stray, net, server>>

NoForeground == [at |-> "none", gen |-> 0]
NoDetail == [status |-> "none", pending |-> {}]

(* #currentRecord and #active are set. *)
Recorded == at \notin {"key", "settle", "done"}
Active == Recorded /\ at \notin {"initWait", "init"}
InFlight == {n \in Parts : part[n] # "none"}
Schedulable == ~gate.paused \/ verdict # "none"
HasChunk == {n \in Parts : part[n] \in {"send", "dropSent", "dropFailed"}} \union parked

Init ==
  /\ hidden = FALSE /\ hides = 0 /\ foreground = NoForeground
  /\ gate = [backgrounded |-> FALSE, requested |-> FALSE, paused |-> FALSE]
  /\ at = "key" /\ pending = {} /\ part = [n \in Parts |-> "none"] /\ parked = {}
  /\ verdict = "none" /\ shown = 0 /\ result = "none"
  /\ store = FALSE /\ stray = {}
  /\ call = [c \in Calls |-> "idle"] /\ partCall = [n \in Parts |-> "idle"]
  /\ reported = [n \in Parts |-> 0] /\ detail = NoDetail
  /\ session = "none" /\ stored = {}

TypeOK ==
  /\ hidden \in BOOLEAN /\ hides \in 0..MaxHides
  /\ foreground \in [at : {"none", "failed", "idle", "get", "apply"}, gen : 0..MaxHides]
  /\ gate \in [backgrounded : BOOLEAN, requested : BOOLEAN, paused : BOOLEAN]
  /\ at \in {"key", "initWait", "init", "firstWait", "first", "firstPaused", "later",
             "failing", "completeKey", "completeWait", "complete", "abortKey", "abort",
             "discard", "settle", "done"}
  /\ pending \subseteq Parts /\ parked \subseteq Parts /\ stray \subseteq Parts
  /\ part \in [Parts -> {"none", "cut", "send", "dropSent", "dropFailed"}]
  /\ verdict \in {"none", "accepted", "terminal"} /\ shown \in 0..PartCount
  /\ result \in {"none", "uploaded", "failed"} /\ store \in BOOLEAN
  /\ call \in [Calls -> {"idle", "sent", "ok", "refused"}]
  /\ partCall \in [Parts -> {"idle", "sent", "ok", "refused"}]
  /\ reported \in [Parts -> 0..PartCount]
  /\ detail \in [status : {"none", "uploading", "accepted", "closed"}, pending : SUBSET Parts]
  /\ session \in {"none", "uploading", "accepted", "closed"} /\ stored \subseteq Parts

-----------------------------------------------------------------------------
(* The runner's initialization.                                            *)

(* waitUntilForeground.                                                    *)
Foregrounded_Always == TRUE   \* mutant: nobody waits
Foregrounded == ~gate.requested

SendInit == call' = [call EXCEPT !["init"] = "sent"]

(* The idempotency key is there: the record is made and saved.             *)
RecordMade ==
  /\ at = "key"
  /\ store' = TRUE
  /\ IF Foregrounded
     THEN at' = "init" /\ SendInit
     ELSE at' = "initWait" /\ UNCHANGED call
  /\ UNCHANGED <<app, gate, pending, part, parked, result, verdict, shown, stray,
                 partCall, reported, detail, server>>

LeaveInitWait ==
  /\ at = "initWait"
  /\ Foregrounded
  /\ at' = "init" /\ SendInit
  /\ UNCHANGED <<app, gate, pending, part, parked, result, verdict, shown, store, stray,
                 partCall, reported, detail, server>>

(* The head of the loop of #execute: part 1 is taken out before the wait.  *)
EnterLoop(parts) ==
  /\ pending' = parts \ {1}
  /\ at' = IF 1 \in parts THEN "firstWait" ELSE "later"

InitAnswered ==
  /\ at = "init" /\ call["init"] = "ok"
  /\ call' = [call EXCEPT !["init"] = "idle"]
  /\ gate' = [gate EXCEPT !.paused = gate.requested]
  /\ store' = TRUE
  /\ EnterLoop(Parts)
  /\ UNCHANGED <<app, part, parked, result, verdict, shown, stray, partCall, reported, detail,
                 server>>

(* run() ends; the controller keeps the result while the app is hidden.    *)
End ==
  /\ at' = IF gate.backgrounded THEN "settle" ELSE "done"
  /\ gate' = [gate EXCEPT !.requested = FALSE]

Finish_KeepingChunks(res) ==   \* mutant: the parked chunks are left
  result' = res /\ End

(* At once, or after the parked chunks are deleted.                        *)
Finish(res) ==
  /\ result' = res
  /\ IF Active /\ parked # {} THEN at' = "discard" /\ UNCHANGED gate ELSE End

InitFails ==
  /\ at = "init"
  /\ Finish("failed")
  /\ UNCHANGED <<app, pending, part, parked, verdict, shown, store, stray, net, server>>

-----------------------------------------------------------------------------
(* Parts.                                                                  *)

SendPart(n) ==
  /\ part' = [part EXCEPT ![n] = "send"]
  /\ partCall' = [partCall EXCEPT ![n] = "sent"]

Launch(n) ==
  IF n \in parked
  THEN SendPart(n) /\ parked' = parked \ {n}
  ELSE part' = [part EXCEPT ![n] = "cut"] /\ UNCHANGED <<partCall, parked>>

Fail == at' = "abortKey" /\ UNCHANGED pending

StartFirst ==
  /\ at = "firstWait"
  /\ Schedulable
  /\ \/ verdict = "terminal" /\ Fail /\ UNCHANGED <<part, parked, partCall>>
     \/ verdict # "terminal" /\ gate.paused
        /\ EnterLoop(pending) /\ UNCHANGED <<part, parked, partCall>>
     \/ verdict # "terminal" /\ ~gate.paused
        /\ Launch(1) /\ at' = "first" /\ UNCHANGED pending
  /\ UNCHANGED <<app, gate, result, verdict, shown, store, stray, call, reported, detail, server>>

FirstResumed ==
  /\ at = "firstPaused"
  /\ Schedulable
  /\ IF verdict = "terminal" THEN Fail ELSE EnterLoop(pending)
  /\ UNCHANGED <<app, gate, part, parked, result, verdict, shown, store, stray, net, server>>

StartLater(n) ==
  /\ at = "later" /\ verdict = "none"
  /\ 1 \notin pending /\ ~gate.paused
  /\ n \in pending /\ \A m \in pending : n <= m
  /\ Cardinality(InFlight) < MaxParallel
  /\ pending' = pending \ {n}
  /\ Launch(n)
  /\ UNCHANGED <<app, gate, at, result, verdict, shown, store, stray, call, reported, detail,
                 server>>

(* The outcome of a part reaches the loop.                                 *)
PartEnds(n, outcome) ==
  /\ part' = [part EXCEPT ![n] = "none"]
  /\ at' = CASE outcome = "failed" ->
                  IF InFlight = {n} THEN "abortKey" ELSE "failing"
             [] outcome # "failed" /\ at = "failing" ->
                  IF InFlight = {n} THEN "abortKey" ELSE "failing"
             [] outcome = "uploaded" /\ at = "first" -> "later"
             [] outcome = "paused" /\ at = "first" -> "firstPaused"
             [] OTHER -> at

CutDone(n) ==
  /\ part[n] = "cut"
  /\ IF gate.paused
     THEN parked' = parked \union {n} /\ PartEnds(n, "paused") /\ UNCHANGED partCall
     ELSE SendPart(n) /\ UNCHANGED <<at, parked>>
  /\ UNCHANGED <<app, gate, pending, result, verdict, shown, store, stray, call, reported,
                 detail, server>>

CutFails(n) ==
  /\ part[n] = "cut"
  /\ PartEnds(n, "failed")
  /\ UNCHANGED <<app, gate, pending, parked, result, verdict, shown, store, stray, net, server>>

PartConfirmed(n) ==
  /\ part[n] = "send" /\ partCall[n] = "ok"
  /\ partCall' = [partCall EXCEPT ![n] = "idle"]
  /\ shown' = IF reported[n] > shown THEN reported[n] ELSE shown
  /\ store' = TRUE
  /\ part' = [part EXCEPT ![n] = "dropSent"]
  /\ UNCHANGED <<app, gate, at, pending, parked, result, verdict, stray, call, reported, detail,
                 server>>

PartFails(n) ==
  /\ part[n] = "send"
  /\ part' = [part EXCEPT ![n] = "dropFailed"]
  /\ UNCHANGED <<app, gate, at, pending, parked, result, verdict, shown, store, stray, net, server>>

ChunkDeleted(n) ==
  /\ part[n] \in {"dropSent", "dropFailed"}
  /\ PartEnds(n, IF part[n] = "dropSent" THEN "uploaded" ELSE "failed")
  /\ UNCHANGED <<app, gate, pending, parked, result, verdict, shown, store, stray, net, server>>

ChunkStays(n) ==
  /\ part[n] \in {"dropSent", "dropFailed"}
  /\ stray' = stray \union {n}
  /\ PartEnds(n, "failed")
  /\ UNCHANGED <<app, gate, pending, parked, result, verdict, shown, store, net, server>>

-----------------------------------------------------------------------------
(* Completion.                                                             *)

(* #drainLaterParts is through and the loop may go on.                     *)
Drained_AtOnce == at = "later" /\ Schedulable   \* mutant: parts in flight are not awaited
Drained ==
  /\ at = "later"
  /\ verdict = "none" => (1 \in pending \/ pending = {}) /\ InFlight = {}
  /\ Schedulable

AllSent ==
  /\ Drained
  /\ verdict = "none" /\ pending = {}
  /\ at' = "completeKey"
  /\ UNCHANGED <<app, gate, pending, part, parked, result, verdict, shown, store, stray, net,
                 server>>

LoopAgain ==
  /\ Drained
  /\ verdict = "none" /\ pending # {}
  /\ EnterLoop(pending)
  /\ UNCHANGED <<app, gate, part, parked, result, verdict, shown, store, stray, net, server>>

(* A foreground told the runner that the server has accepted the upload    *)
(* (#settleResult) or closed it.                                           *)
VerdictKnown ==
  /\ Drained \/ at = "completeWait"
  /\ verdict # "none"
  /\ IF verdict = "accepted"
     THEN Finish("uploaded") /\ store' = FALSE /\ UNCHANGED pending
     ELSE Fail /\ UNCHANGED <<gate, result, store>>
  /\ UNCHANGED <<app, part, parked, verdict, shown, stray, net, server>>

CompleteKeyReady ==
  /\ at = "completeKey"
  /\ at' = "completeWait" /\ store' = TRUE
  /\ UNCHANGED <<app, gate, pending, part, parked, result, verdict, shown, stray, net, server>>

SendComplete ==
  /\ at = "completeWait"
  /\ Foregrounded /\ verdict = "none"
  /\ at' = "complete" /\ call' = [call EXCEPT !["complete"] = "sent"]
  /\ UNCHANGED <<app, gate, pending, part, parked, result, verdict, shown, store, stray,
                 partCall, reported, detail, server>>

CompleteAnswered_Whatever ==   \* mutant: any answer is a success
  /\ at = "complete" /\ call["complete"] # "sent"
  /\ call' = [call EXCEPT !["complete"] = "idle"]
  /\ Finish("uploaded") /\ store' = FALSE
  /\ UNCHANGED <<app, pending, part, parked, verdict, shown, stray, partCall, reported, detail,
                 server>>
CompleteAnswered ==
  /\ at = "complete" /\ call["complete"] = "ok"
  /\ call' = [call EXCEPT !["complete"] = "idle"]
  /\ Finish("uploaded") /\ store' = FALSE
  /\ UNCHANGED <<app, pending, part, parked, verdict, shown, stray, partCall, reported, detail,
                 server>>

CompleteFails ==
  /\ at = "complete"
  /\ Fail
  /\ UNCHANGED <<app, gate, part, parked, result, verdict, shown, store, stray, net, server>>

(* #scheduleFailureCleanup.                                                *)
SendAbort ==
  /\ at = "abortKey"
  /\ at' = "abort" /\ store' = TRUE
  /\ call' = [call EXCEPT !["abort"] = "sent"]
  /\ UNCHANGED <<app, gate, pending, part, parked, result, verdict, shown, stray, partCall,
                 reported, detail, server>>

AbortEnds ==
  /\ at = "abort"
  /\ Finish("failed")
  /\ UNCHANGED <<app, pending, part, parked, verdict, shown, store, stray, net, server>>

(* #discardParkedChunks at the end of #execute; a failed deletion ends it. *)
(* A foreground may delete chunks of the same map meanwhile.               *)
DiscardAtEnd(n) ==
  /\ at = "discard" /\ n \in parked
  /\ \/ parked' = parked \ {n} /\ UNCHANGED <<stray, result>>
     \/ parked' = {} /\ stray' = stray \union parked /\ result' = "failed"
  /\ UNCHANGED <<app, gate, at, pending, part, verdict, shown, store, net, server>>

Discarded ==
  /\ at = "discard" /\ parked = {}
  /\ End
  /\ UNCHANGED <<app, pending, part, parked, result, verdict, shown, store, stray, net, server>>

ResultGiven ==
  /\ at = "settle" /\ ~gate.backgrounded
  /\ at' = "done"
  /\ UNCHANGED <<app, gate, pending, part, parked, result, verdict, shown, store, stray, net,
                 server>>

-----------------------------------------------------------------------------
(* Hiding and showing the app.                                             *)

Hide ==
  /\ ~hidden /\ hides < MaxHides
  /\ hidden' = TRUE /\ hides' = hides + 1
  /\ IF at = "done"
     THEN UNCHANGED <<gate, store>>
     ELSE /\ gate' = [backgrounded |-> TRUE, requested |-> TRUE,
                      paused |-> Active \/ gate.paused]
          /\ store' = (store \/ Recorded)
  /\ UNCHANGED <<foreground, run, verdict, shown, stray, net, server>>

(* #foregroundCurrent from a given gate: with an active upload it pauses   *)
(* and waits, without one it only opens the gate.                          *)
Foregrounding(g, gen) ==
  /\ foreground' = IF Active THEN [at |-> "idle", gen |-> gen] ELSE NoForeground
  /\ gate' = IF Active THEN [g EXCEPT !.paused = TRUE]
             ELSE [g EXCEPT !.backgrounded = FALSE, !.requested = FALSE]

Show ==
  /\ hidden
  /\ hidden' = FALSE
  /\ IF foreground.at \in {"none", "failed"} /\ at # "done"
     THEN Foregrounding(gate, hides)
     ELSE UNCHANGED <<foreground, gate>>
  /\ UNCHANGED <<hides, run, verdict, shown, store, stray, net, server>>

AskServer ==
  /\ foreground.at = "idle"
  /\ InFlight = {}
  /\ foreground' = [foreground EXCEPT !.at = "get"]
  /\ call' = [call EXCEPT !["get"] = "sent"]
  /\ UNCHANGED <<hidden, hides, gate, run, verdict, shown, store, stray, partCall, reported,
                 detail, server>>

DetailArrives ==
  /\ foreground.at = "get" /\ call["get"] = "ok"
  /\ foreground' = [foreground EXCEPT !.at = "apply"]
  /\ call' = [call EXCEPT !["get"] = "idle"]
  /\ UNCHANGED <<hidden, hides, gate, run, verdict, shown, store, stray, partCall, reported,
                 detail, server>>

Rerun_Never == FALSE   \* mutant: a pause during the foreground is forgotten
Rerun == ~hidden /\ foreground.gen # hides /\ at # "done"

(* A foreground ends with a gate: the controller opens unless it was       *)
(* paused again, and App starts another one if it was.                     *)
EndForeground(g, ok) ==
  LET open == IF ok /\ foreground.gen = hides THEN [g EXCEPT !.backgrounded = FALSE] ELSE g
  IN IF Rerun
     THEN Foregrounding(open, hides)
     ELSE /\ foreground' = [at |-> IF ok THEN "none" ELSE "failed", gen |-> 0]
          /\ gate' = open

DetailFails ==
  /\ foreground.at = "get"
  /\ call' = [call EXCEPT !["get"] = "idle"] /\ detail' = NoDetail
  /\ EndForeground(gate, FALSE)
  /\ UNCHANGED <<hidden, hides, run, verdict, shown, store, stray, partCall, reported, server>>

Unneeded == IF detail.status = "uploading" THEN parked \ detail.pending ELSE parked

DiscardUnneeded(n) ==
  /\ foreground.at = "apply" /\ n \in Unneeded
  /\ parked' = parked \ {n}
  /\ \/ UNCHANGED <<foreground, gate, stray, detail>>
     \/ stray' = stray \union {n} /\ detail' = NoDetail /\ EndForeground(gate, FALSE)
  /\ UNCHANGED <<hidden, hides, at, pending, part, result, verdict, shown, store, call, partCall,
                 reported, server>>

Baseline_OffByOne == PartCount - Cardinality(detail.pending) + 1   \* mutant: off by one
Baseline == PartCount - Cardinality(detail.pending)

applyDetail == pending' = detail.pending /\ shown' = Baseline

(* The rest of #resumeCurrent.  It holds the record and the active upload  *)
(* it began with: after run() has ended it still saves the record.         *)
ApplyDetail ==
  /\ foreground.at = "apply" /\ Unneeded = {}
  /\ LET current == foreground.gen = hides
         g == [gate EXCEPT !.paused = ~current, !.requested = ~current /\ gate.requested]
     IN EndForeground(g, TRUE)
  /\ detail' = NoDetail
  /\ CASE detail.status = "accepted" ->
            verdict' = "accepted" /\ UNCHANGED <<pending, shown, store>>
       [] detail.status = "closed" ->
            verdict' = "terminal" /\ store' = FALSE /\ UNCHANGED <<pending, shown>>
       [] detail.status = "uploading" ->
            applyDetail /\ store' = TRUE /\ UNCHANGED verdict
  /\ UNCHANGED <<hidden, hides, at, part, parked, result, stray, call, partCall, reported, server>>

-----------------------------------------------------------------------------
(* The server, as far as the client sees it; UploadSession has the rest.   *)

ServerInitializes ==
  /\ call["init"] = "sent"
  /\ session' = "uploading" /\ call' = [call EXCEPT !["init"] = "ok"]
  /\ UNCHANGED <<app, gate, run, verdict, shown, store, stray, partCall, reported, detail, stored>>

ServerTakesPart(n) ==
  /\ partCall[n] = "sent"
  /\ \/ /\ session = "uploading" /\ (n > 1 => 1 \in stored)
        /\ stored' = stored \union {n}
        /\ reported' = [reported EXCEPT ![n] = Cardinality(stored')]
        /\ partCall' = [partCall EXCEPT ![n] = "ok"]
        /\ UNCHANGED session
     \/ /\ session' = IF n = 1 /\ session = "uploading" THEN "closed" ELSE session
        /\ partCall' = [partCall EXCEPT ![n] = "refused"]
        /\ UNCHANGED <<stored, reported>>
  /\ UNCHANGED <<app, gate, run, verdict, shown, store, stray, call, detail>>

ServerCompletes ==
  /\ call["complete"] = "sent"
  /\ IF session \in {"uploading", "accepted"} /\ stored = Parts
     THEN session' = "accepted" /\ call' = [call EXCEPT !["complete"] = "ok"]
     ELSE UNCHANGED session /\ call' = [call EXCEPT !["complete"] = "refused"]
  /\ UNCHANGED <<app, gate, run, verdict, shown, store, stray, partCall, reported, detail, stored>>

ServerAborts ==
  /\ call["abort"] = "sent"
  /\ session' = IF session = "uploading" THEN "closed" ELSE session
  /\ call' = [call EXCEPT !["abort"] = IF session = "uploading" THEN "ok" ELSE "refused"]
  /\ UNCHANGED <<app, gate, run, verdict, shown, store, stray, partCall, reported, detail, stored>>

ServerReads ==
  /\ call["get"] = "sent"
  /\ call' = [call EXCEPT !["get"] = "ok"]
  /\ detail' = [status |-> session,
                pending |-> IF session = "uploading" THEN Parts \ stored ELSE {}]
  /\ UNCHANGED <<app, gate, run, verdict, shown, store, stray, partCall, reported, server>>

(* The user cancels the record, or the deadline passes.                    *)
ServerCloses ==
  /\ session = "uploading"
  /\ session' = "closed"
  /\ UNCHANGED <<app, gate, run, verdict, shown, store, stray, net, stored>>

-----------------------------------------------------------------------------
RunnerStep ==
  \/ RecordMade \/ LeaveInitWait \/ InitAnswered \/ InitFails
  \/ StartFirst \/ FirstResumed \/ AllSent \/ LoopAgain \/ VerdictKnown
  \/ CompleteKeyReady \/ SendComplete \/ CompleteAnswered \/ CompleteFails
  \/ SendAbort \/ AbortEnds \/ Discarded \/ ResultGiven
  \/ \E n \in Parts : StartLater(n) \/ DiscardAtEnd(n)

PartStep ==
  \E n \in Parts : \/ CutDone(n) \/ CutFails(n) \/ PartConfirmed(n) \/ PartFails(n)
                   \/ ChunkDeleted(n) \/ ChunkStays(n)

ForegroundStep ==
  AskServer \/ DetailArrives \/ DetailFails \/ ApplyDetail \/ \E n \in Parts : DiscardUnneeded(n)

ServerStep ==
  \/ ServerInitializes \/ ServerCompletes \/ ServerAborts \/ ServerReads
  \/ \E n \in Parts : ServerTakesPart(n)

Next == RunnerStep \/ PartStep \/ ForegroundStep \/ ServerStep \/ Hide \/ Show \/ ServerCloses

Spec == Init /\ [][Next]_vars

(* Callbacks run, and a request is answered or fails.  Nothing makes the   *)
(* user hide or show the app, or cancel.                                   *)
FairSpec ==
  Spec /\ WF_vars(RunnerStep) /\ WF_vars(PartStep) /\ WF_vars(ForegroundStep) /\ WF_vars(ServerStep)

-----------------------------------------------------------------------------
(* The runner asks for completion only when the server has confirmed every *)
(* part, or no longer takes any: no pause, parked chunk or server detail   *)
(* makes the loop of #execute lose one.                                    *)
CompletionCovered ==
  call["complete"] = "sent" => stored = Parts \/ session # "uploading"

(* While the app is hidden, no initialization, part or completion is sent, *)
(* although requests in flight go on and an older foreground may still     *)
(* apply what the server told it.                                          *)
QuietWhileHidden ==
  [][ hidden => /\ \A c \in {"init", "complete"} : call'[c] = "sent" => call[c] = "sent"
                /\ \A n \in Parts : partCall'[n] = "sent" => partCall[n] = "sent" ]_vars

(* An upload that ends leaves no chunk file behind, unless a deletion      *)
(* failed: then that file and those after it stay.                         *)
NoChunkLeft == at \in {"settle", "done"} => HasChunk = {}

(* What the user is told is true, whatever detail, answer or verdict came  *)
(* first: "uploaded" only when the server has accepted every byte, and the *)
(* progress bar never counts more parts than the server has.               *)
ToldIsTrue ==
  /\ result = "uploaded" => session = "accepted" /\ stored = Parts
  /\ shown <= Cardinality(stored)

(* Once the app stays visible, its upload ends, unless the last foreground *)
(* could not read the server's state: no wake-up is lost between hides,    *)
(* shows and foregrounds that overlap.                                     *)
VisibleUploadEnds == <>[](~hidden /\ foreground.at # "failed") => <>(at = "done")
=============================================================================
