-------------------------- MODULE UploadRunnerProofs --------------------------
(***************************************************************************)
(* The safety properties of UploadRunner, proved for every number of parts *)
(* and of hides.                                                           *)
(***************************************************************************)
EXTENDS UploadRunner, FiniteSetTheorems, TLAPS

Early == {"key", "initWait", "init"}
Over == {"settle", "done"}
Looping == {"firstWait", "first", "firstPaused", "later"}
Asking == {"idle", "get", "apply"}

(* What the client may believe of the server, and what is still in transit.*)
ServerInv ==
  /\ call["init"] = "sent" => session = "none" /\ call["complete"] = "idle"
  /\ session = "accepted" => stored = Parts
  /\ \A n \in Parts : partCall[n] = "ok" => n \in stored
  /\ \A n \in Parts : part[n] = "dropSent" => n \in stored
  /\ call["complete"] = "ok" => session = "accepted"
  /\ verdict = "accepted" => session = "accepted"
  /\ result = "uploaded" => session = "accepted"
  /\ detail.status = "accepted" => session = "accepted"
  /\ detail.status = "uploading" => Parts \ stored \subseteq detail.pending

(* The calls a state of the run has made.                                  *)
CallInv ==
  /\ at \in {"key", "initWait"} => call["init"] = "idle" /\ session = "none"
  /\ at \in Early => call["complete"] = "idle"
  /\ call["init"] = "ok" => session # "none"
  /\ at \notin Early \union Over => call["init"] = "idle" /\ session # "none"
  /\ call["get"] # "idle" => foreground.at = "get"
  /\ foreground.at \in Asking => at \notin Early /\ session # "none"
  /\ foreground.at = "apply" \/ call["get"] = "ok" => detail.status # "none"

(* Where parts may be in flight and chunks parked.                         *)
PartInv ==
  /\ at \notin {"first", "later", "failing"} => InFlight = {}
  /\ at = "first" => InFlight = {1}
  /\ at = "failing" => InFlight # {}
  /\ at = "later" /\ verdict # "none" => InFlight = {}
  /\ foreground.at \in {"get", "apply"} => InFlight = {}
  /\ at \in Early \union Over => parked = {}

(* A hidden app and a foreground keep the gate shut.                       *)
GateInv ==
  /\ foreground.gen <= hides
  /\ foreground.at \in Asking => gate.paused
  /\ hidden /\ foreground.at \in Asking => foreground.gen < hides
  /\ hidden /\ at \notin Over => gate.requested
  /\ hidden /\ Active => gate.paused

(* While the loop of #execute runs, a part the server has not confirmed is *)
(* pending or in flight; the pauses break this, and the detail that ends   *)
(* them mends it.                                                          *)
Covered == stored \union pending \union InFlight \union (IF at = "firstWait" THEN {1} ELSE {})
CoverInv ==
  /\ at \in Looping /\ verdict = "none" /\ ~gate.paused /\ session = "uploading" => Parts \subseteq Covered
  /\ at \in {"completeKey", "completeWait"} /\ session = "uploading" => stored = Parts
  /\ CompletionCovered

(* What is shown to the user never runs ahead of the server.               *)
ShownInv ==
  /\ shown <= Cardinality(stored)
  /\ \A n \in Parts : reported[n] <= Cardinality(stored)

RunnerInv ==
  /\ TypeOK
  /\ ServerInv
  /\ CallInv
  /\ PartInv
  /\ GateInv
  /\ CoverInv
  /\ ShownInv

-----------------------------------------------------------------------------
(* The gate and the end of run() and of a foreground.                      *)

Gate == [backgrounded : BOOLEAN, requested : BOOLEAN, paused : BOOLEAN]

LEMMA GateFields ==
  ASSUME NEW g \in Gate, NEW b \in BOOLEAN
  PROVE  /\ [g EXCEPT !.backgrounded = b] \in Gate
         /\ [g EXCEPT !.requested = b] \in Gate
         /\ [g EXCEPT !.paused = b] \in Gate
         /\ [g EXCEPT !.backgrounded = b].paused = g.paused
         /\ [g EXCEPT !.backgrounded = b].requested = g.requested
         /\ [g EXCEPT !.requested = b].paused = g.paused
         /\ [g EXCEPT !.requested = b].requested = b
         /\ [g EXCEPT !.paused = b].paused = b
         /\ [g EXCEPT !.paused = b].requested = g.requested
BY DEF Gate

LEMMA GateType == TypeOK => gate \in Gate /\ gate.backgrounded \in BOOLEAN
BY DEF TypeOK, Gate

(* End and Finish leave the pause as it is and open the gate only when     *)
(* run() is over.                                                          *)
LEMMA Ends ==
  ASSUME TypeOK, End
  PROVE  at' \in Over /\ gate' \in Gate /\ gate'.paused = gate.paused
BY GateType, GateFields DEF End, Over

LEMMA Finishes ==
  ASSUME TypeOK, NEW res \in {"uploaded", "failed"}, Finish(res)
  PROVE  /\ result' = res
         /\ at' \in Over \union {"discard"} /\ gate' \in Gate /\ gate'.paused = gate.paused
         /\ at' = "discard" => Active /\ gate' = gate
         /\ at' \in Over => ~Active \/ parked = {}
<1>1. CASE Active /\ parked # {}
  BY <1>1, GateType DEF Finish, Over
<1>2. CASE ~(Active /\ parked # {})
  BY <1>2, Ends DEF Finish, Over
<1> QED BY <1>1, <1>2

(* Foregrounding shuts the gate of an active upload and opens every other. *)
LEMMA Foregrounds ==
  ASSUME TypeOK, NEW g \in Gate, NEW gen \in 0..MaxHides, Foregrounding(g, gen)
  PROVE  /\ gate' \in Gate
         /\ foreground' \in [at : {"none", "failed", "idle", "get", "apply"}, gen : 0..MaxHides]
         /\ Active => foreground'.at = "idle" /\ foreground'.gen = gen /\ gate'.paused
         /\ ~Active => foreground'.at = "none" /\ foreground'.gen = 0 /\ gate'.paused = g.paused
<1>1. [g EXCEPT !.backgrounded = FALSE, !.requested = FALSE]
      = [[g EXCEPT !.backgrounded = FALSE] EXCEPT !.requested = FALSE]
  OBVIOUS
<1>2. CASE Active
  BY <1>2, GateFields DEF Foregrounding
<1>3. CASE ~Active
  <2>1. gate' = [[g EXCEPT !.backgrounded = FALSE] EXCEPT !.requested = FALSE]
    BY <1>1, <1>3 DEF Foregrounding
  <2>2. gate' \in Gate /\ gate'.paused = g.paused
    BY <2>1, GateFields
  <2> QED BY <1>3, <2>2, HidesAssumption DEF Foregrounding, NoForeground
<1> QED BY <1>2, <1>3

(* The end of a foreground keeps the app's pauses: a new foreground shuts  *)
(* the gate and starts only in a visible app.                              *)
LEMMA ForegroundEnds ==
  ASSUME TypeOK, NEW g \in Gate, NEW ok \in BOOLEAN, EndForeground(g, ok)
  PROVE  /\ gate' \in Gate
         /\ foreground' \in [at : {"none", "failed", "idle", "get", "apply"}, gen : 0..MaxHides]
         /\ foreground'.at \in {"none", "failed", "idle"}
         /\ foreground'.at = "idle" => Active /\ ~hidden /\ gate'.paused
         /\ foreground'.gen \in {0, hides}
         /\ g.paused => gate'.paused
         /\ ~gate'.paused => ~g.paused
         /\ hidden => gate'.requested = g.requested
<1> DEFINE open == IF ok /\ foreground.gen = hides THEN [g EXCEPT !.backgrounded = FALSE] ELSE g
<1>1. open \in Gate /\ open.paused = g.paused /\ open.requested = g.requested
  BY GateFields
<1>2. hides \in 0..MaxHides
  BY DEF TypeOK
<1>3. CASE Rerun
  <2>1. Foregrounding(open, hides) /\ ~hidden
    BY <1>3 DEF EndForeground, Rerun
  <2> HIDE DEF open
  <2> QED BY <1>1, <1>2, <2>1, Foregrounds
<1>4. CASE ~Rerun
  <2>1. gate' = open /\ foreground' = [at |-> IF ok THEN "none" ELSE "failed", gen |-> 0]
    BY <1>4 DEF EndForeground
  <2> HIDE DEF open
  <2> QED BY <1>1, <2>1, HidesAssumption
<1> QED BY <1>3, <1>4

-----------------------------------------------------------------------------
(* Types.                                                                  *)

LEMMA PartsAreNumbers == 1 \in Parts /\ Parts \subseteq Nat /\ PartCount \in Nat \ {0}
BY PartsAssumption DEF Parts

LEMMA PartsCount ==
  ASSUME NEW S \in SUBSET Parts
  PROVE  /\ IsFiniteSet(S) /\ Cardinality(S) \in 0..PartCount
         /\ Cardinality(Parts \ S) = PartCount - Cardinality(S)
<1>1. IsFiniteSet(Parts) /\ Cardinality(Parts) = PartCount
  BY FS_Interval, PartsAssumption DEF Parts
<1>2. IsFiniteSet(S) /\ Cardinality(S) \in Nat /\ Cardinality(S) <= PartCount
  BY <1>1, FS_Subset, FS_CardinalityType
<1>3. Cardinality(Parts \ S) = PartCount - Cardinality(Parts \intersect S)
  BY <1>1, <1>2, FS_Difference
<1>4. Parts \intersect S = S
  OBVIOUS
<1>5. Cardinality(Parts \intersect S) = Cardinality(S)
  BY <1>4
<1>6. Cardinality(S) \in 0..PartCount
  BY <1>2, PartsAssumption
<1> QED BY <1>2, <1>3, <1>5, <1>6

LEMMA SubsetsCount ==
  ASSUME NEW S \in SUBSET Parts, NEW T \in SUBSET S
  PROVE  Cardinality(T) <= Cardinality(S)
BY PartsCount, FS_Subset

LEMMA InitTyped == Init => TypeOK
<1> SUFFICES ASSUME Init PROVE TypeOK
  OBVIOUS
<1>1. 0 \in 0..MaxHides /\ 0 \in 0..PartCount
  BY PartsAssumption, HidesAssumption
<1>2. foreground \in [at : {"none", "failed", "idle", "get", "apply"}, gen : 0..MaxHides]
  BY <1>1 DEF Init, NoForeground
<1>3. Parts \subseteq Parts /\ detail \in [status : {"none", "uploading", "accepted", "closed"}, pending : SUBSET Parts]
  BY DEF Init, NoDetail
<1>4. call \in [Calls -> {"idle", "sent", "ok", "refused"}] /\ reported \in [Parts -> 0..PartCount]
  BY <1>1 DEF Init
<1> QED BY <1>1, <1>2, <1>3, <1>4 DEF Init, TypeOK

LEMMA RunTyped == TypeOK /\ RunnerStep => TypeOK'
<1> SUFFICES ASSUME TypeOK, RunnerStep PROVE TypeOK'
  OBVIOUS
<1> USE DEF app, net, server, SendInit, EnterLoop, Fail
<1>1. CASE RecordMade \/ LeaveInitWait
  <2>1. call' \in [Calls -> {"idle", "sent", "ok", "refused"}]
    BY <1>1 DEF RecordMade, LeaveInitWait, TypeOK
  <2>2. at' \in {"init", "initWait"} /\ store' \in BOOLEAN
    BY <1>1 DEF RecordMade, LeaveInitWait, TypeOK
  <2> HIDE DEF SendInit
  <2> QED BY <1>1, <2>1, <2>2 DEF RecordMade, LeaveInitWait, TypeOK
<1>2. CASE InitAnswered
  <2>1. gate' \in Gate
    BY <1>2, GateType, GateFields DEF InitAnswered, Gate
  <2> QED BY <1>2, <2>1 DEF InitAnswered, TypeOK, Calls, Gate
<1>3. CASE InitFails \/ AbortEnds
  <2>1. Finish("failed")
    BY <1>3 DEF InitFails, AbortEnds
  <2> QED BY <1>3, <2>1, Finishes DEF InitFails, AbortEnds, TypeOK, Gate, Over
<1>4. CASE StartFirst
  <2>1. /\ part' \in [Parts -> {"none", "cut", "send", "dropSent", "dropFailed"}]
        /\ partCall' \in [Parts -> {"idle", "sent", "ok", "refused"}]
        /\ parked' \subseteq Parts /\ pending' \subseteq Parts
        /\ at' \in {"abortKey", "firstWait", "later", "first"}
    BY <1>4, PartsAreNumbers DEF StartFirst, Launch, SendPart, TypeOK
  <2>2. UNCHANGED <<app, gate, result, verdict, shown, store, stray, call, reported, detail, server>>
    BY <1>4 DEF StartFirst
  <2> QED BY <2>1, <2>2 DEF TypeOK
<1>5. CASE FirstResumed \/ LoopAgain
  BY <1>5 DEF FirstResumed, LoopAgain, Drained, TypeOK
<1>6. CASE VerdictKnown
  <2>1. CASE verdict = "accepted"
    <3>1. Finish("uploaded")
      BY <1>6, <2>1 DEF VerdictKnown
    <3> QED BY <1>6, <2>1, <3>1, Finishes DEF VerdictKnown, TypeOK, Gate, Over
  <2>2. CASE verdict # "accepted"
    BY <1>6, <2>2 DEF VerdictKnown, TypeOK
  <2> QED BY <2>1, <2>2
<1>7. CASE AllSent \/ CompleteKeyReady \/ SendComplete \/ CompleteFails \/ SendAbort \/ ResultGiven
  <2>1. /\ at' \in {"completeKey", "completeWait", "complete", "abortKey", "abort", "done"}
        /\ store' \in BOOLEAN /\ call' \in [Calls -> {"idle", "sent", "ok", "refused"}]
    BY <1>7 DEF AllSent, CompleteKeyReady, SendComplete, CompleteFails, SendAbort, ResultGiven, TypeOK
  <2>2. UNCHANGED <<app, gate, pending, part, parked, result, verdict, shown, stray, partCall, reported, detail,
                    server>>
    BY <1>7 DEF AllSent, CompleteKeyReady, SendComplete, CompleteFails, SendAbort, ResultGiven
  <2> QED BY <2>1, <2>2 DEF TypeOK
<1>8. CASE CompleteAnswered
  <2>1. Finish("uploaded")
    BY <1>8 DEF CompleteAnswered
  <2> QED BY <1>8, <2>1, Finishes DEF CompleteAnswered, TypeOK, Gate, Over, Calls
<1>9. CASE Discarded
  <2>1. End
    BY <1>9 DEF Discarded
  <2> QED BY <1>9, <2>1, Ends DEF Discarded, TypeOK, Gate, Over
<1>10. ASSUME NEW n \in Parts, StartLater(n) \/ DiscardAtEnd(n) PROVE TypeOK'
  BY <1>10 DEF StartLater, DiscardAtEnd, Launch, SendPart, TypeOK
<1> QED BY <1>1, <1>2, <1>3, <1>4, <1>5, <1>6, <1>7, <1>8, <1>9, <1>10 DEF RunnerStep

LEMMA PartTyped == TypeOK /\ PartStep => TypeOK'
<1> SUFFICES ASSUME TypeOK, NEW n \in Parts,
                    \/ CutDone(n) \/ CutFails(n) \/ PartConfirmed(n) \/ PartFails(n)
                    \/ ChunkDeleted(n) \/ ChunkStays(n)
             PROVE  TypeOK'
  BY DEF PartStep
<1> USE DEF app, net, server
<1>1. ASSUME NEW outcome \in {"uploaded", "failed", "paused"}, PartEnds(n, outcome)
      PROVE  /\ at' \in {at, "later", "firstPaused", "failing", "abortKey"}
             /\ part' \in [Parts -> {"none", "cut", "send", "dropSent", "dropFailed"}]
  BY <1>1 DEF PartEnds, TypeOK
<1>2. CASE CutDone(n)
  BY <1>1, <1>2 DEF CutDone, SendPart, TypeOK
<1>3. CASE CutFails(n) \/ ChunkDeleted(n) \/ ChunkStays(n)
  BY <1>1, <1>3 DEF CutFails, ChunkDeleted, ChunkStays, TypeOK
<1>4. CASE PartConfirmed(n)
  <2>1. /\ part' \in [Parts -> {"none", "cut", "send", "dropSent", "dropFailed"}]
        /\ partCall' \in [Parts -> {"idle", "sent", "ok", "refused"}]
        /\ shown' \in 0..PartCount /\ store' \in BOOLEAN
    BY <1>4 DEF PartConfirmed, TypeOK
  <2> QED BY <1>4, <2>1 DEF PartConfirmed, TypeOK
<1>5. CASE PartFails(n)
  BY <1>5 DEF PartFails, TypeOK
<1> QED BY <1>2, <1>3, <1>4, <1>5

LEMMA ForegroundTyped ==
  TypeOK /\ (foreground.at = "apply" => detail.status # "none") /\ ForegroundStep => TypeOK'
<1> SUFFICES ASSUME TypeOK, foreground.at = "apply" => detail.status # "none", ForegroundStep
             PROVE  TypeOK'
  OBVIOUS
<1> USE DEF app, run, net, server
<1>1. CASE AskServer \/ DetailArrives
  <2>1. foreground' \in [at : {"none", "failed", "idle", "get", "apply"}, gen : 0..MaxHides]
    BY <1>1 DEF AskServer, DetailArrives, TypeOK
  <2> QED BY <1>1, <2>1 DEF AskServer, DetailArrives, TypeOK, Calls
<1>2. CASE DetailFails
  <2>1. EndForeground(gate, FALSE)
    BY <1>2 DEF DetailFails
  <2>2. gate' \in Gate /\ foreground' \in [at : {"none", "failed", "idle", "get", "apply"}, gen : 0..MaxHides]
    BY <2>1, GateType, ForegroundEnds
  <2> QED BY <1>2, <2>2 DEF DetailFails, TypeOK, Gate, Calls, NoDetail
<1>3. ASSUME NEW n \in Parts, DiscardUnneeded(n) PROVE TypeOK'
  <2>1. CASE UNCHANGED <<foreground, gate, stray, detail>>
    BY <1>3, <2>1 DEF DiscardUnneeded, TypeOK
  <2>2. CASE stray' = stray \union {n} /\ detail' = NoDetail /\ EndForeground(gate, FALSE)
    <3>1. gate' \in Gate /\ foreground' \in [at : {"none", "failed", "idle", "get", "apply"}, gen : 0..MaxHides]
      BY <2>2, GateType, ForegroundEnds
    <3> QED BY <1>3, <2>2, <3>1 DEF DiscardUnneeded, TypeOK, Gate, NoDetail
  <2> QED BY <1>3, <2>1, <2>2 DEF DiscardUnneeded
<1>4. CASE ApplyDetail
  <2>1. PICK g \in Gate : EndForeground(g, TRUE)
    BY <1>4, GateType DEF ApplyDetail, applyDetail, Gate
  <2>2. gate' \in Gate /\ foreground' \in [at : {"none", "failed", "idle", "get", "apply"}, gen : 0..MaxHides]
    BY <2>1, ForegroundEnds
  <2>3. detail.status \in {"uploading", "accepted", "closed"} /\ detail.pending \subseteq Parts
    BY <1>4 DEF ApplyDetail, applyDetail, TypeOK
  <2>4. Baseline \in 0..PartCount
    BY <2>3, PartsCount, PartsAssumption DEF Baseline
  <2>5. /\ verdict' \in {"none", "accepted", "terminal"} /\ pending' \subseteq Parts
        /\ shown' \in 0..PartCount /\ store' \in BOOLEAN
    BY <1>4, <2>3, <2>4 DEF ApplyDetail, applyDetail, TypeOK
  <2> QED BY <1>4, <2>2, <2>5 DEF ApplyDetail, applyDetail, TypeOK, Gate, NoDetail
<1> QED BY <1>1, <1>2, <1>3, <1>4 DEF ForegroundStep

LEMMA OutsideTyped == TypeOK /\ (ServerStep \/ Hide \/ Show \/ ServerCloses) => TypeOK'
<1> SUFFICES ASSUME TypeOK, ServerStep \/ Hide \/ Show \/ ServerCloses PROVE TypeOK'
  OBVIOUS
<1> USE DEF app, run, net, server
<1>1. CASE ServerInitializes \/ ServerCompletes \/ ServerAborts \/ ServerReads \/ ServerCloses
  BY <1>1 DEF ServerInitializes, ServerCompletes, ServerAborts, ServerReads, ServerCloses, TypeOK, Calls
<1>2. ASSUME NEW n \in Parts, ServerTakesPart(n) PROVE TypeOK'
  <2>1. stored' \subseteq Parts /\ Cardinality(stored') \in 0..PartCount
    BY <1>2, PartsCount DEF ServerTakesPart, TypeOK
  <2> QED BY <1>2, <2>1 DEF ServerTakesPart, TypeOK
<1>3. CASE Hide
  <2>1. hides' \in 0..MaxHides /\ hidden' \in BOOLEAN
    BY <1>3, HidesAssumption DEF Hide, TypeOK
  <2>2. store' \in BOOLEAN
    <3>1. store \in BOOLEAN /\ (store \/ Recorded) \in BOOLEAN
      BY DEF TypeOK
    <3> QED BY <1>3, <3>1 DEF Hide
  <2>3. gate' \in Gate
    <3>1. [backgrounded |-> TRUE, requested |-> TRUE, paused |-> Active \/ gate.paused] \in Gate
      BY DEF Gate
    <3> QED BY <1>3, <3>1, GateType DEF Hide
  <2>4. UNCHANGED <<foreground, run, verdict, shown, stray, net, server>>
    BY <1>3 DEF Hide
  <2> QED BY <2>1, <2>2, <2>3, <2>4 DEF TypeOK, Gate
<1>4. CASE Show
  <2>1. gate' \in Gate /\ foreground' \in [at : {"none", "failed", "idle", "get", "apply"}, gen : 0..MaxHides]
    <3>1. CASE Foregrounding(gate, hides)
      BY <3>1, GateType, Foregrounds DEF TypeOK
    <3>2. CASE UNCHANGED <<foreground, gate>>
      BY <3>2, GateType DEF TypeOK
    <3> QED BY <1>4, <3>1, <3>2 DEF Show
  <2>2. hidden' \in BOOLEAN /\ UNCHANGED <<hides, run, verdict, shown, store, stray, net, server>>
    BY <1>4 DEF Show
  <2> QED BY <2>1, <2>2 DEF TypeOK, Gate
<1> QED BY <1>1, <1>2, <1>3, <1>4 DEF ServerStep

-----------------------------------------------------------------------------
(* Parts in flight and parked chunks.                                      *)

LEMMA FlightMoves ==
  ASSUME TypeOK, NEW n \in Parts
  PROVE  /\ part' = part => InFlight' = InFlight
         /\ part' = [part EXCEPT ![n] = "none"] => InFlight' = InFlight \ {n}
         /\ \A x \in {"cut", "send", "dropSent", "dropFailed"} :
              part' = [part EXCEPT ![n] = x] => InFlight' = InFlight \union {n}
BY DEF TypeOK, InFlight

LEMMA Launched ==
  ASSUME TypeOK, NEW n \in Parts, Launch(n)
  PROVE  InFlight' = InFlight \union {n} /\ parked' \subseteq parked
BY FlightMoves DEF Launch, SendPart

(* The end of a part leaves the loop, or the others it must wait for.      *)
LEMMA PartEnded ==
  ASSUME TypeOK, NEW n \in Parts, part[n] # "none", NEW outcome \in {"uploaded", "failed", "paused"},
         PartEnds(n, outcome), PartInv
  PROVE  /\ InFlight' = InFlight \ {n} /\ n \in InFlight
         /\ at' \in {"later", "firstPaused", "failing", "abortKey"}
         /\ at' = "failing" => InFlight' # {}
         /\ at' \in {"firstPaused", "abortKey"} => InFlight' = {}
         /\ at' = "firstPaused" => outcome = "paused"
         /\ at' = "later" => outcome # "failed" /\ at \in {"first", "later"}
         /\ at' = "later" /\ at = "first" => InFlight' = {} /\ outcome = "uploaded"
         /\ at' = "later" /\ at = "later" => verdict = "none"
<1>1. InFlight' = InFlight \ {n} /\ n \in InFlight
  <2>1. n \in InFlight
    BY DEF InFlight
  <2> QED BY <2>1, FlightMoves DEF PartEnds
<1>2. at \in {"first", "later", "failing"} /\ (at = "first" => InFlight = {n})
  BY <1>1 DEF PartInv
<1>3. at = "later" => verdict = "none"
  BY <1>1 DEF PartInv
<1>4. CASE outcome = "failed" \/ at = "failing"
  <2>1. at' = IF InFlight = {n} THEN "abortKey" ELSE "failing"
    BY <1>4 DEF PartEnds
  <2> QED BY <1>1, <1>3, <2>1
<1>5. CASE outcome # "failed" /\ at = "first"
  <2>1. at' = IF outcome = "uploaded" THEN "later" ELSE "firstPaused"
    BY <1>5 DEF PartEnds
  <2> QED BY <1>1, <1>2, <1>5, <2>1
<1>6. CASE outcome # "failed" /\ at = "later"
  <2>1. at' = "later"
    BY <1>6 DEF PartEnds
  <2> QED BY <1>1, <1>3, <1>6, <2>1
<1> QED BY <1>2, <1>4, <1>5, <1>6

LEMMA PartsKeptByRun == TypeOK /\ GateInv /\ PartInv /\ RunnerStep => PartInv'
<1> SUFFICES ASSUME TypeOK, GateInv, PartInv, RunnerStep PROVE PartInv'
  OBVIOUS
<1> USE DEF app, SendInit, EnterLoop, Fail, Early, Over
<1>0. part' = part => InFlight' = InFlight
  BY FlightMoves, PartsAreNumbers
<1>1. CASE RecordMade \/ LeaveInitWait \/ InitAnswered \/ FirstResumed
  BY <1>0, <1>1 DEF RecordMade, LeaveInitWait, InitAnswered, FirstResumed, PartInv
<1>2. CASE InitFails \/ AbortEnds \/ CompleteAnswered
  <2>1. PICK res \in {"uploaded", "failed"} : Finish(res)
    BY <1>2 DEF InitFails, AbortEnds, CompleteAnswered
  <2>2. InFlight' = InFlight /\ UNCHANGED <<parked, verdict, foreground>> /\ (Active \/ parked = {}) /\ InFlight = {}
    BY <1>0, <1>2 DEF InitFails, AbortEnds, CompleteAnswered, PartInv, Active, Recorded
  <2> QED BY <2>1, <2>2, Finishes DEF PartInv
<1>3. CASE StartFirst
  <2>1. CASE ~(verdict # "terminal" /\ ~gate.paused)
    BY <1>0, <1>3, <2>1 DEF StartFirst, PartInv
  <2>2. CASE verdict # "terminal" /\ ~gate.paused
    <3>1. Launch(1) /\ at' = "first" /\ UNCHANGED <<foreground, verdict>> /\ InFlight = {}
      BY <1>3, <2>2 DEF StartFirst, PartInv
    <3>2. foreground.at \notin {"get", "apply"}
      BY <2>2 DEF GateInv, Asking
    <3> QED BY <3>1, <3>2, Launched, PartsAreNumbers DEF PartInv
  <2> QED BY <2>1, <2>2
<1>4. CASE AllSent \/ LoopAgain
  BY <1>0, <1>4 DEF AllSent, LoopAgain, Drained, PartInv
<1>5. CASE VerdictKnown
  <2>1. /\ InFlight = {} /\ InFlight' = {} /\ UNCHANGED <<parked, verdict, foreground>> /\ Active
    BY <1>0, <1>5 DEF VerdictKnown, Drained, PartInv, Active, Recorded
  <2>2. at' \in Over \union {"discard", "abortKey"} /\ (at' \in Over => parked = {})
    BY <1>5, <2>1, Finishes DEF VerdictKnown
  <2> QED BY <2>1, <2>2 DEF PartInv
<1>6. CASE CompleteKeyReady \/ SendComplete \/ CompleteFails \/ SendAbort \/ ResultGiven
  BY <1>0, <1>6 DEF CompleteKeyReady, SendComplete, CompleteFails, SendAbort, ResultGiven, PartInv
<1>7. CASE Discarded
  BY <1>0, <1>7, Ends DEF Discarded, PartInv
<1>8. ASSUME NEW n \in Parts, DiscardAtEnd(n) PROVE PartInv'
  BY <1>0, <1>8 DEF DiscardAtEnd, PartInv
<1>9. ASSUME NEW n \in Parts, StartLater(n) PROVE PartInv'
  <2>1. Launch(n) /\ at = "later" /\ UNCHANGED <<at, foreground, verdict>> /\ verdict = "none" /\ ~gate.paused
    BY <1>9 DEF StartLater
  <2>2. foreground.at \notin {"get", "apply"}
    BY <2>1 DEF GateInv, Asking
  <2> QED BY <2>1, <2>2, Launched DEF PartInv
<1> QED BY <1>1, <1>2, <1>3, <1>4, <1>5, <1>6, <1>7, <1>8, <1>9 DEF RunnerStep

LEMMA PartsKeptByParts == TypeOK /\ PartInv /\ PartStep => PartInv'
<1> SUFFICES ASSUME TypeOK, PartInv, NEW n \in Parts,
                    \/ CutDone(n) \/ CutFails(n) \/ PartConfirmed(n) \/ PartFails(n)
                    \/ ChunkDeleted(n) \/ ChunkStays(n)
             PROVE  PartInv'
  BY DEF PartStep
<1> USE DEF app, Early, Over
<1>1. n \in InFlight /\ UNCHANGED <<foreground, verdict>>
  BY DEF InFlight, CutDone, CutFails, PartConfirmed, PartFails, ChunkDeleted, ChunkStays
<1>2. foreground.at \notin {"get", "apply"} /\ at \notin Early \union Over
  BY <1>1 DEF PartInv
<1>3. ASSUME NEW outcome \in {"uploaded", "failed", "paused"}, PartEnds(n, outcome) PROVE PartInv'
  <2>1. part[n] # "none"
    BY <1>1 DEF InFlight
  <2> QED BY <1>1, <1>2, <1>3, <2>1, PartEnded DEF PartInv
<1>4. ASSUME NEW x \in {"cut", "send", "dropSent", "dropFailed"}, part' = [part EXCEPT ![n] = x], at' = at
      PROVE  PartInv'
  <2>1. InFlight' = InFlight \union {n}
    BY <1>4, FlightMoves
  <2>2. InFlight' = InFlight
    BY <1>1, <2>1
  <2> QED BY <1>1, <1>2, <1>4, <2>2 DEF PartInv
<1>5. CASE CutDone(n)
  BY <1>3, <1>4, <1>5 DEF CutDone, SendPart
<1>6. CASE CutFails(n)
  BY <1>3, <1>6 DEF CutFails
<1>7. CASE PartConfirmed(n) \/ PartFails(n)
  BY <1>4, <1>7 DEF PartConfirmed, PartFails
<1>8. CASE ChunkDeleted(n) \/ ChunkStays(n)
  BY <1>3, <1>8 DEF ChunkDeleted, ChunkStays
<1> QED BY <1>5, <1>6, <1>7, <1>8

LEMMA PartsKeptByForeground == TypeOK /\ PartInv /\ ForegroundStep => PartInv'
<1> SUFFICES ASSUME TypeOK, PartInv, ForegroundStep PROVE PartInv'
  OBVIOUS
<1> USE DEF app, run
<1>0. part' = part => InFlight' = InFlight
  BY FlightMoves, PartsAreNumbers
<1>1. CASE AskServer
  <2>1. foreground'.at = "get" /\ InFlight = {} /\ InFlight' = {} /\ UNCHANGED <<at, parked, verdict>>
    BY <1>0, <1>1 DEF AskServer, TypeOK
  <2> QED BY <2>1 DEF PartInv
<1>2. CASE DetailArrives
  <2>1. foreground.at = "get" /\ InFlight' = InFlight /\ UNCHANGED <<at, parked, verdict>>
    BY <1>0, <1>2 DEF DetailArrives
  <2> QED BY <2>1 DEF PartInv
<1>3. CASE DetailFails
  <2>1. InFlight' = InFlight /\ UNCHANGED <<at, parked, verdict>> /\ foreground'.at \notin {"get", "apply"}
    BY <1>0, <1>3, GateType, ForegroundEnds DEF DetailFails
  <2> QED BY <2>1 DEF PartInv
<1>4. CASE ApplyDetail
  <2>1. foreground.at = "apply" /\ InFlight' = InFlight /\ UNCHANGED <<at, parked>>
    BY <1>0, <1>4 DEF ApplyDetail, applyDetail
  <2>2. PICK g \in Gate : EndForeground(g, TRUE)
    BY <1>4, GateType DEF ApplyDetail, applyDetail, Gate
  <2>3. foreground'.at \notin {"get", "apply"}
    BY <2>2, ForegroundEnds
  <2> QED BY <2>1, <2>3 DEF PartInv
<1>5. ASSUME NEW n \in Parts, DiscardUnneeded(n) PROVE PartInv'
  <2>1. InFlight' = InFlight /\ UNCHANGED <<at, verdict>> /\ parked' \subseteq parked /\ foreground.at = "apply"
    BY <1>0, <1>5 DEF DiscardUnneeded
  <2> QED BY <2>1 DEF PartInv
<1> QED BY <1>1, <1>2, <1>3, <1>4, <1>5 DEF ForegroundStep

LEMMA PartsKeptOutside == TypeOK /\ PartInv /\ (ServerStep \/ Hide \/ Show \/ ServerCloses) => PartInv'
<1> SUFFICES ASSUME TypeOK, PartInv, ServerStep \/ Hide \/ Show \/ ServerCloses PROVE PartInv'
  OBVIOUS
<1> USE DEF app, run
<1>1. UNCHANGED <<at, part, parked, verdict>>
  BY DEF ServerStep, ServerInitializes, ServerCompletes, ServerAborts, ServerReads, ServerTakesPart, Hide, Show,
         ServerCloses
<1>2. foreground'.at \in {"get", "apply"} => foreground' = foreground
  <2>1. CASE Show
    BY <2>1, GateType, Foregrounds DEF Show, TypeOK
  <2>2. CASE ServerStep \/ Hide \/ ServerCloses
    BY <2>2 DEF ServerStep, ServerInitializes, ServerCompletes, ServerAborts, ServerReads, ServerTakesPart, Hide,
                ServerCloses
  <2> QED BY <2>1, <2>2
<1>3. InFlight' = InFlight
  BY <1>1, FlightMoves, PartsAreNumbers
<1> QED BY <1>1, <1>2, <1>3 DEF PartInv

-----------------------------------------------------------------------------
(* Calls.                                                                  *)

LEMMA CallFields ==
  ASSUME TypeOK, NEW c \in Calls, NEW x \in {"idle", "sent", "ok", "refused"}, call' = [call EXCEPT ![c] = x]
  PROVE  call'[c] = x /\ \A d \in Calls : d # c => call'[d] = call[d]
BY DEF TypeOK

LEMMA CallNames == Calls = {"init", "get", "complete", "abort"}
BY DEF Calls

LEMMA CallsKeptByRun == TypeOK /\ CallInv /\ RunnerStep => CallInv'
<1> SUFFICES ASSUME TypeOK, CallInv, RunnerStep PROVE CallInv'
  OBVIOUS
<1> USE DEF app, net, server, Early, Over, Asking
<1>1. CASE RecordMade \/ LeaveInitWait
  <2>1. \/ at' = "initWait" /\ UNCHANGED call
        \/ at' = "init" /\ call' = [call EXCEPT !["init"] = "sent"]
    BY <1>1 DEF RecordMade, LeaveInitWait, SendInit
  <2>2. at \in {"key", "initWait"} /\ UNCHANGED <<session, foreground, detail>>
    BY <1>1 DEF RecordMade, LeaveInitWait
  <2>3. CASE UNCHANGED call
    BY <2>1, <2>2, <2>3 DEF CallInv
  <2>4. CASE at' = "init" /\ call' = [call EXCEPT !["init"] = "sent"]
    BY <2>2, <2>4, CallFields, CallNames DEF CallInv
  <2> QED BY <2>1, <2>3, <2>4
<1>2. CASE InitAnswered
  <2>1. call' = [call EXCEPT !["init"] = "idle"] /\ at' \in {"firstWait", "later"} /\ call["init"] = "ok" /\ at = "init"
    BY <1>2 DEF InitAnswered, EnterLoop
  <2> QED BY <1>2, <2>1, CallFields, CallNames DEF InitAnswered, CallInv
<1>3. CASE InitFails
  <2>1. at = "init" /\ at' \in Over /\ UNCHANGED <<call, session, foreground, detail>>
    BY <1>3, Finishes DEF InitFails, Active, Recorded
  <2> QED BY <2>1 DEF CallInv
<1>4. ASSUME at \notin Early, at' \notin Early, at \in Over => at' \in Over,
             UNCHANGED <<session, foreground, detail>>,
             call'["init"] = call["init"], call'["get"] = call["get"]
      PROVE  CallInv'
  BY <1>4 DEF CallInv
<1>5. CASE AbortEnds \/ CompleteAnswered
  <2>1. PICK res \in {"uploaded", "failed"} : Finish(res)
    BY <1>5 DEF AbortEnds, CompleteAnswered
  <2>2. at' \notin Early
    BY <2>1, Finishes
  <2>3. call'["init"] = call["init"] /\ call'["get"] = call["get"]
    BY <1>5, CallFields, CallNames DEF AbortEnds, CompleteAnswered
  <2> QED BY <1>4, <1>5, <2>2, <2>3 DEF AbortEnds, CompleteAnswered
<1>6. CASE VerdictKnown
  <2>1. at \in {"later", "completeWait"} /\ UNCHANGED <<call, session, foreground, detail>>
    BY <1>6 DEF VerdictKnown, Drained
  <2>2. at' \notin Early
    BY <1>6, Finishes DEF VerdictKnown, Fail
  <2> QED BY <1>4, <2>1, <2>2
<1>7. CASE SendComplete \/ SendAbort
  <2>1. call'["init"] = call["init"] /\ call'["get"] = call["get"]
    BY <1>7, CallFields, CallNames DEF SendComplete, SendAbort
  <2> QED BY <1>4, <1>7, <2>1 DEF SendComplete, SendAbort
<1>8. CASE StartFirst \/ FirstResumed \/ AllSent \/ LoopAgain \/ CompleteKeyReady \/ CompleteFails \/ ResultGiven
  <2>1. at \notin Early /\ at' \notin Early /\ (at \in Over => at' \in Over) /\ UNCHANGED <<session, foreground, detail, call>>
    BY <1>8 DEF StartFirst, FirstResumed, AllSent, LoopAgain, Drained, CompleteKeyReady, CompleteFails, ResultGiven,
                EnterLoop, Fail
  <2> QED BY <1>4, <2>1
<1>9. CASE Discarded
  BY <1>4, <1>9, Ends DEF Discarded
<1>10. ASSUME NEW n \in Parts, StartLater(n) \/ DiscardAtEnd(n) PROVE CallInv'
  BY <1>4, <1>10 DEF StartLater, DiscardAtEnd
<1> QED BY <1>1, <1>2, <1>3, <1>5, <1>6, <1>7, <1>8, <1>9, <1>10 DEF RunnerStep

LEMMA CallsKeptByParts == TypeOK /\ CallInv /\ PartInv /\ PartStep => CallInv'
<1> SUFFICES ASSUME TypeOK, CallInv, PartInv, NEW n \in Parts,
                    \/ CutDone(n) \/ CutFails(n) \/ PartConfirmed(n) \/ PartFails(n)
                    \/ ChunkDeleted(n) \/ ChunkStays(n)
             PROVE  CallInv'
  BY DEF PartStep
<1>1. n \in InFlight /\ UNCHANGED <<call, session, foreground, detail>>
  BY DEF InFlight, CutDone, CutFails, PartConfirmed, PartFails, ChunkDeleted, ChunkStays, app, net, server
<1>2. at \in {"first", "later", "failing"}
  BY <1>1 DEF PartInv
<1>3. at' \in {at, "later", "firstPaused", "failing", "abortKey"}
  BY DEF PartEnds, CutDone, CutFails, PartConfirmed, PartFails, ChunkDeleted, ChunkStays
<1> QED BY <1>1, <1>2, <1>3 DEF CallInv, Early, Over

LEMMA CallsKeptByForeground == TypeOK /\ CallInv /\ ForegroundStep => CallInv'
<1> SUFFICES ASSUME TypeOK, CallInv, ForegroundStep PROVE CallInv'
  OBVIOUS
<1> USE DEF run, server, Asking
<1>1. CASE AskServer
  <2>1. foreground.at = "idle" /\ foreground'.at = "get" /\ UNCHANGED <<at, session, detail>>
    BY <1>1 DEF AskServer, TypeOK
  <2>2. call' = [call EXCEPT !["get"] = "sent"]
    BY <1>1 DEF AskServer
  <2> QED BY <2>1, <2>2, CallFields, CallNames DEF CallInv
<1>2. CASE DetailArrives
  <2>1. foreground.at = "get" /\ foreground'.at = "apply" /\ call["get"] = "ok" /\ UNCHANGED <<at, session, detail>>
    BY <1>2 DEF DetailArrives, TypeOK
  <2>2. call' = [call EXCEPT !["get"] = "idle"]
    BY <1>2 DEF DetailArrives
  <2> QED BY <2>1, <2>2, CallFields, CallNames DEF CallInv
<1>3. ASSUME foreground.at \in {"get", "apply"}, NEW g \in Gate, NEW ok \in BOOLEAN, EndForeground(g, ok),
             UNCHANGED <<at, session>>,
             call'["get"] = "idle", call'["init"] = call["init"], call'["complete"] = call["complete"]
      PROVE  CallInv'
  <2>1. foreground'.at \in {"none", "failed", "idle"}
    BY <1>3, ForegroundEnds
  <2> QED BY <1>3, <2>1 DEF CallInv
<1>4. CASE DetailFails
  <2>1. call' = [call EXCEPT !["get"] = "idle"]
    BY <1>4 DEF DetailFails
  <2> QED BY <1>3, <1>4, <2>1, GateType, CallFields, CallNames DEF DetailFails
<1>5. ASSUME NEW n \in Parts, DiscardUnneeded(n) PROVE CallInv'
  <2>1. foreground.at = "apply" /\ UNCHANGED <<at, session, call>> /\ call["get"] = "idle"
    BY <1>5 DEF DiscardUnneeded, CallInv
  <2>2. CASE UNCHANGED <<foreground, gate, stray, detail>>
    BY <2>1, <2>2 DEF CallInv
  <2>3. CASE EndForeground(gate, FALSE)
    BY <1>3, <2>1, <2>3, GateType
  <2> QED BY <1>5, <2>2, <2>3 DEF DiscardUnneeded
<1>6. CASE ApplyDetail
  <2>1. foreground.at = "apply" /\ UNCHANGED <<at, session, call>> /\ call["get"] = "idle"
    BY <1>6 DEF ApplyDetail, applyDetail, CallInv
  <2>2. PICK g \in Gate : EndForeground(g, TRUE)
    BY <1>6, GateType DEF ApplyDetail, applyDetail, Gate
  <2> QED BY <1>3, <2>1, <2>2
<1> QED BY <1>1, <1>2, <1>4, <1>5, <1>6 DEF ForegroundStep

LEMMA CallsKeptOutside == TypeOK /\ CallInv /\ (ServerStep \/ Hide \/ Show \/ ServerCloses) => CallInv'
<1> SUFFICES ASSUME TypeOK, CallInv, ServerStep \/ Hide \/ Show \/ ServerCloses PROVE CallInv'
  OBVIOUS
<1> USE DEF app, run, net, server, Asking
<1>1. CASE ServerInitializes
  <2>1. call' = [call EXCEPT !["init"] = "ok"] /\ call["init"] = "sent" /\ session' = "uploading"
    BY <1>1 DEF ServerInitializes
  <2>2. UNCHANGED <<at, foreground, detail>>
    BY <1>1 DEF ServerInitializes
  <2> QED BY <2>1, <2>2, CallFields, CallNames DEF CallInv, Early, Over
<1>2. ASSUME UNCHANGED <<at, foreground, detail>>, session # "none" => session' # "none",
             session = "none" => session' = "none",
             \A c \in {"init", "get"} : call'[c] = call[c], call'["complete"] = "idle" <=> call["complete"] = "idle"
      PROVE  CallInv'
  BY <1>2 DEF CallInv, Early
<1>3. CASE ServerCompletes
  <2>1. PICK x \in {"ok", "refused"} : call' = [call EXCEPT !["complete"] = x]
    BY <1>3 DEF ServerCompletes
  <2>2. /\ UNCHANGED <<at, foreground, detail>> /\ call["complete"] = "sent"
        /\ session # "none" => session' # "none"
        /\ session = "none" => session' = "none"
    BY <1>3 DEF ServerCompletes
  <2> QED BY <1>2, <2>1, <2>2, CallFields, CallNames
<1>4. CASE ServerAborts
  <2>1. PICK x \in {"ok", "refused"} : call' = [call EXCEPT !["abort"] = x]
    BY <1>4 DEF ServerAborts
  <2>2. /\ UNCHANGED <<at, foreground, detail>>
        /\ session # "none" => session' # "none"
        /\ session = "none" => session' = "none"
    BY <1>4 DEF ServerAborts
  <2> QED BY <1>2, <2>1, <2>2, CallFields, CallNames
<1>5. CASE ServerReads
  <2>1. call' = [call EXCEPT !["get"] = "ok"] /\ call["get"] = "sent" /\ detail'.status = session
    BY <1>5 DEF ServerReads
  <2>2. UNCHANGED <<at, foreground, session>>
    BY <1>5 DEF ServerReads
  <2> QED BY <2>1, <2>2, CallFields, CallNames DEF CallInv
<1>6. ASSUME NEW n \in Parts, ServerTakesPart(n) PROVE CallInv'
  <2>1. /\ UNCHANGED <<at, foreground, detail, call>>
        /\ session # "none" => session' # "none"
        /\ session = "none" => session' = "none"
    BY <1>6 DEF ServerTakesPart
  <2> QED BY <1>2, <2>1
<1>7. CASE ServerCloses
  BY <1>2, <1>7 DEF ServerCloses
<1>8. CASE Hide
  BY <1>8 DEF Hide, CallInv
<1>9. CASE Show
  <2>1. UNCHANGED <<at, session, call, detail>>
    BY <1>9 DEF Show
  <2>2. foreground' = foreground \/ (foreground.at \in {"none", "failed"} /\ Foregrounding(gate, hides))
    BY <1>9 DEF Show
  <2>3. CASE Foregrounding(gate, hides) /\ foreground.at \in {"none", "failed"}
    <3>1. foreground'.at \in {"none", "idle"} /\ (foreground'.at = "idle" => Active)
      BY <2>3, GateType, Foregrounds DEF TypeOK
    <3> QED BY <2>1, <2>3, <3>1 DEF CallInv, Active, Recorded, Early, Over
  <2>4. CASE foreground' = foreground
    BY <2>1, <2>4 DEF CallInv
  <2> QED BY <2>2, <2>3, <2>4
<1> QED BY <1>1, <1>3, <1>4, <1>5, <1>6, <1>7, <1>8, <1>9 DEF ServerStep

-----------------------------------------------------------------------------
(* The gate.                                                               *)

LEMMA GateKeptByRun == TypeOK /\ CallInv /\ GateInv /\ RunnerStep => GateInv'
<1> SUFFICES ASSUME TypeOK, CallInv, GateInv, RunnerStep PROVE GateInv'
  OBVIOUS
<1> USE DEF Early, Over, Asking
<1>1. UNCHANGED <<hidden, hides, foreground>>
  BY DEF RunnerStep, RecordMade, LeaveInitWait, InitAnswered, InitFails, StartFirst, FirstResumed, AllSent, LoopAgain,
         VerdictKnown, CompleteKeyReady, SendComplete, CompleteAnswered, CompleteFails, SendAbort, AbortEnds,
         Discarded, ResultGiven, StartLater, DiscardAtEnd, app
<1>2. ASSUME gate'.paused = gate.paused, at \notin Over => at' \in Over \/ gate' = gate,
             at \in Over => at' \in Over, Active' => Active
      PROVE  GateInv'
  BY <1>1, <1>2 DEF GateInv
<1>3. CASE InitAnswered
  <2>1. gate' = [gate EXCEPT !.paused = gate.requested] /\ at = "init"
    BY <1>3 DEF InitAnswered
  <2>2. gate'.paused = gate.requested /\ gate'.requested = gate.requested
    BY <2>1, GateType, GateFields DEF TypeOK
  <2>3. foreground.at \notin Asking
    BY <2>1 DEF CallInv
  <2> QED BY <1>1, <2>1, <2>2, <2>3 DEF GateInv
<1>4. ASSUME NEW res \in {"uploaded", "failed"}, Finish(res), at \notin Over PROVE GateInv'
  <2>1. at' \in Over \/ (at' = "discard" /\ Active /\ gate' = gate)
    BY <1>4, Finishes
  <2> QED BY <1>2, <1>4, <2>1, Finishes DEF Active, Recorded
<1>5. CASE InitFails \/ AbortEnds \/ CompleteAnswered
  BY <1>4, <1>5 DEF InitFails, AbortEnds, CompleteAnswered
<1>6. CASE VerdictKnown
  <2>1. CASE Finish("uploaded")
    BY <1>4, <1>6, <2>1 DEF VerdictKnown, Drained
  <2>2. CASE Fail /\ gate' = gate
    BY <1>2, <1>6, <2>2 DEF VerdictKnown, Drained, Fail, Active, Recorded
  <2> QED BY <1>6, <2>1, <2>2 DEF VerdictKnown
<1>7. CASE Discarded
  <2>1. at' \in Over /\ gate'.paused = gate.paused
    BY <1>7, Ends DEF Discarded
  <2> QED BY <1>2, <2>1 DEF Active, Recorded
<1>8. CASE \/ RecordMade \/ LeaveInitWait \/ StartFirst \/ FirstResumed \/ AllSent \/ LoopAgain
           \/ CompleteKeyReady \/ SendComplete \/ CompleteFails \/ SendAbort \/ ResultGiven
           \/ \E n \in Parts : StartLater(n) \/ DiscardAtEnd(n)
  <2>1. gate' = gate /\ (at \in Over => at' \in Over) /\ (Active' => Active)
    BY <1>8 DEF RecordMade, LeaveInitWait, StartFirst, FirstResumed, AllSent, LoopAgain, Drained, CompleteKeyReady,
                SendComplete, CompleteFails, SendAbort, ResultGiven, StartLater, DiscardAtEnd, EnterLoop, Fail,
                Active, Recorded
  <2> QED BY <1>2, <2>1
<1> QED BY <1>3, <1>5, <1>6, <1>7, <1>8 DEF RunnerStep

LEMMA GateKeptByParts == TypeOK /\ PartInv /\ GateInv /\ PartStep => GateInv'
<1> SUFFICES ASSUME TypeOK, PartInv, GateInv, NEW n \in Parts,
                    \/ CutDone(n) \/ CutFails(n) \/ PartConfirmed(n) \/ PartFails(n)
                    \/ ChunkDeleted(n) \/ ChunkStays(n)
             PROVE  GateInv'
  BY DEF PartStep
<1>1. n \in InFlight /\ UNCHANGED <<hidden, hides, foreground, gate>>
  BY DEF InFlight, CutDone, CutFails, PartConfirmed, PartFails, ChunkDeleted, ChunkStays, app
<1>2. at \in {"first", "later", "failing"}
  BY <1>1 DEF PartInv
<1> QED BY <1>1, <1>2 DEF GateInv, Over, Active, Recorded

LEMMA GateKeptByForeground == TypeOK /\ CallInv /\ GateInv /\ ForegroundStep => GateInv'
<1> SUFFICES ASSUME TypeOK, CallInv, GateInv, ForegroundStep PROVE GateInv'
  OBVIOUS
<1> USE DEF Asking
<1>1. UNCHANGED <<hidden, hides, at>>
  BY DEF ForegroundStep, AskServer, DetailArrives, DetailFails, DiscardUnneeded,
         ApplyDetail, applyDetail, run
<1>2. CASE AskServer \/ DetailArrives
  <2>1. gate' = gate /\ foreground'.gen = foreground.gen /\ foreground.at \in Asking
    BY <1>2 DEF AskServer, DetailArrives, TypeOK
  <2> QED BY <1>1, <2>1 DEF GateInv, Active, Recorded
<1>3. ASSUME foreground.at \in {"get", "apply"}, NEW g \in Gate, NEW ok \in BOOLEAN, EndForeground(g, ok),
             hidden => g.paused /\ g.requested = gate.requested
      PROVE  GateInv'
  <2>1. hides \in Nat
    BY HidesAssumption DEF TypeOK
  <2>2. /\ foreground'.at \in {"none", "failed", "idle"} /\ foreground'.gen \in {0, hides}
        /\ foreground'.at = "idle" => ~hidden /\ gate'.paused
        /\ hidden => gate'.paused /\ gate'.requested = gate.requested
    BY <1>3, ForegroundEnds
  <2> QED BY <1>1, <2>1, <2>2 DEF GateInv
<1>4. foreground.at \in {"get", "apply"} => gate.paused
  BY DEF GateInv
<1>5. CASE DetailFails
  BY <1>3, <1>4, <1>5, GateType DEF DetailFails
<1>6. ASSUME NEW n \in Parts, DiscardUnneeded(n) PROVE GateInv'
  <2>1. foreground.at = "apply"
    BY <1>6 DEF DiscardUnneeded
  <2>2. CASE UNCHANGED <<foreground, gate, stray, detail>>
    BY <1>1, <2>2 DEF GateInv, Active, Recorded
  <2>3. CASE EndForeground(gate, FALSE)
    BY <1>3, <1>4, <2>1, <2>3, GateType
  <2> QED BY <1>6, <2>2, <2>3 DEF DiscardUnneeded
<1>7. CASE ApplyDetail
  <2> DEFINE current == foreground.gen = hides
             g == [gate EXCEPT !.paused = ~current, !.requested = ~current /\ gate.requested]
  <2>1. foreground.at = "apply" /\ EndForeground(g, TRUE)
    BY <1>7 DEF ApplyDetail, applyDetail
  <2>2. g \in Gate /\ g.paused = ~current /\ g.requested = (~current /\ gate.requested)
    BY GateType DEF Gate
  <2>3. hidden => ~current
    BY <2>1, HidesAssumption DEF GateInv, TypeOK
  <2>4. hidden => g.paused /\ g.requested = gate.requested
    BY <2>2, <2>3, GateType DEF Gate
  <2> HIDE DEF g, current
  <2> QED BY <1>3, <2>1, <2>2, <2>4
<1> QED BY <1>2, <1>5, <1>6, <1>7 DEF ForegroundStep

LEMMA GateKeptOutside == TypeOK /\ GateInv /\ (ServerStep \/ Hide \/ Show \/ ServerCloses) => GateInv'
<1> SUFFICES ASSUME TypeOK, GateInv, ServerStep \/ Hide \/ Show \/ ServerCloses PROVE GateInv'
  OBVIOUS
<1> USE DEF Asking
<1>1. hides \in Nat /\ foreground.gen \in Nat
  BY HidesAssumption DEF TypeOK
<1>2. CASE ServerStep \/ ServerCloses
  BY <1>2 DEF ServerStep, ServerInitializes, ServerCompletes, ServerAborts, ServerReads, ServerTakesPart,
              ServerCloses, GateInv, Active, Recorded, app, run
<1>3. CASE Hide
  <2>1. hides' = hides + 1 /\ UNCHANGED <<foreground, at>> /\ foreground.gen < hides'
    BY <1>1, <1>3 DEF Hide, GateInv, run
  <2>2. CASE at = "done"
    BY <1>1, <1>3, <2>1, <2>2 DEF Hide, GateInv, Active, Recorded, Over
  <2>3. CASE at # "done"
    <3>1. gate' = [backgrounded |-> TRUE, requested |-> TRUE, paused |-> Active \/ gate.paused]
      BY <1>3, <2>3 DEF Hide
    <3>2. gate'.requested /\ (Active => gate'.paused) /\ (gate.paused => gate'.paused)
      BY <3>1
    <3>3. Active' => Active
      BY <2>1 DEF Active, Recorded
    <3> QED BY <1>1, <2>1, <3>2, <3>3 DEF GateInv
  <2> QED BY <2>2, <2>3
<1>4. CASE Show
  <2>1. ~hidden' /\ UNCHANGED <<hides, at>>
    BY <1>4 DEF Show, run
  <2>2. CASE Foregrounding(gate, hides)
    BY <1>1, <2>1, <2>2, GateType, Foregrounds DEF GateInv, TypeOK
  <2>3. CASE UNCHANGED <<foreground, gate>>
    BY <2>1, <2>3 DEF GateInv
  <2> QED BY <1>4, <2>2, <2>3 DEF Show
<1> QED BY <1>2, <1>3, <1>4

-----------------------------------------------------------------------------
(* What the client believes of the server.                                 *)

LEMMA BeliefKept ==
  ASSUME ServerInv, UNCHANGED <<server, verdict>>,
         \A n \in Parts : partCall'[n] = "ok" => partCall[n] = "ok",
         \A n \in Parts : part'[n] = "dropSent" => n \in stored,
         result' = "uploaded" => session = "accepted",
         detail' \in {detail, NoDetail},
         call'["init"] = "sent" => session = "none" /\ call'["complete"] = "idle",
         call'["complete"] = "ok" => session = "accepted"
  PROVE  ServerInv'
BY DEF ServerInv, server, NoDetail

LEMMA BeliefKeptByRun == TypeOK /\ ServerInv /\ CallInv /\ RunnerStep => ServerInv'
<1> SUFFICES ASSUME TypeOK, ServerInv, CallInv, RunnerStep PROVE ServerInv'
  OBVIOUS
<1>1. UNCHANGED <<server, verdict, detail>>
  BY DEF RunnerStep, RecordMade, LeaveInitWait, InitAnswered, InitFails, StartFirst, FirstResumed, AllSent, LoopAgain,
         VerdictKnown, CompleteKeyReady, SendComplete, CompleteAnswered, CompleteFails, SendAbort, AbortEnds,
         Discarded, ResultGiven, StartLater, DiscardAtEnd, net
<1>2. ASSUME NEW n \in Parts
      PROVE  /\ partCall'[n] = "ok" => partCall[n] = "ok"
             /\ part'[n] = "dropSent" => part[n] = "dropSent"
  <2>1. ASSUME NEW m \in Parts, Launch(m)
        PROVE  /\ partCall'[n] = "ok" => partCall[n] = "ok"
               /\ part'[n] = "dropSent" => part[n] = "dropSent"
    BY <2>1 DEF Launch, SendPart, TypeOK
  <2>2. CASE StartFirst
    BY <2>1, <2>2, PartsAreNumbers DEF StartFirst
  <2>3. ASSUME NEW m \in Parts, StartLater(m) \/ DiscardAtEnd(m)
        PROVE  /\ partCall'[n] = "ok" => partCall[n] = "ok"
               /\ part'[n] = "dropSent" => part[n] = "dropSent"
    BY <2>1, <2>3 DEF StartLater, DiscardAtEnd, net
  <2>4. CASE /\ ~StartFirst
             /\ \A m \in Parts : ~StartLater(m) /\ ~DiscardAtEnd(m)
    BY <2>4 DEF RunnerStep, RecordMade, LeaveInitWait, InitAnswered, InitFails, FirstResumed, AllSent, LoopAgain,
         VerdictKnown, CompleteKeyReady, SendComplete, CompleteAnswered, CompleteFails, SendAbort, AbortEnds,
         Discarded, ResultGiven, net
  <2> QED BY <2>2, <2>3, <2>4
<1>3. result' = "uploaded" => session = "accepted"
  <2>1. CASE VerdictKnown \/ CompleteAnswered
    <3>1. result' = "uploaded" => result = "uploaded" \/ verdict = "accepted" \/ call["complete"] = "ok"
      BY <2>1 DEF VerdictKnown, CompleteAnswered
    <3> QED BY <3>1 DEF ServerInv
  <2>2. CASE InitFails \/ AbortEnds
    BY <2>2, Finishes DEF InitFails, AbortEnds
  <2>3. CASE ~(VerdictKnown \/ CompleteAnswered \/ InitFails \/ AbortEnds)
    <3>1. result' \in {result, "failed"}
      BY <2>3 DEF RunnerStep, RecordMade, LeaveInitWait, InitAnswered, StartFirst, FirstResumed, AllSent, LoopAgain,
           CompleteKeyReady, SendComplete, CompleteFails, SendAbort, Discarded, ResultGiven, StartLater, DiscardAtEnd
    <3> QED BY <3>1 DEF ServerInv
  <2> QED BY <2>1, <2>2, <2>3
<1>4. /\ call'["init"] = "sent" => session = "none" /\ call'["complete"] = "idle"
      /\ call'["complete"] = "ok" => session = "accepted"
  <2>1. CASE RecordMade \/ LeaveInitWait
    <3>1. call' = call \/ call' = [call EXCEPT !["init"] = "sent"]
      BY <2>1 DEF RecordMade, LeaveInitWait, SendInit
    <3>2. at \in {"key", "initWait"}
      BY <2>1 DEF RecordMade, LeaveInitWait
    <3> QED BY <3>1, <3>2, CallFields, CallNames DEF CallInv, ServerInv, Early
  <2>2. CASE InitAnswered
    BY <2>2, CallFields, CallNames DEF InitAnswered, ServerInv
  <2>3. CASE SendComplete
    <3>1. call["init"] = "idle" /\ call' = [call EXCEPT !["complete"] = "sent"]
      BY <2>3 DEF SendComplete, CallInv, Early, Over
    <3> QED BY <3>1, CallFields, CallNames
  <2>4. CASE SendAbort \/ CompleteAnswered
    <3>1. call' = [call EXCEPT !["abort"] = "sent"] \/ call' = [call EXCEPT !["complete"] = "idle"]
      BY <2>4 DEF SendAbort, CompleteAnswered
    <3> QED BY <3>1, CallFields, CallNames DEF ServerInv
  <2>5. CASE ~(RecordMade \/ LeaveInitWait \/ InitAnswered \/ SendComplete \/ SendAbort \/ CompleteAnswered)
    <3>1. call' = call
      BY <2>5 DEF RunnerStep, InitFails, StartFirst, FirstResumed, AllSent, LoopAgain, VerdictKnown, CompleteKeyReady,
           CompleteFails, AbortEnds, Discarded, ResultGiven, StartLater, DiscardAtEnd, net
    <3> QED BY <3>1 DEF ServerInv
  <2> QED BY <2>1, <2>2, <2>3, <2>4, <2>5
<1>5. \A n \in Parts : part'[n] = "dropSent" => n \in stored
  BY <1>2 DEF ServerInv
<1> QED BY <1>1, <1>2, <1>3, <1>4, <1>5, BeliefKept

LEMMA BeliefKeptByParts == TypeOK /\ ServerInv /\ PartStep => ServerInv'
<1> SUFFICES ASSUME TypeOK, ServerInv, NEW n \in Parts,
                    \/ CutDone(n) \/ CutFails(n) \/ PartConfirmed(n) \/ PartFails(n)
                    \/ ChunkDeleted(n) \/ ChunkStays(n)
             PROVE  ServerInv'
  BY DEF PartStep
<1>1. UNCHANGED <<server, verdict, detail, call, result>>
  BY DEF CutDone, CutFails, PartConfirmed, PartFails, ChunkDeleted, ChunkStays, net
<1>2. partCall' = partCall \/ \E x \in {"sent", "idle"} : partCall' = [partCall EXCEPT ![n] = x]
  BY DEF CutDone, CutFails, PartConfirmed, PartFails, ChunkDeleted, ChunkStays, SendPart, net
<1>3. \/ \E x \in {"none", "send", "dropFailed"} : part' = [part EXCEPT ![n] = x]
      \/ part' = [part EXCEPT ![n] = "dropSent"] /\ partCall[n] = "ok"
  BY DEF CutDone, CutFails, PartConfirmed, PartFails, ChunkDeleted, ChunkStays, SendPart, PartEnds
<1>4. \A m \in Parts : partCall'[m] = "ok" => partCall[m] = "ok"
  BY <1>2 DEF TypeOK
<1>5. \A m \in Parts : part'[m] = "dropSent" => m \in stored
  BY <1>3 DEF TypeOK, ServerInv
<1>6. /\ result' = "uploaded" => session = "accepted"
      /\ call'["init"] = "sent" => session = "none" /\ call'["complete"] = "idle"
      /\ call'["complete"] = "ok" => session = "accepted"
  BY <1>1 DEF ServerInv
<1> QED BY <1>1, <1>4, <1>5, <1>6, BeliefKept

LEMMA BeliefKeptByForeground == TypeOK /\ ServerInv /\ CallInv /\ ForegroundStep => ServerInv'
<1> SUFFICES ASSUME TypeOK, ServerInv, CallInv, ForegroundStep PROVE ServerInv'
  OBVIOUS
<1>1. UNCHANGED <<server, partCall, part, result>> /\ detail' \in {detail, NoDetail}
  BY DEF ForegroundStep, AskServer, DetailArrives, DetailFails, DiscardUnneeded,
         ApplyDetail, applyDetail, run
<1>2. call' = call \/ \E x \in {"idle", "sent"} : call' = [call EXCEPT !["get"] = x]
  BY DEF ForegroundStep, AskServer, DetailArrives, DetailFails, DiscardUnneeded,
         ApplyDetail, applyDetail
<1>3. call'["init"] = call["init"] /\ call'["complete"] = call["complete"]
  BY <1>2, CallFields, CallNames
<1>4. verdict' = "accepted" => verdict = "accepted" \/ detail.status = "accepted"
  <2>1. CASE ApplyDetail
    <3>1. detail.status \in {"uploading", "accepted", "closed"}
      BY <2>1 DEF ApplyDetail, applyDetail, CallInv, TypeOK
    <3> QED BY <2>1, <3>1 DEF ApplyDetail, applyDetail
  <2>2. CASE ~ApplyDetail
    BY <2>2 DEF ForegroundStep, AskServer, DetailArrives, DetailFails, DiscardUnneeded, run
  <2> QED BY <2>1, <2>2
<1> QED BY <1>1, <1>3, <1>4 DEF ServerInv, server, NoDetail

LEMMA BeliefKeptOutside == TypeOK /\ ServerInv /\ (ServerStep \/ Hide \/ Show \/ ServerCloses) => ServerInv'
<1> SUFFICES ASSUME TypeOK, ServerInv, ServerStep \/ Hide \/ Show \/ ServerCloses PROVE ServerInv'
  OBVIOUS
<1> USE DEF run, net
<1>1. CASE Hide \/ Show
  BY <1>1 DEF Hide, Show, ServerInv, server
<1>2. CASE ServerCloses
  BY <1>2 DEF ServerCloses, ServerInv
<1>3. CASE ServerInitializes
  <2>1. call' = [call EXCEPT !["init"] = "ok"] /\ call["init"] = "sent" /\ session' = "uploading"
    BY <1>3 DEF ServerInitializes
  <2>2. UNCHANGED <<partCall, part, verdict, result, detail, stored>>
    BY <1>3 DEF ServerInitializes
  <2> QED BY <2>1, <2>2, CallFields, CallNames DEF ServerInv
<1>4. CASE ServerCompletes
  <2>1. UNCHANGED <<partCall, part, verdict, result, detail, stored>> /\ call["complete"] = "sent"
    BY <1>4 DEF ServerCompletes
  <2>2. \/ session' = "accepted" /\ stored = Parts /\ call' = [call EXCEPT !["complete"] = "ok"]
        \/ session' = session /\ call' = [call EXCEPT !["complete"] = "refused"]
    BY <1>4 DEF ServerCompletes
  <2> QED BY <2>1, <2>2, CallFields, CallNames DEF ServerInv
<1>5. CASE ServerAborts
  <2>1. UNCHANGED <<partCall, part, verdict, result, detail, stored>>
    BY <1>5 DEF ServerAborts
  <2>2. /\ session' = session \/ (session = "uploading" /\ session' = "closed")
        /\ \E x \in {"ok", "refused"} : call' = [call EXCEPT !["abort"] = x]
    BY <1>5 DEF ServerAborts
  <2> QED BY <2>1, <2>2, CallFields, CallNames DEF ServerInv
<1>6. CASE ServerReads
  <2>1. UNCHANGED <<partCall, part, verdict, result, session, stored>>
    BY <1>6 DEF ServerReads, server
  <2>2. /\ call' = [call EXCEPT !["get"] = "ok"]
        /\ detail' = [status |-> session, pending |-> IF session = "uploading" THEN Parts \ stored ELSE {}]
    BY <1>6 DEF ServerReads
  <2>3. detail'.status = session /\ (session = "uploading" => detail'.pending = Parts \ stored)
    BY <2>2
  <2> QED BY <2>1, <2>2, <2>3, CallFields, CallNames DEF ServerInv
<1>7. ASSUME NEW n \in Parts, ServerTakesPart(n) PROVE ServerInv'
  <2>1. UNCHANGED <<part, verdict, result, detail, call>>
    BY <1>7 DEF ServerTakesPart
  <2>2. \/ /\ stored' = stored \union {n} /\ session' = session /\ session = "uploading"
           /\ partCall' = [partCall EXCEPT ![n] = "ok"]
        \/ /\ stored' = stored /\ (session' = session \/ (session = "uploading" /\ session' = "closed"))
           /\ partCall' = [partCall EXCEPT ![n] = "refused"]
    BY <1>7 DEF ServerTakesPart
  <2>3. \A m \in Parts : partCall'[m] = "ok" => m \in stored'
    BY <2>2 DEF TypeOK, ServerInv
  <2> QED BY <2>1, <2>2, <2>3 DEF ServerInv
<1> QED BY <1>1, <1>2, <1>3, <1>4, <1>5, <1>6, <1>7 DEF ServerStep

-----------------------------------------------------------------------------
(* What the user is shown.                                                 *)

LEMMA ShownKept == TypeOK /\ ServerInv /\ CallInv /\ ShownInv /\ Next => ShownInv'
<1> SUFFICES ASSUME TypeOK, ServerInv, CallInv, ShownInv, Next PROVE ShownInv'
  OBVIOUS
<1>1. ASSUME NEW n \in Parts, PartConfirmed(n) PROVE ShownInv'
  <2>1. shown' \in {shown, reported[n]} /\ UNCHANGED <<reported, stored>>
    BY <1>1 DEF PartConfirmed, server
  <2> QED BY <1>1, <2>1 DEF ShownInv
<1>2. CASE ApplyDetail
  <2>1. UNCHANGED <<reported, stored>> /\ (shown' = shown \/ (detail.status = "uploading" /\ shown' = Baseline))
    <3>1. detail.status \in {"uploading", "accepted", "closed"}
      BY <1>2 DEF ApplyDetail, applyDetail, CallInv, TypeOK
    <3> QED BY <1>2, <3>1 DEF ApplyDetail, applyDetail, server
  <2>2. ASSUME detail.status = "uploading" PROVE Baseline <= Cardinality(stored)
    <3>1. /\ Parts \ stored \subseteq detail.pending
          /\ stored \in SUBSET Parts /\ detail.pending \in SUBSET Parts /\ Parts \ stored \in SUBSET Parts
      BY <2>2 DEF ServerInv, TypeOK
    <3>2. Cardinality(Parts \ stored) = PartCount - Cardinality(stored) /\ Cardinality(stored) \in 0..PartCount
      BY <3>1, PartsCount
    <3>3. Cardinality(detail.pending) \in 0..PartCount
      BY <3>1, PartsCount
    <3>4. Cardinality(Parts \ stored) <= Cardinality(detail.pending)
      BY <3>1, SubsetsCount
    <3> QED BY <3>2, <3>3, <3>4, PartsAssumption DEF Baseline
  <2> QED BY <2>1, <2>2 DEF ShownInv
<1>3. ASSUME NEW n \in Parts, ServerTakesPart(n) PROVE ShownInv'
  <2>1. stored \subseteq stored' /\ stored' \subseteq Parts /\ shown' = shown
    BY <1>3 DEF ServerTakesPart, TypeOK
  <2>2. reported' = reported \/ reported' = [reported EXCEPT ![n] = Cardinality(stored')]
    BY <1>3 DEF ServerTakesPart
  <2>3. Cardinality(stored) <= Cardinality(stored') /\ Cardinality(stored) \in Nat /\ Cardinality(stored') \in Nat
    <3>1. stored \in SUBSET Parts /\ stored' \in SUBSET Parts
      BY <2>1 DEF TypeOK
    <3>2. Cardinality(stored) \in 0..PartCount /\ Cardinality(stored') \in 0..PartCount
      BY <3>1, PartsCount
    <3> QED BY <2>1, <3>1, <3>2, SubsetsCount, PartsAssumption
  <2>4. shown \in Nat /\ \A m \in Parts : reported[m] \in Nat
    BY PartsAssumption DEF TypeOK
  <2>5. ASSUME NEW m \in Parts PROVE reported'[m] <= Cardinality(stored')
    BY <2>2, <2>3, <2>4 DEF ShownInv, TypeOK
  <2> QED BY <2>1, <2>3, <2>4, <2>5 DEF ShownInv
<1>4. CASE UNCHANGED <<shown, reported, stored>>
  BY <1>4 DEF ShownInv
<1>5. UNCHANGED <<shown, reported, stored>> \/ ApplyDetail \/ \E n \in Parts : PartConfirmed(n) \/ ServerTakesPart(n)
  <2>1. CASE RunnerStep
    BY <2>1 DEF RunnerStep, RecordMade, LeaveInitWait, InitAnswered, InitFails, StartFirst, FirstResumed, AllSent,
         LoopAgain, VerdictKnown, CompleteKeyReady, SendComplete, CompleteAnswered, CompleteFails, SendAbort,
         AbortEnds, Discarded, ResultGiven, StartLater, DiscardAtEnd, net, server
  <2>2. CASE PartStep
    BY <2>2 DEF PartStep, CutDone, CutFails, PartFails, ChunkDeleted, ChunkStays, net, server
  <2>3. CASE ForegroundStep
    BY <2>3 DEF ForegroundStep, AskServer, DetailArrives, DetailFails, DiscardUnneeded, server
  <2>4. CASE ServerStep \/ Hide \/ Show \/ ServerCloses
    BY <2>4 DEF ServerStep, ServerInitializes, ServerCompletes, ServerAborts, ServerReads, ServerCloses, Hide, Show,
         net, server
  <2> QED BY <2>1, <2>2, <2>3, <2>4 DEF Next
<1> QED BY <1>1, <1>2, <1>3, <1>4, <1>5

-----------------------------------------------------------------------------
(* The loop loses no part.                                                 *)

LEMMA FirstOut ==
  ASSUME NEW S, EnterLoop(S)
  PROVE  /\ pending' = S \ {1}
         /\ at' = "firstWait" \/ (at' = "later" /\ 1 \notin S)
BY DEF EnterLoop

LEMMA CoverKeptByRun == TypeOK /\ CallInv /\ PartInv /\ CoverInv /\ RunnerStep => CoverInv'
<1> SUFFICES ASSUME TypeOK, CallInv, PartInv, CoverInv, RunnerStep PROVE CoverInv'
  OBVIOUS
<1> USE DEF server
<1>1. UNCHANGED <<session, stored, verdict>>
  BY DEF RunnerStep, RecordMade, LeaveInitWait, InitAnswered, InitFails, StartFirst, FirstResumed, AllSent, LoopAgain,
         VerdictKnown, CompleteKeyReady, SendComplete, CompleteAnswered, CompleteFails, SendAbort, AbortEnds,
         Discarded, ResultGiven, StartLater, DiscardAtEnd
<1>2. part' = part => InFlight' = InFlight
  BY FlightMoves, PartsAreNumbers
<1>3. ASSUME at' \notin Looping \union {"completeKey", "completeWait"}, call'["complete"] = "sent" => call["complete"] = "sent"
      PROVE  CoverInv'
  BY <1>1, <1>3 DEF CoverInv, CompletionCovered
<1>4. ASSUME call' = call, at' \in Looping,
             verdict = "none" /\ ~gate'.paused /\ session = "uploading" => Parts \subseteq Covered'
      PROVE  CoverInv'
  BY <1>1, <1>4 DEF CoverInv, CompletionCovered, Looping
<1>5. CASE RecordMade \/ LeaveInitWait
  <2>1. call' = call \/ call' = [call EXCEPT !["init"] = "sent"]
    BY <1>5 DEF RecordMade, LeaveInitWait, SendInit
  <2>2. at' \in Early
    BY <1>5 DEF RecordMade, LeaveInitWait, Early
  <2> QED BY <1>3, <2>1, <2>2, CallFields, CallNames DEF Early, Looping
<1>6. CASE InitAnswered
  <2>1. call' = [call EXCEPT !["init"] = "idle"] /\ EnterLoop(Parts)
    BY <1>6 DEF InitAnswered
  <2>2. call'["complete"] = call["complete"]
    BY <2>1, CallFields, CallNames
  <2>3. at' = "firstWait" /\ pending' = Parts \ {1}
    BY <2>1, FirstOut, PartsAreNumbers
  <2>4. Parts \subseteq Covered'
    BY <2>3 DEF Covered
  <2> QED BY <1>1, <2>2, <2>3, <2>4 DEF CoverInv, CompletionCovered
<1>7. CASE InitFails \/ AbortEnds \/ CompleteAnswered
  <2>1. PICK res \in {"uploaded", "failed"} : Finish(res)
    BY <1>7 DEF InitFails, AbortEnds, CompleteAnswered
  <2>2. at' \in Over \union {"discard"}
    BY <2>1, Finishes
  <2>3. call' = call \/ call' = [call EXCEPT !["complete"] = "idle"]
    BY <1>7 DEF InitFails, AbortEnds, CompleteAnswered, net
  <2> QED BY <1>3, <2>2, <2>3, CallFields, CallNames DEF Over, Looping
<1>8. CASE StartFirst
  <2>1. call' = call /\ gate' = gate /\ at = "firstWait" /\ InFlight = {}
    BY <1>8 DEF StartFirst, PartInv
  <2>2. CASE verdict = "terminal"
    BY <1>3, <1>8, <2>1, <2>2 DEF StartFirst, Fail, Looping
  <2>3. CASE verdict # "terminal" /\ gate.paused
    <3>1. at' \in Looping
      BY <1>8, <2>3, FirstOut DEF StartFirst, Looping
    <3> QED BY <1>4, <2>1, <2>3, <3>1
  <2>4. CASE verdict # "terminal" /\ ~gate.paused
    <3>1. at' = "first" /\ pending' = pending /\ InFlight' = InFlight \union {1}
      BY <1>8, <2>4, Launched, PartsAreNumbers DEF StartFirst
    <3>2. Covered \subseteq Covered'
      BY <1>1, <2>1, <3>1 DEF Covered
    <3> QED BY <1>4, <2>1, <3>1, <3>2 DEF CoverInv, Looping
  <2> QED BY <2>2, <2>3, <2>4
<1>9. CASE FirstResumed \/ LoopAgain
  <2>1. part' = part /\ call' = call /\ gate' = gate /\ at \in {"firstPaused", "later"}
    BY <1>9 DEF FirstResumed, LoopAgain, Drained, net
  <2>2. Fail \/ EnterLoop(pending)
    BY <1>9 DEF FirstResumed, LoopAgain
  <2>3. CASE Fail
    BY <1>3, <2>1, <2>3 DEF Fail, Looping
  <2>4. CASE EnterLoop(pending)
    <3>1. /\ pending' = pending \ {1}
          /\ at' = "firstWait" \/ (at' = "later" /\ 1 \notin pending)
      BY <2>4, FirstOut
    <3>2. Covered \subseteq Covered'
      BY <1>1, <1>2, <2>1, <3>1 DEF Covered
    <3> QED BY <1>4, <2>1, <3>1, <3>2 DEF CoverInv, Looping
  <2> QED BY <2>2, <2>3, <2>4
<1>10. CASE AllSent
  <2>1. /\ InFlight = {} /\ pending = {} /\ ~gate.paused /\ at = "later" /\ verdict = "none"
        /\ call' = call /\ at' = "completeKey"
    BY <1>10 DEF AllSent, Drained, Schedulable, net
  <2>2. session = "uploading" => stored = Parts
    <3>1. session = "uploading" => Parts \subseteq Covered
      BY <2>1 DEF CoverInv, Looping
    <3> QED BY <2>1, <3>1 DEF Covered, TypeOK
  <2> QED BY <1>1, <2>1, <2>2 DEF CoverInv, CompletionCovered, Looping
<1>11. CASE VerdictKnown
  <2>1. at' \in Over \union {"discard", "abortKey"}
    BY <1>11, Finishes DEF VerdictKnown, Fail
  <2>2. call' = call
    BY <1>11 DEF VerdictKnown, net
  <2> QED BY <1>3, <2>1, <2>2 DEF Over, Looping
<1>12. CASE CompleteKeyReady
  BY <1>1, <1>12 DEF CompleteKeyReady, net, CoverInv, CompletionCovered, Looping
<1>13. CASE SendComplete
  <2>1. at = "completeWait" /\ at' = "complete"
    BY <1>13 DEF SendComplete
  <2> QED BY <1>1, <2>1 DEF CoverInv, CompletionCovered, Looping
<1>14. CASE CompleteFails \/ SendAbort \/ ResultGiven
  <2>1. at' \in {"abortKey", "abort", "done"}
    BY <1>14 DEF CompleteFails, SendAbort, ResultGiven, Fail
  <2>2. call' = call \/ call' = [call EXCEPT !["abort"] = "sent"]
    BY <1>14 DEF CompleteFails, SendAbort, ResultGiven, net
  <2> QED BY <1>3, <2>1, <2>2, CallFields, CallNames DEF Looping
<1>15. CASE Discarded
  BY <1>3, <1>15, Ends DEF Discarded, net, Over, Looping
<1>16. ASSUME NEW n \in Parts, DiscardAtEnd(n) PROVE CoverInv'
  BY <1>3, <1>16 DEF DiscardAtEnd, net, Looping
<1>17. ASSUME NEW n \in Parts, StartLater(n) PROVE CoverInv'
  <2>1. /\ InFlight' = InFlight \union {n} /\ pending' = pending \ {n} /\ call' = call /\ gate' = gate
        /\ at = "later" /\ at' = "later"
    BY <1>17, Launched DEF StartLater
  <2>2. Covered \subseteq Covered'
    BY <1>1, <2>1 DEF Covered
  <2> QED BY <1>4, <2>1, <2>2 DEF CoverInv, Looping
<1> QED BY <1>5, <1>6, <1>7, <1>8, <1>9, <1>10, <1>11, <1>12, <1>13, <1>14, <1>15, <1>16, <1>17 DEF RunnerStep

LEMMA CoverKeptByParts == TypeOK /\ ServerInv /\ PartInv /\ CoverInv /\ PartStep => CoverInv'
<1> SUFFICES ASSUME TypeOK, ServerInv, PartInv, CoverInv, NEW n \in Parts,
                    \/ CutDone(n) \/ CutFails(n) \/ PartConfirmed(n) \/ PartFails(n)
                    \/ ChunkDeleted(n) \/ ChunkStays(n)
             PROVE  CoverInv'
  BY DEF PartStep
<1>1. part[n] # "none" /\ UNCHANGED <<session, stored, verdict, call, gate, pending>>
  BY DEF CutDone, CutFails, PartConfirmed, PartFails, ChunkDeleted, ChunkStays, net, server
<1>2. n \in InFlight /\ at \in {"first", "later", "failing"}
  BY <1>1 DEF PartInv, InFlight
<1>3. ASSUME at' \notin {"completeKey", "completeWait"},
             at' \in Looping /\ ~gate.paused => at \in Looping /\ Parts \intersect Covered \subseteq Covered'
      PROVE  CoverInv'
  BY <1>1, <1>3 DEF CoverInv, CompletionCovered
<1>4. ASSUME NEW outcome \in {"uploaded", "failed", "paused"}, PartEnds(n, outcome),
             outcome = "uploaded" => n \in stored, outcome = "paused" => gate.paused
      PROVE  CoverInv'
  <2>1. /\ InFlight' = InFlight \ {n}
        /\ at' \in {"later", "firstPaused", "failing", "abortKey"}
        /\ at' = "firstPaused" => outcome = "paused"
        /\ at' = "later" => outcome # "failed" /\ at \in {"first", "later"}
    BY <1>1, <1>4, PartEnded
  <2>2. n \in stored => Covered \subseteq Covered'
    BY <1>1, <1>2, <2>1 DEF Covered
  <2> QED BY <1>3, <1>4, <2>1, <2>2 DEF Looping
<1>5. ASSUME NEW x \in {"send", "dropSent", "dropFailed"}, part' = [part EXCEPT ![n] = x], at' = at
      PROVE  CoverInv'
  <2>1. InFlight' = InFlight \union {n}
    BY <1>5, FlightMoves
  <2>2. Covered \subseteq Covered'
    BY <1>1, <1>5, <2>1 DEF Covered
  <2> QED BY <1>2, <1>3, <1>5, <2>2
<1>6. CASE CutDone(n)
  BY <1>4, <1>5, <1>6 DEF CutDone, SendPart
<1>7. CASE CutFails(n)
  BY <1>4, <1>7 DEF CutFails
<1>8. CASE PartConfirmed(n) \/ PartFails(n)
  BY <1>5, <1>8 DEF PartConfirmed, PartFails
<1>9. CASE ChunkDeleted(n) \/ ChunkStays(n)
  BY <1>4, <1>9 DEF ChunkDeleted, ChunkStays, ServerInv
<1> QED BY <1>6, <1>7, <1>8, <1>9

(* A detail that opens the gate names every part the server has not.       *)
LEMMA CoverKeptByForeground ==
  TypeOK /\ ServerInv /\ CallInv /\ GateInv /\ CoverInv /\ ForegroundStep => CoverInv'
<1> SUFFICES ASSUME TypeOK, ServerInv, CallInv, GateInv, CoverInv, ForegroundStep PROVE CoverInv'
  OBVIOUS
<1> USE DEF run, server
<1>1. UNCHANGED <<session, stored, at, part>> /\ InFlight' = InFlight
  <2>1. UNCHANGED <<session, stored, at, part>>
    BY DEF ForegroundStep, AskServer, DetailArrives, DetailFails, DiscardUnneeded,
           ApplyDetail, applyDetail
  <2> QED BY <2>1, FlightMoves, PartsAreNumbers
<1>2. call'["complete"] = call["complete"]
  <2>1. call' = call \/ \E x \in {"idle", "sent"} : call' = [call EXCEPT !["get"] = x]
    BY DEF ForegroundStep, AskServer, DetailArrives, DetailFails, DiscardUnneeded,
           ApplyDetail, applyDetail
  <2> QED BY <2>1, CallFields, CallNames
<1>3. ASSUME at \in Looping /\ verdict' = "none" /\ ~gate'.paused /\ session = "uploading" => Parts \subseteq Covered'
      PROVE  CoverInv'
  BY <1>1, <1>2, <1>3 DEF CoverInv, CompletionCovered
<1>4. CASE ApplyDetail
  <2>1. detail.status \in {"uploading", "accepted", "closed"}
    BY <1>4 DEF ApplyDetail, applyDetail, CallInv, TypeOK
  <2>2. verdict' = "none" => detail.status = "uploading" /\ pending' = detail.pending
    BY <1>4, <2>1 DEF ApplyDetail, applyDetail
  <2>3. verdict' = "none" => Parts \ stored \subseteq pending'
    BY <2>2 DEF ServerInv
  <2> QED BY <1>1, <1>3, <2>3 DEF Covered
<1>5. CASE ~ApplyDetail
  <2>1. gate' = gate \/ EndForeground(gate, FALSE)
    BY <1>5 DEF ForegroundStep, AskServer, DetailArrives, DetailFails, DiscardUnneeded
  <2>2. ~gate'.paused => ~gate.paused
    BY <2>1, GateType, ForegroundEnds
  <2>3. UNCHANGED <<verdict, pending>>
    BY <1>5 DEF ForegroundStep, AskServer, DetailArrives, DetailFails, DiscardUnneeded
  <2>4. Covered' = Covered
    BY <1>1, <2>3 DEF Covered
  <2> QED BY <1>3, <2>2, <2>3, <2>4 DEF CoverInv
<1> QED BY <1>4, <1>5

LEMMA CoverKeptOutside ==
  TypeOK /\ ServerInv /\ CallInv /\ CoverInv /\ (ServerStep \/ Hide \/ Show \/ ServerCloses) => CoverInv'
<1> SUFFICES ASSUME TypeOK, ServerInv, CallInv, CoverInv, ServerStep \/ Hide \/ Show \/ ServerCloses PROVE CoverInv'
  OBVIOUS
<1> USE DEF run, net, server
<1>1. UNCHANGED <<at, part, pending, verdict>> /\ InFlight' = InFlight
  <2>1. UNCHANGED <<at, part, pending, verdict>>
    BY DEF ServerStep, ServerInitializes, ServerCompletes, ServerAborts, ServerReads, ServerTakesPart, Hide, Show,
           ServerCloses
  <2> QED BY <2>1, FlightMoves, PartsAreNumbers
<1>2. stored \subseteq stored' /\ stored' \subseteq Parts
  BY DEF ServerStep, ServerInitializes, ServerCompletes, ServerAborts, ServerReads, ServerTakesPart, Hide, Show,
         ServerCloses, TypeOK
<1>3. at \in Looping /\ ~gate'.paused => ~gate.paused
  <2>1. CASE Hide
    <3>1. CASE at = "done"
      BY <2>1, <3>1 DEF Hide
    <3>2. CASE at # "done"
      <4>1. gate' = [backgrounded |-> TRUE, requested |-> TRUE, paused |-> Active \/ gate.paused]
        BY <2>1, <3>2 DEF Hide
      <4> QED BY <4>1
    <3> QED BY <3>1, <3>2
  <2>2. CASE Show
    <3>1. CASE Foregrounding(gate, hides)
      BY <3>1, GateType, Foregrounds DEF TypeOK, Active, Recorded, Looping
    <3>2. CASE gate' = gate
      BY <3>2
    <3> QED BY <2>2, <3>1, <3>2 DEF Show
  <2>3. CASE ServerStep \/ ServerCloses
    BY <2>3 DEF ServerStep, ServerInitializes, ServerCompletes, ServerAborts, ServerReads, ServerTakesPart,
                ServerCloses
  <2> QED BY <2>1, <2>2, <2>3
<1>4. Covered \subseteq Covered'
  BY <1>1, <1>2 DEF Covered
<1>5. CASE session' = "uploading" => session = "uploading"
  <2>1. call'["complete"] = "sent" => call["complete"] = "sent"
    <3>1. call' = call \/ \E c \in Calls, x \in {"ok", "refused"} : call' = [call EXCEPT ![c] = x]
      BY CallNames DEF ServerStep, ServerInitializes, ServerCompletes, ServerAborts, ServerReads, ServerTakesPart,
                       Hide, Show, ServerCloses
    <3> QED BY <3>1, CallFields, CallNames
  <2> QED BY <1>1, <1>2, <1>3, <1>4, <1>5, <2>1 DEF CoverInv, CompletionCovered, TypeOK
<1>6. CASE session' = "uploading" /\ session # "uploading"
  <2>1. ServerInitializes
    BY <1>6 DEF ServerStep, ServerInitializes, ServerCompletes, ServerAborts, ServerReads, ServerTakesPart, Hide,
                Show, ServerCloses
  <2>2. call["init"] = "sent" /\ call["complete"] = "idle" /\ call' = [call EXCEPT !["init"] = "ok"]
    BY <2>1 DEF ServerInitializes, ServerInv
  <2>3. at \in Early \union Over
    BY <2>2 DEF CallInv
  <2> QED BY <1>1, <2>2, <2>3, CallFields, CallNames DEF CoverInv, CompletionCovered, Looping, Early, Over
<1> QED BY <1>5, <1>6

-----------------------------------------------------------------------------
LEMMA InitRunnerInv == Init => RunnerInv
<1> SUFFICES ASSUME Init PROVE RunnerInv
  OBVIOUS
<1>1. TypeOK
  BY InitTyped
<1>2. InFlight = {}
  BY DEF Init, InFlight
<1>3. ServerInv /\ CallInv
  BY CallNames DEF Init, ServerInv, CallInv, NoForeground, NoDetail, Early, Over, Asking
<1>4. PartInv /\ GateInv
  BY <1>2 DEF Init, PartInv, GateInv, NoForeground, Early, Over, Asking
<1>5. CoverInv
  BY CallNames DEF Init, CoverInv, CompletionCovered, Looping
<1>6. ShownInv
  BY FS_EmptySet DEF Init, ShownInv
<1> QED BY <1>1, <1>3, <1>4, <1>5, <1>6 DEF RunnerInv

LEMMA StepRunnerInv == RunnerInv /\ [Next]_vars => RunnerInv'
<1> SUFFICES ASSUME RunnerInv, [Next]_vars PROVE RunnerInv'
  OBVIOUS
<1> USE DEF RunnerInv
<1>1. CASE Next
  <2>1. ShownInv'
    BY <1>1, ShownKept
  <2>2. CASE RunnerStep
    BY <2>1, <2>2, RunTyped, BeliefKeptByRun, CallsKeptByRun, PartsKeptByRun, GateKeptByRun, CoverKeptByRun
  <2>3. CASE PartStep
    BY <2>1, <2>3, PartTyped, BeliefKeptByParts, CallsKeptByParts, PartsKeptByParts, GateKeptByParts,
       CoverKeptByParts
  <2>4. CASE ForegroundStep
    <3>1. foreground.at = "apply" => detail.status # "none"
      BY DEF CallInv
    <3> QED BY <2>1, <2>4, <3>1, ForegroundTyped, BeliefKeptByForeground, CallsKeptByForeground,
               PartsKeptByForeground, GateKeptByForeground, CoverKeptByForeground
  <2>5. CASE ServerStep \/ Hide \/ Show \/ ServerCloses
    BY <2>1, <2>5, OutsideTyped, BeliefKeptOutside, CallsKeptOutside, PartsKeptOutside, GateKeptOutside,
       CoverKeptOutside
  <2> QED BY <1>1, <2>2, <2>3, <2>4, <2>5 DEF Next
<1>2. CASE UNCHANGED vars
  <2>1. InFlight' = InFlight /\ Covered' = Covered /\ (Active' <=> Active)
    BY <1>2 DEF vars, run, server, InFlight, Covered, Active, Recorded
  <2>2. TypeOK' /\ ServerInv' /\ CallInv'
    BY <1>2 DEF vars, app, run, net, server, TypeOK, ServerInv, CallInv
  <2>3. PartInv' /\ GateInv'
    BY <1>2, <2>1 DEF vars, app, run, PartInv, GateInv
  <2>4. CoverInv' /\ ShownInv'
    BY <1>2, <2>1 DEF vars, run, net, server, CoverInv, CompletionCovered, ShownInv
  <2> QED BY <2>2, <2>3, <2>4
<1> QED BY <1>1, <1>2

(* The inductive invariant holds in every behaviour.                       *)
THEOREM RunnerInvariant == Spec => []RunnerInv
BY InitRunnerInv, StepRunnerInv, PTL DEF Spec

(* Every variable of the runner keeps its type; in particular a foreground *)
(* never applies a detail that has not arrived.                            *)
THEOREM RunnerTyping == Spec => []TypeOK
<1>1. RunnerInv => TypeOK
  BY DEF RunnerInv
<1> QED BY <1>1, RunnerInvariant, PTL

(* The runner asks for completion only when the server has every part or   *)
(* takes none any more, whatever pauses, parked chunks and details its     *)
(* loop has seen.                                                          *)
THEOREM CompletionIsCovered == Spec => []CompletionCovered
<1>1. RunnerInv => CompletionCovered
  BY DEF RunnerInv, CoverInv
<1> QED BY <1>1, RunnerInvariant, PTL

(* An upload that has ended holds no chunk file.                           *)
THEOREM NoChunkIsLeft == Spec => []NoChunkLeft
<1>1. RunnerInv => NoChunkLeft
  BY DEF RunnerInv, PartInv, InFlight, NoChunkLeft, HasChunk, Over, TypeOK
<1> QED BY <1>1, RunnerInvariant, PTL

(* What the user is told of the result and of the progress is true.        *)
THEOREM TheTruthIsTold == Spec => []ToldIsTrue
<1>1. RunnerInv => ToldIsTrue
  BY DEF RunnerInv, ServerInv, ShownInv, ToldIsTrue
<1> QED BY <1>1, RunnerInvariant, PTL

(* A hidden app sends no initialization, part or completion: the gate is   *)
(* shut in every state in which the runner could.                          *)
LEMMA QuietStep ==
  RunnerInv /\ [Next]_vars
  => (hidden => /\ \A c \in {"init", "complete"} : call'[c] = "sent" => call[c] = "sent"
                /\ \A n \in Parts : partCall'[n] = "sent" => partCall[n] = "sent")
<1> SUFFICES ASSUME RunnerInv, [Next]_vars, hidden
             PROVE  /\ \A c \in {"init", "complete"} : call'[c] = "sent" => call[c] = "sent"
                    /\ \A n \in Parts : partCall'[n] = "sent" => partCall[n] = "sent"
  OBVIOUS
<1>1. /\ TypeOK /\ (at \notin Over => gate.requested) /\ (Active => gate.paused)
      /\ at \in {"first", "later", "failing"} \/ InFlight = {}
  BY DEF RunnerInv, GateInv, PartInv
<1>2. \/ call' = call
      \/ \E c \in Calls, x \in {"idle", "ok", "refused"} : call' = [call EXCEPT ![c] = x]
      \/ \E c \in {"get", "abort"} : call' = [call EXCEPT ![c] = "sent"]
  <2>1. ~LeaveInitWait /\ ~SendComplete
    BY <1>1 DEF LeaveInitWait, SendComplete, Foregrounded, Over
  <2>2. RecordMade => call' = call
    BY <1>1 DEF RecordMade, Foregrounded, Over
  <2>3. CASE RunnerStep
    BY <2>1, <2>2, <2>3, CallNames DEF RunnerStep, InitAnswered, InitFails, StartFirst, FirstResumed, AllSent,
         LoopAgain, VerdictKnown, CompleteKeyReady, CompleteAnswered, CompleteFails, SendAbort, AbortEnds, Discarded,
         ResultGiven, StartLater, DiscardAtEnd, net
  <2>4. CASE PartStep
    BY <2>4 DEF PartStep, CutDone, CutFails, PartConfirmed, PartFails, ChunkDeleted, ChunkStays, net
  <2>5. CASE ForegroundStep
    BY <2>5, CallNames DEF ForegroundStep, AskServer, DetailArrives, DetailFails, DiscardUnneeded,
                           ApplyDetail, applyDetail
  <2>6. CASE ServerStep \/ Hide \/ Show \/ ServerCloses \/ UNCHANGED vars
    BY <2>6, CallNames DEF ServerStep, ServerInitializes, ServerCompletes, ServerAborts, ServerReads,
         ServerTakesPart, Hide, Show, ServerCloses, net, vars
  <2> QED BY <2>3, <2>4, <2>5, <2>6 DEF Next
<1>3. \A c \in {"init", "complete"} : call'[c] = "sent" => call[c] = "sent"
  BY <1>1, <1>2, CallFields, CallNames
<1>4. partCall' = partCall \/ \E n \in Parts, x \in {"idle", "ok", "refused"} : partCall' = [partCall EXCEPT ![n] = x]
  <2>1. CASE RunnerStep
    <3>1. CASE StartFirst
      <4>1. gate.paused
        BY <1>1, <3>1 DEF StartFirst, Active, Recorded
      <4> QED BY <3>1, <4>1 DEF StartFirst
    <3>2. ASSUME NEW n \in Parts, StartLater(n) PROVE FALSE
      BY <1>1, <3>2 DEF StartLater, Active, Recorded
    <3>3. CASE ~StartFirst /\ \A n \in Parts : ~StartLater(n)
      BY <2>1, <3>3 DEF RunnerStep, RecordMade, LeaveInitWait, InitAnswered, InitFails, FirstResumed, AllSent,
         LoopAgain, VerdictKnown, CompleteKeyReady, SendComplete, CompleteAnswered, CompleteFails, SendAbort,
         AbortEnds, Discarded, ResultGiven, DiscardAtEnd, net
    <3> QED BY <3>1, <3>2, <3>3
  <2>2. ASSUME NEW n \in Parts, CutDone(n) PROVE partCall' = partCall
    <3>1. gate.paused
      BY <1>1, <2>2 DEF CutDone, InFlight, Active, Recorded
    <3> QED BY <2>2, <3>1 DEF CutDone
  <2>3. CASE PartStep
    BY <2>2, <2>3 DEF PartStep, CutFails, PartConfirmed, PartFails, ChunkDeleted, ChunkStays, net
  <2>4. CASE ForegroundStep \/ ServerStep \/ Hide \/ Show \/ ServerCloses \/ UNCHANGED vars
    BY <2>4 DEF ForegroundStep, AskServer, DetailArrives, DetailFails, DiscardUnneeded,
                ApplyDetail, applyDetail, ServerStep,
         ServerInitializes, ServerCompletes, ServerAborts, ServerReads, ServerTakesPart, Hide, Show, ServerCloses,
         net, vars
  <2> QED BY <2>1, <2>3, <2>4 DEF Next
<1>5. \A n \in Parts : partCall'[n] = "sent" => partCall[n] = "sent"
  BY <1>1, <1>4 DEF TypeOK
<1> QED BY <1>3, <1>5

(* A hidden app sends no initialization, part or completion.              *)
THEOREM HiddenIsQuiet == Spec => QuietWhileHidden
BY RunnerInvariant, QuietStep, PTL DEF Spec, QuietWhileHidden

-----------------------------------------------------------------------------
(* No wake-up is lost: in a visible app whose foregrounds are through and  *)
(* none has failed, nothing keeps the runner, its parts or its result      *)
(* waiting.  This is what the liveness of an upload rests on.              *)
GateReopens ==
  ~hidden /\ foreground.at = "none" =>
    /\ at # "done" => ~gate.backgrounded /\ ~gate.requested
    /\ Active => ~gate.paused

(* A foreground ends with an open gate, failed, hidden again, or with      *)
(* another one that takes its place.                                       *)
LEMMA ForegroundReopens ==
  ASSUME TypeOK, NEW g \in Gate, NEW ok \in BOOLEAN, EndForeground(g, ok), at' = at, hidden' = hidden,
         ok /\ foreground.gen = hides => ~g.paused /\ ~g.requested
  PROVE  GateReopens'
<1>1. CASE Rerun
  <2> DEFINE open == IF ok /\ foreground.gen = hides THEN [g EXCEPT !.backgrounded = FALSE] ELSE g
  <2>1. Foregrounding(open, hides) /\ foreground.gen # hides
    BY <1>1 DEF EndForeground, Rerun
  <2>2. Foregrounding(g, hides)
    BY <2>1
  <2>3. CASE Active
    BY <2>2, <2>3 DEF Foregrounding, GateReopens
  <2>4. CASE ~Active
    <3>1. gate' = [g EXCEPT !.backgrounded = FALSE, !.requested = FALSE]
      BY <2>2, <2>4 DEF Foregrounding
    <3>2. ~gate'.backgrounded /\ ~gate'.requested
      BY <3>1 DEF Gate
    <3> QED BY <2>4, <3>2 DEF GateReopens, Active, Recorded
  <2> QED BY <2>3, <2>4
<1>2. CASE ~Rerun /\ ~hidden /\ ok /\ foreground.gen = hides
  <2>1. gate' = [g EXCEPT !.backgrounded = FALSE] /\ ~g.paused /\ ~g.requested
    BY <1>2 DEF EndForeground
  <2>2. ~gate'.backgrounded /\ ~gate'.paused /\ ~gate'.requested
    BY <2>1 DEF Gate
  <2> QED BY <2>2 DEF GateReopens
<1>3. CASE ~Rerun /\ ~hidden /\ ~ok
  BY <1>3 DEF EndForeground, GateReopens
<1>4. CASE ~Rerun /\ ~hidden /\ foreground.gen # hides
  BY <1>4 DEF Rerun, GateReopens, Active, Recorded
<1>5. CASE hidden
  BY <1>5 DEF GateReopens
<1> QED BY <1>1, <1>2, <1>3, <1>4, <1>5

LEMMA ReopensByRun == TypeOK /\ GateReopens /\ RunnerStep => GateReopens'
<1> SUFFICES ASSUME TypeOK, GateReopens, RunnerStep PROVE GateReopens'
  OBVIOUS
<1>1. UNCHANGED <<hidden, foreground>>
  BY DEF RunnerStep, RecordMade, LeaveInitWait, InitAnswered, InitFails, StartFirst, FirstResumed,
         AllSent, LoopAgain, VerdictKnown, CompleteKeyReady, SendComplete, CompleteAnswered,
         CompleteFails, SendAbort, AbortEnds, Discarded, ResultGiven, StartLater, DiscardAtEnd, app
<1>2. ASSUME End, at # "done" PROVE GateReopens'
  <2>1. gate' = [gate EXCEPT !.requested = FALSE] /\ gate \in Gate
    BY <1>2, GateType DEF End
  <2>2. gate'.backgrounded = gate.backgrounded /\ ~gate'.requested
    BY <2>1 DEF Gate
  <2>3. at' = IF gate.backgrounded THEN "settle" ELSE "done"
    BY <1>2 DEF End
  <2> QED BY <1>1, <1>2, <2>2, <2>3 DEF GateReopens, Active, Recorded
<1>3. ASSUME NEW res \in {"uploaded", "failed"}, Finish(res), at # "done" PROVE GateReopens'
  <2>1. CASE Active /\ parked # {}
    BY <1>1, <1>3, <2>1 DEF Finish, GateReopens
  <2>2. CASE ~(Active /\ parked # {})
    BY <1>2, <1>3, <2>2 DEF Finish
  <2> QED BY <2>1, <2>2
<1>4. CASE InitAnswered
  <2>1. gate' = [gate EXCEPT !.paused = gate.requested] /\ at = "init" /\ gate \in Gate
    BY <1>4, GateType DEF InitAnswered
  <2>2. /\ gate'.paused = gate.requested /\ gate'.requested = gate.requested
        /\ gate'.backgrounded = gate.backgrounded
    BY <2>1 DEF Gate
  <2> QED BY <1>1, <2>1, <2>2 DEF GateReopens
<1>5. CASE InitFails \/ AbortEnds \/ CompleteAnswered
  BY <1>3, <1>5 DEF InitFails, AbortEnds, CompleteAnswered
<1>6. CASE VerdictKnown
  <2>1. CASE Finish("uploaded")
    BY <1>3, <1>6, <2>1 DEF VerdictKnown, Drained
  <2>2. CASE Fail /\ gate' = gate
    BY <1>1, <1>6, <2>2 DEF VerdictKnown, Drained, Fail, GateReopens, Active, Recorded
  <2> QED BY <1>6, <2>1, <2>2 DEF VerdictKnown
<1>7. CASE Discarded
  BY <1>2, <1>7 DEF Discarded
<1>8. CASE \/ RecordMade \/ LeaveInitWait \/ StartFirst \/ FirstResumed \/ AllSent \/ LoopAgain
           \/ CompleteKeyReady \/ SendComplete \/ CompleteFails \/ SendAbort \/ ResultGiven
           \/ \E n \in Parts : StartLater(n) \/ DiscardAtEnd(n)
  <2>1. gate' = gate /\ (at = "done" => at' = "done") /\ (Active' => Active)
    BY <1>8 DEF RecordMade, LeaveInitWait, StartFirst, FirstResumed, AllSent, LoopAgain, Drained,
                CompleteKeyReady, SendComplete, CompleteFails, SendAbort, ResultGiven, StartLater,
                DiscardAtEnd, EnterLoop, Fail, Active, Recorded
  <2> QED BY <1>1, <2>1 DEF GateReopens
<1> QED BY <1>4, <1>5, <1>6, <1>7, <1>8 DEF RunnerStep

LEMMA ReopensByParts == PartInv /\ GateReopens /\ PartStep => GateReopens'
<1> SUFFICES ASSUME PartInv, GateReopens, NEW n \in Parts,
                    \/ CutDone(n) \/ CutFails(n) \/ PartConfirmed(n) \/ PartFails(n)
                    \/ ChunkDeleted(n) \/ ChunkStays(n)
             PROVE  GateReopens'
  BY DEF PartStep
<1>1. n \in InFlight /\ UNCHANGED <<hidden, hides, foreground, gate>>
  BY DEF InFlight, CutDone, CutFails, PartConfirmed, PartFails, ChunkDeleted, ChunkStays, app
<1>2. at \in {"first", "later", "failing"}
  BY <1>1 DEF PartInv
<1> QED BY <1>1, <1>2 DEF GateReopens, Active, Recorded

LEMMA ReopensByForeground == TypeOK /\ GateReopens /\ ForegroundStep => GateReopens'
<1> SUFFICES ASSUME TypeOK, GateReopens, ForegroundStep PROVE GateReopens'
  OBVIOUS
<1>1. UNCHANGED <<hidden, at>>
  BY DEF ForegroundStep, AskServer, DetailArrives, DetailFails, DiscardUnneeded,
         ApplyDetail, applyDetail, run
<1>2. CASE AskServer \/ DetailArrives
  BY <1>2 DEF AskServer, DetailArrives, TypeOK, GateReopens
<1>3. CASE DetailFails
  BY <1>1, <1>3, GateType, ForegroundReopens DEF DetailFails
<1>4. ASSUME NEW n \in Parts, DiscardUnneeded(n) PROVE GateReopens'
  <2>1. CASE EndForeground(gate, FALSE)
    BY <1>1, <2>1, GateType, ForegroundReopens
  <2>2. CASE UNCHANGED <<foreground, gate>>
    BY <1>1, <2>2 DEF GateReopens, Active, Recorded
  <2> QED BY <1>4, <2>1, <2>2 DEF DiscardUnneeded
<1>5. CASE ApplyDetail
  <2> DEFINE current == foreground.gen = hides
             g == [gate EXCEPT !.paused = ~current, !.requested = ~current /\ gate.requested]
  <2>1. EndForeground(g, TRUE)
    BY <1>5 DEF ApplyDetail, applyDetail
  <2>2. g \in Gate /\ g.paused = ~current /\ g.requested = (~current /\ gate.requested)
    BY GateType DEF Gate
  <2>3. TRUE /\ foreground.gen = hides => ~g.paused /\ ~g.requested
    BY <2>2
  <2> HIDE DEF g, current
  <2> QED BY <1>1, <2>1, <2>2, <2>3, ForegroundReopens
<1> QED BY <1>2, <1>3, <1>4, <1>5 DEF ForegroundStep

LEMMA ReopensOutside ==
  TypeOK /\ GateReopens /\ (ServerStep \/ Hide \/ Show \/ ServerCloses) => GateReopens'
<1> SUFFICES ASSUME TypeOK, GateReopens, ServerStep \/ Hide \/ Show \/ ServerCloses
             PROVE  GateReopens'
  OBVIOUS
<1>1. CASE ServerStep \/ ServerCloses
  BY <1>1 DEF ServerStep, ServerInitializes, ServerCompletes, ServerAborts, ServerReads,
              ServerTakesPart, ServerCloses, GateReopens, Active, Recorded, app, run
<1>2. CASE Hide
  BY <1>2 DEF Hide, GateReopens
<1>3. CASE Show
  <2>1. at' = at
    BY <1>3 DEF Show, run
  <2>2. CASE foreground.at \in {"none", "failed"} /\ at # "done" /\ Foregrounding(gate, hides)
    <3>1. CASE Active
      BY <2>2, <3>1 DEF Foregrounding, GateReopens
    <3>2. CASE ~Active
      <4>1. gate' = [gate EXCEPT !.backgrounded = FALSE, !.requested = FALSE]
        BY <2>2, <3>2 DEF Foregrounding
      <4>2. ~gate'.backgrounded /\ ~gate'.requested
        BY <4>1, GateType DEF Gate
      <4> QED BY <2>1, <3>2, <4>2 DEF GateReopens, Active, Recorded
    <3> QED BY <3>1, <3>2
  <2>3. CASE ~(foreground.at \in {"none", "failed"} /\ at # "done") /\ UNCHANGED foreground
    BY <2>1, <2>3 DEF GateReopens, Active, Recorded
  <2> QED BY <1>3, <2>2, <2>3 DEF Show
<1> QED BY <1>1, <1>2, <1>3

(* In a visible app no gate stays shut behind a foreground: whatever hides *)
(* and shows overlap it, the last one opens all three flags or failed.     *)
THEOREM GatesReopen == Spec => []GateReopens
<1>1. Init => GateReopens
  BY DEF Init, GateReopens, NoForeground
<1>2. RunnerInv /\ GateReopens /\ [Next]_vars => GateReopens'
  <2>1. CASE UNCHANGED vars
    BY <2>1 DEF vars, app, run, GateReopens, Active, Recorded
  <2> QED BY <2>1, ReopensByRun, ReopensByParts, ReopensByForeground, ReopensOutside
          DEF Next, RunnerInv
<1> QED BY <1>1, <1>2, RunnerInvariant, PTL DEF Spec
=============================================================================
