------------------------------- MODULE PartForm -------------------------------
(***************************************************************************)
(* One part request: the route reads a multipart form while the service    *)
(* already stores its file, and the form may have fields after the file.   *)
(* The parser cannot pass a file that nobody reads.  Three promises settle *)
(* in any order: the form, the inspection of the bytes, the storage.       *)
(***************************************************************************)
EXTENDS Naturals, Sequences, Functions

CONSTANTS
  MaxItems,   \* bound: items the client puts into the form
  MaxParts    \* limits.parts

(* What the constants must satisfy.                                        *)
ASSUME FormAssumption == MaxItems \in Nat /\ MaxParts \in Nat \ {0}

Items == {"file", "size", "wrongSize", "other"}

VARIABLES
  form,      \* items that have not arrived
  body,      \* the file: its length and digest are right, its signature is right
  parser,    \* request.parts(): reading, ended, failed; and items seen
  formError, \* an item or header is not acceptable
  declared,  \* declaredSize: none, right, wrong
  file,      \* the file's stream: none, open, read, broken
  multi,     \* validation.promise with the size check: pending, ok, error
  service,   \* UploadService.uploadPart
  store,     \* storage.uploadPart
  inspect,   \* inspectChunk(...).completed and the signature
  first      \* the part is the first

formVars == <<form, body, parser, formError, declared, file, multi, service, store, inspect, first>>

Forms == UNION {[1..n -> Items] : n \in 0..MaxItems}

FormInit ==
  /\ form \in Forms
  /\ body \in [exact : BOOLEAN, signed : BOOLEAN]
  /\ parser = [at |-> "reading", seen |-> << >>]
  /\ formError \in BOOLEAN          \* x-chunk-sha256 is malformed
  /\ declared = "none" /\ file = "none" /\ multi = "pending"
  /\ service = "none" /\ store = "none" /\ inspect = "pending"
  /\ first \in BOOLEAN

Promise == {"pending", "ok", "error"}

FormTypeOK ==
  /\ form \in Forms /\ body \in [exact : BOOLEAN, signed : BOOLEAN]
  /\ parser.at \in {"reading", "ended", "failed"} /\ Range(parser.seen) \subseteq Items
  /\ formError \in BOOLEAN /\ declared \in {"none", "right", "wrong"}
  /\ file \in {"none", "open", "read", "broken"}
  /\ multi \in Promise /\ inspect \in Promise
  /\ service \in {"none", "acquire", "prepare", "drain", "replay", "store", "confirm",
                  "confirmed", "replayed", "failed"}
  /\ store \in {"none", "reading", "stored", "rejected"} /\ first \in BOOLEAN

-----------------------------------------------------------------------------
(* The route.                                                              *)

Sizes == {"size", "wrongSize"}
OverLimit(item) ==
  \/ Len(parser.seen) >= MaxParts
  \/ item = "file" /\ "file" \in Range(parser.seen)
  \/ item # "file" /\ Range(parser.seen) \ {"file"} # {}

Passed == file # "open"
Taken == form' = Tail(form) /\ parser' = [parser EXCEPT !.seen = Append(@, Head(form))]

FileArrives ==
  /\ parser.at = "reading" /\ Passed /\ form # << >>
  /\ Head(form) = "file" /\ ~OverLimit("file")
  /\ Taken
  /\ IF formError THEN UNCHANGED <<file, service>> ELSE file' = "open" /\ service' = "acquire"
  /\ UNCHANGED <<body, formError, declared, multi, store, inspect, first>>

FieldArrives ==
  /\ parser.at = "reading" /\ Passed /\ form # << >>
  /\ Head(form) # "file" /\ ~OverLimit(Head(form))
  /\ Taken
  /\ IF Head(form) = "other" THEN formError' = TRUE /\ UNCHANGED declared
     ELSE declared' = (IF Head(form) = "size" THEN "right" ELSE "wrong") /\ UNCHANGED formError
  /\ UNCHANGED <<body, file, multi, service, store, inspect, first>>

(* The parser rejects the form, or the client is gone.                     *)
ParseFails ==
  /\ parser.at = "reading"
  /\ parser' = [parser EXCEPT !.at = "failed"]
  /\ file' = IF file = "open" THEN "broken" ELSE file
  /\ multi' = "error"
  /\ UNCHANGED <<form, body, formError, declared, service, store, inspect, first>>

FormEnds ==
  /\ parser.at = "reading" /\ Passed /\ form = << >>
  /\ parser' = [parser EXCEPT !.at = "ended"]
  /\ multi' = IF ~formError /\ declared = "right" /\ file # "none" THEN "ok" ELSE "error"
  /\ UNCHANGED <<form, body, formError, declared, file, service, store, inspect, first>>

-----------------------------------------------------------------------------
(* The service.                                                            *)

Leases ==
  /\ service = "acquire"
  /\ service' \in {"prepare", "drain"}
  /\ UNCHANGED <<form, body, parser, formError, declared, file, multi, store, inspect, first>>

(* The part is new, was stored before, or is refused.                      *)
Prepares ==
  /\ service = "prepare"
  /\ \/ service' = "store" /\ store' = "reading"
     \/ service' \in {"replay", "drain"} /\ UNCHANGED store
  /\ UNCHANGED <<form, body, parser, formError, declared, file, multi, inspect, first>>

(* A rejected storage leaves the stream flowing.                           *)
Reader_Stored == service \in {"drain", "replay"} \/ store = "reading"   \* mutant: it is paused
Reader == service \in {"drain", "replay"} \/ store \in {"reading", "rejected"}

Inspected ==
  IF service \notin {"store", "replay"} THEN "pending"
  ELSE IF body.exact /\ (service = "replay" \/ ~first \/ body.signed) THEN "ok" ELSE "error"

BodyRead ==
  /\ file = "open" /\ Reader
  /\ file' = "read" /\ inspect' = Inspected
  /\ UNCHANGED <<form, body, parser, formError, declared, multi, service, store, first>>

BodyBroken ==
  /\ file = "broken" /\ inspect = "pending" /\ service \in {"store", "replay"}
  /\ inspect' = "error"
  /\ UNCHANGED <<form, body, parser, formError, declared, file, multi, service, store, first>>

(* The stream ends for the storage only after its length and digest were   *)
(* found right; the signature may be wrong all the same.                   *)
Stored ==
  /\ store = "reading" /\ file = "read" /\ body.exact
  /\ store' = "stored"
  /\ UNCHANGED <<form, body, parser, formError, declared, file, multi, service, inspect, first>>

(* Of itself, by the time limit, or by the signal of a failed promise; a   *)
(* write that is cut short destroys the stream it reads.                   *)
StoreRejected ==
  /\ store = "reading"
  /\ store' = "rejected"
  /\ file' \in {file, IF file = "open" THEN "broken" ELSE file}
  /\ UNCHANGED <<form, body, parser, formError, declared, multi, service, inspect, first>>

End(outcome) ==
  /\ service' = outcome
  /\ UNCHANGED <<form, body, parser, formError, declared, file, multi, store, inspect, first>>

FormOk_Settled == multi # "pending"   \* mutant: a bad form is not looked at
FormOk == multi = "ok"

StoreSettles ==
  /\ service = "store" /\ store # "reading" /\ inspect # "pending" /\ multi # "pending"
  /\ End(IF store = "stored" /\ inspect = "ok" /\ FormOk THEN "confirm" ELSE "failed")

confirmPart == service = "confirm" /\ \E outcome \in {"confirmed", "failed"} : End(outcome)

ReplaySettles ==
  /\ service = "replay" /\ file # "open" /\ inspect # "pending" /\ multi # "pending"
  /\ End(IF inspect = "ok" /\ FormOk THEN "replayed" ELSE "failed")

Drained == service = "drain" /\ file # "open" /\ End("failed")

-----------------------------------------------------------------------------
FormNext ==
  \/ FileArrives \/ FieldArrives \/ ParseFails \/ FormEnds
  \/ Leases \/ Prepares \/ BodyRead \/ BodyBroken \/ Stored \/ StoreRejected
  \/ StoreSettles \/ confirmPart \/ ReplaySettles \/ Drained

FormSpec == FormInit /\ [][FormNext]_formVars

-----------------------------------------------------------------------------
(* A part is confirmed, or answered as confirmed before, only for a form   *)
(* that ended well with the right size and bytes of the right length,      *)
(* digest and, in the first part, signature: whichever promise was first.  *)
ConfirmedIsWhole ==
  service \in {"confirm", "confirmed", "replayed"} =>
    /\ parser.at = "ended" /\ ~formError /\ declared = "right"
    /\ file = "read" /\ body.exact
    /\ service # "replayed" => store = "stored" /\ (first => body.signed)

(* Somebody reads the file's bytes from the time the service has decided   *)
(* what to do with them, or the form would never end and the request,      *)
(* with its lease, would stay.                                             *)
BodyHasReader == file = "open" => Reader \/ service \in {"acquire", "prepare"}
=============================================================================
