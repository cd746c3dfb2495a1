--------------------------- MODULE UploadLifecycle ---------------------------
(***************************************************************************)
(* What the upload service promises about an upload, whoever carries it    *)
(* out: a session is open until it is accepted or cancelled, exactly one   *)
(* of the two happens, an accepted upload ends stored or failed, and only  *)
(* an accepted upload ever puts an object into R2.  No locks, leases,      *)
(* parts or workers: UploadSession implements this specification.          *)
(***************************************************************************)
EXTENDS Naturals, FiniteSets

CONSTANTS Uploads, SessionLimit

VARIABLES
  phase,    \* where the upload is
  ending,   \* how a cancelled upload will end
  told,     \* the verdicts its owner was given
  object    \* what R2 holds under its key

lifecycle == <<phase, ending, told, object>>

Init ==
  /\ phase = [u \in Uploads |-> "none"]
  /\ ending = [u \in Uploads |-> "none"]
  /\ told = [u \in Uploads |-> {}]
  /\ object = [u \in Uploads |-> "none"]

Open(u) ==
  /\ phase[u] = "none"
  /\ Cardinality({v \in Uploads : phase[v] \in {"open", "cancelling"}}) < SessionLimit
  /\ phase' = [phase EXCEPT ![u] = "open"]
  /\ UNCHANGED <<ending, told, object>>

Accept(u) ==
  /\ phase[u] = "open"
  /\ phase' = [phase EXCEPT ![u] = "accepted"]
  /\ told' = [told EXCEPT ![u] = {"accepted"}]
  /\ UNCHANGED <<ending, object>>

(* The owner is told, unless a deadline or a bad first part decided.       *)
Cancel(u) ==
  /\ phase[u] = "open"
  /\ phase' = [phase EXCEPT ![u] = "cancelling"]
  /\ \E end \in {"aborted", "expired", "failed"}, verdict \in {{}, {"cancelling"}, {"expired"}} :
       /\ verdict = {"expired"} => end = "expired"
       /\ verdict = {"cancelling"} => end # "failed"
       /\ end = "aborted" => verdict # {}
       /\ ending' = [ending EXCEPT ![u] = end]
       /\ told' = [told EXCEPT ![u] = verdict]
  /\ UNCHANGED object

Withdraw(u) ==
  /\ phase[u] = "cancelling"
  /\ phase' = [phase EXCEPT ![u] = ending[u]]
  /\ UNCHANGED <<ending, told, object>>

FailToOpen(u) ==
  /\ phase[u] = "open"
  /\ phase' = [phase EXCEPT ![u] = "failed"]
  /\ UNCHANGED <<ending, told, object>>

(* A call that was sent before the upload failed may still arrive.         *)
Deliver(u) ==
  /\ phase[u] \in {"accepted", "failed"} /\ "accepted" \in told[u]
  /\ object[u] = "none"
  /\ \E o \in {"match", "mismatch"} : object' = [object EXCEPT ![u] = o]
  /\ UNCHANGED <<phase, ending, told>>

Store(u) ==
  /\ phase[u] = "accepted"
  /\ object[u] = "match"
  /\ phase' = [phase EXCEPT ![u] = "completed"]
  /\ UNCHANGED <<ending, told, object>>

Fail(u) ==
  /\ phase[u] = "accepted"
  /\ phase' = [phase EXCEPT ![u] = "failed"]
  /\ UNCHANGED <<ending, told, object>>

Next ==
  \E u \in Uploads :
    \/ Open(u) \/ Accept(u) \/ Cancel(u) \/ Withdraw(u)
    \/ FailToOpen(u) \/ Deliver(u) \/ Store(u) \/ Fail(u)

Spec == Init /\ [][Next]_lifecycle
=============================================================================
