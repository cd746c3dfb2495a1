----------------------------- MODULE MCService -----------------------------
(* Instances for TLC of the modules about what the mini program and the     *)
(* service say to each other beside the parts themselves: the history page, *)
(* the sessions, the locks of the service's process and of its rows, and    *)
(* the form a part comes in.  They share no variable, so one run explores   *)
(* them side by side: a behaviour is that of one of them, the others        *)
(* staying where they begin.  The properties are those of the modules.      *)
EXTENDS HistoryView, AuthSessions, ServerProcess, PartForm, RowLocks

VARIABLE side

vars == <<side, historyVars, authVars, processVars, formVars, locksVars>>

(* One user, whose sessions descend from one log in.                       *)
OneAccount == [i \in SessionIds \union UploadIds |-> CHOOSE x \in Accounts : TRUE]
OneFamily == [s \in SessionIds |-> "family"]

(* What varies at the start is fixed for a module that stays there.        *)
Init ==
  /\ side \in {"history", "auth", "process", "form", "locks"}
  /\ HistoryInit /\ AuthInit /\ ProcessInit /\ FormInit /\ LocksInit
  /\ side # "history" => watch = 0
  /\ side # "form" => form = << >> /\ body.exact /\ body.signed /\ first /\ ~formError

Next ==
  \/ side = "history" /\ HistoryNext /\ UNCHANGED <<side, authVars, processVars, formVars, locksVars>>
  \/ side = "auth" /\ AuthNext /\ UNCHANGED <<side, historyVars, processVars, formVars, locksVars>>
  \/ side = "process" /\ ProcessNext /\ UNCHANGED <<side, historyVars, authVars, formVars, locksVars>>
  \/ side = "form" /\ FormNext /\ UNCHANGED <<side, historyVars, authVars, processVars, locksVars>>
  \/ side = "locks" /\ LocksNext /\ UNCHANGED <<side, historyVars, authVars, processVars, formVars>>

Spec == Init /\ [][Next]_vars

(* The variables of each module have their types.                          *)
TypeOK ==
  /\ side = "history" => HistoryTypeOK
  /\ side = "auth" => AuthTypeOK
  /\ side = "process" => ProcessTypeOK
  /\ side = "form" => FormTypeOK
  /\ side = "locks" => LocksTypeOK
=============================================================================
