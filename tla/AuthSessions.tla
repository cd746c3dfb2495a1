----------------------------- MODULE AuthSessions -----------------------------
(***************************************************************************)
(* Log in and token renewal: the session store of the mini program, which  *)
(* many requests share, against the user_sessions of the server.  A token  *)
(* is named after its session; sessions are numbered as they are made.     *)
(*                                                                         *)
(* Answers may be lost and the app may be killed: the server then works on *)
(* for a client that has forgotten the call.                               *)
(***************************************************************************)
EXTENDS Naturals, FiniteSets

CONSTANTS
  Requests,     \* concurrent authorized requests of the app
  Calls,        \* bound: calls of the server's auth routes under way
  MaxSessions,  \* bound: sessions the server makes
  MaxFaults,    \* bound: lost calls, lost answers and killed apps
  MaxEvents     \* bound: logouts, disabled users, expired sessions

Sessions == 1..MaxSessions
Token == 0..MaxSessions     \* 0 is none

(* What the constants must satisfy.                                        *)
ASSUME AuthAssumption ==
  /\ IsFiniteSet(Calls) /\ IsFiniteSet(Requests) /\ {"none", "login"} \intersect Calls = {}
  /\ MaxSessions \in Nat /\ MaxFaults \in Nat /\ MaxEvents \in Nat

VARIABLES
  row,       \* user_sessions by session: token_family_id, revoke_reason, reuse_detected_at
  made,      \* sessions made
  stale,     \* sessions whose access token has expired
  overdue,   \* sessions whose expires_at has passed
  account,   \* users' rows, whether the identity is mapped, whether it is active
  calls,     \* the auth routes' handlers
  current, stored,     \* #current and the apiSession of the storage
  refreshing,          \* call of #refreshPromise, "login" when it recovers, or "none"
  loggingIn,           \* call of #loginPromise, or "none"
  req,       \* authorized requests
  faults, events

db == <<row, made, stale, overdue, account>>
client == <<current, stored, refreshing, loggingIn, req>>
authVars == <<db, calls, client, faults, events>>

Spent == {"rotated", "refresh_reuse"}
Reasons == Spent \union {"none", "live", "logout", "expired", "user_disabled", "deleted"}
Answers == {"rotated", "invalid", "reused", "disabled", "session", "lost"}

NoRow == [family |-> 0, reason |-> "none", reused |-> FALSE]
Live(family) == [family |-> family, reason |-> "live", reused |-> FALSE]
NoCall == [kind |-> "none", token |-> 0, at |-> "none", seen |-> "none",
           answer |-> "lost", next |-> 0]
NoRequest == [at |-> "idle", token |-> 0]

AuthInit ==
  /\ row = [s \in Sessions |-> NoRow] /\ made = 0
  /\ stale = {} /\ overdue = {}
  /\ account = [users |-> 0, mapped |-> FALSE, active |-> TRUE]
  /\ calls = [c \in Calls |-> NoCall]
  /\ current = 0 /\ stored = 0 /\ refreshing = "none" /\ loggingIn = "none"
  /\ req = [r \in Requests |-> NoRequest]
  /\ faults = 0 /\ events = 0

AuthTypeOK ==
  /\ row \in [Sessions -> [family : Token, reason : Reasons, reused : BOOLEAN]]
  /\ made \in 0..MaxSessions /\ stale \subseteq Sessions /\ overdue \subseteq Sessions
  /\ account \in [users : Nat, mapped : BOOLEAN, active : BOOLEAN]
  /\ calls \in [Calls -> [kind : {"none", "login", "refresh"}, token : Token,
                          at : {"none", "sent", "unmapped", "locked", "answered"},
                          seen : Reasons, answer : Answers, next : Token]]
  /\ current \in Token /\ stored \in Token
  /\ refreshing \in Calls \union {"none", "login"} /\ loggingIn \in Calls \union {"none"}
  /\ req \in [Requests -> [at : {"idle", "login", "sent", "refresh", "relogin", "resent"},
                           token : Token]]
  /\ faults \in 0..MaxFaults /\ events \in 0..MaxEvents

-----------------------------------------------------------------------------
(* The server.                                                             *)

family(s) == {q \in Sessions : row[q].family = row[s].family}
Holds(c, s) == calls[c].at = "locked" /\ calls[c].token = s

Answer(c, kind, next) ==
  calls' = [calls EXCEPT ![c].at = "answered", ![c].answer = kind, ![c].next = next]

NewSession(f) ==
  /\ made < MaxSessions /\ made' = made + 1
  /\ row' = [row EXCEPT ![made + 1] = Live(IF f = 0 THEN made + 1 ELSE f)]

(* loginWithIdentity; the first login of an identity makes its user.       *)
LoginLooks(c) ==
  /\ calls[c].kind = "login" /\ calls[c].at = "sent" /\ ~account.mapped
  /\ calls' = [calls EXCEPT ![c].at = "unmapped"]
  /\ UNCHANGED <<db, client, faults, events>>

(* A user that was made for an identity mapped meanwhile is undone.        *)
Users_NotUndone(c) == account.users + (IF calls[c].at = "unmapped" THEN 1 ELSE 0)   \* mutant
Users(c) == account.users + (IF account.mapped THEN 0 ELSE 1)

LoginSettles(c) ==
  /\ calls[c].kind = "login"
  /\ \/ calls[c].at = "sent" /\ account.mapped
     \/ calls[c].at = "unmapped"
  /\ IF account.active
     THEN /\ NewSession(0) /\ Answer(c, "session", made + 1)
          /\ account' = [account EXCEPT !.mapped = TRUE, !.users = Users(c)]
     ELSE Answer(c, "disabled", 0) /\ UNCHANGED <<row, made, account>>
  /\ UNCHANGED <<stale, overdue, client, faults, events>>

(* rotateRefresh: the family is read, locked, and the row read again.      *)
FamilyFree_Always(c) == TRUE   \* mutant: the family's rows are not locked
FamilyFree(c) ==
  \A d \in Calls \ {c} : \A s \in Sessions :
    Holds(d, s) => row[s].family # row[calls[c].token].family

RotateLocks(c) ==
  /\ calls[c].kind = "refresh" /\ calls[c].at = "sent" /\ FamilyFree(c)
  /\ calls' = [calls EXCEPT ![c].at = "locked", ![c].seen = row[calls[c].token].reason]
  /\ UNCHANGED <<db, client, faults, events>>

Revoke(S, reason) ==
  [s \in Sessions |-> IF s \in S /\ row[s].reason = "live"
                      THEN [row[s] EXCEPT !.reason = reason] ELSE row[s]]

rotateRefresh(c) ==
  LET s == calls[c].token
      seen == calls[c].seen
  IN
  /\ calls[c].at = "locked"
  /\ CASE seen \in Spent ->
            /\ row' = [q \in Sessions |->
                         [Revoke(family(s), "refresh_reuse")[q] EXCEPT !.reused = @ \/ q \in family(s)]]
            /\ Answer(c, "reused", 0) /\ UNCHANGED made
       [] seen # "live" /\ seen \notin Spent ->
            Answer(c, "invalid", 0) /\ UNCHANGED <<row, made>>
       [] seen = "live" /\ s \in overdue ->
            row' = Revoke({s}, "expired") /\ Answer(c, "invalid", 0) /\ UNCHANGED made
       [] seen = "live" /\ s \notin overdue /\ ~account.active ->
            row' = Revoke(family(s), "user_disabled") /\ Answer(c, "disabled", 0) /\ UNCHANGED made
       [] OTHER ->
            /\ made < MaxSessions /\ made' = made + 1
            /\ row' = [Revoke({s}, "rotated") EXCEPT ![made + 1] = Live(row[s].family)]
            /\ Answer(c, "rotated", made + 1)
  /\ UNCHANGED <<stale, overdue, account, client, faults, events>>

Unlocked(s) == \A c \in Calls : ~Holds(c, s)

logout(s) ==
  /\ row[s].reason = "live" /\ Unlocked(s)
  /\ events < MaxEvents /\ events' = events + 1
  /\ row' = Revoke({s}, "logout")
  /\ UNCHANGED <<made, stale, overdue, account, calls, client, faults>>

(* Access tokens live for minutes, sessions for days; a locked row was     *)
(* read at the time of its transaction.                                    *)
TimePasses(s) ==
  /\ s <= made
  /\ \/ s \notin stale /\ stale' = stale \union {s} /\ UNCHANGED <<overdue, events>>
     \/ /\ s \in stale \ overdue /\ Unlocked(s)
        /\ events < MaxEvents /\ events' = events + 1
        /\ overdue' = overdue \union {s} /\ UNCHANGED stale
  /\ UNCHANGED <<row, made, account, calls, client, faults>>

UserDisabled ==
  /\ account.active /\ \A s \in Sessions : Unlocked(s)
  /\ events < MaxEvents /\ events' = events + 1
  /\ account' = [account EXCEPT !.active = FALSE]
  /\ UNCHANGED <<row, made, stale, overdue, calls, client, faults>>

(* RetentionCleaner, long after a session was revoked or expired.          *)
deleteUserSessions(s) ==
  /\ row[s].reason \notin {"none", "live", "deleted"} \/ (s \in overdue /\ row[s].reason # "deleted")
  /\ Unlocked(s) /\ events < MaxEvents /\ events' = events + 1
  /\ row' = [row EXCEPT ![s].reason = "deleted", ![s].reused = FALSE]
  /\ UNCHANGED <<made, stale, overdue, account, calls, client, faults>>

-----------------------------------------------------------------------------
(* The session store and the requests that share it.                       *)

Free(c) == calls[c].at = "none"
Start(c, kind, token) ==
  calls' = [calls EXCEPT ![c] = [NoCall EXCEPT !.kind = kind, !.token = token, !.at = "sent"]]
Forget(C) == [c \in Calls |-> IF c \in C /\ calls[c].at = "answered" THEN NoCall ELSE calls[c]]
Waiting(places) == {r \in Requests : req[r].at \in places}
Resume(R, at, token) == [r \in Requests |-> IF r \in R THEN [at |-> at, token |-> token] ELSE req[r]]

freshLoginOnce ==
  IF loggingIn # "none" THEN UNCHANGED <<calls, loggingIn>>
  ELSE \E c \in Calls : Free(c) /\ Start(c, "login", 0) /\ loggingIn' = c

ensureSession(r) ==
  /\ req[r].at = "idle"
  /\ IF current # 0
     THEN req' = Resume({r}, "sent", current) /\ UNCHANGED <<calls, loggingIn>>
     ELSE req' = Resume({r}, "login", 0) /\ freshLoginOnce
  /\ UNCHANGED <<db, current, stored, refreshing, faults, events>>

RequestAnswered(r) ==
  /\ req[r].at = "resent" \/ (req[r].at = "sent" /\ req[r].token \notin stale)
  /\ req' = Resume({r}, "idle", 0)
  /\ UNCHANGED <<db, calls, current, stored, refreshing, loggingIn, faults, events>>

refreshOnce_Alone(r) ==   \* mutant: a refresh under way is not joined
  /\ req[r].at = "sent" /\ req[r].token \in stale /\ current # 0
  /\ \E c \in Calls : Free(c) /\ Start(c, "refresh", current) /\ refreshing' = c
  /\ req' = Resume({r}, "refresh", 0)
  /\ UNCHANGED <<db, current, stored, loggingIn, faults, events>>
refreshOnce(r) ==
  /\ req[r].at = "sent" /\ req[r].token \in stale
  /\ CASE current = 0 ->
            req' = Resume({r}, "relogin", 0) /\ freshLoginOnce /\ UNCHANGED refreshing
       [] current \notin {0, req[r].token} ->
            req' = Resume({r}, "resent", current) /\ UNCHANGED <<calls, refreshing, loggingIn>>
       [] current = req[r].token /\ refreshing # "none" ->
            req' = Resume({r}, "refresh", 0) /\ UNCHANGED <<calls, refreshing, loggingIn>>
       [] OTHER ->
            /\ \E c \in Calls : Free(c) /\ Start(c, "refresh", current) /\ refreshing' = c
            /\ req' = Resume({r}, "refresh", 0) /\ UNCHANGED loggingIn
  /\ UNCHANGED <<db, current, stored, faults, events>>

save(token) == current' = token /\ stored' = token
clearSession == save(0)

Rotated(c) ==
  /\ refreshing = c /\ calls[c].at = "answered" /\ calls[c].answer = "rotated"
  /\ save(calls[c].next) /\ refreshing' = "none"
  /\ req' = Resume(Waiting({"refresh"}), "resent", calls[c].next)
  /\ calls' = Forget({c})
  /\ UNCHANGED <<db, loggingIn, faults, events>>

(* rotateOrRecover logs in again when the server refuses the token, and    *)
(* also when there is no answer at all.                                    *)
Recover(c) ==
  /\ refreshing = c
  /\ \/ /\ calls[c].at = "answered" /\ calls[c].answer \in {"invalid", "reused"}
        /\ UNCHANGED faults
     \/ faults < MaxFaults /\ faults' = faults + 1
  /\ clearSession /\ refreshing' = "login"
  /\ loggingIn = "none"
  /\ \E d \in Calls \ {c} : /\ Free(d) /\ loggingIn' = d
                            /\ calls' = [Forget({c}) EXCEPT ![d] = [NoCall EXCEPT !.kind = "login", !.at = "sent"]]
  /\ UNCHANGED <<db, req, events>>

(* An error envelope of the server ends the waiting requests.              *)
RefreshFails(c) ==
  /\ refreshing = c
  /\ \/ calls[c].at = "answered" /\ calls[c].answer = "disabled" /\ clearSession /\ UNCHANGED faults
     \/ faults < MaxFaults /\ faults' = faults + 1 /\ UNCHANGED <<current, stored>>
  /\ refreshing' = "none" /\ calls' = Forget({c})
  /\ req' = Resume(Waiting({"refresh"}), "idle", 0)
  /\ UNCHANGED <<db, loggingIn, events>>

LoginWaiters == Waiting({"login", "relogin"} \union (IF refreshing = "login" THEN {"refresh"} ELSE {}))

LoggedIn(c) ==
  /\ loggingIn = c /\ calls[c].at = "answered" /\ calls[c].answer = "session"
  /\ save(calls[c].next) /\ loggingIn' = "none"
  /\ refreshing' = IF refreshing = "login" THEN "none" ELSE refreshing
  /\ req' = [r \in Requests |->
               IF r \notin LoginWaiters THEN req[r]
               ELSE [at |-> IF req[r].at = "login" THEN "sent" ELSE "resent", token |-> calls[c].next]]
  /\ calls' = Forget({c})
  /\ UNCHANGED <<db, faults, events>>

LoginFails(c) ==
  /\ loggingIn = c
  /\ \/ calls[c].at = "answered" /\ calls[c].answer = "disabled" /\ UNCHANGED faults
     \/ faults < MaxFaults /\ faults' = faults + 1
  /\ loggingIn' = "none"
  /\ refreshing' = IF refreshing = "login" THEN "none" ELSE refreshing
  /\ req' = Resume(LoginWaiters, "idle", 0)
  /\ calls' = Forget({c})
  /\ UNCHANGED <<db, current, stored, events>>

(* The answer of a call nobody waits for.                                  *)
AnswerDropped(c) ==
  /\ calls[c].at = "answered" /\ c \notin {refreshing, loggingIn}
  /\ calls' = Forget({c})
  /\ UNCHANGED <<db, client, faults, events>>

AppKilled ==
  /\ faults < MaxFaults /\ faults' = faults + 1
  /\ current' = stored /\ refreshing' = "none" /\ loggingIn' = "none"
  /\ req' = [r \in Requests |-> NoRequest]
  /\ UNCHANGED <<db, calls, stored, events>>

-----------------------------------------------------------------------------
AuthNext ==
  \/ UserDisabled \/ AppKilled
  \/ \E s \in Sessions : logout(s) \/ TimePasses(s) \/ deleteUserSessions(s)
  \/ \E r \in Requests : ensureSession(r) \/ RequestAnswered(r) \/ refreshOnce(r)
  \/ \E c \in Calls :
       \/ LoginLooks(c) \/ LoginSettles(c) \/ RotateLocks(c) \/ rotateRefresh(c)
       \/ Rotated(c) \/ Recover(c) \/ RefreshFails(c) \/ LoggedIn(c) \/ LoginFails(c)
       \/ AnswerDropped(c)

AuthSpec == AuthInit /\ [][AuthNext]_authVars

-----------------------------------------------------------------------------
(* At most one token of a family can be used, and none once one of them    *)
(* was used twice, however rotations of old and new tokens overlap.        *)
FamilyHasOneHead ==
  \A s \in Sessions :
    row[s].reason = "live" => \A q \in family(s) \ {s} : row[q].reason # "live" /\ ~row[q].reused

(* Without a lost answer or a killed app, requests that find their token   *)
(* expired together never use a token twice, and outside a renewal the app *)
(* never holds a token it has spent.                                       *)
TokenSpentOnce ==
  faults = 0 =>
    /\ \A s \in Sessions : row[s].reason # "refresh_reuse" /\ ~row[s].reused
    /\ current # 0 /\ refreshing = "none" => row[current].reason \notin Spent

(* First logins that overlap make one user.                                *)
OneUserPerIdentity == account.users = IF account.mapped THEN 1 ELSE 0
=============================================================================
