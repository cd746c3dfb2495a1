-------------------------- MODULE AuthSessionsProofs --------------------------
(***************************************************************************)
(* Theorems about AuthSessions for every number of requests, calls,        *)
(* sessions, faults and events.                                            *)
(***************************************************************************)
EXTENDS AuthSessions, TLAPS

CallRows == [kind : {"none", "login", "refresh"}, token : Token,
             at : {"none", "sent", "unmapped", "locked", "answered"},
             seen : Reasons, answer : Answers, next : Token]

(* Sessions are numbered as they are made, and nobody has the token of one *)
(* that is not made.                                                       *)
RowsInv ==
  /\ \A s \in Sessions : s > made => row[s] = NoRow
  /\ \A s \in Sessions : s <= made => row[s].family \in 1..made
  /\ \A s \in overdue : s <= made
  /\ current <= made /\ stored <= made
  /\ \A c \in Calls : calls[c].token <= made /\ calls[c].next <= made

(* A transaction that has locked a family is alone with it: what it has    *)
(* read of its row is still so.                                            *)
LocksInv ==
  /\ \A c \in Calls : calls[c].kind = "refresh" /\ calls[c].at = "sent" => calls[c].token # 0
  /\ \A c \in Calls : calls[c].at = "locked" =>
       /\ calls[c].kind = "refresh" /\ calls[c].token # 0
       /\ calls[c].seen = row[calls[c].token].reason
  /\ \A c, d \in Calls : calls[c].at = "locked" /\ calls[d].at = "locked" /\ c # d =>
       row[calls[c].token].family # row[calls[d].token].family

(* The live session of a family is its only one, and no token of the       *)
(* family was used twice.                                                  *)
HeadInv ==
  \A s \in Sessions : row[s].reason = "live" =>
    \A q \in family(s) : ~row[q].reused /\ (row[q].reason = "live" => q = s)

(* As long as nothing is lost: the client knows every call under way, it   *)
(* never renews and logs in together, and no token that waits to be used   *)
(* is spent.                                                               *)
ClientInv ==
  faults = 0 =>
    /\ \A s \in Sessions : row[s].reason # "refresh_reuse" /\ ~row[s].reused
    /\ \A c \in Calls : calls[c].at # "none" =>
         \/ calls[c].kind = "refresh" /\ refreshing = c
         \/ calls[c].kind = "login" /\ loggingIn = c
    /\ refreshing \in Calls =>
         /\ calls[refreshing].token = current /\ current # 0 /\ loggingIn = "none"
    /\ loggingIn # "none" => current = 0
    /\ \A c \in Calls : calls[c].kind = "refresh" /\ calls[c].at \in {"sent", "locked"} =>
         row[calls[c].token].reason \notin Spent
    /\ \A c \in Calls : calls[c].at = "answered" /\ calls[c].answer \in {"rotated", "session"} =>
         calls[c].next # 0 /\ row[calls[c].next].reason \notin Spent
    /\ current # 0 /\ refreshing = "none" => row[current].reason \notin Spent

SessionsInv == AuthTypeOK /\ RowsInv /\ LocksInv /\ HeadInv /\ OneUserPerIdentity /\ ClientInv

-----------------------------------------------------------------------------
RowRows == [family : Token, reason : Reasons, reused : BOOLEAN]
RequestRows == [at : {"idle", "login", "sent", "refresh", "relogin", "resent"}, token : Token]

LEMMA Numbers ==
   /\ MaxSessions \in Nat /\ Sessions = 1..MaxSessions /\ Token = 0..MaxSessions /\ 0 \in Token
         /\ Sessions \subseteq Token /\ "none" \notin Calls /\ "login" \notin Calls
BY AuthAssumption DEF Sessions, Token

LEMMA NoCallRow ==
   /\ NoCall \in CallRows /\ NoCall.at = "none" /\ NoCall.token = 0 /\ NoCall.next = 0
         /\ NoCall.kind = "none"
BY Numbers DEF NoCall, CallRows, Answers, Reasons

LEMMA Typed ==
  ASSUME AuthTypeOK
  PROVE  /\ row \in [Sessions -> RowRows] /\ calls \in [Calls -> CallRows]
         /\ req \in [Requests -> RequestRows]
BY DEF AuthTypeOK, RowRows, CallRows, RequestRows

LEMMA Begins == AuthInit => SessionsInv
<1> SUFFICES ASSUME AuthInit PROVE SessionsInv
  OBVIOUS
<1>1. /\ NoRow \in RowRows /\ NoRow.reason = "none" /\ ~NoRow.reused
      /\ NoRequest \in RequestRows
  BY Numbers DEF NoRow, RowRows, Reasons, NoRequest, RequestRows
<1>2. calls \in [Calls -> CallRows] /\ \A c \in Calls : calls[c] = NoCall
  BY NoCallRow DEF AuthInit
<1>3. AuthTypeOK
  <2>1. row \in [Sessions -> RowRows] /\ req \in [Requests -> RequestRows]
    BY <1>1 DEF AuthInit
  <2>2. account \in [users : Nat, mapped : BOOLEAN, active : BOOLEAN]
    BY DEF AuthInit
  <2> QED BY AuthAssumption, <1>2, <2>1, <2>2, Numbers
          DEF AuthInit, AuthTypeOK, RowRows, CallRows, RequestRows
<1>4. RowsInv
  BY <1>2, Numbers, NoCallRow DEF AuthInit, RowsInv
<1>5. LocksInv
  BY <1>2, NoCallRow DEF LocksInv
<1>6. HeadInv /\ OneUserPerIdentity
  BY <1>1 DEF AuthInit, HeadInv, OneUserPerIdentity
<1>7. ClientInv
  BY <1>1, <1>2, NoCallRow, Numbers DEF AuthInit, ClientInv
<1> QED BY <1>3, <1>4, <1>5, <1>6, <1>7 DEF SessionsInv

-----------------------------------------------------------------------------
(* What the client does to its calls.                                      *)

(* A call is as it was, over, or new.                                      *)
CallStep(c) ==
  \/ calls'[c] = calls[c] \/ calls'[c] = NoCall
  \/ /\ calls'[c].at = "sent" /\ calls'[c].token <= made /\ calls'[c].next = 0
     /\ calls'[c].kind = "refresh" => calls'[c].token # 0

LEMMA ClientOnly ==
  ASSUME SessionsInv, UNCHANGED db, calls' \in [Calls -> CallRows],
         \A c \in Calls : CallStep(c), current' <= made, stored' <= made
  PROVE  RowsInv' /\ LocksInv' /\ HeadInv' /\ OneUserPerIdentity'
<1>1. UNCHANGED <<row, made, account, overdue>> /\ made \in Nat
  BY Numbers DEF db, SessionsInv, AuthTypeOK
<1>2. RowsInv'
  BY <1>1, NoCallRow DEF SessionsInv, RowsInv, CallStep
<1>3. LocksInv'
  BY <1>1, NoCallRow DEF SessionsInv, LocksInv, CallStep
<1>4. HeadInv' /\ OneUserPerIdentity'
  BY <1>1 DEF SessionsInv, HeadInv, OneUserPerIdentity, family
<1> QED BY <1>2, <1>3, <1>4

LEMMA Starts ==
  ASSUME SessionsInv, NEW c \in Calls, NEW kind \in {"login", "refresh"},
         NEW token \in Token, token <= made, kind = "refresh" => token # 0, Start(c, kind, token)
  PROVE  /\ calls' \in [Calls -> CallRows] /\ \A d \in Calls : CallStep(d)
         /\ \A d \in Calls \ {c} : calls'[d] = calls[d]
         /\ calls'[c].kind = kind /\ calls'[c].token = token /\ calls'[c].at = "sent"
<1> DEFINE k == [NoCall EXCEPT !.kind = kind, !.token = token, !.at = "sent"]
<1>1. /\ k \in CallRows /\ k.kind = kind /\ k.token = token /\ k.at = "sent" /\ k.next = 0
  BY Numbers DEF NoCall, CallRows, Answers, Reasons
<1>2. calls' = [calls EXCEPT ![c] = k]
  BY DEF Start
<1>3. calls \in [Calls -> CallRows]
  BY Typed DEF SessionsInv
<1> HIDE DEF k
<1> QED BY <1>1, <1>2, <1>3 DEF CallStep

LEMMA Forgets ==
  ASSUME SessionsInv, NEW C
  PROVE  /\ Forget(C) \in [Calls -> CallRows]
         /\ \A d \in Calls : Forget(C)[d] = calls[d] \/ (Forget(C)[d] = NoCall /\ d \in C)
BY Typed, NoCallRow DEF Forget, SessionsInv

LEMMA Resumes ==
  ASSUME AuthTypeOK, NEW R, NEW at \in {"idle", "login", "sent", "refresh", "relogin", "resent"},
         NEW token \in Token
  PROVE  Resume(R, at, token) \in [Requests -> RequestRows]
BY Typed DEF Resume, RequestRows

(* The login that a request waits for: the one under way, or a new one.    *)
LEMMA LoginJoined ==
  ASSUME SessionsInv, current = 0, freshLoginOnce,
         UNCHANGED <<db, current, stored, refreshing, faults>>
  PROVE  /\ calls' \in [Calls -> CallRows] /\ \A c \in Calls : CallStep(c)
         /\ loggingIn' \in Calls \union {"none"} /\ ClientInv'
<1>1. UNCHANGED row /\ loggingIn \in Calls \union {"none"} /\ calls \in [Calls -> CallRows]
      /\ ClientInv
  BY Typed DEF db, SessionsInv, AuthTypeOK
<1>2. CASE UNCHANGED <<calls, loggingIn>>
  BY <1>1, <1>2 DEF CallStep, ClientInv
<1>3. ASSUME NEW c \in Calls, Free(c), Start(c, "login", 0), loggingIn' = c, loggingIn = "none"
      PROVE  /\ calls' \in [Calls -> CallRows] /\ \A d \in Calls : CallStep(d)
             /\ loggingIn' \in Calls \union {"none"} /\ ClientInv'
  <2>1. 0 \in Token /\ 0 <= made
    BY Numbers DEF SessionsInv, AuthTypeOK
  <2>2. /\ calls' \in [Calls -> CallRows] /\ \A d \in Calls : CallStep(d)
        /\ \A d \in Calls \ {c} : calls'[d] = calls[d]
        /\ calls'[c].kind = "login" /\ calls'[c].token = 0 /\ calls'[c].at = "sent"
    BY <1>3, <2>1, Starts
  <2>3. ClientInv'
    <3> SUFFICES ASSUME faults' = 0 PROVE ClientInv'
      BY DEF ClientInv
    <3>1. faults = 0 /\ refreshing \notin Calls /\ UNCHANGED <<refreshing, current>>
      BY <1>1 DEF ClientInv
    <3>2. \A d \in Calls \ {c} : calls[d].at = "none"
      BY <1>1, <1>3, <3>1, Numbers DEF ClientInv
    <3> QED BY <1>1, <1>3, <2>2, <3>1, <3>2 DEF ClientInv
  <2> QED BY <1>3, <2>2, <2>3
<1> QED BY <1>2, <1>3 DEF freshLoginOnce

LEMMA EnsureKeeps ==
  ASSUME SessionsInv, NEW r \in Requests, ensureSession(r)
  PROVE  SessionsInv'
<1>1. UNCHANGED <<db, current, stored, refreshing, faults, events>>
  BY DEF ensureSession
<1>2. current \in Token /\ stored \in Token /\ current <= made /\ stored <= made /\ AuthTypeOK /\ ClientInv
  BY DEF SessionsInv, AuthTypeOK, RowsInv
<1>3. /\ calls' \in [Calls -> CallRows] /\ \A c \in Calls : CallStep(c)
      /\ loggingIn' \in Calls \union {"none"} /\ ClientInv' /\ req' \in [Requests -> RequestRows]
  <2>1. CASE current # 0
    <3>1. UNCHANGED <<calls, loggingIn>> /\ req' = Resume({r}, "sent", current)
      BY <2>1 DEF ensureSession
    <3>2. ClientInv'
      BY <1>1, <1>2, <3>1 DEF ClientInv, db
    <3> QED BY <1>2, <3>1, <3>2, Resumes, Typed DEF CallStep, AuthTypeOK
  <2>2. CASE current = 0
    <3>1. freshLoginOnce /\ req' = Resume({r}, "login", 0)
      BY <2>2 DEF ensureSession
    <3> QED BY <1>1, <1>2, <2>2, <3>1, LoginJoined, Resumes, Numbers
  <2> QED BY <2>1, <2>2
<1>4. AuthTypeOK'
  BY <1>1, <1>2, <1>3 DEF AuthTypeOK, CallRows, RequestRows, db
<1> QED BY <1>1, <1>2, <1>3, <1>4, ClientOnly DEF SessionsInv

LEMMA RefreshKeeps ==
  ASSUME SessionsInv, NEW r \in Requests, refreshOnce(r)
  PROVE  SessionsInv'
<1>1. UNCHANGED <<db, current, stored, faults, events>>
  BY DEF refreshOnce
<1>2. /\ current \in Token /\ stored \in Token /\ current <= made /\ stored <= made
      /\ AuthTypeOK /\ ClientInv /\ refreshing \in Calls \union {"none", "login"}
      /\ loggingIn \in Calls \union {"none"} /\ req[r].token \in Token
  BY Typed DEF SessionsInv, AuthTypeOK, RowsInv, RequestRows
<1>3. req[r].token # 0
  BY Numbers DEF refreshOnce, SessionsInv, AuthTypeOK
<1>4. /\ calls' \in [Calls -> CallRows] /\ \A c \in Calls : CallStep(c)
      /\ loggingIn' \in Calls \union {"none"} /\ refreshing' \in Calls \union {"none", "login"}
      /\ ClientInv' /\ req' \in [Requests -> RequestRows]
  <2>1. CASE current = 0
    <3>1. freshLoginOnce /\ req' = Resume({r}, "relogin", 0) /\ UNCHANGED refreshing
      BY <1>3, <2>1 DEF refreshOnce
    <3> QED BY <1>1, <1>2, <2>1, <3>1, LoginJoined, Resumes, Numbers
  <2>2. CASE UNCHANGED <<calls, refreshing, loggingIn>>
             /\ (req' = Resume({r}, "resent", current) \/ req' = Resume({r}, "refresh", 0))
    <3>1. ClientInv'
      BY <1>1, <1>2, <2>2 DEF ClientInv, db
    <3>2. req' \in [Requests -> RequestRows]
      <4>1. /\ Resume({r}, "resent", current) \in [Requests -> RequestRows]
            /\ Resume({r}, "refresh", 0) \in [Requests -> RequestRows]
        BY <1>2, Resumes, Numbers
      <4> QED BY <2>2, <4>1
    <3>3. calls' \in [Calls -> CallRows] /\ \A c \in Calls : CallStep(c)
      BY <1>2, <2>2, Typed DEF CallStep
    <3> QED BY <1>2, <2>2, <3>1, <3>2, <3>3
  <2>3. ASSUME NEW c \in Calls, current # 0, refreshing = "none", Free(c),
               Start(c, "refresh", current), refreshing' = c, UNCHANGED loggingIn,
               req' = Resume({r}, "refresh", 0)
        PROVE  <1>4!1 /\ <1>4!2 /\ <1>4!3
    <3>1. /\ calls' \in [Calls -> CallRows] /\ \A d \in Calls : CallStep(d)
          /\ \A d \in Calls \ {c} : calls'[d] = calls[d]
          /\ calls'[c].kind = "refresh" /\ calls'[c].token = current /\ calls'[c].at = "sent"
      BY <1>2, <2>3, Starts
    <3>2. ClientInv'
      BY <1>1, <1>2, <2>3, <3>1, Numbers DEF ClientInv, db
    <3> QED BY <1>2, <2>3, <3>1, <3>2, Resumes, Numbers
  <2>4. CASE current # 0
    <3>1. \/ current \notin {0, req[r].token}
          \/ current = req[r].token /\ refreshing # "none"
          \/ current = req[r].token /\ refreshing = "none"
      BY <2>4
    <3> QED BY <1>3, <2>2, <2>3, <2>4, <3>1 DEF refreshOnce
  <2> QED BY <2>1, <2>4
<1>5. AuthTypeOK'
  BY <1>1, <1>2, <1>4 DEF AuthTypeOK, CallRows, RequestRows, db
<1> QED BY <1>1, <1>2, <1>4, <1>5, ClientOnly DEF SessionsInv

(* The client takes an answer, or gives up.                                *)
LEMMA ClientKeeps ==
  ASSUME SessionsInv, UNCHANGED db, calls' \in [Calls -> CallRows],
         \A c \in Calls : CallStep(c), current' \in Token, stored' \in Token,
         current' <= made, stored' <= made,
         refreshing' \in Calls \union {"none", "login"}, loggingIn' \in Calls \union {"none"},
         req' \in [Requests -> RequestRows], faults' \in 0..MaxFaults, events' \in 0..MaxEvents,
         ClientInv'
  PROVE  SessionsInv'
<1>1. AuthTypeOK'
  BY DEF SessionsInv, AuthTypeOK, CallRows, RequestRows, db
<1> QED BY <1>1, ClientOnly DEF SessionsInv

LEMMA Bounded ==
  ASSUME SessionsInv
  PROVE  /\ current \in Token /\ stored \in Token /\ current <= made /\ stored <= made
         /\ 0 \in Token /\ 0 <= made /\ made \in Nat
         /\ refreshing \in Calls \union {"none", "login"} /\ loggingIn \in Calls \union {"none"}
         /\ faults \in 0..MaxFaults /\ events \in 0..MaxEvents /\ faults \in Nat
         /\ \A c \in Calls : /\ calls[c] \in CallRows
                             /\ calls[c].next \in Token /\ calls[c].next <= made
         /\ req \in [Requests -> RequestRows]
BY AuthAssumption, Numbers, Typed DEF SessionsInv, AuthTypeOK, RowsInv, CallRows

LEMMA RotatedKeeps ==
  ASSUME SessionsInv, NEW c \in Calls, Rotated(c)
  PROVE  SessionsInv'
<1>1. /\ refreshing = c /\ calls[c].at = "answered" /\ calls[c].answer = "rotated"
      /\ current' = calls[c].next /\ stored' = calls[c].next /\ refreshing' = "none"
      /\ req' = Resume(Waiting({"refresh"}), "resent", calls[c].next)
      /\ calls' = Forget({c}) /\ UNCHANGED <<db, loggingIn, faults, events>>
  BY DEF Rotated, save
<1>2. /\ calls' \in [Calls -> CallRows] /\ \A d \in Calls : CallStep(d)
      /\ \A d \in Calls : calls'[d] = calls[d] \/ calls'[d] = NoCall
  BY <1>1, Forgets DEF CallStep
<1>3. req' \in [Requests -> RequestRows]
  BY <1>1, Bounded, Resumes DEF SessionsInv
<1>4. calls'[c] = NoCall
  BY <1>1 DEF Forget
<1>5. ClientInv'
  <2> SUFFICES ASSUME faults' = 0 PROVE ClientInv'
    BY DEF ClientInv
  <2>1. faults = 0 /\ UNCHANGED row
    BY <1>1 DEF db
  <2>2. loggingIn = "none" /\ calls[c].next # 0 /\ row[calls[c].next].reason \notin Spent
    BY <1>1, <2>1 DEF SessionsInv, ClientInv
  <2>3. \A d \in Calls : calls'[d].at = "none"
    BY <1>1, <1>2, <1>4, <2>1, <2>2, Numbers, NoCallRow DEF SessionsInv, ClientInv
  <2> QED BY <1>1, <1>2, <2>1, <2>2, <2>3, Numbers DEF SessionsInv, ClientInv
<1> QED BY <1>1, <1>2, <1>3, <1>5, Bounded, ClientKeeps

LEMMA RecoverKeeps ==
  ASSUME SessionsInv, NEW c \in Calls, Recover(c)
  PROVE  SessionsInv'
<1>1. /\ refreshing = c /\ refreshing' = "login" /\ loggingIn = "none"
      /\ current' = 0 /\ stored' = 0 /\ UNCHANGED <<db, req, events>>
      /\ UNCHANGED faults \/ (faults < MaxFaults /\ faults' = faults + 1)
      /\ UNCHANGED faults => calls[c].at = "answered"
  BY Bounded DEF Recover, clearSession, save
<1>2. PICK d \in Calls \ {c} :
        /\ Free(d) /\ loggingIn' = d
        /\ calls' = [Forget({c}) EXCEPT ![d] = [NoCall EXCEPT !.kind = "login", !.at = "sent"]]
  BY DEF Recover
<1> DEFINE k == [NoCall EXCEPT !.kind = "login", !.at = "sent"]
<1>3. k \in CallRows /\ k.at = "sent" /\ k.kind = "login" /\ k.token = 0 /\ k.next = 0
  BY Numbers DEF NoCall, CallRows, Answers, Reasons
<1> HIDE DEF k
<1>4. /\ Forget({c}) \in [Calls -> CallRows]
      /\ \A e \in Calls : Forget({c})[e] = calls[e] \/ (Forget({c})[e] = NoCall /\ e \in {c})
  BY Forgets
<1>5. /\ calls' \in [Calls -> CallRows] /\ calls'[d] = k
      /\ \A e \in Calls \ {d} : calls'[e] = Forget({c})[e]
  BY <1>2, <1>3, <1>4 DEF k
<1>6. \A e \in Calls : CallStep(e)
  BY <1>3, <1>4, <1>5, Bounded DEF CallStep
<1>7. faults' \in 0..MaxFaults
  BY AuthAssumption, <1>1, Bounded
<1>8. ClientInv'
  <2> SUFFICES ASSUME faults' = 0 PROVE ClientInv'
    BY DEF ClientInv
  <2>1. faults = 0 /\ UNCHANGED <<row, faults>> /\ calls[c].at = "answered"
    BY <1>1, Bounded DEF db
  <2>2. calls'[c] = NoCall
    BY <1>5, <2>1 DEF Forget
  <2>3. \A e \in Calls \ {c} : calls[e].at = "none"
    BY <1>1, <2>1, Numbers DEF SessionsInv, ClientInv
  <2>4. \A e \in Calls \ {d} : calls'[e].at = "none"
    BY <1>4, <1>5, <2>2, <2>3, NoCallRow
  <2> QED BY <1>1, <1>2, <1>3, <1>5, <2>1, <2>4, Numbers DEF SessionsInv, ClientInv
<1> QED BY <1>1, <1>2, <1>5, <1>6, <1>7, <1>8, Bounded, ClientKeeps

LEMMA RefreshFailsKeeps ==
  ASSUME SessionsInv, NEW c \in Calls, RefreshFails(c)
  PROVE  SessionsInv'
<1>1. /\ refreshing = c /\ refreshing' = "none" /\ calls' = Forget({c})
      /\ req' = Resume(Waiting({"refresh"}), "idle", 0) /\ UNCHANGED <<db, loggingIn, events>>
      /\ \/ calls[c].at = "answered" /\ current' = 0 /\ stored' = 0 /\ UNCHANGED faults
         \/ faults < MaxFaults /\ faults' = faults + 1 /\ UNCHANGED <<current, stored>>
  BY DEF RefreshFails, clearSession, save
<1>2. /\ calls' \in [Calls -> CallRows] /\ \A d \in Calls : CallStep(d)
      /\ \A d \in Calls : calls'[d] = calls[d] \/ calls'[d] = NoCall
  BY <1>1, Forgets DEF CallStep
<1>3. req' \in [Requests -> RequestRows]
  BY <1>1, Bounded, Resumes DEF SessionsInv
<1>4. /\ faults' \in 0..MaxFaults /\ current' \in Token /\ stored' \in Token
      /\ current' <= made /\ stored' <= made
  BY AuthAssumption, <1>1, Bounded
<1>5. ClientInv'
  <2> SUFFICES ASSUME faults' = 0 PROVE ClientInv'
    BY DEF ClientInv
  <2>1. faults = 0 /\ UNCHANGED row /\ calls[c].at = "answered" /\ current' = 0
    BY <1>1, Bounded DEF db
  <2>2. loggingIn = "none"
    BY <1>1, <2>1 DEF SessionsInv, ClientInv
  <2>3. calls'[c] = NoCall
    BY <1>1, <2>1 DEF Forget
  <2>4. \A d \in Calls : calls'[d].at = "none"
    BY <1>1, <1>2, <2>1, <2>2, <2>3, Numbers, NoCallRow DEF SessionsInv, ClientInv
  <2> QED BY <1>1, <2>1, <2>2, <2>4, Numbers DEF SessionsInv, ClientInv
<1> QED BY <1>1, <1>2, <1>3, <1>4, <1>5, Bounded, ClientKeeps

LEMMA LoggedInKeeps ==
  ASSUME SessionsInv, NEW c \in Calls, LoggedIn(c)
  PROVE  SessionsInv'
<1>1. /\ loggingIn = c /\ calls[c].at = "answered" /\ calls[c].answer = "session"
      /\ current' = calls[c].next /\ stored' = calls[c].next /\ loggingIn' = "none"
      /\ refreshing' = IF refreshing = "login" THEN "none" ELSE refreshing
      /\ calls' = Forget({c}) /\ UNCHANGED <<db, faults, events>>
  BY DEF LoggedIn, save
<1>2. /\ calls' \in [Calls -> CallRows] /\ \A d \in Calls : CallStep(d)
      /\ \A d \in Calls : calls'[d] = calls[d] \/ calls'[d] = NoCall
  BY <1>1, Forgets DEF CallStep
<1>3. req' \in [Requests -> RequestRows]
  BY Bounded DEF LoggedIn, RequestRows
<1>4. ClientInv'
  <2> SUFFICES ASSUME faults' = 0 PROVE ClientInv'
    BY DEF ClientInv
  <2>1. faults = 0 /\ UNCHANGED row
    BY <1>1 DEF db
  <2>2. refreshing \notin Calls /\ row[calls[c].next].reason \notin Spent
    BY <1>1, <2>1, Numbers DEF SessionsInv, ClientInv
  <2>3. calls'[c] = NoCall
    BY <1>1 DEF Forget
  <2>4. \A d \in Calls : calls'[d].at = "none"
    BY <1>1, <1>2, <2>1, <2>2, <2>3, Numbers, NoCallRow DEF SessionsInv, ClientInv
  <2> QED BY <1>1, <2>1, <2>2, <2>4, Numbers DEF SessionsInv, ClientInv
<1> QED BY <1>1, <1>2, <1>3, <1>4, Bounded, ClientKeeps

LEMMA LoginFailsKeeps ==
  ASSUME SessionsInv, NEW c \in Calls, LoginFails(c)
  PROVE  SessionsInv'
<1>1. /\ loggingIn = c /\ loggingIn' = "none"
      /\ \/ calls[c].at = "answered" /\ UNCHANGED faults
         \/ faults < MaxFaults /\ faults' = faults + 1
      /\ refreshing' = IF refreshing = "login" THEN "none" ELSE refreshing
      /\ req' = Resume(LoginWaiters, "idle", 0)
      /\ calls' = Forget({c}) /\ UNCHANGED <<db, current, stored, events>>
  BY DEF LoginFails
<1>2. /\ calls' \in [Calls -> CallRows] /\ \A d \in Calls : CallStep(d)
      /\ \A d \in Calls : calls'[d] = calls[d] \/ calls'[d] = NoCall
  BY <1>1, Forgets DEF CallStep
<1>3. req' \in [Requests -> RequestRows]
  BY <1>1, Bounded, Resumes DEF SessionsInv
<1>4. faults' \in 0..MaxFaults
  BY AuthAssumption, <1>1, Bounded
<1>5. ClientInv'
  <2> SUFFICES ASSUME faults' = 0 PROVE ClientInv'
    BY DEF ClientInv
  <2>1. faults = 0 /\ UNCHANGED row /\ calls[c].at = "answered"
    BY <1>1, Bounded DEF db
  <2>2. refreshing \notin Calls /\ current = 0
    BY <1>1, <2>1, Numbers DEF SessionsInv, ClientInv
  <2>3. calls'[c] = NoCall
    BY <1>1, <2>1 DEF Forget
  <2>4. \A d \in Calls : calls'[d].at = "none"
    BY <1>1, <1>2, <2>1, <2>2, <2>3, Numbers, NoCallRow DEF SessionsInv, ClientInv
  <2> QED BY <1>1, <2>1, <2>2, <2>4, Numbers DEF SessionsInv, ClientInv
<1> QED BY <1>1, <1>2, <1>3, <1>4, <1>5, Bounded, ClientKeeps

LEMMA OthersKeep ==
  ASSUME SessionsInv,
         \/ AppKilled \/ \E c \in Calls : AnswerDropped(c)
         \/ \E r \in Requests : RequestAnswered(r)
  PROVE  SessionsInv'
<1>1. CASE AppKilled
  <2>1. /\ faults < MaxFaults /\ faults' = faults + 1 /\ current' = stored /\ refreshing' = "none"
        /\ loggingIn' = "none" /\ req' = [r \in Requests |-> NoRequest]
        /\ UNCHANGED <<db, calls, stored, events>>
    BY <1>1 DEF AppKilled
  <2>2. faults' \in 0..MaxFaults /\ faults' # 0 /\ req' \in [Requests -> RequestRows]
    BY AuthAssumption, <2>1, Bounded DEF NoRequest, RequestRows
  <2>3. ClientInv' /\ calls' \in [Calls -> CallRows] /\ \A c \in Calls : CallStep(c)
    BY <2>1, <2>2, Typed DEF ClientInv, CallStep, SessionsInv
  <2> QED BY <2>1, <2>2, <2>3, Bounded, ClientKeeps
<1>2. ASSUME NEW c \in Calls, AnswerDropped(c) PROVE SessionsInv'
  <2>1. /\ calls[c].at = "answered" /\ c \notin {refreshing, loggingIn} /\ calls' = Forget({c})
        /\ UNCHANGED <<db, current, stored, refreshing, loggingIn, req, faults, events>>
    BY <1>2 DEF AnswerDropped, client
  <2>2. /\ calls' \in [Calls -> CallRows] /\ \A d \in Calls : CallStep(d)
    BY <2>1, Forgets DEF CallStep
  <2>3. ClientInv'
    BY <2>1 DEF ClientInv, SessionsInv
  <2> QED BY <2>1, <2>2, <2>3, Bounded, ClientKeeps
<1>3. ASSUME NEW r \in Requests, RequestAnswered(r) PROVE SessionsInv'
  <2>1. /\ req' = Resume({r}, "idle", 0)
        /\ UNCHANGED <<db, calls, current, stored, refreshing, loggingIn, faults, events>>
    BY <1>3 DEF RequestAnswered
  <2>2. req' \in [Requests -> RequestRows]
    BY <2>1, Bounded, Resumes DEF SessionsInv
  <2>3. ClientInv' /\ calls' \in [Calls -> CallRows] /\ \A c \in Calls : CallStep(c)
    BY <2>1, Typed DEF ClientInv, CallStep, SessionsInv, db
  <2> QED BY <2>1, <2>2, <2>3, Bounded, ClientKeeps
<1> QED BY <1>1, <1>2, <1>3

-----------------------------------------------------------------------------
(* The server.                                                             *)

(* A step of a call on the server, of which the client hears at most the   *)
(* answer.                                                                 *)
LEMMA Answered ==
  ASSUME AuthTypeOK, NEW c \in Calls, NEW kind \in Answers, NEW next \in Token, Answer(c, kind, next)
  PROVE  /\ calls' \in [Calls -> CallRows] /\ \A d \in Calls \ {c} : calls'[d] = calls[d]
         /\ calls'[c].at = "answered" /\ calls'[c].answer = kind /\ calls'[c].next = next
         /\ calls'[c].kind = calls[c].kind /\ calls'[c].token = calls[c].token
BY Typed DEF Answer, CallRows

LEMMA LooksKeeps ==
  ASSUME SessionsInv, NEW c \in Calls, LoginLooks(c) \/ RotateLocks(c)
  PROVE  SessionsInv'
<1>1. UNCHANGED <<db, client, faults, events>> /\ calls[c].at = "sent"
  BY DEF LoginLooks, RotateLocks
<1>2. UNCHANGED <<row, made, stale, overdue, account, current, stored, refreshing, loggingIn, req>>
  BY <1>1 DEF db, client
<1>3. calls[c] \in CallRows /\ calls \in [Calls -> CallRows] /\ row \in [Sessions -> RowRows]
  BY Typed DEF SessionsInv
<1>4. CASE LoginLooks(c)
  <2>1. /\ calls' \in [Calls -> CallRows] /\ \A d \in Calls \ {c} : calls'[d] = calls[d]
        /\ calls'[c].at = "unmapped" /\ calls'[c].kind = "login" /\ calls[c].kind = "login"
        /\ calls'[c].token = calls[c].token /\ calls'[c].next = calls[c].next
    BY <1>3, <1>4 DEF LoginLooks, CallRows
  <2>2. AuthTypeOK'
    BY <1>1, <1>2, <2>1 DEF SessionsInv, AuthTypeOK, CallRows
  <2>3. RowsInv' /\ LocksInv'
    BY <1>2, <2>1 DEF SessionsInv, RowsInv, LocksInv
  <2>4. HeadInv' /\ OneUserPerIdentity'
    BY <1>2 DEF SessionsInv, HeadInv, OneUserPerIdentity, family
  <2>5. ClientInv'
    BY <1>1, <1>2, <2>1 DEF SessionsInv, ClientInv
  <2> QED BY <2>2, <2>3, <2>4, <2>5 DEF SessionsInv
<1>5. CASE RotateLocks(c)
  <2>1. calls[c].kind = "refresh" /\ FamilyFree(c)
    BY <1>5 DEF RotateLocks
  <2>2. calls[c].token \in Sessions /\ row[calls[c].token].reason \in Reasons
    BY <1>1, <1>3, <2>1, Numbers DEF SessionsInv, LocksInv, CallRows, RowRows
  <2>3. /\ calls' \in [Calls -> CallRows] /\ \A d \in Calls \ {c} : calls'[d] = calls[d]
        /\ calls'[c].at = "locked" /\ calls'[c].kind = "refresh"
        /\ calls'[c].seen = row[calls[c].token].reason
        /\ calls'[c].token = calls[c].token /\ calls'[c].next = calls[c].next
    BY <1>3, <1>5, <2>1, <2>2 DEF RotateLocks, CallRows
  <2>4. AuthTypeOK'
    BY <1>1, <1>2, <2>3 DEF SessionsInv, AuthTypeOK, CallRows
  <2>5. \A d \in Calls \ {c} : calls[d].at = "locked" =>
          row[calls[d].token].family # row[calls[c].token].family
    <3>1. \A d \in Calls : calls[d].at = "locked" => calls[d].token \in Sessions
      BY Numbers, Typed DEF SessionsInv, LocksInv, CallRows
    <3> QED BY <2>1, <3>1 DEF FamilyFree, Holds
  <2>6. RowsInv'
    BY <1>2, <2>3 DEF SessionsInv, RowsInv
  <2>7. LocksInv'
    BY <1>1, <1>2, <2>1, <2>2, <2>3, <2>5, Numbers DEF SessionsInv, LocksInv
  <2>8. HeadInv' /\ OneUserPerIdentity'
    BY <1>2 DEF SessionsInv, HeadInv, OneUserPerIdentity, family
  <2>9. ClientInv'
    BY <1>1, <1>2, <2>1, <2>3 DEF SessionsInv, ClientInv
  <2> QED BY <2>4, <2>6, <2>7, <2>8, <2>9 DEF SessionsInv
<1> QED BY <1>4, <1>5

(* A new session is the only one of its family, or the only live one.      *)
LEMMA MadeSession ==
  ASSUME SessionsInv, made < MaxSessions
  PROVE  /\ made + 1 \in Sessions /\ made + 1 \in Token /\ made + 1 \in 0..MaxSessions
         /\ row[made + 1] = NoRow
         /\ \A s \in Sessions : row[s].family # made + 1
<1>1. made \in Nat /\ made + 1 \in Sessions /\ made + 1 \in Token /\ made + 1 \in 0..MaxSessions
  BY Numbers DEF SessionsInv, AuthTypeOK
<1>2. \A s \in Sessions : row[s].family # made + 1
  BY <1>1, Numbers DEF SessionsInv, RowsInv, NoRow
<1> QED BY <1>1, <1>2, Numbers DEF SessionsInv, RowsInv

LEMMA LoginKeeps ==
  ASSUME SessionsInv, NEW c \in Calls, LoginSettles(c)
  PROVE  SessionsInv'
<1>1. /\ calls[c].kind = "login" /\ calls[c].at \in {"sent", "unmapped"}
      /\ UNCHANGED <<stale, overdue, current, stored, refreshing, loggingIn, req, faults, events>>
  BY DEF LoginSettles, client
<1>2. row \in [Sessions -> RowRows] /\ made \in Nat /\ "disabled" \in Answers /\ "session" \in Answers
  BY Typed, Bounded DEF SessionsInv, Answers
<1>3. CASE ~account.active
  <2>1. Answer(c, "disabled", 0) /\ UNCHANGED <<row, made, account>>
    BY <1>3 DEF LoginSettles
  <2>2. /\ calls' \in [Calls -> CallRows] /\ \A d \in Calls \ {c} : calls'[d] = calls[d]
        /\ calls'[c].at = "answered" /\ calls'[c].answer = "disabled" /\ calls'[c].next = 0
        /\ calls'[c].kind = "login" /\ calls'[c].token = calls[c].token
    BY <1>1, <1>2, <2>1, Answered, Numbers DEF SessionsInv
  <2>3. AuthTypeOK'
    BY <1>1, <2>1, <2>2 DEF SessionsInv, AuthTypeOK, CallRows
  <2>4. RowsInv' /\ LocksInv'
    BY <1>1, <1>2, <2>1, <2>2 DEF SessionsInv, RowsInv, LocksInv
  <2>5. HeadInv' /\ OneUserPerIdentity'
    BY <2>1 DEF SessionsInv, HeadInv, OneUserPerIdentity, family
  <2>6. ClientInv'
    BY <1>1, <2>1, <2>2 DEF SessionsInv, ClientInv
  <2> QED BY <2>3, <2>4, <2>5, <2>6 DEF SessionsInv
<1>4. CASE account.active
  <2>1. /\ made < MaxSessions /\ made' = made + 1
        /\ row' = [row EXCEPT ![made + 1] = Live(made + 1)]
        /\ Answer(c, "session", made + 1)
        /\ account' = [account EXCEPT !.mapped = TRUE, !.users = Users(c)]
    BY <1>4 DEF LoginSettles, NewSession
  <2>2. /\ made + 1 \in Sessions /\ made + 1 \in Token /\ made + 1 \in 0..MaxSessions
        /\ row[made + 1] = NoRow /\ \A s \in Sessions : row[s].family # made + 1
    BY <2>1, MadeSession
  <2>3. /\ calls' \in [Calls -> CallRows] /\ \A d \in Calls \ {c} : calls'[d] = calls[d]
        /\ calls'[c].at = "answered" /\ calls'[c].answer = "session" /\ calls'[c].next = made + 1
        /\ calls'[c].kind = "login" /\ calls'[c].token = calls[c].token
    BY <1>1, <1>2, <2>1, <2>2, Answered DEF SessionsInv
  <2>4. /\ row' \in [Sessions -> RowRows] /\ \A s \in Sessions \ {made + 1} : row'[s] = row[s]
        /\ row'[made + 1].family = made + 1 /\ row'[made + 1].reason = "live"
        /\ ~row'[made + 1].reused
    BY <1>2, <2>1, <2>2 DEF RowRows, Live, Reasons
  <2>5. account' \in [users : Nat, mapped : BOOLEAN, active : BOOLEAN]
        /\ account'.mapped = TRUE /\ account'.users = 1
    <3>1. account \in [users : Nat, mapped : BOOLEAN, active : BOOLEAN]
      BY DEF SessionsInv, AuthTypeOK
    <3>2. Users(c) = 1
      BY <3>1 DEF SessionsInv, OneUserPerIdentity, Users
    <3>3. account' = [account EXCEPT !.mapped = TRUE, !.users = 1]
      BY <2>1, <3>2
    <3> QED BY <3>1, <3>3
  <2>6. AuthTypeOK'
    BY <1>1, <2>1, <2>2, <2>3, <2>4, <2>5 DEF SessionsInv, AuthTypeOK, CallRows, RowRows
  <2>7. RowsInv'
    <3>1. \A s \in Sessions : s \in Nat
      BY Numbers
    <3>2. \A d \in Calls : calls[d].token \in Nat /\ calls[d].next \in Nat
      BY Numbers, Typed DEF SessionsInv, CallRows
    <3>3. current \in Nat /\ stored \in Nat /\ overdue \subseteq Nat
      BY Numbers, Bounded DEF SessionsInv, AuthTypeOK
    <3> QED BY <1>1, <1>2, <2>1, <2>2, <2>3, <2>4, <3>1, <3>2, <3>3 DEF SessionsInv, RowsInv
  <2>8. LocksInv'
    <3>1. \A d \in Calls : calls[d].token # made + 1
      BY <1>2, Numbers, Typed DEF SessionsInv, RowsInv, CallRows
    <3>2. \A d \in Calls : calls[d].at = "locked" => calls[d].token \in Sessions
      BY Numbers, Typed DEF SessionsInv, LocksInv, CallRows
    <3> QED BY <1>1, <2>3, <2>4, <3>1, <3>2 DEF SessionsInv, LocksInv
  <2>9. HeadInv'
    BY <2>2, <2>4 DEF SessionsInv, HeadInv, family
  <2>10. ClientInv'
    <3>1. \A d \in Calls : calls[d].token # made + 1 /\ calls[d].next # made + 1
      BY <1>2, Numbers, Typed DEF SessionsInv, RowsInv, CallRows
    <3>2. current # made + 1 /\ current \in Token
      BY <1>2, Bounded, Numbers
    <3>3. \A d \in Calls : calls[d].token \in Token /\ calls[d].next \in Token
      BY Typed DEF SessionsInv, CallRows
    <3>4. \A s \in Token : s # 0 => s \in Sessions
      BY Numbers
    <3>5. made + 1 # 0 /\ "live" \notin Spent
      BY <1>2 DEF Spent
    <3>6. \A d \in Calls : calls[d].kind = "refresh" /\ calls[d].at \in {"sent", "locked"} =>
            calls[d].token # 0
      BY DEF SessionsInv, LocksInv
    <3> QED BY <1>1, <2>2, <2>3, <2>4, <3>1, <3>2, <3>3, <3>4, <3>5, <3>6, Numbers
            DEF SessionsInv, ClientInv
  <2> QED BY <2>5, <2>6, <2>7, <2>8, <2>9, <2>10 DEF SessionsInv, OneUserPerIdentity
<1> QED BY <1>3, <1>4

(* Steps of the server that change rows of sessions that nobody is         *)
(* working on: none becomes live, none becomes spent.                      *)
LEMMA RowsChange ==
  ASSUME SessionsInv, row' \in [Sessions -> RowRows],
         UNCHANGED <<made, overdue, account, calls, client, faults>>,
         \A s \in Sessions :
           \/ row'[s] = row[s]
           \/ /\ \A c \in Calls : ~Holds(c, s)
              /\ s <= made /\ row'[s].family = row[s].family
              /\ row'[s].reason \notin Spent \union {"live"}
              /\ row'[s].reused => row[s].reused
  PROVE  RowsInv' /\ LocksInv' /\ HeadInv' /\ OneUserPerIdentity' /\ ClientInv'
<1>1. \A s \in Sessions :
        /\ row'[s].family = row[s].family /\ (row'[s].reused => row[s].reused)
        /\ row'[s].reason = "live" => row[s].reason = "live"
        /\ row'[s].reason \in Spent => row'[s].reason = row[s].reason
  OBVIOUS
<1>2. \A c \in Calls : calls[c].token \in Token /\ calls[c].next \in Token
  BY Typed DEF SessionsInv, CallRows
<1>3. \A s \in Token : s # 0 => s \in Sessions
  BY Numbers
<1>4. UNCHANGED <<current, stored, refreshing, loggingIn, req>>
  BY DEF client
<1>5. RowsInv'
  <2>1. \A s \in Sessions : s > made => ~(s <= made)
    BY Numbers, Bounded
  <2> QED BY <1>1, <1>4, <2>1 DEF SessionsInv, RowsInv
<1>6. LocksInv'
  BY <1>1, <1>2, <1>3 DEF SessionsInv, LocksInv, Holds
<1>7. HeadInv'
  BY <1>1 DEF SessionsInv, HeadInv, family
<1>8. OneUserPerIdentity'
  BY DEF SessionsInv, OneUserPerIdentity
<1>9. ClientInv'
  <2> SUFFICES ASSUME faults = 0 PROVE ClientInv'
    BY DEF ClientInv
  <2>1. \A s \in Sessions : row'[s].reason # "refresh_reuse" /\ ~row'[s].reused
    BY <1>1 DEF SessionsInv, ClientInv, Spent
  <2>2. \A s \in Token : s # 0 /\ row[s].reason \notin Spent => row'[s].reason \notin Spent
    BY <1>1, <1>3
  <2>3. current \in Token
    BY Bounded
  <2>4. \A c \in Calls : calls[c].kind = "refresh" /\ calls[c].at \in {"sent", "locked"} =>
          calls[c].token # 0
    BY DEF SessionsInv, LocksInv
  <2> QED BY <1>2, <1>4, <2>1, <2>2, <2>3, <2>4 DEF SessionsInv, ClientInv
<1> QED BY <1>5, <1>6, <1>7, <1>8, <1>9

LEMMA EventsKeep ==
  ASSUME SessionsInv,
         \/ UserDisabled
         \/ \E s \in Sessions : logout(s) \/ TimePasses(s) \/ deleteUserSessions(s)
  PROVE  SessionsInv'
<1>1. events \in 0..MaxEvents /\ MaxEvents \in Nat /\ row \in [Sessions -> RowRows]
  BY AuthAssumption, Typed DEF SessionsInv, AuthTypeOK
<1>2. CASE UserDisabled
  <2>1. /\ UNCHANGED <<row, made, stale, overdue, calls, client, faults>> /\ events' \in 0..MaxEvents
        /\ account' = [account EXCEPT !.active = FALSE]
    BY <1>1, <1>2 DEF UserDisabled
  <2>2. /\ account' \in [users : Nat, mapped : BOOLEAN, active : BOOLEAN]
        /\ account'.users = account.users /\ account'.mapped = account.mapped
    BY <2>1 DEF SessionsInv, AuthTypeOK
  <2>3. AuthTypeOK'
    BY <2>1, <2>2 DEF SessionsInv, AuthTypeOK, client
  <2>4. RowsInv' /\ LocksInv' /\ HeadInv'
    BY <2>1 DEF SessionsInv, RowsInv, LocksInv, HeadInv, family, client
  <2>5. OneUserPerIdentity' /\ ClientInv'
    BY <2>1, <2>2 DEF SessionsInv, OneUserPerIdentity, ClientInv, client
  <2> QED BY <2>3, <2>4, <2>5 DEF SessionsInv
<1>3. ASSUME NEW s \in Sessions, TimePasses(s) PROVE SessionsInv'
  <2>1. /\ UNCHANGED <<row, made, account, calls, client, faults>> /\ events' \in 0..MaxEvents
        /\ stale' \subseteq Sessions /\ overdue' \subseteq Sessions
        /\ \A q \in overdue' : q <= made
    BY <1>1, <1>3 DEF TimePasses, SessionsInv, AuthTypeOK, RowsInv
  <2>2. AuthTypeOK'
    BY <2>1 DEF SessionsInv, AuthTypeOK, client
  <2>3. RowsInv' /\ LocksInv' /\ HeadInv'
    BY <2>1 DEF SessionsInv, RowsInv, LocksInv, HeadInv, family, client
  <2>4. OneUserPerIdentity' /\ ClientInv'
    BY <2>1 DEF SessionsInv, OneUserPerIdentity, ClientInv, client
  <2> QED BY <2>2, <2>3, <2>4 DEF SessionsInv
<1>4. ASSUME NEW s \in Sessions, logout(s) PROVE SessionsInv'
  <2>1. /\ row[s].reason = "live" /\ events' \in 0..MaxEvents
        /\ \A c \in Calls : ~Holds(c, s)
        /\ UNCHANGED <<made, stale, overdue, account, calls, client, faults>>
        /\ row' = Revoke({s}, "logout")
    BY <1>1, <1>4 DEF logout, Unlocked
  <2>2. /\ row' \in [Sessions -> RowRows] /\ \A q \in Sessions \ {s} : row'[q] = row[q]
        /\ row'[s].reason = "logout" /\ row'[s].family = row[s].family
        /\ row'[s].reused = row[s].reused
    BY <1>1, <2>1 DEF Revoke, RowRows, Reasons
  <2>3. row' \in [Sessions -> RowRows] /\ s <= made
    <3>1. \A q \in Sessions : q > made \/ q <= made
      BY Numbers, Bounded
    <3>2. row[s].reason # "none" \/ s \in overdue
      BY <2>1
    <3> QED BY <2>2, <3>1, <3>2 DEF SessionsInv, RowsInv, NoRow
  <2>4. AuthTypeOK'
    BY <2>1, <2>3 DEF SessionsInv, AuthTypeOK, RowRows, client
  <2>5. RowsInv' /\ LocksInv' /\ HeadInv' /\ OneUserPerIdentity' /\ ClientInv'
    BY <2>1, <2>2, <2>3, RowsChange DEF Spent
  <2> QED BY <2>4, <2>5 DEF SessionsInv
<1>5. ASSUME NEW s \in Sessions, deleteUserSessions(s) PROVE SessionsInv'
  <2>1. /\ events' \in 0..MaxEvents
        /\ \A c \in Calls : ~Holds(c, s)
        /\ UNCHANGED <<made, stale, overdue, account, calls, client, faults>>
        /\ row' = [row EXCEPT ![s].reason = "deleted", ![s].reused = FALSE]
        /\ row[s].reason \notin {"none", "live", "deleted"} \/ s \in overdue
    BY <1>1, <1>5 DEF deleteUserSessions, Unlocked
  <2>2. /\ row' \in [Sessions -> RowRows] /\ \A q \in Sessions \ {s} : row'[q] = row[q]
        /\ row'[s].reason = "deleted" /\ row'[s].family = row[s].family /\ ~row'[s].reused
    BY <1>1, <2>1 DEF RowRows, Reasons
  <2>3. row' \in [Sessions -> RowRows] /\ s <= made
    <3>1. \A q \in Sessions : q > made \/ q <= made
      BY Numbers, Bounded
    <3>2. row[s].reason # "none" \/ s \in overdue
      BY <2>1
    <3> QED BY <2>2, <3>1, <3>2 DEF SessionsInv, RowsInv, NoRow
  <2>4. AuthTypeOK'
    BY <2>1, <2>3 DEF SessionsInv, AuthTypeOK, RowRows, client
  <2>5. RowsInv' /\ LocksInv' /\ HeadInv' /\ OneUserPerIdentity' /\ ClientInv'
    BY <2>1, <2>2, <2>3, RowsChange DEF Spent
  <2> QED BY <2>4, <2>5 DEF SessionsInv
<1> QED BY <1>2, <1>3, <1>4, <1>5

(* A rotation settles: what was read under the lock is still so.           *)
LEMMA RotationReads ==
  ASSUME SessionsInv, NEW c \in Calls, rotateRefresh(c)
  PROVE  /\ calls[c].at = "locked" /\ calls[c].kind = "refresh" /\ calls[c].token \in Sessions
         /\ calls[c].token <= made /\ calls[c].seen = row[calls[c].token].reason
         /\ UNCHANGED <<stale, overdue, account, current, stored, refreshing, loggingIn, req,
                        faults, events>>
         /\ \A d \in Calls \ {c} : calls[d].at = "locked" =>
              calls[d].token \in Sessions /\ calls[d].token \notin family(calls[c].token)
<1>1. calls[c].at = "locked" /\ UNCHANGED <<stale, overdue, account, client, faults, events>>
  BY DEF rotateRefresh
<1>2. \A d \in Calls : calls[d].at = "locked" => calls[d].token \in Sessions /\ calls[d].kind = "refresh"
  BY Numbers, Typed DEF SessionsInv, LocksInv, CallRows
<1>3. calls[c].seen = row[calls[c].token].reason /\ calls[c].token <= made
  BY <1>1 DEF SessionsInv, LocksInv, RowsInv
<1>4. \A d \in Calls \ {c} : calls[d].at = "locked" => calls[d].token \notin family(calls[c].token)
  BY <1>1 DEF SessionsInv, LocksInv, family
<1> QED BY <1>1, <1>2, <1>3, <1>4 DEF client

(* A refusal revokes sessions of the family, if any.                       *)
LEMMA RotationRefused ==
  ASSUME SessionsInv, NEW c \in Calls, rotateRefresh(c), UNCHANGED made,
         NEW kind \in {"invalid", "reused", "disabled"}, Answer(c, kind, 0),
         row' \in [Sessions -> RowRows],
         \A s \in Sessions :
           \/ row'[s] = row[s]
           \/ /\ s \in family(calls[c].token)
              /\ row'[s].family = row[s].family /\ row'[s].reason # "live"
              /\ row'[s].reason \notin Spent \/ row[calls[c].token].reason \in Spent
              /\ row[calls[c].token].reason \notin Spent => row'[s].reused = row[s].reused
              /\ s > made => row'[s] = row[s],
         \/ \A s \in family(calls[c].token) : row'[s].reason # "live"
         \/ \A s \in Sessions : row'[s].reused => row[s].reused
  PROVE  SessionsInv'
<1> DEFINE t == calls[c].token
<1>1. /\ calls[c].at = "locked" /\ calls[c].kind = "refresh" /\ t \in Sessions /\ t <= made
      /\ calls[c].seen = row[t].reason
      /\ UNCHANGED <<stale, overdue, account, current, stored, refreshing, loggingIn, req, faults, events>>
      /\ \A d \in Calls \ {c} : calls[d].at = "locked" =>
           calls[d].token \in Sessions /\ calls[d].token \notin family(t)
  BY RotationReads
<1>2. /\ calls' \in [Calls -> CallRows] /\ \A d \in Calls \ {c} : calls'[d] = calls[d]
      /\ calls'[c].at = "answered" /\ calls'[c].answer = kind /\ calls'[c].next = 0
      /\ calls'[c].kind = "refresh" /\ calls'[c].token = t
  BY <1>1, Answered, Numbers DEF SessionsInv, Answers
<1>3. AuthTypeOK'
  BY <1>1, <1>2 DEF SessionsInv, AuthTypeOK, CallRows, RowRows
<1>4. \A s \in Sessions : row'[s].family = row[s].family /\ (row'[s].reason = "live" => row[s].reason = "live")
  OBVIOUS
<1>5. RowsInv'
  <2>1. 0 <= made
    BY Bounded
  <2> QED BY <1>1, <1>2, <1>4, <2>1 DEF SessionsInv, RowsInv
<1>6. LocksInv'
  BY <1>1, <1>2, <1>4 DEF SessionsInv, LocksInv
<1>7. HeadInv'
  BY <1>4 DEF SessionsInv, HeadInv, family
<1>8. OneUserPerIdentity'
  BY <1>1 DEF SessionsInv, OneUserPerIdentity
<1>9. ClientInv'
  <2> SUFFICES ASSUME faults = 0 PROVE ClientInv'
    BY <1>1 DEF ClientInv
  <2>1. row[t].reason \notin Spent /\ refreshing = c /\ loggingIn = "none" /\ "none" # c
    BY <1>1, Numbers DEF SessionsInv, ClientInv
  <2>2. \A d \in Calls \ {c} : calls[d].at = "none"
    BY <2>1, Numbers DEF SessionsInv, ClientInv
  <2>3. \A s \in Sessions : row'[s].reason # "refresh_reuse" /\ ~row'[s].reused
    BY <2>1 DEF SessionsInv, ClientInv, Spent
  <2> QED BY <1>1, <1>2, <2>1, <2>2, <2>3 DEF SessionsInv, ClientInv
<1> QED BY <1>3, <1>5, <1>6, <1>7, <1>8, <1>9 DEF SessionsInv

(* The head of a family is replaced by its successor.                      *)
LEMMA RotationMade ==
  ASSUME SessionsInv, NEW c \in Calls, rotateRefresh(c),
         row[calls[c].token].reason = "live", made < MaxSessions, made' = made + 1,
         row' = [Revoke({calls[c].token}, "rotated") EXCEPT ![made + 1] = Live(row[calls[c].token].family)],
         Answer(c, "rotated", made + 1)
  PROVE  SessionsInv'
<1> DEFINE t == calls[c].token
           n == made + 1
<1>1. /\ calls[c].at = "locked" /\ calls[c].kind = "refresh" /\ t \in Sessions /\ t <= made
      /\ UNCHANGED <<stale, overdue, account, current, stored, refreshing, loggingIn, req, faults, events>>
      /\ \A d \in Calls \ {c} : calls[d].at = "locked" =>
           calls[d].token \in Sessions /\ calls[d].token \notin family(t)
  BY RotationReads
<1>2. /\ n \in Sessions /\ n \in Token /\ n \in 0..MaxSessions /\ n # 0
      /\ row[n] = NoRow /\ \A s \in Sessions : row[s].family # n
  BY MadeSession, Bounded
<1>3. /\ calls' \in [Calls -> CallRows] /\ \A d \in Calls \ {c} : calls'[d] = calls[d]
      /\ calls'[c].at = "answered" /\ calls'[c].answer = "rotated" /\ calls'[c].next = n
      /\ calls'[c].kind = "refresh" /\ calls'[c].token = t
  BY <1>1, <1>2, Answered DEF SessionsInv, Answers
<1>4. row \in [Sessions -> RowRows] /\ t # n
  BY <1>1, Typed, Numbers, Bounded DEF SessionsInv
<1>5. /\ row' \in [Sessions -> RowRows] /\ \A s \in Sessions \ {t, n} : row'[s] = row[s]
      /\ row'[t].reason = "rotated" /\ row'[t].family = row[t].family /\ row'[t].reused = row[t].reused
      /\ row'[n].reason = "live" /\ row'[n].family = row[t].family /\ ~row'[n].reused
  <2> DEFINE revoked == Revoke({t}, "rotated")
             head == Live(row[t].family)
             old == [row[t] EXCEPT !.reason = "rotated"]
  <2>1. row[t] \in RowRows /\ row[t].reason = "live"
    BY <1>1, <1>4
  <2>2. /\ old \in RowRows /\ old.reason = "rotated"
        /\ old.family = row[t].family /\ old.reused = row[t].reused
    BY <2>1 DEF RowRows, Reasons, Spent
  <2>3. /\ head \in RowRows /\ head.reason = "live"
        /\ head.family = row[t].family /\ ~head.reused
    BY <2>1 DEF Live, RowRows, Reasons, Spent
  <2>4. revoked = [s \in Sessions |-> IF s = t THEN old ELSE row[s]]
    BY <2>1 DEF Revoke
  <2>5. row' = [revoked EXCEPT ![n] = head]
    OBVIOUS
  <2> HIDE DEF revoked, head, old, t, n
  <2>6. row' = [s \in Sessions |-> IF s = n THEN head ELSE IF s = t THEN old ELSE row[s]]
    BY <2>4, <2>5
  <2> QED BY <1>1, <1>2, <1>4, <2>2, <2>3, <2>6
<1>6. AuthTypeOK'
  <2>1. made' \in 0..MaxSessions
    BY <1>2
  <2> QED BY <1>1, <1>3, <1>5, <2>1 DEF SessionsInv, AuthTypeOK, CallRows, RowRows
<1>12. /\ \A s \in Sessions : s # n => row'[s].family = row[s].family
       /\ \A s \in Sessions : s # n => row'[s].reused = row[s].reused
       /\ \A s \in Sessions : s # n /\ row'[s].reason = "live" => s # t /\ row[s].reason = "live"
       /\ Sessions \subseteq Nat /\ made \in Nat /\ n = made + 1 /\ made' = n
  <2>1. Sessions \subseteq Nat /\ made \in Nat /\ n = made + 1 /\ made' = n
    BY Numbers, Bounded
  <2>2. ASSUME NEW s \in Sessions, s # n
        PROVE  /\ row'[s].family = row[s].family /\ row'[s].reused = row[s].reused
               /\ row'[s].reason = "live" => s # t /\ row[s].reason = "live"
    <3> HIDE DEF t, n
    <3>1. CASE s = t
      BY <1>5, <3>1
    <3>2. CASE s # t
      BY <1>5, <2>2, <3>2
    <3> QED BY <3>1, <3>2
  <2> HIDE DEF t, n
  <2> QED BY <2>1, <2>2
<1>7. RowsInv'
  <2> HIDE DEF t, n
  <2>1. current <= n /\ stored <= n /\ current' = current /\ stored' = stored
    BY <1>1, <1>12, Numbers, Bounded
  <2>2. \A d \in Calls : calls'[d].token <= n /\ calls'[d].next <= n
    <3>1. \A d \in Calls : calls[d].token \in Nat /\ calls[d].next \in Nat
      BY Numbers, Typed DEF SessionsInv, CallRows
    <3>2. \A d \in Calls : calls[d].token <= n /\ calls[d].next <= n
      BY <1>12, <3>1 DEF SessionsInv, RowsInv
    <3>3. \A d \in Calls : d = c \/ calls'[d] = calls[d]
      BY <1>3
    <3> QED BY <1>1, <1>3, <1>12, <3>2, <3>3
  <2>3. ASSUME NEW s \in Sessions, s <= n PROVE row'[s].family \in 1..n
    <3>1. \A q \in Sessions : q <= made => row[q].family \in 1..n
      BY <1>12 DEF SessionsInv, RowsInv
    <3>2. s = n \/ s <= made
      BY <1>12, <2>3
    <3>3. row[t].family \in 1..n
      BY <1>1, <3>1
    <3> QED BY <1>5, <1>12, <3>1, <3>2, <3>3
  <2>4. ASSUME NEW s \in Sessions, s > n PROVE row'[s] = NoRow
    <3>1. s > made /\ s # n /\ s # t
      BY <1>1, <1>12, <2>4
    <3>2. row'[s] = row[s]
      BY <1>5, <3>1
    <3> QED BY <3>1, <3>2 DEF SessionsInv, RowsInv
  <2>5. \A s \in overdue : s <= n
    BY <1>12 DEF SessionsInv, RowsInv, AuthTypeOK
  <2>6. overdue' = overdue /\ made' = n
    BY <1>1, <1>12
  <2> QED BY <2>1, <2>2, <2>3, <2>4, <2>5, <2>6 DEF RowsInv
<1>8. LocksInv'
  <2>1. \A d \in Calls \ {c} : calls[d].at = "locked" =>
          calls[d].token \in Sessions /\ calls[d].token # t /\ calls[d].token # n
    <3>1. \A d \in Calls : calls[d].token # n
      BY Bounded, Numbers, Typed DEF SessionsInv, RowsInv, CallRows
    <3>2. t \in family(t)
      BY <1>1 DEF family
    <3> QED BY <1>1, <3>1, <3>2
  <2> HIDE DEF t, n
  <2>2. \A d \in Calls \ {c} : calls[d].at = "locked" => row'[calls[d].token] = row[calls[d].token]
    BY <1>5, <2>1
  <2>3. \A d \in Calls : calls'[d].at = "locked" => d # c /\ calls'[d] = calls[d]
    BY <1>3
  <2>4. \A d \in Calls : calls'[d].at = "sent" => d # c /\ calls'[d] = calls[d]
    BY <1>3
  <2>5. \A d \in Calls : calls'[d].at = "locked" =>
          /\ calls'[d].kind = "refresh" /\ calls'[d].token # 0
          /\ calls'[d].seen = row'[calls'[d].token].reason
          /\ row'[calls'[d].token].family = row[calls[d].token].family
    <3> SUFFICES ASSUME NEW d \in Calls, calls'[d].at = "locked"
                 PROVE  /\ calls'[d].kind = "refresh" /\ calls'[d].token # 0
                        /\ calls'[d].seen = row'[calls'[d].token].reason
                        /\ row'[calls'[d].token].family = row[calls[d].token].family
      OBVIOUS
    <3>1. d \in Calls \ {c} /\ calls'[d] = calls[d] /\ calls[d].at = "locked"
      BY <2>3
    <3>2. row'[calls[d].token] = row[calls[d].token]
      BY <2>2, <3>1
    <3>3. calls[d].kind = "refresh" /\ calls[d].token # 0 /\ calls[d].seen = row[calls[d].token].reason
      BY <3>1 DEF SessionsInv, LocksInv
    <3> QED BY <3>1, <3>2, <3>3
  <2>6. \A d \in Calls : calls'[d].kind = "refresh" /\ calls'[d].at = "sent" => calls'[d].token # 0
    BY <2>4 DEF SessionsInv, LocksInv
  <2>7. \A d, e \in Calls : calls'[d].at = "locked" /\ calls'[e].at = "locked" /\ d # e =>
          row'[calls'[d].token].family # row'[calls'[e].token].family
    <3> SUFFICES ASSUME NEW d \in Calls, NEW e \in Calls, calls'[d].at = "locked",
                        calls'[e].at = "locked", d # e
                 PROVE  row'[calls'[d].token].family # row'[calls'[e].token].family
      OBVIOUS
    <3>1. calls[d].at = "locked" /\ calls[e].at = "locked"
      BY <2>3
    <3>2. row[calls[d].token].family # row[calls[e].token].family
      BY <3>1 DEF SessionsInv, LocksInv
    <3>3. /\ row'[calls'[d].token].family = row[calls[d].token].family
          /\ row'[calls'[e].token].family = row[calls[e].token].family
      BY <2>5
    <3> QED BY <3>2, <3>3
  <2> QED BY <2>5, <2>6, <2>7 DEF LocksInv
<1>9. HeadInv'
  <2>1. \A s \in Sessions : s # n /\ row'[s].reason = "live" => row[s].family # row[t].family
    BY <1>1, <1>12 DEF SessionsInv, HeadInv, family
  <2>2. \A s \in Sessions : row[s].family = row[t].family => ~row[s].reused
    BY <1>1 DEF SessionsInv, HeadInv, family
  <2> HIDE DEF t, n
  <2> SUFFICES ASSUME NEW s \in Sessions, row'[s].reason = "live",
                      NEW q \in Sessions, row'[q].family = row'[s].family
               PROVE  ~row'[q].reused /\ (row'[q].reason = "live" => q = s)
    BY DEF HeadInv, family
  <2>3. CASE s = n
    BY <1>5, <1>12, <2>1, <2>2, <2>3
  <2>4. CASE s # n
    <3>1. row[s].reason = "live" /\ row'[s].family = row[s].family /\ row[s].family # row[t].family
      BY <1>12, <2>1, <2>4
    <3>2. q # n /\ row[q].family = row[s].family
      BY <1>5, <1>12, <3>1
    <3>3. ~row[q].reused /\ (row[q].reason = "live" => q = s)
      BY <3>1, <3>2 DEF SessionsInv, HeadInv, family
    <3> QED BY <1>12, <3>2, <3>3
  <2> QED BY <2>3, <2>4
<1>10. OneUserPerIdentity'
  BY <1>1 DEF SessionsInv, OneUserPerIdentity
<1>11. ClientInv'
  <2> SUFFICES ASSUME faults = 0 PROVE ClientInv'
    BY <1>1 DEF ClientInv
  <2>1. refreshing = c /\ loggingIn = "none" /\ "none" # c
    BY <1>1, Numbers DEF SessionsInv, ClientInv
  <2>2. \A d \in Calls \ {c} : calls[d].at = "none"
    BY <2>1, Numbers DEF SessionsInv, ClientInv
  <2>3. \A s \in Sessions : row'[s].reason # "refresh_reuse" /\ ~row'[s].reused
    BY <1>5 DEF SessionsInv, ClientInv
  <2>4. row'[n].reason \notin Spent
    BY <1>5 DEF Spent
  <2> QED BY <1>1, <1>2, <1>3, <2>1, <2>2, <2>3, <2>4 DEF SessionsInv, ClientInv
<1> QED BY <1>6, <1>7, <1>8, <1>9, <1>10, <1>11 DEF SessionsInv

(* The rows that a refusal writes.                                         *)
LEMMA RevokedRows ==
  ASSUME SessionsInv, NEW S \in SUBSET Sessions,
         NEW reason \in {"expired", "user_disabled", "refresh_reuse"}
  PROVE  /\ Revoke(S, reason) \in [Sessions -> RowRows]
         /\ \A s \in Sessions :
              /\ Revoke(S, reason)[s].family = row[s].family
              /\ Revoke(S, reason)[s].reused = row[s].reused
              /\ s \in S /\ row[s].reason = "live" => Revoke(S, reason)[s].reason = reason
              /\ s \notin S \/ row[s].reason # "live" => Revoke(S, reason)[s] = row[s]
<1>1. ASSUME NEW s \in Sessions
      PROVE  /\ row[s] \in RowRows /\ [row[s] EXCEPT !.reason = reason] \in RowRows
             /\ [row[s] EXCEPT !.reason = reason].family = row[s].family
             /\ [row[s] EXCEPT !.reason = reason].reused = row[s].reused
             /\ [row[s] EXCEPT !.reason = reason].reason = reason
  <2>1. row[s] \in RowRows
    BY Typed DEF SessionsInv
  <2> QED BY <2>1 DEF RowRows, Reasons, Spent
<1> QED BY <1>1 DEF Revoke

LEMMA RotateKeeps ==
  ASSUME SessionsInv, NEW c \in Calls, rotateRefresh(c)
  PROVE  SessionsInv'
<1> DEFINE t == calls[c].token
<1>1. t \in Sessions /\ calls[c].seen = row[t].reason /\ family(t) \subseteq Sessions /\ t \in family(t)
  BY RotationReads DEF family
<1>2. row \in [Sessions -> RowRows]
  BY Typed DEF SessionsInv
<1>3. \A s \in family(t) : s <= made
  <2>1. \A s \in Sessions : s > made \/ s <= made
    BY Numbers, Bounded
  <2>2. row[t].family # 0
    BY RotationReads, Numbers, Bounded DEF SessionsInv, RowsInv
  <2> QED BY <1>1, <2>1, <2>2 DEF SessionsInv, RowsInv, family, NoRow
<1>4. \A s \in Sessions : s > made => s \notin family(t)
  BY <1>3, Numbers, Bounded
<1>5. CASE row[t].reason \in Spent
  <2> DEFINE revoked == Revoke(family(t), "refresh_reuse")
  <2>1. /\ row' = [q \in Sessions |-> [revoked[q] EXCEPT !.reused = @ \/ q \in family(t)]]
        /\ Answer(c, "reused", 0) /\ UNCHANGED made
    BY <1>1, <1>5 DEF rotateRefresh, Spent
  <2>2. /\ revoked \in [Sessions -> RowRows]
        /\ \A s \in Sessions :
             /\ revoked[s].family = row[s].family /\ revoked[s].reused = row[s].reused
             /\ s \in family(t) /\ row[s].reason = "live" => revoked[s].reason = "refresh_reuse"
             /\ s \notin family(t) \/ row[s].reason # "live" => revoked[s] = row[s]
    BY <1>1, RevokedRows
  <2> HIDE DEF revoked
  <2>3. ASSUME NEW s \in Sessions
        PROVE  /\ row'[s] \in RowRows
               /\ s \notin family(t) => row'[s] = row[s]
               /\ row'[s].family = row[s].family
               /\ s \in family(t) => row'[s].reason # "live"
    <3>1. revoked[s] \in RowRows /\ row[s] \in RowRows
      BY <1>2, <2>2
    <3>2. row'[s] = [revoked[s] EXCEPT !.reused = revoked[s].reused \/ s \in family(t)]
      BY <2>1
    <3>3. row'[s] \in RowRows /\ row'[s].family = revoked[s].family /\ row'[s].reason = revoked[s].reason
      BY <3>1, <3>2 DEF RowRows
    <3>4. s \notin family(t) => row'[s] = row[s]
      <4> SUFFICES ASSUME s \notin family(t) PROVE row'[s] = row[s]
        OBVIOUS
      <4>1. row'[s] = [row[s] EXCEPT !.reused = row[s].reused]
        BY <2>2, <3>1, <3>2 DEF RowRows
      <4> QED BY <3>1, <4>1 DEF RowRows
    <3> QED BY <2>2, <3>3, <3>4
  <2>4. row' \in [Sessions -> RowRows]
    BY <2>1, <2>3
  <2> QED BY <1>1, <1>4, <1>5, <2>1, <2>3, <2>4, RotationRefused
<1>6. CASE row[t].reason \notin Spent \union {"live"}
  <2>1. Answer(c, "invalid", 0) /\ UNCHANGED <<row, made>>
    BY <1>1, <1>6 DEF rotateRefresh
  <2> QED BY <1>2, <2>1, RotationRefused
<1>7. CASE row[t].reason = "live" /\ t \in overdue
  <2>1. row' = Revoke({t}, "expired") /\ Answer(c, "invalid", 0) /\ UNCHANGED made
    BY <1>1, <1>7 DEF rotateRefresh, Spent
  <2>2. /\ row' \in [Sessions -> RowRows]
        /\ \A s \in Sessions :
             /\ row'[s].family = row[s].family /\ row'[s].reused = row[s].reused
             /\ s = t => row'[s].reason = "expired"
             /\ s # t => row'[s] = row[s]
    BY <1>1, <1>7, <2>1, RevokedRows
  <2> QED BY <1>1, <1>4, <1>7, <2>1, <2>2, RotationRefused DEF Spent
<1>8. CASE row[t].reason = "live" /\ t \notin overdue /\ ~account.active
  <2>1. row' = Revoke(family(t), "user_disabled") /\ Answer(c, "disabled", 0) /\ UNCHANGED made
    BY <1>1, <1>8 DEF rotateRefresh, Spent
  <2>2. /\ row' \in [Sessions -> RowRows]
        /\ \A s \in Sessions :
             /\ row'[s].family = row[s].family /\ row'[s].reused = row[s].reused
             /\ s \in family(t) /\ row[s].reason = "live" => row'[s].reason = "user_disabled"
             /\ s \notin family(t) \/ row[s].reason # "live" => row'[s] = row[s]
    BY <1>1, <2>1, RevokedRows
  <2> QED BY <1>1, <1>4, <1>8, <2>1, <2>2, RotationRefused DEF Spent
<1>9. CASE row[t].reason = "live" /\ t \notin overdue /\ account.active
  <2>1. /\ made < MaxSessions /\ made' = made + 1
        /\ row' = [Revoke({t}, "rotated") EXCEPT ![made + 1] = Live(row[t].family)]
        /\ Answer(c, "rotated", made + 1)
    BY <1>1, <1>9 DEF rotateRefresh, Spent
  <2> QED BY <1>9, <2>1, RotationMade
<1> QED BY <1>5, <1>6, <1>7, <1>8, <1>9

-----------------------------------------------------------------------------
(* Every step keeps the invariant.                                         *)
LEMMA SessionsStep == SessionsInv /\ [AuthNext]_authVars => SessionsInv'
<1> SUFFICES ASSUME SessionsInv, [AuthNext]_authVars PROVE SessionsInv'
  OBVIOUS
<1>1. CASE UserDisabled \/ \E s \in Sessions : logout(s) \/ TimePasses(s) \/ deleteUserSessions(s)
  BY <1>1, EventsKeep
<1>2. CASE \/ AppKilled \/ \E c \in Calls : AnswerDropped(c)
           \/ \E r \in Requests : RequestAnswered(r)
  BY <1>2, OthersKeep
<1>3. CASE \E r \in Requests : ensureSession(r) \/ refreshOnce(r)
  BY <1>3, EnsureKeeps, RefreshKeeps
<1>4. CASE \E c \in Calls : LoginLooks(c) \/ LoginSettles(c) \/ RotateLocks(c) \/ rotateRefresh(c)
  BY <1>4, LooksKeeps, LoginKeeps, RotateKeeps
<1>5. CASE \E c \in Calls : Rotated(c) \/ Recover(c) \/ RefreshFails(c) \/ LoggedIn(c) \/ LoginFails(c)
  BY <1>5, RotatedKeeps, RecoverKeeps, RefreshFailsKeeps, LoggedInKeeps, LoginFailsKeeps
<1>6. CASE UNCHANGED authVars
  BY <1>6 DEF authVars, db, client, SessionsInv, AuthTypeOK, RowsInv, LocksInv, HeadInv, family,
              OneUserPerIdentity, ClientInv
<1> QED BY <1>1, <1>2, <1>3, <1>4, <1>5, <1>6 DEF AuthNext

(* The invariant that the four properties below follow from: sessions are  *)
(* made in order, a locked family has one reader, a live session is the    *)
(* only one of its family, and until something is lost the client knows of *)
(* every call that the server works on.                                    *)
THEOREM SessionsInvariant == AuthSpec => []SessionsInv
<1>1. AuthInit => SessionsInv
  BY Begins
<1>2. SessionsInv /\ [AuthNext]_authVars => SessionsInv'
  BY SessionsStep
<1> QED BY <1>1, <1>2, PTL DEF AuthSpec

(* The rows, calls and the client's session keep their types.              *)
THEOREM SessionsTyping == AuthSpec => []AuthTypeOK
<1>1. SessionsInv => AuthTypeOK
  BY DEF SessionsInv
<1> QED BY <1>1, SessionsInvariant, PTL

(* rotateRefresh leaves a family one usable token, and none once a token   *)
(* of it came twice, however many rotations of old and new tokens overlap. *)
THEOREM OneHead == AuthSpec => []FamilyHasOneHead
<1>1. SessionsInv => FamilyHasOneHead
  <2> SUFFICES ASSUME SessionsInv, NEW s \in Sessions, row[s].reason = "live",
                      NEW q \in family(s) \ {s}
               PROVE  row[q].reason # "live" /\ ~row[q].reused
    BY DEF FamilyHasOneHead
  <2> QED BY DEF SessionsInv, HeadInv
<1> QED BY <1>1, SessionsInvariant, PTL

(* loginWithIdentity makes one user of an identity, however many first     *)
(* logins look for its mapping before one of them writes it.               *)
THEOREM OneUser == AuthSpec => []OneUserPerIdentity
<1>1. SessionsInv => OneUserPerIdentity
  BY DEF SessionsInv
<1> QED BY <1>1, SessionsInvariant, PTL

(* Requests that find their token expired together share one renewal: as   *)
(* long as no answer is lost and the app is not killed, no token is used   *)
(* twice and the one the app holds is not spent.                           *)
THEOREM SpentOnce == AuthSpec => []TokenSpentOnce
<1>1. SessionsInv => TokenSpentOnce
  BY DEF SessionsInv, ClientInv, TokenSpentOnce
<1> QED BY <1>1, SessionsInvariant, PTL
=============================================================================
