------------------------------ MODULE RowLocks ------------------------------
(***************************************************************************)
(* The row locks of the service's transactions.  A transaction is reduced  *)
(* to the rows its statements lock, in their order, and to those it has;   *)
(* what it reads and writes is in the other modules.                       *)
(*                                                                         *)
(* A statement may lock its rows in any order, although some are ordered.  *)
(* A transaction may end after each of its locks, by an early return, by   *)
(* an error or by its commit, so a plan that begins another one is covered *)
(* by it.  Rows that a transaction inserts itself and rows that it has     *)
(* locked before as strongly do not make it wait and are left out.         *)
(***************************************************************************)
EXTENDS Naturals

CONSTANTS
  Transactions,           \* bound: transactions at once
  Accounts,               \* users, each with one identity
  SessionIds, UploadIds,  \* user_sessions, upload_sessions with their media_objects
  PartNumbers, KeyIds,    \* upload_parts by upload and number, idempotency_records
  AccountOf,              \* user_id of sessions and uploads
  FamilyOf                \* token_family_id

(* What the constants must satisfy.                                        *)
ASSUME LocksAssumption ==
  /\ AccountOf \in [SessionIds \union UploadIds -> Accounts]
  /\ DOMAIN FamilyOf = SessionIds

VARIABLE txn   \* by transaction: the locks it wants, those it has, whether it is the cleaner's

locksVars == <<txn>>

-----------------------------------------------------------------------------
(* Locks: PostgreSQL's four strengths.  A new row of a unique key is locked *)
(* as by an update, a foreign key locks its row with a key share, and the   *)
(* advisory lock of a token family is one more row.                         *)

Compatible(m, n) ==
  \/ m = "keyShare" /\ n # "update"
  \/ n = "keyShare" /\ m # "update"
  \/ m = "share" /\ n = "share"

Clash(a, b) == a.table = b.table /\ a.id = b.id /\ ~Compatible(a.mode, b.mode)

(* The lock that the n-th statement takes on a row.                        *)
Want(n, table, id, mode) == [at |-> n, table |-> table, id |-> id, mode |-> mode]

PartsOf(n, u, P, mode) == {Want(n, "part", <<u, p>>, mode) : p \in P}
Audited(n, s) == {Want(n, "session", s, "keyShare")}   \* actor_session_id
Siblings(s) == {r \in SessionIds : FamilyOf[r] = FamilyOf[s]}

-----------------------------------------------------------------------------
(* What the transactions lock.                                             *)

LoginLocks(x) == {Want(1, "identity", x, "update"), Want(2, "user", x, "update")}

RotationLocks_Update(s) ==   \* mutant: for update of s, which a foreign key's lock does not bear
  {Want(1, "family", FamilyOf[s], "update"), Want(2, "session", s, "update"),
   Want(3, "user", AccountOf[s], "share")}
  \union {Want(4, "session", r, "noKeyUpdate") : r \in Siblings(s)}
(* The fourth statement is the one of a token used again.                  *)
RotationLocks(s) ==
  {Want(1, "family", FamilyOf[s], "update"), Want(2, "session", s, "noKeyUpdate"),
   Want(3, "user", AccountOf[s], "share")}
  \union {Want(4, "session", r, "noKeyUpdate") : r \in Siblings(s)}

(* The audit event names the user and the session of the access token.     *)
LogoutLocks(s, access) ==
  {Want(1, "session", s, "noKeyUpdate"), Want(2, "user", AccountOf[s], "keyShare")}
  \union Audited(2, access)

NicknameLocks(s) == {Want(1, "user", AccountOf[s], "update")} \union Audited(2, s)

InitializationLocks(s, k) ==
  {Want(1, "user", AccountOf[s], "noKeyUpdate"), Want(3, "key", k, "update")} \union Audited(2, s)

(* Both ends of an initialization, and the abort of an upload.             *)
LifecycleLocks(s, u, k) ==
  {Want(1, "user", AccountOf[s], "share"), Want(3, "media", u, "update"),
   Want(4, "upload", u, "update"), Want(6, "key", k, "update")} \union Audited(2, s)

CompletionLocks(s, u, k) == LifecycleLocks(s, u, k) \union PartsOf(5, u, PartNumbers, "update")

(* A part that is prepared or confirmed; an upload whose time is over or   *)
(* whose first part is rejected locks no part.                             *)
PartLocks(s, u, P) ==
  {Want(1, "user", AccountOf[s], "share"), Want(2, "media", u, "update"),
   Want(3, "upload", u, "update")} \union PartsOf(4, u, P, "update") \union Audited(5, s)

ClearLocks(s, U) ==
  {Want(1, "user", AccountOf[s], "update")}
  \union {Want(2, "upload", u, "noKeyUpdate") : u \in U} \union Audited(3, s)

DeletionLocks(s, u) ==
  {Want(1, "user", AccountOf[s], "update"), Want(2, "upload", u, "update")} \union Audited(3, s)

(* The workers.  A claim and a new attempt are one statement.              *)
ClaimLocks(u) == {Want(1, "upload", u, "noKeyUpdate")}

FinalizationLocks(u) ==
  {Want(1, "media", u, "update"), Want(2, "upload", u, "update")}
  \union PartsOf(3, u, PartNumbers, "noKeyUpdate")

AbortLocks(u, k) ==
  {Want(1, "user", AccountOf[u], "share"), Want(2, "media", u, "update"),
   Want(3, "upload", u, "update"), Want(4, "key", k, "update")}

(* The deadline scanner stops at the upload.                               *)
ReconciliationLocks(u, k) ==
  {Want(1, "media", u, "update"), Want(2, "upload", u, "update"), Want(3, "key", k, "update")}

(* The retention cleaner.  rotated_from_session_id goes with its session.  *)
KeyCleaning(K) == {Want(1, "key", k, "update") : k \in K}
PartCleaning(U) == UNION {PartsOf(1, u, PartNumbers, "update") : u \in U}
SessionCleaning(S) ==
  {Want(1, "session", s, "update") : s \in S}
  \union {Want(2, "session", r, "noKeyUpdate") : r \in UNION {Siblings(s) : s \in S}}

-----------------------------------------------------------------------------
(* Transactions.                                                           *)

NoTransaction == [wants |-> {}, has |-> {}, cleaner |-> FALSE]

LocksInit == txn = [t \in Transactions |-> NoTransaction]

Tables == {"identity", "user", "family", "session", "media", "upload", "part", "key"}
Ids == Accounts \union {FamilyOf[s] : s \in SessionIds} \union SessionIds \union UploadIds
       \union (UploadIds \X PartNumbers) \union KeyIds
Wanted == [at : 1..6, table : Tables, id : Ids,
           mode : {"keyShare", "share", "noKeyUpdate", "update"}]

LocksTypeOK ==
  /\ txn \in [Transactions -> [wants : SUBSET Wanted, has : SUBSET Wanted, cleaner : BOOLEAN]]
  /\ \A t \in Transactions : txn[t].has \subseteq txn[t].wants

TransactionStarts(t, wants, cleaner) ==
  /\ txn[t] = NoTransaction
  /\ txn' = [txn EXCEPT ![t] = [wants |-> wants, has |-> {}, cleaner |-> cleaner]]

(* The locks of the statement that the transaction is at.                  *)
Current(t) ==
  LET left == txn[t].wants \ txn[t].has IN {a \in left : \A b \in left : a.at <= b.at}

Held(a, t) == \E b \in txn[t].has : Clash(a, b)

TakeLock(t) ==
  \E a \in Current(t) :
    /\ \A other \in Transactions \ {t} : ~Held(a, other)
    /\ txn' = [txn EXCEPT ![t].has = @ \union {a}]

(* Commit or rollback.                                                     *)
TransactionEnds(t) ==
  /\ txn[t] # NoTransaction
  /\ txn' = [txn EXCEPT ![t] = NoTransaction]

Own(s) == {u \in UploadIds : AccountOf[u] = AccountOf[s]}

AuthStarts(t) ==
  \/ \E x \in Accounts : TransactionStarts(t, LoginLocks(x), FALSE)
  \/ \E s \in SessionIds : TransactionStarts(t, RotationLocks(s), FALSE)
  \/ \E s \in SessionIds : \E access \in {r \in SessionIds : AccountOf[r] = AccountOf[s]} :
       TransactionStarts(t, LogoutLocks(s, access), FALSE)
  \/ \E s \in SessionIds : TransactionStarts(t, NicknameLocks(s), FALSE)

UploadStarts(t) ==
  \E s \in SessionIds :
    \/ \E k \in KeyIds : TransactionStarts(t, InitializationLocks(s, k), FALSE)
    \/ \E u \in Own(s), k \in KeyIds : TransactionStarts(t, LifecycleLocks(s, u, k), FALSE)
    \/ \E u \in Own(s), k \in KeyIds : TransactionStarts(t, CompletionLocks(s, u, k), FALSE)
    \/ \E u \in Own(s) : TransactionStarts(t, PartLocks(s, u, {}), FALSE)
    \/ \E u \in Own(s), p \in PartNumbers : TransactionStarts(t, PartLocks(s, u, {p}), FALSE)
    \/ \E U \in SUBSET Own(s) : TransactionStarts(t, ClearLocks(s, U), FALSE)
    \/ \E u \in Own(s) : TransactionStarts(t, DeletionLocks(s, u), FALSE)

WorkerStarts(t) ==
  \E u \in UploadIds :
    \/ TransactionStarts(t, ClaimLocks(u), FALSE)
    \/ TransactionStarts(t, FinalizationLocks(u), FALSE)
    \/ \E k \in KeyIds : TransactionStarts(t, AbortLocks(u, k), FALSE)
    \/ \E k \in KeyIds : TransactionStarts(t, ReconciliationLocks(u, k), FALSE)

CleanerStarts(t) ==
  \/ \E K \in SUBSET KeyIds : TransactionStarts(t, KeyCleaning(K), TRUE)
  \/ \E U \in SUBSET UploadIds : TransactionStarts(t, PartCleaning(U), TRUE)
  \/ \E S \in SUBSET SessionIds : TransactionStarts(t, SessionCleaning(S), TRUE)

LocksNext ==
  \E t \in Transactions :
    \/ AuthStarts(t) \/ UploadStarts(t) \/ WorkerStarts(t) \/ CleanerStarts(t)
    \/ TakeLock(t) \/ TransactionEnds(t)

LocksSpec == LocksInit /\ [][LocksNext]_locksVars

-----------------------------------------------------------------------------
(* Properties.                                                             *)

Waits(t, other) == t # other /\ \E a \in Current(t) : Held(a, other)

(* Handlers and workers lock users, sessions, media, uploads, parts and    *)
(* keys in orders that differ, and yet they never wait for each other in a *)
(* circle: each circle has a statement of the retention cleaner in it.     *)
NoServerDeadlock ==
  \A D \in SUBSET Transactions :
    D # {} /\ (\A t \in D : \E other \in D : Waits(t, other)) => \E t \in D : txn[t].cleaner
=============================================================================
