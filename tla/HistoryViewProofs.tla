--------------------------- MODULE HistoryViewProofs ---------------------------
(***************************************************************************)
(* Theorems about HistoryView for every number of records, page size,      *)
(* number of watched refreshes and number of taps; two of them are about   *)
(* histories that grow, or pages that are long, only so far.               *)
(***************************************************************************)
EXTENDS HistoryView, FiniteSetTheorems, TLAPS

Pages == UNION {[S -> Status] : S \in SUBSET Records}
PageAnswers == [items : Pages, next : 0..RecordCount]
ListRows == [at : {"none", "sent", "read"}, limit : Nat, before : 0..RecordCount, answer : PageAnswers]

Types ==
  /\ status \in [Records -> Status \union {"none"}] /\ hidden \subseteq Records
  /\ life \in {"shown", "paused", "gone"}
  /\ items \in Pages /\ cursor \in 0..RecordCount
  /\ lists \in [Kinds -> ListRows]
  /\ timer \in BOOLEAN /\ watch \in 0..WatchRefreshes
  /\ pending \in [Operations -> [Records -> {"none", "sent", "done"}]]
  /\ clear \in [at : {"none", "sent", "done", "reload"}, current : BOOLEAN]
  /\ taps \in 0..MaxTaps

-----------------------------------------------------------------------------
(* Finite sets of numbers.                                                 *)

LEMMA Least ==
  ASSUME NEW S, S \subseteq Nat, IsFiniteSet(S), S # {}
  PROVE  \E n \in S : \A m \in S : n <= m
<1> DEFINE Below(n) == {m \in S : m <= n}
           T == {Below(n) : n \in S}
<1>1. T \subseteq FiniteSubsetsOf(S) /\ T # {}
  <2>1. \A n \in S : Below(n) \subseteq S /\ IsFiniteSet(Below(n))
    BY FS_Subset
  <2>2. \A n \in S : Below(n) \in FiniteSubsetsOf(S)
    BY <2>1 DEF FiniteSubsetsOf
  <2> HIDE DEF Below
  <2> QED BY <2>2
<1>2. PICK x \in T : \A y \in T : ~ (<<y, x>> \in StrictSubsetOrdering(S))
  <2> HIDE DEF T
  <2> QED BY <1>1, FS_StrictSubsetOrderingWellFounded, WFMin
<1>3. PICK n \in S : x = Below(n)
  OBVIOUS
<1>4. SUFFICES ASSUME NEW m \in S, m < n PROVE FALSE
  OBVIOUS
<1>5. Below(m) \in T /\ Below(m) \subseteq S /\ Below(n) \subseteq S
  OBVIOUS
<1>6. Below(m) \subseteq Below(n) /\ Below(m) # Below(n)
  <2>1. n \in Below(n) /\ n \notin Below(m)
    BY <1>4
  <2>2. \A k \in S : k <= m => k <= n
    BY <1>4
  <2> QED BY <2>1, <2>2
<1> QED BY <1>2, <1>3, <1>5, <1>6 DEF StrictSubsetOrdering

LEMMA Greatest ==
  ASSUME NEW S, NEW n \in Nat, S \subseteq 1..n, S # {}
  PROVE  \E k \in S : \A m \in S : m <= k
<1> DEFINE T == {n - m : m \in S}
<1>1. T \subseteq 0..n /\ T # {}
  OBVIOUS
<1>2. IsFiniteSet(T) /\ T \subseteq Nat
  <2>1. IsFiniteSet(0..n)
    BY FS_Interval, 0 \in Int, n \in Int
  <2>2. T \subseteq Nat
    BY <1>1
  <2> HIDE DEF T
  <2>3. IsFiniteSet(T)
    BY <1>1, <2>1, FS_Subset
  <2> QED BY <2>2, <2>3
<1>3. PICK d \in T : \A e \in T : d <= e
  <2> HIDE DEF T
  <2> QED BY <1>1, <1>2, Least
<1>4. PICK k \in S : d = n - k
  OBVIOUS
<1>5. ASSUME NEW m \in S PROVE m <= k
  <2>1. n - m \in T /\ m \in Nat /\ k \in Nat
    BY <1>4
  <2>2. n - k <= n - m
    BY <1>3, <1>4, <2>1
  <2> QED BY <2>1, <2>2
<1> QED BY <1>5

-----------------------------------------------------------------------------
(* The records of a page.                                                  *)

LEMMA PageOf ==
  ASSUME NEW f
  PROVE  f \in Pages <=> DOMAIN f \subseteq Records /\ f \in [DOMAIN f -> Status]
BY DEF Pages

LEMMA EmptyPage == NoItems \in Pages /\ DOMAIN NoItems = {}
<1>1. DOMAIN NoItems = {} /\ NoItems \in [DOMAIN NoItems -> Status]
  BY DEF NoItems
<1> QED BY <1>1, PageOf

LEMMA Joined ==
  ASSUME NEW f \in Pages, NEW g \in Pages
  PROVE  /\ Merged(f, g) \in Pages /\ DOMAIN Merged(f, g) = DOMAIN f \union DOMAIN g
         /\ \A r \in DOMAIN f : Merged(f, g)[r] = f[r]
         /\ \A r \in DOMAIN g \ DOMAIN f : Merged(f, g)[r] = g[r]
<1> DEFINE h == [r \in DOMAIN f \union DOMAIN g |-> IF r \in DOMAIN f THEN f[r] ELSE g[r]]
<1>1. Merged(f, g) = h
  BY DEF Merged
<1>2. /\ DOMAIN f \subseteq Records /\ f \in [DOMAIN f -> Status]
      /\ DOMAIN g \subseteq Records /\ g \in [DOMAIN g -> Status]
  BY PageOf
<1>3. /\ DOMAIN h = DOMAIN f \union DOMAIN g /\ h \in [DOMAIN h -> Status]
      /\ \A r \in DOMAIN f : h[r] = f[r]
      /\ \A r \in DOMAIN g \ DOMAIN f : h[r] = g[r]
  BY <1>2
<1> HIDE DEF h
<1> QED BY <1>1, <1>2, <1>3, PageOf

LEMMA Cut ==
  ASSUME NEW f \in Pages, NEW S, S \subseteq DOMAIN f
  PROVE  /\ Restrict(f, S) \in Pages /\ DOMAIN Restrict(f, S) = S
         /\ \A r \in S : Restrict(f, S)[r] = f[r]
<1>1. DOMAIN f \subseteq Records /\ f \in [DOMAIN f -> Status]
  BY PageOf
<1>2. /\ DOMAIN Restrict(f, S) = S /\ \A r \in S : Restrict(f, S)[r] = f[r]
      /\ Restrict(f, S) \in [S -> Status]
  BY <1>1 DEF Restrict
<1> QED BY <1>1, <1>2, PageOf

LEMMA Marked ==
  ASSUME NEW f \in Pages, NEW r, NEW s \in Status
  PROVE  /\ [f EXCEPT ![r] = s] \in Pages /\ DOMAIN [f EXCEPT ![r] = s] = DOMAIN f
         /\ \A q \in DOMAIN f : [f EXCEPT ![r] = s][q] = IF q = r THEN s ELSE f[q]
<1>1. DOMAIN f \subseteq Records /\ f \in [DOMAIN f -> Status]
  BY PageOf
<1>2. /\ DOMAIN [f EXCEPT ![r] = s] = DOMAIN f /\ [f EXCEPT ![r] = s] \in [DOMAIN f -> Status]
      /\ \A q \in DOMAIN f : [f EXCEPT ![r] = s][q] = IF q = r THEN s ELSE f[q]
  BY <1>1
<1> QED BY <1>1, <1>2, PageOf

LEMMA NumberOf ==
  ASSUME NEW T, T \subseteq Records
  PROVE  IsFiniteSet(T) /\ Cardinality(T) \in Nat
<1>1. IsFiniteSet(Records)
  BY HistoryAssumption, FS_Interval, 1 \in Int, RecordCount \in Int DEF Records
<1>2. IsFiniteSet(T)
  BY <1>1, FS_Subset
<1> QED BY <1>2, FS_CardinalityType

LEMMA NoMore ==
  ASSUME NEW S, NEW T, S \subseteq T, T \subseteq Records
  PROVE  Cardinality(S) <= Cardinality(T)
<1>1. IsFiniteSet(T)
  BY NumberOf
<1> QED BY <1>1, FS_Subset

(* The newest records of a set: whoever is not among them is older than    *)
(* they all, and they are as many as was asked for.                        *)
LEMMA NewestOf ==
  ASSUME NEW S, S \subseteq Records, NEW k \in Nat
  PROVE  /\ Newest(S, k) \subseteq S
         /\ \A r \in S \ Newest(S, k) :
              /\ \A q \in Newest(S, k) : q > r
              /\ Cardinality(Newest(S, k)) >= k
<1> DEFINE Above(r) == {q \in S : q > r}
           N == Newest(S, k)
<1>1. N = {r \in S : Cardinality(Above(r)) < k}
  BY DEF Newest
<1>2. \A r \in S : r \in Nat
  BY DEF Records
<1>3. \A r \in S : Above(r) \subseteq Records /\ Cardinality(Above(r)) \in Nat
  <2> SUFFICES ASSUME NEW r \in S PROVE Above(r) \subseteq Records /\ Cardinality(Above(r)) \in Nat
    OBVIOUS
  <2>1. Above(r) \subseteq Records
    OBVIOUS
  <2> HIDE DEF Above
  <2> QED BY <2>1, NumberOf
<1> HIDE DEF N
<1>4. N \subseteq S
  BY <1>1
<1>5. ASSUME NEW r \in S \ N, NEW q \in N PROVE q > r
  <2>1. SUFFICES ASSUME q < r PROVE FALSE
    BY <1>2, <1>4
  <2>2. Above(r) \subseteq Above(q)
    BY <1>2, <1>4, <2>1
  <2>3. q \in S /\ ~(Cardinality(Above(r)) < k) /\ Cardinality(Above(q)) < k
    BY <1>1
  <2> HIDE DEF Above
  <2>4. Cardinality(Above(r)) <= Cardinality(Above(q))
    BY <1>3, <2>2, <2>3, NoMore
  <2> QED BY <1>3, <2>3, <2>4
<1>6. ASSUME NEW r \in S \ N PROVE Cardinality(N) >= k
  <2>1. PICK m \in S \ N : \A q \in S \ N : q <= m
    <3>1. S \ N \subseteq 1..RecordCount /\ RecordCount \in Nat
      BY HistoryAssumption DEF Records
    <3>2. S \ N # {}
      OBVIOUS
    <3> QED BY <3>1, <3>2, Greatest
  <2>2. Above(m) \subseteq N
    BY <1>2, <2>1
  <2>3. ~(Cardinality(Above(m)) < k)
    BY <1>1
  <2>4. N \subseteq Records
    BY <1>4
  <2> HIDE DEF Above
  <2>5. Cardinality(Above(m)) <= Cardinality(N)
    BY <2>2, <2>4, NoMore
  <2>6. Cardinality(N) \in Nat
    BY <2>4, NumberOf
  <2> QED BY <1>3, <2>3, <2>5, <2>6
<1> QED BY <1>4, <1>5, <1>6 DEF N

(* A page of the server is of the records asked for, it is full if one of  *)
(* them is older than it, and its cursor is its oldest record.             *)
LEMMA Listing ==
  ASSUME Types, NEW limit \in Nat \ {0}, NEW before \in 0..RecordCount
  PROVE  LET answer == listPage(limit, before)
         IN /\ answer \in PageAnswers
            /\ DOMAIN answer.items \subseteq After(before)
            /\ \A r \in DOMAIN answer.items : answer.items[r] = status[r]
            /\ answer.next # 0 => answer.next \in DOMAIN answer.items
            /\ \A r \in After(before) \ DOMAIN answer.items :
                 /\ \A q \in DOMAIN answer.items : q > r
                 /\ Cardinality(DOMAIN answer.items) >= limit
<1> DEFINE all == After(before)
           rows == Newest(all, limit + 1)
           shown == Newest(rows, limit)
           answer == listPage(limit, before)
<1>1. all \subseteq Records /\ \A r \in all : status[r] # "none"
  BY DEF After, Listed
<1>2. limit \in Nat /\ limit + 1 \in Nat
  OBVIOUS
<1> HIDE DEF all
<1>3. /\ rows \subseteq all
      /\ \A r \in all \ rows : (\A q \in rows : q > r) /\ Cardinality(rows) >= limit + 1
  BY <1>1, <1>2, NewestOf
<1> HIDE DEF rows
<1>4. rows \subseteq Records
  BY <1>1, <1>3
<1>5. /\ shown \subseteq rows
      /\ \A r \in rows \ shown : (\A q \in shown : q > r) /\ Cardinality(shown) >= limit
  BY <1>2, <1>4, NewestOf
<1> HIDE DEF shown
<1>6. shown \subseteq Records
  BY <1>4, <1>5
<1>7. answer = [items |-> [r \in shown |-> status[r]],
                next |-> IF rows = shown THEN 0 ELSE Min(shown)]
  BY DEF listPage, rows, shown, all
<1> HIDE DEF answer
<1>8. ASSUME rows # shown PROVE Min(shown) \in shown
  <2>1. Cardinality(shown) >= limit
    BY <1>5, <1>8
  <2>2. shown # {}
    <3>1. limit > 0
      OBVIOUS
    <3>2. shown = {} => Cardinality(shown) = 0
      BY FS_EmptySet
    <3> QED BY <2>1, <3>1, <3>2
  <2>3. \E r \in shown : \A q \in shown : r <= q
    <3>1. shown \subseteq Nat /\ IsFiniteSet(shown)
      <4>1. shown \subseteq Nat
        BY <1>6 DEF Records
      <4> QED BY <1>6, <4>1, NumberOf
    <3> QED BY <2>2, <3>1, Least
  <2> QED BY <2>3 DEF Min
<1>9. ASSUME NEW r \in all \ shown
      PROVE  (\A q \in shown : q > r) /\ Cardinality(shown) >= limit
  <2>1. CASE r \in rows
    BY <1>5, <2>1
  <2>2. CASE r \notin rows
    <3>1. (\A q \in rows : q > r) /\ Cardinality(rows) >= limit + 1
      BY <1>3, <2>2
    <3>2. CASE rows = shown
      <4>1. Cardinality(rows) \in Nat
        BY <1>4, NumberOf
      <4> QED BY <3>1, <3>2, <4>1
    <3>3. CASE rows # shown
      BY <1>5, <3>1, <3>3
    <3> QED BY <3>2, <3>3
  <2> QED BY <2>1, <2>2
<1>10. /\ DOMAIN answer.items = shown /\ answer.items \in [shown -> Status]
       /\ \A r \in shown : answer.items[r] = status[r]
  <2>1. \A r \in shown : status[r] \in Status
    BY <1>1, <1>3, <1>5, <1>6 DEF Types
  <2> QED BY <1>7, <2>1
<1>11. answer \in PageAnswers /\ (answer.next # 0 => answer.next \in shown)
  <2>1. answer.items \in Pages
    BY <1>6, <1>10, PageOf
  <2>2. answer.next \in 0..RecordCount /\ (answer.next # 0 => answer.next \in shown)
    <3>1. Records \subseteq 0..RecordCount /\ 0 \in 0..RecordCount
      BY HistoryAssumption DEF Records
    <3> QED BY <1>6, <1>7, <1>8, <3>1
  <2> QED BY <1>7, <2>1, <2>2 DEF PageAnswers
<1> QED BY <1>3, <1>5, <1>9, <1>10, <1>11 DEF answer, all

-----------------------------------------------------------------------------
(* What holds of the requests for the list, of their answers and of the    *)
(* page whatever the records do.                                           *)

Exists(r) == status[r] # "none"
Final == Status \ Nonterminal

(* A request asks for a page at least; only that for a further page has a  *)
(* cursor, the page's, and is not beside a first page.                     *)
ListsInv ==
  /\ \A k \in Kinds : Busy(k) =>
       /\ lists[k].limit >= PageSize
       /\ lists[k].before # 0 => k = "next" /\ lists[k].before = cursor
  /\ Busy("next") => lists["next"].before = cursor /\ cursor # 0 /\ ~Busy("first")

(* The records come in their order, and the page has none but them.        *)
OrderInv ==
  /\ \A r \in Records : r <= Recorded => Exists(r)
  /\ \A q, r \in Records : Exists(q) /\ r <= q => Exists(r)
  /\ \A r \in DOMAIN items : Exists(r)
  /\ cursor # 0 => Exists(cursor)

(* A record of the server that an answer ought to have and has not is      *)
(* older than those it has, and these are a full page.  One that is newer  *)
(* than all of them may have come after the answer was made.               *)
Complete(list) ==
  \A r \in Listed \ DOMAIN list.answer.items :
    /\ list.before = 0 \/ r < list.before
    /\ list.before # 0 \/ r <= Recorded \/ \E q \in DOMAIN list.answer.items : q > r
    => /\ \A q \in DOMAIN list.answer.items : q > r
       /\ Cardinality(DOMAIN list.answer.items) >= PageSize

AnswersInv ==
  \A k \in Kinds : lists[k].at = "read" =>
    /\ \A r \in DOMAIN lists[k].answer.items :
         /\ Exists(r)
         /\ lists[k].before # 0 => r < lists[k].before
         /\ lists[k].answer.items[r] \in Final => status[r] = lists[k].answer.items[r]
    /\ lists[k].answer.next # 0 => lists[k].answer.next \in DOMAIN lists[k].answer.items
    /\ Complete(lists[k])

(* What is over on the page is over on the server, and a record is deleted *)
(* only when it is over.                                                   *)
FinalInv ==
  /\ \A r \in DOMAIN items : items[r] \in Final => status[r] = items[r]
  /\ \A r \in Records : pending["delete"][r] # "none" => status[r] \in Final
  /\ \A r \in Records : pending["delete"][r] = "done" => r \in hidden

(* Of the records there were at first none above the cursor is missing.    *)
OldInv ==
  \A r \in Listed :
    /\ status[r] # "uploaded" /\ r <= Recorded
    /\ cursor # 0 /\ r >= cursor
    => r \in DOMAIN items

HistoryInv == Types /\ ListsInv /\ OrderInv /\ AnswersInv /\ FinalInv /\ OldInv

-----------------------------------------------------------------------------
(* One step, one variable at a time.                                       *)

RemoteStep ==
  /\ \A r \in Records :
       \/ status'[r] = status[r]
       \/ status[r] = "none" /\ status'[r] = "uploading" /\ \A q \in 1..(r - 1) : Exists(q)
       \/ status[r] \in Nonterminal /\ status'[r] \in Status
  /\ hidden \subseteq hidden'

ListStep(k) ==
  \/ lists'[k] = lists[k]
  \/ lists'[k].at = "none"
  \/ lists'[k].at = "sent"
  \/ /\ lists[k].at = "sent" /\ lists'[k].at = "read"
     /\ lists'[k].limit = lists[k].limit /\ lists'[k].before = lists[k].before
     /\ lists'[k].answer = listPage(lists[k].limit, lists[k].before)
     /\ UNCHANGED <<status, hidden>>

(* The page is changed by an answer, or records leave it that were deleted *)
(* or cleared, or one is shown as cancelling.                              *)
PageStep ==
  \/ /\ cursor' = cursor /\ DOMAIN items' \subseteq DOMAIN items
     /\ \A r \in DOMAIN items' : items'[r] = items[r] \/ items'[r] = "cancelling"
     /\ \A r \in DOMAIN items \ DOMAIN items' : items[r] = "uploaded" \/ pending["delete"][r] = "done"
  \/ /\ lists["first"].at = "read"
     /\ items' = lists["first"].answer.items /\ cursor' = lists["first"].answer.next
  \/ /\ lists["next"].at = "read"
     /\ items' = Merged(items, lists["next"].answer.items) /\ cursor' = lists["next"].answer.next
  \/ /\ lists["refresh"].at = "read"
     /\ items' = Merged(lists["refresh"].answer.items, items) /\ cursor' = cursor

DeleteStep(r) ==
  \/ pending'["delete"][r] = pending["delete"][r]
  \/ pending'["delete"][r] = "none"
  \/ pending'["delete"][r] = "sent" /\ r \in DOMAIN items /\ items[r] \in Final
  \/ /\ pending["delete"][r] = "sent" /\ pending'["delete"][r] = "done"
     /\ status[r] \in Final => r \in hidden'

HistorySteps ==
  /\ RemoteStep /\ PageStep
  /\ \A k \in Kinds : ListStep(k)
  /\ \A r \in Records : DeleteStep(r)

Asked(limit, before) ==
  /\ Ask(limit, before) \in ListRows /\ Ask(limit, before).at = "sent"
  /\ Ask(limit, before).limit = limit /\ Ask(limit, before).before = before

LEMMA Requesting ==
  /\ NoList \in ListRows /\ NoList.at = "none"
  /\ NoClear \in [at : {"none", "sent", "done", "reload"}, current : BOOLEAN]
  /\ \A limit \in Nat, before \in 0..RecordCount : Asked(limit, before)
  /\ NoRequests \in [Kinds -> ListRows] /\ \A k \in Kinds : NoRequests[k].at = "none"
  /\ FirstPage \in [Kinds -> ListRows]
  /\ \A k \in Kinds : FirstPage[k] = IF k = "first" THEN Ask(PageSize, 0) ELSE NoList
<1>1. 0 \in 0..RecordCount /\ PageSize \in Nat
  BY HistoryAssumption
<1>2. NoAnswer \in PageAnswers
  BY <1>1, EmptyPage DEF NoAnswer, PageAnswers
<1>3. NoList \in ListRows /\ NoList.at = "none"
  BY <1>1, <1>2 DEF NoList, ListRows
<1>4. \A limit \in Nat, before \in 0..RecordCount : Asked(limit, before)
  BY <1>2 DEF Asked, Ask, ListRows
<1>5. NoRequests \in [Kinds -> ListRows] /\ \A k \in Kinds : NoRequests[k] = NoList
  BY <1>3 DEF NoRequests
<1>6. Ask(PageSize, 0) \in ListRows
  BY <1>1, <1>4 DEF Asked
<1>7. /\ FirstPage \in [Kinds -> ListRows]
      /\ \A k \in Kinds : FirstPage[k] = IF k = "first" THEN Ask(PageSize, 0) ELSE NoList
  BY <1>5, <1>6 DEF FirstPage
<1>8. NoClear \in [at : {"none", "sent", "done", "reload"}, current : BOOLEAN]
  BY DEF NoClear
<1> QED BY <1>3, <1>4, <1>5, <1>7, <1>8

LEMMA Scheduled ==
  ASSUME NEW its, EnsureRefreshScheduled(its), Types
  PROVE  timer' \in BOOLEAN
<1>1. (timer \/ (life = "shown" /\ hasRefreshableNonterminalRecord(its))) \in BOOLEAN
  OBVIOUS
<1> QED BY <1>1, Zenon DEF EnsureRefreshScheduled

(* A request ends, or begins, and the others go on.                        *)
LEMMA ListMoves ==
  ASSUME Types, NEW k \in Kinds, NEW row \in ListRows, lists' = [lists EXCEPT ![k] = row]
  PROVE  /\ lists' \in [Kinds -> ListRows]
         /\ lists'[k] = row /\ \A j \in Kinds \ {k} : lists'[j] = lists[j]
BY DEF Types

LEMMA KindsAre == "first" \in Kinds /\ "next" \in Kinds /\ "refresh" \in Kinds
BY DEF Kinds

(* A step that leaves the page alone, and what of the rest it may change.  *)
LEMMA PageRests ==
  ASSUME Types, ListsInv, UNCHANGED page
  PROVE  /\ life' \in {"shown", "paused", "gone"} /\ items' \in Pages /\ cursor' \in 0..RecordCount
         /\ lists' \in [Kinds -> ListRows] /\ timer' \in BOOLEAN /\ watch' \in 0..WatchRefreshes
         /\ ListsInv' /\ PageStep /\ \A k \in Kinds : ListStep(k)
BY DEF Types, page, ListsInv, Busy, PageStep, ListStep

LEMMA RemoteRests ==
  ASSUME Types, UNCHANGED remote
  PROVE  status' \in [Records -> Status \union {"none"}] /\ hidden' \subseteq Records /\ RemoteStep
BY DEF Types, remote, RemoteStep

LEMMA DeletionsRest ==
  ASSUME Types, UNCHANGED pending
  PROVE  /\ pending' \in [Operations -> [Records -> {"none", "sent", "done"}]]
         /\ \A r \in Records : DeleteStep(r)
BY DEF Types, DeleteStep

LEMMA GenerationMoves ==
  ASSUME Types, NEW requests \in {NoRequests, FirstPage}, Generation(requests),
         UNCHANGED <<items, cursor>>
  PROVE  /\ lists' \in [Kinds -> ListRows] /\ timer' \in BOOLEAN
         /\ clear' \in [at : {"none", "sent", "done", "reload"}, current : BOOLEAN]
         /\ ListsInv' /\ PageStep /\ \A k \in Kinds : ListStep(k)
<1>1. lists' = requests /\ timer' = FALSE /\ clear' = [clear EXCEPT !.current = FALSE]
  BY DEF Generation
<1>2. 0 \in 0..RecordCount /\ PageSize \in Nat
  BY HistoryAssumption
<1>3. \A k \in Kinds : lists'[k].at = "none" \/ (k = "first" /\ lists'[k] = Ask(PageSize, 0))
  BY <1>1, Requesting
<1>4. Asked(PageSize, 0)
  BY <1>2, Requesting
<1>5. ListsInv'
  <2>1. \A k \in Kinds : lists'[k].at # "none" =>
          lists'[k].limit = PageSize /\ lists'[k].before = 0 /\ k = "first"
    BY <1>3, <1>4 DEF Asked
  <2>2. lists'["next"].at = "none"
    BY <2>1, KindsAre
  <2> QED BY <1>2, <2>1, <2>2 DEF ListsInv, Busy
<1>6. \A k \in Kinds : ListStep(k)
  BY <1>3, <1>4 DEF ListStep, Asked
<1>7. lists' \in [Kinds -> ListRows]
  BY <1>1, Requesting
<1>8. clear' \in [at : {"none", "sent", "done", "reload"}, current : BOOLEAN]
  BY <1>1 DEF Types
<1>9. PageStep
  BY DEF PageStep
<1> QED BY <1>1, <1>5, <1>6, <1>7, <1>8, <1>9

(* A request for the list ends, and if it was one with the page's cursor,  *)
(* or a first page, the cursor may change.                                 *)
LEMMA RequestEnds ==
  ASSUME Types, ListsInv, NEW k \in Kinds, Busy(k), ListEnds(k),
         cursor' = cursor \/ k \in {"first", "next"}
  PROVE  /\ lists' \in [Kinds -> ListRows] /\ ListsInv' /\ \A j \in Kinds : ListStep(j)
<1>1. /\ lists' \in [Kinds -> ListRows]
      /\ lists'[k].at = "none" /\ \A j \in Kinds \ {k} : lists'[j] = lists[j]
  BY ListMoves, Requesting DEF ListEnds
<1>2. \A j \in Kinds : lists'[j].at # "none" => lists'[j] = lists[j] /\ j # k
  BY <1>1
<1>3. ListsInv'
  <2>1. ASSUME NEW j \in Kinds, lists'[j].at # "none"
        PROVE  /\ lists'[j].limit >= PageSize
               /\ lists'[j].before # 0 => j = "next" /\ lists'[j].before = cursor'
    <3>1. lists'[j] = lists[j] /\ j # k /\ lists[j].at # "none"
      BY <1>2, <2>1
    <3>2. /\ lists[j].limit >= PageSize
          /\ lists[j].before # 0 => j = "next" /\ lists[j].before = cursor
      BY <3>1 DEF ListsInv, Busy
    <3>3. j = "next" => k # "first"
      BY <3>1 DEF ListsInv, Busy
    <3> QED BY <3>1, <3>2, <3>3
  <2>2. ASSUME lists'["next"].at # "none"
        PROVE  lists'["next"].before = cursor' /\ cursor' # 0 /\ lists'["first"].at = "none"
    <3>1. lists'["next"] = lists["next"] /\ k # "next"
      BY <1>2, <2>2, KindsAre
    <3>2. lists["next"].before = cursor /\ cursor # 0 /\ lists["first"].at = "none"
      BY <2>2, <3>1 DEF ListsInv, Busy
    <3>3. k # "first"
      BY <3>2 DEF Busy
    <3> QED BY <1>1, <3>1, <3>2, <3>3, KindsAre
  <2> QED BY <2>1, <2>2 DEF ListsInv, Busy
<1> QED BY <1>1, <1>3 DEF ListStep

(* A request begins that is not beside a like one.                         *)
LEMMA RequestBegins ==
  ASSUME Types, ListsInv, NEW k \in {"next", "refresh"}, NEW limit \in Nat, limit >= PageSize,
         NEW before \in 0..RecordCount, lists' = [lists EXCEPT ![k] = Ask(limit, before)],
         IF k = "next" THEN before = cursor /\ cursor # 0 /\ ~Busy("first") ELSE before = 0,
         UNCHANGED <<items, cursor>>
  PROVE  /\ lists' \in [Kinds -> ListRows] /\ ListsInv' /\ PageStep /\ \A j \in Kinds : ListStep(j)
<1>1. k \in Kinds
  BY KindsAre
<1>2. Asked(limit, before)
  BY Requesting
<1>3. /\ lists' \in [Kinds -> ListRows]
      /\ lists'[k] = Ask(limit, before) /\ \A j \in Kinds \ {k} : lists'[j] = lists[j]
  BY <1>1, <1>2, ListMoves DEF Asked
<1>4. ListsInv'
  <2>1. ASSUME NEW j \in Kinds, lists'[j].at # "none"
        PROVE  /\ lists'[j].limit >= PageSize
               /\ lists'[j].before # 0 => j = "next" /\ lists'[j].before = cursor
    BY <1>2, <1>3, <2>1 DEF Asked, ListsInv, Busy
  <2>2. ASSUME lists'["next"].at # "none"
        PROVE  lists'["next"].before = cursor /\ cursor # 0 /\ lists'["first"].at = "none"
    BY <1>2, <1>3, <2>2, KindsAre DEF Asked, ListsInv, Busy
  <2> QED BY <2>1, <2>2 DEF ListsInv, Busy
<1> QED BY <1>2, <1>3, <1>4 DEF ListStep, PageStep, Asked

LEMMA LimitIs ==
  ASSUME Types
  PROVE  refreshLimit \in Nat /\ refreshLimit >= PageSize
<1> DEFINE n == Cardinality(DOMAIN items)
           high == Max({PageSize, n})
<1>1. n \in Nat /\ PageSize \in Nat /\ MaxRefresh \in Nat /\ MaxRefresh >= PageSize
  <2>1. DOMAIN items \subseteq Records
    BY PageOf DEF Types
  <2> QED BY <2>1, NumberOf, HistoryAssumption
<1> HIDE DEF n
<1>2. high \in Nat /\ high >= PageSize
  <2>1. \E x \in {PageSize, n} : \A y \in {PageSize, n} : x >= y
    BY <1>1
  <2>2. high \in {PageSize, n} /\ \A y \in {PageSize, n} : high >= y
    BY <2>1 DEF Max
  <2> HIDE DEF high
  <2> QED BY <1>1, <2>2
<1>3. refreshLimit = Min({MaxRefresh, high})
  BY DEF refreshLimit, high, n
<1> HIDE DEF high
<1>4. \E x \in {MaxRefresh, high} : \A y \in {MaxRefresh, high} : x <= y
  BY <1>1, <1>2
<1>5. refreshLimit \in {MaxRefresh, high}
  BY <1>3, <1>4 DEF Min
<1> QED BY <1>1, <1>2, <1>5

LEMMA LoadingSteps ==
  ASSUME Types, ListsInv, loadFirstPage \/ loadNextPage \/ pause \/ resume \/ dispose \/ TimerFires
  PROVE  Types' /\ ListsInv' /\ HistorySteps
<1>1. CASE loadFirstPage
  <2>1. /\ Generation(FirstPage) /\ taps < MaxTaps /\ taps' = taps + 1
        /\ UNCHANGED remote /\ UNCHANGED <<life, items, cursor, watch>> /\ UNCHANGED pending
    BY <1>1 DEF loadFirstPage, Tap
  <2>2. taps' \in 0..MaxTaps
    BY <2>1, HistoryAssumption DEF Types
  <2> QED BY <2>1, <2>2, GenerationMoves, RemoteRests, DeletionsRest DEF Types, HistorySteps
<1>2. CASE pause \/ resume \/ dispose
  <2>1. PICK requests \in {NoRequests, FirstPage} : Generation(requests)
    BY <1>2 DEF pause, resume, dispose
  <2>2. /\ life' \in {"shown", "paused", "gone"} /\ UNCHANGED taps
        /\ UNCHANGED remote /\ UNCHANGED <<items, cursor, watch>> /\ UNCHANGED pending
    BY <1>2 DEF pause, resume, dispose
  <2> QED BY <2>1, <2>2, GenerationMoves, RemoteRests, DeletionsRest DEF Types, HistorySteps
<1>3. CASE loadNextPage
  <2>1. /\ ~Busy("first") /\ cursor # 0
        /\ lists' = [lists EXCEPT !["next"] = Ask(PageSize, cursor)]
        /\ UNCHANGED remote /\ UNCHANGED <<life, items, cursor, timer, watch>>
        /\ UNCHANGED pending /\ UNCHANGED <<clear, taps>>
    BY <1>3 DEF loadNextPage, user
  <2>2. PageSize \in Nat /\ PageSize >= PageSize /\ cursor \in 0..RecordCount
    BY HistoryAssumption DEF Types
  <2>3. /\ lists' \in [Kinds -> ListRows] /\ ListsInv' /\ PageStep
        /\ \A k \in Kinds : ListStep(k)
    BY <2>1, <2>2, RequestBegins
  <2> QED BY <2>1, <2>3, RemoteRests, DeletionsRest DEF Types, HistorySteps
<1>4. CASE TimerFires
  <2>1. /\ timer' = FALSE /\ watch' = WatchLeft
        /\ lists' = IF Busy("refresh") THEN lists ELSE [lists EXCEPT !["refresh"] = Ask(refreshLimit, 0)]
        /\ UNCHANGED remote /\ UNCHANGED <<life, items, cursor>> /\ UNCHANGED pending
        /\ UNCHANGED <<clear, taps>>
    BY <1>4 DEF TimerFires, user
  <2>2. watch' \in 0..WatchRefreshes
    BY <2>1, HistoryAssumption DEF Types, WatchLeft
  <2>3. /\ lists' \in [Kinds -> ListRows] /\ ListsInv' /\ PageStep
        /\ \A k \in Kinds : ListStep(k)
    <3>1. CASE Busy("refresh")
      <4>1. lists' = lists
        BY <2>1, <3>1
      <4> QED BY <2>1, <4>1 DEF Types, ListsInv, Busy, PageStep, ListStep
    <3>2. CASE ~Busy("refresh")
      <4>1. lists' = [lists EXCEPT !["refresh"] = Ask(refreshLimit, 0)] /\ UNCHANGED <<items, cursor>>
        BY <2>1, <3>2
      <4>2. 0 \in 0..RecordCount
        BY HistoryAssumption
      <4> QED BY <4>1, <4>2, LimitIs, RequestBegins
    <3> QED BY <3>1, <3>2
  <2> QED BY <2>1, <2>2, <2>3, RemoteRests, DeletionsRest DEF Types, HistorySteps
<1> QED BY <1>1, <1>2, <1>3, <1>4

LEMMA AnsweredSteps ==
  ASSUME Types, ListsInv,
         FirstAnswered \/ NextAnswered \/ RefreshAnswered \/ \E k \in Kinds : ListFails(k)
  PROVE  Types' /\ ListsInv' /\ HistorySteps
<1>1. ASSUME NEW k \in Kinds, Busy(k), ListEnds(k), NEW its, EnsureRefreshScheduled(its),
             UNCHANGED remote, UNCHANGED <<life, watch>>, UNCHANGED user,
             items' \in Pages, cursor' \in 0..RecordCount, PageStep,
             cursor' = cursor \/ k \in {"first", "next"}
      PROVE  Types' /\ ListsInv' /\ HistorySteps
  <2>1. /\ lists' \in [Kinds -> ListRows] /\ ListsInv' /\ \A j \in Kinds : ListStep(j)
    BY <1>1, RequestEnds
  <2>2. timer' \in BOOLEAN
    BY <1>1, Scheduled
  <2>3. UNCHANGED pending /\ UNCHANGED <<clear, taps>>
    BY <1>1 DEF user
  <2> QED BY <1>1, <2>1, <2>2, <2>3, RemoteRests, DeletionsRest DEF Types, HistorySteps
<1>2. \A k \in Kinds : lists[k].answer.items \in Pages /\ lists[k].answer.next \in 0..RecordCount
  BY DEF Types, ListRows, PageAnswers
<1>3. CASE FirstAnswered
  <2>1. /\ Busy("first") /\ ListEnds("first") /\ EnsureRefreshScheduled(items')
        /\ UNCHANGED remote /\ UNCHANGED <<life, watch>> /\ UNCHANGED user
        /\ items' = lists["first"].answer.items /\ cursor' = lists["first"].answer.next
        /\ lists["first"].at = "read"
    BY <1>3 DEF FirstAnswered, Busy
  <2>2. items' \in Pages /\ cursor' \in 0..RecordCount /\ PageStep
    BY <1>2, <2>1, KindsAre DEF PageStep
  <2> QED BY <1>1, <2>1, <2>2, KindsAre
<1>4. CASE NextAnswered
  <2>1. /\ Busy("next") /\ ListEnds("next") /\ EnsureRefreshScheduled(items')
        /\ UNCHANGED remote /\ UNCHANGED <<life, watch>> /\ UNCHANGED user
        /\ items' = Merged(items, lists["next"].answer.items) /\ cursor' = lists["next"].answer.next
        /\ lists["next"].at = "read"
    BY <1>4 DEF NextAnswered, Busy
  <2>2. items' \in Pages /\ cursor' \in 0..RecordCount /\ PageStep
    BY <1>2, <2>1, KindsAre, Joined DEF Types, PageStep
  <2> QED BY <1>1, <2>1, <2>2, KindsAre
<1>5. CASE RefreshAnswered
  <2>1. /\ Busy("refresh") /\ ListEnds("refresh") /\ EnsureRefreshScheduled(items')
        /\ UNCHANGED remote /\ UNCHANGED <<life, watch>> /\ UNCHANGED user
        /\ items' = Merged(lists["refresh"].answer.items, items) /\ cursor' = cursor
        /\ lists["refresh"].at = "read"
    BY <1>5 DEF RefreshAnswered, Busy
  <2>2. items' \in Pages /\ cursor' \in 0..RecordCount /\ PageStep
    BY <1>2, <2>1, KindsAre, Joined DEF Types, PageStep
  <2> QED BY <1>1, <2>1, <2>2, KindsAre
<1>6. CASE \E k \in Kinds : ListFails(k)
  <2>1. PICK k \in Kinds : ListFails(k)
    BY <1>6
  <2>2. /\ Busy(k) /\ ListEnds(k) /\ EnsureRefreshScheduled(items)
        /\ UNCHANGED remote /\ UNCHANGED <<life, watch>> /\ UNCHANGED user
        /\ UNCHANGED <<items, cursor>>
    BY <2>1 DEF ListFails, Busy
  <2>3. items' \in Pages /\ cursor' \in 0..RecordCount /\ PageStep
    BY <2>2 DEF Types, PageStep
  <2> QED BY <1>1, <2>2, <2>3
<1> QED BY <1>3, <1>4, <1>5, <1>6

LEMMA ReadListSteps ==
  ASSUME Types, ListsInv, NEW k \in Kinds, ReadList(k)
  PROVE  Types' /\ ListsInv' /\ HistorySteps
<1> DEFINE answer == listPage(lists[k].limit, lists[k].before)
           row == [lists[k] EXCEPT !.at = "read", !.answer = answer]
<1>1. /\ lists[k].at = "sent"
      /\ lists' = [lists EXCEPT ![k].at = "read", ![k].answer = answer]
      /\ UNCHANGED remote /\ UNCHANGED <<life, items, cursor, timer, watch>> /\ UNCHANGED pending
      /\ UNCHANGED <<clear, taps>> /\ UNCHANGED <<status, hidden>>
  BY DEF ReadList, user, remote
<1>2. lists[k] \in ListRows /\ lists[k].limit \in Nat \ {0} /\ lists[k].before \in 0..RecordCount
  <2>1. lists[k].limit >= PageSize
    BY <1>1 DEF ListsInv, Busy
  <2> QED BY <2>1, HistoryAssumption DEF Types, ListRows
<1>3. answer \in PageAnswers
  BY <1>2, Listing
<1> HIDE DEF answer
<1>4. /\ row \in ListRows /\ row.at = "read" /\ row.limit = lists[k].limit
      /\ row.before = lists[k].before /\ row.answer = answer
  BY <1>2, <1>3 DEF ListRows
<1> HIDE DEF row
<1>5. lists' = [lists EXCEPT ![k] = row]
  BY <1>1 DEF Types, row
<1>6. /\ lists' \in [Kinds -> ListRows]
      /\ lists'[k] = row /\ \A j \in Kinds \ {k} : lists'[j] = lists[j]
  BY <1>4, <1>5, ListMoves
<1>7. ListsInv'
  <2>1. \A j \in Kinds : /\ lists'[j].at # "none" <=> lists[j].at # "none"
                         /\ lists'[j].limit = lists[j].limit /\ lists'[j].before = lists[j].before
    BY <1>1, <1>4, <1>6
  <2> QED BY <1>1, <2>1, KindsAre DEF ListsInv, Busy
<1>8. \A j \in Kinds : ListStep(j)
  <2>1. ListStep(k)
    BY <1>1, <1>4, <1>6 DEF ListStep, answer
  <2>2. \A j \in Kinds \ {k} : ListStep(j)
    BY <1>6 DEF ListStep
  <2> QED BY <2>1, <2>2
<1>9. PageStep
  BY <1>1 DEF PageStep
<1> QED BY <1>1, <1>6, <1>7, <1>8, <1>9, RemoteRests, DeletionsRest DEF Types, HistorySteps

(* The operations on records.                                              *)
LEMMA PendingMoves ==
  ASSUME Types, NEW o \in Operations, NEW r \in Records, NEW place \in {"none", "sent", "done"},
         pending' = [pending EXCEPT ![o][r] = place]
  PROVE  /\ pending' \in [Operations -> [Records -> {"none", "sent", "done"}]]
         /\ pending'[o][r] = place
         /\ \A q \in Records : q # r \/ o # "delete" => pending'["delete"][q] = pending["delete"][q]
<1>1. "delete" \in Operations
  BY DEF Operations
<1> QED BY <1>1 DEF Types

LEMMA OperationSteps ==
  ASSUME Types, ListsInv, NEW o \in Operations, NEW r \in Records, Operate(o, r) \/ ServerOperates(o, r)
  PROVE  Types' /\ ListsInv' /\ HistorySteps
<1>1. CASE Operate(o, r)
  <2>1. /\ r \in DOMAIN items /\ OffersNow(o, r) /\ taps < MaxTaps /\ taps' = taps + 1
        /\ pending' = [pending EXCEPT ![o][r] = "sent"]
        /\ UNCHANGED remote /\ UNCHANGED page /\ UNCHANGED clear
    BY <1>1 DEF Operate, Tap
  <2>2. taps' \in 0..MaxTaps
    BY <2>1, HistoryAssumption DEF Types
  <2>3. /\ pending' \in [Operations -> [Records -> {"none", "sent", "done"}]]
        /\ pending'[o][r] = "sent"
        /\ \A q \in Records : q # r \/ o # "delete" => pending'["delete"][q] = pending["delete"][q]
    BY <2>1, PendingMoves
  <2>4. \A q \in Records : DeleteStep(q)
    <3>1. o = "delete" => items[r] \in Final
      <4>1. items[r] \in Status
        BY <2>1, PageOf DEF Types
      <4> QED BY <2>1, <4>1 DEF OffersNow, Final
    <3> QED BY <2>1, <2>3, <3>1 DEF DeleteStep
  <2> QED BY <2>1, <2>2, <2>3, <2>4, RemoteRests, PageRests DEF Types, HistorySteps
<1>2. CASE ServerOperates(o, r)
  <2>1. /\ pending[o][r] = "sent" /\ pending' = [pending EXCEPT ![o][r] = "done"]
        /\ status' = IF o = "cancel" /\ status[r] = "uploading"
                     THEN [status EXCEPT ![r] = "cancelling"] ELSE status
        /\ hidden' = IF o = "delete" /\ status[r] \notin Nonterminal
                     THEN hidden \union {r} ELSE hidden
        /\ UNCHANGED page /\ UNCHANGED <<clear, taps>>
    BY <1>2 DEF ServerOperates
  <2>2. /\ pending' \in [Operations -> [Records -> {"none", "sent", "done"}]]
        /\ pending'[o][r] = "done"
        /\ \A q \in Records : q # r \/ o # "delete" => pending'["delete"][q] = pending["delete"][q]
    BY <2>1, PendingMoves
  <2>3. "cancelling" \in Status /\ "uploading" \in Nonterminal
    BY DEF Status, Nonterminal
  <2>4. status' \in [Records -> Status \union {"none"}] /\ hidden' \subseteq Records /\ RemoteStep
    BY <2>1, <2>3 DEF Types, RemoteStep
  <2>5. \A q \in Records : DeleteStep(q)
    BY <2>1, <2>2 DEF DeleteStep, Final
  <2> QED BY <2>1, <2>2, <2>4, <2>5, PageRests DEF Types, HistorySteps
<1> QED BY <1>1, <1>2

LEMMA OperatedSteps ==
  ASSUME Types, ListsInv, NEW o \in Operations, NEW r \in Records, Operated(o, r) \/ OperationFails(o, r)
  PROVE  Types' /\ ListsInv' /\ HistorySteps
<1>1. /\ pending' = [pending EXCEPT ![o][r] = "none"]
      /\ UNCHANGED remote /\ UNCHANGED <<life, cursor, lists, watch>> /\ UNCHANGED <<clear, taps>>
  BY DEF Operated, OperationFails
<1>2. pending' \in [Operations -> [Records -> {"none", "sent", "done"}]] /\ \A q \in Records : DeleteStep(q)
  <2>1. /\ pending' \in [Operations -> [Records -> {"none", "sent", "done"}]]
        /\ pending'[o][r] = "none"
        /\ \A q \in Records : q # r \/ o # "delete" => pending'["delete"][q] = pending["delete"][q]
    BY <1>1, PendingMoves
  <2> QED BY <2>1 DEF DeleteStep
<1>3. timer' \in BOOLEAN
  <2>1. UNCHANGED timer \/ EnsureRefreshScheduled(items') \/ EnsureRefreshScheduled(items)
    BY DEF Operated, OperationFails
  <2> QED BY <2>1, Scheduled DEF Types
<1>4. items' \in Pages /\ PageStep
  <2>1. CASE items' = items
    BY <1>1, <2>1 DEF Types, PageStep
  <2>2. CASE items' = [items EXCEPT ![r] = "cancelling"]
    <3>1. /\ items' \in Pages /\ DOMAIN items' = DOMAIN items
          /\ \A q \in DOMAIN items : items'[q] = IF q = r THEN "cancelling" ELSE items[q]
      <4>1. "cancelling" \in Status
        BY DEF Status, Nonterminal
      <4> QED BY <2>2, <4>1, Marked DEF Types
    <3> QED BY <1>1, <3>1 DEF PageStep
  <2>3. CASE pending["delete"][r] = "done" /\ items' = Restrict(items, DOMAIN items \ {r})
    <3>1. /\ items' \in Pages /\ DOMAIN items' = DOMAIN items \ {r}
          /\ \A q \in DOMAIN items \ {r} : items'[q] = items[q]
      BY <2>3, Cut DEF Types
    <3> QED BY <1>1, <2>3, <3>1 DEF PageStep
  <2> QED BY <2>1, <2>2, <2>3 DEF Operated, OperationFails
<1>5. lists' \in [Kinds -> ListRows] /\ ListsInv' /\ \A k \in Kinds : ListStep(k)
  BY <1>1 DEF Types, ListsInv, Busy, ListStep
<1> QED BY <1>1, <1>2, <1>3, <1>4, <1>5, RemoteRests DEF Types, HistorySteps

(* The clearing of the history, and the server by itself.                  *)
LEMMA ClearRows ==
  ASSUME NEW place \in {"none", "sent", "done", "reload"}
  PROVE  /\ [at |-> place, current |-> TRUE]
              \in [at : {"none", "sent", "done", "reload"}, current : BOOLEAN]
         /\ NoClear \in [at : {"none", "sent", "done", "reload"}, current : BOOLEAN]
BY DEF NoClear

LEMMA ClearingSteps ==
  ASSUME Types, ListsInv, clearUploadedRecords \/ ServerClears \/ Cleared \/ ClearEnds
  PROVE  Types' /\ ListsInv' /\ HistorySteps
<1>1. CASE clearUploadedRecords \/ ClearEnds
  <2>1. UNCHANGED remote /\ UNCHANGED page /\ UNCHANGED pending
    BY <1>1 DEF clearUploadedRecords, ClearEnds
  <2>2. clear' \in [at : {"none", "sent", "done", "reload"}, current : BOOLEAN] /\ taps' \in 0..MaxTaps
    <3>1. clear' = [at |-> "sent", current |-> TRUE] \/ clear' = NoClear
      BY <1>1 DEF clearUploadedRecords, ClearEnds
    <3>2. taps' = taps \/ (taps < MaxTaps /\ taps' = taps + 1)
      BY <1>1 DEF clearUploadedRecords, ClearEnds, Tap
    <3>3. taps' \in 0..MaxTaps
      BY <3>2, HistoryAssumption DEF Types
    <3> QED BY <3>1, <3>3, ClearRows
  <2> QED BY <2>1, <2>2, RemoteRests, PageRests, DeletionsRest DEF Types, HistorySteps
<1>2. CASE ServerClears
  <2>1. /\ clear' = [clear EXCEPT !.at = "done"]
        /\ hidden' = hidden \union {r \in Records : status[r] = "uploaded"}
        /\ UNCHANGED status /\ UNCHANGED page /\ UNCHANGED pending /\ UNCHANGED taps
    BY <1>2 DEF ServerClears
  <2>2. clear' \in [at : {"none", "sent", "done", "reload"}, current : BOOLEAN]
    BY <2>1 DEF Types
  <2>3. status' \in [Records -> Status \union {"none"}] /\ hidden' \subseteq Records /\ RemoteStep
    BY <2>1 DEF Types, RemoteStep
  <2> QED BY <2>1, <2>2, <2>3, PageRests, DeletionsRest DEF Types, HistorySteps
<1>3. CASE Cleared
  <2>1. UNCHANGED remote /\ UNCHANGED <<life, cursor, watch>> /\ UNCHANGED pending /\ UNCHANGED taps
    BY <1>3 DEF Cleared
  <2>2. items' \in Pages /\ PageStep
    <3>1. CASE items' = items
      BY <2>1, <3>1 DEF Types, PageStep
    <3>2. CASE items' = Restrict(items, {r \in DOMAIN items : items[r] # "uploaded"})
      <4>1. /\ items' \in Pages /\ DOMAIN items' = {r \in DOMAIN items : items[r] # "uploaded"}
            /\ \A q \in DOMAIN items' : items'[q] = items[q]
        BY <3>2, Cut DEF Types
      <4> QED BY <2>1, <4>1 DEF PageStep
    <3> QED BY <1>3, <3>1, <3>2 DEF Cleared
  <2>3. /\ lists' \in [Kinds -> ListRows] /\ timer' \in BOOLEAN
        /\ ListsInv' /\ \A k \in Kinds : ListStep(k)
    <3>1. CASE UNCHANGED <<lists, timer>>
      BY <2>1, <3>1 DEF Types, ListsInv, Busy, ListStep
    <3>2. CASE lists' = FirstPage /\ timer' = FALSE
      <4>1. \A k \in Kinds : lists'[k].at = "none" \/ (k = "first" /\ lists'[k] = Ask(PageSize, 0))
        BY <3>2, Requesting
      <4>2. Asked(PageSize, 0) /\ PageSize \in Nat
        BY HistoryAssumption, Requesting
      <4>3. \A k \in Kinds : lists'[k].at # "none" =>
              lists'[k].limit = PageSize /\ lists'[k].before = 0 /\ k = "first"
        BY <4>1, <4>2 DEF Asked
      <4>4. ListsInv'
        BY <4>2, <4>3, KindsAre DEF ListsInv, Busy
      <4>5. \A k \in Kinds : ListStep(k)
        BY <4>1, <4>2 DEF ListStep, Asked
      <4> QED BY <3>2, <4>4, <4>5, Requesting
    <3> QED BY <1>3, <3>1, <3>2 DEF Cleared
  <2>4. clear' \in [at : {"none", "sent", "done", "reload"}, current : BOOLEAN]
    <3>1. clear' = [at |-> "reload", current |-> TRUE] \/ clear' = NoClear
      BY <1>3 DEF Cleared
    <3> QED BY <3>1, ClearRows
  <2> QED BY <2>1, <2>2, <2>3, <2>4, RemoteRests, DeletionsRest DEF Types, HistorySteps
<1> QED BY <1>1, <1>2, <1>3

LEMMA ServerSteps ==
  ASSUME Types, ListsInv, NEW r \in Records, NewUpload(r) \/ UploadSettles(r)
  PROVE  Types' /\ ListsInv' /\ HistorySteps
<1>1. /\ UNCHANGED hidden /\ UNCHANGED page /\ UNCHANGED pending /\ UNCHANGED <<clear, taps>>
  BY DEF NewUpload, UploadSettles, user
<1>2. {"uploading", "upload_failed", "uploaded"} \subseteq Status /\ "uploading" \in Nonterminal
  BY DEF Status, Nonterminal, Retryable
<1>3. status' \in [Records -> Status \union {"none"}] /\ RemoteStep
  <2>1. CASE NewUpload(r)
    <3>1. /\ status[r] = "none" /\ \A q \in 1..(r - 1) : status[q] # "none"
          /\ status' = [status EXCEPT ![r] = "uploading"]
      BY <2>1 DEF NewUpload
    <3> QED BY <1>1, <1>2, <3>1 DEF Types, RemoteStep, Exists
  <2>2. CASE UploadSettles(r)
    <3>1. PICK s \in {"upload_failed", "uploaded"} : status' = [status EXCEPT ![r] = s]
      BY <2>2 DEF UploadSettles
    <3>2. status[r] \in Nonterminal
      BY <2>2 DEF UploadSettles
    <3> QED BY <1>1, <1>2, <3>1, <3>2 DEF Types, RemoteStep
  <2> QED BY <2>1, <2>2
<1> QED BY <1>1, <1>3, PageRests, DeletionsRest DEF Types, HistorySteps

LEMMA AllSteps ==
  ASSUME Types, ListsInv, [HistoryNext]_historyVars
  PROVE  Types' /\ ListsInv' /\ HistorySteps
<1>1. CASE UNCHANGED historyVars
  <2>1. UNCHANGED remote /\ UNCHANGED page /\ UNCHANGED pending /\ UNCHANGED <<clear, taps>>
    BY <1>1 DEF historyVars, user
  <2> QED BY <2>1, RemoteRests, PageRests, DeletionsRest DEF Types, HistorySteps
<1>2. CASE HistoryNext
  BY <1>2, LoadingSteps, AnsweredSteps, ReadListSteps, OperationSteps, OperatedSteps, ClearingSteps,
     ServerSteps DEF HistoryNext
<1> QED BY <1>1, <1>2

-----------------------------------------------------------------------------
(* What the records' steps leave.                                          *)

LEMMA RecordsStay ==
  ASSUME Types, RemoteStep, NEW r \in Records
  PROVE  /\ Exists(r) => Exists(r)'
         /\ status[r] \in Final => status'[r] = status[r]
<1>1. "none" \notin Status /\ "none" \notin Nonterminal /\ "uploading" # "none"
  BY DEF Status, Nonterminal, Retryable
<1>2. \/ status'[r] = status[r]
      \/ status[r] = "none" /\ status'[r] = "uploading"
      \/ status[r] \in Nonterminal /\ status'[r] \in Status
  BY DEF RemoteStep
<1> QED BY <1>1, <1>2 DEF Exists, Final

(* A listed record that was there before is listed already.                *)
LEMMA KnownRecord ==
  ASSUME Types, OrderInv, RemoteStep, NEW r \in Listed',
         Exists(r) \/ r <= Recorded \/ \E q \in Records : Exists(q) /\ r <= q
  PROVE  /\ r \in Records /\ Exists(r) /\ r \in Listed
         /\ status'[r] # "uploaded" => status[r] # "uploaded"
<1>1. r \in Records /\ r \notin hidden'
  BY DEF Listed, Records
<1>2. Exists(r)
  BY <1>1 DEF OrderInv
<1>3. r \notin hidden
  BY <1>1 DEF RemoteStep
<1>4. "uploaded" \in Final
  BY DEF Final, Status, Nonterminal, Retryable
<1> QED BY <1>1, <1>2, <1>3, <1>4, RecordsStay DEF Listed, Exists

LEMMA AnswerPages ==
  ASSUME Types, NEW k \in Kinds
  PROVE  /\ lists[k].answer.items \in Pages /\ DOMAIN lists[k].answer.items \subseteq Records
         /\ lists[k].answer.next \in 0..RecordCount /\ lists[k].before \in 0..RecordCount
         /\ lists[k].limit \in Nat
<1>1. lists[k].answer.items \in Pages
  BY DEF Types, ListRows, PageAnswers
<1> QED BY <1>1, PageOf DEF Types, ListRows, PageAnswers

(* The records of the page after a step were on it or in an answer.        *)
LEMMA PageComes ==
  ASSUME Types, AnswersInv, PageStep
  PROVE  /\ \A r \in DOMAIN items' :
              \/ /\ r \in DOMAIN items
                 /\ items'[r] = items[r] \/ items'[r] = "cancelling"
              \/ \E k \in Kinds : /\ lists[k].at = "read" /\ r \in DOMAIN lists[k].answer.items
                                  /\ items'[r] = lists[k].answer.items[r]
         /\ \/ cursor' = cursor \/ cursor' = 0
            \/ \E k \in Kinds : lists[k].at = "read" /\ cursor' \in DOMAIN lists[k].answer.items
<1> USE KindsAre
<1>1. items \in Pages /\ \A k \in Kinds : lists[k].answer.items \in Pages
  BY AnswerPages DEF Types
<1>2. CASE /\ cursor' = cursor /\ DOMAIN items' \subseteq DOMAIN items
           /\ \A r \in DOMAIN items' : items'[r] = items[r] \/ items'[r] = "cancelling"
  BY <1>2
<1>3. CASE /\ lists["first"].at = "read"
           /\ items' = lists["first"].answer.items /\ cursor' = lists["first"].answer.next
  BY <1>3 DEF AnswersInv
<1>4. CASE /\ lists["next"].at = "read"
           /\ items' = Merged(items, lists["next"].answer.items)
           /\ cursor' = lists["next"].answer.next
  <2> DEFINE answer == lists["next"].answer.items
  <2>1. /\ DOMAIN items' = DOMAIN items \union DOMAIN answer
        /\ \A r \in DOMAIN items : items'[r] = items[r]
        /\ \A r \in DOMAIN answer \ DOMAIN items : items'[r] = answer[r]
    BY <1>1, <1>4, Joined
  <2> QED BY <1>4, <2>1 DEF AnswersInv
<1>5. CASE /\ lists["refresh"].at = "read"
           /\ items' = Merged(lists["refresh"].answer.items, items) /\ cursor' = cursor
  <2> DEFINE answer == lists["refresh"].answer.items
  <2>1. /\ DOMAIN items' = DOMAIN items \union DOMAIN answer
        /\ \A r \in DOMAIN answer : items'[r] = answer[r]
        /\ \A r \in DOMAIN items \ DOMAIN answer : items'[r] = items[r]
    <3>1. answer \in Pages /\ items' = Merged(answer, items)
      BY <1>1, <1>5
    <3> HIDE DEF answer
    <3>2. /\ DOMAIN Merged(answer, items) = DOMAIN answer \union DOMAIN items
          /\ \A r \in DOMAIN answer : Merged(answer, items)[r] = answer[r]
          /\ \A r \in DOMAIN items \ DOMAIN answer : Merged(answer, items)[r] = items[r]
      BY <1>1, <3>1, Joined
    <3> QED BY <3>1, <3>2
  <2> QED BY <1>5, <2>1
<1> QED BY <1>2, <1>3, <1>4, <1>5 DEF PageStep

-----------------------------------------------------------------------------
(* The invariants, conjunct by conjunct.                                   *)

LEMMA OrderStays ==
  ASSUME Types, OrderInv, AnswersInv, RemoteStep, PageStep
  PROVE  OrderInv' /\ \A r \in DOMAIN items' : Exists(r)
<1>1. \A r \in Records : Exists(r) => Exists(r)'
  BY RecordsStay
<1>2. DOMAIN items \subseteq Records /\ \A k \in Kinds : DOMAIN lists[k].answer.items \subseteq Records
  BY AnswerPages, PageOf DEF Types
<1>3. \A r \in DOMAIN items' : r \in Records /\ Exists(r)
  BY <1>2, PageComes DEF OrderInv, AnswersInv
<1>4. cursor' # 0 => cursor' \in Records /\ Exists(cursor')
  <2>1. cursor # 0 => cursor \in Records
    BY HistoryAssumption DEF Types, Records
  <2> QED BY <1>2, <2>1, PageComes DEF OrderInv, AnswersInv
<1>5. ASSUME NEW q \in Records, NEW r \in Records, Exists(q)', r <= q PROVE Exists(r)'
  <2>1. CASE Exists(q)
    BY <1>1, <1>5, <2>1 DEF OrderInv
  <2>2. CASE ~Exists(q)
    <3>1. "none" \notin Nonterminal
      BY DEF Nonterminal
    <3>2. \A p \in 1..(q - 1) : Exists(p)
      BY <1>5, <2>2, <3>1 DEF RemoteStep, Exists
    <3>3. r = q \/ r \in 1..(q - 1)
      BY <1>5, HistoryAssumption DEF Records
    <3> QED BY <1>1, <1>5, <3>2, <3>3
  <2> QED BY <2>1, <2>2
<1>6. \A r \in Records : r <= Recorded => Exists(r)'
  BY <1>1 DEF OrderInv
<1> QED BY <1>1, <1>3, <1>4, <1>5, <1>6 DEF OrderInv, Exists

LEMMA AnswersStay ==
  ASSUME Types, ListsInv, OrderInv, AnswersInv, RemoteStep, NEW k \in Kinds, ListStep(k),
         lists'[k].at = "read"
  PROVE  /\ \A r \in DOMAIN lists'[k].answer.items :
              /\ Exists(r)'
              /\ lists'[k].before # 0 => r < lists'[k].before
              /\ lists'[k].answer.items[r] \in Final => status'[r] = lists'[k].answer.items[r]
         /\ lists'[k].answer.next # 0 => lists'[k].answer.next \in DOMAIN lists'[k].answer.items
         /\ Complete(lists[k])'
<1> DEFINE answer == lists[k].answer
           its == DOMAIN answer.items
           before == lists[k].before
<1>1. CASE lists'[k] = lists[k]
  <2>1. /\ \A r \in its : Exists(r) /\ (answer.items[r] \in Final => status[r] = answer.items[r])
        /\ before # 0 => \A r \in its : r < before
        /\ answer.next # 0 => answer.next \in its
        /\ Complete(lists[k])
    BY <1>1 DEF AnswersInv
  <2>2. its \subseteq Records /\ before \in 0..RecordCount
    BY AnswerPages
  <2>3. \A r \in its : Exists(r)' /\ (answer.items[r] \in Final => status'[r] = answer.items[r])
    BY <2>1, <2>2, RecordsStay
  <2>4. ASSUME NEW r \in Listed' \ its, before = 0 \/ r < before,
               before # 0 \/ r <= Recorded \/ \E q \in its : q > r
        PROVE  (\A q \in its : q > r) /\ Cardinality(its) >= PageSize
    <3>1. r \in Nat
      BY DEF Listed, Records
    <3>2. \/ r <= Recorded
          \/ \E q \in Records : Exists(q) /\ r <= q
      <4>1. CASE before # 0
        <5>1. before = cursor /\ before \in Records
          BY <1>1, <2>2, <4>1, HistoryAssumption DEF ListsInv, Busy, Records
        <5> QED BY <2>4, <3>1, <4>1, <5>1 DEF OrderInv, Records
      <4>2. CASE \E q \in its : q > r
        BY <2>1, <2>2, <3>1, <4>2 DEF Records
      <4> QED BY <2>4, <4>1, <4>2
    <3>3. r \in Listed
      BY <3>2, KnownRecord
    <3> QED BY <2>1, <2>4, <3>3 DEF Complete
  <2> QED BY <1>1, <2>1, <2>3, <2>4 DEF Complete
<1>2. CASE /\ lists[k].at = "sent" /\ lists'[k].at = "read"
           /\ lists'[k].limit = lists[k].limit /\ lists'[k].before = lists[k].before
           /\ lists'[k].answer = listPage(lists[k].limit, lists[k].before)
           /\ UNCHANGED <<status, hidden>>
  <2> DEFINE new == listPage(lists[k].limit, lists[k].before)
  <2>1. /\ lists[k].limit \in Nat /\ before \in 0..RecordCount /\ lists[k].limit >= PageSize
        /\ lists[k].limit # 0
    <3>1. lists[k].limit \in Nat /\ before \in 0..RecordCount /\ lists[k].limit >= PageSize
      BY <1>2, AnswerPages DEF ListsInv, Busy
    <3> QED BY <3>1, HistoryAssumption
  <2>2. /\ new \in PageAnswers /\ DOMAIN new.items \subseteq After(before)
        /\ \A r \in DOMAIN new.items : new.items[r] = status[r]
        /\ new.next # 0 => new.next \in DOMAIN new.items
        /\ \A r \in After(before) \ DOMAIN new.items :
             /\ \A q \in DOMAIN new.items : q > r
             /\ Cardinality(DOMAIN new.items) >= lists[k].limit
    BY <2>1, Listing
  <2>3. Cardinality(DOMAIN new.items) \in Nat
    <3>1. DOMAIN new.items \subseteq Records
      BY <2>2 DEF After, Listed
    <3> HIDE DEF new
    <3> QED BY <3>1, NumberOf
  <2> HIDE DEF new
  <2>4. lists'[k].answer = new /\ lists'[k].before = before /\ status' = status /\ hidden' = hidden
    BY <1>2 DEF new
  <2>5. \A r \in DOMAIN new.items : r \in Listed /\ (before # 0 => r < before) /\ Exists(r)
    BY <2>2 DEF After, Listed, Exists
  <2>6. Complete(lists[k])'
    <3>1. Listed' = Listed
      BY <2>4 DEF Listed
    <3>2. SUFFICES ASSUME NEW r \in Listed \ DOMAIN new.items, before = 0 \/ r < before
                   PROVE  /\ \A q \in DOMAIN new.items : q > r
                          /\ Cardinality(DOMAIN new.items) >= PageSize
      BY <2>4, <3>1 DEF Complete
    <3>3. r \in After(before)
      BY <3>2 DEF After
    <3> QED BY <2>1, <2>2, <2>3, <3>2, <3>3, HistoryAssumption
  <2> QED BY <2>2, <2>4, <2>5, <2>6 DEF Exists
<1> QED BY <1>1, <1>2 DEF ListStep

LEMMA AnswersHold ==
  ASSUME Types, ListsInv, OrderInv, AnswersInv, HistorySteps
  PROVE  AnswersInv'
BY AnswersStay DEF AnswersInv, HistorySteps, Exists, Complete

LEMMA FinalStays ==
  ASSUME Types, AnswersInv, FinalInv, HistorySteps
  PROVE  FinalInv'
<1>1. \A r \in Records : status[r] \in Final => status'[r] = status[r]
  BY RecordsStay DEF HistorySteps
<1>2. DOMAIN items \subseteq Records /\ \A k \in Kinds : DOMAIN lists[k].answer.items \subseteq Records
  BY AnswerPages, PageOf DEF Types
<1>3. "cancelling" \notin Final
  BY DEF Final, Nonterminal
<1>4. ASSUME NEW r \in DOMAIN items', items'[r] \in Final PROVE status'[r] = items'[r]
  <2>1. r \in Records /\ status[r] = items'[r]
    BY <1>2, <1>3, <1>4, PageComes DEF FinalInv, AnswersInv, HistorySteps
  <2> QED BY <1>1, <1>4, <2>1
<1>5. ASSUME NEW r \in Records
      PROVE  /\ pending'["delete"][r] # "none" => status'[r] \in Final
             /\ pending'["delete"][r] = "done" => r \in hidden'
  <2>1. DeleteStep(r) /\ hidden \subseteq hidden'
    BY DEF HistorySteps, RemoteStep
  <2>2. pending'["delete"][r] # "none" => status[r] \in Final
    BY <2>1 DEF DeleteStep, FinalInv
  <2>3. pending'["delete"][r] = "done" => r \in hidden'
    BY <2>1, <2>2 DEF DeleteStep, FinalInv
  <2> QED BY <1>1, <2>2, <2>3
<1> QED BY <1>4, <1>5 DEF FinalInv

(* Neither an answer nor a record that leaves the page makes a gap below   *)
(* the newest record of an unbroken page; a first page has none, and a     *)
(* further one begins where the page ends.                                 *)
LEMMA PageIsWhole ==
  ASSUME Types, ListsInv, OrderInv, AnswersInv, FinalInv, HistorySteps,
         NEW r \in Listed', status'[r] # "uploaded", cursor' # 0, r >= cursor', r \notin DOMAIN items',
         r <= Recorded \/ \E q \in DOMAIN items' : q > r
  PROVE  /\ r \in Listed /\ status[r] # "uploaded" /\ r \notin DOMAIN items
         /\ cursor # 0 /\ r >= cursor
         /\ \/ \A q \in DOMAIN items' : q > r => q \in DOMAIN items
            \/ /\ lists["refresh"].at = "read" /\ lists["refresh"].before = 0
               /\ DOMAIN items' = DOMAIN items \union DOMAIN lists["refresh"].answer.items
<1> USE KindsAre
<1>1. RemoteStep /\ PageStep
  BY DEF HistorySteps
<1>2. r \in Records /\ r \in Nat
  BY DEF Listed, Records
<1>3. /\ DOMAIN items \subseteq Records /\ items \in Pages
      /\ \A k \in Kinds : /\ lists[k].answer.items \in Pages
                          /\ DOMAIN lists[k].answer.items \subseteq Records
  BY AnswerPages, PageOf DEF Types
<1>4. \A q \in DOMAIN items' : q \in Records /\ Exists(q)
  <2>1. \A q \in DOMAIN items' : Exists(q)
    BY <1>1, OrderStays
  <2>2. \A q \in DOMAIN items' : q \in Records
    BY <1>1, <1>3, PageComes
  <2> QED BY <2>1, <2>2
<1>5. r \in Listed /\ status[r] # "uploaded" /\ r \notin hidden
  <2>1. r <= Recorded \/ \E q \in Records : Exists(q) /\ r <= q
    BY <1>2, <1>4 DEF Records
  <2>2. r \in Listed /\ status[r] # "uploaded"
    BY <1>1, <2>1, KnownRecord
  <2> QED BY <2>2 DEF Listed
<1>6. CASE /\ cursor' = cursor /\ DOMAIN items' \subseteq DOMAIN items
           /\ \A q \in DOMAIN items \ DOMAIN items' : items[q] = "uploaded" \/ pending["delete"][q] = "done"
  <2>1. "uploaded" \in Final
    BY DEF Final, Status, Nonterminal, Retryable
  <2>2. r \notin DOMAIN items
    <3>1. r \in DOMAIN items => items[r] # "uploaded" /\ pending["delete"][r] # "done"
      <4>1. r \in DOMAIN items /\ items[r] = "uploaded" => status[r] = "uploaded"
        BY <2>1 DEF FinalInv
      <4>2. pending["delete"][r] = "done" => r \in hidden'
        BY <1>1, <1>2 DEF FinalInv, RemoteStep
      <4> QED BY <1>5, <4>1, <1>2 DEF FinalInv
    <3> QED BY <1>6, <3>1
  <2> QED BY <1>5, <1>6, <2>2
<1>7. CASE /\ lists["first"].at = "read"
           /\ items' = lists["first"].answer.items /\ cursor' = lists["first"].answer.next
  <2> DEFINE its == DOMAIN lists["first"].answer.items
  <2>1. lists["first"].before = 0
    BY <1>7 DEF ListsInv, Busy
  <2>2. Complete(lists["first"]) /\ cursor' \in its
    BY <1>7 DEF AnswersInv
  <2>3. \A q \in its : q > r
    BY <1>5, <1>7, <2>1, <2>2 DEF Complete
  <2> QED BY <1>2, <1>3, <2>2, <2>3 DEF Records
<1>8. CASE /\ lists["next"].at = "read"
           /\ items' = Merged(items, lists["next"].answer.items)
           /\ cursor' = lists["next"].answer.next
  <2> DEFINE answer == lists["next"].answer.items
  <2>1. lists["next"].before = cursor /\ cursor # 0 /\ cursor \in Nat
    BY <1>8 DEF ListsInv, Busy, Types
  <2>2. Complete(lists["next"]) /\ cursor' \in DOMAIN answer /\ \A q \in DOMAIN answer : q < cursor
    BY <1>8, <2>1 DEF AnswersInv
  <2>3. DOMAIN items' = DOMAIN items \union DOMAIN answer
    BY <1>3, <1>8, Joined
  <2>4. r \notin DOMAIN items /\ r \notin DOMAIN answer
    BY <2>3
  <2>5. r >= cursor
    <3>1. r < cursor => \A q \in DOMAIN answer : q > r
      BY <1>5, <2>1, <2>2, <2>4 DEF Complete
    <3>2. cursor' \in Nat
      BY <1>3, <2>2 DEF Records
    <3> QED BY <1>2, <2>1, <2>2, <3>1, <3>2
  <2>6. \A q \in DOMAIN items' : q > r => q \in DOMAIN items
    <3>1. \A q \in DOMAIN answer : ~(q > r)
      BY <1>2, <1>3, <2>1, <2>2, <2>5 DEF Records
    <3> QED BY <2>3, <3>1
  <2> QED BY <1>5, <2>1, <2>4, <2>5, <2>6
<1>9. CASE /\ lists["refresh"].at = "read"
           /\ items' = Merged(lists["refresh"].answer.items, items) /\ cursor' = cursor
  <2> DEFINE answer == lists["refresh"].answer.items
  <2>1. DOMAIN items' = DOMAIN answer \union DOMAIN items
    <3>1. answer \in Pages /\ items' = Merged(answer, items)
      BY <1>3, <1>9
    <3> HIDE DEF answer
    <3> QED BY <1>3, <3>1, Joined
  <2>2. lists["refresh"].before = 0
    BY <1>9 DEF ListsInv, Busy
  <2> QED BY <1>5, <1>9, <2>1, <2>2
<1> QED BY <1>1, <1>6, <1>7, <1>8, <1>9 DEF PageStep

LEMMA OldStays ==
  ASSUME HistoryInv, HistorySteps
  PROVE  OldInv'
<1>1. SUFFICES ASSUME NEW r \in Listed', status'[r] # "uploaded", r <= Recorded,
                      cursor' # 0, r >= cursor', r \notin DOMAIN items'
               PROVE  FALSE
  BY DEF OldInv
<1>2. r \in Listed /\ status[r] # "uploaded" /\ r \notin DOMAIN items /\ cursor # 0 /\ r >= cursor
  BY <1>1, PageIsWhole DEF HistoryInv
<1> QED BY <1>1, <1>2 DEF HistoryInv, OldInv

LEMMA HistoryKeeps ==
  ASSUME HistoryInv, [HistoryNext]_historyVars
  PROVE  HistoryInv' /\ HistorySteps
<1>1. Types' /\ ListsInv' /\ HistorySteps
  BY AllSteps DEF HistoryInv
<1>2. OrderInv'
  BY <1>1, OrderStays DEF HistoryInv, HistorySteps
<1>3. AnswersInv' /\ FinalInv'
  BY <1>1, AnswersHold, FinalStays DEF HistoryInv
<1> QED BY <1>1, <1>2, <1>3, OldStays DEF HistoryInv

LEMMA HistoryBegins == HistoryInit => HistoryInv
<1> SUFFICES ASSUME HistoryInit PROVE HistoryInv
  OBVIOUS
<1>1. /\ status = [r \in Records |-> IF r <= Recorded THEN "uploading" ELSE "none"]
      /\ hidden = {} /\ life = "shown" /\ items = NoItems /\ cursor = 0
      /\ lists = FirstPage /\ timer = FALSE /\ watch \in {0, WatchRefreshes}
      /\ pending = [o \in Operations |-> [r \in Records |-> "none"]]
      /\ clear = NoClear /\ taps = 0
  BY DEF HistoryInit
<1>2. "uploading" \in Status
  BY DEF Status, Nonterminal
<1>3. \A k \in Kinds : IF k = "first"
                       THEN lists[k].at = "sent" /\ lists[k].limit = PageSize /\ lists[k].before = 0
                       ELSE lists[k].at = "none"
  <2>1. Asked(PageSize, 0) /\ PageSize \in Nat
    BY Requesting, HistoryAssumption
  <2> QED BY <1>1, <2>1, Requesting DEF Asked
<1>4. Types
  <2>1. lists \in [Kinds -> ListRows] /\ items \in Pages
    BY <1>1, Requesting, EmptyPage
  <2>2. clear \in [at : {"none", "sent", "done", "reload"}, current : BOOLEAN]
    BY <1>1, Requesting
  <2>3. status \in [Records -> Status \union {"none"}]
    BY <1>1, <1>2
  <2>4. pending \in [Operations -> [Records -> {"none", "sent", "done"}]]
    BY <1>1
  <2>5. /\ life \in {"shown", "paused", "gone"} /\ hidden \subseteq Records
        /\ cursor \in 0..RecordCount /\ timer \in BOOLEAN
        /\ watch \in 0..WatchRefreshes /\ taps \in 0..MaxTaps
    <3>1. 0 \in 0..RecordCount /\ {0, WatchRefreshes} \subseteq 0..WatchRefreshes /\ 0 \in 0..MaxTaps
      BY HistoryAssumption
    <3> QED BY <1>1, <3>1
  <2> QED BY <2>1, <2>2, <2>3, <2>4, <2>5 DEF Types
<1>5. ListsInv /\ AnswersInv
  BY <1>3, KindsAre, HistoryAssumption DEF ListsInv, AnswersInv, Busy
<1>6. OrderInv
  BY <1>1, EmptyPage, HistoryAssumption DEF OrderInv, Exists, Records
<1>7. FinalInv /\ OldInv
  <2>1. "delete" \in Operations
    BY DEF Operations
  <2> QED BY <1>1, <2>1, EmptyPage DEF FinalInv, OldInv
<1> QED BY <1>4, <1>5, <1>6, <1>7 DEF HistoryInv

-----------------------------------------------------------------------------
(* The inductive invariant of the history page: what is on it and what an  *)
(* answer under way would put there.                                       *)
THEOREM HistoryInvariant == HistorySpec => []HistoryInv
<1>1. HistoryInv /\ [HistoryNext]_historyVars => HistoryInv'
  BY HistoryKeeps
<1> QED BY <1>1, HistoryBegins, PTL DEF HistorySpec

(* The variables keep their types.                                         *)
THEOREM HistoryTyping == HistorySpec => []HistoryTypeOK
<1>1. HistoryInv => HistoryTypeOK
  <2> SUFFICES ASSUME Types PROVE HistoryTypeOK
    BY DEF HistoryInv
  <2>1. DOMAIN items \subseteq Records /\ Range(items) \subseteq Status
    BY PageOf DEF Types, Range
  <2>2. DOMAIN lists = Kinds /\ \A k \in Kinds : lists[k].at \in {"none", "sent", "read"}
    BY DEF Types, ListRows
  <2> QED BY <2>1, <2>2 DEF Types, HistoryTypeOK
<1> QED BY <1>1, HistoryInvariant, PTL

-----------------------------------------------------------------------------
(* The histories one of the theorems is about: no more records are created *)
(* after the page is opened than one page of the list has (PAGE_SIZE).     *)
(* With more of them between two refreshes the newest ones alone are in    *)
(* the answer, and the page has a gap until it is loaded again.            *)
FewNewRecords == RecordCount - Recorded <= PageSize

LEMMA SkipsNothing ==
  ASSUME HistoryInv, NothingSkipped, FewNewRecords, HistorySteps
  PROVE  NothingSkipped'
<1>1. SUFFICES ASSUME NEW r \in Listed', status'[r] # "uploaded", cursor' # 0, r >= cursor',
                      r \notin DOMAIN items', NEW p \in DOMAIN items', p > r
               PROVE  FALSE
  BY DEF NothingSkipped
<1>2. /\ r \in Listed /\ status[r] # "uploaded" /\ r \notin DOMAIN items
      /\ cursor # 0 /\ r >= cursor
      /\ \/ \A q \in DOMAIN items' : q > r => q \in DOMAIN items
         \/ /\ lists["refresh"].at = "read" /\ lists["refresh"].before = 0
            /\ DOMAIN items' = DOMAIN items \union DOMAIN lists["refresh"].answer.items
  BY <1>1, PageIsWhole DEF HistoryInv
<1>3. \A q \in DOMAIN items : ~(q > r)
  BY <1>2 DEF NothingSkipped
<1>4. r > Recorded
  <2>1. ~(r <= Recorded)
    BY <1>2 DEF HistoryInv, OldInv
  <2> QED BY <1>2, <2>1, HistoryAssumption DEF Listed, Records
<1> DEFINE its == DOMAIN lists["refresh"].answer.items
<1>5. lists["refresh"].at = "read" /\ lists["refresh"].before = 0 /\ p \in its /\ r \notin its
  BY <1>1, <1>2, <1>3
<1>6. (\A q \in its : q > r) /\ Cardinality(its) >= PageSize
  <2>1. Complete(lists["refresh"])
    BY <1>5, KindsAre DEF HistoryInv, AnswersInv
  <2> QED BY <1>1, <1>2, <1>5, <2>1 DEF Complete
<1>7. its \subseteq Records
  BY AnswerPages, KindsAre DEF HistoryInv
<1> HIDE DEF its
<1>8. its \union {r} \subseteq (Recorded + 1)..RecordCount
  BY <1>2, <1>4, <1>6, <1>7, HistoryAssumption DEF Listed, Records
<1>9. IsFiniteSet(its) /\ Cardinality(its) \in Nat
  BY <1>7, NumberOf
<1>10. Cardinality(its \union {r}) = Cardinality(its) + 1
  BY <1>5, <1>9, FS_AddElement
<1>11. /\ IsFiniteSet((Recorded + 1)..RecordCount)
       /\ Cardinality((Recorded + 1)..RecordCount) <= RecordCount - Recorded
  <2>1. Recorded + 1 \in Int /\ RecordCount \in Int
    BY HistoryAssumption
  <2>2. /\ IsFiniteSet((Recorded + 1)..RecordCount)
        /\ Cardinality((Recorded + 1)..RecordCount)
             = IF Recorded + 1 > RecordCount THEN 0 ELSE RecordCount - (Recorded + 1) + 1
    BY <2>1, FS_Interval
  <2> QED BY <2>2, HistoryAssumption
<1>12. Cardinality(its \union {r}) <= Cardinality((Recorded + 1)..RecordCount)
  BY <1>8, <1>11, FS_Subset
<1>13. Cardinality((Recorded + 1)..RecordCount) \in Nat
  BY <1>11, FS_CardinalityType
<1> QED BY <1>6, <1>9, <1>10, <1>11, <1>12, <1>13, HistoryAssumption DEF FewNewRecords

(* The page has no gap above its cursor: an unfinished or failed record    *)
(* that the server lists is missing only above the newest one shown.       *)
THEOREM PageHasNoGap == ASSUME FewNewRecords PROVE HistorySpec => []NothingSkipped
<1>1. HistoryInit => NothingSkipped
  BY EmptyPage DEF HistoryInit, NothingSkipped
<1>2. HistoryInv /\ NothingSkipped /\ [HistoryNext]_historyVars => NothingSkipped'
  BY HistoryKeeps, SkipsNothing
<1> QED BY <1>1, <1>2, HistoryInvariant, PTL DEF HistorySpec

-----------------------------------------------------------------------------
(* The pages the last theorem is about: those a refresh reaches as a whole *)
(* (MAX_REFRESH_PAGE_SIZE).  On a longer page a deletion can move an       *)
(* unfinished record among those that are refreshed, and deleteRecord does *)
(* not set the timer for it.                                               *)
WholePageRefreshed == RecordCount <= MaxRefresh

LEMMA AllAreNewest ==
  ASSUME WholePageRefreshed, NEW S, S \subseteq Records
  PROVE  Newest(S, MaxRefresh) = S
<1> SUFFICES ASSUME NEW r \in S PROVE Cardinality({q \in S : q > r}) < MaxRefresh
  BY DEF Newest
<1> DEFINE above == {q \in S : q > r}
<1>1. IsFiniteSet(Records) /\ Cardinality(Records) = RecordCount
  BY HistoryAssumption, FS_Interval, 1 \in Int, RecordCount \in Int DEF Records
<1>2. r \in Records /\ above \subseteq Records \ {r}
  <2>1. r \in Nat
    BY DEF Records
  <2>2. \A q \in above : q \in Records /\ q # r
    BY <2>1
  <2> QED BY <2>2
<1> HIDE DEF above
<1>3. IsFiniteSet(Records \ {r}) /\ Cardinality(Records \ {r}) = RecordCount - 1
  BY <1>1, <1>2, FS_RemoveElement
<1>4. Cardinality(above) <= RecordCount - 1
  BY <1>2, <1>3, FS_Subset
<1>5. above \subseteq Records
  BY <1>2
<1>6. Cardinality(above) \in Nat
  BY <1>5, NumberOf
<1> QED BY <1>4, <1>6, HistoryAssumption DEF WholePageRefreshed, above

(* What a refresh would wait for.                                          *)
Changing(its, left) == left > 0 \/ \E r \in DOMAIN its : its[r] \in Nonterminal

LEMMA Refreshable ==
  ASSUME WholePageRefreshed
  PROVE  /\ \A its \in Pages : hasRefreshableNonterminalRecord(its) <=> Changing(its, watch)
         /\ items' \in Pages => (hasRefreshableNonterminalRecord(items)' <=> Changing(items', watch'))
<1>1. \A its \in Pages : Newest(DOMAIN its, MaxRefresh) = DOMAIN its
  BY AllAreNewest, PageOf
<1> QED BY <1>1 DEF hasRefreshableNonterminalRecord, Changing

LEMMA StaysAlive ==
  ASSUME WholePageRefreshed, HistoryInv, RefreshAlive, [HistoryNext]_historyVars
  PROVE  RefreshAlive'
<1> USE KindsAre
<1>1. items \in Pages /\ items' \in Pages /\ lists \in [Kinds -> ListRows] /\ timer \in BOOLEAN
  BY HistoryKeeps DEF HistoryInv, Types
<1>2. SUFFICES ASSUME life' = "shown", Changing(items', watch')
               PROVE  timer' \/ Busy("refresh")' \/ Busy("first")'
  BY <1>1, Refreshable DEF RefreshAlive
<1>3. life = "shown" /\ Changing(items, watch) => timer \/ Busy("refresh") \/ Busy("first")
  BY <1>1, Refreshable DEF RefreshAlive
<1>4. ASSUME UNCHANGED page PROVE timer' \/ Busy("refresh")' \/ Busy("first")'
  BY <1>2, <1>3, <1>4 DEF page, Busy
<1>5. ASSUME UNCHANGED <<life, watch>>, EnsureRefreshScheduled(items')
      PROVE  timer'
  <2>1. hasRefreshableNonterminalRecord(items')
    BY <1>1, <1>2, <1>5, Refreshable
  <2> QED BY <1>2, <1>5, <2>1 DEF EnsureRefreshScheduled
<1>6. ASSUME lists' = FirstPage PROVE Busy("first")'
  BY <1>6, Requesting, HistoryAssumption DEF Busy, Asked
<1>7. CASE loadFirstPage \/ resume
  BY <1>6, <1>7 DEF loadFirstPage, resume, Generation
<1>8. CASE loadNextPage
  <2>1. /\ UNCHANGED <<life, items, timer, watch>>
        /\ lists' = [lists EXCEPT !["next"] = Ask(PageSize, cursor)]
    BY <1>8 DEF loadNextPage
  <2>2. lists'["refresh"] = lists["refresh"] /\ lists'["first"] = lists["first"]
    BY <1>1, <2>1
  <2> QED BY <1>2, <1>3, <2>1, <2>2 DEF Busy
<1>9. CASE FirstAnswered \/ NextAnswered \/ RefreshAnswered
  BY <1>5, <1>9 DEF FirstAnswered, NextAnswered, RefreshAnswered
<1>10. CASE \E k \in Kinds : ListFails(k)
  <2>1. EnsureRefreshScheduled(items) /\ UNCHANGED <<life, items, watch>>
    BY <1>10 DEF ListFails
  <2> QED BY <1>5, <2>1
<1>11. CASE TimerFires
  <2>1. lists' = IF Busy("refresh") THEN lists ELSE [lists EXCEPT !["refresh"] = Ask(refreshLimit, 0)]
    BY <1>11 DEF TimerFires
  <2>2. CASE Busy("refresh")
    BY <2>1, <2>2 DEF Busy
  <2>3. CASE ~Busy("refresh")
    <3>1. lists'["refresh"] = Ask(refreshLimit, 0)
      BY <1>1, <2>1, <2>3
    <3> QED BY <3>1 DEF Busy, Ask
  <2> QED BY <2>2, <2>3
<1>12. CASE clearUploadedRecords \/ ServerClears \/ ClearEnds
  BY <1>4, <1>12 DEF clearUploadedRecords, ServerClears, ClearEnds
<1>13. CASE Cleared
  <2>1. CASE clear.current
    <3>1. CASE Busy("first")
      BY <1>13, <2>1, <3>1 DEF Cleared, Busy
    <3>2. CASE ~Busy("first")
      BY <1>6, <1>13, <2>1, <3>2 DEF Cleared
    <3> QED BY <3>1, <3>2
  <2>2. CASE ~clear.current
    BY <1>4, <1>13, <2>2 DEF Cleared, page
  <2> QED BY <2>1, <2>2
<1>14. CASE pause \/ dispose
  BY <1>2, <1>14 DEF pause, dispose
<1>15. CASE \E k \in Kinds : ReadList(k)
  <2>1. PICK k \in Kinds : ReadList(k)
    BY <1>15
  <2>2. /\ UNCHANGED <<life, items, timer, watch>> /\ lists[k].at = "sent"
        /\ lists' = [lists EXCEPT ![k].at = "read",
                                  ![k].answer = listPage(lists[k].limit, lists[k].before)]
    BY <2>1 DEF ReadList
  <2>3. \A j \in Kinds : Busy(j) => Busy(j)'
    <3>1. \A j \in Kinds \ {k} : lists'[j] = lists[j]
      BY <1>1, <2>2
    <3>2. lists'[k].at = "read"
      BY <1>1, <2>2 DEF ListRows
    <3> QED BY <3>1, <3>2 DEF Busy
  <2> QED BY <1>2, <1>3, <2>2, <2>3
<1>16. ASSUME NEW r \in Records, NewUpload(r) \/ UploadSettles(r)
       PROVE  timer' \/ Busy("refresh")' \/ Busy("first")'
  BY <1>4, <1>16 DEF NewUpload, UploadSettles
<1>17. ASSUME NEW r \in Records, NEW o \in Operations, Operate(o, r) \/ ServerOperates(o, r)
       PROVE  timer' \/ Busy("refresh")' \/ Busy("first")'
  BY <1>4, <1>17 DEF Operate, ServerOperates
<1>18. ASSUME NEW r \in Records, NEW o \in Operations, Operated(o, r) \/ OperationFails(o, r)
       PROVE  timer' \/ Busy("refresh")' \/ Busy("first")'
  <2>1. UNCHANGED <<life, lists, watch>>
    BY <1>18 DEF Operated, OperationFails
  <2>2. CASE EnsureRefreshScheduled(items')
    BY <1>5, <2>1, <2>2
  <2>3. CASE UNCHANGED timer /\ items' \in {items, Restrict(items, DOMAIN items \ {r})}
    <3>1. Changing(items, watch)
      <4>1. /\ DOMAIN Restrict(items, DOMAIN items \ {r}) = DOMAIN items \ {r}
            /\ \A q \in DOMAIN items \ {r} : Restrict(items, DOMAIN items \ {r})[q] = items[q]
        BY <1>1, Cut
      <4> QED BY <1>2, <2>1, <2>3, <4>1 DEF Changing
    <3> QED BY <1>2, <1>3, <2>1, <2>3, <3>1 DEF Busy
  <2>4. \/ EnsureRefreshScheduled(items')
        \/ UNCHANGED timer /\ items' \in {items, Restrict(items, DOMAIN items \ {r})}
    <3>1. CASE o = "delete"
      BY <1>18, <3>1 DEF Operated, OperationFails
    <3>2. CASE o # "delete"
      <4>1. CASE Operated(o, r)
        BY <3>2, <4>1 DEF Operated
      <4>2. CASE OperationFails(o, r)
        <5>1. items' = items /\ EnsureRefreshScheduled(items)
          BY <3>2, <4>2 DEF OperationFails
        <5> QED BY <5>1
      <4> QED BY <1>18, <4>1, <4>2
    <3> QED BY <3>1, <3>2
  <2> QED BY <2>2, <2>3, <2>4
<1>19. CASE UNCHANGED historyVars
  <2>1. UNCHANGED page
    BY <1>19 DEF historyVars
  <2> QED BY <1>4, <2>1
<1> QED BY <1>7, <1>8, <1>9, <1>10, <1>11, <1>12, <1>13, <1>14, <1>15, <1>16, <1>17, <1>18, <1>19
        DEF HistoryNext

(* While the page is shown and a record on it may still change, the next   *)
(* refresh is on its way, whatever requests failed or were overtaken.      *)
THEOREM RefreshingGoesOn == ASSUME WholePageRefreshed PROVE HistorySpec => []RefreshAlive
<1>1. HistoryInit => RefreshAlive
  BY Requesting, KindsAre, HistoryAssumption DEF HistoryInit, RefreshAlive, Busy, Asked
<1>2. HistoryInv /\ RefreshAlive /\ [HistoryNext]_historyVars => RefreshAlive'
  BY StaysAlive
<1> QED BY <1>1, <1>2, HistoryInvariant, PTL DEF HistorySpec
=============================================================================
