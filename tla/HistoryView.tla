----------------------------- MODULE HistoryView -----------------------------
(***************************************************************************)
(* The history page (HistoryController) against the history of the server: *)
(* a first page, further pages by cursor and a timed refresh, beside       *)
(* cancel, retry, delete and clear, while the page is hidden and shown.    *)
(*                                                                         *)
(* Records are numbered in the order of their creation, so the newest has  *)
(* the highest number.  A request whose generation is over is dropped: its *)
(* answer changes nothing.                                                 *)
(***************************************************************************)
EXTENDS Naturals, FiniteSets, FiniteSetsExt, Functions

CONSTANTS
  RecordCount,     \* bound: records of the user
  Recorded,        \* bound: those there when the page is opened
  PageSize,        \* PAGE_SIZE
  MaxRefresh,      \* MAX_REFRESH_PAGE_SIZE
  WatchRefreshes,  \* WATCH_NEW_UPLOAD_REFRESHES, 0 without watch=1
  MaxTaps          \* bound: operations the user starts

Records == 1..RecordCount

(* What the constants must satisfy.                                        *)
ASSUME HistoryAssumption ==
  /\ RecordCount \in Nat \ {0} /\ Recorded \in 0..RecordCount /\ MaxTaps \in Nat
  /\ PageSize \in Nat \ {0} /\ MaxRefresh \in Nat /\ MaxRefresh >= PageSize
  /\ WatchRefreshes \in Nat

Nonterminal == {"uploading", "cancelling"}
Retryable == {"upload_failed"}
Status == Nonterminal \union Retryable \union {"uploaded"}
Kinds == {"first", "next", "refresh"}
Operations == {"cancel", "retry", "delete"}

VARIABLES
  status, hidden, \* the server's records and history_hidden_at
  life,           \* #paused, #disposed
  items,          \* #items, by record
  cursor,         \* #nextCursor with #hasMore; 0 is none
  lists,          \* requests of this generation: #loading, #loadingMore, #activeRefresh
  timer,          \* #refreshTimer of this generation
  watch,          \* #watchRefreshesRemaining
  pending,        \* #cancelPendingIds, #retryPendingIds, #deletePendingIds
  clear,          \* #clearingUploaded, and whether its generation is current
  taps

remote == <<status, hidden>>
page == <<life, items, cursor, lists, timer, watch>>
user == <<pending, clear, taps>>
historyVars == <<remote, page, user>>

NoItems == [r \in {} |-> "uploaded"]
NoAnswer == [items |-> NoItems, next |-> 0]
NoList == [at |-> "none", limit |-> 0, before |-> 0, answer |-> NoAnswer]
NoClear == [at |-> "none", current |-> FALSE]

-----------------------------------------------------------------------------
(* The server's page: the newest records before a cursor, one more than    *)
(* the limit being read to know whether there are others.                  *)

Newest(S, k) == {r \in S : Cardinality({q \in S : q > r}) < k}
Listed == {r \in Records : status[r] # "none"} \ hidden
After(before) == {r \in Listed : before = 0 \/ r < before}

listPage(limit, before) ==
  LET rows == Newest(After(before), limit + 1)
      shown == Newest(rows, limit)
  IN [items |-> [r \in shown |-> status[r]], next |-> IF rows = shown THEN 0 ELSE Min(shown)]

-----------------------------------------------------------------------------
(* The controller.                                                         *)

(* Two lists of records; where they differ, the first one counts.          *)
Merged(its, others) ==
  [r \in DOMAIN its \union DOMAIN others |-> IF r \in DOMAIN its THEN its[r] ELSE others[r]]

Ask(limit, before) == [at |-> "sent", limit |-> limit, before |-> before, answer |-> NoAnswer]

hasRefreshableNonterminalRecord(its) ==
  watch > 0 \/ \E r \in Newest(DOMAIN its, MaxRefresh) : its[r] \in Nonterminal

EnsureRefreshScheduled(its) ==
  timer' = (timer \/ (life = "shown" /\ hasRefreshableNonterminalRecord(its)))

(* A new generation with its own requests.                                 *)
Generation(requests) ==
  /\ lists' = requests
  /\ timer' = FALSE
  /\ clear' = [clear EXCEPT !.current = FALSE]

NoRequests == [k \in Kinds |-> NoList]
FirstPage == [NoRequests EXCEPT !["first"] = Ask(PageSize, 0)]

HistoryInit ==
  /\ status = [r \in Records |-> IF r <= Recorded THEN "uploading" ELSE "none"]
  /\ hidden = {}
  /\ life = "shown" /\ items = NoItems /\ cursor = 0
  /\ lists = FirstPage /\ timer = FALSE
  /\ watch \in {0, WatchRefreshes}
  /\ pending = [o \in Operations |-> [r \in Records |-> "none"]]
  /\ clear = NoClear /\ taps = 0

HistoryTypeOK ==
  /\ status \in [Records -> Status \union {"none"}] /\ hidden \subseteq Records
  /\ life \in {"shown", "paused", "gone"}
  /\ DOMAIN items \subseteq Records /\ Range(items) \subseteq Status
  /\ cursor \in 0..RecordCount
  /\ DOMAIN lists = Kinds /\ \A k \in Kinds : lists[k].at \in {"none", "sent", "read"}
  /\ timer \in BOOLEAN /\ watch \in 0..WatchRefreshes
  /\ pending \in [Operations -> [Records -> {"none", "sent", "done"}]]
  /\ clear \in [at : {"none", "sent", "done", "reload"}, current : BOOLEAN]
  /\ taps \in 0..MaxTaps

Busy(k) == lists[k].at # "none"
ListEnds(k) == lists' = [lists EXCEPT ![k] = NoList]
Tap == taps < MaxTaps /\ taps' = taps + 1   \* by the user

loadFirstPage ==
  /\ life = "shown" /\ ~Busy("first")
  /\ Tap
  /\ Generation(FirstPage)
  /\ UNCHANGED <<remote, life, items, cursor, watch, pending>>

loadNextPage ==
  /\ life = "shown" /\ ~Busy("first") /\ ~Busy("next") /\ cursor # 0
  /\ lists' = [lists EXCEPT !["next"] = Ask(PageSize, cursor)]
  /\ UNCHANGED <<remote, life, items, cursor, timer, watch, user>>

FirstAnswered ==
  /\ lists["first"].at = "read"
  /\ items' = lists["first"].answer.items /\ cursor' = lists["first"].answer.next
  /\ EnsureRefreshScheduled(items') /\ ListEnds("first")
  /\ UNCHANGED <<remote, life, watch, user>>

NextAnswered ==
  /\ lists["next"].at = "read"
  /\ items' = Merged(items, lists["next"].answer.items) /\ cursor' = lists["next"].answer.next
  /\ EnsureRefreshScheduled(items') /\ ListEnds("next")
  /\ UNCHANGED <<remote, life, watch, user>>

RefreshAnswered_Replaced ==   \* mutant: the refreshed records replace the page
  /\ lists["refresh"].at = "read"
  /\ items' = lists["refresh"].answer.items
  /\ EnsureRefreshScheduled(items') /\ ListEnds("refresh")
  /\ UNCHANGED <<remote, life, cursor, watch, user>>
(* Records the answer does not have stay on the page.                      *)
RefreshAnswered ==
  /\ lists["refresh"].at = "read"
  /\ items' = Merged(lists["refresh"].answer.items, items)
  /\ EnsureRefreshScheduled(items') /\ ListEnds("refresh")
  /\ UNCHANGED <<remote, life, cursor, watch, user>>

ListFails_Quietly(k) ==   \* mutant: a failed request does not schedule the next
  /\ lists[k].at = "sent"
  /\ ListEnds(k)
  /\ UNCHANGED <<remote, life, items, cursor, timer, watch, user>>
ListFails(k) ==
  /\ lists[k].at = "sent"
  /\ EnsureRefreshScheduled(items) /\ ListEnds(k)
  /\ UNCHANGED <<remote, life, items, cursor, watch, user>>

refreshLimit == Min({MaxRefresh, Max({PageSize, Cardinality(DOMAIN items)})})

WatchLeft_Below == watch - 1   \* mutant: counted below zero
WatchLeft == IF watch > 0 THEN watch - 1 ELSE 0

TimerFires ==
  /\ timer
  /\ timer' = FALSE
  /\ watch' = WatchLeft
  /\ lists' = IF Busy("refresh") THEN lists ELSE [lists EXCEPT !["refresh"] = Ask(refreshLimit, 0)]
  /\ UNCHANGED <<remote, life, items, cursor, user>>

-----------------------------------------------------------------------------
(* Operations on records.                                                  *)

OffersNow(o, r) ==
  CASE o = "cancel" -> items[r] = "uploading"
    [] o = "retry" -> items[r] \in Retryable
    [] o = "delete" -> items[r] \notin Nonterminal

Operate(o, r) ==
  /\ life = "shown" /\ pending[o][r] = "none"
  /\ r \in DOMAIN items /\ OffersNow(o, r)
  /\ Tap
  /\ pending' = [pending EXCEPT ![o][r] = "sent"]
  /\ UNCHANGED <<remote, page, clear>>

(* A retry makes a record of its own, which NewUpload adds.                *)
ServerOperates(o, r) ==
  /\ pending[o][r] = "sent"
  /\ pending' = [pending EXCEPT ![o][r] = "done"]
  /\ status' = IF o = "cancel" /\ status[r] = "uploading"
               THEN [status EXCEPT ![r] = "cancelling"] ELSE status
  /\ hidden' = IF o = "delete" /\ status[r] \notin Nonterminal
               THEN hidden \union {r} ELSE hidden
  /\ UNCHANGED <<page, clear, taps>>

(* Answers count after a pause too.                                        *)
Operated(o, r) ==
  /\ pending[o][r] = "done"
  /\ pending' = [pending EXCEPT ![o][r] = "none"]
  /\ items' = CASE o = "cancel" /\ r \in DOMAIN items /\ items[r] = "uploading" ->
                     [items EXCEPT ![r] = "cancelling"]
                [] o = "delete" -> Restrict(items, DOMAIN items \ {r})
                [] OTHER -> items
  /\ IF o = "delete" THEN UNCHANGED timer ELSE EnsureRefreshScheduled(items')
  /\ UNCHANGED <<remote, life, cursor, lists, watch, clear, taps>>

OperationFails(o, r) ==
  /\ pending[o][r] # "none"
  /\ pending' = [pending EXCEPT ![o][r] = "none"]
  /\ IF o = "delete" THEN UNCHANGED timer ELSE EnsureRefreshScheduled(items)
  /\ UNCHANGED <<remote, life, items, cursor, lists, watch, clear, taps>>

clearUploadedRecords ==
  /\ life = "shown" /\ clear.at = "none"
  /\ Tap
  /\ clear' = [at |-> "sent", current |-> TRUE]
  /\ UNCHANGED <<remote, page, pending>>

ServerClears ==
  /\ clear.at = "sent"
  /\ clear' = [clear EXCEPT !.at = "done"]
  /\ hidden' = hidden \union {r \in Records : status[r] = "uploaded"}
  /\ UNCHANGED <<status, page, pending, taps>>

(* The page is loaded again, unless it is being loaded already.            *)
Cleared ==
  /\ clear.at = "done"
  /\ IF clear.current
     THEN /\ items' = Restrict(items, {r \in DOMAIN items : items[r] # "uploaded"})
          /\ IF Busy("first")
             THEN clear' = NoClear /\ UNCHANGED <<lists, timer>>
             ELSE /\ lists' = FirstPage /\ timer' = FALSE
                  /\ clear' = [at |-> "reload", current |-> TRUE]
     ELSE clear' = NoClear /\ UNCHANGED <<items, lists, timer>>
  /\ UNCHANGED <<remote, life, cursor, watch, pending, taps>>

ClearEnds ==
  /\ \/ clear.at \in {"sent", "done"}
     \/ clear.at = "reload" /\ (~clear.current \/ ~Busy("first"))
  /\ clear' = NoClear
  /\ UNCHANGED <<remote, page, pending, taps>>

-----------------------------------------------------------------------------
(* onHide, onShow, onUnload.                                               *)

pause ==
  /\ life = "shown"
  /\ life' = "paused" /\ Generation(NoRequests)
  /\ UNCHANGED <<remote, items, cursor, watch, pending, taps>>

resume ==
  /\ life = "paused"
  /\ life' = "shown" /\ Generation(FirstPage)
  /\ UNCHANGED <<remote, items, cursor, watch, pending, taps>>

dispose ==
  /\ life # "gone"
  /\ life' = "gone" /\ Generation(NoRequests)
  /\ UNCHANGED <<remote, items, cursor, watch, pending, taps>>

-----------------------------------------------------------------------------
(* The server, while somebody looks.                                       *)

ReadList(k) ==
  /\ lists[k].at = "sent"
  /\ lists' = [lists EXCEPT ![k].at = "read",
                            ![k].answer = listPage(lists[k].limit, lists[k].before)]
  /\ UNCHANGED <<remote, life, items, cursor, timer, watch, user>>

NewUpload(r) ==
  /\ life # "gone" /\ status[r] = "none" /\ \A q \in 1..(r - 1) : status[q] # "none"
  /\ status' = [status EXCEPT ![r] = "uploading"]
  /\ UNCHANGED <<hidden, page, user>>

UploadSettles(r) ==
  /\ life # "gone" /\ status[r] \in Nonterminal
  /\ \/ status' = [status EXCEPT ![r] = "upload_failed"]
     \/ status[r] = "uploading" /\ status' = [status EXCEPT ![r] = "uploaded"]
  /\ UNCHANGED <<hidden, page, user>>

-----------------------------------------------------------------------------
HistoryNext ==
  \/ loadFirstPage \/ loadNextPage \/ FirstAnswered \/ NextAnswered \/ RefreshAnswered
  \/ TimerFires \/ clearUploadedRecords \/ ServerClears \/ Cleared \/ ClearEnds
  \/ pause \/ resume \/ dispose
  \/ \E k \in Kinds : ReadList(k) \/ ListFails(k)
  \/ \E r \in Records :
       \/ NewUpload(r) \/ UploadSettles(r)
       \/ \E o \in Operations :
            Operate(o, r) \/ ServerOperates(o, r) \/ Operated(o, r) \/ OperationFails(o, r)

HistorySpec == HistoryInit /\ [][HistoryNext]_historyVars

-----------------------------------------------------------------------------
(* While the page is shown and one of the records it refreshes may still   *)
(* change, a timer or a request for the list is there: no failed, dropped  *)
(* or overtaken request ends the refreshing.                               *)
RefreshAlive ==
  life = "shown" /\ hasRefreshableNonterminalRecord(items) =>
    timer \/ Busy("refresh") \/ Busy("first")

(* Between the newest record on the page and its cursor no unfinished or   *)
(* failed record that the server lists is missing, although refreshes,     *)
(* further pages, deletions and a clearing overlap.  (An upload that ends  *)
(* while the history is cleared may be off the page until it is reloaded.) *)
NothingSkipped ==
  \A r \in Listed :
    /\ status[r] # "uploaded"
    /\ cursor # 0 /\ r >= cursor
    /\ \E q \in DOMAIN items : q > r
    => r \in DOMAIN items
=============================================================================
