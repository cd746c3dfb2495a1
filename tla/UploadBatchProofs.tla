-------------------------- MODULE UploadBatchProofs --------------------------
(***************************************************************************)
(* Theorems about UploadBatch for every number of attempts, unfinished     *)
(* uploads, chunk slots and restarts, and whichever files look alike.      *)
(***************************************************************************)
EXTENDS UploadBatch, SequenceTheorems, FiniteSetTheorems, TLAPS

Items == {"none", "selected", "queued", "uploading", "uploaded", "failed", "lost"}
Places == {"none", "key", "init", "cut", "send", "drop", "dropFailed", "completeKey", "complete", "abort"}

Types ==
  /\ services \in {"down", "ready"} /\ restarts \in 0..MaxRestarts
  /\ batch \in [at : {"none", "prepare", "run"}, retry : 0..AttemptCount]
  /\ item \in [Attempts -> Items] /\ work \in [Attempts -> Places]
  /\ allocated \in 0..MaxActiveChunks
  /\ stuck \subseteq Attempts /\ disk \subseteq Attempts /\ stray \subseteq Attempts
  /\ registry \in Seq(Attempts)
  /\ ids \subseteq Attempts /\ visible \subseteq Attempts
  /\ server \in [Attempts -> {"none", "open", "accepted", "closed"}]

With(items, state) == {a \in Attempts : items[a] = state}

(* The queue has room for what it runs, and a batch is prepared as long as *)
(* a file of it is only selected.                                          *)
QueueInv ==
  /\ batch.at = "prepare" <=> With(item, "selected") # {}
  /\ QueueFlows
  /\ Cardinality(With(item, "uploading")) <= MaxUnfinished

(* A file whose chunk is on disk, or could not be deleted, has been        *)
(* started, and its runner is past the chunk or still has it.              *)
ChunkInv ==
  /\ SlotsAccounted
  /\ \A a \in stuck : work[a] \in {"abort", "none"}
  /\ \A a \in disk : work[a] \notin {"key", "init", "cut"}
  /\ \A a \in stuck \union disk : item[a] \notin {"none", "selected", "queued"}

RecordsInv == IsInjective(registry) /\ Len(registry) <= MaxUnfinished

(* A retry is of one file, which is alone in its batch; the place of the   *)
(* record it replaces stays free until the file's own takes it.            *)
RoomInv ==
  batch.retry # 0 =>
    /\ batch.at = "prepare" =>
         /\ batch.retry \in Range(registry) \/ Len(registry) < MaxUnfinished
         /\ \A a, b \in With(item, "selected") : a = b
    /\ batch.at = "run" =>
         /\ With(item, "queued") = {}
         /\ \A a, b \in With(item, "uploading") : a = b
         /\ \A a \in Attempts : work[a] = "key" => Len(registry) < MaxUnfinished

BatchInv == Types /\ QueueInv /\ ChunkInv /\ RecordsInv /\ RoomInv

-----------------------------------------------------------------------------
(* Finite sets of numbers.                                                 *)

LEMMA Least ==
  ASSUME NEW S, S \subseteq Nat, IsFiniteSet(S), S # {}
  PROVE  \E n \in S : \A m \in S : n <= m
<1> DEFINE Below(n) == {m \in S : m <= n}
           T == {Below(n) : n \in S}
<1>1. T \subseteq FiniteSubsetsOf(S) /\ T # {}
  <2>1. \A n \in S : Below(n) \subseteq S /\ IsFiniteSet(Below(n))
    BY FS_Subset
  <2>2. \A n \in S : Below(n) \in FiniteSubsetsOf(S)
    BY <2>1 DEF FiniteSubsetsOf
  <2> HIDE DEF Below
  <2> QED BY <2>2
<1>2. PICK x \in T : \A y \in T : ~ (<<y, x>> \in StrictSubsetOrdering(S))
  <2> HIDE DEF T
  <2> QED BY <1>1, FS_StrictSubsetOrderingWellFounded, WFMin
<1>3. PICK n \in S : x = Below(n)
  OBVIOUS
<1>4. SUFFICES ASSUME NEW m \in S, m < n PROVE FALSE
  OBVIOUS
<1>5. Below(m) \in T /\ Below(m) \subseteq S /\ Below(n) \subseteq S
  OBVIOUS
<1>6. Below(m) \subseteq Below(n) /\ Below(m) # Below(n)
  <2>1. n \in Below(n) /\ n \notin Below(m)
    BY <1>4
  <2>2. \A k \in S : k <= m => k <= n
    BY <1>4
  <2> QED BY <2>1, <2>2
<1> QED BY <1>2, <1>3, <1>5, <1>6 DEF StrictSubsetOrdering

LEMMA Greatest ==
  ASSUME NEW S, NEW n \in Nat, S \subseteq 1..n, S # {}
  PROVE  \E k \in S : \A m \in S : m <= k
<1> DEFINE T == {n - m : m \in S}
<1>1. T \subseteq 0..n /\ T # {}
  OBVIOUS
<1>2. IsFiniteSet(T) /\ T \subseteq Nat
  <2>1. IsFiniteSet(0..n)
    BY FS_Interval, 0 \in Int, n \in Int
  <2>2. T \subseteq Nat
    BY <1>1
  <2> HIDE DEF T
  <2>3. IsFiniteSet(T)
    BY <1>1, <2>1, FS_Subset
  <2> QED BY <2>2, <2>3
<1>3. PICK d \in T : \A e \in T : d <= e
  <2> HIDE DEF T
  <2> QED BY <1>1, <1>2, Least
<1>4. PICK k \in S : d = n - k
  OBVIOUS
<1>5. ASSUME NEW m \in S PROVE m <= k
  <2>1. n - m \in T /\ m \in Nat /\ k \in Nat
    BY <1>4
  <2>2. n - k <= n - m
    BY <1>3, <1>4, <2>1
  <2> QED BY <2>1, <2>2
<1> QED BY <1>5

-----------------------------------------------------------------------------
(* The registry.                                                           *)

LEMMA Found ==
  ASSUME NEW S, NEW s \in Seq(S), NEW e, \E i \in 1..Len(s) : s[i] = e
  PROVE  \E i \in 1..Len(s) : s[i] = e /\ RemoveFirst(s, e) = RemoveAt(s, i)
<1> DEFINE I == {i \in 1..Len(s) : s[i] = e}
<1>1. RemoveFirst(s, e) = RemoveAt(s, Min(I))
  BY DEF RemoveFirst, SelectInSeq
<1>2. I \subseteq Nat /\ IsFiniteSet(I) /\ I # {}
  <2>1. I \subseteq 1..Len(s) /\ I # {} /\ Len(s) \in Nat
    BY LenProperties
  <2>2. IsFiniteSet(1..Len(s))
    BY <2>1, FS_Interval, 1 \in Int, Len(s) \in Int
  <2>3. I \subseteq Nat
    BY <2>1
  <2> HIDE DEF I
  <2>4. IsFiniteSet(I)
    BY <2>1, <2>2, FS_Subset
  <2> QED BY <2>1, <2>3, <2>4
<1>3. \E i \in I : \A j \in I : i <= j
  <2> HIDE DEF I
  <2> QED BY <1>2, Least
<1>4. Min(I) \in I
  <2> HIDE DEF I
  <2> QED BY <1>3 DEF Min
<1> QED BY <1>1, <1>4

LEMMA Dropped ==
  ASSUME NEW S, NEW s \in Seq(S), NEW k \in 1..Len(s)
  PROVE  LET t == RemoveAt(s, k)
         IN /\ t \in Seq(S) /\ Len(t) = Len(s) - 1
            /\ \A i \in 1..(Len(s) - 1) : t[i] = IF i < k THEN s[i] ELSE s[i + 1]
<1> DEFINE p == SubSeq(s, 1, k - 1)
           q == SubSeq(s, k + 1, Len(s))
<1>1. Len(s) \in Nat /\ k \in Nat /\ \A i \in 1..Len(s) : s[i] \in S
  BY LenProperties
<1>2. /\ p \in Seq(S) /\ Len(p) = k - 1
      /\ \A i \in 1..(k - 1) : p[i] = s[i]
  <2>1. \A i \in 1..(k - 1) : s[i] \in S
    BY <1>1
  <2> QED BY <1>1, <2>1, SubSeqProperties
<1>3. /\ q \in Seq(S) /\ Len(q) = Len(s) - k
      /\ \A i \in 1..(Len(s) - k) : q[i] = s[k + i]
  <2>1. \A i \in (k + 1)..Len(s) : s[i] \in S
    BY <1>1
  <2>2. /\ q \in Seq(S) /\ Len(q) = IF k + 1 <= Len(s) THEN Len(s) - (k + 1) + 1 ELSE 0
        /\ \A i \in 1..(Len(s) - (k + 1) + 1) : q[i] = s[k + 1 + i - 1]
    BY <1>1, <2>1, SubSeqProperties
  <2> HIDE DEF q
  <2> QED BY <1>1, <2>2
<1> HIDE DEF p, q
<1>4. /\ p \o q \in Seq(S) /\ Len(p \o q) = Len(p) + Len(q)
      /\ \A i \in 1..(Len(p) + Len(q)) : (p \o q)[i] = IF i <= Len(p) THEN p[i] ELSE q[i - Len(p)]
  BY <1>2, <1>3, ConcatProperties
<1>5. RemoveAt(s, k) = p \o q
  BY DEF RemoveAt, p, q
<1>6. Len(p) + Len(q) = Len(s) - 1
  BY <1>1, <1>2, <1>3
<1>7. ASSUME NEW i \in 1..(Len(s) - 1) PROVE (p \o q)[i] = IF i < k THEN s[i] ELSE s[i + 1]
  <2>1. CASE i < k
    BY <1>1, <1>2, <1>4, <1>6, <2>1
  <2>2. CASE i >= k
    <3>1. i - (k - 1) \in 1..(Len(s) - k) /\ k + (i - (k - 1)) = i + 1
      BY <1>1, <2>2
    <3>2. (p \o q)[i] = q[i - (k - 1)]
      BY <1>1, <1>2, <1>4, <1>6, <2>2
    <3> QED BY <1>1, <1>3, <2>2, <3>1, <3>2
  <2>3. i < k \/ i >= k
    BY <1>1
  <2> QED BY <2>1, <2>2, <2>3
<1> QED BY <1>4, <1>5, <1>6, <1>7

(* The registry without a record has every other one, in its order.        *)
LEMMA Removed ==
  ASSUME Types, RecordsInv, NEW e
  PROVE  /\ Without(e) \in Seq(Attempts) /\ IsInjective(Without(e))
         /\ Len(Without(e)) <= Len(registry) /\ Len(Without(e)) \in Nat
         /\ e \in Range(registry) => Len(Without(e)) < Len(registry)
         /\ \A b \in Range(registry) : b # e => b \in Range(Without(e))
<1>1. Len(registry) \in Nat /\ registry \in Seq(Attempts) /\ DOMAIN registry = 1..Len(registry)
  BY LenProperties DEF Types
<1>2. CASE ~ \E i \in 1..Len(registry) : registry[i] = e
  <2>1. Without(e) = registry
    BY <1>2 DEF Without, RemoveFirst
  <2> QED BY <1>1, <1>2, <2>1 DEF RecordsInv, Range
<1>3. CASE \E i \in 1..Len(registry) : registry[i] = e
  <2>1. PICK k \in 1..Len(registry) : registry[k] = e /\ Without(e) = RemoveAt(registry, k)
    BY <1>1, <1>3, Found DEF Without
  <2> DEFINE t == RemoveAt(registry, k)
  <2>2. /\ t \in Seq(Attempts) /\ Len(t) = Len(registry) - 1
        /\ \A i \in 1..(Len(registry) - 1) : t[i] = IF i < k THEN registry[i] ELSE registry[i + 1]
    BY <1>1, Dropped
  <2> HIDE DEF t
  <2>3. DOMAIN t = 1..(Len(registry) - 1)
    BY <2>2, LenProperties
  <2>4. IsInjective(t)
    <3> SUFFICES ASSUME NEW i \in 1..(Len(registry) - 1), NEW j \in 1..(Len(registry) - 1), t[i] = t[j]
                 PROVE i = j
      BY <2>3 DEF IsInjective
    <3> DEFINE At(h) == IF h < k THEN h ELSE h + 1
    <3>1. t[i] = registry[At(i)] /\ t[j] = registry[At(j)]
      BY <2>2
    <3>2. At(i) \in 1..Len(registry) /\ At(j) \in 1..Len(registry)
      BY <1>1
    <3>3. At(i) = At(j)
      <4> HIDE DEF At
      <4> QED BY <1>1, <3>1, <3>2 DEF RecordsInv, IsInjective
    <3> QED BY <1>1, <3>3
  <2>5. ASSUME NEW b \in Range(registry), b # e PROVE b \in Range(t)
    <3>1. PICK i \in 1..Len(registry) : registry[i] = b
      BY <1>1 DEF Range
    <3>2. i # k
      BY <2>1, <2>5, <3>1
    <3>3. CASE i < k
      <4>1. i \in 1..(Len(registry) - 1) /\ t[i] = b
        BY <1>1, <2>2, <3>1, <3>3
      <4> QED BY <2>3, <4>1 DEF Range
    <3>4. CASE i > k
      <4>1. i - 1 \in 1..(Len(registry) - 1) /\ ~(i - 1 < k) /\ (i - 1) + 1 = i
        BY <1>1, <3>4
      <4>2. t[i - 1] = b
        BY <2>2, <3>1, <4>1
      <4> QED BY <2>3, <4>1, <4>2 DEF Range
    <3> QED BY <1>1, <3>2, <3>3, <3>4
  <2>6. Without(e) = t
    BY <2>1 DEF t
  <2> QED BY <1>1, <2>2, <2>4, <2>5, <2>6
<1> QED BY <1>2, <1>3

(* A record is added behind the others, if there is room for it.           *)
LEMMA Added ==
  ASSUME Types, RecordsInv, NEW a \in Attempts, CanSave(a)
  PROVE  /\ Saved(a) \in Seq(Attempts) /\ IsInjective(Saved(a)) /\ Len(Saved(a)) <= MaxUnfinished
<1>1. Len(registry) \in Nat /\ registry \in Seq(Attempts) /\ DOMAIN registry = 1..Len(registry)
  BY LenProperties DEF Types
<1>2. CASE a \in Range(registry)
  BY <1>1, <1>2 DEF RecordsInv, Saved
<1>3. CASE a \notin Range(registry)
  <2> DEFINE t == Append(registry, a)
  <2>1. Saved(a) = t /\ Len(registry) < MaxUnfinished
    BY <1>3 DEF Saved, CanSave
  <2>2. /\ t \in Seq(Attempts) /\ Len(t) = Len(registry) + 1 /\ t[Len(registry) + 1] = a
        /\ \A i \in 1..Len(registry) : t[i] = registry[i]
    BY <1>1, AppendProperties
  <2> HIDE DEF t
  <2>3. DOMAIN t = 1..(Len(registry) + 1)
    BY <2>2, LenProperties
  <2>4. \A i \in 1..Len(registry) : registry[i] # a
    BY <1>1, <1>3 DEF Range
  <2>5. IsInjective(t)
    <3> SUFFICES ASSUME NEW i \in 1..(Len(registry) + 1), NEW j \in 1..(Len(registry) + 1), t[i] = t[j]
                 PROVE i = j
      BY <2>3 DEF IsInjective
    <3>1. i \in 1..Len(registry) \/ i = Len(registry) + 1
      BY <1>1
    <3>2. j \in 1..Len(registry) \/ j = Len(registry) + 1
      BY <1>1
    <3> QED BY <1>1, <2>2, <2>4, <3>1, <3>2 DEF RecordsInv, IsInjective
  <2> QED BY <1>1, <2>1, <2>2, <2>5, BatchAssumption
<1> QED BY <1>2, <1>3

-----------------------------------------------------------------------------
(* The queue.                                                              *)

LEMMA NumberOf ==
  ASSUME NEW T, T \subseteq Attempts
  PROVE  IsFiniteSet(T) /\ Cardinality(T) \in Nat
<1>1. IsFiniteSet(Attempts)
  BY BatchAssumption, FS_Interval, 1 \in Int, AttemptCount \in Int DEF Attempts
<1>2. IsFiniteSet(T)
  BY <1>1, FS_Subset
<1> QED BY <1>2, FS_CardinalityType

LEMMA NoMore ==
  ASSUME NEW S, NEW T, S \subseteq T, T \subseteq Attempts
  PROVE  Cardinality(S) <= Cardinality(T)
<1>1. IsFiniteSet(T)
  BY NumberOf
<1> QED BY <1>1, FS_Subset

(* #drain starts queued files in their order, as many as there is room for *)
(* and, if any has to wait, no fewer.                                      *)
LEMMA Starting ==
  ASSUME NEW items \in [Attempts -> Items],
         Cardinality(With(items, "uploading")) <= MaxUnfinished
  PROVE  LET now == Started(items)
         IN /\ now \in [Attempts -> Items]
            /\ \A a \in Attempts : now[a] = items[a] \/ (items[a] = "queued" /\ now[a] = "uploading")
            /\ Cardinality(With(now, "uploading")) <= MaxUnfinished
            /\ With(now, "queued") # {} => Cardinality(With(now, "uploading")) = MaxUnfinished
<1> DEFINE now == Started(items)
           Q == With(items, "queued")
           N == With(items, "uploading")
           room == MaxUnfinished - Cardinality(N)
           UpTo(a) == {b \in Attempts : items[b] = "queued" /\ b <= a}
           S == {a \in Q : Cardinality(UpTo(a)) <= room}
<1>1. now = [a \in Attempts |-> IF items[a] = "queued" /\ Cardinality(UpTo(a)) <= room
                                THEN "uploading" ELSE items[a]]
  BY DEF Started, With
<1>2. /\ With(now, "uploading") = N \union S
      /\ With(now, "queued") = Q \ S
      /\ N \intersect S = {}
  BY <1>1 DEF With
<1>3. room \in Nat
  <2>1. Cardinality(N) \in Nat
    BY NumberOf DEF With
  <2> QED BY <2>1, BatchAssumption
<1>4. /\ S \subseteq Attempts /\ N \subseteq Attempts /\ Q \subseteq Attempts
      /\ \A a \in Attempts : UpTo(a) \subseteq Q
  BY DEF With
<1>5. Attempts \subseteq Nat
  BY DEF Attempts
<1>6. Cardinality(S) <= room
  <2>1. CASE S = {}
    <3> HIDE DEF S, N
    <3>1. Cardinality(S) = 0
      BY <2>1, FS_EmptySet
    <3> QED BY <1>3, <3>1
  <2>2. CASE S # {}
    <3>1. PICK m \in S : \A a \in S : a <= m
      <4>1. S \subseteq 1..AttemptCount /\ AttemptCount \in Nat
        BY <1>4, BatchAssumption DEF Attempts
      <4> HIDE DEF S
      <4> QED BY <2>2, <4>1, Greatest
    <3>2. S \subseteq UpTo(m)
      BY <3>1 DEF With
    <3>3. Cardinality(S) <= Cardinality(UpTo(m))
      <4> HIDE DEF S
      <4> QED BY <3>2, NoMore
    <3>4. Cardinality(UpTo(m)) <= room
      OBVIOUS
    <3>5. Cardinality(S) \in Nat /\ Cardinality(UpTo(m)) \in Nat
      <4>1. UpTo(m) \subseteq Attempts
        OBVIOUS
      <4> HIDE DEF S, UpTo
      <4> QED BY <1>4, <4>1, NumberOf
    <3> HIDE DEF S, UpTo
    <3> QED BY <1>3, <3>3, <3>4, <3>5
  <2> QED BY <2>1, <2>2
<1>7. ASSUME Q \ S # {} PROVE Cardinality(S) >= room
  <2>1. PICK c \in Q \ S : \A a \in Q \ S : c <= a
    <3>1. Q \ S \subseteq Attempts
      BY <1>4
    <3> HIDE DEF S, Q
    <3> QED BY <1>5, <1>7, <3>1, NumberOf, Least
  <2>2. c \in UpTo(c) /\ UpTo(c) \subseteq Attempts /\ ~(Cardinality(UpTo(c)) <= room)
    BY <1>4, <1>5 DEF With
  <2>3. UpTo(c) \ {c} \subseteq S
    <3> SUFFICES ASSUME NEW b \in UpTo(c), b # c, b \notin S PROVE FALSE
      OBVIOUS
    <3>1. b \in Q \ S
      BY DEF With
    <3>2. c <= b /\ b <= c /\ b \in Nat /\ c \in Nat
      BY <1>4, <1>5, <2>1, <3>1
    <3> QED BY <3>2
  <2> HIDE DEF UpTo, S
  <2>4. /\ Cardinality(UpTo(c)) \in Nat /\ IsFiniteSet(UpTo(c))
        /\ Cardinality(S) \in Nat
    BY <1>4, <2>2, NumberOf
  <2>5. Cardinality(UpTo(c) \ {c}) = Cardinality(UpTo(c)) - 1
    BY <2>2, <2>4, FS_RemoveElement
  <2>6. Cardinality(UpTo(c) \ {c}) <= Cardinality(S)
    BY <1>4, <2>3, NoMore
  <2> QED BY <1>3, <2>2, <2>4, <2>5, <2>6
<1>8. Cardinality(N \union S) = Cardinality(N) + Cardinality(S)
  <2> HIDE DEF N, S
  <2>1. IsFiniteSet(N) /\ IsFiniteSet(S) /\ Cardinality(N) \in Nat /\ Cardinality(S) \in Nat
    BY <1>4, NumberOf
  <2>2. Cardinality(N \union S) = Cardinality(N) + Cardinality(S) - Cardinality(N \intersect S)
    BY <2>1, FS_Union
  <2>3. Cardinality(N \intersect S) = 0
    BY <1>2, FS_EmptySet
  <2> QED BY <2>1, <2>2, <2>3
<1>9. Cardinality(N) \in Nat /\ Cardinality(S) \in Nat /\ MaxUnfinished \in Nat
  <2> HIDE DEF N, S
  <2> QED BY <1>4, NumberOf, BatchAssumption
<1>10. /\ now \in [Attempts -> Items]
       /\ \A a \in Attempts : now[a] = items[a] \/ (items[a] = "queued" /\ now[a] = "uploading")
  BY <1>1 DEF Items
<1>11. Cardinality(With(now, "uploading")) = Cardinality(N) + Cardinality(S)
  <2> HIDE DEF N, S, now
  <2> QED BY <1>2, <1>8
<1>12. Cardinality(With(now, "uploading")) <= MaxUnfinished
  <2> HIDE DEF N, S, now
  <2> QED BY <1>6, <1>9, <1>11
<1>13. With(now, "queued") # {} => Cardinality(With(now, "uploading")) = MaxUnfinished
  <2> HIDE DEF N, S, Q, now
  <2> QED BY <1>2, <1>6, <1>7, <1>9, <1>11
<1> HIDE DEF now
<1>14. now = Started(items)
  BY DEF now
<1> QED BY <1>10, <1>12, <1>13, <1>14

-----------------------------------------------------------------------------
(* What a step does to the queue and to the room of a retry.               *)

BatchRows == [at : {"none", "prepare", "run"}, retry : 0..AttemptCount]

LEMMA NoBatchRow == NoBatch \in BatchRows /\ NoBatch.at = "none" /\ NoBatch.retry = 0
BY BatchAssumption DEF NoBatch, BatchRows

(* Exactly the files under way have a runner.                              *)
LEMMA HasRunner ==
  ASSUME Types, QueueInv, NEW a \in Attempts
  PROVE  /\ item[a] = "uploading" <=> work[a] # "none"
         /\ work[a] # "none" => batch.at = "run"
BY DEF QueueInv, QueueFlows

LEMMA Runs ==
  ASSUME Types, QueueInv, NEW items \in [Attempts -> Items],
         With(items, "uploading") \subseteq With(item, "uploading"), Run(items)
  PROVE  /\ item' \in [Attempts -> Items] /\ work' \in [Attempts -> Places]
         /\ \A a \in Attempts : item'[a] = items[a] \/ (items[a] = "queued" /\ item'[a] = "uploading")
         /\ \A a \in Attempts : item'[a] = "uploading" <=> work'[a] # "none"
         /\ \A a \in Attempts :
              \/ work'[a] = work[a]
              \/ work'[a] = "none"
              \/ work'[a] = "key" /\ work[a] = "none"
         /\ Cardinality(With(item', "uploading")) <= MaxUnfinished
         /\ With(item', "queued") # {} => Cardinality(With(item', "uploading")) = MaxUnfinished
<1>1. Cardinality(With(items, "uploading")) <= MaxUnfinished
  <2>1. With(item, "uploading") \subseteq Attempts
    BY DEF With
  <2>2. Cardinality(With(items, "uploading")) <= Cardinality(With(item, "uploading"))
    BY <2>1, NoMore
  <2>3. /\ Cardinality(With(items, "uploading")) \in Nat
        /\ Cardinality(With(item, "uploading")) \in Nat
    BY <2>1, NumberOf
  <2> QED BY <2>2, <2>3, BatchAssumption DEF QueueInv
<1>2. item' = Started(items)
  BY DEF Run
<1>3. /\ item' \in [Attempts -> Items]
      /\ \A a \in Attempts : item'[a] = items[a] \/ (items[a] = "queued" /\ item'[a] = "uploading")
      /\ Cardinality(With(item', "uploading")) <= MaxUnfinished
      /\ With(item', "queued") # {} => Cardinality(With(item', "uploading")) = MaxUnfinished
  BY <1>1, <1>2, Starting
<1>4. \A a \in Attempts : work'[a] = IF item'[a] # "uploading" THEN "none"
                                    ELSE IF item[a] # "uploading" THEN "key" ELSE work[a]
  BY DEF Run
<1>5. \A a \in Attempts : item[a] = "uploading" <=> work[a] # "none"
  BY HasRunner
<1>6. work' \in [Attempts -> Places]
  BY DEF Run, Types, Places
<1>7. \A a \in Attempts : item'[a] = "uploading" <=> work'[a] # "none"
  BY <1>4, <1>5
<1>8. \A a \in Attempts :
        \/ work'[a] = work[a]
        \/ work'[a] = "none"
        \/ work'[a] = "key" /\ work[a] = "none"
  BY <1>4, <1>5
<1> QED BY <1>3, <1>6, <1>7, <1>8

(* An item ends: the others stay where they are or begin.                  *)
LEMMA Ends ==
  ASSUME Types, QueueInv, RoomInv, NEW a \in Attempts, work[a] # "none",
         NEW result \in {"uploaded", "failed"}, ItemEnds(a, result)
  PROVE  /\ item' \in [Attempts -> Items] /\ work' \in [Attempts -> Places] /\ batch' \in BatchRows
         /\ QueueInv' /\ RoomInv'
         /\ item'[a] = result /\ work'[a] = "none"
         /\ \A b \in Attempts \ {a} :
              /\ item'[b] = item[b] \/ (item[b] = "queued" /\ item'[b] = "uploading")
              /\ work'[b] = work[b] \/ (work'[b] = "key" /\ work[b] = "none" /\ item[b] = "queued")
<1> DEFINE items == [item EXCEPT ![a] = result]
<1>1. item[a] = "uploading" /\ batch.at = "run"
  BY HasRunner
<1>2. /\ items \in [Attempts -> Items] /\ items[a] = result
      /\ \A b \in Attempts \ {a} : items[b] = item[b]
  BY DEF Types, Items
<1>3. With(items, "uploading") \subseteq With(item, "uploading")
  BY <1>1, <1>2 DEF With
<1>4. /\ Run(items)
      /\ batch' = IF \E b \in Attempts : item'[b] = "uploading" THEN batch ELSE NoBatch
  BY DEF ItemEnds
<1> HIDE DEF items
<1>5. /\ item' \in [Attempts -> Items] /\ work' \in [Attempts -> Places]
      /\ \A b \in Attempts : item'[b] = items[b] \/ (items[b] = "queued" /\ item'[b] = "uploading")
      /\ \A b \in Attempts : item'[b] = "uploading" <=> work'[b] # "none"
      /\ \A b \in Attempts :
           \/ work'[b] = work[b]
           \/ work'[b] = "none"
           \/ work'[b] = "key" /\ work[b] = "none"
      /\ Cardinality(With(item', "uploading")) <= MaxUnfinished
      /\ With(item', "queued") # {} => Cardinality(With(item', "uploading")) = MaxUnfinished
  BY <1>2, <1>3, <1>4, Runs
<1>6. item'[a] = result /\ work'[a] = "none"
  BY <1>2, <1>5
<1>7. \A b \in Attempts \ {a} :
        /\ item'[b] = item[b] \/ (item[b] = "queued" /\ item'[b] = "uploading")
        /\ work'[b] = work[b] \/ (work'[b] = "key" /\ work[b] = "none" /\ item[b] = "queued")
  <2> TAKE b \in Attempts \ {a}
  <2>1. item'[b] = item[b] \/ (item[b] = "queued" /\ item'[b] = "uploading")
    BY <1>2, <1>5
  <2>2. item[b] = "uploading" <=> work[b] # "none"
    BY HasRunner
  <2> QED BY <1>5, <2>1, <2>2
<1>8. batch' \in BatchRows
  BY <1>4, NoBatchRow DEF Types, BatchRows
<1>9. QueueInv'
  <2>1. \A b \in Attempts : item[b] # "selected" /\ item'[b] # "selected"
    BY <1>1, <1>6, <1>7 DEF QueueInv, With
  <2>2. batch'.at = "run" <=> \E b \in Attempts : item'[b] = "uploading"
    BY <1>1, <1>4, NoBatchRow
  <2>3. batch'.at # "prepare"
    BY <1>1, <1>4, NoBatchRow
  <2> QED BY <1>5, <2>1, <2>2, <2>3 DEF QueueInv, QueueFlows, With
<1>10. RoomInv'
  <2>1. CASE batch.retry = 0
    BY <1>4, <2>1, NoBatchRow DEF RoomInv
  <2>2. CASE batch.retry # 0
    <3>1. \A b \in Attempts \ {a} : item[b] # "queued" /\ item[b] # "uploading"
      BY <1>1, <2>2 DEF RoomInv, With
    <3>2. \A b \in Attempts : item'[b] # "uploading"
      BY <1>6, <1>7, <3>1
    <3> QED BY <1>4, <3>2, NoBatchRow DEF RoomInv
  <2> QED BY <2>1, <2>2
<1> QED BY <1>5, <1>6, <1>7, <1>8, <1>9, <1>10

(* A runner goes on, past the point where it needs room in the registry.   *)
LEMMA GoesOn ==
  ASSUME Types, QueueInv, RoomInv, NEW a \in Attempts, work[a] # "none",
         NEW place \in Places \ {"none", "key"}, GoTo(a, place)
  PROVE  /\ work' \in [Attempts -> Places] /\ UNCHANGED <<batch, item>>
         /\ work'[a] = place /\ \A b \in Attempts \ {a} : work'[b] = work[b]
         /\ QueueInv' /\ RoomInv'
<1>1. item[a] = "uploading" /\ batch.at = "run"
  BY HasRunner
<1>2. /\ work' \in [Attempts -> Places] /\ UNCHANGED <<batch, item>>
      /\ work'[a] = place /\ \A b \in Attempts \ {a} : work'[b] = work[b]
  BY DEF Types, GoTo
<1>3. \A b \in Attempts : work[b] # "none" <=> work'[b] # "none"
  BY <1>2
<1>4. QueueInv'
  BY <1>2, <1>3 DEF QueueInv, QueueFlows, With
<1>5. RoomInv'
  <2>1. SUFFICES ASSUME batch.retry # 0 PROVE \A b \in Attempts : work'[b] # "key"
    BY <1>1, <1>2 DEF RoomInv, With
  <2>2. ASSUME NEW b \in Attempts, work[b] # "none" PROVE b = a
    <3>1. item[b] = "uploading"
      BY <2>2, HasRunner
    <3> QED BY <1>1, <2>1, <3>1 DEF RoomInv, With
  <2> QED BY <1>2, <2>2
<1> QED BY <1>2, <1>4, <1>5

-----------------------------------------------------------------------------
(* What a step does to the slots and to the registry.                      *)

Held == {"cut", "send", "drop", "dropFailed"}

LEMMA Numbers ==
  ASSUME Types
  PROVE  /\ Holding \subseteq Attempts /\ IsFiniteSet(Holding) /\ Cardinality(Holding) \in Nat
         /\ IsFiniteSet(stuck) /\ Cardinality(stuck) \in Nat
         /\ allocated \in Nat /\ MaxActiveChunks \in Nat
<1>1. Holding \subseteq Attempts /\ stuck \subseteq Attempts
  BY DEF Holding, Types
<1>2. allocated \in Nat /\ MaxActiveChunks \in Nat
  BY BatchAssumption DEF Types
<1> QED BY <1>1, <1>2, NumberOf

(* One runner moves: it keeps, gives up or takes its slot.                 *)
LEMMA Holds ==
  ASSUME Types, NEW a \in Attempts, \A b \in Attempts \ {a} : work'[b] = work[b]
  PROVE  /\ (work[a] \in Held <=> work'[a] \in Held) => Holding' = Holding
         /\ work[a] \in Held /\ work'[a] \notin Held =>
              /\ Holding' = Holding \ {a} /\ a \in Holding
              /\ Cardinality(Holding') = Cardinality(Holding) - 1
         /\ work[a] \notin Held /\ work'[a] \in Held =>
              /\ Holding' = Holding \union {a}
              /\ Cardinality(Holding') = Cardinality(Holding) + 1
<1>1. ASSUME work[a] \in Held <=> work'[a] \in Held PROVE Holding' = Holding
  BY <1>1 DEF Holding, Held
<1>2. ASSUME work[a] \in Held, work'[a] \notin Held
      PROVE  Holding' = Holding \ {a} /\ a \in Holding /\ Cardinality(Holding') = Cardinality(Holding) - 1
  <2>1. Holding' = Holding \ {a} /\ a \in Holding
    BY <1>2 DEF Holding, Held
  <2>2. IsFiniteSet(Holding)
    BY Numbers
  <2> QED BY <2>1, <2>2, FS_RemoveElement
<1>3. ASSUME work[a] \notin Held, work'[a] \in Held
      PROVE  Holding' = Holding \union {a} /\ Cardinality(Holding') = Cardinality(Holding) + 1
  <2>1. Holding' = Holding \union {a} /\ a \notin Holding
    BY <1>3 DEF Holding, Held
  <2>2. IsFiniteSet(Holding)
    BY Numbers
  <2> QED BY <2>1, <2>2, FS_AddElement
<1> QED BY <1>1, <1>2, <1>3

(* A slot that somebody holds is counted.                                  *)
LEMMA Counted ==
  ASSUME Types, ChunkInv, NEW a \in Attempts, work[a] \in Held
  PROVE  allocated - 1 \in 0..MaxActiveChunks
<1>1. a \in Holding
  BY DEF Holding, Held
<1>2. Cardinality(Holding) # 0
  BY <1>1, Numbers, FS_EmptySet
<1> QED BY <1>2, Numbers DEF ChunkInv, SlotsAccounted, Types

(* What of the slots and files a step leaves alone when nobody's hold on   *)
(* them changes.                                                           *)
LEMMA ChunksKept ==
  ASSUME Types, ChunkInv, UNCHANGED <<services, chunks>>, Holding' = Holding,
         \A a \in stuck : work'[a] \in {"abort", "none"},
         \A a \in disk : work'[a] \notin {"key", "init", "cut"},
         \A a \in stuck \union disk : item'[a] \notin {"none", "selected", "queued"}
  PROVE  ChunkInv'
BY DEF ChunkInv, SlotsAccounted, chunks

LEMMA Recorded ==
  ASSUME Types, RecordsInv, NEW a \in Attempts,
         \/ registry' = registry
         \/ CanSave(a) /\ registry' = Saved(a)
         \/ \E e \in 0..AttemptCount : registry' = Without(e)
  PROVE  registry' \in Seq(Attempts) /\ RecordsInv'
<1>1. CASE registry' = registry
  BY <1>1 DEF Types, RecordsInv
<1>2. CASE CanSave(a) /\ registry' = Saved(a)
  BY <1>2, Added DEF RecordsInv
<1>3. CASE \E e \in 0..AttemptCount : registry' = Without(e)
  <2>1. PICK e \in 0..AttemptCount : registry' = Without(e)
    BY <1>3
  <2>2. /\ Without(e) \in Seq(Attempts) /\ IsInjective(Without(e))
        /\ Len(Without(e)) <= Len(registry) /\ Len(Without(e)) \in Nat
    BY Removed
  <2>3. Len(registry) \in Nat /\ MaxUnfinished \in Nat
    BY LenProperties, BatchAssumption DEF Types
  <2> QED BY <2>1, <2>2, <2>3 DEF RecordsInv
<1> QED BY <1>1, <1>2, <1>3

-----------------------------------------------------------------------------
(* The two ways in which a step of a runner leaves the invariant standing. *)

RemoteTypes ==
  /\ ids \subseteq Attempts /\ visible \subseteq Attempts
  /\ server \in [Attempts -> {"none", "open", "accepted", "closed"}]

LEMMA EndsWell ==
  ASSUME BatchInv, NEW a \in Attempts, work[a] \in {"key", "init", "complete", "abort"},
         NEW result \in {"uploaded", "failed"}, ItemEnds(a, result),
         UNCHANGED <<services, restarts, chunks>>,
         registry' \in Seq(Attempts), RecordsInv', RemoteTypes'
  PROVE  BatchInv'
<1>1. /\ item' \in [Attempts -> Items] /\ work' \in [Attempts -> Places] /\ batch' \in BatchRows
      /\ QueueInv' /\ RoomInv'
      /\ item'[a] = result /\ work'[a] = "none"
      /\ \A b \in Attempts \ {a} :
           /\ item'[b] = item[b] \/ (item[b] = "queued" /\ item'[b] = "uploading")
           /\ work'[b] = work[b] \/ (work'[b] = "key" /\ work[b] = "none" /\ item[b] = "queued")
  <2>1. work[a] # "none"
    OBVIOUS
  <2> QED BY <2>1, Ends DEF BatchInv
<1>2. Holding' = Holding
  BY <1>1 DEF Holding
<1>3. stuck \subseteq Attempts /\ disk \subseteq Attempts
  BY DEF BatchInv, Types
<1>4. \A b \in stuck \union disk : item[b] \notin {"none", "selected", "queued"}
  BY DEF BatchInv, ChunkInv
<1>5. \A b \in stuck \union disk :
        /\ item'[b] \notin {"none", "selected", "queued"}
        /\ work'[b] = "none" \/ work'[b] = work[b]
  BY <1>1, <1>3, <1>4
<1>6. \A b \in stuck : work'[b] \in {"abort", "none"}
  BY <1>5 DEF BatchInv, ChunkInv
<1>7. \A b \in disk : work'[b] \notin {"key", "init", "cut"}
  BY <1>5 DEF BatchInv, ChunkInv
<1>8. ChunkInv'
  BY <1>2, <1>5, <1>6, <1>7, ChunksKept DEF BatchInv
<1>9. Types'
  BY <1>1 DEF BatchInv, Types, BatchRows, RemoteTypes, chunks
<1> QED BY <1>1, <1>8, <1>9 DEF BatchInv

LEMMA GoesOnWell ==
  ASSUME BatchInv, NEW a \in Attempts, work[a] # "none",
         NEW place \in Places \ {"none", "key"}, GoTo(a, place),
         UNCHANGED <<services, restarts>>,
         allocated' \in 0..MaxActiveChunks,
         stuck' \subseteq Attempts, disk' \subseteq Attempts, stray' \subseteq Attempts,
         registry' \in Seq(Attempts), RecordsInv', RemoteTypes', ChunkInv'
  PROVE  BatchInv'
<1>1. work' \in [Attempts -> Places] /\ UNCHANGED <<batch, item>> /\ QueueInv' /\ RoomInv'
  BY GoesOn DEF BatchInv
<1>2. Types'
  BY <1>1 DEF BatchInv, Types, RemoteTypes
<1> QED BY <1>1, <1>2 DEF BatchInv

(* A runner goes on with what it has of slots and files.                   *)
LEMMA SameChunks ==
  ASSUME BatchInv, NEW a \in Attempts, work[a] \notin {"abort", "none"},
         NEW place \in Places \ {"none", "key"}, GoTo(a, place),
         work[a] \in Held <=> place \in Held,
         place \in {"init", "cut"} => work[a] \in {"key", "init", "cut"},
         UNCHANGED <<services, restarts, chunks>>,
         registry' \in Seq(Attempts), RecordsInv', RemoteTypes'
  PROVE  BatchInv'
<1>1. /\ UNCHANGED <<batch, item>> /\ work'[a] = place
      /\ \A b \in Attempts \ {a} : work'[b] = work[b]
  BY GoesOn DEF BatchInv
<1>2. Holding' = Holding
  BY <1>1, Holds DEF BatchInv
<1>3. stuck \subseteq Attempts /\ disk \subseteq Attempts
  BY DEF BatchInv, Types
<1>4. \A b \in stuck : work'[b] \in {"abort", "none"}
  BY <1>1, <1>3 DEF BatchInv, ChunkInv
<1>5. \A b \in disk : work'[b] \notin {"key", "init", "cut"}
  BY <1>1, <1>3 DEF BatchInv, ChunkInv
<1>6. \A b \in stuck \union disk : item'[b] \notin {"none", "selected", "queued"}
  BY <1>1 DEF BatchInv, ChunkInv
<1>7. ChunkInv'
  BY <1>2, <1>4, <1>5, <1>6, ChunksKept DEF BatchInv
<1>8. /\ allocated' \in 0..MaxActiveChunks
      /\ stuck' \subseteq Attempts /\ disk' \subseteq Attempts /\ stray' \subseteq Attempts
  BY DEF BatchInv, Types, chunks
<1> QED BY <1>7, <1>8, GoesOnWell

-----------------------------------------------------------------------------
(* Every step keeps the invariant.                                         *)

LEMMA RemoteKept ==
  ASSUME BatchInv, UNCHANGED <<ids, remote>>
  PROVE  RemoteTypes'
BY DEF BatchInv, Types, RemoteTypes, remote

LEMMA ServerMoves ==
  ASSUME BatchInv, NEW a \in Attempts,
         \/ UNCHANGED server
         \/ \E s \in {"open", "accepted", "closed"} : server' = [server EXCEPT ![a] = s],
         visible' \in {visible, visible \union {a}}, ids' \in {ids, ids \union {a}}
  PROVE  RemoteTypes'
BY DEF BatchInv, Types, RemoteTypes

LEMMA RecordMadeKeeps ==
  ASSUME BatchInv, NEW a \in Attempts, RecordMade(a)
  PROVE  BatchInv'
<1>1. /\ work[a] = "key" /\ UNCHANGED <<services, restarts, chunks>> /\ RemoteTypes'
  BY RemoteKept DEF RecordMade
<1>2. CASE CanSave(a)
  <2>1. registry' = Saved(a) /\ GoTo(a, "init")
    BY <1>2 DEF RecordMade
  <2>2. registry' \in Seq(Attempts) /\ RecordsInv'
    BY <1>2, <2>1, Recorded DEF BatchInv
  <2> QED BY <1>1, <2>1, <2>2, SameChunks DEF Places, Held
<1>3. CASE ~CanSave(a)
  <2>1. UNCHANGED registry /\ ItemEnds(a, "failed")
    BY <1>3 DEF RecordMade
  <2>2. registry' \in Seq(Attempts) /\ RecordsInv'
    BY <2>1, Recorded DEF BatchInv
  <2> QED BY <1>1, <2>1, <2>2, EndsWell
<1> QED BY <1>2, <1>3

LEMMA InitFailsKeeps ==
  ASSUME BatchInv, NEW a \in Attempts, InitFails(a)
  PROVE  BatchInv'
<1>1. /\ work[a] \in {"key", "init"} /\ ItemEnds(a, "failed")
      /\ UNCHANGED <<services, restarts, registry, chunks, ids>>
  BY DEF InitFails
<1>2. RemoteTypes'
  <2>1. CASE UNCHANGED remote
    BY <1>1, <2>1, RemoteKept
  <2>2. CASE ServerInitializes(a)
    BY <1>1, <2>2, ServerMoves DEF ServerInitializes
  <2> QED BY <2>1, <2>2 DEF InitFails
<1>3. registry' \in Seq(Attempts) /\ RecordsInv'
  BY <1>1, Recorded DEF BatchInv
<1> QED BY <1>1, <1>2, <1>3, EndsWell

LEMMA InitAnsweredKeeps ==
  ASSUME BatchInv, NEW a \in Attempts, InitAnswered(a)
  PROVE  BatchInv'
<1>1. /\ work[a] = "init" /\ ServerInitializes(a) /\ ids' = ids \union {a}
      /\ UNCHANGED <<services, restarts, stuck, disk, stray>>
  BY DEF InitAnswered
<1>2. RemoteTypes'
  BY <1>1, ServerMoves DEF ServerInitializes
<1>3. CASE ~CanSave(a)
  <2>1. UNCHANGED <<registry, allocated>> /\ ItemEnds(a, "failed")
    BY <1>3 DEF InitAnswered
  <2>2. registry' \in Seq(Attempts) /\ RecordsInv'
    BY <2>1, Recorded DEF BatchInv
  <2>3. UNCHANGED chunks
    BY <1>1, <2>1 DEF chunks
  <2> QED BY <1>1, <1>2, <2>1, <2>2, <2>3, EndsWell
<1>4. CASE CanSave(a)
  <2>1. registry' = Saved(a) /\ TakeSlot(a)
    BY <1>4 DEF InitAnswered
  <2>2. registry' \in Seq(Attempts) /\ RecordsInv'
    BY <1>4, <2>1, Recorded DEF BatchInv
  <2>3. CASE ~(allocated < MaxActiveChunks)
    <3>1. GoTo(a, "abort") /\ UNCHANGED allocated
      BY <2>1, <2>3 DEF TakeSlot
    <3>2. UNCHANGED chunks
      BY <1>1, <3>1 DEF chunks
    <3> QED BY <1>1, <1>2, <2>2, <3>1, <3>2, SameChunks DEF Places, Held
  <2>4. CASE allocated < MaxActiveChunks
    <3>1. GoTo(a, "cut") /\ allocated' = allocated + 1
      BY <2>1, <2>4 DEF TakeSlot
    <3>2. /\ UNCHANGED <<batch, item>> /\ work'[a] = "cut"
          /\ \A b \in Attempts \ {a} : work'[b] = work[b]
      BY <1>1, <3>1, GoesOn DEF BatchInv, Places
    <3>3. Holding' = Holding \union {a} /\ Cardinality(Holding') = Cardinality(Holding) + 1
      BY <1>1, <3>2, Holds DEF BatchInv, Held
    <3>4. allocated' \in 0..MaxActiveChunks
      BY <2>4, <3>1, Numbers DEF BatchInv
    <3>5. stuck' \subseteq Attempts /\ disk' \subseteq Attempts /\ stray' \subseteq Attempts
      BY <1>1 DEF BatchInv, Types
    <3>6. ChunkInv'
      <4>1. allocated' = Cardinality(Holding') + Cardinality(stuck')
        BY <1>1, <3>1, <3>3, Numbers DEF BatchInv, ChunkInv, SlotsAccounted
      <4>2. services' = "ready" => disk' \ stray' \subseteq Holding' \union stuck'
        BY <1>1, <3>3 DEF BatchInv, ChunkInv, SlotsAccounted
      <4>3. a \notin stuck /\ a \notin disk
        BY <1>1 DEF BatchInv, ChunkInv
      <4>4. \A b \in stuck : work'[b] \in {"abort", "none"}
        BY <3>2, <4>3 DEF BatchInv, ChunkInv, Types
      <4>5. \A b \in disk : work'[b] \notin {"key", "init", "cut"}
        BY <3>2, <4>3 DEF BatchInv, ChunkInv, Types
      <4>6. \A b \in stuck \union disk : item'[b] \notin {"none", "selected", "queued"}
        BY <3>2 DEF BatchInv, ChunkInv
      <4> QED BY <1>1, <4>1, <4>2, <4>4, <4>5, <4>6 DEF ChunkInv, SlotsAccounted
    <3> QED BY <1>1, <1>2, <2>2, <3>1, <3>4, <3>5, <3>6, GoesOnWell DEF Places
  <2> QED BY <2>3, <2>4
<1> QED BY <1>3, <1>4

(* The steps of the chunk file.                                            *)
LEMMA CutDoneKeeps ==
  ASSUME BatchInv, NEW a \in Attempts, CutDone(a)
  PROVE  BatchInv'
<1>1. /\ work[a] = "cut" /\ disk' = disk \union {a} /\ stray' = stray \ {a} /\ GoTo(a, "send")
      /\ UNCHANGED <<services, restarts, registry, allocated, stuck, ids, remote>>
  BY DEF CutDone
<1>2. /\ UNCHANGED <<batch, item>> /\ work'[a] = "send"
      /\ \A b \in Attempts \ {a} : work'[b] = work[b]
  BY <1>1, GoesOn DEF BatchInv, Places
<1>3. Holding' = Holding /\ a \in Holding
  <2>1. Holding' = Holding
    BY <1>1, <1>2, Holds DEF BatchInv, Held
  <2> QED BY <1>1, <2>1 DEF Holding
<1>4. registry' \in Seq(Attempts) /\ RecordsInv'
  BY <1>1, Recorded DEF BatchInv
<1>5. RemoteTypes'
  BY <1>1, RemoteKept
<1>6. /\ allocated' \in 0..MaxActiveChunks
      /\ stuck' \subseteq Attempts /\ disk' \subseteq Attempts /\ stray' \subseteq Attempts
  BY <1>1 DEF BatchInv, Types
<1>7. ChunkInv'
  <2>1. SlotsAccounted'
    BY <1>1, <1>3 DEF BatchInv, ChunkInv, SlotsAccounted
  <2>2. item[a] = "uploading" /\ a \notin stuck
    BY <1>1, HasRunner DEF BatchInv, ChunkInv
  <2>3. \A b \in stuck' : work'[b] \in {"abort", "none"}
    BY <1>1, <1>2, <2>2 DEF BatchInv, ChunkInv, Types
  <2>4. \A b \in disk' : work'[b] \notin {"key", "init", "cut"}
    BY <1>1, <1>2 DEF BatchInv, ChunkInv, Types
  <2>5. \A b \in stuck' \union disk' : item'[b] \notin {"none", "selected", "queued"}
    BY <1>1, <1>2, <2>2 DEF BatchInv, ChunkInv
  <2> QED BY <2>1, <2>3, <2>4, <2>5 DEF ChunkInv
<1> QED BY <1>1, <1>4, <1>5, <1>6, <1>7, GoesOnWell DEF Places

LEMMA CutFailsKeeps ==
  ASSUME BatchInv, NEW a \in Attempts, CutFails(a)
  PROVE  BatchInv'
<1>1. /\ work[a] = "cut" /\ allocated' = allocated - 1 /\ GoTo(a, "abort")
      /\ UNCHANGED <<services, restarts, registry, stuck, ids, remote>>
      /\ \/ UNCHANGED <<disk, stray>>
         \/ disk' = disk \union {a} /\ stray' = stray \union {a}
  BY DEF CutFails, ReturnSlot
<1>2. /\ UNCHANGED <<batch, item>> /\ work'[a] = "abort"
      /\ \A b \in Attempts \ {a} : work'[b] = work[b]
  BY <1>1, GoesOn DEF BatchInv, Places
<1>3. /\ Holding' = Holding \ {a} /\ Cardinality(Holding') = Cardinality(Holding) - 1
      /\ allocated' \in 0..MaxActiveChunks
  <2>1. work[a] \in Held /\ work'[a] \notin Held
    BY <1>1, <1>2 DEF Held
  <2> QED BY <1>1, <1>2, <2>1, Holds, Counted DEF BatchInv
<1>4. registry' \in Seq(Attempts) /\ RecordsInv'
  BY <1>1, Recorded DEF BatchInv
<1>5. RemoteTypes'
  BY <1>1, RemoteKept
<1>6. stuck' \subseteq Attempts /\ disk' \subseteq Attempts /\ stray' \subseteq Attempts
  BY <1>1 DEF BatchInv, Types
<1>7. ChunkInv'
  <2>1. item[a] = "uploading" /\ a \notin disk
    BY <1>1, HasRunner DEF BatchInv, ChunkInv
  <2>2. disk' \ stray' \subseteq (disk \ stray) \ {a}
    BY <1>1, <2>1
  <2>3. services' = "ready" => disk' \ stray' \subseteq Holding' \union stuck'
    BY <1>1, <1>3, <2>2 DEF BatchInv, ChunkInv, SlotsAccounted
  <2>4. allocated' = Cardinality(Holding') + Cardinality(stuck')
    BY <1>1, <1>3, Numbers DEF BatchInv, ChunkInv, SlotsAccounted
  <2>5. \A b \in stuck' : work'[b] \in {"abort", "none"}
    BY <1>1, <1>2 DEF BatchInv, ChunkInv, Types
  <2>6. \A b \in disk' : work'[b] \notin {"key", "init", "cut"}
    BY <1>1, <1>2 DEF BatchInv, ChunkInv, Types
  <2>7. \A b \in stuck' \union disk' : item'[b] \notin {"none", "selected", "queued"}
    BY <1>1, <1>2, <2>1 DEF BatchInv, ChunkInv
  <2> QED BY <2>3, <2>4, <2>5, <2>6, <2>7 DEF ChunkInv, SlotsAccounted
<1> QED BY <1>1, <1>3, <1>4, <1>5, <1>6, <1>7, GoesOnWell DEF Places

LEMMA PartConfirmedKeeps ==
  ASSUME BatchInv, NEW a \in Attempts, PartConfirmed(a)
  PROVE  BatchInv'
<1>1. /\ work[a] = "send" /\ UNCHANGED <<services, restarts, chunks>> /\ RemoteTypes'
  BY RemoteKept DEF PartConfirmed
<1>2. PICK place \in {"drop", "dropFailed"} : GoTo(a, place)
  BY DEF PartConfirmed
<1>3. registry' \in Seq(Attempts) /\ RecordsInv'
  BY Recorded DEF BatchInv, PartConfirmed
<1> QED BY <1>1, <1>2, <1>3, SameChunks DEF Places, Held

LEMMA PartFailsKeeps ==
  ASSUME BatchInv, NEW a \in Attempts, PartFails(a)
  PROVE  BatchInv'
<1>1. /\ work[a] = "send" /\ UNCHANGED <<services, restarts, registry, chunks>> /\ RemoteTypes'
      /\ GoTo(a, "dropFailed")
  BY RemoteKept DEF PartFails
<1>2. registry' \in Seq(Attempts) /\ RecordsInv'
  BY <1>1, Recorded DEF BatchInv
<1> QED BY <1>1, <1>2, SameChunks DEF Places, Held

LEMMA ChunkDeletedKeeps ==
  ASSUME BatchInv, NEW a \in Attempts, ChunkDeleted(a)
  PROVE  BatchInv'
<1>1. /\ work[a] \in {"drop", "dropFailed"} /\ allocated' = allocated - 1 /\ disk' = disk \ {a}
      /\ UNCHANGED <<services, restarts, registry, stuck, stray, ids, remote>>
  BY DEF ChunkDeleted, ReturnSlot
<1>2. PICK place \in {"completeKey", "abort"} : GoTo(a, place)
  BY DEF ChunkDeleted
<1>3. /\ UNCHANGED <<batch, item>> /\ work'[a] = place
      /\ \A b \in Attempts \ {a} : work'[b] = work[b]
  BY <1>1, <1>2, GoesOn DEF BatchInv, Places
<1>4. /\ Holding' = Holding \ {a} /\ Cardinality(Holding') = Cardinality(Holding) - 1
      /\ allocated' \in 0..MaxActiveChunks
  <2>1. work[a] \in Held /\ work'[a] \notin Held
    BY <1>1, <1>3 DEF Held
  <2> QED BY <1>1, <1>3, <2>1, Holds, Counted DEF BatchInv
<1>5. registry' \in Seq(Attempts) /\ RecordsInv'
  BY <1>1, Recorded DEF BatchInv
<1>6. RemoteTypes'
  BY <1>1, RemoteKept
<1>7. stuck' \subseteq Attempts /\ disk' \subseteq Attempts /\ stray' \subseteq Attempts
  BY <1>1 DEF BatchInv, Types
<1>8. ChunkInv'
  <2>1. services' = "ready" => disk' \ stray' \subseteq Holding' \union stuck'
    BY <1>1, <1>4 DEF BatchInv, ChunkInv, SlotsAccounted
  <2>2. allocated' = Cardinality(Holding') + Cardinality(stuck')
    BY <1>1, <1>4, Numbers DEF BatchInv, ChunkInv, SlotsAccounted
  <2>3. a \notin stuck
    BY <1>1 DEF BatchInv, ChunkInv
  <2>4. \A b \in stuck' : work'[b] \in {"abort", "none"}
    BY <1>1, <1>3, <2>3 DEF BatchInv, ChunkInv, Types
  <2>5. \A b \in disk' : work'[b] \notin {"key", "init", "cut"}
    BY <1>1, <1>3 DEF BatchInv, ChunkInv, Types
  <2>6. \A b \in stuck' \union disk' : item'[b] \notin {"none", "selected", "queued"}
    BY <1>1, <1>3 DEF BatchInv, ChunkInv
  <2> QED BY <2>1, <2>2, <2>4, <2>5, <2>6 DEF ChunkInv, SlotsAccounted
<1> QED BY <1>1, <1>2, <1>4, <1>5, <1>6, <1>7, <1>8, GoesOnWell DEF Places

LEMMA ChunkStaysKeeps ==
  ASSUME BatchInv, NEW a \in Attempts, ChunkStays(a)
  PROVE  BatchInv'
<1>1. /\ work[a] \in {"drop", "dropFailed"} /\ stuck' = stuck \union {a} /\ GoTo(a, "abort")
      /\ UNCHANGED <<services, restarts, registry, allocated, disk, stray, ids, remote>>
  BY DEF ChunkStays
<1>2. /\ UNCHANGED <<batch, item>> /\ work'[a] = "abort"
      /\ \A b \in Attempts \ {a} : work'[b] = work[b]
  BY <1>1, GoesOn DEF BatchInv, Places
<1>3. Holding' = Holding \ {a} /\ Cardinality(Holding') = Cardinality(Holding) - 1
  BY <1>1, <1>2, Holds DEF BatchInv, Held
<1>4. registry' \in Seq(Attempts) /\ RecordsInv'
  BY <1>1, Recorded DEF BatchInv
<1>5. RemoteTypes'
  BY <1>1, RemoteKept
<1>6. /\ allocated' \in 0..MaxActiveChunks
      /\ stuck' \subseteq Attempts /\ disk' \subseteq Attempts /\ stray' \subseteq Attempts
  BY <1>1 DEF BatchInv, Types
<1>7. ChunkInv'
  <2>1. item[a] = "uploading" /\ a \notin stuck
    BY <1>1, HasRunner DEF BatchInv, ChunkInv
  <2>2. Cardinality(stuck') = Cardinality(stuck) + 1
    <3>1. IsFiniteSet(stuck)
      BY Numbers DEF BatchInv
    <3> QED BY <1>1, <2>1, <3>1, FS_AddElement
  <2>3. allocated' = Cardinality(Holding') + Cardinality(stuck')
    BY <1>1, <1>3, <2>2, Numbers DEF BatchInv, ChunkInv, SlotsAccounted
  <2>4. services' = "ready" => disk' \ stray' \subseteq Holding' \union stuck'
    BY <1>1, <1>3 DEF BatchInv, ChunkInv, SlotsAccounted
  <2>5. \A b \in stuck' : work'[b] \in {"abort", "none"}
    BY <1>1, <1>2 DEF BatchInv, ChunkInv, Types
  <2>6. \A b \in disk' : work'[b] \notin {"key", "init", "cut"}
    BY <1>1, <1>2 DEF BatchInv, ChunkInv, Types
  <2>7. \A b \in stuck' \union disk' : item'[b] \notin {"none", "selected", "queued"}
    BY <1>1, <1>2, <2>1 DEF BatchInv, ChunkInv
  <2> QED BY <2>3, <2>4, <2>5, <2>6, <2>7 DEF ChunkInv, SlotsAccounted
<1> QED BY <1>1, <1>4, <1>5, <1>6, <1>7, GoesOnWell DEF Places

(* The steps after the last chunk.                                         *)
LEMMA CompletionKeeps ==
  ASSUME BatchInv, NEW a \in Attempts,
         CompleteKeyReady(a) \/ Completed(a) \/ CompleteFails(a) \/ AbortEnds(a)
  PROVE  BatchInv'
<1>1. CASE CompleteKeyReady(a)
  <2>1. /\ work[a] = "completeKey" /\ UNCHANGED <<services, restarts, chunks>> /\ RemoteTypes'
    BY <1>1, RemoteKept DEF CompleteKeyReady
  <2>2. PICK place \in {"complete", "abort"} : GoTo(a, place)
    BY <1>1 DEF CompleteKeyReady
  <2>3. registry' \in Seq(Attempts) /\ RecordsInv'
    BY <1>1, Recorded DEF BatchInv, CompleteKeyReady
  <2> QED BY <2>1, <2>2, <2>3, SameChunks DEF Places, Held
<1>2. CASE Completed(a)
  <2>1. /\ work[a] = "complete" /\ ItemEnds(a, "uploaded") /\ registry' = Without(a)
        /\ UNCHANGED <<services, restarts, chunks>>
    BY <1>2 DEF Completed
  <2>2. RemoteTypes'
    BY <1>2, ServerMoves DEF Completed
  <2>3. registry' \in Seq(Attempts) /\ RecordsInv'
    <3>1. a \in 0..AttemptCount
      BY BatchAssumption DEF Attempts
    <3> QED BY <2>1, <3>1, Recorded DEF BatchInv
  <2> QED BY <2>1, <2>2, <2>3, EndsWell
<1>3. CASE CompleteFails(a)
  <2>1. /\ work[a] = "complete" /\ GoTo(a, "abort")
        /\ UNCHANGED <<services, restarts, registry, chunks>>
    BY <1>3 DEF CompleteFails
  <2>2. RemoteTypes'
    BY <1>3, ServerMoves DEF CompleteFails
  <2>3. registry' \in Seq(Attempts) /\ RecordsInv'
    BY <2>1, Recorded DEF BatchInv
  <2> QED BY <2>1, <2>2, <2>3, SameChunks DEF Places, Held
<1>4. CASE AbortEnds(a)
  <2>1. /\ work[a] = "abort" /\ ItemEnds(a, "failed")
        /\ UNCHANGED <<services, restarts, chunks>>
    BY <1>4 DEF AbortEnds
  <2>2. RemoteTypes'
    BY <1>4, ServerMoves DEF AbortEnds
  <2>3. registry' \in Seq(Attempts) /\ RecordsInv'
    BY <1>4, Recorded DEF BatchInv, AbortEnds
  <2> QED BY <2>1, <2>2, <2>3, EndsWell
<1> QED BY <1>1, <1>2, <1>3, <1>4

-----------------------------------------------------------------------------
(* The steps of a batch, of the history page, of the server and of the     *)
(* platform.                                                               *)

LEMMA RetainedIsRecord ==
  ASSUME Types, NEW a \in Attempts
  PROVE  /\ Retained(a) \in 0..AttemptCount
         /\ Retained(a) # 0 => Retained(a) \in Range(registry)
<1> DEFINE alike == {i \in DOMAIN registry : Look[registry[i]] = Look[a]}
<1>1. /\ DOMAIN registry = 1..Len(registry) /\ Len(registry) \in Nat
      /\ Range(registry) \subseteq Attempts /\ \A i \in DOMAIN registry : registry[i] \in Range(registry)
  BY LenProperties DEF Types, Range
<1>2. Attempts \subseteq 0..AttemptCount /\ 0 \in 0..AttemptCount
  BY BatchAssumption DEF Attempts
<1>3. CASE a \in ids /\ a \in Range(registry)
  BY <1>1, <1>2, <1>3 DEF Retained
<1>4. CASE ~(a \in ids /\ a \in Range(registry)) /\ alike = {}
  BY <1>2, <1>4 DEF Retained
<1>5. CASE ~(a \in ids /\ a \in Range(registry)) /\ alike # {}
  <2> DEFINE k == CHOOSE i \in alike : \A j \in alike : j <= i
  <2>1. Retained(a) = registry[k]
    BY <1>5 DEF Retained
  <2>2. \E i \in alike : \A j \in alike : j <= i
    <3>1. alike \subseteq 1..Len(registry)
      BY <1>1
    <3> HIDE DEF alike
    <3> QED BY <1>1, <1>5, <3>1, Greatest
  <2>3. k \in alike
    <3> HIDE DEF alike
    <3> QED BY <2>2
  <2> HIDE DEF k
  <2> QED BY <1>1, <1>2, <2>1, <2>3
<1> QED BY <1>3, <1>4, <1>5

(* While no batch runs, nothing is under way, and nobody holds a slot.     *)
LEMMA Resting ==
  ASSUME Types, QueueInv, batch.at # "run"
  PROVE  /\ \A a \in Attempts : work[a] = "none" /\ item[a] # "uploading" /\ item[a] # "queued"
         /\ Holding = {}
<1>1. With(item, "uploading") = {} /\ \A a \in Attempts : work[a] = "none"
  BY DEF QueueInv, QueueFlows, With
<1>2. Cardinality(With(item, "uploading")) = 0
  BY <1>1, FS_EmptySet
<1>3. MaxUnfinished # 0
  BY BatchAssumption
<1>4. \A a \in Attempts : item[a] # "queued"
  BY <1>2, <1>3 DEF QueueInv, QueueFlows, With
<1> QED BY <1>1, <1>4 DEF With, Holding

LEMMA CleanupOrphansKeeps ==
  ASSUME BatchInv, CleanupOrphans
  PROVE  BatchInv'
<1>1. PICK left \in SUBSET disk : disk' = left /\ services' = IF left = {} THEN "ready" ELSE "down"
  BY DEF CleanupOrphans
<1>2. /\ stray' = stray \intersect disk'
      /\ UNCHANGED <<restarts, allocated, stuck, ids>>
      /\ UNCHANGED <<batch, item, work, registry>> /\ UNCHANGED <<server, visible>>
  BY DEF CleanupOrphans, client, remote
<1>3. Types'
  BY <1>1, <1>2 DEF BatchInv, Types
<1>4. QueueInv' /\ RecordsInv' /\ RoomInv'
  BY <1>2 DEF BatchInv, QueueInv, QueueFlows, With, RecordsInv, RoomInv
<1>5. ChunkInv'
  BY <1>1, <1>2 DEF BatchInv, ChunkInv, SlotsAccounted, Holding
<1> QED BY <1>3, <1>4, <1>5 DEF BatchInv

LEMMA BeginKeeps ==
  ASSUME BatchInv, NEW selection \in SUBSET Unstarted, selection # {},
         NEW record \in 0..AttemptCount, Begin(selection, record),
         record # 0 => record \in Range(registry) /\ \A a, b \in selection : a = b
  PROVE  BatchInv'
<1>1. /\ services = "ready" /\ batch.at = "none"
      /\ batch' = [at |-> "prepare", retry |-> record]
      /\ item' = [a \in Attempts |-> IF a \in selection THEN "selected" ELSE item[a]]
      /\ UNCHANGED <<services, restarts, work, registry, ids>>
      /\ UNCHANGED <<allocated, stuck, disk, stray>> /\ UNCHANGED <<server, visible>>
  BY DEF Begin, chunks, remote
<1>2. \A a \in selection : a \in Attempts /\ item[a] = "none"
  BY DEF Unstarted
<1>3. Types'
  <2>1. item' \in [Attempts -> Items] /\ batch' \in BatchRows
    BY <1>1 DEF BatchInv, Types, Items, BatchRows
  <2> QED BY <1>1, <2>1 DEF BatchInv, Types, BatchRows
<1>4. /\ \A a \in Attempts : work[a] = "none" /\ item[a] # "uploading" /\ item[a] # "queued"
      /\ \A a \in Attempts : item[a] # "selected"
  <2>1. \A a \in Attempts : item[a] # "selected"
    BY <1>1 DEF BatchInv, QueueInv, With
  <2> QED BY <1>1, <2>1, Resting DEF BatchInv
<1>5. /\ With(item', "selected") = selection
      /\ \A a \in Attempts : work'[a] = "none" /\ item'[a] # "uploading" /\ item'[a] # "queued"
  BY <1>1, <1>2, <1>4 DEF With
<1>6. QueueInv'
  <2>1. Cardinality(With(item', "uploading")) <= MaxUnfinished
    <3>1. With(item', "uploading") = {}
      BY <1>5 DEF With
    <3>2. Cardinality(With(item', "uploading")) = 0
      BY <3>1, FS_EmptySet
    <3> QED BY <3>2, BatchAssumption
  <2>2. QueueFlows'
    BY <1>1, <1>5 DEF QueueFlows
  <2> QED BY <1>1, <1>5, <2>1, <2>2 DEF QueueInv
<1>7. ChunkInv'
  <2>1. SlotsAccounted'
    BY <1>1 DEF BatchInv, ChunkInv, SlotsAccounted, Holding
  <2>2. \A a \in stuck \union disk : a \in Attempts /\ item'[a] \notin {"none", "selected", "queued"}
    BY <1>1, <1>2 DEF BatchInv, ChunkInv, Types
  <2> QED BY <1>1, <2>1, <2>2 DEF BatchInv, ChunkInv
<1>8. RecordsInv'
  BY <1>1 DEF BatchInv, RecordsInv
<1>9. RoomInv'
  BY <1>1, <1>5 DEF RoomInv
<1> QED BY <1>3, <1>6, <1>7, <1>8, <1>9 DEF BatchInv

LEMMA BeginningKeeps ==
  ASSUME BatchInv, Dispatch \/ \E a \in Attempts : Retry(a)
  PROVE  BatchInv'
<1>1. CASE Dispatch
  <2>1. PICK selection \in (SUBSET Unstarted) \ {{}} : Begin(selection, 0)
    BY <1>1 DEF Dispatch
  <2>2. 0 \in 0..AttemptCount
    BY BatchAssumption
  <2>3. selection \in SUBSET Unstarted /\ selection # {}
    OBVIOUS
  <2> QED BY <2>1, <2>2, <2>3, BeginKeeps
<1>2. CASE \E a \in Attempts : Retry(a)
  <2>1. PICK a \in Attempts : Retry(a)
    BY <1>2
  <2>2. PICK b \in Unstarted : Begin({b}, Retained(a))
    BY <2>1 DEF Retry
  <2>3. Retained(a) \in 0..AttemptCount /\ Retained(a) \in Range(registry)
    BY <2>1, RetainedIsRecord DEF BatchInv, Retry
  <2> QED BY <2>2, <2>3, BeginKeeps
<1> QED BY <1>1, <1>2

LEMMA PreparedKeeps ==
  ASSUME BatchInv, Prepared
  PROVE  BatchInv'
<1> DEFINE items == [a \in Attempts |-> IF item[a] = "selected" THEN "queued" ELSE item[a]]
<1>1. /\ batch.at = "prepare" /\ batch' = [batch EXCEPT !.at = "run"]
      /\ Run(items) /\ registry' = Without(batch.retry)
      /\ UNCHANGED <<services, restarts, ids, chunks>>
      /\ UNCHANGED <<allocated, stuck, disk, stray>> /\ UNCHANGED <<server, visible>>
  BY DEF Prepared, chunks, remote
<1>2. /\ items \in [Attempts -> Items]
      /\ \A a \in Attempts : items[a] = IF item[a] = "selected" THEN "queued" ELSE item[a]
  BY DEF BatchInv, Types, Items
<1> HIDE DEF items
<1>3. /\ \A a \in Attempts : work[a] = "none" /\ item[a] # "uploading" /\ item[a] # "queued"
      /\ Holding = {}
  BY <1>1, Resting DEF BatchInv
<1>4. /\ item' \in [Attempts -> Items] /\ work' \in [Attempts -> Places]
      /\ \A a \in Attempts : item'[a] = items[a] \/ (items[a] = "queued" /\ item'[a] = "uploading")
      /\ \A a \in Attempts : item'[a] = "uploading" <=> work'[a] # "none"
      /\ \A a \in Attempts :
           \/ work'[a] = work[a]
           \/ work'[a] = "none"
           \/ work'[a] = "key" /\ work[a] = "none"
      /\ Cardinality(With(item', "uploading")) <= MaxUnfinished
      /\ With(item', "queued") # {} => Cardinality(With(item', "uploading")) = MaxUnfinished
  <2>1. With(items, "uploading") \subseteq With(item, "uploading")
    BY <1>2 DEF With
  <2> QED BY <1>1, <1>2, <2>1, Runs DEF BatchInv
<1>5. With(item', "queued") # {} => With(item', "uploading") # {}
  <2>1. With(item', "uploading") = {} => Cardinality(With(item', "uploading")) = 0
    BY FS_EmptySet
  <2> QED BY <1>4, <2>1, BatchAssumption
<1>6. \A a \in Attempts :
        /\ item'[a] # "selected"
        /\ item[a] = "selected" <=> item'[a] \in {"queued", "uploading"}
        /\ work'[a] \in {"none", "key"}
  BY <1>2, <1>3, <1>4
<1>7. batch' = [at |-> "run", retry |-> batch.retry] /\ batch' \in BatchRows
  BY <1>1 DEF BatchInv, Types, BatchRows
<1>8. registry' \in Seq(Attempts) /\ RecordsInv'
  <2>1. 1 \in Attempts /\ batch.retry \in 0..AttemptCount
    BY BatchAssumption DEF Attempts, BatchInv, Types
  <2> QED BY <1>1, <2>1, Recorded DEF BatchInv
<1>9. Types'
  BY <1>1, <1>4, <1>7, <1>8 DEF BatchInv, Types, BatchRows
<1>10. QueueInv'
  <2>1. PICK a \in Attempts : item[a] = "selected"
    BY <1>1 DEF BatchInv, QueueInv, With
  <2>2. With(item', "uploading") # {}
    BY <1>5, <1>6, <2>1 DEF With
  <2>3. QueueFlows'
    BY <1>4, <1>7, <2>2 DEF QueueFlows, With
  <2> QED BY <1>4, <1>6, <1>7, <2>3 DEF QueueInv, With
<1>11. ChunkInv'
  <2>1. Holding' = Holding
    BY <1>3, <1>6 DEF Holding
  <2>2. stuck \subseteq Attempts /\ disk \subseteq Attempts
    BY DEF BatchInv, Types
  <2>3. \A a \in stuck \union disk : item[a] \notin {"none", "selected", "queued", "uploading"}
    BY <1>3, <2>2 DEF BatchInv, ChunkInv
  <2>4. \A a \in stuck \union disk : item'[a] = item[a] /\ work'[a] = "none"
    BY <1>2, <1>4, <2>2, <2>3
  <2> QED BY <1>1, <2>1, <2>3, <2>4, ChunksKept DEF BatchInv
<1>12. RoomInv'
  <2>1. SUFFICES ASSUME batch.retry # 0
                 PROVE  /\ With(item', "queued") = {}
                        /\ \A a, b \in With(item', "uploading") : a = b
                        /\ Len(registry') < MaxUnfinished
    BY <1>7 DEF RoomInv
  <2>2. \A a, b \in Attempts : item[a] = "selected" /\ item[b] = "selected" => a = b
    BY <1>1, <2>1 DEF BatchInv, RoomInv, With
  <2>3. \A a, b \in With(item', "uploading") : a = b
    BY <1>6, <2>2 DEF With
  <2>4. With(item', "queued") = {}
    BY <1>5, <1>6, <2>2 DEF With
  <2>5. Len(registry') < MaxUnfinished
    <3>1. batch.retry \in Range(registry) \/ Len(registry) < MaxUnfinished
      BY <1>1, <2>1 DEF BatchInv, RoomInv
    <3>2. /\ Len(registry) \in Nat /\ MaxUnfinished \in Nat /\ Len(registry) <= MaxUnfinished
      BY LenProperties, BatchAssumption DEF BatchInv, Types, RecordsInv
    <3>3. /\ Len(Without(batch.retry)) <= Len(registry) /\ Len(Without(batch.retry)) \in Nat
          /\ batch.retry \in Range(registry) => Len(Without(batch.retry)) < Len(registry)
      BY Removed DEF BatchInv
    <3> QED BY <1>1, <3>1, <3>2, <3>3
  <2> QED BY <2>3, <2>4, <2>5
<1> QED BY <1>8, <1>9, <1>10, <1>11, <1>12 DEF BatchInv

LEMMA SourceInvalidKeeps ==
  ASSUME BatchInv, SourceInvalid
  PROVE  BatchInv'
<1>1. /\ batch.at = "prepare" /\ batch' = NoBatch
      /\ item' = [a \in Attempts |-> IF item[a] = "selected" THEN "none" ELSE item[a]]
      /\ UNCHANGED <<services, restarts, work, registry, ids>>
      /\ UNCHANGED <<allocated, stuck, disk, stray>> /\ UNCHANGED <<server, visible>>
  BY DEF SourceInvalid, chunks, remote
<1>2. item' \in [Attempts -> Items] /\ batch' \in BatchRows
  BY <1>1, NoBatchRow DEF BatchInv, Types, Items
<1>3. Types'
  BY <1>1, <1>2 DEF BatchInv, Types, BatchRows
<1>4. \A a \in Attempts : work[a] = "none" /\ item[a] # "uploading" /\ item[a] # "queued"
  BY <1>1, Resting DEF BatchInv
<1>5. \A a \in Attempts : item'[a] \notin {"uploading", "queued", "selected"}
  BY <1>1, <1>4
<1>6. QueueInv'
  <2>1. With(item', "uploading") = {}
    BY <1>5 DEF With
  <2>2. Cardinality(With(item', "uploading")) <= MaxUnfinished
    <3>1. Cardinality(With(item', "uploading")) = 0
      BY <2>1, FS_EmptySet
    <3> QED BY <3>1, BatchAssumption
  <2>3. QueueFlows'
    BY <1>1, <1>4, <1>5, NoBatchRow DEF QueueFlows
  <2> QED BY <1>1, <1>5, <2>2, <2>3, NoBatchRow DEF QueueInv, With
<1>7. ChunkInv'
  <2>1. SlotsAccounted'
    BY <1>1 DEF BatchInv, ChunkInv, SlotsAccounted, Holding
  <2>2. \A a \in stuck \union disk : a \in Attempts /\ item'[a] \notin {"none", "selected", "queued"}
    BY <1>1 DEF BatchInv, ChunkInv, Types
  <2> QED BY <1>1, <2>1, <2>2 DEF BatchInv, ChunkInv
<1>8. RecordsInv' /\ RoomInv'
  BY <1>1, NoBatchRow DEF BatchInv, RecordsInv, RoomInv
<1> QED BY <1>3, <1>6, <1>7, <1>8 DEF BatchInv

LEMMA DeleteRecordKeeps ==
  ASSUME BatchInv, NEW a \in Attempts, DeleteRecord(a)
  PROVE  BatchInv'
<1>1. /\ visible' = visible \ {a} /\ registry' \in {registry, Without(Retained(a))}
      /\ UNCHANGED <<services, restarts, batch, item, work, ids, server>>
      /\ UNCHANGED <<allocated, stuck, disk, stray>>
  BY DEF DeleteRecord, chunks
<1>2. Retained(a) \in 0..AttemptCount
  BY RetainedIsRecord DEF BatchInv
<1>3. registry' \in Seq(Attempts) /\ RecordsInv'
  BY <1>1, <1>2, Recorded DEF BatchInv
<1>4. Types'
  BY <1>1, <1>3 DEF BatchInv, Types
<1>5. QueueInv'
  BY <1>1 DEF BatchInv, QueueInv, QueueFlows, With
<1>6. ChunkInv'
  BY <1>1 DEF BatchInv, ChunkInv, SlotsAccounted, Holding
<1>7. RoomInv'
  <2>1. /\ Len(registry) \in Nat /\ Len(registry') \in Nat /\ MaxUnfinished \in Nat
        /\ Len(registry) <= MaxUnfinished /\ Len(registry') <= Len(registry)
        /\ batch.retry \in Range(registry) =>
             batch.retry \in Range(registry') \/ Len(registry') < Len(registry)
    <3>1. Len(registry) \in Nat /\ MaxUnfinished \in Nat /\ Len(registry) <= MaxUnfinished
      BY LenProperties, BatchAssumption DEF BatchInv, Types, RecordsInv
    <3>2. /\ Len(Without(Retained(a))) <= Len(registry) /\ Len(Without(Retained(a))) \in Nat
          /\ Retained(a) \in Range(registry) => Len(Without(Retained(a))) < Len(registry)
          /\ \A b \in Range(registry) : b # Retained(a) => b \in Range(Without(Retained(a)))
      BY Removed DEF BatchInv
    <3> QED BY <1>1, <3>1, <3>2
  <2> QED BY <1>1, <2>1 DEF BatchInv, RoomInv, With
<1> QED BY <1>3, <1>4, <1>5, <1>6, <1>7 DEF BatchInv

LEMMA OutsideKeeps ==
  ASSUME BatchInv, (\E a \in Attempts : ServerCloses(a)) \/ Restart \/ UNCHANGED batchVars
  PROVE  BatchInv'
<1>1. CASE \E a \in Attempts : ServerCloses(a)
  <2>1. PICK a \in Attempts : ServerCloses(a)
    BY <1>1
  <2>2. /\ server' = [server EXCEPT ![a] = "closed"]
        /\ UNCHANGED <<services, restarts, ids, visible>>
        /\ UNCHANGED <<batch, item, work, registry>> /\ UNCHANGED <<allocated, stuck, disk, stray>>
    BY <2>1 DEF ServerCloses, client, chunks
  <2>3. Types'
    BY <2>2 DEF BatchInv, Types
  <2> QED BY <2>2, <2>3 DEF BatchInv, QueueInv, QueueFlows, With, ChunkInv, SlotsAccounted, Holding,
                            RecordsInv, RoomInv
<1>2. CASE Restart
  <2>1. /\ restarts < MaxRestarts /\ services' = "down" /\ restarts' = restarts + 1 /\ batch' = NoBatch
        /\ item' = [a \in Attempts |->
                      IF item[a] \in {"selected", "queued", "uploading"} THEN "lost" ELSE item[a]]
        /\ work' = [a \in Attempts |-> "none"]
        /\ allocated' = 0 /\ stuck' = {}
        /\ UNCHANGED <<registry, disk, stray, ids>> /\ UNCHANGED <<server, visible>>
    BY <1>2 DEF Restart, remote
  <2>2. /\ item' \in [Attempts -> Items] /\ work' \in [Attempts -> Places] /\ batch' \in BatchRows
        /\ \A a \in Attempts : work'[a] = "none" /\ item'[a] \notin {"selected", "queued", "uploading"}
    BY <2>1, NoBatchRow DEF BatchInv, Types, Items, Places
  <2>3. restarts' \in 0..MaxRestarts /\ allocated' \in 0..MaxActiveChunks
    BY <2>1, BatchAssumption DEF BatchInv, Types
  <2>4. Types'
    BY <2>1, <2>2, <2>3 DEF BatchInv, Types, BatchRows
  <2>5. QueueInv'
    <3>1. With(item', "uploading") = {}
      BY <2>2 DEF With
    <3>2. Cardinality(With(item', "uploading")) <= MaxUnfinished
      <4>1. Cardinality(With(item', "uploading")) = 0
        BY <3>1, FS_EmptySet
      <4> QED BY <4>1, BatchAssumption
    <3>3. QueueFlows'
      BY <2>1, <2>2, NoBatchRow DEF QueueFlows
    <3> QED BY <2>1, <2>2, <3>2, <3>3, NoBatchRow DEF QueueInv, With
  <2>6. ChunkInv'
    <3>1. Holding' = {}
      BY <2>2 DEF Holding
    <3>2. SlotsAccounted'
      BY <2>1, <3>1, FS_EmptySet DEF SlotsAccounted
    <3>3. \A a \in disk : a \in Attempts /\ item[a] \notin {"none", "selected", "queued"}
      BY DEF BatchInv, ChunkInv, Types
    <3>4. \A a \in disk : item'[a] \notin {"none", "selected", "queued"} /\ work'[a] = "none"
      BY <2>1, <2>2, <3>3
    <3> QED BY <2>1, <3>2, <3>4 DEF ChunkInv
  <2>7. RecordsInv' /\ RoomInv'
    BY <2>1, NoBatchRow DEF BatchInv, RecordsInv, RoomInv
  <2> QED BY <2>4, <2>5, <2>6, <2>7 DEF BatchInv
<1>3. CASE UNCHANGED batchVars
  BY <1>3 DEF BatchInv, Types, QueueInv, QueueFlows, With, ChunkInv, SlotsAccounted, Holding,
              RecordsInv, RoomInv, batchVars, client, chunks, remote
<1> QED BY <1>1, <1>2, <1>3

-----------------------------------------------------------------------------
LEMMA Begins == BatchInit => BatchInv
<1> SUFFICES ASSUME BatchInit PROVE BatchInv
  OBVIOUS
<1>1. With(item, "uploading") = {} /\ Holding = {} /\ Cardinality({}) = 0
  BY FS_EmptySet DEF BatchInit, With, Holding
<1>2. Types
  <2>1. batch \in BatchRows
    BY NoBatchRow DEF BatchInit
  <2>2. item \in [Attempts -> Items] /\ work \in [Attempts -> Places] /\ registry \in Seq(Attempts)
    BY DEF BatchInit, Items, Places
  <2> QED BY <2>1, <2>2, BatchAssumption DEF BatchInit, Types, BatchRows
<1>3. QueueInv
  <2>1. \A a \in Attempts : item[a] = "none" /\ work[a] = "none"
    BY DEF BatchInit
  <2>2. batch.at = "none"
    BY NoBatchRow DEF BatchInit
  <2>3. QueueFlows
    BY <2>1, <2>2 DEF QueueFlows
  <2>4. Cardinality(With(item, "uploading")) <= MaxUnfinished
    BY <1>1, BatchAssumption
  <2> QED BY <2>1, <2>2, <2>3, <2>4 DEF QueueInv, With
<1>4. ChunkInv
  BY <1>1 DEF BatchInit, ChunkInv, SlotsAccounted
<1>5. RecordsInv /\ RoomInv
  <2>1. Len(registry) = 0 /\ IsInjective(registry)
    BY DEF BatchInit, IsInjective
  <2> QED BY <2>1, NoBatchRow, BatchAssumption DEF BatchInit, RecordsInv, RoomInv
<1> QED BY <1>2, <1>3, <1>4, <1>5 DEF BatchInv

LEMMA BatchStays == BatchInv /\ [BatchNext]_batchVars => BatchInv'
<1> SUFFICES ASSUME BatchInv, [BatchNext]_batchVars PROVE BatchInv'
  OBVIOUS
<1>1. CASE AttemptStep
  <2>1. PICK a \in Attempts :
          \/ RecordMade(a) \/ InitFails(a) \/ InitAnswered(a) \/ CutDone(a) \/ CutFails(a)
          \/ PartConfirmed(a) \/ PartFails(a) \/ ChunkDeleted(a) \/ ChunkStays(a)
          \/ CompleteKeyReady(a) \/ Completed(a) \/ CompleteFails(a) \/ AbortEnds(a)
    BY <1>1 DEF AttemptStep
  <2> QED BY <2>1, RecordMadeKeeps, InitFailsKeeps, InitAnsweredKeeps, CutDoneKeeps, CutFailsKeeps,
             PartConfirmedKeeps, PartFailsKeeps, ChunkDeletedKeeps, ChunkStaysKeeps, CompletionKeeps
<1>2. CASE BatchStep
  BY <1>2, PreparedKeeps, SourceInvalidKeeps DEF BatchStep
<1>3. CASE CleanupOrphans
  BY <1>3, CleanupOrphansKeeps
<1>4. CASE Dispatch \/ \E a \in Attempts : Retry(a)
  BY <1>4, BeginningKeeps
<1>5. CASE \E a \in Attempts : DeleteRecord(a)
  BY <1>5, DeleteRecordKeeps
<1>6. CASE (\E a \in Attempts : ServerCloses(a)) \/ Restart \/ UNCHANGED batchVars
  BY <1>6, OutsideKeeps
<1> QED BY <1>1, <1>2, <1>3, <1>4, <1>5, <1>6 DEF BatchNext

(* The inductive invariant of the batches: how places, slots and records   *)
(* are divided among the files that are under way.                         *)
THEOREM BatchInvariant == BatchSpec => []BatchInv
BY Begins, BatchStays, PTL DEF BatchSpec

(* Every record is of its type, and no upload has two resume records.      *)
THEOREM BatchTyping == BatchSpec => []BatchTypeOK
<1>1. BatchInv => BatchTypeOK
  <2> SUFFICES ASSUME BatchInv PROVE BatchTypeOK
    OBVIOUS
  <2>1. Range(registry) \subseteq Attempts
    BY LenProperties DEF BatchInv, Types, Range
  <2> QED BY <2>1 DEF BatchInv, Types, RecordsInv, BatchTypeOK, Items, Places
<1> QED BY <1>1, BatchInvariant, PTL

(* Every slot of UploadChunkManager is held by a runner's chunk or kept by *)
(* one that could not be deleted, and every chunk file has its slot, in    *)
(* any number of uploads, slots and restarts.                              *)
THEOREM SlotsAreAccounted == BatchSpec => []SlotsAccounted
<1>1. BatchInv => SlotsAccounted
  BY DEF BatchInv, ChunkInv
<1> QED BY <1>1, BatchInvariant, PTL

(* No batch of UploadQueue holds the lock without a file under way, and no *)
(* file waits beside a free place, however many files are selected.        *)
THEOREM QueueKeepsFlowing == BatchSpec => []QueueFlows
<1>1. BatchInv => QueueFlows
  BY DEF BatchInv, QueueInv
<1> QED BY <1>1, BatchInvariant, PTL

(* A retried upload finds room for its record in the registry, whatever    *)
(* other records were saved, completed or deleted before.                  *)
THEOREM RetriesFindRoom == BatchSpec => []RetryHasRoom
<1>1. BatchInv => RetryHasRoom
  BY DEF BatchInv, RoomInv, RetryHasRoom, CanSave
<1> QED BY <1>1, BatchInvariant, PTL
=============================================================================
