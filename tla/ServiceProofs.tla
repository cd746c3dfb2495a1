---------------------------- MODULE ServiceProofs ----------------------------
(***************************************************************************)
(* Theorems about the rest of the service: about ServerProcess for every   *)
(* number of requests, jobs, connections, uploads, parts and slots, about  *)
(* PartForm for forms of any number of items and for any limit of the      *)
(* parser, about RowLocks for every number of transactions, users, sessions,*)
(* uploads, parts and keys, and about the modules side by side.            *)
(***************************************************************************)
EXTENDS MCService, HistoryViewProofs, AuthSessionsProofs, SequenceTheorems, FiniteSetTheorems,
        WellFoundedInduction, TLAPS

(* The process: what a task has asked for and what its connection holds.   *)

TaskRows == [kind : {"none", "part", "exclusive"}, at : Steps, upload : Uploads \union {"none"},
             part : Parts \union {"none"}, slot : Nat]
ConnRows == [state : {"closed", "idle", "used", "dying"}, owner : Owners \union {"none"},
             locks : Seq(Keys)]

ProcessTypes ==
  /\ conn \in [Connections -> ConnRows] /\ task \in [Owners -> TaskRows]
  /\ loop \in [Jobs -> {"unstarted", "running", "waiting", "ended"}]
  /\ server \in {"starting", "open", "closing", "ended"} /\ broken \in 0..MaxBroken

(* What a task asks for next is there to be asked for.                     *)
TaskInv ==
  \A o \in Owners :
    /\ task[o].at # "idle" => task[o].kind \in {"part", "exclusive"} /\ task[o].upload \in Uploads
    /\ task[o].kind = "part" => task[o].part \in Parts
    /\ task[o].at \in {"part", "uploadSlot", "userSlot"} => task[o].kind = "part"
    /\ task[o].at = "uploadSlot" => task[o].slot \in 1..UploadSlots
    /\ task[o].at = "userSlot" => task[o].slot \in 1..UserSlots

Connected == {"gate", "part", "uploadSlot", "userSlot", "held", "undo"}

(* A task has a connection of its own as long as it needs one.             *)
ConnInv ==
  /\ \A c \in Connections :
       /\ conn[c].state = "used" <=> conn[c].owner \in Owners
       /\ conn[c].state \in {"idle", "closed"} => conn[c].locks = << >>
  /\ \A o \in Owners : task[o].at \in Connected <=> \E c \in Connections : Owned(o, c)
  /\ \A o \in Owners, c, d \in Connections : Owned(o, c) /\ Owned(o, d) => c = d

(* The locks that a task has when it is so far.                            *)
StageInv ==
  \A o \in Owners, c \in Connections :
    LET t == task[o]
        Has(key) == key \in ToSet(conn[c].locks)
    IN Owned(o, c) =>
         /\ t.kind = "part" /\ t.at \in {"part", "uploadSlot", "userSlot", "held"} =>
              Has(Gate(t.upload, "shared"))
         /\ t.kind = "part" /\ t.at \in {"uploadSlot", "userSlot", "held"} =>
              Has(Part(t.upload, t.part))
         /\ t.kind = "part" /\ t.at \in {"userSlot", "held"} =>
              \E k \in 1..UploadSlots : Has(UploadSlot(t.upload, k))
         /\ t.kind = "part" /\ t.at = "held" => \E k \in 1..UserSlots : Has(UserSlot(k))
         /\ t.kind = "exclusive" /\ t.at = "held" => Has(Gate(t.upload, "exclusive"))

(* The database: locks of two connections do not conflict.                 *)
ExclusionInv ==
  \A c, d \in Connections : c # d =>
    \A key \in ToSet(conn[c].locks) : \A other \in ToSet(conn[d].locks) : ~Conflicts(key, other)

ProcessInv == ProcessTypes /\ TaskInv /\ ConnInv /\ StageInv /\ ExclusionInv

-----------------------------------------------------------------------------
(* Locks.                                                                  *)

LEMMA AppendedLock ==
  ASSUME NEW locks \in Seq(Keys), NEW key \in Keys
  PROVE  Append(locks, key) \in Seq(Keys) /\ ToSet(Append(locks, key)) = ToSet(locks) \union {key}
<1>1. /\ Append(locks, key) \in Seq(Keys)
      /\ Len(Append(locks, key)) = Len(locks) + 1
      /\ Append(locks, key)[Len(locks) + 1] = key
      /\ \A i \in 1..Len(locks) : Append(locks, key)[i] = locks[i]
  BY AppendProperties
<1>2. DOMAIN locks = 1..Len(locks) /\ DOMAIN Append(locks, key) = 1..(Len(locks) + 1)
      /\ Len(locks) \in Nat
  BY <1>1, LenProperties
<1> QED BY <1>1, <1>2 DEF ToSet

LEMMA LastUnlocked ==
  ASSUME NEW locks \in Seq(Keys), locks # << >>
  PROVE  Front(locks) \in Seq(Keys) /\ ToSet(Front(locks)) \subseteq ToSet(locks)
<1>1. Len(locks) \in Nat \ {0} /\ DOMAIN locks = 1..Len(locks)
  BY EmptySeq, LenProperties
<1>2. /\ Front(locks) \in Seq(Keys) /\ Len(Front(locks)) = Len(locks) - 1
      /\ \A i \in 1..(Len(locks) - 1) : Front(locks)[i] = locks[i]
  BY <1>1, SubSeqProperties DEF Front
<1>3. DOMAIN Front(locks) = 1..(Len(locks) - 1)
  BY <1>2, LenProperties
<1> QED BY <1>1, <1>2, <1>3 DEF ToSet

LEMMA NoLocks == << >> \in Seq(Keys) /\ ToSet(<< >>) = {}
BY EmptySeq DEF ToSet

LEMMA Mutual ==
  ASSUME NEW a, NEW b, Conflicts(a, b)
  PROVE  Conflicts(b, a)
BY DEF Conflicts

LEMMA IsKey ==
  /\ \A u \in Uploads : Gate(u, "shared") \in Keys /\ Gate(u, "exclusive") \in Keys
  /\ \A u \in Uploads, p \in Parts : Part(u, p) \in Keys
  /\ \A u \in Uploads, k \in 1..UploadSlots : UploadSlot(u, k) \in Keys
  /\ \A k \in 1..UserSlots : UserSlot(k) \in Keys
BY DEF Keys

-----------------------------------------------------------------------------
(* Steps of a task.                                                        *)

LEMMA OwnerIsNamed ==
   "none" \notin Owners
BY ProcessAssumption DEF Owners

LEMMA ProcessBegins == ProcessInit => ProcessInv
<1> SUFFICES ASSUME ProcessInit PROVE ProcessInv
  OBVIOUS
<1>1. "none" \notin Owners
  BY OwnerIsNamed
<1>2. Closed \in ConnRows /\ Closed.state = "closed" /\ Closed.owner = "none" /\ Closed.locks = << >>
  BY NoLocks DEF Closed, ConnRows
<1>3. Idle \in TaskRows /\ Idle.at = "idle" /\ Idle.kind = "none"
  BY DEF Idle, TaskRows, Steps
<1>4. ProcessTypes
  BY ProcessAssumption, <1>2, <1>3 DEF ProcessInit, ProcessTypes
<1>5. TaskInv
  BY <1>3 DEF ProcessInit, TaskInv
<1>6. ConnInv /\ StageInv
  BY <1>1, <1>2, <1>3 DEF ProcessInit, ConnInv, StageInv, Owned, Connected
<1>7. ExclusionInv
  BY <1>2, NoLocks DEF ProcessInit, ExclusionInv
<1> QED BY <1>4, <1>5, <1>6, <1>7 DEF ProcessInv

LEMMA Moves ==
  ASSUME ProcessTypes, NEW o \in Owners, NEW at \in Steps, Move(o, at)
  PROVE  /\ task' \in [Owners -> TaskRows]
         /\ \A q \in Owners \ {o} : task'[q] = task[q]
         /\ task'[o].at = at /\ task'[o].slot = 1 /\ task'[o].kind = task[o].kind
         /\ task'[o].upload = task[o].upload /\ task'[o].part = task[o].part
BY DEF ProcessTypes, TaskRows, Move

LEMMA Ends ==
  ASSUME ProcessTypes, NEW o \in Owners, Ended(o)
  PROVE  /\ task' \in [Owners -> TaskRows]
         /\ \A q \in Owners \ {o} : task'[q] = task[q]
         /\ task'[o].at = "idle" /\ task'[o].kind = "none"
<1>1. Idle \in TaskRows /\ Idle.at = "idle" /\ Idle.kind = "none"
  BY DEF Idle, TaskRows, Steps
<1> QED BY <1>1 DEF ProcessTypes, Ended

(* A step of one task that takes and gives back no lock.                   *)
LEMMA TaskOnly ==
  ASSUME ProcessInv, NEW o \in Owners, UNCHANGED <<conn, loop, server, broken>>,
         task' \in [Owners -> TaskRows], \A q \in Owners \ {o} : task'[q] = task[q],
         task'[o].at \in Connected <=> task[o].at \in Connected,
         task'[o].at # "idle" => task'[o].kind \in {"part", "exclusive"} /\ task'[o].upload \in Uploads,
         task'[o].kind = "part" => task'[o].part \in Parts,
         \/ task'[o].at \in {"idle", "connect", "gate", "undo"}
         \/ /\ task'[o].at \in {"uploadSlot", "userSlot"} /\ task'[o].at = task[o].at
            /\ task'[o].kind = task[o].kind /\ task'[o].upload = task[o].upload
            /\ task'[o].part = task[o].part,
         task'[o].at = "uploadSlot" => task'[o].slot \in 1..UploadSlots,
         task'[o].at = "userSlot" => task'[o].slot \in 1..UserSlots
  PROVE  ProcessInv'
<1>1. ProcessTypes'
  BY DEF ProcessInv, ProcessTypes
<1>2. TaskInv'
  BY DEF ProcessInv, TaskInv
<1>3. ConnInv'
  BY DEF ProcessInv, ConnInv, Owned
<1>4. StageInv'
  BY DEF ProcessInv, StageInv, Owned
<1>5. ExclusionInv'
  BY DEF ProcessInv, ExclusionInv
<1> QED BY <1>1, <1>2, <1>3, <1>4, <1>5 DEF ProcessInv

LEMMA MoveOnly ==
  ASSUME ProcessInv, NEW o \in Owners, NEW at \in {"gate", "undo"}, Move(o, at),
         task[o].at \in Connected, UNCHANGED <<conn, loop, server, broken>>
  PROVE  ProcessInv'
<1>1. at \in Steps /\ at \in Connected
  BY DEF Steps, Connected
<1>2. ProcessTypes /\ task[o].at # "idle"
  BY DEF ProcessInv, Connected
<1>3. /\ task' \in [Owners -> TaskRows] /\ \A q \in Owners \ {o} : task'[q] = task[q]
      /\ task'[o].at = at /\ task'[o].kind = task[o].kind
      /\ task'[o].upload = task[o].upload /\ task'[o].part = task[o].part
  BY <1>1, <1>2, Moves
<1>4. /\ task[o].kind \in {"part", "exclusive"} /\ task[o].upload \in Uploads
      /\ task[o].kind = "part" => task[o].part \in Parts
  BY <1>2 DEF ProcessInv, TaskInv
<1> QED BY <1>1, <1>3, <1>4, TaskOnly

LEMMA NextSlotOnly ==
  ASSUME ProcessInv, NEW o \in Owners, NEW count \in Nat, NextSlot(o, count),
         \/ task[o].at = "uploadSlot" /\ count = UploadSlots
         \/ task[o].at = "userSlot" /\ count = UserSlots,
         UNCHANGED <<conn, loop, server, broken>>
  PROVE  ProcessInv'
<1>1. task[o].at \in Connected /\ task[o].at # "idle"
  BY DEF Connected
<1>2. CASE Move(o, "undo")
  BY <1>1, <1>2, MoveOnly
<1>3. CASE task[o].slot < count /\ task' = [task EXCEPT ![o].slot = @ + 1]
  <2>1. task \in [Owners -> TaskRows] /\ task[o].slot \in Nat /\ task[o].slot + 1 \in 1..count
    BY <1>3 DEF ProcessInv, ProcessTypes, TaskRows
  <2>2. /\ task' \in [Owners -> TaskRows] /\ \A q \in Owners \ {o} : task'[q] = task[q]
        /\ task'[o].at = task[o].at /\ task'[o].kind = task[o].kind
        /\ task'[o].upload = task[o].upload /\ task'[o].part = task[o].part
        /\ task'[o].slot = task[o].slot + 1
    BY <1>3, <2>1 DEF TaskRows
  <2>3. /\ task[o].kind \in {"part", "exclusive"} /\ task[o].upload \in Uploads
        /\ task[o].kind = "part" => task[o].part \in Parts
    BY <1>1 DEF ProcessInv, TaskInv
  <2> QED BY <1>1, <2>1, <2>2, <2>3, TaskOnly
<1> QED BY ProcessAssumption, <1>2, <1>3 DEF NextSlot

(* A lock that was taken: it conflicts with none of the other connections, *)
(* and the task goes on with it.                                           *)
LEMMA LockTaken ==
  ASSUME ProcessInv, NEW o \in Owners, NEW c \in Connections, NEW key \in Keys,
         NEW next \in {"part", "uploadSlot", "userSlot", "held"}, task[o].at \in Connected,
         Owned(o, c), Available(key, c),
         conn' = [conn EXCEPT ![c].locks = Append(@, key)], Move(o, next),
         UNCHANGED <<loop, server, broken>>,
         next = "part" => task[o].kind = "part" /\ key = Gate(task[o].upload, "shared"),
         next = "uploadSlot" => task[o].at = "part" /\ key = Part(task[o].upload, task[o].part),
         next = "userSlot" =>
           /\ task[o].at = "uploadSlot"
           /\ \E k \in 1..UploadSlots : key = UploadSlot(task[o].upload, k),
         next = "held" /\ task[o].kind = "part" =>
           task[o].at = "userSlot" /\ \E k \in 1..UserSlots : key = UserSlot(k),
         next = "held" /\ task[o].kind = "exclusive" => key = Gate(task[o].upload, "exclusive")
  PROVE  ProcessInv'
<1>1. conn \in [Connections -> ConnRows] /\ conn[c].locks \in Seq(Keys)
  BY DEF ProcessInv, ProcessTypes, ConnRows
<1>2. /\ conn' \in [Connections -> ConnRows]
      /\ \A d \in Connections \ {c} : conn'[d] = conn[d]
      /\ conn'[c].state = conn[c].state /\ conn'[c].owner = conn[c].owner
      /\ conn'[c].locks = Append(conn[c].locks, key)
  BY <1>1, AppendedLock DEF ConnRows
<1>3. ToSet(conn'[c].locks) = ToSet(conn[c].locks) \union {key}
  BY <1>1, <1>2, AppendedLock
<1>4. /\ task' \in [Owners -> TaskRows] /\ \A q \in Owners \ {o} : task'[q] = task[q]
      /\ task'[o].at = next /\ task'[o].slot = 1 /\ task'[o].kind = task[o].kind
      /\ task'[o].upload = task[o].upload /\ task'[o].part = task[o].part
  BY Moves DEF ProcessInv, Steps
<1>5. \A q \in Owners, d \in Connections : Owned(q, d)' <=> Owned(q, d)
  BY <1>2 DEF Owned
<1>6. ProcessTypes'
  BY <1>2, <1>4 DEF ProcessInv, ProcessTypes
<1>7. TaskInv'
  <2>1. 1 \in 1..UploadSlots /\ 1 \in 1..UserSlots
    BY ProcessAssumption
  <2>2. task[o].at # "idle"
    BY DEF Connected
  <2> QED BY <1>4, <2>1, <2>2 DEF ProcessInv, TaskInv
<1>8. ConnInv'
  <2>1. next \in Connected
    BY DEF Connected
  <2>2. \A d \in Connections : conn'[d].state = conn[d].state /\ conn'[d].owner = conn[d].owner
    BY <1>2
  <2>3. conn[c].state = "used"
    BY DEF Owned
  <2>4. \A q \in Owners : task'[q].at \in Connected <=> task[q].at \in Connected
    BY <1>4, <2>1
  <2> QED BY <1>2, <1>5, <2>2, <2>3, <2>4 DEF ProcessInv, ConnInv
<1>9. StageInv'
  <2> SUFFICES ASSUME NEW q \in Owners, NEW d \in Connections, Owned(q, d)
               PROVE  LET t == task'[q]
                          Has(k) == k \in ToSet(conn'[d].locks)
                      IN /\ t.kind = "part" /\ t.at \in {"part", "uploadSlot", "userSlot", "held"} =>
                              Has(Gate(t.upload, "shared"))
                         /\ t.kind = "part" /\ t.at \in {"uploadSlot", "userSlot", "held"} =>
                              Has(Part(t.upload, t.part))
                         /\ t.kind = "part" /\ t.at \in {"userSlot", "held"} =>
                              \E k \in 1..UploadSlots : Has(UploadSlot(t.upload, k))
                         /\ t.kind = "part" /\ t.at = "held" => \E k \in 1..UserSlots : Has(UserSlot(k))
                         /\ t.kind = "exclusive" /\ t.at = "held" => Has(Gate(t.upload, "exclusive"))
    BY <1>5 DEF StageInv
  <2>1. CASE q # o
    <3>1. d # c
      BY <2>1 DEF ProcessInv, ConnInv, Owned
    <3>2. task'[q] = task[q] /\ conn'[d] = conn[d]
      BY <1>2, <1>4, <2>1, <3>1
    <3> QED BY <3>2 DEF ProcessInv, StageInv
  <2>2. CASE q = o
    <3>1. d = c
      BY <2>2 DEF ProcessInv, ConnInv
    <3> QED BY <1>3, <1>4, <2>2, <3>1 DEF ProcessInv, StageInv
  <2> QED BY <2>1, <2>2
<1>10. ExclusionInv'
  <2> SUFFICES ASSUME NEW d \in Connections, NEW e \in Connections, d # e,
                      NEW a \in ToSet(conn'[d].locks), NEW b \in ToSet(conn'[e].locks)
               PROVE  ~Conflicts(a, b)
    BY DEF ExclusionInv, Conflicts
  <2>1. \A f \in Connections \ {c} : \A k \in ToSet(conn[f].locks) : ~Conflicts(key, k)
    BY DEF Available
  <2>2. CASE d # c /\ e # c
    BY <1>2, <2>2 DEF ProcessInv, ExclusionInv
  <2>3. CASE d = c
    BY <1>2, <1>3, <2>1, <2>3 DEF ProcessInv, ExclusionInv
  <2>4. CASE e = c
    BY <1>2, <1>3, <2>1, <2>4, Mutual DEF ProcessInv, ExclusionInv
  <2> QED BY <2>2, <2>3, <2>4
<1> QED BY <1>6, <1>7, <1>8, <1>9, <1>10 DEF ProcessInv

-----------------------------------------------------------------------------
(* The acquisition, query by query.                                        *)

LEMMA AcquisitionKeeps ==
  ASSUME ProcessInv, NEW o \in Owners, NEW c \in Connections,
         PartGate(o, c) \/ PartLock(o, c) \/ TryUploadSlot(o, c) \/ TryUserSlot(o, c)
         \/ ExclusiveGate(o, c)
  PROVE  ProcessInv'
<1> DEFINE u == task[o].upload
           TakenThen(key, next) ==
             /\ Available(key, c) /\ conn' = [conn EXCEPT ![c].locks = Append(@, key)]
             /\ Move(o, next)
<1>1. /\ task[o].at # "idle" => task[o].kind \in {"part", "exclusive"} /\ u \in Uploads
      /\ task[o].kind = "part" => task[o].part \in Parts
      /\ task[o].at \in {"part", "uploadSlot", "userSlot"} => task[o].kind = "part"
  BY DEF ProcessInv, TaskInv
<1>2. CASE PartGate(o, c)
  <2>1. /\ task[o].kind = "part" /\ task[o].at = "gate" /\ Owned(o, c)
        /\ UNCHANGED <<loop, server, broken>>
        /\ TakenThen(Gate(u, "shared"), "part") \/ (Move(o, "undo") /\ UNCHANGED conn)
    BY <1>2 DEF PartGate, tryLock
  <2>2. task[o].at \in Connected /\ Gate(u, "shared") \in Keys
    BY <1>1, <2>1, IsKey DEF Connected
  <2>3. CASE TakenThen(Gate(u, "shared"), "part")
    BY <2>1, <2>2, <2>3, LockTaken
  <2>4. CASE Move(o, "undo") /\ UNCHANGED conn
    BY <2>1, <2>2, <2>4, MoveOnly
  <2> QED BY <2>1, <2>3, <2>4
<1>3. CASE PartLock(o, c)
  <2> DEFINE key == Part(u, task[o].part)
  <2>1. /\ task[o].at = "part" /\ Owned(o, c) /\ UNCHANGED <<loop, server, broken>>
        /\ TakenThen(key, "uploadSlot") \/ (Move(o, "undo") /\ UNCHANGED conn)
    BY <1>3 DEF PartLock, tryLock
  <2>2. task[o].at \in Connected /\ key \in Keys
    BY <1>1, <2>1, IsKey DEF Connected
  <2>3. CASE TakenThen(key, "uploadSlot")
    BY <2>1, <2>2, <2>3, LockTaken
  <2>4. CASE Move(o, "undo") /\ UNCHANGED conn
    BY <2>1, <2>2, <2>4, MoveOnly
  <2> QED BY <2>1, <2>3, <2>4
<1>4. CASE TryUploadSlot(o, c)
  <2> DEFINE key == UploadSlot(u, task[o].slot)
  <2>1. /\ task[o].at = "uploadSlot" /\ Owned(o, c) /\ UNCHANGED <<loop, server, broken>>
        /\ TakenThen(key, "userSlot") \/ (NextSlot(o, UploadSlots) /\ UNCHANGED conn)
    BY <1>4 DEF TryUploadSlot, tryLock
  <2>2. task[o].slot \in 1..UploadSlots
    BY <2>1 DEF ProcessInv, TaskInv
  <2>3. task[o].at \in Connected /\ key \in Keys
    BY <1>1, <2>1, <2>2, IsKey DEF Connected
  <2>4. CASE TakenThen(key, "userSlot")
    BY <2>1, <2>2, <2>3, <2>4, LockTaken
  <2>5. CASE NextSlot(o, UploadSlots) /\ UNCHANGED conn
    <3>1. UploadSlots \in Nat
      BY ProcessAssumption
    <3> QED BY <2>1, <2>5, <3>1, NextSlotOnly
  <2> QED BY <2>1, <2>4, <2>5
<1>5. CASE TryUserSlot(o, c)
  <2> DEFINE key == UserSlot(task[o].slot)
  <2>1. /\ task[o].at = "userSlot" /\ Owned(o, c) /\ UNCHANGED <<loop, server, broken>>
        /\ TakenThen(key, "held") \/ (NextSlot(o, UserSlots) /\ UNCHANGED conn)
    BY <1>5 DEF TryUserSlot, tryLock
  <2>2. task[o].slot \in 1..UserSlots
    BY <2>1 DEF ProcessInv, TaskInv
  <2>3. task[o].at \in Connected /\ key \in Keys
    BY <1>1, <2>1, <2>2, IsKey DEF Connected
  <2>4. CASE TakenThen(key, "held")
    BY <1>1, <2>1, <2>2, <2>3, <2>4, LockTaken
  <2>5. CASE NextSlot(o, UserSlots) /\ UNCHANGED conn
    <3>1. UserSlots \in Nat
      BY ProcessAssumption
    <3> QED BY <2>1, <2>5, <3>1, NextSlotOnly
  <2> QED BY <2>1, <2>4, <2>5
<1>6. CASE ExclusiveGate(o, c)
  <2>1. /\ task[o].kind = "exclusive" /\ task[o].at = "gate" /\ Owned(o, c)
        /\ UNCHANGED <<loop, server, broken>>
        /\ \/ TakenThen(Gate(u, "exclusive"), "held")
           \/ (Move(o, "gate") \/ Move(o, "undo")) /\ UNCHANGED conn
    BY <1>6 DEF ExclusiveGate, tryLock
  <2>2. task[o].at \in Connected /\ Gate(u, "exclusive") \in Keys
    BY <1>1, <2>1, IsKey DEF Connected
  <2>3. CASE TakenThen(Gate(u, "exclusive"), "held")
    BY <2>1, <2>2, <2>3, LockTaken
  <2>4. CASE (Move(o, "gate") \/ Move(o, "undo")) /\ UNCHANGED conn
    BY <2>1, <2>2, <2>4, MoveOnly
  <2> QED BY <2>1, <2>3, <2>4
<1> QED BY <1>2, <1>3, <1>4, <1>5, <1>6

(* A task gets a connection that nobody has.                               *)
LEMMA ConnectKeeps ==
  ASSUME ProcessInv, NEW o \in Owners, NEW c \in Connections, connect(o, c)
  PROVE  ProcessInv'
<1>1. conn[c].state \in {"idle", "closed"}
  BY Zenon DEF connect, Offered
<1>2. /\ task[o].at = "connect" /\ Move(o, "gate") /\ UNCHANGED <<loop, server, broken>>
      /\ conn' = [conn EXCEPT ![c] = [@ EXCEPT !.state = "used", !.owner = o]]
  BY DEF connect
<1>3. conn \in [Connections -> ConnRows]
  BY DEF ProcessInv, ProcessTypes
<1>4. /\ conn' \in [Connections -> ConnRows]
      /\ \A d \in Connections \ {c} : conn'[d] = conn[d]
      /\ conn'[c].state = "used" /\ conn'[c].owner = o /\ conn'[c].locks = conn[c].locks
  BY <1>2, <1>3 DEF ConnRows
<1>5. /\ task' \in [Owners -> TaskRows] /\ \A q \in Owners \ {o} : task'[q] = task[q]
      /\ task'[o].at = "gate" /\ task'[o].kind = task[o].kind
      /\ task'[o].upload = task[o].upload /\ task'[o].part = task[o].part
  BY <1>2, Moves DEF ProcessInv, Steps
<1>6. /\ \A d \in Connections : ~Owned(o, d) /\ (Owned(o, d)' <=> d = c)
      /\ \A q \in Owners \ {o}, d \in Connections : Owned(q, d)' <=> Owned(q, d)
  <2>1. \A d \in Connections : ~Owned(o, d)
    BY <1>2 DEF ProcessInv, ConnInv, Connected
  <2> QED BY <1>1, <1>4, <2>1 DEF Owned
<1>7. ProcessTypes'
  BY <1>2, <1>4, <1>5 DEF ProcessInv, ProcessTypes
<1>8. TaskInv'
  BY <1>2, <1>5 DEF ProcessInv, TaskInv
<1>9. ConnInv'
  <2>1. \A q \in Owners : task'[q].at \in Connected <=> \E d \in Connections : Owned(q, d)'
    <3>1. \A q \in Owners \ {o} : task'[q].at \in Connected <=> \E d \in Connections : Owned(q, d)'
      BY <1>5, <1>6 DEF ProcessInv, ConnInv
    <3>2. task'[o].at \in Connected
      BY <1>5 DEF Connected
    <3> QED BY <1>6, <3>1, <3>2
  <2>2. \A q \in Owners, d, e \in Connections : Owned(q, d)' /\ Owned(q, e)' => d = e
    BY <1>6 DEF ProcessInv, ConnInv
  <2> QED BY <1>4, <2>1, <2>2 DEF ProcessInv, ConnInv
<1>10. StageInv'
  BY <1>4, <1>5, <1>6 DEF ProcessInv, StageInv, Owned
<1>11. ExclusionInv'
  BY <1>4 DEF ProcessInv, ExclusionInv, Conflicts
<1> QED BY <1>7, <1>8, <1>9, <1>10, <1>11 DEF ProcessInv

(* A task loses its connection, which keeps, or has lost, its locks.       *)
LEMMA Disconnects ==
  ASSUME ProcessInv, NEW o \in Owners, NEW c \in Connections, Owned(o, c), Ended(o),
         conn' \in [Connections -> ConnRows],
         \A d \in Connections \ {c} : conn'[d] = conn[d],
         conn'[c].owner = "none", conn'[c].locks = conn[c].locks,
         conn'[c].state = "dying" \/ (conn'[c].state = "idle" /\ conn[c].locks = << >>),
         UNCHANGED <<loop, server>>, broken' \in 0..MaxBroken
  PROVE  ProcessInv'
<1>1. /\ task' \in [Owners -> TaskRows] /\ \A q \in Owners \ {o} : task'[q] = task[q]
      /\ task'[o].at = "idle" /\ task'[o].kind = "none"
  BY Ends DEF ProcessInv
<1>2. /\ \A d \in Connections : ~Owned(o, d)'
      /\ \A q \in Owners \ {o}, d \in Connections : Owned(q, d)' <=> Owned(q, d)
  BY DEF ProcessInv, ConnInv, Owned
<1>3. ProcessTypes'
  BY <1>1 DEF ProcessInv, ProcessTypes
<1>4. TaskInv'
  BY <1>1 DEF ProcessInv, TaskInv
<1>5. ConnInv'
  <2>1. \A q \in Owners : task'[q].at \in Connected <=> \E d \in Connections : Owned(q, d)'
    <3>1. \A q \in Owners \ {o} : task'[q].at \in Connected <=> \E d \in Connections : Owned(q, d)'
      BY <1>1, <1>2 DEF ProcessInv, ConnInv
    <3>2. task'[o].at \notin Connected
      BY <1>1 DEF Connected
    <3> QED BY <1>2, <3>1, <3>2
  <2>2. \A q \in Owners, d, e \in Connections : Owned(q, d)' /\ Owned(q, e)' => d = e
    BY <1>2 DEF ProcessInv, ConnInv
  <2>3. \A d \in Connections :
          /\ conn'[d].state = "used" <=> conn'[d].owner \in Owners
          /\ conn'[d].state \in {"idle", "closed"} => conn'[d].locks = << >>
    BY OwnerIsNamed DEF ProcessInv, ConnInv
  <2> QED BY <2>1, <2>2, <2>3 DEF ConnInv
<1>6. StageInv'
  BY <1>1, <1>2 DEF ProcessInv, StageInv, Owned
<1>7. ExclusionInv'
  BY DEF ProcessInv, ExclusionInv, Conflicts
<1> QED BY <1>3, <1>4, <1>5, <1>6, <1>7 DEF ProcessInv

LEMMA UndoKeeps ==
  ASSUME ProcessInv, NEW o \in Owners, NEW c \in Connections, unlock(o, c)
  PROVE  ProcessInv'
<1>1. conn \in [Connections -> ConnRows] /\ conn[c] \in ConnRows /\ conn[c].locks \in Seq(Keys)
  BY DEF ProcessInv, ProcessTypes, ConnRows
<1>2. task[o].at = "undo" /\ Owned(o, c) /\ UNCHANGED <<loop, server, broken>>
  BY DEF unlock
<1>3. CASE conn[c].locks # << >>
  <2>1. conn' = [conn EXCEPT ![c].locks = Front(@)] /\ UNCHANGED task
    BY <1>3 DEF unlock, LocksLeft
  <2>2. /\ Front(conn[c].locks) \in Seq(Keys)
        /\ ToSet(Front(conn[c].locks)) \subseteq ToSet(conn[c].locks)
    BY <1>1, <1>3, LastUnlocked
  <2>3. /\ conn' \in [Connections -> ConnRows]
        /\ \A d \in Connections \ {c} : conn'[d] = conn[d]
        /\ conn'[c].state = conn[c].state /\ conn'[c].owner = conn[c].owner
        /\ conn'[c].locks = Front(conn[c].locks)
    BY <1>1, <2>1, <2>2 DEF ConnRows
  <2>4. \A q \in Owners, d \in Connections : Owned(q, d)' <=> Owned(q, d)
    BY <2>3 DEF Owned
  <2>5. ProcessTypes' /\ TaskInv'
    BY <1>2, <2>1, <2>3 DEF ProcessInv, ProcessTypes, TaskInv
  <2>6. ConnInv'
    BY <1>2, <2>1, <2>3, <2>4 DEF ProcessInv, ConnInv, Owned
  <2>7. StageInv'
    BY <1>2, <2>1, <2>3, <2>4 DEF ProcessInv, StageInv, ConnInv, Owned
  <2>8. ExclusionInv'
    BY <2>2, <2>3 DEF ProcessInv, ExclusionInv, Conflicts
  <2> QED BY <2>5, <2>6, <2>7, <2>8 DEF ProcessInv
<1>4. CASE conn[c].locks = << >>
  <2>1. Ended(o) /\ conn' = [conn EXCEPT ![c] = [@ EXCEPT !.state = "idle", !.owner = "none"]]
    BY <1>4 DEF unlock, LocksLeft
  <2>2. /\ conn' \in [Connections -> ConnRows]
        /\ \A d \in Connections \ {c} : conn'[d] = conn[d]
        /\ conn'[c].state = "idle" /\ conn'[c].owner = "none" /\ conn'[c].locks = conn[c].locks
    BY <1>1, <2>1 DEF ConnRows
  <2>3. broken' \in 0..MaxBroken
    BY <1>2 DEF ProcessInv, ProcessTypes
  <2> QED BY <1>2, <1>4, <2>1, <2>2, <2>3, Disconnects
<1> QED BY <1>3, <1>4

LEMMA QueryFailsKeeps ==
  ASSUME ProcessInv, NEW o \in Owners, NEW c \in Connections, QueryFails(o, c)
  PROVE  ProcessInv'
<1>1. conn \in [Connections -> ConnRows] /\ broken \in 0..MaxBroken
  BY DEF ProcessInv, ProcessTypes
<1>2. /\ Owned(o, c) /\ Ended(o) /\ UNCHANGED <<loop, server>> /\ broken' \in 0..MaxBroken
      /\ conn' = [conn EXCEPT ![c] = [@ EXCEPT !.state = "dying", !.owner = "none"]]
  BY ProcessAssumption, <1>1 DEF QueryFails
<1>3. /\ conn' \in [Connections -> ConnRows]
      /\ \A d \in Connections \ {c} : conn'[d] = conn[d]
      /\ conn'[c].state = "dying" /\ conn'[c].owner = "none" /\ conn'[c].locks = conn[c].locks
  BY <1>1, <1>2 DEF ConnRows
<1> QED BY <1>2, <1>3, Disconnects

(* Connections without an owner are closed, and with them their locks.     *)
LEMMA Closes ==
  ASSUME ProcessInv, UNCHANGED <<task, broken>>,
         loop' \in [Jobs -> {"unstarted", "running", "waiting", "ended"}],
         server' \in {"starting", "open", "closing", "ended"},
         conn' \in [Connections -> ConnRows],
         \A c \in Connections : conn'[c] = conn[c] \/ (conn[c].state # "used" /\ conn'[c] = Closed)
  PROVE  ProcessInv'
<1>1. Closed.state = "closed" /\ Closed.owner = "none" /\ Closed.locks = << >> /\ "none" \notin Owners
  BY OwnerIsNamed DEF Closed
<1>2. \A q \in Owners, c \in Connections : Owned(q, c)' <=> Owned(q, c)
  BY <1>1 DEF Owned
<1>3. \A c \in Connections : ToSet(conn'[c].locks) \subseteq ToSet(conn[c].locks)
  BY <1>1, NoLocks
<1>4. ProcessTypes' /\ TaskInv'
  BY DEF ProcessInv, ProcessTypes, TaskInv
<1>5. ConnInv'
  BY <1>1, <1>2 DEF ProcessInv, ConnInv
<1>6. StageInv'
  BY <1>2 DEF ProcessInv, StageInv, Owned
<1>7. ExclusionInv'
  BY <1>3 DEF ProcessInv, ExclusionInv, Conflicts
<1> QED BY <1>4, <1>5, <1>6, <1>7 DEF ProcessInv

-----------------------------------------------------------------------------
(* Requests, jobs and the process.                                         *)

LEMMA WorkBegins ==
  ASSUME ProcessInv, NEW o \in Owners, NEW u \in Uploads,
         task[o].at = "idle", UNCHANGED <<conn, loop, server, broken>>,
         Begin(o, "exclusive", u, "none") \/ \E p \in Parts : Begin(o, "part", u, p)
  PROVE  ProcessInv'
<1>1. PICK next \in TaskRows :
        /\ task' = [task EXCEPT ![o] = next] /\ next.at = "connect" /\ next.upload = u
        /\ \/ next.kind = "exclusive"
           \/ next.kind = "part" /\ next.part \in Parts
  <2>1. CASE Begin(o, "exclusive", u, "none")
    <3> DEFINE work == [kind |-> "exclusive", at |-> "connect", upload |-> u, part |-> "none", slot |-> 1]
    <3>1. work \in TaskRows /\ task' = [task EXCEPT ![o] = work]
      BY <2>1 DEF Begin, TaskRows, Steps
    <3>2. work.at = "connect" /\ work.upload = u /\ work.kind = "exclusive"
      OBVIOUS
    <3> HIDE DEF work
    <3> QED BY <3>1, <3>2
  <2>2. ASSUME NEW p \in Parts, Begin(o, "part", u, p)
        PROVE  \E next \in TaskRows :
                 /\ task' = [task EXCEPT ![o] = next] /\ next.at = "connect" /\ next.upload = u
                 /\ next.kind = "part" /\ next.part \in Parts
    <3> DEFINE work == [kind |-> "part", at |-> "connect", upload |-> u, part |-> p, slot |-> 1]
    <3>1. work \in TaskRows /\ task' = [task EXCEPT ![o] = work]
      BY <2>2 DEF Begin, TaskRows, Steps
    <3>2. work.at = "connect" /\ work.upload = u /\ work.kind = "part" /\ work.part \in Parts
      OBVIOUS
    <3> HIDE DEF work
    <3> QED BY <3>1, <3>2
  <2> QED BY <2>1, <2>2
<1>2. /\ task' \in [Owners -> TaskRows] /\ \A q \in Owners \ {o} : task'[q] = task[q]
      /\ task'[o] = next
  BY <1>1 DEF ProcessInv, ProcessTypes
<1>3. "connect" \notin Connected /\ "idle" \notin Connected
  BY DEF Connected
<1> QED BY <1>1, <1>2, <1>3, TaskOnly

LEMMA RequestsKeep ==
  ASSUME ProcessInv, NEW u \in Uploads,
         \/ \E h \in Handlers : ExclusiveRequest(h, u) \/ \E p \in Parts : PartRequest(h, u, p)
         \/ \E j \in Jobs : JobWorks(j, u)
  PROVE  ProcessInv'
<1>1. PICK o \in Owners :
        /\ task[o].at = "idle" /\ UNCHANGED <<conn, loop, server, broken>>
        /\ Begin(o, "exclusive", u, "none") \/ \E p \in Parts : Begin(o, "part", u, p)
  BY DEF ExclusiveRequest, PartRequest, JobWorks, Owners
<1> QED BY <1>1, WorkBegins

LEMMA TasksKeep ==
  ASSUME ProcessInv, NEW o \in Owners, connectFails(o) \/ Release(o)
  PROVE  ProcessInv'
<1>1. CASE Release(o)
  <2>1. task[o].at \in Connected /\ Move(o, "undo") /\ UNCHANGED <<conn, loop, server, broken>>
    BY <1>1 DEF Release, Connected
  <2> QED BY <2>1, MoveOnly
<1>2. CASE connectFails(o)
  <2>1. task[o].at = "connect" /\ Ended(o) /\ UNCHANGED <<conn, loop, server, broken>>
    BY <1>2 DEF connectFails
  <2>2. /\ task' \in [Owners -> TaskRows] /\ \A q \in Owners \ {o} : task'[q] = task[q]
        /\ task'[o].at = "idle" /\ task'[o].kind = "none"
    BY <2>1, Ends DEF ProcessInv
  <2>3. "connect" \notin Connected /\ "idle" \notin Connected
    BY DEF Connected
  <2> QED BY <2>1, <2>2, <2>3, TaskOnly
<1> QED BY <1>1, <1>2

LEMMA ProcessKeeps ==
  ASSUME ProcessInv,
         \/ startPreparedServer \/ shutdown \/ closeResources
         \/ \E j \in Jobs : IterationEnds(j) \/ waitForNextRun(j)
         \/ \E c \in Connections : ConnectionCloses(c)
  PROVE  ProcessInv'
<1>1. /\ conn \in [Connections -> ConnRows]
      /\ loop \in [Jobs -> {"unstarted", "running", "waiting", "ended"}]
      /\ server \in {"starting", "open", "closing", "ended"}
  BY DEF ProcessInv, ProcessTypes
<1>2. Closed \in ConnRows
  BY NoLocks DEF Closed, ConnRows
<1>3. UNCHANGED <<task, broken>>
  BY DEF startPreparedServer, shutdown, closeResources, IterationEnds, waitForNextRun,
     ConnectionCloses
<1>4. /\ loop' \in [Jobs -> {"unstarted", "running", "waiting", "ended"}]
      /\ server' \in {"starting", "open", "closing", "ended"}
  BY <1>1 DEF startPreparedServer, shutdown, closeResources, IterationEnds, waitForNextRun,
     ConnectionCloses
<1>5. /\ conn' \in [Connections -> ConnRows]
      /\ \A c \in Connections :
           conn'[c] = conn[c] \/ (conn[c].state # "used" /\ conn'[c] = Closed)
  BY <1>1, <1>2 DEF startPreparedServer, shutdown, closeResources, IterationEnds, waitForNextRun,
     ConnectionCloses
<1> QED BY <1>3, <1>4, <1>5, Closes

-----------------------------------------------------------------------------
(* The inductive invariant: how far a task has come says which locks its   *)
(* connection has, and no two connections have locks that conflict.        *)
THEOREM ProcessInvariant == ProcessSpec => []ProcessInv
<1>1. ProcessInv /\ [ProcessNext]_processVars => ProcessInv'
  <2> SUFFICES ASSUME ProcessInv, [ProcessNext]_processVars PROVE ProcessInv'
    OBVIOUS
  <2>1. ASSUME NEW o \in Owners, NEW c \in Connections,
               \/ connect(o, c) \/ PartGate(o, c) \/ PartLock(o, c) \/ TryUploadSlot(o, c)
               \/ TryUserSlot(o, c) \/ ExclusiveGate(o, c) \/ unlock(o, c) \/ QueryFails(o, c)
        PROVE  ProcessInv'
    BY <2>1, ConnectKeeps, AcquisitionKeeps, UndoKeeps, QueryFailsKeeps
  <2>2. CASE UNCHANGED processVars
    BY <2>2 DEF processVars, ProcessInv, ProcessTypes, TaskInv, ConnInv, StageInv, ExclusionInv,
       Owned, Conflicts
  <2> QED BY <2>1, <2>2, RequestsKeep, TasksKeep, ProcessKeeps DEF ProcessNext
<1>2. ProcessInit => ProcessInv
  BY ProcessBegins
<1> QED BY <1>1, <1>2, PTL DEF ProcessSpec

(* The variables keep their types.                                         *)
THEOREM ProcessTyping == ProcessSpec => []ProcessTypeOK
<1>1. ProcessInv => ProcessTypeOK
  <2> SUFFICES ASSUME ProcessInv PROVE ProcessTypeOK
    OBVIOUS
  <2>1. \A c \in Connections : conn[c] \in ConnRows /\ ToSet(conn[c].locks) \subseteq Keys
    <3>1. \A c \in Connections : conn[c] \in ConnRows /\ conn[c].locks \in Seq(Keys)
      BY DEF ProcessInv, ProcessTypes, ConnRows
    <3> QED BY <3>1, LenProperties DEF ToSet
  <2>2. \A o \in Owners : task[o] \in TaskRows
    BY DEF ProcessInv, ProcessTypes
  <2> QED BY <2>1, <2>2 DEF ProcessInv, ProcessTypes, ProcessTypeOK, ConnRows, TaskRows
<1> QED BY <1>1, ProcessInvariant, PTL

(* A connection of the pool holds no lock.                                 *)
THEOREM PoolHoldsNothing == ProcessSpec => []PooledHoldsNothing
<1>1. ProcessInv => PooledHoldsNothing
  BY DEF ProcessInv, ConnInv, PooledHoldsNothing
<1> QED BY <1>1, ProcessInvariant, PTL

-----------------------------------------------------------------------------
LEMMA OnePerSlot ==
  ASSUME NEW S, NEW n \in Nat, NEW slot \in [S -> 1..n],
         \A x, y \in S : slot[x] = slot[y] => x = y
  PROVE  Cardinality(S) <= n
<1>1. IsFiniteSet(1..n) /\ Cardinality(1..n) = n
  BY FS_Interval
<1>2. slot \in Injection(S, 1..n)
  BY DEF Injection, IsInjective
<1> QED BY <1>1, <1>2, FS_Injection

(* Two holders have different connections, whose locks do not conflict.    *)
LEMMA HoldersApart ==
  ASSUME ProcessInv, NEW o \in Owners, NEW q \in Owners, o # q,
         NEW c \in Connections, NEW d \in Connections, Owned(o, c), Owned(q, d),
         NEW a \in ToSet(conn[c].locks), NEW b \in ToSet(conn[d].locks)
  PROVE  ~Conflicts(a, b)
<1>1. c # d
  BY DEF Owned
<1> QED BY <1>1 DEF ProcessInv, ExclusionInv

LEMMA HolderLocks ==
  ASSUME ProcessInv, NEW o \in Owners, task[o].at = "held"
  PROVE  \E c \in Connections :
           /\ Owned(o, c)
           /\ task[o].kind = "exclusive" => Gate(task[o].upload, "exclusive") \in ToSet(conn[c].locks)
           /\ task[o].kind # "exclusive" =>
                /\ task[o].kind = "part"
                /\ Gate(task[o].upload, "shared") \in ToSet(conn[c].locks)
                /\ Part(task[o].upload, task[o].part) \in ToSet(conn[c].locks)
                /\ \E k \in 1..UploadSlots : UploadSlot(task[o].upload, k) \in ToSet(conn[c].locks)
                /\ \E k \in 1..UserSlots : UserSlot(k) \in ToSet(conn[c].locks)
<1>1. task[o].kind \in {"part", "exclusive"}
  BY DEF ProcessInv, TaskInv
<1>2. PICK c \in Connections : Owned(o, c)
  BY DEF ProcessInv, ConnInv, Connected
<1> QED BY <1>1, <1>2 DEF ProcessInv, StageInv

LEMMA Same ==
  ASSUME NEW u
  PROVE  /\ \A mode \in {"shared", "exclusive"} : Conflicts(Gate(u, "exclusive"), Gate(u, mode))
         /\ \A p : Conflicts(Part(u, p), Part(u, p))
         /\ \A k : Conflicts(UploadSlot(u, k), UploadSlot(u, k)) /\ Conflicts(UserSlot(k), UserSlot(k))
BY DEF Conflicts, Gate, Part, UploadSlot, UserSlot

(* The leases keep each other out as they must, whoever acquires, gives    *)
(* back or loses a connection meanwhile.                                   *)
THEOREM LeasesKeepOut == ProcessSpec => []LeasesExclude
<1>1. ProcessInv => LeasesExclude
  <2> SUFFICES ASSUME ProcessInv PROVE LeasesExclude
    OBVIOUS
  <2> DEFINE HasSlot(o, key) == \E c \in Connections : Owned(o, c) /\ key \in ToSet(conn[c].locks)
  <2>1. Cardinality(PartsHeld) <= UserSlots
    <3> DEFINE slot == [o \in PartsHeld |-> CHOOSE k \in 1..UserSlots : HasSlot(o, UserSlot(k))]
    <3>1. \A o \in PartsHeld : \E k \in 1..UserSlots : HasSlot(o, UserSlot(k))
      BY HolderLocks DEF PartsHeld
    <3>2. \A o \in PartsHeld : slot[o] \in 1..UserSlots /\ HasSlot(o, UserSlot(slot[o]))
      BY <3>1
    <3>3. ASSUME NEW o \in PartsHeld, NEW q \in PartsHeld, slot[o] = slot[q], o # q PROVE FALSE
      BY <3>2, <3>3, HoldersApart, Same DEF PartsHeld
    <3>4. slot \in [PartsHeld -> 1..UserSlots]
      BY <3>2
    <3> HIDE DEF slot
    <3> QED BY ProcessAssumption, <3>3, <3>4, OnePerSlot
  <2>2. ASSUME NEW u \in Uploads, NEW o \in Holders(u), NEW q \in Holders(u), q # o
        PROVE  /\ task[o].kind # "exclusive" /\ task[q].kind # "exclusive"
               /\ task[q].part # task[o].part
    <3>1. /\ o \in Owners /\ task[o].at = "held" /\ task[o].upload = u
          /\ q \in Owners /\ task[q].at = "held" /\ task[q].upload = u
      BY DEF Holders
    <3>2. PICK c \in Connections :
            /\ Owned(o, c)
            /\ task[o].kind = "exclusive" => Gate(u, "exclusive") \in ToSet(conn[c].locks)
            /\ task[o].kind # "exclusive" =>
                 /\ Gate(u, "shared") \in ToSet(conn[c].locks)
                 /\ Part(u, task[o].part) \in ToSet(conn[c].locks)
      BY <3>1, HolderLocks
    <3>3. PICK d \in Connections :
            /\ Owned(q, d)
            /\ task[q].kind = "exclusive" => Gate(u, "exclusive") \in ToSet(conn[d].locks)
            /\ task[q].kind # "exclusive" =>
                 /\ Gate(u, "shared") \in ToSet(conn[d].locks)
                 /\ Part(u, task[q].part) \in ToSet(conn[d].locks)
      BY <3>1, HolderLocks
    <3>4. \A a \in ToSet(conn[c].locks), b \in ToSet(conn[d].locks) : ~Conflicts(a, b) /\ ~Conflicts(b, a)
      BY <2>2, <3>1, <3>2, <3>3, HoldersApart
    <3> QED BY <3>2, <3>3, <3>4, Same
  <2>3. ASSUME NEW u \in Uploads, NEW o \in Holders(u), task[o].kind # "exclusive"
        PROVE  Cardinality(Holders(u)) <= UploadSlots
    <3> DEFINE slot == [q \in Holders(u) |->
                          CHOOSE k \in 1..UploadSlots : HasSlot(q, UploadSlot(u, k))]
    <3>1. \A q \in Holders(u) : task[q].kind # "exclusive"
      BY <2>2, <2>3
    <3>2. \A q \in Holders(u) : \E k \in 1..UploadSlots : HasSlot(q, UploadSlot(u, k))
      BY <3>1, HolderLocks DEF Holders
    <3>3. \A q \in Holders(u) : slot[q] \in 1..UploadSlots /\ HasSlot(q, UploadSlot(u, slot[q]))
      BY <3>2
    <3>4. ASSUME NEW p \in Holders(u), NEW q \in Holders(u), slot[p] = slot[q], p # q PROVE FALSE
      BY <3>3, <3>4, HoldersApart, Same DEF Holders
    <3>5. slot \in [Holders(u) -> 1..UploadSlots]
      BY <3>3
    <3> HIDE DEF slot
    <3> QED BY ProcessAssumption, <3>4, <3>5, OnePerSlot
  <2> QED BY <2>1, <2>2, <2>3 DEF LeasesExclude
<1> QED BY <1>1, ProcessInvariant, PTL

-----------------------------------------------------------------------------
(* The form of a part.                                                     *)

FormTypes ==
  /\ form \in Forms /\ body \in [exact : BOOLEAN, signed : BOOLEAN]
  /\ parser \in [at : {"reading", "ended", "failed"}, seen : Seq(Items)]
  /\ formError \in BOOLEAN /\ declared \in {"none", "right", "wrong"}
  /\ file \in {"none", "open", "read", "broken"}
  /\ multi \in Promise /\ inspect \in Promise
  /\ service \in {"none", "acquire", "prepare", "drain", "replay", "store", "confirm",
                  "confirmed", "replayed", "failed"}
  /\ store \in {"none", "reading", "stored", "rejected"} /\ first \in BOOLEAN

(* What the route has found out about the form: a promise that is settled  *)
(* well is settled after the last item.                                    *)
RouteInv ==
  /\ multi = "pending" <=> parser.at = "reading"
  /\ multi = "ok" => parser.at = "ended" /\ ~formError /\ declared = "right" /\ file # "none"
  /\ parser.at = "ended" => file # "open"
  /\ file # "none" => "file" \in Range(parser.seen)

(* What the service has found out about the bytes, and when.               *)
BytesInv ==
  /\ file = "none" <=> service = "none"
  /\ service \in {"none", "acquire", "prepare", "drain", "replay", "replayed"} => store = "none"
  /\ service = "store" => store # "none"
  /\ store = "stored" => file = "read" /\ body.exact
  /\ inspect # "pending" =>
       file \in {"read", "broken"} /\ service \notin {"none", "acquire", "prepare", "drain"}
  /\ inspect = "ok" =>
       /\ file = "read" /\ body.exact
       /\ service \in {"store", "confirm", "confirmed"} => (first => body.signed)
  /\ service \in {"confirm", "confirmed"} => store = "stored"
  /\ service \in {"confirm", "confirmed", "replayed"} => inspect = "ok" /\ multi = "ok"
  /\ service = "failed" => file # "open"

FormInv == FormTypes /\ RouteInv /\ BytesInv

-----------------------------------------------------------------------------
(* A form that has not arrived gets shorter.                               *)
LEMMA TailForm ==
  ASSUME MaxItems \in Nat, NEW f \in Forms, f # << >>
  PROVE  Tail(f) \in Forms /\ Head(f) \in Items /\ f \in Seq(Items)
<1>1. PICK n \in 0..MaxItems : f \in [1..n -> Items]
  BY DEF Forms
<1>2. f \in Seq(Items) /\ Len(f) = n
  BY <1>1
<1>3. n # 0
  BY <1>2
<1>4. Tail(f) \in [1..(n - 1) -> Items]
  <2>1. Tail(f) \in Seq(Items) /\ Len(Tail(f)) = n - 1
    BY <1>2, HeadTailProperties
  <2> QED BY <2>1, LenProperties
<1>5. n - 1 \in 0..MaxItems
  BY <1>3
<1> QED BY <1>2, <1>4, <1>5, HeadTailProperties DEF Forms

(* The parser remembers every item it has passed.                          *)
LEMMA SeenItem ==
  ASSUME NEW seen \in Seq(Items), NEW item \in Items
  PROVE  /\ Append(seen, item) \in Seq(Items)
         /\ item \in Range(Append(seen, item))
         /\ Range(seen) \subseteq Range(Append(seen, item))
<1>1. /\ Append(seen, item) \in Seq(Items)
      /\ Len(Append(seen, item)) = Len(seen) + 1
      /\ Append(seen, item)[Len(seen) + 1] = item
      /\ \A i \in 1..Len(seen) : Append(seen, item)[i] = seen[i]
  BY AppendProperties
<1>2. DOMAIN seen = 1..Len(seen) /\ DOMAIN Append(seen, item) = 1..(Len(seen) + 1) /\ Len(seen) \in Nat
  BY <1>1, LenProperties
<1> QED BY <1>1, <1>2 DEF Range

LEMMA FormBegins == FormInit => FormInv
<1> SUFFICES ASSUME FormInit PROVE FormInv
  OBVIOUS
<1>1. parser \in [at : {"reading", "ended", "failed"}, seen : Seq(Items)]
  BY DEF FormInit
<1> QED BY <1>1 DEF FormInit, FormInv, FormTypes, RouteInv, BytesInv, Promise

-----------------------------------------------------------------------------
(* The route's steps.                                                      *)

LEMMA ItemPassed ==
  ASSUME FormInv, form # << >>, parser.at = "reading", Taken
  PROVE  /\ form' \in Forms
         /\ parser' \in [at : {"reading", "ended", "failed"}, seen : Seq(Items)]
         /\ parser'.at = "reading"
         /\ "file" \in Range(parser.seen) \/ Head(form) = "file" => "file" \in Range(parser'.seen)
<1>1. form' \in Forms /\ Head(form) \in Items
  BY FormAssumption, TailForm DEF FormInv, FormTypes, Taken
<1>2. parser.seen \in Seq(Items)
  BY DEF FormInv, FormTypes
<1>3. /\ parser'.at = parser.at /\ parser'.seen = Append(parser.seen, Head(form))
      /\ parser' \in [at : {"reading", "ended", "failed"}, seen : Seq(Items)]
  BY <1>1, <1>2, SeenItem DEF FormInv, FormTypes, Taken
<1> QED BY <1>1, <1>2, <1>3, SeenItem

LEMMA RouteKeeps ==
  ASSUME FormInv, FileArrives \/ FieldArrives \/ ParseFails \/ FormEnds
  PROVE  FormInv'
<1>1. CASE FileArrives
  <2>1. /\ form' \in Forms
        /\ parser' \in [at : {"reading", "ended", "failed"}, seen : Seq(Items)]
        /\ parser'.at = "reading" /\ "file" \in Range(parser'.seen)
    BY <1>1, ItemPassed DEF FileArrives
  <2>2. file = "none" /\ service = "none"
    BY <1>1 DEF FileArrives, OverLimit, FormInv, RouteInv, BytesInv
  <2>3. UNCHANGED <<file, service>> \/ (file' = "open" /\ service' = "acquire")
    BY <1>1 DEF FileArrives
  <2>4. UNCHANGED <<body, formError, declared, multi, store, inspect, first>>
    BY <1>1 DEF FileArrives
  <2>5. FormTypes'
    BY <2>1, <2>3, <2>4 DEF FormInv, FormTypes
  <2>6. RouteInv'
    BY <1>1, <2>1, <2>4 DEF FileArrives, FormInv, RouteInv
  <2>7. BytesInv'
    BY <2>2, <2>3, <2>4 DEF FormInv, BytesInv
  <2> QED BY <2>5, <2>6, <2>7 DEF FormInv
<1>2. CASE FieldArrives
  <2>1. /\ form' \in Forms
        /\ parser' \in [at : {"reading", "ended", "failed"}, seen : Seq(Items)]
        /\ parser'.at = "reading"
        /\ "file" \in Range(parser.seen) => "file" \in Range(parser'.seen)
    BY <1>2, ItemPassed DEF FieldArrives
  <2>2. /\ formError' \in BOOLEAN /\ declared' \in {"none", "right", "wrong"}
        /\ UNCHANGED <<body, file, multi, service, store, inspect, first>>
    BY <1>2 DEF FieldArrives, FormInv, FormTypes
  <2>3. multi = "pending"
    BY <1>2 DEF FieldArrives, FormInv, RouteInv
  <2>4. FormTypes'
    BY <2>1, <2>2 DEF FormInv, FormTypes
  <2>5. parser.at = "reading"
    BY <2>3 DEF FormInv, RouteInv
  <2>6. RouteInv'
    BY <2>1, <2>2, <2>3, <2>5 DEF FormInv, RouteInv
  <2>7. BytesInv'
    BY <2>2 DEF FormInv, BytesInv
  <2> QED BY <2>4, <2>6, <2>7 DEF FormInv
<1>3. CASE ParseFails
  <2>1. /\ parser' \in [at : {"reading", "ended", "failed"}, seen : Seq(Items)]
        /\ parser'.at = "failed" /\ parser'.seen = parser.seen /\ parser.at = "reading" /\ multi' = "error"
    BY <1>3 DEF ParseFails, FormInv, FormTypes
  <2>2. /\ file' = IF file = "open" THEN "broken" ELSE file
        /\ UNCHANGED <<form, body, formError, declared, service, store, inspect, first>>
    BY <1>3 DEF ParseFails
  <2>3. FormTypes'
    BY <2>1, <2>2 DEF FormInv, FormTypes, Promise
  <2>4. RouteInv'
    BY <2>1, <2>2 DEF FormInv, RouteInv
  <2>5. BytesInv'
    BY <2>1, <2>2 DEF FormInv, RouteInv, BytesInv
  <2> QED BY <2>3, <2>4, <2>5 DEF FormInv
<1>4. CASE FormEnds
  <2>1. /\ parser' \in [at : {"reading", "ended", "failed"}, seen : Seq(Items)]
        /\ parser'.at = "ended" /\ parser'.seen = parser.seen /\ parser.at = "reading" /\ file # "open"
    BY <1>4 DEF FormEnds, FormInv, FormTypes, Passed
  <2>2. /\ multi' = IF ~formError /\ declared = "right" /\ file # "none" THEN "ok" ELSE "error"
        /\ UNCHANGED <<form, body, formError, declared, file, service, store, inspect, first>>
    BY <1>4 DEF FormEnds
  <2>3. FormTypes'
    BY <2>1, <2>2 DEF FormInv, FormTypes, Promise
  <2>4. RouteInv'
    BY <2>1, <2>2 DEF FormInv, RouteInv
  <2>5. BytesInv'
    BY <2>1, <2>2 DEF FormInv, RouteInv, BytesInv
  <2> QED BY <2>3, <2>4, <2>5 DEF FormInv
<1> QED BY <1>1, <1>2, <1>3, <1>4

-----------------------------------------------------------------------------
(* The service's steps.                                                    *)

LEMMA BytesKeep ==
  ASSUME FormInv, BodyRead \/ BodyBroken \/ Stored \/ StoreRejected
  PROVE  FormInv'
<1>1. CASE BodyRead
  <2>1. /\ file = "open" /\ file' = "read" /\ inspect' = Inspected
        /\ UNCHANGED <<form, body, parser, formError, declared, multi, service, store, first>>
    BY <1>1 DEF BodyRead
  <2>2. Reader
    BY <1>1 DEF BodyRead
  <2>3. Inspected \in Promise
    BY DEF Inspected, Promise
  <2>4. BytesInv'
    BY <2>1, <2>2 DEF FormInv, BytesInv, Reader, Inspected
  <2> QED BY <2>1, <2>3, <2>4 DEF FormInv, FormTypes, RouteInv
<1>2. CASE BodyBroken
  BY <1>2 DEF BodyBroken, FormInv, FormTypes, RouteInv, BytesInv, Promise
<1>3. CASE Stored
  BY <1>3 DEF Stored, FormInv, FormTypes, RouteInv, BytesInv
<1>4. CASE StoreRejected
  BY <1>4 DEF StoreRejected, FormInv, FormTypes, RouteInv, BytesInv
<1> QED BY <1>1, <1>2, <1>3, <1>4

LEMMA ServiceKeeps ==
  ASSUME FormInv, Leases \/ Prepares \/ StoreSettles \/ confirmPart \/ ReplaySettles \/ Drained
  PROVE  FormInv'
<1>1. CASE Leases
  BY <1>1 DEF Leases, FormInv, FormTypes, RouteInv, BytesInv
<1>2. CASE Prepares
  BY <1>2 DEF Prepares, FormInv, FormTypes, RouteInv, BytesInv
<1>3. CASE StoreSettles
  BY <1>3 DEF StoreSettles, End, FormOk, FormInv, FormTypes, RouteInv, BytesInv
<1>4. CASE confirmPart
  BY <1>4 DEF confirmPart, End, FormInv, FormTypes, RouteInv, BytesInv
<1>5. CASE ReplaySettles
  BY <1>5 DEF ReplaySettles, End, FormOk, FormInv, FormTypes, RouteInv, BytesInv
<1>6. CASE Drained
  BY <1>6 DEF Drained, End, FormInv, FormTypes, RouteInv, BytesInv
<1> QED BY <1>1, <1>2, <1>3, <1>4, <1>5, <1>6

-----------------------------------------------------------------------------
(* The inductive invariant: what the three promises of a part request tell *)
(* about each other in whichever order they settle.                        *)
THEOREM FormInvariant == FormSpec => []FormInv
<1>1. FormInv /\ [FormNext]_formVars => FormInv'
  <2> SUFFICES ASSUME FormInv, [FormNext]_formVars PROVE FormInv'
    OBVIOUS
  <2>1. CASE FormNext
    BY <2>1, RouteKeeps, BytesKeep, ServiceKeeps DEF FormNext
  <2>2. CASE UNCHANGED formVars
    BY <2>2 DEF formVars, FormInv, FormTypes, RouteInv, BytesInv
  <2> QED BY <2>1, <2>2
<1> QED BY <1>1, FormBegins, PTL DEF FormSpec

(* The variables keep their types.                                         *)
THEOREM FormTyping == FormSpec => []FormTypeOK
<1>1. FormInv => FormTypeOK
  <2> SUFFICES ASSUME FormInv PROVE FormTypeOK
    OBVIOUS
  <2>1. parser.at \in {"reading", "ended", "failed"} /\ parser.seen \in Seq(Items)
    BY DEF FormInv, FormTypes
  <2>2. Range(parser.seen) \subseteq Items
    BY <2>1, LenProperties DEF Range
  <2> QED BY <2>1, <2>2 DEF FormInv, FormTypes, FormTypeOK
<1> QED BY <1>1, FormInvariant, PTL

(* Whichever promise settles first, a part is confirmed only for a form    *)
(* that ended well and for bytes of the right length, digest and, in the   *)
(* first part, signature.                                                  *)
THEOREM ConfirmedAreWhole == FormSpec => []ConfirmedIsWhole
<1>1. FormInv => ConfirmedIsWhole
  BY DEF FormInv, RouteInv, BytesInv, ConfirmedIsWhole
<1> QED BY <1>1, FormInvariant, PTL

(* The file's bytes always have a reader once the service has decided what *)
(* to do with them: the form can always go on to its end.                  *)
THEOREM BodiesAreRead == FormSpec => []BodyHasReader
<1>1. FormInv => BodyHasReader
  BY DEF FormInv, FormTypes, RouteInv, BytesInv, BodyHasReader, Reader
<1> QED BY <1>1, FormInvariant, PTL

-----------------------------------------------------------------------------
(* The row locks: what a transaction may want in the same statement as a   *)
(* lock or after it.                                                       *)
Follows(a, b) ==
  LET shared == b.table = "session" /\ b.mode = "keyShare"
  IN /\ a.table = "identity" => b.table = "user" /\ b.mode = "update"
     /\ a.table = "family" =>
          \/ b.table = "session" /\ b.mode = "noKeyUpdate" /\ FamilyOf[b.id] = a.id
          \/ b.table = "user" /\ b.mode = "share"
     /\ a.table = "user" /\ a.mode = "update" =>
          shared \/ (b.table = "upload" /\ AccountOf[b.id] = a.id)
     /\ a.table = "user" /\ a.mode = "noKeyUpdate" => shared \/ b.table = "key"
     /\ a.table = "user" /\ a.mode = "share" => b.table \in {"session", "media", "upload", "part", "key"}
     /\ a.table = "user" /\ a.mode = "keyShare" => shared
     /\ a.table = "session" /\ a.mode = "noKeyUpdate" =>
          b.table = "session" \/ (b.table = "user" /\ b.mode \in {"share", "keyShare"})
     /\ a.table = "media" => shared \/ b.table \in {"upload", "part", "key"}
     /\ a.table = "upload" => shared \/ b.table \in {"upload", "part", "key"}
     /\ a.table = "part" => shared \/ b.table \in {"part", "key"}
     /\ a.table = "key" => shared

UserUpdate(a) == a.table = "user" /\ a.mode = "update"
Touched(a) == a.table = "session" /\ a.mode = "noKeyUpdate"

(* What all transactions but the cleaner's want: as strong as it is, in     *)
(* which order, and what comes before it.                                  *)
Strengths(P) ==
  \A a \in P :
    /\ a.mode = "update" \/ a.table \in {"user", "upload", "part", "session"}
    /\ a.table \in {"upload", "part"} => a.mode \in {"update", "noKeyUpdate"}
    /\ a.table = "session" => a.mode \in {"keyShare", "noKeyUpdate"}
Ordered(P) == \A a, b \in P : a # b /\ a.at <= b.at => Follows(a, b)
Guarded(P) ==
  /\ \A b \in P : b.table = "part" =>
       \E a \in P : a.table = "upload" /\ a.id = b.id[1] /\ a.at < b.at
  /\ \A a, b \in P : a.table = "family" /\ Touched(b) => a.at < b.at
  /\ \A a, b \in P : UserUpdate(a) /\ b.table = "upload" => a.at < b.at
Single(P) ==
  /\ \A b \in P : Touched(b) =>
       \/ \E a \in P : a.table = "family"
       \/ \A a \in P : a # b => b.at < a.at
  /\ \A a, b \in P : a # b /\ a.table = "upload" /\ b.table = "upload" => \E c \in P : UserUpdate(c)
Orderly(P) == Strengths(P) /\ Ordered(P) /\ Guarded(P) /\ Single(P)

-----------------------------------------------------------------------------
(* What each transaction locks, but for the cleaner's, is orderly.         *)

LEMMA LoginOrderly ==
  ASSUME NEW x \in Accounts
  PROVE  Orderly(LoginLocks(x)) /\ LoginLocks(x) \subseteq Wanted
<1> DEFINE P == LoginLocks(x)
<1>1. P \subseteq Wanted
  BY LocksAssumption DEF LoginLocks, Want, Wanted, Tables, Ids
<1>2. Strengths(P) /\ Ordered(P)
  <2>1. Strengths(P)
    BY DEF LoginLocks, Want, Strengths
  <2>2. Ordered(P)
    BY DEF LoginLocks, Want, Ordered, Follows
  <2> QED BY <2>1, <2>2
<1>3. Guarded(P)
  BY DEF LoginLocks, Want, Guarded, UserUpdate, Touched
<1>4. Single(P)
  BY DEF LoginLocks, Want, Single, UserUpdate, Touched
<1> QED BY <1>1, <1>2, <1>3, <1>4 DEF Orderly

LEMMA RotationOrderly ==
  ASSUME NEW s \in SessionIds
  PROVE  Orderly(RotationLocks(s)) /\ RotationLocks(s) \subseteq Wanted
<1> DEFINE P == RotationLocks(s)
<1>1. P \subseteq Wanted
  BY LocksAssumption DEF RotationLocks, Siblings, Want, Wanted, Tables, Ids
<1>2. Strengths(P) /\ Ordered(P)
  <2>1. Strengths(P)
    BY DEF RotationLocks, Siblings, Want, Strengths
  <2>2. Ordered(P)
    BY DEF RotationLocks, Siblings, Want, Ordered, Follows
  <2> QED BY <2>1, <2>2
<1>3. Guarded(P)
  BY DEF RotationLocks, Siblings, Want, Guarded, UserUpdate, Touched
<1>4. Single(P)
  <2>1. Want(1, "family", FamilyOf[s], "update") \in P
    BY DEF RotationLocks, Siblings
  <2>2. \A b \in P : b.table # "upload"
    BY DEF RotationLocks, Siblings, Want, Touched
  <2> QED BY <2>1, <2>2 DEF Single, Want, UserUpdate
<1> QED BY <1>1, <1>2, <1>3, <1>4 DEF Orderly

LEMMA LogoutOrderly ==
  ASSUME NEW s \in SessionIds, NEW r \in SessionIds
  PROVE  Orderly(LogoutLocks(s, r)) /\ LogoutLocks(s, r) \subseteq Wanted
<1> DEFINE P == LogoutLocks(s, r)
<1>1. P \subseteq Wanted
  BY LocksAssumption DEF LogoutLocks, Audited, Want, Wanted, Tables, Ids
<1>2. Strengths(P) /\ Ordered(P)
  <2>1. Strengths(P)
    BY DEF LogoutLocks, Audited, Want, Strengths
  <2>2. Ordered(P)
    BY DEF LogoutLocks, Audited, Want, Ordered, Follows
  <2> QED BY <2>1, <2>2
<1>3. Guarded(P)
  BY DEF LogoutLocks, Audited, Want, Guarded, UserUpdate, Touched
<1>4. Single(P)
  BY DEF LogoutLocks, Audited, Want, Single, UserUpdate, Touched
<1> QED BY <1>1, <1>2, <1>3, <1>4 DEF Orderly

LEMMA NicknameOrderly ==
  ASSUME NEW s \in SessionIds
  PROVE  Orderly(NicknameLocks(s)) /\ NicknameLocks(s) \subseteq Wanted
<1> DEFINE P == NicknameLocks(s)
<1>1. P \subseteq Wanted
  BY LocksAssumption DEF NicknameLocks, Audited, Want, Wanted, Tables, Ids
<1>2. Strengths(P) /\ Ordered(P)
  <2>1. Strengths(P)
    BY DEF NicknameLocks, Audited, Want, Strengths
  <2>2. Ordered(P)
    BY DEF NicknameLocks, Audited, Want, Ordered, Follows
  <2> QED BY <2>1, <2>2
<1>3. Guarded(P)
  BY DEF NicknameLocks, Audited, Want, Guarded, UserUpdate, Touched
<1>4. Single(P)
  BY DEF NicknameLocks, Audited, Want, Single, UserUpdate, Touched
<1> QED BY <1>1, <1>2, <1>3, <1>4 DEF Orderly

LEMMA InitializationOrderly ==
  ASSUME NEW s \in SessionIds, NEW k \in KeyIds
  PROVE  Orderly(InitializationLocks(s, k)) /\ InitializationLocks(s, k) \subseteq Wanted
<1> DEFINE P == InitializationLocks(s, k)
<1>1. P \subseteq Wanted
  BY LocksAssumption DEF InitializationLocks, Audited, Want, Wanted, Tables, Ids
<1>2. Strengths(P) /\ Ordered(P)
  <2>1. Strengths(P)
    BY DEF InitializationLocks, Audited, Want, Strengths
  <2>2. Ordered(P)
    BY DEF InitializationLocks, Audited, Want, Ordered, Follows
  <2> QED BY <2>1, <2>2
<1>3. Guarded(P)
  BY DEF InitializationLocks, Audited, Want, Guarded, UserUpdate, Touched
<1>4. Single(P)
  BY DEF InitializationLocks, Audited, Want, Single, UserUpdate, Touched
<1> QED BY <1>1, <1>2, <1>3, <1>4 DEF Orderly

LEMMA LifecycleOrderly ==
  ASSUME NEW s \in SessionIds, NEW u \in UploadIds, NEW k \in KeyIds
  PROVE  Orderly(LifecycleLocks(s, u, k)) /\ LifecycleLocks(s, u, k) \subseteq Wanted
<1> DEFINE P == LifecycleLocks(s, u, k)
<1>1. P \subseteq Wanted
  BY LocksAssumption DEF LifecycleLocks, Audited, Want, Wanted, Tables, Ids
<1>2. Strengths(P) /\ Ordered(P)
  <2>1. Strengths(P)
    BY DEF LifecycleLocks, Audited, Want, Strengths
  <2>2. Ordered(P)
    BY DEF LifecycleLocks, Audited, Want, Ordered, Follows
  <2> QED BY <2>1, <2>2
<1>3. Guarded(P)
  BY DEF LifecycleLocks, Audited, Want, Guarded, UserUpdate, Touched
<1>4. Single(P)
  BY DEF LifecycleLocks, Audited, Want, Single, UserUpdate, Touched
<1> QED BY <1>1, <1>2, <1>3, <1>4 DEF Orderly

LEMMA CompletionOrderly ==
  ASSUME NEW s \in SessionIds, NEW u \in UploadIds, NEW k \in KeyIds
  PROVE  Orderly(CompletionLocks(s, u, k)) /\ CompletionLocks(s, u, k) \subseteq Wanted
<1> DEFINE P == CompletionLocks(s, u, k)
<1>1. P \subseteq Wanted
  BY LocksAssumption DEF CompletionLocks, LifecycleLocks, PartsOf, Audited, Want, Wanted, Tables, Ids
<1>2. Strengths(P) /\ Ordered(P)
  <2>1. Strengths(P)
    BY DEF CompletionLocks, LifecycleLocks, PartsOf, Audited, Want, Strengths
  <2>2. Ordered(P)
    BY DEF CompletionLocks, LifecycleLocks, PartsOf, Audited, Want, Ordered, Follows
  <2> QED BY <2>1, <2>2
<1>3. Guarded(P)
  <2>1. Want(4, "upload", u, "update") \in P
    BY DEF CompletionLocks, LifecycleLocks, PartsOf, Audited, Want
  <2>2. \A b \in P : b.table = "part" => b.id[1] = u /\ 4 < b.at
    BY DEF CompletionLocks, LifecycleLocks, PartsOf, Audited, Want
  <2>3. \A a, b \in P : ~(a.table = "family" /\ Touched(b)) /\ ~(UserUpdate(a) /\ b.table = "upload")
    BY DEF CompletionLocks, LifecycleLocks, PartsOf, Audited, Want, UserUpdate, Touched
  <2> QED BY <2>1, <2>2, <2>3 DEF Guarded, Want
<1>4. Single(P)
  BY DEF CompletionLocks, LifecycleLocks, PartsOf, Audited, Want, Single, UserUpdate, Touched
<1> QED BY <1>1, <1>2, <1>3, <1>4 DEF Orderly

LEMMA PartOrderly ==
  ASSUME NEW s \in SessionIds, NEW u \in UploadIds, NEW Q \in SUBSET PartNumbers
  PROVE  Orderly(PartLocks(s, u, Q)) /\ PartLocks(s, u, Q) \subseteq Wanted
<1> DEFINE P == PartLocks(s, u, Q)
<1>1. P \subseteq Wanted
  BY LocksAssumption DEF PartLocks, PartsOf, Audited, Want, Wanted, Tables, Ids
<1>2. Strengths(P) /\ Ordered(P)
  <2>1. Strengths(P)
    BY DEF PartLocks, PartsOf, Audited, Want, Strengths
  <2>2. Ordered(P)
    BY DEF PartLocks, PartsOf, Audited, Want, Ordered, Follows
  <2> QED BY <2>1, <2>2
<1>3. Guarded(P)
  <2>1. Want(3, "upload", u, "update") \in P
    BY DEF PartLocks, PartsOf, Audited, Want
  <2>2. \A b \in P : b.table = "part" => b.id[1] = u /\ 3 < b.at
    BY DEF PartLocks, PartsOf, Audited, Want
  <2>3. \A a, b \in P : ~(a.table = "family" /\ Touched(b)) /\ ~(UserUpdate(a) /\ b.table = "upload")
    BY DEF PartLocks, PartsOf, Audited, Want, UserUpdate, Touched
  <2> QED BY <2>1, <2>2, <2>3 DEF Guarded, Want
<1>4. Single(P)
  BY DEF PartLocks, PartsOf, Audited, Want, Single, UserUpdate, Touched
<1> QED BY <1>1, <1>2, <1>3, <1>4 DEF Orderly

LEMMA ClearOrderly ==
  ASSUME NEW s \in SessionIds, NEW U \in SUBSET Own(s)
  PROVE  Orderly(ClearLocks(s, U)) /\ ClearLocks(s, U) \subseteq Wanted
<1> DEFINE P == ClearLocks(s, U)
<1>1. P \subseteq Wanted
  BY LocksAssumption DEF ClearLocks, Own, Audited, Want, Wanted, Tables, Ids
<1>2. Strengths(P) /\ Ordered(P)
  <2>1. Strengths(P)
    BY DEF ClearLocks, Own, Audited, Want, Strengths
  <2>2. Ordered(P)
    BY DEF ClearLocks, Own, Audited, Want, Ordered, Follows
  <2> QED BY <2>1, <2>2
<1>3. Guarded(P)
  BY DEF ClearLocks, Own, Audited, Want, Guarded, UserUpdate, Touched
<1>4. Single(P)
  <2>1. Want(1, "user", AccountOf[s], "update") \in P
    BY DEF ClearLocks, Own, Audited
  <2>2. \A b \in P : ~Touched(b)
    BY DEF ClearLocks, Own, Audited, Want, Touched
  <2> QED BY <2>1, <2>2 DEF Single, Want, UserUpdate
<1> QED BY <1>1, <1>2, <1>3, <1>4 DEF Orderly

LEMMA DeletionOrderly ==
  ASSUME NEW s \in SessionIds, NEW u \in Own(s)
  PROVE  Orderly(DeletionLocks(s, u)) /\ DeletionLocks(s, u) \subseteq Wanted
<1> DEFINE P == DeletionLocks(s, u)
<1>1. P \subseteq Wanted
  BY LocksAssumption DEF DeletionLocks, Own, Audited, Want, Wanted, Tables, Ids
<1>2. Strengths(P) /\ Ordered(P)
  <2>1. Strengths(P)
    BY DEF DeletionLocks, Own, Audited, Want, Strengths
  <2>2. Ordered(P)
    BY DEF DeletionLocks, Own, Audited, Want, Ordered, Follows
  <2> QED BY <2>1, <2>2
<1>3. Guarded(P)
  BY DEF DeletionLocks, Own, Audited, Want, Guarded, UserUpdate, Touched
<1>4. Single(P)
  BY DEF DeletionLocks, Own, Audited, Want, Single, UserUpdate, Touched
<1> QED BY <1>1, <1>2, <1>3, <1>4 DEF Orderly

LEMMA ClaimOrderly ==
  ASSUME NEW u \in UploadIds
  PROVE  Orderly(ClaimLocks(u)) /\ ClaimLocks(u) \subseteq Wanted
<1> DEFINE P == ClaimLocks(u)
<1>1. P \subseteq Wanted
  BY LocksAssumption DEF ClaimLocks, Want, Wanted, Tables, Ids
<1>2. Strengths(P) /\ Ordered(P)
  <2>1. Strengths(P)
    BY DEF ClaimLocks, Want, Strengths
  <2>2. Ordered(P)
    BY DEF ClaimLocks, Want, Ordered, Follows
  <2> QED BY <2>1, <2>2
<1>3. Guarded(P)
  BY DEF ClaimLocks, Want, Guarded, UserUpdate, Touched
<1>4. Single(P)
  BY DEF ClaimLocks, Want, Single, UserUpdate, Touched
<1> QED BY <1>1, <1>2, <1>3, <1>4 DEF Orderly

LEMMA FinalizationOrderly ==
  ASSUME NEW u \in UploadIds
  PROVE  Orderly(FinalizationLocks(u)) /\ FinalizationLocks(u) \subseteq Wanted
<1> DEFINE P == FinalizationLocks(u)
<1>1. P \subseteq Wanted
  BY LocksAssumption DEF FinalizationLocks, PartsOf, Want, Wanted, Tables, Ids
<1>2. Strengths(P) /\ Ordered(P)
  <2>1. Strengths(P)
    BY DEF FinalizationLocks, PartsOf, Want, Strengths
  <2>2. Ordered(P)
    BY DEF FinalizationLocks, PartsOf, Want, Ordered, Follows
  <2> QED BY <2>1, <2>2
<1>3. Guarded(P)
  <2>1. Want(2, "upload", u, "update") \in P
    BY DEF FinalizationLocks, PartsOf, Want
  <2>2. \A b \in P : b.table = "part" => b.id[1] = u /\ 2 < b.at
    BY DEF FinalizationLocks, PartsOf, Want
  <2>3. \A a, b \in P : ~(a.table = "family" /\ Touched(b)) /\ ~(UserUpdate(a) /\ b.table = "upload")
    BY DEF FinalizationLocks, PartsOf, Want, UserUpdate, Touched
  <2> QED BY <2>1, <2>2, <2>3 DEF Guarded, Want
<1>4. Single(P)
  BY DEF FinalizationLocks, PartsOf, Want, Single, UserUpdate, Touched
<1> QED BY <1>1, <1>2, <1>3, <1>4 DEF Orderly

LEMMA AbortOrderly ==
  ASSUME NEW u \in UploadIds, NEW k \in KeyIds
  PROVE  Orderly(AbortLocks(u, k)) /\ AbortLocks(u, k) \subseteq Wanted
<1> DEFINE P == AbortLocks(u, k)
<1>1. P \subseteq Wanted
  BY LocksAssumption DEF AbortLocks, Want, Wanted, Tables, Ids
<1>2. Strengths(P) /\ Ordered(P)
  <2>1. Strengths(P)
    BY DEF AbortLocks, Want, Strengths
  <2>2. Ordered(P)
    BY DEF AbortLocks, Want, Ordered, Follows
  <2> QED BY <2>1, <2>2
<1>3. Guarded(P)
  BY DEF AbortLocks, Want, Guarded, UserUpdate, Touched
<1>4. Single(P)
  BY DEF AbortLocks, Want, Single, UserUpdate, Touched
<1> QED BY <1>1, <1>2, <1>3, <1>4 DEF Orderly

LEMMA ReconciliationOrderly ==
  ASSUME NEW u \in UploadIds, NEW k \in KeyIds
  PROVE  Orderly(ReconciliationLocks(u, k)) /\ ReconciliationLocks(u, k) \subseteq Wanted
<1> DEFINE P == ReconciliationLocks(u, k)
<1>1. P \subseteq Wanted
  BY LocksAssumption DEF ReconciliationLocks, Want, Wanted, Tables, Ids
<1>2. Strengths(P) /\ Ordered(P)
  <2>1. Strengths(P)
    BY DEF ReconciliationLocks, Want, Strengths
  <2>2. Ordered(P)
    BY DEF ReconciliationLocks, Want, Ordered, Follows
  <2> QED BY <2>1, <2>2
<1>3. Guarded(P)
  BY DEF ReconciliationLocks, Want, Guarded, UserUpdate, Touched
<1>4. Single(P)
  BY DEF ReconciliationLocks, Want, Single, UserUpdate, Touched
<1> QED BY <1>1, <1>2, <1>3, <1>4 DEF Orderly

-----------------------------------------------------------------------------
(* Who waits for whom: statements lock in turn, and no two transactions    *)
(* have locks that clash.                                                  *)

InTurn == \A t \in Transactions : \A a \in txn[t].has, b \in txn[t].wants :
            b.at < a.at => b \in txn[t].has
Excluded == \A t, o \in Transactions : t # o => \A a \in txn[t].has, b \in txn[o].has : ~Clash(a, b)
RowLocksInv ==
  /\ LocksTypeOK /\ InTurn /\ Excluded
  /\ \A t \in Transactions : ~txn[t].cleaner => Orderly(txn[t].wants)

(* How far a transaction is that waits for a lock.                         *)
Rank(P, a) ==
  IF a.table \in {"identity", "family"} THEN 0
  ELSE IF a.table = "user" THEN IF a.mode \in {"update", "noKeyUpdate"} THEN 1 ELSE 4
  ELSE IF a.table = "session"
       THEN IF ~Touched(a) THEN 10 ELSE IF \E b \in P : b.table = "family" THEN 3 ELSE 2
  ELSE IF a.table = "media" THEN 5
  ELSE IF a.table = "upload" THEN IF \E b \in P : UserUpdate(b) THEN 7 ELSE 6
  ELSE IF a.table = "part" THEN 8
  ELSE 9

LEMMA RankBounds == ASSUME NEW P, NEW a PROVE Rank(P, a) \in 0..10
BY DEF Rank

LEMMA CurrentLock ==
  ASSUME RowLocksInv, NEW t \in Transactions, NEW a \in Current(t)
  PROVE  /\ a \in txn[t].wants /\ a \notin txn[t].has /\ a \in Wanted /\ a.at \in Nat
         /\ \A b \in txn[t].wants : b \in Wanted /\ b.at \in Nat /\ (b.at < a.at => b \in txn[t].has)
         /\ \A b \in txn[t].has : b \in txn[t].wants /\ b # a /\ b.at <= a.at
<1>1. a \in txn[t].wants /\ a \notin txn[t].has
  BY DEF Current
<1>2. txn[t].wants \subseteq Wanted /\ txn[t].has \subseteq txn[t].wants
  BY DEF RowLocksInv, LocksTypeOK
<1>3. \A b \in txn[t].wants : b \in Wanted /\ b.at \in Nat
  BY <1>2 DEF Wanted
<1>4. \A b \in txn[t].wants : b.at < a.at => b \in txn[t].has
  BY <1>1, <1>3 DEF Current
<1>5. \A b \in txn[t].has : b.at <= a.at
  BY <1>1, <1>2, <1>3 DEF RowLocksInv, InTurn
<1> QED BY <1>1, <1>2, <1>3, <1>4, <1>5

(* Whoever has the lock that a transaction waits for, and waits itself,    *)
(* is further than that transaction.                                       *)
LEMMA WaitingRaisesRank ==
  ASSUME RowLocksInv, NEW t \in Transactions, NEW o \in Transactions, t # o,
         ~txn[t].cleaner, ~txn[o].cleaner,
         NEW a \in Current(t), NEW h \in txn[o].has, Clash(a, h), NEW b \in Current(o)
  PROVE  Rank(txn[t].wants, a) < Rank(txn[o].wants, b)
<1> DEFINE P == txn[t].wants  Q == txn[o].wants
<1>1. /\ a \in P /\ a \notin txn[t].has /\ a \in Wanted /\ a.at \in Nat
      /\ \A c \in P : c.at \in Nat /\ (c.at < a.at => c \in txn[t].has)
  BY CurrentLock
<1>2. /\ b \in Q /\ b \notin txn[o].has /\ b \in Wanted /\ b.at \in Nat
      /\ \A c \in Q : c.at \in Nat /\ (c.at < b.at => c \in txn[o].has)
      /\ h \in Q /\ h # b /\ h.at <= b.at
  BY CurrentLock
<1>3. a.table = h.table /\ a.id = h.id /\ ~Compatible(a.mode, h.mode)
  BY DEF Clash
<1>4. Strengths(P) /\ Ordered(P) /\ Guarded(P) /\ Single(P)
      /\ Strengths(Q) /\ Ordered(Q) /\ Guarded(Q) /\ Single(Q)
  BY DEF RowLocksInv, Orderly
<1>5. Follows(h, b)
  BY <1>2, <1>4 DEF Ordered
<1>6. \A c \in txn[t].has, d \in txn[o].has : ~Clash(c, d)
  BY DEF RowLocksInv, Excluded
<1>7. /\ a.table \in Tables /\ b.table \in Tables
      /\ a.mode \in {"keyShare", "share", "noKeyUpdate", "update"}
      /\ h.mode \in {"keyShare", "share", "noKeyUpdate", "update"}
  BY <1>1, <1>2, CurrentLock DEF Wanted
<1>8. CASE a.table \in {"identity", "family"}
  BY <1>3, <1>5, <1>8 DEF Follows, Rank, Touched
<1>9. CASE a.table = "user"
  <2>1. CASE a.mode \in {"update", "noKeyUpdate"}
    BY <1>2, <1>3, <1>4, <1>5, <1>7, <1>9, <2>1 DEF Follows, Rank, Touched, Strengths
  <2>2. CASE a.mode \in {"share", "keyShare"}
    <3>1. h.mode \in {"update", "noKeyUpdate"}
      BY <1>3, <1>7, <2>2 DEF Compatible
    <3> QED BY <1>2, <1>3, <1>5, <1>9, <2>2, <3>1 DEF Follows, Rank, Touched, UserUpdate
  <2> QED BY <1>7, <2>1, <2>2
<1>10. CASE a.table = "session"
  <2>1. Touched(a) /\ Touched(h)
    BY <1>1, <1>2, <1>3, <1>4, <1>7, <1>10 DEF Strengths, Compatible, Touched
  <2>2. b.table = "session" \/ (b.table = "user" /\ b.mode \in {"share", "keyShare"})
    BY <1>5, <2>1 DEF Follows, Touched
  <2>3. Rank(P, a) \in {2, 3}
    BY <1>10, <2>1 DEF Rank
  <2>4. CASE ~Touched(b)
    BY <2>2, <2>3, <2>4 DEF Rank
  <2>5. CASE Touched(b)
    <3>1. PICK g \in Q : g.table = "family"
      BY <1>2, <1>4, <2>1, <2>5 DEF Single
    <3>2. g \in txn[o].has /\ g.id = FamilyOf[h.id]
      <4>1. g.at < b.at /\ g.at < h.at
        BY <1>2, <1>4, <2>1, <2>5, <3>1 DEF Guarded
      <4>2. g # h /\ Follows(g, h)
        BY <1>2, <1>4, <2>1, <3>1, <4>1 DEF Ordered, Touched
      <4> QED BY <1>2, <2>1, <3>1, <4>1, <4>2 DEF Follows, Touched
    <3>3. ~\E f \in P : f.table = "family"
      <4> SUFFICES ASSUME NEW f \in P, f.table = "family" PROVE FALSE
        OBVIOUS
      <4>1. f.at < a.at
        BY <1>1, <1>4, <2>1 DEF Guarded
      <4>2. Follows(f, a) /\ f \in txn[t].has
        BY <1>1, <1>4, <2>1, <4>1 DEF Ordered, Touched
      <4>3. f.id = g.id
        BY <1>3, <2>1, <3>2, <4>2 DEF Follows, Touched
      <4>4. f.mode = "update" /\ g.mode = "update"
        BY <1>4, <3>1 DEF Strengths
      <4> QED BY <1>6, <3>1, <3>2, <4>2, <4>3, <4>4 DEF Clash, Compatible
    <3>4. Rank(P, a) = 2 /\ Rank(Q, b) = 3
      BY <1>10, <2>1, <2>5, <3>1, <3>3 DEF Rank, Touched
    <3> QED BY <3>4
  <2> QED BY <2>4, <2>5
<1>11. CASE a.table = "media"
  BY <1>3, <1>5, <1>11 DEF Follows, Rank, Touched
<1>12. CASE a.table = "upload"
  <2>1. CASE b.table # "upload"
    BY <1>3, <1>5, <1>12, <2>1 DEF Follows, Rank, Touched
  <2>2. CASE b.table = "upload"
    <3>1. PICK c \in Q : UserUpdate(c)
      BY <1>2, <1>3, <1>4, <1>12, <2>2 DEF Single
    <3>2. c.at < b.at /\ c.at < h.at
      BY <1>2, <1>3, <1>4, <1>12, <2>2, <3>1 DEF Guarded
    <3>3. c \in txn[o].has /\ AccountOf[h.id] = c.id
      <4>1. c # h /\ Follows(c, h)
        BY <1>2, <1>3, <1>4, <1>12, <3>1, <3>2 DEF Ordered, UserUpdate
      <4> QED BY <1>2, <1>3, <1>12, <3>1, <3>2, <4>1 DEF Follows, UserUpdate
    <3>4. ~\E d \in P : UserUpdate(d)
      <4> SUFFICES ASSUME NEW d \in P, UserUpdate(d) PROVE FALSE
        OBVIOUS
      <4>1. d.at < a.at
        BY <1>1, <1>4, <1>12 DEF Guarded
      <4>2. Follows(d, a) /\ d \in txn[t].has
        BY <1>1, <1>4, <1>12, <4>1 DEF Ordered, UserUpdate
      <4>3. d.id = c.id
        BY <1>3, <1>12, <3>3, <4>2 DEF Follows, UserUpdate
      <4> QED BY <1>6, <3>1, <3>3, <4>2, <4>3 DEF Clash, Compatible, UserUpdate
    <3> QED BY <1>12, <2>2, <3>1, <3>4 DEF Rank
  <2> QED BY <2>1, <2>2
<1>13. CASE a.table = "part"
  <2>1. PICK c \in P : c.table = "upload" /\ c.id = a.id[1] /\ c.at < a.at
    BY <1>1, <1>4, <1>13 DEF Guarded
  <2>2. PICK d \in Q : d.table = "upload" /\ d.id = h.id[1] /\ d.at < h.at
    BY <1>2, <1>3, <1>4, <1>13 DEF Guarded
  <2>3. c \in txn[t].has /\ d \in txn[o].has
    BY <1>1, <1>2, <2>1, <2>2
  <2>4. c.mode \in {"update", "noKeyUpdate"} /\ d.mode \in {"update", "noKeyUpdate"}
    BY <1>4, <2>1, <2>2 DEF Strengths
  <2> QED BY <1>3, <1>6, <2>1, <2>2, <2>3, <2>4 DEF Clash, Compatible
<1>14. CASE a.table = "key"
  BY <1>3, <1>5, <1>14 DEF Follows, Rank, Touched
<1> QED BY <1>7, <1>8, <1>9, <1>10, <1>11, <1>12, <1>13, <1>14 DEF Tables

-----------------------------------------------------------------------------
(* Each step keeps the locks in turn and apart.                            *)

LEMMA LocksBegin == LocksInit => RowLocksInv
<1> SUFFICES ASSUME LocksInit PROVE RowLocksInv
  OBVIOUS
<1>1. \A t \in Transactions : txn[t].wants = {} /\ txn[t].has = {} /\ txn[t].cleaner = FALSE
  BY DEF LocksInit, NoTransaction
<1>2. LocksTypeOK
  BY <1>1 DEF LocksInit, LocksTypeOK, NoTransaction
<1>3. Orderly({})
  BY DEF Orderly, Strengths, Ordered, Guarded, Single
<1> QED BY <1>1, <1>2, <1>3 DEF RowLocksInv, InTurn, Excluded

LEMMA StartKeepsInv ==
  ASSUME RowLocksInv, NEW t \in Transactions, NEW P, NEW cleaner \in BOOLEAN, TransactionStarts(t, P, cleaner),
         P \subseteq Wanted, ~cleaner => Orderly(P)
  PROVE  RowLocksInv'
<1>1. /\ txn' \in [Transactions -> [wants : SUBSET Wanted, has : SUBSET Wanted, cleaner : BOOLEAN]]
      /\ txn'[t].wants = P /\ txn'[t].has = {} /\ txn'[t].cleaner = cleaner
      /\ \A o \in Transactions \ {t} : txn'[o] = txn[o]
  BY DEF RowLocksInv, LocksTypeOK, TransactionStarts
<1> QED BY <1>1 DEF RowLocksInv, LocksTypeOK, InTurn, Excluded

LEMMA LockKeepsInv ==
  ASSUME RowLocksInv, NEW t \in Transactions, TakeLock(t)
  PROVE  RowLocksInv'
<1>1. PICK a \in Current(t) :
        /\ \A other \in Transactions \ {t} : ~Held(a, other)
        /\ txn' = [txn EXCEPT ![t].has = @ \union {a}]
  BY DEF TakeLock
<1>2. /\ a \in txn[t].wants /\ a \in Wanted /\ a.at \in Nat
      /\ \A b \in txn[t].wants : b.at < a.at => b \in txn[t].has
  BY CurrentLock
<1>3. txn \in [Transactions -> [wants : SUBSET Wanted, has : SUBSET Wanted, cleaner : BOOLEAN]]
  BY DEF RowLocksInv, LocksTypeOK
<1>4. /\ txn' \in [Transactions -> [wants : SUBSET Wanted, has : SUBSET Wanted, cleaner : BOOLEAN]]
      /\ txn'[t].wants = txn[t].wants /\ txn'[t].has = txn[t].has \union {a}
      /\ txn'[t].cleaner = txn[t].cleaner
      /\ \A o \in Transactions \ {t} : txn'[o] = txn[o]
  BY <1>1, <1>2, <1>3
<1>5. LocksTypeOK' /\ InTurn'
  BY <1>2, <1>4 DEF RowLocksInv, LocksTypeOK, InTurn
<1>6. Excluded'
  <2>1. \A o \in Transactions \ {t} : \A b \in txn[o].has : ~Clash(a, b) /\ ~Clash(b, a)
    BY <1>1 DEF Held, Clash, Compatible
  <2> QED BY <1>4, <2>1 DEF RowLocksInv, Excluded
<1> QED BY <1>4, <1>5, <1>6 DEF RowLocksInv

LEMMA EndKeepsInv ==
  ASSUME RowLocksInv, NEW t \in Transactions, TransactionEnds(t)
  PROVE  RowLocksInv'
<1>1. /\ txn' \in [Transactions -> [wants : SUBSET Wanted, has : SUBSET Wanted, cleaner : BOOLEAN]]
      /\ txn'[t].wants = {} /\ txn'[t].has = {}
      /\ \A o \in Transactions \ {t} : txn'[o] = txn[o]
  BY DEF RowLocksInv, LocksTypeOK, TransactionEnds, NoTransaction
<1>2. Orderly({})
  BY DEF Orderly, Strengths, Ordered, Guarded, Single
<1> QED BY <1>1, <1>2 DEF RowLocksInv, LocksTypeOK, InTurn, Excluded

LEMMA CleanerWants ==
  /\ \A K \in SUBSET KeyIds : KeyCleaning(K) \subseteq Wanted
  /\ \A U \in SUBSET UploadIds : PartCleaning(U) \subseteq Wanted
  /\ \A S \in SUBSET SessionIds : SessionCleaning(S) \subseteq Wanted
<1>1. \A K \in SUBSET KeyIds : KeyCleaning(K) \subseteq Wanted
  BY DEF KeyCleaning, Want, Wanted, Tables, Ids
<1>2. \A U \in SUBSET UploadIds : PartCleaning(U) \subseteq Wanted
  BY DEF PartCleaning, PartsOf, Want, Wanted, Tables, Ids
<1>3. \A S \in SUBSET SessionIds : SessionCleaning(S) \subseteq Wanted
  BY DEF SessionCleaning, Siblings, Want, Wanted, Tables, Ids
<1> QED BY <1>1, <1>2, <1>3

LEMMA LocksKept == RowLocksInv /\ [LocksNext]_locksVars => RowLocksInv'
<1> SUFFICES ASSUME RowLocksInv, [LocksNext]_locksVars PROVE RowLocksInv'
  OBVIOUS
<1>1. CASE UNCHANGED locksVars
  BY <1>1 DEF locksVars, RowLocksInv, LocksTypeOK, InTurn, Excluded
<1>2. ASSUME NEW t \in Transactions, AuthStarts(t) PROVE RowLocksInv'
  BY <1>2, LoginOrderly, RotationOrderly, LogoutOrderly, NicknameOrderly, StartKeepsInv DEF AuthStarts
<1>3. ASSUME NEW t \in Transactions, UploadStarts(t) PROVE RowLocksInv'
  <2>1. PICK s \in SessionIds :
          \/ \E k \in KeyIds : TransactionStarts(t, InitializationLocks(s, k), FALSE)
          \/ \E u \in Own(s), k \in KeyIds : TransactionStarts(t, LifecycleLocks(s, u, k), FALSE)
          \/ \E u \in Own(s), k \in KeyIds : TransactionStarts(t, CompletionLocks(s, u, k), FALSE)
          \/ \E u \in Own(s) : TransactionStarts(t, PartLocks(s, u, {}), FALSE)
          \/ \E u \in Own(s), p \in PartNumbers : TransactionStarts(t, PartLocks(s, u, {p}), FALSE)
          \/ \E U \in SUBSET Own(s) : TransactionStarts(t, ClearLocks(s, U), FALSE)
          \/ \E u \in Own(s) : TransactionStarts(t, DeletionLocks(s, u), FALSE)
    BY <1>3 DEF UploadStarts
  <2>2. Own(s) \subseteq UploadIds
    BY DEF Own
  <2>3. {} \in SUBSET PartNumbers /\ \A p \in PartNumbers : {p} \in SUBSET PartNumbers
    OBVIOUS
  <2>4. CASE \E u \in Own(s), k \in KeyIds :
               TransactionStarts(t, LifecycleLocks(s, u, k), FALSE) \/ TransactionStarts(t, CompletionLocks(s, u, k), FALSE)
    BY <2>2, <2>4, LifecycleOrderly, CompletionOrderly, StartKeepsInv
  <2>5. CASE \E u \in Own(s) : \/ TransactionStarts(t, PartLocks(s, u, {}), FALSE)
                              \/ \E p \in PartNumbers : TransactionStarts(t, PartLocks(s, u, {p}), FALSE)
    BY <2>2, <2>3, <2>5, PartOrderly, StartKeepsInv
  <2> QED BY <2>1, <2>4, <2>5, InitializationOrderly, ClearOrderly, DeletionOrderly, StartKeepsInv
<1>4. ASSUME NEW t \in Transactions, WorkerStarts(t) PROVE RowLocksInv'
  BY <1>4, ClaimOrderly, FinalizationOrderly, AbortOrderly, ReconciliationOrderly, StartKeepsInv
  DEF WorkerStarts
<1>5. ASSUME NEW t \in Transactions, CleanerStarts(t) PROVE RowLocksInv'
  BY <1>5, CleanerWants, StartKeepsInv DEF CleanerStarts
<1> QED BY <1>1, <1>2, <1>3, <1>4, <1>5, LockKeepsInv, EndKeepsInv DEF LocksNext

(* Among transactions that all wait for one of them the rank would grow    *)
(* without end, and it is at most ten.                                     *)
LEMMA NoCircle == RowLocksInv => NoServerDeadlock
<1> SUFFICES ASSUME RowLocksInv, NEW D \in SUBSET Transactions, D # {},
                    \A t \in D : \E other \in D : Waits(t, other),
                    \A t \in D : ~txn[t].cleaner
             PROVE  FALSE
  BY DEF NoServerDeadlock
<1> DEFINE Stuck(t, a) == \E other \in D : t # other /\ Held(a, other)
           Left(t, a) == 10 - Rank(txn[t].wants, a)
           All == {n \in Nat : \E t \in D : \E a \in Current(t) : Stuck(t, a) /\ n = Left(t, a)}
<1>1. \A t \in D : \E a \in Current(t) : Stuck(t, a)
  BY DEF Waits
<1>2. ASSUME NEW t \in D, NEW a \in Current(t), Stuck(t, a)
      PROVE  Left(t, a) \in All
  <2>1. Rank(txn[t].wants, a) \in 0..10
    BY RankBounds
  <2>2. Left(t, a) \in Nat
    BY <2>1
  <2> QED BY <1>2, <2>2
<1>3. All # {}
  BY <1>1, <1>2
<1>4. PICK n \in All : \A m \in All : ~(<<m, n>> \in OpToRel(<, Nat))
  <2>1. All \subseteq Nat
    OBVIOUS
  <2> HIDE DEF All
  <2> QED BY <1>3, <2>1, NatLessThanWellFounded, WFMin
<1>5. PICK t \in D : \E a \in Current(t) : Stuck(t, a) /\ n = Left(t, a)
  OBVIOUS
<1>6. PICK a \in Current(t) : Stuck(t, a) /\ n = Left(t, a)
  BY <1>5
<1>7. PICK o \in D : t # o /\ Held(a, o)
  BY <1>6
<1>8. PICK b \in Current(o) : Stuck(o, b)
  BY <1>1
<1>9. Rank(txn[t].wants, a) < Rank(txn[o].wants, b)
  BY <1>7, WaitingRaisesRank DEF Held
<1>10. Left(o, b) \in All /\ Left(o, b) < n /\ n \in Nat
  BY <1>2, <1>6, <1>8, <1>9, RankBounds
<1> QED BY <1>4, <1>10 DEF OpToRel

(* The variables of the locks have their types.                            *)
THEOREM LocksTyped == LocksSpec => []LocksTypeOK
<1>1. RowLocksInv => LocksTypeOK
  BY DEF RowLocksInv
<1> QED BY <1>1, LocksBegin, LocksKept, PTL DEF LocksSpec

-----------------------------------------------------------------------------
(* Handlers and workers of the service never wait for each other's rows in *)
(* a circle, however many there are and wherever each of them stops: every *)
(* circle of waiting transactions has one of the retention cleaner in it.  *)
THEOREM HandlersDoNotDeadlock == LocksSpec => []NoServerDeadlock
BY LocksBegin, LocksKept, NoCircle, PTL DEF LocksSpec
-----------------------------------------------------------------------------
(* The run explores the modules side by side; each of its behaviours is    *)
(* one of every module.                                                    *)

(* The modules start and step as they do alone.                            *)
LEMMA SideStarts == Init => HistoryInit /\ AuthInit /\ ProcessInit /\ FormInit /\ LocksInit
BY DEF Init

LEMMA SideSteps ==
  [Next]_vars => /\ [HistoryNext]_historyVars /\ [AuthNext]_authVars /\ [ProcessNext]_processVars
                 /\ [FormNext]_formVars /\ [LocksNext]_locksVars
BY DEF Next, vars

(* Every behaviour of the run is one of each module: what is proved of a   *)
(* module's specification holds in the run.                                *)
THEOREM ServiceComposes ==
  Spec => HistorySpec /\ AuthSpec /\ ProcessSpec /\ FormSpec /\ LocksSpec
BY SideStarts, SideSteps, PTL DEF Spec, HistorySpec, AuthSpec, ProcessSpec, FormSpec, LocksSpec

(* Whichever modules take steps, the variables of all have their types.    *)
THEOREM ServiceTyping == Spec => []TypeOK
<1>1. HistoryTypeOK /\ AuthTypeOK /\ ProcessTypeOK /\ FormTypeOK /\ LocksTypeOK => TypeOK
  BY DEF TypeOK
<1> QED BY <1>1, ServiceComposes, HistoryTyping, SessionsTyping, ProcessTyping, FormTyping,
           LocksTyped, PTL
=============================================================================
