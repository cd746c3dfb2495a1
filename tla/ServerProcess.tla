---------------------------- MODULE ServerProcess ----------------------------
(***************************************************************************)
(* One API process: the advisory locks that part uploads and the exclusive *)
(* owners of an upload take on connections of a pool of their own          *)
(* (PostgresUploadConcurrency), the loops of the workers and the orderly   *)
(* shutdown.                                                               *)
(*                                                                         *)
(* Advisory locks belong to a connection: within one they never conflict,  *)
(* and they end with it.  The user is the same for all uploads.            *)
(***************************************************************************)
EXTENDS Naturals, Sequences, FiniteSets, SequencesExt

CONSTANTS
  Handlers,     \* HTTP requests the process serves at once
  Jobs,         \* jobs of the supervisor
  Connections,  \* bound: connections of the lock pool, the broken ones included
  PoolSize,     \* max of uploadLockPool
  Uploads, Parts,
  UploadSlots,  \* UPLOAD_SLOT_COUNT
  UserSlots,    \* USER_SLOT_COUNT
  MaxBroken     \* bound: connections that break

(* What the constants must satisfy.                                        *)
ASSUME ProcessAssumption ==
  /\ PoolSize \in Nat \ {0} /\ PoolSize <= Cardinality(Connections)
  /\ UploadSlots \in Nat \ {0} /\ UserSlots \in Nat \ {0} /\ MaxBroken \in Nat
  /\ Handlers \intersect Jobs = {} /\ "none" \notin Handlers \union Jobs

Owners == Handlers \union Jobs

VARIABLES
  conn,    \* by connection: its state, its owner, its locks in the order they were taken
  task,    \* by owner: what it does and for which upload and part
  loop,    \* by job: its loop
  server,  \* starting, open, closing, ended
  broken

processVars == <<conn, task, loop, server, broken>>

Gate(u, mode) == [lock |-> "gate", upload |-> u, mode |-> mode]
Part(u, p) == [lock |-> "part", upload |-> u, part |-> p]
UploadSlot(u, k) == [lock |-> "uploadSlot", upload |-> u, slot |-> k]
UserSlot(k) == [lock |-> "userSlot", slot |-> k]

Keys ==
  {Gate(u, mode) : u \in Uploads, mode \in {"shared", "exclusive"}}
  \union {Part(u, p) : u \in Uploads, p \in Parts}
  \union {UploadSlot(u, k) : u \in Uploads, k \in 1..UploadSlots}
  \union {UserSlot(k) : k \in 1..UserSlots}

Closed == [state |-> "closed", owner |-> "none", locks |-> << >>]
Idle == [kind |-> "none", at |-> "idle", upload |-> "none", part |-> "none", slot |-> 1]

ProcessInit ==
  /\ conn = [c \in Connections |-> Closed]
  /\ task = [o \in Owners |-> Idle]
  /\ loop = [j \in Jobs |-> "unstarted"]
  /\ server = "starting" /\ broken = 0

Steps == {"idle", "connect", "gate", "part", "uploadSlot", "userSlot", "held", "undo"}

ProcessTypeOK ==
  /\ DOMAIN conn = Connections
  /\ \A c \in Connections :
       /\ conn[c].state \in {"closed", "idle", "used", "dying"}
       /\ conn[c].owner \in Owners \union {"none"}
       /\ ToSet(conn[c].locks) \subseteq Keys
  /\ DOMAIN task = Owners
  /\ \A o \in Owners : task[o].at \in Steps /\ task[o].kind \in {"none", "part", "exclusive"}
  /\ loop \in [Jobs -> {"unstarted", "running", "waiting", "ended"}]
  /\ server \in {"starting", "open", "closing", "ended"} /\ broken \in 0..MaxBroken

-----------------------------------------------------------------------------
(* Locks.                                                                  *)

Conflicts_Exclusive(a, b) ==   \* mutant: the shared gate does not keep the exclusive one out
  IF a.lock = "gate" /\ b.lock = "gate"
  THEN a.upload = b.upload /\ a.mode = "exclusive" /\ b.mode = "exclusive"
  ELSE a = b
Conflicts(a, b) ==
  IF a.lock = "gate" /\ b.lock = "gate"
  THEN a.upload = b.upload /\ "exclusive" \in {a.mode, b.mode}
  ELSE a = b

Available(key, c) ==
  \A d \in Connections \ {c} : \A k \in ToSet(conn[d].locks) : ~Conflicts(key, k)

Owned(o, c) == conn[c].state = "used" /\ conn[c].owner = o
Move(o, at) == task' = [task EXCEPT ![o].at = at, ![o].slot = 1]

(* One query of pg_try_advisory_lock.                                      *)
tryLock(o, c, key, next, otherwise) ==
  /\ Owned(o, c)
  /\ IF Available(key, c)
     THEN /\ conn' = [conn EXCEPT ![c].locks = Append(@, key)]
          /\ Move(o, next)
     ELSE otherwise /\ UNCHANGED conn
  /\ UNCHANGED <<loop, server, broken>>

InPool == {c \in Connections : conn[c].state \in {"idle", "used"}}

(* An idle connection, or else a new one if there is room.                 *)
Offered ==
  LET in(state) == {c \in Connections : conn[c].state = state}
      free == IF in("idle") # {} \/ Cardinality(InPool) = PoolSize THEN in("idle") ELSE in("closed")
  IN IF free = {} THEN {} ELSE {CHOOSE c \in free : TRUE}

connect(o, c) ==
  /\ task[o].at = "connect" /\ c \in Offered
  /\ conn' = [conn EXCEPT ![c] = [@ EXCEPT !.state = "used", !.owner = o]]
  /\ Move(o, "gate")
  /\ UNCHANGED <<loop, server, broken>>

Ended(o) == task' = [task EXCEPT ![o] = Idle]

connectFails(o) ==
  /\ task[o].at = "connect"
  /\ Ended(o)
  /\ UNCHANGED <<conn, loop, server, broken>>

PartGate(o, c) ==
  /\ task[o].kind = "part" /\ task[o].at = "gate"
  /\ tryLock(o, c, Gate(task[o].upload, "shared"), "part", Move(o, "undo"))

PartLock(o, c) ==
  /\ task[o].at = "part"
  /\ tryLock(o, c, Part(task[o].upload, task[o].part), "uploadSlot", Move(o, "undo"))

NextSlot(o, count) ==
  IF task[o].slot < count THEN task' = [task EXCEPT ![o].slot = @ + 1] ELSE Move(o, "undo")

TryUploadSlot(o, c) ==
  /\ task[o].at = "uploadSlot"
  /\ tryLock(o, c, UploadSlot(task[o].upload, task[o].slot), "userSlot", NextSlot(o, UploadSlots))

TryUserSlot(o, c) ==
  /\ task[o].at = "userSlot"
  /\ tryLock(o, c, UserSlot(task[o].slot), "held", NextSlot(o, UserSlots))

(* acquireExclusiveUpload asks again until its deadline.                   *)
ExclusiveGate(o, c) ==
  /\ task[o].kind = "exclusive" /\ task[o].at = "gate"
  /\ tryLock(o, c, Gate(task[o].upload, "exclusive"), "held", Move(o, "gate") \/ Move(o, "undo"))

(* The end of the work, or of its request.                                 *)
Release(o) ==
  /\ task[o].at = "held"
  /\ Move(o, "undo")
  /\ UNCHANGED <<conn, loop, server, broken>>

LocksLeft_ButOne(c) == Len(conn[c].locks) > 1   \* mutant: the gate is not unlocked
LocksLeft(c) == conn[c].locks # << >>

(* Locks are given back one by one, the last one first, then the           *)
(* connection.                                                             *)
unlock(o, c) ==
  /\ task[o].at = "undo" /\ Owned(o, c)
  /\ IF LocksLeft(c)
     THEN conn' = [conn EXCEPT ![c].locks = Front(@)] /\ UNCHANGED task
     ELSE /\ conn' = [conn EXCEPT ![c] = [@ EXCEPT !.state = "idle", !.owner = "none"]]
          /\ Ended(o)
  /\ UNCHANGED <<loop, server, broken>>

(* A query fails: the connection is destroyed, not pooled.  The database   *)
(* notices later.  A holder finds out when it releases.                    *)
QueryFails(o, c) ==
  /\ Owned(o, c) /\ task[o].at # "held" /\ broken < MaxBroken
  /\ broken' = broken + 1
  /\ conn' = [conn EXCEPT ![c] = [@ EXCEPT !.state = "dying", !.owner = "none"]]
  /\ Ended(o)
  /\ UNCHANGED <<loop, server>>

ConnectionCloses(c) ==
  /\ conn[c].state = "dying"
  /\ conn' = [conn EXCEPT ![c] = Closed]
  /\ UNCHANGED <<task, loop, server, broken>>

-----------------------------------------------------------------------------
(* Requests, jobs and the process.                                         *)

Begin(o, kind, u, p) ==
  task' = [task EXCEPT ![o] = [kind |-> kind, at |-> "connect", upload |-> u, part |-> p, slot |-> 1]]

PartRequest(h, u, p) ==
  /\ server = "open" /\ task[h].at = "idle"
  /\ Begin(h, "part", u, p)
  /\ UNCHANGED <<conn, loop, server, broken>>

(* Complete and abort.                                                     *)
ExclusiveRequest(h, u) ==
  /\ server = "open" /\ task[h].at = "idle"
  /\ Begin(h, "exclusive", u, "none")
  /\ UNCHANGED <<conn, loop, server, broken>>

(* An iteration of a job works on uploads one after the other, or on none. *)
JobWorks(j, u) ==
  /\ loop[j] = "running" /\ task[j].at = "idle"
  /\ Begin(j, "exclusive", u, "none")
  /\ UNCHANGED <<conn, loop, server, broken>>

aborted == server = "closing"

IterationEnds(j) ==
  /\ loop[j] = "running" /\ task[j].at = "idle"
  /\ loop' = [loop EXCEPT ![j] = "waiting"]
  /\ UNCHANGED <<conn, task, server, broken>>

waitForNextRun(j) ==
  /\ loop[j] = "waiting"
  /\ loop' = [loop EXCEPT ![j] = IF aborted THEN "ended" ELSE "running"]
  /\ UNCHANGED <<conn, task, server, broken>>

startPreparedServer ==
  /\ server = "starting"
  /\ \/ server' = "open" /\ loop' = [j \in Jobs |-> "running"]
     \/ server' = "closing" /\ UNCHANGED loop
  /\ UNCHANGED <<conn, task, broken>>

(* The workers' signal is aborted, and the app accepts no request.         *)
shutdown ==
  /\ server = "open"
  /\ server' = "closing"
  /\ UNCHANGED <<conn, task, loop, broken>>

WorkersStopped == \A j \in Jobs : loop[j] \in {"unstarted", "ended"}
AppClosed == \A h \in Handlers : task[h].at = "idle"

(* pool.end, after both: idle connections are closed.                      *)
closeResources ==
  /\ server = "closing" /\ WorkersStopped /\ AppClosed
  /\ server' = "ended"
  /\ conn' = [c \in Connections |-> IF conn[c].state = "idle" THEN Closed ELSE conn[c]]
  /\ UNCHANGED <<task, loop, broken>>

-----------------------------------------------------------------------------
ProcessNext ==
  \/ startPreparedServer \/ shutdown \/ closeResources
  \/ \E h \in Handlers, u \in Uploads :
       ExclusiveRequest(h, u) \/ \E p \in Parts : PartRequest(h, u, p)
  \/ \E j \in Jobs :
       IterationEnds(j) \/ waitForNextRun(j) \/ \E u \in Uploads : JobWorks(j, u)
  \/ \E o \in Owners :
       \/ connectFails(o) \/ Release(o)
       \/ \E c \in Connections :
            \/ connect(o, c) \/ PartGate(o, c) \/ PartLock(o, c) \/ TryUploadSlot(o, c)
            \/ TryUserSlot(o, c) \/ ExclusiveGate(o, c) \/ unlock(o, c) \/ QueryFails(o, c)
  \/ \E c \in Connections : ConnectionCloses(c)

ProcessSpec == ProcessInit /\ [][ProcessNext]_processVars

-----------------------------------------------------------------------------
Holders(u) == {o \in Owners : task[o].at = "held" /\ task[o].upload = u}
PartsHeld == {o \in Owners : task[o].at = "held" /\ task[o].kind = "part"}

(* An exclusive owner of an upload is alone; uploads of parts beside each  *)
(* other are of different parts, and no more than the slots of the upload  *)
(* and of the user.                                                        *)
LeasesExclude ==
  /\ Cardinality(PartsHeld) <= UserSlots
  /\ \A u \in Uploads : \A o \in Holders(u) :
       IF task[o].kind = "exclusive" THEN Holders(u) = {o}
       ELSE /\ Cardinality(Holders(u)) <= UploadSlots
            /\ \A q \in Holders(u) \ {o} : task[q].part # task[o].part

(* A connection that goes back to the pool holds no lock, wherever the     *)
(* acquisition stopped: a lock left on it would block the upload for all   *)
(* others, and none of those that use the connection.                      *)
PooledHoldsNothing ==
  \A c \in Connections : conn[c].state \in {"idle", "closed"} => conn[c].locks = << >>
=============================================================================
