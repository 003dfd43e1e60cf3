------------------------------ MODULE UtilSync ------------------------------
(***************************************************************************)
(* The sync objects (util/sync.c) that the queues, the players' locks and  *)
(* FFmpeg's threads (fake_pthread.c) are built on: plain and recursive     *)
(* locks and conditions.  Each is a libctru lock or condition plus an      *)
(* owner and a reference count of the calls that are inside, both guarded  *)
(* by one mutex (util_sync_mutex); the libctru call in the middle of lock  *)
(* and cond_wait runs outside it.  A section under that mutex is one step. *)
(*                                                                         *)
(* A sync object must not be destroyed by two threads at once, nor while a *)
(* thread owns it: its users never do.  A recreated object is a new one.   *)
(***************************************************************************)
EXTENDS Naturals, FiniteSets

CONSTANTS Threads,
          Plain,       \* SYNC_TYPE_NON_RECURSIVE_MUTEX objects
          Recursive,   \* SYNC_TYPE_RECURSIVE_MUTEX objects
          Conds,       \* SYNC_TYPE_CONDITION objects
          NoThread,
          MaxDepth,    \* bound: how deep a recursive lock is locked
          MaxLeaks     \* bound: condition waits by a thread that is not the owner

Locks == Plain \cup Recursive
Objects == Locks \cup Conds

NoObject == "none"

ASSUME SyncAssumption ==
  /\ IsFiniteSet(Threads) /\ NoThread \notin Threads /\ NoObject \notin Objects
  /\ Plain \cap Recursive = {} /\ Conds \cap Locks = {}
  /\ MaxDepth \in Nat /\ MaxLeaks \in Nat

VARIABLES created,   \* objects with an internal_object
          refCount,  \* ref_count
          owner,     \* owner
          count,     \* u.recursive.count
          holder,    \* who has the libctru lock
          depth,     \* and how many times
          sleepers,  \* threads in the libctru condition
          at,        \* where each thread is
          onLock,    \* the lock its call is about
          onCond,    \* and the condition
          leaked     \* history: references that were never given back

syncVars == <<created, refCount, owner, count, holder, depth, sleepers, at, onLock, onCond, leaked>>
lockVars == <<owner, count, holder, depth>>

Steps == {"out", "locking", "locked", "releasing", "sleeping", "relocking", "relocked", "destroying"}
InWait == {"releasing", "sleeping", "relocking", "relocked"}

SyncInit ==
  /\ created = {}
  /\ refCount = [o \in Objects |-> 0]
  /\ owner = [l \in Locks |-> NoThread] /\ count = [l \in Locks |-> 0]
  /\ holder = [l \in Locks |-> NoThread] /\ depth = [l \in Locks |-> 0]
  /\ sleepers = [c \in Conds |-> {}]
  /\ at = [t \in Threads |-> "out"]
  /\ onLock = [t \in Threads |-> NoObject] /\ onCond = [t \in Threads |-> NoObject]
  /\ leaked = [o \in Objects |-> 0]

Enter(os) == refCount' = [o \in Objects |-> IF o \in os THEN refCount[o] + 1 ELSE refCount[o]]
Leave(os) == refCount' = [o \in Objects |-> IF o \in os THEN refCount[o] - 1 ELSE refCount[o]]
Go(t, step) == at' = [at EXCEPT ![t] = step]

-----------------------------------------------------------------------------
(* Util_sync_create, Util_sync_destroy.                                    *)

Create(t, o) ==
  /\ at[t] = "out" /\ o \notin created
  /\ created' = created \cup {o}
  /\ refCount' = [refCount EXCEPT ![o] = 0]
  /\ leaked' = [leaked EXCEPT ![o] = 0]
  /\ IF o \in Locks
     THEN /\ owner' = [owner EXCEPT ![o] = NoThread] /\ count' = [count EXCEPT ![o] = 0]
          /\ holder' = [holder EXCEPT ![o] = NoThread] /\ depth' = [depth EXCEPT ![o] = 0]
          /\ UNCHANGED sleepers
     ELSE sleepers' = [sleepers EXCEPT ![o] = {}] /\ UNCHANGED lockVars
  /\ UNCHANGED <<at, onLock, onCond>>

DestroyBegin(t, o) ==
  /\ at[t] = "out" /\ o \in created
  /\ o \in Locks => owner[o] = NoThread
  /\ \A u \in Threads : at[u] = "destroying" => o \notin {onLock[u], onCond[u]}
  /\ Go(t, "destroying")
  /\ IF o \in Locks THEN onLock' = [onLock EXCEPT ![t] = o] /\ UNCHANGED onCond
                    ELSE onCond' = [onCond EXCEPT ![t] = o] /\ UNCHANGED onLock
  /\ UNCHANGED <<created, refCount, lockVars, sleepers, leaked>>

\* Mutant of Freeable: the object goes although calls are inside it.
FreeableAnytime(o) == TRUE

\* The poll of Util_sync_destroy finds ref_count at 0.
Freeable(o) == refCount[o] = 0

DestroyEnd(t) ==
  /\ at[t] = "destroying"
  /\ \E o \in {onLock[t], onCond[t]} \ {NoObject} :
       Freeable(o) /\ created' = created \ {o}
  /\ Go(t, "out")
  /\ onLock' = [onLock EXCEPT ![t] = NoObject] /\ onCond' = [onCond EXCEPT ![t] = NoObject]
  /\ UNCHANGED <<refCount, lockVars, sleepers, leaked>>

-----------------------------------------------------------------------------
(* Util_sync_lock.  A thread that owns a plain lock is refused.            *)

Free(t, l) == holder[l] = NoThread \/ (l \in Recursive /\ holder[l] = t)

LockBegin(t, l) ==
  /\ at[t] = "out" /\ l \in created
  /\ l \in Plain => owner[l] /= t
  /\ l \in Recursive /\ owner[l] = t => count[l] < MaxDepth
  /\ Enter({l})
  /\ Go(t, "locking") /\ onLock' = [onLock EXCEPT ![t] = l]
  /\ UNCHANGED <<created, lockVars, sleepers, onCond, leaked>>

\* The libctru lock is taken, outside the mutex: the owner is not set yet.
LockGot(t) ==
  LET l == onLock[t] IN
  /\ at[t] = "locking" /\ Free(t, l)
  /\ holder' = [holder EXCEPT ![l] = t]
  /\ depth' = [depth EXCEPT ![l] = @ + 1]
  /\ Go(t, "locked")
  /\ UNCHANGED <<created, refCount, owner, count, sleepers, onLock, onCond, leaked>>

\* Mutant of LockEnd: the owner is not noted.
LockEndAnonymous(t) ==
  LET l == onLock[t] IN
  /\ at[t] = "locked"
  /\ Leave({l})
  /\ Go(t, "out") /\ onLock' = [onLock EXCEPT ![t] = NoObject]
  /\ UNCHANGED <<created, lockVars, sleepers, onCond, leaked>>

LockEnd(t) ==
  LET l == onLock[t] IN
  /\ at[t] = "locked"
  /\ owner' = [owner EXCEPT ![l] = t]
  /\ count' = [count EXCEPT ![l] = IF l \in Recursive THEN @ + 1 ELSE @]
  /\ Leave({l})
  /\ Go(t, "out") /\ onLock' = [onLock EXCEPT ![t] = NoObject]
  /\ UNCHANGED <<created, holder, depth, sleepers, onCond, leaked>>

\* A wait_us has passed and the last TryLock found the lock taken.
LockGiveUp(t) ==
  /\ at[t] = "locking" /\ ~Free(t, onLock[t])
  /\ Leave({onLock[t]})
  /\ Go(t, "out") /\ onLock' = [onLock EXCEPT ![t] = NoObject]
  /\ UNCHANGED <<created, lockVars, sleepers, onCond, leaked>>

\* Mutant of Unlock: whoever calls is let through.
UnlockAnyone(t, l) ==
  /\ at[t] = "out" /\ l \in created
  /\ count' = [count EXCEPT ![l] = IF l \in Recursive THEN @ - 1 ELSE @]
  /\ owner' = [owner EXCEPT ![l] = NoThread]
  /\ depth' = [depth EXCEPT ![l] = 0]
  /\ holder' = [holder EXCEPT ![l] = NoThread]
  /\ UNCHANGED <<created, refCount, sleepers, at, onLock, onCond, leaked>>

\* Util_sync_unlock; a thread that is not the owner is refused.
Unlock(t, l) ==
  /\ at[t] = "out" /\ l \in created /\ owner[l] = t
  /\ l \in Recursive => count[l] > 0
  /\ LET last == l \in Plain \/ count[l] = 1 IN
     /\ count' = [count EXCEPT ![l] = IF l \in Recursive THEN @ - 1 ELSE @]
     /\ owner' = [owner EXCEPT ![l] = IF last THEN NoThread ELSE @]
     /\ depth' = [depth EXCEPT ![l] = IF l \in Plain THEN 0 ELSE @ - 1]
     /\ holder' = [holder EXCEPT ![l] = IF depth'[l] = 0 THEN NoThread ELSE @]
  /\ UNCHANGED <<created, refCount, sleepers, at, onLock, onCond, leaked>>

-----------------------------------------------------------------------------
(* Util_sync_cond_wait, Util_sync_cond_signal.                             *)

\* Mutant of WaitBegin: the owner is not cleared.
WaitBeginOwning(t, c, l) ==
  /\ at[t] = "out" /\ {c, l} \subseteq created
  /\ l \in Plain /\ owner[l] = t
  /\ Enter({c, l})
  /\ Go(t, "releasing")
  /\ onLock' = [onLock EXCEPT ![t] = l] /\ onCond' = [onCond EXCEPT ![t] = c]
  /\ UNCHANGED <<created, lockVars, sleepers, leaked>>

\* The owner is cleared before the libctru call lets go of the lock.
WaitBegin(t, c, l) ==
  /\ at[t] = "out" /\ {c, l} \subseteq created
  /\ l \in Plain /\ owner[l] = t
  /\ Enter({c, l})
  /\ owner' = [owner EXCEPT ![l] = NoThread]
  /\ Go(t, "releasing")
  /\ onLock' = [onLock EXCEPT ![t] = l] /\ onCond' = [onCond EXCEPT ![t] = c]
  /\ UNCHANGED <<created, count, holder, depth, sleepers, leaked>>

\* wrong_owner: the call returns without giving its two references back.
WaitWrongOwner(t, c, l) ==
  /\ at[t] = "out" /\ {c, l} \subseteq created
  /\ l \in Plain /\ owner[l] /= t
  /\ leaked[c] < MaxLeaks /\ leaked[l] < MaxLeaks
  /\ Enter({c, l})
  /\ leaked' = [leaked EXCEPT ![c] = @ + 1, ![l] = @ + 1]
  /\ UNCHANGED <<created, lockVars, sleepers, at, onLock, onCond>>

\* CondVar_Wait: the thread is in the condition, then the lock is let go.
WaitSleep(t) ==
  /\ at[t] = "releasing"
  /\ sleepers' = [sleepers EXCEPT ![onCond[t]] = @ \cup {t}]
  /\ holder' = [holder EXCEPT ![onLock[t]] = NoThread]
  /\ depth' = [depth EXCEPT ![onLock[t]] = 0]
  /\ Go(t, "sleeping")
  /\ UNCHANGED <<created, refCount, owner, count, onLock, onCond, leaked>>

Wake(ts, c) ==
  /\ sleepers' = [sleepers EXCEPT ![c] = @ \ ts]
  /\ at' = [t \in Threads |-> IF t \in ts THEN "relocking" ELSE at[t]]
  /\ UNCHANGED <<created, refCount, lockVars, onLock, onCond, leaked>>

Signal(t, c) == /\ at[t] = "out" /\ c \in created
                /\ \E u \in sleepers[c] : Wake({u}, c)

Broadcast(t, c) == /\ at[t] = "out" /\ c \in created /\ sleepers[c] /= {}
                   /\ Wake(sleepers[c], c)

WaitTimeout(t) == at[t] = "sleeping" /\ Wake({t}, onCond[t])

WaitRelock(t) ==
  LET l == onLock[t] IN
  /\ at[t] = "relocking" /\ holder[l] = NoThread
  /\ holder' = [holder EXCEPT ![l] = t]
  /\ depth' = [depth EXCEPT ![l] = 1]
  /\ Go(t, "relocked")
  /\ UNCHANGED <<created, refCount, owner, count, sleepers, onLock, onCond, leaked>>

WaitEnd(t) ==
  /\ at[t] = "relocked"
  /\ owner' = [owner EXCEPT ![onLock[t]] = t]
  /\ Leave({onLock[t], onCond[t]})
  /\ Go(t, "out")
  /\ onLock' = [onLock EXCEPT ![t] = NoObject] /\ onCond' = [onCond EXCEPT ![t] = NoObject]
  /\ UNCHANGED <<created, count, holder, depth, sleepers, leaked>>

-----------------------------------------------------------------------------

Lifetime(t) == (\E o \in Objects : Create(t, o) \/ DestroyBegin(t, o)) \/ DestroyEnd(t)

Locking(t) == \/ \E l \in Locks : LockBegin(t, l) \/ Unlock(t, l)
              \/ LockGot(t) \/ LockEnd(t) \/ LockGiveUp(t)

Waiting(t) == \/ \E c \in Conds, l \in Locks : WaitBegin(t, c, l) \/ WaitWrongOwner(t, c, l)
              \/ \E c \in Conds : Signal(t, c) \/ Broadcast(t, c)
              \/ WaitSleep(t) \/ WaitTimeout(t) \/ WaitRelock(t) \/ WaitEnd(t)

SyncNext == \E t \in Threads : Lifetime(t) \/ Locking(t) \/ Waiting(t)

SyncSpec == SyncInit /\ [][SyncNext]_syncVars

-----------------------------------------------------------------------------
(* Properties.                                                             *)

SyncTypeOK ==
  /\ created \subseteq Objects
  /\ refCount \in [Objects -> Nat] /\ leaked \in [Objects -> Nat]
  /\ owner \in [Locks -> Threads \cup {NoThread}] /\ count \in [Locks -> Nat]
  /\ holder \in [Locks -> Threads \cup {NoThread}] /\ depth \in [Locks -> Nat]
  /\ sleepers \in [Conds -> SUBSET Threads]
  /\ at \in [Threads -> Steps]
  /\ onLock \in [Threads -> Locks \cup {NoObject}]
  /\ onCond \in [Threads -> Conds \cup {NoObject}]

\* The calls inside an object.
Inside(o) == {t \in Threads : /\ at[t] \notin {"out", "destroying"}
                              /\ o \in {onLock[t], onCond[t]}}

\* The reference count is the number of calls inside, plus the references that
\* cond_wait forgot (sync.c:399); so no call is inside an object that is freed
\* (sync.c:544), though the libctru call in its middle runs without the mutex.
RefCountsExact ==
  \A o \in Objects :
    /\ o \in created => refCount[o] = Cardinality(Inside(o)) + leaked[o]
    /\ o \notin created => Inside(o) = {}

\* A thread that a lock calls its owner has the libctru lock, though the owner
\* is written in another step than the lock is taken or let go.
OwnerHolds == \A l \in created \cap Locks : owner[l] /= NoThread => holder[l] = owner[l]

\* A thread never waits for a plain lock that it has itself: what the owner is
\* kept for (already_locked, sync.c:181).
NoSelfDeadlock ==
  \A t \in Threads : at[t] = "locking" /\ onLock[t] \in Plain => holder[onLock[t]] /= t
=============================================================================
