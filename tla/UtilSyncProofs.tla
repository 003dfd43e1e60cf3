--------------------------- MODULE UtilSyncProofs ---------------------------
(***************************************************************************)
(* The sync objects for any number of threads, locks and conditions: what  *)
(* the reference counts mean, that an owner has its lock, and that nobody  *)
(* waits for a plain lock of its own.                                      *)
(***************************************************************************)
EXTENDS UtilSync, FiniteSetTheorems, TLAPS

USE SyncAssumption

-----------------------------------------------------------------------------
(* The inductive invariant.                                                *)

Inner == {"locking", "locked"} \cup InWait
Having == {"locked", "releasing", "relocked"}

\* A call keeps the objects it works on until it returns.
PlaceInv ==
  \A t \in Threads :
    /\ at[t] = "out" => onLock[t] = NoObject /\ onCond[t] = NoObject
    /\ at[t] \in {"locking", "locked"} => onLock[t] \in Locks /\ onCond[t] = NoObject
    /\ at[t] \in InWait => onLock[t] \in Plain /\ onCond[t] \in Conds

\* Whoever is in a condition sleeps there.
SleepInv ==
  \A c \in created \cap Conds : \A t \in sleepers[c] : at[t] = "sleeping" /\ onCond[t] = c

\* Between the libctru call and the owner's being written the thread has the
\* lock; before its own wait lets it go it is nobody's.
BetweenInv ==
  \A t \in Threads : /\ at[t] \in Having => holder[onLock[t]] = t
                     /\ at[t] = "releasing" => owner[onLock[t]] = NoThread

\* Whoever has a plain lock is its owner, or is on the way to or from being it.
PlainInv ==
  \A l \in created \cap Plain, t \in Threads :
    holder[l] = t => owner[l] = t \/ (onLock[t] = l /\ at[t] \in Having)

\* A recursive lock is held as often as it is counted, and once more by the
\* thread that has not counted yet.
DepthInv ==
  \A l \in created \cap Recursive :
    /\ holder[l] = NoThread => depth[l] = 0 /\ count[l] = 0
    /\ \A t \in Threads : holder[l] = t =>
         depth[l] = count[l] + (IF at[t] = "locked" /\ onLock[t] = l THEN 1 ELSE 0)

LockInv == OwnerHolds /\ BetweenInv /\ PlainInv /\ DepthInv /\ NoSelfDeadlock

SyncInv == SyncTypeOK /\ PlaceInv /\ RefCountsExact /\ SleepInv /\ LockInv

-----------------------------------------------------------------------------
(* Counting the calls inside an object.                                    *)

LEMMA InsideFinite ==
  ASSUME NEW o
  PROVE  IsFiniteSet(Inside(o)) /\ Cardinality(Inside(o)) \in Nat
BY FS_Subset, FS_CardinalityType DEF Inside

\* A call is inside objects that exist.
LEMMA InsideExists ==
  ASSUME SyncTypeOK, PlaceInv, RefCountsExact, NEW t \in Threads, at[t] \in Inner
  PROVE  /\ onLock[t] \in Locks /\ onLock[t] \in created
         /\ at[t] \in InWait => onLock[t] \in Plain /\ onCond[t] \in Conds /\ onCond[t] \in created
<1>1. t \in Inside(onLock[t]) /\ t \in Inside(onCond[t])
  BY DEF Inside, Inner, InWait
<1>2. onLock[t] \in Locks /\ (at[t] \in InWait => onLock[t] \in Plain /\ onCond[t] \in Conds)
  BY DEF PlaceInv, Inner, Locks
<1>3. onLock[t] \in created
  BY <1>1, <1>2 DEF RefCountsExact, Objects
<1>4. at[t] \in InWait => onCond[t] \in created
  BY <1>1, <1>2 DEF RefCountsExact, Objects
<1> QED BY <1>2, <1>3, <1>4

\* A call that enters some objects is counted in each.
LEMMA CountEnter ==
  ASSUME SyncTypeOK, RefCountsExact, NEW t \in Threads, NEW os \in SUBSET created,
         Enter(os), UNCHANGED <<created, leaked>>,
         \A o \in Objects : /\ o \in os => t \notin Inside(o) /\ Inside(o)' = Inside(o) \cup {t}
                            /\ o \notin os => Inside(o)' = Inside(o)
  PROVE  refCount' \in [Objects -> Nat] /\ RefCountsExact'
<1>1. refCount' \in [Objects -> Nat]
  BY DEF Enter, SyncTypeOK
<1>2. ASSUME NEW o \in os PROVE refCount'[o] = Cardinality(Inside(o)') + leaked'[o]
  <2>1. o \in Objects /\ o \in created
    BY DEF SyncTypeOK
  <2>2. Cardinality(Inside(o) \cup {t}) = Cardinality(Inside(o)) + 1
    BY <2>1, InsideFinite, FS_AddElement
  <2>3. refCount'[o] = refCount[o] + 1 /\ refCount[o] = Cardinality(Inside(o)) + leaked[o]
    BY <2>1 DEF Enter, RefCountsExact
  <2>4. leaked[o] \in Nat /\ leaked' = leaked /\ Inside(o)' = Inside(o) \cup {t}
    BY <2>1 DEF SyncTypeOK
  <2> QED BY <2>2, <2>3, <2>4, InsideFinite
<1>3. ASSUME NEW o \in Objects \ os PROVE refCount'[o] = refCount[o] /\ Inside(o)' = Inside(o)
  BY DEF Enter
<1>4. \A o \in os : o \in created
  OBVIOUS
<1> QED BY <1>1, <1>2, <1>3, <1>4 DEF RefCountsExact

\* A call that leaves them is counted no more.
LEMMA CountLeave ==
  ASSUME SyncTypeOK, RefCountsExact, NEW t \in Threads, NEW os \in SUBSET created,
         Leave(os), UNCHANGED <<created, leaked>>,
         \A o \in Objects : /\ o \in os => t \in Inside(o) /\ Inside(o)' = Inside(o) \ {t}
                            /\ o \notin os => Inside(o)' = Inside(o)
  PROVE  refCount' \in [Objects -> Nat] /\ RefCountsExact'
<1>1. ASSUME NEW o \in os
      PROVE  refCount'[o] = Cardinality(Inside(o)') + leaked'[o] /\ refCount'[o] \in Nat
  <2>1. o \in Objects /\ o \in created
    BY DEF SyncTypeOK
  <2>2. Cardinality(Inside(o) \ {t}) = Cardinality(Inside(o)) - 1
    BY <2>1, InsideFinite, FS_RemoveElement
  <2>3. Cardinality(Inside(o) \ {t}) \in Nat
    BY InsideFinite, FS_RemoveElement, FS_CardinalityType
  <2>4. refCount'[o] = refCount[o] - 1 /\ refCount[o] = Cardinality(Inside(o)) + leaked[o]
    BY <2>1 DEF Leave, RefCountsExact
  <2>5. leaked[o] \in Nat /\ leaked' = leaked /\ Inside(o)' = Inside(o) \ {t}
    BY <2>1 DEF SyncTypeOK
  <2> QED BY <2>2, <2>3, <2>4, <2>5, InsideFinite
<1>2. ASSUME NEW o \in Objects \ os
      PROVE  refCount'[o] = refCount[o] /\ Inside(o)' = Inside(o) /\ refCount'[o] \in Nat
  BY DEF Leave, SyncTypeOK
<1>3. \A o \in os : o \in created
  OBVIOUS
<1>4. refCount' \in [Objects -> Nat]
  BY <1>1, <1>2 DEF Leave
<1> QED BY <1>1, <1>2, <1>3, <1>4 DEF RefCountsExact

\* A step that moves no call into or out of an object changes no count.
LEMMA CountSame ==
  ASSUME SyncTypeOK, RefCountsExact, UNCHANGED <<refCount, created, leaked>>,
         \A o \in Objects : Inside(o)' = Inside(o)
  PROVE  refCount' \in [Objects -> Nat] /\ RefCountsExact'
BY DEF SyncTypeOK, RefCountsExact

\* So it is with a thread that goes on in its call.
LEMMA CountOnward ==
  ASSUME SyncTypeOK, RefCountsExact, NEW t \in Threads, NEW p \in Inner, at[t] \in Inner, Go(t, p),
         UNCHANGED <<refCount, created, leaked, onLock, onCond>>
  PROVE  refCount' \in [Objects -> Nat] /\ RefCountsExact'
<1>1. \A o \in Objects : Inside(o)' = Inside(o)
  BY DEF Inside, Go, SyncTypeOK, Inner, InWait
<1> QED BY <1>1, CountSame

\* Every waking step wakes threads that sleep in one condition.
Wakes(t) == (\E c \in Conds : Signal(t, c) \/ Broadcast(t, c)) \/ WaitTimeout(t)

LEMMA WakeSleepers ==
  ASSUME SyncTypeOK, PlaceInv, SleepInv, NEW t \in Threads, Wakes(t)
  PROVE  \E ts \in SUBSET Threads, c \in Conds :
           Wake(ts, c) /\ \A u \in ts : at[u] = "sleeping" /\ onCond[u] = c
<1>1. ASSUME NEW c \in Conds, Signal(t, c)
      PROVE  \E ts \in SUBSET Threads : Wake(ts, c) /\ \A u \in ts : at[u] = "sleeping" /\ onCond[u] = c
  <2>1. PICK u \in sleepers[c] : Wake({u}, c) /\ c \in created
    BY <1>1, Zenon DEF Signal
  <2>2. {u} \in SUBSET Threads /\ at[u] = "sleeping" /\ onCond[u] = c
    BY <2>1 DEF SleepInv, SyncTypeOK
  <2> QED BY <2>1, <2>2
<1>2. ASSUME NEW c \in Conds, Broadcast(t, c)
      PROVE  \E ts \in SUBSET Threads : Wake(ts, c) /\ \A u \in ts : at[u] = "sleeping" /\ onCond[u] = c
  <2>1. Wake(sleepers[c], c) /\ c \in created
    BY <1>2, Zenon DEF Broadcast
  <2>2. sleepers[c] \in SUBSET Threads /\ \A u \in sleepers[c] : at[u] = "sleeping" /\ onCond[u] = c
    BY <2>1 DEF SleepInv, SyncTypeOK
  <2> QED BY <2>1, <2>2
<1>3. CASE WaitTimeout(t)
  <2>1. Wake({t}, onCond[t]) /\ at[t] = "sleeping"
    BY <1>3, Zenon DEF WaitTimeout
  <2>2. onCond[t] \in Conds
    BY <2>1 DEF PlaceInv, InWait
  <2>3. {t} \in SUBSET Threads /\ \A u \in {t} : at[u] = "sleeping" /\ onCond[u] = onCond[t]
    BY <2>1
  <2> QED BY <2>1, <2>2, <2>3, Zenon
<1>4. CASE \E c \in Conds : Signal(t, c) \/ Broadcast(t, c)
  <2>1. PICK c \in Conds : Signal(t, c) \/ Broadcast(t, c)
    BY <1>4, Zenon
  <2>2. PICK ts \in SUBSET Threads : Wake(ts, c) /\ \A u \in ts : at[u] = "sleeping" /\ onCond[u] = c
    BY <2>1, <1>1, <1>2, Zenon
  <2> QED BY <2>2
<1> QED BY <1>3, <1>4, Zenon DEF Wakes

\* The counts are exact after every step.
LEMMA CountNext ==
  ASSUME SyncTypeOK, PlaceInv, RefCountsExact, SleepInv, [SyncNext]_syncVars
  PROVE  refCount' \in [Objects -> Nat] /\ RefCountsExact'
<1> DEFINE Done == refCount' \in [Objects -> Nat] /\ RefCountsExact'
<1>1. ASSUME NEW t \in Threads, NEW o \in Objects, Create(t, o) PROVE Done
  <2>1. \A x \in Objects : Inside(x)' = Inside(x)
    BY <1>1 DEF Create, Inside
  <2>2. Cardinality(Inside(o)') = 0
    BY <1>1, <2>1, FS_EmptySet DEF Create, RefCountsExact
  <2>3. /\ created' = created \cup {o}
        /\ refCount' = [refCount EXCEPT ![o] = 0] /\ leaked' = [leaked EXCEPT ![o] = 0]
    BY <1>1 DEF Create
  <2> QED BY <2>1, <2>2, <2>3 DEF SyncTypeOK, RefCountsExact
<1>2. ASSUME NEW t \in Threads, NEW o \in Objects, DestroyBegin(t, o) PROVE Done
  <2>1. \A x \in Objects : Inside(x)' = Inside(x)
    BY <1>2 DEF DestroyBegin, Go, Inside, SyncTypeOK
  <2> QED BY <1>2, <2>1, CountSame DEF DestroyBegin
<1>3. ASSUME NEW t \in Threads, DestroyEnd(t) PROVE Done
  <2>1. PICK o \in {onLock[t], onCond[t]} \ {NoObject} : refCount[o] = 0 /\ created' = created \ {o}
    BY <1>3 DEF DestroyEnd, Freeable
  <2>2. o \in Objects
    BY <2>1 DEF SyncTypeOK, Objects
  <2>3. \A x \in Objects : Inside(x)' = Inside(x)
    BY <1>3 DEF DestroyEnd, Go, Inside, SyncTypeOK
  <2>4. Inside(o) = {}
    <3>1. CASE o \in created
      <4>1. Cardinality(Inside(o)) + leaked[o] = 0 /\ leaked[o] \in Nat
        BY <2>1, <2>2, <3>1 DEF RefCountsExact, SyncTypeOK
      <4>2. Cardinality(Inside(o)) = 0
        BY <4>1, InsideFinite
      <4> QED BY <4>2, InsideFinite, FS_EmptySet
    <3>2. CASE o \notin created
      BY <2>2, <3>2 DEF RefCountsExact
    <3> QED BY <3>1, <3>2
  <2>5. UNCHANGED <<refCount, leaked>>
    BY <1>3 DEF DestroyEnd
  <2> QED BY <2>1, <2>3, <2>4, <2>5 DEF RefCountsExact, SyncTypeOK
<1>4. ASSUME NEW t \in Threads, NEW l \in Locks, LockBegin(t, l) PROVE Done
  <2>1. /\ l \in created /\ at[t] = "out" /\ onCond[t] = NoObject /\ Enter({l})
        /\ UNCHANGED <<created, leaked, onCond>>
        /\ at' = [at EXCEPT ![t] = "locking"] /\ onLock' = [onLock EXCEPT ![t] = l]
    BY <1>4 DEF LockBegin, PlaceInv, Go
  <2>2. \A x \in Objects : x /= l => Inside(x)' = Inside(x)
    BY <2>1 DEF Inside, SyncTypeOK
  <2>3. t \notin Inside(l) /\ Inside(l)' = Inside(l) \cup {t}
    BY <2>1 DEF Inside, SyncTypeOK
  <2> QED BY <2>1, <2>2, <2>3, CountEnter
<1>5. ASSUME NEW t \in Threads, LockEnd(t) \/ LockGiveUp(t) PROVE Done
  <2>1. /\ at[t] \in {"locking", "locked"} /\ onCond[t] = NoObject /\ Leave({onLock[t]})
        /\ UNCHANGED <<created, leaked, onCond>>
        /\ at' = [at EXCEPT ![t] = "out"] /\ onLock' = [onLock EXCEPT ![t] = NoObject]
    BY <1>5 DEF LockEnd, LockGiveUp, PlaceInv, Go
  <2>2. onLock[t] \in created /\ onLock[t] \in Objects
    BY <2>1, InsideExists DEF Inner, Objects
  <2>3. \A x \in Objects : x /= onLock[t] => Inside(x)' = Inside(x)
    BY <2>1 DEF Inside, SyncTypeOK
  <2>4. t \in Inside(onLock[t]) /\ \A x \in {onLock[t]} : Inside(x)' = Inside(x) \ {t}
    BY <2>1 DEF Inside, SyncTypeOK
  <2> QED BY <2>1, <2>2, <2>3, <2>4, CountLeave
<1>6. ASSUME NEW t \in Threads, LockGot(t) \/ WaitSleep(t) \/ WaitRelock(t) PROVE Done
  <2>1. PICK p \in Inner : Go(t, p) /\ at[t] \in Inner
    BY <1>6 DEF LockGot, WaitSleep, WaitRelock, Inner, InWait
  <2> QED BY <1>6, <2>1, CountOnward DEF LockGot, WaitSleep, WaitRelock
<1>7. ASSUME NEW t \in Threads, NEW l \in Locks, Unlock(t, l) PROVE Done
  <2>1. \A x \in Objects : Inside(x)' = Inside(x)
    BY <1>7 DEF Unlock, Inside
  <2> QED BY <1>7, <2>1, CountSame DEF Unlock
<1>8. ASSUME NEW t \in Threads, NEW c \in Conds, NEW l \in Locks, WaitBegin(t, c, l) PROVE Done
  <2>1. /\ {c, l} \in SUBSET created /\ at[t] = "out" /\ Enter({c, l})
        /\ UNCHANGED <<created, leaked>>
        /\ at' = [at EXCEPT ![t] = "releasing"]
        /\ onLock' = [onLock EXCEPT ![t] = l] /\ onCond' = [onCond EXCEPT ![t] = c]
    BY <1>8 DEF WaitBegin, Go
  <2>2. \A x \in Objects : x \notin {c, l} => Inside(x)' = Inside(x)
    BY <2>1 DEF Inside, SyncTypeOK
  <2>3. \A x \in {c, l} : t \notin Inside(x) /\ Inside(x)' = Inside(x) \cup {t}
    BY <2>1 DEF Inside, SyncTypeOK
  <2> QED BY <2>1, <2>2, <2>3, CountEnter
<1>9. ASSUME NEW t \in Threads, NEW c \in Conds, NEW l \in Locks, WaitWrongOwner(t, c, l) PROVE Done
  <2>1. \A x \in Objects : Inside(x)' = Inside(x)
    BY <1>9 DEF WaitWrongOwner, Inside
  <2>2. /\ {c, l} \subseteq created /\ c /= l /\ Enter({c, l}) /\ UNCHANGED created
        /\ leaked' = [leaked EXCEPT ![c] = @ + 1, ![l] = @ + 1]
    BY <1>9 DEF WaitWrongOwner
  <2>3. ASSUME NEW x \in Objects
        PROVE  /\ refCount'[x] - leaked'[x] = refCount[x] - leaked[x]
               /\ refCount'[x] \in Nat /\ leaked'[x] \in Nat
    BY <2>2 DEF Enter, SyncTypeOK, Objects
  <2>4. ASSUME NEW x \in created PROVE refCount'[x] = Cardinality(Inside(x)') + leaked'[x]
    <3>1. x \in Objects /\ Inside(x)' = Inside(x)
      BY <2>1 DEF SyncTypeOK
    <3>2. refCount[x] = Cardinality(Inside(x)) + leaked[x] /\ refCount[x] \in Nat /\ leaked[x] \in Nat
      BY <3>1 DEF RefCountsExact, SyncTypeOK
    <3> QED BY <2>3, <3>1, <3>2, InsideFinite
  <2>5. refCount' \in [Objects -> Nat]
    BY <2>2 DEF Enter, SyncTypeOK
  <2> QED BY <2>1, <2>2, <2>4, <2>5 DEF RefCountsExact
<1>10. ASSUME NEW t \in Threads, Wakes(t) PROVE Done
  <2>1. PICK ts \in SUBSET Threads, d \in Conds :
            Wake(ts, d) /\ \A u \in ts : at[u] = "sleeping" /\ onCond[u] = d
    BY <1>10, WakeSleepers
  <2>2. \A x \in Objects : Inside(x)' = Inside(x)
    BY <2>1 DEF Wake, Inside, SyncTypeOK
  <2> QED BY <2>1, <2>2, CountSame DEF Wake
<1>11. ASSUME NEW t \in Threads, WaitEnd(t) PROVE Done
  <2>1. /\ at[t] = "relocked" /\ Leave({onLock[t], onCond[t]})
        /\ UNCHANGED <<created, leaked>>
        /\ at' = [at EXCEPT ![t] = "out"]
        /\ onLock' = [onLock EXCEPT ![t] = NoObject] /\ onCond' = [onCond EXCEPT ![t] = NoObject]
    BY <1>11 DEF WaitEnd, Go
  <2>2. {onLock[t], onCond[t]} \in SUBSET created
    BY <2>1, InsideExists DEF Inner, InWait
  <2>3. \A x \in Objects : x \notin {onLock[t], onCond[t]} => Inside(x)' = Inside(x)
    BY <2>1 DEF Inside, SyncTypeOK
  <2>4. \A x \in Objects : x \in {onLock[t], onCond[t]} =>
                             t \in Inside(x) /\ Inside(x)' = Inside(x) \ {t}
    BY <2>1 DEF Inside, SyncTypeOK
  <2> QED BY <2>1, <2>2, <2>3, <2>4, CountLeave
<1>12. ASSUME UNCHANGED syncVars PROVE Done
  <2>1. \A x \in Objects : Inside(x)' = Inside(x)
    BY <1>12 DEF syncVars, Inside
  <2> QED BY <1>12, <2>1, CountSame DEF syncVars
<1>13. ASSUME NEW t \in Threads, Lifetime(t) PROVE Done
  BY <1>13, <1>1, <1>2, <1>3, Zenon DEF Lifetime
<1>14. ASSUME NEW t \in Threads, Locking(t) PROVE Done
  BY <1>14, <1>4, <1>5, <1>6, <1>7, Zenon DEF Locking
<1>15. ASSUME NEW t \in Threads, Waiting(t) PROVE Done
  <2>1. CASE \E c \in Conds, l \in Locks : WaitBegin(t, c, l) \/ WaitWrongOwner(t, c, l)
    BY <2>1, <1>8, <1>9, Zenon
  <2> QED BY <1>15, <2>1, <1>6, <1>10, <1>11, Zenon DEF Waiting, Wakes
<1> QED BY <1>12, <1>13, <1>14, <1>15, Zenon DEF SyncNext

-----------------------------------------------------------------------------
(* Types, and the places of threads.                                       *)

LEMMA PlaceNext ==
  ASSUME SyncTypeOK, PlaceInv, RefCountsExact, SleepInv, LockInv, [SyncNext]_syncVars
  PROVE  SyncTypeOK' /\ PlaceInv' /\ SleepInv'
<1> DEFINE Done == SyncTypeOK' /\ PlaceInv' /\ SleepInv'
<1>c. refCount' \in [Objects -> Nat]
  BY CountNext
<1>1. ASSUME NEW t \in Threads, NEW o \in Objects, Create(t, o) PROVE Done
  <2>1. CASE o \in Locks
    BY <1>1, <1>c, <2>1 DEF Create, SyncTypeOK, PlaceInv, SleepInv
  <2>2. CASE o \notin Locks
    BY <1>1, <1>c, <2>2 DEF Create, lockVars, SyncTypeOK, PlaceInv, SleepInv, Objects
  <2> QED BY <2>1, <2>2
<1>2. ASSUME NEW t \in Threads, NEW o \in Objects, DestroyBegin(t, o) PROVE Done
  <2>1. SyncTypeOK'
    BY <1>2, <1>c DEF DestroyBegin, Go, lockVars, SyncTypeOK, Objects, Steps
  <2>2. PlaceInv'
    BY <1>2 DEF DestroyBegin, Go, SyncTypeOK, PlaceInv, InWait
  <2>3. SleepInv'
    BY <1>2 DEF DestroyBegin, Go, SyncTypeOK, SleepInv
  <2> QED BY <2>1, <2>2, <2>3
<1>3. ASSUME NEW t \in Threads, DestroyEnd(t) PROVE Done
  <2>1. created' \subseteq created
    BY <1>3 DEF DestroyEnd
  <2>2. SyncTypeOK'
    BY <1>3, <1>c, <2>1 DEF DestroyEnd, Go, lockVars, SyncTypeOK, Steps
  <2>3. PlaceInv'
    BY <1>3 DEF DestroyEnd, Go, SyncTypeOK, PlaceInv, InWait
  <2>4. SleepInv'
    BY <1>3, <2>1 DEF DestroyEnd, Go, SyncTypeOK, SleepInv
  <2> QED BY <2>2, <2>3, <2>4
<1>4. ASSUME NEW t \in Threads, NEW l \in Locks, LockBegin(t, l) PROVE Done
  <2>1. SyncTypeOK'
    BY <1>4, <1>c DEF LockBegin, Go, lockVars, SyncTypeOK, Steps
  <2>2. PlaceInv'
    BY <1>4 DEF LockBegin, Go, SyncTypeOK, PlaceInv, InWait
  <2>3. SleepInv'
    BY <1>4 DEF LockBegin, Go, SyncTypeOK, SleepInv
  <2> QED BY <2>1, <2>2, <2>3
<1>5. ASSUME NEW t \in Threads, LockGot(t) PROVE Done
  <2>1. onLock[t] \in Locks
    BY <1>5 DEF LockGot, PlaceInv
  <2>2. SyncTypeOK'
    BY <1>5, <1>c, <2>1 DEF LockGot, Go, SyncTypeOK, Steps
  <2>3. PlaceInv'
    BY <1>5 DEF LockGot, Go, SyncTypeOK, PlaceInv, InWait
  <2>4. SleepInv'
    BY <1>5 DEF LockGot, Go, SyncTypeOK, SleepInv
  <2> QED BY <2>2, <2>3, <2>4
<1>6. ASSUME NEW t \in Threads, LockEnd(t) PROVE Done
  <2>1. count' \in [Locks -> Nat]
    <3>1. onLock[t] \in Locks /\ count[onLock[t]] \in Nat
      BY <1>6 DEF LockEnd, PlaceInv, SyncTypeOK
    <3>2. \/ count' = count
          \/ count' = [count EXCEPT ![onLock[t]] = count[onLock[t]] + 1]
      BY <1>6, <3>1 DEF LockEnd, SyncTypeOK
    <3> QED BY <3>1, <3>2 DEF SyncTypeOK
  <2>2. owner' \in [Locks -> Threads \cup {NoThread}]
    BY <1>6 DEF LockEnd, SyncTypeOK
  <2>3. SyncTypeOK'
    BY <1>6, <1>c, <2>1, <2>2 DEF LockEnd, Go, SyncTypeOK, Steps
  <2>4. PlaceInv'
    BY <1>6 DEF LockEnd, Go, SyncTypeOK, PlaceInv, InWait
  <2>5. SleepInv'
    BY <1>6 DEF LockEnd, Go, SyncTypeOK, SleepInv
  <2> QED BY <2>3, <2>4, <2>5
<1>7. ASSUME NEW t \in Threads, LockGiveUp(t) PROVE Done
  <2>1. SyncTypeOK'
    BY <1>7, <1>c DEF LockGiveUp, Go, lockVars, SyncTypeOK, Steps
  <2>2. PlaceInv'
    BY <1>7 DEF LockGiveUp, Go, SyncTypeOK, PlaceInv, InWait
  <2>3. SleepInv'
    BY <1>7 DEF LockGiveUp, Go, SyncTypeOK, SleepInv
  <2> QED BY <2>1, <2>2, <2>3
<1>8. ASSUME NEW t \in Threads, NEW l \in Locks, Unlock(t, l) PROVE Done
  <2>1. holder[l] = t /\ l \in created /\ (l \in Recursive => count[l] > 0)
    BY <1>8 DEF Unlock, LockInv, OwnerHolds
  <2>2. l \in Recursive => depth[l] > 0
    BY <2>1 DEF LockInv, DepthInv, SyncTypeOK
  <2>3. count' \in [Locks -> Nat]
    BY <1>8, <2>1 DEF Unlock, SyncTypeOK
  <2>4. depth' \in [Locks -> Nat]
    BY <1>8, <2>2 DEF Unlock, SyncTypeOK, Locks
  <2>5. owner' \in [Locks -> Threads \cup {NoThread}] /\ holder' \in [Locks -> Threads \cup {NoThread}]
    BY <1>8 DEF Unlock, SyncTypeOK
  <2>6. UNCHANGED <<created, sleepers, at, onLock, onCond, leaked>>
    BY <1>8 DEF Unlock
  <2> QED BY <1>c, <2>3, <2>4, <2>5, <2>6 DEF SyncTypeOK, PlaceInv, SleepInv
<1>9. ASSUME NEW t \in Threads, NEW c \in Conds, NEW l \in Locks,
             WaitBegin(t, c, l) \/ WaitWrongOwner(t, c, l)
      PROVE  Done
  <2>1. CASE WaitBegin(t, c, l)
    <3>1. SyncTypeOK'
      BY <1>c, <2>1 DEF WaitBegin, Go, SyncTypeOK, Steps
    <3>2. PlaceInv'
      BY <2>1 DEF WaitBegin, Go, SyncTypeOK, PlaceInv, InWait
    <3>3. SleepInv'
      BY <2>1 DEF WaitBegin, Go, SyncTypeOK, SleepInv
    <3> QED BY <3>1, <3>2, <3>3
  <2>2. CASE WaitWrongOwner(t, c, l)
    <3>1. leaked' \in [Objects -> Nat]
      BY <2>2 DEF WaitWrongOwner, SyncTypeOK
    <3> QED BY <1>c, <2>2, <3>1 DEF WaitWrongOwner, lockVars, SyncTypeOK, PlaceInv, SleepInv
  <2> QED BY <1>9, <2>1, <2>2
<1>10. ASSUME NEW t \in Threads, WaitSleep(t) PROVE Done
  <2>1. onLock[t] \in Plain /\ onCond[t] \in Conds
    BY <1>10 DEF WaitSleep, PlaceInv, InWait
  <2>2. SyncTypeOK'
    BY <1>10, <1>c, <2>1 DEF WaitSleep, Go, SyncTypeOK, Steps
  <2>3. PlaceInv'
    BY <1>10 DEF WaitSleep, Go, SyncTypeOK, PlaceInv, InWait
  <2>4. SleepInv'
    BY <1>10, <2>1 DEF WaitSleep, Go, SyncTypeOK, SleepInv
  <2> QED BY <2>2, <2>3, <2>4
<1>11. ASSUME NEW t \in Threads, Wakes(t) PROVE Done
  <2>1. PICK ts \in SUBSET Threads, c \in Conds :
            Wake(ts, c) /\ \A u \in ts : at[u] = "sleeping" /\ onCond[u] = c
    BY <1>11, WakeSleepers
  <2>2. SyncTypeOK'
    BY <1>c, <2>1 DEF Wake, lockVars, SyncTypeOK, Steps
  <2>3. PlaceInv'
    BY <2>1 DEF Wake, SyncTypeOK, PlaceInv, InWait
  <2>4. SleepInv'
    BY <2>1 DEF Wake, SyncTypeOK, SleepInv
  <2> QED BY <2>2, <2>3, <2>4
<1>12. ASSUME NEW t \in Threads, WaitRelock(t) PROVE Done
  <2>1. SyncTypeOK'
    BY <1>12, <1>c DEF WaitRelock, Go, SyncTypeOK, Steps
  <2>2. PlaceInv'
    BY <1>12 DEF WaitRelock, Go, SyncTypeOK, PlaceInv, InWait
  <2>3. SleepInv'
    BY <1>12 DEF WaitRelock, Go, SyncTypeOK, SleepInv
  <2> QED BY <2>1, <2>2, <2>3
<1>13. ASSUME NEW t \in Threads, WaitEnd(t) PROVE Done
  <2>1. SyncTypeOK'
    BY <1>13, <1>c DEF WaitEnd, Go, SyncTypeOK, Steps
  <2>2. PlaceInv'
    BY <1>13 DEF WaitEnd, Go, SyncTypeOK, PlaceInv, InWait
  <2>3. SleepInv'
    BY <1>13 DEF WaitEnd, Go, SyncTypeOK, SleepInv
  <2> QED BY <2>1, <2>2, <2>3
<1>14. CASE UNCHANGED syncVars
  BY <1>14 DEF syncVars, SyncTypeOK, PlaceInv, SleepInv
<1>15. ASSUME NEW t \in Threads, Lifetime(t) PROVE Done
  BY <1>15, <1>1, <1>2, <1>3, Zenon DEF Lifetime
<1>16. ASSUME NEW t \in Threads, Locking(t) PROVE Done
  BY <1>16, <1>4, <1>5, <1>6, <1>7, <1>8, Zenon DEF Locking
<1>17. ASSUME NEW t \in Threads, Waiting(t) PROVE Done
  BY <1>17, <1>9, <1>10, <1>11, <1>12, <1>13, Zenon DEF Waiting, Wakes
<1> QED BY <1>14, <1>15, <1>16, <1>17, Zenon DEF SyncNext

-----------------------------------------------------------------------------
(* Who has which lock.                                                     *)

\* A step that touches no lock, and moves threads neither to nor from one.
LEMMA LockSame ==
  ASSUME SyncTypeOK, LockInv, created' \subseteq created, UNCHANGED lockVars,
         \A u \in Threads : \/ at'[u] = at[u] /\ onLock'[u] = onLock[u]
                            \/ at[u] \notin Having /\ at'[u] \notin Having \cup {"locking"}
  PROVE  LockInv'
<1>1. OwnerHolds' /\ BetweenInv'
  BY DEF LockInv, OwnerHolds, BetweenInv, lockVars, Having
<1>2. PlainInv'
  BY DEF LockInv, PlainInv, lockVars
<1>3. DepthInv'
  BY DEF LockInv, DepthInv, lockVars, Having
<1>4. NoSelfDeadlock'
  BY DEF LockInv, NoSelfDeadlock, lockVars, Having
<1> QED BY <1>1, <1>2, <1>3, <1>4 DEF LockInv

LEMMA LockNext ==
  ASSUME SyncTypeOK, PlaceInv, RefCountsExact, SleepInv, LockInv, [SyncNext]_syncVars
  PROVE  LockInv'
<1>i. \A u \in Threads : at[u] \in Inner => onLock[u] \in Locks /\ onLock[u] \in created
  BY InsideExists
<1>1. ASSUME NEW t \in Threads, NEW o \in Objects, Create(t, o) PROVE LockInv'
  <2>1. CASE o \notin Locks
    <3>1. created' \cap Locks = created \cap Locks
      BY <1>1, <2>1 DEF Create
    <3>2. UNCHANGED <<lockVars, at, onLock>>
      BY <1>1, <2>1 DEF Create
    <3> QED BY <3>1, <3>2 DEF LockInv, OwnerHolds, BetweenInv, PlainInv, DepthInv, NoSelfDeadlock,
                              lockVars, Locks
  <2>2. CASE o \in Locks
    <3>1. /\ owner' = [owner EXCEPT ![o] = NoThread] /\ holder' = [holder EXCEPT ![o] = NoThread]
          /\ count' = [count EXCEPT ![o] = 0] /\ depth' = [depth EXCEPT ![o] = 0]
          /\ created' = created \cup {o} /\ o \notin created /\ UNCHANGED <<at, onLock>>
      BY <1>1, <2>2 DEF Create
    <3>2. OwnerHolds'
      BY <2>2, <3>1 DEF LockInv, OwnerHolds, SyncTypeOK
    <3>3. BetweenInv'
      BY <1>i, <2>2, <3>1 DEF LockInv, BetweenInv, SyncTypeOK, Having, Inner, InWait
    <3>4. PlainInv'
      BY <2>2, <3>1 DEF LockInv, PlainInv, SyncTypeOK, Locks
    <3>5. DepthInv'
      BY <2>2, <3>1 DEF LockInv, DepthInv, SyncTypeOK, Locks
    <3>6. NoSelfDeadlock'
      BY <1>i, <2>2, <3>1 DEF LockInv, NoSelfDeadlock, SyncTypeOK, Inner
    <3> QED BY <3>2, <3>3, <3>4, <3>5, <3>6 DEF LockInv
  <2> QED BY <2>1, <2>2
<1>2. ASSUME NEW t \in Threads, NEW o \in Objects, DestroyBegin(t, o) PROVE LockInv'
  <2>1. /\ at[t] = "out" /\ at' = [at EXCEPT ![t] = "destroying"] /\ UNCHANGED <<created, lockVars>>
        /\ \A u \in Threads : u /= t => onLock'[u] = onLock[u]
    BY <1>2 DEF DestroyBegin, Go, SyncTypeOK
  <2> QED BY <2>1, LockSame DEF SyncTypeOK, Having
<1>3. ASSUME NEW t \in Threads, DestroyEnd(t) PROVE LockInv'
  <2>1. /\ at[t] = "destroying" /\ at' = [at EXCEPT ![t] = "out"] /\ UNCHANGED lockVars
        /\ created' \subseteq created
        /\ \A u \in Threads : u /= t => onLock'[u] = onLock[u]
    BY <1>3 DEF DestroyEnd, Go, SyncTypeOK
  <2> QED BY <2>1, LockSame DEF SyncTypeOK, Having
<1>4. ASSUME NEW t \in Threads, NEW l \in Locks, LockBegin(t, l) PROVE LockInv'
  <2>1. /\ at[t] = "out" /\ onLock[t] = NoObject /\ l \in created
        /\ l \in Plain => owner[l] /= t
        /\ at' = [at EXCEPT ![t] = "locking"] /\ onLock' = [onLock EXCEPT ![t] = l]
        /\ UNCHANGED <<created, owner, count, holder, depth>>
    BY <1>4 DEF LockBegin, Go, lockVars, PlaceInv
  <2>2. OwnerHolds' /\ BetweenInv'
    BY <2>1 DEF LockInv, OwnerHolds, BetweenInv, SyncTypeOK, Having
  <2>3. PlainInv'
    BY <2>1 DEF LockInv, PlainInv, SyncTypeOK, Having
  <2>4. DepthInv'
    BY <2>1 DEF LockInv, DepthInv, SyncTypeOK
  <2>5. l \in Plain => holder[l] /= t
    BY <2>1 DEF LockInv, PlainInv, Having
  <2>6. NoSelfDeadlock'
    BY <2>1, <2>5 DEF LockInv, NoSelfDeadlock, SyncTypeOK
  <2> QED BY <2>2, <2>3, <2>4, <2>6 DEF LockInv
<1>5. ASSUME NEW t \in Threads, LockGot(t) PROVE LockInv'
  <2> DEFINE l == onLock[t]
  <2>1. /\ at[t] = "locking" /\ (holder[l] = NoThread \/ (l \in Recursive /\ holder[l] = t))
        /\ holder' = [holder EXCEPT ![l] = t] /\ depth' = [depth EXCEPT ![l] = @ + 1]
        /\ at' = [at EXCEPT ![t] = "locked"]
        /\ UNCHANGED <<created, owner, count, onLock>>
    BY <1>5 DEF LockGot, Go, Free
  <2>2. l \in Locks /\ l \in created
    BY <1>i, <2>1 DEF Inner
  <2>3. owner[l] \in {NoThread, t}
    BY <2>1, <2>2 DEF LockInv, OwnerHolds, SyncTypeOK
  <2>4. OwnerHolds'
    BY <2>1, <2>2, <2>3 DEF LockInv, OwnerHolds, SyncTypeOK
  <2>5. BetweenInv'
    BY <2>1, <2>2 DEF LockInv, BetweenInv, SyncTypeOK, Having
  <2>6. PlainInv'
    BY <2>1, <2>2 DEF LockInv, PlainInv, SyncTypeOK, Having
  <2>7. DepthInv'
    BY <2>1, <2>2 DEF LockInv, DepthInv, SyncTypeOK, Locks
  <2>8. NoSelfDeadlock'
    BY <2>1, <2>2 DEF LockInv, NoSelfDeadlock, SyncTypeOK
  <2> QED BY <2>4, <2>5, <2>6, <2>7, <2>8 DEF LockInv
<1>6. ASSUME NEW t \in Threads, LockEnd(t) PROVE LockInv'
  <2> DEFINE l == onLock[t]
  <2>1. /\ at[t] = "locked"
        /\ owner' = [owner EXCEPT ![l] = t]
        /\ count' = [count EXCEPT ![l] = IF l \in Recursive THEN @ + 1 ELSE @]
        /\ at' = [at EXCEPT ![t] = "out"] /\ onLock' = [onLock EXCEPT ![t] = NoObject]
        /\ UNCHANGED <<created, holder, depth>>
    BY <1>6 DEF LockEnd, Go
  <2>2. l \in Locks /\ l \in created /\ holder[l] = t
    BY <1>i, <2>1 DEF Inner, LockInv, BetweenInv, Having
  <2>3. OwnerHolds'
    BY <2>1, <2>2 DEF LockInv, OwnerHolds, SyncTypeOK
  <2>4. BetweenInv'
    BY <1>i, <2>1, <2>2 DEF LockInv, BetweenInv, SyncTypeOK, Having, Inner, InWait
  <2>5. PlainInv'
    BY <2>1, <2>2 DEF LockInv, PlainInv, SyncTypeOK, Having, Locks
  <2>6. DepthInv'
    BY <2>1, <2>2 DEF LockInv, DepthInv, SyncTypeOK, Locks
  <2>7. NoSelfDeadlock'
    BY <2>1 DEF LockInv, NoSelfDeadlock, SyncTypeOK
  <2> QED BY <2>3, <2>4, <2>5, <2>6, <2>7 DEF LockInv
<1>7. ASSUME NEW t \in Threads, LockGiveUp(t) PROVE LockInv'
  <2>1. /\ at[t] = "locking" /\ at' = [at EXCEPT ![t] = "out"] /\ UNCHANGED <<created, lockVars>>
        /\ onLock' = [onLock EXCEPT ![t] = NoObject]
    BY <1>7 DEF LockGiveUp, Go
  <2> QED BY <2>1, LockSame DEF SyncTypeOK, Having
<1>8. ASSUME NEW t \in Threads, NEW l \in Locks, Unlock(t, l) PROVE LockInv'
  <2>1. /\ at[t] = "out" /\ l \in created /\ owner[l] = t /\ holder[l] = t
        /\ onLock[t] = NoObject
        /\ UNCHANGED <<created, at, onLock>>
    BY <1>8 DEF Unlock, LockInv, OwnerHolds, PlaceInv
  <2>2. \A u \in Threads : at[u] \in Having => onLock[u] /= l
    BY <1>i, <2>1 DEF LockInv, BetweenInv, Having
  <2>3. CASE l \in Plain \/ count[l] = 1
    <3>1. /\ l \in Recursive => depth[l] = 1
          /\ depth[l] \in Nat /\ count[l] \in Nat
      BY <2>1, <2>3 DEF LockInv, DepthInv, SyncTypeOK
    <3>2. depth' = [depth EXCEPT ![l] = 0] /\ depth'[l] = 0
      <4>1. CASE l \in Plain
        BY <1>8, <4>1 DEF Unlock, SyncTypeOK
      <4>2. CASE l \in Recursive \ Plain
        <5>1. depth' = [depth EXCEPT ![l] = depth[l] - 1] /\ depth[l] - 1 = 0
          BY <1>8, <3>1, <4>2 DEF Unlock
        <5> QED BY <5>1 DEF SyncTypeOK
      <4> QED BY <4>1, <4>2 DEF Locks
    <3>3. holder' = [holder EXCEPT ![l] = NoThread]
      BY <1>8, <3>2 DEF Unlock
    <3>4. owner' = [owner EXCEPT ![l] = NoThread]
      BY <1>8, <2>3 DEF Unlock
    <3>5. /\ l \in Recursive => count' = [count EXCEPT ![l] = 0]
          /\ l \notin Recursive => count' = count
      <4>1. count' = [count EXCEPT ![l] = IF l \in Recursive THEN count[l] - 1 ELSE count[l]]
        BY <1>8 DEF Unlock
      <4>2. l \in Recursive => count[l] = 1
        BY <2>3
      <4>3. CASE l \in Recursive
        <5>1. count' = [count EXCEPT ![l] = count[l] - 1] /\ count[l] - 1 = 0
          BY <4>1, <4>2, <4>3
        <5> QED BY <4>3, <5>1
      <4>4. CASE l \notin Recursive
        <5>1. count' = [count EXCEPT ![l] = count[l]]
          BY <4>1, <4>4
        <5> QED BY <5>1, <4>4 DEF SyncTypeOK
      <4> QED BY <4>3, <4>4
    <3>6. OwnerHolds'
      BY <2>1, <3>2, <3>3, <3>4, <3>5 DEF LockInv, OwnerHolds, SyncTypeOK
    <3>7. BetweenInv'
      BY <2>1, <2>2, <3>2, <3>3, <3>4, <3>5 DEF LockInv, BetweenInv, SyncTypeOK
    <3>8. PlainInv'
      BY <2>1, <3>2, <3>3, <3>4, <3>5 DEF LockInv, PlainInv, SyncTypeOK, Locks
    <3>9. DepthInv'
      <4>1. ASSUME NEW k \in Recursive, k /= l
            PROVE  UNCHANGED <<holder[k], depth[k], count[k]>>
        BY <3>2, <3>3, <3>5, <4>1 DEF SyncTypeOK, Locks
      <4>2. l \in Recursive => holder'[l] = NoThread /\ depth'[l] = 0 /\ count'[l] = 0
        BY <3>2, <3>3, <3>5 DEF SyncTypeOK, Locks
      <4> QED BY <2>1, <4>1, <4>2 DEF LockInv, DepthInv
    <3>10. NoSelfDeadlock'
      BY <2>1, <3>2, <3>3, <3>4, <3>5 DEF LockInv, NoSelfDeadlock, SyncTypeOK
    <3> QED BY <3>6, <3>7, <3>8, <3>9, <3>10 DEF LockInv
  <2>4. CASE l \notin Plain /\ count[l] /= 1
    <3>1. l \in Recursive /\ depth[l] = count[l] /\ count[l] \in Nat /\ count[l] > 1
      BY <1>8, <2>1, <2>4 DEF Unlock, LockInv, DepthInv, SyncTypeOK, Locks
    <3>2. /\ owner' = owner /\ holder' = holder
          /\ depth' = [depth EXCEPT ![l] = @ - 1] /\ count' = [count EXCEPT ![l] = @ - 1]
      BY <1>8, <2>4, <3>1 DEF Unlock, SyncTypeOK, Locks
    <3>3. OwnerHolds' /\ BetweenInv' /\ PlainInv' /\ NoSelfDeadlock'
      BY <2>1, <3>2 DEF LockInv, OwnerHolds, BetweenInv, PlainInv, NoSelfDeadlock
    <3>4. DepthInv'
      BY <2>1, <3>1, <3>2 DEF LockInv, DepthInv, SyncTypeOK, Locks
    <3> QED BY <3>3, <3>4 DEF LockInv
  <2> QED BY <2>3, <2>4
<1>9. ASSUME NEW t \in Threads, NEW c \in Conds, NEW l \in Locks, WaitBegin(t, c, l) PROVE LockInv'
  <2>1. /\ at[t] = "out" /\ l \in created /\ l \in Plain /\ owner[l] = t /\ holder[l] = t
        /\ owner' = [owner EXCEPT ![l] = NoThread]
        /\ at' = [at EXCEPT ![t] = "releasing"] /\ onLock' = [onLock EXCEPT ![t] = l]
        /\ UNCHANGED <<created, count, holder, depth>>
    BY <1>9 DEF WaitBegin, Go, LockInv, OwnerHolds
  <2>2. OwnerHolds'
    BY <2>1 DEF LockInv, OwnerHolds, SyncTypeOK
  <2>3. BetweenInv'
    BY <2>1 DEF LockInv, BetweenInv, SyncTypeOK, Having
  <2>4. PlainInv'
    BY <2>1 DEF LockInv, PlainInv, SyncTypeOK, Having
  <2>5. DepthInv'
    BY <2>1 DEF LockInv, DepthInv, SyncTypeOK
  <2>6. NoSelfDeadlock'
    BY <2>1 DEF LockInv, NoSelfDeadlock, SyncTypeOK
  <2> QED BY <2>2, <2>3, <2>4, <2>5, <2>6 DEF LockInv
<1>10. ASSUME NEW t \in Threads, NEW c \in Conds, NEW l \in Locks, WaitWrongOwner(t, c, l) PROVE LockInv'
  BY <1>10, LockSame DEF WaitWrongOwner
<1>11. ASSUME NEW t \in Threads, WaitSleep(t) PROVE LockInv'
  <2> DEFINE l == onLock[t]
  <2>1. /\ at[t] = "releasing" /\ l \in created /\ l \in Plain /\ holder[l] = t /\ owner[l] = NoThread
        /\ holder' = [holder EXCEPT ![l] = NoThread] /\ depth' = [depth EXCEPT ![l] = 0]
        /\ at' = [at EXCEPT ![t] = "sleeping"]
        /\ UNCHANGED <<created, owner, count, onLock>>
    BY <1>11, <1>i DEF WaitSleep, Go, LockInv, BetweenInv, PlaceInv, Having, Inner, InWait
  <2>2. OwnerHolds'
    BY <2>1 DEF LockInv, OwnerHolds, SyncTypeOK
  <2>3. BetweenInv'
    BY <2>1, <1>i DEF LockInv, BetweenInv, SyncTypeOK, Having, Inner, InWait
  <2>4. PlainInv'
    BY <2>1 DEF LockInv, PlainInv, SyncTypeOK, Having, Locks
  <2>5. DepthInv'
    BY <2>1 DEF LockInv, DepthInv, SyncTypeOK, Locks
  <2>6. NoSelfDeadlock'
    BY <2>1 DEF LockInv, NoSelfDeadlock, SyncTypeOK, Locks
  <2> QED BY <2>2, <2>3, <2>4, <2>5, <2>6 DEF LockInv
<1>12. ASSUME NEW t \in Threads, Wakes(t) PROVE LockInv'
  <2>1. PICK ts \in SUBSET Threads, c \in Conds :
            Wake(ts, c) /\ \A u \in ts : at[u] = "sleeping" /\ onCond[u] = c
    BY <1>12, WakeSleepers
  <2>2. /\ UNCHANGED <<created, lockVars, onLock>>
        /\ at' = [u \in Threads |-> IF u \in ts THEN "relocking" ELSE at[u]]
    BY <2>1 DEF Wake
  <2> QED BY <2>1, <2>2, LockSame DEF Having
<1>13. ASSUME NEW t \in Threads, WaitRelock(t) PROVE LockInv'
  <2> DEFINE l == onLock[t]
  <2>1. /\ at[t] = "relocking" /\ l \in created /\ l \in Plain /\ holder[l] = NoThread
        /\ holder' = [holder EXCEPT ![l] = t] /\ depth' = [depth EXCEPT ![l] = 1]
        /\ at' = [at EXCEPT ![t] = "relocked"]
        /\ UNCHANGED <<created, owner, count, onLock>>
    BY <1>13, <1>i DEF WaitRelock, Go, PlaceInv, Inner, InWait
  <2>2. OwnerHolds'
    BY <2>1 DEF LockInv, OwnerHolds, SyncTypeOK
  <2>3. BetweenInv'
    BY <2>1 DEF LockInv, BetweenInv, SyncTypeOK, Having, Locks
  <2>4. PlainInv'
    BY <2>1 DEF LockInv, PlainInv, SyncTypeOK, Having, Locks
  <2>5. DepthInv'
    BY <2>1 DEF LockInv, DepthInv, SyncTypeOK, Locks
  <2>6. NoSelfDeadlock'
    BY <2>1 DEF LockInv, NoSelfDeadlock, SyncTypeOK, Locks
  <2> QED BY <2>2, <2>3, <2>4, <2>5, <2>6 DEF LockInv
<1>14. ASSUME NEW t \in Threads, WaitEnd(t) PROVE LockInv'
  <2> DEFINE l == onLock[t]
  <2>1. /\ at[t] = "relocked" /\ l \in created /\ l \in Plain /\ holder[l] = t
        /\ owner' = [owner EXCEPT ![l] = t]
        /\ at' = [at EXCEPT ![t] = "out"] /\ onLock' = [onLock EXCEPT ![t] = NoObject]
        /\ UNCHANGED <<created, count, holder, depth>>
    BY <1>14, <1>i DEF WaitEnd, Go, LockInv, BetweenInv, PlaceInv, Having, Inner, InWait
  <2>2. OwnerHolds'
    BY <2>1 DEF LockInv, OwnerHolds, SyncTypeOK
  <2>3. BetweenInv'
    BY <2>1, <1>i DEF LockInv, BetweenInv, SyncTypeOK, Having, Inner, InWait
  <2>4. PlainInv'
    BY <2>1 DEF LockInv, PlainInv, SyncTypeOK, Having, Locks
  <2>5. DepthInv'
    BY <2>1 DEF LockInv, DepthInv, SyncTypeOK, Locks
  <2>6. NoSelfDeadlock'
    BY <2>1 DEF LockInv, NoSelfDeadlock, SyncTypeOK
  <2> QED BY <2>2, <2>3, <2>4, <2>5, <2>6 DEF LockInv
<1>15. CASE UNCHANGED syncVars
  BY <1>15, LockSame DEF syncVars, lockVars
<1>16. ASSUME NEW t \in Threads, Lifetime(t) PROVE LockInv'
  BY <1>16, <1>1, <1>2, <1>3, Zenon DEF Lifetime
<1>17. ASSUME NEW t \in Threads, Locking(t) PROVE LockInv'
  BY <1>17, <1>4, <1>5, <1>6, <1>7, <1>8, Zenon DEF Locking
<1>18. ASSUME NEW t \in Threads, Waiting(t) PROVE LockInv'
  BY <1>18, <1>9, <1>10, <1>11, <1>12, <1>13, <1>14, Zenon DEF Waiting, Wakes
<1> QED BY <1>15, <1>16, <1>17, <1>18, Zenon DEF SyncNext

-----------------------------------------------------------------------------
(* The theorems.                                                           *)

LEMMA SyncInitInv == SyncInit => SyncInv
<1> SUFFICES ASSUME SyncInit PROVE SyncInv
  OBVIOUS
<1>1. SyncTypeOK /\ PlaceInv /\ SleepInv
  BY DEF SyncInit, SyncTypeOK, PlaceInv, SleepInv, InWait, Steps, NoObject
<1>2. \A o \in Objects : Inside(o) = {}
  BY DEF SyncInit, Inside
<1>3. RefCountsExact
  BY <1>2, FS_EmptySet DEF SyncInit, RefCountsExact
<1>4. LockInv
  BY DEF SyncInit, LockInv, OwnerHolds, BetweenInv, PlainInv, DepthInv, NoSelfDeadlock, Having
<1> QED BY <1>1, <1>3, <1>4 DEF SyncInv

LEMMA SyncNextInv == SyncInv /\ [SyncNext]_syncVars => SyncInv'
BY CountNext, PlaceNext, LockNext DEF SyncInv

THEOREM SyncInvariant == SyncSpec => []SyncInv
BY SyncInitInv, SyncNextInv, PTL DEF SyncSpec

\* The fields of the sync objects have their types; the counts never go below 0.
THEOREM SyncTypes == SyncSpec => []SyncTypeOK
<1>1. SyncInv => SyncTypeOK
  BY DEF SyncInv
<1> QED BY <1>1, SyncInvariant, PTL

\* ref_count is the number of calls inside plus the references cond_wait forgot,
\* and no call is inside an object that has been freed.
THEOREM CountsCorrect == SyncSpec => []RefCountsExact
<1>1. SyncInv => RefCountsExact
  BY DEF SyncInv
<1> QED BY <1>1, SyncInvariant, PTL

\* The owner of a lock has it.
THEOREM OwnersCorrect == SyncSpec => []OwnerHolds
<1>1. SyncInv => OwnerHolds
  BY DEF SyncInv, LockInv
<1> QED BY <1>1, SyncInvariant, PTL

\* No thread waits for a plain lock of its own: it asks for the owner before
\* (sync.c:181), and the answer is true although the owner is written outside
\* the lock.
THEOREM NoSelfDeadlocks == SyncSpec => []NoSelfDeadlock
<1>1. SyncInv => NoSelfDeadlock
  BY DEF SyncInv, LockInv
<1> QED BY <1>1, SyncInvariant, PTL
=============================================================================
