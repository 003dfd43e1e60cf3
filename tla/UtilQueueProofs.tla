-------------------------- MODULE UtilQueueProofs --------------------------
(***************************************************************************)
(* UtilQueue for any number of threads, any capacity and any set of calls: *)
(* type correctness, the meaning of reference_count, and that deletion     *)
(* frees nothing a sleeping thread comes back to.                          *)
(***************************************************************************)
EXTENDS UtilQueue, FiniteSetTheorems, SequenceTheorems, TLAPS

USE ThreadsAssumption, MaxItemsAssumption, BoundsAssumption

-----------------------------------------------------------------------------
(* Type correctness.                                                       *)

\* Storing a message, at either end, adds that message and nothing else.
LEMMA PlaceFacts ==
  ASSUME contents \in Seq(Message), NEW m \in Message, Place(m)
  PROVE  /\ contents' \in Seq(Message)
         /\ Len(contents') = Len(contents) + 1
         /\ \A i \in DOMAIN contents' :
              contents'[i] = m \/ \E j \in DOMAIN contents : contents'[i] = contents[j]
<1>1. CASE m.call.front
  <2>1. contents' = <<m>> \o contents
    BY <1>1 DEF Place
  <2> QED BY <2>1
<1>2. CASE ~m.call.front
  <2>1. contents' = Append(contents, m)
    BY <1>2 DEF Place
  <2> QED BY <2>1
<1> QED BY <1>1, <1>2

\* The second half of an add keeps the queue well formed and within capacity.
LEMMA StoreType ==
  ASSUME TypeOK, NEW m \in Message, Store(m)
  PROVE  /\ contents' \in Seq(Message)
         /\ Len(contents') <= MaxItems
         /\ recvEvent' \in BOOLEAN
         /\ sendEvent' \in BOOLEAN
<1>1. CASE UNCHANGED <<contents, recvEvent, sendEvent>>
  BY <1>1 DEF TypeOK
<1>2. CASE /\ ~IsFull
           /\ Place(m)
           /\ sendEvent' = FALSE
           /\ recvEvent' = TRUE
  <2>1. contents' \in Seq(Message) /\ Len(contents') = Len(contents) + 1
    BY <1>2, PlaceFacts DEF TypeOK
  <2>2. Len(contents) \in Nat /\ Len(contents) < MaxItems
    BY <1>2 DEF TypeOK, IsFull
  <2>3. Len(contents') <= MaxItems
    BY <2>1, <2>2
  <2> QED BY <1>2, <2>1, <2>3, Zenon
<1> QED BY <1>1, <1>2 DEF Store

\* So does the second half of a get.
LEMMA TakeType ==
  ASSUME TypeOK, Take
  PROVE  /\ contents' \in Seq(Message)
         /\ Len(contents') <= MaxItems
         /\ recvEvent' \in BOOLEAN
         /\ sendEvent' \in BOOLEAN
<1>1. CASE UNCHANGED <<contents, recvEvent, sendEvent>>
  BY <1>1 DEF TypeOK
<1>2. CASE /\ ~IsEmpty
           /\ contents' = Tail(contents)
           /\ recvEvent' = FALSE
           /\ sendEvent' = TRUE
  <2>1. contents' \in Seq(Message) /\ Len(contents') = Len(contents) - 1
    BY <1>2 DEF TypeOK, IsEmpty
  <2>2. Len(contents') <= MaxItems
    BY <2>1 DEF TypeOK
  <2> QED BY <1>2, <2>1, <2>2, Zenon
<1> QED BY <1>1, <1>2 DEF Take

\* Moving one thread to another point of its call keeps pc well typed.
LEMMA GoType ==
  ASSUME pc \in [Threads -> Points], NEW t, NEW p \in Points, Go(t, p)
  PROVE  pc' \in [Threads -> Points]
BY DEF Go

-----------------------------------------------------------------------------
(* Counting the threads inside a call.                                     *)

LEMMA InsideFinite == IsFiniteSet(Inside) /\ Cardinality(Inside) \in Nat
BY FS_Subset, FS_CardinalityType DEF Inside

\* A thread that begins to wait is counted.
LEMMA CountEnter ==
  ASSUME TypeOK, RefcountExact, NEW t \in Threads, pc[t] = "idle",
         NEW p \in Waiting, Go(t, p), refcount' = refcount + 1
  PROVE  refcount' \in Nat /\ RefcountExact'
<1>1. Inside' = Inside \cup {t}
  BY DEF Inside, Go, TypeOK
<1>2. t \notin Inside
  BY DEF Inside, Waiting
<1>3. Cardinality(Inside \cup {t}) = Cardinality(Inside) + 1
  BY <1>2, InsideFinite, FS_AddElement
<1>4. refcount' = Cardinality(Inside')
  BY <1>1, <1>3 DEF RefcountExact
<1>5. refcount' \in Nat
  BY InsideFinite DEF RefcountExact
<1> QED BY <1>4, <1>5 DEF RefcountExact

\* A thread that returns from its wait is no longer counted.
LEMMA CountLeave ==
  ASSUME TypeOK, RefcountExact, NEW t \in Threads, pc[t] \in Waiting,
         Go(t, "idle"), refcount' = refcount - 1
  PROVE  refcount' \in Nat /\ RefcountExact' /\ Inside' \subseteq Inside
<1>1. Inside' = Inside \ {t}
  BY DEF Inside, Go, TypeOK, Waiting
<1>2. t \in Inside
  BY DEF Inside
<1>3. IsFiniteSet(Inside \ {t}) /\ Cardinality(Inside \ {t}) = Cardinality(Inside) - 1
  BY <1>2, InsideFinite, FS_RemoveElement
<1>4. Cardinality(Inside \ {t}) \in Nat
  BY <1>3, FS_CardinalityType
<1> QED BY <1>1, <1>3, <1>4 DEF RefcountExact

\* Any other step of a thread leaves the count alone.
LEMMA CountSame ==
  ASSUME TypeOK, RefcountExact, UNCHANGED refcount,
         NEW t \in Threads, NEW p \in Points, Go(t, p),
         pc[t] \in Waiting <=> p \in Waiting
  PROVE  Inside' = Inside /\ RefcountExact'
<1>1. Inside' = Inside
  BY DEF Inside, Go, TypeOK
<1> QED BY <1>1 DEF RefcountExact

\* A queue with no reference has nobody inside.
LEMMA ZeroMeansNobody ==
  ASSUME RefcountExact, refcount = 0
  PROVE  Inside = {}
BY InsideFinite, FS_EmptySet DEF RefcountExact

-----------------------------------------------------------------------------
(* The inductive invariant: TypeOK alone is not inductive, because the     *)
(* decrement of reference_count stays in Nat only while it counts Inside,  *)
(* and Create may reset it to 0 only because nobody is inside a freed      *)
(* queue.                                                                  *)

IInv == TypeOK /\ RefcountExact /\ NoUseAfterFree

LEMMA InitIInv == Init => IInv
<1> SUFFICES ASSUME Init PROVE IInv
  OBVIOUS
<1>1. TypeOK
  <2>1. contents \in Seq(Message) /\ Len(contents) <= MaxItems
    BY DEF Init
  <2>2. sent \in 0..MaxSends /\ opened \in 0..MaxOpens /\ refcount \in Nat
    BY DEF Init
  <2>3. pc \in [Threads -> Points] /\ call \in [Threads -> Message \cup {NoMessage}]
    BY DEF Init, Points
  <2>4. \A t \in Threads : pc[t] \notin {"addWait", "addRetry"}
    BY DEF Init
  <2>5. /\ live \in BOOLEAN /\ deleting \in BOOLEAN
        /\ recvEvent \in BOOLEAN /\ sendEvent \in BOOLEAN
    BY Zenon DEF Init
  <2> QED BY <2>1, <2>2, <2>3, <2>4, <2>5 DEF TypeOK
<1>2. Inside = {}
  BY DEF Init, Inside, Waiting
<1> QED BY <1>1, <1>2, FS_EmptySet DEF Init, IInv, RefcountExact, NoUseAfterFree

\* The steps of an add.
LEMMA AddIInv ==
  ASSUME IInv, NEW t \in Senders, Add(t)
  PROVE  IInv'
<1> USE DEF IInv
<1>0. t \in Threads
  BY DEF Threads
<1>1. ASSUME NEW c \in Calls, AddNow(t, c)
      PROVE  IInv'
  <2>1. [call |-> c, id |-> sent + 1] \in Message /\ sent' \in 0..MaxSends
    BY <1>1 DEF AddNow, AddStart, TypeOK, Message
  <2>2. Store([call |-> c, id |-> sent + 1])
    BY <1>1 DEF AddNow
  <2>3. TypeOK'
    BY <1>1, <2>1, <2>2, StoreType DEF AddNow, TypeOK
  <2>4. UNCHANGED <<Inside, refcount, live>>
    BY <1>1 DEF AddNow, Inside
  <2> QED BY <2>3, <2>4 DEF RefcountExact, NoUseAfterFree
<1>2. ASSUME NEW c \in Calls, AddBlock(t, c)
      PROVE  IInv'
  <2>1. [call |-> c, id |-> sent + 1] \in Message /\ sent' \in 0..MaxSends
    BY <1>2 DEF AddBlock, AddStart, TypeOK, Message
  <2>2. pc' \in [Threads -> Points]
    BY <1>2, GoType DEF AddBlock, TypeOK, Points, Waiting
  <2>3. /\ call' \in [Threads -> Message \cup {NoMessage}]
        /\ \A u \in Threads : pc'[u] \in {"addWait", "addRetry"} => call'[u] \in Message
    BY <1>2, <2>1 DEF AddBlock, TypeOK, Go
  <2>4. refcount' \in Nat /\ RefcountExact'
    BY <1>0, <1>2, CountEnter DEF AddBlock, AddStart, Waiting
  <2>5. TypeOK'
    BY <1>2, <2>1, <2>2, <2>3, <2>4 DEF AddBlock, TypeOK
  <2>6. live'
    BY <1>2 DEF AddBlock, AddStart, Usable
  <2> QED BY <2>4, <2>5, <2>6 DEF NoUseAfterFree
<1>3. ASSUME AddWake(t) \/ AddTimeout(t)
      PROVE  IInv'
  <2>1. /\ Go(t, "addRetry") /\ pc[t] = "addWait"
        /\ UNCHANGED <<contents, live, deleting, refcount, recvEvent, call, sent, opened>>
        /\ sendEvent' \in BOOLEAN
    BY <1>3 DEF AddWake, AddTimeout, queueVars, TypeOK
  <2>2. TypeOK'
    BY <1>0, <2>1 DEF TypeOK, Go, Points, Waiting
  <2>3. Inside' = Inside /\ RefcountExact'
    BY <1>0, <2>1, CountSame DEF Points, Waiting
  <2> QED BY <2>1, <2>2, <2>3 DEF NoUseAfterFree
<1>4. ASSUME AddResume(t)
      PROVE  IInv'
  <2>1. call[t] \in Message
    BY <1>0, <1>4 DEF AddResume, TypeOK
  <2>2. /\ contents' \in Seq(Message)
        /\ Len(contents') <= MaxItems
        /\ recvEvent' \in BOOLEAN
        /\ sendEvent' \in BOOLEAN
    BY <1>4, <2>1, StoreType DEF AddResume, TypeOK
  <2>3. pc' \in [Threads -> Points]
    BY <1>4, GoType DEF AddResume, TypeOK, Points
  <2>4. /\ call' \in [Threads -> Message \cup {NoMessage}]
        /\ \A u \in Threads : pc'[u] \in {"addWait", "addRetry"} => call'[u] \in Message
    BY <1>4 DEF AddResume, TypeOK, Go
  <2>5. refcount' \in Nat /\ RefcountExact' /\ Inside' \subseteq Inside
    BY <1>0, <1>4, CountLeave DEF AddResume, Waiting
  <2>6. TypeOK'
    BY <1>4, <2>2, <2>3, <2>4, <2>5 DEF AddResume, TypeOK
  <2>7. NoUseAfterFree'
    BY <1>4, <2>5 DEF AddResume, NoUseAfterFree
  <2> QED BY <2>5, <2>6, <2>7
<1> QED BY <1>1, <1>2, <1>3, <1>4 DEF Add

\* The steps of a get.
LEMMA GetIInv ==
  ASSUME IInv, NEW t \in Receivers, Get(t)
  PROVE  IInv'
<1> USE DEF IInv
<1>0. t \in Threads
  BY DEF Threads
<1>1. ASSUME GetNow(t)
      PROVE  IInv'
  <2>1. TypeOK'
    BY <1>1, TakeType DEF GetNow, TypeOK
  <2>2. UNCHANGED <<Inside, refcount, live>>
    BY <1>1 DEF GetNow, Inside
  <2> QED BY <2>1, <2>2 DEF RefcountExact, NoUseAfterFree
<1>2. ASSUME GetBlock(t)
      PROVE  IInv'
  <2>1. refcount' \in Nat /\ RefcountExact'
    BY <1>0, <1>2, CountEnter DEF GetBlock, Waiting
  <2>2. TypeOK'
    BY <1>0, <1>2, <2>1 DEF GetBlock, TypeOK, Go, Points, Waiting
  <2>3. live'
    BY <1>2 DEF GetBlock, Usable
  <2> QED BY <2>1, <2>2, <2>3 DEF NoUseAfterFree
<1>3. ASSUME GetWake(t) \/ GetTimeout(t)
      PROVE  IInv'
  <2>1. /\ Go(t, "getRetry") /\ pc[t] = "getWait"
        /\ UNCHANGED <<contents, live, deleting, refcount, sendEvent, call, sent, opened>>
        /\ recvEvent' \in BOOLEAN
    BY <1>3 DEF GetWake, GetTimeout, queueVars, TypeOK
  <2>2. TypeOK'
    BY <1>0, <2>1 DEF TypeOK, Go, Points, Waiting
  <2>3. Inside' = Inside /\ RefcountExact'
    BY <1>0, <2>1, CountSame DEF Points, Waiting
  <2> QED BY <2>1, <2>2, <2>3 DEF NoUseAfterFree
<1>4. ASSUME GetResume(t)
      PROVE  IInv'
  <2>1. /\ contents' \in Seq(Message)
        /\ Len(contents') <= MaxItems
        /\ recvEvent' \in BOOLEAN
        /\ sendEvent' \in BOOLEAN
    BY <1>4, TakeType DEF GetResume, TypeOK
  <2>2. refcount' \in Nat /\ RefcountExact' /\ Inside' \subseteq Inside
    BY <1>0, <1>4, CountLeave DEF GetResume, Waiting
  <2>3. TypeOK'
    BY <1>0, <1>4, <2>1, <2>2 DEF GetResume, TypeOK, Go, Points, Waiting
  <2>4. NoUseAfterFree'
    BY <1>4, <2>2 DEF GetResume, NoUseAfterFree
  <2> QED BY <2>2, <2>3, <2>4
<1> QED BY <1>1, <1>2, <1>3, <1>4 DEF Get

\* Freeing the queue keeps the invariant when its reference count is zero.
LEMMA FreeIInv ==
  ASSUME IInv, refcount = 0, FreeQueue, NEW t \in Threads,
         pc[t] \notin Waiting, Go(t, "idle"), UNCHANGED <<call, sent, opened>>
  PROVE  IInv'
<1> USE DEF IInv
<1>1. Inside' = {}
  BY ZeroMeansNobody DEF Inside, Go, TypeOK, Waiting
<1>2. TypeOK'
  <2>1. contents' \in Seq(Message) /\ Len(contents') <= MaxItems /\ refcount' \in Nat
    BY DEF FreeQueue
  <2>2. /\ live' \in BOOLEAN /\ deleting' \in BOOLEAN
        /\ recvEvent' \in BOOLEAN /\ sendEvent' \in BOOLEAN
    BY Zenon DEF FreeQueue
  <2>3. /\ pc' \in [Threads -> Points]
        /\ \A u \in Threads : pc'[u] \in {"addWait", "addRetry"} => call'[u] \in Message
    BY DEF TypeOK, Go, Points
  <2> QED BY <2>1, <2>2, <2>3 DEF TypeOK
<1> QED BY <1>1, <1>2, FS_EmptySet DEF FreeQueue, RefcountExact, NoUseAfterFree

\* The steps of a creation and of a deletion.
LEMMA DeleteIInv ==
  ASSUME IInv, NEW t \in Deleters, Create(t) \/ Delete(t)
  PROVE  IInv'
<1> USE DEF IInv
<1>0. t \in Threads
  BY DEF Threads
<1>1. CASE Create(t)
  <2>1. Inside' = {}
    BY <1>1 DEF Create, NoUseAfterFree, Inside
  <2>2. TypeOK'
    <3>1. /\ contents' \in Seq(Message) /\ Len(contents') <= MaxItems /\ refcount' \in Nat
          /\ opened' \in 0..MaxOpens
      BY <1>1 DEF Create, TypeOK
    <3>2. /\ live' \in BOOLEAN /\ deleting' \in BOOLEAN
          /\ recvEvent' \in BOOLEAN /\ sendEvent' \in BOOLEAN
      BY <1>1, Zenon DEF Create
    <3> QED BY <1>1, <3>1, <3>2 DEF Create, TypeOK
  <2> QED BY <1>1, <2>1, <2>2, FS_EmptySet DEF Create, RefcountExact, NoUseAfterFree
<1>2. ASSUME NEW p \in Points \ Waiting, Go(t, p), pc[t] \notin Waiting,
             UNCHANGED <<contents, live, refcount, call, sent, opened>>,
             deleting' \in BOOLEAN, recvEvent' \in BOOLEAN, sendEvent' \in BOOLEAN
      PROVE  IInv'
  <2>1. Inside' = Inside /\ RefcountExact'
    BY <1>0, <1>2, CountSame
  <2>2. TypeOK'
    BY <1>0, <1>2 DEF TypeOK, Go, Points, Waiting
  <2> QED BY <1>2, <2>1, <2>2 DEF NoUseAfterFree
<1>3. CASE DeleteCheck(t) \/ DeleteSignal(t)
  BY <1>2, <1>3 DEF DeleteCheck, DeleteSignal, queueVars, TypeOK, Points, Waiting
<1>4. CASE DeleteEnter(t)
  <2>1. CASE refcount = 0
    BY <1>0, <1>4, <2>1, FreeIInv DEF DeleteEnter, Waiting
  <2>2. CASE refcount > 0
    <3>1. /\ pc[t] \notin Waiting /\ Go(t, "delSignal")
          /\ UNCHANGED <<contents, live, refcount, recvEvent, sendEvent, call, sent, opened>>
          /\ deleting' = TRUE
      BY <1>4, <2>2 DEF DeleteEnter, Waiting
    <3>2. "delSignal" \in Points \ Waiting
      BY DEF Points, Waiting
    <3> QED BY <1>2, <3>1, <3>2 DEF TypeOK
  <2> QED BY <1>4, <2>1, <2>2 DEF DeleteEnter
<1>5. CASE DeleteRetry(t)
  <2>1. CASE refcount = 0
    BY <1>0, <1>5, <2>1, FreeIInv DEF DeleteRetry, Waiting
  <2>2. CASE refcount > 0
    BY <1>2, <1>5, <2>2 DEF DeleteRetry, queueVars, TypeOK, Points, Waiting
  <2> QED BY <1>5, <2>1, <2>2 DEF DeleteRetry
<1> QED BY <1>1, <1>3, <1>4, <1>5 DEF Delete

LEMMA NextIInv == IInv /\ [Next]_vars => IInv'
<1> SUFFICES ASSUME IInv, [Next]_vars PROVE IInv'
  OBVIOUS
<1>1. CASE Next
  BY <1>1, AddIInv, GetIInv, DeleteIInv DEF Next
<1>2. CASE UNCHANGED vars
  BY <1>2 DEF vars, IInv, TypeOK, RefcountExact, NoUseAfterFree, Inside
<1> QED BY <1>1, <1>2

LEMMA Inductive == Spec => []IInv
BY InitIInv, NextIInv, PTL DEF Spec

\* Every variable of the queue and every thread's place stay of their type:
\* reference_count, an unsigned integer, is never decremented below zero.
THEOREM TypeCorrect == Spec => []TypeOK
BY Inductive, PTL DEF IInv

\* reference_count is always the number of threads inside add or get.
THEOREM RefcountCorrect == Spec => []RefcountExact
BY Inductive, PTL DEF IInv

\* Util_queue_delete never frees the buffers under a thread that is still
\* inside add or get, for any number of threads and of concurrent deletions.
THEOREM DeletionSafe == Spec => []NoUseAfterFree
BY Inductive, PTL DEF IInv

-----------------------------------------------------------------------------
(* Wake-ups of a single receiver.                                          *)

\* With one receiver the signal it sleeps on is never lost, for any number of
\* senders and any capacity: what the five worker threads, each the only
\* reader of its command queue, rely on.
THEOREM WakeupNotLost ==
  ASSUME NEW r, Receivers = {r}
  PROVE  Spec => []ReceiveWakeup
<1>1. Init => ReceiveWakeup
  BY DEF Init, ReceiveWakeup, IsEmpty
<1>2. IInv /\ ReceiveWakeup /\ [Next]_vars => ReceiveWakeup'
  <2> SUFFICES ASSUME IInv, ReceiveWakeup, [Next]_vars,
                      pc'[r] = "getWait", ~IsEmpty'
               PROVE  recvEvent'
    BY DEF ReceiveWakeup
  <2>0. r \in Threads /\ TypeOK
    BY DEF Threads, IInv
  <2>1. ASSUME NEW t \in Senders, Add(t)
        PROVE  recvEvent'
    <3>1. pc[r] = "getWait"
      BY <2>0, <2>1 DEF Add, AddNow, AddBlock, AddWake, AddTimeout, AddResume, Go,
                        TypeOK
    <3>2. recvEvent' \/ UNCHANGED <<contents, recvEvent>>
      BY <2>1, Zenon DEF Add, AddNow, AddBlock, AddWake, AddTimeout, AddResume,
                         Store, queueVars
    <3> QED BY <3>1, <3>2 DEF ReceiveWakeup, IsEmpty
  <2>2. ASSUME NEW t \in Receivers, Get(t)
        PROVE  recvEvent'
    <3>1. t = r
      OBVIOUS
    <3>2. GetBlock(t)
      BY <2>0, <2>2, <3>1 DEF Get, GetNow, GetBlock, GetWake, GetTimeout, GetResume,
                              Go, TypeOK
    <3> QED BY <3>2 DEF GetBlock, IsEmpty
  <2>3. ASSUME NEW t \in Deleters, Create(t) \/ Delete(t)
        PROVE  recvEvent'
    <3>1. pc[r] = "getWait"
      BY <2>0, <2>3 DEF Create, Delete, DeleteCheck, DeleteEnter, DeleteSignal,
                        DeleteRetry, Go, TypeOK
    <3>2. recvEvent' \/ UNCHANGED <<contents, recvEvent>> \/ IsEmpty'
      BY <2>3, Zenon DEF Create, Delete, DeleteCheck, DeleteEnter, DeleteSignal,
                         DeleteRetry, FreeQueue, queueVars, IsEmpty
    <3> QED BY <3>1, <3>2 DEF ReceiveWakeup, IsEmpty
  <2>4. CASE UNCHANGED vars
    BY <2>4 DEF vars, ReceiveWakeup, IsEmpty
  <2> QED BY <2>1, <2>2, <2>3, <2>4 DEF Next
<1> QED BY <1>1, <1>2, Inductive, PTL DEF Spec

-----------------------------------------------------------------------------
(* No duplicate of an event that must not be duplicated.                   *)

\* Only messages of this event's kind are always sent with
\* QUEUE_OPTION_DO_NOT_ADD_IF_EXIST.
AlwaysUnique(event) == \A c \in Calls : c.event = event => c.unique

\* Placing m puts it at one end of the queue and shifts the others, or none.
LEMMA PlaceShifts ==
  ASSUME contents \in Seq(Message), NEW m \in Message, Place(m)
  PROVE  \E at \in DOMAIN contents' :
           /\ contents'[at] = m
           /\ \A i \in DOMAIN contents' \ {at} :
                LET old == IF at = 1 THEN i - 1 ELSE i
                IN  old \in DOMAIN contents /\ contents'[i] = contents[old]
<1>1. CASE m.call.front
  <2>1. contents' = <<m>> \o contents
    BY <1>1 DEF Place
  <2>2. /\ 1 \in DOMAIN contents'
        /\ contents'[1] = m
        /\ \A i \in DOMAIN contents' \ {1} :
             i - 1 \in DOMAIN contents /\ contents'[i] = contents[i - 1]
    BY <2>1
  <2> QED BY <2>2
<1>2. CASE ~m.call.front
  <2>1. contents' = Append(contents, m)
    BY <1>2 DEF Place
  <2> DEFINE n == Len(contents) + 1
  <2>2. /\ n \in DOMAIN contents'
        /\ contents'[n] = m
        /\ \A i \in DOMAIN contents' \ {n} :
             i \in DOMAIN contents /\ contents'[i] = contents[i]
    BY <2>1
  <2>3. n = 1 => DOMAIN contents' \ {n} = {}
    BY <2>1
  <2> QED BY <2>2, <2>3
<1> QED BY <1>1, <1>2

\* Storing m leaves at most one message of an event that is always unique: if
\* m is of that event, the queue held none.
LEMMA StoreUnique ==
  ASSUME TypeOK, UniqueEvents, NEW m \in Message, Store(m)
  PROVE  UniqueEvents'
<1>1. CASE UNCHANGED contents
  BY <1>1 DEF UniqueEvents
<1>2. CASE Place(m) /\ ~(m.call.unique /\ Exists(m.call.event))
  <2>1. m.call \in Calls
    BY DEF Message
  <2>2. AlwaysUnique(m.call.event) =>
          \A j \in DOMAIN contents : contents[j].call.event /= m.call.event
    BY <1>2, <2>1 DEF AlwaysUnique, Exists
  <2>3. PICK at \in DOMAIN contents' :
          /\ contents'[at] = m
          /\ \A i \in DOMAIN contents' \ {at} :
               LET old == IF at = 1 THEN i - 1 ELSE i
               IN  old \in DOMAIN contents /\ contents'[i] = contents[old]
    BY <1>2, PlaceShifts DEF TypeOK
  <2>4. DOMAIN contents' \subseteq Nat
    BY <1>2, PlaceFacts DEF TypeOK
  <2>5. ASSUME NEW i \in DOMAIN contents', NEW j \in DOMAIN contents',
               contents'[i].call.event = contents'[j].call.event,
               AlwaysUnique(contents'[i].call.event)
        PROVE  i = j
    <3>1. CASE i = at
      BY <2>2, <2>3, <2>5, <3>1
    <3>2. CASE j = at
      BY <2>2, <2>3, <2>5, <3>2
    <3>3. CASE i /= at /\ j /= at
      <4> DEFINE old(k) == IF at = 1 THEN k - 1 ELSE k
      <4>1. /\ old(i) \in DOMAIN contents /\ contents'[i] = contents[old(i)]
            /\ old(j) \in DOMAIN contents /\ contents'[j] = contents[old(j)]
        BY <2>3, <3>3
      <4> HIDE DEF old
      <4>2. old(i) = old(j)
        BY <2>5, <4>1 DEF UniqueEvents, AlwaysUnique
      <4> QED BY <2>4, <4>2 DEF old
    <3> QED BY <3>1, <3>2, <3>3
  <2> QED BY <2>5 DEF UniqueEvents, AlwaysUnique
<1> QED BY <1>1, <1>2 DEF Store

LEMMA TakeUnique ==
  ASSUME TypeOK, UniqueEvents, Take
  PROVE  UniqueEvents'
<1>1. CASE UNCHANGED contents
  BY <1>1 DEF UniqueEvents
<1>2. CASE ~IsEmpty /\ contents' = Tail(contents)
  <2>1. \A i \in DOMAIN contents' :
          i \in Nat /\ i + 1 \in DOMAIN contents /\ contents'[i] = contents[i + 1]
    BY <1>2 DEF TypeOK, IsEmpty
  <2>2. ASSUME NEW i \in DOMAIN contents', NEW j \in DOMAIN contents',
               contents'[i].call.event = contents'[j].call.event,
               AlwaysUnique(contents'[i].call.event)
        PROVE  i = j
    <3>1. i + 1 = j + 1
      BY <2>1, <2>2 DEF UniqueEvents, AlwaysUnique
    <3> QED BY <2>1, <3>1
  <2> QED BY <2>2 DEF UniqueEvents, AlwaysUnique
<1> QED BY <1>1, <1>2 DEF Take

\* An event every call of which passes QUEUE_OPTION_DO_NOT_ADD_IF_EXIST is in
\* the queue at most once, for any number of senders, although each looks for
\* a duplicate again only after the wait in which others were adding.
THEOREM EventsUnique == Spec => []UniqueEvents
<1>1. Init => UniqueEvents
  BY DEF Init, UniqueEvents
<1>2. IInv /\ UniqueEvents /\ [Next]_vars => UniqueEvents'
  <2> SUFFICES ASSUME TypeOK, UniqueEvents, [Next]_vars
               PROVE  UniqueEvents'
    BY DEF IInv
  <2>0. CASE UNCHANGED contents
    BY <2>0 DEF UniqueEvents
  <2>1. ASSUME NEW t \in Senders, NEW c \in Calls, AddNow(t, c)
        PROVE  UniqueEvents'
    <3> DEFINE m == [call |-> c, id |-> sent + 1]
    <3>1. m \in Message
      BY <2>1 DEF AddNow, AddStart, TypeOK, Message
    <3>2. Store(m)
      BY <2>1 DEF AddNow
    <3> QED BY <3>1, <3>2, StoreUnique
  <2>2. ASSUME NEW t \in Senders, AddResume(t)
        PROVE  UniqueEvents'
    <3>1. call[t] \in Message
      BY <2>2 DEF AddResume, TypeOK, Threads
    <3>2. UNCHANGED contents \/ Store(call[t])
      BY <2>2 DEF AddResume
    <3> QED BY <2>0, <3>1, <3>2, StoreUnique
  <2>3. ASSUME NEW t \in Senders, Add(t)
        PROVE  UniqueEvents'
    <3>1. CASE \E c \in Calls : AddNow(t, c)
      BY <2>1, <3>1
    <3>2. CASE AddResume(t)
      BY <2>2, <3>2
    <3>3. CASE (\E c \in Calls : AddBlock(t, c)) \/ AddWake(t) \/ AddTimeout(t)
      BY <2>0, <3>3 DEF AddBlock, AddWake, AddTimeout, queueVars
    <3> QED BY <2>3, <3>1, <3>2, <3>3 DEF Add
  <2>4. ASSUME NEW t \in Receivers, Get(t)
        PROVE  UniqueEvents'
    <3>1. UNCHANGED contents \/ Take
      BY <2>4, Zenon DEF Get, GetNow, GetBlock, GetWake, GetTimeout, GetResume, queueVars
    <3> QED BY <2>0, <3>1, TakeUnique
  <2>5. ASSUME NEW t \in Deleters, Create(t) \/ Delete(t)
        PROVE  UniqueEvents'
    <3>1. UNCHANGED contents \/ contents' = <<>>
      BY <2>5, Zenon DEF Create, Delete, DeleteCheck, DeleteEnter, DeleteSignal,
                         DeleteRetry, FreeQueue, queueVars
    <3> QED BY <2>0, <3>1 DEF UniqueEvents
  <2>6. CASE UNCHANGED vars
    BY <2>0, <2>6 DEF vars
  <2> QED BY <2>3, <2>4, <2>5, <2>6 DEF Next
<1> QED BY <1>1, <1>2, Inductive, PTL DEF Spec

-----------------------------------------------------------------------------
(* The queue implements MessageQueue.                                      *)

Carrying == {t \in Threads : pc[t] \in {"addWait", "addRetry"}}

\* Every message, queued or carried by a waiting sender, is a different one.
Fresh ==
  /\ \A i \in DOMAIN contents : contents[i].id <= sent
  /\ \A t \in Carrying :
       /\ call[t].id <= sent
       /\ \A i \in DOMAIN contents : contents[i].id /= call[t].id
       /\ \A u \in Carrying : call[u].id = call[t].id => u = t

\* A freed queue is a zeroed one.
Zeroed == ~live => contents = <<>> /\ ~deleting

RInv == IInv /\ Fresh /\ Zeroed

LEMMA InitRInv == Init => RInv
BY InitIInv DEF Init, RInv, Fresh, Zeroed, Carrying

LEMMA MessageIds ==
  ASSUME TypeOK
  PROVE  /\ \A i \in DOMAIN contents : contents[i] \in Message
         /\ \A m \in Message : m.id \in Nat
<1>1. contents \in Seq(Message)
  BY DEF TypeOK
<1>2. \A i \in DOMAIN contents : contents[i] \in Message
  BY <1>1
<1>3. \A m \in Message : m.id \in Nat
  BY DEF Message
<1> QED BY <1>2, <1>3

\* Storing m, if its identity is new, keeps identities apart.
LEMMA StoreFresh ==
  ASSUME TypeOK, NEW m \in Message, Store(m), NEW n \in Nat,
         \A i \in DOMAIN contents : contents[i].id <= n, m.id <= n
  PROVE  \A i \in DOMAIN contents' :
           /\ contents'[i].id <= n
           /\ contents'[i] = m \/ \E j \in DOMAIN contents : contents'[i] = contents[j]
<1>1. CASE UNCHANGED contents
  BY <1>1
<1>2. CASE Place(m)
  BY <1>2, PlaceFacts DEF TypeOK
<1> QED BY <1>1, <1>2 DEF Store

\* Taking a message leaves only messages that were there.
LEMMA TakeFresh ==
  ASSUME TypeOK, Take
  PROVE  \A i \in DOMAIN contents' : \E j \in DOMAIN contents : contents'[i] = contents[j]
<1>1. CASE UNCHANGED contents
  BY <1>1
<1>2. CASE ~IsEmpty /\ contents' = Tail(contents)
  <2>1. \A i \in DOMAIN contents' : i + 1 \in DOMAIN contents /\ contents'[i] = contents[i + 1]
    BY <1>2 DEF TypeOK, IsEmpty
  <2> QED BY <2>1
<1> QED BY <1>1, <1>2 DEF Take

LEMMA NextFresh == RInv /\ [Next]_vars => Fresh'
<1> SUFFICES ASSUME RInv, [Next]_vars PROVE Fresh'
  OBVIOUS
<1> USE DEF RInv, IInv
<1>0. sent \in Nat /\ TypeOK
  BY DEF TypeOK
<1>1. ASSUME NEW t \in Senders, NEW c \in Calls, AddNow(t, c)
      PROVE  Fresh'
  <2> DEFINE m == [call |-> c, id |-> sent + 1]
  <2>1. m \in Message /\ m.id = sent + 1
    BY <1>1 DEF AddNow, AddStart, TypeOK, Message
  <2>2. Store(m) /\ sent' = sent + 1 /\ UNCHANGED <<pc, call>>
    BY <1>1 DEF AddNow, AddStart
  <2>3. Carrying' = Carrying
    BY <2>2 DEF Carrying
  <2>4. \A i \in DOMAIN contents : contents[i].id \in Nat /\ contents[i].id <= sent + 1
    BY <1>0, MessageIds DEF Fresh
  <2>5. \A u \in Carrying : call[u].id \in Nat
    BY <1>0 DEF Carrying, TypeOK, Message
  <2> HIDE DEF m
  <2>6. \A i \in DOMAIN contents' :
          /\ contents'[i].id <= sent + 1
          /\ contents'[i] = m \/ \E j \in DOMAIN contents : contents'[i] = contents[j]
    BY <1>0, <2>1, <2>2, <2>4, StoreFresh
  <2> QED BY <1>0, <2>1, <2>2, <2>3, <2>5, <2>6 DEF Fresh
<1>2. ASSUME NEW t \in Senders, NEW c \in Calls, AddBlock(t, c)
      PROVE  Fresh'
  <2>1. /\ Carrying' = Carrying \cup {t}
        /\ call'[t].id = sent + 1
        /\ \A u \in Carrying : call'[u] = call[u]
        /\ t \notin Carrying
        /\ sent' = sent + 1 /\ UNCHANGED contents
    BY <1>2 DEF AddBlock, AddStart, Carrying, Go, TypeOK, Threads
  <2>2. \A u \in Carrying : call[u].id \in Nat
    BY <1>0 DEF Carrying, TypeOK, Message
  <2>3. \A i \in DOMAIN contents : contents[i].id \in Nat
    BY <1>0, MessageIds
  <2> QED BY <1>0, <2>1, <2>2, <2>3 DEF Fresh
<1>3. ASSUME NEW t \in Senders, AddResume(t)
      PROVE  Fresh'
  <2>1. /\ Carrying' = Carrying \ {t}
        /\ t \in Carrying
        /\ \A u \in Carrying \ {t} : call'[u] = call[u]
        /\ UNCHANGED sent
    BY <1>3 DEF AddResume, Carrying, Go, TypeOK, Threads
  <2>2. call[t] \in Message
    BY <1>0, <2>1 DEF Carrying, TypeOK
  <2>3. CASE UNCHANGED contents
    BY <2>1, <2>3 DEF Fresh
  <2>4. CASE Store(call[t])
    <3>1. \A i \in DOMAIN contents' :
            /\ contents'[i].id <= sent
            /\ contents'[i] = call[t] \/ \E j \in DOMAIN contents : contents'[i] = contents[j]
      BY <1>0, <2>1, <2>2, <2>4, StoreFresh DEF Fresh
    <3> QED BY <2>1, <3>1 DEF Fresh
  <2> QED BY <1>3, <2>3, <2>4 DEF AddResume
<1>4. ASSUME UNCHANGED <<call, sent>>, Carrying' = Carrying,
             \A i \in DOMAIN contents' : \E j \in DOMAIN contents : contents'[i] = contents[j]
      PROVE  Fresh'
  BY <1>4 DEF Fresh
<1>5. ASSUME NEW t \in Senders, AddWake(t) \/ AddTimeout(t)
      PROVE  Fresh'
  <2>1. UNCHANGED <<call, sent, contents>> /\ Carrying' = Carrying
    BY <1>5 DEF AddWake, AddTimeout, queueVars, Carrying, Go, TypeOK
  <2> QED BY <1>4, <2>1
<1>6. ASSUME NEW t \in Receivers, Get(t)
      PROVE  Fresh'
  <2>1. UNCHANGED <<call, sent>> /\ Carrying' = Carrying
    BY <1>6 DEF Get, GetNow, GetBlock, GetWake, GetTimeout, GetResume, queueVars,
                Carrying, Go, TypeOK
  <2>2. \A i \in DOMAIN contents' : \E j \in DOMAIN contents : contents'[i] = contents[j]
    <3>1. UNCHANGED contents \/ Take
      BY <1>6, Zenon DEF Get, GetNow, GetBlock, GetWake, GetTimeout, GetResume, queueVars
    <3> QED BY <1>0, <3>1, TakeFresh
  <2> QED BY <1>4, <2>1, <2>2
<1>7. ASSUME NEW t \in Deleters, Create(t) \/ Delete(t)
      PROVE  Fresh'
  <2>1. UNCHANGED <<call, sent>> /\ Carrying' = Carrying
    BY <1>7 DEF Create, Delete, DeleteCheck, DeleteEnter, DeleteSignal, DeleteRetry,
                queueVars, Carrying, Go, TypeOK
  <2>2. UNCHANGED contents \/ contents' = <<>>
    BY <1>7, Zenon DEF Create, Delete, DeleteCheck, DeleteEnter, DeleteSignal,
                       DeleteRetry, FreeQueue, queueVars
  <2> QED BY <1>4, <2>1, <2>2
<1>8. CASE UNCHANGED vars
  <2>1. UNCHANGED <<call, sent, contents>> /\ Carrying' = Carrying
    BY <1>8 DEF vars, Carrying
  <2> QED BY <1>4, <2>1
<1> QED BY <1>1, <1>2, <1>3, <1>5, <1>6, <1>7, <1>8 DEF Next, Add

LEMMA NextZeroed == RInv /\ [Next]_vars => Zeroed'
<1> SUFFICES ASSUME RInv, [Next]_vars, ~live' PROVE contents' = <<>> /\ ~deleting'
  BY DEF Zeroed
<1> USE DEF RInv, IInv
<1>1. ASSUME ~live, \E t \in Threads : pc[t] \in Waiting
      PROVE  FALSE
  BY <1>1 DEF NoUseAfterFree, Inside
<1>2. ASSUME NEW t \in Senders, Add(t)
      PROVE  FALSE
  <2>1. ~live /\ t \in Threads
    <3>1. UNCHANGED live
      <4>1. CASE \E c \in Calls : AddNow(t, c) \/ AddBlock(t, c)
        BY <4>1, Zenon DEF AddNow, AddBlock
      <4>2. CASE AddWake(t) \/ AddTimeout(t) \/ AddResume(t)
        BY <4>2, Zenon DEF AddWake, AddTimeout, AddResume, queueVars
      <4> QED BY <1>2, <4>1, <4>2 DEF Add
    <3> QED BY <3>1 DEF Threads
  <2> QED BY <1>1, <1>2, <2>1 DEF Add, AddNow, AddBlock, AddWake, AddTimeout, AddResume,
                                  AddStart, Usable, Waiting
<1>3. ASSUME NEW t \in Receivers, Get(t)
      PROVE  FALSE
  <2>1. ~live /\ t \in Threads
    BY <1>3 DEF Get, GetNow, GetBlock, GetWake, GetTimeout, GetResume,
                queueVars, Threads
  <2> QED BY <1>1, <1>3, <2>1 DEF Get, GetNow, GetBlock, GetWake, GetTimeout, GetResume,
                                  Usable, Waiting
<1>4. ASSUME NEW t \in Deleters, Create(t) \/ Delete(t)
      PROVE  contents' = <<>> /\ ~deleting'
  <2>1. CASE FreeQueue
    BY <2>1 DEF FreeQueue
  <2>2. CASE UNCHANGED <<contents, live, deleting>>
    BY <2>2 DEF Zeroed
  <2>3. CASE live
    BY <1>4, <2>1, <2>2, <2>3 DEF Create, Delete, DeleteCheck, DeleteEnter,
                                  DeleteSignal, DeleteRetry, queueVars
  <2>4. CASE ~live
    <3>1. ~(refcount > 0)
      <4>1. Inside = {}
        BY <2>4 DEF NoUseAfterFree
      <4> QED BY <4>1, FS_EmptySet DEF RefcountExact
    <3>2. FreeQueue \/ UNCHANGED <<contents, live, deleting>>
      BY <1>4, <3>1, Zenon DEF Create, Delete, DeleteCheck, DeleteEnter,
                               DeleteSignal, DeleteRetry, queueVars
    <3> QED BY <2>1, <2>2, <3>2
  <2> QED BY <2>3, <2>4
<1>5. CASE UNCHANGED vars
  BY <1>5 DEF vars, Zeroed
<1> QED BY <1>2, <1>3, <1>4, <1>5 DEF Next

LEMMA RefinementInv == Spec => []RInv
BY InitRInv, NextFresh, NextZeroed, NextIInv, Inductive, PTL DEF Spec, RInv

-----------------------------------------------------------------------------

LEMMA InitRefines == Init => Abstract!Init
BY DEF Init, Abstract!Init, phaseBar

\* Storing a fresh message is an Accept, or nothing.
LEMMA StoreRefines ==
  ASSUME TypeOK, live, ~deleting, UNCHANGED <<live, deleting>>,
         NEW m \in Message, \A i \in DOMAIN contents : contents[i] /= m, Store(m)
  PROVE  Abstract!Accept(m) \/ UNCHANGED <<phaseBar, contents>>
<1>1. CASE UNCHANGED contents
  BY <1>1 DEF phaseBar
<1>2. CASE ~IsFull /\ Place(m)
  <2>1. phaseBar = "open" /\ UNCHANGED phaseBar
    BY DEF phaseBar
  <2>2. Len(contents) < MaxItems
    BY <1>2 DEF TypeOK, IsFull
  <2>3. contents' = Append(contents, m) \/ contents' = <<m>> \o contents
    BY <1>2 DEF Place
  <2> QED BY <2>1, <2>2, <2>3 DEF Abstract!Accept, Abstract!Holds
<1> QED BY <1>1, <1>2 DEF Store

\* Taking a message is a Deliver, or nothing.
LEMMA TakeRefines ==
  ASSUME live, ~deleting, UNCHANGED <<live, deleting>>, Take
  PROVE  Abstract!Deliver \/ UNCHANGED <<phaseBar, contents>>
BY DEF Take, IsEmpty, phaseBar, Abstract!Deliver

\* Freeing the queue is a Dispose, or nothing when it was freed already.
LEMMA FreeRefines ==
  ASSUME Zeroed, FreeQueue
  PROVE  Abstract!Dispose \/ UNCHANGED <<phaseBar, contents>>
BY DEF Zeroed, FreeQueue, phaseBar, Abstract!Dispose

LEMMA NextRefines == RInv /\ [Next]_vars => [Abstract!Next]_<<phaseBar, contents>>
<1> SUFFICES ASSUME RInv, [Next]_vars
             PROVE  Abstract!Next \/ UNCHANGED <<phaseBar, contents>>
  OBVIOUS
<1> USE DEF RInv, IInv
<1>1. ASSUME NEW t \in Senders, Add(t)
      PROVE  Abstract!Next \/ UNCHANGED <<phaseBar, contents>>
  <2>1. ASSUME NEW c \in Calls, AddNow(t, c)
        PROVE  Abstract!Next \/ UNCHANGED <<phaseBar, contents>>
    <3> DEFINE m == [call |-> c, id |-> sent + 1]
    <3>1. m \in Message /\ m.id = sent + 1
      BY <2>1 DEF AddNow, AddStart, TypeOK, Message
    <3>2. \A i \in DOMAIN contents : contents[i].id /= sent + 1
      BY MessageIds DEF Fresh, TypeOK
    <3>3. Store(m) /\ live /\ ~deleting /\ UNCHANGED <<live, deleting>>
      BY <2>1 DEF AddNow, AddStart, Usable
    <3> HIDE DEF m
    <3> QED BY <3>1, <3>2, <3>3, StoreRefines DEF Abstract!Next
  <2>2. ASSUME NEW c \in Calls, AddBlock(t, c)
        PROVE  UNCHANGED <<phaseBar, contents>>
    BY <2>2 DEF AddBlock, phaseBar
  <2>3. CASE AddWake(t) \/ AddTimeout(t)
    BY <2>3 DEF AddWake, AddTimeout, queueVars, phaseBar
  <2>4. CASE AddResume(t)
    <3>1. t \in Carrying /\ t \in Inside /\ UNCHANGED <<live, deleting>>
      BY <2>4 DEF AddResume, Carrying, Inside, Waiting, Threads
    <3>2. live /\ call[t] \in Message
      BY <3>1 DEF NoUseAfterFree, TypeOK, Carrying
    <3>3. \A i \in DOMAIN contents : contents[i] /= call[t]
      BY <3>1 DEF Fresh
    <3>4. CASE deleting
      BY <2>4, <3>1, <3>4 DEF AddResume, phaseBar
    <3>5. CASE ~deleting /\ Store(call[t])
      BY <3>1, <3>2, <3>3, <3>5, StoreRefines DEF Abstract!Next
    <3> QED BY <2>4, <3>4, <3>5 DEF AddResume
  <2> QED BY <1>1, <2>1, <2>2, <2>3, <2>4 DEF Add
<1>2. ASSUME NEW t \in Receivers, Get(t)
      PROVE  Abstract!Next \/ UNCHANGED <<phaseBar, contents>>
  <2>1. CASE GetNow(t)
    BY <2>1, TakeRefines DEF GetNow, Usable, Abstract!Next
  <2>2. CASE GetBlock(t) \/ GetWake(t) \/ GetTimeout(t)
    BY <2>2 DEF GetBlock, GetWake, GetTimeout, queueVars, phaseBar
  <2>3. CASE GetResume(t)
    <3>1. t \in Inside /\ UNCHANGED <<live, deleting>>
      BY <2>3 DEF GetResume, Inside, Waiting, Threads
    <3>2. live
      BY <3>1 DEF NoUseAfterFree
    <3>3. CASE deleting
      BY <2>3, <3>1, <3>3 DEF GetResume, phaseBar
    <3>4. CASE ~deleting
      BY <2>3, <3>1, <3>2, <3>4, TakeRefines DEF GetResume, Abstract!Next
    <3> QED BY <3>3, <3>4
  <2> QED BY <1>2, <2>1, <2>2, <2>3 DEF Get
<1>3. ASSUME NEW t \in Deleters, Create(t) \/ Delete(t)
      PROVE  Abstract!Next \/ UNCHANGED <<phaseBar, contents>>
  <2>1. CASE Create(t)
    BY <2>1 DEF Create, Zeroed, phaseBar, Abstract!Next, Abstract!Open
  <2>2. CASE DeleteCheck(t) \/ DeleteSignal(t)
    BY <2>2 DEF DeleteCheck, DeleteSignal, queueVars, phaseBar
  <2>3. CASE FreeQueue
    BY <2>3, FreeRefines DEF Abstract!Next
  <2>4. CASE DeleteEnter(t) /\ refcount > 0
    <3>1. live
      <4>1. refcount /= 0
        BY <2>4
      <4>2. Inside /= {}
        BY <4>1, FS_EmptySet DEF RefcountExact
      <4> QED BY <4>2 DEF NoUseAfterFree
    <3>2. (deleting' = TRUE /\ UNCHANGED <<live, contents>>) \/ FreeQueue
      BY <2>4, Zenon DEF DeleteEnter
    <3> QED BY <2>3, <3>1, <3>2 DEF phaseBar, Abstract!Next, Abstract!Close
  <2>5. CASE DeleteRetry(t) /\ refcount > 0
    BY <2>3, <2>5 DEF DeleteRetry, queueVars, phaseBar
  <2> QED BY <1>3, <2>1, <2>2, <2>3, <2>4, <2>5 DEF Delete, DeleteEnter, DeleteRetry
<1>4. CASE UNCHANGED vars
  BY <1>4 DEF vars, phaseBar
<1> QED BY <1>1, <1>2, <1>3, <1>4 DEF Next

\* The queue as coded keeps the promise of MessageQueue for any number of
\* threads, capacity and calls: bounded, every accepted message handed out at
\* most once and in order, nothing served once a deletion has begun.
THEOREM Refinement == Spec => Promise
BY InitRefines, NextRefines, RefinementInv, PTL DEF Spec, Promise, Abstract!Spec,
   Abstract!promiseVars
=============================================================================
