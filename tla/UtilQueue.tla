----------------------------- MODULE UtilQueue -----------------------------
(***************************************************************************)
(* src/source/system/util/queue.c: the message queue every thread of the   *)
(* player talks through.  util_queue_mutex makes each stretch of code      *)
(* between a lock and an unlock one atomic action; a call that finds the   *)
(* queue full (or empty) leaves the lock to sleep on a one-shot LightEvent *)
(* and comes back to a queue other threads have used, or begun to delete.  *)
(***************************************************************************)
EXTENDS Naturals, Sequences, FiniteSets

CONSTANTS Senders,      \* threads that call Util_queue_add
          Receivers,    \* threads that call Util_queue_get
          Deleters,     \* threads that call Util_queue_delete (and _create)
          Calls,        \* the add calls made: [event, front, unique]
          MaxItems,     \* max_items
          MaxSends,     \* bound: add calls started
          MaxOpens,     \* bound: queue creations
          NoMessage     \* what a thread outside Util_queue_add carries

Threads == Senders \cup Receivers \cup Deleters

ASSUME ThreadsAssumption == IsFiniteSet(Threads)
ASSUME MaxItemsAssumption == MaxItems \in Nat \ {0}
ASSUME BoundsAssumption == MaxSends \in Nat /\ MaxOpens \in Nat
ASSUME CallsAssumption ==
         \A c \in Calls : c.front \in BOOLEAN /\ c.unique \in BOOLEAN

VARIABLES contents,     \* data[] and event_id[] up to next_index
          live,         \* data and event_id are allocated
          deleting,     \* deleting
          refcount,     \* reference_count
          recvEvent,    \* receive_wait_event is signalled
          sendEvent,    \* send_wait_event is signalled
          pc,           \* where each thread stands in its call
          call,         \* the message a waiting sender carries
          sent,         \* add calls started so far (gives messages identity)
          opened        \* creations so far

vars == <<contents, live, deleting, refcount, recvEvent, sendEvent,
          pc, call, sent, opened>>

queueVars == <<contents, live, deleting, refcount, recvEvent, sendEvent>>

Waiting == {"addWait", "addRetry", "getWait", "getRetry"}
Points == Waiting \cup {"idle", "delEnter", "delSignal", "delRetry"}

Message == [call : Calls, id : 1..MaxSends]

ASSUME NoMessageAssumption == NoMessage \notin Message

\* Threads between the two critical sections of an add or a get.
Inside == {t \in Threads : pc[t] \in Waiting}

Exists(event) == \E i \in DOMAIN contents : contents[i].call.event = event
\* Mutant of IsFull: one message too many.
IsFullLate == Len(contents) > MaxItems

IsFull == Len(contents) >= MaxItems
IsEmpty == contents = <<>>
Usable == live /\ ~deleting

Go(t, point) == pc' = [pc EXCEPT ![t] = point]

Init == /\ contents = <<>>
        /\ live = FALSE
        /\ deleting = FALSE
        /\ refcount = 0
        /\ recvEvent = FALSE
        /\ sendEvent = FALSE
        /\ pc = [t \in Threads |-> "idle"]
        /\ call = [t \in Threads |-> NoMessage]
        /\ sent = 0
        /\ opened = 0

Create(t) == /\ pc[t] = "idle"
             /\ ~live
             /\ opened < MaxOpens
             /\ live' = TRUE
             /\ contents' = <<>>
             /\ deleting' = FALSE
             /\ refcount' = 0
             /\ recvEvent' = FALSE
             /\ sendEvent' = FALSE
             /\ opened' = opened + 1
             /\ UNCHANGED <<pc, call, sent>>

-----------------------------------------------------------------------------
(* Util_queue_add.                                                         *)

Place(m) == contents' = IF m.call.front THEN <<m>> \o contents
                                        ELSE Append(contents, m)

\* Mutant of Store: the receive event is cleared too, as Take clears it.
StoreQuietly(m) ==
  \/ /\ IsFull \/ (m.call.unique /\ Exists(m.call.event))
     /\ UNCHANGED <<contents, recvEvent, sendEvent>>
  \/ /\ ~IsFull
     /\ ~(m.call.unique /\ Exists(m.call.event))
     /\ Place(m)
     /\ sendEvent' = FALSE
     /\ recvEvent' = FALSE

\* Mutant of Store: a duplicate is looked for before the wait only.
StoreTwice(m) ==
  \/ /\ IsFull
     /\ UNCHANGED <<contents, recvEvent, sendEvent>>
  \/ /\ ~IsFull
     /\ Place(m)
     /\ sendEvent' = FALSE
     /\ recvEvent' = TRUE

\* The part after the wait: refuse when full, skip a duplicate, or store.
Store(m) ==
  \/ /\ IsFull \/ (m.call.unique /\ Exists(m.call.event))
     /\ UNCHANGED <<contents, recvEvent, sendEvent>>
  \/ /\ ~IsFull
     /\ ~(m.call.unique /\ Exists(m.call.event))
     /\ Place(m)
     /\ sendEvent' = FALSE
     /\ recvEvent' = TRUE

AddStart(t, c) == /\ pc[t] = "idle"
                  /\ Usable
                  /\ sent < MaxSends
                  /\ sent' = sent + 1

\* No wait: there is room, or wait_us is 0.
AddNow(t, c) == /\ AddStart(t, c)
                /\ Store([call |-> c, id |-> sent + 1])
                /\ UNCHANGED <<live, deleting, refcount, pc, call, opened>>

AddBlock(t, c) == /\ AddStart(t, c)
                  /\ IsFull
                  /\ refcount' = refcount + 1
                  /\ call' = [call EXCEPT ![t] = [call |-> c, id |-> sent + 1]]
                  /\ Go(t, "addWait")
                  /\ UNCHANGED <<contents, live, deleting, recvEvent,
                                 sendEvent, opened>>

\* LightEvent_WaitTimeout returns: the one-shot event is consumed ...
AddWake(t) == /\ pc[t] = "addWait"
              /\ sendEvent
              /\ sendEvent' = FALSE
              /\ Go(t, "addRetry")
              /\ UNCHANGED <<contents, live, deleting, refcount, recvEvent,
                             call, sent, opened>>

\* ... or wait_us has passed.
AddTimeout(t) == /\ pc[t] = "addWait"
                 /\ Go(t, "addRetry")
                 /\ UNCHANGED <<queueVars, call, sent, opened>>

\* Mutant of AddResume: deleting is not looked at after the wait.
AddResumeLate(t) == /\ pc[t] = "addRetry"
                    /\ Store(call[t])
                    /\ refcount' = refcount - 1
                    /\ call' = [call EXCEPT ![t] = NoMessage]
                    /\ Go(t, "idle")
                    /\ UNCHANGED <<live, deleting, sent, opened>>

AddResume(t) == /\ pc[t] = "addRetry"
                /\ IF deleting
                   THEN UNCHANGED <<contents, recvEvent, sendEvent>>
                   ELSE Store(call[t])
                /\ refcount' = refcount - 1
                /\ call' = [call EXCEPT ![t] = NoMessage]
                /\ Go(t, "idle")
                /\ UNCHANGED <<live, deleting, sent, opened>>

-----------------------------------------------------------------------------
(* Util_queue_get.                                                         *)

\* The part after the wait: report "try again", or take the oldest message.
Take == \/ /\ IsEmpty
           /\ UNCHANGED <<contents, recvEvent, sendEvent>>
        \/ /\ ~IsEmpty
           /\ contents' = Tail(contents)
           /\ recvEvent' = FALSE
           /\ sendEvent' = TRUE

GetNow(t) == /\ pc[t] = "idle"
             /\ Usable
             /\ Take
             /\ UNCHANGED <<live, deleting, refcount, pc, call, sent, opened>>

GetBlock(t) == /\ pc[t] = "idle"
               /\ Usable
               /\ IsEmpty
               /\ refcount' = refcount + 1
               /\ Go(t, "getWait")
               /\ UNCHANGED <<contents, live, deleting, recvEvent, sendEvent,
                              call, sent, opened>>

GetWake(t) == /\ pc[t] = "getWait"
              /\ recvEvent
              /\ recvEvent' = FALSE
              /\ Go(t, "getRetry")
              /\ UNCHANGED <<contents, live, deleting, refcount, sendEvent,
                             call, sent, opened>>

GetTimeout(t) == /\ pc[t] = "getWait"
                 /\ Go(t, "getRetry")
                 /\ UNCHANGED <<queueVars, call, sent, opened>>

\* Mutant of GetResume: the early return keeps its reference.
GetResumeLeaks(t) == /\ pc[t] = "getRetry"
                     /\ IF deleting
                        THEN UNCHANGED <<contents, recvEvent, sendEvent, refcount>>
                        ELSE Take /\ refcount' = refcount - 1
                     /\ Go(t, "idle")
                     /\ UNCHANGED <<live, deleting, call, sent, opened>>

GetResume(t) == /\ pc[t] = "getRetry"
                /\ IF deleting
                   THEN UNCHANGED <<contents, recvEvent, sendEvent>>
                   ELSE Take
                /\ refcount' = refcount - 1
                /\ Go(t, "idle")
                /\ UNCHANGED <<live, deleting, call, sent, opened>>

-----------------------------------------------------------------------------
(* Util_queue_delete.                                                      *)

\* The test of data, event_id and deleting is made outside the lock.
DeleteCheck(t) == /\ pc[t] = "idle"
                  /\ Usable
                  /\ Go(t, "delEnter")
                  /\ UNCHANGED <<queueVars, call, sent, opened>>

\* The buffers are freed and the whole Queue_data is zeroed.
FreeQueue == /\ contents' = <<>>
             /\ live' = FALSE
             /\ deleting' = FALSE
             /\ refcount' = 0
             /\ recvEvent' = FALSE
             /\ sendEvent' = FALSE

DeleteEnter(t) ==
  /\ pc[t] = "delEnter"
  /\ \/ /\ refcount = 0
        /\ FreeQueue
        /\ Go(t, "idle")
     \/ /\ refcount > 0
        /\ deleting' = TRUE
        /\ Go(t, "delSignal")
        /\ UNCHANGED <<contents, live, refcount, recvEvent, sendEvent>>
  /\ UNCHANGED <<call, sent, opened>>

\* Mutant of DeleteSignal: the senders are not woken.
DeleteWakesReceivers(t) == /\ pc[t] = "delSignal"
                           /\ recvEvent' = TRUE
                           /\ Go(t, "delRetry")
                           /\ UNCHANGED <<contents, live, deleting, refcount,
                                          sendEvent, call, sent, opened>>

\* Both events are signalled and the deleter sleeps 1 ms, without the lock.
DeleteSignal(t) == /\ pc[t] = "delSignal"
                   /\ recvEvent' = TRUE
                   /\ sendEvent' = TRUE
                   /\ Go(t, "delRetry")
                   /\ UNCHANGED <<contents, live, deleting, refcount,
                                  call, sent, opened>>

\* Mutant of DeleteRetry: one sleep is taken to be enough.
DeleteImpatiently(t) == /\ pc[t] = "delRetry"
                        /\ FreeQueue
                        /\ Go(t, "idle")
                        /\ UNCHANGED <<call, sent, opened>>

DeleteRetry(t) ==
  /\ pc[t] = "delRetry"
  /\ \/ /\ refcount = 0
        /\ FreeQueue
        /\ Go(t, "idle")
     \/ /\ refcount > 0
        /\ Go(t, "delSignal")
        /\ UNCHANGED queueVars
  /\ UNCHANGED <<call, sent, opened>>

-----------------------------------------------------------------------------

Add(t) == \/ \E c \in Calls : AddNow(t, c) \/ AddBlock(t, c)
          \/ AddWake(t) \/ AddTimeout(t) \/ AddResume(t)

Get(t) == \/ GetNow(t) \/ GetBlock(t)
          \/ GetWake(t) \/ GetTimeout(t) \/ GetResume(t)

Delete(t) == DeleteCheck(t) \/ DeleteEnter(t) \/ DeleteSignal(t) \/ DeleteRetry(t)

Next == \/ \E t \in Senders : Add(t)
        \/ \E t \in Receivers : Get(t)
        \/ \E t \in Deleters : Create(t) \/ Delete(t)

Spec == Init /\ [][Next]_vars

\* A started call runs to its end: the scheduler runs every ready thread and a
\* signalled event wakes a sleeper.  wait_us may be infinite, so no timeout is
\* promised; nor that anybody ever starts a call.
Finish(t) == \/ AddWake(t) \/ AddResume(t) \/ GetWake(t) \/ GetResume(t)
             \/ DeleteEnter(t) \/ DeleteSignal(t) \/ DeleteRetry(t)

FairSpec == Spec /\ \A t \in Threads : WF_vars(Finish(t))

-----------------------------------------------------------------------------
(* Properties.                                                             *)

TypeOK == /\ contents \in Seq(Message)
          /\ Len(contents) <= MaxItems
          /\ live \in BOOLEAN
          /\ deleting \in BOOLEAN
          /\ refcount \in Nat
          /\ recvEvent \in BOOLEAN
          /\ sendEvent \in BOOLEAN
          /\ pc \in [Threads -> Points]
          /\ call \in [Threads -> Message \cup {NoMessage}]
          /\ \A t \in Threads : pc[t] \in {"addWait", "addRetry"} => call[t] \in Message
          /\ sent \in 0..MaxSends
          /\ opened \in 0..MaxOpens

\* reference_count is the number of threads asleep in, or just back from, a
\* wait of add or get, whatever mix of calls, timeouts and deletions led here.
RefcountExact == refcount = Cardinality(Inside)

\* Util_queue_delete frees the buffers only when no thread can come back to
\* them: a thread inside a call always has a queue that is still allocated.
NoUseAfterFree == Inside /= {} => live

\* An event whose senders all pass QUEUE_OPTION_DO_NOT_ADD_IF_EXIST is never
\* queued twice, although a sender may sleep between its call and its store.
UniqueEvents ==
  \A i, j \in DOMAIN contents :
    (/\ contents[i].call.event = contents[j].call.event
     /\ \A c \in Calls : c.event = contents[i].call.event => c.unique) => i = j

\* With one receiver, a receiver asleep beside a waiting message has a wake-up
\* pending: no LightEvent_Clear wipes the signal it needs.
ReceiveWakeup ==
  \A t \in Receivers : pc[t] = "getWait" /\ ~IsEmpty => recvEvent

\* The same of senders (queue.h: "Wait time in us when queue is full"): one
\* asleep beside free space has a wake-up pending, or another sender is awake
\* and on its way to that space.
SendWakeup ==
  \A t \in Senders : pc[t] = "addWait" /\ ~IsFull /\ ~deleting
                      => sendEvent \/ \E u \in Senders : pc[u] = "addRetry"

\* A deletion ends, whoever sleeps in the queue and with no timeout to help.
DeleteTerminates == \A t \in Deleters : (pc[t] = "delEnter") ~> (pc[t] = "idle")

\* The queue keeps the promise of MessageQueue.
phaseBar == IF ~live THEN "closed" ELSE IF deleting THEN "closing" ELSE "open"

Abstract == INSTANCE MessageQueue
              WITH Messages <- Message, Capacity <- MaxItems, phase <- phaseBar

Promise == Abstract!Spec
=============================================================================
