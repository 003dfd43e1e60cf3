---------------------------- MODULE MessageQueue ----------------------------
(***************************************************************************)
(* What the threads of the player are promised by a Queue_data: a bounded  *)
(* queue that takes every accepted message once, hands the oldest one out  *)
(* first unless a sender asked for the front, and serves nobody from the   *)
(* moment a deletion starts until the queue is created again.              *)
(***************************************************************************)
EXTENDS Naturals, Sequences

CONSTANTS Messages,     \* every message a sender may ever offer
          Capacity      \* max_items of Util_queue_create

VARIABLES phase,        \* "closed" | "open" | "closing"
          contents      \* the accepted messages, the next one to go first

promiseVars == <<phase, contents>>

Holds(m) == \E i \in DOMAIN contents : contents[i] = m

Init == phase = "closed" /\ contents = <<>>

Open == /\ phase = "closed"
        /\ phase' = "open"
        /\ contents' = <<>>

Accept(m) == /\ phase = "open"
             /\ Len(contents) < Capacity
             /\ ~Holds(m)
             /\ \/ contents' = Append(contents, m)
                \/ contents' = <<m>> \o contents
             /\ UNCHANGED phase

Deliver == /\ phase = "open"
           /\ contents /= <<>>
           /\ contents' = Tail(contents)
           /\ UNCHANGED phase

Close == /\ phase = "open"
         /\ phase' = "closing"
         /\ UNCHANGED contents

\* The undelivered messages are freed with the queue.
Dispose == /\ phase \in {"open", "closing"}
           /\ phase' = "closed"
           /\ contents' = <<>>

Next == Open \/ (\E m \in Messages : Accept(m)) \/ Deliver \/ Close \/ Dispose

Spec == Init /\ [][Next]_promiseVars
=============================================================================
