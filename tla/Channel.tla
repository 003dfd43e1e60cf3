------------------------------ MODULE Channel ------------------------------
(***************************************************************************)
(* What a ring of the player promises its two threads: what one puts in    *)
(* the other takes out, in order and once, and never more than Capacity at *)
(* a time.  A seek may throw away what is inside.                          *)
(***************************************************************************)
EXTENDS Naturals, Sequences

CONSTANTS Items, Capacity, Nothing

VARIABLES inside,   \* the items put and not yet taken
          taken     \* the item taken last

Init == inside = <<>> /\ taken = Nothing

Put == /\ Len(inside) < Capacity
       /\ \E i \in Items : inside' = Append(inside, i)
       /\ UNCHANGED taken

Take == /\ inside /= <<>>
        /\ taken' = Head(inside)
        /\ inside' = Tail(inside)

Flush == inside' = <<>> /\ UNCHANGED taken

Next == Put \/ Take \/ Flush

Spec == Init /\ [][Next]_<<inside, taken>>
=============================================================================
