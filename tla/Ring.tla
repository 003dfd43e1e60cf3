------------------------------- MODULE Ring -------------------------------
(***************************************************************************)
(* The index arithmetic the player's rings share: the packet cache, the    *)
(* raw images of a decoder and the textures each keep an index to put at   *)
(* and an index to take from, and step them back to 0 behind the last slot.*)
(***************************************************************************)
EXTENDS Integers

\* Mutant of After: it does not step back to 0.
AfterOnly(i, n) == i + 1

\* The index after i, and the one before it, in a ring of n slots.
After(i, n) == IF i + 1 < n THEN i + 1 ELSE 0
Before(i, n) == IF i > 0 THEN i - 1 ELSE n - 1

\* The slot k places behind i.
Place(i, k, n) == IF i + k < n THEN i + k ELSE i + k - n

\* How many slots are filled, from the two indices alone (buffer_health).
Filled(take, put, n) == IF take <= put THEN put - take ELSE (n - take) + put

\* The ring holds the items numbered newest - held + 1 .. newest, in order.
Holds(slots, take, put, held, newest, n) ==
  /\ held \in 0..n - 1
  /\ put = Place(take, held, n)
  /\ \A k \in 0..held - 1 : slots[Place(take, k, n)] = newest - held + 1 + k
=============================================================================
