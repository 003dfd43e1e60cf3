-------------------------- MODULE PacketRingProofs --------------------------
(***************************************************************************)
(* The packet cache for any number of slots: its types, that the two       *)
(* threads touch different slots, and that it is a channel.  The lemmas    *)
(* about rings come first; the ring of pictures rests on them too.         *)
(***************************************************************************)
EXTENDS PacketRing, SequenceTheorems, TLAPS

-----------------------------------------------------------------------------
(* Places in a ring.                                                       *)

LEMMA AfterType ==
  ASSUME NEW n \in Nat \ {0}, NEW i \in 0..n - 1
  PROVE  After(i, n) \in 0..n - 1
BY DEF After

LEMMA PlaceType ==
  ASSUME NEW n \in Nat \ {0}, NEW i \in 0..n - 1, NEW k \in 0..n - 1
  PROVE  Place(i, k, n) \in 0..n - 1
BY DEF Place

\* Different items are in different slots.
LEMMA PlacesDiffer ==
  ASSUME NEW n \in Nat \ {0}, NEW i \in 0..n - 1,
         NEW j \in 0..n - 1, NEW k \in 0..n - 1, j /= k
  PROVE  Place(i, j, n) /= Place(i, k, n)
BY DEF Place

\* The slot to put to is none of those in use.
LEMMA HoldsApart ==
  ASSUME NEW slots, NEW n \in Nat \ {0}, NEW take \in 0..n - 1, NEW put, NEW h, NEW newest,
         Holds(slots, take, put, h, newest, n),
         NEW k \in 0..h - 1
  PROVE  put /= Place(take, k, n)
<1>1. h \in 0..n - 1 /\ put = Place(take, h, n)
  BY DEF Holds
<1>2. k \in 0..n - 1 /\ k /= h
  BY <1>1
<1> QED BY <1>1, <1>2, PlacesDiffer

-----------------------------------------------------------------------------
(* What putting, taking and emptying do to a ring that holds its items.    *)

\* Writing into the slot to put to disturbs nothing.
LEMMA HoldsBlank ==
  ASSUME NEW n \in Nat \ {0}, NEW slots \in [0..n - 1 -> Nat], NEW take \in 0..n - 1,
         NEW put, NEW h, NEW newest, NEW x,
         Holds(slots, take, put, h, newest, n)
  PROVE  Holds([slots EXCEPT ![put] = x], take, put, h, newest, n)
<1>1. \A k \in 0..h - 1 : [slots EXCEPT ![put] = x][Place(take, k, n)]
                               = newest - h + 1 + k
  <2> TAKE k \in 0..h - 1
  <2>1. put /= Place(take, k, n)
    BY HoldsApart
  <2>2. k \in 0..n - 1
    BY DEF Holds
  <2>3. Place(take, k, n) \in 0..n - 1
    BY <2>2, PlaceType
  <2> QED BY <2>1, <2>3 DEF Holds
<1> QED BY <1>1 DEF Holds

LEMMA HoldsPut ==
  ASSUME NEW n \in Nat \ {0}, NEW slots \in [0..n - 1 -> Nat], NEW take \in 0..n - 1,
         NEW put, NEW h, NEW newest \in Nat,
         Holds(slots, take, put, h, newest, n), h + 1 < n
  PROVE  Holds([slots EXCEPT ![put] = newest + 1], take, After(put, n), h + 1, newest + 1, n)
<1> DEFINE new == [slots EXCEPT ![put] = newest + 1]
<1>1. h \in 0..n - 1 /\ put = Place(take, h, n) /\ put \in 0..n - 1
  BY PlaceType DEF Holds
<1>2. After(put, n) = Place(take, h + 1, n)
  BY <1>1 DEF After, Place
<1>3. \A k \in 0..h - 1 : new[Place(take, k, n)] = newest - h + 1 + k
  <2>1. Holds(new, take, put, h, newest, n)
    BY HoldsBlank
  <2> QED BY <2>1 DEF Holds
<1>4. new[Place(take, h, n)] = newest + 1
  BY <1>1
<1>5. \A k \in 0..h : new[Place(take, k, n)] = newest + 1 - (h + 1) + 1 + k
  <2> TAKE k \in 0..h
  <2>1. CASE k = h
    BY <1>1, <1>4, <2>1
  <2>2. CASE k \in 0..h - 1
    BY <1>1, <1>3, <2>2
  <2> QED BY <1>1, <2>1, <2>2
<1>6. h + 1 \in 0..n - 1 /\ (h + 1) - 1 = h
  BY <1>1
<1> HIDE DEF new
<1>7. Holds(new, take, After(put, n), h + 1, newest + 1, n)
  BY <1>2, <1>5, <1>6 DEF Holds
<1> QED BY <1>7 DEF new

\* The slot to take from holds the oldest item.
LEMMA HoldsOldest ==
  ASSUME NEW slots, NEW n \in Nat \ {0}, NEW take \in 0..n - 1, NEW put, NEW h, NEW newest \in Nat,
         Holds(slots, take, put, h, newest, n), h > 0
  PROVE  slots[take] = newest - h + 1
<1>1. h \in 1..n - 1 /\ take = Place(take, 0, n)
  BY DEF Holds, Place
<1> QED BY <1>1 DEF Holds

LEMMA HoldsTake ==
  ASSUME NEW n \in Nat \ {0}, NEW slots \in [0..n - 1 -> Nat], NEW take \in 0..n - 1,
         NEW put, NEW h, NEW newest \in Nat, NEW x,
         Holds(slots, take, put, h, newest, n), h > 0
  PROVE  Holds([slots EXCEPT ![take] = x], After(take, n), put, h - 1, newest, n)
<1> DEFINE new == [slots EXCEPT ![take] = x]
<1>1. h \in 1..n - 1 /\ put = Place(take, h, n)
  BY DEF Holds
<1>2. take = Place(take, 0, n)
  BY DEF Place
<1>4. \A k \in 0..h - 1 : Place(After(take, n), k, n) = Place(take, k + 1, n)
  BY <1>1 DEF After, Place
<1>5. put = Place(After(take, n), h - 1, n)
  BY <1>1, <1>4
<1>6. \A k \in 0..(h - 1) - 1 : new[Place(After(take, n), k, n)]
                                     = newest - (h - 1) + 1 + k
  <2> TAKE k \in 0..(h - 1) - 1
  <2>1. k + 1 \in 0..h - 1 /\ k + 1 \in 0..n - 1 /\ k + 1 /= 0 /\ 0 \in 0..n - 1
    BY <1>1
  <2>2. slots[Place(take, k + 1, n)] = newest - h + 1 + (k + 1)
    BY <2>1 DEF Holds
  <2>3. Place(take, k + 1, n) /= take
    BY <1>2, <2>1, PlacesDiffer
  <2>4. Place(take, k + 1, n) \in 0..n - 1
    BY <2>1, PlaceType
  <2>5. new[Place(take, k + 1, n)] = newest - h + 1 + (k + 1)
    BY <2>2, <2>3, <2>4
  <2>6. Place(After(take, n), k, n) = Place(take, k + 1, n)
    BY <1>1, <1>4
  <2>7. newest - h + 1 + (k + 1) = newest - (h - 1) + 1 + k
    BY <1>1
  <2> QED BY <2>5, <2>6, <2>7
<1>7. h - 1 \in 0..n - 1
  BY <1>1
<1> HIDE DEF new
<1>8. Holds(new, After(take, n), put, h - 1, newest, n)
  BY <1>5, <1>6, <1>7 DEF Holds
<1> QED BY <1>8 DEF new

LEMMA HoldsNone ==
  ASSUME NEW slots, NEW newest, NEW n \in Nat \ {0}
  PROVE  Holds(slots, 0, 0, 0, newest, n)
BY DEF Holds, Place

-----------------------------------------------------------------------------
(* The items a ring holds, as a sequence.                                  *)

Run(newest, h) == [k \in 1..h |-> newest - h + k]

LEMMA RunNone == ASSUME NEW newest PROVE Run(newest, 0) = <<>>
BY DEF Run

LEMMA RunPut ==
  ASSUME NEW newest \in Nat, NEW h \in Nat, h <= newest
  PROVE  /\ Run(newest + 1, h + 1) = Append(Run(newest, h), newest + 1)
         /\ Len(Run(newest, h)) = h
<1>1. Run(newest, h) \in Seq(Nat) /\ Len(Run(newest, h)) = h
  BY DEF Run
<1>2. Run(newest + 1, h + 1) \in Seq(Nat) /\ Len(Run(newest + 1, h + 1)) = h + 1
  BY DEF Run
<1>3. Append(Run(newest, h), newest + 1) \in Seq(Nat)
       /\ Len(Append(Run(newest, h), newest + 1)) = h + 1
  BY <1>1
<1>4. ASSUME NEW k \in 1..h + 1
      PROVE  Run(newest + 1, h + 1)[k] = Append(Run(newest, h), newest + 1)[k]
  <2>1. CASE k = h + 1
    BY <1>1, <2>1 DEF Run
  <2>2. CASE k \in 1..h
    <3>1. Append(Run(newest, h), newest + 1)[k] = Run(newest, h)[k]
      BY <1>1, <2>2
    <3> QED BY <2>2, <3>1 DEF Run
  <2>3. k = h + 1 \/ k \in 1..h
    OBVIOUS
  <2> QED BY <2>1, <2>2, <2>3, Zenon
<1> QED BY <1>1, <1>2, <1>3, <1>4, SeqEqual

LEMMA RunTake ==
  ASSUME NEW newest \in Nat, NEW h \in Nat \ {0}, h <= newest
  PROVE  /\ Run(newest, h) /= <<>>
         /\ Head(Run(newest, h)) = newest - h + 1
         /\ Run(newest, h - 1) = Tail(Run(newest, h))
<1>1. Run(newest, h) \in Seq(Nat) /\ Len(Run(newest, h)) = h
  BY DEF Run
<1>2. Run(newest, h - 1) \in Seq(Nat) /\ Len(Run(newest, h - 1)) = h - 1
  BY DEF Run
<1>3. Run(newest, h) /= <<>>
  BY <1>1
<1>4. Tail(Run(newest, h)) \in Seq(Nat) /\ Len(Tail(Run(newest, h))) = h - 1
  BY <1>1, <1>3
<1>5. ASSUME NEW k \in 1..h - 1
      PROVE  Run(newest, h - 1)[k] = Tail(Run(newest, h))[k]
  <2>1. Tail(Run(newest, h))[k] = Run(newest, h)[k + 1]
    BY <1>1, <1>3
  <2> QED BY <2>1 DEF Run
<1>6. Head(Run(newest, h)) = newest - h + 1
  BY <1>1, <1>3 DEF Run
<1> QED BY <1>2, <1>3, <1>4, <1>5, <1>6, SeqEqual

-----------------------------------------------------------------------------
(* The inductive invariant.  The count lags behind the slots by one step of *)
(* each thread; Held makes up for it.  The count alone stays below the last *)
(* slot until the read thread has counted, and above 0 until the decode     *)
(* thread has: each thread only moves it away from the other's bound.       *)

USE CacheAssumption

PacketInv ==
  /\ PacketTypeOK
  /\ available < CacheSize
  /\ reader /= "idle" => available + 1 < CacheSize
  /\ parser /= "idle" => available > 0
  /\ Held <= reads
  /\ Holds(packets, parseIndex, readyIndex, Held, reads, CacheSize)

LEMMA HeldType ==
  ASSUME PacketInv
  PROVE  /\ Held \in 0..CacheSize - 1
         /\ reader = "filling" => Held + 1 < CacheSize
         /\ parser = "routing" => Held > 0
BY DEF PacketInv, PacketTypeOK, Held

LEMMA PacketInitInv == PacketInit => PacketInv
<1> SUFFICES ASSUME PacketInit PROVE PacketInv
  OBVIOUS
<1>1. PacketTypeOK /\ Held = 0
  BY DEF PacketInit, PacketTypeOK, Held, Slots, NoPacket
<1>2. Holds(packets, parseIndex, readyIndex, Held, reads, CacheSize)
  BY <1>1, HoldsNone DEF PacketInit
<1> QED BY <1>1, <1>2 DEF PacketInit, PacketInv

\* One step of either thread, or of the seek.
LEMMA PacketNextInv == PacketInv /\ [PacketNext]_packetVars => PacketInv'
<1> SUFFICES ASSUME PacketInv, [PacketNext]_packetVars PROVE PacketInv'
  OBVIOUS
<1>0. /\ CacheSize \in Nat \ {0} /\ CacheSize - 1 \in Nat
      /\ packets \in [0..CacheSize - 1 -> Nat] /\ reads \in Nat
      /\ parseIndex \in 0..CacheSize - 1 /\ readyIndex \in 0..CacheSize - 1
      /\ available \in Nat /\ parsed \in Nat
  BY DEF PacketInv, PacketTypeOK, Slots
<1>1. ASSUME ReadStart PROVE PacketInv'
  <2>1. Held' = Held
    BY <1>1 DEF ReadStart, Held
  <2> QED BY <1>1, <2>1 DEF ReadStart, PacketInv, PacketTypeOK, Slots
<1>2. ASSUME ReadFrame PROVE PacketInv'
  <2>1. Held' = Held + 1 /\ Held + 1 < CacheSize /\ Held \in Nat
    BY <1>2, <1>0, HeldType DEF ReadFrame, Held
  <2>2. Holds(packets, parseIndex, readyIndex, Held, reads, CacheSize)'
    BY <1>0, <1>2, <2>1, HoldsPut DEF PacketInv, ReadFrame
  <2>3. PacketTypeOK'
    <3>1. readyIndex' \in 0..CacheSize - 1
      BY <1>0, <1>2, AfterType DEF ReadFrame
    <3> QED BY <1>0, <1>2, <3>1 DEF ReadFrame, PacketInv, PacketTypeOK, Slots
  <2> QED BY <1>0, <1>2, <2>1, <2>2, <2>3 DEF ReadFrame, PacketInv
<1>3. ASSUME ReadFails PROVE PacketInv'
  <2>1. Held' = Held
    BY <1>3 DEF ReadFails, Held
  <2>2. Holds(packets', parseIndex, readyIndex, Held, reads, CacheSize)
    BY <1>0, <1>3, HoldsBlank DEF PacketInv, ReadFails
  <2>3. PacketTypeOK'
    BY <1>0, <1>3 DEF ReadFails, PacketInv, PacketTypeOK, Slots, NoPacket
  <2> QED BY <1>3, <2>1, <2>2, <2>3 DEF ReadFails, PacketInv
<1>4. ASSUME ReadCount PROVE PacketInv'
  <2>1. Held' = Held
    BY <1>0, <1>4 DEF ReadCount, Held
  <2>2. PacketTypeOK'
    BY <1>0, <1>4 DEF ReadCount, PacketInv, PacketTypeOK
  <2> QED BY <1>0, <1>4, <2>1, <2>2 DEF ReadCount, PacketInv
<1>5. ASSUME ParseStart PROVE PacketInv'
  <2>1. Held' = Held
    BY <1>5 DEF ParseStart, Held
  <2> QED BY <1>5, <2>1 DEF ParseStart, PacketInv, PacketTypeOK, Slots
<1>6. ASSUME ParseRoute PROVE PacketInv'
  <2>1. Held' = Held - 1 /\ Held > 0 /\ Held \in Nat
    BY <1>6, <1>0, HeldType DEF ParseRoute, Held
  <2>2. Holds(packets, parseIndex, readyIndex, Held, reads, CacheSize)'
    BY <1>0, <1>6, <2>1, HoldsTake DEF PacketInv, ParseRoute
  <2>3. PacketTypeOK'
    BY <1>0, <1>6, AfterType DEF ParseRoute, PacketInv, PacketTypeOK, Slots, NoPacket
  <2> QED BY <1>0, <1>6, <2>1, <2>2, <2>3 DEF ParseRoute, PacketInv
<1>7. ASSUME RouteFails PROVE PacketInv'
  <2>1. Held' = Held
    BY <1>7 DEF RouteFails, Held
  <2> QED BY <1>7, <2>1 DEF RouteFails, PacketInv, PacketTypeOK, Slots
<1>8. ASSUME ParseCount PROVE PacketInv'
  <2>1. Held' = Held
    BY <1>0, <1>8 DEF ParseCount, Held
  <2>2. PacketTypeOK'
    BY <1>0, <1>8 DEF ParseCount, PacketInv, PacketTypeOK
  <2> QED BY <1>0, <1>8, <2>1, <2>2 DEF ParseCount, PacketInv
<1>9. ASSUME ClearCache PROVE PacketInv'
  <2>1. Held' = 0
    BY <1>9 DEF ClearCache, EmptyCache, Held
  <2>2. Holds(packets, parseIndex, readyIndex, Held, reads, CacheSize)'
    BY <1>0, <1>9, <2>1, HoldsNone DEF ClearCache, EmptyCache
  <2>3. PacketTypeOK'
    BY <1>0, <1>9 DEF ClearCache, EmptyCache, PacketInv, PacketTypeOK, Slots, NoPacket
  <2> QED BY <1>0, <1>9, <2>1, <2>2, <2>3 DEF ClearCache, EmptyCache, PacketInv
<1>10. CASE UNCHANGED packetVars
  BY <1>10 DEF packetVars, PacketInv, PacketTypeOK, Held, Slots
<1> QED BY <1>1, <1>2, <1>3, <1>4, <1>5, <1>6, <1>7, <1>8, <1>9, <1>10 DEF PacketNext

THEOREM PacketInvariant == PacketSpec => []PacketInv
BY PacketInitInv, PacketNextInv, PTL DEF PacketSpec

\* The variables of the packet cache have their types.
THEOREM PacketTypes == PacketSpec => []PacketTypeOK
<1>1. PacketInv => PacketTypeOK
  BY DEF PacketInv
<1> QED BY <1>1, PacketInvariant, PTL

-----------------------------------------------------------------------------
(* The two threads touch different slots.                                  *)

LEMMA InvSlotsApart == PacketInv => SlotsApart
<1> SUFFICES ASSUME PacketInv PROVE SlotsApart
  OBVIOUS
<1>0. /\ CacheSize \in Nat \ {0} /\ reads \in Nat
      /\ packets \in [0..CacheSize - 1 -> Nat] /\ parseIndex \in 0..CacheSize - 1
      /\ Holds(packets, parseIndex, readyIndex, Held, reads, CacheSize)
  BY DEF PacketInv, PacketTypeOK, Slots
<1>1. ASSUME parser = "routing" PROVE packets[parseIndex] = reads - Held + 1
  BY <1>0, <1>1, HeldType, HoldsOldest
<1>2. \A k \in 0..Held - 1 : readyIndex /= Place(parseIndex, k, CacheSize)
  BY <1>0, HoldsApart
<1> QED BY <1>1, <1>2 DEF SlotsApart

\* For any number of slots the decode thread parses the oldest packet, and the
\* read thread fills none that is in use.
THEOREM SlotsStayApart == PacketSpec => []SlotsApart
BY InvSlotsApart, PacketInvariant, PTL

-----------------------------------------------------------------------------
(* The cache implements a channel.                                         *)

\* What the abstract channel has inside, told from two numbers.
LEMMA CacheIsRun == PacketInv => cacheInside = Run(reads, Held)
<1> SUFFICES ASSUME PacketInv PROVE cacheInside = Run(reads, Held)
  OBVIOUS
<1>1. Held \in Nat /\ reads \in Nat
  BY HeldType DEF PacketInv, PacketTypeOK
<1>2. ASSUME NEW k \in 1..Held
      PROVE  packets[Place(parseIndex, k - 1, CacheSize)] = reads - Held + k
  <2>1. k - 1 \in 0..Held - 1
    BY <1>1
  <2>2. packets[Place(parseIndex, k - 1, CacheSize)] = reads - Held + 1 + (k - 1)
    BY <2>1 DEF PacketInv, Holds
  <2> QED BY <1>1, <2>2
<1> QED BY <1>2 DEF cacheInside, Run

CacheVars == <<cacheInside, parsed>>

LEMMA PacketInitRefines == PacketInit => PacketChannel!Init
<1> SUFFICES ASSUME PacketInit PROVE PacketChannel!Init
  OBVIOUS
<1>1. cacheInside = Run(reads, Held) /\ Held = 0
  BY PacketInitInv, CacheIsRun DEF PacketInit, Held
<1> QED BY <1>1, RunNone DEF PacketInit, PacketChannel!Init

\* Reading puts, parsing takes, a seek flushes; every other step stutters.
LEMMA PacketNextRefines ==
  PacketInv /\ PacketInv' /\ [PacketNext]_packetVars => [PacketChannel!Next]_CacheVars
<1> SUFFICES ASSUME PacketInv, PacketInv', [PacketNext]_packetVars
             PROVE  PacketChannel!Next \/ UNCHANGED CacheVars
  BY Zenon
<1>a. /\ Held \in Nat /\ reads \in Nat /\ Held <= reads /\ Held < CacheSize
      /\ CacheSize \in Nat /\ MaxReads \in Nat /\ available \in Nat
  BY HeldType DEF PacketInv, PacketTypeOK
<1>b. cacheInside = Run(reads, Held) /\ cacheInside' = Run(reads', Held')
  <2>1. (cacheInside = Run(reads, Held))'
    BY CacheIsRun, PTL
  <2> QED BY <2>1, CacheIsRun
<1>0. /\ reader = "filling" => Held + 1 < CacheSize
      /\ parser = "routing" => Held > 0
  BY HeldType
<1>1. CASE Held' = Held /\ reads' = reads /\ parsed' = parsed
  BY <1>b, <1>1 DEF CacheVars
<1>2. CASE ReadFrame
  <2>1. Held' = Held + 1 /\ reads' = reads + 1 /\ Held + 1 < CacheSize
    BY <1>2, <1>a, <1>0 DEF ReadFrame, Held
  <2>2. cacheInside' = Append(cacheInside, reads + 1) /\ Len(cacheInside) = Held
    <3>1. /\ Run(reads + 1, Held + 1) = Append(Run(reads, Held), reads + 1)
          /\ Len(Run(reads, Held)) = Held
      BY <1>a, RunPut
    <3> QED BY <1>b, <2>1, <3>1, Zenon
  <2>3. reads + 1 \in 1..MaxReads /\ parsed' = parsed
    BY <1>a, <1>2 DEF ReadFrame
  <2> QED BY <1>a, <2>1, <2>2, <2>3 DEF PacketChannel!Next, PacketChannel!Put
<1>3. CASE ParseRoute
  <2>1. Held' = Held - 1 /\ reads' = reads /\ Held > 0 /\ parsed' = packets[parseIndex]
    BY <1>3, <1>a, <1>0 DEF ParseRoute, Held
  <2>2. parsed' = reads - Held + 1
    BY <1>3, <2>1, InvSlotsApart DEF SlotsApart, ParseRoute
  <2>3. /\ cacheInside /= <<>> /\ parsed' = Head(cacheInside)
        /\ cacheInside' = Tail(cacheInside)
    <3>1. /\ Run(reads, Held) /= <<>>
          /\ Head(Run(reads, Held)) = reads - Held + 1
          /\ Run(reads, Held - 1) = Tail(Run(reads, Held))
      <4>1. Held \in Nat \ {0}
        BY <1>a, <2>1
      <4> QED BY <1>a, <4>1, RunTake
    <3>2. cacheInside' = Run(reads, Held - 1)
      BY <1>b, <2>1, Zenon
    <3> QED BY <1>b, <2>2, <3>1, <3>2, Zenon
  <2> QED BY <2>3 DEF PacketChannel!Next, PacketChannel!Take
<1>4. CASE ClearCache
  <2>1. Held' = 0 /\ parsed' = parsed
    BY <1>4 DEF ClearCache, EmptyCache, Held
  <2> QED BY <1>b, <2>1, RunNone DEF PacketChannel!Next, PacketChannel!Flush
<1>5. CASE ReadStart \/ ReadFails \/ ReadCount \/ ParseStart \/ RouteFails \/ ParseCount
           \/ UNCHANGED packetVars
  <2>1. Held' = Held /\ reads' = reads /\ parsed' = parsed
    BY <1>5, <1>a DEF ReadStart, ReadFails, ReadCount, ParseStart, RouteFails, ParseCount,
                      packetVars, Held
  <2> QED BY <1>1, <2>1
<1> QED BY <1>2, <1>3, <1>4, <1>5, Zenon DEF PacketNext

\* For any number of slots and packets the cache hands them on in order, each
\* once, and a seek drops all or none.
THEOREM CacheIsChannel == PacketSpec => PacketsInOrder
<1>1. PacketInit /\ [][PacketNext]_packetVars
        => PacketChannel!Init /\ [][PacketChannel!Next]_CacheVars
  BY PacketInvariant, PacketInitRefines, PacketNextRefines, PTL DEF PacketSpec
<1> QED BY <1>1 DEF PacketSpec, PacketsInOrder, PacketChannel!Spec, CacheVars
=============================================================================
