----------------------------- MODULE PathProofs -----------------------------
(***************************************************************************)
(* The textures for any number of tracks and buffers: no picture is torn   *)
(* and none is shown out of order.  Then the whole path: the messages of a *)
(* seek keep every thread out of the ring that is cleared, so that what is *)
(* proved of each ring by itself holds of it in the player; and across all *)
(* three rings the screen shows what was decoded, in that order.           *)
(***************************************************************************)
EXTENDS DataPath, ImageRingProofs

USE BuffersAssumption

-----------------------------------------------------------------------------
(* How full a ring is, told from its two indices.                          *)

LEMMA FilledIsHeld ==
  ASSUME NEW n \in Nat \ {0}, NEW take \in 0..n - 1, NEW put \in 0..n - 1
  PROVE  Filled(take, put, n) \in 0..n - 1 /\ put = Place(take, Filled(take, put, n), n)
BY DEF Filled, Place

LEMMA FilledPut ==
  ASSUME NEW n \in Nat \ {0}, NEW take \in 0..n - 1, NEW put \in 0..n - 1,
         Filled(take, put, n) + 1 < n
  PROVE  Filled(take, After(put, n), n) = Filled(take, put, n) + 1
BY DEF Filled, After

LEMMA FilledTake ==
  ASSUME NEW n \in Nat \ {0}, NEW take \in 0..n - 1, NEW put \in 0..n - 1,
         Filled(take, put, n) > 0
  PROVE  Filled(After(take, n), put, n) = Filled(take, put, n) - 1
BY DEF Filled, After

-----------------------------------------------------------------------------
(* The textures.                                                           *)

\* What is in a track's ring is what was written last, and all of it is newer
\* than what is on the screen and than what the last seek dropped.
RingInv(t) == /\ Holds(textures[t], draw[t], store[t], Health(t), written[t], Buffers)
              /\ shown[t] + Health(t) <= written[t]
              /\ dropped[t] + Health(t) <= written[t]

\* The main loop counted no more than there still is; the convert thread
\* writes where it looked, and there is room.
SeenInv == /\ drawAt /= 0 => \A t \in Eyes : t >= drawAt => health[t] <= Health(t)
           /\ convertAt = "write" => storeCopy = store[turn] /\ Health(turn) + 1 < Buffers

FrameInv == FrameTypeOK /\ (~raced => SeenInv /\ \A t \in Eyes : RingInv(t))

LEMMA HealthType ==
  ASSUME FrameTypeOK, NEW t \in Eyes
  PROVE  Health(t) \in 0..Buffers - 1
BY FilledIsHeld DEF FrameTypeOK, Health, BufferSlots

LEMMA FrameInitInv == FrameInit => FrameInv
<1> SUFFICES ASSUME FrameInit PROVE FrameInv
  OBVIOUS
<1>1. FrameTypeOK
  <2>1. raced \in BOOLEAN
    BY Zenon DEF FrameInit
  <2> QED BY <2>1 DEF FrameInit, FrameTypeOK, Eyes, BufferSlots, NoHealth
<1>2. ASSUME NEW t \in Eyes PROVE RingInv(t)
  <2>1. /\ draw[t] = 0 /\ store[t] = 0 /\ written[t] = 0 /\ shown[t] = 0
        /\ dropped[t] = 0 /\ Health(t) = 0
    BY DEF FrameInit, Health, Filled
  <2> QED BY <2>1, HoldsNone DEF RingInv
<1>3. SeenInv
  BY DEF FrameInit, SeenInv
<1> QED BY <1>1, <1>2, <1>3 DEF FrameInv

LEMMA FrameTypeNext ==
  ASSUME FrameTypeOK, [FrameNext]_frameVars
  PROVE  FrameTypeOK'
<1>0. /\ Buffers \in Nat \ {0} /\ tracks \in Eyes /\ tracks \in Nat
      /\ drawAt \in Eyes \cup {0} /\ turn \in Eyes /\ Eyes \subseteq Nat
  BY DEF FrameTypeOK, Eyes
<1>1. CASE ConvertLook
  BY <1>1 DEF ConvertLook, FrameTypeOK
<1>2. CASE ConvertStore
  <2>1. After(storeCopy, Buffers) \in BufferSlots /\ 0 \in BufferSlots
    <3>1. storeCopy \in 0..Buffers - 1
      BY DEF FrameTypeOK, BufferSlots
    <3> QED BY <1>0, <3>1, AfterType DEF BufferSlots
  <2>2. NextTrack \in Eyes
    BY DEF NextTrack, FrameTypeOK, Eyes
  <2>3. /\ textures' \in [Eyes -> [BufferSlots -> Nat]] /\ written' \in [Eyes -> Nat]
        /\ store' \in [Eyes -> BufferSlots]
    <3>1. textures[turn] \in [BufferSlots -> Nat] /\ written[turn] \in Nat
          /\ textures \in [Eyes -> [BufferSlots -> Nat]] /\ written \in [Eyes -> Nat]
          /\ store \in [Eyes -> BufferSlots]
      BY DEF FrameTypeOK
    <3> DEFINE number == written[turn] + 1
    <3>0. number \in Nat
      BY <3>1
    <3> HIDE DEF number
    <3>2. [textures[turn] EXCEPT ![storeCopy] = number] \in [BufferSlots -> Nat]
      BY <3>0, <3>1
    <3>3. textures' \in [Eyes -> [BufferSlots -> Nat]]
      BY <1>2, <3>1, <3>2 DEF ConvertStore, number
    <3> QED BY <1>2, <2>1, <3>1, <3>3 DEF ConvertStore
  <2> QED BY <1>2, <2>1, <2>2, <2>3 DEF ConvertStore, FrameTypeOK
<1>3. CASE ConvertFails
  <2>1. NextTrack \in Eyes /\ 0 \in BufferSlots
    BY DEF NextTrack, FrameTypeOK, Eyes, BufferSlots
  <2> QED BY <1>3, <2>1 DEF ConvertFails, FrameTypeOK
<1>4. CASE DrawLook
  <2>1. \A t \in Eyes : Health(t) \in Nat
    BY HealthType
  <2>2. health' \in [Eyes -> Nat]
    BY <1>4, <2>1 DEF DrawLook
  <2>3. drawAt' \in Eyes \cup {0}
    BY <1>4 DEF DrawLook, Eyes
  <2> QED BY <1>4, <2>2, <2>3 DEF DrawLook, FrameTypeOK
<1>5. ASSUME NextDraw PROVE drawAt' \in Eyes \cup {0} /\ health' \in [Eyes -> Nat]
  <2>1. drawAt < tracks => drawAt + 1 \in Eyes
    BY <1>0 DEF Eyes
  <2>2. NoHealth \in [Eyes -> Nat]
    BY DEF NoHealth
  <2> QED BY <1>5, <2>1, <2>2 DEF NextDraw, FrameTypeOK
<1>6. CASE DrawSkip
  BY <1>5, <1>6 DEF DrawSkip, FrameTypeOK
<1>7. ASSUME NEW t \in Eyes, DrawAdvance(t) PROVE FrameTypeOK'
  <2>1. shown' \in [Eyes -> Nat]
    BY <1>7 DEF DrawAdvance, FrameTypeOK
  <2>2. After(draw[t], Buffers) \in BufferSlots
    BY <1>0, AfterType DEF FrameTypeOK, BufferSlots
  <2>3. draw' \in [Eyes -> BufferSlots]
    BY <1>7, <2>2 DEF DrawAdvance, FrameTypeOK
  <2> QED BY <1>5, <1>7, <2>1, <2>3 DEF DrawAdvance, FrameTypeOK
<1>8. CASE PrepareSeek \/ EndSeek
  BY <1>8 DEF PrepareSeek, EndSeek, FrameTypeOK
<1>9. CASE ResetRing
  <2>1. raced' \in BOOLEAN
    BY <1>9, Zenon DEF ResetRing, EmptyRing, FrameTypeOK
  <2> QED BY <1>9, <2>1 DEF ResetRing, EmptyRing, FrameTypeOK
<1>10. CASE UNCHANGED frameVars
  BY <1>10, Zenon DEF frameVars, FrameTypeOK
<1> QED BY <1>1, <1>2, <1>3, <1>4, <1>6, <1>7, <1>8, <1>9, <1>10, Zenon DEF FrameNext

\* A ring whose own state a step leaves alone.
LEMMA RingSame ==
  ASSUME NEW t, RingInv(t),
         textures'[t] = textures[t], draw'[t] = draw[t], store'[t] = store[t],
         written'[t] = written[t], shown'[t] = shown[t], dropped'[t] = dropped[t]
  PROVE  RingInv(t)' /\ Health(t)' = Health(t)
BY Zenon DEF RingInv, Health

\* One picture more: the step of the convert thread.
LEMMA RingStore ==
  ASSUME FrameTypeOK, SeenInv, ConvertStore, NEW t \in Eyes, t = turn, RingInv(t)
  PROVE  RingInv(t)' /\ Health(t)' = Health(t) + 1
<1>0. /\ Buffers \in Nat \ {0} /\ convertAt = "write"
      /\ storeCopy = store[t] /\ Health(t) + 1 < Buffers
  BY DEF SeenInv, ConvertStore
<1>1. /\ textures \in [Eyes -> [0..Buffers - 1 -> Nat]] /\ written \in [Eyes -> Nat]
      /\ store \in [Eyes -> 0..Buffers - 1]
      /\ textures[t] \in [0..Buffers - 1 -> Nat] /\ written[t] \in Nat /\ shown[t] \in Nat
      /\ dropped[t] \in Nat
      /\ draw[t] \in 0..Buffers - 1 /\ store[t] \in 0..Buffers - 1
  BY DEF FrameTypeOK, BufferSlots
<1>2. Health(t) \in Nat
  BY HealthType
<1>3. /\ textures'[t] = [textures[t] EXCEPT ![store[t]] = written[t] + 1]
      /\ written'[t] = written[t] + 1
      /\ store'[t] = After(store[t], Buffers)
      /\ draw'[t] = draw[t] /\ shown'[t] = shown[t] /\ dropped'[t] = dropped[t]
  <2>1. /\ textures' = [textures EXCEPT ![t][store[t]] = written[t] + 1]
        /\ written' = [written EXCEPT ![t] = @ + 1]
        /\ store' = [store EXCEPT ![t] = After(store[t], Buffers)]
        /\ draw' = draw /\ shown' = shown /\ dropped' = dropped
    BY <1>0, Zenon DEF ConvertStore
  <2>2. textures'[t] = [textures[t] EXCEPT ![store[t]] = written[t] + 1]
    BY <1>1, <2>1, Zenon
  <2>3. written'[t] = written[t] + 1 /\ store'[t] = After(store[t], Buffers)
    BY <1>1, <2>1
  <2> QED BY <2>1, <2>2, <2>3
<1>4. Health(t)' = Health(t) + 1
  <2>1. Filled(draw[t], After(store[t], Buffers), Buffers) = Filled(draw[t], store[t], Buffers) + 1
    BY <1>0, <1>1, FilledPut DEF Health
  <2> QED BY <1>3, <2>1, Zenon DEF Health
<1>5. Holds(textures'[t], draw[t], store'[t], Health(t) + 1, written'[t], Buffers)
  <2>1. Holds([textures[t] EXCEPT ![store[t]] = written[t] + 1], draw[t],
              After(store[t], Buffers), Health(t) + 1, written[t] + 1, Buffers)
    BY <1>0, <1>1, HoldsPut DEF RingInv
  <2> QED BY <1>3, <2>1, Zenon
<1>6. shown[t] + (Health(t) + 1) <= written'[t] /\ dropped[t] + (Health(t) + 1) <= written'[t]
  BY <1>1, <1>2, <1>3, SMTT(30) DEF RingInv
<1> QED BY <1>3, <1>4, <1>5, <1>6, Zenon DEF RingInv

\* One picture fewer: the step of the main loop.  What it shows is the oldest.
LEMMA RingDraw ==
  ASSUME FrameTypeOK, NEW t \in Eyes, RingInv(t), Health(t) > 0, DrawAdvance(t)
  PROVE  /\ RingInv(t)' /\ Health(t)' = Health(t) - 1
         /\ shown'[t] > shown[t] /\ shown'[t] > dropped[t]
<1>0. Buffers \in Nat \ {0}
  OBVIOUS
<1>1. /\ textures[t] \in [0..Buffers - 1 -> Nat] /\ written[t] \in Nat /\ shown[t] \in Nat
      /\ dropped[t] \in Nat
      /\ draw \in [Eyes -> 0..Buffers - 1] /\ shown \in [Eyes -> Nat]
      /\ draw[t] \in 0..Buffers - 1 /\ store[t] \in 0..Buffers - 1
  BY DEF FrameTypeOK, BufferSlots
<1>2. Health(t) \in Nat
  BY HealthType
<1>3. /\ shown'[t] = textures[t][draw[t]]
      /\ draw'[t] = After(draw[t], Buffers)
      /\ textures'[t] = textures[t] /\ store'[t] = store[t] /\ written'[t] = written[t]
      /\ dropped'[t] = dropped[t]
  BY <1>1 DEF DrawAdvance
<1>4. Health(t)' = Health(t) - 1
  BY <1>0, <1>1, <1>3, FilledTake DEF Health
<1>5. textures[t][draw[t]] = written[t] - Health(t) + 1
  BY <1>0, <1>1, HoldsOldest DEF RingInv
<1>6. Holds([textures[t] EXCEPT ![draw[t]] = textures[t][draw[t]]], After(draw[t], Buffers),
            store[t], Health(t) - 1, written[t], Buffers)
  BY <1>0, <1>1, HoldsTake DEF RingInv
<1>7. [textures[t] EXCEPT ![draw[t]] = textures[t][draw[t]]] = textures[t]
  BY <1>1
<1>8. shown'[t] + (Health(t) - 1) <= written[t] /\ shown'[t] > shown[t]
  BY <1>1, <1>2, <1>3, <1>5, SMTT(30) DEF RingInv
<1>9. dropped[t] + (Health(t) - 1) <= written[t] /\ shown'[t] > dropped[t]
  BY <1>1, <1>2, <1>3, <1>5, SMTT(30) DEF RingInv
<1> QED BY <1>3, <1>4, <1>6, <1>7, <1>8, <1>9, Zenon DEF RingInv

\* No picture at all: a seek.
LEMMA RingReset ==
  ASSUME FrameTypeOK, NEW t \in Eyes, RingInv(t), ResetRing
  PROVE  RingInv(t)' /\ Health(t)' = 0
<1>1. /\ written[t] \in Nat /\ shown[t] \in Nat /\ draw[t] \in 0..Buffers - 1 /\ Buffers \in Nat \ {0}
  BY DEF FrameTypeOK, BufferSlots
<1>2. /\ store'[t] = draw[t] /\ draw'[t] = draw[t] /\ textures'[t] = textures[t]
      /\ written'[t] = written[t] /\ shown'[t] = shown[t] /\ dropped'[t] = written[t]
  BY Zenon DEF ResetRing, EmptyRing
<1>3. Health(t)' = 0
  BY <1>1, <1>2 DEF Health, Filled
<1>4. Holds(textures[t], draw[t], draw[t], 0, written[t], Buffers)
  BY <1>1 DEF Holds, Place
<1>5. shown[t] + 0 <= written[t] /\ written[t] + 0 <= written[t]
  BY <1>1, HealthType DEF RingInv
<1> QED BY <1>2, <1>3, <1>4, <1>5, Zenon DEF RingInv

LEMMA FrameNextInv == FrameInv /\ [FrameNext]_frameVars => FrameInv'
<1> SUFFICES ASSUME FrameInv, [FrameNext]_frameVars, ~raced'
             PROVE  SeenInv' /\ \A t \in Eyes : RingInv(t)'
  BY FrameTypeNext, Zenon DEF FrameInv
<1>r. ~raced
  BY Zenon DEF FrameNext, frameVars, ConvertLook, ConvertStore, ConvertFails, DrawLook, DrawSkip,
     DrawAdvance, PrepareSeek, ResetRing, EmptyRing, EndSeek
<1>0. /\ FrameTypeOK /\ SeenInv /\ \A t \in Eyes : RingInv(t)
  BY <1>r DEF FrameInv
<1>a. /\ Buffers \in Nat \ {0} /\ turn \in Eyes /\ drawAt \in Nat /\ tracks \in Nat
      /\ Eyes \subseteq Nat /\ \A t \in Eyes : health[t] \in Nat
  <2>1. Eyes \subseteq Nat /\ Buffers \in Nat \ {0}
    BY DEF Eyes
  <2>2. turn \in Eyes /\ drawAt \in Eyes \cup {0} /\ tracks \in Eyes /\ health \in [Eyes -> Nat]
    BY <1>0 DEF FrameTypeOK
  <2> QED BY <2>1, <2>2
<1>b. \A t \in Eyes : Health(t) \in Nat
  BY <1>0, HealthType
<1>s. ASSUME UNCHANGED <<textures, draw, store, written, shown, dropped>>
      PROVE  \A t \in Eyes : RingInv(t)' /\ Health(t)' = Health(t)
  BY <1>0, <1>s, RingSame, Zenon
<1>1. CASE ConvertLook
  <2>1. \A t \in Eyes : RingInv(t)' /\ Health(t)' = Health(t)
    BY <1>1, <1>s, Zenon DEF ConvertLook
  <2> QED BY <1>0, <1>a, <1>1, <2>1 DEF ConvertLook, SeenInv
<1>2. CASE ConvertFails
  <2>1. \A t \in Eyes : RingInv(t)' /\ Health(t)' = Health(t)
    BY <1>2, <1>s, Zenon DEF ConvertFails
  <2> QED BY <1>0, <1>a, <1>2, <2>1 DEF ConvertFails, SeenInv
<1>3. CASE DrawLook
  <2>1. \A t \in Eyes : RingInv(t)' /\ Health(t)' = Health(t)
    BY <1>3, <1>s, Zenon DEF DrawLook
  <2>2. \A t \in Eyes : health'[t] <= Health(t)
    BY <1>b, <1>3 DEF DrawLook
  <2>3. UNCHANGED <<convertAt, storeCopy, store, turn>>
    BY <1>3, Zenon DEF DrawLook
  <2> QED BY <1>0, <1>a, <2>1, <2>2, <2>3 DEF SeenInv
<1>n. ASSUME NextDraw PROVE drawAt' /= 0 => drawAt' = drawAt + 1 /\ health' = health
  BY <1>n DEF NextDraw
<1>4. CASE DrawSkip
  <2>1. \A t \in Eyes : RingInv(t)' /\ Health(t)' = Health(t)
    BY <1>4, <1>s, Zenon DEF DrawSkip
  <2>2. /\ drawAt' /= 0 => drawAt' = drawAt + 1 /\ health' = health
        /\ UNCHANGED <<convertAt, storeCopy, store, turn>> /\ drawAt /= 0
    BY <1>4, <1>n, Zenon DEF DrawSkip
  <2> QED BY <1>0, <1>a, <2>1, <2>2 DEF SeenInv
<1>5. CASE PrepareSeek \/ EndSeek \/ UNCHANGED frameVars
  <2>1. /\ UNCHANGED <<convertAt, storeCopy, store, turn, drawAt, health>>
        /\ UNCHANGED <<textures, draw, store, written, shown, dropped>>
    BY <1>5, Zenon DEF PrepareSeek, EndSeek, frameVars
  <2>2. \A t \in Eyes : RingInv(t)' /\ Health(t)' = Health(t)
    BY <2>1, <1>s, Zenon
  <2> QED BY <1>0, <1>a, <2>1, <2>2 DEF SeenInv
<1>6. CASE ConvertStore
  <2>1. ASSUME NEW t \in Eyes, t = turn PROVE RingInv(t)' /\ Health(t)' = Health(t) + 1
    BY <1>0, <1>6, <2>1, RingStore
  <2>2. ASSUME NEW t \in Eyes, t /= turn PROVE RingInv(t)' /\ Health(t)' = Health(t)
    <3>1. /\ textures'[t] = textures[t] /\ draw'[t] = draw[t] /\ store'[t] = store[t]
          /\ written'[t] = written[t] /\ shown'[t] = shown[t] /\ dropped'[t] = dropped[t]
      BY <1>0, <1>6, <2>2 DEF ConvertStore, FrameTypeOK
    <3> QED BY <1>0, <3>1, RingSame, Zenon
  <2>3. \A t \in Eyes : RingInv(t)' /\ Health(t)' >= Health(t)
    BY <1>b, <2>1, <2>2
  <2>4. UNCHANGED <<drawAt, health>> /\ convertAt' = "look"
    BY <1>6, Zenon DEF ConvertStore
  <2>5. \A t \in Eyes : Health(t)' \in Nat
    BY <1>b, <2>1, <2>2
  <2> QED BY <1>0, <1>a, <1>b, <2>3, <2>4, <2>5 DEF SeenInv
<1>7. ASSUME NEW u \in Eyes, DrawAdvance(u) PROVE SeenInv' /\ \A t \in Eyes : RingInv(t)'
  <2>1. /\ drawAt = u /\ health[u] > 0 /\ convertAt' = convertAt /\ storeCopy' = storeCopy
        /\ store' = store /\ turn' = turn
    BY <1>7, Zenon DEF DrawAdvance, MayDraw
  <2>2. u /= 0 /\ u \in Nat /\ health[u] \in Nat
    BY <1>a DEF Eyes
  <2>3. Health(u) > 0
    BY <1>0, <1>a, <1>b, <2>1, <2>2 DEF SeenInv
  <2>4. RingInv(u)' /\ Health(u)' = Health(u) - 1
    BY <1>0, <1>7, <2>3, RingDraw
  <2>5. ASSUME NEW t \in Eyes, t /= u PROVE RingInv(t)' /\ Health(t)' = Health(t)
    <3>1. /\ textures'[t] = textures[t] /\ draw'[t] = draw[t] /\ store'[t] = store[t]
          /\ written'[t] = written[t] /\ shown'[t] = shown[t] /\ dropped'[t] = dropped[t]
      BY <1>0, <1>7, <2>5 DEF DrawAdvance, FrameTypeOK
    <3> QED BY <1>0, <3>1, RingSame, Zenon
  <2>6. \A t \in Eyes : RingInv(t)' /\ Health(t)' <= Health(t) /\ Health(t)' \in Int
    BY <1>b, <2>4, <2>5
  <2>7. drawAt' /= 0 => drawAt' = drawAt + 1 /\ health' = health
    BY <1>7, <1>n, Zenon DEF DrawAdvance
  <2>8. drawAt' /= 0 => \A t \in Eyes : t >= drawAt' => health'[t] <= Health(t)'
    <3> SUFFICES ASSUME drawAt' /= 0, NEW t \in Eyes, t >= drawAt'
                 PROVE  health'[t] <= Health(t)'
      OBVIOUS
    <3>1. t /= u /\ t >= drawAt /\ health' = health
      BY <1>a, <2>1, <2>2, <2>7
    <3>2. health[t] <= Health(t)
      BY <1>0, <2>1, <2>2, <3>1 DEF SeenInv
    <3> QED BY <2>5, <3>1, <3>2
  <2>9. convertAt' = "write" => storeCopy' = store'[turn'] /\ Health(turn)' + 1 < Buffers
    <3> SUFFICES ASSUME convertAt = "write"
                 PROVE  storeCopy = store[turn] /\ Health(turn)' + 1 < Buffers
      BY <2>1, Zenon
    <3>1. storeCopy = store[turn] /\ Health(turn) + 1 < Buffers
      BY <1>0 DEF SeenInv
    <3>2. Filled(draw'[turn], store'[turn], Buffers) <= Health(turn)
          /\ Filled(draw'[turn], store'[turn], Buffers) \in Int
      BY <1>a, <2>6 DEF Health
    <3>3. Health(turn)' = Filled(draw'[turn], store'[turn], Buffers)
      BY <2>1, Zenon DEF Health
    <3> QED BY <1>a, <1>b, <3>1, <3>2, <3>3
  <2> QED BY <2>6, <2>8, <2>9, Zenon DEF SeenInv
<1>8. CASE ResetRing
  <2>1. \A t \in Eyes : RingInv(t)'
    BY <1>0, <1>8, RingReset
  <2>2. drawAt' = 0 /\ convertAt' = "look"
    BY <1>8, Zenon DEF ResetRing, EmptyRing
  <2> QED BY <2>1, <2>2 DEF SeenInv
<1> QED BY <1>1, <1>2, <1>3, <1>4, <1>5, <1>6, <1>7, <1>8, Zenon DEF FrameNext

THEOREM FrameInvariant == FrameSpec => []FrameInv
BY FrameInitInv, FrameNextInv, PTL DEF FrameSpec

\* The variables of the textures have their types.
THEOREM FrameTypes == FrameSpec => []FrameTypeOK
<1>1. FrameInv => FrameTypeOK
  BY DEF FrameInv
<1> QED BY <1>1, FrameInvariant, PTL

\* For any number of tracks and textures: the one being written is neither on
\* the screen nor waiting to be.
THEOREM PicturesAreWhole == FrameSpec => []NoTear
<1>1. ASSUME FrameInv PROVE NoTear
  <2> SUFFICES ASSUME convertAt = "write", ~raced
               PROVE  /\ storeCopy /= Before(draw[turn], Buffers)
                      /\ \A k \in 0..Health(turn) - 1 : storeCopy /= Place(draw[turn], k, Buffers)
    BY DEF NoTear
  <2>1. /\ turn \in Eyes /\ Buffers \in Nat \ {0, 1} /\ draw[turn] \in 0..Buffers - 1
        /\ store[turn] \in 0..Buffers - 1
    BY <1>1 DEF FrameInv, FrameTypeOK, BufferSlots
  <2>2. /\ storeCopy = store[turn] /\ Health(turn) + 1 < Buffers
        /\ Holds(textures[turn], draw[turn], store[turn], Health(turn), written[turn], Buffers)
    BY <1>1, <2>1 DEF FrameInv, SeenInv, RingInv
  <2>3. Before(draw[turn], Buffers) = Place(draw[turn], Buffers - 1, Buffers)
    BY <2>1 DEF Before, Place
  <2>4. Health(turn) \in 0..Buffers - 1 /\ Health(turn) /= Buffers - 1 /\ Buffers - 1 \in 0..Buffers - 1
        /\ store[turn] = Place(draw[turn], Health(turn), Buffers)
    BY <2>1, <2>2 DEF Holds
  <2>5. store[turn] /= Before(draw[turn], Buffers)
    BY <2>1, <2>3, <2>4, PlacesDiffer
  <2>6. \A k \in 0..Health(turn) - 1 : store[turn] /= Place(draw[turn], k, Buffers)
    BY <2>1, <2>2, HoldsApart
  <2> QED BY <2>2, <2>5, <2>6
<1> QED BY <1>1, FrameInvariant, PTL

\* For any number of tracks and textures the screen never goes back.
THEOREM ScreenAdvances == FrameSpec => FramesInOrder
<1>1. ASSUME FrameInv, [FrameNext]_frameVars, ~raced, NEW t \in Eyes, shown'[t] /= shown[t]
      PROVE  shown'[t] > shown[t] /\ shown'[t] > dropped[t]
  <2>0. FrameTypeOK /\ SeenInv /\ \A u \in Eyes : RingInv(u)
    BY <1>1 DEF FrameInv
  <2>1. PICK u \in Eyes : DrawAdvance(u)
    BY <1>1, Zenon DEF FrameNext, frameVars, ConvertLook, ConvertStore, ConvertFails, DrawLook,
       DrawSkip, PrepareSeek, ResetRing, EmptyRing, EndSeek
  <2>2. u = t
    BY <1>1, <2>0, <2>1 DEF DrawAdvance, FrameTypeOK
  <2>3. /\ drawAt = t /\ health[t] > 0 /\ t \in Nat \ {0} /\ health[t] \in Nat
    BY <2>0, <2>1, <2>2 DEF DrawAdvance, MayDraw, FrameTypeOK, Eyes
  <2>4. Health(t) > 0
    BY <2>0, <2>3, HealthType DEF SeenInv
  <2> QED BY <2>0, <2>1, <2>2, <2>4, RingDraw
<1>2. ASSUME FrameInv, [FrameNext]_frameVars
      PROVE  ~raced => \A t \in Eyes : shown'[t] /= shown[t] =>
                         shown'[t] > shown[t] /\ shown'[t] > dropped[t]
  BY <1>1, <1>2, Zenon
<1> QED BY <1>2, FrameInvariant, PTL DEF FrameSpec, FramesInOrder

-----------------------------------------------------------------------------
(* The whole path.  While a seek is on its way the decode thread parses     *)
(* nothing; behind the SEEK the read thread reads nothing; and the convert  *)
(* thread is inside the decoder only while it converts, which it does not   *)
(* start any more once it has taken its CLEAR.                              *)

PathInv ==
  /\ seekAt \in {"none", "posted", "seeked", "clearing"}
  /\ seekAt /= "none" => mode = "preparing" /\ parser = "idle"
  /\ seekAt \in {"seeked", "clearing"} => reader = "idle"
  /\ convertAt \in {"look", "write"}
  /\ convertAt = "look" => getter = "idle"
  /\ wave = "cleared" => convertAt = "look"

LEMMA PathInitInv == PathInit => PathInv
BY DEF PathInit, PacketInit, ImageInit, FrameInit, PathInv

LEMMA PathNextInv == PathInv /\ [PathNext]_pathVars => PathInv'
<1> SUFFICES ASSUME PathInv, [PathNext]_pathVars PROVE PathInv'
  OBVIOUS
<1> USE DEF PathInv, OnlyPackets, OnlyImages, OnlyFrames, packetVars, imageVars, frameVars,
            seekVars, packetPart, ringPart
<1>1. CASE Read
  BY <1>1 DEF Read, ReadStart, ReadFrame, ReadFails, ReadCount
<1>2. CASE Parse
  BY <1>2 DEF Parse, MayParse, ParseStart, ParseRoute, Route, RouteFails, ParseCount, Answered
<1>3. CASE Decode
  BY <1>3 DEF Decode, TakeRequest, DecodeStart, GiveUp, Picture, Counted, NoPicture, FlushStart,
              FlushEnd
<1>4. CASE Convert
  BY <1>4 DEF Convert, ConvertLook, GetStart, GetCopy, GetCount, GetFails, ConvertFails, ConvertStore
<1>5. CASE Draw
  BY <1>5 DEF Draw, DrawLook, DrawSkip, DrawAdvance
<1>6. CASE Seek
  BY <1>6 DEF Seek, SeekPost, PrepareSeek, SeekRead, EmptyCache, SeekClear, WaveStart, SeekImages,
              SeekReopen, Reopen, EmptyRing, EndSeek
<1>7. CASE UNCHANGED pathVars
  BY <1>7 DEF pathVars
<1> QED BY <1>1, <1>2, <1>3, <1>4, <1>5, <1>6, <1>7, Zenon DEF PathNext

THEOREM PathInvariant == PathSpec => []PathInv
BY PathInitInv, PathNextInv, PTL DEF PathSpec

\* Each step of the path is a step of each ring, or leaves it alone.
LEMMA PathStepsPackets == PathInv /\ [PathNext]_pathVars => [PacketNext]_packetVars
<1> SUFFICES ASSUME PathInv, [PathNext]_pathVars PROVE PacketNext \/ UNCHANGED packetVars
  BY Zenon
<1>1. CASE Read \/ Parse
  BY <1>1, Zenon DEF Read, Parse, OnlyPackets, OnlyImages, PacketNext
<1>2. CASE Decode \/ Convert \/ Draw
  BY <1>2, Zenon DEF Decode, Convert, Draw, OnlyImages, OnlyFrames
<1>3. CASE Seek
  <2>1. CASE SeekRead
    BY <2>1 DEF SeekRead, PathInv, ClearCache, PacketNext
  <2>2. CASE SeekReopen
    BY <2>2 DEF SeekReopen, PathInv, ClearCache, PacketNext
  <2>3. CASE SeekPost \/ SeekClear \/ SeekImages \/ OnlyFrames(EndSeek)
    BY <2>3, Zenon DEF SeekPost, SeekClear, SeekImages, OnlyFrames
  <2> QED BY <1>3, <2>1, <2>2, <2>3, Zenon DEF Seek
<1>4. CASE UNCHANGED pathVars
  BY <1>4, Zenon DEF pathVars
<1> QED BY <1>1, <1>2, <1>3, <1>4, Zenon DEF PathNext

LEMMA PathStepsImages == PathInv /\ [PathNext]_pathVars => [ImageNext]_imageVars
<1> SUFFICES ASSUME PathInv, [PathNext]_pathVars PROVE ImageNext \/ UNCHANGED imageVars
  BY Zenon
<1>1. CASE Read \/ Parse
  BY <1>1, Zenon DEF Read, Parse, OnlyPackets, OnlyImages, ImageNext
<1>2. CASE Decode \/ Convert \/ Draw
  BY <1>2, Zenon DEF Decode, Convert, Draw, OnlyImages, OnlyFrames, ImageNext
<1>3. CASE Seek
  <2>1. CASE SeekImages
    BY <2>1 DEF SeekImages, PathInv, ClearImages, ImageNext
  <2>2. CASE SeekPost \/ SeekRead \/ SeekClear \/ SeekReopen \/ OnlyFrames(EndSeek)
    BY <2>2, Zenon DEF SeekPost, SeekRead, SeekClear, SeekReopen, OnlyFrames, ImageNext
  <2> QED BY <1>3, <2>1, <2>2, Zenon DEF Seek
<1>4. CASE UNCHANGED pathVars
  BY <1>4, Zenon DEF pathVars
<1> QED BY <1>1, <1>2, <1>3, <1>4, Zenon DEF PathNext

LEMMA PathStepsFrames == PathInv /\ [PathNext]_pathVars => [FrameNext]_frameVars
<1> SUFFICES ASSUME PathInv, [PathNext]_pathVars PROVE FrameNext \/ UNCHANGED frameVars
  BY Zenon
<1>0. 1 \in Eyes
  BY DEF Eyes
<1>1. CASE Read \/ Parse \/ Decode
  BY <1>1, Zenon DEF Read, Parse, Decode, OnlyPackets, OnlyImages
<1>2. CASE Convert \/ Draw
  BY <1>0, <1>2, Zenon DEF Convert, Draw, OnlyImages, OnlyFrames, FrameNext
<1>3. CASE Seek
  <2>1. CASE SeekReopen
    BY <2>1 DEF SeekReopen, Reopen, PathInv, ResetRing, FrameNext
  <2>2. CASE SeekPost \/ SeekRead \/ SeekClear \/ SeekImages \/ OnlyFrames(EndSeek)
    BY <2>2, Zenon DEF SeekPost, SeekRead, SeekClear, SeekImages, OnlyFrames, FrameNext
  <2> QED BY <1>3, <2>1, <2>2, Zenon DEF Seek
<1>4. CASE UNCHANGED pathVars
  BY <1>4, Zenon DEF pathVars
<1> QED BY <1>1, <1>2, <1>3, <1>4, Zenon DEF PathNext

\* For any sizes: the messages of a seek clear each ring only when both its
\* threads are outside.
THEOREM SeekClearsAlone == PathSpec => RingsClearedAlone
<1>1. PathInit => PacketInit /\ ImageInit /\ FrameInit
  BY Zenon DEF PathInit
<1> QED BY <1>1, PathInvariant, PathStepsPackets, PathStepsImages, PathStepsFrames, PTL
        DEF PathSpec, PacketSpec, ImageSpec, FrameSpec, RingsClearedAlone

\* So in the player, too, the rings are channels and the screen never goes back.
THEOREM PathKeepsOrder == PathSpec => PacketsInOrder /\ ImagesInOrder /\ FramesInOrder
BY SeekClearsAlone, CacheIsChannel, ImagesAreChannel, ScreenAdvances, PTL DEF RingsClearedAlone
-----------------------------------------------------------------------------
(* What a seek leaves behind.  What was read or decoded before the last one *)
(* is no longer in a ring; the decoded pictures reach the textures in their *)
(* order; and while the convert thread holds a picture it is newer than all *)
(* in the textures.                                                         *)

RingsInv == PathInv /\ PacketInv /\ ImageInv /\ FrameInv

\* The packets in the cache were read after the seek, the pictures in the
\* decoder's ring were decoded after it and after the one taken last.
CacheNewer == lastRead \in Nat /\ lastRead + Held <= reads
ImagesNewer == /\ lastMade \in Nat
               /\ lastMade + ImagesHeld <= made /\ got + ImagesHeld <= made

Numbers == 1..Len(origin)

\* The numbers of the textures are those of pictures in their order, and the
\* textures that wait for the screen are of pictures of after the seek.
OriginInv ==
  /\ tracks = 1 /\ turn = 1
  /\ origin \in Seq(Nat) /\ Len(origin) = written[1]
  /\ \A i, j \in Numbers : i < j => origin[i] < origin[j]
  /\ \A i \in Numbers : origin[i] <= got
  /\ convertAt = "write" /\ getter /= "copying" =>
       got > lastMade /\ \A i \in Numbers : origin[i] < got
  /\ ~raced => \A i \in Numbers : i > written[1] - Health(1) => origin[i] > lastMade

OrderInv == CacheNewer /\ ImagesNewer /\ OriginInv

LEMMA RingsInvariant == PathSpec => []RingsInv
<1>1. PathSpec => PacketSpec /\ ImageSpec /\ FrameSpec
  BY SeekClearsAlone, PTL DEF RingsClearedAlone
<1> QED BY <1>1, PathInvariant, PacketInvariant, ImageInvariant, FrameInvariant, PTL DEF RingsInv

LEMMA OrderInitInv == PathInit => OrderInv
<1> SUFFICES ASSUME PathInit PROVE OrderInv
  OBVIOUS
<1>1. CacheNewer
  BY DEF PathInit, PacketInit, CacheNewer, Held
<1>2. ImagesNewer
  BY DEF PathInit, ImageInit, ImagesNewer, ImagesHeld, Nothing
<1>3. OriginInv
  <2>1. 1 \in Eyes
    BY DEF Eyes
  <2>2. written[1] = 0 /\ Numbers = {} /\ origin \in Seq(Nat) /\ Len(origin) = 0
    BY <2>1 DEF PathInit, FrameInit, Numbers
  <2>3. tracks = 1 /\ turn = 1 /\ convertAt = "look"
    BY DEF PathInit, FrameInit
  <2> QED BY <2>2, <2>3 DEF OriginInv
<1> QED BY <1>1, <1>2, <1>3 DEF OrderInv

\* A packet leaves the cache or a new one comes in; a seek empties it.
LEMMA CacheNewerNext ==
  ASSUME RingsInv, CacheNewer, [PathNext]_pathVars
  PROVE  CacheNewer'
<1>0. /\ available \in Nat /\ reads \in Nat /\ lastRead \in Nat
      /\ lastRead + Held <= reads /\ Held \in Nat
      /\ reader \in {"idle", "filling", "counting"} /\ parser \in {"idle", "routing", "counting"}
  <2>1. PacketInv
    BY DEF RingsInv
  <2>2. Held \in Nat
    BY <2>1, HeldType
  <2> QED BY <2>1, <2>2 DEF PacketInv, PacketTypeOK, CacheNewer
<1>s. ASSUME UNCHANGED <<available, reader, parser, reads, lastRead>> PROVE CacheNewer'
  BY <1>0, <1>s DEF CacheNewer, Held
<1>1. ASSUME lastRead' = lastRead,
             ReadStart \/ ReadFrame \/ ReadFails \/ ReadCount \/ ParseStart \/ ParseRoute
               \/ RouteFails \/ ParseCount
      PROVE  CacheNewer'
  <2>1. CASE ReadStart \/ ReadFails \/ ParseStart \/ RouteFails
    BY <1>0, <1>1, <2>1 DEF ReadStart, ReadFails, ParseStart, RouteFails, CacheNewer, Held
  <2>2. CASE ReadFrame
    BY <1>0, <1>1, <2>2 DEF ReadFrame, CacheNewer, Held
  <2>3. CASE ReadCount
    BY <1>0, <1>1, <2>3 DEF ReadCount, CacheNewer, Held
  <2>4. CASE ParseRoute
    BY <1>0, <1>1, <2>4 DEF ParseRoute, CacheNewer, Held
  <2>5. CASE ParseCount
    BY <1>0, <1>1, <2>5 DEF ParseCount, CacheNewer, Held
  <2> QED BY <1>1, <2>1, <2>2, <2>3, <2>4, <2>5
<1>2. CASE Read
  BY <1>1, <1>2, Zenon DEF Read, OnlyPackets, seekVars
<1>3. CASE Parse
  <2>1. CASE OnlyImages(Answered)
    BY <1>s, <2>1, Zenon DEF OnlyImages, packetVars, seekVars
  <2>2. CASE ~OnlyImages(Answered)
    BY <1>1, <1>3, <2>2, Zenon DEF Parse, OnlyPackets, seekVars
  <2> QED BY <2>1, <2>2
<1>4. CASE Decode \/ Convert \/ Draw
  <2>1. UNCHANGED packetVars /\ lastRead' = lastRead
    BY <1>4, Zenon DEF Decode, Convert, Draw, OnlyImages, OnlyFrames, seekVars
  <2> QED BY <1>s, <2>1, Zenon DEF packetVars
<1>5. CASE SeekPost \/ SeekClear \/ SeekImages \/ OnlyFrames(EndSeek) \/ UNCHANGED pathVars
  <2>1. UNCHANGED packetVars /\ lastRead' = lastRead
    BY <1>5, Zenon DEF SeekPost, SeekClear, SeekImages, OnlyFrames, seekVars, pathVars
  <2> QED BY <1>s, <2>1, Zenon DEF packetVars
<1>6. CASE SeekRead \/ SeekReopen
  <2>1. reader = "idle" /\ parser = "idle"
    BY <1>6 DEF SeekRead, SeekReopen, RingsInv, PathInv
  <2>2. /\ available' = 0 /\ reader' = reader /\ parser' = parser /\ reads' = reads
        /\ lastRead' \in {reads, lastRead}
    BY <1>6 DEF SeekRead, SeekReopen, EmptyCache
  <2>3. lastRead \in Nat /\ lastRead <= reads /\ reads \in Nat
    BY <1>0
  <2>4. lastRead' \in Nat /\ lastRead' <= reads'
    BY <2>2, <2>3
  <2>5. Held' = 0
    BY <2>1, <2>2 DEF Held
  <2>6. lastRead' + Held' <= reads'
    BY <2>4, <2>5
  <2> QED BY <2>4, <2>6 DEF CacheNewer
<1> QED BY <1>2, <1>3, <1>4, <1>5, <1>6, Zenon DEF PathNext, Seek

\* The decoder gives a picture or the convert thread takes the oldest, which
\* is newer than what it had; a seek empties the ring.
LEMMA ImagesNewerNext ==
  ASSUME RingsInv, ImagesNewer, [PathNext]_pathVars
  PROVE  ImagesNewer'
<1>0. /\ imageCount \in Nat /\ made \in Nat /\ got \in Nat /\ lastMade \in Nat
      /\ lastMade + ImagesHeld <= made /\ got + ImagesHeld <= made /\ ImagesHeld \in Nat
      /\ coder \in {"idle", "trying", "decoding", "counting"}
      /\ getter \in {"idle", "copying", "counting"}
  <2>1. ImageTypeOK /\ PicturesInv
    BY DEF RingsInv, ImageInv
  <2>2. ImagesHeld \in Nat
    BY <2>1, ImagesHeldType
  <2> QED BY <2>1, <2>2 DEF ImageTypeOK, ImagesNewer
<1>s. ASSUME UNCHANGED <<imageCount, made, got, lastMade>>,
             coder' = coder \/ (coder /= "counting" /\ coder' /= "counting"),
             getter' = getter \/ (getter /= "counting" /\ getter' /= "counting")
      PROVE  ImagesNewer'
  BY <1>0, <1>s DEF ImagesNewer, ImagesHeld
<1>1. ASSUME lastMade' = lastMade,
             Route \/ TakeRequest \/ Answered \/ DecodeStart \/ GiveUp \/ Picture \/ Counted
               \/ NoPicture \/ GetStart \/ GetCopy \/ GetFails \/ GetCount \/ WaveStart
               \/ FlushStart \/ FlushEnd
      PROVE  ImagesNewer'
  <2>1. CASE Route \/ TakeRequest \/ Answered \/ DecodeStart \/ GiveUp \/ NoPicture \/ GetStart
               \/ GetFails \/ WaveStart \/ FlushStart \/ FlushEnd
    <3>1. /\ UNCHANGED <<imageCount, made, got>>
          /\ coder' = coder \/ (coder /= "counting" /\ coder' /= "counting")
          /\ getter' = getter \/ (getter /= "counting" /\ getter' /= "counting")
      BY <2>1 DEF Route, TakeRequest, Answered, DecodeStart, GiveUp, NoPicture, GetStart, GetFails,
         WaveStart, FlushStart, FlushEnd, ringPart
    <3> QED BY <1>1, <1>s, <3>1
  <2>2. CASE Picture
    BY <1>0, <1>1, <2>2 DEF Picture, ImagesNewer, ImagesHeld
  <2>3. CASE Counted
    <3>1. /\ coder = "counting" /\ coder' /= "counting" /\ imageCount' = imageCount + 1
          /\ UNCHANGED <<made, got, getter>>
      BY <2>3 DEF Counted
    <3> QED BY <1>0, <1>1, <3>1 DEF ImagesNewer, ImagesHeld
  <2>4. CASE GetCopy
    <3>1. got' = made - ImagesHeld + 1
      BY <2>4, InvPicturesApart DEF RingsInv, PicturesApart, GetCopy
    <3>2. /\ getter = "copying" /\ getter' = "counting"
          /\ UNCHANGED <<made, coder, imageCount>>
      BY <2>4 DEF GetCopy
    <3> QED BY <1>0, <1>1, <3>1, <3>2 DEF ImagesNewer, ImagesHeld
  <2>5. CASE GetCount
    BY <1>0, <1>1, <2>5 DEF GetCount, ImagesNewer, ImagesHeld
  <2> QED BY <1>1, <2>1, <2>2, <2>3, <2>4, <2>5, Zenon
<1>2. CASE Read \/ Draw \/ SeekPost \/ SeekRead \/ OnlyFrames(EndSeek) \/ UNCHANGED pathVars
  <2>1. UNCHANGED imageVars /\ lastMade' = lastMade
    BY <1>2, Zenon DEF Read, Draw, SeekPost, SeekRead, OnlyPackets, OnlyFrames, seekVars, pathVars
  <2> QED BY <1>s, <2>1, Zenon DEF imageVars
<1>3. CASE Parse
  <2>1. lastMade' = lastMade
    BY <1>3, Zenon DEF Parse, OnlyPackets, OnlyImages, seekVars
  <2>2. Route \/ Answered \/ UNCHANGED imageVars
    BY <1>3, Zenon DEF Parse, OnlyPackets, OnlyImages
  <2> QED BY <1>1, <1>s, <2>1, <2>2, Zenon DEF imageVars
<1>4. CASE Decode
  BY <1>1, <1>4, Zenon DEF Decode, OnlyImages, seekVars
<1>5. CASE Convert
  <2>1. lastMade' = lastMade
    BY <1>5, Zenon DEF Convert, OnlyImages, OnlyFrames, seekVars
  <2>2. GetStart \/ GetCopy \/ GetCount \/ GetFails \/ UNCHANGED imageVars
    BY <1>5, Zenon DEF Convert, OnlyImages, OnlyFrames
  <2> QED BY <1>1, <1>s, <2>1, <2>2, Zenon DEF imageVars
<1>6. CASE SeekClear
  BY <1>1, <1>6, Zenon DEF SeekClear
<1>7. CASE SeekImages \/ SeekReopen
  <2>1. coder = "idle" /\ getter = "idle"
    BY <1>7 DEF SeekImages, SeekReopen, Reopen, RingsInv, PathInv, ImageInv, WaveInv
  <2>2. /\ imageCount' = 0 /\ coder' = coder /\ getter' = getter /\ made' = made /\ got' = got
        /\ lastMade' \in {made, lastMade}
    BY <1>7 DEF SeekImages, SeekReopen, Reopen, EmptyImages, seekVars
  <2>3. lastMade \in Nat /\ lastMade <= made /\ got \in Nat /\ got <= made /\ made \in Nat
    BY <1>0
  <2>4. lastMade' \in Nat /\ lastMade' <= made' /\ got' \in Nat /\ got' <= made'
    BY <2>2, <2>3
  <2>5. ImagesHeld' = 0
    BY <2>1, <2>2 DEF ImagesHeld
  <2>6. lastMade' + ImagesHeld' <= made' /\ got' + ImagesHeld' <= made'
    BY <2>4, <2>5
  <2> QED BY <2>4, <2>6 DEF ImagesNewer
<1> QED BY <1>2, <1>3, <1>4, <1>5, <1>6, <1>7, Zenon DEF PathNext, Seek

\* The main loop draws from a ring that has a picture, and shows the oldest.
LEMMA DrawShowsOldest ==
  ASSUME RingsInv, tracks = 1, DrawAdvance(1), ~raced
  PROVE  /\ RingInv(1) /\ Health(1) > 0
         /\ shown'[1] = written[1] - Health(1) + 1
<1>0. /\ FrameTypeOK /\ SeenInv /\ 1 \in Eyes /\ RingInv(1) /\ Buffers \in Nat \ {0}
  <2>1. 1 \in Eyes
    BY DEF Eyes
  <2> QED BY <2>1 DEF RingsInv, FrameInv
<1>1. Health(1) > 0
  <2>1. drawAt = 1 /\ health[1] > 0 /\ health[1] \in Nat
    BY <1>0 DEF DrawAdvance, MayDraw, FrameTypeOK
  <2>2. health[1] <= Health(1) /\ Health(1) \in Nat
    BY <1>0, <2>1, HealthType DEF SeenInv
  <2> QED BY <2>1, <2>2
<1>2. /\ textures[1] \in [0..Buffers - 1 -> Nat] /\ written[1] \in Nat
      /\ draw[1] \in 0..Buffers - 1 /\ shown'[1] = textures[1][draw[1]]
  BY <1>0 DEF FrameTypeOK, BufferSlots, DrawAdvance
<1>3. textures[1][draw[1]] = written[1] - Health(1) + 1
  BY <1>0, <1>1, <1>2, HoldsOldest DEF RingInv
<1> QED BY <1>0, <1>1, <1>2, <1>3

LEMMA OriginNext ==
  ASSUME RingsInv, ImagesNewer, OriginInv, [PathNext]_pathVars
  PROVE  OriginInv'
<1>0. /\ FrameTypeOK /\ 1 \in Eyes /\ tracks = 1 /\ turn = 1
      /\ origin \in Seq(Nat) /\ Len(origin) = written[1] /\ Len(origin) \in Nat
      /\ got \in Nat /\ lastMade \in Nat /\ made \in Nat
      /\ Health(1) \in Nat /\ Buffers \in Nat \ {0}
      /\ \A i \in Numbers : origin[i] \in Nat
  <2>1. 1 \in Eyes
    BY DEF Eyes
  <2>2. FrameTypeOK /\ ImageTypeOK
    BY DEF RingsInv, FrameInv, ImageInv
  <2>3. Health(1) \in Nat
    BY <2>1, <2>2, HealthType
  <2>4. origin \in Seq(Nat) /\ \A i \in Numbers : origin[i] \in Nat
    BY DEF OriginInv, Numbers
  <2> QED BY <2>1, <2>2, <2>3, <2>4 DEF ImageTypeOK, ImagesNewer, OriginInv
<1>s. ASSUME UNCHANGED <<tracks, turn, origin, written, store, draw, lastMade, got, raced>>,
             convertAt' = "write" /\ getter' /= "copying" =>
               convertAt = "write" /\ getter /= "copying"
      PROVE  OriginInv'
  <2>1. Health(1)' = Health(1) /\ Numbers' = Numbers
    BY <1>s, Zenon DEF Health, Numbers
  <2> QED BY <1>s, <2>1, Zenon DEF OriginInv
<1>1. CASE Read \/ Parse \/ Decode \/ SeekPost \/ SeekRead \/ SeekClear \/ SeekImages
             \/ OnlyFrames(EndSeek) \/ UNCHANGED pathVars
  <2>1. UNCHANGED <<tracks, turn, origin, written, store, draw, lastMade, raced, convertAt>>
    BY <1>1, Zenon DEF Read, Parse, Decode, SeekPost, SeekRead, SeekClear, SeekImages, OnlyPackets,
       OnlyImages, OnlyFrames, PrepareSeek, EndSeek, frameVars, seekVars, pathVars
  <2>2. UNCHANGED <<got, getter>>
    <3>1. CASE Read \/ SeekPost \/ SeekRead \/ SeekClear \/ SeekImages \/ OnlyFrames(EndSeek)
                 \/ UNCHANGED pathVars
      BY <3>1, Zenon DEF Read, SeekPost, SeekRead, SeekClear, SeekImages, WaveStart, OnlyPackets,
         OnlyFrames, imageVars, pathVars
    <3>2. CASE Parse
      BY <3>2, Zenon DEF Parse, Route, Answered, OnlyPackets, OnlyImages, imageVars
    <3>3. CASE Decode
      BY <3>3, Zenon DEF Decode, TakeRequest, DecodeStart, GiveUp, Picture, Counted, NoPicture,
         FlushStart, FlushEnd, OnlyImages
    <3> QED BY <1>1, <3>1, <3>2, <3>3, Zenon
  <2> QED BY <1>s, <2>1, <2>2, Zenon
<1>2. CASE OnlyFrames(DrawLook) \/ OnlyFrames(DrawSkip)
  <2>1. UNCHANGED <<tracks, turn, origin, written, store, draw, lastMade, got, raced, convertAt, getter>>
    BY <1>2, Zenon DEF OnlyFrames, DrawLook, DrawSkip, imageVars, seekVars
  <2> QED BY <1>s, <2>1, Zenon
<1>3. CASE OnlyFrames(DrawAdvance(1))
  <2>1. /\ UNCHANGED <<tracks, turn, origin, written, lastMade, got, raced, convertAt, getter>>
        /\ DrawAdvance(1)
    BY <1>3, Zenon DEF OnlyFrames, DrawAdvance, imageVars, seekVars
  <2>2. Numbers' = Numbers
    BY <2>1, Zenon DEF Numbers
  <2>3. ASSUME ~raced, NEW i \in Numbers, i > written[1] - Health(1)' PROVE origin[i] > lastMade
    <3>1. Health(1)' = Health(1) - 1
      BY <1>0, <2>1, <2>3, DrawShowsOldest, RingDraw
    <3>2. i \in Nat /\ written[1] \in Nat
      BY <1>0 DEF Numbers
    <3>3. i > written[1] - Health(1)
      BY <1>0, <2>3, <3>1, <3>2
    <3> QED BY <2>3, <3>3 DEF OriginInv
  <2> QED BY <2>1, <2>2, <2>3, Zenon DEF OriginInv
<1>4. CASE ConvertLook /\ GetStart /\ UNCHANGED <<packetVars, seekVars>>
  <2>1. /\ UNCHANGED <<tracks, turn, origin, written, store, draw, lastMade, got, raced>>
        /\ getter' = "copying"
    BY <1>4, Zenon DEF ConvertLook, GetStart, seekVars
  <2> QED BY <1>s, <2>1, Zenon
<1>t. NextTrack = 1
  BY <1>0 DEF NextTrack
<1>5. CASE \/ GetFails /\ ConvertFails /\ UNCHANGED <<packetVars, seekVars>>
           \/ getter = "idle" /\ OnlyFrames(ConvertFails)
  <2>1. /\ UNCHANGED <<tracks, origin, written, store, draw, lastMade, got, raced>>
        /\ convertAt' = "look" /\ turn' = NextTrack
    BY <1>5, Zenon DEF GetFails, ConvertFails, OnlyFrames, imageVars, seekVars
  <2>2. turn' = turn /\ convertAt' /= "write"
    BY <1>0, <1>t, <2>1
  <2> QED BY <1>s, <2>1, <2>2, Zenon
<1>6. CASE OnlyImages(GetCount)
  <2>1. /\ UNCHANGED <<tracks, turn, origin, written, store, draw, lastMade, got, raced, convertAt>>
        /\ getter = "counting"
    BY <1>6, Zenon DEF OnlyImages, GetCount, frameVars, seekVars
  <2>2. getter /= "copying"
    BY <2>1
  <2> QED BY <1>s, <2>1, <2>2, Zenon
<1>7. CASE OnlyImages(GetCopy)
  <2>1. /\ UNCHANGED <<tracks, turn, origin, written, store, draw, lastMade, raced>>
        /\ getter = "copying" /\ got' = images[imageTake]
    BY <1>7, Zenon DEF OnlyImages, GetCopy, frameVars, seekVars
  <2>2. images[imageTake] = made - ImagesHeld + 1
    BY <2>1, InvPicturesApart DEF RingsInv, PicturesApart
  <2>3. ImagesHeld \in Nat
    BY ImagesHeldType DEF RingsInv, ImageInv
  <2>4. got' > got /\ got' > lastMade /\ got' \in Int
    BY <1>0, <2>1, <2>2, <2>3 DEF ImagesNewer
  <2>5. \A i \in Numbers : origin[i] < got' /\ origin[i] <= got'
    BY <1>0, <2>4 DEF OriginInv
  <2>6. Health(1)' = Health(1) /\ Numbers' = Numbers
    BY <2>1, Zenon DEF Health, Numbers
  <2> QED BY <2>1, <2>4, <2>5, <2>6, Zenon DEF OriginInv
<1>8. CASE /\ getter = "idle" /\ ConvertStore
           /\ origin' = Append(origin, got)
           /\ UNCHANGED <<packetVars, imageVars, seekAt, lastRead, lastMade>>
  <2>1. /\ ConvertStore /\ getter /= "copying" /\ origin' = Append(origin, got)
        /\ UNCHANGED <<got, lastMade>>
    <3>1. getter = "idle" => getter /= "copying"
      OBVIOUS
    <3> QED BY <1>8, <3>1, Zenon DEF imageVars
  <2>2. UNCHANGED <<tracks, raced>> /\ turn' = NextTrack /\ convertAt = "write" /\ convertAt' = "look"
    BY <2>1, Zenon DEF ConvertStore
  <2>3. convertAt' /= "write" /\ turn' = 1
    BY <1>t, <2>2
  <2>4. written'[1] = written[1] + 1 /\ written[1] \in Nat
    BY <1>0, <2>1 DEF ConvertStore, FrameTypeOK
  <2>5. /\ origin' \in Seq(Nat) /\ Len(origin') = Len(origin) + 1
        /\ origin'[Len(origin) + 1] = got
        /\ \A i \in Numbers : origin'[i] = origin[i]
    BY <1>0, <2>1 DEF Numbers
  <2>6. Numbers' = Numbers \cup {Len(origin) + 1}
    BY <1>0, <2>5 DEF Numbers
  <2>7. got > lastMade /\ \A i \in Numbers : origin[i] < got
    BY <2>1, <2>2, Zenon DEF OriginInv
  <2>8. \A i, j \in Numbers' : i < j => origin'[i] < origin'[j]
    <3>1. \A i, j \in Numbers : i < j => origin'[i] < origin'[j]
      BY <2>5 DEF OriginInv
    <3>2. \A i \in Numbers : origin'[i] < got
      BY <2>5, <2>7
    <3>3. \A i \in Numbers : ~(Len(origin) + 1 < i)
      BY <1>0 DEF Numbers
    <3>4. ~(Len(origin) + 1 < Len(origin) + 1)
      BY <1>0
    <3> QED BY <2>5, <2>6, <3>1, <3>2, <3>3, <3>4, Zenon
  <2>9. \A i \in Numbers' : origin'[i] <= got'
    <3>1. \A i \in Numbers : origin'[i] <= got
      BY <2>5 DEF OriginInv
    <3>2. got <= got
      BY <1>0
    <3> QED BY <2>1, <2>5, <2>6, <3>1, <3>2, Zenon
  <2>10. ASSUME ~raced, NEW i \in Numbers', i > written'[1] - Health(1)' PROVE origin'[i] > lastMade
    <3>1. RingInv(1) /\ SeenInv
      BY <1>0, <2>10 DEF RingsInv, FrameInv
    <3>2. Health(1)' = Health(1) + 1
      BY <1>0, <2>1, <3>1, RingStore
    <3>3. CASE i = Len(origin) + 1
      BY <2>5, <2>7, <3>3
    <3>4. CASE i \in Numbers
      <4>1. i > written[1] - Health(1)
        BY <1>0, <2>4, <2>10, <3>2, <3>4 DEF Numbers
      <4> QED BY <2>5, <2>10, <3>4, <4>1 DEF OriginInv
    <3> QED BY <2>6, <2>10, <3>3, <3>4
  <2>11. Len(origin') = written'[1]
    BY <1>0, <2>4, <2>5
  <2>12. tracks' = 1
    BY <1>0, <2>2
  <2> QED BY <2>1, <2>2, <2>3, <2>5, <2>8, <2>9, <2>10, <2>11, <2>12, Zenon DEF OriginInv
<1>9. CASE SeekReopen
  <2>1. UNCHANGED <<tracks, turn, origin, written, got, convertAt>>
    BY <1>9, Zenon DEF SeekReopen, Reopen, EmptyRing
  <2>2. convertAt' /= "write"
    BY <1>9, <2>1 DEF SeekReopen, Reopen, RingsInv, PathInv
  <2>3. Numbers' = Numbers
    BY <2>1, Zenon DEF Numbers
  <2>4. ASSUME NEW i \in Numbers, i > written[1] - Health(1)' PROVE FALSE
    <3>1. store' = draw /\ draw' = draw
      BY <1>9, Zenon DEF SeekReopen, EmptyRing
    <3>2. draw[1] \in 0..Buffers - 1
      BY <1>0 DEF FrameTypeOK, BufferSlots
    <3>3. Health(1)' = 0
      BY <1>0, <3>1, <3>2 DEF Health, Filled
    <3> QED BY <1>0, <2>4, <3>3 DEF Numbers
  <2> QED BY <2>1, <2>2, <2>3, <2>4, Zenon DEF OriginInv
<1>10. CASE Convert
  BY <1>4, <1>5, <1>6, <1>7, <1>8, <1>10, Zenon DEF Convert
<1> QED BY <1>1, <1>2, <1>3, <1>9, <1>10, Zenon DEF PathNext, Draw, Seek

LEMMA OrderInvariant == PathSpec => [](RingsInv /\ OrderInv)
<1>1. RingsInv /\ OrderInv /\ [PathNext]_pathVars => OrderInv'
  BY CacheNewerNext, ImagesNewerNext, OriginNext, Zenon DEF OrderInv
<1> QED BY <1>1, RingsInvariant, OrderInitInv, PTL DEF PathSpec

\* For any number of textures, slots and seeks: what is shown is newer than
\* what was shown and than the seek, and no packet of before a seek is parsed.
THEOREM ScreenKeepsOrder == PathSpec => ScreenInOrder
<1>1. ASSUME RingsInv, OrderInv, [PathNext]_pathVars, parsed' /= parsed
      PROVE  parsed' > lastRead
  <2>0. PacketInv /\ reads \in Nat /\ lastRead \in Nat /\ lastRead + Held <= reads /\ Held \in Nat
    <3>1. PacketInv
      BY <1>1 DEF RingsInv
    <3>2. Held \in Nat
      BY <3>1, HeldType
    <3> QED BY <1>1, <3>1, <3>2 DEF PacketInv, PacketTypeOK, OrderInv, CacheNewer
  <2>1. PacketNext
    BY <1>1, PathStepsPackets, Zenon DEF RingsInv, packetVars
  <2>2. ParseRoute
    BY <1>1, <2>1, Zenon DEF PacketNext, ReadStart, ReadFrame, ReadFails, ReadCount, ParseStart,
       RouteFails, ParseCount, ClearCache, EmptyCache
  <2>3. parsed' = reads - Held + 1
    BY <2>0, <2>2, InvSlotsApart DEF SlotsApart, ParseRoute
  <2> QED BY <2>0, <2>3
<1>2. ASSUME RingsInv, OrderInv, [PathNext]_pathVars, ~raced, shown'[1] /= shown[1]
      PROVE  /\ origin[shown'[1]] > lastMade
             /\ shown[1] /= 0 => origin[shown'[1]] > origin[shown[1]]
  <2>0. /\ OriginInv /\ FrameTypeOK /\ 1 \in Eyes /\ tracks = 1 /\ written[1] \in Nat /\ shown[1] \in Nat
        /\ Len(origin) = written[1] /\ Health(1) \in Nat
    <3>1. 1 \in Eyes
      BY DEF Eyes
    <3>2. OriginInv /\ FrameTypeOK
      BY <1>2 DEF OrderInv, RingsInv, FrameInv
    <3>3. Health(1) \in Nat
      BY <3>1, <3>2, HealthType
    <3> QED BY <3>1, <3>2, <3>3 DEF OriginInv, FrameTypeOK
  <2>1. FrameNext
    BY <1>2, PathStepsFrames, Zenon DEF RingsInv, frameVars
  <2>2. PICK t \in Eyes : DrawAdvance(t)
    BY <1>2, <2>1, Zenon DEF FrameNext, ConvertLook, ConvertStore, ConvertFails, DrawLook, DrawSkip,
       PrepareSeek, ResetRing, EmptyRing, EndSeek
  <2>3. DrawAdvance(1)
    <3>1. t = 1
      BY <1>2, <2>0, <2>2 DEF DrawAdvance, FrameTypeOK
    <3> QED BY <2>2, <3>1
  <2>4. RingInv(1) /\ Health(1) > 0 /\ shown'[1] = written[1] - Health(1) + 1
    BY <1>2, <2>0, <2>3, DrawShowsOldest
  <2>5. shown[1] + Health(1) <= written[1]
    BY <2>4 DEF RingInv
  <2>6. shown'[1] \in Numbers /\ shown'[1] > written[1] - Health(1) /\ shown'[1] > shown[1]
    BY <2>0, <2>4, <2>5 DEF Numbers
  <2>7. shown[1] /= 0 => shown[1] \in Numbers
    BY <2>0, <2>5 DEF Numbers
  <2>8. origin[shown'[1]] > lastMade
    BY <1>2, <2>0, <2>6 DEF OriginInv
  <2>9. ASSUME shown[1] /= 0 PROVE origin[shown'[1]] > origin[shown[1]]
    <3>1. origin[shown[1]] < origin[shown'[1]]
      BY <2>0, <2>6, <2>7, <2>9 DEF OriginInv
    <3> QED BY <3>1
  <2> QED BY <2>8, <2>9
<1>3. RingsInv /\ OrderInv /\ [PathNext]_pathVars =>
        /\ parsed' /= parsed => parsed' > lastRead
        /\ ~raced /\ shown'[1] /= shown[1] /\ shown'[1] \in DOMAIN origin =>
             /\ origin[shown'[1]] > lastMade
             /\ shown[1] /= 0 => origin[shown'[1]] > origin[shown[1]]
  BY <1>1, <1>2, Zenon
<1> QED BY <1>3, OrderInvariant, PTL DEF PathSpec, ScreenInOrder
=============================================================================
