----------------------------- MODULE FrameRing -----------------------------
(***************************************************************************)
(* The textures (VIDEO_BUFFERS of them for each track): the convert thread *)
(* (vid_worker.c) writes a picture into the next one to store, the main    *)
(* loop (vid_draw.c) shows the next one to draw when its time has come, a  *)
(* seek empties the ring (vid_decode.c).  The indices are plain bytes that *)
(* all three read and write without a lock.                                *)
(*                                                                         *)
(* A texture is the number of the picture in it.  The clock is left out: a *)
(* track may or may not be due when its turn comes.                        *)
(***************************************************************************)
EXTENDS Ring

CONSTANTS Buffers,    \* VIDEO_BUFFERS
          MaxTracks,  \* EYE_MAX
          MaxMade,    \* bound: pictures made of each track
          MaxJumps    \* bound: seeks

ASSUME BuffersAssumption ==
  Buffers \in Nat \ {0, 1} /\ MaxTracks \in Nat \ {0} /\ MaxMade \in Nat /\ MaxJumps \in Nat

VARIABLES tracks,     \* num_of_video_tracks
          mode,       \* playing, preparing (to seek), seeking
          jumps,      \* seeks so far
          store,      \* next_store_index
          draw,       \* next_draw_index
          textures,   \* large_image
          convertAt,  \* where the convert thread is: look, write
          turn,       \* packet_index, the track it converts
          storeCopy,  \* its next_store_index, read when it looked
          drawAt,     \* where the main loop is: idle, or the track it is at
          health,     \* its buffer_health
          written,    \* pictures written into the ring, by track
          shown,      \* the picture on the screen, by track
          dropped,    \* history: written at the last seek, by track
          raced       \* history: a seek emptied the ring in the middle of a draw

frameVars == <<tracks, mode, jumps, store, draw, textures, convertAt, turn, storeCopy, drawAt,
               health, written, shown, dropped, raced>>

Eyes == 1..MaxTracks
BufferSlots == 0..Buffers - 1
NoHealth == [t \in Eyes |-> 0]
Used == 1..tracks

FrameInit ==
  /\ tracks \in Eyes
  /\ mode = "playing" /\ jumps = 0
  /\ store = [t \in Eyes |-> 0] /\ draw = [t \in Eyes |-> 0]
  /\ textures = [t \in Eyes |-> [s \in BufferSlots |-> 0]]
  /\ convertAt = "look" /\ turn = 1 /\ storeCopy = 0
  /\ drawAt = 0 /\ health = NoHealth
  /\ written = [t \in Eyes |-> 0] /\ shown = [t \in Eyes |-> 0]
  /\ dropped = [t \in Eyes |-> 0] /\ raced = FALSE

Health(t) == Filled(draw[t], store[t], Buffers)

-----------------------------------------------------------------------------
(* The convert thread.                                                     *)

NextTrack == IF turn + 1 <= tracks THEN turn + 1 ELSE 1

\* Mutant of ConvertLook: the ring is filled to its last texture.
ConvertLookFull ==
  /\ convertAt = "look" /\ mode /= "preparing" /\ written[turn] < MaxMade
  /\ Health(turn) < Buffers
  /\ storeCopy' = store[turn]
  /\ convertAt' = "write"
  /\ UNCHANGED <<tracks, mode, jumps, store, draw, textures, turn, drawAt, health, written, shown,
                 dropped, raced>>

\* There is a picture and a texture to put it in; with one texture left the
\* thread sleeps for a frame and looks again, at the same track.
ConvertLook ==
  /\ convertAt = "look" /\ mode /= "preparing" /\ written[turn] < MaxMade
  /\ Health(turn) + 1 < Buffers
  /\ storeCopy' = store[turn]
  /\ convertAt' = "write"
  /\ UNCHANGED <<tracks, mode, jumps, store, draw, textures, turn, drawAt, health, written, shown,
                 dropped, raced>>

ConvertStore ==
  /\ convertAt = "write"
  /\ textures' = [textures EXCEPT ![turn][storeCopy] = written[turn] + 1]
  /\ written' = [written EXCEPT ![turn] = @ + 1]
  /\ store' = [store EXCEPT ![turn] = After(storeCopy, Buffers)]
  /\ turn' = NextTrack
  /\ convertAt' = "look" /\ storeCopy' = 0
  /\ UNCHANGED <<tracks, mode, jumps, draw, drawAt, health, shown, dropped, raced>>

\* No picture, no memory or no conversion: the turn passes all the same.
ConvertFails ==
  /\ convertAt = "write"
  /\ turn' = NextTrack
  /\ convertAt' = "look" /\ storeCopy' = 0
  /\ UNCHANGED <<tracks, mode, jumps, store, draw, textures, drawAt, health, written, shown,
                 dropped, raced>>

-----------------------------------------------------------------------------
(* The main loop: Vid_draw, first the health of every track, then each.    *)

\* vid_draw.c looks at the state (58) and reads each track's health after it
\* (61-76).  One step does for both: of the other threads only the convert
\* thread moves an index, which makes a track fuller than was seen, and a seek in
\* between leaves nothing to draw, as if the state had been found changed.
DrawLook ==
  /\ drawAt = 0 /\ mode = "playing"
  /\ health' = [t \in Eyes |-> IF t \in Used THEN Health(t) ELSE 0]
  /\ drawAt' = 1
  /\ UNCHANGED <<tracks, mode, jumps, store, draw, textures, convertAt, turn, storeCopy, written,
                 shown, dropped, raced>>

\* On to the next track; the health is a local of the call and goes with it.
NextDraw == \/ drawAt < tracks /\ drawAt' = drawAt + 1 /\ UNCHANGED health
            \/ drawAt = tracks /\ drawAt' = 0 /\ health' = NoHealth

\* Mutant of MayDraw: a full track waits for an empty one.
MayDrawTogether(t) == health[t] > 0 /\ \A u \in Used : health[u] > 0

\* All tracks have a picture, or one is full and would stall the convert thread.
MayDraw(t) == /\ health[t] > 0
              /\ \/ \A u \in Used : health[u] > 0
                 \/ \E u \in Used : health[u] >= Buffers - 1

DrawAdvance(t) ==
  /\ drawAt = t /\ MayDraw(t)
  /\ shown' = [shown EXCEPT ![t] = textures[t][draw[t]]]
  /\ draw' = [draw EXCEPT ![t] = After(@, Buffers)]
  /\ NextDraw
  /\ UNCHANGED <<tracks, mode, jumps, store, textures, convertAt, turn, storeCopy, written,
                 dropped, raced>>

\* The track is not due, has no picture, or waits for the other one.
DrawSkip ==
  /\ drawAt /= 0
  /\ NextDraw
  /\ UNCHANGED <<tracks, mode, jumps, store, draw, textures, convertAt, turn, storeCopy, written,
                 shown, dropped, raced>>

-----------------------------------------------------------------------------
(* A seek, by the decode thread.                                           *)

PrepareSeek ==
  /\ mode = "playing" /\ jumps < MaxJumps
  /\ mode' = "preparing"
  /\ jumps' = jumps + 1
  /\ UNCHANGED <<tracks, store, draw, textures, convertAt, turn, storeCopy, drawAt, health, written,
                 shown, dropped, raced>>

\* Mutant of EmptyRing: the seek leaves the textures in the ring.
EmptyNothing ==
  /\ mode = "preparing"
  /\ mode' = "seeking"
  /\ dropped' = written
  /\ raced' = (raced \/ drawAt /= 0)
  /\ UNCHANGED <<tracks, jumps, store, draw, textures, convertAt, turn, storeCopy, drawAt, health,
                 written, shown>>

EmptyRing ==
  /\ mode = "preparing"
  /\ store' = draw
  /\ mode' = "seeking"
  /\ dropped' = written
  /\ raced' = (raced \/ drawAt /= 0)
  /\ UNCHANGED <<tracks, jumps, draw, textures, convertAt, turn, storeCopy, drawAt, health,
                 written, shown>>

\* The convert thread has answered the CLEAR and writes nothing (DataPath shows
\* that it does not).  The main loop may be in the middle of a draw.
ResetRing == convertAt = "look" /\ EmptyRing

EndSeek ==
  /\ mode = "seeking"
  /\ mode' = "playing"
  /\ UNCHANGED <<tracks, jumps, store, draw, textures, convertAt, turn, storeCopy, drawAt, health, written,
                 shown, dropped, raced>>

FrameNext == \/ ConvertLook \/ ConvertStore \/ ConvertFails
             \/ DrawLook \/ DrawSkip \/ \E t \in Eyes : DrawAdvance(t)
             \/ PrepareSeek \/ ResetRing \/ EndSeek

FrameSpec == FrameInit /\ [][FrameNext]_frameVars

-----------------------------------------------------------------------------
(* Properties.                                                             *)

FrameTypeOK ==
  /\ tracks \in Eyes /\ turn \in Eyes
  /\ mode \in {"playing", "preparing", "seeking"} /\ jumps \in Nat
  /\ store \in [Eyes -> BufferSlots] /\ draw \in [Eyes -> BufferSlots]
  /\ textures \in [Eyes -> [BufferSlots -> Nat]]
  /\ convertAt \in {"look", "write"} /\ storeCopy \in BufferSlots
  /\ drawAt \in Eyes \cup {0}
  /\ health \in [Eyes -> Nat]
  /\ written \in [Eyes -> Nat] /\ shown \in [Eyes -> Nat]
  /\ dropped \in [Eyes -> Nat] /\ raced \in BOOLEAN

\* The texture being written is neither on the screen nor waiting to be shown,
\* though nothing but the indices keeps the two threads apart (vid_worker.c:819,
\* vid_draw.c:105), unless a seek emptied the ring in the middle of a draw.
NoTear ==
  convertAt = "write" /\ ~raced =>
    /\ storeCopy /= Before(draw[turn], Buffers)
    /\ \A k \in 0..Health(turn) - 1 : storeCopy /= Place(draw[turn], k, Buffers)

\* What comes to the screen of a track is newer than what it has shown, and was
\* written after the last seek: no texture a seek dropped is shown after it,
\* though the seek leaves them where they are and moves an index only
\* (vid_decode.c:1071), unless it did so in the middle of a draw.
FramesInOrder ==
  [][~raced => \A t \in Eyes : shown'[t] /= shown[t] =>
                 shown'[t] > shown[t] /\ shown'[t] > dropped[t]]_frameVars

\* A ring that is full while the film plays is drawn from: neither track waits
\* for ever for the other.
NoStall ==
  \A t \in Eyes : (mode = "playing" /\ t \in Used /\ Health(t) = Buffers - 1)
                    ~> (mode /= "playing" \/ Health(t) < Buffers - 1)
=============================================================================
