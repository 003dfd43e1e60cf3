----------------------------- MODULE DataPath -----------------------------
(***************************************************************************)
(* A packet's way from the file to the screen, one track: the packet cache,*)
(* the decoder and the textures together, with the five threads that work  *)
(* them (read, decode, video decode, convert, main loop) and the wave of a *)
(* seek that goes through them all (vid_decode.c).                         *)
(*                                                                         *)
(* The three rings are cleared by a thread that holds no lock on them; what *)
(* keeps the others out is the order of the messages alone.  Here the      *)
(* clearing steps have only the guards the code has.  The waits for memory *)
(* and for a backlog of pictures only delay, and are left out.             *)
(***************************************************************************)
EXTENDS PacketRing, ImageRing, FrameRing

VARIABLES seekAt,      \* how far the seek is: none, posted, seeked, clearing
          origin,      \* history: the decoded picture each texture number was made of
          lastRead,    \* history: packets read before the last seek
          lastMade     \* history: pictures decoded before it

seekVars == <<seekAt, origin, lastRead, lastMade>>
pathVars == <<packetVars, imageVars, frameVars, seekVars>>

PathInit == /\ PacketInit /\ ImageInit /\ FrameInit
            /\ tracks = 1
            /\ seekAt = "none" /\ origin = <<>>
            /\ lastRead = 0 /\ lastMade = 0

OnlyPackets(action) == action /\ UNCHANGED <<imageVars, frameVars, seekVars>>
OnlyImages(action) == action /\ UNCHANGED <<packetVars, frameVars, seekVars>>
OnlyFrames(action) == action /\ UNCHANGED <<packetVars, imageVars, seekVars>>

-----------------------------------------------------------------------------
(* The threads while no seek runs.                                         *)

\* A READ may be in the queue before the SEEK, none is behind it.
Read == \/ OnlyPackets(ReadStart) /\ seekAt \in {"none", "posted"}
        \/ OnlyPackets(ReadFrame) \/ OnlyPackets(ReadFails) \/ OnlyPackets(ReadCount)

\* Mutant of MayParse: the decode thread goes on while a seek is prepared.
MayParseOn == handed = "no"

\* PREPARE_SEEKING is not among the states in which the thread feeds packets,
\* and it waits for the answer to its last DECODE.
MayParse == mode /= "preparing" /\ handed = "no"

\* A packet of this track goes to its decoder; one of another track, or one
\* there is no memory to announce, only leaves the cache.
Parse == \/ OnlyPackets(ParseStart) /\ MayParse
         \/ ParseRoute /\ Route /\ UNCHANGED <<frameVars, seekVars>>
         \/ OnlyPackets(ParseRoute)
         \/ OnlyPackets(RouteFails) \/ OnlyPackets(ParseCount)
         \/ OnlyImages(Answered)

Decode == \/ OnlyImages(TakeRequest) \/ OnlyImages(DecodeStart) \/ OnlyImages(GiveUp)
          \/ OnlyImages(Picture) \/ OnlyImages(Counted) \/ OnlyImages(NoPicture)
          \/ OnlyImages(FlushStart) \/ OnlyImages(FlushEnd)

\* The convert thread looks for room, takes a picture and writes it.
Convert ==
  \/ ConvertLook /\ GetStart /\ UNCHANGED <<packetVars, seekVars>>
  \/ OnlyImages(GetCopy)
  \/ OnlyImages(GetCount)
  \/ GetFails /\ ConvertFails /\ UNCHANGED <<packetVars, seekVars>>
  \/ /\ getter = "idle" /\ ConvertStore
     /\ origin' = Append(origin, got)
     /\ UNCHANGED <<packetVars, imageVars, seekAt, lastRead, lastMade>>
  \/ getter = "idle" /\ OnlyFrames(ConvertFails)

Draw == OnlyFrames(DrawLook) \/ OnlyFrames(DrawSkip) \/ OnlyFrames(DrawAdvance(1))

-----------------------------------------------------------------------------
(* A seek: decode thread, read thread, decode thread, video decode thread  *)
(* (Decode), convert thread, decode thread.                                *)

SeekPost == /\ seekAt = "none" /\ parser = "idle"
            /\ PrepareSeek
            /\ seekAt' = "posted"
            /\ UNCHANGED <<packetVars, imageVars, origin, lastRead, lastMade>>

SeekRead == /\ seekAt = "posted" /\ reader = "idle"
            /\ EmptyCache
            /\ lastRead' = reads
            /\ seekAt' = "seeked"
            /\ UNCHANGED <<imageVars, frameVars, origin, lastMade>>

SeekClear == /\ seekAt = "seeked" /\ parser = "idle"
             /\ WaveStart
             /\ seekAt' = "clearing"
             /\ UNCHANGED <<packetVars, frameVars, origin, lastRead, lastMade>>

\* Mutant of SeekImages: the video decode thread clears them, in the middle of
\* what the convert thread does.
SeekImagesAtOnce ==
  /\ wave = "flushed"
  /\ EmptyImages /\ wave' = "cleared"
  /\ UNCHANGED <<packetPart, inside, made, coder, again, getter, got>>
  /\ UNCHANGED <<packetVars, frameVars, seekVars>>

\* The convert thread takes its CLEAR between two pictures.
SeekImages ==
  /\ wave = "flushed" /\ convertAt = "look"
  /\ EmptyImages /\ wave' = "cleared"
  /\ UNCHANGED <<packetPart, inside, made, coder, again, getter, got>>
  /\ UNCHANGED <<packetVars, frameVars, seekVars>>

\* The decoder is closed and opened, the cache and the textures emptied.
SeekReopen == /\ seekAt = "clearing" /\ parser = "idle"
              /\ Reopen /\ EmptyRing /\ EmptyCache
              /\ lastMade' = made
              /\ seekAt' = "none"
              /\ UNCHANGED <<origin, lastRead>>

Seek == \/ SeekPost \/ SeekRead \/ SeekClear \/ SeekImages \/ SeekReopen
        \/ OnlyFrames(EndSeek)

PathNext == Read \/ Parse \/ Decode \/ Convert \/ Draw \/ Seek

PathSpec == PathInit /\ [][PathNext]_pathVars

-----------------------------------------------------------------------------
(* Properties.                                                             *)

\* The messages of a seek keep every thread out of the ring that is cleared:
\* the path is a behaviour of each ring by itself, whose clearing step needs
\* both its threads outside.
RingsClearedAlone == PacketSpec /\ ImageSpec /\ FrameSpec

\* What is on the screen was decoded later than what was there before, and
\* after a seek nothing read or decoded before it comes back, unless the seek
\* emptied the ring in the middle of a draw.
ScreenInOrder ==
  [][/\ parsed' /= parsed => parsed' > lastRead
     /\ ~raced /\ shown'[1] /= shown[1] /\ shown'[1] \in DOMAIN origin =>
          /\ origin[shown'[1]] > lastMade
          /\ shown[1] /= 0 => origin[shown'[1]] > origin[shown[1]]]_pathVars
=============================================================================
