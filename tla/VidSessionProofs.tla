-------------------------- MODULE VidSessionProofs --------------------------
(***************************************************************************)
(* What is proved of VidSession, for every set of files, every capacity    *)
(* and every bound: the flags match the state (FInv), and what a flag, a   *)
(* seek wave or an abort waits for is always on its way (SessionInv).      *)
(***************************************************************************)
EXTENDS VidSession, TLAPS

\* Nothing changes the state between the notice that starts the reopening of
\* the decoder and the assignment of SEEKING at its end.
ReopeningSeeks == pc.decode = "reopening" => player.state = "PREPARE_SEEKING"

LEMMA PcInit == Init => pc \in PcType
  BY DEF Init, PcType

LEMMA PcStep == ASSUME pc \in PcType, [Next]_vars PROVE pc' \in PcType
<1> USE DEF PcType, GoDecode, CallRequeue, Goes
<1>1. CASE User
  BY <1>1 DEF User, UserOpen, UserAbort, UserToggle, UserSeek, UserPost, Decide
<1>2. CASE NoCommand \/ PlayStart \/ PlayFail \/ PlaySwitch \/ Requeue
  BY <1>2 DEF NoCommand, PlayStart, PlayFail, PlaySwitch, Requeue
<1>3. CASE PlayIgnored \/ Pause \/ Resume \/ SeekLater \/ SeekStart \/ PlayNext
  BY <1>3 DEF PlayIgnored, Pause, Resume, SeekLater, SeekStart, PlayNext, PlainCommand
<1>4. CASE Abort
  BY <1>4 DEF Abort, AbortIdle, PlainCommand, AbortStart, AbortDiscard, AbortNext,
              AbortAskAudio, AbortClose, AbortPoints
<1>5. CASE HandleNotice
  BY <1>5, ZenonT(40) DEF HandleNotice, NoNotice, ReadNotice, CopiedNotice, SeekedNotice, ClearedNotice,
              Reopen, BufferedNotice, OutOfBufferNotice, PlainNotice, FeedPoint
<1>6. CASE WallTimeout \/ Feed
  BY <1>6, ZenonT(40) DEF WallTimeout, Feed, FeedEnd, FeedWait, FeedPacket, AudioPacket, VideoPacket,
              SkipPacket
<1>7. CASE Read
  BY <1>7 DEF Read, Begin, AnswerAbort, ReadPacket, ReadEof, ReadEnds, SeekFile
<1>8. CASE Video
  BY <1>8 DEF Video, VideoPop, Begin, AnswerAbort, CopyPacket, DecodeFrame,
              DecodeGivesUp, ForwardClear
<1>9. CASE Convert
  BY <1>9 DEF Convert, ConvertIgnore, ConvertStart, Begin, ConvertAbort, ConvertNone,
              ClearImages, ConvertLook, ConvertWork, ConvertBuffered
<1>10. CASE Audio
  BY <1>10 DEF Audio, AudioBegin, PlayAudio, AudioDrain, AudioDrained, Drains
<1>11. CASE UNCHANGED vars
  BY <1>11 DEF vars
<1> QED BY <1>1, <1>2, <1>3, <1>4, <1>5, <1>6, <1>7, <1>8, <1>9, <1>10, <1>11
        DEF Next, Decode

\* The state and the sub-state bits, with the type the argument needs.
Flags == player \in PlayerType /\ FlagsMatchState

FInv == pc \in PcType /\ ReopeningSeeks /\ Flags

LEMMA FlagsInit == Init => FInv
  BY PcInit DEF Init, FInv, ReopeningSeeks, Flags, PlayerType, FlagsMatchState, States


-----------------------------------------------------------------------------
(* The user.                                                               *)

LEMMA FlagsUser == ASSUME Flags, User PROVE Flags'
<1>1. CASE UserOpen
  BY <1>1 DEF UserOpen, Decide, Flags, PlayerType, FlagsMatchState
<1>2. CASE UserAbort
  BY <1>2 DEF UserAbort, Flags, FlagsMatchState
<1>3. CASE UserToggle
  BY <1>3 DEF UserToggle, Decide, Flags, PlayerType, FlagsMatchState
<1>4. CASE UserSeek
  BY <1>4 DEF UserSeek, Flags, FlagsMatchState
<1>5. CASE UserPost
  BY <1>5 DEF UserPost, Flags, PlayerType, FlagsMatchState
<1> QED BY <1>1, <1>2, <1>3, <1>4, <1>5 DEF User

-----------------------------------------------------------------------------
(* Commands.                                                               *)

LEMMA FlagsRequeue == ASSUME Flags, Requeue PROVE Flags'
  BY DEF Requeue, Flags, PlayerType, FlagsMatchState

\* The start of a session clears both flags.
LEMMA FlagsPlay ==
  ASSUME Flags, PlayIgnored \/ PlayStart \/ PlayFail \/ PlaySwitch
  PROVE  Flags'
<1> USE DEF Flags, PlayerType, FlagsMatchState, States, Opened
<1>0. \A f \in Files : f.video \in BOOLEAN /\ f.audio \in BOOLEAN
  BY FilesAssumption
<1>1. CASE PlayStart
  BY <1>0, <1>1 DEF PlayStart
<1>2. CASE PlayFail
  <2> HIDE DEF Opened
  <2>1. PICK f \in Files \cup {[video |-> FALSE, audio |-> FALSE]} :
               player' = [Opened EXCEPT !.video = f.video, !.audio = f.audio]
    BY <1>2 DEF PlayFail
  <2>2. f.video \in BOOLEAN /\ f.audio \in BOOLEAN
    <3>1. CASE f \in Files
      BY <1>0, <3>1
    <3>2. CASE f = [video |-> FALSE, audio |-> FALSE]
      BY <3>2
    <3> QED BY <3>1, <3>2
  <2>3. Opened \in PlayerType /\ ~Opened.resumeLater /\ ~Opened.postSeek
    BY DEF Opened
  <2> QED BY <2>1, <2>2, <2>3
<1>3. CASE PlayIgnored \/ PlaySwitch
  BY <1>3 DEF PlayIgnored, PlainCommand, PlaySwitch
<1> QED BY <1>1, <1>2, <1>3

LEMMA FlagsPause == ASSUME Flags, Pause PROVE Flags'
<1> USE DEF Flags, PlayerType, FlagsMatchState, States, Pause, PlainCommand
<1>1. CASE player.state = "PLAYING"
  BY <1>1
<1>2. CASE player.state \in {"IDLE", "PAUSE"}
  BY <1>2
<1>3. CASE player.state \notin {"PLAYING", "IDLE", "PAUSE"}
  BY <1>3
<1> QED BY <1>1, <1>2, <1>3

LEMMA FlagsResume == ASSUME Flags, Resume PROVE Flags'
<1> USE DEF Flags, PlayerType, FlagsMatchState, States, Resume, PlainCommand
<1>1. CASE player.state = "PAUSE"
  BY <1>1
<1>2. CASE player.state \in {"IDLE", "PLAYING"}
  BY <1>2
<1>3. CASE player.state \notin {"PAUSE", "IDLE", "PLAYING"}
  BY <1>3
<1> QED BY <1>1, <1>2, <1>3

LEMMA FlagsSeek == ASSUME Flags, SeekLater \/ SeekStart PROVE Flags'
<1> USE DEF Flags, PlayerType, FlagsMatchState, States
<1>1. CASE SeekLater
  BY <1>1 DEF SeekLater, PlainCommand
<1>2. CASE SeekStart
  BY <1>2 DEF SeekStart
<1> QED BY <1>1, <1>2

LEMMA FlagsPlayNext == ASSUME Flags, PlayNext PROVE Flags'
  BY DEF Flags, PlayerType, FlagsMatchState, States, PlayNext, PlainCommand

LEMMA FlagsAbort == ASSUME Flags, Abort PROVE Flags'
<1> USE DEF Flags, PlayerType, FlagsMatchState, States
<1>1. CASE AbortIdle
  BY <1>1 DEF AbortIdle, PlainCommand, Closed
<1>2. CASE AbortClose
  BY <1>2 DEF AbortClose, Closed
<1>3. CASE AbortStart \/ AbortDiscard \/ AbortAskAudio
  BY <1>3 DEF AbortStart, AbortDiscard, AbortAskAudio
<1>4. CASE \/ AbortNext("abortRead", "convert", "abortConvert")
           \/ AbortNext("abortConvert", "video", "abortVideo")
  BY <1>4 DEF AbortNext
<1> QED BY <1>1, <1>2, <1>3, <1>4 DEF Abort

-----------------------------------------------------------------------------
(* Notices and feeding.                                                    *)

\* The end of a wait clears RESUME_LATER.
LEMMA FlagsResumed ==
  ASSUME NEW p \in PlayerType, ~p.postSeek
  PROVE  LET r == Resumed(p)
         IN /\ r \in PlayerType
            /\ r.resumeLater => r.state \in {"BUFFERING", "PREPARE_SEEKING", "SEEKING"}
            /\ r.postSeek => r.state = "BUFFERING"
  BY DEF Resumed, PlayerType, States

LEMMA FlagsNotice == ASSUME Flags, ReopeningSeeks, HandleNotice PROVE Flags'
<1> USE DEF Flags, PlayerType, FlagsMatchState, States, PlainNotice, Notice
<1>1. CASE NoNotice
  BY <1>1 DEF NoNotice
<1>2. CASE ReadNotice \/ CopiedNotice
  BY <1>2 DEF ReadNotice, CopiedNotice
<1>3. CASE SeekedNotice
  BY <1>3 DEF SeekedNotice
<1>4. CASE ClearedNotice
  BY <1>4 DEF ClearedNotice
<1>5. CASE Reopen
  BY <1>5 DEF Reopen, ReopeningSeeks
<1>6. CASE BufferedNotice
  <2> DEFINE p == [player EXCEPT !.postSeek = FALSE]
  <2>1. p \in PlayerType /\ ~p.postSeek
    OBVIOUS
  <2>2. player' = player \/ player' = Resumed(p)
    BY <1>6 DEF BufferedNotice
  <2>3. CASE player' = Resumed(p)
    <3> HIDE DEF p
    <3> QED BY <2>1, <2>3, FlagsResumed
  <2> QED BY <2>2, <2>3
<1>7. CASE OutOfBufferNotice
  BY <1>7 DEF OutOfBufferNotice
<1> QED BY <1>1, <1>2, <1>3, <1>4, <1>5, <1>6, <1>7 DEF HandleNotice

\* A seek wave, which is in SEEKING, ends in the state its flags allow.
LEMMA FlagsWaveDone ==
  ASSUME NEW p \in PlayerType, p.state = "SEEKING", ~p.postSeek
  PROVE  LET r == WaveDone(p)
         IN /\ r \in PlayerType
            /\ r.resumeLater => r.state \in {"BUFFERING", "PREPARE_SEEKING", "SEEKING"}
            /\ r.postSeek => r.state = "BUFFERING"
<1>1. CASE p.video
  BY <1>1 DEF WaveDone, PlayerType, States
<1>2. CASE ~p.video
  BY <1>2, FlagsResumed DEF WaveDone
<1> QED BY <1>1, <1>2

LEMMA FlagsFeed == ASSUME Flags, WallTimeout \/ Feed PROVE Flags'
<1> DEFINE asked == [player EXCEPT !.readActive = @ \/ NeedsPackets]
<1>0. /\ asked \in PlayerType
      /\ asked.state = player.state
      /\ asked.resumeLater = player.resumeLater
      /\ asked.postSeek = player.postSeek
  BY DEF Flags, PlayerType
<1>1. ASSUME player' = player \/ player' = asked PROVE Flags'
  BY <1>0, <1>1 DEF Flags, FlagsMatchState
<1>2. CASE WallTimeout
  BY <1>2, FlagsWaveDone DEF WallTimeout, Flags, FlagsMatchState
<1>3. CASE FeedPacket
  <2>1. CASE player' = asked
    BY <1>1, <2>1
  <2>2. CASE player.state = "SEEKING" /\ player' = WaveDone(asked)
    <3>1. ~asked.postSeek
      BY <1>0, <2>2 DEF Flags, FlagsMatchState
    <3> QED BY <1>0, <2>2, <3>1, FlagsWaveDone DEF Flags, FlagsMatchState
  <2> QED BY <1>3, <2>1, <2>2 DEF FeedPacket
<1>4. CASE FeedEnd \/ FeedWait
  BY <1>1, <1>4 DEF FeedEnd, FeedWait, RequestRead
<1>5. CASE AudioPacket \/ SkipPacket
  BY <1>1, <1>5 DEF AudioPacket, SkipPacket
<1>6. CASE VideoPacket
  BY <1>6 DEF VideoPacket, Flags, PlayerType, FlagsMatchState
<1> QED BY <1>2, <1>3, <1>4, <1>5, <1>6 DEF Feed

LEMMA FlagsDecode == ASSUME Flags, ReopeningSeeks, Decode PROVE Flags'
<1>1. CASE NoCommand
  BY <1>1 DEF NoCommand, Flags, FlagsMatchState
<1> QED BY <1>1, FlagsPlay, FlagsPause, FlagsResume, FlagsSeek, FlagsPlayNext, FlagsAbort,
           FlagsRequeue, FlagsNotice, FlagsFeed DEF Decode

-----------------------------------------------------------------------------
(* The workers only read the player.                                       *)

LEMMA WorkersOnlyRead ==
  ASSUME Read \/ Video \/ Convert \/ Audio
  PROVE  UNCHANGED player
<1> USE DEF Begin, AnswerAbort
<1>1. CASE Read
  BY <1>1 DEF Read, ReadPacket, ReadEof, SeekFile
<1>2. CASE Video
  BY <1>2 DEF Video, VideoPop, CopyPacket, DecodeFrame, DecodeGivesUp, ForwardClear
<1>3. CASE Convert
  BY <1>3 DEF Convert, ConvertIgnore, ConvertStart, ConvertAbort, ConvertNone,
              ClearImages, ConvertLook, ConvertWork, ConvertBuffered
<1>4. CASE Audio
  BY <1>4 DEF Audio, AudioBegin, PlayAudio, AudioDrain, AudioDrained
<1> QED BY <1>1, <1>2, <1>3, <1>4

\* Their steps leave the decode thread where it is.
LEMMA WorkersKeepDecode ==
  ASSUME pc \in PcType, Read \/ Video \/ Convert \/ Audio
  PROVE  pc'.decode = pc.decode
<1> USE DEF PcType, Goes, Begin, AnswerAbort
<1>1. CASE Read
  BY <1>1 DEF Read, ReadPacket, ReadEof, ReadEnds, SeekFile
<1>2. CASE Video
  BY <1>2 DEF Video, VideoPop, CopyPacket, DecodeFrame, DecodeGivesUp, ForwardClear
<1>3. CASE Convert
  BY <1>3 DEF Convert, ConvertIgnore, ConvertStart, ConvertAbort, ConvertNone,
              ClearImages, ConvertLook, ConvertWork, ConvertBuffered
<1>4. CASE Audio
  BY <1>4 DEF Audio, AudioBegin, PlayAudio, AudioDrain, AudioDrained
<1> QED BY <1>1, <1>2, <1>3, <1>4

\* The user and the workers change neither the state nor the decode thread's
\* place; of its own actions only ClearedNotice leads to the reopening.
LEMMA ReopeningStep == ASSUME FInv, [Next]_vars PROVE ReopeningSeeks'
<1> USE DEF FInv, Flags, ReopeningSeeks
<1>1. CASE User
  <2>1. player'.state = player.state
    BY <1>1 DEF User, UserOpen, UserAbort, UserToggle, UserSeek, UserPost, Decide, PlayerType
  <2>2. pc' = pc
    BY <1>1 DEF User, UserOpen, UserAbort, UserToggle, UserSeek, UserPost, Decide
  <2> QED BY <2>1, <2>2
<1>2. CASE Read \/ Video \/ Convert \/ Audio
  BY <1>2, WorkersOnlyRead, WorkersKeepDecode
<1>3. CASE ClearedNotice
  BY <1>3 DEF ClearedNotice, PlainNotice, Notice, GoDecode, FeedPoint, PcType
<1>4. CASE Decode /\ ~ClearedNotice
  <2> SUFFICES pc'.decode /= "reopening"
    OBVIOUS
  <2> USE DEF PcType, GoDecode, CallRequeue
  <2>1. CASE NoCommand \/ PlayStart \/ PlayFail \/ PlaySwitch \/ Requeue
    BY <2>1 DEF NoCommand, PlayStart, PlayFail, PlaySwitch, Requeue, TakeCommand
  <2>2. CASE PlayIgnored \/ Pause \/ Resume \/ SeekLater \/ SeekStart \/ PlayNext
    BY <2>2 DEF PlayIgnored, Pause, Resume, SeekLater, SeekStart, PlayNext, PlainCommand
  <2>3. CASE Abort
    BY <2>3 DEF Abort, AbortIdle, PlainCommand, AbortStart, AbortDiscard, AbortNext,
                AbortAskAudio, AbortClose, AbortPoints
  <2>4. CASE HandleNotice
    BY <1>4, <2>4 DEF HandleNotice, NoNotice, ReadNotice, CopiedNotice, SeekedNotice, Reopen,
                BufferedNotice, OutOfBufferNotice, PlainNotice, FeedPoint
  <2>5. CASE WallTimeout \/ Feed
    BY <2>5 DEF WallTimeout, Feed, FeedEnd, FeedWait, FeedPacket, AudioPacket, VideoPacket,
                SkipPacket
  <2> QED BY <1>4, <2>1, <2>2, <2>3, <2>4, <2>5 DEF Decode
<1>5. CASE UNCHANGED vars
  BY <1>5 DEF vars
<1> QED BY <1>1, <1>2, <1>3, <1>4, <1>5 DEF Next, Decode, HandleNotice

-----------------------------------------------------------------------------

\* The flags match the state after any step.
LEMMA FlagsStep == ASSUME FInv, [Next]_vars PROVE FInv'
<1>1. pc' \in PcType
  BY PcStep DEF FInv
<1>2. ReopeningSeeks'
  BY ReopeningStep
<1>3. Flags'
  <2>1. CASE User
    BY <2>1, FlagsUser DEF FInv
  <2>2. CASE Decode
    BY <2>2, FlagsDecode DEF FInv
  <2>3. CASE Read \/ Video \/ Convert \/ Audio
    BY <2>3, WorkersOnlyRead DEF FInv, Flags, FlagsMatchState
  <2>4. CASE UNCHANGED vars
    BY <2>4 DEF vars, FInv, Flags, FlagsMatchState
  <2> QED BY <2>1, <2>2, <2>3, <2>4 DEF Next
<1> QED BY <1>1, <1>2, <1>3 DEF FInv

\* RESUME_LATER and POST_SEEK_BUFFERING (vid_state.h) never outlive the wait
\* they were set for: not through a seek that overtakes the end of the file,
\* nor through an abort, nor through a notice of an earlier wait.
THEOREM FlagsCorrect == Spec => []FlagsMatchState
<1>1. FInv => FlagsMatchState
  BY DEF FInv, Flags
<1> QED BY <1>1, FlagsStep, FlagsInit, PTL DEF Spec

-----------------------------------------------------------------------------
(* What adding and taking a message does to the queues.                    *)

\* All that is ever in a queue.
Commands == {"PLAY", "PAUSE", "RESUME", "SEEK", "ABORT", "PLAY_NEXT"}
Notices == AbortPoints \cup {"READ_DONE", "READ_EOF", "COPIED", "SEEKED", "CLEARED",
                             "BUFFERED", "STARVED"}
Messages == Commands \cup Notices \cup {"READ", "DECODE", "CLEAR", "CONVERT"}

QueueType == [Queues -> Seq(Messages)]

\* At most one copy of m is in a queue.
Single(qs, q, m) == \A i, j \in DOMAIN qs[q] : qs[q][i] = m /\ qs[q][j] = m => i = j

Empty(qs, q) == qs[q] = <<>>
AudioLength(qs) == Len(qs["audio"])

\* A queue holds what was appended to it and what it held; the others stay.
LEMMA AddFacts ==
  ASSUME NEW qs \in QueueType, NEW q \in Queues, NEW m \in Messages
  PROVE  /\ Add(qs, q, m) \in QueueType
         /\ \A r \in Queues : \A n : Holds(Add(qs, q, m), r, n) <=> Holds(qs, r, n) \/ (r = q /\ n = m)
         /\ \A r \in Queues : r /= q => (Empty(Add(qs, q, m), r) <=> Empty(qs, r))
         /\ q /= "audio" => AudioLength(Add(qs, q, m)) = AudioLength(qs)
         /\ q = "audio" => AudioLength(Add(qs, q, m)) = AudioLength(qs) + 1
         /\ \A r \in Queues : \A n :
              Single(qs, r, n) /\ ~(r = q /\ n = m /\ Holds(qs, r, n)) => Single(Add(qs, q, m), r, n)
<1> DEFINE new == Add(qs, q, m)
<1>1. new \in QueueType /\ new[q] = Append(qs[q], m) /\ qs[q] \in Seq(Messages)
  BY DEF Add, QueueType
<1>2. \A r \in Queues : r /= q => new[r] = qs[r]
  BY DEF Add, QueueType
<1>3. ASSUME NEW n PROVE Holds(new, q, n) <=> Holds(qs, q, n) \/ n = m
  <2>1. DOMAIN new[q] = DOMAIN qs[q] \cup {Len(qs[q]) + 1}
    BY <1>1
  <2>2. \A i \in DOMAIN qs[q] : new[q][i] = qs[q][i]
    BY <1>1
  <2>3. new[q][Len(qs[q]) + 1] = m
    BY <1>1
  <2> QED BY <2>1, <2>2, <2>3 DEF Holds
<1>4. ASSUME NEW n, Single(qs, q, n), ~(n = m /\ Holds(qs, q, n)) PROVE Single(new, q, n)
  <2>1. DOMAIN new[q] = DOMAIN qs[q] \cup {Len(qs[q]) + 1}
    BY <1>1
  <2>2. \A i \in DOMAIN qs[q] : new[q][i] = qs[q][i]
    BY <1>1
  <2>3. new[q][Len(qs[q]) + 1] = m
    BY <1>1
  <2> QED BY <1>4, <2>1, <2>2, <2>3 DEF Holds, Single
<1> HIDE DEF new
<1>5. ASSUME NEW r \in Queues, NEW n PROVE Holds(new, r, n) <=> Holds(qs, r, n) \/ (r = q /\ n = m)
  BY <1>2, <1>3 DEF Holds
<1>6. ASSUME NEW r \in Queues, NEW n, Single(qs, r, n), ~(r = q /\ n = m /\ Holds(qs, r, n))
      PROVE  Single(new, r, n)
  <2>1. CASE r = q
    BY <1>4, <1>6, <2>1
  <2>2. CASE r /= q
    BY <1>2, <1>6, <2>2 DEF Single
  <2> QED BY <2>1, <2>2
<1>7. /\ q /= "audio" => AudioLength(new) = AudioLength(qs)
      /\ q = "audio" => AudioLength(new) = AudioLength(qs) + 1
  BY <1>1, <1>2 DEF AudioLength, Queues
<1> QED BY <1>1, <1>2, <1>5, <1>6, <1>7 DEF new, Empty

\* The same of a message put in front.
LEMMA AddFrontFacts ==
  ASSUME NEW qs \in QueueType, NEW q \in Queues, NEW m \in Messages
  PROVE  /\ AddFront(qs, q, m) \in QueueType
         /\ \A r \in Queues : \A n : Holds(AddFront(qs, q, m), r, n) <=> Holds(qs, r, n) \/ (r = q /\ n = m)
         /\ \A r \in Queues : r /= q => (Empty(AddFront(qs, q, m), r) <=> Empty(qs, r))
         /\ q /= "audio" => AudioLength(AddFront(qs, q, m)) = AudioLength(qs)
         /\ q = "audio" => AudioLength(AddFront(qs, q, m)) = AudioLength(qs) + 1
<1> DEFINE new == AddFront(qs, q, m)
<1>1. new \in QueueType /\ new[q] = <<m>> \o qs[q] /\ qs[q] \in Seq(Messages)
  BY DEF AddFront, QueueType
<1>2. \A r \in Queues : r /= q => new[r] = qs[r]
  BY DEF AddFront, QueueType
<1>3. ASSUME NEW n PROVE Holds(new, q, n) <=> Holds(qs, q, n) \/ n = m
  <2>1. ASSUME NEW i \in DOMAIN new[q]
        PROVE  \/ i = 1 /\ new[q][i] = m
               \/ i - 1 \in DOMAIN qs[q] /\ new[q][i] = qs[q][i - 1]
    <3>1. DOMAIN qs[q] = 1..Len(qs[q]) /\ Len(qs[q]) \in Nat /\ i \in 1..Len(qs[q]) + 1
      BY <1>1
    <3>2. i = 1 => new[q][i] = m
      BY <1>1
    <3>3. i /= 1 => new[q][i] = qs[q][i - 1]
      BY <1>1, <3>1
    <3> QED BY <3>1, <3>2, <3>3
  <2>2. \A i \in DOMAIN qs[q] : i + 1 \in DOMAIN new[q] /\ new[q][i + 1] = qs[q][i]
    BY <1>1
  <2>3. 1 \in DOMAIN new[q] /\ new[q][1] = m
    BY <1>1
  <2> QED BY <2>1, <2>2, <2>3 DEF Holds
<1> HIDE DEF new
<1>4. ASSUME NEW r \in Queues, NEW n PROVE Holds(new, r, n) <=> Holds(qs, r, n) \/ (r = q /\ n = m)
  BY <1>2, <1>3 DEF Holds
<1>5. /\ q /= "audio" => AudioLength(new) = AudioLength(qs)
      /\ q = "audio" => AudioLength(new) = AudioLength(qs) + 1
  BY <1>1, <1>2 DEF AudioLength, Queues
<1> QED BY <1>1, <1>2, <1>4, <1>5 DEF new, Empty

\* Taking the first message of a queue loses no other.
LEMMA PopFacts ==
  ASSUME NEW qs \in QueueType, NEW q \in Queues, qs[q] /= <<>>
  PROVE  /\ Pop(qs, q) \in QueueType
         /\ \A r \in Queues : \A n : Holds(Pop(qs, q), r, n) => Holds(qs, r, n)
         /\ \A r \in Queues : \A n :
              Holds(qs, r, n) /\ ~(r = q /\ n = Head(qs[q])) => Holds(Pop(qs, q), r, n)
         /\ \A r \in Queues : \A n : r /= q => (Holds(Pop(qs, q), r, n) <=> Holds(qs, r, n))
         /\ \A r \in Queues : r /= q => (Empty(Pop(qs, q), r) <=> Empty(qs, r))
         /\ q /= "audio" => AudioLength(Pop(qs, q)) = AudioLength(qs)
         /\ q = "audio" => AudioLength(Pop(qs, q)) = AudioLength(qs) - 1
         /\ \A r \in Queues : \A n : Single(qs, r, n) => Single(Pop(qs, q), r, n)
         /\ \A n : Single(qs, q, n) /\ n = Head(qs[q]) => ~Holds(Pop(qs, q), q, n)
         /\ Holds(qs, q, Head(qs[q]))
<1> DEFINE new == Pop(qs, q)
<1>1. new \in QueueType /\ new[q] = Tail(qs[q]) /\ qs[q] \in Seq(Messages)
  BY DEF Pop, QueueType
<1>2. \A r \in Queues : r /= q => new[r] = qs[r]
  BY DEF Pop, QueueType
<1>3. \A i \in DOMAIN new[q] : i + 1 \in DOMAIN qs[q] /\ i \in Nat \ {0} /\ new[q][i] = qs[q][i + 1]
  BY <1>1
<1>4. \A i \in DOMAIN qs[q] : i = 1 \/ (i - 1 \in DOMAIN new[q] /\ new[q][i - 1] = qs[q][i])
  BY <1>1
<1>5. 1 \in DOMAIN qs[q] /\ qs[q][1] = Head(qs[q]) /\ Len(new[q]) = Len(qs[q]) - 1
  BY <1>1
<1> HIDE DEF new
<1>6. ASSUME NEW n PROVE /\ Holds(new, q, n) => Holds(qs, q, n)
                         /\ Holds(qs, q, n) /\ n /= Head(qs[q]) => Holds(new, q, n)
                         /\ Single(qs, q, n) /\ n = Head(qs[q]) => ~Holds(new, q, n)
  BY <1>3, <1>4, <1>5 DEF Holds, Single
<1>7. ASSUME NEW n, Single(qs, q, n) PROVE Single(new, q, n)
  <2> SUFFICES ASSUME NEW i \in DOMAIN new[q], NEW j \in DOMAIN new[q],
                      new[q][i] = n, new[q][j] = n
               PROVE  i = j
    BY DEF Single
  <2>1. i + 1 = j + 1
    BY <1>3, <1>7 DEF Single
  <2> QED BY <1>3, <2>1
<1>8. ASSUME NEW r \in Queues, r /= q, NEW n
      PROVE (Holds(new, r, n) <=> Holds(qs, r, n)) /\ (Single(new, r, n) <=> Single(qs, r, n))
  BY <1>2, <1>8 DEF Holds, Single
<1>9. Holds(qs, q, Head(qs[q]))
  BY <1>5 DEF Holds
<1>10. /\ q /= "audio" => AudioLength(new) = AudioLength(qs)
       /\ q = "audio" => AudioLength(new) = AudioLength(qs) - 1
  BY <1>1, <1>2, <1>5 DEF AudioLength, Queues
<1> QED BY <1>1, <1>2, <1>5, <1>6, <1>7, <1>8, <1>9, <1>10 DEF new, Empty

\* A worker that answers an abort empties its queue.
LEMMA FlushFacts ==
  ASSUME NEW qs \in QueueType, NEW q \in Queues, q /= "audio"
  PROVE  /\ Flush(qs, q) \in QueueType
         /\ \A n : ~Holds(Flush(qs, q), q, n)
         /\ Empty(Flush(qs, q), q)
         /\ \A r \in Queues : r /= q => (Empty(Flush(qs, q), r) <=> Empty(qs, r))
         /\ AudioLength(Flush(qs, q)) = AudioLength(qs)
         /\ \A r \in Queues : \A n : r /= q => (Holds(Flush(qs, q), r, n) <=> Holds(qs, r, n))
         /\ \A r \in Queues : \A n : Single(qs, r, n) => Single(Flush(qs, q), r, n)
<1>1. Flush(qs, q) \in QueueType /\ Flush(qs, q)[q] = <<>>
  BY DEF Flush, QueueType
<1>2. \A r \in Queues : r /= q => Flush(qs, q)[r] = qs[r]
  BY DEF Flush, QueueType
<1>3. AudioLength(Flush(qs, q)) = AudioLength(qs)
  BY <1>2 DEF AudioLength, Queues
<1>4. ASSUME NEW n PROVE ~Holds(Flush(qs, q), q, n) /\ Single(Flush(qs, q), q, n)
  BY <1>1 DEF Holds, Single
<1>5. ASSUME NEW r \in Queues, r /= q, NEW n
      PROVE  /\ Holds(Flush(qs, q), r, n) <=> Holds(qs, r, n)
             /\ Single(qs, r, n) => Single(Flush(qs, q), r, n)
  BY <1>2, <1>5 DEF Holds, Single
<1>6. ASSUME NEW r \in Queues, NEW n, Single(qs, r, n) PROVE Single(Flush(qs, q), r, n)
  BY <1>4, <1>5, <1>6
<1> QED BY <1>1, <1>2, <1>3, <1>4, <1>5, <1>6 DEF Empty

\* The other ways of adding are Add, AddFront, or nothing.
LEMMA AddVariants ==
  ASSUME NEW qs, NEW q, NEW m
  PROVE  /\ AddOnce(qs, q, m) = IF Holds(qs, q, m) THEN qs ELSE Add(qs, q, m)
         /\ AddFrontOnce(qs, q, m) = IF Holds(qs, q, m) THEN qs ELSE AddFront(qs, q, m)
         /\ AddRepeated(qs, q, m) = qs \/ AddRepeated(qs, q, m) = Add(qs, q, m)
         /\ AddAudio(qs, m) = IF AudioFull THEN qs ELSE Add(qs, "audio", m)
         /\ AddAudioFront(qs, m) = IF AudioFull THEN qs ELSE AddFront(qs, "audio", m)
BY DEF AddOnce, AddFrontOnce, AddRepeated, AddAudio, AddAudioFront

\* The four queues the workers and the decode thread talk through.
Talk == {"read", "video", "convert", "notice"}

LEMMA TalkNames ==
  /\ \A q \in Talk : q \in Queues /\ q /= "command" /\ q /= "audio"
  /\ \A q \in Talk \cup {"command", "audio"} : q \in Queues
  /\ "read" \in Talk /\ "video" \in Talk /\ "convert" \in Talk /\ "notice" \in Talk
BY DEF Talk, Queues

LEMMA MessageNames == Commands \subseteq Messages /\ Notices \subseteq Messages
BY DEF Messages

-----------------------------------------------------------------------------
(* The invariant of a session.                                             *)

\* The audio queue alone can fill (AudioQueueSize).
AudioBound == AudioLength(queue) <= AudioQueueSize
DemuxType == [packets : 0..(MaxPackets - 1), unread : 0..FileLength]
UserType == [intent : {"none", "DEFER", "REPLAY"} \cup Commands, left : 0..MaxUserActs]

\* The workers that answer an abort through the notices, and their answers.
Asked == {"read", "convert", "video"}
Answer == [read |-> "abortRead", convert |-> "abortConvert", video |-> "abortVideo"]
Answers == {"abortRead", "abortConvert", "abortVideo"}

\* An ABORT or its answer, never both and the answer once, is under way only
\* while the decode thread waits for that answer.
AbortInv ==
  \A w \in Asked :
    /\ Queued(w, "ABORT") \/ Queued("notice", Answer[w]) => pc.decode = Answer[w]
    /\ ~(Queued(w, "ABORT") /\ Queued("notice", Answer[w]))
    /\ Single(queue, "notice", Answer[w])

\* The worker has done all it was asked, and is asked nothing.
Stopped(w) == pc[w] = "idle" /\ Empty(queue, w)

\* Who has answered an abort stays stopped to its end; the order of the questions
\* (read, convert, video, audio) tells who that is.
StopInv ==
  /\ pc.decode \in {"abortConvert", "abortVideo", "abortAudio"} \/ Queued("notice", "abortRead")
        => Stopped("read")
  /\ pc.decode = "abortAudio" \/ Queued("notice", "abortVideo") => Stopped("video")

\* What each flag, and a wave, waits for, while no abort runs.
Busy == player.state /= "IDLE" /\ pc.decode \notin AbortPoints
ReadCause == \/ Queued("read", "READ") \/ pc.read = "reading"
             \/ Queued("notice", "READ_DONE") \/ Queued("notice", "READ_EOF")
CopyCause == Queued("video", "DECODE") \/ pc.video = "copying" \/ Queued("notice", "COPIED")
SeekCause == Queued("read", "SEEK") \/ pc.read = "seeking" \/ Queued("notice", "SEEKED")
ClearCause == \/ Queued("video", "CLEAR") \/ pc.video = "clearing"
              \/ Queued("convert", "CLEAR") \/ pc.convert = "clearing" \/ Queued("notice", "CLEARED")

\* A request to clear the frames is thrown away by the convert thread of a
\* file without video: what keeps such a wave going is the read thread alone.
WaveInv == Busy /\ player.state = "PREPARE_SEEKING" /\ pc.decode /= "reopening" =>
             SeekCause \/ (player.video /\ ClearCause)

CauseInv == ReadHasCause /\ WaitingHasCause /\ WaveInv

QueueOK == queue \in QueueType /\ AudioBound
MessageInv == QueueOK /\ AbortInv /\ StopInv /\ CauseInv

SessionInv ==
  /\ player \in PlayerType /\ pc \in PcType
  /\ demux \in DemuxType /\ user \in UserType
  /\ MessageInv

-----------------------------------------------------------------------------
(* Steps of the decode thread outside an abort.                            *)

\* Outside an abort nothing is said of it, and nothing comes to be.
LEMMA QuietAborts ==
  ASSUME AbortInv, pc.decode \notin AbortPoints, pc'.decode \notin AbortPoints,
         \A q \in Talk : \A m : Queued(q, m)' /\ ~Queued(q, m) => m \notin Answers \cup {"ABORT"}
  PROVE  AbortInv' /\ StopInv'
<1>1. ASSUME NEW w \in Asked
      PROVE  /\ Answer[w] \in Answers /\ Answer[w] \in AbortPoints
             /\ w \in Talk
  BY DEF Asked, Answer, Answers, AbortPoints, Talk
<1>2. ASSUME NEW w \in Asked
      PROVE  ~Queued(w, "ABORT")' /\ ~Queued("notice", Answer[w])'
  <2>1. ~Queued(w, "ABORT") /\ ~Queued("notice", Answer[w]) /\ "notice" \in Talk
    BY <1>1 DEF AbortInv, Talk
  <2> QED BY <1>1, <2>1
<1>3. ASSUME NEW w \in Asked
      PROVE Single(queue', "notice", Answer[w])
  BY <1>2 DEF Single, Queued, Holds
<1>4. AbortInv'
  BY <1>2, <1>3 DEF AbortInv
<1>5. StopInv'
  <2>1. ~Queued("notice", "abortRead")' /\ ~Queued("notice", "abortVideo")'
    BY <1>2 DEF Asked, Answer
  <2> QED BY <2>1 DEF StopInv, AbortPoints
<1> QED BY <1>4, <1>5

\* The workers stay where they are, no message but perhaps one notice goes
\* away, and none that has to do with an abort comes.
Steady(taken) ==
  /\ pc.decode \notin AbortPoints /\ pc'.decode \notin AbortPoints
  /\ pc'.read = pc.read /\ pc'.video = pc.video /\ pc'.convert = pc.convert
  /\ \A q \in Talk : \A m : Queued(q, m) => Queued(q, m)' \/ (q = "notice" /\ m = taken)
  /\ \A q \in Talk : \A m : Queued(q, m)' /\ ~Queued(q, m) => m \notin Answers \cup {"ABORT"}

\* Then a flag that is set was set, and its cause still there, or it has one now.
LEMMA SteadyStep ==
  ASSUME SessionInv, NEW taken, Steady(taken),
         player'.readActive /\ player'.state /= "IDLE" =>
           \/ Queued("read", "READ")'
           \/ /\ player.readActive /\ player.state /= "IDLE"
              /\ taken \notin {"READ_DONE", "READ_EOF"},
         player'.waiting /\ player'.state /= "IDLE" =>
           \/ Queued("video", "DECODE")'
           \/ player.waiting /\ player.state /= "IDLE" /\ taken /= "COPIED",
         player'.state = "PREPARE_SEEKING" /\ pc'.decode /= "reopening" =>
           \/ Queued("read", "SEEK")'
           \/ player'.video /\ Queued("video", "CLEAR")'
           \/ /\ player.state = "PREPARE_SEEKING" /\ pc.decode /= "reopening"
              /\ player'.video = player.video /\ taken \notin {"SEEKED", "CLEARED"}
  PROVE  AbortInv' /\ StopInv' /\ CauseInv'
<1>1. AbortInv' /\ StopInv'
  BY QuietAborts DEF SessionInv, MessageInv, Steady
<1> USE TalkNames DEF SessionInv, MessageInv, CauseInv, Steady
<1>2. ReadHasCause'
  BY DEF ReadHasCause
<1>3. WaitingHasCause'
  BY DEF WaitingHasCause
<1>4. WaveInv'
  BY DEF WaveInv, Busy, SeekCause, ClearCause
<1> QED BY <1>1, <1>2, <1>3, <1>4 DEF CauseInv

\* Taking a command changes no other queue.
LEMMA CommandTaken ==
  ASSUME QueueOK, NEW m, TakeCommand(m)
  PROVE  LET popped == Pop(queue, "command")
         IN /\ popped \in QueueType
            /\ AudioLength(popped) = AudioLength(queue)
            /\ \A q \in Talk : \A n : Holds(popped, q, n) <=> Queued(q, n)
<1>1. queue["command"] /= <<>> /\ queue \in QueueType /\ "command" \in Queues
  BY DEF TakeCommand, NextIs, QueueOK, Queues
<1> QED BY <1>1, PopFacts, TalkNames DEF Queued

\* Nor does adding one.
LEMMA CommandAdded ==
  ASSUME NEW qs \in QueueType, NEW m \in Commands, NEW new,
         new \in {Add(qs, "command", m), AddFront(qs, "command", m), AddOnce(qs, "command", m),
                  AddFrontOnce(qs, "command", m), AddRepeated(qs, "command", m)}
  PROVE  /\ new \in QueueType
         /\ AudioLength(new) = AudioLength(qs)
         /\ \A q \in Talk : \A n : Holds(new, q, n) <=> Holds(qs, q, n)
<1>1. new \in {qs, Add(qs, "command", m), AddFront(qs, "command", m)}
  BY AddVariants
<1>2. "command" \in Queues /\ m \in Messages
  BY MessageNames DEF Queues
<1> QED BY <1>1, <1>2, AddFacts, AddFrontFacts, TalkNames

\* A step that is no more than that, and sets no flag.
LEMMA CommandStep ==
  ASSUME SessionInv, QueueOK',
         pc.decode \in {"command", "requeue", "notice", "feed", "packet"},
         pc'.decode \in {"command", "requeue", "notice", "feed", "packet"},
         pc'.read = pc.read, pc'.video = pc.video, pc'.convert = pc.convert,
         \A q \in Talk : \A m : Queued(q, m)' <=> Queued(q, m),
         player'.readActive => player.readActive,
         player'.waiting => player.waiting,
         player'.state /= "IDLE" /\ (player'.readActive \/ player'.waiting) => player.state /= "IDLE",
         player'.state = "PREPARE_SEEKING" => player.state = "PREPARE_SEEKING" /\ player'.video = player.video
  PROVE  MessageInv'
<1>1. Steady("none")
  BY DEF Steady, AbortPoints
<1> QED BY <1>1, SteadyStep DEF MessageInv

-----------------------------------------------------------------------------
(* Commands.                                                               *)

\* A command that asks nothing of a worker.
LEMMA MessagesPlain ==
  ASSUME SessionInv, NEW m, NEW p, PlainCommand(m, p),
         p.readActive => player.readActive, p.waiting => player.waiting,
         p.state /= "IDLE" => player.state /= "IDLE",
         p.state = "PREPARE_SEEKING" => player.state = "PREPARE_SEEKING",
         p.video = player.video
  PROVE  MessageInv'
<1>1. /\ TakeCommand(m) /\ queue' = Pop(queue, "command") /\ player' = p
      /\ pc' = [pc EXCEPT !.decode = "requeue", !.next = "notice"]
  BY DEF PlainCommand, CallRequeue
<1>2. QueueOK' /\ \A q \in Talk : \A n : Queued(q, n)' <=> Queued(q, n)
  BY <1>1, CommandTaken DEF SessionInv, MessageInv, QueueOK, AudioBound, Queued
<1>3. /\ pc.decode = "command" /\ pc'.decode = "requeue"
      /\ pc'.read = pc.read /\ pc'.video = pc.video /\ pc'.convert = pc.convert
  BY <1>1 DEF TakeCommand, SessionInv, PcType
<1> QED BY <1>1, <1>2, <1>3, CommandStep

LEMMA MessagesToggle == ASSUME SessionInv, Pause \/ Resume PROVE MessageInv'
<1> USE DEF SessionInv, PlayerType, States
<1>1. CASE Pause
  <2> DEFINE p == CASE player.state = "PLAYING" -> [player EXCEPT !.state = "PAUSE"]
                    [] player.state \in {"IDLE", "PAUSE"} -> player
                    [] OTHER -> [player EXCEPT !.resumeLater = FALSE]
  <2>1. /\ p.readActive = player.readActive /\ p.waiting = player.waiting /\ p.video = player.video
        /\ p.state \in {player.state, "PAUSE"} /\ (p.state /= "IDLE" => player.state /= "IDLE")
    OBVIOUS
  <2>2. PlainCommand("PAUSE", p)
    BY <1>1 DEF Pause
  <2> HIDE DEF p
  <2> QED BY <2>1, <2>2, MessagesPlain
<1>2. CASE Resume
  <2> DEFINE p == CASE player.state = "PAUSE" -> [player EXCEPT !.state = "PLAYING"]
                    [] player.state \in {"IDLE", "PLAYING"} -> player
                    [] OTHER -> [player EXCEPT !.resumeLater = TRUE]
  <2>1. /\ p.readActive = player.readActive /\ p.waiting = player.waiting /\ p.video = player.video
        /\ p.state \in {player.state, "PLAYING"} /\ (p.state /= "IDLE" => player.state /= "IDLE")
    OBVIOUS
  <2>2. PlainCommand("RESUME", p)
    BY <1>2 DEF Resume
  <2> HIDE DEF p
  <2> QED BY <2>1, <2>2, MessagesPlain
<1> QED BY <1>1, <1>2

LEMMA MessagesIgnored ==
  ASSUME SessionInv, PlayIgnored \/ SeekLater \/ PlayNext \/ AbortIdle
  PROVE  MessageInv'
<1>1. /\ [player EXCEPT !.deferred = TRUE].state = player.state
      /\ [player EXCEPT !.deferred = TRUE].readActive = player.readActive
      /\ [player EXCEPT !.deferred = TRUE].waiting = player.waiting
      /\ [player EXCEPT !.deferred = TRUE].video = player.video
  BY DEF SessionInv, PlayerType
<1>2. CASE PlayIgnored \/ SeekLater
  BY <1>1, <1>2, MessagesPlain DEF PlayIgnored, SeekLater
<1>3. CASE PlayNext
  <2> DEFINE p == [player EXCEPT !.state = "PAUSE", !.userPaused = TRUE, !.held = TRUE,
                         !.resumeLater = FALSE, !.postSeek = FALSE, !.deferred = FALSE]
  <2>1. /\ p.readActive = player.readActive /\ p.waiting = player.waiting /\ p.video = player.video
        /\ p.state = "PAUSE"
    BY DEF SessionInv, PlayerType
  <2>2. \/ PlainCommand("PLAY_NEXT", player)
        \/ PlainCommand("PLAY_NEXT", p) /\ player.state /= "IDLE"
    BY <1>3 DEF PlayNext
  <2> HIDE DEF p
  <2> QED BY <2>1, <2>2, MessagesPlain
<1>4. CASE AbortIdle
  <2>1. /\ TakeCommand("ABORT") /\ queue' = Pop(queue, "command") /\ player' = Closed
        /\ pc' = [pc EXCEPT !.decode = "requeue", !.next = "notice"]
    BY <1>4 DEF AbortIdle, PlainCommand, CallRequeue
  <2>2. QueueOK' /\ \A q \in Talk : \A n : Queued(q, n)' <=> Queued(q, n)
    BY <2>1, CommandTaken DEF SessionInv, MessageInv, QueueOK, AudioBound, Queued
  <2>3. /\ pc.decode = "command" /\ pc'.decode = "requeue"
        /\ pc'.read = pc.read /\ pc'.video = pc.video /\ pc'.convert = pc.convert
    BY <2>1 DEF TakeCommand, SessionInv, PcType
  <2>4. /\ player'.state = "IDLE" /\ player'.readActive = player.readActive
        /\ player'.waiting = player.waiting
    BY <2>1 DEF Closed, SessionInv, PlayerType
  <2> QED BY <2>2, <2>3, <2>4, CommandStep
<1> QED BY <1>2, <1>3, <1>4

LEMMA MessagesRequeue == ASSUME SessionInv, NoCommand \/ Requeue \/ NoNotice PROVE MessageInv'
<1>1. /\ pc.decode \in {"command", "requeue", "notice"}
      /\ pc'.decode \in {"command", "requeue", "notice", "feed", "packet"}
      /\ pc'.read = pc.read /\ pc'.video = pc.video /\ pc'.convert = pc.convert
  BY DEF NoCommand, Requeue, NoNotice, CallRequeue, GoDecode, FeedPoint, SessionInv, PcType
<1>2. /\ player'.readActive = player.readActive /\ player'.waiting = player.waiting
      /\ player'.video = player.video /\ player'.state = player.state
  BY DEF NoCommand, Requeue, NoNotice, SessionInv, PlayerType
<1>3. queue' = queue \/ queue' = AddFrontOnce(queue, "command", "SEEK")
  BY DEF NoCommand, Requeue, NoNotice
<1>4. QueueOK' /\ \A q \in Talk : \A n : Queued(q, n)' <=> Queued(q, n)
  <2>1. queue \in QueueType /\ AudioLength(queue) <= AudioQueueSize /\ "SEEK" \in Commands
    BY DEF SessionInv, MessageInv, QueueOK, AudioBound, Commands
  <2>2. CASE queue' = queue
    BY <2>1, <2>2 DEF QueueOK, AudioBound, Queued
  <2>3. CASE queue' = AddFrontOnce(queue, "command", "SEEK")
    BY <2>1, <2>3, CommandAdded DEF QueueOK, AudioBound, Queued
  <2> QED BY <1>3, <2>2, <2>3
<1> QED BY <1>1, <1>2, <1>4, CommandStep

\* A new session sets readActive together with the request it stands for.
LEMMA MessagesPlay == ASSUME SessionInv, PlayStart \/ PlayFail \/ PlaySwitch PROVE MessageInv'
<1> DEFINE popped == Pop(queue, "command")
<1>0. /\ popped \in QueueType /\ AudioLength(popped) <= AudioQueueSize
      /\ \A q \in Talk : \A n : Holds(popped, q, n) <=> Queued(q, n)
      /\ pc.decode = "command"
  <2>1. TakeCommand("PLAY") /\ QueueOK
    BY DEF PlayStart, PlayFail, PlaySwitch, SessionInv, MessageInv
  <2> QED BY <2>1, CommandTaken DEF QueueOK, AudioBound, TakeCommand
<1>m. "ABORT" \in Commands /\ "PLAY" \in Commands /\ "READ" \in Messages /\ "CONVERT" \in Messages
  BY DEF Commands, Messages
<1>1. CASE PlayStart
  <2>1. queue' = Add(Add(popped, "read", "READ"), "convert", "CONVERT")
    BY <1>1 DEF PlayStart
  <2> HIDE DEF popped
  <2>2. QueueOK'
    BY <1>0, <1>m, <2>1, AddFacts, TalkNames DEF QueueOK, AudioBound
  <2>3. ASSUME NEW q \in Talk, NEW m
        PROVE  Queued(q, m)' <=> \/ Queued(q, m) \/ (q = "read" /\ m = "READ")
                                 \/ (q = "convert" /\ m = "CONVERT")
    BY <1>0, <1>m, <2>1, AddFacts, TalkNames DEF Queued
  <2>4. /\ pc'.decode = "requeue"
        /\ pc'.read = pc.read /\ pc'.video = pc.video /\ pc'.convert = pc.convert
        /\ ~player'.waiting /\ player'.state = "PLAYING"
    BY <1>1 DEF PlayStart, CallRequeue, Opened, SessionInv, PcType, PlayerType
  <2>5. Steady("none")
    BY <1>0, <2>3, <2>4 DEF Steady, AbortPoints, Answers
  <2> QED BY <2>2, <2>3, <2>4, <2>5, SteadyStep, TalkNames DEF MessageInv
<1>2. CASE PlayFail
  <2>1. queue' = AddFront(popped, "command", "ABORT") /\ pc' = pc
    BY <1>2 DEF PlayFail
  <2> HIDE DEF popped
  <2>2. QueueOK' /\ \A q \in Talk : \A n : Queued(q, n)' <=> Queued(q, n)
    BY <1>0, <1>m, <2>1, CommandAdded DEF QueueOK, AudioBound, Queued
  <2>3. ~player'.waiting /\ ~player'.readActive /\ player'.state = "PLAYING"
    BY <1>2 DEF PlayFail, Opened, SessionInv, PlayerType
  <2> QED BY <1>0, <2>1, <2>2, <2>3, CommandStep
<1>3. CASE PlaySwitch
  <2>1. queue' = Add(Add(popped, "command", "ABORT"), "command", "PLAY")
    BY <1>3 DEF PlaySwitch
  <2> HIDE DEF popped
  <2>2. QueueOK' /\ \A q \in Talk : \A n : Queued(q, n)' <=> Queued(q, n)
    BY <1>0, <1>m, <2>1, CommandAdded DEF QueueOK, AudioBound, Queued
  <2>3. /\ player'.readActive = player.readActive /\ player'.waiting = player.waiting
        /\ player'.video = player.video /\ player'.state = player.state
        /\ pc'.decode = "requeue"
        /\ pc'.read = pc.read /\ pc'.video = pc.video /\ pc'.convert = pc.convert
    BY <1>3 DEF PlaySwitch, CallRequeue, SessionInv, PlayerType, PcType
  <2> QED BY <1>0, <2>2, <2>3, CommandStep
<1> QED BY <1>1, <1>2, <1>3

\* A wave begins with a SEEK in the queue of the read thread, its own or an
\* earlier one.
LEMMA MessagesSeek == ASSUME SessionInv, SeekStart PROVE MessageInv'
<1> DEFINE popped == Pop(queue, "command")
           drained == IF player.audio THEN AddAudioFront(popped, "SEEK") ELSE popped
<1>1. /\ popped \in QueueType /\ AudioLength(popped) = AudioLength(queue)
      /\ AudioLength(queue) <= AudioQueueSize /\ AudioLength(queue) \in Nat
      /\ \A q \in Talk : \A n : Holds(popped, q, n) <=> Queued(q, n)
      /\ pc.decode = "command"
  <2>1. TakeCommand("SEEK") /\ QueueOK /\ queue["audio"] \in Seq(Messages)
    BY DEF SeekStart, SessionInv, MessageInv, QueueOK, QueueType, Queues
  <2> QED BY <2>1, CommandTaken DEF QueueOK, AudioBound, TakeCommand, AudioLength
<1>2. queue' = AddOnce(drained, "read", "SEEK")
  BY DEF SeekStart
<1>m. "SEEK" \in Messages
  BY DEF Commands, Messages
<1> HIDE DEF popped
<1>3. /\ drained \in QueueType /\ AudioLength(drained) <= AudioQueueSize
      /\ \A q \in Talk : \A n : Holds(drained, q, n) <=> Queued(q, n)
  <2>1. CASE drained = popped
    BY <1>1, <2>1
  <2>2. CASE drained = AddFront(popped, "audio", "SEEK") /\ ~AudioFull
    <3>1. AudioLength(queue) + 1 <= AudioQueueSize
      BY <1>1, <2>2, SizesAssumption DEF AudioFull, AudioLength
    <3>2. /\ drained \in QueueType /\ AudioLength(drained) = AudioLength(popped) + 1
          /\ \A q \in Talk : \A n : Holds(drained, q, n) <=> Holds(popped, q, n)
      <4> HIDE DEF drained
      <4>1. "audio" \in Queues /\ \A q \in Talk : q \in Queues /\ q /= "audio"
        BY TalkNames
      <4> QED BY <1>1, <1>m, <2>2, <4>1, AddFrontFacts
    <3> QED BY <1>1, <3>1, <3>2
  <2> QED BY <2>1, <2>2, AddVariants
<1> HIDE DEF drained
<1>4. QueueOK'
  BY <1>2, <1>3, <1>m, AddFacts, AddVariants, TalkNames DEF QueueOK, AudioBound
<1>5. ASSUME NEW q \in Talk, NEW m
      PROVE  Queued(q, m)' <=> Queued(q, m) \/ (q = "read" /\ m = "SEEK")
  BY <1>2, <1>3, <1>m, AddFacts, AddVariants, TalkNames DEF Queued
<1>6. /\ pc'.decode = "requeue"
      /\ pc'.read = pc.read /\ pc'.video = pc.video /\ pc'.convert = pc.convert
      /\ ~player'.waiting /\ player'.state = "PREPARE_SEEKING" /\ player.state /= "IDLE"
      /\ player'.readActive = player.readActive
  BY DEF SeekStart, CallRequeue, SessionInv, PcType, PlayerType
<1>7. Steady("none")
  BY <1>1, <1>5, <1>6 DEF Steady, AbortPoints, Answers
<1> QED BY <1>4, <1>5, <1>6, <1>7, SteadyStep, TalkNames DEF MessageInv

-----------------------------------------------------------------------------
(* Notices.                                                                *)

\* Taking a notice loses that notice alone.
LEMMA NoticeTaken ==
  ASSUME QueueOK, NEW m, NextIs("notice", m)
  PROVE  LET popped == Pop(queue, "notice")
         IN /\ popped \in QueueType
            /\ AudioLength(popped) = AudioLength(queue)
            /\ \A q \in Talk : \A n : Holds(popped, q, n) => Queued(q, n)
            /\ \A q \in Talk : \A n : Queued(q, n) /\ ~(q = "notice" /\ n = m) => Holds(popped, q, n)
<1>1. queue["notice"] /= <<>> /\ queue \in QueueType /\ "notice" \in Queues /\ Head(queue["notice"]) = m
  BY DEF NextIs, QueueOK, Queues
<1> QED BY <1>1, PopFacts, TalkNames DEF Queued

\* A notice that sets no flag and is not the last cause of one.
LEMMA MessagesNotice ==
  ASSUME SessionInv, NEW m, NEW p, Notice(m, p), queue' = Pop(queue, "notice"),
         pc'.decode \in {"command", "requeue", "reopening", "feed"},
         pc'.read = pc.read, pc'.video = pc.video, pc'.convert = pc.convert,
         p.readActive => player.readActive /\ m \notin {"READ_DONE", "READ_EOF"},
         p.waiting => player.waiting /\ m /= "COPIED",
         p.state /= "IDLE" => player.state /= "IDLE",
         p.state = "PREPARE_SEEKING" /\ pc'.decode /= "reopening" =>
           player.state = "PREPARE_SEEKING" /\ p.video = player.video /\ m \notin {"SEEKED", "CLEARED"}
  PROVE  MessageInv'
<1>1. NextIs("notice", m) /\ pc.decode = "notice" /\ player' = p
  BY DEF Notice
<1>2. /\ QueueOK'
      /\ \A q \in Talk : \A n : Queued(q, n)' => Queued(q, n)
      /\ \A q \in Talk : \A n : Queued(q, n) => Queued(q, n)' \/ (q = "notice" /\ n = m)
  BY <1>1, NoticeTaken DEF SessionInv, MessageInv, QueueOK, AudioBound, Queued
<1>3. Steady(m)
  BY <1>1, <1>2 DEF Steady, AbortPoints
<1>4. pc.decode /= "reopening"
  BY <1>1
<1> QED BY <1>1, <1>2, <1>3, <1>4, SteadyStep DEF MessageInv

LEMMA MessagesPlainNotice ==
  ASSUME SessionInv, NEW m, NEW p, PlainNotice(m, p),
         p.readActive => player.readActive /\ m \notin {"READ_DONE", "READ_EOF"},
         p.waiting => player.waiting /\ m /= "COPIED",
         p.state /= "IDLE" => player.state /= "IDLE",
         p.state = "PREPARE_SEEKING" =>
           player.state = "PREPARE_SEEKING" /\ p.video = player.video /\ m \notin {"SEEKED", "CLEARED"}
  PROVE  MessageInv'
<1>1. /\ pc'.decode \in {"command", "feed"}
      /\ pc'.read = pc.read /\ pc'.video = pc.video /\ pc'.convert = pc.convert
  BY DEF PlainNotice, GoDecode, FeedPoint, SessionInv, PcType
<1>2. Notice(m, p) /\ queue' = Pop(queue, "notice")
  BY DEF PlainNotice
<1> QED BY <1>1, <1>2, MessagesNotice

\* With video the SEEKED notice turns into a CLEAR.
LEMMA MessagesSeeked == ASSUME SessionInv, SeekedNotice PROVE MessageInv'
<1>1. CASE player.state /= "PREPARE_SEEKING" /\ PlainNotice("SEEKED", player)
  BY <1>1, MessagesPlainNotice
<1>2. CASE /\ player.state = "PREPARE_SEEKING" /\ ~player.video
           /\ PlainNotice("SEEKED", [player EXCEPT !.state = "SEEKING"])
  <2> DEFINE p == [player EXCEPT !.state = "SEEKING"]
  <2>1. p.state = "SEEKING" /\ p.readActive = player.readActive /\ p.waiting = player.waiting
    BY DEF SessionInv, PlayerType
  <2> HIDE DEF p
  <2>2. PlainNotice("SEEKED", p)
    BY <1>2 DEF p
  <2> QED BY <1>2, <2>1, <2>2, MessagesPlainNotice
<1>3. CASE /\ player.state = "PREPARE_SEEKING" /\ player.video
           /\ Notice("SEEKED", player)
           /\ queue' = AddOnce(Pop(queue, "notice"), "video", "CLEAR")
           /\ GoDecode("command")
  <2> DEFINE popped == Pop(queue, "notice")
  <2>1. /\ popped \in QueueType /\ AudioLength(popped) <= AudioQueueSize
        /\ \A q \in Talk : \A n : Holds(popped, q, n) => Queued(q, n)
        /\ \A q \in Talk : \A n : Queued(q, n) /\ ~(q = "notice" /\ n = "SEEKED") => Holds(popped, q, n)
    BY <1>3, NoticeTaken DEF Notice, SessionInv, MessageInv, QueueOK, AudioBound
  <2>2. queue' = AddOnce(popped, "video", "CLEAR") /\ "CLEAR" \in Messages
    BY <1>3 DEF Messages
  <2> HIDE DEF popped
  <2>3. QueueOK'
    BY <2>1, <2>2, AddFacts, AddVariants, TalkNames DEF QueueOK, AudioBound
  <2>4. ASSUME NEW q \in Talk, NEW m
        PROVE  Queued(q, m)' <=> Holds(popped, q, m) \/ (q = "video" /\ m = "CLEAR")
    BY <2>1, <2>2, AddFacts, AddVariants, TalkNames DEF Queued
  <2>5. /\ pc.decode = "notice" /\ pc'.decode = "command" /\ player' = player
        /\ pc'.read = pc.read /\ pc'.video = pc.video /\ pc'.convert = pc.convert
    BY <1>3 DEF Notice, GoDecode, SessionInv, PcType
  <2>6. Steady("SEEKED")
    BY <2>1, <2>4, <2>5 DEF Steady, AbortPoints, Answers
  <2> QED BY <1>3, <2>3, <2>4, <2>5, <2>6, SteadyStep, TalkNames DEF MessageInv
<1> QED BY <1>1, <1>2, <1>3 DEF SeekedNotice

\* The last notice of a wave leads to the reopening ...
LEMMA MessagesCleared == ASSUME SessionInv, ClearedNotice PROVE MessageInv'
<1>1. CASE player.state /= "PREPARE_SEEKING" /\ PlainNotice("CLEARED", player)
  BY <1>1, MessagesPlainNotice
<1>2. CASE /\ player.state = "PREPARE_SEEKING"
           /\ Notice("CLEARED", player) /\ queue' = Pop(queue, "notice")
           /\ GoDecode("reopening")
  <2>1. /\ pc'.decode = "reopening"
        /\ pc'.read = pc.read /\ pc'.video = pc.video /\ pc'.convert = pc.convert
    BY <1>2 DEF GoDecode, SessionInv, PcType
  <2> QED BY <1>2, <2>1, MessagesNotice
<1> QED BY <1>1, <1>2 DEF ClearedNotice

\* ... which ends PREPARE_SEEKING.
LEMMA MessagesReopen == ASSUME SessionInv, Reopen, ReopeningSeeks PROVE MessageInv'
<1>1. /\ pc.decode = "reopening" /\ pc'.decode = "feed" /\ queue' = queue
      /\ pc'.read = pc.read /\ pc'.video = pc.video /\ pc'.convert = pc.convert
  BY DEF Reopen, GoDecode, SessionInv, PcType
<1>2. /\ player'.state = "SEEKING" /\ player.state = "PREPARE_SEEKING"
      /\ player'.readActive = player.readActive /\ player'.waiting = player.waiting
  BY DEF Reopen, ReopeningSeeks, SessionInv, PlayerType
<1>3. QueueOK' /\ \A q \in Talk : \A m : Queued(q, m)' <=> Queued(q, m)
  BY <1>1 DEF SessionInv, MessageInv, QueueOK, AudioBound, Queued
<1>4. Steady("none")
  BY <1>1, <1>3 DEF Steady, AbortPoints
<1> QED BY <1>1, <1>2, <1>3, <1>4, SteadyStep DEF MessageInv

\* The other notices leave the flags alone, or clear one.
LEMMA MessagesOther ==
  ASSUME SessionInv, ReadNotice \/ CopiedNotice \/ BufferedNotice \/ OutOfBufferNotice
  PROVE  MessageInv'
<1> USE DEF SessionInv, PlayerType
<1>1. CASE ReadNotice
  <2> DEFINE p == [player EXCEPT !.readActive = FALSE]
             e == [player EXCEPT !.readActive = FALSE, !.eof = TRUE]
  <2>1. /\ ~p.readActive /\ p.waiting = player.waiting /\ p.state = player.state /\ p.video = player.video
        /\ ~e.readActive /\ e.waiting = player.waiting /\ e.state = player.state /\ e.video = player.video
    OBVIOUS
  <2>2. PlainNotice("READ_DONE", p) \/ PlainNotice("READ_EOF", e)
    BY <1>1 DEF ReadNotice
  <2> HIDE DEF p, e
  <2> QED BY <2>1, <2>2, MessagesPlainNotice
<1>2. CASE CopiedNotice
  <2> DEFINE p == [player EXCEPT !.waiting = FALSE]
  <2>1. ~p.waiting /\ p.readActive = player.readActive /\ p.state = player.state /\ p.video = player.video
    OBVIOUS
  <2>2. PlainNotice("COPIED", p)
    BY <1>2 DEF CopiedNotice
  <2> HIDE DEF p
  <2> QED BY <2>1, <2>2, MessagesPlainNotice
<1>3. CASE BufferedNotice
  <2> DEFINE p == Resumed([player EXCEPT !.postSeek = FALSE])
  <2>1. /\ p.readActive = player.readActive /\ p.waiting = player.waiting
        /\ p.state \in {"PLAYING", "PAUSE"}
    BY DEF Resumed
  <2> HIDE DEF p
  <2>2. CASE player.state /= "BUFFERING" /\ PlainNotice("BUFFERED", player)
    BY <2>2, MessagesPlainNotice
  <2>3. CASE /\ player.state = "BUFFERING" /\ Notice("BUFFERED", p)
             /\ queue' = Pop(queue, "notice") /\ CallRequeue("feed")
    <3>1. /\ pc'.decode = "requeue"
          /\ pc'.read = pc.read /\ pc'.video = pc.video /\ pc'.convert = pc.convert
      BY <2>3 DEF CallRequeue, PcType
    <3> QED BY <2>1, <2>3, <3>1, MessagesNotice
  <2> QED BY <1>3, <2>2, <2>3 DEF BufferedNotice, p
<1>4. CASE OutOfBufferNotice
  <2> DEFINE idle == \/ player.state \notin {"PLAYING", "PAUSE"}
                     \/ player.eof /\ demux.packets = 0
             p == IF idle THEN player
                  ELSE [player EXCEPT !.resumeLater = (player.state = "PLAYING"), !.state = "BUFFERING"]
  <2>1. /\ p.readActive = player.readActive /\ p.waiting = player.waiting /\ p.video = player.video
        /\ p.state = player.state \/ (p.state = "BUFFERING" /\ player.state \in {"PLAYING", "PAUSE"})
    OBVIOUS
  <2>2. PlainNotice("STARVED", p)
    BY <1>4 DEF OutOfBufferNotice
  <2> HIDE DEF p
  <2> QED BY <2>1, <2>2, MessagesPlainNotice
<1> QED BY <1>1, <1>2, <1>3, <1>4

-----------------------------------------------------------------------------
(* Feeding packets.                                                        *)

\* The end of a wave changes none of what the messages are about but the state.
LEMMA WaveDoneFacts ==
  ASSUME NEW p \in PlayerType
  PROVE  LET r == WaveDone(p)
         IN /\ r.state \in {"BUFFERING", "PLAYING", "PAUSE"}
            /\ r.readActive = p.readActive /\ r.waiting = p.waiting
BY DEF WaveDone, Resumed, PlayerType, States

\* A request to read is added exactly when the flag is set by this step.
LEMMA RequestedFacts ==
  ASSUME QueueOK
  PROVE  /\ Requested \in QueueType /\ AudioLength(Requested) = AudioLength(queue)
         /\ \A q \in Talk : \A m :
              Holds(Requested, q, m) <=> Queued(q, m) \/ (NeedsPackets /\ q = "read" /\ m = "READ")
<1>1. "READ" \in Messages /\ queue \in QueueType /\ "read" \in Queues
  BY DEF Messages, QueueOK, Queues
<1>2. CASE NeedsPackets
  BY <1>1, <1>2, AddFacts, TalkNames DEF Requested, Queued
<1>3. CASE ~NeedsPackets
  BY <1>1, <1>3 DEF Requested, Queued
<1> QED BY <1>2, <1>3

\* A turn that asks for packets, ends a wave perhaps, and adds no other cause.
LEMMA MessagesAsk ==
  ASSUME SessionInv, QueueOK',
         pc.decode = "feed",
         pc'.decode \in {"command", "requeue", "packet"},
         pc'.read = pc.read, pc'.video = pc.video, pc'.convert = pc.convert,
         \A q \in Talk : \A m : Holds(Requested, q, m) => Queued(q, m)',
         \A q \in Talk : \A m : Queued(q, m)' => Holds(Requested, q, m) \/ (q = "notice" /\ m = "BUFFERED"),
         player'.readActive => player.readActive \/ NeedsPackets,
         player'.waiting => player.waiting,
         player'.state /= "IDLE" => player.state /= "IDLE",
         player'.state = "PREPARE_SEEKING" => player.state = "PREPARE_SEEKING" /\ player'.video = player.video
  PROVE  MessageInv'
<1>1. \A q \in Talk : \A m :
        Holds(Requested, q, m) <=> Queued(q, m) \/ (NeedsPackets /\ q = "read" /\ m = "READ")
  BY RequestedFacts DEF SessionInv, MessageInv
<1>2. Steady("none")
  BY <1>1 DEF Steady, AbortPoints, Answers
<1>3. player'.readActive => player.readActive \/ Queued("read", "READ")'
  BY <1>1, TalkNames
<1> QED BY <1>2, <1>3, SteadyStep DEF MessageInv

\* Neither the request nor the flag is about anything else in the player.
LEMMA AskedPlayer ==
  ASSUME player \in PlayerType
  PROVE  LET asked == [player EXCEPT !.readActive = @ \/ NeedsPackets]
         IN /\ asked \in PlayerType
            /\ asked.readActive => player.readActive \/ NeedsPackets
            /\ asked.waiting = player.waiting /\ asked.state = player.state
            /\ asked.video = player.video
BY DEF PlayerType

\* A turn that feeds nothing.
LEMMA MessagesFeed == ASSUME SessionInv, FeedEnd \/ FeedWait PROVE MessageInv'
<1>1. /\ pc.decode = "feed" /\ pc'.decode = "command"
      /\ pc'.read = pc.read /\ pc'.video = pc.video /\ pc'.convert = pc.convert
      /\ player' = [player EXCEPT !.readActive = @ \/ NeedsPackets]
  BY DEF FeedEnd, FeedWait, GoDecode, RequestRead, SessionInv, PcType
<1>2. queue' \in {Requested, AddBuffered(Requested), AddPlayNext(Requested)}
  BY DEF FeedEnd, FeedWait
<1>3. /\ Requested \in QueueType /\ AudioLength(Requested) <= AudioQueueSize
      /\ "BUFFERED" \in Messages /\ "PLAY_NEXT" \in Commands
  BY RequestedFacts DEF SessionInv, MessageInv, QueueOK, AudioBound, Messages, Notices, Commands
<1>4. /\ QueueOK'
      /\ \A q \in Talk : \A m : Holds(Requested, q, m) => Queued(q, m)'
      /\ \A q \in Talk : \A m : Queued(q, m)' => Holds(Requested, q, m) \/ (q = "notice" /\ m = "BUFFERED")
  <2>1. CASE queue' = Requested
    BY <1>3, <2>1 DEF QueueOK, AudioBound, Queued
  <2>2. CASE queue' = Add(Requested, "notice", "BUFFERED")
    BY <1>3, <2>2, AddFacts, TalkNames DEF QueueOK, AudioBound, Queued
  <2>3. CASE queue' = AddPlayNext(Requested)
    BY <1>3, <2>3, CommandAdded DEF AddPlayNext, QueueOK, AudioBound, Queued
  <2> QED BY <1>2, <2>1, <2>2, <2>3, AddVariants DEF AddBuffered
<1>5. player \in PlayerType
  BY DEF SessionInv
<1> QED BY <1>1, <1>4, <1>5, AskedPlayer, MessagesAsk

\* A turn that takes a packet, which may end a wave.
LEMMA MessagesFeedPacket == ASSUME SessionInv, FeedPacket PROVE MessageInv'
<1> DEFINE asked == [player EXCEPT !.readActive = @ \/ NeedsPackets]
<1>1. /\ asked \in PlayerType
      /\ asked.readActive => player.readActive \/ NeedsPackets
      /\ asked.waiting = player.waiting /\ asked.state = player.state
      /\ asked.video = player.video
  BY AskedPlayer DEF SessionInv
<1>2. player' = asked \/ (player.state = "SEEKING" /\ player' = WaveDone(asked))
  BY DEF FeedPacket
<1> HIDE DEF asked
<1>3. /\ player'.readActive => player.readActive \/ NeedsPackets
      /\ player'.waiting => player.waiting
      /\ player'.state /= "IDLE" => player.state /= "IDLE"
      /\ player'.state = "PREPARE_SEEKING" => player.state = "PREPARE_SEEKING" /\ player'.video = player.video
  BY <1>1, <1>2, WaveDoneFacts
<1>4. /\ pc.decode = "feed" /\ pc'.decode \in {"packet", "requeue"} /\ queue' = Requested
      /\ pc'.read = pc.read /\ pc'.video = pc.video /\ pc'.convert = pc.convert
  BY DEF FeedPacket, GoDecode, CallRequeue, SessionInv, PcType
<1>5. /\ QueueOK' /\ \A q \in Talk : \A m : Queued(q, m)' <=> Holds(Requested, q, m)
  BY <1>4, RequestedFacts DEF SessionInv, MessageInv, QueueOK, AudioBound, Queued
<1> QED BY <1>3, <1>4, <1>5, MessagesAsk

LEMMA MessagesTimeout == ASSUME SessionInv, WallTimeout PROVE MessageInv'
<1>1. /\ player'.readActive = player.readActive /\ player'.waiting = player.waiting
      /\ player.state = "SEEKING" /\ player'.state /= "PREPARE_SEEKING"
  BY WaveDoneFacts DEF WallTimeout, SessionInv
<1>2. /\ pc.decode = "feed" /\ pc'.decode \in {"feed", "requeue"} /\ queue' = queue
      /\ pc'.read = pc.read /\ pc'.video = pc.video /\ pc'.convert = pc.convert
  BY DEF WallTimeout, CallRequeue, SessionInv, PcType
<1>3. QueueOK' /\ \A q \in Talk : \A m : Queued(q, m)' <=> Queued(q, m)
  BY <1>2 DEF SessionInv, MessageInv, QueueOK, AudioBound, Queued
<1> QED BY <1>1, <1>2, <1>3, CommandStep

\* A packet is handed to its thread: waiting is set with the DECODE.
LEMMA MessagesPacket ==
  ASSUME SessionInv, AudioPacket \/ VideoPacket \/ SkipPacket
  PROVE  MessageInv'
<1>0. /\ pc.decode = "packet" /\ pc'.decode = "command"
      /\ pc'.read = pc.read /\ pc'.video = pc.video /\ pc'.convert = pc.convert
  BY DEF AudioPacket, VideoPacket, SkipPacket, GoDecode, SessionInv, PcType
<1>m. /\ "DECODE" \in Messages /\ queue \in QueueType /\ AudioLength(queue) <= AudioQueueSize
      /\ queue["audio"] \in Seq(Messages) /\ "audio" \in Queues
      /\ \A q \in Talk : q \in Queues /\ q /= "audio"
  BY TalkNames DEF Messages, SessionInv, MessageInv, QueueOK, AudioBound, QueueType, Queues
<1>1. CASE AudioPacket \/ SkipPacket
  <2>1. player' = player /\ (queue' = queue \/ queue' = AddAudio(queue, "DECODE"))
    BY <1>1 DEF AudioPacket, SkipPacket
  <2>2. QueueOK' /\ \A q \in Talk : \A m : Queued(q, m)' <=> Queued(q, m)
    <3>1. CASE queue' = queue
      BY <1>m, <3>1 DEF QueueOK, AudioBound, Queued
    <3>2. CASE queue' = Add(queue, "audio", "DECODE") /\ ~AudioFull
      <4>1. AudioLength(queue) + 1 <= AudioQueueSize
        BY <1>m, <3>2, SizesAssumption DEF AudioFull, AudioLength
      <4> QED BY <1>m, <3>2, <4>1, AddFacts DEF QueueOK, AudioBound, Queued
    <3> QED BY <2>1, <3>1, <3>2, AddVariants
  <2> QED BY <1>0, <2>1, <2>2, CommandStep
<1>2. CASE VideoPacket
  <2>1. queue' = Add(queue, "video", "DECODE")
    BY <1>2 DEF VideoPacket
  <2>2. QueueOK'
    BY <1>m, <2>1, AddFacts, TalkNames DEF QueueOK, AudioBound
  <2>3. ASSUME NEW q \in Talk, NEW m
        PROVE  Queued(q, m)' <=> Queued(q, m) \/ (q = "video" /\ m = "DECODE")
    BY <1>m, <2>1, AddFacts, TalkNames DEF Queued
  <2>4. /\ player'.readActive = player.readActive /\ player'.state = player.state
        /\ player'.video = player.video
    BY <1>2 DEF VideoPacket, SessionInv, PlayerType
  <2>5. Steady("none")
    BY <1>0, <2>3 DEF Steady, AbortPoints, Answers
  <2> QED BY <1>0, <2>2, <2>3, <2>4, <2>5, SteadyStep, TalkNames DEF MessageInv
<1> QED BY <1>1, <1>2

-----------------------------------------------------------------------------
(* An abort.                                                               *)

LEMMA AskedNames ==
  /\ \A v \in Asked : /\ v \in Queues /\ v \in Talk /\ v \notin {"audio", "command", "notice"}
                      /\ Answer[v] \in AbortPoints
  /\ \A v, w \in Asked : Answer[v] = Answer[w] => v = w
  /\ Answer["read"] = "abortRead" /\ Answer["convert"] = "abortConvert"
  /\ Answer["video"] = "abortVideo"
  /\ "read" \in Asked /\ "convert" \in Asked /\ "video" \in Asked
BY DEF Asked, Answer, Queues, Talk, AbortPoints

\* Once the answer waited for is taken, neither an ABORT nor an answer is left.
LEMMA AnswerTaken ==
  ASSUME SessionInv, NEW w \in Asked, pc.decode = Answer[w], NextIs("notice", Answer[w])
  PROVE  LET popped == Pop(queue, "notice")
         IN /\ popped \in QueueType
            /\ AudioLength(popped) = AudioLength(queue)
            /\ \A v \in Asked : ~Holds(popped, "notice", Answer[v]) /\ ~Holds(popped, v, "ABORT")
            /\ \A q \in Queues : q /= "notice" => (Empty(popped, q) <=> Empty(queue, q))
            /\ w \in {"read", "video"} => Stopped(w)
<1> DEFINE popped == Pop(queue, "notice")
<1>1. /\ queue["notice"] /= <<>> /\ Head(queue["notice"]) = Answer[w]
      /\ queue \in QueueType /\ "notice" \in Queues
  BY DEF NextIs, SessionInv, MessageInv, QueueOK, Queues
<1>2. /\ popped \in QueueType
      /\ AudioLength(popped) = AudioLength(queue)
      /\ \A q \in Queues : \A n : Holds(popped, q, n) => Queued(q, n)
      /\ \A q \in Queues : q /= "notice" => (Empty(popped, q) <=> Empty(queue, q))
      /\ Single(queue, "notice", Answer[w]) => ~Holds(popped, "notice", Answer[w])
      /\ Queued("notice", Answer[w])
  BY <1>1, PopFacts DEF Queued
<1> HIDE DEF popped
<1>3. ASSUME NEW v \in Asked PROVE ~Holds(popped, "notice", Answer[v]) /\ ~Holds(popped, v, "ABORT")
  <2>1. CASE v = w
    BY <1>1, <1>2, <2>1, AskedNames DEF SessionInv, MessageInv, AbortInv
  <2>2. CASE v /= w
    <3>1. Answer[v] /= pc.decode
      BY <2>2, AskedNames
    <3> QED BY <1>1, <1>2, <3>1, AskedNames DEF SessionInv, MessageInv, AbortInv
  <2> QED BY <2>1, <2>2
<1>4. w \in {"read", "video"} => Stopped(w)
  BY <1>2, AskedNames DEF SessionInv, MessageInv, StopInv
<1> QED BY <1>2, <1>3, <1>4 DEF popped

\* No answer is left: only the one who was asked now may hold an ABORT.
LEMMA AbortsAnswered ==
  ASSUME \A v \in Asked : ~Queued("notice", Answer[v])',
         \A v \in Asked : Queued(v, "ABORT")' => pc'.decode = Answer[v],
         pc'.decode \in {"abortConvert", "abortVideo", "abortAudio"} => Stopped("read")',
         pc'.decode = "abortAudio" => Stopped("video")'
  PROVE  AbortInv' /\ StopInv'
<1>1. ASSUME NEW v \in Asked PROVE Single(queue', "notice", Answer[v])
  BY DEF Single, Queued, Holds
<1>2. AbortInv'
  BY <1>1 DEF AbortInv
<1>3. StopInv'
  BY AskedNames DEF StopInv
<1> QED BY <1>2, <1>3

\* While an abort runs nothing is said of the flags.
LEMMA AbortingCauses ==
  ASSUME pc'.decode \in AbortPoints \/ player'.state = "IDLE"
  PROVE  CauseInv'
BY DEF CauseInv, ReadHasCause, WaitingHasCause, WaveInv, Busy

\* The read thread is asked first.
LEMMA MessagesAbortStart == ASSUME SessionInv, AbortStart PROVE MessageInv'
<1> DEFINE popped == Pop(queue, "command")
<1>1. /\ TakeCommand("ABORT") /\ pc.decode = "command" /\ pc'.decode = "abortRead"
      /\ queue' = Add(popped, "read", "ABORT")
  BY DEF AbortStart, TakeCommand, GoDecode, SessionInv, PcType
<1>2. /\ popped \in QueueType /\ AudioLength(popped) <= AudioQueueSize
      /\ \A q \in Talk : \A n : Holds(popped, q, n) <=> Queued(q, n)
  BY <1>1, CommandTaken DEF SessionInv, MessageInv, QueueOK, AudioBound
<1>3. "ABORT" \in Messages
  BY DEF Messages, Commands
<1> HIDE DEF popped
<1>4. QueueOK'
  BY <1>1, <1>2, <1>3, AddFacts, TalkNames DEF QueueOK, AudioBound
<1>5. ASSUME NEW q \in Talk, NEW m
      PROVE  Queued(q, m)' <=> Queued(q, m) \/ (q = "read" /\ m = "ABORT")
  BY <1>1, <1>2, <1>3, AddFacts, TalkNames DEF Queued
<1>6. ASSUME NEW v \in Asked PROVE ~Queued(v, "ABORT") /\ ~Queued("notice", Answer[v])
  BY <1>1, AskedNames DEF AbortPoints, SessionInv, MessageInv, AbortInv
<1>7. \A v \in Asked : /\ ~Queued("notice", Answer[v])'
                       /\ Queued(v, "ABORT")' => pc'.decode = Answer[v]
  BY <1>1, <1>5, <1>6, AskedNames, TalkNames
<1> QED BY <1>1, <1>4, <1>7, AbortsAnswered, AbortingCauses DEF MessageInv, AbortPoints

\* The notice thrown away is not the answer waited for.
LEMMA MessagesAbortDiscard == ASSUME SessionInv, AbortDiscard PROVE MessageInv'
<1>1. /\ pc.decode \in AbortPoints /\ pc' = pc
      /\ queue["notice"] /= <<>> /\ Head(queue["notice"]) /= pc.decode
      /\ queue' = Pop(queue, "notice") /\ "notice" \in Queues /\ queue \in QueueType
  BY DEF AbortDiscard, SessionInv, MessageInv, QueueOK, Queues
<1>2. /\ queue' \in QueueType /\ AudioLength(queue') = AudioLength(queue)
      /\ \A q \in Queues : \A n : Holds(queue', q, n) => Holds(queue, q, n)
      /\ \A q \in Queues : q /= "notice" => (Empty(queue', q) <=> Empty(queue, q))
      /\ \A q \in Queues : \A n : Single(queue, q, n) => Single(queue', q, n)
  BY <1>1, PopFacts
<1>3. QueueOK' /\ \A q \in Queues : \A n : Queued(q, n)' => Queued(q, n)
  BY <1>2 DEF SessionInv, MessageInv, QueueOK, AudioBound, Queued
<1>4. AbortInv'
  BY <1>1, <1>2, <1>3, AskedNames DEF SessionInv, MessageInv, AbortInv
<1>5. StopInv'
  <2>1. (Stopped("read") => Stopped("read")') /\ (Stopped("video") => Stopped("video")')
    BY <1>1, <1>2, AskedNames DEF Stopped
  <2> QED BY <1>1, <1>3, <2>1 DEF SessionInv, MessageInv, StopInv
<1> QED BY <1>1, <1>3, <1>4, <1>5, AbortingCauses DEF MessageInv

\* The worker that answered is stopped; the next one is asked.
LEMMA MessagesAbortNext ==
  ASSUME SessionInv,
         \/ AbortNext("abortRead", "convert", "abortConvert")
         \/ AbortNext("abortConvert", "video", "abortVideo")
  PROVE  MessageInv'
<1> DEFINE popped == Pop(queue, "notice")
<1>1. PICK w \in Asked, v \in Asked :
        /\ pc.decode = Answer[w] /\ NextIs("notice", Answer[w])
        /\ queue' = Add(popped, v, "ABORT")
        /\ pc' = [pc EXCEPT !.decode = Answer[v]]
        /\ (w = "read" /\ v = "convert") \/ (w = "convert" /\ v = "video")
  <2>1. CASE AbortNext("abortRead", "convert", "abortConvert")
    BY <2>1, AskedNames DEF AbortNext, Aborted, GoDecode
  <2>2. CASE AbortNext("abortConvert", "video", "abortVideo")
    BY <2>2, AskedNames DEF AbortNext, Aborted, GoDecode
  <2> QED BY <2>1, <2>2
<1>2. /\ popped \in QueueType /\ AudioLength(popped) <= AudioQueueSize
      /\ \A u \in Asked : ~Holds(popped, "notice", Answer[u]) /\ ~Holds(popped, u, "ABORT")
      /\ \A q \in Queues : q /= "notice" => (Empty(popped, q) <=> Empty(queue, q))
      /\ w = "read" => Stopped("read")
  BY <1>1, AnswerTaken DEF SessionInv, MessageInv, QueueOK, AudioBound
<1>3. "ABORT" \in Messages
  BY DEF Messages, Commands
<1> HIDE DEF popped
<1>4. /\ pc'.decode = Answer[v] /\ pc'.read = pc.read /\ Answer[v] \in AbortPoints
      /\ Answer[v] /= "abortAudio"
  BY <1>1, AskedNames DEF SessionInv, PcType
<1>5. QueueOK'
  BY <1>1, <1>2, <1>3, AddFacts, AskedNames DEF QueueOK, AudioBound
<1>6. \A u \in Asked : /\ ~Queued("notice", Answer[u])'
                       /\ Queued(u, "ABORT")' => pc'.decode = Answer[u]
  BY <1>1, <1>2, <1>3, <1>4, AddFacts, AskedNames, TalkNames DEF Queued
<1>7. Stopped("read")'
  <2>1. Stopped("read")
    BY <1>1, <1>2, AskedNames DEF SessionInv, MessageInv, StopInv
  <2>2. Empty(queue', "read")
    BY <1>1, <1>2, <1>3, <2>1, AddFacts, AskedNames DEF Stopped
  <2> QED BY <1>4, <2>1, <2>2 DEF Stopped
<1> QED BY <1>4, <1>5, <1>6, <1>7, AbortsAnswered, AbortingCauses DEF MessageInv

\* The audio thread may be asked in vain: its queue can be full.
LEMMA MessagesAbortAsk == ASSUME SessionInv, AbortAskAudio PROVE MessageInv'
<1> DEFINE popped == Pop(queue, "notice")
<1>1. /\ pc.decode = Answer["video"] /\ NextIs("notice", Answer["video"]) /\ "video" \in Asked
      /\ queue' = AddAudioFront(popped, "ABORT")
      /\ pc'.decode = "abortAudio" /\ pc'.read = pc.read /\ pc'.video = pc.video
  BY AskedNames DEF AbortAskAudio, Aborted, GoDecode, SessionInv, PcType
<1>2. /\ popped \in QueueType /\ AudioLength(popped) = AudioLength(queue)
      /\ \A u \in Asked : ~Holds(popped, "notice", Answer[u]) /\ ~Holds(popped, u, "ABORT")
      /\ \A q \in Queues : q /= "notice" => (Empty(popped, q) <=> Empty(queue, q))
      /\ Stopped("video")
  BY <1>1, AnswerTaken
<1>3. /\ "ABORT" \in Messages /\ AudioLength(queue) <= AudioQueueSize
      /\ queue["audio"] \in Seq(Messages)
  BY DEF Messages, Commands, SessionInv, MessageInv, QueueOK, AudioBound, QueueType, Queues
<1> HIDE DEF popped
<1>4. /\ QueueOK'
      /\ \A q \in Talk : \A m : Holds(queue', q, m) <=> Holds(popped, q, m)
      /\ \A q \in Talk : Empty(queue', q) <=> Empty(popped, q)
  <2>1. CASE queue' = popped
    BY <1>2, <1>3, <2>1 DEF QueueOK, AudioBound
  <2>2. CASE queue' = AddFront(popped, "audio", "ABORT") /\ ~AudioFull
    <3>1. AudioLength(queue) + 1 <= AudioQueueSize
      BY <1>3, <2>2, SizesAssumption DEF AudioFull, AudioLength
    <3>2. "audio" \in Queues /\ \A q \in Talk : q \in Queues /\ q /= "audio"
      BY TalkNames
    <3> QED BY <1>2, <1>3, <2>2, <3>1, <3>2, AddFrontFacts DEF QueueOK, AudioBound
  <2> QED BY <1>1, <2>1, <2>2, AddVariants
<1>5. \A u \in Asked : ~Queued("notice", Answer[u])' /\ ~Queued(u, "ABORT")'
  BY <1>2, <1>4, AskedNames, TalkNames DEF Queued
<1>6. Stopped("read")' /\ Stopped("video")'
  <2>1. Stopped("read")
    BY <1>1, AskedNames DEF SessionInv, MessageInv, StopInv, NextIs, Queued
  <2> QED BY <1>1, <1>2, <1>4, <2>1, TalkNames DEF Stopped
<1> QED BY <1>1, <1>4, <1>5, <1>6, AbortsAnswered, AbortingCauses DEF MessageInv, AbortPoints

\* When the audio thread answers the other three have long done so.
LEMMA ClosingFacts ==
  ASSUME SessionInv, AbortClose
  PROVE  /\ Stopped("read") /\ Stopped("video")
         /\ QueueOK'
         /\ \A u \in Asked : ~Queued("notice", Answer[u])' /\ ~Queued(u, "ABORT")'
<1>1. /\ NextIs("notice", pc.decode) /\ queue' = Pop(queue, "notice")
      /\ pc.decode \in {"abortVideo", "abortAudio"}
      /\ queue["notice"] /= <<>> /\ queue \in QueueType /\ "notice" \in Queues
  BY DEF AbortClose, Aborted, NextIs, SessionInv, MessageInv, QueueOK, Queues
<1>2. /\ queue' \in QueueType /\ AudioLength(queue') = AudioLength(queue)
      /\ \A q \in Queues : \A n : Holds(queue', q, n) => Holds(queue, q, n)
      /\ Holds(queue, "notice", Head(queue["notice"]))
  BY <1>1, PopFacts
<1>3. QueueOK'
  BY <1>2 DEF SessionInv, MessageInv, QueueOK, AudioBound
<1>4. Stopped("read") /\ Stopped("video")
  BY <1>1, <1>2 DEF SessionInv, MessageInv, StopInv, NextIs, Queued
<1>5. ASSUME NEW u \in Asked PROVE ~Queued("notice", Answer[u])' /\ ~Queued(u, "ABORT")'
  <2>1. CASE pc.decode = "abortVideo"
    <3>1. /\ "video" \in Asked /\ pc.decode = Answer["video"]
          /\ NextIs("notice", Answer["video"])
      BY <1>1, <2>1, AskedNames
    <3> QED BY <1>1, <3>1, AnswerTaken DEF Queued
  <2>2. CASE pc.decode = "abortAudio"
    <3>1. Answer[u] /= pc.decode
      BY <2>2 DEF Asked, Answer
    <3> QED BY <1>1, <1>2, <3>1, AskedNames DEF SessionInv, MessageInv, AbortInv, Queued
  <2> QED BY <1>1, <2>1, <2>2
<1> QED BY <1>3, <1>4, <1>5

LEMMA MessagesAbortClose == ASSUME SessionInv, AbortClose PROVE MessageInv'
<1>1. pc'.decode = "requeue" /\ player'.state = "IDLE"
  BY DEF AbortClose, CallRequeue, Closed, SessionInv, PcType, PlayerType
<1> QED BY <1>1, ClosingFacts, AbortsAnswered, AbortingCauses DEF MessageInv

LEMMA MessagesAbort == ASSUME SessionInv, Abort PROVE MessageInv'
BY MessagesIgnored, MessagesAbortStart, MessagesAbortDiscard, MessagesAbortNext,
   MessagesAbortAsk, MessagesAbortClose DEF Abort

-----------------------------------------------------------------------------
(* The user and the workers, who leave the decode thread where it is.      *)

\* A step that takes no cause away, and lets who is stopped be.
LEMMA OutsideStep ==
  ASSUME SessionInv, QueueOK', pc'.decode = pc.decode,
         player'.state = player.state, player'.video = player.video,
         player'.readActive = player.readActive, player'.waiting = player.waiting,
         \A q \in Talk : \A m : Queued(q, m)' /\ ~Queued(q, m) => m \notin Answers \cup {"ABORT"},
         \A m \in Answers : Single(queue, "notice", m) => Single(queue', "notice", m),
         Stopped("read") => Stopped("read")', Stopped("video") => Stopped("video")',
         Busy /\ ReadCause => ReadCause', Busy /\ CopyCause => CopyCause',
         Busy /\ SeekCause => SeekCause', Busy /\ player.video /\ ClearCause => ClearCause'
  PROVE  MessageInv'
<1>1. /\ \A w \in Asked : Answer[w] \in Answers /\ w \in Talk
      /\ "notice" \in Talk /\ "abortRead" \in Answers /\ "abortVideo" \in Answers
  BY DEF Asked, Answer, Answers, Talk
<1>2. \A q \in Talk, m \in Answers \cup {"ABORT"} : Queued(q, m)' => Queued(q, m)
  OBVIOUS
<1>3. AbortInv'
  BY <1>1, <1>2 DEF SessionInv, MessageInv, AbortInv
<1>4. StopInv'
  BY <1>1, <1>2 DEF SessionInv, MessageInv, StopInv
<1>5. CauseInv'
  <2> USE DEF SessionInv, MessageInv, CauseInv, Busy
  <2>1. ReadHasCause'
    BY DEF ReadHasCause, ReadCause
  <2>2. WaitingHasCause'
    BY DEF WaitingHasCause, CopyCause
  <2>3. WaveInv'
    BY DEF WaveInv
  <2> QED BY <2>1, <2>2, <2>3
<1> QED BY <1>3, <1>4, <1>5 DEF MessageInv

-----------------------------------------------------------------------------
(* The user.                                                               *)

LEMMA MessagesUser == ASSUME SessionInv, User PROVE MessageInv'
<1>1. /\ pc' = pc
      /\ player'.state = player.state /\ player'.video = player.video
      /\ player'.readActive = player.readActive /\ player'.waiting = player.waiting
  BY DEF User, UserOpen, UserAbort, UserToggle, UserSeek, UserPost, Decide, SessionInv, PlayerType
<1>2. PICK m \in Commands : queue' \in {queue, AddFrontOnce(queue, "command", m),
                                        AddOnce(queue, "command", m), AddFront(queue, "command", m)}
  <2>1. CASE UserPost
    <3> USE DEF UserPost, Commands
    <3>1. CASE user.intent \in {"PLAY", "SEEK"}
      BY <2>1, <3>1
    <3>2. CASE user.intent \in {"PAUSE", "RESUME"}
      BY <2>1, <3>2
    <3>3. CASE user.intent = "ABORT"
      BY <2>1, <3>3
    <3>4. CASE user.intent = "REPLAY"
      BY <2>1, <3>4
    <3>5. CASE user.intent \notin {"PLAY", "SEEK", "PAUSE", "RESUME", "ABORT", "REPLAY"}
      BY <2>1, <3>5
    <3> QED BY <3>1, <3>2, <3>3, <3>4, <3>5
  <2>2. CASE ~UserPost
    BY <2>2 DEF User, UserOpen, UserAbort, UserToggle, UserSeek, Decide, Commands
  <2> QED BY <2>1, <2>2
<1>3. /\ queue \in QueueType /\ AudioLength(queue) <= AudioQueueSize /\ m \in Messages
      /\ "command" \in Queues
  BY MessageNames DEF SessionInv, MessageInv, QueueOK, AudioBound, Queues
<1>4. queue' \in {queue, AddFront(queue, "command", m), Add(queue, "command", m)}
  BY <1>2, AddVariants
<1>5. /\ QueueOK'
      /\ \A q \in Talk : \A n : Queued(q, n)' <=> Queued(q, n)
      /\ \A q \in Talk : Empty(queue', q) <=> Empty(queue, q)
  <2>1. CASE queue' = queue
    BY <1>3, <2>1 DEF QueueOK, AudioBound, Queued
  <2>2. CASE queue' = AddFront(queue, "command", m)
    BY <1>3, <2>2, AddFrontFacts, TalkNames DEF QueueOK, AudioBound, Queued
  <2>3. CASE queue' = Add(queue, "command", m)
    BY <1>3, <2>3, AddFacts, TalkNames DEF QueueOK, AudioBound, Queued
  <2> QED BY <1>4, <2>1, <2>2, <2>3
<1>6. \A n : Single(queue, "notice", n) => Single(queue', "notice", n)
  <2>1. queue'["notice"] = queue["notice"]
    BY <1>3, <1>4 DEF Add, AddFront, QueueType, Queues
  <2> QED BY <2>1 DEF Single
<1>7. "read" \in Talk /\ "video" \in Talk /\ "convert" \in Talk /\ "notice" \in Talk
  BY TalkNames
<1>8. (Stopped("read") => Stopped("read")') /\ (Stopped("video") => Stopped("video")')
  BY <1>1, <1>5, <1>7 DEF Stopped
<1>9. /\ (ReadCause => ReadCause') /\ (CopyCause => CopyCause')
      /\ (SeekCause => SeekCause') /\ (ClearCause => ClearCause')
  BY <1>1, <1>5, <1>7 DEF ReadCause, CopyCause, SeekCause, ClearCause
<1>10. pc'.decode = pc.decode
  BY <1>1
<1> QED BY <1>1, <1>5, <1>6, <1>8, <1>9, <1>10, OutsideStep

-----------------------------------------------------------------------------
(* What the workers do to the queues.                                      *)

\* A request is taken.
LEMMA RequestTaken ==
  ASSUME SessionInv, NEW w \in Asked \cup {"audio"}, NEW m, NextIs(w, m), queue' = Pop(queue, w)
  PROVE  /\ QueueOK'
         /\ \A q \in Talk : \A n : Queued(q, n)' => Queued(q, n)
         /\ \A q \in Talk : \A n : Queued(q, n) => Queued(q, n)' \/ (q = w /\ n = m)
         /\ \A n : Single(queue, "notice", n) => Single(queue', "notice", n)
         /\ \A q \in Talk : q /= w => (Empty(queue', q) <=> Empty(queue, q))
         /\ ~Empty(queue, w)
<1>1. /\ queue \in QueueType /\ AudioLength(queue) <= AudioQueueSize
      /\ queue[w] /= <<>> /\ Head(queue[w]) = m
      /\ w \in Queues /\ "notice" \in Queues
      /\ queue["audio"] \in Seq(Messages)
  BY DEF NextIs, SessionInv, MessageInv, QueueOK, AudioBound, Asked, Queues, QueueType
<1>2. AudioLength(queue) \in Nat /\ AudioQueueSize \in Nat
  BY <1>1, SizesAssumption DEF AudioLength
<1>3. QueueOK'
  <2>1. queue' \in QueueType /\ AudioLength(queue') \in {AudioLength(queue), AudioLength(queue) - 1}
    BY <1>1, PopFacts
  <2>2. AudioLength(queue') <= AudioQueueSize
    BY <1>1, <1>2, <2>1
  <2> QED BY <2>1, <2>2 DEF QueueOK, AudioBound
<1>4. ~Empty(queue, w)
  BY <1>1 DEF Empty
<1> QED BY <1>1, <1>3, <1>4, PopFacts, TalkNames DEF Queued

\* A notice, or a request to the convert thread, is added.
LEMMA Reported ==
  ASSUME SessionInv, NEW q \in {"notice", "convert"}, NEW m \in Messages \ (Answers \cup {"ABORT"}),
         queue' = Add(queue, q, m)
  PROVE  /\ QueueOK'
         /\ \A r \in Talk : \A n : Queued(r, n)' <=> Queued(r, n) \/ (r = q /\ n = m)
         /\ \A n \in Answers : Single(queue, "notice", n) => Single(queue', "notice", n)
         /\ \A r \in {"read", "video"} : Empty(queue', r) <=> Empty(queue, r)
<1>1. /\ queue \in QueueType /\ AudioLength(queue) <= AudioQueueSize
      /\ q \in Queues /\ q /= "audio" /\ m \in Messages
      /\ \A r \in {"read", "video", "notice"} : r \in Queues
      /\ \A r \in {"read", "video"} : r /= q
  BY DEF SessionInv, MessageInv, QueueOK, AudioBound, Queues
<1>2. QueueOK'
  BY <1>1, AddFacts DEF QueueOK, AudioBound
<1>3. \A r \in Talk : \A n : Queued(r, n)' <=> Queued(r, n) \/ (r = q /\ n = m)
  BY <1>1, AddFacts, TalkNames DEF Queued
<1>4. \A n \in Answers : Single(queue, "notice", n) => Single(queue', "notice", n)
  BY <1>1, AddFacts
<1>5. \A r \in {"read", "video"} : Empty(queue', r) <=> Empty(queue, r)
  BY <1>1, AddFacts
<1> QED BY <1>2, <1>3, <1>4, <1>5

\* Nothing happens to them.
LEMMA QueuesKept ==
  ASSUME SessionInv, queue' = queue
  PROVE  /\ QueueOK'
         /\ \A r \in Talk : \A n : Queued(r, n)' <=> Queued(r, n)
         /\ \A n : Single(queue, "notice", n) => Single(queue', "notice", n)
         /\ \A r : Empty(queue', r) <=> Empty(queue, r)
BY DEF SessionInv, MessageInv, QueueOK, AudioBound, Queued

\* A worker that finds an ABORT answers it, with its queue empty.
LEMMA AbortAnswered ==
  ASSUME SessionInv, NEW w \in Asked, AnswerAbort(w, Answer[w]),
         pc'.decode = pc.decode, pc'.read = pc.read, pc'.video = pc.video
  PROVE  MessageInv'
<1> DEFINE flushed == Flush(queue, w)
<1>1. /\ pc[w] = "idle" /\ queue[w] /= <<>> /\ Head(queue[w]) = "ABORT"
      /\ queue' = Add(flushed, "notice", Answer[w])
      /\ queue \in QueueType /\ AudioLength(queue) <= AudioQueueSize
      /\ w \in Queues /\ w /= "audio" /\ w /= "notice" /\ "notice" \in Queues
  BY AskedNames DEF AnswerAbort, Took, NextIs, SessionInv, MessageInv, QueueOK, AudioBound, Queues
<1>2. Queued(w, "ABORT")
  BY <1>1, PopFacts DEF Queued
<1>3. pc.decode = Answer[w] /\ ~Queued("notice", Answer[w])
  BY <1>2 DEF SessionInv, MessageInv, AbortInv
<1>4. /\ flushed \in QueueType /\ AudioLength(flushed) = AudioLength(queue)
      /\ \A n : ~Holds(flushed, w, n)
      /\ Empty(flushed, w)
      /\ \A r \in Queues : r /= w => (Empty(flushed, r) <=> Empty(queue, r))
      /\ \A r \in Queues : \A n : r /= w => (Holds(flushed, r, n) <=> Queued(r, n))
      /\ \A r \in Queues : \A n : Single(queue, r, n) => Single(flushed, r, n)
  BY <1>1, FlushFacts DEF Queued
<1>5. Answer[w] \in Messages /\ Answer[w] \in AbortPoints
  BY AskedNames DEF Messages, Notices
<1> HIDE DEF flushed
<1>6. QueueOK'
  BY <1>1, <1>4, <1>5, AddFacts DEF QueueOK, AudioBound
<1>7. ASSUME NEW v \in Asked
      PROVE  /\ Queued(v, "ABORT")' => Queued(v, "ABORT") /\ v /= w
             /\ Queued("notice", Answer[v])' <=> Queued("notice", Answer[v]) \/ v = w
             /\ Single(queue', "notice", Answer[v])
  <2>1. v \in Queues /\ v /= "notice" /\ (Answer[v] = Answer[w] <=> v = w)
    BY AskedNames
  <2>2. /\ Queued(v, "ABORT")' => Queued(v, "ABORT") /\ v /= w
        /\ Queued("notice", Answer[v])' <=> Queued("notice", Answer[v]) \/ v = w
    BY <1>1, <1>4, <1>5, <2>1, AddFacts DEF Queued
  <2>3. Single(queue, "notice", Answer[v])
    BY DEF SessionInv, MessageInv, AbortInv
  <2> QED BY <1>1, <1>3, <1>4, <1>5, <2>1, <2>2, <2>3, AddFacts
<1>8. AbortInv'
  BY <1>3, <1>7 DEF SessionInv, MessageInv, AbortInv
<1>9. StopInv'
  <2>1. \A v \in {"read", "video"} : Empty(queue', v) <=> Empty(queue, v) \/ v = w
    <3>1. \A v \in {"read", "video"} : v \in Queues /\ v /= "notice"
      BY DEF Queues
    <3> QED BY <1>1, <1>4, <1>5, <3>1, AddFacts
  <2>2. (Stopped("read") \/ w = "read" => Stopped("read")') /\ (Stopped("video") \/ w = "video" => Stopped("video")')
    BY <1>1, <2>1 DEF Stopped
  <2>3. /\ Queued("notice", "abortRead")' => w = "read"
        /\ Queued("notice", "abortVideo")' => w = "video"
    BY <1>3, <1>7, AskedNames DEF SessionInv, MessageInv, AbortInv
  <2>4. pc.decode /= "abortAudio"
    BY <1>3 DEF Asked, Answer
  <2>5. pc.decode \in {"abortConvert", "abortVideo"} => Stopped("read")
    BY DEF SessionInv, MessageInv, StopInv
  <2> QED BY <2>2, <2>3, <2>4, <2>5 DEF StopInv
<1> QED BY <1>3, <1>5, <1>6, <1>8, <1>9, AbortingCauses DEF MessageInv

-----------------------------------------------------------------------------
(* The read and the video thread.                                          *)

\* A worker takes a request other than ABORT; in IDLE it drops it.
LEMMA BeginFacts ==
  ASSUME SessionInv, NEW w \in Asked, NEW m, NEW point, Begin(w, m, point)
  PROVE  /\ player' = player /\ pc' = [pc EXCEPT ![w] = IF player.state = "IDLE" THEN "idle" ELSE point]
         /\ QueueOK'
         /\ \A q \in Talk : \A n : Queued(q, n)' => Queued(q, n)
         /\ \A q \in Talk : \A n : Queued(q, n) => Queued(q, n)' \/ (q = w /\ n = m)
         /\ \A n : Single(queue, "notice", n) => Single(queue', "notice", n)
         /\ \A q \in Talk : q /= w => (Empty(queue', q) <=> Empty(queue, q))
         /\ ~Empty(queue, w)
<1>1. NextIs(w, m) /\ queue' = Pop(queue, w)
  BY DEF Begin, Took
<1> QED BY <1>1, RequestTaken DEF Begin, Goes

\* What a step of the read thread needs to be shown of it.
LEMMA ReadStep ==
  ASSUME SessionInv, QueueOK', player' = player,
         pc'.decode = pc.decode, pc'.video = pc.video, pc'.convert = pc.convert,
         \A q \in Talk : \A m : Queued(q, m)' /\ ~Queued(q, m) => m \notin Answers \cup {"ABORT"},
         \A m \in Answers : Single(queue, "notice", m) => Single(queue', "notice", m),
         Empty(queue, "video") => Empty(queue', "video"),
         ~Stopped("read"),
         \A q \in {"video", "convert", "notice"} : \A m : Queued(q, m) => Queued(q, m)',
         Busy /\ ReadCause => ReadCause', Busy /\ SeekCause => SeekCause'
  PROVE  MessageInv'
<1>1. Stopped("video") => Stopped("video")'
  BY DEF Stopped
<1>2. (CopyCause => CopyCause') /\ (ClearCause => ClearCause')
  BY DEF CopyCause, ClearCause
<1> QED BY <1>1, <1>2, OutsideStep

LEMMA MessagesRead == ASSUME SessionInv, Read PROVE MessageInv'
<1> USE TalkNames
<1>t. /\ pc \in PcType
      /\ "video" \in Talk /\ "convert" \in Talk /\ "notice" \in Talk /\ "read" \in Talk
  BY DEF SessionInv
<1>1. ASSUME NEW m \in {"READ", "SEEK"}, NEW point,
             m = "READ" => point = "reading", m = "SEEK" => point = "seeking",
             Begin("read", m, point)
      PROVE  MessageInv'
  <2>1. /\ player' = player
        /\ pc'.decode = pc.decode /\ pc'.video = pc.video /\ pc'.convert = pc.convert
        /\ pc'.read = IF player.state = "IDLE" THEN "idle" ELSE point
    BY <1>1, <1>t, BeginFacts, AskedNames DEF PcType
  <2>2. pc.read = "idle"
    BY <1>1 DEF Begin, Took
  <2>3. /\ QueueOK'
        /\ \A q \in Talk : \A n : Queued(q, n)' => Queued(q, n)
        /\ \A q \in Talk : \A n : Queued(q, n) => Queued(q, n)' \/ (q = "read" /\ n = m)
        /\ \A n : Single(queue, "notice", n) => Single(queue', "notice", n)
        /\ \A q \in Talk : q /= "read" => (Empty(queue', q) <=> Empty(queue, q))
        /\ ~Empty(queue, "read")
    BY <1>1, BeginFacts, AskedNames
  <2>4. Busy /\ ReadCause => ReadCause'
    BY <1>1, <1>t, <2>1, <2>2, <2>3 DEF Busy, ReadCause
  <2>5. Busy /\ SeekCause => SeekCause'
    BY <1>1, <1>t, <2>1, <2>2, <2>3 DEF Busy, SeekCause
  <2> QED BY <1>t, <2>1, <2>3, <2>4, <2>5, ReadStep DEF Stopped
<1>2. CASE AnswerAbort("read", "abortRead") /\ UNCHANGED pc
  BY <1>2, AbortAnswered, AskedNames
<1>3. ASSUME NEW m \in {"READ_DONE", "READ_EOF", "SEEKED"}, queue' = Add(queue, "notice", m),
             pc' = [pc EXCEPT !.read = "idle"], player' = player,
             pc.read = IF m = "SEEKED" THEN "seeking" ELSE "reading"
      PROVE  MessageInv'
  <2>1. m \in Messages \ (Answers \cup {"ABORT"})
    BY DEF Messages, Notices, Answers
  <2>2. /\ QueueOK'
        /\ \A r \in Talk : \A n : Queued(r, n)' <=> Queued(r, n) \/ (r = "notice" /\ n = m)
        /\ \A n \in Answers : Single(queue, "notice", n) => Single(queue', "notice", n)
        /\ \A r \in {"read", "video"} : Empty(queue', r) <=> Empty(queue, r)
    BY <1>3, <2>1, Reported
  <2>3. /\ pc'.decode = pc.decode /\ pc'.video = pc.video /\ pc'.convert = pc.convert
        /\ ~Stopped("read")
    BY <1>3, <1>t DEF PcType, Stopped
  <2>4. ReadCause => ReadCause'
    BY <1>3, <1>t, <2>2 DEF ReadCause
  <2>5. SeekCause => SeekCause'
    BY <1>3, <1>t, <2>2 DEF SeekCause
  <2> QED BY <1>3, <1>t, <2>1, <2>2, <2>3, <2>4, <2>5, ReadStep
<1>4. CASE ReadPacket
  <2>1. player' = player /\ pc.read = "reading"
    BY <1>4 DEF ReadPacket
  <2>2. CASE ReadEnds("READ_DONE")
    BY <1>3, <2>1, <2>2 DEF ReadEnds, Goes
  <2>3. CASE UNCHANGED <<queue, pc>>
    <3>1. ~Stopped("read")
      BY <2>1 DEF Stopped
    <3>2. (ReadCause => ReadCause') /\ (SeekCause => SeekCause')
      BY <2>3, <1>t, QueuesKept DEF ReadCause, SeekCause
    <3> QED BY <1>t, <2>1, <2>3, <3>1, <3>2, QueuesKept, ReadStep
  <2> QED BY <1>4, <2>2, <2>3 DEF ReadPacket
<1>5. CASE ReadEof
  BY <1>3, <1>5 DEF ReadEof, ReadEnds, Goes
<1>6. CASE SeekFile
  BY <1>3, <1>6 DEF SeekFile, Goes
<1> QED BY <1>1, <1>2, <1>4, <1>5, <1>6 DEF Read

-----------------------------------------------------------------------------

\* What a step of the video thread needs to be shown of it.
LEMMA VideoStep ==
  ASSUME SessionInv, QueueOK', player' = player,
         pc'.decode = pc.decode, pc'.read = pc.read, pc'.convert = pc.convert,
         \A q \in Talk : \A m : Queued(q, m)' /\ ~Queued(q, m) => m \notin Answers \cup {"ABORT"},
         \A m \in Answers : Single(queue, "notice", m) => Single(queue', "notice", m),
         Empty(queue, "read") => Empty(queue', "read"),
         ~Stopped("video"),
         \A q \in {"read", "notice"} : \A m : Queued(q, m) => Queued(q, m)',
         Busy /\ CopyCause => CopyCause', Busy /\ ClearCause => ClearCause'
  PROVE  MessageInv'
<1>1. Stopped("read") => Stopped("read")'
  BY DEF Stopped
<1>2. (ReadCause => ReadCause') /\ (SeekCause => SeekCause')
  BY DEF ReadCause, SeekCause
<1> QED BY <1>1, <1>2, OutsideStep

LEMMA MessagesVideo == ASSUME SessionInv, Video PROVE MessageInv'
<1> USE TalkNames
<1>t. /\ pc \in PcType
      /\ "video" \in Talk /\ "convert" \in Talk /\ "notice" \in Talk /\ "read" \in Talk
  BY DEF SessionInv
<1>1. ASSUME NEW m \in {"DECODE", "CLEAR"}, NEW point,
             m = "DECODE" => point = "copying", m = "CLEAR" => point = "clearing",
             Begin("video", m, point)
      PROVE  MessageInv'
  <2>1. /\ player' = player
        /\ pc'.decode = pc.decode /\ pc'.read = pc.read /\ pc'.convert = pc.convert
        /\ pc'.video = IF player.state = "IDLE" THEN "idle" ELSE point
    BY <1>1, <1>t, BeginFacts, AskedNames DEF PcType
  <2>2. pc.video = "idle"
    BY <1>1 DEF Begin, Took
  <2>3. /\ QueueOK'
        /\ \A q \in Talk : \A n : Queued(q, n)' => Queued(q, n)
        /\ \A q \in Talk : \A n : Queued(q, n) => Queued(q, n)' \/ (q = "video" /\ n = m)
        /\ \A n : Single(queue, "notice", n) => Single(queue', "notice", n)
        /\ \A q \in Talk : q /= "video" => (Empty(queue', q) <=> Empty(queue, q))
        /\ ~Empty(queue, "video")
    BY <1>1, BeginFacts, AskedNames
  <2>4. Busy /\ CopyCause => CopyCause'
    BY <1>1, <1>t, <2>1, <2>2, <2>3 DEF Busy, CopyCause
  <2>5. Busy /\ ClearCause => ClearCause'
    BY <1>1, <1>t, <2>1, <2>2, <2>3 DEF Busy, ClearCause
  <2> QED BY <1>t, <2>1, <2>3, <2>4, <2>5, VideoStep DEF Stopped
<1>2. CASE AnswerAbort("video", "abortVideo") /\ UNCHANGED pc
  BY <1>2, AbortAnswered, AskedNames
<1>3. ASSUME NEW q \in {"notice", "convert"}, NEW m \in {"COPIED", "CLEAR"}, NEW point,
             queue' = Add(queue, q, m), pc' = [pc EXCEPT !.video = point], player' = player,
             \/ q = "notice" /\ m = "COPIED" /\ pc.video = "copying"
             \/ q = "convert" /\ m = "CLEAR" /\ pc.video = "clearing"
      PROVE  MessageInv'
  <2>1. m \in Messages \ (Answers \cup {"ABORT"})
    BY DEF Messages, Notices, Answers
  <2>2. /\ QueueOK'
        /\ \A r \in Talk : \A n : Queued(r, n)' <=> Queued(r, n) \/ (r = q /\ n = m)
        /\ \A n \in Answers : Single(queue, "notice", n) => Single(queue', "notice", n)
        /\ \A r \in {"read", "video"} : Empty(queue', r) <=> Empty(queue, r)
    BY <1>3, <2>1, Reported
  <2>3. /\ pc'.decode = pc.decode /\ pc'.read = pc.read /\ pc'.convert = pc.convert
        /\ ~Stopped("video")
    BY <1>3, <1>t DEF PcType, Stopped
  <2>4. CopyCause => CopyCause'
    BY <1>3, <1>t, <2>2 DEF CopyCause
  <2>5. ClearCause => ClearCause'
    BY <1>3, <1>t, <2>2, <2>3 DEF ClearCause
  <2> QED BY <1>3, <1>t, <2>1, <2>2, <2>3, <2>4, <2>5, VideoStep
<1>4. CASE CopyPacket
  BY <1>3, <1>4 DEF CopyPacket, Goes
<1>5. CASE ForwardClear
  BY <1>3, <1>5 DEF ForwardClear, Goes
<1>6. CASE DecodeFrame \/ DecodeGivesUp
  <2>1. /\ pc.video = "decoding" /\ pc' = [pc EXCEPT !.video = "idle"]
        /\ player' = player /\ queue' = queue
    BY <1>6 DEF DecodeGivesUp, DecodeFrame, Goes
  <2>2. /\ pc'.decode = pc.decode /\ pc'.read = pc.read /\ pc'.convert = pc.convert
        /\ ~Stopped("video")
    BY <2>1, <1>t DEF PcType, Stopped
  <2>3. (CopyCause => CopyCause') /\ (ClearCause => ClearCause')
    BY <1>t, <2>1, <2>2, QueuesKept DEF CopyCause, ClearCause
  <2> QED BY <1>t, <2>1, <2>2, <2>3, QueuesKept, VideoStep
<1> QED BY <1>1, <1>2, <1>4, <1>5, <1>6 DEF Video, VideoPop

-----------------------------------------------------------------------------
(* The convert and the audio thread.                                       *)

\* What a step of the convert thread needs to be shown of it.
LEMMA ConvertStep ==
  ASSUME SessionInv, QueueOK', player' = player,
         pc'.decode = pc.decode, pc'.read = pc.read, pc'.video = pc.video,
         \A q \in Talk : \A m : Queued(q, m)' /\ ~Queued(q, m) => m \notin Answers \cup {"ABORT"},
         \A m \in Answers : Single(queue, "notice", m) => Single(queue', "notice", m),
         \A q \in {"read", "video"} : Empty(queue, q) => Empty(queue', q),
         \A q \in {"read", "video", "notice"} : \A m : Queued(q, m) => Queued(q, m)',
         Busy /\ player.video /\ ClearCause => ClearCause'
  PROVE  MessageInv'
<1>1. (Stopped("read") => Stopped("read")') /\ (Stopped("video") => Stopped("video")')
  BY DEF Stopped
<1>2. (ReadCause => ReadCause') /\ (CopyCause => CopyCause') /\ (SeekCause => SeekCause')
  BY DEF ReadCause, CopyCause, SeekCause
<1> QED BY <1>1, <1>2, OutsideStep

LEMMA MessagesConvert == ASSUME SessionInv, Convert PROVE MessageInv'
<1> USE TalkNames
<1>t. /\ pc \in PcType
      /\ "video" \in Talk /\ "convert" \in Talk /\ "notice" \in Talk /\ "read" \in Talk
  BY DEF SessionInv
<1>1. ASSUME NEW m, NextIs("convert", m), queue' = Pop(queue, "convert"), player' = player,
             pc.convert = "idle",
             pc'.decode = pc.decode, pc'.read = pc.read, pc'.video = pc.video,
             m = "CLEAR" /\ Busy /\ player.video => pc'.convert = "clearing"
      PROVE  MessageInv'
  <2>1. /\ QueueOK'
        /\ \A q \in Talk : \A n : Queued(q, n)' => Queued(q, n)
        /\ \A q \in Talk : \A n : Queued(q, n) => Queued(q, n)' \/ (q = "convert" /\ n = m)
        /\ \A n : Single(queue, "notice", n) => Single(queue', "notice", n)
        /\ \A q \in Talk : q /= "convert" => (Empty(queue', q) <=> Empty(queue, q))
    BY <1>1, RequestTaken, AskedNames
  <2>2. Busy /\ player.video /\ ClearCause => ClearCause'
    BY <1>1, <1>t, <2>1 DEF ClearCause
  <2> QED BY <1>1, <1>t, <2>1, <2>2, ConvertStep
<1>2. ASSUME NEW m \in {"CONVERT", "CLEAR"}, ConvertIgnore(m) PROVE MessageInv'
  <2>1. /\ NextIs("convert", m) /\ queue' = Pop(queue, "convert") /\ player' = player
        /\ pc.convert = "idle" /\ (player.state = "IDLE" \/ ~player.video)
        /\ pc'.decode = pc.decode /\ pc'.read = pc.read /\ pc'.video = pc.video
    BY <1>2, <1>t DEF ConvertIgnore, Took, Goes, PcType
  <2> QED BY <1>1, <2>1 DEF Busy
<1>3. CASE ConvertStart
  <2>1. /\ NextIs("convert", "CONVERT") /\ queue' = Pop(queue, "convert") /\ player' = player
        /\ pc.convert = "idle"
        /\ pc'.decode = pc.decode /\ pc'.read = pc.read /\ pc'.video = pc.video
    BY <1>3, <1>t DEF ConvertStart, Took, PcType
  <2> QED BY <1>1, <2>1
<1>4. CASE Begin("convert", "CLEAR", "clearing")
  <2>1. /\ NextIs("convert", "CLEAR") /\ queue' = Pop(queue, "convert") /\ player' = player
        /\ pc.convert = "idle"
        /\ pc'.decode = pc.decode /\ pc'.read = pc.read /\ pc'.video = pc.video
        /\ player.state /= "IDLE" => pc'.convert = "clearing"
    BY <1>4, <1>t DEF Begin, Took, Goes, PcType
  <2> QED BY <1>1, <2>1 DEF Busy
<1>5. CASE ConvertAbort
  <2>1. /\ AnswerAbort("convert", "abortConvert")
        /\ pc'.decode = pc.decode /\ pc'.read = pc.read /\ pc'.video = pc.video
    BY <1>5, <1>t DEF ConvertAbort, PcType
  <2> QED BY <2>1, AbortAnswered, AskedNames
<1>6. ASSUME NEW m \in Messages \ (Answers \cup {"ABORT"}),
             \/ queue' = queue /\ pc.convert /= "clearing"
             \/ queue' = Add(queue, "notice", m) /\ (pc.convert = "clearing" => m = "CLEARED"),
             player' = player,
             pc'.decode = pc.decode, pc'.read = pc.read, pc'.video = pc.video
      PROVE  MessageInv'
  <2>1. CASE queue' = queue /\ pc.convert /= "clearing"
    <3>1. ClearCause => ClearCause'
      BY <1>6, <1>t, <2>1, QueuesKept DEF ClearCause
    <3> QED BY <1>6, <1>t, <2>1, <3>1, QueuesKept, ConvertStep
  <2>2. CASE queue' = Add(queue, "notice", m) /\ (pc.convert = "clearing" => m = "CLEARED")
    <3>1. /\ QueueOK'
          /\ \A r \in Talk : \A n : Queued(r, n)' <=> Queued(r, n) \/ (r = "notice" /\ n = m)
          /\ \A n \in Answers : Single(queue, "notice", n) => Single(queue', "notice", n)
          /\ \A r \in {"read", "video"} : Empty(queue', r) <=> Empty(queue, r)
      BY <2>2, Reported
    <3>2. ClearCause => ClearCause'
      BY <1>6, <1>t, <3>1 DEF ClearCause
    <3> QED BY <1>6, <1>t, <3>1, <3>2, ConvertStep
  <2> QED BY <1>6, <2>1, <2>2
<1>m. {"CLEARED", "STARVED", "BUFFERED"} \subseteq Messages \ (Answers \cup {"ABORT"})
  BY DEF Messages, Notices, Answers
<1>7. CASE ConvertNone \/ ConvertLook
  <2>1. /\ queue' = queue /\ player' = player /\ pc.convert /= "clearing"
        /\ pc'.decode = pc.decode /\ pc'.read = pc.read /\ pc'.video = pc.video
    BY <1>7, <1>t DEF ConvertNone, ConvertLook, Goes, PcType
  <2> QED BY <1>6, <1>m, <2>1
<1>8. CASE ClearImages
  <2>1. /\ queue' = Add(queue, "notice", "CLEARED") /\ player' = player
        /\ pc'.decode = pc.decode /\ pc'.read = pc.read /\ pc'.video = pc.video
    BY <1>8, <1>t DEF ClearImages, Goes, PcType
  <2> QED BY <1>6, <1>m, <2>1
<1>9. CASE ConvertWork \/ ConvertBuffered
  <2>1. /\ player' = player /\ pc.convert /= "clearing"
        /\ pc'.decode = pc.decode /\ pc'.read = pc.read /\ pc'.video = pc.video
    BY <1>9, <1>t DEF ConvertWork, ConvertBuffered, Goes, PcType
  <2>2. queue' \in {queue, AddOnce(queue, "notice", "STARVED"), AddRepeated(queue, "notice", "BUFFERED")}
    BY <1>9 DEF ConvertWork, ConvertBuffered, AddBuffered
  <2>3. queue' \in {queue, Add(queue, "notice", "STARVED"), Add(queue, "notice", "BUFFERED")}
    BY <2>2, AddVariants
  <2> QED BY <1>6, <1>m, <2>1, <2>3
<1> QED BY <1>2, <1>3, <1>4, <1>5, <1>7, <1>8, <1>9 DEF Convert

-----------------------------------------------------------------------------

LEMMA MessagesAudio == ASSUME SessionInv, Audio PROVE MessageInv'
<1> USE TalkNames
<1>t. /\ pc \in PcType
      /\ "video" \in Talk /\ "convert" \in Talk /\ "notice" \in Talk /\ "read" \in Talk
  BY DEF SessionInv
<1>1. /\ player' = player
      /\ pc'.decode = pc.decode /\ pc'.read = pc.read /\ pc'.video = pc.video
      /\ pc'.convert = pc.convert
  BY <1>t DEF Audio, AudioBegin, PlayAudio, AudioDrain, AudioDrained, Goes, PcType
<1>2. ASSUME QueueOK',
             \A q \in Talk : \A m : Queued(q, m) => Queued(q, m)',
             \A q \in Talk : \A m : Queued(q, m)' => Queued(q, m) \/ m = "abortAudio",
             \A m \in Answers : Single(queue, "notice", m) => Single(queue', "notice", m),
             \A q \in {"read", "video"} : Empty(queue', q) <=> Empty(queue, q)
      PROVE  MessageInv'
  <2>1. ClearCause => ClearCause'
    BY <1>1, <1>2, <1>t DEF ClearCause
  <2>2. \A q \in Talk : \A m : Queued(q, m)' /\ ~Queued(q, m) => m \notin Answers \cup {"ABORT"}
    BY <1>2 DEF Answers
  <2> QED BY <1>1, <1>2, <1>t, <2>1, <2>2, ConvertStep
<1>3. CASE queue' = queue
  BY <1>2, <1>3, <1>t, QueuesKept
<1>4. ASSUME NEW m, NextIs("audio", m), queue' = Pop(queue, "audio") PROVE MessageInv'
  BY <1>2, <1>4, <1>t, RequestTaken
<1>5. CASE queue' = Add(queue, "notice", "abortAudio")
  <2>1. "abortAudio" \in Messages \ (Answers \cup {"ABORT"})
    BY DEF Messages, Notices, AbortPoints, Answers
  <2> QED BY <1>2, <1>5, <2>1, Reported
<1>6. CASE \E m : AudioBegin(m, "playing") \/ AudioBegin(m, "drainSeek") \/ AudioBegin(m, "drainAbort")
  BY <1>4, <1>6 DEF AudioBegin, Took
<1>7. CASE PlayAudio \/ AudioDrained
  BY <1>3, <1>5, <1>7 DEF PlayAudio, AudioDrained
<1>8. CASE AudioDrain
  BY <1>4, <1>8 DEF AudioDrain, NextIs
<1> QED BY <1>6, <1>7, <1>8 DEF Audio

-----------------------------------------------------------------------------
(* Every step keeps the invariant.                                         *)

LEMMA MessagesDecode == ASSUME SessionInv, ReopeningSeeks, Decode PROVE MessageInv'
<1>1. CASE HandleNotice
  BY <1>1, MessagesRequeue, MessagesSeeked, MessagesCleared, MessagesReopen, MessagesOther
     DEF HandleNotice
<1>2. CASE Feed
  BY <1>2, MessagesFeed, MessagesFeedPacket, MessagesPacket DEF Feed
<1> QED BY <1>1, <1>2, MessagesRequeue, MessagesPlay, MessagesToggle, MessagesIgnored,
           MessagesSeek, MessagesAbort, MessagesTimeout DEF Decode

\* The bounds of the packet cache: the read thread stops one short of full.
LEMMA DemuxStep == ASSUME SessionInv, [Next]_vars PROVE demux' \in DemuxType
<1> USE SizesAssumption DEF DemuxType
<1>0. demux \in DemuxType /\ MaxPackets \in Nat \ {0, 1} /\ FileLength \in Nat \ {0}
  BY DEF SessionInv
<1>1. CASE demux' = demux
  BY <1>0, <1>1
<1>2. ASSUME demux' = [packets |-> 0, unread |-> FileLength] \/ demux' = [packets |-> 0, unread |-> 0]
      PROVE  demux' \in DemuxType
  BY <1>0, <1>2
<1>3. CASE User
  BY <1>1, <1>3 DEF User, UserOpen, UserAbort, UserToggle, UserSeek, UserPost, Decide
<1>4. CASE NoCommand \/ PlayStart \/ PlayFail \/ PlaySwitch \/ Requeue \/ WallTimeout
  BY <1>1, <1>2, <1>4 DEF NoCommand, PlayStart, PlayFail, PlaySwitch, Requeue, WallTimeout
<1>5. CASE PlayIgnored \/ Pause \/ Resume \/ SeekLater \/ SeekStart \/ PlayNext
  BY <1>1, <1>5 DEF PlayIgnored, Pause, Resume, SeekLater, SeekStart, PlayNext, PlainCommand
<1>6. CASE Abort
  BY <1>1, <1>2, <1>6 DEF Abort, AbortIdle, PlainCommand, AbortStart, AbortDiscard, AbortNext,
                AbortAskAudio, AbortClose
<1>7. CASE HandleNotice
  BY <1>1, <1>2, <1>7 DEF HandleNotice, NoNotice, ReadNotice, CopiedNotice, SeekedNotice, ClearedNotice,
              Reopen, BufferedNotice, OutOfBufferNotice, PlainNotice, Notice
<1>8. CASE FeedPacket
  BY <1>0, <1>8 DEF FeedPacket
<1>9. CASE Feed /\ ~FeedPacket
  BY <1>1, <1>9 DEF Feed, FeedEnd, FeedWait, RequestRead, AudioPacket, VideoPacket, SkipPacket
<1>10. CASE ReadPacket
  BY <1>0, <1>10 DEF ReadPacket, Full
<1>11. CASE Read /\ ~ReadPacket
  BY <1>1, <1>2, <1>11 DEF Read, Begin, AnswerAbort, ReadEof, SeekFile
<1>12. CASE Video
  BY <1>1, <1>12 DEF Video, VideoPop, Begin, AnswerAbort, CopyPacket, DecodeFrame, DecodeGivesUp, ForwardClear
<1>13. CASE Convert
  BY <1>1, <1>13 DEF Convert, ConvertIgnore, ConvertStart, Begin, ConvertAbort, AnswerAbort, ConvertNone,
              ClearImages, ConvertLook, ConvertWork, ConvertBuffered
<1>14. CASE Audio
  BY <1>1, <1>14 DEF Audio, AudioBegin, PlayAudio, AudioDrain, AudioDrained
<1>15. CASE UNCHANGED vars
  BY <1>1, <1>15 DEF vars
<1> QED BY <1>3, <1>4, <1>5, <1>6, <1>7, <1>8, <1>9, <1>10, <1>11, <1>12, <1>13, <1>14, <1>15
        DEF Next, Decode

LEMMA UserStep == ASSUME SessionInv, [Next]_vars PROVE user' \in UserType
<1>0. user \in UserType /\ MaxUserActs \in Nat
  BY SizesAssumption DEF SessionInv
<1>1. ASSUME user' = user PROVE user' \in UserType
  BY <1>0, <1>1 DEF UserType
<1>2. CASE User
  <2>1. ASSUME NEW act, NEW m \in {"DEFER", "REPLAY"} \cup Commands, Decide(act, m) PROVE user' \in UserType
    <3>1. user.left - 1 \in 0..MaxUserActs
      BY <1>0, <2>1 DEF Decide, UserType
    <3>2. user' = [user EXCEPT !.intent = m, !.left = user.left - 1]
      BY <2>1 DEF Decide
    <3> QED BY <1>0, <3>1, <3>2 DEF UserType
  <2>2. CASE UserPost
    BY <1>0, <2>2 DEF UserPost, UserType
  <2> QED BY <1>2, <2>1, <2>2 DEF User, UserOpen, UserAbort, UserToggle, UserSeek, Commands
<1>3. CASE Read \/ Video \/ Convert \/ Audio
  BY <1>1, <1>3 DEF Read, Begin, AnswerAbort, ReadPacket, ReadEof, SeekFile,
     Video, VideoPop, CopyPacket, DecodeFrame, DecodeGivesUp, ForwardClear,
     Convert, ConvertIgnore, ConvertStart, ConvertAbort, ConvertNone, ClearImages, ConvertLook,
     ConvertWork, ConvertBuffered, Audio, AudioBegin, PlayAudio, AudioDrain, AudioDrained
<1>4. CASE NoCommand \/ PlayStart \/ PlayFail \/ PlaySwitch \/ Requeue \/ WallTimeout
  BY <1>1, <1>4 DEF NoCommand, PlayStart, PlayFail, PlaySwitch, Requeue, WallTimeout
<1>5. CASE PlayIgnored \/ Pause \/ Resume \/ SeekLater \/ SeekStart \/ PlayNext
  BY <1>1, <1>5 DEF PlayIgnored, Pause, Resume, SeekLater, SeekStart, PlayNext, PlainCommand
<1>6. CASE Abort
  BY <1>1, <1>6 DEF Abort, AbortIdle, PlainCommand, AbortStart, AbortDiscard, AbortNext,
                AbortAskAudio, AbortClose
<1>7. CASE HandleNotice
  BY <1>1, <1>7 DEF HandleNotice, NoNotice, ReadNotice, CopiedNotice, SeekedNotice, ClearedNotice,
              Reopen, BufferedNotice, OutOfBufferNotice, PlainNotice, Notice
<1>8. CASE Feed
  BY <1>1, <1>8 DEF Feed, FeedEnd, FeedWait, FeedPacket, RequestRead, AudioPacket, VideoPacket, SkipPacket
<1>9. CASE UNCHANGED vars
  BY <1>1, <1>9 DEF vars
<1> QED BY <1>2, <1>3, <1>4, <1>5, <1>6, <1>7, <1>8, <1>9 DEF Next, Decode

LEMMA MessagesInit == Init => SessionInv
<1> SUFFICES ASSUME Init PROVE SessionInv
  OBVIOUS
<1>1. player \in PlayerType /\ pc \in PcType
  BY FlagsInit DEF FInv, Flags
<1>2. demux \in DemuxType /\ user \in UserType
  BY SizesAssumption DEF Init, DemuxType, UserType
<1>3. /\ queue \in QueueType /\ \A q \in Queues : queue[q] = <<>>
      /\ player.state = "IDLE" /\ pc.decode = "command"
  BY DEF Init, QueueType
<1>4. \A q \in Queues : \A m : ~Queued(q, m) /\ Single(queue, q, m)
  BY <1>3 DEF Queued, Holds, Single
<1>5. QueueOK
  <2>1. queue["audio"] = <<>>
    BY <1>3 DEF Queues
  <2> QED BY <1>3, <2>1, SizesAssumption DEF QueueOK, AudioBound, AudioLength
<1>6. AbortInv /\ StopInv
  <2>1. "notice" \in Queues
    BY DEF Queues
  <2> QED BY <1>3, <1>4, <2>1, AskedNames DEF AbortInv, StopInv
<1>7. CauseInv
  BY <1>3 DEF CauseInv, ReadHasCause, WaitingHasCause, WaveInv, Busy
<1> QED BY <1>1, <1>2, <1>5, <1>6, <1>7 DEF SessionInv, MessageInv

LEMMA SessionStep == ASSUME SessionInv, FInv, [Next]_vars PROVE SessionInv'
<1>1. FInv' /\ demux' \in DemuxType /\ user' \in UserType
  BY FlagsStep, DemuxStep, UserStep
<1>2. MessageInv'
  <2>1. CASE UNCHANGED vars
    <3>1. \A q, m : (Queued(q, m)' <=> Queued(q, m))
      BY <2>1 DEF vars, Queued
    <3> QED BY <2>1, <3>1
            DEF vars, SessionInv, MessageInv, QueueOK, AudioBound, AbortInv, StopInv, Stopped,
                CauseInv, ReadHasCause, WaitingHasCause, WaveInv, Busy, SeekCause, ClearCause
  <2>2. CASE Decode
    BY <2>2, MessagesDecode DEF FInv
  <2> QED BY <2>1, <2>2, MessagesUser, MessagesRead, MessagesVideo, MessagesConvert, MessagesAudio
          DEF Next
<1>3. (player \in PlayerType)' /\ (pc \in PcType)'
  BY <1>1 DEF FInv, Flags
<1> QED BY <1>1, <1>2, <1>3 DEF SessionInv

-----------------------------------------------------------------------------
(* The theorems.                                                           *)

\* Of all the steps only one closes a session.
LEMMA OnlyAbortCloses ==
  ASSUME SessionInv, [Next]_vars, player.state /= "IDLE", player'.state = "IDLE"
  PROVE  AbortClose
<1> SUFFICES ASSUME ~AbortClose PROVE player'.state /= "IDLE"
  OBVIOUS
<1> USE DEF SessionInv, PlayerType
<1>1. CASE User
  BY <1>1 DEF User, UserOpen, UserAbort, UserToggle, UserSeek, UserPost, Decide
<1>2. CASE Read \/ Video \/ Convert \/ Audio
  BY <1>2, WorkersOnlyRead
<1>3. CASE NoCommand \/ PlayStart \/ PlayFail \/ PlaySwitch \/ Requeue
  BY <1>3 DEF NoCommand, PlayStart, PlayFail, PlaySwitch, Requeue, Opened
<1>4. CASE Pause
  BY <1>4 DEF Pause, PlainCommand
<1>5. CASE Resume
  BY <1>5 DEF Resume, PlainCommand
<1>6. CASE PlayIgnored \/ SeekLater \/ SeekStart \/ PlayNext
  BY <1>6 DEF PlayIgnored, SeekLater, SeekStart, PlayNext, PlainCommand
<1>7. CASE Abort
  BY <1>7 DEF Abort, AbortIdle, PlainCommand, AbortStart, AbortDiscard, AbortNext, AbortAskAudio
<1>8. CASE HandleNotice
  <2> USE DEF PlainNotice, Notice
  <2>1. CASE NoNotice \/ ReadNotice \/ CopiedNotice
    BY <2>1 DEF NoNotice, ReadNotice, CopiedNotice
  <2>2. CASE SeekedNotice \/ ClearedNotice \/ Reopen
    BY <2>2 DEF SeekedNotice, ClearedNotice, Reopen
  <2>3. CASE BufferedNotice
    BY <2>3 DEF BufferedNotice, Resumed
  <2>4. CASE OutOfBufferNotice
    BY <2>4 DEF OutOfBufferNotice
  <2> QED BY <1>8, <2>1, <2>2, <2>3, <2>4 DEF HandleNotice
<1>9. CASE WallTimeout
  BY <1>9, WaveDoneFacts DEF WallTimeout
<1>10. CASE Feed
  <2>1. CASE FeedPacket
    BY <2>1, AskedPlayer, WaveDoneFacts DEF FeedPacket
  <2>2. CASE ~FeedPacket
    BY <1>10, <2>2 DEF Feed, FeedEnd, FeedWait, RequestRead, AudioPacket, VideoPacket, SkipPacket
  <2> QED BY <2>1, <2>2
<1>11. CASE UNCHANGED vars
  BY <1>11 DEF vars
<1> QED BY <1>1, <1>2, <1>3, <1>4, <1>5, <1>6, <1>7, <1>8, <1>9, <1>10, <1>11 DEF Next, Decode

\* Both invariants together are inductive.
LEMMA SessionInvariant == Spec => [](SessionInv /\ FInv)
<1>1. Init => SessionInv /\ FInv
  BY MessagesInit, FlagsInit
<1>2. SessionInv /\ FInv /\ [Next]_vars => (SessionInv /\ FInv)'
  BY SessionStep, FlagsStep
<1> QED BY <1>1, <1>2, PTL DEF Spec

\* Every field keeps its range, the packet cache and the audio queue their
\* capacity (vid_decode.c:1461), whatever the threads do.
THEOREM TypeCorrect == Spec => []TypeOK
<1>1. SessionInv => TypeOK
  BY DEF SessionInv, MessageInv, QueueOK, AudioBound, AudioLength, QueueType,
         DemuxType, UserType, TypeOK
<1> QED BY <1>1, SessionInvariant, PTL

\* is_read_packet_thread_active is never set without a request to read, the
\* reader at work or its notice: a seek or an abort that cuts a read short, or
\* the end of the file, cannot leave the flag set and the cache unfilled.
THEOREM ReadsHaveCause == Spec => []ReadHasCause
<1>1. SessionInv => ReadHasCause
  BY DEF SessionInv, MessageInv, CauseInv
<1> QED BY <1>1, SessionInvariant, PTL

\* is_waiting_video_decoder is never set without a packet on its way through the
\* video thread or its COPIED notice, also after a clear or a new session.
THEOREM WaitsHaveCause == Spec => []WaitingHasCause
<1>1. SessionInv => WaitingHasCause
  BY DEF SessionInv, MessageInv, CauseInv
<1> QED BY <1>1, SessionInvariant, PTL

\* A player that is PREPARE_SEEKING has a request or a notice of the wave under
\* way in some thread, whichever of the five the wave has come to.
THEOREM WavesInFlight == Spec => []WaveInFlight
<1>1. SessionInv => WaveInFlight
  BY DEF SessionInv, MessageInv, CauseInv, WaveInv, Busy, SeekCause, ClearCause, WaveInFlight
<1> QED BY <1>1, SessionInvariant, PTL

\* An abort closes the decoder (vid_decode.c, the ABORT case) only when the read
\* and the video thread are outside it and have nothing left to do in it.
THEOREM ClosesAlone == Spec => CloseAlone
<1> DEFINE Alone == player.state /= "IDLE" /\ player'.state = "IDLE" =>
                      /\ pc.read = "idle" /\ queue["read"] = <<>>
                      /\ pc.video = "idle" /\ queue["video"] = <<>>
<1>1. SessionInv /\ [Next]_vars => [Alone]_vars
  BY OnlyAbortCloses, ClosingFacts DEF Stopped, Empty
<1> QED BY <1>1, SessionInvariant, PTL DEF Spec, CloseAlone
=============================================================================
