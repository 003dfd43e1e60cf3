----------------------------- MODULE VidSession -----------------------------
(***************************************************************************)
(* One playback session: the five worker threads of the player and the     *)
(* user thread that commands them (vid_decode.c, vid_worker.c, vid_input.c,*)
(* vid_seek_engine.c, vid_panel.c).                                        *)
(*                                                                         *)
(*   user    --commands-->  decode  --requests-->  read, video, convert,   *)
(*                            ^                    audio                   *)
(*                            +------- notices ------+                     *)
(*                                                                         *)
(* Only the decode thread writes player.state; everybody reads it, at any  *)
(* moment and without a lock.  The queues are those of UtilQueue.          *)
(*                                                                         *)
(* Left open, as a choice in the action: the time a call takes, whether a  *)
(* file is still pending when PLAY is taken, whether a packet is audio or  *)
(* video, whether the seek target has been passed, how full the speaker    *)
(* and the raw-image buffers are, and free memory.                         *)
(***************************************************************************)
EXTENDS Naturals, Sequences, FiniteSets, TLC

CONSTANTS Files,               \* the kinds of file played: [video, audio]
          MaxPackets,          \* DEF_DECODER_MAX_CACHE_PACKETS
          FileLength,          \* packets from a seek target to the end of file
          AudioQueueSize,      \* items of audio_decode_thread_command_queue
          ReadsTimeOut,        \* whether a read can exceed its time limit
          UserActs,            \* what the user does
          MaxUserActs,         \* bound: how often
          MaxRepeats           \* bound: how often a queue holds a message the code
                               \* repeats at every turn of a loop

ASSUME FilesAssumption ==
         /\ Files \subseteq [video: BOOLEAN, audio: BOOLEAN]
         /\ \A f \in Files : f.video \/ f.audio
ASSUME SizesAssumption == /\ MaxPackets \in Nat \ {0, 1}
                          /\ FileLength \in Nat \ {0}
                          /\ AudioQueueSize \in Nat \ {0}
                          /\ ReadsTimeOut \in BOOLEAN
                          /\ MaxUserActs \in Nat
                          /\ MaxRepeats \in Nat \ {0}
ASSUME ActsAssumption ==
         UserActs \subseteq {"open", "toggle", "seek", "abort"}

VARIABLES player,   \* the fields of vid_player and the decode thread's flags
          queue,    \* the six queues
          pc,       \* where each thread is
          demux,    \* the packet cache and what is left to read
          user      \* what the user thread is about to post

vars == <<player, queue, pc, demux, user>>

States == {"IDLE", "PLAYING", "PAUSE", "BUFFERING", "PREPARE_SEEKING", "SEEKING"}
Active == {"PLAYING", "PAUSE", "BUFFERING", "SEEKING"}
AbortPoints == {"abortRead", "abortConvert", "abortVideo", "abortAudio"}
Queues == {"command", "notice", "read", "video", "convert", "audio"}

Holds(qs, q, m) == \E i \in DOMAIN qs[q] : qs[q][i] = m
Queued(q, m) == Holds(queue, q, m)
Count(q, m) == Cardinality({i \in DOMAIN queue[q] : queue[q][i] = m})

\* Util_queue_add with its options; the 200-item queues never fill here.
Add(qs, q, m) == [qs EXCEPT ![q] = Append(@, m)]
AddFront(qs, q, m) == [qs EXCEPT ![q] = <<m>> \o @]
AddOnce(qs, q, m) == IF Holds(qs, q, m) THEN qs ELSE Add(qs, q, m)
AddFrontOnce(qs, q, m) == IF Holds(qs, q, m) THEN qs ELSE AddFront(qs, q, m)
Pop(qs, q) == [qs EXCEPT ![q] = Tail(@)]
Flush(qs, q) == [qs EXCEPT ![q] = <<>>]

\* Mutant of AudioFull: one message too many.
AudioFullLate == Len(queue["audio"]) > AudioQueueSize

\* The audio queue can be full: the add then gives up after 100 ms.
AudioFull == Len(queue["audio"]) >= AudioQueueSize
AddAudio(qs, m) == IF AudioFull THEN qs ELSE Add(qs, "audio", m)
AddAudioFront(qs, m) == IF AudioFull THEN qs ELSE AddFront(qs, "audio", m)

NextIs(q, m) == queue[q] /= <<>> /\ Head(queue[q]) = m

Init ==
  /\ player = [state |-> "IDLE", resumeLater |-> FALSE, postSeek |-> FALSE,
               userPaused |-> TRUE, eof |-> FALSE, held |-> FALSE,
               readActive |-> FALSE, waiting |-> FALSE, deferred |-> FALSE,
               notStarted |-> TRUE, video |-> FALSE, audio |-> FALSE]
  /\ queue = [q \in Queues |-> <<>>]
  /\ pc = [decode |-> "command", next |-> "command", read |-> "idle",
           video |-> "idle", convert |-> "idle", audio |-> "idle",
           converting |-> FALSE]
  /\ demux = [packets |-> 0, unread |-> 0]
  /\ user = [intent |-> "none", left |-> MaxUserActs]

-----------------------------------------------------------------------------
(* The user thread: it reads the state, decides, and only then posts.      *)

Decide(act, message) ==
  /\ act \in UserActs
  /\ user.intent = "none" /\ user.left > 0
  /\ user' = [user EXCEPT !.intent = message, !.left = @ - 1]
  /\ UNCHANGED <<queue, pc, demux>>

\* panel_open_file: the file waits in play_request_pending.
UserOpen == /\ Decide("open", "PLAY")
            /\ player' = [player EXCEPT !.userPaused = FALSE, !.notStarted = TRUE]

UserAbort == Decide("abort", "ABORT") /\ UNCHANGED player

\* VID_CMD_TOGGLE_PLAY: a session that will resume by itself is paused.
UserToggle ==
  \/ /\ \/ player.state = "PLAYING"
        \/ player.resumeLater /\ player.state \in {"BUFFERING", "PREPARE_SEEKING", "SEEKING"}
     /\ Decide("toggle", "PAUSE")
     /\ player' = [player EXCEPT !.userPaused = TRUE]
  \/ /\ \/ player.state = "PAUSE"
        \/ ~player.resumeLater /\ player.state \in {"BUFFERING", "PREPARE_SEEKING", "SEEKING"}
     /\ Decide("toggle", "RESUME")
     /\ player' = [player EXCEPT !.userPaused = FALSE]
  \/ \* An abort clears file.name, so that in IDLE there is one only while
     \* the decode thread is about to leave it (vid_decode.c:240, 262).
     /\ player.state = "IDLE" /\ pc.decode = "command" /\ NextIs("command", "PLAY")
     /\ Decide("toggle", "REPLAY")
     /\ player' = [player EXCEPT !.userPaused = FALSE, !.notStarted = TRUE]

\* seek_engine_submit: while a wave runs the seek is only deferred.
UserSeek ==
  /\ player.state /= "IDLE" /\ ~player.notStarted
  /\ IF player.state \in {"PREPARE_SEEKING", "SEEKING"}
     THEN Decide("seek", "DEFER") ELSE Decide("seek", "SEEK")
  /\ UNCHANGED player

UserPost ==
  /\ user.intent /= "none"
  /\ user' = [user EXCEPT !.intent = "none"]
  /\ queue' = CASE user.intent \in {"PLAY", "SEEK"} ->
                     AddFrontOnce(queue, "command", user.intent)
                [] user.intent \in {"PAUSE", "RESUME"} ->
                     AddOnce(queue, "command", user.intent)
                [] user.intent = "REPLAY" -> AddOnce(queue, "command", "PLAY")
                [] user.intent = "ABORT" -> AddFront(queue, "command", "ABORT")
                [] OTHER -> queue
  /\ player' = IF user.intent = "DEFER" THEN [player EXCEPT !.deferred = TRUE] ELSE player
  /\ UNCHANGED <<pc, demux>>

User == UserOpen \/ UserAbort \/ UserToggle \/ UserSeek \/ UserPost

-----------------------------------------------------------------------------
(* The decode thread.  Each turn of its loop pops one command, may post a  *)
(* deferred seek, pops one notice, and feeds one packet.                   *)

GoDecode(point) == pc' = [pc EXCEPT !.decode = point]

\* Where a turn goes on once the notice is handled.
FeedPoint(p) == IF p.state \in Active THEN "feed" ELSE "command"

\* vid_decode_finish_seek_wave_try_deferred, then on to the given point; only
\* the 100 ms since the wave began can keep a deferred seek waiting.
CallRequeue(point) == pc' = [pc EXCEPT !.decode = "requeue", !.next = point]

Requeue ==
  /\ pc.decode = "requeue"
  /\ \/ UNCHANGED <<player, queue>>
     \/ /\ player.deferred /\ ~player.notStarted
        /\ queue' = AddFrontOnce(queue, "command", "SEEK")
        /\ player' = [player EXCEPT !.deferred = FALSE]
  /\ GoDecode(pc.next)
  /\ UNCHANGED <<demux, user>>

NoCommand ==
  /\ pc.decode = "command" /\ queue["command"] = <<>>
  /\ CallRequeue("notice")
  /\ UNCHANGED <<player, queue, demux, user>>

TakeCommand(m) == pc.decode = "command" /\ NextIs("command", m)

\* A command that only changes player fields, or is ignored.
PlainCommand(m, p) == /\ TakeCommand(m)
                      /\ player' = p
                      /\ queue' = Pop(queue, "command")
                      /\ CallRequeue("notice")
                      /\ UNCHANGED <<demux, user>>

\* Mutant of Opened: is_waiting_video_decoder is not reset.
OpenedWaiting == [player EXCEPT !.state = "PLAYING", !.userPaused = FALSE,
                    !.resumeLater = FALSE, !.postSeek = FALSE, !.eof = FALSE,
                    !.held = FALSE, !.readActive = FALSE]

\* DECODE_THREAD_PLAY_REQUEST without a file: another PLAY has taken the pending
\* one, and in IDLE an abort has cleared the name of the last (735, 838).
PlayIgnored == PlainCommand("PLAY", player)

\* DECODE_THREAD_PLAY_REQUEST in IDLE: open the file and start the workers.  One
\* step: the state is PLAYING before the file is open (262), but no worker has
\* anything to do until the end of it.
Opened == [player EXCEPT !.state = "PLAYING", !.userPaused = FALSE,
             !.resumeLater = FALSE, !.postSeek = FALSE, !.eof = FALSE,
             !.held = FALSE, !.readActive = FALSE, !.waiting = FALSE]

PlayStart ==
  /\ TakeCommand("PLAY") /\ player.state = "IDLE"
  /\ \E f \in Files :
       player' = [Opened EXCEPT !.notStarted = FALSE, !.readActive = TRUE,
                                !.video = f.video, !.audio = f.audio]
  /\ queue' = Add(Add(Pop(queue, "command"), "read", "READ"), "convert", "CONVERT")
  /\ demux' = [packets |-> 0, unread |-> FileLength]
  /\ CallRequeue("notice")
  /\ UNCHANGED user

\* The file cannot be opened, or not all of its tracks: the session aborts
\* itself ("goto error").
PlayFail ==
  /\ TakeCommand("PLAY") /\ player.state = "IDLE"
  /\ \E f \in Files \cup {[video |-> FALSE, audio |-> FALSE]} :
       player' = [Opened EXCEPT !.video = f.video, !.audio = f.audio]
  /\ queue' = AddFront(Pop(queue, "command"), "command", "ABORT")
  /\ UNCHANGED <<pc, demux, user>>

\* A file is playing: abort it, then play the new one.
PlaySwitch ==
  /\ TakeCommand("PLAY") /\ player.state /= "IDLE"
  /\ player' = [player EXCEPT !.notStarted = TRUE]
  /\ queue' = Add(Add(Pop(queue, "command"), "command", "ABORT"), "command", "PLAY")
  /\ CallRequeue("notice")
  /\ UNCHANGED <<demux, user>>

Pause == PlainCommand("PAUSE",
           CASE player.state = "PLAYING" -> [player EXCEPT !.state = "PAUSE"]
             [] player.state \in {"IDLE", "PAUSE"} -> player
             [] OTHER -> [player EXCEPT !.resumeLater = FALSE])

Resume == PlainCommand("RESUME",
            CASE player.state = "PAUSE" -> [player EXCEPT !.state = "PLAYING"]
              [] player.state \in {"IDLE", "PLAYING"} -> player
              [] OTHER -> [player EXCEPT !.resumeLater = TRUE])

\* A seek is ignored in IDLE and deferred while a wave runs ...
SeekLater ==
  \/ PlainCommand("SEEK", player) /\ player.state = "IDLE"
  \/ /\ PlainCommand("SEEK", [player EXCEPT !.deferred = TRUE])
     /\ player.state \in {"PREPARE_SEEKING", "SEEKING"}

\* ... and otherwise begins one; decode_thread_issue_demux_seek.
SeekStart ==
  /\ TakeCommand("SEEK")
  /\ player.state \in {"PLAYING", "PAUSE", "BUFFERING"}
  /\ player' = [player EXCEPT
       !.state = "PREPARE_SEEKING", !.eof = FALSE, !.held = FALSE,
       !.waiting = FALSE, !.deferred = FALSE,
       !.postSeek = IF player.state = "BUFFERING" THEN FALSE ELSE @,
       !.resumeLater = CASE player.state = "PLAYING" -> TRUE
                         [] player.state = "PAUSE" -> FALSE
                         [] OTHER -> @]
  /\ LET popped == Pop(queue, "command")
         drained == IF player.audio THEN AddAudioFront(popped, "SEEK") ELSE popped
     IN queue' = AddOnce(drained, "read", "SEEK")
  /\ CallRequeue("notice")
  /\ UNCHANGED <<demux, user>>

\* Mutant of PlayNext: sub_state is kept.
PlayNextKeepsFlags ==
  PlainCommand("PLAY_NEXT",
    IF player.state = "IDLE" THEN player
    ELSE [player EXCEPT !.state = "PAUSE", !.userPaused = TRUE, !.held = TRUE,
                        !.deferred = FALSE])

\* The end of the file: the session is held so that the user can still seek.
PlayNext ==
  \/ PlainCommand("PLAY_NEXT", player) /\ player.state = "IDLE"
  \/ /\ PlainCommand("PLAY_NEXT",
          [player EXCEPT !.state = "PAUSE", !.userPaused = TRUE, !.held = TRUE,
                         !.resumeLater = FALSE, !.postSeek = FALSE, !.deferred = FALSE])
     /\ player.state /= "IDLE"

-----------------------------------------------------------------------------
(* DECODE_THREAD_ABORT_REQUEST: stop the workers one after the other, each *)
(* time throwing away every notice but the one waited for.                 *)

Closed == [player EXCEPT !.state = "IDLE", !.userPaused = TRUE, !.held = FALSE,
             !.resumeLater = FALSE, !.postSeek = FALSE, !.deferred = FALSE,
             !.video = FALSE, !.audio = FALSE]

AbortIdle == PlainCommand("ABORT", Closed) /\ player.state = "IDLE"

AbortStart ==
  /\ TakeCommand("ABORT") /\ player.state /= "IDLE"
  /\ queue' = Add(Pop(queue, "command"), "read", "ABORT")
  /\ GoDecode("abortRead")
  /\ UNCHANGED <<player, demux, user>>

AbortDiscard ==
  /\ pc.decode \in AbortPoints
  /\ queue["notice"] /= <<>>
  /\ Head(queue["notice"]) /= pc.decode
  /\ queue' = Pop(queue, "notice")
  /\ UNCHANGED <<player, pc, demux, user>>

Aborted(point) == pc.decode = point /\ NextIs("notice", point)

\* Mutant of AbortNext: the worker asked before is not waited for.
AbortNextEarly(point, worker, next) ==
  /\ pc.decode = point
  /\ queue' = Add(queue, worker, "ABORT")
  /\ GoDecode(next)
  /\ UNCHANGED <<player, demux, user>>

AbortNext(point, worker, next) ==
  /\ Aborted(point)
  /\ queue' = Add(Pop(queue, "notice"), worker, "ABORT")
  /\ GoDecode(next)
  /\ UNCHANGED <<player, demux, user>>

\* The audio thread is asked last, and only when the file has audio.
AbortAskAudio ==
  /\ Aborted("abortVideo") /\ player.audio
  /\ queue' = AddAudioFront(Pop(queue, "notice"), "ABORT")
  /\ GoDecode("abortAudio")
  /\ UNCHANGED <<player, demux, user>>

\* All have answered: the decoder is closed and the session is over.
AbortClose ==
  /\ \/ Aborted("abortVideo") /\ ~player.audio
     \/ Aborted("abortAudio")
  /\ player' = Closed
  /\ queue' = Pop(queue, "notice")
  /\ demux' = [packets |-> 0, unread |-> 0]
  /\ CallRequeue("notice")
  /\ UNCHANGED user

Abort == \/ AbortIdle \/ AbortStart \/ AbortDiscard
         \/ AbortNext("abortRead", "convert", "abortConvert")
         \/ AbortNext("abortConvert", "video", "abortVideo")
         \/ AbortAskAudio \/ AbortClose

-----------------------------------------------------------------------------
(* Notices.                                                                *)

NoNotice ==
  /\ pc.decode = "notice" /\ queue["notice"] = <<>>
  /\ GoDecode(FeedPoint(player))
  /\ UNCHANGED <<player, queue, demux, user>>

Notice(m, p) == /\ pc.decode = "notice" /\ NextIs("notice", m)
                /\ player' = p
                /\ UNCHANGED <<demux, user>>

PlainNotice(m, p) == /\ Notice(m, p)
                     /\ queue' = Pop(queue, "notice")
                     /\ GoDecode(FeedPoint(p))

ReadNotice ==
  \/ PlainNotice("READ_DONE", [player EXCEPT !.readActive = FALSE])
  \/ PlainNotice("READ_EOF", [player EXCEPT !.readActive = FALSE, !.eof = TRUE])

CopiedNotice == PlainNotice("COPIED", [player EXCEPT !.waiting = FALSE])

\* FINISHED_SEEKING: with video, the frame caches are emptied first.
SeekedNotice ==
  \/ /\ player.state /= "PREPARE_SEEKING"
     /\ PlainNotice("SEEKED", player)
  \/ /\ player.state = "PREPARE_SEEKING" /\ ~player.video
     /\ PlainNotice("SEEKED", [player EXCEPT !.state = "SEEKING"])
  \/ /\ player.state = "PREPARE_SEEKING" /\ player.video
     /\ Notice("SEEKED", player)
     /\ queue' = AddOnce(Pop(queue, "notice"), "video", "CLEAR")
     /\ GoDecode("command")

\* FINISHED_CLEARING_CACHE: the decoder is closed, reopened and seeked.
ClearedNotice ==
  \/ /\ player.state /= "PREPARE_SEEKING"
     /\ PlainNotice("CLEARED", player)
  \/ /\ player.state = "PREPARE_SEEKING"
     /\ Notice("CLEARED", player)
     /\ queue' = Pop(queue, "notice")
     /\ GoDecode("reopening")

Reopen ==
  /\ pc.decode = "reopening"
  /\ demux' = [packets |-> 0, unread |-> FileLength]
  /\ player' = [player EXCEPT !.state = "SEEKING"]
  /\ GoDecode("feed")
  /\ UNCHANGED <<queue, user>>

\* The state a wait (buffering, or an audio-only seek wave) ends in.
Resumed(p) == [p EXCEPT !.resumeLater = FALSE,
                 !.state = IF p.resumeLater /\ ~p.userPaused THEN "PLAYING" ELSE "PAUSE"]

BufferedNotice ==
  \/ /\ player.state /= "BUFFERING"
     /\ PlainNotice("BUFFERED", player)
  \/ /\ player.state = "BUFFERING"
     /\ Notice("BUFFERED", Resumed([player EXCEPT !.postSeek = FALSE]))
     /\ queue' = Pop(queue, "notice")
     /\ CallRequeue("feed")

OutOfBufferNotice ==
  PlainNotice("STARVED",
    IF \/ player.state \notin {"PLAYING", "PAUSE"}
       \/ player.eof /\ demux.packets = 0
    THEN player
    ELSE [player EXCEPT !.resumeLater = (player.state = "PLAYING"), !.state = "BUFFERING"])

HandleNotice == \/ NoNotice \/ ReadNotice \/ CopiedNotice \/ SeekedNotice
                \/ ClearedNotice \/ Reopen \/ BufferedNotice \/ OutOfBufferNotice

-----------------------------------------------------------------------------
(* Feeding packets to the decoders.                                        *)

\* vid_decode_seek_wave_complete.
WaveDone(p) == IF p.video THEN [p EXCEPT !.state = "BUFFERING", !.postSeek = TRUE]
                           ELSE Resumed(p)

\* Mutant of WallTimeout: there is none.
NoWallTimeout == FALSE

\* VID_SEEK_WALL_TIMEOUT_MS has passed since SEEKING began.
WallTimeout ==
  /\ pc.decode = "feed" /\ player.state = "SEEKING"
  /\ player' = WaveDone(player)
  /\ IF player.video THEN UNCHANGED pc ELSE CallRequeue("feed")
  /\ UNCHANGED <<queue, demux, user>>

NeedsPackets == /\ demux.packets < MaxPackets \div 2
                /\ ~player.readActive /\ ~player.eof
                /\ ~(player.held /\ player.state = "PAUSE")

Exhausted == demux.packets = 0 /\ player.eof

RequestRead == /\ player' = [player EXCEPT !.readActive = @ \/ NeedsPackets]
               /\ UNCHANGED <<demux, user>>
Requested == IF NeedsPackets THEN Add(queue, "read", "READ") ELSE queue

\* Both are added again at every turn, without QUEUE_OPTION_DO_NOT_ADD_IF_EXIST.
AddRepeated(qs, q, m) == IF Count(q, m) < MaxRepeats THEN Add(qs, q, m) ELSE qs
AddBuffered(qs) == AddRepeated(qs, "notice", "BUFFERED")
AddPlayNext(qs) == AddRepeated(qs, "command", "PLAY_NEXT")

\* Nothing is left: end the buffering, or the file once all was played.
FeedEnd ==
  /\ pc.decode = "feed" /\ Exhausted
  /\ RequestRead
  /\ \/ /\ player.state = "BUFFERING"
        /\ queue' = AddBuffered(Requested)
     \/ /\ player.state /= "BUFFERING" /\ ~player.held
        /\ queue' = AddPlayNext(Requested)
     \/ /\ player.state /= "BUFFERING"
        /\ queue' = Requested
  /\ GoDecode("command")

\* No packet now: the video thread has not taken the last one, the cache is
\* empty or its packet refused, or frames fill their buffers or the memory.
FeedWait ==
  /\ pc.decode = "feed" /\ ~Exhausted
  /\ RequestRead
  /\ \/ queue' = Requested
     \/ /\ player.video /\ ~player.waiting /\ player.state = "BUFFERING"
        /\ queue' = AddBuffered(Requested)
  /\ GoDecode("command")

\* A packet leaves the cache.  It may be the one that ends a seek wave.
FeedPacket ==
  /\ pc.decode = "feed" /\ ~player.waiting /\ demux.packets > 0
  /\ LET asked == [player EXCEPT !.readActive = @ \/ NeedsPackets]
     IN \/ player' = asked /\ GoDecode("packet")
        \/ /\ player.state = "SEEKING"
           /\ player' = WaveDone(asked)
           /\ IF player.video THEN GoDecode("packet") ELSE CallRequeue("packet")
  /\ queue' = Requested
  /\ demux' = [demux EXCEPT !.packets = @ - 1]
  /\ UNCHANGED user

\* An audio packet is decoded here and handed over, unless a seek is under way.
AudioPacket ==
  /\ pc.decode = "packet" /\ player.audio
  /\ queue' = IF player.state /= "SEEKING" THEN AddAudio(queue, "DECODE") ELSE queue
  /\ GoDecode("command")
  /\ UNCHANGED <<player, demux, user>>

\* The decoder has room for one video packet: feeding stops until the video
\* thread has taken it.
VideoPacket ==
  /\ pc.decode = "packet" /\ player.video
  /\ player' = [player EXCEPT !.waiting = TRUE]
  /\ queue' = Add(queue, "video", "DECODE")
  /\ GoDecode("command")
  /\ UNCHANGED <<demux, user>>

\* A packet of another track, or one that cannot be decoded, is dropped.
SkipPacket ==
  /\ pc.decode = "packet"
  /\ GoDecode("command")
  /\ UNCHANGED <<player, queue, demux, user>>

Feed == FeedEnd \/ FeedWait \/ FeedPacket
        \/ AudioPacket \/ VideoPacket \/ SkipPacket

Decode == \/ NoCommand \/ PlayIgnored \/ PlayStart \/ PlayFail \/ PlaySwitch
          \/ Pause \/ Resume \/ SeekLater \/ SeekStart \/ PlayNext \/ Abort \/ Requeue
          \/ HandleNotice \/ WallTimeout \/ Feed

-----------------------------------------------------------------------------
(* What the four workers have in common: each pops one request of its own   *)
(* queue at a time.                                                        *)

Took(q, m) == pc[q] = "idle" /\ NextIs(q, m)
Goes(q, point) == pc' = [pc EXCEPT ![q] = point]

\* In IDLE the request is dropped.
Begin(q, m, point) == /\ Took(q, m)
                      /\ queue' = Pop(queue, q)
                      /\ Goes(q, IF player.state = "IDLE" THEN "idle" ELSE point)
                      /\ UNCHANGED <<player, demux, user>>

\* An abort empties the queue of the worker, then answers.
AnswerAbort(q, answer) == /\ Took(q, "ABORT")
                          /\ queue' = Add(Flush(queue, q), "notice", answer)
                          /\ UNCHANGED <<player, demux, user>>

-----------------------------------------------------------------------------
(* The read thread fills the packet cache, and moves in the file.          *)

Interrupted == Queued("read", "SEEK") \/ Queued("read", "ABORT")
Full(packets) == packets + 1 >= MaxPackets

ReadEnds(notice) == queue' = Add(queue, "notice", notice) /\ Goes("read", "idle")

\* One packet more, unless the cache has no room (the thread then tries again
\* 4 ms later): that comes to an end when something else is to be done.  The
\* exit for other errors (1485-1493) needs a closed file, and none is closed
\* under a read (CloseAlone).
ReadPacket ==
  /\ pc.read = "reading" /\ (demux.unread > 0 \/ Full(demux.packets))
  /\ demux' = IF Full(demux.packets) THEN demux
              ELSE [packets |-> demux.packets + 1, unread |-> demux.unread - 1]
  /\ IF (demux' /= demux /\ Full(demux'.packets)) \/ Interrupted
     THEN ReadEnds("READ_DONE") ELSE UNCHANGED <<queue, pc>>
  /\ UNCHANGED <<player, user>>

ReadFails == demux.unread = 0 \/ ReadsTimeOut \/ pc.decode = "abortRead"

\* Mutant of ReadEof: no notice when a seek or an abort is waiting.
ReadEofSilently ==
  /\ pc.read = "reading" /\ ~Full(demux.packets) /\ ReadFails
  /\ IF Interrupted THEN Goes("read", "idle") /\ UNCHANGED queue ELSE ReadEnds("READ_EOF")
  /\ UNCHANGED <<player, demux, user>>

\* The end of the file, and all else that makes a read fail: the time limit
\* DEF_DEMUX_READ_PACKET_INTERRUPT_MS, and request_io_abort.
ReadEof == /\ pc.read = "reading" /\ ~Full(demux.packets) /\ ReadFails
           /\ ReadEnds("READ_EOF")
           /\ UNCHANGED <<player, demux, user>>

SeekFile == /\ pc.read = "seeking"
            /\ demux' = [packets |-> 0, unread |-> FileLength]
            /\ queue' = Add(queue, "notice", "SEEKED")
            /\ Goes("read", "idle")
            /\ UNCHANGED <<player, user>>

Read == \/ Begin("read", "READ", "reading")
        \/ Begin("read", "SEEK", "seeking")
        \/ AnswerAbort("read", "abortRead") /\ UNCHANGED pc
        \/ ReadPacket \/ ReadEof \/ SeekFile

-----------------------------------------------------------------------------
(* The video thread decodes packets into raw images.                       *)

CopyPacket == /\ pc.video = "copying"
              /\ queue' = Add(queue, "notice", "COPIED")
              /\ Goes("video", "decoding")
              /\ UNCHANGED <<player, demux, user>>

DecodeFrame == /\ pc.video = "decoding"
               /\ Goes("video", "idle")
               /\ UNCHANGED <<player, queue, demux, user>>

\* Mutant of Hurried: an abort does not count.
HurriedByClear == Queued("video", "CLEAR")

Hurried == Queued("video", "CLEAR") \/ Queued("video", "ABORT")

\* With the raw images full it tries again, until told to do something else.
DecodeGivesUp == Hurried /\ DecodeFrame

\* Mutant of ForwardClear: the convert thread is not asked.
ForwardNothing == /\ pc.video = "clearing"
                  /\ Goes("video", "idle")
                  /\ UNCHANGED <<player, queue, demux, user>>

\* The frames inside the decoder are dropped; the convert thread goes on.
ForwardClear == /\ pc.video = "clearing"
                /\ queue' = Add(queue, "convert", "CLEAR")
                /\ Goes("video", "idle")
                /\ UNCHANGED <<player, demux, user>>

VideoPop == \/ Begin("video", "DECODE", "copying")
            \/ Begin("video", "CLEAR", "clearing")
            \/ AnswerAbort("video", "abortVideo") /\ UNCHANGED pc

Video == VideoPop \/ CopyPacket \/ DecodeFrame \/ DecodeGivesUp \/ ForwardClear

-----------------------------------------------------------------------------
(* The convert thread turns raw images into textures.  Each turn of its     *)
(* loop takes a request, if there is one, and then looks for work.         *)

ConvertIgnore(m) == /\ Took("convert", m)
                    /\ player.state = "IDLE" \/ ~player.video
                    /\ queue' = Pop(queue, "convert")
                    /\ Goes("convert", "look")
                    /\ UNCHANGED <<player, demux, user>>

ConvertStart == /\ Took("convert", "CONVERT") /\ player.state /= "IDLE" /\ player.video
                /\ queue' = Pop(queue, "convert")
                /\ pc' = [pc EXCEPT !.convert = "look", !.converting = TRUE]
                /\ UNCHANGED <<player, demux, user>>

ConvertAbort == /\ AnswerAbort("convert", "abortConvert")
                /\ pc' = [pc EXCEPT !.convert = "look", !.converting = FALSE]

ConvertNone == /\ pc.convert = "idle" /\ queue["convert"] = <<>> /\ pc.converting
               /\ Goes("convert", "look")
               /\ UNCHANGED <<player, queue, demux, user>>

ClearImages == /\ pc.convert = "clearing"
               /\ queue' = Add(queue, "notice", "CLEARED")
               /\ Goes("convert", "look")
               /\ UNCHANGED <<player, demux, user>>

\* The state is read once to go on, and again to choose what to do.
ConvertLook == /\ pc.convert = "look"
               /\ Goes("convert", IF pc.converting /\ player.state \in Active
                                  THEN "using" ELSE "idle")
               /\ UNCHANGED <<player, queue, demux, user>>

ConvertWork ==
  /\ pc.convert = "using"
  /\ \/ UNCHANGED queue
     \/ /\ player.state \in {"PLAYING", "SEEKING"} /\ player.audio /\ ~player.eof
        /\ queue' = AddOnce(queue, "notice", "STARVED")
  /\ Goes("convert", "idle")
  /\ UNCHANGED <<player, demux, user>>

\* While buffering: enough raw images, or the speaker is full.
ConvertBuffered == /\ pc.convert = "using" /\ player.state = "BUFFERING"
                   /\ queue' = AddBuffered(queue)
                   /\ Goes("convert", "idle")
                   /\ UNCHANGED <<player, demux, user>>

Convert == \/ ConvertIgnore("CONVERT") \/ ConvertStart
           \/ ConvertIgnore("CLEAR")
           \/ player.video /\ Begin("convert", "CLEAR", "clearing")
           \/ ConvertAbort \/ ConvertNone
           \/ ClearImages \/ ConvertLook \/ ConvertWork \/ ConvertBuffered

-----------------------------------------------------------------------------
(* The audio thread feeds the speaker; a seek or an abort drains its queue,*)
(* one message at a time, whatever the messages are.                       *)

AudioBegin(m, point) == /\ Took("audio", m)
                        /\ queue' = Pop(queue, "audio")
                        /\ Goes("audio", point)
                        /\ UNCHANGED <<player, demux, user>>

Drains == {"drainSeek", "drainAbort"}

PlayAudio == /\ pc.audio = "playing"
             /\ Goes("audio", "idle")
             /\ UNCHANGED <<player, queue, demux, user>>

AudioDrain == /\ pc.audio \in Drains /\ queue["audio"] /= <<>>
              /\ queue' = Pop(queue, "audio")
              /\ UNCHANGED <<player, pc, demux, user>>

AudioDrained ==
  /\ pc.audio \in Drains /\ queue["audio"] = <<>>
  /\ queue' = IF pc.audio = "drainAbort" THEN Add(queue, "notice", "abortAudio") ELSE queue
  /\ Goes("audio", "idle")
  /\ UNCHANGED <<player, demux, user>>

Audio == \/ AudioBegin("DECODE", "playing") \/ AudioBegin("SEEK", "drainSeek")
         \/ AudioBegin("ABORT", "drainAbort")
         \/ PlayAudio \/ AudioDrain \/ AudioDrained

-----------------------------------------------------------------------------

Next == User \/ Decode \/ Read \/ Video \/ Convert \/ Audio

Spec == Init /\ [][Next]_vars

\* Every thread gets processor time.  A frame is sure to be decoded only when
\* a clear or an abort cuts the wait short, since the images may stay full.
\* SEEKING cannot last: VID_SEEK_WALL_TIMEOUT_MS passes while the decode thread
\* comes round again and again.  The user promises nothing.
VideoGoesOn == VideoPop \/ CopyPacket \/ DecodeGivesUp \/ ForwardClear

FairSpec == /\ Spec
            /\ WF_vars(Decode) /\ WF_vars(Read) /\ WF_vars(VideoGoesOn)
            /\ WF_vars(Convert) /\ WF_vars(Audio)
            /\ SF_vars(WallTimeout)

-----------------------------------------------------------------------------
(* Properties.                                                             *)

PlayerType == [state: States, resumeLater: BOOLEAN, postSeek: BOOLEAN,
               userPaused: BOOLEAN, eof: BOOLEAN, held: BOOLEAN,
               readActive: BOOLEAN, waiting: BOOLEAN, deferred: BOOLEAN,
               notStarted: BOOLEAN, video: BOOLEAN, audio: BOOLEAN]

PcType == [decode: AbortPoints \cup {"command", "requeue", "notice", "reopening",
                                     "feed", "packet"},
           next: {"command", "notice", "feed", "packet"},
           read: {"idle", "reading", "seeking"},
           video: {"idle", "copying", "decoding", "clearing"},
           convert: {"idle", "look", "using", "clearing"},
           audio: {"idle", "playing"} \cup Drains,
           converting: BOOLEAN]

TypeOK ==
  /\ player \in PlayerType
  /\ DOMAIN queue = Queues
  /\ Len(queue["audio"]) <= AudioQueueSize
  /\ pc \in PcType
  /\ demux.packets \in 0..(MaxPackets - 1) /\ demux.unread \in 0..FileLength
  /\ user.left \in 0..MaxUserActs

\* is_read_packet_thread_active stops further read requests, so while it is set
\* something must be on its way to clear it: a request, the reader at work, or
\* its notice.  Otherwise the cache is never filled again.
ReadHasCause ==
  player.readActive /\ player.state /= "IDLE" /\ pc.decode \notin AbortPoints =>
    \/ Queued("read", "READ") \/ pc.read = "reading"
    \/ Queued("notice", "READ_DONE") \/ Queued("notice", "READ_EOF")

\* is_waiting_video_decoder stops all feeding, so while it is set a packet is
\* on its way through the video thread or its notice is queued.
WaitingHasCause ==
  player.waiting /\ player.state /= "IDLE" /\ pc.decode \notin AbortPoints =>
    \/ Queued("video", "DECODE") \/ pc.video = "copying" \/ Queued("notice", "COPIED")

\* A seek wave that has left the decode thread is somewhere: a player that is
\* PREPARE_SEEKING with no request or notice under way would be stuck there.
WaveInFlight ==
  player.state = "PREPARE_SEEKING" /\ pc.decode \notin AbortPoints \cup {"reopening"} =>
    \/ Queued("read", "SEEK") \/ pc.read = "seeking" \/ Queued("notice", "SEEKED")
    \/ Queued("video", "CLEAR") \/ pc.video = "clearing"
    \/ Queued("convert", "CLEAR") \/ pc.convert = "clearing" \/ Queued("notice", "CLEARED")

\* The seek bar, the toggle key and the notices read RESUME_LATER and
\* POST_SEEK_BUFFERING as "this wait will end in playback" and "this buffering
\* follows a seek": neither flag outlives the wait it was set for, however
\* commands, notices, the end of the file and aborts interleave.
FlagsMatchState ==
  /\ player.resumeLater => player.state \in {"BUFFERING", "PREPARE_SEEKING", "SEEKING"}
  /\ player.postSeek => player.state = "BUFFERING"

\* The file is closed by an abort only when the read and video threads are
\* outside the decoder and have nothing queued that would take them back in.
CloseAlone ==
  [][player.state /= "IDLE" /\ player'.state = "IDLE" =>
       /\ pc.read = "idle" /\ queue["read"] = <<>>
       /\ pc.video = "idle" /\ queue["video"] = <<>>]_vars

\* toposcorenote.md:614 has all other threads stopped when an abort closes.
AbortStopsAll ==
  [][player.state /= "IDLE" /\ player'.state = "IDLE" =>
       pc.convert \notin {"using", "clearing"} /\ queue["convert"] = <<>>]_vars

\* vid_decode.c:1008: "All threads have stopped using the decoder".
ReopenAlone ==
  pc.decode = "reopening" => /\ pc.read = "idle"
                            /\ pc.video = "idle"
                            /\ pc.convert \notin {"using", "clearing"}

\* vid_decode.c:1175 "We consumed all of packets.", 1205 "We've finished
\* playing.": the end is announced only when the file has been read to its end.
FinishedMeansConsumed ==
  [][Queued("command", "PLAY_NEXT")' /\ ~Queued("command", "PLAY_NEXT") =>
       demux.packets = 0 /\ demux.unread = 0]_vars

\* An abort comes to an end, whatever the workers were doing.
AbortEnds == (pc.decode = "abortRead") ~> (player.state = "IDLE")

\* A seek does not leave the player seeking for ever.
WaveEnds == (player.state \in {"PREPARE_SEEKING", "SEEKING"})
              ~> (player.state \notin {"PREPARE_SEEKING", "SEEKING"})
=============================================================================
