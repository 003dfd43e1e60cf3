----------------------------- MODULE SeekEngine -----------------------------
(***************************************************************************)
(* How a seek is handed over from the user thread to the decode thread     *)
(* (vid_seek_engine.c, vid_decode.c), one shared access after the other.   *)
(*                                                                         *)
(* The two threads share seek_pos, seek_queued_pos_ms, seek_demux_target_ms*)
(* and seek_request_deferred with no lock; only the command queue has one. *)
(*   user:    seek_pos; player idle or playing -> queued, SEEK             *)
(*                      a wave under way       -> deferred                 *)
(*   decode:  SEEK -> a wave: state, deferred off, target := queued        *)
(*            deferred, 100 ms after the wave began -> queued, SEEK        *)
(*                                                                         *)
(* VidSession has the same wave with all its threads, each of these steps  *)
(* being one action there.  Here positions are numbered by the commit that *)
(* chose them, PAUSE counts as PLAYING, and the session stays open.        *)
(***************************************************************************)
EXTENDS Naturals, Sequences, FiniteSets

CONSTANTS Films,       \* the kinds of film: has it a picture?
          MaxSeeks,    \* bound: how often the user commits a seek
          MaxEnds      \* bound: PLAY_NEXT requests waiting at a time

ASSUME SeekAssumption == /\ Films \subseteq BOOLEAN
                         /\ MaxSeeks \in Nat
                         /\ MaxEnds \in Nat

VARIABLES player,    \* the fields of vid_player and of the decode thread
          commands,  \* decode_thread_command_queue
          notices,   \* decode_thread_notification_queue
          work,      \* requests the read and the video thread have to serve
          file,      \* the commit the file is positioned for
          user,      \* the user thread
          decode     \* the decode thread

vars == <<player, commands, notices, work, file, user, decode>>

Positions == 0..MaxSeeks
Busy == player.state \in {"PREPARE_SEEKING", "SEEKING"}
Has(q, m) == \E i \in DOMAIN q : q[i] = m
AddFrontOnce(q, m) == IF Has(q, m) THEN q ELSE <<m>> \o q

\* After PLAY_REQUEST has opened the file.
Init == \E picture \in Films :
  /\ player = [picture |-> picture, state |-> "PLAYING", post |-> FALSE,
               deferred |-> FALSE, due |-> TRUE, held |-> FALSE,
               seekPos |-> 0, queued |-> 0, target |-> 0]
  /\ commands = <<>> /\ notices = <<>> /\ work = {} /\ file = 0
  /\ user = [at |-> "idle", accepted |-> 0]
  /\ decode = [at |-> "command", back |-> "notice", loaded |-> 0]

-----------------------------------------------------------------------------
(* The user thread: a released seek bar or key, then seek_engine_submit.   *)

UserAt(p) == user' = [user EXCEPT !.at = p]

Commit == /\ user.at = "idle" /\ player.seekPos < MaxSeeks
          /\ player' = [player EXCEPT !.seekPos = @ + 1]
          /\ UserAt("submit")
          /\ UNCHANGED <<commands, notices, work, file, decode>>

Submit == /\ user.at = "submit"
          /\ user' = [at |-> IF Busy THEN "defer" ELSE "freeze",
                      accepted |-> player.seekPos]
          /\ UNCHANGED <<player, commands, notices, work, file, decode>>

Defer == /\ user.at = "defer"
         /\ player' = [player EXCEPT !.deferred = TRUE]
         /\ UserAt("idle")
         /\ UNCHANGED <<commands, notices, work, file, decode>>

Freeze == /\ user.at = "freeze"
          /\ player' = [player EXCEPT !.queued = player.seekPos]
          /\ UserAt("post")
          /\ UNCHANGED <<commands, notices, work, file, decode>>

\* A SEEK already queued counts as added: no rollback.
PostSeek == /\ user.at = "post"
            /\ commands' = AddFrontOnce(commands, "SEEK")
            /\ UserAt("idle")
            /\ UNCHANGED <<player, notices, work, file, decode>>

-----------------------------------------------------------------------------
(* The decode thread: a command, a deferred seek, a notice, then feeding.  *)

At(p) == decode' = [decode EXCEPT !.at = p]
TryDeferred(back) == decode' = [decode EXCEPT !.at = "deferred", !.back = back]

NextCommand(m) == /\ decode.at = "command" /\ commands /= <<>> /\ Head(commands) = m
                  /\ commands' = Tail(commands)

NoCommand == /\ decode.at = "command" /\ commands = <<>>
             /\ TryDeferred("notice")
             /\ UNCHANGED <<player, commands, notices, work, file, user>>

\* The buffering after a wave is cut short, with the newest position.
SeekAgain == /\ NextCommand("SEEK")
             /\ player.state = "BUFFERING" /\ player.post
             /\ player' = [player EXCEPT !.post = FALSE, !.queued = player.seekPos]
             /\ At("prepare")
             /\ UNCHANGED <<notices, work, file, user>>

SeekLater == /\ NextCommand("SEEK") /\ Busy
             /\ player' = [player EXCEPT !.deferred = TRUE]
             /\ TryDeferred("notice")
             /\ UNCHANGED <<notices, work, file, user>>

SeekNow == /\ NextCommand("SEEK") /\ ~Busy
           /\ ~(player.state = "BUFFERING" /\ player.post)
           /\ At("prepare")
           /\ UNCHANGED <<player, notices, work, file, user>>

Prepare == /\ decode.at = "prepare"
           /\ player' = [player EXCEPT !.state = "PREPARE_SEEKING", !.held = FALSE]
           /\ At("reset")
           /\ UNCHANGED <<commands, notices, work, file, user>>

Reset == /\ decode.at = "reset"
         /\ player' = [player EXCEPT !.deferred = FALSE, !.due = FALSE]
         /\ At("issue")
         /\ UNCHANGED <<commands, notices, work, file, user>>

\* decode_thread_issue_demux_seek
Issue == /\ decode.at = "issue"
         /\ player' = [player EXCEPT !.target = player.queued]
         /\ work' = work \cup {"SEEK"}
         /\ TryDeferred("notice")
         /\ UNCHANGED <<commands, notices, file, user>>

PlayNext == /\ NextCommand("PLAY_NEXT")
            /\ player' = [player EXCEPT !.state = "PLAYING", !.post = FALSE,
                                        !.held = TRUE]
            /\ At("forget")
            /\ UNCHANGED <<notices, work, file, user>>

Forget == /\ decode.at = "forget"
          /\ player' = [player EXCEPT !.deferred = FALSE, !.due = TRUE]
          /\ TryDeferred("notice")
          /\ UNCHANGED <<commands, notices, work, file, user>>

-----------------------------------------------------------------------------
(* vid_decode_finish_seek_wave_try_deferred: the newest position, once.    *)

NotDeferred == /\ decode.at = "deferred" /\ ~(player.deferred /\ player.due)
               /\ At(decode.back)
               /\ UNCHANGED <<player, commands, notices, work, file, user>>

LoadPosition == /\ decode.at = "deferred" /\ player.deferred /\ player.due
                /\ decode' = [decode EXCEPT !.at = "store", !.loaded = player.seekPos]
                /\ UNCHANGED <<player, commands, notices, work, file, user>>

StorePosition == /\ decode.at = "store"
                 /\ player' = [player EXCEPT !.queued = decode.loaded]
                 /\ At("post")
                 /\ UNCHANGED <<commands, notices, work, file, user>>

PostDeferred == /\ decode.at = "post"
                /\ commands' = AddFrontOnce(commands, "SEEK")
                /\ At("clear")
                /\ UNCHANGED <<player, notices, work, file, user>>

ClearDeferred == /\ decode.at = "clear"
                 /\ player' = [player EXCEPT !.deferred = FALSE]
                 /\ At(decode.back)
                 /\ UNCHANGED <<commands, notices, work, file, user>>

-----------------------------------------------------------------------------
(* Notices.                                                                *)

Notice(m) == /\ decode.at = "notice" /\ notices /= <<>> /\ Head(notices) = m
             /\ notices' = Tail(notices)

NoNotice == /\ decode.at = "notice" /\ notices = <<>>
            /\ At("feed")
            /\ UNCHANGED <<player, commands, notices, work, file, user>>

\* Mutant of Seeked: nobody is asked to clear the images of the old position.
SeekedForgetsImages ==
  /\ Notice("SEEKED")
  /\ player' = [player EXCEPT !.state = IF @ = "PREPARE_SEEKING" /\ ~player.picture
                                        THEN "SEEKING" ELSE @]
  /\ At("feed")
  /\ UNCHANGED <<commands, work, file, user>>

Seeked == /\ Notice("SEEKED")
          /\ player' = [player EXCEPT !.state = IF @ = "PREPARE_SEEKING" /\ ~player.picture
                                                THEN "SEEKING" ELSE @]
          /\ work' = IF player.state = "PREPARE_SEEKING" /\ player.picture
                     THEN work \cup {"CLEAR"} ELSE work
          /\ At("feed")
          /\ UNCHANGED <<commands, file, user>>

\* Mutant of Cleared: the file is opened again, at its start.
ClearedAtStart == /\ Notice("CLEARED")
                  /\ IF player.state = "PREPARE_SEEKING"
                     THEN /\ file' = 0
                          /\ player' = [player EXCEPT !.state = "SEEKING"]
                     ELSE UNCHANGED <<file, player>>
                  /\ At("feed")
                  /\ UNCHANGED <<commands, work, user>>

\* The file is opened again and positioned once more.
Cleared == /\ Notice("CLEARED")
           /\ IF player.state = "PREPARE_SEEKING"
              THEN /\ file' = player.target
                   /\ player' = [player EXCEPT !.state = "SEEKING"]
              ELSE UNCHANGED <<file, player>>
           /\ At("feed")
           /\ UNCHANGED <<commands, work, user>>

\* Mutant of Buffered: the mark of a finished wave stays.
BufferedStaysPost ==
  /\ Notice("BUFFERED")
  /\ IF player.state = "BUFFERING"
     THEN /\ player' = [player EXCEPT !.state = "PLAYING"]
          /\ TryDeferred("feed")
     ELSE /\ At("feed")
          /\ UNCHANGED player
  /\ UNCHANGED <<commands, work, file, user>>

Buffered == /\ Notice("BUFFERED")
            /\ IF player.state = "BUFFERING"
               THEN /\ player' = [player EXCEPT !.state = "PLAYING", !.post = FALSE]
                    /\ TryDeferred("feed")
               ELSE /\ At("feed")
                    /\ UNCHANGED player
            /\ UNCHANGED <<commands, work, file, user>>

\* Ignored when the file has been read and decoded to its end.
OutOfBuffer == /\ Notice("OUT_OF_BUFFER")
               /\ \/ /\ player.state = "PLAYING"
                     /\ player' = [player EXCEPT !.state = "BUFFERING"]
                  \/ UNCHANGED player
               /\ At("feed")
               /\ UNCHANGED <<commands, work, file, user>>

-----------------------------------------------------------------------------
(* Feeding: the wave may end, and so may the file.                         *)

\* The target is passed, the packet budget is spent, or 5 s are over.
WaveDone == /\ decode.at = "feed" /\ player.state = "SEEKING"
            /\ IF player.picture
               THEN /\ player' = [player EXCEPT !.state = "BUFFERING", !.post = TRUE]
                    /\ At("command")
               ELSE /\ player' = [player EXCEPT !.state = "PLAYING"]
                    /\ TryDeferred("command")
            /\ UNCHANGED <<commands, notices, work, file, user>>

FeedOn == /\ decode.at = "feed"
          /\ At("command")
          /\ UNCHANGED <<player, commands, notices, work, file, user>>

\* Nothing is left to decode, play or draw.
FileEnds == /\ decode.at = "feed" /\ player.state \in {"PLAYING", "SEEKING"}
            /\ ~player.held
            /\ Len(SelectSeq(commands, LAMBDA m : m = "PLAY_NEXT")) < MaxEnds
            /\ commands' = Append(commands, "PLAY_NEXT")
            /\ At("command")
            /\ UNCHANGED <<player, notices, work, file, user>>

-----------------------------------------------------------------------------
(* The other threads, and time.                                            *)

\* The target is read when the request is served.
ReadSeek == /\ "SEEK" \in work
            /\ work' = work \ {"SEEK"}
            /\ file' = player.target
            /\ notices' = Append(notices, "SEEKED")
            /\ UNCHANGED <<player, commands, user, decode>>

\* The video thread clears its decoder, the convert thread the images.
ClearImages == /\ "CLEAR" \in work
               /\ work' = work \ {"CLEAR"}
               /\ notices' = Append(notices, "CLEARED")
               /\ UNCHANGED <<player, commands, file, user, decode>>

\* Posted again and again; once in the queue is enough here.
EndBuffering == /\ player.state = "BUFFERING" /\ ~Has(notices, "BUFFERED")
                /\ notices' = Append(notices, "BUFFERED")
                /\ UNCHANGED <<player, commands, work, file, user, decode>>

RunDry == /\ player.picture /\ player.state \in {"PLAYING", "SEEKING"}
          /\ ~Has(notices, "OUT_OF_BUFFER")
          /\ notices' = Append(notices, "OUT_OF_BUFFER")
          /\ UNCHANGED <<player, commands, work, file, user, decode>>

DelayPasses == /\ ~player.due
               /\ player' = [player EXCEPT !.due = TRUE]
               /\ UNCHANGED <<commands, notices, work, file, user, decode>>

UserStep == Submit \/ Defer \/ Freeze \/ PostSeek
Command == \/ NoCommand \/ SeekAgain \/ SeekLater \/ SeekNow \/ Prepare
           \/ Reset \/ Issue \/ PlayNext \/ Forget
Retry == NotDeferred \/ LoadPosition \/ StorePosition \/ PostDeferred \/ ClearDeferred
Notices == NoNotice \/ Seeked \/ Cleared \/ Buffered \/ OutOfBuffer
Feed == WaveDone \/ FeedOn \/ FileEnds
Worker == ReadSeek \/ ClearImages \/ EndBuffering
Next == Commit \/ UserStep \/ Command \/ Retry \/ Notices \/ Feed \/ Worker
        \/ RunDry \/ DelayPasses

Spec == Init /\ [][Next]_vars

\* A started submit finishes; threads run; a wave ends by the wall clock at
\* the latest; images arrive in the end, or the file does.
Fairness == /\ WF_vars(UserStep)
            /\ WF_vars(Command \/ Retry \/ Notices \/ Feed)
            /\ WF_vars(ReadSeek) /\ WF_vars(ClearImages)
            /\ SF_vars(EndBuffering) /\ WF_vars(DelayPasses)
            /\ SF_vars(WaveDone)
FairSpec == Spec /\ Fairness

-----------------------------------------------------------------------------
States == {"PLAYING", "BUFFERING", "PREPARE_SEEKING", "SEEKING"}
Points == {"command", "prepare", "reset", "issue", "forget", "deferred", "store",
           "post", "clear", "notice", "feed"}

PlayerType == [picture : Films, state : States, post : BOOLEAN,
               deferred : BOOLEAN, due : BOOLEAN, held : BOOLEAN,
               seekPos : Positions, queued : Positions, target : Positions]
UserType == [at : {"idle", "submit", "defer", "freeze", "post"}, accepted : Positions]
DecodeType == [at : Points, back : {"notice", "feed", "command"}, loaded : Positions]
CommandNames == {"SEEK", "PLAY_NEXT"}
NoticeNames == {"SEEKED", "CLEARED", "BUFFERED", "OUT_OF_BUFFER"}

\* Types; POST_SEEK_BUFFERING is set only while the buffering after a wave
\* lasts (else the next buffering would be taken for one).
TypeOK == /\ player \in PlayerType
          /\ player.post => player.state = "BUFFERING"
          /\ commands \in Seq(CommandNames) /\ notices \in Seq(NoticeNames)
          /\ work \subseteq {"SEEK", "CLEAR"} /\ file \in Positions
          /\ user \in UserType /\ decode \in DecodeType

\* Both threads write the frozen position and the decode thread reads it in
\* between (vid_seek_engine.c:69, vid_decode.c:94, 144, 655): whatever the
\* interleaving, the file is never positioned for a seek older than the one
\* it is positioned for already.
SeeksInOrder == [][file' >= file]_vars

\* Deferring must not feed itself: a wave ends in a retry, the retry in a new
\* wave (vid_decode.c:77-107, 671, 695).  Once the user stops seeking, waves,
\* requests and retries come to an end.
Settled == ~player.deferred /\ ~Has(commands, "SEEK") /\ ~Busy
SeeksSettle == <>[]Settled

\* No seek is under way or asked for, anywhere.
Quiet == /\ user.at = "idle" /\ decode.at = "command" /\ Settled
         /\ work = {} /\ notices = <<>>

\* vid_seek_engine.h:18-20 and vid_decode.c:73-74: a seek made while a wave
\* runs is deferred, and the retry takes the newest position, only older ones
\* being dropped.  So when nothing is left to do the file is at the newest.
LastSeekWins == Quiet => file = user.accepted
=============================================================================
