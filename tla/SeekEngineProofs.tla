-------------------------- MODULE SeekEngineProofs --------------------------
(***************************************************************************)
(* Proofs about SeekEngine, for any number of seeks.                       *)
(***************************************************************************)
EXTENDS SeekEngine, TLAPS

\* TypeOK, and that a wave is never prepared with the mark still set.
Typed == TypeOK /\ (decode.at = "prepare" => ~player.post)

\* Each copy of the position is made of a newer one: file of target, target
\* of queued, queued of seek_pos or of what the decode thread has loaded.
Ordered == /\ file <= player.target
           /\ player.target <= player.queued
           /\ player.queued <= player.seekPos
           /\ decode.at = "store" => /\ player.target <= decode.loaded
                                     /\ decode.loaded <= player.seekPos

LEMMA AddFrontOnceType ==
  ASSUME NEW S, NEW q \in Seq(S), NEW m \in S
  PROVE  AddFrontOnce(q, m) \in Seq(S)
BY DEF AddFrontOnce

\* Type lemmas, one per variable: the actions that assign it, and the rest.

LEMMA PlayerTyped ==
  ASSUME SeekAssumption, player \in PlayerType, decode \in DecodeType,
     [Next]_vars
  PROVE  player' \in PlayerType
<1>1. CASE Commit
  BY <1>1 DEF Commit, PlayerType, Positions, SeekAssumption
<1>2. CASE Defer
  BY <1>2 DEF Defer, PlayerType
<1>3. CASE Freeze
  BY <1>3 DEF Freeze, PlayerType
<1>4. CASE SeekAgain
  BY <1>4 DEF SeekAgain, PlayerType
<1>5. CASE SeekLater
  BY <1>5 DEF SeekLater, PlayerType
<1>6. CASE Prepare
  BY <1>6 DEF Prepare, PlayerType, States
<1>7. CASE Reset
  BY <1>7 DEF Reset, PlayerType
<1>8. CASE Issue
  BY <1>8 DEF Issue, PlayerType
<1>9. CASE PlayNext
  BY <1>9 DEF PlayNext, PlayerType, States
<1>10. CASE Forget
  BY <1>10 DEF Forget, PlayerType
<1>11. CASE StorePosition
  BY <1>11 DEF StorePosition, PlayerType, DecodeType
<1>12. CASE ClearDeferred
  BY <1>12 DEF ClearDeferred, PlayerType
<1>13. CASE Seeked
  BY <1>13 DEF Seeked, PlayerType, States
<1>14. CASE Cleared
  BY <1>14 DEF Cleared, PlayerType, States
<1>15. CASE Buffered
  BY <1>15 DEF Buffered, PlayerType, States
<1>16. CASE OutOfBuffer
  <2>1. CASE UNCHANGED player
    BY <2>1
  <2>2. CASE player' = [player EXCEPT !.state = "BUFFERING"]
    BY <2>2 DEF PlayerType, States
  <2> QED BY <1>16, <2>1, <2>2 DEF OutOfBuffer
<1>17. CASE WaveDone
  <2>1. CASE player' = [player EXCEPT !.state = "BUFFERING", !.post = TRUE]
    BY <2>1 DEF PlayerType, States
  <2>2. CASE player' = [player EXCEPT !.state = "PLAYING"]
    BY <2>2 DEF PlayerType, States
  <2> QED BY <1>17, <2>1, <2>2, Zenon DEF WaveDone
<1>18. CASE DelayPasses
  BY <1>18 DEF DelayPasses, PlayerType
<1>19. CASE UNCHANGED player
  BY <1>19
<1> QED
  BY <1>1, <1>2, <1>3, <1>4, <1>5, <1>6, <1>7, <1>8, <1>9, <1>10, <1>11,
     <1>12, <1>13, <1>14, <1>15, <1>16, <1>17, <1>18, <1>19
     DEF Next, vars, UserStep, Command, Retry, Notices, Feed, Worker, Submit,
         PostSeek, NoCommand, SeekNow, NotDeferred, LoadPosition,
         PostDeferred, NoNotice, FeedOn, FileEnds, ReadSeek, ClearImages,
         EndBuffering, RunDry

LEMMA CommandsTyped ==
  ASSUME commands \in Seq(CommandNames), [Next]_vars
  PROVE  commands' \in Seq(CommandNames)
<1>1. CASE PostSeek
  BY <1>1, AddFrontOnceType DEF PostSeek, CommandNames
<1>2. CASE SeekAgain
  BY <1>2 DEF SeekAgain, NextCommand, CommandNames
<1>3. CASE SeekLater
  BY <1>3 DEF SeekLater, NextCommand, CommandNames
<1>4. CASE SeekNow
  BY <1>4 DEF SeekNow, NextCommand, CommandNames
<1>5. CASE PlayNext
  BY <1>5 DEF PlayNext, NextCommand, CommandNames
<1>6. CASE PostDeferred
  BY <1>6, AddFrontOnceType DEF PostDeferred, CommandNames
<1>7. CASE FileEnds
  BY <1>7 DEF FileEnds, CommandNames
<1>8. CASE UNCHANGED commands
  BY <1>8
<1> QED
  BY <1>1, <1>2, <1>3, <1>4, <1>5, <1>6, <1>7, <1>8
     DEF Next, vars, UserStep, Command, Retry, Notices, Feed, Worker, Commit,
         Submit, Defer, Freeze, NoCommand, Prepare, Reset, Issue, Forget,
         NotDeferred, LoadPosition, StorePosition, ClearDeferred, NoNotice,
         Seeked, Cleared, Buffered, OutOfBuffer, WaveDone, FeedOn, ReadSeek,
         ClearImages, EndBuffering, RunDry, DelayPasses

LEMMA NoticesTyped ==
  ASSUME notices \in Seq(NoticeNames), [Next]_vars
  PROVE  notices' \in Seq(NoticeNames)
<1>1. CASE Seeked
  BY <1>1 DEF Seeked, Notice, NoticeNames
<1>2. CASE Cleared
  BY <1>2 DEF Cleared, Notice, NoticeNames
<1>3. CASE Buffered
  BY <1>3 DEF Buffered, Notice, NoticeNames
<1>4. CASE OutOfBuffer
  BY <1>4 DEF OutOfBuffer, Notice, NoticeNames
<1>5. CASE ReadSeek
  BY <1>5 DEF ReadSeek, NoticeNames
<1>6. CASE ClearImages
  BY <1>6 DEF ClearImages, NoticeNames
<1>7. CASE EndBuffering
  BY <1>7 DEF EndBuffering, NoticeNames
<1>8. CASE RunDry
  BY <1>8 DEF RunDry, NoticeNames
<1>9. CASE UNCHANGED notices
  BY <1>9
<1> QED
  BY <1>1, <1>2, <1>3, <1>4, <1>5, <1>6, <1>7, <1>8, <1>9
     DEF Next, vars, UserStep, Command, Retry, Notices, Feed, Worker, Commit,
         Submit, Defer, Freeze, PostSeek, NoCommand, SeekAgain, SeekLater,
         SeekNow, Prepare, Reset, Issue, PlayNext, Forget, NotDeferred,
         LoadPosition, StorePosition, PostDeferred, ClearDeferred, NoNotice,
         WaveDone, FeedOn, FileEnds, DelayPasses

LEMMA UserTyped ==
  ASSUME player \in PlayerType, user \in UserType, [Next]_vars
  PROVE  user' \in UserType
<1>1. CASE Commit
  BY <1>1 DEF Commit, UserAt, UserType, PlayerType
<1>2. CASE Submit
  BY <1>2 DEF Submit, UserType, PlayerType
<1>3. CASE Defer
  BY <1>3 DEF Defer, UserAt, UserType, PlayerType
<1>4. CASE Freeze
  BY <1>4 DEF Freeze, UserAt, UserType, PlayerType
<1>5. CASE PostSeek
  BY <1>5 DEF PostSeek, UserAt, UserType, PlayerType
<1>6. CASE UNCHANGED user
  BY <1>6
<1> QED
  BY <1>1, <1>2, <1>3, <1>4, <1>5, <1>6
     DEF Next, vars, UserStep, Command, Retry, Notices, Feed, Worker,
         NoCommand, SeekAgain, SeekLater, SeekNow, Prepare, Reset, Issue,
         PlayNext, Forget, NotDeferred, LoadPosition, StorePosition,
         PostDeferred, ClearDeferred, NoNotice, Seeked, Cleared, Buffered,
         OutOfBuffer, WaveDone, FeedOn, FileEnds, ReadSeek, ClearImages,
         EndBuffering, RunDry, DelayPasses

LEMMA DecodeTyped ==
  ASSUME player \in PlayerType, decode \in DecodeType, [Next]_vars
  PROVE  decode' \in DecodeType
<1>1. CASE NoCommand
  BY <1>1 DEF NoCommand, TryDeferred, DecodeType, Points, PlayerType
<1>2. CASE SeekAgain
  BY <1>2 DEF SeekAgain, At, DecodeType, Points, PlayerType
<1>3. CASE SeekLater
  BY <1>3 DEF SeekLater, TryDeferred, DecodeType, Points, PlayerType
<1>4. CASE SeekNow
  BY <1>4 DEF SeekNow, At, DecodeType, Points, PlayerType
<1>5. CASE Prepare
  BY <1>5 DEF Prepare, At, DecodeType, Points, PlayerType
<1>6. CASE Reset
  BY <1>6 DEF Reset, At, DecodeType, Points, PlayerType
<1>7. CASE Issue
  BY <1>7 DEF Issue, TryDeferred, DecodeType, Points, PlayerType
<1>8. CASE PlayNext
  BY <1>8 DEF PlayNext, At, DecodeType, Points, PlayerType
<1>9. CASE Forget
  BY <1>9 DEF Forget, TryDeferred, DecodeType, Points, PlayerType
<1>10. CASE NotDeferred
  BY <1>10 DEF NotDeferred, At, DecodeType, Points, PlayerType
<1>11. CASE LoadPosition
  BY <1>11 DEF LoadPosition, DecodeType, Points, PlayerType
<1>12. CASE StorePosition
  BY <1>12 DEF StorePosition, At, DecodeType, Points, PlayerType
<1>13. CASE PostDeferred
  BY <1>13 DEF PostDeferred, At, DecodeType, Points, PlayerType
<1>14. CASE ClearDeferred
  BY <1>14 DEF ClearDeferred, At, DecodeType, Points, PlayerType
<1>15. CASE NoNotice
  BY <1>15 DEF NoNotice, At, DecodeType, Points, PlayerType
<1>16. CASE Seeked
  BY <1>16 DEF Seeked, At, DecodeType, Points, PlayerType
<1>17. CASE Cleared
  BY <1>17 DEF Cleared, At, DecodeType, Points, PlayerType
<1>18. CASE Buffered
  BY <1>18 DEF Buffered, At, TryDeferred, DecodeType, Points, PlayerType
<1>19. CASE OutOfBuffer
  BY <1>19 DEF OutOfBuffer, At, DecodeType, Points, PlayerType
<1>20. CASE WaveDone
  BY <1>20 DEF WaveDone, At, TryDeferred, DecodeType, Points, PlayerType
<1>21. CASE FeedOn
  BY <1>21 DEF FeedOn, At, DecodeType, Points, PlayerType
<1>22. CASE FileEnds
  BY <1>22 DEF FileEnds, At, DecodeType, Points, PlayerType
<1>23. CASE UNCHANGED decode
  BY <1>23
<1> QED
  BY <1>1, <1>2, <1>3, <1>4, <1>5, <1>6, <1>7, <1>8, <1>9, <1>10, <1>11,
     <1>12, <1>13, <1>14, <1>15, <1>16, <1>17, <1>18, <1>19, <1>20, <1>21,
     <1>22, <1>23
     DEF Next, vars, UserStep, Command, Retry, Notices, Feed, Worker, Commit,
         Submit, Defer, Freeze, PostSeek, ReadSeek, ClearImages, EndBuffering,
         RunDry, DelayPasses

LEMMA FileTyped ==
  ASSUME player \in PlayerType, file \in Positions, [Next]_vars
  PROVE  file' \in Positions
<1>1. CASE Cleared
  BY <1>1 DEF Cleared, PlayerType
<1>2. CASE ReadSeek
  BY <1>2 DEF ReadSeek, PlayerType
<1>3. CASE UNCHANGED file
  BY <1>3
<1> QED
  BY <1>1, <1>2, <1>3
     DEF Next, vars, UserStep, Command, Retry, Notices, Feed, Worker, Commit,
         Submit, Defer, Freeze, PostSeek, NoCommand, SeekAgain, SeekLater,
         SeekNow, Prepare, Reset, Issue, PlayNext, Forget, NotDeferred,
         LoadPosition, StorePosition, PostDeferred, ClearDeferred, NoNotice,
         Seeked, Buffered, OutOfBuffer, WaveDone, FeedOn, FileEnds,
         ClearImages, EndBuffering, RunDry, DelayPasses

LEMMA WorkTyped ==
  ASSUME work \subseteq {"SEEK", "CLEAR"}, [Next]_vars
  PROVE  work' \subseteq {"SEEK", "CLEAR"}
<1>1. CASE Issue
  BY <1>1 DEF Issue
<1>2. CASE Seeked
  BY <1>2 DEF Seeked
<1>3. CASE ReadSeek
  BY <1>3 DEF ReadSeek
<1>4. CASE ClearImages
  BY <1>4 DEF ClearImages
<1>5. CASE UNCHANGED work
  BY <1>5
<1> QED
  BY <1>1, <1>2, <1>3, <1>4, <1>5
     DEF Next, vars, UserStep, Command, Retry, Notices, Feed, Worker, Commit,
         Submit, Defer, Freeze, PostSeek, NoCommand, SeekAgain, SeekLater,
         SeekNow, Prepare, Reset, PlayNext, Forget, NotDeferred, LoadPosition,
         StorePosition, PostDeferred, ClearDeferred, NoNotice, Cleared,
         Buffered, OutOfBuffer, WaveDone, FeedOn, FileEnds, EndBuffering,
         RunDry, DelayPasses

\* The mark is set with BUFFERING and taken back before the state is left.
LEMMA MarkStep ==
  ASSUME player \in PlayerType, decode \in DecodeType, [Next]_vars,
         player.post => player.state = "BUFFERING",
         decode.at = "prepare" => ~player.post
  PROVE  /\ player'.post => player'.state = "BUFFERING"
         /\ decode'.at = "prepare" => ~player'.post
<1> USE DEF PlayerType, DecodeType
<1>1. CASE Commit
  BY <1>1 DEF Commit
<1>2. CASE UserStep
  BY <1>2 DEF UserStep, Submit, Defer, Freeze, PostSeek
<1>3. CASE SeekAgain
  BY <1>3 DEF SeekAgain, At
<1>4. CASE SeekLater
  BY <1>4 DEF SeekLater, TryDeferred
<1>5. CASE SeekNow
  BY <1>5 DEF SeekNow, Busy, At
<1>6. CASE Prepare
  BY <1>6 DEF Prepare, At
<1>7. CASE Reset
  BY <1>7 DEF Reset, At
<1>8. CASE Issue
  BY <1>8 DEF Issue, TryDeferred
<1>9. CASE PlayNext
  BY <1>9 DEF PlayNext, At
<1>10. CASE Forget
  BY <1>10 DEF Forget, TryDeferred
<1>11. CASE NoCommand
  BY <1>11 DEF NoCommand, TryDeferred
<1>12. CASE Retry
  BY <1>12 DEF Retry, NotDeferred, LoadPosition, StorePosition, PostDeferred,
               ClearDeferred, At
<1>13. CASE NoNotice
  BY <1>13 DEF NoNotice, At
<1>14. CASE Seeked
  BY <1>14 DEF Seeked, Notice, At
<1>15. CASE Cleared
  BY <1>15 DEF Cleared, Notice, At
<1>16. CASE Buffered
  BY <1>16 DEF Buffered, Notice, At, TryDeferred
<1>17. CASE OutOfBuffer
  BY <1>17 DEF OutOfBuffer, Notice, At
<1>18. CASE WaveDone
  BY <1>18 DEF WaveDone, At, TryDeferred
<1>19. CASE FeedOn \/ FileEnds
  BY <1>19 DEF FeedOn, FileEnds, At
<1>20. CASE Worker \/ RunDry
  BY <1>20 DEF Worker, ReadSeek, ClearImages, EndBuffering, RunDry
<1>21. CASE DelayPasses
  BY <1>21 DEF DelayPasses
<1>22. CASE UNCHANGED vars
  BY <1>22 DEF vars
<1> QED
  BY <1>1, <1>2, <1>3, <1>4, <1>5, <1>6, <1>7, <1>8, <1>9, <1>10, <1>11,
     <1>12, <1>13, <1>14, <1>15, <1>16, <1>17, <1>18, <1>19, <1>20, <1>21,
     <1>22
     DEF Next, Command, Notices, Feed

LEMMA TypedStep == SeekAssumption /\ Typed /\ [Next]_vars => Typed'
BY PlayerTyped, CommandsTyped, NoticesTyped, UserTyped, DecodeTyped, FileTyped,
   WorkTyped, MarkStep DEF Typed, TypeOK

LEMMA TypedInvariant == Spec => []Typed
<1>1. Init => Typed
  <2> SUFFICES ASSUME Init PROVE Typed
    OBVIOUS
  <2>1. player \in PlayerType /\ player.post = FALSE
    BY SeekAssumption DEF Init, PlayerType, States, Positions, SeekAssumption
  <2>2. user \in UserType /\ decode \in DecodeType /\ file \in Positions
    BY SeekAssumption DEF Init, UserType, DecodeType, Points, Positions,
                          SeekAssumption
  <2> QED BY <2>1, <2>2 DEF Init, Typed, TypeOK
<1> QED BY <1>1, TypedStep, SeekAssumption, PTL DEF Spec

\* In every reachable state the variables have their types, and the mark
\* POST_SEEK_BUFFERING is set only while BUFFERING (vid_decode.c:116, 654,
\* 713, 948), for any number of seeks.
THEOREM TypeCorrect == Spec => []TypeOK
BY TypedInvariant, PTL DEF Typed

\* Only ReadSeek and Cleared position the file, and for the target.
LEMMA FileStep ==
  ASSUME [Next]_vars
  PROVE  file' = file \/ file' = player.target
<1>1. CASE ReadSeek
  BY <1>1 DEF ReadSeek
<1>2. CASE Cleared
  BY <1>2 DEF Cleared
<1> QED
  BY <1>1, <1>2
     DEF Next, vars, UserStep, Command, Retry, Notices, Feed, Worker, Commit,
         Submit, Defer, Freeze, PostSeek, NoCommand, SeekAgain, SeekLater,
         SeekNow, Prepare, Reset, Issue, PlayNext, Forget, NotDeferred,
         LoadPosition, StorePosition, PostDeferred, ClearDeferred, NoNotice,
         Seeked, Buffered, OutOfBuffer, WaveDone, FeedOn, FileEnds,
         ClearImages, EndBuffering, RunDry, DelayPasses

LEMMA OrderedStep ==
  ASSUME SeekAssumption, Typed, Ordered, [Next]_vars
  PROVE  Ordered'
<1> DEFINE Same == /\ player'.target = player.target
                   /\ player'.queued = player.queued
                   /\ player'.seekPos = player.seekPos
                   /\ file' = file
                   /\ decode'.at = "store" => /\ decode.at = "store"
                                              /\ decode'.loaded = decode.loaded
<1>1. /\ player \in PlayerType /\ decode \in DecodeType
      /\ file \in Nat /\ player.target \in Nat /\ player.queued \in Nat
      /\ player.seekPos \in Nat /\ decode.loaded \in Nat
  BY DEF Typed, TypeOK, PlayerType, DecodeType, Positions, SeekAssumption
<1>2. CASE Commit
  BY <1>1, <1>2 DEF Commit, Ordered, PlayerType
<1>3. CASE Freeze
  BY <1>1, <1>3 DEF Freeze, Ordered, PlayerType
<1>4. CASE SeekAgain
  BY <1>1, <1>4 DEF SeekAgain, At, Ordered, PlayerType, DecodeType
<1>5. CASE Issue
  BY <1>1, <1>5 DEF Issue, TryDeferred, Ordered, PlayerType, DecodeType
<1>6. CASE LoadPosition
  BY <1>1, <1>6 DEF LoadPosition, Ordered, DecodeType
<1>7. CASE StorePosition
  BY <1>1, <1>7 DEF StorePosition, At, Ordered, PlayerType, DecodeType
<1>8. CASE Cleared
  <2>1. /\ player'.target = player.target /\ player'.queued = player.queued
        /\ player'.seekPos = player.seekPos /\ file' \in {file, player.target}
    BY <1>1, <1>8 DEF Cleared, PlayerType
  <2>2. decode'.at /= "store"
    BY <1>1, <1>8 DEF Cleared, At, DecodeType
  <2> QED BY <1>1, <2>1, <2>2 DEF Ordered
<1>9. CASE ReadSeek
  BY <1>1, <1>9 DEF ReadSeek, Ordered
<1>10. CASE Submit \/ PostSeek \/ ClearImages \/ EndBuffering \/ RunDry
            \/ UNCHANGED vars
  <2>1. Same
    BY <1>10 DEF Submit, PostSeek, ClearImages, EndBuffering, RunDry, vars
  <2> QED BY <2>1 DEF Ordered
<1>11. CASE Defer \/ DelayPasses
  <2>1. Same
    BY <1>1, <1>11 DEF Defer, DelayPasses, PlayerType
  <2> QED BY <2>1 DEF Ordered
<1>12. CASE NoCommand \/ SeekNow \/ NotDeferred \/ PostDeferred \/ NoNotice
            \/ FeedOn \/ FileEnds
  <2>1. Same
    BY <1>1, <1>12 DEF NoCommand, SeekNow, NotDeferred, PostDeferred, NoNotice,
                       FeedOn, FileEnds, At, TryDeferred, DecodeType
  <2> QED BY <2>1 DEF Ordered
<1>13. CASE SeekLater \/ Prepare \/ Reset
  <2>1. decode'.at /= "store"
    BY <1>1, <1>13 DEF SeekLater, Prepare, Reset, At, TryDeferred, DecodeType
  <2>2. /\ player'.target = player.target /\ player'.queued = player.queued
        /\ player'.seekPos = player.seekPos /\ file' = file
    BY <1>1, <1>13 DEF SeekLater, Prepare, Reset, PlayerType
  <2> QED BY <2>1, <2>2 DEF Ordered
<1>14. CASE PlayNext \/ Forget \/ ClearDeferred
  <2>1. decode'.at /= "store"
    BY <1>1, <1>14 DEF PlayNext, Forget, ClearDeferred, At, TryDeferred,
                       DecodeType
  <2>2. /\ player'.target = player.target /\ player'.queued = player.queued
        /\ player'.seekPos = player.seekPos /\ file' = file
    BY <1>1, <1>14 DEF PlayNext, Forget, ClearDeferred, PlayerType
  <2> QED BY <2>1, <2>2 DEF Ordered
<1>15. CASE Seeked \/ Buffered \/ OutOfBuffer \/ WaveDone
  <2>1. decode'.at /= "store"
    BY <1>1, <1>15 DEF Seeked, Buffered, OutOfBuffer, WaveDone, At,
                       TryDeferred, DecodeType
  <2>2. /\ player'.target = player.target /\ player'.queued = player.queued
        /\ player'.seekPos = player.seekPos /\ file' = file
    BY <1>1, <1>15 DEF Seeked, Buffered, OutOfBuffer, WaveDone, PlayerType
  <2> QED BY <2>1, <2>2 DEF Ordered
<1> QED
  BY <1>2, <1>3, <1>4, <1>5, <1>6, <1>7, <1>8, <1>9, <1>10, <1>11, <1>12,
     <1>13, <1>14, <1>15
     DEF Next, UserStep, Command, Retry, Notices, Feed, Worker

\* The file is never positioned for an older seek than it is already,
\* whatever the two threads' reads and writes of the frozen position
\* interleave to (vid_seek_engine.c:69, vid_decode.c:94, 144, 655, 1046, 1517),
\* for any number of seeks.
THEOREM InOrder == Spec => SeeksInOrder
<1>1. Init => Ordered
  <2> SUFFICES ASSUME Init PROVE Ordered
    OBVIOUS
  <2>1. file = 0 /\ player.target = 0 /\ player.queued = 0 /\ player.seekPos = 0
    BY DEF Init
  <2>2. decode.at = "command"
    BY DEF Init
  <2> QED BY <2>1, <2>2 DEF Ordered
<1>2. SeekAssumption /\ Typed /\ Ordered /\ [Next]_vars => Ordered'
  BY OrderedStep
<1>3. SeekAssumption /\ Typed /\ Ordered /\ [Next]_vars => [file' >= file]_vars
  <2> SUFFICES ASSUME SeekAssumption, Typed, Ordered, [Next]_vars
               PROVE  file' >= file
    OBVIOUS
  <2>1. file \in Nat /\ player.target \in Nat /\ file <= player.target
    BY DEF Typed, TypeOK, PlayerType, Positions, SeekAssumption, Ordered
  <2> QED BY <2>1, FileStep
<1> QED
  BY <1>1, <1>2, <1>3, TypedInvariant, SeekAssumption, PTL
     DEF Spec, SeeksInOrder
=============================================================================
