---------------------------- MODULE MCUtilQueue ----------------------------
(***************************************************************************)
(* Small instances of UtilQueue.  The two events stand for a request sent  *)
(* to the front and never twice (as the file panel sends PLAY), and for a  *)
(* plain one.                                                              *)
(***************************************************************************)
EXTENDS UtilQueue

play  == [event |-> "play", front |-> TRUE, unique |-> TRUE]
plain == [event |-> "plain", front |-> FALSE, unique |-> FALSE]
once  == [event |-> "once", front |-> FALSE, unique |-> TRUE]

TwoCalls == {play, plain}
ThreeCalls == {play, plain, once}
=============================================================================
