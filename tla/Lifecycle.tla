----------------------------- MODULE Lifecycle -----------------------------
(***************************************************************************)
(* The player's life (vid_lifecycle.c): the main thread starts an init     *)
(* thread, which makes the locks and queues and starts the workers, and at *)
(* the end an exit thread, which stops them and frees it all; then the main*)
(* thread zeroes vid_player under everybody's feet.  The threads follow one*)
(* another by the flags inited and thread_run and by joins, each of which  *)
(* gives up after DEF_THREAD_WAIT_TIME.                                    *)
(*                                                                         *)
(* Worker 1 is the decode thread, which alone takes the SHUTDOWN.  What the *)
(* workers do meanwhile is VidSession's matter; thread_suspend only delays *)
(* them and is left out.                                                   *)
(***************************************************************************)
EXTENDS Naturals

CONSTANT NumWorkers   \* decode, video decode, convert, read and audio: 5

ASSUME WorkersAssumption == NumWorkers \in Nat \ {0}

Workers == 1..NumWorkers

VARIABLES mainAt,    \* off, initWait, initJoin, run, exitWait, exitJoin, zeroed
          initAt,    \* none, objects, flags, workers, ended
          exitAt,    \* none, begin, post, join, ended
          joined,    \* workers the exit thread has joined
          workers,   \* none, run, ended
          inited,    \* vid_player.inited
          threadRun, \* vid_player.thread_run
          shutdown,  \* DECODE_THREAD_SHUTDOWN_REQUEST was posted
          objects,   \* the locks and queues exist
          gaveUp     \* history: a join returned before its thread had ended

lifeVars == <<mainAt, initAt, exitAt, joined, workers, inited, threadRun, shutdown, objects, gaveUp>>

LifeInit ==
  /\ mainAt = "off" /\ initAt = "none" /\ exitAt = "none" /\ joined = 0
  /\ workers = [w \in Workers |-> "none"]
  /\ inited = FALSE /\ threadRun = FALSE /\ shutdown = FALSE /\ objects = FALSE
  /\ gaveUp = FALSE

-----------------------------------------------------------------------------
(* The main thread: Vid_init, Vid_exit.                                    *)

MainMoves(from, to) == mainAt = from /\ mainAt' = to

StartInit == /\ MainMoves("off", "initWait")
             /\ initAt' = "objects"
             /\ UNCHANGED <<exitAt, joined, workers, inited, threadRun, shutdown, objects, gaveUp>>

SeeInited == /\ MainMoves("initWait", "initJoin") /\ inited
             /\ UNCHANGED <<initAt, exitAt, joined, workers, inited, threadRun, shutdown, objects, gaveUp>>

\* Mutant of Join: it does not give up.
JoinForever(ended) == ended /\ UNCHANGED gaveUp

\* threadJoin: the thread has ended, or the wait is over.
Join(ended) == gaveUp' = (gaveUp \/ ~ended)

JoinInit == /\ MainMoves("initJoin", "run")
            /\ Join(initAt = "ended")
            /\ UNCHANGED <<initAt, exitAt, joined, workers, inited, threadRun, shutdown, objects>>

StartExit == /\ MainMoves("run", "exitWait")
             /\ exitAt' = "begin"
             /\ UNCHANGED <<initAt, joined, workers, inited, threadRun, shutdown, objects, gaveUp>>

SeeExited == /\ MainMoves("exitWait", "exitJoin") /\ ~inited
             /\ UNCHANGED <<initAt, exitAt, joined, workers, inited, threadRun, shutdown, objects, gaveUp>>

\* Mutant of Zero: inited is taken for the end of the exit thread.
ZeroAtOnce == /\ MainMoves("exitJoin", "zeroed")
              /\ inited' = FALSE /\ threadRun' = FALSE
              /\ UNCHANGED <<initAt, exitAt, joined, workers, shutdown, objects, gaveUp>>

\* Vid_exit clears vid_player when the exit thread has been joined.
Zero == /\ MainMoves("exitJoin", "zeroed")
        /\ Join(exitAt = "ended")
        /\ inited' = FALSE /\ threadRun' = FALSE
        /\ UNCHANGED <<initAt, exitAt, joined, workers, shutdown, objects>>

Main == StartInit \/ SeeInited \/ JoinInit \/ StartExit \/ SeeExited \/ Zero

-----------------------------------------------------------------------------
(* Vid_init_thread.                                                        *)

MakeObjects == /\ initAt = "objects" /\ initAt' = "flags"
               /\ objects' = TRUE
               /\ UNCHANGED <<mainAt, exitAt, joined, workers, inited, threadRun, shutdown, gaveUp>>

\* Mutant of SetFlags: thread_run is set last of all.
SetFlagsNot == /\ initAt = "flags" /\ initAt' = "workers"
               /\ UNCHANGED <<mainAt, exitAt, joined, workers, inited, threadRun, shutdown, objects, gaveUp>>

SetFlags == /\ initAt = "flags" /\ initAt' = "workers"
            /\ threadRun' = TRUE
            /\ UNCHANGED <<mainAt, exitAt, joined, workers, inited, shutdown, objects, gaveUp>>

StartWorker(w) ==
  /\ initAt = "workers"
  /\ workers[w] = "none" /\ \A v \in Workers : v < w => workers[v] /= "none"
  /\ workers' = [workers EXCEPT ![w] = "run"]
  /\ UNCHANGED <<mainAt, initAt, exitAt, joined, inited, threadRun, shutdown, objects, gaveUp>>

Inited == /\ initAt = "workers" /\ initAt' = "ended"
          /\ \A w \in Workers : workers[w] /= "none"
          /\ inited' = TRUE
          /\ UNCHANGED <<mainAt, exitAt, joined, workers, threadRun, shutdown, objects, gaveUp>>

InitThread == MakeObjects \/ SetFlags \/ (\E w \in Workers : StartWorker(w)) \/ Inited

-----------------------------------------------------------------------------
(* The workers.                                                            *)

\* The decode thread takes the SHUTDOWN, having aborted what was playing.
TakeShutdown ==
  /\ workers[1] = "run" /\ shutdown /\ threadRun
  /\ threadRun' = FALSE
  /\ UNCHANGED <<mainAt, initAt, exitAt, joined, workers, inited, shutdown, objects, gaveUp>>

\* Each worker looks at thread_run at every turn.
WorkerEnds(w) ==
  /\ workers[w] = "run" /\ ~threadRun
  /\ workers' = [workers EXCEPT ![w] = "ended"]
  /\ UNCHANGED <<mainAt, initAt, exitAt, joined, inited, threadRun, shutdown, objects, gaveUp>>

-----------------------------------------------------------------------------
(* Vid_exit_thread.                                                        *)

ClearInited == /\ exitAt = "begin" /\ exitAt' = "post"
               /\ inited' = FALSE
               /\ UNCHANGED <<mainAt, initAt, joined, workers, threadRun, shutdown, objects, gaveUp>>

\* The add gives up when the command queue stays full for QUEUE_OP_TIMEOUT_US;
\* its result is only logged.
PostShutdown == /\ exitAt = "post" /\ exitAt' = "join"
                /\ \/ shutdown' = TRUE
                   \/ UNCHANGED shutdown
                /\ UNCHANGED <<mainAt, initAt, joined, workers, inited, threadRun, objects, gaveUp>>

\* Mutant of JoinWorker: one worker too many.
JoinWorkerMore == /\ exitAt = "join" /\ joined <= NumWorkers
                  /\ Join(joined = 0 \/ workers[joined] = "ended")
                  /\ joined' = joined + 1
                  /\ UNCHANGED <<mainAt, initAt, exitAt, workers, inited, threadRun, shutdown, objects>>

JoinWorker == /\ exitAt = "join" /\ joined < NumWorkers
              /\ Join(workers[joined + 1] = "ended")
              /\ joined' = joined + 1
              /\ UNCHANGED <<mainAt, initAt, exitAt, workers, inited, threadRun, shutdown, objects>>

FreeObjects == /\ exitAt = "join" /\ joined = NumWorkers /\ exitAt' = "ended"
               /\ objects' = FALSE
               /\ inited' = FALSE
               /\ UNCHANGED <<mainAt, initAt, joined, workers, threadRun, shutdown, gaveUp>>

ExitThread == ClearInited \/ PostShutdown \/ JoinWorker \/ FreeObjects

LifeNext == Main \/ InitThread \/ ExitThread \/ TakeShutdown \/ \E w \in Workers : WorkerEnds(w)

LifeSpec == LifeInit /\ [][LifeNext]_lifeVars

\* The main thread, the init and the exit thread run on once they are started;
\* nothing is assumed of the workers, nor of the user.
LifeFairness == /\ WF_lifeVars(SeeInited \/ JoinInit)
                /\ WF_lifeVars(SeeExited \/ Zero)
                /\ WF_lifeVars(InitThread) /\ WF_lifeVars(ExitThread)

-----------------------------------------------------------------------------
(* Properties.                                                             *)

LifeTypeOK ==
  /\ mainAt \in {"off", "initWait", "initJoin", "run", "exitWait", "exitJoin", "zeroed"}
  /\ initAt \in {"none", "objects", "flags", "workers", "ended"}
  /\ exitAt \in {"none", "begin", "post", "join", "ended"}
  /\ joined \in 0..NumWorkers
  /\ workers \in [Workers -> {"none", "run", "ended"}]
  /\ {inited, threadRun, shutdown, objects, gaveUp} \subseteq BOOLEAN

\* As long as no join gives up: a worker has its locks and queues while it runs,
\* and vid_player is zeroed only when no thread of the player is left.  The exit
\* thread clears inited, which the main thread waits for, at its start as well
\* as at its end (vid_lifecycle.c:395), so inited alone does not tell.
NothingPulledAway ==
  ~gaveUp => /\ \A w \in Workers : workers[w] = "run" => objects
             /\ mainAt = "zeroed" => exitAt = "ended" /\ \A w \in Workers : workers[w] = "ended"

\* Once the player runs, all its workers do, until it is shut down: none of them
\* looked at thread_run too early or saw an old SHUTDOWN.
WorkersStay == mainAt = "run" => \A w \in Workers : workers[w] = "run"

\* Leaving the player comes to an end, even if a worker hangs.
ExitEnds == (mainAt = "exitWait") ~> (mainAt = "zeroed")
=============================================================================
