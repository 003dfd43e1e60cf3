-------------------------- MODULE LifecycleProofs --------------------------
(***************************************************************************)
(* The player's life for any number of workers: none of them ends before   *)
(* it is told to, and nothing is pulled away from under one that runs.     *)
(***************************************************************************)
EXTENDS Lifecycle, TLAPS

USE WorkersAssumption

-----------------------------------------------------------------------------
(* The inductive invariant, in three parts.                                *)

\* One thread follows the other.
OrderInv ==
  /\ mainAt = "off" => initAt = "none"
  /\ mainAt \in {"initJoin", "run", "exitWait", "exitJoin", "zeroed"} => initAt = "ended"
  /\ inited => initAt = "ended"
  /\ exitAt = "none" <=> mainAt \in {"off", "initWait", "initJoin", "run"}

\* Before the exit thread starts, no worker has a reason to end.
RunInv ==
  /\ initAt \in {"none", "objects", "flags"} => \A w \in Workers : workers[w] = "none"
  /\ initAt = "ended" => \A w \in Workers : workers[w] /= "none"
  /\ exitAt = "none" =>
       /\ ~shutdown
       /\ \A w \in Workers : workers[w] /= "ended"
       /\ initAt \in {"workers", "ended"} => threadRun

\* The locks and queues are there until every worker has been joined, and a
\* worker that was joined has ended, unless a join gave up.
JoinInv ==
  /\ initAt \in {"flags", "workers", "ended"} /\ exitAt /= "ended" => objects
  /\ exitAt = "ended" => joined = NumWorkers
  /\ ~gaveUp => /\ \A w \in Workers : w <= joined => workers[w] = "ended"
                /\ mainAt = "zeroed" => exitAt = "ended"

LifeInv == LifeTypeOK /\ OrderInv /\ RunInv /\ JoinInv

LEMMA LifeInitInv == LifeInit => LifeInv
<1> SUFFICES ASSUME LifeInit PROVE LifeInv
  OBVIOUS
<1>1. {inited, threadRun, shutdown, objects, gaveUp} \subseteq BOOLEAN
  BY Zenon DEF LifeInit
<1>2. LifeTypeOK
  BY <1>1 DEF LifeInit, LifeTypeOK
<1>3. OrderInv /\ RunInv
  BY Zenon DEF LifeInit, OrderInv, RunInv
<1>4. JoinInv
  BY DEF LifeInit, JoinInv, Workers
<1> QED BY <1>2, <1>3, <1>4 DEF LifeInv

LEMMA LifeTypeNext ==
  ASSUME LifeTypeOK, [LifeNext]_lifeVars
  PROVE  LifeTypeOK'
<1>1. {inited, threadRun, shutdown, objects, gaveUp}' \subseteq BOOLEAN
  BY Zenon DEF LifeNext, Main, InitThread, ExitThread, MainMoves, Join, StartInit, SeeInited, JoinInit,
     StartExit, SeeExited, Zero, MakeObjects, SetFlags, StartWorker, Inited, TakeShutdown,
     WorkerEnds, ClearInited, PostShutdown, JoinWorker, FreeObjects, lifeVars, LifeTypeOK
<1>2. joined' \in 0..NumWorkers
  <2>1. CASE JoinWorker
    BY <2>1 DEF JoinWorker, LifeTypeOK
  <2>2. CASE ~JoinWorker
    <3>1. joined' = joined
      BY <2>2, Zenon DEF LifeNext, Main, InitThread, ExitThread, MainMoves, StartInit, SeeInited, JoinInit,
         StartExit, SeeExited, Zero, MakeObjects, SetFlags, StartWorker, Inited, TakeShutdown,
         WorkerEnds, ClearInited, PostShutdown, FreeObjects, lifeVars
    <3> QED BY <3>1 DEF LifeTypeOK
  <2> QED BY <2>1, <2>2
<1>3. workers' \in [Workers -> {"none", "run", "ended"}]
  BY DEF LifeNext, Main, InitThread, ExitThread, MainMoves, StartInit, SeeInited, JoinInit,
     StartExit, SeeExited, Zero, MakeObjects, SetFlags, StartWorker, Inited, TakeShutdown,
     WorkerEnds, ClearInited, PostShutdown, JoinWorker, FreeObjects, lifeVars, LifeTypeOK
<1>4. /\ mainAt' \in {"off", "initWait", "initJoin", "run", "exitWait", "exitJoin", "zeroed"}
      /\ initAt' \in {"none", "objects", "flags", "workers", "ended"}
      /\ exitAt' \in {"none", "begin", "post", "join", "ended"}
  BY DEF LifeNext, Main, InitThread, ExitThread, MainMoves, StartInit, SeeInited, JoinInit,
     StartExit, SeeExited, Zero, MakeObjects, SetFlags, StartWorker, Inited, TakeShutdown,
     WorkerEnds, ClearInited, PostShutdown, JoinWorker, FreeObjects, lifeVars, LifeTypeOK
<1> QED BY <1>1, <1>2, <1>3, <1>4, Zenon DEF LifeTypeOK

LEMMA OrderNext ==
  ASSUME LifeTypeOK, OrderInv, [LifeNext]_lifeVars
  PROVE  OrderInv'
<1>1. CASE Main
  <2>1. CASE StartInit
    <3>1. /\ mainAt = "off" /\ mainAt' = "initWait" /\ initAt' = "objects"
          /\ UNCHANGED <<exitAt, workers, inited, shutdown, threadRun>>
      BY <2>1, Zenon DEF StartInit, MainMoves
    <3> QED BY <3>1 DEF OrderInv, LifeTypeOK
  <2>4. CASE SeeInited \/ JoinInit
    <3>1. /\ mainAt \in {"initWait", "initJoin"} /\ mainAt' \in {"initJoin", "run"}
          /\ UNCHANGED <<initAt, exitAt, workers, inited, shutdown, threadRun>>
      BY <2>4, Zenon DEF SeeInited, JoinInit, MainMoves
    <3>2. initAt = "ended"
      BY <2>4, Zenon DEF SeeInited, JoinInit, MainMoves, OrderInv
    <3> QED BY <3>1, <3>2 DEF OrderInv, LifeTypeOK
  <2>2. CASE StartExit \/ SeeExited
    BY <2>2 DEF MainMoves, StartExit, SeeExited, OrderInv, LifeTypeOK
  <2>3. CASE Zero
    <3>1. /\ mainAt = "exitJoin" /\ mainAt' = "zeroed" /\ ~inited'
          /\ UNCHANGED <<initAt, exitAt, workers, shutdown>>
      BY <2>3, Zenon DEF Zero, MainMoves
    <3> QED BY <3>1 DEF OrderInv, LifeTypeOK
  <2> QED BY <1>1, <2>1, <2>2, <2>3, <2>4, Zenon DEF Main
<1>2. CASE InitThread
  BY <1>2 DEF InitThread, MakeObjects, SetFlags, StartWorker, Inited, OrderInv, LifeTypeOK
<1>3. CASE ExitThread
  BY <1>3 DEF ExitThread, ClearInited, PostShutdown, JoinWorker, FreeObjects, OrderInv, LifeTypeOK
<1>4. CASE TakeShutdown \/ (\E w \in Workers : WorkerEnds(w)) \/ UNCHANGED lifeVars
  BY <1>4 DEF TakeShutdown, WorkerEnds, lifeVars, OrderInv, LifeTypeOK
<1> QED BY <1>1, <1>2, <1>3, <1>4, Zenon DEF LifeNext

LEMMA RunNext ==
  ASSUME LifeTypeOK, OrderInv, RunInv, [LifeNext]_lifeVars
  PROVE  RunInv'
<1>1. CASE Main
  <2>1. CASE StartInit
    <3>1. /\ mainAt = "off" /\ mainAt' = "initWait" /\ initAt' = "objects"
          /\ UNCHANGED <<exitAt, workers, inited, shutdown, threadRun>>
      BY <2>1, Zenon DEF StartInit, MainMoves
    <3> QED BY <3>1 DEF OrderInv, RunInv, LifeTypeOK
  <2>4. CASE SeeInited \/ JoinInit
    <3>1. /\ mainAt \in {"initWait", "initJoin"} /\ mainAt' \in {"initJoin", "run"}
          /\ UNCHANGED <<initAt, exitAt, workers, inited, shutdown, threadRun>>
      BY <2>4, Zenon DEF SeeInited, JoinInit, MainMoves
    <3>2. initAt = "ended"
      BY <2>4, Zenon DEF SeeInited, JoinInit, MainMoves, OrderInv
    <3> QED BY <3>1, <3>2 DEF OrderInv, RunInv, LifeTypeOK
  <2>2. CASE StartExit \/ SeeExited
    BY <2>2 DEF MainMoves, StartExit, SeeExited, OrderInv, RunInv, LifeTypeOK
  <2>3. CASE Zero
    <3>1. /\ mainAt = "exitJoin" /\ mainAt' = "zeroed" /\ ~inited'
          /\ UNCHANGED <<initAt, exitAt, workers, shutdown>>
      BY <2>3, Zenon DEF Zero, MainMoves
    <3> QED BY <3>1 DEF OrderInv, RunInv, LifeTypeOK
  <2> QED BY <1>1, <2>1, <2>2, <2>3, <2>4, Zenon DEF Main
<1>2. CASE InitThread
  BY <1>2 DEF InitThread, MakeObjects, SetFlags, StartWorker, Inited, RunInv, LifeTypeOK
<1>3. CASE ExitThread
  BY <1>3 DEF ExitThread, ClearInited, PostShutdown, JoinWorker, FreeObjects, RunInv, LifeTypeOK
<1>4. CASE TakeShutdown \/ (\E w \in Workers : WorkerEnds(w)) \/ UNCHANGED lifeVars
  BY <1>4 DEF TakeShutdown, WorkerEnds, lifeVars, OrderInv, RunInv, LifeTypeOK
<1> QED BY <1>1, <1>2, <1>3, <1>4, Zenon DEF LifeNext

LEMMA JoinNext ==
  ASSUME LifeTypeOK, OrderInv, RunInv, JoinInv, [LifeNext]_lifeVars
  PROVE  JoinInv'
<1>1. CASE Main
  BY <1>1 DEF Main, MainMoves, StartInit, SeeInited, JoinInit, StartExit, SeeExited, Zero, Join,
              OrderInv, JoinInv, LifeTypeOK
<1>2. CASE InitThread
  BY <1>2 DEF InitThread, MakeObjects, SetFlags, StartWorker, Inited, OrderInv, JoinInv, LifeTypeOK
<1>3. CASE ExitThread
  BY <1>3 DEF ExitThread, ClearInited, PostShutdown, JoinWorker, FreeObjects, Join, OrderInv, JoinInv, LifeTypeOK, Workers
<1>4. CASE TakeShutdown \/ (\E w \in Workers : WorkerEnds(w)) \/ UNCHANGED lifeVars
  BY <1>4 DEF TakeShutdown, WorkerEnds, lifeVars, JoinInv, LifeTypeOK
<1> QED BY <1>1, <1>2, <1>3, <1>4, Zenon DEF LifeNext

LEMMA LifeNextInv == LifeInv /\ [LifeNext]_lifeVars => LifeInv'
BY LifeTypeNext, OrderNext, RunNext, JoinNext DEF LifeInv

THEOREM LifeInvariant == LifeSpec => []LifeInv
BY LifeInitInv, LifeNextInv, PTL DEF LifeSpec

\* The variables of the life cycle have their types.
THEOREM LifeTypes == LifeSpec => []LifeTypeOK
<1>1. LifeInv => LifeTypeOK
  BY DEF LifeInv
<1> QED BY <1>1, LifeInvariant, PTL

\* For any number of workers: once the player runs, all of them do.
THEOREM WorkersKeepRunning == LifeSpec => []WorkersStay
<1>1. LifeInv => WorkersStay
  BY DEF LifeInv, LifeTypeOK, OrderInv, RunInv, WorkersStay
<1> QED BY <1>1, LifeInvariant, PTL

\* For any number of workers: none runs without its locks and queues, and none
\* outlives the player, as long as no join gives up.
THEOREM NothingIsPulledAway == LifeSpec => []NothingPulledAway
<1>1. ASSUME LifeInv, ~gaveUp
      PROVE  /\ \A w \in Workers : workers[w] = "run" => objects
             /\ mainAt = "zeroed" => exitAt = "ended" /\ \A w \in Workers : workers[w] = "ended"
  <2>1. ASSUME exitAt = "ended" PROVE \A w \in Workers : workers[w] = "ended"
    BY <1>1, <2>1 DEF LifeInv, JoinInv, Workers
  <2>2. ASSUME NEW w \in Workers, workers[w] = "run" PROVE objects
    <3>1. exitAt /= "ended"
      BY <2>1, <2>2
    <3>2. initAt \in {"flags", "workers", "ended"}
      BY <1>1, <2>2 DEF LifeInv, LifeTypeOK, RunInv
    <3> QED BY <1>1, <3>1, <3>2, Zenon DEF LifeInv, JoinInv
  <2>3. mainAt = "zeroed" => exitAt = "ended"
    BY <1>1 DEF LifeInv, JoinInv
  <2> QED BY <2>1, <2>2, <2>3
<1>2. LifeInv => NothingPulledAway
  BY <1>1, Zenon DEF NothingPulledAway
<1> QED BY <1>2, LifeInvariant, PTL
=============================================================================
