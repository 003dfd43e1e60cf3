------------------------------ MODULE MCParts ------------------------------
(***************************************************************************)
(* Small instances of the parts that have no message queue of their own:   *)
(* the data path of one track, the textures of two, the sync objects and   *)
(* the life cycle.  Each behaviour works one part and leaves the others    *)
(* where they begin.                                                       *)
(***************************************************************************)
EXTENDS DataPath, UtilSync, Lifecycle

VARIABLE part   \* path, textures, sync or life

partsVars == <<part, pathVars, syncVars, lifeVars>>

Init == /\ part \in {"path", "textures", "sync", "life"}
        /\ PacketInit /\ ImageInit /\ FrameInit
        /\ seekAt = "none" /\ origin = <<>> /\ lastRead = 0 /\ lastMade = 0
        /\ part /= "textures" => tracks = 1
        /\ SyncInit /\ LifeInit

Next ==
  /\ UNCHANGED part
  /\ \/ part = "path" /\ PathNext /\ UNCHANGED <<syncVars, lifeVars>>
     \/ /\ part = "textures" /\ FrameNext
        /\ UNCHANGED <<packetVars, imageVars, seekVars, syncVars, lifeVars>>
     \/ part = "sync" /\ SyncNext /\ UNCHANGED <<pathVars, lifeVars>>
     \/ part = "life" /\ LifeNext /\ UNCHANGED <<pathVars, syncVars>>

\* The main loop runs on, and a frame of each track falls due over and over
\* (next_frame_update_time is always finite).
FrameFairness ==
  /\ WF_frameVars(part \in {"path", "textures"} /\ (DrawLook \/ DrawSkip))
  /\ \A t \in Eyes : SF_frameVars(part \in {"path", "textures"} /\ DrawAdvance(t))

Spec == Init /\ [][Next]_partsVars /\ FrameFairness /\ LifeFairness
=============================================================================
