------------------------------- MODULE MCLife --------------------------------
(***************************************************************************)
(* What goes on around the command loop of the server: its threads over    *)
(* start and stop (ServerLife), its scene file (SceneStore), the set files *)
(* of the command line (FixtureSet), the handshake with a visual thread    *)
(* (VisualThread), the dimmer of such a thread (Dimmer) and the agreement  *)
(* with the controller (ModeSync).  The models have no variable in common; *)
(* each behaviour explores one of them, with the others at rest.           *)
(***************************************************************************)
EXTENDS ServerLife, SceneStore, FixtureSet, VisualThread, Dimmer, ModeSync

VARIABLE part
partVars == <<lifeVars, storeVars, setVars, vtVars, dimmerVars, syncVars, part>>

InLife(A) ==
  part = "life" /\ A
  /\ UNCHANGED <<storeVars, setVars, vtVars, dimmerVars, syncVars, part>>
StoreStep ==
  part = "scenes" /\ StoreNext
  /\ UNCHANGED <<lifeVars, setVars, vtVars, dimmerVars, syncVars, part>>
SetStep ==
  part = "set" /\ SetNext
  /\ UNCHANGED <<lifeVars, storeVars, vtVars, dimmerVars, syncVars, part>>
InThread(A) ==
  part = "thread" /\ A
  /\ UNCHANGED <<lifeVars, storeVars, setVars, dimmerVars, syncVars, part>>
DimmerStep ==
  part = "dimmer" /\ DimmerNext
  /\ UNCHANGED <<lifeVars, storeVars, setVars, vtVars, syncVars, part>>
InSync(A) ==
  part = "sync" /\ A
  /\ UNCHANGED <<lifeVars, storeVars, setVars, vtVars, dimmerVars, part>>

\* At rest: one of the dimmer's initial states, and a controller that knows the server
\* and that nobody touches
DimmerRests == Highlight /\ lights = 1
SyncRests ==
  /\ mode = "IDLE" /\ MODE = "IDLE" /\ DEST_IP = "server"
  /\ actions = <<>> /\ polls = <<>> /\ playing = FALSE

PartsInit ==
  /\ Init /\ StoreInit /\ SetInit /\ VisualInit /\ DimmerInit
  /\ part \in {"life", "scenes", "set", "thread", "dimmer", "sync"}
  /\ part # "dimmer" => DimmerRests
  /\ IF part = "sync" THEN SyncInit ELSE SyncRests
PartsNext ==
  \/ InLife(Next) \/ StoreStep \/ SetStep \/ InThread(VisualNext) \/ DimmerStep
  \/ InSync(SyncNext)

\* The fairness of ServerLife's Spec, of VisualSpec and of SyncSpec.
PartsSpec ==
  /\ PartsInit /\ [][PartsNext]_partVars
  /\ WF_lifeVars(InLife(AppStep)) /\ WF_lifeVars(InLife(HeartbeatStep))
  /\ WF_lifeVars(InLife(ListenerStep)) /\ WF_lifeVars(InLife(StopStep))
  /\ WF_vtVars(InThread(Run)) /\ WF_vtVars(InThread(Redrum))
  /\ WF_syncVars(InSync(Heartbeat)) /\ WF_syncVars(InSync(HandleSome))
  /\ WF_syncVars(InSync(ReceiveSome)) /\ SF_syncVars(InSync(ReceiveCurrent))
==============================================================================
