------------------------------ MODULE ServerStop ------------------------------
(***************************************************************************)
(* ServerApp together with the CLI's "s" command, which stops the server   *)
(* and starts a new ServerAppThread on the same DMX driver and the same    *)
(* fixtures.  What belongs to the fixtures (the isSelected flags, the      *)
(* mirrors) and to the driver outlives the thread; what belongs to the     *)
(* thread starts afresh.  A stop falls between two commands.               *)
(***************************************************************************)
EXTENDS ServerApp

CONSTANT InitialChaseStep   \* chaseSceneDelay = 100, in steps above the minimum

VARIABLE serverRunning

stopVars == <<vars, serverRunning>>

\* stopServer(): four of the visual threads are stopped, the chase is not.  The
\* highlight's redrum puts the saved values back on its lights.
StopServer ==
  /\ serverRunning
  /\ serverRunning' = FALSE
  /\ Swap({"highlight", "preset", "rainbow", "dmxVisual"}, {})
  /\ dmx' = removedMirror(highlight, DOMAIN highlight, dmx)
  /\ mirror' = removedMirror(highlight, DOMAIN highlight, mirror)
  /\ highlight' = NoHighlight
  /\ UNCHANGED <<state, hbState, up, cursors, selected, updateDefaultColor,
                 selectedLights, sceneVars>>

\* new ServerAppThread(dmx, profiles): fields and the start of run()
StartServer ==
  /\ ~serverRunning
  /\ serverRunning' = TRUE
  /\ state' = "IDLE" /\ hbState' = "IDLE" /\ up' = TRUE
  /\ currentLightIndex' = 0 /\ currentControlIndex' = 0
  /\ currentChannelIndex' = 0 /\ currentPresetIndex' = 0
  /\ canChangeDMX' = FALSE
  /\ chaseStep' = InitialChaseStep
  /\ updateDefaultColor' = FALSE
  /\ selectedLights' = {}
  /\ currentScene' = dmx
  /\ currentIndex' = -1
  /\ scenes' = sceneFile
  /\ UNCHANGED <<visuals, selected, highlight, lampVars, sceneFile>>

StopInit == Init /\ serverRunning = TRUE

StopNext ==
  \/ serverRunning /\ up /\ Command /\ UNCHANGED serverRunning
  \/ VisualPass /\ UNCHANGED serverRunning
  \/ StopServer
  \/ StartServer

StopSpec == StopInit /\ [][StopNext]_stopVars

=============================================================================
