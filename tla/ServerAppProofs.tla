--------------------------- MODULE ServerAppProofs ---------------------------
(***************************************************************************)
(* ServerApp for every number of fixtures, channels, presets and scenes.   *)
(* The mode machine is implemented whatever packets arrive; the selection  *)
(* and the visual threads need that KONAMI arrives in IDLE only.           *)
(***************************************************************************)
EXTENDS ServerApp, SequenceTheorems, TLAPS

-----------------------------------------------------------------------------
(* The mode machine *)

ControlIndexOK == currentControlIndex \in {-1, 0, 1}

\* The handlers of the control modes know which visual is shown.
LEMMA ControlIndex == Spec => []ControlIndexOK
<1>1. Init => ControlIndexOK
  BY DEF Init, ControlIndexOK
<1>2. ControlIndexOK /\ [Next]_vars => ControlIndexOK'
  <2> SUFFICES ASSUME ControlIndexOK, [Next]_vars PROVE ControlIndexOK'
    OBVIOUS
  <2> USE DEF ControlIndexOK
  <2>1. CASE LightB1
    BY <2>1 DEF LightB1
  <2>2. CASE ControlLeft \/ ControlRight
    BY <2>2 DEF ControlLeft, ControlRight, ShowControl
  <2>3. CASE ChaseUp \/ ChaseDown \/ ChaseB2 \/ Konami \/ IdleRevKonami
    BY <2>3 DEF ChaseUp, ChaseDown, ChaseB2, Konami, IdleRevKonami, cursors
  <2>4. CASE IdleLeft \/ IdleRight \/ IdleDown \/ IdleB1 \/ IdleB2 \/ IdlePS2
             \/ IdleDeleteShown \/ IdleDeleteLast
    BY <2>4 DEF IdleLeft, IdleRight, IdleDown, ShowScene, IdleB1, IdleB2, IdlePS2,
                IdleDeleteShown, IdleDeleteLast, cursors
  <2>5. CASE LightMove \/ LightPS2 \/ LightPS2Long \/ LightB2 \/ ControlB1 \/ ControlB2
    BY <2>5 DEF LightMove, LightPS2, LightPS2Long, LightB2, ControlB1, ControlB2, cursors
  <2>6. CASE ColorWheelB1 \/ ColorWheelB2 \/ ColorWheelJoystick \/ DmxMove \/ DmxStep
             \/ DmxPS2 \/ DmxB1 \/ DmxB2 \/ PresetMove \/ PresetB1 \/ PresetB2
    BY <2>6 DEF ColorWheelB1, ColorWheelB2, ColorWheelJoystick, DmxMove, DmxStep, DmxPS2,
                DmxB1, DmxB2, PresetMove, PresetB1, PresetB2, KeepScene, cursors
  <2>7. CASE PartyExit \/ ScaryExit \/ Gyro \/ UnexpectedData \/ VisualPass
    BY <2>7 DEF PartyExit, ScaryExit, Gyro, UnexpectedData, VisualPass, HighlightPass,
                ColourPass, DmxVisualPass, ChasePass, tickFrame, cursors
  <2>8. CASE UNCHANGED vars
    BY <2>8 DEF vars, cursors
  <2> QED
    BY <2>1, <2>2, <2>3, <2>4, <2>5, <2>6, <2>7, <2>8 DEF Next, Command
<1> QED
  BY <1>1, <1>2, PTL DEF Spec

\* Every handler moves along an edge of ModeMachine (ServerAppThread.run).
THEOREM ServerImplementsModes == Spec => ImplementsModes
<1>1. Init => Machine!ModeInit
  BY DEF Init, Machine!ModeInit
<1>2. ControlIndexOK /\ [Next]_vars => [Machine!ModeNext]_state
  <2> SUFFICES ASSUME ControlIndexOK, Next PROVE Machine!ModeNext \/ UNCHANGED state
    BY DEF vars
  <2>1. ASSUME NEW k \in Machine!Key, state' \in Machine!Reaction(state, k)
        PROVE  Machine!ModeNext
    BY <2>1 DEF Machine!ModeNext
  <2> USE DEF Machine!Key, Machine!Reaction
  <2>2. CASE ChaseB2 \/ IdleB2 \/ LightB2 \/ ControlB2 \/ ColorWheelB2 \/ DmxB2 \/ PresetB2
    <3>1. state' \in Machine!Reaction(state, "B2")
      BY <2>2 DEF ChaseB2, IdleB2, LightB2, ControlB2, ColorWheelB2, DmxB2, PresetB2, Goto
    <3> QED
      BY <2>1, <3>1
  <2>3. CASE IdleB1 \/ LightB1 \/ ControlB1 \/ ColorWheelB1 \/ DmxB1 \/ PresetB1
    <3>1. ASSUME ControlB1
          PROVE  state = "CONTROL_SELECTION" /\ state' \in {"DMX", "COLOR_WHEEL", "PRESET"}
      BY <3>1 DEF ControlB1, ControlIndexOK, Goto
    <3>2. state' \in Machine!Reaction(state, "B1")
      BY <2>3, <3>1 DEF IdleB1, LightB1, ColorWheelB1, DmxB1, PresetB1, KeepScene, Goto
    <3> QED
      BY <2>1, <3>2
  <2>4. CASE Konami
    BY <2>1, <2>4 DEF Konami, Goto
  <2>5. CASE IdleRevKonami
    BY <2>1, <2>5 DEF IdleRevKonami, Goto
  <2>6. CASE PartyExit \/ ScaryExit
    <3>1. state' \in Machine!Reaction(state, "PS2_LONG")
      BY <2>6 DEF PartyExit, ScaryExit, Goto
    <3> QED
      BY <2>1, <3>1
  <2>7. CASE ChaseUp \/ ChaseDown \/ IdleLeft \/ IdleRight \/ IdleDown \/ IdlePS2
             \/ IdleDeleteShown \/ IdleDeleteLast
    BY <2>7 DEF ChaseUp, ChaseDown, IdleLeft, IdleRight, IdleDown, ShowScene, IdlePS2,
                IdleDeleteShown, IdleDeleteLast
  <2>8. CASE LightMove \/ LightPS2 \/ LightPS2Long \/ ControlLeft \/ ControlRight
    BY <2>8 DEF LightMove, LightPS2, LightPS2Long, ControlLeft, ControlRight, ShowControl
  <2>9. CASE ColorWheelJoystick \/ DmxMove \/ DmxStep \/ DmxPS2 \/ PresetMove \/ Gyro
             \/ UnexpectedData
    BY <2>9 DEF ColorWheelJoystick, DmxMove, DmxStep, DmxPS2, PresetMove, Gyro,
                UnexpectedData
  <2>10. CASE VisualPass
    BY <2>10 DEF VisualPass, HighlightPass, ColourPass, DmxVisualPass, ChasePass, tickFrame
  <2> QED
    BY <2>2, <2>3, <2>4, <2>5, <2>6, <2>7, <2>8, <2>9, <2>10 DEF Next, Command
<1> QED
  BY <1>1, <1>2, ControlIndex, PTL DEF Spec, ImplementsModes, Machine!ModeSpec

-----------------------------------------------------------------------------
(* The selection: why selectedLights.get(0) finds a light *)

\* isSelected flags are set in LIGHT_SELECTION only, there on highlighted lights.
SelectionInv ==
  /\ up /\ HeartbeatCurrent
  /\ SelectionHighlighted
  /\ state # "LIGHT_SELECTION" => selected = {}

LEMMA RemoveLightDomain ==
  ASSUME NEW h, NEW l
  PROVE  DOMAIN removeLight(h, l) = DOMAIN h \ {l}
BY DEF removeLight

LEMMA StartHighlightDomain ==
  ASSUME startHighlight PROVE currentLightIndex \in DOMAIN highlight'
BY DEF startHighlight, addLight

\* KONAMI in IDLE only: the flags and the highlight's list agree, the command loop
\* is alive and the heartbeat has the mode.
THEOREM SelectionInvariant == ASSUME ~KonamiAnywhere PROVE Spec => []SelectionInv
<1>1. Init => SelectionInv
  BY DEF Init, SelectionInv, SelectionHighlighted, HeartbeatCurrent
<1>2. ControlIndexOK /\ SelectionInv /\ [Next]_vars => SelectionInv'
  <2> SUFFICES ASSUME ControlIndexOK, SelectionInv, [Next]_vars PROVE SelectionInv'
    OBVIOUS
  <2> USE DEF SelectionInv, SelectionHighlighted, HeartbeatCurrent
  <2>1. CASE LightMove
    <3> DEFINE cur == currentLightIndex
               prev == PreviousLight
               h == IF cur \notin selected THEN removeLight(highlight, cur) ELSE highlight
    <3>1. /\ state = "LIGHT_SELECTION" /\ cur' = prev
          /\ highlight' = IF prev \notin selected THEN addLight(h, prev, mirror') ELSE h
          /\ UNCHANGED <<state, hbState, up, selected>>
      BY <2>1 DEF LightMove
    <3>2. selected \subseteq DOMAIN h
      BY <3>1, RemoveLightDomain
    <3> HIDE DEF h, prev
    <3>3. prev \in DOMAIN highlight' /\ selected \subseteq DOMAIN highlight'
      BY <3>1, <3>2 DEF addLight
    <3> QED
      BY <3>1, <3>3
  <2>2. CASE LightPS2
    BY <2>2 DEF LightPS2, cursors
  <2>3. CASE LightPS2Long
    BY <2>3 DEF LightPS2Long, addLight, cursors
  <2>4. CASE LightB1
    <3>1. DOMAIN highlight # {} /\ up' = (DOMAIN highlight # {})
      BY <2>4 DEF LightB1
    <3>2. up'
      BY <3>1
    <3>3. state' = "CONTROL_SELECTION" /\ hbState' = state' /\ selected' = {}
      BY <2>4, <3>1 DEF LightB1
    <3> QED
      BY <3>2, <3>3
  <2>5. CASE LightB2
    BY <2>5 DEF LightB2, Goto
  <2>6. CASE IdleB1 \/ ControlB2 \/ ColorWheelB1 \/ DmxB1 \/ PresetB1
    <3>1. /\ state # "LIGHT_SELECTION" /\ Goto("LIGHT_SELECTION") /\ startHighlight
          /\ UNCHANGED <<up, currentLightIndex, selected>>
      BY <2>6 DEF IdleB1, ControlB2, ColorWheelB1, DmxB1, PresetB1, KeepScene, cursors
    <3> QED
      BY <3>1, StartHighlightDomain DEF Goto
  <2>7. CASE ChaseB2 \/ IdleB2 \/ IdleRevKonami \/ Konami \/ ControlB1 \/ ColorWheelB2
             \/ DmxB2 \/ PresetB2 \/ PartyExit \/ ScaryExit
    <3>1. /\ state # "LIGHT_SELECTION" /\ state' # "LIGHT_SELECTION" /\ hbState' = state'
          /\ UNCHANGED <<up, selected>>
      BY <2>7 DEF ChaseB2, IdleB2, IdleRevKonami, Konami, ControlB1, ColorWheelB2, DmxB2,
                  PresetB2, PartyExit, ScaryExit, Goto, highlightVars, ControlIndexOK
    <3> QED
      BY <3>1
  <2>8. CASE ChaseUp \/ ChaseDown \/ IdleLeft \/ IdleRight \/ IdleDown \/ IdlePS2
             \/ IdleDeleteShown \/ IdleDeleteLast \/ ControlLeft \/ ControlRight
             \/ ColorWheelJoystick \/ DmxMove \/ DmxStep \/ DmxPS2 \/ PresetMove \/ Gyro
    <3>1. UNCHANGED <<state, hbState, up, currentLightIndex, selected, highlight>>
      BY <2>8 DEF ChaseUp, ChaseDown, IdleLeft, IdleRight, IdleDown, ShowScene, IdlePS2,
                  IdleDeleteShown, IdleDeleteLast, ControlLeft, ControlRight, ShowControl,
                  ColorWheelJoystick, DmxMove, DmxStep, DmxPS2, PresetMove, Gyro,
                  cursors, highlightVars
    <3> QED
      BY <3>1
  <2>9. CASE UnexpectedData \/ VisualPass \/ UNCHANGED vars
    <3>1. UNCHANGED <<state, up, currentLightIndex, selected, highlight>> /\ hbState' = state
      BY <2>9 DEF UnexpectedData, VisualPass, HighlightPass, ColourPass, DmxVisualPass,
                  ChasePass, tickFrame, cursors, highlightVars, vars
    <3> QED
      BY <3>1
  <2> QED
    BY <2>1, <2>2, <2>3, <2>4, <2>5, <2>6, <2>7, <2>8, <2>9 DEF Next, Command
<1> QED
  BY <1>1, <1>2, ControlIndex, PTL DEF Spec

\* B1 in LIGHT_SELECTION never dies on an empty list, and the mode that the
\* heartbeat broadcasts is the server's.
THEOREM SelectionSafe ==
  ASSUME ~KonamiAnywhere
  PROVE  Spec => [](LoopSurvives /\ SelectionHighlighted /\ HeartbeatCurrent)
<1>1. SelectionInv => LoopSurvives /\ SelectionHighlighted /\ HeartbeatCurrent
  BY DEF SelectionInv, LoopSurvives
<1> QED
  BY <1>1, SelectionInvariant, PTL

-----------------------------------------------------------------------------
(* The visual threads *)

\* The control modes remember which visual they came from.
VisualInv ==
  /\ state \in Modes
  /\ VisualsMatchState
  /\ state = "DMX" => currentControlIndex = -1
  /\ state = "COLOR_WHEEL" => currentControlIndex = 0
  /\ state = "PRESET" => currentControlIndex = 1

\* KONAMI in IDLE only: every visual thread started is stopped by the time its mode
\* is left.
THEOREM VisualInvariant ==
  ASSUME ~KonamiAnywhere
  PROVE  Spec => []VisualInv
<1>1. Init => VisualInv
  BY DEF Init, VisualInv, VisualsMatchState, OwnedVisuals, Modes
<1>2. ControlIndexOK /\ SelectionInv /\ VisualInv /\ [Next]_vars => VisualInv'
  <2> SUFFICES ASSUME ControlIndexOK, SelectionInv, VisualInv, [Next]_vars PROVE VisualInv'
    OBVIOUS
  <2> USE DEF VisualInv, VisualsMatchState, OwnedVisuals, ControlVisual, ControlIndexOK,
              Modes, Swap, Goto, cursors
  <2>1. CASE ChaseB2
    BY <2>1 DEF ChaseB2
  <2>2. CASE IdleB1
    BY <2>2 DEF IdleB1
  <2>3. CASE IdleB2
    BY <2>3 DEF IdleB2
  <2>4. CASE Konami \/ IdleRevKonami \/ PartyExit \/ ScaryExit
    BY <2>4 DEF Konami, IdleRevKonami, PartyExit, ScaryExit
  <2>5. CASE LightB1
    <3>1. state = "LIGHT_SELECTION" /\ DOMAIN highlight # {}
      BY <2>5 DEF LightB1, SelectionInv, SelectionHighlighted
    <3>2. /\ state' = "CONTROL_SELECTION" /\ currentControlIndex' = 1
          /\ visuals' = (visuals \ {"highlight"}) \union {"preset"}
      BY <2>5, <3>1 DEF LightB1
    <3> QED
      BY <3>1, <3>2
  <2>6. CASE LightB2
    BY <2>6 DEF LightB2
  <2>7. CASE ControlLeft \/ ControlRight
    <3>1. PICK i \in {-1, 0, 1}, b \in BOOLEAN : ShowControl(i, b)
      BY <2>7 DEF ControlLeft, ControlRight
    <3>2. /\ state = "CONTROL_SELECTION" /\ state' = state /\ currentControlIndex' = i
          /\ visuals' = (visuals \ {ControlVisual(currentControlIndex)})
                           \union {ControlVisual(i)}
      BY <3>1 DEF ShowControl
    <3> QED
      BY <3>2
  <2>8. CASE ControlB1
    BY <2>8 DEF ControlB1
  <2>9. CASE ControlB2
    BY <2>9 DEF ControlB2
  <2>10. CASE ColorWheelB1 \/ DmxB1 \/ PresetB1
    BY <2>10 DEF ColorWheelB1, DmxB1, PresetB1, KeepScene
  <2>11. CASE ColorWheelB2 \/ DmxB2 \/ PresetB2
    BY <2>11 DEF ColorWheelB2, DmxB2, PresetB2
  <2>12. CASE ChaseUp \/ ChaseDown \/ IdleLeft \/ IdleRight \/ IdleDown \/ IdlePS2
              \/ IdleDeleteShown \/ IdleDeleteLast \/ LightMove \/ LightPS2 \/ LightPS2Long
              \/ ColorWheelJoystick \/ DmxMove \/ DmxStep \/ DmxPS2 \/ PresetMove \/ Gyro
              \/ UnexpectedData \/ VisualPass \/ UNCHANGED vars
    <3>1. UNCHANGED <<state, visuals, currentControlIndex>>
      BY <2>12 DEF ChaseUp, ChaseDown, IdleLeft, IdleRight, IdleDown, ShowScene, IdlePS2,
                   IdleDeleteShown, IdleDeleteLast, LightMove, LightPS2, LightPS2Long,
                   ColorWheelJoystick, DmxMove, DmxStep, DmxPS2, PresetMove, Gyro,
                   UnexpectedData, VisualPass, HighlightPass, ColourPass, DmxVisualPass,
                   ChasePass, tickFrame, vars
    <3> QED
      BY <3>1
  <2> QED
    BY <2>1, <2>2, <2>3, <2>4, <2>5, <2>6, <2>7, <2>8, <2>9, <2>10, <2>11, <2>12
       DEF Next, Command
<1> QED
  BY <1>1, <1>2, ControlIndex, SelectionInvariant, PTL DEF Spec

\* In each mode exactly the visual thread the mode owns is running.
THEOREM VisualsSafe ==
  ASSUME ~KonamiAnywhere
  PROVE  Spec => []VisualsMatchState
<1>1. VisualInv => VisualsMatchState
  BY DEF VisualInv
<1> QED
  BY <1>1, VisualInvariant, PTL

-----------------------------------------------------------------------------
(* The cursors and the lights they point at *)

CursorInv ==
  /\ currentLightIndex \in Light /\ selected \subseteq Light
  /\ DOMAIN highlight \subseteq Light /\ selectedLights \subseteq Light
  /\ currentChannelIndex \in 0 .. 511
  /\ currentPresetIndex \in 0 .. NumPresets - 1
  /\ chaseStep \in 0 .. ChaseSteps

\* Whatever packets arrive, the cursors stay inside what they index.
THEOREM CursorInvariant == Spec => []CursorInv
<1> USE ServerAppAssumption
<1>1. Init => CursorInv
  BY DEF Init, CursorInv, Light, NoHighlight
<1>2. ControlIndexOK /\ CursorInv /\ [Next]_vars => CursorInv'
  <2> SUFFICES ASSUME ControlIndexOK, CursorInv, [Next]_vars PROVE CursorInv'
    OBVIOUS
  <2> USE DEF CursorInv
  <2>1. CASE ChaseUp
    BY <2>1 DEF ChaseUp, highlightVars
  <2>2. CASE ChaseDown
    BY <2>2 DEF ChaseDown, highlightVars
  <2>3. CASE LightMove
    <3>1. PreviousLight \in Light
      BY DEF PreviousLight, Light
    <3>2. /\ currentLightIndex' = PreviousLight
          /\ UNCHANGED <<selected, selectedLights, currentChannelIndex,
                         currentPresetIndex, chaseStep>>
      BY <2>3 DEF LightMove
    <3>3. DOMAIN highlight' \subseteq DOMAIN highlight \union {PreviousLight}
      BY <2>3 DEF LightMove, addLight, removeLight
    <3> QED
      BY <3>1, <3>2, <3>3
  <2>4. CASE LightPS2
    BY <2>4 DEF LightPS2, cursors
  <2>5. CASE LightPS2Long
    BY <2>5 DEF LightPS2Long, addLight, cursors
  <2>6. CASE LightB1
    BY <2>6 DEF LightB1, redrumHighlight, NoHighlight
  <2>7. CASE LightB2
    BY <2>7 DEF LightB2, redrumHighlight, NoHighlight, cursors
  <2>8. CASE IdleB1 \/ ControlB2 \/ ColorWheelB1 \/ DmxB1 \/ PresetB1
    <3>1. startHighlight /\ UNCHANGED <<cursors, selected, selectedLights>>
      BY <2>8 DEF IdleB1, ControlB2, ColorWheelB1, DmxB1, PresetB1, KeepScene
    <3>2. DOMAIN highlight' = {currentLightIndex}
      BY <3>1 DEF startHighlight, addLight, NoHighlight
    <3> QED
      BY <3>1, <3>2 DEF cursors
  <2>9. CASE ControlB1
    <3>1. currentChannelIndex' = 0 \/ currentChannelIndex' = currentChannelIndex
      BY <2>9 DEF ControlB1, ControlIndexOK
    <3> QED
      BY <2>9, <3>1 DEF ControlB1, highlightVars
  <2>10. CASE DmxMove
    <3>1. PICK first \in selectedLights :
            \/ currentChannelIndex' = IF currentChannelIndex = 0 THEN NumChannels[first] - 1
                                      ELSE currentChannelIndex - 1
            \/ currentChannelIndex' = IF currentChannelIndex + 1 >= NumChannels[first] THEN 0
                                      ELSE currentChannelIndex + 1
      BY <2>10 DEF DmxMove
    <3>2. NumChannels[first] \in 1 .. 512
      OBVIOUS
    <3>3. currentChannelIndex' \in 0 .. 511
      BY <3>1, <3>2
    <3> QED
      BY <2>10, <3>3 DEF DmxMove, highlightVars
  <2>11. CASE PresetMove
    <3>1. PICK d \in {1, NumPresets - 1} :
            currentPresetIndex' = (currentPresetIndex + d) % NumPresets
      BY <2>11 DEF PresetMove
    <3>2. currentPresetIndex' \in 0 .. NumPresets - 1
      BY <3>1
    <3> QED
      BY <2>11, <3>2 DEF PresetMove, highlightVars
  <2>12. CASE ControlLeft \/ ControlRight
    BY <2>12 DEF ControlLeft, ControlRight, ShowControl, highlightVars
  <2>13. CASE ChaseB2 \/ IdleLeft \/ IdleRight \/ IdleDown \/ IdleB2 \/ IdlePS2
              \/ IdleDeleteShown \/ IdleDeleteLast \/ Konami \/ IdleRevKonami
              \/ ColorWheelB2 \/ ColorWheelJoystick \/ DmxStep \/ DmxPS2 \/ DmxB2
              \/ PresetB2 \/ PartyExit \/ ScaryExit \/ Gyro \/ UnexpectedData
              \/ VisualPass \/ UNCHANGED vars
    <3>1. UNCHANGED <<cursors, selected, highlight, selectedLights>>
      BY <2>13 DEF ChaseB2, IdleLeft, IdleRight, IdleDown, ShowScene, IdleB2, IdlePS2,
                   IdleDeleteShown, IdleDeleteLast, Konami, IdleRevKonami, ColorWheelB2,
                   ColorWheelJoystick, DmxStep, DmxPS2, DmxB2, PresetB2, PartyExit,
                   ScaryExit, Gyro, UnexpectedData, VisualPass, HighlightPass, ColourPass,
                   DmxVisualPass, ChasePass, tickFrame, vars, highlightVars
    <3> QED
      BY <3>1 DEF cursors
  <2> QED
    BY <2>1, <2>2, <2>3, <2>4, <2>5, <2>6, <2>7, <2>8, <2>9, <2>10, <2>11, <2>12, <2>13
       DEF Next, Command
<1> QED
  BY <1>1, <1>2, ControlIndex, PTL DEF Spec

\* LEFT and RIGHT of DMX mode stay inside the first light's channels.
LEMMA ChannelStep ==
  ASSUME NEW n \in 1 .. 512, NEW c \in 0 .. 511, c < n
  PROVE  /\ (IF c = 0 THEN n - 1 ELSE c - 1) < n
         /\ (IF c + 1 >= n THEN 0 ELSE c + 1) < n
OBVIOUS

ControlModes == {"CONTROL_SELECTION", "COLOR_WHEEL", "DMX", "PRESET"}

\* DMX control is on offer only while the lights' channels agree.
ChannelInv ==
  /\ state = "DMX" \/ (state = "CONTROL_SELECTION" /\ currentControlIndex = -1)
       => canChangeDMX
  /\ state \in ControlModes /\ canChangeDMX => SameChannelCount(selectedLights)
  /\ ChannelInRange

\* KONAMI in IDLE only: the channel cursor of DMX mode is good for every light.
THEOREM ChannelInvariant ==
  ASSUME ~KonamiAnywhere
  PROVE  Spec => []ChannelInv
<1> USE ServerAppAssumption
<1>1. Init => ChannelInv
  BY DEF Init, ChannelInv, ChannelInRange, ControlModes
<1>2. ControlIndexOK /\ SelectionInv /\ VisualInv /\ CursorInv /\ ChannelInv /\ [Next]_vars
        => ChannelInv'
  <2> SUFFICES ASSUME ControlIndexOK, SelectionInv, VisualInv, CursorInv, ChannelInv,
                      [Next]_vars
               PROVE  ChannelInv'
    OBVIOUS
  <2> USE DEF ChannelInv, ChannelInRange, ControlModes
  <2>1. CASE LightB1
    <3>1. DOMAIN highlight # {}
      BY <2>1 DEF LightB1, SelectionInv, SelectionHighlighted
    <3>2. /\ state' = "CONTROL_SELECTION" /\ currentControlIndex' = 1
          /\ selectedLights' = DOMAIN highlight
      BY <2>1, <3>1 DEF LightB1
    <3>3. canChangeDMX' = SameChannelCount(DOMAIN highlight)
      BY <2>1, <3>1, Zenon DEF LightB1
    <3>4. canChangeDMX' => SameChannelCount(selectedLights')
      BY <3>2, <3>3
    <3> QED
      BY <3>2, <3>4 DEF SameChannelCount
  <2>2. CASE ControlLeft \/ ControlRight
    <3>1. currentControlIndex' = -1 => canChangeDMX
      BY <2>2 DEF ControlLeft, ControlRight, ShowControl
    <3>2. /\ state = "CONTROL_SELECTION" /\ state' = state
          /\ UNCHANGED <<canChangeDMX, selectedLights, currentChannelIndex>>
      BY <2>2 DEF ControlLeft, ControlRight, ShowControl
    <3> QED
      BY <3>1, <3>2 DEF SameChannelCount
  <2>3. CASE ControlB1
    <3>1. /\ state = "CONTROL_SELECTION"
          /\ \/ currentControlIndex = -1 /\ state' = "DMX" /\ currentChannelIndex' = 0
             \/ state' \in {"COLOR_WHEEL", "PRESET"}
          /\ UNCHANGED <<canChangeDMX, selectedLights, currentControlIndex>>
      BY <2>3 DEF ControlB1, ControlIndexOK, Goto
    <3>2. \A l \in selectedLights : NumChannels[l] \in 1 .. 512
      BY DEF CursorInv
    <3> QED
      BY <3>1, <3>2 DEF SameChannelCount
  <2>4. CASE DmxMove
    <3>1. PICK first \in selectedLights :
            \/ currentChannelIndex' = IF currentChannelIndex = 0 THEN NumChannels[first] - 1
                                      ELSE currentChannelIndex - 1
            \/ currentChannelIndex' = IF currentChannelIndex + 1 >= NumChannels[first] THEN 0
                                      ELSE currentChannelIndex + 1
      BY <2>4 DEF DmxMove
    <3>2. state = "DMX" /\ UNCHANGED <<state, canChangeDMX, selectedLights, currentControlIndex>>
      BY <2>4 DEF DmxMove
    <3>3. \A l \in selectedLights : NumChannels[l] = NumChannels[first]
      BY <3>2 DEF SameChannelCount
    <3>4. NumChannels[first] \in 1 .. 512 /\ currentChannelIndex \in 0 .. 511
          /\ currentChannelIndex < NumChannels[first]
      BY <3>2 DEF CursorInv
    <3>5. currentChannelIndex' < NumChannels[first]
      <4>1. /\ (IF currentChannelIndex = 0 THEN NumChannels[first] - 1
                ELSE currentChannelIndex - 1) < NumChannels[first]
            /\ (IF currentChannelIndex + 1 >= NumChannels[first] THEN 0
                ELSE currentChannelIndex + 1) < NumChannels[first]
        BY <3>4, ChannelStep
      <4> QED
        BY <3>1, <4>1, Zenon
    <3> QED
      BY <3>2, <3>3, <3>5 DEF SameChannelCount
  <2>5. CASE ColorWheelB2 \/ DmxB2 \/ PresetB2
    <3>1. /\ state \in {"COLOR_WHEEL", "DMX", "PRESET"} /\ state' = "CONTROL_SELECTION"
          /\ UNCHANGED <<canChangeDMX, selectedLights, currentControlIndex>>
      BY <2>5 DEF ColorWheelB2, DmxB2, PresetB2, Goto, cursors
    <3>2. state' = "CONTROL_SELECTION" /\ currentControlIndex' = -1 => canChangeDMX'
      BY <3>1 DEF VisualInv
    <3> QED
      BY <3>1, <3>2 DEF SameChannelCount
  <2>6. CASE IdleB1 \/ IdleB2 \/ ChaseB2 \/ Konami \/ IdleRevKonami \/ LightB2 \/ ControlB2
             \/ ColorWheelB1 \/ DmxB1 \/ PresetB1 \/ PartyExit \/ ScaryExit
    <3>1. state' \notin ControlModes
      BY <2>6 DEF IdleB1, IdleB2, ChaseB2, Konami, IdleRevKonami, LightB2, ControlB2,
                  ColorWheelB1, DmxB1, PresetB1, KeepScene, PartyExit, ScaryExit, Goto
    <3> QED
      BY <3>1
  <2>7. CASE ChaseUp \/ ChaseDown \/ IdleLeft \/ IdleRight \/ IdleDown \/ IdlePS2
             \/ IdleDeleteShown \/ IdleDeleteLast \/ LightMove \/ LightPS2 \/ LightPS2Long
             \/ ColorWheelJoystick \/ DmxStep \/ DmxPS2 \/ PresetMove \/ Gyro
             \/ UnexpectedData \/ VisualPass \/ UNCHANGED vars
    <3>1. UNCHANGED <<state, currentControlIndex, currentChannelIndex, canChangeDMX,
                      selectedLights>>
      BY <2>7 DEF ChaseUp, ChaseDown, IdleLeft, IdleRight, IdleDown, ShowScene, IdlePS2,
                  IdleDeleteShown, IdleDeleteLast, LightMove, LightPS2, LightPS2Long,
                  ColorWheelJoystick, DmxStep, DmxPS2, PresetMove, Gyro, UnexpectedData,
                  VisualPass, HighlightPass, ColourPass, DmxVisualPass, ChasePass,
                  tickFrame, cursors, vars
    <3> QED
      BY <3>1 DEF SameChannelCount
  <2> QED
    BY <2>1, <2>2, <2>3, <2>4, <2>5, <2>6, <2>7 DEF Next, Command
<1> QED
  BY <1>1, <1>2, ControlIndex, SelectionInvariant, VisualInvariant, CursorInvariant, PTL
     DEF Spec

-----------------------------------------------------------------------------
(* The scenes: temporary effects are never kept *)

\* Modes in which a blinking effect may be on the lights
Blinking == state = "LIGHT_SELECTION"
            \/ (state = "CONTROL_SELECTION" /\ currentControlIndex = -1)

SceneInv ==
  /\ currentScene = Clean
  /\ scenes \in Seq({Clean}) /\ sceneFile \in Seq({Clean})
  /\ currentIndex \in -1 .. Len(scenes) - 1
  /\ Blinking \/ dmx = Clean

LEMMA PaintClean ==
  ASSUME NEW S, NEW gone
  PROVE  Paint(Clean, S, gone, {}) = Clean
BY DEF Paint, Clean

LEMMA StoredClean ==
  ASSUME NEW q \in Seq({Clean}), NEW i \in 1 .. Len(q)
  PROVE  q[i] = Clean
OBVIOUS

\* A list of clean scenes stays one when an element is taken out.
LEMMA WithoutClean ==
  ASSUME scenes \in Seq({Clean}), scenes # <<>>, NEW i \in 0 .. Len(scenes) - 1
  PROVE  Without(i) \in Seq({Clean}) /\ Len(Without(i)) = Len(scenes) - 1
<1>1. Len(scenes) - 1 \in Nat
  BY EmptySeq
<1>2. \A k \in 1 .. Len(scenes) - 1 : scenes[k] = Clean /\ scenes[k + 1] = Clean
  <2>1. Len(scenes) \in Nat
    OBVIOUS
  <2>2. \A k \in 1 .. Len(scenes) - 1 : k \in 1 .. Len(scenes) /\ k + 1 \in 1 .. Len(scenes)
    BY <2>1
  <2> QED
    BY <2>2, StoredClean
<1>3. Without(i) \in [1 .. Len(scenes) - 1 -> {Clean}]
  BY <1>2 DEF Without
<1>4. Without(i) \in Seq({Clean})
  BY <1>1, <1>3, SeqDef
<1> QED
  BY <1>1, <1>3, <1>4, LenProperties

LEMMA ShowClean ==
  ASSUME SceneInv, NEW i \in {LastIndex, NextIndex, -1}
  PROVE  i \in -1 .. Len(scenes) - 1 /\ SceneAt(i) = Clean
<1>1. Len(scenes) \in Nat
  BY DEF SceneInv
<1>2. i \in -1 .. Len(scenes) - 1
  BY <1>1 DEF LastIndex, NextIndex, SceneInv
<1>3. i = -1 \/ i + 1 \in 1 .. Len(scenes)
  BY <1>1, <1>2
<1> QED
  BY <1>2, <1>3, StoredClean DEF SceneAt, SceneInv

\* KONAMI in IDLE only: the stored and the current scene carry no mark of the
\* highlight or of the DMX preview, and neither does the output wherever it is kept.
THEOREM SceneInvariant ==
  ASSUME ~KonamiAnywhere
  PROVE  Spec => []SceneInv
<1>1. Init => SceneInv
  <2> SUFFICES ASSUME Init PROVE SceneInv
    OBVIOUS
  <2>1. PICK n \in 0 .. MaxScenes : scenes = [i \in 1 .. n |-> Clean]
    BY DEF Init
  <2>2. n \in Nat /\ scenes \in [1 .. n -> {Clean}]
    BY <2>1, ServerAppAssumption
  <2>3. scenes \in Seq({Clean})
    BY <2>2, SeqDef
  <2>4. Len(scenes) \in Nat
    BY <2>3
  <2> QED
    BY <2>3, <2>4 DEF Init, SceneInv
<1>2. ControlIndexOK /\ SelectionInv /\ VisualInv /\ SceneInv /\ [Next]_vars => SceneInv'
  <2> SUFFICES ASSUME ControlIndexOK, SelectionInv, VisualInv, SceneInv, [Next]_vars
               PROVE  SceneInv'
    OBVIOUS
  <2>0. Len(scenes) \in Nat
    BY DEF SceneInv
  <2>1. ASSUME UNCHANGED sceneVars, dmx' = Clean PROVE SceneInv'
    BY <2>1 DEF SceneInv, sceneVars
  <2>2. ASSUME UNCHANGED sceneVars, Blinking' PROVE SceneInv'
    BY <2>2 DEF SceneInv, sceneVars
  <2>4. CASE IdleLeft \/ IdleRight \/ IdleDown
    <3>1. PICK i \in {LastIndex, NextIndex, -1} : ShowScene(i)
      BY <2>4 DEF IdleLeft, IdleRight, IdleDown
    <3> QED
      BY <3>1, ShowClean DEF ShowScene, SceneInv
  <2>5. CASE IdleB1 \/ ColorWheelB1 \/ DmxB1 \/ PresetB1
    <3>1. /\ currentScene' = dmx /\ currentIndex' = -1 /\ ~Blinking
          /\ UNCHANGED <<scenes, sceneFile, dmx>>
      BY <2>5 DEF IdleB1, ColorWheelB1, DmxB1, PresetB1, KeepScene, lampVars, Blinking
    <3> QED
      BY <3>1, <2>0 DEF SceneInv
  <2>6. CASE IdlePS2
    <3>1. /\ scenes' = Append(scenes, dmx) /\ sceneFile' = scenes' /\ dmx = Clean
          /\ UNCHANGED <<currentScene, currentIndex, dmx>>
      BY <2>6 DEF IdlePS2, lampVars, SceneInv, Blinking
    <3>2. scenes' \in Seq({Clean}) /\ Len(scenes') = Len(scenes) + 1
      BY <3>1 DEF SceneInv
    <3> QED
      BY <3>1, <3>2, <2>0 DEF SceneInv
  <2>7. CASE IdleDeleteShown
    <3>1. /\ currentIndex # -1 /\ scenes' = Without(currentIndex) /\ sceneFile' = scenes'
          /\ currentIndex' = -1 /\ dmx' = currentScene /\ currentScene' = currentScene
      BY <2>7 DEF IdleDeleteShown, revertScene
    <3>2. scenes # <<>> /\ currentIndex \in 0 .. Len(scenes) - 1
      BY <3>1, <2>0 DEF SceneInv
    <3>3. scenes' \in Seq({Clean}) /\ Len(scenes') = Len(scenes) - 1
      BY <3>1, <3>2, WithoutClean DEF SceneInv
    <3> QED
      BY <3>1, <3>2, <3>3, <2>0 DEF SceneInv
  <2>8. CASE IdleDeleteLast
    <3>1. /\ currentIndex = -1 /\ dmx' = Clean
          /\ scenes' = IF scenes = <<>> THEN scenes ELSE Without(Len(scenes) - 1)
          /\ UNCHANGED <<currentScene, currentIndex, sceneFile>>
      BY <2>8 DEF IdleDeleteLast
    <3>2. ASSUME scenes # <<>> PROVE Len(scenes) - 1 \in 0 .. Len(scenes) - 1
      BY <3>2, <2>0, EmptySeq DEF SceneInv
    <3>3. scenes' \in Seq({Clean}) /\ Len(scenes') \in Nat
      BY <3>1, <3>2, WithoutClean DEF SceneInv
    <3> QED
      BY <3>1, <3>3 DEF SceneInv
  <2>9. CASE LightMove \/ LightPS2 \/ LightPS2Long \/ ControlB2
    <3>1. state' = "LIGHT_SELECTION" /\ UNCHANGED sceneVars
      BY <2>9 DEF LightMove, LightPS2, LightPS2Long, ControlB2, Goto
    <3> QED
      BY <3>1, <2>2 DEF Blinking
  <2>10. CASE ChaseB2 \/ LightB2 \/ DmxB2
    <3>1. UNCHANGED sceneVars /\ dmx' = currentScene
      BY <2>10 DEF ChaseB2, LightB2, DmxB2, revertScene
    <3> QED
      BY <3>1, <2>1 DEF SceneInv
  <2>11. CASE LightB1
    <3>1. DOMAIN highlight # {}
      BY <2>11 DEF LightB1, SelectionInv, SelectionHighlighted
    <3>2. UNCHANGED sceneVars /\ dmx' = currentScene
      BY <2>11, <3>1 DEF LightB1, revertScene
    <3> QED
      BY <3>2, <2>1 DEF SceneInv
  <2>12. CASE ControlLeft \/ ControlRight
    <3>1. ASSUME NEW i \in {-1, 0, 1}, ShowControl(i, TRUE)
          PROVE  state = "CONTROL_SELECTION" /\ UNCHANGED sceneVars /\ dmx' = currentScene
      BY <3>1, Zenon DEF ShowControl, revertScene
    <3>2. ASSUME NEW i \in {-1, 0, 1}, ShowControl(i, FALSE)
          PROVE  state = "CONTROL_SELECTION" /\ UNCHANGED sceneVars /\ dmx' = dmx
      BY <3>2, Zenon DEF ShowControl, lampVars
    <3>3. /\ state = "CONTROL_SELECTION" /\ UNCHANGED sceneVars
          /\ dmx' = currentScene \/ (dmx' = dmx /\ currentControlIndex # -1)
      <4>1. -1 \in {-1, 0, 1} /\ 0 \in {-1, 0, 1} /\ 1 \in {-1, 0, 1}
        OBVIOUS
      <4>2. \/ \E i \in {-1, 0, 1} : ShowControl(i, TRUE)
            \/ /\ \E i \in {-1, 0, 1} : ShowControl(i, FALSE)
               /\ currentControlIndex = 0 \/ currentControlIndex = 1
        BY <2>12, <4>1, Zenon DEF ControlLeft, ControlRight
      <4>3. CASE \E i \in {-1, 0, 1} : ShowControl(i, TRUE)
        BY <3>1, <4>3, Zenon
      <4>4. CASE /\ \E i \in {-1, 0, 1} : ShowControl(i, FALSE)
                 /\ currentControlIndex = 0 \/ currentControlIndex = 1
        <5>1. state = "CONTROL_SELECTION" /\ UNCHANGED sceneVars /\ dmx' = dmx
          BY <3>2, <4>4, Zenon
        <5> QED
          BY <4>4, <5>1
      <4> QED
        BY <4>2, <4>3, <4>4, Zenon
    <3> QED
      BY <3>3, <2>1 DEF SceneInv, Blinking
  <2>13. CASE ControlB1
    <3>1. /\ state = "CONTROL_SELECTION" /\ UNCHANGED sceneVars
          /\ dmx' = currentScene \/ (dmx' = dmx /\ currentControlIndex # -1)
      <4>1. state = "CONTROL_SELECTION" /\ UNCHANGED sceneVars
        BY <2>13 DEF ControlB1
      <4>2. currentControlIndex = -1 => dmx' = currentScene
        BY <2>13 DEF ControlB1, revertScene
      <4>3. ASSUME currentControlIndex = 0 PROVE dmx' = dmx
        BY <2>13, <4>3 DEF ControlB1, lampVars
      <4>4. ASSUME currentControlIndex = 1 PROVE dmx' = dmx
        BY <2>13, <4>4 DEF ControlB1, lampVars
      <4> QED
        BY <4>1, <4>2, <4>3, <4>4 DEF ControlIndexOK
    <3> QED
      BY <3>1, <2>1 DEF SceneInv, Blinking
  <2>14. CASE IdleB2 \/ Konami \/ IdleRevKonami \/ ChaseUp \/ ChaseDown \/ ColorWheelB2
              \/ DmxMove \/ PresetB2 \/ PartyExit \/ ScaryExit
    <3>1. ~Blinking /\ UNCHANGED <<sceneVars, dmx>>
      BY <2>14 DEF IdleB2, Konami, IdleRevKonami, ChaseUp, ChaseDown, ColorWheelB2, DmxMove,
                   PresetB2, PartyExit, ScaryExit, Blinking, lampVars
    <3> QED
      BY <3>1, <2>1 DEF SceneInv
  <2>15. CASE ColorWheelJoystick \/ DmxStep \/ DmxPS2 \/ PresetMove \/ Gyro
    <3>1. ~Blinking /\ UNCHANGED sceneVars /\ \E S, gone : dmx' = Paint(dmx, S, gone, {})
      BY <2>15 DEF ColorWheelJoystick, DmxStep, DmxPS2, PresetMove, Gyro, Write, Blinking
    <3> QED
      BY <3>1, <2>1, PaintClean DEF SceneInv
  <2>16. CASE UnexpectedData \/ UNCHANGED vars
    BY <2>16 DEF UnexpectedData, vars, SceneInv, sceneVars, lampVars, Blinking, cursors
  <2>17. CASE HighlightPass
    <3>1. "highlight" \in visuals /\ UNCHANGED <<sceneVars, state>>
      BY <2>17 DEF HighlightPass, tickFrame
    <3>2. state = "LIGHT_SELECTION"
      BY <3>1 DEF VisualInv, VisualsMatchState, OwnedVisuals, ControlVisual, ControlIndexOK
    <3> QED
      BY <3>1, <3>2, <2>2 DEF Blinking
  <2>18. CASE ColourPass
    <3>1. /\ visuals \intersect {"preset", "rainbow"} # {} /\ UNCHANGED sceneVars
          /\ dmx' = Paint(dmx, selectedLights, ColourAndDimmer, {})
      BY <2>18 DEF ColourPass, Write, tickFrame
    <3>2. ~Blinking
      BY <3>1 DEF VisualInv, VisualsMatchState, OwnedVisuals, ControlVisual, ControlIndexOK,
                  Blinking
    <3> QED
      BY <3>1, <3>2, <2>1, PaintClean DEF SceneInv
  <2>19. CASE DmxVisualPass
    <3>1. "dmxVisual" \in visuals /\ UNCHANGED <<sceneVars, state, currentControlIndex>>
      BY <2>19 DEF DmxVisualPass, tickFrame, cursors
    <3>2. Blinking
      BY <3>1 DEF VisualInv, VisualsMatchState, OwnedVisuals, ControlVisual, ControlIndexOK,
                  Blinking
    <3> QED
      BY <3>1, <3>2, <2>2 DEF Blinking
  <2>20. CASE ChasePass
    <3>1. UNCHANGED sceneVars /\ \E i \in 1 .. Len(scenes) : dmx' = scenes[i]
      BY <2>20 DEF ChasePass, tickFrame
    <3> QED
      BY <3>1, <2>1, StoredClean DEF SceneInv
  <2> QED
    BY <2>4, <2>5, <2>6, <2>7, <2>8, <2>9, <2>10, <2>11, <2>12, <2>13, <2>14, <2>15,
       <2>16, <2>17, <2>18, <2>19, <2>20 DEF Next, Command, VisualPass
<1> QED
  BY <1>1, <1>2, ControlIndex, SelectionInvariant, VisualInvariant, PTL DEF Spec

-----------------------------------------------------------------------------
(* The fixtures' copies, and the types of everything else *)

LampInv ==
  /\ dmx \in Look /\ mirror \in Look
  /\ highlight \in [DOMAIN highlight -> SUBSET Marks]
  /\ MirrorFresh

LEMMA CleanLook == Clean \in Look
BY DEF Clean, Look

LEMMA PaintLook ==
  ASSUME NEW f \in Look, NEW S, NEW gone, NEW new \in SUBSET Marks
  PROVE  Paint(f, S, gone, new) \in Look
BY DEF Paint, Look

LEMMA SyncedLook ==
  ASSUME NEW f \in Look, NEW m \in Look, NEW S
  PROVE  Synced(m, S, f) \in Look
BY DEF Synced, Look

LEMMA RemovedLook ==
  ASSUME LampInv, NEW S
  PROVE  removedMirror(highlight, S, mirror) \in Look
BY DEF LampInv, removedMirror, Look

\* Putting the scene back also brings the selected fixtures' copies up to date.
LEMMA RevertFresh ==
  ASSUME SceneInv, CursorInv, NEW m \in Look, revertScene(m, selectedLights)
  PROVE  /\ dmx' \in Look /\ mirror' \in Look
         /\ \A l \in selectedLights : mirror'[l] = dmx'[l]
<1>1. dmx' = currentScene /\ mirror' = Synced(m, selectedLights, currentScene)
  BY DEF revertScene
<1>2. currentScene \in Look
  BY CleanLook DEF SceneInv
<1> QED
  BY <1>1, <1>2, SyncedLook DEF Synced, CursorInv

\* A write through the setters reaches the driver and the copy alike.
LEMMA WriteFresh ==
  ASSUME LampInv, CursorInv, NEW S, NEW gone, NEW new \in SUBSET Marks, Write(S, gone, new)
  PROVE  /\ dmx' \in Look /\ mirror' \in Look
         /\ \A l \in selectedLights : mirror[l] = dmx[l] => mirror'[l] = dmx'[l]
<1>1. dmx' = Paint(dmx, S, gone, new) /\ mirror' = Paint(mirror, S, gone, new)
  BY DEF Write
<1>2. dmx' \in Look /\ mirror' \in Look
  BY <1>1, PaintLook DEF LampInv
<1> QED
  BY <1>1, <1>2 DEF Paint, CursorInv

\* KONAMI in IDLE only: the look of the lights is well formed, and in DMX mode the
\* selected fixtures' copies are what is on stage.
THEOREM LampInvariant ==
  ASSUME ~KonamiAnywhere
  PROVE  Spec => []LampInv
<1>1. Init => LampInv
  BY CleanLook DEF Init, LampInv, NoHighlight, MirrorFresh
<1>2. /\ ControlIndexOK /\ SelectionInv /\ VisualInv /\ CursorInv /\ SceneInv /\ LampInv
      /\ [Next]_vars
      => LampInv'
  <2> SUFFICES ASSUME ControlIndexOK, SelectionInv, VisualInv, CursorInv, SceneInv, LampInv,
                      [Next]_vars
               PROVE  LampInv'
    OBVIOUS
  <2> USE DEF LampInv, MirrorFresh
  <2>1. mirror \in Look /\ \A S : removedMirror(highlight, S, mirror) \in Look
    BY RemovedLook
  <2>2. CASE IdleLeft \/ IdleRight \/ IdleDown
    <3>1. PICK i \in {LastIndex, NextIndex, -1} : ShowScene(i)
      BY <2>2 DEF IdleLeft, IdleRight, IdleDown
    <3>2. dmx' = Clean /\ state' = "IDLE" /\ UNCHANGED <<mirror, highlight>>
      BY <3>1, ShowClean DEF ShowScene, highlightVars
    <3> QED
      BY <3>2, CleanLook
  <2>3. CASE IdleB1 \/ ColorWheelB1 \/ DmxB1 \/ PresetB1
    <3>1. state' = "LIGHT_SELECTION" /\ startHighlight /\ UNCHANGED lampVars
      BY <2>3 DEF IdleB1, ColorWheelB1, DmxB1, PresetB1, KeepScene, Goto
    <3>2. highlight' \in [DOMAIN highlight' -> SUBSET Marks]
      BY <3>1 DEF startHighlight, addLight, NoHighlight, lampVars, Look, CursorInv
    <3> QED
      BY <3>1, <3>2 DEF lampVars
  <2>4. CASE ControlB2
    <3>1. /\ state' = "LIGHT_SELECTION" /\ startHighlight
          /\ revertScene(mirror, selectedLights)
      BY <2>4 DEF ControlB2, Goto
    <3>2. dmx' \in Look /\ mirror' \in Look
      BY <2>1, <3>1, RevertFresh
    <3>3. highlight' \in [DOMAIN highlight' -> SUBSET Marks]
      BY <3>1, <3>2 DEF startHighlight, addLight, NoHighlight, Look, CursorInv
    <3> QED
      BY <3>1, <3>2, <3>3
  <2>5. CASE LightMove
    <3> DEFINE cur == currentLightIndex
               prev == PreviousLight
               h == IF cur \notin selected THEN removeLight(highlight, cur) ELSE highlight
    <3>1. /\ state = "LIGHT_SELECTION" /\ state' = state
          /\ highlight' = IF prev \notin selected THEN addLight(h, prev, mirror') ELSE h
          /\ \/ revertScene(removedMirror(highlight, {cur}, mirror), selectedLights)
             \/ UNCHANGED lampVars
      BY <2>5 DEF LightMove
    <3>2. dmx' \in Look /\ mirror' \in Look
      BY <2>1, <3>1, RevertFresh DEF lampVars
    <3>3. prev \in Light
      BY ServerAppAssumption DEF PreviousLight, Light, CursorInv
    <3>4. h \in [DOMAIN h -> SUBSET Marks]
      BY DEF removeLight
    <3> HIDE DEF h, prev
    <3>5. highlight' \in [DOMAIN highlight' -> SUBSET Marks]
      BY <3>1, <3>2, <3>3, <3>4 DEF addLight, Look
    <3> QED
      BY <3>1, <3>2, <3>5
  <2>6. CASE LightPS2Long
    BY <2>6 DEF LightPS2Long, addLight, lampVars, Look, CursorInv
  <2>7. CASE LightB1
    <3>1. DOMAIN highlight # {}
      BY <2>7 DEF LightB1, SelectionInv, SelectionHighlighted
    <3>2. /\ state' = "CONTROL_SELECTION" /\ highlight' = NoHighlight
          /\ dmx' = currentScene
          /\ mirror' = Synced(removedMirror(highlight, DOMAIN highlight, mirror),
                              DOMAIN highlight, currentScene)
      BY <2>7, <3>1 DEF LightB1, redrumHighlight, revertScene
    <3>3. dmx' \in Look /\ mirror' \in Look
      BY <3>2, <2>1, CleanLook, SyncedLook DEF SceneInv
    <3> QED
      BY <3>2, <3>3 DEF NoHighlight
  <2>8. CASE LightB2
    <3>1. /\ state' = "IDLE" /\ highlight' = NoHighlight
          /\ revertScene(removedMirror(highlight, DOMAIN highlight, mirror), selectedLights)
      BY <2>8 DEF LightB2, redrumHighlight, Goto
    <3>2. dmx' \in Look /\ mirror' \in Look
      BY <3>1, <2>1, RevertFresh
    <3> QED
      BY <3>1, <3>2 DEF NoHighlight
  <2>9. CASE ChaseB2 \/ IdleDeleteShown \/ DmxB2
    <3>1. revertScene(mirror, selectedLights) /\ UNCHANGED <<highlight, selectedLights>>
      BY <2>9 DEF ChaseB2, IdleDeleteShown, DmxB2, highlightVars
    <3> QED
      BY <3>1, <2>1, RevertFresh
  <2>10. CASE ControlLeft \/ ControlRight
    <3>1. /\ state' = "CONTROL_SELECTION" /\ UNCHANGED highlight
          /\ revertScene(mirror, selectedLights) \/ UNCHANGED lampVars
      BY <2>10 DEF ControlLeft, ControlRight, ShowControl, highlightVars
    <3> QED
      BY <3>1, <2>1, RevertFresh DEF lampVars
  <2>11. CASE ControlB1
    <3>1. UNCHANGED <<highlight, selectedLights>>
      BY <2>11 DEF ControlB1, highlightVars
    <3>2. ASSUME currentControlIndex = -1 PROVE revertScene(mirror, selectedLights)
      BY <2>11, <3>2 DEF ControlB1
    <3>3. ASSUME currentControlIndex = 0 PROVE UNCHANGED lampVars /\ state' = "COLOR_WHEEL"
      BY <2>11, <3>3 DEF ControlB1, Goto
    <3>4. ASSUME currentControlIndex = 1 PROVE UNCHANGED lampVars /\ state' = "PRESET"
      BY <2>11, <3>4 DEF ControlB1, Goto
    <3>5. CASE currentControlIndex = -1
      BY <2>1, <3>1, <3>2, <3>5, RevertFresh
    <3>6. CASE currentControlIndex \in {0, 1}
      <4>1. UNCHANGED lampVars /\ state' # "DMX"
        BY <3>3, <3>4, <3>6
      <4> QED
        BY <3>1, <4>1 DEF lampVars
    <3> QED
      BY <3>5, <3>6 DEF ControlIndexOK
  <2>12. CASE ColorWheelJoystick \/ DmxStep \/ DmxPS2 \/ PresetMove \/ Gyro
    <3>1. /\ \E S, gone : Write(S, gone, {})
          /\ UNCHANGED <<state, highlight, selectedLights>>
      BY <2>12 DEF ColorWheelJoystick, DmxStep, DmxPS2, PresetMove, Gyro, highlightVars
    <3>2. PICK S, gone : Write(S, gone, {})
      BY <3>1
    <3> QED
      BY <3>1, <3>2, WriteFresh
  <2>13. CASE ColourPass \/ DmxVisualPass
    <3>1. /\ \E gone, new \in SUBSET Marks : Write(selectedLights, gone, new)
          /\ UNCHANGED <<state, highlight, selectedLights>>
      BY <2>13 DEF ColourPass, DmxVisualPass, tickFrame, Marks, ColourAndDimmer
    <3>2. PICK gone \in SUBSET Marks, new \in SUBSET Marks : Write(selectedLights, gone, new)
      BY <3>1
    <3> QED
      BY <3>1, <3>2, WriteFresh
  <2>14. CASE HighlightPass
    <3> DEFINE lights == DOMAIN highlight
               m == IF updateDefaultColor THEN Synced(mirror, lights, dmx) ELSE mirror
    <3>1. PICK G :
            /\ dmx' = Paint(Paint(dmx, G, {}, {"glow"}), lights, {}, {"pulse"})
            /\ mirror' = Paint(Paint(m, G, {}, {"glow"}), lights, {}, {"pulse"})
      BY <2>14 DEF HighlightPass
    <3>2. m \in Look /\ {"glow"} \in SUBSET Marks /\ {"pulse"} \in SUBSET Marks
      BY SyncedLook DEF Marks
    <3> HIDE DEF m
    <3>3. Paint(dmx, G, {}, {"glow"}) \in Look /\ Paint(m, G, {}, {"glow"}) \in Look
      BY <3>2, PaintLook
    <3>4. dmx' \in Look /\ mirror' \in Look
      BY <3>1, <3>2, <3>3, PaintLook
    <3>5. "highlight" \in visuals /\ UNCHANGED <<state, highlight>>
      BY <2>14 DEF HighlightPass, tickFrame
    <3>6. state = "LIGHT_SELECTION"
      BY <3>5 DEF VisualInv, VisualsMatchState, OwnedVisuals, ControlVisual, ControlIndexOK
    <3> QED
      BY <3>4, <3>5, <3>6
  <2>15. CASE ChasePass
    <3>1. /\ "chase" \in visuals /\ UNCHANGED <<state, highlight, mirror>>
          /\ \E i \in 1 .. Len(scenes) : dmx' = scenes[i]
      BY <2>15 DEF ChasePass, tickFrame
    <3>2. dmx' \in Look
      BY <3>1, StoredClean, CleanLook DEF SceneInv
    <3>3. state = "CHASE"
      BY <3>1 DEF VisualInv, VisualsMatchState, OwnedVisuals, ControlVisual, ControlIndexOK
    <3> QED
      BY <3>1, <3>2, <3>3
  <2>16. CASE IdleDeleteLast
    <3>1. dmx' = Clean /\ state' = "IDLE" /\ UNCHANGED <<mirror, highlight>>
      BY <2>16 DEF IdleDeleteLast, highlightVars
    <3> QED
      BY <3>1, CleanLook
  <2>17. CASE IdleB2 \/ IdlePS2 \/ Konami \/ IdleRevKonami \/ ChaseUp \/ ChaseDown
              \/ LightPS2 \/ ColorWheelB2 \/ DmxMove \/ PresetB2 \/ PartyExit \/ ScaryExit
              \/ UnexpectedData \/ UNCHANGED vars
    <3>1. /\ UNCHANGED <<dmx, mirror, highlight, selectedLights>>
          /\ state' # "DMX" \/ state' = state
      BY <2>17 DEF IdleB2, IdlePS2, Konami, IdleRevKonami, ChaseUp, ChaseDown, LightPS2,
                   ColorWheelB2, DmxMove, PresetB2, PartyExit, ScaryExit, UnexpectedData,
                   Goto, vars, lampVars, highlightVars
    <3> QED
      BY <3>1
  <2> QED
    BY <2>2, <2>3, <2>4, <2>5, <2>6, <2>7, <2>8, <2>9, <2>10, <2>11, <2>12, <2>13, <2>14,
       <2>15, <2>16, <2>17 DEF Next, Command, VisualPass
<1> QED
  BY <1>1, <1>2, ControlIndex, SelectionInvariant, VisualInvariant, CursorInvariant,
     SceneInvariant, PTL DEF Spec

-----------------------------------------------------------------------------
(* Everything together *)

FlagInv == up \in BOOLEAN /\ canChangeDMX \in BOOLEAN /\ updateDefaultColor \in BOOLEAN

LEMMA Flags == Spec => []FlagInv
<1>1. Init => FlagInv
  BY Zenon DEF Init, FlagInv
<1>2. FlagInv /\ [Next]_vars => FlagInv'
  <2> SUFFICES ASSUME FlagInv, [Next]_vars PROVE FlagInv'
    OBVIOUS
  <2>1. CASE LightB1
    <3>1. up' \in BOOLEAN
      BY <2>1, Zenon DEF LightB1
    <3>2. canChangeDMX' \in BOOLEAN
      <4>1. canChangeDMX' = SameChannelCount(DOMAIN highlight)
            \/ canChangeDMX' = canChangeDMX
        BY <2>1, Zenon DEF LightB1
      <4> QED
        BY <4>1, Zenon DEF SameChannelCount, FlagInv
    <3>3. updateDefaultColor' = updateDefaultColor
      BY <2>1, Zenon DEF LightB1, redrumHighlight
    <3> QED
      BY <3>1, <3>2, <3>3, Zenon DEF FlagInv
  <2>2. CASE IdleB1 \/ ControlB2 \/ ColorWheelB1 \/ DmxB1 \/ PresetB1
    <3>1. startHighlight /\ UNCHANGED <<up, canChangeDMX>>
      BY <2>2 DEF IdleB1, ControlB2, ColorWheelB1, DmxB1, PresetB1, KeepScene, cursors
    <3>2. updateDefaultColor' \in BOOLEAN
      BY <3>1, Zenon DEF startHighlight
    <3> QED
      BY <3>1, <3>2 DEF FlagInv
  <2>3. CASE LightMove
    <3>1. updateDefaultColor' \in BOOLEAN
      BY <2>3, Zenon DEF LightMove
    <3>2. UNCHANGED <<up, canChangeDMX>>
      BY <2>3 DEF LightMove
    <3> QED
      BY <3>1, <3>2 DEF FlagInv
  <2>4. CASE LightPS2Long
    <3>1. updateDefaultColor' \in BOOLEAN
      BY <2>4, Zenon DEF LightPS2Long
    <3>2. UNCHANGED <<up, canChangeDMX>>
      BY <2>4 DEF LightPS2Long, cursors
    <3> QED
      BY <3>1, <3>2 DEF FlagInv
  <2>5. CASE HighlightPass
    <3>1. updateDefaultColor' \in BOOLEAN
      BY <2>5, Zenon DEF HighlightPass
    <3>2. UNCHANGED <<up, canChangeDMX>>
      BY <2>5 DEF HighlightPass, tickFrame, cursors
    <3> QED
      BY <3>1, <3>2 DEF FlagInv
  <2>6. CASE ControlLeft \/ ControlRight
    <3>1. UNCHANGED <<up, canChangeDMX, updateDefaultColor>>
      BY <2>6 DEF ControlLeft, ControlRight, ShowControl, highlightVars
    <3> QED
      BY <3>1 DEF FlagInv
  <2>7. CASE ChaseUp \/ ChaseDown \/ ChaseB2 \/ IdleLeft \/ IdleRight \/ IdleDown \/ IdleB2
             \/ IdlePS2 \/ IdleDeleteShown \/ IdleDeleteLast \/ Konami \/ IdleRevKonami
             \/ LightPS2 \/ LightB2 \/ ControlB1
    <3>1. UNCHANGED <<up, canChangeDMX, updateDefaultColor>>
      BY <2>7 DEF ChaseUp, ChaseDown, ChaseB2, IdleLeft, IdleRight, IdleDown, ShowScene,
                  IdleB2, IdlePS2, IdleDeleteShown, IdleDeleteLast, Konami, IdleRevKonami,
                  LightPS2, LightB2, redrumHighlight, ControlB1, cursors, highlightVars
    <3> QED
      BY <3>1 DEF FlagInv
  <2>8. CASE ColorWheelB2 \/ ColorWheelJoystick \/ DmxMove \/ DmxStep \/ DmxPS2 \/ DmxB2
             \/ PresetMove \/ PresetB2 \/ PartyExit \/ ScaryExit \/ Gyro \/ UnexpectedData
             \/ ColourPass \/ DmxVisualPass \/ ChasePass \/ UNCHANGED vars
    <3>1. UNCHANGED <<up, canChangeDMX, updateDefaultColor>>
      BY <2>8 DEF ColorWheelB2, ColorWheelJoystick, DmxMove, DmxStep, DmxPS2, DmxB2,
                  PresetMove, PresetB2, PartyExit, ScaryExit, Gyro, UnexpectedData,
                  ColourPass, DmxVisualPass, ChasePass, tickFrame, cursors, highlightVars,
                  vars
    <3> QED
      BY <3>1 DEF FlagInv
  <2> QED
    BY <2>1, <2>2, <2>3, <2>4, <2>5, <2>6, <2>7, <2>8 DEF Next, Command, VisualPass
<1> QED
  BY <1>1, <1>2, PTL DEF Spec

\* KONAMI in IDLE only: types, the scene list and its cursor, no effect kept in a
\* scene, the channel cursor and the values DMX mode starts from.
THEOREM ServerAppSafe ==
  ASSUME ~KonamiAnywhere
  PROVE  Spec => [](TypeOK /\ ScenesClean /\ ChannelInRange /\ MirrorFresh)
<1>1. ASSUME ControlIndexOK, SelectionInv, VisualInv, CursorInv, ChannelInv, SceneInv,
             LampInv, FlagInv
      PROVE  TypeOK /\ ScenesClean /\ ChannelInRange /\ MirrorFresh
  <2>1. Len(scenes) \in Nat /\ currentIndex \in -1 .. Len(scenes) - 1
    BY <1>1 DEF SceneInv
  <2>2. scenes \in Seq(Look) /\ sceneFile \in Seq(Look) /\ currentScene \in Look
    BY <1>1, CleanLook DEF SceneInv
  <2>3. ScenesClean
    BY <1>1, StoredClean DEF SceneInv, ScenesClean
  <2>4. state \in Modes /\ hbState \in Modes /\ visuals \in SUBSET Visuals
    BY <1>1 DEF SelectionInv, HeartbeatCurrent, VisualInv, VisualsMatchState, OwnedVisuals,
                ControlVisual, ControlIndexOK, Visuals
  <2>5. /\ dmx \in Look /\ mirror \in Look /\ highlight \in [DOMAIN highlight -> SUBSET Marks]
        /\ MirrorFresh /\ ChannelInRange
    BY <1>1 DEF LampInv, ChannelInv
  <2>6. TypeOK
    BY <1>1, <2>1, <2>2, <2>4, <2>5 DEF TypeOK, CursorInv, FlagInv, ControlIndexOK
  <2> QED
    BY <2>3, <2>5, <2>6
<1> QED
  BY <1>1, ControlIndex, SelectionInvariant, VisualInvariant, CursorInvariant,
     ChannelInvariant, SceneInvariant, LampInvariant, Flags, PTL
=============================================================================
