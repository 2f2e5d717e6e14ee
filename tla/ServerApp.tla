------------------------------ MODULE ServerApp ------------------------------
(***************************************************************************)
(* The command loop of the lighting server, ServerAppThread: its mode      *)
(* machine, the list of highlighted lights, the visual threads it starts   *)
(* and stops, the scenes, and what all of them leave on the DMX output.    *)
(*                                                                         *)
(* One action is one command taken from commandQ (or one pass of a visual  *)
(* thread).  A handler that stops a visual thread joins it before it goes  *)
(* on, so no pass of that thread falls inside the handler.                 *)
(*                                                                         *)
(* DMX values are abstracted to what a scene must not contain: the marks a *)
(* temporary effect left on a light.  "pulse" is a dimmer written by the   *)
(* highlight or by the DMX preview, "glow" the default colour switched on  *)
(* by the highlight, "white" the white channel of the DMX preview.         *)
(***************************************************************************)
EXTENDS Integers, Sequences

CONSTANTS
  NumLights,       \* fixtures in the FixtureManager
  NumChannels,     \* channels of each fixture
  NumPresets,      \* length of LightingDefines.PRESETS
  ChaseSteps,      \* (MAX_CHASE_DELAY - MIN_CHASE_DELAY) / CHASE_STEP
  MaxScenes,       \* bound of the model on the number of stored scenes
  KonamiAnywhere   \* may a KONAMI packet (late, duplicated) arrive outside IDLE?

Light == 0 .. NumLights - 1

ASSUME ServerAppAssumption ==
  /\ NumLights \in Nat \ {0}
  /\ NumChannels \in [Light -> 1 .. 512]
  /\ NumPresets \in Nat \ {0}
  /\ ChaseSteps \in Nat
  /\ MaxScenes \in Nat
  /\ KonamiAnywhere \in BOOLEAN

VARIABLES
  state,           \* currentState
  hbState,         \* the heartbeat's copy of the state, broadcast to the controller
  up,              \* the command loop has not died of an exception
  visuals,         \* visual threads that are running
  currentLightIndex, currentControlIndex, currentChannelIndex, currentPresetIndex,
  canChangeDMX,
  chaseStep,       \* chaseSceneDelay = MIN_CHASE_DELAY + chaseStep * CHASE_STEP
  selected,        \* lights whose isSelected flag is set
  highlight,       \* the highlight's lights, each with its entry of savedValues
  updateDefaultColor,
  selectedLights,  \* lights handed to the control modes ({} for null)
  dmx,             \* marks on each light in the DMX driver
  mirror,          \* marks in each FixtureProfile's own copy, dmxVals
  currentScene, scenes, currentIndex,
  sceneFile        \* scenes of the last updateSceneFile

cursors == <<currentLightIndex, currentControlIndex, currentChannelIndex,
             currentPresetIndex, canChangeDMX, chaseStep>>
highlightVars == <<selected, highlight, updateDefaultColor>>
lampVars == <<dmx, mirror>>
sceneVars == <<currentScene, scenes, currentIndex, sceneFile>>
vars == <<state, hbState, up, visuals, cursors, highlightVars, selectedLights,
          lampVars, sceneVars>>

Modes == {"CHASE", "IDLE", "LIGHT_SELECTION", "CONTROL_SELECTION",
          "COLOR_WHEEL", "DMX", "PRESET", "PARTY", "SCARY"}
Visuals == {"chase", "highlight", "preset", "rainbow", "dmxVisual"}
Marks == {"pulse", "glow", "white"}
Look == [Light -> SUBSET Marks]
Clean == [l \in Light |-> {}]

\* The mode machine this module implements
Machine == INSTANCE ModeMachine WITH mode <- state

-----------------------------------------------------------------------------
(* Helpers of the handlers *)

\* currentState = s; sendHeartbeat = true
Goto(s) == state' = s /\ hbState' = s

\* One write to the lights in S: the channels written lose the marks gone and
\* carry the marks new.
Paint(look, S, gone, new) ==
  [l \in Light |-> IF l \in S THEN (look[l] \ gone) \union new ELSE look[l]]

\* FixtureProfile setters write the fixture's mirror and the driver.
Write(S, gone, new) ==
  /\ dmx' = Paint(dmx, S, gone, new)
  /\ mirror' = Paint(mirror, S, gone, new)

\* syncLight on the lights in S, with the driver at look
Synced(m, S, look) == [l \in Light |-> IF l \in S THEN look[l] ELSE m[l]]

\* Mutated form of revertScene: the fixtures are not synced.
revertSceneUnsynced(m, S) ==
  /\ dmx' = currentScene
  /\ mirror' = m

\* revertScene() with selectedLights = S, the mirrors being m
revertScene(m, S) ==
  /\ dmx' = currentScene
  /\ mirror' = Synced(m, S, currentScene)

\* setColor: the colour channels only; setColor and setDimmerValue together
Colour == {"glow"}
ColourAndDimmer == {"glow", "pulse"}

\* HighlightThread.addLight: remembers the mirror, unless l is there already
addLight(h, l, m) ==
  [k \in DOMAIN h \union {l} |-> IF k \in DOMAIN h THEN h[k] ELSE m[k]]

\* HighlightThread.removeLight on the lights in S: the mirrors afterwards
removedMirror(h, S, m) ==
  [l \in Light |-> IF l \in S \intersect DOMAIN h THEN h[l] ELSE m[l]]

removeLight(h, l) == [k \in DOMAIN h \ {l} |-> h[k]]

NoHighlight == [l \in {} |-> {}]

\* new HighlightThread(), addLight(current light), start()
startHighlight ==
  /\ highlight' = addLight(NoHighlight, currentLightIndex, mirror')
  /\ updateDefaultColor' = TRUE

\* HighlightThread.redrum() puts every saved value back; the thread is joined
redrumHighlight == highlight' = NoHighlight /\ UNCHANGED updateDefaultColor

Swap(old, new) == visuals' = (visuals \ old) \union new

\* The visual of currentControlIndex
ControlVisual(i) ==
  CASE i = -1 -> "dmxVisual" [] i = 0 -> "rainbow" [] i = 1 -> "preset"

-----------------------------------------------------------------------------
(* CHASE *)

ChaseUp ==
  /\ state = "CHASE"
  /\ chaseStep < ChaseSteps
  /\ chaseStep' = chaseStep + 1
  /\ UNCHANGED <<state, hbState, up, visuals, currentLightIndex,
                 currentControlIndex, currentChannelIndex, currentPresetIndex,
                 canChangeDMX, highlightVars, selectedLights, lampVars, sceneVars>>

ChaseDown ==
  /\ state = "CHASE"
  /\ chaseStep > 0
  /\ chaseStep' = chaseStep - 1
  /\ UNCHANGED <<state, hbState, up, visuals, currentLightIndex,
                 currentControlIndex, currentChannelIndex, currentPresetIndex,
                 canChangeDMX, highlightVars, selectedLights, lampVars, sceneVars>>

ChaseB2 ==
  /\ state = "CHASE"
  /\ Goto("IDLE")
  /\ Swap({"chase"}, {})
  /\ revertScene(mirror, selectedLights)
  /\ UNCHANGED <<up, cursors, highlightVars, selectedLights, sceneVars>>

-----------------------------------------------------------------------------
(* IDLE *)

\* The stored scene at 0-based index i, or the current scene at -1
SceneAt(i) == IF i = -1 THEN currentScene ELSE scenes[i + 1]

\* SceneManager.getLastScene and getNextScene
LastIndex ==
  IF currentIndex = -1 THEN Len(scenes) - 1 ELSE currentIndex - 1
NextIndex ==
  IF currentIndex + 1 >= Len(scenes) THEN -1 ELSE currentIndex + 1

ShowScene(i) ==
  /\ state = "IDLE"
  /\ currentIndex' = i
  /\ dmx' = SceneAt(i)
  /\ UNCHANGED <<state, hbState, up, visuals, cursors, highlightVars,
                 selectedLights, mirror, currentScene, scenes, sceneFile>>

IdleLeft == ShowScene(LastIndex)
IdleRight == ShowScene(NextIndex)
IdleDown == ShowScene(-1)

IdleB1 ==
  /\ state = "IDLE"
  /\ Goto("LIGHT_SELECTION")
  /\ currentScene' = dmx
  /\ currentIndex' = -1
  /\ UNCHANGED lampVars
  /\ startHighlight
  /\ Swap({}, {"highlight"})
  /\ UNCHANGED <<up, cursors, selected, selectedLights, scenes, sceneFile>>

IdleB2 ==
  /\ state = "IDLE"
  /\ Len(scenes) > 1
  /\ Goto("CHASE")
  /\ Swap({}, {"chase"})
  /\ UNCHANGED <<up, cursors, highlightVars, selectedLights, lampVars, sceneVars>>

IdlePS2 ==
  /\ state = "IDLE"
  /\ currentIndex = -1
  /\ Len(scenes) < MaxScenes
  /\ scenes' = Append(scenes, dmx)
  /\ sceneFile' = scenes'
  /\ UNCHANGED <<state, hbState, up, visuals, cursors, highlightVars,
                 selectedLights, lampVars, currentScene, currentIndex>>

\* scenes.remove(i), i counted from 0
Without(i) ==
  [k \in 1 .. Len(scenes) - 1 |-> IF k <= i THEN scenes[k] ELSE scenes[k + 1]]

\* Mutated form of IdleDeleteShown: the scene cursor stays where it was.
IdleDeleteKeepsIndex ==
  /\ state = "IDLE"
  /\ currentIndex # -1
  /\ scenes' = Without(currentIndex)
  /\ sceneFile' = scenes'
  /\ revertScene(mirror, selectedLights)
  /\ UNCHANGED <<state, hbState, up, visuals, cursors, highlightVars,
                 selectedLights, currentScene, currentIndex>>

\* The stored scene on show is deleted, the file rewritten, the scene reverted.
IdleDeleteShown ==
  /\ state = "IDLE"
  /\ currentIndex # -1
  /\ scenes' = Without(currentIndex)
  /\ sceneFile' = scenes'
  /\ currentIndex' = -1
  /\ revertScene(mirror, selectedLights)
  /\ UNCHANGED <<state, hbState, up, visuals, cursors, highlightVars,
                 selectedLights, currentScene>>

\* No stored scene on show: the last one is deleted (if there is one), the
\* output cleared, and the file left as it was.
IdleDeleteLast ==
  /\ state = "IDLE"
  /\ currentIndex = -1
  /\ scenes' = IF scenes = <<>> THEN scenes ELSE Without(Len(scenes) - 1)
  /\ dmx' = Clean
  /\ UNCHANGED <<state, hbState, up, visuals, cursors, highlightVars,
                 selectedLights, mirror, currentScene, currentIndex, sceneFile>>

\* KONAMI is handled by IDLE and, before it, by the switch over the user action
\* that precedes the mode switch, in whatever mode the server is.
Konami ==
  /\ state = "IDLE" \/ KonamiAnywhere
  /\ Goto("PARTY")
  /\ UNCHANGED <<up, visuals, cursors, highlightVars, selectedLights, lampVars,
                 sceneVars>>

IdleRevKonami ==
  /\ state = "IDLE"
  /\ Goto("SCARY")
  /\ UNCHANGED <<up, visuals, cursors, highlightVars, selectedLights, lampVars,
                 sceneVars>>

-----------------------------------------------------------------------------
(* LIGHT_SELECTION *)

\* LEFT and RIGHT have the same body: both step to the previous light.
PreviousLight ==
  IF currentLightIndex = 0 THEN NumLights - 1 ELSE currentLightIndex - 1

LightMove ==
  LET cur == currentLightIndex
      leave == cur \notin selected
      enter == PreviousLight \notin selected
      h == IF leave THEN removeLight(highlight, cur) ELSE highlight
  IN /\ state = "LIGHT_SELECTION"
     /\ IF leave
        THEN revertScene(removedMirror(highlight, {cur}, mirror), selectedLights)
        ELSE UNCHANGED lampVars
     /\ currentLightIndex' = PreviousLight
     /\ highlight' = IF enter THEN addLight(h, PreviousLight, mirror') ELSE h
     /\ updateDefaultColor' =
          (updateDefaultColor \/ leave \/ (enter /\ PreviousLight \notin DOMAIN h))
     /\ UNCHANGED <<state, hbState, up, visuals, currentControlIndex,
                    currentChannelIndex, currentPresetIndex, canChangeDMX,
                    chaseStep, selected, selectedLights, sceneVars>>

LightPS2 ==
  /\ state = "LIGHT_SELECTION"
  /\ selected' = IF currentLightIndex \in selected
                 THEN selected \ {currentLightIndex}
                 ELSE selected \union {currentLightIndex}
  /\ UNCHANGED <<state, hbState, up, visuals, cursors, highlight,
                 updateDefaultColor, selectedLights, lampVars, sceneVars>>

\* Mutated form of LightPS2Long: the highlight's list is cleared too.
LightPS2LongClears ==
  /\ state = "LIGHT_SELECTION"
  /\ selected' = {}
  /\ highlight' = NoHighlight
  /\ UNCHANGED <<state, hbState, up, visuals, cursors, updateDefaultColor,
                 selectedLights, lampVars, sceneVars>>

LightPS2Long ==
  /\ state = "LIGHT_SELECTION"
  /\ selected' = {}
  /\ highlight' = addLight(highlight, currentLightIndex, mirror)
  /\ updateDefaultColor' =
       (updateDefaultColor \/ currentLightIndex \notin DOMAIN highlight)
  /\ UNCHANGED <<state, hbState, up, visuals, cursors, selectedLights, lampVars,
                 sceneVars>>

\* Mutated form of SameChannelCount: only the first light is looked at.
AnyChannelCount(S) == \A l \in S : NumChannels[l] = NumChannels[l]

SameChannelCount(S) == \A k, l \in S : NumChannels[k] = NumChannels[l]

\* With no light highlighted selectedLights.get(0) throws and the loop dies.
LightB1 ==
  LET lights == DOMAIN highlight IN
  /\ state = "LIGHT_SELECTION"
  /\ state' = "CONTROL_SELECTION"
  /\ selectedLights' = lights
  /\ redrumHighlight
  /\ up' = (lights # {})
  /\ IF lights = {}
     THEN /\ Swap({"highlight"}, {})
          /\ UNCHANGED <<hbState, selected, currentControlIndex, canChangeDMX,
                         lampVars>>
     ELSE /\ Swap({"highlight"}, {"preset"})
          /\ hbState' = "CONTROL_SELECTION"
          /\ selected' = {}
          /\ canChangeDMX' = SameChannelCount(lights)
          /\ currentControlIndex' = 1
          /\ revertScene(removedMirror(highlight, lights, mirror), lights)
  /\ UNCHANGED <<currentLightIndex, currentChannelIndex, currentPresetIndex,
                 chaseStep, sceneVars>>

\* Mutated form of LightB2: the highlight thread is not stopped.
LightB2KeepsThread ==
  /\ state = "LIGHT_SELECTION"
  /\ Goto("IDLE")
  /\ revertScene(mirror, selectedLights)
  /\ selected' = {}
  /\ UNCHANGED <<up, visuals, cursors, highlight, updateDefaultColor,
                 selectedLights, sceneVars>>

LightB2 ==
  /\ state = "LIGHT_SELECTION"
  /\ Goto("IDLE")
  /\ Swap({"highlight"}, {})
  /\ revertScene(removedMirror(highlight, DOMAIN highlight, mirror), selectedLights)
  /\ redrumHighlight
  /\ selected' = {}
  /\ UNCHANGED <<up, cursors, selectedLights, sceneVars>>

-----------------------------------------------------------------------------
(* CONTROL_SELECTION *)

\* Mutated form of ShowControl: what the visual painted is left on the lights.
ShowControlUnreverted(i, revert) ==
  /\ state = "CONTROL_SELECTION"
  /\ Swap({ControlVisual(currentControlIndex)}, {ControlVisual(i)})
  /\ currentControlIndex' = i
  /\ UNCHANGED <<state, hbState, up, currentLightIndex, currentChannelIndex,
                 currentPresetIndex, canChangeDMX, chaseStep, highlightVars,
                 selectedLights, lampVars, sceneVars>>

\* Move from the visual shown to visual i, putting the scene back or not.
ShowControl(i, revert) ==
  /\ state = "CONTROL_SELECTION"
  /\ Swap({ControlVisual(currentControlIndex)}, {ControlVisual(i)})
  /\ currentControlIndex' = i
  /\ IF revert THEN revertScene(mirror, selectedLights) ELSE UNCHANGED lampVars
  /\ UNCHANGED <<state, hbState, up, currentLightIndex, currentChannelIndex,
                 currentPresetIndex, canChangeDMX, chaseStep, highlightVars,
                 selectedLights, sceneVars>>

\* DMX control is offered only when all lights have the same channels.
ControlLeft ==
  \/ currentControlIndex = -1 /\ ShowControl(1, TRUE)
  \/ currentControlIndex = 0 /\ canChangeDMX /\ ShowControl(-1, TRUE)
  \/ currentControlIndex = 0 /\ ~canChangeDMX /\ ShowControl(1, FALSE)
  \/ currentControlIndex = 1 /\ ShowControl(0, TRUE)

ControlRight ==
  \/ currentControlIndex = -1 /\ ShowControl(0, TRUE)
  \/ currentControlIndex = 0 /\ ShowControl(1, TRUE)
  \/ currentControlIndex = 1 /\ canChangeDMX /\ ShowControl(-1, TRUE)
  \/ currentControlIndex = 1 /\ ~canChangeDMX /\ ShowControl(0, FALSE)

\* Only the way into DMX mode puts the scene back.
ControlB1 ==
  /\ state = "CONTROL_SELECTION"
  /\ Swap({ControlVisual(currentControlIndex)}, {})
  /\ CASE currentControlIndex = -1 ->
            /\ Goto("DMX")
            /\ revertScene(mirror, selectedLights)
            /\ currentChannelIndex' = 0
       [] currentControlIndex = 0 ->
            Goto("COLOR_WHEEL") /\ UNCHANGED <<lampVars, currentChannelIndex>>
       [] currentControlIndex = 1 ->
            Goto("PRESET") /\ UNCHANGED <<lampVars, currentChannelIndex>>
  /\ UNCHANGED <<up, currentLightIndex, currentControlIndex, currentPresetIndex,
                 canChangeDMX, chaseStep, highlightVars, selectedLights, sceneVars>>

\* Mutated form of ControlB2: leaves for IDLE, as B2 does one level up.
ControlB2ToIdle ==
  /\ state = "CONTROL_SELECTION"
  /\ Goto("IDLE")
  /\ Swap({ControlVisual(currentControlIndex)}, {})
  /\ revertScene(mirror, selectedLights)
  /\ UNCHANGED <<up, cursors, highlightVars, selectedLights, sceneVars>>

ControlB2 ==
  /\ state = "CONTROL_SELECTION"
  /\ Goto("LIGHT_SELECTION")
  /\ Swap({ControlVisual(currentControlIndex)}, {"highlight"})
  /\ revertScene(mirror, selectedLights)
  /\ startHighlight
  /\ UNCHANGED <<up, cursors, selected, selectedLights, sceneVars>>

-----------------------------------------------------------------------------
(* COLOR_WHEEL, DMX and PRESET *)

\* B1 in each of the three: the output becomes the current scene.
KeepScene(mode) ==
  /\ state = mode
  /\ currentScene' = dmx
  /\ currentIndex' = -1
  /\ Goto("LIGHT_SELECTION")
  /\ UNCHANGED lampVars
  /\ startHighlight
  /\ Swap({}, {"highlight"})
  /\ UNCHANGED <<up, cursors, selected, selectedLights, scenes, sceneFile>>

ColorWheelB1 == KeepScene("COLOR_WHEEL")
DmxB1 == KeepScene("DMX")
PresetB1 == KeepScene("PRESET")

ColorWheelB2 ==
  /\ state = "COLOR_WHEEL"
  /\ Goto("CONTROL_SELECTION")
  /\ Swap({}, {"rainbow"})
  /\ UNCHANGED <<up, cursors, highlightVars, selectedLights, lampVars, sceneVars>>

ColorWheelJoystick ==
  /\ state = "COLOR_WHEEL"
  /\ Write(selectedLights, Colour, {})
  /\ UNCHANGED <<state, hbState, up, visuals, cursors, highlightVars,
                 selectedLights, sceneVars>>

\* The wrap-around is taken from selectedLights.get(0), any light of the set.
DmxMove ==
  /\ state = "DMX"
  /\ \E first \in selectedLights :
       \/ currentChannelIndex' =
            IF currentChannelIndex = 0 THEN NumChannels[first] - 1
            ELSE currentChannelIndex - 1
       \/ currentChannelIndex' =
            IF currentChannelIndex + 1 >= NumChannels[first] THEN 0
            ELSE currentChannelIndex + 1
  /\ UNCHANGED <<state, hbState, up, visuals, currentLightIndex,
                 currentControlIndex, currentPresetIndex, canChangeDMX, chaseStep,
                 highlightVars, selectedLights, lampVars, sceneVars>>

\* UP and DOWN: the lights of S take the step, the others are at the limit; the
\* channel written carries the marks ms.
DmxStep ==
  /\ state = "DMX"
  /\ \E S \in SUBSET selectedLights, ms \in SUBSET Marks : Write(S, ms, {})
  /\ UNCHANGED <<state, hbState, up, visuals, cursors, highlightVars,
                 selectedLights, sceneVars>>

DmxPS2 ==
  /\ state = "DMX"
  /\ Write(selectedLights, Marks, {})
  /\ UNCHANGED <<state, hbState, up, visuals, cursors, highlightVars,
                 selectedLights, sceneVars>>

DmxB2 ==
  /\ state = "DMX"
  /\ Goto("CONTROL_SELECTION")
  /\ revertScene(mirror, selectedLights)
  /\ Swap({}, {"dmxVisual"})
  /\ UNCHANGED <<up, cursors, highlightVars, selectedLights, sceneVars>>

\* LEFT and RIGHT: the next preset, cyclically, on every selected light
PresetMove ==
  /\ state = "PRESET"
  /\ \E d \in {1, NumPresets - 1} :
       currentPresetIndex' = (currentPresetIndex + d) % NumPresets
  /\ Write(selectedLights, Colour, {})
  /\ UNCHANGED <<state, hbState, up, visuals, currentLightIndex,
                 currentControlIndex, currentChannelIndex, canChangeDMX, chaseStep,
                 highlightVars, selectedLights, sceneVars>>

PresetB2 ==
  /\ state = "PRESET"
  /\ Goto("CONTROL_SELECTION")
  /\ Swap({}, {"preset"})
  /\ UNCHANGED <<up, cursors, highlightVars, selectedLights, lampVars, sceneVars>>

-----------------------------------------------------------------------------
(* PARTY and SCARY, and packets of a type the mode does not expect *)

PartyExit ==
  /\ state = "PARTY"
  /\ Goto("IDLE")
  /\ UNCHANGED <<up, visuals, cursors, highlightVars, selectedLights, lampVars,
                 sceneVars>>

ScaryExit ==
  /\ state = "SCARY"
  /\ Goto("IDLE")
  /\ UNCHANGED <<up, visuals, cursors, highlightVars, selectedLights, lampVars,
                 sceneVars>>

\* Gyro data sets the dimmer and the colour of every light.
Gyro ==
  /\ state \in {"PARTY", "SCARY"}
  /\ Write(Light, ColourAndDimmer, {})
  /\ UNCHANGED <<state, hbState, up, visuals, cursors, highlightVars,
                 selectedLights, sceneVars>>

\* Data of the wrong type: the controller is told the mode again.
UnexpectedData ==
  /\ state # "PRESET"
  /\ hbState' = state
  /\ UNCHANGED <<state, up, visuals, cursors, highlightVars, selectedLights,
                 lampVars, sceneVars>>

-----------------------------------------------------------------------------
(* One pass of each visual thread *)

tickFrame == <<state, hbState, up, visuals, cursors, selected, highlight,
               selectedLights, sceneVars>>

\* When the flag is set the fixtures are synced first, and those without colour
\* (G) get their default colour.
HighlightPass ==
  LET lights == DOMAIN highlight
      m == IF updateDefaultColor THEN Synced(mirror, lights, dmx) ELSE mirror
  IN /\ "highlight" \in visuals
     /\ \E G \in SUBSET (IF updateDefaultColor THEN lights ELSE {}) :
          /\ dmx' = Paint(Paint(dmx, G, {}, {"glow"}), lights, {}, {"pulse"})
          /\ mirror' = Paint(Paint(m, G, {}, {"glow"}), lights, {}, {"pulse"})
     /\ updateDefaultColor' = FALSE
     /\ UNCHANGED tickFrame

\* PresetVisualThread and RainbowThread set colour and dimmer.
ColourPass ==
  /\ visuals \intersect {"preset", "rainbow"} # {}
  /\ Write(selectedLights, ColourAndDimmer, {})
  /\ UNCHANGED <<tickFrame, updateDefaultColor>>

DmxVisualPass ==
  /\ "dmxVisual" \in visuals
  /\ Write(selectedLights, {}, {"white", "pulse"})
  /\ UNCHANGED <<tickFrame, updateDefaultColor>>

ChasePass ==
  /\ "chase" \in visuals
  /\ \E i \in 1 .. Len(scenes) : dmx' = scenes[i]
  /\ UNCHANGED <<tickFrame, updateDefaultColor, mirror>>

-----------------------------------------------------------------------------
Init ==
  /\ state = "IDLE"
  /\ hbState = "IDLE"
  /\ up = TRUE
  /\ visuals = {}
  /\ currentLightIndex = 0
  /\ currentControlIndex = 0
  /\ currentChannelIndex = 0
  /\ currentPresetIndex = 0
  /\ canChangeDMX = FALSE
  /\ chaseStep \in 0 .. ChaseSteps
  /\ selected = {}
  /\ highlight = NoHighlight
  /\ updateDefaultColor = FALSE
  /\ selectedLights = {}
  /\ dmx = Clean
  /\ mirror = Clean
  /\ currentScene = Clean
  /\ scenes \in {[i \in 1 .. n |-> Clean] : n \in 0 .. MaxScenes}
  /\ currentIndex = -1
  /\ sceneFile = scenes

Command ==
  \/ ChaseUp \/ ChaseDown \/ ChaseB2
  \/ IdleLeft \/ IdleRight \/ IdleDown \/ IdleB1 \/ IdleB2 \/ IdlePS2
  \/ IdleDeleteShown \/ IdleDeleteLast \/ Konami \/ IdleRevKonami
  \/ LightMove \/ LightPS2 \/ LightPS2Long \/ LightB1 \/ LightB2
  \/ ControlLeft \/ ControlRight \/ ControlB1 \/ ControlB2
  \/ ColorWheelB1 \/ ColorWheelB2 \/ ColorWheelJoystick
  \/ DmxMove \/ DmxStep \/ DmxPS2 \/ DmxB1 \/ DmxB2
  \/ PresetMove \/ PresetB1 \/ PresetB2
  \/ PartyExit \/ ScaryExit \/ Gyro \/ UnexpectedData

VisualPass == HighlightPass \/ ColourPass \/ DmxVisualPass \/ ChasePass

Next == (up /\ Command) \/ VisualPass

Spec == Init /\ [][Next]_vars

-----------------------------------------------------------------------------
(* Properties *)

\* The server's state stays in its ranges; the scene cursor is -1 or an index of the
\* list, whatever was deleted.
TypeOK ==
  /\ state \in Modes /\ hbState \in Modes
  /\ up \in BOOLEAN
  /\ visuals \in SUBSET Visuals
  /\ currentLightIndex \in Light
  /\ currentControlIndex \in {-1, 0, 1}
  /\ currentChannelIndex \in 0 .. 511
  /\ currentPresetIndex \in 0 .. NumPresets - 1
  /\ canChangeDMX \in BOOLEAN
  /\ chaseStep \in 0 .. ChaseSteps
  /\ selected \in SUBSET Light
  /\ DOMAIN highlight \in SUBSET Light
  /\ highlight \in [DOMAIN highlight -> SUBSET Marks]
  /\ updateDefaultColor \in BOOLEAN
  /\ selectedLights \in SUBSET Light
  /\ dmx \in Look /\ mirror \in Look /\ currentScene \in Look
  /\ scenes \in Seq(Look) /\ sceneFile \in Seq(Look)
  /\ currentIndex \in -1 .. Len(scenes) - 1

\* The visual threads a mode owns
OwnedVisuals ==
  CASE state = "CHASE" -> {"chase"}
    [] state = "LIGHT_SELECTION" -> {"highlight"}
    [] state = "CONTROL_SELECTION" -> {ControlVisual(currentControlIndex)}
    [] OTHER -> {}

\* Every start of a visual thread is matched by a stop: in each mode exactly the
\* thread that mode owns is running, whichever way the mode was entered.
VisualsMatchState == visuals = OwnedVisuals

\* While lights are being selected, the light under the cursor and every light
\* whose isSelected flag is set are in the highlight's list; so B1 always finds a
\* first element and hands every selected light on.
SelectionHighlighted ==
  state = "LIGHT_SELECTION" =>
    /\ currentLightIndex \in DOMAIN highlight
    /\ selected \subseteq DOMAIN highlight

\* The command loop never dies of selectedLights.get(0) on an empty list.
LoopSurvives == up

\* In DMX mode the channel cursor is a channel of every selected light, so the
\* array accesses of UP and DOWN are in range for all of them.
ChannelInRange ==
  state = "DMX" => \A l \in selectedLights : currentChannelIndex < NumChannels[l]

\* In DMX mode each selected fixture's own copy agrees with the driver: a step of
\* UP or DOWN starts from the value that is on stage.
MirrorFresh ==
  state = "DMX" => \A l \in selectedLights : mirror[l] = dmx[l]

\* No blinking of the highlight or of the DMX preview is ever kept: the current
\* scene and every stored scene are free of marks.
ScenesClean ==
  /\ currentScene = Clean
  /\ \A i \in 1 .. Len(scenes) : scenes[i] = Clean

\* Every change of mode reaches the heartbeat, which tells the controller.
HeartbeatCurrent == hbState = state

\* Each handler changes the mode only along an edge of the mode
\* machine that ModeSync puts behind the network; visual threads leave it alone.
ImplementsModes == Machine!ModeSpec

=============================================================================
