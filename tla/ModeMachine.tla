----------------------------- MODULE ModeMachine -----------------------------
(***************************************************************************)
(* The server's modes and nothing else: which user action may take it from *)
(* which mode to which.  ServerApp implements this machine, and ModeSync   *)
(* uses it in place of ServerApp.                                          *)
(***************************************************************************)
VARIABLE mode

Mode == {"CHASE", "IDLE", "LIGHT_SELECTION", "CONTROL_SELECTION",
         "COLOR_WHEEL", "DMX", "PRESET", "PARTY", "SCARY"}
Key == {"B1", "B2", "B12", "PS2_LONG", "KONAMI", "REV_KONAMI", "other"}

\* The modes the key k may lead to from mode m, m itself if the mode stays.  A
\* KONAMI packet leads to PARTY from everywhere; B2 in IDLE depends on how many
\* scenes are stored, B1 in CONTROL_SELECTION on the control shown.
Reaction(m, k) ==
  CASE k = "KONAMI" -> {"PARTY"}
    [] m = "IDLE" /\ k = "B1" -> {"LIGHT_SELECTION"}
    [] m = "IDLE" /\ k = "B2" -> {"IDLE", "CHASE"}
    [] m = "IDLE" /\ k = "REV_KONAMI" -> {"SCARY"}
    [] m = "CHASE" /\ k = "B2" -> {"IDLE"}
    [] m = "LIGHT_SELECTION" /\ k = "B1" -> {"CONTROL_SELECTION"}
    [] m = "LIGHT_SELECTION" /\ k = "B2" -> {"IDLE"}
    [] m = "CONTROL_SELECTION" /\ k = "B1" -> {"DMX", "COLOR_WHEEL", "PRESET"}
    [] m = "CONTROL_SELECTION" /\ k = "B2" -> {"LIGHT_SELECTION"}
    [] m \in {"COLOR_WHEEL", "DMX", "PRESET"} /\ k = "B1" -> {"LIGHT_SELECTION"}
    [] m \in {"COLOR_WHEEL", "DMX", "PRESET"} /\ k = "B2" -> {"CONTROL_SELECTION"}
    [] m \in {"PARTY", "SCARY"} /\ k = "PS2_LONG" -> {"IDLE"}
    [] OTHER -> {m}

ModeInit == mode = "IDLE"
ModeNext == \E k \in Key : mode' \in Reaction(mode, k)
ModeSpec == ModeInit /\ [][ModeNext]_mode
=============================================================================
