------------------------------- MODULE MCInput -------------------------------
(***************************************************************************)
(* The routines of the controller that a debounce tick calls one after the *)
(* other: read_button (Buttons), read_direction (Joystick), the detector   *)
(* of the codes (Konami) and the Morse animation.  Their static variables  *)
(* are their own; each behaviour explores one routine, with the others at  *)
(* rest in their initial states.                                           *)
(***************************************************************************)
EXTENDS Konami, Buttons, Joystick, Morse

VARIABLE part
partVars == <<konamiVars, buttonVars, joystickVars, morseVars, part>>

KonamiStep ==
  part = "konami" /\ Next /\ UNCHANGED <<buttonVars, joystickVars, morseVars, part>>
ButtonsStep ==
  part = "buttons" /\ ButtonsNext /\ UNCHANGED <<konamiVars, joystickVars, morseVars, part>>
JoystickStep ==
  part = "joystick" /\ JoystickNext /\ UNCHANGED <<konamiVars, buttonVars, morseVars, part>>
MorseStep ==
  part = "morse" /\ MorseNext /\ UNCHANGED <<konamiVars, buttonVars, joystickVars, part>>

PartsInit ==
  /\ Init /\ ButtonsInit /\ JoystickInit /\ MorseInit
  /\ part \in {"konami", "buttons", "joystick", "morse"}
PartsNext == KonamiStep \/ ButtonsStep \/ JoystickStep \/ MorseStep

\* The fairness of JoystickSpec and of MorseSpec.
PartsSpec ==
  /\ PartsInit /\ [][PartsNext]_partVars
  /\ WF_joystickVars(Again) /\ WF_morseVars(MorseStep)
==============================================================================
