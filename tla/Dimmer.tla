-------------------------------- MODULE Dimmer --------------------------------
(***************************************************************************)
(* The dimmer of the two threads that let lights breathe: HighlightThread, *)
(* which turns before a step, and DMXVisualThread, which turns only        *)
(* between two passes over its lights.  Each step is written to one light; *)
(* setDimmerValue throws for a value outside 0..255, and neither thread    *)
(* catches that.                                                           *)
(***************************************************************************)
EXTENDS Integers

CONSTANT MaxLights     \* bound of the model on the lights at a time; the code has none

ASSUME DimmerAssumption == MaxLights \in Nat \ {0}

\* HIGHLIGHT_DIMMER_STEP, _LOW_VAL, _HIGH_VAL
STEP == 5
LOW == 25
HIGH == 255

VARIABLES
  who,           \* "HighlightThread" or "DMXVisualThread"
  dimmerValue, direction,
  lights, i,     \* the lights of this pass, and how many it has stepped
  alive          \* no exception has ended the thread

dimmerVars == <<who, dimmerValue, direction, lights, i, alive>>

Highlight == who = "HighlightThread"

\* Mutated form of Turned: the dimmer turns one step late at the top.
TurnedLate(v, d) ==
  IF d = -STEP /\ v < LOW THEN STEP
  ELSE IF d = STEP /\ v > HIGH THEN -STEP ELSE d

\* The direction after the test of the range
Turned(v, d) ==
  IF d = -STEP /\ v < LOW THEN STEP
  ELSE IF d = STEP /\ v >= HIGH THEN -STEP ELSE d

\* The next light of a pass
Step ==
  /\ alive /\ i < lights
  /\ direction' = IF Highlight THEN Turned(dimmerValue, direction) ELSE direction
  /\ dimmerValue' = dimmerValue + direction'
  /\ alive' = (dimmerValue' \in 0 .. 255)
  /\ i' = i + 1
  /\ UNCHANGED <<who, lights>>

\* The end of a pass.  The server may highlight other lights before the next one; the
\* lights of a DMX visual stay.
EndPass ==
  /\ alive /\ i = lights
  /\ direction' = IF Highlight THEN direction ELSE Turned(dimmerValue, direction)
  /\ i' = 0
  /\ lights' \in IF Highlight THEN 1 .. MaxLights ELSE {lights}
  /\ UNCHANGED <<who, dimmerValue, alive>>

DimmerInit ==
  /\ who \in {"HighlightThread", "DMXVisualThread"}
  /\ dimmerValue = 255 /\ direction = -STEP
  /\ lights \in 1 .. MaxLights /\ i = 0
  /\ alive = TRUE

DimmerNext == Step \/ EndPass

DimmerSpec == DimmerInit /\ [][DimmerNext]_dimmerVars

-----------------------------------------------------------------------------
(* Properties *)

\* "dimmer value must be within [0:255]": setDimmerValue never refuses a value, which
\* would end the thread by an exception.  A preview of nine lights breaks it.
DimmerInRange == alive /\ dimmerValue \in 0 .. 255

\* Some number of whole passes over n lights leads from the top to a value that the
\* test finds below LOW and setDimmerValue still takes.
WholePasses(n) == \E k \in 1 .. 51 : HIGH - STEP * (n * k) \in 0 .. LOW - 1

\* setDimmerValue never refuses a value of the highlight, whatever lights it has from
\* pass to pass, nor one of a preview whose passes fit the range.
DimmerFits == Highlight \/ WholePasses(lights) => DimmerInRange

=============================================================================
