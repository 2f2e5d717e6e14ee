------------------------------- MODULE Joystick -------------------------------
(***************************************************************************)
(* read_direction of the controller, called once per debounce tick.  The   *)
(* two axes are read as zones; a straight deflection is debounced and then *)
(* reported once, in the opposite direction because the stick is mounted   *)
(* upside down.  Up and down repeat while they are held in a mode with     *)
(* continuous reading.                                                     *)
(***************************************************************************)
EXTENDS Integers

CONSTANTS STICK_DEBOUNCE_COUNT, STICK_LONG_HOLD_COUNT, FAST_RATE_TICK

ASSUME JoystickAssumption ==
  /\ {STICK_DEBOUNCE_COUNT, STICK_LONG_HOLD_COUNT, FAST_RATE_TICK} \subseteq Nat
  /\ FAST_RATE_TICK <= STICK_LONG_HOLD_COUNT

VARIABLES
  dir_count, \* left_count, right_count, up_count and down_count
  long,      \* up_long_count and down_long_count
  dir_report, \* what the last call returned: a direction or "CENTER"
  stick,     \* history: the deflection the last call found, "none" if not straight
  enable,    \* the continuous_read_enable of the last call
  held,      \* history: calls that found each deflection since it was reset, capped
  since,     \* history: those of UP and DOWN since the last report, capped
  dir_told   \* history: reports of each deflection since it was reset, up to 2

joystickVars == <<dir_count, long, dir_report, stick, enable, held, since, dir_told>>

Repeating == {"UP", "DOWN"}
Deflections == {"LEFT", "RIGHT"} \union Repeating

\* "refer to top to see why"
Flipped(d) == CASE d = "LEFT" -> "RIGHT" [] d = "RIGHT" -> "LEFT"
                [] d = "UP" -> "DOWN" [] d = "DOWN" -> "UP"

\* The zones of the two axes as one deflection: center and the diagonals are none.
XZones == {"LEFT", "CENTER", "RIGHT"}
YZones == {"DOWN", "CENTER", "UP"}
Straight(x, y) == CASE x # "CENTER" /\ y = "CENTER" -> x
                    [] x = "CENTER" /\ y # "CENTER" -> y
                    [] OTHER -> "none"

-----------------------------------------------------------------------------
(* History *)

\* The calls that are told apart, before the first report and after it
HeldCap == STICK_DEBOUNCE_COUNT + 2
RepeatCap == STICK_LONG_HOLD_COUNT + FAST_RATE_TICK + 3
AtMost(cap, n) == IF n > cap THEN cap ELSE n

ObserveStick(d, en, fires) ==
  /\ stick' = d /\ enable' = en
  /\ dir_report' = IF fires THEN Flipped(d) ELSE "CENTER"
  /\ IF d = "none"
     THEN /\ held' = [e \in Deflections |-> 0] /\ dir_told' = [e \in Deflections |-> 0]
          /\ since' = [e \in Repeating |-> 0]
     ELSE /\ held' = [held EXCEPT ![d] = AtMost(HeldCap, @ + 1)]
          /\ since' = [e \in Repeating |->
                        IF e # d THEN since[e]
                        ELSE IF fires \/ dir_told[d] = 0 THEN 0
                        ELSE AtMost(RepeatCap, since[d] + 1)]
          /\ dir_told' = [dir_told EXCEPT ![d] = IF fires THEN AtMost(2, @ + 1) ELSE @]

-----------------------------------------------------------------------------
(* read_direction *)

\* Mutated form of ReadNeutral: a diagonal does not reset the counters.
ReadNeutralCenterOnly(x, y, en) ==
  /\ Straight(x, y) = "none"
  /\ IF x = "CENTER"
     THEN dir_count' = [d \in Deflections |-> 0] /\ long' = [d \in Repeating |-> 0]
     ELSE UNCHANGED <<dir_count, long>>
  /\ ObserveStick("none", en, FALSE)

\* The center and every diagonal reset all counters.
ReadNeutral(x, y, en) ==
  /\ Straight(x, y) = "none"
  /\ dir_count' = [d \in Deflections |-> 0]
  /\ long' = [d \in Repeating |-> 0]
  /\ ObserveStick("none", en, FALSE)

\* The deflection is not reported yet.
Debounce(d, en) ==
  LET fires == dir_count[d] > STICK_DEBOUNCE_COUNT IN
  /\ dir_count[d] >= 0
  /\ dir_count' = [dir_count EXCEPT ![d] = IF fires THEN -1 ELSE @ + 1]
  /\ UNCHANGED long
  /\ ObserveStick(d, en, fires)

\* It is reported, and does not repeat on this axis or in this mode.
Ignore(d, en) ==
  /\ dir_count[d] < 0
  /\ d \notin Repeating \/ ~en
  /\ UNCHANGED <<dir_count, long>>
  /\ ObserveStick(d, en, FALSE)

\* Mutated form of HoldOn: the first repeat comes without the reset of the count.
HoldOnNoReset(d, en) ==
  LET over == long[d] > STICK_LONG_HOLD_COUNT IN
  /\ d \in Repeating /\ en /\ dir_count[d] = -1
  /\ dir_count' = IF over THEN [dir_count EXCEPT ![d] = -2] ELSE dir_count
  /\ long' = [long EXCEPT ![d] = @ + 1]
  /\ ObserveStick(d, en, FALSE)

\* Held long enough, a reported deflection starts to repeat.
HoldOn(d, en) ==
  LET over == long[d] > STICK_LONG_HOLD_COUNT IN
  /\ d \in Repeating /\ en /\ dir_count[d] = -1
  /\ dir_count' = IF over THEN [dir_count EXCEPT ![d] = -2] ELSE dir_count
  /\ long' = [long EXCEPT ![d] = IF over THEN 0 ELSE @ + 1]
  /\ ObserveStick(d, en, FALSE)

\* Mutated form of Repeat: the counter never starts over.
RepeatOnce(d, en) ==
  LET fires == long[d] = FAST_RATE_TICK + 1 IN
  /\ d \in Repeating /\ en /\ dir_count[d] = -2
  /\ long' = [long EXCEPT ![d] = IF @ > FAST_RATE_TICK + 1 THEN @ ELSE @ + 1]
  /\ UNCHANGED dir_count
  /\ ObserveStick(d, en, fires)

Repeat(d, en) ==
  LET fires == long[d] > FAST_RATE_TICK IN
  /\ d \in Repeating /\ en /\ dir_count[d] = -2
  /\ long' = [long EXCEPT ![d] = IF fires THEN 0 ELSE @ + 1]
  /\ UNCHANGED dir_count
  /\ ObserveStick(d, en, fires)

ReadStraight(x, y, en) ==
  LET d == Straight(x, y) IN
  /\ d # "none"
  /\ Debounce(d, en) \/ Ignore(d, en) \/ HoldOn(d, en) \/ Repeat(d, en)

JoystickInit ==
  /\ dir_count = [d \in Deflections |-> 0]
  /\ long = [d \in Repeating |-> 0]
  /\ dir_report = "CENTER" /\ stick = "none" /\ enable = FALSE
  /\ held = [d \in Deflections |-> 0] /\ dir_told = [d \in Deflections |-> 0]
  /\ since = [d \in Repeating |-> 0]

JoystickNext == \E x \in XZones, y \in YZones, en \in BOOLEAN :
  ReadNeutral(x, y, en) \/ ReadStraight(x, y, en)

\* The debounce timer keeps calling, also while the stick and the mode stay as they
\* are: fairness is asked of such a call, as moving the stick is not required.
Again ==
  /\ stick # "none"
  /\ \/ Debounce(stick, enable) \/ Ignore(stick, enable)
     \/ HoldOn(stick, enable) \/ Repeat(stick, enable)

JoystickSpec == JoystickInit /\ [][JoystickNext]_joystickVars /\ WF_joystickVars(Again)

-----------------------------------------------------------------------------
(* Properties *)

\* A deflection is reported exactly when it has been found often enough since the
\* stick was last neutral: not before, and not later either.
DebouncedExactly ==
  \A d \in Deflections : (dir_told[d] > 0) <=> (held[d] > STICK_DEBOUNCE_COUNT + 1)

\* Only up and down repeat, and only in a mode with continuous reading: two reports of
\* one held deflection are at least the fast rate apart, and the first repeat waits for
\* the long hold, also when the mode changes in between.
RepeatsAreSpaced ==
  [][\A d \in Deflections :
       stick' = d /\ dir_report' # "CENTER" /\ dir_told[d] >= 1 =>
         /\ d \in Repeating /\ enable'
         /\ since[d] > FAST_RATE_TICK
         /\ dir_told[d] = 1 => since[d] > STICK_LONG_HOLD_COUNT + FAST_RATE_TICK + 2
    ]_joystickVars

\* Held up or down in a mode with continuous reading, the stick goes on reporting.
HeldRepeats ==
  \A d \in Repeating :
    <>[](stick = d /\ enable) => []<>(dir_report = Flipped(d))

=============================================================================
