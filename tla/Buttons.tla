------------------------------- MODULE Buttons -------------------------------
(***************************************************************************)
(* read_button of the controller, called once per debounce tick.  It       *)
(* looks at the chord B1 + B2, then at B1, B2 and the joystick's button,   *)
(* and returns at the first one that is pressed: the counters of the       *)
(* buttons behind it keep the values they had.                             *)
(***************************************************************************)
EXTENDS Integers

CONSTANTS DEBOUNCE_COUNT, LONG_HOLD_COUNT

ASSUME ButtonsAssumption == DEBOUNCE_COUNT \in Nat /\ LONG_HOLD_COUNT \in Nat

VARIABLES
  count,    \* b1_count, b2_count, b12_count, ps2_count and ps2_long_count
  report,   \* what the last call returned, or "none"
  run,      \* history: for how many ticks on end a button has been down, capped
  told,     \* history: how often it was reported in that time, up to 2
  clean     \* history: the one button touched since nothing was down, and for how
            \* many ticks it has been down

buttonVars == <<count, report, run, told, clean>>

Button == {"B12", "B1", "B2", "PS2_B", "PS2_LONG"}

\* What one call finds: chord is the answer of the first test, the others are the
\* levels of the pins afterwards, whether or not the call looks at them.
Pins == [chord : BOOLEAN, B1 : BOOLEAN, B2 : BOOLEAN, PS2 : BOOLEAN]

\* B12 compares after the increment and the others before it.  The long press is
\* marked by -2 and the other buttons by -1 once they are reported.
Limit(b) == CASE b = "B12" -> DEBOUNCE_COUNT - 1
              [] b = "PS2_LONG" -> LONG_HOLD_COUNT
              [] OTHER -> DEBOUNCE_COUNT
Reported(b) == IF b = "PS2_LONG" THEN -2 ELSE -1

-----------------------------------------------------------------------------
(* History *)

Down(p) == [b \in Button |-> CASE b = "B12" -> p.chord
                               [] b = "B1" -> p.chord \/ p.B1
                               [] b = "B2" -> p.chord \/ p.B2
                               [] OTHER -> p.PS2]

\* The ticks that are told apart, in a press and in a clean press
RunCap == DEBOUNCE_COUNT + 2
PressCap == DEBOUNCE_COUNT + LONG_HOLD_COUNT + 4
UpTo(cap, n) == IF n > cap THEN cap ELSE n

\* The button that is the only one down, if there is one
Only(p) == CASE ~p.chord /\ p.B1 /\ ~p.B2 /\ ~p.PS2 -> "B1"
             [] ~p.chord /\ ~p.B1 /\ p.B2 /\ ~p.PS2 -> "B2"
             [] ~p.chord /\ ~p.B1 /\ ~p.B2 /\ p.PS2 -> "PS2_B"
             [] ~p.chord /\ ~p.B1 /\ ~p.B2 /\ ~p.PS2 -> "none"
             [] OTHER -> "several"

Observe(p, answer) ==
  /\ report' = answer
  /\ run' = [b \in Button |-> IF Down(p)[b] THEN UpTo(RunCap, run[b] + 1) ELSE 0]
  /\ told' = [b \in Button |->
                IF Down(p)[b] THEN UpTo(2, told[b] + IF b = answer THEN 1 ELSE 0)
                ELSE 0]
  /\ clean' = IF Only(p) = "none" THEN [button |-> "none", ticks |-> 0]
              ELSE IF clean.button \in {"none", Only(p)}
              THEN [button |-> Only(p), ticks |-> UpTo(PressCap, clean.ticks + 1)]
              ELSE [button |-> "several", ticks |-> 0]

-----------------------------------------------------------------------------
(* read_button *)

\* The counter of a pressed button after the call
Pressed(b) == IF count[b] = Reported(b) \/ count[b] > Limit(b)
              THEN Reported(b) ELSE count[b] + 1

\* Mutated form of Fires: a held button is reported by every call.
FiresAlways(b) == count[b] = Reported(b) \/ count[b] > Limit(b)

\* This call reports the pressed button.
Fires(b) == count[b] # Reported(b) /\ count[b] > Limit(b)

\* The call finds b pressed after it found the buttons in released not pressed.
Press(b, released, p) ==
  /\ count' = [x \in Button |-> IF x = b THEN Pressed(b)
                                ELSE IF x \in released THEN 0 ELSE count[x]]
  /\ Observe(p, IF Fires(b) THEN b ELSE "none")

ReadChord(p) == p.chord /\ Press("B12", {}, p)

\* Mutated form of ReadB1: the chord's counter survives its release.
ReadB1Stale(p) == ~p.chord /\ p.B1 /\ Press("B1", {}, p)

ReadB1(p) == ~p.chord /\ p.B1 /\ Press("B1", {"B12"}, p)

\* Mutated form of ReadB2: B1's counter survives the release of B1.
ReadB2Stale(p) == ~p.chord /\ ~p.B1 /\ p.B2 /\ Press("B2", {"B12"}, p)

ReadB2(p) == ~p.chord /\ ~p.B1 /\ p.B2 /\ Press("B2", {"B12", "B1"}, p)

\* The long count runs once the button itself is reported.
ReadPS2(p) ==
  /\ ~p.chord /\ ~p.B1 /\ ~p.B2 /\ p.PS2
  /\ Press(IF count["PS2_B"] = -1 THEN "PS2_LONG" ELSE "PS2_B",
           {"B12", "B1", "B2"}, p)

ReadNone(p) ==
  /\ ~p.chord /\ ~p.B1 /\ ~p.B2 /\ ~p.PS2
  /\ count' = [b \in Button |-> 0]
  /\ Observe(p, "none")

ButtonsInit ==
  /\ count = [b \in Button |-> 0]
  /\ report = "none"
  /\ run = [b \in Button |-> 0]
  /\ told = [b \in Button |-> 0]
  /\ clean = [button |-> "none", ticks |-> 0]

ButtonsNext == \E p \in Pins :
  ReadChord(p) \/ ReadB1(p) \/ ReadB2(p) \/ ReadPS2(p) \/ ReadNone(p)

ButtonsSpec == ButtonsInit /\ [][ButtonsNext]_buttonVars

-----------------------------------------------------------------------------
(* Properties *)

ButtonsTypeOK ==
  /\ count \in [Button -> -2 .. PressCap]
  /\ report \in Button \union {"none"}
  /\ run \in [Button -> 0 .. RunCap]
  /\ told \in [Button -> 0 .. 2]
  /\ clean \in [button : {"none", "B1", "B2", "PS2_B", "several"}, ticks : 0 .. PressCap]

\* The chord and B1 are debounced: read_button reports them only after it has
\* found them down in more than DEBOUNCE_COUNT calls on end.
FrontDebounced ==
  /\ report = "B12" => run["B12"] > DEBOUNCE_COUNT
  /\ report = "B1" => run["B1"] > DEBOUNCE_COUNT + 1

\* However the other buttons move meanwhile, one press gives at most one report.
OncePerPress == \A b \in Button : told[b] <= 1

\* No clean press is missed: the chord held for its debounce time, and a button
\* that was pressed after nothing was down and is held for its own, have been
\* reported in this press, and so has the long press of the joystick's button.
HeldIsReported ==
  /\ run["B12"] > DEBOUNCE_COUNT => told["B12"] = 1
  /\ clean.button \in {"B1", "B2", "PS2_B"} /\ clean.ticks > DEBOUNCE_COUNT + 1
       => told[clean.button] = 1
  /\ clean.button = "PS2_B" /\ clean.ticks = PressCap => told["PS2_LONG"] = 1

=============================================================================
