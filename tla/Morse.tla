-------------------------------- MODULE Morse --------------------------------
(***************************************************************************)
(* pre_connect_animation of the controller: until the first poll arrives,  *)
(* every debounce tick moves the three LEDs along a Morse text.  A reader  *)
(* that knows only how long the LEDs are on and off decodes the light.     *)
(***************************************************************************)
EXTENDS Integers, Sequences

CONSTANT TIMER_UNIT

\* Below three ticks the extra calls of a break would blur it with the next longer one.
ASSUME MorseAssumption == TIMER_UNIT \in Nat /\ TIMER_UNIT >= 3

VARIABLES
  state,   \* the element that pre_connect_animation is at, from 0
  tick,    \* the static tick of that element's function; the others are at 0
  led,     \* the three LEDs are on
  length,  \* reader: for how many ticks the LEDs have been as they are, capped
  text     \* reader: the signs since the last word break

morseVars == <<state, tick, led, length, text>>

Elements == <<"dash", "sub", "dot", "sub", "dot", "sub", "dot", "letter",
              "dot", "letter", "dot", "letter",
              "dot", "sub", "dash", "sub", "dash", "sub", "dot", "word">>

\* How long an element lasts, in ticks
Span(e) == TIMER_UNIT * (CASE e \in {"dot", "sub"} -> 1
                           [] e \in {"dash", "letter"} -> 3
                           [] e = "word" -> 7)

-----------------------------------------------------------------------------
(* The reader *)

LengthCap == 7 * TIMER_UNIT + 3

\* A pulse of two units is a dash, a pause of two units ends a letter and a pause of
\* five ends the text.
Read(on) ==
  /\ led' = on
  /\ length' = IF on # led THEN 1 ELSE IF length = LengthCap THEN LengthCap ELSE length + 1
  /\ text' = CASE led /\ ~on -> Append(text, IF length > 2 * TIMER_UNIT THEN "-" ELSE ".")
               [] ~led /\ on /\ length > 5 * TIMER_UNIT -> <<>>
               [] ~led /\ on /\ length \in 2 * TIMER_UNIT + 1 .. 5 * TIMER_UNIT ->
                    Append(text, " ")
               [] OTHER -> text

-----------------------------------------------------------------------------
(* led_controller.c *)

\* Mutated form of Advance: the animation stays at its last element.
AdvanceStops == state' = IF state = 19 THEN 19 ELSE state + 1

Advance == state' = IF state = 19 THEN 0 ELSE state + 1

\* dot and dash: lit by the first call, dark and done at the last
Mark(e) ==
  LET over == tick # 0 /\ tick + 1 > Span(e) IN
  /\ Read(IF tick = 0 THEN TRUE ELSE IF over THEN FALSE ELSE led)
  /\ tick' = IF over THEN 0 ELSE tick + 1
  /\ IF over THEN Advance ELSE UNCHANGED state

\* sub_letter_break, letter_break and word_break
Break(e) ==
  LET over == tick > Span(e) IN
  /\ Read(led)
  /\ tick' = IF over THEN 0 ELSE tick + 1
  /\ IF over THEN Advance ELSE UNCHANGED state

pre_connect_animation ==
  LET e == Elements[state + 1] IN
  IF e \in {"dot", "dash"} THEN Mark(e) ELSE Break(e)

\* init_led_controller leaves the LEDs on.
MorseInit == state = 0 /\ tick = 0 /\ led = TRUE /\ length = 0 /\ text = <<>>

MorseNext == pre_connect_animation

MorseSpec == MorseInit /\ [][MorseNext]_morseVars /\ WF_morseVars(MorseNext)

-----------------------------------------------------------------------------
(* Properties *)

\* What the console shows at start-up: "-... . . .--."
Banner == <<"-", ".", ".", ".", " ", ".", " ", ".", " ", ".", "-", "-", ".">>

\* The light spells the whole text again and again.
BannerCompletes ==
  /\ text # <<>> ~> text = Banner
  /\ text = Banner ~> text = <<>>

=============================================================================
