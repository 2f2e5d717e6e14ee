-------------------------------- MODULE Konami --------------------------------
(***************************************************************************)
(* The controller's detector of the Konami code and of its reverse, with   *)
(* the part of the main loop that feeds it.  A debounce tick reads one     *)
(* direction and one button, advances the detector's clock and, in idle    *)
(* mode only, shows the pair to check_konami, which decides whether the    *)
(* pair is swallowed, sent as it is, or sent as a code.                    *)
(***************************************************************************)
EXTENDS Integers, Sequences

CONSTANT Timeout   \* KONAMI_TIMEOUT, in debounce ticks

ASSUME KonamiAssumption == Timeout \in Nat

VARIABLES
  MODE,
  konami_state, reverse_konami_state, konami_tick_count,
  sent,        \* the user action of the last debounce tick, or "none"
  spelled,     \* history: how many of the latest pairs spell a prefix of Code
  revSpelled,  \* the same for ReverseCode
  silence      \* history: debounce ticks since the last pair, up to Timeout + 1

detector == <<konami_state, reverse_konami_state, konami_tick_count>>
history == <<spelled, revSpelled, silence>>
konamiVars == <<MODE, detector, sent, history>>

Directions == {"UP", "DOWN", "LEFT", "RIGHT"}
Buttons == {"B1", "B2", "B12", "PS2_B", "PS2_LONG"}
Event == [direction : Directions \union {"none"}, button : Buttons \union {"none"}]
Nothing == [direction |-> "none", button |-> "none"]
ConsoleModes == {"IDLE", "LIGHT_SELECTION"}   \* IDLE and any other mode

\* The keys in order.  The last of them completes the code in state 10.
Code == <<"UP", "UP", "DOWN", "DOWN", "LEFT", "RIGHT", "LEFT", "RIGHT",
          "B2", "B1", "PS2_B">>
ReverseCode == <<"DOWN", "DOWN", "UP", "UP", "RIGHT", "LEFT", "RIGHT", "LEFT",
                 "PS2_B", "B1", "B2">>

\* The event e holds the key the code expects after k keys
Hits(code, k, e) == e.direction = code[k + 1] \/ e.button = code[k + 1]

-----------------------------------------------------------------------------
(* konami.c *)

\* konami_tick, as the triple of the detector's new values
Ticked ==
  IF konami_tick_count = 0 THEN detector
  ELSE IF konami_tick_count > Timeout THEN <<0, 0, 0>>
  ELSE <<konami_state, reverse_konami_state, konami_tick_count + 1>>

\* A code in progress goes on; with none in progress either may start.
GoesOn(mine, other, code, e) ==
  (mine > 0 \/ other = 0) /\ Hits(code, mine, e)

\* Mutated forms of Checked (the forward code only): a wrong key is ignored; the
\* key before the tail is swallowed too.
CheckedForgiving(d, e) ==
  IF e # Nothing /\ GoesOn(d[1], d[2], Code, e)
  THEN IF d[1] = 10 THEN [detector |-> <<0, 0, 0>>, answer |-> "KONAMI"]
       ELSE [detector |-> <<d[1] + 1, d[2], 1>>,
             answer |-> IF d[1] >= 7 THEN "swallow" ELSE "pass"]
  ELSE [detector |-> d, answer |-> "pass"]

CheckedGreedy(d, e) ==
  IF e # Nothing /\ GoesOn(d[1], d[2], Code, e) /\ d[1] < 10
  THEN [detector |-> <<d[1] + 1, d[2], 1>>,
        answer |-> IF d[1] >= 6 THEN "swallow" ELSE "pass"]
  ELSE [detector |-> <<0, 0, 0>>, answer |-> "pass"]

\* check_konami after a tick that left the detector at d: its new values and its
\* answer.  Any other pair clears it.
Checked(d, e) ==
  IF e = Nothing THEN [detector |-> d, answer |-> "pass"]
  ELSE IF GoesOn(d[1], d[2], Code, e)
  THEN IF d[1] = 10 THEN [detector |-> <<0, 0, 0>>, answer |-> "KONAMI"]
       ELSE [detector |-> <<d[1] + 1, d[2], 1>>,
             answer |-> IF d[1] >= 7 THEN "swallow" ELSE "pass"]
  ELSE IF GoesOn(d[2], d[1], ReverseCode, e)
  THEN IF d[2] = 10 THEN [detector |-> <<0, 0, 0>>, answer |-> "REV_KONAMI"]
       ELSE [detector |-> <<d[1], d[2] + 1, 1>>,
             answer |-> IF d[2] >= 7 THEN "swallow" ELSE "pass"]
  ELSE [detector |-> <<0, 0, 0>>, answer |-> "pass"]

-----------------------------------------------------------------------------
(* main.c *)

\* A direction takes precedence over a button in the packet.
Action(e) == IF e.direction # "none" THEN e.direction ELSE e.button

\* What the latest pairs spell, computed without the detector: every length k
\* such that the last k pairs, none further apart than the timeout, spell the
\* first k keys of the code.
Spelled(S, code, e) ==
  {0} \union {k + 1 : k \in {j \in (IF silence > Timeout THEN {0} ELSE S) :
                               j < Len(code) /\ Hits(code, j, e)}}

Remember(e) ==
  IF e = Nothing
  THEN /\ silence' = IF silence > Timeout THEN silence ELSE silence + 1
       /\ UNCHANGED <<spelled, revSpelled>>
  ELSE /\ silence' = 0
       /\ spelled' = Spelled(spelled, Code, e)
       /\ revSpelled' = Spelled(revSpelled, ReverseCode, e)

\* A debounce tick in idle mode
IdleLoop(e) ==
  LET c == Checked(Ticked, e) IN
  /\ MODE = "IDLE"
  /\ konami_state' = c.detector[1]
  /\ reverse_konami_state' = c.detector[2]
  /\ konami_tick_count' = c.detector[3]
  /\ sent' = CASE c.answer = "pass" -> Action(e)
               [] c.answer = "swallow" -> "none"
               [] OTHER -> c.answer
  /\ Remember(e)
  /\ UNCHANGED MODE

\* Mutated form of OtherLoop: the clock stops outside idle mode.
OtherLoopNoTick(e) ==
  /\ MODE # "IDLE"
  /\ sent' = Action(e)
  /\ Remember(Nothing)
  /\ UNCHANGED <<MODE, detector>>

\* In every other mode the clock runs and the pair is sent.
OtherLoop(e) ==
  /\ MODE # "IDLE"
  /\ konami_state' = Ticked[1]
  /\ reverse_konami_state' = Ticked[2]
  /\ konami_tick_count' = Ticked[3]
  /\ sent' = Action(e)
  /\ Remember(Nothing)
  /\ UNCHANGED MODE

\* set_mode, called by the UDP task at any time
SetMode(m) ==
  /\ MODE' = m
  /\ UNCHANGED <<detector, sent, history>>

Init ==
  /\ MODE = "IDLE"
  /\ konami_state = 0 /\ reverse_konami_state = 0 /\ konami_tick_count = 0
  /\ sent = "none"
  /\ spelled = {0} /\ revSpelled = {0} /\ silence = 0

Next ==
  \/ \E e \in Event : IdleLoop(e) \/ OtherLoop(e)
  \/ \E m \in ConsoleModes : SetMode(m)

Spec == Init /\ [][Next]_konamiVars

-----------------------------------------------------------------------------
(* Properties *)

TypeOK ==
  /\ MODE \in ConsoleModes
  /\ konami_state \in 0 .. 10 /\ reverse_konami_state \in 0 .. 10
  /\ konami_tick_count \in 0 .. Timeout + 1
  /\ sent \in Directions \union Buttons \union {"none", "KONAMI", "REV_KONAMI"}
  /\ spelled \in SUBSET (0 .. 11) /\ revSpelled \in SUBSET (0 .. 11)
  /\ silence \in 0 .. Timeout + 1

\* A code is announced to the server only when the last eleven pairs shown to the
\* detector spell it, with no pause longer than the timeout between them.
CodeWasSpelled ==
  /\ sent = "KONAMI" => 11 \in spelled
  /\ sent = "REV_KONAMI" => 11 \in revSpelled

\* The detector follows at most one of the two codes, and its clock runs exactly
\* while it follows one: a half-typed code can always time out.
OneCodeAndClock ==
  /\ konami_state = 0 \/ reverse_konami_state = 0
  /\ (konami_tick_count > 0) <=> (konami_state > 0 \/ reverse_konami_state > 0)

\* In idle mode a pair with a key is withheld from the server only as one of the
\* keys 8 to 10 of a code, so B1 and B2 keep their idle meaning everywhere else.
OnlyTailSwallowed ==
  [][konamiVars' # konamiVars /\ sent' = "none" =>
      \A e \in Event \ {Nothing} :
        IdleLoop(e) =>
          \/ konami_state' \in 8 .. 10 /\ konami_state' \in spelled'
          \/ reverse_konami_state' \in 8 .. 10 /\ reverse_konami_state' \in revSpelled'
    ]_konamiVars

\* No half-typed code outlives the timeout, in whatever mode the time passes.
ForgottenAfterTimeout == silence > Timeout => konami_tick_count = 0

=============================================================================
