---------------------------- MODULE VisualProofs ----------------------------
(***************************************************************************)
(* The threads that move the lights, for any number of lights: their       *)
(* start and stop handshake is safe when a stop comes only after run() has *)
(* begun, and their dimmers stay in range (the preview's with up to eight  *)
(* lights).                                                                *)
(***************************************************************************)
EXTENDS VisualThread, Dimmer, TLAPS

-----------------------------------------------------------------------------
(* The handshake (VisualThread) *)

\* The running flag is down from ClearRunning to the end of the join.
Flagged ==
  loop \in {"restore", "join"} \/ (loop = "interrupt" /\ kind # "chase") => ~running

\* A redrum deals with a thread whose run() has begun.
Begun == loop \notin {"away", "shown"} => thread # "started"

\* How many entries of the highlight's list are left, by the step of redrum
SavedLeft ==
  /\ kind # "highlight" \/ loop \in {"away", "interrupt", "join"} => toRestore = 0
  /\ kind = "highlight" /\ loop \in {"shown", "flag"} => toRestore = Units
  /\ loop = "restore" => kind = "highlight" /\ toRestore > 0

\* The interrupt stays pending until a sleep consumes it.
Pending ==
  loop = "join" /\ kind # "chase" /\ thread \in {"unit", "write", "sleep"}
    => interruptStatus

\* After the first removeLight of redrum the highlight is not in a pass.
OutOfPass ==
  kind = "highlight" /\ loop # "shown" /\ toRestore < Units
    => thread \notin {"unit", "write"}

\* A unit is written only while units are left.
UnitLeft == thread = "write" => left > 0

VTInv ==
  /\ TypeOK
  /\ NothingLeftBehind
  /\ Flagged
  /\ Begun
  /\ SavedLeft
  /\ Pending
  /\ OutOfPass
  /\ UnitLeft

\* The inductive invariant of the handshake: initially true, kept by every step of
\* run(), of the command loop and of redrum.
THEOREM HandshakeInvariant == ASSUME StopAfterBegin PROVE VisualSpec => []VTInv
<1> USE VisualThreadAssumption DEF VisualThreadAssumption, Kinds, VTInv, TypeOK
<1>1. VisualInit => VTInv
  <2> SUFFICES ASSUME VisualInit PROVE VTInv
    OBVIOUS
  <2>1. running \in BOOLEAN /\ interruptStatus \in BOOLEAN
    BY Zenon DEF VisualInit
  <2>2. /\ kind = "preset" /\ thread = "dead" /\ left = 0
        /\ loop = "away" /\ toRestore = 0
    BY Zenon DEF VisualInit
  <2> QED
    BY <2>1, <2>2 DEF NothingLeftBehind, Flagged, Begun, SavedLeft, Pending, OutOfPass,
         UnitLeft
<1>2. VTInv /\ [VisualNext]_vtVars => VTInv'
  <2> SUFFICES ASSUME VTInv, [VisualNext]_vtVars PROVE VTInv'
    OBVIOUS
  <2> USE DEF NothingLeftBehind, Flagged, Begun, SavedLeft, Pending, OutOfPass,
         UnitLeft
  <2>1. CASE Begin
    BY <2>1 DEF Begin
  <2>2. CASE While
    BY <2>2 DEF While
  <2>3. CASE Unit
    BY <2>3 DEF Unit, ChecksEachUnit
  <2>4. CASE Write
    BY <2>4 DEF Write
  <2>5. CASE FullSleep
    BY <2>5 DEF FullSleep, AfterSleep
  <2>6. CASE BrokenSleep
    BY <2>6 DEF BrokenSleep, AfterSleep
  <2>7. CASE StopVisual
    BY <2>7 DEF StopVisual, FirstStep
  <2>8. CASE ClearRunning
    <3>1. ~running' /\ running' \in BOOLEAN
      BY <2>8, Zenon DEF ClearRunning
    <3>2. /\ loop = "flag"
          /\ loop' = CASE kind = "chase" -> "join"
                       [] kind = "highlight" -> "restore"
                       [] OTHER -> "interrupt"
          /\ UNCHANGED <<kind, thread, left, interruptStatus, toRestore>>
      BY <2>8, Zenon DEF ClearRunning
    <3> QED
      BY <3>1, <3>2
  <2>9. CASE Restore
    BY <2>9 DEF Restore, HoldsSemaphore
  <2>10. CASE Interrupt
    BY <2>10 DEF Interrupt
  <2>11. CASE Join
    BY <2>11 DEF Join
  <2>12. ASSUME NEW k \in Kinds, StartVisual(k) PROVE VTInv'
    <3>1. ~running' /\ ~interruptStatus' /\ running' \in BOOLEAN /\ interruptStatus' \in BOOLEAN
      BY <2>12, Zenon DEF StartVisual
    <3>2. /\ kind' = k /\ thread' = "started" /\ left' = 0 /\ loop' = "shown"
          /\ toRestore' = IF k = "highlight" THEN Units ELSE 0
      BY <2>12, Zenon DEF StartVisual
    <3> QED
      BY <3>1, <3>2
  <2>13. CASE UNCHANGED vtVars
    BY <2>13 DEF vtVars
  <2> QED
    BY <2>1, <2>2, <2>3, <2>4, <2>5, <2>6, <2>7, <2>8, <2>9, <2>10, <2>11, <2>12, <2>13
       DEF VisualNext, Run, Redrum
<1> QED
  BY <1>1, <1>2, PTL DEF VisualSpec

\* What the command loop relies on when redrum returns, and what it never waits
\* for: the types and the three safety properties the run checks, for any number of lights.
THEOREM HandshakeSafe ==
  ASSUME StopAfterBegin
  PROVE VisualSpec => [](TypeOK /\ NothingLeftBehind /\ JoinIsPrompt /\ NoRepaint)
<1>1. VTInv => TypeOK /\ NothingLeftBehind /\ JoinIsPrompt /\ NoRepaint
  BY DEF VTInv, JoinIsPrompt, NoRepaint, Pending, OutOfPass
<1> QED
  BY <1>1, HandshakeInvariant, PTL

-----------------------------------------------------------------------------
(* The highlight (Dimmer) *)

\* The highlight's dimmer is at a multiple of its step, between one step below LOW and
\* HIGH.
OnSteps ==
  /\ Highlight
  /\ alive = TRUE
  /\ direction \in {-STEP, STEP}
  /\ \E k \in 4 .. 51 : dimmerValue = 5 * k

LEMMA StepStays ==
  ASSUME OnSteps, Step
  PROVE  OnSteps'
<1>1. PICK k \in 4 .. 51 : dimmerValue = 5 * k
  BY DEF OnSteps
<1>2. \/ direction' = STEP /\ k < 51
      \/ direction' = -STEP /\ k >= 5
  BY <1>1 DEF OnSteps, Highlight, Step, Turned, STEP, LOW, HIGH
<1>3. dimmerValue' = 5 * (k + 1) \/ dimmerValue' = 5 * (k - 1)
  BY <1>1, <1>2 DEF Step, STEP
<1>4. \E m \in 4 .. 51 : dimmerValue' = 5 * m
  <2>1. CASE direction' = STEP /\ k < 51
    <3>1. k + 1 \in 4 .. 51 /\ dimmerValue' = 5 * (k + 1)
      BY <2>1, <1>1 DEF Step, STEP
    <3> QED
      BY <3>1
  <2>2. CASE direction' = -STEP /\ k >= 5
    <3>1. k - 1 \in 4 .. 51 /\ dimmerValue' = 5 * (k - 1)
      BY <2>2, <1>1 DEF Step, STEP
    <3> QED
      BY <3>1
  <2> QED
    BY <1>2, <2>1, <2>2
<1>5. dimmerValue' \in 0 .. 255
  BY <1>4
<1>6. alive' = TRUE
  BY <1>5 DEF Step
<1> QED
  BY <1>2, <1>4, <1>6 DEF OnSteps, Highlight, Step

\* HighlightThread never gives setDimmerValue a value it refuses.
THEOREM HighlightInRange ==
  DimmerSpec => [](Highlight => DimmerInRange)
<1> DEFINE Inv == Highlight => OnSteps
<1>1. DimmerInit => Inv
  <2>1. 255 = 5 * 51 /\ 51 \in 4 .. 51
    OBVIOUS
  <2> QED
    BY <2>1 DEF DimmerInit, OnSteps
<1>2. Inv /\ [DimmerNext]_dimmerVars => Inv'
  <2> SUFFICES ASSUME Inv, [DimmerNext]_dimmerVars, Highlight' PROVE OnSteps'
    OBVIOUS
  <2>1. OnSteps
    BY DEF DimmerNext, Step, EndPass, dimmerVars, Highlight
  <2>2. CASE Step
    BY <2>1, <2>2, StepStays
  <2>3. CASE EndPass
    BY <2>1, <2>3 DEF OnSteps, EndPass, Highlight
  <2>4. CASE UNCHANGED dimmerVars
    BY <2>1, <2>4 DEF OnSteps, dimmerVars, Highlight
  <2> QED
    BY <2>2, <2>3, <2>4 DEF DimmerNext
<1>3. Inv => (Highlight => DimmerInRange)
  BY DEF OnSteps, DimmerInRange
<1> QED
  BY <1>1, <1>2, <1>3, PTL DEF DimmerSpec

-----------------------------------------------------------------------------
(* The preview of a DMX value (Dimmer), which tests the range once per pass *)

\* A whole number q of passes ends below LOW, so a pass that may start downwards, k
\* passes below the top, does not end below 0.
LEMMA PassFits ==
  ASSUME NEW n \in Nat \ {0}, WholePasses(n), NEW k \in 0 .. 51, 51 - n * k >= 5
  PROVE  51 - n * k >= n
<1>1. PICK q \in 1 .. 51 : HIGH - STEP * (n * q) \in 0 .. LOW - 1
  BY DEF WholePasses
<1>2. n * q \in Int /\ n * k \in Int
  OBVIOUS
<1>3. 51 - n * q \in 0 .. 4
  BY <1>1, <1>2 DEF HIGH, LOW, STEP
<1>4. k + 1 <= q
  <2>1. CASE q <= k
    <3>1. n * q <= n * k
      BY <2>1
    <3> QED
      BY <3>1, <1>2, <1>3
  <2> QED
    BY <2>1
<1>5. n * (k + 1) <= n * q /\ n * (k + 1) = n * k + n
  BY <1>4
<1> QED
  BY <1>2, <1>3, <1>5

\* A pass starts at a level u (in steps) that is some number k of whole passes below the
\* top: downwards with room for a pass, upwards with at least one pass to the top.
Pass(k, u) ==
  /\ k \in 0 .. 51 /\ u \in 0 .. 51 /\ u = 51 - lights * k
  /\ \/ direction = -STEP /\ u >= 5 /\ dimmerValue = 5 * (u - i)
     \/ direction = STEP /\ k >= 1 /\ dimmerValue = 5 * (u + i)

OnPasses ==
  /\ ~Highlight /\ alive = TRUE
  /\ lights \in Nat \ {0} /\ WholePasses(lights) /\ i \in 0 .. lights
  /\ \E k, u \in 0 .. 51 : Pass(k, u)

\* Where a pass may be at its light i
LEMMA PassRange ==
  ASSUME OnPasses, NEW k \in 0 .. 51, NEW u \in 0 .. 51, Pass(k, u)
  PROVE  /\ direction = -STEP => u - lights >= 0
         /\ direction = STEP => u + lights <= 51
<1>1. direction = -STEP => u >= lights
  BY PassFits DEF OnPasses, Pass, STEP
<1>2. CASE direction = STEP
  <2>1. k >= 1 /\ u = 51 - lights * k /\ lights \in Nat \ {0}
    BY <1>2 DEF OnPasses, Pass, STEP
  <2>2. lights * k >= lights
    BY <2>1
  <2>3. lights * k \in Int
    BY <2>1
  <2> QED
    BY <2>1, <2>2, <2>3, <1>2 DEF STEP
<1> QED
  BY <1>1, <1>2 DEF OnPasses

LEMMA PreviewSteps ==
  ASSUME OnPasses, Step
  PROVE  OnPasses'
<1>1. PICK k \in 0 .. 51, u \in 0 .. 51 : Pass(k, u)
  BY DEF OnPasses
<1>2. /\ lights \in Nat \ {0} /\ WholePasses(lights)
      /\ i \in 0 .. lights /\ i < lights /\ i' = i + 1
      /\ lights' = lights /\ direction' = direction /\ who' = who
      /\ dimmerValue' = dimmerValue + direction
  BY DEF OnPasses, Step
<1>3. Pass(k, u)' /\ dimmerValue' \in 0 .. 255
  <2>1. CASE direction = -STEP
    BY <2>1, <1>1, <1>2, PassRange DEF Pass, STEP
  <2>2. CASE direction = STEP
    BY <2>2, <1>1, <1>2, PassRange DEF Pass, STEP
  <2> QED
    BY <2>1, <2>2, <1>1 DEF Pass
<1>4. alive' = TRUE
  BY <1>3 DEF Step
<1> QED
  BY <1>2, <1>3, <1>4 DEF OnPasses, Highlight

LEMMA PreviewTurns ==
  ASSUME OnPasses, EndPass
  PROVE  OnPasses'
<1>1. PICK k \in 0 .. 51, u \in 0 .. 51 : Pass(k, u)
  BY DEF OnPasses
<1>2. /\ lights \in Nat \ {0} /\ WholePasses(lights) /\ i = lights /\ i' = 0
      /\ lights' = lights /\ who' = who
      /\ direction' = Turned(dimmerValue, direction) /\ dimmerValue' = dimmerValue
      /\ alive' = TRUE
  BY DEF OnPasses, EndPass
<1>3. lights * (k + 1) = lights * k + lights /\ lights * (k - 1) = lights * k - lights
  BY <1>2
<1>4. lights * k \in Int
  BY <1>2
<1>5. \E m, w \in 0 .. 51 : Pass(m, w)'
  <2>1. CASE direction = -STEP
    <3>1. PICK w \in 0 .. 51 :
            w = u - lights /\ w = 51 - lights * (k + 1) /\ dimmerValue = 5 * w
      BY <2>1, <1>1, <1>2, <1>3, <1>4, PassRange DEF Pass, STEP
    <3>2. k + 1 \in 0 .. 51
      <4>1. k = 51 => lights * k >= 51
        BY <1>2
      <4> QED
        BY <4>1, <1>1, <1>4, <2>1 DEF Pass, STEP
    <3>3. \/ direction' = -STEP /\ w >= 5
          \/ direction' = STEP
      BY <3>1, <2>1, <1>2 DEF Turned, STEP, LOW, HIGH
    <3>4. dimmerValue' = 5 * (w - i') /\ dimmerValue' = 5 * (w + i')
      BY <3>1, <1>2
    <3>5. Pass(k + 1, w)'
      BY <3>1, <3>2, <3>3, <3>4, <1>1, <1>2 DEF Pass
    <3> QED
      BY <3>1, <3>2, <3>5
  <2>2. CASE direction = STEP
    <3>1. PICK w \in 0 .. 51 :
            /\ w = u + lights /\ w = 51 - lights * (k - 1) /\ dimmerValue = 5 * w
            /\ k - 1 \in 0 .. 51
      BY <2>2, <1>1, <1>2, <1>3, <1>4, PassRange DEF Pass, STEP
    <3>2. k - 1 = 0 => w = 51
      BY <3>1, <1>2
    <3>3. \/ direction' = -STEP /\ w >= 5
          \/ direction' = STEP /\ k - 1 >= 1
      BY <3>1, <3>2, <2>2, <1>2 DEF Turned, STEP, LOW, HIGH
    <3>4. dimmerValue' = 5 * (w - i') /\ dimmerValue' = 5 * (w + i')
      BY <3>1, <1>2
    <3>5. Pass(k - 1, w)'
      BY <3>1, <3>3, <3>4, <1>1, <1>2 DEF Pass
    <3> QED
      BY <3>1, <3>5
  <2> QED
    BY <2>1, <2>2, <1>1 DEF Pass
<1> QED
  BY <1>2, <1>5 DEF OnPasses, Highlight

\* For any number of lights: neither thread gives setDimmerValue a value it refuses as
\* long as the passes of a preview fit the range (1 to 8, 10, 12, 16, 17 lights...); the
\* highlight needs no such condition.
THEOREM DimmersFit == DimmerSpec => []DimmerFits
<1> DEFINE Inv == ~Highlight /\ WholePasses(lights) => OnPasses
<1>1. DimmerInit => Inv
  <2> SUFFICES ASSUME DimmerInit, ~Highlight, WholePasses(lights) PROVE OnPasses
    OBVIOUS
  <2>1. lights \in Nat \ {0} /\ i = 0 /\ alive = TRUE
    BY DimmerAssumption DEF DimmerInit
  <2>2. Pass(0, 51)
    BY <2>1 DEF DimmerInit, Pass, STEP
  <2> QED
    BY <2>1, <2>2 DEF OnPasses
<1>2. Inv /\ [DimmerNext]_dimmerVars => Inv'
  <2> SUFFICES ASSUME Inv, [DimmerNext]_dimmerVars, ~Highlight', WholePasses(lights)'
               PROVE  OnPasses'
    OBVIOUS
  <2>1. ~Highlight
    BY DEF DimmerNext, Step, EndPass, dimmerVars, Highlight
  <2>2. lights' = lights
    BY <2>1 DEF DimmerNext, Step, EndPass, dimmerVars
  <2>3. OnPasses
    BY <2>1, <2>2 DEF WholePasses
  <2>4. CASE UNCHANGED dimmerVars
    BY <2>3, <2>4 DEF OnPasses, Pass, dimmerVars, Highlight, WholePasses
  <2> QED
    BY <2>3, <2>4, PreviewSteps, PreviewTurns DEF DimmerNext
<1>3. Inv /\ (Highlight => DimmerInRange) => DimmerFits
  <2> SUFFICES ASSUME OnPasses PROVE DimmerInRange
    BY DEF DimmerFits
  <2>1. PICK k \in 0 .. 51, u \in 0 .. 51 : Pass(k, u)
    BY DEF OnPasses
  <2>2. lights \in Nat \ {0} /\ i \in 0 .. lights /\ alive = TRUE
    BY DEF OnPasses
  <2>3. CASE direction = -STEP
    BY <2>1, <2>2, <2>3, PassRange DEF Pass, STEP, DimmerInRange
  <2>4. CASE direction = STEP
    BY <2>1, <2>2, <2>4, PassRange DEF Pass, STEP, DimmerInRange
  <2> QED
    BY <2>1, <2>3, <2>4 DEF Pass
<1> QED
  BY <1>1, <1>2, <1>3, HighlightInRange, PTL DEF DimmerSpec

=============================================================================
