---------------------------- MODULE InputProofs -----------------------------
(***************************************************************************)
(* The input side of the controller for every timeout, debounce time and   *)
(* repeat time: the Konami detector is sound, the buttons and the stick    *)
(* are debounced exactly, and no clean press is missed or reported twice.  *)
(***************************************************************************)
EXTENDS Konami, Buttons, Joystick, TLAPS

-----------------------------------------------------------------------------
(* The Konami detector (Konami): it announces a code only when the naive matcher kept in
   the history variables has seen it. *)

\* A detector at d follows what the history spelled, with S and R for spelled and
\* revSpelled; lag is the number of ticks its clock is ahead of the silence.
Follows(d, S, R, lag) ==
  /\ d \in (0 .. 10) \X (0 .. 10) \X (0 .. Timeout + 1)
  /\ d[1] = 0 \/ d[2] = 0
  /\ (d[3] > 0) <=> (d[1] > 0 \/ d[2] > 0)
  /\ d[1] \in S /\ d[2] \in R
  /\ d[3] > 0 => d[3] = silence + lag /\ silence <= Timeout

KonamiInv ==
  /\ TypeOK
  /\ 0 \in spelled /\ 0 \in revSpelled
  /\ Follows(detector, spelled, revSpelled, 1)
  /\ CodeWasSpelled

-----------------------------------------------------------------------------
\* The clock's tick keeps the detector behind the history, one tick later.
LEMMA TickFollows ==
  ASSUME KonamiInv
  PROVE  Follows(Ticked, spelled, revSpelled, 2)
BY KonamiAssumption DEF KonamiInv, TypeOK, Follows, Ticked, detector

\* What the naive matcher holds after the pair e
LEMMA SpelledNext ==
  ASSUME NEW S \in SUBSET (0 .. 11), NEW code, Len(code) = 11, NEW e
  PROVE  /\ Spelled(S, code, e) \in SUBSET (0 .. 11)
         /\ 0 \in Spelled(S, code, e)
         /\ \A k \in 0 .. 10 :
              /\ k \in (IF silence > Timeout THEN {0} ELSE S)
              /\ Hits(code, k, e)
              => k + 1 \in Spelled(S, code, e)
BY DEF Spelled

LEMMA CodeLengths == Len(Code) = 11 /\ Len(ReverseCode) = 11
BY DEF Code, ReverseCode

\* A pair with a key in it is sent as some key.
LEMMA ActionOfEvent ==
  ASSUME NEW e \in Event
  PROVE  /\ Action(e) \in Directions \union Buttons \union {"none"}
         /\ e # Nothing => Action(e) # "none"
BY DEF Event, Action, Directions, Buttons, Nothing

-----------------------------------------------------------------------------
\* The part of the invariant that IdleLoop re-establishes, and the reason why a
\* pair was withheld
IdleResult(e) ==
  /\ KonamiInv'
  /\ e # Nothing /\ sent' = "none" =>
       \/ konami_state' \in 8 .. 10 /\ konami_state' \in spelled'
       \/ reverse_konami_state' \in 8 .. 10 /\ reverse_konami_state' \in revSpelled'

\* A debounce tick in idle mode keeps the invariant: by cases on what check_konami
\* makes of the pair.
LEMMA IdleLoopKeeps ==
  ASSUME KonamiInv, NEW e \in Event, IdleLoop(e)
  PROVE  IdleResult(e)
<1> DEFINE d == Ticked
           c == Checked(d, e)
<1>1. Follows(d, spelled, revSpelled, 2)
  BY TickFollows
<1>2. /\ konami_state' = c.detector[1] /\ reverse_konami_state' = c.detector[2]
      /\ konami_tick_count' = c.detector[3]
      /\ sent' = CASE c.answer = "pass" -> Action(e)
                   [] c.answer = "swallow" -> "none"
                   [] OTHER -> c.answer
      /\ Remember(e) /\ MODE' = MODE
  BY DEF IdleLoop
<1>3. CASE e = Nothing
  <2>1. c = [detector |-> d, answer |-> "pass"]
    BY <1>3 DEF Checked
  <2>2. sent' = "none"
    BY <1>2, <1>3, <2>1 DEF Action, Nothing
  <2>3. /\ spelled' = spelled /\ revSpelled' = revSpelled
        /\ silence' = IF silence > Timeout THEN silence ELSE silence + 1
    BY <1>2, <1>3 DEF Remember
  <2>4. /\ konami_state' = d[1] /\ reverse_konami_state' = d[2]
        /\ konami_tick_count' = d[3]
    BY <1>2, <2>1
  <2> HIDE DEF d, c
  <2>5. Follows(detector, spelled, revSpelled, 1)'
    BY <1>1, <2>3, <2>4, KonamiAssumption DEF Follows, detector, KonamiInv, TypeOK
  <2> QED
    BY <1>1, <1>2, <1>3, <2>2, <2>3, <2>4, <2>5, KonamiAssumption
       DEF KonamiInv, TypeOK, IdleResult, CodeWasSpelled, Follows
<1>4. CASE e # Nothing
  <2>1. /\ silence' = 0
        /\ spelled' = Spelled(spelled, Code, e)
        /\ revSpelled' = Spelled(revSpelled, ReverseCode, e)
    BY <1>2, <1>4 DEF Remember
  <2>2. /\ spelled' \in SUBSET (0 .. 11) /\ 0 \in spelled'
        /\ Hits(Code, d[1], e) => d[1] + 1 \in spelled'
    <3>1. d[1] \in 0 .. 10 /\ d[1] \in (IF silence > Timeout THEN {0} ELSE spelled)
      <4> HIDE DEF d
      <4> QED BY <1>1, KonamiAssumption DEF Follows, KonamiInv, TypeOK
    <3> HIDE DEF d
    <3> QED BY <2>1, <3>1, CodeLengths, SpelledNext DEF KonamiInv, TypeOK
  <2>3. /\ revSpelled' \in SUBSET (0 .. 11) /\ 0 \in revSpelled'
        /\ Hits(ReverseCode, d[2], e) => d[2] + 1 \in revSpelled'
    <3>1. d[2] \in 0 .. 10 /\ d[2] \in (IF silence > Timeout THEN {0} ELSE revSpelled)
      <4> HIDE DEF d
      <4> QED BY <1>1, KonamiAssumption DEF Follows, KonamiInv, TypeOK
    <3> HIDE DEF d
    <3> QED BY <2>1, <3>1, CodeLengths, SpelledNext DEF KonamiInv, TypeOK
  <2> HIDE DEF d
  <2>4. ASSUME c = [detector |-> <<0, 0, 0>>, answer |-> "pass"]
        PROVE  IdleResult(e)
    <3>1. /\ konami_state' = 0 /\ reverse_konami_state' = 0
          /\ konami_tick_count' = 0 /\ sent' = Action(e)
      BY <1>2, <2>4
    <3> HIDE DEF c
    <3> QED
      BY <1>2, <1>4, <2>1, <2>2, <2>3, <3>1, ActionOfEvent, KonamiAssumption
         DEF KonamiInv, TypeOK, IdleResult, CodeWasSpelled, Follows, detector,
             Directions, Buttons
  <2>5. CASE GoesOn(d[1], d[2], Code, e) /\ d[1] = 10
    <3>1. c = [detector |-> <<0, 0, 0>>, answer |-> "KONAMI"]
      BY <1>4, <2>5 DEF Checked
    <3>2. /\ konami_state' = 0 /\ reverse_konami_state' = 0
          /\ konami_tick_count' = 0 /\ sent' = "KONAMI"
      BY <1>2, <3>1
    <3>3. 11 \in spelled'
      BY <2>2, <2>5 DEF GoesOn
    <3> HIDE DEF c
    <3> QED
      BY <1>2, <2>1, <2>2, <2>3, <3>2, <3>3, KonamiAssumption
         DEF KonamiInv, TypeOK, IdleResult, CodeWasSpelled, Follows, detector
  <2>6. CASE GoesOn(d[1], d[2], Code, e) /\ d[1] # 10
    <3>1. c = [detector |-> <<d[1] + 1, d[2], 1>>,
               answer |-> IF d[1] >= 7 THEN "swallow" ELSE "pass"]
      BY <1>4, <2>6 DEF Checked
    <3>2. /\ konami_state' = d[1] + 1 /\ reverse_konami_state' = d[2]
          /\ konami_tick_count' = 1
          /\ sent' = IF d[1] >= 7 THEN "none" ELSE Action(e)
      BY <1>2, <3>1
    <3>3. d[1] \in 0 .. 9 /\ d[2] = 0 /\ d[1] + 1 \in spelled'
      BY <1>1, <2>2, <2>6 DEF GoesOn, Follows
    <3> HIDE DEF c
    <3> QED
      BY <1>2, <1>4, <2>1, <2>2, <2>3, <3>2, <3>3, ActionOfEvent, KonamiAssumption
         DEF KonamiInv, TypeOK, IdleResult, CodeWasSpelled, Follows, detector,
             Directions, Buttons
  <2>7. CASE ~GoesOn(d[1], d[2], Code, e) /\ GoesOn(d[2], d[1], ReverseCode, e)
             /\ d[2] = 10
    <3>1. c = [detector |-> <<0, 0, 0>>, answer |-> "REV_KONAMI"]
      BY <1>4, <2>7 DEF Checked
    <3>2. /\ konami_state' = 0 /\ reverse_konami_state' = 0
          /\ konami_tick_count' = 0 /\ sent' = "REV_KONAMI"
      BY <1>2, <3>1
    <3>3. 11 \in revSpelled'
      BY <2>3, <2>7 DEF GoesOn
    <3> HIDE DEF c
    <3> QED
      BY <1>2, <2>1, <2>2, <2>3, <3>2, <3>3, KonamiAssumption
         DEF KonamiInv, TypeOK, IdleResult, CodeWasSpelled, Follows, detector
  <2>8. CASE ~GoesOn(d[1], d[2], Code, e) /\ GoesOn(d[2], d[1], ReverseCode, e)
             /\ d[2] # 10
    <3>1. c = [detector |-> <<d[1], d[2] + 1, 1>>,
               answer |-> IF d[2] >= 7 THEN "swallow" ELSE "pass"]
      BY <1>4, <2>8 DEF Checked
    <3>2. /\ konami_state' = d[1] /\ reverse_konami_state' = d[2] + 1
          /\ konami_tick_count' = 1
          /\ sent' = IF d[2] >= 7 THEN "none" ELSE Action(e)
      BY <1>2, <3>1
    <3>3. d[2] \in 0 .. 9 /\ d[1] = 0 /\ d[2] + 1 \in revSpelled'
      BY <1>1, <2>3, <2>8 DEF GoesOn, Follows
    <3> HIDE DEF c
    <3> QED
      BY <1>2, <1>4, <2>1, <2>2, <2>3, <3>2, <3>3, ActionOfEvent, KonamiAssumption
         DEF KonamiInv, TypeOK, IdleResult, CodeWasSpelled, Follows, detector,
             Directions, Buttons
  <2>9. CASE ~GoesOn(d[1], d[2], Code, e) /\ ~GoesOn(d[2], d[1], ReverseCode, e)
    BY <1>4, <2>4, <2>9 DEF Checked
  <2> QED
    BY <2>5, <2>6, <2>7, <2>8, <2>9
<1> QED
  BY <1>3, <1>4

\* Outside idle mode only the clock moves.
LEMMA OtherLoopKeeps ==
  ASSUME KonamiInv, NEW e \in Event, OtherLoop(e)
  PROVE  KonamiInv'
<1>1. Follows(Ticked, spelled, revSpelled, 2)
  BY TickFollows
<1>2. /\ konami_state' = Ticked[1] /\ reverse_konami_state' = Ticked[2]
      /\ konami_tick_count' = Ticked[3]
      /\ sent' = Action(e) /\ MODE' = MODE
      /\ spelled' = spelled /\ revSpelled' = revSpelled
      /\ silence' = IF silence > Timeout THEN silence ELSE silence + 1
  BY DEF OtherLoop, Remember
<1> QED
  BY <1>1, <1>2, ActionOfEvent, KonamiAssumption
     DEF KonamiInv, TypeOK, CodeWasSpelled, Follows, detector, Directions, Buttons

-----------------------------------------------------------------------------
\* KonamiInv is an invariant: each loop of the controller and each change of mode
\* keeps it.
THEOREM KonamiInvariant == Spec => []KonamiInv
<1>1. Init => KonamiInv
  BY KonamiAssumption
     DEF Init, KonamiInv, TypeOK, ConsoleModes, CodeWasSpelled, Follows, detector
<1>2. KonamiInv /\ [Next]_konamiVars => KonamiInv'
  <2> SUFFICES ASSUME KonamiInv, [Next]_konamiVars PROVE KonamiInv'
    OBVIOUS
  <2>1. ASSUME NEW e \in Event, IdleLoop(e) PROVE KonamiInv'
    BY <2>1, IdleLoopKeeps DEF IdleResult
  <2>2. ASSUME NEW e \in Event, OtherLoop(e) PROVE KonamiInv'
    BY <2>2, OtherLoopKeeps
  <2>3. ASSUME NEW m \in ConsoleModes, SetMode(m) PROVE KonamiInv'
    BY <2>3 DEF SetMode, KonamiInv, TypeOK, CodeWasSpelled, Follows, detector, history
  <2>4. CASE UNCHANGED konamiVars
    BY <2>4 DEF konamiVars, KonamiInv, TypeOK, CodeWasSpelled, Follows, detector, history
  <2> QED
    BY <2>1, <2>2, <2>3, <2>4 DEF Next
<1> QED
  BY <1>1, <1>2, PTL DEF Spec

\* For every timeout: the types hold, a code is announced only when it was spelled, one code is
\* followed at a time with its clock running, and none outlives the timeout.
THEOREM DetectorSound ==
  Spec => [](TypeOK /\ CodeWasSpelled /\ OneCodeAndClock /\ ForgottenAfterTimeout)
<1>1. KonamiInv => TypeOK /\ CodeWasSpelled /\ OneCodeAndClock /\ ForgottenAfterTimeout
  BY KonamiAssumption
     DEF KonamiInv, TypeOK, Follows, detector, OneCodeAndClock, ForgottenAfterTimeout
<1> QED
  BY <1>1, KonamiInvariant, PTL

\* For every timeout: the only keys withheld from the server are keys 8 to 10 of a
\* code that was spelled so far.
THEOREM TailOnly == Spec => OnlyTailSwallowed
<1> DEFINE Withheld ==
      konamiVars' # konamiVars /\ sent' = "none" =>
        \A e \in Event \ {Nothing} :
          IdleLoop(e) =>
            \/ konami_state' \in 8 .. 10 /\ konami_state' \in spelled'
            \/ reverse_konami_state' \in 8 .. 10 /\ reverse_konami_state' \in revSpelled'
<1>1. KonamiInv /\ [Next]_konamiVars => [Withheld]_konamiVars
  BY IdleLoopKeeps DEF IdleResult
<1> QED
  BY <1>1, KonamiInvariant, PTL DEF Spec, OnlyTailSwallowed

-----------------------------------------------------------------------------
(* The buttons (Buttons) *)

\* A counter is marked or within its limit.
CountsBounded ==
  \A b \in Button : count[b] = Reported(b) \/ count[b] \in 0 .. Limit(b) + 1

\* The chord is looked at by every call: its counter is its run.
ChordCounts ==
  \/ count["B12"] = -1 /\ told["B12"] = 1 /\ run["B12"] > DEBOUNCE_COUNT
  \/ count["B12"] >= 0 /\ told["B12"] = 0 /\ run["B12"] = count["B12"]

\* B1 is not looked at while the chord is down, so its counter may lag behind.
B1Counts ==
  \/ count["B1"] = -1 /\ told["B1"] = 1
  \/ count["B1"] >= 0 /\ told["B1"] = 0 /\ count["B1"] <= run["B1"]

\* The other counters may be ahead, but a reported press is always marked.
MarkedOnce ==
  \A b \in {"B2", "PS2_B", "PS2_LONG"} :
    told[b] = 0 \/ (told[b] = 1 /\ count[b] = Reported(b))

\* In a clean press the counter of the button is exact.
CleanCounts ==
  /\ clean.button = "none" => clean.ticks = 0 /\ \A b \in Button : count[b] = 0
  /\ \A b \in {"B1", "B2", "PS2_B"} : clean.button = b =>
       \/ count[b] = -1 /\ told[b] = 1 /\ clean.ticks > DEBOUNCE_COUNT + 1
       \/ count[b] >= 0 /\ clean.ticks = count[b]
  /\ clean.button = "PS2_B" =>
       \/ count["PS2_B"] >= 0 /\ count["PS2_LONG"] = 0
       \/ count["PS2_LONG"] = -2 /\ told["PS2_LONG"] = 1
       \/ /\ count["PS2_LONG"] >= 0
          /\ clean.ticks = DEBOUNCE_COUNT + 2 + count["PS2_LONG"]

ButtonsInv ==
  ButtonsTypeOK /\ CountsBounded /\ ChordCounts /\ B1Counts /\ MarkedOnce /\ CleanCounts
  /\ FrontDebounced

-----------------------------------------------------------------------------
LEMMA InitHolds == ButtonsInit => ButtonsInv
BY ButtonsAssumption
   DEF ButtonsInit, ButtonsInv, ButtonsTypeOK, CountsBounded, ChordCounts, B1Counts, MarkedOnce,
       CleanCounts, FrontDebounced, Button, RunCap, PressCap, Limit, Reported

\* The history is of its type whatever the call answers.
LEMMA ObserveType ==
  ASSUME ButtonsTypeOK, NEW p \in Pins, NEW answer \in Button \union {"none"},
         Observe(p, answer)
  PROVE  /\ report' \in Button \union {"none"}
         /\ run' \in [Button -> 0 .. RunCap]
         /\ told' \in [Button -> 0 .. 2]
         /\ clean' \in [button : {"none", "B1", "B2", "PS2_B", "several"}, ticks : 0 .. PressCap]
<1>1. Only(p) \in {"none", "B1", "B2", "PS2_B", "several"}
  BY DEF Only
<1> QED
  BY <1>1, ButtonsAssumption DEF ButtonsTypeOK, Observe, UpTo, RunCap, PressCap

\* A pressed button's counter stays within its limit.
LEMMA PressedBounded ==
  ASSUME ButtonsTypeOK, CountsBounded, NEW b \in Button
  PROVE  Pressed(b) = Reported(b) \/ Pressed(b) \in 0 .. Limit(b) + 1
BY ButtonsAssumption DEF ButtonsTypeOK, CountsBounded, Button, Pressed, Limit, Reported

\* So all counters stay within their limits and types.
LEMMA PressKeepsCounts ==
  ASSUME ButtonsInv, NEW p \in Pins, NEW b \in Button, NEW released \in SUBSET Button,
         Press(b, released, p)
  PROVE  ButtonsTypeOK' /\ CountsBounded'
<1>1. /\ Pressed(b) = Reported(b) \/ Pressed(b) \in 0 .. Limit(b) + 1
      /\ Observe(p, IF Fires(b) THEN b ELSE "none")
      /\ count' = [x \in Button |-> IF x = b THEN Pressed(b)
                                    ELSE IF x \in released THEN 0 ELSE count[x]]
      /\ ButtonsTypeOK /\ CountsBounded
  BY PressedBounded DEF ButtonsInv, Press
<1>2. CountsBounded'
  <2> SUFFICES ASSUME NEW x \in Button
               PROVE  count'[x] = Reported(x) \/ count'[x] \in 0 .. Limit(x) + 1
    BY DEF CountsBounded
  <2>1. 0 \in 0 .. Limit(x) + 1
    BY ButtonsAssumption DEF Limit, Button
  <2> QED
    BY <1>1, <2>1 DEF CountsBounded
<1>3. \A x \in Button : Reported(x) \in -2 .. PressCap /\ 0 .. Limit(x) + 1 \subseteq -2 .. PressCap
  BY ButtonsAssumption DEF Limit, Reported, PressCap, Button
<1>4. count' \in [Button -> -2 .. PressCap]
  BY <1>1, <1>2, <1>3 DEF CountsBounded
<1> QED
  BY <1>1, <1>2, <1>4, ObserveType DEF ButtonsTypeOK

\* What a call leaves in the history of every button
Seen(p, answer) ==
  \A b \in Button :
    /\ run'[b] = IF Down(p)[b]
                 THEN IF run[b] + 1 > RunCap THEN RunCap ELSE run[b] + 1 ELSE 0
    /\ ~Down(p)[b] => told'[b] = 0
    /\ Down(p)[b] /\ b # answer => told'[b] = told[b]
    /\ Down(p)[b] /\ b = answer /\ told[b] <= 1 => told'[b] = told[b] + 1
    /\ run[b] \in 0 .. RunCap /\ told[b] \in 0 .. 2
    /\ report' = answer

LEMMA Observed ==
  ASSUME ButtonsTypeOK, NEW p \in Pins, NEW answer, Observe(p, answer)
  PROVE  Seen(p, answer)
BY DEF ButtonsTypeOK, Observe, UpTo, Seen

-----------------------------------------------------------------------------
LEMMA ChordStep ==
  ASSUME ButtonsInv, NEW p \in Pins, ReadChord(p)
  PROVE  ButtonsInv'
<1> DEFINE answer == IF Fires("B12") THEN "B12" ELSE "none"
<1>1. /\ p.chord /\ Press("B12", {}, p) /\ Observe(p, answer)
      /\ \A x \in Button \ {"B12"} : count'[x] = count[x]
      /\ count'["B12"] = Pressed("B12")
  BY DEF ReadChord, Press, Button
<1>2. ButtonsTypeOK' /\ CountsBounded'
  BY <1>1, PressKeepsCounts DEF Button
<1>3. /\ Down(p)["B12"] /\ Down(p)["B1"] /\ Down(p)["B2"]
      /\ (Down(p)["PS2_B"] <=> p.PS2) /\ (Down(p)["PS2_LONG"] <=> p.PS2)
  BY <1>1 DEF Down, Button, Pins
<1>4. Seen(p, answer)
  BY <1>1, Observed DEF ButtonsInv
<1>5. ChordCounts' /\ (report' = "B12" => run'["B12"] > DEBOUNCE_COUNT)
  BY <1>1, <1>3, <1>4, ButtonsAssumption
     DEF ButtonsInv, ChordCounts, CountsBounded, Pressed, Fires, Limit, Reported, Button,
         RunCap, Seen
<1>6. B1Counts'
  BY <1>1, <1>3, <1>4, ButtonsAssumption
     DEF ButtonsInv, B1Counts, CountsBounded, Limit, Reported, Button, RunCap, Seen
<1>7. MarkedOnce'
  BY <1>1, <1>3, <1>4 DEF ButtonsInv, MarkedOnce, Button, Seen
<1>8. CleanCounts'
  <2>1. clean'.button = "several"
    BY <1>1 DEF Observe, Only, Pins
  <2> QED
    BY <2>1 DEF CleanCounts
<1> QED
  BY <1>1, <1>2, <1>4, <1>5, <1>6, <1>7, <1>8
     DEF ButtonsInv, FrontDebounced, Button, Seen

LEMMA B1Step ==
  ASSUME ButtonsInv, NEW p \in Pins, ReadB1(p)
  PROVE  ButtonsInv'
<1> DEFINE answer == IF Fires("B1") THEN "B1" ELSE "none"
<1>1. /\ ~p.chord /\ p.B1 /\ Press("B1", {"B12"}, p) /\ Observe(p, answer)
      /\ \A x \in {"B2", "PS2_B", "PS2_LONG"} : count'[x] = count[x]
      /\ count'["B12"] = 0 /\ count'["B1"] = Pressed("B1")
  BY DEF ReadB1, Press, Button
<1>2. ButtonsTypeOK' /\ CountsBounded'
  BY <1>1, PressKeepsCounts DEF Button
<1>3. /\ ~Down(p)["B12"] /\ Down(p)["B1"] /\ (Down(p)["B2"] <=> p.B2)
      /\ (Down(p)["PS2_B"] <=> p.PS2) /\ (Down(p)["PS2_LONG"] <=> p.PS2)
  BY <1>1 DEF Down, Button, Pins
<1>4. Seen(p, answer)
  BY <1>1, Observed DEF ButtonsInv
<1>5. ChordCounts'
  BY <1>1, <1>3, <1>4 DEF ChordCounts, Button, Seen
<1>6. B1Counts' /\ (report' = "B1" => run'["B1"] > DEBOUNCE_COUNT + 1)
  BY <1>1, <1>3, <1>4, ButtonsAssumption
     DEF ButtonsInv, B1Counts, CountsBounded, Pressed, Fires, Limit, Reported, Button,
         RunCap, Seen
<1>7. MarkedOnce'
  BY <1>1, <1>3, <1>4 DEF ButtonsInv, MarkedOnce, Button, Seen
<1>8. CleanCounts'
  <2>1. clean'.button = "several"
        \/ /\ Only(p) = "B1" /\ clean.button \in {"none", "B1"}
           /\ clean' = [button |-> "B1", ticks |-> UpTo(PressCap, clean.ticks + 1)]
    BY <1>1 DEF Observe, Only, Pins, ButtonsInv, ButtonsTypeOK
  <2> QED
    BY <1>1, <1>3, <1>4, <2>1, ButtonsAssumption
       DEF ButtonsInv, ButtonsTypeOK, CleanCounts, B1Counts, CountsBounded, Pressed, Fires, Limit,
           Reported, Button, UpTo, PressCap, Seen
<1> QED
  BY <1>1, <1>2, <1>4, <1>5, <1>6, <1>7, <1>8
     DEF ButtonsInv, FrontDebounced, Button, Seen

LEMMA B2Step ==
  ASSUME ButtonsInv, NEW p \in Pins, ReadB2(p)
  PROVE  ButtonsInv'
<1> DEFINE answer == IF Fires("B2") THEN "B2" ELSE "none"
<1>1. /\ ~p.chord /\ ~p.B1 /\ p.B2 /\ Press("B2", {"B12", "B1"}, p) /\ Observe(p, answer)
      /\ \A x \in {"PS2_B", "PS2_LONG"} : count'[x] = count[x]
      /\ count'["B12"] = 0 /\ count'["B1"] = 0 /\ count'["B2"] = Pressed("B2")
  BY DEF ReadB2, Press, Button
<1>2. ButtonsTypeOK' /\ CountsBounded'
  BY <1>1, PressKeepsCounts DEF Button
<1>3. /\ ~Down(p)["B12"] /\ ~Down(p)["B1"] /\ Down(p)["B2"]
      /\ (Down(p)["PS2_B"] <=> p.PS2) /\ (Down(p)["PS2_LONG"] <=> p.PS2)
  BY <1>1 DEF Down, Button, Pins
<1>4. Seen(p, answer)
  BY <1>1, Observed DEF ButtonsInv
<1>5. ChordCounts' /\ B1Counts'
  BY <1>1, <1>3, <1>4 DEF ChordCounts, B1Counts, Button, Seen
<1>6. MarkedOnce'
  BY <1>1, <1>3, <1>4 DEF ButtonsInv, MarkedOnce, Button, Seen, Pressed, Fires, Reported
<1>7. CleanCounts'
  <2>1. clean'.button = "several"
        \/ /\ Only(p) = "B2" /\ clean.button \in {"none", "B2"}
           /\ clean' = [button |-> "B2", ticks |-> UpTo(PressCap, clean.ticks + 1)]
    BY <1>1 DEF Observe, Only, Pins, ButtonsInv, ButtonsTypeOK
  <2> QED
    BY <1>1, <1>3, <1>4, <2>1, ButtonsAssumption
       DEF ButtonsInv, ButtonsTypeOK, CleanCounts, MarkedOnce, CountsBounded, Pressed, Fires, Limit,
           Reported, Button, UpTo, PressCap, Seen
<1> QED
  BY <1>1, <1>2, <1>4, <1>5, <1>6, <1>7 DEF ButtonsInv, FrontDebounced, Button, Seen

LEMMA PS2Step ==
  ASSUME ButtonsInv, NEW p \in Pins, ReadPS2(p)
  PROVE  ButtonsInv'
<1> DEFINE b == IF count["PS2_B"] = -1 THEN "PS2_LONG" ELSE "PS2_B"
           answer == IF Fires(b) THEN b ELSE "none"
<1>1. /\ ~p.chord /\ ~p.B1 /\ ~p.B2 /\ p.PS2
      /\ Press(b, {"B12", "B1", "B2"}, p) /\ Observe(p, answer)
      /\ \A x \in {"PS2_B", "PS2_LONG"} \ {b} : count'[x] = count[x]
      /\ count'["B12"] = 0 /\ count'["B1"] = 0 /\ count'["B2"] = 0
      /\ count'[b] = Pressed(b)
  BY DEF ReadPS2, Press, Button
<1>2. ButtonsTypeOK' /\ CountsBounded'
  BY <1>1, PressKeepsCounts DEF Button
<1>3. /\ ~Down(p)["B12"] /\ ~Down(p)["B1"] /\ ~Down(p)["B2"]
      /\ Down(p)["PS2_B"] /\ Down(p)["PS2_LONG"]
  BY <1>1 DEF Down, Button, Pins
<1>4. Seen(p, answer)
  BY <1>1, Observed DEF ButtonsInv
<1>5. ChordCounts' /\ B1Counts'
  BY <1>1, <1>3, <1>4 DEF ChordCounts, B1Counts, Button, Seen
<1>6. MarkedOnce'
  BY <1>1, <1>3, <1>4 DEF ButtonsInv, MarkedOnce, Button, Seen, Pressed, Fires, Reported
<1>7. CleanCounts'
  <2>1. clean'.button = "several"
        \/ /\ Only(p) = "PS2_B" /\ clean.button \in {"none", "PS2_B"}
           /\ clean' = [button |-> "PS2_B", ticks |-> UpTo(PressCap, clean.ticks + 1)]
    BY <1>1 DEF Observe, Only, Pins, ButtonsInv, ButtonsTypeOK
  <2>2. CASE count["PS2_B"] = -1
    BY <1>1, <1>3, <1>4, <2>1, <2>2, ButtonsAssumption
       DEF ButtonsInv, ButtonsTypeOK, CleanCounts, MarkedOnce, CountsBounded, Pressed, Fires, Limit,
           Reported, Button, UpTo, PressCap, Seen
  <2>3. CASE count["PS2_B"] # -1
    BY <1>1, <1>3, <1>4, <2>1, <2>3, ButtonsAssumption
       DEF ButtonsInv, ButtonsTypeOK, CleanCounts, MarkedOnce, CountsBounded, Pressed, Fires, Limit,
           Reported, Button, UpTo, PressCap, Seen
  <2> QED
    BY <2>2, <2>3
<1> QED
  BY <1>1, <1>2, <1>4, <1>5, <1>6, <1>7 DEF ButtonsInv, FrontDebounced, Button, Seen

LEMMA NoneStep ==
  ASSUME ButtonsInv, NEW p \in Pins, ReadNone(p)
  PROVE  ButtonsInv'
<1>1. /\ count' = [b \in Button |-> 0] /\ Observe(p, "none") /\ Only(p) = "none"
      /\ \A b \in Button : ~Down(p)[b]
  BY DEF ReadNone, Down, Only, Pins, Button
<1>2. Seen(p, "none")
  BY <1>1, Observed DEF ButtonsInv
<1>3. ButtonsTypeOK' /\ CountsBounded'
  <2>1. count' \in [Button -> -2 .. PressCap]
    BY <1>1, ButtonsAssumption DEF PressCap
  <2>2. \A b \in Button : 0 \in 0 .. Limit(b) + 1
    BY ButtonsAssumption DEF Limit, Button
  <2> QED
    BY <1>1, <2>1, <2>2, ObserveType DEF ButtonsTypeOK, ButtonsInv, CountsBounded
<1>4. ChordCounts' /\ B1Counts' /\ MarkedOnce' /\ FrontDebounced'
  BY <1>1, <1>2 DEF ChordCounts, B1Counts, MarkedOnce, FrontDebounced, Button, Seen
<1>5. CleanCounts'
  BY <1>1 DEF Observe, CleanCounts
<1> QED
  BY <1>3, <1>4, <1>5 DEF ButtonsInv

-----------------------------------------------------------------------------
\* read_button keeps the invariant, in whichever branch it returns.
THEOREM ButtonsInvariant == ButtonsSpec => []ButtonsInv
<1>1. ButtonsInv /\ [ButtonsNext]_buttonVars => ButtonsInv'
  <2> SUFFICES ASSUME ButtonsInv, [ButtonsNext]_buttonVars PROVE ButtonsInv'
    OBVIOUS
  <2>1. CASE UNCHANGED buttonVars
    BY <2>1 DEF buttonVars, ButtonsInv, ButtonsTypeOK, CountsBounded, ChordCounts, B1Counts,
                MarkedOnce, CleanCounts, FrontDebounced
  <2>2. CASE ButtonsNext
    BY <2>2, ChordStep, B1Step, B2Step, PS2Step, NoneStep DEF ButtonsNext
  <2> QED
    BY <2>1, <2>2
<1> QED
  BY <1>1, InitHolds, PTL DEF ButtonsSpec

\* The counters and the history keep their types.
THEOREM ButtonsTyped == ButtonsSpec => []ButtonsTypeOK
<1>1. ButtonsInv => ButtonsTypeOK
  BY DEF ButtonsInv
<1> QED
  BY <1>1, ButtonsInvariant, PTL

\* read_button reports the chord and B1 only after a full debounce time.
THEOREM FrontIsDebounced == ButtonsSpec => []FrontDebounced
<1>1. ButtonsInv => FrontDebounced
  BY DEF ButtonsInv
<1> QED
  BY <1>1, ButtonsInvariant, PTL

\* No button is reported twice in one press.
THEOREM OneReportPerPress == ButtonsSpec => []OncePerPress
<1>1. ButtonsInv => OncePerPress
  BY DEF ButtonsInv, OncePerPress, Button, ChordCounts, B1Counts, MarkedOnce
<1> QED
  BY <1>1, ButtonsInvariant, PTL

\* A clean press that lasts long enough has been reported.
THEOREM CleanPressReported == ButtonsSpec => []HeldIsReported
<1>1. ButtonsInv => HeldIsReported
  <2> SUFFICES ASSUME ButtonsInv PROVE HeldIsReported
    OBVIOUS
  <2>1. run["B12"] > DEBOUNCE_COUNT => told["B12"] = 1
    BY ButtonsAssumption DEF ButtonsInv, ChordCounts, CountsBounded, Limit, Reported, Button
  <2>2. \A b \in {"B1", "B2", "PS2_B"} :
          clean.button = b /\ clean.ticks > DEBOUNCE_COUNT + 1 => told[b] = 1
    BY ButtonsAssumption DEF ButtonsInv, CleanCounts, CountsBounded, Limit, Reported, Button
  <2>3. clean.button = "PS2_B" /\ clean.ticks = PressCap => told["PS2_LONG"] = 1
    BY ButtonsAssumption
       DEF ButtonsInv, CleanCounts, CountsBounded, Limit, Reported, Button, PressCap
  <2> QED
    BY <2>1, <2>2, <2>3 DEF HeldIsReported
<1> QED
  BY <1>1, ButtonsInvariant, PTL

-----------------------------------------------------------------------------
(* The stick (Joystick): a direction is taken after exactly its debounce time, and repeats
   are apart by the repeat time. *)

\* The two lives of a counter: before the report it counts the calls, after it the
\* deflection was told and its calls are past the debounce time.
DirCounted(d) ==
  \/ /\ dir_count[d] \in 0 .. STICK_DEBOUNCE_COUNT + 1
     /\ dir_told[d] = 0 /\ held[d] = dir_count[d]
     /\ d \in Repeating => long[d] = 0
  \/ /\ dir_count[d] \in {-2, -1} /\ held[d] = HeldCap
     /\ dir_told[d] \in {1, 2}
     /\ d \notin Repeating => dir_count[d] = -1

\* A long count never runs ahead of the calls since the last report; the calls that are
\* made while the mode does not read continuously only widen the gap.
LongCounted(d) ==
  /\ long[d] \in Nat
  /\ since[d] \in 0 .. RepeatCap
  /\ dir_count[d] = -1 =>
       dir_told[d] = 1 /\ long[d] <= STICK_LONG_HOLD_COUNT + 1 /\ long[d] <= since[d]
  /\ dir_count[d] = -2 =>
       /\ long[d] <= FAST_RATE_TICK + 1
       /\ since[d] >= long[d] + IF dir_told[d] = 1 THEN STICK_LONG_HOLD_COUNT + 2 ELSE 0

DirCounts == \A d \in Deflections : DirCounted(d)
LongCounts == \A d \in Repeating : LongCounted(d)

\* The functions are functions.
JoystickFunctions ==
  /\ dir_count \in [Deflections -> Int] /\ long \in [Repeating -> Int]
  /\ held \in [Deflections -> Int] /\ dir_told \in [Deflections -> Int]
  /\ since \in [Repeating -> Int]

JoystickInv == JoystickFunctions /\ DirCounts /\ LongCounts

-----------------------------------------------------------------------------
LEMMA JoystickInitHolds == JoystickInit => JoystickInv
BY JoystickAssumption
   DEF JoystickInit, JoystickInv, JoystickFunctions, DirCounts, LongCounts, DirCounted, LongCounted,
       Deflections, Repeating, RepeatCap

\* What a call that finds deflection d leaves in the history of every deflection
LEMMA StickObserved ==
  ASSUME JoystickFunctions, NEW d \in Deflections, NEW en \in BOOLEAN, NEW fires \in BOOLEAN,
         ObserveStick(d, en, fires)
  PROVE  /\ held' \in [Deflections -> Int] /\ dir_told' \in [Deflections -> Int]
         /\ since' \in [Repeating -> Int]
         /\ held'[d] = AtMost(HeldCap, held[d] + 1)
         /\ dir_told'[d] = IF fires THEN AtMost(2, dir_told[d] + 1) ELSE dir_told[d]
         /\ d \in Repeating =>
              since'[d] = IF fires \/ dir_told[d] = 0 THEN 0 ELSE AtMost(RepeatCap, since[d] + 1)
         /\ \A e \in Deflections \ {d} : held'[e] = held[e] /\ dir_told'[e] = dir_told[e]
         /\ \A e \in Repeating \ {d} : since'[e] = since[e]
         /\ stick' = d /\ enable' = en
         /\ dir_report' = IF fires THEN Flipped(d) ELSE "CENTER"
<1>1. d # "none"
  BY DEF Deflections, Repeating
<1>2. Repeating \subseteq Deflections
  BY DEF Deflections
<1> USE JoystickAssumption DEF ObserveStick, JoystickFunctions, AtMost, HeldCap, RepeatCap
<1>3. held' = [held EXCEPT ![d] = AtMost(HeldCap, @ + 1)]
  BY <1>1
<1>4. dir_told' = [dir_told EXCEPT ![d] = IF fires THEN AtMost(2, @ + 1) ELSE @]
  BY <1>1
<1>5. since' = [e \in Repeating |->
                 IF e # d THEN since[e]
                 ELSE IF fires \/ dir_told[d] = 0 THEN 0
                 ELSE AtMost(RepeatCap, since[d] + 1)]
  BY <1>1
<1>6. held' \in [Deflections -> Int] /\ dir_told' \in [Deflections -> Int]
  BY <1>3, <1>4
<1>7. since' \in [Repeating -> Int]
  BY <1>5
<1> QED
  BY <1>1, <1>2, <1>3, <1>4, <1>5, <1>6, <1>7

\* A call that finds deflection d leaves the others as they were.
LEMMA OthersKeep ==
  ASSUME JoystickInv, NEW d \in Deflections, NEW en \in BOOLEAN, NEW fires \in BOOLEAN,
         ObserveStick(d, en, fires),
         dir_count' \in [Deflections -> Int], long' \in [Repeating -> Int],
         \A e \in Deflections \ {d} : dir_count'[e] = dir_count[e],
         \A e \in Repeating \ {d} : long'[e] = long[e],
         DirCounted(d)', d \in Repeating => LongCounted(d)'
  PROVE  JoystickInv'
<1>1. /\ held' \in [Deflections -> Int] /\ dir_told' \in [Deflections -> Int]
      /\ since' \in [Repeating -> Int]
      /\ \A e \in Deflections \ {d} : held'[e] = held[e] /\ dir_told'[e] = dir_told[e]
      /\ \A e \in Repeating \ {d} : since'[e] = since[e]
  BY StickObserved DEF JoystickInv
<1>2. Repeating \subseteq Deflections
  BY DEF Deflections
<1>3. ASSUME NEW e \in Deflections \ {d} PROVE DirCounted(e)'
  BY <1>1, <1>2, <1>3 DEF JoystickInv, DirCounts, DirCounted
<1>4. ASSUME NEW e \in Repeating \ {d} PROVE LongCounted(e)'
  BY <1>1, <1>2, <1>4 DEF JoystickInv, LongCounts, LongCounted
<1> QED
  BY <1>1, <1>3, <1>4 DEF JoystickInv, JoystickFunctions, DirCounts, LongCounts

LEMMA DebounceKeeps ==
  ASSUME JoystickInv, NEW d \in Deflections, NEW en \in BOOLEAN, Debounce(d, en)
  PROVE  JoystickInv'
<1> DEFINE fires == dir_count[d] > STICK_DEBOUNCE_COUNT
<1>1. /\ ObserveStick(d, en, fires) /\ fires \in BOOLEAN
      /\ dir_count' = [dir_count EXCEPT ![d] = IF fires THEN -1 ELSE @ + 1]
      /\ long' = long /\ dir_count[d] >= 0
      /\ JoystickFunctions /\ DirCounted(d) /\ (d \in Repeating => LongCounted(d))
  BY DEF Debounce, JoystickInv, DirCounts, LongCounts
<1>2. /\ held'[d] = AtMost(HeldCap, held[d] + 1)
      /\ dir_told'[d] = IF fires THEN AtMost(2, dir_told[d] + 1) ELSE dir_told[d]
      /\ d \in Repeating =>
           since'[d] = IF fires \/ dir_told[d] = 0 THEN 0 ELSE AtMost(RepeatCap, since[d] + 1)
  BY <1>1, StickObserved
<1>3. /\ dir_count' \in [Deflections -> Int] /\ long' \in [Repeating -> Int]
      /\ \A e \in Deflections \ {d} : dir_count'[e] = dir_count[e]
      /\ dir_count'[d] = IF fires THEN -1 ELSE dir_count[d] + 1
  BY <1>1 DEF JoystickFunctions
<1>4. DirCounted(d)'
  BY <1>1, <1>2, <1>3, JoystickAssumption DEF DirCounted, AtMost, HeldCap
<1>5. d \in Repeating => LongCounted(d)'
  BY <1>1, <1>2, <1>3, JoystickAssumption DEF DirCounted, LongCounted, AtMost, RepeatCap
<1> HIDE DEF fires
<1> QED
  BY <1>1, <1>3, <1>4, <1>5, OthersKeep

LEMMA IgnoreKeeps ==
  ASSUME JoystickInv, NEW d \in Deflections, NEW en \in BOOLEAN, Ignore(d, en)
  PROVE  JoystickInv'
<1>1. /\ ObserveStick(d, en, FALSE)
      /\ dir_count' = dir_count /\ long' = long /\ dir_count[d] < 0
      /\ JoystickFunctions /\ DirCounted(d) /\ (d \in Repeating => LongCounted(d))
  BY DEF Ignore, JoystickInv, DirCounts, LongCounts
<1>2. /\ held'[d] = AtMost(HeldCap, held[d] + 1) /\ dir_told'[d] = dir_told[d]
      /\ d \in Repeating =>
           since'[d] = IF dir_told[d] = 0 THEN 0 ELSE AtMost(RepeatCap, since[d] + 1)
  BY <1>1, StickObserved
<1>3. DirCounted(d)'
  BY <1>1, <1>2, JoystickAssumption DEF DirCounted, AtMost, HeldCap
<1>4. d \in Repeating => LongCounted(d)'
  BY <1>1, <1>2, JoystickAssumption DEF DirCounted, LongCounted, AtMost, RepeatCap
<1> QED
  BY <1>1, <1>3, <1>4, OthersKeep DEF JoystickFunctions

LEMMA HoldOnKeeps ==
  ASSUME JoystickInv, NEW d \in Deflections, NEW en \in BOOLEAN, HoldOn(d, en)
  PROVE  JoystickInv'
<1> DEFINE over == long[d] > STICK_LONG_HOLD_COUNT
<1>1. /\ ObserveStick(d, en, FALSE) /\ d \in Repeating /\ dir_count[d] = -1
      /\ dir_count' = (IF over THEN [dir_count EXCEPT ![d] = -2] ELSE dir_count)
      /\ long' = [long EXCEPT ![d] = IF over THEN 0 ELSE @ + 1]
      /\ JoystickFunctions /\ DirCounted(d) /\ LongCounted(d)
  BY DEF HoldOn, JoystickInv, DirCounts, LongCounts
<1>2. /\ held'[d] = AtMost(HeldCap, held[d] + 1) /\ dir_told'[d] = dir_told[d]
      /\ since'[d] = IF dir_told[d] = 0 THEN 0 ELSE AtMost(RepeatCap, since[d] + 1)
  BY <1>1, StickObserved
<1>3. /\ dir_count' \in [Deflections -> Int] /\ long' \in [Repeating -> Int]
      /\ \A e \in Deflections \ {d} : dir_count'[e] = dir_count[e]
      /\ \A e \in Repeating \ {d} : long'[e] = long[e]
      /\ dir_count'[d] = IF over THEN -2 ELSE -1
      /\ long'[d] = IF over THEN 0 ELSE long[d] + 1
  BY <1>1 DEF JoystickFunctions
<1>4. DirCounted(d)'
  BY <1>1, <1>2, <1>3, JoystickAssumption DEF DirCounted, AtMost, HeldCap
<1>5. LongCounted(d)'
  BY <1>1, <1>2, <1>3, JoystickAssumption DEF DirCounted, LongCounted, AtMost, RepeatCap
<1> QED
  BY <1>1, <1>3, <1>4, <1>5, OthersKeep

LEMMA RepeatKeeps ==
  ASSUME JoystickInv, NEW d \in Deflections, NEW en \in BOOLEAN, Repeat(d, en)
  PROVE  JoystickInv'
<1> DEFINE fires == long[d] > FAST_RATE_TICK
<1>1. /\ ObserveStick(d, en, fires)
      /\ d \in Repeating /\ dir_count[d] = -2 /\ dir_count' = dir_count
      /\ long' = [long EXCEPT ![d] = IF fires THEN 0 ELSE @ + 1]
  BY Zenon DEF Repeat
<1>2. fires \in BOOLEAN /\ JoystickFunctions /\ DirCounted(d) /\ LongCounted(d)
  BY <1>1 DEF JoystickInv, DirCounts, LongCounts
<1>3. /\ held'[d] = AtMost(HeldCap, held[d] + 1)
      /\ dir_told'[d] = IF fires THEN AtMost(2, dir_told[d] + 1) ELSE dir_told[d]
      /\ since'[d] = IF fires \/ dir_told[d] = 0 THEN 0 ELSE AtMost(RepeatCap, since[d] + 1)
  BY <1>1, <1>2, StickObserved
<1>4. /\ long' \in [Repeating -> Int]
      /\ \A e \in Repeating \ {d} : long'[e] = long[e]
      /\ long'[d] = IF fires THEN 0 ELSE long[d] + 1
  BY <1>1, <1>2 DEF JoystickFunctions
<1>5. DirCounted(d)'
  BY <1>1, <1>2, <1>3, JoystickAssumption DEF DirCounted, AtMost, HeldCap
<1>6. LongCounted(d)'
  BY <1>1, <1>2, <1>3, <1>4, JoystickAssumption DEF DirCounted, LongCounted, AtMost, RepeatCap
<1> HIDE DEF fires
<1> QED
  BY <1>1, <1>2, <1>4, <1>5, <1>6, OthersKeep DEF JoystickFunctions

LEMMA ZonesAreDeflections ==
  ASSUME NEW x \in XZones, NEW y \in YZones, Straight(x, y) # "none"
  PROVE  Straight(x, y) \in Deflections
BY DEF XZones, YZones, Straight, Deflections, Repeating

LEMMA JoystickStepHolds == JoystickInv /\ [JoystickNext]_joystickVars => JoystickInv'
<1> SUFFICES ASSUME JoystickInv, [JoystickNext]_joystickVars PROVE JoystickInv'
  OBVIOUS
<1>1. CASE UNCHANGED joystickVars
  BY <1>1 DEF joystickVars, JoystickInv, JoystickFunctions, DirCounts, LongCounts, DirCounted,
              LongCounted
<1>2. ASSUME NEW x \in XZones, NEW y \in YZones, NEW en \in BOOLEAN, ReadNeutral(x, y, en)
      PROVE  JoystickInv'
  BY <1>2, JoystickAssumption
     DEF ReadNeutral, ObserveStick, JoystickInv, JoystickFunctions, DirCounts, LongCounts,
         DirCounted, LongCounted, Deflections, Repeating, RepeatCap
<1>3. ASSUME NEW x \in XZones, NEW y \in YZones, NEW en \in BOOLEAN, ReadStraight(x, y, en)
      PROVE  JoystickInv'
  BY <1>3, ZonesAreDeflections, DebounceKeeps, IgnoreKeeps, HoldOnKeeps, RepeatKeeps
     DEF ReadStraight
<1> QED
  BY <1>1, <1>2, <1>3 DEF JoystickNext

-----------------------------------------------------------------------------
\* A deflection of the stick is reported by the call that completes the debounce time
\* and by no other, for every debounce time and however the stick and the mode move.
THEOREM StickDebounced == JoystickSpec => []DebouncedExactly
<1>1. JoystickInv => DebouncedExactly
  BY JoystickAssumption DEF JoystickInv, DirCounts, DirCounted, DebouncedExactly, HeldCap
<1> QED
  BY <1>1, JoystickInitHolds, JoystickStepHolds, PTL DEF JoystickSpec

\* A call that reports a deflection again is a repeat of up or down in a mode with
\* continuous reading, and the calls since the last report are as many as the fast rate,
\* after the first report as the long hold, asks for.
THEOREM RepeatsSpaced == JoystickSpec => RepeatsAreSpaced
<1> DEFINE Spaced(d) ==
      stick' = d /\ dir_report' # "CENTER" /\ dir_told[d] >= 1 =>
        /\ d \in Repeating /\ enable'
        /\ since[d] > FAST_RATE_TICK
        /\ dir_told[d] = 1 => since[d] > STICK_LONG_HOLD_COUNT + FAST_RATE_TICK + 2
<1>1. ASSUME JoystickInv, JoystickNext, NEW d \in Deflections
      PROVE  Spaced(d)
  <2>1. PICK x \in XZones, y \in YZones, en \in BOOLEAN :
          ReadNeutral(x, y, en) \/ ReadStraight(x, y, en)
    BY <1>1 DEF JoystickNext
  <2>2. CASE ReadNeutral(x, y, en)
    BY <2>2 DEF ReadNeutral, ObserveStick
  <2>3. CASE ReadStraight(x, y, en)
    <3> DEFINE s == Straight(x, y)
    <3>1. /\ s \in Deflections /\ JoystickFunctions /\ DirCounted(s)
          /\ s \in Repeating => LongCounted(s)
      BY <1>1, <2>3, ZonesAreDeflections DEF ReadStraight, JoystickInv, DirCounts, LongCounts
    <3>2. Debounce(s, en) \/ Ignore(s, en) \/ HoldOn(s, en) \/ Repeat(s, en)
      BY <2>3 DEF ReadStraight
    <3> HIDE DEF s
    <3>3. CASE Debounce(s, en)
      <4> DEFINE fires == dir_count[s] > STICK_DEBOUNCE_COUNT
      <4>1. ObserveStick(s, en, fires) /\ fires \in BOOLEAN /\ dir_told[s] = 0
        BY <3>1, <3>3, JoystickAssumption DEF Debounce, DirCounted
      <4> HIDE DEF fires
      <4>2. stick' = s
        BY <3>1, <4>1, StickObserved
      <4> QED
        BY <4>1, <4>2
    <3>4. CASE Ignore(s, en) \/ HoldOn(s, en)
      <4>1. dir_report' = "CENTER"
        BY <3>1, <3>4, StickObserved DEF Ignore, HoldOn
      <4> QED
        BY <4>1
    <3>5. CASE Repeat(s, en)
      <4> DEFINE fires == long[s] > FAST_RATE_TICK
      <4>1. ObserveStick(s, en, fires) /\ s \in Repeating /\ en /\ dir_count[s] = -2
        BY <3>5, Zenon DEF Repeat
      <4>2. fires \in BOOLEAN /\ (fires => long[s] > FAST_RATE_TICK)
        OBVIOUS
      <4> HIDE DEF fires
      <4>3. stick' = s /\ enable' = en /\ dir_report' = (IF fires THEN Flipped(s) ELSE "CENTER")
        BY <3>1, <4>1, <4>2, StickObserved
      <4>4. CASE fires
        BY <3>1, <4>1, <4>2, <4>3, <4>4, JoystickAssumption DEF DirCounted, LongCounted
      <4> QED
        BY <4>3, <4>4
    <3> QED
      BY <3>2, <3>3, <3>4, <3>5
  <2> QED
    BY <2>1, <2>2, <2>3
<1>2. JoystickInv /\ [JoystickNext]_joystickVars
        => [\A d \in Deflections : Spaced(d)]_joystickVars
  BY <1>1
<1> QED
  BY <1>2, JoystickInitHolds, JoystickStepHolds, PTL DEF JoystickSpec, RepeatsAreSpaced

=============================================================================
