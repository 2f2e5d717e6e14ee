--------------------------- MODULE ControllerProofs ---------------------------
(***************************************************************************)
(* The two tasks that share the UDP block leave it without a remote end,   *)
(* for any modes of the server and any length of the feedback.             *)
(***************************************************************************)
EXTENDS Controller, TLAPS

Writes == Seq(Pins \X BOOLEAN)

\* The variables that the two tasks share, and what is theirs alone
SharedTyped ==
  /\ led \in [Pins -> BOOLEAN]
  /\ MODE \in AllModes /\ serverMode \in AllModes

MainPlaces == {"top", "connected", "animate", "clear", "switch", "enable", "light", "fade",
               "dark", "party", "send", "disconnect"}

MainTyped ==
  /\ main \in [at : MainPlaces,
               event : {"none", "direction", "button"}, writes : Writes,
               packets : 0 .. 2, pin : Pins]
  /\ main.at = "disconnect" => main.packets > 0

CountersTyped ==
  /\ user_feedback_tick \in 0 .. USER_FEEDBACK_RATE + 1
  /\ party_sub_mode \in 0 .. 4

NetTyped ==
  net \in [at : {"idle", "mode", "feedback", "leds", "disconnect"}, mode : AllModes,
           writes : Writes]

ControllerTypeOK == SharedTyped /\ MainTyped /\ CountersTyped /\ NetTyped

ControllerInv == ControllerTypeOK /\ BlockReleased

-----------------------------------------------------------------------------
LEMMA LevelsType ==
  ASSUME NEW r \in BOOLEAN, NEW g \in BOOLEAN, NEW b \in BOOLEAN
  PROVE  Levels(r, g, b) \in Writes
BY DEF Levels, Writes, Pins

LEMMA OnOffType == <<>> \in Writes /\ On \in Writes /\ Off \in Writes
<1>1. <<>> \in Writes
  BY DEF Writes
<1> QED
  BY <1>1, LevelsType DEF On, Off

LEMMA LedsType == \A m \in AllModes : set_leds(m) \in Writes
BY LevelsType DEF set_leds, AllModes, On, Off

LEMMA PartyType == PartyColor \in Writes
<1>1. <<>> \in Writes
  BY DEF Writes
<1> QED
  BY <1>1, LevelsType DEF PartyColor, Off

\* gpio_set_level keeps the type of the pins, and the rest of the writes is still due.
LEMMA WriteType ==
  ASSUME led \in [Pins -> BOOLEAN], NEW w \in Writes, w # <<>>, Write(w)
  PROVE  led' \in [Pins -> BOOLEAN] /\ Tail(w) \in Writes
<1>1. Head(w) \in Pins \X BOOLEAN /\ Tail(w) \in Writes
  BY DEF Writes
<1> QED
  BY <1>1 DEF Write

LEMMA ControllerInit == Init => ControllerInv
<1>1. <<>> \in Writes
  BY DEF Writes
<1> QED
  BY <1>1, ControllerAssumption
     DEF Init, MainPlaces, ControllerInv, ControllerTypeOK, SharedTyped, MainTyped, CountersTyped, NetTyped,
         BlockReleased, Pins, AllModes


\* A step of the main loop that leaves the block, the pins and the network alone
LEMMA MainMoves ==
  ASSUME ControllerInv, MainTyped', main.at # "disconnect",
         main'.at # "disconnect", UNCHANGED <<MODE, led, remote, net, serverMode>>, CountersTyped'
  PROVE  ControllerInv'
BY DEF ControllerInv, ControllerTypeOK, SharedTyped, NetTyped, BlockReleased

LEMMA MainPassesOn ==
  ASSUME ControllerInv,
         ReadEvents \/ CheckConnected \/ ClearTick \/ EnableFeedback \/ EndFeedback
           \/ LeaveParty \/ EndOfPass
  PROVE  ControllerInv'
<1> USE DEF ControllerInv, ControllerTypeOK, MainTyped, MainPlaces, CountersTyped, Goto, shared,
            counters
<1>1. CASE ReadEvents
  BY <1>1, MainMoves DEF ReadEvents
<1>2. CASE CheckConnected
  BY <1>2, OnOffType, MainMoves DEF CheckConnected
<1>3. CASE ClearTick
  BY <1>3, ControllerAssumption, MainMoves DEF ClearTick
<1>4. CASE EnableFeedback
  BY <1>4, ControllerAssumption, MainMoves DEF EnableFeedback
<1>5. CASE EndFeedback
  BY <1>5, MainMoves DEF EndFeedback
<1>6. CASE LeaveParty
  BY <1>6, MainMoves DEF LeaveParty
<1>7. CASE EndOfPass
  BY <1>7, MainMoves DEF EndOfPass
<1> QED
  BY <1>1, <1>2, <1>3, <1>4, <1>5, <1>6, <1>7

\* switch(MODE): how many packets are due, and what is drawn before they are sent
LEMMA MainSwitches ==
  ASSUME ControllerInv, SwitchMode \/ SwitchFeedback \/ SwitchParty
  PROVE  ControllerInv'
<1> USE DEF ControllerInv, ControllerTypeOK
<1>1. CASE SwitchMode
  <2>1. PICK due \in {0, 1}, action \in {0, 1} :
          main' = [main EXCEPT !.at = "send", !.packets = due + action]
    BY <1>1 DEF SwitchMode
  <2>2. due + action \in 0 .. 2
    OBVIOUS
  <2>3. MainTyped' /\ main'.at = "send"
    BY <2>1, <2>2 DEF MainTyped, MainPlaces
  <2> QED
    BY <1>1, <2>3, MainMoves DEF SwitchMode, CountersTyped, shared, counters
<1>2. CASE SwitchFeedback
  <2>1. PICK place \in {"enable", "fade"}, pin \in Pins, packets \in {0, 1} :
          main' = [main EXCEPT !.at = place, !.pin = pin, !.packets = packets]
    BY <1>2 DEF SwitchFeedback, Pins
  <2> packets \in 0 .. 2 /\ place \in MainPlaces /\ place # "disconnect"
    BY DEF MainPlaces
  <2>2. MainTyped' /\ main'.at = place
    BY <2>1 DEF MainTyped
  <2> QED
    BY <1>2, <2>2, MainMoves DEF SwitchFeedback, CountersTyped, shared, counters
<1>3. CASE SwitchParty
  <2>1. PartyNext \in 0 .. 4
    BY DEF PartyNext, CountersTyped
  <2>2. PICK due \in {0, 1}, colors \in BOOLEAN :
          /\ main' = [main EXCEPT !.at = "party",
                                  !.writes = IF colors THEN PartyColor ELSE <<>>,
                                  !.packets = due + IF main.event = "none" THEN 0 ELSE 1]
          /\ party_sub_mode' = IF colors THEN PartyNext ELSE party_sub_mode
    BY <1>3 DEF SwitchParty
  <2>3. /\ (IF colors THEN PartyColor ELSE <<>>) \in Writes
        /\ due + (IF main.event = "none" THEN 0 ELSE 1) \in 0 .. 2
    BY PartyType, OnOffType
  <2>4. MainTyped' /\ main'.at = "party"
    BY <2>2, <2>3 DEF MainTyped, MainPlaces
  <2>5. CountersTyped'
    BY <1>3, <2>1, <2>2 DEF SwitchParty, CountersTyped
  <2> QED
    BY <1>3, <2>4, <2>5, MainMoves DEF SwitchParty, shared
<1> QED
  BY <1>1, <1>2, <1>3

\* One call of gpio_set_level of the main loop
LEMMA MainPins ==
  ASSUME ControllerInv, DrawPin \/ LightPin \/ DarkenPin
  PROVE  ControllerInv'
<1> USE DEF ControllerInv, ControllerTypeOK, SharedTyped, MainTyped, MainPlaces, CountersTyped,
            NetTyped, BlockReleased, Goto, counters
<1>1. CASE DrawPin
  BY <1>1, WriteType DEF DrawPin
<1>2. \A on \in BOOLEAN : << <<main.pin, on>> >> \in Writes /\ << <<main.pin, on>> >> # <<>>
  BY DEF Writes
<1>3. CASE LightPin
  BY <1>2, <1>3, WriteType DEF LightPin
<1>4. CASE DarkenPin
  BY <1>2, <1>4, WriteType DEF DarkenPin
<1> QED
  BY <1>1, <1>3, <1>4

\* send_data_packet: the block is connected only on the way to udp_disconnect.
LEMMA MainPackets ==
  ASSUME ControllerInv, SendPacket \/ FinishPacket
  PROVE  ControllerInv'
<1> USE DEF ControllerInv, ControllerTypeOK, SharedTyped, MainTyped, MainPlaces, CountersTyped,
            NetTyped, BlockReleased, Goto, counters
<1>1. CASE SendPacket /\ DEST_IP
  BY <1>1 DEF SendPacket
<1>2. CASE SendPacket /\ ~DEST_IP
  BY <1>2 DEF SendPacket
<1>3. CASE FinishPacket
  <2> DEFINE left == main.packets - 1
  <2>1. left \in 0 .. 2
    BY <1>3 DEF FinishPacket
  <2>2. main' = [main EXCEPT !.at = "send", !.packets = left]
    BY <1>3 DEF FinishPacket
  <2> HIDE DEF left
  <2>3. MainTyped'
    BY <2>1, <2>2
  <2> QED
    BY <1>3, <2>3 DEF FinishPacket
<1> QED
  BY <1>1, <1>2, <1>3

LEMMA NetKeeps ==
  ASSUME ControllerInv, ReceivePoll \/ NetStep
  PROVE  ControllerInv'
<1> USE DEF ControllerInv, ControllerTypeOK, SharedTyped, MainTyped, CountersTyped, NetTyped,
            BlockReleased, counters
<1>1. CASE ReceivePoll
  BY <1>1 DEF ReceivePoll
<1>2. CASE SetMode
  BY <1>2 DEF SetMode
<1>3. CASE ClearFeedback
  BY <1>3, LedsType DEF ClearFeedback
<1>4. CASE SetPin
  BY <1>4, WriteType DEF SetPin
<1>5. CASE SendReply
  BY <1>5 DEF SendReply
<1>6. CASE FinishReply
  BY <1>6 DEF FinishReply
<1> QED
  BY <1>1, <1>2, <1>3, <1>4, <1>5, <1>6 DEF NetStep

LEMMA ControllerStep == ControllerInv /\ [Next]_controllerVars => ControllerInv'
<1> SUFFICES ASSUME ControllerInv, [Next]_controllerVars PROVE ControllerInv'
  OBVIOUS
<1>1. CASE timer_group0_isr \/ ServerMoves \/ LeaveAlone \/ UNCHANGED controllerVars
  BY <1>1, ControllerAssumption
     DEF ControllerInv, ControllerTypeOK, SharedTyped, MainTyped, CountersTyped, NetTyped,
         BlockReleased, shared, counters, controllerVars, timer_group0_isr, ServerMoves,
         LeaveAlone
<1>2. CASE MainStep
  BY <1>2, MainPassesOn, MainSwitches, MainPins, MainPackets DEF MainStep
<1> QED
  BY <1>1, <1>2, NetKeeps DEF Next

-----------------------------------------------------------------------------
\* Whatever the main loop's packets and the poll replies do to each other, the one UDP
\* block that both connect has no remote end when neither of them is sending.
THEOREM BlockIsReleased == Spec => []BlockReleased
<1>1. ControllerInv => BlockReleased
  BY DEF ControllerInv
<1> QED
  BY <1>1, ControllerInit, ControllerStep, PTL DEF Spec

\* Every action keeps the types; in particular a pass of the loop owes at most two
\* packets, and party_sub_mode stays one of its five values.
THEOREM ControllerTyped == Spec => []ControllerTypeOK
<1>1. ControllerInv => ControllerTypeOK
  BY DEF ControllerInv
<1> QED
  BY <1>1, ControllerInit, ControllerStep, PTL DEF Spec

=============================================================================
