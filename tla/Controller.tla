------------------------------ MODULE Controller ------------------------------
(***************************************************************************)
(* The controller's three actors on their shared memory: app_main's loop,  *)
(* the network task that runs udp_recieve, and the timer interrupt.  A     *)
(* step is one access to what they share: DEBOUNCE_TICK, MODE, DEST_IP,    *)
(* user_feedback_enable, one LED pin, or the connection of the UDP block.  *)
(***************************************************************************)
EXTENDS Integers, Sequences

CONSTANTS
  Modes,               \* the modes the server goes through in this instance
  USER_FEEDBACK_RATE

AllModes == {"CHASE", "IDLE", "LIGHT_SELECTION", "CONTROL_SELECTION", "COLOR_WHEEL",
             "DMX", "PRESET", "PARTY", "SCARY"}

ASSUME ControllerAssumption == Modes \subseteq AllModes /\ USER_FEEDBACK_RATE \in Nat

VARIABLES
  DEBOUNCE_TICK, MODE, DEST_IP, user_feedback_enable,
  led,                 \* the level of every LED pin
  remote,              \* udp_connect has given the UDP block its remote end
  user_feedback_tick, party_sub_mode,   \* of the main loop only
  main,                \* where app_main is: [at, event, writes, packets, pin]
  net,                 \* where the network task is: [at, mode, writes]
  serverMode, playing  \* the mode in the server's polls; a user is at the controller

shared == <<DEBOUNCE_TICK, MODE, DEST_IP, user_feedback_enable, led, remote>>
counters == <<user_feedback_tick, party_sub_mode>>
controllerVars == <<shared, counters, main, net, serverMode, playing>>

Pins == {"RED", "GREEN", "BLUE"}

\* Three calls of gpio_set_level, in the order of the code
Levels(r, g, b) == << <<"RED", r>>, <<"GREEN", g>>, <<"BLUE", b>> >>
On == Levels(TRUE, TRUE, TRUE)
Off == Levels(FALSE, FALSE, FALSE)

set_leds(m) ==
  CASE m = "CHASE" -> Levels(FALSE, FALSE, TRUE)
    [] m = "IDLE" -> Levels(FALSE, TRUE, FALSE)
    [] m = "LIGHT_SELECTION" -> Levels(FALSE, TRUE, TRUE)
    [] m = "CONTROL_SELECTION" -> Levels(TRUE, FALSE, FALSE)
    [] m = "COLOR_WHEEL" -> Levels(TRUE, FALSE, TRUE)
    [] m = "DMX" -> Levels(TRUE, TRUE, FALSE)
    [] m = "PRESET" -> On
    [] m \in {"PARTY", "SCARY"} -> Off

\* gpio_set_level, for the first write that is due
Write(writes) == led' = [led EXCEPT ![Head(writes)[1]] = Head(writes)[2]]

-----------------------------------------------------------------------------
(* The timer *)

timer_group0_isr ==
  /\ DEBOUNCE_TICK' = TRUE
  /\ UNCHANGED <<MODE, DEST_IP, user_feedback_enable, led, remote, counters, main, net,
                 serverMode, playing>>

-----------------------------------------------------------------------------
(* app_main *)

Goto(place) == main' = [main EXCEPT !.at = place]

\* A tick lets the loop read the stick and the buttons.
ReadEvents ==
  /\ main.at = "top"
  /\ IF DEBOUNCE_TICK
     THEN \E e \in IF playing THEN {"none", "direction", "button"} ELSE {"none"} :
            main' = [main EXCEPT !.at = "connected", !.event = e]
     ELSE Goto("switch")
  /\ UNCHANGED <<shared, counters, net, serverMode, playing>>

\* pre_connect_animation switches all LEDs on, off, or leaves them (module Morse).
CheckConnected ==
  /\ main.at = "connected"
  /\ IF DEST_IP THEN Goto("clear")
     ELSE \E w \in {<<>>, On, Off} : main' = [main EXCEPT !.at = "animate", !.writes = w]
  /\ UNCHANGED <<shared, counters, net, serverMode, playing>>

\* One pin of the animation or of the party colours
DrawPin ==
  /\ main.at \in {"animate", "party"}
  /\ main.writes # <<>>
  /\ Write(main.writes)
  /\ main' = [main EXCEPT !.writes = Tail(@)]
  /\ UNCHANGED <<DEBOUNCE_TICK, MODE, DEST_IP, user_feedback_enable, remote, counters, net,
                 serverMode, playing>>

\* The tick is taken back after the inputs are read: one that came since is lost.  The
\* uint8 count wraps, which only delays what waits for it.
ClearTick ==
  /\ main.at = "clear" \/ (main.at = "animate" /\ main.writes = <<>>)
  /\ DEBOUNCE_TICK' = FALSE
  /\ user_feedback_tick' \in IF user_feedback_tick > USER_FEEDBACK_RATE
                             THEN {0, user_feedback_tick} ELSE {user_feedback_tick + 1}
  /\ Goto("switch")
  /\ UNCHANGED <<MODE, DEST_IP, user_feedback_enable, led, remote, party_sub_mode, net,
                 serverMode, playing>>

\* switch(MODE) of the modes without feedback.  Packets are due in some passes: the
\* joystick's, the gyroscope's, and the user action unless check_konami swallows it.
SwitchMode ==
  /\ main.at = "switch" /\ MODE \notin {"CHASE", "DMX", "PARTY"}
  /\ \E due \in IF MODE \in {"COLOR_WHEEL", "SCARY"} THEN {0, 1} ELSE {0},
        action \in IF main.event = "none" THEN {0} ELSE IF MODE = "IDLE" THEN {0, 1} ELSE {1} :
       main' = [main EXCEPT !.at = "send", !.packets = due + action]
  /\ UNCHANGED <<shared, counters, net, serverMode, playing>>

\* CHASE and DMX blink a pin when the stick was moved.
SwitchFeedback ==
  /\ main.at = "switch" /\ MODE \in {"CHASE", "DMX"}
  /\ main' = [main EXCEPT !.at = IF main.event = "direction" THEN "enable" ELSE "fade",
                          !.pin = IF MODE = "CHASE" THEN "RED" ELSE "BLUE",
                          !.packets = IF main.event = "none" THEN 0 ELSE 1]
  /\ UNCHANGED <<shared, counters, net, serverMode, playing>>

EnableFeedback ==
  /\ main.at = "enable"
  /\ user_feedback_enable' = TRUE
  /\ user_feedback_tick' = 0
  /\ Goto("light")
  /\ UNCHANGED <<DEBOUNCE_TICK, MODE, DEST_IP, led, remote, party_sub_mode, net, serverMode,
                 playing>>

LightPin ==
  /\ main.at = "light"
  /\ Write(<< <<main.pin, TRUE>> >>)
  /\ Goto("fade")
  /\ UNCHANGED <<DEBOUNCE_TICK, MODE, DEST_IP, user_feedback_enable, remote, counters, net,
                 serverMode, playing>>

EndFeedback ==
  /\ main.at = "fade"
  /\ IF user_feedback_enable /\ user_feedback_tick > USER_FEEDBACK_RATE
     THEN user_feedback_enable' = FALSE /\ Goto("dark")
     ELSE UNCHANGED user_feedback_enable /\ Goto("send")
  /\ UNCHANGED <<DEBOUNCE_TICK, MODE, DEST_IP, led, remote, counters, net, serverMode, playing>>

DarkenPin ==
  /\ main.at = "dark"
  /\ Write(<< <<main.pin, FALSE>> >>)
  /\ Goto("send")
  /\ UNCHANGED <<DEBOUNCE_TICK, MODE, DEST_IP, user_feedback_enable, remote, counters, net,
                 serverMode, playing>>

\* The colours of PARTY mode; the first round starts at the second.
PartyColor == CASE party_sub_mode = 1 -> Levels(TRUE, FALSE, FALSE)
                [] party_sub_mode = 2 -> Levels(FALSE, TRUE, FALSE)
                [] party_sub_mode = 3 -> Levels(FALSE, FALSE, TRUE)
                [] party_sub_mode = 4 -> Off
                [] OTHER -> <<>>

PartyNext == CASE party_sub_mode = 0 -> 2
               [] party_sub_mode = 4 -> 1
               [] OTHER -> party_sub_mode + 1

SwitchParty ==
  /\ main.at = "switch" /\ MODE = "PARTY"
  /\ \E due \in {0, 1}, colors \in BOOLEAN :
       /\ main' = [main EXCEPT !.at = "party",
                               !.writes = IF colors THEN PartyColor ELSE <<>>,
                               !.packets = due + IF main.event = "none" THEN 0 ELSE 1]
       /\ party_sub_mode' = IF colors THEN PartyNext ELSE party_sub_mode
  /\ UNCHANGED <<shared, user_feedback_tick, net, serverMode, playing>>

\* Mutated form of SendPacket: an error return that leaves the block connected.
SendPacketReturns ==
  /\ main.at = "send" /\ main.packets > 0
  /\ \/ remote' = DEST_IP /\ main' = [main EXCEPT !.packets = @ - 1]
     \/ DEST_IP /\ remote' = TRUE /\ Goto("disconnect")
  /\ UNCHANGED <<DEBOUNCE_TICK, MODE, DEST_IP, user_feedback_enable, led, counters, net,
                 serverMode, playing>>

\* send_data_packet up to udp_connect: nothing is sent before the first poll.
SendPacket ==
  /\ main.at = "send" /\ main.packets > 0
  /\ IF DEST_IP THEN remote' = TRUE /\ Goto("disconnect")
     ELSE UNCHANGED remote /\ main' = [main EXCEPT !.packets = @ - 1]
  /\ UNCHANGED <<DEBOUNCE_TICK, MODE, DEST_IP, user_feedback_enable, led, counters, net,
                 serverMode, playing>>

\* udp_send and udp_disconnect: without a remote end the packet goes nowhere.
FinishPacket ==
  /\ main.at = "disconnect"
  /\ remote' = FALSE
  /\ main' = [main EXCEPT !.at = "send", !.packets = @ - 1]
  /\ UNCHANGED <<DEBOUNCE_TICK, MODE, DEST_IP, user_feedback_enable, led, counters, net,
                 serverMode, playing>>

EndOfPass ==
  /\ \/ main.at = "send" /\ main.packets = 0
     \/ main.at = "party" /\ main.writes = <<>> /\ main.packets = 0
  /\ main' = [main EXCEPT !.at = "top", !.event = "none"]
  /\ UNCHANGED <<shared, counters, net, serverMode, playing>>

LeaveParty ==
  /\ main.at = "party" /\ main.writes = <<>> /\ main.packets > 0
  /\ Goto("send")
  /\ UNCHANGED <<shared, counters, net, serverMode, playing>>

MainStep ==
  \/ ReadEvents \/ CheckConnected \/ DrawPin \/ ClearTick
  \/ SwitchMode \/ SwitchFeedback \/ EnableFeedback \/ LightPin \/ EndFeedback \/ DarkenPin
  \/ SwitchParty \/ LeaveParty \/ SendPacket \/ FinishPacket \/ EndOfPass

-----------------------------------------------------------------------------
(* udp_recieve of a poll *)

ReceivePoll ==
  /\ net.at = "idle"
  /\ DEST_IP' = TRUE
  /\ net' = [net EXCEPT !.at = "mode", !.mode = serverMode]
  /\ UNCHANGED <<DEBOUNCE_TICK, MODE, user_feedback_enable, led, remote, counters, main,
                 serverMode, playing>>

\* set_mode: the mode, the feedback, and then the LEDs
SetMode ==
  /\ net.at = "mode"
  /\ MODE' = net.mode
  /\ net' = [net EXCEPT !.at = "feedback"]
  /\ UNCHANGED <<DEBOUNCE_TICK, DEST_IP, user_feedback_enable, led, remote, counters, main,
                 serverMode, playing>>

\* Mutated forms of ClearFeedback: the LEDs are set only if feedback was on; the
\* feedback is left on.
ClearFeedbackLazy ==
  /\ net.at = "feedback"
  /\ user_feedback_enable' = FALSE
  /\ net' = [net EXCEPT !.at = "leds",
                        !.writes = IF user_feedback_enable THEN set_leds(net.mode) ELSE <<>>]
  /\ UNCHANGED <<DEBOUNCE_TICK, MODE, DEST_IP, led, remote, counters, main, serverMode,
                 playing>>

ClearFeedbackForgets ==
  /\ net.at = "feedback"
  /\ net' = [net EXCEPT !.at = "leds", !.writes = set_leds(net.mode)]
  /\ UNCHANGED <<shared, counters, main, serverMode, playing>>

ClearFeedback ==
  /\ net.at = "feedback"
  /\ user_feedback_enable' = FALSE
  /\ net' = [net EXCEPT !.at = "leds", !.writes = set_leds(net.mode)]
  /\ UNCHANGED <<DEBOUNCE_TICK, MODE, DEST_IP, led, remote, counters, main, serverMode,
                 playing>>

SetPin ==
  /\ net.at = "leds" /\ net.writes # <<>>
  /\ Write(net.writes)
  /\ net' = [net EXCEPT !.writes = Tail(@)]
  /\ UNCHANGED <<DEBOUNCE_TICK, MODE, DEST_IP, user_feedback_enable, remote, counters, main,
                 serverMode, playing>>

\* send_poll_reply_packet
SendReply ==
  /\ net.at = "leds" /\ net.writes = <<>>
  /\ remote' = TRUE
  /\ net' = [net EXCEPT !.at = "disconnect"]
  /\ UNCHANGED <<DEBOUNCE_TICK, MODE, DEST_IP, user_feedback_enable, led, counters, main,
                 serverMode, playing>>

FinishReply ==
  /\ net.at = "disconnect"
  /\ remote' = FALSE
  /\ net' = [net EXCEPT !.at = "idle"]
  /\ UNCHANGED <<DEBOUNCE_TICK, MODE, DEST_IP, user_feedback_enable, led, counters, main,
                 serverMode, playing>>

NetStep == SetMode \/ ClearFeedback \/ SetPin \/ SendReply \/ FinishReply

-----------------------------------------------------------------------------
(* The server's mode and the user *)

ServerMoves ==
  /\ playing
  /\ serverMode' \in Modes
  /\ UNCHANGED <<shared, counters, main, net, playing>>

LeaveAlone ==
  /\ playing
  /\ playing' = FALSE
  /\ UNCHANGED <<shared, counters, main, net, serverMode>>

Init ==
  /\ DEBOUNCE_TICK = FALSE /\ MODE = "IDLE" /\ DEST_IP = FALSE
  /\ user_feedback_enable = FALSE
  /\ led = [p \in Pins |-> TRUE]
  /\ remote = FALSE
  /\ user_feedback_tick = 0 /\ party_sub_mode = 0
  /\ main = [at |-> "top", event |-> "none", writes |-> <<>>, packets |-> 0, pin |-> "RED"]
  /\ net = [at |-> "idle", mode |-> "IDLE", writes |-> <<>>]
  /\ serverMode \in Modes
  /\ playing = TRUE

Next == timer_group0_isr \/ MainStep \/ ReceivePoll \/ NetStep \/ ServerMoves \/ LeaveAlone

\* The timer, the loop and the network task run, and polls keep coming.
Spec ==
  /\ Init /\ [][Next]_controllerVars
  /\ WF_controllerVars(timer_group0_isr) /\ WF_controllerVars(MainStep)
  /\ WF_controllerVars(ReceivePoll) /\ WF_controllerVars(NetStep)

-----------------------------------------------------------------------------
(* Properties *)

\* Both tasks connect and disconnect the one UDP block.  However their packets
\* interleave, it is left without a remote end when neither is sending, so lwIP goes on
\* taking polls from any server.
BlockReleased ==
  main.at # "disconnect" /\ net.at # "disconnect" => ~remote

\* Once the user is gone and the mode stays, the LEDs come to show it and keep showing
\* it: whatever the animation, a blink or a half-written colour has left on them, the
\* next poll puts right.  (PARTY mode moves its LEDs itself.)
LedsSettle ==
  \A m \in Modes \ {"PARTY"} :
    <>[](~playing /\ serverMode = m)
      => <>[](\A i \in 1 .. 3 : led[set_leds(m)[i][1]] = set_leds(m)[i][2])

\* A blink comes to an end even if the mode changes while it is on.
FeedbackEnds == user_feedback_enable ~> ~user_feedback_enable

=============================================================================
