------------------------------- MODULE ModeSync -------------------------------
(***************************************************************************)
(* The server and the controller agree on a mode over UDP broadcast.  The  *)
(* server changes mode when a user action arrives and then, and again      *)
(* every HEARTBEAT_INTERVAL, broadcasts a poll that carries its mode; the  *)
(* controller takes the mode of every poll it receives.  Packets may be    *)
(* lost, duplicated and reordered, and the controller may be switched off  *)
(* and on.  Poll replies are left out: the server only prints them.        *)
(***************************************************************************)
EXTENDS ModeMachine, Integers, SequencesExt

CONSTANTS
  ActionRoom,    \* bounds of the model on the packets in flight to the server
  PollRoom       \* and to the controller

ASSUME ModeSyncAssumption == ActionRoom \in Nat \ {0} /\ PollRoom \in Nat \ {0}

VARIABLES
  MODE,          \* the controller's mode; mode is the server's
  DEST_IP,       \* "null" until the first poll has arrived
  actions,       \* user actions in flight to the server
  polls,         \* polls in flight to the controller, by the mode they carry
  playing        \* the user is still at the controller

syncVars == <<mode, MODE, DEST_IP, actions, polls, playing>>

\* A packet that finds no room is lost.
Transmit(s, room, p) == IF Len(s) < room THEN Append(s, p) ELSE s

-----------------------------------------------------------------------------
(* The controller *)

\* The keys a user can produce in the controller's mode: the codes are recognised
\* in idle mode only.
Playable(m) == IF m = "IDLE" THEN Key ELSE Key \ {"KONAMI", "REV_KONAMI"}

\* send_data_packet: silently dropped before the server's address is known
Press(k) ==
  /\ playing
  /\ k \in Playable(MODE)
  /\ actions' = IF DEST_IP = "null" THEN actions ELSE Transmit(actions, ActionRoom, k)
  /\ UNCHANGED <<mode, MODE, DEST_IP, polls, playing>>

\* Mutated form of ReceivePoll: the mode is taken from the first poll only.
ReceivePollOnce(i) ==
  /\ i \in DOMAIN polls
  /\ DEST_IP' = "server"
  /\ MODE' = IF DEST_IP = "null" THEN polls[i] ELSE MODE
  /\ polls' = RemoveAt(polls, i)
  /\ UNCHANGED <<mode, actions, playing>>

\* udp_recieve of a poll; i is any position, so packets overtake each other
ReceivePoll(i) ==
  /\ i \in DOMAIN polls
  /\ DEST_IP' = "server"
  /\ MODE' = polls[i]
  /\ polls' = RemoveAt(polls, i)
  /\ UNCHANGED <<mode, actions, playing>>

\* The controller is switched off and on.
Restart ==
  /\ playing
  /\ MODE' = "IDLE"
  /\ DEST_IP' = "null"
  /\ polls' = <<>>
  /\ UNCHANGED <<mode, actions, playing>>

-----------------------------------------------------------------------------
(* The server *)

\* sendHeartbeat of the command loop: after each change of mode
HandleAction(i) ==
  /\ i \in DOMAIN actions
  /\ mode' \in Reaction(mode, actions[i])
  /\ actions' = RemoveAt(actions, i)
  /\ polls' = IF mode' # mode THEN Transmit(polls, PollRoom, mode') ELSE polls
  /\ UNCHANGED <<MODE, DEST_IP, playing>>

\* Mutated form of Heartbeat: no poll goes out unless the mode changes.
HeartbeatSilent ==
  UNCHANGED <<mode, MODE, DEST_IP, actions, polls, playing>>

\* The heartbeat thread's own round
Heartbeat ==
  /\ polls' = Transmit(polls, PollRoom, mode)
  /\ UNCHANGED <<mode, MODE, DEST_IP, actions, playing>>

-----------------------------------------------------------------------------
(* The network and the user *)

LosePoll(i) ==
  /\ i \in DOMAIN polls
  /\ polls' = RemoveAt(polls, i)
  /\ UNCHANGED <<mode, MODE, DEST_IP, actions, playing>>

LoseAction(i) ==
  /\ i \in DOMAIN actions
  /\ actions' = RemoveAt(actions, i)
  /\ UNCHANGED <<mode, MODE, DEST_IP, polls, playing>>

Duplicate ==
  /\ playing
  /\ \/ /\ \E i \in DOMAIN polls : polls' = Transmit(polls, PollRoom, polls[i])
        /\ UNCHANGED actions
     \/ /\ \E i \in DOMAIN actions : actions' = Transmit(actions, ActionRoom, actions[i])
        /\ UNCHANGED polls
  /\ UNCHANGED <<mode, MODE, DEST_IP, playing>>

LeaveAlone ==
  /\ playing
  /\ playing' = FALSE
  /\ UNCHANGED <<mode, MODE, DEST_IP, actions, polls>>

SyncInit ==
  /\ ModeInit
  /\ MODE = "IDLE"
  /\ DEST_IP = "null"
  /\ actions = <<>> /\ polls = <<>>
  /\ playing = TRUE

ReceiveSome == \E i \in 1 .. PollRoom : ReceivePoll(i)
ReceiveCurrent == \E i \in DOMAIN polls : polls[i] = mode /\ ReceivePoll(i)
HandleSome == \E i \in 1 .. ActionRoom : HandleAction(i)

Controller == (\E k \in Key : Press(k)) \/ ReceiveSome \/ Restart

Server == HandleSome \/ Heartbeat

Network ==
  \/ \E i \in 1 .. PollRoom : LosePoll(i)
  \/ \E i \in 1 .. ActionRoom : LoseAction(i)
  \/ Duplicate

SyncNext == Controller \/ Server \/ Network \/ LeaveAlone

\* The heartbeat thread and the command loop keep running, packets do not stay in
\* flight for ever, and of the polls that keep being sent some arrive.
Fairness ==
  /\ WF_syncVars(Heartbeat)
  /\ WF_syncVars(HandleSome)
  /\ WF_syncVars(ReceiveSome)
  /\ SF_syncVars(ReceiveCurrent)

SyncSpec == SyncInit /\ [][SyncNext]_syncVars /\ Fairness

-----------------------------------------------------------------------------
(* Properties *)

\* Once the user lets go of the controller, it settles on the server's mode for
\* good, whatever was lost, overtaken or forgotten by a power cycle before.
ModesConverge == <>~playing => <>[](MODE = mode)

\* A controller that has just been switched on learns the server's address, so
\* the keys pressed on it do not go nowhere for ever.
Reconnects == [](DEST_IP = "null" => <>(DEST_IP = "server"))

\* The server enters PARTY only from IDLE, the mode in which the controller
\* recognises the code.
PartyFromIdle == [][mode' = "PARTY" /\ mode # "PARTY" => mode = "IDLE"]_syncVars

=============================================================================
