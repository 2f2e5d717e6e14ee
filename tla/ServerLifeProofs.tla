--------------------------- MODULE ServerLifeProofs ---------------------------
(***************************************************************************)
(* A stop of the server is complete when it returns, whatever the threads  *)
(* do meanwhile, and then the server can be started again.  Both hold for  *)
(* a user who waits for the threads to run, on any host and with any       *)
(* number of waiting packets.                                              *)
(***************************************************************************)
EXTENDS ServerLife, TLAPS

Starting == {"started", "bound", "newHeartbeat", "heartbeat", "newListener", "scenes"}
Started == {"loop", "handle", "redrum", "beat", "send", "dead"}
AfterListener == {"heartbeat", "joinHeartbeat", "close", "flag", "joinApp"}
Stopping == {"visual", "redrum", "listener", "joinListener", "dead"} \union AfterListener

\* Where the actors can be; the flags need no typing.
Places ==
  /\ process \in {"up", "exit", "goodbye"}
  /\ cli \in {"ready", "closed"} \union Stopping
  /\ wants \in {"none", "s", "q"}
  /\ app \in Starting \union Started
  /\ heartbeat \in {"null", "new", "started", "alloc", "loop", "dead"}
  /\ udpListen \in {"null", "new", "started", "loop", "receive", "put", "dead"}
  /\ socket \in {"none", "open", "closed"}
  /\ inbox \in 0 .. Room /\ queue \in 0 .. Room
  /\ visual \in {"none", "chase", "visual", "late"}

Made(t) == t \notin {"null", "new"}

\* The command loop makes the socket and the threads before it sets its flag.
StartOrder ==
  /\ app = "started" => socket = "none" /\ heartbeat = "null" /\ udpListen = "null"
  /\ app # "started" => socket # "none"
  /\ app \in {"heartbeat", "newListener", "scenes"} \union Started => Made(heartbeat)
  /\ app \in {"scenes"} \union Started => Made(udpListen)
  /\ serverRunning => app \in Started

\* A stop finds a server that has started, and ends its threads one after the other.
StopOrder ==
  /\ cli \in Stopping => app \in Started /\ wants # "none"
  /\ cli \in AfterListener => udpListen = "dead"
  /\ cli \in {"close", "flag", "joinApp"} => heartbeat = "dead"
  /\ cli \in {"flag", "joinApp"} => socket = "closed"
  /\ cli = "joinApp" => ~serverRunning

\* Only a stop takes the flag from a server that has started.
FlagOrder ==
  app \in Started /\ ~serverRunning => wants # "none"

\* Behind the tests of stopServer, a visual that runs is one the stop does not see.
VisualOrder ==
  cli \in {"listener", "joinListener"} \union AfterListener => visual # "visual"

LifeInv ==
  Places /\ StartOrder /\ StopOrder /\ FlagOrder /\ VisualOrder /\ StoppedIsOver

-----------------------------------------------------------------------------
LEMMA LifeInit == Init => LifeInv
BY ServerLifeAssumption
   DEF Init, LifeInv, Places, StartOrder, StopOrder, FlagOrder, VisualOrder,
       StoppedIsOver, Starting, Started, AfterListener, Stopping, Made, Alive

\* What the actions of the command line and of the threads have in common is expanded
\* in every step.
USE ServerLifeAssumption
    DEF Places, StartOrder, StopOrder, FlagOrder, VisualOrder, StoppedIsOver, Starting, Started,
        AfterListener, Stopping, Made, Alive, Stoppable, UpTo, Exit, Broadcast, flags, threads

LEMMA AppKeeps == LifeInv /\ AppStep => LifeInv'
<1> SUFFICES ASSUME LifeInv, AppStep PROVE LifeInv'
  OBVIOUS
<1>1. CASE StartUp
  <2>1. Places' /\ StartOrder'
    BY <1>1 DEF LifeInv, StartUp
  <2>2. cli' = cli /\ wants' = wants /\ cli \notin Stopping
    BY <1>1 DEF LifeInv, StartUp
  <2>3. StopOrder' /\ FlagOrder' /\ VisualOrder' /\ StoppedIsOver'
    BY <1>1, <2>2 DEF LifeInv, StartUp
  <2> QED
    BY <2>1, <2>3 DEF LifeInv
<1>2. CASE Take
  BY <1>2 DEF LifeInv, Take
<1>3. CASE Handle
  BY <1>3 DEF LifeInv, Handle
<1>4. CASE HandlerRedrum
  BY <1>4 DEF LifeInv, HandlerRedrum
<1>5. CASE Beat
  BY <1>5 DEF LifeInv, Beat
<1>6. CASE Send
  BY <1>6 DEF LifeInv, Send
<1> QED
  BY <1>1, <1>2, <1>3, <1>4, <1>5, <1>6 DEF AppStep

LEMMA ThreadsKeep == LifeInv /\ (HeartbeatStep \/ ListenerStep \/ Arrive) => LifeInv'
<1> SUFFICES ASSUME LifeInv, HeartbeatStep \/ ListenerStep \/ Arrive PROVE LifeInv'
  OBVIOUS
<1>1. CASE HeartbeatStep
  BY <1>1 DEF LifeInv, HeartbeatStep
<1>2. CASE ListenerLoop
  BY <1>2 DEF LifeInv, ListenerLoop
<1>3. CASE Receive
  BY <1>3 DEF LifeInv, Receive
<1>4. CASE Put
  BY <1>4 DEF LifeInv, Put
<1>5. CASE Arrive
  BY <1>5 DEF LifeInv, Arrive
<1> QED
  BY <1>1, <1>2, <1>3, <1>4, <1>5 DEF ListenerStep

LEMMA StopKeeps == LifeInv /\ StopStep => LifeInv'
<1> SUFFICES ASSUME LifeInv, StopStep PROVE LifeInv'
  OBVIOUS
<1>1. CASE TestVisual
  BY <1>1 DEF LifeInv, TestVisual
<1>2. CASE RedrumVisual
  BY <1>2 DEF LifeInv, RedrumVisual
<1>3. CASE StopListener
  BY <1>3 DEF LifeInv, StopListener
<1>4. CASE JoinListener
  BY <1>4 DEF LifeInv, JoinListener
<1>5. CASE StopHeartbeat
  BY <1>5 DEF LifeInv, StopHeartbeat
<1>6. CASE JoinHeartbeat
  BY <1>6 DEF LifeInv, JoinHeartbeat
<1>7. CASE Close
  BY <1>7 DEF LifeInv, Close
<1>8. CASE ClearFlag
  BY <1>8 DEF LifeInv, ClearFlag
<1>9. CASE JoinApp
  BY <1>9 DEF LifeInv, JoinApp
<1> QED
  BY <1>1, <1>2, <1>3, <1>4, <1>5, <1>6, <1>7, <1>8, <1>9 DEF StopStep

LEMMA CommandsKeep ==
  ASSUME Patient, LifeInv, Start \/ CloseCLI \/ \E c \in {"s", "q"} : Command(c)
  PROVE  LifeInv'
<1>1. CASE Start
  BY <1>1 DEF LifeInv, Start
<1>2. CASE CloseCLI
  BY <1>2 DEF LifeInv, CloseCLI
<1>3. ASSUME NEW c \in {"s", "q"}, Command(c) PROVE LifeInv'
  BY <1>3 DEF LifeInv, Command, Settled, Running
<1> QED
  BY <1>1, <1>2, <1>3

LEMMA LifeStep ==
  ASSUME Patient
  PROVE  LifeInv /\ [Next]_lifeVars => LifeInv'
<1> SUFFICES ASSUME LifeInv, [Next]_lifeVars PROVE LifeInv'
  OBVIOUS
<1>1. CASE UNCHANGED lifeVars
  BY <1>1 DEF LifeInv, lifeVars
<1> QED
  BY <1>1, AppKeeps, ThreadsKeep, StopKeeps, CommandsKeep DEF Next

-----------------------------------------------------------------------------
\* When stopServer has returned, the command loop, the heartbeat and the listener have
\* ended and the socket is closed: the joins of stopServer are in an order in which no
\* thread that is still to end can bring another one back.  A visual thread that is left
\* is a chase or was started by a handler during the stop.
THEOREM StopCompletes ==
  ASSUME Patient
  PROVE  Spec => []StoppedIsOver
<1>1. LifeInv => StoppedIsOver
  BY DEF LifeInv
<1> QED
  BY <1>1, LifeInit, LifeStep, PTL DEF Spec

\* An "s" that starts a server never finds the old one in its way: neither its thread
\* nor its socket is left, and the start does not end the process.
RestartIsFree == [][Start => process' = process]_lifeVars

THEOREM RestartSafe ==
  ASSUME Patient
  PROVE  Spec => RestartIsFree
<1>1. LifeInv /\ [Next]_lifeVars => [Start => process' = process]_lifeVars
  BY DEF LifeInv, Start, Settled, Running
<1> QED
  BY <1>1, LifeInit, LifeStep, PTL DEF Spec, RestartIsFree

=============================================================================
