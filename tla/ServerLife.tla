------------------------------ MODULE ServerLife ------------------------------
(***************************************************************************)
(* Start, stop and restart of the server, with its threads: the command    *)
(* line, which calls stopServer; the command loop of ServerAppThread;      *)
(* the heartbeat; the UDP listener.  They share the socket, the running    *)
(* flags, the command queue and the fields of the visual threads.  What    *)
(* the handlers do to the lights is in ServerApp; here a handler may start *)
(* or stop a visual thread and may send a heartbeat.  stopServer looks at  *)
(* four of the five kinds of visual thread, not at the chase.              *)
(***************************************************************************)
EXTENDS Integers

CONSTANTS
  LoopBack,   \* the host delivers the server's broadcasts to its own socket
  Patient,    \* the user waits for the threads to run before typing s or q
  Room        \* bound of the model on waiting packets and commands

ASSUME ServerLifeAssumption == {LoopBack, Patient} \subseteq BOOLEAN /\ Room \in Nat \ {0}

VARIABLES
  process,        \* "up", "exit" after System.exit(-1), "goodbye" after a quit
  cli, wants,     \* where the command line is; the command it carries out
  app, heartbeat, udpListen,   \* where the threads are
  serverRunning, hbRunning, udpRunning,   \* the flags running of the three threads
  hbData,         \* the heartbeat has allocated its packet
  interrupted,    \* the interrupt flag of the listener
  socket,         \* "none", "open" or "closed"
  inbox, queue,   \* packets waiting in the socket, commands waiting for the loop
  visual          \* the visual thread that runs: "none", "chase", "visual" for one of the
                  \* kinds that stopServer ends, "late" if it began during a stop

threads == <<app, heartbeat, udpListen>>
flags == <<serverRunning, hbRunning, udpRunning, hbData, interrupted>>
lifeVars == <<process, cli, wants, threads, flags, socket, inbox, queue, visual>>

\* The kinds whose field stopServer tests: highlight, preset, rainbow, dmxVisual
Stoppable == {"visual", "late"}

UpTo(n) == IF n > Room THEN Room ELSE n

\* Thread.isAlive
Alive(t) == t \notin {"null", "new", "dead"}

Exit == process' = "exit"

\* The sender of a poll finds the socket open or ends the process.
Broadcast ==
  IF socket = "open"
  THEN inbox' = (IF LoopBack THEN UpTo(inbox + 1) ELSE inbox) /\ UNCHANGED process
  ELSE Exit /\ UNCHANGED inbox

-----------------------------------------------------------------------------
(* ServerAppThread *)

\* run() up to the loop: the socket, the heartbeat, the listener, and only when the
\* scenes are loaded the flag that isServerRunning() shows
StartUp ==
  /\ process = "up"
  /\ \/ /\ app = "started" /\ app' = "bound" /\ socket' = "open"
        /\ UNCHANGED <<heartbeat, udpListen, serverRunning>>
     \/ /\ app = "bound" /\ app' = "newHeartbeat" /\ heartbeat' = "new"
        /\ UNCHANGED <<socket, udpListen, serverRunning>>
     \/ /\ app = "newHeartbeat" /\ app' = "heartbeat" /\ heartbeat' = "started"
        /\ UNCHANGED <<socket, udpListen, serverRunning>>
     \/ /\ app = "heartbeat" /\ app' = "newListener" /\ udpListen' = "new"
        /\ UNCHANGED <<socket, heartbeat, serverRunning>>
     \/ /\ app = "newListener" /\ app' = "scenes" /\ udpListen' = "started"
        /\ UNCHANGED <<socket, heartbeat, serverRunning>>
     \/ /\ app = "scenes" /\ app' = "loop" /\ serverRunning' = TRUE
        /\ UNCHANGED <<socket, heartbeat, udpListen>>
  /\ UNCHANGED <<process, cli, wants, hbRunning, udpRunning, hbData, interrupted, inbox,
                 queue, visual>>

\* The head of the loop: the test of the flag, then poll() of the queue, which goes back
\* to the test when a second has passed without a command
Take ==
  /\ process = "up" /\ app = "loop"
  /\ IF ~serverRunning THEN app' = "dead" /\ UNCHANGED queue
     ELSE queue > 0 /\ app' = "handle" /\ queue' = queue - 1
  /\ UNCHANGED <<process, cli, wants, heartbeat, udpListen, flags, socket, inbox, visual>>

\* A handler starts a visual thread, is about to stop it, or leaves it; then it may
\* want a heartbeat.
Handle ==
  /\ process = "up" /\ app = "handle"
  /\ \/ app' \in {"loop", "beat"} /\ UNCHANGED visual
     \/ /\ visual = "none" /\ app' \in {"loop", "beat"}
        /\ visual' \in {"chase", IF cli \in {"ready", "closed"} THEN "visual" ELSE "late"}
     \/ visual # "none" /\ app' = "redrum" /\ UNCHANGED visual
  /\ UNCHANGED <<process, cli, wants, heartbeat, udpListen, flags, socket, inbox, queue>>

\* redrumHighlight and the like, up to the null of the field.  A field that is null by
\* now ends the thread.
HandlerRedrum ==
  /\ process = "up" /\ app = "redrum"
  /\ app' = IF visual # "none" THEN "beat" ELSE "dead"
  /\ visual' = "none"
  /\ UNCHANGED <<process, cli, wants, heartbeat, udpListen, flags, socket, inbox, queue>>

\* sendHeartbeat of the loop: the test of running, and then the use of the packet
Beat ==
  /\ process = "up" /\ app = "beat"
  /\ app' = IF hbRunning THEN "send" ELSE "loop"
  /\ UNCHANGED <<process, cli, wants, heartbeat, udpListen, flags, socket, inbox, queue,
                 visual>>

Send ==
  /\ process = "up" /\ app = "send"
  /\ IF hbData THEN Broadcast /\ app' = "loop"
     ELSE app' = "dead" /\ UNCHANGED <<process, inbox>>
  /\ UNCHANGED <<cli, wants, heartbeat, udpListen, flags, socket, queue, visual>>

AppStep == StartUp \/ Take \/ Handle \/ HandlerRedrum \/ Beat \/ Send

-----------------------------------------------------------------------------
(* HeartBeatThread and UDPServerThread *)

\* run sets the flag first and allocates the packet after it.
HeartbeatStep ==
  /\ process = "up"
  /\ \/ /\ heartbeat = "started" /\ heartbeat' = "alloc" /\ hbRunning' = TRUE
        /\ UNCHANGED <<hbData, process, inbox>>
     \/ /\ heartbeat = "alloc" /\ heartbeat' = "loop" /\ hbData' = TRUE
        /\ UNCHANGED <<hbRunning, process, inbox>>
     \/ /\ heartbeat = "loop" /\ hbRunning
        /\ Broadcast
        /\ UNCHANGED <<heartbeat, hbRunning, hbData>>
     \/ /\ heartbeat = "loop" /\ ~hbRunning /\ heartbeat' = "dead"
        /\ UNCHANGED <<hbRunning, hbData, process, inbox>>
  /\ UNCHANGED <<cli, wants, app, udpListen, serverRunning, udpRunning, interrupted, socket,
                 queue, visual>>

ListenerLoop ==
  /\ process = "up"
  /\ \/ udpListen = "started" /\ udpListen' = "loop" /\ udpRunning' = TRUE
     \/ /\ udpListen = "loop" /\ udpListen' = IF udpRunning THEN "receive" ELSE "dead"
        /\ UNCHANGED udpRunning
  /\ UNCHANGED <<process, cli, wants, app, heartbeat, serverRunning, hbRunning, hbData,
                 interrupted, socket, inbox, queue, visual>>

\* receive() answers to packets and to the closing of the socket, not to interrupts.
Receive ==
  /\ process = "up" /\ udpListen = "receive"
  /\ IF socket # "open" THEN Exit /\ UNCHANGED <<udpListen, inbox>>
     ELSE /\ inbox > 0 /\ inbox' = inbox - 1
          /\ udpListen' = IF interrupted THEN "loop" ELSE "put"
          /\ UNCHANGED process
  /\ UNCHANGED <<cli, wants, app, heartbeat, flags, socket, queue, visual>>

\* put() of the queue does answer to an interrupt, and that ends the process.
Put ==
  /\ process = "up" /\ udpListen = "put"
  /\ IF interrupted THEN Exit /\ UNCHANGED <<udpListen, queue>>
     ELSE udpListen' = "loop" /\ queue' = UpTo(queue + 1) /\ UNCHANGED process
  /\ UNCHANGED <<cli, wants, app, heartbeat, flags, socket, inbox, visual>>

ListenerStep == ListenerLoop \/ Receive \/ Put

\* A packet of the controller
Arrive ==
  /\ process = "up" /\ socket = "open"
  /\ inbox' = UpTo(inbox + 1)
  /\ UNCHANGED <<process, cli, wants, threads, flags, socket, queue, visual>>

-----------------------------------------------------------------------------
(* UserCLI and stopServer *)

\* The threads of the server have set their flags.
Running == serverRunning /\ hbData /\ udpRunning

Settled == Running \/ app = "dead"

\* "q" at any time, "s" while isServerRunning()
Command(c) ==
  /\ process = "up" /\ cli = "ready" /\ (Patient => Settled)
  /\ c = "s" => serverRunning
  /\ wants' = c /\ cli' = "visual"
  /\ UNCHANGED <<process, threads, flags, socket, inbox, queue, visual>>

\* "s" while ~isServerRunning(): a new ServerAppThread.  If there is one already, which is
\* still starting, the socket of one of the two fails, and that ends the process.  The
\* fields of the new object are null: a visual thread that the stop has left runs on,
\* unknown to it.
Start ==
  /\ process = "up" /\ cli = "ready" /\ ~serverRunning /\ (Patient => Settled)
  /\ IF Alive(app) \/ socket = "open"
     THEN Exit /\ UNCHANGED <<wants, threads, flags, socket, inbox, queue, visual>>
     ELSE /\ app' = "started" /\ heartbeat' = "null" /\ udpListen' = "null"
          /\ hbRunning' = FALSE /\ udpRunning' = FALSE /\ hbData' = FALSE /\ interrupted' = FALSE
          /\ inbox' = 0 /\ queue' = 0 /\ visual' = "none" /\ socket' = "none" /\ wants' = "none"
          /\ UNCHANGED <<process, serverRunning>>
  /\ UNCHANGED cli

\* "c": the command line ends and the server runs on.
CloseCLI ==
  /\ process = "up" /\ cli = "ready" /\ cli' = "closed"
  /\ UNCHANGED <<process, wants, threads, flags, socket, inbox, queue, visual>>

\* if(highlight != null) redrumHighlight(), and so on for the preset, the rainbow and the
\* DMX visual: the test, then the use
TestVisual ==
  /\ process = "up" /\ cli = "visual"
  /\ cli' = IF visual \in Stoppable THEN "redrum" ELSE "listener"
  /\ UNCHANGED <<process, wants, threads, flags, socket, inbox, queue, visual>>

\* A field that a handler has set to null since the test ends the command line.
RedrumVisual ==
  /\ process = "up" /\ cli = "redrum"
  /\ cli' = IF visual \in Stoppable THEN "listener" ELSE "dead"
  /\ visual' = IF visual \in Stoppable THEN "none" ELSE visual
  /\ UNCHANGED <<process, wants, threads, flags, socket, inbox, queue>>

\* Mutated form of StopListener: the heartbeat is stopped first.
StopListenerSecond ==
  /\ process = "up" /\ cli = "listener"
  /\ IF heartbeat = "null" THEN cli' = "heartbeat" /\ UNCHANGED <<hbRunning, udpRunning, interrupted>>
     ELSE /\ hbRunning' = FALSE /\ udpRunning' = FALSE /\ cli' = "joinListener"
          /\ interrupted' = Alive(udpListen)
  /\ UNCHANGED <<process, wants, threads, serverRunning, hbData, socket, inbox, queue, visual>>

\* redrum, interrupt and join of a listener that exists; of one that is not alive the
\* interrupt has no effect and the join returns at once.
StopListener ==
  /\ process = "up" /\ cli = "listener"
  /\ IF udpListen = "null" THEN cli' = "heartbeat" /\ UNCHANGED <<udpRunning, interrupted>>
     ELSE udpRunning' = FALSE /\ interrupted' = Alive(udpListen) /\ cli' = "joinListener"
  /\ UNCHANGED <<process, wants, threads, serverRunning, hbRunning, hbData, socket, inbox,
                 queue, visual>>

\* Mutated form of JoinListener: the stop does not wait for the thread.
JoinListenerNot ==
  /\ process = "up" /\ cli = "joinListener" /\ cli' = "heartbeat"
  /\ UNCHANGED <<process, wants, threads, flags, socket, inbox, queue, visual>>

JoinListener ==
  /\ process = "up" /\ cli = "joinListener" /\ ~Alive(udpListen) /\ cli' = "heartbeat"
  /\ UNCHANGED <<process, wants, threads, flags, socket, inbox, queue, visual>>

StopHeartbeat ==
  /\ process = "up" /\ cli = "heartbeat"
  /\ IF heartbeat = "null" THEN cli' = "close" /\ UNCHANGED hbRunning
     ELSE hbRunning' = FALSE /\ cli' = "joinHeartbeat"
  /\ UNCHANGED <<process, wants, threads, serverRunning, udpRunning, hbData, interrupted,
                 socket, inbox, queue, visual>>

JoinHeartbeat ==
  /\ process = "up" /\ cli = "joinHeartbeat" /\ ~Alive(heartbeat) /\ cli' = "close"
  /\ UNCHANGED <<process, wants, threads, flags, socket, inbox, queue, visual>>

Close ==
  /\ process = "up" /\ cli = "close" /\ cli' = "flag"
  /\ socket' = IF socket = "open" THEN "closed" ELSE socket
  /\ UNCHANGED <<process, wants, threads, flags, inbox, queue, visual>>

ClearFlag ==
  /\ process = "up" /\ cli = "flag" /\ cli' = "joinApp"
  /\ serverRunning' = FALSE
  /\ UNCHANGED <<process, wants, threads, hbRunning, udpRunning, hbData, interrupted, socket,
                 inbox, queue, visual>>

\* app.join(), and for "q" the end of the process
JoinApp ==
  /\ process = "up" /\ cli = "joinApp" /\ ~Alive(app) /\ cli' = "ready"
  /\ process' = IF wants = "q" THEN "goodbye" ELSE process
  /\ UNCHANGED <<wants, threads, flags, socket, inbox, queue, visual>>

StopStep ==
  \/ TestVisual \/ RedrumVisual \/ StopListener \/ JoinListener
  \/ StopHeartbeat \/ JoinHeartbeat \/ Close \/ ClearFlag \/ JoinApp

-----------------------------------------------------------------------------
Init ==
  /\ process = "up" /\ cli = "ready" /\ wants = "none"
  /\ app = "started" /\ heartbeat = "null" /\ udpListen = "null"
  /\ serverRunning = FALSE /\ hbRunning = FALSE /\ udpRunning = FALSE /\ hbData = FALSE
  /\ interrupted = FALSE
  /\ socket = "none" /\ inbox = 0 /\ queue = 0 /\ visual = "none"

Next ==
  \/ AppStep \/ HeartbeatStep \/ ListenerStep \/ StopStep
  \/ Arrive \/ Start \/ CloseCLI \/ \E c \in {"s", "q"} : Command(c)

\* Every thread that can go on does.
Spec ==
  /\ Init /\ [][Next]_lifeVars
  /\ WF_lifeVars(AppStep) /\ WF_lifeVars(HeartbeatStep)
  /\ WF_lifeVars(ListenerStep) /\ WF_lifeVars(StopStep)

-----------------------------------------------------------------------------
(* Properties *)

\* When the command line says that the server is stopped, the command loop, the heartbeat
\* and the listener have ended and the port is free, so the next server can have it.  The
\* visual that ran when the stop began has ended too, unless it was a chase; a handler
\* may have started another one during the stop.
StoppedIsOver ==
  cli = "ready" /\ wants # "none" =>
    /\ socket # "open"
    /\ \A t \in {app, heartbeat, udpListen} : ~Alive(t)
    /\ visual # "visual"

\* "Server Stopped": no thread of the server goes on writing to the lights.  But
\* stopServer forgets the chase, and it does not see a visual that a handler starts
\* after its test.
StopEndsVisuals == cli = "ready" /\ wants = "s" => visual = "none"

\* A stop comes to an end (unless a race ends the process or the command line).  The
\* listener leaves receive() only with a packet, and it gets one because
\* the heartbeat, stopped after it, still broadcasts to the server's own port.
StopReturns ==
  cli = "visual" ~> (cli \in {"ready", "dead"} \/ process # "up")

\* "s: stop server" stops the server and not the process.  But the listener that is
\* interrupted after it looked for an interrupt, and a handler that sends its heartbeat
\* when the socket is closed, call System.exit(-1).
StopSpares == wants = "s" => process # "exit"

=============================================================================
