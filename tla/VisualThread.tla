----------------------------- MODULE VisualThread -----------------------------
(***************************************************************************)
(* How the command loop starts a visual thread and stops it again: the     *)
(* running flag, which the thread sets itself at the start of run(), the   *)
(* interrupt that cuts its sleep short, and the join.  The flag is a plain *)
(* field; a write to it is assumed to be seen by the other thread's next   *)
(* read, which every round of sleep and file I/O makes sure of in practice.*)
(***************************************************************************)
EXTENDS Integers

CONSTANTS
  Units,          \* lights (or, for a chase, scenes) written in one pass
  StopAfterBegin  \* does a stop come only after run() has begun?

ASSUME VisualThreadAssumption ==
  Units \in Nat \ {0} /\ StopAfterBegin \in BOOLEAN

VARIABLES
  kind,              \* the class of the current thread object
  thread,            \* where its run() is
  left,              \* units not yet written in this pass
  running,
  interruptStatus,   \* of the thread
  loop,              \* where the command loop is
  toRestore          \* entries of the highlight's list that redrum still has to restore

vtVars == <<kind, thread, left, running, interruptStatus, loop, toRestore>>

Kinds == {"preset", "rainbow", "dmxVisual", "highlight", "chase"}

\* forEach of the rainbow does not look at the flag between two lights.
ChecksEachUnit == Kinds \ {"rainbow"}

-----------------------------------------------------------------------------
(* run() *)

Begin ==
  /\ thread = "started"
  /\ running' = TRUE
  /\ thread' = "while"
  /\ UNCHANGED <<kind, left, interruptStatus, loop, toRestore>>

\* while (running); the highlight takes its semaphore
While ==
  /\ thread = "while"
  /\ thread' = IF running THEN "unit" ELSE "dead"
  /\ left' = Units
  /\ UNCHANGED <<kind, running, interruptStatus, loop, toRestore>>

\* The next unit of the pass, or its end.  A chase sleeps after each scene and
\* goes back to its while after the last; the others sleep after the pass, even
\* when they break out of it.
Unit ==
  LET break == kind \in ChecksEachUnit /\ ~running IN
  /\ thread = "unit"
  /\ thread' = IF left = 0 \/ break
               THEN IF kind = "chase" THEN "while" ELSE "sleep"
               ELSE "write"
  /\ UNCHANGED <<kind, left, running, interruptStatus, loop, toRestore>>

Write ==
  /\ thread = "write"
  /\ left' = left - 1
  /\ thread' = IF kind = "chase" THEN "sleep" ELSE "unit"
  /\ UNCHANGED <<kind, running, interruptStatus, loop, toRestore>>

AfterSleep == IF kind = "chase" THEN "unit" ELSE "while"

FullSleep ==
  /\ thread = "sleep" /\ ~interruptStatus
  /\ thread' = AfterSleep
  /\ UNCHANGED <<kind, left, running, interruptStatus, loop, toRestore>>

\* InterruptedException clears the status
BrokenSleep ==
  /\ thread = "sleep" /\ interruptStatus
  /\ interruptStatus' = FALSE
  /\ thread' = AfterSleep
  /\ UNCHANGED <<kind, left, running, loop, toRestore>>

-----------------------------------------------------------------------------
(* The command loop: start..., redrum... *)

StartVisual(k) ==
  /\ loop = "away"
  /\ kind' = k
  /\ thread' = "started"
  /\ running' = FALSE /\ interruptStatus' = FALSE
  /\ left' = 0
  /\ toRestore' = IF k = "highlight" THEN Units ELSE 0
  /\ loop' = "shown"

\* redrum clears the flag and interrupts; a chase is interrupted first.
FirstStep(k) == IF k = "chase" THEN "interrupt" ELSE "flag"

StopVisual ==
  /\ loop = "shown"
  /\ StopAfterBegin => thread # "started"
  /\ loop' = FirstStep(kind)
  /\ UNCHANGED <<kind, thread, left, running, interruptStatus, toRestore>>

\* Mutated forms of ClearRunning: the flag is forgotten; the interrupt is.
ClearRunningForgotten ==
  /\ loop = "flag"
  /\ loop' = CASE kind = "chase" -> "join"
               [] kind = "highlight" -> "restore"
               [] OTHER -> "interrupt"
  /\ UNCHANGED <<kind, thread, left, running, interruptStatus, toRestore>>

ClearRunningOnly ==
  /\ loop = "flag"
  /\ running' = FALSE
  /\ loop' = IF kind = "highlight" THEN "restore" ELSE "join"
  /\ UNCHANGED <<kind, thread, left, interruptStatus, toRestore>>

ClearRunning ==
  /\ loop = "flag"
  /\ running' = FALSE
  /\ loop' = CASE kind = "chase" -> "join"
               [] kind = "highlight" -> "restore"
               [] OTHER -> "interrupt"
  /\ UNCHANGED <<kind, thread, left, interruptStatus, toRestore>>

\* Mutated form of HoldsSemaphore: a pass takes no semaphore.
NoSemaphore == FALSE

\* The highlight holds its semaphore for a pass; removeLight waits for it.
HoldsSemaphore == kind = "highlight" /\ thread \in {"unit", "write"}

Restore ==
  /\ loop = "restore"
  /\ ~HoldsSemaphore
  /\ toRestore' = toRestore - 1
  /\ loop' = IF toRestore = 1 THEN "interrupt" ELSE "restore"
  /\ UNCHANGED <<kind, thread, left, running, interruptStatus>>

\* interrupt() of a thread that has ended has no effect.
Interrupt ==
  /\ loop = "interrupt"
  /\ interruptStatus' = (thread # "dead")
  /\ loop' = IF kind = "chase" THEN "flag" ELSE "join"
  /\ UNCHANGED <<kind, thread, left, running, toRestore>>

Join ==
  /\ loop = "join"
  /\ thread = "dead"
  /\ loop' = "away"
  /\ UNCHANGED <<kind, thread, left, running, interruptStatus, toRestore>>

-----------------------------------------------------------------------------
VisualInit ==
  /\ kind = "preset"
  /\ thread = "dead"
  /\ left = 0
  /\ running = FALSE /\ interruptStatus = FALSE
  /\ loop = "away"
  /\ toRestore = 0

Run == Begin \/ While \/ Unit \/ Write \/ FullSleep \/ BrokenSleep
Redrum == ClearRunning \/ Restore \/ Interrupt \/ Join

VisualNext == Run \/ Redrum \/ StopVisual \/ \E k \in Kinds : StartVisual(k)

\* The JVM schedules both threads; nothing obliges the user to start or stop.
VisualSpec == VisualInit /\ [][VisualNext]_vtVars /\ WF_vtVars(Run) /\ WF_vtVars(Redrum)

-----------------------------------------------------------------------------
(* Properties *)

TypeOK ==
  /\ kind \in Kinds
  /\ thread \in {"started", "while", "unit", "write", "sleep", "dead"}
  /\ left \in 0 .. Units
  /\ running \in BOOLEAN /\ interruptStatus \in BOOLEAN
  /\ loop \in {"away", "shown", "flag", "restore", "interrupt", "join"}
  /\ toRestore \in 0 .. Units

\* A redrum that has begun ends: the join returns and the command loop goes on to
\* the next packet.
RedrumReturns == loop = "flag" ~> loop = "away"

\* While the command loop sits in the join it never waits for a whole sleep of the
\* thread (the chase, interrupted before its flag is cleared, is the exception).
JoinIsPrompt ==
  loop = "join" /\ thread = "sleep" /\ ~interruptStatus => kind = "chase"

\* When the command loop goes on, the thread has ended and every saved value of
\* the highlight has been put back: nothing it painted is left behind.
NothingLeftBehind == loop = "away" => thread = "dead" /\ toRestore = 0

\* Once redrum has restored the first light of the highlight, the thread paints
\* none of them again.
NoRepaint ==
  kind = "highlight" /\ loop # "shown" /\ toRestore < Units => thread # "write"

=============================================================================
