# Chuck Light: TLA+ models and proofs

Chuck Light is a stage-lighting system. A hand-held **controller** (ESP32, `firmware/main`) sends
user actions over UDP to a **server** (Java, `chuck_server/src/chuck`) that keeps the mode, the
selection and the scenes and writes DMX values through sysfs registers (`kernel`) into an **FPGA
peripheral** (`dmx_module`), which sends them to the lamps. Everything else in the repository
(`SoC/`, `hardware/`, `images/`, `firmware/build`, laboratory programs in `apps/`) is vendored,
generated or not part of the product.

## 1. Inventory

| Component | State | Operations | Interacts with | What makes it correct |
|---|---|---|---|---|
| Command loop, `ServerAppThread` | mode, cursors, highlight list, scenes | one handler per mode and user action | takes packets from a queue, starts and joins visual threads, writes fixtures, triggers heartbeats | exactly the mode's visual thread runs; a light is always there to control; no effect ends up in a scene; the cursors stay in range |
| Visual threads, `HighlightThread`, `PresetVisualThread`, `RainbowThread`, `DMXVisualThread`, `ChaseThread` | running flag, saved values | `run`, `addLight`, `removeLight`, `redrum` | share fixtures and driver with the command loop | a stop ends the thread, soon, and leaves nothing behind |
| Fixtures, `FixtureProfile` | own copy of the channel values, isSelected | setters, `syncLight` | driver | the copy is fresh when a step starts from it |
| Scenes, `SceneManager` | list, cursor, file | add, delete, next, last, rewrite of the file | command loop | cursor in range, scenes clean, kept over restarts |
| DMX driver, `DefaultDMX` | shadow array | `setDMX`, bulk load, clear | four registers of the FPGA, any server thread | behaves as an array of bytes |
| FPGA, `ece453.sv`, `dmx512.sv` | registers, DMX array, serializer, interrupt bits | commit, send, raise an interrupt | driver, wire, kernel | commits exactly the call; start code stays 0; every packet is complete and every slot its address's; no event is dropped by the register |
| Heartbeat, `HeartBeatThread`, and `udp_controller.c` | mode on both sides, server address | poll, user action | UDP broadcast | both sides come to the same mode |
| Main loop, `main.c`, and `konami.c` | mode, user feedback, detector states and clock | a pass of the loop, `konami_tick`, `check_konami` | buttons, timer, `set_mode` from the network task | codes are recognised soundly, other keys are not lost; the LEDs show the mode; the shared UDP block is released |
| Buttons and joystick | debounce and hold counters | `read_button`, `read_direction` | main loop | debounced, one report per press, repeats at their rate |
| LEDs, timer, Wi-Fi, motion sensor | pins, ticks | Morse animation, `set_leds`, interrupt, set-up | main loop, network task | the animation spells its text |
| Listener, `UDPServerThread` | flag, queue | receive, put | command loop | ends when it is stopped |
| CLI, `UserCLI`, `FixtureManager` | the set of fixtures and its files | start, stop and quit; add, delete, save, load | command loop | a stop ends, with the server's threads; a set is never half loaded |
| Kernel driver | register files, interrupt handler | read, write, acknowledge, signal | driver, FPGA | one write, one register; each event acknowledged and passed on |

What is hard to test: several threads share fixtures and an unlocked four-step register protocol;
threads are stopped with a flag they set themselves; modes live on both sides of a lossy network;
handlers must undo in one mode what they did in another; two tasks and an interrupt of the controller
share its LEDs and its UDP block; files are deleted before they are rewritten; counters are compared
before or after their increment. `PROJECT.json` lists each hazard with its
line and with the property that watches it.

## 2. Modules

**ServerApp.** One action per command the loop handles (mode and user action), and one per pass of
a visual thread. Variables carry the source's names; `visuals` is the set of running threads,
`highlight` maps the highlight's lights to their saved values, `mirror` is each fixture's `dmxVals`,
`dmx` the driver's array, `up` tells that no exception has ended `run()`. DMX values are abstracted
to the *marks* a temporary effect leaves on a light: `pulse` (a dimmer written by the highlight or
the DMX preview), `glow` (a default colour switched on by the highlight), `white` (the preview's
white). A setter removes the marks of the channels it writes; the handlers that put a scene back
write everything. This is enough to ask whether an effect is ever kept in a scene and whether the
fixtures' copies are stale. Assumed: the fixture list is not empty and fixtures have dimmer, colour
and white channels, as the shipped profiles do; handlers join a thread before they go on, so its
passes fall between handlers (how the join works is VisualThread's subject). LEFT and RIGHT in
LIGHT_SELECTION have the same body in the source, hence one action.

The switch that handles KONAMI before the mode switch acts in every mode. `KonamiAnywhere` says
whether such a packet may arrive outside IDLE. All runs set it to FALSE, the intended use; ModeSync
shows how it happens nevertheless (`mode_sync_party`). It then leaves a visual thread running and the
isSelected flags set, so the invariants of ServerApp do not survive it.

**ModeMachine** is the abstract server: modes, and where each key may lead. ServerApp implements it
(`ImplementsModes`), and **ModeSync** puts it behind a network that loses, duplicates and reorders
packets, with a controller that can be switched off and on. Poll replies are left out (the server
prints them). A heartbeat carries the server's mode itself and not the heartbeat thread's copy of it;
that the two agree after every command is `HeartbeatCurrent`, proved of ServerApp. `playing` says that
the user is still at the controller.

**VisualThread** has `run()` of the five threads in steps (flag, unit by unit, sleep) against the
steps of the command loop's stop (flag, restore under the semaphore, interrupt, join). A chase is
interrupted before its flag is cleared; the rainbow does not look at the flag between lights. The
`running` field is not volatile: writes are assumed to become visible. `StopAfterBegin` says whether
a stop only comes once `run()` has begun.

**ServerStop** adds to ServerApp the CLI's stop and start. What belongs to the thread starts afresh;
the fixtures' flags and copies, the driver and the scene file survive.

**DmxArray** is what the `DMXDriver` interface promises: each call sets adjacent bytes, as a whole.
**DmxWrite** is the implementation: shadow array, packing, four register writes, the FPGA's start bit
and its two commits, the write port with its lane addresses. Any of the four writes may fail
(`WriteFails`): the `IOException` ends the call, and the bulk load it is part of, after the shadow array
was updated; the callers print it and go on. The ghost `unsent` holds the cells of such calls until a
later call that covers them goes through. Software steps only while the FPGA is idle, because two clock
cycles are far shorter than a system call. `Calls` and `Loads` are the arguments the callers use.

**Konami** is the detector with the debounce tick of the main loop that feeds it. Three history
variables record, independently of the detector, which prefixes of the codes the latest pairs spell
and how long ago the last pair was; the detector is compared with them.

**Buttons** and **Joystick** are `read_button` and `read_direction`, one call per step, with every
combination of pin levels and every zone of the stick as input (and, for the stick, a mode with or
without continuous reading). History variables count, independently of the static counters, for how
many calls a button or a deflection has been down and how often it was reported in that time. Names of
constants carry a prefix in Joystick because both files have their own `DEBOUNCE_COUNT`.

**Morse** is `pre_connect_animation`, one call per step with the real unit of 113 ticks, and a reader
that knows only how long the LEDs are lit and dark and decodes them.

**Controller** has the three actors of the firmware on their shared memory: `app_main`, the network
task with `udp_recieve`, and the timer interrupt. A step is one access to a shared variable, an LED
pin or the UDP block, so `set_mode` falls between any two lines of the main loop. What a packet
carries is abstracted; which packets are sent, and that each connects and disconnects the block, is not.

**DmxFrame** is the serializer, register by register and cycle by cycle, with the array written in any
cycle, and a UART-like receiver on the line that knows the timing and nothing else. **Irq** has the
input, mask and interrupt registers and the busy bit, clock by clock, and the kernel's handler (read,
acknowledge, signal). `pid` says whether the driver's pid names a process: it is none until the file
`pid` is written, and none again when the process ends. The handler acknowledges first, so with no such
process, or an error of `send_sig_info`, an event is consumed and nobody learns of it. Three ghosts
follow the events: `owed` the ones not acknowledged, `taken` the ones acknowledged and not signalled,
`lost` the bits whose last event no signal will tell of, because of those exits or because it fell into
the very cycle of an acknowledgement of other bits.

**ServerLife** puts the threads of a server against each other: the command line in the steps of
`stopServer`, the command loop from the start of `run()`, the heartbeat, the listener. They share the
socket, the flags, the queue and the field of a visual thread. `LoopBack` says that the host delivers
the server's broadcasts to its own port, which the join of the listener relies on; `Patient` that the
user types no `s` or `q` before the threads have set their flags. Handlers are reduced to what they
do to the visual threads and to whether they send a heartbeat (ServerApp has the rest). `visual` tells
a chase, which `stopServer` never ends, from the kinds whose fields it tests, and among these one that
a handler started while a stop was under way.

**SceneStore** is the scene list and its text file: deletion, a buffered rewrite that reaches the disk
at any place, a failed write, stops and crashes at any point, the parser at the next start. A line cut
inside its last number parses as a damaged scene, a line cut elsewhere does not parse. **FixtureSet**
is the set manager with its files: the constructor's checks and those of `readObject` as they are (the
constructor's upper bound uses a field that is still 0; the word `done` becomes a channel if there is
room), the stable sort by address after each addition and after a load, fixture by fixture writing,
the count that waits in the buffer until the first fixture, a save that fails with an `IOException` and
returns to the menu (`SaveFails`), and an end of the process at any point.

**Dimmer** is the arithmetic of the two threads that let lights breathe: `HighlightThread` tests the
range before each step, `DMXVisualThread` once per pass. The number of lights is bounded only by the
constant of the run; the code has no bound. `WholePasses(n)` says that some number of whole passes
of n lights, going down from 255, ends between 0 and 24.

**Sums.** MCPeripheral, MCInput and MCLife check components that share no variable: the
variable `part` selects the component that runs, and the others rest in their initial
states. Nothing is lost by that, because they do not interact through modelled state; each component
is explored exactly as by its own specification, with its own fairness.

`MC*` modules and `.cfg` files fix the constants. Definitions introduced as *mutated form of ...* are
wrong variants of the definition that follows; each property is violated when one of them takes its
place, so no property holds for want of a case.

## 3. Runs

| Run | Checks | Bounds and why they are enough |
|---|---|---|
| `server_app` | ranges with the scene cursor's, threads per mode, loop alive, channel cursor, mirrors, clean scenes, mode machine | 3 lights, two with equal channel counts and one different; 0 to 2 stored scenes (chase needs two); 2 presets; 2 chase delays. All selections, paths and passes occur; 1.1 million states |
| `peripheral` | DmxWrite: shadow = FPGA between calls but for failed ones, bulk loads leave nothing out, DmxArray refined. DmxFrame: slots faithful, packets complete, packets follow each other. Irq: events stay pending until they are acknowledged, and are acknowledged | write port: 4 addresses, 2 lanes, 2 byte values, one thread with a call of two bytes across two chunks, one of a single byte before the last address, and bulk loads of two chunks, any of the writes failing (the proofs have every call). Serializer: start code and 2 addresses of 2 bits, three values, a break just longer than a slot of zeros: first, middle and last slot, and every cycle of a packet as the cycle of a write. Interrupts: bit 0, which two sources share, and one other |
| `controller_input` | Konami: sound, timeout, only the tail swallowed. Buttons: chord and B1 debounced, once per press, clean presses reported. Joystick: debounced exactly, only up and down repeat, repeats spaced, repeats go on. Morse: the reader decodes the text, over and over | timeout 2: every pause below, at and above it at each of the 11 keys; debounce 2 and hold 2, stick 1, hold 1 and rate 1: each counter passes below, at and above its limit while every other one is at any value; the real Morse unit of 113 |
| `controller` | UDP block released, LEDs settle on the mode, blinks end | two modes, one with steady LEDs and one that moves them, feedback rate 0: all interleavings of loop, network task and interrupt; 440 thousand states |
| `server_life` | ServerLife: a stop ends, with its three threads, its visual (but a chase or one started meanwhile) and a free port. SceneStore: nothing unsaved, a restart keeps the scenes. FixtureSet: never partial, saved sets load. VisualThread: join returns, is prompt, no repaint. Dimmer: in range for the highlight, and for the preview where whole passes fit. ModeSync: modes converge, the controller reconnects | 2 waiting packets and commands; 3 scenes of 2 images, so a crash can fall after whole lines and a deletion leaves some; 2 fixtures in 2 addresses and one file: fixtures that fit, do not fit, have a colour or not, and a save cut between them; 3 units of a pass, so a stop can fall before, between and after writes; the real dimmer steps and range with 1 to 20 lights, on both sides of the counts that fit; 1 action and 2 polls in flight, enough for overtaking and a stale duplicate |

Violations, each with a finding:

| Run | Shows |
|---|---|
| `visual_lost_stop` | a stop before `run()` sets its flag is undone, and the join never returns |
| `dmx_race` | two threads in `setDMX`: bytes of one call at the address of the other |
| `mode_sync_party` | after a lost poll KONAMI takes the server to PARTY from LIGHT_SELECTION |
| `stop_restart` | selection flags survive a restart, after which B1 can end the command loop |
| `dimmer_preview` | nine selected lights: the preview's dimmer falls below 0 within a pass, and the exception ends the thread |
| `stop_leaves_visual` | the server says it is stopped while a chase, or a visual started during the stop, goes on |
| `server_life_exit` | a stop that interrupts the listener after its test, or closes the socket under a handler's heartbeat, ends the whole process |

Smaller departures from what a comment says or a user expects are in the models as the code has them.
They have no run of their own; each is easily seen with TLC by stating its contrary:

* B2 and the joystick's button keep their debounce counters while a button before them in
  `read_button` is down, and may then be reported at once (`button_controllers.c:77`); this is why
  `FrontDebounced` speaks of the chord and B1 only.
* B1 + B2 does not leave PARTY or SCARY, as `modes.h:11-12` says it does: the handlers of both modes
  (`PartyExit`, `ScaryExit`) leave on a long press of the joystick only (`ServerAppThread.java:699`). ImplementsModes has the edges, not the keys.
* A loop that found the controller not connected draws its animation once more after the first poll
  has set SCARY, a mode listed as dark; the next poll puts it right, which `LedsSettle` says.
* A field of a visual thread set to null between `stopServer`'s test and its use ends the command line.
* A quit before the threads have set their flags hangs in a join (`Patient = FALSE`).
* The constructor of `FixtureProfile` adds a field that is still 0 to the number of channels (line 77),
  so a fixture may reach beyond the universe; `done` becomes a channel (`UserCLI.java:252`). A set
  with such a fixture, with one that has no colour channel, or with none does not load again: the
  exceptions of `SavedSetLoads`.
* Every phase of the serializer lasts one cycle more than its constant (a bit 201 cycles, not 200).
* An edge of input 0 sets the bit of the DMX interrupt; an event in the very cycle of an
  acknowledgement, on a bit that is not pending, is lost, which is the exception in `OwedPending`; and
  an acknowledged event is lost when the driver finds no process to signal (`ece453_driver.c:79-89`).
* A pass of the rainbow or of a preset leaves no mark on the lights in ServerApp, so `ScenesClean` is
  about dimmers, default colours and whites and says nothing of these colours.

**Fairness.** VisualThread: weak fairness of the thread and of the command loop's redrum, which the
JVM's scheduler gives; starting and stopping is up to the user and not fair. ServerLife: weak fairness
of each of the four threads, for the same reason; packets and the user's commands are not fair.
ModeSync: weak fairness of the heartbeat, of the command loop and of delivery (a packet does not stay
in flight for ever; it may be lost), and strong fairness of the arrival of a poll with the current
mode: the heartbeat sends one every three seconds without end, and a network that drops all of them
is not assumed to converge. Controller: weak fairness of the timer, the main loop, the network task
and the arrival of polls. Joystick: weak fairness of a call that finds the stick as the last one did,
since the debounce timer goes on; moving the stick is not required. Morse: the tick goes on. DmxFrame:
the clock runs. Irq: the processor takes an interrupt that stays raised and the handler runs to its end. The other modules state safety only.

Deadlock is checked in every run but `server_life` and the two violation runs of ServerLife, where the process may
really end (by a quit, by `System.exit`, or because the default set does not load).

## 4. Proofs

All theorems hold for every value of the constants; TLAPS checks them with Z3, Zenon and LS4.

* **ServerAppProofs.** `ServerImplementsModes` (the mode machine is implemented) needs only that the
  control index stays in {-1, 0, 1}. The rest assumes `~KonamiAnywhere` and is layered, each layer an
  inductive invariant that may use those below it:
  `SelectionInv` (isSelected flags are set only in LIGHT_SELECTION, and there only on highlighted
  lights: without the first part a flag left over makes the list empty later) gives `LoopSurvives`,
  `SelectionHighlighted` and `HeartbeatCurrent`; `VisualInv` (DMX, COLOR_WHEEL and PRESET remember the
  control they came from, which the way back relies on) gives `VisualsMatchState`; `CursorInv` bounds
  the cursors; `ChannelInv` (DMX control is on offer only with equal channel counts) gives
  `ChannelInRange`; `SceneInv` (outside the two blinking situations the output itself is clean, which
  is why keeping it is safe) gives `ScenesClean` and the range of the scene cursor; `LampInv` gives `MirrorFresh`.
  `ServerAppSafe` collects types and the rest.
* **DmxWriteProofs.** One writer. `DmxInv`: the registers hold the writer's call as far as it has
  written them, the shadow array is ahead of the FPGA by exactly that call and the cells in `unsent`, a
  bulk load is at a chunk boundary with its prefix in the shadow and none of it in `unsent` (a failed
  write ends the load, which is why). A commit is then the call's effect (`CommitIsApply`) and a
  second commit changes nothing (`ApplyTwice`), so `DmxRefines`: DmxArray is implemented. `DmxSafe`
  gives the invariants, `StartCodeSafe` holds with any number of writers. Assumed of the constants:
  the array size is a multiple of the number of lanes, of which there are at least two (512 and 4).
* **InputProofs.** *Detector*: `KonamiInv` says that its state is one of the spelled prefixes and that
  its clock is the silence since the last pair; `DetectorSound` and `TailOnly` follow. *Buttons*:
  `ButtonsInv`: the chord's counter is its run, since every call looks at it; B1's may lag behind (it
  is skipped while the chord is down), so it is never early; the other counters may be ahead, but a
  reported press is marked until it ends; in a clean press the counter is exact. `FrontIsDebounced`,
  `OneReportPerPress` and `CleanPressReported` follow for every debounce and hold count. *Stick*:
  `JoystickInv` gives each counter of `read_direction` two lives. Before the report it is the number
  of calls that found the deflection; after it the value -1 (held) or -2 (repeating) stands for a
  deflection that was told. The counter of a long hold never runs ahead of the calls since the last
  report, and with -2 and no repeat yet it lags by the whole long hold; calls in a mode without
  continuous reading only widen the gap, which is why a change of mode cannot bring a repeat forward.
  `StickDebounced` and `RepeatsSpaced` follow.
* **VisualProofs.** `VTInv` relates where the thread is, the flag and how far the stop has come;
  `HandshakeSafe` follows, for any number of lights, under `StopAfterBegin`. The highlight's dimmer is
  at a multiple of its step between 20 and 255, whatever the number of lights (`HighlightInRange`).
  The preview tests the range only between passes: `OnPasses` says that a pass starts a whole number
  of passes below the top. If some whole number of passes ends between 0 and 24 (`WholePasses`), the
  direction turns there at the latest, and the way up ends at 255 again. `DimmersFit` has both threads,
  for any number of lights; it covers previews of 1 to 8, 10, 12, 16, 17 and more lights, and nine are
  the first that fail.
* **StoreProofs.** *Scene file*: `StoreInv`: a file no crash has hit has only whole scenes, and after a
  stop it begins with the scenes of that server. `AllSaved`, `NoDamage` and `ScenesSurvive` follow, for
  any number of scenes, stops and restarts. *Fixture sets*: `SetInv`: a file has neither number nor
  fixtures, or the number of the set saved in it last and a prefix of its fixtures; sets are in order,
  in memory and in files; a set does not change while it is saved. A file that loads therefore has all
  fixtures, and because they are in order the sort after loading leaves them alone
  (`SortedKeepsOrder`), which gives `SetsNeverPartial`; `SavedSetsLoad` follows from the same
  invariant. The lemmas on the sort (`RankMonotone`, `RankOnto`, `SortedInOrder`) are why FixtureSet
  defines the stable sort by the rank of each fixture: what a fold over insertions returns could not
  be proved here.
* **PeripheralProofs.** *Interrupts*: `OwedPending` needs that nothing is owed on a disabled bit,
  because `irq_in` masks the register, and that what the handler acknowledges is what it read
  (`NothingDropped`, for any number of bits, with or without a process to signal). *Serializer*:
  `FrameInv` says, phase by phase, where the receiver is. In IDLE and BREAK it waits, with all slots
  heard or none, and its count of low cycles is the timer as far as it needs it; from the second cycle
  of MAB on it is ready for slot 0; in TRANSMIT it is in step: cycle `timer` of bit `bit_count` is the
  cycle `bit_count * BitCycles + timer` of its slot. What keeps a slot whole while the array is
  written is `Carries`: the bits still in the shift register and the bits already sampled are bits of
  *one* value, and that value is among those the address has held since the break began. `SameCycle`
  (a cycle of a slot determines bit and place) makes the receiver sample in the middle of every bit
  and nowhere else. `FramesFaithful` (`SlotsFaithful`) and `PacketsWhole` (`PacketComplete`) follow for
  every number of addresses, slot width, set of bytes and all times; of the constants they assume only
  that a break is longer than a start bit and a slot of zeros.
* **ServerLifeProofs.** `LifeInv`: the command loop makes socket and threads before it sets its flag; a
  stop finds a server that has started and ends listener, heartbeat, socket and loop in this order,
  each dead before the next is asked; only a stop takes the flag from a server that has started.
  `VisualOrder` adds that past the stop's test only a chase or a late visual is left.
  `StopCompletes` (`StoppedIsOver`) and `RestartSafe` (a start after a stop never finds the port or
  the thread of the last server) follow, with or without `LoopBack` and for any room in the queue,
  under `Patient`. Without `Patient` the invariant fails, as TLC shows: a `q` typed while the loop is
  between its socket and its threads finds null fields, skips them, and the threads are made after
  the stop.
* **ControllerProofs.** `ControllerInv`: the types, among them that the main loop has a packet left to
  send whenever it is about to disconnect, and `BlockReleased` itself. `BlockIsReleased` and
  `ControllerTyped` follow for all modes and lengths of the feedback.

Some theorems state more than the runs ask: `SelectionSafe` also gives `SelectionHighlighted` and
`HeartbeatCurrent`, `StartCodeSafe` `StartCodeZero`, `DetectorSound`
`OneCodeAndClock`, `HandshakeSafe` `NothingLeftBehind`, `NoDamage` `DamageNeedsCrash`, `RestartSafe`
`RestartIsFree`, `ControllerTyped` the ranges of the firmware's counters. The inductive invariants of
DmxFrame and ServerLife were first checked by TLC on the instances of the runs.

Every safety property of a passing run, invariant or action property, is now a theorem.
Model-checked only: liveness (`RedrumReturns`, `ModesConverge`, `Reconnects`, `StopReturns`,
`LedsSettle`, `FeedbackEnds`, `HeldRepeats`, `BannerCompletes`, `PacketsFlow`, `OwedAcknowledged`), since
TLAPS does not handle fairness here; ServerStop and the other violation runs, whose properties fail.

## 5. Not modelled

Text of files and packets, parsing, logging; colour geometry (`XYConverter`, floating point) and the
values a motion or joystick packet carries; command packets of the controller's protocol, which the
server never sends; Wi-Fi and motion sensor set-up; the colours of PARTY mode as seen by an observer
(they are in Controller, no property is about them); visibility of plain Java fields between threads
(a write is assumed to be seen by the next read); memory of the IP stack (`udp_controller.c:112` does
not free its buffer); probe and remove of the kernel driver and its sysfs file for interrupts; the
laboratory programs.

## 6. Plan

Done: every component of the product that keeps state, except for the parts above; proofs of every
safety property that a passing run checks. Worth proving next, most useful first:

1. **ModeSync**: that every step of the server in it is a step of ModeMachine, and what a poll in flight
   can carry, as the safety part of the argument for `ModesConverge`.
2. **Morse**: that each call of the animation leaves the reader in step with the text, the safety part
   of `BannerCompletes`.
3. **ServerStop**: the part of ServerApp's invariants that does survive a restart.
