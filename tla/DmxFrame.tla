------------------------------- MODULE DmxFrame -------------------------------
(***************************************************************************)
(* The DMX serializer dmx512.sv, clock cycle by clock cycle, and a DMX     *)
(* receiver on its output line that knows only the line.  The write port   *)
(* may change the array in any cycle (DmxWrite says when it does).         *)
(***************************************************************************)
EXTENDS Integers, Sequences

CONSTANTS
  LastAddress,  \* last DMX address (512)
  W,            \* bits of a slot (8)
  Bytes,        \* the values written in this instance, as bits from the lowest
  IDLE_TIME, BREAK_TIME, MAB_TIME, BIT_TIME   \* in clock cycles

Zero == [k \in 1 .. W |-> 0]

\* A break is longer than the longest low level inside a slot, a start bit and zeros.
ASSUME DmxFrameAssumption ==
  /\ LastAddress \in Nat \ {0} /\ W \in Nat \ {0}
  /\ Bytes \subseteq [1 .. W -> {0, 1}] /\ Zero \in Bytes
  /\ {IDLE_TIME, BREAK_TIME, MAB_TIME, BIT_TIME} \subseteq Nat \ {0}
  /\ BREAK_TIME > (W + 1) * (BIT_TIME + 1)

VARIABLES
  DMX_data, curr_state, timer, frame_addr, bit_count, shift_reg,
  held,    \* history: the values each address has held since the packet began
  rx       \* the receiver: [at, age, bits, slot, got]

serializer == <<curr_state, timer, frame_addr, bit_count, shift_reg>>
frameVars == <<DMX_data, serializer, held, rx>>

Address == 0 .. LastAddress
LastBit == W + 2     \* a start bit, W data bits and two stop bits

-----------------------------------------------------------------------------
(* dmx512.sv *)

dmx_signal == CASE curr_state = "BREAK" -> 0
                [] curr_state = "TRANSMIT" -> shift_reg[1]
                [] OTHER -> 1

\* The outputs of the state machine in this cycle
Expires(state, time) == curr_state = state /\ timer = time

first_frame == Expires("BREAK", BREAK_TIME)

\* Mutated form of next_frame: the last address is never loaded.
next_frame_OneShort ==
  \/ Expires("MAB", MAB_TIME)
  \/ Expires("TRANSMIT", BIT_TIME) /\ bit_count = LastBit /\ frame_addr # LastAddress

next_frame ==
  \/ Expires("MAB", MAB_TIME)
  \/ Expires("TRANSMIT", BIT_TIME) /\ bit_count = LastBit /\ frame_addr # LastAddress + 1

shift_bit == Expires("TRANSMIT", BIT_TIME) /\ bit_count # LastBit

timer_rst ==
  \/ Expires("IDLE", IDLE_TIME) \/ Expires("BREAK", BREAK_TIME) \/ Expires("MAB", MAB_TIME)
  \/ Expires("TRANSMIT", BIT_TIME)

\* Mutated form of next_state: no way back to IDLE.
next_state_NoEnd ==
  CASE Expires("IDLE", IDLE_TIME) -> "BREAK"
    [] Expires("BREAK", BREAK_TIME) -> "MAB"
    [] Expires("MAB", MAB_TIME) -> "TRANSMIT"
    [] OTHER -> curr_state

next_state ==
  CASE Expires("IDLE", IDLE_TIME) -> "BREAK"
    [] Expires("BREAK", BREAK_TIME) -> "MAB"
    [] Expires("MAB", MAB_TIME) -> "TRANSMIT"
    [] Expires("TRANSMIT", BIT_TIME) /\ ~shift_bit /\ ~next_frame -> "IDLE"
    [] OTHER -> curr_state

\* Mutated form of Loaded: the bits go out highest first.
LoadedReversed == <<0>> \o [k \in 1 .. W |-> DMX_data[frame_addr][W + 1 - k]] \o <<1, 1>>

\* What the shift register takes from the array, the bit that goes out first in front
Loaded == <<0>> \o DMX_data[frame_addr] \o <<1, 1>>

Registers ==
  /\ curr_state' = next_state
  /\ timer' = IF timer_rst THEN 0 ELSE timer + 1
  /\ frame_addr' = IF first_frame THEN 0
                   ELSE IF next_frame THEN frame_addr + 1 ELSE frame_addr
  /\ shift_reg' = IF next_frame THEN Loaded
                  ELSE IF shift_bit THEN Append(Tail(shift_reg), 0) ELSE shift_reg
  /\ bit_count' = IF next_frame THEN 0
                  ELSE IF shift_bit THEN bit_count + 1 ELSE bit_count

-----------------------------------------------------------------------------
(* The receiver, a UART that starts at the falling edge of a start bit *)

BitCycles == BIT_TIME + 1
SampleAt(k) == k * BitCycles + BIT_TIME \div 2

\* at is "wait" until a break is seen, "mark" between slots, "slot" inside one; age
\* counts the cycles of the present slot or low level.
Hear(v) ==
  CASE rx.at \in {"wait", "mark"} /\ v = 1 ->
         [rx EXCEPT !.age = 0,
                    !.at = IF rx.age > (W + 1) * BitCycles THEN "mark" ELSE @,
                    !.slot = IF rx.age > (W + 1) * BitCycles THEN 0 ELSE @]
    [] rx.at = "wait" /\ v = 0 ->
         [rx EXCEPT !.age = IF @ > (W + 1) * BitCycles THEN @ ELSE @ + 1]
    [] rx.at = "mark" /\ v = 0 -> [rx EXCEPT !.at = "slot", !.age = 0, !.bits = <<>>]
    [] rx.at = "slot" ->
         LET age == rx.age + 1
             bits == IF \E k \in 1 .. LastBit : age = SampleAt(k)
                     THEN Append(rx.bits, v) ELSE rx.bits
             full == Len(bits) = LastBit
         IN  [rx EXCEPT !.age = IF full THEN 0 ELSE age,
                        !.bits = IF full THEN <<>> ELSE bits,
                        !.at = IF ~full THEN @
                               ELSE IF bits[W + 1] # 1 THEN "wait"
                               ELSE IF rx.slot = LastAddress THEN "wait" ELSE "mark",
                        !.got = IF full /\ bits[W + 1] = 1
                                THEN [@ EXCEPT ![rx.slot] = SubSeq(bits, 1, W)] ELSE @,
                        !.slot = IF full /\ bits[W + 1] = 1 THEN @ + 1 ELSE @]

-----------------------------------------------------------------------------
(* One clock cycle; the port writes value v to address a, or nothing. *)

Cycle ==
  /\ Registers
  /\ rx' = Hear(dmx_signal)
  /\ UNCHANGED DMX_data
  /\ held' = [i \in Address |-> IF next_state = "BREAK" /\ curr_state # "BREAK"
                                THEN {DMX_data[i]} ELSE held[i]]

CycleWithWrite(a, v) ==
  /\ Registers
  /\ rx' = Hear(dmx_signal)
  /\ DMX_data' = [DMX_data EXCEPT ![a] = v]
  /\ held' = [i \in Address |-> (IF next_state = "BREAK" /\ curr_state # "BREAK"
                                 THEN {DMX_data[i]} ELSE held[i])
                                \union (IF i = a THEN {v} ELSE {})]

\* rst
FrameInit ==
  /\ DMX_data = [i \in Address |-> Zero]
  /\ curr_state = "IDLE" /\ timer = 0 /\ frame_addr = 0 /\ bit_count = 0
  /\ shift_reg = [k \in 1 .. LastBit + 1 |-> 0]
  /\ held = [i \in Address |-> {Zero}]
  /\ rx = [at |-> "wait", age |-> 0, bits |-> <<>>, slot |-> 0,
           got |-> [i \in Address |-> Zero]]

FrameNext == Cycle \/ \E a \in 1 .. LastAddress, v \in Bytes : CycleWithWrite(a, v)

\* The clock runs.
FrameSpec == FrameInit /\ [][FrameNext]_frameVars /\ WF_frameVars(FrameNext)

-----------------------------------------------------------------------------
(* Properties *)

\* A receiver that knows only the line gets, in slot i of every packet, a value that
\* address i held while the packet was on its way: no slot is shifted, torn or made up,
\* even when the array is written while it is read out.
SlotsFaithful ==
  rx.at # "wait" \/ curr_state \in {"IDLE", "TRANSMIT"}
    => \A i \in 0 .. rx.slot - 1 : rx.got[i] \in held[i]

\* A packet is never cut short: the receiver starts a new one only after a slot for each
\* address, and takes no run of zeros for a break.
PacketComplete ==
  [][rx'.slot # rx.slot => rx'.slot = rx.slot + 1 \/ rx.slot = LastAddress + 1]_frameVars

\* Packet follows packet: one that has begun reaches its last slot, and another begins.
PacketsFlow ==
  /\ rx.slot = LastAddress + 1 ~> rx.slot = 0
  /\ rx.slot = 0 /\ curr_state # "IDLE" ~> rx.slot = LastAddress + 1

=============================================================================
