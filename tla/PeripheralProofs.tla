-------------------------- MODULE PeripheralProofs --------------------------
(***************************************************************************)
(* The peripheral, for any number of interrupt bits, addresses and data    *)
(* bits and any times of the line: no enabled event is lost between the    *)
(* register and the handler, and what a receiver hears on the DMX line is  *)
(* what the array held, slot by slot and packet by packet.                 *)
(***************************************************************************)
EXTENDS Irq, DmxFrame, SequenceTheorems, TLAPS

-----------------------------------------------------------------------------
(* The interrupt register and its handler (Irq) *)

\* A disabled bit is owed nothing, so the mask that irq_in applies drops no owed bit.
IrqInv == OwedPending /\ owed \subseteq im_r

\* A clock cycle without an acknowledgement keeps what is owed in the register and takes
\* nothing from the handler.
LEMMA CycleKeeps ==
  ASSUME IrqInv, NEW m, NEW begin, Clock(FALSE, {}, m, begin)
  PROVE  owed' \subseteq im_r' /\ owed' \subseteq irq_r' \cup lost' /\ taken' = taken
<1>1. PICK gpio_inputs \in SUBSET Bits :
        /\ irq_r' = (irq_r \cup Events(gpio_inputs)) \cap im_r
        /\ owed' = m \cap (owed \cup (Events(gpio_inputs) \cap im_r))
        /\ taken' = taken
        /\ lost' = m \cap (lost \ (Events(gpio_inputs) \cap im_r))
  BY DEF Clock, irq_in
<1>2. im_r' = m
  BY DEF Clock
<1> QED
  BY <1>1, <1>2 DEF IrqInv, OwedPending

\* For any number of bits, and whether or not there is a process to signal: an event on
\* an enabled bit stays in the register until ece453_irq_handler has acknowledged it or
\* the bit is disabled, unless it falls in the cycle of an acknowledgement on a bit that
\* is not pending; what is acknowledged is among the bits the handler is about to signal.
THEOREM NothingDropped == IrqSpec => []OwedPending
<1>1. IrqInit => IrqInv
  BY DEF IrqInit, IrqInv, OwedPending
<1>2. IrqInv /\ [IrqNext]_irqVars => IrqInv'
  <2> SUFFICES ASSUME IrqInv, [IrqNext]_irqVars PROVE IrqInv'
    OBVIOUS
  <2>1. CASE Idle
    BY <2>1, CycleKeeps DEF Idle, IrqInv, OwedPending
  <2>2. CASE WriteIm
    <3>1. PICK m \in SUBSET Bits : Clock(FALSE, {}, m, FALSE)
      BY <2>2 DEF WriteIm
    <3> QED
      BY <2>2, <3>1, CycleKeeps DEF WriteIm, IrqInv, OwedPending
  <2>3. CASE StartDmx
    BY <2>3, CycleKeeps DEF StartDmx, IrqInv, OwedPending
  <2>4. CASE ReadIrq
    \* The handler was idle, so nothing is acknowledged and not signalled.
    BY <2>4, CycleKeeps DEF ReadIrq, IrqInv, OwedPending
  <2>5. CASE Acknowledge
    \* The bits that leave the register are those the handler holds; an event of this
    \* cycle on another bit stays only if the bit is pending.
    <3>1. PICK gpio_inputs \in SUBSET Bits :
            /\ owed' = im_r \cap ((owed \cup (Events(gpio_inputs) \cap im_r)) \ active_irqs)
            /\ lost' = im_r \cap
                 (lost \cup ((Events(gpio_inputs) \cap im_r) \ (active_irqs \cup irq_r)))
            /\ taken' = active_irqs \cap (owed \cup (Events(gpio_inputs) \cap im_r))
            /\ irq_r' = irq_r \ active_irqs
      BY <2>5 DEF Acknowledge, Clock, irq_in
    <3>2. handler' = "signal" /\ active_irqs' = active_irqs /\ im_r' = im_r
      BY <2>5 DEF Acknowledge, Clock
    <3> QED
      BY <3>1, <3>2 DEF IrqInv, OwedPending
  <2>6. CASE Signal
    BY <2>6 DEF Signal, IrqInv, OwedPending, irqRegisters
  <2>7. CASE WritePid \/ ProcessEnds
    BY <2>7 DEF WritePid, ProcessEnds, IrqInv, OwedPending, irqRegisters
  <2>8. CASE UNCHANGED irqVars
    BY <2>8 DEF IrqInv, OwedPending, irqVars, irqRegisters
  <2> QED
    BY <2>1, <2>2, <2>3, <2>4, <2>5, <2>6, <2>7, <2>8 DEF IrqNext
<1>3. IrqInv => OwedPending
  BY DEF IrqInv
<1> QED
  BY <1>1, <1>2, <1>3, PTL DEF IrqSpec

-----------------------------------------------------------------------------
(* The serializer (DmxFrame) *)

Byte01 == [1 .. W -> {0, 1}]

\* The longest low level inside a slot, in cycles
LongLow == (W + 1) * BitCycles

\* Bit k of the slot of value v: the start bit, the bits of v, the stop bits
SlotBit(v, k) == IF k = 0 THEN 0 ELSE IF k <= W THEN v[k] ELSE 1

\* How many bits of the present slot the receiver has sampled
Sampled == IF bit_count = 0 \/ timer > BIT_TIME \div 2 THEN bit_count ELSE bit_count - 1

Receiver == [at : {"wait", "mark", "slot"}, age : Nat, bits : Seq({0, 1}),
             slot : 0 .. LastAddress + 1, got : [Address -> Byte01]]

FrameTyped ==
  /\ DMX_data \in [Address -> Bytes]
  /\ held \in [Address -> SUBSET Byte01]
  /\ rx \in Receiver

\* What an address holds now is among what it has held since the packet began.
HeldCurrent == \A i \in Address : DMX_data[i] \in held[i]

\* Between packets the receiver waits for a break, and has heard all slots or none.
Waiting == rx.at = "wait" /\ rx.slot \in {0, LastAddress + 1}

InIdle == curr_state = "IDLE" => timer \in 0 .. IDLE_TIME /\ Waiting /\ rx.age = 0

\* It counts the cycles of the break, as far as it needs to tell it from a slot.
InBreak ==
  curr_state = "BREAK" =>
    /\ timer \in 0 .. BREAK_TIME /\ Waiting
    /\ rx.age = IF timer > LongLow THEN LongLow + 1 ELSE timer

InMab ==
  curr_state = "MAB" =>
    /\ timer \in 0 .. MAB_TIME /\ frame_addr = 0
    /\ timer = 0 => Waiting /\ rx.age = LongLow + 1
    /\ timer > 0 => rx.at = "mark" /\ rx.age = 0 /\ rx.slot = 0

\* The shift register has the bits of the slot that are still to go out, and the receiver
\* those that it has sampled, of one value that the address of the slot has held.
Carries(v) ==
  /\ \A j \in 1 .. LastBit + 1 - bit_count : shift_reg[j] = SlotBit(v, bit_count + j - 1)
  /\ rx.at = "slot" => \A k \in 1 .. Len(rx.bits) : rx.bits[k] = SlotBit(v, k)

\* The receiver is in step: before the start bit, inside the slot, or past the sample of
\* the last stop bit.
BeforeStart == bit_count = 0 /\ timer = 0
PastSample == bit_count = LastBit /\ timer > BIT_TIME \div 2

InTransmit ==
  curr_state = "TRANSMIT" =>
    /\ timer \in 0 .. BIT_TIME /\ bit_count \in 0 .. LastBit
    /\ frame_addr \in 1 .. LastAddress + 1
    /\ shift_reg \in Seq({0, 1}) /\ Len(shift_reg) = LastBit + 1
    /\ \E v \in held[frame_addr - 1] : Carries(v)
    /\ BeforeStart => rx.at = "mark" /\ rx.age = 0 /\ rx.slot = frame_addr - 1
    /\ PastSample =>
         /\ rx.at = IF frame_addr = LastAddress + 1 THEN "wait" ELSE "mark"
         /\ rx.age = 0 /\ rx.slot = frame_addr
    /\ ~BeforeStart /\ ~PastSample =>
         /\ rx.at = "slot" /\ rx.age = bit_count * BitCycles + timer - 1
         /\ rx.slot = frame_addr - 1 /\ Len(rx.bits) = Sampled

\* The slots of the packet that were heard are faithful until the next break begins.
GotFaithful ==
  curr_state \in {"IDLE", "TRANSMIT"} => \A i \in 0 .. rx.slot - 1 : rx.got[i] \in held[i]

FrameInv ==
  /\ curr_state \in {"IDLE", "BREAK", "MAB", "TRANSMIT"} /\ FrameTyped /\ HeldCurrent
  /\ InIdle /\ InBreak /\ InMab /\ InTransmit /\ GotFaithful

-----------------------------------------------------------------------------
(* Times *)

LEMMA Times ==
  /\ LastAddress \in Nat /\ LastAddress > 0 /\ W \in Nat /\ W > 0 /\ LastBit = W + 2
  /\ IDLE_TIME \in Nat /\ IDLE_TIME > 0 /\ BREAK_TIME \in Nat /\ BREAK_TIME > 0
  /\ MAB_TIME \in Nat /\ MAB_TIME > 0 /\ BIT_TIME \in Nat /\ BIT_TIME > 0
  /\ LongLow \in Nat /\ BREAK_TIME > LongLow
  /\ BIT_TIME \div 2 \in Nat /\ BIT_TIME \div 2 < BIT_TIME
  /\ Bytes \subseteq Byte01 /\ Zero \in Byte01
<1>1. W \in Nat /\ BIT_TIME \in Nat /\ W > 0 /\ BIT_TIME > 0
  BY DmxFrameAssumption
<1>2. LongLow \in Nat
  BY <1>1 DEF LongLow, BitCycles
<1>3. BIT_TIME \div 2 \in Nat /\ BIT_TIME \div 2 < BIT_TIME
  BY <1>1
<1> QED
  BY <1>1, <1>2, <1>3, DmxFrameAssumption DEF LongLow, BitCycles, LastBit, Byte01

\* Two cycles of a slot are the same only when the bit and the place in it are.
LEMMA SameCycle ==
  ASSUME NEW b \in Nat, NEW k \in Nat, NEW t \in 0 .. BIT_TIME, NEW s \in 0 .. BIT_TIME,
         b * BitCycles + t = k * BitCycles + s
  PROVE  b = k /\ t = s
<1> DEFINE n == BitCycles
<1>1. n \in Nat /\ n = BIT_TIME + 1
  BY Times DEF BitCycles
<1>2. ASSUME NEW x \in Nat, NEW y \in Nat, NEW u \in 0 .. BIT_TIME, NEW w \in 0 .. BIT_TIME,
             x < y
      PROVE  x * n + u < y * n + w
  <2>1. PICK d \in Nat : y = x + 1 + d
    <3>1. y - x - 1 \in Nat
      BY <1>2
    <3> QED
      BY <3>1, <1>2
  <2>2. y * n = x * n + n + d * n
    <3>1. (x + 1 + d) * n = x * n + n + d * n
      BY <1>1
    <3> QED
      BY <3>1, <2>1
  <2>3. d * n \in Nat /\ x * n \in Nat
    BY <1>1
  <2> HIDE DEF n
  <2> QED
    BY <1>1, <2>2, <2>3, Times
<1>3. b * n \in Nat /\ k * n \in Nat
  BY <1>1
<1>4. ~(b < k) /\ ~(k < b)
  BY <1>2, <1>3, <1>1, Times
<1> QED
  BY <1>4, <1>3, <1>1, Times

-----------------------------------------------------------------------------
(* The receiver, one lemma for each thing it can hear *)

\* What the receiver has after v, field by field
Hears(v, at, age, bits, slot, got) ==
  Hear(v) \in Receiver
    /\ Hear(v) = [at |-> at, age |-> age, bits |-> bits, slot |-> slot, got |-> got]

LEMMA ReceiverFields ==
  ASSUME NEW r \in Receiver
  PROVE  /\ r.at \in {"wait", "mark", "slot"} /\ r.age \in Nat /\ r.bits \in Seq({0, 1})
         /\ r.slot \in 0 .. LastAddress + 1 /\ r.got \in [Address -> Byte01]
BY DEF Receiver

LEMMA MakesReceiver ==
  ASSUME NEW at \in {"wait", "mark", "slot"}, NEW age \in Nat,
         NEW bits \in Seq({0, 1}), NEW slot \in 0 .. LastAddress + 1,
         NEW got \in [Address -> Byte01]
  PROVE  [at |-> at, age |-> age, bits |-> bits, slot |-> slot, got |-> got] \in Receiver
BY DEF Receiver

LEMMA HearQuiet ==
  ASSUME rx \in Receiver, rx.at \in {"wait", "mark"}, rx.age = 0
  PROVE  Hears(1, rx.at, 0, rx.bits, rx.slot, rx.got)
<1>1. ~(rx.age > (W + 1) * BitCycles)
  BY Times DEF LongLow
<1>2. Hear(1) = [rx EXCEPT !.age = 0, !.at = rx.at, !.slot = rx.slot]
  BY <1>1 DEF Hear
<1> QED
  BY <1>2 DEF Hears, Receiver

LEMMA HearBreakEnd ==
  ASSUME rx \in Receiver, rx.at = "wait", rx.age = LongLow + 1
  PROVE  Hears(1, "mark", 0, rx.bits, 0, rx.got)
<1>1. rx.age > (W + 1) * BitCycles
  BY Times DEF LongLow
<1>2. Hear(1) = [rx EXCEPT !.age = 0, !.at = "mark", !.slot = 0]
  BY <1>1 DEF Hear
<1>3. 0 \in 0 .. LastAddress + 1
  BY Times
<1>4. Hear(1) = [at |-> "mark", age |-> 0, bits |-> rx.bits, slot |-> 0, got |-> rx.got]
  BY <1>2 DEF Receiver
<1> QED
  BY <1>3, <1>4, MakesReceiver, ReceiverFields DEF Hears

LEMMA HearLow ==
  ASSUME rx \in Receiver, rx.at = "wait"
  PROVE  Hears(0, "wait", IF rx.age > LongLow THEN rx.age ELSE rx.age + 1,
               rx.bits, rx.slot, rx.got)
<1> DEFINE age == IF rx.age > LongLow THEN rx.age ELSE rx.age + 1
<1>1. age \in Nat
  BY Times, ReceiverFields
<1>2. Hear(0) = [rx EXCEPT !.age = age]
  BY DEF Hear, LongLow
<1> HIDE DEF age
<1>3. Hears(0, "wait", age, rx.bits, rx.slot, rx.got)
  BY <1>1, <1>2 DEF Hears, Receiver
<1> QED
  BY <1>3 DEF age

LEMMA HearStart ==
  ASSUME rx \in Receiver, rx.at = "mark"
  PROVE  Hears(0, "slot", 0, <<>>, rx.slot, rx.got)
<1>1. PICK none \in Seq({0, 1}) : none = <<>>
  BY EmptySeq
<1>2. Hear(0) = [rx EXCEPT !.at = "slot", !.age = 0, !.bits = none]
  BY <1>1 DEF Hear
<1>3. Hear(0) = [at |-> "slot", age |-> 0, bits |-> none, slot |-> rx.slot, got |-> rx.got]
  BY <1>2 DEF Receiver
<1>4. [at |-> "slot", age |-> 0, bits |-> none, slot |-> rx.slot, got |-> rx.got] \in Receiver
  BY ReceiverFields, SMTT(30) DEF Receiver
<1>5. Hears(0, "slot", 0, none, rx.slot, rx.got)
  BY <1>3, <1>4 DEF Hears
<1> QED
  BY <1>1, <1>5

\* Inside a slot: the bits so far, and whether they complete the slot
LEMMA HearInside ==
  ASSUME rx \in Receiver, rx.at = "slot", NEW v \in {0, 1}, NEW all \in Seq({0, 1}),
         all = IF \E k \in 1 .. LastBit : rx.age + 1 = SampleAt(k)
               THEN Append(rx.bits, v) ELSE rx.bits,
         Len(all) # LastBit
  PROVE  Hears(v, "slot", rx.age + 1, all, rx.slot, rx.got)
<1>1. Hear(v) = [rx EXCEPT !.age = rx.age + 1, !.bits = all, !.at = rx.at, !.got = rx.got,
                           !.slot = rx.slot]
  BY DEF Hear
<1>2. rx.age + 1 \in Nat
  BY ReceiverFields
<1> QED
  BY <1>1, <1>2 DEF Hears, Receiver

LEMMA HearBetween ==
  ASSUME rx \in Receiver, rx.at = "slot", NEW v \in {0, 1}, Len(rx.bits) # LastBit,
         \A k \in 1 .. LastBit : rx.age + 1 # SampleAt(k)
  PROVE  Hears(v, "slot", rx.age + 1, rx.bits, rx.slot, rx.got)
BY HearInside, ReceiverFields

LEMMA HearSample ==
  ASSUME rx \in Receiver, rx.at = "slot", NEW v \in {0, 1},
         Len(rx.bits) + 1 < LastBit,
         \E k \in 1 .. LastBit : rx.age + 1 = SampleAt(k)
  PROVE  Hears(v, "slot", rx.age + 1, Append(rx.bits, v), rx.slot, rx.got)
<1>1. Append(rx.bits, v) \in Seq({0, 1}) /\ Len(Append(rx.bits, v)) = Len(rx.bits) + 1
  BY AppendProperties, ReceiverFields
<1>2. Len(Append(rx.bits, v)) # LastBit
  BY <1>1, Times, ReceiverFields
<1> QED
  BY <1>1, <1>2, HearInside

\* The last stop bit completes the slot.
LEMMA HearLast ==
  ASSUME rx \in Receiver, rx.at = "slot", NEW v \in {0, 1}, rx.slot \in Address,
         Len(rx.bits) + 1 = LastBit, rx.bits[W + 1] = 1,
         \E k \in 1 .. LastBit : rx.age + 1 = SampleAt(k)
  PROVE  Hears(v, IF rx.slot = LastAddress THEN "wait" ELSE "mark", 0, <<>>, rx.slot + 1,
               [rx.got EXCEPT ![rx.slot] = SubSeq(rx.bits, 1, W)])
<1> DEFINE all == Append(rx.bits, v)
           at == IF rx.slot = LastAddress THEN "wait" ELSE "mark"
           got == [rx.got EXCEPT ![rx.slot] = SubSeq(rx.bits, 1, W)]
<1>1. /\ all \in Seq({0, 1}) /\ Len(all) = LastBit
      /\ \A k \in 1 .. Len(rx.bits) : all[k] = rx.bits[k]
  BY AppendProperties, Times, ReceiverFields
<1>2. all[W + 1] = 1
  BY <1>1, Times
<1>3. SubSeq(all, 1, W) = SubSeq(rx.bits, 1, W) /\ SubSeq(rx.bits, 1, W) \in Byte01
  <2>1. rx.bits \in Seq({0, 1}) /\ Len(rx.bits) = W + 1 /\ Len(all) = W + 2
    BY <1>1, Times, ReceiverFields
  <2>2. SubSeq(rx.bits, 1, W) = [k \in 1 .. W |-> rx.bits[k]]
    BY <2>1, Times
  <2>3. SubSeq(all, 1, W) = [k \in 1 .. W |-> all[k]]
    BY <2>1, <1>1, Times
  <2>4. \A k \in 1 .. W : all[k] = rx.bits[k] /\ rx.bits[k] \in {0, 1}
    BY <2>1, <1>1, Times, ElementOfSeq
  <2> HIDE DEF all
  <2> QED
    BY <2>2, <2>3, <2>4 DEF Byte01
<1>4. PICK none \in Seq({0, 1}) : none = <<>>
  BY EmptySeq
<1>5. rx.slot + 1 \in 0 .. LastAddress + 1
  BY Times DEF Address
<1>6. got \in [Address -> Byte01]
  BY <1>3, ReceiverFields
<1>7. at \in {"wait", "mark", "slot"}
  OBVIOUS
<1>8. Hear(v) = [rx EXCEPT !.age = 0, !.bits = none, !.at = at, !.got = got,
                           !.slot = rx.slot + 1]
  <2> HIDE DEF all
  <2> QED
    BY <1>1, <1>2, <1>3, <1>4 DEF Hear, all
<1> HIDE DEF all, at, got
<1>9. Hear(v) = [at |-> at, age |-> 0, bits |-> none, slot |-> rx.slot + 1, got |-> got]
  BY <1>8 DEF Receiver
<1>10. \A age \in Nat : [at |-> at, age |-> age, bits |-> none, slot |-> rx.slot + 1,
                         got |-> got] \in Receiver
  BY <1>5, <1>6, <1>7, MakesReceiver
<1>11. Hears(v, at, 0, none, rx.slot + 1, got)
  BY <1>9, <1>10 DEF Hears
<1> QED
  BY <1>4, <1>11 DEF at, got


-----------------------------------------------------------------------------
(* The array and the registers in a cycle *)

\* In every cycle, with or without a write, held keeps up with the array, and loses
\* nothing unless a break begins.
LEMMA ArrayMoves ==
  ASSUME FrameTyped, HeldCurrent, FrameNext
  PROVE  /\ DMX_data' \in [Address -> Bytes] /\ held' \in [Address -> SUBSET Byte01]
         /\ HeldCurrent'
         /\ ~(next_state = "BREAK" /\ curr_state # "BREAK") =>
              \A i \in Address : held[i] \subseteq held'[i]
<1>1. CASE Cycle
  BY <1>1, Times DEF Cycle, FrameTyped, HeldCurrent
<1>2. ASSUME NEW a \in 1 .. LastAddress, NEW v \in Bytes, CycleWithWrite(a, v)
      PROVE  /\ DMX_data' \in [Address -> Bytes] /\ held' \in [Address -> SUBSET Byte01]
             /\ HeldCurrent'
             /\ ~(next_state = "BREAK" /\ curr_state # "BREAK") =>
                  \A i \in Address : held[i] \subseteq held'[i]
  <2>1. a \in Address /\ v \in Byte01
    BY Times DEF Address
  <2>2. DMX_data' = [DMX_data EXCEPT ![a] = v]
    BY <1>2 DEF CycleWithWrite
  <2>3. \A i \in Address :
          held'[i] = (IF next_state = "BREAK" /\ curr_state # "BREAK"
                      THEN {DMX_data[i]} ELSE held[i]) \union (IF i = a THEN {v} ELSE {})
    BY <1>2 DEF CycleWithWrite
  <2>4. held' \in [Address -> SUBSET Byte01]
    BY <1>2, <2>1, Times DEF CycleWithWrite, FrameTyped
  <2>5. DMX_data' \in [Address -> Bytes]
    BY <2>1, <2>2 DEF FrameTyped
  <2>6. ASSUME NEW i \in Address PROVE DMX_data'[i] \in held'[i]
    <3>1. CASE i = a
      BY <3>1, <2>1, <2>2, <2>3 DEF FrameTyped
    <3>2. CASE i # a
      BY <3>2, <2>2, <2>3 DEF FrameTyped, HeldCurrent
    <3> QED
      BY <3>1, <3>2
  <2> QED
    BY <2>3, <2>4, <2>5, <2>6 DEF HeldCurrent
<1> QED
  BY <1>1, <1>2 DEF FrameNext

LEMMA Clocked == FrameNext => Registers /\ rx' = Hear(dmx_signal)
BY DEF FrameNext, Cycle, CycleWithWrite

\* The registers, phase by phase
LEMMA IdleClock ==
  ASSUME Registers, curr_state = "IDLE"
  PROVE  /\ timer # IDLE_TIME => curr_state' = "IDLE" /\ timer' = timer + 1
         /\ timer = IDLE_TIME => curr_state' = "BREAK" /\ timer' = 0
         /\ dmx_signal = 1
BY DEF Registers, next_state, timer_rst, Expires, dmx_signal

LEMMA BreakClock ==
  ASSUME Registers, curr_state = "BREAK"
  PROVE  /\ timer # BREAK_TIME => curr_state' = "BREAK" /\ timer' = timer + 1
         /\ timer = BREAK_TIME => curr_state' = "MAB" /\ timer' = 0 /\ frame_addr' = 0
         /\ dmx_signal = 0
BY DEF Registers, next_state, timer_rst, first_frame, Expires, dmx_signal

LEMMA MabClock ==
  ASSUME Registers, curr_state = "MAB"
  PROVE  /\ timer # MAB_TIME =>
              curr_state' = "MAB" /\ timer' = timer + 1 /\ frame_addr' = frame_addr
         /\ timer = MAB_TIME =>
              /\ curr_state' = "TRANSMIT" /\ timer' = 0 /\ frame_addr' = frame_addr + 1
              /\ bit_count' = 0 /\ shift_reg' = Loaded
         /\ dmx_signal = 1
BY DEF Registers, next_state, timer_rst, first_frame, next_frame, Expires, dmx_signal

LEMMA TransmitClock ==
  ASSUME Registers, curr_state = "TRANSMIT"
  PROVE  /\ timer # BIT_TIME =>
              /\ curr_state' = "TRANSMIT" /\ timer' = timer + 1 /\ frame_addr' = frame_addr
              /\ bit_count' = bit_count /\ shift_reg' = shift_reg
         /\ timer = BIT_TIME /\ bit_count # LastBit =>
              /\ curr_state' = "TRANSMIT" /\ timer' = 0 /\ frame_addr' = frame_addr
              /\ bit_count' = bit_count + 1 /\ shift_reg' = Append(Tail(shift_reg), 0)
         /\ timer = BIT_TIME /\ bit_count = LastBit /\ frame_addr # LastAddress + 1 =>
              /\ curr_state' = "TRANSMIT" /\ timer' = 0 /\ frame_addr' = frame_addr + 1
              /\ bit_count' = 0 /\ shift_reg' = Loaded
         /\ timer = BIT_TIME /\ bit_count = LastBit /\ frame_addr = LastAddress + 1 =>
              curr_state' = "IDLE" /\ timer' = 0
         /\ dmx_signal = shift_reg[1]
BY DEF Registers, next_state, timer_rst, first_frame, next_frame, shift_bit, Expires,
       dmx_signal

\* What is loaded is the slot of the value that the address holds.
LEMMA LoadedSlot ==
  ASSUME NEW v \in Byte01, v = DMX_data[frame_addr]
  PROVE  /\ Loaded \in Seq({0, 1}) /\ Len(Loaded) = LastBit + 1
         /\ \A j \in 1 .. LastBit + 1 : Loaded[j] = SlotBit(v, j - 1)
<1>1. v \in Seq({0, 1}) /\ Len(v) = W
  BY Times DEF Byte01
<1>2. <<0>> \in Seq({0, 1}) /\ Len(<<0>>) = 1 /\ <<1, 1>> \in Seq({0, 1}) /\ Len(<<1, 1>>) = 2
  OBVIOUS
<1> DEFINE front == <<0>> \o v
<1>3. /\ front \in Seq({0, 1}) /\ Len(front) = W + 1
      /\ \A j \in 1 .. W + 1 : front[j] = IF j = 1 THEN 0 ELSE v[j - 1]
  BY <1>1, <1>2, ConcatProperties, Times
<1> HIDE DEF front
<1>4. /\ front \o <<1, 1>> \in Seq({0, 1}) /\ Len(front \o <<1, 1>>) = W + 3
      /\ \A j \in 1 .. W + 3 :
           (front \o <<1, 1>>)[j] = IF j <= W + 1 THEN front[j] ELSE <<1, 1>>[j - W - 1]
  BY <1>2, <1>3, ConcatProperties, Times
<1>5. Loaded = front \o <<1, 1>>
  BY DEF Loaded, front
<1>6. ASSUME NEW j \in 1 .. W + 3 PROVE Loaded[j] = SlotBit(v, j - 1)
  <2>1. CASE j <= W + 1
    BY <2>1, <1>3, <1>4, <1>5, Times DEF SlotBit
  <2>2. CASE j = W + 2 \/ j = W + 3
    BY <2>2, <1>4, <1>5, Times DEF SlotBit
  <2> QED
    BY <2>1, <2>2, Times
<1> QED
  BY <1>4, <1>5, <1>6, Times

LEMMA Shifted ==
  ASSUME NEW s \in Seq({0, 1}), Len(s) = LastBit + 1
  PROVE  LET t == Append(Tail(s), 0)
         IN  /\ t \in Seq({0, 1}) /\ Len(t) = LastBit + 1
             /\ \A j \in 1 .. LastBit : t[j] = s[j + 1]
<1>1. Tail(s) \in Seq({0, 1}) /\ Len(Tail(s)) = LastBit /\ \A j \in 1 .. LastBit : Tail(s)[j] = s[j + 1]
  <2>1. s # <<>>
    BY Times
  <2> QED
    BY <2>1, HeadTailProperties, Times
<1> QED
  BY <1>1, AppendProperties, Times

-----------------------------------------------------------------------------
(* The phases *)

\* The slot the receiver is at moves on by one, or from the last of a packet.
SlotMoves == rx'.slot # rx.slot => rx'.slot = rx.slot + 1 \/ rx.slot = LastAddress + 1

LEMMA FrameInitHolds == FrameInit => FrameInv
<1> SUFFICES ASSUME FrameInit PROVE FrameInv
  OBVIOUS
<1>1. <<>> \in Seq({0, 1}) /\ 0 \in Nat /\ 0 \in 0 .. LastAddress + 1
  BY EmptySeq, Times
<1>2. [i \in Address |-> Zero] \in [Address -> Byte01]
  BY Times
<1>3. rx \in Receiver
  BY <1>1, <1>2, MakesReceiver DEF FrameInit
<1>4. FrameTyped /\ HeldCurrent
  BY <1>3, Times, DmxFrameAssumption DEF FrameInit, FrameTyped, HeldCurrent
<1>5. rx.at = "wait" /\ rx.age = 0 /\ rx.slot = 0 /\ curr_state = "IDLE" /\ timer = 0
  BY DEF FrameInit
<1> QED
  BY <1>4, <1>5, Times
     DEF FrameInv, InIdle, Waiting, InBreak, InMab, InTransmit, GotFaithful

LEMMA IdleStep ==
  ASSUME FrameInv, FrameNext, curr_state = "IDLE"
  PROVE  FrameInv' /\ SlotMoves
<1>1. Registers /\ rx' = Hear(1)
  BY Clocked, IdleClock
<1>2. timer \in 0 .. IDLE_TIME /\ Waiting /\ rx.age = 0 /\ rx \in Receiver
  BY DEF FrameInv, InIdle, FrameTyped
<1>3. rx' \in Receiver /\ rx'.at = "wait" /\ rx'.age = 0 /\ rx'.slot = rx.slot /\ rx'.got = rx.got
  BY <1>1, <1>2, HearQuiet DEF Hears, Waiting
<1>4. FrameTyped' /\ HeldCurrent'
  BY <1>3, ArrayMoves DEF FrameInv, FrameTyped
<1>5. Waiting' /\ SlotMoves
  BY <1>2, <1>3 DEF Waiting, SlotMoves
<1>6. CASE timer # IDLE_TIME
  <2>1. curr_state' = "IDLE" /\ timer' \in 0 .. IDLE_TIME
    BY <1>1, <1>2, <1>6, IdleClock, Times
  <2>2. \A i \in Address : held[i] \subseteq held'[i]
    BY <1>1, <2>1, ArrayMoves DEF FrameInv, Registers
  <2>3. GotFaithful'
    <3>1. \A i \in 0 .. rx.slot - 1 : rx.got[i] \in held[i] /\ i \in Address
      BY <1>2, ReceiverFields, Times DEF FrameInv, GotFaithful, Address
    <3> QED
      BY <3>1, <2>2, <1>3 DEF GotFaithful
  <2> QED
    BY <1>3, <1>4, <1>5, <2>1, <2>3 DEF FrameInv, InIdle, InBreak, InMab, InTransmit
<1>7. CASE timer = IDLE_TIME
  <2>1. curr_state' = "BREAK" /\ timer' = 0
    BY <1>1, <1>7, IdleClock
  <2> QED
    BY <1>3, <1>4, <1>5, <2>1, Times
       DEF FrameInv, InIdle, InBreak, InMab, InTransmit, GotFaithful
<1> QED
  BY <1>6, <1>7

LEMMA BreakStep ==
  ASSUME FrameInv, FrameNext, curr_state = "BREAK"
  PROVE  FrameInv' /\ SlotMoves
<1>1. Registers /\ rx' = Hear(0)
  BY Clocked, BreakClock
<1>2. /\ timer \in 0 .. BREAK_TIME /\ Waiting /\ rx \in Receiver
      /\ rx.age = IF timer > LongLow THEN LongLow + 1 ELSE timer
  BY DEF FrameInv, InBreak, FrameTyped
<1>3. /\ rx' \in Receiver /\ rx'.at = "wait" /\ rx'.slot = rx.slot
      /\ rx'.age = IF rx.age > LongLow THEN rx.age ELSE rx.age + 1
  BY <1>1, <1>2, HearLow DEF Hears, Waiting
<1>4. FrameTyped' /\ HeldCurrent'
  BY <1>3, ArrayMoves DEF FrameInv, FrameTyped
<1>5. Waiting' /\ SlotMoves
  BY <1>2, <1>3 DEF Waiting, SlotMoves
<1>6. CASE timer # BREAK_TIME
  <2>1. curr_state' = "BREAK" /\ timer' = timer + 1
    BY <1>1, <1>6, BreakClock
  <2>2. timer' \in 0 .. BREAK_TIME /\ rx'.age = IF timer' > LongLow THEN LongLow + 1 ELSE timer'
    BY <1>2, <1>3, <1>6, <2>1, Times
  <2> QED
    BY <1>4, <1>5, <2>1, <2>2
       DEF FrameInv, InIdle, InBreak, InMab, InTransmit, GotFaithful
<1>7. CASE timer = BREAK_TIME
  <2>1. curr_state' = "MAB" /\ timer' = 0 /\ frame_addr' = 0
    BY <1>1, <1>7, BreakClock
  <2>2. rx'.age = LongLow + 1
    BY <1>2, <1>3, <1>7, Times
  <2> QED
    BY <1>4, <1>5, <2>1, <2>2, Times
       DEF FrameInv, InIdle, InBreak, InMab, InTransmit, GotFaithful
<1> QED
  BY <1>6, <1>7

\* A slot begins: whatever address is next, its value is in the shift register.
LEMMA SlotBegins ==
  ASSUME FrameInv, FrameNext, curr_state' = "TRANSMIT", timer' = 0, bit_count' = 0,
         frame_addr \in Address, frame_addr' = frame_addr + 1, shift_reg' = Loaded,
         \A i \in Address : held[i] \subseteq held'[i],
         rx'.at = "mark", rx'.age = 0, rx'.slot = frame_addr
  PROVE  InTransmit'
<1>1. PICK v \in Byte01 : v = DMX_data[frame_addr] /\ v \in held'[frame_addr]
  BY Times DEF FrameInv, FrameTyped, HeldCurrent
<1>2. /\ shift_reg' \in Seq({0, 1}) /\ Len(shift_reg') = LastBit + 1
      /\ \A j \in 1 .. LastBit + 1 : shift_reg'[j] = SlotBit(v, j - 1)
  BY <1>1, LoadedSlot
<1>3. Carries(v)'
  <2>1. \A j \in 1 .. LastBit + 1 - bit_count' : shift_reg'[j] = SlotBit(v, bit_count' + j - 1)
    BY <1>2, Times
  <2> QED
    BY <2>1 DEF Carries, SlotBit
<1>4. frame_addr' \in 1 .. LastAddress + 1 /\ frame_addr' - 1 = frame_addr
  BY Times DEF Address
<1>5. BeforeStart' /\ ~PastSample'
  BY Times DEF BeforeStart, PastSample
<1> QED
  BY <1>1, <1>2, <1>3, <1>4, <1>5, Times DEF InTransmit

LEMMA MabStep ==
  ASSUME FrameInv, FrameNext, curr_state = "MAB"
  PROVE  FrameInv' /\ SlotMoves
<1>1. Registers /\ rx' = Hear(1)
  BY Clocked, MabClock
<1>2. /\ timer \in 0 .. MAB_TIME /\ frame_addr = 0 /\ rx \in Receiver
      /\ timer = 0 => Waiting /\ rx.age = LongLow + 1
      /\ timer > 0 => rx.at = "mark" /\ rx.age = 0 /\ rx.slot = 0
  BY DEF FrameInv, InMab, FrameTyped
<1>3. /\ rx' \in Receiver /\ rx'.at = "mark" /\ rx'.age = 0 /\ rx'.slot = 0 /\ SlotMoves
  <2>1. CASE timer = 0
    BY <2>1, <1>1, <1>2, HearBreakEnd DEF Hears, Waiting, SlotMoves
  <2>2. CASE timer > 0
    BY <2>2, <1>1, <1>2, HearQuiet DEF Hears, SlotMoves
  <2> QED
    BY <2>1, <2>2, <1>2
<1>4. FrameTyped' /\ HeldCurrent'
  BY <1>3, ArrayMoves DEF FrameInv, FrameTyped
<1>5. CASE timer # MAB_TIME
  <2>1. curr_state' = "MAB" /\ timer' \in 0 .. MAB_TIME /\ timer' > 0 /\ frame_addr' = 0
    BY <1>1, <1>2, <1>5, MabClock, Times
  <2> QED
    BY <1>3, <1>4, <2>1 DEF FrameInv, InIdle, InBreak, InMab, InTransmit, GotFaithful
<1>6. CASE timer = MAB_TIME
  <2>1. /\ curr_state' = "TRANSMIT" /\ timer' = 0 /\ frame_addr' = frame_addr + 1
        /\ bit_count' = 0 /\ shift_reg' = Loaded
    BY <1>1, <1>6, MabClock
  <2>2. \A i \in Address : held[i] \subseteq held'[i]
    BY <1>1, <2>1, ArrayMoves DEF FrameInv, Registers
  <2>3. InTransmit'
    BY <1>2, <1>3, <2>1, <2>2, SlotBegins, Times DEF Address
  <2> QED
    BY <1>3, <1>4, <2>1, <2>3 DEF FrameInv, InIdle, InBreak, InMab, GotFaithful
<1> QED
  BY <1>5, <1>6

\* What the phase knows, with the value of the slot named
Transmitting(v) ==
  /\ FrameInv /\ FrameNext /\ curr_state = "TRANSMIT" /\ rx' = Hear(shift_reg[1])
  /\ timer \in 0 .. BIT_TIME /\ bit_count \in 0 .. LastBit
  /\ frame_addr \in 1 .. LastAddress + 1 /\ rx \in Receiver
  /\ shift_reg \in Seq({0, 1}) /\ Len(shift_reg) = LastBit + 1
  /\ v \in held[frame_addr - 1] /\ Carries(v)
  /\ shift_reg[1] = SlotBit(v, bit_count) /\ shift_reg[1] \in {0, 1}

LEMMA TransmitFacts ==
  ASSUME FrameInv, FrameNext, curr_state = "TRANSMIT"
  PROVE  \E v \in Byte01 : Transmitting(v)
<1>1. Registers /\ rx' = Hear(shift_reg[1])
  BY Clocked, TransmitClock
<1>2. /\ timer \in 0 .. BIT_TIME /\ bit_count \in 0 .. LastBit
      /\ frame_addr \in 1 .. LastAddress + 1 /\ rx \in Receiver
      /\ shift_reg \in Seq({0, 1}) /\ Len(shift_reg) = LastBit + 1
  BY DEF FrameInv, InTransmit, FrameTyped
<1>3. PICK v \in held[frame_addr - 1] : Carries(v)
  BY DEF FrameInv, InTransmit
<1>4. v \in Byte01
  BY <1>2, <1>3, Times DEF FrameInv, FrameTyped, Address
<1>5. shift_reg[1] = SlotBit(v, bit_count)
  <2>1. 1 \in 1 .. LastBit + 1 - bit_count /\ bit_count + 1 - 1 = bit_count
    BY <1>2, Times
  <2> QED
    BY <2>1, <1>3 DEF Carries
<1>6. shift_reg[1] \in {0, 1}
  BY <1>2, Times, ElementOfSeq
<1> QED
  BY <1>1, <1>2, <1>3, <1>4, <1>5, <1>6 DEF Transmitting

\* While the slots go out, held only grows.
LEMMA TransmitHolds ==
  ASSUME FrameInv, FrameNext, curr_state = "TRANSMIT", rx' \in Receiver
  PROVE  FrameTyped' /\ HeldCurrent' /\ \A i \in Address : held[i] \subseteq held'[i]
<1>1. next_state # "BREAK"
  BY DEF next_state, Expires
<1> QED
  BY <1>1, ArrayMoves DEF FrameInv, FrameTyped

\* A cycle in which no slot is completed keeps the slots that were heard.
LEMMA HeardSame ==
  ASSUME FrameInv, rx'.slot = rx.slot, rx'.got = rx.got, curr_state = "TRANSMIT",
         \A i \in Address : held[i] \subseteq held'[i]
  PROVE  GotFaithful' /\ SlotMoves
<1>1. \A i \in 0 .. rx.slot - 1 : rx.got[i] \in held[i] /\ i \in Address
  BY ReceiverFields, Times DEF FrameInv, FrameTyped, GotFaithful, Address
<1> QED
  BY <1>1 DEF GotFaithful, SlotMoves

LEMMA StartStep ==
  ASSUME NEW v \in Byte01, Transmitting(v), BeforeStart
  PROVE  FrameInv' /\ SlotMoves
<1>1. rx.at = "mark" /\ rx.age = 0 /\ rx.slot = frame_addr - 1 /\ shift_reg[1] = 0
  BY DEF Transmitting, FrameInv, InTransmit, BeforeStart, SlotBit
<1>2. /\ rx' \in Receiver /\ rx'.at = "slot" /\ rx'.age = 0 /\ rx'.bits = <<>>
      /\ rx'.slot = rx.slot /\ rx'.got = rx.got
  BY <1>1, HearStart DEF Hears, Transmitting
<1>3. /\ curr_state' = "TRANSMIT" /\ timer' = 1 /\ frame_addr' = frame_addr
      /\ bit_count' = bit_count /\ shift_reg' = shift_reg
  BY Clocked, TransmitClock, Times DEF Transmitting, BeforeStart
<1>4. FrameTyped' /\ HeldCurrent' /\ \A i \in Address : held[i] \subseteq held'[i]
  BY <1>2, TransmitHolds DEF Transmitting
<1>5. GotFaithful' /\ SlotMoves
  BY <1>2, <1>4, HeardSame DEF Transmitting
<1>6. v \in held'[frame_addr' - 1] /\ Carries(v)'
  BY <1>2, <1>3, <1>4, Times DEF Transmitting, Carries, Address
<1>7. ~BeforeStart' /\ ~PastSample' /\ Sampled' = 0
  BY <1>3, Times DEF BeforeStart, PastSample, Sampled
<1>8. rx'.age = bit_count' * BitCycles + timer' - 1
  BY <1>2, <1>3, Times DEF BeforeStart, BitCycles
<1>9. InTransmit'
  BY <1>1, <1>2, <1>3, <1>6, <1>7, <1>8, Times DEF InTransmit, Transmitting
<1> QED
  BY <1>3, <1>4, <1>5, <1>9 DEF FrameInv, InIdle, InBreak, InMab

\* Past the sample of the last stop bit the line is high until the next slot or the end.
LEMMA PastStep ==
  ASSUME NEW v \in Byte01, Transmitting(v), PastSample
  PROVE  FrameInv' /\ SlotMoves
<1>1. /\ rx.at = IF frame_addr = LastAddress + 1 THEN "wait" ELSE "mark"
      /\ rx.age = 0 /\ rx.slot = frame_addr /\ shift_reg[1] = 1
  BY Times DEF Transmitting, FrameInv, InTransmit, PastSample, SlotBit
<1>2. /\ rx' \in Receiver /\ rx'.at = rx.at /\ rx'.age = 0
      /\ rx'.slot = rx.slot /\ rx'.got = rx.got
  BY <1>1, HearQuiet DEF Hears, Transmitting
<1>3. FrameTyped' /\ HeldCurrent' /\ \A i \in Address : held[i] \subseteq held'[i]
  BY <1>2, TransmitHolds DEF Transmitting
<1>4. GotFaithful' /\ SlotMoves
  BY <1>2, <1>3, HeardSame DEF Transmitting
<1>5. CASE timer # BIT_TIME
  <2>1. /\ curr_state' = "TRANSMIT" /\ timer' = timer + 1 /\ frame_addr' = frame_addr
        /\ bit_count' = bit_count /\ shift_reg' = shift_reg
    BY <1>5, Clocked, TransmitClock DEF Transmitting
  <2>2. PastSample' /\ ~BeforeStart' /\ timer' \in 0 .. BIT_TIME
    BY <2>1, <1>5, Times DEF PastSample, BeforeStart, Transmitting
  <2>3. v \in held'[frame_addr' - 1] /\ Carries(v)'
    BY <1>1, <1>2, <1>3, <2>1, Times DEF Transmitting, Carries, Address
  <2>4. InTransmit'
    BY <1>1, <1>2, <2>1, <2>2, <2>3 DEF InTransmit, Transmitting
  <2> QED
    BY <2>1, <2>4, <1>3, <1>4 DEF FrameInv, InIdle, InBreak, InMab
<1>6. CASE timer = BIT_TIME /\ frame_addr # LastAddress + 1
  <2>1. /\ curr_state' = "TRANSMIT" /\ timer' = 0 /\ frame_addr' = frame_addr + 1
        /\ bit_count' = 0 /\ shift_reg' = Loaded
    BY <1>6, Clocked, TransmitClock DEF Transmitting, PastSample
  <2>2. frame_addr \in Address
    BY <1>6, Times DEF Transmitting, Address
  <2>3. InTransmit'
    BY <1>1, <1>2, <1>3, <1>6, <2>1, <2>2, SlotBegins DEF Transmitting
  <2> QED
    BY <2>1, <2>3, <1>3, <1>4 DEF FrameInv, InIdle, InBreak, InMab
<1>7. CASE timer = BIT_TIME /\ frame_addr = LastAddress + 1
  <2>1. curr_state' = "IDLE" /\ timer' = 0
    BY <1>7, Clocked, TransmitClock DEF Transmitting, PastSample
  <2>2. InIdle'
    BY <2>1, <1>1, <1>2, <1>7, Times DEF InIdle, Waiting
  <2> QED
    BY <2>1, <2>2, <1>3, <1>4 DEF FrameInv, InTransmit, InBreak, InMab
<1> QED
  BY <1>5, <1>6, <1>7


\* Inside a slot the receiver is in step with the serializer.
LEMMA InsideFacts ==
  ASSUME NEW v \in Byte01, Transmitting(v), ~BeforeStart, ~PastSample
  PROVE  /\ rx.at = "slot" /\ rx.slot = frame_addr - 1 /\ Len(rx.bits) = Sampled
         /\ bit_count * BitCycles \in Nat
         /\ rx.age = bit_count * BitCycles + timer - 1
         /\ rx.age + 1 = bit_count * BitCycles + timer
         /\ \A k \in 1 .. Len(rx.bits) : rx.bits[k] = SlotBit(v, k)
         /\ rx.bits \in Seq({0, 1}) /\ rx.slot \in Address
<1>1. rx.at = "slot" /\ rx.slot = frame_addr - 1 /\ Len(rx.bits) = Sampled
      /\ rx.age = bit_count * BitCycles + timer - 1
  BY DEF Transmitting, FrameInv, InTransmit
<1>2. bit_count * BitCycles \in Nat
  BY Times DEF Transmitting, BitCycles
<1>3. timer \in Nat
  BY Times DEF Transmitting
<1>4. \A k \in 1 .. Len(rx.bits) : rx.bits[k] = SlotBit(v, k)
  BY <1>1 DEF Transmitting, Carries
<1>5. rx.slot \in Address
  BY <1>1, Times DEF Transmitting, Address
<1>6. rx.age + 1 = bit_count * BitCycles + timer
  BY <1>1, <1>2, <1>3
<1> QED
  BY <1>1, <1>2, <1>4, <1>5, <1>6, ReceiverFields DEF Transmitting

\* The receiver samples in the middle of each bit but the first, and nowhere else.
LEMMA SampleMoment ==
  ASSUME NEW v \in Byte01, Transmitting(v), ~BeforeStart, ~PastSample
  PROVE  (\E k \in 1 .. LastBit : rx.age + 1 = SampleAt(k))
           <=> bit_count # 0 /\ timer = BIT_TIME \div 2
<1>1. ASSUME NEW k \in 1 .. LastBit, rx.age + 1 = SampleAt(k)
      PROVE  bit_count # 0 /\ timer = BIT_TIME \div 2
  <2>1. bit_count * BitCycles + timer = k * BitCycles + BIT_TIME \div 2
    BY <1>1, InsideFacts DEF SampleAt
  <2>2. BIT_TIME \div 2 \in 0 .. BIT_TIME /\ bit_count \in Nat /\ k \in Nat
        /\ timer \in 0 .. BIT_TIME
    <3>1. BIT_TIME \div 2 \in 0 .. BIT_TIME /\ LastBit \in Nat
      BY Times
    <3>2. timer \in 0 .. BIT_TIME /\ bit_count \in 0 .. LastBit
      BY DEF Transmitting
    <3> QED
      BY <3>1, <3>2
  <2>3. bit_count = k /\ timer = BIT_TIME \div 2
    BY <2>1, <2>2, SameCycle
  <2> QED
    BY <2>3, Times
<1>2. ASSUME bit_count # 0, timer = BIT_TIME \div 2
      PROVE  bit_count \in 1 .. LastBit /\ rx.age + 1 = SampleAt(bit_count)
  BY <1>2, InsideFacts, Times DEF SampleAt, Transmitting
<1> QED
  BY <1>1, <1>2

\* What a cycle inside a slot must give, when the slot goes on.
LEMMA InsideGoesOn ==
  ASSUME NEW v \in Byte01, Transmitting(v), ~BeforeStart, ~PastSample,
         NEW bits \in Seq({0, 1}),
         Hears(shift_reg[1], "slot", rx.age + 1, bits, rx.slot, rx.got),
         \A k \in 1 .. Len(bits) : bits[k] = SlotBit(v, k),
         curr_state' = "TRANSMIT", frame_addr' = frame_addr,
         timer' \in 0 .. BIT_TIME, bit_count' \in 0 .. LastBit,
         shift_reg' \in Seq({0, 1}), Len(shift_reg') = LastBit + 1,
         \A j \in 1 .. LastBit + 1 - bit_count' :
            shift_reg'[j] = SlotBit(v, bit_count' + j - 1),
         rx.age + 1 = bit_count' * BitCycles + timer' - 1,
         ~BeforeStart', ~PastSample', Len(bits) = Sampled'
  PROVE  FrameInv' /\ SlotMoves
<1>1. /\ rx' \in Receiver /\ rx'.at = "slot" /\ rx'.age = rx.age + 1 /\ rx'.bits = bits
      /\ rx'.slot = rx.slot /\ rx'.got = rx.got
  BY DEF Hears, Transmitting
<1>2. FrameTyped' /\ HeldCurrent' /\ \A i \in Address : held[i] \subseteq held'[i]
  BY <1>1, TransmitHolds DEF Transmitting
<1>3. GotFaithful' /\ SlotMoves
  BY <1>1, <1>2, HeardSame DEF Transmitting
<1>4. v \in held'[frame_addr' - 1] /\ frame_addr' \in 1 .. LastAddress + 1
  BY <1>2, Times DEF Transmitting, Address
<1>5. Carries(v)'
  BY <1>1 DEF Carries
<1>6. rx.slot = frame_addr - 1
  BY InsideFacts
<1>7. InTransmit'
  BY <1>1, <1>4, <1>5, <1>6 DEF InTransmit
<1> QED
  BY <1>2, <1>3, <1>7 DEF FrameInv, InIdle, InBreak, InMab

\* Between the samples
LEMMA BetweenStep ==
  ASSUME NEW v \in Byte01, Transmitting(v), ~BeforeStart, ~PastSample,
         ~(bit_count # 0 /\ timer = BIT_TIME \div 2)
  PROVE  FrameInv' /\ SlotMoves
<1>1. timer \in 0 .. BIT_TIME /\ bit_count \in 0 .. LastBit
  BY DEF Transmitting
<1>2. Sampled # LastBit
  BY <1>1, Times DEF Sampled, PastSample
<1>3. Hears(shift_reg[1], "slot", rx.age + 1, rx.bits, rx.slot, rx.got)
  BY <1>2, InsideFacts, SampleMoment, HearBetween DEF Transmitting
<1>4. CASE timer # BIT_TIME
  <2>1. /\ curr_state' = "TRANSMIT" /\ timer' = timer + 1 /\ frame_addr' = frame_addr
        /\ bit_count' = bit_count /\ shift_reg' = shift_reg
    BY <1>4, Clocked, TransmitClock DEF Transmitting
  <2>2. timer' \in 0 .. BIT_TIME
    BY <1>1, <1>4, <2>1, Times
  <2>3. rx.age + 1 = bit_count' * BitCycles + timer' - 1
    BY <1>1, <2>1, InsideFacts, Times
  <2>4. ~BeforeStart' /\ ~PastSample' /\ Sampled' = Sampled
    BY <1>1, <1>4, <2>1, Times DEF BeforeStart, PastSample, Sampled
  <2>5. \A j \in 1 .. LastBit + 1 - bit_count' :
           shift_reg'[j] = SlotBit(v, bit_count' + j - 1)
    BY <2>1 DEF Transmitting, Carries
  <2> QED
    BY <1>1, <1>3, <2>1, <2>2, <2>3, <2>4, <2>5, InsideFacts, InsideGoesOn DEF Transmitting
<1>5. CASE timer = BIT_TIME
  <2>1. bit_count # LastBit
    BY <1>5, Times DEF PastSample
  <2>2. /\ curr_state' = "TRANSMIT" /\ timer' = 0 /\ frame_addr' = frame_addr
        /\ bit_count' = bit_count + 1 /\ shift_reg' = Append(Tail(shift_reg), 0)
    BY <1>5, <2>1, Clocked, TransmitClock DEF Transmitting
  <2>3. /\ shift_reg' \in Seq({0, 1}) /\ Len(shift_reg') = LastBit + 1
        /\ \A j \in 1 .. LastBit : shift_reg'[j] = shift_reg[j + 1]
    BY <2>2, Shifted DEF Transmitting
  <2>4. rx.age + 1 = bit_count' * BitCycles + timer' - 1
    <3>1. (bit_count + 1) * BitCycles = bit_count * BitCycles + BitCycles
      BY <1>1, Times DEF BitCycles
    <3>2. BitCycles = BIT_TIME + 1
      BY DEF BitCycles
    <3> QED
      BY <3>1, <3>2, <2>2, <1>5, InsideFacts, Times
  <2>5. ~BeforeStart' /\ ~PastSample' /\ Sampled' = Sampled
    BY <1>1, <1>5, <2>2, Times DEF BeforeStart, PastSample, Sampled
  <2>6. ASSUME NEW j \in 1 .. LastBit + 1 - bit_count'
        PROVE  shift_reg'[j] = SlotBit(v, bit_count' + j - 1)
    <3>1. /\ j \in 1 .. LastBit /\ j + 1 \in 1 .. LastBit + 1 - bit_count
          /\ bit_count + (j + 1) - 1 = bit_count' + j - 1
      BY <1>1, <2>2, Times
    <3>2. shift_reg[j + 1] = SlotBit(v, bit_count + (j + 1) - 1)
      BY <3>1 DEF Transmitting, Carries
    <3> QED
      BY <3>1, <3>2, <2>3
  <2>7. timer' \in 0 .. BIT_TIME /\ bit_count' \in 0 .. LastBit
    BY <1>1, <2>1, <2>2, Times
  <2> QED
    BY <1>3, <2>2, <2>3, <2>4, <2>5, <2>6, <2>7, InsideFacts, InsideGoesOn
<1> QED
  BY <1>4, <1>5

\* A sample before the last
LEMMA SampleStep ==
  ASSUME NEW v \in Byte01, Transmitting(v), ~BeforeStart, ~PastSample,
         bit_count # 0, timer = BIT_TIME \div 2, bit_count # LastBit
  PROVE  FrameInv' /\ SlotMoves
<1>1. timer \in 0 .. BIT_TIME /\ bit_count \in 0 .. LastBit /\ timer # BIT_TIME
  BY Times DEF Transmitting
<1>2. Len(rx.bits) = bit_count - 1
  BY <1>1, InsideFacts, Times DEF Sampled
<1>3. \E k \in 1 .. LastBit : rx.age + 1 = SampleAt(k)
  BY SampleMoment
<1> DEFINE bits == Append(rx.bits, shift_reg[1])
<1>4. Hears(shift_reg[1], "slot", rx.age + 1, bits, rx.slot, rx.got)
  <2>1. Len(rx.bits) + 1 < LastBit
    BY <1>1, <1>2, Times
  <2>2. shift_reg[1] \in {0, 1} /\ rx \in Receiver
    BY DEF Transmitting
  <2>3. rx.at = "slot"
    BY InsideFacts
  <2> QED
    BY <1>3, <2>1, <2>2, <2>3, HearSample
<1>5. /\ bits \in Seq({0, 1}) /\ Len(bits) = bit_count
      /\ \A k \in 1 .. bit_count - 1 : bits[k] = rx.bits[k]
      /\ bits[bit_count] = shift_reg[1]
  BY <1>1, <1>2, InsideFacts, AppendProperties, Times DEF Transmitting
<1>6. \A k \in 1 .. Len(bits) : bits[k] = SlotBit(v, k)
  <2> HIDE DEF bits
  <2>1. \A k \in 1 .. bit_count - 1 : bits[k] = SlotBit(v, k)
    BY <1>2, <1>5, InsideFacts
  <2>2. bits[bit_count] = SlotBit(v, bit_count)
    BY <1>5 DEF Transmitting
  <2>3. bit_count \in Nat /\ Len(bits) = bit_count
    BY <1>5, <1>1, Times
  <2>4. ASSUME NEW k \in 1 .. Len(bits) PROVE bits[k] = SlotBit(v, k)
    <3>1. k \in 1 .. bit_count - 1 \/ k = bit_count
      BY <2>3
    <3> QED
      BY <3>1, <2>1, <2>2
  <2> QED
    BY <2>4
<1>7. /\ curr_state' = "TRANSMIT" /\ timer' = timer + 1 /\ frame_addr' = frame_addr
      /\ bit_count' = bit_count /\ shift_reg' = shift_reg
  BY <1>1, Clocked, TransmitClock DEF Transmitting
<1>8. timer' \in 0 .. BIT_TIME
  BY <1>1, <1>7, Times
<1>9. rx.age + 1 = bit_count' * BitCycles + timer' - 1
  BY <1>1, <1>7, InsideFacts, Times
<1>10. ~BeforeStart' /\ ~PastSample' /\ Sampled' = bit_count
  BY <1>1, <1>7, Times DEF BeforeStart, PastSample, Sampled
<1>11. \A j \in 1 .. LastBit + 1 - bit_count' :
         shift_reg'[j] = SlotBit(v, bit_count' + j - 1)
  BY <1>7 DEF Transmitting, Carries
<1> HIDE DEF bits
<1> QED
  BY <1>1, <1>4, <1>5, <1>6, <1>7, <1>8, <1>9, <1>10, <1>11, InsideGoesOn DEF Transmitting

\* The last sample: the slot is complete, and it is the value.
LEMMA LastSampleStep ==
  ASSUME NEW v \in Byte01, Transmitting(v), ~BeforeStart, ~PastSample,
         timer = BIT_TIME \div 2, bit_count = LastBit
  PROVE  FrameInv' /\ SlotMoves
<1>1. bit_count # 0 /\ timer # BIT_TIME /\ timer \in 0 .. BIT_TIME
  BY Times DEF Transmitting
<1>2. Len(rx.bits) = W + 1
  BY <1>1, InsideFacts, Times DEF Sampled
<1>3. \E k \in 1 .. LastBit : rx.age + 1 = SampleAt(k)
  BY <1>1, SampleMoment
<1>4. rx.bits[W + 1] = 1
  BY <1>2, InsideFacts, Times DEF SlotBit
<1>5. SubSeq(rx.bits, 1, W) = v
  <2>1. SubSeq(rx.bits, 1, W) = [k \in 1 .. W |-> rx.bits[k]]
    BY <1>2, InsideFacts, Times
  <2>2. ASSUME NEW k \in 1 .. W PROVE rx.bits[k] = v[k]
    <3>1. k \in 1 .. Len(rx.bits) /\ k # 0 /\ k <= W
      BY <1>2, Times
    <3> QED
      BY <3>1, InsideFacts DEF SlotBit
  <2>3. v = [k \in 1 .. W |-> v[k]]
    BY DEF Byte01
  <2> QED
    BY <2>1, <2>2, <2>3
<1>6. Hears(shift_reg[1], IF rx.slot = LastAddress THEN "wait" ELSE "mark", 0, <<>>,
            rx.slot + 1, [rx.got EXCEPT ![rx.slot] = v])
  <2>1. Len(rx.bits) + 1 = LastBit
    BY <1>2, Times
  <2> QED
    BY <2>1, <1>3, <1>4, <1>5, InsideFacts, HearLast DEF Transmitting
<1>7. /\ rx' \in Receiver /\ rx'.at = (IF rx.slot = LastAddress THEN "wait" ELSE "mark")
      /\ rx'.age = 0 /\ rx'.slot = rx.slot + 1 /\ rx'.got = [rx.got EXCEPT ![rx.slot] = v]
  BY <1>6 DEF Hears, Transmitting
<1>8. rx.slot = frame_addr - 1 /\ rx.slot \in Address /\ rx'.slot = frame_addr
      /\ (rx.slot = LastAddress <=> frame_addr = LastAddress + 1)
  BY <1>7, InsideFacts, Times DEF Transmitting, Address
<1>9. FrameTyped' /\ HeldCurrent' /\ \A i \in Address : held[i] \subseteq held'[i]
  BY <1>7, TransmitHolds DEF Transmitting
<1>10. SlotMoves
  BY <1>7 DEF SlotMoves
<1>11. GotFaithful'
  <2>1. ASSUME NEW i \in 0 .. rx'.slot - 1 PROVE rx'.got[i] \in held'[i]
    <3>1. rx.got \in [Address -> Byte01]
      BY ReceiverFields DEF Transmitting
    <3>2. i \in 0 .. rx.slot /\ i \in Address
      BY <1>7, <1>8, Times DEF Address
    <3>3. CASE i = rx.slot
      BY <3>1, <3>3, <1>7, <1>8, <1>9 DEF Transmitting
    <3>4. CASE i # rx.slot
      <4>1. i \in 0 .. rx.slot - 1
        BY <3>2, <3>4, <1>8 DEF Address
      <4>2. rx.got[i] \in held[i]
        BY <4>1 DEF Transmitting, FrameInv, GotFaithful
      <4> QED
        BY <4>2, <3>1, <3>2, <3>4, <1>7, <1>9
    <3> QED
      BY <3>3, <3>4
  <2> QED
    BY <2>1 DEF GotFaithful
<1>12. /\ curr_state' = "TRANSMIT" /\ timer' = timer + 1 /\ frame_addr' = frame_addr
       /\ bit_count' = bit_count /\ shift_reg' = shift_reg
  BY <1>1, Clocked, TransmitClock DEF Transmitting
<1>13. PastSample' /\ ~BeforeStart' /\ timer' \in 0 .. BIT_TIME
  BY <1>1, <1>12, Times DEF PastSample, BeforeStart
<1>14. v \in held'[frame_addr' - 1] /\ Carries(v)'
  BY <1>7, <1>8, <1>9, <1>12 DEF Transmitting, Carries
<1>15. InTransmit'
  BY <1>7, <1>8, <1>12, <1>13, <1>14 DEF InTransmit, Transmitting
<1> QED
  BY <1>9, <1>10, <1>11, <1>12, <1>15 DEF FrameInv, InIdle, InBreak, InMab

LEMMA FrameStep == FrameInv /\ [FrameNext]_frameVars => FrameInv' /\ SlotMoves
<1> SUFFICES ASSUME FrameInv, [FrameNext]_frameVars PROVE FrameInv' /\ SlotMoves
  OBVIOUS
<1>1. CASE UNCHANGED frameVars
  BY <1>1 DEF frameVars, serializer, FrameInv, FrameTyped, HeldCurrent, InIdle, InBreak, InMab,
     InTransmit, GotFaithful, Waiting, Carries, BeforeStart, PastSample, Sampled, SlotMoves
<1>2. CASE FrameNext /\ curr_state = "TRANSMIT"
  <2>1. PICK v \in Byte01 : Transmitting(v)
    BY <1>2, TransmitFacts
  <2> QED
    BY <2>1, StartStep, PastStep, BetweenStep, SampleStep, LastSampleStep
<1>3. CASE FrameNext /\ curr_state # "TRANSMIT"
  BY <1>3, IdleStep, BreakStep, MabStep DEF FrameInv
<1> QED
  BY <1>1, <1>2, <1>3

\* Every slot that a receiver of the line hears is a value that its address held while the
\* packet went out, for every array, slot width, written bytes and choice of the times
\* (dmx512.sv read out while the write port changes the array).
THEOREM FramesFaithful == FrameSpec => []SlotsFaithful
<1>1. FrameInv => SlotsFaithful
  <2> SUFFICES ASSUME FrameInv, rx.at # "wait" \/ curr_state \in {"IDLE", "TRANSMIT"}
               PROVE  \A i \in 0 .. rx.slot - 1 : rx.got[i] \in held[i]
    BY DEF SlotsFaithful
  <2>1. CASE curr_state = "BREAK"
    BY <2>1 DEF FrameInv, InBreak, Waiting
  <2>2. CASE curr_state = "MAB"
    <3>1. rx.slot = 0
      BY <2>2, Times DEF FrameInv, InMab, Waiting
    <3> QED
      BY <3>1
  <2>3. CASE curr_state \in {"IDLE", "TRANSMIT"}
    BY <2>3 DEF FrameInv, GotFaithful
  <2> QED
    BY <2>1, <2>2, <2>3 DEF FrameInv
<1> QED
  BY <1>1, FrameInitHolds, FrameStep, PTL DEF FrameSpec

\* For the same constants: the receiver starts a packet only after a slot for each address;
\* no run of zeros inside a slot is taken for a break.
THEOREM PacketsWhole == FrameSpec => PacketComplete
<1>1. FrameInv /\ [FrameNext]_frameVars
        => [rx'.slot # rx.slot => rx'.slot = rx.slot + 1 \/ rx.slot = LastAddress + 1]_frameVars
  BY FrameStep DEF SlotMoves
<1> QED
  BY <1>1, FrameInitHolds, FrameStep, PTL DEF FrameSpec, PacketComplete

=============================================================================
