--------------------------------- MODULE Irq ---------------------------------
(***************************************************************************)
(* Interrupts of the peripheral: the registers gpio_in, im, irq and the    *)
(* busy bit of ece453.sv, clock cycle by clock cycle, and the handler of   *)
(* the kernel driver, which reads irq, acknowledges what it read, and then *)
(* sends a signal to the process registered in the file pid, if there is   *)
(* one.  An edge of an input and the end of a DMX write raise an           *)
(* interrupt; both use bit 0.                                              *)
(***************************************************************************)
EXTENDS Integers

CONSTANT Bits     \* bit numbers of the registers

ASSUME IrqAssumption == 0 \in Bits

IRQ_DMX_DONE_BIT_NUM == 0

VARIABLES
  gpio_in_r, im_r, irq_r,   \* registers, as the sets of their bits that are 1
  status_r,                 \* the busy bit of the status register
  dmx_start, dmx_transmit,  \* the start bit, and the state machine in TRANSMIT
  handler, active_irqs,     \* the kernel driver: "idle", "ack" or "signal"
  pid,                      \* does the driver's pid name a process? (0 names none)
  owed,                     \* ghost: bits with an event, since their acknowledgement
  taken,                    \* ghost: events acknowledged and not yet signalled
  lost                      \* ghost: bits whose last event no signal will tell of

irqRegisters == <<gpio_in_r, im_r, irq_r, status_r, dmx_start, dmx_transmit>>
irqVars == <<irqRegisters, handler, active_irqs, pid, owed, taken, lost>>

irq_out == im_r \cap irq_r # {}
dmx_busy == dmx_start \/ dmx_transmit

\* The bits that change from the last cycle to this one, and DMX done
Events(gpio_inputs) ==
  (gpio_in_r \ gpio_inputs) \cup (gpio_inputs \ gpio_in_r)
    \cup (IF status_r /\ ~dmx_busy THEN {IRQ_DMX_DONE_BIT_NUM} ELSE {})

\* Mutated forms of irq_in: an acknowledgement clears the whole register; the mask of
\* the acknowledged bits is not inverted.
irq_in_ClearAll(ack, data, events) == IF ack THEN {} ELSE (irq_r \cup events) \cap im_r
irq_in_Inverted(ack, data, events) ==
  IF ack THEN irq_r \cap data ELSE (irq_r \cup events) \cap im_r

\* A write to the register leaves no room for an event of the same cycle.
irq_in(ack, data, events) == IF ack THEN irq_r \ data ELSE (irq_r \cup events) \cap im_r

\* One clock cycle, with the bus access of its arguments.  An event in the cycle of an
\* acknowledgement goes with the signal that follows when its bit is acknowledged, with a
\* later one when its bit is pending besides, and is lost otherwise.
Clock(ack, data, im_in, begin) ==
  /\ \E gpio_inputs \in SUBSET Bits :
       LET events == Events(gpio_inputs) \cap im_r IN
       /\ gpio_in_r' = gpio_inputs
       /\ irq_r' = irq_in(ack, data, Events(gpio_inputs))
       /\ owed' = im_in \cap ((owed \cup events) \ data)
       /\ taken' = IF ack THEN data \cap (owed \cup events) ELSE taken
       /\ lost' = im_in \cap (IF ack THEN lost \cup (events \ (data \cup irq_r))
                                    ELSE lost \ events)
  /\ im_r' = im_in
  /\ status_r' = dmx_busy
  /\ dmx_start' = begin
  /\ dmx_transmit' = (dmx_start /\ ~dmx_transmit)

-----------------------------------------------------------------------------
\* No access to these registers
Idle ==
  /\ Clock(FALSE, {}, im_r, FALSE)
  /\ UNCHANGED <<handler, active_irqs, pid>>

\* A write to the file im
WriteIm ==
  /\ \E m \in SUBSET Bits : Clock(FALSE, {}, m, FALSE)
  /\ UNCHANGED <<handler, active_irqs, pid>>

\* A write to the file control that starts a DMX write
StartDmx ==
  /\ ~dmx_start /\ ~dmx_transmit
  /\ Clock(FALSE, {}, im_r, TRUE)
  /\ UNCHANGED <<handler, active_irqs, pid>>

\* ece453_irq_handler: ioread32, iowrite32, send_sig_info
ReadIrq ==
  /\ handler = "idle" /\ irq_out
  /\ active_irqs' = irq_r /\ handler' = "ack"
  /\ Clock(FALSE, {}, im_r, FALSE)
  /\ UNCHANGED pid

Acknowledge ==
  /\ handler = "ack" /\ handler' = "signal"
  /\ Clock(TRUE, active_irqs, im_r, FALSE)
  /\ UNCHANGED <<active_irqs, pid>>

Signal ==
  /\ handler = "signal" /\ handler' = "idle"
  /\ \/ pid /\ UNCHANGED lost
     \/ lost' = lost \cup (taken \ owed)    \* no such pid, or an error sending the signal
  /\ taken' = {}
  /\ UNCHANGED <<irqRegisters, active_irqs, pid, owed>>

\* A write to the file pid: a number, of a process or not
WritePid ==
  /\ pid' \in BOOLEAN
  /\ UNCHANGED <<irqRegisters, handler, active_irqs, owed, taken, lost>>

\* The registered process ends; the driver keeps its number.
ProcessEnds ==
  /\ pid /\ pid' = FALSE
  /\ UNCHANGED <<irqRegisters, handler, active_irqs, owed, taken, lost>>

IrqInit ==
  /\ gpio_in_r = {} /\ im_r = {} /\ irq_r = {}
  /\ status_r = FALSE /\ dmx_start = FALSE /\ dmx_transmit = FALSE
  /\ handler = "idle" /\ active_irqs = {} /\ pid = FALSE
  /\ owed = {} /\ taken = {} /\ lost = {}

IrqNext ==
  \/ Idle \/ WriteIm \/ StartDmx \/ ReadIrq \/ Acknowledge \/ Signal
  \/ WritePid \/ ProcessEnds

\* The processor takes an interrupt that stays raised, and the handler runs to its end.
IrqSpec ==
  /\ IrqInit /\ [][IrqNext]_irqVars
  /\ WF_irqVars(ReadIrq) /\ WF_irqVars(Acknowledge) /\ WF_irqVars(Signal)

-----------------------------------------------------------------------------
(* Properties *)

\* An event on an enabled bit, also one that falls between the handler's read and its
\* acknowledgement, waits in the register until it is acknowledged; what has been
\* acknowledged is with the handler, which still has to signal these very bits.  Only an
\* event in the very cycle of an acknowledgement, on a bit not pending, is dropped.
OwedPending ==
  /\ owed \subseteq irq_r \cup lost
  /\ taken # {} => handler = "signal" /\ taken \subseteq active_irqs

\* An event that is not dropped is acknowledged in the end, or its bit disabled.
OwedAcknowledged ==
  \A b \in Bits : b \in owed ~> b \in taken \/ b \in lost \/ b \notin im_r

=============================================================================
