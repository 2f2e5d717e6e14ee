---------------------------- MODULE MCPeripheral -----------------------------
(***************************************************************************)
(* The FPGA peripheral: the write port (DmxWrite), the serializer          *)
(* (DmxFrame) and the interrupts (Irq), on small instances.  The three     *)
(* models have no variable in common; each behaviour explores one of them, *)
(* with the other two at rest in their initial states.                     *)
(***************************************************************************)
EXTENDS DmxWrite, DmxFrame, Irq

TwoBits == {<<0, 0>>, <<1, 0>>, <<1, 1>>}

\* A call of two bytes across two chunks and one of a single byte inside the
\* array; the array of clearDMX and one of a scene
SmallCalls == {[addr |-> 2, vals |-> <<0, 1>>], [addr |-> 3, vals |-> <<1>>]}
SmallLoads == {<<0, 0, 0, 0>>, <<1, 1, 0, 1>>}

VARIABLE part
partVars == <<writeVars, frameVars, irqVars, part>>

WriteStep == part = "write" /\ Next /\ UNCHANGED <<frameVars, irqVars, part>>
FrameStep == part = "frame" /\ FrameNext /\ UNCHANGED <<writeVars, irqVars, part>>
IrqStep == part = "irq" /\ IrqNext /\ UNCHANGED <<writeVars, frameVars, part>>

PartsInit == Init /\ FrameInit /\ IrqInit /\ part \in {"write", "frame", "irq"}
PartsNext == WriteStep \/ FrameStep \/ IrqStep

\* The fairness of FrameSpec and of IrqSpec.
PartsSpec ==
  /\ PartsInit /\ [][PartsNext]_partVars
  /\ WF_frameVars(FrameStep)
  /\ WF_irqVars(ReadIrq) /\ WF_irqVars(Acknowledge) /\ WF_irqVars(Signal)
==============================================================================
