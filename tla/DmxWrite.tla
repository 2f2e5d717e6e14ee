------------------------------- MODULE DmxWrite -------------------------------
(***************************************************************************)
(* How a DMX value reaches the FPGA.  DefaultDMX.setDMX updates its shadow *)
(* array, then writes four memory-mapped registers one after the other     *)
(* (data, address, size, control) through sysfs; the start bit makes the   *)
(* FPGA copy the bytes into its DMX array.  Nothing orders two threads     *)
(* that call setDMX at the same time.  A write may fail: the IOException   *)
(* ends the call, and the bulk load it is part of, with the shadow array   *)
(* updated and the FPGA's not; the callers print it and go on.             *)
(*                                                                         *)
(* The FPGA takes the bytes within two clock cycles of the start bit, long *)
(* before a write system call returns, so software steps only while the    *)
(* FPGA is idle (HardwareIdle).                                            *)
(***************************************************************************)
EXTENDS DmxArray

CONSTANTS
  Calls,    \* the arguments of setDMX(address, values...), all within the array
  Loads     \* the arguments of setDMX(int[]), an array of zeros for clearDMX

ASSUME DmxWriteAssumption == Calls \subseteq Request /\ Loads \subseteq [1 .. N -> Byte]

VARIABLES
  shadow,       \* DefaultDMX.dmxShadow
  pc,           \* per thread: the register it writes next, or "ready"
  target,       \* per thread: the array of its setDMX(int[]) call
  pos,          \* per thread: loop index of that call, 0 outside it
  dmx_data_r, dmx_addr_r, dmx_size_r,
  start,        \* the start bit of control_r
  transmit,     \* the FPGA's state machine is in TRANSMIT
  unsent        \* ghost: cells of a failed call that no later call has written
\* array is DMX_data of dmx512.sv, request[w] the arguments of w's current call

software == <<shadow, pc, request, target, pos, unsent>>
registers == <<dmx_data_r, dmx_addr_r, dmx_size_r>>
writeVars == <<software, registers, start, transmit, array>>

\* The cells of the call r
Span(r) == r.addr .. r.addr + Len(r.vals) - 1

NoTarget == [i \in 1 .. N |-> 0]

HardwareIdle == ~start /\ ~transmit

\* The bytes of a call packed into the data register, lowest lane first
Pack(vals) == [k \in 1 .. Lanes |-> IF k <= Len(vals) THEN vals[k] ELSE 0]

-----------------------------------------------------------------------------
(* DefaultDMX *)

\* Mutated form of Call: the shadow array is forgotten.
CallNoShadow(w, r) ==
  /\ pc[w] = "ready"
  /\ HardwareIdle
  /\ request' = [request EXCEPT ![w] = r]
  /\ pc' = [pc EXCEPT ![w] = "data"]
  /\ UNCHANGED <<shadow, registers, start, transmit, array, unsent>>

\* The argument checks hold; the loop packs the bytes and updates the shadow.
Call(w, r) ==
  /\ pc[w] = "ready"
  /\ HardwareIdle
  /\ request' = [request EXCEPT ![w] = r]
  /\ shadow' = Apply(shadow, r)
  /\ pc' = [pc EXCEPT ![w] = "data"]
  /\ UNCHANGED <<registers, start, transmit, array, unsent>>

SetFew(w) ==
  /\ pos[w] = 0
  /\ \E r \in Calls : Call(w, r)
  /\ UNCHANGED <<target, pos>>

\* setDMX(int[]) and, with an array of zeros, clearDMX
SetAll(w) ==
  /\ pc[w] = "ready" /\ pos[w] = 0
  /\ \E f \in Loads : target' = [target EXCEPT ![w] = f]
  /\ pos' = [pos EXCEPT ![w] = 1]
  /\ UNCHANGED <<shadow, pc, request, registers, start, transmit, array, unsent>>

\* Mutated form of NextChunk: the loop steps over the first cell of the next chunk.
NextChunkSkips(w) ==
  /\ pos[w] > 0 /\ pos[w] < N
  /\ Call(w, [addr |-> pos[w],
              vals |-> [k \in 1 .. Lanes |-> target[w][pos[w] + k - 1]]])
  /\ pos' = [pos EXCEPT ![w] = @ + Lanes + 1]
  /\ UNCHANGED target

NextChunk(w) ==
  /\ pos[w] > 0 /\ pos[w] < N
  /\ Call(w, [addr |-> pos[w],
              vals |-> [k \in 1 .. Lanes |-> target[w][pos[w] + k - 1]]])
  /\ pos' = [pos EXCEPT ![w] = @ + Lanes]
  /\ UNCHANGED target

SetAllReturns(w) ==
  /\ pc[w] = "ready" /\ pos[w] >= N
  /\ HardwareIdle
  /\ pos' = [pos EXCEPT ![w] = 0]
  /\ target' = [target EXCEPT ![w] = NoTarget]
  /\ UNCHANGED <<shadow, pc, request, registers, start, transmit, array, unsent>>

\* write_reg(data, ...), then addr, size and control
WriteData(w) ==
  /\ pc[w] = "data" /\ HardwareIdle
  /\ dmx_data_r' = Pack(request[w].vals)
  /\ pc' = [pc EXCEPT ![w] = "addr"]
  /\ UNCHANGED <<shadow, request, target, pos, dmx_addr_r, dmx_size_r, start,
                 transmit, array, unsent>>

WriteAddr(w) ==
  /\ pc[w] = "addr" /\ HardwareIdle
  /\ dmx_addr_r' = request[w].addr
  /\ pc' = [pc EXCEPT ![w] = "size"]
  /\ UNCHANGED <<shadow, request, target, pos, dmx_data_r, dmx_size_r, start,
                 transmit, array, unsent>>

WriteSize(w) ==
  /\ pc[w] = "size" /\ HardwareIdle
  /\ dmx_size_r' = Len(request[w].vals)
  /\ pc' = [pc EXCEPT ![w] = "ctrl"]
  /\ UNCHANGED <<shadow, request, target, pos, dmx_data_r, dmx_addr_r, start,
                 transmit, array, unsent>>

WriteControl(w) ==
  /\ pc[w] = "ctrl" /\ HardwareIdle
  /\ start' = TRUE
  /\ pc' = [pc EXCEPT ![w] = "ready"]
  /\ unsent' = unsent \ Span(request[w])
  /\ UNCHANGED <<shadow, request, target, pos, registers, transmit, array>>

\* One of the four writes throws an IOException, because the register's file cannot be
\* opened or written: its register keeps its value, and the exception leaves
\* setDMX(int[]) and clearDMX too.
WriteFails(w) ==
  /\ pc[w] # "ready" /\ HardwareIdle
  /\ pc' = [pc EXCEPT ![w] = "ready"]
  /\ pos' = [pos EXCEPT ![w] = 0]
  /\ target' = [target EXCEPT ![w] = NoTarget]
  /\ unsent' = unsent \cup Span(request[w])
  /\ UNCHANGED <<shadow, request, registers, start, transmit, array>>

-----------------------------------------------------------------------------
(* The FPGA: ece453.sv and the write port of dmx512.sv *)

\* addr0 .. addr3: zero for a lane that is not written
LaneAddr(k) ==
  IF (IF dmx_size_r > Lanes THEN 0 ELSE dmx_size_r) >= k + 1 /\ dmx_addr_r <= N - k
  THEN dmx_addr_r + k
  ELSE 0

WriteEnable == dmx_addr_r <= N /\ dmx_addr_r > 0

\* Mutated form of Commit: all lanes are written, whatever the size.
CommitAllLanes ==
  [i \in Cell |-> IF WriteEnable /\ i - dmx_addr_r \in 0 .. Lanes - 1
                  THEN dmx_data_r[i - dmx_addr_r + 1] ELSE array[i]]

\* The lanes with a non-zero address; cell 0, the start code, is read only.
Commit ==
  [i \in Cell |->
     IF /\ WriteEnable /\ i # 0
        /\ i - dmx_addr_r \in 0 .. Lanes - 1
        /\ LaneAddr(i - dmx_addr_r) = i
     THEN dmx_data_r[i - dmx_addr_r + 1]
     ELSE array[i]]

\* State IDLE with the start bit: dmx_write, the bit clears itself.
FsmIdle ==
  /\ start /\ ~transmit
  /\ array' = Commit
  /\ start' = FALSE
  /\ transmit' = TRUE
  /\ UNCHANGED <<software, registers>>

\* State TRANSMIT asserts dmx_write a second time.
FsmTransmit ==
  /\ transmit
  /\ array' = Commit
  /\ transmit' = FALSE
  /\ UNCHANGED <<software, registers, start>>

-----------------------------------------------------------------------------
Init ==
  /\ ArrayInit
  /\ shadow = [i \in Cell |-> 0]
  /\ pc = [w \in Writers |-> "ready"]
  /\ target = [w \in Writers |-> NoTarget]
  /\ pos = [w \in Writers |-> 0]
  /\ dmx_data_r = [k \in 1 .. Lanes |-> 0]
  /\ dmx_addr_r = 0 /\ dmx_size_r = 0
  /\ start = FALSE /\ transmit = FALSE
  /\ unsent = {}

Thread(w) ==
  \/ SetFew(w) \/ SetAll(w) \/ NextChunk(w) \/ SetAllReturns(w)
  \/ WriteData(w) \/ WriteAddr(w) \/ WriteSize(w) \/ WriteControl(w)
  \/ WriteFails(w)

Next == (\E w \in Writers : Thread(w)) \/ FsmIdle \/ FsmTransmit

Spec == Init /\ [][Next]_writeVars

-----------------------------------------------------------------------------
(* Properties *)

TypeOK ==
  /\ array \in [Cell -> Byte] /\ shadow \in [Cell -> Byte]
  /\ pc \in [Writers -> {"ready", "data", "addr", "size", "ctrl"}]
  /\ request \in [Writers -> Request]
  /\ target \in [Writers -> [1 .. N -> Byte]]
  /\ pos \in [Writers -> 0 .. N + Lanes]
  /\ dmx_data_r \in [1 .. Lanes -> Byte]
  /\ dmx_addr_r \in Cell /\ dmx_size_r \in 0 .. Lanes
  /\ start \in BOOLEAN /\ transmit \in BOOLEAN
  /\ unsent \subseteq Cell

Quiet == HardwareIdle /\ \A w \in Writers : pc[w] = "ready"

\* Between calls the shadow array, from which scenes are saved and fixtures are
\* synced, is what the FPGA puts on the wire, but for the cells of calls that an
\* IOException cut short; such a cell agrees again once a later call that covers it
\* has gone through.
ShadowMatchesHardware ==
  Quiet => \A i \in Cell \ unsent : shadow[i] = array[i]

\* The FPGA's array behaves as the array of the DMXDriver interface: whatever it
\* changes is the effect of one call some thread is making, never the bytes of one
\* call at the address or with the size of another.
ImplementsArray == ArraySpec

\* A bulk load leaves nothing out: between its chunks, the cells it has passed
\* hold the values of its argument, also the ones of an earlier call that failed.
BulkPrefixLoaded ==
  \A w \in Writers :
    Quiet /\ pos[w] > 0 => \A i \in 1 .. pos[w] - 1 : array[i] = target[w][i]

\* The DMX start code, cell 0, stays zero whatever the registers hold.
StartCodeZero == array[0] = 0

=============================================================================
