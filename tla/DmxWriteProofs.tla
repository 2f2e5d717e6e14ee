---------------------------- MODULE DmxWriteProofs ----------------------------
(***************************************************************************)
(* With one thread at the driver the register protocol of DmxWrite         *)
(* implements DmxArray, for every array size and number of byte lanes.     *)
(* The DMX start code is safe with any number of threads.                  *)
(***************************************************************************)
EXTENDS DmxWrite, SequenceTheorems, TLAPS

-----------------------------------------------------------------------------
\* The sizes, without the relation between them
LEMMA Sizes == N \in Nat /\ N > 0 /\ Lanes \in Nat /\ Lanes > 1 /\ 0 \in Byte
BY DmxArrayAssumption

\* A call that stays inside the array: its address, its bytes and their number
LEMMA RequestFacts ==
  ASSUME NEW r \in Request
  PROVE  /\ r.addr \in 1 .. N
         /\ Len(r.vals) \in 1 .. Lanes
         /\ r.addr + Len(r.vals) <= N + 1
         /\ r.vals \in [1 .. Len(r.vals) -> Byte]
<1>1. PICK n \in 1 .. Lanes : r \in [addr : 1 .. N + 1 - n, vals : [1 .. n -> Byte]]
  BY DmxArrayAssumption DEF Request
<1>2. r.addr \in 1 .. N + 1 - n /\ r.vals \in [1 .. n -> Byte]
  BY <1>1
<1>3. Len(r.vals) = n
  <2>1. r.vals \in Seq(Byte) /\ n \in Nat
    BY <1>2, DmxArrayAssumption, SeqDef
  <2> QED
    BY <2>1, <1>2, LenProperties
<1> QED
  BY <1>1, <1>2, <1>3, DmxArrayAssumption

LEMMA ApplyType ==
  ASSUME NEW f \in [Cell -> Byte], NEW r \in Request
  PROVE  Apply(f, r) \in [Cell -> Byte]
<1> DEFINE a == r.addr
           n == Len(r.vals)
           v == r.vals
<1>1. a \in 1 .. N /\ n \in 1 .. Lanes /\ v \in [1 .. n -> Byte]
  BY RequestFacts
<1>2. Apply(f, r) = [i \in Cell |-> IF a <= i /\ i < a + n THEN v[i - a + 1] ELSE f[i]]
  BY DEF Apply
<1> HIDE DEF a, n, v
<1>3. \A i \in Cell : a <= i /\ i < a + n => v[i - a + 1] \in Byte
  <2>1. \A i \in Cell : a <= i /\ i < a + n => i - a + 1 \in 1 .. n
    BY <1>1, Sizes DEF Cell
  <2> QED
    BY <2>1, <1>1
<1> QED
  BY <1>2, <1>3

LEMMA ApplyAt ==
  ASSUME NEW f, NEW r, NEW i \in Cell
  PROVE  Apply(f, r)[i] = IF r.addr <= i /\ i < r.addr + Len(r.vals)
                          THEN r.vals[i - r.addr + 1] ELSE f[i]
BY Zenon DEF Apply

\* The cells of a call are the ones it changes.
LEMMA SpanAt ==
  ASSUME NEW r \in Request, NEW i \in Cell
  PROVE  i \in Span(r) <=> r.addr <= i /\ i < r.addr + Len(r.vals)
BY RequestFacts, Sizes DEF Span, Cell

LEMMA SpanInArray == ASSUME NEW r \in Request PROVE Span(r) \subseteq Cell
BY RequestFacts, Sizes DEF Span, Cell

LEMMA ApplyOff ==
  ASSUME NEW f, NEW r \in Request, NEW i \in Cell, i \notin Span(r)
  PROVE  Apply(f, r)[i] = f[i]
BY SpanAt, ApplyAt

\* On its own cells a call sets the same values in two arrays.
LEMMA ApplyOn ==
  ASSUME NEW f, NEW g, NEW r \in Request, NEW i \in Cell, i \in Span(r)
  PROVE  Apply(f, r)[i] = Apply(g, r)[i]
BY SpanAt, ApplyAt

\* A second commit of the same call changes nothing.
LEMMA ApplyTwice ==
  ASSUME NEW f \in [Cell -> Byte], NEW r \in Request
  PROVE  Apply(Apply(f, r), r) = Apply(f, r)
BY DEF Apply

\* When the registers hold the call r, what the FPGA commits is that call.
LEMMA CommitIsApply ==
  ASSUME NEW r \in Request, array \in [Cell -> Byte],
         dmx_data_r = Pack(r.vals), dmx_addr_r = r.addr, dmx_size_r = Len(r.vals)
  PROVE  Commit = Apply(array, r)
<1> DEFINE a == dmx_addr_r
           n == dmx_size_r
           v == r.vals
<1>1. a \in 1 .. N /\ n \in 1 .. Lanes /\ a + n <= N + 1 /\ v \in [1 .. n -> Byte]
  BY RequestFacts
<1>2. WriteEnable
  BY <1>1, Sizes DEF WriteEnable
<1>3. \A k \in 0 .. Lanes - 1 :
        LaneAddr(k) = IF n >= k + 1 /\ a <= N - k THEN a + k ELSE 0
  BY <1>1, Sizes DEF LaneAddr
<1>4. /\ Apply(array, r) =
           [i \in Cell |-> IF a <= i /\ i < a + n THEN v[i - a + 1] ELSE array[i]]
      /\ Commit =
           [i \in Cell |-> IF i # 0 /\ i - a \in 0 .. Lanes - 1 /\ LaneAddr(i - a) = i
                           THEN dmx_data_r[i - a + 1] ELSE array[i]]
  BY <1>2, Zenon DEF Apply, Commit
<1>5. \A k \in 1 .. n : dmx_data_r[k] = v[k]
  <2>1. dmx_data_r = [k \in 1 .. Lanes |-> IF k <= n THEN v[k] ELSE 0]
    BY DEF Pack
  <2> HIDE DEF v, n
  <2> QED
    BY <2>1, <1>1, Sizes
<1> HIDE DEF a, n, v
<1>6. ASSUME NEW i \in Cell
      PROVE  /\ (i # 0 /\ i - a \in 0 .. Lanes - 1 /\ LaneAddr(i - a) = i)
                <=> (a <= i /\ i < a + n)
             /\ (a <= i /\ i < a + n) => i - a + 1 \in 1 .. n
  <2>1. i \in Int /\ 0 <= i /\ i <= N
    BY Sizes DEF Cell
  <2>2. (a <= i /\ i < a + n) => i - a \in 0 .. Lanes - 1 /\ i - a + 1 \in 1 .. n /\ i # 0
    BY <1>1, <2>1, Sizes
  <2>3. CASE i - a \in 0 .. Lanes - 1
    <3>1. LaneAddr(i - a) = IF n >= i - a + 1 /\ a <= N - (i - a) THEN a + (i - a) ELSE 0
      BY <2>3, <1>3
    <3> QED
      BY <3>1, <2>1, <2>2, <2>3, <1>1, Sizes
  <2> QED
    BY <2>2, <2>3
<1> QED
  BY <1>4, <1>5, <1>6

-----------------------------------------------------------------------------
(* One thread, app *)

\* The registers hold app's call as far as app has written them.
RegistersOf(app) ==
  LET r == request[app] IN
  /\ pc[app] \in {"addr", "size", "ctrl"} \/ start \/ transmit
       => dmx_data_r = Pack(r.vals)
  /\ pc[app] \in {"size", "ctrl"} \/ start \/ transmit => dmx_addr_r = r.addr
  /\ pc[app] = "ctrl" \/ start \/ transmit => dmx_size_r = Len(r.vals)
  /\ start \/ transmit => pc[app] = "ready"
  /\ ~(start /\ transmit)

\* The shadow array is ahead of the FPGA by the call that is on its way, but for the
\* cells that a failed call has left behind and that this call does not cover.
ShadowAhead(app) ==
  /\ pc[app] = "ready" /\ ~start => \A i \in Cell \ unsent : shadow[i] = array[i]
  /\ pc[app] # "ready" =>
       \A i \in Cell : i \in Span(request[app]) \/ i \notin unsent
                       => shadow[i] = Apply(array, request[app])[i]
  /\ start => \A i \in Cell \ unsent : shadow[i] = Apply(array, request[app])[i]
  /\ transmit => array = Apply(array, request[app])

\* A bulk load is at the start of a chunk, has put its prefix into the shadow, and no
\* cell of that prefix is left behind by a failed call, unless the call on its way
\* covers it.
BulkAt(app) ==
  pos[app] > 0 =>
    /\ \E q \in Nat : pos[app] = q * Lanes + 1
    /\ \A i \in 1 .. N : i < pos[app] =>
         /\ shadow[i] = target[app][i]
         /\ i \notin unsent \/ (pc[app] # "ready" /\ i \in Span(request[app]))

DmxInv(app) ==
  TypeOK /\ RegistersOf(app) /\ ShadowAhead(app) /\ BulkAt(app)

\* The last chunk of a bulk load ends at the end of the array.
LEMMA ChunkFits ==
  ASSUME NEW q \in Nat, q * Lanes + 1 < N
  PROVE  q * Lanes + Lanes <= N
<1>1. PICK c \in 1 .. N : N = c * Lanes
  BY DmxArrayAssumption
<1>2. q < c
  <2>1. CASE q >= c
    <3>1. q * Lanes >= c * Lanes
      BY <2>1, <1>1, Sizes
    <3> QED
      BY <3>1, <1>1, Sizes
  <2> QED
    BY <2>1, <1>1, Sizes
<1>3. (q + 1) * Lanes <= c * Lanes
  BY <1>1, <1>2, Sizes
<1>4. (q + 1) * Lanes = q * Lanes + Lanes
  BY Sizes
<1> QED
  BY <1>1, <1>3, <1>4, Sizes

\* The call that loads the chunk at p
LEMMA ChunkRequest ==
  ASSUME NEW t \in [1 .. N -> Byte], NEW p \in 1 .. N, p + Lanes <= N + 1
  PROVE  [addr |-> p, vals |-> [k \in 1 .. Lanes |-> t[p + k - 1]]] \in Request
<1>1. \A k \in 1 .. Lanes : p + k - 1 \in 1 .. N
  BY Sizes
<1>2. [k \in 1 .. Lanes |-> t[p + k - 1]] \in [1 .. Lanes -> Byte]
  BY <1>1
<1>3. p \in 1 .. N + 1 - Lanes /\ Lanes \in 1 .. Lanes
  BY Sizes
<1>4. [addr |-> p, vals |-> [k \in 1 .. Lanes |-> t[p + k - 1]]]
        \in [addr : 1 .. N + 1 - Lanes, vals : [1 .. Lanes -> Byte]]
  BY <1>2, <1>3
<1> QED
  BY <1>3, <1>4 DEF Request

LEMMA NextChunkCall ==
  ASSUME NEW app, Writers = {app}, DmxInv(app), pos[app] > 0, pos[app] < N
  PROVE  [addr |-> pos[app], vals |-> [k \in 1 .. Lanes |-> target[app][pos[app] + k - 1]]]
           \in Request
<1> DEFINE p == pos[app]
           t == target[app]
<1>1. PICK q \in Nat : p = q * Lanes + 1
  BY DEF DmxInv, BulkAt
<1>2. p \in 1 .. N /\ t \in [1 .. N -> Byte]
  BY Sizes DEF DmxInv, TypeOK
<1>3. p + Lanes <= N + 1
  <2>1. q * Lanes + Lanes <= N
    BY <1>1, ChunkFits
  <2>2. q * Lanes \in Int
    BY Sizes
  <2> QED
    BY <2>1, <2>2, <1>1, Sizes
<1> QED
  BY <1>2, <1>3, ChunkRequest

\* The loop index of a bulk load ends just behind the array.
LEMMA LastPos ==
  ASSUME NEW q \in Nat, q * Lanes + 1 <= N + Lanes
  PROVE  q * Lanes <= N
<1>1. PICK c \in 1 .. N : N = c * Lanes
  BY DmxArrayAssumption
<1>2. CASE q >= c + 1
  <2>1. q * Lanes >= (c + 1) * Lanes
    BY <1>1, <1>2, Sizes
  <2>2. (c + 1) * Lanes = c * Lanes + Lanes
    BY <1>1, Sizes
  <2> QED
    BY <1>1, <2>1, <2>2, Sizes
<1>3. CASE q <= c
  BY <1>1, <1>3, Sizes
<1> QED
  BY <1>1, <1>2, <1>3, Sizes

\* What a call does: the shadow array runs ahead by it.
LEMMA CallKeeps ==
  ASSUME NEW app, Writers = {app}, DmxInv(app), NEW r \in Request, Call(app, r),
         UNCHANGED target, pos' \in [Writers -> 0 .. N + Lanes]
  PROVE  /\ TypeOK' /\ RegistersOf(app)' /\ ShadowAhead(app)'
         /\ shadow' = Apply(shadow, r)
<1>1. /\ pc[app] = "ready" /\ ~start /\ ~transmit
      /\ request' = [request EXCEPT ![app] = r]
      /\ shadow' = Apply(shadow, r)
      /\ pc' = [pc EXCEPT ![app] = "data"]
      /\ UNCHANGED <<dmx_data_r, dmx_addr_r, dmx_size_r, start, transmit, array, unsent>>
  BY DEF Call, HardwareIdle, registers
<1>2. ASSUME NEW i \in Cell, i \in Span(r) \/ i \notin unsent
      PROVE  Apply(shadow, r)[i] = Apply(array, r)[i]
  <2>1. CASE i \in Span(r)
    BY <2>1, ApplyOn
  <2>2. CASE i \notin Span(r)
    <3>1. shadow[i] = array[i]
      BY <1>1, <1>2, <2>2 DEF DmxInv, ShadowAhead
    <3> QED
      BY <3>1, <2>2, ApplyOff
  <2> QED
    BY <2>1, <2>2
<1>3. request'[app] = r /\ pc'[app] = "data"
  BY <1>1 DEF DmxInv, TypeOK
<1>4. shadow' \in [Cell -> Byte]
  BY <1>1, ApplyType DEF DmxInv, TypeOK
<1>5. request' \in [Writers -> Request]
  BY <1>1 DEF DmxInv, TypeOK
<1>6. TypeOK'
  BY <1>1, <1>4, <1>5 DEF DmxInv, TypeOK
<1> QED
  BY <1>1, <1>2, <1>3, <1>6 DEF RegistersOf, ShadowAhead

\* One writer: the registers always belong to its call, the shadow array is ahead of the
\* FPGA by that call and by failed calls, and a bulk load has loaded its prefix.
THEOREM DmxInvariant ==
  ASSUME NEW app, Writers = {app}
  PROVE  Spec => []DmxInv(app)
<1>1. Init => DmxInv(app)
  <2> SUFFICES ASSUME Init PROVE DmxInv(app)
    OBVIOUS
  <2>1. [addr |-> 1, vals |-> <<0>>] \in Request
    <3>1. <<0>> \in [1 .. 1 -> Byte] /\ 1 \in 1 .. N + 1 - 1 /\ 1 \in 1 .. Lanes
      BY Sizes
    <3>2. [addr |-> 1, vals |-> <<0>>] \in [addr : 1 .. N + 1 - 1, vals : [1 .. 1 -> Byte]]
      BY <3>1
    <3> QED
      BY <3>1, <3>2 DEF Request
  <2>2. start \in BOOLEAN /\ transmit \in BOOLEAN /\ ~start /\ ~transmit /\ unsent = {}
    BY Zenon DEF Init
  <2>3. /\ array = [i \in Cell |-> 0] /\ shadow = [i \in Cell |-> 0]
        /\ request = [w \in Writers |-> [addr |-> 1, vals |-> <<0>>]]
        /\ pc = [w \in Writers |-> "ready"] /\ pos = [w \in Writers |-> 0]
        /\ target = [w \in Writers |-> [i \in 1 .. N |-> 0]]
        /\ dmx_data_r = [k \in 1 .. Lanes |-> 0] /\ dmx_addr_r = 0 /\ dmx_size_r = 0
    BY Zenon DEF Init, ArrayInit, NoTarget
  <2>4. TypeOK
    BY <2>1, <2>2, <2>3, Sizes DEF TypeOK, Cell
  <2> QED
    BY <2>2, <2>3, <2>4 DEF DmxInv, RegistersOf, ShadowAhead, BulkAt
<1>2. DmxInv(app) /\ [Next]_writeVars => DmxInv(app)'
  <2> SUFFICES ASSUME DmxInv(app), [Next]_writeVars PROVE DmxInv(app)'
    OBVIOUS
  <2> USE DEF DmxInv
  <2>1. CASE SetFew(app)
    <3>1. PICK r \in Request : Call(app, r)
      BY <2>1, DmxWriteAssumption DEF SetFew
    <3>2. pos[app] = 0 /\ target' = target /\ pos' = pos
      BY <2>1 DEF SetFew
    <3>3. TypeOK' /\ RegistersOf(app)' /\ ShadowAhead(app)'
      BY <3>1, <3>2, CallKeeps DEF TypeOK
    <3>4. BulkAt(app)'
      BY <3>2 DEF BulkAt
    <3> QED
      BY <3>3, <3>4
  <2>2. CASE SetAll(app)
    <3>1. PICK f \in [1 .. N -> Byte] : target' = [target EXCEPT ![app] = f]
      BY <2>2, DmxWriteAssumption DEF SetAll
    <3>2. /\ pos' = [pos EXCEPT ![app] = 1]
          /\ UNCHANGED <<shadow, pc, request, dmx_data_r, dmx_addr_r, dmx_size_r,
                         start, transmit, array, unsent>>
      BY <2>2 DEF SetAll, registers
    <3>3. TypeOK'
      BY <3>1, <3>2, Sizes DEF TypeOK
    <3>4. RegistersOf(app)' /\ ShadowAhead(app)'
      BY <3>2 DEF RegistersOf, ShadowAhead
    <3>5. BulkAt(app)'
      <4>1. pos'[app] = 0 * Lanes + 1
        BY <3>2, Sizes DEF TypeOK
      <4>2. \A i \in 1 .. N : ~(i < pos'[app])
        BY <4>1, Sizes
      <4> QED
        BY <4>1, <4>2 DEF BulkAt
    <3> QED
      BY <3>3, <3>4, <3>5
  <2>3. CASE NextChunk(app)
    <3> DEFINE p == pos[app]
               t == target[app]
               r == [addr |-> p, vals |-> [k \in 1 .. Lanes |-> t[p + k - 1]]]
    <3>1. /\ p > 0 /\ p < N /\ Call(app, r)
          /\ pos' = [pos EXCEPT ![app] = p + Lanes] /\ target' = target
      BY <2>3 DEF NextChunk
    <3>2. PICK q \in Nat : p = q * Lanes + 1
      BY <3>1 DEF BulkAt
    <3>3. p \in 1 .. N /\ t \in [1 .. N -> Byte]
      BY <3>1, Sizes DEF TypeOK
    <3>5. r \in Request
      BY <3>1, NextChunkCall
    <3>6. pos' \in [Writers -> 0 .. N + Lanes] /\ pos'[app] = p + Lanes
      BY <3>1, <3>3, Sizes DEF TypeOK
    <3>7. /\ TypeOK' /\ RegistersOf(app)' /\ ShadowAhead(app)'
          /\ shadow' = Apply(shadow, r)
      BY <3>1, <3>5, <3>6, CallKeeps
    <3>8. r.addr = p /\ Len(r.vals) = Lanes /\ \A k \in 1 .. Lanes : r.vals[k] = t[p + k - 1]
      BY Sizes
    <3> HIDE DEF r
    <3>9. \A i \in Cell : shadow'[i] = IF p <= i /\ i < p + Lanes THEN r.vals[i - p + 1]
                                       ELSE shadow[i]
      <4>1. \A i \in Cell : shadow'[i] = IF r.addr <= i /\ i < r.addr + Len(r.vals)
                                         THEN r.vals[i - r.addr + 1] ELSE shadow[i]
        BY <3>7, ApplyAt
      <4> QED
        BY <4>1, <3>8
    <3>10. pc[app] = "ready" /\ pc'[app] = "data" /\ request'[app] = r /\ unsent' = unsent
      BY <3>1 DEF Call, TypeOK
    <3>11. ASSUME NEW i \in 1 .. N, i < p + Lanes PROVE i \notin unsent \/ i \in Span(r)
      <4>1. i < p => i \notin unsent
        BY <3>1, <3>10 DEF BulkAt
      <4>2. p <= i => i \in Span(r)
        BY <3>8, <3>11, <3>3, Sizes DEF Span
      <4> QED
        BY <4>1, <4>2, <3>3, Sizes
    <3>12. ASSUME NEW i \in 1 .. N, i < p + Lanes PROVE shadow'[i] = t[i]
      <4>1. CASE i < p
        <5>1. shadow[i] = t[i]
          BY <4>1, <3>1 DEF BulkAt
        <5>2. i \in Cell /\ ~(p <= i)
          BY <4>1, <3>3, Sizes DEF Cell
        <5> QED
          BY <5>1, <5>2, <3>9
      <4>2. CASE p <= i
        <5>1. i - p + 1 \in 1 .. Lanes /\ p + (i - p + 1) - 1 = i
          BY <4>2, <3>3, <3>12, Sizes
        <5>2. i \in Cell
          BY Sizes DEF Cell
        <5>3. shadow'[i] = r.vals[i - p + 1]
          BY <4>2, <3>9, <3>12, <5>2
        <5>4. r.vals[i - p + 1] = t[p + (i - p + 1) - 1]
          BY <5>1, <3>8
        <5> QED
          BY <5>1, <5>3, <5>4
      <4> QED
        BY <4>1, <4>2, <3>3, Sizes
    <3>13. p + Lanes = (q + 1) * Lanes + 1
      BY <3>2, Sizes
    <3>14. BulkAt(app)'
      BY <3>1, <3>6, <3>12, <3>13, <3>10, <3>11 DEF BulkAt
    <3> QED
      BY <3>7, <3>14
  <2>4. CASE SetAllReturns(app)
    <3>1. /\ pos' = [pos EXCEPT ![app] = 0] /\ target' = [target EXCEPT ![app] = NoTarget]
          /\ UNCHANGED <<shadow, pc, request, dmx_data_r, dmx_addr_r, dmx_size_r,
                         start, transmit, array, unsent>>
      BY <2>4 DEF SetAllReturns, registers
    <3>2. TypeOK' /\ pos'[app] = 0
      BY <3>1, Sizes DEF TypeOK, NoTarget
    <3> QED
      BY <3>1, <3>2 DEF RegistersOf, ShadowAhead, BulkAt
  <2>5. CASE WriteData(app)
    <3>1. /\ pc[app] = "data" /\ ~start /\ ~transmit
          /\ dmx_data_r' = Pack(request[app].vals)
          /\ pc' = [pc EXCEPT ![app] = "addr"]
          /\ UNCHANGED <<shadow, request, target, pos, dmx_addr_r, dmx_size_r, start,
                         transmit, array, unsent>>
      BY <2>5 DEF WriteData, HardwareIdle
    <3>2. Pack(request[app].vals) \in [1 .. Lanes -> Byte]
      <4> DEFINE v == request[app].vals
                 n == Len(v)
      <4>1. request[app] \in Request
        BY DEF TypeOK
      <4>2. n \in 1 .. Lanes /\ v \in [1 .. n -> Byte]
        BY <4>1, RequestFacts
      <4>3. Pack(v) = [k \in 1 .. Lanes |-> IF k <= n THEN v[k] ELSE 0]
        BY DEF Pack
      <4>4. [k \in 1 .. Lanes |-> IF k <= n THEN v[k] ELSE 0] \in [1 .. Lanes -> Byte]
        <5> HIDE DEF v, n
        <5> QED
          BY <4>2, Sizes
      <4> QED
        BY <4>3, <4>4, Zenon
    <3>3. TypeOK' /\ pc'[app] = "addr"
      BY <3>1, <3>2 DEF TypeOK
    <3> QED
      BY <3>1, <3>3 DEF RegistersOf, ShadowAhead, BulkAt
  <2>6. CASE WriteAddr(app)
    <3>1. /\ pc[app] = "addr" /\ ~start /\ ~transmit
          /\ dmx_addr_r' = request[app].addr
          /\ pc' = [pc EXCEPT ![app] = "size"]
          /\ UNCHANGED <<shadow, request, target, pos, dmx_data_r, dmx_size_r, start,
                         transmit, array, unsent>>
      BY <2>6 DEF WriteAddr, HardwareIdle
    <3>2. request[app].addr \in Cell
      BY RequestFacts, Sizes DEF TypeOK, Cell
    <3>3. TypeOK' /\ pc'[app] = "size"
      BY <3>1, <3>2 DEF TypeOK
    <3> QED
      BY <3>1, <3>3 DEF RegistersOf, ShadowAhead, BulkAt
  <2>7. CASE WriteSize(app)
    <3>1. /\ pc[app] = "size" /\ ~start /\ ~transmit
          /\ dmx_size_r' = Len(request[app].vals)
          /\ pc' = [pc EXCEPT ![app] = "ctrl"]
          /\ UNCHANGED <<shadow, request, target, pos, dmx_data_r, dmx_addr_r, start,
                         transmit, array, unsent>>
      BY <2>7 DEF WriteSize, HardwareIdle
    <3>2. Len(request[app].vals) \in 0 .. Lanes
      BY RequestFacts, Sizes DEF TypeOK
    <3>3. TypeOK' /\ pc'[app] = "ctrl"
      BY <3>1, <3>2 DEF TypeOK
    <3> QED
      BY <3>1, <3>3 DEF RegistersOf, ShadowAhead, BulkAt
  <2>8. CASE WriteControl(app)
    <3>1. start' \in BOOLEAN /\ start'
      BY <2>8, Zenon DEF WriteControl
    <3>2. /\ pc[app] = "ctrl" /\ ~start /\ ~transmit
          /\ pc' = [pc EXCEPT ![app] = "ready"]
          /\ unsent' = unsent \ Span(request[app])
          /\ UNCHANGED <<shadow, request, target, pos, dmx_data_r, dmx_addr_r, dmx_size_r,
                         transmit, array>>
      BY <2>8 DEF WriteControl, HardwareIdle, registers
    <3>3. TypeOK' /\ pc'[app] = "ready"
      BY <3>1, <3>2 DEF TypeOK
    <3>4. RegistersOf(app)'
      BY <3>1, <3>2, <3>3 DEF RegistersOf
    <3>5. ShadowAhead(app)'
      BY <3>1, <3>2, <3>3 DEF ShadowAhead
    <3>6. BulkAt(app)'
      BY <3>2, <3>3 DEF BulkAt
    <3> QED
      BY <3>3, <3>4, <3>5, <3>6
  <2>9. CASE FsmIdle
    <3>1. start' \in BOOLEAN /\ ~start' /\ transmit' \in BOOLEAN /\ transmit'
      BY <2>9, Zenon DEF FsmIdle
    <3>2. /\ start /\ ~transmit /\ array' = Commit
          /\ UNCHANGED <<shadow, pc, request, target, pos, dmx_data_r, dmx_addr_r,
                         dmx_size_r, unsent>>
      BY <2>9 DEF FsmIdle, software, registers
    <3>3. request[app] \in Request /\ array \in [Cell -> Byte] /\ pc[app] = "ready"
      BY <3>2 DEF TypeOK, RegistersOf
    <3>4. array' = Apply(array, request[app])
      BY <3>2, <3>3, CommitIsApply DEF RegistersOf
    <3>5. array' \in [Cell -> Byte] /\ array' = Apply(array', request[app])
      BY <3>3, <3>4, ApplyType, ApplyTwice
    <3>6. TypeOK'
      BY <3>1, <3>2, <3>5 DEF TypeOK
    <3> QED
      BY <3>1, <3>2, <3>3, <3>4, <3>5, <3>6 DEF RegistersOf, ShadowAhead, BulkAt
  <2>10. CASE FsmTransmit
    <3>1. transmit' \in BOOLEAN /\ ~transmit'
      BY <2>10, Zenon DEF FsmTransmit
    <3>2. /\ transmit /\ array' = Commit
          /\ UNCHANGED <<shadow, pc, request, target, pos, dmx_data_r, dmx_addr_r,
                         dmx_size_r, start, unsent>>
      BY <2>10 DEF FsmTransmit, software, registers
    <3>3. request[app] \in Request /\ array \in [Cell -> Byte] /\ ~start
      BY <3>2 DEF TypeOK, RegistersOf
    <3>4. array' = array
      BY <3>2, <3>3, CommitIsApply DEF RegistersOf, ShadowAhead
    <3>5. TypeOK'
      BY <3>1, <3>2, <3>4 DEF TypeOK
    <3> QED
      BY <3>1, <3>2, <3>3, <3>4, <3>5 DEF RegistersOf, ShadowAhead, BulkAt
  <2>11. CASE UNCHANGED writeVars
    <3>1. UNCHANGED <<shadow, pc, request, target, pos, dmx_data_r, dmx_addr_r,
                      dmx_size_r, start, transmit, array, unsent>>
      BY <2>11 DEF writeVars, software, registers
    <3> QED
      BY <3>1 DEF TypeOK, RegistersOf, ShadowAhead, BulkAt
  <2>12. CASE WriteFails(app)
    <3>1. /\ pc[app] # "ready" /\ ~start /\ ~transmit
          /\ pc' = [pc EXCEPT ![app] = "ready"] /\ pos' = [pos EXCEPT ![app] = 0]
          /\ target' = [target EXCEPT ![app] = NoTarget]
          /\ unsent' = unsent \cup Span(request[app])
          /\ UNCHANGED <<shadow, request, dmx_data_r, dmx_addr_r, dmx_size_r, start,
                         transmit, array>>
      BY <2>12 DEF WriteFails, HardwareIdle, registers
    <3>2. request[app] \in Request
      BY DEF TypeOK
    <3>3. TypeOK' /\ pc'[app] = "ready" /\ pos'[app] = 0
      BY <3>1, <3>2, SpanInArray, Sizes DEF TypeOK, NoTarget
    <3>4. RegistersOf(app)' /\ BulkAt(app)'
      BY <3>1, <3>3 DEF RegistersOf, BulkAt
    <3>5. ASSUME NEW i \in Cell \ unsent' PROVE shadow[i] = array[i]
      <4>1. i \notin unsent /\ i \notin Span(request[app])
        BY <3>1
      <4>2. shadow[i] = Apply(array, request[app])[i]
        BY <3>1, <4>1 DEF ShadowAhead
      <4> QED
        BY <3>2, <4>1, <4>2, ApplyOff
    <3>6. ShadowAhead(app)'
      BY <3>1, <3>3, <3>5 DEF ShadowAhead
    <3> QED
      BY <3>3, <3>4, <3>6
  <2> QED
    BY <2>1, <2>2, <2>3, <2>4, <2>5, <2>6, <2>7, <2>8, <2>9, <2>10, <2>11,
       <2>12 DEF Next, Thread
<1> QED
  BY <1>1, <1>2, PTL DEF Spec

\* One writer, register writes that may fail: between calls the shadow array is what the
\* FPGA sends, but for the cells of failed calls that no later call has covered, and a
\* bulk load has loaded every cell it has passed (DefaultDMX.setDMX).
THEOREM DmxSafe ==
  ASSUME NEW app, Writers = {app}
  PROVE  Spec => [](TypeOK /\ ShadowMatchesHardware /\ BulkPrefixLoaded)
<1>1. DmxInv(app) => TypeOK /\ ShadowMatchesHardware /\ BulkPrefixLoaded
  <2> SUFFICES ASSUME DmxInv(app)
               PROVE  TypeOK /\ ShadowMatchesHardware /\ BulkPrefixLoaded
    OBVIOUS
  <2>1. TypeOK
    BY DEF DmxInv
  <2>2. Quiet => \A i \in Cell \ unsent : shadow[i] = array[i]
    BY DEF DmxInv, ShadowAhead, Quiet, HardwareIdle
  <2>3. ASSUME Quiet, pos[app] > 0, NEW i \in 1 .. pos[app] - 1, pos[app] <= N + 1
        PROVE  array[i] = target[app][i]
    <3>1. pos[app] \in 0 .. N + Lanes
      BY <2>1 DEF TypeOK
    <3>2. i \in 1 .. N /\ i < pos[app]
      BY <2>3, <3>1, Sizes
    <3>3. pc[app] = "ready" /\ i \in Cell
      BY <2>3, <3>2, Sizes DEF Quiet, Cell
    <3>4. shadow[i] = target[app][i] /\ i \notin unsent
      BY <2>3, <3>2, <3>3 DEF DmxInv, BulkAt
    <3> QED
      BY <2>2, <2>3, <3>3, <3>4
  <2>4. ASSUME pos[app] > 0 PROVE pos[app] <= N + 1
    <3>1. PICK q \in Nat : pos[app] = q * Lanes + 1
      BY <2>4 DEF DmxInv, BulkAt
    <3>2. pos[app] <= N + Lanes /\ q * Lanes \in Int
      BY <2>1, Sizes DEF TypeOK
    <3> QED
      BY <3>1, <3>2, LastPos, Sizes
  <2> QED
    BY <2>1, <2>2, <2>3, <2>4 DEF ShadowMatchesHardware, BulkPrefixLoaded
<1> QED
  BY <1>1, DmxInvariant, PTL

\* One writer: the register protocol and the FPGA implement the array that the
\* DMXDriver interface describes.  The two commits of a call are one effect.
THEOREM DmxRefines ==
  ASSUME NEW app, Writers = {app}
  PROVE  Spec => ImplementsArray
<1>1. Init => ArrayInit
  BY DEF Init
<1>2. DmxInv(app) /\ [Next]_writeVars => [ArrayNext]_<<array, request>>
  <2> SUFFICES ASSUME DmxInv(app), [Next]_writeVars
               PROVE  [ArrayNext]_<<array, request>>
    OBVIOUS
  <2>1. ASSUME NEW r \in Request, Call(app, r) PROVE ArrayNext
    BY <2>1 DEF ArrayNext, Ask, Call
  <2>2. CASE SetFew(app)
    BY <2>1, <2>2, DmxWriteAssumption DEF SetFew
  <2>3. CASE NextChunk(app)
    BY <2>1, <2>3, NextChunkCall DEF NextChunk
  <2>4. CASE FsmIdle \/ FsmTransmit
    <3>1. start \/ transmit
      BY <2>4 DEF FsmIdle, FsmTransmit
    <3>2. array' = Commit /\ request' = request
      BY <2>4 DEF FsmIdle, FsmTransmit, software
    <3>3. array' = Apply(array, request[app])
      BY <3>1, <3>2, CommitIsApply DEF DmxInv, TypeOK, RegistersOf
    <3> QED
      BY <3>2, <3>3 DEF ArrayNext, SetDMX
  <2>5. CASE SetAll(app) \/ SetAllReturns(app)
    BY <2>5 DEF SetAll, SetAllReturns
  <2>6. CASE \/ WriteData(app) \/ WriteAddr(app) \/ WriteSize(app) \/ WriteControl(app)
             \/ WriteFails(app)
    BY <2>6 DEF WriteData, WriteAddr, WriteSize, WriteControl, WriteFails
  <2>7. CASE UNCHANGED writeVars
    BY <2>7 DEF writeVars, software
  <2> QED
    BY <2>2, <2>3, <2>4, <2>5, <2>6, <2>7 DEF Next, Thread
<1> QED
  BY <1>1, <1>2, DmxInvariant, PTL DEF Spec, ImplementsArray, ArraySpec

\* Any number of writers, whatever they leave in the registers: no commit reaches
\* the start code (address 0 of dmx512.sv).
THEOREM StartCodeSafe == Spec => []StartCodeZero
<1>1. 0 \in Cell
  BY Sizes DEF Cell
<1>2. Init => StartCodeZero
  BY <1>1 DEF Init, ArrayInit, StartCodeZero
<1>3. StartCodeZero /\ [Next]_writeVars => StartCodeZero'
  <2> SUFFICES ASSUME StartCodeZero, [Next]_writeVars PROVE StartCodeZero'
    OBVIOUS
  <2>1. Commit[0] = array[0]
    BY <1>1 DEF Commit
  <2>2. array' = array \/ array' = Commit
    <3>1. ASSUME NEW w \in Writers, Thread(w) PROVE array' = array
      BY <3>1 DEF Thread, SetFew, SetAll, NextChunk, SetAllReturns, Call, WriteData,
                  WriteAddr, WriteSize, WriteControl, WriteFails
    <3> QED
      BY <3>1 DEF Next, FsmIdle, FsmTransmit, writeVars
  <2> QED
    BY <2>1, <2>2 DEF StartCodeZero
<1> QED
  BY <1>2, <1>3, PTL DEF Spec
=============================================================================
