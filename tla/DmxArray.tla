------------------------------- MODULE DmxArray -------------------------------
(***************************************************************************)
(* What the DMXDriver interface promises: an array of DMX values, written  *)
(* by several threads, in which one call sets a few adjacent bytes and     *)
(* alters no others.                                                       *)
(***************************************************************************)
EXTENDS Integers, Sequences

CONSTANTS
  N,        \* last DMX address (512)
  Lanes,    \* most bytes one call sets (4)
  Byte,     \* byte values, 0 among them
  Writers   \* threads of the server that call the driver

ASSUME DmxArrayAssumption ==
  /\ N \in Nat \ {0} /\ Lanes \in Nat \ {0, 1}
  /\ \E q \in 1 .. N : N = q * Lanes
  /\ 0 \in Byte

Cell == 0 .. N

\* A call setDMX(addr, vals...) that stays inside the array
Request ==
  UNION {[addr : 1 .. N + 1 - n, vals : [1 .. n -> Byte]] : n \in 1 .. Lanes}

VARIABLES
  array,    \* the values that go out on the wire
  request   \* per thread: its latest call

\* f after the call r
Apply(f, r) ==
  [i \in Cell |-> IF r.addr <= i /\ i < r.addr + Len(r.vals)
                  THEN r.vals[i - r.addr + 1]
                  ELSE f[i]]

ArrayInit ==
  /\ array = [i \in Cell |-> 0]
  /\ request = [w \in Writers |-> [addr |-> 1, vals |-> <<0>>]]

Ask(w, r) ==
  /\ request' = [request EXCEPT ![w] = r]
  /\ UNCHANGED array

\* The call of w takes effect, as a whole.
SetDMX(w) ==
  /\ array' = Apply(array, request[w])
  /\ UNCHANGED request

ArrayNext == \E w \in Writers : SetDMX(w) \/ \E r \in Request : Ask(w, r)

ArraySpec == ArrayInit /\ [][ArrayNext]_<<array, request>>
=============================================================================
