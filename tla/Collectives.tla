----------------------------- MODULE Collectives -----------------------------
(***************************************************************************)
(* The collectives of JAX's SPMD runtime, as the distributed code uses     *)
(* them (external: jax.lax.all_gather, pmax, all_to_all).  P devices run   *)
(* the same program; a collective is a rendezvous.  A device posts its     *)
(* operand for the n-th call of the program and cannot pass the collective *)
(* before every device has posted for that same call.  Devices are free to *)
(* be anywhere between two rendezvous, and the host may have dispatched    *)
(* the next call before the slowest device has finished this one.          *)
(***************************************************************************)
EXTENDS Integers, FiniteSets

CONSTANTS
  P,       \* number of devices along the mapped axis
  Calls,   \* number of times the program is dispatched (bounds the model)
  Absent   \* "nothing posted yet", "nothing computed yet"

ASSUME PIsPositive == P \in Nat \ {0}
ASSUME CallsIsNat  == Calls \in Nat

Devices == 0 .. (P - 1)

\* A channel holds the operands of one collective: call -> device -> operand.
EmptyChannel == [c \in 1 .. Calls |-> [d \in Devices |-> Absent]]

Post(channel, c, d, operand) == [channel EXCEPT ![c][d] = operand]

Complete(channel, c) == \A d \in Devices : channel[c][d] # Absent

\* all_gather(..., axis=0, tiled=True) of arrays of n rows: P*n rows, the
\* chunk of device d at rows d*n .. d*n + n-1.
TiledGather(operands, n) ==
  [s \in 0 .. (P * n - 1) |-> operands[s \div n][s % n]]

\* pmax of integers
MaxOver(operands) ==
  CHOOSE m \in {operands[d] : d \in Devices} :
    \A d \in Devices : operands[d] <= m

\* jnp.sum of an array of naturals, as the size of a disjoint union
SumOver(counts) ==
  Cardinality(UNION {{d} \X (0 .. (counts[d] - 1)) : d \in Devices})

=============================================================================
