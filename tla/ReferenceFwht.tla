---------------------------- MODULE ReferenceFwht ----------------------------
(***************************************************************************)
(* numpy_fwht_1d of reference.py: the same transform in place, a butterfly *)
(* per step.  In the middle of a stage some pairs hold their results and   *)
(* others their operands.                                                  *)
(***************************************************************************)
EXTENDS WalshHadamard

CONSTANT Inputs    \* the columns that are transformed

ASSUME InputsAreColumns == Inputs \subseteq [Tokens -> Int]

VARIABLES input, x, h, j

referenceVars == <<input, x, h, j>>

-----------------------------------------------------------------------------
ReferenceInit ==
  /\ input \in Inputs
  /\ x = input
  /\ h = 1
  /\ j = 0

\* The next j of the two inner loops: on within the group, or to the next.
NextPair(k, size) == IF (k + 1) % size # 0 THEN k + 1 ELSE k + 1 + size

\* The loops over j, i and h.
Advance(next) == IF next < N THEN j' = next /\ h' = h ELSE j' = 0 /\ h' = 2 * h

\* Faulty variant of Butterfly: x[j] is overwritten before it is read again.
ButterflyWithoutCopy ==
  /\ h < N
  /\ x' = [x EXCEPT ![j] = x[j] + x[j + h], ![j + h] = (x[j] + x[j + h]) - x[j + h]]
  /\ Advance(NextPair(j, h))
  /\ UNCHANGED input

\* u, v = x[j], x[j + h]; x[j], x[j + h] = u + v, u - v
Butterfly ==
  /\ h < N
  /\ x' = [x EXCEPT ![j] = x[j] + x[j + h], ![j + h] = x[j] - x[j + h]]
  /\ Advance(NextPair(j, h))
  /\ UNCHANGED input

ReferenceSpec ==
  ReferenceInit /\ [][Butterfly]_referenceVars /\ WF_referenceVars(Butterfly)

-----------------------------------------------------------------------------
\* The operands of the running stage: the pairs below j are undone.
StageStart ==
  [t \in Tokens |->
     LET low == Low(t, h) IN
     IF h >= N \/ low >= j THEN x[t]
     ELSE IF t = low THEN (x[t] + x[t + h]) \div 2
     ELSE (x[low] - x[t]) \div 2]

Staged == INSTANCE Fwht WITH x <- StageStart

\* The in-place loops implement the unrolled stages (the test of fwht_512
\* takes their result for the reference, tests/test_fwht.py:13-20): no
\* butterfly reads an operand that an earlier one of its stage has overwritten.
ImplementsFwht == Staged!FwhtSpec

Sign(k, t) ==
  LET Bit(n, p) == (n \div p) % 2 = 1
      common    == {p \in Tokens \ {0} : IsPowerOfTwo(p) /\ Bit(k, p) /\ Bit(t, p)}
  IN IF Cardinality(common) % 2 = 0 THEN 1 ELSE -1

\* What both compute: coefficient k correlates the column with the k-th Walsh
\* function, in the order of Hadamard's matrix; so does the transform that the
\* gates are built on.
WalshCoefficients ==
  h >= N =>
    /\ \A k \in Tokens : x[k] = Total([t \in Tokens |-> Sign(k, t) * input[t]])
    /\ x = Transform(input)

\* "Computes the spatial energy of keys per block (Parseval equivalent)"
\* (spectral_energy.py:22): the energy of the keys, the spectral energy of the
\* reference and the sum over the DC coefficient and the bands are one number.
Parseval ==
  h >= N =>
    /\ Energy(x, Tokens) = N * Energy(input, Tokens)
    /\ x[0] * x[0] + Energy(x, LowBand) + Energy(x, MidBand) + Energy(x, HighBand)
         = N * Energy(input, Tokens)
=============================================================================
