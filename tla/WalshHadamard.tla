---------------------------- MODULE WalshHadamard ----------------------------
(***************************************************************************)
(* The Walsh-Hadamard transform of fwht.py, whole stages of butterflies on *)
(* a column of N numbers, and the bands of spectral_energy.py.  The        *)
(* division by sqrt(N) at the end is left to the users of the result,      *)
(* which compare squares: everything is whole.                             *)
(***************************************************************************)
EXTENDS Integers, FiniteSets, Functions

CONSTANTS
  N,           \* tokens of a block, 512 in the code
  LowEnd,      \* BAND_LOW is 1 .. LowEnd - 1
  HighStart    \* BAND_HIGH is HighStart .. N - 1

Tokens == 0 .. N - 1

\* All divisors but 1 are even.
IsPowerOfTwo(n) == \A m \in 2 .. n : n % m = 0 => m % 2 = 0

ASSUME NIsAPowerOfTwo == N \in Nat \ {0} /\ IsPowerOfTwo(N)

ASSUME BandsAreOrdered ==
  /\ LowEnd \in Nat /\ HighStart \in Nat
  /\ 1 <= LowEnd /\ LowEnd <= HighStart /\ HighStart <= N

\* Faulty variant of LowBand: the DC coefficient is counted.
LowBandWithDC == 0 .. LowEnd - 1

LowBand  == 1 .. LowEnd - 1
MidBand  == LowEnd .. HighStart - 1
HighBand == HighStart .. N - 1

\* Where the first operand of the butterfly that writes position t lies.
Low(t, h) == IF (t \div h) % 2 = 0 THEN t ELSE t - h

\* Faulty variant of Stage: the differences are taken the other way round.
SwappedStage(x, h) ==
  [t \in Tokens |-> IF Low(t, h) = t THEN x[t] + x[t + h] ELSE x[t] - x[t - h]]

\* One reshape and stack: the column is seen as (N / 2h, 2, h) and the two
\* halves of every group become their sum and their difference.
Stage(x, h) ==
  [t \in Tokens |-> IF Low(t, h) = t THEN x[t] + x[t + h] ELSE x[t - h] - x[t]]

\* The unrolled stages h = 1, 2, 4 .. N / 2 of fwht_512.
Transform(input) ==
  LET after[h \in 1 .. N] ==
        IF h = 1 THEN input ELSE Stage(after[h \div 2], h \div 2)
  IN after[N]

Total(x) == SumFunction(x)

Energy(x, S) == Total([t \in S |-> x[t] * x[t]])
=============================================================================
