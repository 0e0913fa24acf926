----------------------------- MODULE MCSequency -----------------------------
(***************************************************************************)
(* The transform and the bands at the sizes of the code, on blocks that    *)
(* change sign a known number of times.                                    *)
(***************************************************************************)
EXTENDS Fwht

\* A block whose sign changes every run tokens.
Alternating(run) == [t \in Tokens |-> IF (t \div run) % 2 = 0 THEN 1 ELSE -1]

SquareWaves == {Alternating(1), Alternating(2), Alternating(N \div 2)}

\* "High-sequency (256-511): rapid oscillations / formatting noise"
\* (spectral_energy.py:12): a block that changes sign with almost every token
\* has no more energy in the low band than in the high one.
RapidIsHigh ==
  h >= N /\ Cardinality({t \in 1 .. N - 1 : input[t] # input[t - 1]}) >= N \div 2 - 1 =>
    Energy(x, LowBand) <= Energy(x, HighBand)
=============================================================================
