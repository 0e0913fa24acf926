----------------------------- MODULE MCSpectral -----------------------------
(***************************************************************************)
(* Columns for TLC.  Three values of both signs and different sizes make   *)
(* every butterfly see equal, opposite and unequal operands.               *)
(***************************************************************************)
EXTENDS ReferenceFwht

SmallColumns == [Tokens -> {-1, 0, 2}]
=============================================================================
