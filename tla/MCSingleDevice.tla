--------------------------- MODULE MCSingleDevice ---------------------------
(***************************************************************************)
(* Caches and queries for TLC: blocks of four tokens in two dimensions,    *)
(* whose norms are whole.  They are constant, or oscillate in the low band *)
(* (rapid) or in the high band (halves).                                   *)
(***************************************************************************)
EXTENDS Pipeline

Constant(a) == [t \in Tokens |-> a]
Rapid(a)    == [t \in Tokens |-> IF t % 2 = 0 THEN a ELSE -a]
Halves(a)   == [t \in Tokens |-> IF 2 * t < N THEN a ELSE -a]
Shifted(f)  == [t \in Tokens |-> f[t] + 1]

Names == {"near", "away", "mixed", "noise", "weak"}

KeysOf ==
  [n \in Names |->
     CASE n = "near"  -> <<Constant(2), Constant(0)>>
       [] n = "away"  -> <<Constant(-3), Constant(1)>>
       [] n = "mixed" -> <<Shifted(Rapid(3)), Rapid(4)>>
       [] n = "noise" -> <<Halves(3), Halves(4)>>
       [] n = "weak"  -> <<Rapid(0), Rapid(1)>>]

\* The heads of a block hold the same, or differ.
Same(n)      == [hd \in Heads |-> n]
Differ(m, n) == [hd \in Heads |-> IF hd = CHOOSE g \in Heads : TRUE THEN m ELSE n]

SomeBlocks == {Same("near"), Same("away"), Differ("mixed", "noise"), Differ("weak", "mixed")}

\* One query, or two that point away from each other.
OneQuery   == {<<3, 4>>}
TwoQueries == {<<1, 0>>, <<-4, 3>>}
Asked       == {OneQuery, TwoQueries}
SomeQueries == {[hd \in Heads |-> OneQuery], [hd \in Heads |-> TwoQueries]}
=============================================================================
