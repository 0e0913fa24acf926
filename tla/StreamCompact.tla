---------------------------- MODULE StreamCompact ----------------------------
(***************************************************************************)
(* Sort-based stream compaction, the building block every attention path   *)
(* of OrthoCache starts from.  A mask is a function from the block indices *)
(* 0..n-1 to BOOLEAN (TRUE = retained); compaction returns a permutation   *)
(* of the indices whose first NumActive entries are the retained blocks.   *)
(* The source sorts on two different key arrays: distributed_attention.py  *)
(* and phase_e_stratified.py on distinct keys, alltoallv.py, compaction.py *)
(* and the benchmarks on the negated mask, relying on a stable sort.       *)
(***************************************************************************)
EXTENDS Integers, FiniteSets

Indices(n) == 0 .. (n - 1)

(***************************************************************************)
(* jnp.argsort(key, stable=True) on an array of length n: position i of    *)
(* the result holds the one entry that exactly i entries come before.      *)
(***************************************************************************)
Before(key, a, b) == key[a] < key[b] \/ (key[a] = key[b] /\ a < b)

Rank(key, n, b) == Cardinality({a \in Indices(n) : Before(key, a, b)})

ArgSort(key, n) ==
  [i \in Indices(n) |-> CHOOSE b \in Indices(n) : Rank(key, n, b) = i]

\* jnp.sum(block_mask)
NumActive(mask, n) == Cardinality({b \in Indices(n) : mask[b]})

\* jnp.where(mask, iota, n + iota): no two keys are equal
FrontKey(mask, n) == [b \in Indices(n) |-> IF mask[b] THEN b ELSE n + b]

\* -mask.astype(int32): only stability keeps the retained blocks in order
NegatedKey(mask, n) == [b \in Indices(n) |-> IF mask[b] THEN -1 ELSE 0]

ActiveIndices(mask, n) == ArgSort(FrontKey(mask, n), n)

ActiveIndicesByMask(mask, n) == ArgSort(NegatedKey(mask, n), n)

=============================================================================
