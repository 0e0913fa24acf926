------------------------------ MODULE Compaction ------------------------------
(***************************************************************************)
(* Single-device compaction (compaction.py) and the block-sparse attention *)
(* it feeds (sparse_attention.py).  A caller compacts a KV cache, attends  *)
(* through the compacted copy or through the mask, and may scatter the     *)
(* copy back.  Unlike the distributed code the mask has a column per head. *)
(*                                                                         *)
(* Keys and values go through identical gathers, so one buffer stands for  *)
(* both; a block is named by its index.  An output is the mean of a bag of *)
(* blocks; a mean of nothing but zeros is zero.                            *)
(***************************************************************************)
EXTENDS StreamCompact

CONSTANTS
  NB,          \* number of blocks
  Heads,       \* attention heads
  ZeroBlock,   \* a block of zeros
  ZeroOutput,  \* an output of zeros
  Absent       \* not computed yet

ASSUME NBIsPositive == NB \in Nat \ {0}

LocalBlocks == Indices(NB)

ASSUME PaddingIsNoBlock == ZeroBlock \notin LocalBlocks

\* A mean of blocks is a bag of them.
ASSUME ZeroOutputIsNoMean ==
  \A S \in SUBSET (LocalBlocks \cup {ZeroBlock}) : S # {} => ZeroOutput \notin [S -> Nat]

VARIABLES
  mask,         \* block -> head -> block_mask
  onTpu,        \* the backend compile_pallas_sparse_attention finds
  indices, numActive, compact,   \* results of stream_compact
  restored,     \* result of stream_decompact
  compactOut,   \* head -> output of compact_and_attend
  sparseOut     \* head -> output of compile_pallas_sparse_attention

vars == <<mask, onTpu, indices, numActive, compact, restored, compactOut, sparseOut>>

-----------------------------------------------------------------------------
Cache == [b \in LocalBlocks |-> b]

\* Faulty variant of BlockActive: a block must be retained by every head.
ActiveForAll(m) == [b \in LocalBlocks |-> \A h \in Heads : m[b][h]]

\* jnp.any(block_mask, axis=-1)
BlockActive(m) == [b \in LocalBlocks |-> \E h \in Heads : m[b][h]]

\* keys_blocked[active_indices], zeroed from position n on
Gather(blocks, source, n) ==
  [i \in LocalBlocks |-> IF i < n THEN blocks[source[i]] ELSE ZeroBlock]

\* output.at[active_indices].set(...): position source[i] gets entry i
Scatter(entries, source) ==
  [b \in LocalBlocks |-> entries[CHOOSE i \in LocalBlocks : source[i] = b]]

\* Faulty variant of ScatteredMask: positions instead of their origins.
UnscatteredMask(source, n) == [b \in LocalBlocks |-> b < n]

\* is_active.at[active_indices].set(position_mask)
ScatteredMask(source, n) == Scatter([i \in LocalBlocks |-> i < n], source)

\* A softmax-weighted mean over the blocks at the positions S.
Mean(blocks, S) ==
  IF \A i \in S : blocks[i] = ZeroBlock
  THEN ZeroOutput
  ELSE [b \in {blocks[i] : i \in S} |-> Cardinality({i \in S : blocks[i] = b})]

Kept(keep) == {i \in LocalBlocks : keep[i]}

\* Faulty variant of JaxMean: the mask is not applied.
UnmaskedMean(blocks, keep) == Mean(blocks, LocalBlocks)

\* jax_block_sparse_attention: evicted logits are -1e9, which leaves them out
\* unless nothing is kept; then all logits are equal.
JaxMean(blocks, keep) ==
  Mean(blocks, IF Kept(keep) = {} THEN LocalBlocks ELSE Kept(keep))

\* pallas_sparse_attention_kernel: only kept blocks enter the accumulators,
\* which are divided by at least 1e-9.
PallasMean(blocks, keep) == Mean(blocks, Kept(keep))

SparseAttention(blocks, keep) ==
  IF onTpu THEN PallasMean(blocks, keep) ELSE JaxMean(blocks, keep)

-----------------------------------------------------------------------------
Init ==
  /\ mask \in [LocalBlocks -> [Heads -> BOOLEAN]]
  /\ onTpu \in BOOLEAN
  /\ indices = Absent
  /\ numActive = Absent
  /\ compact = Absent
  /\ restored = Absent
  /\ compactOut = Absent
  /\ sparseOut = Absent

\* stream_compact
Compact ==
  LET active == BlockActive(mask) IN
  /\ compact = Absent
  /\ indices' = ActiveIndicesByMask(active, NB)
  /\ numActive' = NumActive(active, NB)
  /\ compact' = Gather(Cache, indices', numActive')
  /\ UNCHANGED <<mask, onTpu, restored, compactOut, sparseOut>>

\* stream_decompact of the compacted cache
Decompact ==
  LET isActive == ScatteredMask(indices, numActive)
      output   == Scatter(compact, indices)
  IN
  /\ compact # Absent
  /\ restored = Absent
  /\ restored' = [b \in LocalBlocks |-> IF isActive[b] THEN output[b] ELSE ZeroBlock]
  /\ UNCHANGED <<mask, onTpu, indices, numActive, compact, compactOut, sparseOut>>

\* compact_and_attend after its stream_compact: one mask for all heads
CompactAttend ==
  /\ compact # Absent
  /\ compactOut = Absent
  /\ compactOut' = [h \in Heads |->
                      SparseAttention(compact, [i \in LocalBlocks |-> i < numActive])]
  /\ UNCHANGED <<mask, onTpu, indices, numActive, compact, restored, sparseOut>>

\* compile_pallas_sparse_attention of the full cache: each head its own mask
SparseAttend ==
  /\ sparseOut = Absent
  /\ sparseOut' = [h \in Heads |->
                     SparseAttention(Cache, [b \in LocalBlocks |-> mask[b][h]])]
  /\ UNCHANGED <<mask, onTpu, indices, numActive, compact, restored, compactOut>>

Next == Compact \/ Decompact \/ CompactAttend \/ SparseAttend

Spec == Init /\ [][Next]_vars

-----------------------------------------------------------------------------
Union == {b \in LocalBlocks : \E h \in Heads : mask[b][h]}

\* "compact -> decompact should recover the original masked tensor"
\* (compaction.py:112-113): the scatter undoes the gather for the retained
\* blocks and what it drags along for the others is zeroed.
RoundTrip ==
  restored # Absent =>
    restored = [b \in LocalBlocks |->
                  IF \E h \in Heads : mask[b][h] THEN b ELSE ZeroBlock]

\* "Compacted attention output should match predicated sparse attention"
\* (tests/test_compaction.py:163): when all heads agree on the mask, as in
\* every test, and it keeps something, both paths return the same mean on
\* both backends; whatever the masks, no head of the compacted path loses a
\* block it retains, nor sees one that no head retains.
CompactMatchesSparse ==
  /\ compactOut # Absent =>
       \A h \in Heads : compactOut[h] = IF Union = {} THEN ZeroOutput
                                        ELSE [b \in Union |-> 1]
  /\ compactOut # Absent /\ sparseOut # Absent /\ Union # {}
     /\ (\A b \in LocalBlocks : \A g, h \in Heads : mask[b][g] = mask[b][h])
       => compactOut = sparseOut

=============================================================================
