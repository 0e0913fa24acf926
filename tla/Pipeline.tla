------------------------------- MODULE Pipeline -------------------------------
(***************************************************************************)
(* The single-device code as its callers meet it: orthocache_forward       *)
(* (pipeline.py), which computes the mask with the spectral gates and      *)
(* attends through compaction or through the mask, and callers who bring a *)
(* mask of their own to the paths of Compaction and LocalAttention.        *)
(***************************************************************************)
EXTENDS LocalAttention, SpectralGate

CONSTANTS
  CacheBlocks,   \* head -> block: what the heads of a block of a cache hold
  CallQueries,   \* head -> its queries
  Taus,          \* the thresholds a caller passes, NoTau for None
  ZetaMaxima

ASSUME CallsAreWellFormed ==
  /\ IsFiniteSet(Heads) /\ Heads # {}
  /\ CacheBlocks \subseteq [Heads -> Blocks] /\ CallQueries \subseteq [Heads -> QuerySets]
  /\ Taus \ {NoTau} \subseteq Int

Modes == {"compact", "sparse", "dense", "unknown"}

Calls == [queries : CallQueries, keys : [LocalBlocks -> CacheBlocks], tau : Taus,
          zetaMax : ZetaMaxima, mode : Modes]

VARIABLES
  call,       \* the arguments of orthocache_forward, Absent for other callers
  pc,         \* direct; called, gated, compacted, returned or raised
  metadata,   \* retained, evicted and compacted blocks
  output      \* head -> what orthocache_forward returns

forwardVars == <<call, pc, metadata, output>>
pipelineVars == <<vars, out, forwardVars>>

-----------------------------------------------------------------------------
\* What a call starts from; a mask that is not passed has to be computed.
PipelineInit ==
  /\ out = [p \in Paths |-> Absent]
  /\ metadata = Absent
  /\ output = Absent
  /\ \/ Init /\ call = Absent /\ pc = "direct"
     \/ /\ call \in Calls /\ pc = "called"
        /\ onTpu \in BOOLEAN
        /\ mask = Absent
        /\ indices = Absent /\ numActive = Absent /\ compact = Absent
        /\ restored = Absent /\ compactOut = Absent /\ sparseOut = Absent

\* A caller of compaction.py and sparse_attention.py, or of another path.
DirectCompaction ==
  /\ pc = "direct"
  /\ \A p \in Paths : out[p] = Absent
  /\ Next
  /\ UNCHANGED <<out, forwardVars>>

DirectCall ==
  /\ pc = "direct"
  /\ compact = Absent /\ sparseOut = Absent
  /\ CallPath
  /\ UNCHANGED forwardVars

-----------------------------------------------------------------------------
\* mode == 'dense': nothing is analysed and no block is counted.
ReturnDense ==
  /\ pc = "called" /\ call.mode = "dense"
  /\ output' = DenseAttention
  /\ pc' = "returned"
  /\ UNCHANGED <<vars, out, call, metadata>>

\* Faulty variant of EvictionStats: counts the entries of the mask.
EntryStats(m) ==
  LET retained == Cardinality({e \in LocalBlocks \X Heads : m[e[1]][e[2]]})
  IN [retained |-> retained, evicted |-> NB - retained, compacted |-> Absent]

\* blocks_retained and blocks_evicted: a block is retained by any head.
EvictionStats(m) ==
  LET retained == NumActive(BlockActive(m), NB)
  IN [retained |-> retained, evicted |-> NB - retained, compacted |-> Absent]

\* The spectral analysis, up to the statistics; the mode is looked at later.
Gate ==
  /\ pc = "called" /\ call.mode # "dense"
  /\ mask' = MultibandMask(call.queries, call.keys, call.tau, call.zetaMax)
  /\ metadata' = EvictionStats(mask')
  /\ pc' = "gated"
  /\ UNCHANGED <<onTpu, indices, numActive, compact, restored, compactOut, sparseOut,
                 out, call, output>>

\* orthocache_attention_partitioned, which on one device is
\* compact_and_attend: stream_compact, then attention to what it returns.
ForwardCompact ==
  /\ pc = "gated" /\ call.mode = "compact"
  /\ Compact
  /\ pc' = "compacted"
  /\ UNCHANGED <<out, call, metadata, output>>

ForwardCompactAttend ==
  /\ pc = "compacted"
  /\ CompactAttend
  /\ output' = compactOut'
  /\ metadata' = [metadata EXCEPT !.compacted = metadata.retained]
  /\ pc' = "returned"
  /\ UNCHANGED <<out, call>>

ForwardSparse ==
  /\ pc = "gated" /\ call.mode = "sparse"
  /\ SparseAttend
  /\ output' = sparseOut'
  /\ pc' = "returned"
  /\ UNCHANGED <<out, call, metadata>>

\* ValueError, after all of the analysis.
UnknownMode ==
  /\ pc = "gated" /\ call.mode = "unknown"
  /\ pc' = "raised"
  /\ UNCHANGED <<vars, out, call, metadata, output>>

Forward ==
  \/ ReturnDense \/ Gate
  \/ ForwardCompact \/ ForwardCompactAttend
  \/ ForwardSparse \/ UnknownMode

PipelineNext == DirectCompaction \/ DirectCall \/ Forward

PipelineSpec == PipelineInit /\ [][PipelineNext]_pipelineVars

-----------------------------------------------------------------------------
\* What a call without mode='dense' has returned.
Evicting == pc = "returned" /\ call.mode # "dense"

\* The logits of the tokens of a block, scaled like the bounds.
Logits ==
  [queries \in QuerySets |-> [b \in Blocks |->
     {N * Dot(q, [d \in Dims |-> Keys[b][d][t]]) : q \in queries, t \in Tokens}]]

\* "Blocks with bound >= tau are retained" (spectral_energy.py:188): the bound
\* is an upper bound ("logit upper bounds", :152), so whatever a call does to
\* evict, cut off and reorder blocks, a block with a token whose logit reaches
\* tau for some query and that is no noise takes part in what is returned.
RelevantIsWeighed ==
  Evicting =>
    LET scores == Scores(call.queries, call.keys) IN
    \A b \in LocalBlocks, hd \in Heads :
      LET block == call.keys[b][hd] IN
      Coherent(block, call.zetaMax) /\ b \notin Weighed(output[hd]) =>
        \A v \in Logits[call.queries[hd]][block] : ~TauAtMost(call.tau, v, scores)

\* "computed automatically as mean - 1 sigma of the logit bounds"
\* (pipeline.py:59): with tau=None and blocks that are all coherent, at least
\* half of the entries of the mask are kept and the block with the largest
\* bound is one of them; attention never ends up with nothing.
AutoTauKeepsHalf ==
  Evicting /\ call.tau = NoTau
  /\ (\A b \in LocalBlocks, hd \in Heads : Coherent(call.keys[b][hd], call.zetaMax)) =>
    LET scores == Scores(call.queries, call.keys)
        kept   == {i \in DOMAIN scores : mask[i[1]][i[2]]}
    IN /\ 2 * Cardinality(kept) >= Cardinality(DOMAIN scores)
       /\ \E i \in kept : \A k \in DOMAIN scores : scores[k] <= scores[i]

\* "eviction stats" (pipeline.py:71): the blocks the metadata counts are the
\* blocks the output was made of: the retained ones take part in the output of
\* some head and the evicted ones in none.  On a backend without Pallas it
\* does not hold of mode='sparse' for a head that evicts everything, which
\* attends to everything (KeptHeadsAgree).
StatsCountWeighed ==
  Evicting /\ (call.mode = "compact" \/ onTpu) =>
    /\ metadata.retained = Cardinality(UNION {Weighed(output[hd]) : hd \in Heads})
    /\ metadata.retained + metadata.evicted = NB
    /\ call.mode = "compact" =>
         \A hd \in Heads : metadata.compacted = Cardinality(Weighed(output[hd]))

\* "This function implements the mathematical behavior of the Pallas sparse
\* attention kernel" (sparse_attention.py:14): for a head that keeps a block
\* the fallback returns what the kernel would have returned.  (For a head that
\* keeps none it does not: the kernel returns zeros, the fallback the mean of
\* all blocks.)
KeptHeadsAgree ==
  sparseOut # Absent =>
    \A hd \in Heads :
      IF Kept(HeadMask(hd)) # {} THEN sparseOut[hd] = PallasMean(Cache, HeadMask(hd))
      ELSE sparseOut[hd] = IF onTpu THEN ZeroOutput ELSE DenseAttention[hd]
=============================================================================
