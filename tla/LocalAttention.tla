---------------------------- MODULE LocalAttention ----------------------------
(***************************************************************************)
(* The other single-device attention paths: bucketed_attention.py,         *)
(* lean_attention.py, indirect_attention.py, sparse_attention_v2.py,       *)
(* dynamic_attention.py, xla_bridge.py and the custom call of the phase D  *)
(* notebook.  Each is a function of the cache and the mask; a behaviour    *)
(* calls one of them and keeps what it returned.                           *)
(***************************************************************************)
EXTENDS Compaction

CONSTANTS
  Raised,          \* what a call that ends in an exception leaves
  Undefined,       \* what one leaves that has written behind an array: anything
  CustomCapacity   \* the length of active_indices in the custom call, 4096

VARIABLE out      \* path -> what its call returned, Absent before

BucketPaths == {"bucketed", "lean", "indirect"}
KernelPaths == {"gated", "guarded"}
BridgePaths == {"compacted", "compactedSized", "predicated", "predicatedSized", "dense"}

Paths == BucketPaths \cup KernelPaths \cup BridgePaths \cup {"dynamic", "custom"}

-----------------------------------------------------------------------------
(* Compaction to a bucket.                                                 *)

BUCKETS == {1, 2, 4, 8, 16, 32, 64, 128, 256, 512}

\* Faulty variant of NextBucket: the largest bucket that is filled.
PreviousBucket(n) ==
  CHOOSE b \in BUCKETS : b <= n /\ \A c \in BUCKETS : c <= n => c <= b

\* _next_bucket: the first bucket that holds n blocks, n when none does.
NextBucket(n) ==
  IF \E b \in BUCKETS : b >= n
  THEN CHOOSE b \in BUCKETS : b >= n /\ \A c \in BUCKETS : c >= n => b <= c
  ELSE n

AnyHead   == BlockActive(mask)
Active    == NumActive(AnyHead, NB)
SortOrder == ActiveIndicesByMask(AnyHead, NB)

HeadMask(h)  == [b \in LocalBlocks |-> mask[b][h]]
First(n)     == {i \in LocalBlocks : i < n}
AllHeads(o)  == [h \in Heads |-> o]

\* What the three bucketed paths do around their attention: zeros when nothing
\* is active; a reshape, or a broadcast, to more blocks than there are raises.
InBucket(o) ==
  IF Active = 0 THEN AllHeads(ZeroOutput)
  ELSE IF NextBucket(Active) > NB THEN Raised
  ELSE AllHeads(o)

\* bucketed_attention: the whole bucket of the zero-padded copy is kept.
BucketedAttention ==
  InBucket(SparseAttention(Gather(Cache, SortOrder, Active),
                           [i \in LocalBlocks |-> i < NextBucket(Active)]))

\* lean_bucketed_attention: dense attention to the front of the order.
LeanBucketedAttention == InBucket(Mean(SortOrder, First(NextBucket(Active))))

\* indirect_attention: the kernel follows a table cut at the bucket.  It is
\* compiled by Pallas only, with no fallback for another backend.
IndirectAttention ==
  IF Active # 0 /\ ~onTpu THEN Raised
  ELSE InBucket(Mean(SortOrder, First(NextBucket(Active))))

-----------------------------------------------------------------------------
(* Predicated kernels, second version.                                     *)

\* _sparse_attention_kernel_v2: the accumulators change for kept blocks only.
KernelV2(h) == PallasMean(Cache, HeadMask(h))

\* _sparse_attention_kernel_v2_guarded: pl.when traces the guarded function
\* whatever the mask will be, and its nonlocal assignments are Python's, made
\* while tracing: the kernel is left with every block accumulated.
KernelV2Guarded(h) == Mean(Cache, LocalBlocks)

\* compile_pallas_sparse_attention_v2
SparseAttentionV2(usePlWhen) ==
  [h \in Heads |-> IF ~onTpu THEN JaxMean(Cache, HeadMask(h))
                   ELSE IF usePlWhen THEN KernelV2Guarded(h)
                   ELSE KernelV2(h)]

-----------------------------------------------------------------------------
(* The while_loop kernel and the custom call.                              *)

\* dynamic_compact_attention: the loop ends at num_active; what was not
\* accumulated is divided by at least 1e-9.
DynamicCompactAttention(blocks, n) == Mean(blocks, First(n))

\* dynamic_multihead_attention: one order and one count for all heads.
DynamicMultiheadAttention == AllHeads(DynamicCompactAttention(SortOrder, Active))

\* orthocache_compacted_attention: the active blocks of one head, in order;
\* zeros when there are none.
CustomCall(h) == Mean(Cache, {b \in LocalBlocks : mask[b][h]})

\* A call per head.  The list of active blocks is an array of fixed length, and
\* nothing compares the count with it.  (Nor the head dimension with the length
\* of r_out, which is 4096 too; the notebook's is 256.)
CustomAttention ==
  IF \E h \in Heads : NumActive(HeadMask(h), NB) > CustomCapacity THEN Undefined
  ELSE [h \in Heads |-> CustomCall(h)]

-----------------------------------------------------------------------------
(* The XLA bridge.                                                         *)

\* stream_compact sorts on distinct keys.
BridgeOrder == ActiveIndices(AnyHead, NB)

\* Faulty variant of CompactedAttention: one position too many is valid.
CompactedInclusive ==
  AllHeads(JaxMean(BridgeOrder, [i \in LocalBlocks |-> i <= Active]))

\* compacted_attention: the positions from the count on are masked by -1e9,
\* which leaves them out unless there is nothing else.
CompactedAttention ==
  AllHeads(JaxMean(BridgeOrder, [i \in LocalBlocks |-> i < Active]))

PredicatedAttention == [h \in Heads |-> JaxMean(Cache, HeadMask(h))]

DenseAttention == AllHeads(Mean(Cache, LocalBlocks))

\* jax.jit without static arguments: a block_size the caller passes is traced,
\* and a shape cannot be computed from it; only the default stays a constant.
Sized(o, sized) == IF sized THEN Raised ELSE o

-----------------------------------------------------------------------------
localVars == <<vars, out>>

Return(path, result) ==
  /\ \A p \in Paths : out[p] = Absent
  /\ out' = [out EXCEPT ![path] = result]
  /\ UNCHANGED vars

Bucketed   == Return("bucketed", BucketedAttention)
Lean       == Return("lean", LeanBucketedAttention)
Indirect   == Return("indirect", IndirectAttention)
Gated      == Return("gated", SparseAttentionV2(FALSE))
Guarded    == Return("guarded", SparseAttentionV2(TRUE))
Dynamic    == Return("dynamic", DynamicMultiheadAttention)
Custom     == Return("custom", CustomAttention)
Compacted  == \/ Return("compacted", Sized(CompactedAttention, FALSE))
              \/ Return("compactedSized", Sized(CompactedAttention, TRUE))
Predicated == \/ Return("predicated", Sized(PredicatedAttention, FALSE))
              \/ Return("predicatedSized", Sized(PredicatedAttention, TRUE))
Dense      == Return("dense", DenseAttention)

CallPath ==
  \/ Bucketed \/ Lean \/ Indirect
  \/ Gated \/ Guarded
  \/ Dynamic \/ Custom
  \/ Compacted \/ Predicated \/ Dense

-----------------------------------------------------------------------------
\* A result that is defined: of what undefined behaviour leaves nothing is said.
Returned(p) == out[p] \notin {Absent, Raised, Undefined}

\* The blocks of the cache that an output is a mean of.
Weighed(o) == IF o = ZeroOutput THEN {} ELSE DOMAIN o \ {ZeroBlock}

\* A path may weigh more than it should, but whatever it compacts, cuts off or
\* indexes indirectly, no head loses a block that it retains
\* ("block_mask: ... True = retain", sparse_attention_v2.py:139).
NoRetainedBlockLost ==
  \A p \in Paths : Returned(p) =>
    \A h \in Heads : {b \in LocalBlocks : mask[b][h]} \subseteq Weighed(out[p][h])

\* "Unified mask: retain block if ANY head says retain"
\* (dynamic_attention.py:130): the paths with one mask for all heads return
\* the mean of the union, each block once - the compacted ones always, the
\* bucketed ones when the count is a bucket - and the paths with a mask per
\* head return the mean of that head's blocks.
ExactPaths ==
  LET Exactly(S) == [b \in S |-> 1]
      Agrees(p, S, hd) == S # {} => out[p][hd] = Exactly(S)
  IN
  \A hd \in Heads :
    /\ \A p \in {"dynamic", "compacted"} : Returned(p) => Agrees(p, Union, hd)
    /\ \A p \in BucketPaths : Returned(p) /\ Active \in BUCKETS => Agrees(p, Union, hd)
    /\ \A p \in {"gated", "predicated", "custom"} :
         Returned(p) => Agrees(p, Kept(HeadMask(hd)), hd)

\* "Iterate over ONLY active blocks (bucket_size <= num_blocks)"
\* (indirect_attention.py:56), "All-true mask (every block in the compact
\* tensor is active)" (bucketed_attention.py:96).
BucketHoldsOnlyActive ==
  \A p \in BucketPaths : Returned(p) =>
    \A h \in Heads : out[p][h] # ZeroOutput => DOMAIN out[p][h] \subseteq Union

=============================================================================
