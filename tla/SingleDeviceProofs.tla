-------------------------- MODULE SingleDeviceProofs --------------------------
(***************************************************************************)
(* The single-device paths, for caches of any size, any number of heads    *)
(* and every mask: what they compact, cut off, index indirectly or scatter *)
(* back is what the mask retains.                                          *)
(***************************************************************************)
EXTENDS Pipeline, StreamCompactProofs, SpectralProofs

Masks == [LocalBlocks -> [Heads -> BOOLEAN]]

-----------------------------------------------------------------------------
(***************************************************************************)
(* The order that compaction sorts the blocks into.                        *)
(***************************************************************************)

\* Sorting the blocks of a mask is a permutation, the active ones first.
LEMMA OrderIsPermutation ==
  ASSUME NEW active \in [LocalBlocks -> BOOLEAN]
  PROVE  LET ix == ActiveIndicesByMask(active, NB)
             n  == NumActive(active, NB)
         IN /\ n \in 0 .. NB
            /\ ix \in [LocalBlocks -> LocalBlocks]
            /\ \A i \in LocalBlocks : active[ix[i]] <=> i < n
            /\ \A i, y \in LocalBlocks : ix[i] = ix[y] => i = y
            /\ \A b \in LocalBlocks : \E i \in LocalBlocks : ix[i] = b
<1> DEFINE ix == ActiveIndicesByMask(active, NB)
           n  == NumActive(active, NB)
           key == NegatedKey(active, NB)
<1>1. NB \in Nat /\ LocalBlocks = Indices(NB)
  BY NBIsPositive DEF LocalBlocks
<1>2. ix = ActiveIndices(active, NB)
  BY <1>1, BothSortsAgree
<1>3. /\ n \in 0 .. NB
      /\ ix \in [LocalBlocks -> LocalBlocks]
      /\ \A i \in LocalBlocks : active[ix[i]] <=> i < n
      /\ \A i, y \in LocalBlocks : ix[i] = ix[y] => i = y
  BY <1>1, <1>2, ActiveIndicesCorrect
<1>4. key \in [Indices(NB) -> Int]
  BY DEF NegatedKey
<1>5. \A b \in Indices(NB) : Rank(key, NB, b) \in Indices(NB)
                             /\ ArgSort(key, NB)[Rank(key, NB, b)] = b
  BY <1>1, <1>4, RankInRange, ArgSortLists
<1>6. \A b \in LocalBlocks : \E i \in LocalBlocks : ix[i] = b
  BY <1>1, <1>5 DEF ActiveIndicesByMask
<1> HIDE DEF ix, n
<1> QED
  BY <1>3, <1>6 DEF ix, n

LEMMA BlockActiveType ==
  ASSUME NEW m \in Masks
  PROVE  /\ BlockActive(m) \in [LocalBlocks -> BOOLEAN]
         /\ \A b \in LocalBlocks : BlockActive(m)[b] <=> \E hd \in Heads : m[b][hd]
  BY DEF BlockActive, Masks

\* The positions before the count list the blocks of the union, each once.
LEMMA FrontIsUnion ==
  ASSUME NEW m \in Masks
  PROVE  LET ix == ActiveIndicesByMask(BlockActive(m), NB)
             n  == NumActive(BlockActive(m), NB)
             U  == {b \in LocalBlocks : \E hd \in Heads : m[b][hd]}
         IN /\ n \in 0 .. NB
            /\ ix \in [LocalBlocks -> LocalBlocks]
            /\ \A i, y \in LocalBlocks : ix[i] = ix[y] => i = y
            /\ {ix[i] : i \in {k \in LocalBlocks : k < n}} = U
            /\ n = 0 <=> U = {}
            /\ \A i \in LocalBlocks : ix[i] \in U <=> i < n
<1> DEFINE ix == ActiveIndicesByMask(BlockActive(m), NB)
           n  == NumActive(BlockActive(m), NB)
           U  == {b \in LocalBlocks : \E hd \in Heads : m[b][hd]}
<1>1. /\ n \in 0 .. NB
      /\ ix \in [LocalBlocks -> LocalBlocks]
      /\ \A i \in LocalBlocks : BlockActive(m)[ix[i]] <=> i < n
      /\ \A i, y \in LocalBlocks : ix[i] = ix[y] => i = y
      /\ \A b \in LocalBlocks : \E i \in LocalBlocks : ix[i] = b
  BY OrderIsPermutation, BlockActiveType
<1>2. U \subseteq LocalBlocks /\ \A b \in LocalBlocks : BlockActive(m)[b] <=> b \in U
  BY BlockActiveType
<1> HIDE DEF ix, n, U
<1>3. \A i \in LocalBlocks : ix[i] \in U <=> i < n
  BY <1>1, <1>2
<1>4. {ix[i] : i \in {k \in LocalBlocks : k < n}} = U
  BY <1>1, <1>2, <1>3
<1>5. n = 0 <=> U = {}
  <2>1. NB \in Nat \ {0} /\ 0 \in LocalBlocks
    BY NBIsPositive DEF LocalBlocks, Indices
  <2>2. \A i \in LocalBlocks : i \in Nat
    BY DEF LocalBlocks, Indices
  <2>3. n > 0 => ix[0] \in U
    BY <1>3, <2>1
  <2>4. n = 0 => U = {}
    BY <1>1, <1>2, <1>3, <2>2
  <2> QED
    BY <1>1, <2>1, <2>3, <2>4
<1> QED
  BY <1>1, <1>3, <1>4, <1>5 DEF ix, n, U

-----------------------------------------------------------------------------
(***************************************************************************)
(* Means.                                                                  *)
(***************************************************************************)

\* A mean over different blocks, none of them padding, weighs each once.
LEMMA MeanOfDifferent ==
  ASSUME NEW blocks, NEW S \in SUBSET LocalBlocks, S # {},
         NEW T, T = {blocks[i] : i \in S},
         \A i \in S : blocks[i] # ZeroBlock,
         \A i, y \in S : blocks[i] = blocks[y] => i = y
  PROVE  Mean(blocks, S) = [b \in T |-> 1]
<1>1. ASSUME NEW i \in S
      PROVE  Cardinality({y \in S : blocks[y] = blocks[i]}) = 1
  <2>1. {y \in S : blocks[y] = blocks[i]} = {i}
    OBVIOUS
  <2> QED
    BY <2>1, FS_Singleton
<1>2. ASSUME NEW b \in {blocks[i] : i \in S}
      PROVE  Cardinality({y \in S : blocks[y] = b}) = 1
  BY <1>1, <1>2
<1> DEFINE there == {blocks[i] : i \in S}
           bag == [b \in there |-> Cardinality({i \in S : blocks[i] = b})]
<1>3. Mean(blocks, S) = IF \A i \in S : blocks[i] = ZeroBlock THEN ZeroOutput ELSE bag
  BY Zenon DEF Mean
<1>4. bag = [b \in there |-> 1]
  BY <1>2
<1>5. ~(\A i \in S : blocks[i] = ZeroBlock)
  OBVIOUS
<1> HIDE DEF bag
<1>6. Mean(blocks, S) = bag
  BY <1>3, <1>5
<1> QED
  BY <1>4, <1>6

\* What a mean over any positions weighs is what is there, padding excepted.
LEMMA MeanWeighs ==
  ASSUME NEW blocks, NEW S \in SUBSET LocalBlocks,
         \A i \in S : blocks[i] \in LocalBlocks \cup {ZeroBlock}
  PROVE  Weighed(Mean(blocks, S)) = {blocks[i] : i \in S} \ {ZeroBlock}
<1> DEFINE there == {blocks[i] : i \in S}
           bag == [b \in there |-> Cardinality({i \in S : blocks[i] = b})]
<1>1. CASE \A i \in S : blocks[i] = ZeroBlock
  BY <1>1 DEF Mean, Weighed
<1>2. CASE ~(\A i \in S : blocks[i] = ZeroBlock)
  <2>1. Mean(blocks, S) = IF \A i \in S : blocks[i] = ZeroBlock THEN ZeroOutput ELSE bag
    BY Zenon DEF Mean
  <2>2. ASSUME NEW b \in there
        PROVE  Cardinality({i \in S : blocks[i] = b}) \in Nat
    <3>1. IsFiniteSet(LocalBlocks)
      BY NBIsPositive, IndicesFinite DEF LocalBlocks
    <3>2. IsFiniteSet({i \in S : blocks[i] = b})
      BY <3>1, FS_Subset
    <3> QED
      BY <3>2, FS_CardinalityType
  <2>3. bag \in [there -> Nat]
    BY <2>2
  <2>4. there \in SUBSET (LocalBlocks \cup {ZeroBlock}) /\ there # {}
    BY <1>2
  <2>5. bag # ZeroOutput
    BY <2>3, <2>4, ZeroOutputIsNoMean
  <2>6. DOMAIN bag = there
    OBVIOUS
  <2> HIDE DEF bag
  <2> QED
    BY <1>2, <2>1, <2>5, <2>6 DEF Weighed
<1> QED
  BY <1>1, <1>2

\* The masked means are means over the kept positions, if there are any.
LEMMA MaskedMeans ==
  ASSUME NEW blocks, NEW keep, Kept(keep) # {}
  PROVE  /\ JaxMean(blocks, keep) = Mean(blocks, Kept(keep))
         /\ PallasMean(blocks, keep) = Mean(blocks, Kept(keep))
         /\ SparseAttention(blocks, keep) = Mean(blocks, Kept(keep))
  BY DEF JaxMean, PallasMean, SparseAttention

LEMMA KeptOfPrefix ==
  ASSUME NEW n \in Nat
  PROVE  Kept([i \in LocalBlocks |-> i < n]) = First(n)
  BY DEF Kept, First

LEMMA KeptOfHead ==
  ASSUME mask \in Masks, NEW hd \in Heads
  PROVE  Kept(HeadMask(hd)) = {b \in LocalBlocks : mask[b][hd]}
  BY DEF Kept, HeadMask

\* The mean of blocks of the cache weighs each of them once.
LEMMA MeanOfCache ==
  ASSUME NEW S \in SUBSET LocalBlocks, S # {}
  PROVE  /\ Mean(Cache, S) = [b \in S |-> 1]
         /\ Weighed(Mean(Cache, S)) = S
<1>1. /\ \A i \in S : Cache[i] = i /\ i # ZeroBlock
      /\ {Cache[i] : i \in S} = S
  BY PaddingIsNoBlock DEF Cache
<1>2. Mean(Cache, S) = [b \in S |-> 1]
  BY <1>1, MeanOfDifferent
<1>3. Weighed(Mean(Cache, S)) = {Cache[i] : i \in S} \ {ZeroBlock}
  BY <1>1, MeanWeighs
<1> QED
  BY <1>1, <1>2, <1>3, PaddingIsNoBlock

\* A bucket holds the count it is chosen for, and no more when it is a bucket.
LEMMA BucketHolds ==
  ASSUME NEW n \in Nat
  PROVE  /\ NextBucket(n) \in Nat
         /\ n <= NextBucket(n)
         /\ n \in BUCKETS => NextBucket(n) = n
<1> DEFINE fits(b) == b \in BUCKETS /\ b >= n /\ \A c \in BUCKETS : c >= n => b <= c
<1>1. CASE \E b \in BUCKETS : b >= n
  <2>1. \E b : fits(b)
    BY <1>1 DEF BUCKETS
  <2>2. \A b : fits(b) => b \in Nat
    BY DEF BUCKETS
  <2>3. NextBucket(n) = CHOOSE b \in BUCKETS : b >= n /\ \A c \in BUCKETS : c >= n => b <= c
    BY <1>1 DEF NextBucket
  <2>4. fits(NextBucket(n))
    BY <2>1, <2>3
  <2>5. n \in BUCKETS => NextBucket(n) <= n
    BY <2>4
  <2> QED
    BY <2>2, <2>4, <2>5
<1>2. CASE ~(\E b \in BUCKETS : b >= n)
  BY <1>2 DEF NextBucket
<1> QED
  BY <1>1, <1>2

\* The mean over the front of the sorted blocks is the mean over the union.
LEMMA MeanOfFront ==
  ASSUME mask \in Masks, NEW n \in Nat
  PROVE  /\ Active \in Nat
         /\ Active = 0 <=> Union = {}
         /\ Active <= n => Union \subseteq Weighed(Mean(SortOrder, First(n)))
         /\ Union # {} => /\ First(Active) # {}
                          /\ Mean(SortOrder, First(Active)) = [b \in Union |-> 1]
                          /\ Weighed(Mean(SortOrder, First(Active))) = Union
<1> DEFINE ix == SortOrder
<1>1. /\ Active \in 0 .. NB
      /\ ix \in [LocalBlocks -> LocalBlocks]
      /\ \A i, y \in LocalBlocks : ix[i] = ix[y] => i = y
      /\ {ix[i] : i \in First(Active)} = Union
      /\ Active = 0 <=> Union = {}
  BY FrontIsUnion DEF SortOrder, Active, AnyHead, Union, First
<1>2. ASSUME NEW k \in Nat
      PROVE  Weighed(Mean(ix, First(k))) = {ix[i] : i \in First(k)}
  <2>1. First(k) \in SUBSET LocalBlocks /\ \A i \in First(k) : ix[i] \in LocalBlocks
    BY <1>1 DEF First
  <2> HIDE DEF ix
  <2>2. Weighed(Mean(ix, First(k))) = {ix[i] : i \in First(k)} \ {ZeroBlock}
    BY <2>1, MeanWeighs
  <2> QED
    BY <2>1, <2>2, PaddingIsNoBlock
<1>3. Active <= n => First(Active) \subseteq First(n)
  BY <1>1 DEF First, LocalBlocks, Indices
<1> HIDE DEF ix
<1>4. Active <= n => Union \subseteq Weighed(Mean(ix, First(n)))
  BY <1>1, <1>2, <1>3
<1>5. ASSUME Union # {}
      PROVE  /\ First(Active) # {}
             /\ Mean(ix, First(Active)) = [b \in Union |-> 1]
             /\ Weighed(Mean(ix, First(Active))) = Union
  <2>1. First(Active) # {}
    BY <1>1, <1>5
  <2>2. First(Active) \in SUBSET LocalBlocks /\ \A i \in First(Active) : ix[i] # ZeroBlock
    BY <1>1, PaddingIsNoBlock DEF First
  <2>3. Mean(ix, First(Active)) = [b \in Union |-> 1]
    BY <1>1, <2>1, <2>2, MeanOfDifferent
  <2> QED
    BY <1>1, <1>2, <2>1, <2>3
<1> QED
  BY <1>1, <1>4, <1>5 DEF ix

-----------------------------------------------------------------------------
(***************************************************************************)
(* The invariant: whatever has been returned is what the mask determines.  *)
(***************************************************************************)

\* What stream_decompact returns.
Restoration ==
  LET isActive == ScatteredMask(indices, numActive)
      entries  == Scatter(compact, indices)
  IN [b \in LocalBlocks |-> IF isActive[b] THEN entries[b] ELSE ZeroBlock]

\* What the compacted and the masked attention return.
ThroughCopy ==
  [hd \in Heads |-> SparseAttention(compact, [i \in LocalBlocks |-> i < numActive])]

ThroughMask == [hd \in Heads |-> SparseAttention(Cache, HeadMask(hd))]

\* Attention to the zero-padded copy of a bucket.
ThroughBucket ==
  SparseAttention(Gather(Cache, SortOrder, Active),
                  [i \in LocalBlocks |-> i < NextBucket(Active)])

\* What the other paths return, when they do not raise.
PathResults ==
  /\ \A p \in BucketPaths : Returned(p) =>
       \/ Active = 0 /\ out[p] = AllHeads(ZeroOutput)
       \/ out[p] = AllHeads(Mean(SortOrder, First(NextBucket(Active))))
       \/ out[p] = AllHeads(ThroughBucket)
  /\ Returned("gated") => out["gated"] = SparseAttentionV2(FALSE)
  /\ Returned("guarded") => out["guarded"] = SparseAttentionV2(TRUE)
  /\ Returned("dynamic") => out["dynamic"] = DynamicMultiheadAttention
  /\ Returned("custom") => out["custom"] = [hd \in Heads |-> CustomCall(hd)]
  /\ Returned("compacted") => out["compacted"] = CompactedAttention
  /\ Returned("predicated") => out["predicated"] = PredicatedAttention
  /\ Returned("dense") => out["dense"] = DenseAttention
  /\ ~Returned("compactedSized") /\ ~Returned("predicatedSized")

CopyOfMask ==
  compact # Absent =>
    /\ indices = ActiveIndicesByMask(BlockActive(mask), NB)
    /\ numActive = NumActive(BlockActive(mask), NB)
    /\ compact = Gather(Cache, indices, numActive)

IInv ==
  /\ call = Absent \/ call \in Calls
  /\ pc \in {"direct", "called", "gated", "compacted", "returned", "raised"}
  /\ pc \in {"direct", "gated", "compacted"} => mask \in Masks
  /\ pc = "called" => /\ compact = Absent /\ restored = Absent /\ call \in Calls
                      /\ compactOut = Absent /\ sparseOut = Absent
                      /\ \A p \in Paths : out[p] = Absent
  /\ DOMAIN out = Paths
  /\ compact # Absent \/ sparseOut # Absent \/ (\E p \in Paths : out[p] # Absent)
       => mask \in Masks
  /\ CopyOfMask
  /\ restored # Absent => compact # Absent /\ restored = Restoration
  /\ compactOut # Absent => compact # Absent /\ compactOut = ThroughCopy
  /\ sparseOut # Absent => sparseOut = ThroughMask
  /\ PathResults

LEMMA InitEstablishes == PipelineInit => IInv
<1> SUFFICES ASSUME PipelineInit PROVE IInv
  OBVIOUS
<1>1. /\ compact = Absent /\ restored = Absent /\ compactOut = Absent /\ sparseOut = Absent
      /\ DOMAIN out = Paths /\ \A p \in Paths : out[p] = Absent
  BY DEF PipelineInit, Init
<1>2. PathResults
  BY <1>1 DEF PathResults, Returned, Paths, BucketPaths, KernelPaths, BridgePaths
<1>3. \/ pc = "direct" /\ call = Absent /\ mask \in Masks
      \/ pc = "called" /\ call \in Calls
  BY DEF PipelineInit, Init, Masks
<1> QED
  BY <1>1, <1>2, <1>3 DEF IInv, CopyOfMask

\* What the paths return depends on the mask and the backend only.
LEMMA ResultsStay ==
  ASSUME UNCHANGED <<mask, onTpu>>
  PROVE  /\ Active' = Active /\ SortOrder' = SortOrder
         /\ ThroughBucket' = ThroughBucket
         /\ ThroughMask' = ThroughMask
         /\ \A guarded : SparseAttentionV2(guarded)' = SparseAttentionV2(guarded)
         /\ DynamicMultiheadAttention' = DynamicMultiheadAttention
         /\ [hd \in Heads |-> CustomCall(hd)]' = [hd \in Heads |-> CustomCall(hd)]
         /\ CompactedAttention' = CompactedAttention
         /\ PredicatedAttention' = PredicatedAttention
         /\ DenseAttention' = DenseAttention
<1>1. Active' = Active /\ SortOrder' = SortOrder
  BY DEF Active, SortOrder, AnyHead
<1>2. CompactedAttention' = CompactedAttention
  BY <1>1 DEF CompactedAttention, AnyHead, Active, BridgeOrder
<1>3. DynamicMultiheadAttention' = DynamicMultiheadAttention
  BY <1>1 DEF DynamicMultiheadAttention
<1>4. \A guarded : SparseAttentionV2(guarded)' = SparseAttentionV2(guarded)
  BY DEF SparseAttentionV2, KernelV2, KernelV2Guarded, HeadMask
<1>5. ThroughBucket' = ThroughBucket
  BY <1>1 DEF ThroughBucket, SparseAttention
<1> QED
  BY <1>1, <1>2, <1>3, <1>4, <1>5
     DEF SparseAttention, ThroughMask, CustomCall, PredicatedAttention, DenseAttention, HeadMask

LEMMA PathResultsStay ==
  ASSUME UNCHANGED <<mask, onTpu, out>>, PathResults
  PROVE  PathResults'
<1>1. \A p : Returned(p)' <=> Returned(p)
  BY DEF Returned
<1> QED
  BY <1>1, ResultsStay DEF PathResults

LEMMA CopyStays ==
  ASSUME UNCHANGED <<mask, onTpu, indices, numActive, compact>>
  PROVE  /\ CopyOfMask => CopyOfMask'
         /\ Restoration' = Restoration
         /\ ThroughCopy' = ThroughCopy
  BY DEF CopyOfMask, Restoration, ThroughCopy, SparseAttention

\* A step of compaction.py or sparse_attention.py, whoever takes it.
LEMMA CompactionPreserves ==
  ASSUME IInv, Next, UNCHANGED <<out, call>>, mask \in Masks,
         pc \in {"direct", "gated", "compacted"},
         pc' \in {"direct", "compacted", "returned"}
  PROVE  IInv'
<1>0. UNCHANGED <<mask, onTpu>>
  BY DEF Next, Compact, Decompact, CompactAttend, SparseAttend
<1>1. PathResults' /\ ThroughMask' = ThroughMask /\ mask' \in Masks
  BY <1>0, PathResultsStay, ResultsStay DEF IInv
<1>2. CASE Compact
  <2>1. compact = Absent /\ UNCHANGED <<restored, compactOut, sparseOut>>
    BY <1>2 DEF Compact
  <2>2. restored = Absent /\ compactOut = Absent
    BY <2>1 DEF IInv
  <2>3. CopyOfMask'
    BY <1>2 DEF Compact, CopyOfMask
  <2> QED
    BY <1>1, <2>1, <2>2, <2>3 DEF IInv
<1>3. CASE Decompact
  <2>1. compact # Absent /\ UNCHANGED <<indices, numActive, compact, compactOut, sparseOut>>
    BY <1>3 DEF Decompact
  <2>2. restored' = Restoration
    BY <1>3 DEF Decompact, Restoration
  <2> QED
    BY <1>0, <1>1, <2>1, <2>2, CopyStays DEF IInv
<1>4. CASE CompactAttend
  <2>1. compact # Absent /\ UNCHANGED <<indices, numActive, compact, restored, sparseOut>>
    BY <1>4 DEF CompactAttend
  <2>2. compactOut' = ThroughCopy
    BY <1>4 DEF CompactAttend, ThroughCopy
  <2> QED
    BY <1>0, <1>1, <2>1, <2>2, CopyStays DEF IInv
<1>5. CASE SparseAttend
  <2>1. UNCHANGED <<indices, numActive, compact, restored, compactOut>>
    BY <1>5 DEF SparseAttend
  <2>2. sparseOut' = ThroughMask
    BY <1>5 DEF SparseAttend, ThroughMask, HeadMask
  <2> QED
    BY <1>0, <1>1, <2>1, <2>2, CopyStays DEF IInv
<1> QED
  BY <1>2, <1>3, <1>4, <1>5 DEF Next

\* A call of one of the other paths.
LEMMA CallPreserves == IInv /\ DirectCall => IInv'
<1> SUFFICES ASSUME IInv, DirectCall
             PROVE  IInv'
  OBVIOUS
<1>1. /\ UNCHANGED <<mask, onTpu, indices, numActive, compact, restored, compactOut, sparseOut>>
      /\ UNCHANGED <<call, pc>>
  BY DEF DirectCall, CallPath, Bucketed, Lean, Indirect, Gated, Guarded, Dynamic, Custom,
         Compacted, Predicated, Dense, Return, vars, forwardVars
<1>2. mask \in Masks /\ pc = "direct" /\ \A p \in Paths : out[p] = Absent
  BY DEF DirectCall, IInv, CallPath, Bucketed, Lean, Indirect, Gated, Guarded, Dynamic,
         Custom,
         Compacted, Predicated, Dense, Return
<1>3. DOMAIN out = Paths
  BY DEF IInv
<1>4. ASSUME NEW path \in Paths, NEW result, Return(path, result)
      PROVE  /\ DOMAIN out' = Paths
             /\ out'[path] = result
             /\ \A p \in Paths : p # path => ~Returned(p)'
  BY <1>2, <1>3, <1>4 DEF Return, Returned
<1>5. DOMAIN out' = Paths
  BY <1>4 DEF DirectCall, CallPath, Bucketed, Lean, Indirect, Gated, Guarded, Dynamic,
         Custom,
         Compacted, Predicated, Dense, Paths, BucketPaths, KernelPaths, BridgePaths
<1>6. PathResults'
  <2> USE DEF Paths, BucketPaths, KernelPaths, BridgePaths
  <2>1. ASSUME NEW path \in BucketPaths, NEW o, Return(path, InBucket(o)),
               o \in {Mean(SortOrder, First(NextBucket(Active))), ThroughBucket}
        PROVE  PathResults'
    <3>1. out'[path] = InBucket(o) /\ \A p \in Paths : p # path => ~Returned(p)'
      BY <1>4, <2>1
    <3>2. InBucket(o) = Raised \/ InBucket(o) = AllHeads(o)
            \/ (Active = 0 /\ InBucket(o) = AllHeads(ZeroOutput))
      BY DEF InBucket
    <3> QED
      BY <1>1, <2>1, <3>1, <3>2, ResultsStay DEF PathResults, Returned
  <2>2. CASE Bucketed
    BY <2>1, <2>2 DEF Bucketed, BucketedAttention, ThroughBucket
  <2>3. CASE Lean
    BY <2>1, <2>3 DEF Lean, LeanBucketedAttention
  <2>4. CASE Indirect
    <3>1. CASE IndirectAttention = Raised
      BY <1>4, <2>4, <3>1 DEF Indirect, PathResults, Returned
    <3>2. CASE IndirectAttention # Raised
      BY <2>1, <2>4, <3>2 DEF Indirect, IndirectAttention
    <3> QED
      BY <3>1, <3>2
  <2>5. CASE Gated
    BY <1>1, <1>4, <2>5, ResultsStay DEF Gated, PathResults
  <2>6. CASE Guarded
    BY <1>1, <1>4, <2>6, ResultsStay DEF Guarded, PathResults
  <2>7. CASE Dynamic
    BY <1>1, <1>4, <2>7, ResultsStay DEF Dynamic, PathResults
  <2>8. CASE Custom
    <3>1. CASE CustomAttention = Undefined
      BY <1>1, <1>4, <2>8, <3>1, ResultsStay DEF Custom, PathResults, Returned
    <3>2. CASE CustomAttention = [hd \in Heads |-> CustomCall(hd)]
      BY <1>1, <1>4, <2>8, <3>2, ResultsStay DEF Custom, PathResults
    <3> QED
      BY <3>1, <3>2 DEF CustomAttention
  <2>9. CASE Compacted
    BY <1>1, <1>4, <2>9, ResultsStay DEF Compacted, Sized, PathResults, Returned
  <2>10. CASE Predicated
    BY <1>1, <1>4, <2>10, ResultsStay DEF Predicated, Sized, PathResults, Returned
  <2>11. CASE Dense
    BY <1>1, <1>4, <2>11, ResultsStay DEF Dense, PathResults
  <2> QED
    BY <2>2, <2>3, <2>4, <2>5, <2>6, <2>7, <2>8, <2>9, <2>10, <2>11 DEF DirectCall, CallPath
<1> QED
  BY <1>1, <1>2, <1>5, <1>6, CopyStays, ResultsStay DEF IInv

\* A step of orthocache_forward.
LEMMA ForwardPreserves == IInv /\ Forward => IInv'
<1> SUFFICES ASSUME IInv, Forward
             PROVE  IInv'
  OBVIOUS
<1>1. CASE ReturnDense
  <2>1. UNCHANGED <<mask, onTpu, indices, numActive, compact, restored, compactOut, sparseOut,
                    out, call>> /\ pc' = "returned"
    BY <1>1 DEF ReturnDense, vars
  <2> QED
    BY <2>1, PathResultsStay, CopyStays, ResultsStay DEF IInv
<1>2. CASE Gate
  <2>1. /\ UNCHANGED <<indices, numActive, compact, restored, compactOut, sparseOut, out, call>>
        /\ pc = "called" /\ pc' = "gated"
        /\ mask' = MultibandMask(call.queries, call.keys, call.tau, call.zetaMax)
    BY <1>2 DEF Gate
  <2>2. /\ call.queries \in [Heads -> QuerySets]
        /\ call.keys \in [LocalBlocks -> CacheBlocks]
    BY <2>1, CallsAreWellFormed DEF IInv, Calls
  <2>3. mask' \in Masks
    BY <2>1, <2>2 DEF MultibandMask, Masks
  <2>4. \A p \in Paths : out[p] = Absent
    BY <2>1 DEF IInv
  <2>5. PathResults'
    BY <2>1, <2>4 DEF PathResults, Returned, Paths, BucketPaths, KernelPaths, BridgePaths
  <2> QED
    BY <2>1, <2>3, <2>5 DEF IInv, CopyOfMask
<1>3. CASE ForwardCompact \/ ForwardCompactAttend \/ ForwardSparse
  BY <1>3, CompactionPreserves
     DEF ForwardCompact, ForwardCompactAttend, ForwardSparse, Next, IInv
<1>4. CASE UnknownMode
  <2>1. UNCHANGED <<mask, onTpu, indices, numActive, compact, restored, compactOut, sparseOut,
                    out, call>> /\ pc' = "raised"
    BY <1>4 DEF UnknownMode, vars
  <2> QED
    BY <2>1, PathResultsStay, CopyStays, ResultsStay DEF IInv
<1> QED
  BY <1>1, <1>2, <1>3, <1>4 DEF Forward

LEMMA StepPreserves == IInv /\ [PipelineNext]_pipelineVars => IInv'
<1> SUFFICES ASSUME IInv, [PipelineNext]_pipelineVars
             PROVE  IInv'
  OBVIOUS
<1>1. CASE DirectCompaction
  BY <1>1, CompactionPreserves DEF DirectCompaction, forwardVars, IInv
<1>2. CASE UNCHANGED pipelineVars
  BY <1>2, PathResultsStay, CopyStays, ResultsStay DEF pipelineVars, vars, forwardVars, IInv
<1> QED
  BY <1>1, <1>2, CallPreserves, ForwardPreserves DEF PipelineNext

LEMMA InductiveInvariant == PipelineSpec => []IInv
  BY InitEstablishes, StepPreserves, PTL DEF PipelineSpec

-----------------------------------------------------------------------------
(***************************************************************************)
(* What follows from it.                                                   *)
(***************************************************************************)

\* The scatter of stream_decompact undoes the gather of stream_compact: the
\* retained blocks are back at their places and the others are zero.
THEOREM DecompactionUndoesCompaction == PipelineSpec => []RoundTrip
<1>1. ASSUME IInv
      PROVE  RoundTrip
  <2> SUFFICES ASSUME restored # Absent, NEW b \in LocalBlocks
               PROVE  restored[b] = IF \E hd \in Heads : mask[b][hd] THEN b ELSE ZeroBlock
    BY <1>1 DEF RoundTrip, IInv, Restoration
  <2> DEFINE ix == indices
             c  == CHOOSE i \in LocalBlocks : ix[i] = b
  <2>1. /\ mask \in Masks /\ restored = Restoration
        /\ ix = ActiveIndicesByMask(BlockActive(mask), NB)
        /\ numActive = NumActive(BlockActive(mask), NB)
        /\ compact = Gather(Cache, ix, numActive)
    BY <1>1 DEF IInv, CopyOfMask
  <2>2. /\ \A i \in LocalBlocks : BlockActive(mask)[ix[i]] <=> i < numActive
        /\ \E i \in LocalBlocks : ix[i] = b
    BY <2>1, BlockActiveType, OrderIsPermutation
  <2>3. c \in LocalBlocks /\ ix[c] = b
    BY <2>2
  <2>4. ScatteredMask(ix, numActive)[b] = (c < numActive)
    BY <2>3 DEF ScatteredMask, Scatter
  <2>5. Scatter(compact, ix)[b] = compact[c]
    BY DEF Scatter
  <2>6. compact[c] = IF c < numActive THEN b ELSE ZeroBlock
    BY <2>1, <2>3 DEF Gather, Cache
  <2>7. c < numActive <=> \E hd \in Heads : mask[b][hd]
    BY <2>1, <2>2, <2>3, BlockActiveType
  <2> HIDE DEF c
  <2> QED
    BY <2>1, <2>4, <2>5, <2>6, <2>7 DEF Restoration
<1> QED
  BY <1>1, InductiveInvariant, PTL

\* The mean over the compacted copy, for every head.
LEMMA CopyMean ==
  ASSUME IInv, compact # Absent, NEW hd \in Heads
  PROVE  ThroughCopy[hd] = IF Union = {} THEN ZeroOutput ELSE [b \in Union |-> 1]
<1> DEFINE keep == [i \in LocalBlocks |-> i < numActive]
<1>1. /\ mask \in Masks
      /\ indices = ActiveIndicesByMask(BlockActive(mask), NB)
      /\ numActive = NumActive(BlockActive(mask), NB)
      /\ compact = Gather(Cache, indices, numActive)
      /\ ThroughCopy[hd] = SparseAttention(compact, keep)
  BY DEF IInv, CopyOfMask, ThroughCopy
<1>2. /\ numActive \in Nat
      /\ indices \in [LocalBlocks -> LocalBlocks]
      /\ \A i, y \in LocalBlocks : indices[i] = indices[y] => i = y
      /\ {indices[i] : i \in First(numActive)} = Union
      /\ numActive = 0 <=> Union = {}
  BY <1>1, FrontIsUnion DEF First, Union
<1>3. Kept(keep) = First(numActive)
  BY <1>2, KeptOfPrefix
<1>4. CASE Union = {}
  <2>1. First(numActive) = {}
    BY <1>2, <1>4 DEF First, LocalBlocks, Indices
  <2>2. \A i \in LocalBlocks : compact[i] = ZeroBlock
    BY <1>1, <2>1 DEF Gather, First
  <2>3. PallasMean(compact, keep) = ZeroOutput
    BY <1>3, <2>1 DEF PallasMean, Mean
  <2>4. JaxMean(compact, keep) = ZeroOutput
    BY <1>3, <2>1, <2>2 DEF JaxMean, Mean
  <2> QED
    BY <1>1, <1>4, <2>3, <2>4 DEF SparseAttention
<1>5. CASE Union # {}
  <2>1. \A i \in First(numActive) : /\ compact[i] = indices[i]
                                    /\ i \in LocalBlocks /\ indices[i] # ZeroBlock
    BY <1>1, <1>2, PaddingIsNoBlock DEF Gather, Cache, First
  <2>2. First(numActive) # {} /\ First(numActive) \in SUBSET LocalBlocks
    BY <1>2, <1>5 DEF First
  <2>3. Union = {compact[i] : i \in First(numActive)}
    BY <1>2, <2>1
  <2>4. \A i, y \in First(numActive) : compact[i] = compact[y] => i = y
    BY <1>2, <2>1
  <2>5. Mean(compact, First(numActive)) = [b \in Union |-> 1]
    <3>1. \A i \in First(numActive) : compact[i] # ZeroBlock
      BY <2>1
    <3> QED
      BY <2>2, <2>3, <2>4, <3>1, MeanOfDifferent
  <2>6. SparseAttention(compact, keep) = Mean(compact, Kept(keep))
    BY <1>3, <2>2, MaskedMeans
  <2> QED
    BY <1>1, <1>3, <1>5, <2>5, <2>6
<1> QED
  BY <1>4, <1>5

\* The mean over the blocks that one head retains.
LEMMA HeadMean ==
  ASSUME mask \in Masks, NEW hd \in Heads
  PROVE  LET retained == {b \in LocalBlocks : mask[b][hd]} IN
         /\ Kept(HeadMask(hd)) = retained
         /\ retained # {} =>
              /\ SparseAttention(Cache, HeadMask(hd)) = [b \in retained |-> 1]
              /\ JaxMean(Cache, HeadMask(hd)) = [b \in retained |-> 1]
              /\ PallasMean(Cache, HeadMask(hd)) = [b \in retained |-> 1]
              /\ CustomCall(hd) = [b \in retained |-> 1]
              /\ Weighed([b \in retained |-> 1]) = retained
<1> DEFINE retained == {b \in LocalBlocks : mask[b][hd]}
<1>1. Kept(HeadMask(hd)) = retained
  BY KeptOfHead
<1>2. CustomCall(hd) = Mean(Cache, retained)
  BY DEF CustomCall
<1> HIDE DEF retained
<1> QED
  BY <1>1, <1>2, MaskedMeans, MeanOfCache DEF retained

\* Attending through the compacted copy and through the mask are one thing: no
\* head loses a block it retains, and where the heads agree both return the
\* same mean on both backends.
THEOREM CompactionChangesNothing == PipelineSpec => []CompactMatchesSparse
<1>1. ASSUME IInv
      PROVE  CompactMatchesSparse
  <2>1. compactOut # Absent => \A hd \in Heads :
          compactOut[hd] = IF Union = {} THEN ZeroOutput ELSE [b \in Union |-> 1]
    BY <1>1, CopyMean DEF IInv
  <2>2. ASSUME compactOut # Absent, sparseOut # Absent, Union # {},
               \A b \in LocalBlocks : \A g, hd \in Heads : mask[b][g] = mask[b][hd]
        PROVE  compactOut = sparseOut
    <3>1. mask \in Masks /\ compactOut = ThroughCopy /\ sparseOut = ThroughMask
      BY <1>1, <2>2 DEF IInv
    <3>2. ASSUME NEW hd \in Heads
          PROVE  sparseOut[hd] = [b \in Union |-> 1]
      <4>1. {b \in LocalBlocks : mask[b][hd]} = Union
        BY <2>2, <3>1 DEF Union, Masks
      <4>2. sparseOut[hd] = SparseAttention(Cache, HeadMask(hd))
        BY <3>1 DEF ThroughMask
      <4> QED
        BY <2>2, <3>1, <4>1, <4>2, HeadMean
    <3>3. \A hd \in Heads : compactOut[hd] = sparseOut[hd]
      BY <2>1, <2>2, <3>2
    <3> QED
      BY <3>1, <3>3 DEF ThroughCopy, ThroughMask
  <2> QED
    BY <2>1, <2>2 DEF CompactMatchesSparse
<1> QED
  BY <1>1, InductiveInvariant, PTL

\* The fallback of the masked attention returns what the kernel would have, for
\* every head that keeps a block, and differs as stated for the others.
THEOREM FallbackIsKernel == PipelineSpec => []KeptHeadsAgree
<1>1. ASSUME IInv, sparseOut # Absent, NEW hd \in Heads
      PROVE  IF Kept(HeadMask(hd)) # {} THEN sparseOut[hd] = PallasMean(Cache, HeadMask(hd))
             ELSE sparseOut[hd] = IF onTpu THEN ZeroOutput ELSE DenseAttention[hd]
  <2>1. sparseOut[hd] = SparseAttention(Cache, HeadMask(hd))
    BY <1>1 DEF IInv, ThroughMask
  <2>2. CASE Kept(HeadMask(hd)) # {}
    BY <2>1, <2>2, MaskedMeans
  <2>3. CASE Kept(HeadMask(hd)) = {}
    <3>1. PallasMean(Cache, HeadMask(hd)) = ZeroOutput
      BY <2>3 DEF PallasMean, Mean
    <3>2. JaxMean(Cache, HeadMask(hd)) = DenseAttention[hd]
      BY <2>3 DEF JaxMean, DenseAttention, AllHeads
    <3> QED
      BY <2>1, <2>3, <3>1, <3>2 DEF SparseAttention
  <2> QED
    BY <2>2, <2>3
<1>2. IInv => KeptHeadsAgree
  BY <1>1 DEF KeptHeadsAgree
<1> QED
  BY <1>2, InductiveInvariant, PTL

\* The padding of a bucket is weighed too, but no block of the union is lost.
LEMMA BucketMean ==
  ASSUME mask \in Masks, Union # {}
  PROVE  /\ Union \subseteq Weighed(ThroughBucket)
         /\ Union \subseteq Weighed(Mean(SortOrder, First(NextBucket(Active))))
         /\ Active \in BUCKETS =>
              /\ ThroughBucket = [b \in Union |-> 1]
              /\ Mean(SortOrder, First(NextBucket(Active))) = [b \in Union |-> 1]
<1> DEFINE ix   == SortOrder
           k    == NextBucket(Active)
           keep == [i \in LocalBlocks |-> i < k]
           copy == Gather(Cache, ix, Active)
<1>1. /\ Active \in Nat
      /\ ix \in [LocalBlocks -> LocalBlocks]
      /\ \A i, y \in LocalBlocks : ix[i] = ix[y] => i = y
      /\ {ix[i] : i \in First(Active)} = Union
  BY FrontIsUnion DEF SortOrder, Active, AnyHead, Union, First
<1>2. k \in Nat /\ Active <= k /\ (Active \in BUCKETS => k = Active)
  BY <1>1, BucketHolds
<1>3. /\ First(Active) # {}
      /\ First(Active) \subseteq First(k)
      /\ First(k) \in SUBSET LocalBlocks
      /\ First(Active) \in SUBSET LocalBlocks
      /\ Kept(keep) = First(k)
  BY <1>1, <1>2, KeptOfPrefix DEF First, LocalBlocks, Indices
<1>4. /\ \A i \in First(Active) : copy[i] = ix[i]
      /\ \A i \in First(k) : copy[i] \in LocalBlocks \cup {ZeroBlock}
      /\ \A i \in LocalBlocks : ix[i] # ZeroBlock
  BY <1>1, <1>3, PaddingIsNoBlock DEF Gather, Cache, First
<1>5. Union \subseteq Weighed(Mean(ix, First(k))) /\ Mean(ix, First(Active)) = [b \in Union |-> 1]
  BY <1>2, MeanOfFront
<1> HIDE DEF ix, k, copy
<1>6. ThroughBucket = Mean(copy, First(k))
  <2>1. ThroughBucket = SparseAttention(copy, keep)
    BY DEF ThroughBucket, copy, ix, k
  <2> HIDE DEF keep
  <2> QED
    BY <1>3, <2>1, MaskedMeans
<1>7. Weighed(Mean(copy, First(k))) = {copy[i] : i \in First(k)} \ {ZeroBlock}
  BY <1>3, <1>4, MeanWeighs
<1>8. Union \subseteq {copy[i] : i \in First(k)} \ {ZeroBlock}
  BY <1>1, <1>3, <1>4
<1>9. Mean(copy, First(Active)) = [b \in Union |-> 1]
  <2>1. Union = {copy[i] : i \in First(Active)}
    BY <1>1, <1>4
  <2>2. /\ \A i \in First(Active) : copy[i] # ZeroBlock
        /\ \A i, y \in First(Active) : copy[i] = copy[y] => i = y
    BY <1>1, <1>3, <1>4
  <2> QED
    BY <1>3, <2>1, <2>2, MeanOfDifferent
<1> QED
  BY <1>2, <1>5, <1>6, <1>7, <1>8, <1>9 DEF ix, k

\* Two paths share the order of the sort, though they sort on different keys.
LEMMA BridgeMean ==
  ASSUME mask \in Masks, Union # {}, NEW hd \in Heads
  PROVE  CompactedAttention[hd] = [b \in Union |-> 1]
<1> DEFINE keep == [i \in LocalBlocks |-> i < Active]
<1>1. BridgeOrder = SortOrder
  BY BlockActiveType, BothSortsAgree, NBIsPositive
     DEF BridgeOrder, SortOrder, AnyHead, LocalBlocks
<1>2. /\ Active \in Nat /\ First(Active) # {}
      /\ Mean(SortOrder, First(Active)) = [b \in Union |-> 1]
  BY MeanOfFront
<1>3. Kept(keep) = First(Active)
  BY <1>2, KeptOfPrefix
<1>4. CompactedAttention[hd] = JaxMean(SortOrder, keep)
  BY <1>1 DEF CompactedAttention, AllHeads
<1> HIDE DEF keep
<1> QED
  BY <1>2, <1>3, <1>4, MaskedMeans

\* The mean of the whole cache.
LEMMA DenseMean == Weighed(Mean(Cache, LocalBlocks)) = LocalBlocks
<1>1. LocalBlocks # {}
  BY NBIsPositive DEF LocalBlocks, Indices
<1> QED
  BY <1>1, MeanOfCache

\* The paths with one mask for all heads return the mean of the union, the
\* others that of each head's blocks, wherever there is one.
THEOREM PathsAreExact == PipelineSpec => []ExactPaths
<1>1. ASSUME IInv
      PROVE  ExactPaths
  <2> SUFFICES ASSUME NEW hd \in Heads
               PROVE  /\ \A p \in {"dynamic", "compacted"} :
                           Returned(p) /\ Union # {} => out[p][hd] = [b \in Union |-> 1]
                      /\ \A p \in BucketPaths : Returned(p) /\ Active \in BUCKETS /\ Union # {}
                           => out[p][hd] = [b \in Union |-> 1]
                      /\ \A p \in {"gated", "predicated", "custom"} :
                           Returned(p) /\ Kept(HeadMask(hd)) # {}
                             => out[p][hd] = [b \in Kept(HeadMask(hd)) |-> 1]
    BY DEF ExactPaths
  <2> USE DEF Paths, BucketPaths, KernelPaths, BridgePaths
  <2>1. ASSUME NEW p \in Paths, Returned(p)
        PROVE  mask \in Masks /\ PathResults
    BY <1>1, <2>1 DEF IInv, Returned
  <2>2. ASSUME Returned("dynamic"), Union # {}
        PROVE  out["dynamic"][hd] = [b \in Union |-> 1]
    <3>1. mask \in Masks /\ PathResults
      BY <2>1, <2>2
    <3>2. out["dynamic"][hd] = Mean(SortOrder, First(Active))
      BY <2>2, <3>1 DEF PathResults, DynamicMultiheadAttention, DynamicCompactAttention,
             AllHeads
    <3> QED
      BY <2>2, <3>1, <3>2, MeanOfFront
  <2>3. ASSUME Returned("compacted"), Union # {}
        PROVE  out["compacted"][hd] = [b \in Union |-> 1]
    BY <2>1, <2>3, BridgeMean DEF PathResults
  <2>4. ASSUME NEW p \in BucketPaths, Returned(p), Active \in BUCKETS, Union # {}
        PROVE  out[p][hd] = [b \in Union |-> 1]
    <3>1. mask \in Masks /\ PathResults
      BY <2>1, <2>4
    <3>2. Active # 0
      BY <2>4 DEF BUCKETS
    <3>3. \/ out[p] = AllHeads(Mean(SortOrder, First(NextBucket(Active))))
          \/ out[p] = AllHeads(ThroughBucket)
      BY <2>4, <3>1, <3>2 DEF PathResults
    <3> QED
      BY <2>4, <3>1, <3>3, BucketMean DEF AllHeads
  <2>5. ASSUME NEW p \in {"gated", "predicated", "custom"}, Returned(p), Kept(HeadMask(hd)) # {}
        PROVE  out[p][hd] = [b \in Kept(HeadMask(hd)) |-> 1]
    <3>1. mask \in Masks /\ PathResults
      BY <2>1, <2>5
    <3>2. out[p][hd] \in {JaxMean(Cache, HeadMask(hd)), PallasMean(Cache, HeadMask(hd)), CustomCall(hd)}
      BY <2>5, <3>1 DEF PathResults, SparseAttentionV2, KernelV2, PredicatedAttention
    <3> QED
      BY <2>5, <3>1, <3>2, HeadMean
  <2> QED
    BY <2>2, <2>3, <2>4, <2>5
<1> QED
  BY <1>1, InductiveInvariant, PTL

\* Whatever a path compacts, pads, cuts off or indexes indirectly, no head loses
\* a block that it retains.
THEOREM RetainedBlocksTakePart == PipelineSpec => []NoRetainedBlockLost
<1>1. ASSUME IInv
      PROVE  NoRetainedBlockLost
  <2> SUFFICES ASSUME NEW p \in Paths, Returned(p), NEW hd \in Heads,
                      {b \in LocalBlocks : mask[b][hd]} # {}
               PROVE  {b \in LocalBlocks : mask[b][hd]} \subseteq Weighed(out[p][hd])
    BY DEF NoRetainedBlockLost
  <2> DEFINE retained == {b \in LocalBlocks : mask[b][hd]}
  <2>1. /\ mask \in Masks /\ PathResults
        /\ Active # 0 /\ Union # {} /\ retained \subseteq Union
    <3>1. mask \in Masks /\ PathResults
      BY <1>1 DEF IInv, Returned
    <3>2. Union # {} /\ retained \subseteq Union
      BY DEF Union
    <3> QED
      BY <3>1, <3>2, MeanOfFront
  <2>2. Kept(HeadMask(hd)) = retained /\ Kept(HeadMask(hd)) # {}
    BY <2>1, KeptOfHead
  <2>3. CASE p \in BucketPaths
    <3>1. \/ out[p][hd] = Mean(SortOrder, First(NextBucket(Active)))
          \/ out[p][hd] = ThroughBucket
      BY <2>1, <2>3 DEF PathResults, AllHeads
    <3> QED
      BY <2>1, <3>1, BucketMean
  <2>4. CASE p \in {"dynamic", "compacted"}
    <3>1. out[p][hd] = [b \in Union |-> 1]
      BY <1>1, <2>1, <2>4, BridgeMean, MeanOfFront
         DEF PathResults, DynamicMultiheadAttention, DynamicCompactAttention, AllHeads
    <3>2. Weighed([b \in Union |-> 1]) = Union
      BY <2>1, MeanOfFront
    <3> QED
      BY <2>1, <3>1, <3>2
  <2>5. CASE p \in {"gated", "guarded", "predicated", "custom"}
    <3>1. \/ out[p][hd] \in {JaxMean(Cache, HeadMask(hd)), PallasMean(Cache, HeadMask(hd)), CustomCall(hd)}
          \/ out[p][hd] = Mean(Cache, LocalBlocks)
      BY <2>1, <2>5 DEF PathResults, SparseAttentionV2, KernelV2, KernelV2Guarded,
             PredicatedAttention
    <3> QED
      BY <2>1, <2>2, <3>1, HeadMean, DenseMean
  <2>6. CASE p = "dense"
    <3>1. out[p][hd] = Mean(Cache, LocalBlocks)
      BY <2>1, <2>6 DEF PathResults, DenseAttention, AllHeads
    <3> QED
      BY <3>1, DenseMean
  <2>7. CASE p \in {"compactedSized", "predicatedSized"}
    BY <2>1, <2>7 DEF PathResults
  <2> QED
    BY <2>3, <2>4, <2>5, <2>6, <2>7 DEF Paths, BucketPaths, KernelPaths, BridgePaths
<1> QED
  BY <1>1, InductiveInvariant, PTL

-----------------------------------------------------------------------------
(***************************************************************************)
(* What orthocache_forward reports.                                        *)
(***************************************************************************)

\* The statistics are counted before the attention and for another variable:
\* what ties them together is the mask, which no later step changes.
Accounted ==
  /\ pc \in {"gated", "compacted"} => metadata = EvictionStats(mask)
  /\ pc = "compacted" => call.mode = "compact"
  /\ Evicting =>
       /\ mask \in Masks
       /\ \/ /\ call.mode = "compact" /\ compact # Absent
             /\ output = ThroughCopy
             /\ metadata = [EvictionStats(mask) EXCEPT !.compacted = EvictionStats(mask).retained]
          \/ /\ call.mode = "sparse"
             /\ output = ThroughMask
             /\ metadata = EvictionStats(mask)

LEMMA InitAccounts == PipelineInit => Accounted
  BY DEF PipelineInit, Accounted, Evicting

LEMMA StepAccounts == IInv /\ Accounted /\ [PipelineNext]_pipelineVars => Accounted'
<1> SUFFICES ASSUME IInv, Accounted, [PipelineNext]_pipelineVars
             PROVE  Accounted'
  OBVIOUS
<1>1. ASSUME pc = "direct", pc' = "direct"
      PROVE  Accounted'
  BY <1>1 DEF Accounted, Evicting
<1>2. CASE DirectCompaction \/ DirectCall
  BY <1>1, <1>2 DEF DirectCompaction, DirectCall, forwardVars
<1>3. CASE ReturnDense
  BY <1>3 DEF ReturnDense, Accounted, Evicting
<1>4. CASE Gate
  BY <1>4 DEF Gate, Accounted, Evicting, EvictionStats
<1>5. CASE ForwardCompact
  <2>1. UNCHANGED <<mask, metadata, call>> /\ pc' = "compacted" /\ pc = "gated"
        /\ call.mode = "compact"
    BY <1>5 DEF ForwardCompact, Compact
  <2> QED
    BY <2>1 DEF Accounted, Evicting, EvictionStats
<1>6. CASE ForwardCompactAttend
  <2>1. /\ UNCHANGED <<mask, onTpu, indices, numActive, compact, call>>
        /\ pc = "compacted" /\ pc' = "returned" /\ mask \in Masks
        /\ compact # Absent /\ output' = ThroughCopy
        /\ metadata' = [metadata EXCEPT !.compacted = metadata.retained]
    BY <1>6 DEF ForwardCompactAttend, CompactAttend, ThroughCopy, IInv
  <2>2. ThroughCopy' = ThroughCopy /\ EvictionStats(mask)' = EvictionStats(mask)
    BY <2>1, CopyStays
  <2> QED
    BY <2>1, <2>2 DEF Accounted, Evicting
<1>7. CASE ForwardSparse
  <2>1. /\ UNCHANGED <<mask, onTpu, call, metadata>>
        /\ pc = "gated" /\ pc' = "returned" /\ mask \in Masks /\ call.mode = "sparse"
        /\ output' = ThroughMask
    BY <1>7 DEF ForwardSparse, SparseAttend, ThroughMask, HeadMask, IInv
  <2>2. ThroughMask' = ThroughMask /\ EvictionStats(mask)' = EvictionStats(mask)
    BY <2>1, ResultsStay
  <2> QED
    BY <2>1, <2>2 DEF Accounted, Evicting
<1>8. CASE UnknownMode
  BY <1>8 DEF UnknownMode, Accounted, Evicting
<1>9. CASE UNCHANGED pipelineVars
  <2>1. UNCHANGED <<mask, onTpu, indices, numActive, compact, call, pc, metadata, output>>
    BY <1>9 DEF pipelineVars, vars, forwardVars
  <2>2. ThroughMask' = ThroughMask /\ ThroughCopy' = ThroughCopy
        /\ EvictionStats(mask)' = EvictionStats(mask)
    BY <2>1, ResultsStay, CopyStays
  <2> QED
    BY <2>1, <2>2 DEF Accounted, Evicting
<1> QED
  BY <1>2, <1>3, <1>4, <1>5, <1>6, <1>7, <1>8, <1>9 DEF PipelineNext, Forward

\* The statistics that orthocache_forward returns count the blocks its output
\* is made of.
THEOREM StatisticsAreTrue == PipelineSpec => []StatsCountWeighed
<1>1. ASSUME IInv, Accounted
      PROVE  StatsCountWeighed
  <2> SUFFICES ASSUME Evicting, call.mode = "compact" \/ onTpu
               PROVE  /\ metadata.retained =
                            Cardinality(UNION {Weighed(output[hd]) : hd \in Heads})
                      /\ metadata.retained + metadata.evicted = NB
                      /\ call.mode = "compact" =>
                           \A hd \in Heads : metadata.compacted = Cardinality(Weighed(output[hd]))
    BY DEF StatsCountWeighed
  <2>1. mask \in Masks
    BY <1>1 DEF Accounted
  <2>2. NumActive(BlockActive(mask), NB) = Cardinality(Union)
    <3>1. {b \in Indices(NB) : BlockActive(mask)[b]} = Union
      BY <2>1, BlockActiveType DEF Union, LocalBlocks
    <3> QED
      BY <3>1 DEF NumActive
  <2>3. Cardinality(Union) \in 0 .. NB
    BY <2>1, <2>2, BlockActiveType, OrderIsPermutation
  <2>4. /\ metadata.retained = Cardinality(Union)
        /\ metadata.evicted = NB - Cardinality(Union)
        /\ call.mode = "compact" => metadata.compacted = Cardinality(Union)
    BY <1>1, <2>2 DEF Accounted, EvictionStats
  <2> DEFINE total == Cardinality(Union)
  <2> HIDE DEF total
  <2>5. metadata.retained + metadata.evicted = NB
    <3>1. total \in 0 .. NB /\ metadata.retained = total /\ metadata.evicted = NB - total
      BY <2>3, <2>4 DEF total
    <3> QED
      BY <3>1, NBIsPositive
  <2>6. CASE call.mode = "compact"
    <3>1. compact # Absent /\ output = ThroughCopy
      BY <1>1, <2>6 DEF Accounted
    <3>2. \A hd \in Heads : Weighed(output[hd]) = Union
      <4>1. CASE Union = {}
        BY <1>1, <3>1, <4>1, CopyMean DEF Weighed
      <4>2. CASE Union # {}
        <5>1. Weighed([b \in Union |-> 1]) = Union
          BY <2>1, <4>2, MeanOfFront
        <5> QED
          BY <1>1, <3>1, <4>2, <5>1, CopyMean
      <4> QED
        BY <4>1, <4>2
    <3>3. UNION {Weighed(output[hd]) : hd \in Heads} = Union
      BY <3>2 DEF Union
    <3> QED
      BY <2>4, <2>5, <3>2, <3>3
  <2>7. CASE call.mode # "compact"
    <3>1. output = ThroughMask /\ onTpu
      BY <1>1, <2>7 DEF Accounted
    <3>2. ASSUME NEW hd \in Heads
          PROVE  Weighed(output[hd]) = {b \in LocalBlocks : mask[b][hd]}
      <4>1. output[hd] = PallasMean(Cache, HeadMask(hd))
        BY <3>1 DEF ThroughMask, SparseAttention
      <4>2. Kept(HeadMask(hd)) = {b \in LocalBlocks : mask[b][hd]}
        BY <2>1, HeadMean
      <4>3. CASE Kept(HeadMask(hd)) = {}
        <5>1. PallasMean(Cache, HeadMask(hd)) = ZeroOutput
          BY <4>3 DEF PallasMean, Mean
        <5> QED
          BY <4>1, <4>2, <4>3, <5>1 DEF Weighed
      <4>4. CASE Kept(HeadMask(hd)) # {}
        BY <2>1, <4>1, <4>2, <4>4, HeadMean
      <4> QED
        BY <4>3, <4>4
    <3>3. UNION {Weighed(output[hd]) : hd \in Heads} = Union
      BY <3>2 DEF Union
    <3> QED
      BY <2>4, <2>7, <2>5, <3>3
  <2> QED
    BY <2>6, <2>7
<1>2. PipelineSpec => []Accounted
  BY InitAccounts, StepAccounts, InductiveInvariant, PTL DEF PipelineSpec
<1> QED
  BY <1>1, <1>2, InductiveInvariant, PTL

-----------------------------------------------------------------------------
(***************************************************************************)
(* What orthocache_forward retains.                                        *)
(***************************************************************************)

\* From the analysis on the mask is that of the gates for the call: neither
\* the compaction nor the attention changes it or the arguments.
MaskIsGated ==
  pc \in {"gated", "compacted"} \/ Evicting =>
    /\ call \in Calls
    /\ mask = MultibandMask(call.queries, call.keys, call.tau, call.zetaMax)

\* Before a call has been analysed there is nothing to say.
LEMMA InitGates == PipelineInit => MaskIsGated
  BY DEF PipelineInit, MaskIsGated, Evicting

\* The analysis computes the mask, and no step after it changes it.
LEMMA StepGates == IInv /\ MaskIsGated /\ [PipelineNext]_pipelineVars => MaskIsGated'
<1> SUFFICES ASSUME IInv, MaskIsGated, [PipelineNext]_pipelineVars
             PROVE  MaskIsGated'
  OBVIOUS
<1>1. ASSUME UNCHANGED <<mask, call>>,
             pc' \in {"gated", "compacted"} \/ Evicting' =>
               pc \in {"gated", "compacted"} \/ Evicting
      PROVE  MaskIsGated'
  BY <1>1 DEF MaskIsGated
<1>2. CASE DirectCompaction \/ DirectCall
  <2>1. pc' = "direct"
    BY <1>2 DEF DirectCompaction, DirectCall, forwardVars
  <2> QED
    BY <2>1 DEF MaskIsGated, Evicting
<1>3. CASE ReturnDense
  BY <1>3 DEF ReturnDense, MaskIsGated, Evicting
<1>4. CASE Gate
  <2>1. /\ call' = call /\ call \in Calls
        /\ mask' = MultibandMask(call.queries, call.keys, call.tau, call.zetaMax)
    BY <1>4 DEF Gate, IInv
  <2> QED
    BY <2>1 DEF MaskIsGated
<1>5. CASE ForwardCompact
  BY <1>1, <1>5 DEF ForwardCompact, Compact
<1>6. CASE ForwardCompactAttend
  BY <1>1, <1>6 DEF ForwardCompactAttend, CompactAttend
<1>7. CASE ForwardSparse
  BY <1>1, <1>7 DEF ForwardSparse, SparseAttend
<1>8. CASE UnknownMode
  BY <1>8 DEF UnknownMode, MaskIsGated, Evicting
<1>9. CASE UNCHANGED pipelineVars
  BY <1>1, <1>9 DEF pipelineVars, vars, forwardVars, Evicting
<1> QED
  BY <1>2, <1>3, <1>4, <1>5, <1>6, <1>7, <1>8, <1>9 DEF PipelineNext, Forward

LEMMA MaskStaysGated == PipelineSpec => []MaskIsGated
  BY InitGates, StepGates, InductiveInvariant, PTL DEF PipelineSpec

LEMMA AlwaysAccounted == PipelineSpec => []Accounted
  BY InitAccounts, StepAccounts, InductiveInvariant, PTL DEF PipelineSpec

\* The arguments of a call, and the score of every block and head.
LEMMA ScoresOfCall ==
  ASSUME NEW c \in Calls
  PROVE  LET scores == Scores(c.queries, c.keys) IN
         /\ AreScores(scores)
         /\ DOMAIN scores = LocalBlocks \X Heads /\ DOMAIN scores # {}
         /\ c.tau = NoTau \/ c.tau \in Int
         /\ \A b \in LocalBlocks, hd \in Heads :
              /\ c.queries[hd] \in QuerySets /\ c.keys[b][hd] \in Blocks
              /\ scores[<<b, hd>>] = MaxBound[c.queries[hd]][c.keys[b][hd]]
<1> DEFINE scores == Scores(c.queries, c.keys)
<1>1. /\ c.queries \in [Heads -> QuerySets]
      /\ \A b \in LocalBlocks : c.keys[b] \in [Heads -> Blocks]
      /\ DOMAIN c.keys = LocalBlocks
      /\ c.tau = NoTau \/ c.tau \in Int
  BY CallsAreWellFormed DEF Calls
<1>2. \A b \in LocalBlocks, hd \in Heads : c.queries[hd] \in QuerySets /\ c.keys[b][hd] \in Blocks
  BY <1>1
<1>3. /\ DOMAIN scores = LocalBlocks \X Heads
      /\ \A b \in LocalBlocks, hd \in Heads :
           scores[<<b, hd>>] = MaxBound[c.queries[hd]][c.keys[b][hd]]
  BY <1>1 DEF Scores
<1>4. \A b \in LocalBlocks, hd \in Heads : scores[<<b, hd>>] \in Int
  BY <1>2, <1>3, MaxBoundIsLargest
<1>5. IsFiniteSet(LocalBlocks \X Heads) /\ LocalBlocks \X Heads # {}
  <2>1. IsFiniteSet(LocalBlocks) /\ LocalBlocks # {}
    <3>1. IsFiniteSet(LocalBlocks)
      BY NBIsPositive, IndicesFinite DEF LocalBlocks
    <3>2. 0 \in LocalBlocks
      BY NBIsPositive DEF LocalBlocks, Indices
    <3> QED
      BY <3>1, <3>2
  <2>2. IsFiniteSet(Heads) /\ Heads # {}
    BY CallsAreWellFormed
  <2>3. IsFiniteSet(LocalBlocks \X Heads)
    BY <2>1, <2>2, FS_Product, Zenon
  <2>4. LocalBlocks \X Heads # {}
    <3>1. PICK b \in LocalBlocks, hd \in Heads : TRUE
      BY <2>1, <2>2
    <3>2. <<b, hd>> \in LocalBlocks \X Heads
      BY <3>1
    <3> QED
      BY <3>2
  <2> QED
    BY <2>3, <2>4, Zenon
<1> HIDE DEF scores
<1>6. \A i \in DOMAIN scores : scores[i] \in Int
  BY <1>3, <1>4
<1> QED
  BY <1>1, <1>2, <1>3, <1>5, <1>6 DEF AreScores, scores

\* A block that the mask retains for a head takes part in its output.
LEMMA RetainedIsWeighed ==
  ASSUME IInv, Accounted, Evicting, NEW b \in LocalBlocks, NEW hd \in Heads, mask[b][hd]
  PROVE  b \in Weighed(output[hd])
<1>1. mask \in Masks /\ b \in Union
  BY DEF Accounted, Union
<1>2. CASE compact # Absent /\ output = ThroughCopy
  <2>1. output[hd] = [a \in Union |-> 1]
    BY <1>1, <1>2, CopyMean
  <2>2. Weighed([a \in Union |-> 1]) = Union
    BY <1>1, MeanOfFront
  <2> QED
    BY <1>1, <2>1, <2>2
<1>3. CASE output = ThroughMask
  <2> DEFINE retained == {a \in LocalBlocks : mask[a][hd]}
  <2>1. b \in retained
    OBVIOUS
  <2>2. output[hd] = SparseAttention(Cache, HeadMask(hd))
    BY <1>3 DEF ThroughMask
  <2> HIDE DEF retained
  <2>3. retained # {}
    BY <2>1
  <2>4. /\ SparseAttention(Cache, HeadMask(hd)) = [a \in retained |-> 1]
        /\ Weighed([a \in retained |-> 1]) = retained
    BY <1>1, <2>3, HeadMean DEF retained
  <2> QED
    BY <2>1, <2>2, <2>4
<1> QED
  BY <1>2, <1>3 DEF Accounted

\* Whatever orthocache_forward evicts, cuts off and reorders, a block with a
\* token whose logit reaches tau takes part in what it returns, unless it is
\* noise: the score of a block is above the logits of its tokens, both
\* thresholds are monotone in it, and what is retained is weighed.
THEOREM RelevantTakePart == PipelineSpec => []RelevantIsWeighed
<1>1. ASSUME IInv, Accounted, MaskIsGated
      PROVE  RelevantIsWeighed
  <2> DEFINE scores == Scores(call.queries, call.keys)
  <2> SUFFICES ASSUME Evicting, NEW b \in LocalBlocks, NEW hd \in Heads,
                      Coherent(call.keys[b][hd], call.zetaMax),
                      b \notin Weighed(output[hd]),
                      NEW v \in Logits[call.queries[hd]][call.keys[b][hd]],
                      TauAtMost(call.tau, v, scores)
               PROVE  FALSE
    BY DEF RelevantIsWeighed
  <2> DEFINE queries == call.queries[hd]
             block   == call.keys[b][hd]
             score   == scores[<<b, hd>>]
  <2>1. /\ call \in Calls
        /\ mask = MultibandMask(call.queries, call.keys, call.tau, call.zetaMax)
    BY <1>1 DEF MaskIsGated
  <2>2. /\ AreScores(scores) /\ (call.tau = NoTau \/ call.tau \in Int)
        /\ queries \in QuerySets /\ block \in Blocks
        /\ score = MaxBound[queries][block]
    BY <2>1, ScoresOfCall
  <2>3. mask[b][hd] <=> TauAtMost(call.tau, score, scores) /\ Coherent(block, call.zetaMax)
    <3>1. DOMAIN call.keys = LocalBlocks /\ DOMAIN call.queries = Heads
      BY <2>1, CallsAreWellFormed DEF Calls
    <3> QED
      BY <2>1, <3>1 DEF MultibandMask
  <2>4. PICK q \in queries, t \in Tokens : v = N * Dot(q, TokenOf(block, t))
    <3> HIDE DEF queries, block, scores
    <3> DEFINE Logit(q, t) == N * Dot(q, [d \in Dims |-> Keys[block][d][t]])
    <3>1. Logits[queries][block] = {Logit(q, t) : q \in queries, t \in Tokens}
      BY <2>2 DEF Logits
    <3>2. v \in Logits[queries][block]
      BY DEF queries, block
    <3> HIDE DEF Logit
    <3>3. \E q \in queries, t \in Tokens : v = Logit(q, t)
      BY <3>1, <3>2
    <3> QED
      BY <3>3 DEF Logit, TokenOf
  <2> HIDE DEF scores, queries, block, score
  <2>5. v \in Int /\ score \in Int /\ v <= score
    BY <2>2, <2>4, MaxBoundIsLargest
  <2>6. TauAtMost(call.tau, score, scores)
    BY <2>2, <2>5, TauIsMonotone
  <2>7. mask[b][hd]
    BY <2>3, <2>6 DEF block
  <2> QED
    BY <1>1, <2>7, RetainedIsWeighed
<1> QED
  BY <1>1, MaskStaysGated, AlwaysAccounted, InductiveInvariant, PTL

\* With tau=None a call whose blocks are all coherent keeps at least half of
\* the entries of the mask, and the one with the largest bound.
THEOREM AutoTauIsSafe == PipelineSpec => []AutoTauKeepsHalf
<1>1. ASSUME MaskIsGated
      PROVE  AutoTauKeepsHalf
  <2> DEFINE scores == Scores(call.queries, call.keys)
             kept   == {i \in DOMAIN scores : mask[i[1]][i[2]]}
             near   == {i \in DOMAIN scores : AutoTauAtMost(scores[i], scores)}
  <2> SUFFICES ASSUME Evicting, call.tau = NoTau,
                      \A b \in LocalBlocks, hd \in Heads :
                        Coherent(call.keys[b][hd], call.zetaMax)
               PROVE  /\ 2 * Cardinality(kept) >= Cardinality(DOMAIN scores)
                      /\ \E i \in kept : \A k \in DOMAIN scores : scores[k] <= scores[i]
    BY DEF AutoTauKeepsHalf
  <2>1. /\ call \in Calls
        /\ mask = MultibandMask(call.queries, call.keys, call.tau, call.zetaMax)
    BY <1>1 DEF MaskIsGated
  <2>2. /\ AreScores(scores)
        /\ DOMAIN scores = LocalBlocks \X Heads /\ DOMAIN scores # {}
    BY <2>1, ScoresOfCall
  <2>3. ASSUME NEW b \in LocalBlocks, NEW hd \in Heads
        PROVE  mask[b][hd] <=> AutoTauAtMost(scores[<<b, hd>>], scores)
    <3>1. DOMAIN call.keys = LocalBlocks /\ DOMAIN call.queries = Heads
      BY <2>1, CallsAreWellFormed DEF Calls
    <3> QED
      BY <2>1, <3>1 DEF MultibandMask, TauAtMost
  <2> HIDE DEF scores
  <2>4. kept = near
    BY <2>2, <2>3
  <2> HIDE DEF kept
  <2>5. /\ 2 * Cardinality(kept) >= Cardinality(DOMAIN scores)
        /\ \E i \in kept : \A k \in DOMAIN scores : scores[k] <= scores[i]
    BY <2>2, <2>4, HalfIsNear
  <2> QED
    BY <2>5
<1> QED
  BY <1>1, MaskStaysGated, PTL
=============================================================================
