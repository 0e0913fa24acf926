------------------------- MODULE StreamCompactProofs -------------------------
(***************************************************************************)
(* What sort-based compaction returns, for masks of every length.          *)
(***************************************************************************)
EXTENDS StreamCompact, FiniteSetTheorems, TLAPS

\* The entries that come before b in a stable sort.
LOCAL Preceding(key, n, b) == {a \in Indices(n) : Before(key, a, b)}

\* The indices of an array are finitely many, n of them.
LEMMA IndicesFinite ==
  ASSUME NEW n \in Nat
  PROVE  IsFiniteSet(Indices(n)) /\ Cardinality(Indices(n)) = n
  BY FS_Interval DEF Indices

\* Every entry has a position: fewer than n entries come before it.
LEMMA RankInRange ==
  ASSUME NEW n \in Nat, NEW key \in [Indices(n) -> Int], NEW b \in Indices(n)
  PROVE  Rank(key, n, b) \in Indices(n)
<1> DEFINE others == Indices(n) \ {b}
<1>1. IsFiniteSet(others) /\ Cardinality(others) = n - 1
  BY IndicesFinite, FS_RemoveElement
<1>2. b \in Int /\ key[b] \in Int
  BY DEF Indices
<1>3. Preceding(key, n, b) \in SUBSET others
  BY <1>2 DEF Preceding, Before, Indices
<1>4. /\ IsFiniteSet(Preceding(key, n, b))
      /\ Cardinality(Preceding(key, n, b)) <= n - 1
  BY <1>1, <1>3, FS_Subset
<1>5. Cardinality(Preceding(key, n, b)) \in Nat
  BY <1>4, FS_CardinalityType
<1> QED
  BY <1>4, <1>5 DEF Rank, Preceding, Indices

\* Coming before is a strict total order, so ranks follow it.
LEMMA RankFollowsOrder ==
  ASSUME NEW n \in Nat, NEW key \in [Indices(n) -> Int],
         NEW a \in Indices(n), NEW b \in Indices(n), Before(key, a, b)
  PROVE  Rank(key, n, a) < Rank(key, n, b)
<1>1. \A c \in Indices(n) : c \in Int /\ key[c] \in Int
  BY DEF Indices
<1>2. Preceding(key, n, a) \in SUBSET Preceding(key, n, b)
  BY <1>1 DEF Preceding, Before
<1>3. a \in Preceding(key, n, b) /\ a \notin Preceding(key, n, a)
  BY <1>1 DEF Preceding, Before
<1>4. IsFiniteSet(Preceding(key, n, b))
  BY IndicesFinite, FS_Subset DEF Preceding
<1>5. /\ Cardinality(Preceding(key, n, a)) <= Cardinality(Preceding(key, n, b))
      /\ Cardinality(Preceding(key, n, a)) # Cardinality(Preceding(key, n, b))
  BY <1>2, <1>3, <1>4, FS_Subset
<1>6. Rank(key, n, a) \in Int /\ Rank(key, n, b) \in Int
  BY RankInRange DEF Indices
<1> QED
  BY <1>5, <1>6 DEF Rank, Preceding

\* argsort is a permutation that lists the entries by rank.
LEMMA ArgSortLists ==
  ASSUME NEW n \in Nat, NEW key \in [Indices(n) -> Int]
  PROVE  /\ ArgSort(key, n) \in [Indices(n) -> Indices(n)]
         /\ \A i \in Indices(n) : Rank(key, n, ArgSort(key, n)[i]) = i
         /\ \A b \in Indices(n) : ArgSort(key, n)[Rank(key, n, b)] = b
<1> DEFINE rank == [b \in Indices(n) |-> Rank(key, n, b)]
<1>1. rank \in [Indices(n) -> Indices(n)]
  BY RankInRange
<1>2. ASSUME NEW a \in Indices(n), NEW b \in Indices(n), a # b
      PROVE  rank[a] # rank[b]
  <2>1. Before(key, a, b) \/ Before(key, b, a)
    BY <1>2 DEF Before, Indices
  <2>2. rank[a] \in Int /\ rank[b] \in Int
    BY <1>1 DEF Indices
  <2>3. rank[a] < rank[b] \/ rank[b] < rank[a]
    BY <2>1, RankFollowsOrder
  <2> QED
    BY <2>2, <2>3
<1>3. rank \in Injection(Indices(n), Indices(n))
  BY <1>1, <1>2 DEF Injection, IsInjective
<1>4. rank \in Surjection(Indices(n), Indices(n))
  BY <1>3, IndicesFinite, FS_Injection
<1>5. \A i \in Indices(n) : \E b \in Indices(n) : Rank(key, n, b) = i
  BY <1>4 DEF Surjection
<1>6. \A i \in Indices(n) : /\ ArgSort(key, n)[i] \in Indices(n)
                            /\ Rank(key, n, ArgSort(key, n)[i]) = i
  BY <1>5 DEF ArgSort
<1>7. \A b \in Indices(n) : ArgSort(key, n)[Rank(key, n, b)] = b
  BY <1>2, <1>6, RankInRange
<1> QED
  BY <1>6, <1>7 DEF ArgSort

\* In any order that puts the retained entries first, position i holds a
\* retained entry exactly if i is below their number: the prefix that every
\* attention loop runs over is the retained set, whichever key is sorted on.
THEOREM RetainedPrefix ==
  ASSUME NEW n \in Nat, NEW mask \in [Indices(n) -> BOOLEAN],
         NEW key \in [Indices(n) -> Int],
         \A a, b \in Indices(n) : mask[a] /\ ~mask[b] => Before(key, a, b)
  PROVE  /\ NumActive(mask, n) \in 0 .. n
         /\ \A i \in Indices(n) :
              mask[ArgSort(key, n)[i]] <=> i < NumActive(mask, n)
<1> DEFINE kept == {b \in Indices(n) : mask[b]}
<1>1. /\ IsFiniteSet(kept)
      /\ Cardinality(kept) \in Nat
      /\ Cardinality(kept) <= n
  BY IndicesFinite, FS_Subset, FS_CardinalityType
<1>2. ASSUME NEW b \in Indices(n), mask[b]
      PROVE  Rank(key, n, b) < Cardinality(kept)
  <2>1. Preceding(key, n, b) \in SUBSET (kept \ {b})
    BY <1>2 DEF Preceding, Before, Indices
  <2>2. /\ IsFiniteSet(kept \ {b})
        /\ Cardinality(kept \ {b}) = Cardinality(kept) - 1
    BY <1>1, <1>2, FS_RemoveElement
  <2>3. Cardinality(Preceding(key, n, b)) <= Cardinality(kept) - 1
    BY <2>1, <2>2, FS_Subset
  <2>4. Rank(key, n, b) \in Int
    BY RankInRange DEF Indices
  <2> QED
    BY <1>1, <2>3, <2>4 DEF Rank, Preceding
<1>3. ASSUME NEW b \in Indices(n), ~mask[b]
      PROVE  Cardinality(kept) <= Rank(key, n, b)
  <2>1. kept \in SUBSET Preceding(key, n, b)
    BY <1>3 DEF Preceding
  <2>2. IsFiniteSet(Preceding(key, n, b))
    BY IndicesFinite, FS_Subset DEF Preceding
  <2> QED
    BY <2>1, <2>2, FS_Subset DEF Rank, Preceding
<1>4. \A i \in Indices(n) : mask[ArgSort(key, n)[i]] <=> i < Cardinality(kept)
  <2> SUFFICES ASSUME NEW i \in Indices(n)
               PROVE  mask[ArgSort(key, n)[i]] <=> i < Cardinality(kept)
    OBVIOUS
  <2>1. /\ ArgSort(key, n)[i] \in Indices(n)
        /\ Rank(key, n, ArgSort(key, n)[i]) = i
    BY ArgSortLists
  <2> DEFINE at == ArgSort(key, n)[i]
  <2>2. i \in Int
    BY DEF Indices
  <2>3. mask[at] => i < Cardinality(kept)
    BY <1>2, <2>1
  <2>4. ~mask[at] => Cardinality(kept) <= i
    BY <1>3, <2>1
  <2>5. mask[at] \in BOOLEAN
    BY <2>1
  <2> HIDE DEF at, kept
  <2>6. mask[at] <=> i < Cardinality(kept)
    BY <1>1, <2>2, <2>3, <2>4, <2>5
  <2> QED
    BY <2>6 DEF at
<1> QED
  BY <1>1, <1>4 DEF NumActive

\* The two sorts of the source are the same function: sorting on distinct keys
\* and sorting the negated mask stably return the same index array.
THEOREM BothSortsAgree ==
  ASSUME NEW n \in Nat, NEW mask \in [Indices(n) -> BOOLEAN]
  PROVE  ActiveIndices(mask, n) = ActiveIndicesByMask(mask, n)
<1>1. \A a, b \in Indices(n) :
        Before(FrontKey(mask, n), a, b) <=> Before(NegatedKey(mask, n), a, b)
  BY DEF Before, FrontKey, NegatedKey, Indices
<1>2. \A b \in Indices(n) :
        Rank(FrontKey(mask, n), n, b) = Rank(NegatedKey(mask, n), n, b)
  BY <1>1 DEF Rank
<1> QED
  BY <1>2 DEF ActiveIndices, ActiveIndicesByMask, ArgSort

\* distributed_attention.stream_compact, for every mask of every length: its
\* indices are a permutation, retained blocks first.
THEOREM ActiveIndicesCorrect ==
  ASSUME NEW n \in Nat, NEW mask \in [Indices(n) -> BOOLEAN]
  PROVE  /\ NumActive(mask, n) \in 0 .. n
         /\ ActiveIndices(mask, n) \in [Indices(n) -> Indices(n)]
         /\ \A i \in Indices(n) :
              mask[ActiveIndices(mask, n)[i]] <=> i < NumActive(mask, n)
         /\ \A i, j \in Indices(n) :
              ActiveIndices(mask, n)[i] = ActiveIndices(mask, n)[j] => i = j
         /\ \A b \in Indices(n) :
              mask[b] => \E i \in Indices(n) : /\ i < NumActive(mask, n)
                                              /\ ActiveIndices(mask, n)[i] = b
<1> DEFINE key == FrontKey(mask, n)
<1>1. key \in [Indices(n) -> Int]
  BY DEF FrontKey, Indices
<1>2. \A a, b \in Indices(n) : mask[a] /\ ~mask[b] => Before(key, a, b)
  BY DEF Before, FrontKey, Indices
<1>3. /\ NumActive(mask, n) \in 0 .. n
      /\ \A i \in Indices(n) : mask[ArgSort(key, n)[i]] <=> i < NumActive(mask, n)
  BY <1>1, <1>2, RetainedPrefix
<1>4. /\ ArgSort(key, n) \in [Indices(n) -> Indices(n)]
      /\ \A i \in Indices(n) : Rank(key, n, ArgSort(key, n)[i]) = i
      /\ \A b \in Indices(n) : ArgSort(key, n)[Rank(key, n, b)] = b
  BY <1>1, ArgSortLists
<1>5. \A b \in Indices(n) : Rank(key, n, b) \in Indices(n)
  BY <1>1, RankInRange
<1> HIDE DEF key
<1> QED
  BY <1>3, <1>4, <1>5 DEF ActiveIndices, key

\* The stable sort keeps the retained entries in their order.
THEOREM RetainedInOrder ==
  ASSUME NEW n \in Nat, NEW mask \in [Indices(n) -> BOOLEAN],
         NEW i \in Indices(n), NEW j \in Indices(n), i < j, j < NumActive(mask, n)
  PROVE  ActiveIndices(mask, n)[i] < ActiveIndices(mask, n)[j]
<1> DEFINE key == FrontKey(mask, n)
           a == ActiveIndices(mask, n)[i]
           b == ActiveIndices(mask, n)[j]
<1>1. key \in [Indices(n) -> Int]
  BY DEF FrontKey, Indices
<1>2. i \in Int /\ j \in Int /\ NumActive(mask, n) \in Int
  BY ActiveIndicesCorrect DEF Indices
<1>3. /\ a \in Indices(n) /\ b \in Indices(n) /\ a # b
      /\ mask[a] /\ mask[b]
  BY <1>2, ActiveIndicesCorrect
<1>4. Rank(key, n, a) = i /\ Rank(key, n, b) = j
  BY <1>1, ArgSortLists DEF ActiveIndices
<1>5. key[a] = a /\ key[b] = b /\ a \in Int /\ b \in Int
  BY <1>3 DEF FrontKey, Indices
<1> HIDE DEF a, b, key
<1>6. b < a => Before(key, b, a)
  BY <1>5 DEF Before
<1>7. b < a => j < i
  BY <1>1, <1>3, <1>4, <1>6, RankFollowsOrder
<1>8. a < b
  BY <1>2, <1>3, <1>5, <1>7
<1> QED
  BY <1>8 DEF a, b

-----------------------------------------------------------------------------
(* Row numbers of gathered buffers: row s is position s % n of chunk s \div n. *)

\* Euclidean division by a variable divisor.
LEMMA Euclid ==
  ASSUME NEW n \in Nat \ {0}, NEW m \in Nat \ {0}, NEW s \in 0 .. (m * n - 1)
  PROVE  /\ s \div n \in 0 .. (m - 1)
         /\ s % n \in 0 .. (n - 1)
         /\ s = (s \div n) * n + (s % n)
<1>1. s % n = s - n * (s \div n)
  BY SMTT(30)
<1>2. s % n \in 0 .. (n - 1)
  BY SMT
<1>3. s \div n \in Nat
  BY SMTT(30)
<1>4. s = n * (s \div n) + (s % n)
  BY <1>1, <1>2, <1>3, SMTT(30)
<1>5. s \div n \in 0 .. (m - 1)
  BY <1>2, <1>3, <1>4, SMTT(30)
<1> QED
  BY <1>2, <1>3, <1>4, <1>5

\* Position r of chunk q is one row, which splits back.
LEMMA EuclidJoins ==
  ASSUME NEW n \in Nat \ {0}, NEW m \in Nat \ {0},
         NEW q \in 0 .. (m - 1), NEW r \in 0 .. (n - 1)
  PROVE  /\ q * n + r \in 0 .. (m * n - 1)
         /\ (q * n + r) \div n = q
         /\ (q * n + r) % n = r
<1>1. q * n \in Nat /\ q * n + n <= m * n
  BY SMTT(30)
<1>2. m * n \in Nat
  BY SMTT(30)
<1>3. q * n + r \in 0 .. (m * n - 1)
  BY <1>1, <1>2
<1>4. (q * n + r) \div n = q
  BY SMTT(30)
<1>5. (q * n + r) % n = r
  BY SMTT(30)
<1> QED
  BY <1>3, <1>4, <1>5

=============================================================================
