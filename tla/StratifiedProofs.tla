---------------------------- MODULE StratifiedProofs ----------------------------
(***************************************************************************)
(* Theorems about the stratified kernel, for every number of devices,      *)
(* blocks per device and calls.  The first part is about one call: which   *)
(* of the four buckets the largest count selects, and what the buffers     *)
(* hold that its gathers return.  The second is about the interleaving:    *)
(* every register is a function of the masks of the call its device is     *)
(* running, so the devices of a call meet in one branch.                   *)
(***************************************************************************)
EXTENDS StratifiedGather, StreamCompactProofs, WellFoundedInduction

-----------------------------------------------------------------------------
(* Part 1: the buckets.                                                    *)

\* The capacities below one of them.
LOCAL Smaller(n) == {x \in Capacities : x < n}

\* At most four capacities, from one block to the whole shard.
LEMMA CapacitiesAreSizes ==
  /\ Capacities \in SUBSET (1 .. NB)
  /\ NB \in Capacities
  /\ IsFiniteSet(Capacities)
  /\ Cardinality(Capacities) \in Branches
<1> DEFINE a == AtLeastOne(NB \div 4)
           b == AtLeastOne(NB \div 2)
           c == AtLeastOne((NB * 3) \div 4)
<1>1. a \in 1 .. NB /\ b \in 1 .. NB /\ c \in 1 .. NB /\ NB \in 1 .. NB
  BY NBIsPositive DEF AtLeastOne
<1>2. Capacities = {a, b, c, NB}
  BY DEF Capacities
<1> HIDE DEF a, b, c
<1>3. /\ IsFiniteSet({} \cup {a}) /\ Cardinality({} \cup {a}) = 1
      /\ {} \cup {a} = {a} /\ {a} \cup {b} = {a, b}
      /\ {a, b} \cup {c} = {a, b, c} /\ {a, b, c} \cup {NB} = {a, b, c, NB}
  BY FS_EmptySet, FS_AddElement
<1>4. IsFiniteSet({a}) /\ Cardinality({a}) = 1
  BY <1>3
<1>5. IsFiniteSet({a, b}) /\ Cardinality({a, b}) \in 1 .. 2
  BY <1>3, <1>4, FS_AddElement
<1>6. IsFiniteSet({a, b, c}) /\ Cardinality({a, b, c}) \in 1 .. 3
  BY <1>3, <1>5, FS_AddElement
<1>7. IsFiniteSet({a, b, c, NB}) /\ Cardinality({a, b, c, NB}) \in 1 .. 4
  BY <1>3, <1>6, FS_AddElement
<1> QED
  BY <1>1, <1>2, <1>7 DEF Branches

\* The number of smaller capacities orders them: BucketSize lists them all,
\* from the smallest to the whole shard, which fills the places left over.
LEMMA BucketsAscend ==
  /\ BucketSize(4) = NB
  /\ \A i \in Branches : BucketSize(i) \in Capacities
  /\ \A i, j \in Branches : i <= j => BucketSize(i) <= BucketSize(j)
  /\ \A n \in Capacities : \E i \in Branches : BucketSize(i) = n
<1> DEFINE k == Cardinality(Capacities)
           Place(n) == Cardinality(Smaller(n))
           Nth(i) == IF i <= k THEN i ELSE k
           place == [n \in Capacities |-> Place(n)]
<1>1. /\ Capacities \in SUBSET (1 .. NB) /\ NB \in Capacities
      /\ IsFiniteSet(Capacities) /\ k \in 1 .. 4
  BY CapacitiesAreSizes DEF Branches
<1>2. ASSUME NEW n \in Capacities
      PROVE  Place(n) \in 0 .. (k - 1)
  <2>1. Smaller(n) \in SUBSET (Capacities \ {n})
    BY <1>1 DEF Smaller
  <2>2. IsFiniteSet(Capacities \ {n}) /\ Cardinality(Capacities \ {n}) = k - 1
    BY <1>1, FS_RemoveElement
  <2>3. IsFiniteSet(Smaller(n)) /\ Cardinality(Smaller(n)) <= k - 1
    BY <2>1, <2>2, FS_Subset
  <2> QED
    BY <1>1, <2>3, FS_CardinalityType
<1>3. ASSUME NEW m \in Capacities, NEW n \in Capacities, m < n
      PROVE  Place(m) < Place(n)
  <2>1. Smaller(m) \in SUBSET Smaller(n) /\ m \in Smaller(n) /\ m \notin Smaller(m)
    <3>1. m \in Int /\ n \in Int /\ \A x \in Capacities : x \in Int
      BY <1>1
    <3>2. \A x \in Capacities : x < m => x < n
      BY <1>3, <3>1
    <3>3. ~(m < m)
      BY <3>1
    <3> QED
      BY <1>3, <3>2, <3>3 DEF Smaller
  <2>2. IsFiniteSet(Smaller(n))
    BY <1>1, FS_Subset DEF Smaller
  <2>3. Place(m) <= Place(n) /\ Place(m) # Place(n)
    BY <2>1, <2>2, FS_Subset
  <2> QED
    BY <1>2, <2>3
<1>4. IsFiniteSet(0 .. (k - 1)) /\ Cardinality(0 .. (k - 1)) = k
  BY <1>1, FS_Interval
<1>5. place \in Injection(Capacities, 0 .. (k - 1))
  <2>1. place \in [Capacities -> 0 .. (k - 1)]
    BY <1>2
  <2>2. ASSUME NEW m \in Capacities, NEW n \in Capacities, m # n
        PROVE  place[m] # place[n]
    <3>1. m < n \/ n < m
      BY <1>1, <2>2
    <3>2. Place(m) < Place(n) \/ Place(n) < Place(m)
      BY <1>3, <3>1
    <3> QED
      BY <1>2, <3>2
  <2> QED
    BY <2>1, <2>2 DEF Injection, IsInjective
<1>6. place \in Surjection(Capacities, 0 .. (k - 1))
  BY <1>1, <1>4, <1>5, FS_Injection
<1>7. \A p \in 0 .. (k - 1) : \E n \in Capacities : Place(n) = p
  BY <1>6 DEF Surjection
<1>8. \A i \in Branches :
        BucketSize(i) = CHOOSE n \in Capacities : Place(n) = Nth(i) - 1
  BY DEF BucketSize, Smaller
<1>9. \A i \in Branches : Nth(i) - 1 \in 0 .. (k - 1)
  BY <1>1 DEF Branches
<1>10. \A i \in Branches : BucketSize(i) \in Capacities /\ Place(BucketSize(i)) = Nth(i) - 1
  <2> HIDE DEF Place, Nth, k
  <2> QED
    BY <1>7, <1>8, <1>9
<1>11. \A m, n \in Capacities : Place(m) = Place(n) => m = n
  BY <1>5 DEF Injection, IsInjective
<1>12. Place(NB) = k - 1
  <2>1. PICK n \in Capacities : Place(n) = k - 1
    BY <1>1, <1>7
  <2>2. NB <= n
    <3>1. ~(n < NB)
      BY <1>1, <1>2, <1>3, <2>1
    <3> QED
      BY <1>1, <3>1
  <2> QED
    BY <1>1, <2>1, <2>2
<1>13. BucketSize(4) = NB
  <2>1. Nth(4) = k /\ 4 \in Branches
    BY <1>1 DEF Branches
  <2>2. Place(BucketSize(4)) = k - 1 /\ BucketSize(4) \in Capacities
    BY <1>10, <2>1
  <2> HIDE DEF Place, k
  <2> QED
    BY <1>1, <1>11, <1>12, <2>2
<1>14. ASSUME NEW i \in Branches, NEW j \in Branches, i <= j
       PROVE  BucketSize(i) <= BucketSize(j)
  <2>1. Nth(i) <= Nth(j)
    BY <1>1, <1>14 DEF Branches
  <2> DEFINE m == BucketSize(i)
             n == BucketSize(j)
  <2>2. m \in Capacities /\ n \in Capacities /\ Place(m) = Nth(i) - 1 /\ Place(n) = Nth(j) - 1
    BY <1>10
  <2>3. Nth(i) \in Int /\ Nth(j) \in Int
    BY <1>1 DEF Branches
  <2> HIDE DEF Place, Nth, m, n
  <2>4. ~(n < m)
    <3>1. n < m => Place(n) < Place(m)
      BY <1>3, <2>2
    <3> QED
      BY <2>1, <2>2, <2>3, <3>1
  <2>5. m <= n
    BY <1>1, <2>2, <2>4
  <2> QED
    BY <2>5 DEF m, n
<1>15. ASSUME NEW n \in Capacities
       PROVE  \E i \in Branches : BucketSize(i) = n
  <2> DEFINE i == Place(n) + 1
  <2>1. i \in Branches /\ Nth(i) = i
    BY <1>1, <1>2 DEF Branches
  <2>2. BucketSize(i) \in Capacities /\ Place(BucketSize(i)) = i - 1
    BY <1>10, <2>1
  <2>3. i - 1 = Place(n)
    BY <1>2
  <2> HIDE DEF Place
  <2> QED
    BY <1>11, <2>1, <2>2, <2>3
<1> QED
  BY <1>10, <1>13, <1>14, <1>15

\* The bucket of a count holds it, and no smaller capacity does.
LEMMA BucketIsTight ==
  ASSUME NEW count \in 0 .. NB
  PROVE  /\ BucketFor(count) \in Branches
         /\ BucketSize(BucketFor(count)) \in 1 .. NB
         /\ count <= BucketSize(BucketFor(count))
         /\ \A n \in Capacities : n < BucketSize(BucketFor(count)) => n < count
<1> DEFINE i == BucketFor(count)
<1>1. /\ \A j \in Branches : BucketSize(j) \in 1 .. NB
      /\ BucketSize(4) = NB
      /\ \A j, l \in Branches : j <= l => BucketSize(j) <= BucketSize(l)
      /\ \A n \in Capacities : \E j \in Branches : BucketSize(j) = n
  BY BucketsAscend, CapacitiesAreSizes
<1>2. Branches = {1, 2, 3, 4} /\ 1 .. 3 = {1, 2, 3}
  BY DEF Branches
<1>3. i \in Branches /\ count <= BucketSize(i) /\ \A j \in 1 .. (i - 1) : BucketSize(j) < count
  <2>1. CASE \E j \in 1 .. 3 : count <= BucketSize(j)
    <3>1. \E j \in 1 .. 3 : /\ count <= BucketSize(j)
                            /\ \A l \in 1 .. (j - 1) : count > BucketSize(l)
      <4>1. CASE count <= BucketSize(1)
        BY <4>1
      <4>2. CASE ~(count <= BucketSize(1)) /\ count <= BucketSize(2)
        BY <1>1, <1>2, <4>2
      <4>3. CASE ~(count <= BucketSize(1)) /\ ~(count <= BucketSize(2)) /\ count <= BucketSize(3)
        BY <1>1, <1>2, <4>3
      <4> QED
        BY <1>2, <2>1, <4>1, <4>2, <4>3
    <3>2. /\ i \in 1 .. 3 /\ count <= BucketSize(i)
          /\ \A l \in 1 .. (i - 1) : count > BucketSize(l)
      BY <2>1, <3>1 DEF BucketFor
    <3> QED
      BY <1>1, <1>2, <3>2
  <2>2. CASE ~ \E j \in 1 .. 3 : count <= BucketSize(j)
    <3>1. i = 4
      BY <2>2 DEF BucketFor
    <3>2. \A j \in 1 .. 3 : BucketSize(j) < count
      BY <1>1, <1>2, <2>2
    <3> QED
      BY <1>1, <1>2, <3>1, <3>2
  <2> QED
    BY <2>1, <2>2
<1> HIDE DEF i
<1>4. ASSUME NEW n \in Capacities, n < BucketSize(i)
      PROVE  n < count
  <2>1. PICK j \in Branches : BucketSize(j) = n
    BY <1>1
  <2>2. ~(i <= j)
    BY <1>1, <1>3, <1>4, <2>1
  <2>3. j \in 1 .. (i - 1)
    BY <1>3, <2>2 DEF Branches
  <2> QED
    BY <1>3, <2>1, <2>3
<1> QED
  BY <1>1, <1>3, <1>4 DEF i

\* pmax: the largest operand, and one of them.
LEMMA MaxIsAttained ==
  ASSUME NEW f \in [Devices -> 0 .. NB]
  PROVE  /\ MaxOver(f) \in 0 .. NB
         /\ \A d \in Devices : f[d] <= MaxOver(f)
         /\ \E d \in Devices : MaxOver(f) = f[d]
<1> DEFINE bounds == {u \in Nat : \A d \in Devices : f[d] <= u}
<1>1. NB \in bounds /\ 0 \in Devices /\ NB \in Nat
  BY NBIsPositive, PIsPositive DEF Devices
<1>2. PICK u \in bounds : \A v \in bounds : ~(<<v, u>> \in OpToRel(<, Nat))
  BY <1>1, NatLessThanWellFounded, WFMin
<1>3. u \in Nat /\ \A v \in bounds : ~(v < u)
  BY <1>2 DEF OpToRel
<1>4. \E d \in Devices : f[d] = u
  <2> SUFFICES ASSUME \A d \in Devices : f[d] # u
               PROVE  FALSE
    OBVIOUS
  <2>1. \A d \in Devices : f[d] <= u - 1 /\ f[d] \in Nat
    BY <1>3, NBIsPositive
  <2>2. u - 1 \in Nat
    BY <1>1, <1>3, <2>1
  <2>3. u - 1 \in bounds
    BY <2>1, <2>2
  <2> QED
    BY <1>3, <2>2, <2>3
<1>5. \E m \in {f[d] : d \in Devices} : \A d \in Devices : f[d] <= m
  BY <1>4
<1>6. MaxOver(f) \in {f[d] : d \in Devices} /\ \A d \in Devices : f[d] <= MaxOver(f)
  BY <1>5 DEF MaxOver
<1> QED
  BY <1>6

-----------------------------------------------------------------------------
(***************************************************************************)
(* What the masks m of one call determine.                                 *)
(***************************************************************************)
CountsOf(m)   == [d \in Devices |-> NumActive(m[d], NB)]
CeilingOf(m)  == MaxOver(CountsOf(m))
BranchOf(m)   == BucketFor(CeilingOf(m))
CapacityOf(m) == BucketSize(BranchOf(m))
CutOf(m)      == [d \in Devices |-> Cut(Reindexed(d, m[d]), CapacityOf(m))]
GatheredOf(m) == TiledGather(CutOf(m), CapacityOf(m))
ActiveOf(m)   == {b \in Blocks : m[b[1]][b[2]]}

\* The shapes of the arrays of a call, and the fit of its bucket.
LEMMA CallData ==
  ASSUME NEW m \in [Devices -> [LocalBlocks -> BOOLEAN]]
  PROVE  /\ CountsOf(m) \in [Devices -> 0 .. NB]
         /\ CeilingOf(m) \in 0 .. NB
         /\ BranchOf(m) \in Branches
         /\ CapacityOf(m) \in 1 .. NB
         /\ \A d \in Devices : CountsOf(m)[d] <= CapacityOf(m)
         /\ \A n \in Capacities : n < CapacityOf(m) => \E d \in Devices : CountsOf(m)[d] > n
         /\ \A d \in Devices : Reindexed(d, m[d]) \in [LocalBlocks -> Blocks]
         /\ CutOf(m) \in [Devices -> [0 .. (CapacityOf(m) - 1) -> Blocks]]
         /\ GatheredOf(m) \in [0 .. (P * CapacityOf(m) - 1) -> Blocks]
<1>1. \A d \in Devices : /\ NumActive(m[d], NB) \in 0 .. NB
                         /\ ActiveIndices(m[d], NB) \in [LocalBlocks -> LocalBlocks]
  BY NBIsPositive, ActiveIndicesCorrect DEF LocalBlocks
<1>2. CountsOf(m) \in [Devices -> 0 .. NB]
  BY <1>1 DEF CountsOf
<1>3. /\ CeilingOf(m) \in 0 .. NB
      /\ \A d \in Devices : CountsOf(m)[d] <= CeilingOf(m)
      /\ \E d \in Devices : CeilingOf(m) = CountsOf(m)[d]
  BY <1>2, MaxIsAttained DEF CeilingOf
<1>4. /\ BranchOf(m) \in Branches /\ CapacityOf(m) \in 1 .. NB
      /\ CeilingOf(m) <= CapacityOf(m)
      /\ \A n \in Capacities : n < CapacityOf(m) => n < CeilingOf(m)
  BY <1>3, BucketIsTight DEF BranchOf, CapacityOf
<1>5. \A d \in Devices : CountsOf(m)[d] <= CapacityOf(m)
  BY <1>2, <1>3, <1>4, NBIsPositive
<1>6. ASSUME NEW n \in Capacities, n < CapacityOf(m)
      PROVE  \E d \in Devices : CountsOf(m)[d] > n
  BY <1>3, <1>4, <1>6
<1>7. \A d \in Devices : Reindexed(d, m[d]) \in [LocalBlocks -> Blocks]
  BY <1>1 DEF Reindexed, Blocks
<1>8. 0 .. (CapacityOf(m) - 1) \in SUBSET LocalBlocks
  BY <1>4, NBIsPositive DEF LocalBlocks, Indices
<1>9. CutOf(m) \in [Devices -> [0 .. (CapacityOf(m) - 1) -> Blocks]]
  BY <1>7, <1>8 DEF CutOf, Cut
<1>10. GatheredOf(m) \in [0 .. (P * CapacityOf(m) - 1) -> Blocks]
  <2> SUFFICES ASSUME NEW s \in 0 .. (P * CapacityOf(m) - 1)
               PROVE  CutOf(m)[s \div CapacityOf(m)][s % CapacityOf(m)] \in Blocks
    BY DEF GatheredOf, TiledGather
  <2>0. CapacityOf(m) \in Nat \ {0}
    BY <1>4, NBIsPositive
  <2>1. /\ s \div CapacityOf(m) \in Devices
        /\ (s % CapacityOf(m)) \in 0 .. (CapacityOf(m) - 1)
    BY <2>0, PIsPositive, Euclid DEF Devices
  <2> QED
    BY <1>9, <2>1
<1> QED
  BY <1>2, <1>3, <1>4, <1>5, <1>6, <1>7, <1>9, <1>10

\* The slots behind a device's active blocks hold evicted ones, and the mask
\* built from the gathered counts leaves out exactly those: the mean of a call
\* weighs every active block of every device once, however small its bucket.
THEOREM MaskedMeanIsExact ==
  ASSUME NEW m \in [Devices -> [LocalBlocks -> BOOLEAN]], ActiveOf(m) # {}
  PROVE  MaskedMean(GatheredOf(m), GatheredOf(m), CountsOf(m), CapacityOf(m))
           = Promise!OnceEach(ActiveOf(m))
<1> DEFINE n     == CapacityOf(m)
           all   == GatheredOf(m)
           cnt   == CountsOf(m)
           ix(d) == ActiveIndices(m[d], NB)
           slots == 0 .. (P * n - 1)
           valid == {s \in slots : (s % n) < cnt[s \div n]}
<1>1. \A d \in Devices :
        /\ ix(d) \in [LocalBlocks -> LocalBlocks]
        /\ \A j \in LocalBlocks : m[d][ix(d)[j]] <=> j < cnt[d]
        /\ \A i, j \in LocalBlocks : ix(d)[i] = ix(d)[j] => i = j
        /\ \A b \in LocalBlocks :
             m[d][b] => \E j \in LocalBlocks : j < cnt[d] /\ ix(d)[j] = b
  BY NBIsPositive, ActiveIndicesCorrect DEF LocalBlocks, CountsOf
<1>2. /\ n \in 1 .. NB /\ n \in Nat \ {0}
      /\ cnt \in [Devices -> 0 .. NB]
      /\ \A d \in Devices : cnt[d] <= n
  BY CallData
<1>3. \A s \in slots : /\ s \div n \in Devices /\ (s % n) \in 0 .. (n - 1)
                       /\ s = (s \div n) * n + (s % n)
  BY <1>2, PIsPositive, Euclid DEF Devices
<1>4. \A j \in 0 .. (n - 1) : j \in LocalBlocks
  BY <1>2, NBIsPositive DEF LocalBlocks, Indices
<1>5. ASSUME NEW s \in slots
      PROVE  all[s] = <<s \div n, ix(s \div n)[s % n]>>
  <2>1. all[s] = CutOf(m)[s \div n][s % n]
    BY DEF GatheredOf, TiledGather
  <2>2. CutOf(m)[s \div n] = Cut(Reindexed(s \div n, m[s \div n]), n)
    BY <1>3 DEF CutOf
  <2>3. Cut(Reindexed(s \div n, m[s \div n]), n)[s % n] = Reindexed(s \div n, m[s \div n])[s % n]
    BY <1>3 DEF Cut
  <2>4. Reindexed(s \div n, m[s \div n])[s % n] = <<s \div n, ix(s \div n)[s % n]>>
    BY <1>3, <1>4 DEF Reindexed
  <2> HIDE DEF all, n, ix
  <2> QED
    BY <2>1, <2>2, <2>3, <2>4
<1>6. MaskedMean(all, all, cnt, n) =
        [pair \in {<<all[s], all[s]>> : s \in IF valid = {} THEN slots ELSE valid} |->
           Cardinality({s \in IF valid = {} THEN slots ELSE valid :
                          <<all[s], all[s]>> = pair})]
  BY Zenon DEF MaskedMean
<1> HIDE DEF n, all, cnt, ix
<1>7. ASSUME NEW s \in valid
      PROVE  all[s] \in ActiveOf(m)
  <2> DEFINE d == s \div n
             j == s % n
  <2>1. d \in Devices /\ j \in LocalBlocks /\ j < cnt[d] /\ all[s] = <<d, ix(d)[j]>>
    BY <1>3, <1>4, <1>5
  <2> HIDE DEF d, j
  <2>2. ix(d)[j] \in LocalBlocks /\ m[d][ix(d)[j]]
    BY <1>1, <2>1
  <2> QED
    BY <2>1, <2>2 DEF ActiveOf, Blocks
<1>8. ASSUME NEW s \in valid, NEW t \in valid, all[s] = all[t]
      PROVE  s = t
  <2>1. s \div n = t \div n /\ ix(s \div n)[s % n] = ix(t \div n)[t % n]
    BY <1>5, <1>8
  <2>2. (s % n) = (t % n)
    BY <1>1, <1>3, <1>4, <2>1
  <2>3. s = (s \div n) * n + (s % n) /\ t = (t \div n) * n + (t % n)
    BY <1>3
  <2> QED
    BY <2>1, <2>2, <2>3, Zenon
<1>9. ASSUME NEW b \in ActiveOf(m)
      PROVE  \E s \in valid : all[s] = b
  <2>1. PICK d \in Devices, c \in LocalBlocks : b = <<d, c>> /\ m[d][c]
    BY DEF ActiveOf, Blocks
  <2>2. PICK j \in LocalBlocks : j < cnt[d] /\ ix(d)[j] = c
    BY <1>1, <2>1
  <2>3. j \in 0 .. (n - 1) /\ d \in 0 .. (P - 1)
    BY <1>2, <2>2, NBIsPositive DEF LocalBlocks, Indices, Devices
  <2>4. /\ d * n + j \in slots
        /\ (d * n + j) \div n = d
        /\ (d * n + j) % n = j
    BY <1>2, <2>3, PIsPositive, EuclidJoins
  <2>5. all[d * n + j] = b /\ d * n + j \in valid
    BY <1>5, <2>1, <2>2, <2>4
  <2> QED
    BY <2>5
<1>10. valid # {}
  BY <1>9
<1> HIDE DEF valid
<1>11. {<<all[s], all[s]>> : s \in valid} = {<<b, b>> : b \in ActiveOf(m)}
  BY <1>7, <1>9
<1>12. ASSUME NEW pair \in {<<b, b>> : b \in ActiveOf(m)}
       PROVE  Cardinality({s \in valid : <<all[s], all[s]>> = pair}) = 1
  <2>1. PICK b \in ActiveOf(m) : pair = <<b, b>>
    OBVIOUS
  <2>2. PICK s \in valid : all[s] = b
    BY <1>9
  <2>3. {t \in valid : <<all[t], all[t]>> = pair} = {s}
    BY <1>8, <2>1, <2>2
  <2> QED
    BY <2>3, FS_Singleton
<1>13. MaskedMean(all, all, cnt, n) =
         [pair \in {<<all[s], all[s]>> : s \in valid} |->
            Cardinality({s \in valid : <<all[s], all[s]>> = pair})]
  BY <1>6, <1>10
<1>14. MaskedMean(all, all, cnt, n) = Promise!OnceEach(ActiveOf(m))
  BY <1>11, <1>12, <1>13 DEF Promise!OnceEach
<1> QED
  BY <1>14 DEF all, cnt, n

-----------------------------------------------------------------------------
(***************************************************************************)
(* Part 2: the invariant.  A register is empty before the step that fills  *)
(* it; from then on, until the call returns, it holds what the masks of    *)
(* the call determine.  So does every operand that is posted, and keys and *)
(* values are posted on no branch but the call's own.                      *)
(***************************************************************************)
AtKeys     == {"postKeys", "awaitKeys"}
AtValues   == {"postValues", "awaitValues"}
InBranch   == AtKeys \cup AtValues \cup {"attend"}
HasCounts  == InBranch \cup {"select"}
HasCeiling == HasCounts \cup {"postCounts", "awaitCounts"}
HasShard   == HasCeiling \cup {"postMax", "awaitMax"}

Held(d, steps, value) == IF pc[d] \in steps THEN value ELSE Absent

RegistersFollow(d) ==
  LET m == mask[call[d]] IN
  /\ kActive[d]   = Held(d, HasShard, Reindexed(d, m[d]))
  /\ vActive[d]   = Held(d, HasShard, Reindexed(d, m[d]))
  /\ ceiling[d]   = Held(d, HasCeiling, CeilingOf(m))
  /\ counts[d]    = Held(d, HasCounts, CountsOf(m))
  /\ branch[d]    = Held(d, InBranch, BranchOf(m))
  /\ kGathered[d] = Held(d, AtValues \cup {"attend"}, GatheredOf(m))
  /\ vGathered[d] = Held(d, {"attend"}, GatheredOf(m))

OperandsFollow(c, d) ==
  LET m == mask[c] IN
  /\ maxCh[c][d] # Absent => maxCh[c][d] = CountsOf(m)[d]
  /\ countsCh[c][d] # Absent => countsCh[c][d] = CountsOf(m)[d]
  /\ \A i \in Branches :
       /\ keysCh[i][c][d] # Absent => i = BranchOf(m) /\ keysCh[i][c][d] = CutOf(m)[d]
       /\ valuesCh[i][c][d] # Absent => i = BranchOf(m) /\ valuesCh[i][c][d] = CutOf(m)[d]

PerDevice(f) == f = [d \in Devices |-> f[d]]
PerCall(f)   == /\ f = [c \in 1 .. Calls |-> f[c]]
                /\ \A c \in 1 .. Calls : f[c] = [d \in Devices |-> f[c][d]]

Typed ==
  /\ mask \in [1 .. Calls -> [Devices -> [LocalBlocks -> BOOLEAN]]]
  /\ \A c \in 1 .. Calls : ActiveOf(mask[c]) # {}
  /\ call \in [Devices -> 1 .. (Calls + 1)]
  /\ pc \in [Devices -> Steps]
  /\ \A d \in Devices : pc[d] # "reindex" => call[d] \in 1 .. Calls
  /\ PerDevice(kActive) /\ PerDevice(vActive) /\ PerDevice(ceiling) /\ PerDevice(counts)
  /\ PerDevice(branch) /\ PerDevice(kGathered) /\ PerDevice(vGathered)
  /\ PerCall(maxCh) /\ PerCall(countsCh)
  /\ DOMAIN keysCh = Branches /\ DOMAIN valuesCh = Branches
  /\ \A i \in Branches : PerCall(keysCh[i]) /\ PerCall(valuesCh[i])

IInv ==
  /\ Typed
  /\ \A d \in Devices : RegistersFollow(d)
  /\ \A c \in 1 .. Calls : \A d \in Devices : OperandsFollow(c, d)

\* No device has started: every register is empty, every channel too.
LEMMA InitEstablishes == Init => IInv
<1> SUFFICES ASSUME Init
             PROVE  IInv
  OBVIOUS
<1>1. \A c \in 1 .. Calls : ActiveOf(mask[c]) # {}
  BY DEF Init, ActiveOf
<1>2. Typed
  <2>1. PerCall(EmptyChannel)
    BY DEF PerCall, EmptyChannel
  <2>2. PerCall(maxCh) /\ PerCall(countsCh)
    BY <2>1 DEF Init
  <2>3. /\ DOMAIN keysCh = Branches /\ DOMAIN valuesCh = Branches
        /\ \A i \in Branches : PerCall(keysCh[i]) /\ PerCall(valuesCh[i])
    BY <2>1 DEF Init
  <2>4. call \in [Devices -> 1 .. (Calls + 1)] /\ pc \in [Devices -> Steps]
    BY CallsIsNat DEF Init, Steps
  <2>5. /\ PerDevice(kActive) /\ PerDevice(vActive) /\ PerDevice(ceiling) /\ PerDevice(counts)
        /\ PerDevice(branch) /\ PerDevice(kGathered) /\ PerDevice(vGathered)
    BY DEF Init, PerDevice
  <2>6. /\ mask \in [1 .. Calls -> [Devices -> [LocalBlocks -> BOOLEAN]]]
        /\ \A d \in Devices : pc[d] = "reindex"
    BY DEF Init
  <2> QED
    BY <1>1, <2>2, <2>3, <2>4, <2>5, <2>6 DEF Typed
<1>3. \A d \in Devices : RegistersFollow(d)
  BY DEF Init, RegistersFollow, Held, HasShard, HasCeiling, HasCounts, InBranch, AtKeys,
         AtValues
<1>4. \A c \in 1 .. Calls : \A d \in Devices : OperandsFollow(c, d)
  BY DEF Init, OperandsFollow, EmptyChannel
<1> QED
  BY <1>2, <1>3, <1>4 DEF IInv

\* Operands that a step does not touch stay what they are.
LEMMA OperandsStay ==
  ASSUME IInv, UNCHANGED <<mask, channels>>
  PROVE  \A c \in 1 .. Calls : \A d \in Devices : OperandsFollow(c, d)'
  BY DEF IInv, OperandsFollow, channels

\* Posting an operand leaves a channel a function of calls and devices.
LEMMA PostKeepsShape ==
  ASSUME NEW f, PerCall(f), NEW c \in 1 .. Calls, NEW d \in Devices, NEW v
  PROVE  PerCall(Post(f, c, d, v))
<1> DEFINE g == Post(f, c, d, v)
<1>1. g = [k \in 1 .. Calls |-> g[k]]
  <2>1. f = [k \in 1 .. Calls |-> f[k]]
    BY DEF PerCall
  <2>2. g = [k \in 1 .. Calls |-> IF k = c THEN [f[c] EXCEPT ![d] = v] ELSE f[k]]
    BY <2>1 DEF Post
  <2> HIDE DEF g
  <2> QED
    BY <2>2
<1>2. ASSUME NEW k \in 1 .. Calls
      PROVE  g[k] = [e \in Devices |-> g[k][e]]
  <2>1. f[k] = [e \in Devices |-> f[k][e]]
    BY DEF PerCall
  <2>2. CASE k = c
    <3>1. g[k] = [f[k] EXCEPT ![d] = v]
      BY <2>2 DEF PerCall, Post
    <3> HIDE DEF g
    <3> QED
      BY <2>1, <3>1
  <2>3. CASE k # c
    BY <2>1, <2>3 DEF PerCall, Post
  <2> QED
    BY <2>2, <2>3
<1> HIDE DEF g
<1>3. PerCall(g)
  BY <1>1, <1>2 DEF PerCall
<1> QED
  BY <1>3 DEF g

\* What a post leaves in the channel: its operand at its place.
LEMMA PostedWhere ==
  ASSUME NEW f, PerCall(f), NEW c \in 1 .. Calls, NEW d \in Devices, NEW v,
         NEW k \in 1 .. Calls, NEW e \in Devices
  PROVE  Post(f, c, d, v)[k][e] = IF k = c /\ e = d THEN v ELSE f[k][e]
<1>1. f[c] = [x \in Devices |-> f[c][x]]
  BY DEF PerCall
<1>2. Post(f, c, d, v)[k] = IF k = c THEN [f[c] EXCEPT ![d] = v] ELSE f[k]
  BY DEF PerCall, Post
<1>3. [f[c] EXCEPT ![d] = v][e] = IF e = d THEN v ELSE f[c][e]
  BY <1>1
<1> QED
  BY <1>2, <1>3

\* All operands of a complete collective are those of its call; and a complete
\* collective of keys or values is one of the call's own branch.
LEMMA CompleteChannels ==
  ASSUME IInv, NEW c \in 1 .. Calls
  PROVE  /\ Complete(maxCh, c) => maxCh[c] = CountsOf(mask[c])
         /\ Complete(countsCh, c) => countsCh[c] = CountsOf(mask[c])
         /\ \A i \in Branches :
              /\ Complete(keysCh[i], c) => keysCh[i][c] = CutOf(mask[c])
              /\ Complete(valuesCh[i], c) => valuesCh[i][c] = CutOf(mask[c])
<1>1. \A d \in Devices : OperandsFollow(c, d)
  BY DEF IInv
<1>2. /\ maxCh[c] = [d \in Devices |-> maxCh[c][d]]
      /\ countsCh[c] = [d \in Devices |-> countsCh[c][d]]
      /\ \A i \in Branches : /\ keysCh[i][c] = [d \in Devices |-> keysCh[i][c][d]]
                             /\ valuesCh[i][c] = [d \in Devices |-> valuesCh[i][c][d]]
  BY DEF IInv, Typed, PerCall
<1>3. /\ CountsOf(mask[c]) = [d \in Devices |-> CountsOf(mask[c])[d]]
      /\ CutOf(mask[c]) = [d \in Devices |-> CutOf(mask[c])[d]]
  BY DEF CountsOf, CutOf
<1>4. Complete(maxCh, c) => \A d \in Devices : maxCh[c][d] = CountsOf(mask[c])[d]
  BY <1>1 DEF Complete, OperandsFollow
<1>5. Complete(countsCh, c) => \A d \in Devices : countsCh[c][d] = CountsOf(mask[c])[d]
  BY <1>1 DEF Complete, OperandsFollow
<1>6. \A i \in Branches :
        /\ Complete(keysCh[i], c) => \A d \in Devices : keysCh[i][c][d] = CutOf(mask[c])[d]
        /\ Complete(valuesCh[i], c) => \A d \in Devices : valuesCh[i][c][d] = CutOf(mask[c])[d]
  BY <1>1 DEF Complete, OperandsFollow
<1> QED
  BY <1>2, <1>3, <1>4, <1>5, <1>6

\* The shard is compacted by the mask of this call.
LEMMA ReindexPreserves ==
  ASSUME IInv, NEW d \in Devices, Reindex(d)
  PROVE  IInv'
<1> USE DEF Reindex, Goto, locals, channels
<1>1. Typed /\ RegistersFollow(d) /\ call[d] \in 1 .. Calls
  BY DEF IInv
<1>2. Typed'
  BY <1>1, CallsIsNat DEF Typed, PerDevice, Steps
<1>3. \A e \in Devices : RegistersFollow(e)'
  BY <1>1 DEF IInv, Typed, PerDevice, RegistersFollow, Held, HasShard, HasCeiling,
         HasCounts, InBranch, AtKeys, AtValues
<1> QED
  BY <1>2, <1>3, OperandsStay DEF IInv

\* The count that enters the pmax is that of the call it is posted for.
LEMMA PostMaxPreserves ==
  ASSUME IInv, NEW d \in Devices, PostMax(d)
  PROVE  IInv'
<1> USE DEF PostMax, Goto, locals, channels
<1>1. Typed /\ RegistersFollow(d) /\ call[d] \in 1 .. Calls
  BY DEF IInv
<1>2. Typed'
  BY <1>1, PostKeepsShape DEF Typed, PerDevice, Steps
<1>3. \A e \in Devices : RegistersFollow(e)'
  BY <1>1 DEF IInv, Typed, PerDevice, RegistersFollow, Held, HasShard, HasCeiling,
         HasCounts, InBranch, AtKeys, AtValues
<1>4. ActiveHere(d) = CountsOf(mask[call[d]])[d]
  BY DEF ActiveHere, CountsOf
<1>5. \A c \in 1 .. Calls : \A e \in Devices : OperandsFollow(c, e)'
  <2> SUFFICES ASSUME NEW c \in 1 .. Calls, NEW e \in Devices
               PROVE  OperandsFollow(c, e)'
    OBVIOUS
  <2>1. OperandsFollow(c, e)
    BY DEF IInv
  <2>2. maxCh'[c][e] = IF c = call[d] /\ e = d THEN ActiveHere(d) ELSE maxCh[c][e]
    BY <1>1, PostedWhere DEF Typed
  <2> QED
    BY <1>1, <1>4, <2>1, <2>2 DEF OperandsFollow
<1> QED
  BY <1>2, <1>3, <1>5 DEF IInv

\* A complete pmax is the largest count of this very call.
LEMMA AwaitMaxPreserves ==
  ASSUME IInv, NEW d \in Devices, AwaitMax(d)
  PROVE  IInv'
<1> USE DEF AwaitMax, Goto, locals, channels
<1>1. Typed /\ RegistersFollow(d) /\ call[d] \in 1 .. Calls
  BY DEF IInv
<1>2. Typed'
  BY <1>1, CallsIsNat DEF Typed, PerDevice, Steps
<1>3. MaxOver(maxCh[call[d]]) = CeilingOf(mask[call[d]])
  BY <1>1, CompleteChannels DEF CeilingOf
<1>4. \A e \in Devices : RegistersFollow(e)'
  BY <1>1, <1>3 DEF IInv, Typed, PerDevice, RegistersFollow, Held, HasShard, HasCeiling,
         HasCounts, InBranch, AtKeys, AtValues
<1> QED
  BY <1>2, <1>4, OperandsStay DEF IInv

\* So is the count that enters the all_gather.
LEMMA PostCountsPreserves ==
  ASSUME IInv, NEW d \in Devices, PostCounts(d)
  PROVE  IInv'
<1> USE DEF PostCounts, Goto, locals, channels
<1>1. Typed /\ RegistersFollow(d) /\ call[d] \in 1 .. Calls
  BY DEF IInv
<1>2. Typed'
  BY <1>1, PostKeepsShape DEF Typed, PerDevice, Steps
<1>3. \A e \in Devices : RegistersFollow(e)'
  BY <1>1 DEF IInv, Typed, PerDevice, RegistersFollow, Held, HasShard, HasCeiling,
         HasCounts, InBranch, AtKeys, AtValues
<1>4. ActiveHere(d) = CountsOf(mask[call[d]])[d]
  BY DEF ActiveHere, CountsOf
<1>5. \A c \in 1 .. Calls : \A e \in Devices : OperandsFollow(c, e)'
  <2> SUFFICES ASSUME NEW c \in 1 .. Calls, NEW e \in Devices
               PROVE  OperandsFollow(c, e)'
    OBVIOUS
  <2>1. OperandsFollow(c, e)
    BY DEF IInv
  <2>2. countsCh'[c][e] = IF c = call[d] /\ e = d THEN ActiveHere(d) ELSE countsCh[c][e]
    BY <1>1, PostedWhere DEF Typed
  <2> QED
    BY <1>1, <1>4, <2>1, <2>2 DEF OperandsFollow
<1> QED
  BY <1>2, <1>3, <1>5 DEF IInv

\* A complete gather holds the counts of this very call.
LEMMA AwaitCountsPreserves ==
  ASSUME IInv, NEW d \in Devices, AwaitCounts(d)
  PROVE  IInv'
<1> USE DEF AwaitCounts, Goto, locals, channels
<1>1. Typed /\ RegistersFollow(d) /\ call[d] \in 1 .. Calls
  BY DEF IInv
<1>2. Typed'
  BY <1>1, CallsIsNat DEF Typed, PerDevice, Steps
<1>3. countsCh[call[d]] = CountsOf(mask[call[d]])
  BY <1>1, CompleteChannels
<1>4. \A e \in Devices : RegistersFollow(e)'
  BY <1>1, <1>3 DEF IInv, Typed, PerDevice, RegistersFollow, Held, HasShard, HasCeiling,
         HasCounts, InBranch, AtKeys, AtValues
<1> QED
  BY <1>2, <1>4, OperandsStay DEF IInv

\* The branch is the one that the largest count of the call selects.
LEMMA SelectPreserves ==
  ASSUME IInv, NEW d \in Devices, Select(d)
  PROVE  IInv'
<1> USE DEF Select, Goto, locals, channels
<1>1. Typed /\ RegistersFollow(d) /\ call[d] \in 1 .. Calls
  BY DEF IInv
<1>2. Typed'
  BY <1>1, CallsIsNat DEF Typed, PerDevice, Steps
<1>3. BucketFor(ceiling[d]) = BranchOf(mask[call[d]])
  BY <1>1 DEF BranchOf, RegistersFollow, Held, HasShard, HasCeiling, HasCounts, InBranch,
         AtKeys, AtValues
<1>4. \A e \in Devices : RegistersFollow(e)'
  BY <1>1, <1>3 DEF IInv, Typed, PerDevice, RegistersFollow, Held, HasShard, HasCeiling,
         HasCounts, InBranch, AtKeys, AtValues
<1> QED
  BY <1>2, <1>4, OperandsStay DEF IInv

\* The keys go to the branch of the call, cut to its capacity.
LEMMA PostKeysPreserves ==
  ASSUME IInv, NEW d \in Devices, PostKeys(d)
  PROVE  IInv'
<1> USE DEF PostKeys, Goto, locals, channels
<1>1. Typed /\ RegistersFollow(d) /\ call[d] \in 1 .. Calls
  BY DEF IInv
<1>2. Typed'
  BY <1>1, PostKeepsShape DEF Typed, PerDevice, Steps
<1>3. \A e \in Devices : RegistersFollow(e)'
  BY <1>1 DEF IInv, Typed, PerDevice, RegistersFollow, Held, HasShard, HasCeiling,
         HasCounts, InBranch, AtKeys, AtValues
<1>4. /\ branch[d] = BranchOf(mask[call[d]]) /\ branch[d] \in Branches
      /\ Cut(kActive[d], BucketSize(branch[d])) = CutOf(mask[call[d]])[d]
  <2>1. branch[d] = BranchOf(mask[call[d]]) /\ kActive[d] = Reindexed(d, mask[call[d]][d])
    BY <1>1 DEF RegistersFollow, Held, HasShard, HasCeiling, HasCounts, InBranch, AtKeys,
           AtValues
  <2>2. BranchOf(mask[call[d]]) \in Branches
    BY <1>1, CallData DEF Typed
  <2> QED
    BY <2>1, <2>2 DEF CutOf, CapacityOf
<1>5. \A c \in 1 .. Calls : \A e \in Devices : OperandsFollow(c, e)'
  <2> SUFFICES ASSUME NEW c \in 1 .. Calls, NEW e \in Devices
               PROVE  OperandsFollow(c, e)'
    OBVIOUS
  <2>1. OperandsFollow(c, e)
    BY DEF IInv
  <2>2. \A i \in Branches : keysCh'[i][c][e] =
          IF i = branch[d] /\ c = call[d] /\ e = d
          THEN Cut(kActive[d], BucketSize(branch[d])) ELSE keysCh[i][c][e]
    BY <1>1, <1>4, PostedWhere DEF Typed
  <2> QED
    BY <1>1, <1>4, <2>1, <2>2 DEF OperandsFollow
<1> QED
  BY <1>2, <1>3, <1>5 DEF IInv

\* A complete gather is made of the cut keys of this very call.
LEMMA AwaitKeysPreserves ==
  ASSUME IInv, NEW d \in Devices, AwaitKeys(d)
  PROVE  IInv'
<1> USE DEF AwaitKeys, Goto, locals, channels
<1>1. Typed /\ RegistersFollow(d) /\ call[d] \in 1 .. Calls
  BY DEF IInv
<1>2. Typed'
  BY <1>1, CallsIsNat DEF Typed, PerDevice, Steps
<1>3. TiledGather(keysCh[branch[d]][call[d]], BucketSize(branch[d])) = GatheredOf(mask[call[d]])
  <2>1. branch[d] = BranchOf(mask[call[d]])
    BY <1>1 DEF RegistersFollow, Held, HasShard, HasCeiling, HasCounts, InBranch, AtKeys,
           AtValues
  <2>2. BranchOf(mask[call[d]]) \in Branches
    BY <1>1, CallData DEF Typed
  <2>3. keysCh[branch[d]][call[d]] = CutOf(mask[call[d]])
    BY <1>1, <2>1, <2>2, CompleteChannels
  <2> QED
    BY <2>1, <2>3 DEF GatheredOf, CapacityOf
<1>4. \A e \in Devices : RegistersFollow(e)'
  BY <1>1, <1>3 DEF IInv, Typed, PerDevice, RegistersFollow, Held, HasShard, HasCeiling,
         HasCounts, InBranch, AtKeys, AtValues
<1> QED
  BY <1>2, <1>4, OperandsStay DEF IInv

\* The values follow the keys into the same branch.
LEMMA PostValuesPreserves ==
  ASSUME IInv, NEW d \in Devices, PostValues(d)
  PROVE  IInv'
<1> USE DEF PostValues, Goto, locals, channels
<1>1. Typed /\ RegistersFollow(d) /\ call[d] \in 1 .. Calls
  BY DEF IInv
<1>2. Typed'
  BY <1>1, PostKeepsShape DEF Typed, PerDevice, Steps
<1>3. \A e \in Devices : RegistersFollow(e)'
  BY <1>1 DEF IInv, Typed, PerDevice, RegistersFollow, Held, HasShard, HasCeiling,
         HasCounts, InBranch, AtKeys, AtValues
<1>4. /\ branch[d] = BranchOf(mask[call[d]]) /\ branch[d] \in Branches
      /\ Cut(vActive[d], BucketSize(branch[d])) = CutOf(mask[call[d]])[d]
  <2>1. branch[d] = BranchOf(mask[call[d]]) /\ vActive[d] = Reindexed(d, mask[call[d]][d])
    BY <1>1 DEF RegistersFollow, Held, HasShard, HasCeiling, HasCounts, InBranch, AtKeys,
           AtValues
  <2>2. BranchOf(mask[call[d]]) \in Branches
    BY <1>1, CallData DEF Typed
  <2> QED
    BY <2>1, <2>2 DEF CutOf, CapacityOf
<1>5. \A c \in 1 .. Calls : \A e \in Devices : OperandsFollow(c, e)'
  <2> SUFFICES ASSUME NEW c \in 1 .. Calls, NEW e \in Devices
               PROVE  OperandsFollow(c, e)'
    OBVIOUS
  <2>1. OperandsFollow(c, e)
    BY DEF IInv
  <2>2. \A i \in Branches : valuesCh'[i][c][e] =
          IF i = branch[d] /\ c = call[d] /\ e = d
          THEN Cut(vActive[d], BucketSize(branch[d])) ELSE valuesCh[i][c][e]
    BY <1>1, <1>4, PostedWhere DEF Typed
  <2> QED
    BY <1>1, <1>4, <2>1, <2>2 DEF OperandsFollow
<1> QED
  BY <1>2, <1>3, <1>5 DEF IInv

\* And are gathered there like the keys.
LEMMA AwaitValuesPreserves ==
  ASSUME IInv, NEW d \in Devices, AwaitValues(d)
  PROVE  IInv'
<1> USE DEF AwaitValues, Goto, locals, channels
<1>1. Typed /\ RegistersFollow(d) /\ call[d] \in 1 .. Calls
  BY DEF IInv
<1>2. Typed'
  BY <1>1, CallsIsNat DEF Typed, PerDevice, Steps
<1>3. TiledGather(valuesCh[branch[d]][call[d]], BucketSize(branch[d])) = GatheredOf(mask[call[d]])
  <2>1. branch[d] = BranchOf(mask[call[d]])
    BY <1>1 DEF RegistersFollow, Held, HasShard, HasCeiling, HasCounts, InBranch, AtKeys,
           AtValues
  <2>2. BranchOf(mask[call[d]]) \in Branches
    BY <1>1, CallData DEF Typed
  <2>3. valuesCh[branch[d]][call[d]] = CutOf(mask[call[d]])
    BY <1>1, <2>1, <2>2, CompleteChannels
  <2> QED
    BY <2>1, <2>3 DEF GatheredOf, CapacityOf
<1>4. \A e \in Devices : RegistersFollow(e)'
  BY <1>1, <1>3 DEF IInv, Typed, PerDevice, RegistersFollow, Held, HasShard, HasCeiling,
         HasCounts, InBranch, AtKeys, AtValues
<1> QED
  BY <1>2, <1>4, OperandsStay DEF IInv

\* The call returns and empties its registers.
LEMMA AttendPreserves ==
  ASSUME IInv, NEW d \in Devices, Attend(d)
  PROVE  IInv'
<1> USE DEF Attend, Goto, locals, channels
<1>1. Typed /\ RegistersFollow(d) /\ call[d] \in 1 .. Calls
  BY DEF IInv
<1>2. Typed'
  <2>1. /\ call' \in [Devices -> 1 .. (Calls + 1)] /\ pc' \in [Devices -> Steps]
        /\ \A e \in Devices : pc'[e] # "reindex" => call'[e] \in 1 .. Calls
    BY <1>1, CallsIsNat DEF Typed, Steps
  <2>2. /\ PerDevice(kActive') /\ PerDevice(vActive') /\ PerDevice(ceiling')
        /\ PerDevice(counts') /\ PerDevice(branch')
        /\ PerDevice(kGathered') /\ PerDevice(vGathered')
    BY <1>1 DEF Typed, PerDevice
  <2> QED
    BY <1>1, <2>1, <2>2 DEF Typed
<1>3. \A e \in Devices : RegistersFollow(e)'
  BY <1>1 DEF IInv, Typed, PerDevice, RegistersFollow, Held, HasShard, HasCeiling,
         HasCounts, InBranch, AtKeys, AtValues
<1> QED
  BY <1>2, <1>3, OperandsStay DEF IInv

\* One case per action of the kernel.
LEMMA StepPreserves == IInv /\ [Next]_vars => IInv'
<1> SUFFICES ASSUME IInv, [Next]_vars
             PROVE  IInv'
  OBVIOUS
<1>1. CASE \E d \in Devices : Device(d)
  BY <1>1, ReindexPreserves, PostMaxPreserves, AwaitMaxPreserves, PostCountsPreserves,
     AwaitCountsPreserves, SelectPreserves, PostKeysPreserves, AwaitKeysPreserves,
     PostValuesPreserves, AwaitValuesPreserves, AttendPreserves DEF Device
<1>2. CASE UNCHANGED vars
  <2>1. \A d \in Devices : RegistersFollow(d)'
    BY <1>2 DEF IInv, RegistersFollow, Held, vars, locals
  <2>2. Typed'
    BY <1>2 DEF IInv, Typed, vars, locals, channels
  <2> QED
    BY <1>2, <2>1, <2>2, OperandsStay DEF IInv, vars
<1> QED
  BY <1>1, <1>2 DEF Next, Finished

\* The inductive invariant holds for every number of devices, blocks and calls.
LEMMA InductiveInvariant == Spec => []IInv
  BY InitEstablishes, StepPreserves, PTL DEF Spec

-----------------------------------------------------------------------------
(***************************************************************************)
(* What follows from it.                                                   *)
(***************************************************************************)

\* Every variable keeps the shape of the code's array: above all, what the
\* all_gathers of a branch return is as long as the branch's capacity asks for.
THEOREM TypeCorrect == Spec => []TypeOK
<1>1. ASSUME IInv
      PROVE  TypeOK
  <2>1. \A c \in 1 .. Calls : mask[c] \in [Devices -> [LocalBlocks -> BOOLEAN]]
    BY <1>1 DEF IInv, Typed
  <2>2. ASSUME NEW d \in Devices
        PROVE  /\ kActive[d] \in OptionalOf([LocalBlocks -> Blocks])
               /\ vActive[d] \in OptionalOf([LocalBlocks -> Blocks])
               /\ ceiling[d] \in OptionalOf(0 .. NB)
               /\ counts[d] \in OptionalOf([Devices -> 0 .. NB])
               /\ branch[d] \in OptionalOf(Branches)
               /\ branch[d] # Absent =>
                    /\ kGathered[d] \in
                         OptionalOf([0 .. (P * BucketSize(branch[d]) - 1) -> Blocks])
                    /\ vGathered[d] \in
                         OptionalOf([0 .. (P * BucketSize(branch[d]) - 1) -> Blocks])
    <3>1. RegistersFollow(d) /\ (pc[d] \in HasShard => call[d] \in 1 .. Calls)
      BY <1>1 DEF IInv, Typed, HasShard, HasCeiling, HasCounts, InBranch, AtKeys, AtValues
    <3>2. CASE pc[d] \in HasShard
      <4> DEFINE m == mask[call[d]]
      <4>1. m \in [Devices -> [LocalBlocks -> BOOLEAN]]
        BY <2>1, <3>1, <3>2
      <4> HIDE DEF m
      <4>2. /\ Reindexed(d, m[d]) \in [LocalBlocks -> Blocks]
            /\ CeilingOf(m) \in 0 .. NB
            /\ CountsOf(m) \in [Devices -> 0 .. NB]
            /\ BranchOf(m) \in Branches
            /\ GatheredOf(m) \in [0 .. (P * BucketSize(BranchOf(m)) - 1) -> Blocks]
        BY <4>1, CallData DEF CapacityOf
      <4>3. branch[d] # Absent => branch[d] = BranchOf(m)
        BY <3>1 DEF RegistersFollow, Held, m
      <4>4. /\ kActive[d] \in {Reindexed(d, m[d]), Absent}
            /\ vActive[d] \in {Reindexed(d, m[d]), Absent}
            /\ ceiling[d] \in {CeilingOf(m), Absent}
            /\ counts[d] \in {CountsOf(m), Absent}
            /\ branch[d] \in {BranchOf(m), Absent}
            /\ kGathered[d] \in {GatheredOf(m), Absent}
            /\ vGathered[d] \in {GatheredOf(m), Absent}
        BY <3>1 DEF RegistersFollow, Held, m
      <4> QED
        BY <4>2, <4>3, <4>4 DEF OptionalOf
    <3>3. CASE pc[d] \notin HasShard
      BY <3>1, <3>3 DEF RegistersFollow, Held, OptionalOf, HasCeiling, HasCounts, InBranch,
             AtKeys, AtValues, HasShard
    <3> QED
      BY <3>2, <3>3
  <2>3. ASSUME NEW c \in 1 .. Calls, NEW d \in Devices
        PROVE  /\ maxCh[c][d] \in OptionalOf(0 .. NB)
               /\ countsCh[c][d] \in OptionalOf(0 .. NB)
               /\ \A i \in Branches :
                    /\ keysCh[i][c][d] \in OptionalOf([0 .. (BucketSize(i) - 1) -> Blocks])
                    /\ valuesCh[i][c][d] \in OptionalOf([0 .. (BucketSize(i) - 1) -> Blocks])
    <3>1. OperandsFollow(c, d)
      BY <1>1 DEF IInv
    <3>2. /\ CountsOf(mask[c])[d] \in 0 .. NB
          /\ CutOf(mask[c])[d] \in [0 .. (BucketSize(BranchOf(mask[c])) - 1) -> Blocks]
      BY <2>1, CallData DEF CapacityOf
    <3> QED
      BY <3>1, <3>2 DEF OperandsFollow, OptionalOf
  <2>4. /\ kActive \in [Devices -> OptionalOf([LocalBlocks -> Blocks])]
        /\ vActive \in [Devices -> OptionalOf([LocalBlocks -> Blocks])]
        /\ ceiling \in [Devices -> OptionalOf(0 .. NB)]
        /\ counts \in [Devices -> OptionalOf([Devices -> 0 .. NB])]
        /\ branch \in [Devices -> OptionalOf(Branches)]
    <3>1. /\ PerDevice(kActive) /\ PerDevice(vActive) /\ PerDevice(ceiling)
          /\ PerDevice(counts) /\ PerDevice(branch)
      BY <1>1 DEF IInv, Typed
    <3> QED
      BY <2>2, <3>1 DEF PerDevice
  <2>5. /\ maxCh \in [1 .. Calls -> [Devices -> OptionalOf(0 .. NB)]]
        /\ countsCh \in [1 .. Calls -> [Devices -> OptionalOf(0 .. NB)]]
    <3>1. maxCh = [c \in 1 .. Calls |-> [d \in Devices |-> maxCh[c][d]]]
      BY <1>1 DEF IInv, Typed, PerCall
    <3>2. countsCh = [c \in 1 .. Calls |-> [d \in Devices |-> countsCh[c][d]]]
      BY <1>1 DEF IInv, Typed, PerCall
    <3> QED
      BY <2>3, <3>1, <3>2
  <2> QED
    BY <1>1, <2>2, <2>3, <2>4, <2>5 DEF IInv, Typed, TypeOK
<1> QED
  BY <1>1, InductiveInvariant, PTL

\* The capacity that the switch takes holds every device's active blocks, and
\* no smaller one would: for every partition of a shard into buckets.
THEOREM BucketFits == Spec => []TightestFit
<1>1. ASSUME IInv
      PROVE  TightestFit
  <2> SUFFICES ASSUME NEW d \in Devices, branch[d] # Absent
               PROVE  /\ \A e \in Devices :
                           NumActive(mask[call[d]][e], NB) <= BucketSize(branch[d])
                      /\ \A n \in Capacities : n < BucketSize(branch[d]) =>
                           \E e \in Devices : NumActive(mask[call[d]][e], NB) > n
    BY DEF TightestFit
  <2> DEFINE m == mask[call[d]]
  <2>1. branch[d] = BranchOf(m) /\ call[d] \in 1 .. Calls
    BY <1>1 DEF IInv, Typed, RegistersFollow, Held, InBranch, AtKeys, AtValues
  <2>2. m \in [Devices -> [LocalBlocks -> BOOLEAN]]
    BY <1>1, <2>1 DEF IInv, Typed
  <2>3. \A e \in Devices : CountsOf(m)[e] = NumActive(m[e], NB)
    BY DEF CountsOf
  <2> HIDE DEF m
  <2>4. /\ \A e \in Devices : NumActive(m[e], NB) <= BucketSize(branch[d])
        /\ \A n \in Capacities : n < BucketSize(branch[d]) =>
             \E e \in Devices : NumActive(m[e], NB) > n
    BY <2>1, <2>2, <2>3, CallData DEF CapacityOf
  <2> QED
    BY <2>4 DEF m
<1> QED
  BY <1>1, InductiveInvariant, PTL

\* Devices inside the switch of one call are in one branch, whatever the
\* schedule: pmax gave all of them the same number, and of this call.
THEOREM BranchesMatch == Spec => []SameBranch
<1>1. IInv => SameBranch
  BY DEF IInv, RegistersFollow, Held, SameBranch
<1> QED
  BY <1>1, InductiveInvariant, PTL

\* The kernel implements GlobalAttention: Attend maps to its Return, no other
\* step shows.
THEOREM Refinement == Spec => ImplementsGlobalAttention
<1>1. Init => Promise!Init
  BY DEF Init, Promise!Init, ActiveBlocks, EmptyChannel
<1>2. ASSUME IInv, [Next]_vars
      PROVE  [Promise!Next]_Promise!vars
  <2>1. ASSUME NEW d \in Devices, Attend(d)
        PROVE  Promise!Return(d)
    <3> DEFINE m == mask[call[d]]
    <3>1. /\ call[d] \in 1 .. Calls /\ pc[d] = "attend" /\ RegistersFollow(d)
          /\ m \in [Devices -> [LocalBlocks -> BOOLEAN]] /\ ActiveOf(m) # {}
      BY <1>2, <2>1 DEF Attend, Goto, IInv, Typed
    <3>2. /\ kGathered[d] = GatheredOf(m) /\ vGathered[d] = GatheredOf(m)
          /\ counts[d] = CountsOf(m) /\ branch[d] = BranchOf(m)
      BY <3>1 DEF RegistersFollow, Held, HasCeiling, HasCounts, InBranch, AtKeys, AtValues
    <3>3. MaskedMean(kGathered[d], vGathered[d], counts[d], BucketSize(branch[d]))
            = Promise!OnceEach(ActiveOf(m))
      BY <3>1, <3>2, MaskedMeanIsExact DEF CapacityOf
    <3>4. ActiveOf(m) = ActiveBlocks(call[d])
      BY DEF ActiveOf, ActiveBlocks
    <3>5. \A c \in 1 .. Calls : ActiveBlocks(c)' = ActiveBlocks(c)
      BY <2>1 DEF Attend, ActiveBlocks
    <3> QED
      BY <2>1, <3>1, <3>3, <3>4, <3>5 DEF Attend, Promise!Return
  <2>2. ASSUME NEW d \in Devices, Device(d), ~Attend(d)
        PROVE  UNCHANGED Promise!vars
    BY <2>2 DEF Device, Promise!vars, ActiveBlocks, locals,
                Reindex, PostMax, AwaitMax, PostCounts, AwaitCounts, Select,
                PostKeys, AwaitKeys, PostValues, AwaitValues
  <2>3. CASE UNCHANGED vars
    BY <2>3 DEF vars, Promise!vars, ActiveBlocks
  <2> QED
    BY <1>2, <2>1, <2>2, <2>3 DEF Next, Finished, Promise!Next
<1> QED
  BY <1>1, <1>2, InductiveInvariant, PTL DEF Spec, ImplementsGlobalAttention, Promise!Spec

=============================================================================
