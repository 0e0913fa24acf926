---------------------------- MODULE AllToAllvProofs ----------------------------
(***************************************************************************)
(* Theorems about alltoallv_kv_exchange, for any number of devices, blocks *)
(* and calls in flight.  What the exchange delivers is not what it         *)
(* documents; what a call returns is consistent all the same: keys and     *)
(* values come in one layout, all devices compute the same offsets, and    *)
(* the bytes they count are right.                                         *)
(*                                                                         *)
(* And about the parts of alltoallv.py put together as documented: the     *)
(* valid rows of the concatenated buffers are the retained tokens, in      *)
(* order; the stable sort of unpack_received_blocks moves them to the      *)
(* front without reordering them.                                          *)
(***************************************************************************)
EXTENDS AllToAllv, AllToAllvShards, StreamCompactProofs

-----------------------------------------------------------------------------
(***************************************************************************)
(* What the masks of one call determine.                                   *)
(***************************************************************************)
CountsOf(m) == [d \in Devices |-> NumActive(m[d], NB)]

PackedOf(m) ==
  [d \in Devices |->
     PackActiveBlocks(Shard(d), ActiveIndicesByMask(m[d], NB), NumActive(m[d], NB))]

ReceivedOf(m, d) == Exchange(PackedOf(m), d)

SavedOf(m, bytes) == Wrapped(DenseBlocks * bytes - Wrapped(SumOver(CountsOf(m)) * bytes))

StatsOf(m, d, bytes) ==
  [localNumActive |-> CountsOf(m)[d],
   totalActive    |-> SumOver(CountsOf(m)),
   bytesSaved     |-> SavedOf(m, bytes)]

-----------------------------------------------------------------------------
(***************************************************************************)
(* The invariant: every register that is live and every operand that is    *)
(* posted belongs to one call, the one that its device is running.         *)
(***************************************************************************)
PerDevice(f) == DOMAIN f = Devices
PerCall(f)   == /\ DOMAIN f = 1 .. Calls
                /\ \A c \in 1 .. Calls : f[c] = [d \in Devices |-> f[c][d]]

Typed ==
  /\ mask \in [1 .. Calls -> [Devices -> [LocalBlocks -> BOOLEAN]]]
  /\ size \in BlockBytes
  /\ call \in [Devices -> 1 .. (Calls + 1)]
  /\ pc \in [Devices -> Steps]
  /\ \A d \in Devices : pc[d] # "compact" => call[d] \in 1 .. Calls
  /\ PerDevice(order) /\ PerDevice(numActive) /\ PerDevice(allCounts) /\ PerDevice(offsets)
  /\ PerDevice(kPacked) /\ PerDevice(vPacked) /\ PerDevice(kReceived) /\ PerDevice(vReceived)
  /\ PerCall(countsCh) /\ PerCall(keysCh) /\ PerCall(valuesCh)
  /\ PerCall(kActive) /\ PerCall(vActive) /\ PerCall(stats)

BeforeGather == {"postCounts", "awaitCounts"}
BeforePack   == {"computeOffsets", "pack"}
BeforeKeys   == {"postKeys", "awaitKeys"}
BeforeValues == {"postValues", "awaitValues"}

\* A device still counts on the number of its own active blocks at the end.
RegistersFollow(d) ==
  LET m == mask[call[d]] IN
  /\ pc[d] \in BeforeGather \cup BeforePack \cup BeforeKeys \cup BeforeValues \cup {"unpack"} =>
       /\ order[d] = ActiveIndicesByMask(m[d], NB)
       /\ numActive[d] = CountsOf(m)[d]
  /\ pc[d] \in BeforePack \cup BeforeKeys \cup BeforeValues \cup {"unpack"} =>
       allCounts[d] = CountsOf(m)
  /\ offsets[d] # Absent => offsets[d] = ComputeOffsets(CountsOf(m)) /\ call[d] \in 1 .. Calls
  /\ pc[d] \in BeforeKeys \cup BeforeValues =>
       kPacked[d] = PackedOf(m)[d] /\ vPacked[d] = PackedOf(m)[d]
  /\ pc[d] \in BeforeValues \cup {"unpack"} => kReceived[d] = ReceivedOf(m, d)
  /\ pc[d] = "unpack" => vReceived[d] = ReceivedOf(m, d)

OperandsFollow(c, d) ==
  /\ countsCh[c][d] # Absent => countsCh[c][d] = CountsOf(mask[c])[d]
  /\ keysCh[c][d]   # Absent => keysCh[c][d]   = PackedOf(mask[c])[d]
  /\ valuesCh[c][d] # Absent => valuesCh[c][d] = PackedOf(mask[c])[d]

ResultsFollow(c, d) ==
  LET received == ReceivedOf(mask[c], d)
      result   == UnpackReceivedBlocks(received, CountsOf(mask[c]))
  IN /\ kActive[c][d] # Absent => kActive[c][d] = result /\ vActive[c][d] = result
     /\ stats[c][d] # Absent => /\ StatsFit
                                /\ stats[c][d] = StatsOf(mask[c], d, size)

IInv ==
  /\ Typed
  /\ host = "dispatched" => StatsFit
  /\ \A d \in Devices : RegistersFollow(d)
  /\ \A c \in 1 .. Calls : \A d \in Devices : OperandsFollow(c, d)
  /\ \A c \in 1 .. Calls : \A d \in Devices : ResultsFollow(c, d)

LEMMA InitEstablishes == Init => IInv
<1> SUFFICES ASSUME Init
             PROVE  IInv
  OBVIOUS
<1>1. Typed
  BY CallsIsNat DEF Init, Typed, Steps, PerDevice, PerCall, EmptyChannel
<1>2. \A d \in Devices : RegistersFollow(d)
  BY DEF Init, RegistersFollow, BeforeGather, BeforePack, BeforeKeys, BeforeValues
<1>3. \A c \in 1 .. Calls : \A d \in Devices : OperandsFollow(c, d) /\ ResultsFollow(c, d)
  BY DEF Init, OperandsFollow, ResultsFollow, EmptyChannel
<1>4. host = "tracing"
  BY DEF Init
<1> QED
  BY <1>1, <1>2, <1>3, <1>4 DEF IInv

\* Registers, operands and results that a step does not touch stay what they are.
LEMMA OperandsStay ==
  ASSUME IInv, UNCHANGED <<mask, countsCh, keysCh, valuesCh>>
  PROVE  \A c \in 1 .. Calls : \A d \in Devices : OperandsFollow(c, d)'
  BY DEF IInv, OperandsFollow

LEMMA ResultsStay ==
  ASSUME IInv, UNCHANGED <<mask, size, kActive, vActive, stats>>
  PROVE  \A c \in 1 .. Calls : \A d \in Devices : ResultsFollow(c, d)'
  BY DEF IInv, ResultsFollow, StatsFit

LEMMA PostKeepsShape ==
  ASSUME NEW f, PerCall(f), NEW c \in 1 .. Calls, NEW d \in Devices, NEW v
  PROVE  PerCall(Post(f, c, d, v))
<1> DEFINE g == Post(f, c, d, v)
<1>1. DOMAIN g = 1 .. Calls
  BY DEF PerCall, Post
<1>2. ASSUME NEW k \in 1 .. Calls
      PROVE  g[k] = [e \in Devices |-> g[k][e]]
  <2>1. f[k] = [e \in Devices |-> f[k][e]]
    BY DEF PerCall
  <2>2. CASE k = c
    <3>1. g[k] = [f[k] EXCEPT ![d] = v]
      BY <2>2 DEF PerCall, Post
    <3> HIDE DEF g
    <3> QED
      BY <2>1, <3>1
  <2>3. CASE k # c
    BY <2>1, <2>3 DEF PerCall, Post
  <2> QED
    BY <2>2, <2>3
<1> QED
  BY <1>1, <1>2 DEF PerCall

\* All operands of a complete collective are those of its call.
LEMMA CompleteChannels ==
  ASSUME IInv, NEW c \in 1 .. Calls
  PROVE  /\ Complete(countsCh, c) => countsCh[c] = CountsOf(mask[c])
         /\ Complete(keysCh, c)   => keysCh[c]   = PackedOf(mask[c])
         /\ Complete(valuesCh, c) => valuesCh[c] = PackedOf(mask[c])
<1>1. \A d \in Devices : OperandsFollow(c, d)
  BY DEF IInv
<1>2. /\ countsCh[c] = [d \in Devices |-> countsCh[c][d]]
      /\ keysCh[c]   = [d \in Devices |-> keysCh[c][d]]
      /\ valuesCh[c] = [d \in Devices |-> valuesCh[c][d]]
  BY DEF IInv, Typed, PerCall
<1>3. Complete(countsCh, c) => countsCh[c] = CountsOf(mask[c])
  BY <1>1, <1>2 DEF Complete, OperandsFollow, CountsOf
<1>4. PackedOf(mask[c]) = [d \in Devices |-> PackedOf(mask[c])[d]]
  BY DEF PackedOf
<1>5. Complete(keysCh, c) => \A d \in Devices : keysCh[c][d] = PackedOf(mask[c])[d]
  BY <1>1 DEF Complete, OperandsFollow
<1>6. Complete(valuesCh, c) => \A d \in Devices : valuesCh[c][d] = PackedOf(mask[c])[d]
  BY <1>1 DEF Complete, OperandsFollow
<1> QED
  BY <1>2, <1>3, <1>4, <1>5, <1>6

\* The order and the count are those of the mask of this call.
LEMMA CompactPreserves ==
  ASSUME IInv, NEW d \in Devices, Compact(d)
  PROVE  IInv'
<1> USE DEF Compact, Goto, locals, channels, results
<1>1. Typed /\ RegistersFollow(d) /\ call[d] \in 1 .. Calls
  BY DEF IInv
<1>2. Typed'
  BY <1>1 DEF Typed, PerDevice, Steps
<1>3. \A e \in Devices : RegistersFollow(e)'
  BY <1>1 DEF IInv, Typed, PerDevice, CountsOf, RegistersFollow, BeforeGather, BeforePack,
         BeforeKeys, BeforeValues
<1> QED
  BY <1>2, <1>3, OperandsStay, ResultsStay DEF IInv, StatsFit

\* The count that is posted is that of the call it is posted for.
LEMMA PostCountsPreserves ==
  ASSUME IInv, NEW d \in Devices, PostCounts(d)
  PROVE  IInv'
<1> USE DEF PostCounts, Goto, locals, channels, results
<1>1. Typed /\ RegistersFollow(d) /\ call[d] \in 1 .. Calls
  BY DEF IInv
<1>2. Typed'
  BY <1>1, PostKeepsShape DEF Typed, PerDevice, Steps
<1>3. \A e \in Devices : RegistersFollow(e)'
  BY <1>1 DEF IInv, Typed, PerDevice, RegistersFollow, BeforeGather, BeforePack, BeforeKeys,
         BeforeValues
<1>4. \A c \in 1 .. Calls : \A e \in Devices : OperandsFollow(c, e)'
  BY <1>1 DEF IInv, Typed, PerDevice, PerCall, OperandsFollow, Post, RegistersFollow,
         BeforeGather, BeforePack, BeforeKeys, BeforeValues
<1> QED
  BY <1>2, <1>3, <1>4, ResultsStay DEF IInv, StatsFit

\* A complete gather holds the counts of this very call.
LEMMA AwaitCountsPreserves ==
  ASSUME IInv, NEW d \in Devices, AwaitCounts(d)
  PROVE  IInv'
<1> USE DEF AwaitCounts, Goto, locals, channels, results
<1>1. Typed /\ RegistersFollow(d) /\ call[d] \in 1 .. Calls
  BY DEF IInv
<1>2. Typed'
  BY <1>1 DEF Typed, PerDevice, Steps
<1>3. countsCh[call[d]] = CountsOf(mask[call[d]])
  BY <1>1, CompleteChannels
<1>4. \A e \in Devices : RegistersFollow(e)'
  BY <1>1, <1>3 DEF IInv, Typed, PerDevice, RegistersFollow, BeforeGather, BeforePack,
         BeforeKeys, BeforeValues
<1> QED
  BY <1>2, <1>4, OperandsStay, ResultsStay DEF IInv, StatsFit

\* All devices compute their offsets from the same counts.
LEMMA OffsetPreserves ==
  ASSUME IInv, NEW d \in Devices, Offset(d)
  PROVE  IInv'
<1> USE DEF Offset, Goto, locals, channels, results
<1>1. Typed /\ RegistersFollow(d) /\ call[d] \in 1 .. Calls
  BY DEF IInv
<1>2. Typed'
  BY <1>1 DEF Typed, PerDevice, Steps
<1>3. \A e \in Devices : RegistersFollow(e)'
  BY <1>1 DEF IInv, Typed, PerDevice, RegistersFollow, BeforeGather, BeforePack, BeforeKeys,
         BeforeValues
<1> QED
  BY <1>2, <1>3, OperandsStay, ResultsStay DEF IInv, StatsFit

\* Keys and values are packed by the indices of this call.
LEMMA PackPreserves ==
  ASSUME IInv, NEW d \in Devices, Pack(d)
  PROVE  IInv'
<1> USE DEF Pack, Goto, locals, channels, results
<1>1. Typed /\ RegistersFollow(d) /\ call[d] \in 1 .. Calls
  BY DEF IInv
<1>2. Typed'
  BY <1>1 DEF Typed, PerDevice, Steps
<1>3. PackActiveBlocks(Shard(d), order[d], numActive[d]) = PackedOf(mask[call[d]])[d]
  BY <1>1 DEF RegistersFollow, BeforePack, PackedOf, CountsOf
<1>4. \A e \in Devices : RegistersFollow(e)'
  BY <1>1, <1>3 DEF IInv, Typed, PerDevice, RegistersFollow, BeforeGather, BeforePack,
         BeforeKeys, BeforeValues
<1> QED
  BY <1>2, <1>4, OperandsStay, ResultsStay DEF IInv, StatsFit

\* The keys that are posted are those of the call they are posted for.
LEMMA PostKeysPreserves ==
  ASSUME IInv, NEW d \in Devices, PostKeys(d)
  PROVE  IInv'
<1> USE DEF PostKeys, Goto, locals, channels, results
<1>1. Typed /\ RegistersFollow(d) /\ call[d] \in 1 .. Calls
  BY DEF IInv
<1>2. Typed'
  BY <1>1, PostKeepsShape DEF Typed, PerDevice, Steps
<1>3. \A e \in Devices : RegistersFollow(e)'
  BY <1>1 DEF IInv, Typed, PerDevice, RegistersFollow, BeforeGather, BeforePack, BeforeKeys,
         BeforeValues
<1>4. \A c \in 1 .. Calls : \A e \in Devices : OperandsFollow(c, e)'
  BY <1>1 DEF IInv, Typed, PerDevice, PerCall, OperandsFollow, Post, RegistersFollow,
         BeforeGather, BeforePack, BeforeKeys, BeforeValues
<1> QED
  BY <1>2, <1>3, <1>4, ResultsStay DEF IInv, StatsFit

\* Every row that is received belongs to this call.
LEMMA AwaitKeysPreserves ==
  ASSUME IInv, NEW d \in Devices, AwaitKeys(d)
  PROVE  IInv'
<1> USE DEF AwaitKeys, Goto, locals, channels, results
<1>1. Typed /\ RegistersFollow(d) /\ call[d] \in 1 .. Calls
  BY DEF IInv
<1>2. Typed'
  BY <1>1 DEF Typed, PerDevice, Steps
<1>3. Exchange(keysCh[call[d]], d) = ReceivedOf(mask[call[d]], d)
  BY <1>1, CompleteChannels DEF ReceivedOf
<1>4. \A e \in Devices : RegistersFollow(e)'
  BY <1>1, <1>3 DEF IInv, Typed, PerDevice, RegistersFollow, BeforeGather, BeforePack,
         BeforeKeys, BeforeValues
<1> QED
  BY <1>2, <1>4, OperandsStay, ResultsStay DEF IInv, StatsFit

\* So are the values.
LEMMA PostValuesPreserves ==
  ASSUME IInv, NEW d \in Devices, PostValues(d)
  PROVE  IInv'
<1> USE DEF PostValues, Goto, locals, channels, results
<1>1. Typed /\ RegistersFollow(d) /\ call[d] \in 1 .. Calls
  BY DEF IInv
<1>2. Typed'
  BY <1>1, PostKeepsShape DEF Typed, PerDevice, Steps
<1>3. \A e \in Devices : RegistersFollow(e)'
  BY <1>1 DEF IInv, Typed, PerDevice, RegistersFollow, BeforeGather, BeforePack, BeforeKeys,
         BeforeValues
<1>4. \A c \in 1 .. Calls : \A e \in Devices : OperandsFollow(c, e)'
  BY <1>1 DEF IInv, Typed, PerDevice, PerCall, OperandsFollow, Post, RegistersFollow,
         BeforeGather, BeforePack, BeforeKeys, BeforeValues
<1> QED
  BY <1>2, <1>3, <1>4, ResultsStay DEF IInv, StatsFit

\* The rows of the values are received like those of the keys.
LEMMA AwaitValuesPreserves ==
  ASSUME IInv, NEW d \in Devices, AwaitValues(d)
  PROVE  IInv'
<1> USE DEF AwaitValues, Goto, locals, channels, results
<1>1. Typed /\ RegistersFollow(d) /\ call[d] \in 1 .. Calls
  BY DEF IInv
<1>2. Typed'
  BY <1>1 DEF Typed, PerDevice, Steps
<1>3. Exchange(valuesCh[call[d]], d) = ReceivedOf(mask[call[d]], d)
  BY <1>1, CompleteChannels DEF ReceivedOf
<1>4. \A e \in Devices : RegistersFollow(e)'
  BY <1>1, <1>3 DEF IInv, Typed, PerDevice, RegistersFollow, BeforeGather, BeforePack,
         BeforeKeys, BeforeValues
<1> QED
  BY <1>2, <1>4, OperandsStay, ResultsStay DEF IInv, StatsFit

\* The call returns what its masks determine.
LEMMA UnpackPreserves ==
  ASSUME IInv, NEW d \in Devices, Unpack(d)
  PROVE  IInv'
<1> USE DEF Unpack, Goto, locals, channels, results
<1> DEFINE m == mask[call[d]]
<1>1. Typed /\ RegistersFollow(d) /\ call[d] \in 1 .. Calls /\ StatsFit /\ pc[d] = "unpack"
  BY DEF IInv
<1>2. Typed'
  <2>1. PerCall(kActive') /\ PerCall(vActive') /\ PerCall(stats')
    BY <1>1, PostKeepsShape DEF Typed, Post
  <2> QED
    BY <1>1, <2>1, CallsIsNat DEF Typed, PerDevice, Steps
<1>3. \A e \in Devices : RegistersFollow(e)'
  BY <1>1 DEF IInv, Typed, PerDevice, RegistersFollow, BeforeGather, BeforePack, BeforeKeys,
         BeforeValues
<1>4. /\ kReceived[d] = ReceivedOf(m, d) /\ vReceived[d] = ReceivedOf(m, d)
      /\ allCounts[d] = CountsOf(m)
      /\ Stats(d) = StatsOf(m, d, size)
  BY <1>1 DEF RegistersFollow, Stats, StatsOf, SavedOf
<1>5. \A c \in 1 .. Calls : \A e \in Devices : ResultsFollow(c, e)'
  BY <1>1, <1>4 DEF IInv, Typed, PerDevice, PerCall, ResultsFollow, StatsFit
<1> QED
  BY <1>2, <1>3, <1>5, OperandsStay DEF IInv, StatsFit

LEMMA StepPreserves == IInv /\ [Next]_vars => IInv'
<1> SUFFICES ASSUME IInv, [Next]_vars
             PROVE  IInv'
  OBVIOUS
<1>1. CASE Trace
  <2>1. \A d \in Devices : RegistersFollow(d)'
    BY <1>1 DEF IInv, RegistersFollow, Trace, locals
  <2>2. Typed'
    BY <1>1 DEF IInv, Typed, Trace, locals, channels, results
  <2>3. host' = "dispatched" => StatsFit'
    BY <1>1 DEF Trace, StatsFit
  <2> QED
    BY <1>1, <2>1, <2>2, <2>3, OperandsStay, ResultsStay DEF IInv, Trace, channels, results
<1>2. CASE \E d \in Devices : Device(d)
  BY <1>2, CompactPreserves, PostCountsPreserves, AwaitCountsPreserves, OffsetPreserves,
     PackPreserves, PostKeysPreserves, AwaitKeysPreserves, PostValuesPreserves,
     AwaitValuesPreserves, UnpackPreserves DEF Device
<1>3. CASE UNCHANGED vars
  <2>1. \A d \in Devices : RegistersFollow(d)'
    BY <1>3 DEF IInv, RegistersFollow, vars, locals
  <2>2. Typed'
    BY <1>3 DEF IInv, Typed, vars, locals, channels, results
  <2> QED
    BY <1>3, <2>1, <2>2, OperandsStay, ResultsStay
       DEF IInv, vars, channels, results, StatsFit
<1> QED
  BY <1>1, <1>2, <1>3 DEF Next, Finished

LEMMA InductiveInvariant == Spec => []IInv
  BY InitEstablishes, StepPreserves, PTL DEF Spec

-----------------------------------------------------------------------------
(***************************************************************************)
(* What follows from it.                                                   *)
(***************************************************************************)

\* In whatever order the devices reach the two exchanges, the keys and the
\* values that a call returns are laid out alike.
THEOREM KeysMeetTheirValues == Spec => []KeysMatchValues
<1>1. IInv => KeysMatchValues
  BY DEF IInv, ResultsFollow, KeysMatchValues
<1> QED
  BY <1>1, InductiveInvariant, PTL

\* The active blocks of some devices, counted device by device.
LEMMA ActiveCounted ==
  ASSUME NEW m \in [Devices -> [LocalBlocks -> BOOLEAN]], NEW E \in SUBSET Devices
  PROVE  Cardinality(UNION {{d} \X (0 .. (CountsOf(m)[d] - 1)) : d \in E})
           = Cardinality({b \in Devices \X LocalBlocks : b[1] \in E /\ m[b[1]][b[2]]})
<1> DEFINE sent == UNION {{d} \X (0 .. (CountsOf(m)[d] - 1)) : d \in E}
           active == {b \in Devices \X LocalBlocks : b[1] \in E /\ m[b[1]][b[2]]}
           ix(d) == ActiveIndices(m[d], NB)
           block == [x \in sent |-> <<x[1], ix(x[1])[x[2]]>>]
<1>1. \A d \in Devices :
        /\ CountsOf(m)[d] \in 0 .. NB
        /\ ix(d) \in [LocalBlocks -> LocalBlocks]
        /\ \A j \in LocalBlocks : m[d][ix(d)[j]] <=> j < CountsOf(m)[d]
        /\ \A i, j \in LocalBlocks : ix(d)[i] = ix(d)[j] => i = j
        /\ \A b \in LocalBlocks :
             m[d][b] => \E j \in LocalBlocks : j < CountsOf(m)[d] /\ ix(d)[j] = b
  BY NBIsPositive, ActiveIndicesCorrect DEF LocalBlocks, CountsOf
<1>2. \A x : x \in sent <=> \E d \in E : \E j \in 0 .. (CountsOf(m)[d] - 1) : x = <<d, j>>
  OBVIOUS
<1>3. \A d \in Devices : \A j :
        j \in 0 .. (CountsOf(m)[d] - 1) <=> j \in LocalBlocks /\ j < CountsOf(m)[d]
  BY <1>1, NBIsPositive DEF LocalBlocks, Indices
<1> HIDE DEF sent, ix
<1>4. \A x \in sent : /\ x = <<x[1], x[2]>> /\ x[1] \in E /\ x[1] \in Devices
                      /\ x[2] \in LocalBlocks /\ x[2] < CountsOf(m)[x[1]]
  BY <1>2, <1>3
<1>5. block \in [sent -> active]
  BY <1>1, <1>4
<1>6. ASSUME NEW x \in sent, NEW y \in sent, block[x] = block[y]
      PROVE  x = y
  <2>1. x[1] = y[1] /\ ix(x[1])[x[2]] = ix(y[1])[y[2]]
    BY <1>6
  <2>2. x[2] = y[2]
    BY <1>1, <1>4, <2>1
  <2> QED
    BY <1>4, <2>1, <2>2
<1>7. ASSUME NEW b \in active
      PROVE  \E x \in sent : block[x] = b
  <2>1. /\ b = <<b[1], b[2]>> /\ b[1] \in E /\ b[1] \in Devices /\ b[2] \in LocalBlocks
        /\ m[b[1]][b[2]]
    OBVIOUS
  <2>2. PICK j \in LocalBlocks : j < CountsOf(m)[b[1]] /\ ix(b[1])[j] = b[2]
    BY <1>1, <2>1
  <2>3. <<b[1], j>> \in sent
    BY <1>2, <1>3, <2>1, <2>2
  <2> QED
    BY <2>1, <2>2, <2>3
<1>8. block \in Bijection(sent, active)
  BY <1>5, <1>6, <1>7 DEF Bijection, Injection, Surjection, IsInjective
<1>9. IsFiniteSet(sent)
  <2>1. IsFiniteSet(Devices \X LocalBlocks)
    <3>1. IsFiniteSet(Devices) /\ IsFiniteSet(LocalBlocks)
      BY PIsPositive, NBIsPositive, FS_Interval, IndicesFinite DEF Devices, LocalBlocks
    <3> QED
      BY <3>1, FS_Product
  <2>2. sent \subseteq Devices \X LocalBlocks
    BY <1>4
  <2> QED
    BY <2>1, <2>2, FS_Subset
<1>10. Cardinality(sent) = Cardinality(active)
  BY <1>8, <1>9, FS_Bijection DEF ExistsBijection
<1> QED
  BY <1>10 DEF sent

\* The offsets are a prefix sum over the counts of one call, so that the regions
\* of the devices tile the buffer, and the same on every device of the call.
THEOREM OneLayout == Spec => []OffsetsAgree
<1>1. ASSUME IInv
      PROVE  OffsetsAgree
  <2> SUFFICES ASSUME NEW d \in Devices, offsets[d] # Absent, NEW e \in Devices
               PROVE  /\ offsets[d][e] = Cardinality({b \in Devices \X LocalBlocks :
                                                        b[1] < e /\ mask[call[d]][b[1]][b[2]]})
                      /\ call[e] = call[d] /\ offsets[e] # Absent => offsets[e] = offsets[d]
    BY DEF OffsetsAgree
  <2> DEFINE m == mask[call[d]]
             E == 0 .. (e - 1)
  <2>1. \A f \in Devices : offsets[f] # Absent =>
          offsets[f] = ComputeOffsets(CountsOf(mask[call[f]])) /\ call[f] \in 1 .. Calls
    BY <1>1 DEF IInv, RegistersFollow
  <2>2. m \in [Devices -> [LocalBlocks -> BOOLEAN]]
    BY <1>1, <2>1 DEF IInv, Typed
  <2>3. E \in SUBSET Devices /\ \A f \in Devices : f \in E <=> f < e
    BY PIsPositive DEF Devices
  <2>4. offsets[d][e] = Cardinality(UNION {{f} \X (0 .. (CountsOf(m)[f] - 1)) : f \in E})
    BY <2>1 DEF ComputeOffsets
  <2> DEFINE before == {b \in Devices \X LocalBlocks : b[1] < e /\ m[b[1]][b[2]]}
             counted == {b \in Devices \X LocalBlocks : b[1] \in E /\ m[b[1]][b[2]]}
  <2>5. before = counted
    BY <2>3
  <2> HIDE DEF E, m
  <2>6. offsets[d][e] = Cardinality(counted)
    BY <2>2, <2>3, <2>4, ActiveCounted
  <2> QED
    BY <2>1, <2>5, <2>6 DEF m
<1> QED
  BY <1>1, InductiveInvariant, PTL

\* A number that fits survives the conversion to int32.
LEMMA FittingStays ==
  ASSUME NEW n \in Nat, n <= IntMax
  PROVE  Wrapped(n) = n
<1> DEFINE half == IntMax + 1
<1>1. half \in Nat \ {0} /\ n + half \in Nat /\ n + half < 2 * half
  BY IntMaxIsNatural
<1>2. Wrapped(n) = ((n + half) % (2 * half)) - half
  BY IntMaxIsNatural DEF Wrapped
<1> HIDE DEF half
<1>3. (n + half) % (2 * half) = n + half
  BY <1>1, SMTT(30)
<1> QED
  BY <1>1, <1>2, <1>3

\* When the host could trace the program the numbers fit, and every device counts
\* the bytes of exactly the blocks that were evicted.
THEOREM SavingsAreExact == Spec => []SavingsExact
<1>1. ASSUME IInv
      PROVE  SavingsExact
  <2> SUFFICES ASSUME NEW c \in 1 .. Calls, NEW d \in Devices, stats[c][d] # Absent
               PROVE  LET evicted == {b \in Devices \X LocalBlocks : ~mask[c][b[1]][b[2]]} IN
                      /\ stats[c][d].bytesSaved = Cardinality(evicted) * size
                      /\ stats[c][d].totalActive = DenseBlocks - Cardinality(evicted)
                      /\ stats[c][d].localNumActive
                           = Cardinality({b \in LocalBlocks : mask[c][d][b]})
    BY DEF SavingsExact
  <2> DEFINE m       == mask[c]
             all     == Devices \X LocalBlocks
             evicted == {b \in all : ~m[b[1]][b[2]]}
             active  == {b \in all : m[b[1]][b[2]]}
             A == Cardinality(active)
             V == Cardinality(evicted)
  <2>1. /\ m \in [Devices -> [LocalBlocks -> BOOLEAN]]
        /\ StatsFit /\ stats[c][d] = StatsOf(m, d, size)
        /\ size \in Nat
    BY <1>1, IntMaxIsNatural DEF IInv, Typed, ResultsFollow
  <2>2. SumOver(CountsOf(m)) = A
    <3>1. active = {b \in Devices \X LocalBlocks : b[1] \in Devices /\ m[b[1]][b[2]]}
      OBVIOUS
    <3> HIDE DEF m, active
    <3> QED
      BY <2>1, <3>1, ActiveCounted DEF SumOver
  <2>3. IsFiniteSet(all) /\ Cardinality(all) = DenseBlocks
    <3>1. IsFiniteSet(Devices) /\ Cardinality(Devices) = P
      BY PIsPositive, FS_Interval DEF Devices
    <3>2. IsFiniteSet(LocalBlocks) /\ Cardinality(LocalBlocks) = NB
      BY NBIsPositive, IndicesFinite DEF LocalBlocks
    <3> QED
      BY <3>1, <3>2, FS_Product DEF DenseBlocks
  <2>4. A \in Nat /\ V \in Nat /\ A + V = DenseBlocks /\ DenseBlocks \in Nat
    <3>1. evicted = all \ active /\ all \cap active = active
      OBVIOUS
    <3>2. IsFiniteSet(active) /\ IsFiniteSet(evicted)
      <4>1. active \subseteq all /\ evicted \subseteq all
        OBVIOUS
      <4> HIDE DEF all, active, evicted
      <4> QED
        BY <2>3, <4>1, FS_Subset
    <3>3. V = Cardinality(all) - Cardinality(all \cap active)
      BY <2>3, <3>1, FS_Difference
    <3>4. A \in Nat /\ V \in Nat /\ DenseBlocks \in Nat
      BY <2>3, <3>2, FS_CardinalityType
    <3>5. V = DenseBlocks - A
      BY <2>3, <3>1, <3>3
    <3> HIDE DEF A, V
    <3> QED
      BY <3>4, <3>5
  <2> HIDE DEF A, V
  <2>5. /\ A * size \in Nat /\ V * size \in Nat
        /\ A * size <= IntMax /\ V * size <= IntMax
        /\ DenseBlocks * size - A * size = V * size
    <3>1. A * size \in Nat /\ V * size \in Nat
      BY <2>1, <2>4
    <3>2. DenseBlocks * size = A * size + V * size
      BY <2>1, <2>4, SMTT(30)
    <3>3. DenseBlocks * size <= IntMax /\ IntMax \in Nat
      BY <2>1, IntMaxIsNatural DEF StatsFit
    <3> QED
      BY <3>1, <3>2, <3>3
  <2>6. SavedOf(m, size) = V * size
    <3>1. Wrapped(A * size) = A * size /\ Wrapped(V * size) = V * size
      BY <2>5, FittingStays
    <3> QED
      BY <2>2, <2>5, <3>1 DEF SavedOf
  <2>7. CountsOf(m)[d] = Cardinality({b \in LocalBlocks : m[d][b]})
    BY DEF CountsOf, NumActive, LocalBlocks
  <2>8. /\ stats[c][d].bytesSaved = V * size
        /\ stats[c][d].totalActive = DenseBlocks - V
        /\ stats[c][d].localNumActive = Cardinality({b \in LocalBlocks : m[d][b]})
    BY <2>1, <2>2, <2>4, <2>6, <2>7 DEF StatsOf
  <2> QED
    BY <2>8 DEF V
<1> QED
  BY <1>1, InductiveInvariant, PTL

-----------------------------------------------------------------------------
(***************************************************************************)
(* Packing, concatenating and unpacking: what the masks m of one call      *)
(* determine.                                                              *)
(***************************************************************************)
RowsOf(m)     == TiledGather(PackedOf(m), ShardTokens)
RetainedOf(m) == {u \in Tokens : m[u[1]][u[2] \div BlockSize]}
ValidOf(m)    == {r \in Rows : ValidRows(CountsOf(m))[r]}

\* Row r belongs to the shard ChunkOf(r), and there to the token PlaceOf(r) of
\* the block in slot SlotOf(r).
ChunkOf(r) == r \div ShardTokens
SlotOf(r)  == (r % ShardTokens) \div BlockSize
PlaceOf(r) == (r % ShardTokens) % BlockSize

-----------------------------------------------------------------------------
(* Row and token arithmetic.                                               *)

\* A shard has tokens.
LEMMA SizesArePositive == ShardTokens \in Nat \ {0} /\ P * ShardTokens \in Nat
<1>1. ShardTokens \in Nat \ {0}
  BY NBIsPositive, BlockSizeIsPositive, SMTT(30) DEF ShardTokens
<1> QED
  BY <1>1, PIsPositive

\* A row is one token of one slot of one shard.
LEMMA RowSplits ==
  ASSUME NEW r \in Rows
  PROVE  /\ ChunkOf(r) \in Devices /\ SlotOf(r) \in LocalBlocks
         /\ PlaceOf(r) \in 0 .. (BlockSize - 1)
         /\ r % ShardTokens = SlotOf(r) * BlockSize + PlaceOf(r)
         /\ r % ShardTokens \in LocalTokens
         /\ r = ChunkOf(r) * ShardTokens + (r % ShardTokens)
<1>1. ShardTokens \in Nat \ {0} /\ r \in 0 .. (P * ShardTokens - 1)
  BY SizesArePositive DEF Rows, Indices
<1>2. /\ ChunkOf(r) \in Devices /\ (r % ShardTokens) \in 0 .. (ShardTokens - 1)
      /\ r = ChunkOf(r) * ShardTokens + (r % ShardTokens)
  BY <1>1, PIsPositive, Euclid DEF ChunkOf, Devices
<1> DEFINE t == r % ShardTokens
<1>3. t \in 0 .. (NB * BlockSize - 1)
  BY <1>2 DEF ShardTokens
<1>4. /\ t \div BlockSize \in 0 .. (NB - 1) /\ (t % BlockSize) \in 0 .. (BlockSize - 1)
      /\ t = (t \div BlockSize) * BlockSize + (t % BlockSize)
  <2> HIDE DEF t
  <2> QED
    BY <1>3, NBIsPositive, BlockSizeIsPositive, Euclid
<1> QED
  BY <1>2, <1>4 DEF SlotOf, PlaceOf, LocalBlocks, LocalTokens, Indices

\* A token of a slot of a shard has one row.
LEMMA RowJoins ==
  ASSUME NEW d \in Devices, NEW j \in LocalBlocks, NEW o \in 0 .. (BlockSize - 1)
  PROVE  \E r \in Rows : ChunkOf(r) = d /\ SlotOf(r) = j /\ PlaceOf(r) = o
<1> DEFINE t == j * BlockSize + o
           r == d * ShardTokens + t
<1>1. j \in 0 .. (NB - 1) /\ d \in 0 .. (P - 1)
  BY DEF LocalBlocks, Indices, Devices
<1>2. t \in 0 .. (NB * BlockSize - 1) /\ t \div BlockSize = j /\ t % BlockSize = o
  BY <1>1, NBIsPositive, BlockSizeIsPositive, EuclidJoins
<1>3. t \in 0 .. (ShardTokens - 1)
  BY <1>2 DEF ShardTokens
<1> HIDE DEF t
<1>4. r \in 0 .. (P * ShardTokens - 1) /\ r \div ShardTokens = d /\ r % ShardTokens = t
  BY <1>1, <1>3, PIsPositive, SizesArePositive, EuclidJoins
<1>5. r \in Rows /\ ChunkOf(r) = d /\ SlotOf(r) = j /\ PlaceOf(r) = o
  BY <1>2, <1>4 DEF Rows, Indices, ChunkOf, SlotOf, PlaceOf
<1> QED
  BY <1>5

\* A token of a shard is a place in a block, and the other way round.
LEMMA TokenSplits ==
  ASSUME NEW t \in LocalTokens
  PROVE  /\ t \div BlockSize \in LocalBlocks /\ (t % BlockSize) \in 0 .. (BlockSize - 1)
         /\ t = (t \div BlockSize) * BlockSize + (t % BlockSize)
<1>1. t \in 0 .. (NB * BlockSize - 1)
  BY DEF LocalTokens, ShardTokens, Indices
<1> QED
  BY <1>1, NBIsPositive, BlockSizeIsPositive, Euclid DEF LocalBlocks, Indices

\* A slot and a place in it make a token of the shard.
LEMMA TokenJoins ==
  ASSUME NEW b \in LocalBlocks, NEW o \in 0 .. (BlockSize - 1)
  PROVE  /\ b * BlockSize + o \in LocalTokens
         /\ (b * BlockSize + o) \div BlockSize = b
         /\ (b * BlockSize + o) % BlockSize = o
<1>1. b \in 0 .. (NB - 1)
  BY DEF LocalBlocks, Indices
<1> QED
  BY <1>1, NBIsPositive, BlockSizeIsPositive, EuclidJoins
     DEF LocalTokens, ShardTokens, Indices

\* Places in two slots, or two blocks, compare like pairs of numbers.
LEMMA PairsCompare ==
  ASSUME NEW i \in Nat, NEW j \in Nat, NEW o \in 0 .. (BlockSize - 1),
         NEW p \in 0 .. (BlockSize - 1)
  PROVE  i * BlockSize + o < j * BlockSize + p <=> i < j \/ (i = j /\ o < p)
<1>1. BlockSize \in Nat /\ i * BlockSize \in Nat /\ j * BlockSize \in Nat
  BY BlockSizeIsPositive
<1>2. ASSUME NEW x \in Nat, NEW y \in Nat, x < y
      PROVE  x * BlockSize + BlockSize <= y * BlockSize
  <2>1. (x + 1) * BlockSize <= y * BlockSize
    BY <1>2, BlockSizeIsPositive, SMTT(30)
  <2>2. (x + 1) * BlockSize = x * BlockSize + BlockSize
    BY BlockSizeIsPositive, SMTT(30)
  <2> QED
    BY <2>1, <2>2
<1>3. CASE i < j
  BY <1>1, <1>2, <1>3
<1>4. CASE j < i
  <2>1. j * BlockSize + BlockSize <= i * BlockSize
    BY <1>2, <1>4
  <2> QED
    BY <1>1, <1>4, <2>1
<1>5. CASE i = j
  BY <1>1, <1>5
<1> QED
  BY <1>3, <1>4, <1>5

-----------------------------------------------------------------------------
(* The valid rows are the retained tokens, in order.                       *)

\* The active indices of a shard: a permutation, retained blocks first, in order.
LEMMA BlocksOf ==
  ASSUME NEW m \in [Devices -> [LocalBlocks -> BOOLEAN]], NEW d \in Devices,
         NEW ix, ix = ActiveIndicesByMask(m[d], NB)
  PROVE  /\ CountsOf(m)[d] \in 0 .. NB
         /\ ix \in [LocalBlocks -> LocalBlocks]
         /\ \A j \in LocalBlocks : m[d][ix[j]] <=> j < CountsOf(m)[d]
         /\ \A b \in LocalBlocks :
              m[d][b] => \E j \in LocalBlocks : j < CountsOf(m)[d] /\ ix[j] = b
         /\ \A i, j \in LocalBlocks : ix[i] = ix[j] => i = j
         /\ \A i, j \in LocalBlocks : i < j /\ j < CountsOf(m)[d] => ix[i] < ix[j]
<1>1. NB \in Nat /\ m[d] \in [Indices(NB) -> BOOLEAN]
  BY NBIsPositive DEF LocalBlocks
<1>2. ix = ActiveIndices(m[d], NB)
  BY <1>1, BothSortsAgree
<1>3. CountsOf(m)[d] = NumActive(m[d], NB)
  BY DEF CountsOf
<1>4. \A i, j \in LocalBlocks : i < j /\ j < NumActive(m[d], NB) => ix[i] < ix[j]
  BY <1>1, <1>2, RetainedInOrder DEF LocalBlocks
<1>5. /\ NumActive(m[d], NB) \in 0 .. NB
      /\ ix \in [LocalBlocks -> LocalBlocks]
      /\ \A j \in LocalBlocks : m[d][ix[j]] <=> j < NumActive(m[d], NB)
      /\ \A i, j \in LocalBlocks : ix[i] = ix[j] => i = j
      /\ \A b \in LocalBlocks :
           m[d][b] => \E j \in LocalBlocks : j < NumActive(m[d], NB) /\ ix[j] = b
  BY <1>1, <1>2, ActiveIndicesCorrect DEF LocalBlocks
<1> QED
  BY <1>3, <1>4, <1>5

\* A row is valid if its slot holds a block, and holds that block's token then.
LEMMA RowHolds ==
  ASSUME NEW m \in [Devices -> [LocalBlocks -> BOOLEAN]], NEW r \in Rows,
         NEW ix, ix = ActiveIndicesByMask(m[ChunkOf(r)], NB)
  PROVE  /\ r \in ValidOf(m) <=> SlotOf(r) < CountsOf(m)[ChunkOf(r)]
         /\ r \in ValidOf(m) =>
              RowsOf(m)[r] = <<ChunkOf(r), ix[SlotOf(r)] * BlockSize + PlaceOf(r)>>
<1> DEFINE d == ChunkOf(r)
           t == r % ShardTokens
           cnt == CountsOf(m)[d]
<1>1. /\ d \in Devices /\ SlotOf(r) \in LocalBlocks /\ PlaceOf(r) \in 0 .. (BlockSize - 1)
      /\ t = SlotOf(r) * BlockSize + PlaceOf(r) /\ t \in LocalTokens
  BY RowSplits
<1>2. cnt \in Nat /\ SlotOf(r) \in Nat /\ 0 \in 0 .. (BlockSize - 1)
  BY <1>1, BlocksOf, NBIsPositive, BlockSizeIsPositive DEF LocalBlocks, Indices
<1>3. r \in ValidOf(m) <=> t < cnt * BlockSize
  BY DEF ValidOf, ValidRows, ChunkOf
<1>4. t < cnt * BlockSize <=> SlotOf(r) < cnt
  <2> HIDE DEF t, cnt
  <2>1. SlotOf(r) * BlockSize + PlaceOf(r) < cnt * BlockSize + 0
          <=> SlotOf(r) < cnt \/ (SlotOf(r) = cnt /\ PlaceOf(r) < 0)
    BY <1>1, <1>2, PairsCompare
  <2>2. cnt * BlockSize + 0 = cnt * BlockSize
    BY <1>2, BlockSizeIsPositive
  <2>3. ~(PlaceOf(r) < 0)
    BY <1>1, BlockSizeIsPositive
  <2> QED
    BY <1>1, <2>1, <2>2, <2>3
<1>5. RowsOf(m)[r] = PackedOf(m)[d][t]
  BY DEF RowsOf, TiledGather, Rows, Indices, ChunkOf
<1>6. ASSUME SlotOf(r) < cnt
      PROVE  PackedOf(m)[d][t] = <<d, ix[SlotOf(r)] * BlockSize + PlaceOf(r)>>
  <2>1. cnt = NumActive(m[d], NB) /\ SlotOf(r) = t \div BlockSize /\ PlaceOf(r) = t % BlockSize
    BY <1>1 DEF CountsOf, SlotOf, PlaceOf
  <2>2. ix[SlotOf(r)] * BlockSize + PlaceOf(r) \in LocalTokens
    <3>1. ix[SlotOf(r)] \in LocalBlocks
      BY <1>1, BlocksOf
    <3> QED
      BY <1>1, <3>1, TokenJoins
  <2> HIDE DEF d, t, cnt
  <2>3. PackedOf(m)[d] = PackActiveBlocks([x \in LocalTokens |-> <<d, x>>], ix, cnt)
    BY <1>1, <2>1 DEF PackedOf, Shard, d
  <2>4. PackActiveBlocks([x \in LocalTokens |-> <<d, x>>], ix, cnt)[t]
          = [x \in LocalTokens |-> <<d, x>>][ix[SlotOf(r)] * BlockSize + PlaceOf(r)]
    BY <1>1, <1>6, <2>1 DEF PackActiveBlocks
  <2> QED
    BY <2>2, <2>3, <2>4
<1> QED
  BY <1>3, <1>4, <1>5, <1>6

\* Reading the valid rows in row order is reading the retained tokens in the
\* order of the sequence: device by device, block by block, token by token.
LEMMA RowsInOrder ==
  ASSUME NEW m \in [Devices -> [LocalBlocks -> BOOLEAN]],
         NEW rows, rows = RowsOf(m), NEW valid, valid = ValidOf(m)
  PROVE  /\ \A r \in valid : r \in Rows /\ rows[r] \in RetainedOf(m)
         /\ \A p, q \in valid : p < q => Precedes(rows[p], rows[q])
         /\ \A u \in RetainedOf(m) : \E r \in valid : rows[r] = u
<1> DEFINE ix(d) == ActiveIndicesByMask(m[d], NB)
           at(r) == ix(ChunkOf(r))[SlotOf(r)]
           cnt == CountsOf(m)
<1>1. \A d \in Devices :
        /\ cnt[d] \in 0 .. NB
        /\ ix(d) \in [LocalBlocks -> LocalBlocks]
        /\ \A j \in LocalBlocks : m[d][ix(d)[j]] <=> j < cnt[d]
        /\ \A b \in LocalBlocks :
             m[d][b] => \E j \in LocalBlocks : j < cnt[d] /\ ix(d)[j] = b
        /\ \A i, j \in LocalBlocks : i < j /\ j < cnt[d] => ix(d)[i] < ix(d)[j]
  BY BlocksOf
<1>2. ASSUME NEW r \in valid
      PROVE  /\ r \in Rows /\ ChunkOf(r) \in Devices /\ SlotOf(r) \in LocalBlocks
             /\ PlaceOf(r) \in 0 .. (BlockSize - 1)
             /\ SlotOf(r) < cnt[ChunkOf(r)]
             /\ rows[r] = <<ChunkOf(r), at(r) * BlockSize + PlaceOf(r)>>
  <2>1. r \in Rows
    BY DEF ValidOf
  <2> QED
    BY <2>1, RowSplits, RowHolds
<1>3. ASSUME NEW r \in Rows, SlotOf(r) < cnt[ChunkOf(r)]
      PROVE  r \in valid
  BY <1>3, RowHolds
<1> HIDE DEF ix, cnt
<1>4. ASSUME NEW r \in valid
      PROVE  r \in Rows /\ rows[r] \in RetainedOf(m)
  <2>1. at(r) \in LocalBlocks /\ m[ChunkOf(r)][at(r)]
    BY <1>1, <1>2
  <2>2. /\ at(r) * BlockSize + PlaceOf(r) \in LocalTokens
        /\ (at(r) * BlockSize + PlaceOf(r)) \div BlockSize = at(r)
    BY <1>2, <2>1, TokenJoins
  <2>3. \A d \in Devices, t \in LocalTokens :
          m[d][t \div BlockSize] => <<d, t>> \in RetainedOf(m)
    BY DEF RetainedOf, Tokens
  <2> HIDE DEF at
  <2> QED
    BY <1>2, <2>1, <2>2, <2>3
<1>5. ASSUME NEW p \in valid, NEW q \in valid, p < q
      PROVE  Precedes(rows[p], rows[q])
  <2> DEFINE s == p % ShardTokens
             t == q % ShardTokens
  <2>1. /\ p = ChunkOf(p) * ShardTokens + s /\ s \in LocalTokens
        /\ q = ChunkOf(q) * ShardTokens + t /\ t \in LocalTokens
        /\ s = SlotOf(p) * BlockSize + PlaceOf(p)
        /\ t = SlotOf(q) * BlockSize + PlaceOf(q)
    BY <1>2, RowSplits
  <2>2. /\ ChunkOf(p) \in Nat /\ ChunkOf(q) \in Nat
        /\ SlotOf(p) \in Nat /\ SlotOf(q) \in Nat
        /\ s \in 0 .. (ShardTokens - 1) /\ t \in 0 .. (ShardTokens - 1)
    BY <1>2, <2>1, PIsPositive, NBIsPositive DEF Devices, LocalBlocks, LocalTokens, Indices
  <2> HIDE DEF s, t
  <2>3. ChunkOf(p) < ChunkOf(q) \/ (ChunkOf(p) = ChunkOf(q) /\ s < t)
    <3>1. CASE ChunkOf(q) < ChunkOf(p)
      <4>1. (ChunkOf(q) + 1) * ShardTokens <= ChunkOf(p) * ShardTokens
        BY <2>2, <3>1, SizesArePositive, SMTT(30)
      <4>2. (ChunkOf(q) + 1) * ShardTokens = ChunkOf(q) * ShardTokens + ShardTokens
        BY <2>2, SizesArePositive, SMTT(30)
      <4>3. /\ ChunkOf(q) * ShardTokens \in Nat /\ ChunkOf(p) * ShardTokens \in Nat
            /\ ShardTokens \in Nat
        BY <2>2, SizesArePositive
      <4>4. q < p
        BY <2>1, <2>2, <4>1, <4>2, <4>3
      <4> QED
        BY <1>2, <1>5, <4>4, SizesArePositive DEF Rows, Indices
    <3>2. CASE ChunkOf(p) = ChunkOf(q)
      <4>1. ChunkOf(q) * ShardTokens \in Nat
        BY <2>2, SizesArePositive
      <4> QED
        BY <1>5, <2>1, <2>2, <3>2, <4>1, SizesArePositive
    <3> QED
      BY <2>2, <3>1, <3>2
  <2>4. CASE ChunkOf(p) < ChunkOf(q)
    BY <1>2, <2>4 DEF Precedes
  <2>5. CASE ChunkOf(p) = ChunkOf(q) /\ s < t
    <3>1. SlotOf(p) < SlotOf(q) \/ (SlotOf(p) = SlotOf(q) /\ PlaceOf(p) < PlaceOf(q))
      BY <1>2, <2>1, <2>2, <2>5, PairsCompare
    <3>2. SlotOf(p) < SlotOf(q) => at(p) < at(q)
      BY <1>1, <1>2, <2>5
    <3>3. SlotOf(p) = SlotOf(q) => at(p) = at(q)
      BY <2>5
    <3>4. at(p) \in Nat /\ at(q) \in Nat
      <4>1. at(p) \in LocalBlocks /\ at(q) \in LocalBlocks
        BY <1>1, <1>2
      <4> QED
        BY <4>1, NBIsPositive DEF LocalBlocks, Indices
    <3> HIDE DEF at
    <3>5. at(p) * BlockSize + PlaceOf(p) < at(q) * BlockSize + PlaceOf(q)
      BY <1>2, <3>1, <3>2, <3>3, <3>4, PairsCompare
    <3> QED
      BY <1>2, <2>5, <3>5 DEF Precedes
  <2> QED
    BY <2>3, <2>4, <2>5
<1>6. ASSUME NEW u \in RetainedOf(m)
      PROVE  \E r \in valid : rows[r] = u
  <2>1. PICK d \in Devices, t \in LocalTokens : u = <<d, t>> /\ m[d][t \div BlockSize]
    BY DEF RetainedOf, Tokens
  <2>2. /\ t \div BlockSize \in LocalBlocks /\ (t % BlockSize) \in 0 .. (BlockSize - 1)
        /\ t = (t \div BlockSize) * BlockSize + (t % BlockSize)
    BY TokenSplits
  <2>3. PICK j \in LocalBlocks : j < cnt[d] /\ ix(d)[j] = t \div BlockSize
    BY <1>1, <2>1, <2>2
  <2>4. PICK r \in Rows : ChunkOf(r) = d /\ SlotOf(r) = j /\ PlaceOf(r) = t % BlockSize
    BY <2>2, RowJoins
  <2>5. r \in valid
    BY <1>3, <2>3, <2>4
  <2>6. rows[r] = <<d, ix(d)[j] * BlockSize + (t % BlockSize)>>
    BY <1>2, <2>4, <2>5
  <2> QED
    BY <2>1, <2>2, <2>3, <2>5, <2>6
<1> QED
  BY <1>4, <1>5, <1>6

-----------------------------------------------------------------------------
(* Counting.                                                               *)

\* Cardinalities of retained tokens are natural numbers.
LEMMA RetainedIsFinite ==
  ASSUME NEW m, NEW S, S \subseteq RetainedOf(m)
  PROVE  IsFiniteSet(S) /\ Cardinality(S) \in Nat
<1>1. IsFiniteSet(Devices) /\ IsFiniteSet(LocalTokens)
  BY PIsPositive, SizesArePositive, FS_Interval, IndicesFinite DEF Devices, LocalTokens
<1>2. IsFiniteSet(Tokens)
  BY <1>1, FS_Product DEF Tokens
<1>3. S \in SUBSET Tokens
  BY DEF RetainedOf
<1>4. IsFiniteSet(S)
  BY <1>2, <1>3, FS_Subset
<1> QED
  BY <1>4, FS_CardinalityType

\* The retained tokens of some devices are BlockSize for each of their blocks.
LEMMA RetainedCounted ==
  ASSUME NEW m \in [Devices -> [LocalBlocks -> BOOLEAN]], NEW E \in SUBSET Devices,
         NEW kept, kept = {u \in RetainedOf(m) : u[1] \in E}
  PROVE  Cardinality(UNION {{d} \X (0 .. (CountsOf(m)[d] - 1)) : d \in E}) * BlockSize
           = Cardinality(kept)
<1> DEFINE sent   == UNION {{d} \X (0 .. (CountsOf(m)[d] - 1)) : d \in E}
           places == 0 .. (BlockSize - 1)
           cnt    == CountsOf(m)
           ix(d)  == ActiveIndicesByMask(m[d], NB)
           name(d, j, o) == <<d, ix(d)[j] * BlockSize + o>>
           token  == [x \in sent \X places |-> name(x[1][1], x[1][2], x[2])]
<1>1. \A d \in Devices :
        /\ cnt[d] \in 0 .. NB
        /\ ix(d) \in [LocalBlocks -> LocalBlocks]
        /\ \A j \in LocalBlocks : m[d][ix(d)[j]] <=> j < cnt[d]
        /\ \A b \in LocalBlocks :
             m[d][b] => \E j \in LocalBlocks : j < cnt[d] /\ ix(d)[j] = b
        /\ \A i, j \in LocalBlocks : ix(d)[i] = ix(d)[j] => i = j
  BY BlocksOf
<1>2. \A x : x \in sent <=> \E d \in E : \E j \in 0 .. (cnt[d] - 1) : x = <<d, j>>
  OBVIOUS
<1>3. \A d \in Devices : \A j : j \in 0 .. (cnt[d] - 1) <=> j \in LocalBlocks /\ j < cnt[d]
  BY <1>1, NBIsPositive DEF LocalBlocks, Indices
<1> HIDE DEF sent, cnt, ix, places
<1>4. \A x \in sent : /\ x = <<x[1], x[2]>> /\ x[1] \in E /\ x[1] \in Devices
                      /\ x[2] \in LocalBlocks /\ x[2] < cnt[x[1]]
  BY <1>2, <1>3
<1>5. ASSUME NEW x \in sent, NEW o \in places
      PROVE  /\ ix(x[1])[x[2]] \in LocalBlocks /\ name(x[1], x[2], o) \in kept
             /\ (ix(x[1])[x[2]] * BlockSize + o) \div BlockSize = ix(x[1])[x[2]]
             /\ (ix(x[1])[x[2]] * BlockSize + o) % BlockSize = o
  <2>1. ix(x[1])[x[2]] \in LocalBlocks /\ m[x[1]][ix(x[1])[x[2]]]
    BY <1>1, <1>4
  <2>2. /\ ix(x[1])[x[2]] * BlockSize + o \in LocalTokens
        /\ (ix(x[1])[x[2]] * BlockSize + o) \div BlockSize = ix(x[1])[x[2]]
        /\ (ix(x[1])[x[2]] * BlockSize + o) % BlockSize = o
    BY <2>1, TokenJoins DEF places
  <2>3. \A d \in E, t \in LocalTokens : m[d][t \div BlockSize] => <<d, t>> \in kept
    BY DEF RetainedOf, Tokens
  <2> QED
    BY <1>4, <2>1, <2>2, <2>3
<1>6. token \in [sent \X places -> kept]
  BY <1>5
<1>7. ASSUME NEW x \in sent \X places, NEW y \in sent \X places, token[x] = token[y]
      PROVE  x = y
  <2> DEFINE a == x[1]
             b == y[1]
  <2>1. /\ x = <<a, x[2]>> /\ y = <<b, y[2]>> /\ a \in sent /\ b \in sent
        /\ x[2] \in places /\ y[2] \in places
    OBVIOUS
  <2>2. /\ a[1] = b[1]
        /\ ix(a[1])[a[2]] * BlockSize + x[2] = ix(b[1])[b[2]] * BlockSize + y[2]
    BY <1>7
  <2> HIDE DEF a, b
  <2>3. ix(a[1])[a[2]] = ix(b[1])[b[2]] /\ x[2] = y[2]
    <3>1. /\ (ix(a[1])[a[2]] * BlockSize + x[2]) \div BlockSize = ix(a[1])[a[2]]
          /\ (ix(a[1])[a[2]] * BlockSize + x[2]) % BlockSize = x[2]
      BY <1>5, <2>1
    <3>2. /\ (ix(b[1])[b[2]] * BlockSize + y[2]) \div BlockSize = ix(b[1])[b[2]]
          /\ (ix(b[1])[b[2]] * BlockSize + y[2]) % BlockSize = y[2]
      BY <1>5, <2>1
    <3> QED
      BY <2>2, <3>1, <3>2, Zenon
  <2>4. a[2] = b[2]
    BY <1>1, <1>4, <2>1, <2>2, <2>3
  <2>5. a = b
    BY <1>4, <2>1, <2>2, <2>4
  <2> QED
    BY <2>1, <2>3, <2>5
<1>8. ASSUME NEW u \in kept
      PROVE  \E x \in sent \X places : token[x] = u
  <2>1. PICK d \in E, t \in LocalTokens : u = <<d, t>> /\ m[d][t \div BlockSize]
    BY DEF RetainedOf, Tokens
  <2>2. /\ t \div BlockSize \in LocalBlocks /\ (t % BlockSize) \in places
        /\ t = (t \div BlockSize) * BlockSize + (t % BlockSize)
    BY TokenSplits DEF places
  <2>3. PICK j \in LocalBlocks : j < cnt[d] /\ ix(d)[j] = t \div BlockSize
    BY <1>1, <2>1, <2>2
  <2>4. <<d, j>> \in sent
    BY <1>2, <1>3, <2>3
  <2>5. token[<<<<d, j>>, t % BlockSize>>] = name(d, j, t % BlockSize)
    BY <2>2, <2>4
  <2> QED
    BY <2>1, <2>2, <2>3, <2>4, <2>5
<1>9. token \in Bijection(sent \X places, kept)
  BY <1>6, <1>7, <1>8 DEF Bijection, Injection, Surjection, IsInjective
<1>10. IsFiniteSet(sent)
  <2>1. IsFiniteSet(Devices) /\ IsFiniteSet(LocalBlocks)
    BY PIsPositive, NBIsPositive, FS_Interval, IndicesFinite DEF Devices, LocalBlocks
  <2>2. IsFiniteSet(Devices \X LocalBlocks)
    BY <2>1, FS_Product
  <2>3. sent \in SUBSET (Devices \X LocalBlocks)
    BY <1>4
  <2> QED
    BY <2>2, <2>3, FS_Subset
<1>11. IsFiniteSet(places) /\ Cardinality(places) = BlockSize
  BY BlockSizeIsPositive, FS_Interval DEF places
<1>12. /\ IsFiniteSet(sent \X places)
       /\ Cardinality(sent \X places) = Cardinality(sent) * BlockSize
  BY <1>10, <1>11, FS_Product
<1>13. Cardinality(kept) = Cardinality(sent \X places)
  BY <1>9, <1>12, FS_Bijection DEF ExistsBijection
<1> QED
  BY <1>12, <1>13 DEF sent

\* The row of a retained token in the compacted buffer: the number of retained
\* tokens before it.
PositionIn(m, u) == Cardinality({v \in RetainedOf(m) : Precedes(v, u)})

\* As many valid rows come before a valid row as retained tokens come before
\* its token, so the stable sort puts the token where the sequence has it.
LEMMA RankIsPosition ==
  ASSUME NEW m \in [Devices -> [LocalBlocks -> BOOLEAN]],
         NEW key, key = PaddingKey(ValidRows(CountsOf(m)), P * ShardTokens)
  PROVE  /\ key \in [Rows -> Int]
         /\ Cardinality(ValidOf(m)) = Cardinality(RetainedOf(m))
         /\ \A q \in ValidOf(m) :
              Rank(key, P * ShardTokens, q) = PositionIn(m, RowsOf(m)[q])
<1> DEFINE valid == ValidOf(m)
           rows  == RowsOf(m)
           kept  == RetainedOf(m)
<1>1. /\ \A r \in valid : r \in Rows /\ rows[r] \in kept
      /\ \A p, q \in valid : p < q => Precedes(rows[p], rows[q])
      /\ \A u \in kept : \E r \in valid : rows[r] = u
  BY RowsInOrder
<1>2. key \in [Rows -> Int] /\ \A r \in Rows : key[r] = IF r \in valid THEN 0 ELSE 1
  BY DEF PaddingKey, ValidOf, Rows, Indices
<1>3. Rows \in SUBSET Int /\ IsFiniteSet(Rows) /\ Rows = Indices(P * ShardTokens)
  BY SizesArePositive, IndicesFinite DEF Rows, Indices
<1>4. \A u \in kept : ~Precedes(u, u)
  BY PIsPositive, SizesArePositive DEF Precedes, RetainedOf, Tokens, Devices, LocalTokens,
         Indices
<1>5. \A u, v \in kept : ~(Precedes(u, v) /\ Precedes(v, u))
  BY PIsPositive, SizesArePositive DEF Precedes, RetainedOf, Tokens, Devices, LocalTokens,
         Indices
<1> HIDE DEF valid, rows, kept
<1>6. \A p, q \in valid : rows[p] = rows[q] => p = q
  <2> SUFFICES ASSUME NEW p \in valid, NEW q \in valid, rows[p] = rows[q], p # q
               PROVE  FALSE
    OBVIOUS
  <2>1. p \in Int /\ q \in Int
    BY <1>1, <1>3
  <2>2. p < q \/ q < p
    BY <2>1
  <2> QED
    BY <1>1, <1>4, <2>2
<1>7. \A p, q \in valid : Precedes(rows[p], rows[q]) => p < q
  <2> SUFFICES ASSUME NEW p \in valid, NEW q \in valid, Precedes(rows[p], rows[q]), ~(p < q)
               PROVE  FALSE
    OBVIOUS
  <2>1. p \in Int /\ q \in Int
    BY <1>1, <1>3
  <2>2. p = q \/ q < p
    BY <2>1
  <2> QED
    BY <1>1, <1>4, <1>5, <2>2
<1>8. ASSUME NEW S, S \subseteq valid, NEW T, T \subseteq kept,
             \A p \in S : rows[p] \in T, \A u \in T : \E p \in S : rows[p] = u
      PROVE  Cardinality(S) = Cardinality(T)
  <2> DEFINE f == [p \in S |-> rows[p]]
  <2>1. S \in SUBSET Rows
    BY <1>1, <1>8
  <2>2. IsFiniteSet(S)
    BY <1>3, <2>1, FS_Subset
  <2>3. f \in Bijection(S, T)
    BY <1>6, <1>8 DEF Bijection, Injection, Surjection, IsInjective
  <2> QED
    BY <2>2, <2>3, FS_Bijection DEF ExistsBijection
<1>9. Cardinality(valid) = Cardinality(kept)
  BY <1>1, <1>8
<1>10. ASSUME NEW q \in valid
       PROVE  Rank(key, P * ShardTokens, q) = PositionIn(m, rows[q])
  <2> DEFINE S == {p \in valid : p < q}
             T == {v \in kept : Precedes(v, rows[q])}
  <2>1. \A p \in S : rows[p] \in T
    BY <1>1
  <2>2. \A u \in T : \E p \in S : rows[p] = u
    BY <1>1, <1>7
  <2>3. Cardinality(S) = Cardinality(T)
    <3>1. S \subseteq valid /\ T \subseteq kept
      OBVIOUS
    <3> HIDE DEF S, T
    <3> QED
      BY <1>8, <2>1, <2>2, <3>1
  <2>4. {p \in Rows : Before(key, p, q)} = S
    BY <1>1, <1>2 DEF Before
  <2> QED
    BY <1>3, <2>3, <2>4 DEF Rank, PositionIn, kept
<1> QED
  BY <1>2, <1>9, <1>10 DEF valid, rows, kept

\* What unpack_received_blocks returns: row i of the active prefix holds the
\* retained token that exactly i retained tokens come before, zeros follow.
LEMMA UnpackedSequence ==
  ASSUME NEW m \in [Devices -> [LocalBlocks -> BOOLEAN]],
         NEW out, out = UnpackReceivedBlocks(RowsOf(m), CountsOf(m)),
         NEW n, n = Cardinality(RetainedOf(m))
  PROVE  /\ n \in Nat
         /\ \A u \in RetainedOf(m) : PositionIn(m, u) \in 0 .. (n - 1) /\ out[PositionIn(m, u)] = u
         /\ \A i \in 0 .. (n - 1) : \E u \in RetainedOf(m) : PositionIn(m, u) = i
         /\ \A r \in Rows : r >= n => out[r] = ZeroToken
<1> DEFINE N      == P * ShardTokens
           key    == PaddingKey(ValidRows(CountsOf(m)), N)
           source == ArgSort(key, N)
           rows   == RowsOf(m)
           valid  == ValidOf(m)
           kept   == RetainedOf(m)
<1>1. N \in Nat /\ Rows = Indices(N) /\ Rows = 0 .. (N - 1)
  BY SizesArePositive DEF Rows, Indices
<1>2. /\ key \in [Indices(N) -> Int]
      /\ Cardinality(valid) = n
      /\ \A q \in valid : Rank(key, N, q) = PositionIn(m, rows[q])
  BY <1>1, RankIsPosition
<1>3. /\ \A r \in valid : r \in Rows /\ rows[r] \in kept
      /\ \A u \in kept : \E r \in valid : rows[r] = u
  BY RowsInOrder
<1>4. n \in Nat
  BY RetainedIsFinite
<1>5. SumOver(CountsOf(m)) * BlockSize = n
  <2>1. RetainedOf(m) = {u \in RetainedOf(m) : u[1] \in Devices}
    BY DEF RetainedOf, Tokens
  <2>2. Devices \in SUBSET Devices
    OBVIOUS
  <2>3. Cardinality(UNION {{d} \X (0 .. (CountsOf(m)[d] - 1)) : d \in Devices}) * BlockSize = n
    <3> HIDE DEF N, key, source, rows, valid, kept
    <3> QED
      BY <2>1, <2>2, RetainedCounted
  <2> QED
    BY <2>3 DEF SumOver
<1>6. DOMAIN rows = Rows /\ Cardinality(DOMAIN rows) = N
  BY <1>1, IndicesFinite DEF RowsOf, TiledGather
<1>7. ValidRows(CountsOf(m)) \in [Indices(N) -> BOOLEAN]
  BY <1>1 DEF ValidRows
<1>8. \A i \in Indices(N) : source[i] \in valid <=> i < n
  <2> DEFINE ok == ValidRows(CountsOf(m))
  <2>1. \A a, b \in Indices(N) : ok[a] /\ ~ok[b] => Before(key, a, b)
    BY <1>1 DEF Before, PaddingKey
  <2>2. NumActive(ok, N) = n
    BY <1>1, <1>2 DEF NumActive, ValidOf
  <2>3. \A i \in Indices(N) : ok[source[i]] <=> i < NumActive(ok, N)
    <3> HIDE DEF key, N, ok
    <3> QED
      BY <1>1, <1>2, <1>7, <2>1, RetainedPrefix DEF ok, source
  <2>4. \A i \in Indices(N) : source[i] \in Rows
    <3> HIDE DEF key, N
    <3> QED
      BY <1>1, <1>2, ArgSortLists DEF source
  <2>5. \A r \in Rows : r \in valid <=> ok[r]
    BY DEF ValidOf
  <2> HIDE DEF source, valid, ok
  <2> QED
    BY <2>2, <2>3, <2>4, <2>5
<1>9. /\ source \in [Indices(N) -> Indices(N)]
      /\ \A i \in Indices(N) : Rank(key, N, source[i]) = i
      /\ \A b \in Indices(N) : source[Rank(key, N, b)] = b
  <2> HIDE DEF key, N
  <2> QED
    BY <1>1, <1>2, ArgSortLists DEF source
<1>10. \A b \in Indices(N) : Rank(key, N, b) \in Indices(N)
  <2> HIDE DEF key, N
  <2> QED
    BY <1>1, <1>2, RankInRange
<1>11. ASSUME NEW r \in Rows
       PROVE  out[r] = IF r < n THEN rows[source[r]] ELSE ZeroToken
  <2> DEFINE last == Cardinality(DOMAIN rows) - 1
             clamped == [x \in Rows |-> IF source[x] > last THEN last ELSE source[x]]
  <2>1. out = [x \in Rows |-> IF x < SumOver(CountsOf(m)) * BlockSize
                              THEN rows[clamped[x]] ELSE ZeroToken]
    BY Zenon DEF UnpackReceivedBlocks
  <2> HIDE DEF source, rows
  <2>2. last = N - 1
    BY <1>6
  <2>3. source[r] \in 0 .. (N - 1)
    BY <1>1, <1>9
  <2> HIDE DEF N
  <2>4. clamped[r] = source[r]
    BY <1>1, <2>2, <2>3
  <2> HIDE DEF clamped
  <2> QED
    BY <1>5, <2>1, <2>4
<1> HIDE DEF N, key, source, rows, valid, kept
<1>12. ASSUME NEW q \in valid
       PROVE  /\ PositionIn(m, rows[q]) \in 0 .. (n - 1)
              /\ out[PositionIn(m, rows[q])] = rows[q]
  <2> DEFINE i == Rank(key, N, q)
  <2>1. i \in Indices(N) /\ source[i] = q /\ i < n
    BY <1>1, <1>3, <1>8, <1>9, <1>10
  <2>2. i \in 0 .. (n - 1) /\ i \in Rows
    BY <1>1, <1>4, <2>1
  <2> HIDE DEF i
  <2>3. out[i] = rows[q]
    BY <1>11, <2>1, <2>2
  <2> QED
    BY <1>2, <2>2, <2>3 DEF i
<1>13. \A u \in kept : PositionIn(m, u) \in 0 .. (n - 1) /\ out[PositionIn(m, u)] = u
  BY <1>3, <1>12
<1>14. ASSUME NEW i \in 0 .. (n - 1)
       PROVE  \E u \in kept : PositionIn(m, u) = i
  <2>1. n <= N
    <3>1. valid \in SUBSET Rows
      BY <1>3
    <3>2. IsFiniteSet(Rows) /\ Cardinality(Rows) = N
      BY <1>1, IndicesFinite
    <3> QED
      BY <1>2, <3>1, <3>2, FS_Subset
  <2>2. i \in Indices(N) /\ i < n
    BY <1>1, <1>4, <2>1
  <2>3. source[i] \in valid /\ Rank(key, N, source[i]) = i
    BY <1>8, <1>9, <2>2
  <2> QED
    BY <1>2, <1>3, <2>3
<1>15. \A r \in Rows : r >= n => out[r] = ZeroToken
  BY <1>1, <1>4, <1>11
<1> QED
  BY <1>4, <1>13, <1>14, <1>15 DEF kept

-----------------------------------------------------------------------------
(***************************************************************************)
(* The invariant: a shard is packed by its own mask, in whatever order the *)
(* shards are packed, and the concatenation is unpacked with their counts. *)
(***************************************************************************)
ShardInv ==
  /\ blockMask \in [Devices -> [LocalBlocks -> BOOLEAN]]
  /\ packed = [d \in Devices |-> packed[d]]
  /\ counts = [d \in Devices |-> counts[d]]
  /\ \A d \in Devices :
       packed[d] # Absent => packed[d] = PackedOf(blockMask)[d] /\ counts[d] = CountsOf(blockMask)[d]
  /\ activeKv # Absent => /\ activeKv = UnpackReceivedBlocks(RowsOf(blockMask), CountsOf(blockMask))
                        /\ deviceOffsets = DeviceOffsets(CountsOf(blockMask))

\* Packed shards, counts and what was unpacked are what the masks determine.
LEMMA ShardInvariant == ShardSpec => []ShardInv
<1>1. ShardInit => ShardInv
  BY DEF ShardInit, ShardInv
<1>2. ASSUME ShardInv, [ShardNext]_shardVars
      PROVE  ShardInv'
  <2>1. ASSUME NEW d \in Devices, PackShard(d)
        PROVE  ShardInv'
    BY <1>2, <2>1 DEF ShardInv, PackShard, PackedOf, CountsOf, Shard
  <2>2. CASE UnpackShards
    <3>1. \A d \in Devices : packed[d] = PackedOf(blockMask)[d] /\ counts[d] = CountsOf(blockMask)[d]
      BY <1>2, <2>2 DEF ShardInv, UnpackShards
    <3>2. packed = PackedOf(blockMask) /\ counts = CountsOf(blockMask)
      <4>1. PackedOf(blockMask) = [d \in Devices |-> PackedOf(blockMask)[d]]
        BY DEF PackedOf, Shard
      <4>2. CountsOf(blockMask) = [d \in Devices |-> CountsOf(blockMask)[d]]
        BY DEF CountsOf
      <4> QED
        BY <1>2, <3>1, <4>1, <4>2 DEF ShardInv
    <3>3. /\ activeKv' = UnpackReceivedBlocks(RowsOf(blockMask), CountsOf(blockMask))
          /\ deviceOffsets' = DeviceOffsets(CountsOf(blockMask))
      BY <2>2, <3>2 DEF UnpackShards, RowsOf
    <3> QED
      BY <1>2, <2>2, <3>3 DEF ShardInv, UnpackShards
  <2>3. CASE UNCHANGED shardVars
    BY <1>2, <2>3 DEF ShardInv, shardVars
  <2> QED
    BY <1>2, <2>1, <2>2, <2>3 DEF ShardNext
<1> QED
  BY <1>1, <1>2, PTL DEF ShardSpec

-----------------------------------------------------------------------------
(* What follows from it.                                                   *)

\* Nothing is lost, doubled or reordered between the masks and active_kv: each
\* retained token has the row that the sequence gives it, zeros follow.
THEOREM SequenceIsKept == ShardSpec => []SequenceKept
<1>1. ASSUME ShardInv
      PROVE  SequenceKept
  <2> SUFFICES ASSUME activeKv # Absent
               PROVE  /\ \A u \in Retained :
                           activeKv[Cardinality({v \in Retained : Precedes(v, u)})] = u
                      /\ \A r \in Rows : r >= Cardinality(Retained) => activeKv[r] = ZeroToken
    BY DEF SequenceKept
  <2>1. /\ blockMask \in [Devices -> [LocalBlocks -> BOOLEAN]]
        /\ activeKv = UnpackReceivedBlocks(RowsOf(blockMask), CountsOf(blockMask))
    BY <1>1 DEF ShardInv
  <2>2. Retained = RetainedOf(blockMask)
    BY DEF Retained, RetainedOf
  <2>3. /\ \A u \in Retained : activeKv[PositionIn(blockMask, u)] = u
        /\ \A r \in Rows : r >= Cardinality(Retained) => activeKv[r] = ZeroToken
    BY <2>1, <2>2, UnpackedSequence
  <2> QED
    BY <2>2, <2>3 DEF PositionIn
<1> QED
  BY <1>1, ShardInvariant, PTL

\* The tokens of the devices below a device end where its own begin.
LEMMA PositionsByDevice ==
  ASSUME NEW m \in [Devices -> [LocalBlocks -> BOOLEAN]],
         NEW u \in RetainedOf(m), NEW d \in Devices,
         NEW below, below = {v \in RetainedOf(m) : v[1] < d},
         NEW upto, upto = {v \in RetainedOf(m) : v[1] <= d}
  PROVE  /\ u[1] < d => PositionIn(m, u) < Cardinality(below)
         /\ u[1] >= d => PositionIn(m, u) >= Cardinality(below)
         /\ u[1] <= d => PositionIn(m, u) < Cardinality(upto)
         /\ u[1] > d => PositionIn(m, u) >= Cardinality(upto)
<1> DEFINE kept == RetainedOf(m)
           before == {v \in kept : Precedes(v, u)}
<1>1. d \in Int /\ \A v \in kept : v[1] \in Int /\ v[2] \in Int
  BY PIsPositive, SizesArePositive DEF RetainedOf, Tokens, Devices, LocalTokens, Indices
<1>2. u \in kept /\ ~Precedes(u, u)
  BY <1>1 DEF Precedes
<1> HIDE DEF kept
<1>3. /\ below \subseteq kept /\ upto \subseteq kept /\ before \subseteq kept
  BY DEF kept
<1>4. /\ IsFiniteSet(below) /\ IsFiniteSet(upto) /\ IsFiniteSet(before)
      /\ Cardinality(below) \in Nat /\ Cardinality(upto) \in Nat /\ Cardinality(before) \in Nat
  <2> HIDE DEF before
  <2> QED
    BY <1>3, RetainedIsFinite DEF kept
<1>5. ASSUME NEW S, IsFiniteSet(S), Cardinality(S) \in Nat, before \subseteq S \ {u}, u \in S
      PROVE  Cardinality(before) < Cardinality(S)
  <2>1. IsFiniteSet(S \ {u}) /\ Cardinality(S \ {u}) = Cardinality(S) - 1
    BY <1>5, FS_RemoveElement
  <2>2. before \in SUBSET (S \ {u})
    BY <1>5
  <2>3. Cardinality(before) <= Cardinality(S) - 1
    <3> HIDE DEF before
    <3> QED
      BY <2>1, <2>2, FS_Subset
  <2> QED
    BY <1>4, <1>5, <2>3
<1>6. ASSUME NEW S, S \subseteq before
      PROVE  Cardinality(S) <= Cardinality(before)
  <2>1. S \in SUBSET before
    BY <1>6
  <2> HIDE DEF before
  <2> QED
    BY <1>4, <2>1, FS_Subset
<1>7. u[1] < d => before \subseteq below \ {u} /\ u \in below
  BY <1>1, <1>2 DEF Precedes, kept
<1>8. u[1] >= d => below \subseteq before
  BY <1>1, <1>2 DEF Precedes, kept
<1>9. u[1] <= d => before \subseteq upto \ {u} /\ u \in upto
  BY <1>1, <1>2 DEF Precedes, kept
<1>10. u[1] > d => upto \subseteq before
  BY <1>1, <1>2 DEF Precedes, kept
<1>11. PositionIn(m, u) = Cardinality(before)
  BY DEF PositionIn, kept
<1> HIDE DEF before
<1> QED
  BY <1>4, <1>5, <1>6, <1>7, <1>8, <1>9, <1>10, <1>11

\* The offsets cut active_kv at the devices: the rows from one offset to the
\* next are exactly the retained tokens of one device, empty ones included.
THEOREM OffsetsDelimitDevices == ShardSpec => []OffsetsDelimit
<1>1. ASSUME ShardInv
      PROVE  OffsetsDelimit
  <2> DEFINE n == Cardinality(Retained)
             End(d) == IF d + 1 \in Devices THEN deviceOffsets[d + 1] ELSE n
  <2> SUFFICES ASSUME activeKv # Absent, NEW d \in Devices
               PROVE  {activeKv[r] : r \in deviceOffsets[d] .. (End(d) - 1)}
                        = {u \in Retained : u[1] = d}
    BY DEF OffsetsDelimit
  <2> DEFINE m     == blockMask
             below == {v \in RetainedOf(m) : v[1] < d}
             upto  == {v \in RetainedOf(m) : v[1] <= d}
             last  == End(d)
  <2>1. /\ m \in [Devices -> [LocalBlocks -> BOOLEAN]]
        /\ activeKv = UnpackReceivedBlocks(RowsOf(m), CountsOf(m))
        /\ deviceOffsets = DeviceOffsets(CountsOf(m))
    BY <1>1 DEF ShardInv
  <2>2. Retained = RetainedOf(m)
    BY DEF Retained, RetainedOf
  <2>3. d \in 0 .. (P - 1) /\ P \in Nat \ {0}
    BY PIsPositive DEF Devices
  <2>4. ASSUME NEW e \in Devices, NEW S, S = {v \in RetainedOf(m) : v[1] \in 0 .. (e - 1)}
        PROVE  deviceOffsets[e] = Cardinality(S)
    <3>1. 0 .. (e - 1) \in SUBSET Devices
      BY PIsPositive DEF Devices
    <3>2. deviceOffsets[e] = Cardinality(UNION {{x} \X (0 .. (CountsOf(m)[x] - 1)) :
                                            x \in 0 .. (e - 1)}) * BlockSize
      BY <2>1 DEF DeviceOffsets, ComputeOffsets
    <3> HIDE DEF m
    <3> QED
      BY <2>1, <2>4, <3>1, <3>2, RetainedCounted
  <2>5. \A v \in RetainedOf(m) : v[1] \in 0 .. (P - 1)
    BY DEF RetainedOf, Tokens, Devices
  <2>6. deviceOffsets[d] = Cardinality(below)
    <3>1. below = {v \in RetainedOf(m) : v[1] \in 0 .. (d - 1)}
      BY <2>3, <2>5
    <3> QED
      BY <2>4, <3>1
  <2>7. last = Cardinality(upto)
    <3>1. CASE d + 1 \in Devices
      <4>1. upto = {v \in RetainedOf(m) : v[1] \in 0 .. ((d + 1) - 1)}
        BY <2>3, <2>5
      <4> QED
        BY <2>4, <3>1, <4>1
    <3>2. CASE d + 1 \notin Devices
      <4>1. d = P - 1
        BY <2>3, <3>2 DEF Devices
      <4>2. upto = Retained
        BY <2>2, <2>3, <2>5, <4>1
      <4> QED
        BY <3>2, <4>2
    <3> QED
      BY <3>1, <3>2
  <2> HIDE DEF m, below, upto, last
  <2>8. /\ n \in Nat
        /\ \A u \in Retained : PositionIn(m, u) \in 0 .. (n - 1) /\ activeKv[PositionIn(m, u)] = u
        /\ \A i \in 0 .. (n - 1) : \E u \in Retained : PositionIn(m, u) = i
    BY <2>1, <2>2, UnpackedSequence
  <2>9. \A u \in Retained :
          /\ u[1] < d => PositionIn(m, u) < Cardinality(below)
          /\ u[1] >= d => PositionIn(m, u) >= Cardinality(below)
          /\ u[1] <= d => PositionIn(m, u) < Cardinality(upto)
          /\ u[1] > d => PositionIn(m, u) >= Cardinality(upto)
    BY <2>1, <2>2, PositionsByDevice DEF below, upto
  <2>10. /\ below \subseteq RetainedOf(m) /\ upto \subseteq RetainedOf(m)
         /\ upto \in SUBSET Retained
    BY <2>2 DEF below, upto
  <2>11. Cardinality(below) \in Nat /\ Cardinality(upto) \in Nat /\ Cardinality(upto) <= n
    BY <2>2, <2>10, RetainedIsFinite, FS_Subset
  <2> HIDE DEF n
  <2>12. ASSUME NEW r \in deviceOffsets[d] .. (last - 1)
         PROVE  activeKv[r] \in {u \in Retained : u[1] = d}
    <3>1. r \in 0 .. (n - 1) /\ r >= Cardinality(below) /\ r < Cardinality(upto)
      BY <2>6, <2>7, <2>8, <2>11
    <3>2. PICK u \in Retained : PositionIn(m, u) = r
      BY <2>8, <3>1
    <3>3. u[1] \in Int /\ ~(u[1] < d) /\ ~(u[1] > d)
      BY <2>2, <2>3, <2>5, <2>9, <2>11, <3>1, <3>2
    <3>4. u[1] = d
      BY <2>3, <3>3
    <3> QED
      BY <2>8, <3>2, <3>4
  <2>13. ASSUME NEW u \in Retained, u[1] = d
         PROVE  \E r \in deviceOffsets[d] .. (last - 1) : activeKv[r] = u
    <3>1. PositionIn(m, u) >= Cardinality(below) /\ PositionIn(m, u) < Cardinality(upto)
      BY <2>3, <2>9, <2>13
    <3>2. PositionIn(m, u) \in deviceOffsets[d] .. (last - 1)
      BY <2>6, <2>7, <2>8, <2>11, <3>1
    <3> QED
      BY <2>8, <3>2
  <2>14. {activeKv[r] : r \in deviceOffsets[d] .. (last - 1)} = {u \in Retained : u[1] = d}
    BY <2>12, <2>13
  <2> QED
    BY <2>14 DEF last
<1> QED
  BY <1>1, ShardInvariant, PTL

=============================================================================
