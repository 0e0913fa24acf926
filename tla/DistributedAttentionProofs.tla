---------------------- MODULE DistributedAttentionProofs ----------------------
(***************************************************************************)
(* Theorems about distributed_orthocache_attention, for every number of    *)
(* devices, blocks and calls.  The first part is sequential: what the      *)
(* gathered buffers and the indirection table of one call contain.  The    *)
(* second is about the interleaving: whatever the schedule, a device only  *)
(* ever holds data of the call it is running.                              *)
(***************************************************************************)
EXTENDS DistributedAttention, StreamCompactProofs

-----------------------------------------------------------------------------
(* Part 1: routing.                                                        *)

\* Slot arithmetic: the flat index of position j of chunk d is d * NB + j, and
\* \div and % take it apart again.
LEMMA SlotSplits ==
  ASSUME NEW s \in Slots
  PROVE  /\ s \div NB \in Devices
         /\ s % NB \in LocalBlocks
         /\ s = (s \div NB) * NB + (s % NB)
  BY PIsPositive, NBIsPositive, Euclid DEF Slots, Devices, LocalBlocks, Indices

\* ... and a device and a position of its chunk make one slot, which splits back.
LEMMA SlotJoins ==
  ASSUME NEW d \in Devices, NEW j \in LocalBlocks
  PROVE  /\ d * NB + j \in Slots
         /\ (d * NB + j) \div NB = d
         /\ (d * NB + j) % NB = j
  BY PIsPositive, NBIsPositive, EuclidJoins DEF Slots, Devices, LocalBlocks, Indices

\* The slots are the indices of an array of P * NB blocks.
LEMMA SlotsAreIndices == P * NB \in Nat /\ Slots = Indices(P * NB)
  BY PIsPositive, NBIsPositive DEF Slots, Indices

\* total_active is the number of valid slots: the loop of the softmax runs
\* over exactly the valid prefix of the table.
LEMMA TotalIsValidSlots ==
  ASSUME NEW counts \in [Devices -> 0 .. NB]
  PROVE  /\ ValidSlots(counts) \in [Slots -> BOOLEAN]
         /\ SumOver(counts) = NumActive(ValidSlots(counts), P * NB)
<1> DEFINE valid == {s \in Slots : ValidSlots(counts)[s]}
           sent  == UNION {{d} \X (0 .. (counts[d] - 1)) : d \in Devices}
           split == [s \in valid |-> <<s \div NB, s % NB>>]
<1>1. ValidSlots(counts) \in [Slots -> BOOLEAN]
  BY DEF ValidSlots
<1>2. IsFiniteSet(valid)
  BY SlotsAreIndices, IndicesFinite, FS_Subset
<1>3. \A x : x \in sent <=> \E d \in Devices : \E j \in 0 .. (counts[d] - 1) : x = <<d, j>>
  OBVIOUS
<1>4. ASSUME NEW s \in valid
      PROVE  split[s] \in sent
  <2>1. s \div NB \in Devices /\ s % NB \in LocalBlocks
    BY SlotSplits
  <2>2. s % NB \in 0 .. (counts[s \div NB] - 1)
    <3>1. s % NB < counts[s \div NB]
      BY DEF ValidSlots
    <3>2. counts[s \div NB] \in 0 .. NB /\ s % NB \in 0 .. (NB - 1)
      BY <2>1 DEF LocalBlocks, Indices
    <3> QED
      BY <3>1, <3>2, NBIsPositive
  <2> QED
    BY <1>3, <2>1, <2>2
<1>5. ASSUME NEW s \in valid, NEW t \in valid, split[s] = split[t]
      PROVE  s = t
  <2>1. s \div NB = t \div NB /\ s % NB = t % NB
    BY <1>5
  <2>2. /\ s = (s \div NB) * NB + (s % NB)
        /\ t = (t \div NB) * NB + (t % NB)
    BY SlotSplits
  <2> QED
    BY <2>1, <2>2, Zenon
<1>6. ASSUME NEW x \in sent
      PROVE  \E s \in valid : split[s] = x
  <2>0. PICK d \in Devices : \E k \in 0 .. (counts[d] - 1) : x = <<d, k>>
    BY <1>3
  <2>1. PICK j \in 0 .. (counts[d] - 1) : x = <<d, j>>
    BY <2>0
  <2>2. j \in LocalBlocks /\ j < counts[d]
    BY NBIsPositive DEF LocalBlocks, Indices
  <2>3. d * NB + j \in Slots /\ (d * NB + j) \div NB = d /\ (d * NB + j) % NB = j
    BY <2>2, SlotJoins
  <2>4. d * NB + j \in valid
    BY <2>2, <2>3 DEF ValidSlots
  <2> QED
    BY <2>1, <2>3, <2>4
<1>7. split \in [valid -> sent]
  BY <1>4
<1>8. split \in Bijection(valid, sent)
  BY <1>5, <1>6, <1>7 DEF Bijection, Injection, Surjection, IsInjective
<1>9. Cardinality(sent) = Cardinality(valid)
  BY <1>2, <1>8, FS_Bijection DEF ExistsBijection
<1> QED
  BY <1>1, <1>9, SlotsAreIndices DEF SumOver, NumActive

\* The shapes of a call's arrays.
LEMMA CallData ==
  ASSUME NEW m \in [Devices -> [LocalBlocks -> BOOLEAN]]
  PROVE  /\ CountsOf(m) \in [Devices -> 0 .. NB]
         /\ \A d \in Devices : ActiveIndices(m[d], NB) \in [LocalBlocks -> LocalBlocks]
         /\ PackedOf(m) \in [Devices -> [LocalBlocks -> Blocks \cup {ZeroBlock}]]
         /\ GatheredOf(m) \in GatheredBlocks
         /\ TableOf(m) \in [Slots -> Slots]
         /\ SumOver(CountsOf(m)) \in 0 .. (P * NB)
<1>1. NB \in Nat
  BY NBIsPositive
<1>2. \A d \in Devices : /\ NumActive(m[d], NB) \in 0 .. NB
                         /\ ActiveIndices(m[d], NB) \in [LocalBlocks -> LocalBlocks]
  BY <1>1, ActiveIndicesCorrect DEF LocalBlocks
<1>3. CountsOf(m) \in [Devices -> 0 .. NB]
  BY <1>2 DEF CountsOf
<1>4. PackedOf(m) \in [Devices -> [LocalBlocks -> Blocks \cup {ZeroBlock}]]
  BY <1>2 DEF PackedOf, PackActiveBlocks, Blocks
<1>5. GatheredOf(m) \in GatheredBlocks
  <2>1. GatheredOf(m) = [s \in Slots |-> PackedOf(m)[s \div NB][s % NB]]
    BY DEF GatheredOf, TiledGather, Slots
  <2> QED
    BY <1>4, <2>1, SlotSplits DEF GatheredBlocks
<1>6. /\ ValidSlots(CountsOf(m)) \in [Slots -> BOOLEAN]
      /\ SumOver(CountsOf(m)) = NumActive(ValidSlots(CountsOf(m)), P * NB)
  BY <1>3, TotalIsValidSlots
<1>7. /\ TableOf(m) \in [Slots -> Slots]
      /\ SumOver(CountsOf(m)) \in 0 .. (P * NB)
  BY <1>6, SlotsAreIndices, ActiveIndicesCorrect
     DEF TableOf, IndirectionTable, ActiveIndices
<1> QED
  BY <1>2, <1>3, <1>4, <1>5, <1>7

\* The block a slot of the gathered buffer holds: a retained block of the
\* chunk's device if the slot is valid, padding otherwise.
LEMMA SlotContent ==
  ASSUME NEW m \in [Devices -> [LocalBlocks -> BOOLEAN]], NEW s \in Slots
  PROVE  /\ s \div NB \in Devices
         /\ s % NB \in LocalBlocks
         /\ ValidSlots(CountsOf(m))[s] <=> s % NB < NumActive(m[s \div NB], NB)
         /\ ValidSlots(CountsOf(m))[s] =>
              GatheredOf(m)[s] = <<s \div NB, ActiveIndices(m[s \div NB], NB)[s % NB]>>
<1>1. s \div NB \in Devices /\ s % NB \in LocalBlocks
  BY SlotSplits
<1>2. ValidSlots(CountsOf(m))[s] <=> s % NB < NumActive(m[s \div NB], NB)
  BY <1>1 DEF ValidSlots, CountsOf
<1>3. GatheredOf(m)[s] = PackedOf(m)[s \div NB][s % NB]
  BY DEF GatheredOf, TiledGather, Slots
<1>4. ValidSlots(CountsOf(m))[s] =>
        PackedOf(m)[s \div NB][s % NB]
          = <<s \div NB, ActiveIndices(m[s \div NB], NB)[s % NB]>>
  BY <1>1, <1>2 DEF PackedOf, PackActiveBlocks
<1> QED
  BY <1>1, <1>2, <1>3, <1>4

\* Routing: the prefix of the table that the loop reads leads, through the
\* gathered buffer, to every retained block of every device, once each.
THEOREM Routing ==
  ASSUME NEW m \in [Devices -> [LocalBlocks -> BOOLEAN]]
  PROVE  LET read == 0 .. (SumOver(CountsOf(m)) - 1)
             at(i) == GatheredOf(m)[TableOf(m)[i]]
         IN  /\ \A i \in read : at(i) \in ActiveOf(m)
             /\ \A i, j \in read : at(i) = at(j) => i = j
             /\ \A b \in ActiveOf(m) : \E i \in read : at(i) = b
<1> DEFINE counts == CountsOf(m)
           valid  == ValidSlots(counts)
           total  == SumOver(counts)
           tab    == TableOf(m)
           all    == GatheredOf(m)
           idx(d) == ActiveIndices(m[d], NB)
<1>1. /\ valid \in [Slots -> BOOLEAN]
      /\ total = NumActive(valid, P * NB)
  BY CallData, TotalIsValidSlots
<1>2. /\ total \in 0 .. (P * NB)
      /\ tab \in [Slots -> Slots]
      /\ \A i \in Slots : valid[tab[i]] <=> i < total
      /\ \A i, j \in Slots : tab[i] = tab[j] => i = j
      /\ \A s \in Slots : valid[s] => \E i \in Slots : i < total /\ tab[i] = s
  BY <1>1, SlotsAreIndices, ActiveIndicesCorrect
     DEF TableOf, IndirectionTable, ActiveIndices
<1>3. \A d \in Devices :
        /\ idx(d) \in [LocalBlocks -> LocalBlocks]
        /\ \A j \in LocalBlocks : m[d][idx(d)[j]] <=> j < NumActive(m[d], NB)
        /\ \A i, j \in LocalBlocks : idx(d)[i] = idx(d)[j] => i = j
        /\ \A b \in LocalBlocks :
             m[d][b] => \E j \in LocalBlocks : j < NumActive(m[d], NB) /\ idx(d)[j] = b
  BY NBIsPositive, ActiveIndicesCorrect DEF LocalBlocks
<1>4. \A i \in 0 .. (total - 1) : i \in Slots /\ tab[i] \in Slots /\ valid[tab[i]]
  BY <1>2, SlotsAreIndices DEF Indices
<1>5. \A s \in Slots :
        /\ s \div NB \in Devices
        /\ s % NB \in LocalBlocks
        /\ valid[s] <=> s % NB < NumActive(m[s \div NB], NB)
        /\ valid[s] => all[s] = <<s \div NB, idx(s \div NB)[s % NB]>>
  BY SlotContent
<1> HIDE DEF counts, valid, total, tab, all, idx
<1>6. ASSUME NEW s \in Slots, valid[s]
      PROVE  all[s] \in ActiveOf(m)
  <2> DEFINE d == s \div NB
             j == s % NB
  <2>1. /\ d \in Devices /\ j \in LocalBlocks
        /\ j < NumActive(m[d], NB) /\ all[s] = <<d, idx(d)[j]>>
    BY <1>5, <1>6
  <2> HIDE DEF d, j
  <2>2. idx(d)[j] \in LocalBlocks /\ m[d][idx(d)[j]]
    BY <1>3, <2>1
  <2> QED
    BY <2>1, <2>2 DEF ActiveOf, Blocks
<1>7. ASSUME NEW s \in Slots, NEW t \in Slots, valid[s], valid[t], all[s] = all[t]
      PROVE  s = t
  <2>1. /\ s \div NB = t \div NB
        /\ idx(s \div NB)[s % NB] = idx(t \div NB)[t % NB]
    BY <1>5, <1>7
  <2>2. s % NB = t % NB
    BY <1>3, <1>5, <2>1
  <2>3. /\ s = (s \div NB) * NB + (s % NB)
        /\ t = (t \div NB) * NB + (t % NB)
    BY SlotSplits
  <2> QED
    BY <2>1, <2>2, <2>3, Zenon
<1>8. ASSUME NEW b \in ActiveOf(m)
      PROVE  \E s \in Slots : valid[s] /\ all[s] = b
  <2>1. PICK d \in Devices, c \in LocalBlocks : b = <<d, c>> /\ m[d][c]
    BY DEF ActiveOf, Blocks
  <2>2. PICK j \in LocalBlocks : j < NumActive(m[d], NB) /\ idx(d)[j] = c
    BY <1>3, <2>1
  <2>3. /\ d * NB + j \in Slots
        /\ (d * NB + j) \div NB = d
        /\ (d * NB + j) % NB = j
    BY SlotJoins
  <2> QED
    BY <1>5, <2>1, <2>2, <2>3
<1>9. \A i \in 0 .. (total - 1) : all[tab[i]] \in ActiveOf(m)
  BY <1>4, <1>6
<1>10. \A i, j \in 0 .. (total - 1) : all[tab[i]] = all[tab[j]] => i = j
  BY <1>2, <1>4, <1>7
<1>11. \A b \in ActiveOf(m) : \E i \in 0 .. (total - 1) : all[tab[i]] = b
  <2> SUFFICES ASSUME NEW b \in ActiveOf(m)
               PROVE  \E i \in 0 .. (total - 1) : all[tab[i]] = b
    OBVIOUS
  <2>1. PICK s \in Slots : valid[s] /\ all[s] = b
    BY <1>8
  <2>2. PICK i \in Slots : i < total /\ tab[i] = s
    BY <1>2, <2>1
  <2>3. i \in 0 .. (total - 1)
    BY <1>2, <2>2 DEF Slots
  <2> QED
    BY <2>1, <2>2, <2>3
<1> QED
  BY <1>9, <1>10, <1>11 DEF counts, total, tab, all

-----------------------------------------------------------------------------
(* Part 2: whatever the interleaving, IInv holds.                          *)

\* No device has started: every register and channel is empty.
LEMMA InitIInv == Init => IInv
<1> SUFFICES ASSUME Init
             PROVE  IInv
  OBVIOUS
<1>1. TypeOK
  BY PIsPositive, NBIsPositive, CallsIsNat
     DEF Init, TypeOK, EmptyChannel, Steps, OptionalOf
<1>2. \A d \in Devices : RegistersDetermined(d) /\ LoopDetermined(d)
  BY DEF Init, RegistersDetermined, LoopDetermined,
         HasOrder, HasPacked, HasCounts, HasKeys, HasValues
<1>3. \A c \in 1 .. Calls : \A d \in Devices :
        OperandsDetermined(c, d) /\ OutputDetermined(c, d)
  BY DEF Init, OperandsDetermined, OutputDetermined, EmptyChannel
<1> QED
  BY <1>1, <1>2, <1>3 DEF IInv

\* The shapes of the arrays of the call a device is running.
LEMMA CallOfDevice ==
  ASSUME TypeOK, NEW c \in 1 .. Calls
  PROVE  /\ mask[c] \in [Devices -> [LocalBlocks -> BOOLEAN]]
         /\ CountsOf(mask[c]) \in [Devices -> 0 .. NB]
         /\ \A d \in Devices :
              /\ ActiveIndices(mask[c][d], NB) \in [LocalBlocks -> LocalBlocks]
              /\ NumActive(mask[c][d], NB) \in 0 .. NB
         /\ PackedOf(mask[c]) \in [Devices -> [LocalBlocks -> Blocks \cup {ZeroBlock}]]
         /\ GatheredOf(mask[c]) \in GatheredBlocks
         /\ TableOf(mask[c]) \in [Slots -> Slots]
         /\ SumOver(CountsOf(mask[c])) \in 0 .. (P * NB)
<1>1. mask[c] \in [Devices -> [LocalBlocks -> BOOLEAN]]
  BY DEF TypeOK
<1>2. \A d \in Devices : NumActive(mask[c][d], NB) = CountsOf(mask[c])[d]
  BY DEF CountsOf
<1> QED
  BY <1>1, <1>2, CallData

\* The compacted indices and their number are those of this call's mask.
LEMMA CompactIInv ==
  ASSUME IInv, NEW d \in Devices, Compact(d)
  PROVE  IInv'
<1> USE DEF Compact, Goto, locals, channels
<1>1. TypeOK /\ call[d] \in 1 .. Calls /\ RegistersDetermined(d)
  BY DEF IInv
<1>2. mask' = mask
  OBVIOUS
<1>3. /\ ActiveIndices(mask[call[d]][d], NB) \in [LocalBlocks -> LocalBlocks]
      /\ NumActive(mask[call[d]][d], NB) \in 0 .. NB
  BY <1>1, CallOfDevice
<1>4. TypeOK'
  BY <1>1, <1>2, <1>3 DEF TypeOK, OptionalOf, Steps
<1>5. \A e \in Devices : RegistersDetermined(e)'
  BY <1>1, <1>2, <1>3 DEF IInv, TypeOK, RegistersDetermined, HasOrder, HasPacked, HasCounts, HasKeys, HasValues, Steps
<1>6. \A e \in Devices : LoopDetermined(e)'
  BY <1>1, <1>2 DEF IInv, TypeOK, LoopDetermined, RegistersDetermined, HasOrder, HasPacked, HasCounts, HasKeys, HasValues, Steps
<1>7. \A c \in 1 .. Calls : \A e \in Devices : OperandsDetermined(c, e)'
  BY <1>1, <1>2, <1>3 DEF IInv, TypeOK, OperandsDetermined
<1>8. \A c \in 1 .. Calls : \A e \in Devices : OutputDetermined(c, e)'
  BY <1>2 DEF IInv, OutputDetermined, ActiveBlocks
<1> QED
  BY <1>4, <1>5, <1>6, <1>7, <1>8 DEF IInv

\* Both buffers are packed with the indices of this call.
LEMMA PackIInv ==
  ASSUME IInv, NEW d \in Devices, Pack(d)
  PROVE  IInv'
<1> USE DEF Pack, Goto, locals, channels
<1>1. TypeOK /\ call[d] \in 1 .. Calls /\ RegistersDetermined(d)
  BY DEF IInv
<1>2. mask' = mask
  OBVIOUS
<1>3. PackActiveBlocks(d, order[d], numActive[d]) = PackedOf(mask[call[d]])[d]
  BY <1>1 DEF PackedOf, RegistersDetermined, HasOrder, HasPacked, HasCounts, HasKeys, HasValues, Steps
<1>4. PackedOf(mask[call[d]])[d] \in [LocalBlocks -> Blocks \cup {ZeroBlock}]
  BY <1>1, CallOfDevice
<1>5. TypeOK'
  BY <1>1, <1>2, <1>3, <1>4 DEF TypeOK, OptionalOf, Steps
<1>6. \A e \in Devices : RegistersDetermined(e)'
  BY <1>1, <1>2, <1>3, <1>4 DEF IInv, TypeOK, RegistersDetermined, HasOrder, HasPacked, HasCounts, HasKeys, HasValues, Steps
<1>7. \A e \in Devices : LoopDetermined(e)'
  BY <1>1, <1>2 DEF IInv, TypeOK, LoopDetermined, RegistersDetermined, HasOrder, HasPacked, HasCounts, HasKeys, HasValues, Steps
<1>8. \A c \in 1 .. Calls : \A e \in Devices : OperandsDetermined(c, e)'
  BY <1>1, <1>2, <1>3, <1>4 DEF IInv, TypeOK, OperandsDetermined
<1>9. \A c \in 1 .. Calls : \A e \in Devices : OutputDetermined(c, e)'
  BY <1>2 DEF IInv, OutputDetermined, ActiveBlocks
<1> QED
  BY <1>5, <1>6, <1>7, <1>8, <1>9 DEF IInv

\* The count a device posts is that of the call it posts it for.
LEMMA PostCountsIInv ==
  ASSUME IInv, NEW d \in Devices, PostCounts(d)
  PROVE  IInv'
<1> USE DEF PostCounts, Goto, locals, channels
<1>1. TypeOK /\ call[d] \in 1 .. Calls /\ RegistersDetermined(d)
  BY DEF IInv
<1>2. mask' = mask
  OBVIOUS
<1>3. /\ numActive[d] = CountsOf(mask[call[d]])[d]
      /\ numActive[d] \in 0 .. NB
  BY <1>1, CallOfDevice DEF CountsOf, RegistersDetermined, HasOrder, HasPacked, HasCounts, HasKeys, HasValues, Steps
<1>4. TypeOK'
  BY <1>1, <1>2, <1>3 DEF TypeOK, OptionalOf, Steps, Post
<1>5. \A e \in Devices : RegistersDetermined(e)'
  BY <1>1, <1>2, <1>3 DEF IInv, TypeOK, RegistersDetermined, HasOrder, HasPacked, HasCounts, HasKeys, HasValues, Steps
<1>6. \A e \in Devices : LoopDetermined(e)'
  BY <1>1, <1>2 DEF IInv, TypeOK, LoopDetermined, RegistersDetermined, HasOrder, HasPacked, HasCounts, HasKeys, HasValues, Steps
<1>7. \A c \in 1 .. Calls : \A e \in Devices : OperandsDetermined(c, e)'
  BY <1>1, <1>2, <1>3 DEF IInv, TypeOK, OperandsDetermined, Post
<1>8. \A c \in 1 .. Calls : \A e \in Devices : OutputDetermined(c, e)'
  BY <1>2 DEF IInv, OutputDetermined, ActiveBlocks
<1> QED
  BY <1>4, <1>5, <1>6, <1>7, <1>8 DEF IInv

\* A complete gather holds every device's count for this very call.
LEMMA AwaitCountsIInv ==
  ASSUME IInv, NEW d \in Devices, AwaitCounts(d)
  PROVE  IInv'
<1> USE DEF AwaitCounts, Goto, locals, channels
<1>1. TypeOK /\ call[d] \in 1 .. Calls /\ RegistersDetermined(d)
  BY DEF IInv
<1>2. mask' = mask
  OBVIOUS
<1>3. countsCh[call[d]] = CountsOf(mask[call[d]])
  BY <1>1 DEF IInv, TypeOK, OperandsDetermined, Complete, CountsOf
<1>4. CountsOf(mask[call[d]]) \in [Devices -> 0 .. NB]
  BY <1>1, CallOfDevice
<1>5. TypeOK'
  BY <1>1, <1>2, <1>3, <1>4 DEF TypeOK, OptionalOf, Steps
<1>6. \A e \in Devices : RegistersDetermined(e)'
  BY <1>1, <1>2, <1>3, <1>4 DEF IInv, TypeOK, RegistersDetermined, HasOrder, HasPacked, HasCounts, HasKeys, HasValues, Steps
<1>7. \A e \in Devices : LoopDetermined(e)'
  BY <1>1, <1>2 DEF IInv, TypeOK, LoopDetermined, RegistersDetermined, HasOrder, HasPacked, HasCounts, HasKeys, HasValues, Steps
<1>8. \A c \in 1 .. Calls : \A e \in Devices : OperandsDetermined(c, e)'
  BY <1>1, <1>2, <1>3, <1>4 DEF IInv, TypeOK, OperandsDetermined
<1>9. \A c \in 1 .. Calls : \A e \in Devices : OutputDetermined(c, e)'
  BY <1>2 DEF IInv, OutputDetermined, ActiveBlocks
<1> QED
  BY <1>5, <1>6, <1>7, <1>8, <1>9 DEF IInv

\* The packed keys a device posts are those of the call it posts them for.
LEMMA PostKeysIInv ==
  ASSUME IInv, NEW d \in Devices, PostKeys(d)
  PROVE  IInv'
<1> USE DEF PostKeys, Goto, locals, channels
<1>1. TypeOK /\ call[d] \in 1 .. Calls /\ RegistersDetermined(d)
  BY DEF IInv
<1>2. mask' = mask
  OBVIOUS
<1>3. /\ kPacked[d] = PackedOf(mask[call[d]])[d]
      /\ kPacked[d] \in [LocalBlocks -> Blocks \cup {ZeroBlock}]
  BY <1>1, CallOfDevice DEF RegistersDetermined, HasOrder, HasPacked, HasCounts, HasKeys, HasValues, Steps
<1>4. TypeOK'
  BY <1>1, <1>2, <1>3 DEF TypeOK, OptionalOf, Steps, Post
<1>5. \A e \in Devices : RegistersDetermined(e)'
  BY <1>1, <1>2, <1>3 DEF IInv, TypeOK, RegistersDetermined, HasOrder, HasPacked, HasCounts, HasKeys, HasValues, Steps
<1>6. \A e \in Devices : LoopDetermined(e)'
  BY <1>1, <1>2 DEF IInv, TypeOK, LoopDetermined, RegistersDetermined, HasOrder, HasPacked, HasCounts, HasKeys, HasValues, Steps
<1>7. \A c \in 1 .. Calls : \A e \in Devices : OperandsDetermined(c, e)'
  BY <1>1, <1>2, <1>3 DEF IInv, TypeOK, OperandsDetermined, Post
<1>8. \A c \in 1 .. Calls : \A e \in Devices : OutputDetermined(c, e)'
  BY <1>2 DEF IInv, OutputDetermined, ActiveBlocks
<1> QED
  BY <1>4, <1>5, <1>6, <1>7, <1>8 DEF IInv

\* A complete gather of the keys is the concatenation of this call's buffers.
LEMMA AwaitKeysIInv ==
  ASSUME IInv, NEW d \in Devices, AwaitKeys(d)
  PROVE  IInv'
<1> USE DEF AwaitKeys, Goto, locals, channels
<1>1. TypeOK /\ call[d] \in 1 .. Calls /\ RegistersDetermined(d)
  BY DEF IInv
<1>2. mask' = mask
  OBVIOUS
<1>3. PackedOf(mask[call[d]]) \in [Devices -> [LocalBlocks -> Blocks \cup {ZeroBlock}]]
  BY <1>1, CallOfDevice
<1>4. keysCh[call[d]] = PackedOf(mask[call[d]])
  BY <1>1, <1>3 DEF IInv, TypeOK, OperandsDetermined, Complete
<1>5. /\ TiledGather(keysCh[call[d]], NB) = GatheredOf(mask[call[d]])
      /\ GatheredOf(mask[call[d]]) \in GatheredBlocks
  BY <1>1, <1>4, CallOfDevice DEF GatheredOf
<1>6. TypeOK'
  BY <1>1, <1>2, <1>3, <1>4, <1>5 DEF TypeOK, OptionalOf, Steps
<1>7. \A e \in Devices : RegistersDetermined(e)'
  BY <1>1, <1>2, <1>3, <1>4, <1>5 DEF IInv, TypeOK, RegistersDetermined, HasOrder, HasPacked, HasCounts, HasKeys, HasValues, Steps
<1>8. \A e \in Devices : LoopDetermined(e)'
  BY <1>1, <1>2 DEF IInv, TypeOK, LoopDetermined, RegistersDetermined, HasOrder, HasPacked, HasCounts, HasKeys, HasValues, Steps
<1>9. \A c \in 1 .. Calls : \A e \in Devices : OperandsDetermined(c, e)'
  BY <1>1, <1>2, <1>3, <1>4, <1>5 DEF IInv, TypeOK, OperandsDetermined
<1>10. \A c \in 1 .. Calls : \A e \in Devices : OutputDetermined(c, e)'
  BY <1>2 DEF IInv, OutputDetermined, ActiveBlocks
<1> QED
  BY <1>6, <1>7, <1>8, <1>9, <1>10 DEF IInv

\* The packed values a device posts are those of the call it posts them for.
LEMMA PostValuesIInv ==
  ASSUME IInv, NEW d \in Devices, PostValues(d)
  PROVE  IInv'
<1> USE DEF PostValues, Goto, locals, channels
<1>1. TypeOK /\ call[d] \in 1 .. Calls /\ RegistersDetermined(d)
  BY DEF IInv
<1>2. mask' = mask
  OBVIOUS
<1>3. /\ vPacked[d] = PackedOf(mask[call[d]])[d]
      /\ vPacked[d] \in [LocalBlocks -> Blocks \cup {ZeroBlock}]
  BY <1>1, CallOfDevice DEF RegistersDetermined, HasOrder, HasPacked, HasCounts, HasKeys, HasValues, Steps
<1>4. TypeOK'
  BY <1>1, <1>2, <1>3 DEF TypeOK, OptionalOf, Steps, Post
<1>5. \A e \in Devices : RegistersDetermined(e)'
  BY <1>1, <1>2, <1>3 DEF IInv, TypeOK, RegistersDetermined, HasOrder, HasPacked, HasCounts, HasKeys, HasValues, Steps
<1>6. \A e \in Devices : LoopDetermined(e)'
  BY <1>1, <1>2 DEF IInv, TypeOK, LoopDetermined, RegistersDetermined, HasOrder, HasPacked, HasCounts, HasKeys, HasValues, Steps
<1>7. \A c \in 1 .. Calls : \A e \in Devices : OperandsDetermined(c, e)'
  BY <1>1, <1>2, <1>3 DEF IInv, TypeOK, OperandsDetermined, Post
<1>8. \A c \in 1 .. Calls : \A e \in Devices : OutputDetermined(c, e)'
  BY <1>2 DEF IInv, OutputDetermined, ActiveBlocks
<1> QED
  BY <1>4, <1>5, <1>6, <1>7, <1>8 DEF IInv

\* A complete gather of the values is the concatenation of this call's buffers.
LEMMA AwaitValuesIInv ==
  ASSUME IInv, NEW d \in Devices, AwaitValues(d)
  PROVE  IInv'
<1> USE DEF AwaitValues, Goto, locals, channels
<1>1. TypeOK /\ call[d] \in 1 .. Calls /\ RegistersDetermined(d)
  BY DEF IInv
<1>2. mask' = mask
  OBVIOUS
<1>3. PackedOf(mask[call[d]]) \in [Devices -> [LocalBlocks -> Blocks \cup {ZeroBlock}]]
  BY <1>1, CallOfDevice
<1>4. valuesCh[call[d]] = PackedOf(mask[call[d]])
  BY <1>1, <1>3 DEF IInv, TypeOK, OperandsDetermined, Complete
<1>5. /\ TiledGather(valuesCh[call[d]], NB) = GatheredOf(mask[call[d]])
      /\ GatheredOf(mask[call[d]]) \in GatheredBlocks
  BY <1>1, <1>4, CallOfDevice DEF GatheredOf
<1>6. TypeOK'
  BY <1>1, <1>2, <1>3, <1>4, <1>5 DEF TypeOK, OptionalOf, Steps
<1>7. \A e \in Devices : RegistersDetermined(e)'
  BY <1>1, <1>2, <1>3, <1>4, <1>5 DEF IInv, TypeOK, RegistersDetermined, HasOrder, HasPacked, HasCounts, HasKeys, HasValues, Steps
<1>8. \A e \in Devices : LoopDetermined(e)'
  BY <1>1, <1>2 DEF IInv, TypeOK, LoopDetermined, RegistersDetermined, HasOrder, HasPacked, HasCounts, HasKeys, HasValues, Steps
<1>9. \A c \in 1 .. Calls : \A e \in Devices : OperandsDetermined(c, e)'
  BY <1>1, <1>2, <1>3, <1>4, <1>5 DEF IInv, TypeOK, OperandsDetermined
<1>10. \A c \in 1 .. Calls : \A e \in Devices : OutputDetermined(c, e)'
  BY <1>2 DEF IInv, OutputDetermined, ActiveBlocks
<1> QED
  BY <1>6, <1>7, <1>8, <1>9, <1>10 DEF IInv

\* The table is built from this call's counts.
LEMMA BuildTableIInv ==
  ASSUME IInv, NEW d \in Devices, BuildTable(d)
  PROVE  IInv'
<1> USE DEF BuildTable, Goto, locals, channels
<1>1. TypeOK /\ call[d] \in 1 .. Calls /\ RegistersDetermined(d)
  BY DEF IInv
<1>2. mask' = mask
  OBVIOUS
<1>3. /\ IndirectionTable(allCounts[d]) = TableOf(mask[call[d]])
      /\ TableOf(mask[call[d]]) \in [Slots -> Slots]
  BY <1>1, CallOfDevice DEF TableOf, RegistersDetermined, HasOrder, HasPacked, HasCounts, HasKeys, HasValues, Steps
<1>4. TypeOK'
  BY <1>1, <1>2, <1>3 DEF TypeOK, OptionalOf, Steps
<1>5. \A e \in Devices : RegistersDetermined(e)'
  BY <1>1, <1>2, <1>3 DEF IInv, TypeOK, RegistersDetermined, HasOrder, HasPacked, HasCounts, HasKeys, HasValues, Steps
<1>6. \A e \in Devices : LoopDetermined(e)'
  BY <1>1, <1>2 DEF IInv, TypeOK, LoopDetermined, RegistersDetermined, HasOrder, HasPacked, HasCounts, HasKeys, HasValues, Steps
<1>7. \A c \in 1 .. Calls : \A e \in Devices : OperandsDetermined(c, e)'
  BY <1>1, <1>2, <1>3 DEF IInv, TypeOK, OperandsDetermined
<1>8. \A c \in 1 .. Calls : \A e \in Devices : OutputDetermined(c, e)'
  BY <1>2 DEF IInv, OutputDetermined, ActiveBlocks
<1> QED
  BY <1>4, <1>5, <1>6, <1>7, <1>8 DEF IInv

\* One more iteration folds the block of the next table entry.
LEMMA AttendIInv ==
  ASSUME IInv, NEW d \in Devices, Attend(d)
  PROVE  IInv'
<1> USE DEF Attend, Goto, locals, channels
<1>1. TypeOK /\ call[d] \in 1 .. Calls /\ RegistersDetermined(d)
  BY DEF IInv
<1>2. mask' = mask
  OBVIOUS
<1>3. /\ allCounts[d] = CountsOf(mask[call[d]]) /\ table[d] = TableOf(mask[call[d]])
      /\ kAll[d] = GatheredOf(mask[call[d]]) /\ vAll[d] = GatheredOf(mask[call[d]])
  BY <1>1 DEF RegistersDetermined, HasOrder, HasPacked, HasCounts, HasKeys, HasValues, Steps
<1>4. acc' = [acc EXCEPT ![d] = Append(@, <<GatheredOf(mask[call[d]])[TableOf(mask[call[d]])[Len(acc[d])]], GatheredOf(mask[call[d]])[TableOf(mask[call[d]])[Len(acc[d])]]>>)]
  BY <1>3
<1>5. /\ acc[d] \in Seq((Blocks \cup {ZeroBlock}) \X (Blocks \cup {ZeroBlock}))
      /\ Len(acc[d]) \in Nat
  BY <1>1 DEF TypeOK
<1>6. Len(acc[d]) < SumOver(CountsOf(mask[call[d]])) /\ SumOver(CountsOf(mask[call[d]])) \in 0 .. (P * NB)
  BY <1>1, <1>3, CallOfDevice
<1>7. GatheredOf(mask[call[d]])[TableOf(mask[call[d]])[Len(acc[d])]] \in Blocks \cup {ZeroBlock}
  <2>1. Len(acc[d]) \in Slots
    BY <1>5, <1>6, SlotsAreIndices DEF Slots
  <2>2. /\ TableOf(mask[call[d]]) \in [Slots -> Slots]
        /\ GatheredOf(mask[call[d]]) \in [Slots -> Blocks \cup {ZeroBlock}]
    BY <1>1, CallOfDevice DEF GatheredBlocks
  <2> HIDE DEF Attend, Goto
  <2> QED
    BY <2>1, <2>2
<1>8. TypeOK'
  BY <1>1, <1>2, <1>3, <1>4, <1>5, <1>6, <1>7 DEF TypeOK, OptionalOf, Steps
<1>9. \A e \in Devices : RegistersDetermined(e)'
  BY <1>1, <1>2, <1>3, <1>4, <1>5, <1>6, <1>7 DEF IInv, TypeOK, RegistersDetermined, HasOrder, HasPacked, HasCounts, HasKeys, HasValues, Steps
<1>10. \A e \in Devices : LoopDetermined(e)'
  <2> SUFFICES ASSUME NEW e \in Devices
               PROVE  LoopDetermined(e)'
    OBVIOUS
  <2>1. CASE e # d
    BY <1>1, <1>2, <2>1 DEF IInv, TypeOK, LoopDetermined
  <2>2. CASE e = d
    <3>1. acc'[d] = Append(acc[d], <<GatheredOf(mask[call[d]])[TableOf(mask[call[d]])[Len(acc[d])]], GatheredOf(mask[call[d]])[TableOf(mask[call[d]])[Len(acc[d])]]>>)
      BY <1>1, <1>4 DEF TypeOK
    <3>2. Len(acc'[d]) = Len(acc[d]) + 1
      BY <1>5, <3>1
    <3>3. LoopDetermined(d)
      BY DEF IInv
    <3>4. Len(acc'[d]) <= SumOver(CountsOf(mask[call[d]]))
      BY <1>5, <1>6, <3>2
    <3>5. ASSUME NEW i \in 1 .. Len(acc'[d])
          PROVE  acc'[d][i] = <<GatheredOf(mask[call[d]])[TableOf(mask[call[d]])[i - 1]],
                                GatheredOf(mask[call[d]])[TableOf(mask[call[d]])[i - 1]]>>
      <4>1. CASE i \in 1 .. Len(acc[d])
        BY <1>5, <3>1, <3>3, <4>1 DEF LoopDetermined
      <4>2. CASE i = Len(acc[d]) + 1
        BY <1>5, <3>1, <4>2
      <4> QED
        BY <1>5, <3>2, <4>1, <4>2
    <3> QED
      BY <1>1, <1>2, <2>2, <3>4, <3>5 DEF TypeOK, LoopDetermined
  <2> QED
    BY <2>1, <2>2
<1>11. \A c \in 1 .. Calls : \A e \in Devices : OperandsDetermined(c, e)'
  BY <1>1, <1>2, <1>3, <1>4, <1>5, <1>6, <1>7 DEF IInv, TypeOK, OperandsDetermined
<1>12. \A c \in 1 .. Calls : \A e \in Devices : OutputDetermined(c, e)'
  BY <1>2 DEF IInv, OutputDetermined, ActiveBlocks
<1> QED
  BY <1>8, <1>9, <1>10, <1>11, <1>12 DEF IInv

\* A finished loop has weighed every retained block of its call once, keys with
\* their own values: the loop runs over the whole valid prefix of the table.
LEMMA CompleteFold ==
  ASSUME IInv, NEW d \in Devices, Return(d)
  PROVE  Weights(acc[d]) = Promise!OnceEach(ActiveBlocks(call[d]))
<1> DEFINE m == mask[call[d]]
           total == SumOver(CountsOf(m))
           at(i) == GatheredOf(m)[TableOf(m)[i]]
           pairs == acc[d]
<1>1. /\ TypeOK /\ call[d] \in 1 .. Calls /\ pc[d] = "attend"
      /\ RegistersDetermined(d) /\ LoopDetermined(d)
      /\ Len(acc[d]) = SumOver(allCounts[d])
  BY DEF IInv, Return, Goto
<1>2. m \in [Devices -> [LocalBlocks -> BOOLEAN]] /\ total \in Nat
  BY <1>1, CallOfDevice
<1>3. Len(pairs) = total
  BY <1>1 DEF RegistersDetermined, HasOrder, HasPacked, HasCounts, Steps
<1>4. \A i \in 1 .. total : pairs[i] = <<at(i - 1), at(i - 1)>>
  BY <1>1, <1>3 DEF LoopDetermined
<1>5. /\ \A i \in 0 .. (total - 1) : at(i) \in ActiveOf(m)
      /\ \A i, j \in 0 .. (total - 1) : at(i) = at(j) => i = j
      /\ \A b \in ActiveOf(m) : \E i \in 0 .. (total - 1) : at(i) = b
  BY <1>2, Routing
<1> HIDE DEF m, total, at, pairs
<1>6. \A i \in 1 .. total : i - 1 \in 0 .. (total - 1)
  BY <1>2
<1>7. {pairs[i] : i \in 1 .. total} = {<<b, b>> : b \in ActiveOf(m)}
  <2>1. ASSUME NEW i \in 1 .. total
        PROVE  \E b \in ActiveOf(m) : pairs[i] = <<b, b>>
    BY <1>4, <1>5, <1>6
  <2>2. ASSUME NEW b \in ActiveOf(m)
        PROVE  \E i \in 1 .. total : pairs[i] = <<b, b>>
    <3>1. PICK j \in 0 .. (total - 1) : at(j) = b
      BY <1>5
    <3>2. j + 1 \in 1 .. total /\ (j + 1) - 1 = j
      BY <1>2
    <3> QED
      BY <1>4, <3>1, <3>2
  <2> QED
    BY <2>1, <2>2
<1>8. ASSUME NEW i \in 1 .. total
      PROVE  Cardinality({j \in 1 .. total : pairs[j] = pairs[i]}) = 1
  <2>1. ASSUME NEW j \in 1 .. total, pairs[j] = pairs[i]
        PROVE  j = i
    <3>1. at(j - 1) = at(i - 1)
      BY <1>4, <2>1
    <3>2. j - 1 = i - 1
      BY <1>5, <1>6, <3>1
    <3> QED
      BY <3>2
  <2>2. {j \in 1 .. total : pairs[j] = pairs[i]} = {i}
    BY <2>1
  <2> QED
    BY <2>2, FS_Singleton
<1>9. Weights(pairs) = [pair \in {pairs[i] : i \in 1 .. total} |-> 1]
  BY <1>3, <1>8 DEF Weights
<1> QED
  BY <1>7, <1>9 DEF Promise!OnceEach, ActiveBlocks, m, pairs

\* A device that returns forgets its registers.
LEMMA ReturnIInv ==
  ASSUME IInv, NEW d \in Devices, Return(d)
  PROVE  IInv'
<1> USE DEF Return, Goto, locals, channels
<1>1. TypeOK /\ call[d] \in 1 .. Calls /\ RegistersDetermined(d)
  BY DEF IInv
<1>2. mask' = mask
  OBVIOUS
<1>3. TypeOK'
  <2>1. output' = [c \in 1 .. Calls |-> [e \in Devices |-> output'[c][e]]]
    BY <1>1 DEF TypeOK
  <2>2. /\ call' \in [Devices -> 1 .. (Calls + 1)]
        /\ pc' \in [Devices -> Steps]
    BY <1>1, CallsIsNat DEF TypeOK, Steps
  <2>3. acc' \in [Devices -> Seq((Blocks \cup {ZeroBlock}) \X (Blocks \cup {ZeroBlock}))]
    BY <1>1 DEF TypeOK
  <2> QED
    BY <1>1, <1>2, <2>1, <2>2, <2>3 DEF TypeOK, OptionalOf
<1>4. \A e \in Devices : RegistersDetermined(e)'
  BY <1>1, <1>2 DEF IInv, TypeOK, RegistersDetermined, HasOrder, HasPacked, HasCounts, HasKeys, HasValues, Steps
<1>5. \A e \in Devices : LoopDetermined(e)'
  BY <1>1, <1>2 DEF IInv, TypeOK, LoopDetermined, RegistersDetermined, HasOrder, HasPacked, HasCounts, HasKeys, HasValues, Steps
<1>6. \A c \in 1 .. Calls : \A e \in Devices : OperandsDetermined(c, e)'
  BY <1>1, <1>2 DEF IInv, TypeOK, OperandsDetermined
<1>7. \A c \in 1 .. Calls : \A e \in Devices : OutputDetermined(c, e)'
  <2>1. Weights(acc[d]) = Promise!OnceEach(ActiveBlocks(call[d]))
    BY CompleteFold
  <2> QED
    BY <1>1, <1>2, <2>1 DEF IInv, TypeOK, OutputDetermined, ActiveBlocks
<1> QED
  BY <1>3, <1>4, <1>5, <1>6, <1>7 DEF IInv

\* Nothing changes when nothing changes.
LEMMA StutterIInv ==
  ASSUME IInv, UNCHANGED vars
  PROVE  IInv'
<1> USE DEF vars, locals, channels
<1>1. TypeOK'
  BY DEF IInv, TypeOK
<1>2. \A d \in Devices : RegistersDetermined(d)' /\ LoopDetermined(d)'
  BY DEF IInv, RegistersDetermined, LoopDetermined
<1>3. \A c \in 1 .. Calls : \A d \in Devices :
        OperandsDetermined(c, d)' /\ OutputDetermined(c, d)'
  BY DEF IInv, OperandsDetermined, OutputDetermined, ActiveBlocks
<1> QED
  BY <1>1, <1>2, <1>3 DEF IInv

\* The inductive invariant holds for every number of devices, blocks and calls.
THEOREM InductiveInvariant == Spec => []IInv
<1>1. IInv /\ [Next]_vars => IInv'
  <2> SUFFICES ASSUME IInv, [Next]_vars
               PROVE  IInv'
    OBVIOUS
  <2>1. ASSUME NEW d \in Devices, Compact(d)
        PROVE  IInv'
    BY <2>1, CompactIInv
  <2>2. ASSUME NEW d \in Devices, Pack(d)
        PROVE  IInv'
    BY <2>2, PackIInv
  <2>3. ASSUME NEW d \in Devices, PostCounts(d)
        PROVE  IInv'
    BY <2>3, PostCountsIInv
  <2>4. ASSUME NEW d \in Devices, AwaitCounts(d)
        PROVE  IInv'
    BY <2>4, AwaitCountsIInv
  <2>5. ASSUME NEW d \in Devices, PostKeys(d)
        PROVE  IInv'
    BY <2>5, PostKeysIInv
  <2>6. ASSUME NEW d \in Devices, AwaitKeys(d)
        PROVE  IInv'
    BY <2>6, AwaitKeysIInv
  <2>7. ASSUME NEW d \in Devices, PostValues(d)
        PROVE  IInv'
    BY <2>7, PostValuesIInv
  <2>8. ASSUME NEW d \in Devices, AwaitValues(d)
        PROVE  IInv'
    BY <2>8, AwaitValuesIInv
  <2>9. ASSUME NEW d \in Devices, BuildTable(d)
        PROVE  IInv'
    BY <2>9, BuildTableIInv
  <2>10. ASSUME NEW d \in Devices, Attend(d)
        PROVE  IInv'
    BY <2>10, AttendIInv
  <2>11. ASSUME NEW d \in Devices, Return(d)
        PROVE  IInv'
    BY <2>11, ReturnIInv
  <2>12. CASE UNCHANGED vars
    BY <2>12, StutterIInv
  <2> QED
    BY <2>1, <2>2, <2>3, <2>4, <2>5, <2>6, <2>7, <2>8, <2>9, <2>10, <2>11, <2>12
       DEF Next, Device, Finished
<1> QED
  BY <1>1, InitIInv, PTL DEF Spec

\* Every variable keeps the shape of the code's array, in every reachable state.
THEOREM TypeCorrect == Spec => []TypeOK
<1>1. IInv => TypeOK
  BY DEF IInv
<1> QED
  BY <1>1, InductiveInvariant, PTL

\* The loop of device d, in terms of the call's data alone.
LEMMA LoopReads ==
  ASSUME IInv, NEW d \in Devices, acc[d] # << >>
  PROVE  /\ call[d] \in 1 .. Calls
         /\ mask[call[d]] \in [Devices -> [LocalBlocks -> BOOLEAN]]
         /\ \A i \in 1 .. Len(acc[d]) :
              /\ i - 1 \in 0 .. (SumOver(CountsOf(mask[call[d]])) - 1)
              /\ acc[d][i] = <<GatheredOf(mask[call[d]])[TableOf(mask[call[d]])[i - 1]],
                              GatheredOf(mask[call[d]])[TableOf(mask[call[d]])[i - 1]]>>
<1>1. TypeOK /\ RegistersDetermined(d) /\ LoopDetermined(d)
  BY DEF IInv
<1>2. pc[d] = "attend" /\ call[d] \in 1 .. Calls
  BY <1>1 DEF LoopDetermined, RegistersDetermined
<1>3. /\ mask[call[d]] \in [Devices -> [LocalBlocks -> BOOLEAN]]
      /\ SumOver(CountsOf(mask[call[d]])) \in Nat
  BY <1>1, <1>2, CallOfDevice
<1>4. Len(acc[d]) \in Nat
  BY <1>1 DEF TypeOK
<1> QED
  BY <1>1, <1>2, <1>3, <1>4 DEF LoopDetermined

\* No evicted block, no padding, no mixed-up pair ever enters a softmax: the
\* table and the buffers a loop reads belong to one call, by IInv, and Routing.
THEOREM OnlyActiveAttended == Spec => []AttendsOnlyActive
<1>1. IInv => AttendsOnlyActive
  <2> SUFFICES ASSUME IInv, NEW d \in Devices, NEW i \in 1 .. Len(acc[d])
               PROVE  \E b \in ActiveBlocks(call[d]) : acc[d][i] = <<b, b>>
    BY DEF AttendsOnlyActive
  <2>1. acc[d] # << >>
    BY DEF IInv, TypeOK
  <2> QED
    BY <2>1, LoopReads, Routing DEF ActiveBlocks
<1> QED
  BY <1>1, InductiveInvariant, PTL

\* No block is weighed twice: the table is injective and so is the packing.
THEOREM NoBlockWeighedTwice == Spec => []NoBlockTwice
<1>1. IInv => NoBlockTwice
  <2> SUFFICES ASSUME IInv, NEW d \in Devices, NEW i \in 1 .. Len(acc[d]),
                      NEW j \in 1 .. Len(acc[d]), acc[d][i] = acc[d][j]
               PROVE  i = j
    BY DEF NoBlockTwice
  <2>1. acc[d] # << >>
    BY DEF IInv, TypeOK
  <2>2. i - 1 = j - 1
    BY <2>1, LoopReads, Routing
  <2>3. Len(acc[d]) \in Nat
    BY DEF IInv, TypeOK
  <2> QED
    BY <2>2, <2>3
<1> QED
  BY <1>1, InductiveInvariant, PTL

\* Devices that have returned from a call returned the same mean.
THEOREM ReturnedDevicesAgree == Spec => []DevicesAgree
<1>1. IInv => DevicesAgree
  BY DEF IInv, OutputDetermined, DevicesAgree
<1> QED
  BY <1>1, InductiveInvariant, PTL

\* The protocol implements GlobalAttention: Return maps to its Return, every
\* other step leaves the abstract state alone.
THEOREM Refinement == Spec => ImplementsGlobalAttention
<1>1. Init => Promise!Init
  BY DEF Init, Promise!Init, ActiveBlocks, ActiveOf, EmptyChannel
<1>2. ASSUME IInv, [Next]_vars
      PROVE  [Promise!Next]_Promise!vars
  <2>1. ASSUME NEW d \in Devices, Return(d)
        PROVE  Promise!Return(d)
    BY <1>2, <2>1, CompleteFold DEF Return, Goto, Promise!Return, ActiveBlocks
  <2>2. ASSUME NEW d \in Devices, Device(d), ~Return(d)
        PROVE  UNCHANGED Promise!vars
    BY <2>2 DEF Device, Promise!vars, ActiveBlocks, locals,
                Compact, Pack, PostCounts, AwaitCounts, PostKeys, AwaitKeys,
                PostValues, AwaitValues, BuildTable, Attend
  <2>3. CASE UNCHANGED vars
    BY <2>3 DEF vars, Promise!vars, ActiveBlocks
  <2> QED
    BY <1>2, <2>1, <2>2, <2>3 DEF Next, Finished, Promise!Next
<1> QED
  BY <1>1, <1>2, InductiveInvariant, PTL DEF Spec, ImplementsGlobalAttention, Promise!Spec

-----------------------------------------------------------------------------
(* Part 3: the rendezvous keep the devices within one call of each other.  *)

\* What a device posts is data, never the "nothing posted" value.
LEMMA PostedIsData ==
  ASSUME IInv, NEW d \in Devices, call[d] \in 1 .. Calls, pc[d] \in HasPacked
  PROVE  numActive[d] # Absent /\ kPacked[d] # Absent /\ vPacked[d] # Absent
<1>1. TypeOK /\ RegistersDetermined(d) /\ pc[d] \in HasOrder
  BY DEF IInv, HasPacked
<1>2. /\ NumActive(mask[call[d]][d], NB) \in 0 .. NB
      /\ PackedOf(mask[call[d]])[d] \in [LocalBlocks -> Blocks \cup {ZeroBlock}]
  BY <1>1, CallOfDevice
<1>3. NumActive(mask[call[d]][d], NB) \in Nat
  BY <1>2
<1> QED
  BY <1>1, <1>2, <1>3, AbsentIsNoData DEF RegistersDetermined

\* Compacting touches no channel and leaves the device before the first gather.
LEMMA CompactSync ==
  ASSUME IInv, SyncInv, NEW d \in Devices, Compact(d)
  PROVE  SyncInv'
<1>1. TypeOK
  BY DEF IInv
<1> QED
  BY <1>1, CallsIsNat DEF TypeOK, SyncInv, Passed, Complete, Compact, Goto, locals, channels,
     AfterCounts, AfterKeys, AfterValues, HasOrder, HasPacked, HasCounts, HasKeys, HasValues, Steps

\* Packing touches no channel either.
LEMMA PackSync ==
  ASSUME IInv, SyncInv, NEW d \in Devices, Pack(d)
  PROVE  SyncInv'
<1>1. TypeOK
  BY DEF IInv
<1> QED
  BY <1>1, CallsIsNat DEF TypeOK, SyncInv, Passed, Complete, Pack, Goto, locals, channels,
     AfterCounts, AfterKeys, AfterValues, HasOrder, HasPacked, HasCounts, HasKeys, HasValues, Steps

\* Posting the count puts the device in the first gather of its call, once.
LEMMA PostCountsSync ==
  ASSUME IInv, SyncInv, NEW d \in Devices, PostCounts(d)
  PROVE  SyncInv'
<1>1. TypeOK
  BY DEF IInv
<1> QED
  BY <1>1, PostedIsData, CallsIsNat DEF TypeOK, SyncInv, Passed, Complete, Post, PostCounts, Goto, locals, channels,
     AfterCounts, AfterKeys, AfterValues, HasOrder, HasPacked, HasCounts, HasKeys, HasValues, Steps

\* A device passes the gather of the counts only when every device has posted.
LEMMA AwaitCountsSync ==
  ASSUME IInv, SyncInv, NEW d \in Devices, AwaitCounts(d)
  PROVE  SyncInv'
<1>1. TypeOK
  BY DEF IInv
<1> QED
  BY <1>1, CallsIsNat DEF TypeOK, SyncInv, Passed, Complete, AwaitCounts, Goto, locals, channels,
     AfterCounts, AfterKeys, AfterValues, HasOrder, HasPacked, HasCounts, HasKeys, HasValues, Steps

\* Posting the keys puts the device in the second gather of its call.
LEMMA PostKeysSync ==
  ASSUME IInv, SyncInv, NEW d \in Devices, PostKeys(d)
  PROVE  SyncInv'
<1>1. TypeOK
  BY DEF IInv
<1> QED
  BY <1>1, PostedIsData, CallsIsNat DEF TypeOK, SyncInv, Passed, Complete, Post, PostKeys, Goto, locals, channels,
     AfterCounts, AfterKeys, AfterValues, HasOrder, HasPacked, HasCounts, HasKeys, HasValues, Steps

\* A device passes the gather of the keys only when every device has posted.
LEMMA AwaitKeysSync ==
  ASSUME IInv, SyncInv, NEW d \in Devices, AwaitKeys(d)
  PROVE  SyncInv'
<1>1. TypeOK
  BY DEF IInv
<1> QED
  BY <1>1, CallsIsNat DEF TypeOK, SyncInv, Passed, Complete, AwaitKeys, Goto, locals, channels,
     AfterCounts, AfterKeys, AfterValues, HasOrder, HasPacked, HasCounts, HasKeys, HasValues, Steps

\* Posting the values puts the device in the third gather of its call.
LEMMA PostValuesSync ==
  ASSUME IInv, SyncInv, NEW d \in Devices, PostValues(d)
  PROVE  SyncInv'
<1>1. TypeOK
  BY DEF IInv
<1> QED
  BY <1>1, PostedIsData, CallsIsNat DEF TypeOK, SyncInv, Passed, Complete, Post, PostValues, Goto, locals, channels,
     AfterCounts, AfterKeys, AfterValues, HasOrder, HasPacked, HasCounts, HasKeys, HasValues, Steps

\* A device passes the gather of the values only when every device has posted.
LEMMA AwaitValuesSync ==
  ASSUME IInv, SyncInv, NEW d \in Devices, AwaitValues(d)
  PROVE  SyncInv'
<1>1. TypeOK
  BY DEF IInv
<1> QED
  BY <1>1, CallsIsNat DEF TypeOK, SyncInv, Passed, Complete, AwaitValues, Goto, locals, channels,
     AfterCounts, AfterKeys, AfterValues, HasOrder, HasPacked, HasCounts, HasKeys, HasValues, Steps

\* The table is computed behind all gathers of the call.
LEMMA BuildTableSync ==
  ASSUME IInv, SyncInv, NEW d \in Devices, BuildTable(d)
  PROVE  SyncInv'
<1>1. TypeOK
  BY DEF IInv
<1> QED
  BY <1>1, CallsIsNat DEF TypeOK, SyncInv, Passed, Complete, BuildTable, Goto, locals, channels,
     AfterCounts, AfterKeys, AfterValues, HasOrder, HasPacked, HasCounts, HasKeys, HasValues, Steps

\* So is each iteration of the softmax loop.
LEMMA AttendSync ==
  ASSUME IInv, SyncInv, NEW d \in Devices, Attend(d)
  PROVE  SyncInv'
<1>1. TypeOK
  BY DEF IInv
<1> QED
  BY <1>1, CallsIsNat DEF TypeOK, SyncInv, Passed, Complete, Attend, Goto, locals, channels,
     AfterCounts, AfterKeys, AfterValues, HasOrder, HasPacked, HasCounts, HasKeys, HasValues, Steps

\* Returning moves on to the next call, whose gathers nobody has passed for this device.
LEMMA ReturnSync ==
  ASSUME IInv, SyncInv, NEW d \in Devices, Return(d)
  PROVE  SyncInv'
<1>1. TypeOK
  BY DEF IInv
<1> QED
  BY <1>1, CallsIsNat DEF TypeOK, SyncInv, Passed, Complete, Return, Goto, locals, channels,
     AfterCounts, AfterKeys, AfterValues, HasOrder, HasPacked, HasCounts, HasKeys, HasValues, Steps

\* Posting and gathering follow the program order, call after call.
THEOREM SyncInvariant == Spec => [](IInv /\ SyncInv)
<1>1. Init => SyncInv
  BY DEF Init, SyncInv, Passed, EmptyChannel, AfterCounts, AfterKeys, AfterValues, HasOrder, HasPacked, HasCounts, HasKeys, HasValues, Steps
<1>2. IInv /\ SyncInv /\ [Next]_vars => SyncInv'
  <2> SUFFICES ASSUME IInv, SyncInv, [Next]_vars
               PROVE  SyncInv'
    OBVIOUS
  <2>1. ASSUME NEW d \in Devices, Compact(d)
        PROVE  SyncInv'
    BY <2>1, CompactSync
  <2>2. ASSUME NEW d \in Devices, Pack(d)
        PROVE  SyncInv'
    BY <2>2, PackSync
  <2>3. ASSUME NEW d \in Devices, PostCounts(d)
        PROVE  SyncInv'
    BY <2>3, PostCountsSync
  <2>4. ASSUME NEW d \in Devices, AwaitCounts(d)
        PROVE  SyncInv'
    BY <2>4, AwaitCountsSync
  <2>5. ASSUME NEW d \in Devices, PostKeys(d)
        PROVE  SyncInv'
    BY <2>5, PostKeysSync
  <2>6. ASSUME NEW d \in Devices, AwaitKeys(d)
        PROVE  SyncInv'
    BY <2>6, AwaitKeysSync
  <2>7. ASSUME NEW d \in Devices, PostValues(d)
        PROVE  SyncInv'
    BY <2>7, PostValuesSync
  <2>8. ASSUME NEW d \in Devices, AwaitValues(d)
        PROVE  SyncInv'
    BY <2>8, AwaitValuesSync
  <2>9. ASSUME NEW d \in Devices, BuildTable(d)
        PROVE  SyncInv'
    BY <2>9, BuildTableSync
  <2>10. ASSUME NEW d \in Devices, Attend(d)
        PROVE  SyncInv'
    BY <2>10, AttendSync
  <2>11. ASSUME NEW d \in Devices, Return(d)
        PROVE  SyncInv'
    BY <2>11, ReturnSync
  <2>12. CASE UNCHANGED vars
    BY <2>12 DEF vars, channels, SyncInv, Passed, Complete
  <2> QED
    BY <2>1, <2>2, <2>3, <2>4, <2>5, <2>6, <2>7, <2>8, <2>9, <2>10, <2>11, <2>12
       DEF Next, Device, Finished
<1> QED
  BY <1>1, <1>2, InductiveInvariant, PTL DEF Spec

\* A device can be one call ahead of another, never two; and when it starts to
\* attend, everyone has at least posted its values for that call.
THEOREM NobodyIsLeftBehind == Spec => []NobodyLeftBehind
<1>1. IInv /\ SyncInv => NobodyLeftBehind
  <2> SUFFICES ASSUME IInv, SyncInv, NEW d \in Devices, NEW e \in Devices
               PROVE  /\ call[d] - call[e] <= 1
                      /\ pc[d] \in {"buildTable", "attend"} =>
                           \/ call[e] > call[d]
                           \/ /\ call[e] = call[d]
                              /\ pc[e] \in {"awaitValues", "buildTable", "attend"}
    BY DEF NobodyLeftBehind
  <2>1. /\ call[d] \in 1 .. (Calls + 1) /\ call[e] \in 1 .. (Calls + 1)
        /\ pc[d] \in Steps /\ pc[e] \in Steps
        /\ pc[d] # "compact" => call[d] \in 1 .. Calls
    BY DEF IInv, TypeOK, RegistersDetermined
  <2>2. ASSUME NEW c \in 1 .. Calls, Passed(c, d, HasValues)
        PROVE  Passed(c, e, AfterValues)
    BY <2>2 DEF SyncInv, Complete
  <2>3. call[d] - call[e] <= 1
    <3>1. CASE call[d] = 1
      BY <2>1, <3>1, CallsIsNat
    <3>2. CASE call[d] > 1
      <4>1. call[d] - 1 \in 1 .. Calls /\ Passed(call[d] - 1, d, HasValues)
        BY <2>1, <3>2, CallsIsNat DEF Passed
      <4>2. Passed(call[d] - 1, e, AfterValues)
        BY <2>2, <4>1
      <4> QED
        BY <2>1, <4>2, CallsIsNat DEF Passed
    <3> QED
      BY <2>1, <3>1, <3>2, CallsIsNat
  <2>4. ASSUME pc[d] \in {"buildTable", "attend"}
        PROVE  \/ call[e] > call[d]
               \/ /\ call[e] = call[d]
                  /\ pc[e] \in {"awaitValues", "buildTable", "attend"}
    <3>1. call[d] \in 1 .. Calls /\ Passed(call[d], d, HasValues)
      BY <2>1, <2>4 DEF Passed, HasOrder, HasPacked, HasCounts, HasKeys, HasValues, Steps
    <3>2. Passed(call[d], e, AfterValues)
      BY <2>2, <3>1
    <3> QED
      BY <2>1, <3>2 DEF Passed, AfterValues, HasOrder, HasPacked, HasCounts, HasKeys, HasValues, Steps
  <2> QED
    BY <2>3, <2>4
<1> QED
  BY <1>1, SyncInvariant, PTL

=============================================================================
