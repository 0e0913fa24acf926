------------------------ MODULE DistributedAttention ------------------------
(***************************************************************************)
(* distributed_orthocache_attention (distributed_attention.py), the SPMD   *)
(* program every device runs under jax.pmap:                               *)
(*                                                                         *)
(*   compact the local mask; pack the retained K and V blocks into static, *)
(*   zero-padded buffers; all_gather the counts; all_gather K; all_gather  *)
(*   V; build the global indirection table; fold the table's blocks one by *)
(*   one into the online softmax; divide by the normaliser.                *)
(*                                                                         *)
(* A block is named <<d, b>>, block b of device d's shard; keys and values *)
(* travel separately, so the pairing of a block's keys with its values is  *)
(* something the protocol has to preserve.  Arithmetic is abstracted: the  *)
(* accumulator (m, l, o) of the softmax is the sequence of (key block,     *)
(* value block) pairs folded into it.                                      *)
(***************************************************************************)
EXTENDS Collectives, StreamCompact, Sequences

CONSTANTS
  NB,         \* blocks of a local shard, local_seq \div BLOCK_SIZE
  ZeroBlock   \* a block of padding zeros

ASSUME NBIsPositive == NB \in Nat \ {0}

LocalBlocks == Indices(NB)
Blocks == Devices \X LocalBlocks

ASSUME PaddingIsNoBlock == ZeroBlock \notin Blocks
ASSUME AbsentIsNoData ==
  /\ Absent \notin Nat
  /\ Absent \notin [LocalBlocks -> Blocks \cup {ZeroBlock}]

VARIABLES
  mask,        \* call -> device -> block_mask argument
  call,        \* device -> the call it is running (Calls+1: none left)
  pc,          \* device -> its next step
  order,       \* device -> active_indices
  numActive,   \* device -> num_active
  kPacked, vPacked,              \* device -> packed send buffers
  countsCh, keysCh, valuesCh,    \* the channels of the three all_gathers
  allCounts,   \* device -> all_counts
  kAll, vAll,  \* device -> gathered buffers
  table,       \* device -> sorted_indices
  acc,         \* device -> pairs folded into the online softmax so far
  output       \* call -> device -> bag of pairs the output is a mean over

locals   == <<order, numActive, kPacked, vPacked, allCounts, kAll, vAll, table, acc>>
channels == <<countsCh, keysCh, valuesCh>>
vars     == <<mask, call, pc, locals, channels, output>>

Steps == {"compact", "pack", "postCounts", "awaitCounts", "postKeys", "awaitKeys",
          "postValues", "awaitValues", "buildTable", "attend"}

-----------------------------------------------------------------------------
(***************************************************************************)
(* The data computations of the program.                                   *)
(***************************************************************************)

\* Faulty variant of PackActiveBlocks: the index is read outside the loop.
PackFirstBlock(d, indices, n) ==
  [j \in LocalBlocks |-> IF j < n THEN <<d, indices[0]>> ELSE ZeroBlock]

\* _pack_active_blocks: slots below n hold the retained blocks, zeros follow.
PackActiveBlocks(d, indices, n) ==
  [j \in LocalBlocks |-> IF j < n THEN <<d, indices[j]>> ELSE ZeroBlock]

Slots == 0 .. (P * NB - 1)

\* Faulty variant of ValidSlots: one position too many per chunk.
ValidSlotsInclusive(counts) == [s \in Slots |-> s % NB <= counts[s \div NB]]

\* valid_mask: slot s is chunk s \div NB, position s % NB
ValidSlots(counts) == [s \in Slots |-> s % NB < counts[s \div NB]]

\* Faulty variant of IndirectionTable: as long as the local shard.
LocalIndirectionTable(counts) == ArgSort(FrontKey(ValidSlots(counts), NB), NB)

\* sorted_indices: the valid slots first
IndirectionTable(counts) ==
  ArgSort(FrontKey(ValidSlots(counts), P * NB), P * NB)

\* The softmax weighs every pair by the number of times it was folded in.
Weights(pairs) ==
  [pair \in {pairs[i] : i \in 1 .. Len(pairs)} |->
     Cardinality({i \in 1 .. Len(pairs) : pairs[i] = pair})]

-----------------------------------------------------------------------------
Init ==
  /\ mask \in [1 .. Calls -> [Devices -> [LocalBlocks -> BOOLEAN]]]
  /\ call      = [d \in Devices |-> 1]
  /\ pc        = [d \in Devices |-> "compact"]
  /\ order     = [d \in Devices |-> Absent]
  /\ numActive = [d \in Devices |-> Absent]
  /\ kPacked   = [d \in Devices |-> Absent]
  /\ vPacked   = [d \in Devices |-> Absent]
  /\ allCounts = [d \in Devices |-> Absent]
  /\ kAll      = [d \in Devices |-> Absent]
  /\ vAll      = [d \in Devices |-> Absent]
  /\ table     = [d \in Devices |-> Absent]
  /\ acc       = [d \in Devices |-> << >>]
  /\ countsCh  = EmptyChannel
  /\ keysCh    = EmptyChannel
  /\ valuesCh  = EmptyChannel
  /\ output    = EmptyChannel

\* Device d is at step `here` of a dispatched call and goes on to `next`.
Goto(d, here, next) ==
  /\ call[d] \in 1 .. Calls
  /\ pc[d] = here
  /\ pc' = [pc EXCEPT ![d] = next]

\* Step 1: local stream compaction of this call's mask.
Compact(d) ==
  /\ Goto(d, "compact", "pack")
  /\ order' = [order EXCEPT ![d] = ActiveIndices(mask[call[d]][d], NB)]
  /\ numActive' = [numActive EXCEPT ![d] = NumActive(mask[call[d]][d], NB)]
  /\ UNCHANGED <<mask, call, kPacked, vPacked, allCounts, kAll, vAll, table, acc,
                 channels, output>>

\* Step 2: pack K, then V, by the same index array.
Pack(d) ==
  /\ Goto(d, "pack", "postCounts")
  /\ kPacked' = [kPacked EXCEPT ![d] = PackActiveBlocks(d, order[d], numActive[d])]
  /\ vPacked' = [vPacked EXCEPT ![d] = PackActiveBlocks(d, order[d], numActive[d])]
  /\ UNCHANGED <<mask, call, order, numActive, allCounts, kAll, vAll, table, acc,
                 channels, output>>

\* Step 3: all_gather of the counts.
PostCounts(d) ==
  /\ Goto(d, "postCounts", "awaitCounts")
  /\ countsCh' = Post(countsCh, call[d], d, numActive[d])
  /\ UNCHANGED <<mask, call, locals, keysCh, valuesCh, output>>

AwaitCounts(d) ==
  /\ Goto(d, "awaitCounts", "postKeys")
  /\ Complete(countsCh, call[d])
  /\ allCounts' = [allCounts EXCEPT ![d] = countsCh[call[d]]]
  /\ UNCHANGED <<mask, call, order, numActive, kPacked, vPacked, kAll, vAll, table, acc,
                 channels, output>>

\* Step 4: all_gather of the packed keys, then of the packed values.
PostKeys(d) ==
  /\ Goto(d, "postKeys", "awaitKeys")
  /\ keysCh' = Post(keysCh, call[d], d, kPacked[d])
  /\ UNCHANGED <<mask, call, locals, countsCh, valuesCh, output>>

AwaitKeys(d) ==
  /\ Goto(d, "awaitKeys", "postValues")
  /\ Complete(keysCh, call[d])
  /\ kAll' = [kAll EXCEPT ![d] = TiledGather(keysCh[call[d]], NB)]
  /\ UNCHANGED <<mask, call, order, numActive, kPacked, vPacked, allCounts, vAll, table,
                 acc, channels, output>>

\* Faulty variant of PostValues: a device with nothing to send stays out.
PostValuesIfAny(d) ==
  /\ Goto(d, "postValues", "awaitValues")
  /\ valuesCh' = IF numActive[d] = 0 THEN valuesCh
                 ELSE Post(valuesCh, call[d], d, vPacked[d])
  /\ UNCHANGED <<mask, call, locals, countsCh, keysCh, output>>

PostValues(d) ==
  /\ Goto(d, "postValues", "awaitValues")
  /\ valuesCh' = Post(valuesCh, call[d], d, vPacked[d])
  /\ UNCHANGED <<mask, call, locals, countsCh, keysCh, output>>

\* Faulty variant of AwaitValues: zeros for the peers that have not posted yet.
AwaitValuesNoLonger(d) ==
  /\ Goto(d, "awaitValues", "buildTable")
  /\ vAll' = [vAll EXCEPT ![d] =
                TiledGather([e \in Devices |->
                               IF valuesCh[call[d]][e] = Absent
                               THEN [j \in LocalBlocks |-> ZeroBlock]
                               ELSE valuesCh[call[d]][e]], NB)]
  /\ UNCHANGED <<mask, call, order, numActive, kPacked, vPacked, allCounts, kAll, table,
                 acc, channels, output>>

AwaitValues(d) ==
  /\ Goto(d, "awaitValues", "buildTable")
  /\ Complete(valuesCh, call[d])
  /\ vAll' = [vAll EXCEPT ![d] = TiledGather(valuesCh[call[d]], NB)]
  /\ UNCHANGED <<mask, call, order, numActive, kPacked, vPacked, allCounts, kAll, table,
                 acc, channels, output>>

\* Step 5: the global indirection table.
BuildTable(d) ==
  /\ Goto(d, "buildTable", "attend")
  /\ table' = [table EXCEPT ![d] = IndirectionTable(allCounts[d])]
  /\ UNCHANGED <<mask, call, order, numActive, kPacked, vPacked, allCounts, kAll, vAll,
                 acc, channels, output>>

\* Faulty variant of Attend: the loop reads slots without the table.
AttendSlots(d) ==
  /\ Goto(d, "attend", "attend")
  /\ Len(acc[d]) < SumOver(allCounts[d])
  /\ acc' = [acc EXCEPT ![d] = Append(@, <<kAll[d][Len(@)], vAll[d][Len(@)]>>)]
  /\ UNCHANGED <<mask, call, order, numActive, kPacked, vPacked, allCounts, kAll, vAll,
                 table, channels, output>>

\* Step 6: one iteration of the online softmax; its index i is Len(acc[d]).
Attend(d) ==
  /\ Goto(d, "attend", "attend")
  /\ Len(acc[d]) < SumOver(allCounts[d])
  /\ LET slot == table[d][Len(acc[d])]
     IN  acc' = [acc EXCEPT ![d] = Append(@, <<kAll[d][slot], vAll[d][slot]>>)]
  /\ UNCHANGED <<mask, call, order, numActive, kPacked, vPacked, allCounts, kAll, vAll,
                 table, channels, output>>

\* The loop is over: o / l is this device's output, and its locals are dead.
Return(d) ==
  /\ Goto(d, "attend", "compact")
  /\ Len(acc[d]) = SumOver(allCounts[d])
  /\ output' = [output EXCEPT ![call[d]][d] = Weights(acc[d])]
  /\ call' = [call EXCEPT ![d] = @ + 1]
  /\ order'     = [order     EXCEPT ![d] = Absent]
  /\ numActive' = [numActive EXCEPT ![d] = Absent]
  /\ kPacked'   = [kPacked   EXCEPT ![d] = Absent]
  /\ vPacked'   = [vPacked   EXCEPT ![d] = Absent]
  /\ allCounts' = [allCounts EXCEPT ![d] = Absent]
  /\ kAll'      = [kAll      EXCEPT ![d] = Absent]
  /\ vAll'      = [vAll      EXCEPT ![d] = Absent]
  /\ table'     = [table     EXCEPT ![d] = Absent]
  /\ acc'       = [acc       EXCEPT ![d] = << >>]
  /\ UNCHANGED <<mask, channels>>

Device(d) ==
  \/ Compact(d)     \/ Pack(d)
  \/ PostCounts(d)  \/ AwaitCounts(d)
  \/ PostKeys(d)    \/ AwaitKeys(d)
  \/ PostValues(d)  \/ AwaitValues(d)
  \/ BuildTable(d)  \/ Attend(d)
  \/ Return(d)

\* Every dispatched call has returned everywhere: the host is done.
Finished ==
  /\ \A d \in Devices : call[d] = Calls + 1
  /\ UNCHANGED vars

Next == (\E d \in Devices : Device(d)) \/ Finished

Spec == Init /\ [][Next]_vars

\* A device's stream never stops while its next step is enabled.
FairSpec == Spec /\ \A d \in Devices : WF_vars(Device(d))

-----------------------------------------------------------------------------
(***************************************************************************)
(* Properties.                                                             *)
(***************************************************************************)

\* The set of blocks the gate retained for call c, over all devices.
ActiveOf(m) == {b \in Blocks : m[b[1]][b[2]]}
ActiveBlocks(c) == ActiveOf(mask[c])

GatheredBlocks == [Slots -> Blocks \cup {ZeroBlock}]

OptionalOf(S) == S \cup {Absent}

\* Every variable has the shape the code's arrays have.
TypeOK ==
  /\ mask \in [1 .. Calls -> [Devices -> [LocalBlocks -> BOOLEAN]]]
  /\ call \in [Devices -> 1 .. (Calls + 1)]
  /\ pc \in [Devices -> Steps]
  /\ order \in [Devices -> OptionalOf([LocalBlocks -> LocalBlocks])]
  /\ numActive \in [Devices -> OptionalOf(0 .. NB)]
  /\ kPacked \in [Devices -> OptionalOf([LocalBlocks -> Blocks \cup {ZeroBlock}])]
  /\ vPacked \in [Devices -> OptionalOf([LocalBlocks -> Blocks \cup {ZeroBlock}])]
  /\ countsCh \in [1 .. Calls -> [Devices -> OptionalOf(0 .. NB)]]
  /\ keysCh \in [1 .. Calls ->
                  [Devices -> OptionalOf([LocalBlocks -> Blocks \cup {ZeroBlock}])]]
  /\ valuesCh \in [1 .. Calls ->
                    [Devices -> OptionalOf([LocalBlocks -> Blocks \cup {ZeroBlock}])]]
  /\ allCounts \in [Devices -> OptionalOf([Devices -> 0 .. NB])]
  /\ kAll \in [Devices -> OptionalOf(GatheredBlocks)]
  /\ vAll \in [Devices -> OptionalOf(GatheredBlocks)]
  /\ table \in [Devices -> OptionalOf([Slots -> Slots])]
  /\ acc \in [Devices -> Seq((Blocks \cup {ZeroBlock}) \X (Blocks \cup {ZeroBlock}))]
  /\ output = [c \in 1 .. Calls |-> [d \in Devices |-> output[c][d]]]

\* No device ever folds an evicted block, a padding block, a block of another
\* call's gather, or keys with another block's values into its softmax
\* (distributed_attention.py:189-195 reads both buffers through one table).
AttendsOnlyActive ==
  \A d \in Devices : \A i \in 1 .. Len(acc[d]) :
    \E b \in ActiveBlocks(call[d]) : acc[d][i] = <<b, b>>

\* No block is weighed twice by the same device in one call: the table is
\* injective on the prefix that the loop reads.
NoBlockTwice ==
  \A d \in Devices : \A i, j \in 1 .. Len(acc[d]) :
    acc[d][i] = acc[d][j] => i = j

\* "Output is local to each device (no AllReduce needed)": the devices that
\* have returned from a call all returned the same mean.
DevicesAgree ==
  \A c \in 1 .. Calls : \A d, e \in Devices :
    output[c][d] # Absent /\ output[c][e] # Absent => output[c][d] = output[c][e]

\* A device that is past the gather of the values has everyone's operands for
\* this very call; nobody can be a whole call behind it.
NobodyLeftBehind ==
  \A d, e \in Devices :
    /\ call[d] - call[e] <= 1
    /\ pc[d] \in {"buildTable", "attend"} =>
         \/ call[e] > call[d]
         \/ call[e] = call[d] /\ pc[e] \in {"awaitValues", "buildTable", "attend"}

\* The protocol implements its specification, on every device and call.
Promise == INSTANCE GlobalAttention
             WITH active <- [c \in 1 .. Calls |-> ActiveBlocks(c)]

ImplementsGlobalAttention == Promise!Spec

\* Every dispatched call returns on every device.
EveryCallReturns == <>(\A d \in Devices : call[d] = Calls + 1)

-----------------------------------------------------------------------------
(***************************************************************************)
(* The inductive invariant.  Whatever the interleaving, every register and *)
(* every posted operand is a function of the masks of one call: the call   *)
(* its device is running.                                                  *)
(***************************************************************************)

CountsOf(m)   == [d \in Devices |-> NumActive(m[d], NB)]
PackedOf(m)   == [d \in Devices |->
                    PackActiveBlocks(d, ActiveIndices(m[d], NB), NumActive(m[d], NB))]
GatheredOf(m) == TiledGather(PackedOf(m), NB)
TableOf(m)    == IndirectionTable(CountsOf(m))

\* The steps at which a register of the program is live.
HasOrder  == Steps \ {"compact"}
HasPacked == HasOrder \ {"pack"}
HasCounts == HasPacked \ {"postCounts", "awaitCounts"}
HasKeys   == HasCounts \ {"postKeys", "awaitKeys"}
HasValues == HasKeys \ {"postValues", "awaitValues"}

RegistersDetermined(d) ==
  LET m == mask[call[d]] IN
  /\ pc[d] # "compact" => call[d] \in 1 .. Calls
  /\ pc[d] \in HasOrder => /\ order[d] = ActiveIndices(m[d], NB)
                           /\ numActive[d] = NumActive(m[d], NB)
  /\ pc[d] \in HasPacked => kPacked[d] = PackedOf(m)[d] /\ vPacked[d] = PackedOf(m)[d]
  /\ pc[d] \in HasCounts => allCounts[d] = CountsOf(m)
  /\ pc[d] \in HasKeys => kAll[d] = GatheredOf(m)
  /\ pc[d] \in HasValues => vAll[d] = GatheredOf(m)
  /\ pc[d] = "attend" => table[d] = TableOf(m)

OperandsDetermined(c, d) ==
  /\ countsCh[c][d] \in {Absent, CountsOf(mask[c])[d]}
  /\ keysCh[c][d] \in {Absent, PackedOf(mask[c])[d]}
  /\ valuesCh[c][d] \in {Absent, PackedOf(mask[c])[d]}

\* Iteration i of the softmax loop has folded the block of table entry i - 1.
LoopDetermined(d) ==
  LET m == mask[call[d]] IN
  /\ acc[d] # << >> => /\ pc[d] = "attend"
                       /\ Len(acc[d]) <= SumOver(CountsOf(m))
  /\ \A i \in 1 .. Len(acc[d]) :
       acc[d][i] = <<GatheredOf(m)[TableOf(m)[i - 1]], GatheredOf(m)[TableOf(m)[i - 1]]>>

\* A device that returned from call c returned what the call's masks ask for.
OutputDetermined(c, d) ==
  output[c][d] \in {Absent, Promise!OnceEach(ActiveBlocks(c))}

IInv ==
  /\ TypeOK
  /\ \A d \in Devices : RegistersDetermined(d) /\ LoopDetermined(d)
  /\ \A c \in 1 .. Calls : \A d \in Devices :
       OperandsDetermined(c, d) /\ OutputDetermined(c, d)

\* The steps after each post; a device has posted exactly the operands of the
\* collectives that lie behind it, and everyone's operands lie behind a gather.
AfterCounts == HasPacked \ {"postCounts"}
AfterKeys   == HasCounts \ {"postKeys"}
AfterValues == HasKeys \ {"postValues"}

\* Device d has passed the given steps of call c, in this call or before it.
Passed(c, d, steps) == call[d] > c \/ (call[d] = c /\ pc[d] \in steps)

SyncInv ==
  \A c \in 1 .. Calls : \A d \in Devices :
    /\ countsCh[c][d] # Absent <=> Passed(c, d, AfterCounts)
    /\ keysCh[c][d] # Absent <=> Passed(c, d, AfterKeys)
    /\ valuesCh[c][d] # Absent <=> Passed(c, d, AfterValues)
    /\ Passed(c, d, HasCounts) => Complete(countsCh, c)
    /\ Passed(c, d, HasKeys) => Complete(keysCh, c)
    /\ Passed(c, d, HasValues) => Complete(valuesCh, c)

=============================================================================
