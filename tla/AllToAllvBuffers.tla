--------------------------- MODULE AllToAllvBuffers ---------------------------
(***************************************************************************)
(* The buffers of alltoallv.py, token by token: what a device packs to     *)
(* send, the offsets every device computes from the gathered counts, and   *)
(* what it unpacks from the rows it received.  A buffer is a function from *)
(* row numbers to tokens; a token is named, a row of padding is ZeroToken. *)
(***************************************************************************)
EXTENDS Collectives, StreamCompact

CONSTANTS
  NB,          \* num_blocks = max_blocks, the blocks of one shard
  BlockSize,   \* BLOCK_SIZE, tokens per block
  ZeroToken    \* a row of padding zeros

ASSUME NBIsPositive == NB \in Nat \ {0}
ASSUME BlockSizeIsPositive == BlockSize \in Nat \ {0}

LocalBlocks == Indices(NB)

ShardTokens == NB * BlockSize
LocalTokens == Indices(ShardTokens)
Rows        == Indices(P * ShardTokens)
Tokens      == Devices \X LocalTokens

ASSUME PaddingIsNoToken == ZeroToken \notin Tokens

-----------------------------------------------------------------------------
\* Faulty variant of PackActiveBlocks: the guard on the slot compares the
\* destination token, not the slot, with the number of active blocks.
PackTokensBelowCount(shard, indices, n) ==
  [t \in LocalTokens |->
     IF t < n
     THEN shard[indices[t \div BlockSize] * BlockSize + (t % BlockSize)]
     ELSE ZeroToken]

\* pack_active_blocks: slot i < n holds block indices[i], zeros follow.
PackActiveBlocks(shard, indices, n) ==
  [t \in LocalTokens |->
     IF t \div BlockSize < n
     THEN shard[indices[t \div BlockSize] * BlockSize + (t % BlockSize)]
     ELSE ZeroToken]

\* Faulty variant of ComputeOffsets: the inclusive prefix sum.
InclusiveOffsets(counts) ==
  [d \in Devices |->
     Cardinality(UNION {{e} \X (0 .. (counts[e] - 1)) : e \in 0 .. d})]

\* compute_offsets: the exclusive prefix sum of the counts, as the size of a
\* disjoint union.
ComputeOffsets(counts) ==
  [d \in Devices |->
     Cardinality(UNION {{e} \X (0 .. (counts[e] - 1)) : e \in 0 .. (d - 1)})]

\* Row r of the receive buffer carries a token of shard r \div ShardTokens.
ValidRows(counts) ==
  [r \in Rows |-> r % ShardTokens < counts[r \div ShardTokens] * BlockSize]

\* (~valid_mask).astype(int32)
PaddingKey(valid, n) == [r \in Indices(n) |-> IF valid[r] THEN 0 ELSE 1]

\* unpack_received_blocks: the valid rows to the front, the tail zeroed.  A
\* gather clamps an index that is out of bounds, which it is when fewer rows
\* were received than the function expects.
UnpackReceivedBlocks(received, counts) ==
  LET source  == ArgSort(PaddingKey(ValidRows(counts), P * ShardTokens), P * ShardTokens)
      last    == Cardinality(DOMAIN received) - 1
      clamped == [r \in Rows |-> IF source[r] > last THEN last ELSE source[r]]
  IN  [r \in Rows |-> IF r < SumOver(counts) * BlockSize
                      THEN received[clamped[r]]
                      ELSE ZeroToken]

\* device_offsets: the offsets in tokens
DeviceOffsets(counts) == [d \in Devices |-> ComputeOffsets(counts)[d] * BlockSize]

=============================================================================
