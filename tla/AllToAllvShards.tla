---------------------------- MODULE AllToAllvShards ----------------------------
(***************************************************************************)
(* The parts of alltoallv.py that need no collective, put together the way *)
(* its documentation puts them together: every shard is compacted and      *)
(* packed on its own, in any order; the packed shards are concatenated in  *)
(* device order, which is what the exchange is documented to leave on      *)
(* every device; one device unpacks the concatenation.                     *)
(***************************************************************************)
EXTENDS AllToAllvBuffers

VARIABLES
  blockMask,     \* device -> block_mask of its shard
  packed,        \* device -> its send buffer, Absent while not packed
  counts,        \* device -> its active count, Absent while not packed
  activeKv,      \* active_kv of unpack_received_blocks, Absent before
  deviceOffsets  \* device_offsets of unpack_received_blocks, Absent before

shardVars == <<blockMask, packed, counts, activeKv, deviceOffsets>>

ShardInit ==
  /\ blockMask \in [Devices -> [LocalBlocks -> BOOLEAN]]
  /\ packed = [d \in Devices |-> Absent]
  /\ counts = [d \in Devices |-> Absent]
  /\ activeKv = Absent
  /\ deviceOffsets = Absent

\* stream_compact and pack_active_blocks of one shard
PackShard(d) ==
  /\ packed[d] = Absent
  /\ packed' = [packed EXCEPT ![d] =
                  PackActiveBlocks([t \in LocalTokens |-> <<d, t>>],
                                   ActiveIndicesByMask(blockMask[d], NB),
                                   NumActive(blockMask[d], NB))]
  /\ counts' = [counts EXCEPT ![d] = NumActive(blockMask[d], NB)]
  /\ UNCHANGED <<blockMask, activeKv, deviceOffsets>>

\* unpack_received_blocks of the concatenated shards
UnpackShards ==
  /\ activeKv = Absent
  /\ \A d \in Devices : packed[d] # Absent
  /\ activeKv' = UnpackReceivedBlocks(TiledGather(packed, ShardTokens), counts)
  /\ deviceOffsets' = DeviceOffsets(counts)
  /\ UNCHANGED <<blockMask, packed, counts>>

ShardNext == (\E d \in Devices : PackShard(d)) \/ UnpackShards

ShardSpec == ShardInit /\ [][ShardNext]_shardVars

-----------------------------------------------------------------------------
\* The tokens of the blocks the masks retain, and the order of the sequence.
Retained == {u \in Tokens : blockMask[u[1]][u[2] \div BlockSize]}

Precedes(u, v) == u[1] < v[1] \/ (u[1] = v[1] /\ u[2] < v[2])

\* "The first total_active_tokens entries contain valid data (gathered in
\* device order), the rest are zero-padded" (alltoallv.py:297-298): the row
\* of a retained token is the number of retained tokens before it, so that
\* nothing is lost, doubled or reordered on the way through the buffers.
SequenceKept ==
  activeKv # Absent =>
    /\ \A u \in Retained :
         activeKv[Cardinality({v \in Retained : Precedes(v, u)})] = u
    /\ \A r \in Rows : r >= Cardinality(Retained) => activeKv[r] = ZeroToken

\* "device_offsets[i] is the token-level start offset for device i inside
\* active_kv" (alltoallv.py:300-302): the rows from a device's offset to the
\* next one's are exactly the device's retained tokens.
OffsetsDelimit ==
  activeKv # Absent =>
    \A d \in Devices :
      LET end == IF d + 1 \in Devices THEN deviceOffsets[d + 1] ELSE Cardinality(Retained)
      IN  {activeKv[r] : r \in deviceOffsets[d] .. (end - 1)} = {u \in Retained : u[1] = d}

=============================================================================
