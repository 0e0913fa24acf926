------------------------------- MODULE AllToAllv -------------------------------
(***************************************************************************)
(* alltoallv_kv_exchange (alltoallv.py), the program the devices run under *)
(* jax.pmap: compact; gather the counts; compute the offsets; pack keys    *)
(* and values; exchange them by all_to_all; unpack.                        *)
(*                                                                         *)
(* The exchange is modelled as it is coded: lax.all_to_all without         *)
(* tiled=True splits axis 0 into single rows, one per device.  While the   *)
(* program is traced JAX insists that the axis has as many rows as there   *)
(* are devices, and raises otherwise; when it has, row e of what device d  *)
(* receives is row d of what device e sent.                                *)
(***************************************************************************)
EXTENDS AllToAllvBuffers

CONSTANTS
  BlockBytes,   \* the sizes a block may have: elements_per_block * 2 * 2
  IntMax        \* the largest int32, 2^31 - 1 in the code

ASSUME IntMaxIsNatural == IntMax \in Nat /\ BlockBytes \subseteq Nat

VARIABLES
  mask,      \* call -> device -> block_mask argument
  size,      \* bytes of a block of keys and values
  host,      \* the host is "tracing" the program, "dispatched" it or "raised"
  call, pc,  \* device -> the call it is running, its next step
  order, numActive,          \* device -> result of stream_compact
  allCounts, offsets,        \* device -> all_counts, offsets
  kPacked, vPacked,          \* device -> send buffers
  kReceived, vReceived,      \* device -> received rows
  countsCh, keysCh, valuesCh,    \* the channels of the three collectives
  kActive, vActive, stats   \* call -> device -> what the call returned

locals   == <<order, numActive, allCounts, offsets, kPacked, vPacked, kReceived, vReceived>>
channels == <<countsCh, keysCh, valuesCh>>
results  == <<kActive, vActive, stats>>
vars     == <<mask, size, host, call, pc, locals, channels, results>>

Steps == {"compact", "postCounts", "awaitCounts", "computeOffsets", "pack",
          "postKeys", "awaitKeys", "postValues", "awaitValues", "unpack"}

Shard(d) == [t \in LocalTokens |-> <<d, t>>]

\* lax.all_to_all(x, axis, split_axis=0, concat_axis=0), untiled
Exchange(operands, d) == [e \in Devices |-> operands[e][d]]

ExchangeIsWellShaped == ShardTokens = P

-----------------------------------------------------------------------------
Init ==
  /\ mask \in [1 .. Calls -> [Devices -> [LocalBlocks -> BOOLEAN]]]
  /\ size \in BlockBytes
  /\ host = "tracing"
  /\ call      = [d \in Devices |-> 1]
  /\ pc        = [d \in Devices |-> "compact"]
  /\ order     = [d \in Devices |-> Absent]
  /\ numActive = [d \in Devices |-> Absent]
  /\ allCounts = [d \in Devices |-> Absent]
  /\ offsets   = [d \in Devices |-> Absent]
  /\ kPacked   = [d \in Devices |-> Absent]
  /\ vPacked   = [d \in Devices |-> Absent]
  /\ kReceived = [d \in Devices |-> Absent]
  /\ vReceived = [d \in Devices |-> Absent]
  /\ countsCh  = EmptyChannel
  /\ keysCh    = EmptyChannel
  /\ valuesCh  = EmptyChannel
  /\ kActive   = EmptyChannel
  /\ vActive   = EmptyChannel
  /\ stats     = EmptyChannel

DenseBlocks == P * NB

\* Two's complement: what an int32 keeps of a number.
Wrapped(n) == ((n + IntMax + 1) % (2 * (IntMax + 1))) - (IntMax + 1)

\* Faulty variant of StatsFit: one shard is looked at instead of all.
ShardFits == NB * size <= IntMax

\* bytes_dense is a Python integer; to subtract an int32 array from it JAX has
\* to convert it, and raises when it does not fit.
StatsFit == DenseBlocks * size <= IntMax

\* The first call traces the program for the shapes it was given; lax.all_to_all
\* rejects them unless the axis it splits has one row per device.
Trace ==
  /\ host = "tracing"
  /\ host' = IF ExchangeIsWellShaped /\ StatsFit THEN "dispatched" ELSE "raised"
  /\ UNCHANGED <<mask, size, call, pc, locals, channels, results>>

Goto(d, here, next) ==
  /\ host = "dispatched"
  /\ call[d] \in 1 .. Calls
  /\ pc[d] = here
  /\ pc' = [pc EXCEPT ![d] = next]

\* Step 0: local stream compaction.
Compact(d) ==
  /\ Goto(d, "compact", "postCounts")
  /\ order' = [order EXCEPT ![d] = ActiveIndicesByMask(mask[call[d]][d], NB)]
  /\ numActive' = [numActive EXCEPT ![d] = NumActive(mask[call[d]][d], NB)]
  /\ UNCHANGED <<mask, size, host, call, allCounts, offsets, kPacked, vPacked, kReceived,
                 vReceived, channels, results>>

\* Step 1: count_sync.
PostCounts(d) ==
  /\ Goto(d, "postCounts", "awaitCounts")
  /\ countsCh' = Post(countsCh, call[d], d, numActive[d])
  /\ UNCHANGED <<mask, size, host, call, locals, keysCh, valuesCh, results>>

AwaitCounts(d) ==
  /\ Goto(d, "awaitCounts", "computeOffsets")
  /\ Complete(countsCh, call[d])
  /\ allCounts' = [allCounts EXCEPT ![d] = countsCh[call[d]]]
  /\ UNCHANGED <<mask, size, host, call, order, numActive, offsets, kPacked, vPacked, kReceived,
                 vReceived, channels, results>>

\* Step 2: compute_offsets.
Offset(d) ==
  /\ Goto(d, "computeOffsets", "pack")
  /\ offsets' = [offsets EXCEPT ![d] = ComputeOffsets(allCounts[d])]
  /\ UNCHANGED <<mask, size, host, call, order, numActive, allCounts, kPacked, vPacked, kReceived,
                 vReceived, channels, results>>

\* Faulty variant of Pack: the values are packed from the front of the shard.
PackValuesInPlace(d) ==
  /\ Goto(d, "pack", "postKeys")
  /\ kPacked' = [kPacked EXCEPT ![d] = PackActiveBlocks(Shard(d), order[d], numActive[d])]
  /\ vPacked' = [vPacked EXCEPT ![d] =
                   PackActiveBlocks(Shard(d), [j \in LocalBlocks |-> j], numActive[d])]
  /\ UNCHANGED <<mask, size, host, call, order, numActive, allCounts, offsets, kReceived,
                 vReceived, channels, results>>

\* Step 3a: pack keys and values.
Pack(d) ==
  /\ Goto(d, "pack", "postKeys")
  /\ kPacked' = [kPacked EXCEPT ![d] = PackActiveBlocks(Shard(d), order[d], numActive[d])]
  /\ vPacked' = [vPacked EXCEPT ![d] = PackActiveBlocks(Shard(d), order[d], numActive[d])]
  /\ UNCHANGED <<mask, size, host, call, order, numActive, allCounts, offsets, kReceived,
                 vReceived, channels, results>>

\* Faulty variant of PostKeys: a device with nothing to send stays out.
PostKeysIfAny(d) ==
  /\ Goto(d, "postKeys", "awaitKeys")
  /\ keysCh' = IF numActive[d] = 0 THEN keysCh ELSE Post(keysCh, call[d], d, kPacked[d])
  /\ UNCHANGED <<mask, size, host, call, locals, countsCh, valuesCh, results>>

\* Step 3b: alltoallv_exchange of the keys, then of the values.
PostKeys(d) ==
  /\ Goto(d, "postKeys", "awaitKeys")
  /\ keysCh' = Post(keysCh, call[d], d, kPacked[d])
  /\ UNCHANGED <<mask, size, host, call, locals, countsCh, valuesCh, results>>

AwaitKeys(d) ==
  /\ Goto(d, "awaitKeys", "postValues")
  /\ Complete(keysCh, call[d])
  /\ kReceived' = [kReceived EXCEPT ![d] = Exchange(keysCh[call[d]], d)]
  /\ UNCHANGED <<mask, size, host, call, order, numActive, allCounts, offsets, kPacked, vPacked,
                 vReceived, channels, results>>

PostValues(d) ==
  /\ Goto(d, "postValues", "awaitValues")
  /\ valuesCh' = Post(valuesCh, call[d], d, vPacked[d])
  /\ UNCHANGED <<mask, size, host, call, locals, countsCh, keysCh, results>>

AwaitValues(d) ==
  /\ Goto(d, "awaitValues", "unpack")
  /\ Complete(valuesCh, call[d])
  /\ vReceived' = [vReceived EXCEPT ![d] = Exchange(valuesCh[call[d]], d)]
  /\ UNCHANGED <<mask, size, host, call, order, numActive, allCounts, offsets, kPacked, vPacked,
                 kReceived, channels, results>>

\* Bandwidth statistics, from the counts a device has gathered.
Stats(d) ==
  LET total       == SumOver(allCounts[d])
      bytesActive == Wrapped(total * size)
  IN [localNumActive |-> numActive[d],
      totalActive    |-> total,
      bytesSaved     |-> Wrapped(DenseBlocks * size - bytesActive)]

\* Step 4: unpack keys and values, count the bytes; the call returns.
Unpack(d) ==
  /\ Goto(d, "unpack", "compact")
  /\ kActive' = [kActive EXCEPT ![call[d]][d] =
                   UnpackReceivedBlocks(kReceived[d], allCounts[d])]
  /\ vActive' = [vActive EXCEPT ![call[d]][d] =
                   UnpackReceivedBlocks(vReceived[d], allCounts[d])]
  /\ stats' = [stats EXCEPT ![call[d]][d] = Stats(d)]
  /\ call' = [call EXCEPT ![d] = @ + 1]
  /\ order'     = [order     EXCEPT ![d] = Absent]
  /\ numActive' = [numActive EXCEPT ![d] = Absent]
  /\ allCounts' = [allCounts EXCEPT ![d] = Absent]
  /\ offsets'   = [offsets   EXCEPT ![d] = Absent]
  /\ kPacked'   = [kPacked   EXCEPT ![d] = Absent]
  /\ vPacked'   = [vPacked   EXCEPT ![d] = Absent]
  /\ kReceived' = [kReceived EXCEPT ![d] = Absent]
  /\ vReceived' = [vReceived EXCEPT ![d] = Absent]
  /\ UNCHANGED <<mask, size, host, channels>>

Device(d) ==
  \/ Compact(d)
  \/ PostCounts(d)  \/ AwaitCounts(d)
  \/ Offset(d)      \/ Pack(d)
  \/ PostKeys(d)    \/ AwaitKeys(d)
  \/ PostValues(d)  \/ AwaitValues(d)
  \/ Unpack(d)

\* Every dispatched call has returned everywhere, or none was dispatched.
Finished ==
  /\ host = "raised" \/ \A d \in Devices : call[d] = Calls + 1
  /\ UNCHANGED vars

Next == Trace \/ (\E d \in Devices : Device(d)) \/ Finished

Spec == Init /\ [][Next]_vars

\* The host does not stop while tracing, nor a device while it can go on.
FairSpec ==
  /\ Spec
  /\ WF_vars(Trace)
  /\ \A d \in Devices : WF_vars(Device(d))

-----------------------------------------------------------------------------
ActiveTokens(c) == {u \in Tokens : mask[c][u[1]][u[2] \div BlockSize]}

\* "so that device i writes its active blocks starting at
\* offsets[i]" (alltoallv.py:123-124): devices that are in the same call agree
\* on one layout, in which the regions of the devices tile the buffer.
OffsetsAgree ==
  \A d \in Devices : offsets[d] # Absent =>
    \A e \in Devices :
      /\ offsets[d][e] = Cardinality({b \in Devices \X LocalBlocks :
                                        b[1] < e /\ mask[call[d]][b[1]][b[2]]})
      /\ call[e] = call[d] /\ offsets[e] # Absent => offsets[e] = offsets[d]

\* Two exchanges, one layout: in whatever order the devices reach the two
\* collectives, row r of the keys and row r of the values a call returns
\* (alltoallv.py:374-379) belong to the same token of the same call.
KeysMatchValues ==
  \A c \in 1 .. Calls : \A d \in Devices :
    kActive[c][d] # Absent => kActive[c][d] = vActive[c][d]

\* "bytes_saved: approximate bytes saved vs. dense exchange"
\* (alltoallv.py:389): though counted by every device on its own, in numbers
\* that wrap around, the bytes are those of the blocks all devices evicted, and
\* the devices of a call agree on them.
SavingsExact ==
  \A c \in 1 .. Calls : \A d \in Devices :
    stats[c][d] # Absent =>
      LET evicted == {b \in Devices \X LocalBlocks : ~mask[c][b[1]][b[2]]} IN
      /\ stats[c][d].bytesSaved = Cardinality(evicted) * size
      /\ stats[c][d].totalActive = DenseBlocks - Cardinality(evicted)
      /\ stats[c][d].localNumActive = Cardinality({b \in LocalBlocks : mask[c][d][b]})

\* Every dispatched call returns everywhere.
EveryCallReturns ==
  host = "dispatched" ~> \A d \in Devices : call[d] = Calls + 1

\* "Keys containing all active blocks from every device"
\* (alltoallv.py:376-377): when the host has its answer, it holds them all.
EveryBlockDelivered ==
  \A c \in 1 .. Calls : \A d \in Devices :
    host = "raised" \/ call[d] > c =>
      /\ kActive[c][d] # Absent
      /\ ActiveTokens(c) \subseteq {kActive[c][d][r] : r \in Rows}

=============================================================================
