# Formal models of OrthoCache

TLA+ models of OrthoCache's attention paths, the TLC configurations that check
them on small instances, and TLAPS proofs of the results that hold for every
number of devices, blocks, threads and calls. Paths below are relative to the
repository root; `orthocache/` stands for `src/orthocache/`.

OrthoCache evicts blocks of a transformer's key/value cache: a spectral gate
produces a boolean mask over blocks, and the attention paths compute a softmax
over the retained blocks only, moving as little of the cache as they can. The
numerical side (is the gate's truncation error small?) is the subject of
`proofs/` (Lean) and the paper. The models here are about the other side: do the
compaction, the indirection tables, the collectives and the caches deliver
exactly the retained blocks, once each, keys paired with their own values, on
every device, whatever the interleaving? And does the gate in front of them keep
what it promises to keep once its blocks have been reordered and cut off?

## 1. Inventory

| Component | Source | State it keeps | Operations |
|---|---|---|---|
| Stream compaction | copied into `distributed_attention.py:31-46`, `alltoallv.py:44-75`, `adaptive_attention.py:29-40`, `compaction.py:56-100`, `benchmarks/phase_e_stratified.py:61-66`, `xla_bridge.py` | none | sort the block indices, retained ones first; count them |
| Distributed attention | `distributed_attention.py` | per device: buffers, counts, table, softmax accumulator | compact, pack, three `all_gather`s, table, online softmax |
| Stratified bucketing | `benchmarks/phase_e_stratified.py` | per device: reindexed shard, global maximum, branch | `pmax`, `all_gather` of counts, `lax.switch`, gathers of cut buffers inside the branch |
| AllToAllv exchange | `alltoallv.py` | per device: send and receive buffers, offsets | compact, count sync, offsets, pack, two `all_to_all`s, unpack, statistics |
| Adaptive dispatcher | `adaptive_attention.py` | the module global `BS` and four jit caches, shared by every caller of the process | store `BS`, compact, zero path, run compiled code or trace it |
| Single-device compaction | `compaction.py`, `sparse_attention.py` | none between calls | compact, decompact, compacted attention, masked attention on two backends |
| Bucketed, lean, indirect attention | `bucketed_attention.py`, `lean_attention.py`, `indirect_attention.py` | jit caches per bucket | round the active count to a bucket, attend to a copy, a front or a table cut at the bucket |
| Predicated and dynamic kernels, XLA bridge, custom call | `sparse_attention_v2.py`, `dynamic_attention.py`, `xla_bridge.py`, `notebooks/phase_d_kaggle.py` | none | loops with a predicate per block, a loop that ends at the count, a C++ call |
| Pipeline | `pipeline.py` | none between calls | gate, statistics, choose a mode, attend |
| Custom partitioning | `partitioning.py` | none | `compact_and_attend` behind sharding annotations |
| Spectral gate | `spectral_energy.py`, `fwht.py` | none | Walsh-Hadamard transform, bands, two gates, automatic threshold |
| NumPy reference | `reference.py` | the column, transformed in place | three nested loops of butterflies |
| XLA stream-compaction pass | `xla_extensions/` | an HLO module, rewritten in place | match a loop, inject the sort, rewrite condition and body |
| ICI bandwidth model | `ici_bandwidth_model.py` | none | closed formulas |
| Package init | `__init__.py` | none | imports |
| Benchmarks, notebooks | `benchmarks/`, `notebooks/` | none | timing |
| Lean proofs, paper | `proofs/`, `docs/` | none | mathematics of the truncation bound |

**How they interact.** The gate hands a mask to `pipeline.py`, which calls the
compacted or the masked single-device path; the other single-device paths are
called directly, with a mask of the caller's. On several devices the caller maps
`distributed_orthocache_attention`, `alltoallv_kv_exchange` or the stratified
kernel over them; the copies of the program meet only in collectives (a
rendezvous of all devices), and the host may dispatch the next call before the
slowest device has finished the current one. The adaptive dispatcher is called
directly; its callers share `BS` and the jit caches and nothing else. The XLA
pass does to a compiled attention loop what the compaction does by hand.

**What is hard.** (a) The interleavings of P devices through three to four
rendezvous, with calls overlapping: a gather must not combine operands of
different calls, and nobody may stay out of one. `tests/test_distributed.py:9`
states that the distributed function itself is not tested, and
`tests/test_alltoallv.py:9-10` that the exchange needs a TPU. (b) Collectives
inside the branches of a `lax.switch`. (c) Double indirection at its boundaries:
zero padding, real but evicted blocks behind the active ones, off-by-one in
prefix sums, out-of-range slices that JAX clamps silently. (d) Trace-time
capture of a mutable global next to a cache whose key does not contain it.
(e) The input that keeps nothing. (f) Counts rounded up to a bucket, and buckets
larger than the cache. (g) Python statements inside traced code, which run while
tracing and not when their branch is taken. (h) A rewriting of a graph in stages
that can each fail.

**What makes each component correct.**

- *Compaction*: a permutation, retained entries first and in order.
- *Distributed protocols*: every device returns, for each call, a softmax over
  exactly that call's retained blocks (`GlobalAttention`); every call returns.
- *Stratified*: in addition, all devices take one branch, its capacity loses no
  active block and no smaller capacity would do.
- *AllToAllv*: tokens arrive in sequence order at the computed offsets, keys and
  values in one layout, all blocks on all devices.
- *Adaptive*: a call weighs the tokens its own mask and block size ask for.
- *Single-device*: decompaction undoes compaction; the attention paths, and the
  two backends, return the mean over the retained blocks, and none loses one.
- *Gate and pipeline*: a block with a relevant token takes part in the output; the
  automatic threshold never evicts everything; the statistics tell the truth.
- *Transform*: the unrolled stages and the in-place loops compute the Walsh
  coefficients, the bands keep the energy.
- *XLA pass*: a module is rewritten completely or left alone; which loops are rewritten
  does not depend on what has been done for others.

`PROJECT.json` lists the hazards line by line, with the properties that would
catch each of them.

## 2. Modules

| Module | Models | Composed with |
|---|---|---|
| `StreamCompact` | stable argsort, both sort keys, active indices and count | used by all others |
| `Collectives` | the rendezvous of `jax.lax` collectives (external) | the three SPMD protocols |
| `GlobalAttention` | *abstract*: each device returns, per call, each active block once | refined by the next two |
| `DistributedAttention` | `distributed_orthocache_attention` | implements `GlobalAttention` |
| `StratifiedGather` | the kernel of `build_stratified` | implements `GlobalAttention` |
| `AllToAllvBuffers` | packing, offsets and unpacking of `alltoallv.py`, token by token | used by the next two |
| `AllToAllvShards` | the collective-free parts put together as documented | |
| `AllToAllv` | `alltoallv_kv_exchange` under `pmap`, with `all_to_all` as coded | |
| `AdaptiveDispatch` | the dispatcher, its global, its caches, its threads | |
| `MCAdaptiveDispatch` | small sets of calls for TLC | |
| `Compaction` | `compaction.py` over `sparse_attention.py`, per-head masks | |
| `LocalAttention` | the thirteen other single-device paths, with the calls that raise | extends `Compaction` |
| `WalshHadamard` | stages of butterflies, bands, energies | used by the next three |
| `Fwht` | *abstract*: `fwht_512`, a whole stage per step | refined by the next one |
| `ReferenceFwht` | `numpy_fwht_1d`, in place, a butterfly per step | implements `Fwht` |
| `SpectralGate` | both gates and the automatic threshold | |
| `Pipeline` | `orthocache_forward`, and callers of the lower paths with masks of their own | composes `LocalAttention` and `SpectralGate` |
| `HloCompactPass` | `xla_extensions/orthocache_stream_compact.cc` | |
| `MCAdaptiveDispatch`, `MCSingleDevice`, `MCSpectral`, `MCSequency`, `MCHloCompactPass` | small sets of calls, caches, columns and loops for TLC | |
| `StreamCompactProofs` | theorems about the sort | used by the next four |
| `DistributedAttentionProofs`, `StratifiedProofs`, `AllToAllvProofs` | theorems about the SPMD protocols; the last one covers `AllToAllvShards` too | |
| `SpectralProofs` | theorems about the transform, the bound and the threshold | used by the next one |
| `SingleDeviceProofs` | theorems about the single-device paths and `orthocache_forward` | |
| `AdaptiveDispatchProofs`, `HloCompactPassProofs` | theorems about the dispatcher and the XLA pass | |

### State and actions against the code

**Blocks and softmax.** A block is named `<<d, b>>`: block `b` of device `d`'s
shard. Keys and values are separate buffers of names, so pairing is something
the protocol must preserve, not something the model assumes. A softmax-weighted
mean is the bag of (key block, value block) pairs it is taken over: two code
paths over the same bag compute the same number up to rounding, and a block that
is weighed twice, left out, or zero padding that is weighed, is a different bag.
The online softmax of `distributed_attention.py:95-128` is modelled iteration by
iteration: `acc` is the sequence of pairs folded in so far, `Return` divides.

**Collectives.** A channel maps call -> device -> operand. `Post*` deposits the
device's operand for the call it is running; `Await*` is enabled when all
devices have posted for that call. JAX runs a compiled SPMD program in program
order on each device, so each device has one program counter; between two
rendezvous devices are unconstrained, and a device that has returned starts the
next dispatched call at once. Masks of all calls are chosen in `Init`, since
they are arguments the host provides.

**Stratified kernel.** The branches of `lax.switch` are separate code, so each
has its own channels: two devices in different branches never match. Inputs are
arbitrary masks with at least one active block per call (`make_mask` never
evicts everything); the script's `prepare_inputs` gives every device the same
mask, the kernel is meant for different ones.

**AllToAllv.** `Trace` is the first call: JAX checks the shapes while it traces,
and an untiled `all_to_all` requires the split axis to have one row per device.
If the check fails the call raises and nothing runs; otherwise device d receives
row d of each buffer. `UnpackReceivedBlocks` includes the clamping of
out-of-range gathers that JAX performs. The statistics are computed as the code
does, each number cut to an int32 of `IntMax`; `bytes_dense` is a Python integer,
and converting it raises, while the call is traced, when it does not fit.

**Adaptive dispatcher.** `plan`, chosen at the start, says which calls each thread
may make, so that one run covers safe and unsafe callers. `Begin` stores `BS`; `Compact`/`ReturnZeros` are
`stream_compact` (which synchronises with the host, so other threads run in
between) and the early return; `RunCompiled` is a cache hit; `TraceKeys`,
`TraceValues`/`TraceRaises` are a cache miss, in which the loop body reads `BS`
in the slice of the keys and again in the slice of the values. A slice
expression reads `BS` twice; the model takes the two reads as one. When two
threads trace one key at once, either entry may stay. The key is what `jax.jit`
distinguishes: shapes and the static `num_active`. The sequence length decides
the path (`vmap` below `_SEQ_THRESHOLD`, loop above), so it need not be a
separate part of the key; both paths run the same slices. Tokens, not blocks,
are the unit, because block sizes differ between calls.

**Single-device.** Keys and values go through identical gathers in
`compaction.py`, so one buffer stands for both. The backend is an arbitrary choice
made in `Init`: `compile_pallas_sparse_attention` compares `device_kind` with
exactly "TPU", so even on a TPU either side may be taken. A mean over nothing but
zeros is `ZeroOutput`; -1e9 in every logit is a uniform softmax and so the mean of
everything. A path of `LocalAttention` keeps no state, it is a function of cache
and mask, and a behaviour calls one of them: its action stores what the function
returns, or `Raised`. `KernelV2Guarded` is what `pl.when` leaves: it traces the
guarded function once, and the `nonlocal` assignments in it are made by Python,
while tracing. The custom call lists the active blocks in an array of
`CustomCapacity` elements (4096) with which nothing compares their number; what a call
with more of them leaves is `Undefined`, and no property or theorem speaks of it.
`Sized` is the jitted bridge called with a `block_size`: the
argument is not static, so a shape cannot be computed from it and the call raises.

**Gate.** The transform is modelled without the division by the square root of the
block size and the bounds without that by the square root of the head dimension:
bounds, logits and the threshold are all scaled by the same positive number, and
the norms of the queries and residuals used are whole (`NormsAreWhole`), so that
every comparison is the code's, on integers. `InputsAreWhole` says the same of the
keys and queries themselves. The 1e-6 in the ratio decides nothing
but 0/0, which it makes 0. Rounding is not modelled.

**Pipeline.** `PipelineInit` starts either a caller of the lower modules, with a
mask of its own, or a call of `orthocache_forward`, which has to compute it. The
dense mode returns before the analysis and an unknown mode raises after it. On one
device `orthocache_attention_partitioned` is `compact_and_attend`.

**XLA pass.** A while loop is an instruction of a computation (`Layout`), and its body
is another computation, which may contain loops and may be the body of several. So
what the pass changes is kept where the code changes it: operand and condition per
loop, opcodes and reindexed products per computation (`code`), and `Matches` reads
both as they are when the pass comes to the loop. An injection goes into the
computation the loop is in; if that is the body of an enclosing loop, the enclosing
loop is matched against the result later on. `module` keeps the program of the start,
for `MatchedAtStart`. Opcodes are those that an injection or a reindexing adds and those
a match could look at. Two things are left open: whether `ReplaceOperandWith`
compares shapes (`strict`; XLA's does and refuses the longer tuple, so that a body is
rewritten only in the behaviours where `strict` is FALSE), and how many users a loop
over a list that grows meanwhile still reaches.

Operators introduced by "Faulty variant of ..." are not part of any
specification. Each is a plausible mistake in the definition it names;
substituting it must make the property it is paired with in `PROJECT.json` fail,
which shows that the property depends on that piece of code.

## 3. Runs

All `pass` runs terminate with no error; the bounds are the constants of the
configuration. Deadlock checking is on for the SPMD protocols (their `Next`
ends in an explicit `Finished`), so those runs also show that no interleaving
blocks. It is off where a caller may stop calling or a function has returned:
`MCAllToAllvShards`, `MCAdaptive`, `MCSingleDevice`, `MCBucketed`,
`MCSpectral`, `MCSequency`, `MCHloCompactPass`, `MCHloVerify`.

| Run | Instance | Shows |
|---|---|---|
| `spmd_two_calls` | P=2, 2 blocks each, 2 calls in flight, all masks | `TypeOK` and the invariants of the proofs (`IInv`, `SyncInv`); nobody a whole call behind; only active blocks, none twice; devices agree; `GlobalAttention` implemented; every call returns |
| `stratified` | P=2, 3 blocks, so that the capacities are 1, 1, 2 and 3, which collapse to three distinct ones with the last branch a repetition; 2 calls, all masks | tightest capacity, one branch per call, `GlobalAttention` implemented, every call returns |
| `alltoallv_shards` | P=3, 2 blocks of 2 tokens | retained tokens kept in sequence; offsets delimit the devices |
| `alltoallv_protocol` | P=2, 2 blocks of 1 token (the shape the exchange accepts), 2 calls; blocks of 1 or 3 bytes, integers up to 7 | one layout, keys match values, bytes saved exact or the call raises, every call returns |
| `alltoallv_delivery` | the same, 1 call | *violation*: blocks of peers are missing |
| `adaptive` | 2 threads, 2 calls each; one thread with sizes 1 and 2 on sequences 2 and 4 and both entry points, or both with size 2 on sequences 2, 4, 5, or both with sizes 1 and 2 | safe callers served, cache entries fit, the invariant of the proofs |
| `single_device` | 5 blocks, 2 heads, both backends: all 1024 masks through every path; and `orthocache_forward` on caches of four kinds of blocks, two sets of queries, all modes, an automatic and a given threshold | round trip; compacted and masked path agree; no path loses a retained block; exact paths exact; relevant blocks weighed; the automatic threshold keeps half; statistics true; backends agree on heads that keep something |
| `bucketed` | 4 blocks | *violation*: a bucket of four holds three active blocks |
| `spectral` | all 6561 columns of 8 numbers out of -1, 0 and 2 | in-place loops implement the stages; Walsh coefficients; energies |
| `sequency` | N=512 and the bands of the code; three square waves | *violation*: rapid oscillation (a sign change with every token, or with every second one, which is the one TLC reports) counts as low sequency |
| `hlo_matching` | three loops in three computations: one lies in the body of another, two are in one computation, a body is shared or not; each body one of six kinds, each loop bounded and over a tuple or not | only attention loops are touched, and none the pass comes to is skipped, whatever was done for the others |
| `hlo_pass` | the same | *violation*: the rewritten module does not verify |

**Why these bounds.** What matters for the SPMD protocols is that counts differ
between devices, that chunks can be empty, partly and entirely active, that a
chunk's padding lies before another chunk's active blocks, and that a fast
device can be in the next call; two devices, two blocks and two calls give all
of these. Offsets need a device with two predecessors, hence P=3 in
`alltoallv_shards`. Four blocks of 3 bytes exceed an integer of 7 where four of 1
and two of 3 do not, so both outcomes of the conversion occur. In the adaptive model
two calls of a thread let the first file a cache entry and the second change `BS`
and find it; two threads suffice for a race on one global. Five blocks
give counts that are buckets (1, 2, 4) and counts that are not (3, 5), and a bucket
(8) that exceeds the cache. The transform at N=8 has three stages, so that one has
a predecessor and a successor, and bands of one, two and four coefficients; the
values of a column differ in sign and size, so every butterfly sees equal,
opposite and unequal operands. The gate runs at N=4 on blocks that are constant,
oscillate in either band, or do both, aligned and not with the queries. The custom
call runs with a list of four, so that five active blocks exceed it. In the XLA pass an
enclosing loop is met after the loop in its body, and a sharer after the loop it shares
with, which is the order in which the first can change what the second looks like. For the
properties that are also proved, the run is a sanity check of the statement; more
devices and more blocks are the business of the proof. `MaxCalls` and `Calls` bound
only the length of a run.

**Fairness.** `FairSpec` has weak fairness of each device's own
steps: a device executes its program. It
does not promise that a collective completes - that follows, or does not, from
the others posting - nor that anyone makes another call, nor any order between
devices. `WF(Trace)` in `AllToAllv` says that the host finishes tracing. The
dispatcher, the single-device paths and the XLA pass are checked without fairness: no
step of theirs waits for another, so that nothing is to be learned from their ending.
`Fwht` and
`ReferenceFwht` are sequential functions that keep running; the refinement
carries the fairness over as well.

### What the violation runs found

1. *AllToAllv* (`alltoallv.py:247-258`). An untiled `all_to_all` delivers one row
   per peer. For the shapes the documentation uses, JAX refuses to trace; for
   the one shape it accepts, the result does not hold "all active blocks from
   every device". The collective-free parts are right (`alltoallv_shards`): with
   a gather in place of the exchange the documented result would follow.
2. *Buckets* (`bucketed_attention.py:97`, `lean_attention.py:52`,
   `indirect_attention.py:157`). Between buckets, the padding or an evicted block is
   weighed. At a bucket all three are exact (`ExactPaths`), which is what the tests
   exercise, and beyond the cache they raise.
3. *Sequency* (`spectral_energy.py:16`). The bands cut the coefficients in the order
   of Hadamard's matrix, in which index 1 is the fastest function, so the noise
   that the second gate is meant to find counts as coherent. (`WalshCoefficients`
   states that order, so it holds; only `RapidIsHigh` is about the bands' meaning.)
4. *XLA pass* (`orthocache_stream_compact.cc:399`). The condition is exchanged before
   the operand; where shapes are compared the operand then cannot be, which is the
   behaviour TLC reports and the one of XLA as it is. Were they not compared, the body
   would keep the old tuple.

Observed on the way, without a run of their own:

- `sparse_attention_v2.py:114`: with `use_pl_when=True`, the default, the guarded kernel
  accumulates every block, whatever the mask. This is what `KernelV2Guarded` says, so no
  run could do more than repeat it; `NoRetainedBlockLost` does cover the kernel.
- With no block retained on any device, `distributed_attention.py:128` divides
  zero by zero, on all devices alike; in the model the empty mean stands for it, and a
  change of the number itself would not show. The
  adaptive dispatcher returns zeros in this case.
- `adaptive_attention.py:159` stores a module global that is baked into traces but
  not into cache keys: 700 tokens at block size 512 and then at 700 reuse the first
  trace, and two threads with different sizes can trace with each other's. `SafeUse`
  is the condition under which neither happens.
- On a head that evicts everything the fallback of `sparse_attention.py:49` returns
  the mean of all values, the kernel zeros (`KeptHeadsAgree` states just that).
- `orthocache_stream_compact_test.cc` feeds the pass a two-dimensional cache,
  which `MatchAttentionLoop` rejects, and expects a change.
- `xla_bridge.py:64`: a call that passes `block_size`, as the module's text shows,
  raises.
- `ici_bandwidth_model.py:8` divides by P, line 83 and the code by P squared.
- `orthocache/__init__.py` imports names that do not exist.

## 4. Proofs

Checked by `tlapm`, for all values of the constants, from the named assumptions
only:

- sizes: `PIsPositive`, `CallsIsNat`, `NBIsPositive`, `BlockSizeIsPositive`,
  `IntMaxIsNatural`, `NIsAPowerOfTwo` (the block size of the transform),
  `BandsAreOrdered` (the bands cut the coefficients behind the first in two places);
- values that stand for "padding", "zeros" and "nothing" are none of the data:
  `PaddingIsNoBlock`, `ZeroOutputIsNoMean`, `AbsentIsNoData`;
- inputs have the shape the code is called with: `CallsAreWellFormed` (finitely many
  heads, at least one; a cache has a block, a call a set of queries, for every head),
  `RequestsAreCalls` (a call's mask has one entry per block, a block is no longer
  than the sequence), `PlansAreForThreads` (a plan gives each thread some of those
  calls), `LoopsHaveOnePlace` (an instruction belongs to one computation),
  `BodiesAreComputations`, `InputsAreColumns`, `InputsAreWhole` and `NormsAreWhole` (keys, queries and
  their norms are whole numbers of any size; see *Gate* above).

**Stream compaction** (`StreamCompactProofs`). Ranks under a strict total order
are a bijection of the indices (`ArgSortLists`), so if retained entries come
before evicted ones, position i is retained iff i is below the count
(`RetainedPrefix`). `ActiveIndicesCorrect` instantiates this for the key the
distributed code sorts on; `BothSortsAgree` shows that the other key, used in
`alltoallv.py` and `compaction.py`, gives the same function. `RetainedInOrder` is
the stability: retained blocks stay in their order.

**Distributed attention** (`DistributedAttentionProofs`). *Routing* is pure
arithmetic: the gathered buffer at slot s is block s % NB of device s div NB;
the valid slots are as many as the counts sum to; so the table's first
`total_active` entries reach exactly the active blocks, each once (`Routing`).
*The invariant* `IInv` says that every live register and every posted operand is
the value that the masks of one call - the call its device is running -
determine. None of the wanted properties is inductive by itself: that the softmax
only folds active blocks depends on the table, which depends on the counts
gathered from other devices, which depends on what those posted for this call.
`InductiveInvariant` has one lemma per action. From it follow `TypeCorrect`,
`OnlyActiveAttended`, `NoBlockWeighedTwice`, `ReturnedDevicesAgree` and
`Refinement`: every step is a `Return` of `GlobalAttention` or a stutter.
*Synchronisation*: `SyncInv` says that a device has posted exactly the operands
behind its program counter and is past a gather only if it is complete;
`SyncInvariant` and `NobodyIsLeftBehind` bound how far devices can drift apart.

**Stratified kernel** (`StratifiedProofs`). *One call*: the capacities are at most
four sizes up to the whole shard, and `BucketSize` lists them in ascending order
whether or not they collapse (`BucketsAscend`), so the first that holds the largest
count exists and is the least one that does (`BucketIsTight`). `MaskedMeanIsExact` is
about the data: for every capacity that holds the counts, a cut buffer per device, gathered and
masked by the gathered counts, is weighed as each active block once. *The invariant*
ties registers and operands to the masks of the call, as for distributed attention,
and adds that operands lie on the channels of the branch the call's own maximum
selects. Without the latter it is not inductive: a gather inside a branch completes
only because every device of the call is in that branch. From it follow
`TypeCorrect`, `BucketFits` (`TightestFit`), `BranchesMatch` (`SameBranch`) and
`Refinement` (`ImplementsGlobalAttention`).

**Adaptive dispatcher** (`AdaptiveDispatchProofs`). The violation runs show that
the dispatcher is not right for all callers, so the theorems say for which it is:
`SafeUse` - all calls of the process use one block size, or a single thread uses
sizes that shapes tell apart. `DivisorsDetermineSizes` shows that sizes which
divide their sequence are of that kind. `AttendedIsExpected` is the arithmetic
(slices of existing blocks are not clamped, a token lies in one block), and `IInv`
the invariant: inside a call `BS` is the call's own size, and every cache entry
fits its key. A hit is right only because of the latter, an entry is right only
because of the former, so neither is inductive alone.

**AllToAllv** (`AllToAllvProofs`). What the exchange delivers is not what it
documents, yet a call is consistent in itself, and that is what is proved. `IInv`
is of the same kind as for distributed attention: live registers, posted operands
and results are what the masks of one call determine, and a dispatched program has
sizes that fit an integer. `KeysMeetTheirValues` follows at once, since both
exchanges see the same indices. `OneLayout` needs that a prefix of the counts is
the number of active blocks on those devices (`ActiveCounted`, a bijection between
(device, position) pairs and active blocks through the compaction's order).
`SavingsAreExact` adds arithmetic: a number up to `IntMax` survives the conversion
(`FittingStays`), the sizes involved are no larger than the dense one, and what was
sent and what was saved add up to it.

The same module has the theorems about `AllToAllvShards`. A row of the concatenated
buffers is a shard, a slot of it and a place in the slot (`RowSplits`, `RowJoins`);
it is valid if the slot is below the shard's count, and then it holds a token of the
block that the compaction put there (`RowHolds`). Reading the valid rows upwards is
reading the retained tokens in sequence order (`RowsInOrder`). So the rank of a valid
row in the sort of `unpack_received_blocks` is the number of retained tokens before
its own, from which `SequenceIsKept` follows, and the tokens before a device are as
many as its offset says, from which `OffsetsDelimitDevices` does. The shards may be
packed in any order: `ShardInv` says that each is packed by its own mask.

**Single-device paths and pipeline** (`SingleDeviceProofs`). The order of the
compaction is a permutation with the active blocks in front. From this the lemmas
compute the mean each path takes: over the front of the order, through a
bucket, through a mask. `IInv` says that whatever has been returned is what the
mask determines; with the masks arbitrary, `RoundTrip`, `CompactMatchesSparse`,
`KeptHeadsAgree`, `ExactPaths` and `NoRetainedBlockLost` follow path by path. For the
statistics a second invariant ties the metadata to the mask of the call, and the
mask to the blocks of its output (`StatisticsAreTrue`). A third one, `MaskIsGated`,
says that from the analysis on the mask is what the gates make of the arguments.
`RelevantTakePart` combines the three with the theorems of the next paragraph: if
the logit of a token reaches tau, so does the score of its block
(`MaxBoundIsLargest`, `TauIsMonotone`); then the mask retains it; then it is in the
copy, or behind the mask, that the output is the mean of. `AutoTauIsSafe` is
`HalfIsNear` for the scores of a call.

**Transform and gates** (`SpectralProofs`). *Sums*: `Total` is a recursive function
over sets that picks elements with CHOOSE. It has a value (`SomeAddsUp`), which does
not depend on the order (`SumTakes`); linearity, sums over unions and renamings,
monotonicity and `CauchySchwarz` follow by induction on the set. *The transform*: a
stage joins the correlations of two groups of tokens with the Walsh functions of the
bits below the group size to that of their union (`ButterflyCorrelates`), so the last
stage has the correlations with all bits (`TransformCorrelates`); each stage doubles
the energy (`StageDoublesEnergy`). *In place*: what makes `numpy_fwht_1d` right is
`InPlace`: the pairs below `j` hold the results of the stage, the others its
operands, and `j` visits each pair once (`NextPairs`). It is inductive, and with it
`WalshHolds`, `ParsevalHolds` and `StagesAreImplemented` follow. *The bound*:
`LogitIsBounded` is the argument of `compute_query_aware_bounds`: the logit of a
token is the product with the mean plus that with the deviation, which
`CauchySchwarz` bounds, and the deviation of one token is at most the residual energy
of the block (`KeysAreNearMean`, from Parseval). *The threshold*: `HalfIsNear` is
the one-sided inequality of Chebyshev at one sigma: the far scores are below the
mean, the near ones must make up for them, and the variance does not suffice if the
far ones are the majority (`FarAreFew`).

Induction over data (columns, sets, stages) is written with a set of the instances
for which the claim holds and the induction on natural numbers for sets
(`NumberInduction`, `SubsetInduction`, `ElementInduction`, `StageInduction`); the
library's induction theorems, which take a predicate as a parameter, are not used.

**XLA pass** (`HloCompactPassProofs`). The pass decides loop by loop, on code it has
already changed. `MatchIsStable` is the fact that makes this harmless: as long as a
loop has no compaction of its own, it matches if and only if it did in the beginning,
because compactions and reindexed products bring no matrix product into a body, and
its condition is exchanged by nobody else. It needs `AsFound` (opcodes and
conditions are what they were as far as the match looks at them) and
`InjectedInTurn` (the running loop has no compaction before its turn, which rests on
`LoopsHaveOnePlace`); neither the two theorems nor these are inductive alone. From it
follow `OnlyAttentionIsTouched` and `NoMatchIsSkipped`, for loops nested and bodies
shared in any way. With a product among the injected instructions both the run and the
proof fail: an outer loop over the queries would be taken for an attention loop after
the inner one has been rewritten.

**Only model-checked.** Liveness (`EveryCallReturns`)
and deadlock freedom: fairness and ENABLED are outside what the prover handles. For
the same reason `StagesAreImplemented` proves the initial states and the steps of
`ImplementsFwht`, and its fairness is left to TLC. Every other property of a passing
run is also a theorem. The violations are found by TLC.

## 5. Plan

Done: every component with state or control of its own (section 2), and proofs of
every safety property and refinement the passing runs check. Next:

1. Masks of another length than the cache (`distributed_attention.py:71`), where
   slices are clamped: at present the length is a precondition of the model.
2. Under which conditions the violated properties hold, as theorems: the exchange of
   `alltoallv.py` with a gather in its place, the guarded kernel on masks that retain
   everything.
3. The part of the XLA pass that does work: a loop for which all four stages succeed.

## 6. Not modelled, and why

- Floating-point rounding: the properties are about which blocks are weighed, and
  the gate's comparisons are made on exact numbers.
- The multi-device lowering of `partitioning.py` (`_partition`,
  `_supported_sharding`): it is called by JAX's partitioner, and what that does
  with it is not in the repository.
- `ici_bandwidth_model.py`, `ici_data_volume`, `compute_tv_distance`: closed
  formulas without state or control. The gates of `reference.py` repeat those of
  `spectral_energy.py` formula by formula.
- `generate_threshold_mask` and `compute_block_energy_jax`: one comparison and one
  sum, kept for compatibility.
- The metadata and timing dictionaries, except for the counts `Pipeline` models.
- Timing, plotting, notebooks (except for the custom call), the paper and the Lean
  development.
- `benchmarks/phase_e_alltoallv.py`: a `pmap` copy of the protocol that
  `DistributedAttention` models.
- Failure of a device: the code has no handling; a lost device stops the program.
