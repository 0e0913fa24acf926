--------------------------- MODULE StratifiedGather ---------------------------
(***************************************************************************)
(* Stratified communication bucketing (phase_e_stratified.py): the kernel  *)
(* build_stratified compiles for shard_map.  Every device moves its active *)
(* blocks to the front of its shard; a pmax agrees on the largest active   *)
(* count; that count selects one of four compiled branches (lax.switch),   *)
(* each of which cuts the buffers to the bucket's capacity BEFORE its own  *)
(* all_gathers and attends with a validity mask built from the counts.     *)
(*                                                                         *)
(* The all_gathers of different branches are different collectives: they   *)
(* never match each other, so devices in different branches wait forever.  *)
(* Unlike the buffers of DistributedAttention the slots behind the active  *)
(* ones hold real, evicted blocks; only the mask keeps them out.           *)
(***************************************************************************)
EXTENDS Collectives, StreamCompact

CONSTANT NB   \* blocks per device, nb_per_dev

ASSUME NBIsPositive == NB \in Nat \ {0}

LocalBlocks == Indices(NB)
Blocks == Devices \X LocalBlocks
Branches == 1 .. 4

VARIABLES
  mask,        \* call -> device -> the mask prepare_inputs compacted
  call, pc,    \* device -> its current call and step
  kActive, vActive,          \* device -> ka, va: the shard, active blocks first
  ceiling,                   \* device -> gmax
  counts,                    \* device -> ac
  branch,                    \* device -> the branch lax.switch took
  kGathered, vGathered,      \* device -> k_g, v_g
  maxCh, countsCh,           \* channels of pmax and of the counts' all_gather
  keysCh, valuesCh,          \* branch -> channels of its all_gathers
  output       \* call -> device -> bag of pairs the output is a mean over

locals   == <<kActive, vActive, ceiling, counts, branch, kGathered, vGathered>>
channels == <<maxCh, countsCh, keysCh, valuesCh>>
vars     == <<mask, call, pc, locals, channels, output>>

Steps == {"reindex", "postMax", "awaitMax", "postCounts", "awaitCounts", "select",
          "postKeys", "awaitKeys", "postValues", "awaitValues", "attend"}

-----------------------------------------------------------------------------
(***************************************************************************)
(* Capacities: quarter, half, three quarters and all of the shard, without *)
(* duplicates, the last one repeated up to four branches.                  *)
(***************************************************************************)
AtLeastOne(n) == IF n < 1 THEN 1 ELSE n

Capacities ==
  {AtLeastOne(NB \div 4), AtLeastOne(NB \div 2), AtLeastOne((NB * 3) \div 4), NB}

BucketSize(i) ==
  LET distinct == Cardinality(Capacities)
      place    == IF i <= distinct THEN i ELSE distinct
  IN  CHOOSE b \in Capacities : Cardinality({x \in Capacities : x < b}) = place - 1

\* Faulty variant of BucketFor: a count that fills a bucket takes the next one.
BucketAbove(count) ==
  IF \E i \in 1 .. 3 : count < BucketSize(i)
  THEN CHOOSE i \in 1 .. 3 : /\ count < BucketSize(i)
                             /\ \A j \in 1 .. (i - 1) : count >= BucketSize(j)
  ELSE 4

\* bidx: the first bucket that holds the given count, else the last one
BucketFor(count) ==
  IF \E i \in 1 .. 3 : count <= BucketSize(i)
  THEN CHOOSE i \in 1 .. 3 : /\ count <= BucketSize(i)
                             /\ \A j \in 1 .. (i - 1) : count > BucketSize(j)
  ELSE 4

\* ka = kb[active_indices]: a permutation of the shard
Reindexed(d, m) == [j \in LocalBlocks |-> <<d, ActiveIndices(m, NB)[j]>>]

\* k_act[:target_k]
Cut(buffer, n) == [j \in 0 .. (n - 1) |-> buffer[j]]

\* Faulty variant of MaskedMean: one evicted block per shard counts as valid.
MaskedMeanInclusive(kAll, vAll, all, n) ==
  LET weighed == {s \in 0 .. (P * n - 1) : s % n <= all[s \div n]}
  IN  [pair \in {<<kAll[s], vAll[s]>> : s \in weighed} |->
         Cardinality({s \in weighed : <<kAll[s], vAll[s]>> = pair})]

\* The mean a masked softmax takes: valid slots only, unless none is valid;
\* then every slot carries the same -1e9 and all weigh the same.
MaskedMean(kAll, vAll, all, n) ==
  LET slots   == 0 .. (P * n - 1)
      valid   == {s \in slots : s % n < all[s \div n]}
      weighed == IF valid = {} THEN slots ELSE valid
  IN  [pair \in {<<kAll[s], vAll[s]>> : s \in weighed} |->
         Cardinality({s \in weighed : <<kAll[s], vAll[s]>> = pair})]

-----------------------------------------------------------------------------
\* make_mask never evicts everything: some block of every call is active.
Init ==
  /\ mask \in [1 .. Calls -> [Devices -> [LocalBlocks -> BOOLEAN]]]
  /\ \A c \in 1 .. Calls : \E b \in Blocks : mask[c][b[1]][b[2]]
  /\ call      = [d \in Devices |-> 1]
  /\ pc        = [d \in Devices |-> "reindex"]
  /\ kActive   = [d \in Devices |-> Absent]
  /\ vActive   = [d \in Devices |-> Absent]
  /\ ceiling   = [d \in Devices |-> Absent]
  /\ counts    = [d \in Devices |-> Absent]
  /\ branch    = [d \in Devices |-> Absent]
  /\ kGathered = [d \in Devices |-> Absent]
  /\ vGathered = [d \in Devices |-> Absent]
  /\ maxCh     = EmptyChannel
  /\ countsCh  = EmptyChannel
  /\ keysCh    = [i \in Branches |-> EmptyChannel]
  /\ valuesCh  = [i \in Branches |-> EmptyChannel]
  /\ output    = EmptyChannel

Goto(d, here, next) ==
  /\ call[d] \in 1 .. Calls
  /\ pc[d] = here
  /\ pc' = [pc EXCEPT ![d] = next]

ActiveHere(d) == NumActive(mask[call[d]][d], NB)

Reindex(d) ==
  /\ Goto(d, "reindex", "postMax")
  /\ kActive' = [kActive EXCEPT ![d] = Reindexed(d, mask[call[d]][d])]
  /\ vActive' = [vActive EXCEPT ![d] = Reindexed(d, mask[call[d]][d])]
  /\ UNCHANGED <<mask, call, ceiling, counts, branch, kGathered, vGathered, channels, output>>

\* gmax = pmax(num_active)
PostMax(d) ==
  /\ Goto(d, "postMax", "awaitMax")
  /\ maxCh' = Post(maxCh, call[d], d, ActiveHere(d))
  /\ UNCHANGED <<mask, call, locals, countsCh, keysCh, valuesCh, output>>

\* Faulty variant of AwaitMax: psum in place of pmax.
AwaitSum(d) ==
  /\ Goto(d, "awaitMax", "postCounts")
  /\ Complete(maxCh, call[d])
  /\ ceiling' = [ceiling EXCEPT ![d] = SumOver(maxCh[call[d]])]
  /\ UNCHANGED <<mask, call, kActive, vActive, counts, branch, kGathered, vGathered,
                 channels, output>>

AwaitMax(d) ==
  /\ Goto(d, "awaitMax", "postCounts")
  /\ Complete(maxCh, call[d])
  /\ ceiling' = [ceiling EXCEPT ![d] = MaxOver(maxCh[call[d]])]
  /\ UNCHANGED <<mask, call, kActive, vActive, counts, branch, kGathered, vGathered,
                 channels, output>>

\* ac = all_gather(num_active)
PostCounts(d) ==
  /\ Goto(d, "postCounts", "awaitCounts")
  /\ countsCh' = Post(countsCh, call[d], d, ActiveHere(d))
  /\ UNCHANGED <<mask, call, locals, maxCh, keysCh, valuesCh, output>>

AwaitCounts(d) ==
  /\ Goto(d, "awaitCounts", "select")
  /\ Complete(countsCh, call[d])
  /\ counts' = [counts EXCEPT ![d] = countsCh[call[d]]]
  /\ UNCHANGED <<mask, call, kActive, vActive, ceiling, branch, kGathered, vGathered,
                 channels, output>>

\* Faulty variant of Select: the branch follows the device's own count.
SelectLocally(d) ==
  /\ Goto(d, "select", "postKeys")
  /\ branch' = [branch EXCEPT ![d] = BucketFor(ActiveHere(d))]
  /\ UNCHANGED <<mask, call, kActive, vActive, ceiling, counts, kGathered, vGathered,
                 channels, output>>

\* lax.switch(bidx, ...)
Select(d) ==
  /\ Goto(d, "select", "postKeys")
  /\ branch' = [branch EXCEPT ![d] = BucketFor(ceiling[d])]
  /\ UNCHANGED <<mask, call, kActive, vActive, ceiling, counts, kGathered, vGathered,
                 channels, output>>

\* Inside the branch: all_gather of the cut keys, then of the cut values.
PostKeys(d) ==
  /\ Goto(d, "postKeys", "awaitKeys")
  /\ keysCh' = [keysCh EXCEPT ![branch[d]] =
                  Post(@, call[d], d, Cut(kActive[d], BucketSize(branch[d])))]
  /\ UNCHANGED <<mask, call, locals, maxCh, countsCh, valuesCh, output>>

AwaitKeys(d) ==
  /\ Goto(d, "awaitKeys", "postValues")
  /\ Complete(keysCh[branch[d]], call[d])
  /\ kGathered' = [kGathered EXCEPT ![d] =
                     TiledGather(keysCh[branch[d]][call[d]], BucketSize(branch[d]))]
  /\ UNCHANGED <<mask, call, kActive, vActive, ceiling, counts, branch, vGathered,
                 channels, output>>

PostValues(d) ==
  /\ Goto(d, "postValues", "awaitValues")
  /\ valuesCh' = [valuesCh EXCEPT ![branch[d]] =
                    Post(@, call[d], d, Cut(vActive[d], BucketSize(branch[d])))]
  /\ UNCHANGED <<mask, call, locals, maxCh, countsCh, keysCh, output>>

AwaitValues(d) ==
  /\ Goto(d, "awaitValues", "attend")
  /\ Complete(valuesCh[branch[d]], call[d])
  /\ vGathered' = [vGathered EXCEPT ![d] =
                     TiledGather(valuesCh[branch[d]][call[d]], BucketSize(branch[d]))]
  /\ UNCHANGED <<mask, call, kActive, vActive, ceiling, counts, branch, kGathered,
                 channels, output>>

\* Masked softmax over the gathered slots; the call returns.
Attend(d) ==
  /\ Goto(d, "attend", "reindex")
  /\ output' = [output EXCEPT ![call[d]][d] =
                  MaskedMean(kGathered[d], vGathered[d], counts[d], BucketSize(branch[d]))]
  /\ call' = [call EXCEPT ![d] = @ + 1]
  /\ kActive'   = [kActive   EXCEPT ![d] = Absent]
  /\ vActive'   = [vActive   EXCEPT ![d] = Absent]
  /\ ceiling'   = [ceiling   EXCEPT ![d] = Absent]
  /\ counts'    = [counts    EXCEPT ![d] = Absent]
  /\ branch'    = [branch    EXCEPT ![d] = Absent]
  /\ kGathered' = [kGathered EXCEPT ![d] = Absent]
  /\ vGathered' = [vGathered EXCEPT ![d] = Absent]
  /\ UNCHANGED <<mask, channels>>

Device(d) ==
  \/ Reindex(d)
  \/ PostMax(d)     \/ AwaitMax(d)
  \/ PostCounts(d)  \/ AwaitCounts(d)
  \/ Select(d)
  \/ PostKeys(d)    \/ AwaitKeys(d)
  \/ PostValues(d)  \/ AwaitValues(d)
  \/ Attend(d)

Finished ==
  /\ \A d \in Devices : call[d] = Calls + 1
  /\ UNCHANGED vars

Next == (\E d \in Devices : Device(d)) \/ Finished

Spec == Init /\ [][Next]_vars

FairSpec == Spec /\ \A d \in Devices : WF_vars(Device(d))

-----------------------------------------------------------------------------
(***************************************************************************)
(* Properties.                                                             *)
(***************************************************************************)
ActiveBlocks(c) == {b \in Blocks : mask[c][b[1]][b[2]]}

OptionalOf(S) == S \cup {Absent}

\* Every variable has the shape the code's arrays have; a gathered buffer has
\* as many blocks as its branch's capacity asks for.
TypeOK ==
  /\ mask \in [1 .. Calls -> [Devices -> [LocalBlocks -> BOOLEAN]]]
  /\ call \in [Devices -> 1 .. (Calls + 1)]
  /\ pc \in [Devices -> Steps]
  /\ kActive \in [Devices -> OptionalOf([LocalBlocks -> Blocks])]
  /\ vActive \in [Devices -> OptionalOf([LocalBlocks -> Blocks])]
  /\ ceiling \in [Devices -> OptionalOf(0 .. NB)]
  /\ counts \in [Devices -> OptionalOf([Devices -> 0 .. NB])]
  /\ branch \in [Devices -> OptionalOf(Branches)]
  /\ maxCh \in [1 .. Calls -> [Devices -> OptionalOf(0 .. NB)]]
  /\ countsCh \in [1 .. Calls -> [Devices -> OptionalOf(0 .. NB)]]
  /\ \A i \in Branches : \A c \in 1 .. Calls : \A d \in Devices :
       /\ keysCh[i][c][d] \in OptionalOf([0 .. (BucketSize(i) - 1) -> Blocks])
       /\ valuesCh[i][c][d] \in OptionalOf([0 .. (BucketSize(i) - 1) -> Blocks])
  /\ \A d \in Devices : branch[d] # Absent =>
       /\ kGathered[d] \in OptionalOf([0 .. (P * BucketSize(branch[d]) - 1) -> Blocks])
       /\ vGathered[d] \in OptionalOf([0 .. (P * BucketSize(branch[d]) - 1) -> Blocks])

\* "pmax consensus selects the tightest bucket that fits the global maximum
\* active count" (phase_e_stratified.py:168-169): the capacity the switch
\* takes holds every device's active blocks, and no smaller one would.
TightestFit ==
  \A d \in Devices : branch[d] # Absent =>
    /\ \A e \in Devices :
         NumActive(mask[call[d]][e], NB) <= BucketSize(branch[d])
    /\ \A n \in Capacities : n < BucketSize(branch[d]) =>
         \E e \in Devices : NumActive(mask[call[d]][e], NB) > n

\* "same on all devices -> same branch" (line 261): two devices inside the
\* switch of one call are in the same branch, so its collectives match.
SameBranch ==
  \A d, e \in Devices :
    call[d] = call[e] /\ branch[d] # Absent /\ branch[e] # Absent => branch[d] = branch[e]

\* No active block is cut off and no evicted one is let through the mask: the
\* kernel implements the specification of distributed attention.
Promise == INSTANCE GlobalAttention
             WITH active <- [c \in 1 .. Calls |-> ActiveBlocks(c)]

ImplementsGlobalAttention == Promise!Spec

\* Every call returns everywhere: nobody waits for a peer in another branch.
EveryCallReturns == <>(\A d \in Devices : call[d] = Calls + 1)

=============================================================================
