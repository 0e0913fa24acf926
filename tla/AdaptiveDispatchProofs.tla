------------------------ MODULE AdaptiveDispatchProofs ------------------------
(***************************************************************************)
(* The dispatcher computes what it documents for every number of threads,  *)
(* every plan of calls and every length of run, provided the callers are   *)
(* ones for whom its shared state is harmless (SafeUse).  The violation    *)
(* runs show that neither half of SafeUse can be dropped.                  *)
(***************************************************************************)
EXTENDS AdaptiveDispatch, StreamCompactProofs

-----------------------------------------------------------------------------
(* Part 1: the loop over the retained blocks weighs the retained tokens.   *)

\* A token lies in exactly one block of a given size.
LEMMA TokenInBlock ==
  ASSUME NEW size \in Nat \ {0}, NEW t \in Nat
  PROVE  /\ t \div size \in Nat
         /\ \A b \in Nat : (b * size <= t /\ t < b * size + size) <=> b = t \div size
<1>1. t % size = t - size * (t \div size)
  BY SMTT(30)
<1>2. t % size \in 0 .. (size - 1)
  BY SMT
<1>3. t \div size \in Nat
  BY SMTT(30)
<1>4. t = (t \div size) * size + (t % size)
  BY <1>1, <1>2, <1>3, SMTT(30)
<1>5. ASSUME NEW b \in Nat, b * size <= t, t < b * size + size
      PROVE  b = t \div size
  <2> DEFINE d == t \div size
  <2>1. d \in Nat /\ d * size <= t /\ t < d * size + size
    BY <1>2, <1>3, <1>4, SMTT(30)
  <2> HIDE DEF d
  <2>2. ~(b < d)
    <3>1. SUFFICES ASSUME b + 1 <= d PROVE FALSE
      BY <2>1
    <3>2. (b + 1) * size <= d * size
      BY <2>1, <3>1, SMTT(30)
    <3> QED
      BY <1>5, <2>1, <3>2, SMTT(30)
  <2>3. ~(d < b)
    <3>1. SUFFICES ASSUME d + 1 <= b PROVE FALSE
      BY <2>1
    <3>2. (d + 1) * size <= b * size
      BY <2>1, <3>1, SMTT(30)
    <3> QED
      BY <1>5, <2>1, <3>2, SMTT(30)
  <2> QED
    BY <2>1, <2>2, <2>3 DEF d
<1> QED
  BY <1>2, <1>3, <1>4, <1>5, SMTT(30)

\* What the assumptions on a call say, and how many blocks it has.
LEMMA RequestData ==
  ASSUME NEW r \in Requests
  PROVE  /\ r.seq \in Nat \ {0} /\ r.size \in Nat \ {0} /\ r.size <= r.seq
         /\ NumBlocks(r) \in Nat
         /\ NumBlocks(r) * r.size <= r.seq
         /\ r.mask \in [Indices(NumBlocks(r)) -> BOOLEAN]
<1>1. r.seq \in Nat \ {0} /\ r.size \in 1 .. r.seq /\ r.mask \in [Indices(r.seq \div r.size) -> BOOLEAN]
  BY RequestsAreCalls
<1> DEFINE size == r.size  seq == r.seq
<1>2. size \in Nat \ {0} /\ seq \in Nat
  BY <1>1
<1> HIDE DEF size, seq
<1>3. /\ seq \div size \in Nat
      /\ (seq \div size) * size <= seq
  BY <1>2, TokenInBlock
<1> QED
  BY <1>1, <1>2, <1>3 DEF NumBlocks, size, seq

\* The slice of a block that exists is not clamped: it is the block.
LEMMA SliceIsBlock ==
  ASSUME NEW r \in Requests, NEW b \in Indices(NumBlocks(r)), NEW t \in Indices(r.seq)
  PROVE  t \in BlockTokens(b, r.size, r.seq) <=> b = t \div r.size
<1> DEFINE size == r.size  seq == r.seq  n == NumBlocks(r)
<1>1. size \in Nat \ {0} /\ seq \in Nat /\ n \in Nat /\ n * size <= seq
  BY RequestData
<1>2. b \in Nat /\ t \in Nat /\ b + 1 <= n
  BY <1>1 DEF Indices
<1> HIDE DEF size, seq, n
<1>3. (b + 1) * size <= n * size
  BY <1>1, <1>2, SMTT(30)
<1>4. b * size \in Nat /\ b * size + size <= seq
  BY <1>1, <1>2, <1>3, SMTT(30)
<1>5. SliceStart(b * size, size, seq) = b * size
  BY <1>1, <1>4 DEF SliceStart
<1> DEFINE start == b * size
<1>6. start \in Nat
  BY <1>4
<1> HIDE DEF start
<1>7. t \in {start + i : i \in 0 .. (size - 1)} <=> start <= t /\ t < start + size
  <2>1. ASSUME start <= t, t < start + size
        PROVE  t \in {start + i : i \in 0 .. (size - 1)}
    <3>1. t - start \in 0 .. (size - 1) /\ t = start + (t - start)
      BY <1>1, <1>2, <1>6, <2>1
    <3> QED
      BY <3>1
  <2> QED
    BY <1>1, <1>2, <1>6, <2>1
<1>8. t \in BlockTokens(b, size, seq) <=> b * size <= t /\ t < b * size + size
  BY <1>5, <1>7 DEF BlockTokens, start
<1> QED
  BY <1>1, <1>2, <1>8, TokenInBlock DEF size, seq

\* A call retains a token exactly if it retains one of its blocks.
LEMMA RetainedByBlock ==
  ASSUME NEW r \in Requests
  PROVE  /\ \A t \in Indices(r.seq) :
              t \in Retained(r) <=> \E b \in Indices(NumBlocks(r)) : r.mask[b] /\ b = t \div r.size
         /\ Retained(r) = {} <=> NumActive(r.mask, NumBlocks(r)) = 0
<1> DEFINE size == r.size  seq == r.seq  n == NumBlocks(r)
<1>1. /\ size \in Nat \ {0} /\ seq \in Nat /\ n \in Nat /\ n * size <= seq
      /\ r.mask \in [Indices(n) -> BOOLEAN]
  BY RequestData
<1>2. ASSUME NEW t \in Indices(seq)
      PROVE  t < n * size <=> t \div size \in Indices(n)
  <2> DEFINE d == t \div size
  <2>1. t \in Nat
    BY <1>1, <1>2 DEF Indices
  <2> HIDE DEF size, seq, n
  <2>2. d \in Nat /\ d * size <= t /\ t < d * size + size
    BY <1>1, <2>1, TokenInBlock
  <2> HIDE DEF d
  <2>3. d < n => t < n * size
    <3>1. SUFFICES ASSUME d + 1 <= n PROVE t < n * size
      BY <1>1, <2>2
    <3>2. (d + 1) * size <= n * size
      BY <1>1, <2>2, <3>1, SMTT(30)
    <3> QED
      BY <1>1, <2>1, <2>2, <3>2, SMTT(30)
  <2>4. ~(d < n) => ~(t < n * size)
    <3>1. SUFFICES ASSUME n <= d PROVE n * size <= t
      BY <1>1, <2>1, <2>2, SMTT(30)
    <3>2. n * size <= d * size
      BY <1>1, <2>2, <3>1, SMTT(30)
    <3> QED
      BY <1>1, <2>1, <2>2, <3>2, SMTT(30)
  <2> QED
    BY <1>1, <2>2, <2>3, <2>4 DEF Indices, d
<1>3. \A t \in Indices(seq) :
        t \in Retained(r) <=> \E b \in Indices(n) : r.mask[b] /\ b = t \div size
  BY <1>2 DEF Retained
<1>4. ASSUME NEW b \in Indices(n), r.mask[b]
      PROVE  Retained(r) # {}
  <2>1. b \in Nat /\ b + 1 <= n
    BY <1>1 DEF Indices
  <2> DEFINE t == b * size
  <2>2. t \in Indices(seq) /\ b = t \div size
    <3> HIDE DEF size, seq, n
    <3>1. (b + 1) * size <= n * size
      BY <1>1, <2>1, SMTT(30)
    <3>2. t \in Nat /\ t < seq /\ b * size <= t /\ t < b * size + size
      BY <1>1, <2>1, <3>1, SMTT(30)
    <3> QED
      BY <1>1, <2>1, <3>2, TokenInBlock DEF Indices
  <2> QED
    BY <1>3, <1>4, <2>2
<1> DEFINE kept == {b \in Indices(n) : r.mask[b]}
<1>5. IsFiniteSet(kept)
  BY <1>1, IndicesFinite, FS_Subset
<1>6. NumActive(r.mask, n) = 0 <=> kept = {}
  BY <1>5, FS_EmptySet DEF NumActive
<1>7. Retained(r) # {} => kept # {}
  <2> SUFFICES ASSUME NEW t \in Retained(r) PROVE kept # {}
    OBVIOUS
  <2>1. t \in Indices(seq)
    BY DEF Retained
  <2> QED
    BY <1>3, <2>1
<1> QED
  BY <1>3, <1>4, <1>6, <1>7

\* Running the loop over the active prefix of a call's own indices, at its own
\* block size, weighs the retained tokens once each and no others.
THEOREM AttendedIsExpected ==
  ASSUME NEW r \in Requests, NumActive(r.mask, NumBlocks(r)) # 0
  PROVE  Attended(ActiveIndices(r.mask, NumBlocks(r)), NumActive(r.mask, NumBlocks(r)),
                  r.size, r.seq) = Expected(r)
<1> DEFINE n == NumBlocks(r)
           K == NumActive(r.mask, n)
           indices == ActiveIndices(r.mask, n)
           hits(t) == {i \in 0 .. (K - 1) : t \in BlockTokens(indices[i], r.size, r.seq)}
<1>1. n \in Nat /\ r.mask \in [Indices(n) -> BOOLEAN]
  BY RequestData
<1>2. /\ K \in 0 .. n
      /\ indices \in [Indices(n) -> Indices(n)]
      /\ \A i \in Indices(n) : r.mask[indices[i]] <=> i < K
      /\ \A i, j \in Indices(n) : indices[i] = indices[j] => i = j
      /\ \A b \in Indices(n) : r.mask[b] => \E i \in Indices(n) : i < K /\ indices[i] = b
  BY <1>1, ActiveIndicesCorrect
<1>3. \A i : i \in 0 .. (K - 1) <=> i \in Indices(n) /\ i < K
  BY <1>1, <1>2 DEF Indices
<1> HIDE DEF K, indices, n
<1>4. ASSUME NEW t \in Indices(r.seq)
      PROVE  hits(t) = {i \in Indices(n) : i < K /\ indices[i] = t \div r.size}
  BY <1>2, <1>3, <1>4, SliceIsBlock DEF n
<1>5. ASSUME NEW t \in Retained(r), t \in Indices(r.seq)
      PROVE  Cardinality(hits(t)) = 1
  <2>1. PICK b \in Indices(n) : r.mask[b] /\ b = t \div r.size
    BY <1>5, RetainedByBlock DEF n
  <2>2. PICK i \in Indices(n) : i < K /\ indices[i] = b
    BY <1>2, <2>1
  <2>3. hits(t) = {j \in Indices(n) : j < K /\ indices[j] = indices[i]}
    BY <1>4, <1>5, <2>1, <2>2
  <2>4. \A j \in Indices(n) : indices[j] = indices[i] <=> j = i
    BY <1>2
  <2>5. hits(t) = {i}
    <3> HIDE DEF hits
    <3> QED
      BY <2>2, <2>3, <2>4
  <2> QED
    BY <2>5, FS_Singleton
<1>6. ASSUME NEW t \in Indices(r.seq), t \notin Retained(r)
      PROVE  Cardinality(hits(t)) = 0
  <2>1. hits(t) = {}
    BY <1>2, <1>4, <1>6, RetainedByBlock DEF n
  <2> QED
    BY <2>1, FS_EmptySet
<1>7. Attended(indices, K, r.size, r.seq) = [t \in Indices(r.seq) |-> Cardinality(hits(t))]
  BY DEF Attended
<1>8. Attended(indices, K, r.size, r.seq)
        = [t \in Indices(r.seq) |-> IF t \in Retained(r) THEN 1 ELSE 0]
  <2> HIDE DEF hits
  <2> QED
    BY <1>5, <1>6, <1>7
<1>9. Retained(r) # {}
  BY RetainedByBlock
<1> QED
  BY <1>8, <1>9 DEF Expected, n, K, indices

-----------------------------------------------------------------------------
(* Part 2: the invariant.                                                  *)

\* Nobody has called yet.
LEMMA InitIInv == Init => IInv
  BY PlansAreForThreads DEF Init, IInv, InsideCall, EntriesFitTheirKeys

\* No step changes what the process may do, hence who is safe.
LEMMA PlanIsFixed ==
  ASSUME plan' = plan
  PROVE  (SafeUse' <=> SafeUse) /\ Planned' = Planned
<1>1. Planned' = Planned
  BY DEF Planned
<1>2. OneSize' <=> OneSize
  BY <1>1 DEF OneSize
<1>3. OneThread' <=> OneThread
  BY DEF OneThread
<1>4. KeysDetermineSizes' <=> KeysDetermineSizes
  BY <1>1 DEF KeysDetermineSizes, NumBlocks
<1> QED
  BY <1>1, <1>2, <1>3, <1>4 DEF SafeUse

\* A call in progress is one of the planned calls.
LEMMA CallInProgress ==
  ASSUME IInv, SafeUse, NEW t \in Threads, pc[t] # "idle"
  PROVE  /\ req[t] \in plan[t] /\ req[t] \in Planned /\ req[t] \in Requests
         /\ BS = req[t].size
  BY DEF IInv, InsideCall, Planned

\* A safe caller's call leaves the BS of every call in progress as it was.
LEMMA SafeBegin ==
  ASSUME SafeUse, IInv, NEW t \in Threads, NEW r \in Requests, Begin(t, r),
         NEW u \in Threads, u # t, pc[u] # "idle"
  PROVE  BS = r.size
<1>1. r \in plan[t] /\ r \in Planned
  BY DEF Begin, Planned
<1>2. req[u] \in plan[u] /\ req[u] \in Planned /\ BS = req[u].size
  BY CallInProgress
<1>3. ~OneThread
  BY <1>1, <1>2 DEF OneThread
<1> QED
  BY <1>1, <1>2, <1>3 DEF SafeUse, OneSize

\* Beginning a call stores its block size.
LEMMA BeginIInv ==
  ASSUME IInv, NEW t \in Threads, NEW r \in Requests, Begin(t, r)
  PROVE  IInv'
<1>1. (SafeUse' <=> SafeUse) /\ Planned' = Planned
  BY PlanIsFixed DEF Begin
<1>2. SafeUse => \A u \in Threads : u # t /\ pc[u] # "idle" => BS = r.size
  BY SafeBegin
<1>3. ASSUME SafeUse, NEW u \in Threads
      PROVE  InsideCall(u)'
  <2>1. CASE u = t
    BY <1>3, <2>1 DEF IInv, InsideCall, Begin, Goto
  <2>2. CASE u # t
    BY <1>2, <1>3, <2>2 DEF IInv, InsideCall, Begin, Goto
  <2> QED
    BY <2>1, <2>2
<1>4. EntriesFitTheirKeys'
  BY <1>1 DEF IInv, Begin, EntriesFitTheirKeys
<1> QED
  BY <1>1, <1>3, <1>4 DEF IInv, Begin, Goto

\* Compaction computes the indices of the call's own mask.
LEMMA CompactIInv ==
  ASSUME IInv, NEW t \in Threads, Compact(t)
  PROVE  IInv'
<1>1. (SafeUse' <=> SafeUse) /\ Planned' = Planned
  BY PlanIsFixed DEF Compact
<1>2. ASSUME SafeUse, NEW u \in Threads
      PROVE  InsideCall(u)'
  BY <1>2 DEF IInv, InsideCall, Compact, Goto
<1>3. EntriesFitTheirKeys'
  BY <1>1 DEF IInv, Compact, EntriesFitTheirKeys
<1> QED
  BY <1>1, <1>2, <1>3 DEF IInv, Compact, Goto

\* A mask that keeps nothing keeps no token.
LEMMA ReturnZerosIInv ==
  ASSUME IInv, NEW t \in Threads, ReturnZeros(t)
  PROVE  IInv'
<1>1. (SafeUse' <=> SafeUse) /\ Planned' = Planned
  BY PlanIsFixed DEF ReturnZeros
<1>2. ASSUME SafeUse
      PROVE  Expected(req[t]) = Zeros
  <2>1. req[t] \in Requests
    BY <1>2, CallInProgress DEF ReturnZeros, Goto
  <2> QED
    BY <2>1, RetainedByBlock DEF ReturnZeros, Expected
<1>3. ASSUME SafeUse, NEW u \in Threads
      PROVE  InsideCall(u)'
  BY <1>2, <1>3 DEF IInv, InsideCall, ReturnZeros, Goto
<1>4. EntriesFitTheirKeys'
  BY <1>1 DEF IInv, ReturnZeros, EntriesFitTheirKeys
<1> QED
  BY <1>1, <1>3, <1>4 DEF IInv, ReturnZeros, Goto

\* What a call in its dispatch computes when it slices with its own block size.
LEMMA OwnSizeIsExpected ==
  ASSUME IInv, SafeUse, NEW t \in Threads, pc[t] \in {"dispatch", "trace"}
  PROVE  Attended(order[t], numActive[t], req[t].size, req[t].seq) = Expected(req[t])
<1>1. req[t] \in Requests
  BY CallInProgress
<1>2. /\ order[t] = ActiveIndices(req[t].mask, NumBlocks(req[t]))
      /\ numActive[t] = NumActive(req[t].mask, NumBlocks(req[t]))
      /\ numActive[t] # 0
  BY DEF IInv, InsideCall
<1> QED
  BY <1>1, <1>2, AttendedIsExpected

\* Compiled code that fits its key is right for the call that finds it.
LEMMA RunCompiledIInv ==
  ASSUME IInv, NEW t \in Threads, RunCompiled(t)
  PROVE  IInv'
<1> DEFINE key == CacheKey(req[t], numActive[t])
<1>1. (SafeUse' <=> SafeUse) /\ Planned' = Planned
  BY PlanIsFixed DEF RunCompiled
<1>2. ASSUME SafeUse
      PROVE  key \in DOMAIN cache /\ cache[key] = req[t].size
  <2>1. key \in DOMAIN cache
    BY DEF RunCompiled
  <2>2. /\ req[t].batch = key.batch /\ req[t].seq = key.seq
        /\ NumBlocks(req[t]) = key.nb
    BY DEF CacheKey
  <2>3. req[t] \in Planned
    BY <1>2, CallInProgress DEF RunCompiled, Goto
  <2> HIDE DEF key
  <2> QED
    BY <1>2, <2>1, <2>2, <2>3 DEF IInv, EntriesFitTheirKeys
<1>3. SafeUse => result' = [result EXCEPT ![t] = Expected(req[t])]
  BY <1>2, OwnSizeIsExpected DEF RunCompiled, Goto
<1>4. ASSUME SafeUse, NEW u \in Threads
      PROVE  InsideCall(u)'
  BY <1>3, <1>4 DEF IInv, InsideCall, RunCompiled, Goto
<1>5. EntriesFitTheirKeys'
  BY <1>1 DEF IInv, RunCompiled, EntriesFitTheirKeys
<1> QED
  BY <1>1, <1>4, <1>5 DEF IInv, RunCompiled, Goto

\* The trace reads the call's own block size for the keys.
LEMMA TraceKeysIInv ==
  ASSUME IInv, NEW t \in Threads, TraceKeys(t)
  PROVE  IInv'
<1>1. (SafeUse' <=> SafeUse) /\ Planned' = Planned
  BY PlanIsFixed DEF TraceKeys
<1>2. ASSUME SafeUse, NEW u \in Threads
      PROVE  InsideCall(u)'
  BY <1>2 DEF IInv, InsideCall, TraceKeys, Goto
<1>3. EntriesFitTheirKeys'
  BY <1>1 DEF IInv, TraceKeys, EntriesFitTheirKeys
<1> QED
  BY <1>1, <1>2, <1>3 DEF IInv, TraceKeys, Goto

\* ... and again for the values, and files it under a key it fits.
LEMMA TraceValuesIInv ==
  ASSUME IInv, NEW t \in Threads, TraceValues(t)
  PROVE  IInv'
<1> DEFINE key == CacheKey(req[t], numActive[t])
<1>1. (SafeUse' <=> SafeUse) /\ Planned' = Planned
  BY PlanIsFixed DEF TraceValues
<1>2. SafeUse => BS = req[t].size /\ req[t] \in Planned
  BY CallInProgress DEF TraceValues, Goto
<1>3. SafeUse => result' = [result EXCEPT ![t] = Expected(req[t])]
  BY <1>2, OwnSizeIsExpected DEF TraceValues, Goto
<1>4. ASSUME SafeUse, NEW u \in Threads
      PROVE  InsideCall(u)'
  BY <1>3, <1>4 DEF IInv, InsideCall, TraceValues, Goto
<1>5. ASSUME SafeUse, NEW r \in Planned,
             r.batch = key.batch, r.seq = key.seq, NumBlocks(r) = key.nb
      PROVE  BS = r.size
  <2>1. /\ r.batch = req[t].batch /\ r.seq = req[t].seq
        /\ NumBlocks(r) = NumBlocks(req[t])
    BY <1>5 DEF CacheKey
  <2> QED
    BY <1>2, <1>5, <2>1 DEF SafeUse, OneSize, KeysDetermineSizes
<1>6. EntriesFitTheirKeys'
  <2>1. cache' = Filed(key, BS) \/ cache' = cache
    BY DEF TraceValues
  <2> HIDE DEF key
  <2>2. CASE cache' = Filed(key, BS)
    BY <1>1, <1>5, <2>2 DEF IInv, EntriesFitTheirKeys, Filed
  <2>3. CASE cache' = cache
    BY <1>1, <2>3 DEF IInv, EntriesFitTheirKeys
  <2> QED
    BY <2>1, <2>2, <2>3
<1> QED
  BY <1>1, <1>4, <1>6 DEF IInv, TraceValues, Goto

\* A safe caller's trace does not raise: both reads found the call's own size.
\* For other callers an exception keeps the invariant, which says nothing of them.
LEMMA TraceRaisesIInv ==
  ASSUME IInv, NEW t \in Threads, TraceRaises(t)
  PROVE  IInv'
<1>1. (SafeUse' <=> SafeUse) /\ Planned' = Planned
  BY PlanIsFixed DEF TraceRaises
<1>2. ~SafeUse
  <2> SUFFICES ASSUME SafeUse
               PROVE  ~TraceFails(t)
    BY DEF TraceRaises
  <2>1. req[t] \in Requests /\ BS = req[t].size
    BY CallInProgress DEF TraceRaises, Goto
  <2>2. kSize[t] = BS
    BY DEF IInv, InsideCall, TraceRaises, Goto
  <2>3. BS \in Nat /\ req[t].seq \in Nat /\ BS <= req[t].seq
    BY <2>1, RequestData
  <2> QED
    BY <2>2, <2>3 DEF TraceFails
<1> QED
  BY <1>1, <1>2 DEF IInv, TraceRaises, Goto, EntriesFitTheirKeys

\* A step that changes nothing changes nothing.
LEMMA StutterIInv ==
  ASSUME IInv, UNCHANGED vars
  PROVE  IInv'
<1>1. (SafeUse' <=> SafeUse) /\ Planned' = Planned
  BY PlanIsFixed DEF vars
<1>2. ASSUME SafeUse, NEW u \in Threads
      PROVE  InsideCall(u)'
  BY <1>2 DEF vars, IInv, InsideCall
<1> QED
  BY <1>1, <1>2 DEF vars, IInv, EntriesFitTheirKeys

\* The shared state of safe callers never holds anything but what their own
\* calls would have put there.
THEOREM InductiveInvariant == Spec => []IInv
<1>1. IInv /\ [Next]_vars => IInv'
  <2> SUFFICES ASSUME IInv, [Next]_vars
               PROVE  IInv'
    OBVIOUS
  <2>1. ASSUME NEW t \in Threads, NEW r \in Requests, Begin(t, r)
        PROVE  IInv'
    BY <2>1, BeginIInv
  <2>2. ASSUME NEW t \in Threads, Compact(t)
        PROVE  IInv'
    BY <2>2, CompactIInv
  <2>3. ASSUME NEW t \in Threads, ReturnZeros(t)
        PROVE  IInv'
    BY <2>3, ReturnZerosIInv
  <2>4. ASSUME NEW t \in Threads, RunCompiled(t)
        PROVE  IInv'
    BY <2>4, RunCompiledIInv
  <2>5. ASSUME NEW t \in Threads, TraceKeys(t)
        PROVE  IInv'
    BY <2>5, TraceKeysIInv
  <2>6. ASSUME NEW t \in Threads, TraceValues(t)
        PROVE  IInv'
    BY <2>6, TraceValuesIInv
  <2>7. ASSUME NEW t \in Threads, TraceRaises(t)
        PROVE  IInv'
    BY <2>7, TraceRaisesIInv
  <2> QED
    BY <2>1, <2>2, <2>3, <2>4, <2>5, <2>6, <2>7, StutterIInv DEF Next, Proceed
<1> QED
  BY <1>1, InitIInv, PTL DEF Spec

\* Safe callers get the tokens they asked for, whatever was traced before.
THEOREM SafeCallersServed == Spec => []SafeCallersAreServed
<1>1. IInv => SafeCallersAreServed
  BY DEF IInv, InsideCall, SafeCallersAreServed, AttendsRequestedTokens
<1> QED
  BY <1>1, InductiveInvariant, PTL

\* ... because every cached program was traced at its key's block size.
THEOREM CacheEntriesFit == Spec => []EntriesFitTheirKeys
<1>1. IInv => EntriesFitTheirKeys
  BY DEF IInv
<1> QED
  BY <1>1, InductiveInvariant, PTL

\* Block sizes that divide their sequence, as those of the tests do, are told
\* apart by the shapes a key holds: one thread may mix them freely.
THEOREM DivisorsDetermineSizes ==
  ASSUME Planned \subseteq Requests,
         \A r \in Planned : NumBlocks(r) * r.size = r.seq
  PROVE  KeysDetermineSizes
<1> SUFFICES ASSUME NEW r \in Planned, NEW s \in Planned,
                    r.seq = s.seq, NumBlocks(r) = NumBlocks(s)
             PROVE  r.size = s.size
  BY DEF KeysDetermineSizes
<1> DEFINE n == NumBlocks(r)  a == r.size  b == s.size  seq == r.seq
<1>1. n \in Nat /\ a \in Nat /\ b \in Nat /\ seq \in Nat \ {0}
  BY RequestData
<1>2. n * a = seq /\ n * b = seq
  OBVIOUS
<1> HIDE DEF n, a, b, seq
<1>3. n # 0
  BY <1>1, <1>2
<1>4. n * (a - b) = 0
  BY <1>1, <1>2, SMTT(30)
<1>5. a = b
  BY <1>1, <1>3, <1>4, SMTT(30)
<1> QED
  BY <1>5 DEF a, b

===============================================================================
