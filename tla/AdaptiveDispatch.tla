--------------------------- MODULE AdaptiveDispatch ---------------------------
(***************************************************************************)
(* The single-chip dispatcher (adaptive_attention.py): orthocache_attention*)
(* and its batched twin.  A call stores its block_size in the module       *)
(* global BS, compacts the mask, and runs one of four jitted functions.    *)
(* jax.jit traces a function once per cache key - the shapes of its        *)
(* arguments and the static num_active - and a trace bakes in whatever BS  *)
(* holds at that moment; later calls with the same key run the compiled    *)
(* code and never read BS again.  BS and the cache are shared by every     *)
(* caller of the process.                                                  *)
(*                                                                         *)
(* Which thread makes which calls is chosen at the start, so that one      *)
(* model covers callers for whom the sharing is harmless and others.       *)
(*                                                                         *)
(* Tokens are numbered 0..seq-1.  A call's output is the number of times   *)
(* its softmax weighed each token, which a loop over blocks determines.    *)
(***************************************************************************)
EXTENDS StreamCompact

CONSTANTS
  Threads,    \* the callers
  Requests,   \* all calls there are: [batch, seq, size, mask]
  Plans,      \* what the process may do: thread -> the calls it may make
  MaxCalls,   \* calls each thread makes (bounds the model)
  Untouched, Raised, Zeros   \* no result yet, an exception, jnp.zeros_like(q)

\* batch is 0 for orthocache_attention, else the batch size; the mask has one
\* entry per block_size tokens, and no block is longer than the sequence.
ASSUME RequestsAreCalls ==
  \A r \in Requests :
    /\ r.batch \in Nat /\ r.seq \in Nat \ {0} /\ r.size \in 1 .. r.seq
    /\ r.mask \in [Indices(r.seq \div r.size) -> BOOLEAN]

ASSUME PlansAreForThreads == Plans \subseteq [Threads -> SUBSET Requests]

ASSUME MaxCallsIsNat == MaxCalls \in Nat

VARIABLES
  plan,      \* thread -> the calls it may make
  BS,        \* the module global
  cache,     \* jit caches: key -> the block size baked into the compiled code
  pc,        \* thread -> its next step
  made,      \* thread -> number of calls it has begun
  req,       \* thread -> arguments of its latest call
  order, numActive,   \* thread -> active_indices, num_active
  kSize,     \* thread -> the block size its trace has read for the keys
  result     \* thread -> what its latest call returned

vars == <<plan, BS, cache, pc, made, req, order, numActive, kSize, result>>

-----------------------------------------------------------------------------
NumBlocks(r) == r.seq \div r.size

\* lax.dynamic_slice clamps its start so that the slice lies in the operand.
SliceStart(start, n, seq) == IF start + n > seq THEN seq - n ELSE start

BlockTokens(b, size, seq) ==
  {SliceStart(b * size, size, seq) + i : i \in 0 .. (size - 1)}

\* Faulty variant of Attended: the loop starts at iteration 1.
AttendedButFirst(indices, K, size, seq) ==
  [t \in Indices(seq) |->
     Cardinality({i \in 1 .. (K - 1) : t \in BlockTokens(indices[i], size, seq)})]

\* The loop of both kernels: iterations 0..K-1 through the indirection table.
Attended(indices, K, size, seq) ==
  [t \in Indices(seq) |->
     Cardinality({i \in 0 .. (K - 1) : t \in BlockTokens(indices[i], size, seq)})]

\* Faulty variant of CacheKey: the mask is not among the traced arguments.
KeyWithoutBlocks(r, K) == [batch |-> r.batch, seq |-> r.seq, nb |-> 0, K |-> K]

\* What jit distinguishes: shapes and static arguments.  The shape of q and k
\* selects the entry point and the path (seq against _SEQ_THRESHOLD), so that
\* calls with equal keys run the same jitted function.
CacheKey(r, K) == [batch |-> r.batch, seq |-> r.seq, nb |-> NumBlocks(r), K |-> K]

Init ==
  /\ plan \in Plans
  /\ BS = 512
  /\ cache = [key \in {} |-> 0]
  /\ pc        = [t \in Threads |-> "idle"]
  /\ made      = [t \in Threads |-> 0]
  /\ req       = [t \in Threads |-> Untouched]
  /\ order     = [t \in Threads |-> Untouched]
  /\ numActive = [t \in Threads |-> Untouched]
  /\ kSize     = [t \in Threads |-> Untouched]
  /\ result    = [t \in Threads |-> Untouched]

Goto(t, here, next) ==
  /\ pc[t] = here
  /\ pc' = [pc EXCEPT ![t] = next]

\* Faulty variant of Begin: only the first call of the process stores BS.
BeginOnce(t, r) ==
  /\ Goto(t, "idle", "compact")
  /\ r \in plan[t]
  /\ made[t] < MaxCalls
  /\ made' = [made EXCEPT ![t] = @ + 1]
  /\ req' = [req EXCEPT ![t] = r]
  /\ result' = [result EXCEPT ![t] = Untouched]
  /\ BS' = IF BS = 512 THEN r.size ELSE BS
  /\ UNCHANGED <<plan, cache, order, numActive, kSize>>

\* The call begins: global BS; BS = block_size.
Begin(t, r) ==
  /\ Goto(t, "idle", "compact")
  /\ r \in plan[t]
  /\ made[t] < MaxCalls
  /\ made' = [made EXCEPT ![t] = @ + 1]
  /\ req' = [req EXCEPT ![t] = r]
  /\ result' = [result EXCEPT ![t] = Untouched]
  /\ BS' = r.size
  /\ UNCHANGED <<plan, cache, order, numActive, kSize>>

\* stream_compact, which computes num_active on the host.
Compact(t) ==
  /\ Goto(t, "compact", "dispatch")
  /\ NumActive(req[t].mask, NumBlocks(req[t])) # 0
  /\ order' = [order EXCEPT ![t] = ActiveIndices(req[t].mask, NumBlocks(req[t]))]
  /\ numActive' = [numActive EXCEPT ![t] = NumActive(req[t].mask, NumBlocks(req[t]))]
  /\ UNCHANGED <<plan, BS, cache, made, req, kSize, result>>

\* The zero path: everything is evicted.
ReturnZeros(t) ==
  /\ Goto(t, "compact", "idle")
  /\ NumActive(req[t].mask, NumBlocks(req[t])) = 0
  /\ result' = [result EXCEPT ![t] = Zeros]
  /\ UNCHANGED <<plan, BS, cache, made, req, order, numActive, kSize>>

\* The jitted function's cache knows the key: the compiled code runs.
RunCompiled(t) ==
  /\ Goto(t, "dispatch", "idle")
  /\ CacheKey(req[t], numActive[t]) \in DOMAIN cache
  /\ result' = [result EXCEPT ![t] =
                  Attended(order[t], numActive[t],
                           cache[CacheKey(req[t], numActive[t])], req[t].seq)]
  /\ UNCHANGED <<plan, BS, cache, made, req, order, numActive, kSize>>

\* It does not: the loop body is traced, first the slice of the keys ...
TraceKeys(t) ==
  /\ Goto(t, "dispatch", "trace")
  /\ CacheKey(req[t], numActive[t]) \notin DOMAIN cache
  /\ kSize' = [kSize EXCEPT ![t] = BS]
  /\ UNCHANGED <<plan, BS, cache, made, req, order, numActive, result>>

\* The two slices disagree on the block size, or exceed the sequence: the
\* trace raises and leaves no entry.
TraceFails(t) == kSize[t] # BS \/ BS > req[t].seq

Filed(key, size) ==
  [k \in DOMAIN cache \cup {key} |-> IF k = key THEN size ELSE cache[k]]

\* ... then the slice of the values.  The trace is filed and the call returns.
\* When another thread filed the key meanwhile, either entry stays.
TraceValues(t) ==
  LET key == CacheKey(req[t], numActive[t]) IN
  /\ Goto(t, "trace", "idle")
  /\ ~TraceFails(t)
  /\ \/ cache' = Filed(key, BS)
     \/ key \in DOMAIN cache /\ cache' = cache
  /\ result' = [result EXCEPT ![t] = Attended(order[t], numActive[t], BS, req[t].seq)]
  /\ UNCHANGED <<plan, BS, made, req, order, numActive, kSize>>

TraceRaises(t) ==
  /\ Goto(t, "trace", "idle")
  /\ TraceFails(t)
  /\ result' = [result EXCEPT ![t] = Raised]
  /\ UNCHANGED <<plan, BS, cache, made, req, order, numActive, kSize>>

\* The steps of a call that has begun; beginning one is the caller's choice.
Proceed(t) ==
  \/ Compact(t)    \/ ReturnZeros(t)
  \/ RunCompiled(t)
  \/ TraceKeys(t)  \/ TraceValues(t)  \/ TraceRaises(t)

Next == \E t \in Threads : (\E r \in Requests : Begin(t, r)) \/ Proceed(t)

Spec == Init /\ [][Next]_vars

-----------------------------------------------------------------------------
Planned == UNION {plan[t] : t \in Threads}

\* Callers for whom the shared state is harmless: all of them use one block
\* size, or a single thread uses sizes that its cache keys tell apart.
OneSize == \A r, s \in Planned : r.size = s.size
OneThread == \A t, u \in Threads : plan[t] # {} /\ plan[u] # {} => t = u
KeysDetermineSizes ==
  \A r, s \in Planned :
    r.batch = s.batch /\ r.seq = s.seq /\ NumBlocks(r) = NumBlocks(s) => r.size = s.size

SafeUse == OneSize \/ (OneThread /\ KeysDetermineSizes)

\* What the documentation says a call computes.
Retained(r) ==
  {t \in Indices(r.seq) : t < NumBlocks(r) * r.size /\ r.mask[t \div r.size]}

Expected(r) ==
  IF Retained(r) = {} THEN Zeros
  ELSE [t \in Indices(r.seq) |-> IF t \in Retained(r) THEN 1 ELSE 0]

\* "block_mask: True = keep, False = evict; block_size: tokens per block"
\* (adaptive_attention.py:151-152): a call that has returned weighed each token
\* of the blocks its own mask keeps, at its own block size, exactly once,
\* whatever was traced, cached and stored in BS before it.
AttendsRequestedTokens ==
  \A t \in Threads :
    result[t] # Untouched => result[t] = Expected(req[t])

\* Safe callers get what the documentation says, and no exception.
SafeCallersAreServed == SafeUse => AttendsRequestedTokens

\* A compiled function that is in the cache was traced at the block size its key
\* stands for, so that a safe caller's call that finds it can run it.
EntriesFitTheirKeys ==
  SafeUse =>
    \A key \in DOMAIN cache :
      \A r \in Planned :
        r.batch = key.batch /\ r.seq = key.seq /\ NumBlocks(r) = key.nb => cache[key] = r.size

\* What every step of safe callers maintains: inside a call BS is the call's own
\* block size, its indices are those of its mask and a trace has read that size;
\* outputs are the documented ones.
InsideCall(t) ==
  /\ pc[t] # "idle" => req[t] \in plan[t] /\ BS = req[t].size
  /\ pc[t] \in {"dispatch", "trace"} =>
       /\ order[t] = ActiveIndices(req[t].mask, NumBlocks(req[t]))
       /\ numActive[t] = NumActive(req[t].mask, NumBlocks(req[t]))
       /\ numActive[t] # 0
  /\ pc[t] = "trace" => kSize[t] = BS
  /\ result[t] # Untouched => result[t] = Expected(req[t])

IInv ==
  /\ plan \in [Threads -> SUBSET Requests]
  /\ pc \in [Threads -> {"idle", "compact", "dispatch", "trace"}]
  /\ DOMAIN req = Threads /\ DOMAIN order = Threads /\ DOMAIN numActive = Threads
  /\ DOMAIN kSize = Threads /\ DOMAIN result = Threads
  /\ SafeUse => \A t \in Threads : InsideCall(t)
  /\ EntriesFitTheirKeys

=============================================================================
