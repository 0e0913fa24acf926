---------------------------- MODULE HloCompactPass ----------------------------
(***************************************************************************)
(* The XLA pass of xla_extensions/orthocache_stream_compact.cc: Run visits *)
(* the while loops of a module and, for those that look like an attention  *)
(* loop, injects the compaction of the block mask, rewrites the condition  *)
(* and rewrites the body, in place and with an early return at every step. *)
(*                                                                         *)
(* A while loop is an instruction of a computation and its body is another *)
(* computation, which may contain loops itself and may be shared.  So what *)
(* is done for one loop can change what the pass finds when it comes to    *)
(* the next.  What the injected instructions compute is ActiveIndices of   *)
(* StreamCompact.                                                          *)
(***************************************************************************)
EXTENDS Naturals, Sequences

CONSTANTS
  Loops,     \* names of while loops
  Layout,    \* the computations of the module, each the sequence of its loops
  Programs   \* the modules, records of
             \*   loops: loop ->
             \*     body        a computation
             \*     tuple       its init is formed by a tuple instruction
             \*     limit       the constant its condition compares with, or 0
             \*   bodies: computation -> what it is when it is a loop's body
             \*     opcodes     of the instructions in it
             \*     elements    of its parameter: "counter" (scalar S32), "mask",
             \*                 "cache" (3-D float), "other"
             \*     blocks      the length of the mask
             \*     reads       it extracts the loop variable
             \*     multiplies  the products it forms with it

Computations == DOMAIN Layout

\* An instruction belongs to one computation.
ASSUME LoopsHaveOnePlace ==
  /\ Layout \in Seq(Seq(Loops))
  /\ \A c, d \in Computations :
       \A i \in DOMAIN Layout[c], k \in DOMAIN Layout[d] :
         Layout[c][i] = Layout[d][k] => c = d /\ i = k

ASSUME BodiesAreComputations ==
  \A p \in Programs : \A l \in Loops : p.loops[l].body \in Computations

VARIABLES
  module,     \* the program when the pass starts
  strict,     \* XLA's ReplaceOperandWith compares the shapes of its operands
  visiting,   \* the computation that is visited, 0 before the first
  next,       \* position of the running loop among those collected from it
  pc,         \* match, inject, condition, body; done
  injected,   \* loops for which a compaction was added
  condition,  \* loop -> length of the parameter; the constant it compares with,
              \*   or the element (0 for the other one)
  init,       \* loop -> length of the operand
  code,       \* computation -> opcodes in it, products reindexed in it
  changed     \* what Run returns

vars == <<module, strict, visiting, next, pc, injected, condition, init, code, changed>>

-----------------------------------------------------------------------------
Body(l)   == module.loops[l].body
Shape(l)  == module.bodies[Body(l)]
Length(l) == Len(Shape(l).elements)

HasElement(l, kind) == \E i \in 1 .. Length(l) : Shape(l).elements[i] = kind

OriginalCondition(l) ==
  [arity |-> Length(l), limit |-> module.loops[l].limit, element |-> 0]
OriginalCode(c) == [opcodes |-> module.bodies[c].opcodes, reindexed |-> 0]

\* MatchAttentionLoop, of a loop with these opcodes in its body and this
\* constant in its condition: has_dynamic_slice is computed and not used;
\* whether the condition compares the counter that was found is not looked at.
LooksLikeAttention(l, opcodes, limit) ==
  /\ "dot" \in opcodes
  /\ module.loops[l].tuple
  /\ \A kind \in {"counter", "mask", "cache"} : HasElement(l, kind)
  /\ limit > 0

\* The loop as it is when the pass comes to it, and as it was in the beginning.
Matches(l) == LooksLikeAttention(l, code[Body(l)].opcodes, condition[l].limit)
MatchedAtStart(l) == LooksLikeAttention(l, Shape(l).opcodes, module.loops[l].limit)

Init ==
  /\ module \in Programs
  /\ strict \in BOOLEAN
  /\ visiting = 0
  /\ next = 1
  /\ pc = "match"
  /\ injected = {}
  /\ condition = [l \in Loops |-> OriginalCondition(l)]
  /\ init      = [l \in Loops |-> Length(l)]
  /\ code      = [c \in Computations |-> OriginalCode(c)]
  /\ changed = FALSE

AtLoop  == visiting \in Computations /\ next \in DOMAIN Layout[visiting]
Running == Layout[visiting][next]

\* The loops of a computation are collected before any of them is rewritten.
CollectLoops ==
  /\ pc = "match" /\ ~AtLoop /\ visiting < Len(Layout)
  /\ visiting' = visiting + 1
  /\ next' = 1
  /\ UNCHANGED <<module, strict, pc, injected, condition, init, code, changed>>

\* The computations are not: the injection adds computations to the vector that
\* Run iterates over, which may end the iteration early.
Finish ==
  /\ pc = "match" /\ ~AtLoop
  /\ visiting = Len(Layout) \/ injected # {}
  /\ pc' = "done"
  /\ UNCHANGED <<module, strict, visiting, next, injected, condition, init, code, changed>>

Match ==
  /\ pc = "match" /\ AtLoop
  /\ IF Matches(Running)
     THEN pc' = "inject" /\ UNCHANGED next
     ELSE next' = next + 1 /\ UNCHANGED pc
  /\ UNCHANGED <<module, strict, visiting, injected, condition, init, code, changed>>

\* Faulty variant of InjectedOpcodes: the prefix sum as a product with a
\* triangular matrix.
InjectedByProduct == {"select", "reduce", "dot", "sort"}

\* Count, prefix sum and order of the mask.
InjectedOpcodes == {"select", "reduce", "reduce-window", "sort"}

\* The compaction goes into the computation the loop is in, which may be the
\* body of another loop.
InjectStreamCompaction ==
  /\ pc = "inject"
  /\ injected' = injected \cup {Running}
  /\ code' = [code EXCEPT ![visiting].opcodes = @ \cup InjectedOpcodes]
  /\ pc' = "condition"
  /\ UNCHANGED <<module, strict, visiting, next, condition, init, changed>>

\* Faulty variant of Continue: the error ends the work on the computation.
GiveUpComputation == next' = Len(Layout[visiting]) + 1 /\ pc' = "match"

\* Run logs the error of a stage and continues with the next loop.
Continue == next' = next + 1 /\ pc' = "match"

\* The condition is exchanged first.  The operand cannot be when its shape is
\* compared: the new tuple is one element longer.  (The first early return is
\* for conditions that are no comparison; those do not match.)
RewriteLoopCondition ==
  LET l     == Running
      arity == init[l] + 1
  IN
  /\ pc = "condition"
  /\ condition' =
       [condition EXCEPT ![l] = [arity |-> arity, limit |-> 0, element |-> arity]]
  /\ IF strict THEN Continue /\ UNCHANGED init
     ELSE /\ init' = [init EXCEPT ![l] = arity]
          /\ pc' = "body" /\ UNCHANGED next
  /\ UNCHANGED <<module, strict, visiting, injected, code, changed>>

\* A loop variable that the body does not read is an error.  Otherwise the
\* products that no other loop has reindexed yet are; each time, the list of
\* users that is being iterated over grows, so that any number from one on may
\* be reached.
RewriteLoopBody ==
  LET c    == Body(Running)
      left == module.bodies[c].multiplies - code[c].reindexed
  IN
  /\ pc = "body"
  /\ Continue
  /\ IF ~module.bodies[c].reads THEN UNCHANGED <<code, changed>>
     ELSE /\ \/ left = 0 /\ UNCHANGED code
             \/ \E n \in 1 .. left :
                  code' = [code EXCEPT
                             ![c].reindexed = @ + n,
                             ![c].opcodes = @ \cup {"dynamic-slice", "reshape"}]
          /\ changed' = TRUE
  /\ UNCHANGED <<module, strict, visiting, injected, condition, init>>

Next ==
  \/ CollectLoops \/ Match
  \/ InjectStreamCompaction \/ RewriteLoopCondition \/ RewriteLoopBody
  \/ Finish

Spec == Init /\ [][Next]_vars

-----------------------------------------------------------------------------
\* The loop at position i of computation c has been dealt with.
Passed(c, i) == c < visiting \/ (c = visiting /\ i < next)

\* No loop is rewritten because of what was done for another: one that was no
\* attention loop in the beginning keeps its operand and its condition, though
\* compactions go into its body and products of a shared body are reindexed,
\* and a computation changes only if it holds a loop that was one or is the body
\* of one ("If pattern matching fails, the module is returned unchanged",
\* xla_extensions/orthocache_stream_compact.h:13).
OnlyAttentionTouched ==
  /\ \A l \in Loops : ~MatchedAtStart(l) =>
       /\ l \notin injected
       /\ init[l] = Length(l)
       /\ condition[l] = OriginalCondition(l)
  /\ \A c \in Computations : code[c] # OriginalCode(c) =>
       \E l \in Loops :
         /\ MatchedAtStart(l)
         /\ Body(l) = c \/ \E i \in DOMAIN Layout[c] : Layout[c][i] = l

\* No attention loop is left out because of what was done for another, or
\* because another was given up half-way: each loop the pass has dealt with that
\* was one in the beginning has its compaction (Run goes on with the next loop,
\* xla_extensions/orthocache_stream_compact.cc:526-549).
NoMatchSkipped ==
  \A c \in Computations : \A i \in DOMAIN Layout[c] :
    Passed(c, i) /\ MatchedAtStart(Layout[c][i]) => Layout[c][i] \in injected

\* What HLO's verifier asks of a while loop, and of what was put around it:
\* operand, condition and body agree on the tuple, the bound is one of its
\* elements, the compaction is as long as the mask, and the reindexed products
\* slice an array, not the parameter tuple.
Valid(l) ==
  /\ condition[l].arity = init[l]
  /\ Length(l) = init[l]
  /\ condition[l].element <= init[l]
  /\ l \in injected => module.loops[l].limit = Shape(l).blocks
  /\ code[Body(l)].reindexed = 0

\* "After the pass, the module should still verify"
\* (xla_extensions/orthocache_stream_compact_test.cc:143).
StillVerifies == pc = "done" => \A l \in Loops : Valid(l)

=============================================================================
