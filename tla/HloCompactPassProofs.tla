------------------------- MODULE HloCompactPassProofs -------------------------
(***************************************************************************)
(* Which loops the pass rewrites, for modules of any size, with loops of   *)
(* any shape, nested in one another's bodies or sharing them.              *)
(***************************************************************************)
EXTENDS HloCompactPass, TLAPS

\* What the pass looks at in a loop that has no compaction yet is what it was in
\* the beginning: products with the loop variable and compactions come into
\* bodies, matrix products do not.
AsFound ==
  /\ \A c \in Computations : "dot" \in code[c].opcodes <=> "dot" \in module.bodies[c].opcodes
  /\ \A l \in Loops : l \notin injected => condition[l] = OriginalCondition(l)

\* The stages after the match work on a loop that was an attention loop in the
\* beginning; those after the injection, on one that has its compaction.
RunningMatched ==
  /\ pc \in {"inject", "condition", "body"} => AtLoop /\ MatchedAtStart(Running)
  /\ pc \in {"condition", "body"} => Running \in injected

\* A loop has a compaction only when the pass has come to it.
InjectedInTurn ==
  \A c \in Computations : \A i \in DOMAIN Layout[c] :
    Layout[c][i] \in injected =>
      \/ Passed(c, i)
      \/ c = visiting /\ i = next /\ pc \in {"condition", "body"}

IInv ==
  /\ module \in Programs
  /\ visiting \in 0 .. Len(Layout) /\ next \in Nat \ {0}
  /\ pc \in {"match", "inject", "condition", "body", "done"}
  /\ DOMAIN condition = Loops /\ DOMAIN init = Loops /\ DOMAIN code = Computations
  /\ AsFound
  /\ RunningMatched
  /\ InjectedInTurn
  /\ OnlyAttentionTouched
  /\ NoMatchSkipped

-----------------------------------------------------------------------------
LEMMA PlacesAreLoops ==
  ASSUME NEW c \in Computations, NEW i \in DOMAIN Layout[c]
  PROVE  /\ c \in 1 .. Len(Layout) /\ Len(Layout) \in Nat
         /\ i \in 1 .. Len(Layout[c]) /\ Len(Layout[c]) \in Nat
         /\ Layout[c][i] \in Loops
  BY LoopsHaveOnePlace DEF Computations

LEMMA RunningIsLoop ==
  ASSUME AtLoop
  PROVE  Running \in Loops
  BY PlacesAreLoops DEF AtLoop, Running

\* What the program was in the beginning does not change with the module.
LEMMA ProgramStays ==
  ASSUME UNCHANGED module
  PROVE  /\ \A l \in Loops : /\ MatchedAtStart(l)' <=> MatchedAtStart(l)
                            /\ Body(l)' = Body(l)
                            /\ Length(l)' = Length(l)
                            /\ OriginalCondition(l)' = OriginalCondition(l)
         /\ \A c \in Computations : OriginalCode(c)' = OriginalCode(c)
  BY DEF MatchedAtStart, LooksLikeAttention, HasElement, Length, Shape, Body,
         OriginalCondition, OriginalCode

\* Whatever has been done for other loops, one that has no compaction yet
\* matches if and only if it did in the beginning.
LEMMA MatchIsStable ==
  ASSUME IInv, NEW l \in Loops, l \notin injected
  PROVE  Matches(l) <=> MatchedAtStart(l)
<1>1. Body(l) \in Computations
  BY BodiesAreComputations DEF IInv, Body
<1>2. "dot" \in code[Body(l)].opcodes <=> "dot" \in Shape(l).opcodes
  BY <1>1 DEF IInv, AsFound, Shape
<1>3. condition[l].limit = module.loops[l].limit
  BY DEF IInv, AsFound, OriginalCondition
<1> QED
  BY <1>2, <1>3 DEF Matches, MatchedAtStart, LooksLikeAttention

LEMMA InitEstablishes == Init => IInv
<1> SUFFICES ASSUME Init PROVE IInv
  OBVIOUS
<1>1. Len(Layout) \in Nat
  BY LoopsHaveOnePlace
<1>2. AsFound /\ RunningMatched /\ InjectedInTurn /\ OnlyAttentionTouched
  BY DEF Init, AsFound, RunningMatched, InjectedInTurn, OnlyAttentionTouched, OriginalCode
<1>3. NoMatchSkipped
  BY PlacesAreLoops DEF Init, NoMatchSkipped, Passed
<1> QED
  BY <1>1, <1>2, <1>3 DEF Init, IInv

LEMMA CollectPreserves ==
  ASSUME IInv, CollectLoops
  PROVE  IInv'
<1>1. /\ UNCHANGED <<module, pc, injected, condition, init, code>>
      /\ visiting' = visiting + 1 /\ next' = 1 /\ pc = "match"
      /\ Len(Layout) \in Nat /\ visiting \in 0 .. Len(Layout) /\ visiting' \in 0 .. Len(Layout)
  BY LoopsHaveOnePlace DEF CollectLoops, IInv
<1>2. \A c \in Computations : \A i \in DOMAIN Layout[c] : Passed(c, i)' <=> Passed(c, i)
  <2> SUFFICES ASSUME NEW c \in Computations, NEW i \in DOMAIN Layout[c]
               PROVE  Passed(c, i)' <=> Passed(c, i)
    OBVIOUS
  <2>1. i \in Nat \ {0} /\ c \in Nat
    BY PlacesAreLoops
  <2>2. ASSUME c = visiting
        PROVE  i < next
    <3>1. next \notin 1 .. Len(Layout[c])
      BY <2>2, LoopsHaveOnePlace DEF CollectLoops, AtLoop, Computations
    <3> QED
      BY <3>1, PlacesAreLoops DEF IInv
  <2> QED
    BY <1>1, <2>1, <2>2 DEF Passed
<1>3. AsFound' /\ OnlyAttentionTouched'
  BY <1>1, ProgramStays DEF IInv, AsFound, OnlyAttentionTouched
<1>4. InjectedInTurn' /\ NoMatchSkipped'
  BY <1>1, <1>2, ProgramStays, PlacesAreLoops DEF IInv, InjectedInTurn, NoMatchSkipped
<1> QED
  BY <1>1, <1>3, <1>4 DEF IInv, RunningMatched

LEMMA MatchPreserves ==
  ASSUME IInv, Match
  PROVE  IInv'
<1>1. /\ UNCHANGED <<module, visiting, injected, condition, init, code>>
      /\ pc = "match" /\ AtLoop /\ Running \in Loops /\ next \in Nat \ {0}
  BY RunningIsLoop DEF Match, IInv
<1>2. Running \notin injected
  BY <1>1 DEF IInv, InjectedInTurn, Passed, AtLoop, Running
<1>3. AsFound' /\ OnlyAttentionTouched'
  BY <1>1, ProgramStays DEF IInv, AsFound, OnlyAttentionTouched
<1>4. CASE Matches(Running)
  <2>1. pc' = "inject" /\ next' = next
    BY <1>4 DEF Match
  <2>2. MatchedAtStart(Running)
    BY <1>1, <1>2, <1>4, MatchIsStable
  <2>3. RunningMatched'
    BY <1>1, <2>1, <2>2, ProgramStays DEF RunningMatched, AtLoop, Running
  <2>4. InjectedInTurn' /\ NoMatchSkipped'
    BY <1>1, <2>1, ProgramStays, PlacesAreLoops
       DEF IInv, InjectedInTurn, NoMatchSkipped, Passed
  <2> QED
    BY <1>1, <1>3, <2>1, <2>3, <2>4 DEF IInv
<1>5. CASE ~Matches(Running)
  <2>1. pc' = "match" /\ next' = next + 1
    BY <1>1, <1>5 DEF Match
  <2>2. ~MatchedAtStart(Running)
    BY <1>1, <1>2, <1>5, MatchIsStable
  <2>3. \A c \in Computations : \A i \in DOMAIN Layout[c] :
          Passed(c, i)' <=> Passed(c, i) \/ (c = visiting /\ i = next)
    BY <1>1, <2>1, PlacesAreLoops DEF Passed
  <2>4. NoMatchSkipped'
    BY <1>1, <2>2, <2>3, ProgramStays, PlacesAreLoops DEF IInv, NoMatchSkipped, Running
  <2>5. InjectedInTurn'
    BY <1>1, <2>3 DEF IInv, InjectedInTurn
  <2> QED
    BY <1>1, <1>3, <2>1, <2>4, <2>5 DEF IInv, RunningMatched
<1> QED
  BY <1>4, <1>5

\* Injecting into a computation gives it no matrix product.
LEMMA InjectPreserves ==
  ASSUME IInv, InjectStreamCompaction
  PROVE  IInv'
<1>1. /\ UNCHANGED <<module, visiting, next, condition, init>>
      /\ pc = "inject" /\ pc' = "condition"
      /\ AtLoop /\ Running \in Loops /\ MatchedAtStart(Running)
      /\ injected' = injected \cup {Running}
  BY RunningIsLoop DEF InjectStreamCompaction, IInv, RunningMatched
<1>2. /\ visiting \in Computations /\ next \in DOMAIN Layout[visiting]
      /\ DOMAIN code' = Computations
      /\ code'[visiting].opcodes = code[visiting].opcodes \cup InjectedOpcodes
      /\ \A c \in Computations : c # visiting => code'[c] = code[c]
  <2>1. visiting \in Computations /\ next \in DOMAIN Layout[visiting] /\ DOMAIN code = Computations
    BY <1>1 DEF IInv, AtLoop
  <2>2. code' = [code EXCEPT ![visiting] =
                  [code[visiting] EXCEPT !.opcodes = @ \cup InjectedOpcodes]]
    BY DEF InjectStreamCompaction
  <2> QED
    BY <2>1, <2>2
<1>3. AsFound'
  <2>1. \A c \in Computations :
          "dot" \in code'[c].opcodes <=> "dot" \in module.bodies[c].opcodes
    BY <1>2 DEF IInv, AsFound, InjectedOpcodes
  <2>2. \A l \in Loops : l \notin injected' => condition'[l] = OriginalCondition(l)'
    BY <1>1, ProgramStays DEF IInv, AsFound
  <2> QED
    BY <1>1, <2>1, <2>2 DEF AsFound
<1>4. RunningMatched'
  BY <1>1, ProgramStays DEF RunningMatched, AtLoop, Running
<1>5. InjectedInTurn'
  <2> SUFFICES ASSUME NEW c \in Computations, NEW i \in DOMAIN Layout[c],
                      Layout[c][i] \in injected'
               PROVE  Passed(c, i)' \/ (c = visiting' /\ i = next')
    BY <1>1 DEF InjectedInTurn
  <2>1. CASE Layout[c][i] \in injected
    BY <1>1, <2>1 DEF IInv, InjectedInTurn, Passed
  <2>2. CASE Layout[c][i] = Running
    BY <1>1, <1>2, <2>2, LoopsHaveOnePlace DEF Running
  <2> QED
    BY <1>1, <2>1, <2>2
<1>6. OnlyAttentionTouched'
  <2>1. \A l \in Loops : ~MatchedAtStart(l) =>
          l \notin injected' /\ init'[l] = Length(l) /\ condition'[l] = OriginalCondition(l)
    BY <1>1 DEF IInv, OnlyAttentionTouched
  <2>2. \A c \in Computations : code'[c] # OriginalCode(c) =>
          \E l \in Loops :
            /\ MatchedAtStart(l)
            /\ Body(l) = c \/ \E i \in DOMAIN Layout[c] : Layout[c][i] = l
    <3> SUFFICES ASSUME NEW c \in Computations, code'[c] # OriginalCode(c)
                 PROVE  \E l \in Loops :
                          /\ MatchedAtStart(l)
                          /\ Body(l) = c \/ \E i \in DOMAIN Layout[c] : Layout[c][i] = l
      OBVIOUS
    <3>1. CASE c = visiting
      BY <1>1, <1>2, <3>1 DEF Running
    <3>2. CASE c # visiting
      BY <1>2, <3>2 DEF IInv, OnlyAttentionTouched
    <3> QED
      BY <3>1, <3>2
  <2> QED
    BY <1>1, <2>1, <2>2, ProgramStays DEF OnlyAttentionTouched
<1>7. NoMatchSkipped'
  BY <1>1, ProgramStays, PlacesAreLoops DEF IInv, NoMatchSkipped, Passed
<1> QED
  BY <1>1, <1>2, <1>3, <1>4, <1>5, <1>6, <1>7 DEF IInv

\* Going on with the next loop: the running one has its compaction.
LEMMA ContinueKeepsTurns ==
  ASSUME IInv, pc \in {"condition", "body"}, Continue, UNCHANGED <<module, visiting, injected>>
  PROVE  RunningMatched' /\ InjectedInTurn' /\ NoMatchSkipped' /\ next' \in Nat \ {0}
<1>1. /\ AtLoop /\ Running \in Loops /\ Running \in injected
      /\ next \in Nat \ {0} /\ next' = next + 1 /\ pc' = "match"
  BY RunningIsLoop DEF IInv, RunningMatched, Continue
<1>2. \A c \in Computations : \A i \in DOMAIN Layout[c] :
        Passed(c, i)' <=> Passed(c, i) \/ (c = visiting /\ i = next)
  BY <1>1, PlacesAreLoops DEF Passed
<1>3. InjectedInTurn'
  BY <1>1, <1>2 DEF IInv, InjectedInTurn
<1>4. NoMatchSkipped'
  BY <1>1, <1>2, ProgramStays, PlacesAreLoops DEF IInv, NoMatchSkipped, Running
<1> QED
  BY <1>1, <1>3, <1>4 DEF RunningMatched

LEMMA RewriteConditionPreserves ==
  ASSUME IInv, RewriteLoopCondition
  PROVE  IInv'
<1>1. /\ UNCHANGED <<module, visiting, injected, code>>
      /\ pc = "condition"
      /\ AtLoop /\ Running \in Loops /\ MatchedAtStart(Running) /\ Running \in injected
  BY RunningIsLoop DEF RewriteLoopCondition, IInv, RunningMatched
<1>2. /\ DOMAIN condition' = Loops /\ DOMAIN init' = Loops
      /\ \A l \in Loops : l # Running => condition'[l] = condition[l] /\ init'[l] = init[l]
  BY DEF RewriteLoopCondition, IInv
<1>3. AsFound'
  BY <1>1, <1>2, ProgramStays DEF IInv, AsFound
<1>4. OnlyAttentionTouched'
  BY <1>1, <1>2, ProgramStays DEF IInv, OnlyAttentionTouched
<1>5. CASE Continue
  <2>1. RunningMatched' /\ InjectedInTurn' /\ NoMatchSkipped' /\ next' \in Nat \ {0}
    BY <1>1, <1>5, ContinueKeepsTurns
  <2> QED
    BY <1>1, <1>2, <1>3, <1>4, <1>5, <2>1 DEF IInv, Continue
<1>6. CASE pc' = "body" /\ next' = next
  <2>1. RunningMatched'
    BY <1>1, <1>6, ProgramStays DEF RunningMatched, AtLoop, Running
  <2>2. InjectedInTurn' /\ NoMatchSkipped'
    BY <1>1, <1>6, ProgramStays, PlacesAreLoops
       DEF IInv, InjectedInTurn, NoMatchSkipped, Passed
  <2> QED
    BY <1>1, <1>2, <1>3, <1>4, <1>6, <2>1, <2>2 DEF IInv
<1> QED
  BY <1>5, <1>6 DEF RewriteLoopCondition

\* Reindexing gives a body no matrix product, whoever shares it.
LEMMA RewriteBodyPreserves ==
  ASSUME IInv, RewriteLoopBody
  PROVE  IInv'
<1> DEFINE own == Body(Running)
<1>1. /\ UNCHANGED <<module, visiting, injected, condition, init>>
      /\ pc = "body" /\ Continue
      /\ Running \in Loops /\ MatchedAtStart(Running)
  BY RunningIsLoop DEF RewriteLoopBody, IInv, RunningMatched
<1>2. own \in Computations /\ DOMAIN code = Computations
  BY <1>1, BodiesAreComputations DEF IInv, Body
<1>3. /\ DOMAIN code' = Computations
      /\ \A c \in Computations : c # own => code'[c] = code[c]
      /\ "dot" \in code'[own].opcodes <=> "dot" \in code[own].opcodes
  <2>1. CASE code' = code
    BY <1>2, <2>1
  <2>2. ASSUME NEW n,
               code' = [code EXCEPT ![own].reindexed = @ + n,
                                    ![own].opcodes = @ \cup {"dynamic-slice", "reshape"}]
        PROVE  /\ DOMAIN code' = Computations
               /\ \A c \in Computations : c # own => code'[c] = code[c]
               /\ "dot" \in code'[own].opcodes <=> "dot" \in code[own].opcodes
    BY <1>2, <2>2
  <2> QED
    BY <2>1, <2>2 DEF RewriteLoopBody
<1> HIDE DEF own
<1>4. AsFound'
  BY <1>1, <1>2, <1>3, ProgramStays DEF IInv, AsFound
<1>5. OnlyAttentionTouched'
  BY <1>1, <1>2, <1>3, ProgramStays DEF IInv, OnlyAttentionTouched, own
<1>6. RunningMatched' /\ InjectedInTurn' /\ NoMatchSkipped' /\ next' \in Nat \ {0}
  BY <1>1, ContinueKeepsTurns
<1> QED
  BY <1>1, <1>3, <1>4, <1>5, <1>6 DEF IInv, Continue

LEMMA OtherStepsPreserve ==
  ASSUME IInv, Finish \/ UNCHANGED vars
  PROVE  IInv'
<1>1. /\ UNCHANGED <<module, visiting, next, injected, condition, init, code>>
      /\ pc' = pc \/ (pc = "match" /\ pc' = "done")
  BY DEF Finish, vars
<1>2. AsFound' /\ OnlyAttentionTouched'
  BY <1>1, ProgramStays DEF IInv, AsFound, OnlyAttentionTouched
<1>3. RunningMatched'
  BY <1>1, RunningIsLoop, ProgramStays DEF IInv, RunningMatched, AtLoop, Running
<1>4. InjectedInTurn' /\ NoMatchSkipped'
  BY <1>1, ProgramStays, PlacesAreLoops DEF IInv, InjectedInTurn, NoMatchSkipped, Passed
<1> QED
  BY <1>1, <1>2, <1>3, <1>4 DEF IInv

LEMMA InductiveInvariant == Spec => []IInv
<1>1. IInv /\ [Next]_vars => IInv'
  BY CollectPreserves, MatchPreserves, InjectPreserves, RewriteConditionPreserves,
     RewriteBodyPreserves, OtherStepsPreserve DEF Next
<1> QED
  BY <1>1, InitEstablishes, PTL DEF Spec

\* A loop that is no attention loop when the pass starts is not taken for one
\* later, though compactions go into its body and a shared body is reindexed: it
\* keeps its operand and its condition, and no computation changes but those
\* that hold an attention loop or are the body of one.
THEOREM OnlyAttentionIsTouched == Spec => []OnlyAttentionTouched
<1>1. IInv => OnlyAttentionTouched
  BY DEF IInv
<1> QED
  BY <1>1, InductiveInvariant, PTL

\* An attention loop that the pass has dealt with has its compaction: nothing
\* that is done for another, or given up half-way, makes it look different.
THEOREM NoMatchIsSkipped == Spec => []NoMatchSkipped
<1>1. IInv => NoMatchSkipped
  BY DEF IInv
<1> QED
  BY <1>1, InductiveInvariant, PTL
=============================================================================
