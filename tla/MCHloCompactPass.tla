--------------------------- MODULE MCHloCompactPass ---------------------------
(***************************************************************************)
(* Three loops for TLC: inner lies in the body of outer; twin is in the    *)
(* same computation as outer, and shares its body or that of inner.  Every *)
(* body is one of an attention loop, or lacks what a match or the rewriting*)
(* requires.  As in a parsed module, a body comes before its users.        *)
(***************************************************************************)
EXTENDS HloCompactPass

Nested == <<<<>>, <<"inner">>, <<"outer", "twin">>>>

Attention ==
  [opcodes |-> {"dot", "dynamic-slice"},
   elements |-> <<"counter", "other", "cache", "cache", "mask">>,
   blocks |-> 4, reads |-> TRUE, multiplies |-> 2]

BodyShapes ==
  {Attention,
   [Attention EXCEPT !.opcodes = {"dot"}],
   [Attention EXCEPT !.opcodes = {"dynamic-slice"}],
   [Attention EXCEPT !.elements = <<"counter", "other", "other", "mask">>],
   [Attention EXCEPT !.reads = FALSE],
   [Attention EXCEPT !.multiplies = 0]}

\* The third computation is nobody's body.
Entry == [Attention EXCEPT !.opcodes = {}]

\* Bounded by a constant or not, over a tuple or not.
LoopShapes == {<<4, TRUE>>, <<0, TRUE>>, <<4, FALSE>>}

SharedOrNested ==
  {[loops  |-> [l \in Loops |->
                  [body  |-> CASE l = "inner" -> 1
                               [] l = "outer" -> 2
                               [] l = "twin"  -> shared,
                   limit |-> looks[l][1],
                   tuple |-> looks[l][2]]],
    bodies |-> <<first, second, Entry>>] :
      shared \in {1, 2}, looks \in [Loops -> LoopShapes],
      first \in BodyShapes, second \in BodyShapes}
=============================================================================
