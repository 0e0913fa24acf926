-------------------------- MODULE MCAdaptiveDispatch --------------------------
(***************************************************************************)
(* Calls for TLC: sequences of a few tokens and every mask that fits them. *)
(* What the checks need is that several block sizes share a sequence       *)
(* length, that a call may keep all, some or none of its blocks, and that  *)
(* two calls may agree on a cache key; 512 tokens per block are not needed *)
(* for any of it.                                                          *)
(***************************************************************************)
EXTENDS AdaptiveDispatch

\* The calls a shape <<batch, seq, size>> allows, for the shapes of a set.
CallsOf(shapes) ==
  UNION {{[batch |-> s[1], seq |-> s[2], size |-> s[3], mask |-> m] :
            m \in [Indices(s[2] \div s[3]) -> BOOLEAN]} : s \in shapes}

\* Several sizes, each of which divides the sequence, as in the tests.
Divided == CallsOf({<<0, 4, 1>>, <<0, 4, 2>>, <<0, 2, 1>>, <<0, 2, 2>>, <<2, 4, 2>>})

\* One size for everyone; one of the sequences is not a multiple of it.
SharedSize == CallsOf({<<0, 4, 2>>, <<0, 2, 2>>, <<0, 5, 2>>})

\* Two sizes, so that concurrent calls can disagree on BS.
Mixed == CallsOf({<<0, 2, 1>>, <<0, 2, 2>>})

AllCalls == Divided \cup SharedSize \cup Mixed

OnlyOne(calls) == {[t \in Threads |-> IF t = u THEN calls ELSE {}] : u \in Threads}
Everyone(calls) == {[t \in Threads |-> calls]}

\* Both kinds of safe callers, and callers that are not safe.
AllPlans == OnlyOne(Divided) \cup Everyone(SharedSize) \cup Everyone(Mixed)

=============================================================================
