----------------------------- MODULE SpectralProofs -----------------------------
(***************************************************************************)
(* The Walsh-Hadamard transform and the gates, for every power of two N,   *)
(* every column of keys and every query: what the loops of the reference   *)
(* compute, that the bound of a block is above the logits of its tokens,   *)
(* and what the threshold keeps.                                           *)
(***************************************************************************)
EXTENDS ReferenceFwht, SpectralGate, FiniteSetTheorems, WellFoundedInduction, TLAPS

-----------------------------------------------------------------------------
(***************************************************************************)
(* Sums.  Total adds up by a recursive function over sets that picks the   *)
(* elements with CHOOSE; what follows shows that it has a value and that   *)
(* the order does not matter.                                              *)
(***************************************************************************)

\* A set of naturals that is not empty has a least element.
LEMMA LeastNumber ==
  ASSUME NEW B \in SUBSET Nat, B # {}
  PROVE  \E n \in B : \A m \in B : n <= m
<1>1. PICK n \in B : \A m \in B : ~(<<m, n>> \in OpToRel(<, Nat))
  BY NatLessThanWellFounded, WFMin
<1>2. \A m \in B : ~(m < n)
  BY <1>1 DEF OpToRel
<1> QED
  BY <1>2

\* Induction over the numbers.
LEMMA NumberInduction ==
  ASSUME NEW Good, 0 \in Good, \A n \in Nat : n \in Good => n + 1 \in Good
  PROVE  \A n \in Nat : n \in Good
<1> DEFINE Bad == {n \in Nat : n \notin Good}
<1> SUFFICES ASSUME Bad # {}
             PROVE  FALSE
  OBVIOUS
<1>1. PICK n \in Bad : \A m \in Bad : n <= m
  BY LeastNumber
<1>2. n \in Nat /\ n # 0
  BY <1>1
<1>3. n - 1 \in Nat /\ n - 1 \in Good
  BY <1>1, <1>2
<1> QED
  BY <1>1, <1>3

\* A proper subset of a finite set has fewer elements.
LEMMA ProperSubset ==
  ASSUME NEW T, NEW U \in SUBSET T, U # T
  PROVE  \E i \in T : i \notin U
OBVIOUS

\* Induction over the subsets of a finite set, with the subsets that satisfy
\* the claim as a set Good.
LEMMA SubsetInduction ==
  ASSUME NEW S, IsFiniteSet(S), NEW Good,
         \A T \in SUBSET S : (\A U \in SUBSET T : U # T => U \in Good) => T \in Good
  PROVE  S \in Good
<1> DEFINE Bad == {T \in SUBSET S : T \notin Good}
           Sizes == {Cardinality(T) : T \in Bad}
<1> SUFFICES ASSUME Bad # {}
             PROVE  FALSE
  OBVIOUS
<1>0. \A T \in SUBSET S : IsFiniteSet(T) /\ Cardinality(T) \in Nat
  BY FS_Subset, FS_CardinalityType
<1>1. \E n \in Sizes : \A m \in Sizes : n <= m
  <2>1. Sizes \in SUBSET Nat /\ Sizes # {}
    BY <1>0
  <2> HIDE DEF Sizes
  <2> QED
    BY <2>1, LeastNumber
<1>2. PICK T \in Bad : \A U \in Bad : Cardinality(T) <= Cardinality(U)
  BY <1>1
<1>3. ASSUME NEW U \in SUBSET T, U # T
      PROVE  U \in Good
  <2>1. PICK i \in T : i \notin U
    BY <1>3, ProperSubset
  <2>2. IsFiniteSet(T) /\ T \in SUBSET S
    BY <1>0, <1>2
  <2>3. U \in SUBSET (T \ {i}) /\ T \ {i} \in SUBSET S
    BY <2>1, <2>2
  <2>4. Cardinality(U) <= Cardinality(T \ {i})
    BY <1>0, <2>3, FS_Subset
  <2>5. Cardinality(T \ {i}) = Cardinality(T) - 1
    BY <2>1, <2>2, FS_RemoveElement
  <2>6. Cardinality(U) < Cardinality(T)
    BY <1>0, <2>2, <2>3, <2>4, <2>5
  <2> QED
    BY <1>0, <1>2, <2>2, <2>6
<1> QED
  BY <1>2, <1>3

\* Induction by one element.
LEMMA ElementInduction ==
  ASSUME NEW S, IsFiniteSet(S), NEW Good,
         {} \in Good,
         \A T \in SUBSET S : \A i \in T : T \ {i} \in Good => T \in Good
  PROVE  S \in Good
<1>1. ASSUME NEW T \in SUBSET S, \A U \in SUBSET T : U # T => U \in Good
      PROVE  T \in Good
  <2>1. CASE T = {}
    BY <2>1
  <2>2. CASE T # {}
    <3>1. PICK i \in T : TRUE
      BY <2>2
    <3>2. T \ {i} \in SUBSET T /\ T \ {i} # T
      BY <3>1
    <3> QED
      BY <1>1, <3>1, <3>2
  <2> QED
    BY <2>1, <2>2
<1> HIDE DEF IsFiniteSet
<1> QED
  BY <1>1, SubsetInduction

\* The element that a sum takes first.
Picked(s) == CHOOSE i \in s : TRUE

\* The recursion of MapThenFoldSet, for sums.
AddsUp(g, f, D) ==
  g = [s \in D |-> IF s = {} THEN 0 ELSE f[Picked(s)] + g[s \ {Picked(s)}]]

\* A sum is a value of the function that adds up all subsets.
LEMMA SumUnfolds ==
  ASSUME NEW f, NEW S
  PROVE  SumFunctionOnSet(f, S) = (CHOOSE g : AddsUp(g, f, SUBSET S))[S]
BY DEF SumFunctionOnSet, FoldFunctionOnSet, MapThenFoldSet, AddsUp, Picked

\* Two functions that add up agree where both are defined.
LEMMA AddsUpOnce ==
  ASSUME NEW f, NEW S, IsFiniteSet(S), NEW T \in SUBSET S, NEW g, NEW k,
         AddsUp(g, f, SUBSET S), AddsUp(k, f, SUBSET T)
  PROVE  g[T] = k[T]
<1> DEFINE Good == {U \in SUBSET T : g[U] = k[U]}
<1>1. IsFiniteSet(T)
  BY FS_Subset
<1>2. \A U \in SUBSET T : U = {} => g[U] = 0 /\ k[U] = 0
  BY DEF AddsUp
<1>3. ASSUME NEW U \in SUBSET T, \A V \in SUBSET U : V # U => V \in Good, U # {}
      PROVE  U \in Good
  <2> DEFINE p == Picked(U)
  <2>1. p \in U
    BY <1>3 DEF Picked
  <2>2. U \ {p} \in Good
    BY <1>3, <2>1
  <2> HIDE DEF p
  <2>3. g[U] = f[p] + g[U \ {p}] /\ k[U] = f[p] + k[U \ {p}]
    BY <1>3 DEF AddsUp, p
  <2> QED
    BY <2>2, <2>3
<1>4. \A U \in SUBSET T : (\A V \in SUBSET U : V # U => V \in Good) => U \in Good
  <2> SUFFICES ASSUME NEW U \in SUBSET T, \A V \in SUBSET U : V # U => V \in Good
               PROVE  U \in Good
    OBVIOUS
  <2>1. CASE U = {}
    BY <1>2, <2>1
  <2> QED
    BY <1>3, <2>1
<1>5. T \in Good
  <2> HIDE DEF Good
  <2> QED
    BY <1>1, <1>4, SubsetInduction
<1> QED
  BY <1>5

\* A function that adds up exists.
LEMMA SomeAddsUp ==
  ASSUME NEW f, NEW S, IsFiniteSet(S)
  PROVE  \E g : AddsUp(g, f, SUBSET S)
<1> DEFINE Upto(n) == {s \in SUBSET S : Cardinality(s) <= n}
           Good    == {n \in Nat : \E g : AddsUp(g, f, Upto(n))}
<1>0. \A s \in SUBSET S : IsFiniteSet(s) /\ Cardinality(s) \in Nat
  BY FS_Subset, FS_CardinalityType
<1>1. 0 \in Good
  <2> DEFINE k == [s \in Upto(0) |-> 0]
  <2>1. \A s \in Upto(0) : s = {}
    BY <1>0, FS_EmptySet
  <2>2. AddsUp(k, f, Upto(0))
    BY <2>1 DEF AddsUp
  <2> QED
    BY <2>2
<1>2. ASSUME NEW n \in Nat, n \in Good
      PROVE  n + 1 \in Good
  <2>1. PICK g : AddsUp(g, f, Upto(n))
    BY <1>2
  <2> DEFINE k == [s \in Upto(n + 1) |->
                     IF s = {} THEN 0 ELSE f[Picked(s)] + g[s \ {Picked(s)}]]
  <2>2. \A s \in Upto(n + 1) : s # {} => Picked(s) \in s /\ s \ {Picked(s)} \in Upto(n)
    <3> SUFFICES ASSUME NEW s \in Upto(n + 1), s # {}
                 PROVE  Picked(s) \in s /\ s \ {Picked(s)} \in Upto(n)
      OBVIOUS
    <3>1. Picked(s) \in s
      BY DEF Picked
    <3>2. Cardinality(s \ {Picked(s)}) = Cardinality(s) - 1
      BY <1>0, <3>1, FS_RemoveElement
    <3>3. Cardinality(s) \in Nat /\ Cardinality(s) <= n + 1 /\ s \ {Picked(s)} \in SUBSET S
      BY <1>0
    <3> QED
      BY <3>1, <3>2, <3>3
  <2>3. \A s \in Upto(n) : s \in Upto(n + 1) /\ k[s] = g[s]
    <3>1. \A s \in Upto(n) : s \in Upto(n + 1)
      BY <1>0
    <3>2. \A s \in Upto(n) : g[s] = IF s = {} THEN 0 ELSE f[Picked(s)] + g[s \ {Picked(s)}]
      BY <2>1 DEF AddsUp
    <3> HIDE DEF Upto
    <3> QED
      BY <3>1, <3>2
  <2> HIDE DEF Upto
  <2>4. k = [s \in Upto(n + 1) |-> IF s = {} THEN 0 ELSE f[Picked(s)] + k[s \ {Picked(s)}]]
    <3>1. \A s \in Upto(n + 1) : s # {} => k[s \ {Picked(s)}] = g[s \ {Picked(s)}]
      BY <2>2, <2>3
    <3> HIDE DEF k
    <3>2. k = [s \in Upto(n + 1) |-> IF s = {} THEN 0 ELSE f[Picked(s)] + g[s \ {Picked(s)}]]
      BY DEF k
    <3> QED
      BY <3>1, <3>2
  <2>5. AddsUp(k, f, Upto(n + 1))
    BY <2>4 DEF AddsUp
  <2> QED
    BY <2>5
<1>3. Good = Nat
  <2>1. Good \in SUBSET Nat
    OBVIOUS
  <2> HIDE DEF Good
  <2> QED
    BY <1>1, <1>2, <2>1, NumberInduction
<1>4. Cardinality(S) \in Good
  BY <1>0, <1>3
<1>5. Upto(Cardinality(S)) = SUBSET S
  <2>1. \A s \in SUBSET S : Cardinality(s) <= Cardinality(S)
    BY FS_Subset
  <2> QED
    BY <2>1
<1> HIDE DEF Upto
<1> QED
  BY <1>4, <1>5

\* The recursion of a sum, one element at a time.
LEMMA SumAdds ==
  ASSUME NEW f, NEW S, IsFiniteSet(S)
  PROVE  /\ S = {} => SumFunctionOnSet(f, S) = 0
         /\ S # {} => SumFunctionOnSet(f, S)
                        = f[Picked(S)] + SumFunctionOnSet(f, S \ {Picked(S)})
<1> DEFINE g == CHOOSE k : AddsUp(k, f, SUBSET S)
<1>1. AddsUp(g, f, SUBSET S)
  BY SomeAddsUp
<1>2. SumFunctionOnSet(f, S) = g[S]
  BY SumUnfolds
<1> DEFINE R == S \ {Picked(S)}
           k == CHOOSE z : AddsUp(z, f, SUBSET R)
<1>3. R \in SUBSET S /\ IsFiniteSet(R)
  BY FS_Subset
<1> HIDE DEF g, k, R
<1>4. AddsUp(k, f, SUBSET R)
  BY <1>3, SomeAddsUp DEF k
<1>5. SumFunctionOnSet(f, R) = k[R]
  BY SumUnfolds DEF k
<1>6. g[R] = k[R]
  BY <1>1, <1>3, <1>4, AddsUpOnce
<1>7. g[S] = IF S = {} THEN 0 ELSE f[Picked(S)] + g[R]
  BY <1>1 DEF AddsUp, R
<1> QED
  BY <1>2, <1>5, <1>6, <1>7 DEF R

\* Any element may be added last.
LEMMA SumTakes ==
  ASSUME NEW f, NEW S, IsFiniteSet(S), \A i \in S : f[i] \in Int
  PROVE  /\ SumFunctionOnSet(f, S) \in Int
         /\ \A i \in S : SumFunctionOnSet(f, S) = f[i] + SumFunctionOnSet(f, S \ {i})
<1> DEFINE Sum(T) == SumFunctionOnSet(f, T)
           Good == {T \in SUBSET S :
                      Sum(T) \in Int /\ \A i \in T : Sum(T) = f[i] + Sum(T \ {i})}
<1>0. \A T \in SUBSET S : IsFiniteSet(T)
  BY FS_Subset
<1>a. \A T \in SUBSET S : /\ T = {} => Sum(T) = 0
                          /\ T # {} => Sum(T) = f[Picked(T)] + Sum(T \ {Picked(T)})
  BY <1>0, SumAdds
<1>1. ASSUME NEW T \in SUBSET S, \A U \in SUBSET T : U # T => U \in Good
      PROVE  T \in Good
  <2>1. CASE T = {}
    <3>1. Sum(T) = 0
      BY <1>a, <2>1
    <3> HIDE DEF Sum
    <3> QED
      BY <2>1, <3>1
  <2>2. CASE T # {}
    <3> DEFINE p == Picked(T)
    <3>1. p \in T
      BY <2>2 DEF Picked
    <3> HIDE DEF p, Sum
    <3>2. Sum(T) = f[p] + Sum(T \ {p})
      BY <1>a, <2>2 DEF p
    <3>3. T \ {p} \in Good
      BY <1>1, <3>1
    <3>4. Sum(T) \in Int
      BY <3>1, <3>2, <3>3
    <3>5. ASSUME NEW i \in T, i # p
          PROVE  Sum(T) = f[i] + Sum(T \ {i})
      <4> DEFINE W == (T \ {p}) \ {i}
      <4>1. W = (T \ {i}) \ {p} /\ i \in T \ {p} /\ p \in T \ {i}
        BY <3>1, <3>5
      <4>2. Sum(T \ {p}) = f[i] + Sum(W)
        BY <3>3, <4>1
      <4>3. T \ {i} \in Good
        BY <1>1
      <4>4. Sum(T \ {i}) = f[p] + Sum(W)
        BY <4>1, <4>3
      <4>5. W \in Good
        BY <1>1, <3>1
      <4>6. Sum(W) \in Int /\ f[i] \in Int /\ f[p] \in Int
        BY <3>1, <4>5
      <4> HIDE DEF W
      <4> QED
        BY <3>2, <4>2, <4>4, <4>6
    <3> QED
      BY <3>2, <3>4, <3>5
  <2> QED
    BY <2>1, <2>2
<1>2. S \in Good
  <2> HIDE DEF Good
  <2> QED
    BY <1>1, SubsetInduction
<1> QED
  BY <1>2

\* Sums of functions that agree.
LEMMA SumsAgree ==
  ASSUME NEW f, NEW g, NEW S, IsFiniteSet(S), \A i \in S : f[i] \in Int /\ f[i] = g[i]
  PROVE  SumFunctionOnSet(f, S) = SumFunctionOnSet(g, S)
<1> DEFINE Good == {T \in SUBSET S : SumFunctionOnSet(f, T) = SumFunctionOnSet(g, T)}
<1>0. \A T \in SUBSET S : IsFiniteSet(T)
  BY FS_Subset
<1>1. {} \in Good
  <2>1. SumFunctionOnSet(f, {}) = 0 /\ SumFunctionOnSet(g, {}) = 0
    BY SumAdds, FS_EmptySet
  <2> QED
    BY <2>1
<1>2. ASSUME NEW T \in SUBSET S, NEW i \in T, T \ {i} \in Good
      PROVE  T \in Good
  <2>1. IsFiniteSet(T) /\ (\A y \in T : f[y] \in Int) /\ (\A y \in T : g[y] \in Int)
    BY <1>0
  <2>2. SumFunctionOnSet(f, T) = f[i] + SumFunctionOnSet(f, T \ {i})
    BY <2>1, SumTakes
  <2>3. SumFunctionOnSet(g, T) = g[i] + SumFunctionOnSet(g, T \ {i})
    BY <2>1, SumTakes
  <2> QED
    BY <1>2, <2>2, <2>3
<1>3. S \in Good
  <2> HIDE DEF Good
  <2> QED
    BY <1>1, <1>2, ElementInduction
<1> QED
  BY <1>3

\* Sums are linear: f = a * g + b * k.
LEMMA SumIsLinear ==
  ASSUME NEW S, IsFiniteSet(S), NEW f, NEW g, NEW k, NEW a \in Int, NEW b \in Int,
         \A i \in S : g[i] \in Int /\ k[i] \in Int /\ f[i] = a * g[i] + b * k[i]
  PROVE  SumFunctionOnSet(f, S)
           = a * SumFunctionOnSet(g, S) + b * SumFunctionOnSet(k, S)
<1> DEFINE F(T) == SumFunctionOnSet(f, T)
           G(T) == SumFunctionOnSet(g, T)
           H(T) == SumFunctionOnSet(k, T)
           Good == {T \in SUBSET S : F(T) = a * G(T) + b * H(T)}
<1>0. \A T \in SUBSET S : IsFiniteSet(T)
  BY FS_Subset
<1>a. \A i \in S : f[i] \in Int
  OBVIOUS
<1>1. {} \in Good
  <2>1. F({}) = 0 /\ G({}) = 0 /\ H({}) = 0
    BY SumAdds, FS_EmptySet
  <2> QED
    BY <2>1
<1>b. \A T \in SUBSET S : F(T) \in Int /\ G(T) \in Int /\ H(T) \in Int
  BY <1>0, <1>a, SumTakes
<1>2. ASSUME NEW T \in SUBSET S, NEW i \in T, T \ {i} \in Good
      PROVE  T \in Good
  <2>1. IsFiniteSet(T) /\ \A y \in T : f[y] \in Int /\ g[y] \in Int /\ k[y] \in Int
    BY <1>0, <1>a
  <2>2. F(T) = f[i] + F(T \ {i}) /\ G(T) = g[i] + G(T \ {i}) /\ H(T) = k[i] + H(T \ {i})
    BY <2>1, SumTakes
  <2> DEFINE R == T \ {i}
  <2>3. R \in SUBSET S /\ F(R) \in Int /\ G(R) \in Int /\ H(R) \in Int
    BY <1>b
  <2>4. F(R) = a * G(R) + b * H(R)
    BY <1>2
  <2>5. f[i] = a * g[i] + b * k[i] /\ g[i] \in Int /\ k[i] \in Int
    OBVIOUS
  <2> HIDE DEF F, G, H, R
  <2>6. F(T) = f[i] + F(R) /\ G(T) = g[i] + G(R) /\ H(T) = k[i] + H(R)
    BY <2>2 DEF R
  <2>7. F(T) = a * G(T) + b * H(T)
    <3>1. ASSUME NEW p \in Int, NEW q \in Int, NEW u \in Int, NEW v \in Int
          PROVE  (a * p + b * q) + (a * u + b * v) = a * (p + u) + b * (q + v)
      OBVIOUS
    <3> QED
      BY <2>3, <2>4, <2>5, <2>6, <3>1
  <2> QED
    BY <2>7 DEF F, G, H
<1>3. S \in Good
  <2> HIDE DEF Good
  <2> QED
    BY <1>1, <1>2, ElementInduction
<1> QED
  BY <1>3

\* A sum of numbers that are not negative is at least each of them.
LEMMA SumIsPositive ==
  ASSUME NEW S, IsFiniteSet(S), NEW f, \A i \in S : f[i] \in Nat
  PROVE  /\ SumFunctionOnSet(f, S) \in Nat
         /\ \A i \in S : f[i] <= SumFunctionOnSet(f, S)
<1> DEFINE Good == {T \in SUBSET S : SumFunctionOnSet(f, T) \in Nat}
<1>0. \A T \in SUBSET S : IsFiniteSet(T)
  BY FS_Subset
<1>a. ASSUME NEW T \in SUBSET S, NEW i \in T
      PROVE  SumFunctionOnSet(f, T) = f[i] + SumFunctionOnSet(f, T \ {i})
  <2>1. IsFiniteSet(T) /\ \A y \in T : f[y] \in Int
    BY <1>0
  <2> QED
    BY <2>1, SumTakes
<1>1. {} \in Good
  <2>1. SumFunctionOnSet(f, {}) = 0
    BY SumAdds, FS_EmptySet
  <2> QED
    BY <2>1
<1>2. ASSUME NEW T \in SUBSET S, NEW i \in T, T \ {i} \in Good
      PROVE  T \in Good
  <2>1. SumFunctionOnSet(f, T) = f[i] + SumFunctionOnSet(f, T \ {i})
    BY <1>a
  <2> QED
    BY <1>2, <2>1
<1>3. \A T \in SUBSET S : T \in Good
  <2> SUFFICES ASSUME NEW T \in SUBSET S
               PROVE  T \in Good
    OBVIOUS
  <2>1. \A U \in SUBSET T : \A i \in U : U \ {i} \in Good => U \in Good
    BY <1>2
  <2>2. IsFiniteSet(T)
    BY <1>0
  <2> HIDE DEF Good
  <2> QED
    BY <1>1, <2>1, <2>2, ElementInduction
<1>4. \A i \in S : SumFunctionOnSet(f, S \ {i}) \in Nat
  BY <1>3
<1>5. SumFunctionOnSet(f, S) \in Nat
  BY <1>3
<1>6. ASSUME NEW i \in S
      PROVE  f[i] <= SumFunctionOnSet(f, S)
  <2>1. SumFunctionOnSet(f, S) = f[i] + SumFunctionOnSet(f, S \ {i})
    BY <1>a
  <2>2. f[i] \in Nat /\ SumFunctionOnSet(f, S \ {i}) \in Nat
    BY <1>4
  <2> QED
    BY <2>1, <2>2
<1> QED
  BY <1>5, <1>6

\* The sum over two sets that do not meet.
LEMMA SumOfUnion ==
  ASSUME NEW S, NEW T, IsFiniteSet(S), IsFiniteSet(T), S \cap T = {},
         NEW f, \A i \in S \cup T : f[i] \in Int
  PROVE  SumFunctionOnSet(f, S \cup T) = SumFunctionOnSet(f, S) + SumFunctionOnSet(f, T)
<1> DEFINE F(U) == SumFunctionOnSet(f, U)
           Good == {U \in SUBSET S : F(U \cup T) = F(U) + F(T)}
<1>0. \A U \in SUBSET S : IsFiniteSet(U) /\ IsFiniteSet(U \cup T)
  BY FS_Subset, FS_Union
<1>b. F(T) \in Int
  BY SumTakes
<1>1. {} \in Good
  <2>1. F({}) = 0 /\ {} \cup T = T
    BY SumAdds, FS_EmptySet
  <2> QED
    BY <1>b, <2>1
<1>2. ASSUME NEW U \in SUBSET S, NEW i \in U, U \ {i} \in Good
      PROVE  U \in Good
  <2>1. F(U) = f[i] + F(U \ {i})
    <3>1. IsFiniteSet(U) /\ \A y \in U : f[y] \in Int
      BY <1>0
    <3> QED
      BY <3>1, SumTakes
  <2>2. (U \cup T) \ {i} = (U \ {i}) \cup T
    OBVIOUS
  <2>3. F(U \cup T) = f[i] + F((U \cup T) \ {i})
    <3>1. IsFiniteSet(U \cup T) /\ i \in U \cup T /\ \A y \in U \cup T : f[y] \in Int
      BY <1>0
    <3> QED
      BY <3>1, SumTakes
  <2>4. F(U \ {i}) \in Int /\ f[i] \in Int
    <3>1. IsFiniteSet(U \ {i}) /\ \A y \in U \ {i} : f[y] \in Int
      BY <1>0
    <3> QED
      BY <3>1, SumTakes
  <2>5. F((U \ {i}) \cup T) = F(U \ {i}) + F(T)
    BY <1>2
  <2>6. F(U \cup T) = f[i] + F((U \ {i}) \cup T)
    BY <2>2, <2>3
  <2>a. F(T) \in Int
    BY <1>b
  <2> HIDE DEF F
  <2>7. F(U \cup T) = F(U) + F(T)
    BY <2>a, <2>1, <2>4, <2>5, <2>6
  <2> QED
    BY <2>7 DEF F
<1>3. S \in Good
  <2> HIDE DEF Good
  <2> QED
    BY <1>1, <1>2, ElementInduction
<1> QED
  BY <1>3

\* The image of a finite set is finite.
LEMMA ImageIsFinite ==
  ASSUME NEW S, IsFiniteSet(S), NEW p
  PROVE  IsFiniteSet({p[i] : i \in S})
<1> DEFINE T == {p[i] : i \in S}
           f == [i \in S |-> p[i]]
<1>1. f \in Surjection(S, T)
  BY DEF Surjection
<1> HIDE DEF f, T
<1>2. IsFiniteSet(T)
  BY <1>1, FS_Surjection
<1> QED
  BY <1>2 DEF T

\* The sum over a set whose elements are named by those of another one.
LEMMA SumRenamed ==
  ASSUME NEW S, NEW T, IsFiniteSet(S), NEW p \in [S -> T],
         \A i, y \in S : p[i] = p[y] => i = y,
         NEW f, NEW g, \A i \in S : f[i] \in Int /\ f[i] = g[p[i]]
  PROVE  SumFunctionOnSet(f, S) = SumFunctionOnSet(g, {p[i] : i \in S})
<1> DEFINE F(U) == SumFunctionOnSet(f, U)
           G(U) == SumFunctionOnSet(g, {p[i] : i \in U})
           Good == {U \in SUBSET S : F(U) = G(U)}
<1>0. \A U \in SUBSET S : IsFiniteSet(U) /\ IsFiniteSet({p[i] : i \in U})
  BY FS_Subset, ImageIsFinite
<1>1. {} \in Good
  <2>1. F({}) = 0 /\ SumFunctionOnSet(g, {}) = 0 /\ {p[i] : i \in {}} = {}
    BY SumAdds, FS_EmptySet
  <2> QED
    BY <2>1
<1>2. ASSUME NEW U \in SUBSET S, NEW i \in U, U \ {i} \in Good
      PROVE  U \in Good
  <2>1. F(U) = f[i] + F(U \ {i})
    <3>1. IsFiniteSet(U) /\ \A y \in U : f[y] \in Int
      BY <1>0
    <3> QED
      BY <3>1, SumTakes
  <2>2. {p[y] : y \in U} \ {p[i]} = {p[y] : y \in U \ {i}}
    OBVIOUS
  <2>3. G(U) = g[p[i]] + G(U \ {i})
    <3> DEFINE V == {p[y] : y \in U}
    <3>0. \A y \in U : g[p[y]] \in Int
      OBVIOUS
    <3>1. IsFiniteSet(V) /\ p[i] \in V /\ \A y \in V : g[y] \in Int
      BY <1>0, <3>0
    <3> HIDE DEF V
    <3>2. SumFunctionOnSet(g, V) = g[p[i]] + SumFunctionOnSet(g, V \ {p[i]})
      BY <3>1, SumTakes
    <3> QED
      BY <2>2, <3>2 DEF V
  <2> QED
    BY <1>2, <2>1, <2>3
<1>3. S \in Good
  <2> HIDE DEF Good
  <2> QED
    BY <1>1, <1>2, ElementInduction
<1> QED
  BY <1>3

\* A sum of equal numbers.
LEMMA SumOfEqual ==
  ASSUME NEW S, IsFiniteSet(S), NEW c \in Int, NEW f, \A i \in S : f[i] = c
  PROVE  SumFunctionOnSet(f, S) = c * Cardinality(S)
<1> DEFINE Good == {T \in SUBSET S : SumFunctionOnSet(f, T) = c * Cardinality(T)}
<1>0. \A T \in SUBSET S : IsFiniteSet(T) /\ Cardinality(T) \in Nat
  BY FS_Subset, FS_CardinalityType
<1>1. {} \in Good
  <2>1. SumFunctionOnSet(f, {}) = 0 /\ Cardinality({}) = 0
    BY SumAdds, FS_EmptySet
  <2> QED
    BY <2>1
<1>2. ASSUME NEW T \in SUBSET S, NEW i \in T, T \ {i} \in Good
      PROVE  T \in Good
  <2>1. IsFiniteSet(T) /\ \A y \in T : f[y] \in Int
    BY <1>0
  <2>2. SumFunctionOnSet(f, T) = c + SumFunctionOnSet(f, T \ {i})
    BY <2>1, SumTakes
  <2>3. Cardinality(T \ {i}) = Cardinality(T) - 1 /\ Cardinality(T) \in Nat
    BY <1>0, <2>1, FS_RemoveElement
  <2>4. \A n \in Nat : c + c * (n - 1) = c * n
    OBVIOUS
  <2> QED
    BY <1>2, <2>2, <2>3, <2>4
<1>3. S \in Good
  <2> HIDE DEF Good
  <2> QED
    BY <1>1, <1>2, ElementInduction
<1> QED
  BY <1>3

\* A sum is at most a sum of larger numbers.
LEMMA SumIsMonotone ==
  ASSUME NEW S, IsFiniteSet(S), NEW f, NEW g,
         \A i \in S : f[i] \in Int /\ g[i] \in Int /\ f[i] <= g[i]
  PROVE  SumFunctionOnSet(f, S) <= SumFunctionOnSet(g, S)
<1> DEFINE gap == [i \in S |-> g[i] - f[i]]
<1>1. \A i \in S : gap[i] \in Nat
  OBVIOUS
<1>2. \A i \in S : f[i] \in Int /\ g[i] \in Int /\ gap[i] = 1 * g[i] + (-1) * f[i]
  OBVIOUS
<1> HIDE DEF gap
<1>3. SumFunctionOnSet(gap, S) \in Nat
  BY <1>1, SumIsPositive
<1>4. SumFunctionOnSet(gap, S) = 1 * SumFunctionOnSet(g, S) + (-1) * SumFunctionOnSet(f, S)
  BY <1>2, SumIsLinear
<1>5. SumFunctionOnSet(f, S) \in Int /\ SumFunctionOnSet(g, S) \in Int
  BY SumTakes
<1> QED
  BY <1>3, <1>4, <1>5

-----------------------------------------------------------------------------
(***************************************************************************)
(* Products of sums.                                                       *)
(***************************************************************************)

\* w is the product of u and v, term by term.
Termwise(w, u, v, S) == \A i \in S : u[i] \in Int /\ v[i] \in Int /\ w[i] = u[i] * v[i]

\* d is the square of r u - s v, term by term.
SquaredGap(d, r, u, s, v, S) ==
  \A i \in S : d[i] = (r * u[i] - s * v[i]) * (r * u[i] - s * v[i])

\* The sum of squares of r u - s v, multiplied out.
LEMMA SquaresMultiplyOut ==
  ASSUME NEW S, IsFiniteSet(S), NEW u, NEW v, NEW r \in Int, NEW s \in Int,
         NEW uu, NEW uv, NEW vv, NEW d,
         Termwise(uu, u, u, S), Termwise(uv, u, v, S), Termwise(vv, v, v, S),
         SquaredGap(d, r, u, s, v, S)
  PROVE  SumFunctionOnSet(d, S)
           = (r * r) * SumFunctionOnSet(uu, S)
             + (-2) * ((r * s) * SumFunctionOnSet(uv, S)) + (s * s) * SumFunctionOnSet(vv, S)
<1> DEFINE e == [i \in S |-> (-2) * ((r * s) * uv[i]) + (s * s) * vv[i]]
           D == SumFunctionOnSet(d, S)
           E == SumFunctionOnSet(e, S)
           A == SumFunctionOnSet(uu, S)
           B == SumFunctionOnSet(uv, S)
           C == SumFunctionOnSet(vv, S)
<1>1. ASSUME NEW i \in S
      PROVE  /\ uu[i] \in Int /\ uv[i] \in Int /\ vv[i] \in Int /\ e[i] \in Int
             /\ d[i] = (r * r) * uu[i] + 1 * e[i]
             /\ e[i] = ((-2) * (r * s)) * uv[i] + (s * s) * vv[i]
  <2>1. /\ u[i] \in Int /\ v[i] \in Int
        /\ uu[i] = u[i] * u[i] /\ uv[i] = u[i] * v[i] /\ vv[i] = v[i] * v[i]
        /\ d[i] = (r * u[i] - s * v[i]) * (r * u[i] - s * v[i])
        /\ e[i] = (-2) * ((r * s) * uv[i]) + (s * s) * vv[i]
    BY DEF Termwise, SquaredGap
  <2> HIDE DEF e
  <2>2. \A a, b \in Int : (r * a - s * b) * (r * a - s * b)
          = (r * r) * (a * a) + ((-2) * ((r * s) * (a * b)) + (s * s) * (b * b))
    BY SMTT(30)
  <2>3. \A a \in Int : (-2) * ((r * s) * a) = ((-2) * (r * s)) * a
    BY SMTT(30)
  <2>4. uu[i] \in Int /\ uv[i] \in Int /\ vv[i] \in Int
    BY <2>1
  <2>5. e[i] \in Int
    <3>1. r * s \in Int /\ s * s \in Int
      OBVIOUS
    <3> QED
      BY <2>1, <2>4, <3>1
  <2> QED
    BY <2>1, <2>2, <2>3, <2>4, <2>5
<1> HIDE DEF e
<1>2. A \in Int /\ B \in Int /\ C \in Int /\ E \in Int
  BY <1>1, SumTakes
<1>3. r * r \in Int /\ (-2) * (r * s) \in Int /\ s * s \in Int /\ r * s \in Int
  OBVIOUS
<1>4. D = (r * r) * A + 1 * E
  <2> DEFINE p == r * r
  <2>1. p \in Int /\ 1 \in Int
    BY <1>3
  <2>2. \A i \in S : uu[i] \in Int /\ e[i] \in Int /\ d[i] = p * uu[i] + 1 * e[i]
    BY <1>1
  <2> HIDE DEF p
  <2>3. D = p * A + 1 * E
    BY <2>1, <2>2, SumIsLinear
  <2> QED
    BY <2>3 DEF p
<1>5. E = ((-2) * (r * s)) * B + (s * s) * C
  <2> DEFINE p == (-2) * (r * s)
             q == s * s
  <2>1. p \in Int /\ q \in Int
    BY <1>3
  <2>2. \A i \in S : uv[i] \in Int /\ vv[i] \in Int /\ e[i] = p * uv[i] + q * vv[i]
    BY <1>1
  <2> HIDE DEF p, q
  <2>3. E = p * B + q * C
    BY <2>1, <2>2, SumIsLinear
  <2> QED
    BY <2>3 DEF p, q
<1> HIDE DEF A, B, C, D, E
<1>6. ((-2) * (r * s)) * B = (-2) * ((r * s) * B)
  BY <1>2, <1>3, SMTT(30)
<1>7. (r * r) * A \in Int /\ (r * s) * B \in Int /\ (s * s) * C \in Int
  BY <1>2, <1>3
<1>8. D = (r * r) * A + (-2) * ((r * s) * B) + (s * s) * C
  BY <1>2, <1>4, <1>5, <1>6, <1>7
<1> QED
  BY <1>8 DEF A, B, C, D

\* The inequality of Cauchy and Schwarz.
LEMMA CauchySchwarz ==
  ASSUME NEW S, IsFiniteSet(S), NEW u, NEW v, NEW uu, NEW uv, NEW vv,
         Termwise(uu, u, u, S), Termwise(uv, u, v, S), Termwise(vv, v, v, S)
  PROVE  /\ SumFunctionOnSet(uu, S) \in Nat
         /\ SumFunctionOnSet(vv, S) \in Nat
         /\ SumFunctionOnSet(uv, S) \in Int
         /\ SumFunctionOnSet(uv, S) * SumFunctionOnSet(uv, S)
              <= SumFunctionOnSet(uu, S) * SumFunctionOnSet(vv, S)
<1> DEFINE A == SumFunctionOnSet(uu, S)
           B == SumFunctionOnSet(uv, S)
           C == SumFunctionOnSet(vv, S)
<1>0. \A a \in Int : a * a \in Nat
  OBVIOUS
<1>1. \A i \in S : uu[i] \in Nat /\ vv[i] \in Nat /\ uv[i] \in Int
  BY <1>0 DEF Termwise
<1>2. A \in Nat /\ C \in Nat /\ B \in Int
  BY <1>1, SumIsPositive, SumTakes
<1>3. ASSUME NEW r \in Int, NEW s \in Int
      PROVE  (r * r) * A + (-2) * ((r * s) * B) + (s * s) * C \in Nat
  <2> DEFINE d == [i \in S |-> (r * u[i] - s * v[i]) * (r * u[i] - s * v[i])]
  <2>1. ASSUME NEW i \in S
        PROVE  d[i] \in Nat
    <3>1. r * u[i] - s * v[i] \in Int
      BY DEF Termwise
    <3> QED
      BY <1>0, <3>1
  <2> HIDE DEF d
  <2>2. SumFunctionOnSet(d, S) \in Nat
    BY <2>1, SumIsPositive
  <2>3. SumFunctionOnSet(d, S) = (r * r) * A + (-2) * ((r * s) * B) + (s * s) * C
    <3>1. SquaredGap(d, r, u, s, v, S)
      BY DEF d, SquaredGap
    <3> QED
      BY <3>1, SquaresMultiplyOut
  <2> QED
    BY <2>2, <2>3
<1> HIDE DEF A, B, C
<1>4. CASE A > 0
  <2>1. (B * B) * A + (-2) * ((B * A) * B) + (A * A) * C \in Nat
    <3>1. A \in Int /\ B \in Int
      BY <1>2
    <3> QED
      BY <1>3, <3>1, Zenon
  <2>2. (B * B) * A + (-2) * ((B * A) * B) + (A * A) * C = A * (A * C - B * B)
    BY <1>2, SMTT(30)
  <2>3. A * C - B * B >= 0
    <3> DEFINE z == A * C - B * B
    <3>1. z \in Int /\ A * z >= 0
      BY <1>2, <2>1, <2>2
    <3> HIDE DEF z
    <3>2. z >= 0
      BY <1>2, <1>4, <3>1, SMTT(30)
    <3> QED
      BY <3>2 DEF z
  <2> QED
    BY <1>2, <2>3 DEF A, B, C
<1>5. CASE A = 0
  <2> DEFINE r == B * (C + 1)
  <2>0. r \in Int
    BY <1>2
  <2>1. (r * r) * A + (-2) * ((r * 1) * B) + (1 * 1) * C \in Nat
    <3>1. 1 \in Int
      OBVIOUS
    <3> HIDE DEF r
    <3> QED
      BY <1>3, <2>0, <3>1, Zenon
  <2>2. (r * r) * A = 0
    BY <1>5, <2>0
  <2>3. (r * 1) * B = (B * B) * (C + 1)
    BY <1>2, SMTT(30)
  <2> HIDE DEF r
  <2> DEFINE q == B * B
  <2>4. q \in Nat /\ (q > 0 => q >= 1)
    <3>1. q \in Nat
      BY <1>0, <1>2, Zenon
    <3> HIDE DEF q
    <3> QED
      BY <3>1
  <2>5. (-2) * (q * (C + 1)) + C >= 0
    BY <1>2, <2>1, <2>2, <2>3, <2>4
  <2> HIDE DEF q
  <2>6. q = 0
    BY <1>2, <2>4, <2>5, SMTT(30)
  <2>7. A * C = 0
    BY <1>2, <1>5
  <2> QED
    BY <1>2, <2>6, <2>7 DEF A, B, C, q
<1> QED
  BY <1>2, <1>4, <1>5 DEF A, B, C

-----------------------------------------------------------------------------
(***************************************************************************)
(* Numbers, their halves and their bits.                                   *)
(***************************************************************************)

\* A number is its quotient times the divisor and a rest.
LEMMA Splits ==
  ASSUME NEW n \in Nat \ {0}, NEW s \in Nat
  PROVE  /\ s \div n \in Nat
         /\ s % n \in 0 .. (n - 1)
         /\ s = (s \div n) * n + (s % n)
<1>1. s % n = s - n * (s \div n)
  BY SMTT(30)
<1>2. s % n \in 0 .. (n - 1)
  BY SMT
<1>3. s \div n \in Nat
  BY SMTT(30)
<1>4. s = n * (s \div n) + (s % n)
  BY <1>1, <1>2, <1>3, SMTT(30)
<1> QED
  BY <1>2, <1>3, <1>4, SMTT(30)

\* Quotient and rest of a number written that way.
LEMMA Joins ==
  ASSUME NEW n \in Nat \ {0}, NEW q \in Nat, NEW r \in 0 .. (n - 1),
         NEW s, s = q * n + r
  PROVE  s \in Nat /\ s \div n = q /\ s % n = r
<1>1. q * n + r \in Nat
  BY SMTT(30)
<1>2. (q * n + r) \div n = q
  BY SMTT(30)
<1>3. (q * n + r) % n = r
  BY SMTT(30)
<1> QED
  BY <1>1, <1>2, <1>3

\* The bit of weight w is the one between t \div 2h and t % w.
LEMMA BitOfHalf ==
  ASSUME NEW w \in Nat \ {0}, NEW t \in Nat
  PROVE  /\ (t \div w) % 2 \in {0, 1}
         /\ t \div (2 * w) = (t \div w) \div 2
         /\ t \div w = 2 * (t \div (2 * w)) + ((t \div w) % 2)
         /\ t % (2 * w) = ((t \div w) % 2) * w + (t % w)
<1> DEFINE q == t \div w
           r == t % w
           a == q \div 2
           b == q % 2
<1>1. q \in Nat /\ r \in 0 .. (w - 1) /\ t = q * w + r
  BY Splits
<1>2. a \in Nat /\ b \in 0 .. 1 /\ q = a * 2 + b
  BY <1>1, Splits
<1> HIDE DEF q, r, a, b
<1>3. t = a * (2 * w) + (b * w + r)
  <2>1. q * w = a * (2 * w) + b * w
    BY <1>2, SMTT(30)
  <2>2. q * w \in Nat /\ a * (2 * w) \in Nat /\ b * w \in Nat
    BY <1>1, <1>2, SMTT(30)
  <2> QED
    BY <1>1, <2>1, <2>2
<1>4. b * w + r \in 0 .. (2 * w - 1)
  <2>1. b = 0 \/ b = 1
    BY <1>2
  <2> QED
    BY <1>1, <2>1
<1>5. 2 * w \in Nat \ {0}
  OBVIOUS
<1>6. t \div (2 * w) = a /\ t % (2 * w) = b * w + r
  <2> DEFINE k == b * w + r
             n == 2 * w
  <2>1. n \in Nat \ {0} /\ a \in Nat /\ k \in 0 .. (n - 1) /\ t = a * n + k
    BY <1>2, <1>3, <1>4, <1>5
  <2> HIDE DEF k, n
  <2>2. t \div n = a /\ t % n = k
    BY <2>1, Joins
  <2> QED
    BY <2>2 DEF k, n
<1>7. q = 2 * a + b
  BY <1>2
<1>8. b \in {0, 1}
  BY <1>2
<1>9. /\ b \in {0, 1} /\ t \div (2 * w) = a
      /\ q = 2 * (t \div (2 * w)) + b /\ t % (2 * w) = b * w + r
  BY <1>6, <1>7, <1>8
<1> QED
  BY <1>9, Zenon DEF q, r, a, b

\* Adding w adds one to the quotient by w.
LEMMA OneGroupOn ==
  ASSUME NEW w \in Nat \ {0}, NEW t \in Nat
  PROVE  (t + w) \div w = t \div w + 1 /\ (t + w) % w = t % w
<1> DEFINE q == t \div w
           r == t % w
<1>1. q \in Nat /\ r \in 0 .. (w - 1) /\ t = q * w + r
  BY Splits
<1> HIDE DEF q, r
<1>2. t + w = (q + 1) * w + r
  <2>1. (q + 1) * w = q * w + w
    BY <1>1, SMTT(30)
  <2>2. q * w \in Nat
    BY <1>1, SMTT(30)
  <2> QED
    BY <1>1, <2>1, <2>2
<1>3. q + 1 \in Nat
  BY <1>1
<1>4. (t + w) \div w = q + 1 /\ (t + w) % w = r
  <2> DEFINE s == t + w
             k == q + 1
  <2>1. k \in Nat /\ s = k * w + r
    BY <1>2, <1>3
  <2> HIDE DEF s, k
  <2>2. s \div w = k /\ s % w = r
    BY <1>1, <2>1, Joins
  <2> QED
    BY <2>2 DEF s, k
<1> QED
  BY <1>4 DEF q, r

\* Adding w leaves the bits below w alone.
LEMMA LowerBitsStay ==
  ASSUME NEW p \in Nat \ {0}, NEW w \in Nat, w % (2 * p) = 0, NEW t \in Nat
  PROVE  ((t + w) \div p) % 2 = (t \div p) % 2
<1> DEFINE q == t \div p
           r == t % p
           c == w \div (2 * p)
           a == q \div 2
           b == q % 2
<1>1. q \in Nat /\ r \in 0 .. (p - 1) /\ t = q * p + r
  BY Splits
<1>2. c \in Nat /\ w = c * (2 * p)
  <2>1. 2 * p \in Nat \ {0}
    OBVIOUS
  <2>2. c \in Nat /\ w = c * (2 * p) + (w % (2 * p))
    BY <2>1, Splits
  <2> HIDE DEF c
  <2>3. c * (2 * p) \in Nat
    BY <2>2, SMTT(30)
  <2> QED
    BY <2>2, <2>3
<1>3. a \in Nat /\ b \in 0 .. 1 /\ q = a * 2 + b
  BY <1>1, Splits
<1> HIDE DEF q, r, a, b, c
<1>4. t + w = (q + 2 * c) * p + r
  <2>1. (q + 2 * c) * p = q * p + c * (2 * p)
    BY <1>1, <1>2, SMTT(30)
  <2>2. q * p \in Nat /\ c * (2 * p) \in Nat
    BY <1>1, <1>2, SMTT(30)
  <2> QED
    BY <1>1, <1>2, <2>1, <2>2
<1>5. q + 2 * c \in Nat
  BY <1>1, <1>2
<1>6. (t + w) \div p = q + 2 * c
  <2> DEFINE s == t + w
             k == q + 2 * c
  <2>1. k \in Nat /\ s = k * p + r
    BY <1>4, <1>5
  <2> HIDE DEF s, k
  <2>2. s \div p = k
    BY <1>1, <2>1, Joins
  <2> QED
    BY <2>2 DEF s, k
<1>7. (q + 2 * c) % 2 = b
  <2>1. q + 2 * c = (a + c) * 2 + b /\ a + c \in Nat
    BY <1>2, <1>3
  <2> QED
    <3>1. b \in 0 .. (2 - 1) /\ 2 \in Nat \ {0}
      BY <1>3
    <3> QED
      BY <2>1, <3>1, SMTT(30)
<1> QED
  BY <1>6, <1>7 DEF q, b

\* A multiple of a divisor.
LEMMA Multiple ==
  ASSUME NEW n \in Nat \ {0}, NEW q \in Nat, NEW s, s = q * n
  PROVE  s \in Nat /\ s \div n = q /\ s % n = 0
<1>1. q * n \in Nat
  BY SMTT(30)
<1>2. s = q * n + 0 /\ 0 \in 0 .. (n - 1)
  BY <1>1
<1> QED
  BY <1>2, Joins

\* What divides a number is at most that number.
LEMMA Divisor ==
  ASSUME NEW n \in Nat \ {0}, NEW s \in Nat, s % n = 0
  PROVE  s \div n \in Nat /\ s = (s \div n) * n
<1> DEFINE q == s \div n
<1>1. q \in Nat /\ s = q * n + (s % n)
  BY Splits
<1> HIDE DEF q
<1>2. q * n \in Nat
  BY <1>1, SMTT(30)
<1>3. s = q * n
  BY <1>1, <1>2
<1> QED
  BY <1>1, <1>3 DEF q

-----------------------------------------------------------------------------
(***************************************************************************)
(* Powers of two.                                                          *)
(***************************************************************************)

\* One is the smallest power of two.
LEMMA OneIsPower == IsPowerOfTwo(1)
BY DEF IsPowerOfTwo

\* A power other than one is twice a power.
LEMMA PowersHalve ==
  ASSUME NEW n \in Nat \ {0}, IsPowerOfTwo(n), n # 1
  PROVE  /\ n \div 2 \in Nat \ {0} /\ n = 2 * (n \div 2) /\ n \div 2 < n
         /\ IsPowerOfTwo(n \div 2)
<1> DEFINE k == n \div 2
<1>1. n % n = 0
  <2>1. n = 1 * n
    OBVIOUS
  <2> QED
    BY <2>1, Multiple
<1>2. n % 2 = 0
  BY <1>1 DEF IsPowerOfTwo
<1>3. k \in Nat /\ n = k * 2
  BY <1>2, Divisor
<1> HIDE DEF k
<1>4. ASSUME NEW m \in 2 .. k, k % m = 0
      PROVE  m % 2 = 0
  <2> DEFINE c == k \div m
  <2>1. c \in Nat /\ k = c * m
    BY <1>3, <1>4, Divisor
  <2> HIDE DEF c
  <2>2. n = (2 * c) * m
    BY <1>3, <2>1, SMTT(30)
  <2>3. n % m = 0
    <3>1. 2 * c \in Nat /\ m \in Nat \ {0}
      BY <2>1
    <3> QED
      BY <2>2, <3>1, Multiple, Zenon
  <2>4. m \in 2 .. n
    BY <1>3
  <2> QED
    BY <2>3, <2>4 DEF IsPowerOfTwo
<1>5. IsPowerOfTwo(k)
  BY <1>4 DEF IsPowerOfTwo
<1> QED
  BY <1>3, <1>5 DEF k

\* Twice a power is a power.
LEMMA PowersDouble ==
  ASSUME NEW w \in Nat \ {0}, IsPowerOfTwo(w)
  PROVE  IsPowerOfTwo(2 * w)
<1> SUFFICES ASSUME NEW m \in 2 .. (2 * w), (2 * w) % m = 0
             PROVE  m % 2 = 0
  BY DEF IsPowerOfTwo
<1> DEFINE k == (2 * w) \div m
           a == k \div 2
           c == m \div 2
<1>1. k \in Nat /\ 2 * w = k * m
  <2>1. 2 * w \in Nat
    OBVIOUS
  <2> QED
    BY <2>1, Divisor
<1>2. a \in Nat /\ k % 2 \in 0 .. 1 /\ k = a * 2 + (k % 2)
  <2>1. 2 \in Nat \ {0}
    OBVIOUS
  <2> HIDE DEF k
  <2> QED
    BY <1>1, <2>1, Splits
<1>3. c \in Nat /\ m % 2 \in 0 .. 1 /\ m = c * 2 + (m % 2)
  BY Splits
<1> HIDE DEF k, a, c
<1> SUFFICES ASSUME m % 2 = 1
             PROVE  FALSE
  BY <1>3
<1>4. k % 2 = 0
  <2> SUFFICES ASSUME k % 2 = 1
               PROVE  FALSE
    BY <1>2
  <2>1. k = 2 * a + 1 /\ m = 2 * c + 1
    BY <1>2, <1>3
  <2>2. k * m = 2 * (2 * (a * c) + a + c) + 1
    BY <1>2, <1>3, <2>1, SMTT(30)
  <2>3. 2 * (a * c) + a + c \in Nat
    BY <1>2, <1>3, SMTT(30)
  <2> QED
    BY <1>1, <2>2, <2>3
<1>5. w = a * m
  <2>1. k = 2 * a
    BY <1>2, <1>4
  <2>2. k * m = 2 * (a * m) /\ a * m \in Nat
    BY <1>2, <2>1, SMTT(30)
  <2> QED
    BY <1>1, <2>2
<1>6. w % m = 0
  <2>1. m \in Nat \ {0}
    OBVIOUS
  <2> QED
    BY <1>2, <1>5, <2>1, Multiple, Zenon
<1>7. a # 0
  BY <1>5
<1>8. m <= w
  BY <1>2, <1>5, <1>7, SMTT(30)
<1> QED
  BY <1>6, <1>8 DEF IsPowerOfTwo

\* The smaller of two powers divides the larger.
LEMMA PowersDivide ==
  ASSUME NEW a \in Nat \ {0}, IsPowerOfTwo(a), NEW b \in Nat \ {0}, IsPowerOfTwo(b), a <= b
  PROVE  b % a = 0
<1> DEFINE Divides(n) == \A m \in Nat \ {0} : IsPowerOfTwo(m) /\ n <= m => m % n = 0
           Bad == {n \in Nat : n # 0 /\ IsPowerOfTwo(n) /\ ~Divides(n)}
<1> SUFFICES ASSUME Bad # {}
             PROVE  FALSE
  OBVIOUS
<1>1. PICK n \in Bad : \A m \in Bad : n <= m
  <2>1. Bad \in SUBSET Nat
    OBVIOUS
  <2> HIDE DEF Bad
  <2> QED
    BY <2>1, LeastNumber
<1>2. n \in Nat \ {0} /\ IsPowerOfTwo(n) /\ ~Divides(n)
  BY <1>1
<1>3. PICK m \in Nat \ {0} : IsPowerOfTwo(m) /\ n <= m /\ m % n # 0
  BY <1>2
<1>4. n # 1
  BY <1>3
<1> DEFINE i == n \div 2
           k == m \div 2
<1>5. i \in Nat \ {0} /\ n = 2 * i /\ i < n /\ IsPowerOfTwo(i)
  BY <1>2, <1>4, PowersHalve
<1>6. k \in Nat \ {0} /\ m = 2 * k /\ IsPowerOfTwo(k)
  BY <1>2, <1>3, <1>4, PowersHalve
<1> HIDE DEF i, k
<1>a. ~(n <= i)
  BY <1>2, <1>5
<1>7. i <= k
  BY <1>3, <1>5, <1>6
<1>8. k % i = 0
  <2>1. i \notin Bad
    BY <1>1, <1>a, Zenon
  <2> HIDE DEF Divides
  <2>2. Divides(i)
    BY <1>5, <2>1
  <2> QED
    BY <1>6, <1>7, <2>2 DEF Divides
<1> DEFINE c == k \div i
<1>9. c \in Nat /\ k = c * i
  BY <1>5, <1>6, <1>8, Divisor
<1> HIDE DEF c
<1>10. m = c * n
  BY <1>5, <1>6, <1>9, SMTT(30)
<1> QED
  BY <1>2, <1>3, <1>9, <1>10, Multiple

\* Between a power and the next lies no other.
LEMMA NextPower ==
  ASSUME NEW p \in Nat \ {0}, IsPowerOfTwo(p), NEW w \in Nat \ {0}, IsPowerOfTwo(w), p < w
  PROVE  2 * p <= w /\ w % (2 * p) = 0
<1>1. w % p = 0
  BY PowersDivide
<1> DEFINE c == w \div p
<1>2. c \in Nat /\ w = c * p
  BY <1>1, Divisor
<1> HIDE DEF c
<1>3. c # 0 /\ c # 1
  BY <1>2
<1>4. c >= 2
  BY <1>2, <1>3
<1>5. 2 * p <= w
  BY <1>2, <1>4, SMTT(30)
<1> QED
  BY <1>5, PowersDouble, PowersDivide

-----------------------------------------------------------------------------
(***************************************************************************)
(* The stages of the transform.                                            *)
(***************************************************************************)

\* The column before the stage of half size w, for all of them at once.
Passes(a, col) == a = [w \in 1 .. N |-> IF w = 1 THEN col ELSE Stage(a[w \div 2], w \div 2)]

\* The columns before the stages of a column col.
StagesOf(col) == CHOOSE a : Passes(a, col)

\* The half sizes of the stages, and N for what follows the last.
Weights == {w \in 1 .. N : IsPowerOfTwo(w)}

\* The transform is what follows the last stage.
LEMMA TransformIsLast == ASSUME NEW col PROVE Transform(col) = StagesOf(col)[N]
BY DEF Transform, StagesOf, Passes

\* The stages refer to the stage of half their size.
LEMMA HalfIsSmaller ==
  ASSUME NEW w \in Nat \ {0}, w # 1
  PROVE  w \div 2 \in 1 .. (w - 1)
BY SMT

\* The recursion of Transform has a solution.
LEMMA StagesExist == ASSUME NEW col PROVE Passes(StagesOf(col), col)
<1> DEFINE Upto(a, n) ==
             a = [w \in 1 .. n |-> IF w = 1 THEN col ELSE Stage(a[w \div 2], w \div 2)]
           Good == {n \in Nat : \E a : Upto(a, n)}
<1>1. 0 \in Good
  <2>1. Upto([w \in 1 .. 0 |-> 0], 0)
    OBVIOUS
  <2> QED
    BY <2>1
<1>2. ASSUME NEW n \in Nat, n \in Good
      PROVE  n + 1 \in Good
  <2>1. PICK a : Upto(a, n)
    BY <1>2
  <2> DEFINE b == [w \in 1 .. (n + 1) |-> IF w = 1 THEN col ELSE Stage(a[w \div 2], w \div 2)]
  <2>2. \A w \in 1 .. (n + 1) : w # 1 => w \div 2 \in 1 .. n
    BY HalfIsSmaller
  <2>3. \A w \in 1 .. n : b[w] = a[w]
    <3>1. \A w \in 1 .. n : a[w] = IF w = 1 THEN col ELSE Stage(a[w \div 2], w \div 2)
      BY <2>1
    <3> QED
      BY <3>1
  <2>4. b = [w \in 1 .. (n + 1) |-> IF w = 1 THEN col ELSE Stage(b[w \div 2], w \div 2)]
    <3>1. \A w \in 1 .. (n + 1) : w # 1 => b[w \div 2] = a[w \div 2]
      BY <2>2, <2>3
    <3>2. b = [w \in 1 .. (n + 1) |-> IF w = 1 THEN col ELSE Stage(a[w \div 2], w \div 2)]
      OBVIOUS
    <3> HIDE DEF b
    <3> QED
      BY <3>1, <3>2
  <2>5. Upto(b, n + 1)
    <3> HIDE DEF b
    <3> QED
      BY <2>4
  <2> HIDE DEF b
  <2>6. n + 1 \in Nat /\ \E z : Upto(z, n + 1)
    BY <2>5
  <2> QED
    BY <2>6
<1>3. N \in Good
  <2> HIDE DEF Good
  <2> QED
    BY <1>1, <1>2, NIsAPowerOfTwo, NumberInduction
<1> QED
  BY <1>3 DEF StagesOf, Passes

\* Twice a half size that is not the last one is one again.
LEMMA WeightsDouble ==
  /\ 1 \in Weights /\ N \in Weights
  /\ \A w \in Weights : w < N => 2 * w \in Weights /\ N % (2 * w) = 0
<1>1. 1 \in Weights /\ N \in Weights
  BY NIsAPowerOfTwo, OneIsPower DEF Weights
<1>2. ASSUME NEW w \in Weights, w < N
      PROVE  2 * w \in Weights /\ N % (2 * w) = 0
  <2>1. w \in Nat \ {0} /\ IsPowerOfTwo(w) /\ N \in Nat \ {0} /\ IsPowerOfTwo(N)
    BY NIsAPowerOfTwo DEF Weights
  <2>2. 2 * w <= N /\ N % (2 * w) = 0 /\ IsPowerOfTwo(2 * w)
    BY <1>2, <2>1, NextPower, PowersDouble
  <2> QED
    BY <2>1, <2>2 DEF Weights
<1> QED
  BY <1>1, <1>2

\* Each stage starts from what the stage before it returned.
LEMMA StageAfterStage ==
  ASSUME NEW col
  PROVE  /\ StagesOf(col)[1] = col
         /\ \A w \in Weights :
              w < N => StagesOf(col)[2 * w] = Stage(StagesOf(col)[w], w)
<1> DEFINE a == StagesOf(col)
<1>0. Passes(a, col)
  BY StagesExist
<1> HIDE DEF a
<1>1. \A w \in 1 .. N : a[w] = IF w = 1 THEN col ELSE Stage(a[w \div 2], w \div 2)
  BY <1>0 DEF Passes
<1>2. a[1] = col
  BY <1>1, NIsAPowerOfTwo
<1>3. ASSUME NEW w \in Weights, w < N
      PROVE  a[2 * w] = Stage(a[w], w)
  <2>1. 2 * w \in 1 .. N /\ 2 * w # 1
    BY <1>3, WeightsDouble DEF Weights
  <2>2. (2 * w) \div 2 = w
    BY DEF Weights
  <2>3. a[2 * w] = Stage(a[(2 * w) \div 2], (2 * w) \div 2)
    BY <1>1, <2>1
  <2> QED
    BY <2>2, <2>3
<1> QED
  BY <1>2, <1>3 DEF a

\* Induction over the stages.
LEMMA StageInduction ==
  ASSUME NEW Good, 1 \in Good, \A w \in Weights : w < N /\ w \in Good => 2 * w \in Good
  PROVE  \A w \in Weights : w \in Good
<1> DEFINE Bad == {w \in Weights : w \notin Good}
<1> SUFFICES ASSUME Bad # {}
             PROVE  FALSE
  OBVIOUS
<1>1. PICK n \in Bad : \A m \in Bad : n <= m
  <2>1. Bad \in SUBSET Nat
    BY DEF Weights
  <2> HIDE DEF Bad
  <2> QED
    BY <2>1, LeastNumber
<1>2. n \in Nat \ {0} /\ n <= N /\ IsPowerOfTwo(n) /\ n # 1
  BY <1>1 DEF Weights
<1> DEFINE k == n \div 2
<1>3. k \in Nat \ {0} /\ n = 2 * k /\ k < n /\ IsPowerOfTwo(k)
  BY <1>2, PowersHalve
<1> HIDE DEF k
<1>4. k \in Weights /\ k < N
  BY <1>2, <1>3, NIsAPowerOfTwo DEF Weights
<1>5. k \in Good
  BY <1>1, <1>2, <1>3, <1>4
<1> QED
  BY <1>1, <1>3, <1>4, <1>5

\* The operands of a butterfly are in the column, w apart.
LEMMA Partners ==
  ASSUME NEW w \in Weights, w < N, NEW t \in Tokens
  PROVE  /\ (t \div w) % 2 = 0 =>
              /\ Low(t, w) = t
              /\ t + w \in Tokens /\ Low(t + w, w) = t
              /\ ((t + w) \div w) % 2 = 1 /\ (t + w) \div w = t \div w + 1
         /\ (t \div w) % 2 # 0 =>
              /\ (t \div w) % 2 = 1
              /\ Low(t, w) = t - w
              /\ t - w \in Tokens /\ ((t - w) \div w) % 2 = 0
<1>0. w \in Nat \ {0} /\ t \in Nat /\ t < N /\ N \in Nat /\ 2 * w \in Nat \ {0}
  BY NIsAPowerOfTwo DEF Weights, Tokens
<1> DEFINE q == t \div w
           r == t % w
           a == t \div (2 * w)
           b == q % 2
<1>1. q \in Nat /\ r \in 0 .. (w - 1) /\ t = q * w + r
  BY <1>0, Splits
<1>2. a \in Nat /\ b \in {0, 1} /\ q = 2 * a + b /\ t % (2 * w) = b * w + r
  BY <1>0, BitOfHalf, Splits
<1>3. t = a * (2 * w) + (b * w + r)
  BY <1>0, <1>2, Splits
<1> DEFINE c == N \div (2 * w)
<1>4. c \in Nat /\ N = c * (2 * w)
  BY <1>0, WeightsDouble, Divisor
<1>5. (t + w) \div w = q + 1
  BY <1>0, OneGroupOn
<1>6. b = 0 => t + w \in Tokens
  <2> SUFFICES ASSUME b = 0
               PROVE  t + w \in Tokens
    OBVIOUS
  <2> HIDE DEF q, r, a, b, c
  <2>1. t = a * (2 * w) + r
    BY <1>0, <1>1, <1>3
  <2>2. a < c
    BY <1>0, <1>1, <1>2, <1>4, <2>1, SMTT(30)
  <2>3. a * (2 * w) + 2 * w <= c * (2 * w)
    BY <1>0, <1>2, <1>4, <2>2, SMTT(30)
  <2>4. a * (2 * w) \in Nat
    BY <1>0, <1>2, SMTT(30)
  <2> QED
    BY <1>0, <1>1, <1>4, <2>1, <2>3, <2>4 DEF Tokens
<1>7. b = 1 => t - w \in Tokens /\ (t - w) \div w = 2 * a
  <2> SUFFICES ASSUME b = 1
               PROVE  t - w \in Tokens /\ (t - w) \div w = 2 * a
    OBVIOUS
  <2> HIDE DEF q, r, a, b, c
  <2> DEFINE s == t - w
             k == 2 * a
  <2>1. s = k * w + r
    <3>1. q * w = k * w + w
      BY <1>0, <1>2, SMTT(30)
    <3>2. k * w \in Nat
      BY <1>0, <1>2, SMTT(30)
    <3> QED
      BY <1>0, <1>1, <3>1, <3>2
  <2>2. k \in Nat
    BY <1>2
  <2> HIDE DEF s, k
  <2>3. s \in Nat /\ s \div w = k
    BY <1>0, <1>1, <2>1, <2>2, Joins
  <2> QED
    BY <1>0, <2>3 DEF s, k, Tokens
<1> HIDE DEF r, a, c
<1>8. (2 * a) % 2 = 0 /\ (b = 0 => (q + 1) % 2 = 1)
  <2> HIDE DEF q, b
  <2> QED
    BY <1>1, <1>2
<1>9. CASE b = 0
  BY <1>0, <1>5, <1>6, <1>8, <1>9 DEF Low
<1>10. CASE b = 1
  BY <1>0, <1>7, <1>8, <1>10 DEF Low
<1> QED
  BY <1>2, <1>9, <1>10

\* The columns the transform takes and returns.
Columns == [Tokens -> Int]

\* What a stage computes from a column, first and second tokens apart.
LEMMA StageValues ==
  ASSUME NEW w \in Weights, w < N, NEW col \in Columns
  PROVE  /\ Stage(col, w) \in Columns
         /\ \A t \in Tokens :
              /\ (t \div w) % 2 = 0 =>
                   /\ t + w \in Tokens
                   /\ Stage(col, w)[t] = col[t] + col[t + w]
                   /\ Stage(col, w)[t + w] = col[t] - col[t + w]
              /\ (t \div w) % 2 # 0 =>
                   /\ t - w \in Tokens
                   /\ Stage(col, w)[t] = col[t - w] - col[t]
<1> DEFINE y == Stage(col, w)
<1>0. w \in Nat \ {0} /\ Tokens \in SUBSET Nat
  BY DEF Weights, Tokens
<1>1. \A t \in Tokens : col[t] \in Int
  BY DEF Columns
<1>2. y = [t \in Tokens |-> IF Low(t, w) = t THEN col[t] + col[t + w] ELSE col[t - w] - col[t]]
  BY DEF Stage
<1>3. ASSUME NEW t \in Tokens
      PROVE  /\ (t \div w) % 2 = 0 =>
                  /\ t + w \in Tokens
                  /\ y[t] = col[t] + col[t + w]
                  /\ y[t + w] = col[t] - col[t + w]
             /\ (t \div w) % 2 # 0 =>
                  /\ t - w \in Tokens
                  /\ y[t] = col[t - w] - col[t]
             /\ y[t] \in Int
  <2>0. y[t] = IF Low(t, w) = t THEN col[t] + col[t + w] ELSE col[t - w] - col[t]
    BY <1>2
  <2>1. CASE (t \div w) % 2 = 0
    <3>1. Low(t, w) = t /\ t + w \in Tokens /\ Low(t + w, w) = t
      BY <2>1, Partners
    <3>2. Low(t + w, w) # t + w /\ (t + w) - w = t
      BY <1>0, <3>1
    <3>3. y[t + w] = IF Low(t + w, w) = t + w THEN col[t + w] + col[(t + w) + w]
                     ELSE col[(t + w) - w] - col[t + w]
      BY <1>2, <3>1
    <3> HIDE DEF y
    <3>4. y[t] = col[t] + col[t + w] /\ y[t + w] = col[t] - col[t + w]
      BY <2>0, <3>1, <3>2, <3>3
    <3> QED
      BY <1>1, <2>1, <3>1, <3>4
  <2>2. CASE (t \div w) % 2 # 0
    <3>1. Low(t, w) = t - w /\ t - w \in Tokens
      BY <2>2, Partners
    <3>2. Low(t, w) # t
      BY <1>0, <3>1
    <3> HIDE DEF y
    <3>3. y[t] = col[t - w] - col[t]
      BY <2>0, <3>2
    <3> QED
      BY <1>1, <2>2, <3>1, <3>3
  <2> QED
    BY <2>1, <2>2
<1>4. y \in Columns
  <2>1. y = [t \in Tokens |-> y[t]]
    BY <1>2
  <2> HIDE DEF y
  <2> QED
    BY <1>3, <2>1 DEF Columns
<1> QED
  BY <1>3, <1>4

\* Every stage returns a column of whole numbers.
LEMMA StagesAreColumns ==
  ASSUME NEW col \in Columns
  PROVE  \A w \in Weights : StagesOf(col)[w] \in Columns
<1> DEFINE Good == {w \in Weights : StagesOf(col)[w] \in Columns}
<1>1. 1 \in Good
  BY StageAfterStage, WeightsDouble
<1>2. ASSUME NEW w \in Weights, w < N, w \in Good
      PROVE  2 * w \in Good
  <2>1. Stage(StagesOf(col)[w], w) \in Columns
    BY <1>2, StageValues
  <2> QED
    BY <1>2, <2>1, StageAfterStage, WeightsDouble
<1> HIDE DEF Good
<1>3. \A w \in Weights : w \in Good
  BY <1>1, <1>2, StageInduction
<1> QED
  BY <1>3 DEF Good

\* The tokens of a block are finitely many and one of them is the first.
LEMMA TokensFinite == IsFiniteSet(Tokens) /\ Cardinality(Tokens) = N /\ 0 \in Tokens
<1>1. 0 \in Int /\ N - 1 \in Int /\ 0 \in 0 .. (N - 1)
  BY NIsAPowerOfTwo
<1> QED
  BY <1>1, NIsAPowerOfTwo, FS_Interval DEF Tokens

\* The tokens that come first in their butterfly.
Firsts(w) == {t \in Tokens : (t \div w) % 2 = 0}

\* A sum over the column is a sum over the butterflies.
LEMMA SumOfPairs ==
  ASSUME NEW w \in Weights, w < N, NEW f, \A t \in Tokens : f[t] \in Int
  PROVE  /\ IsFiniteSet(Firsts(w))
         /\ SumFunctionOnSet(f, Tokens)
              = SumFunctionOnSet([t \in Firsts(w) |-> f[t] + f[t + w]], Firsts(w))
<1> DEFINE L == Firsts(w)
           p == [t \in L |-> t + w]
           H == {p[t] : t \in L}
           g == [t \in L |-> f[p[t]]]
           s == [t \in L |-> f[t] + f[t + w]]
<1>0. w \in Nat \ {0} /\ Tokens \in SUBSET Nat /\ L \in SUBSET Tokens
  BY DEF Weights, Tokens, Firsts
<1>1. IsFiniteSet(L)
  BY <1>0, TokensFinite, FS_Subset
<1>2. \A t \in L : t + w \in Tokens /\ t + w \notin L
  BY Partners DEF Firsts
<1>3. \A t \in Tokens : t \notin L => t - w \in L
  BY Partners DEF Firsts
<1> HIDE DEF L
<1>4. Tokens = L \cup H /\ L \cap H = {}
  <2>1. \A t \in L : p[t] \in Tokens /\ p[t] \notin L
    BY <1>2
  <2>2. ASSUME NEW t \in Tokens, t \notin L
        PROVE  t \in H
    <3>1. t - w \in L /\ p[t - w] = t
      BY <1>0, <1>3, <2>2
    <3> QED
      BY <3>1
  <2> HIDE DEF p
  <2> QED
    BY <1>0, <2>1, <2>2
<1>5. IsFiniteSet(H)
  <2> HIDE DEF p
  <2> QED
    BY <1>1, ImageIsFinite
<1>6. SumFunctionOnSet(f, Tokens) = SumFunctionOnSet(f, L) + SumFunctionOnSet(f, H)
  <2> HIDE DEF H
  <2>1. \A t \in L \cup H : f[t] \in Int
    BY <1>4
  <2>2. SumFunctionOnSet(f, L \cup H) = SumFunctionOnSet(f, L) + SumFunctionOnSet(f, H)
    BY <1>1, <1>4, <1>5, <2>1, SumOfUnion
  <2> QED
    BY <1>4, <2>2
<1>7. SumFunctionOnSet(g, L) = SumFunctionOnSet(f, H)
  <2>1. p \in [L -> Tokens]
    BY <1>2
  <2>2. \A t, u \in L : p[t] = p[u] => t = u
    BY <1>0
  <2>3. \A t \in L : g[t] \in Int /\ g[t] = f[p[t]]
    BY <2>1
  <2> HIDE DEF p, g
  <2> QED
    BY <1>1, <2>1, <2>2, <2>3, SumRenamed
<1>8. SumFunctionOnSet(s, L) = 1 * SumFunctionOnSet(f, L) + 1 * SumFunctionOnSet(g, L)
  <2>1. \A t \in L : f[t] \in Int /\ g[t] \in Int /\ s[t] = 1 * f[t] + 1 * g[t]
    BY <1>0, <1>2
  <2>2. 1 \in Int
    OBVIOUS
  <2> HIDE DEF s, g
  <2> QED
    BY <1>1, <2>1, <2>2, SumIsLinear
<1>9. SumFunctionOnSet(f, L) \in Int /\ SumFunctionOnSet(g, L) \in Int
  <2>1. \A t \in L : f[t] \in Int /\ g[t] \in Int
    BY <1>0, <1>2
  <2> HIDE DEF g
  <2> QED
    BY <1>1, <2>1, SumTakes
<1> HIDE DEF g, H, s
<1>10. SumFunctionOnSet(f, Tokens) = SumFunctionOnSet(s, L)
  BY <1>6, <1>7, <1>8, <1>9
<1> QED
  BY <1>1, <1>10 DEF L, s

\* The energy of a column is the sum of the squares over the band.
LEMMA EnergyIsSum ==
  ASSUME NEW col, NEW S
  PROVE  Energy(col, S) = SumFunctionOnSet([t \in S |-> col[t] * col[t]], S)
BY DEF Energy, Total, SumFunction

\* A butterfly doubles the energy of its operands, and so a stage that of the
\* column.
LEMMA StageDoublesEnergy ==
  ASSUME NEW w \in Weights, w < N, NEW col \in Columns
  PROVE  Energy(Stage(col, w), Tokens) = 2 * Energy(col, Tokens)
<1> DEFINE y == Stage(col, w)
           L == Firsts(w)
           f == [t \in Tokens |-> col[t] * col[t]]
           g == [t \in Tokens |-> y[t] * y[t]]
           ff == [t \in L |-> f[t] + f[t + w]]
           gg == [t \in L |-> g[t] + g[t + w]]
<1>1. \A t \in Tokens : col[t] \in Int /\ y[t] \in Int
  BY StageValues DEF Columns
<1>2. \A t \in L : t \in Tokens /\ t + w \in Tokens
                   /\ y[t] = col[t] + col[t + w] /\ y[t + w] = col[t] - col[t + w]
  BY StageValues DEF Firsts
<1> HIDE DEF y, L
<1>3. \A t \in Tokens : f[t] \in Int /\ g[t] \in Int
  BY <1>1
<1>4. ASSUME NEW t \in L
      PROVE  ff[t] \in Int /\ gg[t] = 2 * ff[t] + 0 * ff[t]
  <2>1. ff[t] = col[t] * col[t] + col[t + w] * col[t + w]
    BY <1>2
  <2>2. gg[t] = (col[t] + col[t + w]) * (col[t] + col[t + w])
                + (col[t] - col[t + w]) * (col[t] - col[t + w])
    BY <1>2
  <2>3. col[t] \in Int /\ col[t + w] \in Int
    BY <1>1, <1>2
  <2> HIDE DEF ff, gg
  <2>4. \A a, b \in Int : /\ a * a + b * b \in Int
                          /\ (a + b) * (a + b) + (a - b) * (a - b) = 2 * (a * a + b * b)
    BY SMTT(30)
  <2>5. ff[t] \in Int /\ gg[t] = 2 * ff[t]
    BY <2>1, <2>2, <2>3, <2>4
  <2> QED
    BY <2>5
<1>5. /\ IsFiniteSet(L)
      /\ SumFunctionOnSet(f, Tokens) = SumFunctionOnSet(ff, L)
      /\ SumFunctionOnSet(g, Tokens) = SumFunctionOnSet(gg, L)
  <2> HIDE DEF f, g
  <2> QED
    BY <1>3, SumOfPairs DEF L
<1>6. SumFunctionOnSet(gg, L) = 2 * SumFunctionOnSet(ff, L) + 0 * SumFunctionOnSet(ff, L)
  <2> HIDE DEF ff, gg
  <2>1. 2 \in Int /\ 0 \in Int
    OBVIOUS
  <2> QED
    BY <1>4, <1>5, <2>1, SumIsLinear
<1>7. SumFunctionOnSet(ff, L) \in Int
  <2> HIDE DEF ff, gg
  <2> QED
    BY <1>4, <1>5, SumTakes
<1> HIDE DEF f, g, ff, gg
<1>8. SumFunctionOnSet(g, Tokens) = 2 * SumFunctionOnSet(f, Tokens)
  BY <1>5, <1>6, <1>7
<1> QED
  BY <1>8, EnergyIsSum DEF f, g, y

\* No energy is negative.
LEMMA EnergyIsNatural ==
  ASSUME NEW S, IsFiniteSet(S), NEW col, \A t \in S : col[t] \in Int
  PROVE  Energy(col, S) \in Nat
<1> DEFINE f == [t \in S |-> col[t] * col[t]]
<1>1. \A a \in Int : a * a \in Nat
  OBVIOUS
<1>2. \A t \in S : f[t] \in Nat
  BY <1>1
<1> HIDE DEF f
<1>3. SumFunctionOnSet(f, S) \in Nat
  BY <1>2, SumIsPositive
<1> QED
  BY <1>3, EnergyIsSum DEF f

\* The transform multiplies the energy by the size of the block.
LEMMA TransformEnergy ==
  ASSUME NEW col \in Columns
  PROVE  Transform(col) \in Columns /\ Energy(Transform(col), Tokens) = N * Energy(col, Tokens)
<1> DEFINE E(w) == Energy(StagesOf(col)[w], Tokens)
           Good == {w \in Weights : E(w) = w * Energy(col, Tokens)}
<1>0. Energy(col, Tokens) \in Nat
  BY TokensFinite, EnergyIsNatural DEF Columns
<1>1. 1 \in Good
  BY <1>0, StageAfterStage, WeightsDouble
<1>2. ASSUME NEW w \in Weights, w < N, w \in Good
      PROVE  2 * w \in Good
  <2>1. Energy(Stage(StagesOf(col)[w], w), Tokens) = 2 * E(w)
    BY <1>2, StagesAreColumns, StageDoublesEnergy
  <2>2. E(2 * w) = 2 * E(w)
    BY <1>2, <2>1, StageAfterStage
  <2>3. E(w) = w * Energy(col, Tokens) /\ w \in Nat
    BY <1>2 DEF Weights
  <2> HIDE DEF E
  <2> DEFINE e == Energy(col, Tokens)
  <2>4. E(2 * w) = (2 * w) * e
    <3> HIDE DEF e
    <3>1. e \in Nat
      BY <1>0 DEF e
    <3>2. 2 * (w * e) = (2 * w) * e
      BY <2>3, <3>1, SMTT(30)
    <3>3. E(w) = w * e
      BY <2>3 DEF e
    <3> QED
      BY <2>2, <3>2, <3>3
  <2> QED
    BY <1>2, <2>4, WeightsDouble
<1> HIDE DEF Good
<1>3. \A w \in Weights : w \in Good
  BY <1>1, <1>2, StageInduction
<1> QED
  BY <1>3, WeightsDouble, StagesAreColumns, TransformIsLast DEF Good

-----------------------------------------------------------------------------
(***************************************************************************)
(* What the transform computes: stage by stage, the correlation of groups  *)
(* of tokens with the Walsh functions of the bits below the group size.    *)
(***************************************************************************)

\* The bit of weight p of a number.
Bit(n, p) == (n \div p) % 2 = 1

\* The weights below w of the bits that two tokens have in common.
CommonBelow(w, k, t) == {p \in 1 .. (w - 1) : IsPowerOfTwo(p) /\ Bit(k, p) /\ Bit(t, p)}

\* The sign of the Walsh function of the bits below w.
SignBelow(w, k, t) == IF Cardinality(CommonBelow(w, k, t)) % 2 = 0 THEN 1 ELSE -1

\* With all of the bits that is the sign of the reference.
LEMMA SignBelowAll == \A k, t \in Tokens : SignBelow(N, k, t) = Sign(k, t)
<1>1. Tokens \ {0} = 1 .. (N - 1)
  BY NIsAPowerOfTwo DEF Tokens
<1> QED
  BY <1>1 DEF SignBelow, CommonBelow, Sign, Bit

\* Two tokens have finitely many bits in common.
LEMMA CommonFinite ==
  ASSUME NEW w \in Nat, NEW k, NEW t
  PROVE  IsFiniteSet(CommonBelow(w, k, t)) /\ Cardinality(CommonBelow(w, k, t)) \in Nat
<1>1. CommonBelow(w, k, t) \in SUBSET (1 .. (w - 1)) /\ IsFiniteSet(1 .. (w - 1))
  BY FS_Interval DEF CommonBelow
<1> QED
  BY <1>1, FS_Subset, FS_CardinalityType

\* One more bit turns the sign if both numbers have it.
LEMMA SignOfNextBit ==
  ASSUME NEW w \in Weights, w < N, NEW k, NEW t
  PROVE  SignBelow(2 * w, k, t)
           = IF Bit(k, w) /\ Bit(t, w) THEN -SignBelow(w, k, t) ELSE SignBelow(w, k, t)
<1> DEFINE A == CommonBelow(w, k, t)
           B == CommonBelow(2 * w, k, t)
<1>0. w \in Nat \ {0} /\ IsPowerOfTwo(w) /\ w < 2 * w
  BY DEF Weights
<1>1. \A p \in 1 .. (2 * w - 1) : IsPowerOfTwo(p) => p < w \/ p = w
  <2> SUFFICES ASSUME NEW p \in 1 .. (2 * w - 1), IsPowerOfTwo(p), w < p
               PROVE  FALSE
    BY <1>0
  <2>1. p \in Nat \ {0}
    BY <1>0
  <2>2. 2 * w <= p
    BY <1>0, <2>1, NextPower
  <2> QED
    BY <1>0, <2>2
<1>2. B = IF Bit(k, w) /\ Bit(t, w) THEN A \cup {w} ELSE A
  <2>1. \A p : p \in A <=> p \in 1 .. (w - 1) /\ IsPowerOfTwo(p) /\ Bit(k, p) /\ Bit(t, p)
    BY DEF CommonBelow
  <2>2. \A p : p \in B <=> p \in 1 .. (2 * w - 1) /\ IsPowerOfTwo(p) /\ Bit(k, p) /\ Bit(t, p)
    BY DEF CommonBelow
  <2>3. \A p : p \in 1 .. (2 * w - 1) /\ IsPowerOfTwo(p)
                 <=> p = w \/ (p \in 1 .. (w - 1) /\ IsPowerOfTwo(p))
    <3>1. w \in 1 .. (2 * w - 1) /\ \A p \in 1 .. (w - 1) : p \in 1 .. (2 * w - 1)
      BY <1>0
    <3>2. \A p \in 1 .. (2 * w - 1) : p < w => p \in 1 .. (w - 1)
      BY <1>0
    <3> QED
      BY <1>0, <1>1, <3>1, <3>2
  <2> HIDE DEF A, B
  <2>4. \A p : p \in B <=> p \in IF Bit(k, w) /\ Bit(t, w) THEN A \cup {w} ELSE A
    BY <2>1, <2>2, <2>3, Zenon
  <2> QED
    BY <2>4
<1>3. w \notin A
  BY <1>0 DEF CommonBelow
<1>4. IsFiniteSet(A) /\ Cardinality(A) \in Nat
  BY <1>0, CommonFinite
<1>5. Cardinality(A \cup {w}) = Cardinality(A) + 1
  BY <1>3, <1>4, FS_AddElement
<1> HIDE DEF A, B
<1>6. \A n \in Nat : ((n + 1) % 2 = 0) <=> (n % 2 # 0)
  OBVIOUS
<1>7. CASE Bit(k, w) /\ Bit(t, w)
  <2>1. Cardinality(B) = Cardinality(A) + 1
    BY <1>2, <1>5, <1>7
  <2> QED
    BY <1>4, <1>6, <1>7, <2>1 DEF SignBelow, A, B
<1>8. CASE ~(Bit(k, w) /\ Bit(t, w))
  <2>1. B = A
    BY <1>2, <1>8
  <2> QED
    BY <1>8, <2>1 DEF SignBelow, A, B
<1> QED
  BY <1>7, <1>8

\* The bits below w are those of the partner, too.
LEMMA SignOfPartner ==
  ASSUME NEW w \in Weights, NEW k \in Nat, NEW t
  PROVE  SignBelow(w, k + w, t) = SignBelow(w, k, t)
<1>0. w \in Nat \ {0} /\ IsPowerOfTwo(w)
  BY DEF Weights
<1>1. ASSUME NEW p \in 1 .. (w - 1), IsPowerOfTwo(p)
      PROVE  Bit(k + w, p) <=> Bit(k, p)
  <2>1. p \in Nat \ {0} /\ p < w
    BY <1>0
  <2>2. w % (2 * p) = 0
    BY <1>0, <1>1, <2>1, NextPower
  <2>3. ((k + w) \div p) % 2 = (k \div p) % 2
    BY <1>0, <2>1, <2>2, LowerBitsStay
  <2> QED
    BY <2>3 DEF Bit
<1>2. CommonBelow(w, k + w, t) = CommonBelow(w, k, t)
  BY <1>1 DEF CommonBelow
<1> QED
  BY <1>2 DEF SignBelow

\* A sign is 1 or -1, whatever the bits.
LEMMA SignIsUnit ==
  ASSUME NEW w, NEW k, NEW t
  PROVE  SignBelow(w, k, t) \in {1, -1} /\ SignBelow(w, k, t) \in Int
BY DEF SignBelow

\* The tokens of t's group of w.
Group(w, t) == {s \in Tokens : s \div w = t \div w}

\* The correlation of the tokens in S with a Walsh function of the bits below w.
Correlation(w, k, col, S) ==
  SumFunctionOnSet([s \in S |-> SignBelow(w, k, s) * col[s]], S)

\* A group of tokens is finite.
LEMMA GroupFinite == \A w, t : IsFiniteSet(Group(w, t))
<1>1. \A w, t : Group(w, t) \in SUBSET Tokens
  BY DEF Group
<1> QED
  BY <1>1, TokensFinite, FS_Subset

\* Two groups of w, the lower one first, are one of 2 w.
LEMMA GroupsJoin ==
  ASSUME NEW w \in Weights, w < N, NEW t \in Firsts(w)
  PROVE  /\ t + w \in Tokens
         /\ Group(2 * w, t) = Group(w, t) \cup Group(w, t + w)
         /\ Group(2 * w, t + w) = Group(w, t) \cup Group(w, t + w)
         /\ Group(w, t) \cap Group(w, t + w) = {}
         /\ ~Bit(t, w) /\ Bit(t + w, w)
         /\ \A s \in Group(w, t) : ~Bit(s, w)
         /\ \A s \in Group(w, t + w) : Bit(s, w)
<1>0. w \in Nat \ {0} /\ Tokens \in SUBSET Nat /\ t \in Tokens /\ (t \div w) % 2 = 0
  BY DEF Weights, Tokens, Firsts
<1>1. t + w \in Tokens /\ ((t + w) \div w) % 2 = 1 /\ (t + w) \div w = t \div w + 1
  BY <1>0, Partners
<1> DEFINE u == t + w
           q == t \div w
           Q == t \div (2 * w)
<1>2. q \in Nat /\ Q \in Nat /\ q = 2 * Q
  <2>1. 2 * w \in Nat \ {0}
    BY <1>0
  <2>2. q \in Nat /\ Q \in Nat
    BY <1>0, <2>1, Splits
  <2>3. q = 2 * Q + (q % 2)
    BY <1>0, BitOfHalf
  <2> QED
    BY <1>0, <2>2, <2>3
<1>3. ASSUME NEW s \in Tokens
      PROVE  (s \div (2 * w) = Q) <=> (s \div w = q \/ s \div w = q + 1)
  <2>1. 2 * w \in Nat \ {0} /\ s \in Nat
    BY <1>0
  <2>2. /\ s \div w \in Nat /\ s \div (2 * w) \in Nat
        /\ (s \div w) % 2 \in {0, 1}
        /\ s \div w = 2 * (s \div (2 * w)) + ((s \div w) % 2)
    BY <1>0, <2>1, BitOfHalf, Splits
  <2> HIDE DEF q, Q
  <2> QED
    BY <1>2, <2>2
<1>4. u \div (2 * w) = Q
  <2>1. u \in Tokens /\ u \div w = q + 1
    BY <1>1
  <2> HIDE DEF u, q, Q
  <2> QED
    BY <1>3, <2>1
<1>5. u \div w = q + 1 /\ q + 1 # q
  BY <1>1, <1>2
<1> HIDE DEF u, q, Q
<1>6. /\ Group(w, t) = {s \in Tokens : s \div w = q}
      /\ Group(w, u) = {s \in Tokens : s \div w = q + 1}
      /\ Group(2 * w, t) = {s \in Tokens : s \div (2 * w) = Q}
      /\ Group(2 * w, u) = {s \in Tokens : s \div (2 * w) = Q}
  BY <1>4, <1>5 DEF Group, q, Q
<1>7. /\ Group(2 * w, t) = Group(w, t) \cup Group(w, u)
      /\ Group(2 * w, u) = Group(w, t) \cup Group(w, u)
      /\ Group(w, t) \cap Group(w, u) = {}
  BY <1>3, <1>5, <1>6
<1>8. q % 2 = 0 /\ (q + 1) % 2 = 1
  BY <1>2
<1>9. /\ ~Bit(t, w) /\ Bit(u, w)
      /\ \A s \in Group(w, t) : ~Bit(s, w)
      /\ \A s \in Group(w, u) : Bit(s, w)
  BY <1>0, <1>1, <1>6, <1>8 DEF Bit, u
<1> QED
  BY <1>1, <1>7, <1>9 DEF u

\* The correlation of two disjoint sets of tokens is the sum of theirs.
LEMMA CorrelationJoins ==
  ASSUME NEW w, NEW k, NEW col \in Columns, NEW S \in SUBSET Tokens, NEW T \in SUBSET Tokens,
         S \cap T = {}
  PROVE  Correlation(w, k, col, S \cup T) = Correlation(w, k, col, S) + Correlation(w, k, col, T)
<1> DEFINE f == [s \in Tokens |-> SignBelow(w, k, s) * col[s]]
<1>1. \A s \in Tokens : f[s] \in Int
  BY SignIsUnit DEF Columns
<1>2. IsFiniteSet(S) /\ IsFiniteSet(T) /\ IsFiniteSet(S \cup T)
  BY TokensFinite, FS_Subset, FS_Union
<1>3. ASSUME NEW U \in SUBSET Tokens, IsFiniteSet(U)
      PROVE  Correlation(w, k, col, U) = SumFunctionOnSet(f, U)
  <2> DEFINE g == [s \in U |-> SignBelow(w, k, s) * col[s]]
  <2>1. \A s \in U : g[s] = f[s] /\ g[s] \in Int
    BY <1>1
  <2> HIDE DEF g, f
  <2>2. SumFunctionOnSet(g, U) = SumFunctionOnSet(f, U)
    BY <1>3, <2>1, SumsAgree
  <2> QED
    BY <2>2 DEF Correlation, g
<1> HIDE DEF f
<1>4. SumFunctionOnSet(f, S \cup T) = SumFunctionOnSet(f, S) + SumFunctionOnSet(f, T)
  BY <1>1, <1>2, SumOfUnion
<1> QED
  BY <1>2, <1>3, <1>4

\* The correlation of whole numbers is whole.
LEMMA CorrelationIsWhole ==
  ASSUME NEW w, NEW k, NEW col \in Columns, NEW S \in SUBSET Tokens
  PROVE  Correlation(w, k, col, S) \in Int
<1> DEFINE f == [s \in S |-> SignBelow(w, k, s) * col[s]]
<1>1. IsFiniteSet(S)
  BY TokensFinite, FS_Subset
<1>2. \A s \in S : f[s] \in Int
  BY SignIsUnit DEF Columns
<1> HIDE DEF f
<1>3. SumFunctionOnSet(f, S) \in Int
  BY <1>1, <1>2, SumTakes
<1> QED
  BY <1>3 DEF Correlation, f

\* Tokens whose signs differ by a factor correlate with that factor.
LEMMA CorrelationScales ==
  ASSUME NEW w, NEW k, NEW v, NEW m, NEW col \in Columns, NEW S \in SUBSET Tokens,
         NEW a \in Int, \A s \in S : SignBelow(v, m, s) = a * SignBelow(w, k, s)
  PROVE  Correlation(v, m, col, S) = a * Correlation(w, k, col, S)
<1> DEFINE f == [s \in S |-> SignBelow(v, m, s) * col[s]]
           g == [s \in S |-> SignBelow(w, k, s) * col[s]]
<1>1. ASSUME NEW s \in S
      PROVE  g[s] \in Int /\ f[s] = a * g[s] + 0 * g[s]
  <2>1. SignBelow(w, k, s) \in Int /\ col[s] \in Int
    BY SignIsUnit DEF Columns
  <2>2. f[s] = (a * SignBelow(w, k, s)) * col[s]
    OBVIOUS
  <2>3. g[s] = SignBelow(w, k, s) * col[s]
    OBVIOUS
  <2> HIDE DEF f, g
  <2> DEFINE p == SignBelow(w, k, s)
             q == col[s]
  <2>4. p \in Int /\ q \in Int /\ f[s] = (a * p) * q /\ g[s] = p * q
    BY <2>1, <2>2, <2>3
  <2> HIDE DEF p, q
  <2>5. (a * p) * q = a * (p * q) /\ p * q \in Int
    BY <2>4, SMTT(30)
  <2>6. g[s] \in Int /\ f[s] = a * g[s]
    BY <2>4, <2>5
  <2>7. \A z, y \in Int : z * y = z * y + 0 * y
    OBVIOUS
  <2> QED
    BY <2>6, <2>7
<1>2. IsFiniteSet(S)
  BY TokensFinite, FS_Subset
<1> HIDE DEF f, g
<1>3. SumFunctionOnSet(f, S) = a * SumFunctionOnSet(g, S) + 0 * SumFunctionOnSet(g, S)
  <2>1. 0 \in Int
    OBVIOUS
  <2> QED
    BY <1>1, <1>2, <2>1, SumIsLinear
<1>4. SumFunctionOnSet(g, S) \in Int
  BY <1>1, <1>2, SumTakes
<1>5. SumFunctionOnSet(f, S) = a * SumFunctionOnSet(g, S)
  BY <1>3, <1>4
<1> QED
  BY <1>4, <1>5 DEF Correlation, f, g

\* A butterfly joins the correlations of two groups.
LEMMA ButterflyCorrelates ==
  ASSUME NEW w \in Weights, w < N, NEW col \in Columns, NEW t \in Firsts(w)
  PROVE  LET u == t + w
             p == Correlation(w, t, col, Group(w, t))
             q == Correlation(w, u, col, Group(w, u))
         IN /\ Correlation(2 * w, t, col, Group(2 * w, t)) = p + q
            /\ Correlation(2 * w, u, col, Group(2 * w, u)) = p - q
<1> DEFINE u == t + w
           v == 2 * w
           S == Group(w, t)
           T == Group(w, u)
<1>1. /\ S \in SUBSET Tokens /\ T \in SUBSET Tokens /\ t \in Nat
      /\ Group(v, t) = S \cup T /\ Group(v, u) = S \cup T
      /\ S \cap T = {}
      /\ ~Bit(t, w) /\ Bit(u, w)
      /\ \A s \in S : ~Bit(s, w)
      /\ \A s \in T : Bit(s, w)
  <2>1. t \in Tokens /\ Tokens \in SUBSET Nat /\ S \in SUBSET Tokens /\ T \in SUBSET Tokens
    BY DEF Firsts, Tokens, Group
  <2> QED
    BY <2>1, GroupsJoin
<1>2. \A s : SignBelow(w, u, s) = SignBelow(w, t, s) /\ SignBelow(w, t, s) \in Int
  BY <1>1, SignOfPartner, SignIsUnit
<1>3. \A s : /\ SignBelow(v, t, s) = SignBelow(w, t, s)
             /\ Bit(s, w) => SignBelow(v, u, s) = -SignBelow(w, u, s)
             /\ ~Bit(s, w) => SignBelow(v, u, s) = SignBelow(w, u, s)
  BY <1>1, SignOfNextBit
<1> HIDE DEF u, v, S, T
<1> DEFINE one == 1
           minus == -1
<1>4. one \in Int /\ minus \in Int /\ \A a \in Int : a = one * a /\ -a = minus * a
  OBVIOUS
<1> HIDE DEF one, minus
<1>5. \A s : SignBelow(w, u, s) \in Int
  BY <1>2
<1>b. Correlation(w, t, col, S) \in Int /\ Correlation(w, u, col, T) \in Int
  BY <1>1, CorrelationIsWhole
<1>6. Correlation(v, t, col, S) = one * Correlation(w, t, col, S)
  <2>1. \A s \in S : SignBelow(v, t, s) = one * SignBelow(w, t, s)
    BY <1>2, <1>3, <1>4
  <2> QED
    BY <1>1, <1>4, <2>1, CorrelationScales
<1>7. Correlation(v, t, col, T) = one * Correlation(w, u, col, T)
  <2>1. \A s \in T : SignBelow(v, t, s) = one * SignBelow(w, u, s)
    BY <1>2, <1>3, <1>4
  <2> QED
    BY <1>1, <1>4, <2>1, CorrelationScales
<1>8. Correlation(v, u, col, S) = one * Correlation(w, t, col, S)
  <2>1. \A s \in S : SignBelow(v, u, s) = one * SignBelow(w, t, s)
    BY <1>1, <1>2, <1>3, <1>4
  <2> QED
    BY <1>1, <1>4, <2>1, CorrelationScales
<1>9. Correlation(v, u, col, T) = minus * Correlation(w, u, col, T)
  <2>1. \A s \in T : SignBelow(v, u, s) = minus * SignBelow(w, u, s)
    BY <1>1, <1>3, <1>4, <1>5
  <2> QED
    BY <1>1, <1>4, <2>1, CorrelationScales
<1>10. /\ Correlation(v, t, col, S \cup T) = Correlation(v, t, col, S) + Correlation(v, t, col, T)
       /\ Correlation(v, u, col, S \cup T) = Correlation(v, u, col, S) + Correlation(v, u, col, T)
  BY <1>1, CorrelationJoins
<1>11. /\ Correlation(v, t, col, Group(v, t))
            = Correlation(w, t, col, S) + Correlation(w, u, col, T)
       /\ Correlation(v, u, col, Group(v, u))
            = Correlation(w, t, col, S) - Correlation(w, u, col, T)
  BY <1>1, <1>4, <1>b, <1>6, <1>7, <1>8, <1>9, <1>10
<1> QED
  BY <1>11 DEF u, v, S, T

\* A group of one token correlates as much as its value.
LEMMA FirstGroups ==
  ASSUME NEW col \in Columns, NEW t \in Tokens
  PROVE  Correlation(1, t, col, Group(1, t)) = col[t]
<1> DEFINE f == [s \in {t} |-> SignBelow(1, t, s) * col[s]]
<1>1. Group(1, t) = {t}
  <2>1. \A n \in Nat : n \div 1 = n
    OBVIOUS
  <2> QED
    BY <2>1 DEF Group, Tokens
<1>2. SignBelow(1, t, t) = 1
  <2>1. CommonBelow(1, t, t) = {}
    BY DEF CommonBelow
  <2>2. Cardinality({}) = 0
    BY FS_EmptySet
  <2> QED
    BY <2>1, <2>2 DEF SignBelow
<1>3. f[t] = col[t] /\ f[t] \in Int
  BY <1>2 DEF Columns
<1>4. IsFiniteSet({t}) /\ {t} \ {t} = {}
  BY FS_Singleton
<1> HIDE DEF f
<1>5. SumFunctionOnSet(f, {t}) = f[t] + SumFunctionOnSet(f, {})
  <2>1. \A i \in {t} : f[i] \in Int
    BY <1>3
  <2>2. \A i \in {t} : SumFunctionOnSet(f, {t}) = f[i] + SumFunctionOnSet(f, {t} \ {i})
    BY <1>4, <2>1, SumTakes
  <2> QED
    BY <1>4, <2>2
<1>6. SumFunctionOnSet(f, {}) = 0
  BY SumAdds, FS_EmptySet
<1> QED
  BY <1>1, <1>3, <1>5, <1>6 DEF Correlation, f

\* After every stage an entry is the correlation of its group with the Walsh
\* function of the entry's lower bits.
LEMMA StagesCorrelate ==
  ASSUME NEW col \in Columns
  PROVE  \A w \in Weights : \A t \in Tokens :
           StagesOf(col)[w][t] = Correlation(w, t, col, Group(w, t))
<1> DEFINE a == StagesOf(col)
           C(w, t) == Correlation(w, t, col, Group(w, t))
           Good == {w \in Weights : \A t \in Tokens : a[w][t] = C(w, t)}
<1>1. 1 \in Good
  BY WeightsDouble, StageAfterStage, FirstGroups
<1>2. ASSUME NEW w \in Weights, w < N, w \in Good
      PROVE  2 * w \in Good
  <2>1. a[2 * w] = Stage(a[w], w) /\ a[w] \in Columns
    BY <1>2, StageAfterStage, StagesAreColumns
  <2>2. ASSUME NEW t \in Firsts(w)
        PROVE  a[2 * w][t] = C(2 * w, t) /\ a[2 * w][t + w] = C(2 * w, t + w)
    <3>1. t \in Tokens /\ t + w \in Tokens
      BY <1>2, StageValues, <2>1 DEF Firsts
    <3>2. a[2 * w][t] = a[w][t] + a[w][t + w] /\ a[2 * w][t + w] = a[w][t] - a[w][t + w]
      BY <1>2, <2>1, StageValues DEF Firsts
    <3>3. a[w][t] = C(w, t) /\ a[w][t + w] = C(w, t + w)
      BY <1>2, <3>1
    <3>4. C(2 * w, t) = C(w, t) + C(w, t + w) /\ C(2 * w, t + w) = C(w, t) - C(w, t + w)
      BY <1>2, ButterflyCorrelates
    <3> HIDE DEF a, C
    <3> QED
      BY <3>2, <3>3, <3>4
  <2>3. ASSUME NEW t \in Tokens
        PROVE  a[2 * w][t] = C(2 * w, t)
    <3>1. CASE t \in Firsts(w)
      BY <2>2, <3>1
    <3>2. CASE t \notin Firsts(w)
      <4> DEFINE s == t - w
      <4>1. s \in Firsts(w) /\ s + w = t
        <5>1. t - w \in Tokens /\ ((t - w) \div w) % 2 = 0
          BY <1>2, <3>2, Partners DEF Firsts
        <5>2. t \in Int /\ w \in Int
          BY DEF Tokens, Weights
        <5> QED
          BY <5>1, <5>2 DEF Firsts
      <4> HIDE DEF s, a, C
      <4> QED
        BY <2>2, <4>1
    <3> QED
      BY <3>1, <3>2
  <2>4. 2 * w \in Weights
    BY <1>2, WeightsDouble
  <2> QED
    BY <2>3, <2>4
<1> HIDE DEF Good
<1>3. \A w \in Weights : w \in Good
  BY <1>1, <1>2, StageInduction
<1> QED
  BY <1>3 DEF Good

\* The transform correlates a column with the Walsh functions.
LEMMA TransformCorrelates ==
  ASSUME NEW col \in Columns, NEW k \in Tokens
  PROVE  Transform(col)[k] = Total([t \in Tokens |-> Sign(k, t) * col[t]])
<1>1. Group(N, k) = Tokens
  <2>1. \A t \in Tokens : t \div N = 0
    <3> SUFFICES ASSUME NEW t \in Tokens
                 PROVE  t \div N = 0
      OBVIOUS
    <3>1. N \in Nat \ {0} /\ t \in 0 .. (N - 1) /\ 0 \in Nat /\ t = 0 * N + t
      BY NIsAPowerOfTwo DEF Tokens
    <3> QED
      BY <3>1, Joins
  <2> QED
    BY <2>1 DEF Group
<1>2. Transform(col)[k] = Correlation(N, k, col, Tokens)
  BY <1>1, TransformIsLast, StagesCorrelate, WeightsDouble
<1> DEFINE f == [t \in Tokens |-> Sign(k, t) * col[t]]
           g == [t \in Tokens |-> SignBelow(N, k, t) * col[t]]
<1>3. f = g
  BY SignBelowAll
<1>4. Correlation(N, k, col, Tokens) = SumFunctionOnSet(g, Tokens)
  BY DEF Correlation
<1>5. Total(f) = SumFunctionOnSet(f, Tokens)
  BY DEF Total, SumFunction
<1> QED
  BY <1>2, <1>3, <1>4, <1>5

\* The DC coefficient is the sum of the column.
LEMMA FirstCoefficient ==
  ASSUME NEW col \in Columns
  PROVE  Transform(col)[0] = SumFunctionOnSet(col, Tokens)
<1>1. ASSUME NEW t \in Tokens
      PROVE  Sign(0, t) = 1
  <2>1. CommonBelow(N, 0, t) = {}
    <3>1. \A p \in 1 .. (N - 1) : (0 \div p) % 2 = 0
      <4> SUFFICES ASSUME NEW p \in 1 .. (N - 1)
                   PROVE  (0 \div p) % 2 = 0
        OBVIOUS
      <4>1. p \in Nat \ {0} /\ 0 \in Nat /\ 0 = 0 * p
        BY NIsAPowerOfTwo
      <4>2. 0 \div p = 0
        BY <4>1, Multiple
      <4> QED
        BY <4>2
    <3> QED
      BY <3>1 DEF CommonBelow, Bit
  <2>2. Cardinality({}) = 0
    BY FS_EmptySet
  <2>3. SignBelow(N, 0, t) = 1
    BY <2>1, <2>2 DEF SignBelow
  <2> QED
    BY <2>3, SignBelowAll, TokensFinite
<1> DEFINE f == [t \in Tokens |-> Sign(0, t) * col[t]]
<1>2. \A t \in Tokens : col[t] \in Int /\ f[t] = col[t]
  BY <1>1 DEF Columns
<1>3. Transform(col)[0] = SumFunctionOnSet(f, Tokens)
  <2>1. Total(f) = SumFunctionOnSet(f, Tokens)
    BY DEF Total, SumFunction
  <2> HIDE DEF f
  <2>2. Transform(col)[0] = Total(f)
    BY TransformCorrelates, TokensFinite DEF f
  <2> QED
    BY <2>1, <2>2
<1> HIDE DEF f
<1>4. SumFunctionOnSet(f, Tokens) = SumFunctionOnSet(col, Tokens)
  <2>1. \A t \in Tokens : f[t] \in Int /\ f[t] = col[t]
    BY <1>2
  <2> QED
    BY <2>1, TokensFinite, SumsAgree
<1> QED
  BY <1>3, <1>4

-----------------------------------------------------------------------------
(***************************************************************************)
(* The transform in place: which pairs hold operands and which results.    *)
(***************************************************************************)

\* The loops visit the first tokens of the butterflies in their order and
\* leave none out.
LEMMA NextPairs ==
  ASSUME NEW w \in Weights, w < N, NEW k \in Firsts(w), NEW n, n = NextPair(k, w)
  PROVE  /\ n \in Nat
         /\ n < N => n \in Firsts(w)
         /\ \A t \in Firsts(w) : t < n <=> t <= k
<1>0. /\ w \in Nat \ {0} /\ k \in Nat /\ (k \div w) % 2 = 0
      /\ Firsts(w) = {t \in Tokens : (t \div w) % 2 = 0} /\ N \in Nat
      /\ Tokens \in SUBSET Nat /\ \A t \in Nat : t < N => t \in Tokens
  BY NIsAPowerOfTwo DEF Weights, Firsts, Tokens
<1> DEFINE q == k \div w
           r == k % w
<1>1. q \in Nat /\ r \in 0 .. (w - 1) /\ k = q * w + r /\ q % 2 = 0
  BY <1>0, Splits
<1> HIDE DEF q, r
<1>2. (q + 1) * w = q * w + w /\ (q + 2) * w = q * w + w + w /\ q * w \in Nat
  BY <1>0, <1>1, SMTT(30)
<1>3. ASSUME r + 1 < w
      PROVE  /\ n = k + 1
             /\ n \div w = q
  <2> DEFINE s == k + 1
             p == r + 1
  <2>1. s = q * w + p /\ p \in 0 .. (w - 1) /\ p # 0
    BY <1>0, <1>1, <1>2, <1>3
  <2> HIDE DEF s, p
  <2>a. w \in Nat \ {0} /\ q \in Nat
    BY <1>0, <1>1
  <2>2. s \div w = q /\ s % w = p
    BY <2>a, <2>1, Joins
  <2>3. n = s
    BY <2>1, <2>2 DEF NextPair, s
  <2> QED
    BY <2>2, <2>3 DEF s
<1>4. ASSUME ~(r + 1 < w)
      PROVE  /\ n = (q + 2) * w
             /\ n \div w = q + 2
  <2> DEFINE s == k + 1
             p == q + 1
  <2>1. s = p * w /\ p \in Nat
    BY <1>0, <1>1, <1>2, <1>4
  <2> HIDE DEF s, p
  <2>2. s % w = 0
    BY <1>0, <2>1, Multiple
  <2>3. n = s + w
    BY <2>2 DEF NextPair, s
  <2>4. n = (q + 2) * w
    BY <1>0, <1>1, <1>2, <2>1, <2>3 DEF p
  <2> DEFINE m == q + 2
  <2>5. m \in Nat /\ n = m * w
    BY <1>1, <2>4
  <2> HIDE DEF m
  <2>6. n \div w = m
    BY <1>0, <2>5, Multiple
  <2> QED
    BY <2>4, <2>6 DEF m
<1>5. n \in Nat /\ n > k
  BY <1>0, <1>1, <1>2, <1>3, <1>4
<1>6. n < N => n \in Firsts(w)
  <2>1. (n \div w) % 2 = 0
    BY <1>1, <1>3, <1>4
  <2> QED
    BY <1>0, <1>5, <2>1
<1>7. ASSUME NEW t \in Firsts(w), t < n, t > k
      PROVE  FALSE
  <2>0. t \in Nat /\ (t \div w) % 2 = 0
    BY <1>0
  <2>1. ~(r + 1 < w)
    BY <1>0, <1>3, <1>5, <1>7, <2>0
  <2>2. k + 1 = (q + 1) * w
    BY <1>0, <1>1, <1>2, <2>1
  <2> DEFINE p == t \div w
             s == t % w
  <2>3. p \in Nat /\ s \in 0 .. (w - 1) /\ t = p * w + s
    BY <1>0, <2>0, Splits
  <2>a. p % 2 = 0
    BY <2>0
  <2> HIDE DEF p, s
  <2>4. p * w \in Nat
    BY <1>0, <2>3, SMTT(30)
  <2>5. p >= q + 1
    <3>1. SUFFICES ASSUME p <= q
                   PROVE  FALSE
      BY <1>1, <2>3
    <3>2. p * w <= q * w
      BY <1>0, <1>1, <2>3, <3>1, SMTT(30)
    <3> DEFINE y == q * w
               z == p * w
    <3>3. /\ y \in Nat /\ z \in Nat /\ w \in Nat /\ k \in Nat /\ t \in Nat /\ s \in 0 .. (w - 1)
          /\ z <= y /\ t = z + s /\ k + 1 = y + w /\ t > k
      BY <1>0, <1>2, <1>7, <2>0, <2>2, <2>3, <2>4, <3>2
    <3> HIDE DEF y, z
    <3> QED
      BY <3>3
  <2>6. p < q + 2
    <3>1. SUFFICES ASSUME p >= q + 2
                   PROVE  FALSE
      BY <1>1, <2>3
    <3>2. (q + 2) * w <= p * w
      BY <1>0, <1>1, <2>3, <3>1, SMTT(30)
    <3> DEFINE y == (q + 2) * w
               z == p * w
    <3>3. /\ y \in Nat /\ z \in Nat /\ w \in Nat /\ t \in Nat /\ s \in 0 .. (w - 1)
          /\ y <= z /\ t = z + s /\ n = y /\ t < n
      BY <1>0, <1>2, <1>4, <1>7, <2>0, <2>1, <2>3, <2>4, <3>2
    <3> HIDE DEF y, z
    <3> QED
      BY <3>3
  <2>7. p = q + 1
    BY <1>1, <2>3, <2>5, <2>6
  <2> QED
    BY <1>1, <2>a, <2>7
<1>8. \A t \in Firsts(w) : t \in Nat
  BY <1>0
<1> QED
  BY <1>0, <1>5, <1>6, <1>7, <1>8

\* Where the column of a stage before its end is: results below j, operands
\* from there on.
Place(t) == StagesOf(input)[IF t < j THEN 2 * h ELSE h]

\* The pairs below j hold what the stage computes, the others what it starts from.
InPlace ==
  /\ input \in Columns /\ x \in Columns /\ h \in Weights
  /\ h < N =>
       /\ j \in Firsts(h)
       /\ \A t \in Firsts(h) : x[t] = Place(t)[t] /\ x[t + h] = Place(t)[t + h]
  /\ h >= N => x = StagesOf(input)[h]

\* A column is determined by its butterflies.
LEMMA PairsDetermine ==
  ASSUME NEW w \in Weights, w < N, NEW a \in Columns, NEW b \in Columns,
         \A t \in Firsts(w) : a[t] = b[t] /\ a[t + w] = b[t + w]
  PROVE  a = b
<1>1. ASSUME NEW t \in Tokens
      PROVE  a[t] = b[t]
  <2>1. CASE t \in Firsts(w)
    BY <2>1
  <2>2. CASE t \notin Firsts(w)
    <3> DEFINE s == t - w
    <3>1. s \in Firsts(w)
      BY <2>2, Partners DEF Firsts
    <3>2. s + w = t
      <4>1. t \in Int /\ w \in Int
        BY DEF Tokens, Weights
      <4> QED
        BY <4>1
    <3> HIDE DEF s
    <3> QED
      BY <3>1, <3>2
  <2> QED
    BY <2>1, <2>2
<1> QED
  BY <1>1 DEF Columns

\* Before the first butterfly nothing has passed.
LEMMA InitInPlace == ReferenceInit => InPlace
<1> SUFFICES ASSUME ReferenceInit
             PROVE  InPlace
  OBVIOUS
<1>1. input \in Columns /\ x = input /\ h = 1 /\ j = 0
  BY InputsAreColumns DEF ReferenceInit, Columns
<1>2. h \in Weights /\ StagesOf(input)[h] = input
  BY <1>1, WeightsDouble, StageAfterStage
<1>3. \A t \in Tokens : ~(t < 0) /\ t \in Nat
  BY DEF Tokens
<1>4. 0 \in Firsts(1)
  <2>1. (0 \div 1) % 2 = 0
    OBVIOUS
  <2> QED
    BY <2>1, TokensFinite DEF Firsts
<1>5. \A t \in Firsts(h) : Place(t) = x
  BY <1>1, <1>2, <1>3 DEF Place, Firsts
<1> QED
  BY <1>1, <1>2, <1>4, <1>5 DEF InPlace

\* A butterfly replaces the operands of one pair by their results.
LEMMA ButterflyInPlace ==
  ASSUME InPlace, Butterfly
  PROVE  /\ x' \in Columns
         /\ \A t \in Firsts(h) :
              LET a == StagesOf(input)[IF t <= j THEN 2 * h ELSE h]
              IN x'[t] = a[t] /\ x'[t + h] = a[t + h]
<1> DEFINE a == StagesOf(input)[h]
           b == StagesOf(input)[2 * h]
<1>1. /\ h \in Weights /\ h < N /\ x \in Columns /\ j \in Firsts(h)
      /\ x' = [x EXCEPT ![j] = x[j] + x[j + h], ![j + h] = x[j] - x[j + h]]
      /\ \A t \in Firsts(h) : x[t] = Place(t)[t] /\ x[t + h] = Place(t)[t + h]
      /\ input \in Columns
  BY DEF InPlace, Butterfly
<1>2. a \in Columns /\ b = Stage(a, h)
  BY <1>1, StagesAreColumns, StageAfterStage
<1>3. \A t \in Firsts(h) : /\ t \in Tokens /\ t + h \in Tokens /\ t + h \notin Firsts(h)
                           /\ t \in Nat
                           /\ b[t] = a[t] + a[t + h] /\ b[t + h] = a[t] - a[t + h]
  BY <1>1, <1>2, Partners, StageValues DEF Firsts, Tokens
<1>4. h \in Nat
  BY <1>1 DEF Weights
<1> HIDE DEF a, b
<1>5. j \in Tokens /\ j + h \in Tokens /\ j + h # j /\ x[j] \in Int /\ x[j + h] \in Int
  BY <1>1, <1>3 DEF Columns
<1>6. x' \in Columns
  BY <1>1, <1>5 DEF Columns
<1>7. x'[j] = x[j] + x[j + h] /\ x'[j + h] = x[j] - x[j + h]
  BY <1>1, <1>5 DEF Columns
<1>8. \A t \in Tokens : t # j /\ t # j + h => x'[t] = x[t]
  BY <1>1, <1>5 DEF Columns
<1>9. x'[j] = b[j] /\ x'[j + h] = b[j + h]
  <2>1. Place(j) = a
    <3>1. ~(j < j)
      BY <1>1, <1>3
    <3> QED
      BY <3>1 DEF Place, a
  <2>2. x[j] = a[j] /\ x[j + h] = a[j + h]
    BY <1>1, <2>1
  <2> QED
    BY <1>1, <1>3, <1>7, <2>2
<1>10. ASSUME NEW t \in Firsts(h), t # j
       PROVE  /\ x'[t] = Place(t)[t] /\ x'[t + h] = Place(t)[t + h]
              /\ Place(t) = StagesOf(input)[IF t <= j THEN 2 * h ELSE h]
  <2>1. t \in Tokens /\ t + h \in Tokens /\ t \in Nat /\ j \in Nat
    BY <1>1, <1>3
  <2>2. t # j + h /\ t + h # j /\ t + h # j + h
    BY <1>1, <1>3, <1>4, <1>10, <2>1
  <2>3. x'[t] = x[t] /\ x'[t + h] = x[t + h]
    BY <1>8, <1>10, <2>1, <2>2
  <2>4. (t < j) <=> (t <= j)
    BY <1>10, <2>1
  <2> QED
    BY <1>1, <2>3, <2>4 DEF Place
<1>11. ASSUME NEW t \in Firsts(h)
       PROVE  LET c == StagesOf(input)[IF t <= j THEN 2 * h ELSE h]
              IN x'[t] = c[t] /\ x'[t + h] = c[t + h]
  <2>1. CASE t = j
    <3>1. j <= j
      BY <1>1, <1>3
    <3> QED
      BY <1>9, <2>1, <3>1 DEF b
  <2> QED
    BY <1>10, <2>1
<1> QED
  BY <1>6, <1>11

\* A butterfly and the end of a stage keep the tokens in place.
LEMMA StepInPlace ==
  ASSUME InPlace, Butterfly
  PROVE  /\ InPlace'
         /\ h' = h \/ h' = 2 * h
<1> DEFINE n == NextPair(j, h)
<1>1. /\ h \in Weights /\ h < N /\ j \in Firsts(h) /\ input \in Columns /\ input' = input
      /\ IF n < N THEN j' = n /\ h' = h ELSE j' = 0 /\ h' = 2 * h
  BY DEF InPlace, Butterfly, Advance
<1>2. /\ n \in Nat
      /\ n < N => n \in Firsts(h)
      /\ \A t \in Firsts(h) : t < n <=> t <= j
  BY <1>1, NextPairs
<1>3. /\ x' \in Columns
      /\ \A t \in Firsts(h) :
           LET a == StagesOf(input)[IF t <= j THEN 2 * h ELSE h]
           IN x'[t] = a[t] /\ x'[t + h] = a[t + h]
  BY ButterflyInPlace
<1> HIDE DEF n
<1>4. CASE n < N
  <2>1. j' = n /\ h' = h
    BY <1>1, <1>4
  <2>2. ASSUME NEW t \in Firsts(h)
        PROVE  x'[t] = Place(t)'[t] /\ x'[t + h] = Place(t)'[t + h]
    <3>1. Place(t)' = StagesOf(input)[IF t < n THEN 2 * h ELSE h]
      BY <1>1, <2>1 DEF Place
    <3>2. Place(t)' = StagesOf(input)[IF t <= j THEN 2 * h ELSE h]
      BY <1>2, <3>1
    <3> QED
      BY <1>3, <3>2
  <2>3. j' \in Firsts(h')
    BY <1>2, <1>4, <2>1
  <2>4. h < N /\ ~(h >= N)
    <3>1. h \in Nat /\ N \in Nat
      BY <1>1, NIsAPowerOfTwo DEF Weights
    <3> QED
      BY <1>1, <3>1
  <2>5. \A t \in Firsts(h') : x'[t] = Place(t)'[t] /\ x'[t + h'] = Place(t)'[t + h']
    BY <2>1, <2>2
  <2> QED
    BY <1>1, <1>3, <2>1, <2>3, <2>4, <2>5 DEF InPlace
<1>5. CASE ~(n < N)
  <2>1. j' = 0 /\ h' = 2 * h
    BY <1>1, <1>5
  <2>2. 2 * h \in Weights /\ 2 * h \in Nat /\ N \in Nat /\ 2 * h # 0
    BY <1>1, WeightsDouble DEF Weights
  <2> DEFINE b == StagesOf(input)[2 * h]
  <2>3. \A t \in Firsts(h) : t < n
    BY <1>2, <1>5, NIsAPowerOfTwo DEF Firsts, Tokens
  <2>4. b \in Columns
    BY <1>1, <2>2, StagesAreColumns
  <2>5. x' = b
    <3>1. \A t \in Firsts(h) : x'[t] = b[t] /\ x'[t + h] = b[t + h]
      BY <1>2, <1>3, <2>3
    <3> HIDE DEF b
    <3> QED
      BY <1>1, <1>3, <2>4, <3>1, PairsDetermine
  <2>6. \A t \in Tokens : ~(t < 0) /\ t \in Nat
    BY DEF Tokens
  <2>7. \A t \in Firsts(2 * h) : Place(t)' = b
    BY <1>1, <2>1, <2>6 DEF Place, Firsts
  <2>8. 0 \in Firsts(2 * h)
    <3> DEFINE w == 2 * h
    <3>1. w \in Nat \ {0} /\ 0 \in Nat /\ 0 = 0 * w
      BY <2>2
    <3> HIDE DEF w
    <3>2. 0 \div w = 0
      BY <3>1, Multiple
    <3>3. 0 % 2 = 0
      OBVIOUS
    <3> QED
      BY <3>2, <3>3, TokensFinite DEF Firsts, w
  <2> HIDE DEF b
  <2>9. /\ x' = b /\ j' \in Firsts(h') /\ h' \in Weights
        /\ \A t \in Firsts(h') : x'[t] = Place(t)'[t] /\ x'[t + h'] = Place(t)'[t + h']
        /\ StagesOf(input')[h'] = b
    BY <1>1, <2>1, <2>2, <2>5, <2>7, <2>8 DEF b
  <2> QED
    BY <1>1, <1>3, <2>1, <2>9 DEF InPlace
<1> QED
  BY <1>1, <1>4, <1>5

\* The loops keep the tokens in place.
LEMMA AlwaysInPlace == ReferenceSpec => []InPlace
<1>1. ASSUME InPlace, [Butterfly]_referenceVars
      PROVE  InPlace'
  <2>1. CASE Butterfly
    BY <1>1, <2>1, StepInPlace
  <2>2. CASE UNCHANGED referenceVars
    BY <1>1, <2>2 DEF InPlace, Place, referenceVars
  <2> QED
    BY <1>1, <2>1, <2>2
<1> QED
  BY <1>1, InitInPlace, PTL DEF ReferenceSpec

\* The loops end with the transform.
LEMMA EndsTransformed ==
  ASSUME InPlace, h >= N
  PROVE  input \in Columns /\ x = Transform(input)
<1>1. h = N
  BY NIsAPowerOfTwo DEF InPlace, Weights
<1> QED
  BY <1>1, TransformIsLast DEF InPlace

\* The butterflies of numpy_fwht_1d, done in place and in their order, compute
\* the correlations with the Walsh functions, and so do the stages that the
\* gates use: for blocks of any power of two and every column.
THEOREM WalshHolds == ReferenceSpec => []WalshCoefficients
<1>1. ASSUME InPlace
      PROVE  WalshCoefficients
  BY <1>1, EndsTransformed, TransformCorrelates DEF WalshCoefficients
<1> QED
  BY <1>1, AlwaysInPlace, PTL

\* The energy of two disjoint bands is the sum of theirs.
LEMMA EnergyOfUnion ==
  ASSUME NEW col \in Columns, NEW S \in SUBSET Tokens, NEW T \in SUBSET Tokens, S \cap T = {}
  PROVE  Energy(col, S \cup T) = Energy(col, S) + Energy(col, T)
<1> DEFINE f == [t \in Tokens |-> col[t] * col[t]]
<1>1. \A t \in Tokens : f[t] \in Int
  BY DEF Columns
<1>2. IsFiniteSet(S) /\ IsFiniteSet(T) /\ IsFiniteSet(S \cup T)
  BY TokensFinite, FS_Subset, FS_Union
<1>3. ASSUME NEW U \in SUBSET Tokens, IsFiniteSet(U)
      PROVE  Energy(col, U) = SumFunctionOnSet(f, U)
  <2> DEFINE g == [t \in U |-> col[t] * col[t]]
  <2>1. \A t \in U : g[t] = f[t] /\ g[t] \in Int
    BY <1>1
  <2> HIDE DEF g, f
  <2>2. SumFunctionOnSet(g, U) = SumFunctionOnSet(f, U)
    BY <1>3, <2>1, SumsAgree
  <2> QED
    BY <2>2, EnergyIsSum DEF g
<1> HIDE DEF f
<1>4. SumFunctionOnSet(f, S \cup T) = SumFunctionOnSet(f, S) + SumFunctionOnSet(f, T)
  BY <1>1, <1>2, SumOfUnion
<1> QED
  BY <1>2, <1>3, <1>4

\* The energy of one coefficient is its square.
LEMMA EnergyOfOne ==
  ASSUME NEW col \in Columns, NEW t \in Tokens
  PROVE  Energy(col, {t}) = col[t] * col[t]
<1> DEFINE f == [s \in {t} |-> col[s] * col[s]]
<1>1. f[t] = col[t] * col[t] /\ f[t] \in Int
  BY DEF Columns
<1>2. IsFiniteSet({t}) /\ {t} \ {t} = {}
  BY FS_Singleton
<1> HIDE DEF f
<1>3. \A i \in {t} : SumFunctionOnSet(f, {t}) = f[i] + SumFunctionOnSet(f, {t} \ {i})
  <2>1. \A i \in {t} : f[i] \in Int
    BY <1>1
  <2> QED
    BY <1>2, <2>1, SumTakes
<1>4. SumFunctionOnSet(f, {}) = 0
  BY SumAdds, FS_EmptySet
<1>5. SumFunctionOnSet(f, {t}) = f[t] + 0
  BY <1>2, <1>3, <1>4
<1>6. SumFunctionOnSet(f, {t}) = f[t]
  BY <1>1, <1>5
<1> QED
  BY <1>1, <1>6, EnergyIsSum DEF f

\* DC and the three bands are all the coefficients.
LEMMA BandsPartition ==
  ASSUME NEW col \in Columns
  PROVE  Energy(col, Tokens)
           = col[0] * col[0] + Energy(col, LowBand) + Energy(col, MidBand) + Energy(col, HighBand)
<1> DEFINE A == {0} \cup LowBand
           B == A \cup MidBand
<1>1. /\ 0 \in Tokens /\ {0} \in SUBSET Tokens
      /\ LowBand \in SUBSET Tokens /\ MidBand \in SUBSET Tokens /\ HighBand \in SUBSET Tokens
      /\ {0} \cap LowBand = {} /\ A \cap MidBand = {} /\ B \cap HighBand = {}
      /\ B \cup HighBand = Tokens
  BY NIsAPowerOfTwo, BandsAreOrdered DEF Tokens, LowBand, MidBand, HighBand
<1>2. A \in SUBSET Tokens /\ B \in SUBSET Tokens
  BY <1>1
<1>3. Energy(col, A) = Energy(col, {0}) + Energy(col, LowBand)
  BY <1>1, EnergyOfUnion
<1> HIDE DEF A
<1>4. Energy(col, B) = Energy(col, A) + Energy(col, MidBand)
  BY <1>1, <1>2, EnergyOfUnion
<1> HIDE DEF B
<1>5. Energy(col, B \cup HighBand) = Energy(col, B) + Energy(col, HighBand)
  BY <1>1, <1>2, EnergyOfUnion
<1>6. Energy(col, {0}) = col[0] * col[0]
  BY <1>1, EnergyOfOne
<1> QED
  BY <1>1, <1>3, <1>4, <1>5, <1>6

\* The energy of the keys, that of the coefficients and the sum over DC and
\* the bands are one number, for every column.
THEOREM ParsevalHolds == ReferenceSpec => []Parseval
<1>1. ASSUME InPlace
      PROVE  Parseval
  <2> SUFFICES ASSUME h >= N
               PROVE  /\ Energy(x, Tokens) = N * Energy(input, Tokens)
                      /\ x[0] * x[0] + Energy(x, LowBand) + Energy(x, MidBand)
                           + Energy(x, HighBand) = N * Energy(input, Tokens)
    BY DEF Parseval
  <2>1. Energy(x, Tokens) = N * Energy(input, Tokens) /\ x \in Columns
    BY <1>1, EndsTransformed, TransformEnergy
  <2> QED
    BY <2>1, BandsPartition
<1> QED
  BY <1>1, AlwaysInPlace, PTL

\* What the butterflies have left of a stage determines its operands.
LEMMA OperandsOfStage ==
  ASSUME InPlace
  PROVE  StageStart = StagesOf(input)[h]
<1> DEFINE a == StagesOf(input)[h]
<1>0. h \in Weights /\ input \in Columns /\ x \in Columns /\ h \in Nat /\ N \in Nat
  BY NIsAPowerOfTwo DEF InPlace, Weights
<1>1. CASE h >= N
  <2>1. x = a
    BY <1>1 DEF InPlace
  <2>2. StageStart = [t \in Tokens |-> x[t]]
    BY <1>1 DEF StageStart
  <2> QED
    BY <1>0, <2>1, <2>2 DEF Columns
<1>2. CASE h < N
  <2> DEFINE b == StagesOf(input)[2 * h]
  <2>1. a \in Columns /\ b = Stage(a, h)
    BY <1>0, <1>2, StagesAreColumns, StageAfterStage
  <2>2. /\ j \in Firsts(h)
        /\ \A t \in Firsts(h) : x[t] = Place(t)[t] /\ x[t + h] = Place(t)[t + h]
    BY <1>2 DEF InPlace
  <2>3. ASSUME NEW t \in Firsts(h)
        PROVE  /\ t \in Tokens /\ t + h \in Tokens /\ t \in Nat
               /\ b[t] = a[t] + a[t + h] /\ b[t + h] = a[t] - a[t + h]
               /\ Low(t, h) = t /\ Low(t + h, h) = t
    <3>1. t \in Tokens /\ (t \div h) % 2 = 0
      BY DEF Firsts
    <3>2. t + h \in Tokens /\ Low(t, h) = t /\ Low(t + h, h) = t
      BY <1>0, <1>2, <3>1, Partners
    <3>3. b[t] = a[t] + a[t + h] /\ b[t + h] = a[t] - a[t + h]
      BY <1>0, <1>2, <2>1, <3>1, StageValues
    <3> QED
      BY <3>1, <3>2, <3>3 DEF Tokens
  <2>4. \A t \in Tokens : a[t] \in Int
    BY <2>1 DEF Columns
  <2>5. /\ \A t \in Firsts(h) : Place(t) = IF t < j THEN b ELSE a
        /\ ~(h >= N)
    BY <1>0, <1>2 DEF Place
  <2>6. StageStart \in [Tokens -> Int] /\ \A t \in Firsts(h) :
          StageStart[t] = a[t] /\ StageStart[t + h] = a[t + h]
    <3> DEFINE val(t) == LET low == Low(t, h) IN
                         IF h >= N \/ low >= j THEN x[t]
                         ELSE IF t = low THEN (x[t] + x[t + h]) \div 2
                         ELSE (x[low] - x[t]) \div 2
    <3>1. StageStart = [t \in Tokens |-> val(t)]
      BY DEF StageStart
    <3>2. \A p, q \in Int : ((p + q) + (p - q)) \div 2 = p /\ ((p + q) - (p - q)) \div 2 = q
      OBVIOUS
    <3>3. ASSUME NEW t \in Firsts(h)
          PROVE  val(t) = a[t] /\ val(t + h) = a[t + h]
      <4>0. /\ t \in Nat /\ j \in Nat /\ t + h # t /\ t \in Tokens /\ t + h \in Tokens
            /\ a[t] \in Int /\ a[t + h] \in Int
            /\ Low(t, h) = t /\ Low(t + h, h) = t
        BY <1>0, <2>2, <2>3, <2>4 DEF Weights
      <4>1. CASE t >= j
        <5>1. ~(t < j)
          BY <4>0, <4>1
        <5>2. x[t] = a[t] /\ x[t + h] = a[t + h]
          BY <2>2, <2>5, <5>1
        <5>3. val(t) = x[t] /\ val(t + h) = x[t + h]
          BY <4>0, <4>1
        <5> QED
          BY <5>2, <5>3
      <4>2. CASE ~(t >= j)
        <5>1. t < j
          BY <4>0, <4>2
        <5>2. x[t] = a[t] + a[t + h] /\ x[t + h] = a[t] - a[t + h]
          BY <2>2, <2>3, <2>5, <5>1
        <5>3. val(t) = (x[t] + x[t + h]) \div 2 /\ val(t + h) = (x[t] - x[t + h]) \div 2
          BY <2>5, <4>0, <4>2
        <5> HIDE DEF val, a
        <5> QED
          BY <3>2, <4>0, <5>2, <5>3
      <4> QED
        BY <4>1, <4>2
    <3>4. \A t \in Firsts(h) : StageStart[t] = a[t] /\ StageStart[t + h] = a[t + h]
      <4> HIDE DEF val, a
      <4> QED
        BY <2>3, <3>1, <3>3
    <3>5. \A t \in Tokens : val(t) \in Int
      <4> SUFFICES ASSUME NEW t \in Tokens
                   PROVE  val(t) \in Int
        OBVIOUS
      <4>1. CASE t \in Firsts(h)
        BY <2>4, <3>3, <4>1
      <4>2. CASE t \notin Firsts(h)
        <5> DEFINE s == t - h
        <5>1. s \in Firsts(h)
          BY <1>0, <1>2, <4>2, Partners DEF Firsts
        <5>2. s + h = t
          <6>1. t \in Int /\ h \in Int
            BY <1>0 DEF Tokens
          <6> QED
            BY <6>1
        <5> HIDE DEF s, val, a
        <5>3. val(t) = a[t]
          BY <3>3, <5>1, <5>2
        <5> QED
          BY <2>4, <5>3
      <4> QED
        BY <4>1, <4>2
    <3> HIDE DEF val
    <3> QED
      BY <3>1, <3>4, <3>5
  <2> HIDE DEF a
  <2> QED
    BY <1>0, <1>2, <2>1, <2>6, PairsDetermine DEF Columns, a
<1> QED
  BY <1>0, <1>1, <1>2

\* Without fairness, the butterflies in place implement the stages of
\* fwht_512: every butterfly leaves the operands of its stage as they were,
\* or is the last one of the stage.
THEOREM StagesAreImplemented ==
  ReferenceSpec => Staged!FwhtInit /\ [][Staged!NextStage]_(Staged!fwhtVars)
<1>1. ReferenceInit => Staged!FwhtInit
  <2> SUFFICES ASSUME ReferenceInit
               PROVE  Staged!FwhtInit
    OBVIOUS
  <2>1. StageStart = StagesOf(input)[h]
    BY InitInPlace, OperandsOfStage
  <2>2. input \in Columns /\ h = 1 /\ input \in Inputs
    BY InputsAreColumns DEF ReferenceInit, Columns
  <2> QED
    BY <2>1, <2>2, StageAfterStage DEF Staged!FwhtInit
<1>2. ASSUME InPlace, StageStart = StagesOf(input)[h], (StageStart = StagesOf(input)[h])',
             [Butterfly]_referenceVars
      PROVE  [Staged!NextStage]_(Staged!fwhtVars)
  <2>0. StageStart = StagesOf(input)[h] /\ StageStart' = StagesOf(input')[h']
    BY <1>2
  <2>1. CASE Butterfly
    <3>1. h \in Weights /\ h < N /\ input \in Columns /\ input' = input
      BY <1>2, <2>1 DEF InPlace, Butterfly
    <3>2. CASE h' = h
      <4>1. StageStart' = StageStart
        BY <2>0, <3>1, <3>2
      <4> QED
        BY <3>1, <3>2, <4>1 DEF Staged!fwhtVars
    <3>3. CASE h' = 2 * h
      <4>1. StageStart' = Stage(StageStart, h)
        BY <2>0, <3>1, <3>3, StageAfterStage
      <4>2. Stage(StageStart, h) = Staged!Stage(StageStart, h)
        BY DEF Stage, Staged!Stage, Low, Staged!Low, Tokens, Staged!Tokens
      <4> QED
        BY <3>1, <3>3, <4>1, <4>2 DEF Staged!NextStage
    <3> QED
      BY <1>2, <2>1, <3>2, <3>3, StepInPlace
  <2>2. CASE UNCHANGED referenceVars
    <3>1. UNCHANGED <<input, h>>
      BY <2>2 DEF referenceVars
    <3> QED
      BY <2>0, <3>1 DEF Staged!fwhtVars
  <2> QED
    BY <1>2, <2>1, <2>2
<1>3. InPlace => StageStart = StagesOf(input)[h]
  BY OperandsOfStage
<1> QED
  BY <1>1, <1>2, <1>3, AlwaysInPlace, PTL DEF ReferenceSpec

-----------------------------------------------------------------------------
(***************************************************************************)
(* The bound of the query-aware gate.                                      *)
(***************************************************************************)

\* The product of two numbers that are not negative bounds what it bounds
\* when squared.
LEMMA BoundedBySquares ==
  ASSUME NEW z \in Int, NEW r \in Nat, NEW s \in Nat,
         z * z <= (r * r) * (s * s)
  PROVE  z <= r * s
<1> DEFINE p == r * s
<1>1. p \in Nat
  BY SMTT(30)
<1>2. (r * r) * (s * s) = p * p
  BY SMTT(30)
<1> HIDE DEF p
<1>3. z <= p
  <2> SUFFICES ASSUME z > p
               PROVE  FALSE
    BY <1>1
  <2>1. z * z > p * p
    BY <1>1, SMTT(30)
  <2>2. z * z <= p * p
    BY <1>2
  <2>3. z * z \in Int /\ p * p \in Int
    BY <1>1
  <2> QED
    BY <2>1, <2>2, <2>3
<1> QED
  BY <1>3 DEF p

\* A key is as far from the mean of its column as the AC part allows:
\* (N x_t - X_0)^2 <= N (X_1^2 + .. + X_(N-1)^2).
LEMMA KeysAreNearMean ==
  ASSUME NEW col \in Columns, NEW t \in Tokens
  PROVE  /\ N * col[t] - Transform(col)[0] \in Int
         /\ Energy(Transform(col), Tokens \ {0}) \in Nat
         /\ (N * col[t] - Transform(col)[0]) * (N * col[t] - Transform(col)[0])
              <= N * Energy(Transform(col), Tokens \ {0})
<1> DEFINE X == Transform(col)
           m == X[0]
           one == [s \in Tokens |-> 1]
           uu == [s \in Tokens |-> col[s] * col[s]]
           uv == [s \in Tokens |-> col[s] * one[s]]
           vv == [s \in Tokens |-> one[s] * one[s]]
           g == [s \in Tokens |-> (N * col[s] - m * one[s]) * (N * col[s] - m * one[s])]
           E == Energy(col, Tokens)
           R == Energy(X, Tokens \ {0})
<1>0. N \in Nat \ {0} /\ IsFiniteSet(Tokens) /\ Cardinality(Tokens) = N /\ 0 \in Tokens
  BY NIsAPowerOfTwo, TokensFinite
<1>1. X \in Columns /\ Energy(X, Tokens) = N * E
  BY TransformEnergy
<1>2. m \in Int /\ \A s \in Tokens : col[s] \in Int /\ one[s] = 1
  BY <1>0, <1>1 DEF Columns
<1> HIDE DEF X
<1>3. E \in Nat /\ R \in Nat
  <2>1. IsFiniteSet(Tokens \ {0})
    BY <1>0, FS_Subset
  <2>2. \A s \in Tokens \ {0} : X[s] \in Int
    BY <1>1 DEF Columns
  <2> QED
    BY <1>0, <1>2, <2>1, <2>2, EnergyIsNatural
<1>4. N * E = m * m + R
  <2>1. Tokens = {0} \cup (Tokens \ {0}) /\ {0} \in SUBSET Tokens
        /\ Tokens \ {0} \in SUBSET Tokens /\ {0} \cap (Tokens \ {0}) = {}
    BY <1>0
  <2>2. Energy(X, {0} \cup (Tokens \ {0})) = Energy(X, {0}) + R
    BY <1>1, <2>1, EnergyOfUnion
  <2>3. Energy(X, {0}) = m * m
    BY <1>0, <1>1, EnergyOfOne
  <2> QED
    BY <1>1, <2>1, <2>2, <2>3
<1> HIDE DEF R, E, m
<1>5. /\ SumFunctionOnSet(uu, Tokens) = E
      /\ SumFunctionOnSet(uv, Tokens) = m
      /\ SumFunctionOnSet(vv, Tokens) = N
  <2>1. SumFunctionOnSet(uu, Tokens) = E
    BY EnergyIsSum DEF E
  <2>2. SumFunctionOnSet(uv, Tokens) = m
    <3>1. \A s \in Tokens : uv[s] \in Int /\ uv[s] = col[s]
      BY <1>2
    <3> HIDE DEF uv
    <3>2. SumFunctionOnSet(uv, Tokens) = SumFunctionOnSet(col, Tokens)
      BY <1>0, <3>1, SumsAgree
    <3> QED
      BY <3>2, FirstCoefficient DEF m, X
  <2>3. SumFunctionOnSet(vv, Tokens) = N
    <3>1. \A s \in Tokens : vv[s] = 1
      BY <1>2
    <3> HIDE DEF vv
    <3>2. SumFunctionOnSet(vv, Tokens) = 1 * Cardinality(Tokens)
      <4>1. 1 \in Int
        OBVIOUS
      <4> QED
        BY <1>0, <3>1, <4>1, SumOfEqual
    <3> QED
      BY <1>0, <3>2
  <2> QED
    BY <2>1, <2>2, <2>3
<1>6. SumFunctionOnSet(g, Tokens) = (N * N) * E + (-2) * ((N * m) * m) + (m * m) * N
  <2>1. Termwise(uu, col, col, Tokens) /\ Termwise(uv, col, one, Tokens)
        /\ Termwise(vv, one, one, Tokens)
    BY <1>2 DEF Termwise
  <2>2. SquaredGap(g, N, col, m, one, Tokens)
    BY DEF SquaredGap
  <2>3. N \in Int
    BY <1>0
  <2> HIDE DEF g, uu, uv, vv, one
  <2>4. SumFunctionOnSet(g, Tokens)
          = (N * N) * SumFunctionOnSet(uu, Tokens)
            + (-2) * ((N * m) * SumFunctionOnSet(uv, Tokens)) + (m * m) * SumFunctionOnSet(vv, Tokens)
    BY <1>0, <1>2, <2>1, <2>2, <2>3, SquaresMultiplyOut
  <2> QED
    BY <1>5, <2>4
<1>7. SumFunctionOnSet(g, Tokens) = N * R
  <2>1. (N * N) * E = N * (m * m) + N * R
    <3>1. (N * N) * E = N * (N * E)
      BY <1>0, <1>3, SMTT(30)
    <3>2. N * (m * m + R) = N * (m * m) + N * R
      BY <1>0, <1>2, <1>3, SMTT(30)
    <3> QED
      BY <1>4, <3>1, <3>2
  <2>2. (N * m) * m = N * (m * m) /\ (m * m) * N = N * (m * m)
    BY <1>0, <1>2, SMTT(30)
  <2>3. N * (m * m) \in Int /\ N * R \in Int
    BY <1>0, <1>2, <1>3
  <2> QED
    BY <1>6, <2>1, <2>2, <2>3
<1>8. \A s \in Tokens : g[s] = (N * col[s] - m) * (N * col[s] - m) /\ N * col[s] - m \in Int
  <2> SUFFICES ASSUME NEW s \in Tokens
               PROVE  g[s] = (N * col[s] - m) * (N * col[s] - m) /\ N * col[s] - m \in Int
    OBVIOUS
  <2>1. m * one[s] = m
    BY <1>2
  <2>2. N * col[s] \in Int
    BY <1>0, <1>2
  <2> QED
    BY <1>2, <2>1, <2>2
<1>9. \A s \in Tokens : g[s] \in Nat
  <2>1. \A z \in Int : z * z \in Nat
    OBVIOUS
  <2> HIDE DEF g
  <2> QED
    BY <1>8, <2>1
<1> HIDE DEF g
<1>10. g[t] <= SumFunctionOnSet(g, Tokens)
  BY <1>0, <1>9, SumIsPositive
<1>11. (N * col[t] - m) * (N * col[t] - m) <= N * R
  BY <1>7, <1>8, <1>10
<1> QED
  BY <1>3, <1>8, <1>11 DEF m, R, X

\* Queries, and keys of a token.
Vectors == [Dims -> Int]

\* A product of vectors is the sum over the dimensions.
LEMMA DotIsSum ==
  ASSUME NEW u \in Vectors, NEW v \in Vectors
  PROVE  /\ Dot(u, v) = SumFunctionOnSet([d \in Dims |-> u[d] * v[d]], Dims)
         /\ Dot(u, v) \in Int
<1> DEFINE f == [d \in Dims |-> u[d] * v[d]]
<1>1. Dot(u, v) = SumFunctionOnSet(f, Dims)
  BY DEF Dot, Total, SumFunction
<1>2. \A d \in Dims : f[d] \in Int
  BY DEF Vectors
<1> HIDE DEF f
<1>3. SumFunctionOnSet(f, Dims) \in Int
  BY <1>2, SumTakes, InputsAreWhole
<1> QED
  BY <1>1, <1>3 DEF f

\* The product of vectors is bounded by their norms.
LEMMA DotIsBounded ==
  ASSUME NEW u \in Vectors, NEW v \in Vectors
  PROVE  /\ Dot(u, u) \in Nat /\ Dot(v, v) \in Nat
         /\ Dot(u, v) * Dot(u, v) <= Dot(u, u) * Dot(v, v)
<1> DEFINE uu == [d \in Dims |-> u[d] * u[d]]
           uv == [d \in Dims |-> u[d] * v[d]]
           vv == [d \in Dims |-> v[d] * v[d]]
<1>1. Termwise(uu, u, u, Dims) /\ Termwise(uv, u, v, Dims) /\ Termwise(vv, v, v, Dims)
  BY DEF Termwise, Vectors
<1>2. /\ Dot(u, u) = SumFunctionOnSet(uu, Dims)
      /\ Dot(u, v) = SumFunctionOnSet(uv, Dims)
      /\ Dot(v, v) = SumFunctionOnSet(vv, Dims)
  BY DotIsSum
<1> HIDE DEF uu, uv, vv
<1>3. IsFiniteSet(Dims)
  BY InputsAreWhole
<1> QED
  BY <1>1, <1>2, <1>3, CauchySchwarz

\* The keys of a token, its distance from the mean, and the mean, per dimension.
TokenOf(b, t) == [d \in Dims |-> Keys[b][d][t]]
MeanOf(b)     == [d \in Dims |-> Spectrum[b][d][0]]
Offset(b, t)  == [d \in Dims |-> N * Keys[b][d][t] - Spectrum[b][d][0]]

\* What the gates work with is whole.
LEMMA GateTypes ==
  ASSUME NEW b \in Blocks, NEW t \in Tokens
  PROVE  /\ TokenOf(b, t) \in Vectors /\ MeanOf(b) \in Vectors /\ Offset(b, t) \in Vectors
         /\ \A d \in Dims : /\ Keys[b][d] \in Columns
                            /\ Spectrum[b][d] = Transform(Keys[b][d])
                            /\ Spectrum[b][d] \in Columns
<1>1. \A d \in Dims : Keys[b][d] \in Columns /\ Spectrum[b][d] = Transform(Keys[b][d])
  BY InputsAreWhole DEF Columns, Spectrum
<1>2. \A d \in Dims : Spectrum[b][d] \in Columns
  BY <1>1, TransformEnergy
<1>3. \A d \in Dims : Keys[b][d][t] \in Int /\ Spectrum[b][d][0] \in Int
  BY <1>1, <1>2, TokensFinite DEF Columns
<1>4. N \in Int
  BY NIsAPowerOfTwo
<1>5. \A p, q \in Int : N * p - q \in Int
  BY <1>4
<1> QED
  BY <1>1, <1>2, <1>3, <1>5 DEF TokenOf, MeanOf, Offset, Vectors

\* Over all dimensions the distance is at most the AC part of the block.
LEMMA OffsetIsBounded ==
  ASSUME NEW b \in Blocks, NEW t \in Tokens
  PROVE  Residual(b) \in Nat /\ Dot(Offset(b, t), Offset(b, t)) <= Residual(b)
<1> DEFINE e == [d \in Dims |-> Energy(Spectrum[b][d], Tokens \ {0})]
           f == [d \in Dims |-> N * Energy(Spectrum[b][d], Tokens \ {0})]
           o == Offset(b, t)
           oo == [d \in Dims |-> o[d] * o[d]]
<1>0. IsFiniteSet(Dims) /\ N \in Int /\ N >= 0
  BY InputsAreWhole, NIsAPowerOfTwo
<1>1. /\ o \in Vectors
      /\ \A d \in Dims : Keys[b][d] \in Columns /\ Spectrum[b][d] = Transform(Keys[b][d])
  BY GateTypes
<1>2. ASSUME NEW d \in Dims
      PROVE  e[d] \in Nat /\ f[d] = N * e[d] /\ oo[d] \in Int /\ oo[d] <= f[d]
  <2>1. /\ Energy(Spectrum[b][d], Tokens \ {0}) \in Nat
        /\ (N * Keys[b][d][t] - Spectrum[b][d][0]) * (N * Keys[b][d][t] - Spectrum[b][d][0])
             <= N * Energy(Spectrum[b][d], Tokens \ {0})
    BY <1>1, KeysAreNearMean
  <2>2. o[d] = N * Keys[b][d][t] - Spectrum[b][d][0] /\ o[d] \in Int
    BY <1>1 DEF Offset, Vectors
  <2> HIDE DEF o
  <2>3. oo[d] = o[d] * o[d] /\ oo[d] \in Int
    BY <2>2
  <2> QED
    BY <2>1, <2>2, <2>3
<1>3. BandEnergy(b, Tokens \ {0}) = SumFunctionOnSet(e, Dims)
  BY DEF BandEnergy, Total, SumFunction
<1>4. Dot(o, o) = SumFunctionOnSet(oo, Dims)
  BY <1>1, DotIsSum
<1> HIDE DEF e, f, o, oo
<1>5. SumFunctionOnSet(e, Dims) \in Nat
  BY <1>0, <1>2, SumIsPositive
<1>6. SumFunctionOnSet(f, Dims) = N * SumFunctionOnSet(e, Dims) + 0 * SumFunctionOnSet(e, Dims)
  <2>1. \A d \in Dims : e[d] \in Int /\ f[d] = N * e[d] + 0 * e[d]
    <3>1. \A z \in Int : N * z = N * z + 0 * z
      BY <1>0
    <3> QED
      BY <1>2, <3>1
  <2> DEFINE none == 0
  <2>2. none \in Int /\ \A d \in Dims : e[d] \in Int /\ f[d] = N * e[d] + none * e[d]
    BY <2>1
  <2> HIDE DEF none
  <2>3. SumFunctionOnSet(f, Dims)
          = N * SumFunctionOnSet(e, Dims) + none * SumFunctionOnSet(e, Dims)
    BY <1>0, <2>2, SumIsLinear
  <2> QED
    BY <2>3 DEF none
<1>7. Residual(b) = SumFunctionOnSet(f, Dims) /\ Residual(b) \in Nat
  <2> DEFINE S == SumFunctionOnSet(e, Dims)
  <2>1. S \in Nat /\ Residual(b) = N * S /\ SumFunctionOnSet(f, Dims) = N * S + 0 * S
    BY <1>3, <1>5, <1>6 DEF Residual
  <2> HIDE DEF S
  <2>2. N * S \in Nat
    BY <1>0, <2>1
  <2>3. N * S + 0 * S = N * S
    BY <1>0, <2>1
  <2> QED
    BY <2>1, <2>2, <2>3
<1>8. SumFunctionOnSet(oo, Dims) <= SumFunctionOnSet(f, Dims)
  <2>1. \A d \in Dims : oo[d] \in Int /\ f[d] \in Int /\ oo[d] <= f[d]
    BY <1>0, <1>2
  <2> QED
    BY <1>0, <2>1, SumIsMonotone
<1> QED
  BY <1>4, <1>7, <1>8 DEF o

\* The root of a square squares back to it.
LEMMA RootSquares ==
  ASSUME NEW n \in Nat, IsSquare(n)
  PROVE  Root(n) \in Nat /\ Root(n) * Root(n) = n
<1> DEFINE fits(r) == r \in 0 .. n /\ r * r = n
<1>1. \E r : fits(r)
  BY DEF IsSquare
<1>2. Root(n) = CHOOSE r : fits(r)
  BY DEF Root
<1> HIDE DEF fits
<1>3. fits(Root(n))
  BY <1>1, <1>2
<1> QED
  BY <1>3 DEF fits

\* What compute_query_aware_bounds returns is an upper bound: no token of a
\* block has a larger logit, for any query and dimension.
THEOREM LogitIsBounded ==
  ASSUME NEW queries \in QuerySets, NEW q \in queries, NEW b \in Blocks, NEW t \in Tokens
  PROVE  /\ LogitBound(q, b) \in Int
         /\ N * Dot(q, TokenOf(b, t)) \in Int
         /\ N * Dot(q, TokenOf(b, t)) <= LogitBound(q, b)
<1> DEFINE k == TokenOf(b, t)
           m == MeanOf(b)
           o == Offset(b, t)
           r == Root(Dot(q, q))
           s == Root(Residual(b))
<1>1. q \in Vectors /\ k \in Vectors /\ m \in Vectors /\ o \in Vectors
  BY InputsAreWhole, GateTypes DEF Vectors
<1>a. \A d \in Dims : o[d] = N * k[d] - m[d]
  BY DEF Offset, TokenOf, MeanOf
<1> HIDE DEF k, m, o
<1>2. Dot(q, k) \in Int /\ Dot(q, m) \in Int /\ Dot(q, o) \in Int /\ N \in Int
  <2>1. \A u, v \in Vectors : Dot(u, v) \in Int
    BY DotIsSum
  <2> QED
    BY <1>1, <2>1, NIsAPowerOfTwo
<1>3. Dot(q, q) \in Nat /\ r \in Nat /\ r * r = Dot(q, q)
  <2>1. Dot(q, q) \in Nat /\ IsSquare(Dot(q, q))
    BY <1>1, DotIsBounded, NormsAreWhole
  <2> QED
    BY <2>1, RootSquares
<1>4. Residual(b) \in Nat /\ s \in Nat /\ s * s = Residual(b)
  <2>1. Residual(b) \in Nat /\ IsSquare(Residual(b))
    BY OffsetIsBounded, NormsAreWhole
  <2> QED
    BY <2>1, RootSquares
<1>5. Dot(q, o) = N * Dot(q, k) + (-1) * Dot(q, m)
  <2> DEFINE fo == [d \in Dims |-> q[d] * o[d]]
             fk == [d \in Dims |-> q[d] * k[d]]
             fm == [d \in Dims |-> q[d] * m[d]]
  <2>1. ASSUME NEW d \in Dims
        PROVE  fk[d] \in Int /\ fm[d] \in Int /\ fo[d] = N * fk[d] + (-1) * fm[d]
    <3>1. q[d] \in Int /\ k[d] \in Int /\ m[d] \in Int /\ o[d] = N * k[d] - m[d]
      BY <1>1, <1>a DEF Vectors
    <3>2. \A a, c, z \in Int : a * (N * c - z) = N * (a * c) + (-1) * (a * z)
      BY <1>2, SMTT(30)
    <3>3. fk[d] \in Int /\ fm[d] \in Int
      BY <3>1
    <3>4. fo[d] = q[d] * (N * k[d] - m[d])
      BY <3>1
    <3>5. q[d] * (N * k[d] - m[d]) = N * (q[d] * k[d]) + (-1) * (q[d] * m[d])
      BY <3>1, <3>2, Zenon
    <3>6. fk[d] = q[d] * k[d] /\ fm[d] = q[d] * m[d]
      OBVIOUS
    <3> HIDE DEF fo, fk, fm
    <3> QED
      BY <3>3, <3>4, <3>5, <3>6
  <2>2. /\ Dot(q, o) = SumFunctionOnSet(fo, Dims)
        /\ Dot(q, k) = SumFunctionOnSet(fk, Dims)
        /\ Dot(q, m) = SumFunctionOnSet(fm, Dims)
    BY <1>1, DotIsSum
  <2> HIDE DEF fo, fk, fm
  <2>3. -1 \in Int /\ IsFiniteSet(Dims)
    BY InputsAreWhole
  <2>4. SumFunctionOnSet(fo, Dims)
          = N * SumFunctionOnSet(fk, Dims) + (-1) * SumFunctionOnSet(fm, Dims)
    <3> DEFINE minus == -1
    <3>1. minus \in Int /\ \A d \in Dims : fo[d] = N * fk[d] + minus * fm[d]
      BY <2>1, <2>3
    <3> HIDE DEF minus
    <3>2. SumFunctionOnSet(fo, Dims)
            = N * SumFunctionOnSet(fk, Dims) + minus * SumFunctionOnSet(fm, Dims)
      BY <1>2, <2>1, <2>3, <3>1, SumIsLinear
    <3> QED
      BY <3>2 DEF minus
  <2> QED
    BY <2>2, <2>4
<1>6. Dot(q, o) <= r * s
  <2>1. Dot(q, o) * Dot(q, o) <= Dot(q, q) * Dot(o, o) /\ Dot(o, o) \in Nat
    BY <1>1, DotIsBounded
  <2>2. Dot(o, o) <= s * s
    BY <1>4, OffsetIsBounded DEF o
  <2> DEFINE z == Dot(q, o)
             a == Dot(q, q)
             c == Dot(o, o)
             e == s * s
  <2>3. /\ z \in Int /\ a \in Nat /\ c \in Nat /\ e \in Nat /\ c <= e /\ z * z <= a * c
        /\ a = r * r
    BY <1>2, <1>3, <1>4, <2>1, <2>2
  <2> HIDE DEF z, a, c, e
  <2>4. a * c <= a * e
    BY <2>3, SMTT(30)
  <2>5. z * z <= a * e
    <3>1. z * z \in Int /\ a * c \in Int /\ a * e \in Int
      BY <2>3
    <3> QED
      BY <2>3, <2>4, <3>1
  <2>6. z * z <= (r * r) * (s * s)
    BY <2>3, <2>5 DEF e
  <2> HIDE DEF r, s
  <2>7. z <= r * s
    BY <1>3, <1>4, <2>3, <2>6, BoundedBySquares
  <2> QED
    BY <2>7 DEF z
<1>7. LogitBound(q, b) = Dot(q, m) + r * s
  BY DEF LogitBound, Alignment, MeanOf, m
<1> DEFINE p == r * s
           nk == N * Dot(q, k)
<1>8. p \in Int /\ nk \in Int
  BY <1>2, <1>3, <1>4
<1> HIDE DEF r, s, k, m, o
<1>9. /\ p \in Int /\ nk \in Int /\ LogitBound(q, b) = Dot(q, m) + p
      /\ Dot(q, o) = nk + (-1) * Dot(q, m) /\ Dot(q, o) <= p
  BY <1>5, <1>6, <1>7, <1>8
<1> HIDE DEF p, nk
<1>10. LogitBound(q, b) \in Int /\ nk <= LogitBound(q, b)
  BY <1>2, <1>9
<1> QED
  BY <1>8, <1>10 DEF nk, k

-----------------------------------------------------------------------------
(***************************************************************************)
(* The threshold.                                                          *)
(***************************************************************************)

\* A finite set of whole numbers has a largest one.
LEMMA LargestExists ==
  ASSUME NEW S, IsFiniteSet(S), S # {}, NEW f, \A i \in S : f[i] \in Int
  PROVE  \E i \in S : \A k \in S : f[k] <= f[i]
<1> DEFINE Good == {T \in SUBSET S : T = {} \/ \E i \in T : \A k \in T : f[k] <= f[i]}
<1>1. {} \in Good
  OBVIOUS
<1>2. ASSUME NEW T \in SUBSET S, NEW i \in T, T \ {i} \in Good
      PROVE  T \in Good
  <2>1. CASE T \ {i} = {}
    <3>1. \A k \in T : f[k] <= f[i]
      BY <2>1
    <3> QED
      BY <3>1
  <2>2. CASE T \ {i} # {}
    <3>1. PICK y \in T \ {i} : \A k \in T \ {i} : f[k] <= f[y]
      BY <1>2, <2>2
    <3>2. CASE f[i] <= f[y]
      <4>1. \A k \in T : f[k] <= f[y]
        BY <3>1, <3>2
      <4> QED
        BY <4>1
    <3>3. CASE ~(f[i] <= f[y])
      <4>1. f[i] \in Int /\ f[y] \in Int /\ \A k \in T : f[k] \in Int
        BY <3>1
      <4>2. \A k \in T : f[k] <= f[i]
        BY <3>1, <3>3, <4>1
      <4> QED
        BY <4>2
    <3> QED
      BY <3>2, <3>3
  <2> QED
    BY <2>1, <2>2
<1>3. S \in Good
  <2> HIDE DEF Good
  <2> QED
    BY <1>1, <1>2, ElementInduction
<1> QED
  BY <1>3

\* Max returns an element, and the largest one.
LEMMA MaxIsLargest ==
  ASSUME NEW S \in SUBSET Int, IsFiniteSet(S), S # {}
  PROVE  Max(S) \in S /\ \A v \in S : v <= Max(S)
<1> DEFINE f == [i \in S |-> i]
<1>1. \A i \in S : f[i] = i /\ f[i] \in Int
  OBVIOUS
<1> HIDE DEF f
<1>2. \E i \in S : \A k \in S : f[k] <= f[i]
  BY <1>1, LargestExists
<1>3. \E i \in S : \A k \in S : i >= k
  BY <1>1, <1>2
<1>4. Max(S) = CHOOSE i \in S : \A k \in S : i >= k
  BY DEF Max
<1>5. Max(S) \in S /\ \A k \in S : Max(S) >= k
  BY <1>3, <1>4
<1> QED
  BY <1>5

\* The bound of a block is at least the logit of each of its tokens.
LEMMA MaxBoundIsLargest ==
  ASSUME NEW queries \in QuerySets, NEW b \in Blocks
  PROVE  /\ MaxBound[queries][b] \in Int
         /\ \A q \in queries : \A t \in Tokens :
              /\ N * Dot(q, TokenOf(b, t)) \in Int
              /\ N * Dot(q, TokenOf(b, t)) <= MaxBound[queries][b]
<1> DEFINE f == [q \in queries |-> LogitBound(q, b)]
           S == {f[q] : q \in queries}
<1>0. IsFiniteSet(queries) /\ queries # {}
  BY InputsAreWhole
<1>1. S \in SUBSET Int
  <2>1. 0 \in Tokens
    BY TokensFinite
  <2>2. \A q \in queries : LogitBound(q, b) \in Int
    BY <2>1, LogitIsBounded
  <2> QED
    BY <2>2
<1>2. MaxBound[queries][b] = Max(S)
  <2>1. {LogitBound(q, b) : q \in queries} = S
    OBVIOUS
  <2>2. MaxBound[queries][b] = Max({LogitBound(q, b) : q \in queries})
    BY DEF MaxBound
  <2> QED
    BY <2>1, <2>2
<1>3. \A q \in queries : LogitBound(q, b) \in S
  OBVIOUS
<1>4. IsFiniteSet(S) /\ S # {}
  <2>1. S # {}
    BY <1>0
  <2> HIDE DEF f
  <2>2. IsFiniteSet(S)
    BY <1>0, ImageIsFinite
  <2> QED
    BY <2>1, <2>2
<1> HIDE DEF S
<1>5. Max(S) \in Int /\ \A v \in S : v <= Max(S)
  BY <1>1, <1>4, MaxIsLargest
<1>6. ASSUME NEW q \in queries, NEW t \in Tokens
      PROVE  /\ N * Dot(q, TokenOf(b, t)) \in Int
             /\ N * Dot(q, TokenOf(b, t)) <= Max(S)
  <2> DEFINE v == N * Dot(q, TokenOf(b, t))
             w == LogitBound(q, b)
  <2>1. w \in Int /\ v \in Int /\ v <= w
    BY LogitIsBounded
  <2>2. w <= Max(S)
    BY <1>3, <1>5
  <2> HIDE DEF v, w
  <2>3. v <= Max(S)
    BY <1>5, <2>1, <2>2
  <2> QED
    BY <2>1, <2>3 DEF v
<1> QED
  BY <1>2, <1>5, <1>6

\* Scores that are whole numbers, finitely many of them.
AreScores(scores) ==
  /\ IsFiniteSet(DOMAIN scores)
  /\ \A i \in DOMAIN scores : scores[i] \in Int

\* The sums of scores that the threshold is computed from.
LEMMA ScoreSums ==
  ASSUME NEW scores, AreScores(scores)
  PROVE  /\ Cardinality(DOMAIN scores) \in Nat
         /\ Total(scores) \in Int
         /\ Energy(scores, DOMAIN scores) \in Nat
         /\ Spread(scores) \in Int
         /\ \A v \in Int : FromMean(v, scores) \in Int
<1> DEFINE D == DOMAIN scores
           n == Cardinality(D)
           T == Total(scores)
           E == Energy(scores, D)
<1>1. IsFiniteSet(D) /\ \A i \in D : scores[i] \in Int
  BY DEF AreScores
<1>2. n \in Nat
  BY <1>1, FS_CardinalityType
<1>3. T = SumFunctionOnSet(scores, D)
  BY DEF Total, SumFunction
<1>4. Spread(scores) = n * E - T * T /\ \A v : FromMean(v, scores) = n * v - T
  BY DEF Spread, FromMean
<1> HIDE DEF D, n, T, E
<1>5. T \in Int
  BY <1>1, <1>3, SumTakes
<1>6. E \in Nat
  BY <1>1, EnergyIsNatural DEF E
<1>7. n * E - T * T \in Int /\ \A v \in Int : n * v - T \in Int
  <2>1. n * E \in Int /\ T * T \in Int /\ \A v \in Int : n * v \in Int
    BY <1>2, <1>5, <1>6
  <2> QED
    BY <1>5, <2>1
<1> QED
  BY <1>2, <1>4, <1>5, <1>6, <1>7 DEF D, n, T, E

\* A larger score passes if a smaller one does.
LEMMA TauIsMonotone ==
  ASSUME NEW scores, AreScores(scores), NEW tau, tau = NoTau \/ tau \in Int,
         NEW v \in Int, NEW w \in Int, v <= w, TauAtMost(tau, v, scores)
  PROVE  TauAtMost(tau, w, scores)
<1>1. CASE tau = NoTau
  <2> DEFINE n == Cardinality(DOMAIN scores)
             T == Total(scores)
             V == Spread(scores)
             dv == FromMean(v, scores)
             dw == FromMean(w, scores)
  <2>1. /\ n \in Nat /\ T \in Int /\ V \in Int /\ dv \in Int /\ dw \in Int
    BY ScoreSums
  <2>2. dv = n * v - T /\ dw = n * w - T
    BY DEF FromMean
  <2>3. dv >= 0 \/ dv * dv <= V
    BY <1>1 DEF TauAtMost, AutoTauAtMost
  <2>4. (dw >= 0 \/ dw * dw <= V) => TauAtMost(tau, w, scores)
    BY <1>1 DEF TauAtMost, AutoTauAtMost
  <2> HIDE DEF n, T, V, dv, dw
  <2>5. dv <= dw
    <3>1. n * v <= n * w /\ n * v \in Int /\ n * w \in Int
      BY <2>1, SMTT(30)
    <3> QED
      BY <2>1, <2>2, <3>1
  <2>6. dw < 0 => dw * dw <= dv * dv
    BY <2>1, <2>5, SMTT(30)
  <2>7. dw >= 0 \/ dw * dw <= V
    <3>1. dw * dw \in Int /\ dv * dv \in Int
      BY <2>1
    <3> QED
      BY <2>1, <2>3, <2>5, <2>6, <3>1
  <2> QED
    BY <2>4, <2>7
<1>2. CASE tau # NoTau
  <2>1. N * tau \in Int /\ N * tau <= v
    BY <1>2, NIsAPowerOfTwo DEF TauAtMost
  <2>2. N * tau <= w
    BY <2>1
  <2> QED
    BY <1>2, <2>2 DEF TauAtMost
<1> QED
  BY <1>1, <1>2

\* The arithmetic of the inequality of Cantelli: m numbers lie at least e below
\* the mean, k do not.
LEMMA FarAreFew ==
  ASSUME NEW m \in Nat \ {0}, NEW k \in Nat, NEW e \in Nat \ {0}, NEW V \in Nat,
         NEW P \in Int, NEW Qn \in Nat, NEW Qf \in Nat,
         V <= e * e, m * e <= P, P * P <= Qn * k, P * P <= Qf * m, Qn + Qf = (m + k) * V
  PROVE  m <= k
<1> DEFINE p == P * P
           n == m + k
           ee == e * e
           c == (m * k) * V
<1>1. p \in Nat /\ n \in Nat \ {0} /\ ee \in Nat \ {0} /\ c \in Nat
  <2>1. p \in Nat
    OBVIOUS
  <2>2. ee \in Nat \ {0}
    BY SMTT(30)
  <2>3. m * k \in Nat
    BY SMTT(30)
  <2>4. c \in Nat
    BY <2>3, SMTT(30)
  <2> QED
    BY <2>1, <2>2, <2>4
<1>2. p <= Qn * k /\ p <= Qf * m /\ Qn + Qf = n * V /\ V <= ee
  OBVIOUS
<1>3. (m * e) * (m * e) <= p
  <2> DEFINE z == m * e
  <2>1. z \in Nat /\ z <= P
    BY SMTT(30)
  <2> HIDE DEF z
  <2>2. z * z <= P * P
    BY <2>1, SMTT(30)
  <2> QED
    BY <2>2 DEF z
<1>4. (m * e) * (m * e) = m * (m * ee)
  BY SMTT(30)
<1>5. n * p = m * p + k * p
  BY SMTT(30)
<1>6. n * c = m * (k * (n * V))
  BY SMTT(30)
<1> HIDE DEF p, ee
<1>7. m * p <= m * (Qn * k)
  <2> DEFINE z == Qn * k
  <2>1. z \in Nat /\ p <= z
    BY <1>2, SMTT(30)
  <2> HIDE DEF z
  <2>2. m * p <= m * z
    BY <1>1, <2>1, SMTT(30)
  <2> QED
    BY <2>2 DEF z
<1>8. k * p <= k * (Qf * m)
  <2> DEFINE z == Qf * m
  <2>1. z \in Nat /\ p <= z
    BY <1>2, SMTT(30)
  <2> HIDE DEF z
  <2>2. k * p <= k * z
    BY <1>1, <2>1, SMTT(30)
  <2> QED
    BY <2>2 DEF z
<1>9. m * (Qn * k) + k * (Qf * m) = m * (k * (Qn + Qf))
  BY SMTT(30)
<1>10. n * p <= n * c
  <2>1. /\ m * p \in Int /\ k * p \in Int /\ m * (Qn * k) \in Int /\ k * (Qf * m) \in Int
    <3>1. Qn * k \in Int /\ Qf * m \in Int
      OBVIOUS
    <3> QED
      BY <1>1, <3>1
  <2> DEFINE a == m * p
             b == k * p
             f == m * (Qn * k)
             g == k * (Qf * m)
  <2>2. /\ a \in Int /\ b \in Int /\ f \in Int /\ g \in Int /\ a <= f /\ b <= g
        /\ n * p = a + b /\ n * c = f + g
    BY <1>2, <1>5, <1>6, <1>7, <1>8, <1>9, <2>1
  <2> HIDE DEF a, b, f, g
  <2> QED
    BY <2>2
<1> HIDE DEF n
<1>11. p <= c
  <2> HIDE DEF c
  <2> QED
    BY <1>1, <1>10, SMTT(30)
<1>12. c = m * (k * V)
  BY SMTT(30)
<1>13. m * (m * ee) <= m * (k * V)
  <2> DEFINE a == m * (m * ee)
  <2>1. a <= p
    BY <1>3, <1>4
  <2>2. a \in Int
    <3>1. m * ee \in Int
      BY <1>1
    <3> QED
      BY <3>1
  <2> HIDE DEF a
  <2>3. a <= c
    BY <1>1, <1>11, <2>1, <2>2
  <2> QED
    BY <1>12, <2>3 DEF a
<1>14. m * ee <= k * V
  <2> DEFINE a == m * ee
             b == k * V
  <2>1. a \in Int /\ b \in Int /\ m * a <= m * b
    BY <1>1, <1>13
  <2> HIDE DEF a, b
  <2>2. a <= b
    BY <2>1, SMTT(30)
  <2> QED
    BY <2>2 DEF a, b
<1>15. k * V <= k * ee
  BY <1>1, <1>2, SMTT(30)
<1>16. m * ee <= k * ee
  <2>1. m * ee \in Int /\ k * V \in Int /\ k * ee \in Int
    BY <1>1
  <2> QED
    BY <1>14, <1>15, <2>1
<1> QED
  BY <1>1, <1>16, SMTT(30)

\* No more than half of any scores lie more than one sigma below their mean,
\* and the largest does not: _compute_auto_tau never evicts everything.
THEOREM HalfIsNear ==
  ASSUME NEW scores, AreScores(scores), DOMAIN scores # {},
         NEW near, near = {i \in DOMAIN scores : AutoTauAtMost(scores[i], scores)}
  PROVE  /\ 2 * Cardinality(near) >= Cardinality(DOMAIN scores)
         /\ \E i \in near : \A k \in DOMAIN scores : scores[k] <= scores[i]
<1> DEFINE D == DOMAIN scores
           n == Cardinality(D)
           T == Total(scores)
           E == Energy(scores, D)
           V == Spread(scores)
           d == [i \in D |-> n * scores[i] - T]
           one == [i \in D |-> 1]
           dd == [i \in D |-> d[i] * d[i]]
           far == D \ near
<1>1. /\ IsFiniteSet(D) /\ D # {} /\ n \in Nat /\ T \in Int /\ E \in Nat /\ V \in Int
      /\ \A i \in D : scores[i] \in Int
  BY ScoreSums DEF AreScores
<1>2. /\ T = SumFunctionOnSet(scores, D)
      /\ E = SumFunctionOnSet([i \in D |-> scores[i] * scores[i]], D)
      /\ V = n * E - T * T
      /\ \A i \in D : FromMean(scores[i], scores) = n * scores[i] - T
  BY EnergyIsSum DEF Total, SumFunction, Spread, FromMean
<1>3. n # 0
  BY <1>1, FS_EmptySet
<1> HIDE DEF D, n, T, E, V
<1>4. \A i \in D : d[i] \in Int /\ one[i] = 1 /\ dd[i] = d[i] * d[i] /\ d[i] = n * scores[i] - T
  <2>1. \A i \in D : n * scores[i] \in Int
    BY <1>1
  <2> QED
    BY <1>1, <2>1
<1>a. \A i \in D : dd[i] \in Nat
  <2>1. \A z \in Int : z * z \in Nat
    OBVIOUS
  <2> HIDE DEF dd, d
  <2> QED
    BY <1>4, <2>1
<1>b. \A i \in D : dd[i] = (n * scores[i] - T * one[i]) * (n * scores[i] - T * one[i])
  <2>1. \A i \in D : T * one[i] = T
    BY <1>1, <1>4
  <2> HIDE DEF one
  <2> QED
    BY <2>1
<1>5. /\ near \in SUBSET D
      /\ \A i \in near : d[i] >= 0 \/ d[i] * d[i] <= V
      /\ \A i \in far : d[i] < 0 /\ d[i] * d[i] > V
      /\ \A i \in D : d[i] >= 0 => i \in near
  <2>1. near = {i \in D : d[i] >= 0 \/ d[i] * d[i] <= V}
    BY <1>2, <1>4 DEF AutoTauAtMost, V, D
  <2>2. \A i \in D : d[i] * d[i] \in Int
    BY <1>4
  <2> HIDE DEF d
  <2> QED
    BY <1>1, <1>4, <2>1, <2>2
<1> HIDE DEF d, one, dd
<1>6. SumFunctionOnSet(one, D) = n
  <2>1. SumFunctionOnSet(one, D) = 1 * Cardinality(D)
    <3>1. 1 \in Int
      OBVIOUS
    <3> QED
      BY <1>1, <1>4, <3>1, SumOfEqual
  <2> QED
    BY <1>1, <2>1 DEF n
<1>7. SumFunctionOnSet(d, D) = 0
  <2> DEFINE b == -T
  <2>1. b \in Int /\ n \in Int /\ \A i \in D : one[i] \in Int /\ d[i] = n * scores[i] + b * one[i]
    <3>1. ASSUME NEW i \in D
          PROVE  one[i] \in Int /\ d[i] = n * scores[i] + b * one[i]
      <4>1. b * one[i] = -T
        BY <1>1, <1>4
      <4>2. n * scores[i] \in Int
        BY <1>1
      <4> QED
        BY <1>1, <1>4, <4>1, <4>2
    <3> QED
      BY <1>1, <3>1
  <2> HIDE DEF b
  <2>2. SumFunctionOnSet(d, D) = n * T + b * n
    <3>1. SumFunctionOnSet(d, D) = n * SumFunctionOnSet(scores, D) + b * SumFunctionOnSet(one, D)
      BY <1>1, <2>1, SumIsLinear
    <3> QED
      BY <1>2, <1>6, <3>1
  <2>3. b * n = -(n * T)
    BY <1>1, SMTT(30) DEF b
  <2>4. n * T \in Int
    BY <1>1
  <2> QED
    BY <2>2, <2>3, <2>4
<1>8. SumFunctionOnSet(dd, D) = n * V
  <2> DEFINE uu == [i \in D |-> scores[i] * scores[i]]
             uv == [i \in D |-> scores[i] * one[i]]
             vv == [i \in D |-> one[i] * one[i]]
  <2>1. Termwise(uu, scores, scores, D) /\ Termwise(uv, scores, one, D)
        /\ Termwise(vv, one, one, D)
    BY <1>1, <1>4 DEF Termwise
  <2>2. SquaredGap(dd, n, scores, T, one, D)
    BY <1>b DEF SquaredGap
  <2>3. SumFunctionOnSet(uu, D) = E
    BY <1>2
  <2>4. \A i \in D : uv[i] \in Int /\ uv[i] = scores[i] /\ vv[i] \in Int /\ vv[i] = one[i]
    BY <1>1, <1>4
  <2> HIDE DEF uu, uv, vv
  <2>5. SumFunctionOnSet(uv, D) = T
    <3>1. SumFunctionOnSet(uv, D) = SumFunctionOnSet(scores, D)
      BY <1>1, <2>4, SumsAgree
    <3> QED
      BY <1>2, <3>1
  <2>6. SumFunctionOnSet(vv, D) = n
    <3>1. SumFunctionOnSet(vv, D) = SumFunctionOnSet(one, D)
      BY <1>1, <2>4, SumsAgree
    <3> QED
      BY <1>6, <3>1
  <2>7. n \in Int
    BY <1>1
  <2>8. SumFunctionOnSet(dd, D) = (n * n) * E + (-2) * ((n * T) * T) + (T * T) * n
    <3>1. SumFunctionOnSet(dd, D)
            = (n * n) * SumFunctionOnSet(uu, D)
              + (-2) * ((n * T) * SumFunctionOnSet(uv, D)) + (T * T) * SumFunctionOnSet(vv, D)
      BY <1>1, <2>1, <2>2, <2>7, SquaresMultiplyOut
    <3> QED
      BY <2>3, <2>5, <2>6, <3>1
  <2>9. (n * n) * E + (-2) * ((n * T) * T) + (T * T) * n = n * (n * E - T * T)
    BY <1>1, SMTT(30)
  <2> QED
    BY <1>2, <2>8, <2>9
<1>9. \E i \in near : \A k \in D : scores[k] <= scores[i]
  <2>1. PICK i \in D : \A k \in D : scores[k] <= scores[i]
    BY <1>1, LargestExists
  <2>2. \A k \in D : d[k] <= d[i]
    <3> SUFFICES ASSUME NEW k \in D
                 PROVE  d[k] <= d[i]
      OBVIOUS
    <3>1. n * scores[k] <= n * scores[i] /\ n * scores[k] \in Int /\ n * scores[i] \in Int
      <4> DEFINE a == scores[k]
                 b == scores[i]
      <4>1. a \in Int /\ b \in Int /\ a <= b
        BY <1>1, <2>1
      <4> HIDE DEF a, b
      <4>2. n * a <= n * b /\ n * a \in Int /\ n * b \in Int
        BY <1>1, <4>1, SMTT(30)
      <4> QED
        BY <4>2 DEF a, b
    <3> QED
      BY <1>1, <1>4, <3>1
  <2>3. d[i] >= 0
    <3> SUFFICES ASSUME d[i] < 0
                 PROVE  FALSE
      BY <1>4
    <3> DEFINE g == [k \in D |-> -d[k]]
    <3>1. \A k \in D : g[k] \in Nat /\ g[k] = (-1) * d[k] + 0 * d[k]
      BY <1>4, <2>2
    <3>2. g[i] > 0
      BY <1>4
    <3> HIDE DEF g
    <3>3. g[i] <= SumFunctionOnSet(g, D)
      BY <1>1, <3>1, SumIsPositive
    <3>4. SumFunctionOnSet(g, D) = (-1) * SumFunctionOnSet(d, D) + 0 * SumFunctionOnSet(d, D)
      <4> DEFINE minus == -1
                 none == 0
      <4>1. /\ minus \in Int /\ none \in Int
            /\ \A k \in D : d[k] \in Int /\ g[k] = minus * d[k] + none * d[k]
        BY <1>4, <3>1
      <4> HIDE DEF minus, none
      <4>2. SumFunctionOnSet(g, D) = minus * SumFunctionOnSet(d, D) + none * SumFunctionOnSet(d, D)
        BY <1>1, <4>1, SumIsLinear
      <4> QED
        BY <4>2 DEF minus, none
    <3> QED
      BY <1>7, <3>1, <3>2, <3>3, <3>4
  <2> QED
    BY <1>5, <2>1, <2>3
<1>10. /\ IsFiniteSet(near) /\ IsFiniteSet(far) /\ near \cup far = D /\ near \cap far = {}
       /\ Cardinality(near) \in Nat /\ Cardinality(far) \in Nat
       /\ n = Cardinality(near) + Cardinality(far)
  <2>1. IsFiniteSet(near) /\ IsFiniteSet(far) /\ near \cup far = D /\ near \cap far = {}
    BY <1>1, <1>5, FS_Subset
  <2>2. Cardinality(near) \in Nat /\ Cardinality(far) \in Nat
    BY <2>1, FS_CardinalityType
  <2> HIDE DEF far
  <2>3. Cardinality(near \cup far)
          = Cardinality(near) + Cardinality(far) - Cardinality(near \cap far)
    BY <2>1, FS_Union
  <2>4. Cardinality(near \cap far) = 0
    BY <2>1, FS_EmptySet
  <2>5. Cardinality(near \cup far) = Cardinality(near) + Cardinality(far)
    <3> DEFINE a == Cardinality(near)
               b == Cardinality(far)
               c == Cardinality(near \cup far)
               z == Cardinality(near \cap far)
    <3>1. a \in Nat /\ b \in Nat /\ z = 0 /\ c = a + b - z
      BY <2>2, <2>3, <2>4
    <3> HIDE DEF a, b, c, z
    <3>2. c = a + b
      BY <3>1
    <3> QED
      BY <3>2 DEF a, b, c
  <2>6. n = Cardinality(near \cup far)
    BY <2>1, Zenon DEF n
  <2> QED
    BY <2>1, <2>2, <2>5, <2>6
<1> DEFINE k == Cardinality(near)
           m == Cardinality(far)
<1>11. m <= k
  <2>1. CASE m = 0
    BY <1>10, <2>1
  <2>2. CASE m # 0
    <3>0. far # {} /\ far \in SUBSET D /\ near \in SUBSET D
      BY <1>5, <2>2, FS_EmptySet
    <3> DEFINE Below == {-d[i] : i \in far}
    <3>1. PICK e \in Below : \A z \in Below : e <= z
      <4>1. Below \in SUBSET Nat /\ Below # {}
        BY <1>4, <1>5, <3>0
      <4> HIDE DEF Below
      <4> QED
        BY <4>1, LeastNumber
    <3>2. PICK y \in far : e = -d[y]
      BY <3>1
    <3>3. e \in Nat \ {0} /\ V <= e * e
      <4>1. d[y] \in Int /\ d[y] < 0 /\ d[y] * d[y] > V
        BY <1>4, <1>5, <3>0, <3>2
      <4> DEFINE z == d[y]
      <4>2. z \in Int /\ z < 0 /\ z * z > V /\ e = -z
        BY <3>2, <4>1
      <4> HIDE DEF z
      <4>3. e * e = z * z
        BY <4>2, SMTT(30)
      <4>4. z * z \in Int
        BY <4>2
      <4> QED
        BY <1>1, <4>2, <4>3, <4>4
    <3>4. \A i \in far : d[i] <= -e /\ d[i] \in Int
      <4>1. \A i \in far : e <= -d[i] /\ d[i] \in Int
        BY <1>4, <3>0, <3>1
      <4> QED
        BY <3>3, <4>1
    <3> DEFINE P == SumFunctionOnSet(d, near)
               R == SumFunctionOnSet(d, far)
               Qn == SumFunctionOnSet(dd, near)
               Qf == SumFunctionOnSet(dd, far)
               On == SumFunctionOnSet(one, near)
               Of == SumFunctionOnSet(one, far)
    <3>5. P \in Int /\ R \in Int /\ P + R = 0
      <4>1. SumFunctionOnSet(d, near \cup far) = P + R
        <5>1. \A i \in near \cup far : d[i] \in Int
          BY <1>4, <1>10
        <5> HIDE DEF far
        <5> QED
          BY <1>10, <5>1, SumOfUnion
      <4>2. \A i \in D : d[i] \in Int
        BY <1>4
      <4>3. P \in Int /\ R \in Int
        BY <1>10, <3>0, <4>2, SumTakes
      <4> QED
        BY <1>7, <1>10, <4>1, <4>3
    <3>6. Qn \in Nat /\ Qf \in Nat /\ Qn + Qf = n * V
      <4>1. SumFunctionOnSet(dd, near \cup far) = Qn + Qf
        <5>1. \A i \in near \cup far : dd[i] \in Int
          BY <1>a, <1>10
        <5> HIDE DEF far
        <5> QED
          BY <1>10, <5>1, SumOfUnion
      <4>2. Qn \in Nat /\ Qf \in Nat
        BY <1>a, <1>10, <3>0, SumIsPositive
      <4> QED
        BY <1>8, <1>10, <4>1, <4>2
    <3>7. On = k /\ Of = m
      <4>1. 1 \in Int /\ (\A i \in near : one[i] = 1) /\ (\A i \in far : one[i] = 1)
        BY <1>4, <3>0
      <4>2. On = 1 * k /\ Of = 1 * m
        BY <1>10, <4>1, SumOfEqual
      <4> QED
        BY <1>10, <4>2
    <3>8. R <= (-e) * m
      <4> DEFINE c == [i \in far |-> -e]
      <4>1. -e \in Int /\ \A i \in far : c[i] = -e /\ c[i] \in Int /\ d[i] \in Int /\ d[i] <= c[i]
        BY <3>3, <3>4
      <4> HIDE DEF c
      <4>2. R <= SumFunctionOnSet(c, far)
        BY <1>10, <4>1, SumIsMonotone
      <4>3. SumFunctionOnSet(c, far) = (-e) * m
        BY <1>10, <4>1, SumOfEqual
      <4> QED
        BY <4>2, <4>3
    <3>9. P * P <= Qn * k
      <4>1. Termwise(dd, d, d, near) /\ Termwise(one, one, one, near) /\ Termwise(d, d, one, near)
        BY <1>4, <3>0 DEF Termwise
      <4> QED
        BY <1>10, <3>7, <4>1, CauchySchwarz
    <3>10. R * R <= Qf * m
      <4>1. Termwise(dd, d, d, far) /\ Termwise(one, one, one, far) /\ Termwise(d, d, one, far)
        BY <1>4, <3>0 DEF Termwise
      <4> QED
        BY <1>10, <3>7, <4>1, CauchySchwarz
    <3> HIDE DEF P, R, Qn, Qf, On, Of
    <3>11. R = -P /\ R * R = P * P
      <4>1. R = -P
        BY <3>5
      <4>2. (-P) * (-P) = P * P
        BY <3>5, SMTT(30)
      <4> QED
        BY <4>1, <4>2
    <3> HIDE DEF k, m
    <3>12. m * e <= P
      <4>1. m \in Nat
        BY <1>10 DEF m
      <4>2. (-e) * m = -(m * e) /\ m * e \in Int
        BY <3>3, <4>1, SMTT(30)
      <4> QED
        BY <3>5, <3>8, <3>11, <4>2
    <3>13. V \in Nat
      <4>1. n * V \in Nat
        BY <3>6
      <4> QED
        BY <1>1, <1>3, <4>1, SMTT(30)
    <3>14. m \in Nat \ {0} /\ k \in Nat /\ n = m + k
      BY <1>10, <2>2 DEF m, k
    <3>15. Qn + Qf = (m + k) * V /\ P * P <= Qf * m
      BY <3>6, <3>10, <3>11, <3>14
    <3> QED
      BY <3>3, <3>5, <3>6, <3>9, <3>12, <3>13, <3>14, <3>15, FarAreFew
  <2> QED
    BY <2>1, <2>2
<1>12. 2 * k >= n
  BY <1>10, <1>11
<1> QED
  BY <1>9, <1>12 DEF n, D
=============================================================================
