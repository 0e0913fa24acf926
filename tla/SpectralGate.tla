----------------------------- MODULE SpectralGate -----------------------------
(***************************************************************************)
(* The two gates of spectral_energy.py, which decide per block and head    *)
(* what is retained.  The keys of a block and head are a column of N       *)
(* numbers per dimension, a query is a number per dimension.               *)
(*                                                                         *)
(* Bounds, logits and tau are whole: they are scaled by N * sqrt(d), which *)
(* changes no comparison, and the blocks and queries are those whose norms *)
(* are whole.  The 1e-6 of the ratio keeps 0 / 0 at 0.                     *)
(***************************************************************************)
EXTENDS WalshHadamard, FiniteSetsExt

CONSTANTS
  Blocks,      \* the different blocks of one head
  Keys,        \* block -> dimension -> the column of its keys
  QuerySets,   \* the queries of one head that a call may pass
  NoTau        \* tau=None

Dims == DOMAIN Keys[CHOOSE b \in Blocks : TRUE]

ASSUME InputsAreWhole ==
  /\ IsFiniteSet(Dims)
  /\ \A b \in Blocks : Keys[b] \in [Dims -> [Tokens -> Int]]
  /\ \A queries \in QuerySets :
       IsFiniteSet(queries) /\ queries # {} /\ queries \subseteq [Dims -> Int]

-----------------------------------------------------------------------------
\* _run_fwht_on_blocks: every column of a block on its own.
Spectrum == [b \in Blocks |-> [d \in Dims |-> Transform(Keys[b][d])]]

\* The energy of a block in a band, over all its dimensions.
BandEnergy(b, band) == Total([d \in Dims |-> Energy(Spectrum[b][d], band)])

\* zeta <= zeta_max, zeta = high / (low + 1e-6)
Coherent(b, zetaMax) == BandEnergy(b, HighBand) <= zetaMax * BandEnergy(b, LowBand)

Dot(u, v) == Total([d \in Dims |-> u[d] * v[d]])

IsSquare(n) == \E r \in 0 .. n : r * r = n
Root(n)     == CHOOSE r \in 0 .. n : r * r = n

\* The AC part of a block: how far its keys are from their mean.
Residual(b) == N * BandEnergy(b, Tokens \ {0})

ASSUME NormsAreWhole ==
  /\ \A b \in Blocks : IsSquare(Residual(b))
  /\ \A queries \in QuerySets : \A q \in queries : IsSquare(Dot(q, q))

\* q . mean
Alignment(q, b) == Dot(q, [d \in Dims |-> Spectrum[b][d][0]])

\* Faulty variant of LogitBound: the deviation from the mean is forgotten.
MeanBound(q, b) == Alignment(q, b)

\* compute_query_aware_bounds: q . mean + |q| |AC|
LogitBound(q, b) == Alignment(q, b) + Root(Dot(q, q)) * Root(Residual(b))

\* jnp.max(bounds, axis=0)
MaxBound ==
  [queries \in QuerySets |-> [b \in Blocks |-> Max({LogitBound(q, b) : q \in queries})]]

-----------------------------------------------------------------------------
\* n^2 times the variance of n scores, and n times the distance of one of them
\* from their mean.
Spread(scores) ==
  Cardinality(DOMAIN scores) * Energy(scores, DOMAIN scores) - Total(scores) * Total(scores)

FromMean(score, scores) == Cardinality(DOMAIN scores) * score - Total(scores)

\* Faulty variant of AutoTauAtMost: mean + 1 sigma.
AutoTauAbove(score, scores) ==
  LET d == FromMean(score, scores) IN d >= 0 /\ d * d >= Spread(scores)

\* _compute_auto_tau: the score is at least mean - 1 sigma of the scores.
AutoTauAtMost(score, scores) ==
  LET d == FromMean(score, scores) IN d >= 0 \/ d * d <= Spread(scores)

\* A tau that was passed is compared, tau=None compares with the bounds.
TauAtMost(tau, score, scores) ==
  IF tau = NoTau THEN AutoTauAtMost(score, scores) ELSE N * tau <= score

\* The bound of every block and head of a cache.
Scores(queries, cache) ==
  [i \in (DOMAIN cache) \X (DOMAIN queries) |-> MaxBound[queries[i[2]]][cache[i[1]][i[2]]]]

\* compute_multiband_mask: both gates must pass.
MultibandMask(queries, cache, tau, zetaMax) ==
  LET scores == Scores(queries, cache) IN
  [b \in DOMAIN cache |-> [hd \in DOMAIN queries |->
     /\ TauAtMost(tau, scores[<<b, hd>>], scores)
     /\ Coherent(cache[b][hd], zetaMax)]]
=============================================================================
