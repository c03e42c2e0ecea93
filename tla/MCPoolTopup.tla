----------------------------- MODULE MCPoolTopup -----------------------------
(* PoolTopup on one key.  Top-ups are interchangeable, and so are the relay *)
(* requests and the runs of the reset; no property tells them apart.        *)
EXTENDS PoolTopup, TLC

Symmetry ==
  Permutations(Topups) \cup Permutations(Resetters) \cup Permutations(Spenders)

\* Bound: a behaviour has faults or lives to see a reset, not both.
FaultsOrResets == period = 0 \/ faults = 0
=============================================================================
