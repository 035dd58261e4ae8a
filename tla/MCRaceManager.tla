----------------------------- MODULE MCRaceManager -----------------------------
(* Model checking of RaceManager. Nothing in it tells two variants or two    *)
(* requests apart.                                                           *)
EXTENDS RaceManager, TLC

Symmetry == Permutations(Variants) \cup Permutations(Requests)
==============================================================================
