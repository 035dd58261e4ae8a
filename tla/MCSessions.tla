------------------------------ MODULE MCSessions ------------------------------
(* SessionManager for TLC: ids that are never told apart.                   *)
EXTENDS SessionManager, TLC

Symmetry == Permutations(Ids)
==============================================================================
