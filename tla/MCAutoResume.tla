------------------------------ MODULE MCAutoResume ------------------------------
(***************************************************************************)
(* Two instances of AutoResume in one run. One session alone, with as many  *)
(* attempts as tell a retry from a last try, and a quota snapshot that may  *)
(* take a turn of the event loop: presses and sweeps hold plans across it.  *)
(* And two sessions whose plans fall due in one sweep or in several, with   *)
(* the snapshot cached: what the stagger is there for. (Their one attempt   *)
(* is fewer than HandfulOfAttempts allows here: that is the first's.)       *)
(***************************************************************************)
EXTENDS AutoResume, TLC

CONSTANTS Two, Few   \* the sessions and the handles of the second instance

Pair == INSTANCE AutoResume
          WITH Sessions <- Two, Handles <- Few, SlowQuota <- FALSE, MaxAttempts <- 1

MCInit == Init \/ Pair!Init
MCNext == IF DOMAIN status = Sessions THEN Next ELSE Pair!Next
MCSpec == MCInit /\ [][MCNext]_vars

Symmetry == Permutations(Two)
==============================================================================
