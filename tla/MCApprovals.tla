----------------------------- MODULE MCApprovals -----------------------------
(* Small instances of Approvals for TLC. *)
EXTENDS Approvals, TLC

CONSTANTS unruled, asked, allowed

(* One call the policy is silent on, one it wants asked, one it allows.     *)
MCPolicy ==
  [c \in Calls |-> CASE c = unruled -> "none"
                     [] c = asked   -> "ask"
                     [] c = allowed -> "allow"]
==============================================================================
