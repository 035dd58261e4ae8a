--------------------------- MODULE PermissionGate ---------------------------
(***************************************************************************)
(* What the remote permission queue promises an agent, with no queue, no    *)
(* rules, no timers and no sessions in it. A tool call that asks is held    *)
(* until it is answered or until its hook stands aside and leaves it to     *)
(* Claude Code's own prompt. An answer is given once and never changed; the *)
(* hook acts on that answer or on none. Many calls may be denied in one     *)
(* step (a session ends, the server stops), but permission is granted to    *)
(* one call at a time, and a call handed back to the terminal was handed    *)
(* back the moment it asked.                                                *)
(***************************************************************************)
CONSTANT Requests

VARIABLES
  answer,   \* what was decided for each request
  tool      \* where the hook blocking the tool call stands

vars == <<answer, tool>>

Answers == {"allow", "deny", "ask"}

TypeOK ==
  /\ answer \in [Requests -> Answers \cup {"none"}]
  /\ tool \in [Requests -> Answers \cup {"unsent", "waiting", "aside"}]

Init ==
  /\ answer = [r \in Requests |-> "none"]
  /\ tool = [r \in Requests |-> "unsent"]

(* The call is made. A policy, a rule or a full queue may answer on the spot. *)
Ask(r) ==
  /\ tool[r] = "unsent"
  /\ tool' = [tool EXCEPT ![r] = "waiting"]
  /\ \E a \in Answers \cup {"none"} : answer' = [answer EXCEPT ![r] = a]

Open(r) == tool[r] # "unsent" /\ answer[r] = "none"

Grant(r) ==
  /\ Open(r)
  /\ answer' = [answer EXCEPT ![r] = "allow"]
  /\ UNCHANGED tool

Refuse(R) ==
  /\ \A r \in R : Open(r)
  /\ answer' = [r \in Requests |-> IF r \in R THEN "deny" ELSE answer[r]]
  /\ UNCHANGED tool

Deliver(r) ==
  /\ tool[r] = "waiting"
  /\ answer[r] # "none"
  /\ tool' = [tool EXCEPT ![r] = answer[r]]
  /\ UNCHANGED answer

StandAside(r) ==
  /\ tool[r] = "waiting"
  /\ tool' = [tool EXCEPT ![r] = "aside"]
  /\ UNCHANGED answer

Next ==
  \/ \E r \in Requests : Ask(r) \/ Grant(r) \/ Deliver(r) \/ StandAside(r)
  \/ \E R \in SUBSET Requests : Refuse(R)

Spec == Init /\ [][Next]_vars
==============================================================================
