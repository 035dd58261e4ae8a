------------------------------- MODULE Policy -------------------------------
(***************************************************************************)
(* lib/policy.js: the .orchestra-policy.json of a repository. It is looked   *)
(* for from a working directory upward, remembered per working directory for *)
(* a while, and asked before any stored rule about every tool call. The      *)
(* directories are one chain, 1 the root; the file system changes at will.   *)
(***************************************************************************)
EXTENDS Naturals, Sequences, FiniteSetsExt

CONSTANTS
  Deepest,     \* directories 1..Deepest, the parent of d is d - 1
  Cwds,        \* those that are the working directory of a session
  Calls,       \* a tool with its match text
  Documents,   \* what can be at the place of the file
  MaxDepth, MaxRules, TTL,  \* MAX_DEPTH, MAX_RULES, CACHE_TTL_MS
  MaxEdits     \* bound: edits of the file system

VARIABLES
  file,        \* directory -> what is at its .orchestra-policy.json
  sinceEdit,   \* history: directory -> how long ago that changed, up to TTL
  edits,       \* how often anything did
  trustAllow,  \* ORCHESTRA_TRUST_REPO_POLICY
  cache,       \* _cache: working directory -> [age, policy], of age TTL when out of use
  said         \* history: what evaluate() answered last, at this instant

pvars == <<file, sinceEdit, edits, trustAllow, cache, said>>

Dirs == 1..Deepest

(* What is there: nothing, a folder, a file too large, one that may not be   *)
(* read, one that is not JSON, or a document.                                *)
Absent == [kind |-> "absent", rules |-> <<>>, default |-> "none"]
Broken == [kind |-> "broken", rules |-> <<>>, default |-> "ask"]

(* parsePolicy, normalizeRule: the rules beyond the limit are cut off first,  *)
(* a malformed one is dropped on its own, and so is a malformed default.     *)
Decisions == {"allow", "deny", "ask"}
parsePolicy(doc) ==
  [kind |-> "policy",
   rules |-> [i \in {j \in DOMAIN doc.rules : j <= MaxRules /\ doc.rules[j].decision \in Decisions}
                |-> doc.rules[i]],
   default |-> IF doc.default \in Decisions THEN doc.default ELSE "none"]

(* _find: the first entry upward decides, whatever it is. Only a document    *)
(* that is not JSON is held to be stricter than none.                        *)
_find(cwd) ==
  LET near == {d \in Dirs : d <= cwd /\ cwd - d < MaxDepth /\ file[d].kind # "absent"}
      there == file[Max(near)]
  IN IF near = {} \/ there.kind \in {"folder", "large", "sealed"} THEN Absent
     ELSE IF there.kind = "garbled" THEN Broken ELSE parsePolicy(there)

(* forCwd: the remembered policy until it is as old as CACHE_TTL_MS.         *)
SlidingFor(cwd) ==  \* mutant: a lookup makes what it finds young again
  [age |-> 0, policy |-> IF cache[cwd].age < TTL THEN cache[cwd].policy ELSE _find(cwd)]
forCwd(cwd) ==
  IF cache[cwd].age < TTL THEN cache[cwd] ELSE [age |-> 0, policy |-> _find(cwd)]

(* evaluate: every deny before every allow before every ask, then the        *)
(* default; an allow counts only where the operator trusts repositories.      *)
evaluate(policy, call) ==
  LET some(decision) == \E i \in DOMAIN policy.rules :
                          policy.rules[i].decision = decision /\ call \in policy.rules[i].covers
  IN IF some("deny") THEN "deny"
     ELSE IF trustAllow /\ some("allow") THEN "allow"
     ELSE IF some("ask") THEN "ask"
     ELSE IF policy.default = "allow" /\ ~trustAllow THEN "none" ELSE policy.default

Forgotten == [age |-> TTL, policy |-> Absent]
Silent == [cwd |-> 0, call |-> CHOOSE c \in Calls : TRUE, answer |-> "none"]
Init ==
  /\ file \in [Dirs -> {Absent} \cup {CHOOSE d \in Documents : d.kind = "policy"}]
  /\ sinceEdit = [d \in Dirs |-> TTL] /\ edits = 0 /\ trustAllow \in BOOLEAN
  /\ cache = [c \in Cwds |-> Forgotten] /\ said = Silent

Evaluates(cwd, call) ==
  LET found == forCwd(cwd)
  IN /\ cache' = [cache EXCEPT ![cwd] = found]
     /\ said' = [cwd |-> cwd, call |-> call, answer |-> evaluate(found.policy, call)]
     /\ UNCHANGED <<file, sinceEdit, edits, trustAllow>>

(* The budget guard asks for the cap of the directory of a session: the      *)
(* lookup is the same one, and fills the same memory.                        *)
budgetForCwd(cwd) ==
  /\ cache' = [cache EXCEPT ![cwd] = forCwd(cwd)] /\ said' = Silent
  /\ UNCHANGED <<file, sinceEdit, edits, trustAllow>>

(* GET /policy forgets every lookup (invalidate) and describes one directory. *)
describe(cwd) ==
  /\ cache' = [c \in Cwds |-> IF c = cwd THEN [age |-> 0, policy |-> _find(cwd)] ELSE Forgotten]
  /\ said' = Silent /\ UNCHANGED <<file, sinceEdit, edits, trustAllow>>

Edits(d, doc) ==
  /\ edits < MaxEdits /\ file[d] # doc /\ edits' = edits + 1
  /\ file' = [file EXCEPT ![d] = doc] /\ sinceEdit' = [sinceEdit EXCEPT ![d] = 0]
  /\ said' = Silent /\ UNCHANGED <<trustAllow, cache>>

Tick ==
  /\ sinceEdit' = [d \in Dirs |-> IF sinceEdit[d] < TTL THEN sinceEdit[d] + 1 ELSE TTL]
  /\ cache' = [c \in Cwds |-> IF cache[c].age + 1 < TTL THEN [cache[c] EXCEPT !.age = cache[c].age + 1]
                                ELSE Forgotten]
  /\ said' = Silent /\ UNCHANGED <<file, edits, trustAllow>>

Next ==
  \/ \E cwd \in Cwds, call \in Calls : Evaluates(cwd, call)
  \/ \E cwd \in Cwds : budgetForCwd(cwd)
  \/ \E cwd \in Cwds : describe(cwd)
  \/ \E d \in Dirs, doc \in Documents \cup {Absent} : Edits(d, doc)
  \/ Tick
Spec == Init /\ [][Next]_pvars

------------------------------------------------------------------------------
(* The document that governs a directory, and whether nothing around it      *)
(* changed for as long as a lookup may be remembered.                         *)
Governing(cwd) ==
  LET near == {d \in Dirs : d <= cwd /\ cwd - d < MaxDepth /\ file[d].kind # "absent"}
  IN IF near = {} THEN Absent ELSE file[Max(near)]
Settled(cwd) == \A d \in Dirs : d <= cwd => sinceEdit[d] = TTL

(* A committed policy binds: once its edit has settled, a call that one of   *)
(* its deny rules covers is denied, wherever the rule stands and whatever    *)
(* else the file says; a file that is no JSON has every call asked; and a     *)
(* file that the operator does not trust never allows anything.               *)
PolicyBinds ==
  (said.cwd # 0 /\ Settled(said.cwd)) =>
    LET doc == Governing(said.cwd)
    IN /\ (\E i \in DOMAIN doc.rules : /\ i <= MaxRules /\ doc.rules[i].decision = "deny"
                                       /\ said.call \in doc.rules[i].covers)
            => said.answer = "deny"
       /\ doc.kind = "garbled" => said.answer = "ask"
       /\ said.answer = "allow" => trustAllow
============================================================================
