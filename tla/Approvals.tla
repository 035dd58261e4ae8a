------------------------------ MODULE Approvals ------------------------------
(***************************************************************************)
(* The remote permission queue (lib/approvals.js) with everything that      *)
(* drives it: the PreToolUse hook that holds a tool call and waits on an    *)
(* HTTP long poll (hooks/orchestra-approve.js, POST /api/approvals), the    *)
(* deadline timer, the operator, stored and session rules, the sessions     *)
(* that end under it, and the server stopping or dying.                     *)
(***************************************************************************)
EXTENDS SessionStatus, FiniteSets

CONSTANTS
  Anonymous,    \* the session of a hook with no ORCHESTRA_SESSION_ID
  Calls,        \* what a call asks for: its tool and its match text
  Dirs,         \* working directories
  Anywhere,     \* the directory of a rule that has none
  Anything,     \* the pattern '*'
  Patterns,     \* how an operator words a rule: as "observed", or "typed"
  Policy,       \* what the repository's committed policy says of each call
  MaxPending,   \* MAX_PENDING
  MaxRules,     \* MAX_RULES
  Writes,       \* outcomes of writing the rules file
  NestedAgents  \* may a second agent inherit a session's ORCHESTRA_SESSION_ID?

ASSUME NamesAreDistinct ==
  /\ Anonymous \notin Sessions
  /\ Anywhere \notin Dirs
  /\ Anything \notin Calls
ASSUME SomethingToAsk == Calls # {} /\ Dirs # {}
ASSUME PatternsAssumption == Patterns \subseteq {"observed", "typed"}
ASSUME PolicyAssumption == Policy \in [Calls -> {"none", "allow", "deny", "ask"}]
ASSUME LimitsAssumption == MaxPending \in Nat /\ MaxRules \in Nat
ASSUME RequestsAreFinite == IsFiniteSet(Requests)
ASSUME SwitchesAssumption == Writes \subseteq BOOLEAN /\ NestedAgents \in BOOLEAN

VARIABLES
  sessions,      \* SessionManager.sessions: id -> what it shows
  up,            \* the server process is running
  nextId,        \* the id the next request gets
  ticket,        \* who asked, for what, from where
  pending,       \* pendingById; insertion order is id order
  timer,         \* the requests whose deadline timer is armed
  verdict,       \* the result a request was settled with
  conn,          \* the long poll's connection, as the server sees it
  hook,          \* what the blocked hook told Claude Code
  rules,         \* the persisted rules, in memory
  file,          \* the rules file
  dirty,         \* hit counters not yet written; the save timer is armed
  sessionRules   \* in-memory rules of each session

vars == <<sessions, up, nextId, ticket, pending, timer, verdict, conn, hook,
          rules, file, dirty, sessionRules>>
asking  == <<nextId, ticket>>
ruling  == <<rules, file, dirty, sessionRules>>
waiting == <<pending, timer, verdict, conn>>

Askers == Sessions \cup {Anonymous}
Ticket == [session: Askers, call: Calls, dir: Dirs]
Rule   == [id: Requests, call: Calls \cup {Anything}, dir: Dirs \cup {Anywhere},
           decision: {"allow", "deny"}]

Decisions == {"allow", "deny", "ask"}
Sources   == {"policy", "rule", "queue-full", "human", "timeout", "abandoned"}
NoVerdict == [decision |-> "none", source |-> "none"]
Verdict   == [decision: Decisions, source: Sources]

TypeOK ==
  /\ sessions \in [Sessions -> Session]
  /\ up \in BOOLEAN
  /\ nextId \in Nat \ {0}
  /\ ticket \in [Requests -> Ticket]
  /\ pending \in SUBSET Requests /\ Cardinality(pending) <= MaxPending
  /\ timer \in SUBSET Requests
  /\ verdict \in [Requests -> Verdict \cup {NoVerdict}]
  /\ conn \in [Requests -> {"none", "open", "answered", "closed", "reset"}]
  /\ hook \in [Requests -> Decisions \cup {"unsent", "waiting", "aside"}]
  /\ \A list \in {rules, file} :
       list \in SUBSET Rule /\ IsFiniteSet(list) /\ Cardinality(list) <= MaxRules
  /\ dirty \in BOOLEAN
  /\ sessionRules \in [Askers -> SUBSET Rule]

Init ==
  /\ sessions = [s \in Sessions |-> Absent]
  /\ up = TRUE
  /\ nextId = 1
  /\ ticket = [r \in Requests |-> CHOOSE t \in Ticket : TRUE]
  /\ pending = {}
  /\ timer = {}
  /\ verdict = [r \in Requests |-> NoVerdict]
  /\ conn = [r \in Requests |-> "none"]
  /\ hook = [r \in Requests |-> "unsent"]
  /\ rules = {}
  /\ file = {}
  /\ dirty = FALSE
  /\ sessionRules = [s \in Askers |-> {}]

-----------------------------------------------------------------------------
(* Rules.                                                                   *)

RuleMatches(u, t) ==
  /\ u.call \in {t.call, Anything}
  /\ u.dir \in {t.dir, Anywhere}

Candidates(t) == sessionRules[t.session] \cup rules

Matching(t, d) == {u \in Candidates(t) : u.decision = d /\ RuleMatches(u, t)}

(* Wrong on purpose: the first kind of rule found wins, allows first.       *)
AllowFirst(t) ==
  IF Matching(t, "allow") # {} THEN "allow"
  ELSE IF Matching(t, "deny") # {} THEN "deny" ELSE "none"

(* Denies are evaluated before allows.                                      *)
MatchedDecision(t) ==
  IF Matching(t, "deny") # {} THEN "deny"
  ELSE IF Matching(t, "allow") # {} THEN "allow" ELSE "none"

(* Session rules are tried first, and only a persisted rule's hit counter   *)
(* is worth a write.                                                        *)
HitsPersisted(t, d) == Matching(t, d) \cap sessionRules[t.session] = {}

(* The match text the request carried is matched literally; a pattern the   *)
(* operator typed is a glob, here the widest one. A folder left empty in    *)
(* the form is the request's own directory.                                 *)
BuildRule(r, d, pattern, folder) ==
  [id |-> r,
   call |-> IF pattern = "typed" THEN Anything ELSE ticket[r].call,
   dir |-> ticket[r].dir,
   decision |-> d]

(* A scope that cannot be honoured becomes `once`.                          *)
EffectiveScope(r, scope) ==
  IF \/ scope = "session" /\ ticket[r].session = Anonymous
     \/ scope = "always" /\ Cardinality(rules) >= MaxRules
  THEN "once" ELSE scope

(* Wrong on purpose: every save is put off to the batch timer.              *)
SaveLater(list) ==
  /\ dirty' = TRUE
  /\ file' = IF list = {} THEN list ELSE file

(* saveRules: the file is replaced whole or, when the write fails, not at   *)
(* all. Either way nothing is left to write.                                *)
SaveRules(list) ==
  /\ \E written \in Writes : file' = IF written THEN list ELSE file
  /\ dirty' = FALSE

-----------------------------------------------------------------------------
(* Settling.                                                                *)

PendingOf(s, P) == {r \in P : ticket[r].session = s}

Oldest(P) == CHOOSE r \in P : \A q \in P : r <= q

(* Wrong on purpose: answering one request unblocks its session.            *)
ClearQuestion(s, left) ==
  IF s = Anonymous THEN sessions
  ELSE [sessions EXCEPT ![s] = MarkSession(@, "busy", NoQuestion)]

(* Wrong on purpose: the next question is looked up before the settled one  *)
(* leaves the queue.                                                        *)
RemarkTooEarly(s, left) ==
  IF s = Anonymous THEN sessions
  ELSE [sessions EXCEPT ![s] =
          MarkSession(@, "awaiting-permission", Oldest(PendingOf(s, pending)))]

(* The session shows the next question still blocking it, or moves on.      *)
Remark(s, left) ==
  IF s = Anonymous THEN sessions
  ELSE [sessions EXCEPT ![s] =
          IF PendingOf(s, left) # {}
          THEN MarkSession(@, "awaiting-permission", Oldest(PendingOf(s, left)))
          ELSE MarkSession(@, "busy", NoQuestion)]

(* Wrong on purpose: the deadline of a settled request is left armed.       *)
SettleWithoutClear(r, d, source, connection) ==
  /\ pending' = pending \ {r}
  /\ timer' = timer
  /\ verdict' = [verdict EXCEPT ![r] = [decision |-> d, source |-> source]]
  /\ conn' = [conn EXCEPT ![r] = connection]
  /\ sessions' = Remark(ticket[r].session, pending \ {r})

Settle(r, d, source, connection) ==
  /\ pending' = pending \ {r}
  /\ timer' = timer \ {r}
  /\ verdict' = [verdict EXCEPT ![r] = [decision |-> d, source |-> source]]
  /\ conn' = [conn EXCEPT ![r] = connection]
  /\ sessions' = Remark(ticket[r].session, pending \ {r})

(* abandonSession and shutdown: every request of R is denied in one go.     *)
DenyAll(R) ==
  /\ pending' = pending \ R
  /\ timer' = timer \ R
  /\ verdict' = [r \in Requests |->
       IF r \in R THEN [decision |-> "deny", source |-> "timeout"] ELSE verdict[r]]
  /\ conn' = [r \in Requests |-> IF r \in R THEN "answered" ELSE conn[r]]

-----------------------------------------------------------------------------
(* A hook posts a request.                                                  *)

AnswerAtOnce(r, d, source) ==
  /\ verdict' = [verdict EXCEPT ![r] = [decision |-> d, source |-> source]]
  /\ conn' = [conn EXCEPT ![r] = "answered"]
  /\ UNCHANGED <<pending, timer, sessions>>

PolicyDecides(r, t) ==
  /\ Policy[t.call] \in {"allow", "deny"}
  /\ AnswerAtOnce(r, Policy[t.call], "policy")
  /\ UNCHANGED dirty

(* A policy that says "ask" keeps the stored rules out of it.               *)
RuleOf(t) == IF Policy[t.call] = "none" THEN MatchedDecision(t) ELSE "none"

NobodyDecides(t) == Policy[t.call] \in {"none", "ask"} /\ RuleOf(t) = "none"

RuleDecides(r, t) ==
  /\ RuleOf(t) # "none"
  /\ AnswerAtOnce(r, RuleOf(t), "rule")
  /\ dirty' = (dirty \/ HitsPersisted(t, RuleOf(t)))

QueueIsFull(r, t) ==
  /\ NobodyDecides(t)
  /\ Cardinality(pending) >= MaxPending
  /\ AnswerAtOnce(r, "ask", "queue-full")
  /\ UNCHANGED dirty

(* Wrong on purpose: the queue takes one request more than its limit.       *)
EnqueueOneMore(r, t) ==
  /\ NobodyDecides(t)
  /\ Cardinality(pending) <= MaxPending
  /\ pending' = pending \cup {r}
  /\ timer' = timer \cup {r}
  /\ conn' = [conn EXCEPT ![r] = "open"]
  /\ UNCHANGED <<verdict, dirty, sessions>>

(* Wrong on purpose: no deadline is armed.                                  *)
EnqueueForEver(r, t) ==
  /\ NobodyDecides(t)
  /\ Cardinality(pending) < MaxPending
  /\ pending' = pending \cup {r}
  /\ conn' = [conn EXCEPT ![r] = "open"]
  /\ UNCHANGED <<verdict, dirty, sessions, timer>>

Enqueue(r, t) ==
  /\ NobodyDecides(t)
  /\ Cardinality(pending) < MaxPending
  /\ pending' = pending \cup {r}
  /\ timer' = timer \cup {r}
  /\ conn' = [conn EXCEPT ![r] = "open"]
  /\ sessions' = IF t.session = Anonymous THEN sessions
                 ELSE [sessions EXCEPT ![t.session] =
                         MarkSession(@, "awaiting-permission", r)]
  /\ UNCHANGED <<verdict, dirty>>

(* A hook carries the id of the session it was started in, even after that  *)
(* session ended.                                                           *)
Request(r, t) ==
  /\ up
  /\ r = nextId
  /\ t.session # Anonymous => sessions[t.session].status # "absent"
  /\ nextId' = nextId + 1
  /\ ticket' = [ticket EXCEPT ![r] = t]
  /\ hook' = [hook EXCEPT ![r] = "waiting"]
  /\ \/ PolicyDecides(r, t)
     \/ RuleDecides(r, t)
     \/ QueueIsFull(r, t)
     \/ Enqueue(r, t)
  /\ UNCHANGED <<up, rules, file, sessionRules>>

-----------------------------------------------------------------------------
(* A pending request ends.                                                  *)

Scopes   == {"once", "session", "always"}
Folders  == {"unset", "empty"}

Decide(r, d, scope, pattern, folder) ==
  LET u    == BuildRule(r, d, pattern, folder)
      kept == EffectiveScope(r, scope)
      s    == ticket[r].session
  IN /\ up
     /\ r \in pending
     /\ sessionRules' = IF kept = "session"
                        THEN [sessionRules EXCEPT ![s] = @ \cup {u}]
                        ELSE sessionRules
     /\ IF kept = "always"
        THEN rules' = rules \cup {u} /\ SaveRules(rules')
        ELSE UNCHANGED <<rules, file, dirty>>
     /\ Settle(r, d, "human", "answered")
     /\ UNCHANGED <<up, asking, hook>>

Timeout(r) ==
  /\ up
  /\ r \in timer
  /\ r \in pending
  /\ Settle(r, "deny", "timeout", "answered")
  /\ UNCHANGED <<up, asking, hook, ruling>>

(* The long poll's connection closed before the answer was written.         *)
OnClose(r) ==
  /\ up
  /\ conn[r] = "open"
  /\ hook[r] = "aside"
  /\ Settle(r, "deny", "abandoned", "closed")
  /\ UNCHANGED <<up, asking, hook, ruling>>

-----------------------------------------------------------------------------
(* The hook process.                                                        *)

(* The response arrives and the hook prints the decision it carries.        *)
HookReceives(r) ==
  /\ conn[r] = "answered"
  /\ hook[r] = "waiting"
  /\ hook' = [hook EXCEPT ![r] = verdict[r].decision]
  /\ UNCHANGED <<sessions, up, asking, waiting, ruling>>

(* Wrong on purpose: an unreachable server counts as consent.               *)
HookFailsOpen(r) ==
  /\ conn[r] = "reset"
  /\ hook[r] = "waiting"
  /\ hook' = [hook EXCEPT ![r] = "allow"]
  /\ UNCHANGED <<sessions, up, asking, waiting, ruling>>

(* The server died holding the connection.                                  *)
HookLosesServer(r) ==
  /\ conn[r] = "reset"
  /\ hook[r] = "waiting"
  /\ hook' = [hook EXCEPT ![r] = "aside"]
  /\ UNCHANGED <<sessions, up, asking, waiting, ruling>>

(* The agent is interrupted or killed, or the hook's own deadline passes:   *)
(* the hook stands aside and the connection goes with it.                   *)
HookGivesUp(r) ==
  /\ hook[r] = "waiting"
  /\ hook' = [hook EXCEPT ![r] = "aside"]
  /\ UNCHANGED <<sessions, up, asking, waiting, ruling>>

-----------------------------------------------------------------------------
(* Sessions. A session's end settles its requests inside the same handler:  *)
(* the queue listens to 'exit' and to 'closed'.                             *)

CreateSession(s) ==
  /\ up
  /\ sessions[s].status = "absent"
  /\ sessions' = [sessions EXCEPT ![s] = Spawned]
  /\ UNCHANGED <<up, asking, waiting, hook, ruling>>

(* An agent held in a hook fires nothing that starts or ends a turn. A      *)
(* second agent carrying the same session id may.                           *)
Blocked(s) == \E r \in PendingOf(s, pending) : hook[r] = "waiting"

HookEvent(s, event) ==
  /\ up
  /\ Known(sessions[s])
  /\ Blocked(s) /\ event \in Unconditional => NestedAgents
  /\ sessions' = [sessions EXCEPT ![s] = Apply(@, event)]
  /\ UNCHANGED <<up, asking, waiting, hook, ruling>>

PtyOutput(s) ==
  /\ up
  /\ s \in Shells
  /\ sessions[s].status \in Live
  /\ sessions' = [sessions EXCEPT ![s] = MarkActivity(@)]
  /\ UNCHANGED <<up, asking, waiting, hook, ruling>>

IdleTimer(s) ==
  /\ up
  /\ sessions[s].idleTimer
  /\ sessions' = [sessions EXCEPT ![s] = IdleTimerFires(@)]
  /\ UNCHANGED <<up, asking, waiting, hook, ruling>>

AbandonSession(s) ==
  /\ DenyAll(PendingOf(s, pending))
  /\ sessionRules' = [sessionRules EXCEPT ![s] = {}]

(* Wrong on purpose: the dead session goes on showing its question.         *)
ExitStillAsking(s) ==
  /\ up
  /\ sessions[s].status \in Live
  /\ AbandonSession(s)
  /\ sessions' = [sessions EXCEPT ![s] = Exited(@)]
  /\ UNCHANGED <<up, asking, hook, rules, file, dirty>>

Exit(s) ==
  /\ up
  /\ sessions[s].status \in Live
  /\ AbandonSession(s)
  /\ sessions' = [sessions EXCEPT ![s] =
       IF PendingOf(s, pending) = {} THEN Exited(@)
       ELSE MarkSession(Exited(@), "busy", NoQuestion)]
  /\ UNCHANGED <<up, asking, hook, rules, file, dirty>>

Close(s) ==
  /\ up
  /\ Known(sessions[s])
  /\ AbandonSession(s)
  /\ sessions' = [sessions EXCEPT ![s] = Gone]
  /\ UNCHANGED <<up, asking, hook, rules, file, dirty>>

-----------------------------------------------------------------------------
(* Housekeeping, stop and restart.                                          *)

DeleteRule(u) ==
  /\ up
  /\ u \in rules
  /\ rules' = rules \ {u}
  /\ SaveRules(rules')
  /\ UNCHANGED <<sessions, up, asking, waiting, hook, sessionRules>>

SaveHits ==
  /\ up
  /\ dirty
  /\ SaveRules(rules)
  /\ UNCHANGED <<sessions, up, asking, waiting, hook, rules, sessionRules>>

Orphaned(s) == s \in Sessions /\ ~Known(sessions[s]) /\ sessionRules[s] # {}

(* Wrong on purpose: the purge looks at sessions that are still known.      *)
PurgeKnown ==
  /\ up
  /\ \E s \in Sessions : Orphaned(s)
  /\ sessionRules' = [s \in Askers |->
       IF s \in Sessions /\ Known(sessions[s]) THEN {} ELSE sessionRules[s]]
  /\ UNCHANGED <<sessions, up, asking, waiting, hook, rules, file, dirty>>

Purge ==
  /\ up
  /\ \E s \in Sessions : Orphaned(s)
  /\ sessionRules' = [s \in Askers |-> IF Orphaned(s) THEN {} ELSE sessionRules[s]]
  /\ UNCHANGED <<sessions, up, asking, waiting, hook, rules, file, dirty>>

Forget ==
  /\ up' = FALSE
  /\ sessions' = [s \in Sessions |->
                    IF Known(sessions[s]) THEN Gone ELSE sessions[s]]
  /\ rules' = {}
  /\ dirty' = FALSE
  /\ sessionRules' = [s \in Askers |-> {}]
  /\ UNCHANGED <<asking, hook>>

(* A clean stop denies what is pending and writes the counters it owes.     *)
Shutdown ==
  /\ up
  /\ DenyAll(pending)
  /\ IF dirty
     THEN \E written \in Writes : file' = IF written THEN rules ELSE file
     ELSE UNCHANGED file
  /\ Forget

Crash ==
  /\ up
  /\ pending' = {}
  /\ timer' = {}
  /\ conn' = [r \in Requests |-> IF r \in pending THEN "reset" ELSE conn[r]]
  /\ UNCHANGED <<verdict, file>>
  /\ Forget

(* loadRules.                                                               *)
Restart ==
  /\ ~up
  /\ up' = TRUE
  /\ rules' = file
  /\ UNCHANGED <<sessions, asking, waiting, hook, file, dirty, sessionRules>>

-----------------------------------------------------------------------------
Next ==
  \/ \E r \in Requests, t \in Ticket : Request(r, t)
  \/ \E r \in Requests, d \in {"allow", "deny"}, scope \in Scopes,
        pattern \in Patterns, folder \in Folders :
          Decide(r, d, scope, pattern, folder)
  \/ \E r \in Requests : \/ Timeout(r) \/ OnClose(r) \/ HookReceives(r)
                         \/ HookLosesServer(r) \/ HookGivesUp(r)
  \/ \E s \in Sessions : \/ CreateSession(s) \/ PtyOutput(s) \/ IdleTimer(s)
                         \/ Exit(s) \/ Close(s)
  \/ \E s \in Sessions, event \in HookEvents : HookEvent(s, event)
  \/ \E u \in rules : DeleteRule(u)
  \/ SaveHits \/ Purge \/ Shutdown \/ Crash \/ Restart

(* The deadline timer fires, a written response arrives, a dead peer is     *)
(* noticed, the purge interval runs. Nothing is assumed of operators,       *)
(* agents or crashes.                                                       *)
Fairness ==
  /\ \A r \in Requests : /\ WF_vars(Timeout(r))
                         /\ WF_vars(HookReceives(r))
                         /\ WF_vars(HookLosesServer(r))
  /\ WF_vars(Purge)

SafetySpec == Init /\ [][Next]_vars
Spec == SafetySpec /\ Fairness

-----------------------------------------------------------------------------
(* Properties.                                                              *)

(* A request is open everywhere or nowhere: while it is in the queue its    *)
(* deadline is armed, its connection is held and nothing is decided; once   *)
(* any of the racing ends (operator, deadline, disconnect, session end,     *)
(* stop) settled it, none of the others finds it (settle, onClose).         *)
OpenEverywhereOrNowhere ==
  \A r \in Requests :
    /\ r \in pending <=> r \in timer
    /\ r \in pending <=> conn[r] = "open"
    /\ r \in pending => up /\ verdict[r] = NoVerdict
    /\ conn[r] = "answered" => verdict[r] # NoVerdict

(* While a hook is blocking a live agent, its session is reported as        *)
(* blocked (approvals.js settle, hook-bus.js _setStatusUnlessBlocked).      *)
BlockedIsShown ==
  \A s \in Sessions :
    sessions[s].status \in Live /\ Blocked(s)
      => sessions[s].status = "awaiting-permission"

(* And never without a cause: a session reported as blocked has a request   *)
(* an operator can still answer (markSession).                              *)
NoFalseBlock ==
  \A s \in Sessions :
    sessions[s].status = "awaiting-permission" => PendingOf(s, pending) # {}

(* The question a session shows is never that of a request already settled. *)
NoStaleQuestion ==
  \A s \in Sessions :
    sessions[s].question \in Requests => sessions[s].question \in pending

(* What restarting would load is what is in force now: a decision to always *)
(* allow or deny survives a crash at any moment (addRule, deleteRule).      *)
RulesAreOnDisk == up => file = rules

(* Without a human, a call is allowed only by a policy that says so, or by a *)
(* stored rule when the policy is silent and no deny rule covers the call,  *)
(* whatever order the rules were made in (request, matchRule).              *)
DenyOutranksAllow ==
  [][\A r \in Requests :
       /\ verdict[r] = NoVerdict
       /\ verdict'[r].decision = "allow"
       /\ r \notin pending
       => LET t     == ticket'[r]
              known == sessionRules[t.session] \cup rules
              Covers(u) == /\ u.call \in {t.call, Anything}
                           /\ u.dir \in {t.dir, Anywhere}
          IN \/ Policy[t.call] = "allow"
             \/ /\ Policy[t.call] = "none"
                /\ \E u \in known : u.decision = "allow" /\ Covers(u)
                /\ \A u \in known : Covers(u) => u.decision = "allow"]_vars

(* The queue, its timers, its rules and its sessions implement the gate: an *)
(* answer is given once, never changed, and the hook acts on it or on none. *)
Gate == INSTANCE PermissionGate WITH
          answer <- [r \in Requests |-> verdict[r].decision],
          tool <- hook

ImplementsGate == Gate!Spec

(* No tool call is held for ever, whatever the operator does.               *)
NoHookHangs ==
  \A r \in Requests : hook[r] = "waiting" ~> hook[r] # "waiting"

(* "For this session" ends with the session, also when the decision comes   *)
(* after it (abandonSession, purge).                                        *)
ConsentDiesWithSession ==
  \A s \in Sessions :
    sessions[s].status = "gone" ~> sessionRules[s] = {} \/ PendingOf(s, pending) # {}
==============================================================================
