--------------------------- MODULE ApprovalsProofs ---------------------------
(***************************************************************************)
(* Theorems about the permission queue, for every number of sessions,       *)
(* requests, rules and queue slots, and their proofs.                       *)
(***************************************************************************)
EXTENDS Approvals, TLAPS, FiniteSetTheorems, WellFoundedInduction

-----------------------------------------------------------------------------
(* Facts about the operators the queue is built from.                       *)

(* The oldest of some requests is one of them (_nextPendingFor).            *)
LEMMA OldestIsOneOfThem ==
  ASSUME NEW P, P \subseteq Requests, P # {}
  PROVE  Oldest(P) \in P /\ \A q \in P : Oldest(P) <= q
<1>1. P \subseteq Nat
  BY RequestsAreNumbered
<1>2. PICK x \in P : \A y \in P : ~ (<<y, x>> \in OpToRel(<, Nat))
  <2>1. IsWellFoundedOn(OpToRel(<, Nat), Nat)
    BY NatLessThanWellFounded
  <2> QED
    BY <1>1, <2>1, WFMin
<1>3. \A y \in P : x <= y
  <2> SUFFICES ASSUME NEW y \in P PROVE x <= y
    OBVIOUS
  <2>1. x \in Nat /\ y \in Nat
    BY <1>1
  <2>2. ~ (y < x)
    BY <1>2, <2>1 DEF OpToRel
  <2> QED
    BY <2>1, <2>2
<1> QED
  BY <1>3 DEF Oldest

(* What a session record becomes is again one (setStatus, markActivity).    *)
LEMMA StatusOperatorsReturnSessions ==
  /\ Absent \in Session /\ Spawned \in Session /\ Gone \in Session
  /\ \A x \in Session :
       /\ MarkActivity(x) \in Session
       /\ IdleTimerFires(x) \in Session
       /\ Exited(x) \in Session
       /\ \A q \in Question : /\ MarkSession(x, "busy", q) \in Session
                              /\ MarkSession(x, "awaiting-permission", q) \in Session
       /\ \A event \in HookEvents : Apply(x, event) \in Session
<1>1. Absent \in Session /\ Spawned \in Session /\ Gone \in Session
  BY DEF Absent, Spawned, Gone, Session, Status, Live, Question
<1> SUFFICES ASSUME NEW x \in Session
             PROVE  /\ MarkActivity(x) \in Session
                    /\ IdleTimerFires(x) \in Session
                    /\ Exited(x) \in Session
                    /\ \A q \in Question :
                         /\ MarkSession(x, "busy", q) \in Session
                         /\ MarkSession(x, "awaiting-permission", q) \in Session
                    /\ \A event \in HookEvents : Apply(x, event) \in Session
  BY <1>1
<1>2. /\ MarkActivity(x) \in Session
      /\ IdleTimerFires(x) \in Session
      /\ Exited(x) \in Session
  BY DEF MarkActivity, IdleTimerFires, Exited, Session, Status, Live
<1>3. \A status \in Status, q \in Question :
        /\ SetStatus(x, status, q) \in Session
        /\ SetStatusUnlessBlocked(x, status, q) \in Session
  BY DEF SetStatus, SetStatusUnlessBlocked, Session
<1>4. "busy" \in Status /\ "awaiting-permission" \in Status
  BY DEF Status, Live
<1>5. \A q \in Question :
        /\ MarkSession(x, "busy", q) \in Session
        /\ MarkSession(x, "awaiting-permission", q) \in Session
  BY <1>3, <1>4 DEF MarkSession, Session
<1>6. ASSUME NEW event \in HookEvents
      PROVE  Apply(x, event) \in Session
  <2>1. EventQuestion(x, event) \in Question
    BY DEF EventQuestion, Question, Session
  <2>2. x.status \in Status
    BY DEF Session
  <2>3. event \in Unconditional \cup Deferential => EventStatus[event] \in Status
    BY DEF EventStatus, Unconditional, Deferential, Status, Live
  <2> QED
    BY <1>3, <2>1, <2>2, <2>3 DEF Apply
<1> QED
  BY <1>2, <1>5, <1>6

(* Settling a request leaves the sessions a table of session records.       *)
LEMMA RemarkReturnsSessions ==
  ASSUME TypeOK, NEW s \in Askers, NEW left, left \subseteq Requests
  PROVE  Remark(s, left) \in [Sessions -> Session]
<1>1. PendingOf(s, left) # {} => Oldest(PendingOf(s, left)) \in Question
  <2>1. PendingOf(s, left) \subseteq Requests
    BY DEF PendingOf
  <2> QED
    BY <2>1, OldestIsOneOfThem DEF Question
<1>2. NoQuestion \in Question
  BY DEF Question
<1>3. sessions \in [Sessions -> Session]
  BY DEF TypeOK
<1> QED
  BY <1>1, <1>2, <1>3, StatusOperatorsReturnSessions DEF Remark, Askers

(* Whatever is left of the queue still fits it.                             *)
LEMMA WhatIsLeftFits ==
  ASSUME TypeOK, NEW left, left \subseteq pending
  PROVE  left \in SUBSET Requests /\ Cardinality(left) <= MaxPending
<1>1. pending \subseteq Requests /\ Cardinality(pending) <= MaxPending
  BY DEF TypeOK
<1>2. IsFiniteSet(pending)
  BY <1>1, RequestsAreFinite, FS_Subset
<1>3. IsFiniteSet(left) /\ Cardinality(left) <= Cardinality(pending)
  BY <1>2, FS_Subset
<1>4. Cardinality(left) \in Nat /\ Cardinality(pending) \in Nat
  BY <1>2, <1>3, FS_CardinalityType
<1> QED
  BY <1>1, <1>3, <1>4, LimitsAssumption

(* A request that found room leaves the queue within its limit.             *)
LEMMA OneMoreFits ==
  ASSUME TypeOK, NEW r \in Requests, Cardinality(pending) < MaxPending
  PROVE  pending \cup {r} \in SUBSET Requests /\ Cardinality(pending \cup {r}) <= MaxPending
<1>1. pending \subseteq Requests
  BY DEF TypeOK
<1>2. IsFiniteSet(pending)
  BY <1>1, RequestsAreFinite, FS_Subset
<1>3. Cardinality(pending) \in Nat
  BY <1>2, FS_CardinalityType
<1>4. Cardinality(pending \cup {r}) =
        IF r \in pending THEN Cardinality(pending) ELSE Cardinality(pending) + 1
  BY <1>2, FS_AddElement
<1> QED
  BY <1>1, <1>3, <1>4, LimitsAssumption

(* A list of rules, in memory or in the file.                               *)
RuleList(list) ==
  list \in SUBSET Rule /\ IsFiniteSet(list) /\ Cardinality(list) <= MaxRules

LEMMA RuleListsShrink ==
  ASSUME NEW list, RuleList(list), NEW u
  PROVE  RuleList(list \ {u})
<1>1. Cardinality(list) \in Nat /\ Cardinality(list \ {u}) \in Nat
  BY FS_CardinalityType, FS_RemoveElement DEF RuleList
<1>2. Cardinality(list \ {u}) <= Cardinality(list)
  BY <1>1, FS_RemoveElement DEF RuleList
<1> QED
  BY <1>1, <1>2, FS_RemoveElement, LimitsAssumption DEF RuleList

LEMMA RuleListsGrowToTheLimit ==
  ASSUME NEW list, RuleList(list), NEW u \in Rule, ~(Cardinality(list) >= MaxRules)
  PROVE  RuleList(list \cup {u})
<1>1. Cardinality(list) \in Nat
  BY FS_CardinalityType DEF RuleList
<1>2. Cardinality(list \cup {u}) <= Cardinality(list) + 1
  <2>1. IsFiniteSet(list)
    BY DEF RuleList
  <2>2. Cardinality(list \cup {u}) =
          IF u \in list THEN Cardinality(list) ELSE Cardinality(list) + 1
    BY <2>1, FS_AddElement
  <2> QED
    BY <1>1, <2>2
<1>3. IsFiniteSet(list \cup {u}) /\ Cardinality(list \cup {u}) \in Nat
  BY FS_AddElement, FS_CardinalityType DEF RuleList
<1> QED
  BY <1>1, <1>2, <1>3, LimitsAssumption DEF RuleList

LEMMA NoRulesAreAList == RuleList({})
  BY FS_EmptySet, LimitsAssumption DEF RuleList

-----------------------------------------------------------------------------
(* Types.                                                                   *)

LEMMA AnswersAndTickets ==
  /\ NoVerdict \in Verdict \cup {NoVerdict}
  /\ \A d \in Decisions, source \in Sources :
       [decision |-> d, source |-> source] \in Verdict
  /\ \A d \in {"allow", "deny"}, r \in Requests, pattern \in Patterns, folder \in Folders :
       TypeOK => BuildRule(r, d, pattern, folder) \in Rule
  /\ \A t \in Ticket : MatchedDecision(t) # "none" => MatchedDecision(t) \in Decisions
<1>1. \A d \in Decisions, source \in Sources :
        [decision |-> d, source |-> source] \in Verdict
  BY DEF Verdict
<1>2. ASSUME TypeOK, NEW d \in {"allow", "deny"}, NEW r \in Requests,
             NEW pattern \in Patterns, NEW folder \in Folders
      PROVE  BuildRule(r, d, pattern, folder) \in Rule
  <2>1. ticket[r] \in Ticket
    BY <1>2 DEF TypeOK
  <2>2. ticket[r].call \in Calls /\ ticket[r].dir \in Dirs
    BY <2>1 DEF Ticket
  <2> QED
    BY <2>2 DEF BuildRule, Rule
<1>3. \A t \in Ticket : MatchedDecision(t) # "none" => MatchedDecision(t) \in Decisions
  BY DEF MatchedDecision, Decisions
<1> QED
  BY <1>1, <1>2, <1>3

(* Settling one request, or several, types.                                 *)
LEMMA SettleTypes ==
  ASSUME TypeOK, NEW r \in Requests, r \in pending, NEW d \in Decisions,
         NEW source \in Sources, NEW connection \in {"answered", "closed"},
         Settle(r, d, source, connection)
  PROVE  /\ sessions' \in [Sessions -> Session]
         /\ pending' \in SUBSET Requests /\ Cardinality(pending') <= MaxPending
         /\ timer' \in SUBSET Requests
         /\ verdict' \in [Requests -> Verdict \cup {NoVerdict}]
         /\ conn' \in [Requests -> {"none", "open", "answered", "closed", "reset"}]
<1>1. ticket[r].session \in Askers /\ pending \ {r} \subseteq Requests
  BY DEF TypeOK, Ticket
<1>2. sessions' \in [Sessions -> Session]
  BY <1>1, RemarkReturnsSessions DEF Settle
<1>3. pending' \in SUBSET Requests /\ Cardinality(pending') <= MaxPending
  BY WhatIsLeftFits DEF Settle
<1>4. [decision |-> d, source |-> source] \in Verdict
  BY AnswersAndTickets
<1> QED
  BY <1>2, <1>3, <1>4 DEF Settle, TypeOK

LEMMA DenyAllTypes ==
  ASSUME TypeOK, NEW R, R \subseteq pending, DenyAll(R)
  PROVE  /\ pending' \in SUBSET Requests /\ Cardinality(pending') <= MaxPending
         /\ timer' \in SUBSET Requests
         /\ verdict' \in [Requests -> Verdict \cup {NoVerdict}]
         /\ conn' \in [Requests -> {"none", "open", "answered", "closed", "reset"}]
<1>1. pending' \in SUBSET Requests /\ Cardinality(pending') <= MaxPending
  BY WhatIsLeftFits DEF DenyAll
<1>2. [decision |-> "deny", source |-> "timeout"] \in Verdict
  BY AnswersAndTickets DEF Decisions, Sources
<1> QED
  BY <1>1, <1>2 DEF DenyAll, TypeOK

LEMMA InitTypes == Init => TypeOK
<1> SUFFICES ASSUME Init PROVE TypeOK
  OBVIOUS
<1>1. Ticket # {}
  <2>1. PICK c \in Calls, dir \in Dirs : TRUE
    BY SomethingToAsk
  <2>2. [session |-> Anonymous, call |-> c, dir |-> dir] \in Ticket
    BY DEF Ticket, Askers
  <2> QED
    BY <2>2
<1>2. (CHOOSE t \in Ticket : TRUE) \in Ticket
  BY <1>1
<1>3. Cardinality({}) <= MaxPending
  BY FS_EmptySet, LimitsAssumption
<1>4. RuleList(rules) /\ RuleList(file)
  BY NoRulesAreAList DEF Init
<1>5. sessions \in [Sessions -> Session]
  BY StatusOperatorsReturnSessions DEF Init
<1>6. ticket \in [Requests -> Ticket]
  BY <1>2 DEF Init
<1>7. /\ verdict \in [Requests -> Verdict \cup {NoVerdict}]
      /\ conn \in [Requests -> {"none", "open", "answered", "closed", "reset"}]
      /\ hook \in [Requests -> Decisions \cup {"unsent", "waiting", "aside"}]
      /\ sessionRules \in [Askers -> SUBSET Rule]
  BY DEF Init
<1>8. /\ up \in BOOLEAN /\ dirty \in BOOLEAN
      /\ nextId \in Nat \ {0}
  <2>1. up \in BOOLEAN /\ dirty \in BOOLEAN
    BY Zenon DEF Init
  <2>2. nextId = 1
    BY Zenon DEF Init
  <2> QED
    BY <2>1, <2>2
<1>9. /\ pending \in SUBSET Requests /\ timer \in SUBSET Requests
      /\ Cardinality(pending) <= MaxPending
  <2>1. pending = {} /\ timer = {}
    BY DEF Init
  <2> QED
    BY <1>3, <2>1
<1> QED
  BY <1>4, <1>5, <1>6, <1>7, <1>8, <1>9 DEF TypeOK, RuleList

LEMMA RequestTypes ==
  ASSUME TypeOK, NEW r \in Requests, NEW t \in Ticket, Request(r, t)
  PROVE  TypeOK'
<1>1. /\ nextId' \in Nat \ {0}
      /\ ticket' \in [Requests -> Ticket]
      /\ hook' \in [Requests -> Decisions \cup {"unsent", "waiting", "aside"}]
      /\ up' \in BOOLEAN
      /\ \A list \in {rules', file'} :
           list \in SUBSET Rule /\ IsFiniteSet(list) /\ Cardinality(list) <= MaxRules
      /\ sessionRules' \in [Askers -> SUBSET Rule]
  BY DEF Request, TypeOK
<1>2. ASSUME NEW d \in Decisions, NEW source \in Sources, AnswerAtOnce(r, d, source)
      PROVE  /\ sessions' \in [Sessions -> Session]
             /\ pending' \in SUBSET Requests /\ Cardinality(pending') <= MaxPending
             /\ timer' \in SUBSET Requests
             /\ verdict' \in [Requests -> Verdict \cup {NoVerdict}]
             /\ conn' \in [Requests -> {"none", "open", "answered", "closed", "reset"}]
  BY <1>2, AnswersAndTickets DEF AnswerAtOnce, TypeOK
<1>3. CASE PolicyDecides(r, t)
  <2>1. Policy[t.call] \in Decisions /\ "policy" \in Sources
    BY <1>3 DEF PolicyDecides, Decisions, Sources
  <2>2. dirty' \in BOOLEAN
    BY <1>3 DEF PolicyDecides, TypeOK
  <2> QED
    BY <1>1, <1>2, <1>3, <2>1, <2>2 DEF PolicyDecides, TypeOK
<1>4. CASE RuleDecides(r, t)
  <2>1. RuleOf(t) \in Decisions /\ "rule" \in Sources
    BY <1>4, AnswersAndTickets DEF RuleDecides, RuleOf, Sources
  <2>2. dirty' \in BOOLEAN
    BY <1>4 DEF RuleDecides, TypeOK, HitsPersisted
  <2> QED
    BY <1>1, <1>2, <1>4, <2>1, <2>2 DEF RuleDecides, TypeOK
<1>5. CASE QueueIsFull(r, t)
  <2>1. "ask" \in Decisions /\ "queue-full" \in Sources
    BY DEF Decisions, Sources
  <2>2. dirty' \in BOOLEAN
    BY <1>5 DEF QueueIsFull, TypeOK
  <2> QED
    BY <1>1, <1>2, <1>5, <2>1, <2>2 DEF QueueIsFull, TypeOK
<1>6. CASE Enqueue(r, t)
  <2>1. pending' \in SUBSET Requests /\ Cardinality(pending') <= MaxPending
    BY <1>6, OneMoreFits DEF Enqueue
  <2>2. sessions' \in [Sessions -> Session]
    BY <1>6, StatusOperatorsReturnSessions DEF Enqueue, TypeOK, Question, Ticket, Askers
  <2> QED
    BY <1>1, <1>6, <2>1, <2>2 DEF Enqueue, TypeOK
<1> QED
  BY <1>3, <1>4, <1>5, <1>6 DEF Request

LEMMA DecideTypes ==
  ASSUME TypeOK, NEW r \in Requests, NEW d \in {"allow", "deny"}, NEW scope \in Scopes,
         NEW pattern \in Patterns, NEW folder \in Folders,
         Decide(r, d, scope, pattern, folder)
  PROVE  TypeOK'
<1> DEFINE u == BuildRule(r, d, pattern, folder)
           kept == EffectiveScope(r, scope)
<1>1. u \in Rule
  BY AnswersAndTickets
<1>2. sessionRules' \in [Askers -> SUBSET Rule]
  BY <1>1 DEF Decide, TypeOK
<1>3. RuleList(rules) /\ RuleList(file)
  BY DEF TypeOK, RuleList
<1>4. RuleList(rules') /\ RuleList(file') /\ dirty' \in BOOLEAN
  <2>1. CASE kept = "always"
    <3>1. ~(Cardinality(rules) >= MaxRules)
      BY <2>1 DEF EffectiveScope
    <3>2. RuleList(rules \cup {u})
      BY <1>1, <1>3, <3>1, RuleListsGrowToTheLimit
    <3>3. rules' = rules \cup {u} /\ SaveRules(rules')
      BY <2>1 DEF Decide
    <3> QED
      BY <1>3, <3>2, <3>3 DEF SaveRules
  <2>2. CASE kept # "always"
    BY <1>3, <2>2 DEF Decide, TypeOK
  <2> QED
    BY <2>1, <2>2
<1>5. Settle(r, d, "human", "answered") /\ r \in pending
  BY DEF Decide
<1>6. d \in Decisions /\ "human" \in Sources
  BY DEF Decisions, Sources
<1>7. UNCHANGED <<up, nextId, ticket, hook>>
  BY DEF Decide, asking
<1> HIDE DEF u, kept
<1> QED
  BY <1>2, <1>4, <1>5, <1>6, <1>7, SettleTypes DEF TypeOK, RuleList

LEMMA EndOfRequestTypes ==
  ASSUME TypeOK, OpenEverywhereOrNowhere, NEW r \in Requests, Timeout(r) \/ OnClose(r)
  PROVE  TypeOK'
<1>1. r \in pending
  BY DEF Timeout, OnClose, OpenEverywhereOrNowhere
<1>2. "timeout" \in Sources /\ "abandoned" \in Sources /\ "deny" \in Decisions
  BY DEF Sources, Decisions
<1>3. \/ Settle(r, "deny", "timeout", "answered")
      \/ Settle(r, "deny", "abandoned", "closed")
  BY DEF Timeout, OnClose
<1>4. UNCHANGED <<up, nextId, ticket, hook, rules, file, dirty, sessionRules>>
  BY DEF Timeout, OnClose, asking, ruling
<1> QED
  BY <1>1, <1>2, <1>3, <1>4, SettleTypes DEF TypeOK

(* The hook acts on a decision only where one was made.                     *)
LEMMA HookTypes ==
  ASSUME TypeOK, OpenEverywhereOrNowhere, NEW r \in Requests,
         HookReceives(r) \/ HookLosesServer(r) \/ HookGivesUp(r)
  PROVE  TypeOK'
<1>1. UNCHANGED <<sessions, up, nextId, ticket, pending, timer, verdict, conn,
                  rules, file, dirty, sessionRules>>
  BY DEF HookReceives, HookLosesServer, HookGivesUp, asking, waiting, ruling
<1>2. hook' \in [Requests -> Decisions \cup {"unsent", "waiting", "aside"}]
  <2>1. CASE HookReceives(r)
    <3>1. verdict[r] \in Verdict
      BY <2>1 DEF HookReceives, OpenEverywhereOrNowhere, TypeOK
    <3>2. verdict[r].decision \in Decisions
      BY <3>1 DEF Verdict
    <3> QED
      BY <2>1, <3>2 DEF HookReceives, TypeOK
  <2>2. CASE HookLosesServer(r) \/ HookGivesUp(r)
    BY <2>2 DEF HookLosesServer, HookGivesUp, TypeOK
  <2> QED
    BY <2>1, <2>2
<1> QED
  BY <1>1, <1>2 DEF TypeOK

LEMMA SessionTypes ==
  ASSUME TypeOK, NEW s \in Sessions,
         \/ CreateSession(s) \/ PtyOutput(s) \/ IdleTimer(s)
         \/ \E event \in HookEvents : HookEvent(s, event)
  PROVE  TypeOK'
<1>1. UNCHANGED <<up, nextId, ticket, pending, timer, verdict, conn, hook,
                  rules, file, dirty, sessionRules>>
  BY DEF CreateSession, PtyOutput, IdleTimer, HookEvent, asking, waiting, ruling
<1>2. sessions' \in [Sessions -> Session]
  BY StatusOperatorsReturnSessions
  DEF TypeOK, CreateSession, PtyOutput, IdleTimer, HookEvent
<1> QED
  BY <1>1, <1>2 DEF TypeOK

LEMMA SessionEndTypes ==
  ASSUME TypeOK, NEW s \in Sessions, Exit(s) \/ Close(s)
  PROVE  TypeOK'
<1>1. /\ DenyAll(PendingOf(s, pending))
      /\ sessionRules' = [sessionRules EXCEPT ![s] = {}]
  BY DEF Exit, Close, AbandonSession
<1>2. PendingOf(s, pending) \subseteq pending
  BY DEF PendingOf
<1>3. sessionRules' \in [Askers -> SUBSET Rule]
  BY <1>1 DEF TypeOK
<1>4. sessions' \in [Sessions -> Session]
  <2>1. CASE Exit(s)
    <3>1. Exited(sessions[s]) \in Session
      BY StatusOperatorsReturnSessions DEF TypeOK
    <3>2. NoQuestion \in Question
      BY DEF Question
    <3>3. MarkSession(Exited(sessions[s]), "busy", NoQuestion) \in Session
      BY <3>1, <3>2, StatusOperatorsReturnSessions
    <3> QED
      BY <2>1, <3>1, <3>3 DEF Exit, TypeOK
  <2>2. CASE Close(s)
    BY <2>2, StatusOperatorsReturnSessions DEF Close, TypeOK
  <2> QED
    BY <2>1, <2>2
<1>5. UNCHANGED <<up, nextId, ticket, hook, rules, file, dirty>>
  BY DEF Exit, Close, asking
<1> QED
  BY <1>1, <1>2, <1>3, <1>4, <1>5, DenyAllTypes DEF TypeOK

LEMMA HousekeepingTypes ==
  ASSUME TypeOK, (\E u \in rules : DeleteRule(u)) \/ SaveHits \/ Purge
  PROVE  TypeOK'
<1>1. UNCHANGED <<sessions, up, nextId, ticket, pending, timer, verdict, conn, hook>>
  BY DEF DeleteRule, SaveHits, Purge, asking, waiting
<1>2. RuleList(rules) /\ RuleList(file)
  BY DEF TypeOK, RuleList
<1>3. sessionRules' \in [Askers -> SUBSET Rule]
  BY DEF DeleteRule, SaveHits, Purge, TypeOK
<1>4. RuleList(rules') /\ RuleList(file') /\ dirty' \in BOOLEAN
  <2>1. CASE \E u \in rules : DeleteRule(u)
    BY <1>2, <2>1, RuleListsShrink DEF DeleteRule, SaveRules
  <2>2. CASE SaveHits
    BY <1>2, <2>2 DEF SaveHits, SaveRules
  <2>3. CASE Purge
    BY <1>2, <2>3 DEF Purge, TypeOK
  <2> QED
    BY <2>1, <2>2, <2>3
<1> QED
  BY <1>1, <1>3, <1>4 DEF TypeOK, RuleList

LEMMA ServerTypes ==
  ASSUME TypeOK, Shutdown \/ Crash \/ Restart
  PROVE  TypeOK'
<1>1. RuleList(rules) /\ RuleList(file)
  BY DEF TypeOK, RuleList
<1>2. ASSUME Forget
      PROVE  /\ up' \in BOOLEAN /\ dirty' \in BOOLEAN
             /\ UNCHANGED <<nextId, ticket, hook>>
             /\ RuleList(rules')
             /\ sessions' \in [Sessions -> Session]
             /\ sessionRules' \in [Askers -> SUBSET Rule]
  <2>1. up' \in BOOLEAN /\ dirty' \in BOOLEAN
    BY <1>2 DEF Forget
  <2>2. UNCHANGED <<nextId, ticket, hook>>
    BY <1>2 DEF Forget, asking
  <2>3. RuleList(rules')
    BY <1>2, NoRulesAreAList DEF Forget
  <2>4. sessions' \in [Sessions -> Session]
    BY <1>2, StatusOperatorsReturnSessions DEF Forget, TypeOK
  <2>5. sessionRules' \in [Askers -> SUBSET Rule]
    BY <1>2 DEF Forget
  <2> QED
    BY <2>1, <2>2, <2>3, <2>4, <2>5
<1>3. CASE Shutdown
  <2>1. RuleList(file')
    BY <1>1, <1>3 DEF Shutdown
  <2>2. DenyAll(pending) /\ Forget
    BY <1>3 DEF Shutdown
  <2> QED
    BY <1>2, <2>1, <2>2, DenyAllTypes DEF TypeOK, RuleList
<1>4. CASE Crash
  <2>1. /\ pending' \in SUBSET Requests /\ Cardinality(pending') <= MaxPending
        /\ timer' \in SUBSET Requests
    BY <1>4, WhatIsLeftFits DEF Crash
  <2>2. /\ verdict' \in [Requests -> Verdict \cup {NoVerdict}]
        /\ conn' \in [Requests -> {"none", "open", "answered", "closed", "reset"}]
        /\ RuleList(file')
    BY <1>1, <1>4 DEF Crash, TypeOK
  <2>3. Forget
    BY <1>4 DEF Crash
  <2> QED
    BY <1>2, <2>1, <2>2, <2>3 DEF TypeOK, RuleList
<1>5. CASE Restart
  BY <1>5 DEF Restart, TypeOK, asking, waiting
<1> QED
  BY <1>3, <1>4, <1>5

-----------------------------------------------------------------------------
(* What keeps a request open everywhere or nowhere.                         *)

(* A request no hook has sent has left no trace, and ids are handed out in  *)
(* order: without this, a new request could find an id half in use.         *)
Untouched ==
  \A r \in Requests :
    /\ r >= nextId <=> hook[r] = "unsent"
    /\ r >= nextId => conn[r] = "none" /\ verdict[r] = NoVerdict

Consistent == TypeOK /\ OpenEverywhereOrNowhere /\ Untouched

(* Only Request hands out an id.                                            *)
LEMMA UntouchedStays ==
  ASSUME Consistent, NEW R, R \subseteq pending,
         UNCHANGED <<nextId, hook>>,
         \A r \in Requests \ R : UNCHANGED <<conn[r], verdict[r]>>
  PROVE  Untouched'
<1>1. \A r \in R : ~ (r >= nextId)
  BY DEF Consistent, OpenEverywhereOrNowhere, Untouched, TypeOK
<1> QED
  BY <1>1 DEF Consistent, Untouched

LEMMA InitConsistent == Init => Consistent
<1> SUFFICES ASSUME Init PROVE Consistent
  OBVIOUS
<1>1. TypeOK
  BY InitTypes
<1>2. OpenEverywhereOrNowhere
  BY DEF Init, OpenEverywhereOrNowhere
<1>3. \A r \in Requests : r >= 1
  BY RequestsAreNumbered
<1>4. Untouched
  BY <1>3 DEF Init, Untouched
<1> QED
  BY <1>1, <1>2, <1>4 DEF Consistent

LEMMA RequestConsistent ==
  ASSUME Consistent, NEW r \in Requests, NEW t \in Ticket, Request(r, t)
  PROVE  Consistent'
<1>1. TypeOK'
  BY RequestTypes DEF Consistent
<1>2. /\ r = nextId /\ up /\ UNCHANGED up
      /\ hook[r] = "unsent" /\ conn[r] = "none" /\ verdict[r] = NoVerdict
      /\ r \notin pending /\ r \notin timer
      /\ nextId \in Nat
  BY DEF Request, Consistent, Untouched, OpenEverywhereOrNowhere, TypeOK
<1>3. \/ /\ UNCHANGED <<pending, timer>>
         /\ conn' = [conn EXCEPT ![r] = "answered"]
         /\ \E a \in Verdict : verdict' = [verdict EXCEPT ![r] = a]
      \/ /\ pending' = pending \cup {r} /\ timer' = timer \cup {r}
         /\ conn' = [conn EXCEPT ![r] = "open"]
         /\ UNCHANGED verdict
  <2>1. ASSUME NEW d \in Decisions, NEW source \in Sources, AnswerAtOnce(r, d, source)
        PROVE  /\ UNCHANGED <<pending, timer>>
               /\ conn' = [conn EXCEPT ![r] = "answered"]
               /\ \E a \in Verdict : verdict' = [verdict EXCEPT ![r] = a]
    BY <2>1, AnswersAndTickets DEF AnswerAtOnce
  <2>2. CASE PolicyDecides(r, t)
    BY <2>1, <2>2 DEF PolicyDecides, Decisions, Sources
  <2>3. CASE RuleDecides(r, t)
    <3>1. RuleOf(t) \in Decisions /\ "rule" \in Sources
      BY <2>3, AnswersAndTickets DEF RuleDecides, RuleOf, Sources
    <3> QED
      BY <2>1, <2>3, <3>1 DEF RuleDecides
  <2>4. CASE QueueIsFull(r, t)
    BY <2>1, <2>4 DEF QueueIsFull, Decisions, Sources
  <2>5. CASE Enqueue(r, t)
    BY <2>5 DEF Enqueue
  <2> QED
    BY <2>2, <2>3, <2>4, <2>5 DEF Request
<1>4. \A a \in Verdict : a # NoVerdict
  BY DEF Verdict, NoVerdict, Decisions
<1>5. OpenEverywhereOrNowhere'
  BY <1>2, <1>3, <1>4 DEF Consistent, OpenEverywhereOrNowhere, TypeOK
<1>6. nextId' = nextId + 1 /\ hook' = [hook EXCEPT ![r] = "waiting"]
  BY DEF Request
<1>7. \A q \in Requests : q >= nextId' <=> q >= nextId /\ q # r
  BY <1>2, <1>6, RequestsAreNumbered
<1>8. Untouched'
  BY <1>2, <1>3, <1>6, <1>7 DEF Consistent, Untouched, TypeOK
<1> QED
  BY <1>1, <1>5, <1>8 DEF Consistent

LEMMA SettleConsistent ==
  ASSUME Consistent, NEW r \in Requests, r \in pending,
         NEW d \in Decisions, NEW source \in Sources,
         NEW connection \in {"answered", "closed"},
         Settle(r, d, source, connection), UNCHANGED <<up, nextId, hook>>
  PROVE  OpenEverywhereOrNowhere' /\ Untouched'
<1>1. [decision |-> d, source |-> source] # NoVerdict
  BY DEF NoVerdict, Decisions
<1>2. OpenEverywhereOrNowhere'
  BY <1>1 DEF Settle, Consistent, OpenEverywhereOrNowhere, TypeOK
<1>3. \A q \in Requests \ {r} : UNCHANGED <<conn[q], verdict[q]>>
  BY DEF Settle, Consistent, TypeOK
<1>4. Untouched'
  BY <1>3, UntouchedStays
<1> QED
  BY <1>2, <1>4

LEMMA DenyAllConsistent ==
  ASSUME Consistent, NEW R, R \subseteq pending, DenyAll(R),
         UNCHANGED <<nextId, hook>>, UNCHANGED up \/ R = pending
  PROVE  OpenEverywhereOrNowhere' /\ Untouched'
<1>1. [decision |-> "deny", source |-> "timeout"] # NoVerdict
  BY DEF NoVerdict
<1>2. OpenEverywhereOrNowhere'
  BY <1>1 DEF DenyAll, Consistent, OpenEverywhereOrNowhere, TypeOK
<1>3. \A q \in Requests \ R : UNCHANGED <<conn[q], verdict[q]>>
  BY DEF DenyAll, Consistent, TypeOK
<1>4. Untouched'
  BY <1>3, UntouchedStays
<1> QED
  BY <1>2, <1>4

LEMMA DecideConsistent ==
  ASSUME Consistent, NEW r \in Requests, NEW d \in {"allow", "deny"},
         NEW scope \in Scopes, NEW pattern \in Patterns, NEW folder \in Folders,
         Decide(r, d, scope, pattern, folder)
  PROVE  Consistent'
<1>1. TypeOK'
  BY DecideTypes DEF Consistent
<1>2. /\ Settle(r, d, "human", "answered") /\ r \in pending
      /\ UNCHANGED <<up, nextId, hook>>
  BY DEF Decide, asking
<1>3. d \in Decisions /\ "human" \in Sources
  BY DEF Decisions, Sources
<1> QED
  BY <1>1, <1>2, <1>3, SettleConsistent DEF Consistent

LEMMA EndOfRequestConsistent ==
  ASSUME Consistent, NEW r \in Requests, Timeout(r) \/ OnClose(r)
  PROVE  Consistent'
<1>1. TypeOK'
  BY EndOfRequestTypes DEF Consistent
<1>2. r \in pending
  BY DEF Timeout, OnClose, Consistent, OpenEverywhereOrNowhere
<1>3. /\ \/ Settle(r, "deny", "timeout", "answered")
         \/ Settle(r, "deny", "abandoned", "closed")
      /\ UNCHANGED <<up, nextId, hook>>
  BY DEF Timeout, OnClose, asking
<1>4. "timeout" \in Sources /\ "abandoned" \in Sources /\ "deny" \in Decisions
  BY DEF Sources, Decisions
<1> QED
  BY <1>1, <1>2, <1>3, <1>4, SettleConsistent DEF Consistent

LEMMA HookConsistent ==
  ASSUME Consistent, NEW r \in Requests,
         HookReceives(r) \/ HookLosesServer(r) \/ HookGivesUp(r)
  PROVE  Consistent'
<1>1. TypeOK'
  BY HookTypes DEF Consistent
<1>2. UNCHANGED <<up, nextId, pending, timer, verdict, conn>>
  BY DEF HookReceives, HookLosesServer, HookGivesUp, asking, waiting
<1>3. OpenEverywhereOrNowhere'
  BY <1>2 DEF Consistent, OpenEverywhereOrNowhere
<1>4. hook[r] = "waiting" /\ \E a \in Decisions \cup {"aside"} : hook' = [hook EXCEPT ![r] = a]
  <2>1. CASE HookReceives(r)
    <3>1. verdict[r] \in Verdict
      BY <2>1 DEF HookReceives, Consistent, OpenEverywhereOrNowhere, TypeOK
    <3>2. verdict[r].decision \in Decisions
      BY <3>1 DEF Verdict
    <3> QED
      BY <2>1, <3>2 DEF HookReceives
  <2>2. CASE HookLosesServer(r) \/ HookGivesUp(r)
    BY <2>2 DEF HookLosesServer, HookGivesUp
  <2> QED
    BY <2>1, <2>2
<1>5. Untouched'
  BY <1>2, <1>4 DEF Consistent, Untouched, TypeOK, Decisions
<1> QED
  BY <1>1, <1>3, <1>5 DEF Consistent

LEMMA SessionConsistent ==
  ASSUME Consistent, NEW s \in Sessions,
         \/ CreateSession(s) \/ PtyOutput(s) \/ IdleTimer(s)
         \/ \E event \in HookEvents : HookEvent(s, event)
  PROVE  Consistent'
<1>1. TypeOK'
  BY SessionTypes DEF Consistent
<1>2. UNCHANGED <<up, nextId, pending, timer, verdict, conn, hook>>
  BY DEF CreateSession, PtyOutput, IdleTimer, HookEvent, asking, waiting
<1> QED
  BY <1>1, <1>2 DEF Consistent, OpenEverywhereOrNowhere, Untouched

LEMMA SessionEndConsistent ==
  ASSUME Consistent, NEW s \in Sessions, Exit(s) \/ Close(s)
  PROVE  Consistent'
<1>1. TypeOK'
  BY SessionEndTypes DEF Consistent
<1>2. DenyAll(PendingOf(s, pending)) /\ UNCHANGED <<up, nextId, hook>>
  BY DEF Exit, Close, AbandonSession, asking
<1>3. PendingOf(s, pending) \subseteq pending
  BY DEF PendingOf
<1> QED
  BY <1>1, <1>2, <1>3, DenyAllConsistent DEF Consistent

LEMMA HousekeepingConsistent ==
  ASSUME Consistent, (\E u \in rules : DeleteRule(u)) \/ SaveHits \/ Purge
  PROVE  Consistent'
<1>1. TypeOK'
  BY HousekeepingTypes DEF Consistent
<1>2. UNCHANGED <<up, nextId, pending, timer, verdict, conn, hook>>
  BY DEF DeleteRule, SaveHits, Purge, asking, waiting
<1> QED
  BY <1>1, <1>2 DEF Consistent, OpenEverywhereOrNowhere, Untouched

LEMMA ServerConsistent ==
  ASSUME Consistent, Shutdown \/ Crash \/ Restart
  PROVE  Consistent'
<1>1. TypeOK'
  BY ServerTypes DEF Consistent
<1>2. UNCHANGED <<nextId, hook>>
  BY DEF Shutdown, Crash, Forget, Restart, asking
<1>3. CASE Shutdown
  <2>1. DenyAll(pending)
    BY <1>3 DEF Shutdown
  <2> QED
    BY <1>1, <1>2, <2>1, DenyAllConsistent DEF Consistent
<1>4. CASE Crash
  <2>1. \A r \in Requests \ pending : UNCHANGED <<conn[r], verdict[r]>>
    BY <1>4 DEF Crash, Consistent, TypeOK
  <2>2. Untouched'
    BY <1>2, <2>1, UntouchedStays
  <2>3. OpenEverywhereOrNowhere'
    BY <1>4 DEF Crash, Consistent, OpenEverywhereOrNowhere, TypeOK
  <2> QED
    BY <1>1, <2>2, <2>3 DEF Consistent
<1>5. CASE Restart
  BY <1>1, <1>5 DEF Restart, Consistent, OpenEverywhereOrNowhere, Untouched,
                     asking, waiting
<1> QED
  BY <1>3, <1>4, <1>5

LEMMA NextConsistent == Consistent /\ [Next]_vars => Consistent'
<1> SUFFICES ASSUME Consistent, [Next]_vars PROVE Consistent'
  OBVIOUS
<1>1. ASSUME NEW r \in Requests, NEW t \in Ticket, Request(r, t)
      PROVE  Consistent'
  BY <1>1, RequestConsistent
<1>2. ASSUME NEW r \in Requests, NEW d \in {"allow", "deny"}, NEW scope \in Scopes,
             NEW pattern \in Patterns, NEW folder \in Folders,
             Decide(r, d, scope, pattern, folder)
      PROVE  Consistent'
  BY <1>2, DecideConsistent
<1>3. ASSUME NEW r \in Requests, Timeout(r) \/ OnClose(r)
      PROVE  Consistent'
  BY <1>3, EndOfRequestConsistent
<1>4. ASSUME NEW r \in Requests, HookReceives(r) \/ HookLosesServer(r) \/ HookGivesUp(r)
      PROVE  Consistent'
  BY <1>4, HookConsistent
<1>5. ASSUME NEW s \in Sessions,
             \/ CreateSession(s) \/ PtyOutput(s) \/ IdleTimer(s)
             \/ \E event \in HookEvents : HookEvent(s, event)
      PROVE  Consistent'
  BY <1>5, SessionConsistent
<1>6. ASSUME NEW s \in Sessions, Exit(s) \/ Close(s)
      PROVE  Consistent'
  BY <1>6, SessionEndConsistent
<1>7. CASE (\E u \in rules : DeleteRule(u)) \/ SaveHits \/ Purge
  BY <1>7, HousekeepingConsistent
<1>8. CASE Shutdown \/ Crash \/ Restart
  BY <1>8, ServerConsistent
<1>9. CASE UNCHANGED vars
  BY <1>9 DEF vars, Consistent, TypeOK, OpenEverywhereOrNowhere, Untouched
<1> QED
  BY <1>1, <1>2, <1>3, <1>4, <1>5, <1>6, <1>7, <1>8, <1>9 DEF Next

-----------------------------------------------------------------------------
(* The theorems.                                                            *)

LEMMA AlwaysConsistent == SafetySpec => []Consistent
  BY InitConsistent, NextConsistent, PTL DEF SafetySpec

(* Every variable keeps its type; in particular the queue never holds more  *)
(* than MAX_PENDING requests and neither rule list more than MAX_RULES      *)
(* rules, whatever the limits and however the requests race (request,       *)
(* decide, addRule).                                                        *)
THEOREM TypeCorrectness == SafetySpec => []TypeOK
<1>1. Consistent => TypeOK
  BY DEF Consistent
<1> QED
  BY <1>1, AlwaysConsistent, PTL

(* For any number of requests and sessions, a pending request has an armed  *)
(* deadline, a held connection and no verdict, and a settled one has none   *)
(* of its timer, its connection and its place in the queue left (settle,    *)
(* abandonSession, shutdown, onClose).                                      *)
THEOREM SettledExactlyOnce == SafetySpec => []OpenEverywhereOrNowhere
<1>1. Consistent => OpenEverywhereOrNowhere
  BY DEF Consistent
<1> QED
  BY <1>1, AlwaysConsistent, PTL

-----------------------------------------------------------------------------
(* The queue implements the gate.                                           *)

answers == [r \in Requests |-> verdict[r].decision]

LEMMA InitIsGateInit == Init => Gate!Init
  BY DEF Init, Gate!Init, NoVerdict

LEMMA RequestAsks ==
  ASSUME Consistent, NEW r \in Requests, NEW t \in Ticket, Request(r, t)
  PROVE  Gate!Ask(r)
<1>1. r = nextId /\ hook' = [hook EXCEPT ![r] = "waiting"]
  BY DEF Request
<1>2. hook[r] = "unsent" /\ verdict[r] = NoVerdict
  BY <1>1 DEF Consistent, Untouched, TypeOK
<1>3. \E a \in Verdict \cup {NoVerdict} : verdict' = [verdict EXCEPT ![r] = a]
  <2>1. ASSUME NEW d \in Decisions, NEW source \in Sources, AnswerAtOnce(r, d, source)
        PROVE  \E a \in Verdict : verdict' = [verdict EXCEPT ![r] = a]
    BY <2>1, AnswersAndTickets DEF AnswerAtOnce
  <2>2. CASE PolicyDecides(r, t)
    BY <2>1, <2>2 DEF PolicyDecides, Decisions, Sources
  <2>3. CASE RuleDecides(r, t)
    <3>1. RuleOf(t) \in Decisions /\ "rule" \in Sources
      BY <2>3, AnswersAndTickets DEF RuleDecides, RuleOf, Sources
    <3> QED
      BY <2>1, <2>3, <3>1 DEF RuleDecides
  <2>4. CASE QueueIsFull(r, t)
    BY <2>1, <2>4 DEF QueueIsFull, Decisions, Sources
  <2>5. CASE Enqueue(r, t)
    <3>1. verdict' = [verdict EXCEPT ![r] = NoVerdict]
      BY <1>2, <2>5 DEF Enqueue, Consistent, TypeOK
    <3> QED
      BY <3>1
  <2> QED
    BY <2>2, <2>3, <2>4, <2>5 DEF Request
<1>4. PICK a \in Verdict \cup {NoVerdict} : verdict' = [verdict EXCEPT ![r] = a]
  BY <1>3
<1>5. a.decision \in {"allow", "deny", "ask", "none"}
  BY <1>4 DEF Verdict, NoVerdict, Decisions
<1>6. answers' = [answers EXCEPT ![r] = a.decision]
  BY <1>4 DEF answers, Consistent, TypeOK
<1> QED
  BY <1>1, <1>2, <1>5, <1>6 DEF Gate!Ask, Gate!Answers, answers

(* A pending request is one whose call was made and not yet answered.       *)
LEMMA PendingIsOpen ==
  ASSUME Consistent, NEW r \in pending
  PROVE  Gate!Open(r)
  BY DEF Consistent, OpenEverywhereOrNowhere, Untouched, TypeOK, Gate!Open, NoVerdict

LEMMA SettleAnswers ==
  ASSUME Consistent, NEW r \in Requests, r \in pending, NEW d \in {"allow", "deny"},
         NEW source, NEW connection, Settle(r, d, source, connection), UNCHANGED hook
  PROVE  Gate!Grant(r) \/ Gate!Refuse({r})
<1>1. Gate!Open(r)
  BY PendingIsOpen
<1>2. \A q \in Requests : verdict'[q].decision = IF q = r THEN d ELSE verdict[q].decision
  BY DEF Settle, Consistent, TypeOK
<1>3. CASE d = "allow"
  <2>1. answers' = [answers EXCEPT ![r] = "allow"]
    BY <1>2, <1>3 DEF answers
  <2> QED
    BY <1>1, <2>1 DEF Gate!Grant, answers
<1>4. CASE d = "deny"
  <2>1. answers' = [q \in Requests |-> IF q \in {r} THEN "deny" ELSE answers[q]]
    BY <1>2, <1>4 DEF answers
  <2> QED
    BY <1>1, <2>1 DEF Gate!Refuse, answers
<1> QED
  BY <1>3, <1>4

LEMMA DenyAllRefuses ==
  ASSUME Consistent, NEW R, R \subseteq pending, DenyAll(R), UNCHANGED hook
  PROVE  Gate!Refuse(R) /\ R \in SUBSET Requests
<1>1. R \in SUBSET Requests
  BY DEF Consistent, TypeOK
<1>2. \A r \in R : Gate!Open(r)
  BY PendingIsOpen
<1>3. answers' = [r \in Requests |-> IF r \in R THEN "deny" ELSE answers[r]]
  BY DEF DenyAll, answers
<1> QED
  BY <1>1, <1>2, <1>3 DEF Gate!Refuse, answers

LEMMA HookDeliversOrStandsAside ==
  ASSUME Consistent, NEW r \in Requests,
         HookReceives(r) \/ HookLosesServer(r) \/ HookGivesUp(r)
  PROVE  Gate!Deliver(r) \/ Gate!StandAside(r)
<1>1. UNCHANGED verdict
  BY DEF HookReceives, HookLosesServer, HookGivesUp, waiting
<1>2. UNCHANGED answers
  BY <1>1 DEF answers
<1>3. CASE HookReceives(r)
  <2>1. verdict[r] \in Verdict
    BY <1>3 DEF HookReceives, Consistent, OpenEverywhereOrNowhere, TypeOK
  <2>2. verdict[r].decision # "none"
    BY <2>1 DEF Verdict, Decisions
  <2>3. answers[r] = verdict[r].decision
    BY DEF answers
  <2> QED
    BY <1>2, <1>3, <2>2, <2>3 DEF HookReceives, Gate!Deliver, answers
<1>4. CASE HookLosesServer(r) \/ HookGivesUp(r)
  BY <1>2, <1>4 DEF HookLosesServer, HookGivesUp, Gate!StandAside, answers
<1> QED
  BY <1>3, <1>4

LEMMA NextIsGateNext == Consistent /\ [Next]_vars => [Gate!Next]_(Gate!vars)
<1> SUFFICES ASSUME Consistent, [Next]_vars
             PROVE  Gate!Next \/ UNCHANGED <<answers, hook>>
  BY DEF Gate!vars, answers
<1>1. ASSUME NEW r \in Requests, NEW t \in Ticket, Request(r, t)
      PROVE  Gate!Next
  BY <1>1, RequestAsks DEF Gate!Next
<1>2. ASSUME NEW r \in Requests, NEW d \in {"allow", "deny"}, NEW scope \in Scopes,
             NEW pattern \in Patterns, NEW folder \in Folders,
             Decide(r, d, scope, pattern, folder)
      PROVE  Gate!Next
  <2>1. Settle(r, d, "human", "answered") /\ r \in pending /\ UNCHANGED hook
    BY <1>2 DEF Decide
  <2>2. Gate!Grant(r) \/ Gate!Refuse({r})
    BY <2>1, SettleAnswers
  <2> QED
    BY <2>2 DEF Gate!Next
<1>3. ASSUME NEW r \in Requests, Timeout(r) \/ OnClose(r)
      PROVE  Gate!Next
  <2>1. /\ r \in pending /\ UNCHANGED hook
        /\ \/ Settle(r, "deny", "timeout", "answered")
           \/ Settle(r, "deny", "abandoned", "closed")
    BY <1>3 DEF Timeout, OnClose, Consistent, OpenEverywhereOrNowhere
  <2>2. Gate!Grant(r) \/ Gate!Refuse({r})
    BY <2>1, SettleAnswers
  <2> QED
    BY <2>2 DEF Gate!Next
<1>4. ASSUME NEW r \in Requests, HookReceives(r) \/ HookLosesServer(r) \/ HookGivesUp(r)
      PROVE  Gate!Next
  BY <1>4, HookDeliversOrStandsAside DEF Gate!Next
<1>5. ASSUME NEW s \in Sessions,
             \/ CreateSession(s) \/ PtyOutput(s) \/ IdleTimer(s)
             \/ \E event \in HookEvents : HookEvent(s, event)
      PROVE  UNCHANGED <<answers, hook>>
  BY <1>5 DEF CreateSession, PtyOutput, IdleTimer, HookEvent, waiting, answers
<1>6. ASSUME NEW s \in Sessions, Exit(s) \/ Close(s)
      PROVE  Gate!Next
  <2>1. DenyAll(PendingOf(s, pending)) /\ UNCHANGED hook
    BY <1>6 DEF Exit, Close, AbandonSession
  <2>2. PendingOf(s, pending) \subseteq pending
    BY DEF PendingOf
  <2> QED
    BY <2>1, <2>2, DenyAllRefuses DEF Gate!Next
<1>7. CASE (\E u \in rules : DeleteRule(u)) \/ SaveHits \/ Purge \/ Crash \/ Restart
  BY <1>7 DEF DeleteRule, SaveHits, Purge, Crash, Forget, Restart, waiting, answers
<1>8. CASE Shutdown
  <2>1. DenyAll(pending) /\ UNCHANGED hook
    BY <1>8 DEF Shutdown, Forget
  <2> QED
    BY <2>1, DenyAllRefuses DEF Gate!Next
<1>9. CASE UNCHANGED vars
  BY <1>9 DEF vars, answers
<1> QED
  BY <1>1, <1>2, <1>3, <1>4, <1>5, <1>6, <1>7, <1>8, <1>9 DEF Next

(* Every behaviour of the queue is one the gate allows: an answer is given  *)
(* at most once and never changed, the hook acts on the answer it was given *)
(* or on none, and only one call is granted at a time.                      *)
THEOREM QueueImplementsGate == SafetySpec => ImplementsGate
  BY InitIsGateInit, NextIsGateNext, AlwaysConsistent, PTL
  DEF SafetySpec, ImplementsGate, Gate!Spec

-----------------------------------------------------------------------------
(* What a session shows of its requests.                                    *)

(* A session x that waits on the requests P shows a block only if there is  *)
(* one, and the question of one of them or none.                            *)
Truthful(x, P) ==
  /\ x.status = "awaiting-permission" => P # {}
  /\ x.question \in Requests => x.question \in P
  /\ ~Known(x) => x.question = NoQuestion
  /\ x.status = "absent" => P = {}

(* And, when an agent is held, shows the block.                             *)
Alerting(x, blocked) ==
  x.status \in Live /\ blocked => x.status = "awaiting-permission"

AllTruthful == \A s \in Sessions : Truthful(sessions[s], PendingOf(s, pending))
AllAlerting == \A s \in Sessions : Alerting(sessions[s], Blocked(s))

LEMMA NoQuestionIsNoRequest == NoQuestion \notin Requests /\ Notice \notin Requests
  BY RequestsAreNumbered DEF NoQuestion, Notice

(* Looking up the next question (settle, _nextPendingFor).                  *)
Reminded(x, left) ==
  IF left # {} THEN MarkSession(x, "awaiting-permission", Oldest(left))
  ELSE MarkSession(x, "busy", NoQuestion)

LEMMA ReminderIsTruthful ==
  ASSUME NEW x \in Session, NEW P, Truthful(x, P), NEW left, left \subseteq P,
         left \subseteq Requests
  PROVE  /\ Truthful(Reminded(x, left), left)
         /\ \A blocked \in BOOLEAN : (blocked => left # {}) =>
              Alerting(Reminded(x, left), blocked)
<1>1. left # {} => Oldest(left) \in left
  BY OldestIsOneOfThem
<1>2. CASE ~Known(x)
  BY <1>2, NoQuestionIsNoRequest
  DEF Reminded, MarkSession, Truthful, Alerting, Known, Session, Status, Live
<1>3. CASE Known(x) /\ left # {}
  BY <1>1, <1>3, NoQuestionIsNoRequest
  DEF Reminded, MarkSession, SetStatus, Truthful, Alerting, Known, Session, Status, Live
<1>4. CASE Known(x) /\ left = {}
  BY <1>4, NoQuestionIsNoRequest
  DEF Reminded, MarkSession, SetStatus, Truthful, Alerting, Known, Session, Status, Live
<1> QED
  BY <1>2, <1>3, <1>4

LEMMA EventIsTruthful ==
  ASSUME NEW x \in Session, NEW P, Truthful(x, P), Known(x), NEW event \in HookEvents
  PROVE  /\ Truthful(Apply(x, event), P)
         /\ \A blocked \in BOOLEAN :
              Alerting(x, blocked) /\ ~(blocked /\ event \in Unconditional)
                => Alerting(Apply(x, event), blocked)
<1> USE NoQuestionIsNoRequest DEF Truthful, Alerting, Known, Session, Status, Live
<1>1. EventQuestion(x, event) \in {NoQuestion, Notice, x.question}
  BY DEF EventQuestion
<1>2. CASE event \in Unconditional
  <2>1. EventStatus[event] \in {"idle", "busy"}
    BY <1>2 DEF EventStatus, Unconditional
  <2>2. event \notin Deferential
    BY <1>2 DEF Unconditional, Deferential
  <2>3. Truthful(Apply(x, event), P)
    BY <1>1, <1>2, <2>1, <2>2 DEF Apply, SetStatus
  <2> QED
    BY <1>2, <2>3
<1>3. CASE event \in Deferential
  <2>1. EventStatus[event] \in {"busy", "awaiting-input"}
    BY <1>3 DEF EventStatus, Deferential
  <2>2. event \notin Unconditional
    BY <1>3 DEF Unconditional, Deferential
  <2> QED
    BY <1>1, <1>3, <2>1, <2>2 DEF Apply, SetStatus, SetStatusUnlessBlocked
<1>4. CASE event \in Recorded
  <2>1. event \notin Unconditional /\ event \notin Deferential
    BY <1>4 DEF Unconditional, Deferential, Recorded
  <2> QED
    BY <1>1, <1>4, <2>1 DEF Apply, SetStatus
<1> QED
  BY <1>2, <1>3, <1>4 DEF HookEvents

LEMMA ActivityIsTruthful ==
  ASSUME NEW x \in Session, NEW P, Truthful(x, P)
  PROVE  /\ Truthful(Exited(x), P)
         /\ x.status \in Live => Truthful(MarkActivity(x), P)
         /\ Truthful(IdleTimerFires(x), P)
         /\ \A blocked \in BOOLEAN :
              Alerting(x, blocked) => Alerting(IdleTimerFires(x), blocked)
  BY NoQuestionIsNoRequest
  DEF Truthful, Alerting, Known, Session, Status, Live, Exited, MarkActivity, IdleTimerFires

(* Both facts at once, for one session after a step.                        *)
ShownAt(s) ==
  /\ Truthful(sessions[s], PendingOf(s, pending))
  /\ NestedAgents = FALSE /\ Shells = {} => Alerting(sessions[s], Blocked(s))

Shown == \A s \in Sessions : ShownAt(s)

(* A session whose record, requests and held hooks stay as they were.       *)
LEMMA UntouchedSessionIsShown ==
  ASSUME NEW s \in Sessions, ShownAt(s), sessions'[s] = sessions[s],
         PendingOf(s, pending)' = PendingOf(s, pending),
         \A r \in PendingOf(s, pending) : hook'[r] = "waiting" => hook[r] = "waiting"
  PROVE  ShownAt(s)'
<1>1. Blocked(s)' => Blocked(s)
  BY DEF Blocked
<1> QED
  BY <1>1 DEF ShownAt, Alerting, Truthful, Known

LEMMA SettleShown ==
  ASSUME Consistent, Shown, NEW r \in pending, NEW d, NEW source, NEW connection,
         Settle(r, d, source, connection), UNCHANGED <<ticket, hook>>
  PROVE  Shown'
<1> SUFFICES ASSUME NEW s \in Sessions PROVE ShownAt(s)'
  BY DEF Shown
<1>1. ShownAt(s) /\ sessions[s] \in Session
  BY DEF Shown, Consistent, TypeOK
<1>2. pending' = pending \ {r} /\ sessions' = Remark(ticket[r].session, pending \ {r})
  BY DEF Settle
<1>3. PendingOf(s, pending)' = PendingOf(s, pending \ {r})
  BY <1>2 DEF PendingOf
<1>4. CASE ticket[r].session = s
  <2>1. s # Anonymous
    BY NamesAreDistinct
  <2>2. sessions'[s] = Reminded(sessions[s], PendingOf(s, pending \ {r}))
    BY <1>2, <1>4, <2>1 DEF Remark, Reminded, Consistent, TypeOK
  <2>3. /\ PendingOf(s, pending \ {r}) \subseteq PendingOf(s, pending)
        /\ PendingOf(s, pending \ {r}) \subseteq Requests
    BY DEF PendingOf, Consistent, TypeOK
  <2>4. Blocked(s)' \in BOOLEAN /\ (Blocked(s)' => PendingOf(s, pending \ {r}) # {})
    BY <1>3 DEF Blocked
  <2>5. /\ Truthful(sessions'[s], PendingOf(s, pending \ {r}))
        /\ Alerting(sessions'[s], Blocked(s)')
    BY <1>1, <2>2, <2>3, <2>4, ReminderIsTruthful DEF ShownAt
  <2> QED
    BY <1>3, <2>5 DEF ShownAt, Alerting, Truthful, Known
<1>5. CASE ticket[r].session # s
  <2>1. PendingOf(s, pending)' = PendingOf(s, pending)
    BY <1>3, <1>5 DEF PendingOf
  <2>2. sessions'[s] = sessions[s]
    BY <1>2, <1>5 DEF Remark, Consistent, TypeOK
  <2> QED
    BY <1>1, <2>1, <2>2, UntouchedSessionIsShown
<1> QED
  BY <1>4, <1>5

LEMMA RequestShown ==
  ASSUME Consistent, Shown, NEW r \in Requests, NEW t \in Ticket, Request(r, t)
  PROVE  Shown'
<1> SUFFICES ASSUME NEW s \in Sessions PROVE ShownAt(s)'
  BY DEF Shown
<1>1. ShownAt(s) /\ sessions[s] \in Session
  BY DEF Shown, Consistent, TypeOK
<1>2. /\ r = nextId /\ r \notin pending
      /\ ticket' = [ticket EXCEPT ![r] = t] /\ hook' = [hook EXCEPT ![r] = "waiting"]
      /\ t.session = s => sessions[s].status # "absent"
  <2>1. r = nextId
    BY DEF Request
  <2>2. r \notin pending
    BY <2>1 DEF Consistent, Untouched, OpenEverywhereOrNowhere, TypeOK
  <2>3. t.session = s => sessions[s].status # "absent"
    BY NamesAreDistinct DEF Request
  <2> QED
    BY <2>1, <2>2, <2>3 DEF Request
<1>3. \A q \in pending : ticket'[q] = ticket[q] /\ hook'[q] = hook[q]
  BY <1>2 DEF Consistent, TypeOK
<1>4. CASE /\ sessions'[s] = sessions[s]
           /\ pending' = pending \/ (pending' = pending \cup {r} /\ t.session # s)
  <2>1. ticket'[r] = t
    BY <1>2 DEF Consistent, TypeOK
  <2>2. PendingOf(s, pending)' = PendingOf(s, pending)
    BY <1>3, <1>4, <2>1 DEF PendingOf
  <2>3. \A q \in PendingOf(s, pending) : hook'[q] = hook[q]
    BY <1>3 DEF PendingOf
  <2> QED
    BY <1>1, <1>4, <2>2, <2>3, UntouchedSessionIsShown
<1>5. CASE PolicyDecides(r, t) \/ RuleDecides(r, t) \/ QueueIsFull(r, t)
  BY <1>4, <1>5 DEF PolicyDecides, RuleDecides, QueueIsFull, AnswerAtOnce
<1>6. CASE Enqueue(r, t) /\ t.session # s
  BY <1>4, <1>6 DEF Enqueue, Consistent, TypeOK
<1>7. CASE Enqueue(r, t) /\ t.session = s
  <2> DEFINE x == sessions[s]
  <2>1. s # Anonymous
    BY NamesAreDistinct
  <2>2. sessions'[s] = MarkSession(x, "awaiting-permission", r)
    BY <1>7, <2>1 DEF Enqueue, Consistent, TypeOK
  <2>3. ticket'[r] = t /\ pending' = pending \cup {r}
    BY <1>2, <1>7 DEF Enqueue, Consistent, TypeOK
  <2>4. PendingOf(s, pending)' = PendingOf(s, pending) \cup {r}
    BY <1>3, <1>7, <2>3 DEF PendingOf
  <2>5. x.status # "absent"
    BY <1>2, <1>7
  <2>6. CASE ~Known(x)
    BY <1>1, <2>2, <2>4, <2>5, <2>6
    DEF MarkSession, ShownAt, Truthful, Alerting, Known
  <2>7. CASE Known(x)
    <3>1. sessions'[s] = SetStatus(x, "awaiting-permission", r)
      BY <2>2, <2>7 DEF MarkSession
    <3>2. /\ sessions'[s].question = r
          /\ sessions'[s].status \in {"exited", "awaiting-permission"}
      BY <1>1, <3>1 DEF SetStatus, Session
    <3>3. r \in PendingOf(s, pending)'
      BY <2>4
    <3> QED
      BY <3>2, <3>3 DEF ShownAt, Truthful, Alerting, Known, Live
  <2> QED
    BY <2>6, <2>7
<1> QED
  BY <1>5, <1>6, <1>7 DEF Request

LEMMA HookShown ==
  ASSUME Consistent, Shown, NEW r \in Requests,
         HookReceives(r) \/ HookLosesServer(r) \/ HookGivesUp(r)
  PROVE  Shown'
<1> SUFFICES ASSUME NEW s \in Sessions PROVE ShownAt(s)'
  BY DEF Shown
<1>1. UNCHANGED <<sessions, ticket, pending>>
  BY DEF HookReceives, HookLosesServer, HookGivesUp, asking, waiting
<1>2. hook[r] = "waiting" /\ \E a : hook' = [hook EXCEPT ![r] = a]
  BY DEF HookReceives, HookLosesServer, HookGivesUp
<1>3. \A q \in Requests : hook'[q] = "waiting" => hook[q] = "waiting"
  BY <1>2 DEF Consistent, TypeOK
<1>4. PendingOf(s, pending) \subseteq Requests
  BY DEF PendingOf, Consistent, TypeOK
<1>5. PendingOf(s, pending)' = PendingOf(s, pending)
  BY <1>1 DEF PendingOf
<1> QED
  BY <1>1, <1>3, <1>4, <1>5, UntouchedSessionIsShown DEF Shown

LEMMA SessionShown ==
  ASSUME Consistent, Shown, NEW s \in Sessions,
         \/ CreateSession(s) \/ PtyOutput(s) \/ IdleTimer(s)
         \/ \E event \in HookEvents : HookEvent(s, event)
  PROVE  Shown'
<1>1. UNCHANGED <<ticket, pending, hook>>
  BY DEF CreateSession, PtyOutput, IdleTimer, HookEvent, asking, waiting
<1>2. \A q \in Sessions : PendingOf(q, pending)' = PendingOf(q, pending)
  BY <1>1 DEF PendingOf
<1>3. ASSUME NEW q \in Sessions, q # s
      PROVE  ShownAt(q)'
  <2>1. sessions'[q] = sessions[q]
    BY <1>3 DEF CreateSession, PtyOutput, IdleTimer, HookEvent, Consistent, TypeOK
  <2> QED
    BY <1>1, <1>2, <2>1, UntouchedSessionIsShown DEF Shown
<1>4. ShownAt(s)'
  <2> DEFINE x == sessions[s]
             P == PendingOf(s, pending)
  <2>1. ShownAt(s) /\ x \in Session /\ sessions \in [Sessions -> Session]
    BY DEF Shown, Consistent, TypeOK
  <2>2. Blocked(s)' = Blocked(s) /\ Blocked(s) \in BOOLEAN
    BY <1>1, <1>2 DEF Blocked
  <2>3. SUFFICES /\ Truthful(sessions'[s], P)
                 /\ NestedAgents = FALSE /\ Shells = {}
                      => Alerting(sessions'[s], Blocked(s))
    BY <1>2, <2>2 DEF ShownAt, Truthful, Alerting, Known
  <2>4. CASE CreateSession(s)
    <3>1. x.status = "absent" /\ sessions'[s] = Spawned
      BY <2>1, <2>4 DEF CreateSession
    <3>2. P = {}
      BY <2>1, <3>1 DEF ShownAt, Truthful
    <3>3. ~Blocked(s)
      BY <3>2 DEF Blocked
    <3> QED
      BY <3>1, <3>2, <3>3, NoQuestionIsNoRequest
      DEF Spawned, Truthful, Alerting, Known, Live
  <2>5. CASE PtyOutput(s)
    <3>1. Shells # {} /\ x.status \in Live /\ sessions'[s] = MarkActivity(x)
      BY <2>1, <2>5 DEF PtyOutput
    <3> QED
      BY <2>1, <3>1, ActivityIsTruthful DEF ShownAt
  <2>6. CASE IdleTimer(s)
    <3>1. sessions'[s] = IdleTimerFires(x)
      BY <2>1, <2>6 DEF IdleTimer
    <3> QED
      BY <2>1, <2>2, <3>1, ActivityIsTruthful DEF ShownAt
  <2>7. ASSUME NEW event \in HookEvents, HookEvent(s, event)
        PROVE  /\ Truthful(sessions'[s], P)
               /\ NestedAgents = FALSE /\ Shells = {}
                    => Alerting(sessions'[s], Blocked(s))
    <3>1. /\ Known(x) /\ sessions'[s] = Apply(x, event)
          /\ NestedAgents = FALSE => ~(Blocked(s) /\ event \in Unconditional)
      BY <2>1, <2>7 DEF HookEvent
    <3> QED
      BY <2>1, <2>2, <3>1, EventIsTruthful DEF ShownAt
  <2> QED
    BY <2>4, <2>5, <2>6, <2>7
<1> QED
  BY <1>3, <1>4 DEF Shown

LEMMA SessionEndShown ==
  ASSUME Consistent, Shown, NEW s \in Sessions, Exit(s) \/ Close(s)
  PROVE  Shown'
<1>1. pending' = pending \ PendingOf(s, pending) /\ UNCHANGED <<ticket, hook>>
  BY DEF Exit, Close, AbandonSession, DenyAll, asking
<1>2. ASSUME NEW q \in Sessions, q # s
      PROVE  ShownAt(q)'
  <2>1. sessions'[q] = sessions[q]
    BY <1>2 DEF Exit, Close, Consistent, TypeOK
  <2>2. PendingOf(q, pending)' = PendingOf(q, pending)
    BY <1>1, <1>2 DEF PendingOf
  <2> QED
    BY <1>1, <2>1, <2>2, UntouchedSessionIsShown DEF Shown
<1>3. ShownAt(s)'
  <2> DEFINE x == sessions[s]
             P == PendingOf(s, pending)
  <2>1. ShownAt(s) /\ x \in Session /\ sessions \in [Sessions -> Session]
    BY DEF Shown, Consistent, TypeOK
  <2>2. PendingOf(s, pending)' = {}
    BY <1>1 DEF PendingOf
  <2>3. ~Blocked(s)'
    BY <2>2 DEF Blocked
  <2>4. SUFFICES Truthful(sessions'[s], {})
    BY <2>2, <2>3 DEF ShownAt, Truthful, Alerting, Known
  <2>5. CASE Exit(s)
    <3>1. Truthful(Exited(x), P) /\ Exited(x) \in Session
      BY <2>1, ActivityIsTruthful, StatusOperatorsReturnSessions DEF ShownAt
    <3>2. Truthful(Reminded(Exited(x), {}), {})
      BY <3>1, ReminderIsTruthful
    <3>3. sessions'[s] = IF P = {} THEN Exited(x)
                         ELSE MarkSession(Exited(x), "busy", NoQuestion)
      BY <2>1, <2>5 DEF Exit
    <3> QED
      BY <3>1, <3>2, <3>3 DEF Reminded
  <2>6. CASE Close(s)
    <3>1. sessions'[s] = Gone
      BY <2>1, <2>6 DEF Close
    <3> QED
      BY <3>1, NoQuestionIsNoRequest DEF Gone, Truthful
  <2> QED
    BY <2>5, <2>6
<1> QED
  BY <1>2, <1>3 DEF Shown

LEMMA ServerShown ==
  ASSUME Consistent, Shown, Shutdown \/ Crash \/ Restart
  PROVE  Shown'
<1> SUFFICES ASSUME NEW s \in Sessions PROVE ShownAt(s)'
  BY DEF Shown
<1>1. CASE Restart
  <2>1. UNCHANGED <<sessions, ticket, pending, hook>>
    BY <1>1 DEF Restart, asking, waiting
  <2>2. PendingOf(s, pending)' = PendingOf(s, pending)
    BY <2>1 DEF PendingOf
  <2> QED
    BY <2>1, <2>2, UntouchedSessionIsShown DEF Shown
<1>2. CASE Shutdown \/ Crash
  <2>1. pending' = {} /\ Forget
    BY <1>2 DEF Shutdown, Crash, DenyAll
  <2>2. PendingOf(s, pending)' = {}
    BY <2>1 DEF PendingOf
  <2>3. ~Blocked(s)'
    BY <2>2 DEF Blocked
  <2>4. sessions'[s] = IF Known(sessions[s]) THEN Gone ELSE sessions[s]
    BY <2>1 DEF Forget
  <2>5. Truthful(sessions[s], PendingOf(s, pending))
    BY DEF Shown, ShownAt
  <2>6. Truthful(sessions'[s], {})
    BY <2>4, <2>5, NoQuestionIsNoRequest DEF Gone, Truthful, Known, Live
  <2> QED
    BY <2>2, <2>3, <2>6 DEF ShownAt, Truthful, Alerting, Known
<1> QED
  BY <1>1, <1>2

LEMMA InitShown == Init => Shown
<1> SUFFICES ASSUME Init, NEW s \in Sessions PROVE ShownAt(s)
  BY DEF Shown
<1>1. sessions[s] = Absent /\ PendingOf(s, pending) = {}
  BY DEF Init, PendingOf
<1>2. ~Blocked(s)
  BY <1>1 DEF Blocked
<1> QED
  BY <1>1, <1>2, NoQuestionIsNoRequest DEF ShownAt, Truthful, Alerting, Absent

LEMMA NextShown == Consistent /\ Shown /\ [Next]_vars => Shown'
<1> SUFFICES ASSUME Consistent, Shown, [Next]_vars PROVE Shown'
  OBVIOUS
<1>1. ASSUME NEW r \in Requests, NEW t \in Ticket, Request(r, t)
      PROVE  Shown'
  BY <1>1, RequestShown
<1>2. ASSUME NEW r \in Requests, NEW d \in {"allow", "deny"}, NEW scope \in Scopes,
             NEW pattern \in Patterns, NEW folder \in Folders,
             Decide(r, d, scope, pattern, folder)
      PROVE  Shown'
  BY <1>2, SettleShown DEF Decide, asking
<1>3. ASSUME NEW r \in Requests, Timeout(r) \/ OnClose(r)
      PROVE  Shown'
  BY <1>3, SettleShown DEF Timeout, OnClose, asking, Consistent, OpenEverywhereOrNowhere
<1>4. ASSUME NEW r \in Requests, HookReceives(r) \/ HookLosesServer(r) \/ HookGivesUp(r)
      PROVE  Shown'
  BY <1>4, HookShown
<1>5. ASSUME NEW s \in Sessions,
             \/ CreateSession(s) \/ PtyOutput(s) \/ IdleTimer(s)
             \/ \E event \in HookEvents : HookEvent(s, event)
      PROVE  Shown'
  BY <1>5, SessionShown
<1>6. ASSUME NEW s \in Sessions, Exit(s) \/ Close(s)
      PROVE  Shown'
  BY <1>6, SessionEndShown
<1>7. CASE \/ (\E u \in rules : DeleteRule(u)) \/ SaveHits \/ Purge
           \/ UNCHANGED vars
  <2> SUFFICES ASSUME NEW s \in Sessions PROVE ShownAt(s)'
    BY DEF Shown
  <2>1. UNCHANGED <<sessions, ticket, pending, hook>>
    BY <1>7 DEF DeleteRule, SaveHits, Purge, asking, waiting, vars
  <2>2. PendingOf(s, pending)' = PendingOf(s, pending)
    BY <2>1 DEF PendingOf
  <2> QED
    BY <2>1, <2>2, UntouchedSessionIsShown DEF Shown
<1>8. CASE Shutdown \/ Crash \/ Restart
  BY <1>8, ServerShown
<1> QED
  BY <1>1, <1>2, <1>3, <1>4, <1>5, <1>6, <1>7, <1>8 DEF Next

LEMMA AlwaysShown == SafetySpec => []Shown
  BY AlwaysConsistent, InitShown, NextShown, PTL DEF SafetySpec

(* A session reported as blocked always has a request an operator can still *)
(* answer, whatever agents, shells, deadlines and disconnects do (settle,   *)
(* markSession, abandonSession).                                            *)
THEOREM BlocksAreReal == SafetySpec => []NoFalseBlock
<1>1. Shown => NoFalseBlock
  BY DEF Shown, ShownAt, Truthful, NoFalseBlock
<1> QED
  BY <1>1, AlwaysShown, PTL

(* The question on display is always that of a request still waiting, and   *)
(* of that session's own (settle, _nextPendingFor).                         *)
THEOREM QuestionsAreCurrent == SafetySpec => []NoStaleQuestion
<1>1. Shown => NoStaleQuestion
  BY DEF Shown, ShownAt, Truthful, NoStaleQuestion, PendingOf
<1> QED
  BY <1>1, AlwaysShown, PTL

(* Where each session runs one agent, and that agent is Claude Code, a live *)
(* session whose agent is held is reported as blocked until nothing holds   *)
(* it any more (settle, _setStatusUnlessBlocked). Both conditions are       *)
(* needed: the runs show what happens without the first.                    *)
THEOREM HeldAgentsAreShown ==
  ASSUME NestedAgents = FALSE, Shells = {}
  PROVE  SafetySpec => []BlockedIsShown
<1>1. Shown => BlockedIsShown
  BY DEF Shown, ShownAt, Alerting, BlockedIsShown
<1> QED
  BY <1>1, AlwaysShown, PTL

-----------------------------------------------------------------------------
(* The rules on disk.                                                       *)

(* As long as the rules file can be written, a rule is on disk in the step  *)
(* that makes it, and off the disk in the step that deletes it: a crash at  *)
(* any moment loses no decision to always allow or deny (addRule,           *)
(* deleteRule, saveRules).                                                  *)
THEOREM RulesSurviveCrashes ==
  ASSUME Writes = {TRUE}
  PROVE  SafetySpec => []RulesAreOnDisk
<1>1. Init => RulesAreOnDisk
  BY DEF Init, RulesAreOnDisk
<1>2. ASSUME RulesAreOnDisk, [Next]_vars
      PROVE  RulesAreOnDisk'
  <2>1. ASSUME NEW list, SaveRules(list), rules' = list
        PROVE  RulesAreOnDisk'
    BY <2>1 DEF SaveRules, RulesAreOnDisk
  <2>2. ASSUME UNCHANGED <<up, rules, file>>
        PROVE  RulesAreOnDisk'
    BY <1>2, <2>2 DEF RulesAreOnDisk
  <2>3. ASSUME NEW r \in Requests, NEW t \in Ticket, Request(r, t)
        PROVE  RulesAreOnDisk'
    BY <2>2, <2>3 DEF Request
  <2>4. ASSUME NEW r \in Requests, NEW d \in {"allow", "deny"}, NEW scope \in Scopes,
               NEW pattern \in Patterns, NEW folder \in Folders,
               Decide(r, d, scope, pattern, folder)
        PROVE  RulesAreOnDisk'
    BY <2>1, <2>2, <2>4 DEF Decide
  <2>5. ASSUME NEW r \in Requests,
               \/ Timeout(r) \/ OnClose(r)
               \/ HookReceives(r) \/ HookLosesServer(r) \/ HookGivesUp(r)
        PROVE  RulesAreOnDisk'
    BY <2>2, <2>5 DEF Timeout, OnClose, HookReceives, HookLosesServer, HookGivesUp, ruling
  <2>6. ASSUME NEW s \in Sessions,
               \/ CreateSession(s) \/ PtyOutput(s) \/ IdleTimer(s)
               \/ (\E event \in HookEvents : HookEvent(s, event))
               \/ Exit(s) \/ Close(s)
        PROVE  RulesAreOnDisk'
    BY <2>2, <2>6 DEF CreateSession, PtyOutput, IdleTimer, HookEvent, Exit, Close, ruling
  <2>7. ASSUME NEW u \in rules, DeleteRule(u)
        PROVE  RulesAreOnDisk'
    BY <2>1, <2>7 DEF DeleteRule
  <2>8. CASE SaveHits
    BY <2>1, <2>8 DEF SaveHits
  <2>9. CASE Purge \/ UNCHANGED vars
    BY <2>2, <2>9 DEF Purge, vars
  <2>10. CASE Shutdown \/ Crash
    BY <2>10 DEF Shutdown, Crash, Forget, RulesAreOnDisk
  <2>11. CASE Restart
    BY <2>11 DEF Restart, RulesAreOnDisk
  <2> QED
    BY <1>2, <2>3, <2>4, <2>5, <2>6, <2>7, <2>8, <2>9, <2>10, <2>11 DEF Next
<1> QED
  BY <1>1, <1>2, PTL DEF SafetySpec
-----------------------------------------------------------------------------
(* What allows a call.                                                      *)

(* Nothing but a policy, or a rule that no deny rule outranks, lets a call  *)
(* through that no human has seen.                                          *)
Warranted(r) ==
  LET t     == ticket'[r]
      known == sessionRules[t.session] \cup rules
      Covers(u) == /\ u.call \in {t.call, Anything}
                   /\ u.dir \in {t.dir, Anywhere}
  IN \/ Policy[t.call] = "allow"
     \/ /\ Policy[t.call] = "none"
        /\ \E u \in known : u.decision = "allow" /\ Covers(u)
        /\ \A u \in known : Covers(u) => u.decision = "allow"

(* The only request a step can allow is the one it answers.                 *)
Unasked(r) == verdict[r] = NoVerdict /\ verdict'[r].decision = "allow" /\ r \notin pending

LEMMA UnansweredIsNotAllowed ==
  ASSUME NEW r, verdict[r] = NoVerdict, verdict'[r] = verdict[r]
  PROVE  ~Unasked(r)
  BY DEF Unasked, NoVerdict

LEMMA RulesWarrant ==
  ASSUME TypeOK, NEW t \in Ticket, MatchedDecision(t) = "allow"
  PROVE  LET known == sessionRules[t.session] \cup rules
         IN /\ \E u \in known : u.decision = "allow" /\ RuleMatches(u, t)
            /\ \A u \in known : RuleMatches(u, t) => u.decision = "allow"
<1>1. Matching(t, "deny") = {} /\ Matching(t, "allow") # {}
  BY DEF MatchedDecision
<1>2. \A u \in Candidates(t) : u.decision \in {"allow", "deny"}
  <2>1. t.session \in Askers
    BY DEF Ticket
  <2>2. Candidates(t) \subseteq Rule
    BY <2>1 DEF TypeOK, Candidates
  <2> QED
    BY <2>2 DEF Rule
<1> QED
  BY <1>1, <1>2 DEF Matching, Candidates

LEMMA RequestIsWarranted ==
  ASSUME Consistent, NEW q \in Requests, NEW t \in Ticket, Request(q, t),
         NEW r \in Requests, Unasked(r)
  PROVE  Warranted(r)
<1>1. verdict \in [Requests -> Verdict \cup {NoVerdict}] /\ ticket \in [Requests -> Ticket]
      /\ UNCHANGED <<rules, sessionRules>>
  BY DEF Consistent, TypeOK, Request
<1>2. CASE r # q
  <2>1. verdict'[r] = verdict[r]
    BY <1>1, <1>2 DEF Request, PolicyDecides, RuleDecides, QueueIsFull, Enqueue, AnswerAtOnce
  <2> QED
    BY <2>1, UnansweredIsNotAllowed DEF Unasked
<1>3. CASE r = q
  <2>1. ticket'[r] = t
    BY <1>1, <1>3 DEF Request
  <2>2. CASE PolicyDecides(q, t)
    <3>1. verdict'[r].decision = Policy[t.call]
      BY <1>1, <1>3, <2>2 DEF PolicyDecides, AnswerAtOnce
    <3> QED
      BY <2>1, <3>1 DEF Unasked, Warranted
  <2>3. CASE RuleDecides(q, t)
    <3>1. verdict'[r].decision = RuleOf(t)
      BY <1>1, <1>3, <2>3 DEF RuleDecides, AnswerAtOnce
    <3>2. RuleOf(t) = "allow"
      BY <3>1 DEF Unasked
    <3>3. Policy[t.call] = "none" /\ MatchedDecision(t) = "allow"
      BY <3>2 DEF RuleOf
    <3>4. LET known == sessionRules[t.session] \cup rules
          IN /\ \E u \in known : u.decision = "allow" /\ RuleMatches(u, t)
             /\ \A u \in known : RuleMatches(u, t) => u.decision = "allow"
      BY <3>3, RulesWarrant DEF Consistent
    <3> QED
      BY <2>1, <3>3, <3>4 DEF Warranted, RuleMatches
  <2>4. CASE QueueIsFull(q, t)
    <3>1. verdict'[r].decision = "ask"
      BY <1>1, <1>3, <2>4 DEF QueueIsFull, AnswerAtOnce
    <3> QED
      BY <3>1 DEF Unasked
  <2>5. CASE Enqueue(q, t)
    <3>1. verdict'[r] = verdict[r]
      BY <2>5 DEF Enqueue
    <3> QED
      BY <3>1, UnansweredIsNotAllowed DEF Unasked
  <2> QED
    BY <2>2, <2>3, <2>4, <2>5 DEF Request
<1> QED
  BY <1>2, <1>3

(* Every other step denies, or answers what a human has before him.         *)
LEMMA OthersAllowNothing ==
  ASSUME Consistent, [Next]_vars, ~(\E q \in Requests, t \in Ticket : Request(q, t)),
         NEW r \in Requests
  PROVE  ~Unasked(r)
<1>0. verdict \in [Requests -> Verdict \cup {NoVerdict}]
  BY DEF Consistent, TypeOK
<1>1. ASSUME NEW q \in Requests, NEW d, NEW source, NEW connection,
             Settle(q, d, source, connection), q \in pending \/ d = "deny"
      PROVE  ~Unasked(r)
  <2>1. CASE q = r
    <3>1. verdict'[r].decision = d
      BY <1>0, <1>1, <2>1 DEF Settle
    <3> QED
      BY <1>1, <2>1, <3>1 DEF Unasked
  <2>2. CASE q # r
    <3>1. verdict'[r] = verdict[r]
      BY <1>0, <1>1, <2>2 DEF Settle
    <3> QED
      BY <3>1, UnansweredIsNotAllowed DEF Unasked
  <2> QED
    BY <2>1, <2>2
<1>2. ASSUME NEW R, DenyAll(R)
      PROVE  ~Unasked(r)
  <2>1. verdict'[r] = IF r \in R THEN [decision |-> "deny", source |-> "timeout"] ELSE verdict[r]
    BY <1>2 DEF DenyAll
  <2>2. CASE r \in R
    BY <2>1, <2>2 DEF Unasked
  <2>3. CASE r \notin R
    BY <2>1, <2>3, UnansweredIsNotAllowed DEF Unasked
  <2> QED
    BY <2>2, <2>3
<1>3. ASSUME UNCHANGED verdict
      PROVE  ~Unasked(r)
  BY <1>3, UnansweredIsNotAllowed DEF Unasked
<1>4. ASSUME NEW q \in Requests, NEW d \in {"allow", "deny"}, NEW scope \in Scopes,
             NEW pattern \in Patterns, NEW folder \in Folders,
             Decide(q, d, scope, pattern, folder)
      PROVE  ~Unasked(r)
  BY <1>1, <1>4 DEF Decide
<1>5. ASSUME NEW q \in Requests, Timeout(q) \/ OnClose(q)
      PROVE  ~Unasked(r)
  BY <1>1, <1>5 DEF Timeout, OnClose
<1>6. ASSUME NEW q \in Requests, HookReceives(q) \/ HookLosesServer(q) \/ HookGivesUp(q)
      PROVE  ~Unasked(r)
  BY <1>3, <1>6 DEF HookReceives, HookLosesServer, HookGivesUp, waiting
<1>7. ASSUME NEW s \in Sessions,
             \/ CreateSession(s) \/ PtyOutput(s) \/ IdleTimer(s)
             \/ \E event \in HookEvents : HookEvent(s, event)
      PROVE  ~Unasked(r)
  BY <1>3, <1>7 DEF CreateSession, PtyOutput, IdleTimer, HookEvent, waiting
<1>8. ASSUME NEW s \in Sessions, Exit(s) \/ Close(s)
      PROVE  ~Unasked(r)
  BY <1>2, <1>8 DEF Exit, Close, AbandonSession
<1>9. CASE (\E u \in rules : DeleteRule(u)) \/ SaveHits \/ Purge \/ UNCHANGED vars
  BY <1>3, <1>9 DEF DeleteRule, SaveHits, Purge, vars, waiting
<1>10. CASE Shutdown \/ Crash \/ Restart
  BY <1>2, <1>3, <1>10 DEF Shutdown, Crash, Restart, waiting
<1> QED
  BY <1>4, <1>5, <1>6, <1>7, <1>8, <1>9, <1>10 DEF Next

(* Without a human a call is allowed only by a policy that allows it, or by *)
(* a stored rule when the policy is silent and no deny rule covers it,      *)
(* whatever the rules, the order they were made in, and whatever ends,      *)
(* decisions and deadlines race with the request (request, matchRule).      *)
THEOREM DenialsPrevail == SafetySpec => DenyOutranksAllow
<1>1. ASSUME Consistent, [Next]_vars
      PROVE  \A r \in Requests : Unasked(r) => Warranted(r)
  BY <1>1, RequestIsWarranted, OthersAllowNothing
<1>2. Consistent /\ [Next]_vars =>
        [\A r \in Requests :
           /\ verdict[r] = NoVerdict
           /\ verdict'[r].decision = "allow"
           /\ r \notin pending
           => LET t     == ticket'[r]
                  known == sessionRules[t.session] \cup rules
                  Covers(u) == /\ u.call \in {t.call, Anything}
                               /\ u.dir \in {t.dir, Anywhere}
              IN \/ Policy[t.call] = "allow"
                 \/ /\ Policy[t.call] = "none"
                    /\ \E u \in known : u.decision = "allow" /\ Covers(u)
                    /\ \A u \in known : Covers(u) => u.decision = "allow"]_vars
  BY <1>1 DEF Unasked, Warranted
<1> QED
  BY <1>2, AlwaysConsistent, PTL DEF SafetySpec, DenyOutranksAllow
==============================================================================
