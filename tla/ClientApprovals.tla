---------------------------- MODULE ClientApprovals ----------------------------
(***************************************************************************)
(* The permission queue as one page shows it: the list of store.js, the     *)
(* cards of approvals-ui.js and the alert pill of app.js. The server tells  *)
(* of requests over the socket, in order; the page also asks for the whole  *)
(* list over HTTP, at every request and every minute, and those answers     *)
(* come when they come.                                                     *)
(***************************************************************************)
EXTENDS Naturals, FiniteSets, Sequences

CONSTANTS
  Requests,     \* bound: permission requests
  Rules,        \* bound: standing rules
  Gets,         \* bound: GET /api/approvals that may be under way at once
  MaxBreaks, MaxPresses   \* bound: how often the link breaks, a button is pressed

VARIABLES
  asked, open,  \* requests ever made, and those still waiting at the server
  rules,        \* its standing rules
  version,      \* history: how often it had news of the queue
  link,         \* "down", "open" until READY is read, then "ready"
  down,         \* frames under way to the page
  decisions,    \* decisions under way, or in the offline queue
  get,          \* Gets -> [state, ver, pending, rules]
  list, known,  \* state.approvals, state.approvalRules
  submitting, resolved, revoked,     \* of ApprovalsView
  breaks, presses,
  read,         \* history: the newest version the page has read of
  overtaken     \* history: is the list older than what was read before it

queue == <<asked, open, rules, version>>
wire  == <<link, down, decisions, get>>
cards == <<list, known, submitting, resolved, revoked>>
avars == <<queue, wire, cards, breaks, presses, read, overtaken>>

Idle == [state |-> "idle", ver |-> 0, pending |-> {}, rules |-> {}]
Answer == [state |-> "answered", ver |-> version, pending |-> open, rules |-> rules]

Init ==
  /\ asked = {} /\ open = {} /\ rules = {} /\ version = 0
  /\ link = "down" /\ down = <<>> /\ decisions = <<>> /\ get = [g \in Gets |-> Idle]
  /\ list = {} /\ known = {} /\ submitting = {} /\ resolved = {} /\ revoked = {}
  /\ breaks = 0 /\ presses = 0 /\ read = 0 /\ overtaken = FALSE

-----------------------------------------------------------------------------
(* The server *)
Broadcast(kind, r) ==
  down' = IF link = "down" THEN down
          ELSE Append(down, [t |-> kind, id |-> r, ver |-> version'])

Request(r) ==
  /\ r \notin asked /\ asked' = asked \cup {r} /\ open' = open \cup {r}
  /\ version' = version + 1
  /\ Broadcast("request", r)
  /\ UNCHANGED <<rules, link, decisions, get, cards, breaks, presses, read, overtaken>>

(* Its deadline, another page, or the end of the agent that asked.           *)
Settles(r) ==
  /\ r \in open /\ open' = open \ {r}
  /\ version' = version + 1
  /\ Broadcast("resolved", r)
  /\ UNCHANGED <<asked, rules, link, decisions, get, cards, breaks, presses, read, overtaken>>

(* A decision of this page. One that comes too late finds nothing. An        *)
(* "always" leaves a rule, of which the page is told by a frame it does not  *)
(* know (APPROVAL_RULES), so that none is sent here.                         *)
Decide ==
  /\ link # "down" /\ decisions # <<>> /\ decisions' = Tail(decisions)
  /\ LET d == Head(decisions) IN
     IF d.id \in open
     THEN /\ open' = open \ {d.id} /\ version' = version + 1
          /\ Broadcast("resolved", d.id)
          /\ IF d.always THEN \E u \in Rules : rules' = rules \cup {u} ELSE UNCHANGED rules
     ELSE UNCHANGED <<open, version, rules, down>>
  /\ UNCHANGED <<asked, link, get, cards, breaks, presses, read, overtaken>>

(* GET /api/approvals: what the server has when it answers. It may fail.     *)
Answers(g) ==
  /\ get[g].state = "asked"
  /\ \E a \in {Answer, Idle} : get' = [get EXCEPT ![g] = a]
  /\ UNCHANGED <<queue, link, down, decisions, cards, breaks, presses, read, overtaken>>

(* The link breaks, with what is under way; READY goes out when it is back.  *)
Breaks ==
  /\ link # "down" /\ breaks < MaxBreaks /\ breaks' = breaks + 1
  /\ link' = "down" /\ down' = <<>>
  /\ \E lost \in 0..Len(decisions) : decisions' = SubSeq(decisions, lost + 1, Len(decisions))
  /\ UNCHANGED <<queue, get, cards, presses, read, overtaken>>
Connects ==
  /\ link = "down" /\ link' = "open"
  /\ down' = <<[t |-> "ready", ver |-> version, pending |-> open, rules |-> rules]>>
  /\ UNCHANGED <<queue, decisions, get, cards, breaks, presses, read, overtaken>>

-----------------------------------------------------------------------------
(* render(): what the server called resolved is hidden until the store has   *)
(* dropped it, what was revoked here until the rules have (pending,          *)
(* renderRules).                                                             *)
Render(l, k, res, rev) ==
  /\ list' = l /\ known' = k
  /\ resolved' = res \cap l /\ revoked' = rev \cap k

Shown == list \ resolved

Ask == \E g \in Gets : get[g].state = "idle" /\ get' = [get EXCEPT ![g].state = "asked"]
AllBusy == \A g \in Gets : get[g].state # "idle"

(* _route, then the listeners of the view and of the app. The store has      *)
(* dropped the request before settle() remembers it as resolved.             *)
ReadResolved(id) ==
  /\ submitting' = submitting \ {id}
  /\ Render(list \ {id}, known, resolved \cup {id}, revoked)
ReadRequest(id) ==
  /\ Render(list \cup {id}, known, resolved, revoked)
  /\ UNCHANGED submitting

(* Wrong on purpose: READY adds to the list instead of replacing it.         *)
MergeReady(m) ==
  /\ Render(list \cup m.pending, m.rules, resolved, revoked)
  /\ UNCHANGED submitting

ReadReady(m) ==
  /\ Render(m.pending, m.rules, resolved, revoked)
  /\ UNCHANGED submitting

Read ==
  LET m == Head(down) IN
  /\ down # <<>> /\ down' = Tail(down) /\ read' = m.ver
  /\ \/ m.t = "request" /\ ReadRequest(m.id) /\ (Ask \/ (AllBusy /\ UNCHANGED get))
     \/ m.t = "resolved" /\ ReadResolved(m.id) /\ UNCHANGED get
     \/ m.t = "ready" /\ ReadReady(m) /\ UNCHANGED get
  /\ link' = IF m.t = "ready" THEN "ready" ELSE link
  /\ overtaken' = IF m.t = "ready" THEN FALSE ELSE overtaken
  /\ UNCHANGED <<queue, decisions, breaks, presses>>

(* The minute's refreshRest, and what became of any GET.                     *)
Poll == Ask /\ UNCHANGED <<queue, link, down, decisions, cards, breaks, presses, read, overtaken>>
ReadList(g) ==
  /\ get[g].state = "answered" /\ get' = [get EXCEPT ![g] = Idle]
  /\ Render(get[g].pending, get[g].rules, resolved, revoked)
  /\ overtaken' = (get[g].ver < read)
  /\ UNCHANGED <<queue, link, down, decisions, submitting, breaks, presses, read>>

-----------------------------------------------------------------------------
(* The user: the buttons of a card, or of its rule form. A busy card has     *)
(* none.                                                                     *)
Press(r, always) ==
  /\ r \in Shown \ submitting /\ presses < MaxPresses /\ presses' = presses + 1
  /\ submitting' = submitting \cup {r}
  /\ decisions' = Append(decisions, [id |-> r, always |-> always])
  /\ Render(list, known, resolved, revoked)
  /\ UNCHANGED <<queue, link, down, get, breaks, read, overtaken>>

(* tick(): no confirmation in DECISION_WATCHDOG_MS; or any error message of  *)
(* the server, which frees every card.                                       *)
Watchdog ==
  /\ submitting # {}
  /\ submitting' \in SUBSET submitting /\ submitting' # submitting
  /\ Render(list, known, resolved, revoked)
  /\ UNCHANGED <<queue, wire, breaks, presses, read, overtaken>>

RevokeRule(u) ==
  /\ u \in known \ revoked
  /\ rules' = rules \ {u}
  /\ Render(list, known, resolved, IF u \in rules THEN revoked \cup {u} ELSE revoked)
  /\ UNCHANGED <<asked, open, version, wire, submitting, breaks, presses, read, overtaken>>

Next ==
  \/ \E r \in Requests : \/ Request(r) \/ Settles(r)
                         \/ \E always \in BOOLEAN : Press(r, always)
  \/ \E g \in Gets : Answers(g) \/ ReadList(g)
  \/ \E u \in Rules : RevokeRule(u)
  \/ Decide \/ Breaks \/ Connects \/ Read \/ Poll \/ Watchdog

Spec == Init /\ [][Next]_avars

-----------------------------------------------------------------------------
(* Properties *)

(* The cards are the requests that wait at the server once everything under  *)
(* way has been read, whatever order the frames and the lists came in: only  *)
(* a list that is older than the news read before it can leave them wrong,   *)
(* and the next list or READY puts them right.                               *)
CardsAreTheQueue ==
  link = "ready" /\ down = <<>> /\ ~overtaken => Shown = open

==============================================================================
