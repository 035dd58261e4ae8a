----------------------------- MODULE ClientSessions -----------------------------
(***************************************************************************)
(* The sessions as one page shows them: the table of public/js/store.js,    *)
(* kept by what connection.js routes to it, and the panels and buttons of   *)
(* app.js, against the sessions the server has. The socket delivers in       *)
(* order, and loses what is under way when it breaks; a server that is       *)
(* replaced has none of the sessions of the one before.                      *)
(***************************************************************************)
EXTENDS Naturals, FiniteSets, SequencesExt

CONSTANTS
  OwnIds,       \* ids of sessions the server starts (UUIDs: never used twice)
  Strangers,    \* ids of external agents (derived from host and conversation)
  QueueMax,     \* QUEUE_MAX, the offline queue
  MaxNews,      \* bound: what happens at the server of its own accord
  MaxBreaks,    \* bound: how often the link breaks
  MaxClicks,    \* bound: what the user asks for
  None

VARIABLES
  srv,          \* the server's sessions, in its order: [id, status]
  used,         \* own ids that were given
  watch,        \* the sessions the server delivers to this socket
  link, ready,  \* is the socket open, and has READY been read on it
  down, up,     \* frames under way, to the page and from it
  queue,        \* Connection.queue
  page,         \* [list, closed, active, attached, panels, out], see below
  restarting,   \* App.restarting
  breaks, clicks, news,
  abandoned     \* history: sessions whose close was lost on the way

server == <<srv, used, watch>>
wires  == <<link, ready, down, up, queue>>
svars  == <<server, wires, page, restarting, breaks, clicks, news, abandoned>>

Ids == OwnIds \cup Strangers
IdsOf(l) == {l[i].id : i \in DOMAIN l}
Entry(l, id) == CHOOSE s \in Range(l) : s.id = id
Position(l, id) == CHOOSE i \in DOMAIN l : l[i].id = id
Without(l, id) == IF id \in IdsOf(l) THEN RemoveAt(l, Position(l, id)) ELSE l
Merged(l, s) ==
  IF s.id \in IdsOf(l) THEN [i \in DOMAIN l |-> IF l[i].id = s.id THEN s ELSE l[i]]
  ELSE Append(l, s)
Session(id, status) == [id |-> id, status |-> status]
Frame(t, id) == [t |-> t, id |-> id]
News(s) == [t |-> "session", session |-> s]

(* The page. list: state.sessions in state.order. closed: _closedIds.        *)
(* active: activeId. attached: the sessions the connection asks for again    *)
(* after a break. panels: App.terms. out: what it has to send.               *)
Blank == [list |-> <<>>, closed |-> {}, active |-> None, attached |-> {},
          panels |-> {}, out |-> <<>>]

Init ==
  /\ srv = <<>> /\ used = {} /\ watch = {}
  /\ link = FALSE /\ ready = FALSE /\ down = <<>> /\ up = <<>> /\ queue = <<>>
  /\ page = Blank /\ restarting = {}
  /\ breaks = 0 /\ clicks = 0 /\ news = 0 /\ abandoned = {}

-----------------------------------------------------------------------------
(* The page's table *)

(* One message for each session; in which order makes no difference, as they *)
(* ask for the output of different sessions.                                 *)
Attaches(ids) == SetToSeq({Frame("attach", id) : id \in ids})

(* syncGrid: a panel for every session, each attaching for itself.           *)
Sync(p) ==
  LET new == IdsOf(p.list) \ p.panels IN
  [p EXCEPT !.panels = IdsOf(p.list), !.attached = @ \cup new, !.out = @ \o Attaches(new)]

(* upsertSession: a session that was closed stays closed.                    *)
upsertSession(p, s) ==
  IF s.id \in p.closed THEN p
  ELSE LET q == Sync([p EXCEPT !.list = Merged(@, s)])
       IN IF q.active = None THEN [q EXCEPT !.active = s.id] ELSE q

markExited(p, id) ==
  IF id \in IdsOf(p.list) THEN upsertSession(p, Session(id, "exited")) ELSE p

(* removeSession: the neighbour becomes the active one.                      *)
Neighbour(l, i) == IF l = <<>> THEN None ELSE l[IF i <= Len(l) THEN i ELSE Len(l)].id
removeSession(p, id) ==
  LET rest == Without(p.list, id) IN
  IF id \notin IdsOf(p.list) THEN [p EXCEPT !.closed = @ \cup {id}]
  ELSE Sync([p EXCEPT !.closed = @ \cup {id}, !.list = rest,
               !.active = IF @ = id THEN Neighbour(rest, Position(p.list, id)) ELSE @])

(* Wrong on purpose: what the server no longer lists keeps its panel.        *)
KeepsGhosts(p, l) ==
  [p EXCEPT !.list = l \o SelectSeq(@, LAMBDA s : s.id \notin IdsOf(l))]

(* setSessions: the list of the server is the whole of it.                   *)
setSessions(p, l) ==
  [p EXCEPT !.list = l,
     !.active = IF @ = None \/ @ \in IdsOf(l) THEN @
                ELSE IF l = <<>> THEN None ELSE l[1].id]

(* _reattachAll: what the page watched and the server still has.             *)
Reattach(p, l) ==
  LET again == p.attached \cap IdsOf(l) IN
  [p EXCEPT !.attached = again,
            !.out = @ \o Attaches(again)]

applyReady(p, l) ==
  LET q == Sync(setSessions(Reattach(p, l), l))
  IN [q EXCEPT !.active = IF @ # None \/ l = <<>> THEN @ ELSE l[1].id]

(* _route, and what the app does on CREATED.                                 *)
Track(p, id) == [p EXCEPT !.attached = @ \cup {id}]
Routed(p, m) ==
  CASE m.t = "ready"   -> applyReady(p, m.sessions)
    [] m.t = "session" -> upsertSession(p, m.session)
    [] m.t = "created" ->
         LET q == upsertSession(Track(p, m.session.id), m.session)
         IN IF m.session.id \in IdsOf(q.list) THEN [q EXCEPT !.active = m.session.id] ELSE q
    [] m.t \in {"output", "snapshot"} -> Track(p, m.id)
    [] m.t = "exit"    -> markExited(p, m.id)
    [] m.t = "closed"  -> removeSession([p EXCEPT !.attached = @ \ {m.id}], m.id)
    [] m.t = "error"   -> p

-----------------------------------------------------------------------------
(* Sending: at once, or from the queue when the link is back. The queue      *)
(* drops its oldest message at its limit.                                    *)
Killed(frames) == {frames[i].id : i \in {j \in DOMAIN frames : frames[j].t = "kill"}}
Kept(frames) == IF Len(frames) <= QueueMax THEN frames
                ELSE SubSeq(frames, Len(frames) - QueueMax + 1, Len(frames))
Send(frames) ==
  IF link THEN up' = up \o frames /\ UNCHANGED <<queue, abandoned>>
  ELSE /\ queue' = Kept(queue \o frames) /\ UNCHANGED up
       /\ abandoned' = abandoned \cup (Killed(queue \o frames) \ Killed(queue'))

Read ==
  /\ down # <<>> /\ down' = Tail(down)
  /\ LET p == Routed(page, Head(down)) IN
       /\ page' = [p EXCEPT !.out = <<>>]
       /\ Send(p.out)
  /\ ready' = (ready \/ Head(down).t = "ready")
  /\ UNCHANGED <<server, link, restarting, breaks, clicks, news>>

(* The minute of a tombstone passes: nothing older is under way by then.     *)
TombstoneExpires(id) ==
  /\ id \in page.closed /\ \A i \in DOMAIN down : down[i].t = "ready"
  /\ page' = [page EXCEPT !.closed = @ \ {id}]
  /\ UNCHANGED <<server, wires, restarting, breaks, clicks, news, abandoned>>

-----------------------------------------------------------------------------
(* The user: the buttons of a panel.                                         *)
Clicks == clicks < MaxClicks /\ clicks' = clicks + 1

CloseSession(id) ==
  /\ Clicks /\ id \in page.panels
  /\ page' = [page EXCEPT !.attached = @ \ {id}]
  /\ Send(<<Frame("kill", id)>>)
  /\ UNCHANGED <<server, link, ready, down, restarting, breaks, news>>

(* restartSession: close now, create RESTART_DELAY_MS later.                 *)
RestartSession(id) ==
  /\ Clicks /\ id \in page.panels /\ id \notin restarting
  /\ restarting' = restarting \cup {id}
  /\ page' = [page EXCEPT !.attached = @ \ {id}]
  /\ Send(<<Frame("kill", id)>>)
  /\ UNCHANGED <<server, link, ready, down, breaks, news>>
RestartDelayOver(id) ==
  /\ id \in restarting /\ restarting' = restarting \ {id}
  /\ Send(<<Frame("create", id)>>)
  /\ UNCHANGED <<server, link, ready, down, page, breaks, clicks, news>>

(* createSession: queued while the link is down.                             *)
CreateSession ==
  /\ Clicks /\ Send(<<Frame("create", None)>>)
  /\ UNCHANGED <<server, link, ready, down, page, restarting, breaks, news>>

FocusSession(id) ==
  /\ Clicks /\ id \in IdsOf(page.list) /\ page.active # id
  /\ page' = [page EXCEPT !.active = id]
  /\ UNCHANGED <<server, wires, restarting, breaks, news, abandoned>>

-----------------------------------------------------------------------------
(* The server *)
Broadcast(frames) == down' = IF link THEN down \o frames ELSE down
Here == UNCHANGED <<link, ready, page, restarting, breaks, clicks, abandoned>>

NewsOf == news < MaxNews /\ news' = news + 1

(* Sessions it starts for others, or for the recipes and races of this page. *)
Fresh == IF OwnIds \subseteq used THEN {} ELSE {CHOOSE id \in OwnIds \ used : TRUE}
Starts(id) ==
  /\ NewsOf /\ id \in Fresh /\ used' = used \cup {id}
  /\ srv' = Append(srv, Session(id, "live"))
  /\ Broadcast(<<News(Session(id, "live"))>>)
  /\ UNCHANGED <<watch, up, queue>> /\ Here

(* adoptExternal: a stranger's hooks arrive; it comes back under its id.     *)
Adopts(x) ==
  /\ NewsOf /\ Session(x, "live") \notin Range(srv)
  /\ srv' = Merged(srv, Session(x, "live"))
  /\ Broadcast(<<News(Session(x, "live"))>>)
  /\ UNCHANGED <<used, watch, up, queue>> /\ Here

(* What it delivers of it.                                                   *)
Tells(id) ==
  /\ NewsOf /\ id \in watch
  /\ Broadcast(<<Frame("output", id)>>)
  /\ UNCHANGED <<server, up, queue>> /\ Here

Exits(id) ==
  /\ NewsOf /\ Session(id, "live") \in Range(srv)
  /\ srv' = Merged(srv, Session(id, "exited"))
  /\ Broadcast(<<Frame("exit", id), News(Session(id, "exited"))>>)
  /\ UNCHANGED <<used, watch, up, queue>> /\ Here

Ending(id) ==
  IF Entry(srv, id).status = "exited" THEN <<Frame("closed", id)>>
  ELSE <<Frame("exit", id), News(Session(id, "exited")), Frame("closed", id)>>
ClosedElsewhere(id) ==
  /\ NewsOf /\ id \in IdsOf(srv)
  /\ srv' = Without(srv, id) /\ watch' = watch \ {id}
  /\ Broadcast(Ending(id))
  /\ UNCHANGED <<used, up, queue>> /\ Here

(* handleMessage. A CREATE attaches the socket that sent it, or fails.       *)
Handle(m) ==
  \/ /\ m.t = "kill" /\ m.id \in IdsOf(srv)
     /\ srv' = Without(srv, m.id) /\ watch' = watch \ {m.id}
     /\ Broadcast(Ending(m.id)) /\ UNCHANGED used
  \/ /\ m.t = "kill" /\ m.id \notin IdsOf(srv)
     /\ UNCHANGED <<server, down>>
  \/ /\ m.t = "create"
     /\ \E id \in Fresh :
          /\ used' = used \cup {id} /\ watch' = watch \cup {id}
          /\ srv' = Append(srv, Session(id, "live"))
          /\ Broadcast(<<News(Session(id, "live")),
                         [t |-> "created", session |-> Session(id, "live")]>>)
  \/ /\ m.t = "create"
     /\ Broadcast(<<Frame("error", None)>>) /\ UNCHANGED server
  \/ /\ m.t = "attach" /\ m.id \in IdsOf(srv)
     /\ watch' = watch \cup {m.id}
     /\ Broadcast(<<News(Entry(srv, m.id)), Frame("snapshot", m.id)>>)
     /\ UNCHANGED <<srv, used>>
  \/ /\ m.t = "attach" /\ m.id \notin IdsOf(srv)
     /\ Broadcast(<<Frame("error", m.id)>>) /\ UNCHANGED server
ServerReads ==
  /\ up # <<>> /\ up' = Tail(up) /\ Handle(Head(up))
  /\ UNCHANGED <<queue, news>> /\ Here

(* The link. READY goes out as the socket is accepted; the offline queue     *)
(* follows the opening, before READY is read.                                *)
Connects ==
  /\ ~link /\ link' = TRUE /\ ready' = FALSE
  /\ down' = <<[t |-> "ready", sessions |-> srv]>>
  /\ up' = queue /\ queue' = <<>>
  /\ UNCHANGED <<server, page, restarting, breaks, clicks, news, abandoned>>

Lost == abandoned' = abandoned \cup Killed(up)
Cut  == /\ breaks < MaxBreaks /\ breaks' = breaks + 1
        /\ link' = FALSE /\ ready' = FALSE /\ down' = <<>> /\ up' = <<>> /\ watch' = {}
        /\ Lost
        /\ UNCHANGED <<used, queue, page, restarting, clicks, news>>
Breaks  == link /\ Cut /\ UNCHANGED srv
Replaced == Cut /\ srv' = <<>>

Next ==
  \/ \E id \in Ids :
       \/ TombstoneExpires(id) \/ CloseSession(id) \/ RestartSession(id)
       \/ RestartDelayOver(id) \/ FocusSession(id)
       \/ Tells(id) \/ Exits(id) \/ ClosedElsewhere(id)
  \/ \E id \in OwnIds : Starts(id)
  \/ \E x \in Strangers : Adopts(x)
  \/ CreateSession \/ Read \/ ServerReads \/ Connects \/ Breaks \/ Replaced

Spec == Init /\ [][Next]_svars

-----------------------------------------------------------------------------
(* Properties *)

Settled == link /\ ready /\ down = <<>> /\ up = <<>>

(* The server owns the sessions (header of store.js): once everything under  *)
(* way has arrived the page lists no session the server does not have, and   *)
(* of those the server started all of them, in its order and with their      *)
(* status. One that is listed is the active one.                             *)
Own(l) == {s \in Range(l) : s.id \in OwnIds}
Before(l, s, t) == \E i, j \in DOMAIN l : i < j /\ l[i] = s /\ l[j] = t
ListIsTheServers ==
  Settled =>
    /\ Own(page.list) = Own(srv)
    /\ \A s, t \in Own(srv) : Before(page.list, s, t) <=> Before(srv, s, t)
    /\ IdsOf(page.list) \subseteq IdsOf(srv)
    /\ IF page.list = <<>> THEN page.active = None ELSE page.active \in IdsOf(page.list)

(* Every panel of a session with output is one the server delivers to,       *)
(* however often the link broke or the server was replaced (comment on       *)
(* _reattachAll), unless its close was lost on the way.                      *)
PanelsAreWatched == Settled => page.panels \cap OwnIds \subseteq watch \cup abandoned

(* The page mirrors the server: its list, and what is delivered to it.       *)
MirrorsTheServer == ListIsTheServers /\ PanelsAreWatched
==============================================================================
