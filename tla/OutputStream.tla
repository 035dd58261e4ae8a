----------------------------- MODULE OutputStream -----------------------------
(***************************************************************************)
(* One session's terminal output, from the PTY to the panels that show it:  *)
(* the coalescer, the scrollback and the per-socket backpressure of         *)
(* lib/session-manager.js, the attach protocol of server.js, and the client *)
(* half in public/js/connection.js and public/js/app.js, which reconnects   *)
(* and resumes from the last character it rendered.                         *)
(*                                                                         *)
(* The k-th character the PTY writes is the number k, so that what a panel  *)
(* shows can be compared with what was written.                             *)
(***************************************************************************)
EXTENDS RingBuffer, FiniteSets

CONSTANTS
  Clients,      \* browser tabs
  MaxSeq,       \* bound: how much the PTY writes
  MaxRead,      \* bound: how much it writes at a time
  Tails,        \* what the decoder may still hold when the PTY dies
  High, Low,    \* BACKPRESSURE_HIGH, BACKPRESSURE_LOW
  QueueMax,     \* QUEUE_MAX
  MaxOutages,   \* bound: how often links break
  MaxMessages,  \* bound: how many messages a client has on their way
  MaxFrames,    \* bound: how many frames are on theirs when a panel is restored
  Overlap       \* which panels may open that some other attach serves too

ASSUME StreamAssumption ==
  /\ MaxSeq \in Nat /\ MaxRead \in Nat \ {0} /\ Tails \subseteq Nat
  /\ High \in Nat /\ Low \in Nat /\ Low <= High
  /\ QueueMax \in Nat \ {0} /\ MaxOutages \in Nat
  /\ MaxMessages \in Nat /\ MaxFrames \in Nat
  /\ Overlap \subseteq {"create", "restore", "offline"}

VARIABLES
  session,   \* "absent", "running", "exited", "gone"
  made,      \* how much the PTY has written
  pending,   \* what the coalescer holds
  ring,      \* the scrollback
  cursor,    \* session.clients: where each socket is, and whether it is behind
  catchUp,   \* the catch-up interval is running
  sock,      \* the server's view of each socket
  down,      \* frames on their way to each client
  up,        \* messages on their way to the server
  online,    \* the client's view of its socket
  outbox,    \* its offline queue
  tracked,   \* connection.attached: the offset it would resume from
  panel,     \* whether the session has a panel there
  text,      \* what that panel shows
  outages

vars == <<session, made, pending, ring, cursor, catchUp, sock, down, up, online,
          outbox, tracked, panel, text, outages>>
source  == <<session, made, pending, ring>>
serving == <<cursor, catchUp>>
view    == <<tracked, panel, text>>

Untracked == -1
NoCursor  == [seq |-> Untracked, behind |-> FALSE]

AttachFrom(n) == [t |-> "attach", sinceSeq |-> n]
Detach        == [t |-> "detach", sinceSeq |-> Untracked]

Frame(t, seq, data, flag) == [t |-> t, seq |-> seq, data |-> data, flag |-> flag]
Output(seq, data) == Frame("output", seq, data, FALSE)
Snapshot(since)   == Frame("snapshot", since.seq, since.data, since.truncated)
Ready(known)      == Frame("ready", Untracked, <<>>, known)
Announced         == Frame("session", Untracked, <<>>, TRUE)
Closed            == Frame("closed", Untracked, <<>>, FALSE)

IsData(f) == f.t \in {"output", "snapshot"}
Known    == session \in {"running", "exited"}

Init ==
  /\ session = "absent"
  /\ made = 0
  /\ pending = <<>>
  /\ ring = EmptyBuffer
  /\ cursor = [c \in Clients |-> NoCursor]
  /\ catchUp = FALSE
  /\ sock = [c \in Clients |-> "none"]
  /\ down = [c \in Clients |-> <<>>]
  /\ up = [c \in Clients |-> <<>>]
  /\ online = [c \in Clients |-> "off"]
  /\ outbox = [c \in Clients |-> <<>>]
  /\ tracked = [c \in Clients |-> Untracked]
  /\ panel = [c \in Clients |-> "unknown"]
  /\ text = [c \in Clients |-> <<>>]
  /\ outages = 0

-----------------------------------------------------------------------------
(* The server's side of one socket.                                         *)

(* ws.bufferedAmount; a frame leaves the buffer when the client reads it.   *)
Buffered(frames) ==
  FoldSeq(LAMBDA f, n : n + Len(f.data), 0, frames)

Attached(c) == cursor[c] # NoCursor /\ sock[c] = "open"

(* What one socket is sent, the cursor it is left with, and whether the     *)
(* catch-up interval has to run.                                            *)
Idle(c) == [cursor |-> cursor[c], sent |-> <<>>, arm |-> FALSE]

Resync(c, buffer) ==
  LET since == Since(buffer, cursor[c].seq)
      full  == Buffered(down[c]) + Len(since.data) > High
  IN [cursor |-> [seq |-> since.seq, behind |-> full],
      sent |-> <<Snapshot(since)>>,
      arm |-> full]

(* Wrong on purpose: the clients that fall behind wait for the next flush.  *)
ServeUnwatched(c, buffer, data) ==
  IF ~Attached(c) THEN Idle(c)
  ELSE IF cursor[c].behind
       THEN IF Buffered(down[c]) < Low THEN Resync(c, buffer) ELSE Idle(c)
       ELSE IF Buffered(down[c]) > High
            THEN [Idle(c) EXCEPT !.cursor.behind = TRUE]
            ELSE [cursor |-> [cursor[c] EXCEPT !.seq = buffer.seq],
                  sent |-> <<Output(buffer.seq, data)>>, arm |-> FALSE]

(* One socket's turn in flush(): `data` was just appended to the buffer.    *)
Serve(c, buffer, data) ==
  IF ~Attached(c) THEN Idle(c)
  ELSE IF cursor[c].behind
       THEN IF Buffered(down[c]) < Low THEN Resync(c, buffer) ELSE Idle(c)
       ELSE IF Buffered(down[c]) > High
            THEN [cursor |-> [cursor[c] EXCEPT !.behind = TRUE],
                  sent |-> <<>>, arm |-> TRUE]
            ELSE [cursor |-> [cursor[c] EXCEPT !.seq = buffer.seq],
                  sent |-> <<Output(buffer.seq, data)>>, arm |-> FALSE]

FlushInto(buffer) ==
  LET served == [c \in Clients |-> Serve(c, buffer, pending)] IN
  /\ pending' = <<>>
  /\ cursor' = [c \in Clients |-> served[c].cursor]
  /\ down' = [c \in Clients |-> down[c] \o served[c].sent]
  /\ catchUp' = (catchUp \/ \E c \in Clients : served[c].arm)

-----------------------------------------------------------------------------
(* The PTY and the session.                                                 *)

(* Created over HTTP or by another tab: every open tab hears of it.         *)
CreateElsewhere ==
  /\ session = "absent"
  /\ session' = "running"
  /\ down' = [c \in Clients |->
                IF sock[c] = "open" THEN down[c] \o <<Announced>> ELSE down[c]]
  /\ UNCHANGED <<made, pending, ring, serving, sock, up, online, outbox, view, outages>>

(* Created by one of the tabs: the server attaches its socket at once.      *)
CreateHere(c) ==
  /\ "create" \in Overlap
  /\ session = "absent"
  /\ online[c] = "ready"
  /\ session' = "running"
  /\ down' = [d \in Clients |->
                IF sock[d] = "open" THEN down[d] \o <<Announced>> ELSE down[d]]
  /\ cursor' = [cursor EXCEPT ![c] = [seq |-> 0, behind |-> FALSE]]
  /\ UNCHANGED <<made, pending, ring, catchUp, sock, up, online, outbox, view, outages>>

PtyData ==
  /\ session = "running"
  /\ \E n \in 1..MaxRead :
       /\ made + n <= MaxSeq
       /\ made' = made + n
       /\ pending' = pending \o [i \in 1..n |-> made + i]
  /\ UNCHANGED <<session, ring, serving, sock, down, up, online, outbox, view, outages>>

Flush ==
  /\ session = "running"
  /\ pending # <<>>
  /\ ring' = Appended(ring, pending)
  /\ FlushInto(ring')
  /\ UNCHANGED <<session, made, sock, up, online, outbox, view, outages>>

(* drain(): what is pending is flushed, what the decoder still holds only   *)
(* joins the scrollback.                                                    *)
Drain(tail) ==
  LET flushed == Appended(ring, pending)
      rest    == [i \in 1..tail |-> made + i]
  IN /\ made + tail <= MaxSeq
     /\ made' = made + tail
     /\ ring' = Appended(flushed, rest)
     /\ IF pending = <<>> THEN UNCHANGED <<pending, serving, down>>
        ELSE FlushInto(flushed)

Exit ==
  /\ session = "running"
  /\ session' = "exited"
  /\ \E tail \in Tails : Drain(tail)
  /\ UNCHANGED <<sock, up, online, outbox, view, outages>>

(* close(): kill() drains first, then no socket is served any more.         *)
Close ==
  /\ Known
  /\ session' = "gone"
  /\ made' = made
  /\ ring' = Appended(ring, pending)
  /\ pending' = <<>>
  /\ LET Owed(c) == IF pending = <<>> THEN Idle(c) ELSE Serve(c, ring', pending) IN
     /\ down' = [c \in Clients |->
          IF sock[c] # "open" THEN down[c] ELSE down[c] \o Owed(c).sent \o <<Closed>>]
     /\ catchUp' = (catchUp \/ \E c \in Clients : Owed(c).arm)
  /\ cursor' = [c \in Clients |-> NoCursor]
  /\ UNCHANGED <<sock, up, online, outbox, view, outages>>

(* One client's turn when the catch-up interval ticks.                      *)
CaughtUp(c) ==
  IF ~cursor[c].behind THEN Idle(c)
  ELSE IF sock[c] # "open" THEN [Idle(c) EXCEPT !.cursor.behind = FALSE]
  ELSE IF Buffered(down[c]) < Low THEN Resync(c, ring) ELSE Idle(c)

(* The interval that watches the clients that fell behind. It stops itself. *)
CatchUp ==
  /\ catchUp
  /\ cursor' = [c \in Clients |-> CaughtUp(c).cursor]
  /\ down' = [c \in Clients |-> down[c] \o CaughtUp(c).sent]
  /\ catchUp' = \E c \in Clients : CaughtUp(c).cursor.behind
  /\ UNCHANGED <<source, sock, up, online, outbox, view, outages>>

-----------------------------------------------------------------------------
(* The server reads a message.                                              *)

(* Wrong on purpose: the cursor is what the client asked from, not what it  *)
(* was sent.                                                                *)
AttachAsAsked(c, n) ==
  /\ Known
  /\ cursor' = [cursor EXCEPT ![c] = [seq |-> n, behind |-> FALSE]]
  /\ down' = [down EXCEPT ![c] = @ \o <<Snapshot(Since(ring, n))>>]

Attach(c, n) ==
  /\ Known
  /\ LET since == Since(ring, n) IN
     /\ cursor' = [cursor EXCEPT ![c] = [seq |-> since.seq, behind |-> FALSE]]
     /\ down' = [down EXCEPT ![c] = @ \o <<Snapshot(since)>>]

ServerReads(c) ==
  /\ sock[c] = "open"
  /\ up[c] # <<>>
  /\ up' = [up EXCEPT ![c] = Tail(@)]
  /\ LET m == Head(up[c]) IN
     \/ m.t = "attach" /\ Attach(c, m.sinceSeq)
     \/ /\ m.t = "detach"
        /\ cursor' = [cursor EXCEPT ![c] = NoCursor]
        /\ UNCHANGED down
     \/ ~Known /\ m.t = "attach" /\ UNCHANGED <<cursor, down>>
  /\ UNCHANGED <<source, catchUp, sock, online, outbox, view, outages>>

-----------------------------------------------------------------------------
(* Links.                                                                   *)

Connect(c) ==
  /\ online[c] = "off"
  /\ sock[c] = "none"
  /\ online' = [online EXCEPT ![c] = "opened"]
  /\ sock' = [sock EXCEPT ![c] = "open"]
  /\ down' = [down EXCEPT ![c] = <<Ready(Known)>>]
  /\ up' = [up EXCEPT ![c] = outbox[c]]
  /\ outbox' = [outbox EXCEPT ![c] = <<>>]
  /\ UNCHANGED <<source, serving, view, outages>>

(* The client drops or loses its socket; what was on the way is lost.       *)
LinkBreaks(c) ==
  /\ online[c] # "off"
  /\ outages < MaxOutages
  /\ outages' = outages + 1
  /\ online' = [online EXCEPT ![c] = "off"]
  /\ sock' = [sock EXCEPT ![c] = "closing"]
  /\ down' = [down EXCEPT ![c] = <<>>]
  /\ up' = [up EXCEPT ![c] = <<>>]
  /\ UNCHANGED <<source, serving, outbox, view>>

(* The server hears of it: detachAll.                                       *)
ServerClosesSocket(c) ==
  /\ sock[c] = "closing"
  /\ sock' = [sock EXCEPT ![c] = "none"]
  /\ cursor' = [cursor EXCEPT ![c] = NoCursor]
  /\ UNCHANGED <<source, catchUp, down, up, online, outbox, view, outages>>

-----------------------------------------------------------------------------
(* The client.                                                              *)

(* The offline queue is bounded, and drops its oldest message.              *)
Queued(queue, m) ==
  IF Len(queue) >= QueueMax THEN Tail(queue) \o <<m>> ELSE queue \o <<m>>

Send(c, m) ==
  IF online[c] = "off"
  THEN outbox' = [outbox EXCEPT ![c] = Queued(@, m)] /\ UNCHANGED up
  ELSE up' = [up EXCEPT ![c] = @ \o <<m>>] /\ UNCHANGED outbox

(* A new panel is empty: it asks for the whole buffer.                      *)
OpenPanel(c) ==
  /\ panel' = [panel EXCEPT ![c] = "shown"]
  /\ text' = [text EXCEPT ![c] = <<>>]
  /\ tracked' = [tracked EXCEPT ![c] = 0]

(* Nothing of an earlier attach is still on its way.                        *)
Quiet(c) ==
  /\ online[c] = "ready"
  /\ cursor[c] = NoCursor
  /\ up[c] = <<>>
  /\ \A i \in DOMAIN down[c] : ~IsData(down[c][i])

MayRestore(c) ==
  \/ Quiet(c)
  \/ "offline" \in Overlap /\ online[c] = "off"
  \/ "restore" \in Overlap

(* The user restores a minimized panel.                                     *)
Restore(c) ==
  /\ panel[c] = "hidden"
  /\ MayRestore(c)
  /\ Len(up[c]) + Len(outbox[c]) < MaxMessages
  /\ Len(down[c]) <= MaxFrames
  /\ OpenPanel(c)
  /\ Send(c, AttachFrom(0))
  /\ UNCHANGED <<source, serving, sock, down, online, outages>>

Minimize(c) ==
  /\ panel[c] = "shown"
  /\ Len(up[c]) + Len(outbox[c]) < MaxMessages
  /\ panel' = [panel EXCEPT ![c] = "hidden"]
  /\ text' = [text EXCEPT ![c] = <<>>]
  /\ tracked' = [tracked EXCEPT ![c] = Untracked]
  /\ Send(c, Detach)
  /\ UNCHANGED <<source, serving, sock, down, online, outages>>

DropPanel(c) ==
  /\ panel' = [panel EXCEPT ![c] = "gone"]
  /\ text' = [text EXCEPT ![c] = <<>>]
  /\ tracked' = [tracked EXCEPT ![c] = Untracked]

(* The exact offset last rendered is asked for again.                       *)
Reattach(c) ==
  IF tracked[c] = Untracked THEN <<>> ELSE <<AttachFrom(tracked[c])>>

(* READY: what was watched is reattached before the store hears of the      *)
(* sessions and opens panels of its own.                                    *)
ReadReady(c, known) ==
  /\ online' = [online EXCEPT ![c] = "ready"]
  /\ \/ /\ known
        /\ IF panel[c] = "unknown"
           THEN OpenPanel(c) /\ up' = [up EXCEPT ![c] = @ \o <<AttachFrom(0)>>]
           ELSE UNCHANGED view /\ up' = [up EXCEPT ![c] = @ \o Reattach(c)]
     \/ /\ ~known
        /\ IF panel[c] = "unknown" THEN UNCHANGED view ELSE DropPanel(c)
        /\ UNCHANGED up

ReadAnnounced(c) ==
  IF panel[c] = "unknown"
  THEN OpenPanel(c) /\ up' = [up EXCEPT ![c] = @ \o <<AttachFrom(0)>>]
  ELSE UNCHANGED <<view, up>>

(* Wrong on purpose: only live output moves the offset.                     *)
ReadDataUntracked(c, f) ==
  /\ tracked' = [tracked EXCEPT ![c] = IF f.t = "output" THEN Maximum(@, f.seq) ELSE @]
  /\ text' = [text EXCEPT ![c] =
                IF panel[c] # "shown" THEN <<>>
                ELSE IF f.flag THEN f.data ELSE @ \o f.data]
  /\ UNCHANGED <<panel, up>>

(* _track never goes back; a snapshot of evicted text starts a fresh screen. *)
ReadData(c, f) ==
  /\ tracked' = [tracked EXCEPT ![c] = Maximum(@, f.seq)]
  /\ text' = [text EXCEPT ![c] =
                IF panel[c] # "shown" THEN <<>>
                ELSE IF f.flag THEN f.data ELSE @ \o f.data]
  /\ UNCHANGED <<panel, up>>

ClientReads(c) ==
  /\ online[c] # "off"
  /\ down[c] # <<>>
  /\ down' = [down EXCEPT ![c] = Tail(@)]
  /\ LET f == Head(down[c]) IN
     \/ f.t = "ready" /\ ReadReady(c, f.flag)
     \/ f.t = "session" /\ ReadAnnounced(c) /\ UNCHANGED online
     \/ IsData(f) /\ ReadData(c, f) /\ UNCHANGED online
     \/ f.t = "closed" /\ DropPanel(c) /\ UNCHANGED <<up, online>>
  /\ UNCHANGED <<source, serving, sock, outbox, outages>>

-----------------------------------------------------------------------------
Next ==
  \/ CreateElsewhere \/ PtyData \/ Flush \/ Exit \/ Close \/ CatchUp
  \/ \E c \in Clients :
       \/ CreateHere(c) \/ ServerReads(c) \/ ClientReads(c)
       \/ Connect(c) \/ LinkBreaks(c) \/ ServerClosesSocket(c)
       \/ Restore(c) \/ Minimize(c)

(* setImmediate runs, the interval ticks, sockets deliver what they were    *)
(* given or are found dead, and a client retries with a backoff. Users,     *)
(* agents and links owe nothing.                                            *)
Fairness ==
  /\ WF_vars(Flush) /\ WF_vars(CatchUp)
  /\ \A c \in Clients : /\ WF_vars(ServerReads(c)) /\ WF_vars(ClientReads(c))
                        /\ WF_vars(Connect(c)) /\ WF_vars(ServerClosesSocket(c))

SafetySpec == Init /\ [][Next]_vars
Spec == SafetySpec /\ Fairness

-----------------------------------------------------------------------------
(* Properties.                                                              *)

(* The scrollback is the last characters written, no more than its limit,   *)
(* and its three counters agree with them (append, trim).                   *)
ScrollbackIsTheTail ==
  LET held == FlattenSeq(ring.chunks) IN
  /\ held = [i \in 1..ring.size |-> ring.dropped + i]
  /\ ring.size = ring.seq - ring.dropped
  /\ ring.size <= MaxBytes

(* What a panel shows is one run of the output, nothing twice and nothing   *)
(* missing in it, up to the offset it would resume from: through outages,   *)
(* backpressure, eviction and minimizing (connection.js _reattachAll).      *)
TextIsOneRun ==
  \A c \in Clients : panel[c] = "shown" /\ text[c] # <<>> =>
    /\ \A i \in 1..(Len(text[c]) - 1) : text[c][i + 1] = text[c][i] + 1
    /\ tracked[c] = Last(text[c])

(* The server's cursor is where the client will be once it has read what is *)
(* on its way: no resync starts early or late (flush, resync, attach).      *)
CursorIsWhatWasSent ==
  \A c \in Clients : Attached(c) /\ online[c] = "ready" /\ up[c] = <<>> =>
    LET sent == {i \in DOMAIN down[c] : IsData(down[c][i])} IN
    cursor[c].seq = IF sent = {} THEN tracked[c]
                    ELSE down[c][CHOOSE i \in sent : \A j \in sent : j <= i].seq

(* A client that fell behind is watched: no flush need come for it to       *)
(* recover (armCatchUp).                                                    *)
BehindIsWatched == (\E c \in Clients : cursor[c].behind) => catchUp

(* Whatever the backpressure and the outages, a panel that stays open ends  *)
(* up showing everything that was written (armCatchUp: "stays permanently   *)
(* short of that burst's tail").                                            *)
Complete(c) ==
  made > 0 => text[c] # <<>> /\ Last(text[c]) = made

EverythingIsShown ==
  \A c \in Clients : <>[](panel[c] = "shown") => <>[]Complete(c)

(* The server knows what each client has: from no cursor does a resync       *)
(* start wrong, and none that is behind is forgotten.                        *)
CursorsAreTrue == CursorIsWhatWasSent /\ BehindIsWatched
==============================================================================
