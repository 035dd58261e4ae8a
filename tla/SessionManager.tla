---------------------------- MODULE SessionManager ----------------------------
(***************************************************************************)
(* The life of sessions: lib/session-manager.js without the output (see     *)
(* OutputStream) and without what a session shows (see SessionStatus).      *)
(* Which records exist, what the state file says of them, and what a server *)
(* that starts after another has died can offer to resume.                  *)
(*                                                                         *)
(* A conversation is named by the session, or by the stranger, in which it  *)
(* began. The hook events that tell the server which conversation a session *)
(* holds are in flight while sessions come and go (lib/hook-bus.js).        *)
(***************************************************************************)
EXTENDS Naturals, FiniteSets, SequencesExt

CONSTANTS
  Ids,          \* session ids (UUIDs: never used twice)
  Strangers,    \* agents this server did not spawn
  Beside,       \* the strangers working in the directory of the sessions
  None,
  MaxSessions, MaxExternal, ExitedKept, OrphansKept,
  Expiring,     \* kinds whose detach TTL is not 0
  MaxRuns,      \* bound: how often the server starts
  MaxWire,      \* bound: hook events in flight
  Mishaps       \* what may also happen: "pid reused", "late event",
                \*  "copy resumes", "save fails"

ASSUME NoneIsNoName == None \notin Ids \cup Strangers
ASSUME OursOrTheirs == Ids \cap Strangers = {}
ASSUME KeysAreNoIds == Ids \cap ({"ext"} \X (Ids \cup Strangers)) = {}

VARIABLES
  session,      \* SessionManager.sessions
  exits,        \* the exited ones, oldest first
  orphans,      \* SessionManager.orphans
  file,         \* the state file
  save,         \* _saveTimer: "none", "due", or "stale" (cleared, never reset)
  server,       \* "up", "stopping" or "down"
  runs,         \* how often it has started
  wire,         \* hook events in flight
  owed          \* history: conversations a dead server's file promised

table == <<session, exits>>
vars  == <<table, orphans, file, save, server, runs, wire, owed>>

Conv  == Ids \cup Strangers
Ext   == {"ext"} \X Conv       \* external records are keyed by conversation

(* holds: the conversation its process is in. conv: agent.claudeSessionId,  *)
(* as far as hooks have told. resumes: the --resume among its args.         *)
Nothing == [state |-> "none", kind |-> "shell", holds |-> None, conv |-> None,
            resumes |-> None, watched |-> FALSE]

Live(s)  == session[s].state = "live"
Known(s) == session[s].state \in {"live", "exited"}

(* The conversation an orphan would be resumed in, if any.                  *)
WayInto(o) == IF o.resumes # None THEN o.resumes ELSE o.conv
Ways(os)   == {WayInto(o) : o \in os} \ {None}

(* Persistable: not the exited, not the external ones.                      *)
Persistable ==
  {[id |-> s, kind |-> session[s].kind, conv |-> session[s].conv,
    resumes |-> session[s].resumes, at |-> runs] : s \in {i \in Ids : Live(i)}}

Init ==
  /\ session = [s \in Ids \cup Ext |-> Nothing]
  /\ exits = <<>>
  /\ orphans = {} /\ file = [sessions |-> {}, orphans |-> {}]
  /\ save = "none" /\ server = "up" /\ runs = 1
  /\ wire = {} /\ owed = {}

Serving ==
  \/ server = "up"
  \/ server = "stopping" /\ "late event" \in Mishaps

ScheduleSave == save' = IF save = "none" THEN "due" ELSE save

-----------------------------------------------------------------------------
(* Tables: what a handler does to the records, as a composition.            *)
Table == [rec |-> session, out |-> exits]

Ended(s) == IF s \in Ids THEN [Nothing EXCEPT !.state = "gone"] ELSE Nothing
Closed(t, ss) ==
  [rec |-> [s \in DOMAIN t.rec |-> IF s \in ss THEN Ended(s) ELSE t.rec[s]],
   out |-> SelectSeq(t.out, LAMBDA x : x \notin ss)]
Exited(t, ss) ==
  [rec |-> [s \in DOMAIN t.rec |->
              IF s \in ss THEN [t.rec[s] EXCEPT !.state = "exited", !.holds = None]
              ELSE t.rec[s]],
   out |-> t.out \o SetToSeq(ss)]

(* reapExited: of the exited nobody watches, all but the last ExitedKept.   *)
Reaped(t) ==
  LET over     == {x \in DOMAIN t.rec : t.rec[x].state = "exited" /\ ~t.rec[x].watched}
      After(x) == {y \in over : \E i, j \in DOMAIN t.out :
                                  i < j /\ t.out[i] = x /\ t.out[j] = y}
      extra    == {x \in over : Cardinality(After(x)) >= ExitedKept}
  IN [rec |-> [s \in DOMAIN t.rec |-> IF s \in extra THEN Ended(s) ELSE t.rec[s]],
      out |-> SelectSeq(t.out, LAMBDA x : x \notin extra)]

Put(t) == session' = t.rec /\ exits' = t.out

Running(t) == {s \in Ids : t.rec[s].state = "live"}

(* Whether create finds a slot, and what it makes: a claude without         *)
(* --resume begins a conversation of its own.                               *)
Room(t) == Cardinality(Running(t)) < MaxSessions
Spawned(t, s, kind, resumes) ==
  [t EXCEPT !.rec[s] = [state |-> "live", kind |-> kind, conv |-> None, watched |-> FALSE,
                        resumes |-> resumes,
                        holds |-> IF kind # "claude" THEN None
                                  ELSE IF resumes # None THEN resumes ELSE s]]

(* Conversations the user, or their own end, has given up.                  *)
Forgive(cs) == owed' = owed \ cs
Holding(ss) == {session[s].holds : s \in ss} \ {None}
Dropped(t)  == Holding({s \in Ids : Live(s) /\ t.rec[s].state # "live"})

-----------------------------------------------------------------------------
(* create(), and what calls it. A PTY that does not start leaves no record; *)
(* a refusal that closed nothing on its way has nothing to save.            *)
Creates(t0, s, kind, resumes) ==
  LET t == Reaped(t0) IN
  /\ session[s].state = "none"
  /\ \/ ~Room(t) /\ Put(t)
     \/ Room(t) /\ Put(Spawned(t, s, kind, resumes))
     \/ Room(t) /\ Put([t EXCEPT !.rec[s].state = "gone"])
  /\ Forgive(Dropped(t))
  /\ IF Room(t) \/ t # Table THEN ScheduleSave ELSE UNCHANGED save

Create(s, kind) ==
  /\ Serving
  /\ Creates(Table, s, kind, None)
  /\ UNCHANGED <<orphans, file, server, runs, wire>>

(* The old session is closed first, whatever becomes of the new one.        *)
Restart(s, new) ==
  /\ server = "up" /\ s \in Ids /\ Known(s)
  /\ Creates(Closed(Table, {s}), new, session[s].kind, session[s].resumes)
  /\ UNCHANGED <<orphans, file, server, runs, wire>>

(* The copy has the args of the original, a --resume included.              *)
Duplicate(s, new) ==
  /\ server = "up" /\ s \in Ids /\ Known(s)
  /\ session[s].resumes = None \/ "copy resumes" \in Mishaps
  /\ Creates(Table, new, session[s].kind, session[s].resumes)
  /\ UNCHANGED <<orphans, file, server, runs, wire>>

(* Wrong on purpose: the orphan goes before anyone has taken its place.     *)
ResumeTakesFirst(o, s) ==
  /\ server = "up" /\ o \in orphans
  /\ Creates(Table, s, IF o.conv # None THEN "claude" ELSE o.kind, WayInto(o))
  /\ orphans' = orphans \ {o}
  /\ UNCHANGED <<file, server, runs, wire>>

(* Wrong on purpose: the orphan stays on the list.                          *)
ResumeAgain(o, s) ==
  /\ server = "up" /\ o \in orphans
  /\ Creates(Table, s, IF o.conv # None THEN "claude" ELSE o.kind, WayInto(o))
  /\ UNCHANGED <<orphans, file, server, runs, wire>>

(* An orphan leaves the list only when its session has started.             *)
ResumeOrphan(o, s) ==
  /\ server = "up" /\ o \in orphans
  /\ Creates(Table, s, IF o.conv # None THEN "claude" ELSE o.kind, WayInto(o))
  /\ orphans' = IF session'[s].state = "live" THEN orphans \ {o} ELSE orphans
  /\ UNCHANGED <<file, server, runs, wire>>

ForgetOrphan(o) ==
  /\ Serving /\ o \in orphans
  /\ orphans' = orphans \ {o}
  /\ Forgive({WayInto(o)}) /\ ScheduleSave
  /\ UNCHANGED <<table, file, server, runs, wire>>

-----------------------------------------------------------------------------
(* Ends. Neither an exit nor a kill schedules a save.                       *)
Ends(s) ==
  /\ Live(s)
  /\ Put(Exited(Table, {s}))
  /\ Forgive(Holding({s}))
  /\ UNCHANGED <<orphans, file, save, server, runs, wire>>

PtyExit(s) == server = "up" /\ s \in Ids /\ Ends(s)
Kill(s)    == server = "up" /\ Ends(s)

Close(s) ==
  /\ server = "up" /\ Known(s)
  /\ Put(Closed(Table, {s}))
  /\ Forgive(Holding({s} \cap Ids)) /\ ScheduleSave
  /\ UNCHANGED <<orphans, file, server, runs, wire>>

Attach(s) ==
  /\ server = "up" /\ s \in Ids /\ Known(s)
  /\ session' = [session EXCEPT ![s].watched = TRUE]
  /\ UNCHANGED <<exits, orphans, file, save, server, runs, wire, owed>>

(* The last of its sockets detaches or dies.                                *)
Detach(s) ==
  /\ server = "up" /\ session[s].watched
  /\ session' = [session EXCEPT ![s].watched = FALSE]
  /\ UNCHANGED <<exits, orphans, file, save, server, runs, wire, owed>>

(* sweepDetached: silent strangers are presumed gone, what nobody has       *)
(* watched for a TTL is closed, and the exited are reaped.                  *)
Sweep ==
  /\ server = "up"
  /\ \E silent \in SUBSET {x \in Ext : Live(x)},
        stale \in SUBSET {s \in Ids : Known(s) /\ ~session[s].watched
                                      /\ session[s].kind \in Expiring} :
       LET shut == Closed(Exited(Table, silent), stale)
       IN /\ Put(Reaped(shut))
          /\ Forgive(Dropped(shut))
          /\ IF stale = {} /\ Reaped(shut) = shut THEN UNCHANGED save ELSE ScheduleSave
  /\ UNCHANGED <<orphans, file, server, runs, wire>>

-----------------------------------------------------------------------------
(* Hook events. One of ours carries the session id of its PTY.              *)

Emit ==
  /\ Cardinality(wire) < MaxWire
  /\ \/ \E s \in Ids : Live(s) /\ session[s].kind = "claude"
          /\ wire' = wire \cup {[session |-> s, conv |-> session[s].holds]}
     \/ \E x \in Strangers : wire' = wire \cup {[session |-> None, conv |-> x]}
  /\ UNCHANGED <<table, orphans, file, save, server, runs, owed>>

(* _resolve: the PTY's id, or else the one live session known to hold the   *)
(* conversation, or else the one in the same directory.                     *)
Candidates(e) ==
  LET all == {s \in Ids \cup Ext : Live(s)}
      byConv == {s \in all : session[s].conv = e.conv}
      byDir == IF e.conv \in Beside THEN all \cap Ids ELSE {}
  IN IF e.session # None THEN {s \in {e.session} : Known(s)}
     ELSE IF Cardinality(byConv) = 1 THEN byConv ELSE byDir

(* setStatus with the patch of the event: the conversation of a session is  *)
(* the last one an event named. It schedules a save in every case.          *)
Apply(t, s, e) == [t EXCEPT !.rec[s].conv = e.conv]

(* adoptExternal: revive, create, or refuse.                                *)
Adopted(t, x) ==
  IF t.rec[x].state = "exited"
  THEN [rec |-> [t.rec EXCEPT ![x].state = "live"], out |-> SelectSeq(t.out, LAMBDA y : y # x)]
  ELSE [t EXCEPT !.rec[x] = [Nothing EXCEPT !.state = "live", !.kind = "external", !.conv = x[2]]]
Adoptable(x) ==
  Known(x) \/ Cardinality({y \in Ext : Live(y)}) < MaxExternal

Arrive(e) ==
  LET found == Candidates(e)  x == <<"ext", e.conv>> IN
  /\ Serving /\ e \in wire
  /\ wire' = wire \ {e}
  /\ \/ /\ Cardinality(found) = 1
        /\ Put(Apply(Table, CHOOSE s \in found : TRUE, e)) /\ ScheduleSave
     \/ /\ found = {} /\ Adoptable(x)
        /\ Put(Apply(IF Live(x) THEN Table ELSE Adopted(Table, x), x, e)) /\ ScheduleSave
     \/ /\ Cardinality(found) > 1 \/ (found = {} /\ ~Adoptable(x))
        /\ UNCHANGED <<table, save>>
  /\ UNCHANGED <<orphans, file, server, runs, owed>>

-----------------------------------------------------------------------------
(* The state file.                                                          *)

(* The newest OrphansKept orphans are written, and all that runs.           *)
Written(kept) ==
  /\ kept \subseteq orphans
  /\ Cardinality(kept) = IF Cardinality(orphans) < OrphansKept
                         THEN Cardinality(orphans) ELSE OrphansKept
  /\ \A o \in kept, p \in orphans \ kept : o.at >= p.at
  /\ file' = [sessions |-> Persistable, orphans |-> kept]
  /\ owed' = owed \ (Ways(orphans \ kept) \ Ways(kept))

Save ==
  /\ server # "down" /\ save = "due" /\ save' = "none"
  /\ \/ \E kept \in SUBSET orphans : Written(kept)
     \/ "save fails" \in Mishaps /\ UNCHANGED <<file, owed>>
  /\ UNCHANGED <<table, orphans, server, runs, wire>>

Promised == Ways(file.sessions \cup file.orphans)

Over == /\ session' = [s \in Ids \cup Ext |->
                         IF s \in Ids /\ session[s].state # "none" THEN Ended(s) ELSE Nothing]
        /\ exits' = <<>>

Crash ==
  /\ server # "down" /\ server' = "down"
  /\ Over /\ orphans' = {} /\ save' = "none"
  /\ owed' = owed \cup Promised
  /\ UNCHANGED <<file, runs, wire>>

(* shutdown(): one last save; the timer is cleared, and not forgotten.      *)
Shutdown ==
  /\ server = "up" /\ server' = "stopping"
  /\ \E kept \in SUBSET orphans : Written(kept)
  /\ save' = IF save = "due" THEN "stale" ELSE save
  /\ Over
  /\ UNCHANGED <<orphans, runs, wire>>

Quit ==
  /\ server = "stopping" /\ server' = "down"
  /\ orphans' = {} /\ save' = "none"
  /\ session' = [s \in Ids \cup Ext |-> IF s \in Ids THEN session[s] ELSE Nothing]
  /\ owed' = owed \cup Promised
  /\ UNCHANGED <<exits, file, runs, wire>>

(* loadOrphans: what the last run left, unless its pid is alive.            *)
Start ==
  /\ server = "down" /\ server' = "up" /\ runs < MaxRuns /\ runs' = runs + 1
  /\ \/ orphans' = file.sessions \cup
          {o \in file.orphans : \A f \in file.sessions : f.id # o.id}
     \/ "pid reused" \in Mishaps /\ orphans' = {}
  /\ UNCHANGED <<table, file, save, wire, owed>>

-----------------------------------------------------------------------------
Next ==
  \/ \E s \in Ids, kind \in {"claude", "shell"} : Create(s, kind)
  \/ \E s, new \in Ids : Restart(s, new) \/ Duplicate(s, new)
  \/ \E o \in orphans : ForgetOrphan(o) \/ \E s \in Ids : ResumeOrphan(o, s)
  \/ \E s \in Ids : PtyExit(s) \/ Attach(s) \/ Detach(s)
  \/ \E s \in Ids \cup Ext : Kill(s) \/ Close(s)
  \/ Emit \/ \E e \in wire : Arrive(e)
  \/ Sweep \/ Save \/ Crash \/ Shutdown \/ Quit \/ Start

Spec == Init /\ [][Next]_vars

-----------------------------------------------------------------------------
(* Properties *)

(* A conversation that a dead server's file named stays within reach, until *)
(* it is resumed and ends, is dismissed, or is too old to be kept: an       *)
(* orphan offers it, a running session holds it, or, while no server runs,  *)
(* the file still names it (comments in save and resumeOrphan).             *)
WayBack ==
  /\ server = "up" => owed \subseteq Ways(orphans) \cup Holding({s \in Ids : Live(s)})
  /\ server = "down" => owed \subseteq Promised

(* What runs is in the file with the conversation the server knows, or a    *)
(* save is due: a crash costs a second of history, not a session.           *)
RunningIsListed ==
  server = "up" => \/ save = "due"
                   \/ \A p \in Persistable : \E f \in file.sessions :
                        f.id = p.id /\ f.conv = p.conv /\ f.resumes = p.resumes

(* No two agents hold one conversation ("a second agent on a conversation   *)
(* somebody else is holding", comment in loadOrphans).                      *)
OneAgentEach ==
  \A s, t \in {i \in Ids : Live(i) /\ session[i].holds # None} :
    session[s].holds = session[t].holds => s = t

(* Neither a crash nor a restart loses a conversation.                       *)
NothingIsLost == WayBack /\ RunningIsListed
==============================================================================
