-------------------------------- MODULE Launcher --------------------------------
(***************************************************************************)
(* Starting agents from the first screen: public/js/launcher.js, the frames *)
(* and requests it sends, and what the server does with them (server.js,    *)
(* create() of lib/session-manager.js, lib/workspace.js). Launches go over  *)
(* the socket, where nothing but its kind ties an answer to its question;   *)
(* recipes and the list of projects go over HTTP, where replies overtake.   *)
(***************************************************************************)
EXTENDS Naturals, FiniteSets, SequencesExt

CONSTANTS
  Folders,      \* directories a user may work in
  Home,         \* the home directory, one that always exists
  None,
  Books,        \* the recipes the .orchestra.json of a folder may hold:
                \*  sequences of [cwd: "here", "missing", "outside" or "linked",
                \*  bypass: BOOLEAN]
  MaxAgents,    \* MAX_AGENTS of workspace.js
  MaxSessions,  \* LIMITS.MAX_SESSIONS
  MaxInputs     \* bound: launches, requests, edits, breaks and creates
                \*  of the page's other buttons, in all

VARIABLES
  disk,         \* [exists, book] of every folder; no recipe is <<>>
  sessions,     \* the server's, each with the launch it was started by
  link, up, down, queue,
  calls,        \* HTTP requests under way, and their replies
  view,         \* the launcher's fields, see Closed
  asked,        \* launches made, with what each asked for
  told,         \* what the page said of each launch
  others,       \* creates sent by other buttons of the page
  count         \* inputs so far

wire == <<link, up, down, queue>>
lvars == <<disk, sessions, wire, calls, view, asked, told, others, count>>

Input(n) == count + n <= MaxInputs /\ count' = count + n

Kinds == {"claude", "shell"}
NoBook == <<>>

Stored == [exists: BOOLEAN, book: {NoBook} \cup UNION Range(Books)]
MayHold(f, d) == d.book # NoBook => d.exists /\ d.book \in Books[f]

(* recipes: what was read of each folder. mode: detailMode.                  *)
Closed == [projects |-> {}, selected |-> None, mode |-> "idle", busy |-> FALSE,
           waiter |-> None, loading |-> FALSE,
           recipes |-> [f \in Folders |-> [state |-> "none", book |-> NoBook]]]

Init ==
  /\ disk \in [Folders -> Stored]
  /\ \A f \in Folders : MayHold(f, disk[f])
  /\ sessions = <<>>
  /\ link = TRUE /\ up = <<>> /\ down = <<>> /\ queue = <<>>
  /\ calls = {} /\ view = Closed /\ asked = <<>> /\ told = <<>>
  /\ others = 0 /\ count = 0

-----------------------------------------------------------------------------
(* lib/workspace.js *)

(* validate: at most MAX_AGENTS, none with a directory outside the           *)
(* recipe's own. read: nor one outside it through a link, as far as the      *)
(* directory exists.                                                         *)
Valid(book) == Len(book) \in 1..MaxAgents /\ \A a \in Range(book) : a.cwd # "outside"
ReadRecipe(f) ==
  IF /\ disk[f].exists /\ Valid(disk[f].book)
     /\ \A a \in Range(disk[f].book) : a.cwd # "linked"
  THEN disk[f].book ELSE NoBook

(* resolveCwd: a directory that does not exist is replaced by the home.      *)
resolveCwd(f, agent) == IF disk[f].exists /\ agent.cwd # "missing" THEN f ELSE Home

-----------------------------------------------------------------------------
(* The server *)

(* create: refused at the limit, and for arguments of a recipe that switch   *)
(* the permission model off; a spawn may fail.                               *)
Session(n, kind, f, at) == [by |-> n, kind |-> kind, folder |-> f, at |-> at]
Here == [cwd |-> "here", bypass |-> FALSE]
Refused(agent) == Len(sessions) >= MaxSessions \/ agent.bypass

ServerCreates ==
  /\ up # <<>> /\ up' = Tail(up)
  /\ LET m == Head(up)
         s == Session(m.n, m.kind, m.folder, resolveCwd(m.folder, Here)) IN
       \/ /\ ~Refused(Here)
          /\ sessions' = Append(sessions, s)
          /\ down' = Append(down, [t |-> "created", session |-> s])
       \/ /\ down' = Append(down, [t |-> "error", session |-> None])
          /\ UNCHANGED sessions
  /\ UNCHANGED <<disk, link, queue, calls, view, asked, told, others, count>>

(* POST /workspace/apply: the recipe as it is now, its agents one by one;    *)
(* the first that is refused ends it, and nothing takes back the others.     *)
Started(book, f) ==
  [i \in DOMAIN book |-> Session(0, "claude", f, resolveCwd(f, book[i]))]
Answered(c, ok, list, book) == [c EXCEPT !.at = IF ok THEN "answered" ELSE "failed",
                                         !.list = list, !.book = book]
Answer(c, ok, list, book) == calls' = (calls \ {c}) \cup {Answered(c, ok, list, book)}

ServerLists(c) ==
  /\ c \in calls /\ c.t = "projects" /\ c.at = "asked"
  /\ \E list \in SUBSET Folders : Answer(c, TRUE, list, NoBook)
  /\ UNCHANGED <<disk, sessions, wire, view, asked, told, others, count>>
ServerReads(c) ==
  /\ c \in calls /\ c.t \in {"recipe", "probe"} /\ c.at = "asked"
  /\ Answer(c, TRUE, {}, ReadRecipe(c.folder))
  /\ UNCHANGED <<disk, sessions, wire, view, asked, told, others, count>>
ServerApplies(c) ==
  /\ c \in calls /\ c.t = "apply" /\ c.at = "asked"
  /\ LET book == ReadRecipe(c.folder) IN
       \/ /\ book = NoBook /\ Answer(c, FALSE, {}, book) /\ UNCHANGED sessions
       \/ \E k \in 1..Len(book) :
            /\ \A i \in 1..(k - 1) : ~book[i].bypass
            /\ Len(sessions) + k - 1 <= MaxSessions
            /\ LET fails == k # Len(book) \/ book[k].bypass \/ Len(sessions) + k > MaxSessions
               IN /\ Answer(c, ~fails, {}, book)
                  /\ sessions' = sessions \o
                       SubSeq(Started(book, c.folder), 1, IF fails THEN k - 1 ELSE k)
  /\ UNCHANGED <<disk, wire, view, asked, told, others, count>>
ServerRaces(c) ==
  /\ c \in calls /\ c.t = "race" /\ c.at = "asked"
  /\ \E ok \in BOOLEAN : Answer(c, ok, {}, NoBook)
  /\ UNCHANGED <<disk, sessions, wire, view, asked, told, others, count>>

(* A reply that is lost looks like a refusal.                                *)
ReplyLost(c) ==
  /\ c \in calls /\ c.at = "answered" /\ Input(1)
  /\ Answer(c, FALSE, {}, NoBook)
  /\ UNCHANGED <<disk, sessions, wire, view, asked, told, others>>

-----------------------------------------------------------------------------
(* The page: what it shows of a folder *)

Request(t, f) == [t |-> t, folder |-> f, at |-> "asked", list |-> {}, book |-> NoBook]
Calling(requests) == Input(Cardinality(requests))

(* _loadRecipe: what was read is kept, whatever becomes of the file.         *)
Unread(v, f) == v.recipes[f].state \in {"none", "loading"}
Wants(v, f) == IF f # None /\ Unread(v, f) THEN {Request("recipe", f)} ELSE {}
Loading(v, f) ==
  IF f # None /\ Unread(v, f)
  THEN [v EXCEPT !.recipes[f] = [state |-> "loading", book |-> NoBook]] ELSE v

(* _select: another folder, another detail.                                  *)
Chosen(v, f) == Loading([v EXCEPT !.selected = f, !.mode = "idle"], f)
Select(f) ==
  /\ view' = Chosen(view, f)
  /\ Calling(Wants(view, f)) /\ calls' = calls \cup Wants(view, f)
  /\ UNCHANGED <<disk, sessions, wire, asked, told, others>>

Refresh ==
  /\ view' = [view EXCEPT !.loading = TRUE]
  /\ Calling({Request("projects", None)}) /\ calls' = calls \cup {Request("projects", None)}
  /\ UNCHANGED <<disk, sessions, wire, asked, told, others>>

(* refresh, _applyFilter: the row under the cursor, if any, is selected.     *)
Rows(v) == IF v.projects = {} THEN {None} ELSE v.projects \cup {None}
Listed(c) ==
  /\ c \in calls /\ c.t = "projects" /\ c.at # "asked"
  /\ LET v == [view EXCEPT !.loading = FALSE,
                 !.projects = IF c.at = "answered" THEN c.list ELSE @,
                 !.selected = IF c.at = "answered" /\ @ \notin c.list THEN None ELSE @]
     IN \E row \in Rows(v) :
          LET same == row \in {None, v.selected} IN
          /\ view' = IF same THEN v ELSE Chosen(v, row)
          /\ calls' = (calls \ {c}) \cup (IF same THEN {} ELSE Wants(v, row))
          /\ Calling(IF same THEN {} ELSE Wants(v, row))
  /\ UNCHANGED <<disk, sessions, wire, asked, told, others>>

Filed(v, c) ==
  [v EXCEPT !.recipes[c.folder] =
     [state |-> IF c.at = "answered" THEN "read" ELSE "failed", book |-> c.book]]
RecipeRead(c) ==
  /\ c \in calls /\ c.t = "recipe" /\ c.at # "asked"
  /\ view' = Filed(view, c) /\ calls' = calls \ {c}
  /\ UNCHANGED <<disk, sessions, wire, asked, told, others, count>>

(* _recipeBlock: a recipe that was read can be run, after a confirmation.    *)
Offered == view.selected # None /\ view.recipes[view.selected].state = "read"
           /\ view.recipes[view.selected].book # NoBook
RunThisRecipe ==
  /\ Offered /\ view.mode # "recipe" /\ view' = [view EXCEPT !.mode = "recipe"]
  /\ UNCHANGED <<disk, sessions, wire, calls, asked, told, others, count>>
Cancel ==
  /\ view.mode # "idle" /\ view' = [view EXCEPT !.mode = "idle"]
  /\ UNCHANGED <<disk, sessions, wire, calls, asked, told, others, count>>

ApplyRecipe ==
  /\ Offered /\ view.mode = "recipe" /\ ~view.busy
  /\ view' = [view EXCEPT !.busy = TRUE]
  /\ Calling({Request("apply", view.selected)})
  /\ calls' = calls \cup {Request("apply", view.selected)}
  /\ UNCHANGED <<disk, sessions, wire, asked, told, others>>
StartRace ==
  /\ view.selected # None /\ ~view.busy
  /\ view' = [view EXCEPT !.busy = TRUE, !.mode = "race"]
  /\ Calling({Request("race", view.selected)})
  /\ calls' = calls \cup {Request("race", view.selected)}
  /\ UNCHANGED <<disk, sessions, wire, asked, told, others>>

Over(v, c) == [v EXCEPT !.busy = FALSE, !.mode = IF c.at = "answered" THEN "idle" ELSE @]
Done(c) ==
  /\ c \in calls /\ c.t \in {"apply", "race"} /\ c.at # "asked"
  /\ view' = Over(view, c) /\ calls' = calls \ {c}
  /\ UNCHANGED <<disk, sessions, wire, asked, told, others, count>>

-----------------------------------------------------------------------------
(* The page: launches *)

Said(how, by) == [how |-> how, by |-> by]
Waiting == Said("pending", 0)
Settles(v) == [v EXCEPT !.busy = FALSE, !.waiter = None]

(* connection.send: what cannot be sent is queued, and false is returned.    *)
Transmit(m) == IF link THEN up' = Append(up, m) /\ UNCHANGED queue
               ELSE queue' = Append(queue, m) /\ UNCHANGED up

(* Wrong on purpose: a launch does not wait for the one before.              *)
Anytime(v) == TRUE

(* One launch at a time: _launch returns when the screen is busy.            *)
MayLaunch(v) == ~v.busy

(* _launch and _create.                                                      *)
Launches(v, f, kind) ==
  LET n == Len(asked) + 1 IN
  /\ Input(1)
  /\ asked' = Append(asked, [folder |-> f, kind |-> kind])
  /\ told' = Append(told, IF link THEN Waiting ELSE Said("not sent", 0))
  /\ view' = IF link THEN [v EXCEPT !.busy = TRUE, !.waiter = [n |-> n, kind |-> kind]]
             ELSE v
  /\ Transmit([n |-> n, kind |-> kind, folder |-> f])

Launch(f, kind) ==
  /\ f \in view.projects \cup ({view.selected} \ {None}) /\ MayLaunch(view)
  /\ Launches(view, f, kind)
  /\ UNCHANGED <<disk, sessions, link, down, calls, others>>

(* _openFreePath: the folder is probed for a recipe first.                   *)
OpenFreePath(f) ==
  /\ Calling({Request("probe", f)}) /\ calls' = calls \cup {Request("probe", f)}
  /\ UNCHANGED <<disk, sessions, wire, view, asked, told, others>>
Probed(c) ==
  /\ c \in calls /\ c.t = "probe" /\ c.at # "asked" /\ calls' = calls \ {c}
  /\ LET v == [view EXCEPT !.selected = c.folder, !.mode = "idle",
                 !.recipes[c.folder] = IF c.book = NoBook THEN @
                                       ELSE [state |-> "read", book |-> c.book]] IN
       IF c.at = "failed" THEN UNCHANGED <<view, asked, told, up, queue, count>>
       ELSE IF view.busy THEN view' = v /\ UNCHANGED <<asked, told, up, queue, count>>
       ELSE Launches(v, c.folder, "claude")
  /\ UNCHANGED <<disk, sessions, link, down, others>>

(* Another button of the page creates a session: restart, + Shell.           *)
CreatesElsewhere(f, kind) ==
  /\ Input(1) /\ others' = others + 1
  /\ Transmit([n |-> 0, kind |-> kind, folder |-> f])
  /\ UNCHANGED <<disk, sessions, link, down, calls, view, asked, told>>

(* _awaitCreated: the first CREATED of the kind, or the first ERROR.         *)
Matches(w, m) == w # None /\ (m.t = "error" \/ m.session.kind = w.kind)
Verdict(w, m) ==
  IF m.t = "error" THEN Said("refused", 0)
  ELSE Said(IF m.session.at = asked[w.n].folder THEN "opened" ELSE "elsewhere", m.session.by)
PageReads ==
  /\ down # <<>> /\ down' = Tail(down)
  /\ LET w == view.waiter  m == Head(down) IN
       IF Matches(w, m)
       THEN view' = Settles(view) /\ told' = [told EXCEPT ![w.n] = Verdict(w, m)]
       ELSE UNCHANGED <<view, told>>
  /\ UNCHANGED <<disk, sessions, link, up, queue, calls, asked, others, count>>

(* CREATE_TIMEOUT_MS: nobody says what became of it.                         *)
CreateTimeout ==
  /\ view.waiter # None
  /\ told' = [told EXCEPT ![view.waiter.n] = Said("unnamed", 0)] /\ view' = Settles(view)
  /\ UNCHANGED <<disk, sessions, wire, calls, asked, others, count>>

-----------------------------------------------------------------------------
(* The world *)

Edit(f) ==
  /\ Input(1)
  /\ \E d \in Stored : MayHold(f, d) /\ disk' = [disk EXCEPT ![f] = d]
  /\ UNCHANGED <<sessions, wire, calls, view, asked, told, others>>

Breaks ==
  /\ link /\ Input(1)
  /\ link' = FALSE /\ up' = <<>> /\ down' = <<>>
  /\ UNCHANGED <<disk, sessions, queue, calls, view, asked, told, others>>
Connects ==
  /\ ~link /\ link' = TRUE /\ up' = queue /\ queue' = <<>>
  /\ UNCHANGED <<disk, sessions, down, calls, view, asked, told, others, count>>

Next ==
  \/ \E f \in Folders :
       \/ Select(f) \/ OpenFreePath(f) \/ Edit(f)
       \/ \E kind \in Kinds : Launch(f, kind) \/ CreatesElsewhere(f, kind)
  \/ \E c \in calls :
       \/ ServerLists(c) \/ ServerReads(c) \/ ServerApplies(c) \/ ServerRaces(c)
       \/ ReplyLost(c) \/ Listed(c) \/ RecipeRead(c) \/ Done(c) \/ Probed(c)
  \/ Refresh \/ RunThisRecipe \/ Cancel \/ ApplyRecipe \/ StartRace
  \/ ServerCreates \/ PageReads \/ CreateTimeout \/ Breaks \/ Connects

Spec == Init /\ [][Next]_lvars

-----------------------------------------------------------------------------
(* Properties *)

(* The kind is enough to tell a launch its own session (comment in           *)
(* _awaitCreated), as long as no other button of the page creates one and    *)
(* no earlier launch was given up before its answer came.                    *)
GivenUp(n) == told[n].how \in {"unnamed", "not sent", "refused"}
LaunchIsItsOwn ==
  \A n \in DOMAIN told :
    (others = 0 /\ told[n].how \in {"opened", "elsewhere"} /\ \A k \in 1..(n - 1) : ~GivenUp(k))
      => told[n].by = n

(* Whatever overtakes whatever, the recipe shown for a folder is one its own *)
(* file has held, and none that reaches out of it.                           *)
RecipeIsTheFolders ==
  \A f \in Folders :
    LET book == view.recipes[f].book IN
    book # NoBook => /\ book \in Books[f]
                     /\ \A a \in Range(book) : a.cwd \notin {"outside", "linked"}

(* The screen is busy only while something is under way that will end it.    *)
BusyHasAnEnd ==
  view.busy => view.waiter # None \/ \E c \in calls : c.t \in {"apply", "race"}

(* What comes back is put to the question it answers.                        *)
AnswersMeetQuestions == LaunchIsItsOwn /\ RecipeIsTheFolders /\ BusyHasAnEnd

(* "The connection is down, the request was not sent.": the user who reads   *)
(* it may launch again, and has two agents in one folder if it was.          *)
NotSentStartsNothing ==
  \A n \in DOMAIN told : told[n].how = "not sent"
    => \A i \in DOMAIN sessions : sessions[i].by # n
==============================================================================
