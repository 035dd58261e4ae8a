-------------------------------- MODULE MCParts --------------------------------
(***************************************************************************)
(* The parts of the program that share no state in the model, side by side: *)
(* a behaviour is a behaviour of one of them, chosen in the initial state,  *)
(* and v1 to v17 are its variables. Each part is checked on the instance of  *)
(* its module given here; push on two, with room for every endpoint and     *)
(* with one place only.                                                     *)
(***************************************************************************)
EXTENDS Integers, Sequences, TLC

CONSTANTS
  None, missing, strange, torn, stranger, home, given, b1, b2, c1, d1, da, db, f1, f2,
  g1, g2, n1, n2, p1, p2, r1, r2, s1, s2, t1, t2, u1, x1, x2

VARIABLES part, v1, v2, v3, v4, v5, v6, v7, v8, v9, v10, v11, v12, v13, v14, v15, v16, v17

vars == <<part, v1, v2, v3, v4, v5, v6, v7, v8, v9, v10, v11, v12, v13, v14, v15, v16, v17>>

-----------------------------------------------------------------------------
(* What the smaller sets do not say at a glance.                            *)

BudgetOptions ==
  {[enabled |-> TRUE, action |-> "lock", sessionCap |-> 2, dailyCap |-> 0],
   [enabled |-> TRUE, action |-> "lock", sessionCap |-> 0, dailyCap |-> 4]}

Flat(c)     == [shape |-> "flat", matcher |-> "", hooks |-> <<c>>]
Group(m, h) == [shape |-> "grouped", matcher |-> m, hooks |-> h]
UserLists ==
  {missing, strange, <<Flat("user")>>,
   <<Flat("user"), Group("mutating", <<"user">>)>>,
   <<Group("*", <<"orchestra-hook elsewhere", "user">>)>>}
InstallOptions ==
  {[events |-> {"PreToolUse", "Stop"}, approvals |-> w, statusLine |-> TRUE] :
     w \in {"keep", "install", "remove"}}
  \cup {[events |-> {"Stop"}, approvals |-> "keep", statusLine |-> FALSE]}

Rule(decision, covers) == [decision |-> decision, covers |-> covers]
Documents ==
  {[kind |-> "policy", default |-> "allow",
    rules |-> <<Rule("allow", {"rm", "ls"}), Rule("deny", {"rm"})>>],
   [kind |-> "policy", default |-> "allow",
    rules |-> <<Rule("typo", {"rm"}), Rule("ask", {"ls"}), Rule("deny", {"ls"})>>]}
  \cup {[kind |-> k, rules |-> <<>>, default |-> "none"] : k \in {"large", "garbled"}}

(* Folders named da, db, da-db and db-da: none, some or all of them.         *)
Folders == {<<<<da>>>>, <<<<da>>, <<db>>>>, <<<<da>>, <<db, da>>>>, <<<<da, db>>>>, <<<<da, db>>, <<da>>>>}
Trees   == {{<<>>} \cup UNION {{SubSeq(p, 1, n) : n \in 1..Len(p)} : p \in t} : t \in SUBSET Folders}

Agent(cwd, bypass) == [cwd |-> cwd, bypass |-> bypass]
Books ==
  f1 :> {<<Agent("here", FALSE), Agent("missing", FALSE)>>, <<Agent("outside", FALSE)>>}
  @@ f2 :> {<<Agent("here", FALSE), Agent("here", TRUE)>>, <<Agent("linked", FALSE)>>}

-----------------------------------------------------------------------------
TheBudget == INSTANCE Budget WITH
  Sessions <- {b1, b2},
  Costs <- [s \in {b1, b2} |-> IF s = b1 THEN {4, 5} ELSE {2}], Days <- 1..2,
  Options <- BudgetOptions,
  PolicyCap <- [s \in {b1, b2} |-> IF s = b1 THEN None ELSE 1],
  LedgerDays <- 1, MaxActs <- 2, live <- v1, cost <- v2, guard <- v3,
  options <- v4, budgetFile <- v5, today <- v6, acts <- v7, grant <- v8,
  spared <- v9

TheTimeline == INSTANCE Timeline WITH
  Events <- 1..4, Times <- 0..4, DayLength <- 4, Skew <- 1, Late <- 1,
  FileMax <- 1, QueueMax <- 1, Slots <- 2, RenameFails <- FALSE, now <- v1,
  arrived <- v2, disk <- v3, files <- v4, stream <- v5, rotating <- v6,
  queued <- v7, rotations <- v8, logged <- v9, dropped <- v10

ThePush(limit) == INSTANCE Push WITH
  Devices <- {d1}, Endpoints <- 1..2, MaxSubscriptions <- limit,
  MaxFailures <- 1, MaxSends <- 1, MaxRestarts <- 2, held <- v1, client <- v2,
  madeWith <- v3, key <- v4, subs <- v5, failures <- v6, pushFile <- v7,
  sends <- v8, restarts <- v9, shown <- v10, told <- v11, cause <- v12,
  unwritten <- v13

TheUsage == INSTANCE Usage WITH
  Transcripts <- {t1, t2}, Messages <- 1..2, UserMessages <- {1},
  MaxFiles <- 2, DayHours <- 2, WeekHours <- 4, FiveHours <- 2,
  CacheHours <- 1, QuotaHours <- 0, LastHour <- 4, hour <- v1, lines <- v2,
  mtime <- v3, quotaFile <- v4, pass <- v5, cache <- v6

TheInstaller == INSTANCE HookInstaller WITH
  Events <- {"PreToolUse", "Stop"}, ToolEvents <- {"PreToolUse"},
  ApprovalEvent <- "PreToolUse", Editors <- {x1, x2}, UserLists <- UserLists,
  Options <- InstallOptions, BackupsKept <- 1, MaxEdits <- 2, MaxWrites <- 2,
  Broken <- torn, Absent <- missing, Odd <- strange, file <- v1, editor <- v2,
  backups <- v3, edits <- v4, writes <- v5, theirs <- v6, overwritten <- v7,
  backedUp <- v8

ThePolicy == INSTANCE Policy WITH
  Deepest <- 3, Cwds <- {2, 3}, Calls <- {"rm", "ls"}, Documents <- Documents,
  MaxDepth <- 2, MaxRules <- 2, TTL <- 2, MaxEdits <- 2, file <- v1,
  sinceEdit <- v2, edits <- v3, trustAllow <- v4, cache <- v5, said <- v6

TheBanner == INSTANCE LimitBanner WITH
  Tokens <- {<<"u">>, <<"r">>, <<" ">>, <<"<", ">">>, <<"n">>},
  TailChars <- 4, ContextChars <- 1, MaxTokens <- 6, written <- v1,
  printed <- v2, flushed <- v3, tail <- v4, hit <- v5, since <- v6

TheStartup == INSTANCE Startup WITH
  Procs <- {p1, p2}, MaxRuns <- 3, Ports <- {n1, n2}, Given <- {given},
  Foreign <- stranger, file <- v1, owner <- v2, proc <- v3, runs <- v4,
  made <- v5, disturbed <- v6

TheProjects == INSTANCE Projects WITH
  Trees <- Trees, Slugs <- {<<da, db, da>>},
  Histories <- {{}, {<<<<da>>, <<db>>>>}}, MaxListings <- 5, BranchTTL <- 2,
  GitTimeout <- 1, MaxClock <- 2, MaxAsking <- 2, tree <- v1, history <- v2,
  dirs <- v3, whole <- v4, list <- v5, decoded <- v6, listings <- v7,
  cache <- v8, gitMissing <- v9, git <- v10, asking <- v11, clock <- v12

TheNotifications == INSTANCE Notifications WITH
  Sessions <- {s1, s2}, Requests <- {r1, r2}, MaxWaiting <- 2, status <- v1,
  pending <- v2, answered <- v3, lastStatus <- v4, seenApprovals <- v5,
  permission <- v6, prompt <- v7, enabled <- v8, focus <- v9, screen <- v10,
  overtaken <- v11

TheSessions == INSTANCE ClientSessions WITH
  OwnIds <- {s1, s2}, Strangers <- {x1}, QueueMax <- 2, MaxNews <- 3,
  MaxBreaks <- 1, MaxClicks <- 1, srv <- v1, used <- v2, watch <- v3,
  link <- v4, ready <- v5, down <- v6, up <- v7, queue <- v8, page <- v9,
  restarting <- v10, breaks <- v11, clicks <- v12, news <- v13,
  abandoned <- v14

TheApprovals == INSTANCE ClientApprovals WITH
  Requests <- {r1, r2}, Rules <- {u1}, Gets <- {g1, g2}, MaxBreaks <- 1,
  MaxPresses <- 1, asked <- v1, open <- v2, rules <- v3, version <- v4,
  link <- v5, down <- v6, decisions <- v7, get <- v8, list <- v9,
  known <- v10, submitting <- v11, resolved <- v12, revoked <- v13,
  breaks <- v14, presses <- v15, read <- v16, overtaken <- v17

TheRaces == INSTANCE RaceView WITH
  Races <- {r1, r2}, MaxCalls <- 5, MaxPending <- 2, running <- v1,
  over <- v2, screen <- v3, calls <- v4, count <- v5

TheLauncher == INSTANCE Launcher WITH
  Folders <- {f1, f2}, Home <- home, Books <- Books, MaxAgents <- 2,
  MaxSessions <- 2, MaxInputs <- 3, disk <- v1, sessions <- v2, link <- v3,
  up <- v4, down <- v5, queue <- v6, calls <- v7, view <- v8, asked <- v9,
  told <- v10, others <- v11, count <- v12

TheStream == INSTANCE OutputStream WITH
  Clients <- {c1}, MaxSeq <- 6, MaxRead <- 3, Tails <- {0, 1}, High <- 2,
  Low <- 1, QueueMax <- 1, MaxOutages <- 2, MaxMessages <- 2, MaxFrames <- 9,
  Overlap <- {}, MaxBytes <- 2, session <- v1, made <- v2, pending <- v3,
  ring <- v4, cursor <- v5, catchUp <- v6, sock <- v7, down <- v8, up <- v9,
  online <- v10, outbox <- v11, tracked <- v12, panel <- v13, text <- v14,
  outages <- v15

-----------------------------------------------------------------------------
(* A part leaves the variables it does not have at 0.                       *)
Blank17 == v17 = 0
Blank16 == v16 = 0 /\ Blank17
Blank15 == v15 = 0 /\ Blank16
Blank14 == v14 = 0 /\ Blank15
Blank13 == v13 = 0 /\ Blank14
Blank12 == v12 = 0 /\ Blank13
Blank11 == v11 = 0 /\ Blank12
Blank10 == v10 = 0 /\ Blank11
Blank9  == v9 = 0 /\ Blank10
Blank8  == v8 = 0 /\ Blank9
Blank7  == v7 = 0 /\ Blank8
Blank6  == v6 = 0 /\ Blank7

Rest17 == v17
Rest16 == <<v16, Rest17>>
Rest15 == <<v15, Rest16>>
Rest14 == <<v14, Rest15>>
Rest13 == <<v13, Rest14>>
Rest12 == <<v12, Rest13>>
Rest11 == <<v11, Rest12>>
Rest10 == <<v10, Rest11>>
Rest9  == <<v9, Rest10>>
Rest8  == <<v8, Rest9>>
Rest7  == <<v7, Rest8>>
Rest6  == <<v6, Rest7>>

Init ==
  \/ part = "budget" /\ TheBudget!Init /\ Blank10
  \/ part = "timeline" /\ TheTimeline!Init /\ Blank11
  \/ part = "push" /\ ThePush(2)!Init /\ Blank14
  \/ part = "crowded push" /\ ThePush(1)!Init /\ Blank14
  \/ part = "usage" /\ TheUsage!Init /\ Blank7
  \/ part = "installer" /\ TheInstaller!Init /\ Blank9
  \/ part = "policy" /\ ThePolicy!Init /\ Blank7
  \/ part = "banner" /\ TheBanner!Init /\ Blank7
  \/ part = "startup" /\ TheStartup!Init /\ Blank7
  \/ part = "projects" /\ TheProjects!Init /\ Blank13
  \/ part = "notifications" /\ TheNotifications!Init /\ Blank12
  \/ part = "client" /\ TheSessions!Init /\ Blank15
  \/ part = "approvals" /\ TheApprovals!Init
  \/ part = "races" /\ TheRaces!Init /\ Blank6
  \/ part = "launcher" /\ TheLauncher!Init /\ Blank13
  \/ part = "stream" /\ TheStream!Init /\ Blank16

Next ==
  \/ part = "budget" /\ TheBudget!Next /\ UNCHANGED <<part, Rest10>>
  \/ part = "timeline" /\ TheTimeline!Next /\ UNCHANGED <<part, Rest11>>
  \/ part = "push" /\ ThePush(2)!Next /\ UNCHANGED <<part, Rest14>>
  \/ part = "crowded push" /\ ThePush(1)!Next /\ UNCHANGED <<part, Rest14>>
  \/ part = "usage" /\ TheUsage!Next /\ UNCHANGED <<part, Rest7>>
  \/ part = "installer" /\ TheInstaller!Next /\ UNCHANGED <<part, Rest9>>
  \/ part = "policy" /\ ThePolicy!Next /\ UNCHANGED <<part, Rest7>>
  \/ part = "banner" /\ TheBanner!Next /\ UNCHANGED <<part, Rest7>>
  \/ part = "startup" /\ TheStartup!Next /\ UNCHANGED <<part, Rest7>>
  \/ part = "projects" /\ TheProjects!Next /\ UNCHANGED <<part, Rest13>>
  \/ part = "notifications" /\ TheNotifications!Next /\ UNCHANGED <<part, Rest12>>
  \/ part = "client" /\ TheSessions!Next /\ UNCHANGED <<part, Rest15>>
  \/ part = "approvals" /\ TheApprovals!Next /\ UNCHANGED part
  \/ part = "races" /\ TheRaces!Next /\ UNCHANGED <<part, Rest6>>
  \/ part = "launcher" /\ TheLauncher!Next /\ UNCHANGED <<part, Rest13>>
  \/ part = "stream" /\ TheStream!Next /\ UNCHANGED <<part, Rest16>>

Spec == Init /\ [][Next]_vars

-----------------------------------------------------------------------------
(* While the guard may lock, a session whose cost today reached its cap is  *)
(* locked, whatever was released and spent before: unless a human took the  *)
(* lock off by hand, or changed the settings, since it was last judged.     *)
OverCapIsLocked == part = "budget" => TheBudget!OverCapIsLocked

(* A release is worth one more cap: the guard does not lock the session     *)
(* again before it has spent another session cap, or all sessions another   *)
(* daily cap (comment at _ceiling). For the day of the release, and once    *)
(* the session's spending had been entered in that day's ledger.            *)
UnlockOutlastsTheDay == [][part = "budget" => TheBudget!UnlockLasts]_vars

(* What the disk holds of a day is never less than it was, until the day    *)
(* is older than the LedgerDays newest: neither a crash, nor a save that    *)
(* fails, nor a change of settings takes spending off the bill.             *)
LedgerIsKept == [][part = "budget" => TheBudget!LedgerGrows]_vars

(* What the timeline and the digest read is what the bus accepted.          *)
TimelineIsWhole == part = "timeline" => TheTimeline!TimelineIsWhole

(* A device that was told it is subscribed stays subscribed, in memory and  *)
(* on disk, across sends, restarts and writes that fail, unless it          *)
(* unsubscribed, the push service has refused it since or in a send under   *)
(* way, the server lost its keys, or restarted before any write had put it  *)
(* into the file. A network that is down is not the subscription's fault    *)
(* (comment in _sendOne).                                                   *)
ForgottenForCause ==
  /\ part = "push" => ThePush(2)!ForgottenForCause
  /\ part = "crowded push" => ThePush(1)!ForgottenForCause

(* However the passes over the files interleave with what Claude Code        *)
(* writes and replays, an answer is counted once: the totals of the day and  *)
(* of the week hold every answer that was written when they were asked for,  *)
(* none twice (comment in summarizeJsonlUsage, usage-parser.js).             *)
CountedOnce == part = "usage" => TheUsage!CountedOnce

(* An install is the user's file with Orchestra's part in it, once.           *)
InstallsCleanly == part = "installer" => TheInstaller!InstallsCleanly

(* A committed policy binds: once its edit has settled, a call that one of   *)
(* its deny rules covers is denied, wherever the rule stands and whatever    *)
(* else the file says; a file that is no JSON has every call asked; and a     *)
(* file that the operator does not trust never allows anything.               *)
PolicyBinds == part = "policy" => ThePolicy!PolicyBinds


(* Plain starts, each let finish loading before the next, agree on one token *)
(* with the file, over any number of crashes, restarts, second starts and    *)
(* ports: a hook outside a terminal is let in by every server there is.      *)
PlainStartsAgree == part = "startup" => TheStartup!PlainStartsAgree

(* What the list says of a folder is true, or was a moment ago.              *)
ProjectsAreTrue == part = "projects" => TheProjects!ProjectsAreTrue

(* When nothing is blocked any more, no permission notification stays on     *)
(* screen (comment in _onApprovals), save one that waited for the browser's  *)
(* own prompt until its request had been answered.                           *)
NoneStays == part = "notifications" => TheNotifications!NoneStays

(* The page mirrors the server: its list, and what is delivered to it.       *)
MirrorsTheServer == part = "client" => TheSessions!MirrorsTheServer

(* The cards are the requests that wait at the server once everything under  *)
(* way has been read, whatever order the frames and the lists came in: only  *)
(* a list that is older than the news read before it can leave them wrong,   *)
(* and the next list or READY puts them right.                               *)
CardsAreTheQueue == part = "approvals" => TheApprovals!CardsAreTheQueue

(* What the screen shows and allows belongs together.                        *)
ScreenIsSound == part = "races" => TheRaces!ScreenIsSound

(* What comes back is put to the question it answers.                        *)
AnswersMeetQuestions == part = "launcher" => TheLauncher!AnswersMeetQuestions

(* What a panel shows is one run of the output, nothing twice and nothing   *)
(* missing in it, up to the offset it would resume from: through outages,   *)
(* backpressure, eviction and minimizing (connection.js _reattachAll).      *)
TextIsOneRun == part = "stream" => TheStream!TextIsOneRun

(* The server knows what each client has: from no cursor does a resync       *)
(* start wrong, and none that is behind is forgotten.                        *)
CursorsAreTrue == part = "stream" => TheStream!CursorsAreTrue
===============================================================================
