------------------------------ MODULE RaceManager ------------------------------
(***************************************************************************)
(* lib/race.js: one prompt run as several variants, each by an agent in a   *)
(* git worktree of its own, until one variant is adopted (merged into the   *)
(* branch the race started on) or the race is discarded.                    *)
(*                                                                         *)
(* create, adopt and discard are HTTP handlers that await git or the disk   *)
(* between almost any two effects, and nothing keeps two of them apart: a   *)
(* request here is where its handler stands, with what it read on the way.  *)
(* One action is one stretch of a handler between two awaits, with the git  *)
(* command or the write it awaits. Git, the disk and the people at the      *)
(* keyboard are the environment.                                            *)
(*                                                                         *)
(* All races start from one repository, on one branch ("base").             *)
(***************************************************************************)
EXTENDS Naturals, FiniteSets

CONSTANTS
  Races,     \* race ids; each is generated at most once
  Variants,  \* variant names
  Requests,  \* HTTP requests that may be in progress together
  Nobody     \* no variant

ASSUME NobodyIsNoVariant == Nobody \notin Variants
ASSUME SomeVariant == Variants # {}

VARIABLES
  descriptor,  \* race.json: "unused" (no such id yet), "absent", "running", "adopted"
  winner,      \* its winner
  checkout,    \* the worktree of a variant: "none", "there", "stuck" (removal failed)
  branch,      \* the variants whose branch exists
  agent,       \* the session of a variant: "none", "listed" (the one race.json
               \*  names), "stray" (another one, started in its place), "orphan"
               \*  (died with the server, may be resumed)
  merged,      \* the variants merged into the base branch
  head,        \* what the repository has checked out: "base" or "elsewhere"
  conflict,    \* the variant whose merge stopped half way, or none
  scoreboard,  \* scoreboard.json, as a set of outcomes
  request,     \* the handlers in progress
  asked,       \* history: races somebody asked to discard
  lost,        \* history: races whose making was cut short without a rollback
  unread       \* history: races discarded although race.json could not be read

disk == <<descriptor, winner, scoreboard>>
git  == <<checkout, branch, merged, head, conflict>>
past == <<asked, lost, unread>>
vars == <<disk, git, agent, request, past>>

Outcome    == [race : Races, winner : Variants \cup {Nobody}]
NoConflict == [race |-> "none"]

Making == {"build", "rollback"}
Stages == Making \cup {"commit", "check", "merge", "close", "remove", "save",
                       "silence", "sweep", "read", "write", "drop"}
(* todo: variants its loop has still to visit. now: the one it is at.       *)
(* counts: the outcome goes on the scoreboard. seen: the scoreboard read.   *)
Handler == [at : Stages, race : Races, choice : Variants \cup {Nobody},
            todo : SUBSET Variants, now : Variants \cup {Nobody},
            counts : BOOLEAN, seen : SUBSET Outcome]
Idle == [at |-> "idle"]

Start(q, stage, r, choice, counts) ==
  request' = [request EXCEPT ![q] =
    [at |-> stage, race |-> r, choice |-> choice, todo |-> Variants,
     now |-> Nobody, counts |-> counts, seen |-> {}]]
Goto(q, stage) == request' = [request EXCEPT ![q].at = stage]
End(q)         == request' = [request EXCEPT ![q] = Idle]

Init ==
  /\ descriptor = [r \in Races |-> "unused"]
  /\ winner = [r \in Races |-> Nobody]
  /\ checkout = [r \in Races |-> [v \in Variants |-> "none"]]
  /\ branch = [r \in Races |-> {}]
  /\ agent = [r \in Races |-> [v \in Variants |-> "none"]]
  /\ merged = [r \in Races |-> {}]
  /\ head = "base" /\ conflict = NoConflict
  /\ scoreboard = {}
  /\ request = [q \in Requests |-> Idle]
  /\ asked = {} /\ lost = {} /\ unread = {}

MakingOf(r) == \E q \in Requests : request[q].at \in Making /\ request[q].race = r

-----------------------------------------------------------------------------
(* Sessions. A request closes the sessions race.json names and no other.    *)
Closed(sessions, vs) ==
  [v \in Variants |-> IF v \in vs /\ sessions[v] = "listed" THEN "none" ELSE sessions[v]]

(* removeWorktree: git, then rm, may both fail and leave the directory, and *)
(* git may refuse to delete a branch it has checked out. Neither is fatal.  *)
RemoveWorktree(r, v, deleteBranch) ==
  /\ \E left \in {"none", "stuck"} :
       /\ checkout[r][v] = "none" => left = "none"
       /\ checkout' = [checkout EXCEPT ![r][v] = left]
  /\ \/ deleteBranch /\ branch' = [branch EXCEPT ![r] = @ \ {v}]
     \/ UNCHANGED branch

(* rm -r of the directory of a race: a worktree that is locked stays.       *)
ClearDirectory(r) ==
  checkout' \in {[checkout EXCEPT ![r] =
    [v \in Variants |-> IF v \in stuck /\ checkout[r][v] # "none" THEN "stuck" ELSE "none"]]
      : stuck \in SUBSET Variants}

-----------------------------------------------------------------------------
(* create *)
Create(q, r) ==
  /\ request[q] = Idle /\ descriptor[r] = "unused" /\ head = "base"
  /\ descriptor' = [descriptor EXCEPT ![r] = "absent"]
  /\ Start(q, "build", r, Nobody, FALSE)
  /\ UNCHANGED <<winner, scoreboard, git, agent, past>>

(* One `worktree add -b`, and the session in the same turn.                 *)
AddVariant(q, v) ==
  LET r == request[q].race IN
  /\ request[q].at = "build" /\ v \in request[q].todo
  /\ checkout' = [checkout EXCEPT ![r][v] = "there"]
  /\ branch' = [branch EXCEPT ![r] = @ \cup {v}]
  /\ agent' = [agent EXCEPT ![r][v] = "listed"]
  /\ request' = [request EXCEPT ![q].todo = @ \ {v}]
  /\ UNCHANGED <<disk, merged, head, conflict, past>>

(* Wrong on purpose: the sessions of a race that failed go on.             *)
RollBackTrees(q, added) ==
  /\ UNCHANGED agent
  /\ request' = [request EXCEPT ![q].at = "rollback", ![q].todo = added]

(* rollback closes what create started, then removes what it added.         *)
RollBack(q, added) ==
  LET r == request[q].race IN
  /\ agent' = [agent EXCEPT ![r] = Closed(@, added)]
  /\ request' = [request EXCEPT ![q].at = "rollback", ![q].todo = added]

(* git fails: it may leave the branch it made first, and the directory; the *)
(* variant is not among those rolled back.                                   *)
AddFails(q, v) ==
  LET r == request[q].race IN
  /\ request[q].at = "build" /\ v \in request[q].todo
  /\ \E made \in {"none", "there"} : checkout' = [checkout EXCEPT ![r][v] = made]
  /\ branch' \in {branch, [branch EXCEPT ![r] = @ \cup {v}]}
  /\ RollBack(q, Variants \ request[q].todo)
  /\ UNCHANGED <<disk, merged, head, conflict, past>>

(* The session is refused: no room, or the PTY does not start.              *)
SessionRefused(q, v) ==
  LET r == request[q].race IN
  /\ request[q].at = "build" /\ v \in request[q].todo
  /\ checkout' = [checkout EXCEPT ![r][v] = "there"]
  /\ branch' = [branch EXCEPT ![r] = @ \cup {v}]
  /\ RollBack(q, (Variants \ request[q].todo) \cup {v})
  /\ UNCHANGED <<disk, merged, head, conflict, past>>

UndoVariant(q, v) ==
  /\ request[q].at = "rollback" /\ v \in request[q].todo
  /\ RemoveWorktree(request[q].race, v, TRUE)
  /\ request' = [request EXCEPT ![q].todo = @ \ {v}]
  /\ UNCHANGED <<disk, merged, head, conflict, agent, past>>

FinishRollback(q) ==
  /\ request[q].at = "rollback" /\ request[q].todo = {}
  /\ ClearDirectory(request[q].race)
  /\ End(q)
  /\ UNCHANGED <<disk, branch, merged, head, conflict, agent, past>>

SaveNew(q) ==
  /\ request[q].at = "build" /\ request[q].todo = {}
  /\ descriptor' = [descriptor EXCEPT ![request[q].race] = "running"]
  /\ End(q)
  /\ UNCHANGED <<winner, scoreboard, git, agent, past>>

(* The write is outside the try: nothing is rolled back.                    *)
SaveNewFails(q) ==
  /\ request[q].at = "build" /\ request[q].todo = {}
  /\ lost' = lost \cup {request[q].race}
  /\ End(q)
  /\ UNCHANGED <<disk, git, agent, asked, unread>>

-----------------------------------------------------------------------------
(* adopt *)
Adopt(q, r, v) ==
  /\ request[q] = Idle /\ descriptor[r] = "running"
  /\ Start(q, "commit", r, v, TRUE)
  /\ UNCHANGED <<disk, git, agent, past>>

(* commitWorktree. It refuses a worktree that is gone, and git may fail.    *)
Commit(q) ==
  /\ request[q].at = "commit"
  /\ \/ checkout[request[q].race][request[q].choice] # "none" /\ Goto(q, "check")
     \/ End(q)
  /\ UNCHANGED <<disk, git, agent, past>>

CheckBranch(q) ==
  /\ request[q].at = "check"
  /\ \/ head = "base" /\ Goto(q, "merge")
     \/ End(q)
  /\ UNCHANGED <<disk, git, agent, past>>

Mergeable(r, v) == v \in branch[r] /\ conflict = NoConflict

Merge(q) ==
  LET r == request[q].race  v == request[q].choice IN
  /\ request[q].at = "merge" /\ Mergeable(r, v)
  /\ merged' = [merged EXCEPT ![r] = @ \cup {v}]
  /\ Goto(q, "close")
  /\ UNCHANGED <<disk, checkout, branch, head, conflict, agent, past>>

(* Wrong on purpose: the race is torn down although its merge conflicts.    *)
ConflictTearsDown(q) ==
  LET r == request[q].race  v == request[q].choice IN
  /\ request[q].at = "merge" /\ Mergeable(r, v)
  /\ conflict' = [race |-> r, variant |-> v]
  /\ Goto(q, "close")
  /\ UNCHANGED <<disk, checkout, branch, merged, head, agent, past>>

(* Left as git left it.                                                     *)
Conflict(q) ==
  LET r == request[q].race  v == request[q].choice IN
  /\ request[q].at = "merge" /\ Mergeable(r, v)
  /\ conflict' = [race |-> r, variant |-> v]
  /\ End(q)
  /\ UNCHANGED <<disk, checkout, branch, merged, head, agent, past>>

(* Wrong on purpose: the exit code of the merge is not looked at.           *)
MergeFailsUnseen(q) ==
  /\ request[q].at = "merge"
  /\ Goto(q, "close")
  /\ UNCHANGED <<disk, git, agent, past>>

(* No such branch, an older conflict, a hook, a file in the way, a timeout. *)
MergeFails(q) ==
  /\ request[q].at = "merge"
  /\ End(q)
  /\ UNCHANGED <<disk, git, agent, past>>

CloseNext(q, v) ==
  /\ request[q].at = "close" /\ v \in request[q].todo
  /\ agent' = [agent EXCEPT ![request[q].race] = Closed(@, {v})]
  /\ request' = [request EXCEPT ![q].at = "remove", ![q].now = v]
  /\ UNCHANGED <<disk, git, past>>

Step(q, v, then) ==
  request' = [request EXCEPT ![q].todo = @ \ {v}, ![q].now = Nobody, ![q].at = then]

(* Wrong on purpose: the winner keeps its worktree.                         *)
RemoveLoser(q) ==
  LET v == request[q].now IN
  /\ request[q].at = "remove"
  /\ IF v = request[q].choice THEN UNCHANGED <<checkout, branch>>
     ELSE RemoveWorktree(request[q].race, v, TRUE)
  /\ Step(q, v, IF request[q].todo = {v} THEN "save" ELSE "close")
  /\ UNCHANGED <<disk, merged, head, conflict, agent, past>>

(* Every worktree goes; the branch of the winner stays.                     *)
RemoveNext(q) ==
  LET v == request[q].now IN
  /\ request[q].at = "remove"
  /\ RemoveWorktree(request[q].race, v, v # request[q].choice)
  /\ Step(q, v, IF request[q].todo = {v} THEN "save" ELSE "close")
  /\ UNCHANGED <<disk, merged, head, conflict, agent, past>>

(* Whatever became of the descriptor since it was read.                     *)
SaveAdopted(q) ==
  LET r == request[q].race IN
  /\ request[q].at = "save"
  /\ descriptor' = [descriptor EXCEPT ![r] = "adopted"]
  /\ winner' = [winner EXCEPT ![r] = request[q].choice]
  /\ Goto(q, "read")
  /\ UNCHANGED <<scoreboard, git, agent, past>>

SaveAdoptedFails(q) ==
  /\ request[q].at = "save"
  /\ End(q)
  /\ UNCHANGED <<disk, git, agent, past>>

-----------------------------------------------------------------------------
(* recordOutcome: the file is read, then written, and neither step is       *)
(* fatal: a file that cannot be read counts as empty. adopt ends with it;   *)
(* discard has the directory to remove.                                     *)
ReadScores(q) ==
  /\ request[q].at = "read"
  /\ \E seen \in {scoreboard, {}} :
       request' = [request EXCEPT ![q].at = "write", ![q].seen = seen]
  /\ UNCHANGED <<disk, git, agent, past>>

WriteScores(q) ==
  LET h == request[q] IN
  /\ h.at = "write"
  /\ scoreboard' \in {scoreboard, h.seen \cup {[race |-> h.race, winner |-> h.choice]}}
  /\ IF h.choice = Nobody THEN Goto(q, "drop") ELSE End(q)
  /\ UNCHANGED <<descriptor, winner, git, agent, past>>

-----------------------------------------------------------------------------
(* discard. An outcome is recorded for a race that was running and could be *)
(* measured.                                                                 *)
Discard(q, r) ==
  /\ request[q] = Idle /\ descriptor[r] \in {"running", "adopted"}
  /\ asked' = asked \cup {r}
  /\ \E measured \in BOOLEAN :
       Start(q, "silence", r, Nobody, measured /\ descriptor[r] = "running")
  /\ UNCHANGED <<disk, git, agent, lost, unread>>

(* The directory of a race goes, and race.json with it: unless something in *)
(* it stays, when it may stay too.                                          *)
DropDirectory(r) ==
  /\ ClearDirectory(r)
  /\ \/ /\ descriptor' = [descriptor EXCEPT ![r] = "absent"]
        /\ winner' = [winner EXCEPT ![r] = Nobody]
     \/ /\ \E v \in Variants : checkout'[r][v] = "stuck"
        /\ UNCHANGED <<descriptor, winner>>

(* Without a descriptor, or with one that cannot be read or is no JSON, only *)
(* the directory goes: no session is closed, no branch deleted. Nobody is   *)
(* told the id of a race that is being made.                                 *)
DiscardUnread(q, r) ==
  /\ request[q] = Idle /\ descriptor[r] # "unused" /\ ~MakingOf(r)
  /\ asked' = asked \cup {r}
  /\ unread' = IF descriptor[r] = "absent" THEN unread ELSE unread \cup {r}
  /\ DropDirectory(r)
  /\ UNCHANGED <<scoreboard, branch, merged, head, conflict, agent, request, lost>>

(* Wrong on purpose: the worktrees are removed under the agents.            *)
SilenceNobody(q) ==
  /\ request[q].at = "silence"
  /\ Goto(q, "sweep")
  /\ UNCHANGED <<disk, git, agent, past>>

Silence(q) ==
  /\ request[q].at = "silence"
  /\ agent' = [agent EXCEPT ![request[q].race] = Closed(@, Variants)]
  /\ Goto(q, "sweep")
  /\ UNCHANGED <<disk, git, past>>

Sweep(q, v) ==
  /\ request[q].at = "sweep" /\ v \in request[q].todo
  /\ RemoveWorktree(request[q].race, v, TRUE)
  /\ Step(q, v, IF request[q].todo # {v} THEN "sweep"
                ELSE IF request[q].counts THEN "read" ELSE "drop")
  /\ UNCHANGED <<disk, merged, head, conflict, agent, past>>

Drop(q) ==
  /\ request[q].at = "drop"
  /\ DropDirectory(request[q].race)
  /\ End(q)
  /\ UNCHANGED <<scoreboard, branch, merged, head, conflict, agent, past>>

-----------------------------------------------------------------------------
(* The session manager. A session started in the place of another has an id *)
(* race.json does not know; without its directory it starts at home.        *)
Restart(r, v) ==
  /\ agent[r][v] \in {"listed", "stray"}
  /\ agent' = [agent EXCEPT ![r][v] = IF checkout[r][v] = "none" THEN "none" ELSE "stray"]
  /\ UNCHANGED <<disk, git, request, past>>

ResumeOrphan(r, v) ==
  /\ agent[r][v] = "orphan" /\ checkout[r][v] # "none"
  /\ agent' = [agent EXCEPT ![r][v] = "stray"]
  /\ UNCHANGED <<disk, git, request, past>>

(* Closed, reaped or dismissed.                                             *)
CloseSession(r, v) ==
  /\ agent[r][v] # "none"
  /\ agent' = [agent EXCEPT ![r][v] = "none"]
  /\ UNCHANGED <<disk, git, request, past>>

Crash ==
  /\ request' = [q \in Requests |-> Idle]
  /\ agent' = [r \in Races |-> [v \in Variants |->
                 IF agent[r][v] = "none" THEN "none" ELSE "orphan"]]
  /\ lost' = lost \cup {r \in Races : MakingOf(r)}
  /\ UNCHANGED <<disk, git, asked, unread>>

(* The user's own git. Nobody switches branches between the check of a      *)
(* merge and the merge, which are milliseconds apart.                        *)
SwitchBranch ==
  /\ conflict = NoConflict
  /\ \A q \in Requests : request[q].at # "merge"
  /\ head' \in {"base", "elsewhere"} \ {head}
  /\ UNCHANGED <<disk, checkout, branch, merged, conflict, agent, request, past>>

SettleConflict ==
  /\ conflict # NoConflict
  /\ conflict' = NoConflict
  /\ merged' \in {merged, [merged EXCEPT ![conflict.race] = @ \cup {conflict.variant}]}
  /\ UNCHANGED <<disk, checkout, branch, head, agent, request, past>>

Next ==
  \/ \E q \in Requests :
       \/ \E r \in Races : Create(q, r) \/ Discard(q, r) \/ DiscardUnread(q, r)
       \/ \E r \in Races, v \in Variants : Adopt(q, r, v)
       \/ \E v \in Variants :
            \/ AddVariant(q, v) \/ AddFails(q, v) \/ SessionRefused(q, v)
            \/ UndoVariant(q, v) \/ CloseNext(q, v) \/ Sweep(q, v)
       \/ FinishRollback(q) \/ SaveNew(q) \/ SaveNewFails(q)
       \/ Commit(q) \/ CheckBranch(q) \/ Merge(q) \/ Conflict(q) \/ MergeFails(q)
       \/ RemoveNext(q) \/ SaveAdopted(q) \/ SaveAdoptedFails(q)
       \/ ReadScores(q) \/ WriteScores(q) \/ Silence(q) \/ Drop(q)
  \/ \E r \in Races, v \in Variants :
       Restart(r, v) \/ ResumeOrphan(r, v) \/ CloseSession(r, v)
  \/ Crash \/ SwitchBranch \/ SettleConflict

Spec == Init /\ [][Next]_vars

-----------------------------------------------------------------------------
(* Properties *)

(* Every variable has its type: race.json is absent or in one of two        *)
(* states, and a handler is at one of its awaits.                            *)
TypeOK ==
  /\ descriptor \in [Races -> {"unused", "absent", "running", "adopted"}]
  /\ winner \in [Races -> Variants \cup {Nobody}]
  /\ checkout \in [Races -> [Variants -> {"none", "there", "stuck"}]]
  /\ branch \in [Races -> SUBSET Variants]
  /\ agent \in [Races -> [Variants -> {"none", "listed", "stray", "orphan"}]]
  /\ merged \in [Races -> SUBSET Variants]
  /\ head \in {"base", "elsewhere"}
  /\ conflict \in {NoConflict} \cup [race : Races, variant : Variants]
  /\ scoreboard \subseteq Outcome
  /\ request \in [Requests -> Handler \cup {Idle}]
  /\ {asked, lost, unread} \subseteq SUBSET Races

(* Whoever race.json or the scoreboard calls the winner of a race has been  *)
(* merged into the branch it started on, whatever other adoptions and       *)
(* discards of it were in progress (adopt returns when the merge fails).    *)
WinnerIsMerged ==
  /\ \A r \in Races : descriptor[r] = "adopted" => winner[r] \in merged[r]
  /\ \A o \in scoreboard : o.winner # Nobody => o.winner \in merged[o.race]

(* Until a variant is merged or somebody asks to discard the race, every    *)
(* worktree and every branch of a running race is there: after a conflict,  *)
(* a failed adoption, a crash (README: "a merge conflict never destroys the *)
(* work").                                                                   *)
WorkIsKept ==
  \A r \in Races :
    descriptor[r] = "running" /\ r \notin asked /\ merged[r] = {} =>
      /\ \A v \in Variants : checkout[r][v] = "there"
      /\ branch[r] = Variants

(* An adopted race has no worktree left, the winner's included, except the  *)
(* ones that could not be removed, and none of the sessions it started.     *)
AdoptionClosesAll ==
  \A r \in Races : descriptor[r] = "adopted" =>
    \A v \in Variants : checkout[r][v] # "there" /\ agent[r][v] # "listed"

(* A race that was rolled back or discarded left no worktree, except those  *)
(* that could not be removed; and no session of its own, if discard could   *)
(* read which those were. (lost: making it ended in a crash or a failed      *)
(* save, which roll nothing back.)                                           *)
DroppedIsGone ==
  \A r \in Races : descriptor[r] = "absent" /\ r \notin lost /\ ~MakingOf(r) =>
    \A v \in Variants :
      /\ checkout[r][v] # "there"
      /\ r \notin unread => agent[r][v] # "listed"

(* No worktree is removed under a session the race started: sessions close  *)
(* first, whichever of rollback, adopt and discard removes it. The one      *)
(* exception is a discard that could not read race.json (comment in discard: *)
(* "a corrupt descriptor is not a leak").                                    *)
AgentsHaveTheirTree ==
  \A r \in Races \ (lost \cup unread) : \A v \in Variants :
    agent[r][v] = "listed" => checkout[r][v] # "none"

(* "Adoption is a full stop": no agent goes on in a worktree of an adopted  *)
(* race (comment in adopt). It does: a session restarted, or resumed after  *)
(* a crash of the server, has an id race.json does not know.                *)
AdoptionIsAFullStop ==
  \A r \in Races : descriptor[r] = "adopted" =>
    \A v \in Variants : agent[r][v] \in {"none", "orphan"}
==============================================================================
