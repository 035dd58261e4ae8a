-------------------------------- MODULE RaceView --------------------------------
(***************************************************************************)
(* The race screen (public/js/race-ui.js): which race is selected, whose    *)
(* diffs are shown, and the chains of requests behind its buttons. Each     *)
(* await is a step of its own: replies come in any order, the user clicks   *)
(* and the list changes between them. Which worktrees a race has is         *)
(* RaceManager's; here a race is there or not, running or not.              *)
(***************************************************************************)
EXTENDS Naturals, FiniteSets

CONSTANTS
  Races,     \* identifiers of races
  None,
  MaxCalls,  \* bound: requests of the page, and steps of other windows
  MaxPending \* bound: requests under way at a time

VARIABLES
  running,   \* the server's races still running
  over,      \* the server's races adopted, or given up
  screen,    \* the fields of RaceView
  calls,     \* requests under way, and their replies
  count

rvars == <<running, over, screen, calls, count>>

Ops == {"start", "adopt", "discard"}

(* A call: `then` names the button whose chain goes on with its reply.       *)
Slot(used) == CHOOSE n \in 1..(MaxPending + 1) : n \notin used
InUse == {c.n : c \in calls}
Call(t, race, then) ==
  [n |-> Slot(InUse), t |-> t, race |-> race, then |-> then, at |-> "asked",
   running |-> {}, over |-> {}]

(* constructor, mount: the list is seeded from the bootstrap snapshot, its   *)
(* first race selected but not loaded; then the list is asked for.           *)
Screen(seeded, first) ==
  [races |-> seeded, live |-> seeded, selected |-> first, detail |-> None,
   loading |-> FALSE, busy |-> FALSE, confirm |-> [kind |-> "none", race |-> None]]
Init ==
  /\ running \in SUBSET Races /\ over = {}
  /\ \E seeded \in {{}, running} :
       \E first \in IF seeded = {} THEN {None} ELSE seeded : screen = Screen(seeded, first)
  /\ count = 1
  /\ calls = {[n |-> 1, t |-> "list", race |-> None, then |-> "none", at |-> "asked",
               running |-> {}, over |-> {}]}

-----------------------------------------------------------------------------
(* The server *)

There == running \cup over
Reply(c, at) ==
  LET shown == at = "answered" /\ c.t = "list" IN
  calls' = (calls \ {c}) \cup {[c EXCEPT !.at = at, !.running = IF shown THEN running ELSE {},
                                        !.over = IF shown THEN over ELSE {}]}

(* A request is handled, or refused, or its reply is lost.                   *)
Handled(c) ==
  /\ c \in calls /\ c.at = "asked"
  /\ CASE c.t = "start" ->
            c.race \notin There /\ running' = running \cup {c.race} /\ UNCHANGED over
       [] c.t = "adopt" ->
            c.race \in running /\ running' = running \ {c.race} /\ over' = over \cup {c.race}
       [] c.t = "discard" ->
            c.race \in There /\ running' = running \ {c.race} /\ over' = over \ {c.race}
       [] c.t = "detail" -> c.race \in There /\ UNCHANGED <<running, over>>
       [] OTHER -> UNCHANGED <<running, over>>
  /\ Reply(c, "answered") /\ UNCHANGED <<screen, count>>
Fails(c) ==
  /\ c \in calls /\ c.at = "asked"
  /\ UNCHANGED <<running, over, screen, count>> /\ Reply(c, "failed")

(* Another window adopts, discards or starts a race.                         *)
Elsewhere(r) ==
  /\ count < MaxCalls /\ count' = count + 1
  /\ \/ r \in running /\ running' = running \ {r} /\ over' \in {over, over \cup {r}}
     \/ r \notin There /\ running' = running \cup {r} /\ UNCHANGED over
  /\ UNCHANGED <<screen, calls>>

-----------------------------------------------------------------------------
(* The page: one request *)

May == count < MaxCalls /\ Cardinality(calls) < MaxPending
Asks(rest, c) == calls' = rest \cup {c} /\ count' = count + 1
Stops(rest) == calls' = rest /\ UNCHANGED count

(* select, loadDetail.                                                       *)
Selects(s, r) == [s EXCEPT !.selected = r, !.detail = None, !.loading = TRUE]
Loads(s) == [s EXCEPT !.loading = TRUE]

Select(r) ==
  /\ May /\ r \in screen.races
  /\ screen' = Selects(screen, r) /\ Asks(calls, Call("detail", r, "none"))
  /\ UNCHANGED <<running, over>>

(* "Refresh diffs", which is disabled while they load.                       *)
RefreshDiffs ==
  /\ May /\ screen.selected \in screen.races /\ ~screen.loading
  /\ screen' = Loads(screen) /\ Asks(calls, Call("detail", screen.selected, "none"))
  /\ UNCHANGED <<running, over>>

(* The poll, and S2C.RACE.                                                   *)
Reload ==
  /\ May /\ Asks(calls, Call("list", None, "none"))
  /\ UNCHANGED <<running, over, screen>>

(* loadDetail: a reply that is no longer wanted is dropped, and leaves the    *)
(* indicator alone, which is the other request's by then.                    *)
Shown(s, c) ==
  [s EXCEPT !.detail = IF c.at = "answered" THEN c.race ELSE @, !.loading = FALSE]
(* Wrong on purpose: whatever comes is shown.                                *)
ShownAnyway(s, c) == Shown(s, c)
Dropped(s, c) == s
Detailed(s, c) == IF s.selected = c.race THEN Shown(s, c) ELSE Dropped(s, c)

(* loadRaces: a selected race that is gone is let go of, with its diffs.     *)
LetGo(s) == [s EXCEPT !.selected = None, !.detail = None]
Listing(s, c) ==
  LET races == c.running \cup c.over
      t == [s EXCEPT !.races = races, !.live = c.running]
  IN IF s.selected \in races \cup {None} THEN t ELSE LetGo(t)

-----------------------------------------------------------------------------
(* The page: buttons, and the chains of requests behind them *)

(* They are disabled while the screen is busy.                               *)
MayClick(s) == ~s.busy

NoConfirm == [kind |-> "none", race |-> None]
Busy(s) == [s EXCEPT !.busy = TRUE, !.confirm = NoConfirm]

(* r is the identifier the server is going to give.                          *)
StartRace(r) ==
  /\ May /\ MayClick(screen)
  /\ screen' = [screen EXCEPT !.busy = TRUE] /\ Asks(calls, Call("start", r, "start"))
  /\ UNCHANGED <<running, over>>

(* renderRaceList, renderVariantColumn: what the two buttons ask about.      *)
AskConfirm(kind, r) ==
  /\ MayClick(screen) /\ r \in screen.races
  /\ kind = "adopt" => r = screen.selected /\ r \in screen.live
  /\ screen' = [screen EXCEPT !.confirm = [kind |-> kind, race |-> r]]
  /\ UNCHANGED <<running, over, calls, count>>
Cancel ==
  /\ screen.confirm # NoConfirm /\ screen' = [screen EXCEPT !.confirm = NoConfirm]
  /\ UNCHANGED <<running, over, calls, count>>
(* renderConfirm: the race must still be listed.                             *)
Confirm ==
  /\ May /\ screen.confirm.race \in screen.races /\ MayClick(screen)
  /\ screen' = Busy(screen)
  /\ Asks(calls, Call(screen.confirm.kind, screen.confirm.race, screen.confirm.kind))
  /\ UNCHANGED <<running, over>>

Free(s) == [s EXCEPT !.busy = FALSE]
Back(c, t) == c \in calls /\ c.at # "asked" /\ c.t = t
CallFor(c, t) == [c EXCEPT !.t = t, !.at = "asked", !.running = {}, !.over = {}]

(* startRace: the list, then the new race, and only then is it over.         *)
Started(c) ==
  /\ Back(c, "start")
  /\ IF c.at = "failed" THEN screen' = Free(screen) /\ Stops(calls \ {c})
     ELSE count < MaxCalls /\ UNCHANGED screen /\ Asks(calls \ {c}, CallFor(c, "list"))
  /\ UNCHANGED <<running, over>>

(* adopt, discard: no longer busy, then the list and the scoreboard.         *)
Settled(c) ==
  /\ c.t \in {"adopt", "discard"} /\ Back(c, c.t) /\ count < MaxCalls
  /\ screen' = IF c.t = "discard" /\ c.at = "answered" /\ screen.selected = c.race
               THEN LetGo(Free(screen)) ELSE Free(screen)
  /\ Asks(calls \ {c}, CallFor(c, "list"))
  /\ UNCHANGED <<running, over>>

(* loadRaces selects the first race when none is, without waiting for it.    *)
(* What follows depends on the button: startRace selects its race instead.   *)
Firsts(s) == IF s.selected = None /\ s.races # {} THEN s.races ELSE {None}
Listed(c) ==
  /\ Back(c, "list") /\ count + 2 <= MaxCalls
  /\ LET s == IF c.at = "answered" THEN Listing(screen, c) ELSE screen IN
     \E first \in IF c.at = "answered" THEN Firsts(s) ELSE {None} :
       LET t == IF first = None THEN s ELSE Selects(s, first)
           extra == IF first = None THEN {}
                    ELSE {Call("detail", first, "none")}
           next == CASE c.then = "start" -> {CallFor(c, "detail")}
                     [] c.then \in {"adopt", "discard"} -> {CallFor(c, "board")}
                     [] OTHER -> {}
       IN /\ extra # {} => Cardinality(calls) < MaxPending
          /\ screen' = IF c.then = "start" THEN Selects(t, c.race) ELSE t
          /\ calls' = (calls \ {c}) \cup next \cup extra
          /\ count' = count + IF extra = {} THEN Cardinality(next) ELSE 2
  /\ UNCHANGED <<running, over>>

(* adopt shows the race again if it is still the selected one.               *)
Scored(c) ==
  /\ Back(c, "board")
  /\ IF c.then = "adopt" /\ screen.selected = c.race
     THEN count < MaxCalls /\ screen' = Loads(screen) /\ Asks(calls \ {c}, CallFor(c, "detail"))
     ELSE UNCHANGED screen /\ Stops(calls \ {c})
  /\ UNCHANGED <<running, over>>

DetailComes(c) ==
  /\ Back(c, "detail") /\ Stops(calls \ {c})
  /\ LET s == Detailed(screen, c) IN screen' = IF c.then = "start" THEN Free(s) ELSE s
  /\ UNCHANGED <<running, over>>

Next ==
  \/ \E r \in Races :
       Select(r) \/ StartRace(r) \/ Elsewhere(r)
       \/ \E kind \in {"adopt", "discard"} : AskConfirm(kind, r)
  \/ RefreshDiffs \/ Reload \/ Cancel \/ Confirm
  \/ \E c \in calls :
       \/ Handled(c) \/ Fails(c)
       \/ Started(c) \/ Settled(c) \/ Listed(c) \/ Scored(c) \/ DetailComes(c)

Spec == Init /\ [][Next]_rvars

-----------------------------------------------------------------------------
(* Properties *)

(* Whatever overtakes whatever, the diffs shown are those of the selected    *)
(* race, the one its columns and its adopt buttons are about.                *)
DetailIsOfTheSelected == screen.detail \in {None, screen.selected}

(* A race that is selected and shown as loading has a request under way, so  *)
(* that the refresh button, disabled meanwhile, comes back.                  *)
LoadingHasAnEnd ==
  screen.loading /\ screen.selected # None =>
    \E c \in calls : c.t = "detail" /\ c.race = screen.selected

(* Adopting, discarding and starting exclude one another: two of them would  *)
(* work on the same repository, and the first to end would free the screen   *)
(* of the second.                                                            *)
OneAtATime == Cardinality({c \in calls : c.t \in Ops}) <= 1

(* What the screen shows and allows belongs together.                        *)
ScreenIsSound == DetailIsOfTheSelected /\ LoadingHasAnEnd /\ OneAtATime
==============================================================================
