------------------------------ MODULE RaceProofs ------------------------------
(***************************************************************************)
(* Proofs about RaceManager, for any races, variants and number of requests. *)
(*                                                                         *)
(* WinnerIsMerged is not inductive: the winner is written several awaits    *)
(* after its merge, to a descriptor read before it, and the scoreboard from *)
(* a copy read earlier. The invariant adds what a handler may rely on at    *)
(* each await. The invariants of the worktrees are of the same kind: what   *)
(* becomes of a tree depends on the handler that is between its awaits.     *)
(***************************************************************************)
EXTENDS RaceManager, TLAPS

Adopting  == {"commit", "check", "merge", "close", "remove", "save"}
Torn      == {"close", "remove", "save"}
Reporting == {"read", "write"}

(* What a set of outcomes calls a winner has been merged.                   *)
Honest(outcomes, m) ==
  \A o \in outcomes : o.winner # Nobody => o.winner \in m[o.race]

(* A handler past its merge has merged its choice, a handler that reports a *)
(* winner too, and the scoreboard it read was honest.                       *)
HandlerSound(h, m) ==
  /\ h.at \in Adopting => h.choice # Nobody
  /\ h.at \in Torn \cup Reporting /\ h.choice # Nobody => h.choice \in m[h.race]
  /\ h.at \in {"silence", "sweep", "drop"} => h.choice = Nobody
  /\ h.at = "remove" => h.now # Nobody
  /\ h.at = "write" => Honest(h.seen, m)

HandlersSound == \A q \in Requests : HandlerSound(request[q], merged)

(* RaceInv is the inductive invariant.                                     *)
RaceInv == TypeOK /\ WinnerIsMerged /\ HandlersSound

(* Initially nothing has happened.                                          *)
LEMMA RaceInvInit == Init => RaceInv
  BY NobodyIsNoVariant
  DEF Init, RaceInv, TypeOK, WinnerIsMerged, HandlersSound, HandlerSound, Idle,
      NoConflict, Adopting, Torn, Reporting, Outcome, Honest

(* A handler is a record, or idle.                                          *)
LEMMA Stepping ==
  ASSUME TypeOK, NEW q \in Requests, request[q].at # "idle"
  PROVE  request[q] \in Handler
  BY DEF TypeOK, Idle

(* A step of one handler leaves every handler a handler, or idle.           *)
LEMMA MoveTyped ==
  ASSUME TypeOK, NEW q \in Requests, NEW h \in Handler \cup {Idle},
         request' = [request EXCEPT ![q] = h]
  PROVE  request' \in [Requests -> Handler \cup {Idle}]
  BY DEF TypeOK

(* So does a step that only moves it on,                                    *)
LEMMA GotoTyped ==
  ASSUME TypeOK, NEW q \in Requests, request[q].at # "idle",
         NEW stage \in Stages, Goto(q, stage)
  PROVE  request' \in [Requests -> Handler \cup {Idle}]
<1>1. request[q] \in Handler /\ Nobody \in Variants \cup {Nobody}
  BY Stepping
<1>2. [request[q] EXCEPT !.at = stage] \in Handler
  BY <1>1 DEF Handler
<1>3. request' = [request EXCEPT ![q] = [request[q] EXCEPT !.at = stage]]
  BY DEF Goto
<1> QED
  BY <1>2, <1>3, MoveTyped

(* one that ends an iteration of its loop,                                  *)
LEMMA StepTyped ==
  ASSUME TypeOK, NEW q \in Requests, request[q].at # "idle",
         NEW stage \in Stages, NEW v, Step(q, v, stage)
  PROVE  request' \in [Requests -> Handler \cup {Idle}]
<1>1. request[q] \in Handler
  BY Stepping
<1>2. [request[q] EXCEPT !.todo = request[q].todo \ {v}, !.now = Nobody, !.at = stage]
        \in Handler
  BY <1>1 DEF Handler
<1>3. request' =
        [request EXCEPT ![q] =
          [request[q] EXCEPT !.todo = request[q].todo \ {v}, !.now = Nobody, !.at = stage]]
  BY DEF Step
<1> QED
  BY <1>2, <1>3, MoveTyped

(* Removing a worktree, clearing a directory and closing sessions type.     *)
LEMMA RemoveTyped ==
  ASSUME TypeOK, NEW r \in Races, NEW v \in Variants, NEW d \in BOOLEAN,
         RemoveWorktree(r, v, d)
  PROVE  /\ checkout' \in [Races -> [Variants -> {"none", "there", "stuck"}]]
         /\ branch' \in [Races -> SUBSET Variants]
<1>1. /\ \E left \in {"none", "stuck"} : checkout' = [checkout EXCEPT ![r][v] = left]
      /\ \/ branch' = [branch EXCEPT ![r] = @ \ {v}]
         \/ branch' = branch
  BY DEF RemoveWorktree
<1>2. checkout \in [Races -> [Variants -> {"none", "there", "stuck"}]]
      /\ branch \in [Races -> SUBSET Variants]
  BY DEF TypeOK
<1>3. checkout' \in [Races -> [Variants -> {"none", "there", "stuck"}]]
  BY <1>1, <1>2
<1>4. branch' \in [Races -> SUBSET Variants]
  BY <1>1, <1>2
<1> QED
  BY <1>3, <1>4

LEMMA ClearTyped ==
  ASSUME TypeOK, NEW r \in Races, ClearDirectory(r)
  PROVE  checkout' \in [Races -> [Variants -> {"none", "there", "stuck"}]]
  BY DEF TypeOK, ClearDirectory

LEMMA ClosedTyped ==
  ASSUME NEW f \in [Variants -> {"none", "listed", "stray", "orphan"}], NEW vs
  PROVE  Closed(f, vs) \in [Variants -> {"none", "listed", "stray", "orphan"}]
  BY DEF Closed
(* and one that starts a rollback.                                          *)
LEMMA RollBackTyped ==
  ASSUME TypeOK, NEW q \in Requests, request[q] \in Handler,
         NEW vs \in SUBSET Variants, RollBack(q, vs)
  PROVE  /\ request' \in [Requests -> Handler \cup {Idle}]
         /\ agent' \in [Races -> [Variants -> {"none", "listed", "stray", "orphan"}]]
<1>1. [request[q] EXCEPT !.at = "rollback", !.todo = vs] \in Handler
  BY DEF Handler, Stages, Making
<1>2. request' =
        [request EXCEPT ![q] = [request[q] EXCEPT !.at = "rollback", !.todo = vs]]
  BY DEF RollBack
<1>3. request[q].race \in Races
  BY DEF Handler
<1>4. Closed(agent[request[q].race], vs)
        \in [Variants -> {"none", "listed", "stray", "orphan"}]
  BY <1>3, ClosedTyped DEF TypeOK
<1> QED
  BY <1>1, <1>2, <1>3, <1>4, MoveTyped DEF RollBack, TypeOK

(* Each action keeps the types: create,                                     *)
LEMMA CreateTypes ==
  ASSUME TypeOK, NEW q \in Requests, NEW r \in Races, Create(q, r)
  PROVE  TypeOK'
<1>r. request' \in [Requests -> Handler \cup {Idle}]
  BY MoveTyped, NobodyIsNoVariant DEF Create, Start, Handler, Stages, Making
<1> QED
  BY <1>r DEF Create, TypeOK, disk, git, past

LEMMA AddVariantTypes ==
  ASSUME TypeOK, NEW q \in Requests, NEW v \in Variants, AddVariant(q, v)
  PROVE  TypeOK'
<1>h. request[q] \in Handler
  BY Stepping DEF AddVariant
<1>s. request[q].race \in Races
  BY <1>h DEF Handler
<1>r. request' \in [Requests -> Handler \cup {Idle}]
  <2>1. [request[q] EXCEPT !.todo = request[q].todo \ {v}] \in Handler
    BY <1>h DEF Handler, Stages
  <2>2. request' =
          [request EXCEPT ![q] = [request[q] EXCEPT !.todo = request[q].todo \ {v}]]
    BY DEF AddVariant
  <2> QED
    BY <2>1, <2>2, MoveTyped
<1> QED
  BY <1>r, <1>s DEF AddVariant, TypeOK, disk, git, past

LEMMA AddFailsTypes ==
  ASSUME TypeOK, NEW q \in Requests, NEW v \in Variants, AddFails(q, v)
  PROVE  TypeOK'
<1>h. request[q] \in Handler
  BY Stepping DEF AddFails
<1>s. request[q].race \in Races
  BY <1>h DEF Handler
<1>b. /\ branch' \in [Races -> SUBSET Variants]
      /\ checkout' \in [Races -> [Variants -> {"none", "there", "stuck"}]]
  <2>1. \E made \in {"none", "there"} :
          checkout' = [checkout EXCEPT ![request[q].race][v] = made]
    BY DEF AddFails
  <2>2. branch' \in {branch,
                     [branch EXCEPT ![request[q].race] = branch[request[q].race] \cup {v}]}
    BY DEF AddFails
  <2>3. checkout' \in [Races -> [Variants -> {"none", "there", "stuck"}]]
    BY <2>1, <1>s DEF TypeOK
  <2>4. branch' \in [Races -> SUBSET Variants]
    <3>1. branch \in [Races -> SUBSET Variants]
      BY DEF TypeOK
    <3>2. branch[request[q].race] \cup {v} \in SUBSET Variants
      BY <1>s, <3>1
    <3> QED
      BY <2>2, <3>1, <3>2
  <2> QED
    BY <2>3, <2>4
<1>r. request' \in [Requests -> Handler \cup {Idle}]
  BY <1>h, RollBackTyped DEF AddFails
<1> QED
  BY <1>r, <1>s, <1>h, <1>b, RollBackTyped DEF AddFails, TypeOK, disk, git, past

LEMMA SessionRefusedTypes ==
  ASSUME TypeOK, NEW q \in Requests, NEW v \in Variants, SessionRefused(q, v)
  PROVE  TypeOK'
<1>h. request[q] \in Handler
  BY Stepping DEF SessionRefused
<1>s. request[q].race \in Races
  BY <1>h DEF Handler
<1>r. request' \in [Requests -> Handler \cup {Idle}]
  BY <1>h, RollBackTyped DEF SessionRefused
<1> QED
  BY <1>r, <1>s, <1>h, RollBackTyped DEF SessionRefused, TypeOK, disk, git, past

LEMMA UndoVariantTypes ==
  ASSUME TypeOK, NEW q \in Requests, NEW v \in Variants, UndoVariant(q, v)
  PROVE  TypeOK'
<1>h. request[q] \in Handler
  BY Stepping DEF UndoVariant
<1>s. request[q].race \in Races
  BY <1>h DEF Handler
<1>r. request' \in [Requests -> Handler \cup {Idle}]
  <2>1. [request[q] EXCEPT !.todo = request[q].todo \ {v}] \in Handler
    BY <1>h DEF Handler, Stages
  <2>2. request' =
          [request EXCEPT ![q] = [request[q] EXCEPT !.todo = request[q].todo \ {v}]]
    BY DEF UndoVariant
  <2> QED
    BY <2>1, <2>2, MoveTyped
<1> QED
  BY <1>r, <1>s, RemoveTyped DEF UndoVariant, TypeOK, disk, git, past

LEMMA FinishRollbackTypes ==
  ASSUME TypeOK, NEW q \in Requests, FinishRollback(q)
  PROVE  TypeOK'
<1>h. request[q] \in Handler
  BY Stepping DEF FinishRollback
<1>s. request[q].race \in Races
  BY <1>h DEF Handler
<1>r. request' \in [Requests -> Handler \cup {Idle}]
  BY MoveTyped DEF FinishRollback, End
<1> QED
  BY <1>r, <1>s, ClearTyped DEF FinishRollback, TypeOK, disk, git, past

LEMMA SaveNewTypes ==
  ASSUME TypeOK, NEW q \in Requests, SaveNew(q)
  PROVE  TypeOK'
<1>h. request[q] \in Handler
  BY Stepping DEF SaveNew
<1>s. request[q].race \in Races
  BY <1>h DEF Handler
<1>r. request' \in [Requests -> Handler \cup {Idle}]
  BY MoveTyped DEF SaveNew, End
<1> QED
  BY <1>r, <1>s DEF SaveNew, TypeOK, disk, git, past

LEMMA SaveNewFailsTypes ==
  ASSUME TypeOK, NEW q \in Requests, SaveNewFails(q)
  PROVE  TypeOK'
<1>h. request[q] \in Handler
  BY Stepping DEF SaveNewFails
<1>s. request[q].race \in Races
  BY <1>h DEF Handler
<1>r. request' \in [Requests -> Handler \cup {Idle}]
  BY MoveTyped DEF SaveNewFails, End
<1> QED
  BY <1>r, <1>s DEF SaveNewFails, TypeOK, disk, git, past

(* adopt, which needs to know that its choice is a variant,                 *)
LEMMA AdoptTypes ==
  ASSUME TypeOK, NEW q \in Requests, NEW r \in Races, NEW v \in Variants, Adopt(q, r, v)
  PROVE  TypeOK'
<1>r. request' \in [Requests -> Handler \cup {Idle}]
  BY MoveTyped, NobodyIsNoVariant DEF Adopt, Start, Handler, Stages, Making
<1> QED
  BY <1>r DEF Adopt, TypeOK, disk, git, past

LEMMA CommitTypes ==
  ASSUME TypeOK, NEW q \in Requests, Commit(q)
  PROVE  TypeOK'
<1>r. request' \in [Requests -> Handler \cup {Idle}]
  BY GotoTyped, MoveTyped DEF Commit, Stages, Making, End
<1> QED
  BY <1>r DEF Commit, TypeOK, disk, git, past

LEMMA CheckBranchTypes ==
  ASSUME TypeOK, NEW q \in Requests, CheckBranch(q)
  PROVE  TypeOK'
<1>r. request' \in [Requests -> Handler \cup {Idle}]
  BY GotoTyped, MoveTyped DEF CheckBranch, Stages, Making, End
<1> QED
  BY <1>r DEF CheckBranch, TypeOK, disk, git, past

LEMMA MergeTypes ==
  ASSUME TypeOK, HandlersSound, NEW q \in Requests, Merge(q)
  PROVE  TypeOK'
<1>h. request[q] \in Handler
  BY Stepping DEF Merge
<1>s. request[q].race \in Races /\ request[q].choice \in Variants
  BY <1>h DEF Handler, HandlersSound, HandlerSound, Adopting, Merge
<1>r. request' \in [Requests -> Handler \cup {Idle}]
  BY GotoTyped DEF Merge, Stages, Making
<1> QED
  BY <1>r, <1>s DEF Merge, TypeOK, disk, git, past

LEMMA ConflictTypes ==
  ASSUME TypeOK, HandlersSound, NEW q \in Requests, Conflict(q)
  PROVE  TypeOK'
<1>h. request[q] \in Handler
  BY Stepping DEF Conflict
<1>s. request[q].race \in Races /\ request[q].choice \in Variants
  BY <1>h DEF Handler, HandlersSound, HandlerSound, Adopting, Conflict
<1>r. request' \in [Requests -> Handler \cup {Idle}]
  BY MoveTyped DEF Conflict, End
<1> QED
  BY <1>r, <1>s DEF Conflict, TypeOK, disk, git, past

LEMMA MergeFailsTypes ==
  ASSUME TypeOK, NEW q \in Requests, MergeFails(q)
  PROVE  TypeOK'
<1>r. request' \in [Requests -> Handler \cup {Idle}]
  BY MoveTyped DEF MergeFails, End
<1> QED
  BY <1>r DEF MergeFails, TypeOK, disk, git, past

LEMMA CloseNextTypes ==
  ASSUME TypeOK, NEW q \in Requests, NEW v \in Variants, CloseNext(q, v)
  PROVE  TypeOK'
<1>h. request[q] \in Handler
  BY Stepping DEF CloseNext
<1>s. request[q].race \in Races
  BY <1>h DEF Handler
<1>r. request' \in [Requests -> Handler \cup {Idle}]
  <2>1. [request[q] EXCEPT !.at = "remove", !.now = v] \in Handler
    BY <1>h DEF Handler, Stages
  <2>2. request' = [request EXCEPT ![q] = [request[q] EXCEPT !.at = "remove", !.now = v]]
    BY DEF CloseNext
  <2> QED
    BY <2>1, <2>2, MoveTyped
<1> QED
  BY <1>r, <1>s, ClosedTyped DEF CloseNext, TypeOK, disk, git, past

LEMMA RemoveNextTypes ==
  ASSUME TypeOK, HandlersSound, NEW q \in Requests, RemoveNext(q)
  PROVE  TypeOK'
<1>h. request[q] \in Handler
  BY Stepping DEF RemoveNext
<1>s. request[q].race \in Races /\ request[q].now \in Variants
  BY <1>h DEF Handler, HandlersSound, HandlerSound, Adopting, RemoveNext
<1>r. request' \in [Requests -> Handler \cup {Idle}]
  BY StepTyped DEF RemoveNext, Stages
<1> QED
  BY <1>r, <1>s, RemoveTyped DEF RemoveNext, TypeOK, disk, git, past

LEMMA SaveAdoptedTypes ==
  ASSUME TypeOK, NEW q \in Requests, SaveAdopted(q)
  PROVE  TypeOK'
<1>h. request[q] \in Handler
  BY Stepping DEF SaveAdopted
<1>s. request[q].race \in Races
  BY <1>h DEF Handler
<1>r. request' \in [Requests -> Handler \cup {Idle}]
  BY GotoTyped DEF SaveAdopted, Stages, Making
<1> QED
  BY <1>r, <1>s, <1>h DEF SaveAdopted, TypeOK, disk, git, past, Handler

LEMMA SaveAdoptedFailsTypes ==
  ASSUME TypeOK, NEW q \in Requests, SaveAdoptedFails(q)
  PROVE  TypeOK'
<1>r. request' \in [Requests -> Handler \cup {Idle}]
  BY MoveTyped DEF SaveAdoptedFails, End
<1> QED
  BY <1>r DEF SaveAdoptedFails, TypeOK, disk, git, past

(* the scoreboard,                                                          *)
LEMMA ReadScoresTypes ==
  ASSUME TypeOK, NEW q \in Requests, ReadScores(q)
  PROVE  TypeOK'
<1>h. request[q] \in Handler
  BY Stepping DEF ReadScores
<1>r. request' \in [Requests -> Handler \cup {Idle}]
  <2>1. PICK seen \in {scoreboard, {}} :
          request' = [request EXCEPT ![q].at = "write", ![q].seen = seen]
    BY DEF ReadScores
  <2>2. [request[q] EXCEPT !.at = "write", !.seen = seen] \in Handler
    BY <1>h DEF TypeOK, Handler, Stages
  <2> QED
    BY <2>1, <2>2, MoveTyped
<1> QED
  BY <1>r DEF ReadScores, TypeOK, disk, git, past

LEMMA WriteScoresTypes ==
  ASSUME TypeOK, NEW q \in Requests, WriteScores(q)
  PROVE  TypeOK'
<1>h. request[q] \in Handler
  BY Stepping DEF WriteScores
<1>s. request[q].seen \cup {[race |-> request[q].race, winner |-> request[q].choice]}
        \subseteq Outcome
  BY <1>h DEF Handler, Outcome
<1>r. request' \in [Requests -> Handler \cup {Idle}]
  BY GotoTyped, MoveTyped DEF WriteScores, Stages, Making, End
<1> QED
  BY <1>r, <1>s DEF WriteScores, TypeOK, disk, git, past

(* and discard.                                                             *)
LEMMA DiscardTypes ==
  ASSUME TypeOK, NEW q \in Requests, NEW r \in Races, Discard(q, r)
  PROVE  TypeOK'
<1>r. request' \in [Requests -> Handler \cup {Idle}]
  BY MoveTyped, NobodyIsNoVariant DEF Discard, Start, Handler, Stages, Making
<1> QED
  BY <1>r DEF Discard, TypeOK, disk, git, past

LEMMA DiscardUnreadTypes ==
  ASSUME TypeOK, NEW q \in Requests, NEW r \in Races, DiscardUnread(q, r)
  PROVE  TypeOK'
<1>r. request' \in [Requests -> Handler \cup {Idle}]
  BY DEF DiscardUnread, TypeOK
<1> QED
  BY <1>r, ClearTyped DEF DiscardUnread, DropDirectory, TypeOK, disk, git, past

LEMMA SilenceTypes ==
  ASSUME TypeOK, NEW q \in Requests, Silence(q)
  PROVE  TypeOK'
<1>h. request[q] \in Handler
  BY Stepping DEF Silence
<1>s. request[q].race \in Races
  BY <1>h DEF Handler
<1>r. request' \in [Requests -> Handler \cup {Idle}]
  BY GotoTyped DEF Silence, Stages, Making
<1> QED
  BY <1>r, <1>s, ClosedTyped DEF Silence, TypeOK, disk, git, past

LEMMA SweepTypes ==
  ASSUME TypeOK, NEW q \in Requests, NEW v \in Variants, Sweep(q, v)
  PROVE  TypeOK'
<1>h. request[q] \in Handler
  BY Stepping DEF Sweep
<1>s. request[q].race \in Races
  BY <1>h DEF Handler
<1>r. request' \in [Requests -> Handler \cup {Idle}]
  BY StepTyped DEF Sweep, Stages
<1> QED
  BY <1>r, <1>s, RemoveTyped DEF Sweep, TypeOK, disk, git, past

LEMMA DropTypes ==
  ASSUME TypeOK, NEW q \in Requests, Drop(q)
  PROVE  TypeOK'
<1>h. request[q] \in Handler
  BY Stepping DEF Drop
<1>s. request[q].race \in Races
  BY <1>h DEF Handler
<1>r. request' \in [Requests -> Handler \cup {Idle}]
  BY MoveTyped DEF Drop, End
<1> QED
  BY <1>r, <1>s, ClearTyped DEF Drop, DropDirectory, TypeOK, disk, git, past

(***************************************************************************)
(* Winners.                                                                 *)
(***************************************************************************)

(* RaceInv, without the types.                                             *)
Winners == WinnerIsMerged /\ HandlersSound
Grows   == \A r \in Races : merged[r] \subseteq merged'[r]

(* Merging more keeps a handler sound.                                      *)
LEMMA SoundStays ==
  ASSUME NEW h \in Handler \cup {Idle}, NEW m, NEW n, HandlerSound(h, m),
         \A r \in Races : m[r] \subseteq n[r]
  PROVE  HandlerSound(h, n)
<1>1. CASE h = Idle
  BY <1>1 DEF Idle, HandlerSound, Adopting, Torn, Reporting
<1>2. CASE h \in Handler
  <2>1. h.race \in Races /\ h.seen \subseteq Outcome
    BY <1>2 DEF Handler
  <2>2. Honest(h.seen, m) => Honest(h.seen, n)
    BY <2>1 DEF Honest, Outcome
  <2> QED
    BY <2>1, <2>2 DEF HandlerSound
<1> QED
  BY <1>1, <1>2

(* There is nothing to ask of an idle one.                                  *)
LEMMA IdleIsSound == \A m : HandlerSound(Idle, m)
  BY DEF Idle, HandlerSound, Adopting, Torn, Reporting

(* One handler moves to a sound place: all are sound.                       *)
LEMMA OneMoves ==
  ASSUME RaceInv, Grows, NEW q \in Requests, NEW h, request' = [request EXCEPT ![q] = h],
         HandlerSound(h, merged')
  PROVE  HandlersSound'
<1>1. SUFFICES ASSUME NEW p \in Requests PROVE HandlerSound(request'[p], merged')
  BY DEF HandlersSound
<1>2. request \in [Requests -> Handler \cup {Idle}] /\ HandlerSound(request[p], merged)
  BY DEF RaceInv, TypeOK, HandlersSound
<1>3. CASE p = q
  BY <1>2, <1>3
<1>4. CASE p # q
  <2>1. request'[p] = request[p]
    BY <1>2, <1>4
  <2> QED
    BY <1>2, <2>1, SoundStays DEF Grows
<1> QED
  BY <1>3, <1>4

(* Winners stay merged while nothing is written.                            *)
LEMMA WinnersStand ==
  ASSUME RaceInv, Grows, UNCHANGED disk
  PROVE  WinnerIsMerged'
  BY DEF RaceInv, TypeOK, WinnerIsMerged, Grows, disk, Outcome

(* Merges are never undone.                                                 *)
LEMMA NothingNewGrows == UNCHANGED merged => Grows
  BY DEF Grows

(* A step that writes and merges nothing, by where it takes its handler.    *)
LEMMA HandlerMovesOn ==
  ASSUME RaceInv, UNCHANGED <<disk, merged>>, NEW q \in Requests, NEW h,
         request' = [request EXCEPT ![q] = h], HandlerSound(h, merged)
  PROVE  Winners'
  BY OneMoves, WinnersStand, NothingNewGrows DEF Winners

(* One that ends it.                                                        *)
LEMMA HandlerEnds ==
  ASSUME RaceInv, UNCHANGED <<disk, merged>>, NEW q \in Requests, End(q)
  PROVE  Winners'
  BY HandlerMovesOn, IdleIsSound DEF End

(* A step of no handler.                                                    *)
LEMMA OthersMove ==
  ASSUME RaceInv, UNCHANGED <<disk, request>>, Grows
  PROVE  Winners'
<1>1. WinnerIsMerged'
  BY WinnersStand
<1>2. HandlersSound'
  <2>1. ASSUME NEW p \in Requests PROVE HandlerSound(request[p], merged')
    BY SoundStays DEF RaceInv, TypeOK, HandlersSound, Grows
  <2> QED
    BY <2>1 DEF HandlersSound
<1> QED
  BY <1>1, <1>2 DEF Winners

(* Each action keeps the winners merged.                                    *)
LEMMA AddVariantWinners ==
  ASSUME RaceInv, NEW q \in Requests, NEW v \in Variants, AddVariant(q, v)
  PROVE  Winners'
<1>h. request[q] \in Handler /\ HandlerSound(request[q], merged)
  BY Stepping DEF RaceInv, HandlersSound, AddVariant
<1>1. HandlerSound([request[q] EXCEPT !.todo = request[q].todo \ {v}], merged)
  BY <1>h DEF AddVariant, HandlerSound, Handler, Adopting, Torn, Reporting
<1> QED
  BY <1>1, HandlerMovesOn DEF AddVariant, Goto, Step, RollBack, disk, git

LEMMA SessionRefusedWinners ==
  ASSUME RaceInv, NEW q \in Requests, NEW v \in Variants, SessionRefused(q, v)
  PROVE  Winners'
<1>h. request[q] \in Handler /\ HandlerSound(request[q], merged)
  BY Stepping DEF RaceInv, HandlersSound, SessionRefused
<1>1. HandlerSound([request[q] EXCEPT !.at = "rollback",
                         !.todo = (Variants \ request[q].todo) \cup {v}], merged)
  BY <1>h DEF SessionRefused, HandlerSound, Handler, Adopting, Torn, Reporting
<1> QED
  BY <1>1, HandlerMovesOn DEF SessionRefused, Goto, Step, RollBack, disk, git

LEMMA UndoVariantWinners ==
  ASSUME RaceInv, NEW q \in Requests, NEW v \in Variants, UndoVariant(q, v)
  PROVE  Winners'
<1>h. request[q] \in Handler /\ HandlerSound(request[q], merged)
  BY Stepping DEF RaceInv, HandlersSound, UndoVariant
<1>1. HandlerSound([request[q] EXCEPT !.todo = request[q].todo \ {v}], merged)
  BY <1>h DEF UndoVariant, HandlerSound, Handler, Adopting, Torn, Reporting
<1> QED
  BY <1>1, HandlerMovesOn DEF UndoVariant, Goto, Step, RollBack, disk, git

LEMMA CloseNextWinners ==
  ASSUME RaceInv, NEW q \in Requests, NEW v \in Variants, CloseNext(q, v)
  PROVE  Winners'
<1>h. request[q] \in Handler /\ HandlerSound(request[q], merged)
  BY Stepping DEF RaceInv, HandlersSound, CloseNext
<1>1. HandlerSound([request[q] EXCEPT !.at = "remove", !.now = v], merged)
  BY <1>h, NobodyIsNoVariant
  DEF CloseNext, HandlerSound, Handler, Adopting, Torn, Reporting
<1> QED
  BY <1>1, HandlerMovesOn DEF CloseNext, Goto, Step, RollBack, disk, git

LEMMA SilenceWinners ==
  ASSUME RaceInv, NEW q \in Requests, Silence(q)
  PROVE  Winners'
<1>h. request[q] \in Handler /\ HandlerSound(request[q], merged)
  BY Stepping DEF RaceInv, HandlersSound, Silence
<1>1. HandlerSound([request[q] EXCEPT !.at = "sweep"], merged)
  BY <1>h DEF Silence, HandlerSound, Handler, Adopting, Torn, Reporting
<1> QED
  BY <1>1, HandlerMovesOn DEF Silence, Goto, Step, RollBack, disk, git

LEMMA AddFailsWinners ==
  ASSUME RaceInv, NEW q \in Requests, NEW v \in Variants, AddFails(q, v)
  PROVE  Winners'
<1>h. request[q] \in Handler /\ HandlerSound(request[q], merged)
  BY Stepping DEF RaceInv, HandlersSound, AddFails
<1> DEFINE h == [request[q] EXCEPT !.at = "rollback", !.todo = Variants \ request[q].todo]
<1>1. HandlerSound(h, merged)
  BY <1>h DEF HandlerSound, Handler, Adopting, Torn, Reporting
<1>2. request' = [request EXCEPT ![q] = h]
  BY DEF AddFails, RollBack
<1>3. UNCHANGED <<disk, merged>>
  BY DEF AddFails
<1> QED
  BY <1>1, <1>2, <1>3, HandlerMovesOn

(* The steps of adopt that only move it on.                                 *)
LEMMA GotoWinners ==
  ASSUME RaceInv, NEW q \in Requests, NEW stage, UNCHANGED <<disk, merged>>,
         request[q] \in Handler,
         stage \in {"check", "merge"} => request[q].at \in Adopting,
         stage \in {"check", "merge", "drop", "silence"},
         stage \in {"drop", "silence"} => request[q].choice = Nobody,
         Goto(q, stage)
  PROVE  Winners'
<1>1. HandlerSound(request[q], merged)
  BY DEF RaceInv, HandlersSound
<1>2. HandlerSound([request[q] EXCEPT !.at = stage], merged)
  BY <1>1 DEF HandlerSound, Handler, Adopting, Torn, Reporting
<1> QED
  BY <1>2, HandlerMovesOn DEF Goto

LEMMA CommitWinners ==
  ASSUME RaceInv, NEW q \in Requests, Commit(q) \/ CheckBranch(q)
  PROVE  Winners'
<1>1. request[q] \in Handler /\ request[q].at \in Adopting
  BY Stepping DEF RaceInv, Commit, CheckBranch, Adopting
<1>2. UNCHANGED <<disk, merged>>
  BY DEF Commit, CheckBranch, git
<1>3. End(q) \/ \E stage \in {"check", "merge"} : Goto(q, stage)
  BY DEF Commit, CheckBranch
<1> QED
  BY <1>1, <1>2, <1>3, HandlerEnds, GotoWinners

(* The merge makes its handler sound from here on.                          *)
LEMMA MergeWinners ==
  ASSUME RaceInv, NEW q \in Requests, Merge(q)
  PROVE  Winners'
<1>h. request[q] \in Handler /\ HandlerSound(request[q], merged)
  BY Stepping DEF RaceInv, HandlersSound, Merge
<1>r. request[q].race \in Races
  BY <1>h DEF Handler
<1>1. merged' = [merged EXCEPT ![request[q].race] = @ \cup {request[q].choice}]
  BY DEF Merge
<1>2. Grows /\ request[q].choice \in merged'[request[q].race]
  BY <1>1, <1>r DEF Grows, RaceInv, TypeOK
<1>3. HandlerSound([request[q] EXCEPT !.at = "close"], merged')
  BY <1>h, <1>2 DEF HandlerSound, Handler, Adopting, Torn, Reporting, Merge
<1>4. request' = [request EXCEPT ![q] = [request[q] EXCEPT !.at = "close"]]
  BY DEF Merge, Goto
<1>5. UNCHANGED disk
  BY DEF Merge
<1> QED
  BY <1>2, <1>3, <1>4, <1>5, OneMoves, WinnersStand DEF Winners

LEMMA RemoveNextWinners ==
  ASSUME RaceInv, NEW q \in Requests, RemoveNext(q)
  PROVE  Winners'
<1>h. request[q] \in Handler /\ HandlerSound(request[q], merged)
  BY Stepping DEF RaceInv, HandlersSound, RemoveNext
<1>1. PICK stage \in {"save", "close"} : Step(q, request[q].now, stage)
  BY DEF RemoveNext
<1> DEFINE h == [request[q] EXCEPT !.todo = @ \ {request[q].now},
                                   !.now = Nobody, !.at = stage]
<1>2. HandlerSound(h, merged)
  BY <1>h DEF HandlerSound, Handler, Adopting, Torn, Reporting, RemoveNext
<1>3. request' = [request EXCEPT ![q] = h]
  BY <1>1 DEF Step
<1> QED
  BY <1>2, <1>3, HandlerMovesOn DEF RemoveNext

LEMMA SweepWinners ==
  ASSUME RaceInv, NEW q \in Requests, NEW v \in Variants, Sweep(q, v)
  PROVE  Winners'
<1>h. request[q] \in Handler /\ HandlerSound(request[q], merged)
  BY Stepping DEF RaceInv, HandlersSound, Sweep
<1>1. PICK stage \in {"sweep", "read", "drop"} : Step(q, v, stage)
  BY DEF Sweep
<1> DEFINE h == [request[q] EXCEPT !.todo = @ \ {v}, !.now = Nobody, !.at = stage]
<1>2. HandlerSound(h, merged)
  BY <1>h DEF HandlerSound, Handler, Adopting, Torn, Reporting, Sweep
<1>3. request' = [request EXCEPT ![q] = h]
  BY <1>1 DEF Step
<1> QED
  BY <1>2, <1>3, HandlerMovesOn DEF Sweep

(* The descriptor names a variant merged some awaits ago.                   *)
LEMMA SaveAdoptedWinners ==
  ASSUME RaceInv, NEW q \in Requests, SaveAdopted(q)
  PROVE  Winners'
<1>h. request[q] \in Handler /\ HandlerSound(request[q], merged)
  BY Stepping DEF RaceInv, HandlersSound, SaveAdopted
<1>1. request[q].race \in Races /\ request[q].choice \in merged[request[q].race]
  BY <1>h DEF Handler, HandlerSound, SaveAdopted, Adopting, Torn
<1>2. UNCHANGED <<scoreboard, merged>>
  BY DEF SaveAdopted, git
<1>3. WinnerIsMerged'
  BY <1>1, <1>2 DEF SaveAdopted, WinnerIsMerged, RaceInv, TypeOK
<1>4. HandlerSound([request[q] EXCEPT !.at = "read"], merged')
  BY <1>h, <1>1, <1>2 DEF HandlerSound, Handler, Adopting, Torn, Reporting
<1>5. request' = [request EXCEPT ![q] = [request[q] EXCEPT !.at = "read"]]
  BY DEF SaveAdopted, Goto
<1> QED
  BY <1>2, <1>3, <1>4, <1>5, OneMoves, NothingNewGrows DEF Winners

LEMMA ReadScoresWinners ==
  ASSUME RaceInv, NEW q \in Requests, ReadScores(q)
  PROVE  Winners'
<1>h. request[q] \in Handler /\ HandlerSound(request[q], merged)
  BY Stepping DEF RaceInv, HandlersSound, ReadScores
<1>s. PICK seen \in {scoreboard, {}} :
        request' = [request EXCEPT ![q].at = "write", ![q].seen = seen]
  BY DEF ReadScores
<1> DEFINE h == [request[q] EXCEPT !.at = "write", !.seen = seen]
<1>1. Honest(seen, merged)
  BY DEF RaceInv, WinnerIsMerged, Honest
<1>2. HandlerSound(h, merged)
  BY <1>h, <1>1 DEF HandlerSound, Handler, Adopting, Torn, Reporting, ReadScores
<1>3. request' = [request EXCEPT ![q] = h] /\ UNCHANGED <<disk, merged>>
  BY <1>s DEF ReadScores, git
<1> QED
  BY <1>2, <1>3, HandlerMovesOn

(* What is written is what was read, which was honest, and one more outcome.*)
LEMMA WriteScoresWinners ==
  ASSUME RaceInv, NEW q \in Requests, WriteScores(q)
  PROVE  Winners'
<1>h. request[q] \in Handler /\ HandlerSound(request[q], merged)
  BY Stepping DEF RaceInv, HandlersSound, WriteScores
<1>1. UNCHANGED <<descriptor, winner, merged>>
  BY DEF WriteScores, git
<1>2. WinnerIsMerged'
  <2>1. CASE UNCHANGED scoreboard
    BY <2>1, <1>1 DEF WinnerIsMerged, RaceInv
  <2>2. CASE scoreboard' = request[q].seen \cup
               {[race |-> request[q].race, winner |-> request[q].choice]}
    BY <2>2, <1>1, <1>h DEF WinnerIsMerged, RaceInv, HandlerSound, Honest,
                            WriteScores, Reporting
  <2> QED
    BY <2>1, <2>2 DEF WriteScores
<1>3. HandlersSound'
  <2>1. CASE request[q].choice = Nobody /\ Goto(q, "drop")
    <3>1. HandlerSound([request[q] EXCEPT !.at = "drop"], merged')
      BY <2>1, <1>h, <1>1 DEF HandlerSound, Handler, Adopting, Torn, Reporting
    <3> QED
      BY <2>1, <3>1, <1>1, OneMoves, NothingNewGrows DEF Goto
  <2>2. CASE End(q)
    BY <2>2, <1>1, OneMoves, NothingNewGrows, IdleIsSound DEF End
  <2> QED
    BY <2>1, <2>2 DEF WriteScores
<1> QED
  BY <1>2, <1>3 DEF Winners

LEMMA DropWinners ==
  ASSUME RaceInv, NEW q \in Requests, Drop(q)
  PROVE  Winners'
<1>1. UNCHANGED <<scoreboard, merged>> /\ End(q)
  BY DEF Drop
<1>2. HandlersSound'
  BY <1>1, OneMoves, NothingNewGrows, IdleIsSound DEF End
<1>3. WinnerIsMerged'
  BY <1>1 DEF Drop, DropDirectory, WinnerIsMerged, RaceInv, TypeOK
<1> QED
  BY <1>2, <1>3 DEF Winners

(* The steps that start a request.                                          *)
LEMMA StartWinners ==
  ASSUME RaceInv, NEW q \in Requests, NEW r \in Races, NEW v \in Variants,
         Create(q, r) \/ Adopt(q, r, v) \/ Discard(q, r)
  PROVE  Winners'
<1>1. UNCHANGED <<winner, scoreboard, merged>>
  BY DEF Create, Adopt, Discard, disk, git
<1>2. WinnerIsMerged'
  BY <1>1 DEF Create, Adopt, Discard, disk, WinnerIsMerged, RaceInv, TypeOK
<1>3. PICK stage \in {"build", "commit", "silence"}, choice \in {v, Nobody}, counts \in BOOLEAN :
        /\ Start(q, stage, r, choice, counts)
        /\ stage = "commit" => choice = v
        /\ stage = "silence" => choice = Nobody
  BY DEF Create, Adopt, Discard
<1> DEFINE h == [at |-> stage, race |-> r, choice |-> choice, todo |-> Variants,
                 now |-> Nobody, counts |-> counts, seen |-> {}]
<1>4. HandlerSound(h, merged')
  BY <1>3, NobodyIsNoVariant DEF HandlerSound, Adopting, Torn, Reporting
<1>5. request' = [request EXCEPT ![q] = h]
  BY <1>3 DEF Start
<1> QED
  BY <1>1, <1>2, <1>4, <1>5, OneMoves, NothingNewGrows DEF Winners

LEMMA SaveNewWinners ==
  ASSUME RaceInv, NEW q \in Requests, SaveNew(q)
  PROVE  Winners'
<1>1. UNCHANGED <<winner, scoreboard, merged>> /\ End(q)
  BY DEF SaveNew, git
<1>2. HandlersSound'
  BY <1>1, OneMoves, NothingNewGrows, IdleIsSound DEF End
<1>3. WinnerIsMerged'
  BY <1>1 DEF SaveNew, WinnerIsMerged, RaceInv, TypeOK
<1> QED
  BY <1>2, <1>3 DEF Winners

(* The steps that end a handler and write nothing.                          *)
LEMMA QuietEnds ==
  ASSUME RaceInv, NEW q \in Requests,
         \/ FinishRollback(q) \/ SaveNewFails(q) \/ Conflict(q) \/ MergeFails(q)
         \/ SaveAdoptedFails(q)
  PROVE  Winners'
  BY HandlerEnds
  DEF FinishRollback, SaveNewFails, Conflict, MergeFails, SaveAdoptedFails, git

(* A crash forgets the handlers.                                            *)
LEMMA CrashWinners ==
  ASSUME RaceInv, Crash PROVE Winners'
<1>1. Grows /\ UNCHANGED disk
  BY NothingNewGrows DEF Crash, git
<1>2. HandlersSound'
  BY IdleIsSound DEF Crash, HandlersSound
<1> QED
  BY <1>1, <1>2, WinnersStand DEF Winners

(* Sessions are not looked at.                                              *)
LEMMA PeopleWinners ==
  ASSUME RaceInv, NEW r \in Races, NEW v \in Variants,
         Restart(r, v) \/ ResumeOrphan(r, v) \/ CloseSession(r, v)
  PROVE  Winners'
  BY OthersMove, NothingNewGrows DEF Restart, ResumeOrphan, CloseSession, git

(* The user's git only merges more.                                         *)
LEMMA OutsideWinners ==
  ASSUME RaceInv, SwitchBranch \/ SettleConflict
  PROVE  Winners'
<1>1. UNCHANGED <<disk, request>>
  BY DEF SwitchBranch, SettleConflict
<1>2. Grows
  BY DEF SwitchBranch, SettleConflict, Grows, RaceInv, TypeOK
<1> QED
  BY <1>1, <1>2, OthersMove

(* A directory that goes takes a winner with it and names no other.         *)
LEMMA DiscardUnreadWinners ==
  ASSUME RaceInv, NEW q \in Requests, NEW r \in Races, DiscardUnread(q, r)
  PROVE  Winners'
<1>1. UNCHANGED <<scoreboard, merged, request>>
  BY DEF DiscardUnread
<1>2. HandlersSound'
  BY <1>1 DEF RaceInv, HandlersSound
<1>3. WinnerIsMerged'
  BY <1>1 DEF DiscardUnread, DropDirectory, WinnerIsMerged, RaceInv, TypeOK
<1> QED
  BY <1>2, <1>3 DEF Winners

(* What the session manager and the user do keeps the types.                *)
LEMMA SessionTypes ==
  ASSUME TypeOK, NEW r \in Races, NEW v \in Variants,
         Restart(r, v) \/ ResumeOrphan(r, v) \/ CloseSession(r, v)
  PROVE  TypeOK'
<1>1. PICK state \in {"none", "stray"} : agent' = [agent EXCEPT ![r][v] = state]
  BY DEF Restart, ResumeOrphan, CloseSession
<1>2. agent' \in [Races -> [Variants -> {"none", "listed", "stray", "orphan"}]]
  BY <1>1 DEF TypeOK
<1>3. UNCHANGED <<disk, git, request, past>>
  BY DEF Restart, ResumeOrphan, CloseSession
<1> QED
  BY <1>2, <1>3 DEF TypeOK, disk, git, past

LEMMA OutsideTypes ==
  ASSUME TypeOK, Crash \/ SwitchBranch \/ SettleConflict
  PROVE  TypeOK'
<1>1. CASE SwitchBranch
  BY <1>1 DEF SwitchBranch, TypeOK, disk, past
<1>2. CASE SettleConflict
  <2>1. conflict.race \in Races /\ conflict.variant \in Variants
    BY <1>2 DEF SettleConflict, TypeOK
  <2>2. merged' \in [Races -> SUBSET Variants]
    <3>1. CASE merged' = merged
      BY <3>1 DEF TypeOK
    <3>2. CASE merged' = [merged EXCEPT ![conflict.race] = @ \cup {conflict.variant}]
      BY <3>2, <2>1 DEF TypeOK
    <3> QED
      BY <1>2, <3>1, <3>2 DEF SettleConflict
  <2> QED
    BY <1>2, <2>2 DEF SettleConflict, TypeOK, disk, past
<1>3. CASE Crash
  BY <1>3 DEF Crash, TypeOK, disk, git
<1> QED
  BY <1>1, <1>2, <1>3

(* The invariant is inductive.                                              *)
LEMMA RaceInvNext == RaceInv /\ [Next]_vars => RaceInv'
<1> SUFFICES ASSUME RaceInv, [Next]_vars PROVE TypeOK' /\ Winners'
  BY DEF RaceInv, Winners
<1>t. TypeOK /\ HandlersSound
  BY DEF RaceInv
<1>1. ASSUME NEW q \in Requests, NEW r \in Races,
             Create(q, r) \/ Discard(q, r) \/ DiscardUnread(q, r)
      PROVE  TypeOK' /\ Winners'
  <2>1. PICK v : v \in Variants
    BY SomeVariant
  <2> QED
    BY <1>1, <1>t, <2>1, CreateTypes, DiscardTypes, DiscardUnreadTypes, StartWinners,
       DiscardUnreadWinners
<1>2. ASSUME NEW q \in Requests, NEW r \in Races, NEW v \in Variants, Adopt(q, r, v)
      PROVE  TypeOK' /\ Winners'
  BY <1>2, <1>t, AdoptTypes, StartWinners
<1>3. ASSUME NEW q \in Requests, NEW v \in Variants,
             \/ AddVariant(q, v) \/ AddFails(q, v) \/ SessionRefused(q, v)
             \/ UndoVariant(q, v) \/ CloseNext(q, v) \/ Sweep(q, v)
      PROVE  TypeOK' /\ Winners'
  BY <1>3, <1>t, AddVariantTypes, AddFailsTypes, SessionRefusedTypes, UndoVariantTypes,
     CloseNextTypes, SweepTypes, AddVariantWinners, AddFailsWinners,
     SessionRefusedWinners, UndoVariantWinners, CloseNextWinners, SweepWinners
<1>4. ASSUME NEW q \in Requests,
             \/ FinishRollback(q) \/ SaveNew(q) \/ SaveNewFails(q)
             \/ Commit(q) \/ CheckBranch(q) \/ Merge(q) \/ Conflict(q) \/ MergeFails(q)
      PROVE  TypeOK' /\ Winners'
  BY <1>4, <1>t, FinishRollbackTypes, SaveNewTypes, SaveNewFailsTypes, CommitTypes,
     CheckBranchTypes, MergeTypes, ConflictTypes, MergeFailsTypes, QuietEnds,
     SaveNewWinners, CommitWinners, MergeWinners
<1>5. ASSUME NEW q \in Requests,
             \/ RemoveNext(q) \/ SaveAdopted(q) \/ SaveAdoptedFails(q)
             \/ ReadScores(q) \/ WriteScores(q) \/ Silence(q) \/ Drop(q)
      PROVE  TypeOK' /\ Winners'
  BY <1>5, <1>t, RemoveNextTypes, SaveAdoptedTypes, SaveAdoptedFailsTypes,
     ReadScoresTypes, WriteScoresTypes, SilenceTypes, DropTypes, RemoveNextWinners,
     SaveAdoptedWinners, QuietEnds, ReadScoresWinners, WriteScoresWinners,
     SilenceWinners, DropWinners
<1>6. ASSUME NEW r \in Races, NEW v \in Variants,
             Restart(r, v) \/ ResumeOrphan(r, v) \/ CloseSession(r, v)
      PROVE  TypeOK' /\ Winners'
  BY <1>6, <1>t, SessionTypes, PeopleWinners
<1>7. CASE Crash \/ SwitchBranch \/ SettleConflict
  BY <1>7, <1>t, OutsideTypes, OutsideWinners, CrashWinners
<1>8. CASE UNCHANGED vars
  BY <1>8, <1>t, OthersMove, NothingNewGrows DEF vars, disk, git, past, TypeOK
<1> QED
  BY <1>1, <1>2, <1>3, <1>4, <1>5, <1>6, <1>7, <1>8 DEF Next

(* Every variable has its type, for any races, variants and requests.       *)
THEOREM RaceTypes == Spec => []TypeOK
<1>1. RaceInv => TypeOK
  BY DEF RaceInv
<1> QED
  BY <1>1, RaceInvInit, RaceInvNext, PTL DEF Spec

(* Whoever is called a winner has been merged: whatever adoptions, discards *)
(* and crashes overlap, on any number of races.                             *)
THEOREM WinnersAreMerged == Spec => []WinnerIsMerged
<1>1. RaceInv => WinnerIsMerged
  BY DEF RaceInv
<1> QED
  BY <1>1, RaceInvInit, RaceInvNext, PTL DEF Spec

(***************************************************************************)
(* Worktrees and sessions.                                                  *)
(*                                                                         *)
(* What a race keeps or loses is decided by loops of several awaits, with   *)
(* other handlers of the same race at theirs. Three facts carry the proof:  *)
(* only a handler that makes a race adds to it, and it is alone with it;    *)
(* every other step only takes away; and each loop can say what it has done *)
(* so far whatever the others took away meanwhile.                          *)
(***************************************************************************)

Gone(r, v) == checkout[r][v] # "there" /\ agent[r][v] # "listed"
Silent(r)  == \A v \in Variants : agent[r][v] # "listed"

Discarding(h) ==
  \/ h.at \in {"silence", "sweep", "drop"}
  \/ h.at \in Reporting /\ h.choice = Nobody

(* Whoever makes a race is alone with it: nobody else knows its id.         *)
MakerAlone ==
  \A q \in Requests :
    /\ request[q] # Idle => descriptor[request[q].race] # "unused"
    /\ request[q].at \in Making =>
         /\ descriptor[request[q].race] = "absent"
         /\ \A p \in Requests \ {q} :
              request[p] # Idle => request[p].race # request[q].race

(* What create has added, and that its rollback closes before it removes,   *)
MakerLoop(h) ==
  /\ h.at = "build" => \A v \in Variants :
       IF v \in h.todo THEN agent[h.race][v] # "listed"
       ELSE checkout[h.race][v] = "there" /\ v \in branch[h.race]
  /\ h.at = "rollback" => Silent(h.race)

(* what adopt has torn down, and that it closes before it removes,          *)
TearLoop(h) ==
  /\ h.at \in Adopting => \A v \in Variants \ h.todo : Gone(h.race, v)
  /\ h.at = "save" => h.todo = {}
  /\ h.at = "remove" => agent[h.race][h.now] # "listed"

(* and what discard has.                                                    *)
DiscardLoop(h) ==
  Discarding(h) => /\ h.race \in asked
                   /\ h.at # "silence" => Silent(h.race)

Fits(h) == MakerLoop(h) /\ TearLoop(h) /\ DiscardLoop(h)

(* What every race keeps, by its descriptor.                                *)
Work(r) ==
  descriptor[r] = "running" /\ r \notin asked /\ merged[r] = {} =>
    /\ \A v \in Variants : checkout[r][v] = "there"
    /\ branch[r] = Variants
Cleared(r) ==
  \/ descriptor[r] = "adopted"
  \/ descriptor[r] = "absent" /\ r \notin lost /\ ~MakingOf(r)
Clean(r)  == Cleared(r) => \A v \in Variants :
               /\ checkout[r][v] # "there"
               /\ agent[r][v] = "listed" => descriptor[r] = "absent" /\ r \in unread
Fresh(r)  == descriptor[r] = "unused" => Silent(r)
Housed(r) == r \notin lost \cup unread => \A v \in Variants :
               agent[r][v] = "listed" => checkout[r][v] # "none"

RaceFits(r) == Work(r) /\ Clean(r) /\ Fresh(r) /\ Housed(r)

(* TreeInv, with RaceInv, is inductive.                                     *)
TreeInv ==
  /\ MakerAlone
  /\ \A q \in Requests : Fits(request[q])
  /\ \A r \in Races : RaceFits(r)

(* A step only takes away from a race; does not touch it at all.            *)
Shrinks(r) == \A v \in Variants :
  /\ checkout'[r][v] = "there" => checkout[r][v] = "there"
  /\ agent'[r][v] = "listed" => agent[r][v] = "listed"
Stands(r) == checkout'[r] = checkout[r] /\ branch'[r] = branch[r]
Untouched(r) ==
  /\ Stands(r) /\ agent'[r] = agent[r]
  /\ descriptor'[r] = descriptor[r] /\ merged'[r] = merged[r]
  /\ (r \in asked') = (r \in asked) /\ (r \in lost') = (r \in lost)
  /\ (r \in unread') = (r \in unread)

(* Initially no race is made.                                               *)
LEMMA TreeInvInit == Init => TreeInv
<1> SUFFICES ASSUME Init PROVE TreeInv
  OBVIOUS
<1>1. \A q \in Requests : request[q] = Idle /\ request[q].at = "idle"
  BY DEF Init, Idle
<1>2. MakerAlone /\ \A q \in Requests : Fits(request[q])
  BY <1>1 DEF MakerAlone, Making, Fits, MakerLoop, TearLoop, DiscardLoop, Discarding, Adopting,
              Reporting
<1>3. \A r \in Races : RaceFits(r)
  BY DEF Init, RaceFits, Work, Clean, Cleared, Fresh, Housed, Silent
<1> QED
  BY <1>2, <1>3 DEF TreeInv

(* A loop can still say what it has done when others took away more.        *)
LEMMA FitsStays ==
  ASSUME NEW h, Fits(h), Shrinks(h.race), h.race \in asked => h.race \in asked',
         h.at \in Making => Stands(h.race),
         h.at = "remove" => h.now \in Variants
  PROVE  Fits(h)'
<1>1. MakerLoop(h)'
  BY DEF Fits, MakerLoop, Shrinks, Stands, Silent, Making
<1>2. TearLoop(h)'
  BY DEF Fits, TearLoop, Shrinks, Gone, Adopting
<1>3. DiscardLoop(h)'
  BY DEF Fits, DiscardLoop, Discarding, Shrinks, Silent
<1> QED
  BY <1>1, <1>2, <1>3 DEF Fits

(* An idle handler says nothing.                                            *)
LEMMA IdleFits == ASSUME NEW h, h = Idle PROVE Fits(h)
  BY DEF Idle, Fits, MakerLoop, TearLoop, DiscardLoop, Discarding, Adopting, Reporting

(* A race keeps what it has through a step that only takes away, keeps its  *)
(* work if it has to, and keeps a worktree under its sessions.              *)
LEMMA RaceStays ==
  ASSUME NEW r \in Races, RaceFits(r), Shrinks(r),
         descriptor'[r] = descriptor[r],
         r \in asked => r \in asked', r \in lost => r \in lost',
         r \in unread => r \in unread',
         merged[r] \subseteq merged'[r],
         r \notin lost' => (MakingOf(r) => MakingOf(r)'),
         Stands(r) \/ descriptor[r] # "running" \/ r \in asked' \/ merged'[r] # {},
         Housed(r)'
  PROVE  RaceFits(r)'
<1>1. Work(r)'
  BY DEF RaceFits, Work, Stands
<1>2. Clean(r)'
  <2>1. Cleared(r)' => Cleared(r)
    BY DEF Cleared
  <2> QED
    BY <2>1 DEF RaceFits, Clean, Shrinks, Gone
<1>3. Fresh(r)'
  BY DEF RaceFits, Fresh, Shrinks, Silent
<1> QED
  BY <1>1, <1>2, <1>3 DEF RaceFits

LEMMA UntouchedStays ==
  ASSUME NEW r \in Races, RaceFits(r), Untouched(r), MakingOf(r) => MakingOf(r)'
  PROVE  RaceFits(r)'
<1>1. Shrinks(r) /\ Stands(r)
  BY DEF Untouched, Shrinks, Stands
<1>2. Housed(r)'
  BY DEF Untouched, Stands, RaceFits, Housed
<1> QED
  BY <1>1, <1>2, RaceStays DEF Untouched

(* A step of one handler, on its own race.                                  *)
Own(q) ==
  /\ request[q] # Idle
  /\ \A p \in Requests \ {q} : request'[p] = request[p]
  /\ request'[q] # Idle => request'[q].race = request[q].race
  /\ request'[q].at \in Making => request[q].at \in Making
  /\ \A r \in Races \ {request[q].race} : Untouched(r)

(* What such a step has to keep, of its race and of its loop.               *)
LEMMA HandlerStep ==
  ASSUME RaceInv, TreeInv, NEW q \in Requests, NEW r \in Races, Own(q),
         request[q].race = r, request[q].at \in Making \/ Shrinks(r),
         r \in asked => r \in asked', descriptor'[r] # "unused",
         request'[q].at \in Making => descriptor'[r] = "absent",
         Fits(request[q])', RaceFits(r)'
  PROVE  TreeInv'
<1>p. ASSUME NEW p \in Requests, request[p] # Idle
      PROVE  request[p] \in Handler /\ request[p].race \in Races
  BY <1>p DEF RaceInv, TypeOK, Handler
<1>1. MakerAlone'
  <2>1. ASSUME NEW p \in Requests, request'[p] # Idle
        PROVE  descriptor'[request'[p].race] # "unused"
    <3>1. CASE request'[p].race = r
      BY <3>1
    <3>2. CASE request'[p].race # r
      <4>1. request'[p] = request[p] /\ request[p].race \in Races \ {r}
        BY <2>1, <3>2, <1>p DEF Own
      <4> QED
        BY <2>1, <4>1 DEF Own, Untouched, TreeInv, MakerAlone
    <3> QED
      BY <3>1, <3>2
  <2>2. ASSUME NEW p \in Requests, request'[p].at \in Making
        PROVE  /\ descriptor'[request'[p].race] = "absent"
               /\ \A o \in Requests \ {p} :
                    request'[o] # Idle => request'[o].race # request'[p].race
    <3>0. request'[p] # Idle /\ request[p].at \in Making /\ request[p] # Idle
      BY <2>2 DEF Own, Idle, Making
    <3>1. request'[p].race = request[p].race
      BY <3>0 DEF Own
    <3>2. \A o \in Requests \ {p} : request[o] # Idle => request[o].race # request[p].race
      BY <3>0 DEF TreeInv, MakerAlone
    <3>3. \A o \in Requests \ {p} :
            request'[o] # Idle => request'[o].race # request'[p].race
      BY <3>1, <3>2 DEF Own
    <3>4. descriptor'[request'[p].race] = "absent"
      <4>1. CASE p = q
        BY <4>1, <3>1, <2>2
      <4>2. CASE p # q
        <5>1. request[p].race \in Races \ {r}
          BY <4>2, <3>0, <3>2, <1>p DEF Own
        <5> QED
          BY <5>1, <3>1, <3>0 DEF Own, Untouched, TreeInv, MakerAlone
      <4> QED
        BY <4>1, <4>2
    <3> QED
      BY <3>3, <3>4
  <2> QED
    BY <2>1, <2>2 DEF MakerAlone
<1>2. ASSUME NEW p \in Requests PROVE Fits(request[p])'
  <2>1. CASE p = q
    BY <2>1
  <2>2. CASE p # q /\ request[p] = Idle
    BY <2>2, IdleFits DEF Own, Fits, MakerLoop, TearLoop, DiscardLoop, Discarding, Adopting,
       Reporting, Idle
  <2>3. CASE p # q /\ request[p] # Idle
    <3> DEFINE h == request[p]
    <3>1. h \in Handler /\ h.race \in Races /\ request'[p] = h
      BY <2>3, <1>p DEF Own
    <3>2. Fits(h) /\ (h.at = "remove" => h.now \in Variants)
      BY <3>1 DEF TreeInv, RaceInv, HandlersSound, HandlerSound, Handler
    <3>3. CASE h.race = r
      <4>1. h.at \notin Making /\ request[q].at \notin Making
        BY <2>3, <3>3 DEF TreeInv, MakerAlone, Own
      <4>2. Shrinks(h.race) /\ (h.race \in asked => h.race \in asked')
        BY <3>3, <4>1
      <4> HIDE DEF h
      <4> QED
        BY <3>1, <3>2, <4>1, <4>2, FitsStays
    <3>4. CASE h.race # r
      <4>1. Untouched(h.race)
        BY <3>1, <3>4 DEF Own
      <4>2. Shrinks(h.race) /\ Stands(h.race) /\ (h.race \in asked => h.race \in asked')
        BY <4>1 DEF Untouched, Shrinks, Stands
      <4> HIDE DEF h
      <4> QED
        BY <3>1, <3>2, <4>2, FitsStays
    <3> QED
      BY <3>3, <3>4
  <2> QED
    BY <2>1, <2>2, <2>3
<1>3. ASSUME NEW s \in Races PROVE RaceFits(s)'
  <2>1. CASE s = r
    BY <2>1
  <2>2. CASE s # r
    <3>1. Untouched(s) /\ RaceFits(s)
      BY <2>2 DEF Own, TreeInv
    <3>2. MakingOf(s) => MakingOf(s)'
      BY <2>2 DEF MakingOf, Own
    <3> QED
      BY <3>1, <3>2, UntouchedStays
  <2> QED
    BY <2>1, <2>2
<1> QED
  BY <1>1, <1>2, <1>3 DEF TreeInv

(* A step of no handler keeps, of each race, what its loops and its         *)
(* descriptor say.                                                          *)
LEMMA OutsideStep ==
  ASSUME RaceInv, TreeInv, UNCHANGED request, asked \subseteq asked',
         \A r \in Races : /\ Shrinks(r) /\ RaceFits(r)'
                          /\ descriptor[r] # "unused" => descriptor'[r] # "unused"
                          /\ MakingOf(r) => Stands(r) /\ descriptor'[r] = descriptor[r]
  PROVE  TreeInv'
<1>1. MakerAlone'
  <2>1. ASSUME NEW p \in Requests, request[p] # Idle
        PROVE  descriptor'[request[p].race] # "unused"
    BY <2>1 DEF RaceInv, TypeOK, Handler, TreeInv, MakerAlone
  <2>2. ASSUME NEW p \in Requests, request[p].at \in Making
        PROVE  descriptor'[request[p].race] = "absent"
    <3>1. request[p] # Idle
      BY <2>2 DEF Idle, Making
    <3>2. request[p].race \in Races /\ MakingOf(request[p].race)
      BY <3>1, <2>2 DEF RaceInv, TypeOK, Handler, MakingOf
    <3> QED
      BY <2>2, <3>2 DEF TreeInv, MakerAlone
  <2> QED
    BY <2>1, <2>2 DEF TreeInv, MakerAlone
<1>2. ASSUME NEW p \in Requests PROVE Fits(request[p])'
  <2>1. CASE request[p] = Idle
    BY <2>1 DEF Fits, MakerLoop, TearLoop, DiscardLoop, Discarding, Adopting, Reporting, Idle
  <2>2. CASE request[p] # Idle
    <3> DEFINE h == request[p]
    <3>1. h \in Handler /\ h.race \in Races /\ request'[p] = h
      BY <2>2 DEF RaceInv, TypeOK, Handler
    <3>2. Fits(h) /\ (h.at = "remove" => h.now \in Variants)
      BY <3>1 DEF TreeInv, RaceInv, HandlersSound, HandlerSound, Handler
    <3>3. Shrinks(h.race) /\ (h.race \in asked => h.race \in asked')
      BY <3>1
    <3>4. h.at \in Making => Stands(h.race)
      BY <3>1 DEF MakingOf
    <3> HIDE DEF h
    <3> QED
      BY <3>1, <3>2, <3>3, <3>4, FitsStays
  <2> QED
    BY <2>1, <2>2
<1> QED
  BY <1>1, <1>2 DEF TreeInv

(* What a handler in progress is known to satisfy.                          *)
LEMMA Standing ==
  ASSUME RaceInv, TreeInv, NEW q \in Requests, request[q].at # "idle"
  PROVE  /\ request[q] \in Handler /\ request[q] # Idle /\ request[q].race \in Races
         /\ HandlerSound(request[q], merged) /\ Fits(request[q])
         /\ RaceFits(request[q].race)
<1>1. request[q] \in Handler /\ request[q] # Idle
  BY Stepping DEF RaceInv, Idle
<1> QED
  BY <1>1 DEF RaceInv, HandlersSound, TreeInv, Handler

(* A step that moves or ends its handler, on disk or in git perhaps, and    *)
(* touches no worktree, branch, session or descriptor.                      *)
LEMMA QuietStep ==
  ASSUME RaceInv, TreeInv, NEW q \in Requests, NEW r \in Races,
         request[q] # Idle, request[q].race = r, request[q].at \notin Making,
         UNCHANGED <<checkout, branch, agent, descriptor, past>>,
         merged[r] \subseteq merged'[r],
         \A s \in Races \ {r} : merged'[s] = merged[s],
         NEW h, request' = [request EXCEPT ![q] = h],
         h # Idle => h.race = r, h.at \notin Making,
         Fits(request[q])'
  PROVE  TreeInv'
<1>0. request \in [Requests -> Handler \cup {Idle}]
  BY DEF RaceInv, TypeOK
<1>1. request'[q] = h /\ \A p \in Requests \ {q} : request'[p] = request[p]
  BY <1>0
<1>2. Own(q)
  BY <1>1 DEF Own, Untouched, Stands, past
<1>3. Shrinks(r) /\ Stands(r)
  BY DEF Shrinks, Stands
<1>5. RaceFits(r)'
  <2>1. MakingOf(r) => MakingOf(r)'
    BY <1>1 DEF MakingOf
  <2>2. RaceFits(r) /\ Housed(r)'
    BY DEF TreeInv, RaceFits, Housed, past
  <2> QED
    BY <1>3, <2>1, <2>2, RaceStays DEF past
<1>6. descriptor'[r] # "unused"
  BY DEF TreeInv, MakerAlone
<1> QED
  BY <1>1, <1>2, <1>3, <1>5, <1>6, HandlerStep DEF past

(* Ending a handler: there is nothing left to say of it.                    *)
LEMMA QuietEnd ==
  ASSUME RaceInv, TreeInv, NEW q \in Requests, request[q].at # "idle",
         request[q].at \notin Making, End(q),
         UNCHANGED <<checkout, branch, agent, descriptor, merged, past>>
  PROVE  TreeInv'
<1>1. request[q] # Idle /\ request[q].race \in Races
  BY Standing
<1>3. request' = [request EXCEPT ![q] = Idle]
  BY DEF End
<1>2. Fits(request[q])' /\ Idle.at \notin Making
  BY <1>3 DEF Fits, MakerLoop, TearLoop, DiscardLoop, Discarding, Adopting, Reporting, Idle,
         Making, RaceInv, TypeOK
<1> DEFINE r == request[q].race
<1>4. r \in Races /\ request[q].race = r
  BY <1>1
<1> HIDE DEF r
<1> QED
  BY <1>1, <1>2, <1>3, <1>4, QuietStep

(* adopt up to its merge, and what may stop it later.                       *)
LEMMA EndsTrees ==
  ASSUME RaceInv, TreeInv, NEW q \in Requests,
         Conflict(q) \/ MergeFails(q) \/ SaveAdoptedFails(q)
  PROVE  TreeInv'
<1>1. /\ request[q].at \in {"merge", "save"} /\ End(q)
      /\ UNCHANGED <<checkout, branch, agent, descriptor, merged, past>>
  BY DEF Conflict, MergeFails, SaveAdoptedFails, disk, git
<1>2. request[q].at # "idle" /\ request[q].at \notin Making
  BY <1>1 DEF Making
<1> QED
  BY <1>1, <1>2, QuietEnd

LEMMA MovesTrees ==
  ASSUME RaceInv, TreeInv, NEW q \in Requests,
         Commit(q) \/ CheckBranch(q) \/ Merge(q)
  PROVE  TreeInv'
<1>1. /\ request[q].at \in {"commit", "check", "merge"}
      /\ UNCHANGED <<checkout, branch, agent, descriptor, past>>
  BY DEF Commit, CheckBranch, Merge, disk, git
<1>2. request[q].at # "idle" /\ request[q].at \notin Making
  BY <1>1 DEF Making
<1>s. /\ request[q] \in Handler /\ request[q] # Idle /\ request[q].race \in Races
      /\ HandlerSound(request[q], merged) /\ Fits(request[q])
  BY <1>2, Standing
<1>3. /\ merged[request[q].race] \subseteq merged'[request[q].race]
      /\ \A s \in Races \ {request[q].race} : merged'[s] = merged[s]
  <2>1. CASE Merge(q)
    BY <2>1, <1>s DEF Merge, RaceInv, TypeOK
  <2>2. CASE Commit(q) \/ CheckBranch(q)
    BY <2>2 DEF Commit, CheckBranch, git
  <2> QED
    BY <2>1, <2>2
<1>4. CASE End(q)
  <2>1. UNCHANGED merged
    BY <1>4, <1>1, <1>s DEF End, Commit, CheckBranch, Merge, git, Goto, RaceInv, TypeOK, Idle, Handler
  <2> QED
    BY <1>1, <1>2, <1>4, <2>1, QuietEnd
<1>5. ASSUME NEW stage \in {"check", "merge", "close"}, Goto(q, stage)
      PROVE  TreeInv'
  <2> DEFINE h == [request[q] EXCEPT !.at = stage]
             r == request[q].race
  <2>1. request' = [request EXCEPT ![q] = h]
    BY <1>5 DEF Goto
  <2>2. h.race = r /\ h.at = stage /\ h.todo = request[q].todo /\ r \in Races
    BY <1>s DEF Handler
  <2>3. \A v \in Variants \ h.todo : Gone(r, v)
    BY <2>2, <1>s, <1>1 DEF Fits, TearLoop, Adopting
  <2> HIDE DEF h, r
  <2>4. UNCHANGED <<checkout, agent>>
    BY <1>1
  <2>5. Fits(request[q])'
    <3>1. request'[q] = h
      BY <2>1 DEF RaceInv, TypeOK
    <3> QED
      BY <3>1, <2>2, <2>3, <2>4
      DEF Fits, MakerLoop, TearLoop, DiscardLoop, Discarding, Adopting, Reporting, Gone
  <2>6. h # Idle => h.race = r
    BY <2>2
  <2>7. request[q].race = r /\ h.at \notin Making
    BY <2>2 DEF r, Making
  <2>8. merged[r] \subseteq merged'[r] /\ \A s \in Races \ {r} : merged'[s] = merged[s]
    BY <1>3, <2>7
  <2> QED
    BY <1>1, <1>2, <1>s, <2>1, <2>2, <2>5, <2>6, <2>7, <2>8, QuietStep
<1> QED
  BY <1>4, <1>5 DEF Commit, CheckBranch, Merge

(* The scoreboard.                                                          *)
LEMMA ScoresTrees ==
  ASSUME RaceInv, TreeInv, NEW q \in Requests, ReadScores(q) \/ WriteScores(q)
  PROVE  TreeInv'
<1>1. /\ request[q].at \in Reporting
      /\ UNCHANGED <<checkout, branch, agent, descriptor, merged, past>>
  BY DEF ReadScores, WriteScores, disk, git, Reporting
<1>2. request[q].at # "idle" /\ request[q].at \notin Making
  BY <1>1 DEF Making, Reporting
<1>s. /\ request[q] \in Handler /\ request[q] # Idle /\ request[q].race \in Races
      /\ Fits(request[q])
  BY <1>2, Standing
<1>3. CASE End(q)
  BY <1>1, <1>2, <1>3, QuietEnd
<1>4. ASSUME NEW h, request' = [request EXCEPT ![q] = h], h.race = request[q].race,
             h.choice = request[q].choice,
             \/ h.at = "write"
             \/ h.at = "drop" /\ h.choice = Nobody
      PROVE  TreeInv'
  <2> DEFINE r == request[q].race
  <2>1. r \in Races /\ request[q].race = r /\ h.at \notin Making
    BY <1>s, <1>4 DEF Making
  <2>2. Discarding(h) => r \in asked /\ Silent(r)
    BY <1>s, <1>4, <1>1 DEF Fits, DiscardLoop, Discarding, Reporting
  <2>3. h.race = r
    BY <1>4
  <2> HIDE DEF r
  <2>4. Fits(request[q])'
    <3>1. request'[q] = h
      BY <1>4 DEF RaceInv, TypeOK
    <3> QED
      BY <3>1, <2>2, <2>3, <1>1, <1>4
      DEF Fits, MakerLoop, TearLoop, DiscardLoop, Discarding, Adopting, Reporting,
          Silent, past
  <2> QED
    BY <1>1, <1>2, <1>s, <1>4, <2>1, <2>3, <2>4, QuietStep
<1>5. CASE ReadScores(q)
  <2>1. PICK seen : request' = [request EXCEPT ![q].at = "write", ![q].seen = seen]
    BY <1>5 DEF ReadScores
  <2> DEFINE h == [request[q] EXCEPT !.at = "write", !.seen = seen]
  <2>2. request' = [request EXCEPT ![q] = h]
    BY <2>1
  <2>3. h.at = "write" /\ h.race = request[q].race /\ h.choice = request[q].choice
    BY <1>s DEF Handler
  <2> QED
    BY <2>2, <2>3, <1>4
<1>6. CASE WriteScores(q) /\ ~End(q)
  <2> DEFINE h == [request[q] EXCEPT !.at = "drop"]
  <2>1. request' = [request EXCEPT ![q] = h] /\ request[q].choice = Nobody
    BY <1>6 DEF WriteScores, Goto
  <2>2. h.at = "drop" /\ h.race = request[q].race /\ h.choice = request[q].choice
    BY <1>s DEF Handler
  <2> QED
    BY <2>1, <2>2, <1>4
<1> QED
  BY <1>3, <1>5, <1>6

(* A handler that takes away from its race, and may change its descriptor.  *)
LEMMA TakingStep ==
  ASSUME RaceInv, TreeInv, NEW q \in Requests, NEW r \in Races,
         request[q] # Idle, request[q].race = r,
         NEW h, request' = [request EXCEPT ![q] = h],
         h # Idle => h.race = r, h.at \in Making => request[q].at \in Making,
         \A s \in Races \ {r} : Untouched(s),
         UNCHANGED past, Shrinks(r),
         descriptor'[r] # "unused", h.at \in Making => descriptor'[r] = "absent",
         Fits(request[q])', RaceFits(r)'
  PROVE  TreeInv'
<1>1. request'[q] = h /\ \A p \in Requests \ {q} : request'[p] = request[p]
  BY DEF RaceInv, TypeOK
<1>2. Own(q)
  BY <1>1 DEF Own
<1> QED
  BY <1>1, <1>2, HandlerStep DEF past

(* Removing, clearing and closing only take away, from one race.            *)
LEMMA RemoveShrinks ==
  ASSUME TypeOK, NEW r \in Races, NEW v \in Variants, NEW d \in BOOLEAN,
         RemoveWorktree(r, v, d)
  PROVE  /\ checkout'[r][v] # "there"
         /\ \A w \in Variants \ {v} : checkout'[r][w] = checkout[r][w]
         /\ \A s \in Races \ {r} : Stands(s)
<1>1. PICK left \in {"none", "stuck"} : checkout' = [checkout EXCEPT ![r][v] = left]
  BY DEF RemoveWorktree
<1>2. checkout \in [Races -> [Variants -> {"none", "there", "stuck"}]]
      /\ branch \in [Races -> SUBSET Variants]
  BY DEF TypeOK
<1>3. \A s \in Races \ {r} : branch'[s] = branch[s]
  BY <1>2 DEF RemoveWorktree
<1>4. \A s \in Races \ {r} : checkout'[s] = checkout[s]
  BY <1>1, <1>2
<1>5. checkout'[r][v] # "there" /\ \A w \in Variants \ {v} : checkout'[r][w] = checkout[r][w]
  BY <1>1, <1>2
<1> QED
  BY <1>3, <1>4, <1>5 DEF Stands

LEMMA ClearShrinks ==
  ASSUME TypeOK, NEW r \in Races, ClearDirectory(r)
  PROVE  /\ \A v \in Variants : checkout'[r][v] # "there"
         /\ \A s \in Races \ {r} : checkout'[s] = checkout[s]
  BY DEF ClearDirectory, TypeOK

LEMMA ClosedShrinks ==
  ASSUME TypeOK, NEW r \in Races, NEW vs, agent' = [agent EXCEPT ![r] = Closed(@, vs)]
  PROVE  /\ \A v \in Variants : agent'[r][v] = "listed" => agent[r][v] = "listed" /\ v \notin vs
         /\ \A s \in Races \ {r} : agent'[s] = agent[s]
  BY DEF Closed, TypeOK

(* What stays made goes on being made.                                      *)
LEMMA MakingStays ==
  ASSUME RaceInv, NEW q \in Requests, NEW r \in Races, NEW h,
         request' = [request EXCEPT ![q] = h],
         \/ request[q].at \notin Making
         \/ h.at \in Making /\ h.race = request[q].race
  PROVE  MakingOf(r) => MakingOf(r)'
  BY DEF MakingOf, RaceInv, TypeOK

(* adopt closes a session,                                                  *)
LEMMA CloseNextTrees ==
  ASSUME RaceInv, TreeInv, NEW q \in Requests, NEW v \in Variants, CloseNext(q, v)
  PROVE  TreeInv'
<1>1. request[q].at = "close" /\ request[q].at # "idle" /\ request[q].at \notin Making
  BY DEF CloseNext, Making
<1>s. /\ request[q] \in Handler /\ request[q] # Idle /\ request[q].race \in Races
      /\ Fits(request[q]) /\ RaceFits(request[q].race)
  BY <1>1, Standing
<1>p. PICK r \in Races : request[q].race = r
  BY <1>s
<1> DEFINE h == [request[q] EXCEPT !.at = "remove", !.now = v]
<1>2. /\ r \in Races /\ request[q].race = r /\ RaceFits(r)
      /\ h.race = r /\ h.at = "remove" /\ h.now = v /\ h.todo = request[q].todo
  BY <1>s, <1>p DEF Handler
<1>3. request' = [request EXCEPT ![q] = h] /\ UNCHANGED <<disk, git, past>>
      /\ agent' = [agent EXCEPT ![r] = Closed(@, {v})]
  BY <1>p DEF CloseNext
<1>4. \A w \in Variants \ h.todo : Gone(r, w)
  BY <1>s, <1>1, <1>2, <1>p DEF Fits, TearLoop, Adopting
<1>5. descriptor[r] # "unused"
  BY <1>s, <1>p DEF TreeInv, MakerAlone
<1> HIDE DEF h
<1>6. /\ \A w \in Variants : agent'[r][w] = "listed" => agent[r][w] = "listed" /\ w # v
      /\ \A s \in Races \ {r} : agent'[s] = agent[s]
  BY <1>2, <1>3, ClosedShrinks DEF RaceInv
<1>7. Shrinks(r) /\ Stands(r) /\ \A s \in Races \ {r} : Untouched(s)
  BY <1>3, <1>6 DEF Shrinks, Stands, Untouched, disk, git, past
<1>8. Fits(request[q])'
  <2>1. request'[q] = h
    BY <1>3 DEF RaceInv, TypeOK
  <2> QED
    BY <2>1, <1>2, <1>3, <1>4, <1>6
    DEF Fits, MakerLoop, TearLoop, DiscardLoop, Discarding, Adopting, Reporting, Gone, git
<1>9. RaceFits(r)'
  <2>1. MakingOf(r) => MakingOf(r)'
    BY <1>1, <1>2, <1>3, MakingStays
  <2>2. Housed(r)'
    BY <1>2, <1>3, <1>6 DEF RaceFits, Housed, git, past
  <2> QED
    BY <1>2, <1>3, <1>7, <2>1, <2>2, RaceStays DEF disk, git, past
<1> QED
  BY <1>2, <1>3, <1>5, <1>7, <1>8, <1>9, <1>s, TakingStep DEF disk, past, Making

(* and removes its worktree: its choice is merged by then.                  *)
LEMMA RemoveNextTrees ==
  ASSUME RaceInv, TreeInv, NEW q \in Requests, RemoveNext(q)
  PROVE  TreeInv'
<1>1. request[q].at = "remove" /\ request[q].at # "idle" /\ request[q].at \notin Making
  BY DEF RemoveNext, Making
<1>s. /\ request[q] \in Handler /\ request[q] # Idle /\ request[q].race \in Races
      /\ Fits(request[q]) /\ RaceFits(request[q].race)
      /\ HandlerSound(request[q], merged)
  BY <1>1, Standing
<1>0. PICK stage \in {"save", "close"} :
        /\ Step(q, request[q].now, stage)
        /\ stage = "save" => request[q].todo = {request[q].now}
  BY DEF RemoveNext
<1>p. PICK r \in Races, v \in Variants : request[q].race = r /\ request[q].now = v
  BY <1>s, <1>1 DEF HandlerSound, Handler
<1> DEFINE h == [request[q] EXCEPT !.todo = @ \ {v}, !.now = Nobody, !.at = stage]
<1>2. /\ r \in Races /\ request[q].race = r /\ RaceFits(r)
      /\ h.race = r /\ h.at = stage /\ h.todo = request[q].todo \ {v}
      /\ v \in Variants
  BY <1>s, <1>1, <1>p DEF Handler, HandlerSound
<1>3. /\ request' = [request EXCEPT ![q] = h]
      /\ UNCHANGED <<disk, merged, agent, past>>
      /\ RemoveWorktree(r, v, v # request[q].choice)
  BY <1>0, <1>p DEF RemoveNext, Step
<1>4. /\ \A w \in Variants \ request[q].todo : Gone(r, w)
      /\ agent[r][v] # "listed" /\ merged[r] # {}
  BY <1>s, <1>1, <1>2, <1>p DEF Fits, TearLoop, Adopting, HandlerSound, Torn
<1>5. descriptor[r] # "unused" /\ (stage = "save" => h.todo = {})
  BY <1>s, <1>0, <1>2, <1>p DEF TreeInv, MakerAlone
<1> HIDE DEF h
<1>6. /\ checkout'[r][v] # "there"
      /\ \A w \in Variants \ {v} : checkout'[r][w] = checkout[r][w]
      /\ \A s \in Races \ {r} : Stands(s)
  BY <1>2, <1>3, RemoveShrinks DEF RaceInv
<1>7. Shrinks(r) /\ \A s \in Races \ {r} : Untouched(s)
  BY <1>3, <1>6 DEF Shrinks, Untouched, disk, past
<1>8. Fits(request[q])'
  <2>1. request'[q] = h
    BY <1>3 DEF RaceInv, TypeOK
  <2>2. \A w \in Variants \ h.todo : checkout'[r][w] # "there" /\ agent'[r][w] # "listed"
    BY <1>2, <1>3, <1>4, <1>6 DEF Gone
  <2> QED
    BY <2>1, <2>2, <1>0, <1>2, <1>5
    DEF Fits, MakerLoop, TearLoop, DiscardLoop, Discarding, Adopting, Reporting, Gone
<1>9. RaceFits(r)'
  <2>1. MakingOf(r) => MakingOf(r)'
    BY <1>1, <1>2, <1>3, MakingStays
  <2>2. Housed(r)'
    BY <1>2, <1>3, <1>4, <1>6 DEF RaceFits, Housed, past
  <2> QED
    BY <1>2, <1>3, <1>4, <1>7, <2>1, <2>2, RaceStays DEF disk, past
<1> QED
  BY <1>0, <1>2, <1>3, <1>5, <1>7, <1>8, <1>9, <1>s, TakingStep DEF disk, past, Making

(* When every worktree is, the race is called adopted.                      *)
LEMMA SaveAdoptedTrees ==
  ASSUME RaceInv, TreeInv, NEW q \in Requests, SaveAdopted(q)
  PROVE  TreeInv'
<1>1. request[q].at = "save" /\ request[q].at # "idle" /\ request[q].at \notin Making
  BY DEF SaveAdopted, Making
<1>s. /\ request[q] \in Handler /\ request[q] # Idle /\ request[q].race \in Races
      /\ Fits(request[q]) /\ RaceFits(request[q].race)
      /\ HandlerSound(request[q], merged)
  BY <1>1, Standing
<1>p. PICK r \in Races : request[q].race = r
  BY <1>s
<1> DEFINE h == [request[q] EXCEPT !.at = "read"]
<1>2. /\ r \in Races /\ request[q].race = r /\ RaceFits(r)
      /\ h.race = r /\ h.at = "read" /\ h.choice # Nobody
  BY <1>s, <1>1, <1>p DEF Handler, HandlerSound, Adopting
<1>3. /\ request' = [request EXCEPT ![q] = h]
      /\ descriptor' = [descriptor EXCEPT ![r] = "adopted"]
      /\ UNCHANGED <<git, agent, past>>
  BY <1>p DEF SaveAdopted, Goto
<1>4. \A w \in Variants : Gone(r, w)
  BY <1>s, <1>1, <1>p DEF Fits, TearLoop, Adopting
<1> HIDE DEF h
<1>5. descriptor'[r] = "adopted" /\ \A s \in Races \ {r} : descriptor'[s] = descriptor[s]
  BY <1>2, <1>3 DEF RaceInv, TypeOK
<1>7. Shrinks(r) /\ \A s \in Races \ {r} : Untouched(s)
  BY <1>3, <1>5 DEF Shrinks, Untouched, Stands, git, past
<1>8. Fits(request[q])'
  <2>1. request'[q] = h
    BY <1>3 DEF RaceInv, TypeOK
  <2> QED
    BY <2>1, <1>2
    DEF Fits, MakerLoop, TearLoop, DiscardLoop, Discarding, Adopting, Reporting
<1>9. RaceFits(r)'
  BY <1>2, <1>3, <1>4, <1>5
  DEF RaceFits, Work, Clean, Cleared, Fresh, Housed, Gone, git, past
<1> QED
  BY <1>2, <1>3, <1>5, <1>7, <1>8, <1>9, <1>s, TakingStep DEF past, Making

(* discard closes every session,                                            *)
LEMMA SilenceTrees ==
  ASSUME RaceInv, TreeInv, NEW q \in Requests, Silence(q)
  PROVE  TreeInv'
<1>1. request[q].at = "silence" /\ request[q].at # "idle" /\ request[q].at \notin Making
  BY DEF Silence, Making
<1>s. /\ request[q] \in Handler /\ request[q] # Idle /\ request[q].race \in Races
      /\ Fits(request[q]) /\ RaceFits(request[q].race)
  BY <1>1, Standing
<1>p. PICK r \in Races : request[q].race = r
  BY <1>s
<1> DEFINE h == [request[q] EXCEPT !.at = "sweep"]
<1>2. RaceFits(r) /\ h.race = r /\ h.at = "sweep" /\ r \in asked
  BY <1>s, <1>1, <1>p DEF Handler, Fits, DiscardLoop, Discarding
<1>3. request' = [request EXCEPT ![q] = h] /\ UNCHANGED <<disk, git, past>>
      /\ agent' = [agent EXCEPT ![r] = Closed(@, Variants)]
  BY <1>p DEF Silence, Goto
<1>5. descriptor[r] # "unused"
  BY <1>s, <1>p DEF TreeInv, MakerAlone
<1> HIDE DEF h
<1>6. /\ \A w \in Variants : agent'[r][w] # "listed"
      /\ \A s \in Races \ {r} : agent'[s] = agent[s]
  BY <1>3, ClosedShrinks DEF RaceInv
<1>7. Shrinks(r) /\ Stands(r) /\ \A s \in Races \ {r} : Untouched(s)
  BY <1>3, <1>6 DEF Shrinks, Stands, Untouched, disk, git, past
<1>8. Fits(request[q])'
  <2>1. request'[q] = h
    BY <1>3 DEF RaceInv, TypeOK
  <2> QED
    BY <2>1, <1>2, <1>3, <1>6
    DEF Fits, MakerLoop, TearLoop, DiscardLoop, Discarding, Adopting, Reporting, Silent, past
<1>9. RaceFits(r)'
  <2>1. MakingOf(r) => MakingOf(r)'
    BY <1>1, <1>2, <1>3, MakingStays
  <2>2. Housed(r)'
    BY <1>6 DEF Housed
  <2> QED
    BY <1>2, <1>3, <1>7, <2>1, <2>2, RaceStays DEF disk, git, past
<1> QED
  BY <1>p, <1>2, <1>3, <1>5, <1>7, <1>8, <1>9, <1>s, TakingStep DEF disk, past, Making

(* removes every worktree: somebody asked for it,                           *)
LEMMA SweepTrees ==
  ASSUME RaceInv, TreeInv, NEW q \in Requests, NEW v \in Variants, Sweep(q, v)
  PROVE  TreeInv'
<1>1. request[q].at = "sweep" /\ request[q].at # "idle" /\ request[q].at \notin Making
  BY DEF Sweep, Making
<1>s. /\ request[q] \in Handler /\ request[q] # Idle /\ request[q].race \in Races
      /\ Fits(request[q]) /\ RaceFits(request[q].race)
      /\ HandlerSound(request[q], merged)
  BY <1>1, Standing
<1>p. PICK r \in Races : request[q].race = r
  BY <1>s
<1>0. PICK stage \in {"sweep", "read", "drop"} : Step(q, v, stage)
  BY DEF Sweep
<1> DEFINE h == [request[q] EXCEPT !.todo = @ \ {v}, !.now = Nobody, !.at = stage]
<1>2. RaceFits(r) /\ h.race = r /\ h.at = stage /\ r \in asked /\ Silent(r)
  BY <1>s, <1>1, <1>p DEF Handler, Fits, DiscardLoop, Discarding
<1>3. request' = [request EXCEPT ![q] = h] /\ UNCHANGED <<disk, merged, agent, past>>
      /\ RemoveWorktree(r, v, TRUE)
  BY <1>0, <1>p DEF Sweep, Step
<1>5. descriptor[r] # "unused"
  BY <1>s, <1>p DEF TreeInv, MakerAlone
<1> HIDE DEF h
<1>6. /\ checkout'[r][v] # "there"
      /\ \A w \in Variants \ {v} : checkout'[r][w] = checkout[r][w]
      /\ \A s \in Races \ {r} : Stands(s)
  BY <1>3, RemoveShrinks DEF RaceInv
<1>7. Shrinks(r) /\ \A s \in Races \ {r} : Untouched(s)
  BY <1>3, <1>6 DEF Shrinks, Untouched, disk, past
<1>8. Fits(request[q])'
  <2>1. request'[q] = h
    BY <1>3 DEF RaceInv, TypeOK
  <2> QED
    BY <2>1, <1>0, <1>2, <1>3
    DEF Fits, MakerLoop, TearLoop, DiscardLoop, Discarding, Adopting, Reporting, Silent, past
<1>9. RaceFits(r)'
  <2>1. MakingOf(r) => MakingOf(r)'
    BY <1>1, <1>3, MakingStays
  <2>2. Housed(r)'
    BY <1>2, <1>3 DEF Housed, Silent
  <2> QED
    BY <1>2, <1>3, <1>7, <2>1, <2>2, RaceStays DEF disk, past
<1> QED
  BY <1>p, <1>0, <1>2, <1>3, <1>5, <1>7, <1>8, <1>9, <1>s, TakingStep DEF disk, past, Making

(* and drops the directory, and perhaps the descriptor in it.               *)
LEMMA DropTrees ==
  ASSUME RaceInv, TreeInv, NEW q \in Requests, Drop(q)
  PROVE  TreeInv'
<1>1. request[q].at = "drop" /\ request[q].at # "idle" /\ request[q].at \notin Making
  BY DEF Drop, Making
<1>s. /\ request[q] \in Handler /\ request[q] # Idle /\ request[q].race \in Races
      /\ Fits(request[q]) /\ RaceFits(request[q].race)
  BY <1>1, Standing
<1>p. PICK r \in Races : request[q].race = r
  BY <1>s
<1>2. RaceFits(r) /\ r \in asked /\ Silent(r) /\ Idle.at \notin Making
  BY <1>s, <1>1, <1>p DEF Fits, DiscardLoop, Discarding, Idle, Making
<1>3. /\ request' = [request EXCEPT ![q] = Idle]
      /\ UNCHANGED <<branch, merged, agent, past>> /\ ClearDirectory(r)
      /\ \/ descriptor' = [descriptor EXCEPT ![r] = "absent"]
         \/ UNCHANGED descriptor
  BY <1>p DEF Drop, DropDirectory, End
<1>5. /\ descriptor[r] # "unused" /\ descriptor'[r] # "unused"
      /\ descriptor'[r] \in {"absent", descriptor[r]}
      /\ \A s \in Races \ {r} : descriptor'[s] = descriptor[s]
  BY <1>3, <1>s, <1>p DEF TreeInv, MakerAlone, RaceInv, TypeOK
<1>6. /\ \A v \in Variants : checkout'[r][v] # "there"
      /\ \A s \in Races \ {r} : checkout'[s] = checkout[s]
  BY <1>3, ClearShrinks DEF RaceInv
<1>7. Shrinks(r) /\ \A s \in Races \ {r} : Untouched(s)
  BY <1>3, <1>5, <1>6 DEF Shrinks, Untouched, Stands, past
<1>8. Fits(request[q])'
  <2>1. request'[q] = Idle
    BY <1>3 DEF RaceInv, TypeOK
  <2> QED
    BY <2>1
    DEF Fits, MakerLoop, TearLoop, DiscardLoop, Discarding, Adopting, Reporting, Idle
<1>9. RaceFits(r)'
  BY <1>2, <1>3, <1>5, <1>6
  DEF RaceFits, Work, Clean, Cleared, Fresh, Housed, Gone, Silent, past
<1> QED
  BY <1>p, <1>2, <1>3, <1>5, <1>7, <1>8, <1>9, <1>s, TakingStep DEF past

(* create undoes what it added,                                             *)
LEMMA UndoVariantTrees ==
  ASSUME RaceInv, TreeInv, NEW q \in Requests, NEW v \in Variants, UndoVariant(q, v)
  PROVE  TreeInv'
<1>1. /\ request[q].at = "rollback" /\ request[q].at # "idle" /\ request[q].at \in Making
  BY DEF UndoVariant, Making
<1>s. /\ request[q] \in Handler /\ request[q] # Idle /\ request[q].race \in Races
      /\ Fits(request[q]) /\ RaceFits(request[q].race)
  BY <1>1, Standing
<1>p. PICK r \in Races : request[q].race = r
  BY <1>s
<1> DEFINE h == [request[q] EXCEPT !.todo = @ \ {v}]
<1>2. RaceFits(r) /\ h.race = r /\ h.at = "rollback" /\ Silent(r)
  BY <1>s, <1>1, <1>p DEF Handler, Fits, MakerLoop
<1>3. request' = [request EXCEPT ![q] = h] /\ UNCHANGED <<disk, merged, agent, past>>
      /\ RemoveWorktree(r, v, TRUE)
  BY <1>p DEF UndoVariant
<1>5. descriptor[r] = "absent"
  BY <1>s, <1>1, <1>p DEF TreeInv, MakerAlone
<1> HIDE DEF h
<1>6. /\ checkout'[r][v] # "there"
      /\ \A w \in Variants \ {v} : checkout'[r][w] = checkout[r][w]
      /\ \A s \in Races \ {r} : Stands(s)
  BY <1>3, RemoveShrinks DEF RaceInv
<1>7. Shrinks(r) /\ \A s \in Races \ {r} : Untouched(s)
  BY <1>3, <1>6 DEF Shrinks, Untouched, disk, past
<1>8. Fits(request[q])'
  <2>1. request'[q] = h
    BY <1>3 DEF RaceInv, TypeOK
  <2> QED
    BY <2>1, <1>2, <1>3
    DEF Fits, MakerLoop, TearLoop, DiscardLoop, Discarding, Adopting, Reporting, Silent
<1>9. RaceFits(r)'
  <2>1. MakingOf(r) => MakingOf(r)'
    BY <1>1, <1>2, <1>3, <1>p, MakingStays DEF Making
  <2>2. Housed(r)'
    BY <1>2, <1>3 DEF Housed, Silent
  <2> QED
    BY <1>2, <1>3, <1>5, <1>7, <2>1, <2>2, RaceStays DEF disk, past
<1> QED
  BY <1>p, <1>1, <1>2, <1>3, <1>5, <1>7, <1>8, <1>9, <1>s, TakingStep DEF disk, past

(* and its directory.                                                       *)
LEMMA FinishRollbackTrees ==
  ASSUME RaceInv, TreeInv, NEW q \in Requests, FinishRollback(q)
  PROVE  TreeInv'
<1>1. /\ request[q].at = "rollback" /\ request[q].at # "idle" /\ request[q].at \in Making
  BY DEF FinishRollback, Making
<1>s. /\ request[q] \in Handler /\ request[q] # Idle /\ request[q].race \in Races
      /\ Fits(request[q]) /\ RaceFits(request[q].race)
  BY <1>1, Standing
<1>p. PICK r \in Races : request[q].race = r
  BY <1>s
<1>2. RaceFits(r) /\ Silent(r) /\ Idle.at \notin Making
  BY <1>s, <1>1, <1>p DEF Fits, MakerLoop, Idle, Making
<1>3. /\ request' = [request EXCEPT ![q] = Idle]
      /\ UNCHANGED <<disk, branch, merged, agent, past>> /\ ClearDirectory(r)
  BY <1>p DEF FinishRollback, End
<1>5. descriptor[r] = "absent" /\ UNCHANGED descriptor
  BY <1>3, <1>s, <1>1, <1>p DEF TreeInv, MakerAlone, disk
<1>6. /\ \A v \in Variants : checkout'[r][v] # "there"
      /\ \A s \in Races \ {r} : checkout'[s] = checkout[s]
  BY <1>3, ClearShrinks DEF RaceInv
<1>7. Shrinks(r) /\ \A s \in Races \ {r} : Untouched(s)
  BY <1>3, <1>5, <1>6 DEF Shrinks, Untouched, Stands, past
<1>8. Fits(request[q])'
  <2>1. request'[q] = Idle
    BY <1>3 DEF RaceInv, TypeOK
  <2> QED
    BY <2>1
    DEF Fits, MakerLoop, TearLoop, DiscardLoop, Discarding, Adopting, Reporting, Idle
<1>9. RaceFits(r)'
  BY <1>2, <1>3, <1>5, <1>6
  DEF RaceFits, Work, Clean, Cleared, Fresh, Housed, Gone, Silent, past
<1> QED
  BY <1>p, <1>2, <1>3, <1>5, <1>7, <1>8, <1>9, <1>s, TakingStep DEF past

(* A step of the handler that makes a race.                                 *)
LEMMA MakingStep ==
  ASSUME RaceInv, TreeInv, NEW q \in Requests, NEW r \in Races,
         request[q].at \in Making, request[q].race = r,
         NEW h, request' = [request EXCEPT ![q] = h], h # Idle => h.race = r,
         \A s \in Races \ {r} : Untouched(s), UNCHANGED asked,
         descriptor'[r] # "unused", h.at \in Making => descriptor'[r] = "absent",
         Fits(request[q])', RaceFits(r)'
  PROVE  TreeInv'
<1>1. request'[q] = h /\ \A p \in Requests \ {q} : request'[p] = request[p]
  BY DEF RaceInv, TypeOK
<1>2. Own(q)
  BY <1>1 DEF Own, Idle, Making
<1> QED
  BY <1>1, <1>2, HandlerStep

(* create adds a variant,                                                   *)
LEMMA AddVariantTrees ==
  ASSUME RaceInv, TreeInv, NEW q \in Requests, NEW v \in Variants, AddVariant(q, v)
  PROVE  TreeInv'
<1>1. request[q].at = "build" /\ request[q].at # "idle" /\ request[q].at \in Making
  BY DEF AddVariant, Making
<1>s. /\ request[q] \in Handler /\ request[q] # Idle /\ request[q].race \in Races
      /\ Fits(request[q]) /\ RaceFits(request[q].race)
  BY <1>1, Standing
<1>p. PICK r \in Races : request[q].race = r
  BY <1>s
<1> DEFINE h == [request[q] EXCEPT !.todo = @ \ {v}]
<1>2. /\ RaceFits(r) /\ h.race = r /\ h.at = "build" /\ h.todo = request[q].todo \ {v}
      /\ MakerLoop(request[q])
  BY <1>s, <1>1, <1>p DEF Handler, Fits
<1>3. /\ request' = [request EXCEPT ![q] = h] /\ UNCHANGED <<disk, merged, past>>
      /\ checkout' = [checkout EXCEPT ![r][v] = "there"]
      /\ branch' = [branch EXCEPT ![r] = @ \cup {v}]
      /\ agent' = [agent EXCEPT ![r][v] = "listed"]
  BY <1>p DEF AddVariant
<1>4. \A w \in Variants :
        IF w \in request[q].todo THEN agent[r][w] # "listed"
        ELSE checkout[r][w] = "there" /\ w \in branch[r]
  BY <1>1, <1>2, <1>p DEF MakerLoop
<1>5. descriptor[r] = "absent" /\ UNCHANGED descriptor
  BY <1>3, <1>s, <1>1, <1>p DEF TreeInv, MakerAlone, disk
<1> HIDE DEF h
<1>6. /\ checkout'[r][v] = "there" /\ v \in branch'[r]
      /\ \A w \in Variants \ {v} : /\ checkout'[r][w] = checkout[r][w]
                                   /\ agent'[r][w] = agent[r][w]
                                   /\ (w \in branch'[r]) = (w \in branch[r])
      /\ \A s \in Races \ {r} : checkout'[s] = checkout[s] /\ branch'[s] = branch[s]
                                /\ agent'[s] = agent[s]
  BY <1>3 DEF RaceInv, TypeOK
<1>7. \A s \in Races \ {r} : Untouched(s)
  BY <1>3, <1>5, <1>6 DEF Untouched, Stands, past
<1>0. request'[q] = h
  BY <1>3 DEF RaceInv, TypeOK
<1>8. Fits(request[q])'
  BY <1>0, <1>2, <1>4, <1>6
  DEF Fits, MakerLoop, TearLoop, DiscardLoop, Discarding, Adopting, Reporting
<1>9. RaceFits(r)'
  <2>1. MakingOf(r)'
    BY <1>0, <1>2, <1>1 DEF MakingOf, Making
  <2>2. Housed(r)'
    BY <1>2, <1>3, <1>6 DEF Housed, RaceFits, past
  <2> QED
    BY <1>5, <2>1, <2>2 DEF RaceFits, Work, Clean, Cleared, Fresh
<1> QED
  BY <1>p, <1>1, <1>2, <1>3, <1>5, <1>7, <1>8, <1>9, MakingStep DEF past

(* or fails to, and starts to roll back: every session it started is closed.*)
LEMMA RollingBackTrees ==
  ASSUME RaceInv, TreeInv, NEW q \in Requests, NEW v \in Variants,
         AddFails(q, v) \/ SessionRefused(q, v)
  PROVE  TreeInv'
<1>1. request[q].at = "build" /\ request[q].at # "idle" /\ request[q].at \in Making
  BY DEF AddFails, SessionRefused, Making
<1>s. /\ request[q] \in Handler /\ request[q] # Idle /\ request[q].race \in Races
      /\ Fits(request[q]) /\ RaceFits(request[q].race)
  BY <1>1, Standing
<1>p. PICK r \in Races : request[q].race = r
  BY <1>s
<1>0. PICK added \in {Variants \ request[q].todo, (Variants \ request[q].todo) \cup {v}},
           made \in {"none", "there"} :
        /\ RollBack(q, added)
        /\ checkout' = [checkout EXCEPT ![r][v] = made]
        /\ \/ branch' = branch
           \/ branch' = [branch EXCEPT ![r] = @ \cup {v}]
  BY <1>p DEF AddFails, SessionRefused
<1> DEFINE h == [request[q] EXCEPT !.at = "rollback", !.todo = added]
<1>2. /\ h.race = r /\ h.at = "rollback" /\ MakerLoop(request[q])
  BY <1>s, <1>1, <1>p DEF Handler, Fits
<1>3. /\ request' = [request EXCEPT ![q] = h] /\ UNCHANGED <<disk, merged, past>>
      /\ agent' = [agent EXCEPT ![r] = Closed(@, added)]
  BY <1>0, <1>p DEF AddFails, SessionRefused, RollBack
<1>4. \A w \in Variants : w \in request[q].todo => agent[r][w] # "listed"
  BY <1>1, <1>2, <1>p DEF MakerLoop
<1>5. descriptor[r] = "absent" /\ UNCHANGED descriptor
  BY <1>3, <1>s, <1>1, <1>p DEF TreeInv, MakerAlone, disk
<1> HIDE DEF h
<1>6. /\ \A w \in Variants : agent'[r][w] # "listed"
      /\ \A s \in Races \ {r} : agent'[s] = agent[s]
  BY <1>0, <1>3, <1>4, ClosedShrinks DEF RaceInv
<1>7. \A s \in Races \ {r} : Untouched(s)
  <2>1. \A s \in Races \ {r} : checkout'[s] = checkout[s] /\ branch'[s] = branch[s]
    BY <1>0 DEF RaceInv, TypeOK
  <2> QED
    BY <2>1, <1>3, <1>5, <1>6 DEF Untouched, Stands, past
<1>10. request'[q] = h
  BY <1>3 DEF RaceInv, TypeOK
<1>8. Fits(request[q])'
  BY <1>10, <1>2, <1>6
  DEF Fits, MakerLoop, TearLoop, DiscardLoop, Discarding, Adopting, Reporting, Silent
<1>9. RaceFits(r)'
  <2>1. MakingOf(r)'
    BY <1>10, <1>2, <1>1 DEF MakingOf, Making
  <2>2. Housed(r)'
    BY <1>6 DEF Housed
  <2> QED
    BY <1>5, <2>1, <2>2 DEF RaceFits, Work, Clean, Cleared, Fresh
<1> QED
  BY <1>p, <1>1, <1>2, <1>3, <1>5, <1>7, <1>8, <1>9, MakingStep DEF past

(* The race is there when its descriptor is, with all its variants; if the  *)
(* descriptor cannot be written the race is lost.                           *)
LEMMA SaveNewTrees ==
  ASSUME RaceInv, TreeInv, NEW q \in Requests, SaveNew(q) \/ SaveNewFails(q)
  PROVE  TreeInv'
<1>1. /\ request[q].at = "build" /\ request[q].at # "idle" /\ request[q].at \in Making
      /\ request[q].todo = {}
  BY DEF SaveNew, SaveNewFails, Making
<1>s. /\ request[q] \in Handler /\ request[q] # Idle /\ request[q].race \in Races
      /\ Fits(request[q]) /\ RaceFits(request[q].race)
  BY <1>1, Standing
<1>p. PICK r \in Races : request[q].race = r
  BY <1>s
<1>3. /\ request' = [request EXCEPT ![q] = Idle]
      /\ UNCHANGED <<git, agent, asked, unread>>
      /\ \/ UNCHANGED lost /\ descriptor' = [descriptor EXCEPT ![r] = "running"]
         \/ lost' = lost \cup {r} /\ UNCHANGED descriptor
  BY <1>p DEF SaveNew, SaveNewFails, End, past, disk
<1>4. \A w \in Variants : checkout[r][w] = "there" /\ w \in branch[r]
  BY <1>s, <1>1, <1>p DEF Fits, MakerLoop
<1>5. /\ descriptor[r] = "absent"
      /\ \A s \in Races \ {r} : descriptor'[s] = descriptor[s] /\ (s \in lost') = (s \in lost)
      /\ \/ descriptor'[r] = "running"
         \/ descriptor'[r] = "absent" /\ r \in lost'
  BY <1>3, <1>s, <1>1, <1>p DEF TreeInv, MakerAlone, RaceInv, TypeOK
<1>7. \A s \in Races \ {r} : Untouched(s)
  BY <1>3, <1>5 DEF Untouched, Stands, git
<1>10. request'[q] = Idle /\ Idle.at \notin Making
  BY <1>3 DEF RaceInv, TypeOK, Idle, Making
<1>8. Fits(request[q])'
  BY <1>10
  DEF Fits, MakerLoop, TearLoop, DiscardLoop, Discarding, Adopting, Reporting, Idle
<1>9. RaceFits(r)'
  <2>1. branch[r] = Variants
    BY <1>4 DEF RaceInv, TypeOK
  <2> QED
    BY <1>3, <1>4, <1>5, <2>1
    DEF RaceFits, Work, Clean, Cleared, Fresh, Housed, git
<1> QED
  BY <1>p, <1>1, <1>3, <1>5, <1>7, <1>8, <1>9, <1>10, MakingStep

(* A request starts: on a race nobody makes, or that nobody else knows.     *)
LEMMA StartStep ==
  ASSUME RaceInv, TreeInv, NEW q \in Requests, NEW r \in Races,
         request[q] = Idle, NEW h, request' = [request EXCEPT ![q] = h], h.race = r,
         \A s \in Races \ {r} : Untouched(s), Shrinks(r),
         r \in asked => r \in asked', descriptor'[r] # "unused",
         ~MakingOf(r),
         h.at \in Making => /\ descriptor[r] = "unused"
                            /\ descriptor'[r] = "absent",
         Fits(request[q])', RaceFits(r)'
  PROVE  TreeInv'
<1>0. request'[q] = h /\ \A p \in Requests \ {q} : request'[p] = request[p]
  BY DEF RaceInv, TypeOK
<1>p. ASSUME NEW p \in Requests, request[p] # Idle
      PROVE  /\ request[p] \in Handler /\ request[p].race \in Races
             /\ descriptor[request[p].race] # "unused" /\ p # q
  BY <1>p DEF RaceInv, TypeOK, Handler, TreeInv, MakerAlone
<1>1. MakerAlone'
  <2>1. ASSUME NEW p \in Requests, request'[p] # Idle
        PROVE  descriptor'[request'[p].race] # "unused"
    <3>1. CASE request'[p].race = r
      BY <3>1
    <3>2. CASE request'[p].race # r
      <4>1. p # q /\ request'[p] = request[p]
        BY <3>2, <1>0
      <4>2. request[p].race \in Races \ {r} /\ descriptor[request[p].race] # "unused"
        BY <4>1, <3>2, <2>1, <1>p
      <4> QED
        BY <4>1, <4>2 DEF Untouched
    <3> QED
      BY <3>1, <3>2
  <2>2. ASSUME NEW p \in Requests, request'[p].at \in Making
        PROVE  /\ descriptor'[request'[p].race] = "absent"
               /\ \A o \in Requests \ {p} :
                    request'[o] # Idle => request'[o].race # request'[p].race
    <3>1. CASE p = q
      <4>1. descriptor[r] = "unused" /\ descriptor'[r] = "absent"
        BY <3>1, <2>2, <1>0
      <4>2. \A o \in Requests \ {q} : request'[o] # Idle => request'[o].race # r
        BY <4>1, <1>0, <1>p
      <4> QED
        BY <3>1, <4>1, <4>2, <1>0
    <3>2. CASE p # q
      <4>1. request'[p] = request[p] /\ request[p].at \in Making /\ request[p] # Idle
        BY <3>2, <2>2, <1>0 DEF Idle, Making
      <4>2. request[p].race \in Races \ {r}
        BY <4>1, <1>p DEF MakingOf
      <4>3. descriptor'[request'[p].race] = "absent"
        BY <4>1, <4>2 DEF Untouched, TreeInv, MakerAlone
      <4>4. \A o \in Requests \ {p} :
              request'[o] # Idle => request'[o].race # request'[p].race
        BY <4>1, <4>2, <1>0 DEF TreeInv, MakerAlone
      <4> QED
        BY <4>3, <4>4
    <3> QED
      BY <3>1, <3>2
  <2> QED
    BY <2>1, <2>2 DEF MakerAlone
<1>2. ASSUME NEW p \in Requests PROVE Fits(request[p])'
  <2>1. CASE p = q
    BY <2>1
  <2>2. CASE p # q /\ request[p] = Idle
    BY <2>2, <1>0 DEF Fits, MakerLoop, TearLoop, DiscardLoop, Discarding, Adopting,
       Reporting, Idle
  <2>3. CASE p # q /\ request[p] # Idle
    <3> DEFINE g == request[p]
    <3>1. g \in Handler /\ g.race \in Races /\ request'[p] = g
      BY <2>3, <1>0, <1>p
    <3>2. Fits(g) /\ (g.at = "remove" => g.now \in Variants)
      BY <3>1 DEF TreeInv, RaceInv, HandlersSound, HandlerSound, Handler
    <3>3. g.race = r => g.at \notin Making
      BY DEF MakingOf
    <3>4. g.race # r => Shrinks(g.race) /\ Stands(g.race)
      BY <3>1 DEF Untouched, Shrinks, Stands
    <3>5. g.race \in asked => g.race \in asked'
      BY <3>1 DEF Untouched
    <3> HIDE DEF g
    <3> QED
      BY <3>1, <3>2, <3>3, <3>4, <3>5, FitsStays
  <2> QED
    BY <2>1, <2>2, <2>3
<1>3. ASSUME NEW s \in Races PROVE RaceFits(s)'
  <2>1. CASE s = r
    BY <2>1
  <2>2. CASE s # r
    <3>1. Untouched(s) /\ RaceFits(s)
      BY <2>2 DEF TreeInv
    <3>2. MakingOf(s) => MakingOf(s)'
      BY <1>0 DEF MakingOf, Idle, Making
    <3> QED
      BY <3>1, <3>2, UntouchedStays
  <2> QED
    BY <2>1, <2>2
<1> QED
  BY <1>1, <1>2, <1>3 DEF TreeInv

(* Nobody makes a race that has a descriptor, or that nobody knows.         *)
LEMMA NotInTheMaking ==
  ASSUME TreeInv, NEW r \in Races, descriptor[r] # "absent"
  PROVE  ~MakingOf(r)
  BY DEF TreeInv, MakerAlone, MakingOf

LEMMA CreateTrees ==
  ASSUME RaceInv, TreeInv, NEW q \in Requests, NEW r \in Races, Create(q, r)
  PROVE  TreeInv'
<1> DEFINE h == [at |-> "build", race |-> r, choice |-> Nobody, todo |-> Variants,
                 now |-> Nobody, counts |-> FALSE, seen |-> {}]
<1>1. /\ request[q] = Idle /\ request' = [request EXCEPT ![q] = h]
      /\ descriptor[r] = "unused" /\ descriptor' = [descriptor EXCEPT ![r] = "absent"]
      /\ UNCHANGED <<git, agent, past>>
  BY DEF Create, Start
<1>2. h.race = r /\ h.at = "build" /\ h.todo = Variants
  OBVIOUS
<1> HIDE DEF h
<1>3. descriptor'[r] = "absent" /\ \A s \in Races \ {r} : descriptor'[s] = descriptor[s]
  BY <1>1 DEF RaceInv, TypeOK
<1>4. Silent(r) /\ ~MakingOf(r)
  BY <1>1, NotInTheMaking DEF TreeInv, RaceFits, Fresh
<1>5. request'[q] = h
  BY <1>1 DEF RaceInv, TypeOK
<1>6. Shrinks(r) /\ \A s \in Races \ {r} : Untouched(s)
  BY <1>1, <1>3 DEF Shrinks, Untouched, Stands, git, past
<1>7. Fits(request[q])'
  BY <1>1, <1>2, <1>4, <1>5
  DEF Fits, MakerLoop, TearLoop, DiscardLoop, Discarding, Adopting, Reporting, Silent
<1>8. RaceFits(r)'
  <2>1. MakingOf(r)'
    BY <1>2, <1>5 DEF MakingOf, Making
  <2>2. Housed(r)'
    BY <1>1, <1>4 DEF Housed, Silent
  <2> QED
    BY <1>3, <2>1, <2>2 DEF RaceFits, Work, Clean, Cleared, Fresh
<1> QED
  BY <1>1, <1>2, <1>3, <1>4, <1>6, <1>7, <1>8, StartStep DEF past

LEMMA AskTrees ==
  ASSUME RaceInv, TreeInv, NEW q \in Requests, NEW r \in Races, NEW v \in Variants,
         Adopt(q, r, v) \/ Discard(q, r)
  PROVE  TreeInv'
<1>0. PICK stage \in {"commit", "silence"}, choice \in {v, Nobody}, counts \in BOOLEAN :
        /\ Start(q, stage, r, choice, counts)
        /\ stage = "silence" => r \in asked'
  BY DEF Adopt, Discard
<1> DEFINE h == [at |-> stage, race |-> r, choice |-> choice, todo |-> Variants,
                 now |-> Nobody, counts |-> counts, seen |-> {}]
<1>1. /\ request[q] = Idle /\ request' = [request EXCEPT ![q] = h]
      /\ descriptor[r] \in {"running", "adopted"}
      /\ UNCHANGED <<disk, git, agent, lost, unread>> /\ asked' \in {asked, asked \cup {r}}
  BY <1>0 DEF Adopt, Discard, Start, past
<1>2. h.race = r /\ h.at = stage /\ h.todo = Variants
  OBVIOUS
<1> HIDE DEF h
<1>4. ~MakingOf(r)
  BY <1>1, NotInTheMaking
<1>5. request'[q] = h
  BY <1>1 DEF RaceInv, TypeOK
<1>6. Shrinks(r) /\ \A s \in Races \ {r} : Untouched(s)
  BY <1>1 DEF Shrinks, Untouched, Stands, git, disk
<1>7. Fits(request[q])'
  BY <1>0, <1>2, <1>5
  DEF Fits, MakerLoop, TearLoop, DiscardLoop, Discarding, Adopting, Reporting, Silent
<1>8. RaceFits(r)'
  BY <1>1, <1>4 DEF TreeInv, RaceFits, Work, Clean, Cleared, Fresh, Housed, Gone, disk, git
<1> QED
  BY <1>0, <1>1, <1>2, <1>4, <1>6, <1>7, <1>8, StartStep DEF disk, Making

(* Clearing the directory of a race whose descriptor is absent or cannot be *)
(* read: nothing of it is left, or its making was cut short, or the history  *)
(* says that it was not read.                                                *)
LEMMA DiscardUnreadTrees ==
  ASSUME RaceInv, TreeInv, NEW q \in Requests, NEW r \in Races, DiscardUnread(q, r)
  PROVE  TreeInv'
<1>1. /\ descriptor[r] # "unused" /\ ~MakingOf(r) /\ ClearDirectory(r)
      /\ UNCHANGED <<branch, merged, agent, request, lost>>
      /\ asked' = asked \cup {r}
      /\ unread' = IF descriptor[r] = "absent" THEN unread ELSE unread \cup {r}
      /\ descriptor' = [descriptor EXCEPT ![r] = "absent"] \/ UNCHANGED descriptor
  BY DEF DiscardUnread, DropDirectory
<1>2. /\ \A v \in Variants : checkout'[r][v] # "there"
      /\ \A s \in Races \ {r} : checkout'[s] = checkout[s]
  BY <1>1, ClearShrinks DEF RaceInv
<1>3. /\ descriptor'[r] \in {"absent", descriptor[r]}
      /\ \A s \in Races \ {r} : descriptor'[s] = descriptor[s]
  BY <1>1 DEF RaceInv, TypeOK
<1>4. RaceFits(r)'
  <2>1. RaceFits(r)
    BY DEF TreeInv
  <2>2. \A v \in Variants : agent[r][v] = "listed" /\ r \notin lost =>
          descriptor[r] # "adopted" /\ r \in unread'
    BY <1>1, <2>1 DEF RaceFits, Clean, Cleared, RaceInv, TypeOK
  <2>3. Work(r)'
    BY <1>1 DEF Work
  <2>4. Clean(r)'
    <3>1. Cleared(r)' => descriptor'[r] = "adopted" \/ (descriptor'[r] = "absent" /\ r \notin lost)
      BY <1>1 DEF Cleared
    <3>2. descriptor'[r] = "adopted" => Cleared(r) /\ descriptor[r] = "adopted"
      BY <1>3 DEF Cleared
    <3> QED
      BY <1>1, <1>2, <2>1, <2>2, <3>1, <3>2 DEF RaceFits, Clean
  <2>5. Fresh(r)'
    BY <1>1, <1>3 DEF Fresh
  <2>6. Housed(r)'
    BY <1>1, <2>2 DEF Housed
  <2> QED
    BY <2>3, <2>4, <2>5, <2>6 DEF RaceFits
<1>5. ASSUME NEW s \in Races
      PROVE  /\ Shrinks(s) /\ RaceFits(s)'
             /\ descriptor[s] # "unused" => descriptor'[s] # "unused"
             /\ MakingOf(s) => Stands(s) /\ descriptor'[s] = descriptor[s]
  <2>1. CASE s = r
    BY <2>1, <1>1, <1>2, <1>3, <1>4 DEF Shrinks
  <2>2. CASE s # r
    <3>1. Untouched(s)
      BY <2>2, <1>1, <1>2, <1>3 DEF Untouched, Stands
    <3>2. RaceFits(s) /\ (MakingOf(s) => MakingOf(s)')
      BY <1>1 DEF TreeInv, MakingOf
    <3>3. RaceFits(s)'
      BY <3>1, <3>2, UntouchedStays
    <3> QED
      BY <2>2, <1>3, <3>1, <3>3 DEF Untouched, Stands, Shrinks
  <2> QED
    BY <2>1, <2>2
<1> QED
  BY <1>1, <1>5, OutsideStep

(* The session manager lists no session race.json does not name.            *)
LEMMA SessionTrees ==
  ASSUME RaceInv, TreeInv, NEW r \in Races, NEW v \in Variants,
         Restart(r, v) \/ ResumeOrphan(r, v) \/ CloseSession(r, v)
  PROVE  TreeInv'
<1>1. /\ UNCHANGED <<descriptor, checkout, branch, merged, request, asked, lost, unread>>
      /\ \E state \in {"none", "stray"} : agent' = [agent EXCEPT ![r][v] = state]
  BY DEF Restart, ResumeOrphan, CloseSession, disk, git, past
<1>2. \A s \in Races, w \in Variants : agent'[s][w] = "listed" => agent[s][w] = "listed"
  BY <1>1 DEF RaceInv, TypeOK
<1>3. ASSUME NEW s \in Races
      PROVE  Shrinks(s) /\ RaceFits(s)' /\ (MakingOf(s) => Stands(s))
  <2>1. RaceFits(s) /\ (MakingOf(s) => MakingOf(s)')
    BY <1>1 DEF TreeInv, MakingOf
  <2>2. Shrinks(s) /\ Stands(s)
    BY <1>1, <1>2 DEF Shrinks, Stands
  <2>3. Housed(s)'
    BY <1>1, <1>2, <2>1 DEF RaceFits, Housed
  <2> QED
    BY <1>1, <2>1, <2>2, <2>3, RaceStays
<1> QED
  BY <1>1, <1>3, OutsideStep

(* The user's own git touches no worktree.                                  *)
LEMMA OutsideTrees ==
  ASSUME RaceInv, TreeInv, SwitchBranch \/ SettleConflict \/ UNCHANGED vars
  PROVE  TreeInv'
<1>1. /\ UNCHANGED <<descriptor, checkout, branch, agent, request, asked, lost, unread>>
      /\ \A s \in Races : merged[s] \subseteq merged'[s]
  <2>1. CASE SettleConflict
    BY <2>1 DEF SettleConflict, disk, past, RaceInv, TypeOK
  <2>2. CASE SwitchBranch \/ UNCHANGED vars
    BY <2>2 DEF SwitchBranch, vars, disk, git, past
  <2> QED
    BY <2>1, <2>2
<1>3. ASSUME NEW s \in Races
      PROVE  Shrinks(s) /\ RaceFits(s)' /\ (MakingOf(s) => Stands(s))
  <2>1. RaceFits(s) /\ (MakingOf(s) => MakingOf(s)')
    BY <1>1 DEF TreeInv, MakingOf
  <2>2. Shrinks(s) /\ Stands(s)
    BY <1>1 DEF Shrinks, Stands
  <2>3. Housed(s)'
    BY <1>1, <2>1 DEF RaceFits, Housed
  <2> QED
    BY <1>1, <2>1, <2>2, <2>3, RaceStays
<1> QED
  BY <1>1, <1>3, OutsideStep

(* A crash ends every handler and loses the races in the making.            *)
LEMMA CrashTrees ==
  ASSUME RaceInv, TreeInv, Crash
  PROVE  TreeInv'
<1>1. /\ UNCHANGED <<descriptor, checkout, branch, merged, asked, unread>>
      /\ lost' = lost \cup {r \in Races : MakingOf(r)}
      /\ \A q \in Requests : request'[q] = Idle
      /\ \A r \in Races, v \in Variants : agent'[r][v] # "listed"
  BY DEF Crash, disk, git
<1>2. MakerAlone'
  BY <1>1 DEF MakerAlone, Idle, Making
<1>3. ASSUME NEW p \in Requests PROVE Fits(request[p])'
  BY <1>1
  DEF Fits, MakerLoop, TearLoop, DiscardLoop, Discarding, Adopting, Reporting, Idle
<1>4. ASSUME NEW s \in Races PROVE RaceFits(s)'
  <2>1. RaceFits(s)
    BY DEF TreeInv
  <2>2. Shrinks(s) /\ Stands(s)
    BY <1>1 DEF Shrinks, Stands
  <2>3. Housed(s)'
    BY <1>1 DEF Housed
  <2>4. s \notin lost' => ~MakingOf(s)
    BY <1>1
  <2> QED
    BY <1>1, <2>1, <2>2, <2>3, <2>4, RaceStays
<1> QED
  BY <1>2, <1>3, <1>4 DEF TreeInv

(* TreeInv is inductive, RaceInv given.                                     *)
LEMMA TreeInvNext == RaceInv /\ TreeInv /\ [Next]_vars => TreeInv'
<1> SUFFICES ASSUME RaceInv, TreeInv, [Next]_vars PROVE TreeInv'
  OBVIOUS
<1>1. ASSUME NEW q \in Requests, NEW r \in Races,
             Create(q, r) \/ Discard(q, r) \/ DiscardUnread(q, r)
      PROVE  TreeInv'
  <2>1. PICK v : v \in Variants
    BY SomeVariant
  <2> QED
    BY <1>1, <2>1, CreateTrees, AskTrees, DiscardUnreadTrees
<1>2. ASSUME NEW q \in Requests, NEW r \in Races, NEW v \in Variants, Adopt(q, r, v)
      PROVE  TreeInv'
  BY <1>2, AskTrees
<1>3. ASSUME NEW q \in Requests, NEW v \in Variants,
             \/ AddVariant(q, v) \/ AddFails(q, v) \/ SessionRefused(q, v)
             \/ UndoVariant(q, v) \/ CloseNext(q, v) \/ Sweep(q, v)
      PROVE  TreeInv'
  BY <1>3, AddVariantTrees, RollingBackTrees, UndoVariantTrees, CloseNextTrees, SweepTrees
<1>4. ASSUME NEW q \in Requests,
             \/ FinishRollback(q) \/ SaveNew(q) \/ SaveNewFails(q)
             \/ Commit(q) \/ CheckBranch(q) \/ Merge(q) \/ Conflict(q) \/ MergeFails(q)
      PROVE  TreeInv'
  BY <1>4, FinishRollbackTrees, SaveNewTrees, MovesTrees, EndsTrees
<1>5. ASSUME NEW q \in Requests,
             \/ RemoveNext(q) \/ SaveAdopted(q) \/ SaveAdoptedFails(q)
             \/ ReadScores(q) \/ WriteScores(q) \/ Silence(q) \/ Drop(q)
      PROVE  TreeInv'
  BY <1>5, RemoveNextTrees, SaveAdoptedTrees, EndsTrees, ScoresTrees, SilenceTrees,
     DropTrees
<1>6. ASSUME NEW r \in Races, NEW v \in Variants,
             Restart(r, v) \/ ResumeOrphan(r, v) \/ CloseSession(r, v)
      PROVE  TreeInv'
  BY <1>6, SessionTrees
<1>7. CASE Crash \/ SwitchBranch \/ SettleConflict \/ UNCHANGED vars
  BY <1>7, CrashTrees, OutsideTrees
<1> QED
  BY <1>1, <1>2, <1>3, <1>4, <1>5, <1>6, <1>7 DEF Next

LEMMA TreeInvAlways == Spec => [](RaceInv /\ TreeInv)
  BY RaceInvInit, RaceInvNext, TreeInvInit, TreeInvNext, PTL DEF Spec

(* What TreeInv says of each race is the four properties.                   *)
LEMMA TreesAre ==
  ASSUME TreeInv
  PROVE  WorkIsKept /\ AdoptionClosesAll /\ DroppedIsGone /\ AgentsHaveTheirTree
<1>1. ASSUME NEW r \in Races PROVE Work(r) /\ Clean(r) /\ Housed(r)
  BY DEF TreeInv, RaceFits
<1>2. WorkIsKept
  BY <1>1 DEF WorkIsKept, Work
<1>3. AdoptionClosesAll
  BY <1>1 DEF AdoptionClosesAll, Clean, Cleared, Gone
<1>4. DroppedIsGone
  BY <1>1 DEF DroppedIsGone, Clean, Cleared, Gone
<1>5. AgentsHaveTheirTree
  BY <1>1 DEF AgentsHaveTheirTree, Housed
<1> QED
  BY <1>2, <1>3, <1>4, <1>5

(* Until a variant is merged or somebody asks to discard the race, its      *)
(* worktrees and branches are all there, whatever failed, crashed or was    *)
(* going on at the same time.                                               *)
THEOREM WorkStays == Spec => []WorkIsKept
  BY TreeInvAlways, TreesAre, PTL

(* An adopted race has no worktree and no session of its own left.          *)
THEOREM AdoptionsClose == Spec => []AdoptionClosesAll
  BY TreeInvAlways, TreesAre, PTL

(* So has one that was rolled back or discarded.                            *)
THEOREM DropsAreClean == Spec => []DroppedIsGone
  BY TreeInvAlways, TreesAre, PTL

(* No worktree is removed under a session the race started.                 *)
THEOREM AgentsKeepTheirTree == Spec => []AgentsHaveTheirTree
  BY TreeInvAlways, TreesAre, PTL

==============================================================================
