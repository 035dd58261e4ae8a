--------------------------- MODULE AutoResumeProofs ---------------------------
(* What holds of AutoResume for every number of sessions and any settings.  *)
EXTENDS AutoResume, TLAPS

(* A sweep that is about to type has typed nothing in this stagger: it saw  *)
(* no recent release when it last looked, and only sweeps release, one at a *)
(* time. Without a stagger each sweep starts from nothing released.         *)
SweepShape == sweep = [stage |-> sweep.stage, live |-> sweep.live,
                       due |-> sweep.due, plan |-> sweep.plan]
ReleaseMarked == Stagger /\ released # 0 => justFired = TRUE
NothingBefore ==
  /\ sweep.stage # "off" /\ ~Stagger => released = 0
  /\ sweep.stage = "asking" => released = 0
Releases == /\ SweepShape
            /\ released \in {0, 1}
            /\ ReleaseMarked
            /\ NothingBefore

LEMMA ReleasesInit == Init => Releases
  BY DEF Init, Releases, SweepShape, ReleaseMarked, NothingBefore, NoSweep

(* The steps that release nothing and leave the sweep where it is.          *)
LEMMA ReleasesElsewhere ==
  ASSUME Releases, UNCHANGED <<sweep, justFired, released>>
  PROVE  Releases'
  BY DEF Releases, SweepShape, ReleaseMarked, NothingBefore

(* The steps of a sweep that release nothing and do not end up asking.      *)
LEMMA ReleasesKept ==
  ASSUME Releases, UNCHANGED <<justFired, released>>,
         SweepShape', sweep'.stage # "asking",
         sweep'.stage # "off" => sweep.stage # "off"
  PROVE  Releases'
  BY DEF Releases, ReleaseMarked, NothingBefore

LEMMA SweepKeepsReleases == Releases /\ Sweep => Releases'
<1> SUFFICES ASSUME Releases, Sweep PROVE Releases'
  OBVIOUS
<1>s. SweepShape /\ released \in {0, 1} /\ ReleaseMarked /\ NothingBefore
  BY DEF Releases
<1>1. CASE SweepStarts
  BY <1>1, <1>s DEF SweepStarts, NoSweep, Releases, SweepShape, ReleaseMarked, NothingBefore
<1>2. CASE Resolve
  <2>1. PICK h \in Undated : sweep' = [sweep EXCEPT !.stage = "resolving", !.plan = h]
    BY <1>2 DEF Resolve
  <2>2. SweepShape' /\ sweep'.stage = "resolving"
    BY <2>1, <1>s DEF SweepShape
  <2> QED
    BY <1>2, <2>2, ReleasesKept DEF Resolve, history
<1>3. CASE Resolved
  <2>1. SweepShape' /\ sweep'.stage = "collect"
    BY <1>3, <1>s DEF SweepShape, Resolved
  <2> QED
    BY <1>3, <2>1, ReleasesKept DEF Resolved, history
<1>4. CASE CollectDue
  <2>1. SweepShape' /\ sweep'.stage = "fire"
    BY <1>4, <1>s DEF SweepShape, CollectDue
  <2> QED
    BY <1>4, <2>1, ReleasesKept DEF CollectDue, history
<1>5. CASE SweepEnds
  <2>1. SweepShape' /\ sweep'.stage = "off"
    BY <1>5 DEF SweepShape, SweepEnds, NoSweep
  <2> QED
    BY <1>5, <2>1, ReleasesKept DEF SweepEnds, history
<1>6. CASE SweepHeldUp
  <2>1. SweepShape' /\ sweep'.stage = "fire"
    BY <1>6, <1>s DEF SweepShape, SweepHeldUp, GoOn
  <2> QED
    BY <1>6, <2>1, ReleasesKept DEF SweepHeldUp, history
<1>7. CASE SweepTypes
  <2>1. released = 0
    BY <1>7, <1>s DEF SweepTypes, NothingBefore
  <2>2. released' = 1 /\ justFired' = TRUE /\ sweep' = NoSweep
    BY <1>7, <2>1 DEF SweepTypes
  <2> QED
    BY <2>2 DEF Releases, SweepShape, ReleaseMarked, NothingBefore, NoSweep
<1>8. ASSUME NEW h \in sweep.due, SweepRefuses(h) PROVE Releases'
  <2>1. SweepShape' /\ sweep'.stage = "fire"
    BY <1>8, <1>s DEF SweepShape, SweepRefuses
  <2> QED
    BY <1>8, <2>1, ReleasesKept DEF SweepRefuses, history
<1>9. ASSUME NEW h \in sweep.due, SweepAsks(h) PROVE Releases'
  <2>1. SweepShape' /\ sweep.stage = "fire" /\ UNCHANGED <<justFired, released>>
    BY <1>9, <1>s DEF SweepShape, SweepAsks, history
  <2>2. released = 0
    BY <1>9, <1>s, <2>1 DEF SweepAsks, TooSoon, ReleaseMarked, NothingBefore
  <2> QED
    BY <1>s, <2>1, <2>2 DEF Releases, ReleaseMarked, NothingBefore
<1> QED
  BY <1>1, <1>2, <1>3, <1>4, <1>5, <1>6, <1>7, <1>8, <1>9 DEF Sweep

LEMMA OthersKeepReleases ==
  ASSUME Releases, NEW s \in Sessions, Human(s) \/ Outside(s) \/ Clock(s)
  PROVE  Releases'
<1>1. UNCHANGED <<sweep, justFired, released>>
  <2>1. CASE Human(s)
    BY <2>1 DEF Human, ResumeNow, PressPostponed, PressTurned, PressTypes,
                PressAnswered, Cancel, history
  <2>2. CASE Outside(s)
    BY <2>2 DEF Outside, Prints, Refresh, Arm, Starts, Prompts, Answered, Becomes,
                Lock, Exits, Closes, Ends, history
  <2>3. CASE Clock(s)
    BY <2>3 DEF Clock, PlanAges, CooldownEnds, Settles, history
  <2> QED
    BY <2>1, <2>2, <2>3
<1> QED
  BY <1>1, ReleasesElsewhere

LEMMA ReleasesStep == Releases /\ [Next]_vars => Releases'
<1> SUFFICES ASSUME Releases, [Next]_vars PROVE Releases'
  OBVIOUS
<1>1. CASE Sweep
  BY <1>1, SweepKeepsReleases
<1>2. CASE UpdateSettings
  BY <1>2, ReleasesElsewhere DEF UpdateSettings, history
<1>3. CASE StaggerEnds
  BY <1>3 DEF StaggerEnds, Releases, SweepShape, ReleaseMarked, NothingBefore
<1>4. ASSUME NEW s \in Sessions, Human(s) \/ Outside(s) \/ Clock(s) PROVE Releases'
  BY <1>4, OthersKeepReleases
<1>5. CASE UNCHANGED vars
  BY <1>5, ReleasesElsewhere DEF vars, history
<1> QED
  BY <1>1, <1>2, <1>3, <1>4, <1>5 DEF Next

(* However many sessions fall due together, and however sweeps, presses and *)
(* slow reads interleave, sweeps type one prompt per stagger, or one per    *)
(* sweep where no stagger is set (tick's break and its check of             *)
(* _lastFiredAt).                                                           *)
THEOREM ReleasesOneByOne == Spec => []OneReleaseAtATime
<1>1. Releases => OneReleaseAtATime
  BY DEF Releases, OneReleaseAtATime
<1> QED
  BY <1>1, ReleasesInit, ReleasesStep, PTL DEF Spec

-----------------------------------------------------------------------------
(* What a cancel means for the objects that sweeps and presses hold: none of *)
(* them is the session's, and the one the map has stays cancelled as long as *)
(* the cooldown does. That an object belongs to one session (Linked) is why  *)
(* nothing that happens to another session changes this.                     *)
Plans == [of : Sessions, state : {"armed", "waiting", "expired", "sent", "cancelled"},
          attempts : Nat, due : {"unknown", "ahead", "reached"},
          waited : {"no", "some", "enough"}, cooling : BOOLEAN]
Sweeps == [stage : {"off", "collect", "resolving", "fire", "asking"},
           live : SUBSET Handles, due : SUBSET Handles, plan : Handles \cup {NoPlan}]

Typed ==
  /\ status \in [Sessions -> {"starting", "ready", "awaiting-permission", "exited", "gone"}]
  /\ plans \in [Sessions -> Handles \cup {NoPlan}]
  /\ press \in [Sessions -> Handles \cup {NoPlan}]
  /\ heap \in [Handles -> Plans \cup {Blank}]
  /\ typed \in [Sessions -> Nat] /\ cancelled \in [Sessions -> BOOLEAN]
  /\ sweep \in Sweeps /\ sweep.due \subseteq sweep.live
  /\ sweep.stage \in {"resolving", "asking"} => sweep.plan \in sweep.live
  /\ sweep.stage = "off" => sweep.live = {}

Linked ==
  /\ \A h \in Reachable \cap Handles : heap[h] \in Plans
  /\ \A s \in Sessions : plans[s] # NoPlan => PlanOf(s).of = s
  /\ \A s \in Sessions : press[s] # NoPlan => heap[press[s]].of = s

CancelHolds(s) ==
  /\ press[s] = NoPlan
  /\ \A h \in sweep.live : heap[h].of # s
  /\ plans[s] = NoPlan => ~Running(s)
  /\ plans[s] # NoPlan => PlanOf(s).state = "cancelled" /\ PlanOf(s).cooling
Cancels == \A s \in Sessions : cancelled[s] => CancelHolds(s)

Sound == Typed /\ Linked /\ Cancels

LEMMA SoundInit == Init => Sound
BY NoPlanIsNoHandle DEF Init, Sound, Typed, Linked, Cancels, Sweeps, NoSweep, Reachable

(* Store keeps the objects that remain reachable as they are given to it.    *)
LEMMA StoreSame ==
  ASSUME Sound, Store(heap), Reachable' \cap Handles \subseteq Reachable
  PROVE  /\ heap' \in [Handles -> Plans \cup {Blank}]
         /\ \A h \in Reachable' \cap Handles : heap'[h] \in Plans /\ heap'[h] = heap[h]
BY DEF Sound, Typed, Linked, Store

LEMMA StoreOne ==
  ASSUME Sound, NEW x \in Handles, NEW p \in Plans, Store([heap EXCEPT ![x] = p]),
         Reachable' \cap Handles \subseteq Reachable
  PROVE  /\ heap' \in [Handles -> Plans \cup {Blank}]
         /\ \A h \in Reachable' \cap Handles :
              heap'[h] \in Plans /\ heap'[h] = IF h = x THEN p ELSE heap[h]
<1> DEFINE objects == [heap EXCEPT ![x] = p]
<1>1. objects \in [Handles -> Plans \cup {Blank}] /\ \A h \in Handles :
        objects[h] = IF h = x THEN p ELSE heap[h]
  BY DEF Sound, Typed
<1>2. heap' = [h \in Handles |-> IF h \in Reachable' THEN objects[h] ELSE Blank]
  BY DEF Store
<1> HIDE DEF objects
<1> QED
  BY <1>1, <1>2 DEF Sound, Linked

(* Most steps let go of objects at most, keep each with its session, and     *)
(* leave those alone that are under a cancel.                                *)
LEMMA Quiet ==
  ASSUME Sound, Typed',
         \A s \in Sessions : plans'[s] = plans[s] \/ (plans'[s] = NoPlan /\ ~Running(s)'),
         \A s \in Sessions : press'[s] \in {press[s], NoPlan},
         sweep'.live \subseteq sweep.live,
         \A s \in Sessions : Running(s)' => Running(s),
         \A s \in Sessions : cancelled'[s] => cancelled[s],
         \A h \in Reachable' \cap Handles : heap'[h] \in Plans /\ heap'[h].of = heap[h].of,
         \A s \in Sessions : cancelled'[s] /\ plans[s] # NoPlan /\ plans[s] \in Reachable' =>
           heap'[plans[s]].state = PlanOf(s).state /\ heap'[plans[s]].cooling = PlanOf(s).cooling
  PROVE  Sound'
<1>1. Reachable' \cap Handles \subseteq Reachable
  BY NoPlanIsNoHandle DEF Reachable, Sound, Typed
<1>2. /\ \A s \in Sessions : plans'[s] \in Reachable' /\ press'[s] \in Reachable'
      /\ sweep'.live \subseteq Reachable'
      /\ NoPlan \notin Handles
  BY NoPlanIsNoHandle DEF Reachable
<1>3. Linked'
  <2>1. \A h \in Reachable' \cap Handles : heap'[h] \in Plans
    OBVIOUS
  <2>2. ASSUME NEW s \in Sessions, plans'[s] # NoPlan PROVE heap'[plans'[s]].of = s
    <3>1. plans'[s] = plans[s] /\ plans[s] \in Reachable' \cap Handles
      BY <1>2, <2>2 DEF Sound, Typed
    <3> QED
      BY <2>2, <3>1 DEF Sound, Linked, PlanOf
  <2>3. ASSUME NEW s \in Sessions, press'[s] # NoPlan PROVE heap'[press'[s]].of = s
    <3>1. press'[s] = press[s] /\ press[s] \in Reachable' \cap Handles
      BY <1>2, <2>3 DEF Sound, Typed
    <3> QED
      BY <2>3, <3>1 DEF Sound, Linked
  <2> QED
    BY <2>1, <2>2, <2>3 DEF Linked, PlanOf
<1>4. ASSUME NEW s \in Sessions, cancelled'[s] PROVE CancelHolds(s)'
  <2>1. CancelHolds(s)
    BY <1>4 DEF Sound, Cancels
  <2>2. press'[s] = NoPlan /\ (plans'[s] = NoPlan => ~Running(s)')
    BY <2>1 DEF CancelHolds
  <2>3. \A h \in sweep'.live : heap'[h].of # s
    BY <1>2, <2>1 DEF CancelHolds, Typed, Sweeps
  <2>4. plans'[s] # NoPlan => heap'[plans'[s]].state = "cancelled" /\ heap'[plans'[s]].cooling
    BY <1>2, <1>4, <2>1 DEF CancelHolds, PlanOf
  <2> QED
    BY <2>2, <2>3, <2>4 DEF CancelHolds, PlanOf
<1> QED
  BY <1>3, <1>4 DEF Sound, Cancels

(* Steps that leave the plans and their objects alone.                       *)
LEMMA Unmoved ==
  ASSUME Sound, Typed', UNCHANGED <<plans, heap, press, cancelled>>,
         sweep'.live \subseteq sweep.live,
         \A s \in Sessions : Running(s)' => Running(s)
  PROVE  Sound'
<1>1. Reachable' \subseteq Reachable
  BY DEF Reachable
<1> QED
  BY <1>1, Quiet DEF Sound, Linked, PlanOf

LEMMA OutsideUnmoved ==
  ASSUME Sound, NEW s \in Sessions,
         \/ Prints(s) \/ Starts(s) \/ Prompts(s) \/ Answered(s) \/ Lock(s) \/ Settles(s)
         \/ StaggerEnds \/ UpdateSettings
  PROVE  Sound'
<1>1. UNCHANGED <<plans, heap, press, cancelled, sweep, typed>>
  BY DEF Prints, Starts, Prompts, Answered, Becomes, Lock, Settles, StaggerEnds,
         UpdateSettings, session, history
<1>2. /\ status' \in [Sessions -> {"starting", "ready", "awaiting-permission", "exited", "gone"}]
      /\ \A r \in Sessions : Running(r)' => Running(r)
  BY DEF Prints, Starts, Prompts, Answered, Becomes, Lock, Settles, StaggerEnds,
         UpdateSettings, session, Sound, Typed, Running
<1> QED
  BY <1>1, <1>2, Unmoved DEF Sound, Typed

(* A sweep that starts takes plans that are pending, so none that a cancel   *)
(* has put to rest.                                                          *)
LEMMA SweepStartsSound == ASSUME Sound, SweepStarts PROVE Sound'
<1>1. /\ sweep' \in Sweeps /\ sweep'.stage = "collect" /\ sweep'.live = Live /\ sweep'.due = {}
      /\ UNCHANGED <<status, plans, heap, press, typed, cancelled>>
  <2>1. Live \subseteq Handles
    BY DEF Live, Has, Sound, Typed
  <2> QED
    BY <2>1 DEF SweepStarts, NoSweep, Sweeps, session
<1>2. Typed'
  BY <1>1 DEF Sound, Typed
<1>3. Live \subseteq Reachable
  BY DEF Live, Reachable
<1>4. Linked'
  BY <1>1, <1>3 DEF Sound, Linked, Reachable, PlanOf
<1>5. ASSUME NEW s \in Sessions, cancelled[s], NEW h \in Live PROVE heap[h].of # s
  <2>1. PICK r \in Sessions : h = plans[r] /\ Has(r) /\ PlanOf(r).state \in Pending
    BY DEF Live
  <2>2. heap[h].of = r
    BY <2>1 DEF Sound, Linked, Has, PlanOf
  <2>3. CancelHolds(s)
    BY <1>5 DEF Sound, Cancels
  <2> QED
    BY <2>1, <2>2, <2>3 DEF CancelHolds, Has, Pending
<1> QED
  BY <1>1, <1>2, <1>4, <1>5 DEF Sound, Cancels, CancelHolds, PlanOf, Running

LEMMA ResolveSound == ASSUME Sound, Resolve PROVE Sound'
<1>1. PICK h \in Undated : sweep' = [sweep EXCEPT !.stage = "resolving", !.plan = h]
  BY DEF Resolve
<1>2. h \in sweep.live
  BY DEF Undated, Listed
<1>3. /\ sweep' \in Sweeps /\ sweep'.live = sweep.live /\ sweep'.due = sweep.due
      /\ sweep'.stage = "resolving" /\ sweep'.plan = h
  BY <1>1, <1>2 DEF Sound, Typed, Sweeps
<1>4. Typed' /\ UNCHANGED <<status, plans, heap, press, cancelled>>
  BY <1>2, <1>3 DEF Resolve, Sound, Typed, session, history
<1> QED
  BY <1>3, <1>4, Unmoved DEF Running

LEMMA CollectDueSound == ASSUME Sound, CollectDue PROVE Sound'
<1>1. /\ sweep' \in Sweeps /\ sweep'.live = sweep.live /\ sweep'.due \subseteq sweep.live
      /\ sweep'.stage = "fire"
  BY DEF CollectDue, Sound, Typed, Sweeps, Listed
<1>2. Typed' /\ UNCHANGED <<status, plans, heap, press, cancelled>>
  BY <1>1 DEF CollectDue, Sound, Typed, session, history
<1> QED
  BY <1>1, <1>2, Unmoved DEF Running

LEMMA SweepAsksSound == ASSUME Sound, NEW h \in sweep.due, SweepAsks(h) PROVE Sound'
<1>1. /\ sweep' \in Sweeps /\ sweep'.live = sweep.live /\ sweep'.due \subseteq sweep.live
      /\ sweep'.stage = "asking" /\ sweep'.plan = h /\ h \in sweep.live
  BY DEF SweepAsks, Sound, Typed, Sweeps
<1>2. Typed' /\ UNCHANGED <<status, plans, heap, press, cancelled>>
  BY <1>1 DEF SweepAsks, Sound, Typed, session, history
<1> QED
  BY <1>1, <1>2, Unmoved DEF Running

(* A sweep changes the objects it holds, which are of sessions under no      *)
(* cancel, and ends or goes on.                                              *)
LEMMA SweepMovesOne ==
  ASSUME Sound, NEW x \in sweep.live, NEW p \in Plans, p.of = heap[x].of,
         Store([heap EXCEPT ![x] = p]), UNCHANGED <<status, press, cancelled>>,
         plans' = plans, typed' \in [Sessions -> Nat],
         sweep' \in Sweeps, sweep'.due \subseteq sweep'.live, sweep'.live \subseteq sweep.live,
         sweep'.stage \notin {"resolving", "asking"},
         sweep'.stage = "off" => sweep'.live = {}
  PROVE  Sound'
<1>1. Reachable' \cap Handles \subseteq Reachable /\ x \in Handles
  BY DEF Reachable, Sound, Typed, Sweeps
<1>2. /\ heap' \in [Handles -> Plans \cup {Blank}]
      /\ \A h \in Reachable' \cap Handles :
           heap'[h] \in Plans /\ heap'[h] = IF h = x THEN p ELSE heap[h]
  BY <1>1, StoreOne
<1>3. Typed'
  BY <1>2 DEF Sound, Typed
<1>4. ASSUME NEW s \in Sessions, cancelled'[s], plans[s] # NoPlan PROVE plans[s] # x
  BY <1>4 DEF Sound, Linked, Cancels, CancelHolds, PlanOf
<1>5. \A s \in Sessions : cancelled'[s] /\ plans[s] # NoPlan /\ plans[s] \in Reachable' =>
        heap'[plans[s]] = PlanOf(s)
  BY <1>2, <1>4 DEF Sound, Typed, PlanOf
<1> QED
  BY <1>2, <1>3, <1>5, Quiet DEF Running

LEMMA HeldObject ==
  ASSUME Sound, NEW h \in sweep.live
  PROVE  h \in Handles /\ heap[h] \in Plans
BY DEF Sound, Typed, Linked, Sweeps, Reachable

LEMMA PlanTypes ==
  ASSUME NEW p \in Plans
  PROVE  /\ Postponed(p) \in Plans /\ Postponed(p).of = p.of
         /\ Turned(p) \in Plans /\ Turned(p).of = p.of
         /\ Sent(p) \in Plans /\ Sent(p).of = p.of
         /\ Refused(p) \in Plans /\ Refused(p).of = p.of
<1>1. HeldBack(p) \in Plans /\ HeldBack(p).of = p.of
  BY DEF HeldBack, Plans
<1>2. Postponed(p) \in Plans /\ Postponed(p).of = p.of
  BY DEF Postponed, Plans
<1>3. Turned(p) \in Plans /\ Turned(p).of = p.of
  BY DEF Turned, Plans
<1>4. Sent(p) \in Plans /\ Sent(p).of = p.of
  <2> DEFINE q == [p EXCEPT !.state = "sent"]
  <2>1. q \in Plans /\ q.of = p.of
    BY DEF Plans
  <2>2. Sent(p) = [q EXCEPT !.attempts = @ + 1]
    BY DEF Sent
  <2> HIDE DEF q
  <2> QED
    BY <2>1, <2>2 DEF Plans
<1>5. [p EXCEPT !.state = "expired"] \in Plans /\ [p EXCEPT !.state = "expired"].of = p.of
  BY DEF Plans
<1> QED
  BY <1>1, <1>2, <1>3, <1>4, <1>5 DEF Refused

LEMMA SweepHeldUpSound == ASSUME Sound, SweepHeldUp PROVE Sound'
<1>1. sweep.plan \in sweep.live
  BY DEF SweepHeldUp, Sound, Typed
<1>2. heap[sweep.plan] \in Plans
  BY <1>1, HeldObject
<1>3. PICK p \in Plans : p.of = heap[sweep.plan].of /\ Store([heap EXCEPT ![sweep.plan] = p])
  BY <1>2, PlanTypes DEF SweepHeldUp
<1>4. /\ sweep' \in Sweeps /\ sweep'.live = sweep.live /\ sweep'.due \subseteq sweep.live
      /\ sweep'.stage = "fire"
  BY DEF SweepHeldUp, GoOn, Sound, Typed, Sweeps
<1>5. UNCHANGED <<status, press, cancelled, plans, typed>>
  BY DEF SweepHeldUp, session, history
<1> QED
  BY <1>1, <1>3, <1>4, <1>5, SweepMovesOne DEF Sound, Typed

LEMMA SweepTypesSound == ASSUME Sound, SweepTypes PROVE Sound'
<1>1. sweep.plan \in sweep.live
  BY DEF SweepTypes, Sound, Typed
<1>2. heap[sweep.plan] \in Plans
  BY <1>1, HeldObject
<1>3. PICK p \in Plans : p.of = heap[sweep.plan].of /\ Store([heap EXCEPT ![sweep.plan] = p])
  BY <1>2, PlanTypes DEF SweepTypes
<1>4. sweep' \in Sweeps /\ sweep'.live = {} /\ sweep'.due = {} /\ sweep'.stage = "off"
  BY DEF SweepTypes, NoSweep, Sweeps
<1>5. UNCHANGED <<status, press, cancelled, plans>>
  BY DEF SweepTypes, session
<1>6. typed' \in [Sessions -> Nat]
  BY <1>2 DEF SweepTypes, Sound, Typed, Plans
<1> QED
  BY <1>1, <1>3, <1>4, <1>5, <1>6, SweepMovesOne

LEMMA ResolvedSound == ASSUME Sound, Resolved PROVE Sound'
<1>1. sweep.plan \in sweep.live
  BY DEF Resolved, Sound, Typed
<1>2. heap[sweep.plan] \in Plans /\ sweep.plan \in Handles
  BY <1>1, HeldObject
<1>3. PICK due \in {"ahead", "reached"} : heap' = [heap EXCEPT ![sweep.plan].due = due]
  BY DEF Resolved
<1>4. /\ sweep' \in Sweeps /\ sweep'.live = sweep.live /\ sweep'.due = sweep.due
      /\ sweep'.stage = "collect"
  BY DEF Resolved, Sound, Typed, Sweeps
<1>5. UNCHANGED <<status, press, cancelled, plans, typed>>
  BY DEF Resolved, session, history
<1>6. /\ [heap[sweep.plan] EXCEPT !.due = due] \in Plans
      /\ [heap[sweep.plan] EXCEPT !.due = due].of = heap[sweep.plan].of
      /\ [heap[sweep.plan] EXCEPT !.due = due].state = heap[sweep.plan].state
      /\ [heap[sweep.plan] EXCEPT !.due = due].cooling = heap[sweep.plan].cooling
  BY <1>2 DEF Plans
<1>7. /\ heap' \in [Handles -> Plans \cup {Blank}]
      /\ heap'[sweep.plan] = [heap[sweep.plan] EXCEPT !.due = due]
      /\ \A h \in Handles \ {sweep.plan} : heap'[h] = heap[h]
  BY <1>2, <1>3, <1>6 DEF Sound, Typed
<1>8. Typed' /\ Reachable' = Reachable
  BY <1>4, <1>5, <1>7 DEF Sound, Typed, Reachable
<1>9. \A h \in Reachable \cap Handles : /\ heap'[h] \in Plans /\ heap'[h].of = heap[h].of
                                       /\ heap'[h].state = heap[h].state
                                       /\ heap'[h].cooling = heap[h].cooling
  BY <1>6, <1>7 DEF Sound, Linked
<1> QED
  BY <1>4, <1>5, <1>8, <1>9, Quiet DEF Sound, Typed, PlanOf, Running

LEMMA SweepEndsSound == ASSUME Sound, SweepEnds PROVE Sound'
<1>1. /\ sweep' \in Sweeps /\ sweep'.live = {} /\ sweep'.due = {} /\ sweep'.stage = "off"
      /\ UNCHANGED <<status, press, cancelled, plans, typed>> /\ Store(heap)
  BY DEF SweepEnds, NoSweep, Sweeps, session, history
<1>2. Reachable' \cap Handles \subseteq Reachable
  BY <1>1 DEF Reachable
<1>3. /\ heap' \in [Handles -> Plans \cup {Blank}]
      /\ \A h \in Reachable' \cap Handles : heap'[h] \in Plans /\ heap'[h] = heap[h]
  BY <1>1, <1>2, StoreSame
<1>4. Typed'
  BY <1>1, <1>3 DEF Sound, Typed
<1> QED
  BY <1>1, <1>3, <1>4, Quiet DEF Sound, Typed, PlanOf, Running

(* A session that is no longer running loses its plan.                       *)
LEMMA LetGoSound ==
  ASSUME Sound, NEW s \in Sessions, plans' = [plans EXCEPT ![s] = NoPlan], ~Running(s)',
         Store(heap), UNCHANGED <<press, cancelled, typed>>,
         \A r \in Sessions : Running(r)' => Running(r),
         status' \in [Sessions -> {"starting", "ready", "awaiting-permission", "exited", "gone"}],
         sweep' \in Sweeps, sweep'.due \subseteq sweep.live, sweep'.live = sweep.live,
         sweep'.stage \in {"resolving", "asking"} => sweep'.plan \in sweep.live,
         sweep'.stage = "off" => sweep.live = {}
  PROVE  Sound'
<1>1. Reachable' \cap Handles \subseteq Reachable
  BY NoPlanIsNoHandle DEF Reachable, Sound, Typed
<1>2. /\ heap' \in [Handles -> Plans \cup {Blank}]
      /\ \A h \in Reachable' \cap Handles : heap'[h] \in Plans /\ heap'[h] = heap[h]
  BY <1>1, StoreSame
<1>3. Typed'
  BY <1>2 DEF Sound, Typed
<1>4. \A r \in Sessions : plans'[r] = plans[r] \/ (plans'[r] = NoPlan /\ ~Running(r)')
  BY DEF Sound, Typed
<1>5. \A r \in Sessions : cancelled'[r] /\ plans[r] # NoPlan /\ plans[r] \in Reachable' =>
        heap'[plans[r]] = PlanOf(r)
  BY <1>2 DEF Sound, Typed, PlanOf
<1> QED
  BY <1>2, <1>3, <1>4, <1>5, Quiet

LEMMA SweepRefusesSound == ASSUME Sound, NEW h \in sweep.due, SweepRefuses(h) PROVE Sound'
<1>1. h \in sweep.live /\ h \in Handles /\ heap[h] \in Plans
  BY HeldObject DEF Sound, Typed
<1>2. /\ sweep' \in Sweeps /\ sweep'.live = sweep.live /\ sweep'.due \subseteq sweep.live
      /\ sweep'.stage = "fire"
  BY DEF SweepRefuses, Sound, Typed, Sweeps
<1>3. UNCHANGED <<status, press, cancelled, typed>> /\ heap[h].of \in Sessions
  BY <1>1 DEF SweepRefuses, session, history, Plans
<1>4. CASE Running(heap[h].of)
  <2>1. plans' = plans /\ Store([heap EXCEPT ![h] = Refused(heap[h])])
    BY <1>4 DEF SweepRefuses
  <2> QED
    BY <1>1, <1>2, <1>3, <2>1, PlanTypes, SweepMovesOne DEF Sound, Typed
<1>5. CASE ~Running(heap[h].of)
  <2>1. plans' = [plans EXCEPT ![heap[h].of] = NoPlan] /\ Store(heap)
    BY <1>5 DEF SweepRefuses
  <2>2. \A r \in Sessions : Running(r)' <=> Running(r)
    BY <1>3 DEF Running
  <2> QED
    BY <1>2, <1>3, <1>5, <2>1, <2>2, LetGoSound DEF Sound, Typed
<1> QED
  BY <1>4, <1>5

LEMMA EndsSound == ASSUME Sound, NEW s \in Sessions, Exits(s) \/ Closes(s) PROVE Sound'
<1>1. PICK to \in {"exited", "gone"} : Ends(s, to)
  BY DEF Exits, Closes
<1>2. /\ status' \in [Sessions -> {"starting", "ready", "awaiting-permission", "exited", "gone"}]
      /\ ~Running(s)' /\ \A r \in Sessions : Running(r)' => Running(r)
  BY <1>1 DEF Ends, Running, Sound, Typed
<1>3. /\ plans' = [plans EXCEPT ![s] = NoPlan] /\ Store(heap)
      /\ UNCHANGED <<press, cancelled, typed, sweep>>
  BY <1>1 DEF Ends, history
<1> QED
  BY <1>2, <1>3, LetGoSound DEF Sound, Typed

(* A press has ended: no cancel stands while one is under way.               *)
LEMMA PressAnsweredSound ==
  ASSUME Sound, NEW s \in Sessions, PressPostponed(s) \/ PressTurned(s) \/ PressTypes(s)
  PROVE  Sound'
<1> DEFINE x == press[s]
<1>1. x \in Handles /\ x \in Reachable /\ heap[x] \in Plans /\ heap[x].of = s
  BY DEF PressPostponed, PressTurned, PressTypes, PressAnswered, Reachable, Sound, Typed, Linked
<1>2. PICK p \in Plans : p.of = s /\ PressAnswered(s, p)
  BY <1>1, PlanTypes DEF PressPostponed, PressTurned, PressTypes, PlanPressed
<1>3. /\ press' = [press EXCEPT ![s] = NoPlan] /\ Store([heap EXCEPT ![x] = p])
      /\ UNCHANGED <<status, plans, sweep, typed, cancelled>>
  BY <1>2 DEF PressAnswered, session, history
<1>4. Reachable' \cap Handles \subseteq Reachable
  BY <1>3, NoPlanIsNoHandle DEF Reachable, Sound, Typed
<1>5. /\ heap' \in [Handles -> Plans \cup {Blank}]
      /\ \A h \in Reachable' \cap Handles :
           heap'[h] \in Plans /\ heap'[h] = IF h = x THEN p ELSE heap[h]
  BY <1>1, <1>3, <1>4, StoreOne
<1>6. Typed' /\ \A r \in Sessions : press'[r] \in {press[r], NoPlan}
  BY <1>3, <1>5 DEF Sound, Typed
<1>7. ASSUME NEW r \in Sessions, cancelled[r], plans[r] # NoPlan PROVE plans[r] # x
  BY <1>1, <1>7, NoPlanIsNoHandle DEF Sound, Linked, Cancels, CancelHolds, PlanOf
<1>8. \A r \in Sessions : cancelled'[r] /\ plans[r] # NoPlan /\ plans[r] \in Reachable' =>
        heap'[plans[r]] = PlanOf(r)
  BY <1>3, <1>5, <1>7 DEF Sound, Typed, PlanOf
<1> HIDE DEF x
<1> QED
  BY <1>1, <1>2, <1>3, <1>5, <1>6, <1>8, Quiet DEF Running

(* The plan in the map changes, and a cancel keeps what it stands on.        *)
LEMMA PlanChanges ==
  ASSUME Sound, NEW s \in Sessions, Has(s), NEW p \in Plans, p.of = s,
         heap' = [heap EXCEPT ![plans[s]] = p],
         UNCHANGED <<status, plans, press, sweep, typed>>,
         cancelled' \in [Sessions -> BOOLEAN], \A r \in Sessions : cancelled'[r] => cancelled[r],
         cancelled'[s] => p.state = PlanOf(s).state /\ p.cooling = PlanOf(s).cooling
  PROVE  Sound'
<1>1. plans[s] \in Handles /\ Reachable' = Reachable
  BY DEF Has, Sound, Typed, Reachable
<1>2. /\ heap' \in [Handles -> Plans \cup {Blank}]
      /\ \A h \in Handles : heap'[h] = IF h = plans[s] THEN p ELSE heap[h]
  BY <1>1 DEF Sound, Typed
<1>3. Typed'
  BY <1>2 DEF Sound, Typed
<1>4. \A h \in Reachable \cap Handles : heap'[h] \in Plans /\ heap'[h].of = heap[h].of
  BY <1>2 DEF Sound, Linked, Has, PlanOf
<1>5. \A r \in Sessions : cancelled'[r] /\ plans[r] # NoPlan =>
        heap'[plans[r]].state = PlanOf(r).state /\ heap'[plans[r]].cooling = PlanOf(r).cooling
  <2> SUFFICES ASSUME NEW r \in Sessions, cancelled'[r], plans[r] # NoPlan
               PROVE  heap'[plans[r]].state = PlanOf(r).state
                      /\ heap'[plans[r]].cooling = PlanOf(r).cooling
    OBVIOUS
  <2>1. plans[r] \in Handles /\ (plans[r] = plans[s] => r = s)
    BY DEF Sound, Typed, Linked, Has, PlanOf
  <2> QED
    BY <1>2, <2>1 DEF PlanOf
<1> QED
  BY <1>1, <1>3, <1>4, <1>5, Quiet DEF Running

LEMMA MappedPlan ==
  ASSUME Sound, NEW s \in Sessions, Has(s)
  PROVE  PlanOf(s) \in Plans /\ PlanOf(s).of = s /\ plans[s] \in Handles
BY DEF Sound, Typed, Linked, Has, PlanOf, Reachable

LEMMA RefreshSound == ASSUME Sound, NEW s \in Sessions, Refresh(s) PROVE Sound'
<1> DEFINE p == [PlanOf(s) EXCEPT !.due = "ahead"]
<1>1. Has(s) /\ PlanOf(s) \in Plans /\ PlanOf(s).of = s
  BY MappedPlan DEF Refresh
<1>2. p \in Plans /\ p.of = s /\ p.state = PlanOf(s).state /\ p.cooling = PlanOf(s).cooling
  BY <1>1 DEF Plans
<1>3. heap' = [heap EXCEPT ![plans[s]] = p]
  BY DEF Refresh, PlanOf
<1>4. UNCHANGED <<status, plans, press, sweep, typed, cancelled>>
  BY DEF Refresh, history
<1> HIDE DEF p
<1> QED
  BY <1>1, <1>2, <1>3, <1>4, PlanChanges DEF Sound, Typed

LEMMA PlanAgesSound == ASSUME Sound, NEW s \in Sessions, PlanAges(s) PROVE Sound'
<1>1. Has(s) /\ PlanOf(s) \in Plans /\ PlanOf(s).of = s
  BY MappedPlan DEF PlanAges
<1>2. PICK p \in {[PlanOf(s) EXCEPT !.due = "reached"], [PlanOf(s) EXCEPT !.waited = "enough"]} :
        heap' = [heap EXCEPT ![plans[s]] = p]
  BY DEF PlanAges, PlanOf
<1>3. p \in Plans /\ p.of = s /\ p.state = PlanOf(s).state /\ p.cooling = PlanOf(s).cooling
  BY <1>1, <1>2 DEF Plans
<1>4. UNCHANGED <<status, plans, press, sweep, typed, cancelled>>
  BY DEF PlanAges, session, history
<1> QED
  BY <1>1, <1>2, <1>3, <1>4, PlanChanges DEF Sound, Typed

LEMMA CooldownEndsSound == ASSUME Sound, NEW s \in Sessions, CooldownEnds(s) PROVE Sound'
<1>1. /\ UNCHANGED <<status, plans, press, sweep, typed>>
      /\ cancelled' = [cancelled EXCEPT ![s] = FALSE]
  BY DEF CooldownEnds, session
<1>2. /\ cancelled' \in [Sessions -> BOOLEAN] /\ ~cancelled'[s]
      /\ \A r \in Sessions : cancelled'[r] => cancelled[r]
  BY <1>1 DEF Sound, Typed
<1>3. CASE Has(s)
  <2> DEFINE p == [PlanOf(s) EXCEPT !.cooling = FALSE]
  <2>1. PlanOf(s) \in Plans /\ PlanOf(s).of = s
    BY <1>3, MappedPlan
  <2>2. p \in Plans /\ p.of = s
    BY <2>1 DEF Plans
  <2>3. heap' = [heap EXCEPT ![plans[s]] = p]
    BY <1>3 DEF CooldownEnds, PlanOf
  <2> HIDE DEF p
  <2> QED
    BY <1>1, <1>2, <1>3, <2>2, <2>3, PlanChanges
<1>4. CASE ~Has(s)
  <2>1. heap' = heap /\ Reachable' = Reachable
    BY <1>1, <1>4 DEF CooldownEnds, Reachable
  <2>2. Typed'
    BY <1>1, <1>2, <2>1 DEF Sound, Typed
  <2> QED
    BY <1>1, <1>2, <2>1, <2>2, Quiet DEF Sound, Linked, PlanOf, Running
<1> QED
  BY <1>3, <1>4

(* A human cancels at rest: nobody holds an object then.                     *)
LEMMA CancelSound == ASSUME Sound, NEW s \in Sessions, Cancel(s) PROVE Sound'
<1> DEFINE q == [PlanOf(s) EXCEPT !.state = "cancelled"]
           p == [q EXCEPT !.cooling = TRUE]
<1>1. Has(s) /\ PlanOf(s) \in Plans /\ PlanOf(s).of = s /\ plans[s] \in Handles
  BY MappedPlan DEF Cancel
<1>2. q \in Plans /\ q.of = s /\ q.state = "cancelled"
  BY <1>1 DEF Plans
<1>3. p \in Plans /\ p.of = s /\ p.state = "cancelled" /\ p.cooling
  <2> HIDE DEF q
  <2> QED
    BY <1>2 DEF Plans
<1>4. /\ heap' \in [Handles -> Plans \cup {Blank}]
      /\ \A h \in Handles : heap'[h] = IF h = plans[s] THEN p ELSE heap[h]
  <2>1. heap' = [[heap EXCEPT ![plans[s]] = q] EXCEPT ![plans[s]] = [@ EXCEPT !.cooling = TRUE]]
    BY DEF Cancel, PlanOf
  <2> HIDE DEF q
  <2> QED
    BY <1>1, <1>2, <1>3, <2>1 DEF Sound, Typed
<1>5. /\ UNCHANGED <<status, plans, press, sweep, typed>>
      /\ cancelled' = [cancelled EXCEPT ![s] = sweep.stage = "off" /\ press[s] = NoPlan]
  BY DEF Cancel, session
<1> HIDE DEF p, q
<1>6. Typed' /\ Reachable' = Reachable
  BY <1>4, <1>5 DEF Sound, Typed, Reachable
<1>7. \A h \in Handles : heap'[h].of = heap[h].of
  BY <1>1, <1>3, <1>4 DEF PlanOf
<1>8. Linked'
  BY <1>3, <1>4, <1>5, <1>6, <1>7 DEF Sound, Typed, Linked, PlanOf
<1>9. ASSUME NEW r \in Sessions, cancelled'[r] PROVE CancelHolds(r)'
  <2>1. CASE r = s
    <3>1. sweep.live = {} /\ press[s] = NoPlan
      BY <1>5, <1>9, <2>1 DEF Sound, Typed
    <3> QED
      BY <1>1, <1>3, <1>4, <1>5, <2>1, <3>1 DEF CancelHolds, PlanOf, Has
  <2>2. CASE r # s
    <3>1. CancelHolds(r)
      BY <1>5, <1>9, <2>2 DEF Sound, Cancels, Typed
    <3>2. plans[r] # NoPlan => plans[r] \in Handles /\ plans[r] # plans[s]
      BY <1>1, <2>2 DEF Sound, Typed, Linked, PlanOf
    <3>3. sweep.live \subseteq Handles
      BY DEF Sound, Typed, Sweeps
    <3> QED
      BY <1>4, <1>5, <1>7, <3>1, <3>2, <3>3 DEF CancelHolds, PlanOf, Running
  <2> QED
    BY <2>1, <2>2
<1> QED
  BY <1>6, <1>8, <1>9 DEF Sound, Cancels

(* A plan is put in the map, where a cancel does not stand: a new object, or *)
(* the one that is there.                                                    *)
LEMMA PlanPut ==
  ASSUME Sound, NEW s \in Sessions, NEW h \in Handles, h = plans[s] \/ h \in Unused,
         NEW p \in Plans, p.of = s, Store([heap EXCEPT ![h] = p]),
         UNCHANGED <<status, sweep>>, typed' \in [Sessions -> Nat],
         NEW a \in {h, NoPlan}, plans' = [plans EXCEPT ![s] = a],
         NEW b \in {h, NoPlan, press[s]}, press' = [press EXCEPT ![s] = b],
         cancelled' \in [Sessions -> BOOLEAN], ~cancelled'[s],
         \A r \in Sessions : cancelled'[r] => cancelled[r]
  PROVE  Sound'
<1> DEFINE objects == [heap EXCEPT ![h] = p]
<1>1. objects \in [Handles -> Plans \cup {Blank}] /\ \A x \in Handles :
        objects[x] = IF x = h THEN p ELSE heap[x]
  BY DEF Sound, Typed
<1>2. heap' = [x \in Handles |-> IF x \in Reachable' THEN objects[x] ELSE Blank]
  BY DEF Store
<1> HIDE DEF objects
<1>3. heap' \in [Handles -> Plans \cup {Blank}] /\ \A x \in Reachable' \cap Handles :
        heap'[x] = IF x = h THEN p ELSE heap[x]
  BY <1>1, <1>2
<1>4. /\ \A r \in Sessions : plans'[r] = IF r = s THEN a ELSE plans[r]
      /\ \A r \in Sessions : press'[r] = IF r = s THEN b ELSE press[r]
      /\ plans' \in [Sessions -> Handles \cup {NoPlan}]
      /\ press' \in [Sessions -> Handles \cup {NoPlan}]
  BY DEF Sound, Typed
<1>5. \A x \in Reachable' \cap Handles : x = h \/ x \in Reachable
  BY <1>4, NoPlanIsNoHandle DEF Reachable
<1>6. Typed'
  BY <1>3, <1>4 DEF Sound, Typed
<1>7. \A r \in Sessions : r # s => plans[r] # h /\ press[r] # h
  BY NoPlanIsNoHandle DEF Unused, Reachable, Sound, Linked, PlanOf
<1>8. /\ \A r \in Sessions : plans'[r] \in Reachable' /\ press'[r] \in Reachable'
      /\ sweep'.live \subseteq Reachable'
  BY DEF Reachable
<1>9. Linked'
  <2>1. \A x \in Reachable' \cap Handles : heap'[x] \in Plans
    BY <1>3, <1>5 DEF Sound, Linked
  <2>2. ASSUME NEW r \in Sessions, plans'[r] # NoPlan PROVE heap'[plans'[r]].of = r
    <3>1. plans'[r] \in Handles
      BY <1>4, <2>2
    <3>2. heap'[plans'[r]] = IF plans'[r] = h THEN p ELSE heap[plans'[r]]
      BY <1>3, <1>8, <3>1
    <3> QED
      BY <1>4, <1>7, <2>2, <3>2 DEF Sound, Linked, PlanOf
  <2>3. ASSUME NEW r \in Sessions, press'[r] # NoPlan PROVE heap'[press'[r]].of = r
    <3>1. press'[r] \in Handles
      BY <1>4, <2>3
    <3>2. heap'[press'[r]] = IF press'[r] = h THEN p ELSE heap[press'[r]]
      BY <1>3, <1>8, <3>1
    <3> QED
      BY <1>4, <1>7, <2>3, <3>2 DEF Sound, Linked, PlanOf
  <2> QED
    BY <2>1, <2>2, <2>3 DEF Linked, PlanOf
<1>10. ASSUME NEW r \in Sessions, cancelled'[r] PROVE CancelHolds(r)'
  <2>1. CancelHolds(r) /\ r # s /\ plans'[r] = plans[r] /\ press'[r] = press[r]
    BY <1>4, <1>10 DEF Sound, Cancels
  <2>2. plans[r] # NoPlan => heap'[plans[r]] = heap[plans[r]]
    BY <1>3, <1>4, <1>7, <1>8, <2>1
  <2>3. ASSUME NEW x \in sweep.live PROVE heap'[x].of # r
    <3>1. x \in Handles /\ heap'[x] = IF x = h THEN p ELSE heap[x]
      BY <1>3, <1>8 DEF Sound, Typed, Sweeps
    <3> QED
      BY <2>1, <3>1 DEF CancelHolds
  <2> QED
    BY <2>1, <2>2, <2>3 DEF CancelHolds, PlanOf, Running
<1> QED
  BY <1>6, <1>9, <1>10 DEF Sound, Cancels

LEMMA ArmSound == ASSUME Sound, NEW s \in Sessions, Arm(s) PROVE Sound'
<1>1. ~cancelled[s]
  BY DEF Arm, Sound, Cancels, CancelHolds, StillCancelled, Has
<1>2. Fresh \in Unused /\ Fresh \in Handles
  BY DEF Arm, Fresh, Unused
<1>3. Inherited(s) \in Nat
  BY MappedPlan DEF Inherited, Plans
<1>4. PICK due \in {"unknown", "ahead"} :
        Store([heap EXCEPT ![Fresh] = NewPlan(s, due, Inherited(s))])
  BY DEF Arm
<1>5. NewPlan(s, due, Inherited(s)) \in Plans /\ NewPlan(s, due, Inherited(s)).of = s
  BY <1>3 DEF NewPlan, Plans
<1>6. /\ UNCHANGED <<status, sweep, cancelled>> /\ plans' = [plans EXCEPT ![s] = Fresh]
      /\ press' = [press EXCEPT ![s] = press[s]] /\ typed' \in [Sessions -> Nat]
  BY DEF Arm, Sound, Typed
<1> QED
  BY <1>1, <1>2, <1>4, <1>5, <1>6, PlanPut DEF Sound, Typed

LEMMA PressedIsPlan ==
  ASSUME Sound, NEW s \in Sessions
  PROVE  Pressed(s) \in Plans /\ Pressed(s).of = s
<1> DEFINE o == IF Has(s) THEN PlanOf(s) ELSE NewPlan(s, "unknown", 0)
           o1 == [o EXCEPT !.state = "armed"]
           o2 == [o1 EXCEPT !.attempts = 0]
<1>1. o \in Plans /\ o.of = s
  BY MappedPlan DEF NewPlan, Plans
<1>2. Pressed(s) = [o2 EXCEPT !.due = "reached"]
  BY DEF Pressed
<1> HIDE DEF o
<1>3. o1 \in Plans /\ o1.of = s
  BY <1>1 DEF Plans
<1> HIDE DEF o1
<1>4. o2 \in Plans /\ o2.of = s
  BY <1>3 DEF Plans
<1> HIDE DEF o2
<1> QED
  BY <1>2, <1>4 DEF Plans

LEMMA ResumeNowSound == ASSUME Sound, NEW s \in Sessions, ResumeNow(s) PROVE Sound'
<1> DEFINE h == IF Has(s) THEN plans[s] ELSE Fresh
           p == Pressed(s)
<1>1. h \in Handles /\ (h = plans[s] \/ h \in Unused)
  BY DEF ResumeNow, Fresh, Unused, Has, Sound, Typed
<1>2. p \in Plans /\ p.of = s
  BY PressedIsPlan
<1>3. /\ press' = [press EXCEPT ![s] = IF MayAsk(p) THEN h ELSE NoPlan]
      /\ plans' = [plans EXCEPT ![s] = IF Running(s) THEN h ELSE NoPlan]
      /\ Store([heap EXCEPT ![h] = Refused(p)])
      /\ UNCHANGED <<status, sweep>>
      /\ typed' = [typed EXCEPT ![s] = 0] /\ cancelled' = [cancelled EXCEPT ![s] = FALSE]
  BY DEF ResumeNow, session
<1> HIDE DEF h, p
<1>4. Refused(p) \in Plans /\ Refused(p).of = s
  BY <1>2, PlanTypes
<1>5. /\ typed' \in [Sessions -> Nat] /\ cancelled' \in [Sessions -> BOOLEAN] /\ ~cancelled'[s]
      /\ \A r \in Sessions : cancelled'[r] => cancelled[r]
  BY <1>3 DEF Sound, Typed
<1> QED
  BY <1>1, <1>3, <1>4, <1>5, PlanPut

LEMMA SoundStep == Sound /\ [Next]_vars => Sound'
<1> SUFFICES ASSUME Sound, [Next]_vars PROVE Sound'
  OBVIOUS
<1>1. CASE Sweep
  BY <1>1, SweepStartsSound, ResolveSound, ResolvedSound, CollectDueSound, SweepEndsSound,
     SweepHeldUpSound, SweepTypesSound, SweepRefusesSound, SweepAsksSound DEF Sweep
<1>2. CASE UpdateSettings \/ StaggerEnds
  BY <1>2, Unmoved DEF UpdateSettings, StaggerEnds, session, history, Sound, Typed, Running
<1>3. ASSUME NEW s \in Sessions, Human(s) \/ Outside(s) \/ Clock(s) PROVE Sound'
  BY <1>3, ResumeNowSound, PressAnsweredSound, CancelSound, OutsideUnmoved, RefreshSound,
     ArmSound, EndsSound, PlanAgesSound, CooldownEndsSound DEF Human, Outside, Clock
<1>4. CASE UNCHANGED vars
  BY <1>4, Unmoved DEF vars, session, history, Sound, Typed, Running
<1> QED
  BY <1>1, <1>2, <1>3, <1>4 DEF Next

(* "A cancel applies to the block it was pressed on" (CANCEL_COOLDOWN_MS):   *)
(* however the terminal redraws its banner, and whatever sweeps and presses  *)
(* hold of other sessions, no sweep types into a session between a cancel at *)
(* rest and the end of its cooldown.                                         *)
THEOREM CancelsHold == Spec => CancelOutlastsRedraw
<1> DEFINE Rests == \A s \in Sessions : typed'[s] > typed[s] => ~cancelled[s]
<1>1. ASSUME Sound, Sweep PROVE Rests
  <2>1. CASE SweepTypes
    <3>1. sweep.plan \in sweep.live /\ heap[sweep.plan] \in Plans
      BY <1>1, <2>1, HeldObject DEF SweepTypes, Sound, Typed
    <3>2. ~cancelled[heap[sweep.plan].of]
      BY <1>1, <3>1 DEF Sound, Cancels, CancelHolds, Plans
    <3> QED
      BY <1>1, <2>1, <3>1, <3>2 DEF SweepTypes, Sound, Typed, Plans
  <2>2. CASE ~SweepTypes
    <3>1. typed' = typed
      BY <1>1, <2>2 DEF Sweep, SweepStarts, Resolve, Resolved, CollectDue, SweepEnds, SweepHeldUp,
                        SweepRefuses, SweepAsks, history
    <3> QED
      BY <1>1, <3>1 DEF Sound, Typed
  <2> QED
    BY <2>1, <2>2
<1>2. ASSUME Sound, NEW s \in Sessions, Human(s) \/ Outside(s) \/ Clock(s) PROVE Rests
  <2>1. CASE ResumeNow(s)
    <3>1. typed' = [typed EXCEPT ![s] = 0]
      BY <2>1 DEF ResumeNow
    <3> QED
      BY <1>2, <3>1 DEF Sound, Typed
  <2>2. CASE Arm(s)
    <3>1. /\ typed' = [typed EXCEPT ![s] =
                IF Has(s) /\ PlanOf(s).state = "cancelled" THEN 0 ELSE @]
      BY <2>2 DEF Arm
    <3> QED
      BY <1>2, <3>1 DEF Sound, Typed
  <2>3. CASE ~ResumeNow(s) /\ ~Arm(s)
    <3>1. (PressPostponed(s) \/ PressTurned(s) \/ PressTypes(s) \/ Cancel(s)) => typed' = typed
      BY DEF PressPostponed, PressTurned, PressTypes, PressAnswered, Cancel, history
    <3>2. (Prints(s) \/ Refresh(s)) => typed' = typed
      BY DEF Prints, Refresh, history
    <3>3. (Starts(s) \/ Prompts(s) \/ Answered(s) \/ Lock(s)) => typed' = typed
      BY DEF Starts, Prompts, Answered, Becomes, Lock, history
    <3>4. (Exits(s) \/ Closes(s)) => typed' = typed
      BY DEF Exits, Closes, Ends, history
    <3>5. (PlanAges(s) \/ CooldownEnds(s) \/ Settles(s)) => typed' = typed
      BY DEF PlanAges, CooldownEnds, Settles, history
    <3>6. typed' = typed
      BY <1>2, <2>3, <3>1, <3>2, <3>3, <3>4, <3>5 DEF Human, Outside, Clock
    <3> QED
      BY <1>2, <3>6 DEF Sound, Typed
  <2> QED
    BY <2>1, <2>2, <2>3
<1>3. ASSUME Sound, UpdateSettings \/ StaggerEnds \/ UNCHANGED vars PROVE Rests
  <2>1. typed' = typed
    <3>1. UpdateSettings => typed' = typed
      BY DEF UpdateSettings, history
    <3>2. StaggerEnds => typed' = typed
      BY DEF StaggerEnds
    <3>3. UNCHANGED vars => typed' = typed
      BY DEF vars, history
    <3> QED
      BY <1>3, <3>1, <3>2, <3>3
  <2> QED
    BY <1>3, <2>1 DEF Sound, Typed
<1>4. Sound /\ [Next]_vars => [\A s \in DOMAIN typed : typed'[s] > typed[s] => ~cancelled[s]]_vars
  BY <1>1, <1>2, <1>3 DEF Next, Sound, Typed
<1> QED
  BY <1>4, SoundInit, SoundStep, PTL DEF Spec, CancelOutlastsRedraw

-----------------------------------------------------------------------------
(* How often a session has been typed into, against what its plan counts.    *)
(* A sweep types into a session by the object it holds, and counts there; the *)
(* map may hold another one by then (a press or a cancel ended the first, and *)
(* the banner armed a second), which inherited the count before the prompt.   *)
(* So one prompt may be missing from the plan, and one only: what a sweep     *)
(* still holds of a session that it may type by is as far as its plan.        *)
Held == IF sweep.stage \in {"collect", "resolving"} THEN sweep.live
        ELSE sweep.due \cup (IF sweep.stage = "asking" THEN {sweep.plan} ELSE {})
InHand(s) == {h \in Held : heap[h].of = s}
Over(h)   == heap[h].state \in {"sent", "expired"}

Tally(s) ==
  /\ typed[s] <= MaxAttempts + 1
  /\ sweep.stage = "asking" /\ heap[sweep.plan].of = s => typed[s] <= MaxAttempts
  /\ Has(s) =>
       /\ typed[s] <= PlanOf(s).attempts + 1
       /\ plans[s] \in Held /\ Over(plans[s]) => typed[s] <= PlanOf(s).attempts
       /\ \A h \in InHand(s) \ {plans[s]} :
            typed[s] <= heap[h].attempts /\ typed[s] <= PlanOf(s).attempts
  /\ Running(s) /\ ~Has(s) => typed[s] = 0 /\ InHand(s) = {}
Counted == \A s \in Sessions : Tally(s)

LEMMA CountedInit == Init => Counted
BY SettingsAreClamped DEF Init, Counted, Tally, Held, InHand, Over, Has, NoSweep

LEMMA HeldIsLive == ASSUME Sound, NEW h \in Held
                    PROVE  h \in sweep.live /\ h \in Handles /\ heap[h] \in Plans
BY HeldObject DEF Held, Sound, Typed

LEMMA AttemptsOf ==
  ASSUME NEW p \in Plans
  PROVE  /\ Postponed(p).attempts = p.attempts /\ Postponed(p).state = "armed"
         /\ Turned(p).attempts = p.attempts /\ Turned(p).state = "waiting"
         /\ Sent(p).attempts = p.attempts + 1
         /\ Refused(p).attempts = p.attempts
         /\ p.attempts >= p.attempts /\ p.attempts + 1 >= p.attempts
         /\ p.attempts + 1 >= p.attempts + 1
<1>1. HeldBack(p).attempts = p.attempts
  BY DEF HeldBack, Plans
<1>2. Postponed(p).attempts = p.attempts /\ Postponed(p).state = "armed"
  BY DEF Postponed, Plans
<1>3. Turned(p).attempts = p.attempts /\ Turned(p).state = "waiting"
  BY DEF Turned, Plans
<1>4. Sent(p).attempts = p.attempts + 1
  <2> DEFINE q == [p EXCEPT !.state = "sent"]
  <2>1. q \in Plans /\ q.attempts = p.attempts
    BY DEF Plans
  <2>2. Sent(p) = [q EXCEPT !.attempts = @ + 1]
    BY DEF Sent
  <2> HIDE DEF q
  <2> QED
    BY <2>1, <2>2 DEF Plans
<1>5. [p EXCEPT !.state = "expired"].attempts = p.attempts
  BY DEF Plans
<1>6. /\ p.attempts >= p.attempts /\ p.attempts + 1 >= p.attempts
      /\ p.attempts + 1 >= p.attempts + 1
  BY DEF Plans
<1> QED
  BY <1>1, <1>2, <1>3, <1>4, <1>5, <1>6 DEF Refused

(* Most steps type nothing, take nothing new in hand, and forget no attempt. *)
LEMMA CountedKept ==
  ASSUME Sound, Sound', Counted, typed' = typed, Held' \subseteq Held,
         sweep'.stage = "asking" => sweep.stage = "asking" /\ sweep'.plan = sweep.plan,
         \A r \in Sessions : plans'[r] = plans[r] \/ (plans'[r] = NoPlan /\ ~Running(r)'),
         \A r \in Sessions : Running(r)' => Running(r),
         \A h \in Reachable' \cap Handles :
           heap'[h].of = heap[h].of /\ heap'[h].attempts >= heap[h].attempts,
         \A h \in Held' \cap Reachable' : Over(h)' /\ ~Over(h) =>
           heap'[h].attempts >= heap[h].attempts + 1
  PROVE  Counted'
<1> SUFFICES ASSUME NEW s \in Sessions PROVE Tally(s)'
  BY DEF Counted
<1>1. Tally(s) /\ typed[s] \in Nat /\ typed'[s] = typed[s]
  BY DEF Counted, Sound, Typed
<1>2. \A h \in Held' : /\ h \in Held /\ h \in Handles /\ h \in Reachable'
                       /\ heap[h] \in Plans /\ heap'[h] \in Plans
  BY HeldIsLive DEF Held, Sound, Typed, Linked, Reachable, Sweeps
<1>3. InHand(s)' \subseteq InHand(s)
  BY <1>2 DEF InHand
<1>4. sweep'.stage = "asking" => sweep'.plan \in Held'
  BY DEF Held
<1>5. ASSUME Has(s)'
      PROVE  /\ plans'[s] = plans[s] /\ Has(s) /\ plans[s] \in Handles \cap Reachable'
             /\ PlanOf(s) \in Plans /\ PlanOf(s)' \in Plans
             /\ PlanOf(s)'.attempts >= PlanOf(s).attempts
  <2>1. plans'[s] = plans[s] /\ Has(s) /\ plans[s] \in Handles /\ plans[s] \in Reachable'
    BY <1>5 DEF Has, Reachable, Sound, Typed
  <2>2. PlanOf(s) \in Plans
    BY <2>1, MappedPlan
  <2>3. PlanOf(s)' \in Plans
    BY <2>1 DEF Sound, Linked, PlanOf
  <2> QED
    BY <2>1, <2>2, <2>3 DEF PlanOf
<1>6. ASSUME Has(s)'
      PROVE  /\ typed[s] <= PlanOf(s)'.attempts + 1
             /\ plans'[s] \in Held' /\ Over(plans[s])' => typed[s] <= PlanOf(s)'.attempts
             /\ \A h \in InHand(s)' \ {plans'[s]} :
                  typed[s] <= heap'[h].attempts /\ typed[s] <= PlanOf(s)'.attempts
  <2>1. typed[s] <= PlanOf(s)'.attempts + 1
    BY <1>1, <1>5, <1>6 DEF Tally, Plans
  <2>2. ASSUME plans'[s] \in Held', Over(plans[s])' PROVE typed[s] <= PlanOf(s)'.attempts
    <3>1. CASE Over(plans[s])
      BY <1>1, <1>2, <1>5, <1>6, <2>2, <3>1 DEF Tally, Plans
    <3>2. CASE ~Over(plans[s])
      <4>1. PlanOf(s)'.attempts >= PlanOf(s).attempts + 1
        BY <1>5, <1>6, <2>2, <3>2 DEF PlanOf
      <4> QED
        BY <1>1, <1>5, <1>6, <4>1 DEF Tally, Plans
    <3> QED
      BY <3>1, <3>2
  <2>3. ASSUME NEW h \in InHand(s)' \ {plans'[s]}
        PROVE  typed[s] <= heap'[h].attempts /\ typed[s] <= PlanOf(s)'.attempts
    <3>1. h \in InHand(s) \ {plans[s]} /\ h \in Held'
      BY <1>3, <1>5, <1>6, <2>3 DEF InHand
    <3>2. typed[s] <= heap[h].attempts /\ typed[s] <= PlanOf(s).attempts
      BY <1>1, <1>5, <1>6, <3>1 DEF Tally
    <3>3. heap[h] \in Plans /\ heap'[h] \in Plans /\ heap'[h].attempts >= heap[h].attempts
      BY <1>2, <3>1
    <3> QED
      BY <1>1, <1>5, <1>6, <3>2, <3>3 DEF Plans
  <2> QED
    BY <2>1, <2>2, <2>3
<1>7. Running(s)' /\ ~Has(s)' => Running(s) /\ ~Has(s)
  BY DEF Has
<1>8. sweep'.stage = "asking" /\ heap'[sweep'.plan].of = s => typed[s] <= MaxAttempts
  BY <1>1, <1>2, <1>4 DEF Tally
<1> QED
  BY <1>1, <1>3, <1>5, <1>6, <1>7, <1>8 DEF Tally, Over

LEMMA CountedUnmoved ==
  ASSUME Sound, Sound', Counted, UNCHANGED <<typed, plans, heap>>, Held' \subseteq Held,
         sweep'.stage = "asking" => sweep.stage = "asking" /\ sweep'.plan = sweep.plan,
         \A r \in Sessions : Running(r)' => Running(r),
         Reachable' \subseteq Reachable
  PROVE  Counted'
<1>1. \A h \in Reachable' \cap Handles : heap[h].attempts >= heap[h].attempts
  BY DEF Sound, Linked, Plans
<1> QED
  BY <1>1, CountedKept DEF Over

(* One object changes, and forgets no attempt.                               *)
LEMMA CountedOne ==
  ASSUME Sound, Sound', Counted, typed' = typed, Held' \subseteq Held,
         sweep'.stage = "asking" => sweep.stage = "asking" /\ sweep'.plan = sweep.plan,
         UNCHANGED <<plans, status>>,
         NEW x \in Handles, heap[x] \in Plans, NEW p \in Plans, p.of = heap[x].of,
         Reachable' \cap Handles \subseteq Reachable,
         \A h \in Reachable' \cap Handles : heap'[h] = IF h = x THEN p ELSE heap[h],
         p.attempts >= heap[x].attempts,
         x \in Held' /\ p.state \in {"sent", "expired"} /\ ~Over(x) =>
           p.attempts >= heap[x].attempts + 1
  PROVE  Counted'
<1>1. \A h \in Reachable' \cap Handles :
        heap'[h].of = heap[h].of /\ heap'[h].attempts >= heap[h].attempts
  BY DEF Sound, Linked, Plans
<1>2. Held' \subseteq Handles
  BY HeldIsLive
<1>3. \A h \in Held' \cap Reachable' : Over(h)' /\ ~Over(h) =>
        heap'[h].attempts >= heap[h].attempts + 1
  BY <1>2 DEF Over
<1>4. \A r \in Sessions : Running(r)' => Running(r)
  BY DEF Running
<1> QED
  BY <1>1, <1>3, <1>4, CountedKept

(* Sessions end, or sweeps let go; the objects that remain are as they were. *)
LEMMA CountedLess ==
  ASSUME Sound, Sound', Counted, typed' = typed, Held' \subseteq Held,
         sweep'.stage = "asking" => sweep.stage = "asking" /\ sweep'.plan = sweep.plan,
         \A r \in Sessions : plans'[r] = plans[r] \/ (plans'[r] = NoPlan /\ ~Running(r)'),
         \A r \in Sessions : Running(r)' => Running(r),
         Store(heap), Reachable' \cap Handles \subseteq Reachable
  PROVE  Counted'
<1>1. \A h \in Reachable' \cap Handles : heap'[h] \in Plans /\ heap'[h] = heap[h]
  BY StoreSame
<1>2. \A h \in Reachable' \cap Handles :
        heap'[h].of = heap[h].of /\ heap'[h].attempts >= heap[h].attempts
  BY <1>1 DEF Plans
<1>3. \A h \in Held' \cap Reachable' : Over(h)' => Over(h)
  BY <1>1, HeldIsLive DEF Over
<1> QED
  BY <1>2, <1>3, CountedKept

LEMMA LookingKeepsCount ==
  ASSUME Sound, Sound', Counted, Resolve \/ CollectDue
  PROVE  Counted'
<1>1. CASE Resolve
  <2>1. PICK h \in Undated : sweep' = [sweep EXCEPT !.stage = "resolving", !.plan = h]
    BY <1>1 DEF Resolve
  <2>2. sweep'.stage = "resolving" /\ sweep'.live = sweep.live /\ sweep.stage = "collect"
    BY <1>1, <2>1 DEF Resolve, Sound, Typed, Sweeps
  <2>3. UNCHANGED <<typed, plans, heap, status, press>>
    BY <1>1 DEF Resolve, history, session
  <2> QED
    BY <2>2, <2>3, CountedUnmoved DEF Held, Reachable, Running
<1>2. CASE CollectDue
  <2>1. /\ sweep'.stage = "fire" /\ sweep'.live = sweep.live /\ sweep.stage = "collect"
        /\ sweep'.due \subseteq sweep.live
    BY <1>2 DEF CollectDue, Sound, Typed, Sweeps, Listed
  <2>2. UNCHANGED <<typed, plans, heap, status, press>>
    BY <1>2 DEF CollectDue, history, session
  <2> QED
    BY <2>1, <2>2, CountedUnmoved DEF Held, Reachable, Running
<1> QED
  BY <1>1, <1>2

LEMMA ResolvedKeepsCount == ASSUME Sound, Sound', Counted, Resolved PROVE Counted'
<1> DEFINE x == sweep.plan
<1>1. x \in Handles /\ heap[x] \in Plans
  BY HeldObject DEF Resolved, Sound, Typed
<1>2. PICK due \in {"ahead", "reached"} : heap' = [heap EXCEPT ![x].due = due]
  BY DEF Resolved
<1> DEFINE p == [heap[x] EXCEPT !.due = due]
<1>3. /\ p \in Plans /\ p.of = heap[x].of /\ p.attempts = heap[x].attempts
      /\ p.state = heap[x].state /\ p.attempts >= heap[x].attempts
  BY <1>1, <1>2 DEF Plans
<1>4. \A h \in Handles : heap'[h] = IF h = x THEN p ELSE heap[h]
  BY <1>1, <1>2 DEF Sound, Typed
<1>5. /\ sweep.stage = "resolving" /\ sweep'.stage = "collect" /\ sweep'.live = sweep.live
      /\ UNCHANGED <<typed, plans, status, press>>
  BY DEF Resolved, history, session, Sound, Typed, Sweeps
<1>6. Held' = Held /\ Reachable' = Reachable
  BY <1>5 DEF Held, Reachable
<1> HIDE DEF x, p
<1> QED
  BY <1>1, <1>3, <1>4, <1>5, <1>6, CountedOne DEF Over

LEMMA SweepEndsKeepsCount == ASSUME Sound, Sound', Counted, SweepEnds PROVE Counted'
<1>1. /\ sweep'.stage = "off" /\ sweep'.live = {} /\ sweep'.due = {} /\ Store(heap)
      /\ UNCHANGED <<typed, plans, press, status>>
  BY DEF SweepEnds, NoSweep, history, session
<1>2. Held' = {} /\ Reachable' \cap Handles \subseteq Reachable
  BY <1>1 DEF Held, Reachable
<1> QED
  BY <1>1, <1>2, CountedLess DEF Running

LEMMA SweepHeldUpKeepsCount == ASSUME Sound, Sound', Counted, SweepHeldUp PROVE Counted'
<1> DEFINE x == sweep.plan
<1>1. x \in Handles /\ heap[x] \in Plans /\ x \in sweep.live
  BY HeldObject DEF SweepHeldUp, Sound, Typed
<1>2. PICK p \in {Postponed(heap[x]), Turned(heap[x])} : Store([heap EXCEPT ![x] = p])
  BY DEF SweepHeldUp
<1>3. /\ p \in Plans /\ p.of = heap[x].of /\ p.attempts = heap[x].attempts
      /\ p.state \in {"armed", "waiting"} /\ p.attempts >= heap[x].attempts
  <2> DEFINE o == heap[x]
  <2>1. o \in Plans /\ p \in {Postponed(o), Turned(o)}
    BY <1>1, <1>2
  <2> HIDE DEF o
  <2>2. p \in Plans /\ p.of = o.of
    BY <2>1, PlanTypes
  <2>3. p.attempts = o.attempts /\ p.state \in {"armed", "waiting"} /\ p.attempts >= o.attempts
    BY <2>1, AttemptsOf
  <2> QED
    BY <2>2, <2>3 DEF o
<1>4. /\ sweep'.stage = "fire" /\ sweep'.due = sweep.due /\ sweep'.live = sweep.live
      /\ sweep.stage = "asking" /\ UNCHANGED <<typed, plans, status, press>>
  BY DEF SweepHeldUp, GoOn, history, session, Sound, Typed, Sweeps
<1>5. Held' \subseteq Held /\ Reachable' = Reachable
  BY <1>4 DEF Held, Reachable
<1> HIDE DEF x
<1>6. \A h \in Reachable' \cap Handles : heap'[h] = IF h = x THEN p ELSE heap[h]
  BY <1>1, <1>2, <1>3, <1>5, StoreOne
<1> QED
  BY <1>1, <1>3, <1>4, <1>5, <1>6, CountedOne

LEMMA SweepRefusesKeepsCount ==
  ASSUME Sound, Sound', Counted, NEW x \in sweep.due, SweepRefuses(x)
  PROVE  Counted'
<1>1. x \in Handles /\ heap[x] \in Plans /\ x \in sweep.live
  BY HeldObject DEF Sound, Typed
<1>2. /\ sweep'.stage = "fire" /\ sweep'.due = sweep.due \ {x} /\ sweep'.live = sweep.live
      /\ sweep.stage = "fire" /\ UNCHANGED <<typed, status, press>>
  BY DEF SweepRefuses, history, session, Sound, Typed, Sweeps
<1>3. Held' = Held \ {x}
  BY <1>2 DEF Held
<1>4. CASE Running(heap[x].of)
  <2>1. plans' = plans /\ Store([heap EXCEPT ![x] = Refused(heap[x])]) /\ Reachable' = Reachable
    BY <1>2, <1>4 DEF SweepRefuses, Reachable
  <2> DEFINE p == Refused(heap[x])
  <2>2. p \in Plans /\ p.of = heap[x].of /\ p.attempts >= heap[x].attempts
    BY <1>1, PlanTypes, AttemptsOf
  <2> HIDE DEF p
  <2>3. \A h \in Reachable' \cap Handles : heap'[h] = IF h = x THEN p ELSE heap[h]
    BY <1>1, <2>1, <2>2, StoreOne DEF p
  <2> QED
    BY <1>1, <1>2, <1>3, <2>1, <2>2, <2>3, CountedOne
<1>5. CASE ~Running(heap[x].of)
  <2>1. plans' = [plans EXCEPT ![heap[x].of] = NoPlan] /\ Store(heap)
    BY <1>5 DEF SweepRefuses
  <2>2. \A r \in Sessions : plans'[r] = plans[r] \/ (plans'[r] = NoPlan /\ ~Running(r)')
    BY <1>2, <1>5, <2>1 DEF Sound, Typed, Running
  <2>3. Reachable' \cap Handles \subseteq Reachable
    BY <1>2, <2>2, NoPlanIsNoHandle DEF Reachable
  <2> QED
    BY <1>2, <1>3, <2>1, <2>2, <2>3, CountedLess DEF Running
<1> QED
  BY <1>4, <1>5

LEMMA PressAnsweredKeepsCount ==
  ASSUME Sound, Sound', Counted,
         NEW s \in Sessions, PressPostponed(s) \/ PressTurned(s) \/ PressTypes(s)
  PROVE  Counted'
<1> DEFINE x == press[s]
<1>1. x \in Handles /\ heap[x] \in Plans
  BY DEF PressPostponed, PressTurned, PressTypes, PressAnswered, Reachable, Sound, Typed, Linked
<1>2. PICK p \in {Postponed(heap[x]), Turned(heap[x]), Sent(heap[x])} : PressAnswered(s, p)
  BY DEF PressPostponed, PressTurned, PressTypes, PlanPressed
<1>3. /\ p \in Plans /\ p.of = heap[x].of /\ p.attempts >= heap[x].attempts
      /\ p.state \in {"sent", "expired"} => p.attempts >= heap[x].attempts + 1
  <2> DEFINE o == heap[x]
  <2>1. o \in Plans /\ p \in {Postponed(o), Turned(o), Sent(o)}
    BY <1>1, <1>2
  <2> HIDE DEF o
  <2>2. p \in Plans /\ p.of = o.of
    BY <2>1, PlanTypes
  <2>3. /\ p.attempts >= o.attempts
        /\ p.state \in {"sent", "expired"} => p.attempts >= o.attempts + 1
    BY <2>1, AttemptsOf
  <2> QED
    BY <2>2, <2>3 DEF o
<1>4. /\ press' = [press EXCEPT ![s] = NoPlan] /\ Store([heap EXCEPT ![x] = p])
      /\ UNCHANGED <<status, plans, sweep, typed>>
  BY <1>2 DEF PressAnswered, session, history
<1>5. Reachable' \cap Handles \subseteq Reachable /\ Held' = Held
  BY <1>4, NoPlanIsNoHandle DEF Reachable, Held, Sound, Typed
<1> HIDE DEF x
<1>6. \A h \in Reachable' \cap Handles : heap'[h] = IF h = x THEN p ELSE heap[h]
  BY <1>1, <1>3, <1>4, <1>5, StoreOne
<1> QED
  BY <1>1, <1>3, <1>4, <1>5, <1>6, CountedOne

LEMMA MapChangeKeepsCount ==
  ASSUME Sound, Sound', Counted,
         NEW s \in Sessions, Refresh(s) \/ PlanAges(s) \/ CooldownEnds(s) \/ Cancel(s), Has(s)
  PROVE  Counted'
<1> DEFINE x == plans[s]
<1>1. x \in Handles /\ heap[x] \in Plans
  BY MappedPlan DEF PlanOf
<1>2. UNCHANGED <<status, plans, sweep, press, typed>>
  BY DEF Refresh, PlanAges, CooldownEnds, Cancel, session, history
<1>3. Held' = Held /\ Reachable' = Reachable
  BY <1>2 DEF Held, Reachable
<1>4. PICK p \in Plans :
        /\ heap' = [heap EXCEPT ![x] = p]
        /\ p.of = heap[x].of /\ p.attempts = heap[x].attempts
        /\ p.state \in {heap[x].state, "cancelled"}
  <2>1. CASE Refresh(s) \/ PlanAges(s) \/ CooldownEnds(s)
    <3>1. PICK p \in {[heap[x] EXCEPT !.due = "ahead"], [heap[x] EXCEPT !.due = "reached"],
                      [heap[x] EXCEPT !.waited = "enough"], [heap[x] EXCEPT !.cooling = FALSE]} :
            heap' = [heap EXCEPT ![x] = p]
      BY <2>1 DEF Refresh, PlanAges, CooldownEnds
    <3> QED
      BY <1>1, <3>1 DEF Plans
  <2>2. CASE Cancel(s)
    <3> DEFINE q == [heap[x] EXCEPT !.state = "cancelled"]
               p == [q EXCEPT !.cooling = TRUE]
    <3>1. q \in Plans /\ q.of = heap[x].of /\ q.attempts = heap[x].attempts /\ q.state = "cancelled"
      BY <1>1 DEF Plans
    <3>2. heap' = [[heap EXCEPT ![x] = q] EXCEPT ![x] = [@ EXCEPT !.cooling = TRUE]]
      BY <2>2 DEF Cancel
    <3> HIDE DEF q
    <3>3. /\ p \in Plans /\ p.of = heap[x].of /\ p.attempts = heap[x].attempts
          /\ p.state = "cancelled"
      BY <3>1 DEF Plans
    <3>4. heap' = [heap EXCEPT ![x] = p]
      BY <1>1, <3>1, <3>2 DEF Sound, Typed
    <3> QED
      BY <3>3, <3>4
  <2> QED
    BY <2>1, <2>2
<1>5. \A h \in Handles : heap'[h] = IF h = x THEN p ELSE heap[h]
  BY <1>1, <1>4 DEF Sound, Typed
<1>6. p.attempts >= heap[x].attempts
  BY <1>1, <1>4 DEF Plans
<1> HIDE DEF x
<1> QED
  BY <1>1, <1>2, <1>3, <1>4, <1>5, <1>6, CountedOne DEF Over

LEMMA EndsKeepsCount ==
  ASSUME Sound, Sound', Counted, NEW s \in Sessions, Exits(s) \/ Closes(s)
  PROVE  Counted'
<1>1. PICK to \in {"exited", "gone"} : Ends(s, to)
  BY DEF Exits, Closes
<1>2. /\ UNCHANGED <<sweep, press, typed>> /\ Store(heap)
      /\ \A r \in Sessions : plans'[r] = plans[r] \/ (plans'[r] = NoPlan /\ ~Running(r)')
      /\ \A r \in Sessions : Running(r)' => Running(r)
  BY <1>1 DEF Ends, Running, Sound, Typed, history
<1>3. Held' = Held /\ Reachable' \cap Handles \subseteq Reachable
  BY <1>2, NoPlanIsNoHandle DEF Reachable, Held
<1> QED
  BY <1>2, <1>3, CountedLess

LEMMA OutsideKeepsCount ==
  ASSUME Sound, Sound', Counted, NEW s \in Sessions,
         \/ Prints(s) \/ Starts(s) \/ Prompts(s) \/ Answered(s) \/ Lock(s) \/ Settles(s)
         \/ StaggerEnds \/ UpdateSettings \/ UNCHANGED vars
         \/ (CooldownEnds(s) /\ ~Has(s))
  PROVE  Counted'
<1>1. UNCHANGED <<plans, heap, press, sweep, typed>>
  BY DEF Prints, Starts, Prompts, Answered, Becomes, Lock, Settles, StaggerEnds,
         UpdateSettings, CooldownEnds, vars, session, history
<1>2. \A r \in Sessions : Running(r)' => Running(r)
  BY DEF Prints, Starts, Prompts, Answered, Becomes, Lock, Settles, StaggerEnds, CooldownEnds,
         UpdateSettings, vars, session, Sound, Typed, Running
<1> QED
  BY <1>1, <1>2, CountedUnmoved DEF Held, Reachable

(* A sweep begins to hold what the map has, which is pending.                *)
LEMMA SweepStartsKeepsCount == ASSUME Sound, Sound', Counted, SweepStarts PROVE Counted'
<1>1. /\ sweep'.stage = "collect" /\ sweep'.live = Live
      /\ UNCHANGED <<typed, plans, heap, status, press>>
  BY DEF SweepStarts, NoSweep, session
<1>2. Held' = Live
  BY <1>1 DEF Held
<1>3. ASSUME NEW s \in Sessions, NEW h \in Live, heap[h].of = s
      PROVE  h = plans[s] /\ Has(s) /\ ~Over(h)
  <2>1. PICK r \in Sessions : h = plans[r] /\ Has(r) /\ PlanOf(r).state \in Pending
    BY DEF Live
  <2>2. r = s
    BY <1>3, <2>1, MappedPlan DEF PlanOf
  <2> QED
    BY <2>1, <2>2 DEF Over, PlanOf, Pending
<1>4. ASSUME NEW s \in Sessions PROVE Tally(s)'
  <2>1. Tally(s)
    BY DEF Counted
  <2>2. Has(s) /\ plans[s] \in Live => ~Over(plans[s])
    BY <1>3, MappedPlan DEF PlanOf
  <2>3. \A h \in Live : heap[h].of = s => h = plans[s] /\ Has(s)
    BY <1>3
  <2> QED
    BY <1>1, <1>2, <2>1, <2>2, <2>3 DEF Tally, InHand, Has, PlanOf, Over, Running
<1> QED
  BY <1>4 DEF Counted

(* The checks before the read bound what will be typed after it.             *)
LEMMA SweepAsksKeepsCount ==
  ASSUME Sound, Sound', Counted, NEW x \in sweep.due, SweepAsks(x)
  PROVE  Counted'
<1>1. /\ sweep'.stage = "asking" /\ sweep'.plan = x /\ sweep'.due = sweep.due \ {x}
      /\ sweep.stage = "fire" /\ UNCHANGED <<typed, plans, heap, status, press>>
  BY DEF SweepAsks, Sound, Typed, Sweeps, session, history
<1>2. Held' = Held /\ x \in Held
  BY <1>1 DEF Held
<1>3. heap[x] \in Plans /\ heap[x].attempts < MaxAttempts /\ Running(heap[x].of)
  BY <1>2, HeldIsLive, SettingsAreClamped DEF SweepAsks, MayAsk, Exhausted, Plans
<1>4. ASSUME NEW s \in Sessions PROVE Tally(s)'
  <2>1. Tally(s) /\ typed[s] \in Nat
    BY DEF Counted, Sound, Typed
  <2>2. heap[x].of = s => typed[s] <= MaxAttempts
    BY <1>2, <1>3, <2>1, SettingsAreClamped DEF Tally, InHand, PlanOf, Plans
  <2> QED
    BY <1>1, <1>2, <2>1, <2>2 DEF Tally, InHand, Has, PlanOf, Over, Running
<1> QED
  BY <1>4 DEF Counted

(* The prompt counts on the plan it was typed by, and sweeping is over: if   *)
(* the map has another plan, that one is a prompt behind at most.            *)
LEMMA SweepTypesKeepsCount == ASSUME Sound, Sound', Counted, SweepTypes PROVE Counted'
<1> DEFINE x == sweep.plan
           p == Sent(heap[x])
<1>1. x \in Handles /\ heap[x] \in Plans /\ x \in sweep.live /\ x \in Held
  BY HeldObject DEF SweepTypes, Sound, Typed, Held
<1>2. p \in Plans /\ p.of = heap[x].of /\ p.attempts = heap[x].attempts + 1
  BY <1>1, PlanTypes, AttemptsOf
<1>3. PICK t \in Sessions : /\ t = heap[x].of /\ Running(t)
                            /\ typed' = [typed EXCEPT ![t] = @ + 1]
  BY <1>1 DEF SweepTypes, Accepts, Plans
<1>4. /\ sweep'.stage = "off" /\ sweep'.live = {} /\ sweep'.due = {} /\ sweep.stage = "asking"
      /\ UNCHANGED <<plans, status, press>> /\ Store([heap EXCEPT ![x] = p])
  BY DEF SweepTypes, NoSweep, session
<1>5. Held' = {} /\ Reachable' \cap Handles \subseteq Reachable
  BY <1>4 DEF Held, Reachable
<1> HIDE DEF p
<1>6. \A h \in Reachable' \cap Handles : heap'[h] = IF h = x THEN p ELSE heap[h]
  BY <1>1, <1>2, <1>4, <1>5, StoreOne
<1>7. ASSUME NEW s \in Sessions PROVE Tally(s)'
  <2>1. /\ Tally(s) /\ typed[s] \in Nat
        /\ typed'[s] = IF s = t THEN typed[s] + 1 ELSE typed[s]
    BY <1>3 DEF Counted, Sound, Typed
  <2>2. typed'[s] <= MaxAttempts + 1
    BY <1>3, <1>4, <2>1, SettingsAreClamped DEF Tally
  <2>3. (Running(s)' <=> Running(s)) /\ (Has(s)' <=> Has(s))
    BY <1>4 DEF Running, Has
  <2>4. Running(s) /\ ~Has(s) => s # t
    BY <1>1, <1>3, <2>1 DEF Tally, InHand
  <2>5. ASSUME Has(s) PROVE typed'[s] <= PlanOf(s)'.attempts + 1
    <3>1. /\ PlanOf(s) \in Plans /\ PlanOf(s).of = s /\ plans[s] \in Handles
          /\ plans[s] \in Reachable'
      BY <1>4, <2>5, MappedPlan DEF Reachable
    <3>2. PlanOf(s)' = IF plans[s] = x THEN p ELSE PlanOf(s)
      BY <1>4, <1>6, <3>1 DEF PlanOf
    <3>3. CASE plans[s] = x
      BY <1>2, <2>1, <2>5, <3>1, <3>2, <3>3 DEF Tally, PlanOf, Plans
    <3>4. CASE plans[s] # x /\ s = t
      <4>1. typed[s] <= PlanOf(s).attempts
        BY <1>1, <1>3, <2>1, <2>5, <3>4 DEF Tally, InHand
      <4> QED
        BY <2>1, <3>1, <3>2, <3>4, <4>1 DEF Plans
    <3>5. CASE plans[s] # x /\ s # t
      BY <2>1, <2>5, <3>2, <3>5 DEF Tally
    <3> QED
      BY <3>3, <3>4, <3>5
  <2> QED
    BY <1>4, <1>5, <2>1, <2>2, <2>3, <2>4, <2>5 DEF Tally, InHand
<1> QED
  BY <1>7 DEF Counted

(* The budget is the human's own from here: the count starts over.           *)
LEMMA ResumeNowKeepsCount ==
  ASSUME Sound, Sound', Counted, NEW t \in Sessions, ResumeNow(t)
  PROVE  Counted'
<1> DEFINE x == IF Has(t) THEN plans[t] ELSE Fresh
           p == Refused(Pressed(t))
<1>1. /\ x \in Handles /\ (x = plans[t] \/ x \in Unused)
      /\ typed' = [typed EXCEPT ![t] = 0]
      /\ plans' = [plans EXCEPT ![t] = IF Running(t) THEN x ELSE NoPlan]
      /\ press' = [press EXCEPT ![t] = IF MayAsk(Pressed(t)) THEN x ELSE NoPlan]
      /\ Store([heap EXCEPT ![x] = p]) /\ UNCHANGED <<status, sweep>>
  BY DEF ResumeNow, session, Fresh, Unused, Has, Sound, Typed
<1>2. p \in Plans /\ p.of = t
  BY PressedIsPlan, PlanTypes
<1> HIDE DEF p, x
<1>3. \A h \in Reachable' \cap Handles : heap'[h] = IF h = x THEN p ELSE heap[h]
  BY <1>1, <1>2 DEF Store, Sound, Typed
<1>4. Held' = Held
  BY <1>1 DEF Held
<1>5. \A h \in Held : h \in Handles /\ h \in Reachable' /\ h \in Reachable /\ heap[h] \in Plans
  BY <1>1, HeldIsLive DEF Reachable
<1>6. \A h \in Held : heap'[h] = IF h = x THEN p ELSE heap[h]
  BY <1>3, <1>5
<1>7. x \in Held => heap[x].of = t
  BY <1>1, <1>5, MappedPlan, NoPlanIsNoHandle DEF Unused, Has, PlanOf
<1>8. ASSUME NEW s \in Sessions PROVE Tally(s)'
  <2>1. Tally(s) /\ typed[s] \in Nat
    BY DEF Counted, Sound, Typed
  <2>2. InHand(s)' = InHand(s)
    BY <1>2, <1>4, <1>6, <1>7 DEF InHand
  <2>3. CASE s = t
    <3>1. typed'[s] = 0 /\ (Running(s)' => Has(s)')
      BY <1>1, <2>3, NoPlanIsNoHandle DEF Sound, Typed, Running, Has
    <3>2. ASSUME Has(s)' PROVE PlanOf(s)' \in Plans
      BY <3>2, MappedPlan DEF Sound, Typed, Linked, Has, PlanOf, Reachable
    <3>3. \A h \in Held : heap'[h] \in Plans
      BY <1>2, <1>5, <1>6
    <3> QED
      BY <1>4, <3>1, <3>2, <3>3, SettingsAreClamped DEF Tally, InHand, Plans
  <2>4. CASE s # t
    <3>1. typed'[s] = typed[s] /\ plans'[s] = plans[s] /\ (Running(s)' <=> Running(s))
      BY <1>1, <2>4 DEF Sound, Typed, Running
    <3>2. \A h \in InHand(s) : h # x
      BY <1>7, <2>4 DEF InHand
    <3>3. Has(s) => PlanOf(s)' = PlanOf(s) /\ plans[s] # x
      <4>1. ASSUME Has(s) PROVE plans[s] # x
        BY <1>1, <2>4, <4>1, MappedPlan, NoPlanIsNoHandle DEF Unused, Reachable, Has, PlanOf
      <4>2. ASSUME Has(s) PROVE plans[s] \in Reachable' /\ plans[s] \in Handles
        BY <3>1, <4>2, MappedPlan DEF Reachable
      <4> QED
        BY <1>3, <3>1, <4>1, <4>2 DEF PlanOf
    <3>4. sweep.stage = "asking" => sweep.plan \in Held
      BY DEF Held
    <3>5. sweep.stage = "asking" /\ heap'[sweep.plan].of = s => typed[s] <= MaxAttempts
      BY <1>2, <1>6, <2>1, <2>4, <3>4 DEF Tally
    <3>6. \A h \in InHand(s) : heap'[h] = heap[h]
      BY <1>6, <3>2 DEF InHand
    <3> QED
      BY <1>1, <1>4, <1>6, <2>1, <2>2, <3>1, <3>3, <3>5, <3>6 DEF Tally, Has, Over, PlanOf
  <2> QED
    BY <2>3, <2>4
<1> QED
  BY <1>8 DEF Counted

(* A new plan inherits the count, or begins a new one after a cancel. An     *)
(* object in a sweep's hand that it replaces was over, so not behind.        *)
LEMMA ArmKeepsCount ==
  ASSUME Sound, Sound', Counted, NEW t \in Sessions, Arm(t)
  PROVE  Counted'
<1>1. Fresh \in Unused /\ Fresh \in Handles /\ Inherited(t) \in Nat
  BY MappedPlan DEF Arm, Fresh, Unused, Inherited, Plans
<1>2. PICK due \in {"unknown", "ahead"} :
        Store([heap EXCEPT ![Fresh] = NewPlan(t, due, Inherited(t))])
  BY DEF Arm
<1> DEFINE x == Fresh
           p == NewPlan(t, due, Inherited(t))
<1>3. p \in Plans /\ p.of = t /\ p.attempts = Inherited(t)
  BY <1>1 DEF NewPlan, Plans
<1>4. /\ typed' = [typed EXCEPT ![t] =
           IF Has(t) /\ PlanOf(t).state = "cancelled" THEN 0 ELSE typed[t]]
      /\ plans' = [plans EXCEPT ![t] = x] /\ UNCHANGED <<status, sweep, press>>
      /\ Running(t) /\ (Has(t) => PlanOf(t).state \notin Pending)
  BY DEF Arm
<1> HIDE DEF p, x
<1>5. \A h \in Reachable' \cap Handles : heap'[h] = IF h = x THEN p ELSE heap[h]
  BY <1>1, <1>2, <1>3 DEF Store, Sound, Typed, x, p
<1>6. Held' = Held
  BY <1>4 DEF Held
<1>7. \A h \in Held : /\ h \in Handles /\ h \in Reachable' /\ h # x
                      /\ heap[h] \in Plans
  BY <1>1, <1>4, HeldIsLive DEF Reachable, Unused, x
<1>8. \A h \in Held : heap'[h] = heap[h]
  BY <1>5, <1>7
<1>9. ASSUME NEW s \in Sessions PROVE Tally(s)'
  <2>1. Tally(s) /\ typed[s] \in Nat
    BY DEF Counted, Sound, Typed
  <2>2. InHand(s)' = InHand(s)
    BY <1>6, <1>8 DEF InHand
  <2>3. (sweep'.stage = "asking" => sweep'.plan \in Held) /\ sweep' = sweep
    BY <1>4 DEF Held
  <2>4. CASE s # t
    <3>1. typed'[s] = typed[s] /\ plans'[s] = plans[s] /\ (Running(s)' <=> Running(s))
      BY <1>4, <2>4 DEF Sound, Typed, Running
    <3>2. Has(s) => PlanOf(s)' = PlanOf(s)
      <4>1. ASSUME Has(s) PROVE plans[s] # x /\ plans[s] \in Handles /\ plans[s] \in Reachable'
        BY <1>1, <3>1, <4>1, MappedPlan DEF Unused, Reachable, x
      <4> QED
        BY <1>5, <3>1, <4>1 DEF PlanOf
    <3>3. Has(s) /\ plans[s] \in Held => heap'[plans[s]] = heap[plans[s]]
      BY <1>8
    <3> QED
      BY <1>6, <1>8, <2>1, <2>2, <2>3, <3>1, <3>2, <3>3 DEF Tally, Has, Over, InHand
  <2>5. CASE s = t
    <3>1. plans'[s] = x /\ Has(s)' /\ x \in Reachable' /\ x \in Handles
      BY <1>1, <1>4, <2>5, NoPlanIsNoHandle DEF Has, Reachable, Sound, Typed, x
    <3>2. PlanOf(s)' = p
      BY <1>5, <3>1 DEF PlanOf
    <3>3. typed'[s] <= typed[s] /\ typed'[s] \in Nat
      BY <1>4, <2>1, <2>5 DEF Sound, Typed
    <3>4. typed'[s] <= p.attempts + 1
      BY <1>1, <1>3, <1>4, <2>1, <2>5, MappedPlan DEF Tally, Inherited, Sound, Typed, Plans
    <3>5. ASSUME NEW h \in InHand(s) PROVE typed'[s] <= heap[h].attempts /\ typed'[s] <= p.attempts
      <4>1. h \in Held /\ heap[h] \in Plans /\ Has(s)
        BY <1>4, <1>7, <2>1, <2>5, <3>5 DEF InHand, Tally
      <4>2. PlanOf(s) \in Plans
        BY <4>1, MappedPlan
      <4>3. CASE PlanOf(s).state = "cancelled"
        BY <1>1, <1>3, <1>4, <2>5, <4>1, <4>2, <4>3 DEF Sound, Typed, Plans
      <4>4. CASE PlanOf(s).state # "cancelled"
        <5>1. PlanOf(s).state \in {"sent", "expired"} /\ p.attempts = PlanOf(s).attempts
          BY <1>3, <1>4, <2>5, <4>1, <4>2, <4>4 DEF Plans, Pending, Inherited
        <5>2. CASE h = plans[s]
          BY <2>1, <3>3, <4>1, <4>2, <5>1, <5>2 DEF Tally, Over, PlanOf, Plans
        <5>3. CASE h # plans[s]
          BY <2>1, <3>3, <3>5, <4>1, <4>2, <5>1, <5>3 DEF Tally, Plans
        <5> QED
          BY <5>2, <5>3
      <4> QED
        BY <4>3, <4>4
    <3>6. x \notin Held
      BY <1>7
    <3>7. typed'[s] <= MaxAttempts + 1
      BY <2>1, <3>3, SettingsAreClamped DEF Tally
    <3>8. sweep'.stage = "asking" /\ heap'[sweep'.plan].of = s => typed'[s] <= MaxAttempts
      BY <1>8, <2>1, <2>3, <3>3, SettingsAreClamped DEF Tally
    <3> QED
      BY <1>6, <1>8, <2>2, <3>1, <3>2, <3>4, <3>5, <3>6, <3>7, <3>8 DEF Tally, InHand
  <2> QED
    BY <2>4, <2>5
<1> QED
  BY <1>9 DEF Counted

LEMMA CountedStep == Sound /\ Sound' /\ Counted /\ [Next]_vars => Counted'
<1> SUFFICES ASSUME Sound, Sound', Counted, [Next]_vars PROVE Counted'
  OBVIOUS
<1>1. CASE Sweep
  BY <1>1, SweepStartsKeepsCount, LookingKeepsCount, ResolvedKeepsCount, SweepEndsKeepsCount,
     SweepHeldUpKeepsCount, SweepTypesKeepsCount, SweepRefusesKeepsCount, SweepAsksKeepsCount
     DEF Sweep
<1>2. CASE UpdateSettings \/ StaggerEnds \/ UNCHANGED vars
  <2>1. CASE Sessions = {}
    BY <2>1 DEF Counted
  <2>2. CASE Sessions # {}
    BY <1>2, <2>2, OutsideKeepsCount
  <2> QED
    BY <2>1, <2>2
<1>3. ASSUME NEW s \in Sessions, Human(s) PROVE Counted'
  <2>1. Cancel(s) => Has(s)
    BY DEF Cancel
  <2> QED
    BY <1>3, <2>1, ResumeNowKeepsCount, PressAnsweredKeepsCount, MapChangeKeepsCount DEF Human
<1>4. ASSUME NEW s \in Sessions, Outside(s) PROVE Counted'
  <2>1. Refresh(s) => Has(s)
    BY DEF Refresh
  <2> QED
    BY <1>4, <2>1, OutsideKeepsCount, MapChangeKeepsCount, ArmKeepsCount, EndsKeepsCount DEF Outside
<1>5. ASSUME NEW s \in Sessions, Clock(s) PROVE Counted'
  <2>1. PlanAges(s) => Has(s)
    BY DEF PlanAges
  <2> QED
    BY <1>5, <2>1, OutsideKeepsCount, MapChangeKeepsCount DEF Clock
<1> QED
  BY <1>1, <1>2, <1>3, <1>4, <1>5 DEF Next

(* settings.maxAttempts caps what sweeps type into a session by themselves,  *)
(* one prompt aside that was on its way when a human stepped in, however     *)
(* often the banner is redrawn and whatever object a sweep still holds.      *)
THEOREM AttemptsAreFew == Spec => []HandfulOfAttempts
<1>1. Sound /\ Counted => HandfulOfAttempts
  BY DEF Counted, Tally, HandfulOfAttempts, Sound, Typed
<1> QED
  BY <1>1, CountedInit, CountedStep, SoundInit, SoundStep, PTL DEF Spec
==============================================================================
