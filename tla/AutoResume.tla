------------------------------ MODULE AutoResume ------------------------------
(***************************************************************************)
(* lib/auto-resume.js: typing one prompt into the terminal of a Claude      *)
(* session when the quota that blocked it comes back. A banner in the       *)
(* output arms a plan; a sweep, every few seconds, types into at most one   *)
(* session; a human may cancel a plan or have it fire at once.              *)
(*                                                                         *)
(* A sweep and a press of "resume now" both wait for the quota snapshot     *)
(* between their safety checks and their keystrokes, holding the plan       *)
(* object they started with. Plans are therefore objects with an identity   *)
(* here (handles into a heap): the map may come to hold another one.        *)
(*                                                                         *)
(* Dates are kept as what the code asks of them: has this interval elapsed? *)
(* A sweep reads the clock once, so none elapses while it runs.             *)
(***************************************************************************)
EXTENDS Naturals, FiniteSets

CONSTANTS
  Sessions,     \* the Claude sessions
  Handles,      \* identities of plan objects
  NoPlan,       \* none of them
  MaxAttempts,  \* settings.maxAttempts
  Stagger,      \* is settings.staggerSeconds positive?
  SlowQuota     \* may usage.read() take a turn of the event loop, or is it cached?

ASSUME SettingsAreClamped == MaxAttempts \in Nat \ {0}
ASSUME SwitchesAreBooleans == {Stagger, SlowQuota} \subseteq BOOLEAN
ASSUME NoPlanIsNoHandle == NoPlan \notin Handles

VARIABLES
  status,     \* sessions.get(id).status, or "gone"
  locked,     \* sessions.get(id).locked: the budget guard holds the keyboard
  noisy,      \* _lastOutput is less than QUIET_MS old
  enabled,    \* settings.enabled
  plans,      \* _plans: the handle of each session's plan
  heap,       \* the plan objects themselves
  justFired,  \* _lastFiredAt is less than staggerSeconds old
  sweep,      \* the sweep in progress: _ticking, and tick()'s locals
  press,      \* the plan of each resumeNow() in progress
  typed,      \* history: prompts sweeps typed since a human last stepped in
  cancelled,  \* history: a human cancelled, less than the cooldown ago
  released    \* history: prompts typed by sweeps in the current stagger

session == <<status, locked, noisy>>
history == <<typed, cancelled, released>>
vars == <<session, enabled, plans, heap, justFired, sweep, press, history>>

Pending   == {"armed", "waiting"}

(* due: dueAt is null, ahead, or reached. waited: waitingSince is null, or  *)
(* less or more than waitForIdleSeconds old. cooling: cancelledAt is less   *)
(* than CANCEL_COOLDOWN_MS old.                                             *)
NewPlan(s, due, attempts) ==
  [of |-> s, state |-> "armed", attempts |-> attempts, due |-> due,
   waited |-> "no", cooling |-> FALSE]
Blank == [state |-> "blank"]

NoSweep == [stage |-> "off", live |-> {}, due |-> {}, plan |-> NoPlan]

Init ==
  /\ status = [s \in Sessions |-> "starting"]
  /\ locked = [s \in Sessions |-> FALSE]
  /\ noisy = [s \in Sessions |-> FALSE]
  /\ enabled = TRUE
  /\ plans = [s \in Sessions |-> NoPlan]
  /\ heap = [h \in Handles |-> Blank]
  /\ justFired = FALSE
  /\ sweep = NoSweep
  /\ press = [s \in Sessions |-> NoPlan]
  /\ typed = [s \in Sessions |-> 0]
  /\ cancelled = [s \in Sessions |-> FALSE]
  /\ released = 0

-----------------------------------------------------------------------------
(* The event loop runs one thing at a time. A sweep gives way only at its   *)
(* reads, and not even there when the snapshot is cached: an await of a     *)
(* settled promise lets no input in.                                        *)
Yielding == sweep.stage \in {"off", "resolving", "asking"}
Free ==
  \/ SlowQuota /\ Yielding
  \/ sweep.stage = "off" /\ \A s \in Sessions : press[s] = NoPlan

(* What the program can still reach; the rest of the heap is collected.     *)
Reachable ==
  {plans[s] : s \in Sessions} \cup {press[s] : s \in Sessions} \cup sweep.live
Store(objects) ==
  heap' = [h \in Handles |-> IF h \in Reachable' THEN objects[h] ELSE Blank]

Unused == Handles \ Reachable
Fresh  == CHOOSE h \in Unused : TRUE

Has(s) == plans[s] # NoPlan
PlanOf(s) == heap[plans[s]]

Running(s) == status[s] \notin {"exited", "gone"}

-----------------------------------------------------------------------------
(* noteOutput. A chunk without a banner only makes the session noisy. With  *)
(* one, _arm refreshes a pending plan if the reset time is news, leaves a   *)
(* freshly cancelled one alone, and otherwise puts a new plan object in its *)
(* place, with the attempts of the old one unless a human cancelled that.   *)
(* MAX_PLANS is above the number of sessions there can be: the eviction it  *)
(* triggers is left out.                                                    *)
CancelIgnored(p) == FALSE   \* wrong on purpose: the cooldown forgotten
StillCancelled(p) == p.state = "cancelled" /\ p.cooling

Inherited(s) == IF Has(s) /\ PlanOf(s).state # "cancelled" THEN PlanOf(s).attempts ELSE 0

Prints(s) ==
  /\ Free /\ Running(s)
  /\ noisy' = [noisy EXCEPT ![s] = TRUE]
  /\ UNCHANGED <<status, locked, enabled, plans, heap, justFired, sweep, press, history>>

Refresh(s) ==
  /\ Free /\ Running(s)
  /\ Has(s) /\ PlanOf(s).state \in Pending
  /\ noisy' = [noisy EXCEPT ![s] = TRUE]
  /\ heap' = [heap EXCEPT ![plans[s]].due = "ahead"]
  /\ UNCHANGED <<status, locked, enabled, plans, justFired, sweep, press, history>>

Arm(s) ==
  /\ Free /\ Running(s)
  /\ Has(s) => PlanOf(s).state \notin Pending /\ ~StillCancelled(PlanOf(s))
  /\ Unused # {}
  /\ noisy' = [noisy EXCEPT ![s] = TRUE]
  /\ plans' = [plans EXCEPT ![s] = Fresh]
  /\ UNCHANGED <<sweep, press>>
  /\ \E due \in {"unknown", "ahead"} :
       Store([heap EXCEPT ![Fresh] = NewPlan(s, due, Inherited(s))])
  /\ typed' = [typed EXCEPT ![s] =
       IF Has(s) /\ PlanOf(s).state = "cancelled" THEN 0 ELSE @]
  /\ UNCHANGED <<status, locked, enabled, justFired, cancelled, released>>

-----------------------------------------------------------------------------
(* _fire up to its read: when a session is not typed into.                  *)
Exhausted(p) == p.attempts >= MaxAttempts

Unsafe(s) ==
  \/ locked[s]
  \/ status[s] \in {"awaiting-permission", "starting"}
  \/ noisy[s]

(* A plan turned away by the write itself waits from no date, or an old one.*)
HeldBack(p) ==
  LET waited == IF p.state = "waiting" THEN p.waited ELSE "some" IN
  [p EXCEPT !.state = IF waited = "enough" THEN "expired" ELSE "waiting",
            !.waited = waited]

MayAsk(p) == Running(p.of) /\ ~Exhausted(p) /\ ~Unsafe(p.of)
Refused(p) == IF Exhausted(p) THEN [p EXCEPT !.state = "expired"]
              ELSE IF Unsafe(p.of) THEN HeldBack(p) ELSE p

(* _fire after its read. The account may still report the window exhausted; *)
(* the session may refuse the write; otherwise the prompt is typed.         *)
Postponed(p) == [p EXCEPT !.state = "armed", !.due = "ahead"]
Accepts(s)   == Running(s) /\ ~locked[s]
Turned(p)    == [p EXCEPT !.state = "waiting"]
Sent(p)      == [p EXCEPT !.state = "sent", !.attempts = @ + 1]

-----------------------------------------------------------------------------
(* tick: take the pending plans, learn the missing reset times, then fire   *)
(* what is due until one prompt is typed. Plans are looked up by session    *)
(* id, whichever object the map now holds, and their state is not looked at *)
(* again. forget() has removed the plans of sessions that are gone.         *)
Live == {plans[s] : s \in {r \in Sessions : Has(r) /\ PlanOf(r).state \in Pending}}

SweepStarts ==
  /\ Free /\ sweep.stage = "off" /\ enabled /\ Live # {}
  /\ sweep' = [NoSweep EXCEPT !.stage = "collect", !.live = Live]
  /\ released' = IF Stagger THEN released ELSE 0
  /\ UNCHANGED <<session, enabled, plans, heap, justFired, press, typed, cancelled>>

Listed  == {h \in sweep.live : Has(heap[h].of)}
Undated == {h \in Listed : heap[h].due = "unknown"}

Resolve ==
  /\ sweep.stage = "collect"
  /\ \E h \in Undated : sweep' = [sweep EXCEPT !.stage = "resolving", !.plan = h]
  /\ UNCHANGED <<session, enabled, plans, heap, justFired, press, history>>

Resolved ==
  /\ sweep.stage = "resolving"
  /\ sweep' = [sweep EXCEPT !.stage = "collect", !.plan = NoPlan]
  /\ \E due \in {"ahead", "reached"} : heap' = [heap EXCEPT ![sweep.plan].due = due]
  /\ UNCHANGED <<session, enabled, plans, justFired, press, history>>

CollectDue ==
  /\ sweep.stage = "collect" /\ Undated = {}
  /\ sweep' = [sweep EXCEPT !.stage = "fire",
                            !.due = {h \in Listed : heap[h].due = "reached"}]
  /\ UNCHANGED <<session, enabled, plans, heap, justFired, press, history>>

NeverTooSoon == FALSE       \* wrong on purpose: the stagger check dropped
TooSoon == Stagger /\ justFired

SweepEnds ==
  /\ sweep.stage = "fire" /\ (sweep.due = {} \/ TooSoon)
  /\ sweep' = NoSweep
  /\ UNCHANGED <<plans, press>>
  /\ Store(heap)
  /\ UNCHANGED <<session, enabled, justFired, history>>

SweepRefuses(h) ==
  /\ sweep.stage = "fire" /\ h \in sweep.due /\ ~TooSoon
  /\ ~MayAsk(heap[h])
  /\ sweep' = [sweep EXCEPT !.due = @ \ {h}]
  /\ UNCHANGED press
  /\ LET s == heap[h].of IN
     IF Running(s)
     THEN plans' = plans /\ Store([heap EXCEPT ![h] = Refused(@)])
     ELSE plans' = [plans EXCEPT ![s] = NoPlan] /\ Store(heap)
  /\ UNCHANGED <<session, enabled, justFired, history>>

SweepAsks(h) ==
  /\ sweep.stage = "fire" /\ h \in sweep.due /\ ~TooSoon
  /\ MayAsk(heap[h])
  /\ sweep' = [sweep EXCEPT !.stage = "asking", !.plan = h, !.due = @ \ {h}]
  /\ UNCHANGED <<session, enabled, plans, heap, justFired, press, history>>

GoOn == [sweep EXCEPT !.stage = "fire", !.plan = NoPlan]

SweepHeldUp ==
  /\ sweep.stage = "asking"
  /\ sweep' = GoOn
  /\ UNCHANGED <<plans, press>>
  /\ \/ Store([heap EXCEPT ![sweep.plan] = Postponed(@)])
     \/ /\ ~Accepts(heap[sweep.plan].of)
        /\ Store([heap EXCEPT ![sweep.plan] = Turned(@)])
  /\ UNCHANGED <<session, enabled, justFired, history>>

(* Wrong on purpose: the sweep types until the session reacts, and does not *)
(* ask again how often it has.                                              *)
SweepTypesOn ==
  /\ sweep.stage = "asking"
  /\ Accepts(heap[sweep.plan].of)
  /\ typed' = [typed EXCEPT ![heap[sweep.plan].of] = @ + 1]
  /\ justFired' = TRUE /\ released' = released + 1
  /\ heap' = [heap EXCEPT ![sweep.plan] = Sent(@)]
  /\ UNCHANGED <<session, enabled, plans, sweep, press, cancelled>>

SweepTypes ==
  /\ sweep.stage = "asking"
  /\ LET s == heap[sweep.plan].of IN
     /\ Accepts(s)
     /\ typed' = [typed EXCEPT ![s] = @ + 1]
  /\ justFired' = TRUE
  /\ released' = released + 1
  /\ sweep' = NoSweep
  /\ UNCHANGED <<plans, press>>
  /\ Store([heap EXCEPT ![sweep.plan] = Sent(@)])
  /\ UNCHANGED <<session, enabled, cancelled>>

-----------------------------------------------------------------------------
(* resumeNow: a human asks. The plan is re-armed, or made, with a budget of *)
(* its own, and fired without the clock; the safety checks still hold.      *)
Pressed(s) ==
  [IF Has(s) THEN PlanOf(s) ELSE NewPlan(s, "unknown", 0)
    EXCEPT !.state = "armed", !.attempts = 0, !.due = "reached"]

ResumeNow(s) ==
  /\ Free /\ status[s] # "gone" /\ press[s] = NoPlan
  /\ Has(s) \/ Unused # {}
  /\ LET h == IF Has(s) THEN plans[s] ELSE Fresh
         p == Pressed(s)
     IN /\ press' = [press EXCEPT ![s] = IF MayAsk(p) THEN h ELSE NoPlan]
        /\ plans' = [plans EXCEPT ![s] = IF Running(s) THEN h ELSE NoPlan]
        /\ UNCHANGED sweep
        /\ Store([heap EXCEPT ![h] = Refused(p)])
  /\ typed' = [typed EXCEPT ![s] = 0]
  /\ cancelled' = [cancelled EXCEPT ![s] = FALSE]
  /\ UNCHANGED <<session, enabled, justFired, released>>

PressAnswered(s, p) ==
  /\ Yielding /\ press[s] # NoPlan
  /\ press' = [press EXCEPT ![s] = NoPlan]
  /\ UNCHANGED <<plans, sweep>>
  /\ Store([heap EXCEPT ![press[s]] = p])
  /\ UNCHANGED <<session, enabled, justFired, history>>

PlanPressed(s)    == heap[press[s]]
PressPostponed(s) == PressAnswered(s, Postponed(PlanPressed(s)))
PressTurned(s)    == ~Accepts(s) /\ PressAnswered(s, Turned(PlanPressed(s)))
PressTypes(s)     == Accepts(s) /\ PressAnswered(s, Sent(PlanPressed(s)))

(* cancel. The history counts it when nothing is already on its way.        *)
Cancel(s) ==
  /\ Free /\ Has(s)
  /\ heap' = [heap EXCEPT ![plans[s]].state = "cancelled", ![plans[s]].cooling = TRUE]
  /\ cancelled' = [cancelled EXCEPT ![s] = sweep.stage = "off" /\ press[s] = NoPlan]
  /\ UNCHANGED <<session, enabled, plans, justFired, sweep, press, typed, released>>

UpdateSettings ==
  /\ Free
  /\ enabled' = ~enabled
  /\ UNCHANGED <<session, plans, heap, justFired, sweep, press, history>>

-----------------------------------------------------------------------------
(* The sessions, their approvals and the budget lock, as the plans see them.*)
Becomes(s, from, to) ==
  /\ Free /\ status[s] \in from
  /\ status' = [status EXCEPT ![s] = to]
  /\ UNCHANGED <<locked, noisy, enabled, plans, heap, justFired, sweep, press, history>>

Starts(s)   == Becomes(s, {"starting"}, "ready")
Prompts(s)  == Becomes(s, {"starting", "ready"}, "awaiting-permission")
Answered(s) == Becomes(s, {"awaiting-permission"}, "ready")

Lock(s) ==
  /\ Free /\ Running(s)
  /\ locked' = [locked EXCEPT ![s] = ~@]
  /\ UNCHANGED <<status, noisy, enabled, plans, heap, justFired, sweep, press, history>>

(* The events 'exit' and 'closed' reach forget().                           *)
Ends(s, to) ==
  /\ Free /\ status[s] \notin {to, "gone"}
  /\ status' = [status EXCEPT ![s] = to]
  /\ noisy' = [noisy EXCEPT ![s] = FALSE]
  /\ plans' = [plans EXCEPT ![s] = NoPlan]
  /\ UNCHANGED <<sweep, press>>
  /\ Store(heap)
  /\ UNCHANGED <<locked, enabled, justFired, history>>
Exits(s)  == Ends(s, "exited")
Closes(s) == Ends(s, "gone")

-----------------------------------------------------------------------------
(* Time passes.                                                             *)
Resting == Free /\ sweep.stage = "off"

PlanAges(s) ==
  /\ Resting /\ Has(s)
  /\ \/ /\ PlanOf(s).due = "ahead"
        /\ heap' = [heap EXCEPT ![plans[s]].due = "reached"]
     \/ /\ PlanOf(s).waited = "some"
        /\ heap' = [heap EXCEPT ![plans[s]].waited = "enough"]
  /\ UNCHANGED <<session, enabled, plans, justFired, sweep, press, history>>

CooldownEnds(s) ==
  /\ Resting
  /\ \/ cancelled[s]
     \/ Has(s) /\ PlanOf(s).cooling
  /\ heap' = IF Has(s) THEN [heap EXCEPT ![plans[s]].cooling = FALSE] ELSE heap
  /\ cancelled' = [cancelled EXCEPT ![s] = FALSE]
  /\ UNCHANGED <<session, enabled, plans, justFired, sweep, press, typed, released>>

Settles(s) ==
  /\ Resting /\ noisy[s]
  /\ noisy' = [noisy EXCEPT ![s] = FALSE]
  /\ UNCHANGED <<status, locked, enabled, plans, heap, justFired, sweep, press, history>>

StaggerEnds ==
  /\ Resting /\ Stagger /\ (justFired \/ released > 0)
  /\ justFired' = FALSE
  /\ released' = 0
  /\ UNCHANGED <<session, enabled, plans, heap, sweep, press, typed, cancelled>>

-----------------------------------------------------------------------------
Sweep == \/ SweepStarts \/ Resolve \/ Resolved \/ CollectDue
         \/ SweepEnds \/ SweepHeldUp \/ SweepTypes
         \/ \E h \in sweep.due : SweepRefuses(h) \/ SweepAsks(h)
Human(s) == ResumeNow(s) \/ PressPostponed(s) \/ PressTurned(s) \/ PressTypes(s)
            \/ Cancel(s)
Outside(s) == Prints(s) \/ Refresh(s) \/ Arm(s) \/ Starts(s) \/ Prompts(s)
              \/ Answered(s) \/ Lock(s) \/ Exits(s) \/ Closes(s)
Clock(s) == PlanAges(s) \/ CooldownEnds(s) \/ Settles(s)

Next ==
  \/ Sweep
  \/ UpdateSettings
  \/ StaggerEnds
  \/ \E s \in Sessions : Human(s) \/ Outside(s) \/ Clock(s)

Spec == Init /\ [][Next]_vars

-----------------------------------------------------------------------------
(* "Never more than a handful of times before it gives up and leaves the    *)
(* session alone": between two interventions of a human, sweeps type into a *)
(* session at most maxAttempts times, and once more if one was already      *)
(* reading when the human stepped in, however its plans were refreshed or   *)
(* replaced while a sweep still held the old one.                           *)
HandfulOfAttempts == \A s \in DOMAIN typed : typed[s] <= MaxAttempts + 1

(* "A cancel applies to the block it was pressed on": a plan cancelled at   *)
(* rest is not typed by a sweep until the cooldown has passed, though the   *)
(* terminal keeps redrawing the banner that armed it.                       *)
CancelOutlastsRedraw ==
  [][\A s \in DOMAIN typed : typed'[s] > typed[s] => ~cancelled[s]]_vars

(* "Firing is deliberately at most one plan per sweep", and sweeps that     *)
(* fire are staggered: however many plans fall due together, and whichever  *)
(* sweeps find them, one prompt is typed per stagger.                       *)
OneReleaseAtATime == released <= 1

(* "Never over a pending permission prompt": whoever types, a sweep or a    *)
(* press, no session is waiting for a human to answer a permission request. *)
NeverOverAPrompt ==
  [][/\ SweepTypes => status[heap[sweep.plan].of] # "awaiting-permission"
     /\ \A s \in Sessions : PressTypes(s) => status[s] # "awaiting-permission"]_vars
==============================================================================
