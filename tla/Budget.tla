-------------------------------- MODULE Budget --------------------------------
(***************************************************************************)
(* Spend caps: lib/budget.js. Every broadcast of a session is observed; a   *)
(* cost that rose is entered in today's ledger and judged by the caps, and  *)
(* a session beyond one is locked until a human lifts the lock.             *)
(***************************************************************************)
EXTENDS Naturals, FiniteSets, FiniteSetsExt

CONSTANTS
  Sessions,
  Costs,                \* bound: the cumulative costs hooks report of a session
  Days,                 \* bound: 1..n, in order; two of them are kept
  Options,              \* bound: the settings a user asks for
  PolicyCap,            \* the cap the repository's policy asks for, or None
  LedgerDays, None,
  MaxActs               \* bound: what the user, or a restart, does in all

VARIABLES
  live,        \* session -> "new", "live", "exited" or "gone"
  cost,        \* session.agent.cost, as last reported
  guard,       \* the BudgetGuard, with the locks it puts on sessions
  options,     \* _settings
  budgetFile,  \* what is on disk: settings and ledger
  today,
  acts,        \* how often the user, or a restart, has interfered
  grant,       \* history: what the last release of a session promised
  spared       \* history: sessions a human, or a change of settings, has spared

bvars == <<live, cost, guard, options, budgetFile, today, acts, grant, spared>>

Zero  == [s \in Sessions |-> 0]
Empty == [d \in Days |-> Zero]
(* The ledger has an entry for each of its days; they may be empty.         *)
Fresh(ledger, days, locked) ==
  [ledger |-> ledger, days |-> days, due |-> FALSE, breached |-> {}, warned |-> {},
   ceiling |-> Zero, dailyCeiling |-> 0, locked |-> locked]

(* todayTotal: what all sessions cost today, one unit at a time.            *)
Units(day) == UNION {{s} \X (1..day[s]) : s \in Sessions}
Total(l)   == Cardinality(Units(l[today]))
Spent(s) == Max({guard.ledger[d][s] : d \in Days})

Init ==
  /\ live = [s \in Sessions |-> "new"] /\ cost = Zero
  /\ guard = Fresh(Empty, {}, [s \in Sessions |-> FALSE])
  /\ options \in Options
  /\ budgetFile = [options |-> options, ledger |-> Empty, days |-> {}]
  /\ today = 1 /\ acts = 0 /\ grant = [s \in Sessions |-> None] /\ spared = {}

-----------------------------------------------------------------------------
(* The global cap or the policy's, whichever is less; 0 is no cap at all.   *)
CapFor(s) ==
  IF PolicyCap[s] = None THEN options.sessionCap
  ELSE IF options.sessionCap = 0 THEN PolicyCap[s]
  ELSE Min({options.sessionCap, PolicyCap[s]})

EffectiveCap(g, s) == IF CapFor(s) = 0 THEN 0 ELSE Max({CapFor(s), g.ceiling[s]})
EffectiveDaily(g)  == IF options.dailyCap = 0 THEN 0 ELSE Max({options.dailyCap, g.dailyCeiling})

Beyond(cap, amount) == cap > 0 /\ amount >= cap
Near(cap, amount)   == cap > 0 /\ amount * 5 >= cap * 4

Over(g, s, c) == Beyond(EffectiveCap(g, s), c) \/ Beyond(EffectiveDaily(g), Total(g.ledger))
Nearly(g, s, c) == IF EffectiveCap(g, s) > 0 THEN Near(EffectiveCap(g, s), c)
                   ELSE Near(EffectiveDaily(g), Total(g.ledger))

(* Wrong on purpose: a session once forgiven is never locked again.         *)
ForgivingEnforce(g, s, c) ==
  IF Over(g, s, c)
  THEN [g EXCEPT !.breached = @ \cup {s},
                 !.locked[s] = @ \/ (s \notin g.breached /\ options.action = "lock"
                                     /\ live'[s] = "live" /\ g.ceiling[s] = 0)]
  ELSE [g EXCEPT !.warned = IF Nearly(g, s, c) THEN @ \cup {s} ELSE @]

(* One breach gives one lock and one alert; short of it, one warning.       *)
Enforce(g, s, c) ==
  IF Over(g, s, c)
  THEN [g EXCEPT !.breached = @ \cup {s},
                 !.locked[s] = @ \/ (s \notin g.breached /\ options.action = "lock"
                                     /\ live'[s] = "live")]
  ELSE [g EXCEPT !.warned = IF Nearly(g, s, c) THEN @ \cup {s} ELSE @]

(* observe(): the day has its entry whatever the cost, and a session costs   *)
(* 0 from its creation; costs only move up, a lower report is no refund. A   *)
(* lock is broadcast in turn, and finds the cost entered.                    *)
Rises(g, s, c) == c > g.ledger[today][s]
Observed(g, s, c) ==
  LET opened  == [g EXCEPT !.days = @ \cup {today}]
      entered == [opened EXCEPT !.ledger[today][s] = c, !.due = TRUE]
  IN IF ~Rises(g, s, c) THEN opened
     ELSE IF options.enabled THEN Enforce(entered, s, c) ELSE entered

(* Judged with no breach on record, a session is spared no longer.          *)
Judged(g, s, c) == IF Rises(g, s, c) /\ s \notin g.breached THEN {s} ELSE {}

-----------------------------------------------------------------------------
Create(s) ==
  /\ live[s] = "new" /\ live' = [live EXCEPT ![s] = "live"]
  /\ UNCHANGED <<cost, guard, options, budgetFile, today, acts, grant, spared>>

(* A broadcast of the session, with the cost it has by then.                *)
Broadcast(s) ==
  /\ guard' = Observed(guard, s, cost'[s])
  /\ spared' = spared \ Judged(guard, s, cost'[s])
  /\ UNCHANGED <<options, budgetFile, today, acts, grant>>

(* A hook event carries what the session has cost so far.                   *)
Report(s, c) ==
  /\ live[s] = "live" /\ c >= cost[s]
  /\ cost' = [cost EXCEPT ![s] = c] /\ UNCHANGED live
  /\ Broadcast(s)

(* Any other change of a session.                                           *)
Touch(s) ==
  /\ live[s] \in {"live", "exited"} /\ UNCHANGED <<live, cost>>
  /\ Broadcast(s)

Exit(s) ==
  /\ live[s] = "live" /\ live' = [live EXCEPT ![s] = "exited"] /\ UNCHANGED cost
  /\ Broadcast(s)

Close(s) ==
  /\ live[s] \in {"live", "exited"} /\ live' = [live EXCEPT ![s] = "gone"] /\ UNCHANGED cost
  /\ IF live[s] = "live" THEN Broadcast(s)
     ELSE UNCHANGED <<guard, options, budgetFile, today, acts, grant, spared>>

Act == acts < MaxActs /\ acts' = acts + 1

(* SET_META: the user turns the lock of a session by hand.                  *)
SetLock(s) ==
  /\ Act /\ live[s] \in {"live", "exited"} /\ UNCHANGED <<live, cost>>
  /\ LET g == [guard EXCEPT !.locked[s] = ~@] IN
     /\ guard' = Observed(g, s, cost[s])
     /\ spared' = (IF guard.locked[s] THEN spared \cup {s} ELSE spared) \ Judged(g, s, cost[s])
  /\ UNCHANGED <<options, budgetFile, today, grant>>

(* Wrong on purpose: another cap is granted from the cap, not from what the *)
(* session has spent.                                                       *)
RaisedFromCap(s) == CapFor(s) + CapFor(s)

(* Where the ceiling of a released session is: one more cap from here.      *)
Raised(s) == guard.ledger[today][s] + CapFor(s)

Forgiven(s) ==
  [guard EXCEPT !.ceiling[s] = IF CapFor(s) > 0 THEN Raised(s) ELSE @,
                !.dailyCeiling = IF options.dailyCap > 0
                                 THEN Total(guard.ledger) + options.dailyCap ELSE @,
                !.breached = @ \ {s}, !.warned = @ \ {s}, !.locked[s] = FALSE]

(* release(): the unlock is broadcast, and observed with the new ceilings.  *)
Release(s) ==
  /\ Act /\ live[s] \in {"live", "exited"} /\ UNCHANGED <<live, cost>>
  /\ guard' = IF guard.locked[s] THEN Observed(Forgiven(s), s, cost[s]) ELSE Forgiven(s)
  /\ grant' = [grant EXCEPT ![s] =
       [cap |-> CapFor(s), spent |-> Spent(s), entered |-> ~Rises(guard, s, Spent(s)),
        day |-> today, daily |-> options.dailyCap, total |-> Total(guard.ledger)]]
  /\ spared' = spared \cup {s}
  /\ UNCHANGED <<options, budgetFile, today>>

-----------------------------------------------------------------------------
(* The newest LedgerDays days with an entry are kept.                       *)
Old(days, d)     == Cardinality({e \in days : e > d}) >= LedgerDays
Kept(days)       == {d \in days : ~Old(days, d)}
Trimmed(l, days) == [d \in Days |-> IF Old(days, d) THEN Zero ELSE l[d]]
OnDisk(o, g)     == [options |-> o, ledger |-> Trimmed(g.ledger, g.days), days |-> Kept(g.days)]

(* Wrong on purpose: of the days there are, only today's costs are written. *)
PersistToday(g, o) ==
  /\ guard' = [g EXCEPT !.due = FALSE]
  /\ budgetFile' = [options |-> o, ledger |-> [Empty EXCEPT ![today] = g.ledger[today]],
                    days |-> Kept(g.days)]

(* _persist(); a file that cannot be written is a warning.                  *)
Persist(g, o) ==
  /\ guard' = [g EXCEPT !.ledger = Trimmed(g.ledger, g.days), !.days = Kept(g.days)]
  /\ \/ budgetFile' = OnDisk(o, g)
     \/ UNCHANGED budgetFile

(* updateSettings(): a cap is needed to turn the guard on.                  *)
UpdateSettings(o) ==
  /\ Act
  /\ o.enabled => o.sessionCap > 0 \/ o.dailyCap > 0
  /\ options' = o /\ Persist(guard, o)
  /\ grant' = [s \in Sessions |-> None] /\ spared' = Sessions
  /\ UNCHANGED <<live, cost, today>>

Save ==
  /\ guard.due /\ Persist([guard EXCEPT !.due = FALSE], options)
  /\ UNCHANGED <<live, cost, options, today, acts, grant, spared>>

Midnight ==
  /\ today + 1 \in Days /\ today' = today + 1
  /\ UNCHANGED <<live, cost, guard, options, budgetFile, acts, grant, spared>>

(* The server starts again after a stop, which writes what is due, or after *)
(* a crash: the sessions are gone, and with them every ceiling.             *)
Restart ==
  /\ Act
  /\ \/ guard.due /\ budgetFile' = OnDisk(options, guard)
     \/ UNCHANGED budgetFile
  /\ live' = [s \in Sessions |-> IF live[s] = "new" THEN "new" ELSE "gone"]
  /\ guard' = Fresh(budgetFile'.ledger, budgetFile'.days, guard.locked)
  /\ options' = budgetFile'.options
  /\ UNCHANGED <<cost, today, grant, spared>>

Next ==
  \/ \E s \in Sessions : Create(s) \/ Touch(s) \/ Exit(s) \/ Close(s) \/ SetLock(s) \/ Release(s)
  \/ \E s \in Sessions : \E c \in Costs[s] : Report(s, c)
  \/ \E o \in Options : UpdateSettings(o)
  \/ Save \/ Midnight \/ Restart

Spec == Init /\ [][Next]_bvars

-----------------------------------------------------------------------------
(* Properties *)

(* While the guard may lock, a session whose cost today reached its cap is  *)
(* locked, whatever was released and spent before: unless a human took the  *)
(* lock off by hand, or changed the settings, since it was last judged.     *)
OverCapIsLocked ==
  \A s \in Sessions :
    live[s] = "live" /\ options.enabled /\ options.action = "lock"
      /\ Beyond(EffectiveCap(guard, s), guard.ledger[today][s]) /\ s \notin spared
    => guard.locked[s]

Worth(s, g) ==
  \/ g.cap > 0 /\ guard'.ledger[today][s] >= g.spent + g.cap
  \/ g.daily > 0 /\ Total(guard'.ledger) >= g.total + g.daily
Relocked(s) == grant'[s] # None /\ s \in guard'.breached /\ (s \in guard.breached => grant'[s] # grant[s])

UnlockLasts ==
  \A s \in Sessions :
    Relocked(s) /\ grant'[s].day = today /\ grant'[s].entered => Worth(s, grant'[s])
(* A release is worth one more cap: the guard does not lock the session     *)
(* again before it has spent another session cap, or all sessions another   *)
(* daily cap (comment at _ceiling). For the day of the release, and once    *)
(* the session's spending had been entered in that day's ledger.            *)
UnlockOutlastsTheDay == [][UnlockLasts]_bvars

LedgerGrows ==
  \A d \in Days, s \in Sessions :
    \/ budgetFile'.ledger[d][s] >= budgetFile.ledger[d][s]
    \/ Old(budgetFile'.days, d)
(* What the disk holds of a day is never less than it was, until the day    *)
(* is older than the LedgerDays newest of which it has an entry: neither a   *)
(* crash, nor a save that fails, nor a change of settings takes spending off *)
(* the bill. A day has its entry once a session was seen on it.              *)
LedgerIsKept == [][LedgerGrows]_bvars
==============================================================================
