----------------------------- MODULE ServerProofs -----------------------------
(***************************************************************************)
(* Proofs about five parts of the server that keep what a crash, an edit or a*)
(* copy could spoil: the caps on what sessions cost and the bill (Budget), the*)
(* token that plain starts agree on (Startup), the policy a folder is governed*)
(* by (Policy), the devices that are subscribed (Push), the answers that are*)
(* counted (Usage).                                                         *)
(***************************************************************************)
EXTENDS Budget, Integers, FiniteSetTheorems, WellFoundedInduction, TLAPS

CONSTANTS
  Procs, MaxRuns, Ports, Given, Foreign, Deepest, Cwds, Calls, Documents,
  MaxDepth, MaxRules, TTL, MaxEdits, Devices, Endpoints,
  MaxSubscriptions, MaxFailures, MaxSends, MaxRestarts, Transcripts, Messages,
  UserMessages, MaxFiles, DayHours, WeekHours, FiveHours, CacheHours,
  QuotaHours, LastHour

VARIABLES
  file, owner, proc, runs, made, disturbed, sinceEdit, edits, trustAllow,
  cache, said, held, client, madeWith, key, subs, failures, pushFile, sends,
  restarts, shown, told, cause, unwritten, hour, lines, mtime, quotaFile, pass

Start  == INSTANCE Startup
Rules  == INSTANCE Policy
Pushes == INSTANCE Push
Meter  == INSTANCE Usage

(* What the constants stand for: costs and caps are numbers (updateSettings  *)
(* and the policy's parser see to the caps), and days follow each other.     *)
Plausible ==
  /\ \A s \in Sessions : Costs[s] \subseteq Nat
  /\ \A s \in Sessions : PolicyCap[s] = None \/ PolicyCap[s] \in Nat
  /\ \A o \in Options : o.sessionCap \in Nat
  /\ \E n \in Nat : Days = 1..n
  /\ 1 \in Days /\ LedgerDays \in Nat

Ledgers == [Days -> [Sessions -> Nat]]

(* The daily ceiling rests on a sum, whose size matters to the last theorem only. *)
Guards(ceiling) ==
  [ledger : Ledgers, days : SUBSET Days, due : BOOLEAN, breached : SUBSET Sessions, warned : SUBSET Sessions,
   ceiling : [Sessions -> Nat], dailyCeiling : {ceiling}, locked : [Sessions -> BOOLEAN]]
Guarded(g) == g \in Guards(g.dailyCeiling)

Lives == {"new", "live", "exited", "gone"}
Files == [options : Options, ledger : Ledgers, days : SUBSET Days]

BillTypeOK ==
  /\ live \in [Sessions -> Lives] /\ cost \in [Sessions -> Nat]
  /\ Guarded(guard) /\ options \in Options
  /\ budgetFile \in Files
  /\ today \in Days /\ spared \subseteq Sessions

-----------------------------------------------------------------------------
(* Caps *)

LEMMA MaxOfTwo ==
  ASSUME NEW a \in Nat, NEW b \in Nat
  PROVE  Max({a, b}) \in Nat /\ Min({a, b}) \in Nat
<1>1. \E x \in {a, b} : \A y \in {a, b} : x >= y
  OBVIOUS
<1>2. \E x \in {a, b} : \A y \in {a, b} : x =< y
  OBVIOUS
<1>3. Max({a, b}) \in {a, b}
  BY <1>1 DEF Max
<1>4. Min({a, b}) \in {a, b}
  BY <1>2 DEF Min
<1> QED
  BY <1>3, <1>4

LEMMA CapsTyped ==
  ASSUME Plausible, options \in Options, NEW s \in Sessions
  PROVE  CapFor(s) \in Nat
<1>1. options.sessionCap \in Nat /\ (PolicyCap[s] = None \/ PolicyCap[s] \in Nat)
  BY DEF Plausible
<1> QED
  BY <1>1, MaxOfTwo DEF CapFor

LEMMA CeilingsTyped ==
  ASSUME Plausible, options \in Options, NEW g, Guarded(g), NEW s \in Sessions
  PROVE  EffectiveCap(g, s) \in Nat
BY CapsTyped, MaxOfTwo DEF EffectiveCap, Guarded, Guards

-----------------------------------------------------------------------------
(* A cost is observed *)

LEMMA EnforceUp ==
  ASSUME NEW g, Guarded(g), NEW s \in Sessions, NEW c, NEW h, h = Enforce(g, s, c)
  PROVE  /\ Guarded(h) /\ h.ledger = g.ledger /\ h.ceiling = g.ceiling /\ h.days = g.days
         /\ \A t \in Sessions \ {s} : (t \in h.breached <=> t \in g.breached)
                                      /\ h.locked[t] = g.locked[t]
         /\ g.locked[s] => h.locked[s]
         /\ s \in h.breached <=> s \in g.breached \/ Over(g, s, c)
         /\ s \in h.breached /\ s \notin g.breached
              /\ options.action = "lock" /\ live'[s] = "live" => h.locked[s]
<1>1. CASE Over(g, s, c)
  <2> DEFINE locks == g.locked[s] \/ (s \notin g.breached /\ options.action = "lock"
                                      /\ live'[s] = "live")
             row   == [g.locked EXCEPT ![s] = locks]
             br    == g.breached \cup {s}
  <2>1. /\ row \in [Sessions -> BOOLEAN] /\ (row[s] <=> locks)
        /\ \A t \in Sessions \ {s} : row[t] = g.locked[t]
        /\ br \in SUBSET Sessions
    BY DEF Guarded, Guards
  <2> HIDE DEF row, locks, br
  <2>2. h = [g EXCEPT !.breached = br, !.locked = row]
    BY <1>1 DEF Enforce, Guarded, Guards, row, locks, br
  <2>3. /\ Guarded(h) /\ h.ledger = g.ledger /\ h.ceiling = g.ceiling /\ h.days = g.days
        /\ h.breached = br /\ h.locked = row
    BY <2>1, <2>2 DEF Guarded, Guards
  <2> QED
    BY <1>1, <2>1, <2>3 DEF locks, br
<1>2. CASE ~Over(g, s, c)
  <2>1. PICK w \in SUBSET Sessions : h = [g EXCEPT !.warned = w]
    <3>1. CASE Nearly(g, s, c)
      <4>1. h = [g EXCEPT !.warned = g.warned \cup {s}] /\ g.warned \cup {s} \in SUBSET Sessions
        BY <1>2, <3>1 DEF Enforce, Guarded, Guards
      <4> QED
        BY <4>1
    <3>2. CASE ~Nearly(g, s, c)
      <4>1. h = [g EXCEPT !.warned = g.warned] /\ g.warned \in SUBSET Sessions
        BY <1>2, <3>2 DEF Enforce, Guarded, Guards
      <4> QED
        BY <4>1
    <3> QED
      BY <3>1, <3>2
  <2>2. /\ Guarded(h) /\ h.ledger = g.ledger /\ h.ceiling = g.ceiling /\ h.days = g.days
        /\ h.breached = g.breached /\ h.locked = g.locked
    BY <2>1 DEF Guarded, Guards
  <2> QED
    BY <1>2, <2>2
<1> QED
  BY <1>1, <1>2

LEMMA ObservedUp ==
  ASSUME NEW g, Guarded(g), today \in Days, NEW s \in Sessions, NEW c \in Nat,
         NEW h, h = Observed(g, s, c)
  PROVE  /\ Guarded(h) /\ h.ceiling = g.ceiling /\ h.days = g.days \cup {today}
         /\ \A d \in Days, t \in Sessions :
              h.ledger[d][t] = IF Rises(g, s, c) /\ d = today /\ t = s THEN c ELSE g.ledger[d][t]
         /\ \A t \in Sessions \ {s} : (t \in h.breached <=> t \in g.breached)
                                      /\ h.locked[t] = g.locked[t]
         /\ g.locked[s] => h.locked[s]
         /\ ~Rises(g, s, c) => h.breached = g.breached /\ h.locked = g.locked
         /\ s \in g.breached => s \in h.breached
         /\ s \in h.breached /\ s \notin g.breached
              /\ options.action = "lock" /\ live'[s] = "live" => h.locked[s]
         /\ Rises(g, s, c) /\ options.enabled /\ Beyond(EffectiveCap(g, s), c) => s \in h.breached
<1> DEFINE opened == [g EXCEPT !.days = g.days \cup {today}]
<1>1. CASE ~Rises(g, s, c)
  <2>1. h = opened
    BY <1>1 DEF Observed
  <2>2. /\ Guarded(h) /\ h.ceiling = g.ceiling /\ h.days = g.days \cup {today}
        /\ h.ledger = g.ledger /\ h.breached = g.breached /\ h.locked = g.locked
    BY <2>1 DEF Guarded, Guards
  <2> QED
    BY <1>1, <2>2
<1>2. CASE Rises(g, s, c)
  <2> DEFINE row  == [g.ledger EXCEPT ![today][s] = c]
             days == g.days \cup {today}
             e    == [opened EXCEPT !.ledger = row, !.due = TRUE]
  <2>1. row \in Ledgers /\ \A d \in Days, t \in Sessions :
          row[d][t] = IF d = today /\ t = s THEN c ELSE g.ledger[d][t]
    BY DEF Guarded, Guards, Ledgers
  <2>2. h = IF options.enabled THEN Enforce(e, s, c) ELSE e
    BY <1>2 DEF Observed, Guarded, Guards
  <2>0. days \subseteq Days
    BY DEF Guarded, Guards
  <2>3. /\ Guarded(e) /\ e.ledger = row /\ e.ceiling = g.ceiling /\ e.days = days
        /\ e.breached = g.breached /\ e.locked = g.locked
    <3> HIDE DEF row
    <3> QED
      BY <2>0, <2>1 DEF Guarded, Guards
  <2> HIDE DEF row, e
  <2>4. CASE ~options.enabled
    BY <1>2, <2>1, <2>2, <2>3, <2>4
  <2>5. CASE options.enabled
    <3>1. h = Enforce(e, s, c)
      BY <2>2, <2>5
    <3>2. /\ Guarded(h) /\ h.ledger = e.ledger /\ h.ceiling = e.ceiling /\ h.days = e.days
          /\ \A t \in Sessions \ {s} : (t \in h.breached <=> t \in e.breached)
                                       /\ h.locked[t] = e.locked[t]
          /\ e.locked[s] => h.locked[s]
          /\ s \in h.breached <=> s \in e.breached \/ Over(e, s, c)
          /\ s \in h.breached /\ s \notin e.breached
               /\ options.action = "lock" /\ live'[s] = "live" => h.locked[s]
      BY <2>3, <3>1, EnforceUp
    <3>3. EffectiveCap(e, s) = EffectiveCap(g, s)
      BY <2>3 DEF EffectiveCap
    <3>4. Beyond(EffectiveCap(g, s), c) => Over(e, s, c)
      BY <3>3 DEF Over
    <3> QED
      BY <1>2, <2>1, <2>3, <3>2, <3>4
  <2> QED
    BY <2>4, <2>5
<1> QED
  BY <1>1, <1>2

-----------------------------------------------------------------------------
(* The ledger *)

(* What b holds of a day is what a holds of it, or more; or it is too old    *)
(* among the days that b has.                                                *)
NoLess(a, b, days) == \A d \in Days, s \in Sessions : a[d][s] <= b[d][s] \/ Old(days, d)

LEMMA DaysFinite ==
  ASSUME Plausible, NEW D, D \subseteq Days
  PROVE  IsFiniteSet(D) /\ Cardinality(D) \in Nat
<1>1. PICK n \in Nat : Days = 1..n
  BY DEF Plausible
<1>2. IsFiniteSet(Days)
  BY <1>1, FS_Interval
<1> QED
  BY <1>2, FS_Subset, FS_CardinalityType

(* There is a last day among some.                                          *)
LEMMA LastDay ==
  ASSUME Plausible, NEW D, D \subseteq Days, D # {}
  PROVE  \E d \in D : \A e \in D : e <= d
<1>1. PICK n \in Nat : Days = 1..n
  BY DEF Plausible
<1> DEFINE T == {n - d : d \in D}
<1>2. T \subseteq Nat /\ T # {}
  <2>1. \A d \in D : d \in Nat /\ d <= n
    BY <1>1
  <2>2. \A d \in D : n - d \in Nat
    BY <2>1
  <2> QED
    BY <2>2
<1>3. PICK x \in T : \A y \in T : ~ (<<y, x>> \in OpToRel(<, Nat))
  <2> HIDE DEF T
  <2> QED
    BY <1>2, NatLessThanWellFounded, WFMin
<1>4. \A y \in T : ~(y < x)
  BY <1>2, <1>3 DEF OpToRel
<1>5. PICK d \in D : x = n - d
  OBVIOUS
<1>6. ASSUME NEW e \in D
      PROVE  e <= d
  <2>1. e \in Nat /\ d \in Nat /\ n - e \in T
    BY <1>1
  <2>2. ~(n - e < n - d)
    BY <1>4, <1>5, <2>1
  <2> QED
    BY <2>1, <2>2
<1> QED
  BY <1>6

LEMMA OldStays ==
  ASSUME Plausible, NEW D \in SUBSET Days, NEW E \in SUBSET Days, NEW d \in Days,
         D \subseteq E, Old(D, d)
  PROVE  Old(E, d)
<1> DEFINE A == {e \in D : e > d}
           B == {e \in E : e > d}
<1>1. A \subseteq B /\ B \subseteq Days
  OBVIOUS
<1>2. Cardinality(A) >= LedgerDays /\ LedgerDays \in Nat
  BY DEF Old, Plausible
<1> HIDE DEF A, B
<1>3. Cardinality(A) <= Cardinality(B) /\ Cardinality(A) \in Nat /\ Cardinality(B) \in Nat
  BY <1>1, DaysFinite, FS_Subset
<1>4. Cardinality(B) >= LedgerDays
  BY <1>2, <1>3
<1> QED
  BY <1>4 DEF Old, B

LEMMA TrimmedIs ==
  ASSUME NEW l \in Ledgers, NEW D \in SUBSET Days
  PROVE  /\ Trimmed(l, D) \in Ledgers
         /\ \A d \in Days, s \in Sessions :
              Trimmed(l, D)[d][s] = IF Old(D, d) THEN 0 ELSE l[d][s]
<1>1. Zero \in [Sessions -> Nat] /\ \A s \in Sessions : Zero[s] = 0
  BY DEF Zero
<1>2. Trimmed(l, D) \in Ledgers
  BY <1>1 DEF Ledgers, Trimmed
<1>3. \A d \in Days, s \in Sessions :
        Trimmed(l, D)[d][s] = IF Old(D, d) THEN 0 ELSE l[d][s]
  BY <1>1 DEF Trimmed
<1> QED
  BY <1>2, <1>3

(* A day that is too old still is when the old days are dropped: the newest  *)
(* LedgerDays days are kept.                                                *)
LEMMA OldWhenTrimmed ==
  ASSUME Plausible, NEW D \in SUBSET Days, NEW d \in Days, Old(D, d)
  PROVE  Old(Kept(D), d)
<1> DEFINE T == {e \in Kept(D) : e > d}
           G == {e \in D : e > d /\ Old(D, e)}
<1>1. Kept(D) = {e \in D : ~Old(D, e)}
  BY DEF Kept
<1>2. LedgerDays \in Nat /\ Days \subseteq Nat
  BY DEF Plausible
<1>3. Cardinality(T) >= LedgerDays
  <2>1. CASE G = {}
    <3>1. T = {e \in D : e > d}
      BY <1>1, <2>1
    <3> QED
      BY <3>1 DEF Old
  <2>2. CASE G # {}
    <3>1. G \subseteq Days
      OBVIOUS
    <3>2. PICK m \in G : \A e \in G : e <= m
      BY <2>2, <3>1, LastDay
    <3> DEFINE N == {e \in D : e > m}
    <3>3. ASSUME NEW e \in N
          PROVE  e \in T
      <4>1. e \in Nat /\ m \in Nat /\ d \in Nat /\ e \in D /\ e > m /\ m > d
        BY <1>2, <3>2
      <4>2. e \notin G
        BY <3>2, <4>1
      <4> QED
        BY <1>1, <4>1, <4>2
    <3>4. T \subseteq Days
      BY <1>1
    <3>5. Cardinality(N) >= LedgerDays
      BY <3>2 DEF Old
    <3> HIDE DEF T, N
    <3>6. Cardinality(N) <= Cardinality(T) /\ Cardinality(N) \in Nat /\ Cardinality(T) \in Nat
      BY <3>3, <3>4, DaysFinite, FS_Subset
    <3> QED
      BY <1>2, <3>5, <3>6
  <2> QED
    BY <2>1, <2>2
<1> QED
  BY <1>3 DEF Old

LEMMA NoLessTrimmed ==
  ASSUME Plausible, NEW a \in Ledgers, NEW l \in Ledgers, NEW D \in SUBSET Days,
         NoLess(a, l, D)
  PROVE  NoLess(a, Trimmed(l, D), Kept(D))
<1> SUFFICES ASSUME NEW d \in Days, NEW s \in Sessions
             PROVE  a[d][s] <= Trimmed(l, D)[d][s] \/ Old(Kept(D), d)
  BY DEF NoLess
<1>1. CASE Old(D, d)
  BY <1>1, OldWhenTrimmed
<1>2. CASE ~Old(D, d)
  BY <1>2, TrimmedIs DEF NoLess
<1> QED
  BY <1>1, <1>2

LEMMA NoLessGrown ==
  ASSUME Plausible, NEW a \in Ledgers, NEW b \in Ledgers, NEW l \in Ledgers,
         NEW D \in SUBSET Days, NEW E \in SUBSET Days, D \subseteq E, NoLess(a, b, D),
         \A d \in Days, s \in Sessions : b[d][s] <= l[d][s]
  PROVE  NoLess(a, l, E)
<1> SUFFICES ASSUME NEW d \in Days, NEW s \in Sessions
             PROVE  a[d][s] <= l[d][s] \/ Old(E, d)
  BY DEF NoLess
<1>1. CASE Old(D, d)
  BY <1>1, OldStays
<1>2. CASE ~Old(D, d)
  <2>1. a[d][s] \in Nat /\ b[d][s] \in Nat /\ l[d][s] \in Nat
    BY DEF Ledgers
  <2> QED
    BY <1>2, <2>1 DEF NoLess
<1> QED
  BY <1>1, <1>2

-----------------------------------------------------------------------------
(* The invariant *)

(* Nothing is entered for a day that has not come.                          *)
FutureIsBlank ==
  /\ \A d \in Days, s \in Sessions :
       d > today => guard.ledger[d][s] = 0 /\ budgetFile.ledger[d][s] = 0
  /\ \A d \in guard.days \cup budgetFile.days : d <= today

(* A session beyond its cap is locked, and so is one whose breach is on      *)
(* record: the guard acts on a breach once, and never again while it stands. *)
Claim(s) ==
  /\ live[s] = "live" /\ options.enabled /\ options.action = "lock" /\ s \notin spared
  /\ s \in guard.breached \/ Beyond(EffectiveCap(guard, s), guard.ledger[today][s])
  => guard.locked[s]
LocksHold == \A s \in Sessions : Claim(s)

(* A session that is not there yet has spent nothing.                       *)
Unborn(s) ==
  live[s] = "new" => /\ s \notin guard.breached
                     /\ \A d \in Days : guard.ledger[d][s] = 0 /\ budgetFile.ledger[d][s] = 0
NewIsBlank == \A s \in Sessions : Unborn(s)

(* The guard knows of at least what the disk does.                          *)
BillHolds == NoLess(budgetFile.ledger, guard.ledger, guard.days)

BillInv == BillTypeOK /\ FutureIsBlank /\ NewIsBlank /\ LocksHold /\ BillHolds

(* One session is observed, as the guard g has it: nothing of it is lost,    *)
(* and if it is not spared it was judged now, or locked, or as it was.       *)
LEMMA ObservedInv ==
  ASSUME Plausible, BillInv, NEW s \in Sessions, NEW g, Guarded(g), NEW c \in Nat,
         g.ledger = guard.ledger, g.days = guard.days,
         \A t \in Sessions \ {s} : /\ g.ceiling[t] = guard.ceiling[t]
                                   /\ t \in g.breached <=> t \in guard.breached
                                   /\ g.locked[t] = guard.locked[t],
         cost' \in [Sessions -> Nat], live' \in [Sessions -> Lives],
         live[s] # "new", \A t \in Sessions : live'[t] \in {"new", "live"} => live'[t] = live[t],
         guard' = Observed(g, s, c) \/ (guard' = g /\ ~Rises(g, s, c)),
         UNCHANGED <<options, budgetFile, today>>,
         spared' \subseteq Sessions, \A t \in Sessions \ {s} : t \in spared => t \in spared',
         \/ s \in spared' \/ g.locked[s]
         \/ Rises(g, s, c) /\ s \notin g.breached
         \/ g = guard /\ s \notin spared
  PROVE  BillInv'
<1>1. /\ Guarded(guard') /\ guard'.ceiling = g.ceiling
      /\ g.days \subseteq guard'.days /\ guard'.days \subseteq g.days \cup {today}
      /\ \A d \in Days, t \in Sessions :
           guard'.ledger[d][t] =
             IF Rises(g, s, c) /\ d = today /\ t = s THEN c ELSE g.ledger[d][t]
      /\ \A t \in Sessions \ {s} : (t \in guard'.breached <=> t \in g.breached)
                                   /\ guard'.locked[t] = g.locked[t]
      /\ g.locked[s] => guard'.locked[s]
      /\ ~Rises(g, s, c) => guard'.breached = g.breached /\ guard'.locked = g.locked
      /\ s \in g.breached => s \in guard'.breached
      /\ s \in guard'.breached /\ s \notin g.breached
           /\ options.action = "lock" /\ live'[s] = "live" => guard'.locked[s]
      /\ Rises(g, s, c) /\ options.enabled /\ Beyond(EffectiveCap(g, s), c)
           => s \in guard'.breached
  <2>1. /\ Guarded(g) /\ s \in Sessions /\ today \in Days /\ c \in Nat
    BY DEF BillInv, BillTypeOK
  <2>2. PICK h : h = Observed(g, s, c)
    OBVIOUS
  <2>3. /\ Guarded(h) /\ h.ceiling = g.ceiling /\ h.days = g.days \cup {today}
        /\ \A d \in Days, t \in Sessions :
             h.ledger[d][t] = IF Rises(g, s, c) /\ d = today /\ t = s THEN c ELSE g.ledger[d][t]
        /\ \A t \in Sessions \ {s} : (t \in h.breached <=> t \in g.breached)
                                     /\ h.locked[t] = g.locked[t]
        /\ g.locked[s] => h.locked[s]
        /\ ~Rises(g, s, c) => h.breached = g.breached /\ h.locked = g.locked
        /\ s \in g.breached => s \in h.breached
        /\ s \in h.breached /\ s \notin g.breached
             /\ options.action = "lock" /\ live'[s] = "live" => h.locked[s]
        /\ Rises(g, s, c) /\ options.enabled /\ Beyond(EffectiveCap(g, s), c) => s \in h.breached
    BY ONLY <2>1, <2>2, ObservedUp
  <2>4. CASE guard' = h
    BY ONLY <2>3, <2>4
  <2>5. CASE guard' = g /\ ~Rises(g, s, c)
    BY ONLY <2>1, <2>5
  <2> QED
    BY <2>2, <2>4, <2>5
<1>2. /\ g.ledger \in Ledgers /\ guard'.ledger \in Ledgers /\ budgetFile.ledger \in Ledgers
      /\ g.days \in SUBSET Days /\ guard'.days \in SUBSET Days
      /\ today \in Days /\ Days \subseteq Nat
  BY <1>1 DEF Guarded, Guards, BillInv, BillTypeOK, Plausible, Files
<1>3. BillTypeOK'
  BY <1>1 DEF BillInv, BillTypeOK
<1>4. FutureIsBlank'
  BY <1>1, <1>2 DEF BillInv, FutureIsBlank
<1>5. ASSUME NEW t \in Sessions \ {s}
      PROVE  Claim(t)'
  <2>1. EffectiveCap(guard', t) = EffectiveCap(guard, t)
    BY <1>1 DEF EffectiveCap
  <2>2. guard'.ledger[today][t] = guard.ledger[today][t]
    BY <1>1, <1>2
  <2>3. CapFor(t)' = CapFor(t)
    BY DEF CapFor
  <2>4. EffectiveCap(guard, t)' = EffectiveCap(guard', t)
    BY <2>3 DEF EffectiveCap
  <2> QED
    BY <1>1, <2>1, <2>2, <2>4 DEF BillInv, LocksHold, Claim
<1>6. Claim(s)'
  <2>1. CapFor(s)' = CapFor(s)
    BY DEF CapFor
  <2>2. EffectiveCap(guard, s)' = EffectiveCap(g, s)
    BY <1>1, <2>1 DEF EffectiveCap
  <2>3. SUFFICES ASSUME live'[s] = "live", options.enabled, options.action = "lock",
                        s \notin spared',
                        s \in guard'.breached
                          \/ Beyond(EffectiveCap(g, s), guard'.ledger[today][s])
                 PROVE  guard'.locked[s]
    BY <2>2 DEF Claim
  <2>4. CASE g.locked[s]
    BY <1>1, <2>4
  <2>5. CASE Rises(g, s, c) /\ s \notin g.breached
    <3>1. guard'.ledger[today][s] = c
      BY <1>1, <1>2, <2>5
    <3> QED
      BY <1>1, <2>3, <2>5, <3>1
  <2>6. CASE g = guard /\ s \notin spared /\ ~(Rises(g, s, c) /\ s \notin g.breached)
    <3>1. CASE s \in g.breached
      BY <1>1, <2>3, <2>6, <3>1 DEF BillInv, LocksHold, Claim
    <3>2. CASE s \notin g.breached
      <4>1. guard'.ledger[today][s] = g.ledger[today][s] /\ guard'.locked = g.locked
        BY <1>1, <1>2, <2>6, <3>2
      <4> QED
        BY <1>1, <2>3, <2>6, <3>2, <4>1 DEF BillInv, LocksHold, Claim
    <3> QED
      BY <3>1, <3>2
  <2> QED
    BY <2>3, <2>4, <2>5, <2>6
<1>7. BillHolds'
  <2>1. \A d \in Days, t \in Sessions : g.ledger[d][t] <= guard'.ledger[d][t]
    BY <1>1, <1>2 DEF Rises, Ledgers
  <2>2. NoLess(budgetFile.ledger, g.ledger, g.days)
    BY DEF BillInv, BillHolds
  <2>3. NoLess(budgetFile.ledger, guard'.ledger, guard'.days)
    BY ONLY <1>1, <1>2, <2>1, <2>2, NoLessGrown, Plausible
  <2> QED
    BY <2>3 DEF BillHolds, NoLess, Old
<1>8. ASSUME NEW t \in Sessions
      PROVE  Unborn(t)'
  <2>1. CASE t = s
    BY <2>1 DEF Unborn
  <2>2. CASE t # s
    BY <1>1, <2>2 DEF BillInv, NewIsBlank, Unborn
  <2> QED
    BY <2>1, <2>2
<1> QED
  BY <1>3, <1>4, <1>5, <1>6, <1>7, <1>8 DEF BillInv, LocksHold, NewIsBlank

LEMMA BroadcastInv ==
  ASSUME Plausible, BillInv, NEW s \in Sessions, Broadcast(s),
         cost' \in [Sessions -> Nat], live' \in [Sessions -> Lives],
         live[s] # "new", \A t \in Sessions : live'[t] \in {"new", "live"} => live'[t] = live[t]
  PROVE  BillInv'
<1>1. /\ guard' = Observed(guard, s, cost'[s])
      /\ spared' = spared \ Judged(guard, s, cost'[s])
      /\ UNCHANGED <<options, budgetFile, today>>
  BY DEF Broadcast
<1>2. spared' \subseteq Sessions /\ \A t \in Sessions \ {s} : t \in spared => t \in spared'
  BY <1>1 DEF Judged, BillInv, BillTypeOK
<1>3. s \in spared' \/ s \notin spared \/ (Rises(guard, s, cost'[s]) /\ s \notin guard.breached)
  BY <1>1 DEF Judged
<1>4. cost'[s] \in Nat /\ Guarded(guard)
  BY DEF BillInv, BillTypeOK
<1> QED
  BY <1>1, <1>2, <1>3, <1>4, ObservedInv

-----------------------------------------------------------------------------
(* The user *)

LEMMA SetLockInv ==
  ASSUME Plausible, BillInv, NEW s \in Sessions, SetLock(s)
  PROVE  BillInv'
<1> DEFINE row == [guard.locked EXCEPT ![s] = ~guard.locked[s]]
           g   == [guard EXCEPT !.locked = row]
<1>1. /\ row \in [Sessions -> BOOLEAN] /\ (row[s] <=> ~guard.locked[s])
      /\ \A t \in Sessions \ {s} : row[t] = guard.locked[t]
  BY DEF BillInv, BillTypeOK, Guarded, Guards
<1>2. /\ guard' = Observed(g, s, cost[s])
      /\ spared' = (IF guard.locked[s] THEN spared \cup {s} ELSE spared) \ Judged(g, s, cost[s])
      /\ UNCHANGED <<live, cost, options, budgetFile, today>> /\ live[s] # "new"
  BY DEF SetLock, BillInv, BillTypeOK, Guarded, Guards
<1> HIDE DEF row
<1>3. /\ Guarded(g) /\ g.ledger = guard.ledger /\ g.days = guard.days
      /\ g.ceiling = guard.ceiling /\ g.breached = guard.breached /\ g.locked = row
  BY <1>1 DEF BillInv, BillTypeOK, Guarded, Guards
<1> HIDE DEF g
<1>4. /\ cost' \in [Sessions -> Nat] /\ live' \in [Sessions -> Lives] /\ cost[s] \in Nat
      /\ live[s] # "new" /\ \A t \in Sessions : live'[t] \in {"new", "live"} => live'[t] = live[t]
  BY <1>2 DEF BillInv, BillTypeOK
<1>5. spared' \subseteq Sessions /\ \A t \in Sessions \ {s} : t \in spared => t \in spared'
  BY <1>2 DEF Judged, BillInv, BillTypeOK
<1>6. s \in spared' \/ g.locked[s] \/ (Rises(g, s, cost[s]) /\ s \notin g.breached)
  BY <1>1, <1>2, <1>3 DEF Judged
<1> QED
  BY <1>1, <1>2, <1>3, <1>4, <1>5, <1>6, ObservedInv

LEMMA ForgivenUp ==
  ASSUME Plausible, BillTypeOK, NEW s \in Sessions, NEW g, g = Forgiven(s)
  PROVE  /\ Guarded(g) /\ g.ledger = guard.ledger /\ g.days = guard.days
         /\ \A t \in Sessions \ {s} : /\ g.ceiling[t] = guard.ceiling[t]
                                      /\ t \in g.breached <=> t \in guard.breached
                                      /\ g.locked[t] = guard.locked[t]
<1> DEFINE high  == IF CapFor(s) > 0 THEN Raised(s) ELSE guard.ceiling[s]
           row   == [guard.ceiling EXCEPT ![s] = high]
           daily == IF options.dailyCap > 0 THEN Total(guard.ledger) + options.dailyCap
                    ELSE guard.dailyCeiling
           freed == [guard.locked EXCEPT ![s] = FALSE]
           b     == guard.breached \ {s}
           w     == guard.warned \ {s}
<1>1. high \in Nat
  BY CapsTyped DEF Raised, BillTypeOK, Guarded, Guards, Ledgers
<1>2. g = [guard EXCEPT !.ceiling = row, !.dailyCeiling = daily, !.breached = b,
                        !.warned = w, !.locked = freed]
  BY DEF Forgiven, BillTypeOK, Guarded, Guards
<1> HIDE DEF high
<1>3. /\ row \in [Sessions -> Nat] /\ freed \in [Sessions -> BOOLEAN]
      /\ b \in SUBSET Sessions /\ w \in SUBSET Sessions
      /\ \A t \in Sessions \ {s} : /\ row[t] = guard.ceiling[t] /\ freed[t] = guard.locked[t]
                                   /\ t \in b <=> t \in guard.breached
  BY <1>1 DEF BillTypeOK, Guarded, Guards
<1> HIDE DEF row, daily, freed, b, w
<1>4. /\ Guarded(g) /\ g.ledger = guard.ledger /\ g.days = guard.days /\ g.ceiling = row
      /\ g.breached = b /\ g.locked = freed
  BY <1>2, <1>3 DEF BillTypeOK, Guarded, Guards
<1> QED
  BY <1>3, <1>4

LEMMA ReleaseInv ==
  ASSUME Plausible, BillInv, NEW s \in Sessions, Release(s)
  PROVE  BillInv'
<1> DEFINE g == Forgiven(s)
<1>1. /\ guard' = IF guard.locked[s] THEN Observed(g, s, cost[s]) ELSE g
      /\ spared' = spared \cup {s}
      /\ UNCHANGED <<live, cost, options, budgetFile, today>> /\ live[s] # "new"
  BY DEF Release
<1>2. /\ Guarded(g) /\ g.ledger = guard.ledger /\ g.days = guard.days
      /\ \A t \in Sessions \ {s} : /\ g.ceiling[t] = guard.ceiling[t]
                                   /\ t \in g.breached <=> t \in guard.breached
                                   /\ g.locked[t] = guard.locked[t]
  BY ForgivenUp DEF BillInv
<1> HIDE DEF g
<1>3. /\ cost' \in [Sessions -> Nat] /\ live' \in [Sessions -> Lives] /\ cost[s] \in Nat
      /\ live[s] # "new" /\ \A t \in Sessions : live'[t] \in {"new", "live"} => live'[t] = live[t]
      /\ spared' \subseteq Sessions /\ s \in spared'
      /\ \A t \in Sessions \ {s} : t \in spared => t \in spared'
  BY <1>1 DEF BillInv, BillTypeOK
<1>4. PICK c \in Nat : guard' = Observed(g, s, c) \/ (guard' = g /\ ~Rises(g, s, c))
  <2>1. CASE guard.locked[s]
    BY <1>1, <1>3, <2>1
  <2>2. CASE ~guard.locked[s]
    <3>1. 0 \in Nat /\ ~Rises(g, s, 0)
      BY <1>2 DEF Rises, Guarded, Guards, Ledgers, BillInv, BillTypeOK
    <3> QED
      BY <1>1, <2>2, <3>1
  <2> QED
    BY <2>1, <2>2
<1> QED
  BY <1>1, <1>2, <1>3, <1>4, ObservedInv

-----------------------------------------------------------------------------
(* The file *)

LEMMA TrimmedStays ==
  ASSUME Plausible, BillInv, NEW l, l = Trimmed(guard.ledger, guard.days),
         NEW D, D = Kept(guard.days)
  PROVE  /\ l \in Ledgers /\ D \in SUBSET Days /\ NoLess(budgetFile.ledger, l, D)
         /\ \A d \in Days, s \in Sessions :
              /\ d > today => l[d][s] = 0
              /\ l[d][s] \in {0, guard.ledger[d][s]}
         /\ \A d \in D : d <= today
<1>1. /\ guard.ledger \in Ledgers /\ budgetFile.ledger \in Ledgers
      /\ guard.days \in SUBSET Days
  BY DEF BillInv, BillTypeOK, Guarded, Guards, Files
<1>2. NoLess(budgetFile.ledger, l, D)
  BY <1>1, NoLessTrimmed DEF BillInv, BillHolds
<1>3. D \subseteq guard.days
  BY DEF Kept
<1> QED
  BY <1>1, <1>2, <1>3, TrimmedIs DEF BillInv, FutureIsBlank

LEMMA NoLessSame ==
  ASSUME NEW a \in Ledgers, NEW D
  PROVE  NoLess(a, a, D)
BY DEF NoLess, Ledgers

(* A save, of whatever the guard holds, with the options as they will be.    *)
LEMMA PersistUp ==
  ASSUME Plausible, BillInv, NEW due \in BOOLEAN, options' \in Options,
         Persist([guard EXCEPT !.due = due], options'),
         NEW l, l = Trimmed(guard.ledger, guard.days), NEW D, D = Kept(guard.days)
  PROVE  /\ Guarded(guard') /\ guard'.ledger = l /\ guard'.days = D
         /\ guard'.breached = guard.breached /\ guard'.ceiling = guard.ceiling
         /\ guard'.locked = guard.locked
         /\ budgetFile' \in Files
         /\ \/ budgetFile'.ledger = l /\ budgetFile'.days = D
            \/ budgetFile' = budgetFile
         /\ NoLess(budgetFile'.ledger, guard'.ledger, guard'.days)
         /\ NoLess(budgetFile.ledger, budgetFile'.ledger, budgetFile'.days)
<1> DEFINE g == [guard EXCEPT !.due = due]
<1>1. l \in Ledgers /\ D \in SUBSET Days /\ NoLess(budgetFile.ledger, l, D)
  BY TrimmedStays
<1>2. Guarded(g) /\ g.ledger = guard.ledger /\ g.days = guard.days
      /\ g.breached = guard.breached /\ g.ceiling = guard.ceiling /\ g.locked = guard.locked
  BY DEF BillInv, BillTypeOK, Guarded, Guards
<1>3. guard' = [g EXCEPT !.ledger = l, !.days = D]
  BY <1>2 DEF Persist
<1>4. budgetFile' = [options |-> options', ledger |-> l, days |-> D] \/ budgetFile' = budgetFile
  BY <1>2 DEF Persist, OnDisk
<1> HIDE DEF g
<1>5. Guarded(guard') /\ guard'.ledger = l /\ guard'.days = D /\ guard'.breached = g.breached
      /\ guard'.ceiling = g.ceiling /\ guard'.locked = g.locked
  BY <1>1, <1>2, <1>3 DEF Guarded, Guards
<1>6. /\ budgetFile' \in Files /\ budgetFile.ledger \in Ledgers
      /\ \/ budgetFile'.ledger = l /\ budgetFile'.days = D
         \/ budgetFile' = budgetFile
  BY <1>1, <1>4 DEF BillInv, BillTypeOK, Files
<1>7. /\ NoLess(budgetFile'.ledger, l, D)
      /\ NoLess(budgetFile.ledger, budgetFile'.ledger, budgetFile'.days)
  BY <1>1, <1>6, NoLessSame
<1> QED
  BY <1>2, <1>5, <1>6, <1>7

LEMMA SaveInv ==
  ASSUME Plausible, BillInv, Save
  PROVE  BillInv' /\ NoLess(budgetFile.ledger, budgetFile'.ledger, budgetFile'.days)
<1> DEFINE l == Trimmed(guard.ledger, guard.days)
           D == Kept(guard.days)
<1>1. /\ Persist([guard EXCEPT !.due = FALSE], options')
      /\ UNCHANGED <<live, cost, options, today, spared>> /\ options' \in Options
  BY DEF Save, BillInv, BillTypeOK
<1>2. /\ Guarded(guard') /\ guard'.ledger = l /\ guard'.days = D
      /\ guard'.breached = guard.breached /\ guard'.ceiling = guard.ceiling
      /\ guard'.locked = guard.locked
      /\ budgetFile' \in Files
      /\ \/ budgetFile'.ledger = l /\ budgetFile'.days = D
         \/ budgetFile' = budgetFile
      /\ NoLess(budgetFile'.ledger, guard'.ledger, guard'.days)
      /\ NoLess(budgetFile.ledger, budgetFile'.ledger, budgetFile'.days)
  BY <1>1, PersistUp
<1>3. /\ \A d \in Days, s \in Sessions :
           /\ d > today => guard'.ledger[d][s] = 0 /\ budgetFile'.ledger[d][s] = 0
           /\ guard'.ledger[d][s] \in {0, guard.ledger[d][s]}
           /\ budgetFile'.ledger[d][s] \in {0, guard.ledger[d][s], budgetFile.ledger[d][s]}
      /\ \A d \in guard'.days \cup budgetFile'.days : d <= today
  BY <1>2, TrimmedStays DEF BillInv, FutureIsBlank
<1>4. BillTypeOK' /\ FutureIsBlank' /\ NewIsBlank' /\ BillHolds'
  BY <1>1, <1>2, <1>3 DEF BillInv, BillTypeOK, FutureIsBlank, NewIsBlank, Unborn, BillHolds
<1>5. ASSUME NEW s \in Sessions
      PROVE  Claim(s)'
  <2>1. CapFor(s)' = CapFor(s)
    BY <1>1 DEF CapFor
  <2>2. EffectiveCap(guard, s)' = EffectiveCap(guard, s)
    BY <1>2, <1>1, <2>1 DEF EffectiveCap
  <2>3. today \in Days /\ EffectiveCap(guard, s) \in Nat
    BY CeilingsTyped DEF BillInv, BillTypeOK
  <2>4. Beyond(EffectiveCap(guard, s), guard'.ledger[today][s])
          => Beyond(EffectiveCap(guard, s), guard.ledger[today][s])
    BY <1>3, <2>3 DEF Beyond
  <2> QED
    BY <1>1, <1>2, <2>2, <2>4 DEF BillInv, LocksHold, Claim
<1> QED
  BY <1>2, <1>4, <1>5 DEF BillInv, LocksHold

LEMMA UpdateSettingsInv ==
  ASSUME Plausible, BillInv, NEW o \in Options, UpdateSettings(o)
  PROVE  BillInv' /\ NoLess(budgetFile.ledger, budgetFile'.ledger, budgetFile'.days)
<1> DEFINE l == Trimmed(guard.ledger, guard.days)
           D == Kept(guard.days)
<1>1. /\ options' = o /\ Persist(guard, options') /\ options' \in Options
      /\ UNCHANGED <<live, cost, today>> /\ spared' = Sessions
  BY DEF UpdateSettings
<1>2. PICK due \in BOOLEAN : guard = [guard EXCEPT !.due = due]
  <2>1. guard.due \in BOOLEAN /\ guard = [guard EXCEPT !.due = guard.due]
    BY DEF BillInv, BillTypeOK, Guarded, Guards
  <2> QED
    BY <2>1
<1>3. /\ Guarded(guard') /\ guard'.ledger = l /\ guard'.days = D
      /\ budgetFile' \in Files /\ guard'.breached = guard.breached
      /\ \/ budgetFile'.ledger = l /\ budgetFile'.days = D
         \/ budgetFile' = budgetFile
      /\ NoLess(budgetFile'.ledger, guard'.ledger, guard'.days)
      /\ NoLess(budgetFile.ledger, budgetFile'.ledger, budgetFile'.days)
  BY <1>1, <1>2, PersistUp
<1>4. /\ \A d \in Days, s \in Sessions :
           /\ d > today => guard'.ledger[d][s] = 0 /\ budgetFile'.ledger[d][s] = 0
           /\ guard'.ledger[d][s] \in {0, guard.ledger[d][s]}
           /\ budgetFile'.ledger[d][s] \in {0, guard.ledger[d][s], budgetFile.ledger[d][s]}
      /\ \A d \in guard'.days \cup budgetFile'.days : d <= today
  BY <1>3, TrimmedStays DEF BillInv, FutureIsBlank
<1>5. BillTypeOK' /\ FutureIsBlank' /\ NewIsBlank' /\ BillHolds'
  BY <1>1, <1>3, <1>4 DEF BillInv, BillTypeOK, FutureIsBlank, NewIsBlank, Unborn, BillHolds
<1>6. LocksHold'
  BY <1>1 DEF LocksHold, Claim
<1> QED
  BY <1>3, <1>5, <1>6 DEF BillInv

LEMMA RestartInv ==
  ASSUME Plausible, BillInv, Restart
  PROVE  BillInv' /\ NoLess(budgetFile.ledger, budgetFile'.ledger, budgetFile'.days)
<1> DEFINE l == Trimmed(guard.ledger, guard.days)
           D == Kept(guard.days)
<1>1. /\ l \in Ledgers /\ D \in SUBSET Days /\ NoLess(budgetFile.ledger, l, D)
      /\ \A d \in Days, s \in Sessions : /\ d > today => l[d][s] = 0
                                         /\ l[d][s] \in {0, guard.ledger[d][s]}
      /\ \A d \in D : d <= today
  BY TrimmedStays
<1>2. /\ \/ budgetFile' = [options |-> options, ledger |-> l, days |-> D]
         \/ budgetFile' = budgetFile
      /\ live' = [s \in Sessions |-> IF live[s] = "new" THEN "new" ELSE "gone"]
      /\ guard' = Fresh(budgetFile'.ledger, budgetFile'.days, guard.locked)
      /\ options' = budgetFile'.options
      /\ UNCHANGED <<cost, today, spared>>
  BY DEF Restart, OnDisk
<1> HIDE DEF l, D
<1>3. /\ budgetFile' \in Files /\ budgetFile \in Files
      /\ \/ budgetFile'.ledger = l /\ budgetFile'.days = D
         \/ budgetFile' = budgetFile
  BY <1>1, <1>2 DEF BillInv, BillTypeOK, Files
<1>4. NoLess(budgetFile.ledger, budgetFile'.ledger, budgetFile'.days)
  BY <1>1, <1>3, NoLessSame DEF Files
<1>5. Guarded(guard') /\ guard'.ledger = budgetFile'.ledger /\ guard'.days = budgetFile'.days
      /\ guard'.breached = {}
  BY <1>2, <1>3 DEF Fresh, Zero, Guarded, Guards, BillInv, BillTypeOK, Files
<1>6. BillTypeOK'
  BY <1>2, <1>3, <1>5 DEF BillInv, BillTypeOK, Lives, Files
<1>7. FutureIsBlank'
  BY <1>1, <1>2, <1>3, <1>5 DEF BillInv, FutureIsBlank
<1>8. LocksHold'
  BY <1>2 DEF LocksHold, Claim
<1>9. BillHolds'
  BY <1>3, <1>5, NoLessSame DEF BillHolds, Files
<1>10. NewIsBlank'
  BY <1>1, <1>2, <1>3, <1>5 DEF BillInv, NewIsBlank, Unborn, BillTypeOK
<1> QED
  BY <1>4, <1>6, <1>7, <1>8, <1>9, <1>10 DEF BillInv

-----------------------------------------------------------------------------
LEMMA BillInitInv == Plausible /\ Init => BillInv
<1> SUFFICES ASSUME Plausible, Init PROVE BillInv
  OBVIOUS
<1>1. Zero \in [Sessions -> Nat] /\ \A s \in Sessions : Zero[s] = 0
  BY DEF Zero
<1>2. Empty \in Ledgers /\ \A d \in Days, s \in Sessions : Empty[d][s] = 0
  BY <1>1 DEF Empty, Ledgers
<1>3. Guarded(guard) /\ guard.ledger = Empty /\ guard.days = {}
  BY <1>1, <1>2 DEF Init, Fresh, Guarded, Guards
<1>4. BillTypeOK
  BY <1>1, <1>2, <1>3 DEF Init, BillTypeOK, Lives, Plausible, Files
<1>5. FutureIsBlank /\ NewIsBlank
  BY <1>2, <1>3 DEF Init, Fresh, FutureIsBlank, NewIsBlank, Unborn
<1>6. LocksHold
  BY DEF Init, LocksHold, Claim
<1>7. BillHolds
  BY <1>2, <1>3, NoLessSame DEF Init, BillHolds
<1> QED
  BY <1>4, <1>5, <1>6, <1>7 DEF BillInv

(* A day passes: nothing is on its bill yet.                                *)
LEMMA MidnightInv ==
  ASSUME Plausible, BillInv, Midnight
  PROVE  BillInv'
<1>1. /\ today' \in Days /\ today' = today + 1
      /\ UNCHANGED <<live, cost, guard, options, budgetFile, spared>>
  BY DEF Midnight
<1>2. today \in Nat /\ Days \subseteq Nat
  BY DEF Plausible, BillInv, BillTypeOK
<1>3. BillTypeOK' /\ NewIsBlank' /\ BillHolds'
  BY <1>1 DEF BillInv, BillTypeOK, NewIsBlank, Unborn, BillHolds
<1>4. FutureIsBlank'
  <2>1. guard.days \cup budgetFile.days \subseteq Nat
    BY <1>2 DEF BillInv, BillTypeOK, Guarded, Guards, Files
  <2> QED
    BY <1>1, <1>2, <2>1 DEF BillInv, FutureIsBlank
<1>5. ASSUME NEW s \in Sessions
      PROVE  Claim(s)'
  <2>1. guard.ledger[today'][s] = 0
    BY <1>1, <1>2 DEF BillInv, FutureIsBlank
  <2>2. CapFor(s)' = CapFor(s)
    BY <1>1 DEF CapFor
  <2>3. EffectiveCap(guard, s)' = EffectiveCap(guard, s) /\ EffectiveCap(guard, s) \in Nat
    BY <1>1, <2>2, CeilingsTyped DEF EffectiveCap, BillInv, BillTypeOK
  <2>4. ~Beyond(EffectiveCap(guard, s), 0)
    BY <2>3 DEF Beyond
  <2> QED
    BY <1>1, <2>1, <2>3, <2>4 DEF BillInv, LocksHold, Claim
<1> QED
  BY <1>3, <1>4, <1>5 DEF BillInv, LocksHold

LEMMA BillNextInv == Plausible /\ BillInv /\ [Next]_bvars
                   => BillInv' /\ NoLess(budgetFile.ledger, budgetFile'.ledger, budgetFile'.days)
<1> SUFFICES ASSUME Plausible, BillInv, [Next]_bvars
             PROVE  BillInv' /\ NoLess(budgetFile.ledger, budgetFile'.ledger, budgetFile'.days)
  OBVIOUS
<1>1. budgetFile' = budgetFile => NoLess(budgetFile.ledger, budgetFile'.ledger, budgetFile'.days)
  BY NoLessSame DEF BillInv, BillTypeOK, Files
<1>2. ASSUME NEW s \in Sessions, Create(s) \/ (Close(s) /\ live[s] = "exited")
      PROVE  BillInv' /\ budgetFile' = budgetFile
  <2>1. /\ live' \in [Sessions -> Lives]
        /\ UNCHANGED <<cost, guard, options, budgetFile, today, spared>>
    BY <1>2 DEF Create, Close, BillInv, BillTypeOK, Lives
  <2>2. BillTypeOK' /\ FutureIsBlank' /\ BillHolds'
    BY <2>1 DEF BillInv, BillTypeOK, FutureIsBlank, BillHolds
  <2>3. /\ \A t \in Sessions : live'[t] = "new" => live[t] = "new"
        /\ \A t \in Sessions : live'[t] = "live" => live[t] \in {"new", "live"}
    BY <1>2 DEF Create, Close, BillInv, BillTypeOK
  <2>4. NewIsBlank'
    BY <2>1, <2>3 DEF BillInv, NewIsBlank, Unborn
  <2>5. ASSUME NEW t \in Sessions
        PROVE  Claim(t)'
    <3>1. CapFor(t)' = CapFor(t)
      BY <2>1 DEF CapFor
    <3>2. EffectiveCap(guard, t)' = EffectiveCap(guard, t) /\ EffectiveCap(guard, t) \in Nat
      BY <2>1, <3>1, CeilingsTyped DEF EffectiveCap, BillInv, BillTypeOK
    <3>3. CASE live[t] = "new"
      <4>1. t \notin guard.breached /\ guard.ledger[today][t] = 0
        BY <3>3 DEF BillInv, BillTypeOK, NewIsBlank, Unborn
      <4> QED
        BY <2>1, <3>2, <4>1 DEF Claim, Beyond
    <3>4. CASE live[t] # "new"
      BY <2>1, <2>3, <3>2, <3>4 DEF BillInv, LocksHold, Claim
    <3> QED
      BY <3>3, <3>4
  <2> QED
    BY <2>1, <2>2, <2>4, <2>5 DEF BillInv, LocksHold
<1>3. ASSUME NEW s \in Sessions, NEW c \in Costs[s], Report(s, c)
      PROVE  BillInv' /\ budgetFile' = budgetFile
  <2>1. c \in Nat
    BY <1>3 DEF Plausible
  <2>2. /\ Broadcast(s) /\ live' = live /\ live[s] = "live"
        /\ cost' \in [Sessions -> Nat]
    BY <1>3, <2>1 DEF Report, BillInv, BillTypeOK
  <2> QED
    BY <2>2, BroadcastInv DEF Broadcast, BillInv, BillTypeOK
<1>4. ASSUME NEW s \in Sessions, Touch(s) \/ Exit(s) \/ (Close(s) /\ live[s] = "live")
      PROVE  BillInv' /\ budgetFile' = budgetFile
  <2>1. /\ Broadcast(s) /\ cost' = cost /\ live[s] # "new"
        /\ live' \in [Sessions -> Lives]
        /\ \A t \in Sessions : live'[t] \in {"new", "live"} => live'[t] = live[t]
    BY <1>4 DEF Touch, Exit, Close, BillInv, BillTypeOK, Lives
  <2> QED
    BY <2>1, BroadcastInv DEF Broadcast, BillInv, BillTypeOK
<1>5. ASSUME NEW s \in Sessions, SetLock(s)
      PROVE  BillInv' /\ budgetFile' = budgetFile
  BY <1>5, SetLockInv DEF SetLock
<1>6. ASSUME NEW s \in Sessions, Release(s)
      PROVE  BillInv' /\ budgetFile' = budgetFile
  BY <1>6, ReleaseInv DEF Release
<1>7. CASE Midnight
  BY <1>1, <1>7, MidnightInv DEF Midnight
<1>8. CASE UNCHANGED bvars
  <2>1. BillInv'
    BY <1>8
      DEF bvars, BillInv, BillTypeOK, FutureIsBlank, NewIsBlank, Unborn, LocksHold, Claim,
       BillHolds, EffectiveCap, CapFor
  <2> QED
    BY <1>1, <1>8, <2>1 DEF bvars
<1> QED
  BY <1>1, <1>2, <1>3, <1>4, <1>5, <1>6, <1>7, <1>8, UpdateSettingsInv, SaveInv, RestartInv
     DEF Next, Close

(* While the guard may lock, a session whose cost today reached its cap is   *)
(* locked, unless a human took its lock off or changed the settings since it *)
(* was last judged: release() and SET_META are the only ways past a cap.     *)
THEOREM BeyondIsLocked ==
  ASSUME Plausible
  PROVE  Spec => []OverCapIsLocked
<1>1. BillInv => OverCapIsLocked
  BY DEF BillInv, LocksHold, Claim, OverCapIsLocked
<1>2. Init => BillInv
  BY BillInitInv
<1>3. BillInv /\ [Next]_bvars => BillInv'
  BY BillNextInv
<1> QED
  BY <1>1, <1>2, <1>3, PTL DEF Spec

(* The bill on disk only grows, until a day is older than the LedgerDays     *)
(* newest it has an entry of (observe opens one whatever the cost): neither a*)
(* crash nor a failed save nor a change of settings takes what was spent off *)
(* it.                                                                      *)
THEOREM TheBillStands ==
  ASSUME Plausible
  PROVE  Spec => LedgerIsKept
<1>1. BillInv /\ [Next]_bvars => [LedgerGrows]_bvars
  <2> SUFFICES ASSUME BillInv, [Next]_bvars PROVE LedgerGrows
    OBVIOUS
  <2>1. NoLess(budgetFile.ledger, budgetFile'.ledger, budgetFile'.days) /\ BillInv'
    BY BillNextInv
  <2>2. budgetFile.ledger \in Ledgers /\ budgetFile'.ledger \in Ledgers
    BY <2>1 DEF BillInv, BillTypeOK, Files
  <2> QED
    BY <2>1, <2>2 DEF LedgerGrows, NoLess, Ledgers
<1>2. Init => BillInv
  BY BillInitInv
<1>3. BillInv /\ [Next]_bvars => BillInv'
  BY BillNextInv
<1> QED
  BY <1>1, <1>2, <1>3, PTL DEF Spec, LedgerIsKept

-----------------------------------------------------------------------------
(* What a release is worth *)

(* The sums are of finitely many costs; a day is kept at least while it is   *)
(* the last one.                                                            *)
Summable ==
  IsFiniteSet(Sessions) /\ LedgerDays # 0 /\ \A o \in Options : o.dailyCap \in Nat

Grants == [cap : Nat, spent : Nat, entered : BOOLEAN, day : Days, daily : Nat, total : Nat]

(* On the day of a release the ceilings are where it put them, or higher:    *)
(* the total they were reckoned from has not shrunk since.                  *)
Stands(g, p, s) ==
  /\ p.cap > 0 => g.ceiling[s] >= p.spent + p.cap
  /\ p.daily > 0 => /\ g.dailyCeiling >= p.total + p.daily
                    /\ Total(g.ledger) >= p.total
Held(g, p, s) ==
  /\ p \in Grants /\ p.day <= today /\ live[s] # "new"
  /\ live[s] # "gone" => /\ p.cap = CapFor(s) /\ p.daily = options.dailyCap
                         /\ p.day = today /\ p.entered => Stands(g, p, s)
Promised ==
  /\ guard.dailyCeiling \in Nat /\ grant = [s \in Sessions |-> grant[s]]
  /\ \A s \in Sessions : grant[s] # None => Held(guard, grant[s], s)

LEMMA UnitsFinite ==
  ASSUME Summable, NEW f \in [Sessions -> Nat]
  PROVE  IsFiniteSet(Units(f))
<1> DEFINE parts == {{s} \X (1..f[s]) : s \in Sessions}
           part  == [s \in Sessions |-> {s} \X (1..f[s])]
<1>1. IsFiniteSet(parts)
  <2>1. part \in [Sessions -> parts] /\ \A p \in parts : \E s \in Sessions : part[s] = p
    OBVIOUS
  <2>2. part \in Surjection(Sessions, parts)
    <3> HIDE DEF parts, part
    <3> QED
      BY <2>1 DEF Surjection
  <2> HIDE DEF parts, part
  <2> QED
    BY <2>2, FS_Surjection DEF Summable
<1>2. \A p \in parts : IsFiniteSet(p)
  <2>1. ASSUME NEW s \in Sessions
        PROVE  IsFiniteSet({s} \X (1..f[s]))
    <3>1. IsFiniteSet({s})
      BY FS_Singleton
    <3>2. IsFiniteSet(1..f[s])
      BY FS_Interval
    <3> QED
      BY <3>1, <3>2, FS_Product
  <2> QED
    BY <2>1
<1>3. Units(f) = UNION parts
  BY DEF Units
<1> HIDE DEF parts
<1> QED
  BY <1>1, <1>2, <1>3, FS_UNION

LEMMA TotalGrows ==
  ASSUME Summable, NEW a \in Ledgers, NEW b \in Ledgers, today \in Days,
         \A s \in Sessions : a[today][s] <= b[today][s]
  PROVE  Total(a) \in Nat /\ Total(b) \in Nat /\ Total(a) <= Total(b)
<1>1. a[today] \in [Sessions -> Nat] /\ b[today] \in [Sessions -> Nat]
  BY DEF Ledgers
<1>2. IsFiniteSet(Units(a[today])) /\ IsFiniteSet(Units(b[today]))
  BY <1>1, UnitsFinite
<1>3. Units(a[today]) \in SUBSET Units(b[today])
  <2>1. \A s \in Sessions : 1..a[today][s] \subseteq 1..b[today][s]
    BY <1>1
  <2> QED
    BY <2>1 DEF Units
<1> QED
  BY <1>2, <1>3, FS_Subset, FS_CardinalityType DEF Total

LEMMA TotalTyped ==
  ASSUME Summable, NEW a \in Ledgers, today \in Days
  PROVE  Total(a) \in Nat
<1>1. \A s \in Sessions : a[today][s] <= a[today][s]
  BY DEF Ledgers
<1> QED
  BY <1>1, TotalGrows

(* Some cost is the highest of all days.                                    *)
LEMMA SpentTyped ==
  ASSUME Plausible, BillInv, NEW s \in Sessions
  PROVE  Spent(s) \in Nat
<1> DEFINE f(d) == guard.ledger[d][s]
           S == {f(d) : d \in Days}
           bounds(k) == {x \in Nat : \A d \in 1..k : f(d) <= x}
<1>1. PICK n \in Nat : Days = 1..n /\ n >= 1
  <2>1. PICK n \in Nat : Days = 1..n
    BY DEF Plausible
  <2> QED
    BY <2>1 DEF Plausible
<1>2. \A d \in Days : f(d) \in Nat
  BY DEF BillInv, BillTypeOK, Guarded, Guards, Ledgers
<1> HIDE DEF f
<1>3. bounds(n) # {}
  <2> DEFINE without == {k \in 0..n : bounds(k) = {}}
  <2>1. n \in 0..n
    BY <1>1
  <2>2. n \in without <=> bounds(n) = {}
    BY <2>1
  <2> HIDE DEF bounds
  <2> SUFFICES ASSUME without # {} PROVE FALSE
    BY <2>2
  <2> USE DEF bounds
  <2>3. without \subseteq Nat
    OBVIOUS
  <2>4. PICK k \in without : \A j \in without : ~ (<<j, k>> \in OpToRel(<, Nat))
    <3> HIDE DEF without
    <3> QED
      BY <2>3, NatLessThanWellFounded, WFMin
  <2>5. \A j \in without : ~(j < k)
    BY <2>3, <2>4 DEF OpToRel
  <2>6. k # 0
    <3>1. 0 \in bounds(0)
      OBVIOUS
    <3> QED
      BY <3>1
  <2>7. k - 1 \in 0..n /\ k \in 1..n
    BY <2>6
  <2>8. PICK x : x \in bounds(k - 1)
    BY <2>5, <2>7
  <2>9. \A d \in 1..k : d = k \/ d \in 1..(k - 1)
    BY <2>7
  <2>10. f(k) \in Nat
    BY <1>1, <1>2, <2>7
  <2>11. CASE f(k) <= x
    <3>1. x \in bounds(k)
      BY <2>8, <2>9, <2>11
    <3> QED
      BY <3>1
  <2>12. CASE ~(f(k) <= x)
    <3>1. \A d \in 1..(k - 1) : f(d) \in Nat /\ f(d) <= x
      BY <1>1, <1>2, <2>7, <2>8
    <3>2. \A d \in 1..k : f(d) <= f(k)
      BY <2>8, <2>9, <2>10, <2>12, <3>1
    <3>3. f(k) \in bounds(k)
      BY <2>10, <3>2
    <3> QED
      BY <3>3
  <2> QED
    BY <2>11, <2>12
<1> DEFINE all == bounds(n)
<1>4. all \subseteq Nat
  OBVIOUS
<1>5. PICK x \in all : \A y \in all : ~ (<<y, x>> \in OpToRel(<, Nat))
  <2> HIDE DEF all
  <2> QED
    BY <1>3, <1>4, NatLessThanWellFounded, WFMin DEF all
<1>6. x \in Nat /\ \A y \in all : ~(y < x)
  BY <1>4, <1>5 DEF OpToRel
<1>7. \A d \in Days : f(d) <= x
  BY <1>1
<1>8. x \in S
  <2> SUFFICES ASSUME x \notin S PROVE FALSE
    OBVIOUS
  <2>1. \A d \in Days : f(d) # x
    OBVIOUS
  <2>2. x # 0
    BY <1>1, <1>2, <1>7, <2>1
  <2>3. x - 1 \in Nat /\ \A d \in Days : f(d) <= x - 1
    BY <1>2, <1>6, <1>7, <2>1, <2>2
  <2>4. x - 1 \in all
    BY <1>1, <2>3
  <2> QED
    BY <1>6, <2>4
<1>9. \A y \in S : y \in Nat /\ x >= y
  BY <1>2, <1>6, <1>7
<1>10. Spent(s) \in S
  <2>1. \E z \in S : \A y \in S : z >= y
    BY <1>8, <1>9
  <2>2. Max(S) \in S
    <3> HIDE DEF S
    <3> QED
      BY <2>1 DEF Max
  <2> QED
    BY <2>2 DEF Spent, f
<1> QED
  BY <1>9, <1>10

-----------------------------------------------------------------------------
(* A breach *)

LEMMA MaxIsNoLess ==
  ASSUME NEW a \in Nat, NEW b \in Nat
  PROVE  Max({a, b}) \in Nat /\ Max({a, b}) >= a /\ Max({a, b}) >= b
<1>1. \E x \in {a, b} : \A y \in {a, b} : x >= y
  OBVIOUS
<1>2. Max({a, b}) \in {a, b} /\ \A y \in {a, b} : Max({a, b}) >= y
  BY <1>1 DEF Max
<1> QED
  BY <1>2

LEMMA BreachIsReal ==
  ASSUME NEW g, Guarded(g), today \in Days, NEW s \in Sessions, NEW c \in Nat,
         NEW h, h = Observed(g, s, c)
  PROVE  /\ h.dailyCeiling = g.dailyCeiling
         /\ s \in h.breached /\ s \notin g.breached
              => /\ h.ledger[today][s] = c
                 /\ \/ Beyond(EffectiveCap(g, s), c)
                    \/ Beyond(EffectiveDaily(g), Total(h.ledger))
<1> DEFINE days   == g.days \cup {today}
           opened == [g EXCEPT !.days = days]
<1>0. days \in SUBSET Days
  BY DEF Guarded, Guards
<1>1. CASE ~Rises(g, s, c)
  <2>1. h = opened
    BY <1>1 DEF Observed
  <2>2. h.dailyCeiling = g.dailyCeiling /\ h.breached = g.breached
    BY <2>1 DEF Guarded, Guards
  <2> QED
    BY <2>2
<1>2. CASE Rises(g, s, c)
  <2> DEFINE row == [g.ledger EXCEPT ![today][s] = c]
             e   == [opened EXCEPT !.ledger = row, !.due = TRUE]
  <2>1. row \in Ledgers /\ row[today][s] = c
    BY DEF Guarded, Guards, Ledgers
  <2>2. h = IF options.enabled THEN Enforce(e, s, c) ELSE e
    BY <1>2 DEF Observed, Guarded, Guards
  <2>3. /\ Guarded(e) /\ e.ledger = row /\ e.ceiling = g.ceiling
        /\ e.breached = g.breached /\ e.dailyCeiling = g.dailyCeiling
    <3> HIDE DEF row, days
    <3> QED
      BY <1>0, <2>1 DEF Guarded, Guards
  <2> HIDE DEF row, e
  <2>4. EffectiveCap(e, s) = EffectiveCap(g, s) /\ EffectiveDaily(e) = EffectiveDaily(g)
    BY <2>3 DEF EffectiveCap, EffectiveDaily
  <2>5. CASE ~options.enabled
    BY <2>2, <2>3, <2>5
  <2>6. CASE options.enabled
    <3>1. h = Enforce(e, s, c)
      BY <2>2, <2>6
    <3>2. h.dailyCeiling = e.dailyCeiling
      <4>1. CASE Over(e, s, c)
        BY <2>3, <3>1, <4>1 DEF Enforce, Guarded, Guards
      <4>2. CASE ~Over(e, s, c)
        BY <2>3, <3>1, <4>2 DEF Enforce, Guarded, Guards
      <4> QED
        BY <4>1, <4>2
    <3>3. h.ledger = e.ledger /\ (s \in h.breached <=> s \in e.breached \/ Over(e, s, c))
      BY <2>3, <3>1, EnforceUp
    <3> QED
      BY <2>1, <2>3, <2>4, <3>2, <3>3 DEF Over
  <2> QED
    BY <2>5, <2>6
<1> QED
  BY <1>1, <1>2

LEMMA BeyondIsWorth ==
  ASSUME Plausible, Summable, options \in Options, today \in Days, NEW s \in Sessions,
         NEW g, Guarded(g), g.dailyCeiling \in Nat, NEW p \in Grants,
         p.cap = CapFor(s), p.daily = options.dailyCap, Stands(g, p, s),
         NEW c \in Nat, NEW n \in Nat,
         Beyond(EffectiveCap(g, s), c) \/ Beyond(EffectiveDaily(g), n)
  PROVE  \/ p.cap > 0 /\ c >= p.spent + p.cap
         \/ p.daily > 0 /\ n >= p.total + p.daily
<1>1. /\ p.cap \in Nat /\ p.spent \in Nat /\ p.daily \in Nat /\ p.total \in Nat
      /\ g.ceiling[s] \in Nat
  BY DEF Grants, Guarded, Guards
<1>2. CASE Beyond(EffectiveCap(g, s), c)
  <2>1. CapFor(s) # 0 /\ EffectiveCap(g, s) = Max({CapFor(s), g.ceiling[s]})
    BY <1>2 DEF Beyond, EffectiveCap
  <2>2. Max({CapFor(s), g.ceiling[s]}) \in Nat /\ Max({CapFor(s), g.ceiling[s]}) >= g.ceiling[s]
    BY <1>1, MaxIsNoLess
  <2>3. c >= g.ceiling[s]
    BY <1>1, <1>2, <2>1, <2>2 DEF Beyond
  <2> QED
    BY <1>1, <2>1, <2>3 DEF Stands
<1>3. CASE Beyond(EffectiveDaily(g), n)
  <2>1. options.dailyCap # 0 /\ EffectiveDaily(g) = Max({options.dailyCap, g.dailyCeiling})
    BY <1>3 DEF Beyond, EffectiveDaily
  <2>2. /\ Max({options.dailyCap, g.dailyCeiling}) \in Nat
        /\ Max({options.dailyCap, g.dailyCeiling}) >= g.dailyCeiling
    BY <1>1, MaxIsNoLess
  <2>3. n >= g.dailyCeiling
    BY <1>1, <1>3, <2>1, <2>2 DEF Beyond
  <2> QED
    BY <1>1, <2>1, <2>3 DEF Stands
<1> QED
  BY <1>2, <1>3

(* A session is observed, as the guard g has it and with what was granted by *)
(* then: what was promised is kept, and a breach it puts on record is one.   *)
LEMMA ObservedKeeps ==
  ASSUME Plausible, Summable, BillInv, BillInv', NEW s \in Sessions, NEW c \in Nat,
         NEW g, Guarded(g), g.dailyCeiling \in Nat, g.ledger = guard.ledger,
         guard' = Observed(g, s, c) \/ (guard' = g /\ ~Rises(g, s, c)),
         UNCHANGED <<options, today>>,
         grant' = [t \in Sessions |-> grant'[t]], live[s] \notin {"new", "gone"},
         \A t \in Sessions : /\ live'[t] = "new" <=> live[t] = "new"
                             /\ live[t] = "gone" => live'[t] = "gone",
         \A t \in Sessions : grant'[t] # None => Held(g, grant'[t], t),
         \A t \in Sessions \ {s} : /\ t \in g.breached <=> t \in guard.breached
                                   /\ grant'[t] = grant[t],
         s \in g.breached => s \in guard.breached /\ grant'[s] = grant[s]
  PROVE  Promised' /\ UnlockLasts
<1>0. today \in Days /\ options \in Options /\ g.ledger \in Ledgers
  BY DEF BillInv, BillTypeOK, Guarded, Guards
<1>1. PICK h : h = guard'
  OBVIOUS
<1>2. /\ Guarded(h) /\ h.ceiling = g.ceiling /\ h.dailyCeiling = g.dailyCeiling
      /\ \A d \in Days, t \in Sessions :
           h.ledger[d][t] = IF Rises(g, s, c) /\ d = today /\ t = s THEN c ELSE g.ledger[d][t]
      /\ \A t \in Sessions \ {s} : t \in h.breached <=> t \in g.breached
      /\ s \in h.breached /\ s \notin g.breached
           => /\ h.ledger[today][s] = c
              /\ \/ Beyond(EffectiveCap(g, s), c)
                 \/ Beyond(EffectiveDaily(g), Total(h.ledger))
  <2>1. CASE guard' = Observed(g, s, c)
    <3>1. h = Observed(g, s, c)
      BY <1>1, <2>1
    <3> QED
      BY ONLY <1>0, <3>1, ObservedUp, BreachIsReal, Guarded(g), s \in Sessions, c \in Nat
  <2>2. CASE guard' = g /\ ~Rises(g, s, c)
    BY <1>1, <2>2
  <2> QED
    BY <2>1, <2>2
<1>3. guard' = h
  BY <1>1
<1>4. h.ledger \in Ledgers /\ \A t \in Sessions : g.ledger[today][t] <= h.ledger[today][t]
  <2>1. h.ledger \in Ledgers
    BY <1>2 DEF Guarded, Guards
  <2>2. \A t \in Sessions : g.ledger[today][t] \in Nat
    BY <1>0 DEF Ledgers
  <2> QED
    BY <1>0, <1>2, <2>1, <2>2 DEF Rises
<1>5. Total(g.ledger) \in Nat /\ Total(h.ledger) \in Nat /\ Total(g.ledger) <= Total(h.ledger)
  BY <1>0, <1>4, TotalGrows
<1>6. Total(h.ledger)' = Total(h.ledger)
  BY DEF Total
<1>7. ASSUME NEW t \in Sessions, NEW p, p = grant'[t], p # None
      PROVE  Held(h, p, t)'
  <2>1. Held(g, p, t)
    BY <1>7
  <2>2. CapFor(t)' = CapFor(t)
    BY DEF CapFor
  <2>3. Stands(g, p, t) => Stands(h, p, t)'
    <3>1. p \in Grants
      BY <2>1 DEF Held
    <3>2. p.total \in Nat
      BY <3>1 DEF Grants
    <3> QED
      BY <1>2, <1>5, <1>6, <3>2 DEF Stands
  <2> QED
    BY <2>1, <2>2, <2>3 DEF Held
<1>8. Promised'
  BY <1>2, <1>3, <1>7 DEF Promised, Held, Stands
<1>9. ASSUME NEW t \in Sessions, Relocked(t), grant'[t].day = today, grant'[t].entered
      PROVE  Worth(t, grant'[t])
  <2>1. /\ grant'[t] # None /\ t \in h.breached
        /\ t \in guard.breached => grant'[t] # grant[t]
    BY <1>3, <1>9 DEF Relocked
  <2>2. t = s /\ s \notin g.breached
    BY <1>2, <2>1
  <2>3. Held(g, grant'[s], s)
    BY <2>1, <2>2
  <2>4. PICK p \in Grants : /\ p = grant'[s] /\ p.cap = CapFor(s) /\ p.daily = options.dailyCap
                            /\ Stands(g, p, s)
    BY <1>9, <2>2, <2>3 DEF Held
  <2>5. Beyond(EffectiveCap(g, s), c) \/ Beyond(EffectiveDaily(g), Total(h.ledger))
    BY <1>2, <2>1, <2>2
  <2>6. \/ p.cap > 0 /\ c >= p.spent + p.cap
        \/ p.daily > 0 /\ Total(h.ledger) >= p.total + p.daily
    BY <1>0, <1>5, <2>4, <2>5, BeyondIsWorth
  <2>7. h.ledger[today][s] = c
    BY <1>2, <2>1, <2>2
  <2> QED
    BY <1>3, <2>2, <2>4, <2>6, <2>7 DEF Worth
<1> QED
  BY <1>8, <1>9 DEF UnlockLasts

LEMMA BroadcastKeeps ==
  ASSUME Plausible, Summable, BillInv, BillInv', Promised, NEW s \in Sessions, Broadcast(s),
         live[s] \notin {"new", "gone"},
         \A t \in Sessions : /\ live'[t] = "new" <=> live[t] = "new"
                             /\ live[t] = "gone" => live'[t] = "gone"
  PROVE  Promised' /\ UnlockLasts
<1>1. /\ guard' = Observed(guard, s, cost'[s]) /\ UNCHANGED <<options, today, grant>>
  BY DEF Broadcast
<1>2. cost'[s] \in Nat /\ Guarded(guard)
  BY DEF BillInv, BillTypeOK
<1> QED
  BY <1>1, <1>2, ObservedKeeps DEF Promised

LEMMA SetLockKeeps ==
  ASSUME Plausible, Summable, BillInv, BillInv', Promised, NEW s \in Sessions, SetLock(s)
  PROVE  Promised' /\ UnlockLasts
<1> DEFINE row == [guard.locked EXCEPT ![s] = ~guard.locked[s]]
           g   == [guard EXCEPT !.locked = row]
<1>1. row \in [Sessions -> BOOLEAN]
  BY DEF BillInv, BillTypeOK, Guarded, Guards
<1>2. /\ guard' = Observed(g, s, cost[s])
      /\ UNCHANGED <<live, cost, options, today, grant>> /\ live[s] \in {"live", "exited"}
  BY DEF SetLock, BillInv, BillTypeOK, Guarded, Guards
<1> HIDE DEF row
<1>3. /\ Guarded(g) /\ g.ledger = guard.ledger /\ g.ceiling = guard.ceiling
      /\ g.breached = guard.breached /\ g.dailyCeiling = guard.dailyCeiling
  BY <1>1 DEF BillInv, BillTypeOK, Guarded, Guards
<1> HIDE DEF g
<1>4. cost[s] \in Nat
  BY DEF BillInv, BillTypeOK
<1>5. \A t \in Sessions : grant'[t] # None => Held(g, grant'[t], t)
  BY <1>2, <1>3 DEF Promised, Held, Stands
<1> QED
  BY <1>2, <1>3, <1>4, <1>5, ObservedKeeps DEF Promised

LEMMA ReleaseKeeps ==
  ASSUME Plausible, Summable, BillInv, BillInv', Promised, NEW s \in Sessions, Release(s)
  PROVE  Promised' /\ UnlockLasts
<1> DEFINE n == Total(guard.ledger)
           high  == IF CapFor(s) > 0 THEN Raised(s) ELSE guard.ceiling[s]
           row   == [guard.ceiling EXCEPT ![s] = high]
           daily == IF options.dailyCap > 0 THEN n + options.dailyCap ELSE guard.dailyCeiling
           p     == [cap |-> CapFor(s), spent |-> Spent(s),
                     entered |-> ~Rises(guard, s, Spent(s)),
                     day |-> today, daily |-> options.dailyCap, total |-> n]
           g     == Forgiven(s)
<1>1. /\ guard' = IF guard.locked[s] THEN Observed(g, s, cost[s]) ELSE g
      /\ grant' = [grant EXCEPT ![s] = p]
      /\ UNCHANGED <<live, cost, options, budgetFile, today>> /\ live[s] \in {"live", "exited"}
  BY DEF Release
<1>2. /\ today \in Days /\ options \in Options /\ guard.ledger \in Ledgers /\ Guarded(guard)
      /\ cost[s] \in Nat /\ Days \subseteq Nat
  BY DEF BillInv, BillTypeOK, Guarded, Guards, Plausible
<1>3. /\ n \in Nat /\ CapFor(s) \in Nat /\ Spent(s) \in Nat /\ options.dailyCap \in Nat
      /\ guard.ledger[today][s] \in Nat /\ guard.dailyCeiling \in Nat
  BY <1>2, TotalTyped, CapsTyped, SpentTyped DEF Summable, Ledgers, Promised
<1> HIDE DEF n
<1>4. p \in Grants /\ p.day = today
  BY <1>2, <1>3 DEF Grants
<1>5. /\ Guarded(g) /\ g.ledger = guard.ledger /\ g.dailyCeiling = daily
      /\ s \notin g.breached /\ g.ceiling[s] = high
      /\ \A t \in Sessions \ {s} : /\ g.ceiling[t] = guard.ceiling[t]
                                   /\ t \in g.breached <=> t \in guard.breached
  <2>1. /\ Guarded(g) /\ g.ledger = guard.ledger
        /\ \A t \in Sessions \ {s} : /\ g.ceiling[t] = guard.ceiling[t]
                                     /\ t \in g.breached <=> t \in guard.breached
    BY ForgivenUp DEF BillInv
  <2>2. /\ g.dailyCeiling = daily /\ s \notin g.breached /\ g.ceiling = row
    BY <1>2 DEF Forgiven, Guarded, Guards, n
  <2> QED
    BY <1>2, <2>1, <2>2 DEF Guarded, Guards
<1> HIDE DEF g
<1>6. daily \in Nat
  BY <1>3
<1>7. Held(g, p, s)
  <2>1. p.cap > 0 => g.ceiling[s] = guard.ledger[today][s] + p.cap
    BY <1>5 DEF Raised
  <2>2. p.entered => guard.ledger[today][s] >= p.spent
    <3>1. p.entered => ~Rises(guard, s, Spent(s))
      OBVIOUS
    <3>2. ~Rises(guard, s, Spent(s)) => guard.ledger[today][s] >= Spent(s)
      BY <1>3 DEF Rises
    <3>3. p.spent = Spent(s)
      OBVIOUS
    <3> HIDE DEF p
    <3> QED
      BY <3>1, <3>2, <3>3
  <2>3. p.daily > 0 => g.dailyCeiling = p.total + p.daily /\ Total(g.ledger) = p.total
    BY <1>3, <1>5 DEF n
  <2>4. p.entered => Stands(g, p, s)
    BY <1>3, <1>5, <2>1, <2>2, <2>3 DEF Stands
  <2>5. p.day <= today
    BY <1>2, <1>4
  <2> QED
    BY <1>1, <1>4, <2>4, <2>5 DEF Held
<1>8. ASSUME NEW t \in Sessions, t # s, grant[t] # None
      PROVE  Held(g, grant[t], t)
  <2>1. Held(guard, grant[t], t) /\ grant[t] \in Grants
    BY <1>8 DEF Promised, Held
  <2>2. PICK q \in Grants : q = grant[t]
    BY <2>1
  <2>3. q.total \in Nat /\ q.daily \in Nat
    BY DEF Grants
  <2>4. q.daily = options.dailyCap /\ Stands(guard, q, t) => Stands(g, q, t)
    BY <1>3, <1>5, <1>8, <2>3 DEF Stands, n
  <2> QED
    BY <2>1, <2>2, <2>4 DEF Held
<1> HIDE DEF p, daily, high, row
<1>9. \A t \in Sessions : grant'[t] # None => Held(g, grant'[t], t)
  <2> SUFFICES ASSUME NEW t \in Sessions, grant'[t] # None PROVE Held(g, grant'[t], t)
    OBVIOUS
  <2>1. CASE t # s
    BY <1>1, <1>8, <2>1
  <2>2. CASE t = s
    <3>1. grant'[s] = p
      BY <1>1 DEF Promised
    <3> QED
      BY <1>7, <2>2, <3>1
  <2> QED
    BY <2>1, <2>2
<1>10. PICK c \in Nat : guard' = Observed(g, s, c) \/ (guard' = g /\ ~Rises(g, s, c))
  <2>1. CASE guard.locked[s]
    BY <1>1, <1>2, <2>1
  <2>2. CASE ~guard.locked[s]
    <3>1. 0 \in Nat /\ ~Rises(g, s, 0)
      BY <1>2, <1>5 DEF Rises, Guarded, Guards, Ledgers
    <3> QED
      BY <1>1, <2>2, <3>1
  <2> QED
    BY <2>1, <2>2
<1>11. /\ grant' = [t \in Sessions |-> grant'[t]]
       /\ \A t \in Sessions \ {s} : grant'[t] = grant[t]
  BY <1>1 DEF Promised
<1> QED
  BY <1>1, <1>5, <1>6, <1>9, <1>10, <1>11, ObservedKeeps

-----------------------------------------------------------------------------
(* The rest of the steps puts no breach on record.                          *)
LEMMA NoRelock ==
  ASSUME guard'.breached \subseteq guard.breached,
         \A s \in Sessions : grant'[s] \in {None, grant[s]}
  PROVE  UnlockLasts
BY DEF UnlockLasts, Relocked

LEMMA ComingAndGoingKeeps ==
  ASSUME Promised, NEW s \in Sessions, Create(s) \/ (Close(s) /\ live[s] = "exited"),
         BillTypeOK
  PROVE  Promised' /\ UnlockLasts
<1>1. /\ UNCHANGED <<guard, options, today, grant>>
      /\ \A t \in Sessions : /\ live[t] # "new" => live'[t] # "new"
                             /\ live'[t] # "gone" => live[t] # "gone"
  BY DEF Create, Close, BillTypeOK
<1>2. Promised'
  BY <1>1 DEF Promised, Held, Stands, Total, CapFor
<1> QED
  BY <1>1, <1>2, NoRelock

LEMMA MidnightKeeps ==
  ASSUME Plausible, BillInv, Promised, Midnight
  PROVE  Promised' /\ UnlockLasts
<1>1. today' = today + 1 /\ UNCHANGED <<live, guard, options, grant>> /\ today \in Nat
  BY DEF Midnight, BillInv, BillTypeOK, Plausible
<1>2. ASSUME NEW s \in Sessions, NEW p, p = grant[s], p # None
      PROVE  Held(guard, p, s)'
  <2>1. Held(guard, p, s) /\ p \in Grants
    BY <1>2 DEF Promised, Held
  <2>2. p.day \in Nat
    BY <2>1 DEF Grants, Plausible
  <2>3. p.day <= today' /\ p.day # today'
    BY <1>1, <2>1, <2>2 DEF Held
  <2> QED
    BY <1>1, <2>1, <2>3 DEF Held, CapFor
<1>3. Promised'
  BY <1>1, <1>2 DEF Promised, Held, Stands
<1> QED
  BY <1>1, <1>3, NoRelock

LEMMA SaveKeeps ==
  ASSUME Plausible, Summable, BillInv, Promised, Save
  PROVE  Promised' /\ UnlockLasts
<1>1. /\ Persist([guard EXCEPT !.due = FALSE], options') /\ options' \in Options
      /\ UNCHANGED <<live, options, today, grant>>
  BY DEF Save, BillInv, BillTypeOK
<1>2. /\ guard'.ledger = Trimmed(guard.ledger, guard.days) /\ guard'.breached = guard.breached
      /\ guard'.ceiling = guard.ceiling
  BY <1>1, PersistUp
<1>3. guard'.dailyCeiling = guard.dailyCeiling
  BY <1>1 DEF Persist, BillInv, BillTypeOK, Guarded, Guards
<1>4. /\ guard.ledger \in Ledgers /\ guard.days \subseteq Days
      /\ today \in Days /\ Days \subseteq Nat /\ LedgerDays \in Nat
  BY DEF BillInv, BillTypeOK, Guarded, Guards, Plausible
<1>5. ~Old(guard.days, today)
  <2>1. {e \in guard.days : e > today} = {}
    <3>1. \A e \in guard.days : e <= today /\ e \in Nat /\ today \in Nat
      BY <1>4 DEF BillInv, FutureIsBlank
    <3> QED
      BY <3>1
  <2>2. Cardinality({e \in guard.days : e > today}) = 0
    BY <2>1, FS_EmptySet
  <2> QED
    BY <1>4, <2>2 DEF Old, Summable
<1>6. guard'.ledger[today] = guard.ledger[today]
  BY <1>2, <1>4, <1>5 DEF Trimmed
<1>7. Total(guard.ledger)' = Total(guard.ledger)
  BY <1>1, <1>6 DEF Total
<1>8. Promised'
  BY <1>1, <1>2, <1>3, <1>7 DEF Promised, Held, Stands, CapFor
<1> QED
  BY <1>1, <1>2, <1>8, NoRelock

LEMMA UpdateSettingsKeeps ==
  ASSUME Plausible, BillInv, Promised, NEW o \in Options, UpdateSettings(o)
  PROVE  Promised' /\ UnlockLasts
<1>1. /\ Persist(guard, o) /\ grant' = [s \in Sessions |-> None]
  BY DEF UpdateSettings
<1>2. guard'.dailyCeiling = guard.dailyCeiling /\ guard'.breached = guard.breached
  BY <1>1 DEF Persist, BillInv, BillTypeOK, Guarded, Guards
<1> QED
  BY <1>1, <1>2, NoRelock DEF Promised

(* The sessions are gone, and with them what was promised them.             *)
LEMMA BillRestartKeeps ==
  ASSUME Promised, Restart
  PROVE  Promised' /\ UnlockLasts
<1>1. /\ live' = [s \in Sessions |-> IF live[s] = "new" THEN "new" ELSE "gone"]
      /\ guard'.dailyCeiling = 0 /\ guard'.breached = {}
      /\ UNCHANGED <<today, grant>>
  BY DEF Restart, Fresh
<1>2. Promised'
  BY <1>1 DEF Promised, Held
<1> QED
  BY <1>1, <1>2, NoRelock

LEMMA UnlockSteps ==
  ASSUME Plausible, Summable, BillInv, BillInv', Promised, [Next]_bvars
  PROVE  Promised' /\ UnlockLasts
<1>1. ASSUME NEW s \in Sessions, \/ Touch(s) \/ Exit(s) \/ (Close(s) /\ live[s] = "live")
                                  \/ \E c \in Costs[s] : Report(s, c)
      PROVE  Promised' /\ UnlockLasts
  <2>1. /\ Broadcast(s) /\ live[s] \notin {"new", "gone"}
        /\ \A t \in Sessions : /\ live'[t] = "new" <=> live[t] = "new"
                               /\ live[t] = "gone" => live'[t] = "gone"
    BY <1>1 DEF Touch, Exit, Close, Report, BillInv, BillTypeOK
  <2> QED
    BY <2>1, BroadcastKeeps
<1>2. CASE UNCHANGED bvars
  <2>1. Promised'
    BY <1>2 DEF bvars, Promised, Held, Stands, Total, CapFor
  <2> QED
    BY <1>2, <2>1, NoRelock DEF bvars
<1> QED
  BY <1>1, <1>2, ComingAndGoingKeeps, SetLockKeeps, ReleaseKeeps, MidnightKeeps, SaveKeeps,
     UpdateSettingsKeeps, BillRestartKeeps DEF Next, Close, BillInv

(* A release is worth one more cap: on the day of the release, once what the *)
(* session had spent is in that day's ledger, the guard puts no breach of it *)
(* on record before it spent another session cap, or all of them another     *)
(* daily cap (release() and _ceiling of budget.js).                         *)
THEOREM ReleasesAreWorthACap ==
  ASSUME Plausible, Summable
  PROVE  Spec => UnlockOutlastsTheDay
<1>1. Init => BillInv /\ Promised
  <2>1. Init => Promised
    BY DEF Init, Fresh, Promised
  <2> QED
    BY <2>1, BillInitInv
<1>2. BillInv /\ Promised /\ [Next]_bvars => BillInv' /\ Promised' /\ [UnlockLasts]_bvars
  BY BillNextInv, UnlockSteps
<1> QED
  BY <1>1, <1>2, PTL DEF Spec, UnlockOutlastsTheDay

-----------------------------------------------------------------------------
Tokens == Given \cup {Start!Generated(n) : n \in Nat} \cup {None}
Stages == {"gone", "run", "rotated", "store", "emptied", "loaded", "probing",
           "recipe", "serving", "closing"}
Starts == [at : Stages, port : Ports \cup {None}, given : Given \cup {None},
           short : BOOLEAN, rotate : BOOLEAN, token : Tokens]

StartTypeOK ==
  /\ file \in Tokens
  /\ proc \in [Procs -> Starts]
  /\ made \in Nat

(* While nothing disturbs them, one process loads at a time, by generating   *)
(* or by reading; one that stores found no file, and whoever is past loading *)
(* has the token of the file.                                                *)
OneLoads   == \A p, q \in Procs : Start!Loading(p) /\ Start!Loading(q) => p = q
Plainly    == \A p \in Procs : Start!Loading(p) => proc[p].given = None /\ ~proc[p].rotate
StoresANew == \A p \in Procs : proc[p].at \in {"store", "emptied"} =>
                file = None /\ proc[p].token # None
Holds(p)   == proc[p].at \in {"loaded", "probing", "recipe", "serving"}
HoldersAgree == \A p \in Procs : Holds(p) => file # None /\ proc[p].token = file
Agreement == OneLoads /\ Plainly /\ StoresANew /\ HoldersAgree

StartInv == StartTypeOK /\ (disturbed = {} => Agreement)

-----------------------------------------------------------------------------
LEMMA StartInitInv == Start!Init => StartInv
BY
  DEF Start!Init, StartInv, StartTypeOK, Start!Fresh, Starts, Stages, Tokens, Agreement, OneLoads, Plainly,
       StoresANew, HoldersAgree, Holds, Start!Loading

(* The end of a start, which may come at any time, disturbs nobody.           *)
LEMMA ExitsKeeps ==
  ASSUME StartInv, NEW p \in Procs, Start!Exits(p), UNCHANGED <<file, made, disturbed>>
  PROVE  StartInv'
<1>1. Start!Fresh \in Starts
  BY DEF Start!Fresh, Starts, Stages, Tokens
<1>2. proc' \in [Procs -> Starts]
  BY <1>1 DEF StartInv, StartTypeOK, Start!Exits
<1>3. \A q \in Procs : proc'[q] = proc[q] \/ proc'[q].at = "gone"
  BY DEF StartInv, StartTypeOK, Start!Exits, Start!Fresh
<1>4. disturbed = {} /\ Agreement => Agreement'
  BY <1>3 DEF Agreement, OneLoads, Plainly, StoresANew, HoldersAgree, Holds, Start!Loading
<1> QED
  BY <1>2, <1>4 DEF StartInv, StartTypeOK

(* A start that moves on between stages in which it loads nothing.           *)
LEMMA GoesKeeps ==
  ASSUME StartInv, NEW p \in Procs, NEW at \in Stages, Start!Goes(p, at),
         UNCHANGED <<file, made, disturbed>>, ~Start!Loading(p),
         at \in {"probing", "recipe", "serving"} => Holds(p),
         at \in {"probing", "recipe", "serving", "closing"}
  PROVE  StartInv'
<1>1. proc' \in [Procs -> Starts]
  BY DEF StartInv, StartTypeOK, Start!Goes, Starts
<1>2. \A q \in Procs \ {p} : proc'[q] = proc[q]
  BY DEF StartInv, StartTypeOK, Start!Goes
<1>3. proc'[p].at = at /\ proc'[p].token = proc[p].token
  BY DEF StartInv, StartTypeOK, Start!Goes, Starts
<1>4. disturbed = {} /\ Agreement => Agreement'
  BY <1>2, <1>3
    DEF Agreement, OneLoads, Plainly, StoresANew, HoldersAgree, Holds, Start!Loading
<1> QED
  BY <1>1, <1>4 DEF StartInv, StartTypeOK

LEMMA RunKeeps ==
  ASSUME StartInv, NEW p \in Procs, Start!Run(p)
  PROVE  StartInv'
<1>1. CASE Start!Exits(p) /\ UNCHANGED disturbed
  BY <1>1, ExitsKeeps DEF Start!Run
<1>2. CASE ~(Start!Exits(p) /\ UNCHANGED disturbed)
  <2> DEFINE Told(a, port) == [at |-> "run", port |-> port, given |-> a.given,
                               short |-> a.short, rotate |-> a.rotate, token |-> None]
  <2>1. PICK a \in Start!Args, port \in Ports :
          proc' = [proc EXCEPT ![p] = Told(a, port)] /\ disturbed' = disturbed \cup Start!Disturbing(a)
    BY <1>2 DEF Start!Run
  <2> DEFINE d == Told(a, port)
  <2>2. proc' = [proc EXCEPT ![p] = d]
    BY <2>1
  <2>3. d \in Starts
    <3>1. a \in Start!Args /\ port \in Ports
      BY <2>1
    <3> QED
      BY <3>1 DEF Start!Args, Starts, Stages, Tokens
  <2>4. StartTypeOK'
    BY <2>2, <2>3 DEF StartInv, StartTypeOK, Start!Run
  <2>5. proc'[p] = d /\ \A q \in Procs \ {p} : proc'[q] = proc[q]
    BY <2>2 DEF StartInv, StartTypeOK
  <2>6. ASSUME disturbed' = {} PROVE Agreement'
    <3>1. disturbed = {} /\ a.given = None /\ ~a.rotate /\ \A q \in Procs : ~Start!Loading(q)
      BY <2>1, <2>6 DEF Start!Disturbing
    <3>2. Agreement
      BY <3>1 DEF StartInv
    <3>3. proc'[p].at = "run" /\ proc'[p].given = None /\ ~proc'[p].rotate
      BY <2>5, <3>1
    <3>4. file' = file
      BY DEF Start!Run
    <3> QED
      BY <2>5, <3>1, <3>2, <3>3, <3>4
      DEF Agreement, OneLoads, Plainly, StoresANew, HoldersAgree, Holds, Start!Loading
  <2> QED
    BY <2>4, <2>6 DEF StartInv
<1> QED
  BY <1>1, <1>2

LEMMA TakeGivenKeeps ==
  ASSUME StartInv, NEW p \in Procs, Start!TakeGiven(p)
  PROVE  StartInv'
<1>1. disturbed' = disturbed /\ disturbed # {}
  BY DEF Start!TakeGiven, StartInv, Agreement, Plainly, Start!Loading, Start!At
<1>2. CASE proc[p].short
  BY <1>2, ExitsKeeps DEF Start!TakeGiven
<1>3. CASE ~proc[p].short
  BY <1>1, <1>3
    DEF Start!TakeGiven, Start!Chosen, StartInv, StartTypeOK, Starts, Stages, Tokens
<1> QED
  BY <1>2, <1>3

LEMMA ListenKeeps ==
  ASSUME StartInv, NEW p \in Procs, Start!Listen(p)
  PROVE  StartInv'
<1>1. Start!Exits(p) \/ Start!Goes(p, "recipe") \/ Start!Goes(p, "probing")
  BY DEF Start!Listen
<1>2. ~Start!Loading(p) /\ Holds(p) /\ UNCHANGED <<file, made, disturbed>>
  BY DEF Start!Listen, Start!At, Start!Loading, Holds
<1> QED
  BY <1>1, <1>2, ExitsKeeps, GoesKeeps DEF Stages

LEMMA SignalKeeps ==
  ASSUME StartInv, NEW p \in Procs, Start!Signal(p)
  PROVE  StartInv'
<1>1. Start!Exits(p) \/ (Start!Goes(p, "closing") /\ ~Start!Loading(p))
  BY DEF Start!Signal, Start!At, Start!Loading
<1> QED
  BY <1>1, ExitsKeeps, GoesKeeps DEF Start!Signal, Stages

(* One step per action; those that load are the ones that differ.            *)
LEMMA StartNextInv ==
  ASSUME \A n \in Nat : Start!Generated(n) # None, StartInv, [Start!Next]_Start!suvars
  PROVE  StartInv'
<1> USE DEF StartInv, StartTypeOK, Starts, Stages, Agreement, OneLoads, Plainly, StoresANew,
            HoldersAgree, Holds, Start!Loading, Start!At, Start!Goes
<1>1. ASSUME NEW p \in Procs, Start!Rotate(p) PROVE StartInv'
  BY <1>1 DEF Start!Rotate, Tokens
<1>2. ASSUME NEW p \in Procs, Start!ReadToken(p) PROVE StartInv'
  BY <1>2 DEF Start!ReadToken, Start!Chosen, Tokens
<1>3. ASSUME NEW p \in Procs, Start!Empty(p) PROVE StartInv'
  BY <1>3 DEF Start!Empty, Tokens
<1>4. ASSUME NEW p \in Procs, Start!Write(p) PROVE StartInv'
  BY <1>4 DEF Start!Write, Start!Stored, Tokens
<1>5. ASSUME NEW p \in Procs, Start!StoreFails(p) PROVE StartInv'
  BY <1>5 DEF Start!StoreFails
<1>6. ASSUME NEW p \in Procs, Start!Ready(p) PROVE StartInv'
  BY <1>6, GoesKeeps DEF Start!Ready
<1>7. ASSUME NEW p \in Procs, Start!Probe(p) PROVE StartInv'
  BY <1>7, ExitsKeeps DEF Start!Probe
<1>8. ASSUME NEW p \in Procs, Start!Closed(p) PROVE StartInv'
  BY <1>8, ExitsKeeps DEF Start!Closed
<1>9. ASSUME NEW p \in Procs, Start!Crash(p) PROVE StartInv'
  BY <1>9, ExitsKeeps DEF Start!Crash
<1>10. CASE UNCHANGED Start!suvars
  BY <1>10 DEF Start!suvars
<1> QED
  BY <1>1, <1>2, <1>3, <1>4, <1>5, <1>6, <1>7, <1>8, <1>9, <1>10, RunKeeps,
     TakeGivenKeeps, ListenKeeps, SignalKeeps DEF Start!Next

(* config.js promises a hook outside a terminal the token of the server: as  *)
(* long as starts are plain and do not overlap, every server there is holds  *)
(* the token of the file. A generated token is none that reads as absent.    *)
THEOREM StartsAgree ==
  ASSUME \A n \in Nat : Start!Generated(n) # None
  PROVE  Start!Spec => []Start!PlainStartsAgree
<1>1. StartInv => Start!PlainStartsAgree
  BY
    DEF StartInv, Agreement, HoldersAgree, Holds, Start!PlainStartsAgree, Start!Serving, Start!At
<1> QED
  BY StartInitInv, StartNextInv, <1>1, PTL DEF Start!Spec

-----------------------------------------------------------------------------
(* What the constants are: a document that is not a policy has no rules.     *)
Documented ==
  /\ TTL \in Nat /\ Deepest \in Nat /\ Cwds \subseteq Rules!Dirs /\ MaxRules \in Nat
  /\ \E d \in Documents : d.kind = "policy"
  /\ \A d \in Documents : d.kind # "policy" => d.rules = <<>>

(* A lookup that is remembered is what a lookup would find now, unless the   *)
(* file system has changed since it was made.                                *)
UnchangedSince(c) == \A d \in Rules!Dirs : d <= c => sinceEdit[d] > cache[c].age
Remembered(c) == cache[c].age < TTL /\ UnchangedSince(c) => cache[c].policy = Rules!_find(c)

(* An answer that was given now follows from what is there now.              *)
AnswerFollows ==
  said.cwd # 0 /\ Rules!Settled(said.cwd) => said.answer = Rules!evaluate(Rules!_find(said.cwd), said.call)

PolicyShape ==
  /\ file \in [Rules!Dirs -> Documents \cup {Rules!Absent}]
  /\ sinceEdit \in [Rules!Dirs -> 0..TTL]
  /\ cache = [c \in Cwds |-> cache[c]]
  /\ \A c \in Cwds : cache[c] \in [age : 0..TTL, policy : {cache[c].policy}]
  /\ said.cwd \in Cwds \cup {0}
PolicyInv == PolicyShape /\ (\A c \in Cwds : Remembered(c)) /\ AnswerFollows

-----------------------------------------------------------------------------
LEMMA LeastNatural ==
  ASSUME NEW T, T \subseteq Nat, T # {}
  PROVE  \E x \in T : \A y \in T : x <= y
<1>1. PICK x \in T : \A y \in T : ~(<<y, x>> \in OpToRel(<, Nat))
  BY WFMin, NatLessThanWellFounded
<1>2. \A y \in T : ~(y < x)
  BY <1>1 DEF OpToRel
<1> QED
  BY <1>2

LEMMA MaxIsIn ==
  ASSUME NEW n \in Nat, NEW T, T \subseteq 0..n, T # {}
  PROVE  Rules!Max(T) \in T /\ \A y \in T : y <= Rules!Max(T)
<1> DEFINE U == {k \in 0..n : n - k \in T}
<1>1. PICK x \in U : \A y \in U : x <= y
  <2>1. PICK y \in T : TRUE
    OBVIOUS
  <2>2. n - y \in U /\ U \subseteq Nat
    BY <2>1
  <2> HIDE DEF U
  <2> QED
    BY <2>2, LeastNatural
<1>2. n - x \in T
  BY <1>1
<1>3. ASSUME NEW y \in T PROVE y <= n - x
  <2>1. n - y \in U
    OBVIOUS
  <2>2. x <= n - y
    BY <1>1, <2>1
  <2> QED
    BY <2>2
<1> QED
  BY <1>3 DEF Rules!Max

LEMMA PolicyInit == Documented /\ Rules!Init => PolicyInv
<1> SUFFICES ASSUME Documented, Rules!Init PROVE PolicyInv
  OBVIOUS
<1>1. (CHOOSE d \in Documents : d.kind = "policy") \in Documents
  BY DEF Documented
<1> QED
  BY <1>1
    DEF Documented, Rules!Init, PolicyInv, PolicyShape, Remembered, AnswerFollows, Rules!Forgotten, Rules!Silent

(* What is found is a function of the file system.                           *)
LEMMA SameFiles ==
  ASSUME UNCHANGED <<file, sinceEdit, trustAllow>>
  PROVE  /\ \A c : Rules!_find(c)' = Rules!_find(c)
         /\ \A c : Rules!Settled(c)' = Rules!Settled(c)
         /\ \A p, call : Rules!evaluate(p, call)' = Rules!evaluate(p, call)
<1>1. ASSUME NEW c PROVE Rules!_find(c)' = Rules!_find(c)
  BY DEF Rules!_find
<1>2. ASSUME NEW c PROVE Rules!Settled(c)' = Rules!Settled(c)
  BY DEF Rules!Settled
<1>3. ASSUME NEW p, NEW call PROVE Rules!evaluate(p, call)' = Rules!evaluate(p, call)
  BY DEF Rules!evaluate
<1> QED
  BY <1>1, <1>2, <1>3

(* What forCwd gives is a lookup that is remembered, or a new one.           *)
LEMMA ForCwdIsSound ==
  ASSUME Documented, PolicyInv, NEW c \in Cwds
  PROVE  /\ Rules!forCwd(c) \in [age : 0..TTL, policy : {Rules!forCwd(c).policy}]
         /\ (Rules!forCwd(c).age < TTL /\ \A d \in Rules!Dirs : d <= c => sinceEdit[d] > Rules!forCwd(c).age)
              => Rules!forCwd(c).policy = Rules!_find(c)
         /\ Rules!Settled(c) => Rules!forCwd(c).policy = Rules!_find(c)
<1>1. CASE cache[c].age < TTL
  <2>1. Rules!forCwd(c) = cache[c]
    BY <1>1 DEF Rules!forCwd
  <2>2. Rules!Settled(c) => UnchangedSince(c)
    BY <1>1 DEF Rules!Settled, UnchangedSince, PolicyInv, PolicyShape, Documented
  <2> QED
    BY <1>1, <2>1, <2>2 DEF PolicyInv, PolicyShape, Remembered, UnchangedSince
<1>2. CASE ~(cache[c].age < TTL)
  <2>1. Rules!forCwd(c) = [age |-> 0, policy |-> Rules!_find(c)]
    BY <1>2 DEF Rules!forCwd
  <2> QED
    BY <2>1 DEF Documented
<1> QED
  BY <1>1, <1>2

LEMMA LookupKeeps ==
  ASSUME Documented, PolicyInv, NEW c \in Cwds,
         cache' = [cache EXCEPT ![c] = Rules!forCwd(c)], UNCHANGED <<file, sinceEdit, trustAllow>>
  PROVE  /\ \A b \in Cwds : Remembered(b)'
         /\ cache' = [b \in Cwds |-> cache'[b]]
         /\ \A b \in Cwds : cache'[b] \in [age : 0..TTL, policy : {cache'[b].policy}]
<1>1. cache' = [b \in Cwds |-> IF b = c THEN Rules!forCwd(c) ELSE cache[b]]
  BY DEF PolicyInv, PolicyShape
<1>2. \A b \in Cwds : Remembered(b)'
  BY <1>1, ForCwdIsSound, SameFiles DEF Remembered, UnchangedSince, PolicyInv
<1> QED
  BY <1>1, <1>2, ForCwdIsSound DEF PolicyInv, PolicyShape

LEMMA SilentSays == Rules!Silent.cwd = 0
BY DEF Rules!Silent

LEMMA PolicyStep ==
  ASSUME Documented, PolicyInv, [Rules!Next]_Rules!pvars
  PROVE  PolicyInv'
<1>1. CASE UNCHANGED Rules!pvars
  <2>1. PolicyShape'
    BY <1>1 DEF Rules!pvars, PolicyInv, PolicyShape
  <2>2. \A c \in Cwds : Remembered(c)'
    BY <1>1, SameFiles DEF Rules!pvars, PolicyInv, Remembered, UnchangedSince
  <2>3. AnswerFollows'
    BY <1>1, SameFiles DEF Rules!pvars, PolicyInv, AnswerFollows
  <2> QED
    BY <2>1, <2>2, <2>3 DEF PolicyInv
<1>2. ASSUME NEW cwd \in Cwds, NEW call \in Calls, Rules!Evaluates(cwd, call) PROVE PolicyInv'
  <2>1. /\ cache' = [cache EXCEPT ![cwd] = Rules!forCwd(cwd)]
        /\ UNCHANGED <<file, sinceEdit, trustAllow>>
        /\ said' = [cwd |-> cwd, call |-> call, answer |-> Rules!evaluate(Rules!forCwd(cwd).policy, call)]
    BY <1>2 DEF Rules!Evaluates
  <2>2. PolicyShape' /\ \A c \in Cwds : Remembered(c)'
    BY <2>1, LookupKeeps DEF PolicyInv, PolicyShape
  <2>3. AnswerFollows'
    BY <2>1, SameFiles, ForCwdIsSound DEF AnswerFollows
  <2> QED
    BY <2>2, <2>3 DEF PolicyInv
<1>3. ASSUME NEW cwd \in Cwds, Rules!budgetForCwd(cwd) PROVE PolicyInv'
  BY <1>3, LookupKeeps, SilentSays
    DEF Rules!budgetForCwd, PolicyInv, PolicyShape, AnswerFollows
<1>4. ASSUME NEW cwd \in Cwds, Rules!describe(cwd) PROVE PolicyInv'
  <2>1. \A c \in Cwds : 
          cache'[c] = IF c = cwd THEN [age |-> 0, policy |-> Rules!_find(cwd)] ELSE Rules!Forgotten
    BY <1>4 DEF Rules!describe
  <2>2. PolicyShape'
    BY <1>4, <2>1, SilentSays
      DEF Rules!describe, PolicyInv, PolicyShape, Rules!Forgotten, Documented
  <2>3. \A c \in Cwds : Remembered(c)'
    BY <1>4, <2>1, SameFiles DEF Rules!describe, Remembered, Rules!Forgotten, Documented
  <2> QED
    BY <1>4, <2>2, <2>3, SilentSays DEF Rules!describe, PolicyInv, AnswerFollows
<1>5. ASSUME NEW d \in Rules!Dirs, NEW doc \in Documents \cup {Rules!Absent}, Rules!Edits(d, doc)
      PROVE  PolicyInv'
  <2>1. PolicyShape'
    BY <1>5, SilentSays DEF Rules!Edits, PolicyInv, PolicyShape, Documented
  <2>2. ASSUME NEW c \in Cwds PROVE Remembered(c)'
    <3>1. CASE d <= c
      BY <1>5, <2>1, <3>1 DEF Rules!Edits, Remembered, UnchangedSince, PolicyInv, PolicyShape
    <3>2. CASE ~(d <= c)
      <4>1. \A e \in Rules!Dirs : e <= c => file'[e] = file[e] /\ sinceEdit'[e] = sinceEdit[e]
        BY <1>5, <3>2 DEF Rules!Edits, PolicyInv, PolicyShape
      <4>2. Rules!_find(c)' = Rules!_find(c)
        <5> DEFINE near == {e \in Rules!Dirs : e <= c /\ c - e < MaxDepth /\ file[e].kind # "absent"}
        <5>1. near' = near
          BY <4>1
        <5>2. near # {} => Rules!Max(near) \in near
          <6>1. near \subseteq 0..Deepest /\ Deepest \in Nat
            BY DEF Documented, Rules!Dirs
          <6> HIDE DEF near
          <6> QED
            BY <6>1, MaxIsIn
        <5>3. near # {} => file'[Rules!Max(near)] = file[Rules!Max(near)]
          BY <4>1, <5>2
        <5> QED
          BY <5>1, <5>3 DEF Rules!_find
      <4> QED
        BY <1>5, <4>1, <4>2 DEF Rules!Edits, Remembered, UnchangedSince, PolicyInv
    <3> QED
      BY <3>1, <3>2
  <2> QED
    BY <1>5, <2>1, <2>2, SilentSays DEF Rules!Edits, PolicyInv, AnswerFollows
<1>6. CASE Rules!Tick
  <2>1. /\ \A d \in Rules!Dirs : sinceEdit'[d] = IF sinceEdit[d] < TTL THEN sinceEdit[d] + 1 ELSE TTL
        /\ \A c \in Cwds : cache'[c] = IF cache[c].age + 1 < TTL
                                       THEN [cache[c] EXCEPT !.age = cache[c].age + 1] ELSE Rules!Forgotten
        /\ UNCHANGED <<file, trustAllow>> /\ said' = Rules!Silent
    BY <1>6 DEF Rules!Tick
  <2>2. ASSUME NEW c \in Cwds, cache[c].age + 1 < TTL
        PROVE  cache'[c].age = cache[c].age + 1 /\ cache'[c].policy = cache[c].policy
    BY <2>1, <2>2 DEF PolicyInv, PolicyShape
  <2>3. PolicyShape'
    BY <1>6, <2>1, <2>2, SilentSays
      DEF Rules!Tick, PolicyInv, PolicyShape, Rules!Forgotten, Documented
  <2>4. ASSUME NEW c \in Cwds PROVE Remembered(c)'
    <3>1. Rules!_find(c)' = Rules!_find(c)
      BY <2>1 DEF Rules!_find
    <3>2. CASE cache[c].age + 1 < TTL
      <4>1. UnchangedSince(c)' => UnchangedSince(c)
        BY <2>1, <2>2, <3>2 DEF UnchangedSince, PolicyInv, PolicyShape, Documented
      <4> QED
        BY <2>2, <3>1, <3>2, <4>1 DEF Remembered, PolicyInv, PolicyShape, Documented
    <3>3. CASE ~(cache[c].age + 1 < TTL)
      <4>1. cache'[c] = Rules!Forgotten
        BY <2>1, <3>3
      <4> QED
        BY <4>1 DEF Remembered, Rules!Forgotten, Documented
    <3> QED
      BY <3>2, <3>3
  <2> QED
    BY <2>1, <2>3, <2>4, SilentSays DEF PolicyInv, AnswerFollows
<1> QED
  BY <1>1, <1>2, <1>3, <1>4, <1>5, <1>6 DEF Rules!Next

(* What a lookup finds binds as the document that governs says.              *)
LEMMA FoundBinds ==
  ASSUME Documented, PolicyShape, NEW c \in Cwds, NEW call
  PROVE  /\ (\E i \in DOMAIN Rules!Governing(c).rules :
               /\ i <= MaxRules /\ Rules!Governing(c).rules[i].decision = "deny"
               /\ call \in Rules!Governing(c).rules[i].covers)
              => Rules!evaluate(Rules!_find(c), call) = "deny"
         /\ Rules!Governing(c).kind = "garbled" => Rules!evaluate(Rules!_find(c), call) = "ask"
         /\ Rules!evaluate(Rules!_find(c), call) = "allow" => trustAllow
<1> DEFINE near == {d \in Rules!Dirs : d <= c /\ c - d < MaxDepth /\ file[d].kind # "absent"}
<1>1. CASE near = {}
  <2>1. Rules!Governing(c) = Rules!Absent /\ Rules!_find(c) = Rules!Absent
    BY <1>1 DEF Rules!Governing, Rules!_find
  <2>2. Rules!evaluate(Rules!Absent, call) = "none"
    BY DEF Rules!evaluate, Rules!Absent
  <2> QED
    BY <2>1, <2>2 DEF Rules!Absent
<1>2. CASE near # {}
  <2>1. Rules!Max(near) \in near
    <3>1. Deepest \in Nat /\ near \subseteq 0..Deepest
      BY DEF Documented, Rules!Dirs
    <3> HIDE DEF near
    <3> QED
      BY <1>2, <3>1, MaxIsIn
  <2>2. Rules!Governing(c) = file[Rules!Max(near)] /\ Rules!Governing(c) \in Documents
    BY <1>2, <2>1 DEF Rules!Governing, PolicyShape, Rules!Absent
  <2>3. CASE Rules!Governing(c).kind \in {"folder", "large", "sealed"}
    <3>1. Rules!_find(c) = Rules!Absent /\ Rules!Governing(c).rules = <<>>
      BY <1>2, <2>2, <2>3 DEF Rules!_find, Documented
    <3>2. Rules!evaluate(Rules!Absent, call) = "none"
      BY DEF Rules!evaluate, Rules!Absent
    <3> QED
      BY <2>3, <3>1, <3>2
  <2>4. CASE Rules!Governing(c).kind = "garbled"
    <3>1. Rules!_find(c) = Rules!Broken /\ Rules!Governing(c).rules = <<>>
      BY <1>2, <2>2, <2>4 DEF Rules!_find, Documented
    <3>2. Rules!evaluate(Rules!Broken, call) = "ask"
      BY DEF Rules!evaluate, Rules!Broken
    <3> QED
      BY <2>4, <3>1, <3>2
  <2>5. CASE Rules!Governing(c).kind \notin {"folder", "large", "sealed", "garbled"}
    <3>1. Rules!_find(c) = Rules!parsePolicy(Rules!Governing(c))
      BY <1>2, <2>2, <2>5 DEF Rules!_find
    <3>2. ASSUME NEW i \in DOMAIN Rules!Governing(c).rules, i <= MaxRules,
                 Rules!Governing(c).rules[i].decision = "deny", call \in Rules!Governing(c).rules[i].covers
          PROVE  Rules!evaluate(Rules!parsePolicy(Rules!Governing(c)), call) = "deny"
      <4>1. /\ i \in DOMAIN Rules!parsePolicy(Rules!Governing(c)).rules
            /\ Rules!parsePolicy(Rules!Governing(c)).rules[i] = Rules!Governing(c).rules[i]
        BY <3>2 DEF Rules!parsePolicy, Rules!Decisions
      <4> QED
        BY <3>2, <4>1 DEF Rules!evaluate
    <3>3. Rules!evaluate(Rules!parsePolicy(Rules!Governing(c)), call) = "allow" => trustAllow
      BY DEF Rules!evaluate
    <3> QED
      BY <2>5, <3>1, <3>2, <3>3
  <2> QED
    BY <2>3, <2>4, <2>5
<1> QED
  BY <1>1, <1>2

(* A committed policy binds (lib/policy.js): for any directory depth,        *)
(* documents, calls and time to live, once an edit has settled a call that a *)
(* deny rule of the file covers is denied, a file that is no JSON has every  *)
(* call asked, and one that is not trusted allows nothing, whatever lookups  *)
(* were remembered before the edit.                                          *)
THEOREM PoliciesBind ==
  ASSUME Documented
  PROVE  Rules!Spec => []Rules!PolicyBinds
<1>1. PolicyInv => Rules!PolicyBinds
  BY FoundBinds DEF PolicyInv, Rules!PolicyBinds, AnswerFollows, PolicyShape
<1> QED
  BY <1>1, PolicyInit, PolicyStep, PTL DEF Rules!Spec

-----------------------------------------------------------------------------
Countable == MaxSends \in Nat /\ None \notin Pushes!Subscriptions

(* A subscription is kept under its own endpoint.                            *)
IsTable(f) ==
  /\ f = [e \in Endpoints |-> f[e]]
  /\ \A e \in Endpoints : f[e] # None => f[e] \in Pushes!Subscriptions /\ f[e][1] = e

(* A send waits for one subscription of an endpoint at most: so there is     *)
(* always a number for the next that no send holds.                          *)
IsSend(m) ==
  /\ m \in [waiting : SUBSET Pushes!Subscriptions, gone : SUBSET Endpoints, sent : BOOLEAN]
  /\ \A s, t \in m.waiting : s[1] = t[1] => s = t

SendsShape == IsFiniteSet(sends) /\ Cardinality(sends) <= MaxSends /\ \A m \in sends : IsSend(m)
ClientShape ==
  /\ held = [d \in Devices |-> held[d]] /\ client = [d \in Devices |-> client[d]]
  /\ \A d \in Devices : client[d].does = "register" => client[d].endpoint \in Endpoints

(* Whom a send under way will forget, it has a cause to forget.              *)
GoneForCause == \A m \in sends : m.gone \subseteq cause

PushInv ==
  /\ ClientShape /\ SendsShape /\ IsTable(subs)
  /\ GoneForCause /\ told \subseteq Endpoints /\ Pushes!ForgottenForCause

-----------------------------------------------------------------------------
LEMMA PushInit == Countable /\ Pushes!Init => PushInv
<1> SUFFICES ASSUME Countable, Pushes!Init PROVE PushInv
  OBVIOUS
<1>1. IsFiniteSet(sends) /\ Cardinality(sends) = 0
  BY FS_EmptySet DEF Pushes!Init
<1> QED
  BY <1>1 DEF Countable, Pushes!Init, PushInv, ClientShape, SendsShape, IsTable, GoneForCause,
              Pushes!ForgottenForCause, Pushes!Idle

LEMMA FreshIsNew ==
  ASSUME Countable, SendsShape, NEW e \in Endpoints
  PROVE  Pushes!Fresh(e) \in Pushes!Subscriptions /\ Pushes!Fresh(e)[1] = e /\ Pushes!Fresh(e) # None
<1>1. \E n \in 1..MaxSends + 1 : \A m \in sends : <<e, n>> \notin m.waiting
  <2> SUFFICES ASSUME \A n \in 1..MaxSends + 1 : \E m \in sends : <<e, n>> \in m.waiting
               PROVE  FALSE
    OBVIOUS
  <2> DEFINE f == [n \in 1..MaxSends + 1 |-> CHOOSE m \in sends : <<e, n>> \in m.waiting]
  <2>1. f \in [1..MaxSends + 1 -> sends] /\ \A n \in 1..MaxSends + 1 : <<e, n>> \in f[n].waiting
    OBVIOUS
  <2>2. IsFiniteSet(1..MaxSends + 1) /\ Cardinality(1..MaxSends + 1) = MaxSends + 1
    BY FS_Interval DEF Countable
  <2>3. Cardinality(sends) \in Nat /\ Cardinality(sends) < Cardinality(1..MaxSends + 1)
    BY <2>2, FS_CardinalityType DEF SendsShape, Countable
  <2> HIDE DEF f
  <2>4. \E i, j \in 1..MaxSends + 1 : i # j /\ f[i] = f[j]
    BY <2>1, <2>2, <2>3, FS_PigeonHole DEF SendsShape
  <2>5. PICK i, j \in 1..MaxSends + 1 : i # j /\ f[i] = f[j]
    BY <2>4
  <2>6. <<e, i>> = <<e, j>>
    BY <2>1, <2>5 DEF SendsShape, IsSend
  <2> QED
    BY <2>5, <2>6
<1>2. PICK n \in 1..MaxSends + 1 : \A m \in sends : <<e, n>> \notin m.waiting
  BY <1>1
<1>3. <<e, n>> \in Pushes!Subscriptions /\ <<e, n>>[1] = e
  BY DEF Pushes!Subscriptions
<1>4. Pushes!Fresh(e) \in Pushes!Subscriptions /\ Pushes!Fresh(e)[1] = e
  BY <1>2, <1>3 DEF Pushes!Fresh
<1> QED
  BY <1>4 DEF Countable

LEMMA TableExcept ==
  ASSUME NEW f, IsTable(f), NEW e, NEW s,
         e \in Endpoints /\ s # None => s \in Pushes!Subscriptions /\ s[1] = e
  PROVE  /\ IsTable([f EXCEPT ![e] = s])
         /\ \A g \in Endpoints : [f EXCEPT ![e] = s][g] = IF g = e THEN s ELSE f[g]
BY DEF IsTable

LEMMA RegisterKeeps ==
  ASSUME Countable, PushInv, NEW d \in Devices, Pushes!Register(d)
  PROVE  PushInv'
<1> DEFINE e == client[d].endpoint
<1>1. e \in Endpoints /\ client' = [client EXCEPT ![d] = Pushes!Idle] /\ UNCHANGED <<held, sends>>
  BY DEF Pushes!Register, PushInv, ClientShape
<1>2. ClientShape' /\ SendsShape'
  BY <1>1 DEF PushInv, ClientShape, SendsShape, Pushes!Idle
<1>3. CASE UNCHANGED <<subs, pushFile, told, cause, unwritten>>
  BY <1>1, <1>2, <1>3 DEF PushInv, GoneForCause, Pushes!ForgottenForCause
<1>4. CASE /\ subs' = [subs EXCEPT ![e] = Pushes!Fresh(e)] /\ told' = told \cup {e} /\ Pushes!Persist({e})
           /\ cause' = IF \E m \in sends : e \in m.gone THEN cause ELSE cause \ {e}
  <2>1. Pushes!Fresh(e) \in Pushes!Subscriptions /\ Pushes!Fresh(e)[1] = e /\ Pushes!Fresh(e) # None
    BY <1>1, FreshIsNew DEF PushInv
  <2> DEFINE after == [subs EXCEPT ![e] = Pushes!Fresh(e)]
  <2>2. IsTable(after) /\ \A g \in Endpoints : after[g] = IF g = e THEN Pushes!Fresh(e) ELSE subs[g]
    BY <1>1, <2>1, TableExcept DEF PushInv
  <2>3. subs' = after
    BY <1>4
  <2>7. \/ pushFile'.subs = Pushes!Subscribed(after)
        \/ pushFile' = pushFile /\ unwritten' = unwritten \cup ({e} \ pushFile.subs)
    BY <1>4, <2>3 DEF Pushes!Persist, Pushes!Saved
  <2> HIDE DEF after, e
  <2>4. GoneForCause' /\ IsTable(subs)'
    BY <1>1, <1>4, <2>2, <2>3 DEF PushInv, GoneForCause
  <2>5. \A g \in told' \ cause' : g \in Endpoints /\ after[g] # None
                                /\ (g = e \/ g \in pushFile.subs \cup unwritten)
    <3> SUFFICES ASSUME NEW g \in told' \ cause'
                 PROVE  /\ g \in Endpoints /\ after[g] # None
                        /\ g = e \/ g \in pushFile.subs \cup unwritten
      OBVIOUS
    <3>1. g \in Endpoints
      BY <1>1, <1>4 DEF PushInv
    <3>2. CASE g = e
      BY <2>1, <2>2, <3>1, <3>2
    <3>3. CASE g # e
      <4>1. g \in told \ cause
        BY <1>4, <3>3
      <4> QED
        BY <2>2, <3>1, <3>3, <4>1 DEF PushInv, Pushes!ForgottenForCause
    <3> QED
      BY <3>2, <3>3
  <2>6. Pushes!ForgottenForCause' /\ told' \subseteq Endpoints
    BY <1>1, <1>4, <2>3, <2>5, <2>7 DEF PushInv, Pushes!ForgottenForCause, Pushes!Subscribed
  <2> QED
    BY <1>2, <2>3, <2>4, <2>6 DEF PushInv
<1> QED
  BY <1>3, <1>4 DEF Pushes!Register, Pushes!past

LEMMA UnsubscribeKeeps ==
  ASSUME Countable, PushInv, NEW d \in Devices, Pushes!Unsubscribe(d)
  PROVE  PushInv'
<1> DEFINE e == client[d].endpoint
<1> DEFINE after == [subs EXCEPT ![e] = None]
<1>1. /\ client' = [client EXCEPT ![d] = Pushes!Idle] /\ UNCHANGED <<held, sends, told>>
      /\ subs' = after /\ cause' = cause \cup {e}
      /\ IF subs' # subs THEN Pushes!Persist({}) ELSE UNCHANGED <<pushFile, unwritten>>
  BY DEF Pushes!Unsubscribe
<1>2. IsTable(after) /\ \A g \in Endpoints : after[g] = IF g = e THEN None ELSE subs[g]
  <2>1. IsTable(subs)
    BY DEF PushInv
  <2> HIDE DEF e
  <2> QED
    BY <2>1 DEF IsTable
<1>3. pushFile'.subs = Pushes!Subscribed(after) \/ UNCHANGED <<pushFile, unwritten>>
  <2>1. CASE Pushes!Persist({})
    BY <1>1, <2>1 DEF Pushes!Persist, Pushes!Saved
  <2>2. CASE UNCHANGED <<pushFile, unwritten>>
    BY <2>2
  <2> QED
    BY <1>1, <2>1, <2>2
<1> HIDE DEF e, after
<1>4. ClientShape' /\ SendsShape'
  BY <1>1 DEF PushInv, ClientShape, SendsShape, Pushes!Idle
<1>5. IsTable(subs)' /\ GoneForCause'
  BY <1>1, <1>2, <1>3 DEF PushInv, GoneForCause
<1>6. \A g \in told' \ cause' : g \in Endpoints /\ after[g] # None /\ g \in pushFile.subs \cup unwritten
  BY <1>1, <1>2 DEF PushInv, Pushes!ForgottenForCause
<1>7. Pushes!ForgottenForCause' /\ told' \subseteq Endpoints
  BY <1>1, <1>3, <1>6 DEF PushInv, Pushes!ForgottenForCause, Pushes!Subscribed
<1> QED
  BY <1>4, <1>5, <1>7 DEF PushInv

(* An answer: what it makes of a send, and of the subscriptions when it is   *)
(* the last.                                                                 *)
LEMMA AnswersKeeps ==
  ASSUME Countable, PushInv, NEW m \in sends, NEW s \in m.waiting, NEW r, r.sent \in BOOLEAN,
         r.gone \in BOOLEAN, Pushes!Answers(m, s, r), cause \subseteq cause', r.gone => s[1] \in cause'
  PROVE  PushInv'
<1> DEFINE n == [m EXCEPT !.waiting = @ \ {s}, !.sent = @ \/ r.sent,
                          !.gone = IF r.gone THEN @ \cup {s[1]} ELSE @]
<1>1. IsSend(m) /\ m.gone \subseteq cause
  BY DEF PushInv, SendsShape, GoneForCause
<1>2. s \in Pushes!Subscriptions /\ s[1] \in Endpoints
  BY <1>1 DEF IsSend, Pushes!Subscriptions
<1>3. n.waiting = m.waiting \ {s} /\ n.gone = IF r.gone THEN m.gone \cup {s[1]} ELSE m.gone
  BY <1>1 DEF IsSend
<1>4. IsSend(n) /\ n.gone \subseteq cause'
  BY <1>1, <1>2, <1>3 DEF IsSend
<1>5. /\ UNCHANGED <<held, client, told>>
      /\ \/ sends' = (sends \ {m}) \cup {n} /\ UNCHANGED <<subs, pushFile, unwritten>>
         \/ /\ sends' = sends \ {m}
            /\ subs' = [e \in Endpoints |-> IF e \in n.gone THEN None ELSE subs[e]]
            /\ pushFile'.subs = Pushes!Subscribed(subs') \/ UNCHANGED <<pushFile, unwritten>>
  <2>1. CASE n.waiting = {}
    <3>1. sends' = sends \ {m} /\ subs' = [e \in Endpoints |-> IF e \in n.gone THEN None ELSE subs[e]]
      BY <2>1 DEF Pushes!Answers
    <3>2. Pushes!Persist({}) \/ UNCHANGED <<pushFile, unwritten>>
      BY <2>1 DEF Pushes!Answers
    <3> QED
      BY <3>1, <3>2 DEF Pushes!Answers, Pushes!Persist, Pushes!Saved
  <2>2. CASE n.waiting # {}
    BY <2>2 DEF Pushes!Answers
  <2> QED
    BY <2>1, <2>2
<1> HIDE DEF n
<1>6. SendsShape'
  <2>1. IsFiniteSet(sends \ {m}) /\ Cardinality(sends \ {m}) = Cardinality(sends) - 1
    BY FS_RemoveElement DEF PushInv, SendsShape
  <2> DEFINE rest == sends \ {m}
  <2>2. /\ IsFiniteSet(rest \cup {n})
        /\ Cardinality(rest \cup {n}) = IF n \in rest THEN Cardinality(rest) ELSE Cardinality(rest) + 1
    BY <2>1, FS_AddElement
  <2>3. Cardinality(sends) \in Nat
    BY FS_CardinalityType DEF PushInv, SendsShape
  <2>4. sends' = rest \/ sends' = rest \cup {n}
    BY <1>5
  <2>5. Cardinality(rest) <= MaxSends /\ Cardinality(rest \cup {n}) <= MaxSends
    BY <2>1, <2>2, <2>3 DEF PushInv, SendsShape, Countable
  <2>6. \A x \in sends' : IsSend(x)
    BY <1>4, <2>4 DEF PushInv, SendsShape
  <2>8. IsFiniteSet(rest)
    BY <2>1
  <2>7. IsFiniteSet(sends') /\ Cardinality(sends') <= MaxSends
    <3> HIDE DEF rest
    <3> QED
      BY <2>2, <2>4, <2>5, <2>8
  <2> QED
    BY <2>6, <2>7 DEF SendsShape
<1>7. ClientShape' /\ GoneForCause'
  BY <1>4, <1>5 DEF PushInv, ClientShape, GoneForCause
<1>8. IsTable(subs)' /\ Pushes!ForgottenForCause'
  <2> DEFINE after == [e \in Endpoints |-> IF e \in n.gone THEN None ELSE subs[e]]
  <2>1. IsTable(after) /\ \A e \in Endpoints : after[e] = IF e \in n.gone THEN None ELSE subs[e]
    BY DEF PushInv, IsTable
  <2>2. CASE UNCHANGED <<subs, pushFile, unwritten>>
    BY <1>5, <2>2 DEF PushInv, Pushes!ForgottenForCause
  <2>3. CASE /\ subs' = after
             /\ pushFile'.subs = Pushes!Subscribed(subs') \/ UNCHANGED <<pushFile, unwritten>>
    <3> HIDE DEF after
    <3>1. pushFile'.subs = Pushes!Subscribed(after) \/ UNCHANGED <<pushFile, unwritten>>
      BY <2>3
    <3>2. \A e \in told' \ cause' : e \in Endpoints /\ after[e] # None /\ e \in pushFile.subs \cup unwritten
      BY <1>4, <1>5, <2>1 DEF PushInv, Pushes!ForgottenForCause
    <3>3. Pushes!ForgottenForCause'
      BY <2>3, <3>1, <3>2 DEF Pushes!ForgottenForCause, Pushes!Subscribed
    <3> QED
      BY <2>1, <2>3, <3>3
  <2> QED
    BY <1>5, <2>2, <2>3
<1> QED
  BY <1>5, <1>6, <1>7, <1>8 DEF PushInv

LEMMA SendOneKeeps ==
  ASSUME Countable, PushInv, NEW m \in sends, NEW s \in m.waiting, Pushes!SendOne(m, s)
  PROVE  PushInv'
<1>1. CASE Pushes!Answers(m, s, Pushes!Delivered(s)) /\ UNCHANGED cause
  <2> DEFINE r == Pushes!Delivered(s)
  <2>1. r.sent = TRUE /\ r.gone = (FALSE)
    BY DEF Pushes!Delivered
  <2> HIDE DEF r
  <2>2. r.sent \in BOOLEAN /\ r.gone \in BOOLEAN /\ cause \subseteq cause' /\ (r.gone => s[1] \in cause')
    BY <1>1, <2>1
  <2>3. Pushes!Answers(m, s, r)
    BY <1>1 DEF r
  <2> QED
    BY <2>2, <2>3, AnswersKeeps
<1>2. CASE Pushes!Answers(m, s, Pushes!Gone(s)) /\ cause' = cause \cup {s[1]}
  <2> DEFINE r == Pushes!Gone(s)
  <2>1. r.sent = FALSE /\ r.gone = (TRUE)
    BY DEF Pushes!Gone
  <2> HIDE DEF r
  <2>2. r.sent \in BOOLEAN /\ r.gone \in BOOLEAN /\ cause \subseteq cause' /\ (r.gone => s[1] \in cause')
    BY <1>2, <2>1
  <2>3. Pushes!Answers(m, s, r)
    BY <1>2 DEF r
  <2> QED
    BY <2>2, <2>3, AnswersKeeps
<1>3. CASE Pushes!Answers(m, s, Pushes!Refused(s)) /\ cause' = cause \cup {s[1]}
  <2> DEFINE r == Pushes!Refused(s)
  <2>1. r.sent = FALSE /\ (r.gone = TRUE \/ r.gone = FALSE)
    <3>1. CASE failures[s] + 1 > MaxFailures
      BY <3>1 DEF Pushes!Refused
    <3>2. CASE ~(failures[s] + 1 > MaxFailures)
      BY <3>2 DEF Pushes!Refused
    <3> QED
      BY <3>1, <3>2
  <2> HIDE DEF r
  <2>2. r.sent \in BOOLEAN /\ r.gone \in BOOLEAN /\ cause \subseteq cause' /\ (r.gone => s[1] \in cause')
    BY <1>3, <2>1
  <2>3. Pushes!Answers(m, s, r)
    BY <1>3 DEF r
  <2> QED
    BY <2>2, <2>3, AnswersKeeps
<1>4. CASE Pushes!Answers(m, s, Pushes!Offline(s)) /\ UNCHANGED cause
  <2> DEFINE r == Pushes!Offline(s)
  <2>1. r.sent = FALSE /\ r.gone = (FALSE)
    BY DEF Pushes!Offline
  <2> HIDE DEF r
  <2>2. r.sent \in BOOLEAN /\ r.gone \in BOOLEAN /\ cause \subseteq cause' /\ (r.gone => s[1] \in cause')
    BY <1>4, <2>1
  <2>3. Pushes!Answers(m, s, r)
    BY <1>4 DEF r
  <2> QED
    BY <2>2, <2>3, AnswersKeeps
<1>5. CASE Pushes!Answers(m, s, Pushes!Unbuildable(s)) /\ UNCHANGED cause
  <2> DEFINE r == Pushes!Unbuildable(s)
  <2>1. r.sent = FALSE /\ r.gone = (FALSE)
    BY DEF Pushes!Unbuildable
  <2> HIDE DEF r
  <2>2. r.sent \in BOOLEAN /\ r.gone \in BOOLEAN /\ cause \subseteq cause' /\ (r.gone => s[1] \in cause')
    BY <1>5, <2>1
  <2>3. Pushes!Answers(m, s, r)
    BY <1>5 DEF r
  <2> QED
    BY <2>2, <2>3, AnswersKeeps
<1> QED
  BY <1>1, <1>2, <1>3, <1>4, <1>5 DEF Pushes!SendOne

LEMMA SendKeeps ==
  ASSUME Countable, PushInv, Pushes!Send
  PROVE  PushInv'
<1> DEFINE m == [waiting |-> {subs[e] : e \in Pushes!Subscribed(subs)}, gone |-> {}, sent |-> FALSE]
<1>1. IsSend(m)
  <2>1. m.waiting = {subs[e] : e \in Pushes!Subscribed(subs)} /\ m.waiting \subseteq Pushes!Subscriptions
    BY DEF PushInv, IsTable, Pushes!Subscribed
  <2>2. \A s, t \in m.waiting : s[1] = t[1] => s = t
    BY <2>1 DEF PushInv, IsTable, Pushes!Subscribed
  <2> QED
    BY <2>1, <2>2 DEF IsSend
<1>2. /\ sends' = sends \cup {m} /\ Cardinality(sends) < MaxSends
      /\ UNCHANGED <<held, client, subs, pushFile, told, cause, unwritten>>
  <2>1. Pushes!Cardinality(sends) = Cardinality(sends)
    BY DEF Pushes!Cardinality, Cardinality
  <2> QED
    BY <2>1 DEF Pushes!Send, Pushes!sender, Pushes!past
<1> HIDE DEF m
<1>3. /\ IsFiniteSet(sends) /\ IsFiniteSet(sends \cup {m}) /\ Cardinality(sends) \in Nat
      /\ Cardinality(sends \cup {m}) = IF m \in sends THEN Cardinality(sends) ELSE Cardinality(sends) + 1
  BY FS_AddElement, FS_CardinalityType DEF PushInv, SendsShape
<1>4. SendsShape'
  <2>1. Cardinality(sends') <= MaxSends /\ IsFiniteSet(sends')
    BY <1>2, <1>3 DEF Countable
  <2>2. \A x \in sends' : IsSend(x)
    BY <1>1, <1>2 DEF PushInv, SendsShape
  <2> QED
    BY <2>1, <2>2 DEF SendsShape
<1> QED
  BY <1>2, <1>4 DEF PushInv, ClientShape, GoneForCause, Pushes!ForgottenForCause, m

LEMMA PushRestartKeeps ==
  ASSUME Countable, PushInv, Pushes!Restart
  PROVE  PushInv'
<1>1. SendsShape' /\ GoneForCause'
  BY FS_EmptySet DEF Pushes!Restart, SendsShape, GoneForCause, Countable
<1> DEFINE read == [e \in Endpoints |-> IF e \in pushFile.subs THEN <<e, 1>> ELSE None]
<1>2. IsTable(read) /\ \A e \in Endpoints : read[e] # None <=> e \in pushFile.subs
  <2>1. \A e \in Endpoints : <<e, 1>> \in Pushes!Subscriptions /\ <<e, 1>>[1] = e /\ <<e, 1>> # None
    BY DEF Countable, Pushes!Subscriptions
  <2>2. read = [e \in Endpoints |-> read[e]]
    OBVIOUS
  <2> QED
    BY <2>1, <2>2 DEF IsTable
<1>3. CASE subs' = read /\ cause' = cause \cup unwritten /\ unwritten' = {} /\ UNCHANGED <<pushFile, told>>
  <2> HIDE DEF read
  <2>1. \A e \in told' \ cause' : e \in Endpoints /\ e \in pushFile.subs
    BY <1>3 DEF PushInv, Pushes!ForgottenForCause
  <2>2. Pushes!ForgottenForCause'
    BY <1>2, <1>3, <2>1 DEF Pushes!ForgottenForCause
  <2> QED
    BY <1>1, <1>2, <1>3, <2>2 DEF Pushes!Restart, PushInv, ClientShape
<1>4. CASE subs' = [e \in Endpoints |-> None] /\ cause' = cause \cup told /\ UNCHANGED told
  BY <1>1, <1>4 DEF Pushes!Restart, PushInv, ClientShape, Pushes!ForgottenForCause, IsTable
<1> QED
  BY <1>3, <1>4 DEF Pushes!Restart

LEMMA PushStep ==
  ASSUME Countable, PushInv, [Pushes!Next]_Pushes!pvars
  PROVE  PushInv'
<1> USE DEF ClientShape, SendsShape, GoneForCause, Pushes!ForgottenForCause, Pushes!sender, Pushes!past
<1>1. CASE UNCHANGED Pushes!pvars
  BY <1>1 DEF Pushes!pvars, PushInv
<1>2. ASSUME NEW d \in Devices, Pushes!ReadKey(d) PROVE PushInv'
  BY <1>2 DEF Pushes!ReadKey, PushInv
<1>3. ASSUME NEW d \in Devices, Pushes!BrowserSubscribes(d) PROVE PushInv'
  <2>1. held' = [x \in Devices |-> held'[x]] /\ held'[d] \in Endpoints
    BY <1>3 DEF Pushes!BrowserSubscribes, Pushes!HoldsFor, PushInv
  <2>2. client' = [client EXCEPT ![d] = [does |-> "register", endpoint |-> held'[d]]]
    BY <1>3 DEF Pushes!BrowserSubscribes
  <2>3. ClientShape'
    BY <2>1, <2>2 DEF PushInv
  <2> QED
    BY <1>3, <2>3 DEF Pushes!BrowserSubscribes, PushInv
<1>4. ASSUME NEW d \in Devices, Pushes!Register(d) PROVE PushInv'
  BY <1>4, RegisterKeeps
<1>5. ASSUME NEW d \in Devices, Pushes!BrowserUnsubscribes(d) PROVE PushInv'
  BY <1>5 DEF Pushes!BrowserUnsubscribes, PushInv
<1>6. ASSUME NEW d \in Devices, Pushes!Unsubscribe(d) PROVE PushInv'
  BY <1>6, UnsubscribeKeeps
<1>7. ASSUME NEW d \in Devices, Pushes!RequestLost(d) PROVE PushInv'
  BY <1>7 DEF Pushes!RequestLost, PushInv, Pushes!Idle
<1>8. ASSUME NEW d \in Devices, Pushes!BrowserForgets(d) PROVE PushInv'
  BY <1>8 DEF Pushes!BrowserForgets, PushInv
<1>9. ASSUME NEW d \in Devices, Pushes!Tap(d) PROVE PushInv'
  BY <1>9 DEF Pushes!Tap, PushInv
<1>10. CASE Pushes!Send
  BY <1>10, SendKeeps
<1>11. ASSUME NEW m \in sends, NEW s \in m.waiting, Pushes!SendOne(m, s) PROVE PushInv'
  BY <1>11, SendOneKeeps
<1>12. CASE Pushes!Restart
  BY <1>12, PushRestartKeeps
<1> QED
  BY <1>1, <1>2, <1>3, <1>4, <1>5, <1>6, <1>7, <1>8, <1>9, <1>10, <1>11, <1>12 DEF Pushes!Next

(* A device that was told it is subscribed stays subscribed, in memory and   *)
(* on disk, for any number of devices, endpoints, sends under way, restarts  *)
(* and writes that fail, unless it unsubscribed, the push service refused    *)
(* it, the keys were lost or a restart came before any write had put it into *)
(* the file (subscribe, _sendOne, _persist of lib/push.js). None is no       *)
(* subscription, and the sends under way are finitely many.                  *)
THEOREM NobodyForgottenForNothing ==
  ASSUME Countable
  PROVE  Pushes!Spec => []Pushes!ForgottenForCause
<1>1. PushInv => Pushes!ForgottenForCause
  BY DEF PushInv
<1> QED
  BY <1>1, PushInit, PushStep, PTL DEF Pushes!Spec

-----------------------------------------------------------------------------
(* A week is a whole number of days, and messages are numbered.             *)
Calendar ==
  /\ DayHours \in Nat \ {0} /\ \E k \in Nat \ {0} : WeekHours = k * DayHours
  /\ Messages \subseteq Nat

Line  == [id : Nat, at : Nat]
Hours == {None} \cup Nat
Pass  == [at : Nat, listed : BOOLEAN, todo : SUBSET Transcripts,
          found : SUBSET (Transcripts \X Line), quotaRead : BOOLEAN, quota : Hours,
          before : SUBSET Line, partial : BOOLEAN]

(* Lines are as old as the last write to a file that holds them, or older,  *)
(* and a number is one line's.                                              *)
LinesAreOne ==
  /\ hour \in Nat
  /\ lines \in [Transcripts -> SUBSET Line] /\ mtime \in [Transcripts -> Nat]
  /\ IsFiniteSet(Meter!Written)
  /\ \A f \in Transcripts : mtime[f] <= hour /\ \A l \in lines[f] : l.at <= mtime[f]
  /\ \A l, m \in Meter!Written : l.id = m.id => l = m

(* A pass has found lines that were written; one that missed nothing has    *)
(* found, or is still to find, each line of the week it began with.         *)
PassMisses ==
  pass # None =>
    /\ pass \in Pass
    /\ \A x \in pass.found : x[2] \in Meter!Written
    /\ pass.before \subseteq Meter!Written
    /\ ~pass.partial =>
         \A l \in pass.before : l.at >= Meter!startOfLocalWeek(pass.at) =>
           \E f \in Transcripts : /\ l \in lines[f]
                                  /\ ~pass.listed \/ f \in pass.todo \/ <<f, l>> \in pass.found

Counts(bucket) == Meter!Tokens(bucket) \in Nat
UsageInv ==
  /\ LinesAreOne /\ PassMisses /\ Meter!CountedOnce /\ quotaFile \in Hours
  /\ cache # None => Counts(cache.week) /\ Counts(cache.today)

-----------------------------------------------------------------------------
(* What Usage counts with is the library's Cardinality.                     *)
LEMMA SameCount ==
  ASSUME NEW S
  PROVE  Meter!Cardinality(S) = Cardinality(S)
BY DEF Meter!Cardinality, Cardinality

LEMMA PartIsNoMore ==
  ASSUME NEW S, IsFiniteSet(S), NEW T \in SUBSET S
  PROVE  /\ IsFiniteSet(T) /\ Meter!Cardinality(T) <= Meter!Cardinality(S)
         /\ Meter!Cardinality(S) \in Nat /\ Meter!Cardinality(T) \in Nat
<1>1. IsFiniteSet(T)  BY FS_Subset
<1> QED  BY <1>1, SameCount, FS_Subset, FS_CardinalityType

LEMMA InjectedIsNoMore ==
  ASSUME NEW S, NEW T, IsFiniteSet(T), NEW f \in Injection(S, T)
  PROVE  IsFiniteSet(S) /\ Meter!Cardinality(S) <= Meter!Cardinality(T)
BY SameCount, FS_Injection

-----------------------------------------------------------------------------
(* No day begins before its week.                                           *)
LEMMA Multiples ==
  ASSUME NEW D \in Nat \ {0}, NEW k \in Nat \ {0}, NEW h \in Nat
  PROVE  h - (h % (k * D)) <= h - (h % D)
<1> DEFINE W == k * D
<1>0. W \in Nat \ {0}  OBVIOUS
<1> HIDE DEF W
<1>1. PICK p \in Int : h = D * p + (h % D) /\ h % D \in 0..(D - 1)
  <2>1. h \div D \in Int /\ h = D * (h \div D) + (h % D) /\ h % D \in 0..(D - 1)  BY Z3
  <2> QED  BY <2>1
<1>2. PICK q \in Int : h = W * q + (h % W) /\ h % W \in 0..(W - 1)
  <2>1. h \div W \in Int /\ h = W * (h \div W) + (h % W) /\ h % W \in 0..(W - 1)
    BY <1>0, Z3
  <2> QED  BY <2>1
<1>3. W * q = D * (k * q)  BY DEF W
<1>4. PICK a \in Int : a = k * q  OBVIOUS
<1>5. D * a <= h  BY <1>0, <1>2, <1>3, <1>4
<1>6. a <= p
  <2> SUFFICES ASSUME a >= p + 1 PROVE FALSE  OBVIOUS
  <2>1. D * a >= D * (p + 1)  OBVIOUS
  <2>2. D * (p + 1) = D * p + D  OBVIOUS
  <2> QED  BY <1>1, <1>5, <2>1, <2>2
<1>7. D * a <= D * p  BY <1>6
<1>8. h % W \in Int /\ h % D \in Int /\ D * a \in Int /\ D * p \in Int  BY <1>0, <1>1, <1>2
<1> QED
  <2>1. h - (h % W) = D * a  BY <1>2, <1>3, <1>4, <1>8
  <2>2. h - (h % D) = D * p  BY <1>1, <1>8
  <2> QED  BY <2>1, <2>2, <1>7 DEF W

LEMMA WeekIsWholeDays ==
  ASSUME Calendar
  PROVE  /\ DayHours \in Nat \ {0} /\ WeekHours \in Nat \ {0} /\ Messages \subseteq Nat
         /\ \A h \in Nat : Meter!startOfLocalWeek(h) <= Meter!startOfLocalDay(h)
<1>1. PICK k \in Nat \ {0} : WeekHours = k * DayHours  BY DEF Calendar
<1>2. DayHours \in Nat \ {0} /\ k * DayHours \in Nat \ {0}  BY DEF Calendar
<1>3. \A h \in Nat : h - (h % (k * DayHours)) <= h - (h % DayHours)
  BY <1>2, Multiples
<1> QED  BY <1>1, <1>2, <1>3 DEF Calendar, Meter!startOfLocalWeek, Meter!startOfLocalDay

-----------------------------------------------------------------------------
LEMMA WrittenOnce ==
  ASSUME Calendar, UsageInv, NEW f \in Transcripts, NEW l \in Line, l.at <= hour,
         \A m \in Meter!Written : l.id = m.id => l = m,
         Meter!Append(f, l)
  PROVE  UsageInv'
<1>1. /\ lines' = [lines EXCEPT ![f] = @ \cup {l}] /\ mtime' = [mtime EXCEPT ![f] = hour]
      /\ UNCHANGED <<hour, quotaFile, pass, cache>>
  BY DEF Meter!Append
<1>2. /\ hour \in Nat /\ lines \in [Transcripts -> SUBSET Line] /\ mtime \in [Transcripts -> Nat]
      /\ IsFiniteSet(Meter!Written)
      /\ \A g \in Transcripts : mtime[g] <= hour /\ \A m \in lines[g] : m.at <= mtime[g]
      /\ \A m, n \in Meter!Written : m.id = n.id => m = n
  BY DEF UsageInv, LinesAreOne
<1>3. Meter!Written' = Meter!Written \cup {l}
  <2>1. \A g \in Transcripts : lines'[g] = IF g = f THEN lines[g] \cup {l} ELSE lines[g]
    BY <1>1, <1>2
  <2>2. ASSUME NEW m PROVE m \in Meter!Written' <=> m \in Meter!Written \/ m = l
    <3>1. m \in Meter!Written' <=> \E g \in Transcripts : m \in lines'[g]  BY DEF Meter!Written
    <3>2. m \in Meter!Written <=> \E g \in Transcripts : m \in lines[g]  BY DEF Meter!Written
    <3> QED  BY <2>1, <3>1, <3>2
  <2> QED  BY <2>2
<1>4. LinesAreOne'
  <2>1. IsFiniteSet(Meter!Written')  BY <1>2, <1>3, FS_AddElement
  <2>2. lines' \in [Transcripts -> SUBSET Line] /\ mtime' \in [Transcripts -> Nat]
    BY <1>1, <1>2
  <2>3. \A g \in Transcripts : mtime'[g] <= hour /\ \A m \in lines'[g] : m.at <= mtime'[g]
    <3> SUFFICES ASSUME NEW g \in Transcripts
                 PROVE  mtime'[g] <= hour /\ \A m \in lines'[g] : m.at <= mtime'[g]
      OBVIOUS
    <3>1. CASE g = f
      <4>1. mtime'[g] = hour /\ lines'[g] = lines[g] \cup {l}  BY <1>1, <1>2, <3>1
      <4>2. \A m \in lines[g] : m.at \in Nat /\ mtime[g] \in Nat  BY <1>2 DEF Line
      <4>3. \A m \in lines[g] : m.at <= hour  BY <1>2, <4>2
      <4> QED  BY <1>2, <4>1, <4>3
    <3>2. CASE g # f  BY <1>1, <1>2, <3>2
    <3> QED  BY <3>1, <3>2
  <2>4. \A m, n \in Meter!Written' : m.id = n.id => m = n  BY <1>2, <1>3
  <2> QED  BY <1>1, <1>2, <2>1, <2>2, <2>3, <2>4 DEF LinesAreOne
<1>5. PassMisses'
  <2>1. \A g \in Transcripts : lines[g] \subseteq lines'[g]  BY <1>1, <1>2
  <2>2. Meter!Written \subseteq Meter!Written'  BY <1>3
  <2>3. PassMisses  BY DEF UsageInv
  <2> QED  BY <1>1, <2>1, <2>2, <2>3 DEF PassMisses, Meter!startOfLocalWeek
<1>6. ASSUME cache # None, NEW from, NEW bucket, Meter!Exact(bucket, from), Counts(bucket)
      PROVE  Meter!Exact(bucket, from)'
  <2>1. Meter!Answers(Meter!Written, from) \in SUBSET Meter!Answers(Meter!Written', from)
    BY <1>3 DEF Meter!Answers
  <2>2. IsFiniteSet(Meter!Answers(Meter!Written', from))
    <3>1. IsFiniteSet(Meter!Written') /\ Meter!Answers(Meter!Written', from) \subseteq Meter!Written'
      BY <1>4 DEF LinesAreOne, Meter!Answers
    <3> QED  BY <3>1, FS_Subset
  <2>3. /\ Meter!Cardinality(Meter!Answers(Meter!Written, from))
             <= Meter!Cardinality(Meter!Answers(Meter!Written', from))
        /\ IsFiniteSet(Meter!Answers(Meter!Written, from))
    BY <2>1, <2>2, PartIsNoMore
  <2>4. /\ Meter!Cardinality(Meter!Answers(Meter!Written, from)) \in Nat
        /\ Meter!Cardinality(Meter!Answers(Meter!Written', from)) \in Nat
    BY <2>1, <2>2, PartIsNoMore
  <2> QED  BY <1>1, <1>6, <2>3, <2>4 DEF Meter!Exact, Counts
<1>7. Meter!CountedOnce' /\ (cache' # None => Counts(cache'.week) /\ Counts(cache'.today))
  BY <1>1, <1>6 DEF UsageInv, Meter!CountedOnce
<1> QED  BY <1>1, <1>4, <1>5, <1>7 DEF UsageInv

LEMMA WritesKeep ==
  ASSUME Calendar, UsageInv, NEW f \in Transcripts, Meter!Write(f) \/ Meter!Replay(f)
  PROVE  UsageInv'
<1>0. /\ hour \in Nat /\ lines \in [Transcripts -> SUBSET Line]
      /\ \A g \in Transcripts : mtime[g] <= hour /\ \A m \in lines[g] : m.at <= mtime[g]
      /\ \A m, n \in Meter!Written : m.id = n.id => m = n
      /\ mtime \in [Transcripts -> Nat]
  BY DEF UsageInv, LinesAreOne
<1>1. \A m \in Meter!Written : m \in Line /\ m.id \in Nat /\ m.at <= hour
  <2> SUFFICES ASSUME NEW m \in Meter!Written PROVE m \in Line /\ m.id \in Nat /\ m.at <= hour
    OBVIOUS
  <2>1. PICK g \in Transcripts : m \in lines[g]  BY DEF Meter!Written
  <2>2. m \in Line /\ m.at \in Nat /\ m.id \in Nat /\ mtime[g] \in Nat  BY <1>0, <2>1 DEF Line
  <2> QED  BY <1>0, <2>1, <2>2
<1>2. CASE Meter!Write(f)
  <2>1. PICK n \in Messages : /\ \A l \in Meter!Written : l.id < n
                              /\ Meter!Append(f, [id |-> n, at |-> hour])
    BY <1>2 DEF Meter!Write
  <2> DEFINE l == [id |-> n, at |-> hour]
  <2>2. l \in Line /\ l.at <= hour /\ l.id = n /\ n \in Nat  BY <1>0 DEF Line, Calendar
  <2>3. \A m \in Meter!Written : m.id # n  BY <1>1, <2>1, <2>2
  <2>4. Meter!Append(f, l)  BY <2>1
  <2> HIDE DEF l
  <2> QED  BY <2>2, <2>3, <2>4, WrittenOnce
<1>3. CASE Meter!Replay(f)
  <2>1. PICK l \in Meter!Written : Meter!Append(f, l)  BY <1>3 DEF Meter!Replay
  <2> QED  BY <1>0, <1>1, <2>1, WrittenOnce
<1> QED  BY <1>2, <1>3

-----------------------------------------------------------------------------
(* A pass.                                                                  *)
Past == UNCHANGED <<hour, lines, mtime>>

LEMMA LinesStay ==
  ASSUME LinesAreOne, Past
  PROVE  LinesAreOne' /\ Meter!Written' = Meter!Written
BY DEF LinesAreOne, Past, Meter!Written

LEMMA CacheStays ==
  ASSUME UsageInv, Past, cache' = cache
  PROVE  Meter!CountedOnce' /\ (cache' # None => Counts(cache'.week) /\ Counts(cache'.today))
<1>1. Meter!Written' = Meter!Written  BY DEF Past, Meter!Written
<1> QED  BY <1>1 DEF UsageInv, Meter!CountedOnce, Meter!Exact

LEMMA PassKeeps ==
  ASSUME Calendar, UsageInv,
         Meter!Read \/ Meter!Listing \/ Meter!ReadQuota \/ \E f \in Transcripts : Meter!ReadTranscript(f)
  PROVE  UsageInv'
<1>0. Past /\ UNCHANGED <<quotaFile, cache>>
  BY DEF Meter!Read, Meter!Listing, Meter!ReadQuota, Meter!ReadTranscript, Past
<1>1. LinesAreOne' /\ Meter!Written' = Meter!Written  BY <1>0, LinesStay DEF UsageInv
<1>2. Meter!CountedOnce' /\ (cache' # None => Counts(cache'.week) /\ Counts(cache'.today))
  BY <1>0, CacheStays
<1>3. /\ hour \in Nat /\ lines \in [Transcripts -> SUBSET Line]
      /\ \A g \in Transcripts : mtime[g] <= hour /\ \A m \in lines[g] : m.at <= mtime[g]
      /\ mtime \in [Transcripts -> Nat]
  BY DEF UsageInv, LinesAreOne
<1>4. PassMisses'
  <2>1. CASE Meter!Read
    <3>1. pass' = [at |-> hour, listed |-> FALSE, todo |-> {}, found |-> {},
                   quotaRead |-> FALSE, quota |-> None, before |-> Meter!Written, partial |-> FALSE]
      BY <2>1 DEF Meter!Read
    <3>2. Meter!Written \subseteq Line  BY <1>3 DEF Meter!Written
    <3>3. \A l \in Meter!Written : \E f \in Transcripts : l \in lines[f]  BY DEF Meter!Written
    <3>4. pass' \in Pass  BY <1>3, <3>1, <3>2 DEF Pass, Hours
    <3> QED  BY <1>0, <1>1, <3>1, <3>3, <3>4 DEF PassMisses, Past
  <2>2. CASE Meter!Listing
    <3>0. pass # None /\ pass \in Pass /\ ~pass.listed /\ PassMisses
      BY <2>2 DEF Meter!Listing, UsageInv, PassMisses
    <3> DEFINE week == Meter!startOfLocalWeek(pass.at)
    <3>1. PICK s \in Meter!Listings(week) :
            pass' = [pass EXCEPT !.listed = TRUE, !.todo = s, !.partial = s # Meter!Touched(week)]
      BY <2>2 DEF Meter!Listing
    <3>2. s \subseteq Transcripts  BY DEF Meter!Listings, Meter!Touched
    <3>3. /\ pass' \in Pass /\ pass'.at = pass.at /\ pass'.found = pass.found
          /\ pass'.before = pass.before /\ pass'.todo = s /\ pass'.listed
          /\ pass'.partial = (s # Meter!Touched(week))
      BY <3>0, <3>1, <3>2 DEF Pass
    <3>4. ASSUME ~pass'.partial, NEW l \in pass.before, l.at >= week
          PROVE  \E f \in Transcripts : l \in lines[f] /\ f \in s
      <4>1. l \in Meter!Written  BY <3>0 DEF PassMisses
      <4>2. PICK f \in Transcripts : l \in lines[f]  BY <4>1 DEF Meter!Written
      <4>3. l.at <= mtime[f] /\ l.at \in Nat /\ mtime[f] \in Nat  BY <1>3, <4>2 DEF Line
      <4>4. week \in Int  BY <3>0, WeekIsWholeDays DEF Pass, Meter!startOfLocalWeek
      <4> HIDE DEF week
      <4>5. mtime[f] >= week  BY <3>4, <4>3, <4>4
      <4>6. f \in Meter!Touched(week)  BY <4>5 DEF Meter!Touched
      <4> QED  BY <3>3, <3>4, <4>2, <4>6
    <3>5. Meter!startOfLocalWeek(pass'.at) = week  BY <3>3
    <3> HIDE DEF week
    <3> QED  BY <1>0, <1>1, <3>0, <3>3, <3>4, <3>5 DEF PassMisses, Past
  <2>3. CASE Meter!ReadQuota
    <3>0. pass # None /\ pass \in Pass /\ PassMisses
      BY <2>3 DEF Meter!ReadQuota, UsageInv, PassMisses
    <3>1. PICK q \in Hours : pass' = [pass EXCEPT !.quotaRead = TRUE, !.quota = q]
      <4>1. PICK q \in {None, quotaFile} : pass' = [pass EXCEPT !.quotaRead = TRUE, !.quota =
              IF q = None THEN None ELSE IF pass.at - q > QuotaHours THEN None ELSE q]
        BY <2>3 DEF Meter!ReadQuota
      <4>2. q \in Hours /\ None \in Hours  BY DEF UsageInv, Hours
      <4> QED  BY <4>1, <4>2
    <3>2. /\ pass' \in Pass /\ pass'.at = pass.at /\ pass'.found = pass.found
          /\ pass'.before = pass.before /\ pass'.todo = pass.todo /\ pass'.listed = pass.listed
          /\ pass'.partial = pass.partial
      BY <3>0, <3>1 DEF Pass
    <3> QED  BY <1>0, <1>1, <3>0, <3>2 DEF PassMisses, Past
  <2>4. CASE \E f \in Transcripts : Meter!ReadTranscript(f)
    <3>0. pass # None /\ pass \in Pass /\ PassMisses
      BY <2>4 DEF Meter!ReadTranscript, UsageInv, PassMisses
    <3> DEFINE week == Meter!startOfLocalWeek(pass.at)
    <3>10. PICK f \in Transcripts : Meter!ReadTranscript(f)  BY <2>4
    <3>1. PICK got \in SUBSET Meter!Since(f, week) :
            pass' = [pass EXCEPT !.todo = @ \ {f}, !.found = @ \cup got,
                       !.partial = @ \/ got # Meter!Since(f, week)]
      BY <3>10 DEF Meter!ReadTranscript
    <3>2. \A x \in got : x = <<f, x[2]>> /\ x[2] \in lines[f]  BY DEF Meter!Since
    <3>3. got \subseteq Transcripts \X Line  BY <1>3, <3>2
    <3>4. /\ pass' \in Pass /\ pass'.at = pass.at /\ pass'.found = pass.found \cup got
          /\ pass'.before = pass.before /\ pass'.todo = pass.todo \ {f}
          /\ pass'.listed = pass.listed
          /\ pass'.partial = (pass.partial \/ got # Meter!Since(f, week))
      BY <3>0, <3>1, <3>3 DEF Pass
    <3>5. \A x \in pass'.found : x[2] \in Meter!Written
      BY <3>0, <3>2, <3>4 DEF PassMisses, Meter!Written
    <3>6. ASSUME ~pass'.partial, NEW l \in pass.before, l.at >= week
          PROVE  \E g \in Transcripts :
                   /\ l \in lines[g]
                   /\ ~pass.listed \/ g \in pass.todo \ {f} \/ <<g, l>> \in pass.found \cup got
      <4>1. ~pass.partial /\ got = Meter!Since(f, week)  BY <3>4, <3>6
      <4>2. PICK g \in Transcripts :
              l \in lines[g] /\ (~pass.listed \/ g \in pass.todo \/ <<g, l>> \in pass.found)
        BY <3>0, <3>6, <4>1 DEF PassMisses
      <4>3. CASE g = f
        <5>1. <<f, l>> \in Meter!Since(f, week)  BY <3>6, <4>2, <4>3 DEF Meter!Since
        <5> QED  BY <4>1, <4>2, <4>3, <5>1
      <4>4. CASE g # f  BY <4>2, <4>4
      <4> QED  BY <4>3, <4>4
    <3>7. Meter!startOfLocalWeek(pass'.at) = week  BY <3>4
    <3> HIDE DEF week
    <3>8. /\ pass'.before \subseteq Meter!Written'
          /\ \A x \in pass'.found : x[2] \in Meter!Written'
      BY <1>1, <3>0, <3>4, <3>5 DEF PassMisses
    <3>9. ASSUME ~pass'.partial, NEW l \in pass'.before, l.at >= Meter!startOfLocalWeek(pass'.at)
          PROVE  \E g \in Transcripts :
                   /\ l \in lines'[g]
                   /\ ~pass'.listed \/ g \in pass'.todo \/ <<g, l>> \in pass'.found
      BY <1>0, <3>4, <3>6, <3>7, <3>9 DEF Past
    <3> QED  BY <3>4, <3>8, <3>9 DEF PassMisses
  <2> QED  BY <2>1, <2>2, <2>3, <2>4
<1> QED  BY <1>0, <1>1, <1>2, <1>4 DEF UsageInv

(* What a pass counts.                                                      *)
LEMMA BucketIsExact ==
  ASSUME Calendar, LinesAreOne, PassMisses, pass # None, pass.listed, pass.todo = {},
         NEW start \in Int, start >= Meter!startOfLocalWeek(pass.at)
  PROVE  LET n == Meter!Tokens(Meter!InBucket(pass.found, start)) IN
         /\ n \in Nat
         /\ n <= Meter!Cardinality(Meter!Answers(Meter!Written, start))
         /\ ~pass.partial => n >= Meter!Cardinality(Meter!Answers(pass.before, start))
<1> DEFINE found == pass.found
           B == {x \in Meter!InBucket(found, start) : Meter!IsAnswer(x[2])}
           A == Meter!Answers(Meter!Written, start)
           first(l) == CHOOSE y \in found : y[2].id = l.id
<1>1. /\ IsFiniteSet(Meter!Written) /\ \A l, m \in Meter!Written : l.id = m.id => l = m
      /\ \A x \in found : x[2] \in Meter!Written
      /\ pass.before \subseteq Meter!Written /\ pass \in Pass
  BY DEF LinesAreOne, PassMisses
<1>2. \A x \in B : x \in found /\ x[2] \in A /\ x = first(x[2])
  BY <1>1 DEF Meter!InBucket, Meter!Counted, Meter!Answers
<1>3. IsFiniteSet(A)
  <2>1. A \in SUBSET Meter!Written  BY DEF Meter!Answers
  <2> QED  BY <1>1, <2>1, FS_Subset
<1> HIDE DEF B, A, first
<1>4. IsFiniteSet(B) /\ Meter!Cardinality(B) <= Meter!Cardinality(A)
  <2> DEFINE g == [x \in B |-> x[2]]
  <2>1. g \in [B -> A]  BY <1>2
  <2>2. ASSUME NEW x \in B, NEW y \in B, g[x] = g[y] PROVE x = y
    <3>1. x[2] = y[2]  BY <2>2
    <3> QED  BY <1>2, <3>1
  <2>3. g \in Injection(B, A)
    <3> HIDE DEF g
    <3> QED  BY <2>1, <2>2 DEF Injection, IsInjective
  <2> QED  BY <1>3, <2>3, InjectedIsNoMore
<1>5. ASSUME ~pass.partial
      PROVE  Meter!Cardinality(Meter!Answers(pass.before, start)) <= Meter!Cardinality(B)
  <2> DEFINE D == Meter!Answers(pass.before, start)
             g == [l \in D |-> first(l)]
  <2>1. ASSUME NEW l \in D PROVE first(l) \in B /\ first(l)[2] = l
    <3>1. l \in pass.before /\ l \in Meter!Written /\ l.at >= start /\ Meter!IsAnswer(l)
      BY <1>1 DEF Meter!Answers
    <3>2. PICK f \in Transcripts : l \in lines[f]  BY <3>1 DEF Meter!Written
    <3>3. l.at \in Nat  BY <3>2 DEF LinesAreOne, Line
    <3>4. Meter!startOfLocalWeek(pass.at) \in Int
      BY <1>1, WeekIsWholeDays DEF Pass, Meter!startOfLocalWeek
    <3>5. l.at >= Meter!startOfLocalWeek(pass.at)  BY <3>1, <3>3, <3>4
    <3>6. PICK h \in Transcripts : <<h, l>> \in found
      BY <1>5, <3>1, <3>5 DEF PassMisses
    <3>7. first(l) \in found /\ first(l)[2].id = l.id
      <4>1. <<h, l>>[2].id = l.id  OBVIOUS
      <4>2. \E y \in found : y[2].id = l.id  BY <3>6, <4>1
      <4> QED  BY <4>2 DEF first
    <3>8. first(l)[2] = l  BY <1>1, <3>1, <3>7
    <3>9. first(l) = CHOOSE y \in found : y[2].id = first(l)[2].id
      BY <3>8 DEF first
    <3>10. first(l) \in Meter!Counted(found)  BY <3>7, <3>9 DEF Meter!Counted
    <3> QED  BY <3>1, <3>8, <3>10 DEF B, Meter!InBucket
  <2>2. g \in [D -> B]  BY <2>1
  <2>3. ASSUME NEW x \in D, NEW y \in D, g[x] = g[y] PROVE x = y
    <3>1. first(x) = first(y)  BY <2>3
    <3> QED  BY <2>1, <3>1
  <2>4. g \in Injection(D, B)
    <3> HIDE DEF g, D
    <3> QED  BY <2>2, <2>3 DEF Injection, IsInjective
  <2> QED  BY <1>4, <2>4, InjectedIsNoMore
<1>6. Meter!Cardinality(B) \in Nat  BY <1>4, PartIsNoMore
<1>7. Meter!Tokens(Meter!InBucket(pass.found, start)) = Meter!Cardinality(B)
  BY DEF Meter!Tokens, B
<1> HIDE DEF found
<1>8. Meter!Cardinality(A) = Meter!Cardinality(Meter!Answers(Meter!Written, start))  BY DEF A
<1>9. ASSUME ~pass.partial
      PROVE  Meter!Cardinality(B) >= Meter!Cardinality(Meter!Answers(pass.before, start))
  <2>1. Meter!Answers(pass.before, start) \in SUBSET Meter!Written  BY <1>1 DEF Meter!Answers
  <2>2. Meter!Cardinality(Meter!Answers(pass.before, start)) \in Nat
    BY <1>1, <2>1, PartIsNoMore
  <2> QED  BY <1>5, <1>6, <1>9, <2>2
<1> QED  BY <1>4, <1>6, <1>7, <1>8, <1>9

LEMMA DoneKeeps ==
  ASSUME Calendar, UsageInv, Meter!Done
  PROVE  UsageInv'
<1>0. /\ pass # None /\ pass.listed /\ pass.todo = {} /\ pass' = None /\ cache' = Meter!Summary(pass)
      /\ Past /\ quotaFile' = quotaFile
  BY DEF Meter!Done, Past
<1>1. LinesAreOne' /\ Meter!Written' = Meter!Written  BY <1>0, LinesStay DEF UsageInv
<1>2. PassMisses'  BY <1>0 DEF PassMisses
<1>3. pass.at \in Nat  BY <1>0 DEF UsageInv, PassMisses, Pass
<1> DEFINE week == Meter!startOfLocalWeek(pass.at)
           day == Meter!startOfLocalDay(pass.at)
<1>4. week \in Int /\ day \in Int /\ week <= day
  <2>1. week \in Int /\ day \in Int
    <3>1. DayHours \in Nat \ {0} /\ WeekHours \in Nat \ {0}  BY WeekIsWholeDays
    <3> QED  BY <1>3, <3>1 DEF Meter!startOfLocalWeek, Meter!startOfLocalDay
  <2> QED  BY <1>3, <2>1, WeekIsWholeDays
<1> HIDE DEF week, day
<1>5. /\ cache'.at = pass.at /\ cache'.before = pass.before /\ cache'.partial = pass.partial
      /\ cache'.week = Meter!InBucket(pass.found, week) /\ cache'.today = Meter!InBucket(pass.found, day)
  BY <1>0 DEF Meter!Summary, week, day
<1>6. ASSUME NEW start \in Int, start >= week,
             NEW bucket, bucket = Meter!InBucket(pass.found, start)
      PROVE  Counts(bucket) /\ Meter!Exact(bucket, start)'
  <2>1. start >= Meter!startOfLocalWeek(pass.at)  BY <1>6 DEF week
  <2>2. /\ Meter!Tokens(bucket) \in Nat
        /\ Meter!Tokens(bucket) <= Meter!Cardinality(Meter!Answers(Meter!Written, start))
        /\ ~pass.partial => Meter!Tokens(bucket) >= Meter!Cardinality(Meter!Answers(pass.before, start))
    BY <1>0, <1>6, <2>1, BucketIsExact DEF UsageInv
  <2>3. Meter!Answers(Meter!Written, start)' = Meter!Answers(Meter!Written, start)
    BY <1>1 DEF Meter!Answers
  <2>4. Meter!Answers(cache.before, start)' = Meter!Answers(pass.before, start)
    BY <1>5 DEF Meter!Answers
  <2>5. Meter!Tokens(bucket)' = Meter!Tokens(bucket)  BY DEF Meter!Tokens
  <2> QED  BY <1>5, <2>2, <2>3, <2>4, <2>5 DEF Meter!Exact, Counts
<1>7. PICK ws, ds, wb, db :
        /\ ws = week /\ ds = day
        /\ wb = Meter!InBucket(pass.found, week) /\ db = Meter!InBucket(pass.found, day)
  OBVIOUS
<1>8. /\ Counts(wb) /\ Meter!Exact(wb, ws)' /\ Counts(db) /\ Meter!Exact(db, ds)'
  BY <1>4, <1>6, <1>7
<1>9. /\ cache'.week = wb /\ cache'.today = db
      /\ Meter!startOfLocalWeek(cache'.at) = ws /\ Meter!startOfLocalDay(cache'.at) = ds
  BY <1>5, <1>7 DEF week, day
<1>10. Meter!CountedOnce' /\ Counts(cache'.week) /\ Counts(cache'.today)
  <2>1. Meter!Exact(cache.week, Meter!startOfLocalWeek(cache.at))'
    BY <1>8, <1>9 DEF Meter!Exact, Meter!Tokens, Meter!Answers
  <2>2. Meter!Exact(cache.today, Meter!startOfLocalDay(cache.at))'
    BY <1>8, <1>9 DEF Meter!Exact, Meter!Tokens, Meter!Answers
  <2> QED  BY <1>8, <1>9, <2>1, <2>2 DEF Meter!CountedOnce
<1>11. quotaFile' \in Hours  BY <1>0 DEF UsageInv
<1> QED  BY <1>1, <1>2, <1>10, <1>11 DEF UsageInv

-----------------------------------------------------------------------------
LEMMA OthersKeep ==
  ASSUME UsageInv, Meter!Tick \/ Meter!writeQuotaFile \/ UNCHANGED Meter!uvars
  PROVE  UsageInv'
<1>1. /\ UNCHANGED <<lines, mtime, pass, cache>>
      /\ quotaFile' \in Hours /\ hour' \in Nat /\ hour <= hour'
  BY DEF UsageInv, LinesAreOne, Meter!Tick, Meter!writeQuotaFile, Meter!uvars, Hours
<1>2. Meter!Written' = Meter!Written  BY <1>1 DEF Meter!Written
<1>3. LinesAreOne'
  <2>1. LinesAreOne  BY DEF UsageInv
  <2>2. \A f \in Transcripts : mtime[f] <= hour'  BY <1>1, <2>1 DEF LinesAreOne
  <2> QED  BY <1>1, <1>2, <2>1, <2>2 DEF LinesAreOne
<1>4. PassMisses'  BY <1>1, <1>2 DEF UsageInv, PassMisses
<1>5. Meter!CountedOnce' /\ (cache' # None => Counts(cache'.week) /\ Counts(cache'.today))
  BY <1>1, <1>2 DEF UsageInv, Meter!CountedOnce, Meter!Exact
<1> QED  BY <1>1, <1>3, <1>4, <1>5 DEF UsageInv

LEMMA UsageStarts == Calendar /\ Meter!Init => UsageInv
<1> SUFFICES ASSUME Calendar, Meter!Init PROVE UsageInv
  OBVIOUS
<1>1. Meter!Written = {}  BY DEF Meter!Init, Meter!Written
<1>2. IsFiniteSet(Meter!Written)  BY <1>1, FS_EmptySet
<1>3. hour \in Nat  BY WeekIsWholeDays DEF Meter!Init
<1>4. LinesAreOne  BY <1>1, <1>2, <1>3 DEF Meter!Init, LinesAreOne
<1> QED  BY <1>4 DEF Meter!Init, UsageInv, PassMisses, Meter!CountedOnce, Hours

LEMMA UsageSteps == Calendar /\ UsageInv /\ [Meter!Next]_Meter!uvars => UsageInv'
BY WritesKeep, PassKeeps, DoneKeeps, OthersKeep DEF Meter!Next

(* CountedOnce of Usage, which the run parts checks: however the passes over *)
(* the transcripts interleave with what is written and copied between them, *)
(* the totals count an answer once, and miss none that was written before   *)
(* the pass unless a file was cut or could not be read.                     *)
THEOREM NoneTwice ==
  ASSUME DayHours \in Nat \ {0}, \E k \in Nat \ {0} : WeekHours = k * DayHours,
         Messages \subseteq Nat
  PROVE  Meter!Spec => []Meter!CountedOnce
<1>1. Calendar  BY DEF Calendar
<1>2. Meter!Init => UsageInv  BY <1>1, UsageStarts
<1>3. UsageInv /\ [Meter!Next]_Meter!uvars => UsageInv'  BY <1>1, UsageSteps
<1>4. UsageInv => Meter!CountedOnce  BY DEF UsageInv
<1> QED  BY <1>2, <1>3, <1>4, PTL DEF Meter!Spec
=============================================================================
