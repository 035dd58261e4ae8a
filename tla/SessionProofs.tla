---------------------------- MODULE SessionProofs ----------------------------
(***************************************************************************)
(* Proofs about SessionManager, for any session ids, strangers, limits,      *)
(* number of restarts and of hook events in flight: nothing a server's file  *)
(* promised goes missing, and no two agents hold one conversation.           *)
(*                                                                         *)
(* Three invariants. TableInv types the state and says what the rest relies  *)
(* on: what a live claude holds follows from its row, every id that is named *)
(* anywhere has been used, so that a new session inherits nothing, and no    *)
(* session outlives the server. KeepInv and ClaimInv build on it, and not on *)
(* each other.                                                               *)
(*                                                                         *)
(* Steps are few once seen from one row: a session is born, or it loses      *)
(* (Ebbs), or it hears an event. Each action is first shown to be one of     *)
(* Births, Losses and Tells, and each invariant then survives those three,   *)
(* the saves, and the ends and the start of a server.                        *)
(***************************************************************************)
EXTENDS SessionManager, FiniteSetTheorems, TLAPS

Records == [state : {"none", "live", "exited", "gone"},
            kind : {"claude", "shell", "external"}, holds : Conv \cup {None},
            conv : Conv \cup {None}, resumes : Conv \cup {None}, watched : BOOLEAN]
Orphans == [id : Ids, kind : {"claude", "shell", "external"}, conv : Conv \cup {None},
            resumes : Conv \cup {None}, at : Nat]

Types ==
  /\ session \in [Ids \cup Ext -> Records]
  /\ orphans \subseteq Orphans
  /\ file \in [sessions : SUBSET Orphans, orphans : SUBSET Orphans]
  /\ save \in {"none", "due", "stale"} /\ server \in {"up", "stopping", "down"}
  /\ runs \in Nat
  /\ wire \subseteq [session : Ids \cup {None}, conv : Conv]
  /\ owed \subseteq Conv

OnFile == file.sessions \cup file.orphans

(* A claude holds the conversation it resumes, or else its own.             *)
Sane(s) ==
  /\ session[s].state = "live" =>
       session[s].holds = IF session[s].kind # "claude" THEN None
                          ELSE IF session[s].resumes # None THEN session[s].resumes ELSE s
  /\ session[s].resumes # None => session[s].kind = "claude" /\ Known(s)
  /\ session[s].state = "none" => session[s] = Nothing

Resumable(o) == o.resumes # None => o.kind = "claude"

(* Every name to be found somewhere is in use, or a stranger's.             *)
Used(c)       == c \in Ids => session[c].state # "none"
OrphanUsed(o) == Used(o.id) /\ Used(o.conv) /\ Used(o.resumes)
NamesUsed ==
  /\ \A c \in owed : Used(c)
  /\ \A o \in orphans \cup OnFile : OrphanUsed(o)
  /\ \A s \in Ids : Used(session[s].conv) /\ Used(session[s].resumes)
  /\ \A e \in wire : Used(e.session) /\ Used(e.conv)

Phases ==
  /\ server # "up" => \A s \in Ids : ~Known(s)
  /\ server = "up" => save # "stale"
  /\ server = "stopping" => save # "due"
  /\ server = "down" => save = "none"

TableInv ==
  /\ Types /\ Phases
  /\ \A s \in Ids : Sane(s)
  /\ \A o \in orphans \cup OnFile : Resumable(o)
  /\ NamesUsed

(* An orphan's session does not run, and is offered once.                   *)
Apart ==
  /\ \A o \in orphans : ~Live(o.id)
  /\ \A o \in file.orphans, f \in file.sessions : o.id # f.id
(* A dead server's promise is in the file until it is given up, and is kept *)
(* by an orphan or a session that resumed: never by one that began its own  *)
(* conversation, which the file may not know yet.                           *)
Debts ==
  /\ owed \subseteq Promised
  /\ \A s \in Ids : Live(s) /\ session[s].resumes = None => s \notin owed
  /\ server = "up" => owed \subseteq Ways(orphans) \cup Holding({s \in Ids : Live(s)})
KeepInv == Apart /\ Debts /\ RunningIsListed

(* What a session holds, or will hold when it is restarted. No two sessions *)
(* or orphans claim the same, and what the hooks have told of a session, or *)
(* are about to tell, is its claim.                                         *)
Claim(s) == IF session[s].resumes # None THEN session[s].resumes
            ELSE IF session[s].state = "live" /\ session[s].kind = "claude" THEN s ELSE None
Differ(a, b) == a # b \/ a = None
ClaimInv ==
  /\ \A s, t \in Ids : s # t => Differ(Claim(s), Claim(t))
  /\ \A s \in Ids, o \in orphans : Differ(Claim(s), WayInto(o))
  /\ \A o, p \in orphans : o # p => Differ(WayInto(o), WayInto(p))
  /\ \A o, p \in OnFile : o # p => Differ(WayInto(o), WayInto(p))
  /\ \A s \in Ids : Live(s) => session[s].conv \in {None, Claim(s)}
  /\ \A e \in wire : e.session # None /\ Live(e.session) => e.conv = Claim(e.session)

(***************************************************************************)
(* Tables: what each operator does to the record of one session.            *)
(***************************************************************************)

Rows == [Ids \cup Ext -> Records]

LEMMA NothingTyped == Nothing \in Records /\ \A s : Ended(s) \in Records
  BY DEF Nothing, Ended, Records

LEMMA ClosedRows ==
  ASSUME NEW t, t.rec \in Rows, NEW ss
  PROVE  /\ Closed(t, ss).rec \in Rows
         /\ \A s \in Ids \cup Ext :
              Closed(t, ss).rec[s] = IF s \in ss THEN Ended(s) ELSE t.rec[s]
  BY NothingTyped DEF Closed, Rows

Stopped(row) == [row EXCEPT !.state = "exited", !.holds = None]

LEMMA ExitedRows ==
  ASSUME NEW t, t.rec \in Rows, NEW ss
  PROVE  /\ Exited(t, ss).rec \in Rows
         /\ \A s \in Ids \cup Ext :
              Exited(t, ss).rec[s] = IF s \in ss THEN Stopped(t.rec[s]) ELSE t.rec[s]
<1>1. ASSUME NEW s \in Ids \cup Ext PROVE Stopped(t.rec[s]) \in Records
  BY DEF Rows, Records, Stopped
<1>2. Exited(t, ss).rec = [s \in Ids \cup Ext |-> IF s \in ss THEN Stopped(t.rec[s]) ELSE t.rec[s]]
  BY DEF Exited, Rows, Stopped
<1>3. Exited(t, ss).rec \in Rows
  BY <1>1, <1>2 DEF Rows
<1> QED
  BY <1>2, <1>3

LEMMA ReapedRows ==
  ASSUME NEW t, t.rec \in Rows
  PROVE  /\ Reaped(t).rec \in Rows
         /\ \A s \in Ids \cup Ext : Reaped(t).rec[s] \in {t.rec[s], Ended(s)}
         /\ \A s \in Ids \cup Ext :
              t.rec[s].state = "live" => Reaped(t).rec[s] = t.rec[s]
         /\ Reaped(t) = [rec |-> Reaped(t).rec, out |-> Reaped(t).out]
<1> DEFINE over     == {x \in DOMAIN t.rec : t.rec[x].state = "exited" /\ ~t.rec[x].watched}
           After(x) == {y \in over : \E i, j \in DOMAIN t.out :
                                       i < j /\ t.out[i] = x /\ t.out[j] = y}
           extra    == {x \in over : Cardinality(After(x)) >= ExitedKept}
<1>0. Reaped(t).rec = [s \in DOMAIN t.rec |-> IF s \in extra THEN Ended(s) ELSE t.rec[s]]
  BY DEF Reaped
<1>1. \A s \in extra : t.rec[s].state = "exited"
  OBVIOUS
<1> HIDE DEF extra
<1>2. Reaped(t).rec \in Rows
  BY <1>0, NothingTyped DEF Rows
<1>3. \A s \in Ids \cup Ext : Reaped(t).rec[s] \in {t.rec[s], Ended(s)}
  BY <1>0 DEF Rows
<1>4. Reaped(t) = [rec |-> Reaped(t).rec, out |-> Reaped(t).out]
  BY DEF Reaped
<1>5. \A s \in Ids \cup Ext : t.rec[s].state = "live" => Reaped(t).rec[s] = t.rec[s]
  BY <1>0, <1>1 DEF Rows
<1> QED
  BY <1>2, <1>3, <1>4, <1>5

(* The record create makes.                                                 *)
Born(s, kind, resumes) ==
  [state |-> "live", kind |-> kind, conv |-> None, watched |-> FALSE, resumes |-> resumes,
   holds |-> IF kind # "claude" THEN None ELSE IF resumes # None THEN resumes ELSE s]

LEMMA BornTyped ==
  ASSUME NEW s \in Ids, NEW kind \in {"claude", "shell", "external"},
         NEW resumes \in Conv \cup {None}
  PROVE  Born(s, kind, resumes) \in Records
  BY DEF Born, Records, Conv

LEMMA SpawnedRows ==
  ASSUME NEW a, NEW b, NEW s, NEW kind, NEW resumes
  PROVE  Spawned([rec |-> a, out |-> b], s, kind, resumes).rec
           = [a EXCEPT ![s] = Born(s, kind, resumes)]
<1>1. Spawned([rec |-> a, out |-> b], s, kind, resumes)
        = [[rec |-> a, out |-> b] EXCEPT !.rec[s] = Born(s, kind, resumes)]
  BY DEF Spawned, Born
<1> QED
  BY <1>1

(* What create leaves of every record, and what it owes no more: t0 is the  *)
(* table its caller found, or closed a session of.                          *)
LEMMA CreatesRows ==
  ASSUME Types, NEW t0, t0.rec \in Rows, NEW s \in Ids, Sane(s), t0.rec[s] = session[s],
         NEW kind \in {"claude", "shell", "external"}, NEW resumes \in Conv \cup {None},
         Creates(t0, s, kind, resumes)
  PROVE  /\ session' \in Rows /\ session[s].state = "none"
         /\ \A i \in (Ids \cup Ext) \ {s} : session'[i] \in {t0.rec[i], Ended(i)}
         /\ session'[s] \in {session[s], Ended(s), Born(s, kind, resumes)}
         /\ owed' \subseteq owed
         /\ \A i \in Ids : Live(i) /\ session'[i].state # "live" =>
              session[i].holds = None \/ session[i].holds \notin owed'
         /\ ScheduleSave \/ UNCHANGED <<save, session>>
<1> DEFINE t == Reaped(t0)
<1>1. /\ t.rec \in Rows /\ t = [rec |-> t.rec, out |-> t.out]
      /\ \A i \in Ids \cup Ext : t.rec[i] \in {t0.rec[i], Ended(i)}
  BY ReapedRows
<1>2. /\ session[s].state = "none" /\ owed' = owed \ Dropped(t)
      /\ \/ Put(t)
         \/ Put(Spawned(t, s, kind, resumes))
         \/ Put([t EXCEPT !.rec[s].state = "gone"])
  BY DEF Creates, Forgive
<1>10. ScheduleSave \/ UNCHANGED <<save, session>>
  <2>1. ASSUME ~ScheduleSave PROVE ~Room(t) /\ t = Table /\ UNCHANGED save
    BY <2>1 DEF Creates
  <2>2. ASSUME ~ScheduleSave PROVE session' = session
    BY <2>1, <2>2 DEF Creates, Put, Table
  <2> QED
    BY <2>1, <2>2
<1> HIDE DEF t
<1>3. \E row \in {t.rec[s], Born(s, kind, resumes), [t.rec[s] EXCEPT !.state = "gone"]} :
        session' = [t.rec EXCEPT ![s] = row]
  <2>1. CASE Put(t)
    BY <2>1, <1>1 DEF Put, Rows
  <2>2. CASE Put(Spawned(t, s, kind, resumes))
    <3>1. Spawned([rec |-> t.rec, out |-> t.out], s, kind, resumes).rec
            = [t.rec EXCEPT ![s] = Born(s, kind, resumes)]
      BY SpawnedRows
    <3> QED
      BY <2>2, <3>1, <1>1 DEF Put
  <2>3. CASE Put([t EXCEPT !.rec[s].state = "gone"])
    <3>1. session' = [t.rec EXCEPT ![s].state = "gone"]
      BY <2>3, <1>1 DEF Put
    <3> QED
      BY <3>1
  <2> QED
    BY <1>2, <2>1, <2>2, <2>3
<1>4. t.rec[s] \in {session[s], Ended(s)} /\ session[s] = Nothing
  BY <1>1, <1>2 DEF Sane
<1>5. [t.rec[s] EXCEPT !.state = "gone"] = Ended(s)
  BY <1>4 DEF Ended, Nothing
<1>6. PICK row \in {session[s], Ended(s), Born(s, kind, resumes)} :
        session' = [t.rec EXCEPT ![s] = row]
  BY <1>3, <1>4, <1>5
<1>7. row \in Records
  BY NothingTyped, BornTyped DEF Types
<1>8. /\ session' \in Rows /\ session'[s] = row
      /\ \A i \in (Ids \cup Ext) \ {s} : session'[i] = t.rec[i]
  BY <1>1, <1>6, <1>7 DEF Rows
<1>9. \A i \in Ids : Live(i) /\ session'[i].state # "live" =>
        session[i].holds = None \/ session[i].holds \notin owed'
  <2>1. SUFFICES ASSUME NEW i \in Ids, Live(i), session'[i].state # "live",
                        session[i].holds # None
                 PROVE  session[i].holds \in Dropped(t)
    BY <1>2
  <2>2. t.rec[i].state # "live"
    BY <2>1, <1>2, <1>8 DEF Live
  <2> QED
    BY <2>1, <2>2 DEF Dropped, Holding
<1> QED
  BY <1>1, <1>2, <1>6, <1>8, <1>9, <1>10

(***************************************************************************)
(* Names.                                                                   *)
(***************************************************************************)

(* A session keeps its conversation or loses it, and is never new.          *)
Ebbs(s) ==
  /\ session'[s].state = "none" => session[s].state = "none"
  /\ session'[s].state = "live" =>
       /\ session[s].state = "live" /\ session'[s].holds = session[s].holds
       /\ session'[s].kind = session[s].kind /\ session'[s].conv = session[s].conv
  /\ session'[s].state = "exited" => Known(s)
  /\ session'[s].resumes \in {session[s].resumes, None}
  /\ session'[s].conv \in {session[s].conv, None}
  /\ session'[s].state = "live" => session'[s].resumes = session[s].resumes
  /\ Sane(s)'

LEMMA SameEbbs ==
  ASSUME NEW s \in Ids, Sane(s), session'[s] = session[s]
  PROVE  Ebbs(s)
  BY DEF Ebbs, Sane, Known

LEMMA EndedEbbs ==
  ASSUME NEW s \in Ids, session'[s] = Ended(s)
  PROVE  Ebbs(s)
  BY DEF Ebbs, Ended, Nothing, Sane, Known

LEMMA ExitEbbs ==
  ASSUME Types, NEW s \in Ids, Sane(s), Live(s),
         session'[s] = Stopped(session[s])
  PROVE  Ebbs(s)
<1>1. session[s] \in Records
  BY DEF Types
<1>2. /\ session'[s].state = "exited" /\ session'[s].resumes = session[s].resumes
      /\ session'[s].conv = session[s].conv /\ session'[s].kind = session[s].kind
  BY <1>1 DEF Records, Stopped
<1> QED
  BY <1>2 DEF Ebbs, Sane, Known, Live

LEMMA WatchEbbs ==
  ASSUME Types, NEW s \in Ids, Sane(s), NEW b \in BOOLEAN, session[s].state # "none",
         session'[s] = [session[s] EXCEPT !.watched = b]
  PROVE  Ebbs(s)
<1>1. session[s] \in Records
  BY DEF Types
<1>2. /\ session'[s].state = session[s].state /\ session'[s].resumes = session[s].resumes
      /\ session'[s].conv = session[s].conv /\ session'[s].kind = session[s].kind
      /\ session'[s].holds = session[s].holds
  BY <1>1 DEF Records
<1> QED
  BY <1>2 DEF Ebbs, Sane, Known

LEMMA UsedStays ==
  ASSUME NEW c, Used(c), \A s \in Ids : session'[s].state = "none" => session[s].state = "none"
  PROVE  Used(c)'
  BY DEF Used

LEMMA NoneIsUsed == Used(None)
  BY NoneIsNoName DEF Used

(* A step in which sessions only lose, and nothing is written.              *)
LEMMA EbbTable ==
  ASSUME TableInv, session' \in Rows, \A s \in Ids : Ebbs(s),
         server = "up" \/ save' = save, save' = save \/ save' = "due",
         orphans' \subseteq orphans, owed' \subseteq owed, wire' \subseteq wire,
         UNCHANGED <<file, runs, server>>
  PROVE  TableInv'
<1>1. Types'
  BY DEF TableInv, Types, Rows
<1>2. \A c : Used(c) => Used(c)'
  BY UsedStays DEF Ebbs
<1>3. NamesUsed'
  <2>1. \A s \in Ids : Used(session'[s].conv) /\ Used(session'[s].resumes)
    BY NoneIsUsed DEF Ebbs, TableInv, NamesUsed
  <2>2. \A s \in Ids : Used(session[s].conv)' /\ Used(session[s].resumes)'
    BY <2>1, UsedStays DEF Ebbs, Used
  <2>3. \A o \in (orphans \cup OnFile)' : OrphanUsed(o)'
    BY <1>2 DEF TableInv, NamesUsed, OnFile, OrphanUsed
  <2>4. \A c \in owed' : Used(c)'
    BY <1>2 DEF TableInv, NamesUsed
  <2>5. \A e \in wire' : Used(e.session)' /\ Used(e.conv)'
    BY <1>2 DEF TableInv, NamesUsed
  <2> QED
    BY <2>2, <2>3, <2>4, <2>5 DEF NamesUsed
<1>4. Phases'
  BY DEF TableInv, Phases, Ebbs, Sane, Known
<1>5. \A s \in Ids : Sane(s)'
  BY DEF Ebbs
<1>6. \A o \in (orphans \cup OnFile)' : Resumable(o)'
  BY DEF TableInv, OnFile, Resumable
<1> QED
  BY <1>1, <1>3, <1>4, <1>5, <1>6 DEF TableInv

(* What a step that creates a session leaves, whoever asked for it.         *)
Births(s, kind, resumes) ==
  /\ server = "up" /\ session[s].state = "none" /\ session' \in Rows
  /\ \A i \in Ids \ {s} : Ebbs(i)
  /\ session'[s] \in {session[s], Ended(s), Born(s, kind, resumes)}
  /\ kind \in {"claude", "shell", "external"} /\ resumes \in Conv \cup {None}
  /\ Used(resumes) /\ (resumes # None => kind = "claude")
  /\ owed' \subseteq owed
  /\ \A i \in Ids : Live(i) /\ session'[i].state # "live" =>
       session[i].holds = None \/ session[i].holds \notin owed'
  /\ save' = "due" \/ UNCHANGED <<save, session>>
  /\ UNCHANGED <<file, runs, server, wire>>

LEMMA BirthTable ==
  ASSUME TableInv, NEW s \in Ids, NEW kind, NEW resumes, Births(s, kind, resumes),
         orphans' \subseteq orphans
  PROVE  TableInv'
<1>0. Sane(s) /\ UNCHANGED <<file, runs, server, wire>> /\ session' \in Rows
  BY DEF TableInv, Births
<1>1. CASE session'[s] \in {session[s], Ended(s)}
  <2>1. \A i \in Ids : Ebbs(i)
    BY <1>0, <1>1, SameEbbs, EndedEbbs DEF Births
  <2> QED
    BY <1>0, <2>1, EbbTable DEF Births
<1>2. CASE session'[s] = Born(s, kind, resumes)
  <2>1. Types'
    BY <1>0 DEF Births, TableInv, Types, Rows
  <2>2. /\ session'[s].state = "live" /\ session'[s].conv = None
        /\ session'[s].resumes = resumes /\ session'[s].kind = kind
        /\ session'[s].holds = IF kind # "claude" THEN None
                               ELSE IF resumes # None THEN resumes ELSE s
    BY <1>2 DEF Born
  <2>3. \A c : Used(c) => Used(c)'
    BY <2>2 DEF Used, Births, Ebbs
  <2>4. NamesUsed'
    <3>1. \A i \in Ids : Used(session'[i].conv) /\ Used(session'[i].resumes)
      BY <2>2, NoneIsUsed DEF Births, Ebbs, TableInv, NamesUsed
    <3>2. \A i \in Ids : Used(session[i].conv)' /\ Used(session[i].resumes)'
      BY <3>1, <2>2 DEF Used, Births, Ebbs
    <3>3. \A o \in (orphans \cup OnFile)' : OrphanUsed(o)'
      BY <2>3, <1>0 DEF TableInv, NamesUsed, OnFile, OrphanUsed
    <3>4. \A c \in owed' : Used(c)'
      BY <2>3 DEF TableInv, NamesUsed, Births
    <3>5. \A e \in wire' : Used(e.session)' /\ Used(e.conv)'
      BY <2>3, <1>0 DEF TableInv, NamesUsed
    <3> QED
      BY <3>2, <3>3, <3>4, <3>5 DEF NamesUsed
  <2>5. Phases'
    BY <1>0, <2>2 DEF Births, Phases
  <2>6. Sane(s)'
    BY <2>2 DEF Sane, Known, Births
  <2>7. \A i \in Ids : Sane(i)'
    BY <2>6 DEF Births, Ebbs
  <2>8. \A o \in (orphans \cup OnFile)' : Resumable(o)'
    BY <1>0 DEF TableInv, OnFile, Resumable
  <2> QED
    BY <2>1, <2>4, <2>5, <2>7, <2>8 DEF TableInv
<1> QED
  BY <1>1, <1>2 DEF Births

LEMMA TableTyped ==
  ASSUME Types
  PROVE  Table.rec \in Rows /\ Table.rec = session
  BY DEF Types, Table, Rows

LEMMA CreatesBirths ==
  ASSUME TableInv, NEW ss \in SUBSET Ids, NEW s \in Ids \ ss, NEW t0, t0.rec \in Rows,
         \A i \in Ids : t0.rec[i] = IF i \in ss THEN Ended(i) ELSE session[i],
         NEW kind \in {"claude", "shell", "external"}, NEW resumes \in Conv \cup {None},
         Used(resumes), resumes # None => kind = "claude",
         server = "up", UNCHANGED <<file, runs, server, wire>>,
         Creates(t0, s, kind, resumes)
  PROVE  Births(s, kind, resumes) /\ \A i \in ss : session'[i] = Ended(i)
<1>1. Types /\ Sane(s) /\ t0.rec[s] = session[s]
  BY DEF TableInv
<1>2. /\ session' \in Rows /\ session[s].state = "none"
      /\ \A i \in (Ids \cup Ext) \ {s} : session'[i] \in {t0.rec[i], Ended(i)}
      /\ session'[s] \in {session[s], Ended(s), Born(s, kind, resumes)}
      /\ owed' \subseteq owed
      /\ \A i \in Ids : Live(i) /\ session'[i].state # "live" =>
           session[i].holds = None \/ session[i].holds \notin owed'
      /\ ScheduleSave \/ UNCHANGED <<save, session>>
  BY <1>1, CreatesRows
<1>3. ASSUME NEW i \in Ids \ {s}
      PROVE  session'[i] \in {session[i], Ended(i)} /\ (i \in ss => session'[i] = Ended(i))
  BY <1>2
<1>4. \A i \in Ids \ {s} : Ebbs(i)
  BY <1>3, SameEbbs, EndedEbbs DEF TableInv
<1>5. save' = "due" \/ UNCHANGED <<save, session>>
  BY <1>2 DEF ScheduleSave, TableInv, Phases, Types
<1> QED
  BY <1>2, <1>3, <1>4, <1>5 DEF Births

(* An event that comes after the server has begun to stop is a mishap.      *)
Calm == "late event" \notin Mishaps

LEMMA CreateBirths ==
  ASSUME Calm, TableInv, NEW s \in Ids, NEW kind \in {"claude", "shell"}, Create(s, kind)
  PROVE  Births(s, kind, None) /\ UNCHANGED orphans
<1>1. Table.rec \in Rows /\ Table.rec = session
  BY TableTyped DEF TableInv
<1>2. /\ server = "up" /\ UNCHANGED <<orphans, file, runs, server, wire>>
      /\ Creates(Table, s, kind, None)
  BY DEF Create, Serving, Calm
<1>9. /\ {} \in SUBSET Ids /\ s \in Ids \ {}
      /\ \A i \in Ids : Table.rec[i] = IF i \in {} THEN Ended(i) ELSE session[i]
  BY <1>1
<1> QED
  BY <1>1, <1>2, <1>9, NoneIsUsed, CreatesBirths

LEMMA RestartBirths ==
  ASSUME TableInv, NEW s \in Ids, NEW new \in Ids, Restart(s, new)
  PROVE  /\ Births(new, session[s].kind, session[s].resumes) /\ UNCHANGED orphans
         /\ Known(s) /\ session'[s] = Ended(s)
<1>0. Types /\ Sane(s) /\ session[s] \in Records /\ Used(session[s].resumes)
  BY DEF TableInv, NamesUsed, Types
<1>1. Table.rec \in Rows /\ Table.rec = session
  BY <1>0, TableTyped
<1> DEFINE t0 == Closed(Table, {s})
<1>2. /\ t0.rec \in Rows
      /\ \A i \in Ids : t0.rec[i] = IF i \in {s} THEN Ended(i) ELSE session[i]
  BY <1>1, ClosedRows
<1>3. /\ server = "up" /\ UNCHANGED <<orphans, file, runs, server, wire>> /\ Known(s)
      /\ Creates(t0, new, session[s].kind, session[s].resumes)
  BY DEF Restart
<1>4. s # new
  BY <1>3 DEF Creates, Known
<1>5. /\ session[s].kind \in {"claude", "shell", "external"}
      /\ session[s].resumes \in Conv \cup {None}
      /\ session[s].resumes # None => session[s].kind = "claude"
  BY <1>0 DEF Records, Sane
<1> HIDE DEF t0
<1> QED
  BY <1>0, <1>2, <1>3, <1>4, <1>5, CreatesBirths

LEMMA DuplicateBirths ==
  ASSUME TableInv, NEW s \in Ids, NEW new \in Ids, Duplicate(s, new)
  PROVE  /\ Births(new, session[s].kind, session[s].resumes) /\ UNCHANGED orphans
<1>0. Types /\ Sane(s) /\ session[s] \in Records /\ Used(session[s].resumes)
  BY DEF TableInv, NamesUsed, Types
<1>1. Table.rec \in Rows /\ Table.rec = session
  BY <1>0, TableTyped
<1>3. /\ server = "up" /\ UNCHANGED <<orphans, file, runs, server, wire>>
      /\ Creates(Table, new, session[s].kind, session[s].resumes)
  BY DEF Duplicate
<1>5. /\ session[s].kind \in {"claude", "shell", "external"}
      /\ session[s].resumes \in Conv \cup {None}
      /\ session[s].resumes # None => session[s].kind = "claude"
  BY <1>0 DEF Records, Sane
<1>9. /\ {} \in SUBSET Ids /\ new \in Ids \ {}
      /\ \A i \in Ids : Table.rec[i] = IF i \in {} THEN Ended(i) ELSE session[i]
  BY <1>1
<1> QED
  BY <1>0, <1>1, <1>3, <1>5, <1>9, CreatesBirths

(* The kind an orphan is resumed with.                                      *)
KindOf(o) == IF o.conv # None THEN "claude" ELSE o.kind

LEMMA ResumeBirths ==
  ASSUME TableInv, NEW o \in orphans, NEW s \in Ids, ResumeOrphan(o, s)
  PROVE  /\ Births(s, KindOf(o), WayInto(o))
         /\ orphans' = IF session'[s].state = "live" THEN orphans \ {o} ELSE orphans
<1>0. Types /\ o \in Orphans /\ OrphanUsed(o) /\ Resumable(o)
  BY DEF TableInv, NamesUsed, Types
<1>1. Table.rec \in Rows /\ Table.rec = session
  BY <1>0, TableTyped
<1>3. /\ server = "up" /\ UNCHANGED <<file, runs, server, wire>>
      /\ Creates(Table, s, KindOf(o), WayInto(o))
      /\ orphans' = IF session'[s].state = "live" THEN orphans \ {o} ELSE orphans
  BY DEF ResumeOrphan, KindOf
<1>5. /\ KindOf(o) \in {"claude", "shell", "external"} /\ WayInto(o) \in Conv \cup {None}
      /\ Used(WayInto(o)) /\ (WayInto(o) # None => KindOf(o) = "claude")
  BY <1>0 DEF Orphans, KindOf, WayInto, OrphanUsed, Resumable
<1>9. /\ {} \in SUBSET Ids /\ s \in Ids \ {}
      /\ \A i \in Ids : Table.rec[i] = IF i \in {} THEN Ended(i) ELSE session[i]
  BY <1>1
<1> QED
  BY <1>1, <1>3, <1>5, <1>9, CreatesBirths

(* What a step in which sessions only lose leaves.                          *)
Losses ==
  /\ server = "up" /\ session' \in Rows
  /\ \A s \in Ids : Ebbs(s)
  /\ owed' \subseteq owed
  /\ \A i \in Ids : Live(i) /\ session'[i].state # "live" =>
       session[i].holds = None \/ session[i].holds \notin owed'
  /\ save' = save \/ save' = "due"
  /\ UNCHANGED <<file, runs, server, wire>>

LEMMA LossTable ==
  ASSUME TableInv, Losses, orphans' \subseteq orphans
  PROVE  TableInv'
  BY EbbTable DEF Losses

(* Ids are not the keys of external records.                                *)
LEMMA Apartness == Ids \cap Ext = {}
  BY KeysAreNoIds DEF Ext, Conv

LEMMA ForgetLoses ==
  ASSUME Calm, TableInv, NEW o \in orphans, ForgetOrphan(o)
  PROVE  Losses /\ orphans' = orphans \ {o} /\ owed' = owed \ {WayInto(o)}
<1>1. \A s \in Ids : Ebbs(s)
  BY SameEbbs DEF ForgetOrphan, table, TableInv
<1>2. session' \in Rows /\ UNCHANGED session
  BY DEF ForgetOrphan, table, TableInv, Types, Rows
<1>3. save' \in {save, "due"}
  BY DEF ForgetOrphan, ScheduleSave
<1> QED
  BY <1>1, <1>2, <1>3 DEF Losses, ForgetOrphan, Serving, Calm, Forgive, Live

LEMMA EndLoses ==
  ASSUME TableInv, NEW s \in Ids \cup Ext, PtyExit(s) \/ Kill(s)
  PROVE  Losses /\ UNCHANGED orphans
<1>0. Types /\ Table.rec \in Rows /\ Table.rec = session
  BY TableTyped DEF TableInv
<1>1. /\ server = "up" /\ Live(s) /\ session' = Exited(Table, {s}).rec
      /\ owed' = owed \ Holding({s})
      /\ UNCHANGED <<orphans, file, save, server, runs, wire>>
  BY DEF PtyExit, Kill, Ends, Put, Forgive
<1>2. /\ session' \in Rows
      /\ \A i \in Ids \cup Ext :
           session'[i] = IF i \in {s} THEN Stopped(session[i]) ELSE session[i]
  BY <1>0, <1>1, ExitedRows
<1>3. ASSUME NEW i \in Ids PROVE Ebbs(i)
  <2>1. CASE i = s
    BY <2>1, <1>0, <1>1, <1>2, ExitEbbs DEF TableInv
  <2>2. CASE i # s
    BY <2>2, <1>2, SameEbbs DEF TableInv
  <2> QED
    BY <2>1, <2>2
<1>4. ASSUME NEW i \in Ids, Live(i), session'[i].state # "live"
      PROVE  session[i].holds = None \/ session[i].holds \notin owed'
  <2>1. i = s
    BY <1>2, <1>4 DEF Live
  <2> QED
    BY <1>1, <2>1 DEF Holding
<1> QED
  BY <1>1, <1>2, <1>3, <1>4 DEF Losses

LEMMA CloseLoses ==
  ASSUME TableInv, NEW s \in Ids \cup Ext, Close(s)
  PROVE  Losses /\ UNCHANGED orphans
<1>0. Types /\ Table.rec \in Rows /\ Table.rec = session
  BY TableTyped DEF TableInv
<1>1. /\ server = "up" /\ session' = Closed(Table, {s}).rec
      /\ owed' = owed \ Holding({s} \cap Ids)
      /\ UNCHANGED <<orphans, file, server, runs, wire>> /\ save' \in {save, "due"}
  BY DEF Close, Put, Forgive, ScheduleSave
<1>2. /\ session' \in Rows
      /\ \A i \in Ids \cup Ext : session'[i] = IF i \in {s} THEN Ended(i) ELSE session[i]
  BY <1>0, <1>1, ClosedRows
<1>3. ASSUME NEW i \in Ids PROVE Ebbs(i)
  BY <1>2, SameEbbs, EndedEbbs DEF TableInv
<1>4. ASSUME NEW i \in Ids, Live(i), session'[i].state # "live"
      PROVE  session[i].holds = None \/ session[i].holds \notin owed'
  <2>1. i = s
    BY <1>2, <1>4 DEF Live
  <2> QED
    BY <1>1, <2>1 DEF Holding
<1> QED
  BY <1>1, <1>2, <1>3, <1>4 DEF Losses

LEMMA WatchLoses ==
  ASSUME TableInv, NEW s \in Ids, Attach(s) \/ Detach(s)
  PROVE  Losses /\ UNCHANGED orphans
<1>0. Types /\ session[s] \in Records /\ session \in Rows
  BY DEF TableInv, Types, Rows
<1>1. PICK b \in BOOLEAN : session' = [session EXCEPT ![s].watched = b]
  BY DEF Attach, Detach
<1>2. /\ server = "up" /\ UNCHANGED <<orphans, file, save, server, runs, wire, owed>>
  BY DEF Attach, Detach
<1>3. [session[s] EXCEPT !.watched = b] \in Records
  BY <1>0 DEF Records
<1>4. /\ session' \in Rows /\ session'[s] = [session[s] EXCEPT !.watched = b]
      /\ \A i \in Ids \ {s} : session'[i] = session[i]
  BY <1>0, <1>1, <1>3 DEF Rows
<1>5. session[s].state # "none"
  BY DEF Attach, Detach, Known, TableInv, Sane, Nothing
<1>6. ASSUME NEW i \in Ids PROVE Ebbs(i)
  <2>1. CASE i = s
    BY <2>1, <1>0, <1>4, <1>5, WatchEbbs DEF TableInv
  <2>2. CASE i # s
    BY <2>2, <1>4, SameEbbs DEF TableInv
  <2> QED
    BY <2>1, <2>2
<1>7. \A i \in Ids : session'[i].state = session[i].state
  BY <1>0, <1>4 DEF Records
<1> QED
  BY <1>2, <1>4, <1>6, <1>7 DEF Losses, Live

LEMMA SweepLoses ==
  ASSUME TableInv, Sweep
  PROVE  Losses /\ UNCHANGED orphans
<1>0. Types /\ Table.rec \in Rows /\ Table.rec = session
  BY TableTyped DEF TableInv
<1>1. PICK silent \in SUBSET Ext, stale \in SUBSET Ids :
        LET shut == Closed(Exited(Table, silent), stale) IN
        /\ Put(Reaped(shut)) /\ Forgive(Dropped(shut))
        /\ IF stale = {} /\ Reaped(shut) = shut THEN UNCHANGED save ELSE ScheduleSave
  BY DEF Sweep
<1> DEFINE quiet == Exited(Table, silent)
           shut == Closed(quiet, stale)
<1>2. /\ quiet.rec \in Rows
      /\ \A i \in Ids : quiet.rec[i] = session[i]
  BY <1>0, ExitedRows, Apartness
<1> HIDE DEF quiet
<1>3. /\ shut.rec \in Rows
      /\ \A i \in Ids : shut.rec[i] = IF i \in stale THEN Ended(i) ELSE session[i]
  BY <1>2, ClosedRows
<1>4. session' = Reaped(shut).rec /\ owed' = owed \ Dropped(shut) /\ save' \in {save, "due"}
  BY <1>1 DEF Put, Forgive, ScheduleSave, quiet
<1> HIDE DEF shut
<1>5. /\ session' \in Rows
      /\ \A i \in Ids : session'[i] \in {shut.rec[i], Ended(i)}
      /\ \A i \in Ids : shut.rec[i].state = "live" => session'[i] = shut.rec[i]
  BY <1>3, <1>4, ReapedRows
<1>6. \A i \in Ids : Ebbs(i)
  BY <1>3, <1>5, SameEbbs, EndedEbbs DEF TableInv
<1>7. ASSUME NEW i \in Ids, Live(i), session'[i].state # "live", session[i].holds # None
      PROVE  session[i].holds \in Dropped(shut)
  <2>1. shut.rec[i].state # "live"
    BY <1>5, <1>7
  <2> QED
    BY <1>7, <2>1 DEF Dropped, Holding
<1> QED
  BY <1>4, <1>5, <1>6, <1>7 DEF Sweep, Losses

(***************************************************************************)
(* Hook events.                                                             *)
(***************************************************************************)

Heard(row, c) == [row EXCEPT !.conv = c]

LEMMA HeardIs ==
  ASSUME NEW row \in Records, NEW c \in Conv
  PROVE  /\ Heard(row, c) \in Records /\ Heard(row, c).state = row.state
         /\ Heard(row, c).kind = row.kind /\ Heard(row, c).resumes = row.resumes
         /\ Heard(row, c).holds = row.holds /\ Heard(row, c).conv = c
  BY DEF Heard, Records

LEMMA ApplyRows ==
  ASSUME NEW t, t.rec \in Rows, t = [rec |-> t.rec, out |-> t.out],
         NEW s \in Ids \cup Ext, NEW e, e.conv \in Conv
  PROVE  /\ Apply(t, s, e).rec \in Rows
         /\ \A i \in Ids \cup Ext :
              Apply(t, s, e).rec[i] = IF i = s THEN Heard(t.rec[i], e.conv) ELSE t.rec[i]
<1>1. Apply(t, s, e).rec = [t.rec EXCEPT ![s] = [t.rec[s] EXCEPT !.conv = e.conv]]
  BY DEF Apply
<1>2. Apply(t, s, e).rec = [t.rec EXCEPT ![s] = Heard(t.rec[s], e.conv)]
  BY <1>1 DEF Heard
<1>3. t.rec[s] \in Records /\ Heard(t.rec[s], e.conv) \in Records
  BY HeardIs DEF Rows
<1> QED
  BY <1>2, <1>3 DEF Rows

LEMMA AdoptedRows ==
  ASSUME NEW a \in Rows, NEW b, NEW x \in Ext
  PROVE  LET t == Adopted([rec |-> a, out |-> b], x) IN
         /\ t = [rec |-> t.rec, out |-> t.out] /\ t.rec \in Rows
         /\ \A i \in Ids : t.rec[i] = a[i]
<1>1. x \in Ids \cup Ext /\ x \notin Ids /\ x[2] \in Conv
  BY Apartness DEF Ext
<1> DEFINE t == Adopted([rec |-> a, out |-> b], x)
<1>2. PICK row \in Records :
        /\ t = [rec |-> t.rec, out |-> t.out] /\ t.rec = [a EXCEPT ![x] = row]
  <2>1. CASE a[x].state = "exited"
    <3>1. [a[x] EXCEPT !.state = "live"] \in Records
      BY <1>1 DEF Rows, Records
    <3>2. t.rec = [a EXCEPT ![x] = [a[x] EXCEPT !.state = "live"]]
          /\ t = [rec |-> t.rec, out |-> t.out]
      BY <2>1 DEF Adopted
    <3> QED
      BY <3>1, <3>2
  <2>2. CASE a[x].state # "exited"
    <3> DEFINE row == [Nothing EXCEPT !.state = "live", !.kind = "external", !.conv = x[2]]
    <3>1. row \in Records
      BY <1>1 DEF Nothing, Records
    <3>2. t = [[rec |-> a, out |-> b] EXCEPT !.rec[x] = row]
      BY <2>2 DEF Adopted
    <3> HIDE DEF row
    <3>3. t.rec = [a EXCEPT ![x] = row] /\ t = [rec |-> t.rec, out |-> t.out]
      BY <3>2
    <3> QED
      BY <3>1, <3>3
  <2> QED
    BY <2>1, <2>2
<1> HIDE DEF t
<1>3. t.rec \in Rows /\ \A i \in Ids : t.rec[i] = a[i]
  BY <1>1, <1>2 DEF Rows
<1> QED
  BY <1>2, <1>3 DEF t

(* What an event leaves: one session has heard it, or none of ours has.     *)
Tells(e) ==
  /\ server = "up" /\ session' \in Rows /\ e \in wire
  /\ \A i \in Ids :
       \/ session'[i] = session[i]
       \/ i \in Candidates(e) /\ Known(i) /\ session'[i] = Heard(session[i], e.conv)
  /\ save' = "due" \/ (save' = save /\ \A i \in Ids : session'[i] = session[i])
  /\ wire' = wire \ {e} /\ UNCHANGED <<orphans, file, runs, server, owed>>

LEMMA ArriveTells ==
  ASSUME Calm, TableInv, NEW e \in wire, Arrive(e)
  PROVE  Tells(e)
<1> DEFINE found == Candidates(e)
           x == <<"ext", e.conv>>
<1>0. /\ Types /\ Table.rec \in Rows /\ Table.rec = session
      /\ Table = [rec |-> session, out |-> exits] /\ session \in Rows
  BY TableTyped DEF TableInv, Table
<1>1. /\ server = "up" /\ wire' = wire \ {e} /\ e.conv \in Conv
      /\ e.session \in Ids \cup {None}
      /\ UNCHANGED <<orphans, file, runs, server, owed>>
  BY <1>0 DEF Arrive, Serving, Calm, Types
<1>2. x \in Ext
  BY <1>1 DEF Ext
<1>3. ScheduleSave => save' = "due"
  BY <1>1 DEF ScheduleSave, TableInv, Phases, Types
<1>4. found \subseteq Ids \cup Ext /\ \A i \in found : Known(i)
  BY <1>1 DEF Candidates, Live, Known
<1>5. \A i \in Ids \cup Ext : /\ session[i] \in Records
                              /\ Heard(session[i], e.conv) \in Records
  BY <1>0, <1>1, HeardIs DEF Rows
<1>6. CASE /\ Cardinality(found) = 1
           /\ Put(Apply(Table, CHOOSE s \in found : TRUE, e)) /\ ScheduleSave
  <2> DEFINE s == CHOOSE i \in found : TRUE
  <2>0. found # {}
    BY <1>6, FS_EmptySet
  <2>1. s \in found
    BY <2>0
  <2>4. session' = Apply(Table, s, e).rec
    BY <1>6 DEF Put
  <2> HIDE DEF s, found
  <2>5. Table = [rec |-> Table.rec, out |-> Table.out]
    BY DEF Table
  <2>6. /\ Apply(Table, s, e).rec \in Rows
        /\ \A i \in Ids \cup Ext :
             Apply(Table, s, e).rec[i] = IF i = s THEN Heard(Table.rec[i], e.conv)
                                         ELSE Table.rec[i]
    BY <1>0, <1>1, <1>4, <2>1, <2>5, ApplyRows
  <2>3. /\ session' \in Rows
        /\ \A i \in Ids : IF i = s THEN session'[i] = Heard(session[i], e.conv)
                          ELSE session'[i] = session[i]
    BY <1>0, <2>4, <2>6
  <2> QED
    BY <2>1, <2>3, <1>1, <1>3, <1>4, <1>6 DEF Tells, found
<1>7. CASE Put(Apply(IF Live(x) THEN Table ELSE Adopted(Table, x), x, e)) /\ ScheduleSave
  <2> DEFINE t == IF Live(x) THEN Table ELSE Adopted(Table, x)
  <2>1. /\ t = [rec |-> t.rec, out |-> t.out] /\ t.rec \in Rows
        /\ \A i \in Ids : t.rec[i] = session[i]
    <3>1. CASE Live(x)
      BY <3>1, <1>0
    <3>2. CASE ~Live(x)
      <4>1. t = Adopted([rec |-> session, out |-> exits], x)
        BY <3>2, <1>0
      <4> HIDE DEF t, x
      <4> QED
        BY <4>1, <1>0, <1>2, AdoptedRows
    <3> QED
      BY <3>1, <3>2
  <2>2. session' = Apply(t, x, e).rec
    BY <1>7 DEF Put
  <2> HIDE DEF t
  <2>3. /\ Apply(t, x, e).rec \in Rows
        /\ \A i \in Ids \cup Ext :
             Apply(t, x, e).rec[i] = IF i = x THEN Heard(t.rec[i], e.conv) ELSE t.rec[i]
    <3> HIDE DEF x
    <3> QED
      BY <1>1, <1>2, <2>1, ApplyRows
  <2>5. session' \in Rows /\ \A i \in Ids : session'[i] = session[i]
    BY <1>2, <2>1, <2>2, <2>3, Apartness
  <2> QED
    BY <2>5, <1>1, <1>3, <1>7 DEF Tells
<1>8. CASE UNCHANGED <<table, save>>
  BY <1>0, <1>1, <1>8 DEF Tells, table
<1> QED
  BY <1>6, <1>7, <1>8 DEF Arrive

LEMMA TellsTable ==
  ASSUME TableInv, NEW e, Tells(e)
  PROVE  TableInv'
<1>0. /\ Types /\ e \in wire /\ e.conv \in Conv /\ Used(e.conv)
      /\ session \in Rows /\ session' \in Rows
      /\ UNCHANGED <<orphans, file, runs, server, owed>>
  BY DEF Tells, TableInv, Types, NamesUsed, Rows
<1>1. ASSUME NEW i \in Ids
      PROVE  /\ session'[i].state = session[i].state /\ session'[i].kind = session[i].kind
             /\ session'[i].resumes = session[i].resumes
             /\ session'[i].holds = session[i].holds
             /\ session'[i].conv \in {session[i].conv, e.conv}
             /\ session[i].state = "none" => session'[i] = session[i]
  BY <1>0, HeardIs DEF Tells, Rows, Known
<1>2. Types'
  BY <1>0 DEF Tells, Types, Rows
<1>3. \A c : Used(c) => Used(c)'
  BY <1>1 DEF Used
<1>4. NamesUsed'
  <2>1. \A i \in Ids : Used(session'[i].conv) /\ Used(session'[i].resumes)
    BY <1>0, <1>1 DEF TableInv, NamesUsed
  <2>2. \A i \in Ids : Used(session[i].conv)' /\ Used(session[i].resumes)'
    BY <2>1, <1>1 DEF Used
  <2>3. \A o \in (orphans \cup OnFile)' : OrphanUsed(o)'
    BY <1>0, <1>3 DEF TableInv, NamesUsed, OnFile, OrphanUsed
  <2>4. \A c \in owed' : Used(c)'
    BY <1>0, <1>3 DEF TableInv, NamesUsed
  <2>5. \A p \in wire' : Used(p.session)' /\ Used(p.conv)'
    BY <1>3 DEF TableInv, NamesUsed, Tells
  <2> QED
    BY <2>2, <2>3, <2>4, <2>5 DEF NamesUsed
<1>5. Phases'
  BY <1>0 DEF Tells, TableInv, Phases
<1>6. \A i \in Ids : Sane(i)'
  BY <1>1 DEF TableInv, Sane, Known
<1>7. \A o \in (orphans \cup OnFile)' : Resumable(o)'
  BY <1>0 DEF TableInv, OnFile, Resumable
<1> QED
  BY <1>2, <1>4, <1>5, <1>6, <1>7 DEF TableInv

(***************************************************************************)
(* The state file, and the end of a server.                                 *)
(***************************************************************************)

LEMMA WireTable ==
  ASSUME TableInv, Emit
  PROVE  TableInv'
<1>0. UNCHANGED <<session, exits, orphans, file, save, server, runs, owed>>
  BY DEF Emit, table
<1>1. PICK e \in [session : Ids \cup {None}, conv : Conv] :
        /\ wire' = wire \cup {e} /\ Used(e.session) /\ Used(e.conv)
  <2>1. CASE \E s \in Ids : Live(s) /\ session[s].kind = "claude"
               /\ wire' = wire \cup {[session |-> s, conv |-> session[s].holds]}
    <3>1. PICK s \in Ids : Live(s) /\ session[s].kind = "claude"
               /\ wire' = wire \cup {[session |-> s, conv |-> session[s].holds]}
      BY <2>1
    <3>2. /\ session[s].holds \in {s, session[s].resumes} \ {None}
          /\ session[s].resumes \in Conv \cup {None} /\ Used(session[s].resumes)
      BY <3>1, NoneIsNoName DEF TableInv, Types, Records, NamesUsed, Sane, Live
    <3>3. Used(s) /\ Used(session[s].holds)
      BY <3>1, <3>2 DEF Used, Live
    <3>4. [session |-> s, conv |-> session[s].holds] \in [session : Ids \cup {None}, conv : Conv]
      BY <3>2 DEF Conv
    <3> QED
      BY <3>1, <3>3, <3>4
  <2>2. CASE \E x \in Strangers : wire' = wire \cup {[session |-> None, conv |-> x]}
    <3>1. PICK x \in Strangers : wire' = wire \cup {[session |-> None, conv |-> x]}
      BY <2>2
    <3>2. [session |-> None, conv |-> x] \in [session : Ids \cup {None}, conv : Conv]
      BY DEF Conv
    <3> QED
      BY <3>1, <3>2, NoneIsUsed, OursOrTheirs DEF Used
  <2> QED
    BY <2>1, <2>2 DEF Emit
<1> QED
  BY <1>0, <1>1 DEF TableInv, Types, Phases, Sane, Resumable, NamesUsed, OrphanUsed, OnFile,
     Used, Known

(* A step after which every name, and every orphan, was there before.       *)
LEMMA KeptTable ==
  ASSUME TableInv, Types', Phases', \A s \in Ids : Ebbs(s),
         \A o \in (orphans \cup OnFile)' : OrphanUsed(o) /\ Resumable(o),
         \A c \in owed' : Used(c), wire' = wire
  PROVE  TableInv'
<1>2. \A c : Used(c) => Used(c)'
  BY UsedStays DEF Ebbs
<1>3. NamesUsed'
  <2>1. \A s \in Ids : Used(session'[s].conv) /\ Used(session'[s].resumes)
    BY NoneIsUsed DEF Ebbs, TableInv, NamesUsed
  <2>2. \A s \in Ids : Used(session[s].conv)' /\ Used(session[s].resumes)'
    BY <2>1, UsedStays DEF Ebbs, Used
  <2>3. \A o \in (orphans \cup OnFile)' : OrphanUsed(o)'
    BY <1>2 DEF OrphanUsed
  <2>4. \A c \in owed' : Used(c)'
    BY <1>2
  <2>5. \A e \in wire' : Used(e.session)' /\ Used(e.conv)'
    BY <1>2 DEF TableInv, NamesUsed
  <2> QED
    BY <2>2, <2>3, <2>4, <2>5 DEF NamesUsed
<1>4. \A s \in Ids : Sane(s)'
  BY DEF Ebbs
<1>5. \A o \in (orphans \cup OnFile)' : Resumable(o)'
  BY DEF Resumable
<1> QED
  BY <1>3, <1>4, <1>5 DEF TableInv

(* What is written of a session that runs.                                  *)
LEMMA PersistableIs ==
  ASSUME TableInv, NEW o \in Persistable
  PROVE  /\ o \in Orphans /\ OrphanUsed(o) /\ Resumable(o) /\ Live(o.id)
         /\ o.conv = session[o.id].conv /\ o.resumes = session[o.id].resumes
<1>1. PICK s \in Ids :
        /\ Live(s)
        /\ o = [id |-> s, kind |-> session[s].kind, conv |-> session[s].conv,
                resumes |-> session[s].resumes, at |-> runs]
  BY DEF Persistable
<1>2. /\ session[s].kind \in {"claude", "shell", "external"}
      /\ session[s].conv \in Conv \cup {None} /\ session[s].resumes \in Conv \cup {None}
      /\ runs \in Nat /\ Used(session[s].conv) /\ Used(session[s].resumes)
      /\ session[s].resumes # None => session[s].kind = "claude"
  BY DEF TableInv, Types, Records, NamesUsed, Sane
<1>3. o \in Orphans
  BY <1>1, <1>2 DEF Orphans
<1>4. /\ o.id = s /\ o.kind = session[s].kind /\ o.conv = session[s].conv
      /\ o.resumes = session[s].resumes
  BY <1>1
<1>5. Used(s)
  BY <1>1 DEF Live, Used
<1> QED
  BY <1>1, <1>2, <1>3, <1>4, <1>5 DEF OrphanUsed, Resumable

LEMMA WrittenIs ==
  ASSUME TableInv, NEW kept \in SUBSET orphans, Written(kept)
  PROVE  /\ file' = [sessions |-> Persistable, orphans |-> kept]
         /\ file' \in [sessions : SUBSET Orphans, orphans : SUBSET Orphans]
         /\ OnFile' = Persistable \cup kept
         /\ \A o \in OnFile' : OrphanUsed(o) /\ Resumable(o)
         /\ owed' \subseteq owed
<1>1. file' = [sessions |-> Persistable, orphans |-> kept] /\ owed' \subseteq owed
  BY DEF Written
<1>2. OnFile' = Persistable \cup kept
  BY <1>1 DEF OnFile
<1>3. Persistable \subseteq Orphans /\ kept \subseteq Orphans
  BY PersistableIs DEF TableInv, Types
<1>4. \A o \in OnFile' : OrphanUsed(o) /\ Resumable(o)
  BY <1>2, PersistableIs DEF TableInv, NamesUsed
<1> QED
  BY <1>1, <1>2, <1>3, <1>4

LEMMA SaveTable ==
  ASSUME TableInv, Save
  PROVE  TableInv'
<1>0. /\ server = "up" /\ server' = "up" /\ save' = "none" /\ session' \in Rows
      /\ UNCHANGED <<session, exits, orphans, runs, wire>>
  BY DEF Save, TableInv, Phases, Types, table, Rows
<1>1. /\ file' \in [sessions : SUBSET Orphans, orphans : SUBSET Orphans]
      /\ \A o \in OnFile' : OrphanUsed(o) /\ Resumable(o)
      /\ owed' \subseteq owed
  <2>1. CASE \E kept \in SUBSET orphans : Written(kept)
    BY <2>1, WrittenIs
  <2>2. CASE UNCHANGED <<file, owed>>
    BY <2>2 DEF TableInv, Types, NamesUsed, OnFile
  <2> QED
    BY <2>1, <2>2 DEF Save
<1>2. Types'
  BY <1>0, <1>1 DEF TableInv, Types
<1>3. Phases'
  BY <1>0 DEF TableInv, Phases
<1>4. \A s \in Ids : Ebbs(s)
  BY <1>0, SameEbbs DEF TableInv
<1>5. \A o \in (orphans \cup OnFile)' : OrphanUsed(o) /\ Resumable(o)
  BY <1>0, <1>1 DEF TableInv, NamesUsed
<1> QED
  BY <1>0, <1>1, <1>2, <1>3, <1>4, <1>5, KeptTable DEF TableInv, NamesUsed

LEMMA OverEnds ==
  ASSUME TableInv, Over
  PROVE  session' \in Rows /\ \A s \in Ids : Ebbs(s) /\ ~Known(s)'
<1>1. session' = [s \in Ids \cup Ext |->
                    IF s \in Ids /\ session[s].state # "none" THEN Ended(s) ELSE Nothing]
  BY DEF Over
<1>2. session' \in Rows
  BY <1>1, NothingTyped DEF Rows
<1>3. ASSUME NEW s \in Ids PROVE Ebbs(s) /\ ~Known(s)'
  <2>1. CASE session[s].state = "none"
    BY <1>1, <2>1, SameEbbs DEF TableInv, Sane, Known, Nothing
  <2>2. CASE session[s].state # "none"
    BY <1>1, <2>2, EndedEbbs DEF Known, Ended, Nothing
  <2> QED
    BY <2>1, <2>2
<1> QED
  BY <1>2, <1>3

LEMMA ShutdownTable ==
  ASSUME TableInv, Shutdown
  PROVE  TableInv'
<1>0. /\ server = "up" /\ server' = "stopping" /\ save' \in {"none", "stale"}
      /\ Over /\ UNCHANGED <<orphans, runs, wire>>
  BY DEF Shutdown, TableInv, Types, Phases
<1>1. PICK kept \in SUBSET orphans : Written(kept)
  BY DEF Shutdown
<1>2. /\ file' \in [sessions : SUBSET Orphans, orphans : SUBSET Orphans]
      /\ \A o \in OnFile' : OrphanUsed(o) /\ Resumable(o)
      /\ owed' \subseteq owed
  BY <1>1, WrittenIs
<1>3. session' \in Rows /\ \A s \in Ids : Ebbs(s) /\ ~Known(s)'
  BY <1>0, OverEnds
<1>4. Types'
  BY <1>0, <1>2, <1>3 DEF TableInv, Types, Rows
<1>5. Phases'
  BY <1>0, <1>3 DEF Phases
<1>6. \A o \in (orphans \cup OnFile)' : OrphanUsed(o) /\ Resumable(o)
  BY <1>0, <1>2 DEF TableInv, NamesUsed
<1> QED
  BY <1>0, <1>2, <1>3, <1>4, <1>5, <1>6, KeptTable DEF TableInv, NamesUsed

(* What a dead server's file promises is named there.                       *)
LEMMA PromisedUsed ==
  ASSUME TableInv
  PROVE  Promised \subseteq Conv /\ \A c \in Promised : Used(c)
  BY DEF Promised, Ways, WayInto, TableInv, Types, Orphans, NamesUsed, OrphanUsed, OnFile

LEMMA DownTable ==
  ASSUME TableInv, Crash \/ Quit
  PROVE  TableInv'
<1>0. /\ server' = "down" /\ save' = "none" /\ orphans' = {} /\ owed' = owed \cup Promised
      /\ UNCHANGED <<file, runs, wire>>
  BY DEF Crash, Quit
<1>1. session' \in Rows /\ \A s \in Ids : Ebbs(s) /\ ~Known(s)'
  <2>1. CASE Crash
    BY <2>1, OverEnds DEF Crash
  <2>2. CASE Quit
    <3>1. session' = [s \in Ids \cup Ext |-> IF s \in Ids THEN session[s] ELSE Nothing]
      BY <2>2 DEF Quit
    <3>2. session' \in Rows
      BY <3>1, NothingTyped DEF Rows, TableInv, Types
    <3>3. \A s \in Ids : session'[s] = session[s]
      BY <3>1
    <3>4. \A s \in Ids : ~Known(s)
      BY <2>2 DEF TableInv, Phases, Quit
    <3>5. \A s \in Ids : Ebbs(s)
      BY <3>3, SameEbbs DEF TableInv
    <3> QED
      BY <3>2, <3>3, <3>4, <3>5 DEF Known
  <2> QED
    BY <2>1, <2>2
<1>2. Types'
  BY <1>0, <1>1, PromisedUsed DEF TableInv, Types, Rows
<1>3. Phases'
  BY <1>0, <1>1 DEF Phases
<1>4. \A o \in (orphans \cup OnFile)' : OrphanUsed(o) /\ Resumable(o)
  BY <1>0 DEF TableInv, NamesUsed, OnFile
<1> QED
  BY <1>0, <1>1, <1>2, <1>3, <1>4, PromisedUsed, KeptTable DEF TableInv, NamesUsed

LEMMA StartTable ==
  ASSUME TableInv, Start
  PROVE  TableInv'
<1>0. /\ server = "down" /\ server' = "up" /\ runs' = runs + 1 /\ orphans' \subseteq OnFile
      /\ UNCHANGED <<session, exits, file, save, wire, owed>>
  BY DEF Start, table, OnFile
<1>1. Types'
  BY <1>0 DEF TableInv, Types, OnFile
<1>2. Phases'
  BY <1>0 DEF TableInv, Phases
<1>3. \A s \in Ids : Ebbs(s)
  BY <1>0, SameEbbs DEF TableInv
<1>4. \A o \in (orphans \cup OnFile)' : OrphanUsed(o) /\ Resumable(o)
  BY <1>0 DEF TableInv, NamesUsed, OnFile
<1> QED
  BY <1>0, <1>1, <1>2, <1>3, <1>4, KeptTable DEF TableInv, NamesUsed

(***************************************************************************)
(* The table, after every step.                                             *)
(***************************************************************************)

LEMMA TableInit ==
  ASSUME Init
  PROVE  TableInv
<1>1. \A s \in Ids \cup Ext : session[s] = Nothing
  BY DEF Init
<1>2. \A s \in Ids : session[s] = Nothing
  BY <1>1
<1>3. Types
  BY NothingTyped DEF Init, Types
<1>4. OnFile = {} /\ orphans = {} /\ wire = {} /\ owed = {} /\ server = "up" /\ save = "none"
  BY DEF Init, OnFile
<1>5. Nothing.state = "none" /\ Nothing.conv = None /\ Nothing.resumes = None
  BY DEF Nothing
<1>6. NamesUsed
  BY <1>2, <1>4, <1>5, NoneIsUsed DEF NamesUsed
<1>7. \A s \in Ids : Sane(s)
  BY <1>2, <1>5 DEF Sane, Known
<1> QED
  BY <1>3, <1>4, <1>6, <1>7 DEF TableInv, Phases

LEMMA TableNext ==
  ASSUME Calm, TableInv, [Next]_vars
  PROVE  TableInv'
<1>1. ASSUME NEW s \in Ids, NEW kind \in {"claude", "shell"}, Create(s, kind)
      PROVE  TableInv'
  BY <1>1, CreateBirths, BirthTable
<1>2. ASSUME NEW s \in Ids, NEW new \in Ids, Restart(s, new)
      PROVE  TableInv'
  BY <1>2, RestartBirths, BirthTable
<1>3. ASSUME NEW s \in Ids, NEW new \in Ids, Duplicate(s, new)
      PROVE  TableInv'
  BY <1>3, DuplicateBirths, BirthTable
<1>4. ASSUME NEW o \in orphans, ForgetOrphan(o)
      PROVE  TableInv'
  BY <1>4, ForgetLoses, LossTable
<1>5. ASSUME NEW o \in orphans, NEW s \in Ids, ResumeOrphan(o, s)
      PROVE  TableInv'
  <2>1. Births(s, KindOf(o), WayInto(o)) /\ orphans' \subseteq orphans
    BY <1>5, ResumeBirths
  <2> QED
    BY <2>1, BirthTable
<1>6. ASSUME NEW s \in Ids \cup Ext,
             \/ s \in Ids /\ (PtyExit(s) \/ Attach(s) \/ Detach(s))
             \/ Kill(s) \/ Close(s)
      PROVE  TableInv'
  BY <1>6, EndLoses, WatchLoses, CloseLoses, LossTable
<1>7. CASE Emit
  BY <1>7, WireTable
<1>8. ASSUME NEW e \in wire, Arrive(e)
      PROVE  TableInv'
  BY <1>8, ArriveTells, TellsTable
<1>9. CASE Sweep
  BY <1>9, SweepLoses, LossTable
<1>10. CASE Save
  BY <1>10, SaveTable
<1>11. CASE Crash \/ Quit
  BY <1>11, DownTable
<1>12. CASE Shutdown
  BY <1>12, ShutdownTable
<1>13. CASE Start
  BY <1>13, StartTable
<1>14. CASE UNCHANGED vars
  BY <1>14 DEF vars, table, TableInv, Types, Phases, Sane, Resumable, NamesUsed, OrphanUsed,
     OnFile, Used, Known
<1> QED
  BY <1>1, <1>2, <1>3, <1>4, <1>5, <1>6, <1>7, <1>8, <1>9, <1>10, <1>11, <1>12, <1>13, <1>14
  DEF Next

(***************************************************************************)
(* Nothing is lost.                                                         *)
(***************************************************************************)

(* A save that succeeds, and a file that the next server may read.          *)
Trusty == "pid reused" \notin Mishaps /\ "save fails" \notin Mishaps

OwedStays == owed' \subseteq Ways(orphans') \cup Holding({s \in Ids : Live(s)})'

LEMMA KeptWay ==
  ASSUME NEW s \in Ids, session'[s].state = "live", session'[s].holds # None
  PROVE  session'[s].holds \in Holding({i \in Ids : Live(i)})'
  BY DEF Holding, Live

(* A conversation within reach is so still, if its orphan and its holder    *)
(* are, or have been given up.                                              *)
LEMMA StillInReach ==
  ASSUME KeepInv, server = "up", owed' \subseteq owed,
         \A o \in orphans : WayInto(o) \in owed' =>
           \/ o \in orphans'
           \/ \E s \in Ids : session'[s].state = "live" /\ session'[s].holds = WayInto(o),
         \A i \in Ids : Live(i) /\ session[i].holds \in owed' /\ session[i].holds # None =>
           session'[i].state = "live" /\ session'[i].holds = session[i].holds
  PROVE  OwedStays
<1>1. SUFFICES ASSUME NEW c \in owed'
               PROVE  c \in Ways(orphans') \cup Holding({s \in Ids : Live(s)})'
  BY DEF OwedStays
<1>2. c \in owed /\ c \in Ways(orphans) \cup Holding({s \in Ids : Live(s)})
  BY DEF KeepInv, Debts
<1>3. CASE c \in Ways(orphans)
  <2>1. PICK o \in orphans : c = WayInto(o) /\ c # None
    BY <1>3 DEF Ways
  <2>2. CASE o \in orphans'
    BY <2>1, <2>2 DEF Ways
  <2>3. CASE \E s \in Ids : session'[s].state = "live" /\ session'[s].holds = WayInto(o)
    BY <2>1, <2>3, KeptWay
  <2> QED
    BY <2>1, <2>2, <2>3
<1>4. CASE c \in Holding({s \in Ids : Live(s)})
  <2>1. PICK i \in Ids : Live(i) /\ c = session[i].holds /\ c # None
    BY <1>4 DEF Holding
  <2> QED
    BY <2>1, KeptWay
<1> QED
  BY <1>2, <1>3, <1>4

(* What runs is listed still, if it ran with the same names and the file    *)
(* is the same.                                                             *)
LEMMA StillListed ==
  ASSUME RunningIsListed, UNCHANGED <<file, server>>, save' \in {save, "due"},
         \/ save' = "due"
         \/ \A i \in Ids : session'[i].state = "live" =>
              /\ Live(i) /\ session'[i].conv = session[i].conv
              /\ session'[i].resumes = session[i].resumes
  PROVE  RunningIsListed'
<1>1. SUFFICES ASSUME server = "up", save # "due", save' = save, NEW p \in Persistable'
               PROVE  \E f \in file.sessions :
                        f.id = p.id /\ f.conv = p.conv /\ f.resumes = p.resumes
  BY DEF RunningIsListed
<1>2. PICK i \in Ids :
        /\ session'[i].state = "live"
        /\ p = [id |-> i, kind |-> session'[i].kind, conv |-> session'[i].conv,
                resumes |-> session'[i].resumes, at |-> runs']
  BY <1>1 DEF Persistable, Live
<1>3. /\ Live(i) /\ p.id = i /\ p.conv = session[i].conv /\ p.resumes = session[i].resumes
  BY <1>1, <1>2
<1> DEFINE q == [id |-> i, kind |-> session[i].kind, conv |-> session[i].conv,
                 resumes |-> session[i].resumes, at |-> runs]
<1>4. q \in Persistable /\ q.id = p.id /\ q.conv = p.conv /\ q.resumes = p.resumes
  BY <1>3 DEF Persistable
<1> HIDE DEF q
<1> QED
  BY <1>1, <1>4 DEF RunningIsListed

LEMMA BirthKeeps ==
  ASSUME TableInv, KeepInv, NEW s \in Ids, NEW kind, NEW resumes, Births(s, kind, resumes),
         \/ orphans' = orphans
         \/ \E o \in orphans : /\ resumes = WayInto(o)
                               /\ orphans' = IF session'[s].state = "live" THEN orphans \ {o}
                                             ELSE orphans
  PROVE  KeepInv'
<1>0. /\ server = "up" /\ orphans' \subseteq orphans /\ owed' \subseteq owed
      /\ session[s].state = "none" /\ ~Live(s)
      /\ save' = "due" \/ UNCHANGED <<save, session>>
      /\ UNCHANGED <<file, server>>
  BY DEF Births, Live
<1>1. session'[s].state = "live" => session'[s] = Born(s, kind, resumes)
  BY <1>0 DEF Births, Ended, Nothing
<1>2. session'[s].state = "live" /\ resumes # None => session'[s].holds = resumes
  BY <1>1 DEF Born, Births
<1>3. ASSUME NEW i \in Ids, Live(i)'
      PROVE  \/ i = s
             \/ i # s /\ Live(i) /\ session'[i].resumes = session[i].resumes
                /\ session'[i].holds = session[i].holds
  BY <1>3 DEF Births, Ebbs, Live
<1>4. Apart'
  <2>1. ASSUME NEW o \in orphans' PROVE ~Live(o.id)'
    <3>1. o \in orphans /\ o.id \in Ids /\ ~Live(o.id) /\ Used(o.id)
      BY <1>0 DEF KeepInv, Apart, TableInv, Types, Orphans, NamesUsed, OrphanUsed
    <3>2. o.id # s
      BY <1>0, <3>1 DEF Used
    <3> QED
      BY <1>3, <3>1, <3>2
  <2> QED
    BY <1>0, <2>1 DEF KeepInv, Apart
<1>5. ASSUME NEW i \in Ids, Live(i)', session'[i].resumes = None
      PROVE  i \notin owed'
  <2>1. s \notin owed
    BY <1>0 DEF TableInv, NamesUsed, Used
  <2> QED
    BY <1>0, <1>3, <1>5, <2>1 DEF KeepInv, Debts
<1>6. OwedStays
  <2>1. \A o \in orphans : WayInto(o) \in owed' =>
           \/ o \in orphans'
           \/ \E i \in Ids : session'[i].state = "live" /\ session'[i].holds = WayInto(o)
    <3>1. \A c \in owed : c # None
      BY NoneIsNoName DEF TableInv, Types, Conv
    <3> QED
      BY <1>0, <1>2, <3>1
  <2>2. \A i \in Ids : Live(i) /\ session[i].holds \in owed' /\ session[i].holds # None =>
           session'[i].state = "live" /\ session'[i].holds = session[i].holds
    BY <1>0 DEF Births, Ebbs
  <2> QED
    BY <1>0, <2>1, <2>2, StillInReach
<1>7. Debts'
  <2>1. owed' \subseteq Promised'
    BY <1>0 DEF KeepInv, Debts, Promised
  <2> QED
    BY <2>1, <1>5, <1>6 DEF Debts, OwedStays
<1>8. RunningIsListed'
  BY <1>0, StillListed DEF KeepInv, Live
<1> QED
  BY <1>4, <1>7, <1>8 DEF KeepInv

LEMMA LossKeeps ==
  ASSUME TableInv, KeepInv, Losses,
         \/ orphans' = orphans
         \/ \E o \in orphans : orphans' = orphans \ {o} /\ owed' = owed \ {WayInto(o)}
  PROVE  KeepInv'
<1>0. /\ server = "up" /\ orphans' \subseteq orphans /\ owed' \subseteq owed
      /\ save' \in {save, "due"} /\ UNCHANGED <<file, server>>
  BY DEF Losses
<1>1. ASSUME NEW i \in Ids, session'[i].state = "live"
      PROVE  /\ Live(i) /\ session'[i].resumes = session[i].resumes
             /\ session'[i].conv = session[i].conv /\ session'[i].holds = session[i].holds
  BY <1>1 DEF Losses, Ebbs, Live
<1>2. Apart'
  <2>1. \A o \in orphans : o.id \in Ids
    BY DEF TableInv, Types, Orphans
  <2> QED
    BY <1>0, <1>1, <2>1 DEF KeepInv, Apart, Live
<1>3. ASSUME NEW i \in Ids, Live(i)', session'[i].resumes = None
      PROVE  i \notin owed'
  BY <1>0, <1>1, <1>3 DEF KeepInv, Debts, Live
<1>4. OwedStays
  <2>1. \A o \in orphans : WayInto(o) \in owed' => o \in orphans'
    BY DEF Losses
  <2>2. \A c \in owed : c # None
    BY NoneIsNoName DEF TableInv, Types, Conv
  <2>3. \A i \in Ids : Live(i) /\ session[i].holds \in owed' /\ session[i].holds # None =>
           session'[i].state = "live" /\ session'[i].holds = session[i].holds
    BY <1>0, <1>1 DEF Losses
  <2> QED
    BY <1>0, <2>1, <2>3, StillInReach
<1>5. Debts'
  <2>1. owed' \subseteq Promised'
    BY <1>0 DEF KeepInv, Debts, Promised
  <2> QED
    BY <2>1, <1>3, <1>4 DEF Debts, OwedStays
<1>6. RunningIsListed'
  BY <1>0, <1>1, StillListed DEF KeepInv
<1> QED
  BY <1>2, <1>5, <1>6 DEF KeepInv

LEMMA TellsKeeps ==
  ASSUME TableInv, KeepInv, NEW e, Tells(e)
  PROVE  KeepInv'
<1>0. /\ server = "up" /\ save' \in {save, "due"} /\ e.conv \in Conv
      /\ UNCHANGED <<orphans, file, runs, server, owed>>
      /\ save' = "due" \/ \A i \in Ids : session'[i] = session[i]
  BY DEF Tells, TableInv, Types
<1>1. ASSUME NEW i \in Ids
      PROVE  /\ session'[i].state = session[i].state
             /\ session'[i].resumes = session[i].resumes
             /\ session'[i].holds = session[i].holds
  BY <1>0, HeardIs DEF Tells, TableInv, Types
<1>2. Apart'
  <2>1. \A o \in orphans : o.id \in Ids
    BY DEF TableInv, Types, Orphans
  <2> QED
    BY <1>0, <1>1, <2>1 DEF KeepInv, Apart, Live
<1>3. ASSUME NEW i \in Ids, Live(i)', session'[i].resumes = None
      PROVE  i \notin owed'
  BY <1>0, <1>1, <1>3 DEF KeepInv, Debts, Live
<1>4. OwedStays
  <2>1. \A i \in Ids : Live(i) /\ session[i].holds \in owed' /\ session[i].holds # None =>
           session'[i].state = "live" /\ session'[i].holds = session[i].holds
    BY <1>1 DEF Live
  <2> QED
    BY <1>0, <2>1, StillInReach
<1>5. Debts'
  <2>1. owed' \subseteq Promised'
    BY <1>0 DEF KeepInv, Debts, Promised
  <2> QED
    BY <2>1, <1>3, <1>4 DEF Debts, OwedStays
<1>6. RunningIsListed'
  BY <1>0, StillListed DEF KeepInv, Live
<1> QED
  BY <1>2, <1>5, <1>6 DEF KeepInv

(* What is written keeps all promises.                                      *)
LEMMA WrittenKeeps ==
  ASSUME TableInv, KeepInv, server = "up", NEW kept \in SUBSET orphans, Written(kept)
  PROVE  /\ owed' \subseteq owed /\ owed' \subseteq Promised'
         /\ \A o \in file'.orphans, f \in file'.sessions : o.id # f.id
<1>1. /\ file' = [sessions |-> Persistable, orphans |-> kept]
      /\ owed' = owed \ (Ways(orphans \ kept) \ Ways(kept))
  BY DEF Written
<1>2. Promised' = Ways(Persistable \cup kept)
  BY <1>1 DEF Promised, Ways, WayInto
<1>3. ASSUME NEW c \in owed'
      PROVE  c \in Ways(Persistable \cup kept)
  <2>1. c \in owed /\ c \in Ways(orphans) \cup Holding({s \in Ids : Live(s)})
    BY <1>1, <1>3 DEF KeepInv, Debts
  <2>2. CASE c \in Ways(orphans)
    BY <1>1, <1>3, <2>2 DEF Ways
  <2>3. CASE c \in Holding({s \in Ids : Live(s)})
    <3>1. PICK i \in Ids : Live(i) /\ c = session[i].holds /\ c # None
      BY <2>3 DEF Holding
    <3>2. session[i].resumes # None
      BY <2>1, <3>1 DEF KeepInv, Debts, TableInv, Sane, Live
    <3>3. c = session[i].resumes
      BY <3>1, <3>2 DEF TableInv, Sane, Live
    <3> DEFINE q == [id |-> i, kind |-> session[i].kind, conv |-> session[i].conv,
                     resumes |-> session[i].resumes, at |-> runs]
    <3>4. q \in Persistable /\ WayInto(q) = c
      BY <3>1, <3>2, <3>3 DEF Persistable, WayInto
    <3> HIDE DEF q
    <3> QED
      BY <3>1, <3>4 DEF Ways
  <2> QED
    BY <2>1, <2>2, <2>3
<1>4. ASSUME NEW o \in file'.orphans, NEW f \in file'.sessions PROVE o.id # f.id
  BY <1>1, <1>4, PersistableIs DEF KeepInv, Apart
<1> QED
  BY <1>1, <1>2, <1>3, <1>4

LEMMA SaveKeeps ==
  ASSUME TableInv, KeepInv, Trusty, Save
  PROVE  KeepInv'
<1>0. /\ server = "up" /\ server' = "up"
      /\ UNCHANGED <<session, exits, orphans, runs, wire>>
      /\ \E kept \in SUBSET orphans : Written(kept)
  BY DEF Save, TableInv, Phases, Types, table, Trusty
<1>1. PICK kept \in SUBSET orphans : Written(kept)
  BY <1>0
<1>2. file' = [sessions |-> Persistable, orphans |-> kept] /\ owed' \subseteq owed
      /\ owed' \subseteq Promised'
      /\ \A o \in file'.orphans, f \in file'.sessions : o.id # f.id
  BY <1>0, <1>1, WrittenIs, WrittenKeeps
<1>3. Apart'
  BY <1>0, <1>2 DEF KeepInv, Apart, Live
<1>4. Debts'
  <2>1. \A s \in Ids : Live(s)' /\ session'[s].resumes = None => s \notin owed'
    BY <1>0, <1>2 DEF KeepInv, Debts, Live
  <2>2. OwedStays
    BY <1>0, <1>2, StillInReach DEF Live
  <2> QED
    BY <1>2, <2>1, <2>2 DEF Debts, OwedStays
<1>5. RunningIsListed'
  <2>1. Persistable' = Persistable
    BY <1>0 DEF Persistable, Live
  <2> QED
    BY <1>2, <2>1 DEF RunningIsListed
<1> QED
  BY <1>3, <1>4, <1>5 DEF KeepInv

LEMMA ShutdownKeeps ==
  ASSUME TableInv, KeepInv, Shutdown
  PROVE  KeepInv'
<1>0. /\ server = "up" /\ server' = "stopping" /\ Over /\ UNCHANGED <<orphans, runs, wire>>
  BY DEF Shutdown
<1>1. PICK kept \in SUBSET orphans : Written(kept)
  BY DEF Shutdown
<1>2. \A s \in Ids : ~Live(s)'
  BY <1>0, OverEnds DEF Known, Live
<1>3. Apart'
  <2>1. \A o \in orphans : o.id \in Ids
    BY DEF TableInv, Types, Orphans
  <2> QED
    BY <1>0, <1>1, <1>2, <2>1, WrittenKeeps DEF Apart
<1>4. Debts'
  BY <1>0, <1>1, <1>2, WrittenKeeps DEF Debts
<1> QED
  BY <1>0, <1>3, <1>4 DEF KeepInv, RunningIsListed

LEMMA DownKeeps ==
  ASSUME TableInv, KeepInv, Crash \/ Quit
  PROVE  KeepInv'
<1>0. /\ server' = "down" /\ orphans' = {} /\ owed' = owed \cup Promised
      /\ UNCHANGED file
  BY DEF Crash, Quit
<1>1. \A s \in Ids : ~Live(s)'
  BY <1>0, DownTable DEF TableInv, Phases, Known, Live
<1>2. Promised' = Promised
  BY <1>0 DEF Promised
<1> QED
  BY <1>0, <1>1, <1>2 DEF KeepInv, Apart, Debts, RunningIsListed

LEMMA StartKeeps ==
  ASSUME TableInv, KeepInv, Trusty, Start
  PROVE  KeepInv'
<1>0. /\ server = "down" /\ server' = "up"
      /\ orphans' = file.sessions \cup
           {o \in file.orphans : \A f \in file.sessions : f.id # o.id}
      /\ UNCHANGED <<session, exits, file, save, wire, owed>>
  BY DEF Start, table, Trusty
<1>1. \A s \in Ids : ~Live(s)'
  BY <1>0 DEF TableInv, Phases, Known, Live
<1>2. orphans' = file.sessions \cup file.orphans
  BY <1>0 DEF KeepInv, Apart
<1>3. owed' \subseteq Ways(orphans') /\ Promised' = Promised
  BY <1>0, <1>2 DEF KeepInv, Debts, Promised
<1>4. Apart'
  <2>1. \A o \in orphans' : o.id \in Ids
    BY <1>2 DEF TableInv, Types, Orphans
  <2> QED
    BY <1>0, <1>1, <2>1 DEF KeepInv, Apart
<1>5. Debts'
  BY <1>0, <1>1, <1>3 DEF KeepInv, Debts
<1>6. Persistable' = {}
  BY <1>1 DEF Persistable
<1> QED
  BY <1>4, <1>5, <1>6 DEF KeepInv, RunningIsListed

LEMMA KeepInit ==
  ASSUME Init
  PROVE  KeepInv
<1>1. /\ \A s \in Ids : ~Live(s)
      /\ orphans = {} /\ owed = {} /\ file.sessions = {} /\ file.orphans = {}
  BY DEF Init, Live, Nothing
<1>2. Persistable = {}
  BY <1>1 DEF Persistable
<1> QED
  BY <1>1, <1>2 DEF KeepInv, Apart, Debts, RunningIsListed

LEMMA SameKeeps ==
  ASSUME KeepInv, UNCHANGED <<session, exits, orphans, file, save, server, runs, owed>>
  PROVE  KeepInv'
<1>1. \A s : Live(s)' <=> Live(s)
  BY DEF Live
<1>2. Apart'
  BY <1>1 DEF KeepInv, Apart
<1>3. Promised' = Promised /\ Ways(orphans') = Ways(orphans)
  BY DEF Promised
<1>4. Holding({s \in Ids : Live(s)})' = Holding({s \in Ids : Live(s)})
  BY <1>1 DEF Holding
<1>5. Debts'
  BY <1>1, <1>3, <1>4 DEF KeepInv, Debts
<1>6. Persistable' = Persistable
  BY <1>1 DEF Persistable
<1>7. RunningIsListed'
  BY <1>6 DEF KeepInv, RunningIsListed
<1> QED
  BY <1>2, <1>5, <1>7 DEF KeepInv

LEMMA KeepNext ==
  ASSUME Calm, Trusty, TableInv, KeepInv, [Next]_vars
  PROVE  KeepInv'
<1>1. ASSUME NEW s \in Ids, NEW kind \in {"claude", "shell"}, Create(s, kind)
      PROVE  KeepInv'
  BY <1>1, CreateBirths, BirthKeeps
<1>2. ASSUME NEW s \in Ids, NEW new \in Ids, Restart(s, new)
      PROVE  KeepInv'
  BY <1>2, RestartBirths, BirthKeeps
<1>3. ASSUME NEW s \in Ids, NEW new \in Ids, Duplicate(s, new)
      PROVE  KeepInv'
  BY <1>3, DuplicateBirths, BirthKeeps
<1>4. ASSUME NEW o \in orphans, ForgetOrphan(o)
      PROVE  KeepInv'
  BY <1>4, ForgetLoses, LossKeeps
<1>5. ASSUME NEW o \in orphans, NEW s \in Ids, ResumeOrphan(o, s)
      PROVE  KeepInv'
  BY <1>5, ResumeBirths, BirthKeeps
<1>6. ASSUME NEW s \in Ids \cup Ext,
             \/ s \in Ids /\ (PtyExit(s) \/ Attach(s) \/ Detach(s))
             \/ Kill(s) \/ Close(s)
      PROVE  KeepInv'
  BY <1>6, EndLoses, WatchLoses, CloseLoses, LossKeeps
<1>7. CASE Emit
  <2>1. UNCHANGED <<session, exits, orphans, file, save, server, runs, owed>>
    BY <1>7 DEF Emit, table
  <2> QED
    BY <2>1, SameKeeps
<1>8. ASSUME NEW e \in wire, Arrive(e)
      PROVE  KeepInv'
  BY <1>8, ArriveTells, TellsKeeps
<1>9. CASE Sweep
  BY <1>9, SweepLoses, LossKeeps
<1>10. CASE Save
  BY <1>10, SaveKeeps
<1>11. CASE Crash \/ Quit
  BY <1>11, DownKeeps
<1>12. CASE Shutdown
  BY <1>12, ShutdownKeeps
<1>13. CASE Start
  BY <1>13, StartKeeps
<1>14. CASE UNCHANGED vars
  <2>1. /\ UNCHANGED <<session, exits, orphans, file, save, server, runs, owed>>
    BY <1>14 DEF vars, table
  <2> QED
    BY <2>1, SameKeeps
<1> QED
  BY <1>1, <1>2, <1>3, <1>4, <1>5, <1>6, <1>7, <1>8, <1>9, <1>10, <1>11, <1>12, <1>13, <1>14
  DEF Next

(* A conversation a dead server's file named is within reach, until it is   *)
(* given up, and what runs is listed or about to be (save, loadOrphans,     *)
(* resumeOrphan, shutdown), however many sessions there are and however     *)
(* often the server dies: if no write fails, the pid of the dead is not     *)
(* taken for a living server's, and no event comes while the server stops.  *)
THEOREM NothingGoesMissing ==
  ASSUME Calm, Trusty
  PROVE  Spec => []NothingIsLost
<1>1. Init => TableInv /\ KeepInv
  BY TableInit, KeepInit
<1>2. TableInv /\ KeepInv /\ [Next]_vars => (TableInv /\ KeepInv)'
  BY TableNext, KeepNext
<1>3. TableInv /\ KeepInv => NothingIsLost
  BY DEF TableInv, KeepInv, Debts, NothingIsLost, WayBack
<1> QED
  BY <1>1, <1>2, <1>3, PTL DEF Spec

(***************************************************************************)
(* One agent to a conversation.                                             *)
(***************************************************************************)

(* No stranger works in the directory of the sessions, and no session that  *)
(* resumes a conversation is duplicated.                                    *)
Alone == Beside = {} /\ "copy resumes" \notin Mishaps

(* A session that only loses keeps its claim or gives it up.                *)
LEMMA EbbClaim ==
  ASSUME NEW s \in Ids, Ebbs(s)
  PROVE  /\ Claim(s)' \in {Claim(s), None}
         /\ Live(s)' => Live(s) /\ Claim(s)' = Claim(s) /\ session'[s].conv = session[s].conv
<1>1. CASE session'[s].state = "live"
  BY <1>1 DEF Ebbs, Claim, Live
<1>2. CASE session'[s].state # "live"
  BY <1>2 DEF Ebbs, Claim, Live, Sane, Known
<1> QED
  BY <1>1, <1>2

LEMMA EbbClaims ==
  ASSUME TableInv, ClaimInv, \A s \in Ids : Ebbs(s), wire' \subseteq wire,
         \A s \in Ids, o \in orphans' : Differ(Claim(s), WayInto(o)),
         \A o, p \in orphans' : o # p => Differ(WayInto(o), WayInto(p)),
         \A o, p \in OnFile' : o # p => Differ(WayInto(o), WayInto(p))
  PROVE  ClaimInv'
<1>1. ASSUME NEW s \in Ids
      PROVE  /\ Claim(s)' \in {Claim(s), None}
             /\ Live(s)' => Live(s) /\ Claim(s)' = Claim(s)
                            /\ session'[s].conv = session[s].conv
  BY EbbClaim
<1>2. \A s, t \in Ids : s # t => Differ(Claim(s)', Claim(t)')
  BY <1>1 DEF ClaimInv, Differ
<1>3. \A s \in Ids, o \in orphans' : Differ(Claim(s)', WayInto(o))
  BY <1>1 DEF Differ
<1>4. \A s \in Ids : Live(s)' => session'[s].conv \in {None, Claim(s)'}
  BY <1>1 DEF ClaimInv
<1>5. \A e \in wire' : e.session # None /\ Live(e.session)' => e.conv = Claim(e.session)'
  BY <1>1 DEF ClaimInv, TableInv, Types
<1> QED
  BY <1>2, <1>3, <1>4, <1>5 DEF ClaimInv, Differ, WayInto

LEMMA LossClaims ==
  ASSUME TableInv, ClaimInv, Losses, orphans' \subseteq orphans
  PROVE  ClaimInv'
<1>1. OnFile' = OnFile /\ wire' = wire /\ \A s \in Ids : Ebbs(s)
  BY DEF Losses, OnFile
<1> QED
  BY <1>1, EbbClaims DEF ClaimInv

LEMMA BirthClaims ==
  ASSUME TableInv, ClaimInv, NEW s \in Ids, NEW kind, NEW resumes, Births(s, kind, resumes),
         orphans' \subseteq orphans,
         session'[s].state = "live" /\ resumes # None =>
           /\ \A i \in Ids \ {s} : Claim(i)' # resumes
           /\ \A o \in orphans' : WayInto(o) # resumes
  PROVE  ClaimInv'
<1>0. /\ session[s].state = "none" /\ UNCHANGED <<file, runs, server, wire>>
      /\ \A i \in Ids \ {s} : Ebbs(i)
  BY DEF Births
<1>1. CASE session'[s].state # "live"
  <2>1. session'[s] \in {session[s], Ended(s)}
    BY <1>1 DEF Births, Born
  <2>2. Ebbs(s)
    BY <2>1, SameEbbs, EndedEbbs DEF TableInv
  <2>3. OnFile' = OnFile
    BY <1>0 DEF OnFile
  <2> QED
    BY <1>0, <2>2, <2>3, EbbClaims DEF ClaimInv
<1>2. CASE session'[s].state = "live"
  <2>1. session'[s] = Born(s, kind, resumes)
    BY <1>0, <1>2 DEF Births, Ended, Nothing
  <2>2. /\ session'[s].conv = None /\ session'[s].resumes = resumes
        /\ session'[s].kind = kind
    BY <2>1 DEF Born
  <2>3. Claim(s)' = IF resumes # None THEN resumes ELSE IF kind = "claude" THEN s ELSE None
    BY <1>2, <2>2 DEF Claim
  <2>4. ASSUME NEW i \in Ids \ {s}
        PROVE  /\ Claim(i)' \in {Claim(i), None}
               /\ Live(i)' => Live(i) /\ Claim(i)' = Claim(i)
                              /\ session'[i].conv = session[i].conv
    BY <1>0, EbbClaim
  <2>5. \A i \in Ids \ {s} : Claim(i) # s
    BY <1>0 DEF Claim, TableInv, NamesUsed, Used
  <2>6. \A o \in orphans : WayInto(o) # s
    BY <1>0 DEF WayInto, TableInv, NamesUsed, OrphanUsed, Used
  <2>7. \A i \in Ids \ {s} : Differ(Claim(i)', Claim(s)') /\ Differ(Claim(s)', Claim(i)')
    BY <1>2, <2>3, <2>4, <2>5, NoneIsNoName DEF Differ
  <2>8. \A i, j \in Ids : i # j => Differ(Claim(i)', Claim(j)')
    BY <2>4, <2>7 DEF ClaimInv, Differ
  <2>9. \A i \in Ids, o \in orphans' : Differ(Claim(i)', WayInto(o))
    <3>1. \A o \in orphans' : Differ(Claim(s)', WayInto(o))
      BY <1>2, <2>3, <2>6 DEF Differ
    <3>2. \A i \in Ids \ {s}, o \in orphans' : Differ(Claim(i)', WayInto(o))
      BY <2>4 DEF ClaimInv, Differ
    <3> QED
      BY <3>1, <3>2
  <2>10. \A i \in Ids : Live(i)' => session'[i].conv \in {None, Claim(i)'}
    BY <2>2, <2>4 DEF ClaimInv
  <2>11. \A e \in wire' : e.session # None /\ Live(e.session)' => e.conv = Claim(e.session)'
    <3>1. ASSUME NEW e \in wire', e.session # None, Live(e.session)'
          PROVE  e.conv = Claim(e.session)'
      <4>1. e \in wire /\ e.session \in Ids \ {s}
        BY <1>0, <3>1 DEF TableInv, Types, NamesUsed, Used
      <4>2. Live(e.session) /\ Claim(e.session)' = Claim(e.session)
        BY <2>4, <3>1, <4>1
      <4> QED
        BY <3>1, <4>1, <4>2 DEF ClaimInv
    <3> QED
      BY <3>1
  <2>12. OnFile' = OnFile
    BY <1>0 DEF OnFile
  <2> QED
    BY <2>8, <2>9, <2>10, <2>11, <2>12 DEF ClaimInv, Differ, WayInto
<1> QED
  BY <1>1, <1>2

LEMMA RestartClaims ==
  ASSUME TableInv, ClaimInv, NEW s \in Ids, NEW new \in Ids, Restart(s, new)
  PROVE  ClaimInv'
<1>1. /\ Births(new, session[s].kind, session[s].resumes) /\ UNCHANGED orphans
      /\ Known(s) /\ session'[s] = Ended(s) /\ new # s
  BY RestartBirths DEF Births, Known
<1>2. Claim(s)' = None
  BY <1>1 DEF Claim, Ended, Nothing
<1>3. ASSUME session[s].resumes # None
      PROVE  /\ \A i \in Ids \ {new} : Claim(i)' # session[s].resumes
             /\ \A o \in orphans' : WayInto(o) # session[s].resumes
  <2>1. Claim(s) = session[s].resumes
    BY <1>3 DEF Claim
  <2>2. \A i \in Ids \ {new} : Claim(i)' \in {Claim(i), None}
    BY <1>1, EbbClaim DEF Births
  <2> QED
    BY <1>1, <1>2, <1>3, <2>1, <2>2 DEF ClaimInv, Differ
<1> QED
  BY <1>1, <1>3, BirthClaims

LEMMA ResumeClaims ==
  ASSUME TableInv, ClaimInv, NEW o \in orphans, NEW s \in Ids, ResumeOrphan(o, s)
  PROVE  ClaimInv'
<1>1. /\ Births(s, KindOf(o), WayInto(o))
      /\ orphans' = IF session'[s].state = "live" THEN orphans \ {o} ELSE orphans
  BY ResumeBirths
<1>2. ASSUME session'[s].state = "live", WayInto(o) # None
      PROVE  /\ \A i \in Ids \ {s} : Claim(i)' # WayInto(o)
             /\ \A p \in orphans' : WayInto(p) # WayInto(o)
  <2>1. \A i \in Ids \ {s} : Claim(i)' \in {Claim(i), None}
    BY <1>1, EbbClaim DEF Births
  <2> QED
    BY <1>1, <1>2, <2>1 DEF ClaimInv, Differ
<1> QED
  BY <1>1, <1>2, BirthClaims

LEMMA DuplicateClaims ==
  ASSUME TableInv, ClaimInv, Alone, NEW s \in Ids, NEW new \in Ids, Duplicate(s, new)
  PROVE  ClaimInv'
<1>1. session[s].resumes = None
  BY DEF Duplicate, Alone
<1> QED
  BY <1>1, DuplicateBirths, BirthClaims

(* An event of one of ours names what that one holds; a stranger's finds    *)
(* only a session that has named the same conversation before.              *)
LEMMA TellsClaims ==
  ASSUME TableInv, ClaimInv, Alone, NEW e, Tells(e)
  PROVE  ClaimInv'
<1>0. /\ server = "up" /\ e \in wire /\ wire' \subseteq wire
      /\ UNCHANGED <<orphans, file, runs, server, owed>>
  BY DEF Tells
<1>1. ASSUME NEW i \in Ids
      PROVE  /\ session'[i].state = session[i].state
             /\ session'[i].resumes = session[i].resumes
             /\ session'[i].kind = session[i].kind
             /\ session'[i].conv = session[i].conv
                  \/ (i \in Candidates(e) /\ session'[i].conv = e.conv)
  BY <1>0, HeardIs DEF Tells, TableInv, Types
<1>2. \A i \in Ids : Claim(i)' = Claim(i) /\ (Live(i)' <=> Live(i))
  BY <1>1 DEF Claim, Live
<1>3. ASSUME NEW i \in Ids, Live(i)
      PROVE  session'[i].conv \in {None, Claim(i)}
  <2>1. CASE session'[i].conv = session[i].conv
    BY <1>3, <2>1 DEF ClaimInv
  <2>2. CASE i \in Candidates(e) /\ session'[i].conv = e.conv
    <3>1. CASE e.session # None
      <4>1. i = e.session
        BY <2>2, <3>1 DEF Candidates
      <4> QED
        BY <1>0, <1>3, <2>2, <3>1, <4>1 DEF ClaimInv
    <3>2. CASE e.session = None
      <4>1. session[i].conv = e.conv
        BY <2>2, <3>2 DEF Candidates, Alone
      <4> QED
        BY <1>3, <2>2, <4>1 DEF ClaimInv
    <3> QED
      BY <3>1, <3>2
  <2> QED
    BY <1>1, <2>1, <2>2
<1>4. \A s, t \in Ids : s # t => Differ(Claim(s)', Claim(t)')
  BY <1>2 DEF ClaimInv
<1>5. \A s \in Ids, o \in orphans' : Differ(Claim(s)', WayInto(o))
  BY <1>0, <1>2 DEF ClaimInv
<1>6. \A f \in wire' : f.session # None /\ Live(f.session)' => f.conv = Claim(f.session)'
  BY <1>0, <1>2 DEF ClaimInv, TableInv, Types
<1>7. OnFile' = OnFile
  BY <1>0 DEF OnFile
<1>8. \A i \in Ids : Live(i)' => session'[i].conv \in {None, Claim(i)'}
  BY <1>2, <1>3
<1> QED
  BY <1>0, <1>4, <1>5, <1>6, <1>7, <1>8 DEF ClaimInv, Differ, WayInto

LEMMA WireClaims ==
  ASSUME TableInv, ClaimInv, Emit
  PROVE  ClaimInv'
<1>0. UNCHANGED <<session, exits, orphans, file, save, server, runs, owed>>
  BY DEF Emit, table
<1>1. ASSUME NEW e \in wire' \ wire, e.session # None, Live(e.session)
      PROVE  e.conv = Claim(e.session)
  <2>1. PICK s \in Ids :
          /\ Live(s) /\ session[s].kind = "claude"
          /\ e = [session |-> s, conv |-> session[s].holds]
    BY <1>1 DEF Emit
  <2>2. e.session = s /\ e.conv = session[s].holds
    BY <2>1
  <2>3. session[s].holds = Claim(s)
    BY <2>1 DEF TableInv, Sane, Live, Claim
  <2> QED
    BY <2>2, <2>3
<1>2. \A s : Claim(s)' = Claim(s) /\ (Live(s)' <=> Live(s))
  BY <1>0 DEF Claim, Live
<1>3. OnFile' = OnFile
  BY <1>0 DEF OnFile
<1>4. \A e \in wire' : e.session # None /\ Live(e.session)' => e.conv = Claim(e.session)'
  BY <1>1, <1>2 DEF ClaimInv
<1> QED
  BY <1>0, <1>2, <1>3, <1>4 DEF ClaimInv, Differ, WayInto

(* What is written makes no two offers of one conversation.                 *)
LEMMA WrittenClaims ==
  ASSUME TableInv, ClaimInv, NEW kept \in SUBSET orphans, Written(kept)
  PROVE  \A o, p \in OnFile' : o # p => Differ(WayInto(o), WayInto(p))
<1>1. OnFile' = Persistable \cup kept
  BY WrittenIs
<1>2. ASSUME NEW o \in Persistable
      PROVE  o.id \in Ids /\ WayInto(o) \in {None, Claim(o.id)}
  <2>1. /\ o \in Orphans /\ Live(o.id) /\ o.conv = session[o.id].conv
        /\ o.resumes = session[o.id].resumes
    BY PersistableIs
  <2>2. o.id \in Ids
    BY <2>1 DEF Orphans
  <2>3. CASE o.resumes # None
    BY <2>1, <2>2, <2>3 DEF WayInto, Claim
  <2>4. CASE o.resumes = None
    BY <2>1, <2>2, <2>4 DEF WayInto, ClaimInv
  <2> QED
    BY <2>2, <2>3, <2>4
<1>3. ASSUME NEW o \in Persistable, NEW p \in Persistable, o # p
      PROVE  o.id # p.id
  BY <1>3 DEF Persistable
<1>4. ASSUME NEW o \in Persistable, NEW p \in Persistable, o # p
      PROVE  Differ(WayInto(o), WayInto(p))
  <2>1. Differ(Claim(o.id), Claim(p.id))
    BY <1>2, <1>3, <1>4 DEF ClaimInv
  <2> QED
    BY <1>2, <2>1 DEF Differ
<1>5. ASSUME NEW o \in Persistable, NEW p \in kept
      PROVE  Differ(WayInto(o), WayInto(p)) /\ Differ(WayInto(p), WayInto(o))
  <2>1. Differ(Claim(o.id), WayInto(p))
    BY <1>2 DEF ClaimInv
  <2> QED
    BY <1>2, <2>1 DEF Differ
<1>6. ASSUME NEW o \in kept, NEW p \in kept, o # p
      PROVE  Differ(WayInto(o), WayInto(p))
  BY <1>6 DEF ClaimInv
<1> QED
  BY <1>1, <1>4, <1>5, <1>6

LEMMA SaveClaims ==
  ASSUME TableInv, ClaimInv, Save
  PROVE  ClaimInv'
<1>0. UNCHANGED <<session, exits, orphans, runs, wire>>
  BY DEF Save, table
<1>1. \A o, p \in OnFile' : o # p => Differ(WayInto(o), WayInto(p))
  <2>1. CASE \E kept \in SUBSET orphans : Written(kept)
    BY <2>1, WrittenClaims
  <2>2. CASE UNCHANGED <<file, owed>>
    <3>1. OnFile' = OnFile
      BY <2>2 DEF OnFile
    <3> QED
      BY <3>1 DEF ClaimInv
  <2> QED
    BY <2>1, <2>2 DEF Save
<1>2. \A s \in Ids : Ebbs(s)
  BY <1>0, SameEbbs DEF TableInv
<1> QED
  BY <1>0, <1>1, <1>2, EbbClaims DEF ClaimInv

LEMMA ShutdownClaims ==
  ASSUME TableInv, ClaimInv, Shutdown
  PROVE  ClaimInv'
<1>0. Over /\ UNCHANGED <<orphans, wire>>
  BY DEF Shutdown
<1>1. \A o, p \in OnFile' : o # p => Differ(WayInto(o), WayInto(p))
  BY WrittenClaims DEF Shutdown
<1>2. \A s \in Ids : Ebbs(s)
  BY <1>0, OverEnds
<1> QED
  BY <1>0, <1>1, <1>2, EbbClaims DEF ClaimInv

LEMMA DownClaims ==
  ASSUME TableInv, ClaimInv, Crash \/ Quit
  PROVE  ClaimInv'
<1>0. orphans' = {} /\ UNCHANGED <<file, wire>>
  BY DEF Crash, Quit
<1>1. \A s \in Ids : Ebbs(s)
  <2>1. CASE Crash
    BY <2>1, OverEnds DEF Crash
  <2>2. CASE Quit
    <3>1. \A s \in Ids : session'[s] = session[s]
      BY <2>2 DEF Quit
    <3> QED
      BY <3>1, SameEbbs DEF TableInv
  <2> QED
    BY <2>1, <2>2
<1>2. OnFile' = OnFile
  BY <1>0 DEF OnFile
<1> QED
  BY <1>0, <1>1, <1>2, EbbClaims DEF ClaimInv

LEMMA StartClaims ==
  ASSUME TableInv, ClaimInv, Start
  PROVE  ClaimInv'
<1>0. /\ server = "down" /\ orphans' \subseteq OnFile
      /\ UNCHANGED <<session, exits, file, save, wire, owed>>
  BY DEF Start, table, OnFile
<1>1. \A s \in Ids : Claim(s) = None
  BY <1>0 DEF TableInv, Phases, Sane, Known, Claim
<1>2. \A s \in Ids : Ebbs(s)
  BY <1>0, SameEbbs DEF TableInv
<1>3. OnFile' = OnFile
  BY <1>0 DEF OnFile
<1>4. \A s \in Ids, o \in orphans' : Differ(Claim(s), WayInto(o))
  BY <1>1 DEF Differ
<1> QED
  BY <1>0, <1>2, <1>3, <1>4, EbbClaims DEF ClaimInv

LEMMA ClaimInit ==
  ASSUME Init
  PROVE  ClaimInv
<1>1. /\ \A s \in Ids : session[s] = Nothing
      /\ orphans = {} /\ wire = {} /\ OnFile = {}
  BY DEF Init, OnFile
<1>2. \A s \in Ids : Claim(s) = None /\ ~Live(s)
  BY <1>1 DEF Claim, Live, Nothing
<1> QED
  BY <1>1, <1>2 DEF ClaimInv, Differ

LEMMA ClaimNext ==
  ASSUME Calm, Alone, TableInv, ClaimInv, [Next]_vars
  PROVE  ClaimInv'
<1>1. ASSUME NEW s \in Ids, NEW kind \in {"claude", "shell"}, Create(s, kind)
      PROVE  ClaimInv'
  BY <1>1, CreateBirths, BirthClaims
<1>2. ASSUME NEW s \in Ids, NEW new \in Ids, Restart(s, new)
      PROVE  ClaimInv'
  BY <1>2, RestartClaims
<1>3. ASSUME NEW s \in Ids, NEW new \in Ids, Duplicate(s, new)
      PROVE  ClaimInv'
  BY <1>3, DuplicateClaims
<1>4. ASSUME NEW o \in orphans, ForgetOrphan(o)
      PROVE  ClaimInv'
  BY <1>4, ForgetLoses, LossClaims
<1>5. ASSUME NEW o \in orphans, NEW s \in Ids, ResumeOrphan(o, s)
      PROVE  ClaimInv'
  BY <1>5, ResumeClaims
<1>6. ASSUME NEW s \in Ids \cup Ext,
             \/ s \in Ids /\ (PtyExit(s) \/ Attach(s) \/ Detach(s))
             \/ Kill(s) \/ Close(s)
      PROVE  ClaimInv'
  BY <1>6, EndLoses, WatchLoses, CloseLoses, LossClaims
<1>7. CASE Emit
  BY <1>7, WireClaims
<1>8. ASSUME NEW e \in wire, Arrive(e)
      PROVE  ClaimInv'
  BY <1>8, ArriveTells, TellsClaims
<1>9. CASE Sweep
  BY <1>9, SweepLoses, LossClaims
<1>10. CASE Save
  BY <1>10, SaveClaims
<1>11. CASE Crash \/ Quit
  BY <1>11, DownClaims
<1>12. CASE Shutdown
  BY <1>12, ShutdownClaims
<1>13. CASE Start
  BY <1>13, StartClaims
<1>14. CASE UNCHANGED vars
  <2>1. /\ UNCHANGED <<orphans, wire>> /\ OnFile' = OnFile
        /\ \A s \in Ids : session'[s] = session[s]
    BY <1>14 DEF vars, table, OnFile
  <2>2. \A s \in Ids : Ebbs(s)
    BY <2>1, SameEbbs DEF TableInv
  <2> QED
    BY <2>1, <2>2, EbbClaims DEF ClaimInv
<1> QED
  BY <1>1, <1>2, <1>3, <1>4, <1>5, <1>6, <1>7, <1>8, <1>9, <1>10, <1>11, <1>12, <1>13, <1>14
  DEF Next

(* No two agents hold one conversation (loadOrphans, resumeOrphan), however *)
(* many sessions there are and however often the server dies, a failing     *)
(* write or a reused pid included: if no session that resumes is            *)
(* duplicated, no stranger works in the directory of the sessions, and no   *)
(* event comes while the server stops.                                      *)
THEOREM AgentsAreAlone ==
  ASSUME Calm, Alone
  PROVE  Spec => []OneAgentEach
<1>1. Init => TableInv /\ ClaimInv
  BY TableInit, ClaimInit
<1>2. TableInv /\ ClaimInv /\ [Next]_vars => (TableInv /\ ClaimInv)'
  BY TableNext, ClaimNext
<1>3. TableInv /\ ClaimInv => OneAgentEach
  <2>1. ASSUME TableInv, NEW s \in Ids, Live(s), session[s].holds # None
        PROVE  session[s].holds = Claim(s)
    BY <2>1 DEF TableInv, Sane, Live, Claim
  <2> QED
    BY <2>1 DEF ClaimInv, Differ, OneAgentEach
<1> QED
  BY <1>1, <1>2, <1>3, PTL DEF Spec
==============================================================================
