------------------------------- MODULE Timeline -------------------------------
(***************************************************************************)
(* The durable log of hook events: hooks/orchestra-hook.js stamps and posts *)
(* each once, lib/hook-bus.js appends them to a file per day, puts a full   *)
(* file aside, and reads the newest back. A file is an inode and the names  *)
(* that lead to it: a stream keeps writing to the inode it has opened,      *)
(* whatever becomes of the name. A file holds what was written to it and    *)
(* reaches it: a line still buffered when the server dies, or whose write   *)
(* fails, never does.                                                       *)
(***************************************************************************)
EXTENDS Naturals, FiniteSets, SequencesExt, FiniteSetsExt

CONSTANTS
  Events,      \* bound: the events that happen, 1..n
  Times,       \* bound: 0..n on the clock
  DayLength,   \* how long a day is
  Skew,        \* how far from its arrival, either way, a stamp may be
  Late,        \* bound: how old a line is at most that waits for a file
  FileMax,     \* MAX_LOG_BYTES, in lines
  QueueMax,    \* lines held while a file is put aside
  Slots,       \* rotated names of a day, 1..n
  RenameFails, \* whether a rename may fail
  None

VARIABLES
  now,
  arrived,     \* the events that have come in
  disk,        \* name -> number of the file it leads to, or None
  files,       \* what is in each file, by number
  stream,      \* the open stream: its day, file and size, or None
  rotating, queued,
  rotations,   \* the renames under way
  logged,      \* history: events the bus accepted, with their stamps
  dropped      \* history: of those, the ones it let go or failed to write

bus   == <<stream, rotating, queued, rotations>>
lvars == <<now, arrived, disk, files, bus, logged, dropped>>

Day(t) == t \div DayLength
Names  == {Day(t) : t \in Times} \X (0..Slots)     \* <<day, 0>> is the live file
Here(n) == disk[n] # None

Init ==
  /\ now = 0 /\ arrived = {}
  /\ disk = [n \in Names |-> None] /\ files = <<>>
  /\ stream = None /\ rotating = FALSE /\ queued = <<>> /\ rotations = <<>>
  /\ logged = {} /\ dropped = {}

-----------------------------------------------------------------------------
(* What _write does to the bus and the disk, as a composition.              *)
State == [disk |-> disk, files |-> files, stream |-> stream,
          rotating |-> rotating, rotations |-> rotations, dropped |-> dropped]

Open(b, day) == b.stream # None /\ b.stream.day = day

(* Wrong on purpose: a file that is there is not appended to.               *)
EmptiedFor(b, day) ==
  IF Open(b, day) THEN b
  ELSE [b EXCEPT !.stream = [day |-> day, file |-> Len(b.files) + 1, size |-> 0],
                 !.disk[<<day, 0>>] = Len(b.files) + 1,
                 !.files = Append(b.files, <<>>)]

(* _streamFor: the file of a day, as long as the day lasts.                 *)
StreamFor(b, day) ==
  IF Open(b, day) THEN b
  ELSE LET n == <<day, 0>> IN
       IF b.disk[n] # None
       THEN [b EXCEPT !.stream = [day |-> day, file |-> b.disk[n], size |-> Len(b.files[b.disk[n]])]]
       ELSE [b EXCEPT !.stream = [day |-> day, file |-> Len(b.files) + 1, size |-> 0],
                      !.disk[n] = Len(b.files) + 1,
                      !.files = Append(b.files, <<>>)]

(* _rotate: the stream is given up; a rename will follow its end.           *)
Rotate(b) ==
  [b EXCEPT !.stream = None, !.rotating = TRUE,
            !.rotations = Append(@, [day |-> b.stream.day, target |-> None])]

(* The ways a line can go: into the file, or nowhere, its bytes counted all *)
(* the same; or there is no folder, or no file, to write it to.             *)
Counted(b) ==
  LET w == [b EXCEPT !.stream.size = @ + 1]
  IN IF w.stream.size > FileMax THEN Rotate(w) ELSE w

Writes(b, e, time) ==
  LET o    == StreamFor(b, Day(time))
      lost == [o EXCEPT !.dropped = @ \cup {e}]
  IN {Counted([o EXCEPT !.files[o.stream.file] = Append(@, e)]), Counted(lost)}
     \cup IF Open(b, Day(time)) THEN {} ELSE {[b EXCEPT !.stream = None, !.dropped = lost.dropped]}

Put(b) ==
  /\ disk' = b.disk /\ files' = b.files /\ stream' = b.stream
  /\ rotating' = b.rotating /\ rotations' = b.rotations /\ dropped' = b.dropped

-----------------------------------------------------------------------------
(* orchestra-hook.js posts an event once, stamped by a clock of its own: it *)
(* arrives when it does, in any order, or never. A stamp that is further    *)
(* off than Skew, ahead or behind, is replaced.                             *)
Stamps == {t \in Times : t <= now + Skew /\ now <= t + Skew}

(* _append: while a file is put aside, lines wait in memory.                *)
Arrive(id, ts) ==
  /\ \A i \in 1..id - 1 : i \in arrived
  /\ id \notin arrived /\ arrived' = arrived \cup {id}
  /\ LET e == [id |-> id, ts |-> ts] IN
     /\ logged' = logged \cup {e}
     /\ IF ~rotating
        THEN (\E b \in Writes(State, e, ts) : Put(b)) /\ UNCHANGED queued
        ELSE IF Len(queued) < QueueMax
        THEN queued' = Append(queued, e) /\ Put(State)
        ELSE Put([State EXCEPT !.dropped = @ \cup {e}]) /\ UNCHANGED queued
  /\ UNCHANGED now

(* The stream reports an error: the next line opens another.                *)
StreamFails ==
  /\ stream # None /\ Put([State EXCEPT !.stream = None])
  /\ UNCHANGED <<now, arrived, queued, logged>>

(* The stream has ended: the first free name is chosen.                     *)
FreeSlots(day) == {i \in 1..Slots : ~Here(<<day, i>>)}
Choose(k) ==
  /\ rotations[k].target = None /\ FreeSlots(rotations[k].day) # {}
  /\ rotations' = [rotations EXCEPT ![k].target = Min(FreeSlots(rotations[k].day))]
  /\ UNCHANGED <<now, arrived, disk, files, stream, rotating, queued, logged, dropped>>

(* done(): the lines that waited are written, all at once.                  *)
Replays(b) ==
  FoldLeft(LAMBDA bs, e : UNION {Writes(c, e, now) : c \in bs}, {[b EXCEPT !.rotating = FALSE]}, queued)

Renamed(k) ==
  LET r == rotations[k] IN
  [disk EXCEPT ![<<r.day, r.target>>] = disk[<<r.day, 0>>], ![<<r.day, 0>>] = None]
Renameable(k) == rotations[k].target # None /\ Here(<<rotations[k].day, 0>>)

(* No free name, or the rename comes back: one way or another, done().      *)
Finish(k) ==
  LET r == rotations[k]
      over(d) == [State EXCEPT !.disk = d, !.rotations = RemoveAt(rotations, k)]
  IN /\ \/ /\ r.target = None /\ FreeSlots(r.day) = {}
           /\ \E b \in Replays(over(disk)) : Put(b)
        \/ /\ Renameable(k)
           /\ \E b \in Replays(over(Renamed(k))) : Put(b)
        \/ /\ r.target # None /\ (RenameFails \/ ~Here(<<r.day, 0>>))
           /\ \E b \in Replays(over(disk)) : Put(b)
     /\ queued' = <<>>
     /\ UNCHANGED <<now, arrived, logged>>

(* The server stops, and another starts: what waited is let go, and a rename *)
(* that had begun may still happen.                                         *)
Restart ==
  /\ stream' = None /\ rotating' = FALSE /\ queued' = <<>> /\ rotations' = <<>>
  /\ dropped' = dropped \cup ToSet(queued)
  /\ disk' = disk \/ \E k \in DOMAIN rotations : Renameable(k) /\ disk' = Renamed(k)
  /\ UNCHANGED <<now, arrived, files, logged>>

(* No line waits until it is older than Late.                               *)
Tick ==
  /\ now + 1 \in Times /\ now' = now + 1
  /\ rotating => \A e \in ToSet(queued) : now < e.ts + Late
  /\ UNCHANGED <<arrived, disk, files, bus, logged, dropped>>

Next ==
  \/ \E id \in Events : \E ts \in Stamps : Arrive(id, ts)
  \/ StreamFails
  \/ \E k \in DOMAIN rotations : Choose(k) \/ Finish(k)
  \/ Restart \/ Tick

Spec == Init /\ [][Next]_lvars

-----------------------------------------------------------------------------
(* timeline(): the files newest first, each from its end, down to the first *)
(* line that is not newer than asked. Within a day the live file is newest. *)
Newer(m, n) ==
  \/ m[1] > n[1]
  \/ m[1] = n[1] /\ n[2] # 0 /\ (m[2] = 0 \/ m[2] > n[2])
LogFiles == SetToSortSeq({n \in Names : Here(n)}, Newer)

Backwards(n) == Reverse(files[disk[n]])
Scan == FoldLeft(LAMBDA s, n : s \o Backwards(n), <<>>, LogFiles)

Answer(since) ==
  LET old == {i \in DOMAIN Scan : since > 0 /\ Scan[i].ts <= since}
      end == IF old = {} THEN Len(Scan) ELSE (CHOOSE i \in old : \A j \in old : i <= j) - 1
  IN Reverse(SubSeq(Scan, 1, end))

-----------------------------------------------------------------------------
(* Properties *)

(* An event the bus accepted, and did not let go or fail to write, is in    *)
(* one file that has a name, once, or waits for a file to be put aside; and *)
(* the others are nowhere.                                                  *)
Copies(e) ==
  Cardinality({x \in UNION {{<<n, i>> : i \in DOMAIN files[disk[n]]} : n \in {m \in Names : Here(m)}} :
                 files[disk[x[1]]][x[2]] = e})
  + Cardinality({i \in DOMAIN queued : queued[i] = e})
EveryEventOnce == \A e \in logged : Copies(e) = IF e \in dropped THEN 0 ELSE 1

(* Asked for what is later than a moment, the timeline leaves out an event  *)
(* of the files only if it is hardly newer: by no more than a line may wait *)
(* and a stamp be ahead. ("Lines are appended in timestamp order", says the *)
(* comment in timeline; hooks race one another, and their clocks differ.)   *)
OnlyTheLateAreMissed ==
  \A since \in Times :
    \A i \in DOMAIN Scan :
      Scan[i].ts > since + Late + Skew => \E j \in DOMAIN Answer(since) : Answer(since)[j] = Scan[i]

(* What the timeline and the digest read is what the bus accepted.          *)
TimelineIsWhole == EveryEventOnce /\ OnlyTheLateAreMissed
==============================================================================
