---------------------------------- MODULE Usage ----------------------------------
(***************************************************************************)
(* The usage numbers: lib/usage.js, the totals of lib/usage-parser.js and   *)
(* the status line hook that writes the quota file. Claude Code keeps        *)
(* appending to its transcripts, and copies answers between them when a      *)
(* session is resumed, while one pass at a time reads them. Time is counted   *)
(* in hours from a Monday 00:00.                                             *)
(***************************************************************************)
EXTENDS Integers, FiniteSets

CONSTANTS
  Transcripts,            \* files under projectsDir
  Messages,               \* bound: ids 1..n, in the order they are written
  UserMessages,           \* those of them a user wrote; the others are answers
  MaxFiles,               \* MAX_FILES
  DayHours, WeekHours,    \* bound: a short day, a short week
  FiveHours,              \* the rolling window
  CacheHours,             \* CACHE_TTL_MS
  QuotaHours,             \* QUOTA_MAX_AGE_MS
  LastHour,               \* bound
  None

VARIABLES
  hour,
  lines,      \* transcript -> set of [id, at]
  mtime,      \* transcript -> when it was last written
  quotaFile,  \* what the status line hook last wrote: its time, or None
  pass,       \* UsageTracker._inflight, or None
  cache       \* UsageTracker._cache, which every read() is answered from, or None

uvars == <<hour, lines, mtime, quotaFile, pass, cache>>

startOfLocalDay(h)  == h - (h % DayHours)
startOfLocalWeek(h) == h - (h % WeekHours)

IsAnswer(line) == line.id \notin UserMessages
Written  == UNION {lines[f] : f \in Transcripts}

Init ==
  /\ hour = WeekHours - 1          \* Sunday, before midnight
  /\ lines = [f \in Transcripts |-> {}] /\ mtime = [f \in Transcripts |-> 0]
  /\ quotaFile = None /\ pass = None /\ cache = None

Tick ==
  /\ hour < LastHour /\ hour' = hour + 1
  /\ UNCHANGED <<lines, mtime, quotaFile, pass, cache>>

-----------------------------------------------------------------------------
(* Claude Code writes. A resumed session replays lines of another file,     *)
(* with the time they had.                                                  *)
Append(f, line) ==
  /\ lines' = [lines EXCEPT ![f] = @ \cup {line}]
  /\ mtime' = [mtime EXCEPT ![f] = hour]
  /\ UNCHANGED <<hour, quotaFile, pass, cache>>
Write(f) ==
  \E m \in Messages : /\ \A l \in Written : l.id < m
                      /\ \A k \in Messages : k < m => \E l \in Written : l.id = k
                      /\ Append(f, [id |-> m, at |-> hour])
Replay(f) == \E l \in Written \ lines[f] : Append(f, l)

(* quota-hook.js: writeQuotaFile, whole or not at all.                       *)
writeQuotaFile ==
  /\ quotaFile # hour /\ quotaFile' = hour
  /\ UNCHANGED <<hour, lines, mtime, pass, cache>>

-----------------------------------------------------------------------------
(* _listTranscripts: those touched since that could be listed and looked at, *)
(* the newest MaxFiles of them: of any set, as any of the others may fail.   *)
Touched(since) == {f \in Transcripts : mtime[f] >= since}
Listings(since) == {s \in SUBSET Touched(since) : Cardinality(s) <= MaxFiles}

(* read(): from the cache or the pass under way, which changes nothing, or   *)
(* by a pass of its own, which keeps the time it was asked at.               *)
Fresh == IF cache = None THEN FALSE ELSE hour - cache.at < CacheHours
Read ==
  /\ ~Fresh /\ pass = None
  /\ pass' = [at |-> hour, listed |-> FALSE, todo |-> {}, found |-> {},
              quotaRead |-> FALSE, quota |-> None, before |-> Written, partial |-> FALSE]
  /\ UNCHANGED <<hour, lines, mtime, quotaFile, cache>>

Listing ==
  /\ pass # None /\ ~pass.listed
  /\ \E s \in Listings(startOfLocalWeek(pass.at)) :
       pass' = [pass EXCEPT !.listed = TRUE, !.todo = s,
                  !.partial = s # Touched(startOfLocalWeek(pass.at))]
  /\ UNCHANGED <<hour, lines, mtime, quotaFile, cache>>

(* _readTranscript: lines since then; a file that fails midway counts for    *)
(* what was read of it.                                                      *)
Since(f, since) == {<<f, l>> : l \in {m \in lines[f] : m.at >= since}}
ReadTranscript(f) ==
  /\ pass # None /\ f \in pass.todo
  /\ \E got \in SUBSET Since(f, startOfLocalWeek(pass.at)) :
       pass' = [pass EXCEPT !.todo = @ \ {f}, !.found = @ \cup got,
                  !.partial = @ \/ got # Since(f, startOfLocalWeek(pass.at))]
  /\ UNCHANGED <<hour, lines, mtime, quotaFile, cache>>

(* _readQuota: nothing when the file is missing, unreadable or too old.      *)
ReadQuota ==
  /\ pass # None /\ ~pass.quotaRead
  /\ \E q \in {None, quotaFile} :
       pass' = [pass EXCEPT !.quotaRead = TRUE, !.quota =
                  IF q = None THEN None
                  ELSE IF pass.at - q > QuotaHours THEN None ELSE q]
  /\ UNCHANGED <<hour, lines, mtime, quotaFile, cache>>

(* Wrong on purpose: every copy of an answer is counted.                     *)
EveryCopy(found) == found

(* summarizeJsonlUsage: of two copies of an answer one is counted; a user's  *)
(* message has no id of its own there and is counted wherever it stands.     *)
Counted(found) ==
  {x \in found : IsAnswer(x[2]) =>
     x = CHOOSE y \in found : y[2].id = x[2].id}
InBucket(found, start) == {x \in Counted(found) : x[2].at >= start}

Summary(p) ==
  LET b(start) == InBucket(p.found, start) IN
  [at |-> p.at, quota |-> p.quota, before |-> p.before, partial |-> p.partial,
   today |-> b(startOfLocalDay(p.at)), week |-> b(startOfLocalWeek(p.at)),
   fiveHour |-> b(p.at - FiveHours)]

Done ==
  /\ pass # None /\ pass.listed /\ pass.todo = {} /\ pass.quotaRead
  /\ pass' = None /\ cache' = Summary(pass)
  /\ UNCHANGED <<hour, lines, mtime, quotaFile>>

Next ==
  \/ Tick
  \/ \E f \in Transcripts : Write(f) \/ Replay(f) \/ ReadTranscript(f)
  \/ writeQuotaFile
  \/ Read \/ Listing \/ ReadQuota \/ Done

Spec == Init /\ [][Next]_uvars

-----------------------------------------------------------------------------
(* Properties *)

Answers(lns, from) == {l \in lns : IsAnswer(l) /\ l.at >= from}
Tokens(bucket) == Cardinality({x \in bucket : IsAnswer(x[2])})
Exact(bucket, from) ==
  /\ Tokens(bucket) <= Cardinality(Answers(Written, from))
  /\ ~cache.partial => Tokens(bucket) >= Cardinality(Answers(cache.before, from))

(* However the passes over the files interleave with what Claude Code        *)
(* writes and replays, an answer is counted once: the totals of the day and  *)
(* of the week hold every answer that was written when they were asked for,  *)
(* none twice (comment in summarizeJsonlUsage, usage-parser.js).             *)
CountedOnce ==
  cache # None =>
    /\ Exact(cache.week, startOfLocalWeek(cache.at))
    /\ Exact(cache.today, startOfLocalDay(cache.at))

==============================================================================
