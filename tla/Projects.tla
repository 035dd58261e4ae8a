-------------------------------- MODULE Projects --------------------------------
(***************************************************************************)
(* The list of projects (lib/projects.js). The directories Claude Code      *)
(* keeps are named by slugs, in which a dash is a dash of a name or a       *)
(* separator; the file system tells which, within a budget of directory     *)
(* listings. Branches are asked of git and cached, while directories come   *)
(* and go. A name is a sequence of tokens, a path a sequence of names, a    *)
(* slug the tokens of a path.                                               *)
(***************************************************************************)
EXTENDS Naturals, FiniteSets, SequencesExt

CONSTANTS
  Trees,        \* what the disk may hold: sets of paths, each with its parents
  Slugs,        \* directories of ~/.claude/projects there may be
  Histories,    \* what history.jsonl may name: sets of paths
  None,
  MaxListings,  \* DECODE_MAX_LISTINGS
  BranchTTL,    \* BRANCH_TTL_MS, in ticks
  GitTimeout,   \* GIT_TIMEOUT_MS, of the two runs a branch may take, in ticks
  MaxClock,     \* bound: ticks
  MaxAsking     \* bound: branches asked of git at a time

VARIABLES
  tree, history, dirs,
  whole,        \* ghost: no directory has vanished
  list,         \* the entries recent() is looking at: path -> known to exist?
  decoded,      \* what each slug was taken for
  listings,     \* directories listed for it
  cache,        \* _branchCache: when each branch was asked, and read
  gitMissing, git,
  asking,       \* calls of branch() waiting for git
  clock

pjvars == <<tree, whole, history, dirs, list, decoded, listings, cache, gitMissing, git,
            asking, clock>>

Init ==
  /\ whole = TRUE /\ tree \in Trees /\ history \in Histories /\ git \in BOOLEAN
  /\ dirs \in {<<>>} \cup {<<s>> : s \in Slugs}
             \cup {<<s, t>> : s \in Slugs, t \in Slugs}
  /\ Cardinality(Range(dirs)) = Len(dirs)
  /\ list = {} /\ decoded = <<>> /\ listings = {} /\ cache = {}
  /\ gitMissing = FALSE /\ asking = {} /\ clock = 0

-----------------------------------------------------------------------------
(* _decodeSlug, _matchTokens, _listChildDirs *)

Encoded(path) == FlattenSeq(path)
Children(dir) == {Last(p) : p \in {q \in tree : Len(q) > 0 /\ Front(q) = dir}}

(* Wrong on purpose: a branch that leads nowhere ends the search.            *)
GivesUp(k) == 0
(* The next prefix, the longest first.                                       *)
Shorter(k) == k - 1

(* An exact match of the rest wins; else every child that spells its         *)
(* beginning is tried. A listing is made once and charged to the budget.     *)
Found(path, listed) == [path |-> path, listed |-> listed]
RECURSIVE Match(_, _, _), Try(_, _, _, _)
Match(dir, rest, listed) ==
  IF rest = <<>> THEN Found(dir, listed)
  ELSE IF Cardinality(listed) >= MaxListings THEN Found(None, listed)
  ELSE IF rest \in Children(dir) THEN Found(Append(dir, rest), listed \cup {dir})
  ELSE Try(dir, rest, listed \cup {dir}, Len(rest) - 1)
Try(dir, rest, listed, k) ==
  IF k = 0 THEN Found(None, listed)
  ELSE IF SubSeq(rest, 1, k) \notin Children(dir) THEN Try(dir, rest, listed, k - 1)
  ELSE LET hit == Match(Append(dir, SubSeq(rest, 1, k)), SubSeq(rest, k + 1, Len(rest)), listed)
       IN IF hit.path # None THEN hit ELSE Try(dir, rest, hit.listed, Shorter(k))

(* A slug that is not resolved is shown as if every dash were a separator.   *)
Guess(slug) == [i \in DOMAIN slug |-> <<slug[i]>>]

-----------------------------------------------------------------------------
(* recent *)

(* exists is what is known of a path: "yes", "no", or "ask" when only the    *)
(* history names it. What a slug says prevails over the history.             *)
Entry(path, exists) == [path |-> path, exists |-> exists]
Merged(entries, path, exists) ==
  LET old == {e \in entries : e.path = path}
      known == IF \E e \in old : e.exists = "yes" THEN "yes" ELSE exists
  IN (entries \ old) \cup {Entry(path, known)}

ReadHistory ==
  /\ list = {} /\ decoded = <<>>
  /\ history # {} /\ list' = {Entry(p, "ask") : p \in history}
  /\ UNCHANGED <<tree, whole, history, dirs, decoded, listings, cache, gitMissing, git, asking, clock>>

DecodeSlug ==
  /\ Len(decoded) < Len(dirs) /\ (history # {} => list # {})
  /\ LET slug == dirs[Len(decoded) + 1]
         hit == Match(<<>>, slug, listings)
         there == hit.path # None
         path == IF there THEN hit.path ELSE Guess(slug)
     IN /\ decoded' = Append(decoded, [slug |-> slug, path |-> path, there |-> there])
        /\ listings' = hit.listed
        /\ list' = Merged(list, path, IF there THEN "yes" ELSE "no")
  /\ UNCHANGED <<tree, whole, history, dirs, cache, gitMissing, git, asking, clock>>

(* Every entry that may exist is looked at, and its branch asked if it is a  *)
(* repository.                                                               *)
AllRead == Len(decoded) = Len(dirs)
Hits(dir) == {c \in cache : c.dir = dir /\ clock - c.at < BranchTTL}
Call(dir, started) == [dir |-> dir, at |-> clock, step |-> started, read |-> clock]
Branch(e) ==
  /\ AllRead /\ e \in list /\ e.exists # "no" /\ e.path \in tree
  /\ IF Hits(e.path) # {}
     THEN UNCHANGED <<asking, cache>>
     ELSE IF gitMissing
     THEN /\ cache' = {c \in cache : c.dir # e.path}
                      \cup {[dir |-> e.path, at |-> clock, read |-> clock]}
          /\ UNCHANGED asking
     ELSE /\ Cardinality(asking) < MaxAsking /\ asking' = asking \cup {Call(e.path, "spawned")}
          /\ UNCHANGED cache
  /\ UNCHANGED <<tree, whole, history, dirs, list, decoded, listings, gitMissing, git, clock>>

-----------------------------------------------------------------------------
(* branch, _git *)

(* git looks at the repository; it may fail, or be too slow.                 *)
GitReads(c) ==
  /\ c \in asking /\ c.step = "spawned" /\ git /\ c.dir \in tree
  /\ asking' = (asking \ {c}) \cup {[c EXCEPT !.step = "read", !.read = clock]}
  /\ UNCHANGED <<tree, whole, history, dirs, list, decoded, listings, cache, gitMissing, git, clock>>

(* The time the branch was asked, taken before git was started.              *)
Stamp(c) == c.at
Kept(c) == [dir |-> c.dir, at |-> Stamp(c), read |-> c.read]
GitAnswers(c) ==
  /\ c \in asking /\ c.step = "read" /\ asking' = asking \ {c}
  /\ cache' = {d \in cache : d.dir # c.dir} \cup {Kept(c)}
  /\ UNCHANGED <<tree, whole, history, dirs, list, decoded, listings, gitMissing, git, clock>>

(* ENOENT is taken for a missing git, though a missing directory says it too; *)
(* there is no way back. Any other failure is an absent branch.              *)
GitFails(c) ==
  /\ c \in asking /\ asking' = asking \ {c}
  /\ gitMissing' = (gitMissing \/ (c.step = "spawned" /\ (~git \/ c.dir \notin tree)))
  /\ cache' = {d \in cache : d.dir # c.dir}
              \cup {[dir |-> c.dir, at |-> c.at, read |-> c.read]}
  /\ UNCHANGED <<tree, whole, history, dirs, list, decoded, listings, git, clock>>

-----------------------------------------------------------------------------
(* The world *)

Vanish(dir) ==
  /\ AllRead /\ dir \in tree /\ tree' = {p \in tree : ~IsPrefix(dir, p)}
  /\ whole' = FALSE
  /\ UNCHANGED <<history, dirs, list, decoded, listings, cache, gitMissing, git, asking, clock>>
Tick ==
  /\ AllRead /\ \A c \in asking : clock - c.at < GitTimeout
  /\ clock < MaxClock /\ clock' = clock + 1
  /\ UNCHANGED <<tree, whole, history, dirs, list, decoded, listings, cache, gitMissing, git,
                 asking>>

Next ==
  \/ ReadHistory \/ DecodeSlug \/ Tick
  \/ \E e \in list : Branch(e)
  \/ \E c \in asking : GitReads(c) \/ GitAnswers(c) \/ GitFails(c)
  \/ \E dir \in tree : Vanish(dir)

Spec == Init /\ [][Next]_pjvars

-----------------------------------------------------------------------------
(* Properties *)

(* As long as the budget of listings lasts, a slug is resolved whenever some *)
(* directory spells it, whatever else begins like it, and only to a          *)
(* directory that does (until directories vanish).                           *)
SlugsAreFound ==
  whole /\ Cardinality(listings) < MaxListings =>
    \A d \in Range(decoded) :
      IF d.there THEN d.path \in tree /\ Encoded(d.path) = d.slug
      ELSE \A p \in tree : Encoded(p) # d.slug

(* A branch that the cache answers was read within the last BRANCH_TTL_MS,   *)
(* however long git took and however calls overlap.                          *)
BranchIsFresh == \A dir \in tree : \A c \in Hits(dir) : clock - c.read < BranchTTL

(* What the list says of a folder is true, or was a moment ago.              *)
ProjectsAreTrue == SlugsAreFound /\ BranchIsFresh
==============================================================================
