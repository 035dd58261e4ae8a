------------------------------ MODULE HookInstaller ------------------------------
(***************************************************************************)
(* lib/hooks-install.js: Orchestra's entries in the user's settings.json.   *)
(* The file belongs to the user, who edits it at any time, and so does       *)
(* Claude Code; an install or an uninstall reads it, and replaces it several *)
(* awaits later. Several may be under way (the panel, the command line).     *)
(***************************************************************************)
EXTENDS Naturals, Sequences, FiniteSets

CONSTANTS
  Events, ToolEvents,  \* the hook events; those matched by tool name
  ApprovalEvent,       \* PreToolUse
  Editors,             \* installs and uninstalls under way at once
  UserLists,           \* what a user may have under one event
  Options,             \* what install() may be asked
  BackupsKept,
  MaxEdits,            \* bound: times the user edits the file
  MaxWrites,           \* bound: times an editor begins
  None, Broken,
  Absent, Odd          \* no value under an event; a value install() has no use for

VARIABLES
  file,         \* settings.json: [hooks, statusLine], or Broken
  editor,       \* editor -> what it has read and is about to write, or None
  backups,      \* newest first
  edits, writes,
  theirs,       \* history: what the user last wrote
  overwritten,  \* history: a write replaced a file it had not read
  backedUp      \* history: backups made since

past  == <<theirs, overwritten, backedUp>>
hvars == <<file, editor, backups, edits, writes, past>>

Flat(c)     == [shape |-> "flat", matcher |-> "", hooks |-> <<c>>]
Group(m, c) == [shape |-> "grouped", matcher |-> m, hooks |-> <<c>>]
MutatingTools == "mutating"

Generic == {"orchestra-hook", "orchestra-hook elsewhere"}
Approve == {"orchestra-approve"}
Ours    == Generic \cup Approve
OurStatusLines == {"quota-hook", "quota-hook elsewhere"}

Holds(node, cmds) == \E i \in DOMAIN node.hooks : node.hooks[i] \in cmds
Foreign(node)     == \E i \in DOMAIN node.hooks : node.hooks[i] \notin Ours

-----------------------------------------------------------------------------
(* The merge. *)

(* removeEntries: a node that only held such entries goes with them.          *)
Emptied(node, cmds) == node.hooks # <<>> /\ \A i \in DOMAIN node.hooks : node.hooks[i] \in cmds
Without(node, cmds) == [node EXCEPT !.hooks = SelectSeq(node.hooks, LAMBDA c : c \notin cmds)]
removeEntries(list, cmds) ==
  LET kept == SelectSeq(list, LAMBDA n : ~Emptied(n, cmds))
  IN [i \in DOMAIN kept |-> Without(kept[i], cmds)]

Nodes(list) == {list[i] : i \in DOMAIN list}

(* userShape and detectShape: ours do not count, then they do.               *)
ShapeOf(nodes) ==
  IF \E n \in nodes : n.shape = "grouped" THEN "grouped"
  ELSE IF nodes # {} THEN "flat" ELSE None

userShape(list)   == ShapeOf({n \in Nodes(list) : Foreign(n)})
detectShape(list) == ShapeOf(Nodes(list))

(* addEntry: in the shape of the file, unless a matcher has to be kept.       *)
FirstGroup(list, m) ==
  {i \in DOMAIN list : /\ list[i].shape = "grouped" /\ list[i].matcher = m
                       /\ \A j \in 1..i - 1 : ~(list[j].shape = "grouped" /\ list[j].matcher = m)}
With(node, c) == [node EXCEPT !.hooks = Append(node.hooks, c)]
AddToGroup(list, m, c) ==
  IF FirstGroup(list, m) = {} THEN Append(list, Group(m, c))
  ELSE LET i == CHOOSE i \in FirstGroup(list, m) : TRUE
       IN [j \in DOMAIN list |-> IF j = i THEN With(list[j], c) ELSE list[j]]
addEntry(list, e, c, shape, wanted) ==
  LET use == IF shape # None THEN shape ELSE detectShape(list)
  IN IF wanted # None THEN AddToGroup(list, wanted, c)
     ELSE IF use = "flat" THEN Append(list, Flat(c))
     ELSE AddToGroup(list, IF e \in ToolEvents THEN "*" ELSE "", c)

(* What an event holds that is not a list counts as an empty one; so the      *)
(* user's value is gone, as is a status line that names no command.           *)
ListOf(v) == IF v \in {Absent, Odd} THEN <<>> ELSE v
WithGeneric(v, e) ==
  addEntry(removeEntries(ListOf(v), Generic), e, "orchestra-hook", userShape(ListOf(v)), None)
WithApproval(v, ask) ==
  LET rest == removeEntries(ListOf(v), Approve)
  IN IF ask = "install"
     THEN addEntry(rest, ApprovalEvent, "orchestra-approve", userShape(ListOf(v)), MutatingTools)
     ELSE IF rest # <<>> THEN rest ELSE Absent

install(s, o) ==
  LET generic == [e \in Events |-> IF e \in o.events THEN WithGeneric(s.hooks[e], e) ELSE s.hooks[e]]
  IN [hooks |-> [e \in Events |-> IF e = ApprovalEvent /\ o.approvals # "keep"
                                  THEN WithApproval(generic[e], o.approvals) ELSE generic[e]],
      statusLine |-> IF o.statusLine /\ s.statusLine \in OurStatusLines \cup {None, Odd}
                     THEN "quota-hook" ELSE s.statusLine]

(* Wrong on purpose: a group that holds one of ours goes with the rest of it. *)
WholeGroups(v) ==
  IF v \in {Absent, Odd} THEN v ELSE SelectSeq(v, LAMBDA n : ~Holds(n, Ours))

Cleared(v) ==
  IF v \in {Absent, Odd} THEN v
  ELSE IF removeEntries(v, Ours) = <<>> THEN Absent ELSE removeEntries(v, Ours)
uninstall(s) ==
  [hooks |-> [e \in Events |-> Cleared(s.hooks[e])],
   statusLine |-> IF s.statusLine \in OurStatusLines THEN None ELSE s.statusLine]

-----------------------------------------------------------------------------
(* The file. *)

Nothing == [hooks |-> [e \in Events |-> Absent], statusLine |-> None]
Init ==
  /\ file = Nothing /\ theirs = Nothing
  /\ editor = [x \in Editors |-> None] /\ backups = <<>>
  /\ edits = 0 /\ writes = 0 /\ overwritten = FALSE /\ backedUp = 0

(* The user, or Claude Code, writes the file; half a file is a broken one.    *)
UserEdits ==
  /\ edits < MaxEdits /\ edits' = edits + 1
  /\ LET s == IF file = Broken THEN Nothing ELSE file IN
     \/ \E e \in Events : \E v \in UserLists : file' = [s EXCEPT !.hooks[e] = v]
     \/ \E l \in {None, Odd, "user"} : file' = [s EXCEPT !.statusLine = l]
     \/ file' = Broken
  /\ file' # file
  /\ theirs' = file' /\ overwritten' = FALSE /\ backedUp' = 0
  /\ UNCHANGED <<editor, backups, writes>>

(* openForEdit: what was not understood is not written back. What is already  *)
(* as it should be is not written at all (commit).                            *)
Begin(x, s) ==
  /\ editor[x] = None /\ writes < MaxWrites /\ file # Broken /\ s # file
  /\ writes' = writes + 1
  /\ editor' = [editor EXCEPT ![x] = [read |-> file, write |-> s, saved |-> file = Nothing]]
  /\ UNCHANGED <<file, backups, edits, past>>
Install(x)   == file # Broken /\ \E o \in Options : Begin(x, install(file, o))
Uninstall(x) == file # Broken /\ Begin(x, uninstall(file))

(* makeBackup: of what was read; then only the newest are kept.               *)
Backup(x) ==
  /\ editor[x] # None /\ ~editor[x].saved
  /\ editor' = [editor EXCEPT ![x].saved = TRUE]
  /\ LET all == <<editor[x].read>> \o backups
     IN backups' = SubSeq(all, 1, IF Len(all) < BackupsKept THEN Len(all) ELSE BackupsKept)
  /\ backedUp' = backedUp + 1
  /\ UNCHANGED <<file, edits, writes, theirs, overwritten>>

(* renameWithRetry: the file is replaced whole.                               *)
Replace(x) ==
  /\ editor[x] # None /\ editor[x].saved
  /\ file' = editor[x].write /\ editor' = [editor EXCEPT ![x] = None]
  /\ overwritten' = (overwritten \/ file # editor[x].read)
  /\ UNCHANGED <<backups, edits, writes, theirs, backedUp>>

(* The backup, the temporary file or the rename fails, or the process dies.   *)
Fail(x) ==
  /\ editor[x] # None /\ editor' = [editor EXCEPT ![x] = None]
  /\ UNCHANGED <<file, backups, edits, writes, past>>

Next ==
  \/ UserEdits
  \/ \E x \in Editors : Install(x) \/ Uninstall(x) \/ Backup(x) \/ Replace(x) \/ Fail(x)

Spec == Init /\ [][Next]_hvars

-----------------------------------------------------------------------------
(* Properties *)

(* What is not Orchestra's in a file: the user's entries in their order, each *)
(* with its matcher, and a status line of the user's own.                     *)
ForeignEntries(list) ==
  LET user == SelectSeq(ListOf(list), Foreign)
  IN [i \in DOMAIN user |-> Without(user[i], Ours)]
Places == Events \cup {"statusLine"}
UsersPart(s) ==
  [p \in Places |->
     IF p = "statusLine" THEN IF s.statusLine \in OurStatusLines THEN None ELSE s.statusLine
     ELSE IF s.hooks[p] = Odd THEN Odd ELSE ForeignEntries(s.hooks[p])]

(* A value of the user's that is no list of hooks, or no status line, may be  *)
(* lost to an install: it is in a backup, as long as the backups go back.     *)
GivenWay(p) ==
  /\ UsersPart(theirs)[p] = Odd /\ UsersPart(file)[p] \in {None, <<>>}
  /\ \/ backedUp > BackupsKept
     \/ \E i \in DOMAIN backups : UsersPart(backups[i])[p] = Odd

(* Any sequence of installs and uninstalls, also two at once, leaves the      *)
(* user's own hooks and status line as the user last wrote them, and a file   *)
(* that is not understood as it is (head of hooks-install.js). The exceptions *)
(* are named: a file that changed between the read and the replacement, and a *)
(* value that an install has no use for.                                      *)
UsersPartIsKept ==
  \/ overwritten
  \/ file = Broken /\ theirs = Broken
  \/ /\ Broken \notin {file, theirs}
     /\ \A p \in Places : UsersPart(file)[p] = UsersPart(theirs)[p] \/ GivenWay(p)

(* Installing again with the same options changes nothing: no install reports *)
(* a change forever (comment at userShape).                                   *)
ReinstallSettles ==
  file # Broken => \A o \in Options : LET s == install(file, o) IN install(s, o) = s

(* An install is the user's file with Orchestra's part in it, once.           *)
InstallsCleanly == UsersPartIsKept /\ ReinstallSettles
==============================================================================
