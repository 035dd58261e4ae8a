-------------------------------- MODULE Startup --------------------------------
(***************************************************************************)
(* Starting and stopping the server: bin/cli.js, the token of lib/config.js *)
(* and start()/close() of server.js. Several starts may run at once: the    *)
(* token file is shared by all of them, and by the hooks of agents that     *)
(* were not started from an Orchestra terminal. Each file operation is a    *)
(* step; writing a file empties it first.                                   *)
(***************************************************************************)
EXTENDS Naturals, FiniteSets

CONSTANTS
  Procs,     \* processes of the program, each started again and again
  MaxRuns,   \* bound: starts
  Ports,
  Given,     \* tokens an operator may supply
  None,      \* no token: the file is absent, or too short to be used
  Foreign    \* a program that is not Orchestra, on a port throughout

VARIABLES
  file,      \* what a reader of the token file gets
  owner,     \* who listens on each port
  proc,      \* each start, see Fresh
  runs,      \* starts so far
  made,      \* tokens generated so far
  disturbed  \* ghost: what happened besides plain starts, one by one

suvars == <<file, owner, proc, runs, made, disturbed>>

(* What a start may be told: a token, one that is too short, to rotate.      *)
Args == [given: Given \cup {None}, short: BOOLEAN, rotate: BOOLEAN]
Fresh == [at |-> "gone", port |-> None, given |-> None, short |-> FALSE,
          rotate |-> FALSE, token |-> None]

Init ==
  /\ file = None /\ runs = 0 /\ made = 0 /\ disturbed = {}
  /\ owner \in [Ports -> {None, Foreign}]
  /\ proc = [p \in Procs |-> Fresh]

Generated(n) == <<"token", n>>
Loading(p) == proc[p].at \in {"run", "rotated", "store", "emptied"}
At(p, at) == proc[p].at = at
Goes(p, at) == proc' = [proc EXCEPT ![p].at = at]
Exits(p) == proc' = [proc EXCEPT ![p] = Fresh]
Released(p) == [port \in Ports |-> IF owner[port] = p THEN None ELSE owner[port]]

-----------------------------------------------------------------------------
(* cli.js: main *)

Disturbing(a) == {c \in {"given", "rotate", "overlap"} :
  \/ c = "given" /\ a.given # None
  \/ c = "rotate" /\ a.rotate
  \/ c = "overlap" /\ \E q \in Procs : Loading(q)}

(* parseArgs: an error, a --token below the floor among them, ends the start *)
(* before config is loaded. A short token here is that of the environment.   *)
Run(p) ==
  /\ At(p, "gone") /\ runs < MaxRuns /\ runs' = runs + 1
  /\ \/ Exits(p) /\ UNCHANGED disturbed
     \/ \E a \in Args, port \in Ports :
          /\ a.short => a.given # None
          /\ proc' = [proc EXCEPT ![p] =
               [at |-> "run", port |-> port, given |-> a.given, short |-> a.short,
                rotate |-> a.rotate, token |-> None]]
          /\ disturbed' = disturbed \cup Disturbing(a)
  /\ UNCHANGED <<file, owner, made>>

-----------------------------------------------------------------------------
(* config.js: loadOrCreateToken, persistToken *)

Rotate(p) ==
  /\ At(p, "run") /\ Goes(p, "rotated")
  /\ file' = IF proc[p].rotate THEN None ELSE file
  /\ UNCHANGED <<owner, made, runs, disturbed>>

(* A token from the environment, which a short one ends; or the file's; or a *)
(* new one, also when the file is there and cannot be read.                  *)
Chosen(p, token, at) == proc' = [proc EXCEPT ![p].token = token, ![p].at = at]
TakeGiven(p) ==
  /\ At(p, "rotated") /\ proc[p].given # None
  /\ IF proc[p].short THEN Exits(p) ELSE Chosen(p, proc[p].given, "store")
  /\ UNCHANGED <<file, owner, made, runs, disturbed>>
ReadToken(p) ==
  /\ At(p, "rotated") /\ proc[p].given = None
  /\ \/ file # None /\ Chosen(p, file, "loaded") /\ UNCHANGED <<made, disturbed>>
     \/ /\ Chosen(p, Generated(made), "store") /\ made' = made + 1
        /\ disturbed' = IF file = None THEN disturbed ELSE disturbed \cup {"failed"}
  /\ UNCHANGED <<file, owner, runs>>

Empty(p) ==
  /\ At(p, "store") /\ file' = None /\ Goes(p, "emptied")
  /\ UNCHANGED <<owner, made, runs, disturbed>>
(* Wrong on purpose: what was generated is used but not stored.              *)
GeneratedIsKept(p) == IF proc[p].given = None THEN file ELSE proc[p].token
Stored(p) == proc[p].token
Write(p) ==
  /\ At(p, "emptied") /\ file' = Stored(p) /\ Goes(p, "loaded")
  /\ UNCHANGED <<owner, made, runs, disturbed>>
(* "Not fatal": the start goes on with a token nobody else can read.         *)
StoreFails(p) ==
  /\ proc[p].at \in {"store", "emptied"} /\ Goes(p, "loaded")
  /\ disturbed' = disturbed \cup {"failed"} /\ UNCHANGED <<file, owner, runs, made>>

-----------------------------------------------------------------------------
(* server.js: start *)

(* A host that is not loopback is refused unless the operator opts in; a     *)
(* port may need rights, a host may not be this machine's.                   *)
Listen(p) ==
  /\ At(p, "loaded")
  /\ LET port == proc[p].port IN
     \/ Exits(p) /\ UNCHANGED owner
     \/ owner[port] = None /\ owner' = [owner EXCEPT ![port] = p] /\ Goes(p, "recipe")
     \/ owner[port] # None /\ Goes(p, "probing") /\ UNCHANGED owner
  /\ UNCHANGED <<file, made, runs, disturbed>>

(* --workspace reads a recipe before start() returns; the signal handlers    *)
(* are installed after it.                                                   *)
Ready(p) ==
  /\ At(p, "recipe") /\ Goes(p, "serving")
  /\ UNCHANGED <<file, owner, made, runs, disturbed>>

(* handlePortInUse: whoever answers like an Orchestra is reused.             *)
Answers(port) ==
  owner[port] \in Procs /\ proc[owner[port]].at \in {"recipe", "serving"}
Probe(p) ==
  /\ At(p, "probing")
  /\ \/ Answers(proc[p].port) /\ Exits(p)
     \/ Exits(p)
  /\ UNCHANGED <<file, owner, made, runs, disturbed>>

-----------------------------------------------------------------------------
(* cli.js: installSignalHandlers; server.js: close *)

(* Before the handlers are there a signal ends the program as a crash does.  *)
Signal(p) ==
  /\ IF At(p, "serving") THEN Goes(p, "closing") ELSE At(p, "closing") /\ Exits(p)
  /\ owner' = Released(p) /\ UNCHANGED <<file, made, runs, disturbed>>
Closed(p) ==
  /\ At(p, "closing") /\ Exits(p)
  /\ UNCHANGED <<file, owner, made, runs, disturbed>>
Crash(p) ==
  /\ ~At(p, "gone") /\ Exits(p)
  /\ owner' = Released(p) /\ UNCHANGED <<file, made, runs, disturbed>>

Next ==
  \E p \in Procs :
    \/ Run(p) \/ Rotate(p) \/ TakeGiven(p) \/ ReadToken(p) \/ Empty(p) \/ Write(p)
    \/ StoreFails(p) \/ Listen(p) \/ Ready(p) \/ Probe(p)
    \/ Signal(p) \/ Closed(p) \/ Crash(p)

Spec == Init /\ [][Next]_suvars

-----------------------------------------------------------------------------
(* Properties *)

Serving == {p \in Procs : At(p, "recipe") \/ At(p, "serving")}

(* Plain starts, each let finish loading before the next, agree on one token *)
(* with the file, over any number of crashes, restarts, second starts and    *)
(* ports: a hook outside a terminal is let in by every server there is.      *)
PlainStartsAgree == disturbed = {} => \A p \in Serving : proc[p].token = file

(* A token the operator supplies "is written there too, otherwise those      *)
(* hooks keep presenting the token of a previous run" (config.js): once      *)
(* nobody is starting, the token the hooks read is that of a server, if      *)
(* there is one and no write failed or was cut short.                        *)
Settled == \A p \in Procs : proc[p].at \in {"serving", "gone"}
HooksCanAuthenticate ==
  Settled /\ Serving # {} /\ disturbed \subseteq {"given"} /\ file # None
    => \E p \in Serving : proc[p].token = file
==============================================================================
