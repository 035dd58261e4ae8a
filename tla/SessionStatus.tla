---------------------------- MODULE SessionStatus ----------------------------
(***************************************************************************)
(* What Orchestra shows of one session: its status, the question it is      *)
(* waiting on, and the timer that turns a quiet shell back to idle.         *)
(* lib/session-manager.js owns the machine; lib/hook-bus.js drives it from  *)
(* Claude Code's hook events; lib/approvals.js parks it on                  *)
(* "awaiting-permission" while a request is pending.                        *)
(*                                                                         *)
(* Every operator maps a session record to the record the code leaves       *)
(* behind, so that a handler that touches several sessions, or one session  *)
(* several times, is a composition of them inside one action.               *)
(***************************************************************************)
EXTENDS Integers

CONSTANTS
  Sessions,   \* session ids; an id is created once and never reused (a UUID)
  Shells,     \* the sessions whose kind is not 'claude'
  Requests    \* permission request ids, numbered in order of arrival

ASSUME ShellsAreSessions == Shells \subseteq Sessions
ASSUME RequestsAreNumbered == Requests \subseteq Nat \ {0}

Live   == {"starting", "idle", "busy", "awaiting-input", "awaiting-permission"}
Status == Live \cup {"absent", "exited", "gone"}

(* agent.lastQuestion: nothing, a Notification's message, or the question   *)
(* of one permission request.                                               *)
NoQuestion == 0
Notice     == -1
Question   == Requests \cup {NoQuestion, Notice}

Session == [status: Status, question: Question, idleTimer: BOOLEAN]

Absent  == [status |-> "absent",   question |-> NoQuestion, idleTimer |-> FALSE]
Spawned == [status |-> "starting", question |-> NoQuestion, idleTimer |-> FALSE]
Gone    == [status |-> "gone",     question |-> NoQuestion, idleTimer |-> FALSE]

(* sessions.get(id) finds a record: created and not yet closed.             *)
Known(x) == x.status \in Live \cup {"exited"}

(* The patch is applied whatever the status; "exited" is never left.        *)
SetStatus(x, status, question) ==
  IF x.status = "exited"
  THEN [x EXCEPT !.question = question]
  ELSE [status |-> status, question |-> question, idleTimer |-> FALSE]

(* HookBus._setStatusUnlessBlocked: a session held by an approval keeps its *)
(* status and takes only the patch. The patch goes through setStatus too.   *)
SetStatusUnlessBlocked(x, status, question) ==
  IF x.status = "awaiting-permission"
  THEN SetStatus(x, x.status, question)
  ELSE SetStatus(x, status, question)

-----------------------------------------------------------------------------
(* Claude Code's hook events, by what HookBus._apply does with them.        *)

Unconditional == {"SessionStart", "UserPromptSubmit", "Stop"}
Deferential   == {"PreToolUse", "PostToolUse", "SubagentStop", "Notification"}
Recorded      == {"SessionEnd"}
HookEvents    == Unconditional \cup Deferential \cup Recorded

EventStatus ==
  [SessionStart |-> "idle", UserPromptSubmit |-> "busy", Stop |-> "idle",
   PreToolUse |-> "busy", PostToolUse |-> "busy", SubagentStop |-> "busy",
   Notification |-> "awaiting-input"]

EventQuestion(x, event) ==
  CASE event = "Notification"                   -> Notice
    [] event \in {"UserPromptSubmit", "Stop"}   -> NoQuestion
    [] OTHER                                    -> x.question

Apply(x, event) ==
  LET question == EventQuestion(x, event) IN
  CASE event \in Unconditional -> SetStatus(x, EventStatus[event], question)
    [] event \in Deferential   -> SetStatusUnlessBlocked(x, EventStatus[event], question)
    [] OTHER                   -> SetStatus(x, x.status, question)

-----------------------------------------------------------------------------
(* A shell has no hooks of its own: output means busy, 800 ms of silence    *)
(* means idle. Neither step looks at what the status was before.            *)

MarkActivity(x) == [x EXCEPT !.status = "busy", !.idleTimer = TRUE]

IdleTimerFires(x) ==
  [x EXCEPT !.idleTimer = FALSE,
            !.status = IF @ = "busy" THEN "idle" ELSE @]

(* onPtyExit, kill and the external sweep: the record stays readable, the   *)
(* idle timer goes with the process.                                        *)
Exited(x) == [x EXCEPT !.status = "exited", !.idleTimer = FALSE]

(* ApprovalQueue.markSession: an unknown session is left alone, and busy is *)
(* written only over awaiting-permission.                                   *)
MarkSession(x, status, question) ==
  IF ~Known(x) THEN x
  ELSE IF status = "busy" /\ x.status # "awaiting-permission"
       THEN [x EXCEPT !.question = question]
       ELSE SetStatus(x, status, question)
==============================================================================
