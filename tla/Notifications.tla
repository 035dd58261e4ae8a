------------------------------ MODULE Notifications ------------------------------
(***************************************************************************)
(* public/js/notifications.js: desktop notifications of one page. The store *)
(* tells it of hook events, of the pending permission requests, of the      *)
(* sessions and of stalls; the browser asks the user once whether            *)
(* notifications are allowed, and what is to be announced waits for that     *)
(* answer. One notification per session is on screen, a new one replaces it. *)
(***************************************************************************)
EXTENDS Naturals, Sequences, FiniteSets

CONSTANTS
  Sessions,
  Requests,      \* bound: permission requests
  MaxWaiting,    \* bound: announcements waiting for the browser's prompt
  None

VARIABLES
  status,        \* session -> its status, "gone" when it is not listed
  pending,       \* request -> the session it blocks, "none" before and after
  answered,      \* requests that were answered
  lastStatus,    \* _lastStatus
  seenApprovals, \* _seenApprovals
  permission,    \* Notification.permission
  prompt,        \* the announcements that wait for it, in order
  enabled, focus,
  screen,        \* perSession: session -> None or [reason, on]
  overtaken      \* history: announced by the prompt when nothing was pending

nvars == <<status, pending, answered, lastStatus, seenApprovals, permission, prompt,
           enabled, focus, screen, overtaken>>

Announcement(s, r) == [session |-> s, reason |-> r]

Init ==
  /\ status = [s \in Sessions |-> "gone"] /\ lastStatus = status
  /\ pending = [r \in Requests |-> None] /\ answered = {} /\ seenApprovals = {}
  /\ permission \in {"default", "granted"} /\ prompt = <<>>
  /\ enabled = TRUE /\ focus = FALSE
  /\ screen = [s \in Sessions |-> None] /\ overtaken = {}

Live(p) == {r \in Requests : p[r] # None}

(* The notification of a session that is on screen is the last one shown.    *)
Own(specs, s)  == {i \in DOMAIN specs : specs[i].session = s}
Last(specs, s) == specs[CHOOSE i \in Own(specs, s) : \A j \in Own(specs, s) : j <= i]
Shown(specs, old) ==
  [s \in Sessions |->
     IF Own(specs, s) # {}
     THEN [reason |-> Last(specs, s).reason, on |-> TRUE] ELSE old[s]]

(* notify(): not when the page has the focus, nor when notifications are off. *)
(* The first that finds no answer yet makes the browser ask (_ensurePermission); *)
(* a platform may refuse to show what it has permission for.                  *)
Notify(specs, old) ==
  IF focus \/ ~enabled \/ permission = "denied" THEN screen' = old /\ UNCHANGED prompt
  ELSE IF permission = "granted" THEN screen' \in {old, Shown(specs, old)} /\ UNCHANGED prompt
  ELSE /\ screen' = old /\ Len(prompt \o specs) <= MaxWaiting
       /\ prompt' = prompt \o specs

Quiet == UNCHANGED <<permission, enabled, focus>>
Close(old, Which(_)) ==
  [s \in Sessions |-> IF old[s] = None THEN None
                      ELSE IF Which(s) THEN [old[s] EXCEPT !.on = FALSE] ELSE old[s]]

-----------------------------------------------------------------------------
(* _onHookEvent and _onStalled                                               *)
HookEvent(s) ==
  /\ status[s] # "gone"
  /\ \E r \in {"turn-done", "question", "stalled"} : Notify(<<Announcement(s, r)>>, screen)
  /\ UNCHANGED <<status, pending, answered, lastStatus, seenApprovals, overtaken>> /\ Quiet

(* _onApprovals: the whole list, each time it changes. What is new in it is   *)
(* announced: requests come one by one, and so do the lists that name them.   *)
(* When it is empty no permission notification stays.                         *)

(* Wrong on purpose: those are closed whose request was in the last list.     *)
StaleBySeen(s) == /\ screen[s].reason = "permission"
                  /\ \E r \in seenApprovals : pending[r] = s

Stale(s) == screen[s].reason = "permission"
OnApprovals(p) ==
  /\ pending' = p /\ seenApprovals' = Live(p)
  /\ LET new == Live(p) \ seenApprovals
         old == IF Live(p) = {} THEN Close(screen, Stale) ELSE screen
     IN IF new = {} THEN screen' = old /\ UNCHANGED prompt
        ELSE \E r \in new : Notify(<<Announcement(p[r], "permission")>>, old)
  /\ overtaken' = IF Live(p) = {} THEN {} ELSE overtaken
  /\ UNCHANGED <<status, lastStatus>> /\ Quiet

Asked(s) ==
  \E r \in Requests \ answered :
    /\ status[s] # "gone" /\ pending[r] = None
    /\ answered' = answered \cup {r}
    /\ OnApprovals([pending EXCEPT ![r] = s])
Answered ==
  /\ \E gone \in (SUBSET Live(pending)) \ {{}} :
       OnApprovals([r \in Requests |-> IF r \in gone THEN None ELSE pending[r]])
  /\ UNCHANGED answered

(* _onSessions: an exit is announced when the session was seen running; what  *)
(* is no longer listed is forgotten.                                          *)
SessionChanges(s) ==
  \E t \in {"running", "exited", "gone"} \ {status[s]} :
    /\ status[s] = "gone" => t = "running"
    /\ status' = [status EXCEPT ![s] = t] /\ lastStatus' = status'
    /\ IF t = "exited" /\ lastStatus[s] # "gone"
       THEN Notify(<<Announcement(s, "exited")>>, screen) /\ UNCHANGED overtaken
       ELSE /\ screen' = IF t = "gone" THEN [screen EXCEPT ![s] = None] ELSE screen
            /\ overtaken' = IF t = "gone" THEN overtaken \ {s} ELSE overtaken
            /\ UNCHANGED prompt
    /\ UNCHANGED <<pending, answered, seenApprovals>> /\ Quiet

(* The user answers the browser's prompt, or waves it away.                   *)
PromptAnswered ==
  /\ prompt # <<>> /\ prompt' = <<>>
  /\ \/ permission' = "granted" /\ screen' \in {screen, Shown(prompt, screen)}
        /\ overtaken' = IF Live(pending) # {} THEN overtaken
                        ELSE overtaken \cup {prompt[i].session : i \in DOMAIN prompt}
     \/ permission' \in {"default", "denied"} /\ UNCHANGED <<screen, overtaken>>
  /\ UNCHANGED <<status, pending, answered, lastStatus, seenApprovals, enabled, focus>>

(* The user: a tap brings the page forward and closes the notification.       *)
Dismiss(s) ==
  /\ screen[s] # None /\ screen[s].on
  /\ screen' = [screen EXCEPT ![s].on = FALSE]
  /\ focus' \in {focus, TRUE}
  /\ UNCHANGED <<status, pending, answered, lastStatus, seenApprovals, permission, prompt, enabled, overtaken>>
Turns ==
  /\ \/ focus' = ~focus /\ UNCHANGED enabled
     \/ enabled' = ~enabled /\ UNCHANGED focus
  /\ UNCHANGED <<status, pending, answered, lastStatus, seenApprovals, permission, prompt, screen, overtaken>>

Next ==
  \/ \E s \in Sessions : HookEvent(s) \/ Asked(s) \/ SessionChanges(s) \/ Dismiss(s)
  \/ Answered \/ PromptAnswered \/ Turns

Spec == Init /\ [][Next]_nvars

-----------------------------------------------------------------------------
(* Properties *)

(* When nothing is blocked any more, no permission notification stays on     *)
(* screen (comment in _onApprovals), save one that waited for the browser's  *)
(* own prompt until its request had been answered.                           *)
NoneStays ==
  Live(pending) = {} =>
    \A s \in Sessions \ overtaken :
      screen[s] # None => ~(screen[s].on /\ screen[s].reason = "permission")

==============================================================================
