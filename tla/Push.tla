---------------------------------- MODULE Push ----------------------------------
(***************************************************************************)
(* Web Push: lib/push.js on the server, public/js/push.js in each browser,  *)
(* public/sw.js behind it, and the push service between them. A browser     *)
(* makes an endpoint for a VAPID key; the server keeps the endpoints it was *)
(* told of, and sends to all it knows when a send begins.                   *)
(***************************************************************************)
EXTENDS Naturals, FiniteSets

CONSTANTS
  Devices,
  Endpoints,        \* bound: 1..n, in the order browsers make them
  MaxSubscriptions, MaxFailures,
  MaxSends,         \* bound: sends under way at once
  MaxRestarts,      \* bound
  None

VARIABLES
  held,       \* device -> the endpoint its browser holds, or None
  client,     \* device -> what its PushClient is about to do
  madeWith,   \* endpoint -> the key it was made with, or None
  key,        \* the server's VAPID key
  subs,       \* PushSender.subs: endpoint -> subscription, or None
  failures,   \* subscription -> failures in a row
  pushFile,   \* what is on disk: key, endpoints subscribed, their failures
  sends,      \* sends under way: who is still to answer, who is gone, who got it
  restarts, shown,
  told,       \* history: endpoints a client was told are subscribed
  cause,      \* history: unsubscribed, gone, refused by the push service, or lost
  unwritten   \* history: endpoints told so, that no write has put into the file

sender == <<key, subs, failures, pushFile>>
past   == <<told, cause, unwritten>>
pvars  == <<held, client, madeWith, sender, sends, restarts, shown, past>>

(* A subscription is a new object each time a browser registers, also for   *)
(* an endpoint that is known; a send under way holds the old one. A number   *)
(* no send holds stands for the new object.                                 *)
Subscriptions == Endpoints \X (1..MaxSends + 1)
Idle == [does |-> "nothing"]

Init ==
  /\ held = [d \in Devices |-> None] /\ client = [d \in Devices |-> Idle]
  /\ madeWith = [e \in Endpoints |-> None]
  /\ key = 1 /\ subs = [e \in Endpoints |-> None]
  /\ failures = [s \in Subscriptions |-> 0]
  /\ pushFile = [key |-> 1, subs |-> {}, failures |-> [e \in Endpoints |-> 0]]
  /\ sends = {} /\ restarts = 0 /\ shown = {} /\ told = {} /\ cause = {} /\ unwritten = {}

Subscribed(f) == {e \in Endpoints : f[e] # None}

(* A subscription is forgotten, with its count, once nobody holds it.       *)
Counts(f) ==
  failures' = [s \in Subscriptions |->
                 IF subs'[s[1]] = s \/ \E m \in sends' : s \in m.waiting THEN f[s] ELSE 0]

(* The file is replaced at once, or not at all: a write that fails is only  *)
(* logged, and the answer is "ok" all the same.                             *)
Saved ==
  [key |-> key', subs |-> Subscribed(subs'),
   failures |-> [e \in Endpoints |-> IF subs'[e] = None THEN 0 ELSE failures'[subs'[e]]]]
Persist(new) ==
  \/ pushFile' = Saved /\ unwritten' = {}
  \/ UNCHANGED pushFile /\ unwritten' = unwritten \cup (new \ pushFile.subs)

-----------------------------------------------------------------------------
(* PushClient.subscribe(): the key is read, the browser subscribes, and the *)
(* server is told; each answer comes later.                                 *)
ReadKey(d) ==
  /\ client[d] = Idle
  /\ client' = [client EXCEPT ![d] = [does |-> "subscribe", key |-> key]]
  /\ UNCHANGED <<held, madeWith, sender, sends, restarts, shown, past>>

(* An endpoint made with another key is replaced.                           *)
HoldsFor(d, k) == \E e \in Endpoints : held[d] = e /\ madeWith[e] = k
BrowserSubscribes(d) ==
  /\ client[d].does = "subscribe"
  /\ \/ HoldsFor(d, client[d].key) /\ UNCHANGED <<held, madeWith>>
     \/ \E e \in Endpoints :
          /\ ~HoldsFor(d, client[d].key)
          /\ madeWith[e] = None /\ \A f \in 1..e - 1 : madeWith[f] # None
          /\ held' = [held EXCEPT ![d] = e]
          /\ madeWith' = [madeWith EXCEPT ![e] = client[d].key]
  /\ client' = [client EXCEPT ![d] = [does |-> "register", endpoint |-> held'[d]]]
  /\ UNCHANGED <<sender, sends, restarts, shown, past>>

(* PushSender.subscribe(): refused when the list is full.                   *)
Full(e) == subs[e] = None /\ Cardinality(Subscribed(subs)) >= MaxSubscriptions
Fresh(e) == CHOOSE s \in Subscriptions : s[1] = e /\ \A m \in sends : s \notin m.waiting
Register(d) ==
  /\ client[d].does = "register" /\ client' = [client EXCEPT ![d] = Idle]
  /\ UNCHANGED <<held, madeWith, key, sends, restarts, shown>>
  /\ LET e == client[d].endpoint IN
     \/ /\ ~Full(e)
        /\ subs' = [subs EXCEPT ![e] = Fresh(e)]
        /\ Counts([failures EXCEPT ![Fresh(e)] = 0])
        /\ told' = told \cup {e}
        /\ cause' = IF \E m \in sends : e \in m.gone THEN cause ELSE cause \ {e}
        /\ Persist({e})
     \/ /\ Full(e) /\ UNCHANGED <<subs, failures, pushFile, past>>

(* PushClient.unsubscribe(): first the browser, then the server, which may  *)
(* never hear of it.                                                        *)
BrowserUnsubscribes(d) ==
  /\ client[d] = Idle /\ held[d] # None
  /\ client' = [client EXCEPT ![d] = [does |-> "leave", endpoint |-> held[d]]]
  /\ held' = [held EXCEPT ![d] = None]
  /\ UNCHANGED <<madeWith, sender, sends, restarts, shown, past>>

Unsubscribe(d) ==
  /\ client[d].does = "leave" /\ client' = [client EXCEPT ![d] = Idle]
  /\ UNCHANGED <<held, madeWith, key, sends, restarts, shown, told>>
  /\ subs' = [subs EXCEPT ![client[d].endpoint] = None] /\ Counts(failures)
  /\ cause' = cause \cup {client[d].endpoint}
  /\ IF subs' # subs THEN Persist({}) ELSE UNCHANGED <<pushFile, unwritten>>

RequestLost(d) ==
  /\ client[d] # Idle /\ client' = [client EXCEPT ![d] = Idle]
  /\ UNCHANGED <<held, madeWith, sender, sends, restarts, shown, past>>

(* The user clears the site's data, or the browser drops the endpoint.      *)
BrowserForgets(d) ==
  /\ held[d] # None /\ held' = [held EXCEPT ![d] = None]
  /\ UNCHANGED <<client, madeWith, sender, sends, restarts, shown, past>>

-----------------------------------------------------------------------------
(* send(): one message to every subscription there is now.                  *)
Send ==
  /\ Subscribed(subs) # {} /\ Cardinality(sends) < MaxSends
  /\ \A s \in sends : s.waiting # {subs[e] : e \in Subscribed(subs)}
  /\ sends' = sends \cup {[waiting |-> {subs[e] : e \in Subscribed(subs)}, gone |-> {}, sent |-> FALSE]}
  /\ UNCHANGED <<held, client, madeWith, sender, restarts, shown, past>>

Alive(e)    == \E d \in Devices : held[d] = e
Accepted(e) == Alive(e) /\ madeWith[e] = key     \* the VAPID signature is checked

(* Counted no further than what makes a difference.                         *)
OneMore(s) == IF failures[s] > MaxFailures THEN failures[s] ELSE failures[s] + 1

(* Wrong on purpose: a network that fails counts against the subscription.  *)
OfflineCounts(s) ==
  [failures |-> OneMore(s), gone |-> OneMore(s) > MaxFailures, sent |-> FALSE]

(* The outcomes of _sendOne.                                                *)
Delivered(s)  == [failures |-> 0, gone |-> FALSE, sent |-> TRUE]
Gone(s)       == [failures |-> failures[s], gone |-> TRUE, sent |-> FALSE]
Refused(s)    == [failures |-> OneMore(s), gone |-> OneMore(s) > MaxFailures, sent |-> FALSE]
Offline(s)    == [failures |-> OneMore(s), gone |-> FALSE, sent |-> FALSE]
Unbuildable(s) == [failures |-> failures[s], gone |-> FALSE, sent |-> FALSE]

(* When the last has answered, those that are gone are forgotten, by their  *)
(* endpoint.                                                                *)
Answers(m, s, r) ==
  LET n == [m EXCEPT !.waiting = @ \ {s}, !.sent = @ \/ r.sent,
                     !.gone = IF r.gone THEN @ \cup {s[1]} ELSE @]
      last == n.waiting = {}
  IN /\ UNCHANGED <<held, client, madeWith, key, restarts, told>>
     /\ sends' = (sends \ {m}) \cup (IF last THEN {} ELSE {n})
     /\ subs' = IF last THEN [e \in Endpoints |-> IF e \in n.gone THEN None ELSE subs[e]] ELSE subs
     /\ Counts([failures EXCEPT ![s] = r.failures])
     /\ IF last /\ (n.gone # {} \/ n.sent) THEN Persist({}) ELSE UNCHANGED <<pushFile, unwritten>>

SendOne(m, s) ==
  \/ /\ Accepted(s[1]) /\ Answers(m, s, Delivered(s))
     /\ shown' = shown \cup {d \in Devices : held[d] = s[1]} /\ UNCHANGED cause
  \/ /\ ~Alive(s[1]) /\ Answers(m, s, Gone(s))
     /\ cause' = cause \cup {s[1]} /\ UNCHANGED shown
  \/ /\ Answers(m, s, Refused(s)) /\ cause' = cause \cup {s[1]} /\ UNCHANGED shown
  \/ /\ Answers(m, s, Offline(s)) /\ UNCHANGED <<shown, cause>>
  \/ /\ Answers(m, s, Unbuildable(s)) /\ UNCHANGED <<shown, cause>>

(* The service worker shows it; the user taps it, or swipes it away.        *)
Tap(d) ==
  /\ d \in shown /\ shown' = shown \ {d}
  /\ UNCHANGED <<held, client, madeWith, sender, sends, restarts, past>>

(* The server starts again. A file that cannot be read, or without usable   *)
(* keys, means new ones, and nobody subscribed.                             *)
Restart ==
  /\ restarts < MaxRestarts /\ restarts' = restarts + 1 /\ sends' = {}
  /\ \/ /\ key' = pushFile.key
        /\ subs' = [e \in Endpoints |-> IF e \in pushFile.subs THEN <<e, 1>> ELSE None]
        /\ Counts([s \in Subscriptions |-> pushFile.failures[s[1]]])
        /\ cause' = cause \cup unwritten /\ unwritten' = {}
        /\ UNCHANGED pushFile
     \/ /\ key' = restarts' + 1 /\ subs' = [e \in Endpoints |-> None]
        /\ failures' = [s \in Subscriptions |-> 0]
        /\ cause' = cause \cup told
        /\ Persist({})
  /\ UNCHANGED <<held, client, madeWith, shown, told>>

Next ==
  \/ \E d \in Devices : ReadKey(d) \/ BrowserSubscribes(d) \/ Register(d)
                        \/ BrowserUnsubscribes(d) \/ Unsubscribe(d) \/ RequestLost(d)
                        \/ BrowserForgets(d) \/ Tap(d)
  \/ Send \/ \E m \in sends : \E s \in m.waiting : SendOne(m, s)
  \/ Restart

Spec == Init /\ [][Next]_pvars

-----------------------------------------------------------------------------
(* Properties *)

(* A device that was told it is subscribed stays subscribed, in memory and  *)
(* on disk, across sends, restarts and writes that fail, unless it          *)
(* unsubscribed, the push service has refused it since or in a send under   *)
(* way, the server lost its keys, or restarted before any write had put it  *)
(* into the file. A network that is down is not the subscription's fault    *)
(* (comment in _sendOne).                                                   *)
ForgottenForCause ==
  \A e \in told \ cause :
    subs[e] # None /\ e \in pushFile.subs \cup unwritten
==============================================================================
