------------------------------ MODULE PageProofs ------------------------------
(***************************************************************************)
(* Proofs about four views of the page that hear of the server by frames and*)
(* replies in whatever order they come: the approval cards (ClientApprovals),*)
(* the race screen (RaceView), the notifications (Notifications) and the first*)
(* screen (Launcher).                                                       *)
(*                                                                          *)
(* Of the cards, what a page has still to read decides: of each request the *)
(* last frame under way tells the truth, and a request on which the list is *)
(* wrong, or an answer not older than what was read, has a frame under way. *)
(***************************************************************************)
EXTENDS RaceView, Sequences, FiniteSetTheorems, TLAPS

CONSTANTS
  Requests, Rules, Gets, MaxBreaks, MaxPresses, Sessions, MaxWaiting, Folders,
  Home, Books, MaxAgents, MaxSessions, MaxInputs

VARIABLES
  asked, open, rules, version, link, down, decisions, get, list, known,
  submitting, resolved, revoked, breaks, presses, read, overtaken, status,
  pending, answered, lastStatus, seenApprovals, permission, prompt, enabled,
  focus, disk, sessions, up, queue, view, told, others

Cards == INSTANCE ClientApprovals
Notes == INSTANCE Notifications
Desk  == INSTANCE Launcher

Told   == [t : {"request", "resolved"}, id : Requests, ver : Nat]
Readies == [t : {"ready"}, ver : Nat, pending : SUBSET Requests, rules : SUBSET Rules]
Gotten == [state : {"idle", "asked", "answered"}, ver : Nat, pending : SUBSET Requests,
           rules : SUBSET Rules]

CardsTypeOK ==
  /\ open \subseteq Requests /\ rules \subseteq Rules /\ version \in Nat
  /\ link \in {"down", "open", "ready"} /\ down \in Seq(Told \cup Readies)
  /\ get \in [Gets -> Gotten]
  /\ list \subseteq Requests /\ read \in Nat /\ overtaken \in BOOLEAN

(* The store drops a request before the view remembers it as resolved.      *)
NothingHidden == resolved = {}

(* READY is the first frame of a link, and the only one.                    *)
ReadyFirst ==
  /\ link = "down" => down = <<>>
  /\ link = "open" => down # <<>> /\ down[1].t = "ready"
  /\ \A i \in DOMAIN down : down[i].t = "ready" => link = "open" /\ i = 1

(* News come in the order they happened.                                    *)
Since == IF link = "open" THEN down[1].ver ELSE read
InOrder ==
  /\ read <= version
  /\ \A i \in DOMAIN down : read <= down[i].ver /\ down[i].ver <= version
  /\ \A i, j \in DOMAIN down : i < j => down[i].ver <= down[j].ver

About(f, r) == f.t = "ready" \/ f.id = r
Says(f, r)  == IF f.t = "ready" THEN r \in f.pending ELSE f.t = "request"

(* The last frame about a request is right.                                 *)
LastIsTrue ==
  \A r \in Requests : \A i \in DOMAIN down :
    About(down[i], r) /\ (\A j \in DOMAIN down : j > i => ~About(down[j], r))
    => (Says(down[i], r) <=> r \in open)

(* Where the list is wrong, a frame under way will put it right.            *)
ListCatchesUp ==
  link = "ready" /\ ~overtaken =>
    \A r \in Requests : (r \in list <=> r \in open)
                        \/ \E i \in DOMAIN down : down[i].id = r

(* And so it will where an answer is wrong that is not overtaken.           *)
AnswersCatchUp ==
  \A g \in Gets : get[g].state = "answered" =>
    /\ get[g].ver <= version
    /\ get[g].ver = version => get[g].pending = open
    /\ link # "down" /\ get[g].ver >= Since =>
         \A r \in Requests : (r \in get[g].pending <=> r \in open)
           \/ \E i \in DOMAIN down :
                down[i].t # "ready" /\ down[i].id = r /\ down[i].ver > get[g].ver

CardsInv == /\ CardsTypeOK /\ NothingHidden /\ ReadyFirst /\ InOrder
       /\ LastIsTrue /\ ListCatchesUp /\ AnswersCatchUp

-----------------------------------------------------------------------------
(* Something happens to a request at the server, and the page is told.      *)
Happens(r, kind) ==
  /\ r \in Requests /\ kind \in {"request", "resolved"}
  /\ open' \subseteq Requests /\ (r \in open' <=> kind = "request")
  /\ \A q \in Requests \ {r} : q \in open' <=> q \in open
  /\ rules' \subseteq Rules
  /\ version' = version + 1 /\ Cards!Broadcast(kind, r)
  /\ resolved' = {} /\ UNCHANGED <<link, get, list, read, overtaken>>

LEMMA HappensUp ==
  ASSUME CardsInv, NEW r, NEW kind, Happens(r, kind), link # "down"
  PROVE  LET n == Len(down) + 1 IN
         /\ n \in Nat /\ n > Len(down) /\ down' \in Seq(Told \cup Readies)
         /\ DOMAIN down = 1..Len(down) /\ DOMAIN down' = 1..n
         /\ \A i \in DOMAIN down : down'[i] = down[i]
         /\ down'[n].t = kind /\ down'[n].id = r /\ down'[n].ver = version + 1
<1> DEFINE f == [t |-> kind, id |-> r, ver |-> version + 1]
<1>1. f \in Told /\ f.t = kind /\ f.id = r /\ f.ver = version + 1
  BY DEF Told, Happens, CardsInv, CardsTypeOK
<1>2. down' = Append(down, f)
  BY DEF Happens, Cards!Broadcast
<1> HIDE DEF f
<1> QED
  BY <1>1, <1>2 DEF CardsInv, CardsTypeOK

LEMMA FramesTyped ==
  ASSUME CardsTypeOK, NEW i \in DOMAIN down
  PROVE  down[i] \in Told \cup Readies /\ down[i].ver \in Nat
<1>1. down[i] \in Told \cup Readies
  BY DEF CardsTypeOK
<1> QED
  BY <1>1 DEF Told, Readies

LEMMA HappensInv ==
  ASSUME CardsInv, NEW r, NEW kind, Happens(r, kind)
  PROVE  CardsInv'
<1>1. CASE link = "down"
  <2>1. down' = <<>> /\ down = <<>>
    BY <1>1 DEF Happens, Cards!Broadcast, CardsInv, ReadyFirst
  <2>2. CardsTypeOK' /\ NothingHidden' /\ ReadyFirst' /\ InOrder' /\ LastIsTrue' /\ ListCatchesUp'
    BY <1>1, <2>1
      DEF Happens, CardsInv, CardsTypeOK, NothingHidden, ReadyFirst, InOrder, LastIsTrue,
       ListCatchesUp
  <2>3. AnswersCatchUp'
    BY <1>1, <2>1 DEF Happens, CardsInv, CardsTypeOK, AnswersCatchUp, Gotten
  <2> QED
    BY <2>2, <2>3 DEF CardsInv
<1>2. CASE link # "down"
  <2> DEFINE n == Len(down) + 1
  <2>1. /\ n \in Nat /\ n = Len(down) + 1 /\ down' \in Seq(Told \cup Readies)
        /\ DOMAIN down = 1..Len(down) /\ DOMAIN down' = 1..n
        /\ \A i \in DOMAIN down : down'[i] = down[i]
        /\ down'[n].t = kind /\ down'[n].id = r /\ down'[n].ver = version + 1
        /\ Len(down) \in Nat
    BY <1>2, HappensUp DEF CardsInv, CardsTypeOK
  <2>2. /\ r \in Requests /\ kind \in {"request", "resolved"}
        /\ open' \subseteq Requests /\ (r \in open' <=> kind = "request")
        /\ \A q \in Requests \ {r} : q \in open' <=> q \in open
        /\ rules' \subseteq Rules
        /\ version' = version + 1 /\ version \in Nat /\ read \in Nat
        /\ resolved' = {} /\ UNCHANGED <<link, get, list, read, overtaken>>
    BY DEF Happens, CardsInv, CardsTypeOK
  <2> HIDE DEF n
  <2>3. CardsTypeOK' /\ NothingHidden'
    <3>1. version' \in Nat
      BY <2>2
    <3> QED
      BY <2>1, <2>2, <3>1 DEF CardsInv, CardsTypeOK, NothingHidden
  <2>4. ReadyFirst'
    BY <1>2, <2>1, <2>2 DEF CardsInv, ReadyFirst
  <2>5. \A i \in DOMAIN down : down[i].ver \in Nat
    BY FramesTyped DEF CardsInv
  <2>6. InOrder'
    BY <2>1, <2>2, <2>5 DEF CardsInv, InOrder
  <2>7. LastIsTrue'
    <3>1. SUFFICES ASSUME NEW q \in Requests, NEW i \in DOMAIN down', About(down'[i], q),
                          \A j \in DOMAIN down' : j > i => ~About(down'[j], q)
                   PROVE  Says(down'[i], q) <=> q \in open'
      BY DEF LastIsTrue
    <3>2. CASE i = n
      <4>1. q = r
        BY <2>1, <2>2, <3>1, <3>2 DEF About
      <4> QED
        BY <2>1, <2>2, <3>2, <4>1 DEF Says
    <3>3. CASE i # n
      <4>1. i \in DOMAIN down /\ down'[i] = down[i] /\ q # r
        BY <2>1, <2>2, <3>1, <3>3 DEF About
      <4>2. \A j \in DOMAIN down : j > i => ~About(down[j], q)
        BY <2>1, <3>1
      <4> QED
        BY <2>2, <3>1, <4>1, <4>2 DEF CardsInv, LastIsTrue
    <3> QED
      BY <3>2, <3>3
  <2>8. ListCatchesUp'
    BY <2>1, <2>2 DEF CardsInv, ListCatchesUp
  <2>9. Since' = Since
    BY <1>2, <2>1, <2>2 DEF Since, CardsInv, ReadyFirst
  <2>10. AnswersCatchUp'
    <3>1. SUFFICES ASSUME NEW g \in Gets, get[g].state = "answered"
                   PROVE  /\ get[g].ver <= version + 1
                          /\ get[g].ver # version + 1
                          /\ get[g].ver >= Since =>
                               \A q \in Requests : (q \in get[g].pending <=> q \in open')
                                 \/ \E i \in DOMAIN down' :
                                      down'[i].t # "ready" /\ down'[i].id = q
                                      /\ down'[i].ver > get[g].ver
      BY <2>2, <2>9 DEF AnswersCatchUp
    <3>2. get[g].ver \in Nat /\ get[g].ver <= version
      BY <3>1 DEF CardsInv, CardsTypeOK, Gotten, AnswersCatchUp
    <3>3. ASSUME get[g].ver >= Since, NEW q \in Requests
          PROVE  (q \in get[g].pending <=> q \in open')
                   \/ \E i \in DOMAIN down' :
                        down'[i].t # "ready" /\ down'[i].id = q /\ down'[i].ver > get[g].ver
      <4>1. CASE q = r
        BY <2>1, <2>2, <3>2, <4>1
      <4>2. CASE q # r
        <5>1. (q \in get[g].pending <=> q \in open)
                \/ \E i \in DOMAIN down :
                     down[i].t # "ready" /\ down[i].id = q /\ down[i].ver > get[g].ver
          BY <1>2, <3>1, <3>3 DEF CardsInv, AnswersCatchUp
        <5> QED
          BY <2>1, <2>2, <4>2, <5>1
      <4> QED
        BY <4>1, <4>2
    <3> QED
      BY <2>2, <3>2, <3>3
  <2> QED
    BY <2>3, <2>4, <2>6, <2>7, <2>8, <2>10 DEF CardsInv
<1> QED
  BY <1>1, <1>2

-----------------------------------------------------------------------------
(* Nothing happens to the queue, the link or the list: an answer may come.   *)
Rests ==
  /\ UNCHANGED <<open, version, link, down, list, read, overtaken>>
  /\ resolved' = {} /\ rules' \subseteq Rules
  /\ get' \in [Gets -> Gotten]
  /\ \A g \in Gets : get'[g].state = "answered" => get'[g] \in {get[g], Cards!Answer}

LEMMA RestsInv ==
  ASSUME CardsInv, Rests
  PROVE  CardsInv'
<1>1. CardsTypeOK' /\ NothingHidden' /\ ReadyFirst' /\ InOrder' /\ LastIsTrue' /\ ListCatchesUp'
  BY
    DEF Rests, CardsInv, CardsTypeOK, NothingHidden, ReadyFirst, InOrder, LastIsTrue, ListCatchesUp
<1>2. Since' = Since
  BY DEF Rests, Since
<1>3. AnswersCatchUp'
  <2>1. SUFFICES ASSUME NEW g \in Gets, get'[g].state = "answered"
                 PROVE  /\ get'[g].ver <= version
                        /\ get'[g].ver = version => get'[g].pending = open
                        /\ link # "down" /\ get'[g].ver >= Since =>
                             \A r \in Requests : (r \in get'[g].pending <=> r \in open)
                               \/ \E i \in DOMAIN down :
                                    down[i].t # "ready" /\ down[i].id = r
                                    /\ down[i].ver > get'[g].ver
    BY <1>2 DEF AnswersCatchUp, Rests
  <2>2. CASE get'[g] = Cards!Answer
    <3>1. get'[g].ver = version /\ get'[g].pending = open
      BY <2>2 DEF Cards!Answer
    <3> QED
      BY <3>1 DEF CardsInv, CardsTypeOK
  <2>3. CASE get'[g] = get[g]
    BY <2>1, <2>3 DEF CardsInv, AnswersCatchUp
  <2> QED
    BY <2>1, <2>2, <2>3 DEF Rests
<1> QED
  BY <1>1, <1>3 DEF CardsInv

LEMMA AnswerTyped ==
  ASSUME CardsTypeOK
  PROVE  Cards!Idle \in Gotten /\ Cards!Answer \in Gotten /\ Cards!Idle.state = "idle"
BY DEF CardsTypeOK, Cards!Idle, Cards!Answer, Gotten

LEMMA AskUp ==
  ASSUME CardsTypeOK, Cards!Ask
  PROVE  /\ get' \in [Gets -> Gotten]
         /\ \A g \in Gets : get'[g].state = "answered" => get'[g] = get[g]
<1>1. PICK g \in Gets : get' = [get EXCEPT ![g].state = "asked"]
  BY DEF Cards!Ask
<1>2. get[g] \in Gotten /\ get'[g] = [get[g] EXCEPT !.state = "asked"]
  BY <1>1 DEF CardsTypeOK
<1>3. get'[g] \in Gotten /\ get'[g].state = "asked"
  BY <1>2 DEF Gotten
<1>4. \A h \in Gets \ {g} : get'[h] = get[h]
  BY <1>1 DEF CardsTypeOK
<1>5. get' = [h \in Gets |-> get'[h]]
  BY <1>1 DEF CardsTypeOK
<1>6. \A h \in Gets : get'[h] \in Gotten
  BY <1>3, <1>4 DEF CardsTypeOK
<1> QED
  BY <1>3, <1>4, <1>5, <1>6

LEMMA SetUp ==
  ASSUME CardsTypeOK, NEW g \in Gets, NEW a \in Gotten, get' = [get EXCEPT ![g] = a]
  PROVE  /\ get' \in [Gets -> Gotten] /\ get'[g] = a
         /\ \A h \in Gets \ {g} : get'[h] = get[h]
BY DEF CardsTypeOK

-----------------------------------------------------------------------------
(* A frame is read.                                                         *)
LEMMA TailUp ==
  ASSUME CardsTypeOK, down # <<>>, down' = Tail(down)
  PROVE  /\ Len(down) \in Nat \ {0} /\ DOMAIN down = 1..Len(down) /\ 1 \in DOMAIN down
         /\ Head(down) = down[1] /\ down' \in Seq(Told \cup Readies)
         /\ DOMAIN down' = 1..(Len(down) - 1)
         /\ \A i \in DOMAIN down' : i + 1 \in DOMAIN down /\ down'[i] = down[i + 1]
         /\ \A i \in DOMAIN down : i # 1 => i - 1 \in DOMAIN down' /\ down'[i - 1] = down[i]
<1>1. /\ down \in Seq(Told \cup Readies) /\ Len(down) \in Nat \ {0}
      /\ DOMAIN down = 1..Len(down) /\ Head(down) = down[1]
  BY DEF CardsTypeOK
<1>2. /\ down' \in Seq(Told \cup Readies) /\ Len(down') = Len(down) - 1
      /\ DOMAIN down' = 1..(Len(down) - 1)
  BY <1>1
<1>3. \A i \in 1..(Len(down) - 1) : down'[i] = down[i + 1]
  BY <1>1
<1> QED
  BY <1>1, <1>2, <1>3

LEMMA ReadInv ==
  ASSUME CardsInv, Cards!Read
  PROVE  CardsInv'
<1> DEFINE m == down[1]
<1>1. /\ Len(down) \in Nat \ {0} /\ DOMAIN down = 1..Len(down) /\ 1 \in DOMAIN down
      /\ Head(down) = m /\ down' \in Seq(Told \cup Readies)
      /\ DOMAIN down' = 1..(Len(down) - 1)
      /\ \A i \in DOMAIN down' : i + 1 \in DOMAIN down /\ down'[i] = down[i + 1]
      /\ \A i \in DOMAIN down : i # 1 => i - 1 \in DOMAIN down' /\ down'[i - 1] = down[i]
  BY TailUp DEF CardsInv, Cards!Read
<1>2. m \in Told \cup Readies /\ m.ver \in Nat
  BY <1>1, FramesTyped DEF CardsInv
<1>3. /\ UNCHANGED <<open, version, rules>> /\ read' = m.ver
      /\ link' = IF m.t = "ready" THEN "ready" ELSE link
      /\ overtaken' = IF m.t = "ready" THEN FALSE ELSE overtaken
  BY <1>1 DEF Cards!Read, Cards!queue
<1>4. /\ get' \in [Gets -> Gotten]
      /\ \A g \in Gets : get'[g].state = "answered" => get'[g] = get[g]
  BY AskUp DEF Cards!Read, CardsInv, CardsTypeOK
<1>5. /\ list' = IF m.t = "ready" THEN m.pending
                 ELSE IF m.t = "request" THEN list \cup {m.id} ELSE list \ {m.id}
      /\ m.t \in {"ready", "request", "resolved"}
  BY <1>1 DEF Cards!Read, Cards!ReadRequest, Cards!ReadResolved, Cards!ReadReady, Cards!Render
<1>6. m.t = "ready" => m \in Readies
  BY <1>2 DEF Told
<1>7. m.t # "ready" => m \in Told
  BY <1>2 DEF Readies
<1>8. resolved' = {}
  BY <1>1
    DEF Cards!Read, Cards!ReadRequest, Cards!ReadResolved, Cards!ReadReady, Cards!Render, CardsInv, NothingHidden
<1>9. /\ link # "down"
      /\ m.t = "ready" <=> link = "open"
      /\ \A i \in DOMAIN down : i # 1 => down[i].t # "ready"
      /\ link \in {"down", "open", "ready"}
  BY <1>1 DEF CardsInv, CardsTypeOK, ReadyFirst, Cards!Read
<1>10. /\ read <= m.ver /\ m.ver <= version /\ read \in Nat /\ version \in Nat
       /\ \A i \in DOMAIN down : m.ver <= down[i].ver /\ down[i].ver <= version
                                 /\ down[i].ver \in Nat
  <2>1. \A i \in DOMAIN down : down[i].ver \in Nat
    BY FramesTyped DEF CardsInv
  <2> QED
    BY <1>1, <2>1 DEF CardsInv, InOrder, CardsTypeOK
<1>11. Since >= read /\ Since <= m.ver /\ Since \in Nat /\ Since' = m.ver
  BY <1>2, <1>3, <1>9, <1>10 DEF Since
<1> HIDE DEF m
<1>12. CardsTypeOK' /\ NothingHidden'
  <2>1. list' \subseteq Requests
    BY <1>5, <1>6, <1>7 DEF CardsInv, CardsTypeOK, Told, Readies
  <2>2. link' \in {"down", "open", "ready"} /\ overtaken' \in BOOLEAN
    BY <1>3 DEF CardsInv, CardsTypeOK
  <2> QED
    BY <1>1, <1>2, <1>3, <1>4, <1>8, <2>1, <2>2 DEF CardsInv, CardsTypeOK, NothingHidden
<1>13. ReadyFirst'
  <2>1. link' = "ready"
    BY <1>3, <1>9
  <2>2. \A i \in DOMAIN down' : down'[i].t # "ready"
    BY <1>1, <1>9
  <2> QED
    BY <2>1, <2>2 DEF ReadyFirst
<1>14. InOrder'
  <2>1. read' <= version'
    BY <1>3, <1>10
  <2>2. \A i \in DOMAIN down' : read' <= down'[i].ver /\ down'[i].ver <= version'
    BY <1>1, <1>3, <1>10
  <2>3. ASSUME NEW i \in DOMAIN down', NEW j \in DOMAIN down', i < j
        PROVE  down'[i].ver <= down'[j].ver
    <3>1. i + 1 \in DOMAIN down /\ j + 1 \in DOMAIN down /\ i + 1 < j + 1
      BY <1>1, <2>3
    <3>2. down[i + 1].ver <= down[j + 1].ver
      BY <3>1 DEF CardsInv, InOrder
    <3> QED
      BY <1>1, <3>2
  <2> QED
    BY <2>1, <2>2, <2>3 DEF InOrder
<1>15. LastIsTrue'
  <2>1. SUFFICES ASSUME NEW q \in Requests, NEW i \in DOMAIN down', About(down'[i], q),
                        \A j \in DOMAIN down' : j > i => ~About(down'[j], q)
                 PROVE  Says(down'[i], q) <=> q \in open
    BY <1>3 DEF LastIsTrue
  <2>2. i + 1 \in DOMAIN down /\ down'[i] = down[i + 1] /\ i \in Nat
    BY <1>1
  <2>3. ASSUME NEW j \in DOMAIN down, j > i + 1
        PROVE  ~About(down[j], q)
    <3>1. j - 1 \in DOMAIN down' /\ down'[j - 1] = down[j] /\ j - 1 > i
      BY <1>1, <2>2, <2>3
    <3> QED
      BY <2>1, <3>1
  <2> QED
    BY <2>1, <2>2, <2>3 DEF CardsInv, LastIsTrue
<1>16. ListCatchesUp'
  <2>1. SUFFICES ASSUME ~overtaken', NEW q \in Requests,
                        \A i \in DOMAIN down : i # 1 => down[i].id # q
                 PROVE  q \in list' <=> q \in open
    <3>1. ASSUME NEW q, NEW i \in DOMAIN down, i # 1, down[i].id = q
          PROVE  \E k \in DOMAIN down' : down'[k].id = q
      BY <1>1, <3>1
    <3> QED
      BY <1>3, <3>1 DEF ListCatchesUp
  <2>2. \A j \in DOMAIN down : j > 1 => ~About(down[j], q)
    BY <1>9, <2>1 DEF About
  <2>3. CASE About(m, q)
    <3>1. Says(m, q) <=> q \in open
      BY <1>1, <2>2, <2>3 DEF CardsInv, LastIsTrue, m
    <3> QED
      BY <1>5, <2>3, <3>1 DEF About, Says
  <2>4. CASE ~About(m, q)
    <3>1. m.t # "ready" /\ m.id # q
      BY <2>4 DEF About
    <3>2. q \in list' <=> q \in list
      BY <1>5, <3>1
    <3>3. link = "ready" /\ ~overtaken
      BY <1>3, <1>9, <2>1, <3>1
    <3>4. \A i \in DOMAIN down : down[i].id # q
      BY <2>1, <3>1 DEF m
    <3> QED
      BY <3>2, <3>3, <3>4 DEF CardsInv, ListCatchesUp
  <2> QED
    BY <2>3, <2>4
<1>17. AnswersCatchUp'
  <2>1. SUFFICES ASSUME NEW g \in Gets, get[g].state = "answered", get'[g] = get[g]
                 PROVE  /\ get[g].ver <= version
                        /\ get[g].ver = version => get[g].pending = open
                        /\ get[g].ver >= m.ver =>
                             \A r \in Requests : (r \in get[g].pending <=> r \in open)
                               \/ \E i \in DOMAIN down' :
                                    down'[i].t # "ready" /\ down'[i].id = r
                                    /\ down'[i].ver > get[g].ver
    BY <1>3, <1>4, <1>11 DEF AnswersCatchUp
  <2>2. get[g].ver \in Nat
    BY DEF CardsInv, CardsTypeOK, Gotten
  <2>3. ASSUME get[g].ver >= m.ver, NEW r \in Requests, ~(r \in get[g].pending <=> r \in open)
        PROVE  \E i \in DOMAIN down' :
                 down'[i].t # "ready" /\ down'[i].id = r /\ down'[i].ver > get[g].ver
    <3>1. get[g].ver >= Since
      BY <1>2, <1>11, <2>2, <2>3
    <3>2. PICK i \in DOMAIN down :
            down[i].t # "ready" /\ down[i].id = r /\ down[i].ver > get[g].ver
      BY <1>9, <2>1, <2>3, <3>1 DEF CardsInv, AnswersCatchUp
    <3>3. i # 1
      BY <1>2, <2>2, <2>3, <3>2 DEF m
    <3> QED
      BY <1>1, <3>2, <3>3
  <2> QED
    BY <2>1, <2>3 DEF CardsInv, AnswersCatchUp
<1> QED
  BY <1>12, <1>13, <1>14, <1>15, <1>16, <1>17 DEF CardsInv

-----------------------------------------------------------------------------
(* A list is taken: one that is not overtaken is as good as the frames.      *)
LEMMA ReadListInv ==
  ASSUME CardsInv, NEW g \in Gets, Cards!ReadList(g)
  PROVE  CardsInv'
<1>1. /\ get[g].state = "answered" /\ get' = [get EXCEPT ![g] = Cards!Idle]
      /\ list' = get[g].pending /\ overtaken' = (get[g].ver < read)
      /\ resolved' = {}
      /\ UNCHANGED <<open, rules, version, link, down, read>>
  BY DEF Cards!ReadList, Cards!Render, Cards!queue, CardsInv, NothingHidden
<1>2. get[g] \in Gotten
  BY DEF CardsInv, CardsTypeOK
<1>3. /\ get' \in [Gets -> Gotten]
      /\ \A h \in Gets : get'[h].state = "answered" => get'[h] = get[h]
  BY <1>1, AnswerTyped, SetUp DEF CardsInv
<1>4. CardsTypeOK' /\ NothingHidden' /\ ReadyFirst' /\ InOrder' /\ LastIsTrue'
  <2>1. get[g].pending \subseteq Requests
    BY <1>2 DEF Gotten
  <2> QED
    BY <1>1, <1>3, <2>1
      DEF CardsInv, CardsTypeOK, NothingHidden, ReadyFirst, InOrder, LastIsTrue
<1>5. ListCatchesUp'
  <2>1. SUFFICES ASSUME link = "ready", ~(get[g].ver < read), NEW q \in Requests
                 PROVE  (q \in get[g].pending <=> q \in open)
                        \/ \E i \in DOMAIN down : down[i].id = q
    BY <1>1 DEF ListCatchesUp
  <2>2. get[g].ver >= Since
    BY <1>2, <2>1 DEF Since, Gotten, CardsInv, CardsTypeOK
  <2> QED
    BY <1>1, <2>1, <2>2 DEF CardsInv, AnswersCatchUp
<1>6. AnswersCatchUp'
  <2>1. Since' = Since
    BY <1>1 DEF Since
  <2> QED
    BY <1>1, <1>3, <2>1 DEF CardsInv, AnswersCatchUp
<1> QED
  BY <1>4, <1>5, <1>6 DEF CardsInv

-----------------------------------------------------------------------------
(* The link.                                                                *)
LEMMA BreaksInv ==
  ASSUME CardsInv, Cards!Breaks
  PROVE  CardsInv'
<1>1. /\ link' = "down" /\ down' = <<>> /\ resolved' = {}
      /\ UNCHANGED <<open, rules, version, get, list, read, overtaken>>
  BY DEF Cards!Breaks, Cards!queue, Cards!cards, CardsInv, NothingHidden
<1> QED
  BY <1>1
    DEF CardsInv, CardsTypeOK, NothingHidden, ReadyFirst, InOrder, LastIsTrue, ListCatchesUp,
     AnswersCatchUp

LEMMA ConnectsInv ==
  ASSUME CardsInv, Cards!Connects
  PROVE  CardsInv'
<1> DEFINE m == [t |-> "ready", ver |-> version, pending |-> open, rules |-> rules]
<1>1. /\ link' = "open" /\ down' = <<m>> /\ resolved' = {}
      /\ UNCHANGED <<open, rules, version, get, list, read, overtaken>>
  BY DEF Cards!Connects, Cards!queue, Cards!cards, CardsInv, NothingHidden
<1>2. m \in Readies /\ m.t = "ready" /\ m.ver = version /\ m.pending = open
  BY DEF Readies, CardsInv, CardsTypeOK
<1> HIDE DEF m
<1>3. down' \in Seq(Told \cup Readies) /\ DOMAIN down' = {1} /\ down'[1] = m /\ down' # <<>>
  BY <1>1, <1>2
<1>4. CardsTypeOK' /\ NothingHidden'
  BY <1>1, <1>3 DEF CardsInv, CardsTypeOK, NothingHidden
<1>5. ReadyFirst' /\ ListCatchesUp'
  BY <1>1, <1>2, <1>3 DEF ReadyFirst, ListCatchesUp
<1>6. InOrder'
  BY <1>1, <1>2, <1>3 DEF CardsInv, InOrder, CardsTypeOK
<1>7. LastIsTrue'
  BY <1>1, <1>2, <1>3 DEF LastIsTrue, Says
<1>8. AnswersCatchUp'
  <2>1. Since' = version
    BY <1>1, <1>2, <1>3 DEF Since
  <2>2. SUFFICES ASSUME NEW g \in Gets, get[g].state = "answered"
                 PROVE  /\ get[g].ver <= version
                        /\ get[g].ver = version => get[g].pending = open
                        /\ get[g].ver >= version => get[g].pending = open
    BY <1>1, <2>1 DEF AnswersCatchUp
  <2>3. get[g].ver \in Nat /\ version \in Nat
    BY DEF CardsInv, CardsTypeOK, Gotten
  <2> QED
    BY <2>2, <2>3 DEF CardsInv, AnswersCatchUp
<1> QED
  BY <1>4, <1>5, <1>6, <1>7, <1>8 DEF CardsInv

-----------------------------------------------------------------------------
LEMMA CardsInitInv == Cards!Init => CardsInv
<1> SUFFICES ASSUME Cards!Init PROVE CardsInv
  OBVIOUS
<1>1. Cards!Idle \in Gotten /\ Cards!Idle.state # "answered"
  BY DEF Cards!Idle, Gotten
<1>2. get \in [Gets -> Gotten] /\ \A g \in Gets : get[g].state # "answered"
  BY <1>1 DEF Cards!Init
<1>3. down = <<>> /\ down \in Seq(Told \cup Readies)
  BY DEF Cards!Init
<1>4. DOMAIN down = {}
  BY <1>3
<1>5. CardsTypeOK /\ NothingHidden
  BY <1>2, <1>3 DEF Cards!Init, CardsTypeOK, NothingHidden
<1>6. ReadyFirst /\ LastIsTrue /\ ListCatchesUp
  BY <1>3, <1>4 DEF Cards!Init, ReadyFirst, LastIsTrue, ListCatchesUp
<1>7. InOrder
  BY <1>4 DEF Cards!Init, InOrder
<1>8. AnswersCatchUp
  BY <1>2 DEF AnswersCatchUp
<1> QED
  BY <1>5, <1>6, <1>7, <1>8 DEF CardsInv

LEMMA CardsNextInv == CardsInv /\ [Cards!Next]_Cards!avars => CardsInv'
<1> SUFFICES ASSUME CardsInv, [Cards!Next]_Cards!avars PROVE CardsInv'
  OBVIOUS
<1> USE DEF CardsInv
<1>1. ASSUME NEW r \in Requests, Cards!Request(r) PROVE CardsInv'
  <2>1. Happens(r, "request")
    BY <1>1 DEF Cards!Request, Happens, Cards!cards, CardsTypeOK, NothingHidden
  <2> QED
    BY <2>1, HappensInv
<1>2. ASSUME NEW r \in Requests, Cards!Settles(r) PROVE CardsInv'
  <2>1. Happens(r, "resolved")
    BY <1>2 DEF Cards!Settles, Happens, Cards!cards, CardsTypeOK, NothingHidden
  <2> QED
    BY <2>1, HappensInv
<1>3. CASE Cards!Decide
  <2>1. CASE Head(decisions).id \in open
    <3>1. rules' \subseteq Rules
      BY <1>3, <2>1 DEF Cards!Decide, CardsTypeOK
    <3>2. Happens(Head(decisions).id, "resolved")
      BY <1>3, <2>1, <3>1 DEF Cards!Decide, Happens, Cards!cards, CardsTypeOK, NothingHidden
    <3> QED
      BY <3>2, HappensInv
  <2>2. CASE Head(decisions).id \notin open
    <3>1. Rests
      BY <1>3, <2>2 DEF Cards!Decide, Rests, Cards!cards, CardsTypeOK, NothingHidden
    <3> QED
      BY <3>1, RestsInv
  <2> QED
    BY <2>1, <2>2
<1>4. ASSUME NEW g \in Gets, Cards!Answers(g) PROVE CardsInv'
  <2>1. PICK a \in {Cards!Answer, Cards!Idle} : get' = [get EXCEPT ![g] = a]
    BY <1>4 DEF Cards!Answers
  <2>2. /\ get' \in [Gets -> Gotten] /\ get'[g] = a
        /\ \A h \in Gets \ {g} : get'[h] = get[h]
    BY <2>1, AnswerTyped, SetUp
  <2>3. \A h \in Gets : get'[h].state = "answered" => get'[h] \in {get[h], Cards!Answer}
    BY <2>1, <2>2, AnswerTyped
  <2>4. Rests
    BY <1>4, <2>2, <2>3
      DEF Cards!Answers, Rests, Cards!queue, Cards!cards, CardsTypeOK, NothingHidden
  <2> QED
    BY <2>4, RestsInv
<1>5. ASSUME NEW g \in Gets, Cards!ReadList(g) PROVE CardsInv'
  BY <1>5, ReadListInv
<1>6. CASE Cards!Poll
  <2>1. Rests
    BY <1>6, AskUp DEF Cards!Poll, Rests, Cards!queue, Cards!cards, CardsTypeOK, NothingHidden
  <2> QED
    BY <2>1, RestsInv
<1>7. CASE Cards!Breaks
  BY <1>7, BreaksInv
<1>8. CASE Cards!Connects
  BY <1>8, ConnectsInv
<1>9. CASE Cards!Read
  BY <1>9, ReadInv
<1>10. ASSUME NEW r \in Requests, NEW always \in BOOLEAN, Cards!Press(r, always) PROVE CardsInv'
  <2>1. Rests
    BY <1>10 DEF Cards!Press, Cards!Render, Rests, Cards!queue, CardsTypeOK, NothingHidden
  <2> QED
    BY <2>1, RestsInv
<1>11. CASE Cards!Watchdog
  <2>1. Rests
    BY <1>11
      DEF Cards!Watchdog, Cards!Render, Rests, Cards!queue, Cards!wire, CardsTypeOK, NothingHidden
  <2> QED
    BY <2>1, RestsInv
<1>12. ASSUME NEW u \in Rules, Cards!RevokeRule(u) PROVE CardsInv'
  <2>1. Rests
    BY <1>12 DEF Cards!RevokeRule, Cards!Render, Rests, Cards!wire, CardsTypeOK, NothingHidden
  <2> QED
    BY <2>1, RestsInv
<1>13. CASE UNCHANGED Cards!avars
  <2>1. Rests
    BY <1>13
      DEF Cards!avars, Rests, Cards!queue, Cards!wire, Cards!cards, CardsTypeOK, NothingHidden
  <2> QED
    BY <2>1, RestsInv
<1> QED
  BY <1>1, <1>2, <1>3, <1>4, <1>5, <1>6, <1>7, <1>8, <1>9, <1>10, <1>11, <1>12, <1>13
    DEF Cards!Next

(* The cards of a page are the requests that wait at the server once all    *)
(* that is under way has been read, and no list older than it came last.     *)
THEOREM CardsAreRight == Cards!Spec => []Cards!CardsAreTheQueue
<1>1. CardsInv => Cards!CardsAreTheQueue
  <2>1. SUFFICES ASSUME CardsInv, link = "ready", down = <<>>, ~overtaken
                 PROVE  Cards!Shown = open
    BY DEF Cards!CardsAreTheQueue
  <2>2. \A r \in Requests : r \in list <=> r \in open
    BY <2>1 DEF CardsInv, ListCatchesUp
  <2> QED
    BY <2>1, <2>2 DEF Cards!Shown, CardsInv, CardsTypeOK, NothingHidden
<1> QED
  BY CardsInitInv, CardsNextInv, <1>1, PTL DEF Cards!Spec

-----------------------------------------------------------------------------
Kinds == {"adopt", "discard"}
Buttons == Ops \cup {"none"}
Screens == [races : SUBSET Races, live : SUBSET Races, selected : Races \cup {None},
            detail : Races \cup {None}, loading : BOOLEAN, busy : BOOLEAN,
            confirm : [kind : Kinds, race : Races] \cup {NoConfirm}]

(* A request belongs to the button that made it, from its first call on.     *)
IsCall(c) ==
  /\ c \in [n : {c.n}, t : {c.t}, race : {c.race}, then : Buttons,
            at : {"asked", "answered", "failed"}, running : SUBSET Races, over : SUBSET Races]
  /\ \/ c.t \in Ops /\ c.then = c.t
     \/ c.t = "list"
     \/ c.t = "detail"
     \/ c.t = "board" /\ c.then \in Kinds
  /\ (c.t = "list" /\ c.then = "none") \/ c.race \in Races

RaceTypeOK ==
  /\ running \in SUBSET Races /\ over \in SUBSET Races
  /\ screen \in Screens
  /\ \A c \in calls : IsCall(c)

(* A chain keeps the screen busy: starting to its end, adopting and          *)
(* discarding until they are answered. There is one such chain at most.      *)
Holding(c) == c.t \in Ops \/ c.then = "start"
Exclusive ==
  /\ \A c \in calls : Holding(c) => screen.busy
  /\ \A c, d \in calls : Holding(c) /\ Holding(d) => c = d

RaceInv == RaceTypeOK /\ DetailIsOfTheSelected /\ LoadingHasAnEnd /\ Exclusive

-----------------------------------------------------------------------------
LEMMA RaceInitInv == Init => RaceInv
<1> SUFFICES ASSUME Init PROVE RaceInv
  OBVIOUS
<1> USE DEF Init
<1>1. PICK seeded \in {{}, running} :
        \E first \in IF seeded = {} THEN {None} ELSE seeded : screen = Screen(seeded, first)
  OBVIOUS
<1>2. screen \in Screens /\ screen.detail = None /\ ~screen.loading
  BY <1>1 DEF Screen, Screens, NoConfirm
<1>3. \A c \in calls : IsCall(c) /\ ~Holding(c)
  BY DEF IsCall, Buttons, Holding, Ops
<1> QED
  BY <1>2, <1>3 DEF RaceInv, RaceTypeOK, DetailIsOfTheSelected, LoadingHasAnEnd, Exclusive

-----------------------------------------------------------------------------
(* The requests that come after c hold the buttons that c held, or fewer.     *)
Follows(c, more) ==
  /\ \A d \in more : IsCall(d) /\ (Holding(d) => Holding(c))
  /\ \A d, e \in more : Holding(d) /\ Holding(e) => d = e

(* A step that replaces the request c by others, and leaves what the buttons *)
(* hold as it was, or with one holder less.                                  *)
LEMMA Replaced ==
  ASSUME RaceInv, NEW c \in calls, NEW more,
         calls' = (calls \ {c}) \cup more,
         running' \in SUBSET Races, over' \in SUBSET Races, screen' \in Screens,
         Follows(c, more),
         screen'.busy = screen.busy \/ (Holding(c) /\ \A d \in more : ~Holding(d)),
         screen'.detail \in {None, screen'.selected},
         LoadingHasAnEnd'
  PROVE  RaceInv'
<1> USE DEF RaceInv, RaceTypeOK, Exclusive, Follows
<1>1. RaceTypeOK' /\ DetailIsOfTheSelected'
  BY DEF DetailIsOfTheSelected
<1>2. \A d \in calls' : Holding(d) => screen'.busy
  OBVIOUS
<1>3. \A d, e \in calls' : Holding(d) /\ Holding(e) => d = e
  OBVIOUS
<1> QED
  BY <1>1, <1>2, <1>3 DEF Holding

(* A step that adds a request, which no button holds unless none does.       *)
LEMMA Added ==
  ASSUME RaceInv, NEW c, calls' = calls \cup {c}, UNCHANGED <<running, over>>,
         screen' \in Screens, IsCall(c),
         Holding(c) => ~screen.busy /\ screen'.busy,
         screen.busy => screen'.busy,
         screen'.detail \in {None, screen'.selected},
         LoadingHasAnEnd'
  PROVE  RaceInv'
<1> USE DEF RaceInv, RaceTypeOK, Exclusive
<1>1. RaceTypeOK' /\ DetailIsOfTheSelected'
  BY DEF DetailIsOfTheSelected
<1>2. \A d \in calls' : Holding(d) => screen'.busy
  OBVIOUS
<1>3. \A d, e \in calls' : Holding(d) /\ Holding(e) => d = e
  OBVIOUS
<1> QED
  BY <1>1, <1>2, <1>3 DEF Holding

-----------------------------------------------------------------------------
(* What a new request is, and what becomes of one that goes on.              *)
LEMMA CallIsCall ==
  ASSUME NEW t, NEW r, NEW then \in Buttons,
         \/ t \in Ops /\ then = t /\ r \in Races
         \/ t = "list" /\ then = "none"
         \/ t = "detail" /\ r \in Races
  PROVE  IsCall(Call(t, r, then)) /\ Call(t, r, then).t = t
         /\ Call(t, r, then).race = r /\ Call(t, r, then).then = then
BY DEF Call, IsCall, Ops, Buttons

LEMMA CallForIsCall ==
  ASSUME NEW c, IsCall(c), c.race \in Races, NEW t,
         t \in {"list", "detail"} \/ (t = "board" /\ c.then \in Kinds)
  PROVE  IsCall(CallFor(c, t)) /\ CallFor(c, t).t = t
         /\ CallFor(c, t).race = c.race /\ CallFor(c, t).then = c.then
<1>1. /\ CallFor(c, t) \in [n : {c.n}, t : {t}, race : {c.race}, then : {c.then},
                            at : {"asked"}, running : {{}}, over : {{}}]
      /\ c.then \in Buttons
  BY DEF CallFor, IsCall
<1> QED
  BY <1>1 DEF IsCall

LEMMA ReplyKeeps ==
  ASSUME RaceInv, NEW c \in calls, NEW at \in {"answered", "failed"}, Reply(c, at),
         running' \in SUBSET Races, over' \in SUBSET Races, UNCHANGED screen
  PROVE  RaceInv'
<1> DEFINE shown == at = "answered" /\ c.t = "list"
           d == [c EXCEPT !.at = at, !.running = IF shown THEN running ELSE {},
                          !.over = IF shown THEN over ELSE {}]
<1>1. calls' = (calls \ {c}) \cup {d}
  BY DEF Reply
<1>2. IsCall(c)
  BY DEF RaceInv, RaceTypeOK
<1>3. /\ d \in [n : {c.n}, t : {c.t}, race : {c.race}, then : {c.then}, at : {at},
                running : SUBSET Races, over : SUBSET Races]
      /\ c.then \in Buttons
  BY <1>2 DEF IsCall, RaceInv, RaceTypeOK
<1>4. IsCall(d) /\ d.t = c.t /\ d.race = c.race /\ d.then = c.then
  BY <1>2, <1>3 DEF IsCall, RaceInv, RaceTypeOK
<1>5. LoadingHasAnEnd'
  BY <1>1, <1>4 DEF RaceInv, LoadingHasAnEnd
<1> HIDE DEF d
<1>6. Holding(d) <=> Holding(c)
  BY <1>4 DEF Holding
<1>7. screen' \in Screens /\ screen'.busy = screen.busy
      /\ screen'.detail \in {None, screen'.selected}
  BY DEF RaceInv, RaceTypeOK, DetailIsOfTheSelected
<1>8. Follows(c, {d})
  BY <1>4, <1>6 DEF Follows
<1> QED
  BY <1>1, <1>5, <1>7, <1>8, Replaced

(* The screen after a click or a reply is a screen.                          *)
LEMMA SelectsType ==
  ASSUME NEW s \in Screens, NEW r \in Races
  PROVE  /\ Selects(s, r) \in Screens /\ Selects(s, r).selected = r
         /\ Selects(s, r).detail = None /\ Selects(s, r).busy = s.busy
BY DEF Screens, Selects

LEMMA ListingType ==
  ASSUME NEW s \in Screens, NEW c, IsCall(c), s.detail \in {None, s.selected}
  PROVE  /\ Listing(s, c) \in Screens /\ Listing(s, c).busy = s.busy
         /\ Listing(s, c).loading = s.loading
         /\ Listing(s, c).selected \in {None, s.selected}
         /\ Listing(s, c).detail \in {None, Listing(s, c).selected}
<1> DEFINE races == c.running \cup c.over
           t == [s EXCEPT !.races = races, !.live = c.running]
<1>1. races \in SUBSET Races /\ c.running \in SUBSET Races
  BY DEF IsCall
<1>2. t \in Screens /\ t.busy = s.busy /\ t.loading = s.loading
      /\ t.selected = s.selected /\ t.detail = s.detail
  BY <1>1 DEF Screens
<1>3. CASE s.selected \in races \cup {None}
  <2>1. Listing(s, c) = t
    BY <1>3 DEF Listing
  <2> QED
    BY <1>2, <2>1
<1>4. CASE s.selected \notin races \cup {None}
  <2>1. Listing(s, c) = [t EXCEPT !.selected = None, !.detail = None]
    BY <1>4 DEF Listing, LetGo
  <2> HIDE DEF t
  <2> QED
    BY <1>2, <2>1 DEF Screens
<1> QED
  BY <1>3, <1>4

-----------------------------------------------------------------------------
(* A step per action. First the clicks, which add a request or none.         *)
LEMMA ScreenOnly ==
  ASSUME RaceInv, UNCHANGED <<running, over, calls>>, screen' \in Screens,
         screen'.busy = screen.busy, screen'.detail = screen.detail,
         screen'.selected = screen.selected, screen'.loading = screen.loading
  PROVE  RaceInv'
BY DEF RaceInv, RaceTypeOK, DetailIsOfTheSelected, LoadingHasAnEnd, Exclusive, Holding

LEMMA SelectKeeps == ASSUME RaceInv, NEW r \in Races, Select(r) PROVE RaceInv'
<1> DEFINE c == Call("detail", r, "none")
<1>1. IsCall(c) /\ c.t = "detail" /\ c.race = r /\ c.then = "none"
  BY CallIsCall DEF Buttons
<1>2. screen \in Screens /\ screen' = Selects(screen, r) /\ calls' = calls \cup {c}
  BY DEF RaceInv, RaceTypeOK, Select, Asks
<1>3. /\ screen' \in Screens /\ screen'.selected = r
      /\ screen'.detail = None /\ screen'.busy = screen.busy
  BY <1>2, SelectsType
<1>4. LoadingHasAnEnd'
  BY <1>1, <1>2, <1>3 DEF LoadingHasAnEnd
<1>5. ~Holding(c)
  BY <1>1 DEF Holding, Ops
<1>6. UNCHANGED <<running, over>>
  BY DEF Select
<1> HIDE DEF c
<1> QED
  BY <1>1, <1>2, <1>3, <1>4, <1>5, <1>6, Added

LEMMA RefreshKeeps == ASSUME RaceInv, RefreshDiffs PROVE RaceInv'
<1> DEFINE c == Call("detail", screen.selected, "none")
<1>1. screen \in Screens /\ screen.selected \in Races
  BY DEF RaceInv, RaceTypeOK, RefreshDiffs, Screens
<1>2. IsCall(c) /\ c.t = "detail" /\ c.race = screen.selected /\ c.then = "none"
  BY <1>1, CallIsCall DEF Buttons
<1>3. calls' = calls \cup {c} /\ UNCHANGED <<running, over>>
  BY DEF RefreshDiffs, Asks
<1>4. /\ screen' \in Screens /\ screen'.selected = screen.selected
      /\ screen'.detail = screen.detail /\ screen'.busy = screen.busy
  BY <1>1 DEF RefreshDiffs, Loads, Screens
<1>5. LoadingHasAnEnd'
  BY <1>2, <1>3, <1>4 DEF LoadingHasAnEnd
<1>6. ~Holding(c) /\ screen'.detail \in {None, screen'.selected}
  BY <1>2, <1>4 DEF Holding, Ops, RaceInv, DetailIsOfTheSelected
<1> HIDE DEF c
<1> QED
  BY <1>2, <1>3, <1>4, <1>5, <1>6, Added

LEMMA ReloadKeeps == ASSUME RaceInv, Reload PROVE RaceInv'
<1> DEFINE c == Call("list", None, "none")
<1>1. IsCall(c) /\ c.t = "list" /\ c.then = "none"
  BY CallIsCall DEF Buttons
<1>2. calls' = calls \cup {c} /\ UNCHANGED <<running, over, screen>>
  BY DEF Reload, Asks
<1>3. LoadingHasAnEnd' /\ screen' \in Screens /\ screen'.detail \in {None, screen'.selected}
  BY <1>2 DEF LoadingHasAnEnd, RaceInv, RaceTypeOK, DetailIsOfTheSelected
<1>4. ~Holding(c)
  BY <1>1 DEF Holding, Ops
<1> HIDE DEF c
<1> QED
  BY <1>1, <1>2, <1>3, <1>4, Added

(* The buttons, disabled while the screen is busy.                           *)
LEMMA ButtonKeeps ==
  ASSUME RaceInv, NEW t \in Ops, NEW r \in Races, MayClick(screen),
         Asks(calls, Call(t, r, t)), UNCHANGED <<running, over>>,
         screen' \in Screens, screen'.busy, screen'.detail = screen.detail,
         screen'.selected = screen.selected, screen'.loading = screen.loading
  PROVE  RaceInv'
<1> DEFINE c == Call(t, r, t)
<1>1. IsCall(c) /\ c.t = t /\ c.then = t
  BY CallIsCall DEF Buttons
<1>2. calls' = calls \cup {c}
  BY DEF Asks
<1>3. LoadingHasAnEnd' /\ screen'.detail \in {None, screen'.selected}
  BY <1>2 DEF LoadingHasAnEnd, RaceInv, DetailIsOfTheSelected
<1>4. ~screen.busy
  BY DEF MayClick
<1> HIDE DEF c
<1> QED
  BY <1>1, <1>2, <1>3, <1>4, Added

LEMMA StartKeeps == ASSUME RaceInv, NEW r \in Races, StartRace(r) PROVE RaceInv'
<1>1. screen' \in Screens /\ screen'.busy /\ screen'.detail = screen.detail
      /\ screen'.selected = screen.selected /\ screen'.loading = screen.loading
  BY DEF RaceInv, RaceTypeOK, StartRace, Screens
<1>2. MayClick(screen) /\ Asks(calls, Call("start", r, "start")) /\ UNCHANGED <<running, over>>
  BY DEF StartRace
<1> QED
  BY <1>1, <1>2, ButtonKeeps DEF Ops

LEMMA ConfirmKeeps == ASSUME None \notin Races, RaceInv, Confirm PROVE RaceInv'
<1>1. screen.confirm.kind \in Kinds /\ screen.confirm.race \in Races
  BY DEF RaceInv, RaceTypeOK, Confirm, Screens, NoConfirm
<1>2. screen' \in Screens /\ screen'.busy /\ screen'.detail = screen.detail
      /\ screen'.selected = screen.selected /\ screen'.loading = screen.loading
  BY DEF RaceInv, RaceTypeOK, Confirm, Busy, Screens
<1>3. /\ MayClick(screen) /\ UNCHANGED <<running, over>>
      /\ Asks(calls, Call(screen.confirm.kind, screen.confirm.race, screen.confirm.kind))
  BY DEF Confirm
<1> QED
  BY <1>1, <1>2, <1>3, ButtonKeeps DEF Ops, Kinds

LEMMA AskConfirmKeeps ==
  ASSUME RaceInv, NEW kind \in Kinds, NEW r \in Races, AskConfirm(kind, r) PROVE RaceInv'
<1>1. [kind |-> kind, race |-> r] \in [kind : Kinds, race : Races]
  OBVIOUS
<1>2. screen' \in Screens /\ screen'.busy = screen.busy /\ screen'.detail = screen.detail
      /\ screen'.selected = screen.selected /\ screen'.loading = screen.loading
  BY <1>1 DEF RaceInv, RaceTypeOK, AskConfirm, Screens
<1> QED
  BY <1>2, ScreenOnly DEF AskConfirm

LEMMA CancelKeeps == ASSUME RaceInv, Cancel PROVE RaceInv'
<1>1. screen' \in Screens /\ screen'.busy = screen.busy /\ screen'.detail = screen.detail
      /\ screen'.selected = screen.selected /\ screen'.loading = screen.loading
  BY DEF RaceInv, RaceTypeOK, Cancel, Screens
<1> QED
  BY <1>1, ScreenOnly DEF Cancel

(* The server: it replies, or the world changes elsewhere.                   *)
LEMMA HandledKeeps == ASSUME RaceInv, NEW c \in calls, Handled(c) PROVE RaceInv'
<1>1. c.t = "start" => c.race \in Races
  BY DEF RaceInv, RaceTypeOK, IsCall
<1>2. running' \in SUBSET Races /\ over' \in SUBSET Races
  BY <1>1 DEF Handled, RaceInv, RaceTypeOK
<1> QED
  BY <1>2, ReplyKeeps DEF Handled

LEMMA FailsKeeps == ASSUME RaceInv, NEW c \in calls, Fails(c) PROVE RaceInv'
  BY ReplyKeeps DEF Fails, RaceInv, RaceTypeOK

LEMMA ElsewhereKeeps == ASSUME RaceInv, NEW r \in Races, Elsewhere(r) PROVE RaceInv'
<1>1. running' \in SUBSET Races /\ over' \in SUBSET Races
  BY DEF Elsewhere, RaceInv, RaceTypeOK
<1> QED
  BY <1>1
    DEF Elsewhere, RaceInv, RaceTypeOK, DetailIsOfTheSelected, LoadingHasAnEnd, Exclusive, Holding

-----------------------------------------------------------------------------
(* The page, when a reply is read: the chain of its button goes on or ends.  *)
LEMMA FreeType ==
  ASSUME NEW s \in Screens
  PROVE  /\ Free(s) \in Screens /\ ~Free(s).busy /\ Free(s).loading = s.loading
         /\ Free(s).selected = s.selected /\ Free(s).detail = s.detail
BY DEF Free, Screens

(* While its own call has not come, loading goes on as it did.               *)
LEMMA StillLoading ==
  ASSUME RaceInv, NEW c \in calls, c.t # "detail", NEW more,
         calls' = (calls \ {c}) \cup more,
         screen'.loading = screen.loading, screen'.selected \in {None, screen.selected}
  PROVE  LoadingHasAnEnd'
BY DEF RaceInv, LoadingHasAnEnd

LEMMA StartedKeeps == ASSUME RaceInv, NEW c \in calls, Started(c) PROVE RaceInv'
<1>1. IsCall(c) /\ c.t = "start" /\ c.race \in Races /\ screen \in Screens
  BY DEF Started, Back, RaceInv, RaceTypeOK, IsCall
<1>2. Holding(c) /\ UNCHANGED <<running, over>> /\ running' \in SUBSET Races /\ over' \in SUBSET Races
  BY <1>1 DEF Started, Holding, Ops, RaceInv, RaceTypeOK
<1>3. CASE c.at = "failed"
  <2>1. screen' = Free(screen) /\ calls' = (calls \ {c}) \cup {}
    BY <1>3 DEF Started, Stops
  <2>2. screen' \in Screens /\ screen'.loading = screen.loading
        /\ screen'.selected = screen.selected /\ screen'.detail = screen.detail
    BY <1>1, <2>1, FreeType
  <2>3. LoadingHasAnEnd'
    BY <1>1, <2>1, <2>2, StillLoading
  <2>4. Follows(c, {}) /\ screen'.detail \in {None, screen'.selected}
    BY <2>2 DEF Follows, RaceInv, DetailIsOfTheSelected
  <2> QED
    BY <1>2, <2>1, <2>2, <2>3, <2>4, Replaced
<1>4. CASE c.at # "failed"
  <2> DEFINE d == CallFor(c, "list")
  <2>1. screen' = screen /\ calls' = (calls \ {c}) \cup {d}
    BY <1>4 DEF Started, Asks
  <2>2. IsCall(d)
    BY <1>1, CallForIsCall
  <2>3. LoadingHasAnEnd'
    BY <1>1, <2>1, StillLoading
  <2>4. Follows(c, {d}) /\ screen'.detail \in {None, screen'.selected}
    BY <1>2, <2>1, <2>2 DEF Follows, RaceInv, DetailIsOfTheSelected
  <2> HIDE DEF d
  <2> QED
    BY <1>1, <1>2, <2>1, <2>3, <2>4, Replaced
<1> QED
  BY <1>3, <1>4

LEMMA SettledKeeps == ASSUME RaceInv, NEW c \in calls, Settled(c) PROVE RaceInv'
<1> DEFINE d == CallFor(c, "list")
<1>1. IsCall(c) /\ c.t \in Kinds /\ c.then = c.t /\ c.race \in Races /\ screen \in Screens
  BY DEF Settled, Kinds, RaceInv, RaceTypeOK, IsCall, Ops
<1>2. Holding(c) /\ UNCHANGED <<running, over>> /\ running' \in SUBSET Races /\ over' \in SUBSET Races
  BY <1>1 DEF Settled, Holding, Ops, Kinds, RaceInv, RaceTypeOK
<1>3. IsCall(d) /\ ~Holding(d)
  BY <1>1, CallForIsCall DEF Holding, Ops, Kinds
<1>4. calls' = (calls \ {c}) \cup {d} /\ screen' \in {LetGo(Free(screen)), Free(screen)}
  BY DEF Settled, Asks
<1>5. /\ screen' \in Screens /\ screen'.loading = screen.loading
      /\ screen'.selected \in {None, screen.selected}
      /\ screen'.detail \in {None, screen'.selected}
  <2>1. LetGo(Free(screen)) \in Screens /\ LetGo(Free(screen)).loading = Free(screen).loading
        /\ LetGo(Free(screen)).selected = None /\ LetGo(Free(screen)).detail = None
    BY <1>1, FreeType DEF LetGo, Screens
  <2> QED
    BY <1>1, <1>4, <2>1, FreeType DEF RaceInv, DetailIsOfTheSelected
<1> HIDE DEF d
<1>6. LoadingHasAnEnd'
  BY <1>1, <1>4, <1>5, StillLoading DEF Kinds
<1>7. Follows(c, {d}) /\ \A x \in {d} : ~Holding(x)
  BY <1>3 DEF Follows
<1> QED
  BY <1>2, <1>4, <1>5, <1>6, <1>7, Replaced

LEMMA ListedKeeps == ASSUME RaceInv, NEW c \in calls, Listed(c) PROVE RaceInv'
<1> DEFINE s == IF c.at = "answered" THEN Listing(screen, c) ELSE screen
           T(first) == IF first = None THEN s ELSE Selects(s, first)
           Extra(first) == IF first = None THEN {} ELSE {Call("detail", first, "none")}
           more == CASE c.then = "start" -> {CallFor(c, "detail")}
                     [] c.then \in {"adopt", "discard"} -> {CallFor(c, "board")}
                     [] OTHER -> {}
<1>1. /\ IsCall(c) /\ c.t = "list" /\ screen \in Screens
      /\ c.then # "none" => c.race \in Races
      /\ screen.detail \in {None, screen.selected}
  BY DEF Listed, Back, RaceInv, RaceTypeOK, IsCall, DetailIsOfTheSelected
<1>2. /\ s \in Screens /\ s.busy = screen.busy /\ s.loading = screen.loading
      /\ s.selected \in {None, screen.selected} /\ s.detail \in {None, s.selected}
  BY <1>1, ListingType
<1>3. PICK first \in Races \cup {None} :
        /\ screen' = IF c.then = "start" THEN Selects(T(first), c.race) ELSE T(first)
        /\ calls' = (calls \ {c}) \cup (more \cup Extra(first))
  <2> HIDE DEF s
  <2>1. PICK first \in IF c.at = "answered" THEN Firsts(s) ELSE {None} :
          /\ screen' = IF c.then = "start" THEN Selects(T(first), c.race) ELSE T(first)
          /\ calls' = (calls \ {c}) \cup more \cup Extra(first)
    BY DEF Listed, s
  <2>2. first \in Races \cup {None}
    BY <1>2, <2>1 DEF Firsts, Screens
  <2>3. calls' = (calls \ {c}) \cup (more \cup Extra(first))
    BY <2>1
  <2> QED
    BY <2>1, <2>2, <2>3
<1> DEFINE t == T(first)
           extra == Extra(first)
           both == more \cup extra
<1>4. /\ t \in Screens /\ t.busy = screen.busy /\ t.detail \in {None, t.selected}
      /\ first = None => t = s
      /\ first # None => t.selected = first
  <2> HIDE DEF s
  <2> QED
    BY <1>2, SelectsType
<1> HIDE DEF s
<1>5. /\ screen' \in Screens /\ screen'.busy = screen.busy
      /\ screen'.detail \in {None, screen'.selected}
      /\ c.then = "start" => screen'.selected = c.race
      /\ c.then # "start" => screen' = t
  <2>1. screen' = IF c.then = "start" THEN Selects(t, c.race) ELSE t
    BY <1>3
  <2> HIDE DEF t
  <2> QED
    BY <1>1, <1>4, <2>1, SelectsType
<1>6. \A x \in extra : IsCall(x) /\ x.t = "detail" /\ x.race = first /\ ~Holding(x)
  BY CallIsCall DEF Holding, Ops, Buttons
<1>7. \A x \in more : /\ IsCall(x) /\ x.race = c.race /\ x.then = c.then
                      /\ x.t = IF c.then = "start" THEN "detail" ELSE "board"
  BY <1>1, CallForIsCall DEF Kinds
<1>8. /\ \A x, y \in more : x = y
      /\ c.then = "start" => more # {}
      /\ first # None => extra # {}
  OBVIOUS
<1>9. calls' = (calls \ {c}) \cup both
  BY <1>3
<1> HIDE DEF more, extra
<1>10. LoadingHasAnEnd'
  <2>1. CASE c.then = "start"
    BY <1>5, <1>7, <1>8, <1>9, <2>1 DEF LoadingHasAnEnd
  <2>2. CASE c.then # "start" /\ first # None
    BY <1>4, <1>5, <1>6, <1>8, <1>9, <2>2 DEF LoadingHasAnEnd
  <2>3. CASE c.then # "start" /\ first = None
    BY <1>1, <1>2, <1>4, <1>5, <1>9, <2>3, StillLoading
  <2> QED
    BY <2>1, <2>2, <2>3
<1>11. Follows(c, both)
  <2>1. \A x \in more : Holding(x) => Holding(c)
    BY <1>7 DEF Holding, Ops
  <2> QED
    BY <1>6, <1>7, <1>8, <2>1 DEF Follows
<1>12. running' \in SUBSET Races /\ over' \in SUBSET Races
  BY DEF Listed, RaceInv, RaceTypeOK
<1> HIDE DEF both
<1> QED
  BY <1>5, <1>9, <1>10, <1>11, <1>12, Replaced

LEMMA ScoredKeeps == ASSUME RaceInv, NEW c \in calls, Scored(c) PROVE RaceInv'
<1>1. /\ IsCall(c) /\ c.t = "board" /\ c.race \in Races /\ c.then \in Kinds
      /\ screen \in Screens /\ screen.detail \in {None, screen.selected}
  BY DEF Scored, Back, RaceInv, RaceTypeOK, IsCall, Ops, DetailIsOfTheSelected
<1>2. running' \in SUBSET Races /\ over' \in SUBSET Races
  BY DEF Scored, RaceInv, RaceTypeOK
<1>3. CASE c.then = "adopt" /\ screen.selected = c.race
  <2> DEFINE d == CallFor(c, "detail")
  <2>1. screen' = Loads(screen) /\ calls' = (calls \ {c}) \cup {d}
    BY <1>3 DEF Scored, Asks
  <2>2. IsCall(d) /\ d.t = "detail" /\ d.race = c.race /\ ~Holding(d)
    BY <1>1, CallForIsCall DEF Holding, Ops, Kinds
  <2>3. /\ screen' \in Screens /\ screen'.busy = screen.busy
        /\ screen'.selected = c.race /\ screen'.detail \in {None, screen'.selected}
    BY <1>1, <1>3, <2>1 DEF Loads, Screens
  <2>4. LoadingHasAnEnd' /\ Follows(c, {d})
    BY <2>1, <2>2, <2>3 DEF LoadingHasAnEnd, Follows
  <2> HIDE DEF d
  <2> QED
    BY <1>2, <2>1, <2>3, <2>4, Replaced
<1>4. CASE ~(c.then = "adopt" /\ screen.selected = c.race)
  <2>1. screen' = screen /\ calls' = (calls \ {c}) \cup {}
    BY <1>4 DEF Scored, Stops
  <2>2. LoadingHasAnEnd' /\ Follows(c, {})
    BY <1>1, <2>1, StillLoading DEF Follows
  <2> QED
    BY <1>1, <1>2, <2>1, <2>2, Replaced
<1> QED
  BY <1>3, <1>4

LEMMA DetailComesKeeps == ASSUME RaceInv, NEW c \in calls, DetailComes(c) PROVE RaceInv'
<1> DEFINE s == Detailed(screen, c)
<1>1. /\ IsCall(c) /\ c.t = "detail" /\ c.race \in Races
      /\ screen \in Screens /\ screen.detail \in {None, screen.selected}
  BY DEF DetailComes, Back, RaceInv, RaceTypeOK, IsCall, Ops, DetailIsOfTheSelected
<1>2. /\ running' \in SUBSET Races /\ over' \in SUBSET Races
      /\ calls' = (calls \ {c}) \cup {}
  BY DEF DetailComes, Stops, RaceInv, RaceTypeOK
<1>3. /\ s \in Screens /\ s.busy = screen.busy /\ s.selected = screen.selected
      /\ s.detail \in {None, s.selected}
      /\ s.loading => screen.loading /\ screen.selected # c.race
  BY <1>1 DEF Detailed, Shown, Dropped, Screens
<1>4. screen' = IF c.then = "start" THEN Free(s) ELSE s
  BY DEF DetailComes
<1> HIDE DEF s
<1>5. /\ screen' \in Screens /\ screen'.selected = s.selected
      /\ screen'.detail = s.detail /\ screen'.loading = s.loading
      /\ screen'.busy = screen.busy \/ c.then = "start"
  BY <1>3, <1>4, FreeType
<1>6. LoadingHasAnEnd'
  BY <1>2, <1>3, <1>5 DEF RaceInv, LoadingHasAnEnd
<1>7. Follows(c, {})
  BY DEF Follows
<1> QED
  BY <1>2, <1>3, <1>5, <1>6, <1>7, Replaced DEF Holding

LEMMA RaceNextInv == ASSUME None \notin Races, RaceInv, [Next]_rvars PROVE RaceInv'
<1>1. ASSUME NEW r \in Races,
             \/ Select(r) \/ StartRace(r) \/ Elsewhere(r)
             \/ \E kind \in {"adopt", "discard"} : AskConfirm(kind, r)
      PROVE  RaceInv'
  BY <1>1, SelectKeeps, StartKeeps, ElsewhereKeeps, AskConfirmKeeps DEF Kinds
<1>2. ASSUME NEW c \in calls,
             \/ Handled(c) \/ Fails(c)
             \/ Started(c) \/ Settled(c) \/ Listed(c) \/ Scored(c) \/ DetailComes(c)
      PROVE  RaceInv'
  BY <1>2, HandledKeeps, FailsKeeps, StartedKeeps, SettledKeeps, ListedKeeps, ScoredKeeps,
     DetailComesKeeps
<1>3. CASE UNCHANGED rvars
  BY <1>3
    DEF rvars, RaceInv, RaceTypeOK, DetailIsOfTheSelected, LoadingHasAnEnd, Exclusive, Holding
<1> QED
  BY <1>1, <1>2, <1>3, RefreshKeeps, ReloadKeeps, CancelKeeps, ConfirmKeeps DEF Next

(* Whatever replies, clicks and other windows overtake one another, and for   *)
(* any number of races and requests: the diffs are those of the selected      *)
(* race, a screen that loads has its request, and one of starting, adopting   *)
(* and discarding is under way at most.                                       *)
THEOREM ScreenStaysSound == ASSUME None \notin Races PROVE Spec => []ScreenIsSound
<1>1. RaceInv => ScreenIsSound
  <2> SUFFICES ASSUME RaceInv PROVE OneAtATime
    BY DEF RaceInv, ScreenIsSound
  <2> DEFINE H == {c \in calls : c.t \in Ops}
  <2>1. \A c, d \in H : c = d
    BY DEF RaceInv, Exclusive, Holding
  <2>2. H = {} \/ \E c \in H : H = {c}
    BY <2>1
  <2>3. Cardinality(H) \in {0, 1}
    BY <2>2, FS_EmptySet, FS_Singleton
  <2> QED
    BY <2>3 DEF OneAtATime
<1> QED
  BY RaceInitInv, RaceNextInv, <1>1, PTL DEF Spec

-----------------------------------------------------------------------------
(* A notification is its reason and whether it is on screen.                 *)
IsShape(n) == n = None \/ n \in [reason : {n.reason}, on : BOOLEAN]
ScreenShape ==
  /\ DOMAIN screen = Sessions
  /\ screen = [s \in Sessions |-> screen[s]]
  /\ \A s \in Sessions : IsShape(screen[s])
PendingShape == pending \in [Requests -> Sessions \cup {None}]
NoteInv == ScreenShape /\ PendingShape /\ Notes!NoneStays

-----------------------------------------------------------------------------
LEMMA NoteInit == Notes!Init => NoteInv
BY DEF Notes!Init, NoteInv, ScreenShape, PendingShape, Notes!NoneStays, IsShape, Notes!Live

LEMMA ShapeTurnedOff ==
  ASSUME NEW n, IsShape(n), n # None
  PROVE  /\ IsShape([n EXCEPT !.on = FALSE])
         /\ [n EXCEPT !.on = FALSE].on = FALSE
BY DEF IsShape

(* What a notification says of a session that it is not about stays as it was. *)
LEMMA ShownShape ==
  ASSUME NEW specs, NEW old, old = [s \in Sessions |-> old[s]],
         \A s \in Sessions : IsShape(old[s])
  PROVE  /\ Notes!Shown(specs, old) = [s \in Sessions |-> Notes!Shown(specs, old)[s]]
         /\ \A s \in Sessions : IsShape(Notes!Shown(specs, old)[s])
         /\ \A s \in Sessions : Notes!Own(specs, s) = {} => Notes!Shown(specs, old)[s] = old[s]
BY DEF Notes!Shown, IsShape

LEMMA ShownOne ==
  ASSUME NEW s \in Sessions, NEW r, NEW old, NEW t \in Sessions
  PROVE  Notes!Shown(<<Notes!Announcement(s, r)>>, old)[t] =
           IF t = s THEN [reason |-> r, on |-> TRUE] ELSE old[t]
<1>1. Notes!Own(<<Notes!Announcement(s, r)>>, t) = IF t = s THEN {1} ELSE {}
  BY DEF Notes!Own, Notes!Announcement
<1>2. (CHOOSE i \in {1} : \A j \in {1} : j <= i) = 1
  OBVIOUS
<1>3. t = s => Notes!Last(<<Notes!Announcement(s, r)>>, t) = Notes!Announcement(s, r)
  BY <1>1, <1>2 DEF Notes!Last
<1>4. CASE t = s
  <2>1. Notes!Own(<<Notes!Announcement(s, r)>>, t) # {}
    BY <1>1, <1>4
  <2>2. Notes!Shown(<<Notes!Announcement(s, r)>>, old)[t]
          = [reason |-> Notes!Last(<<Notes!Announcement(s, r)>>, t).reason, on |-> TRUE]
    BY <2>1 DEF Notes!Shown
  <2>3. Notes!Last(<<Notes!Announcement(s, r)>>, t).reason = r
    BY <1>3, <1>4 DEF Notes!Announcement
  <2> QED
    BY <2>2, <2>3, <1>4
<1>5. CASE t # s
  BY <1>1, <1>5 DEF Notes!Shown
<1> QED
  BY <1>4, <1>5

(* One announcement: only its own session shows something new.               *)
LEMMA NotifyOne ==
  ASSUME NEW s \in Sessions, NEW r, NEW old, old = [t \in Sessions |-> old[t]],
         \A t \in Sessions : IsShape(old[t]), Notes!Notify(<<Notes!Announcement(s, r)>>, old)
  PROVE  /\ ScreenShape'
         /\ \A t \in Sessions : screen'[t] = old[t] \/ screen'[t] = [reason |-> r, on |-> TRUE]
<1>1. screen' = old \/ screen' = Notes!Shown(<<Notes!Announcement(s, r)>>, old)
  BY DEF Notes!Notify
<1>2. CASE screen' = old
  BY <1>2 DEF ScreenShape
<1>3. CASE screen' = Notes!Shown(<<Notes!Announcement(s, r)>>, old)
  BY <1>3, ShownShape, ShownOne DEF ScreenShape
<1> QED
  BY <1>1, <1>2, <1>3

(* A step that changes no request and announces no permission.               *)
LEMMA SameRequests ==
  ASSUME NoteInv, ScreenShape', pending' = pending,
         \A t \in Sessions \ overtaken' :
           \/ t \notin overtaken /\ screen'[t] = screen[t]
           \/ screen'[t] # None => screen'[t].reason # "permission" \/ ~screen'[t].on
           \/ Notes!Live(pending) # {}
  PROVE  NoteInv'
BY DEF NoteInv, Notes!NoneStays, PendingShape, Notes!Live

LEMMA HookEventKeeps ==
  ASSUME NoteInv, NEW s \in Sessions, Notes!HookEvent(s)
  PROVE  NoteInv'
<1>1. PICK r \in {"turn-done", "question", "stalled"} : Notes!Notify(<<Notes!Announcement(s, r)>>, screen)
  BY DEF Notes!HookEvent
<1>2. /\ ScreenShape'
      /\ \A t \in Sessions : screen'[t] = screen[t] \/ screen'[t] = [reason |-> r, on |-> TRUE]
  BY <1>1, NotifyOne DEF NoteInv, ScreenShape
<1> QED
  BY <1>2, SameRequests DEF Notes!HookEvent

LEMMA CloseShape ==
  ASSUME ScreenShape
  PROVE  /\ Notes!Close(screen, Notes!Stale) = [s \in Sessions |-> Notes!Close(screen, Notes!Stale)[s]]
         /\ \A s \in Sessions : IsShape(Notes!Close(screen, Notes!Stale)[s])
         /\ \A s \in Sessions : LET n == Notes!Close(screen, Notes!Stale)[s]
                                IN n # None => ~(n.on /\ n.reason = "permission")
<1>1. ASSUME NEW s \in Sessions
      PROVE  LET n == Notes!Close(screen, Notes!Stale)[s]
             IN IsShape(n) /\ (n # None => ~(n.on /\ n.reason = "permission"))
  <2>1. CASE screen[s] = None
    BY <2>1 DEF Notes!Close, IsShape
  <2>2. CASE screen[s] # None /\ screen[s].reason = "permission"
    <3>1. IsShape([screen[s] EXCEPT !.on = FALSE]) /\ [screen[s] EXCEPT !.on = FALSE].on = FALSE
      BY <2>2, ShapeTurnedOff DEF ScreenShape
    <3>2. Notes!Close(screen, Notes!Stale)[s] = [screen[s] EXCEPT !.on = FALSE]
      BY <2>2 DEF Notes!Close, Notes!Stale
    <3> QED
      BY <3>1, <3>2
  <2>3. CASE screen[s] # None /\ screen[s].reason # "permission"
    BY <2>3 DEF Notes!Close, IsShape, Notes!Stale, ScreenShape
  <2> QED
    BY <2>1, <2>2, <2>3
<1> QED
  BY <1>1 DEF Notes!Close

LEMMA OnApprovalsKeeps ==
  ASSUME None \notin Sessions, NoteInv, NEW p \in [Requests -> Sessions \cup {None}],
         Notes!OnApprovals(p)
  PROVE  NoteInv'
<1> DEFINE old == IF Notes!Live(p) = {} THEN Notes!Close(screen, Notes!Stale) ELSE screen
<1>1. old = [s \in Sessions |-> old[s]] /\ \A s \in Sessions : IsShape(old[s])
  BY CloseShape DEF NoteInv, ScreenShape
<1>2. screen' = old \/ \E r \in Notes!Live(p) : Notes!Notify(<<Notes!Announcement(p[r], "permission")>>, old)
  BY DEF Notes!OnApprovals
<1>3. PendingShape'
  BY DEF Notes!OnApprovals, PendingShape
<1>4. CASE Notes!Live(p) = {}
  <2>1. screen' = Notes!Close(screen, Notes!Stale)
    BY <1>2, <1>4
  <2> QED
    BY <1>1, <1>3, <1>4, <2>1, CloseShape
      DEF NoteInv, ScreenShape, Notes!NoneStays, Notes!OnApprovals
<1>5. CASE Notes!Live(p) # {}
  <2>1. ScreenShape'
    <3>1. CASE screen' = old
      BY <1>1, <3>1 DEF ScreenShape
    <3>2. ASSUME NEW r \in Notes!Live(p), Notes!Notify(<<Notes!Announcement(p[r], "permission")>>, old)
          PROVE  ScreenShape'
      <4>1. p[r] \in Sessions
        BY DEF Notes!Live
      <4> HIDE DEF old
      <4> QED
        BY <1>1, <3>2, <4>1, NotifyOne
    <3> QED
      BY <1>2, <3>1, <3>2
  <2> QED
    BY <1>3, <1>5, <2>1 DEF NoteInv, Notes!NoneStays, Notes!OnApprovals
<1> QED
  BY <1>4, <1>5

LEMMA SessionChangesKeeps ==
  ASSUME NoteInv, NEW s \in Sessions, Notes!SessionChanges(s)
  PROVE  NoteInv'
<1> DEFINE Changes(t) ==
      IF t = "exited" /\ lastStatus[s] # "gone"
      THEN Notes!Notify(<<Notes!Announcement(s, "exited")>>, screen) /\ UNCHANGED overtaken
      ELSE /\ screen' = IF t = "gone" THEN [screen EXCEPT ![s] = None] ELSE screen
           /\ overtaken' = IF t = "gone" THEN overtaken \ {s} ELSE overtaken
           /\ UNCHANGED prompt
<1>1. PICK t \in {"running", "exited", "gone"} : Changes(t) /\ pending' = pending
  BY DEF Notes!SessionChanges
<1>2. CASE t = "exited" /\ lastStatus[s] # "gone"
  <2>1. /\ ScreenShape'
        /\ \A u \in Sessions : screen'[u] = screen[u] \/ screen'[u] = [reason |-> "exited", on |-> TRUE]
    BY <1>1, <1>2, NotifyOne DEF NoteInv, ScreenShape
  <2> QED
    BY <1>1, <1>2, <2>1, SameRequests
<1>3. CASE ~(t = "exited" /\ lastStatus[s] # "gone")
  <2>1. ScreenShape'
    BY <1>1, <1>3 DEF NoteInv, ScreenShape, IsShape
  <2>2. \A u \in Sessions \ overtaken' :
          (u \notin overtaken /\ screen'[u] = screen[u]) \/ screen'[u] = None
    BY <1>1, <1>3 DEF NoteInv, ScreenShape
  <2> QED
    BY <1>1, <1>3, <2>1, <2>2, SameRequests
<1> QED
  BY <1>2, <1>3

(* What waited for the browser's prompt and is shown too late is on record.  *)
LEMMA PromptAnsweredKeeps ==
  ASSUME NoteInv, Notes!PromptAnswered
  PROVE  NoteInv'
<1>1. CASE UNCHANGED <<screen, overtaken>>
  BY <1>1, SameRequests DEF NoteInv, Notes!PromptAnswered, ScreenShape
<1>2. CASE /\ screen' \in {screen, Notes!Shown(prompt, screen)}
           /\ overtaken' = IF Notes!Live(pending) # {} THEN overtaken
                           ELSE overtaken \cup {prompt[i].session : i \in DOMAIN prompt}
  <2>1. ScreenShape'
    BY <1>2, ShownShape DEF NoteInv, ScreenShape
  <2>2. Notes!Live(pending) = {} => \A t \in Sessions \ overtaken' : screen'[t] = screen[t]
    BY <1>2, ShownShape DEF NoteInv, ScreenShape, Notes!Own
  <2> QED
    BY <1>2, <2>1, <2>2, SameRequests DEF Notes!PromptAnswered
<1> QED
  BY <1>1, <1>2 DEF Notes!PromptAnswered

LEMMA NoteStep ==
  ASSUME None \notin Sessions, NoteInv, [Notes!Next]_Notes!nvars
  PROVE  NoteInv'
<1>1. CASE UNCHANGED Notes!nvars
  BY <1>1 DEF Notes!nvars, NoteInv, ScreenShape, PendingShape, Notes!NoneStays, Notes!Live
<1>2. ASSUME NEW s \in Sessions, Notes!HookEvent(s) PROVE NoteInv'
  BY <1>2, HookEventKeeps
<1>3. ASSUME NEW s \in Sessions, Notes!Asked(s) PROVE NoteInv'
  <2>1. PICK r \in Requests : Notes!OnApprovals([pending EXCEPT ![r] = s])
    BY <1>3 DEF Notes!Asked
  <2> QED
    BY <2>1, OnApprovalsKeeps DEF NoteInv, PendingShape
<1>4. ASSUME NEW s \in Sessions, Notes!SessionChanges(s) PROVE NoteInv'
  BY <1>4, SessionChangesKeeps
<1>5. ASSUME NEW s \in Sessions, Notes!Dismiss(s) PROVE NoteInv'
  <2>1. screen' = [screen EXCEPT ![s] = [screen[s] EXCEPT !.on = FALSE]]
    BY <1>5 DEF Notes!Dismiss
  <2>2. IsShape([screen[s] EXCEPT !.on = FALSE]) /\ [screen[s] EXCEPT !.on = FALSE].on = FALSE
    BY <1>5, ShapeTurnedOff DEF Notes!Dismiss, NoteInv, ScreenShape
  <2>3. ScreenShape'
    BY <2>1, <2>2 DEF NoteInv, ScreenShape, IsShape
  <2>4. \A t \in Sessions : screen'[t] = screen[t] \/ ~screen'[t].on
    BY <2>1, <2>2 DEF NoteInv, ScreenShape
  <2> QED
    BY <1>5, <2>3, <2>4, SameRequests DEF Notes!Dismiss
<1>6. CASE Notes!Answered
  <2>1. PICK gone \in SUBSET Notes!Live(pending) :
          Notes!OnApprovals([r \in Requests |-> IF r \in gone THEN None ELSE pending[r]])
    BY <1>6 DEF Notes!Answered
  <2> QED
    BY <2>1, OnApprovalsKeeps DEF NoteInv, PendingShape
<1>7. CASE Notes!PromptAnswered
  BY <1>7, PromptAnsweredKeeps
<1>8. CASE Notes!Turns
  BY <1>8 DEF Notes!Turns, NoteInv, ScreenShape, PendingShape, Notes!NoneStays, Notes!Live
<1> QED
  BY <1>1, <1>2, <1>3, <1>4, <1>5, <1>6, <1>7, <1>8 DEF Notes!Next

(* When nothing is blocked any more, no permission notification is on screen *)
(* (_onApprovals closes them), for any number of sessions and requests,      *)
(* whatever was clicked, closed, replaced or shown late; save one that       *)
(* waited for the browser's own prompt until its request had been answered.  *)
(* None stands for no session.                                               *)
THEOREM NonePermissionStays ==
  ASSUME None \notin Sessions
  PROVE  Notes!Spec => []Notes!NoneStays
<1>1. NoteInv => Notes!NoneStays
  BY DEF NoteInv
<1> QED
  BY <1>1, NoteInit, NoteStep, PTL DEF Notes!Spec

-----------------------------------------------------------------------------
Known  == {Desk!NoBook} \cup UNION {Books[f] : f \in Folders}
Places == Folders \cup {None}
Waiter == [n : Nat \ {0}, kind : Desk!Kinds]
Views  == [projects : SUBSET Folders, selected : Places,
           mode : {"idle", "recipe", "race"}, busy : BOOLEAN,
           waiter : {None} \cup Waiter, loading : BOOLEAN,
           recipes : [Folders -> [state : {"none", "loading", "read", "failed"},
                                  book : Known]]]
DeskAsks   == [t : {"projects", "recipe", "probe", "apply", "race"}, folder : Places,
           at : {"asked", "answered", "failed"}, list : SUBSET Folders, book : Known]
Orders == [n : Nat, kind : Desk!Kinds, folder : Folders]
Begun  == [by : Nat, kind : Desk!Kinds, folder : Folders, at : Folders \cup {Home}]
Frames == [t : {"created"}, session : Begun] \cup [t : {"error"}, session : {None}]
Outcomes == [how : {"pending", "not sent", "opened", "elsewhere", "refused", "unnamed"},
             by : Nat]

LauncherTypeOK ==
  /\ disk \in [Folders -> Desk!Stored]
  /\ link \in BOOLEAN /\ up \in Seq(Orders) /\ queue \in Seq(Orders)
  /\ down \in Seq(Frames)
  /\ calls \subseteq DeskAsks /\ view \in Views /\ others \in Nat
  /\ asked \in Seq([folder : Folders, kind : Desk!Kinds]) /\ told \in Seq(Outcomes)
  /\ Len(told) = Len(asked)

(* What is on its way as the recipe of a folder is one of that folder, and  *)
(* was checked when it was read.                                            *)
Sound(f, book) ==
  book # Desk!NoBook => /\ book \in Books[f]
                   /\ \A a \in Desk!Range(book) : a.cwd \notin {"outside", "linked"}
RecipesAreSound ==
  /\ \A f \in Folders : Desk!MayHold(f, disk[f])
  /\ \A c \in calls : c.t \in {"recipe", "probe", "apply"} => c.folder \in Folders
  /\ \A c \in calls : c.t \in {"recipe", "probe"} => Sound(c.folder, c.book)
  /\ Desk!RecipeIsTheFolders

(* One thing at a time keeps the screen busy: a launch that waits, or one   *)
(* request.                                                                 *)
Holds(c) == c.t \in {"apply", "race"}
OneHolds ==
  /\ view.waiter # None => view.busy /\ \A c \in calls : ~Holds(c)
  /\ \A c \in calls : Holds(c) => view.busy
  /\ \A c, d \in calls : Holds(c) /\ Holds(d) => c = d
  /\ Desk!BusyHasAnEnd

(* The launch that waits is the last one.                                   *)
LastWaits ==
  /\ view.waiter # None => view.waiter.n = Len(told)
  /\ \A n \in DOMAIN told : told[n].how = "pending"
       <=> view.waiter # None /\ view.waiter.n = n

(* A launch is on its way once: as an order, or as what was begun by it.    *)
IsBegun(i) == down[i].t = "created"
LinkEmpty == IF link THEN queue = <<>> ELSE up = <<>> /\ down = <<>>
Once ==
  /\ \A i, j \in DOMAIN down :
       i # j /\ IsBegun(i) /\ IsBegun(j) => down[i].session.by # down[j].session.by
  /\ \A i \in DOMAIN down, j \in DOMAIN up : IsBegun(i) => down[i].session.by # up[j].n
  /\ \A i, j \in DOMAIN up : i # j => up[i].n # up[j].n
  /\ \A i, j \in DOMAIN queue : i # j => queue[i].n # queue[j].n

(* It waits for its answer, or some launch up to it was given up.           *)
Excused ==
  {k \in DOMAIN told : told[k].how = "pending" \/ \E j \in 1..k : Desk!GivenUp(j)}
Accounted ==
  /\ \A i \in DOMAIN up : up[i].n \in Excused
  /\ \A i \in DOMAIN queue : queue[i].n \in Excused
  /\ \A i \in DOMAIN down : IsBegun(i) => down[i].session.by \in Excused

LaunchInv ==
  /\ LastWaits /\ LinkEmpty
  /\ others = 0 => Once /\ Accounted
  /\ Desk!LaunchIsItsOwn

LauncherInv == LauncherTypeOK /\ RecipesAreSound /\ OneHolds /\ LaunchInv

Apart == None \notin Waiter

-----------------------------------------------------------------------------
LEMMA ReadIsSound ==
  ASSUME LauncherTypeOK, RecipesAreSound, NEW f \in Folders
  PROVE  Desk!ReadRecipe(f) \in Known /\ Sound(f, Desk!ReadRecipe(f))
<1>1. CASE Desk!ReadRecipe(f) = Desk!NoBook  BY <1>1 DEF Known, Sound
<1>2. CASE Desk!ReadRecipe(f) # Desk!NoBook
  <2>1. /\ Desk!ReadRecipe(f) = disk[f].book /\ Desk!Valid(disk[f].book)
        /\ \A a \in Desk!Range(disk[f].book) : a.cwd # "linked"
    BY <1>2 DEF Desk!ReadRecipe
  <2>2. disk[f].book \in Books[f]  BY <1>2, <2>1 DEF RecipesAreSound, Desk!MayHold
  <2> QED  BY <2>1, <2>2 DEF Known, Sound, Desk!Valid
<1> QED  BY <1>1, <1>2

(* A call that is answered is the same call.                                *)
Same(c, d) == c.t = d.t /\ c.folder = d.folder

LEMMA AnsweredIsSame ==
  ASSUME NEW c \in DeskAsks, NEW ok \in BOOLEAN, NEW names \in SUBSET Folders, NEW book \in Known
  PROVE  /\ Desk!Answered(c, ok, names, book) \in DeskAsks
         /\ Same(c, Desk!Answered(c, ok, names, book))
         /\ Desk!Answered(c, ok, names, book).book = book
BY DEF DeskAsks, Desk!Answered, Same

(* What every answer to a request does to the requests under way.           *)
Replies(c, book) ==
  /\ c \in calls /\ calls' \subseteq DeskAsks
  /\ \A d \in calls' : d \in calls \/ (Same(c, d) /\ d.book = book)
  /\ \A d, e \in calls' : d # e => \E b \in calls \ {c} : b = d \/ b = e
  /\ \A d \in calls : \E e \in calls' : Same(d, e)

LEMMA AnswerReplies ==
  ASSUME LauncherTypeOK, NEW c \in calls, NEW ok \in BOOLEAN, NEW names \in SUBSET Folders,
         NEW book \in Known, Desk!Answer(c, ok, names, book)
  PROVE  Replies(c, book)
<1>1. c \in DeskAsks  BY DEF LauncherTypeOK
<1> DEFINE a == Desk!Answered(c, ok, names, book)
<1>2. a \in DeskAsks /\ Same(c, a) /\ a.book = book  BY <1>1, AnsweredIsSame
<1>3. calls' = (calls \ {c}) \cup {a}  BY DEF Desk!Answer
<1> HIDE DEF a
<1>4. \A d \in calls : Same(d, d)  BY DEF Same
<1> QED  BY <1>2, <1>3, <1>4 DEF Replies, LauncherTypeOK

(* The five ways in which a request is answered.                            *)
ServerOf(c) ==
  \/ Desk!ServerLists(c) \/ Desk!ServerReads(c) \/ Desk!ServerApplies(c) \/ Desk!ServerRaces(c) \/ Desk!ReplyLost(c)

LEMMA ServerAnswers ==
  ASSUME LauncherTypeOK, RecipesAreSound, NEW c \in calls, ServerOf(c)
  PROVE  /\ \E book \in Known : /\ Replies(c, book)
                                /\ c.t \in {"recipe", "probe"} => Sound(c.folder, book)
         /\ UNCHANGED <<disk, Desk!wire, view, asked, told, others>>
<1>0. Desk!NoBook \in Known /\ {} \in SUBSET Folders /\ \A f : Sound(f, Desk!NoBook)
  BY DEF Known, Sound
<1>1. CASE Desk!ServerLists(c)
  <2>1. PICK names \in SUBSET Folders : Desk!Answer(c, TRUE, names, Desk!NoBook)
    BY <1>1 DEF Desk!ServerLists
  <2>2. Replies(c, Desk!NoBook)  BY <2>1, <1>0, AnswerReplies
  <2> QED  BY <1>0, <1>1, <2>2 DEF Desk!ServerLists
<1>2. CASE Desk!ServerReads(c)
  <2>1. c.folder \in Folders  BY <1>2 DEF Desk!ServerReads, RecipesAreSound
  <2>2. Desk!ReadRecipe(c.folder) \in Known /\ Sound(c.folder, Desk!ReadRecipe(c.folder))
    BY <2>1, ReadIsSound
  <2>3. Desk!Answer(c, TRUE, {}, Desk!ReadRecipe(c.folder))  BY <1>2 DEF Desk!ServerReads
  <2>4. Replies(c, Desk!ReadRecipe(c.folder))  BY <1>0, <2>2, <2>3, AnswerReplies
  <2> QED  BY <1>2, <2>2, <2>4 DEF Desk!ServerReads
<1>3. CASE Desk!ServerApplies(c)
  <2>0. c.t = "apply"  BY <1>3 DEF Desk!ServerApplies
  <2>1. c.folder \in Folders  BY <2>0 DEF RecipesAreSound
  <2>2. Desk!ReadRecipe(c.folder) \in Known  BY <2>1, ReadIsSound
  <2>3. \E ok \in BOOLEAN : Desk!Answer(c, ok, {}, Desk!ReadRecipe(c.folder))
    <3>1. CASE Desk!Answer(c, FALSE, {}, Desk!ReadRecipe(c.folder))  BY <3>1
    <3>2. CASE \E k \in 1..Len(Desk!ReadRecipe(c.folder)) :
                 LET book == Desk!ReadRecipe(c.folder)
                     fails == k # Len(book) \/ book[k].bypass \/ Len(sessions) + k > MaxSessions
                 IN  Desk!Answer(c, ~fails, {}, book)
      BY <3>2
    <3> QED  BY <1>3, <3>1, <3>2 DEF Desk!ServerApplies
  <2>4. Replies(c, Desk!ReadRecipe(c.folder))  BY <1>0, <2>2, <2>3, AnswerReplies
  <2> QED  BY <1>3, <2>0, <2>2, <2>4 DEF Desk!ServerApplies
<1>4. CASE Desk!ServerRaces(c)
  <2>1. Replies(c, Desk!NoBook)  BY <1>0, <1>4, AnswerReplies DEF Desk!ServerRaces
  <2> QED  BY <1>0, <1>4, <2>1 DEF Desk!ServerRaces
<1>5. CASE Desk!ReplyLost(c)
  <2>1. Replies(c, Desk!NoBook)  BY <1>0, <1>5, AnswerReplies DEF Desk!ReplyLost
  <2> QED  BY <1>0, <1>5, <2>1 DEF Desk!ReplyLost
<1> QED  BY <1>1, <1>2, <1>3, <1>4, <1>5 DEF ServerOf

LEMMA LaunchLeft ==
  ASSUME LaunchInv, UNCHANGED <<Desk!wire, told, others>>, view'.waiter = view.waiter
  PROVE  LaunchInv'
<1>1. UNCHANGED <<link, up, down, queue, told, others>>  BY DEF Desk!wire
<1>2. LastWaits'  BY <1>1 DEF LaunchInv, LastWaits
<1>3. LinkEmpty'  BY <1>1 DEF LaunchInv, LinkEmpty
<1>4. Once => Once'  BY <1>1 DEF Once, IsBegun
<1>5. Accounted => Accounted'  BY <1>1 DEF Accounted, Excused, Desk!GivenUp, IsBegun
<1>6. Desk!LaunchIsItsOwn'  BY <1>1 DEF LaunchInv, Desk!LaunchIsItsOwn, Desk!GivenUp
<1> QED  BY <1>1, <1>2, <1>3, <1>4, <1>5, <1>6 DEF LaunchInv

LEMMA RecipesLeft ==
  ASSUME RecipesAreSound, UNCHANGED disk,
         \A d \in calls' : \/ d \in calls
                           \/ /\ d.t \in {"recipe", "probe", "apply"} => d.folder \in Folders
                              /\ d.t \in {"recipe", "probe"} => Sound(d.folder, d.book),
         \A f \in Folders : \/ view'.recipes[f].book = view.recipes[f].book
                            \/ Sound(f, view'.recipes[f].book)
  PROVE  RecipesAreSound'
BY DEF RecipesAreSound, Desk!RecipeIsTheFolders, Sound, Desk!MayHold

LEMMA HoldsLeft ==
  ASSUME OneHolds, view'.waiter = view.waiter, view'.busy = view.busy,
         \A d : Holds(d) => (d \in calls <=> d \in calls')
  PROVE  OneHolds'
BY DEF OneHolds, Holds, Desk!BusyHasAnEnd

(* A request that is made.                                                  *)
LEMMA RequestIsNew ==
  ASSUME NEW t \in {"projects", "recipe", "probe", "apply", "race"}, NEW f \in Places
  PROVE  /\ Desk!Request(t, f) \in DeskAsks /\ Desk!Request(t, f).t = t /\ Desk!Request(t, f).folder = f
         /\ \A g : Sound(g, Desk!Request(t, f).book)
BY DEF Desk!Request, DeskAsks, Known, Sound

LEMMA ChosenIsSound ==
  ASSUME NEW v \in Views, NEW f \in Folders
  PROVE  /\ Desk!Chosen(v, f) \in Views
         /\ Desk!Chosen(v, f).waiter = v.waiter /\ Desk!Chosen(v, f).busy = v.busy
         /\ \A g \in Folders : \/ Desk!Chosen(v, f).recipes[g].book = v.recipes[g].book
                               \/ Sound(g, Desk!Chosen(v, f).recipes[g].book)
         /\ \A d \in Desk!Wants(v, f) : /\ d \in DeskAsks /\ d.t = "recipe" /\ d.folder \in Folders
                                   /\ Sound(d.folder, d.book)
<1> DEFINE w == [v EXCEPT !.selected = f, !.mode = "idle"]
<1>1. /\ w \in Views /\ w.waiter = v.waiter /\ w.busy = v.busy /\ w.recipes = v.recipes
  BY DEF Views, Places
<1> HIDE DEF w
<1>2. [state |-> "loading", book |-> Desk!NoBook]
        \in [state : {"none", "loading", "read", "failed"}, book : Known]
  BY DEF Known
<1>3. \/ Desk!Loading(w, f) = w
      \/ Desk!Loading(w, f) = [w EXCEPT !.recipes[f] = [state |-> "loading", book |-> Desk!NoBook]]
  BY DEF Desk!Loading
<1>4. /\ Desk!Loading(w, f) \in Views
      /\ Desk!Loading(w, f).waiter = w.waiter /\ Desk!Loading(w, f).busy = w.busy
      /\ \A g \in Folders : \/ Desk!Loading(w, f).recipes[g].book = w.recipes[g].book
                            \/ Desk!Loading(w, f).recipes[g].book = Desk!NoBook
  <2>1. CASE Desk!Loading(w, f) = w  BY <1>1, <2>1
  <2>2. CASE Desk!Loading(w, f) # w
    <3> DEFINE r == [state |-> "loading", book |-> Desk!NoBook]
    <3>1. Desk!Loading(w, f) = [w EXCEPT !.recipes[f] = r]  BY <1>3, <2>2
    <3>2. r \in [state : {"none", "loading", "read", "failed"}, book : Known] /\ r.book = Desk!NoBook
      BY <1>2
    <3> HIDE DEF r
    <3> QED  BY <1>1, <3>1, <3>2 DEF Views
  <2> QED  BY <2>1, <2>2
<1>5. \A g : Sound(g, Desk!NoBook)  BY DEF Sound
<1>6. Desk!Chosen(v, f) = Desk!Loading(w, f)  BY DEF Desk!Chosen, w
<1>7. \A d \in Desk!Wants(v, f) : d = Desk!Request("recipe", f)  BY DEF Desk!Wants
<1>8. f \in Places  BY DEF Places
<1> QED  BY <1>1, <1>4, <1>5, <1>6, <1>7, <1>8, RequestIsNew

-----------------------------------------------------------------------------
(* Steps that neither launch nor answer a launch.                           *)
LEMMA ServerKeeps ==
  ASSUME LauncherInv, NEW c \in calls, ServerOf(c)
  PROVE  LauncherInv'
<1>1. PICK book \in Known : /\ Replies(c, book)
                            /\ c.t \in {"recipe", "probe"} => Sound(c.folder, book)
  BY ServerAnswers DEF LauncherInv
<1>2. UNCHANGED <<disk, Desk!wire, view, asked, told, others>>
  BY ServerAnswers DEF LauncherInv
<1>3. \A d \in calls' : d \in calls \/ (d.t = c.t /\ d.folder = c.folder /\ d.book = book)
  BY <1>1 DEF Replies, Same
<1>4. LauncherTypeOK'
  BY <1>1, <1>2 DEF LauncherInv, LauncherTypeOK, Replies, Desk!wire
<1>5. RecipesAreSound'
  BY <1>1, <1>2, <1>3, RecipesLeft DEF LauncherInv, RecipesAreSound
<1>6. LaunchInv'  BY <1>2, LaunchLeft DEF LauncherInv
<1>7. OneHolds'
  <2>1. \A d \in calls' : Holds(d) => \E e \in calls : Holds(e) /\ (d = e \/ (e = c /\ d \notin calls))
    BY <1>1, <1>3 DEF Holds
  <2>2. \A d \in calls : Holds(d) => \E e \in calls' : Holds(e)
    BY <1>1 DEF Replies, Same, Holds
  <2>3. \A d, e \in calls' : Holds(d) /\ Holds(e) => d = e
    <3> SUFFICES ASSUME NEW d \in calls', NEW e \in calls', Holds(d), Holds(e), d # e
                 PROVE  FALSE
      OBVIOUS
    <3>1. PICK b \in calls \ {c} : b = d \/ b = e  BY <1>1 DEF Replies
    <3>2. Holds(b)  BY <3>1
    <3>3. \A a \in calls : Holds(a) => a = b  BY <3>1, <3>2 DEF LauncherInv, OneHolds
    <3>4. \A a \in calls' : Holds(a) => a = b
      BY <2>1, <3>1, <3>3
    <3> QED  BY <3>4
  <2> QED  BY <1>2, <2>1, <2>2, <2>3 DEF LauncherInv, OneHolds, Desk!BusyHasAnEnd, Holds
<1> QED  BY <1>4, <1>5, <1>6, <1>7 DEF LauncherInv

(* What a click or a reply leaves alone.                                    *)
Else == UNCHANGED <<disk, Desk!wire, asked, told, others>>

LEMMA RedrawKeeps ==
  ASSUME LauncherInv, Else, view' \in Views, calls' \subseteq DeskAsks,
         view'.waiter = view.waiter, view'.busy = view.busy,
         \A d : Holds(d) => (d \in calls <=> d \in calls'),
         \A d \in calls' : \/ d \in calls
                           \/ /\ d.t \in {"recipe", "probe", "apply"} => d.folder \in Folders
                              /\ d.t \in {"recipe", "probe"} => Sound(d.folder, d.book),
         \A f \in Folders : \/ view'.recipes[f].book = view.recipes[f].book
                            \/ Sound(f, view'.recipes[f].book)
  PROVE  LauncherInv'
<1>1. LauncherTypeOK'  BY DEF LauncherInv, LauncherTypeOK, Else, Desk!wire
<1>2. RecipesAreSound'  BY RecipesLeft DEF LauncherInv, Else
<1>3. OneHolds'  BY HoldsLeft DEF LauncherInv
<1>4. LaunchInv'  BY LaunchLeft DEF LauncherInv, Else
<1> QED  BY <1>1, <1>2, <1>3, <1>4 DEF LauncherInv

LEMMA ClicksKeep ==
  ASSUME LauncherInv, NEW f \in Folders,
         Desk!Select(f) \/ Desk!OpenFreePath(f)
  PROVE  LauncherInv'
<1>0. view \in Views /\ calls \subseteq DeskAsks  BY DEF LauncherInv, LauncherTypeOK
<1>1. CASE Desk!Select(f)
  <2>1. view' = Desk!Chosen(view, f) /\ calls' = calls \cup Desk!Wants(view, f) /\ Else
    BY <1>1 DEF Desk!Select, Else
  <2>2. \A d \in Desk!Wants(view, f) : ~Holds(d)  BY <1>0, ChosenIsSound DEF Holds
  <2>3. /\ view' \in Views /\ view'.waiter = view.waiter /\ view'.busy = view.busy
        /\ \A g \in Folders : \/ view'.recipes[g].book = view.recipes[g].book
                              \/ Sound(g, view'.recipes[g].book)
        /\ \A d \in Desk!Wants(view, f) : /\ d \in DeskAsks /\ d.t = "recipe" /\ d.folder \in Folders
                                     /\ Sound(d.folder, d.book)
    BY <1>0, <2>1, ChosenIsSound
  <2>4. calls' \subseteq DeskAsks  BY <1>0, <2>1, <2>3
  <2>5. \A d : Holds(d) => (d \in calls <=> d \in calls')  BY <2>1, <2>2
  <2>6. \A d \in calls' : \/ d \in calls
                          \/ d.t = "recipe" /\ d.folder \in Folders /\ Sound(d.folder, d.book)
    BY <2>1, <2>3
  <2> QED  BY <2>1, <2>3, <2>4, <2>5, <2>6, RedrawKeeps
<1>2. CASE Desk!OpenFreePath(f)
  <2> DEFINE r == Desk!Request("probe", f)
  <2>1. view' = view /\ calls' = calls \cup {r} /\ Else  BY <1>2 DEF Desk!OpenFreePath, Else
  <2>2. r \in DeskAsks /\ r.t = "probe" /\ r.folder = f /\ Sound(f, r.book)
    BY RequestIsNew DEF Places
  <2> HIDE DEF r
  <2>3. \A d : Holds(d) => (d \in calls <=> d \in calls')  BY <2>1, <2>2 DEF Holds
  <2>4. calls' \subseteq DeskAsks  BY <1>0, <2>1, <2>2
  <2>5. \A d \in calls' : \/ d \in calls
                          \/ d.t = "probe" /\ d.folder \in Folders /\ Sound(d.folder, d.book)
    BY <2>1, <2>2
  <2> QED  BY <1>0, <2>1, <2>3, <2>4, <2>5, RedrawKeeps
<1> QED  BY <1>1, <1>2

LEMMA ScreenKeeps ==
  ASSUME LauncherInv, Desk!Refresh \/ Desk!RunThisRecipe \/ Desk!Cancel
  PROVE  LauncherInv'
<1>0. view \in Views /\ calls \subseteq DeskAsks  BY DEF LauncherInv, LauncherTypeOK
<1>1. CASE Desk!Refresh
  <2> DEFINE r == Desk!Request("projects", None)
  <2>1. view' = [view EXCEPT !.loading = TRUE] /\ calls' = calls \cup {r} /\ Else
    BY <1>1 DEF Desk!Refresh, Else
  <2>2. r \in DeskAsks /\ r.t = "projects"  BY RequestIsNew DEF Places
  <2> HIDE DEF r
  <2>3. \A d : Holds(d) => (d \in calls <=> d \in calls')  BY <2>1, <2>2 DEF Holds
  <2>4. calls' \subseteq DeskAsks  BY <1>0, <2>1, <2>2
  <2>5. \A d \in calls' : d \in calls \/ d.t = "projects"  BY <2>1, <2>2
  <2>6. /\ view' \in Views /\ view'.waiter = view.waiter /\ view'.busy = view.busy
        /\ view'.recipes = view.recipes
    BY <1>0, <2>1 DEF Views
  <2> QED  BY <2>1, <2>3, <2>4, <2>5, <2>6, RedrawKeeps
<1>2. CASE Desk!RunThisRecipe \/ Desk!Cancel
  <2>1. PICK m \in {"idle", "recipe"} : view' = [view EXCEPT !.mode = m]
    BY <1>2 DEF Desk!RunThisRecipe, Desk!Cancel
  <2>2. calls' = calls /\ Else  BY <1>2 DEF Desk!RunThisRecipe, Desk!Cancel, Else
  <2>3. /\ view' \in Views /\ view'.waiter = view.waiter /\ view'.busy = view.busy
        /\ view'.recipes = view.recipes
    BY <1>0, <2>1 DEF Views
  <2> QED  BY <1>0, <2>2, <2>3, RedrawKeeps
<1> QED  BY <1>1, <1>2

LEMMA RepliesKeep ==
  ASSUME LauncherInv, NEW c \in calls, Desk!Listed(c) \/ Desk!RecipeRead(c)
  PROVE  LauncherInv'
<1>0. view \in Views /\ calls \subseteq DeskAsks /\ c \in DeskAsks
  BY DEF LauncherInv, LauncherTypeOK
<1>1. CASE Desk!RecipeRead(c)
  <2> DEFINE r == [state |-> IF c.at = "answered" THEN "read" ELSE "failed", book |-> c.book]
  <2>1. /\ c.t = "recipe" /\ calls' = calls \ {c} /\ Else
        /\ view' = [view EXCEPT !.recipes[c.folder] = r]
    BY <1>1 DEF Desk!RecipeRead, Desk!Filed, Else
  <2>2. c.folder \in Folders /\ Sound(c.folder, c.book)
    BY <2>1 DEF LauncherInv, RecipesAreSound
  <2>3. r \in [state : {"none", "loading", "read", "failed"}, book : Known] /\ r.book = c.book
    BY <1>0 DEF DeskAsks
  <2> HIDE DEF r
  <2>4. /\ view' \in Views /\ view'.waiter = view.waiter /\ view'.busy = view.busy
        /\ \A g \in Folders : \/ view'.recipes[g].book = view.recipes[g].book
                              \/ g = c.folder /\ view'.recipes[g].book = r.book
    BY <1>0, <2>1, <2>2, <2>3 DEF Views
  <2>5. \A d : Holds(d) => (d \in calls <=> d \in calls')  BY <2>1 DEF Holds
  <2>6. calls' \subseteq DeskAsks /\ \A d \in calls' : d \in calls  BY <1>0, <2>1
  <2> QED  BY <2>1, <2>2, <2>3, <2>4, <2>5, <2>6, RedrawKeeps
<1>2. CASE Desk!Listed(c)
  <2> DEFINE v == [view EXCEPT !.loading = FALSE,
                     !.projects = IF c.at = "answered" THEN c.list ELSE @,
                     !.selected = IF c.at = "answered" /\ @ \notin c.list THEN None ELSE @]
  <2>1. PICK row \in Desk!Rows(v) :
          LET same == row \in {None, v.selected} IN
          /\ view' = IF same THEN v ELSE Desk!Chosen(v, row)
          /\ calls' = (calls \ {c}) \cup (IF same THEN {} ELSE Desk!Wants(v, row))
    BY <1>2 DEF Desk!Listed
  <2>2. c.t = "projects" /\ Else  BY <1>2 DEF Desk!Listed, Else
  <2>3. /\ v \in Views /\ v.waiter = view.waiter /\ v.busy = view.busy
        /\ v.recipes = view.recipes
    BY <1>0 DEF Views, DeskAsks, Places
  <2>4. v.projects \subseteq Folders  BY <2>3 DEF Views
  <2> HIDE DEF v
  <2>5. ~Holds(c)  BY <2>2 DEF Holds
  <2>6. CASE row \in {None, v.selected}
    <3>1. view' = v /\ calls' = calls \ {c}  BY <2>1, <2>6
    <3>2. \A d : Holds(d) => (d \in calls <=> d \in calls')  BY <2>5, <3>1
    <3>3. calls' \subseteq DeskAsks /\ \A d \in calls' : d \in calls  BY <1>0, <3>1
    <3> QED  BY <2>2, <2>3, <3>1, <3>2, <3>3, RedrawKeeps
  <2>7. CASE row \notin {None, v.selected}
    <3>1. view' = Desk!Chosen(v, row) /\ calls' = (calls \ {c}) \cup Desk!Wants(v, row)
      BY <2>1, <2>7
    <3>2. row \in Folders  BY <2>1, <2>4, <2>7 DEF Desk!Rows
    <3>3. /\ view' \in Views /\ view'.waiter = v.waiter /\ view'.busy = v.busy
          /\ \A g \in Folders : \/ view'.recipes[g].book = v.recipes[g].book
                                \/ Sound(g, view'.recipes[g].book)
          /\ \A d \in Desk!Wants(v, row) : /\ d \in DeskAsks /\ d.t = "recipe" /\ d.folder \in Folders
                                      /\ Sound(d.folder, d.book)
      BY <2>3, <3>1, <3>2, ChosenIsSound
    <3>4. \A d : Holds(d) => (d \in calls <=> d \in calls')  BY <2>5, <3>1, <3>3 DEF Holds
    <3>5. calls' \subseteq DeskAsks  BY <1>0, <3>1, <3>3
    <3>6. \A d \in calls' : \/ d \in calls
                            \/ d.t = "recipe" /\ d.folder \in Folders /\ Sound(d.folder, d.book)
      BY <3>1, <3>3
    <3> QED  BY <2>2, <2>3, <3>3, <3>4, <3>5, <3>6, RedrawKeeps
  <2> QED  BY <2>6, <2>7
<1> QED  BY <1>1, <1>2

(* A request that keeps the screen busy, and its end.                       *)
LEMMA HoldersKeep ==
  ASSUME LauncherInv, Desk!ApplyRecipe \/ Desk!StartRace
  PROVE  LauncherInv'
<1>0. view \in Views /\ calls \subseteq DeskAsks  BY DEF LauncherInv, LauncherTypeOK
<1>1. PICK t \in {"apply", "race"}, m \in {"idle", "recipe", "race"} :
        /\ view' = [view EXCEPT !.busy = TRUE, !.mode = m]
        /\ calls' = calls \cup {Desk!Request(t, view.selected)}
  <2>1. CASE Desk!ApplyRecipe
    <3>1. /\ view.mode = "recipe" /\ view' = [view EXCEPT !.busy = TRUE]
          /\ calls' = calls \cup {Desk!Request("apply", view.selected)}
      BY <2>1 DEF Desk!ApplyRecipe
    <3>2. view' = [view EXCEPT !.busy = TRUE, !.mode = "recipe"]
      BY <1>0, <3>1 DEF Views
    <3> QED  BY <3>1, <3>2
  <2>2. CASE Desk!StartRace  BY <2>2 DEF Desk!StartRace
  <2> QED  BY <2>1, <2>2
<1>2. /\ ~view.busy /\ Else /\ view.selected # None
  BY DEF Desk!ApplyRecipe, Desk!StartRace, Else, Desk!Offered
<1> DEFINE r == Desk!Request(t, view.selected)
<1>3. view.selected \in Folders /\ view.selected \in Places  BY <1>0, <1>2 DEF Views, Places
<1>4. r \in DeskAsks /\ r.t = t /\ r.folder = view.selected /\ Sound(view.selected, r.book)
  BY <1>3, RequestIsNew
<1>5. calls' = calls \cup {r}  BY <1>1
<1> HIDE DEF r
<1>6. /\ view' \in Views /\ view'.waiter = view.waiter /\ view'.busy
      /\ view'.recipes = view.recipes
  BY <1>0, <1>1 DEF Views
<1>7. LauncherTypeOK'
  BY <1>2, <1>4, <1>5, <1>6 DEF LauncherInv, LauncherTypeOK, Else, Desk!wire
<1>8. \A d \in calls' : \/ d \in calls
                        \/ /\ d.t \in {"recipe", "probe", "apply"} => d.folder \in Folders
                           /\ d.t \in {"recipe", "probe"} => Sound(d.folder, d.book)
  BY <1>3, <1>4, <1>5
<1>9. RecipesAreSound'  BY <1>2, <1>6, <1>8, RecipesLeft DEF LauncherInv, Else
<1>10. LaunchInv'  BY <1>2, <1>6, LaunchLeft DEF LauncherInv, Else
<1>11. view.waiter = None /\ \A d \in calls : ~Holds(d)
  BY <1>2 DEF LauncherInv, OneHolds
<1>12. OneHolds'
  BY <1>1, <1>4, <1>5, <1>6, <1>11 DEF OneHolds, Desk!BusyHasAnEnd, Holds
<1> QED  BY <1>7, <1>9, <1>10, <1>12 DEF LauncherInv

LEMMA DoneKeeps ==
  ASSUME LauncherInv, NEW c \in calls, Desk!Done(c)
  PROVE  LauncherInv'
<1>0. view \in Views /\ calls \subseteq DeskAsks  BY DEF LauncherInv, LauncherTypeOK
<1>1. Holds(c) /\ calls' = calls \ {c} /\ Else
  BY DEF Desk!Done, Holds, Else
<1>2. view' = Desk!Over(view, c)  BY DEF Desk!Done
<1>3. /\ view' \in Views /\ view'.waiter = view.waiter /\ ~view'.busy
      /\ view'.recipes = view.recipes
  BY <1>0, <1>2 DEF Views, Desk!Over
<1>4. LauncherTypeOK'  BY <1>1, <1>3 DEF LauncherInv, LauncherTypeOK, Else, Desk!wire
<1>5. RecipesAreSound'  BY <1>1, <1>3, RecipesLeft DEF LauncherInv, Else
<1>6. LaunchInv'  BY <1>1, <1>3, LaunchLeft DEF LauncherInv, Else
<1>7. view.waiter = None /\ \A d \in calls' : ~Holds(d)
  BY <1>1 DEF LauncherInv, OneHolds
<1>8. OneHolds'  BY <1>3, <1>7 DEF OneHolds, Desk!BusyHasAnEnd
<1> QED  BY <1>4, <1>5, <1>6, <1>8 DEF LauncherInv

LEMMA EditKeeps ==
  ASSUME LauncherInv, NEW f \in Folders, Desk!Edit(f)
  PROVE  LauncherInv'
<1>1. PICK d \in Desk!Stored : Desk!MayHold(f, d) /\ disk' = [disk EXCEPT ![f] = d]
  BY DEF Desk!Edit
<1>2. UNCHANGED <<Desk!wire, calls, view, asked, told, others>>  BY DEF Desk!Edit
<1>3. disk' \in [Folders -> Desk!Stored] /\ \A g \in Folders : Desk!MayHold(g, disk'[g])
  BY <1>1 DEF LauncherInv, LauncherTypeOK, RecipesAreSound
<1>4. LauncherTypeOK'  BY <1>2, <1>3 DEF LauncherInv, LauncherTypeOK, Desk!wire
<1>5. RecipesAreSound'
  BY <1>2, <1>3 DEF LauncherInv, RecipesAreSound, Desk!RecipeIsTheFolders, Desk!MayHold, Sound
<1>6. OneHolds'  BY <1>2, HoldsLeft DEF LauncherInv
<1>7. LaunchInv'  BY <1>2, LaunchLeft DEF LauncherInv
<1> QED  BY <1>4, <1>5, <1>6, <1>7 DEF LauncherInv

-----------------------------------------------------------------------------
LEMMA Appended ==
  ASSUME NEW S, NEW s \in Seq(S), NEW e \in S, NEW t, t = Append(s, e)
  PROVE  /\ t \in Seq(S) /\ Len(s) \in Nat /\ Len(t) = Len(s) + 1
         /\ DOMAIN s = 1..Len(s) /\ DOMAIN t = 1..(Len(s) + 1)
         /\ t[Len(s) + 1] = e /\ \A i \in 1..Len(s) : t[i] = s[i]
OBVIOUS

(* A launch is excused until something else is told of it than that it      *)
(* waits, and from then on if it was given up or something before it was.   *)
LEMMA TellingKeepsExcused ==
  ASSUME NEW l \in Nat, DOMAIN told = 1..l, NEW w \in {l, l + 1}, DOMAIN told' = 1..w,
         \A i \in 1..l : i # w => told'[i] = told[i],
         w = l => told[w].how = "pending",
         NEW k, k \in Excused, k # w
  PROVE  k \in Excused'
<1>1. \A j \in 1..l : Desk!GivenUp(j) => Desk!GivenUp(j)'
  <2> SUFFICES ASSUME NEW j \in 1..l, Desk!GivenUp(j)  PROVE Desk!GivenUp(j)'
    OBVIOUS
  <2>1. CASE j = w
    <3>1. w = l  BY <2>1
    <3>2. told[j].how = "pending"  BY <2>1, <3>1
    <3> QED  BY <3>2 DEF Desk!GivenUp
  <2>2. CASE j # w  BY <2>2 DEF Desk!GivenUp
  <2> QED  BY <2>1, <2>2
<1>2. k \in 1..l  BY DEF Excused
<1>3. \A j \in 1..k : j \in 1..l  BY <1>2
<1>4. k \in DOMAIN told' /\ told'[k] = told[k]  BY <1>2
<1> QED  BY <1>1, <1>3, <1>4 DEF Excused

LEMMA LaunchesKeep ==
  ASSUME Apart, LauncherInv, NEW v \in Views, NEW f \in Folders, NEW kind \in Desk!Kinds,
         ~view.busy, ~v.busy, v.waiter = view.waiter,
         \A g \in Folders : v.recipes[g].book = view.recipes[g].book \/ Sound(g, v.recipes[g].book),
         Desk!Launches(v, f, kind),
         UNCHANGED <<disk, link, down, others>>, calls' \subseteq calls,
         \A d : Holds(d) => (d \in calls <=> d \in calls')
  PROVE  LauncherInv'
<1> DEFINE l == Len(told)
           n == l + 1
           m == [n |-> n, kind |-> kind, folder |-> f]
           how == IF link THEN "pending" ELSE "not sent"
<1>1. /\ asked' = Append(asked, [folder |-> f, kind |-> kind])
      /\ told' = Append(told, Desk!Said(how, 0))
      /\ view' = IF link THEN [v EXCEPT !.busy = TRUE, !.waiter = [n |-> n, kind |-> kind]] ELSE v
      /\ IF link THEN up' = Append(up, m) /\ UNCHANGED queue
                 ELSE queue' = Append(queue, m) /\ UNCHANGED up
  BY DEF Desk!Launches, Desk!Transmit, Desk!Waiting, LauncherInv, LauncherTypeOK
<1>2. view.waiter = None /\ \A d \in calls : ~Holds(d)  BY DEF LauncherInv, OneHolds
<1>3. l \in Nat /\ l = Len(told) /\ DOMAIN told = 1..l
  BY DEF LauncherInv, LauncherTypeOK
<1> HIDE DEF l
<1>4. n \in Nat \ {0} /\ m \in Orders /\ Desk!Said(how, 0) \in Outcomes
  BY <1>3 DEF Orders, Outcomes, Desk!Said
<1>5. [n |-> n, kind |-> kind] \in Waiter  BY <1>4 DEF Waiter
<1> HIDE DEF m
<1>6. /\ view' \in Views /\ view'.recipes = v.recipes
      /\ link => view'.busy /\ view'.waiter = [n |-> n, kind |-> kind]
      /\ ~link => ~view'.busy /\ view'.waiter = None
  BY <1>1, <1>2, <1>5 DEF Views
<1>7. /\ up \in Seq(Orders) /\ queue \in Seq(Orders) /\ down \in Seq(Frames)
      /\ told \in Seq(Outcomes) /\ asked \in Seq([folder : Folders, kind : Desk!Kinds])
      /\ Len(told) = Len(asked)
  BY DEF LauncherInv, LauncherTypeOK
<1>8. /\ told' \in Seq(Outcomes) /\ Len(told') = n /\ DOMAIN told' = 1..n
      /\ told'[n] = Desk!Said(how, 0)
      /\ \A k \in 1..l : told'[k] = told[k]
  <2>1. told' = Append(told, Desk!Said(how, 0))  BY <1>1
  <2> HIDE DEF how
  <2>2. /\ told' \in Seq(Outcomes) /\ Len(told') = Len(told) + 1
        /\ DOMAIN told' = 1..(Len(told) + 1) /\ told'[Len(told) + 1] = Desk!Said(how, 0)
        /\ \A k \in 1..Len(told) : told'[k] = told[k]
    BY <1>7, <1>4, <2>1, Appended
  <2> QED  BY <1>3, <2>2
<1>9. /\ asked' \in Seq([folder : Folders, kind : Desk!Kinds]) /\ Len(asked') = n
  <2>1. [folder |-> f, kind |-> kind] \in [folder : Folders, kind : Desk!Kinds]  OBVIOUS
  <2>2. asked' = Append(asked, [folder |-> f, kind |-> kind])  BY <1>1
  <2>3. /\ asked' \in Seq([folder : Folders, kind : Desk!Kinds]) /\ Len(asked') = Len(asked) + 1
    BY <1>7, <2>1, <2>2, Appended
  <2> QED  BY <1>7, <1>3, <2>3
<1>10. /\ up' \in Seq(Orders) /\ queue' \in Seq(Orders)
  <2>1. CASE link
    <3>1. up' = Append(up, m) /\ queue' = queue  BY <1>1, <2>1
    <3> QED  BY <1>7, <1>4, <3>1, Appended
  <2>2. CASE ~link
    <3>1. queue' = Append(queue, m) /\ up' = up  BY <1>1, <2>2
    <3> QED  BY <1>7, <1>4, <3>1, Appended
  <2> QED  BY <2>1, <2>2
<1>11. LauncherTypeOK'
  BY <1>6, <1>8, <1>9, <1>10 DEF LauncherInv, LauncherTypeOK
<1>12. RecipesAreSound'  BY <1>6, RecipesLeft DEF LauncherInv
<1>13. OneHolds'
  BY <1>2, <1>5, <1>6
    DEF Apart, OneHolds, Desk!BusyHasAnEnd, Holds, LauncherInv, LauncherTypeOK
<1>14. how \in {"pending", "not sent"} /\ (link <=> how = "pending")
  BY DEF how
<1> HIDE DEF how
<1>15. told'[n].how = how  BY <1>8 DEF Desk!Said
<1>16. /\ n \in 1..n /\ \A k \in 1..n : k \in 1..l \/ k = n
      /\ \A k \in 1..l : k \in 1..n /\ k # n
  BY <1>3
<1>17. LastWaits'
  <2>1. \A k \in 1..l : told'[k].how # "pending"
    BY <1>2, <1>3, <1>8 DEF LauncherInv, LaunchInv, LastWaits
  <2>2. link => view'.waiter # None /\ view'.waiter.n = n  BY <1>5, <1>6 DEF Apart
  <2> HIDE DEF n
  <2>3. \A k \in 1..n : told'[k].how = "pending" <=> link /\ k = n
    BY <1>14, <1>15, <1>16, <2>1
  <2>4. CASE link  BY <1>6, <1>8, <2>2, <2>3, <2>4 DEF LastWaits
  <2>5. CASE ~link  BY <1>6, <1>8, <2>3, <2>5 DEF LastWaits
  <2> QED  BY <2>4, <2>5
<1>18. LinkEmpty'  BY <1>1 DEF LauncherInv, LaunchInv, LinkEmpty
<1>19. Desk!LaunchIsItsOwn'
  <2>1. told'[n].how \notin {"opened", "elsewhere"}  BY <1>14, <1>15
  <2>2. \A j \in 1..l : Desk!GivenUp(j)' <=> Desk!GivenUp(j)  BY <1>8 DEF Desk!GivenUp
  <2> SUFFICES ASSUME NEW k \in DOMAIN told', others' = 0, told'[k].how \in {"opened", "elsewhere"},
                      \A j \in 1..(k - 1) : ~Desk!GivenUp(j)'
               PROVE  told'[k].by = k
    BY DEF Desk!LaunchIsItsOwn
  <2>3. k \in 1..l  BY <1>3, <1>8, <2>1
  <2>4. \A j \in 1..(k - 1) : j \in 1..l  BY <1>3, <2>3
  <2> QED  BY <1>3, <1>8, <2>2, <2>3, <2>4 DEF LauncherInv, LaunchInv, Desk!LaunchIsItsOwn
<1>20. ASSUME others' = 0 PROVE Once' /\ Accounted'
  <2>0. Once /\ Accounted  BY <1>20 DEF LauncherInv, LaunchInv
  <2>1. \A k \in 1..l : k \in Excused => k \in Excused'
    <3>1. n # l /\ \A k \in 1..l : k # n  BY <1>3
    <3> QED  BY <1>3, <1>8, <3>1, TellingKeepsExcused
  <2>2. \A k : k \in Excused => k \in 1..l  BY <1>3 DEF Excused
  <2>3. n \in Excused'
    <3> HIDE DEF n
    <3> QED  BY <1>14, <1>8, <1>15, <1>16 DEF Excused, Desk!GivenUp
  <2>4. m.n = n  BY DEF m
  <2>6. CASE link
    <3> DEFINE p == Len(up) + 1
    <3>1. /\ queue' = queue /\ down' = down
          /\ up'[p] = m /\ \A i \in DOMAIN up : up'[i] = up[i]
          /\ \A i \in DOMAIN up' : i \in DOMAIN up \/ i = p
      <4>1. up' = Append(up, m) /\ queue' = queue  BY <1>1, <2>6
      <4>2. /\ DOMAIN up = 1..Len(up) /\ DOMAIN up' = 1..p /\ Len(up) \in Nat
            /\ up'[p] = m /\ \A i \in 1..Len(up) : up'[i] = up[i]
        BY <1>7, <1>4, <4>1, Appended
      <4> DEFINE q == Len(up)
      <4>3. q \in Nat  BY <4>2
      <4> HIDE DEF q
      <4>4. \A i \in 1..(q + 1) : i \in 1..q \/ i = q + 1  BY <4>3
      <4> QED  BY <4>1, <4>2, <4>4 DEF q
    <3> HIDE DEF p
    <3>2. Accounted'
      BY <2>0, <2>1, <2>2, <2>3, <2>4, <3>1 DEF Accounted, IsBegun
    <3>3. \A i \in DOMAIN up : up[i].n # n  BY <1>3, <2>0, <2>2 DEF Accounted
    <3>4. \A i \in DOMAIN down : IsBegun(i) => down[i].session.by # n
      BY <1>3, <2>0, <2>2 DEF Accounted
    <3>6. Once'  BY <2>0, <2>4, <3>1, <3>3, <3>4 DEF Once, IsBegun
    <3> QED  BY <3>2, <3>6
  <2>7. CASE ~link
    <3> DEFINE p == Len(queue) + 1
    <3>1. /\ up' = up /\ down' = down
          /\ queue'[p] = m /\ \A i \in DOMAIN queue : queue'[i] = queue[i]
          /\ \A i \in DOMAIN queue' : i \in DOMAIN queue \/ i = p
      <4>1. queue' = Append(queue, m) /\ up' = up  BY <1>1, <2>7
      <4>2. /\ DOMAIN queue = 1..Len(queue) /\ DOMAIN queue' = 1..p /\ Len(queue) \in Nat
            /\ queue'[p] = m /\ \A i \in 1..Len(queue) : queue'[i] = queue[i]
        BY <1>7, <1>4, <4>1, Appended
      <4> DEFINE q == Len(queue)
      <4>3. q \in Nat  BY <4>2
      <4> HIDE DEF q
      <4>4. \A i \in 1..(q + 1) : i \in 1..q \/ i = q + 1  BY <4>3
      <4> QED  BY <4>1, <4>2, <4>4 DEF q
    <3> HIDE DEF p
    <3>2. Accounted'
      BY <2>0, <2>1, <2>2, <2>3, <2>4, <3>1 DEF Accounted, IsBegun
    <3>3. \A i \in DOMAIN queue : queue[i].n # n  BY <1>3, <2>0, <2>2 DEF Accounted
    <3>6. Once'  BY <2>0, <2>4, <3>1, <3>3 DEF Once, IsBegun
    <3> QED  BY <3>2, <3>6
  <2> QED  BY <2>6, <2>7
<1> QED  BY <1>11, <1>12, <1>13, <1>17, <1>18, <1>19, <1>20 DEF LauncherInv, LaunchInv

LEMMA LaunchKeeps ==
  ASSUME Apart, LauncherInv, NEW f \in Folders, NEW kind \in Desk!Kinds, Desk!Launch(f, kind)
  PROVE  LauncherInv'
<1>1. /\ ~view.busy /\ Desk!Launches(view, f, kind)
      /\ UNCHANGED <<disk, link, down, others>> /\ calls' = calls
  BY DEF Desk!Launch, Desk!MayLaunch
<1>2. view \in Views  BY DEF LauncherInv, LauncherTypeOK
<1> QED  BY <1>1, <1>2, LaunchesKeep

LEMMA ProbedKeeps ==
  ASSUME Apart, LauncherInv, NEW c \in calls, Desk!Probed(c)
  PROVE  LauncherInv'
<1>0. view \in Views /\ calls \subseteq DeskAsks /\ c \in DeskAsks
  BY DEF LauncherInv, LauncherTypeOK
<1> DEFINE r == [state |-> "read", book |-> c.book]
           s == [view EXCEPT !.selected = c.folder, !.mode = "idle"]
           v == [view EXCEPT !.selected = c.folder, !.mode = "idle",
                   !.recipes[c.folder] = IF c.book = Desk!NoBook THEN @ ELSE r]
<1>1. /\ c.t = "probe" /\ calls' = calls \ {c} /\ UNCHANGED <<disk, sessions, link, down, others>>
      /\ IF c.at = "failed" THEN UNCHANGED <<view, asked, told, up, queue, count>>
         ELSE IF view.busy THEN view' = v /\ UNCHANGED <<asked, told, up, queue, count>>
         ELSE Desk!Launches(v, c.folder, "claude")
  BY DEF Desk!Probed
<1>2. c.folder \in Folders /\ Sound(c.folder, c.book)
  BY <1>1 DEF LauncherInv, RecipesAreSound
<1>3. r \in [state : {"none", "loading", "read", "failed"}, book : Known] /\ r.book = c.book
  BY <1>0 DEF DeskAsks
<1> HIDE DEF r
<1>4. /\ v \in Views /\ v.waiter = view.waiter /\ v.busy = view.busy
      /\ \A g \in Folders : \/ v.recipes[g].book = view.recipes[g].book
                            \/ Sound(g, v.recipes[g].book)
  <2>1. c.folder \in Places  BY <1>2 DEF Places
  <2>2. CASE c.book = Desk!NoBook
    <3>1. view.recipes[c.folder] \in [state : {"none", "loading", "read", "failed"}, book : Known]
      BY <1>0, <1>2 DEF Views
    <3>2. v = [view EXCEPT !.selected = c.folder, !.mode = "idle",
                 !.recipes[c.folder] = view.recipes[c.folder]]
      BY <2>2
    <3> DEFINE q == view.recipes[c.folder]
    <3>3. v = [view EXCEPT !.selected = c.folder, !.mode = "idle", !.recipes[c.folder] = q]
      BY <3>2
    <3>4. q \in [state : {"none", "loading", "read", "failed"}, book : Known]  BY <3>1
    <3>5. q.book = view.recipes[c.folder].book  OBVIOUS
    <3> HIDE DEF q, v
    <3> QED  BY <1>0, <1>2, <2>1, <3>3, <3>4, <3>5 DEF Views
  <2>3. CASE c.book # Desk!NoBook
    <3>1. v = [view EXCEPT !.selected = c.folder, !.mode = "idle", !.recipes[c.folder] = r]
      BY <2>3
    <3> QED  BY <1>0, <1>2, <1>3, <2>1, <3>1 DEF Views
  <2> QED  BY <2>2, <2>3
<1> HIDE DEF v
<1>5. calls' \subseteq DeskAsks /\ \A d \in calls' : d \in calls  BY <1>0, <1>1
<1>6. \A d : Holds(d) => (d \in calls <=> d \in calls')  BY <1>1 DEF Holds
<1>7. CASE view' \in {view, v} /\ UNCHANGED <<asked, told, up, queue>>
  <2>1. Else  BY <1>1, <1>7 DEF Else, Desk!wire
  <2> QED  BY <1>0, <1>4, <1>5, <1>6, <1>7, <2>1, RedrawKeeps
<1>8. CASE ~view.busy /\ Desk!Launches(v, c.folder, "claude")
  <2>1. "claude" \in Desk!Kinds  BY DEF Desk!Kinds
  <2> QED  BY <1>1, <1>2, <1>4, <1>5, <1>6, <1>8, <2>1, LaunchesKeep
<1> QED  BY <1>1, <1>7, <1>8

-----------------------------------------------------------------------------
(* What is sent, and what is received.                                      *)
LEMMA WireKeeps ==
  ASSUME LauncherInv, UNCHANGED <<disk, calls, view, asked, told>>, others' \in Nat,
         link' \in BOOLEAN, up' \in Seq(Orders), queue' \in Seq(Orders), down' \in Seq(Frames),
         LinkEmpty', others' = 0 => others = 0 /\ Once' /\ Accounted'
  PROVE  LauncherInv'
<1>1. LauncherTypeOK'  BY DEF LauncherInv, LauncherTypeOK
<1>2. RecipesAreSound'  BY RecipesLeft DEF LauncherInv
<1>3. OneHolds'  BY HoldsLeft DEF LauncherInv
<1>4. LastWaits'  BY DEF LauncherInv, LaunchInv, LastWaits
<1>5. Desk!LaunchIsItsOwn'
  BY DEF LauncherInv, LauncherTypeOK, LaunchInv, Desk!LaunchIsItsOwn, Desk!GivenUp
<1> QED  BY <1>1, <1>2, <1>3, <1>4, <1>5 DEF LauncherInv, LaunchInv

LEMMA Taken ==
  ASSUME NEW S, NEW s \in Seq(S), s # <<>>
  PROVE  /\ Tail(s) \in Seq(S) /\ Head(s) \in S /\ 1 \in DOMAIN s /\ Head(s) = s[1]
         /\ \A i \in DOMAIN Tail(s) : i + 1 \in DOMAIN s /\ Tail(s)[i] = s[i + 1] /\ i \in Nat \ {0}
<1> DEFINE l == Len(s)
<1>1. l \in Nat /\ DOMAIN s = 1..l /\ l # 0  OBVIOUS
<1>2. Tail(s) \in Seq(S) /\ Head(s) = s[1] /\ DOMAIN Tail(s) = 1..(l - 1)  OBVIOUS
<1>3. \A i \in 1..(l - 1) : Tail(s)[i] = s[i + 1]  OBVIOUS
<1> HIDE DEF l
<1>4. 1 \in 1..l /\ \A i \in 1..(l - 1) : i + 1 \in 1..l /\ i \in Nat \ {0}  BY <1>1
<1>5. s[1] \in S  BY <1>1, <1>4
<1> QED  BY <1>1, <1>2, <1>3, <1>4, <1>5

LEMMA CreatesElsewhereKeeps ==
  ASSUME LauncherInv, NEW f \in Folders, NEW kind \in Desk!Kinds, Desk!CreatesElsewhere(f, kind)
  PROVE  LauncherInv'
<1> DEFINE m == [n |-> 0, kind |-> kind, folder |-> f]
<1>1. /\ others' = others + 1 /\ UNCHANGED <<disk, sessions, link, down, calls, view, asked, told>>
      /\ IF link THEN up' = Append(up, m) /\ UNCHANGED queue
                 ELSE queue' = Append(queue, m) /\ UNCHANGED up
  BY DEF Desk!CreatesElsewhere, Desk!Transmit
<1>2. m \in Orders  BY DEF Orders
<1> HIDE DEF m
<1>3. /\ up \in Seq(Orders) /\ queue \in Seq(Orders) /\ down \in Seq(Frames) /\ link \in BOOLEAN
      /\ others \in Nat
  BY DEF LauncherInv, LauncherTypeOK
<1>4. up' \in Seq(Orders) /\ queue' \in Seq(Orders)
  BY <1>1, <1>2, <1>3, Appended
<1>5. LinkEmpty'  BY <1>1 DEF LauncherInv, LaunchInv, LinkEmpty
<1>6. others' \in Nat /\ others' # 0  BY <1>1, <1>3
<1> QED  BY <1>1, <1>3, <1>4, <1>5, <1>6, WireKeeps

LEMMA LinkKeeps ==
  ASSUME LauncherInv, Desk!Breaks \/ Desk!Connects
  PROVE  LauncherInv'
<1>0. /\ up \in Seq(Orders) /\ queue \in Seq(Orders) /\ others \in Nat
  BY DEF LauncherInv, LauncherTypeOK
<1>1. UNCHANGED <<disk, calls, view, asked, told, others>>  BY DEF Desk!Breaks, Desk!Connects
<1>2. link' \in BOOLEAN /\ up' \in Seq(Orders) /\ queue' \in Seq(Orders)
  <2>1. <<>> \in Seq(Orders)  OBVIOUS
  <2>2. CASE Desk!Breaks  BY <1>0, <2>1, <2>2 DEF Desk!Breaks
  <2>3. CASE Desk!Connects  BY <1>0, <2>1, <2>3 DEF Desk!Connects
  <2> QED  BY <2>2, <2>3
<1>3. down' = <<>> /\ down' \in Seq(Frames) /\ LinkEmpty'
  <2>1. <<>> \in Seq(Frames)  OBVIOUS
  <2>2. CASE Desk!Breaks
    <3>1. link /\ ~link' /\ up' = <<>> /\ down' = <<>>  BY <2>2 DEF Desk!Breaks
    <3> QED  BY <2>1, <3>1 DEF LinkEmpty
  <2>3. CASE Desk!Connects
    <3>1. ~link /\ link' /\ queue' = <<>> /\ down' = down  BY <2>3 DEF Desk!Connects
    <3>2. down = <<>>  BY <3>1 DEF LauncherInv, LaunchInv, LinkEmpty
    <3> QED  BY <2>1, <3>1, <3>2 DEF LinkEmpty
  <2> QED  BY <2>2, <2>3
<1>4. up' = <<>> \/ up' = queue  BY DEF Desk!Breaks, Desk!Connects
<1>5. queue' = <<>> \/ queue' = queue  BY DEF Desk!Breaks, Desk!Connects
<1>6. ASSUME others = 0 PROVE Once' /\ Accounted'
  <2>1. Once /\ Accounted  BY <1>6 DEF LauncherInv, LaunchInv
  <2>2. Excused' = Excused  BY <1>1 DEF Excused, Desk!GivenUp
  <2>3. Accounted'  BY <1>3, <1>4, <1>5, <2>1, <2>2 DEF Accounted
  <2>4. Once'  BY <1>3, <1>4, <1>5, <2>1 DEF Once
  <2> QED  BY <2>3, <2>4
<1> QED  BY <1>0, <1>1, <1>2, <1>3, <1>6, WireKeeps

LEMMA ServerCreatesKeeps ==
  ASSUME LauncherInv, Desk!ServerCreates
  PROVE  LauncherInv'
<1> DEFINE m == Head(up)
           s == Desk!Session(m.n, m.kind, m.folder, Desk!resolveCwd(m.folder, Desk!Here))
<1>0. /\ up \in Seq(Orders) /\ queue \in Seq(Orders) /\ down \in Seq(Frames) /\ others \in Nat
      /\ link \in BOOLEAN
  BY DEF LauncherInv, LauncherTypeOK
<1>1. /\ up # <<>> /\ up' = Tail(up)
      /\ UNCHANGED <<disk, link, queue, calls, view, asked, told, others>>
  BY DEF Desk!ServerCreates
<1>2. PICK a : /\ down' = Append(down, a)
               /\ a \in {[t |-> "created", session |-> s], [t |-> "error", session |-> None]}
  BY DEF Desk!ServerCreates
<1>3. /\ up' \in Seq(Orders) /\ m \in Orders /\ m = up[1] /\ 1 \in DOMAIN up
      /\ \A i \in DOMAIN up' : i + 1 \in DOMAIN up /\ up'[i] = up[i + 1] /\ i \in Nat \ {0}
  BY <1>0, <1>1, Taken
<1>4. s \in Begun /\ s.by = m.n
  BY <1>3 DEF Desk!Session, Begun, Orders, Desk!resolveCwd
<1>5. a \in Frames /\ (a.t = "created" => a.session.by = up[1].n)
  BY <1>2, <1>3, <1>4 DEF Frames
<1> HIDE DEF m, s
<1> DEFINE p == Len(down) + 1
<1>6. /\ down' \in Seq(Frames) /\ p \notin DOMAIN down /\ down'[p] = a
      /\ \A i \in DOMAIN down' : i \in DOMAIN down \/ i = p
      /\ \A i \in DOMAIN down : down'[i] = down[i]
  <2>1. /\ down' \in Seq(Frames) /\ Len(down) \in Nat /\ down'[p] = a
        /\ DOMAIN down = 1..Len(down) /\ DOMAIN down' = 1..p
        /\ \A i \in 1..Len(down) : down'[i] = down[i]
    BY <1>0, <1>2, <1>5, Appended
  <2> DEFINE l == Len(down)
  <2>2. l \in Nat  BY <2>1
  <2> HIDE DEF l
  <2>3. l + 1 \notin 1..l /\ \A i \in 1..(l + 1) : i \in 1..l \/ i = l + 1  BY <2>2
  <2> QED  BY <2>1, <2>3 DEF l
<1> HIDE DEF p
<1>7. LinkEmpty'  BY <1>1 DEF LauncherInv, LaunchInv, LinkEmpty
<1>8. ASSUME others = 0 PROVE Once' /\ Accounted'
  <2>1. Once /\ Accounted  BY <1>8 DEF LauncherInv, LaunchInv
  <2>2. Excused' = Excused  BY <1>1 DEF Excused, Desk!GivenUp
  <2>3. \A i \in DOMAIN down' : IsBegun(i)' =>
           \/ i \in DOMAIN down /\ IsBegun(i) /\ down'[i].session.by = down[i].session.by
           \/ i = p /\ down'[i].session.by = up[1].n
    BY <1>5, <1>6 DEF IsBegun
  <2>4. Accounted'
    <3>1. \A i \in DOMAIN up' : up'[i].n \in Excused  BY <1>3, <2>1 DEF Accounted
    <3>2. \A i \in DOMAIN down' : IsBegun(i)' => down'[i].session.by \in Excused
      BY <1>3, <2>1, <2>3 DEF Accounted
    <3> QED  BY <1>1, <2>1, <2>2, <3>1, <3>2 DEF Accounted
  <2>5. Once'
    <3>1. \A i, j \in DOMAIN up' : i # j => up'[i].n # up'[j].n
      <4>1. \A i, j \in DOMAIN up' : i # j => i + 1 # j + 1  BY <1>3
      <4> QED  BY <1>3, <2>1, <4>1 DEF Once
    <3>2. \A i \in DOMAIN up' : up'[i].n # up[1].n
      <4>1. \A i \in DOMAIN up' : i + 1 # 1  BY <1>3
      <4> QED  BY <1>3, <2>1, <4>1 DEF Once
    <3>3. \A i \in DOMAIN down : IsBegun(i) => down[i].session.by # up[1].n
      BY <1>3, <2>1 DEF Once
    <3>4. \A i \in DOMAIN down', j \in DOMAIN up' :
            IsBegun(i)' => down'[i].session.by # up'[j].n
      BY <1>3, <2>1, <2>3, <3>2 DEF Once
    <3>5. \A i, j \in DOMAIN down' :
            i # j /\ IsBegun(i)' /\ IsBegun(j)' => down'[i].session.by # down'[j].session.by
      BY <2>1, <2>3, <3>3 DEF Once
    <3>6. \A i, j \in DOMAIN queue' : i # j => queue'[i].n # queue'[j].n
      BY <1>1, <2>1 DEF Once
    <3> QED  BY <3>1, <3>4, <3>5, <3>6 DEF Once
  <2> QED  BY <2>4, <2>5
<1> QED  BY <1>0, <1>1, <1>3, <1>6, <1>7, <1>8, WireKeeps

(* What the page tells of the launch that waits.                            *)
LEMMA TellKeeps ==
  ASSUME Apart, LauncherInv, view.waiter # None, view' = Desk!Settles(view),
         NEW o \in Outcomes, told' = [told EXCEPT ![view.waiter.n] = o],
         UNCHANGED <<disk, link, up, queue, calls, asked, others>>,
         down' \in Seq(Frames), ~link => down' = <<>>,
         others = 0 => Once' /\ Accounted',
         o.how # "pending",
         others = 0 /\ o.how \in {"opened", "elsewhere"}
           => o.by = view.waiter.n \/ \E j \in 1..(view.waiter.n - 1) : Desk!GivenUp(j)
  PROVE  LauncherInv'
<1> DEFINE w == view.waiter.n
<1>0. /\ view \in Views /\ told \in Seq(Outcomes) /\ Len(told) = Len(asked)
      /\ view.waiter \in Waiter /\ view.busy
  BY DEF LauncherInv, LauncherTypeOK, Views, OneHolds
<1>1. w = Len(told) /\ w \in Nat /\ w # 0 /\ DOMAIN told = 1..w /\ w \in 1..w
  BY <1>0 DEF LauncherInv, LaunchInv, LastWaits, Waiter
<1>2. view' \in Views /\ ~view'.busy /\ view'.waiter = None /\ view'.recipes = view.recipes
  BY <1>0 DEF Desk!Settles, Views
<1>3. /\ told' \in Seq(Outcomes) /\ Len(told') = Len(told) /\ DOMAIN told' = DOMAIN told
      /\ told'[w] = o /\ \A k \in DOMAIN told : k # w => told'[k] = told[k]
  BY <1>0, <1>1
<1>4. \A c \in calls' : ~Holds(c)  BY DEF LauncherInv, OneHolds
<1> HIDE DEF w
<1>5. LauncherTypeOK'  BY <1>2, <1>3 DEF LauncherInv, LauncherTypeOK
<1>6. RecipesAreSound'  BY <1>2, RecipesLeft DEF LauncherInv
<1>7. OneHolds'  BY <1>2, <1>4 DEF OneHolds, Desk!BusyHasAnEnd
<1>8. \A k \in DOMAIN told : k # w => told[k].how # "pending"
  BY DEF LauncherInv, LaunchInv, LastWaits, w
<1>9. LastWaits'  BY <1>2, <1>3, <1>8 DEF LastWaits
<1>10. LinkEmpty'  BY DEF LauncherInv, LaunchInv, LinkEmpty
<1>11. Desk!LaunchIsItsOwn'
  <2>1. \A j \in 1..(w - 1) : j \in DOMAIN told /\ j # w  BY <1>1
  <2>2. \A j \in 1..(w - 1) : Desk!GivenUp(j)' <=> Desk!GivenUp(j)
    BY <1>3, <2>1 DEF Desk!GivenUp
  <2> SUFFICES ASSUME NEW k \in DOMAIN told', others' = 0, told'[k].how \in {"opened", "elsewhere"},
                      \A j \in 1..(k - 1) : ~Desk!GivenUp(j)'
               PROVE  told'[k].by = k
    BY DEF Desk!LaunchIsItsOwn
  <2>3. CASE k = w
    <3>1. \A j \in 1..(w - 1) : ~Desk!GivenUp(j)  BY <2>2, <2>3
    <3> QED  BY <1>3, <2>3, <3>1 DEF w
  <2>4. CASE k # w
    <3>1. k \in DOMAIN told /\ k \in 1..w /\ told'[k] = told[k]  BY <1>1, <1>3, <2>4
    <3>2. \A j \in 1..(k - 1) : j \in 1..(w - 1)  BY <1>1, <3>1
    <3>3. \A j \in 1..(k - 1) : ~Desk!GivenUp(j)  BY <2>2, <3>2
    <3> QED  BY <3>1, <3>3 DEF LauncherInv, LaunchInv, Desk!LaunchIsItsOwn
  <2> QED  BY <2>3, <2>4
<1> QED  BY <1>5, <1>6, <1>7, <1>9, <1>10, <1>11 DEF LauncherInv, LaunchInv

(* The excuses of launches but the one that waits outlive what is told.     *)
LEMMA ExcusesStay ==
  ASSUME LauncherInv, view.waiter # None,
         NEW o, told' = [told EXCEPT ![view.waiter.n] = o]
  PROVE  /\ view.waiter.n \in DOMAIN told
         /\ \A k \in Excused : k # view.waiter.n \/ o.how \in {"unnamed", "refused"} => k \in Excused'
         /\ \A k \in Excused : k # view.waiter.n =>
              view.waiter.n \in Excused' /\ \E j \in 1..(view.waiter.n - 1) : Desk!GivenUp(j)
<1>1. PICK w, l : w = view.waiter.n /\ l = Len(told)  OBVIOUS
<1>2. view.waiter \in Waiter /\ told \in Seq(Outcomes)
  BY DEF LauncherInv, LauncherTypeOK, Views
<1>3. /\ w = l /\ l \in Nat /\ w \in Nat /\ w # 0 /\ DOMAIN told = 1..l /\ DOMAIN told' = 1..l
      /\ w \in 1..l /\ told'[w] = o /\ \A k \in 1..l : k # w => told'[k] = told[k]
  <2>1. w = l /\ l \in Nat /\ w \in Nat /\ w # 0 /\ DOMAIN told = 1..l
    BY <1>1, <1>2 DEF LauncherInv, LaunchInv, LastWaits, Waiter
  <2>2. w \in 1..l  BY <2>1
  <2> QED  BY <1>1, <2>1, <2>2
<1>4. told[w].how = "pending" /\ \A k \in 1..l : told[k].how = "pending" => k = w
  <2>1. w \in DOMAIN told  BY <1>3
  <2>2. \A n \in DOMAIN told : told[n].how = "pending" <=> w = n
    BY <1>1 DEF LauncherInv, LaunchInv, LastWaits
  <2> QED  BY <1>3, <2>1, <2>2
<1>5. w \in DOMAIN told  BY <1>3
<1>6. ASSUME NEW k \in Excused
      PROVE  k \in 1..l /\ (k = w \/ \E j \in 1..k : Desk!GivenUp(j))
  BY <1>3, <1>4 DEF Excused
<1>7. ASSUME NEW k \in Excused, k # w
      PROVE  k \in Excused'
  <2>1. w \in {l, l + 1} /\ DOMAIN told' = 1..w  BY <1>3
  <2>2. k \in Excused /\ k # w  BY <1>7
  <2> QED  BY <1>3, <1>4, <2>1, <2>2, TellingKeepsExcused
<1>8. ASSUME o.how \in {"unnamed", "refused"}
      PROVE  w \in Excused'
  <2>1. w \in 1..w /\ w \in DOMAIN told'  BY <1>3
  <2>2. told'[w].how = o.how  BY <1>3
  <2>3. Desk!GivenUp(w)'
    <3>1. told'[w].how \in {"unnamed", "not sent", "refused"}  BY <1>8, <2>2
    <3> QED  BY <3>1 DEF Desk!GivenUp
  <2> QED  BY <2>1, <2>3 DEF Excused
<1>9. ASSUME NEW k \in Excused, k # w
      PROVE  w \in Excused' /\ \E j \in 1..(w - 1) : Desk!GivenUp(j)
  <2>1. PICK j \in 1..k : Desk!GivenUp(j)  BY <1>6, <1>9
  <2>2. k \in 1..w  BY <1>3, <1>6
  <2>3. j \in 1..(w - 1) /\ j \in 1..w /\ j # w /\ w \in 1..w  BY <1>3, <1>9, <2>2
  <2>4. Desk!GivenUp(j)'  BY <1>3, <2>1, <2>3 DEF Desk!GivenUp
  <2>5. w \in DOMAIN told'  BY <1>3
  <2> QED  BY <2>1, <2>3, <2>4, <2>5 DEF Excused
<1> QED  BY <1>5, <1>6, <1>7, <1>8, <1>9, <1>1

LEMMA SaidIsOutcome ==
  ASSUME NEW how \in {"pending", "not sent", "opened", "elsewhere", "refused", "unnamed"},
         NEW by \in Nat
  PROVE  Desk!Said(how, by) \in Outcomes /\ Desk!Said(how, by).how = how /\ Desk!Said(how, by).by = by
BY DEF Outcomes, Desk!Said

LEMMA PageReadsKeeps ==
  ASSUME Apart, LauncherInv, Desk!PageReads
  PROVE  LauncherInv'
<1> DEFINE w == view.waiter
           m == Head(down)
<1>0. /\ up \in Seq(Orders) /\ queue \in Seq(Orders) /\ down \in Seq(Frames) /\ others \in Nat
      /\ link \in BOOLEAN
  BY DEF LauncherInv, LauncherTypeOK
<1>1. /\ down # <<>> /\ down' = Tail(down)
      /\ UNCHANGED <<disk, link, up, queue, calls, asked, others>>
      /\ IF Desk!Matches(w, m)
         THEN view' = Desk!Settles(view) /\ told' = [told EXCEPT ![w.n] = Desk!Verdict(w, m)]
         ELSE UNCHANGED <<view, told>>
  BY DEF Desk!PageReads
<1>2. /\ down' \in Seq(Frames) /\ m \in Frames /\ m = down[1] /\ 1 \in DOMAIN down
      /\ \A i \in DOMAIN down' : i + 1 \in DOMAIN down /\ down'[i] = down[i + 1] /\ i \in Nat \ {0}
  BY <1>0, <1>1, Taken
<1>3. ~link => down' = <<>>
  BY <1>1 DEF LauncherInv, LaunchInv, LinkEmpty
<1>4. LinkEmpty'  BY <1>1, <1>3 DEF LauncherInv, LaunchInv, LinkEmpty
<1>5. \A i, j \in DOMAIN down' : /\ i + 1 # 1 /\ (i # j => i + 1 # j + 1)
                                 /\ IsBegun(i)' => IsBegun(i + 1)
  BY <1>2 DEF IsBegun
<1>6. others = 0 => Once'
  <2> SUFFICES ASSUME others = 0, Once PROVE Once'
    BY DEF LauncherInv, LaunchInv
  <2>1. \A i, j \in DOMAIN down' : i # j /\ IsBegun(i)' /\ IsBegun(j)'
                                   => down'[i].session.by # down'[j].session.by
    BY <1>2, <1>5 DEF Once
  <2>2. \A i \in DOMAIN down', j \in DOMAIN up : IsBegun(i)' => down'[i].session.by # up[j].n
    BY <1>2, <1>5 DEF Once
  <2>3. \A i, j \in DOMAIN up : i # j => up[i].n # up[j].n  BY DEF Once
  <2>4. \A i, j \in DOMAIN queue : i # j => queue[i].n # queue[j].n  BY DEF Once
  <2> QED  BY <1>1, <2>1, <2>2, <2>3, <2>4 DEF Once
<1>7. others = 0 => /\ \A i \in DOMAIN up' : up'[i].n \in Excused
                    /\ \A i \in DOMAIN queue' : queue'[i].n \in Excused
                    /\ \A i \in DOMAIN down' : IsBegun(i)' => down'[i].session.by \in Excused
  BY <1>1, <1>2, <1>5 DEF LauncherInv, LaunchInv, Accounted
<1>8. CASE ~Desk!Matches(w, m)
  <2>1. view' = view /\ told' = told  BY <1>1, <1>8
  <2>2. Excused' = Excused  BY <2>1 DEF Excused, Desk!GivenUp
  <2>3. others = 0 => Accounted'  BY <1>7, <2>2 DEF Accounted
  <2> QED  BY <1>0, <1>1, <1>2, <1>4, <1>6, <2>1, <2>3, WireKeeps
<1>9. CASE Desk!Matches(w, m)
  <2> DEFINE o == Desk!Verdict(w, m)
  <2>1. /\ w # None /\ view' = Desk!Settles(view) /\ told' = [told EXCEPT ![w.n] = o]
    BY <1>1, <1>9 DEF Desk!Matches
  <2>2. CASE m.t = "error"
    <3>1. o = Desk!Said("refused", 0)  BY <2>2 DEF Desk!Verdict
    <3> HIDE DEF o
    <3>2. o \in Outcomes /\ o.how = "refused"  BY <3>1, SaidIsOutcome
    <3>3. \A k \in Excused : k \in Excused'  BY <2>1, <3>2, ExcusesStay
    <3>4. others = 0 => Accounted'  BY <1>7, <3>3 DEF Accounted
    <3> QED  BY <1>1, <1>2, <1>3, <1>6, <2>1, <3>2, <3>4, TellKeeps
  <2>3. CASE m.t # "error"
    <3>1. m.t = "created" /\ m.session \in Begun  BY <1>2, <2>3 DEF Frames
    <3>2. PICK how \in {"opened", "elsewhere"} : o = Desk!Said(how, m.session.by)
      BY <2>3 DEF Desk!Verdict
    <3>3. m.session.by \in Nat  BY <3>1 DEF Begun
    <3>4. o \in Outcomes /\ o.how = how /\ o.by = m.session.by
      <4>1. how \in {"pending", "not sent", "opened", "elsewhere", "refused", "unnamed"}
        BY <3>2
      <4>2. o = Desk!Said(how, m.session.by)  BY <3>2
      <4> HIDE DEF o, m
      <4>3. PICK by \in Nat : by = m.session.by  BY <3>3
      <4>4. Desk!Said(how, by) \in Outcomes /\ Desk!Said(how, by).how = how /\ Desk!Said(how, by).by = by
        BY <4>1 DEF Outcomes, Desk!Said
      <4>5. o = Desk!Said(how, by)  BY <4>2, <4>3
      <4> QED  BY <4>3, <4>4, <4>5
    <3> HIDE DEF o
    <3>5. IsBegun(1) /\ m.session.by = down[1].session.by  BY <1>2, <3>1 DEF IsBegun
    <3> HIDE DEF m
    <3>6. ASSUME others = 0
          PROVE  /\ Accounted'
                 /\ o.by = w.n \/ \E j \in 1..(w.n - 1) : Desk!GivenUp(j)
      <4> DEFINE by == down[1].session.by
      <4>1. Once /\ by \in Excused
        BY <1>2, <3>5, <3>6 DEF LauncherInv, LaunchInv, Accounted
      <4>2. /\ \A i \in DOMAIN up' : up'[i].n # by
            /\ \A i \in DOMAIN down' : IsBegun(i)' => down'[i].session.by # by
        BY <1>1, <1>2, <1>5, <3>5, <4>1 DEF Once
      <4>3. link  BY <1>1 DEF LauncherInv, LaunchInv, LinkEmpty
      <4>4. queue' = <<>>  BY <1>1, <4>3 DEF LauncherInv, LaunchInv, LinkEmpty
      <4>5. CASE by = w.n
        <5>1. \A k \in Excused : k # w.n => k \in Excused'  BY <2>1, ExcusesStay
        <5>2. Accounted'  BY <1>7, <3>6, <4>2, <4>4, <4>5, <5>1 DEF Accounted
        <5> QED  BY <3>4, <3>5, <4>5, <5>2
      <4>6. CASE by # w.n
        <5>1. /\ \A k \in Excused : k \in Excused'
              /\ \E j \in 1..(w.n - 1) : Desk!GivenUp(j)
          BY <2>1, <4>1, <4>6, ExcusesStay
        <5>2. Accounted'  BY <1>7, <3>6, <5>1 DEF Accounted
        <5> QED  BY <5>1, <5>2
      <4> QED  BY <4>5, <4>6
    <3>7. o.how # "pending"  BY <3>4
    <3> QED  BY <1>1, <1>2, <1>3, <1>6, <2>1, <3>4, <3>6, <3>7, TellKeeps
  <2> QED  BY <2>2, <2>3
<1> QED  BY <1>8, <1>9

LEMMA CreateTimeoutKeeps ==
  ASSUME Apart, LauncherInv, Desk!CreateTimeout
  PROVE  LauncherInv'
<1> DEFINE o == Desk!Said("unnamed", 0)
<1>1. /\ view.waiter # None /\ view' = Desk!Settles(view) /\ told' = [told EXCEPT ![view.waiter.n] = o]
      /\ UNCHANGED <<disk, link, up, down, queue, calls, asked, others>>
  BY DEF Desk!CreateTimeout, Desk!wire
<1>2. o \in Outcomes /\ o.how = "unnamed"  BY DEF Outcomes, Desk!Said
<1> HIDE DEF o
<1>3. down' \in Seq(Frames) /\ (~link => down' = <<>>)
  BY <1>1 DEF LauncherInv, LauncherTypeOK, LaunchInv, LinkEmpty
<1>4. \A k \in Excused : k \in Excused'  BY <1>1, <1>2, ExcusesStay
<1>5. others = 0 => Once' /\ Accounted'
  <2> SUFFICES ASSUME others = 0, Once, Accounted PROVE Once' /\ Accounted'
    BY DEF LauncherInv, LaunchInv
  <2>1. Once'  BY <1>1 DEF Once, IsBegun
  <2>2. Accounted'  BY <1>1, <1>4 DEF Accounted, IsBegun
  <2> QED  BY <2>1, <2>2
<1> QED  BY <1>1, <1>2, <1>3, <1>5, TellKeeps

-----------------------------------------------------------------------------
LEMMA LauncherStarts == Apart /\ Desk!Init => LauncherInv
<1> SUFFICES ASSUME Apart, Desk!Init PROVE LauncherInv
  OBVIOUS
<1>1. view \in Views /\ view.waiter = None /\ ~view.busy
      /\ \A f \in Folders : view.recipes[f].book = Desk!NoBook
  <2>1. \A f \in Folders : [state |-> "none", book |-> Desk!NoBook]
           \in [state : {"none", "loading", "read", "failed"}, book : Known]
    BY DEF Known
  <2> QED  BY <2>1 DEF Desk!Init, Desk!Closed, Views, Places
<1>2. LauncherTypeOK  BY <1>1 DEF Desk!Init, LauncherTypeOK
<1>3. RecipesAreSound  BY <1>1 DEF Desk!Init, RecipesAreSound, Desk!RecipeIsTheFolders
<1>4. OneHolds  BY <1>1 DEF Desk!Init, OneHolds, Desk!BusyHasAnEnd
<1>5. LaunchInv
  BY <1>1 DEF Desk!Init, LaunchInv, LastWaits, LinkEmpty, Once, Accounted, Desk!LaunchIsItsOwn
<1> QED  BY <1>2, <1>3, <1>4, <1>5 DEF LauncherInv

LEMMA LauncherSteps == Apart /\ LauncherInv /\ [Desk!Next]_Desk!lvars => LauncherInv'
<1> SUFFICES ASSUME Apart, LauncherInv, [Desk!Next]_Desk!lvars PROVE LauncherInv'
  OBVIOUS
<1>1. CASE UNCHANGED Desk!lvars
  <2>1. Else /\ UNCHANGED <<calls, view>>  BY <1>1 DEF Desk!lvars, Else
  <2>2. view \in Views /\ calls \subseteq DeskAsks  BY DEF LauncherInv, LauncherTypeOK
  <2> QED  BY <2>1, <2>2, RedrawKeeps
<1>2. CASE \E f \in Folders : Desk!Select(f) \/ Desk!OpenFreePath(f)
  BY <1>2, ClicksKeep
<1>3. CASE \E f \in Folders : Desk!Edit(f)  BY <1>3, EditKeeps
<1>4. CASE \E f \in Folders, kind \in Desk!Kinds : Desk!Launch(f, kind) \/ Desk!CreatesElsewhere(f, kind)
  BY <1>4, LaunchKeeps, CreatesElsewhereKeeps
<1>5. CASE \E c \in calls : ServerOf(c)  BY <1>5, ServerKeeps
<1>6. CASE \E c \in calls : Desk!Listed(c) \/ Desk!RecipeRead(c)  BY <1>6, RepliesKeep
<1>7. CASE \E c \in calls : Desk!Done(c) \/ Desk!Probed(c)  BY <1>7, DoneKeeps, ProbedKeeps
<1>8. CASE Desk!ApplyRecipe \/ Desk!StartRace  BY <1>8, HoldersKeep
<1>9. CASE Desk!ServerCreates \/ Desk!PageReads \/ Desk!CreateTimeout
  BY <1>9, ServerCreatesKeeps, PageReadsKeeps, CreateTimeoutKeeps
<1>10. CASE Desk!Breaks \/ Desk!Connects  BY <1>10, LinkKeeps
<1>11. CASE Desk!Refresh \/ Desk!RunThisRecipe \/ Desk!Cancel  BY <1>11, ScreenKeeps
<1> QED
  BY <1>1, <1>2, <1>3, <1>4, <1>5, <1>6, <1>7, <1>8, <1>9, <1>10, <1>11 DEF Desk!Next, ServerOf

(* AnswersMeetQuestions of Launcher, which the run parts checks: a launch is *)
(* told of its own session for as long as its kind is enough to tell, a     *)
(* folder shows its own recipe, and what keeps the screen busy has an end.   *)
THEOREM AnswersArriveHome ==
  ASSUME None \notin [n : Nat \ {0}, kind : Desk!Kinds]
  PROVE  Desk!Spec => []Desk!AnswersMeetQuestions
<1>1. LauncherInv => Desk!AnswersMeetQuestions
  BY DEF LauncherInv, Desk!AnswersMeetQuestions, LaunchInv, RecipesAreSound, OneHolds
<1>2. Apart  BY DEF Apart, Waiter
<1>3. Desk!Init => LauncherInv  BY <1>2, LauncherStarts
<1>4. LauncherInv /\ [Desk!Next]_Desk!lvars => LauncherInv'  BY <1>2, LauncherSteps
<1> QED  BY <1>1, <1>3, <1>4, PTL DEF Desk!Spec
=============================================================================
