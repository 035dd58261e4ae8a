----------------------------- MODULE ClientProofs -----------------------------
(***************************************************************************)
(* Proofs about the sessions of a page (ClientSessions), for any ids, any   *)
(* number of steps of the server, breaks and clicks, and any offline queue.  *)
(*                                                                         *)
(* The frames under way start from a list, Base: that of a READY which was   *)
(* not read yet, else the one the page shows. What the page will show is     *)
(* that list and the frames applied to it; so the invariant says of each     *)
(* session that the last frame about it is true, that where there is none    *)
(* the list is right already, that none is missing from both, and that they  *)
(* come in the order of the server. Once nothing is under way, Base is what  *)
(* the page shows and all of it is right.                                   *)
(***************************************************************************)
EXTENDS ClientSessions, FiniteSetTheorems, TLAPS

(* Strangers have ids of their own, and None is nobody's.                   *)
Separate == OwnIds \cap Strangers = {} /\ None \notin Ids /\ QueueMax \in Nat

Entries == [id : Ids, status : {"live", "exited"}]
Lists   == Seq(Entries)
Readies == [t : {"ready"}, sessions : Lists]
Shown   == [t : {"session", "created"}, session : Entries]
Signs   == [t : {"exit", "closed", "output", "snapshot"}, id : Ids]
Errors  == [t : {"error"}, id : Ids \cup {None}]
Frames  == Readies \cup Shown \cup Signs \cup Errors
Orders  == [t : {"kill", "attach", "create"}, id : Ids \cup {None}]

Distinct(l) == \A i, j \in DOMAIN l : l[i].id = l[j].id => i = j
IsList(l)   == l \in Lists /\ Distinct(l)

Views ==
  [list : Lists, closed : SUBSET Ids, active : Ids \cup {None}, attached : SUBSET Ids,
   panels : SUBSET Ids, out : Seq(Orders)]

(* A page lists each session once, with a panel for each; one of them is the *)
(* active one.                                                              *)
IsView(p) ==
  /\ p \in Views /\ Distinct(p.list) /\ p.panels = IdsOf(p.list)
  /\ IF p.list = <<>> THEN p.active = None ELSE p.active \in IdsOf(p.list)
IsPage(p) == IsView(p) /\ p.out = <<>>

ClientTypeOK ==
  /\ IsList(srv) /\ used \subseteq OwnIds /\ watch \subseteq Ids
  /\ link \in BOOLEAN /\ ready \in BOOLEAN
  /\ down \in Seq(Frames) /\ up \in Seq(Orders) /\ queue \in Seq(Orders)
  /\ IsPage(page) /\ restarting \subseteq Ids /\ abandoned \subseteq Ids \cup {None}
  /\ \A i \in DOMAIN down : down[i].t = "ready" => Distinct(down[i].sessions)

(* READY is the first frame of a link, and the only one.                    *)
ReadyLeads ==
  /\ IF link THEN queue = <<>> ELSE down = <<>> /\ up = <<>> /\ ~ready
  /\ link /\ ~ready => down # <<>> /\ down[1].t = "ready"
  /\ \A i \in DOMAIN down : down[i].t = "ready" => ~ready /\ i = 1

(* What the frames under way start from.                                    *)
Base == IF link /\ ~ready THEN down[1].sessions ELSE page.list

Adds(f, id)    == f.t \in {"session", "created"} /\ f.session.id = id
Ends(f, id)    == f.t = "closed" /\ f.id = id
Touches(f, id) == Adds(f, id) \/ Ends(f, id) \/ (f.t = "exit" /\ f.id = id)
Untouched(id)  == \A i \in DOMAIN down : ~Touches(down[i], id)
Added(id)      == \E i \in DOMAIN down : Adds(down[i], id)

(* A session of the server's own has one life, before which nobody knows it  *)
(* and after which it does not come back.                                   *)
OneLife ==
  \A id \in OwnIds :
    /\ id \notin used => /\ id \notin IdsOf(srv) \cup IdsOf(page.list) \cup page.closed
                         /\ id \notin IdsOf(Base) /\ Untouched(id)
    /\ id \in page.closed \/ (\E i \in DOMAIN down : Ends(down[i], id)) => id \notin IdsOf(srv)

(* The last frame about a session tells the truth.                          *)
LastTells ==
  \A id \in Ids : \A i \in DOMAIN down :
    Touches(down[i], id) /\ (\A j \in DOMAIN down : j > i => ~Touches(down[j], id))
    => \/ Ends(down[i], id) /\ id \notin IdsOf(srv)
       \/ Adds(down[i], id) /\ down[i].session \in Range(srv)

(* Where no frame is about it, what they start from does.                   *)
QuietIsTrue ==
  link => \A id \in Ids : Untouched(id) =>
            /\ id \in IdsOf(Base) => id \in IdsOf(srv)
            /\ id \in OwnIds => \A s \in Entries : s.id = id => (s \in Range(Base) <=> s \in Range(srv))

(* No session is missing from the list and from the frames.                 *)
SoonListed ==
  link => \A id \in OwnIds \cap IdsOf(srv) : id \in IdsOf(Base) \/ Added(id)

(* Sessions are told of in the order the server has them in.                *)
Precedes(l, a, b) == \E i, j \in DOMAIN l : i < j /\ l[i].id = a /\ l[j].id = b
InTheirOrder ==
  link => \A a, b \in OwnIds : Precedes(srv, a, b) =>
    /\ b \in IdsOf(Base) => Precedes(Base, a, b)
    /\ \A i \in DOMAIN down : Adds(down[i], b) =>
         a \in IdsOf(Base) \/ \E j \in DOMAIN down : j < i /\ Adds(down[j], a)

(* Of what the page shows, what is still there was there when the link was   *)
(* made.                                                                    *)
OldIsListed ==
  link /\ ~ready =>
    \A id \in OwnIds : id \in IdsOf(srv) /\ id \in IdsOf(page.list) => id \in IdsOf(Base)

(* A panel asks for its output again, unless the user closed it.            *)
OnItsWay(t, id) == Frame(t, id) \in Range(up)
Closing(id)     == id \in abandoned \/ OnItsWay("kill", id) \/ id \in Killed(queue)
PanelsAsk ==
  \A id \in OwnIds \cap IdsOf(srv) \cap IdsOf(page.list) :
    /\ id \in page.attached \/ Closing(id)
    /\ ready => id \in watch \/ OnItsWay("attach", id) \/ Closing(id)

ClientInv ==
  /\ ClientTypeOK /\ ReadyLeads /\ OneLife /\ LastTells /\ QuietIsTrue /\ SoonListed
  /\ InTheirOrder /\ OldIsListed /\ PanelsAsk

-----------------------------------------------------------------------------
(* Lists of sessions.                                                       *)
LEMMA ListUp ==
  ASSUME NEW l, IsList(l)
  PROVE  /\ Len(l) \in Nat /\ DOMAIN l = 1..Len(l)
         /\ \A i \in DOMAIN l : l[i] \in Entries /\ l[i].id \in Ids
         /\ \A s \in Range(l) : s \in Entries /\ s.id \in IdsOf(l)
         /\ \A id \in IdsOf(l) : id \in Ids /\ \E s \in Range(l) : s.id = id
         /\ \A s, t \in Range(l) : s.id = t.id => s = t
<1>1. l \in Seq(Entries) /\ Distinct(l)
  BY DEF IsList, Lists
<1>2. Len(l) \in Nat /\ DOMAIN l = 1..Len(l)
  BY <1>1
<1>3. \A i \in DOMAIN l : l[i] \in Entries
  BY <1>1
<1>4. \A s \in Entries : s.id \in Ids
  BY DEF Entries
<1>5. \A s \in Range(l) : \E i \in DOMAIN l : s = l[i]
  BY DEF Range
<1>6. \A i \in DOMAIN l : l[i].id \in IdsOf(l) /\ l[i] \in Range(l)
  BY DEF Range, IdsOf
<1>7. \A id \in IdsOf(l) : \E i \in DOMAIN l : id = l[i].id
  BY DEF IdsOf
<1>8. \A s, t \in Range(l) : s.id = t.id => s = t
  BY <1>1, <1>5 DEF Distinct
<1> QED
  BY <1>2, <1>3, <1>4, <1>5, <1>6, <1>7, <1>8

LEMMA MergedTo ==
  ASSUME NEW l, IsList(l), NEW s \in Entries, s.id \in IdsOf(l)
  PROVE  /\ IsList(Merged(l, s)) /\ IdsOf(Merged(l, s)) = IdsOf(l)
         /\ \A e \in Entries : e \in Range(Merged(l, s)) <=> e = s \/ (e \in Range(l) /\ e.id # s.id)
         /\ \A a, b : Precedes(Merged(l, s), a, b) <=> Precedes(l, a, b)
<1> DEFINE m == [i \in DOMAIN l |-> IF l[i].id = s.id THEN s ELSE l[i]]
<1>1. Merged(l, s) = m
  BY DEF Merged
<1>2. l \in Seq(Entries) /\ Distinct(l) /\ Len(l) \in Nat /\ DOMAIN l = 1..Len(l)
  BY ListUp DEF IsList, Lists
<1>3. m \in Seq(Entries) /\ DOMAIN m = DOMAIN l
  BY <1>2
<1>4. \A i \in DOMAIN l : m[i].id = l[i].id /\ m[i] = IF l[i].id = s.id THEN s ELSE l[i]
  OBVIOUS
<1> HIDE DEF m
<1>5. IsList(m)
  BY <1>2, <1>3, <1>4 DEF IsList, Lists, Distinct
<1>6. IdsOf(m) = IdsOf(l)
  BY <1>3, <1>4 DEF IdsOf
<1>7. PICK k \in DOMAIN l : l[k].id = s.id
  BY DEF IdsOf
<1>8. \A e \in Entries : e \in Range(m) <=> e = s \/ (e \in Range(l) /\ e.id # s.id)
  BY <1>3, <1>4, <1>7 DEF Range
<1>9. \A a, b : Precedes(m, a, b) <=> Precedes(l, a, b)
  BY <1>3, <1>4 DEF Precedes
<1> QED
  BY <1>1, <1>5, <1>6, <1>8, <1>9

LEMMA AppendedTo ==
  ASSUME NEW l, IsList(l), NEW s \in Entries, s.id \notin IdsOf(l)
  PROVE  /\ IsList(Append(l, s)) /\ IdsOf(Append(l, s)) = IdsOf(l) \cup {s.id}
         /\ \A e \in Entries : e \in Range(Append(l, s)) <=> e = s \/ e \in Range(l)
         /\ \A a, b : Precedes(Append(l, s), a, b)
                        <=> Precedes(l, a, b) \/ (b = s.id /\ a \in IdsOf(l))
<1> DEFINE m == Append(l, s)
           n == Len(l)
<1>1. l \in Seq(Entries) /\ Distinct(l) /\ n \in Nat /\ DOMAIN l = 1..n
  BY ListUp DEF IsList, Lists
<1>2. m \in Seq(Entries) /\ DOMAIN m = 1..(n + 1) /\ m[n + 1] = s /\ \A i \in 1..n : m[i] = l[i]
  BY <1>1
<1>3. \A i \in 1..n : l[i].id # s.id /\ l[i] # s
  BY <1>1 DEF IdsOf
<1> HIDE DEF m, n
<1>4. IsList(m)
  BY <1>1, <1>2, <1>3 DEF IsList, Lists, Distinct
<1>5. IdsOf(m) = IdsOf(l) \cup {s.id}
  BY <1>1, <1>2 DEF IdsOf
<1>6. \A e \in Entries : e \in Range(m) <=> e = s \/ e \in Range(l)
  BY <1>1, <1>2 DEF Range
<1>7. ASSUME NEW a, NEW b, Precedes(m, a, b)
      PROVE  Precedes(l, a, b) \/ (b = s.id /\ a \in IdsOf(l))
  <2>1. PICK i, j \in 1..(n + 1) : i < j /\ m[i].id = a /\ m[j].id = b
    BY <1>2, <1>7 DEF Precedes
  <2>2. i \in 1..n
    BY <1>1, <2>1
  <2>3. CASE j = n + 1
    BY <1>1, <1>2, <2>1, <2>2, <2>3 DEF IdsOf
  <2>4. CASE j # n + 1
    <3>1. j \in 1..n
      BY <1>1, <2>1, <2>4
    <3> QED
      BY <1>1, <1>2, <2>1, <2>2, <3>1 DEF Precedes
  <2> QED
    BY <2>3, <2>4
<1>8. ASSUME NEW a, NEW b, Precedes(l, a, b) PROVE Precedes(m, a, b)
  BY <1>1, <1>2, <1>8 DEF Precedes
<1>9. ASSUME NEW a, a \in IdsOf(l) PROVE Precedes(m, a, s.id)
  <2>1. PICK i \in 1..n : l[i].id = a
    BY <1>1, <1>9 DEF IdsOf
  <2>2. i \in DOMAIN m /\ n + 1 \in DOMAIN m /\ i < n + 1 /\ m[i].id = a /\ m[n + 1].id = s.id
    BY <1>1, <1>2, <2>1
  <2> QED
    BY <2>2 DEF Precedes
<1> QED
  BY <1>4, <1>5, <1>6, <1>7, <1>8, <1>9 DEF m

LEMMA RemovedFrom ==
  ASSUME NEW l, IsList(l), NEW id
  PROVE  /\ IsList(Without(l, id)) /\ IdsOf(Without(l, id)) = IdsOf(l) \ {id}
         /\ \A e \in Entries : e \in Range(Without(l, id)) <=> e \in Range(l) /\ e.id # id
         /\ \A a, b : Precedes(Without(l, id), a, b) <=> Precedes(l, a, b) /\ a # id /\ b # id
<1>1. l \in Seq(Entries) /\ Distinct(l) /\ Len(l) \in Nat /\ DOMAIN l = 1..Len(l)
  BY ListUp DEF IsList, Lists
<1>2. CASE id \notin IdsOf(l)
  <2>1. Without(l, id) = l
    BY <1>2 DEF Without
  <2>2. \A i \in DOMAIN l : l[i].id # id
    BY <1>2 DEF IdsOf
  <2> QED
    BY <2>1, <2>2 DEF Range, IdsOf, Precedes
<1>3. CASE id \in IdsOf(l)
  <2> DEFINE k == Position(l, id)
             n == Len(l)
             m == SubSeq(l, 1, k - 1) \o SubSeq(l, k + 1, n)
  <2>1. Without(l, id) = m
    BY <1>3 DEF Without, RemoveAt
  <2>2. \E i \in DOMAIN l : l[i].id = id
    BY <1>3 DEF IdsOf
  <2>3. k \in 1..n /\ l[k].id = id
    BY <1>1, <2>2 DEF Position
  <2> HIDE DEF k
  <2>4. /\ SubSeq(l, 1, k - 1) \in Seq(Entries) /\ Len(SubSeq(l, 1, k - 1)) = k - 1
        /\ \A i \in 1..(k - 1) : SubSeq(l, 1, k - 1)[i] = l[i]
    BY <1>1, <2>3
  <2>5. /\ SubSeq(l, k + 1, n) \in Seq(Entries) /\ Len(SubSeq(l, k + 1, n)) = n - k
        /\ \A i \in 1..(n - k) : SubSeq(l, k + 1, n)[i] = l[k + i]
    <3>1. n \in Nat /\ k \in Nat /\ k <= n /\ k + 1 \in Nat /\ k + 1 >= 1 /\ n - k \in Nat
      BY <1>1, <2>3
    <3>2. CASE k = n
      BY <1>1, <3>1, <3>2
    <3>3. CASE k # n
      <4>1. k + 1 <= n /\ n - (k + 1) + 1 = n - k /\ k + 1 \in 1..n
        BY <3>1, <3>3
      <4>2. \A i \in 1..(n - k) : k + 1 + i - 1 = k + i /\ k + i \in 1..n
        BY <3>1
      <4> QED
        BY <1>1, <3>1, <4>1, <4>2
    <3> QED
      BY <3>2, <3>3
  <2>6. /\ m \in Seq(Entries) /\ DOMAIN m = 1..(n - 1)
        /\ \A i \in 1..(n - 1) : m[i] = IF i < k THEN l[i] ELSE l[i + 1]
    <3> DEFINE x == SubSeq(l, 1, k - 1)
               y == SubSeq(l, k + 1, n)
    <3>1. x \in Seq(Entries) /\ y \in Seq(Entries) /\ Len(x) = k - 1 /\ Len(y) = n - k
      BY <2>4, <2>5
    <3> HIDE DEF x, y
    <3>2. x \o y \in Seq(Entries) /\ Len(x \o y) = n - 1 /\ DOMAIN (x \o y) = 1..(n - 1)
      <4>1. x \o y \in Seq(Entries) /\ Len(x \o y) = Len(x) + Len(y)
        BY <3>1
      <4>2. Len(x) + Len(y) = n - 1
        <5>1. k \in Nat /\ n \in Nat /\ k <= n
          BY <1>1, <2>3
        <5> HIDE DEF n
        <5> QED
          BY <3>1, <5>1
      <4> QED
        BY <4>1, <4>2
    <3>3. \A i \in 1..(n - 1) : (x \o y)[i] = IF i < k THEN x[i] ELSE y[i - (k - 1)]
      <4>1. \A i \in 1..(n - 1) : i < k <=> i <= Len(x)
        <5>1. k \in Nat /\ n \in Nat /\ k <= n
          BY <1>1, <2>3
        <5> HIDE DEF n
        <5> QED
          BY <3>1, <5>1
      <4>2. \A i \in 1..(Len(x) + Len(y)) : (x \o y)[i] = IF i <= Len(x) THEN x[i] ELSE y[i - Len(x)]
        BY <3>1
      <4>3. Len(x) + Len(y) = n - 1
        BY <1>1, <2>3, <3>1
      <4> QED
        BY <3>1, <4>1, <4>2, <4>3
    <3>4. \A i \in 1..(n - 1) : i < k => x[i] = l[i]
      BY <1>1, <2>3, <2>4 DEF x
    <3>5. \A i \in 1..(n - 1) : ~(i < k) => y[i - (k - 1)] = l[i + 1]
      <4> SUFFICES ASSUME NEW i \in 1..(n - 1), ~(i < k) PROVE y[i - (k - 1)] = l[i + 1]
        OBVIOUS
      <4>1. i - (k - 1) \in 1..(n - k) /\ k + (i - (k - 1)) = i + 1
        BY <1>1, <2>3
      <4> QED
        BY <2>5, <4>1 DEF y
    <3>6. \A i \in 1..(n - 1) : (x \o y)[i] = IF i < k THEN l[i] ELSE l[i + 1]
      BY <3>3, <3>4, <3>5
    <3> QED
      BY <3>2, <3>6 DEF x, y
  <2> HIDE DEF m
  <2>7. \A i \in 1..(n - 1) : \E j \in 1..n : j # k /\ m[i] = l[j] /\ j = (IF i < k THEN i ELSE i + 1)
    BY <1>1, <2>3, <2>6
  <2>8. \A j \in 1..n : j # k => \E i \in 1..(n - 1) : m[i] = l[j] /\ i = (IF j < k THEN j ELSE j - 1)
    <3> SUFFICES ASSUME NEW j \in 1..n, j # k
                 PROVE  LET i == IF j < k THEN j ELSE j - 1 IN i \in 1..(n - 1) /\ m[i] = l[j]
      OBVIOUS
    <3>1. CASE j < k
      BY <1>1, <2>3, <2>6, <3>1
    <3>2. CASE ~(j < k)
      <4>1. j - 1 \in 1..(n - 1) /\ ~(j - 1 < k) /\ (j - 1) + 1 = j
        BY <1>1, <2>3, <3>2
      <4> QED
        BY <2>6, <3>2, <4>1
    <3> QED
      BY <3>1, <3>2
  <2>9. \A j \in 1..n : j # k => l[j].id # id
    BY <1>1, <2>3 DEF Distinct
  <2>10. IsList(m)
    <3>1. ASSUME NEW i \in 1..(n - 1), NEW j \in 1..(n - 1), m[i].id = m[j].id PROVE i = j
      <4>1. PICK p \in 1..n : m[i] = l[p] /\ p = (IF i < k THEN i ELSE i + 1)
        BY <2>7
      <4>2. PICK q \in 1..n : m[j] = l[q] /\ q = (IF j < k THEN j ELSE j + 1)
        BY <2>7
      <4>3. p = q
        BY <1>1, <3>1, <4>1, <4>2 DEF Distinct
      <4> QED
        BY <1>1, <2>3, <4>1, <4>2, <4>3
    <3> QED
      BY <2>6, <3>1 DEF IsList, Lists, Distinct
  <2>11. IdsOf(m) = IdsOf(l) \ {id}
    <3>1. \A x : x \in IdsOf(m) <=> \E i \in 1..(n - 1) : m[i].id = x
      BY <2>6 DEF IdsOf
    <3>2. \A x : x \in IdsOf(l) <=> \E j \in 1..n : l[j].id = x
      BY <1>1 DEF IdsOf
    <3>3. \A x : x \in IdsOf(m) => x \in IdsOf(l) /\ x # id
      BY <2>7, <2>9, <3>1, <3>2
    <3>4. \A x : x \in IdsOf(l) /\ x # id => x \in IdsOf(m)
      BY <2>3, <2>8, <3>1, <3>2
    <3> QED
      BY <3>3, <3>4
  <2>12. \A e : e \in Range(m) <=> e \in Range(l) /\ e.id # id
    <3>1. \A e : e \in Range(m) <=> \E i \in 1..(n - 1) : m[i] = e
      BY <2>6 DEF Range
    <3>2. \A e : e \in Range(l) <=> \E j \in 1..n : l[j] = e
      BY <1>1 DEF Range
    <3>3. \A e : e \in Range(m) => e \in Range(l) /\ e.id # id
      BY <2>7, <2>9, <3>1, <3>2
    <3>4. \A e : e \in Range(l) /\ e.id # id => e \in Range(m)
      BY <2>3, <2>8, <3>1, <3>2
    <3> QED
      BY <3>3, <3>4
  <2>13. ASSUME NEW a, NEW b, Precedes(m, a, b) PROVE Precedes(l, a, b) /\ a # id /\ b # id
    <3>1. PICK i, j \in 1..(n - 1) : i < j /\ m[i].id = a /\ m[j].id = b
      BY <2>6, <2>13 DEF Precedes
    <3>2. PICK p \in 1..n : p # k /\ m[i] = l[p] /\ p = (IF i < k THEN i ELSE i + 1)
      BY <2>7
    <3>3. PICK q \in 1..n : q # k /\ m[j] = l[q] /\ q = (IF j < k THEN j ELSE j + 1)
      BY <2>7
    <3>4. p < q
      BY <1>1, <2>3, <3>1, <3>2, <3>3
    <3> QED
      BY <1>1, <2>9, <3>1, <3>2, <3>3, <3>4 DEF Precedes
  <2>14. ASSUME NEW a, NEW b, Precedes(l, a, b), a # id, b # id PROVE Precedes(m, a, b)
    <3>1. PICK i, j \in 1..n : i < j /\ l[i].id = a /\ l[j].id = b
      BY <1>1, <2>14 DEF Precedes
    <3>2. i # k /\ j # k
      BY <2>3, <2>14, <3>1
    <3>3. PICK p \in 1..(n - 1) : m[p] = l[i] /\ p = (IF i < k THEN i ELSE i - 1)
      BY <2>8, <3>2
    <3>4. PICK q \in 1..(n - 1) : m[q] = l[j] /\ q = (IF j < k THEN j ELSE j - 1)
      BY <2>8, <3>2
    <3>5. p < q
      BY <1>1, <2>3, <3>1, <3>2, <3>3, <3>4
    <3> QED
      BY <2>6, <3>1, <3>3, <3>4, <3>5 DEF Precedes
  <2> QED
    BY <2>1, <2>10, <2>11, <2>12, <2>13, <2>14
<1> QED
  BY <1>2, <1>3

-----------------------------------------------------------------------------
(* The messages of the page.                                                *)
LEMMA RangeJoined ==
  ASSUME NEW S, NEW x \in Seq(S), NEW y \in Seq(S)
  PROVE  x \o y \in Seq(S) /\ Range(x \o y) = Range(x) \cup Range(y)
<1> DEFINE z == x \o y
<1>1. /\ z \in Seq(S) /\ Len(x) \in Nat /\ Len(y) \in Nat /\ Len(z) = Len(x) + Len(y)
      /\ DOMAIN x = 1..Len(x) /\ DOMAIN y = 1..Len(y) /\ DOMAIN z = 1..(Len(x) + Len(y))
      /\ \A i \in 1..Len(x) : z[i] = x[i]
      /\ \A i \in 1..Len(y) : z[Len(x) + i] = y[i]
  OBVIOUS
<1> HIDE DEF z
<1>2. ASSUME NEW i \in DOMAIN z PROVE z[i] \in Range(x) \cup Range(y)
  <2>1. CASE i <= Len(x)
    BY <1>1, <2>1 DEF Range
  <2>2. CASE ~(i <= Len(x))
    <3>1. i - Len(x) \in DOMAIN y /\ Len(x) + (i - Len(x)) = i
      BY <1>1, <2>2
    <3> QED
      BY <1>1, <3>1 DEF Range
  <2> QED
    BY <2>1, <2>2
<1>3. ASSUME NEW i \in DOMAIN x PROVE x[i] \in Range(z)
  <2>1. i \in DOMAIN z /\ z[i] = x[i]
    BY <1>1
  <2> QED
    BY <2>1 DEF Range
<1>4. ASSUME NEW i \in DOMAIN y PROVE y[i] \in Range(z)
  <2>1. Len(x) + i \in DOMAIN z /\ z[Len(x) + i] = y[i]
    BY <1>1
  <2> QED
    BY <2>1 DEF Range
<1>5. \A e : e \in Range(z) => \E i \in DOMAIN z : e = z[i]
  BY DEF Range
<1>6. \A e : e \in Range(x) \cup Range(y)
               => (\E i \in DOMAIN x : e = x[i]) \/ \E i \in DOMAIN y : e = y[i]
  BY DEF Range
<1>7. Range(z) = Range(x) \cup Range(y)
  BY <1>2, <1>3, <1>4, <1>5, <1>6
<1> QED
  BY <1>1, <1>7 DEF z

LEMMA IdsAreFew ==
  ASSUME NEW l, IsList(l)
  PROVE  IsFiniteSet(IdsOf(l)) /\ IdsOf(l) \subseteq Ids
<1> DEFINE f == [i \in 1..Len(l) |-> l[i].id]
<1>1. Len(l) \in Nat /\ DOMAIN l = 1..Len(l)
  BY ListUp
<1>2. f \in [1..Len(l) -> IdsOf(l)] /\ \A id \in IdsOf(l) : \E i \in 1..Len(l) : f[i] = id
  BY <1>1 DEF IdsOf
<1>3. f \in Surjection(1..Len(l), IdsOf(l))
  BY <1>2 DEF Surjection, Range
<1>4. IsFiniteSet(1..Len(l))
  BY <1>1, FS_Interval
<1>5. IsFiniteSet(IdsOf(l))
  BY <1>3, <1>4, FS_Surjection
<1> QED
  BY <1>5, ListUp

Asked(ids) == {Frame("attach", id) : id \in ids}

LEMMA AttachesUp ==
  ASSUME NEW ids \in SUBSET Ids, IsFiniteSet(ids)
  PROVE  Attaches(ids) \in Seq(Orders) /\ Range(Attaches(ids)) = Asked(ids)
<1> DEFINE S == Asked(ids)
           n == Cardinality(S)
           f == [id \in ids |-> Frame("attach", id)]
<1>1. f \in Surjection(ids, S)
  BY DEF Surjection, Range, Asked
<1>2. IsFiniteSet(S) /\ n \in Nat /\ ExistsBijection(1..n, S)
  BY <1>1, FS_Surjection, FS_CardinalityType
<1>3. PICK b : b \in Bijection(1..n, S)
  BY <1>2 DEF ExistsBijection
<1>4. b \in [1..n -> S] /\ IsInjective(b)
  BY <1>3 DEF Bijection, Injection, IsInjective
<1> DEFINE g == Attaches(ids)
<1>5. g = CHOOSE h \in [1..n -> S] : IsInjective(h)
  BY DEF Attaches, SetToSeq, Asked
<1>6. g \in [1..n -> S] /\ IsInjective(g)
  BY <1>4, <1>5
<1> HIDE DEF g
<1>7. g \in Injection(1..n, S)
  BY <1>6 DEF Injection, IsInjective
<1>8. IsFiniteSet(1..n) /\ Cardinality(1..n) = n
  BY <1>2, FS_Interval
<1>9. g \in Surjection(1..n, S)
  BY <1>2, <1>7, <1>8, FS_Injection
<1>10. Range(g) = S
  BY <1>6, <1>9 DEF Surjection, Range
<1>11. S \subseteq Orders
  BY DEF Asked, Frame, Orders
<1>12. g \in Seq(Orders)
  BY <1>2, <1>6, <1>11
<1> QED
  BY <1>10, <1>12 DEF g

-----------------------------------------------------------------------------
(* What the page does with a list.                                          *)
LEMMA SyncUp ==
  ASSUME NEW p \in Views, IsList(p.list)
  PROVE  LET new == IdsOf(p.list) \ p.panels
             q   == Sync(p)
         IN /\ q \in Views /\ q.list = p.list /\ q.closed = p.closed /\ q.active = p.active
            /\ q.panels = IdsOf(p.list) /\ q.attached = p.attached \cup new
            /\ Range(q.out) = Range(p.out) \cup Asked(new)
<1> DEFINE new == IdsOf(p.list) \ p.panels
           o == p.out \o Attaches(new)
<1>1. /\ p.list \in Lists /\ p.closed \subseteq Ids /\ p.active \in Ids \cup {None}
      /\ p.attached \subseteq Ids /\ p.panels \subseteq Ids /\ p.out \in Seq(Orders)
  BY DEF Views
<1>2. IsFiniteSet(new) /\ new \subseteq Ids /\ IdsOf(p.list) \subseteq Ids
  BY IdsAreFew, FS_Subset
<1>3. Attaches(new) \in Seq(Orders) /\ Range(Attaches(new)) = Asked(new)
  BY <1>2, AttachesUp
<1>4. o \in Seq(Orders) /\ Range(o) = Range(p.out) \cup Asked(new)
  <2> DEFINE a == Attaches(new)
  <2>1. a \in Seq(Orders) /\ Range(a) = Asked(new) /\ p.out \in Seq(Orders)
    BY <1>1, <1>3
  <2> HIDE DEF a, new
  <2>2. p.out \o a \in Seq(Orders) /\ Range(p.out \o a) = Range(p.out) \cup Range(a)
    BY <2>1, RangeJoined
  <2> QED
    BY <2>1, <2>2 DEF a
<1>5. Sync(p) = [p EXCEPT !.panels = IdsOf(p.list), !.attached = p.attached \cup new, !.out = o]
  BY DEF Sync
<1> HIDE DEF new, o
<1>6. Sync(p) = [list |-> p.list, closed |-> p.closed, active |-> p.active,
                 attached |-> p.attached \cup new, panels |-> IdsOf(p.list), out |-> o]
  BY <1>5 DEF Views
<1> DEFINE q == Sync(p)
<1>7. /\ q.list = p.list /\ q.closed = p.closed /\ q.active = p.active
      /\ q.panels = IdsOf(p.list) /\ q.attached = p.attached \cup new /\ q.out = o
  BY <1>6
<1>8. p.attached \cup new \subseteq Ids
  BY <1>1, <1>2
<1>9. q \in Views
  BY <1>1, <1>2, <1>4, <1>6, <1>8 DEF Views
<1> QED
  BY <1>4, <1>7, <1>9 DEF new

(* A view whose list becomes another: new sessions attach.                  *)
Becomes(p, q, l) ==
  /\ IsView(q) /\ q.list = l /\ q.attached = p.attached \cup (IdsOf(l) \ IdsOf(p.list))
  /\ Range(q.out) = Range(p.out) \cup Asked(IdsOf(l) \ IdsOf(p.list))

LEMMA ViewFields ==
  ASSUME NEW p \in Views
  PROVE  /\ p.list \in Lists /\ p.closed \subseteq Ids /\ p.active \in Ids \cup {None}
         /\ p.attached \subseteq Ids /\ p.panels \subseteq Ids /\ p.out \in Seq(Orders)
         /\ p = [list |-> p.list, closed |-> p.closed, active |-> p.active,
                 attached |-> p.attached, panels |-> p.panels, out |-> p.out]
BY DEF Views

LEMMA ViewSet ==
  ASSUME NEW p \in Views, NEW a, NEW b, NEW q
  PROVE  /\ q = [p EXCEPT !.attached = a, !.out = b]
             => q = [list |-> p.list, closed |-> p.closed, active |-> p.active,
                     attached |-> a, panels |-> p.panels, out |-> b]
         /\ q = [p EXCEPT !.list = a, !.active = b]
             => q = [list |-> a, closed |-> p.closed, active |-> b,
                     attached |-> p.attached, panels |-> p.panels, out |-> p.out]
         /\ q = [p EXCEPT !.active = a]
             => q = [list |-> p.list, closed |-> p.closed, active |-> a,
                     attached |-> p.attached, panels |-> p.panels, out |-> p.out]
<1>1. ASSUME q = [p EXCEPT !.attached = a, !.out = b]
      PROVE  q = [list |-> p.list, closed |-> p.closed, active |-> p.active,
                  attached |-> a, panels |-> p.panels, out |-> b]
  BY <1>1 DEF Views
<1>2. ASSUME q = [p EXCEPT !.list = a, !.active = b]
      PROVE  q = [list |-> a, closed |-> p.closed, active |-> b,
                  attached |-> p.attached, panels |-> p.panels, out |-> p.out]
  BY <1>2 DEF Views
<1>3. ASSUME q = [p EXCEPT !.active = a]
      PROVE  q = [list |-> p.list, closed |-> p.closed, active |-> a,
                  attached |-> p.attached, panels |-> p.panels, out |-> p.out]
  BY <1>3 DEF Views
<1> QED
  BY <1>1, <1>2, <1>3

LEMMA NoneListed ==
  ASSUME NEW l, IsList(l)
  PROVE  /\ l = <<>> <=> IdsOf(l) = {}
         /\ l # <<>> => /\ Len(l) \in Nat \ {0} /\ \A i \in 1..Len(l) : l[i].id \in IdsOf(l)
<1>1. l \in Seq(Entries) /\ Len(l) \in Nat /\ DOMAIN l = 1..Len(l)
  BY ListUp DEF IsList, Lists
<1>2. l = <<>> => IdsOf(l) = {}
  BY DEF IdsOf
<1>3. l # <<>> => Len(l) # 0
  BY <1>1
<1>4. \A i \in 1..Len(l) : l[i].id \in IdsOf(l)
  BY <1>1 DEF IdsOf
<1>5. l # <<>> => 1 \in 1..Len(l)
  BY <1>1, <1>3
<1> QED
  BY <1>1, <1>2, <1>3, <1>4, <1>5

LEMMA MergedUp ==
  ASSUME NEW l, IsList(l), NEW s \in Entries
  PROVE  /\ IsList(Merged(l, s)) /\ IdsOf(Merged(l, s)) = IdsOf(l) \cup {s.id}
         /\ \A e \in Entries : e \in Range(Merged(l, s)) <=> e = s \/ (e \in Range(l) /\ e.id # s.id)
         /\ \A a, b : Precedes(Merged(l, s), a, b)
                        <=> Precedes(l, a, b) \/ (s.id \notin IdsOf(l) /\ b = s.id /\ a \in IdsOf(l))
<1>1. CASE s.id \in IdsOf(l)
  BY <1>1, MergedTo
<1>2. CASE s.id \notin IdsOf(l)
  <2>1. Merged(l, s) = Append(l, s)
    BY <1>2 DEF Merged
  <2>2. \A e \in Range(l) : e.id # s.id
    BY <1>2, ListUp
  <2> QED
    BY <1>2, <2>1, <2>2, AppendedTo
<1> QED
  BY <1>1, <1>2

LEMMA UpsertUp ==
  ASSUME Separate, NEW p, IsView(p), NEW s \in Entries
  PROVE  LET q == upsertSession(p, s) IN
         /\ q.closed = p.closed
         /\ IF s.id \in p.closed THEN q = p ELSE Becomes(p, q, Merged(p.list, s))
<1>1. CASE s.id \in p.closed
  BY <1>1 DEF upsertSession
<1>2. CASE s.id \notin p.closed
  <2> DEFINE l == Merged(p.list, s)
             r == [p EXCEPT !.list = l]
             y == Sync(r)
             q == IF y.active = None THEN [y EXCEPT !.active = s.id] ELSE y
  <2>1. p \in Views /\ IsList(p.list) /\ p.panels = IdsOf(p.list)
    BY DEF IsView, IsList, Views
  <2>2. IsList(l) /\ IdsOf(l) = IdsOf(p.list) \cup {s.id} /\ l \in Lists /\ s.id \in Ids
    BY <2>1, MergedUp DEF IsList, Entries
  <2> HIDE DEF l
  <2>3. /\ r \in Views /\ r.list = l /\ r.closed = p.closed /\ r.active = p.active
        /\ r.panels = p.panels /\ r.attached = p.attached /\ r.out = p.out
    BY <2>1, <2>2, ViewFields DEF Views
  <2> HIDE DEF r
  <2> DEFINE new == IdsOf(l) \ IdsOf(p.list)
  <2>4. /\ y \in Views /\ y.list = l /\ y.closed = p.closed /\ y.active = p.active
        /\ y.panels = IdsOf(l) /\ y.attached = p.attached \cup new
        /\ Range(y.out) = Range(p.out) \cup Asked(new)
    BY <2>1, <2>2, <2>3, SyncUp
  <2> HIDE DEF y, new
  <2>5. /\ q \in Views /\ q.list = l /\ q.closed = p.closed /\ q.panels = IdsOf(l)
        /\ q.attached = p.attached \cup new /\ q.out = y.out
        /\ q.active = IF p.active = None THEN s.id ELSE p.active
    <3>1. CASE y.active = None
      <4>1. q = [list |-> y.list, closed |-> y.closed, active |-> s.id,
                 attached |-> y.attached, panels |-> y.panels, out |-> y.out]
        BY <2>4, <3>1 DEF Views
      <4> QED
        BY <2>2, <2>4, <3>1, <4>1 DEF Views
    <3>2. CASE y.active # None
      BY <2>4, <3>2
    <3> QED
      BY <3>1, <3>2
  <2>6. q = upsertSession(p, s)
    BY <1>2 DEF upsertSession, q, y, r, l
  <2> HIDE DEF q
  <2>7. q.active \in IdsOf(l) /\ l # <<>>
    <3>1. p.active = None \/ p.active \in IdsOf(p.list)
      BY <2>1 DEF IsView
    <3>2. q.active \in IdsOf(l)
      BY <2>2, <2>5, <3>1
    <3> QED
      BY <2>2, <3>2, NoneListed
  <2>8. IsView(q)
    BY <2>2, <2>5, <2>7 DEF IsView, IsList
  <2>9. Becomes(p, q, l)
    BY <2>4, <2>5, <2>8 DEF Becomes, new
  <2> QED
    BY <1>2, <2>5, <2>6, <2>9 DEF l
<1> QED
  BY <1>1, <1>2

LEMMA ExitUp ==
  ASSUME Separate, NEW p, IsView(p), NEW id \in Ids
  PROVE  LET q == markExited(p, id)
             s == Session(id, "exited")
         IN /\ q.closed = p.closed
            /\ \/ q = p
               \/ id \in IdsOf(p.list) /\ id \notin p.closed /\ Becomes(p, q, Merged(p.list, s))
<1>1. Session(id, "exited") \in Entries /\ Session(id, "exited").id = id
  BY DEF Session, Entries
<1> QED
  BY <1>1, UpsertUp DEF markExited

LEMMA RemoveUp ==
  ASSUME Separate, NEW p, IsView(p), NEW id \in Ids
  PROVE  LET q == removeSession(p, id) IN
         q.closed = p.closed \cup {id} /\ Becomes(p, q, Without(p.list, id))
<1> DEFINE l == Without(p.list, id)
           act == IF p.active = id THEN Neighbour(l, Position(p.list, id)) ELSE p.active
<1>1. p \in Views /\ IsList(p.list) /\ p.panels = IdsOf(p.list)
  BY DEF IsView, IsList, Views
<1>2. IsList(l) /\ IdsOf(l) = IdsOf(p.list) \ {id} /\ l \in Lists
  BY <1>1, RemovedFrom DEF IsList
<1>3. CASE id \notin IdsOf(p.list)
  <2> DEFINE q == [p EXCEPT !.closed = p.closed \cup {id}]
  <2>1. removeSession(p, id) = q /\ l = p.list
    BY <1>3 DEF removeSession, Without
  <2>2. /\ q \in Views /\ q.list = p.list /\ q.closed = p.closed \cup {id} /\ q.active = p.active
        /\ q.panels = p.panels /\ q.attached = p.attached /\ q.out = p.out
    BY <1>1, ViewFields DEF Views
  <2> HIDE DEF q, l
  <2>3. IsView(q)
    BY <2>2 DEF IsView
  <2>4. Asked({}) = {} /\ IdsOf(l) \ IdsOf(p.list) = {}
    BY <2>1 DEF Asked
  <2>5. Becomes(p, q, l)
    BY <2>1, <2>2, <2>3, <2>4 DEF Becomes
  <2> QED
    BY <2>1, <2>2, <2>5 DEF l
<1>4. CASE id \in IdsOf(p.list)
  <2> DEFINE r == [p EXCEPT !.closed = p.closed \cup {id}, !.list = l, !.active = act]
             q == Sync(r)
  <2>1. removeSession(p, id) = q
    BY <1>4 DEF removeSession
  <2>2. IF l = <<>> THEN act = None ELSE act \in IdsOf(l)
    <3>1. p.active \in IdsOf(p.list)
      BY <1>1, <1>4, NoneListed DEF IsView
    <3>2. CASE p.active # id
      <4>1. act = p.active /\ act \in IdsOf(l)
        BY <1>2, <3>1, <3>2
      <4> QED
        BY <1>2, <4>1, NoneListed
    <3>3. CASE p.active = id
      <4> DEFINE k == Position(p.list, id)
      <4>1. \E i \in DOMAIN p.list : p.list[i].id = id
        BY <1>4 DEF IdsOf
      <4>2. k \in 1..Len(p.list) /\ Len(p.list) \in Nat
        BY <1>1, <4>1, ListUp DEF Position
      <4> HIDE DEF k, l
      <4>3. act = Neighbour(l, k)
        BY <3>3 DEF k, l
      <4>4. l # <<>> => /\ Len(l) \in Nat \ {0}
                        /\ \A i \in 1..Len(l) : l[i].id \in IdsOf(l)
        BY <1>2, NoneListed
      <4>5. l # <<>> => (IF k <= Len(l) THEN k ELSE Len(l)) \in 1..Len(l)
        BY <4>2, <4>4
      <4> QED
        BY <4>3, <4>4, <4>5 DEF Neighbour
    <3> QED
      BY <3>2, <3>3
  <2>3. act \in Ids \cup {None}
    BY <1>2, <2>2, IdsAreFew
  <2> HIDE DEF l, act
  <2>4. /\ r \in Views /\ r.list = l /\ r.closed = p.closed \cup {id} /\ r.active = act
        /\ r.panels = p.panels /\ r.attached = p.attached /\ r.out = p.out
    BY <1>1, <1>2, <2>3, ViewFields DEF Views
  <2> HIDE DEF r
  <2> DEFINE new == IdsOf(l) \ IdsOf(p.list)
  <2>5. /\ q \in Views /\ q.list = l /\ q.closed = p.closed \cup {id} /\ q.active = act
        /\ q.panels = IdsOf(l) /\ q.attached = p.attached \cup new
        /\ Range(q.out) = Range(p.out) \cup Asked(new)
    BY <1>1, <1>2, <2>4, SyncUp
  <2> HIDE DEF q
  <2>6. IsView(q)
    BY <1>2, <2>2, <2>5 DEF IsView, IsList
  <2>7. Becomes(p, q, l)
    BY <2>5, <2>6 DEF Becomes
  <2> QED
    BY <2>1, <2>5, <2>7 DEF l
<1> QED
  BY <1>3, <1>4

LEMMA ReadyUp ==
  ASSUME Separate, NEW p, IsView(p), NEW l, IsList(l)
  PROVE  LET q    == applyReady(p, l)
             asks == (p.attached \cap IdsOf(l)) \cup (IdsOf(l) \ p.panels)
         IN /\ IsView(q) /\ q.list = l /\ q.closed = p.closed
            /\ q.attached = asks /\ Range(q.out) = Range(p.out) \cup Asked(asks)
<1> DEFINE again == p.attached \cap IdsOf(l)
           o == p.out \o Attaches(again)
           r == [p EXCEPT !.attached = again, !.out = o]
           act == IF p.active = None \/ p.active \in IdsOf(l) THEN p.active
                  ELSE IF l = <<>> THEN None ELSE l[1].id
           u == [r EXCEPT !.list = l, !.active = act]
           y == Sync(u)
           act2 == IF act # None \/ l = <<>> THEN act ELSE l[1].id
           q == [y EXCEPT !.active = act2]
<1>1. p \in Views
  BY DEF IsView
<1>2. IsFiniteSet(IdsOf(l)) /\ IdsOf(l) \subseteq Ids /\ l \in Lists
  BY IdsAreFew DEF IsList
<1>3. again \in SUBSET Ids /\ IsFiniteSet(again)
  BY <1>2, FS_Subset
<1>4. Attaches(again) \in Seq(Orders) /\ Range(Attaches(again)) = Asked(again)
  BY <1>3, AttachesUp
<1>5. o \in Seq(Orders) /\ Range(o) = Range(p.out) \cup Asked(again)
  <2> DEFINE a == Attaches(again)
  <2>1. a \in Seq(Orders) /\ Range(a) = Asked(again) /\ p.out \in Seq(Orders)
    BY <1>1, <1>4, ViewFields
  <2> HIDE DEF a, again
  <2>2. p.out \o a \in Seq(Orders) /\ Range(p.out \o a) = Range(p.out) \cup Range(a)
    BY <2>1, RangeJoined
  <2> QED
    BY <2>1, <2>2 DEF a
<1>6. l # <<>> => l[1].id \in IdsOf(l)
  <2>1. l # <<>> => 1 \in 1..Len(l)
    BY NoneListed
  <2> QED
    BY <2>1, NoneListed
<1>7. act \in Ids \cup {None} /\ act2 \in Ids \cup {None}
  BY <1>1, <1>2, <1>6, ViewFields
<1>8. IF l = <<>> THEN act2 = None ELSE act2 \in IdsOf(l)
  <2>1. l = <<>> => IdsOf(l) = {}
    BY NoneListed
  <2> QED
    BY <1>6, <2>1
<1>9. setSessions(Reattach(p, l), l) = u
  <2>1. Reattach(p, l) = r
    BY DEF Reattach
  <2>2. r.active = p.active
    BY <1>1, ViewFields
  <2> HIDE DEF r
  <2> QED
    BY <2>1, <2>2 DEF setSessions
<1> HIDE DEF again, o, act, act2
<1>10. /\ r \in Views /\ r.closed = p.closed /\ r.panels = p.panels
       /\ r.attached = again /\ r.out = o
  <2>1. r = [list |-> p.list, closed |-> p.closed, active |-> p.active,
             attached |-> again, panels |-> p.panels, out |-> o]
    BY <1>1, ViewSet
  <2> QED
    BY <1>1, <1>3, <1>5, <2>1, ViewFields DEF Views
<1> HIDE DEF r
<1>11. /\ u \in Views /\ u.list = l /\ u.closed = p.closed /\ u.active = act
       /\ u.panels = p.panels /\ u.attached = again /\ u.out = o
  <2>2. u = [r EXCEPT !.list = l, !.active = act]
    OBVIOUS
  <2> HIDE DEF u
  <2>1. u = [list |-> l, closed |-> r.closed, active |-> act,
             attached |-> r.attached, panels |-> r.panels, out |-> r.out]
    BY <1>10, <2>2, ViewSet
  <2> QED
    BY <1>1, <1>2, <1>3, <1>5, <1>7, <1>10, <2>1, ViewFields DEF Views
<1> HIDE DEF u
<1> DEFINE new == IdsOf(l) \ p.panels
<1>12. /\ y \in Views /\ y.list = l /\ y.closed = p.closed /\ y.active = act
       /\ y.panels = IdsOf(l) /\ y.attached = again \cup new
       /\ Range(y.out) = Range(o) \cup Asked(new)
  BY <1>11, SyncUp
<1> HIDE DEF new, y
<1>13. /\ q \in Views /\ q.list = l /\ q.closed = p.closed /\ q.active = act2
       /\ q.panels = IdsOf(l) /\ q.attached = again \cup new /\ q.out = y.out
  <2>1. q = [list |-> l, closed |-> y.closed, active |-> act2,
             attached |-> y.attached, panels |-> y.panels, out |-> y.out]
    BY <1>12, ViewSet
  <2> QED
    BY <1>7, <1>12, <2>1, ViewFields DEF Views
<1>14. q = applyReady(p, l)
  BY <1>9, <1>12 DEF applyReady, q, y, act2
<1> HIDE DEF q
<1>15. IsView(q)
  BY <1>8, <1>13 DEF IsView, IsList
<1>16. Asked(again) \cup Asked(new) = Asked(again \cup new)
  BY DEF Asked
<1> QED
  BY <1>5, <1>12, <1>13, <1>14, <1>15, <1>16 DEF new, again

-----------------------------------------------------------------------------
(* What the page makes of a frame.                                          *)
OnPage(q, m) ==
  /\ IsView(q)
  /\ q.closed = IF m.t = "closed" THEN page.closed \cup {m.id} ELSE page.closed
  /\ m.t = "ready" => q.list = m.sessions
  /\ m.t \in {"session", "created"} =>
       q.list = IF m.session.id \in page.closed THEN page.list ELSE Merged(page.list, m.session)
  /\ m.t = "exit" =>
       q.list = page.list \/ (/\ m.id \in IdsOf(page.list)
                              /\ q.list = Merged(page.list, Session(m.id, "exited")))
  /\ m.t = "closed" => q.list = Without(page.list, m.id)
  /\ m.t \in {"output", "snapshot", "error"} => q.list = page.list
Attaching(q, m) ==
  /\ \A id \in IdsOf(q.list) \ IdsOf(page.list) :
       id \in q.attached /\ Frame("attach", id) \in Range(q.out)
  /\ m.t = "ready" => \A id \in IdsOf(q.list) \cap page.attached :
       id \in q.attached /\ Frame("attach", id) \in Range(q.out)
  /\ m.t # "ready" => \A id \in page.attached : id \in q.attached \/ Ends(m, id)

LEMMA FrameKinds ==
  ASSUME NEW m \in Frames
  PROVE  /\ m.t \in {"ready", "session", "created", "exit", "closed", "output", "snapshot", "error"}
         /\ m.t = "ready" => m.sessions \in Lists
         /\ m.t \in {"session", "created"} => m.session \in Entries /\ m.session.id \in Ids
         /\ m.t \in {"exit", "closed", "output", "snapshot"} => m.id \in Ids
BY DEF Frames, Readies, Shown, Signs, Errors, Entries

LEMMA TrackUp ==
  ASSUME NEW p, IsView(p), NEW a \in SUBSET Ids
  PROVE  LET q == [p EXCEPT !.attached = a] IN
         IsView(q) /\ q.list = p.list /\ q.closed = p.closed /\ q.attached = a /\ q.out = p.out
<1> DEFINE q == [p EXCEPT !.attached = a]
<1>1. p \in Views
  BY DEF IsView
<1>2. /\ q \in Views /\ q.list = p.list /\ q.closed = p.closed /\ q.active = p.active
      /\ q.panels = p.panels /\ q.attached = a /\ q.out = p.out
  BY <1>1, ViewFields DEF Views
<1> HIDE DEF q
<1>3. IsView(q)
  BY <1>2 DEF IsView
<1> QED
  BY <1>2, <1>3 DEF q

LEMMA RoutedUp ==
  ASSUME Separate, IsPage(page), NEW m \in Frames, m.t = "ready" => Distinct(m.sessions)
  PROVE  LET q == Routed(page, m) IN OnPage(q, m) /\ Attaching(q, m)
<1> DEFINE q == Routed(page, m)
<1>1. IsView(page) /\ page.panels = IdsOf(page.list) /\ page.attached \subseteq Ids
  BY ViewFields DEF IsPage, IsView
<1>2. CASE m.t = "ready"
  <2>1. q = applyReady(page, m.sessions)
    BY <1>2 DEF Routed
  <2>2. IsList(m.sessions)
    BY <1>2, FrameKinds DEF IsList
  <2> HIDE DEF q
  <2>3. /\ IsView(q) /\ q.list = m.sessions /\ q.closed = page.closed
        /\ q.attached = (page.attached \cap IdsOf(m.sessions)) \cup (IdsOf(m.sessions) \ page.panels)
        /\ Range(q.out) = Range(page.out) \cup
             Asked((page.attached \cap IdsOf(m.sessions)) \cup (IdsOf(m.sessions) \ page.panels))
    BY <1>1, <2>1, <2>2, ReadyUp
  <2>4. OnPage(q, m)
    BY <1>2, <2>3 DEF OnPage
  <2>5. Attaching(q, m)
    BY <1>1, <1>2, <2>3 DEF Attaching, Asked
  <2> QED
    BY <2>4, <2>5 DEF q
<1>3. CASE m.t = "session"
  <2>1. q = upsertSession(page, m.session) /\ m.session \in Entries
    BY <1>3, FrameKinds DEF Routed
  <2> HIDE DEF q
  <2>2. /\ q.closed = page.closed
        /\ IF m.session.id \in page.closed THEN q = page
           ELSE Becomes(page, q, Merged(page.list, m.session))
    BY <1>1, <2>1, UpsertUp
  <2>3. OnPage(q, m) /\ Attaching(q, m)
    <3>1. CASE q = page /\ m.session.id \in page.closed
      BY <1>1, <1>3, <3>1 DEF OnPage, Attaching
    <3>2. CASE m.session.id \notin page.closed
      <4>1. Becomes(page, q, Merged(page.list, m.session))
        BY <2>2, <3>2
      <4>2. OnPage(q, m)
        BY <1>3, <2>2, <3>2, <4>1 DEF OnPage, Becomes
      <4>3. Attaching(q, m)
        BY <1>3, <4>1 DEF Attaching, Becomes, Asked
      <4> QED
        BY <4>2, <4>3
    <3> QED
      BY <2>2, <3>1, <3>2
  <2> QED
    BY <2>3 DEF q
<1>4. CASE m.t = "created"
  <2> DEFINE s == m.session
             a == page.attached \cup {s.id}
             p == [page EXCEPT !.attached = a]
             r == upsertSession(p, s)
  <2>1. s \in Entries /\ s.id \in Ids
    BY <1>4, FrameKinds
  <2>2. Track(page, s.id) = p
    <3>1. page \in Views
      BY <1>1 DEF IsView
    <3> QED
      BY <3>1 DEF Track
  <2>3. q = IF s.id \in IdsOf(r.list) THEN [r EXCEPT !.active = s.id] ELSE r
    BY <1>4, <2>2 DEF Routed
  <2> HIDE DEF q
  <2>4. a \subseteq Ids
    BY <1>1, <2>1
  <2> HIDE DEF a
  <2>5. /\ IsView(p) /\ p.list = page.list /\ p.closed = page.closed
        /\ p.attached = a /\ p.out = page.out
    BY <1>1, <2>4, TrackUp
  <2> HIDE DEF p, s
  <2>6. /\ r.closed = p.closed
        /\ IF s.id \in p.closed THEN r = p ELSE Becomes(p, r, Merged(p.list, s))
    BY <2>1, <2>5, UpsertUp
  <2> HIDE DEF r
  <2>7. /\ IsView(r) /\ r.closed = page.closed
        /\ r.list = IF s.id \in page.closed THEN page.list ELSE Merged(page.list, s)
        /\ a \subseteq r.attached
        /\ \A id \in IdsOf(r.list) \ IdsOf(page.list) :
             id \in r.attached /\ Frame("attach", id) \in Range(r.out)
    BY <2>5, <2>6 DEF Becomes, Asked
  <2>8. /\ IsView(q) /\ q.closed = r.closed /\ q.list = r.list /\ q.attached = r.attached
        /\ q.out = r.out
    <3>1. CASE s.id \notin IdsOf(r.list)
      BY <2>3, <2>7, <3>1
    <3>2. CASE s.id \in IdsOf(r.list)
      <4>0. r \in Views
        BY <2>7 DEF IsView
      <4>1. q = [r EXCEPT !.active = s.id]
        BY <2>3, <3>2
      <4>2. q = [list |-> r.list, closed |-> r.closed, active |-> s.id,
                 attached |-> r.attached, panels |-> r.panels, out |-> r.out]
        BY <4>0, <4>1, ViewSet
      <4>3. /\ q \in Views /\ q.list = r.list /\ q.closed = r.closed /\ q.active = s.id
            /\ q.panels = r.panels /\ q.attached = r.attached /\ q.out = r.out
        BY <2>1, <4>0, <4>2, ViewFields DEF Views
      <4>4. r.list # <<>>
        BY <3>2 DEF IdsOf
      <4> QED
        BY <2>7, <3>2, <4>3, <4>4 DEF IsView
    <3> QED
      BY <3>1, <3>2
  <2>9. OnPage(q, m)
    BY <1>4, <2>7, <2>8 DEF OnPage, s
  <2>10. Attaching(q, m)
    BY <1>4, <2>7, <2>8 DEF Attaching, a
  <2> QED
    BY <2>9, <2>10 DEF q
<1>5. CASE m.t \in {"output", "snapshot"}
  <2> DEFINE a == page.attached \cup {m.id}
             p == [page EXCEPT !.attached = a]
  <2>1. q = p
    <3>1. page \in Views
      BY <1>1 DEF IsView
    <3> QED
      BY <1>5, <3>1 DEF Routed, Track
  <2>2. a \subseteq Ids
    BY <1>1, <1>5, FrameKinds
  <2> HIDE DEF q, a
  <2>3. IsView(p) /\ p.list = page.list /\ p.closed = page.closed /\ p.attached = a
    BY <1>1, <2>2, TrackUp
  <2> HIDE DEF p
  <2>4. OnPage(q, m)
    BY <1>5, <2>1, <2>3 DEF OnPage
  <2>5. Attaching(q, m)
    BY <1>5, <2>1, <2>3 DEF Attaching, a
  <2> QED
    BY <2>4, <2>5 DEF q
<1>6. CASE m.t = "exit"
  <2>1. q = markExited(page, m.id) /\ m.id \in Ids
    BY <1>6, FrameKinds DEF Routed
  <2> HIDE DEF q
  <2>2. /\ q.closed = page.closed
        /\ \/ q = page
           \/ /\ m.id \in IdsOf(page.list)
              /\ Becomes(page, q, Merged(page.list, Session(m.id, "exited")))
    BY <1>1, <2>1, ExitUp
  <2>3. OnPage(q, m)
    BY <1>1, <1>6, <2>2 DEF OnPage, Becomes
  <2>4. Attaching(q, m)
    BY <1>6, <2>2 DEF Attaching, Becomes, Asked
  <2> QED
    BY <2>3, <2>4 DEF q
<1>7. CASE m.t = "closed"
  <2> DEFINE a == page.attached \ {m.id}
             p == [page EXCEPT !.attached = a]
  <2>1. q = removeSession(p, m.id) /\ m.id \in Ids
    <3>1. page \in Views
      BY <1>1 DEF IsView
    <3> QED
      BY <1>7, <3>1, FrameKinds DEF Routed
  <2>2. a \subseteq Ids
    BY <1>1
  <2> HIDE DEF q, a
  <2>3. IsView(p) /\ p.list = page.list /\ p.closed = page.closed /\ p.attached = a
    BY <1>1, <2>2, TrackUp
  <2> HIDE DEF p
  <2>4. q.closed = p.closed \cup {m.id} /\ Becomes(p, q, Without(p.list, m.id))
    BY <2>1, <2>3, RemoveUp
  <2>5. OnPage(q, m)
    BY <1>7, <2>3, <2>4 DEF OnPage, Becomes
  <2>6. Attaching(q, m)
    BY <1>7, <2>3, <2>4 DEF Attaching, Becomes, Asked, Ends, a
  <2> QED
    BY <2>5, <2>6 DEF q
<1>8. CASE m.t = "error"
  <2>1. q = page
    BY <1>8 DEF Routed
  <2> HIDE DEF q
  <2>2. OnPage(q, m) /\ Attaching(q, m)
    BY <1>1, <1>8, <2>1 DEF OnPage, Attaching
  <2> QED
    BY <2>2 DEF q
<1> QED
  BY <1>2, <1>3, <1>4, <1>5, <1>6, <1>7, <1>8, FrameKinds

-----------------------------------------------------------------------------
(* The server does something about a session, and tells.                    *)
Truth(f, id) == \/ Ends(f, id) /\ id \notin IdsOf(srv')
                \/ Adds(f, id) /\ f.session \in Range(srv')
Reported(id, fs) ==
  /\ fs \in Seq(Frames) /\ \A k \in DOMAIN fs : fs[k].t # "ready"
  /\ \A k \in DOMAIN fs : \A q \in Ids : Touches(fs[k], q) => q = id
  /\ \/ srv' = srv /\ \A k \in DOMAIN fs : ~Touches(fs[k], id)
     \/ /\ \E k \in DOMAIN fs : Touches(fs[k], id)
        /\ \A k \in DOMAIN fs :
             Touches(fs[k], id) /\ (\A j \in DOMAIN fs : j > k => ~Touches(fs[j], id))
             => Truth(fs[k], id)
Kept1(id) ==
  /\ IsList(srv')
  /\ \A q \in Ids : q # id => (q \in IdsOf(srv') <=> q \in IdsOf(srv))
  /\ \A e \in Entries : e.id # id => (e \in Range(srv') <=> e \in Range(srv))
  /\ \A a, b : Precedes(srv', a, b) =>
       Precedes(srv, a, b) \/ (b = id /\ b \notin IdsOf(srv) /\ a \in IdsOf(srv))
Lives(id, fs) ==
  /\ used \subseteq used' /\ used' \subseteq OwnIds
  /\ id \in OwnIds =>
       /\ id \in IdsOf(srv') => \/ id \in IdsOf(srv)
                                \/ id \notin used /\ \E k \in DOMAIN fs : Adds(fs[k], id)
       /\ id \in IdsOf(srv') \/ (\E k \in DOMAIN fs : Touches(fs[k], id)) => id \in used'
       /\ (\E k \in DOMAIN fs : Ends(fs[k], id)) => id \notin IdsOf(srv')
Does(id, fs) ==
  /\ Reported(id, fs) /\ Kept1(id) /\ Lives(id, fs) /\ Broadcast(fs)
  /\ UNCHANGED <<link, ready, queue, page>> /\ (~link => up' = up)

Wired == /\ ClientTypeOK /\ ReadyLeads /\ OneLife /\ LastTells /\ QuietIsTrue /\ SoonListed
         /\ InTheirOrder /\ OldIsListed

LEMMA DownUp ==
  ASSUME down \in Seq(Frames), NEW fs \in Seq(Frames), down' = down \o fs
  PROVE  LET n == Len(down) IN
         /\ down' \in Seq(Frames) /\ n \in Nat /\ DOMAIN down = 1..n
         /\ \A i \in DOMAIN down : i \in DOMAIN down' /\ down'[i] = down[i]
         /\ \A k \in DOMAIN fs : n + k \in DOMAIN down' /\ down'[n + k] = fs[k]
                                 /\ k \in Nat /\ k > 0
         /\ \A i \in DOMAIN down' : \/ i \in DOMAIN down
                                    \/ \E k \in DOMAIN fs : i = n + k
<1> DEFINE n == Len(down)
           z == down \o fs
<1>1. /\ z \in Seq(Frames) /\ n \in Nat /\ Len(fs) \in Nat /\ Len(z) = n + Len(fs)
      /\ DOMAIN down = 1..n /\ DOMAIN fs = 1..Len(fs) /\ DOMAIN z = 1..(n + Len(fs))
      /\ \A i \in 1..n : z[i] = down[i]
      /\ \A i \in 1..Len(fs) : z[n + i] = fs[i]
  OBVIOUS
<1>2. down' = z
  OBVIOUS
<1> HIDE DEF z
<1>3. ASSUME NEW i \in DOMAIN z, i \notin DOMAIN down PROVE \E k \in DOMAIN fs : i = n + k
  <2>1. i - n \in DOMAIN fs /\ i = n + (i - n)
    BY <1>1, <1>3
  <2> QED
    BY <2>1
<1> QED
  BY <1>1, <1>2, <1>3

LEMMA BaseUp ==
  ASSUME ClientTypeOK, ReadyLeads
  PROVE  IsList(Base) /\ IsList(page.list) /\ IsList(srv)
<1>1. IsList(page.list) /\ IsList(srv)
  BY ViewFields DEF ClientTypeOK, IsPage, IsView, IsList
<1>2. CASE link /\ ~ready
  <2>1. 1 \in DOMAIN down /\ down[1].t = "ready"
    BY <1>2 DEF ReadyLeads, ClientTypeOK
  <2>2. down[1] \in Frames /\ Distinct(down[1].sessions)
    BY <2>1 DEF ClientTypeOK
  <2> QED
    BY <1>1, <1>2, <2>1, <2>2, FrameKinds DEF Base, IsList
<1> QED
  BY <1>1, <1>2 DEF Base

LEMMA PrecedesIds ==
  ASSUME NEW l, NEW a, NEW b, Precedes(l, a, b)
  PROVE  a \in IdsOf(l) /\ b \in IdsOf(l)
BY DEF Precedes, IdsOf

LEMMA DoesDown ==
  ASSUME Separate, Wired, ~link, NEW id, NEW fs, Does(id, fs),
         id \in OwnIds => id \in Ids
  PROVE  ReadyLeads' /\ OneLife' /\ LastTells' /\ QuietIsTrue' /\ SoonListed'
         /\ InTheirOrder' /\ OldIsListed'
<1>1. ~link' /\ down = <<>> /\ down' = <<>> /\ Base = page.list /\ Base' = page.list
      /\ DOMAIN down' = {} /\ DOMAIN down = {}
  BY DEF Wired, ReadyLeads, Does, Broadcast, Base
<1>2. LastTells' /\ QuietIsTrue' /\ SoonListed' /\ InTheirOrder' /\ OldIsListed'
  BY <1>1 DEF LastTells, QuietIsTrue, SoonListed, InTheirOrder, OldIsListed
<1>3. OneLife'
  <2> SUFFICES ASSUME NEW x \in OwnIds
               PROVE  /\ x \notin used' => x \notin IdsOf(srv') \cup IdsOf(page.list) \cup page.closed
                      /\ x \in page.closed => x \notin IdsOf(srv')
    BY <1>1 DEF OneLife, Untouched, Does
  <2>1. /\ x \notin used => x \notin IdsOf(srv) \cup IdsOf(page.list) \cup page.closed
        /\ x \in page.closed => x \notin IdsOf(srv)
    BY DEF Wired, OneLife
  <2>2. x \in Ids
    BY DEF Ids
  <2>3. CASE x = id
    BY <2>1, <2>3 DEF Does, Lives
  <2>4. CASE x # id
    BY <2>1, <2>2, <2>4 DEF Does, Lives, Kept1
  <2> QED
    BY <2>3, <2>4
<1> QED
  BY <1>1, <1>2, <1>3 DEF Wired, ReadyLeads, Does

LEMMA DoesUp ==
  ASSUME Separate, Wired, link, NEW id, NEW fs, Does(id, fs),
         id \in OwnIds => id \in Ids
  PROVE  ReadyLeads' /\ OneLife' /\ LastTells' /\ QuietIsTrue' /\ SoonListed'
         /\ InTheirOrder' /\ OldIsListed' /\ down' \in Seq(Frames)
         /\ \A i \in DOMAIN down' : down'[i].t = "ready" => Distinct(down'[i].sessions)
<1> DEFINE n == Len(down)
<1>1. /\ down \in Seq(Frames) /\ fs \in Seq(Frames) /\ down' = down \o fs
      /\ link' /\ ready' = ready /\ queue' = queue /\ page' = page
  BY DEF Wired, ClientTypeOK, Does, Reported, Broadcast
<1>2. /\ down' \in Seq(Frames) /\ n \in Nat /\ DOMAIN down = 1..n
      /\ \A i \in DOMAIN down : i \in DOMAIN down' /\ down'[i] = down[i]
      /\ \A k \in DOMAIN fs : n + k \in DOMAIN down' /\ down'[n + k] = fs[k] /\ k \in Nat /\ k > 0
      /\ \A i \in DOMAIN down' : i \in DOMAIN down \/ \E k \in DOMAIN fs : i = n + k
  BY <1>1, DownUp
<1> HIDE DEF n
<1>3. Base' = Base
  <2>1. ~ready => 1 \in DOMAIN down
    BY <1>2 DEF Wired, ReadyLeads
  <2> QED
    BY <1>1, <1>2, <2>1 DEF Base
<1>4. ReadyLeads'
  <2>1. ~ready => 1 \in DOMAIN down /\ down[1].t = "ready"
    BY <1>2 DEF Wired, ReadyLeads
  <2>2. ~ready => down' # <<>> /\ down'[1].t = "ready"
    BY <1>2, <2>1
  <2>3. \A i \in DOMAIN down' : down'[i].t = "ready" => ~ready /\ i = 1
    BY <1>2 DEF Wired, ReadyLeads, Does, Reported
  <2> QED
    BY <1>1, <2>2, <2>3 DEF Wired, ReadyLeads
<1>5. \A i \in DOMAIN down' : down'[i].t = "ready" => Distinct(down'[i].sessions)
  BY <1>2 DEF Wired, ClientTypeOK, Does, Reported
<1>6. \A q \in Ids : (\E i \in DOMAIN down' : Touches(down'[i], q))
        => (\E i \in DOMAIN down : Touches(down[i], q))
           \/ (q = id /\ \E k \in DOMAIN fs : Touches(fs[k], q))
  BY <1>2 DEF Does, Reported
<1>7. OneLife'
  <2> SUFFICES ASSUME NEW x \in OwnIds
               PROVE  /\ x \notin used' =>
                           /\ x \notin IdsOf(srv') \cup IdsOf(page.list) \cup page.closed
                           /\ x \notin IdsOf(Base) /\ Untouched(x)'
                      /\ x \in page.closed \/ (\E i \in DOMAIN down' : Ends(down'[i], x))
                           => x \notin IdsOf(srv')
    BY <1>1, <1>3 DEF OneLife
  <2>1. /\ x \notin used => /\ x \notin IdsOf(srv) \cup IdsOf(page.list) \cup page.closed
                           /\ x \notin IdsOf(Base) /\ Untouched(x)
        /\ x \in page.closed \/ (\E i \in DOMAIN down : Ends(down[i], x)) => x \notin IdsOf(srv)
    BY DEF Wired, OneLife
  <2>2. x \in Ids /\ (x \notin used' => x \notin used)
    BY DEF Ids, Does, Lives
  <2>3. x # id => (x \in IdsOf(srv') <=> x \in IdsOf(srv))
    BY <2>2 DEF Does, Kept1
  <2>4. x = id => /\ x \in IdsOf(srv') => x \in IdsOf(srv) \/ x \notin used
                  /\ x \in IdsOf(srv') \/ (\E k \in DOMAIN fs : Touches(fs[k], x)) => x \in used'
                  /\ (\E k \in DOMAIN fs : Ends(fs[k], x)) => x \notin IdsOf(srv')
    BY DEF Does, Lives
  <2>5. ASSUME x \notin used' PROVE Untouched(x)'
    <3>1. ~(\E i \in DOMAIN down' : Touches(down'[i], x))
      BY <1>6, <2>1, <2>2, <2>4, <2>5 DEF Untouched
    <3> QED
      BY <3>1 DEF Untouched, Touches, Adds, Ends
  <2>6. ASSUME x \in page.closed \/ (\E i \in DOMAIN down' : Ends(down'[i], x)), x \in IdsOf(srv')
        PROVE  FALSE
    <3>1. x \in IdsOf(srv) \/ x \notin used
      BY <2>3, <2>4, <2>6
    <3>2. ~(\E i \in DOMAIN down : Ends(down[i], x)) /\ x \notin page.closed
      <4>1. CASE x \in IdsOf(srv)
        BY <2>1, <4>1
      <4>2. CASE x \notin used
        BY <2>1, <4>2 DEF Untouched, Touches
      <4> QED
        BY <3>1, <4>1, <4>2
    <3>3. PICK i \in DOMAIN down' : Ends(down'[i], x)
      BY <2>6, <3>2
    <3>4. PICK k \in DOMAIN fs : i = n + k
      BY <1>2, <3>2, <3>3
    <3>5. Ends(fs[k], x)
      BY <1>2, <3>3, <3>4
    <3>6. x = id
      BY <2>2, <3>5 DEF Touches, Does, Reported
    <3> QED
      BY <2>4, <2>6, <3>5, <3>6
  <2> QED
    BY <2>1, <2>2, <2>3, <2>4, <2>5, <2>6
<1>8. LastTells'
  <2> SUFFICES ASSUME NEW x \in Ids, NEW i \in DOMAIN down', Touches(down'[i], x),
                      \A j \in DOMAIN down' : j > i => ~Touches(down'[j], x)
               PROVE  Truth(down'[i], x)
    BY DEF LastTells, Truth, Touches, Adds, Ends
  <2>1. CASE i \in DOMAIN down
    <3>1. /\ Touches(down[i], x) /\ \A j \in DOMAIN down : j > i => ~Touches(down[j], x)
          /\ down'[i] = down[i]
      BY <1>2, <2>1
    <3>2. \/ Ends(down[i], x) /\ x \notin IdsOf(srv)
          \/ Adds(down[i], x) /\ down[i].session \in Range(srv)
      BY <2>1, <3>1 DEF Wired, LastTells
    <3>3. \A k \in DOMAIN fs : ~Touches(fs[k], x)
      BY <1>2, <2>1
    <3>4. CASE x = id
      <4>1. srv' = srv
        BY <3>3, <3>4 DEF Does, Reported
      <4> QED
        BY <3>1, <3>2, <4>1 DEF Truth
    <3>5. CASE x # id
      <4>1. down[i] \in Frames /\ (Adds(down[i], x) => down[i].session \in Entries)
        BY <1>1, <2>1, FrameKinds DEF Adds
      <4> QED
        BY <3>1, <3>2, <3>5, <4>1 DEF Truth, Does, Kept1, Adds
    <3> QED
      BY <3>4, <3>5
  <2>2. CASE i \notin DOMAIN down
    <3>1. PICK k \in DOMAIN fs : i = n + k
      BY <1>2, <2>2
    <3>2. down'[i] = fs[k] /\ Touches(fs[k], x) /\ x = id
      BY <1>2, <3>1 DEF Does, Reported
    <3>3. \A j \in DOMAIN fs : j > k => ~Touches(fs[j], x)
      BY <1>2, <3>1
    <3> QED
      BY <3>2, <3>3 DEF Does, Reported
  <2> QED
    BY <2>1, <2>2
<1>9. QuietIsTrue'
  <2> SUFFICES ASSUME NEW x \in Ids, Untouched(x)'
               PROVE  /\ x \in IdsOf(Base) => x \in IdsOf(srv')
                      /\ x \in OwnIds => \A s \in Entries : s.id = x =>
                                           (s \in Range(Base) <=> s \in Range(srv'))
    BY <1>3 DEF QuietIsTrue
  <2>1. Untouched(x) /\ \A k \in DOMAIN fs : ~Touches(fs[k], x)
    BY <1>2 DEF Untouched, Touches, Adds, Ends
  <2>2. /\ x \in IdsOf(Base) => x \in IdsOf(srv)
        /\ x \in OwnIds => \A s \in Entries : s.id = x => (s \in Range(Base) <=> s \in Range(srv))
    BY <2>1 DEF Wired, QuietIsTrue
  <2>3. CASE x = id
    <3>1. srv' = srv
      BY <2>1, <2>3 DEF Does, Reported
    <3> QED
      BY <2>2, <3>1
  <2>4. CASE x # id
    BY <2>2, <2>4 DEF Does, Kept1
  <2> QED
    BY <2>3, <2>4
<1>10. \A x \in OwnIds \cap IdsOf(srv) : x \in IdsOf(Base) \/ Added(x)
  BY DEF Wired, SoonListed
<1>11. \A x \in OwnIds : x \in IdsOf(srv') /\ x \notin IdsOf(srv)
         => x = id /\ x \notin used /\ \E k \in DOMAIN fs : Adds(fs[k], x)
  BY DEF Does, Kept1, Lives, Ids
<1>12. SoonListed'
  <2> SUFFICES ASSUME NEW x \in OwnIds, x \in IdsOf(srv'), x \notin IdsOf(Base)
               PROVE  \E i \in DOMAIN down' : Adds(down'[i], x)
    BY <1>3 DEF SoonListed, Added, Adds
  <2>1. CASE x \in IdsOf(srv)
    <3>1. Added(x)
      BY <1>10, <2>1
    <3> QED
      BY <1>2, <3>1 DEF Added
  <2>2. CASE x \notin IdsOf(srv)
    BY <1>2, <1>11, <2>2
  <2> QED
    BY <2>1, <2>2
<1>13. InTheirOrder'
  <2> SUFFICES ASSUME NEW a \in OwnIds, NEW b \in OwnIds, Precedes(srv', a, b)
               PROVE  /\ b \in IdsOf(Base) => Precedes(Base, a, b)
                      /\ \A i \in DOMAIN down' : Adds(down'[i], b) =>
                           a \in IdsOf(Base) \/ \E j \in DOMAIN down' : j < i /\ Adds(down'[j], a)
    BY <1>3 DEF InTheirOrder, Precedes, Adds
  <2>1. \/ Precedes(srv, a, b)
        \/ b = id /\ b \notin IdsOf(srv) /\ a \in IdsOf(srv)
    BY DEF Does, Kept1
  <2>2. a \in IdsOf(srv)
    BY <2>1, PrecedesIds
  <2>3. ASSUME NEW i \in DOMAIN down', Adds(down'[i], b), i \notin DOMAIN down
        PROVE  a \in IdsOf(Base) \/ \E j \in DOMAIN down' : j < i /\ Adds(down'[j], a)
    <3>1. CASE a \in IdsOf(Base)
      BY <3>1
    <3>2. CASE Added(a)
      <4>1. PICK j \in DOMAIN down : Adds(down[j], a)
        BY <3>2 DEF Added
      <4>2. PICK k \in DOMAIN fs : i = n + k
        BY <1>2, <2>3
      <4>3. j < i
        BY <1>2, <4>1, <4>2
      <4> QED
        BY <1>2, <4>1, <4>3
    <3> QED
      BY <1>10, <2>2, <3>1, <3>2
  <2>4. CASE Precedes(srv, a, b)
    <3>1. /\ b \in IdsOf(Base) => Precedes(Base, a, b)
          /\ \A i \in DOMAIN down : Adds(down[i], b) =>
               a \in IdsOf(Base) \/ \E j \in DOMAIN down : j < i /\ Adds(down[j], a)
      BY <2>4 DEF Wired, InTheirOrder
    <3>2. ASSUME NEW i \in DOMAIN down, Adds(down'[i], b)
          PROVE  a \in IdsOf(Base) \/ \E j \in DOMAIN down' : j < i /\ Adds(down'[j], a)
      BY <1>2, <3>1, <3>2
    <3> QED
      BY <2>3, <3>1, <3>2
  <2>5. CASE b = id /\ b \notin IdsOf(srv)
    <3>1. b \notin used
      BY <1>11, <2>5, PrecedesIds
    <3>2. b \notin IdsOf(Base) /\ Untouched(b)
      BY <3>1 DEF Wired, OneLife
    <3>3. \A i \in DOMAIN down : ~Adds(down'[i], b)
      BY <1>2, <3>2 DEF Untouched, Touches
    <3> QED
      BY <2>3, <3>2, <3>3
  <2> QED
    BY <2>1, <2>4, <2>5
<1>14. OldIsListed'
  <2> SUFFICES ASSUME ~ready, NEW x \in OwnIds, x \in IdsOf(srv'), x \in IdsOf(page.list)
               PROVE  x \in IdsOf(Base)
    BY <1>1, <1>3 DEF OldIsListed
  <2>1. x \in IdsOf(srv)
    BY <1>11 DEF Wired, OneLife
  <2> QED
    BY <2>1 DEF Wired, OldIsListed
<1> QED
  BY <1>2, <1>4, <1>5, <1>7, <1>8, <1>9, <1>12, <1>13, <1>14

-----------------------------------------------------------------------------
(* The frames of the server.                                                *)
Created(s) == [t |-> "created", session |-> s]

LEMMA AddsUp ==
  ASSUME NEW s \in Entries, NEW f \in {News(s), Created(s)}
  PROVE  /\ f \in Frames /\ f.t # "ready" /\ f.session = s
         /\ \A q : (Adds(f, q) <=> q = s.id) /\ ~Ends(f, q) /\ (Touches(f, q) <=> q = s.id)
<1>1. f = News(s) \/ f = Created(s)
  OBVIOUS
<1>2. f \in Frames /\ f.t \in {"session", "created"} /\ f.session = s
  BY <1>1 DEF News, Created, Frames, Shown
<1> QED
  BY <1>2 DEF Adds, Ends, Touches

LEMMA SignsUp ==
  ASSUME NEW id \in Ids, NEW t \in {"exit", "closed", "output", "snapshot"}
  PROVE  LET f == Frame(t, id) IN
         /\ f \in Frames /\ f.t # "ready"
         /\ \A q : ~Adds(f, q) /\ (Ends(f, q) <=> t = "closed" /\ q = id)
                   /\ (Touches(f, q) <=> t \in {"exit", "closed"} /\ q = id)
<1> DEFINE f == Frame(t, id)
<1>1. f \in Frames /\ f.t = t /\ f.id = id
  BY DEF Frame, Frames, Signs
<1> HIDE DEF f
<1>2. \A q : ~Adds(f, q) /\ (Ends(f, q) <=> t = "closed" /\ q = id)
             /\ (Touches(f, q) <=> t \in {"exit", "closed"} /\ q = id)
  BY <1>1 DEF Adds, Ends, Touches
<1> QED
  BY <1>1, <1>2 DEF f

LEMMA ErrorUp ==
  ASSUME NEW id \in Ids \cup {None}
  PROVE  LET f == Frame("error", id) IN
         f \in Frames /\ f.t # "ready" /\ \A q : ~Adds(f, q) /\ ~Ends(f, q) /\ ~Touches(f, q)
<1> DEFINE f == Frame("error", id)
<1>1. f \in Frames /\ f.t = "error"
  BY DEF Frame, Frames, Errors
<1> HIDE DEF f
<1>2. \A q : ~Adds(f, q) /\ ~Ends(f, q) /\ ~Touches(f, q)
  BY <1>1 DEF Adds, Ends, Touches
<1> QED
  BY <1>1, <1>2 DEF f

LEMMA FewFrames ==
  ASSUME NEW a \in Frames, NEW b \in Frames, NEW c \in Frames
  PROVE  /\ <<>> \in Seq(Frames) /\ DOMAIN <<>> = {}
         /\ <<a>> \in Seq(Frames) /\ DOMAIN <<a>> = {1} /\ <<a>>[1] = a
         /\ <<a, b>> \in Seq(Frames) /\ DOMAIN <<a, b>> = {1, 2}
         /\ <<a, b>>[1] = a /\ <<a, b>>[2] = b
         /\ <<a, b, c>> \in Seq(Frames) /\ DOMAIN <<a, b, c>> = {1, 2, 3}
         /\ <<a, b, c>>[1] = a /\ <<a, b, c>>[2] = b /\ <<a, b, c>>[3] = c
OBVIOUS

-----------------------------------------------------------------------------
(* What the server does to its list.                                        *)
LEMMA SameKept ==
  ASSUME ClientTypeOK, srv' = srv, NEW id
  PROVE  Kept1(id)
BY DEF Kept1, ClientTypeOK

LEMMA MergeKept ==
  ASSUME ClientTypeOK, NEW s \in Entries, srv' = Merged(srv, s)
  PROVE  Kept1(s.id) /\ s \in Range(srv') /\ IdsOf(srv') = IdsOf(srv) \cup {s.id}
<1>1. IsList(srv)
  BY DEF ClientTypeOK
<1> QED
  BY <1>1, MergedUp DEF Kept1

LEMMA AppendKept ==
  ASSUME ClientTypeOK, NEW s \in Entries, s.id \notin IdsOf(srv), srv' = Append(srv, s)
  PROVE  Kept1(s.id) /\ s \in Range(srv') /\ IdsOf(srv') = IdsOf(srv) \cup {s.id}
<1>1. Merged(srv, s) = Append(srv, s)
  BY DEF Merged
<1> QED
  BY <1>1, MergeKept

LEMMA RemoveKept ==
  ASSUME ClientTypeOK, NEW id, srv' = Without(srv, id)
  PROVE  Kept1(id) /\ IdsOf(srv') = IdsOf(srv) \ {id}
<1>1. IsList(srv)
  BY DEF ClientTypeOK
<1> QED
  BY <1>1, RemovedFrom DEF Kept1

(* Every handler keeps what the page and the wire know of the rest.         *)
LEMMA ServerStep ==
  ASSUME Separate, ClientInv, NEW id, NEW fs, Does(id, fs), watch' \in SUBSET Ids,
         up' \in Seq(Orders), abandoned' = abandoned, restarting' = restarting, PanelsAsk'
  PROVE  ClientInv'
<1>1. Wired /\ ClientTypeOK
  BY DEF ClientInv, Wired
<1>2. id \in OwnIds => id \in Ids
  BY DEF Ids
<1>3. /\ ReadyLeads' /\ OneLife' /\ LastTells' /\ QuietIsTrue' /\ SoonListed'
      /\ InTheirOrder' /\ OldIsListed' /\ down' \in Seq(Frames)
      /\ \A i \in DOMAIN down' : down'[i].t = "ready" => Distinct(down'[i].sessions)
  <2>1. CASE link
    BY <1>1, <1>2, <2>1, DoesUp
  <2>2. CASE ~link
    <3>1. down' = down
      BY <2>2 DEF Does, Broadcast
    <3> QED
      BY <1>1, <1>2, <2>2, <3>1, DoesDown DEF ClientTypeOK
  <2> QED
    BY <2>1, <2>2
<1>4. ClientTypeOK'
  BY <1>1, <1>3 DEF ClientTypeOK, Does, Kept1, Lives, IsPage, IsView
<1> QED
  BY <1>3, <1>4 DEF ClientInv

(* A panel that is shown was shown before.                                  *)
LEMMA PanelsLast ==
  ASSUME Separate, ClientInv, NEW id, NEW fs, Does(id, fs), abandoned' = abandoned,
         NEW x \in OwnIds \cap IdsOf(srv') \cap IdsOf(page.list)
  PROVE  /\ x \in IdsOf(srv) /\ page' = page /\ ready' = ready /\ queue' = queue
         /\ x \in page.attached \/ Closing(x)
         /\ ready => x \in watch \/ OnItsWay("attach", x) \/ Closing(x)
<1>1. x \in used
  BY DEF ClientInv, OneLife
<1>2. x \in IdsOf(srv)
  BY <1>1 DEF Does, Lives, Kept1, Ids
<1> QED
  BY <1>2 DEF ClientInv, PanelsAsk, Does

LEMMA PanelsStay ==
  ASSUME Separate, ClientInv, NEW id, NEW fs, Does(id, fs), up' = up, abandoned' = abandoned,
         watch \ {id} \subseteq watch', id \in watch => id \in watch' \/ id \notin IdsOf(srv')
  PROVE  PanelsAsk'
<1> SUFFICES ASSUME NEW x \in OwnIds, x \in IdsOf(srv'), x \in IdsOf(page.list)
             PROVE  /\ x \in page.attached \/ Closing(x)'
                    /\ ready => x \in watch' \/ OnItsWay("attach", x)' \/ Closing(x)'
  <2>1. page' = page /\ ready' = ready
    BY DEF Does
  <2> QED
    BY <2>1 DEF PanelsAsk
<1>1. /\ page' = page /\ ready' = ready /\ queue' = queue
      /\ x \in page.attached \/ Closing(x)
      /\ ready => x \in watch \/ OnItsWay("attach", x) \/ Closing(x)
  BY PanelsLast
<1>2. Closing(x)' = Closing(x) /\ OnItsWay("attach", x)' = OnItsWay("attach", x)
  BY <1>1 DEF Closing, OnItsWay
<1> QED
  BY <1>1, <1>2

-----------------------------------------------------------------------------
(* The server's own steps.                                                  *)
LEMMA StartsUp ==
  ASSUME Separate, ClientInv, NEW id \in OwnIds, Starts(id)
  PROVE  ClientInv'
<1> DEFINE s  == Session(id, "live")
           fs == <<News(s)>>
<1>1. s \in Entries /\ s.id = id
  BY DEF Session, Entries, Ids
<1>2. ClientTypeOK /\ id \notin used /\ used' = used \cup {id} /\ srv' = Append(srv, s)
  BY DEF ClientInv, Starts, Fresh
<1>3. id \notin IdsOf(srv)
  BY <1>2 DEF ClientInv, OneLife
<1>4. Kept1(id) /\ s \in Range(srv') /\ IdsOf(srv') = IdsOf(srv) \cup {id}
  BY <1>1, <1>2, <1>3, AppendKept
<1>5. fs \in Seq(Frames) /\ DOMAIN fs = {1} /\ fs[1] = News(s)
  BY <1>1, AddsUp, FewFrames
<1>6. /\ News(s).t # "ready" /\ News(s).session = s
      /\ \A q : (Adds(News(s), q) <=> q = id) /\ ~Ends(News(s), q) /\ (Touches(News(s), q) <=> q = id)
  BY <1>1, AddsUp
<1>7. Broadcast(fs)
  BY DEF Starts
<1> HIDE DEF s, fs
<1>8. Reported(id, fs)
  BY <1>4, <1>5, <1>6 DEF Reported, Truth
<1>9. Lives(id, fs)
  BY <1>2, <1>4, <1>5, <1>6 DEF Lives, ClientTypeOK
<1>10. UNCHANGED <<link, ready, queue, page, up, watch, abandoned, restarting>>
  BY DEF Starts, Here
<1>11. Does(id, fs)
  BY <1>4, <1>7, <1>8, <1>9, <1>10 DEF Does
<1>12. PanelsAsk'
  BY <1>10, <1>11, PanelsStay
<1> QED
  BY <1>2, <1>10, <1>11, <1>12, ServerStep DEF ClientTypeOK

LEMMA AdoptsUp ==
  ASSUME Separate, ClientInv, NEW id \in Strangers, Adopts(id)
  PROVE  ClientInv'
<1> DEFINE s  == Session(id, "live")
           fs == <<News(s)>>
<1>1. s \in Entries /\ s.id = id /\ id \notin OwnIds
  BY DEF Session, Entries, Ids, Separate
<1>2. ClientTypeOK /\ used' = used /\ srv' = Merged(srv, s)
  BY DEF ClientInv, Adopts
<1>3. Kept1(id) /\ s \in Range(srv')
  BY <1>1, <1>2, MergeKept
<1>4. fs \in Seq(Frames) /\ DOMAIN fs = {1} /\ fs[1] = News(s)
  BY <1>1, AddsUp, FewFrames
<1>5. /\ News(s).t # "ready" /\ News(s).session = s
      /\ \A q : (Adds(News(s), q) <=> q = id) /\ ~Ends(News(s), q) /\ (Touches(News(s), q) <=> q = id)
  BY <1>1, AddsUp
<1>6. Broadcast(fs)
  BY DEF Adopts
<1> HIDE DEF s, fs
<1>7. Reported(id, fs)
  BY <1>3, <1>4, <1>5 DEF Reported, Truth
<1>8. Lives(id, fs)
  BY <1>1, <1>2 DEF Lives, ClientTypeOK
<1>9. UNCHANGED <<link, ready, queue, page, up, watch, abandoned, restarting>>
  BY DEF Adopts, Here
<1>10. Does(id, fs)
  BY <1>3, <1>6, <1>7, <1>8, <1>9 DEF Does
<1>11. PanelsAsk'
  BY <1>9, <1>10, PanelsStay
<1> QED
  BY <1>2, <1>9, <1>10, <1>11, ServerStep DEF ClientTypeOK

LEMMA TellsUp ==
  ASSUME Separate, ClientInv, NEW id \in Ids, Tells(id)
  PROVE  ClientInv'
<1> DEFINE f  == Frame("output", id)
           fs == <<f>>
<1>1. f \in Frames /\ f.t # "ready" /\ \A q : ~Adds(f, q) /\ ~Ends(f, q) /\ ~Touches(f, q)
  BY SignsUp
<1>2. ClientTypeOK /\ used' = used /\ srv' = srv /\ watch' = watch
  BY DEF ClientInv, Tells, server
<1>3. fs \in Seq(Frames) /\ DOMAIN fs = {1} /\ fs[1] = f
  BY <1>1, FewFrames
<1>4. Broadcast(fs)
  BY DEF Tells
<1> HIDE DEF f, fs
<1>5. Kept1(id)
  BY <1>2, SameKept
<1>6. Reported(id, fs)
  BY <1>1, <1>2, <1>3 DEF Reported
<1>7. Lives(id, fs)
  BY <1>1, <1>2, <1>3 DEF Lives, ClientTypeOK, ClientInv, OneLife
<1>8. UNCHANGED <<link, ready, queue, page, up, abandoned, restarting>>
  BY DEF Tells, Here
<1>9. Does(id, fs)
  BY <1>4, <1>5, <1>6, <1>7, <1>8 DEF Does
<1>10. PanelsAsk'
  BY <1>2, <1>8, <1>9, PanelsStay
<1> QED
  BY <1>2, <1>8, <1>9, <1>10, ServerStep DEF ClientTypeOK

LEMMA ExitsUp ==
  ASSUME Separate, ClientInv, NEW id \in Ids, Exits(id)
  PROVE  ClientInv'
<1> DEFINE s  == Session(id, "exited")
           f  == Frame("exit", id)
           fs == <<f, News(s)>>
<1>1. s \in Entries /\ s.id = id
  BY DEF Session, Entries
<1>2. ClientTypeOK /\ used' = used /\ srv' = Merged(srv, s)
  BY DEF ClientInv, Exits
<1>3. Kept1(id) /\ s \in Range(srv') /\ IdsOf(srv') = IdsOf(srv) \cup {id}
  BY <1>1, <1>2, MergeKept
<1>4. /\ News(s) \in Frames /\ News(s).t # "ready" /\ News(s).session = s
      /\ \A q : (Adds(News(s), q) <=> q = id) /\ ~Ends(News(s), q) /\ (Touches(News(s), q) <=> q = id)
  BY <1>1, AddsUp
<1>5. f \in Frames /\ f.t # "ready" /\ \A q : ~Ends(f, q) /\ (Touches(f, q) <=> q = id)
  BY SignsUp
<1>6. fs \in Seq(Frames) /\ DOMAIN fs = {1, 2} /\ fs[1] = f /\ fs[2] = News(s)
  BY <1>4, <1>5, FewFrames
<1>7. id \in IdsOf(srv)
  <2>1. Session(id, "live") \in Range(srv) /\ Session(id, "live").id = id
    BY DEF Exits, Session
  <2>2. IsList(srv)
    BY <1>2 DEF ClientTypeOK
  <2>3. \A e \in Range(srv) : e.id \in IdsOf(srv)
    BY <2>2, ListUp
  <2> QED
    BY <2>1, <2>3
<1>8. Broadcast(fs)
  BY DEF Exits
<1> HIDE DEF s, f, fs
<1>9. Reported(id, fs)
  BY <1>3, <1>4, <1>5, <1>6 DEF Reported, Truth
<1>10. id \in OwnIds => id \in used
  BY <1>7 DEF ClientInv, OneLife
<1>11. Lives(id, fs)
  BY <1>2, <1>4, <1>5, <1>6, <1>7, <1>10 DEF Lives, ClientTypeOK
<1>12. UNCHANGED <<link, ready, queue, page, up, watch, abandoned, restarting>>
  BY DEF Exits, Here
<1>13. Does(id, fs)
  BY <1>3, <1>8, <1>9, <1>11, <1>12 DEF Does
<1>14. PanelsAsk'
  BY <1>12, <1>13, PanelsStay
<1> QED
  BY <1>2, <1>12, <1>13, <1>14, ServerStep DEF ClientTypeOK

(* A close, by whoever asks for it.                                         *)
LEMMA EndingUp ==
  ASSUME Separate, ClientInv, NEW id \in Ids, id \in IdsOf(srv), srv' = Without(srv, id),
         used' = used, Broadcast(Ending(id)),
         UNCHANGED <<link, ready, queue, page>>, ~link => up' = up
  PROVE  Does(id, Ending(id)) /\ id \notin IdsOf(srv') /\ IdsOf(srv') = IdsOf(srv) \ {id}
<1> DEFINE s == Session(id, "exited")
           a == Frame("exit", id)
           b == News(s)
           c == Frame("closed", id)
           fs == Ending(id)
<1>1. s \in Entries /\ s.id = id
  BY DEF Session, Entries
<1>2. Kept1(id) /\ IdsOf(srv') = IdsOf(srv) \ {id} /\ ClientTypeOK
  BY RemoveKept DEF ClientInv
<1>3. a \in Frames /\ a.t # "ready" /\ \A q : ~Ends(a, q) /\ (Touches(a, q) <=> q = id)
  BY SignsUp
<1>4. b \in Frames /\ b.t # "ready" /\ \A q : ~Ends(b, q) /\ (Touches(b, q) <=> q = id)
  BY <1>1, AddsUp
<1>5. /\ c \in Frames /\ c.t # "ready"
      /\ \A q : ~Adds(c, q) /\ (Ends(c, q) <=> q = id) /\ (Touches(c, q) <=> q = id)
  BY SignsUp
<1>6. \/ fs = <<c>>
      \/ fs = <<a, b, c>>
  BY DEF Ending
<1> HIDE DEF s, a, b, c, fs
<1>7. /\ fs \in Seq(Frames)
      /\ \/ DOMAIN fs = {1} /\ fs[1] = c
         \/ DOMAIN fs = {1, 2, 3} /\ fs[1] = a /\ fs[2] = b /\ fs[3] = c
  <2>1. <<c>> \in Seq(Frames) /\ DOMAIN <<c>> = {1} /\ <<c>>[1] = c
    BY <1>5, FewFrames
  <2>2. /\ <<a, b, c>> \in Seq(Frames) /\ DOMAIN <<a, b, c>> = {1, 2, 3}
        /\ <<a, b, c>>[1] = a /\ <<a, b, c>>[2] = b /\ <<a, b, c>>[3] = c
    BY <1>3, <1>4, <1>5, FewFrames
  <2>3. CASE fs = <<c>>
    BY <2>1, <2>3
  <2>4. CASE fs = <<a, b, c>>
    BY <2>2, <2>4
  <2> QED
    BY <1>6, <2>3, <2>4
<1>8. Reported(id, fs)
  <2>1. CASE DOMAIN fs = {1} /\ fs[1] = c
    BY <1>2, <1>5, <1>7, <2>1 DEF Reported, Truth
  <2>2. CASE DOMAIN fs = {1, 2, 3} /\ fs[1] = a /\ fs[2] = b /\ fs[3] = c
    BY <1>2, <1>3, <1>4, <1>5, <1>7, <2>2 DEF Reported, Truth
  <2> QED
    BY <1>7, <2>1, <2>2
<1>9. id \in OwnIds => id \in used
  BY DEF ClientInv, OneLife
<1>10. Lives(id, fs)
  BY <1>2, <1>9 DEF Lives, ClientTypeOK
<1>11. Broadcast(fs)
  BY DEF fs
<1> QED
  BY <1>2, <1>8, <1>10, <1>11 DEF Does, fs

LEMMA ClosedElsewhereUp ==
  ASSUME Separate, ClientInv, NEW id \in Ids, ClosedElsewhere(id)
  PROVE  ClientInv'
<1>1. /\ id \in IdsOf(srv) /\ srv' = Without(srv, id) /\ used' = used /\ watch' = watch \ {id}
      /\ Broadcast(Ending(id))
      /\ UNCHANGED <<link, ready, queue, page, up, abandoned, restarting>>
  BY DEF ClosedElsewhere, Here
<1>2. Does(id, Ending(id)) /\ id \notin IdsOf(srv')
  BY <1>1, EndingUp
<1>3. PanelsAsk'
  BY <1>1, <1>2, PanelsStay
<1> QED
  BY <1>1, <1>2, <1>3, ServerStep DEF ClientInv, ClientTypeOK

-----------------------------------------------------------------------------
(* What the server reads.                                                   *)
LEMMA HeadUp ==
  ASSUME NEW S, NEW l \in Seq(S), l # <<>>
  PROVE  /\ Head(l) \in S /\ Tail(l) \in Seq(S) /\ Len(l) \in Nat \ {0}
         /\ DOMAIN l = 1..Len(l) /\ DOMAIN Tail(l) = 1..(Len(l) - 1) /\ Head(l) = l[1]
         /\ \A i \in DOMAIN Tail(l) : i + 1 \in DOMAIN l /\ Tail(l)[i] = l[i + 1]
         /\ \A i \in DOMAIN l : i = 1 \/ \E k \in DOMAIN Tail(l) : i = k + 1
         /\ \A e : e \in Range(l) <=> e = Head(l) \/ e \in Range(Tail(l))
<1> DEFINE z == Tail(l)
           n == Len(l)
<1>1. /\ Head(l) \in S /\ z \in Seq(S) /\ n \in Nat \ {0}
      /\ DOMAIN l = 1..n /\ DOMAIN z = 1..(n - 1) /\ Head(l) = l[1]
      /\ \A i \in DOMAIN z : z[i] = l[i + 1]
  OBVIOUS
<1> HIDE DEF z, n
<1>2. \A i \in DOMAIN z : i + 1 \in DOMAIN l
  BY <1>1
<1>3. ASSUME NEW i \in DOMAIN l, i # 1 PROVE \E k \in DOMAIN z : i = k + 1
  <2>1. i - 1 \in DOMAIN z /\ i = (i - 1) + 1
    BY <1>1, <1>3
  <2> QED
    BY <2>1
<1>4. 1 \in DOMAIN l
  BY <1>1
<1>5. \A e : e \in Range(l) <=> e = l[1] \/ e \in Range(z)
  BY <1>1, <1>2, <1>3, <1>4 DEF Range
<1> QED
  BY <1>1, <1>2, <1>3, <1>5 DEF z, n

LEMMA ReadsStay ==
  ASSUME Separate, ClientInv, NEW id, NEW fs, Does(id, fs), abandoned' = abandoned,
         up # <<>>, up' = Tail(up),
         \A x \in Ids : Head(up).t = "kill" /\ Head(up).id = x => x \notin IdsOf(srv'),
         \A x \in IdsOf(srv') : Head(up).t = "attach" /\ Head(up).id = x => x \in watch',
         \A x \in watch : x \in watch' \/ x \notin IdsOf(srv')
  PROVE  PanelsAsk'
<1> SUFFICES ASSUME NEW x \in OwnIds, x \in IdsOf(srv'), x \in IdsOf(page.list)
             PROVE  /\ x \in page.attached \/ Closing(x)'
                    /\ ready => x \in watch' \/ OnItsWay("attach", x)' \/ Closing(x)'
  <2>1. page' = page /\ ready' = ready
    BY DEF Does
  <2> QED
    BY <2>1 DEF PanelsAsk
<1>1. /\ queue' = queue /\ x \in Ids
      /\ x \in page.attached \/ Closing(x)
      /\ ready => x \in watch \/ OnItsWay("attach", x) \/ Closing(x)
  BY PanelsLast DEF Ids
<1>2. up \in Seq(Orders)
  BY DEF ClientInv, ClientTypeOK
<1>3. \A e : e \in Range(up) => e = Head(up) \/ e \in Range(up')
  BY <1>2, HeadUp
<1>4. \A t : Frame(t, x).t = t /\ Frame(t, x).id = x
  BY DEF Frame
<1>5. \A t : OnItsWay(t, x) => OnItsWay(t, x)' \/ (Head(up).t = t /\ Head(up).id = x)
  BY <1>3, <1>4 DEF OnItsWay
<1>6. Closing(x) => Closing(x)'
  BY <1>1, <1>5 DEF Closing
<1>7. OnItsWay("attach", x) => OnItsWay("attach", x)' \/ x \in watch'
  BY <1>5
<1> QED
  BY <1>1, <1>6, <1>7

LEMMA KillUp ==
  ASSUME Separate, ClientInv, up # <<>>, ServerReads, Head(up).t = "kill"
  PROVE  ClientInv'
<1> DEFINE m == Head(up)
<1>1. ClientTypeOK /\ up \in Seq(Orders) /\ link /\ m \in Orders /\ Tail(up) \in Seq(Orders)
  <2>1. ClientTypeOK /\ up \in Seq(Orders) /\ link
    BY DEF ClientInv, ClientTypeOK, ReadyLeads
  <2> QED
    BY <2>1, HeadUp
<1>2. /\ up' = Tail(up) /\ UNCHANGED <<link, ready, queue, page, abandoned, restarting>>
      /\ Handle(m)
  BY DEF ServerReads, Here
<1>3. m.id \in Ids \cup {None}
  BY <1>1 DEF Orders
<1> HIDE DEF m
<1>4. m.t = "kill"
  BY DEF m
<1>5. \/ /\ m.id \in IdsOf(srv) /\ srv' = Without(srv, m.id) /\ watch' = watch \ {m.id}
         /\ Broadcast(Ending(m.id)) /\ used' = used
      \/ m.id \notin IdsOf(srv) /\ srv' = srv /\ used' = used /\ watch' = watch /\ down' = down
  BY <1>2, <1>4 DEF Handle, server
<1>6. CASE m.id \in IdsOf(srv)
  <2>1. m.id \in Ids
    BY <1>1, <1>6, ListUp DEF ClientTypeOK
  <2>2. Does(m.id, Ending(m.id)) /\ m.id \notin IdsOf(srv')
    BY <1>1, <1>2, <1>5, <1>6, <2>1, EndingUp
  <2>3. PanelsAsk'
    BY <1>1, <1>2, <1>4, <1>5, <1>6, <2>2, ReadsStay DEF m
  <2> QED
    BY <1>1, <1>2, <1>5, <1>6, <2>2, <2>3, ServerStep DEF ClientTypeOK
<1>7. CASE m.id \notin IdsOf(srv)
  <2> DEFINE fs == <<>>
  <2>1. fs \in Seq(Frames) /\ DOMAIN fs = {} /\ down \o fs = down
    BY <1>1 DEF ClientTypeOK
  <2> HIDE DEF fs
  <2>2. Broadcast(fs)
    BY <1>1, <1>5, <1>7, <2>1 DEF Broadcast
  <2>3. Kept1(m.id) /\ Reported(m.id, fs)
    BY <1>1, <1>5, <1>7, <2>1, SameKept DEF Reported
  <2>4. Lives(m.id, fs)
    BY <1>1, <1>5, <1>7, <2>1 DEF Lives, ClientTypeOK
  <2>5. Does(m.id, fs)
    BY <1>1, <1>2, <2>2, <2>3, <2>4 DEF Does
  <2>6. PanelsAsk'
    BY <1>1, <1>2, <1>4, <1>5, <1>7, <2>5, ReadsStay DEF m
  <2> QED
    BY <1>1, <1>2, <1>5, <1>7, <2>5, <2>6, ServerStep DEF ClientTypeOK
<1> QED
  BY <1>6, <1>7

LEMMA CreateUp ==
  ASSUME Separate, ClientInv, up # <<>>, ServerReads, Head(up).t = "create"
  PROVE  ClientInv'
<1> DEFINE m == Head(up)
<1>1. ClientTypeOK /\ up \in Seq(Orders) /\ link /\ m \in Orders /\ Tail(up) \in Seq(Orders)
  <2>1. ClientTypeOK /\ up \in Seq(Orders) /\ link
    BY DEF ClientInv, ClientTypeOK, ReadyLeads
  <2> QED
    BY <2>1, HeadUp
<1>2. /\ up' = Tail(up) /\ UNCHANGED <<link, ready, queue, page, abandoned, restarting>>
      /\ Handle(m)
  BY DEF ServerReads, Here
<1> HIDE DEF m
<1>3. m.t = "create"
  BY DEF m
<1>4. \/ \E id \in Fresh :
           /\ used' = used \cup {id} /\ watch' = watch \cup {id}
           /\ srv' = Append(srv, Session(id, "live"))
           /\ Broadcast(<<News(Session(id, "live")), Created(Session(id, "live"))>>)
      \/ Broadcast(<<Frame("error", None)>>) /\ srv' = srv /\ used' = used /\ watch' = watch
  BY <1>2, <1>3 DEF Handle, server, Created
<1>5. ASSUME NEW id \in Fresh, used' = used \cup {id}, watch' = watch \cup {id},
             srv' = Append(srv, Session(id, "live")),
             Broadcast(<<News(Session(id, "live")), Created(Session(id, "live"))>>)
      PROVE  ClientInv'
  <2> DEFINE s  == Session(id, "live")
             a  == News(s)
             b  == Created(s)
             fs == <<a, b>>
  <2>1. id \in OwnIds /\ id \notin used
    BY DEF Fresh
  <2>2. s \in Entries /\ s.id = id /\ id \in Ids
    BY <2>1 DEF Session, Entries, Ids
  <2>3. id \notin IdsOf(srv)
    BY <2>1 DEF ClientInv, OneLife
  <2>4. Kept1(id) /\ s \in Range(srv') /\ IdsOf(srv') = IdsOf(srv) \cup {id}
    BY <1>1, <1>5, <2>2, <2>3, AppendKept
  <2>5. /\ a \in Frames /\ a.t # "ready" /\ a.session = s
        /\ \A q : (Adds(a, q) <=> q = id) /\ ~Ends(a, q) /\ (Touches(a, q) <=> q = id)
    BY <2>2, AddsUp
  <2>6. /\ b \in Frames /\ b.t # "ready" /\ b.session = s
        /\ \A q : (Adds(b, q) <=> q = id) /\ ~Ends(b, q) /\ (Touches(b, q) <=> q = id)
    BY <2>2, AddsUp
  <2>7. fs \in Seq(Frames) /\ DOMAIN fs = {1, 2} /\ fs[1] = a /\ fs[2] = b
    BY <2>5, <2>6, FewFrames
  <2>8. Broadcast(fs)
    BY <1>5
  <2> HIDE DEF s, a, b, fs
  <2>9. Reported(id, fs)
    BY <2>4, <2>5, <2>6, <2>7 DEF Reported, Truth
  <2>10. Lives(id, fs)
    BY <1>1, <1>5, <2>1, <2>4, <2>5, <2>6, <2>7 DEF Lives, ClientTypeOK
  <2>11. Does(id, fs)
    BY <1>1, <1>2, <2>4, <2>8, <2>9, <2>10 DEF Does
  <2>12. PanelsAsk'
    BY <1>2, <1>3, <1>5, <2>11, ReadsStay DEF m
  <2> QED
    BY <1>1, <1>2, <1>5, <2>2, <2>11, <2>12, ServerStep DEF ClientTypeOK
<1>6. CASE Broadcast(<<Frame("error", None)>>) /\ srv' = srv /\ used' = used /\ watch' = watch
  <2> DEFINE f  == Frame("error", None)
             fs == <<f>>
  <2>1. f \in Frames /\ f.t # "ready" /\ \A q : ~Adds(f, q) /\ ~Ends(f, q) /\ ~Touches(f, q)
    BY ErrorUp
  <2>2. fs \in Seq(Frames) /\ DOMAIN fs = {1} /\ fs[1] = f
    BY <2>1, FewFrames
  <2>3. Broadcast(fs)
    BY <1>6
  <2> HIDE DEF f, fs
  <2>4. Kept1(None) /\ Reported(None, fs)
    BY <1>1, <1>6, <2>1, <2>2, SameKept DEF Reported
  <2>5. Lives(None, fs)
    <3>1. None \notin OwnIds
      BY DEF Separate, Ids
    <3> QED
      BY <1>1, <1>6, <3>1 DEF Lives, ClientTypeOK
  <2>6. Does(None, fs)
    BY <1>1, <1>2, <2>3, <2>4, <2>5 DEF Does
  <2>7. PanelsAsk'
    BY <1>2, <1>3, <1>6, <2>6, ReadsStay DEF m
  <2> QED
    BY <1>1, <1>2, <1>6, <2>6, <2>7, ServerStep DEF ClientTypeOK
<1> QED
  BY <1>4, <1>5, <1>6

LEMMA AttachUp ==
  ASSUME Separate, ClientInv, up # <<>>, ServerReads, Head(up).t = "attach"
  PROVE  ClientInv'
<1> DEFINE m == Head(up)
           x == m.id
<1>1. ClientTypeOK /\ up \in Seq(Orders) /\ link /\ m \in Orders /\ Tail(up) \in Seq(Orders)
  <2>1. ClientTypeOK /\ up \in Seq(Orders) /\ link
    BY DEF ClientInv, ClientTypeOK, ReadyLeads
  <2> QED
    BY <2>1, HeadUp
<1>2. /\ up' = Tail(up) /\ UNCHANGED <<link, ready, queue, page, abandoned, restarting>>
      /\ Handle(m)
  BY DEF ServerReads, Here
<1>3. x \in Ids \cup {None}
  BY <1>1 DEF Orders
<1> HIDE DEF m
<1>4. m.t = "attach"
  BY DEF m
<1>5. \/ /\ x \in IdsOf(srv) /\ watch' = watch \cup {x}
         /\ Broadcast(<<News(Entry(srv, x)), Frame("snapshot", x)>>)
         /\ srv' = srv /\ used' = used
      \/ /\ x \notin IdsOf(srv) /\ Broadcast(<<Frame("error", x)>>)
         /\ srv' = srv /\ used' = used /\ watch' = watch
  BY <1>2, <1>4 DEF Handle, server
<1> HIDE DEF x
<1>6. CASE x \in IdsOf(srv)
  <2> DEFINE s  == Entry(srv, x)
             a  == News(s)
             b  == Frame("snapshot", x)
             fs == <<a, b>>
  <2>1. IsList(srv)
    BY <1>1 DEF ClientTypeOK
  <2>2. x \in Ids /\ \E e \in Range(srv) : e.id = x
    BY <1>6, <2>1, ListUp
  <2>3. s \in Range(srv) /\ s.id = x
    BY <2>2 DEF Entry
  <2> HIDE DEF s
  <2>4. s \in Entries
    BY <2>1, <2>3, ListUp
  <2>5. /\ a \in Frames /\ a.t # "ready" /\ a.session = s
        /\ \A q : (Adds(a, q) <=> q = x) /\ ~Ends(a, q) /\ (Touches(a, q) <=> q = x)
    BY <2>3, <2>4, AddsUp
  <2>6. b \in Frames /\ b.t # "ready" /\ \A q : ~Adds(b, q) /\ ~Ends(b, q) /\ ~Touches(b, q)
    BY <2>2, SignsUp
  <2>7. fs \in Seq(Frames) /\ DOMAIN fs = {1, 2} /\ fs[1] = a /\ fs[2] = b
    BY <2>5, <2>6, FewFrames
  <2>8. Broadcast(fs) /\ srv' = srv /\ used' = used /\ watch' = watch \cup {x}
    BY <1>5, <1>6 DEF s
  <2> HIDE DEF a, b, fs
  <2>9. Kept1(x) /\ Reported(x, fs)
    BY <1>1, <2>3, <2>5, <2>6, <2>7, <2>8, SameKept DEF Reported, Truth
  <2>10. x \in OwnIds => x \in used
    BY <1>6 DEF ClientInv, OneLife
  <2>11. Lives(x, fs)
    BY <1>1, <1>6, <2>5, <2>6, <2>7, <2>8, <2>10 DEF Lives, ClientTypeOK
  <2>12. Does(x, fs)
    BY <1>1, <1>2, <2>8, <2>9, <2>11 DEF Does
  <2>13. PanelsAsk'
    BY <1>2, <1>4, <2>8, <2>12, ReadsStay DEF m, x
  <2> QED
    BY <1>1, <1>2, <2>2, <2>8, <2>12, <2>13, ServerStep DEF ClientTypeOK
<1>7. CASE x \notin IdsOf(srv)
  <2> DEFINE f  == Frame("error", x)
             fs == <<f>>
  <2>1. f \in Frames /\ f.t # "ready" /\ \A q : ~Adds(f, q) /\ ~Ends(f, q) /\ ~Touches(f, q)
    BY <1>3, ErrorUp
  <2>2. fs \in Seq(Frames) /\ DOMAIN fs = {1} /\ fs[1] = f
    BY <2>1, FewFrames
  <2>3. Broadcast(fs) /\ srv' = srv /\ used' = used /\ watch' = watch
    BY <1>5, <1>7
  <2> HIDE DEF f, fs
  <2>4. Kept1(x) /\ Reported(x, fs)
    BY <1>1, <2>1, <2>2, <2>3, SameKept DEF Reported
  <2>5. Lives(x, fs)
    BY <1>1, <1>7, <2>1, <2>2, <2>3 DEF Lives, ClientTypeOK
  <2>6. Does(x, fs)
    BY <1>1, <1>2, <2>3, <2>4, <2>5 DEF Does
  <2>7. PanelsAsk'
    BY <1>2, <1>4, <1>7, <2>3, <2>6, ReadsStay DEF m, x
  <2> QED
    BY <1>1, <1>2, <2>3, <2>6, <2>7, ServerStep DEF ClientTypeOK
<1> QED
  BY <1>6, <1>7

LEMMA ServerReadsUp ==
  ASSUME Separate, ClientInv, ServerReads
  PROVE  ClientInv'
<1>1. up # <<>> /\ up \in Seq(Orders)
  BY DEF ServerReads, ClientInv, ClientTypeOK
<1>2. Head(up) \in Orders
  BY <1>1, HeadUp
<1>3. Head(up).t \in {"kill", "attach", "create"}
  BY <1>2 DEF Orders
<1> QED
  BY <1>1, <1>3, KillUp, CreateUp, AttachUp

-----------------------------------------------------------------------------
(* What the page reads.                                                     *)
LEMMA OutUp ==
  ASSUME NEW p, IsView(p)
  PROVE  LET q == [p EXCEPT !.out = <<>>] IN
         IsPage(q) /\ q.list = p.list /\ q.closed = p.closed /\ q.attached = p.attached
<1> DEFINE e == <<>>
           q == [p EXCEPT !.out = e]
<1>1. p \in Views /\ e \in Seq(Orders)
  BY DEF IsView
<1> HIDE DEF e
<1>2. /\ q \in Views /\ q.list = p.list /\ q.closed = p.closed /\ q.active = p.active
      /\ q.panels = p.panels /\ q.attached = p.attached /\ q.out = e
  BY <1>1, ViewFields DEF Views
<1> HIDE DEF q
<1>3. IsView(q)
  BY <1>2 DEF IsView
<1> QED
  BY <1>2, <1>3 DEF IsPage, q, e

(* The list after a frame, from the list before.                            *)
Gives(m) ==
  /\ m.t = "ready" => Base' = Base
  /\ IsList(Base')
  /\ \A x \in Ids :
       /\ ~Touches(m, x) =>
            /\ x \in IdsOf(Base') <=> x \in IdsOf(Base)
            /\ \A s \in Entries : s.id = x => (s \in Range(Base') <=> s \in Range(Base))
       /\ Ends(m, x) => x \notin IdsOf(Base')
       /\ Adds(m, x) /\ x \notin page.closed => x \in IdsOf(Base') /\ m.session \in Range(Base')
       /\ x \in IdsOf(Base) /\ ~Ends(m, x) => x \in IdsOf(Base')
       /\ x \in IdsOf(Base') => x \in IdsOf(Base) \/ Adds(m, x)
  /\ \A a, b \in Ids :
       /\ Precedes(Base, a, b) /\ ~Ends(m, a) /\ ~Ends(m, b) => Precedes(Base', a, b)
       /\ b \notin IdsOf(Base) /\ b \in IdsOf(Base') /\ a \in IdsOf(Base) => Precedes(Base', a, b)

LEMMA ReadTo ==
  ASSUME Separate, ClientInv, Read
  PROVE  LET m == Head(down)
             p == Routed(page, m)
         IN /\ down # <<>> /\ down' = Tail(down) /\ m \in Frames /\ link
            /\ m.t = "ready" => Distinct(m.sessions)
            /\ m.t = "ready" <=> ~ready
            /\ OnPage(p, m) /\ Attaching(p, m) /\ p.out \in Seq(Orders)
            /\ IsPage(page') /\ page'.list = p.list /\ page'.closed = p.closed
            /\ page'.attached = p.attached
            /\ link' /\ ready' /\ up' = up \o p.out
            /\ UNCHANGED <<srv, used, watch, queue, abandoned, restarting>>
<1> DEFINE m == Head(down)
           p == Routed(page, m)
<1>1. /\ down # <<>> /\ down' = Tail(down) /\ page' = [p EXCEPT !.out = <<>>] /\ Send(p.out)
      /\ ready' = (ready \/ m.t = "ready")
      /\ UNCHANGED <<srv, used, watch, link, restarting>>
  BY DEF Read, server
<1>2. ClientTypeOK /\ ReadyLeads /\ down \in Seq(Frames) /\ IsPage(page)
  BY DEF ClientInv, ClientTypeOK
<1>3. m \in Frames /\ m = down[1] /\ 1 \in DOMAIN down
  BY <1>1, <1>2, HeadUp
<1>4. m.t = "ready" => Distinct(m.sessions)
  BY <1>2, <1>3 DEF ClientTypeOK
<1>5. link /\ (m.t = "ready" <=> ~ready)
  BY <1>1, <1>2, <1>3 DEF ReadyLeads
<1>6. OnPage(p, m) /\ Attaching(p, m)
  BY <1>2, <1>3, <1>4, RoutedUp
<1> HIDE DEF m, p
<1>7. IsView(p) /\ p.out \in Seq(Orders)
  BY <1>6, ViewFields DEF OnPage, IsView
<1>8. IsPage(page') /\ page'.list = p.list /\ page'.closed = p.closed /\ page'.attached = p.attached
  BY <1>1, <1>7, OutUp
<1>9. up' = up \o p.out /\ UNCHANGED <<queue, abandoned>>
  BY <1>1, <1>5 DEF Send
<1> QED
  BY <1>1, <1>3, <1>4, <1>5, <1>6, <1>7, <1>8, <1>9 DEF m, p

LEMMA GivesUp ==
  ASSUME Separate, ClientInv, Read
  PROVE  Gives(Head(down))
<1> DEFINE m == Head(down)
           p == Routed(page, m)
<1>1. /\ m \in Frames /\ link /\ link' /\ ready' /\ (m.t = "ready" <=> ~ready)
      /\ OnPage(p, m) /\ page'.list = p.list /\ m = down[1]
  BY ReadTo, HeadUp DEF ClientInv, ClientTypeOK
<1> HIDE DEF m, p
<1>2. IsList(Base)
  BY BaseUp DEF ClientInv
<1>3. Base' = p.list
  BY <1>1 DEF Base
<1>4. Base = IF m.t = "ready" THEN m.sessions ELSE page.list
  BY <1>1 DEF Base
<1>5. \/ /\ Base' = Base /\ \A x \in Ids : ~Ends(m, x) /\ (Adds(m, x) => x \in page.closed)
      \/ \E s \in Entries :
           /\ Base' = Merged(Base, s) /\ Touches(m, s.id)
           /\ s.id \in IdsOf(Base) \/ Adds(m, s.id)
           /\ \A x \in Ids : Touches(m, x) => x = s.id
           /\ \A x \in Ids : ~Ends(m, x) /\ (Adds(m, x) => s = m.session)
      \/ /\ m.t = "closed" /\ m.id \in Ids /\ Base' = Without(Base, m.id)
  <2>1. CASE m.t \in {"ready", "output", "snapshot", "error"}
    BY <1>1, <1>3, <1>4, <2>1 DEF OnPage, Adds, Ends
  <2>2. CASE m.t \in {"session", "created"}
    <3>1. CASE m.session.id \in page.closed
      BY <1>1, <1>3, <1>4, <2>2, <3>1 DEF OnPage, Adds, Ends
    <3>2. CASE m.session.id \notin page.closed
      <4>1. m.session \in Entries /\ Base' = Merged(Base, m.session)
        BY <1>1, <1>3, <1>4, <2>2, <3>2, FrameKinds DEF OnPage
      <4>2. \A x : /\ (Touches(m, x) <=> x = m.session.id)
                   /\ (Adds(m, x) <=> x = m.session.id) /\ ~Ends(m, x)
        BY <2>2 DEF Touches, Adds, Ends
      <4> QED
        BY <4>1, <4>2
    <3> QED
      BY <3>1, <3>2
  <2>3. CASE m.t = "exit"
    <3>1. \A x : (Touches(m, x) <=> x = m.id) /\ ~Adds(m, x) /\ ~Ends(m, x)
      BY <2>3 DEF Touches, Adds, Ends
    <3>2. CASE Base' = Base
      BY <3>1, <3>2
    <3>3. CASE m.id \in IdsOf(page.list) /\ Base' = Merged(Base, Session(m.id, "exited"))
      <4>1. Session(m.id, "exited") \in Entries /\ Session(m.id, "exited").id = m.id
        BY <1>1, <2>3, FrameKinds DEF Session, Entries
      <4> QED
        BY <1>4, <2>3, <3>1, <3>3, <4>1
    <3> QED
      BY <1>1, <1>3, <1>4, <2>3, <3>2, <3>3 DEF OnPage
  <2>4. CASE m.t = "closed"
    BY <1>1, <1>3, <1>4, <2>4, FrameKinds DEF OnPage
  <2> QED
    BY <1>1, <2>1, <2>2, <2>3, <2>4, FrameKinds
<1>6. m.t = "ready" => Base' = Base
  BY <1>1, <1>3, <1>4 DEF OnPage
<1>7. CASE Base' = Base /\ \A x \in Ids : ~Ends(m, x) /\ (Adds(m, x) => x \in page.closed)
  BY <1>2, <1>7 DEF Gives, m
<1>8. ASSUME NEW s \in Entries, Base' = Merged(Base, s), Touches(m, s.id),
             s.id \in IdsOf(Base) \/ Adds(m, s.id),
             \A x \in Ids : Touches(m, x) => x = s.id,
             \A x \in Ids : ~Ends(m, x) /\ (Adds(m, x) => s = m.session)
      PROVE  Gives(m)
  <2>1. /\ IsList(Base') /\ IdsOf(Base') = IdsOf(Base) \cup {s.id}
        /\ \A e \in Entries : e \in Range(Base') <=> e = s \/ (e \in Range(Base) /\ e.id # s.id)
        /\ \A a, b : Precedes(Base', a, b)
             <=> Precedes(Base, a, b) \/ (s.id \notin IdsOf(Base) /\ b = s.id /\ a \in IdsOf(Base))
    BY <1>2, <1>8, MergedUp
  <2>2. \A x \in Ids : Adds(m, x) => Touches(m, x) /\ m.session.id = x
    BY DEF Touches, Adds
  <2>3. s.id \in Ids
    BY DEF Entries
  <2> QED
    BY <1>6, <1>8, <2>1, <2>2, <2>3 DEF Gives
<1>9. CASE m.t = "closed" /\ m.id \in Ids /\ Base' = Without(Base, m.id)
  <2>1. /\ IsList(Base') /\ IdsOf(Base') = IdsOf(Base) \ {m.id}
        /\ \A e \in Entries : e \in Range(Base') <=> e \in Range(Base) /\ e.id # m.id
        /\ \A a, b : Precedes(Base', a, b) <=> Precedes(Base, a, b) /\ a # m.id /\ b # m.id
    BY <1>2, <1>9, RemovedFrom
  <2>2. \A x : (Ends(m, x) <=> x = m.id) /\ ~Adds(m, x) /\ (Touches(m, x) <=> x = m.id)
    BY <1>9 DEF Touches, Adds, Ends
  <2>3. \A x \in Ids :
          /\ ~Touches(m, x) =>
               /\ x \in IdsOf(Base') <=> x \in IdsOf(Base)
               /\ \A s \in Entries : s.id = x => (s \in Range(Base') <=> s \in Range(Base))
          /\ Ends(m, x) => x \notin IdsOf(Base')
          /\ Adds(m, x) /\ x \notin page.closed => x \in IdsOf(Base') /\ m.session \in Range(Base')
          /\ x \in IdsOf(Base) /\ ~Ends(m, x) => x \in IdsOf(Base')
          /\ x \in IdsOf(Base') => x \in IdsOf(Base) \/ Adds(m, x)
    BY <2>1, <2>2
  <2>4. \A a, b \in Ids :
          /\ Precedes(Base, a, b) /\ ~Ends(m, a) /\ ~Ends(m, b) => Precedes(Base', a, b)
          /\ b \notin IdsOf(Base) /\ b \in IdsOf(Base') /\ a \in IdsOf(Base)
               => Precedes(Base', a, b)
    BY <2>1, <2>2
  <2>5. IsList(Base')
    BY <2>1
  <2> QED
    BY <1>6, <2>3, <2>4, <2>5 DEF Gives, m
<1> QED
  BY <1>5, <1>7, <1>8, <1>9 DEF m

LEMMA ReadUp ==
  ASSUME Separate, ClientInv, Read
  PROVE  ClientInv'
<1> DEFINE m == Head(down)
           p == Routed(page, m)
<1>1. /\ down # <<>> /\ down' = Tail(down) /\ m \in Frames /\ link
      /\ (m.t = "ready" <=> ~ready)
      /\ OnPage(p, m) /\ Attaching(p, m) /\ p.out \in Seq(Orders)
      /\ IsPage(page') /\ page'.list = p.list /\ page'.closed = p.closed
      /\ page'.attached = p.attached
      /\ link' /\ ready' /\ up' = up \o p.out
      /\ UNCHANGED <<srv, used, watch, queue, abandoned, restarting>>
  BY ReadTo
<1>2. Gives(m)
  BY GivesUp
<1>3. ClientTypeOK /\ down \in Seq(Frames) /\ up \in Seq(Orders)
  BY DEF ClientInv, ClientTypeOK
<1>4. /\ m = down[1] /\ 1 \in DOMAIN down /\ Tail(down) \in Seq(Frames)
      /\ DOMAIN down = 1..Len(down) /\ Len(down) \in Nat
      /\ \A i \in DOMAIN down' : /\ i + 1 \in DOMAIN down /\ down'[i] = down[i + 1]
                                 /\ i \in Nat /\ i + 1 # 1
      /\ \A i \in DOMAIN down : i = 1 \/ \E k \in DOMAIN down' : i = k + 1
  <2>1. down' = Tail(down) /\ down # <<>>
    BY <1>1
  <2>2. /\ m = down[1] /\ 1 \in DOMAIN down /\ Tail(down) \in Seq(Frames)
        /\ DOMAIN down = 1..Len(down) /\ Len(down) \in Nat /\ DOMAIN down' = 1..(Len(down) - 1)
        /\ \A i \in DOMAIN down' : i + 1 \in DOMAIN down /\ down'[i] = down[i + 1]
        /\ \A i \in DOMAIN down : i = 1 \/ \E k \in DOMAIN down' : i = k + 1
    BY <1>3, <2>1, HeadUp
  <2> QED
    BY <2>2
<1>5. up' \in Seq(Orders) /\ Range(up') = Range(up) \cup Range(p.out)
  BY <1>1, <1>3, RangeJoined
<1> HIDE DEF m, p
<1>6. ReadyLeads'
  <2>1. \A i \in DOMAIN down' : down'[i].t # "ready"
    BY <1>4 DEF ClientInv, ReadyLeads
  <2>2. queue' = <<>>
    BY <1>1 DEF ClientInv, ReadyLeads
  <2> QED
    BY <1>1, <2>1, <2>2 DEF ReadyLeads
<1>7. ClientTypeOK'
  BY <1>1, <1>3, <1>4, <1>5 DEF ClientTypeOK
<1>8. \A x \in OwnIds : x \in Ids /\ (Ends(m, x) \/ x \in page.closed => x \notin IdsOf(srv))
  BY <1>4 DEF ClientInv, OneLife, Ids
<1>9. \A x \in Ids : x \in page'.closed => x \in page.closed \/ Ends(m, x)
  BY <1>1 DEF OnPage, Ends
<1>10. OneLife'
  <2> SUFFICES ASSUME NEW x \in OwnIds
               PROVE  /\ x \notin used =>
                           /\ x \notin IdsOf(srv) \cup IdsOf(page'.list) \cup page'.closed
                           /\ x \notin IdsOf(Base') /\ Untouched(x)'
                      /\ x \in page'.closed \/ (\E i \in DOMAIN down' : Ends(down'[i], x))
                           => x \notin IdsOf(srv)
    BY <1>1 DEF OneLife
  <2>1. /\ x \notin used => /\ x \notin IdsOf(srv) \cup IdsOf(page.list) \cup page.closed
                           /\ x \notin IdsOf(Base) /\ Untouched(x)
        /\ x \in page.closed \/ (\E i \in DOMAIN down : Ends(down[i], x)) => x \notin IdsOf(srv)
        /\ x \in Ids
    BY <1>8 DEF ClientInv, OneLife
  <2>2. Base' = page'.list
    BY <1>1 DEF Base
  <2>3. ASSUME x \notin used
        PROVE  x \notin IdsOf(Base') /\ x \notin page'.closed /\ Untouched(x)'
    <3>1. ~Touches(m, x)
      BY <1>4, <2>1, <2>3 DEF Untouched
    <3>2. x \notin IdsOf(Base')
      BY <1>2, <2>1, <2>3, <3>1 DEF Gives
    <3>3. x \notin page'.closed
      BY <1>9, <2>1, <2>3, <3>1 DEF Touches
    <3>4. \A i \in DOMAIN down' : ~Touches(down'[i], x)
      BY <1>4, <2>1, <2>3 DEF Untouched
    <3>5. Untouched(x)'
      BY <3>4 DEF Untouched, Touches, Adds, Ends
    <3> QED
      BY <3>2, <3>3, <3>5
  <2>4. x \in page'.closed \/ (\E i \in DOMAIN down' : Ends(down'[i], x)) => x \notin IdsOf(srv)
    BY <1>4, <1>8, <1>9, <2>1
  <2> QED
    BY <2>1, <2>2, <2>3, <2>4
<1>11. LastTells'
  <2> SUFFICES ASSUME NEW x \in Ids, NEW i \in DOMAIN down', Touches(down'[i], x),
                      \A j \in DOMAIN down' : j > i => ~Touches(down'[j], x)
               PROVE  \/ Ends(down'[i], x) /\ x \notin IdsOf(srv)
                      \/ Adds(down'[i], x) /\ down'[i].session \in Range(srv)
    BY <1>1 DEF LastTells, Touches, Adds, Ends
  <2>1. i + 1 \in DOMAIN down /\ Touches(down[i + 1], x) /\ down'[i] = down[i + 1]
    BY <1>4
  <2>2. ASSUME NEW j \in DOMAIN down, j > i + 1 PROVE ~Touches(down[j], x)
    <3>1. PICK k \in DOMAIN down' : j = k + 1
      BY <1>4, <2>2
    <3>2. k > i
      BY <1>4, <2>2, <3>1
    <3> QED
      BY <1>4, <3>1, <3>2
  <2> QED
    BY <2>1, <2>2 DEF ClientInv, LastTells
<1>12. QuietIsTrue'
  <2> SUFFICES ASSUME NEW x \in Ids, Untouched(x)'
               PROVE  /\ x \in IdsOf(Base') => x \in IdsOf(srv)
                      /\ x \in OwnIds => \A s \in Entries : s.id = x =>
                                           (s \in Range(Base') <=> s \in Range(srv))
    BY <1>1 DEF QuietIsTrue
  <2>1. \A i \in DOMAIN down' : ~Touches(down'[i], x)
    BY DEF Untouched, Touches, Adds, Ends
  <2>2. \A i \in DOMAIN down : i = 1 \/ ~Touches(down[i], x)
    BY <1>4, <2>1
  <2>3. CASE ~Touches(m, x)
    <3>1. Untouched(x)
      BY <1>4, <2>2, <2>3 DEF Untouched
    <3>2. /\ x \in IdsOf(Base) => x \in IdsOf(srv)
          /\ x \in OwnIds => \A s \in Entries : s.id = x => (s \in Range(Base) <=> s \in Range(srv))
      BY <1>1, <3>1 DEF ClientInv, QuietIsTrue
    <3> QED
      BY <1>2, <2>3, <3>2 DEF Gives
  <2>4. CASE Touches(m, x)
    <3>1. \/ Ends(m, x) /\ x \notin IdsOf(srv)
          \/ Adds(m, x) /\ m.session \in Range(srv)
      <4>1. \A j \in DOMAIN down : j > 1 => ~Touches(down[j], x)
        BY <1>4, <2>2
      <4> QED
        BY <1>4, <2>4, <4>1 DEF ClientInv, LastTells
    <3>2. IsList(srv) /\ IsList(Base')
      BY <1>2, <1>3 DEF ClientTypeOK, Gives
    <3>3. CASE Ends(m, x) /\ x \notin IdsOf(srv)
      <4>1. x \notin IdsOf(Base')
        BY <1>2, <3>3 DEF Gives
      <4> QED
        BY <3>2, <3>3, <4>1, ListUp
    <3>4. CASE Adds(m, x) /\ m.session \in Range(srv)
      <4>1. m.session.id = x /\ x \in IdsOf(srv)
        BY <3>2, <3>4, ListUp DEF Adds
      <4>2. x \in OwnIds => m.session \in Range(Base')
        BY <1>2, <1>8, <3>4, <4>1 DEF Gives
      <4>3. /\ \A s, t \in Range(srv) : s.id = t.id => s = t
            /\ \A s, t \in Range(Base') : s.id = t.id => s = t
        BY <3>2, ListUp
      <4> QED
        BY <3>4, <4>1, <4>2, <4>3
    <3> QED
      BY <3>1, <3>3, <3>4
  <2> QED
    BY <2>3, <2>4
<1>13. \A x \in OwnIds \cap IdsOf(srv) :
         /\ x \in IdsOf(Base) \/ Adds(m, x) => x \in IdsOf(Base')
         /\ ~Ends(m, x) /\ x \notin page.closed
  BY <1>2, <1>8 DEF Gives
<1>14. SoonListed'
  <2> SUFFICES ASSUME NEW x \in OwnIds, x \in IdsOf(srv), x \notin IdsOf(Base')
               PROVE  \E i \in DOMAIN down' : Adds(down'[i], x)
    BY <1>1 DEF SoonListed, Added, Adds
  <2>1. x \notin IdsOf(Base) /\ ~Adds(m, x)
    BY <1>13
  <2>2. PICK i \in DOMAIN down : Adds(down[i], x)
    BY <1>1, <2>1 DEF ClientInv, SoonListed, Added
  <2> QED
    BY <1>4, <2>1, <2>2
<1>15. InTheirOrder'
  <2> SUFFICES ASSUME NEW a \in OwnIds, NEW b \in OwnIds, Precedes(srv, a, b)
               PROVE  /\ b \in IdsOf(Base') => Precedes(Base', a, b)
                      /\ \A i \in DOMAIN down' : Adds(down'[i], b) =>
                           a \in IdsOf(Base') \/ \E j \in DOMAIN down' : j < i /\ Adds(down'[j], a)
    BY <1>1 DEF InTheirOrder, Precedes, Adds
  <2>1. /\ b \in IdsOf(Base) => Precedes(Base, a, b)
        /\ \A i \in DOMAIN down : Adds(down[i], b) =>
             a \in IdsOf(Base) \/ \E j \in DOMAIN down : j < i /\ Adds(down[j], a)
    BY <1>1 DEF ClientInv, InTheirOrder
  <2>2. /\ a \in Ids /\ b \in Ids /\ ~Ends(m, a) /\ ~Ends(m, b)
        /\ a \in IdsOf(Base) \/ Adds(m, a) => a \in IdsOf(Base')
    BY <1>8, <1>13, PrecedesIds
  <2>3. ASSUME b \in IdsOf(Base') PROVE Precedes(Base', a, b)
    <3>1. CASE b \in IdsOf(Base)
      BY <1>2, <2>1, <2>2, <3>1 DEF Gives
    <3>2. CASE b \notin IdsOf(Base)
      <4>1. Adds(m, b)
        BY <1>2, <2>2, <2>3, <3>2 DEF Gives
      <4>2. a \in IdsOf(Base)
        BY <1>4, <2>1, <4>1
      <4> QED
        BY <1>2, <2>2, <2>3, <3>2, <4>2 DEF Gives
    <3> QED
      BY <3>1, <3>2
  <2>4. ASSUME NEW i \in DOMAIN down', Adds(down'[i], b)
        PROVE  a \in IdsOf(Base') \/ \E j \in DOMAIN down' : j < i /\ Adds(down'[j], a)
    <3>1. i + 1 \in DOMAIN down /\ Adds(down[i + 1], b)
      BY <1>4, <2>4
    <3>2. CASE a \in IdsOf(Base)
      BY <2>2, <3>2
    <3>3. ASSUME NEW j \in DOMAIN down, j < i + 1, Adds(down[j], a)
          PROVE  a \in IdsOf(Base') \/ \E k \in DOMAIN down' : k < i /\ Adds(down'[k], a)
      <4>1. CASE j = 1
        BY <1>4, <2>2, <3>3, <4>1
      <4>2. CASE j # 1
        <5>1. PICK k \in DOMAIN down' : j = k + 1
          BY <1>4, <4>2
        <5>2. k < i /\ Adds(down'[k], a)
          BY <1>4, <3>3, <5>1
        <5> QED
          BY <5>2
      <4> QED
        BY <4>1, <4>2
    <3> QED
      BY <2>1, <3>1, <3>2, <3>3
  <2> QED
    BY <2>3, <2>4
<1>16. OldIsListed'
  BY <1>1 DEF OldIsListed
<1>17. PanelsAsk'
  <2> SUFFICES ASSUME NEW x \in OwnIds, x \in IdsOf(srv), x \in IdsOf(p.list)
               PROVE  /\ x \in p.attached \/ Closing(x)'
                      /\ x \in watch \/ OnItsWay("attach", x)' \/ Closing(x)'
    BY <1>1 DEF PanelsAsk
  <2>1. /\ \A t : OnItsWay(t, x) => OnItsWay(t, x)'
        /\ Closing(x) => Closing(x)'
        /\ Frame("attach", x) \in Range(p.out) => OnItsWay("attach", x)'
    BY <1>1, <1>5 DEF OnItsWay, Closing
  <2>2. CASE x \notin IdsOf(page.list)
    BY <1>1, <2>1, <2>2 DEF Attaching
  <2>3. CASE x \in IdsOf(page.list)
    <3>1. /\ x \in page.attached \/ Closing(x)
          /\ ready => x \in watch \/ OnItsWay("attach", x) \/ Closing(x)
      BY <2>3 DEF ClientInv, PanelsAsk
    <3>2. CASE m.t = "ready"
      BY <1>1, <2>1, <3>1, <3>2 DEF Attaching
    <3>3. CASE m.t # "ready"
      BY <1>1, <1>13, <2>1, <3>1, <3>3 DEF Attaching
    <3> QED
      BY <3>2, <3>3
  <2> QED
    BY <2>2, <2>3
<1> QED
  BY <1>6, <1>7, <1>10, <1>11, <1>12, <1>14, <1>15, <1>16, <1>17 DEF ClientInv

-----------------------------------------------------------------------------
(* What the page sends of its own accord.                                   *)
LEMMA KilledUp ==
  ASSUME NEW l \in Seq(Orders)
  PROVE  /\ Killed(l) \subseteq Ids \cup {None}
         /\ \A x : x \in Killed(l) <=> Frame("kill", x) \in Range(l)
<1>1. \A x : x \in Killed(l) <=> \E i \in DOMAIN l : l[i].t = "kill" /\ l[i].id = x
  BY DEF Killed
<1>2. \A e : e \in Range(l) <=> \E i \in DOMAIN l : l[i] = e
  BY DEF Range
<1>3. \A i \in DOMAIN l : l[i] \in Orders
  OBVIOUS
<1>4. \A m \in Orders : m.id \in Ids \cup {None} /\ m = [t |-> m.t, id |-> m.id]
  BY DEF Orders
<1>5. \A x : Frame("kill", x) = [t |-> "kill", id |-> x]
  BY DEF Frame
<1>6. \A x : Frame("kill", x).t = "kill" /\ Frame("kill", x).id = x
  BY DEF Frame
<1>7. \A m \in Orders : \A x : m.t = "kill" /\ m.id = x => m = Frame("kill", x)
  BY <1>4, <1>5
<1> QED
  BY <1>1, <1>2, <1>3, <1>4, <1>6, <1>7

LEMMA KeptUp ==
  ASSUME Separate, NEW l \in Seq(Orders)
  PROVE  Kept(l) \in Seq(Orders)
<1>1. Len(l) \in Nat /\ QueueMax \in Nat
  BY DEF Separate
<1>2. CASE Len(l) <= QueueMax
  BY <1>2 DEF Kept
<1>3. CASE ~(Len(l) <= QueueMax)
  <2> DEFINE a == Len(l) - QueueMax + 1
  <2>1. a \in Nat /\ a >= 1
    BY <1>1, <1>3
  <2>2. Kept(l) = SubSeq(l, a, Len(l))
    BY <1>3 DEF Kept
  <2> HIDE DEF a
  <2>3. \A i \in a..Len(l) : l[i] \in Orders
    BY <1>1, <2>1
  <2>4. SubSeq(l, a, Len(l)) \in Seq(Orders)
    BY <1>1, <2>1, <2>3
  <2> QED
    BY <2>2, <2>4
<1> QED
  BY <1>2, <1>3

(* What was asked for still is, or was a close and is remembered as lost.   *)
Keeps(x) ==
  /\ Closing(x) => Closing(x)'
  /\ OnItsWay("attach", x) => OnItsWay("attach", x)'

LEMMA SendUp ==
  ASSUME Separate, ClientInv, link' = link, NEW fs \in Seq(Orders), Send(fs)
  PROVE  /\ up' \in Seq(Orders) /\ queue' \in Seq(Orders) /\ abandoned' \subseteq Ids \cup {None}
         /\ IF link THEN queue' = queue ELSE up' = up
         /\ \A x : Keeps(x) /\ (Frame("kill", x) \in Range(fs) => Closing(x)')
<1>1. up \in Seq(Orders) /\ queue \in Seq(Orders) /\ abandoned \subseteq Ids \cup {None}
  BY DEF ClientInv, ClientTypeOK
<1>2. CASE link
  <2>1. up' = up \o fs /\ queue' = queue /\ abandoned' = abandoned
    BY <1>2 DEF Send
  <2>2. up' \in Seq(Orders) /\ Range(up') = Range(up) \cup Range(fs)
    BY <1>1, <2>1, RangeJoined
  <2>3. \A x : Keeps(x) /\ (Frame("kill", x) \in Range(fs) => Closing(x)')
    BY <2>1, <2>2 DEF Keeps, Closing, OnItsWay
  <2> QED
    BY <1>1, <1>2, <2>1, <2>2, <2>3
<1>3. CASE ~link
  <2> DEFINE q == queue \o fs
  <2>1. /\ queue' = Kept(q) /\ up' = up
        /\ abandoned' = abandoned \cup (Killed(q) \ Killed(queue'))
    BY <1>3 DEF Send
  <2>2. q \in Seq(Orders) /\ Range(q) = Range(queue) \cup Range(fs)
    BY <1>1, RangeJoined
  <2> HIDE DEF q
  <2>3. queue' \in Seq(Orders) /\ Killed(q) \subseteq Ids \cup {None}
    BY <2>1, <2>2, KeptUp, KilledUp
  <2>4. \A x : Frame("kill", x) \in Range(q) => x \in abandoned' \/ x \in Killed(queue')
    BY <2>1, <2>2, KilledUp
  <2>5. \A x : x \in Killed(queue) \/ Frame("kill", x) \in Range(fs) => Frame("kill", x) \in Range(q)
    BY <1>1, <2>2, KilledUp
  <2>6. \A x : Closing(x)' <=> x \in abandoned' \/ OnItsWay("kill", x) \/ x \in Killed(queue')
    BY <2>1 DEF Closing, OnItsWay
  <2>7. \A x : Keeps(x) /\ (Frame("kill", x) \in Range(fs) => Closing(x)')
    BY <2>1, <2>4, <2>5, <2>6 DEF Keeps, Closing, OnItsWay
  <2> QED
    BY <1>1, <1>3, <2>1, <2>3, <2>7
<1> QED
  BY <1>2, <1>3

(* A step of the page that leaves its list and the frames under way alone.  *)
LEMMA PageStep ==
  ASSUME Separate, ClientInv,
         UNCHANGED <<srv, used, watch, link, ready, down>>,
         IsPage(page'), page'.list = page.list, page'.closed \subseteq page.closed,
         up' \in Seq(Orders), queue' \in Seq(Orders), abandoned' \subseteq Ids \cup {None},
         IF link THEN queue' = queue ELSE up' = up,
         restarting' \subseteq Ids, \A x : Keeps(x),
         \A x \in page.attached : x \in page'.attached \/ Closing(x)'
  PROVE  ClientInv'
<1>1. /\ ClientTypeOK /\ ReadyLeads /\ OneLife /\ LastTells /\ QuietIsTrue /\ SoonListed
      /\ InTheirOrder /\ OldIsListed /\ PanelsAsk
  BY DEF ClientInv
<1>2. Base' = Base
  BY DEF Base
<1>3. \A x : Untouched(x)' = Untouched(x) /\ Added(x)' = Added(x)
  BY DEF Untouched, Added, Touches, Adds, Ends
<1>4. ClientTypeOK'
  BY <1>1 DEF ClientTypeOK
<1>5. ReadyLeads'
  BY <1>1 DEF ReadyLeads
<1>6. OneLife'
  BY <1>1, <1>2, <1>3 DEF OneLife, Ends
<1>7. LastTells'
  BY <1>1 DEF LastTells, Touches, Adds, Ends
<1>8. QuietIsTrue'
  BY <1>1, <1>2, <1>3 DEF QuietIsTrue
<1>9. SoonListed'
  BY <1>1, <1>2, <1>3 DEF SoonListed
<1>10. InTheirOrder'
  BY <1>1, <1>2 DEF InTheirOrder, Precedes, Adds
<1>11. OldIsListed'
  BY <1>1, <1>2 DEF OldIsListed
<1>12. PanelsAsk'
  BY <1>1 DEF PanelsAsk, Keeps
<1> QED
  BY <1>4, <1>5, <1>6, <1>7, <1>8, <1>9, <1>10, <1>11, <1>12 DEF ClientInv

LEMMA OrderMade ==
  ASSUME NEW id \in Ids \cup {None}, NEW t \in {"kill", "attach", "create"}
  PROVE  <<Frame(t, id)>> \in Seq(Orders) /\ Frame(t, id) \in Range(<<Frame(t, id)>>)
<1> DEFINE f == Frame(t, id)
<1>1. f \in Orders
  BY DEF Frame, Orders
<1> HIDE DEF f
<1>2. <<f>> \in Seq(Orders) /\ 1 \in DOMAIN <<f>> /\ <<f>>[1] = f
  BY <1>1
<1> QED
  BY <1>2 DEF Range, f

(* A close, also the first half of a restart.                               *)
LEMMA ClosingUp ==
  ASSUME Separate, ClientInv, NEW id \in Ids, Send(<<Frame("kill", id)>>),
         page' = [page EXCEPT !.attached = page.attached \ {id}],
         UNCHANGED <<srv, used, watch, link, ready, down>>, restarting' \subseteq Ids
  PROVE  ClientInv'
<1> DEFINE a  == page.attached \ {id}
           fs == <<Frame("kill", id)>>
<1>1. IsView(page) /\ page.out = <<>> /\ a \subseteq Ids
  BY ViewFields DEF ClientInv, ClientTypeOK, IsPage, IsView
<1>2. page' = [page EXCEPT !.attached = a]
  OBVIOUS
<1> HIDE DEF a
<1>3. /\ IsPage(page') /\ page'.list = page.list /\ page'.closed = page.closed
      /\ page'.attached = a
  <2> DEFINE q == [page EXCEPT !.attached = a]
  <2>1. /\ IsView(q) /\ q.list = page.list /\ q.closed = page.closed /\ q.attached = a
        /\ q.out = page.out
    BY <1>1, TrackUp
  <2>2. page' = q
    BY <1>2
  <2> HIDE DEF q
  <2> QED
    BY <1>1, <2>1, <2>2 DEF IsPage
<1>4. fs \in Seq(Orders) /\ Frame("kill", id) \in Range(fs)
  BY OrderMade
<1>5. Send(fs)
  OBVIOUS
<1> HIDE DEF fs
<1>6. /\ up' \in Seq(Orders) /\ queue' \in Seq(Orders) /\ abandoned' \subseteq Ids \cup {None}
      /\ IF link THEN queue' = queue ELSE up' = up
      /\ \A x : Keeps(x)
      /\ Closing(id)'
  BY <1>4, <1>5, SendUp
<1>7. \A x \in page.attached : x \in page'.attached \/ Closing(x)'
  BY <1>3, <1>6 DEF a
<1> QED
  BY <1>3, <1>6, <1>7, PageStep

(* A create: at once, or when the delay of a restart is over.               *)
LEMMA CreatingUp ==
  ASSUME Separate, ClientInv, NEW id \in Ids \cup {None}, Send(<<Frame("create", id)>>),
         page' = page, UNCHANGED <<srv, used, watch, link, ready, down>>, restarting' \subseteq Ids
  PROVE  ClientInv'
<1>1. IsPage(page)
  BY DEF ClientInv, ClientTypeOK
<1>2. <<Frame("create", id)>> \in Seq(Orders)
  BY OrderMade
<1>3. /\ up' \in Seq(Orders) /\ queue' \in Seq(Orders) /\ abandoned' \subseteq Ids \cup {None}
      /\ IF link THEN queue' = queue ELSE up' = up
      /\ \A x : Keeps(x)
  BY <1>2, SendUp
<1> QED
  BY <1>1, <1>3, PageStep

(* Nothing is sent.                                                         *)
LEMMA QuietUp ==
  ASSUME Separate, ClientInv, IsPage(page'), page'.list = page.list,
         page'.closed \subseteq page.closed, page'.attached = page.attached,
         UNCHANGED <<server, wires, restarting, abandoned>>
  PROVE  ClientInv'
<1>1. UNCHANGED <<srv, used, watch, link, ready, down, up, queue, restarting, abandoned>>
  BY DEF server, wires
<1>2. \A x : Keeps(x)
  BY <1>1 DEF Keeps, Closing, OnItsWay
<1>3. /\ up \in Seq(Orders) /\ queue \in Seq(Orders) /\ abandoned \subseteq Ids \cup {None}
      /\ restarting \subseteq Ids
  BY DEF ClientInv, ClientTypeOK
<1> QED
  BY <1>1, <1>2, <1>3, PageStep

LEMMA UserUp ==
  ASSUME Separate, ClientInv, NEW id \in Ids,
         TombstoneExpires(id) \/ CloseSession(id) \/ RestartSession(id)
           \/ RestartDelayOver(id) \/ FocusSession(id)
  PROVE  ClientInv'
<1>1. /\ IsView(page) /\ page.out = <<>> /\ page \in Views /\ page.closed \subseteq Ids
      /\ restarting \subseteq Ids
  BY ViewFields DEF ClientInv, ClientTypeOK, IsPage, IsView
<1>2. CASE TombstoneExpires(id)
  <2> DEFINE c == page.closed \ {id}
  <2>1. page' = [page EXCEPT !.closed = c] /\ c \subseteq Ids /\ c \subseteq page.closed
        /\ UNCHANGED <<server, wires, restarting, abandoned>>
    BY <1>1, <1>2 DEF TombstoneExpires
  <2> HIDE DEF c
  <2>2. /\ page' \in Views /\ page'.list = page.list /\ page'.closed = c
        /\ page'.active = page.active /\ page'.panels = page.panels
        /\ page'.attached = page.attached /\ page'.out = page.out
    BY <1>1, <2>1, ViewFields DEF Views
  <2>3. IsPage(page')
    BY <1>1, <2>2 DEF IsPage, IsView
  <2> QED
    BY <2>1, <2>2, <2>3, QuietUp
<1>3. CASE FocusSession(id)
  <2>1. /\ page' = [page EXCEPT !.active = id] /\ id \in IdsOf(page.list)
        /\ UNCHANGED <<server, wires, restarting, abandoned>>
    BY <1>3 DEF FocusSession
  <2>2. /\ page' \in Views /\ page'.list = page.list /\ page'.closed = page.closed
        /\ page'.active = id /\ page'.panels = page.panels
        /\ page'.attached = page.attached /\ page'.out = page.out
    BY <1>1, <2>1, ViewFields DEF Views
  <2>3. page.list # <<>>
    BY <2>1 DEF IdsOf
  <2>4. IsPage(page')
    BY <1>1, <2>1, <2>2, <2>3 DEF IsPage, IsView
  <2> QED
    BY <2>1, <2>2, <2>4, QuietUp
<1>4. CASE CloseSession(id)
  BY <1>1, <1>4, ClosingUp DEF CloseSession, server
<1>5. CASE RestartSession(id)
  BY <1>1, <1>5, ClosingUp DEF RestartSession, server
<1>6. CASE RestartDelayOver(id)
  <2>1. restarting' \subseteq Ids
    BY <1>1, <1>6 DEF RestartDelayOver
  <2> QED
    BY <1>6, <2>1, CreatingUp DEF RestartDelayOver, server
<1> QED
  BY <1>2, <1>3, <1>4, <1>5, <1>6

LEMMA CreateSessionUp ==
  ASSUME Separate, ClientInv, CreateSession
  PROVE  ClientInv'
<1>1. restarting' \subseteq Ids
  BY DEF CreateSession, ClientInv, ClientTypeOK
<1> QED
  BY <1>1, CreatingUp DEF CreateSession, server

-----------------------------------------------------------------------------
(* The link.                                                                *)
LEMMA ConnectsUp ==
  ASSUME Separate, ClientInv, Connects
  PROVE  ClientInv'
<1> DEFINE m  == [t |-> "ready", sessions |-> srv]
           fs == <<m>>
<1>1. /\ ~link /\ link' = TRUE /\ ready' = FALSE /\ down' = fs /\ up' = queue /\ queue' = <<>>
      /\ UNCHANGED <<srv, used, watch, page, restarting, abandoned>>
  BY DEF Connects, server
<1>2. ClientTypeOK /\ IsList(srv) /\ srv \in Lists /\ Distinct(srv)
  BY DEF ClientInv, ClientTypeOK, IsList
<1>3. m \in Frames /\ m.t = "ready" /\ m.sessions = srv
  BY <1>2 DEF Frames, Readies
<1> HIDE DEF m
<1>4. fs \in Seq(Frames) /\ DOMAIN fs = {1} /\ fs[1] = m /\ fs # <<>>
  BY <1>3
<1> HIDE DEF fs
<1>5. /\ down' \in Seq(Frames) /\ DOMAIN down' = {1} /\ down' # <<>>
      /\ down'[1].t = "ready" /\ down'[1].sessions = srv
  BY <1>1, <1>3, <1>4
<1>6. Base' = srv /\ page' = page /\ srv' = srv /\ up = <<>>
  BY <1>1, <1>5 DEF Base, ClientInv, ReadyLeads
<1>7. \A x : \A i \in DOMAIN down' : ~Touches(down'[i], x) /\ ~Adds(down'[i], x) /\ ~Ends(down'[i], x)
  BY <1>5 DEF Touches, Adds, Ends
<1>8. queue' \in Seq(Orders)
  BY <1>1
<1>9. ClientTypeOK'
  BY <1>1, <1>2, <1>5, <1>8 DEF ClientTypeOK
<1>10. ReadyLeads'
  BY <1>1, <1>5 DEF ReadyLeads
<1>11. OneLife'
  <2>1. \A x : Untouched(x)'
    BY <1>7 DEF Untouched, Touches, Adds, Ends
  <2>2. \A x : ~(\E i \in DOMAIN down' : Ends(down'[i], x))
    BY <1>7
  <2> QED
    BY <1>1, <1>6, <2>1, <2>2 DEF ClientInv, OneLife, Ends
<1>12. LastTells'
  BY <1>7 DEF LastTells, Touches, Adds, Ends
<1>13. QuietIsTrue' /\ SoonListed' /\ OldIsListed'
  BY <1>6 DEF QuietIsTrue, SoonListed, OldIsListed
<1>14. InTheirOrder'
  <2>1. \A a, b : Precedes(srv, a, b)' = Precedes(srv, a, b)
    BY <1>6 DEF Precedes
  <2>2. \A b : \A i \in DOMAIN down' : ~Adds(down'[i], b)
    BY <1>7
  <2> QED
    BY <1>6, <2>1, <2>2 DEF InTheirOrder, Precedes, Adds
<1>15. PanelsAsk'
  <2>1. queue \in Seq(Orders)
    BY <1>2 DEF ClientTypeOK
  <2>2. \A x : x \in Killed(queue) => OnItsWay("kill", x)'
    BY <1>1, <2>1, KilledUp DEF OnItsWay
  <2>3. \A x : ~OnItsWay("kill", x)
    BY <1>6 DEF OnItsWay, Range
  <2>4. \A x : Closing(x) => Closing(x)'
    BY <1>1, <2>2, <2>3 DEF Closing
  <2> QED
    BY <1>1, <2>4 DEF ClientInv, PanelsAsk
<1> QED
  BY <1>9, <1>10, <1>11, <1>12, <1>13, <1>14, <1>15 DEF ClientInv

LEMMA CutUp ==
  ASSUME Separate, ClientInv, Cut, srv' = srv \/ srv' = <<>>
  PROVE  ClientInv'
<1>1. /\ link' = FALSE /\ ready' = FALSE /\ down' = <<>> /\ up' = <<>> /\ watch' = {}
      /\ abandoned' = abandoned \cup Killed(up)
      /\ UNCHANGED <<used, queue, page, restarting>>
  BY DEF Cut, Lost
<1>2. ClientTypeOK /\ up \in Seq(Orders) /\ Killed(up) \subseteq Ids \cup {None}
  BY KilledUp DEF ClientInv, ClientTypeOK
<1>3. IsList(srv') /\ \A x \in IdsOf(srv') : x \in IdsOf(srv) /\ srv' = srv
  <2>1. CASE srv' = srv
    BY <1>2, <2>1 DEF ClientTypeOK
  <2>2. CASE srv' = <<>>
    <3>1. IdsOf(srv') = {} /\ srv' \in Lists /\ Distinct(srv')
      BY <2>2 DEF IdsOf, Lists, Distinct
    <3> QED
      BY <3>1 DEF IsList
  <2> QED
    BY <2>1, <2>2
<1>4. /\ down' \in Seq(Frames) /\ up' \in Seq(Orders) /\ DOMAIN down' = {}
  BY <1>1
<1>5. ClientTypeOK'
  BY <1>1, <1>2, <1>3, <1>4 DEF ClientTypeOK
<1>6. ReadyLeads'
  BY <1>1, <1>4 DEF ReadyLeads
<1>7. OneLife'
  <2>1. Base' = page.list
    BY <1>1 DEF Base
  <2>2. \A x : Untouched(x)'
    BY <1>4 DEF Untouched
  <2> QED
    BY <1>1, <1>3, <1>4, <2>1, <2>2 DEF ClientInv, OneLife
<1>8. LastTells' /\ QuietIsTrue' /\ SoonListed' /\ InTheirOrder' /\ OldIsListed'
  BY <1>1, <1>4 DEF LastTells, QuietIsTrue, SoonListed, InTheirOrder, OldIsListed
<1>9. PanelsAsk'
  <2>1. \A x : OnItsWay("kill", x) => x \in abandoned'
    BY <1>1, <1>2, KilledUp DEF OnItsWay
  <2>2. \A x : Closing(x) => Closing(x)'
    BY <1>1, <2>1 DEF Closing
  <2> QED
    BY <1>1, <1>3, <2>2 DEF ClientInv, PanelsAsk
<1> QED
  BY <1>5, <1>6, <1>7, <1>8, <1>9 DEF ClientInv

-----------------------------------------------------------------------------
(* The whole of it.                                                         *)
LEMMA ClientStarts ==
  ASSUME Separate, Init
  PROVE  ClientInv
<1>1. /\ srv = <<>> /\ used = {} /\ watch = {} /\ link = FALSE /\ ready = FALSE /\ down = <<>>
      /\ up = <<>> /\ queue = <<>> /\ page = Blank /\ restarting = {} /\ abandoned = {}
  BY DEF Init
<1>2. /\ srv \in Lists /\ DOMAIN srv = {} /\ down \in Seq(Frames) /\ up \in Seq(Orders)
      /\ queue \in Seq(Orders) /\ DOMAIN down = {}
  BY <1>1 DEF Lists
<1>3. Distinct(srv) /\ IdsOf(srv) = {}
  BY <1>2 DEF Distinct, IdsOf
<1>4. /\ page.list = <<>> /\ page.closed = {} /\ page.active = None /\ page.attached = {}
      /\ page.panels = {} /\ page.out = <<>> /\ page \in Views
  BY <1>1 DEF Blank, Views, Lists
<1>5. Distinct(page.list) /\ IdsOf(page.list) = {}
  BY <1>4 DEF Distinct, IdsOf
<1>6. IsPage(page)
  BY <1>4, <1>5 DEF IsPage, IsView
<1>7. ClientTypeOK
  BY <1>1, <1>2, <1>3, <1>6 DEF ClientTypeOK, IsList
<1>8. Base = page.list
  BY <1>1 DEF Base
<1>9. OneLife
  BY <1>2, <1>3, <1>4, <1>5, <1>8 DEF OneLife, Untouched
<1>10. ReadyLeads /\ LastTells /\ QuietIsTrue /\ SoonListed /\ InTheirOrder /\ OldIsListed
  BY <1>1, <1>2 DEF ReadyLeads, LastTells, QuietIsTrue, SoonListed, InTheirOrder, OldIsListed
<1>11. PanelsAsk
  BY <1>3 DEF PanelsAsk
<1> QED
  BY <1>7, <1>9, <1>10, <1>11 DEF ClientInv

LEMMA ClientSteps ==
  ASSUME Separate, ClientInv, [Next]_svars
  PROVE  ClientInv'
<1>1. CASE Next
  <2>1. ASSUME NEW id \in Ids,
               \/ TombstoneExpires(id) \/ CloseSession(id) \/ RestartSession(id)
               \/ RestartDelayOver(id) \/ FocusSession(id)
        PROVE  ClientInv'
    BY <2>1, UserUp
  <2>2. ASSUME NEW id \in Ids, Tells(id) \/ Exits(id) \/ ClosedElsewhere(id)
        PROVE  ClientInv'
    BY <2>2, TellsUp, ExitsUp, ClosedElsewhereUp
  <2>3. ASSUME NEW id \in OwnIds, Starts(id) PROVE ClientInv'
    BY <2>3, StartsUp
  <2>4. ASSUME NEW x \in Strangers, Adopts(x) PROVE ClientInv'
    BY <2>4, AdoptsUp
  <2>5. ASSUME Breaks \/ Replaced PROVE ClientInv'
    BY <2>5, CutUp DEF Breaks, Replaced
  <2> QED
    BY <1>1, <2>1, <2>2, <2>3, <2>4, <2>5, CreateSessionUp, ReadUp, ServerReadsUp, ConnectsUp
       DEF Next
<1>2. CASE UNCHANGED svars
  <2>1. UNCHANGED <<server, wires, page, restarting, abandoned>>
    BY <1>2 DEF svars
  <2>2. IsPage(page)
    BY DEF ClientInv, ClientTypeOK
  <2> QED
    BY <2>1, <2>2, QuietUp
<1> QED
  BY <1>1, <1>2

LEMMA BeforeUp ==
  ASSUME NEW l, IsList(l)
  PROVE  /\ \A s, t \in Range(l) : Before(l, s, t) <=> Precedes(l, s.id, t.id)
         /\ \A s, t \in Range(l) : s # t => Before(l, s, t) \/ Before(l, t, s)
         /\ \A s, t : Before(l, s, t) => s # t /\ ~Before(l, t, s)
<1>1. /\ Len(l) \in Nat /\ DOMAIN l = 1..Len(l) /\ Distinct(l)
      /\ \A s, t \in Range(l) : s.id = t.id => s = t
  BY ListUp DEF IsList
<1>2. \A i \in DOMAIN l : l[i] \in Range(l)
  BY DEF Range
<1>3. \A s \in Range(l) : \E i \in DOMAIN l : l[i] = s
  BY DEF Range
<1>4. \A s, t \in Range(l) : Before(l, s, t) <=> Precedes(l, s.id, t.id)
  BY <1>1, <1>2 DEF Before, Precedes
<1>5. ASSUME NEW s \in Range(l), NEW t \in Range(l), s # t
      PROVE  Before(l, s, t) \/ Before(l, t, s)
  <2>1. PICK i, j \in DOMAIN l : l[i] = s /\ l[j] = t
    BY <1>3
  <2>2. i < j \/ j < i
    BY <1>1, <1>5, <2>1
  <2> QED
    BY <2>1, <2>2 DEF Before
<1>6. ASSUME NEW s, NEW t, Before(l, s, t)
      PROVE  s # t /\ ~Before(l, t, s)
  <2>1. PICK i, j \in DOMAIN l : i < j /\ l[i] = s /\ l[j] = t
    BY <1>6 DEF Before
  <2>2. \A k \in DOMAIN l : (l[k] = s => k = i) /\ (l[k] = t => k = j)
    BY <1>1, <2>1 DEF Distinct
  <2>3. i \in Nat /\ j \in Nat
    BY <1>1
  <2> QED
    BY <2>1, <2>2, <2>3 DEF Before
<1> QED
  BY <1>4, <1>5, <1>6

LEMMA ClientMirrors ==
  ASSUME Separate, ClientInv
  PROVE  MirrorsTheServer
<1> SUFFICES ASSUME Settled PROVE MirrorsTheServer
  BY DEF MirrorsTheServer, ListIsTheServers, PanelsAreWatched
<1>1. link /\ ready /\ down = <<>> /\ up = <<>> /\ DOMAIN down = {}
  BY DEF Settled
<1>2. IsList(srv) /\ IsList(page.list) /\ IsView(page) /\ Base = page.list
  BY <1>1, BaseUp DEF ClientInv, ClientTypeOK, IsPage, Base
<1>3. \A x \in Ids : /\ x \in IdsOf(page.list) => x \in IdsOf(srv)
                     /\ x \in OwnIds => \A s \in Entries : s.id = x =>
                                          (s \in Range(page.list) <=> s \in Range(srv))
  BY <1>1, <1>2 DEF ClientInv, QuietIsTrue, Untouched
<1>4. /\ \A s \in Range(srv) : s \in Entries /\ s.id \in IdsOf(srv)
      /\ \A s \in Range(page.list) : s \in Entries /\ s.id \in IdsOf(page.list)
      /\ \A x \in OwnIds : x \in Ids
  BY <1>2, ListUp DEF Ids
<1>5. \A s : s \in Own(page.list) <=> s \in Own(srv)
  BY <1>3, <1>4 DEF Own
<1>6. \A a, b \in OwnIds : Precedes(srv, a, b) /\ b \in IdsOf(page.list) => Precedes(page.list, a, b)
  BY <1>1, <1>2 DEF ClientInv, InTheirOrder
<1>7. \A s \in Own(srv) : /\ s \in Range(srv) /\ s \in Range(page.list) /\ s.id \in OwnIds
                          /\ s.id \in IdsOf(page.list)
  BY <1>4, <1>5 DEF Own
<1>8. ASSUME NEW s \in Own(srv), NEW t \in Own(srv), Before(srv, s, t)
      PROVE  Before(page.list, s, t)
  <2>1. Precedes(srv, s.id, t.id)
    BY <1>2, <1>7, <1>8, BeforeUp
  <2>2. Precedes(page.list, s.id, t.id)
    BY <1>6, <1>7, <2>1
  <2> QED
    BY <1>2, <1>7, <2>2, BeforeUp
<1>9. ASSUME NEW s \in Own(srv), NEW t \in Own(srv), Before(page.list, s, t)
      PROVE  Before(srv, s, t)
  <2>1. s # t /\ ~Before(page.list, t, s)
    BY <1>2, <1>9, BeforeUp
  <2>2. ~Before(srv, t, s)
    BY <1>8, <2>1
  <2> QED
    BY <1>2, <1>7, <2>1, <2>2, BeforeUp
<1>10. IdsOf(page.list) \subseteq IdsOf(srv)
  BY <1>2, <1>3, IdsAreFew
<1>11. IF page.list = <<>> THEN page.active = None ELSE page.active \in IdsOf(page.list)
  BY <1>2 DEF IsView
<1>12. Own(page.list) = Own(srv)
  BY <1>5
<1>13. ListIsTheServers
  BY <1>8, <1>9, <1>10, <1>11, <1>12 DEF ListIsTheServers
<1>14. PanelsAreWatched
  <2>1. page.panels = IdsOf(page.list) /\ queue = <<>>
    BY <1>1, <1>2 DEF IsView, ClientInv, ReadyLeads
  <2>2. \A t, x : ~OnItsWay(t, x)
    BY <1>1 DEF OnItsWay, Range
  <2>3. \A x : x \notin Killed(queue)
    BY <2>1 DEF Killed
  <2>4. \A x \in OwnIds \cap IdsOf(page.list) : x \in watch \cup abandoned
    BY <1>1, <1>10, <2>2, <2>3 DEF ClientInv, PanelsAsk, Closing
  <2> QED
    BY <2>1, <2>4 DEF PanelsAreWatched
<1> QED
  BY <1>13, <1>14 DEF MirrorsTheServer

(* Whatever breaks, whoever starts, ends or closes sessions, and whatever    *)
(* the user asks for meanwhile: a page that has read everything shows the    *)
(* sessions of the server, in its order, and is delivered their output.      *)
THEOREM PageMirrorsServer ==
  ASSUME Separate
  PROVE  Spec => []MirrorsTheServer
<1>1. Init => ClientInv
  BY ClientStarts
<1>2. ClientInv /\ [Next]_svars => ClientInv'
  BY ClientSteps
<1>3. ClientInv => MirrorsTheServer
  BY ClientMirrors
<1> QED
  BY <1>1, <1>2, <1>3, PTL DEF Spec
=============================================================================
