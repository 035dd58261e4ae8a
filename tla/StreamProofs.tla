---------------------------- MODULE StreamProofs ----------------------------
(***************************************************************************)
(* Proofs about OutputStream and its RingBuffer, for any number of clients   *)
(* and any limits. What a client shows, what is under way to it and the      *)
(* server's cursor form a chain: each frame takes up where the one before    *)
(* it, or the panel, ends. The scrollback is shown a run first, chunk by     *)
(* chunk, through every append and trim; then every handler keeps the chain. *)
(***************************************************************************)
EXTENDS OutputStream, SequenceTheorems, WellFoundedInduction, TLAPS

-----------------------------------------------------------------------------
(* Runs: the characters from `from + 1` to `to`, in order.                   *)
Run(from, to) == [i \in 1..(to - from) |-> from + i]

(* A set of naturals has a least element: the induction the proofs below     *)
(* use.                                                                      *)
LEMMA LeastOf ==
  ASSUME NEW T, T \subseteq Nat, T # {}
  PROVE  \E x \in T : \A y \in T : x <= y
<1>1. PICK x \in T : \A y \in T : ~(<<y, x>> \in OpToRel(<, Nat))
  BY WFMin, NatLessThanWellFounded
<1>2. \A y \in T : ~(y < x)
  BY <1>1 DEF OpToRel
<1> QED
  BY <1>2

LEMMA RunFacts ==
  ASSUME NEW a \in Nat, NEW b \in Nat, a <= b
  PROVE  /\ Run(a, b) \in Seq(Nat) /\ Len(Run(a, b)) = b - a
         /\ DOMAIN Run(a, b) = 1..(b - a)
         /\ \A i \in 1..(b - a) : Run(a, b)[i] = a + i
<1>1. b - a \in Nat /\ \A i \in 1..(b - a) : a + i \in Nat
  OBVIOUS
<1>2. Run(a, b) \in [1..(b - a) -> Nat]
  BY <1>1 DEF Run
<1>3. Run(a, b) \in Seq(Nat)
  BY <1>1, <1>2, SeqDef
<1>4. DOMAIN Run(a, b) = 1..(b - a)
  BY DEF Run
<1>5. Len(Run(a, b)) = b - a
  BY <1>1, <1>3, <1>4, LenProperties
<1> QED
  BY <1>3, <1>4, <1>5 DEF Run

LEMMA RunEmpty ==
  ASSUME NEW a \in Nat
  PROVE  Run(a, a) = <<>>
BY RunFacts, EmptySeq

(* A run and the run that follows it are one run.                            *)
LEMMA RunConcat ==
  ASSUME NEW a \in Nat, NEW b \in Nat, NEW c \in Nat, a <= b, b <= c
  PROVE  Run(a, b) \o Run(b, c) = Run(a, c)
<1> DEFINE p == Run(a, b)
           q == Run(b, c)
<1>1. p \in Seq(Nat) /\ Len(p) = b - a /\ \A i \in 1..(b - a) : p[i] = a + i
  BY RunFacts
<1>2. q \in Seq(Nat) /\ Len(q) = c - b /\ \A i \in 1..(c - b) : q[i] = b + i
  BY RunFacts
<1>3. a <= c
  OBVIOUS
<1>4. Run(a, c) \in Seq(Nat) /\ Len(Run(a, c)) = c - a /\ \A i \in 1..(c - a) : Run(a, c)[i] = a + i
  BY <1>3, RunFacts
<1> HIDE DEF p, q
<1>5. /\ p \o q \in Seq(Nat) /\ Len(p \o q) = Len(p) + Len(q)
      /\ \A i \in 1..Len(p) + Len(q) : (p \o q)[i] = IF i <= Len(p) THEN p[i] ELSE q[i - Len(p)]
  BY <1>1, <1>2, ConcatProperties
<1>6. Len(p \o q) = c - a
  BY <1>1, <1>2, <1>5
<1>7. ASSUME NEW i \in 1..(c - a) PROVE (p \o q)[i] = a + i
  <2>0. i <= b - a \/ i > b - a
    OBVIOUS
  <2>1. CASE i <= b - a
    BY <1>1, <1>2, <1>5, <2>1
  <2>2. CASE i > b - a
    <3>1. i - (b - a) \in 1..(c - b)
      BY <2>2
    <3>2. (p \o q)[i] = q[i - (b - a)]
      BY <1>1, <1>2, <1>5, <2>2
    <3> QED
      BY <1>2, <3>1, <3>2
  <2> QED
    BY <2>0, <2>1, <2>2
<1>8. p \o q = Run(a, c)
  <2> DEFINE r == Run(a, c)
             s == p \o q
  <2>1. s \in Seq(Nat) /\ r \in Seq(Nat) /\ Len(s) = Len(r) /\ Len(s) = c - a
    BY <1>4, <1>5, <1>6
  <2>2. \A i \in 1..Len(s) : s[i] = r[i]
    BY <1>4, <1>7, <2>1
  <2> HIDE DEF r, s
  <2>3. s = r
    BY <2>1, <2>2, SeqEqual
  <2> QED
    BY <2>3 DEF r, s
<1> QED
  BY <1>8 DEF p, q

LEMMA RunSub ==
  ASSUME NEW a \in Nat, NEW b \in Nat, NEW n \in Nat, a <= b, n <= b - a
  PROVE  SubSeq(Run(a, b), n + 1, b - a) = Run(a + n, b)
<1> DEFINE p == Run(a, b)
           q == SubSeq(p, n + 1, b - a)
<1>1. p \in Seq(Nat) /\ \A i \in 1..(b - a) : p[i] = a + i
  BY RunFacts
<1>2. a + n \in Nat /\ a + n <= b /\ b - a \in Int /\ n + 1 \in Int
  OBVIOUS
<1>3. /\ Run(a + n, b) \in Seq(Nat) /\ Len(Run(a + n, b)) = b - (a + n)
      /\ \A i \in 1..(b - (a + n)) : Run(a + n, b)[i] = a + n + i
  BY <1>2, RunFacts
<1> HIDE DEF p
<1>4. \A i \in n + 1..b - a : p[i] \in Nat
  BY <1>1
<1>5. /\ q \in Seq(Nat) /\ Len(q) = IF n + 1 <= b - a THEN b - a - (n + 1) + 1 ELSE 0
      /\ \A i \in 1..b - a - (n + 1) + 1 : q[i] = p[n + 1 + i - 1]
  BY <1>2, <1>4, SubSeqProperties
<1>6. Len(q) = b - (a + n) /\ \A i \in 1..(b - (a + n)) : q[i] = a + n + i
  BY <1>1, <1>5
<1> DEFINE r == Run(a + n, b)
<1>7. q = r
  <2>1. r \in Seq(Nat) /\ Len(r) = Len(q) /\ \A i \in 1..Len(q) : q[i] = r[i]
    BY <1>3, <1>6
  <2> HIDE DEF q, r
  <2> QED
    BY <1>5, <2>1, SeqEqual
<1> QED
  BY <1>7 DEF p

-----------------------------------------------------------------------------
(* Chunks that are runs, each one where the one before it ended.             *)
IsRuns(chunks, o) ==
  /\ chunks \in Seq(Seq(Nat)) /\ o \in [1..(Len(chunks) + 1) -> Nat]
  /\ \A j \in 1..Len(chunks) : o[j] < o[j + 1] /\ chunks[j] = Run(o[j], o[j + 1])

LEMMA RunsAscend ==
  ASSUME NEW chunks, NEW o, IsRuns(chunks, o)
  PROVE  /\ Len(chunks) \in Nat
         /\ \A j \in 1..(Len(chunks) + 1) : o[j] \in Nat
         /\ \A i, j \in 1..(Len(chunks) + 1) : i < j => o[i] < o[j]
<1> DEFINE n == Len(chunks)
<1>1. n \in Nat /\ \A j \in 1..(n + 1) : o[j] \in Nat
  BY LenProperties DEF IsRuns
<1>2. ASSUME NEW i \in 1..(n + 1) PROVE \A j \in 1..(n + 1) : i < j => o[i] < o[j]
  <2> DEFINE T == {j \in 1..(n + 1) : i < j /\ ~(o[i] < o[j])}
  <2> SUFFICES ASSUME T # {} PROVE FALSE
    OBVIOUS
  <2>1. PICK j \in T : \A k \in T : j <= k
    <3>1. T \subseteq Nat
      BY <1>1
    <3> HIDE DEF T
    <3> QED
      BY <3>1, LeastOf
  <2>2. j - 1 \in 1..n /\ j - 1 \in 1..(n + 1) /\ j - 1 + 1 = j
    BY <1>1
  <2>3. o[j - 1] < o[j]
    BY <2>2 DEF IsRuns
  <2>4. j - 1 \notin T
    BY <2>1, <2>2
  <2>5. o[i] <= o[j - 1]
    BY <1>1, <2>2, <2>4
  <2> QED
    BY <1>1, <2>2, <2>3, <2>5
<1> QED
  BY <1>1, <1>2

(* Chunks that follow one another flatten to one run: induction on how many. *)
LEMMA FlattenRuns ==
  ASSUME NEW chunks, NEW o, IsRuns(chunks, o)
  PROVE  FlattenSeq(chunks) = Run(o[1], o[Len(chunks) + 1])
<1> DEFINE n == Len(chunks)
           G == [i \in 1..n |-> Run(o[1], o[i + 1])]
           Step(f) == [i \in 1..n |-> IF i = 1 THEN chunks[i] ELSE f[i - 1] \o chunks[i]]
           F == CHOOSE f : f = Step(f)
<1>0. /\ n \in Nat /\ \A j \in 1..(n + 1) : o[j] \in Nat
      /\ \A i, j \in 1..(n + 1) : i < j => o[i] < o[j]
  BY RunsAscend
<1>1. ASSUME NEW i \in 1..n, i # 1
      PROVE  i - 1 \in 1..n /\ Run(o[1], o[i]) \o chunks[i] = Run(o[1], o[i + 1])
  <2>1. i - 1 \in 1..n /\ i \in 1..(n + 1) /\ i + 1 \in 1..(n + 1) /\ 1 \in 1..(n + 1) /\ 1 < i
    BY <1>0, <1>1
  <2>2. o[1] <= o[i] /\ o[i] <= o[i + 1]
    BY <1>0, <2>1
  <2>3. chunks[i] = Run(o[i], o[i + 1])
    BY DEF IsRuns
  <2>4. o[1] \in Nat /\ o[i] \in Nat /\ o[i + 1] \in Nat
    BY <1>0, <2>1
  <2> QED
    BY <2>1, <2>2, <2>3, <2>4, RunConcat
<1>2. G = Step(G)
  <2>1. ASSUME NEW i \in 1..n
        PROVE  Run(o[1], o[i + 1]) = IF i = 1 THEN chunks[i] ELSE G[i - 1] \o chunks[i]
    <3>1. CASE i = 1
      BY <1>0, <3>1 DEF IsRuns
    <3>2. CASE i # 1
      <4>1. G[i - 1] = Run(o[1], o[i])
        BY <1>0, <1>1, <3>2
      <4> QED
        BY <1>1, <3>2, <4>1
    <3> QED
      BY <3>1, <3>2
  <2> QED
    BY <2>1
<1>3. ASSUME NEW f, f = Step(f) PROVE \A i \in 1..n : f[i] = G[i]
  <2> DEFINE T == {i \in 1..n : f[i] # G[i]}
  <2> SUFFICES ASSUME T # {} PROVE FALSE
    OBVIOUS
  <2>1. PICK i \in T : \A k \in T : i <= k
    <3>1. T \subseteq Nat
      BY <1>0
    <3> HIDE DEF T
    <3> QED
      BY <3>1, LeastOf
  <2>2. CASE i = 1
    BY <1>2, <1>3, <2>1, <2>2
  <2>3. CASE i # 1
    <3>1. i - 1 \in 1..n
      BY <1>1, <2>3
    <3>2. i - 1 \notin T
      BY <2>1, <3>1
    <3>3. f[i - 1] = G[i - 1]
      BY <3>1, <3>2
    <3>4. f[i] = f[i - 1] \o chunks[i]
      BY <1>3, <2>3
    <3>5. G[i] = G[i - 1] \o chunks[i]
      BY <1>2, <2>3
    <3> QED
      BY <2>1, <3>3, <3>4, <3>5
  <2> QED
    BY <2>2, <2>3
<1>4. F = Step(F)
  <2> HIDE DEF G
  <2> QED
    BY <1>2
<1>5. CASE n = 0
  <2>1. chunks = <<>>
    BY <1>5, EmptySeq DEF IsRuns
  <2> QED
    BY <1>0, <1>5, <2>1, RunEmpty DEF FlattenSeq
<1>6. CASE n # 0
  <2>1. F[n] = G[n]
    BY <1>0, <1>3, <1>4, <1>6
  <2>2. FlattenSeq(chunks) = F[n]
    BY <1>6 DEF FlattenSeq
  <2> QED
    BY <1>0, <1>6, <2>1, <2>2
<1> QED
  BY <1>5, <1>6

(* The first k chunks, and the rest.                                         *)
LEMMA SplitRuns ==
  ASSUME NEW chunks, NEW o, IsRuns(chunks, o), NEW k \in 0..Len(chunks)
  PROVE  /\ Characters(SubSeq(chunks, 1, k)) = o[k + 1] - o[1]
         /\ IsRuns(SubSeq(chunks, k + 1, Len(chunks)), [j \in 1..(Len(chunks) - k + 1) |-> o[j + k]])
         /\ Len(SubSeq(chunks, k + 1, Len(chunks))) = Len(chunks) - k
<1> DEFINE n  == Len(chunks)
           c1 == SubSeq(chunks, 1, k)
           o1 == [j \in 1..(k + 1) |-> o[j]]
           c2 == SubSeq(chunks, k + 1, n)
           o2 == [j \in 1..(n - k + 1) |-> o[j + k]]
<1>0. /\ n \in Nat /\ k \in 0..n /\ k \in Nat /\ \A j \in 1..(n + 1) : o[j] \in Nat
      /\ \A i, j \in 1..(n + 1) : i < j => o[i] < o[j]
  BY RunsAscend
<1>1. \A i \in 1..n : chunks[i] \in Seq(Nat) /\ o[i] < o[i + 1] /\ chunks[i] = Run(o[i], o[i + 1])
  BY ElementOfSeq DEF IsRuns
<1>2. c1 \in Seq(Seq(Nat)) /\ Len(c1) = k /\ \A i \in 1..k : c1[i] = chunks[i]
  <2>1. \A i \in 1..k : chunks[i] \in Seq(Nat)
    BY <1>0, <1>1
  <2>2. /\ c1 \in Seq(Seq(Nat)) /\ Len(c1) = IF 1 <= k THEN k - 1 + 1 ELSE 0
        /\ \A i \in 1..k - 1 + 1 : c1[i] = chunks[1 + i - 1]
    BY <1>0, <2>1, SubSeqProperties
  <2> QED
    BY <1>0, <2>2
<1>3. c2 \in Seq(Seq(Nat)) /\ Len(c2) = n - k /\ \A i \in 1..(n - k) : c2[i] = chunks[i + k]
  <2>1. \A i \in k + 1..n : chunks[i] \in Seq(Nat)
    BY <1>0, <1>1
  <2>2. k + 1 \in Int /\ n \in Int
    BY <1>0
  <2>3. /\ c2 \in Seq(Seq(Nat)) /\ Len(c2) = IF k + 1 <= n THEN n - (k + 1) + 1 ELSE 0
        /\ \A i \in 1..n - (k + 1) + 1 : c2[i] = chunks[k + 1 + i - 1]
    BY <2>1, <2>2, SubSeqProperties
  <2>4. \A i \in 1..(n - k) : i \in 1..n - (k + 1) + 1 /\ k + 1 + i - 1 = i + k
    BY <1>0
  <2> QED
    BY <1>0, <2>3, <2>4
<1>4. IsRuns(c1, o1)
  <2> HIDE DEF c1
  <2>1. o1 \in [1..(Len(c1) + 1) -> Nat]
    BY <1>0, <1>2
  <2>2. \A i \in 1..k : i \in 1..n /\ o1[i] = o[i] /\ o1[i + 1] = o[i + 1]
    BY <1>0
  <2> HIDE DEF o1
  <2>3. \A i \in 1..k : o1[i] < o1[i + 1] /\ c1[i] = Run(o1[i], o1[i + 1])
    BY <1>1, <1>2, <2>2
  <2> QED
    BY <1>2, <2>1, <2>3 DEF IsRuns
<1>5. IsRuns(c2, o2)
  <2> HIDE DEF c2
  <2>1. \A j \in 1..(n - k + 1) : j + k \in 1..(n + 1)
    BY <1>0
  <2>2. o2 \in [1..(Len(c2) + 1) -> Nat]
    BY <1>0, <1>3, <2>1
  <2>3. \A i \in 1..(n - k) : o2[i] = o[i + k] /\ o2[i + 1] = o[i + k + 1] /\ i + k \in 1..n
    BY <1>0
  <2> QED
    BY <1>0, <1>1, <1>3, <2>2, <2>3 DEF IsRuns
<1>6. Characters(c1) = o[k + 1] - o[1]
  <2> HIDE DEF c1
  <2>1. FlattenSeq(c1) = Run(o1[1], o1[k + 1])
    BY <1>2, <1>4, FlattenRuns
  <2>2. o1[1] = o[1] /\ o1[k + 1] = o[k + 1]
    BY <1>0
  <2>3. o[1] <= o[k + 1] /\ o[1] \in Nat /\ o[k + 1] \in Nat
    BY <1>0
  <2>4. Len(Run(o[1], o[k + 1])) = o[k + 1] - o[1]
    <3> DEFINE x == o[1]
               y == o[k + 1]
    <3>1. x \in Nat /\ y \in Nat /\ x <= y
      BY <2>3
    <3> HIDE DEF x, y
    <3>2. Len(Run(x, y)) = y - x
      BY <3>1, RunFacts
    <3> QED
      BY <3>2 DEF x, y
  <2> QED
    BY <2>1, <2>2, <2>4 DEF Characters
<1> QED
  BY <1>3, <1>5, <1>6

-----------------------------------------------------------------------------
(* A buffer whose chunks are a run, from what was dropped to what was ever   *)
(* written.                                                                  *)
IsBuffer(b) ==
  /\ b \in [chunks : Seq(Seq(Nat)), seq : Nat, dropped : Nat, size : Nat]
  /\ b.dropped <= b.seq /\ b.size = b.seq - b.dropped
  /\ \E o : IsRuns(b.chunks, o) /\ o[1] = b.dropped /\ o[Len(b.chunks) + 1] = b.seq

LEMMA BufferHolds ==
  ASSUME NEW b, IsBuffer(b)
  PROVE  FlattenSeq(b.chunks) = Run(b.dropped, b.seq)
BY FlattenRuns DEF IsBuffer

LEMMA ShiftedIs ==
  ASSUME NEW b, IsBuffer(b), b.chunks # <<>>,
         NEW o, IsRuns(b.chunks, o), o[1] = b.dropped, o[Len(b.chunks) + 1] = b.seq
  PROVE  LET k == ShiftedChunks(b) IN
         /\ k \in 0..(Len(b.chunks) - 1)
         /\ b.size - (o[k + 1] - o[1]) <= MaxBytes \/ k = Len(b.chunks) - 1
<1> DEFINE n == Len(b.chunks)
           Fits(j) == \/ b.size - Characters(SubSeq(b.chunks, 1, j)) <= MaxBytes
                      \/ j = n - 1
           T == {j \in 0..(n - 1) : Fits(j)}
<1>1. n \in Nat \ {0}
  BY EmptySeq DEF IsBuffer
<1>2. n - 1 \in T
  BY <1>1
<1>3. PICK k \in T : \A j \in T : k <= j
  <2>1. T \subseteq Nat
    BY <1>1
  <2> HIDE DEF T
  <2> QED
    BY <1>2, <2>1, LeastOf
<1>4. \E x \in 0..(n - 1) : Fits(x) /\ \A j \in 0..(x - 1) : ~Fits(j)
  <2>1. k \in 0..(n - 1) /\ Fits(k)
    BY <1>3
  <2>2. ASSUME NEW j \in 0..(k - 1) PROVE ~Fits(j)
    <3>1. j \in 0..(n - 1) /\ ~(k <= j)
      BY <1>1, <2>1
    <3> HIDE DEF Fits
    <3> QED
      BY <1>3, <3>1
  <2> HIDE DEF Fits, T
  <2> QED
    BY <2>1, <2>2
<1>5. ShiftedChunks(b) = CHOOSE x \in 0..(n - 1) : Fits(x) /\ \A j \in 0..(x - 1) : ~Fits(j)
  BY DEF ShiftedChunks
<1>6. ShiftedChunks(b) \in 0..(n - 1) /\ Fits(ShiftedChunks(b))
  <2> HIDE DEF Fits
  <2> QED
    BY <1>4, <1>5
<1> DEFINE s == ShiftedChunks(b)
<1> HIDE DEF s
<1>7. s \in 0..(n - 1) /\ s \in 0..n /\ Fits(s)
  BY <1>1, <1>6 DEF s
<1>8. Characters(SubSeq(b.chunks, 1, s)) = o[s + 1] - o[1]
  BY <1>7, SplitRuns
<1> QED
  BY <1>7, <1>8 DEF s

LEMMA MakeBuffer ==
  ASSUME NEW chunks, NEW o, IsRuns(chunks, o),
         NEW b \in [chunks : {chunks}, seq : {o[Len(chunks) + 1]}, dropped : {o[1]},
                     size : {o[Len(chunks) + 1] - o[1]}]
  PROVE  IsBuffer(b)
<1>1. chunks \in Seq(Seq(Nat)) /\ Len(chunks) \in Nat
  BY LenProperties DEF IsRuns
<1>2. /\ o[1] \in Nat /\ o[Len(chunks) + 1] \in Nat /\ o[1] <= o[Len(chunks) + 1]
  BY <1>1, RunsAscend
<1>3. b.chunks = chunks /\ b.dropped = o[1] /\ b.seq = o[Len(chunks) + 1] /\ b.size = b.seq - b.dropped
  OBVIOUS
<1>4. b \in [chunks : Seq(Seq(Nat)), seq : Nat, dropped : Nat, size : Nat]
  BY <1>1, <1>2
<1> QED
  BY <1>2, <1>3, <1>4 DEF IsBuffer

(* One chunk, that is a run.                                                 *)
LEMMA OneRun ==
  ASSUME NEW a \in Nat, NEW z \in Nat, a < z
  PROVE  IsRuns(<<Run(a, z)>>, <<a, z>>) /\ Len(<<Run(a, z)>>) = 1
<1>1. Run(a, z) \in Seq(Nat)
  BY RunFacts
<1> DEFINE r == Run(a, z)
<1> HIDE DEF r
<1>2. <<r>> \in Seq(Seq(Nat)) /\ Len(<<r>>) = 1 /\ <<r>>[1] = r
  BY <1>1 DEF r
<1>3. <<a, z>> \in [1..2 -> Nat] /\ <<a, z>>[1] = a /\ <<a, z>>[2] = z
  OBVIOUS
<1>4. IsRuns(<<r>>, <<a, z>>)
  BY <1>2, <1>3 DEF IsRuns, r
<1> QED
  BY <1>2, <1>4 DEF r

(* Trimming leaves a buffer of runs that fits, whether it shifts chunks,     *)
(* cuts one, or both.                                                        *)
LEMMA TrimKeeps ==
  ASSUME NEW b, IsBuffer(b), b.chunks # <<>>, MaxBytes \in Nat \ {0}
  PROVE  /\ IsBuffer(Trim(b)) /\ Trim(b).seq = b.seq
         /\ Trim(b).size <= MaxBytes /\ Trim(b).size > 0
<1> DEFINE n == Len(b.chunks)
           k == ShiftedChunks(b)
           gone == Characters(SubSeq(b.chunks, 1, k))
           over == IF b.size - gone > MaxBytes THEN b.size - gone - MaxBytes ELSE 0
           kept == SubSeq(b.chunks, k + 1, Len(b.chunks))
           left == IF over = 0 THEN kept ELSE <<SubSeq(kept[1], over + 1, Len(kept[1]))>>
           t == Trim(b)
<1>1. PICK o : IsRuns(b.chunks, o) /\ o[1] = b.dropped /\ o[n + 1] = b.seq
  BY DEF IsBuffer
<1>2. /\ n \in Nat \ {0} /\ \A j \in 1..(n + 1) : o[j] \in Nat
      /\ \A i, j \in 1..(n + 1) : i < j => o[i] < o[j]
  BY <1>1, RunsAscend, EmptySeq DEF IsBuffer
<1>3. k \in 0..(n - 1) /\ (b.size - (o[k + 1] - o[1]) <= MaxBytes \/ k = n - 1)
  BY <1>1, ShiftedIs
<1>5. t \in [chunks : {left}, seq : {b.seq}, dropped : {b.dropped + gone + over},
              size : {b.size - gone - over}]
  BY DEF Trim, IsBuffer
<1> DEFINE o2 == [j \in 1..(n - k + 1) |-> o[j + k]]
<1> HIDE DEF k
<1>4. Characters(SubSeq(b.chunks, 1, k)) = o[k + 1] - o[1] /\ IsRuns(kept, o2) /\ Len(kept) = n - k
  <2>1. k \in 0..n
    BY <1>2, <1>3
  <2> QED
    BY <1>1, <2>1, SplitRuns
<1>6. /\ o[1] \in Nat /\ o[k + 1] \in Nat /\ o[n + 1] \in Nat
      /\ o[1] <= o[k + 1] /\ o[k + 1] < o[n + 1]
  BY <1>2, <1>3
<1>7. o2[1] = o[k + 1] /\ o2[n - k + 1] = o[n + 1]
  <2>1. 1 \in 1..(n - k + 1) /\ n - k + 1 \in 1..(n - k + 1) /\ n - k + 1 + k = n + 1 /\ 1 + k = k + 1
    BY <1>2, <1>3
  <2> QED
    BY <2>1
<1>8. b.size = o[n + 1] - o[1] /\ gone = o[k + 1] - o[1] /\ b.dropped = o[1] /\ b.seq = o[n + 1]
  BY <1>1, <1>4 DEF IsBuffer
<1> HIDE DEF gone, kept, t, o2
<1>9. CASE b.size - gone <= MaxBytes
  <2>1. over = 0 /\ left = kept
    BY <1>6, <1>8, <1>9
  <2>2. t \in [chunks : {kept}, seq : {o2[Len(kept) + 1]}, dropped : {o2[1]},
                size : {o2[Len(kept) + 1] - o2[1]}]
    BY <1>4, <1>5, <1>6, <1>7, <1>8, <2>1
  <2>3. IsBuffer(t)
    BY <1>4, <2>2, MakeBuffer
  <2>4. t.seq = b.seq /\ t.size <= MaxBytes /\ t.size > 0
    BY <1>6, <1>5, <1>8, <1>9, <2>1
  <2> QED
    BY <2>3, <2>4 DEF t
<1>10. CASE b.size - gone > MaxBytes
  <2>1. k = n - 1 /\ over = o[n + 1] - o[n] - MaxBytes
    BY <1>2, <1>3, <1>6, <1>8, <1>10
  <2>0. n - k = 1 /\ k + 1 = n
    BY <1>2, <2>1
  <2>4. o[n] \in Nat /\ o[n] <= o[n + 1] /\ o[n + 1] \in Nat
    BY <1>6, <2>0
  <2>16. over > 0
    BY <1>6, <1>8, <1>10
  <2>2. n - k = 1 /\ k + 1 = n /\ over # 0 /\ over \in Nat /\ over < o[n + 1] - o[n]
    <3> HIDE DEF over
    <3> QED
      BY <2>0, <2>1, <2>4, <2>16
  <2>3. kept[1] = Run(o[n], o[n + 1])
    BY <1>4, <1>7, <2>2 DEF IsRuns
  <2>5. Len(kept[1]) = o[n + 1] - o[n]
    BY <2>3, <2>4, RunFacts
  <2>6. SubSeq(kept[1], over + 1, Len(kept[1])) = Run(o[n] + over, o[n + 1])
    <3> HIDE DEF over
    <3>1. over <= o[n + 1] - o[n]
      BY <2>2, <2>4
    <3>2. SubSeq(Run(o[n], o[n + 1]), over + 1, o[n + 1] - o[n]) = Run(o[n] + over, o[n + 1])
      BY <2>2, <2>4, <3>1, RunSub
    <3> QED
      BY <2>3, <2>5, <3>2
  <2> DEFINE a == o[n] + over
             z == o[n + 1]
  <2>7. left = <<Run(a, z)>>
    BY <2>2, <2>6
  <2>8. a \in Nat /\ z \in Nat /\ a < z /\ z - a = MaxBytes
    BY <2>1, <2>2, <2>4
  <2>9. b.dropped + gone + over = a /\ b.size - gone - over = z - a /\ b.seq = z
    <3> HIDE DEF over
    <3> QED
      BY <1>6, <1>8, <2>0, <2>2, <2>4
  <2>10. t \in [chunks : {<<Run(a, z)>>}, seq : {z}, dropped : {a}, size : {z - a}]
    BY <1>5, <2>7, <2>9
  <2> HIDE DEF a, z, over, left
  <2>11. IsRuns(<<Run(a, z)>>, <<a, z>>) /\ Len(<<Run(a, z)>>) = 1
    BY <2>8, OneRun
  <2> DEFINE c == <<Run(a, z)>>
             p == <<a, z>>
  <2>12. p[1] = a /\ p[Len(c) + 1] = z
    BY <2>11
  <2>13. t \in [chunks : {c}, seq : {p[Len(c) + 1]}, dropped : {p[1]}, size : {p[Len(c) + 1] - p[1]}]
    BY <2>10, <2>12
  <2>14. IsBuffer(t)
    <3> HIDE DEF c, p
    <3>1. IsRuns(c, p)
      BY <2>11 DEF c, p
    <3> QED
      BY <2>13, <3>1, MakeBuffer
  <2>15. t.seq = b.seq /\ t.size <= MaxBytes /\ t.size > 0
    BY <2>8, <2>9, <2>10
  <2> QED
    BY <2>14, <2>15 DEF t
<1>11. b.size - gone <= MaxBytes \/ b.size - gone > MaxBytes
  BY <1>6, <1>8
<1> QED
  BY <1>9, <1>10, <1>11

(* What is appended continues the run, and the buffer fits.                  *)
LEMMA AppendedKeeps ==
  ASSUME NEW b, IsBuffer(b), b.size <= MaxBytes, MaxBytes \in Nat \ {0},
         NEW to \in Nat, b.seq <= to
  PROVE  /\ IsBuffer(Appended(b, Run(b.seq, to))) /\ Appended(b, Run(b.seq, to)).seq = to
         /\ Appended(b, Run(b.seq, to)).size <= MaxBytes
         /\ b.seq = to => Appended(b, Run(b.seq, to)) = b
<1> DEFINE d == Run(b.seq, to)
           more == [b EXCEPT !.chunks = @ \o <<d>>, !.size = @ + Len(d), !.seq = @ + Len(d)]
<1>1. b.seq \in Nat /\ b.chunks \in Seq(Seq(Nat)) /\ b.size = b.seq - b.dropped
  BY DEF IsBuffer
<1>2. d \in Seq(Nat) /\ Len(d) = to - b.seq
  BY <1>1, RunFacts
<1>3. CASE b.seq = to
  <2>1. d = <<>>
    BY <1>1, <1>3, RunEmpty
  <2>2. Appended(b, d) = b
    BY <2>1 DEF Appended
  <2> QED
    BY <1>3, <2>2
<1>4. CASE b.seq # to
  <2>1. b.seq < to /\ d # <<>>
    BY <1>1, <1>2, <1>4, EmptySeq
  <2> DEFINE c == b.chunks \o <<d>>
             n == Len(b.chunks)
  <2>2. PICK o : IsRuns(b.chunks, o) /\ o[1] = b.dropped /\ o[n + 1] = b.seq
    BY DEF IsBuffer
  <2>3. n \in Nat /\ \A j \in 1..(n + 1) : o[j] \in Nat
    BY <2>2, RunsAscend
  <2> DEFINE p == [j \in 1..(n + 2) |-> IF j = n + 2 THEN to ELSE o[j]]
  <2> HIDE DEF d
  <2>4. c \in Seq(Seq(Nat)) /\ Len(c) = n + 1 /\ \A j \in 1..(n + 1) : c[j] = IF j <= n THEN b.chunks[j] ELSE d
    <3>1. <<d>> \in Seq(Seq(Nat)) /\ Len(<<d>>) = 1 /\ <<d>>[1] = d
      BY <1>2
    <3> DEFINE e == <<d>>
    <3> HIDE DEF e
    <3>2. /\ b.chunks \o e \in Seq(Seq(Nat)) /\ Len(b.chunks \o e) = n + 1
          /\ \A j \in 1..(n + 1) : (b.chunks \o e)[j] = IF j <= n THEN b.chunks[j] ELSE e[j - n]
      BY <1>1, <3>1, ConcatProperties DEF e
    <3>3. \A j \in 1..(n + 1) : ~(j <= n) => e[j - n] = d
      BY <2>3, <3>1 DEF e
    <3> QED
      BY <3>2, <3>3 DEF e
  <2>5. IsRuns(c, p)
    <3> HIDE DEF c
    <3>1. p \in [1..(Len(c) + 1) -> Nat]
      BY <2>3, <2>4
    <3>2. ASSUME NEW j \in 1..(n + 1) PROVE p[j] < p[j + 1] /\ c[j] = Run(p[j], p[j + 1])
      <4>1. CASE j <= n
        <5>1. j \in 1..n /\ p[j] = o[j] /\ p[j + 1] = o[j + 1] /\ c[j] = b.chunks[j]
          BY <2>3, <2>4, <4>1
        <5> QED
          BY <2>2, <5>1 DEF IsRuns
      <4>2. CASE ~(j <= n)
        <5>1. j = n + 1 /\ j # n + 2 /\ j + 1 = n + 2
          BY <2>3, <4>2
        <5>2. p[j] = o[n + 1] /\ p[j + 1] = to
          BY <2>3, <5>1
        <5>3. o[n + 1] = b.seq /\ c[j] = d
          BY <2>2, <2>4, <4>2
        <5> QED
          BY <2>1, <5>2, <5>3 DEF d
      <4> QED
        BY <4>1, <4>2
    <3> HIDE DEF p
    <3> QED
      BY <2>4, <3>1, <3>2 DEF IsRuns
  <2>6. p[1] = b.dropped /\ p[Len(c) + 1] = to
    BY <2>2, <2>3, <2>4
  <2>7. more \in [chunks : {c}, seq : {b.seq + Len(d)}, dropped : {b.dropped}, size : {b.size + Len(d)}]
    BY DEF IsBuffer
  <2>8. b.seq + Len(d) = to /\ b.size + Len(d) = to - b.dropped /\ b.dropped \in Nat
    BY <1>1, <1>2 DEF IsBuffer
  <2> HIDE DEF more
  <2>9. more \in [chunks : {c}, seq : {p[Len(c) + 1]}, dropped : {p[1]}, size : {p[Len(c) + 1] - p[1]}]
    BY <2>6, <2>7, <2>8
  <2>10. more.chunks = c /\ more.seq = to
    BY <2>7, <2>8
  <2>11. c # <<>>
    BY <2>3, <2>4, EmptySeq
  <2> HIDE DEF c, p
  <2>12. IsBuffer(more)
    BY <2>5, <2>9, MakeBuffer
  <2>13. Appended(b, d) = Trim(more)
    BY <2>1 DEF Appended, more
  <2> QED
    BY <1>4, <2>10, <2>11, <2>12, <2>13, TrimKeeps DEF d
<1> QED
  BY <1>3, <1>4

(* What a client that has the first `from` characters is sent.               *)
LEMMA SinceIs ==
  ASSUME NEW b, IsBuffer(b), NEW from \in Nat
  PROVE  /\ Since(b, from).seq = b.seq
         /\ from >= b.seq => Since(b, from).data = <<>> /\ Since(b, from).truncated = FALSE
         /\ from < b.seq => /\ Since(b, from).data = Run(Maximum(from, b.dropped), b.seq)
                            /\ Since(b, from).truncated = (from > 0 /\ from < b.dropped)
<1> DEFINE m == Maximum(from, b.dropped)
           s == Since(b, from)
<1>1. b.dropped \in Nat /\ b.seq \in Nat /\ b.dropped <= b.seq
  BY DEF IsBuffer
<1>2. CASE from >= b.seq
  <2>1. s = [data |-> <<>>, seq |-> b.seq, truncated |-> FALSE]
    BY <1>2 DEF Since
  <2>2. s.seq = b.seq /\ s.data = <<>> /\ s.truncated = FALSE /\ ~(from < b.seq)
    BY <1>1, <1>2, <2>1
  <2> QED
    BY <2>2
<1>3. CASE from < b.seq
  <2> DEFINE count == b.seq - m
  <2>0. s = [data |-> TailOf(b, count), seq |-> b.seq, truncated |-> from > 0 /\ from < b.dropped]
    BY <1>1, <1>3 DEF Since
  <2>1. m \in Nat /\ b.dropped <= m /\ m <= b.seq
    BY <1>1, <1>3 DEF Maximum
  <2> HIDE DEF m
  <2> DEFINE r == Run(b.dropped, b.seq)
  <2>2. FlattenSeq(b.chunks) = r
    BY BufferHolds
  <2>3. Len(r) = b.seq - b.dropped
    BY <1>1, RunFacts
  <2>4. count \in Nat
    BY <1>1, <2>1
  <2> HIDE DEF r
  <2>5. TailOf(b, count) = IF Len(r) > count THEN SubSeq(r, Len(r) - count + 1, Len(r)) ELSE r
    BY <2>2 DEF TailOf
  <2>6. TailOf(b, count) = Run(m, b.seq)
    <3> DEFINE n == m - b.dropped
    <3>1. n \in Nat /\ n <= b.seq - b.dropped /\ b.dropped + n = m /\ Len(r) - count = n
      BY <1>1, <2>1, <2>3
    <3>2. CASE Len(r) > count
      <4> HIDE DEF n
      <4>1. SubSeq(Run(b.dropped, b.seq), n + 1, b.seq - b.dropped) = Run(b.dropped + n, b.seq)
        BY <1>1, <3>1, RunSub
      <4> QED
        BY <2>3, <2>5, <3>1, <3>2, <4>1 DEF r
    <3>3. CASE ~(Len(r) > count)
      <4>1. m = b.dropped
        BY <1>1, <2>1, <2>3, <3>3
      <4> QED
        BY <2>5, <3>3, <4>1 DEF r
    <3> QED
      BY <3>2, <3>3
  <2>7. s.seq = b.seq /\ s.data = Run(m, b.seq) /\ s.truncated = (from > 0 /\ from < b.dropped)
    BY <2>0, <2>6
  <2>8. ~(from >= b.seq)
    BY <1>1, <1>3
  <2> QED
    BY <2>7, <2>8 DEF m
<1>4. from >= b.seq \/ from < b.seq
  BY <1>1
<1> QED
  BY <1>2, <1>3, <1>4

-----------------------------------------------------------------------------
(* Frames on their way. A frame moves a client that has the first p          *)
(* characters on to q: it holds what comes after p, or says that there is a  *)
(* gap, or meets a panel that is empty.                                      *)
Frames == [t : {"output", "snapshot", "ready", "session", "closed"},
           seq : Int, data : Seq(Nat), flag : BOOLEAN]

Continues(p, f) ==
  /\ f.seq \in Nat /\ p <= f.seq
  /\ \E a \in 0..f.seq : f.data = Run(a, f.seq) /\ (f.flag \/ a = p \/ p = 0)
Moves(p, f, q) == IF IsData(f) THEN Continues(p, f) /\ q = f.seq ELSE q = p

Chain(fs, p, q) ==
  \E w \in [1..(Len(fs) + 1) -> Nat] :
    /\ w[1] = p /\ w[Len(fs) + 1] = q
    /\ \A i \in 1..Len(fs) : Moves(w[i], fs[i], w[i + 1])
NoData(fs) == \A i \in 1..Len(fs) : ~IsData(fs[i])

LEMMA FramesMore ==
  ASSUME NEW fs \in Seq(Frames), NEW f \in Frames
  PROVE  /\ fs \o <<f>> \in Seq(Frames) /\ Len(fs \o <<f>>) = Len(fs) + 1 /\ Len(fs) \in Nat
         /\ \A i \in 1..(Len(fs) + 1) : (fs \o <<f>>)[i] = IF i <= Len(fs) THEN fs[i] ELSE f
         /\ fs \o <<f>> # <<>>
<1>1. <<f>> \in Seq(Frames) /\ Len(<<f>>) = 1 /\ <<f>>[1] = f
  OBVIOUS
<1> DEFINE e == <<f>>
<1> HIDE DEF e
<1>2. /\ fs \o e \in Seq(Frames) /\ Len(fs \o e) = Len(fs) + 1 /\ Len(fs) \in Nat
      /\ \A i \in 1..(Len(fs) + 1) : (fs \o e)[i] = IF i <= Len(fs) THEN fs[i] ELSE e[i - Len(fs)]
  BY <1>1, ConcatProperties, LenProperties DEF e
<1>3. \A i \in 1..(Len(fs) + 1) : ~(i <= Len(fs)) => e[i - Len(fs)] = f
  BY <1>1, <1>2 DEF e
<1>4. fs \o e # <<>>
  BY <1>2, EmptySeq
<1> QED
  BY <1>2, <1>3, <1>4 DEF e

LEMMA FramesTail ==
  ASSUME NEW fs \in Seq(Frames), fs # <<>>
  PROVE  /\ Head(fs) \in Frames /\ Head(fs) = fs[1] /\ Tail(fs) \in Seq(Frames)
         /\ Len(fs) \in Nat \ {0} /\ Len(Tail(fs)) = Len(fs) - 1
         /\ \A i \in 1..(Len(fs) - 1) : Tail(fs)[i] = fs[i + 1]
BY HeadTailProperties, EmptySeq

LEMMA ChainNone ==
  ASSUME NEW fs \in Seq(Frames), NoData(fs), NEW p \in Nat
  PROVE  Chain(fs, p, p)
<1> DEFINE w == [i \in 1..(Len(fs) + 1) |-> p]
<1>1. Len(fs) \in Nat /\ w \in [1..(Len(fs) + 1) -> Nat]
  BY LenProperties
<1>2. w[1] = p /\ w[Len(fs) + 1] = p /\ \A i \in 1..Len(fs) : Moves(w[i], fs[i], w[i + 1])
  BY <1>1 DEF Moves, NoData
<1> QED
  BY <1>1, <1>2 DEF Chain

LEMMA ChainMore ==
  ASSUME NEW fs \in Seq(Frames), NEW f \in Frames, NEW p, NEW q, NEW r \in Nat,
         Chain(fs, p, q), Moves(q, f, r)
  PROVE  Chain(fs \o <<f>>, p, r)
<1> DEFINE n == Len(fs)
           g == fs \o <<f>>
<1>1. PICK w \in [1..(n + 1) -> Nat] :
        w[1] = p /\ w[n + 1] = q /\ \A i \in 1..n : Moves(w[i], fs[i], w[i + 1])
  BY DEF Chain
<1>2. n \in Nat /\ Len(g) = n + 1 /\ \A i \in 1..(n + 1) : g[i] = IF i <= n THEN fs[i] ELSE f
  BY FramesMore
<1> HIDE DEF g
<1> DEFINE v == [i \in 1..(n + 2) |-> IF i = n + 2 THEN r ELSE w[i]]
<1>3. v \in [1..(Len(g) + 1) -> Nat] /\ v[1] = p /\ v[Len(g) + 1] = r
  BY <1>1, <1>2
<1>4. ASSUME NEW i \in 1..(n + 1) PROVE Moves(v[i], g[i], v[i + 1])
  <2>1. CASE i <= n
    <3>1. v[i] = w[i] /\ v[i + 1] = w[i + 1] /\ g[i] = fs[i] /\ i \in 1..n
      BY <1>2, <2>1
    <3> QED
      BY <1>1, <3>1
  <2>2. CASE ~(i <= n)
    <3>1. i = n + 1 /\ v[i] = q /\ v[i + 1] = r /\ g[i] = f
      BY <1>1, <1>2, <2>2
    <3> QED
      BY <3>1
  <2> QED
    BY <2>1, <2>2
<1> HIDE DEF v
<1>5. Chain(g, p, r)
  BY <1>2, <1>3, <1>4 DEF Chain
<1> QED
  BY <1>5 DEF g

(* What reads the first frame of a chain stands where the rest of it begins. *)
LEMMA ChainHead ==
  ASSUME NEW fs \in Seq(Frames), fs # <<>>, NEW p, NEW q, Chain(fs, p, q)
  PROVE  \E m \in Nat : Moves(p, Head(fs), m) /\ Chain(Tail(fs), m, q)
<1> DEFINE n == Len(fs)
           g == Tail(fs)
<1>1. PICK w \in [1..(n + 1) -> Nat] :
        w[1] = p /\ w[n + 1] = q /\ \A i \in 1..n : Moves(w[i], fs[i], w[i + 1])
  BY DEF Chain
<1>2. n \in Nat \ {0} /\ Head(fs) = fs[1] /\ Len(g) = n - 1 /\ \A i \in 1..(n - 1) : g[i] = fs[i + 1]
  BY FramesTail
<1> HIDE DEF g
<1> DEFINE v == [i \in 1..n |-> w[i + 1]]
<1>3. Len(g) + 1 = n /\ v \in [1..n -> Nat] /\ v[1] = w[2] /\ v[n] = q /\ w[2] \in Nat
  BY <1>1, <1>2
<1>4. ASSUME NEW i \in 1..(n - 1) PROVE Moves(v[i], g[i], v[i + 1])
  <2>1. v[i] = w[i + 1] /\ v[i + 1] = w[i + 1 + 1] /\ g[i] = fs[i + 1] /\ i + 1 \in 1..n
    BY <1>2
  <2> QED
    BY <1>1, <2>1
<1> HIDE DEF v
<1>5. Chain(g, w[2], q)
  BY <1>2, <1>3, <1>4 DEF Chain
<1>6. Moves(p, fs[1], w[2])
  <2>1. 1 \in 1..n /\ 1 + 1 = 2
    BY <1>2
  <2> QED
    BY <1>1, <2>1
<1> QED
  BY <1>2, <1>3, <1>5, <1>6 DEF g

(* The end of a chain is the end of its last data frame.                     *)
LEMMA ChainEnd ==
  ASSUME NEW fs \in Seq(Frames), NEW p, NEW q, Chain(fs, p, q)
  PROVE  LET sent == {i \in DOMAIN fs : IsData(fs[i])} IN
         q = IF sent = {} THEN p ELSE fs[CHOOSE i \in sent : \A j \in sent : j <= i].seq
<1> DEFINE n == Len(fs)
           sent == {i \in DOMAIN fs : IsData(fs[i])}
<1>1. PICK w \in [1..(n + 1) -> Nat] :
        w[1] = p /\ w[n + 1] = q /\ \A i \in 1..n : Moves(w[i], fs[i], w[i + 1])
  BY DEF Chain
<1>2. n \in Nat /\ DOMAIN fs = 1..n
  BY LenProperties
<1>3. ASSUME NEW k \in 1..(n + 1), \A i \in k..n : ~IsData(fs[i]) PROVE q = w[k]
  <2> DEFINE T == {i \in k..(n + 1) : w[i] # w[k]}
  <2> SUFFICES ASSUME T # {} PROVE FALSE
    BY <1>1, <1>2
  <2>1. PICK i \in T : \A j \in T : i <= j
    <3>1. T \subseteq Nat
      BY <1>2
    <3> HIDE DEF T
    <3> QED
      BY <3>1, LeastOf
  <2>2. i - 1 \in k..n /\ i - 1 \in 1..n /\ i - 1 + 1 = i
    BY <1>2
  <2>3. w[i - 1] = w[k]
    BY <2>1, <2>2
  <2>4. w[i] = w[i - 1]
    BY <1>1, <1>3, <2>2 DEF Moves
  <2> QED
    BY <2>3, <2>4
<1>4. CASE sent = {}
  BY <1>1, <1>2, <1>3, <1>4
<1>5. CASE sent # {}
  <2> DEFINE U == {k \in 0..n : n - k \in sent}
  <2>1. PICK x \in U : \A k \in U : x <= k
    <3>1. PICK y \in sent : TRUE
      BY <1>5
    <3>2. n - y \in U /\ U \subseteq Nat
      BY <1>2, <3>1
    <3> HIDE DEF U
    <3> QED
      BY <3>2, LeastOf
  <2> DEFINE l == n - x
  <2>2. l \in sent
    BY <2>1
  <2>3. ASSUME NEW j \in sent PROVE j <= l
    <3>1. j \in 1..n /\ n - j \in U
      BY <1>2
    <3>2. x <= n - j
      BY <2>1, <3>1
    <3> QED
      BY <1>2, <3>1, <3>2
  <2>4. (CHOOSE i \in sent : \A j \in sent : j <= i) = l
    <3> DEFINE z == CHOOSE i \in sent : \A j \in sent : j <= i
    <3> HIDE DEF sent, l
    <3>1. z \in sent /\ \A j \in sent : j <= z
      BY <2>2, <2>3
    <3>2. z <= l /\ l <= z
      BY <2>2, <2>3, <3>1
    <3>3. z \in Int /\ l \in Int
      BY <1>2, <2>2, <3>1 DEF sent
    <3> QED
      BY <3>2, <3>3
  <2>5. l \in 1..n /\ l + 1 \in 1..(n + 1) /\ \A i \in l + 1..n : ~IsData(fs[i])
    BY <1>2, <2>2, <2>3
  <2>6. q = w[l + 1]
    BY <1>3, <2>5
  <2>7. w[l + 1] = fs[l].seq
    BY <1>1, <2>2, <2>5 DEF Moves
  <2> QED
    BY <1>5, <2>4, <2>6, <2>7
<1> QED
  BY <1>4, <1>5

-----------------------------------------------------------------------------
(* The source: what was written is in the scrollback or pending, and when    *)
(* the process has exited, all in the scrollback.                            *)
SourceInv ==
  /\ IsBuffer(ring) /\ ring.size <= MaxBytes
  /\ made \in Nat /\ ring.seq <= made /\ pending = Run(ring.seq, made)
  /\ session # "running" => ring.seq = made

LEMMA SourceInit == Init => SourceInv
<1> SUFFICES ASSUME Init PROVE SourceInv
  OBVIOUS
<1> DEFINE o == [j \in 1..1 |-> 0]
<1>1. ring = EmptyBuffer /\ made = 0 /\ pending = <<>> /\ MaxBytes \in Nat \ {0}
  BY MaxBytesAssumption DEF Init
<1>2. <<>> \in Seq(Seq(Nat)) /\ Len(<<>>) = 0
  BY EmptySeq
<1>3. o \in [1..1 -> Nat] /\ o[1] = 0
  OBVIOUS
<1>4. IsRuns(<<>>, o)
  <2> HIDE DEF o
  <2> QED
    BY <1>2, <1>3 DEF IsRuns
<1>5. EmptyBuffer \in [chunks : {<<>>}, seq : {o[Len(<<>>) + 1]}, dropped : {o[1]},
                       size : {o[Len(<<>>) + 1] - o[1]}]
  BY <1>2, <1>3 DEF EmptyBuffer
<1>6. IsBuffer(EmptyBuffer)
  <2> HIDE DEF o
  <2> QED
    BY <1>4, <1>5, MakeBuffer
<1>7. EmptyBuffer.size = 0 /\ EmptyBuffer.seq = 0
  BY DEF EmptyBuffer
<1>8. pending = Run(0, 0)
  BY <1>1, RunEmpty
<1> QED
  BY <1>1, <1>6, <1>7, <1>8 DEF SourceInv

(* What a flush leaves, and what an exit adds to it.                         *)
LEMMA Flushed ==
  ASSUME SourceInv
  PROVE  /\ IsBuffer(Appended(ring, pending)) /\ Appended(ring, pending).seq = made
         /\ Appended(ring, pending).size <= MaxBytes
         /\ pending = <<>> => ring.seq = made /\ Appended(ring, pending) = ring
         /\ ring.seq = made => pending = <<>>
<1>1. ring.seq \in Nat /\ made \in Nat /\ ring.seq <= made
  BY DEF SourceInv, IsBuffer
<1>2. pending = <<>> => ring.seq = made
  <2>1. pending = Run(ring.seq, made) /\ Len(pending) = made - ring.seq
    BY <1>1, RunFacts DEF SourceInv
  <2>2. pending = <<>> => Len(pending) = 0
    BY EmptySeq
  <2> QED
    BY <1>1, <2>1, <2>2
<1>3. ring.seq = made => pending = <<>>
  BY <1>1, RunEmpty DEF SourceInv
<1> QED
  BY <1>1, <1>2, <1>3, AppendedKeeps, MaxBytesAssumption DEF SourceInv

LEMMA RunMore ==
  ASSUME NEW n \in Nat, NEW m \in Nat
  PROVE  [i \in 1..n |-> m + i] = Run(m, m + n)
<1>1. m + n - m = n
  OBVIOUS
<1> QED
  BY <1>1 DEF Run

LEMMA Drained ==
  ASSUME SourceInv, NEW tail \in Tails, Drain(tail)
  PROVE  /\ IsBuffer(ring') /\ ring'.size <= MaxBytes /\ made' = made + tail /\ made' \in Nat
         /\ ring'.seq = made' /\ pending' = <<>>
<1> DEFINE flushed == Appended(ring, pending)
<1>1. IsBuffer(flushed) /\ flushed.seq = made /\ flushed.size <= MaxBytes /\ made \in Nat
  BY Flushed DEF SourceInv
<1>2. tail \in Nat /\ made + tail \in Nat /\ made <= made + tail
  BY <1>1, StreamAssumption
<1>3. [i \in 1..tail |-> made + i] = Run(made, made + tail)
  BY <1>1, <1>2, RunMore
<1>4. ring' = Appended(flushed, Run(made, made + tail)) /\ made' = made + tail
  BY <1>3 DEF Drain
<1>5. pending' = <<>>
  BY DEF Drain, FlushInto
<1> HIDE DEF flushed
<1> QED
  BY <1>1, <1>2, <1>4, <1>5, AppendedKeeps, MaxBytesAssumption

(* No step breaks the scrollback.                                            *)
LEMMA SourceStep ==
  ASSUME SourceInv, [Next]_vars
  PROVE  SourceInv'
<1>0. ring.seq \in Nat /\ made \in Nat /\ ring.seq <= made
  BY DEF SourceInv, IsBuffer
<1>1. CASE UNCHANGED source
  BY <1>1 DEF source, SourceInv
<1>2. CASE session = "absent" /\ session' = "running" /\ UNCHANGED <<made, pending, ring>>
  BY <1>2 DEF SourceInv
<1>3. CASE PtyData
  <2>1. PICK n \in 1..MaxRead : made' = made + n /\ pending' = pending \o [i \in 1..n |-> made + i]
    BY <1>3 DEF PtyData
  <2>2. n \in Nat /\ made <= made + n /\ made + n \in Nat
    BY <1>0, StreamAssumption
  <2>3. pending' = Run(ring.seq, made + n)
    <3>1. [i \in 1..n |-> made + i] = Run(made, made + n)
      BY <1>0, <2>2, RunMore
    <3>2. pending = Run(ring.seq, made)
      BY DEF SourceInv
    <3>3. Run(ring.seq, made) \o Run(made, made + n) = Run(ring.seq, made + n)
      BY <1>0, <2>2, RunConcat
    <3> QED
      BY <2>1, <3>1, <3>2, <3>3
  <2>4. session = "running" /\ session' = "running" /\ ring' = ring
    BY <1>3 DEF PtyData
  <2>5. made' = made + n
    BY <2>1
  <2>6. made' \in Nat /\ ring'.seq <= made'
    BY <1>0, <2>2, <2>4, <2>5
  <2>7. pending' = Run(ring'.seq, made')
    BY <2>3, <2>4, <2>5
  <2> QED
    BY <2>4, <2>6, <2>7 DEF SourceInv
<1>4. CASE Flush \/ Close
  <2>1. ring' = Appended(ring, pending) /\ made' = made /\ pending' = <<>>
    BY <1>4 DEF Flush, Close, FlushInto
  <2>2. pending' = Run(made, made)
    BY <1>0, <2>1, RunEmpty
  <2> QED
    BY <1>0, <2>1, <2>2, Flushed DEF SourceInv
<1>5. CASE Exit
  <2>1. PICK tail \in Tails : Drain(tail)
    BY <1>5 DEF Exit
  <2>2. pending' = Run(ring'.seq, made')
    BY <2>1, Drained, RunEmpty
  <2> QED
    BY <2>1, <2>2, Drained DEF SourceInv
<1>6. CASE CreateElsewhere \/ CatchUp
  BY <1>1, <1>2, <1>6 DEF CreateElsewhere, CatchUp
<1>7. ASSUME NEW c \in Clients, CreateHere(c) PROVE SourceInv'
  BY <1>2, <1>7 DEF CreateHere
<1>8. ASSUME NEW c \in Clients, \/ ServerReads(c) \/ ClientReads(c) \/ Connect(c) \/ LinkBreaks(c)
                                \/ ServerClosesSocket(c) \/ Restore(c) \/ Minimize(c)
      PROVE  SourceInv'
  BY <1>1, <1>8 DEF ServerReads, ClientReads, Connect, LinkBreaks, ServerClosesSocket, Restore, Minimize
<1>9. CASE UNCHANGED vars
  BY <1>1, <1>9 DEF vars, source
<1> QED
  BY <1>3, <1>4, <1>5, <1>6, <1>7, <1>8, <1>9 DEF Next

LEMMA SourceHolds == SafetySpec => []SourceInv
BY SourceInit, SourceStep, PTL DEF SafetySpec

(* The scrollback holds the last characters written, one run of them and no  *)
(* more than its limit, and its counters agree with them, whatever chunks    *)
(* the PTY writes and whatever flush, exit and close add (append, _trim of   *)
(* lib/ring-buffer.js): for every limit and any number of clients.           *)
THEOREM ScrollbackHolds == SafetySpec => []ScrollbackIsTheTail
<1>1. SourceInv => ScrollbackIsTheTail
  <2> SUFFICES ASSUME SourceInv PROVE ScrollbackIsTheTail
    OBVIOUS
  <2>1. FlattenSeq(ring.chunks) = Run(ring.dropped, ring.seq) /\ ring.size = ring.seq - ring.dropped
    BY BufferHolds DEF SourceInv, IsBuffer
  <2> QED
    BY <2>1 DEF SourceInv, ScrollbackIsTheTail, Run
<1> QED
  BY <1>1, SourceHolds, PTL

-----------------------------------------------------------------------------
(* The clients, as long as no panel opens that another attach serves.        *)
DownOk(d, state, life, end) ==
  /\ d \in Seq(Frames)
  /\ \A i \in 1..Len(d) :
       /\ d[i].t = "ready" => i = 1 /\ state = "opened"
       /\ d[i].t = "closed" => life = "gone"
       /\ IsData(d[i]) => d[i].seq \in 0..end

LinkInv(c) ==
  /\ online[c] \in {"off", "opened", "ready"}
  /\ sock[c] \in {"none", "closing", "open"} /\ (sock[c] = "open" <=> online[c] # "off")
  /\ sock[c] = "none" => cursor[c] = NoCursor
  /\ online[c] = "off" => down[c] = <<>> /\ up[c] = <<>>
  /\ online[c] = "opened" =>
       /\ down[c] # <<>> /\ down[c][1].t = "ready" /\ NoData(down[c]) /\ cursor[c] = NoCursor
       /\ up[c] = <<>> \/ (up[c] = <<Detach>> /\ tracked[c] = Untracked)
  /\ outbox[c] = <<>> \/ /\ outbox[c] = <<Detach>> /\ online[c] = "off"
                         /\ tracked[c] = Untracked /\ panel[c] \in {"hidden", "gone"}

CursorInv(c) ==
  /\ cursor[c] \in [seq : Int, behind : BOOLEAN]
  /\ cursor[c] = NoCursor \/ cursor[c].seq \in 0..ring.seq
  /\ ~Known => cursor[c] = NoCursor
  /\ session = "running" /\ Attached(c) /\ ~cursor[c].behind => cursor[c].seq = ring.seq

(* What a client has on its way to the server: nothing, the attach that will *)
(* serve it from where it is, or a detach that ends what is served.          *)
Asking(c) ==
  /\ up[c] = <<AttachFrom(tracked[c])>> /\ tracked[c] \in Nat
  /\ cursor[c] = NoCursor /\ NoData(down[c]) /\ online[c] = "ready"
Leaving(c) ==
  /\ panel[c] \in {"hidden", "gone"}
  /\ up[c] = <<Detach>> \/ \E n \in 0..ring.seq : up[c] = <<AttachFrom(n), Detach>>
Over(c) == panel[c] = "gone" /\ session = "gone"

UpInv(c) == up[c] = <<>> \/ Asking(c) \/ Leaving(c) \/ Over(c)

(* What is shown is a run up to the offset, and what comes continues it.     *)
PanelInv(c) ==
  /\ tracked[c] = Untracked \/ tracked[c] \in 0..ring.seq
  /\ panel[c] \in {"unknown", "shown", "hidden", "gone"}
  /\ panel[c] = "unknown" =>
       cursor[c] = NoCursor /\ NoData(down[c]) /\ up[c] = <<>> /\ outbox[c] = <<>>
  /\ panel[c] = "shown" =>
       /\ tracked[c] \in Nat /\ \E a \in 0..tracked[c] : text[c] = Run(a, tracked[c])
       /\ up[c] = <<>> => \E q \in Nat : Chain(down[c], tracked[c], q)
       /\ up[c] # <<>> => Asking(c)
  /\ up[c] = <<>> /\ Attached(c) => tracked[c] \in Nat /\ Chain(down[c], tracked[c], cursor[c].seq)

ClientInv(c) ==
  /\ LinkInv(c) /\ DownOk(down[c], online[c], session, ring.seq) /\ CursorInv(c)
  /\ UpInv(c) /\ PanelInv(c)

Tables ==
  /\ cursor = [c \in Clients |-> cursor[c]] /\ sock = [c \in Clients |-> sock[c]]
  /\ down = [c \in Clients |-> down[c]] /\ up = [c \in Clients |-> up[c]]
  /\ online = [c \in Clients |-> online[c]] /\ outbox = [c \in Clients |-> outbox[c]]
  /\ tracked = [c \in Clients |-> tracked[c]] /\ panel = [c \in Clients |-> panel[c]]
  /\ text = [c \in Clients |-> text[c]]

StreamInv ==
  SourceInv /\ Tables /\ BehindIsWatched /\ \A c \in Clients : ClientInv(c)

-----------------------------------------------------------------------------
(* Short queues.                                                             *)
LEMMA Messages ==
  ASSUME NEW a, NEW b
  PROVE  /\ <<>> \o <<a>> = <<a>> /\ <<a>> \o <<b>> = <<a, b>> /\ <<a>> \o <<>> = <<a>>
         /\ Head(<<a>>) = a /\ Tail(<<a>>) = <<>> /\ Head(<<a, b>>) = a /\ Tail(<<a, b>>) = <<b>>
         /\ <<a>> # <<>> /\ <<a, b>> # <<>> /\ <<a, b>> # <<a>>
<1> DEFINE S == {a, b}
           x == <<a>>
           y == <<b>>
           z == <<a, b>>
<1>1. /\ x \in Seq(S) /\ y \in Seq(S) /\ z \in Seq(S)
      /\ Len(x) = 1 /\ Len(y) = 1 /\ Len(z) = 2 /\ x[1] = a /\ y[1] = b /\ z[1] = a /\ z[2] = b
      /\ Head(x) = a /\ Head(z) = a /\ <<>> \in Seq(S) /\ Len(<<>>) = 0
  OBVIOUS
<1>2. x # <<>> /\ z # <<>> /\ z # x
  OBVIOUS
<1> HIDE DEF x, y, z, S
<1>3. <<>> \o x = x /\ x \o <<>> = x
  BY <1>1, ConcatEmptySeq
<1>4. x \o y = z
  <2>1. x \o y \in Seq(S) /\ Len(x \o y) = 2 /\ (x \o y)[1] = a /\ (x \o y)[2] = b
    BY <1>1, ConcatProperties
  <2>2. \A i \in 1..Len(x \o y) : (x \o y)[i] = z[i]
    BY <1>1, <2>1
  <2> QED
    BY <1>1, <2>1, <2>2, SeqEqual
<1>5. Tail(x) = <<>>
  BY <1>1, <1>2, HeadTailProperties, EmptySeq
<1>6. Tail(z) = y
  <2>1. Tail(z) \in Seq(S) /\ Len(Tail(z)) = 1 /\ Tail(z)[1] = b
    BY <1>1, <1>2, HeadTailProperties
  <2>2. \A i \in 1..Len(Tail(z)) : Tail(z)[i] = y[i]
    BY <1>1, <2>1
  <2> QED
    BY <1>1, <2>1, <2>2, SeqEqual
<1> QED
  BY <1>1, <1>2, <1>3, <1>4, <1>5, <1>6 DEF x, y, z

LEMMA DownMore ==
  ASSUME NEW d, NEW o, NEW s, NEW e \in Nat, DownOk(d, o, s, e),
         NEW f \in Frames, f.t # "ready", NEW s2, s = "gone" => s2 = "gone",
         f.t = "closed" => s2 = "gone", NEW e2 \in Nat, e <= e2, IsData(f) => f.seq \in 0..e2
  PROVE  /\ DownOk(d \o <<f>>, o, s2, e2) /\ d \o <<f>> # <<>>
         /\ d # <<>> => (d \o <<f>>)[1] = d[1]
         /\ NoData(d) /\ ~IsData(f) => NoData(d \o <<f>>)
<1> DEFINE g == d \o <<f>>
<1>1. d \in Seq(Frames)
  BY DEF DownOk
<1>2. /\ g \in Seq(Frames) /\ Len(g) = Len(d) + 1 /\ Len(d) \in Nat /\ g # <<>>
      /\ \A i \in 1..(Len(d) + 1) : g[i] = IF i <= Len(d) THEN d[i] ELSE f
  BY <1>1, FramesMore
<1> HIDE DEF g
<1>3. DownOk(g, o, s2, e2)
  <2> SUFFICES ASSUME NEW i \in 1..Len(g)
               PROVE  /\ g[i].t = "ready" => i = 1 /\ o = "opened"
                      /\ g[i].t = "closed" => s2 = "gone"
                      /\ IsData(g[i]) => g[i].seq \in 0..e2
    BY <1>2 DEF DownOk
  <2>1. CASE i <= Len(d)
    <3>1. g[i] = d[i] /\ i \in 1..Len(d)
      BY <1>2, <2>1
    <3> QED
      BY <3>1 DEF DownOk
  <2>2. CASE ~(i <= Len(d))
    BY <1>2, <2>2
  <2> QED
    BY <2>1, <2>2
<1>4. d # <<>> => g[1] = d[1]
  BY <1>1, <1>2, EmptySeq
<1>5. NoData(d) /\ ~IsData(f) => NoData(g)
  BY <1>2 DEF NoData
<1> QED
  BY <1>2, <1>3, <1>4, <1>5 DEF g

LEMMA DownLess ==
  ASSUME NEW d, NEW o, NEW s, NEW e \in Nat, DownOk(d, o, s, e), d # <<>>, NEW o2
  PROVE  /\ Head(d) = d[1] /\ Head(d) \in Frames /\ DownOk(Tail(d), o2, s, e)
         /\ NoData(d) => NoData(Tail(d)) /\ ~IsData(Head(d))
         /\ IsData(Head(d)) => Head(d).seq \in 0..e
         /\ Head(d).t = "ready" => o = "opened"
         /\ Head(d).t = "closed" => s = "gone"
<1> DEFINE g == Tail(d)
<1>1. d \in Seq(Frames)
  BY DEF DownOk
<1>2. /\ Head(d) \in Frames /\ Head(d) = d[1] /\ g \in Seq(Frames)
      /\ Len(d) \in Nat \ {0} /\ Len(g) = Len(d) - 1
      /\ \A i \in 1..(Len(d) - 1) : g[i] = d[i + 1]
  BY <1>1, FramesTail
<1> HIDE DEF g
<1>3. \A i \in 1..Len(g) : i + 1 \in 1..Len(d) /\ i + 1 # 1 /\ g[i] = d[i + 1]
  BY <1>2
<1>4. 1 \in 1..Len(d)
  BY <1>2
<1>5. DownOk(g, o2, s, e)
  BY <1>2, <1>3 DEF DownOk
<1>6. NoData(d) => NoData(g) /\ ~IsData(d[1])
  BY <1>3, <1>4 DEF NoData
<1> QED
  BY <1>2, <1>4, <1>5, <1>6 DEF g, DownOk

(* A snapshot from where a client is takes it to the end of the scrollback,  *)
(* and so does the output that was just appended.                            *)
LEMMA SnapshotMoves ==
  ASSUME NEW b, IsBuffer(b), NEW n \in 0..b.seq
  PROVE  LET f == Snapshot(Since(b, n)) IN
         /\ Since(b, n).seq = b.seq /\ b.seq \in Nat
         /\ f \in Frames /\ IsData(f) /\ f.seq = b.seq /\ f.t = "snapshot" /\ Moves(n, f, f.seq)
<1> DEFINE s == Since(b, n)
           f == Snapshot(s)
<1>1. b.dropped \in Nat /\ b.seq \in Nat /\ b.dropped <= b.seq /\ n \in Nat
  BY DEF IsBuffer
<1>2. /\ s.seq = b.seq
      /\ n >= b.seq => s.data = <<>> /\ s.truncated = FALSE
      /\ n < b.seq => /\ s.data = Run(Maximum(n, b.dropped), b.seq)
                      /\ s.truncated = (n > 0 /\ n < b.dropped)
  BY <1>1, SinceIs
<1> HIDE DEF s
<1>3. f.t = "snapshot" /\ f.seq = b.seq /\ f.data = s.data /\ f.flag = s.truncated
  BY <1>2 DEF Snapshot, Frame
<1>4. \E a \in 0..b.seq : s.data = Run(a, b.seq) /\ (s.truncated \/ a = n \/ n = 0)
  <2>1. CASE n = b.seq
    BY <1>1, <1>2, <2>1, RunEmpty
  <2>2. CASE n < b.seq
    <3>1. Maximum(n, b.dropped) \in 0..b.seq
      BY <1>1, <2>2 DEF Maximum
    <3>2. (n > 0 /\ n < b.dropped) \/ Maximum(n, b.dropped) = n \/ n = 0
      BY <1>1 DEF Maximum
    <3> QED
      BY <1>2, <2>2, <3>1, <3>2
  <2> QED
    BY <1>1, <2>1, <2>2
<1>5. s.truncated \in BOOLEAN
  <2>1. CASE n >= b.seq
    BY <1>2, <2>1
  <2>2. CASE n < b.seq
    <3>1. CASE n > 0 /\ n < b.dropped
      BY <1>2, <2>2, <3>1
    <3>2. CASE ~(n > 0 /\ n < b.dropped)
      BY <1>2, <2>2, <3>2
    <3> QED
      BY <3>1, <3>2
  <2> QED
    BY <1>1, <2>1, <2>2
<1>6. s.data \in Seq(Nat)
  <2>1. PICK a \in 0..b.seq : s.data = Run(a, b.seq)
    BY <1>4
  <2>2. a \in Nat /\ a <= b.seq
    BY <1>1
  <2> QED
    BY <1>1, <2>1, <2>2, RunFacts
<1>7. f \in Frames
  BY <1>1, <1>2, <1>5, <1>6 DEF Snapshot, Frame, Frames
<1> HIDE DEF f
<1>8. IsData(f) /\ Moves(n, f, f.seq)
  BY <1>1, <1>3, <1>4 DEF IsData, Moves, Continues
<1> QED
  BY <1>1, <1>2, <1>3, <1>7, <1>8 DEF f, s

LEMMA OutputMoves ==
  ASSUME NEW p \in Nat, NEW q \in Nat, p <= q
  PROVE  LET f == Output(q, Run(p, q)) IN
         f \in Frames /\ IsData(f) /\ f.seq = q /\ f.t = "output" /\ Moves(p, f, f.seq)
<1> DEFINE r == Run(p, q)
           f == Output(q, r)
<1>1. r \in Seq(Nat)
  BY RunFacts
<1>2. f.t = "output" /\ f.seq = q /\ f.data = Run(p, q)
  BY DEF Output, Frame
<1>3. f \in Frames
  <2> HIDE DEF r
  <2> QED
    BY <1>1 DEF Output, Frame, Frames
<1> HIDE DEF f
<1>4. IsData(f) /\ Moves(p, f, f.seq)
  BY <1>2 DEF IsData, Moves, Continues
<1> QED
  BY <1>2, <1>3, <1>4 DEF f

-----------------------------------------------------------------------------
LEMMA StreamInit == Init => StreamInv
<1> SUFFICES ASSUME Init PROVE StreamInv
  OBVIOUS
<1>1. SourceInv /\ Tables /\ BehindIsWatched
  BY SourceInit DEF Init, Tables, BehindIsWatched, NoCursor
<1>2. ring.seq = 0 /\ session = "absent"
  BY DEF Init, EmptyBuffer
<1>3. <<>> \in Seq(Frames) /\ Len(<<>>) = 0
  BY EmptySeq
<1>4. ASSUME NEW c \in Clients PROVE ClientInv(c)
  <2>1. /\ cursor[c] = NoCursor /\ sock[c] = "none" /\ down[c] = <<>> /\ up[c] = <<>>
        /\ online[c] = "off" /\ outbox[c] = <<>> /\ tracked[c] = Untracked
        /\ panel[c] = "unknown"
    BY DEF Init
  <2>2. DownOk(down[c], online[c], session, ring.seq) /\ NoData(down[c])
    BY <1>3, <2>1 DEF DownOk, NoData
  <2>3. LinkInv(c) /\ UpInv(c) /\ CursorInv(c)
    BY <2>1, <1>2 DEF LinkInv, UpInv, CursorInv, NoCursor, Untracked, Attached
  <2>4. PanelInv(c)
    BY <2>1, <2>2 DEF PanelInv, Attached
  <2> QED
    BY <2>2, <2>3, <2>4 DEF ClientInv
<1> QED
  BY <1>1, <1>4 DEF StreamInv

SameClient(c) ==
  UNCHANGED <<cursor[c], sock[c], down[c], up[c], online[c], outbox[c], tracked[c],
              panel[c], text[c]>>

LEMMA Untouched ==
  ASSUME NEW c, ClientInv(c), SameClient(c), session' = session, ring' = ring
  PROVE  ClientInv(c)'
BY DEF ClientInv, SameClient, LinkInv, CursorInv, UpInv, PanelInv, Asking, Leaving, Over, Known, Attached

(* A client that is served: nothing, or one frame from where it was.         *)
SameSide(c) ==
  UNCHANGED <<sock[c], up[c], online[c], outbox[c], tracked[c], panel[c], text[c]>>
Served(c) ==
  \/ down'[c] = down[c] /\ cursor'[c] = cursor[c]
  \/ /\ down'[c] = down[c] /\ cursor[c] # NoCursor
     /\ \E h \in BOOLEAN : cursor'[c] = [seq |-> cursor[c].seq, behind |-> h]
  \/ /\ Attached(c)
     /\ \E f \in Frames, h \in BOOLEAN :
          /\ cursor'[c] = [seq |-> f.seq, behind |-> h] /\ down'[c] = down[c] \o <<f>>
          /\ IsData(f) /\ f.t \in {"output", "snapshot"} /\ f.seq \in 0..ring'.seq
          /\ Moves(cursor[c].seq, f, f.seq)
Still(c) == session' = "running" /\ Attached(c)' /\ ~cursor'[c].behind => cursor'[c].seq = ring'.seq

LEMMA ServedKeeps ==
  ASSUME NEW c, ClientInv(c), SameSide(c), Served(c), Still(c), Known,
         session' = session \/ session' = "exited",
         ring.seq \in Nat, ring'.seq \in Nat, ring.seq <= ring'.seq
  PROVE  ClientInv(c)'
<1>0. Known' /\ session # "gone" /\ session' # "gone"
  BY DEF Known
<1>1. CASE down'[c] = down[c] /\ cursor'[c] = cursor[c]
  <2>1. DownOk(down[c], online[c], session, ring.seq)'
    BY <1>0, <1>1 DEF ClientInv, SameSide, DownOk
  <2>2. CursorInv(c)'
    BY <1>0, <1>1 DEF ClientInv, SameSide, CursorInv, Still, Attached
  <2>3. LinkInv(c)' /\ UpInv(c)'
    BY <1>0, <1>1 DEF ClientInv, SameSide, LinkInv, UpInv, Asking, Leaving, Over
  <2>4. PanelInv(c)'
    BY <1>0, <1>1 DEF ClientInv, SameSide, PanelInv, Attached, Asking
  <2> QED
    BY <2>1, <2>2, <2>3, <2>4 DEF ClientInv
<1>2. ASSUME NEW h \in BOOLEAN, down'[c] = down[c], cursor[c] # NoCursor,
             cursor'[c] = [seq |-> cursor[c].seq, behind |-> h]
      PROVE  ClientInv(c)'
  <2>0. cursor'[c] # NoCursor /\ cursor'[c].seq = cursor[c].seq /\ cursor[c].seq \in 0..ring.seq
        /\ cursor'[c] \in [seq : Int, behind : BOOLEAN]
    BY <1>2 DEF ClientInv, CursorInv, NoCursor, Untracked
  <2>1. DownOk(down[c], online[c], session, ring.seq)'
    BY <1>0, <1>2 DEF ClientInv, SameSide, DownOk
  <2>2. CursorInv(c)'
    BY <1>0, <2>0 DEF ClientInv, SameSide, CursorInv, Still
  <2>3. LinkInv(c)' /\ UpInv(c)'
    BY <1>0, <1>2, <2>0 DEF ClientInv, SameSide, LinkInv, UpInv, Asking, Leaving, Over
  <2>4. PanelInv(c)'
    BY <1>0, <1>2, <2>0 DEF ClientInv, SameSide, PanelInv, Attached, Asking
  <2> QED
    BY <2>1, <2>2, <2>3, <2>4 DEF ClientInv
<1>3. ASSUME Attached(c), NEW f \in Frames, NEW h \in BOOLEAN,
             cursor'[c] = [seq |-> f.seq, behind |-> h], down'[c] = down[c] \o <<f>>,
             IsData(f), f.t \in {"output", "snapshot"}, f.seq \in 0..ring'.seq,
             Moves(cursor[c].seq, f, f.seq)
      PROVE  ClientInv(c)'
  <2>0. cursor'[c] # NoCursor /\ cursor'[c].seq = f.seq /\ cursor'[c] \in [seq : Int, behind : BOOLEAN]
        /\ cursor[c] # NoCursor /\ sock[c] = "open"
    BY <1>3 DEF NoCursor, Untracked, Attached
  <2>1. DownOk(down[c], online[c], session, ring.seq)'
    BY <1>0, <1>3, DownMore DEF ClientInv, SameSide
  <2>2. CursorInv(c)'
    BY <1>0, <1>3, <2>0 DEF CursorInv, Still
  <2>3. LinkInv(c)' /\ UpInv(c)'
    BY <1>0, <2>0 DEF ClientInv, SameSide, LinkInv, UpInv, Asking, Leaving, Over
  <2>4. PanelInv(c)'
    <3>1. up[c] = <<>> => tracked[c] \in Nat /\ Chain(down'[c], tracked[c], f.seq)
      BY <1>3, ChainMore DEF ClientInv, PanelInv, DownOk
    <3>2. /\ panel[c] # "unknown"
          /\ panel[c] = "shown" => up[c] = <<>>
          /\ tracked[c] = Untracked \/ tracked[c] \in 0..ring'.seq
          /\ f.seq \in Nat
      BY <1>3, <2>0 DEF ClientInv, PanelInv, Asking
    <3> QED
      BY <2>0, <3>1, <3>2 DEF ClientInv, SameSide, PanelInv, Attached
  <2> QED
    BY <2>1, <2>2, <2>3, <2>4 DEF ClientInv
<1> QED
  BY <1>1, <1>2, <1>3 DEF Served

-----------------------------------------------------------------------------
(* The server's turns: flush, catch-up, exit, close.                         *)
IsTurn(r, c, b) ==
  /\ r.arm \in BOOLEAN
  /\ \/ r.cursor = cursor[c] /\ r.sent = <<>> /\ (Attached(c) => cursor[c].behind)
     \/ /\ r.cursor = [seq |-> cursor[c].seq, behind |-> TRUE] /\ r.sent = <<>>
        /\ r.arm /\ cursor[c] # NoCursor
     \/ /\ Attached(c)
        /\ \E f \in Frames, h \in BOOLEAN :
             /\ r.cursor = [seq |-> b.seq, behind |-> h] /\ r.sent = <<f>> /\ (h => r.arm)
             /\ f.seq = b.seq /\ IsData(f) /\ f.t \in {"output", "snapshot"}
             /\ Moves(cursor[c].seq, f, f.seq)

LEMMA CursorExcept ==
  ASSUME NEW x \in [seq : Int, behind : BOOLEAN], NEW n \in Int, NEW h \in BOOLEAN
  PROVE  /\ [x EXCEPT !.behind = h] = [seq |-> x.seq, behind |-> h]
         /\ [x EXCEPT !.seq = n] = [seq |-> n, behind |-> x.behind]
<1>1. [x EXCEPT !.behind = h] \in [seq : {x.seq}, behind : {h}]
  OBVIOUS
<1>2. [x EXCEPT !.seq = n] \in [seq : {n}, behind : {x.behind}]
  OBVIOUS
<1>3. ASSUME NEW y, NEW a, NEW b, y \in [seq : {a}, behind : {b}]
      PROVE  y = [seq |-> a, behind |-> b]
  BY <1>3
<1> QED
  BY <1>1, <1>2, <1>3

LEMMA ResyncTurn ==
  ASSUME NEW c, NEW b, IsBuffer(b), Attached(c), cursor[c].seq \in 0..b.seq
  PROVE  IsTurn(Resync(c, b), c, b)
<1> DEFINE since == Since(b, cursor[c].seq)
           full == Buffered(down[c]) + Len(since.data) > High
           f == Snapshot(since)
           r == Resync(c, b)
<1>1. /\ since.seq = b.seq /\ f \in Frames /\ IsData(f) /\ f.seq = b.seq /\ f.t = "snapshot"
      /\ Moves(cursor[c].seq, f, f.seq)
  BY SnapshotMoves
<1> HIDE DEF f
<1>2. \E h \in BOOLEAN : r.cursor = [seq |-> since.seq, behind |-> h] /\ r.arm = h /\ r.sent = <<f>>
  <2>1. r = [cursor |-> [seq |-> since.seq, behind |-> full], sent |-> <<f>>, arm |-> full]
    BY DEF Resync, f
  <2>2. full \in BOOLEAN
    OBVIOUS
  <2> HIDE DEF full, r, since
  <2> QED
    BY <2>1, <2>2
<1> HIDE DEF r, since
<1> QED
  BY <1>1, <1>2 DEF IsTurn, r

LEMMA ServeTurn ==
  ASSUME SourceInv, NEW c \in Clients, ClientInv(c), session = "running"
  PROVE  IsTurn(Serve(c, Appended(ring, pending), pending), c, Appended(ring, pending))
<1> DEFINE b == Appended(ring, pending)
           r == Serve(c, b, pending)
<1> SUFFICES IsTurn(r, c, b)
  OBVIOUS
<1>1. IsBuffer(b) /\ b.seq = made /\ made \in Nat /\ ring.seq \in Nat /\ ring.seq <= made
      /\ pending = Run(ring.seq, made)
  BY Flushed DEF SourceInv, IsBuffer
<1>2. /\ cursor[c] \in [seq : Int, behind : BOOLEAN]
      /\ Attached(c) => cursor[c].seq \in 0..ring.seq /\ cursor[c].seq \in 0..b.seq
      /\ Attached(c) /\ ~cursor[c].behind => cursor[c].seq = ring.seq
  BY <1>1 DEF ClientInv, CursorInv, Attached
<1> HIDE DEF b
<1>3. CASE ~Attached(c)
  BY <1>3 DEF Serve, Idle, IsTurn
<1>4. CASE Attached(c) /\ cursor[c].behind /\ Buffered(down[c]) < Low
  <2>1. IsTurn(Resync(c, b), c, b)
    BY <1>1, <1>2, <1>4, ResyncTurn
  <2>2. Serve(c, b, pending) = Resync(c, b)
    BY <1>4 DEF Serve
  <2> QED
    BY <2>1, <2>2
<1>5. CASE Attached(c) /\ cursor[c].behind /\ ~(Buffered(down[c]) < Low)
  BY <1>5 DEF Serve, Idle, IsTurn
<1>6. CASE Attached(c) /\ ~cursor[c].behind /\ Buffered(down[c]) > High
  <2>1. r = [cursor |-> [cursor[c] EXCEPT !.behind = TRUE], sent |-> <<>>, arm |-> TRUE]
    BY <1>6 DEF Serve
  <2>2. [cursor[c] EXCEPT !.behind = TRUE] = [seq |-> cursor[c].seq, behind |-> TRUE]
    BY <1>2, CursorExcept
  <2>3. /\ r.cursor = [seq |-> cursor[c].seq, behind |-> TRUE] /\ r.sent = <<>> /\ r.arm = TRUE
        /\ cursor[c] # NoCursor
    BY <1>6, <2>1, <2>2 DEF Attached
  <2> HIDE DEF r
  <2> QED
    BY <2>3 DEF IsTurn
<1>7. CASE Attached(c) /\ ~cursor[c].behind /\ ~(Buffered(down[c]) > High)
  <2> DEFINE f == Output(made, pending)
  <2>1. r = [cursor |-> [cursor[c] EXCEPT !.seq = b.seq], sent |-> <<f>>, arm |-> FALSE]
    BY <1>1, <1>7 DEF Serve
  <2>2. [cursor[c] EXCEPT !.seq = b.seq] = [seq |-> b.seq, behind |-> FALSE]
    <3>1. cursor[c].behind = FALSE /\ b.seq \in Int
      BY <1>1, <1>2, <1>7
    <3> QED
      BY <1>2, <3>1, CursorExcept
  <2>3. f \in Frames /\ IsData(f) /\ f.seq = b.seq /\ f.t = "output" /\ Moves(cursor[c].seq, f, f.seq)
    BY <1>1, <1>2, <1>7, OutputMoves
  <2> HIDE DEF f
  <2>4. r.cursor = [seq |-> b.seq, behind |-> FALSE] /\ r.sent = <<f>> /\ r.arm = FALSE
    BY <2>1, <2>2
  <2>5. \E g \in Frames, h \in BOOLEAN :
          /\ r.cursor = [seq |-> b.seq, behind |-> h] /\ r.sent = <<g>> /\ (h => r.arm)
          /\ g.seq = b.seq /\ IsData(g) /\ g.t \in {"output", "snapshot"}
          /\ Moves(cursor[c].seq, g, g.seq)
    <3> HIDE DEF r
    <3> QED
      BY <2>3, <2>4
  <2>6. r.arm \in BOOLEAN
    BY <2>4
  <2> HIDE DEF r
  <2> QED
    BY <1>7, <2>5, <2>6 DEF IsTurn
<1> QED
  BY <1>3, <1>4, <1>5, <1>6, <1>7 DEF b

LEMMA TurnServes ==
  ASSUME NEW c, ClientInv(c), NEW r, NEW b, IsTurn(r, c, b), b.seq \in Nat, ring'.seq \in Nat,
         b.seq <= ring'.seq, cursor'[c] = r.cursor, down'[c] = down[c] \o r.sent
  PROVE  Served(c)
<1>1. down[c] \in Seq(Frames) /\ down[c] \o <<>> = down[c]
  BY ConcatEmptySeq DEF ClientInv, DownOk
<1>2. CASE r.cursor = cursor[c] /\ r.sent = <<>>
  BY <1>1, <1>2 DEF Served
<1>3. CASE r.cursor = [seq |-> cursor[c].seq, behind |-> TRUE] /\ r.sent = <<>> /\ cursor[c] # NoCursor
  BY <1>1, <1>3 DEF Served
<1>4. ASSUME Attached(c), NEW f \in Frames, NEW h \in BOOLEAN,
             r.cursor = [seq |-> b.seq, behind |-> h], r.sent = <<f>>, f.seq = b.seq, IsData(f),
             f.t \in {"output", "snapshot"}, Moves(cursor[c].seq, f, f.seq)
      PROVE  Served(c)
  <2>1. cursor'[c] = [seq |-> f.seq, behind |-> h] /\ down'[c] = down[c] \o <<f>> /\ f.seq \in 0..ring'.seq
    BY <1>4
  <2> QED
    BY <1>4, <2>1 DEF Served
<1> QED
  BY <1>2, <1>3, <1>4 DEF IsTurn

(* A turn leaves a client where the source is, or behind and watched.        *)
LEMMA TurnLeaves ==
  ASSUME NEW c, NEW r, NEW b, IsTurn(r, c, b)
  PROVE  /\ r.cursor = cursor[c] \/ r.cursor.seq = b.seq \/ r.cursor.behind = TRUE
         /\ Attached(c) => r.cursor.behind \/ r.cursor.seq = b.seq
         /\ r.cursor.behind => cursor[c].behind \/ r.arm
<1>1. CASE r.cursor = cursor[c] /\ r.sent = <<>> /\ (Attached(c) => cursor[c].behind)
  BY <1>1
<1>2. CASE r.cursor = [seq |-> cursor[c].seq, behind |-> TRUE] /\ r.arm
  BY <1>2
<1>3. ASSUME NEW h \in BOOLEAN, r.cursor = [seq |-> b.seq, behind |-> h], h => r.arm
      PROVE  r.cursor.seq = b.seq /\ (r.cursor.behind => r.arm)
  BY <1>3
<1> QED
  BY <1>1, <1>2, <1>3 DEF IsTurn

(* flush(): every client takes its turn.                                     *)
LEMMA FlushServes ==
  ASSUME StreamInv, session = "running", FlushInto(Appended(ring, pending)),
         UNCHANGED <<sock, up, online, outbox, view>>, ring'.seq \in Nat, made <= ring'.seq
  PROVE  /\ Tables' /\ BehindIsWatched'
         /\ \A c \in Clients : Served(c) /\ SameSide(c)
         /\ \A c \in Clients : Attached(c)' /\ ~cursor'[c].behind => cursor'[c].seq = made
<1> DEFINE b == Appended(ring, pending)
           r(c) == Serve(c, b, pending)
<1>1. b.seq = made /\ made \in Nat
  BY Flushed DEF StreamInv, SourceInv
<1>2. ASSUME NEW c \in Clients PROVE IsTurn(r(c), c, b) /\ ClientInv(c)
  BY ServeTurn DEF StreamInv
<1>3. ASSUME NEW c \in Clients PROVE cursor'[c] = r(c).cursor /\ down'[c] = down[c] \o r(c).sent
  BY DEF FlushInto
<1>4. /\ cursor' = [c \in Clients |-> cursor'[c]] /\ down' = [c \in Clients |-> down'[c]]
      /\ catchUp' = (catchUp \/ \E c \in Clients : r(c).arm)
  BY DEF FlushInto
<1> HIDE DEF b, r
<1>5. ASSUME NEW c \in Clients PROVE Served(c) /\ SameSide(c)
  BY <1>1, <1>2, <1>3, TurnServes DEF SameSide, view
<1>6. ASSUME NEW c \in Clients, Attached(c)', ~cursor'[c].behind PROVE cursor'[c].seq = made
  <2>1. Attached(c)
    <3>1. sock[c] = "open"
      BY <1>6 DEF Attached
    <3>2. CASE cursor[c] = NoCursor
      BY <1>2, <1>3, <1>6, <3>2 DEF IsTurn, Attached
    <3> QED
      BY <3>1, <3>2 DEF Attached
  <2> QED
    BY <1>1, <1>2, <1>3, <1>6, <2>1, TurnLeaves
<1>7. BehindIsWatched'
  <2> SUFFICES ASSUME NEW c \in Clients, cursor'[c].behind PROVE catchUp'
    BY DEF BehindIsWatched
  <2>1. cursor[c].behind \/ r(c).arm
    BY <1>2, <1>3, TurnLeaves
  <2> QED
    BY <1>4, <2>1 DEF StreamInv, BehindIsWatched
<1>8. Tables'
  BY <1>4 DEF StreamInv, Tables, view
<1> QED
  BY <1>5, <1>6, <1>7, <1>8

LEMMA FlushKeeps ==
  ASSUME StreamInv, Flush, SourceInv'
  PROVE  StreamInv'
<1>1. ring' = Appended(ring, pending) /\ session = "running" /\ session' = "running"
      /\ FlushInto(Appended(ring, pending)) /\ UNCHANGED <<sock, up, online, outbox, view>>
  BY DEF Flush
<1>2. ring'.seq = made /\ made \in Nat /\ ring.seq \in Nat /\ ring.seq <= made
  BY <1>1, Flushed DEF StreamInv, SourceInv, IsBuffer
<1>3. /\ Tables' /\ BehindIsWatched'
      /\ \A c \in Clients : Served(c) /\ SameSide(c)
      /\ \A c \in Clients : Attached(c)' /\ ~cursor'[c].behind => cursor'[c].seq = made
  BY <1>1, <1>2, FlushServes
<1>4. ASSUME NEW c \in Clients PROVE ClientInv(c)'
  <2>1. session = "running" /\ session' = session /\ Known
    BY <1>1 DEF Known
  <2>2. Still(c)
    <3>1. ring'.seq = made
      BY <1>2
    <3> QED
      BY <1>3, <3>1 DEF Still
  <2>3. Served(c) /\ SameSide(c)
    BY <1>3
  <2>5. ClientInv(c)
    BY DEF StreamInv
  <2>4. ring'.seq \in Nat /\ ring.seq <= ring'.seq /\ ring.seq \in Nat
    BY <1>2
  <2> QED
    BY <2>1, <2>2, <2>3, <2>4, <2>5, ServedKeeps
<1> QED
  BY <1>3, <1>4 DEF StreamInv

LEMMA ExitKeeps ==
  ASSUME StreamInv, Exit, SourceInv'
  PROVE  StreamInv'
<1>1. PICK tail \in Tails : Drain(tail)
  BY DEF Exit
<1>2. session = "running" /\ session' = "exited" /\ UNCHANGED <<sock, up, online, outbox, view>>
  BY DEF Exit
<1>3. /\ made \in Nat /\ ring'.seq = made + tail /\ ring'.seq \in Nat /\ made <= ring'.seq
      /\ ring.seq \in Nat /\ ring.seq <= made
  <2>1. tail \in Nat
    BY StreamAssumption
  <2>2. ring'.seq = made' /\ made' = made + tail
    BY <1>1, Drained DEF StreamInv
  <2>3. made \in Nat /\ ring.seq \in Nat /\ ring.seq <= made
    BY DEF StreamInv, SourceInv, IsBuffer
  <2> QED
    BY <2>1, <2>2, <2>3
<1>4. Tables' /\ BehindIsWatched' /\ \A c \in Clients : Served(c) /\ SameSide(c)
  <2>1. CASE FlushInto(Appended(ring, pending))
    <3>1. ring'.seq \in Nat /\ made <= ring'.seq
      BY <1>3
    <3> QED
      BY <1>2, <2>1, <3>1, FlushServes
  <2>2. CASE UNCHANGED <<serving, down>>
    BY <1>2, <2>2 DEF StreamInv, Tables, view, serving, BehindIsWatched, Served, SameSide
  <2> QED
    BY <1>1, <2>1, <2>2 DEF Drain
<1>5. ASSUME NEW c \in Clients PROVE ClientInv(c)'
  <2>1. Still(c) /\ Known
    BY <1>2 DEF Still, Known
  <2> QED
    BY <1>2, <1>3, <1>4, <2>1, ServedKeeps DEF StreamInv
<1> QED
  BY <1>4, <1>5 DEF StreamInv

LEMMA CatchUpKeeps ==
  ASSUME StreamInv, CatchUp, SourceInv'
  PROVE  StreamInv'
<1>1. /\ cursor' = [c \in Clients |-> CaughtUp(c).cursor]
      /\ down' = [c \in Clients |-> down[c] \o CaughtUp(c).sent]
      /\ catchUp' = \E c \in Clients : CaughtUp(c).cursor.behind
      /\ UNCHANGED <<sock, up, online, outbox, tracked, panel, text>>
      /\ session' = session /\ ring' = ring
  BY DEF CatchUp, source, view
<1>2. ring.seq \in Nat /\ IsBuffer(ring)
  BY DEF StreamInv, SourceInv, IsBuffer
<1>3. Tables' /\ BehindIsWatched'
  BY <1>1 DEF StreamInv, Tables, BehindIsWatched
<1>4. ASSUME NEW c \in Clients PROVE ClientInv(c)'
  <2>0. /\ ClientInv(c) /\ SameSide(c) /\ down[c] \in Seq(Frames) /\ down[c] \o <<>> = down[c]
        /\ cursor[c] \in [seq : Int, behind : BOOLEAN]
        /\ cursor'[c] = CaughtUp(c).cursor /\ down'[c] = down[c] \o CaughtUp(c).sent
    BY <1>1, ConcatEmptySeq DEF StreamInv, ClientInv, DownOk, CursorInv, SameSide
  <2>1. CASE CaughtUp(c) = Idle(c)
    <3>1. cursor'[c] = cursor[c] /\ down'[c] = down[c]
      BY <2>0, <2>1 DEF Idle
    <3> QED
      BY <1>1, <2>0, <3>1, Untouched DEF SameSide, SameClient
  <2>2. CASE ~(CaughtUp(c) = Idle(c))
    <3>1. cursor[c].behind /\ cursor[c] # NoCursor
      BY <2>2 DEF CaughtUp, NoCursor
    <3>2. Known
      BY <2>0, <3>1 DEF ClientInv, CursorInv
    <3>3. Served(c) /\ Still(c)
      <4>1. CASE sock[c] # "open"
        <5>1. CaughtUp(c) = [Idle(c) EXCEPT !.cursor.behind = FALSE]
          BY <3>1, <4>1 DEF CaughtUp
        <5>2. CaughtUp(c).cursor = [cursor[c] EXCEPT !.behind = FALSE] /\ CaughtUp(c).sent = <<>>
          BY <5>1 DEF Idle
        <5>3. cursor'[c] = [seq |-> cursor[c].seq, behind |-> FALSE] /\ down'[c] = down[c]
          BY <2>0, <5>2, CursorExcept
        <5> QED
          BY <1>1, <3>1, <4>1, <5>3 DEF Served, Still, Attached
      <4>2. CASE sock[c] = "open"
        <5>1. CaughtUp(c) = Resync(c, ring) /\ Attached(c) /\ cursor[c].seq \in 0..ring.seq
          BY <2>0, <2>2, <3>1, <4>2 DEF CaughtUp, Attached, ClientInv, CursorInv
        <5>2. IsTurn(CaughtUp(c), c, ring)
          BY <1>2, <5>1, ResyncTurn
        <5>3. Served(c)
          <6>1. ring'.seq \in Nat /\ ring.seq <= ring'.seq /\ ring.seq \in Nat
            BY <1>1, <1>2
          <6> QED
            BY <2>0, <5>2, <6>1, TurnServes
        <5>4. Still(c)
          BY <1>1, <2>0, <5>1, <5>2, TurnLeaves DEF Still
        <5> QED
          BY <5>3, <5>4
      <4> QED
        BY <4>1, <4>2
    <3> QED
      BY <1>1, <1>2, <2>0, <3>2, <3>3, ServedKeeps
  <2> QED
    BY <2>1, <2>2
<1> QED
  BY <1>3, <1>4 DEF StreamInv

-----------------------------------------------------------------------------
LEMMA PtyKeeps ==
  ASSUME StreamInv, PtyData, SourceInv'
  PROVE  StreamInv'
<1>1. UNCHANGED <<session, ring, serving, sock, down, up, online, outbox, view>>
  BY DEF PtyData
<1>2. ASSUME NEW c \in Clients PROVE ClientInv(c)'
  BY <1>1, Untouched DEF StreamInv, SameClient, serving, view
<1> QED
  BY <1>1, <1>2 DEF StreamInv, Tables, BehindIsWatched, serving, view

LEMMA CreateKeeps ==
  ASSUME StreamInv, CreateElsewhere, SourceInv'
  PROVE  StreamInv'
<1>1. /\ session = "absent" /\ session' = "running"
      /\ UNCHANGED <<ring, cursor, catchUp, sock, up, online, outbox, tracked, panel, text>>
      /\ down' = [c \in Clients |-> IF sock[c] = "open" THEN down[c] \o <<Announced>> ELSE down[c]]
  BY DEF CreateElsewhere, serving, view
<1>2. Tables' /\ BehindIsWatched'
  BY <1>1 DEF StreamInv, Tables, BehindIsWatched
<1>3. ring.seq \in Nat
  BY DEF StreamInv, SourceInv, IsBuffer
<1>4. Announced \in Frames /\ ~IsData(Announced) /\ Announced.t = "session"
  BY EmptySeq DEF Announced, Frame, Frames, IsData, Untracked
<1> DEFINE f == Announced
<1> HIDE DEF f
<1>5. ASSUME NEW c \in Clients PROVE ClientInv(c)'
  <2>0. /\ ClientInv(c) /\ cursor[c] = NoCursor /\ ~Over(c)
        /\ UNCHANGED <<cursor[c], sock[c], up[c], online[c], outbox[c], tracked[c], panel[c], text[c], ring>>
    BY <1>1 DEF StreamInv, ClientInv, CursorInv, Known, Over
  <2>1. \/ down'[c] = down[c]
        \/ down'[c] = down[c] \o <<f>>
    BY <1>1 DEF f
  <2>2. /\ DownOk(down'[c], online[c], session', ring.seq)
        /\ down[c] # <<>> => down'[c] # <<>> /\ down'[c][1] = down[c][1]
        /\ NoData(down[c]) => NoData(down'[c])
        /\ sock[c] # "open" => down'[c] = down[c]
        /\ \A p, q : p \in Nat /\ q \in Nat /\ Chain(down[c], p, q) => Chain(down'[c], p, q)
    <3>1. DownOk(down[c], online[c], session, ring.seq) /\ down[c] \in Seq(Frames)
      BY <2>0 DEF ClientInv, DownOk
    <3>2. CASE down'[c] = down[c]
      BY <1>1, <3>1, <3>2 DEF DownOk
    <3>3. CASE down'[c] = down[c] \o <<f>> /\ sock[c] = "open"
      <4>1. /\ DownOk(down[c] \o <<f>>, online[c], session', ring.seq) /\ down[c] \o <<f>> # <<>>
            /\ down[c] # <<>> => (down[c] \o <<f>>)[1] = down[c][1]
            /\ NoData(down[c]) => NoData(down[c] \o <<f>>)
        <5>1. f \in Frames /\ ~IsData(f) /\ f.t # "ready" /\ f.t # "closed"
          BY <1>4 DEF f
        <5>2. session # "gone" /\ ring.seq <= ring.seq
          BY <1>1, <1>3
        <5> QED
          BY <1>3, <3>1, <5>1, <5>2, DownMore
      <4>2. \A q : Moves(q, f, q)
        BY <1>4 DEF Moves, f
      <4>3. ASSUME NEW p \in Nat, NEW q \in Nat, Chain(down[c], p, q) PROVE Chain(down[c] \o <<f>>, p, q)
        BY <1>4, <3>1, <4>2, <4>3, ChainMore DEF f
      <4> QED
        BY <3>3, <4>1, <4>3
    <3> QED
      BY <1>1, <3>2, <3>3 DEF f
  <2>3. LinkInv(c)' /\ CursorInv(c)'
    BY <1>1, <2>0, <2>2 DEF ClientInv, LinkInv, CursorInv, Known, Attached
  <2>4. UpInv(c)'
    BY <1>1, <2>0, <2>2 DEF ClientInv, UpInv, Asking, Leaving
  <2>5. PanelInv(c)'
    BY <1>1, <2>0, <2>2 DEF ClientInv, PanelInv, Asking, Attached
  <2> QED
    BY <2>0, <2>2, <2>3, <2>4, <2>5 DEF ClientInv
<1> QED
  BY <1>2, <1>5 DEF StreamInv

(* close(): what was pending is sent to whoever was served, then nobody is.  *)
LEMMA CloseKeeps ==
  ASSUME StreamInv, Close, SourceInv'
  PROVE  StreamInv'
<1> DEFINE b == Appended(ring, pending)
           r(c) == IF pending = <<>> THEN Idle(c) ELSE Serve(c, b, pending)
<1>1. /\ session' = "gone" /\ Known /\ ring' = b
      /\ cursor' = [c \in Clients |-> NoCursor]
      /\ UNCHANGED <<sock, up, online, outbox, tracked, panel, text>>
  BY DEF Close, view
<1>2. down' = [c \in Clients |-> IF sock[c] # "open" THEN down[c] ELSE down[c] \o r(c).sent \o <<Closed>>]
  BY DEF Close
<1>3. Tables' /\ BehindIsWatched'
  BY <1>1, <1>2 DEF StreamInv, Tables, BehindIsWatched, NoCursor
<1>4. ring.seq \in Nat /\ b.seq \in Nat /\ ring.seq <= b.seq /\ ring'.seq = b.seq
  BY <1>1, Flushed DEF StreamInv, SourceInv, IsBuffer
<1>5. Closed \in Frames /\ ~IsData(Closed) /\ Closed.t = "closed"
  BY EmptySeq DEF Closed, Frame, Frames, IsData, Untracked
<1>6. session # "gone" /\ (session # "running" => pending = <<>>)
  BY <1>1, Flushed DEF StreamInv, SourceInv, Known
<1> DEFINE f == Closed
<1> HIDE DEF f, b
<1>7. ASSUME NEW c \in Clients
      PROVE  \/ r(c).sent = <<>>
             \/ Attached(c) /\ \E g \in Frames : /\ r(c).sent = <<g>> /\ g.seq = b.seq /\ IsData(g)
                                                /\ g.t \in {"output", "snapshot"}
                                                /\ Moves(cursor[c].seq, g, g.seq)
  <2>1. CASE pending = <<>>
    BY <2>1 DEF Idle
  <2>2. CASE pending # <<>>
    <3>1. IsTurn(Serve(c, b, pending), c, b)
      BY <1>6, <2>2, ServeTurn DEF StreamInv, b
    <3> QED
      BY <2>2, <3>1 DEF IsTurn
  <2> QED
    BY <2>1, <2>2
<1> HIDE DEF r
<1>8. ASSUME NEW c \in Clients PROVE ClientInv(c)'
  <2>0. /\ ClientInv(c) /\ cursor'[c] = NoCursor
        /\ UNCHANGED <<sock[c], up[c], online[c], outbox[c], tracked[c], panel[c], text[c]>>
        /\ DownOk(down[c], online[c], session, ring.seq) /\ down[c] \in Seq(Frames)
    BY <1>1 DEF StreamInv, ClientInv, DownOk
  <2> DEFINE d == down[c] \o r(c).sent
  <2>1. /\ DownOk(d, online[c], session, b.seq)
        /\ down[c] # <<>> => d # <<>> /\ d[1] = down[c][1]
        /\ cursor[c] = NoCursor => d = down[c]
        /\ panel[c] = "shown" /\ up[c] = <<>> => \E q \in Nat : Chain(d, tracked[c], q)
    <3>1. CASE r(c).sent = <<>>
      <4>1. d = down[c]
        BY <2>0, <3>1, ConcatEmptySeq
      <4> QED
        BY <1>4, <2>0, <4>1 DEF ClientInv, PanelInv, DownOk
    <3>2. ASSUME Attached(c), NEW g \in Frames, r(c).sent = <<g>>, g.seq = b.seq, IsData(g),
                 g.t \in {"output", "snapshot"}, Moves(cursor[c].seq, g, g.seq)
          PROVE  /\ DownOk(d, online[c], session, b.seq)
                 /\ down[c] # <<>> => d # <<>> /\ d[1] = down[c][1]
                 /\ cursor[c] = NoCursor => d = down[c]
                 /\ panel[c] = "shown" /\ up[c] = <<>> => \E q \in Nat : Chain(d, tracked[c], q)
      <4>0. d = down[c] \o <<g>> /\ cursor[c] # NoCursor /\ g.seq \in 0..b.seq /\ g.seq \in Nat
        BY <1>4, <3>2 DEF Attached
      <4>1. DownOk(d, online[c], session, b.seq) /\ (down[c] # <<>> => d # <<>> /\ d[1] = down[c][1])
        BY <1>4, <2>0, <3>2, <4>0, DownMore
      <4>2. up[c] = <<>> => Chain(d, tracked[c], g.seq)
        BY <2>0, <3>2, <4>0, ChainMore DEF ClientInv, PanelInv
      <4> QED
        BY <4>0, <4>1, <4>2
    <3> QED
      BY <1>7, <3>1, <3>2
  <2>2. down'[c] = IF sock[c] # "open" THEN down[c] ELSE d \o <<f>>
    BY <1>2 DEF f
  <2> HIDE DEF d
  <2>3. f \in Frames /\ ~IsData(f) /\ f.t = "closed" /\ \A q : Moves(q, f, q)
    BY <1>5 DEF Moves, f
  <2>4. /\ DownOk(d \o <<f>>, online[c], "gone", b.seq) /\ d \o <<f>> # <<>>
        /\ d # <<>> => (d \o <<f>>)[1] = d[1]
        /\ NoData(d) => NoData(d \o <<f>>)
    <3>1. f.t # "ready" /\ b.seq <= b.seq /\ DownOk(d, online[c], session, b.seq)
      BY <1>4, <2>1, <2>3
    <3> QED
      BY <1>4, <2>3, <3>1, DownMore
  <2>5. panel[c] = "shown" /\ up[c] = <<>> => \E q \in Nat : Chain(d \o <<f>>, tracked[c], q)
    <3> SUFFICES ASSUME panel[c] = "shown", up[c] = <<>> PROVE \E q \in Nat : Chain(d \o <<f>>, tracked[c], q)
      OBVIOUS
    <3>1. PICK q \in Nat : Chain(d, tracked[c], q)
      BY <2>1
    <3>2. d \in Seq(Frames) /\ Moves(q, f, q)
      BY <2>1, <2>3 DEF DownOk
    <3> QED
      BY <2>3, <3>1, <3>2, ChainMore
  <2>6. /\ DownOk(down'[c], online[c], "gone", b.seq)
        /\ down[c] # <<>> => down'[c] # <<>> /\ down'[c][1] = down[c][1]
        /\ cursor[c] = NoCursor /\ NoData(down[c]) => NoData(down'[c])
        /\ sock[c] # "open" => down'[c] = down[c]
        /\ panel[c] = "shown" /\ up[c] = <<>> => \E q \in Nat : Chain(down'[c], tracked[c], q)
    <3>1. CASE sock[c] # "open"
      <4>1. DownOk(down[c], online[c], "gone", b.seq)
        BY <1>4, <2>0 DEF DownOk
      <4> QED
        BY <2>0, <2>2, <3>1, <4>1 DEF ClientInv, PanelInv
    <3>2. CASE sock[c] = "open"
      BY <2>1, <2>2, <2>4, <2>5, <3>2
    <3> QED
      BY <3>1, <3>2
  <2>7. DownOk(down[c], online[c], session, ring.seq)' /\ CursorInv(c)'
    BY <1>1, <1>4, <2>0, <2>6 DEF CursorInv, Known, Attached, NoCursor, Untracked
  <2>8. LinkInv(c)' /\ UpInv(c)'
    BY <1>1, <1>4, <1>6, <2>0, <2>6 DEF ClientInv, LinkInv, UpInv, Asking, Leaving, Over
  <2>9. PanelInv(c)'
    BY <1>4, <2>0, <2>6 DEF ClientInv, PanelInv, Asking, Attached
  <2> QED
    BY <2>7, <2>8, <2>9 DEF ClientInv
<1> QED
  BY <1>3, <1>8 DEF StreamInv

-----------------------------------------------------------------------------
(* One client's turns.                                                       *)
LEMMA OneClient ==
  ASSUME StreamInv, SourceInv', Tables', UNCHANGED <<session, ring, catchUp>>, NEW c \in Clients,
         \A d \in Clients \ {c} : SameClient(d), ClientInv(c)',
         cursor'[c] = cursor[c] \/ cursor'[c].behind = FALSE
  PROVE  StreamInv'
<1>1. ASSUME NEW d \in Clients PROVE ClientInv(d)'
  BY Untouched DEF StreamInv
<1>2. BehindIsWatched'
  BY DEF StreamInv, BehindIsWatched, SameClient
<1> QED
  BY <1>1, <1>2 DEF StreamInv

LEMMA LinkBreaksKeeps ==
  ASSUME StreamInv, SourceInv', NEW c \in Clients, LinkBreaks(c)
  PROVE  StreamInv'
<1>1. /\ online[c] # "off" /\ online' = [online EXCEPT ![c] = "off"]
      /\ sock' = [sock EXCEPT ![c] = "closing"] /\ down' = [down EXCEPT ![c] = <<>>]
      /\ up' = [up EXCEPT ![c] = <<>>]
      /\ UNCHANGED <<session, ring, cursor, catchUp, outbox, tracked, panel, text>>
  BY DEF LinkBreaks, source, serving, view
<1>2. Tables' /\ \A d \in Clients \ {c} : SameClient(d)
  BY <1>1 DEF StreamInv, Tables, SameClient
<1>3. /\ online'[c] = "off" /\ sock'[c] = "closing" /\ down'[c] = <<>> /\ up'[c] = <<>>
      /\ UNCHANGED <<session, ring, cursor[c], outbox[c], tracked[c], panel[c], text[c]>>
      /\ ClientInv(c) /\ outbox[c] = <<>>
  BY <1>1 DEF StreamInv, Tables, ClientInv, LinkInv
<1>4. NoData(<<>>) /\ <<>> \in Seq(Frames) /\ Len(<<>>) = 0
  BY EmptySeq DEF NoData
<1>5. tracked[c] \in Nat => Chain(<<>>, tracked[c], tracked[c])
  BY <1>4, ChainNone
<1>6. DownOk(down[c], online[c], session, ring.seq)'
  BY <1>3, <1>4 DEF DownOk
<1>7. LinkInv(c)' /\ CursorInv(c)' /\ UpInv(c)'
  BY <1>3 DEF ClientInv, LinkInv, CursorInv, UpInv, Known, Attached
<1>8. PanelInv(c)'
  BY <1>3, <1>4, <1>5 DEF ClientInv, PanelInv, Attached
<1> QED
  BY <1>1, <1>2, <1>3, <1>6, <1>7, <1>8, OneClient DEF ClientInv

LEMMA ServerClosesKeeps ==
  ASSUME StreamInv, SourceInv', NEW c \in Clients, ServerClosesSocket(c)
  PROVE  StreamInv'
<1>1. /\ sock[c] = "closing" /\ sock' = [sock EXCEPT ![c] = "none"]
      /\ cursor' = [cursor EXCEPT ![c] = NoCursor]
      /\ UNCHANGED <<session, ring, catchUp, down, up, online, outbox, tracked, panel, text>>
  BY DEF ServerClosesSocket, source, view
<1>2. Tables' /\ \A d \in Clients \ {c} : SameClient(d)
  BY <1>1 DEF StreamInv, Tables, SameClient
<1>3. /\ sock'[c] = "none" /\ cursor'[c] = NoCursor /\ cursor'[c].behind = FALSE
      /\ UNCHANGED <<session, ring, down[c], up[c], online[c], outbox[c], tracked[c], panel[c], text[c]>>
      /\ ClientInv(c) /\ online[c] = "off"
  BY <1>1 DEF StreamInv, Tables, ClientInv, LinkInv, NoCursor
<1>4. ClientInv(c)'
  BY <1>3 DEF ClientInv, LinkInv, CursorInv, UpInv, PanelInv, DownOk, Known, Attached, Asking,
              Leaving, Over, NoCursor, Untracked
<1> QED
  BY <1>1, <1>2, <1>3, <1>4, OneClient

LEMMA ConnectKeeps ==
  ASSUME StreamInv, SourceInv', NEW c \in Clients, Connect(c)
  PROVE  StreamInv'
<1> DEFINE f == Ready(Known)
<1>1. /\ online[c] = "off" /\ sock[c] = "none" /\ online' = [online EXCEPT ![c] = "opened"]
      /\ sock' = [sock EXCEPT ![c] = "open"] /\ down' = [down EXCEPT ![c] = <<f>>]
      /\ up' = [up EXCEPT ![c] = outbox[c]] /\ outbox' = [outbox EXCEPT ![c] = <<>>]
      /\ UNCHANGED <<session, ring, cursor, catchUp, tracked, panel, text>>
  BY DEF Connect, source, serving, view
<1>2. f \in Frames /\ ~IsData(f) /\ f.t = "ready"
  BY EmptySeq DEF Ready, Frame, Frames, IsData, Untracked, Known
<1> HIDE DEF f
<1>3. Tables' /\ \A d \in Clients \ {c} : SameClient(d)
  BY <1>1 DEF StreamInv, Tables, SameClient
<1>4. /\ online'[c] = "opened" /\ sock'[c] = "open" /\ down'[c] = <<f>> /\ up'[c] = outbox[c]
      /\ outbox'[c] = <<>> /\ cursor[c] = NoCursor /\ online[c] = "off"
      /\ UNCHANGED <<session, ring, cursor[c], tracked[c], panel[c], text[c]>>
      /\ ClientInv(c)
  BY <1>1 DEF StreamInv, Tables, ClientInv, LinkInv
<1>5. <<f>> \in Seq(Frames) /\ Len(<<f>>) = 1 /\ <<f>>[1] = f /\ <<f>> # <<>>
  BY <1>2
<1> DEFINE e == <<f>>
<1> HIDE DEF e
<1>6. NoData(e) /\ DownOk(e, "opened", session, ring.seq) /\ e # <<>> /\ e[1].t = "ready" /\ down'[c] = e
  BY <1>2, <1>4, <1>5 DEF NoData, DownOk, e
<1>7. tracked[c] \in Nat => Chain(e, tracked[c], tracked[c])
  BY <1>5, <1>6, ChainNone DEF e
<1>8. LinkInv(c)' /\ CursorInv(c)'
  <2>0. up'[c] = <<>> \/ (up'[c] = <<Detach>> /\ tracked[c] = Untracked)
    <3>1. outbox[c] = <<>> \/ (outbox[c] = <<Detach>> /\ tracked[c] = Untracked)
      BY <1>4 DEF ClientInv, LinkInv
    <3>2. up'[c] = outbox[c]
      BY <1>4
    <3> QED
      BY <3>1, <3>2
  <2>1. /\ down'[c] # <<>> /\ down'[c][1].t = "ready" /\ NoData(down'[c])
        /\ up'[c] = <<>> \/ (up'[c] = <<Detach>> /\ tracked[c] = Untracked)
    <3> QED
      BY <1>6, <2>0
  <2>2. LinkInv(c)'
    BY <1>4, <2>1 DEF LinkInv
  <2>3. CursorInv(c)'
    BY <1>4 DEF ClientInv, CursorInv, Known, Attached
  <2> QED
    BY <2>2, <2>3
<1>9. UpInv(c)'
  BY <1>4, <1>6 DEF ClientInv, LinkInv, UpInv, Leaving
<1>10. PanelInv(c)'
  BY <1>4, <1>6, <1>7 DEF ClientInv, LinkInv, PanelInv, Attached
<1> QED
  BY <1>1, <1>3, <1>4, <1>6, <1>8, <1>9, <1>10, OneClient DEF ClientInv

LEMMA RestoreKeeps ==
  ASSUME StreamInv, SourceInv', NEW c \in Clients, Restore(c), Overlap = {}
  PROVE  StreamInv'
<1>1. /\ panel[c] = "hidden" /\ Quiet(c)
      /\ panel' = [panel EXCEPT ![c] = "shown"] /\ text' = [text EXCEPT ![c] = <<>>]
      /\ tracked' = [tracked EXCEPT ![c] = 0]
      /\ UNCHANGED <<session, ring, cursor, catchUp, sock, down, online>>
  BY DEF Restore, MayRestore, OpenPanel, source, serving
<1>2. up' = [up EXCEPT ![c] = @ \o <<AttachFrom(0)>>] /\ outbox' = outbox
  BY <1>1 DEF Restore, Send, Quiet
<1>3. Tables' /\ \A d \in Clients \ {c} : SameClient(d)
  BY <1>1, <1>2 DEF StreamInv, Tables, SameClient
<1>4. /\ panel'[c] = "shown" /\ text'[c] = <<>> /\ tracked'[c] = 0 /\ up'[c] = <<AttachFrom(0)>>
      /\ online[c] = "ready" /\ cursor[c] = NoCursor /\ up'[c] # <<>>
      /\ UNCHANGED <<session, ring, cursor[c], sock[c], down[c], online[c], outbox[c]>>
      /\ ClientInv(c)
  BY <1>1, <1>2, Messages DEF StreamInv, Tables, Quiet
<1>5. NoData(down[c])
  BY <1>1, LenProperties DEF Quiet, NoData, StreamInv, ClientInv, DownOk
<1>6. Asking(c)'
  BY <1>4, <1>5 DEF Asking
<1>7. <<>> = Run(0, 0)
  BY RunEmpty
<1>8. ring.seq \in Nat
  BY DEF StreamInv, SourceInv, IsBuffer
<1>9. LinkInv(c)' /\ CursorInv(c)' /\ UpInv(c)' /\ DownOk(down[c], online[c], session, ring.seq)'
  BY <1>4, <1>6 DEF ClientInv, LinkInv, CursorInv, UpInv, DownOk, Known, Attached
<1>10. PanelInv(c)'
  BY <1>4, <1>6, <1>7, <1>8 DEF PanelInv, Untracked
<1> QED
  BY <1>1, <1>3, <1>4, <1>9, <1>10, OneClient DEF ClientInv

LEMMA MinimizeKeeps ==
  ASSUME StreamInv, SourceInv', NEW c \in Clients, Minimize(c)
  PROVE  StreamInv'
<1>1. /\ panel[c] = "shown"
      /\ panel' = [panel EXCEPT ![c] = "hidden"] /\ text' = [text EXCEPT ![c] = <<>>]
      /\ tracked' = [tracked EXCEPT ![c] = Untracked]
      /\ UNCHANGED <<session, ring, cursor, catchUp, sock, down, online>>
  BY DEF Minimize, source, serving
<1>2. IF online[c] = "off"
      THEN outbox' = [outbox EXCEPT ![c] = Queued(@, Detach)] /\ UNCHANGED up
      ELSE up' = [up EXCEPT ![c] = @ \o <<Detach>>] /\ UNCHANGED outbox
  BY DEF Minimize, Send
<1>3. Tables' /\ \A d \in Clients \ {c} : SameClient(d)
  BY <1>1, <1>2 DEF StreamInv, Tables, SameClient
<1>4. /\ panel'[c] = "hidden" /\ text'[c] = <<>> /\ tracked'[c] = Untracked
      /\ UNCHANGED <<session, ring, cursor[c], sock[c], down[c], online[c]>>
      /\ ClientInv(c) /\ outbox[c] = <<>> /\ tracked[c] \in 0..ring.seq
  BY <1>1 DEF StreamInv, Tables, ClientInv, LinkInv, PanelInv, Untracked
<1>5. DownOk(down[c], online[c], session, ring.seq)' /\ CursorInv(c)'
  BY <1>4 DEF ClientInv, DownOk, CursorInv, Known, Attached
<1>6. CASE online[c] = "off"
  <2>1. outbox'[c] = <<Detach>> /\ up'[c] = up[c] /\ up[c] = <<>>
    <3>1. outbox'[c] = Queued(<<>>, Detach)
      BY <1>2, <1>4, <1>6 DEF StreamInv, Tables
    <3>2. Queued(<<>>, Detach) = <<Detach>>
      BY Messages, EmptySeq, StreamAssumption DEF Queued
    <3> QED
      BY <1>2, <1>4, <1>6, <3>1, <3>2 DEF ClientInv, LinkInv
  <2>2. LinkInv(c)' /\ UpInv(c)' /\ PanelInv(c)'
    BY <1>4, <1>6, <2>1 DEF ClientInv, LinkInv, UpInv, PanelInv, Attached
  <2> QED
    BY <1>1, <1>3, <1>4, <1>5, <2>2, OneClient DEF ClientInv
<1>7. CASE online[c] # "off"
  <2>1. up'[c] = up[c] \o <<Detach>> /\ outbox'[c] = <<>>
    BY <1>2, <1>4, <1>7 DEF StreamInv, Tables
  <2>2. \/ up[c] = <<>> /\ up'[c] = <<Detach>>
        \/ online[c] = "ready" /\ up'[c] = <<AttachFrom(tracked[c]), Detach>>
    BY <1>1, <1>4, <2>1, Messages DEF ClientInv, PanelInv, Asking
  <2>3. Leaving(c)' /\ up'[c] # <<>>
    BY <1>4, <2>2, Messages DEF Leaving
  <2>4. LinkInv(c)'
    BY <1>4, <1>7, <2>1, <2>2 DEF ClientInv, LinkInv
  <2>5. UpInv(c)' /\ PanelInv(c)'
    BY <1>4, <2>3 DEF UpInv, PanelInv
  <2> QED
    BY <1>1, <1>3, <1>4, <1>5, <2>4, <2>5, OneClient DEF ClientInv
<1> QED
  BY <1>6, <1>7

LEMMA ServerReadsKeeps ==
  ASSUME StreamInv, SourceInv', NEW c \in Clients, ServerReads(c)
  PROVE  StreamInv'
<1> DEFINE m == Head(up[c])
<1>1. /\ sock[c] = "open" /\ up[c] # <<>> /\ up' = [up EXCEPT ![c] = Tail(@)]
      /\ UNCHANGED <<session, ring, catchUp, sock, online, outbox, tracked, panel, text>>
  BY DEF ServerReads, source, view
<1>2. /\ up'[c] = Tail(up[c])
      /\ UNCHANGED <<session, ring, sock[c], online[c], outbox[c], tracked[c], panel[c], text[c]>>
      /\ ClientInv(c) /\ down[c] \in Seq(Frames) /\ DownOk(down[c], online[c], session, ring.seq)
  BY <1>1 DEF StreamInv, Tables, ClientInv, DownOk
<1>3. ring.seq \in Nat /\ IsBuffer(ring)
  BY DEF StreamInv, SourceInv, IsBuffer
<1>4. AttachFrom(0).t = "attach" /\ Detach.t = "detach" /\ \A n : AttachFrom(n).t = "attach" /\ AttachFrom(n).sinceSeq = n
  BY DEF AttachFrom, Detach
<1>5. CASE m.t = "attach" /\ Attach(c, m.sinceSeq)
  <2> DEFINE n == m.sinceSeq
             f == Snapshot(Since(ring, n))
  <2>1. /\ Known /\ down' = [down EXCEPT ![c] = @ \o <<f>>]
        /\ cursor' = [cursor EXCEPT ![c] = [seq |-> Since(ring, n).seq, behind |-> FALSE]]
    BY <1>5 DEF Attach
  <2>2. \/ Asking(c) /\ n = tracked[c] /\ up'[c] = <<>>
        \/ Leaving(c) /\ online[c] = "ready" /\ n \in 0..ring.seq /\ up'[c] = <<Detach>>
    <3>1. CASE Asking(c)
      BY <1>2, <1>4, <3>1, Messages DEF Asking
    <3>2. CASE Leaving(c)
      <4>1. up[c] # <<Detach>>
        BY <1>4, <1>5, Messages
      <4>2. PICK k \in 0..ring.seq : up[c] = <<AttachFrom(k), Detach>>
        BY <3>2, <4>1 DEF Leaving
      <4>3. n = k /\ up'[c] = <<Detach>>
        BY <1>2, <1>4, <4>2, Messages
      <4>4. online[c] = "ready"
        BY <1>1, <1>2, <4>1 DEF ClientInv, LinkInv
      <4> QED
        BY <3>2, <4>2, <4>3, <4>4
    <3>3. ~Over(c)
      BY <2>1 DEF Over, Known
    <3> QED
      BY <1>1, <1>2, <3>1, <3>2, <3>3 DEF ClientInv, UpInv
  <2>3. n \in 0..ring.seq /\ online[c] = "ready" /\ panel[c] # "unknown"
    BY <1>1, <1>2, <2>2 DEF Asking, ClientInv, PanelInv, Untracked
  <2>4. /\ Since(ring, n).seq = ring.seq /\ f \in Frames /\ IsData(f) /\ f.seq = ring.seq
        /\ f.t = "snapshot" /\ Moves(n, f, f.seq)
    BY <1>3, <2>3, SnapshotMoves
  <2> HIDE DEF f, n
  <2>5. /\ cursor'[c] = [seq |-> ring.seq, behind |-> FALSE] /\ down'[c] = down[c] \o <<f>>
        /\ Tables' /\ \A d \in Clients \ {c} : SameClient(d)
    BY <1>1, <2>1, <2>4 DEF StreamInv, Tables, SameClient
  <2>6. cursor'[c].seq = ring.seq /\ cursor'[c].behind = FALSE /\ cursor'[c] \in [seq : Int, behind : BOOLEAN]
    BY <1>3, <2>5
  <2>7. DownOk(down'[c], online[c], session, ring.seq)
    <3>1. f.t # "ready" /\ f.t # "closed" /\ ring.seq <= ring.seq /\ f.seq \in 0..ring.seq
      BY <1>3, <2>4
    <3> QED
      BY <1>2, <1>3, <2>4, <2>5, <3>1, DownMore
  <2>8. Asking(c) => Chain(down'[c], tracked[c], ring.seq) /\ tracked[c] \in Nat
    <3> SUFFICES ASSUME Asking(c) PROVE Chain(down'[c], tracked[c], ring.seq) /\ tracked[c] \in Nat
      OBVIOUS
    <3>1. NoData(down[c]) /\ tracked[c] \in Nat /\ panel[c] # "unknown"
      BY <2>3 DEF Asking
    <3>2. n = tracked[c]
      BY <1>4, Messages DEF Asking, n
    <3>3. Chain(down[c], n, n)
      BY <1>2, <3>1, <3>2, ChainNone
    <3> QED
      BY <1>2, <1>3, <2>4, <2>5, <3>1, <3>2, <3>3, ChainMore
  <2>9. LinkInv(c)' /\ CursorInv(c)' /\ DownOk(down[c], online[c], session, ring.seq)'
    BY <1>1, <1>2, <1>3, <2>1, <2>3, <2>6, <2>7 DEF ClientInv, LinkInv, CursorInv, Known
  <2>10. UpInv(c)'
    BY <1>2, <2>2 DEF UpInv, Leaving
  <2>11. PanelInv(c)'
    <3>1. CASE Asking(c) /\ up'[c] = <<>>
      BY <1>2, <1>3, <2>3, <2>6, <2>8, <3>1 DEF ClientInv, PanelInv
    <3>2. CASE Leaving(c) /\ up'[c] = <<Detach>>
      BY <1>2, <2>3, <3>2, Messages DEF ClientInv, PanelInv, Leaving
    <3> QED
      BY <2>2, <3>1, <3>2
  <2> QED
    BY <1>1, <2>5, <2>6, <2>9, <2>10, <2>11, OneClient DEF ClientInv
<1>6. CASE m.t = "detach" /\ cursor' = [cursor EXCEPT ![c] = NoCursor] /\ UNCHANGED down
  <2>1. /\ cursor'[c] = NoCursor /\ cursor'[c].behind = FALSE /\ down'[c] = down[c]
        /\ Tables' /\ \A d \in Clients \ {c} : SameClient(d)
    BY <1>1, <1>6 DEF StreamInv, Tables, SameClient, NoCursor
  <2>2. panel[c] \in {"hidden", "gone"} /\ (up'[c] = <<>> \/ Over(c))
    <3>1. ~Asking(c)
      BY <1>4, <1>6, Messages DEF Asking
    <3>2. CASE Leaving(c)
      <4>1. up[c] = <<Detach>>
        BY <1>4, <1>6, <3>2, Messages DEF Leaving
      <4> QED
        BY <1>2, <3>2, <4>1, Messages DEF Leaving
    <3>3. CASE Over(c)
      BY <3>3 DEF Over
    <3> QED
      BY <1>1, <1>2, <3>1, <3>2, <3>3 DEF ClientInv, UpInv
  <2>3. online[c] = "opened" => up'[c] = <<>>
    BY <1>1, <1>2, Messages DEF ClientInv, LinkInv
  <2>4. LinkInv(c)' /\ CursorInv(c)' /\ DownOk(down[c], online[c], session, ring.seq)'
    BY <1>1, <1>2, <2>1, <2>3 DEF ClientInv, LinkInv, CursorInv, Known, Attached, NoCursor, Untracked
  <2>5. UpInv(c)' /\ PanelInv(c)'
    BY <1>2, <2>1, <2>2 DEF ClientInv, UpInv, PanelInv, Over, Attached
  <2> QED
    BY <1>1, <2>1, <2>4, <2>5, OneClient DEF ClientInv
<1>7. CASE ~Known /\ m.t = "attach" /\ UNCHANGED <<cursor, down>>
  <2>1. /\ cursor'[c] = cursor[c] /\ down'[c] = down[c] /\ cursor[c] = NoCursor
        /\ Tables' /\ \A d \in Clients \ {c} : SameClient(d)
    BY <1>1, <1>2, <1>7 DEF StreamInv, Tables, SameClient, ClientInv, CursorInv
  <2>2. \/ Asking(c) /\ up'[c] = <<>>
        \/ Leaving(c) /\ up'[c] = <<Detach>>
        \/ Over(c)
    <3>1. CASE Asking(c)
      BY <1>2, <3>1, Messages DEF Asking
    <3>2. CASE Leaving(c)
      <4>1. up[c] # <<Detach>>
        BY <1>4, <1>7, Messages
      <4>2. PICK k \in 0..ring.seq : up[c] = <<AttachFrom(k), Detach>>
        BY <3>2, <4>1 DEF Leaving
      <4> QED
        BY <1>2, <3>2, <4>2, Messages
    <3> QED
      BY <1>1, <1>2, <3>1, <3>2 DEF ClientInv, UpInv
  <2>3. online[c] # "opened"
    BY <1>1, <1>2, <1>4, <1>7, Messages DEF ClientInv, LinkInv
  <2>4. Asking(c) => Chain(down[c], tracked[c], tracked[c]) /\ tracked[c] \in Nat
    BY <1>2, ChainNone DEF Asking
  <2>5. LinkInv(c)' /\ CursorInv(c)' /\ DownOk(down[c], online[c], session, ring.seq)'
    BY <1>1, <1>2, <2>1, <2>3 DEF ClientInv, LinkInv, CursorInv, Known, Attached
  <2>6. UpInv(c)'
    BY <1>2, <2>1, <2>2 DEF UpInv, Leaving, Over
  <2>7. PanelInv(c)'
    BY <1>1, <1>2, <2>1, <2>2, <2>4, Messages DEF ClientInv, PanelInv, Attached, Asking, Leaving, Over
  <2> QED
    BY <1>1, <2>1, <2>5, <2>6, <2>7, OneClient DEF ClientInv
<1> QED
  BY <1>5, <1>6, <1>7 DEF ServerReads

(* Reading a frame: what each kind of frame does to the panel.               *)
LEMMA ClientReadsKeeps ==
  ASSUME StreamInv, SourceInv', NEW c \in Clients, ClientReads(c)
  PROVE  StreamInv'
<1> DEFINE f == Head(down[c])
           g == Tail(down[c])
<1>1. /\ online[c] # "off" /\ down[c] # <<>> /\ down' = [down EXCEPT ![c] = Tail(@)]
      /\ UNCHANGED <<session, ring, cursor, catchUp, sock, outbox>>
  BY DEF ClientReads, source, serving
<1>2. \/ f.t = "ready" /\ ReadReady(c, f.flag)
      \/ f.t = "session" /\ ReadAnnounced(c) /\ UNCHANGED online
      \/ IsData(f) /\ ReadData(c, f) /\ UNCHANGED online
      \/ f.t = "closed" /\ DropPanel(c) /\ UNCHANGED <<up, online>>
  BY DEF ClientReads
<1>3. ring.seq \in Nat
  BY DEF StreamInv, SourceInv, IsBuffer
<1>4. /\ down'[c] = g /\ ClientInv(c) /\ DownOk(down[c], online[c], session, ring.seq)
      /\ UNCHANGED <<session, ring, cursor[c], sock[c], outbox[c]>>
      /\ cursor'[c] = cursor[c] /\ outbox[c] = <<>> /\ sock[c] = "open" /\ online[c] \in {"opened", "ready"}
  BY <1>1 DEF StreamInv, Tables, ClientInv, LinkInv
<1>5. /\ f = down[c][1] /\ f \in Frames /\ \A o2 : DownOk(g, o2, session, ring.seq)
      /\ NoData(down[c]) => NoData(g) /\ ~IsData(f)
      /\ IsData(f) => f.seq \in 0..ring.seq
      /\ f.t = "ready" => online[c] = "opened"
      /\ f.t = "closed" => session = "gone"
  BY <1>1, <1>3, <1>4, DownLess
<1>6. online[c] = "opened" => /\ f.t = "ready" /\ NoData(g) /\ cursor[c] = NoCursor
                              /\ up[c] = <<>> \/ (up[c] = <<Detach>> /\ tracked[c] = Untracked)
  BY <1>4, <1>5 DEF ClientInv, LinkInv
<1>7. ASSUME NEW p, NEW q, Chain(down[c], p, q) PROVE \E m \in Nat : Moves(p, f, m) /\ Chain(g, m, q)
  <2>1. down[c] \in Seq(Frames)
    BY <1>4 DEF DownOk
  <2> QED
    BY <1>1, <1>7, <2>1, ChainHead
<1> HIDE DEF f, g
<1>8. DownOk(down[c], online[c], session, ring.seq)'
  <2>1. DownOk(g, online'[c], session, ring.seq)
    BY <1>5
  <2> QED
    BY <1>4, <2>1
<1>9. CursorInv(c)'
  BY <1>4 DEF ClientInv, CursorInv, Known, Attached
<1>10. ASSUME online'[c] = "ready", Tables', \A d \in Clients \ {c} : SameClient(d), UpInv(c)', PanelInv(c)'
       PROVE  StreamInv'
  <2>1. LinkInv(c)'
    BY <1>4, <1>10 DEF LinkInv, ClientInv
  <2>2. ClientInv(c)' /\ UNCHANGED <<session, ring, catchUp>>
    BY <1>1, <1>8, <1>9, <1>10, <2>1 DEF ClientInv
  <2> QED
    BY <1>4, <1>10, <2>2, OneClient
<1>11. ASSUME NEW n \in Nat, up'[c] = <<AttachFrom(n)>>, tracked'[c] = n, n \in 0..ring.seq,
              cursor[c] = NoCursor, NoData(g), online'[c] = "ready",
              panel'[c] \in {"shown", "hidden", "gone"},
              panel'[c] = "shown" => \E a \in 0..n : text'[c] = Run(a, n)
       PROVE  UpInv(c)' /\ PanelInv(c)'
  <2>1. Asking(c)' /\ up'[c] # <<>>
    BY <1>4, <1>11, Messages DEF Asking
  <2> QED
    BY <1>4, <1>11, <2>1 DEF UpInv, PanelInv
<1>12. ASSUME OpenPanel(c), up' = [up EXCEPT ![c] = @ \o <<AttachFrom(0)>>], up[c] = <<>>,
              cursor[c] = NoCursor, NoData(g), online'[c] = "ready",
              online' = [online EXCEPT ![c] = "ready"] \/ online' = online
       PROVE  StreamInv'
  <2>1. /\ up'[c] = <<AttachFrom(0)>> /\ tracked'[c] = 0 /\ panel'[c] = "shown" /\ text'[c] = Run(0, 0)
        /\ Tables' /\ \A d \in Clients \ {c} : SameClient(d)
    BY <1>1, <1>12, Messages, RunEmpty DEF StreamInv, Tables, SameClient, OpenPanel
  <2>2. UpInv(c)' /\ PanelInv(c)'
    <3>1. 0 \in Nat /\ 0 \in 0..ring.seq /\ 0 \in 0..0
      BY <1>3
    <3> QED
      BY <1>11, <1>12, <2>1, <3>1
  <2> QED
    BY <1>10, <1>12, <2>1, <2>2
<1>13. ASSUME DropPanel(c), up' = up, online'[c] = "ready",
              online' = [online EXCEPT ![c] = "ready"] \/ online' = online,
              cursor[c] = NoCursor, up[c] \in {<<>>, <<Detach>>} \/ session = "gone"
       PROVE  StreamInv'
  <2>1. /\ up'[c] = up[c] /\ tracked'[c] = Untracked /\ panel'[c] = "gone"
        /\ Tables' /\ \A d \in Clients \ {c} : SameClient(d)
    BY <1>1, <1>13 DEF StreamInv, Tables, SameClient, DropPanel
  <2>2. UpInv(c)'
    BY <1>4, <1>13, <2>1 DEF UpInv, Leaving, Over
  <2>3. PanelInv(c)'
    BY <1>4, <1>13, <2>1 DEF PanelInv, Attached
  <2> QED
    BY <1>10, <1>13, <2>1, <2>2, <2>3
<1>14. CASE f.t = "ready" /\ ReadReady(c, f.flag)
  <2>1. /\ NoData(g) /\ cursor[c] = NoCursor
        /\ up[c] = <<>> \/ (up[c] = <<Detach>> /\ tracked[c] = Untracked)
        /\ online[c] = "opened" /\ online' = [online EXCEPT ![c] = "ready"]
    BY <1>5, <1>6, <1>14 DEF ReadReady
  <2>2. online'[c] = "ready"
    BY <2>1 DEF StreamInv, Tables
  <2>3. CASE panel[c] = "unknown" /\ OpenPanel(c) /\ up' = [up EXCEPT ![c] = @ \o <<AttachFrom(0)>>]
    <3>1. up[c] = <<>>
      BY <1>4, <2>3 DEF ClientInv, PanelInv
    <3> QED
      BY <1>12, <2>1, <2>2, <2>3, <3>1
  <2>4. CASE panel[c] # "unknown" /\ UNCHANGED view /\ up' = [up EXCEPT ![c] = @ \o Reattach(c)]
    <3>1. /\ up'[c] = up[c] \o Reattach(c) /\ UNCHANGED <<tracked[c], panel[c], text[c]>>
          /\ Tables' /\ \A d \in Clients \ {c} : SameClient(d)
      BY <1>1, <2>1, <2>4 DEF StreamInv, Tables, SameClient, view
    <3>2. CASE tracked[c] = Untracked
      <4>1. up'[c] = up[c]
        BY <2>1, <3>1, <3>2, Messages, ConcatEmptySeq, EmptySeq DEF Reattach
      <4>2. ~Asking(c) /\ panel[c] # "shown"
        BY <1>4, <2>1, <3>2 DEF Asking, ClientInv, PanelInv, Untracked
      <4>3. UpInv(c)'
        BY <1>4, <3>1, <4>1, <4>2 DEF ClientInv, UpInv, Leaving, Over
      <4>4. PanelInv(c)'
        BY <1>4, <2>1, <2>4, <3>1, <4>1, <4>2 DEF ClientInv, PanelInv, Attached
      <4> QED
        BY <1>10, <2>2, <3>1, <4>3, <4>4
    <3>3. CASE tracked[c] # Untracked
      <4>1. /\ tracked[c] \in 0..ring.seq /\ panel[c] \in {"shown", "hidden", "gone"}
            /\ panel[c] = "shown" => \E a \in 0..tracked[c] : text[c] = Run(a, tracked[c])
        BY <1>4, <2>4, <3>3 DEF ClientInv, PanelInv
      <4>2. up'[c] = <<AttachFrom(tracked[c])>> /\ tracked[c] \in Nat
        <5>0. up[c] = <<>>
          BY <2>1, <3>3
        <5>1. tracked[c] \in Nat
          <6>1. tracked[c] \in 0..ring.seq
            BY <4>1
          <6> QED
            BY <1>3, <6>1
        <5>2. Reattach(c) = <<AttachFrom(tracked[c])>>
          BY <3>3 DEF Reattach
        <5> QED
          BY <3>1, <5>0, <5>1, <5>2, Messages
      <4>3. UpInv(c)' /\ PanelInv(c)'
        <5> DEFINE n == tracked[c]
        <5>1. /\ n \in Nat /\ up'[c] = <<AttachFrom(n)>> /\ tracked'[c] = n /\ n \in 0..ring.seq
              /\ panel'[c] \in {"shown", "hidden", "gone"}
              /\ panel'[c] = "shown" => \E a \in 0..n : text'[c] = Run(a, n)
          <6>1. panel'[c] = panel[c] /\ tracked'[c] = n /\ text'[c] = text[c]
            BY <3>1
          <6>2. n \in Nat /\ up'[c] = <<AttachFrom(n)>>
            BY <4>2
          <6>3. /\ n \in 0..ring.seq /\ panel[c] \in {"shown", "hidden", "gone"}
                /\ panel[c] = "shown" => \E a \in 0..n : text[c] = Run(a, n)
            BY <4>1
          <6> HIDE DEF n
          <6> QED
            BY <6>1, <6>2, <6>3
        <5> HIDE DEF n
        <5> QED
          BY <1>11, <2>1, <2>2, <5>1
      <4> QED
        BY <1>10, <2>2, <3>1, <4>3
    <3> QED
      BY <3>2, <3>3
  <2>5. CASE panel[c] = "unknown" /\ UNCHANGED view /\ UNCHANGED up
    <3>1. /\ up'[c] = up[c] /\ UNCHANGED <<tracked[c], panel[c], text[c]>>
          /\ Tables' /\ \A d \in Clients \ {c} : SameClient(d)
      BY <1>1, <2>1, <2>5 DEF StreamInv, Tables, SameClient, view
    <3>2. up[c] = <<>>
      BY <1>4, <2>5 DEF ClientInv, PanelInv
    <3>3. UpInv(c)' /\ PanelInv(c)'
      BY <1>4, <2>1, <2>5, <3>1, <3>2 DEF UpInv, ClientInv, PanelInv, Attached
    <3> QED
      BY <1>10, <2>2, <3>1, <3>3
  <2>6. CASE DropPanel(c) /\ UNCHANGED up
    BY <1>13, <2>1, <2>2, <2>6
  <2> QED
    BY <1>14, <2>3, <2>4, <2>5, <2>6 DEF ReadReady
<1>15. CASE f.t = "session" /\ ReadAnnounced(c) /\ UNCHANGED online
  <2>1. online[c] = "ready" /\ online'[c] = "ready" /\ ~IsData(f)
    BY <1>4, <1>6, <1>15 DEF IsData
  <2>2. CASE panel[c] = "unknown"
    <3>1. up[c] = <<>> /\ cursor[c] = NoCursor /\ NoData(g)
      BY <1>4, <1>5, <2>2 DEF ClientInv, PanelInv
    <3> QED
      BY <1>12, <1>15, <2>1, <2>2, <3>1 DEF ReadAnnounced
  <2>3. CASE panel[c] # "unknown"
    <3>1. /\ up'[c] = up[c] /\ UNCHANGED <<tracked[c], panel[c], text[c], online[c]>>
          /\ Tables' /\ \A d \in Clients \ {c} : SameClient(d)
      BY <1>1, <1>15, <2>3 DEF StreamInv, Tables, SameClient, view, ReadAnnounced
    <3>2. Asking(c) => Asking(c)'
      BY <1>4, <1>5, <3>1 DEF Asking
    <3>3. UpInv(c)'
      BY <1>4, <3>1, <3>2 DEF ClientInv, UpInv, Leaving, Over
    <3>4. ASSUME NEW q, Chain(down[c], tracked[c], q) PROVE Chain(g, tracked[c], q)
      BY <1>7, <2>1, <3>4 DEF Moves
    <3>5. PanelInv(c)'
      BY <1>4, <2>3, <3>1, <3>2, <3>4 DEF ClientInv, PanelInv, Attached
    <3> QED
      BY <1>10, <2>1, <3>1, <3>3, <3>5
  <2> QED
    BY <2>2, <2>3
<1>16. CASE IsData(f) /\ ReadData(c, f) /\ UNCHANGED online
  <2>1. online[c] = "ready" /\ online'[c] = "ready" /\ panel[c] # "unknown" /\ ~Asking(c)
    BY <1>4, <1>5, <1>6, <1>16 DEF IsData, Asking, ClientInv, PanelInv
  <2>2. /\ tracked' = [tracked EXCEPT ![c] = Maximum(@, f.seq)] /\ UNCHANGED <<panel, up>>
        /\ text' = [text EXCEPT ![c] = IF panel[c] # "shown" THEN <<>>
                                       ELSE IF f.flag THEN f.data ELSE @ \o f.data]
    BY <1>16 DEF ReadData
  <2>3. /\ Tables' /\ \A d \in Clients \ {c} : SameClient(d)
        /\ up'[c] = up[c] /\ panel'[c] = panel[c] /\ tracked'[c] = Maximum(tracked[c], f.seq)
        /\ panel[c] = "shown" => text'[c] = IF f.flag THEN f.data ELSE text[c] \o f.data
    BY <1>1, <1>16, <2>2 DEF StreamInv, Tables, SameClient
  <2>4. /\ f.seq \in 0..ring.seq /\ tracked'[c] \in 0..ring.seq /\ f.seq \in Nat
        /\ tracked[c] \in Nat /\ tracked[c] <= f.seq => tracked'[c] = f.seq
    BY <1>3, <1>4, <1>5, <1>16, <2>3 DEF ClientInv, PanelInv, Untracked, Maximum
  <2>5. UpInv(c)'
    BY <1>4, <2>1, <2>3 DEF ClientInv, UpInv, Leaving, Over
  <2>6. ASSUME tracked[c] \in Nat, NEW q, Chain(down[c], tracked[c], q)
        PROVE  Continues(tracked[c], f) /\ tracked'[c] = f.seq /\ Chain(g, f.seq, q)
    <3>1. PICK m \in Nat : Moves(tracked[c], f, m) /\ Chain(g, m, q)
      BY <1>7, <2>6
    <3>2. Continues(tracked[c], f) /\ m = f.seq
      BY <1>16, <3>1 DEF Moves
    <3>3. tracked[c] <= f.seq
      BY <3>2 DEF Continues
    <3> QED
      BY <2>4, <2>6, <3>1, <3>2, <3>3
  <2>7. panel[c] = "shown" =>
          /\ up[c] = <<>> /\ tracked'[c] = f.seq /\ \E q \in Nat : Chain(g, f.seq, q)
          /\ \E a \in 0..f.seq : text'[c] = Run(a, f.seq)
    <3> SUFFICES ASSUME panel[c] = "shown"
                 PROVE  /\ up[c] = <<>> /\ tracked'[c] = f.seq /\ \E q \in Nat : Chain(g, f.seq, q)
                        /\ \E a \in 0..f.seq : text'[c] = Run(a, f.seq)
      OBVIOUS
    <3>1. up[c] = <<>> /\ tracked[c] \in Nat
      BY <1>4, <2>1 DEF ClientInv, PanelInv
    <3>2. PICK q \in Nat : Chain(down[c], tracked[c], q)
      BY <1>4, <3>1 DEF ClientInv, PanelInv
    <3>3. Continues(tracked[c], f) /\ tracked'[c] = f.seq /\ Chain(g, f.seq, q)
      BY <2>6, <3>1, <3>2
    <3>4. PICK a \in 0..f.seq : f.data = Run(a, f.seq) /\ (f.flag \/ a = tracked[c] \/ tracked[c] = 0)
      BY <3>3 DEF Continues
    <3>5. PICK b \in 0..tracked[c] : text[c] = Run(b, tracked[c])
      BY <1>4 DEF ClientInv, PanelInv
    <3>6. tracked[c] <= f.seq /\ a \in Nat /\ a <= f.seq /\ b \in Nat /\ b <= tracked[c]
      BY <2>4, <3>1, <3>3 DEF Continues
    <3>7. CASE f.flag
      BY <2>3, <3>1, <3>2, <3>3, <3>4, <3>7
    <3>8. CASE ~f.flag /\ a = tracked[c]
      <4>1. text'[c] = Run(b, f.seq)
        <5>1. text'[c] = text[c] \o f.data
          BY <2>3, <3>8
        <5>2. f.data = Run(tracked[c], f.seq)
          BY <3>4, <3>8
        <5>3. Run(b, tracked[c]) \o Run(tracked[c], f.seq) = Run(b, f.seq)
          BY <2>4, <3>1, <3>6, RunConcat
        <5> QED
          BY <3>5, <5>1, <5>2, <5>3
      <4>2. b \in 0..f.seq
        BY <2>4, <3>1, <3>6
      <4> QED
        BY <3>1, <3>2, <3>3, <4>1, <4>2
    <3>9. CASE ~f.flag /\ tracked[c] = 0
      <4>1. text[c] = <<>>
        BY <3>5, <3>6, <3>9, RunEmpty
      <4>2. f.data \in Seq(Nat) /\ <<>> \o f.data = f.data
        <5>1. Run(a, f.seq) \in Seq(Nat)
          BY <2>4, <3>6, RunFacts
        <5> QED
          BY <3>4, <5>1, ConcatEmptySeq
      <4>3. text'[c] = Run(a, f.seq)
        BY <2>3, <3>4, <3>9, <4>1, <4>2
      <4> QED
        BY <3>1, <3>2, <3>3, <4>3
    <3> QED
      BY <3>4, <3>7, <3>8, <3>9
  <2>8. up[c] = <<>> /\ Attached(c) => tracked'[c] \in Nat /\ Chain(g, tracked'[c], cursor[c].seq)
    BY <1>4, <2>4, <2>6 DEF ClientInv, PanelInv
  <2>9. PanelInv(c)'
    <3>1. Attached(c)' <=> Attached(c)
      BY <1>4 DEF Attached
    <3>2. panel[c] \in {"unknown", "shown", "hidden", "gone"}
      BY <1>4 DEF ClientInv, PanelInv
    <3> QED
      BY <1>4, <2>1, <2>3, <2>4, <2>7, <2>8, <3>1, <3>2 DEF PanelInv
  <2> QED
    BY <1>10, <2>1, <2>3, <2>5, <2>9
<1>17. CASE f.t = "closed" /\ DropPanel(c) /\ UNCHANGED <<up, online>>
  <2>1. online'[c] = "ready" /\ session = "gone" /\ cursor[c] = NoCursor
    BY <1>4, <1>5, <1>6, <1>17 DEF ClientInv, CursorInv, Known
  <2> QED
    BY <1>13, <1>17, <2>1
<1> QED
  BY <1>2, <1>14, <1>15, <1>16, <1>17

-----------------------------------------------------------------------------
(* No step breaks a chain.                                                   *)
LEMMA StreamStep ==
  ASSUME StreamInv, [Next]_vars, Overlap = {}
  PROVE  StreamInv'
<1>1. SourceInv'
  BY SourceStep DEF StreamInv
<1>2. CASE CreateElsewhere \/ PtyData \/ Flush \/ Exit \/ Close \/ CatchUp
  BY <1>1, <1>2, CreateKeeps, PtyKeeps, FlushKeeps, ExitKeeps, CloseKeeps, CatchUpKeeps
<1>3. ASSUME NEW c \in Clients,
             \/ ServerReads(c) \/ ClientReads(c) \/ Connect(c) \/ LinkBreaks(c)
             \/ ServerClosesSocket(c) \/ Restore(c) \/ Minimize(c)
      PROVE  StreamInv'
  BY <1>1, <1>3, ServerReadsKeeps, ClientReadsKeeps, ConnectKeeps, LinkBreaksKeeps,
     ServerClosesKeeps, RestoreKeeps, MinimizeKeeps
<1>4. \A c \in Clients : ~CreateHere(c)
  BY DEF CreateHere
<1>5. CASE UNCHANGED vars
  <2>1. \A c \in Clients : SameClient(c) /\ session' = session /\ ring' = ring
    BY <1>5 DEF vars, SameClient
  <2>2. \A c \in Clients : ClientInv(c)'
    BY <2>1, Untouched DEF StreamInv
  <2>3. Tables' /\ BehindIsWatched'
    BY <1>5 DEF vars, StreamInv, Tables, BehindIsWatched
  <2> QED
    BY <1>1, <2>2, <2>3 DEF StreamInv
<1> QED
  BY <1>2, <1>3, <1>4, <1>5 DEF Next

(* The inductive invariant of the stream.                                    *)
LEMMA StreamHolds ==
  ASSUME Overlap = {}
  PROVE  SafetySpec => []StreamInv
BY StreamInit, StreamStep, PTL DEF SafetySpec

LEMMA ShownIsOneRun == StreamInv => TextIsOneRun
<1> SUFFICES ASSUME StreamInv, NEW c \in Clients, panel[c] = "shown", text[c] # <<>>
             PROVE  /\ \A i \in 1..(Len(text[c]) - 1) : text[c][i + 1] = text[c][i] + 1
                    /\ tracked[c] = Last(text[c])
  BY DEF TextIsOneRun
<1>1. tracked[c] \in Nat /\ \E a \in 0..tracked[c] : text[c] = Run(a, tracked[c])
  BY DEF StreamInv, ClientInv, PanelInv
<1>2. PICK a \in 0..tracked[c] : text[c] = Run(a, tracked[c])
  BY <1>1
<1> DEFINE n == tracked[c] - a
<1>3. n \in Nat /\ a \in Nat /\ a <= tracked[c] /\ a + n = tracked[c]
  BY <1>1
<1>4. /\ text[c] \in Seq(Nat) /\ Len(text[c]) = n
      /\ \A i \in 1..n : text[c][i] = a + i
  <2> DEFINE m == tracked[c]
  <2>1. m \in Nat /\ a \in Nat /\ a <= m /\ m - a = n
    BY <1>1, <1>3
  <2>2. text[c] = Run(a, m)
    BY <1>2
  <2> HIDE DEF m, n
  <2>3. /\ Run(a, m) \in Seq(Nat) /\ Len(Run(a, m)) = m - a
        /\ \A i \in 1..(m - a) : Run(a, m)[i] = a + i
    BY <2>1, RunFacts
  <2> QED
    BY <2>1, <2>2, <2>3
<1>5. n # 0
  BY <1>4, EmptySeq
<1> HIDE DEF n
<1>6. ASSUME NEW i \in 1..(n - 1) PROVE text[c][i + 1] = text[c][i] + 1
  <2>1. i \in 1..n /\ i + 1 \in 1..n
    BY <1>3
  <2>2. text[c][i] = a + i /\ text[c][i + 1] = a + (i + 1)
    BY <1>4, <2>1
  <2> QED
    BY <1>3, <2>2
<1>7. Last(text[c]) = a + n
  BY <1>3, <1>4, <1>5 DEF Last
<1> QED
  BY <1>3, <1>4, <1>6, <1>7

LEMMA CursorsMatch == StreamInv => CursorsAreTrue
<1> SUFFICES ASSUME StreamInv PROVE CursorIsWhatWasSent
  BY DEF CursorsAreTrue, StreamInv
<1> SUFFICES ASSUME NEW c \in Clients, Attached(c), online[c] = "ready", up[c] = <<>>
             PROVE  LET sent == {i \in DOMAIN down[c] : IsData(down[c][i])} IN
                    cursor[c].seq = IF sent = {} THEN tracked[c]
                                    ELSE down[c][CHOOSE i \in sent : \A j \in sent : j <= i].seq
  BY DEF CursorIsWhatWasSent
<1>1. Chain(down[c], tracked[c], cursor[c].seq) /\ down[c] \in Seq(Frames)
  BY DEF StreamInv, ClientInv, PanelInv, DownOk
<1> QED
  BY <1>1, ChainEnd

(* What a panel shows is one run of the output up to the offset it resumes   *)
(* from, through breaks of the link, backpressure, eviction, minimizing and  *)
(* exits (_track, _reattachAll of connection.js; flush, attach and resync of *)
(* session-manager.js): for any number of clients, any limits and any        *)
(* chunks. A panel opens only when no other attach serves it: where two do,  *)
(* the run overlap refutes it.                                               *)
THEOREM ShownTextIsOneRun ==
  ASSUME Overlap = {}
  PROVE  SafetySpec => []TextIsOneRun
BY StreamHolds, ShownIsOneRun, PTL

(* The server knows what each client has: its cursor is where the client     *)
(* will be when it has read what is under way, so that no resync starts      *)
(* early or late, and while some client is behind the catch-up interval runs *)
(* (flush, attach, resync, armCatchUp); for any number of clients and any    *)
(* limits, under the same condition.                                         *)
THEOREM ServerCursorsAreTrue ==
  ASSUME Overlap = {}
  PROVE  SafetySpec => []CursorsAreTrue
BY StreamHolds, CursorsMatch, PTL
=============================================================================
