------------------------------ MODULE RingBuffer ------------------------------
(***************************************************************************)
(* The sequenced scrollback of one session (lib/ring-buffer.js). A chunk is  *)
(* a sequence of characters; the buffer counts the characters ever written  *)
(* and forgets the oldest ones, whole chunks at a time while it can.        *)
(***************************************************************************)
EXTENDS Integers, SequencesExt

CONSTANT MaxBytes

ASSUME MaxBytesAssumption == MaxBytes \in Nat \ {0}

EmptyBuffer == [chunks |-> <<>>, seq |-> 0, dropped |-> 0, size |-> 0]

Characters(chunks) == Len(FlattenSeq(chunks))

(* How many chunks go before the buffer fits, the last one always staying.  *)
ShiftedChunks(b) ==
  CHOOSE k \in 0..(Len(b.chunks) - 1) :
    LET Fits(j) == \/ b.size - Characters(SubSeq(b.chunks, 1, j)) <= MaxBytes
                   \/ j = Len(b.chunks) - 1
    IN Fits(k) /\ \A j \in 0..(k - 1) : ~Fits(j)

(* Wrong on purpose: a chunk that is cut is not counted as dropped.         *)
TrimUncounted(b) ==
  LET k    == ShiftedChunks(b)
      gone == Characters(SubSeq(b.chunks, 1, k))
      over == IF b.size - gone > MaxBytes THEN b.size - gone - MaxBytes ELSE 0
      kept == SubSeq(b.chunks, k + 1, Len(b.chunks))
  IN [b EXCEPT
        !.chunks  = IF over = 0 THEN kept
                    ELSE <<SubSeq(kept[1], over + 1, Len(kept[1]))>>,
        !.size    = @ - gone - over,
        !.dropped = @ + gone]

(* A single chunk larger than the cap is cut.                               *)
Trim(b) ==
  LET k    == ShiftedChunks(b)
      gone == Characters(SubSeq(b.chunks, 1, k))
      over == IF b.size - gone > MaxBytes THEN b.size - gone - MaxBytes ELSE 0
      kept == SubSeq(b.chunks, k + 1, Len(b.chunks))
  IN [b EXCEPT
        !.chunks  = IF over = 0 THEN kept
                    ELSE <<SubSeq(kept[1], over + 1, Len(kept[1]))>>,
        !.size    = @ - gone - over,
        !.dropped = @ + gone + over]

Appended(b, data) ==
  IF data = <<>> THEN b
  ELSE Trim([b EXCEPT !.chunks = @ \o <<data>>,
                      !.size = @ + Len(data),
                      !.seq = @ + Len(data)])

(* The last `count` characters held.                                        *)
TailOf(b, count) ==
  LET held == FlattenSeq(b.chunks) IN
  IF Len(held) > count THEN SubSeq(held, Len(held) - count + 1, Len(held)) ELSE held

Maximum(i, j) == IF i > j THEN i ELSE j

(* Everything after `from`. Asking from 0 is never a gap: whoever does has  *)
(* nothing to redraw over.                                                  *)
Since(b, from) ==
  IF from >= b.seq
  THEN [data |-> <<>>, seq |-> b.seq, truncated |-> FALSE]
  ELSE [data |-> TailOf(b, b.seq - Maximum(from, b.dropped)),
        seq |-> b.seq,
        truncated |-> from > 0 /\ from < b.dropped]
==============================================================================
