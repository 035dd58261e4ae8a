----------------------------- MODULE LimitBanner -----------------------------
(***************************************************************************)
(* lib/quota-limit.js: recognising, in what a terminal prints, the sentence  *)
(* "usage limit reached". A PTY hands its bytes over in pieces cut anywhere;  *)
(* each piece is stripped of escapes and box drawing, its blanks are folded,  *)
(* and it joins a rolling tail the patterns are tried on.                     *)
(*                                                                         *)
(* A character stands for a word or for part of one: "u" usage limit, "r"    *)
(* reached, "n" a word that vetoes ("approaching"), "t" a reset time, "<"     *)
(* and ">" the first and the last byte of an escape, "#" box drawing.         *)
(***************************************************************************)
EXTENDS Naturals, Sequences, SequencesExt

CONSTANTS
  Tokens,        \* what a program prints at a time: sequences of characters
  TailChars,     \* TAIL_CHARS
  ContextChars,  \* CONTEXT_CHARS
  MaxTokens      \* bound: how often it prints

VARIABLES
  written,   \* everything printed
  printed,   \* how many tokens
  flushed,   \* how much of it was delivered
  tail,      \* the session's tail in auto-resume's _tails
  hit,       \* what detectQuotaLimit made of the last piece
  since      \* history: characters joined since a cut that showed, TailChars at most

bvars == <<written, printed, flushed, tail, hit, since>>

(* stripAnsi: escapes vanish, a box character becomes a blank.                *)
stripAnsi(text) ==
  FoldLeftDomain(LAMBDA kept, i :
    IF (text[i] = "<" /\ i < Len(text) /\ text[i + 1] = ">") \/ (text[i] = ">" /\ i > 1 /\ text[i - 1] = "<")
    THEN kept ELSE Append(kept, IF text[i] = "#" THEN " " ELSE text[i]), <<>>, text)

(* collapse: a run of blanks is one blank; flatten also trims both ends.      *)
collapse(text) ==
  LET words == stripAnsi(text)
  IN FoldLeftDomain(LAMBDA kept, i :
       IF words[i] = " " /\ i > 1 /\ words[i - 1] = " " THEN kept ELSE Append(kept, words[i]), <<>>, words)
flatten(text) ==
  LET c == collapse(text)
      blank(i) == i \in DOMAIN c /\ c[i] = " "
  IN SubSeq(c, IF blank(1) THEN 2 ELSE 1, IF blank(Len(c)) THEN Len(c) - 1 ELSE Len(c))

LastChars(text) == SubSeq(text, IF Len(text) > TailChars THEN Len(text) - TailChars + 1 ELSE 1, Len(text))
appendTail(previous, chunk) == LastChars(previous \o collapse(chunk))

(* contextAround, extractReset, detectQuotaLimit: the veto and the reset time *)
(* are looked for around the first place the sentence stands at, and only     *)
(* there.                                                                     *)
Sentence == <<"u", " ", "r">>
Places(text) == {i \in DOMAIN text : i + 2 <= Len(text) /\ SubSeq(text, i, i + 2) = Sentence}
First(places) == CHOOSE i \in places : \A j \in places : i <= j
contextAround(text, i) ==
  SubSeq(text, IF i > ContextChars THEN i - ContextChars ELSE 1,
         IF i + 2 + ContextChars < Len(text) THEN i + 2 + ContextChars ELSE Len(text))
Says(context, char) == \E i \in DOMAIN context : context[i] = char
detectQuotaLimit(text) ==
  IF Places(text) = {} THEN "none"
  ELSE LET context == contextAround(text, First(Places(text)))
       IN IF Says(context, "n") THEN "none" ELSE IF Says(context, "t") THEN "dated" ELSE "undated"

Init == /\ written = <<>> /\ printed = 0 /\ flushed = 0 /\ tail = <<>>
        /\ hit = "none" /\ since = TailChars

Prints(token) ==
  /\ printed < MaxTokens /\ printed' = printed + 1
  /\ written' = written \o token /\ UNCHANGED <<flushed, tail, hit, since>>

(* The cut before a piece shows if it is inside an escape, of which both      *)
(* halves stay; or between two blanks, which both stay.                       *)
InEscape(piece) == flushed > 0 /\ written[flushed] = "<" /\ piece[1] = ">"
InBlanks(piece) ==
  /\ tail # <<>> /\ Last(tail) = " "
  /\ collapse(piece) # <<>> /\ Head(collapse(piece)) = " "
Joined(piece) ==
  LET n == Len(collapse(piece))
  IN IF InEscape(piece) THEN n - 1 ELSE IF InBlanks(piece) THEN n ELSE since + n

(* A piece of any length is delivered: AutoResumeManager.observe.             *)
Flushes(upTo) ==
  LET piece == SubSeq(written, flushed + 1, upTo) IN
  /\ tail' = appendTail(tail, piece)
  /\ hit' = detectQuotaLimit(tail') /\ flushed' = upTo
  /\ since' = IF Joined(piece) < TailChars THEN Joined(piece) ELSE TailChars
  /\ UNCHANGED <<written, printed>>

Next == \/ \E token \in Tokens : Prints(token)
        \/ \E upTo \in (flushed + 1)..Len(written) : Flushes(upTo)
Spec == Init /\ [][Next]_bvars

------------------------------------------------------------------------------
Delivered == collapse(SubSeq(written, 1, flushed))
LastOf(text, n) == SubSeq(text, IF Len(text) > n THEN Len(text) - n + 1 ELSE 1, Len(text))

============================================================================
