---------------------------- MODULE PreTokenizer ----------------------------
(***************************************************************************)
(* How a segment of text is cut into the chunks that byte pairs are merged *)
(* in: qx_tok_pretoken_length, a hand-written scanner, against the regular *)
(* expression of the Qwen2 pre-tokenizer it stands for:                    *)
(*                                                                         *)
(*   (?i:'s|'t|'re|'ve|'m|'ll|'d) | [^\r\n\p{L}\p{N}]?\p{L}+ | \p{N}       *)
(*   | ?[^\s\p{L}\p{N}]+[\r\n]* | \s*[\r\n]+ | \s+(?!\S) | \s+             *)
(*                                                                         *)
(* A character is a member of Characters that stands for its class; s, r   *)
(* and e are letters that can end a contraction ('s, 're).  The expression *)
(* is read over the classes of qx_tok_classify; that they are the Unicode  *)
(* categories it names is not shown.  Character widths are left out:       *)
(* offsets count characters.                                               *)
(***************************************************************************)
EXTENDS Integers, Sequences, FiniteSetsExt

CONSTANT MaxSegment   \* bound on the length of a segment; 4096 in the code

ASSUME SegmentAssumption == MaxSegment \in Nat

VARIABLE segment      \* of text

Characters ==
  { "s", "r", "e", "digit", "blank", "tab", "newline", "quote", "sign", "unknown" }

(* qx_tok_classify                                                         *)
ClassOf ==
  [s |-> "letter", r |-> "letter", e |-> "letter", digit |-> "number",
   blank |-> "space", tab |-> "space", newline |-> "newline",
   quote |-> "other", sign |-> "other", unknown |-> "unsupported"]

At(i) == ClassOf[segment[i + 1]]   \* i counts from 0

(* qx_tok_ascii_contract: its length, or 0.                                *)
Contraction(offset) ==
  LET follows(suffix) ==
        /\ offset + Len(suffix) < Len(segment)
        /\ SubSeq(segment, offset + 2, offset + 1 + Len(suffix)) = suffix
  IN IF segment[offset + 1] # "quote" THEN 0
     ELSE IF follows(<<"s">>) THEN 2
     ELSE IF follows(<<"r", "e">>) THEN 3
     ELSE 0

\* Where the run of characters of the classes, from i on, ends.
RunEnd(classes, i) ==
  Min({ j \in i .. Len(segment) :
          j = Len(segment) \/ At(j) \notin classes })

(***************************************************************************)
(* Mutant of WhitespaceLength: the blank before a word is not left to it.  *)
(***************************************************************************)
WholeRun(offset) ==
  LET end == RunEnd({"space", "newline"}, offset)
      newlines == { i \in offset .. end - 1 : At(i) = "newline" }
  IN IF newlines # {} THEN Max(newlines) + 1 - offset ELSE end - offset

(* A run of white space ends after its last newline; without one it leaves *)
(* its last character to what follows, unless that is all there is.        *)
WhitespaceLength(offset) ==
  LET end == RunEnd({"space", "newline"}, offset)
      newlines == { i \in offset .. end - 1 : At(i) = "newline" }
  IN IF newlines # {} THEN Max(newlines) + 1 - offset
     ELSE IF end = Len(segment) \/ end - offset = 1 THEN end - offset
     ELSE end - 1 - offset

(* The length of the chunk that starts at the offset; 0 is the error.      *)
PretokenLength(offset) ==
  LET first == At(offset)
      next == IF offset + 1 < Len(segment) THEN At(offset + 1) ELSE "end"
      wordEnd(i) == RunEnd({"letter"}, i)
      signsEnd(i) == RunEnd({"newline"}, RunEnd({"other"}, i))
  IN CASE first = "unsupported" -> 0
       [] first = "letter" -> wordEnd(offset) - offset
       [] first = "number" -> 1
       [] first = "newline" -> WhitespaceLength(offset)
       [] first = "other" ->
            IF Contraction(offset) > 0 THEN Contraction(offset)
            ELSE IF next = "unsupported" THEN 0
            ELSE IF next = "letter" THEN wordEnd(offset + 1) - offset
            ELSE signsEnd(offset) - offset
       [] first = "space" ->
            IF next = "unsupported" THEN 0
            ELSE IF next = "letter" THEN wordEnd(offset + 1) - offset
            ELSE IF next = "other" /\ segment[offset + 1] = "blank"
            THEN signsEnd(offset + 1) - offset
            ELSE WhitespaceLength(offset)

-----------------------------------------------------------------------------
(* A segment grows by one character of any class.                          *)
SplitInit == segment = <<>>

SplitNext ==
  /\ Len(segment) < MaxSegment
  /\ \E c \in Characters : segment' = Append(segment, c)

SplitSpec == SplitInit /\ [][SplitNext]_segment

-----------------------------------------------------------------------------
(* The expression: the lengths that each of its alternatives matches at an *)
(* offset.                                                                 *)
White == {"space", "newline"}

AllIn(classes, i, j) == \A x \in i .. j - 1 : At(x) \in classes

Alternatives(offset) ==
  LET lengths == 1 .. Len(segment) - offset
      starts(chars, p) == p = 1 => segment[offset + 1] \in chars
  IN << { n \in lengths : Contraction(offset) = n },
        { n \in lengths : \E p \in 0 .. 1 :
            /\ starts({"blank", "tab", "quote", "sign"}, p) /\ n > p
            /\ AllIn({"letter"}, offset + p, offset + n) },
        { n \in lengths : n = 1 /\ At(offset) = "number" },
        { n \in lengths : \E p \in 0 .. 1, m \in 1 .. n :
            /\ starts({"blank"}, p) /\ m > p
            /\ AllIn({"other"}, offset + p, offset + m)
            /\ AllIn({"newline"}, offset + m, offset + n) },
        { n \in lengths : \E m \in 0 .. n - 1 :
            /\ AllIn(White, offset, offset + m)
            /\ AllIn({"newline"}, offset + m, offset + n) },
        { n \in lengths :
            /\ AllIn(White, offset, offset + n)
            /\ offset + n = Len(segment) \/ At(offset + n) \in White },
        { n \in lengths : AllIn(White, offset, offset + n) } >>

(* The first alternative that matches wins, with its longest match (every  *)
(* alternative is greedy).                                                 *)
RegexLength(offset) ==
  LET matches == Alternatives(offset)
      first == Min({ k \in DOMAIN matches : matches[k] # {} })
  IN Max(matches[first])

(* On text of the classes it supports the scanner cuts where the           *)
(* expression does, at every offset; and it refuses a text only for a      *)
(* character of no class (qx_tok_pretoken_length).                         *)
CutAsRegex ==
  \A offset \in 0 .. Len(segment) - 1 :
    IF \A i \in offset .. Len(segment) - 1 : At(i) # "unsupported"
    THEN PretokenLength(offset) = RegexLength(offset)
    ELSE PretokenLength(offset) = 0 =>
           \E i \in {offset, offset + 1} :
             i < Len(segment) /\ At(i) = "unsupported"
=============================================================================
