----------------------------- MODULE Tokenizer ------------------------------
(***************************************************************************)
(* qx_tokenizer_encode: the text is cut at special tokens and into chunks, *)
(* and the byte pairs of each chunk are merged by rank (qx_tok_bpe_chunk). *)
(* One step per special token taken, chunk started, pass of the merge loop *)
(* and symbol looked up.                                                   *)
(*                                                                         *)
(* A byte is a member of Chars; its two-byte code point in the vocabulary  *)
(* is the same member (qx_tok_byte_codepoint is a bijection).  A symbol is *)
(* the sequence of the bytes it stands for.  How long a chunk is belongs   *)
(* to PreTokenizer: here a chunk takes any number of bytes up to the next  *)
(* special token, or fails.  The two hash indexes are exact maps, checked  *)
(* for duplicates when they are built.                                     *)
(***************************************************************************)
EXTENDS Integers, Sequences, SequencesExt

CONSTANTS
  Chars,        \* the bytes of the texts
  MaxText,      \* bound on the length of a text; 4096 in the code
  Tokenizers,   \* loaded tokenizers: [specials, merges, vocabulary, bos, eos];
                \* bos and eos are "off", "on", or "missing" (flag set, no id)
  Capacity      \* token_capacity of the caller's array

Strings == Seq(Chars)

ASSUME TokenizerAssumption ==
  /\ MaxText \in Nat /\ Capacity \in Nat
  /\ \A t \in Tokenizers :
       t.specials \in Seq(Strings) /\ t.merges \in Seq(Strings \X Strings)

VARIABLES
  tokenizer,   \* the one in use
  text,        \* input
  special,     \* parse_special
  offset,      \* start of the current chunk
  chunk,       \* its length; 0 between chunks
  symbols,     \* the symbols of the chunk that are not emitted yet
  work,        \* pairs looked up for the chunk
  tokens,      \* token_ids: [text, at, special]; `at` is where it came from
  encoding     \* "begin", "scan", "merge", "emit", "done" or the error

tokenizerVars ==
  <<tokenizer, text, special, offset, chunk, symbols, work, tokens, encoding>>

Texts == UNION { [1 .. n -> Chars] : n \in 0 .. MaxText }

EncodeInit ==
  /\ tokenizer \in Tokenizers
  /\ text \in Texts
  /\ special \in BOOLEAN
  /\ offset = 0 /\ chunk = 0 /\ symbols = <<>> /\ work = 0 /\ tokens = <<>>
  /\ encoding = "begin"

Fail(error) ==
  /\ encoding' = error
  /\ UNCHANGED <<tokenizer, text, special, offset, chunk, symbols, work, tokens>>

Emit(bytes, at, isSpecial) ==
  tokens' = Append(tokens, [text |-> bytes, at |-> at, special |-> isSpecial])

(* The token that marks the beginning or the end, if the flag asks for it; *)
(* it stands for no byte of the text.                                      *)
Mark(flag, error, next) ==
  IF flag = "missing" \/ (flag = "on" /\ Len(tokens) >= Capacity)
  THEN Fail(error)
  ELSE /\ IF flag = "on" THEN Emit(<<>>, offset, TRUE) ELSE UNCHANGED tokens
       /\ encoding' = next
       /\ UNCHANGED <<tokenizer, text, special, offset, chunk, symbols, work>>

BeginText ==
  /\ encoding = "begin"
  /\ Mark(tokenizer.bos, "invalid BOS configuration", "scan")

\* Special token s stands in the text at offset `at`.
Stands(s, at) ==
  at + Len(s) <= Len(text) /\ SubSeq(text, at + 1, at + Len(s)) = s

(* qx_tok_match_special: the longest that stands at the offset.            *)
MatchSpecial(at) ==
  LET standing == { s \in Range(tokenizer.specials) : Len(s) > 0 /\ Stands(s, at) }
  IN { s \in standing : \A t \in standing : Len(t) <= Len(s) }

(***************************************************************************)
(* Mutant of NextSpecialOffset: the first special token of the vocabulary  *)
(* that occurs ends the search.                                            *)
(***************************************************************************)
FirstInVocabulary(from) ==
  LET occurs(s) == { at \in from .. Len(text) : Len(s) > 0 /\ Stands(s, at) }
      found == { i \in DOMAIN tokenizer.specials : occurs(tokenizer.specials[i]) # {} }
  IN IF found = {} THEN Len(text) ELSE Min(occurs(tokenizer.specials[Min(found)]))

\* Where s stands first between `from` and the end of what was found before.
EarlierStart(s, from, before) ==
  LET starts == { at \in from .. before - Len(s) : Stands(s, at) }
  IN IF Len(s) = 0 \/ starts = {} THEN before ELSE Min(starts)

(* The offset that ends the segment.  The tokens compete in vocabulary     *)
(* order, and a later one counts only where it ends at or before the       *)
(* earliest one found so far.                                              *)
NextSpecialOffset(from) ==
  LET earliest[i \in 0 .. Len(tokenizer.specials)] ==
        IF i = 0 THEN Len(text)
        ELSE EarlierStart(tokenizer.specials[i], from, earliest[i - 1])
  IN earliest[Len(tokenizer.specials)]

TakeSpecial ==
  /\ encoding = "scan" /\ offset < Len(text) /\ special
  /\ \E s \in MatchSpecial(offset) :
       IF Len(tokens) >= Capacity
       THEN Fail("token output capacity exceeded")
       ELSE /\ Emit(s, offset, TRUE)
            /\ offset' = offset + Len(s)
            /\ UNCHANGED <<tokenizer, text, special, chunk, symbols, work, encoding>>

SegmentEnd == IF special THEN NextSpecialOffset(offset + 1) ELSE Len(text)

\* Every byte of the chunk is a symbol of its own at first.
StartChunk ==
  /\ encoding = "scan" /\ offset < Len(text)
  /\ ~(special /\ MatchSpecial(offset) # {})
  /\ \E n \in 1 .. Len(text) :
       /\ offset + n <= SegmentEnd
       /\ chunk' = n
       /\ symbols' = [i \in 1 .. n |-> <<text[offset + i]>>]
  /\ work' = 0
  /\ encoding' = "merge"
  /\ UNCHANGED <<tokenizer, text, special, offset, tokens>>

\* qx_tok_pretoken_length finds a character of an unsupported class.
RefuseChunk ==
  /\ encoding = "scan" /\ offset < Len(text)
  /\ ~(special /\ MatchSpecial(offset) # {})
  /\ Fail("input contains unsupported Unicode class")

-----------------------------------------------------------------------------
\* Places whose pair of symbols is a merge.
Mergeable ==
  { i \in 1 .. Len(symbols) - 1 :
      <<symbols[i], symbols[i + 1]>> \in Range(tokenizer.merges) }

Rank(i) ==
  CHOOSE r \in DOMAIN tokenizer.merges :
    tokenizer.merges[r] = <<symbols[i], symbols[i + 1]>>

\* The first place with the smallest rank (rank < best_rank).
BestPlace ==
  CHOOSE i \in Mergeable :
    \A j \in Mergeable : Rank(i) < Rank(j) \/ (Rank(i) = Rank(j) /\ i <= j)

(***************************************************************************)
(* Mutants: the limit is reached one pair too early (>= for >); the right  *)
(* symbol is left in the list.                                             *)
(***************************************************************************)
ReachesLimit(pairs) == 2 * pairs >= chunk * (chunk - 1)
KeepsRight(i) ==
  [symbols EXCEPT ![i] = symbols[i] \o symbols[i + 1]]

\* work_limit is n(n-1)/2, a whole number.
ExceedsLimit(pairs) == 2 * pairs > chunk * (chunk - 1)

MergedAt(i) ==
  [j \in 1 .. Len(symbols) - 1 |->
     IF j < i THEN symbols[j]
     ELSE IF j = i THEN symbols[i] \o symbols[i + 1]
     ELSE symbols[j + 1]]

\* One pass looks up every pair; the limit is tested at each of them.
Pairs == Len(symbols) - 1

MergePass ==
  /\ encoding = "merge"
  /\ IF Pairs > 0 /\ ExceedsLimit(work + Pairs)
     THEN Fail("BPE work limit exceeded")
     ELSE /\ work' = work + Pairs
          /\ \/ /\ Mergeable # {}
                /\ symbols' = MergedAt(BestPlace)
                /\ UNCHANGED encoding
             \/ /\ Mergeable = {}
                /\ encoding' = "emit"
                /\ UNCHANGED symbols
          /\ UNCHANGED <<tokenizer, text, special, offset, chunk, tokens>>

-----------------------------------------------------------------------------
\* Bytes of the chunk that are in tokens already.
EmittedBytes == chunk - Len(FlattenSeq(symbols))

EmitSymbol ==
  /\ encoding = "emit" /\ symbols # <<>>
  /\ IF Head(symbols) \notin tokenizer.vocabulary
     THEN Fail("BPE symbol missing from vocabulary")
     ELSE IF Len(tokens) >= Capacity
     THEN Fail("token output capacity exceeded")
     ELSE /\ Emit(Head(symbols), offset + EmittedBytes, FALSE)
          /\ symbols' = Tail(symbols)
          /\ UNCHANGED <<tokenizer, text, special, offset, chunk, work, encoding>>

EndChunk ==
  /\ encoding = "emit" /\ symbols = <<>>
  /\ offset' = offset + chunk
  /\ chunk' = 0 /\ work' = 0
  /\ encoding' = "scan"
  /\ UNCHANGED <<tokenizer, text, special, symbols, tokens>>

EndText ==
  /\ encoding = "scan" /\ offset = Len(text)
  /\ Mark(tokenizer.eos, "invalid EOS configuration", "done")

EncodeNext ==
  \/ BeginText \/ TakeSpecial \/ StartChunk \/ RefuseChunk
  \/ MergePass \/ EmitSymbol \/ EndChunk \/ EndText

EncodeSpec == EncodeInit /\ [][EncodeNext]_tokenizerVars

-----------------------------------------------------------------------------
(* The limit on the merge loop is a guard against a loop that runs away:   *)
(* no text reaches it, not even a chunk that merges into a single symbol,  *)
(* which needs every pair of the limit (qx_tok_bpe_chunk).                 *)
NeverGivesUp == encoding # "BPE work limit exceeded"

(* The tokens emitted so far, followed by the symbols still to emit, spell *)
(* the text up to the end of the current chunk: the tokens between the     *)
(* marks of beginning and end are the text, whatever was merged and        *)
(* wherever the text was cut (qx_tok_bpe_chunk, qx_tokenizer_encode).      *)
TokensSpellText ==
  FlattenSeq([i \in DOMAIN tokens |-> tokens[i].text]) \o FlattenSeq(symbols)
    = SubSeq(text, 1, offset + chunk)

(* Every occurrence of a special token in the part of the text that is     *)
(* encoded was taken as a special token, unless it overlaps another that   *)
(* was: none is cut up into byte pairs (qx_tok_next_special_offset).       *)
SpecialsTaken ==
  special =>
    \A s \in Range(tokenizer.specials) \ {<<>>}, at \in 0 .. offset - 1 :
      Stands(s, at) /\ at + Len(s) <= offset =>
        \E i \in DOMAIN tokens :
          /\ tokens[i].special
          /\ tokens[i].at < at + Len(s)
          /\ at < tokens[i].at + Len(tokens[i].text)
=============================================================================
