----------------------------- MODULE KvSnapshot -----------------------------
(***************************************************************************)
(* The file that carries the keys and values of a run over to another run  *)
(* (qx_write_accumulated_kv_snapshot, qx_read_accumulated_kv_snapshot): a  *)
(* header, one record per layer and position, and a SHA-256 trailer over   *)
(* both.  It is written in place, over the snapshot that was there.        *)
(*                                                                         *)
(* The vectors of a slot are represented by what they were computed from:  *)
(* the set of pairs of a position and the token that was fed there, plus   *)
(* Blank (memory no layer has written, with scale zero) or Foreign         *)
(* (anything else: an injected residual, a flipped byte).                  *)
(***************************************************************************)
EXTENDS Integers, Sequences, FiniteSets

CONSTANTS
  Tokens,
  Configs,      \* what a run and a snapshot must agree on
  Blank, Foreign,
  NoFile

Positions(c) == 0 .. c.ctx - 1
Layers(c) == 0 .. c.layers - 1
Formats == {"int8", "f16", "f32"}

ASSUME SnapshotAssumption ==
  /\ \A c \in Configs : /\ c.layers \in Nat \ {0} /\ c.ctx \in Nat \ {0}
                        /\ c.format \in Formats
  /\ Blank # Foreign
  /\ {Blank, Foreign} \cap (Nat \X Tokens) = {}

Values == SUBSET ((Nat \X Tokens) \cup {Blank, Foreign})

\* What the first n tokens of a text contribute.
FactsOf(text, n) == {<<i - 1, text[i]>> : i \in 1 .. n}

\* The slot a run that was fed text has at a position: layer 0 sees the
\* token's embedding, a higher layer what attention mixed from all before.
SlotOf(layer, position, text) ==
  IF layer = 0 THEN {<<position, text[position + 1]>>}
               ELSE FactsOf(text, position + 1)

\* text, last and hybrid are history: what the writing run had been fed,
\* the last token it selected, and whether it was a residual replay.
VARIABLE file

HeaderType == [config : Configs, positions : Nat, next : Tokens]
RowType(header) == [0 .. header.positions - 1 -> Values]

\* The trailer: empty, or the digest, which is taken to be what it was
\* computed from (SHA-256 without collisions).
NoDigest == <<>>
Digest(f) == << [header |-> f.header, rows |-> f.rows] >>
Intact(f) == f # NoFile /\ f.digest = Digest(f)

-----------------------------------------------------------------------------
(***************************************************************************)
(* Writing: open (which truncates) and header, the records layer by layer, *)
(* the digest.  A writer that stops in between leaves a prefix.            *)
(***************************************************************************)
OpenSnapshot(header, text, last, hybrid) ==
  file' = [header |-> header, rows |-> <<>>, digest |-> NoDigest,
           text |-> text, last |-> last, hybrid |-> hybrid]

WriteRow(row) == file' = [file EXCEPT !.rows = Append(@, row)]

WriteDigest == file' = [file EXCEPT !.digest = Digest(file)]

\* Afterwards something changes a record or the next token, or makes the file
\* shorter or longer, so that what stands in the trailer's place is no digest.
Damage ==
  /\ Intact(file)
  /\ \/ \E i \in 1 .. Len(file.rows) : \E p \in DOMAIN file.rows[i] :
          file' = [file EXCEPT !.rows[i][p] = {Foreign}]
     \/ \E t \in Tokens \ {file.header.next} :
          file' = [file EXCEPT !.header.next = t]
     \/ file' = [file EXCEPT !.digest = NoDigest]

-----------------------------------------------------------------------------
(***************************************************************************)
(* Reading.  The header must be the run's own, the scales of formats       *)
(* without scaling must be one, the digest must match.                     *)
(***************************************************************************)
ScalesReadable(f) ==
  f.header.config.format # "int8" =>
    \A i \in 1 .. Len(f.rows) : \A p \in DOMAIN f.rows[i] :
      f.rows[i][p] # {Blank}

Unverified(f, config) ==          \* mutant: the digest is not compared
  /\ f # NoFile
  /\ f.header.config = config
  /\ f.header.positions \in 1 .. config.ctx
  /\ Len(f.rows) = config.layers
  /\ ScalesReadable(f)

Accepts(f, config) ==
  /\ f # NoFile
  /\ f.header.config = config
  /\ f.header.positions \in 1 .. config.ctx
  /\ Len(f.rows) = config.layers
  /\ ScalesReadable(f)
  /\ Intact(f)
=============================================================================
