----------------------------- MODULE MCQxfFile -----------------------------
(***************************************************************************)
(* Tensor copies and a metadata file at one path.  With two tensors and an *)
(* alignment of 2 the data starts at 4, and the tensors of a copy at 4 and *)
(* 6; `even` and `odd` are both 8 units long, so that only their contents  *)
(* tell them apart: the first ends on an aligned position and has no tail  *)
(* to write, the second has one.  The reader refuses the next three: in    *)
(* `padded` tensors are longer than their type and dimensions say, in      *)
(* `hollow` they are empty, in `twins` both have one name.                 *)
(*                                                                         *)
(* A reader that is overtaken can find entries of `even` and of `odd` in   *)
(* one directory, which it refuses for their names, entries of one of them *)
(* and of `twins`, or a whole directory of another model.                  *)
(***************************************************************************)
EXTENDS QxfFile, TLC

CONSTANTS even, odd, padded, hollow, twins, meta

MCBytes ==
  even :> <<1, 2>> @@ odd :> <<2, 1>> @@ padded :> <<2, 2>> @@ hollow :> <<0, 0>>
    @@ twins :> <<1, 1>> @@ meta :> <<0, 0>>

MCGiven ==
  [m \in Models |-> IF m \in {padded, hollow, meta} THEN <<1, 1>> ELSE MCBytes[m]]

MCName ==
  [m \in Models |->
    IF m = odd THEN <<"b", "a">> ELSE IF m = twins THEN <<"b", "b">> ELSE <<"a", "b">>]

\* the layout loop of the writer: each tensor at the aligned end of the one before
MCOffset ==
  [m \in Models |->
    LET cursor[t \in Index] ==
          IF m \in Metadata THEN 0
          ELSE IF t = 1 THEN DataOffset
          ELSE AlignUp(cursor[t - 1] + Bytes[m][t - 1])
    IN cursor]
=============================================================================
