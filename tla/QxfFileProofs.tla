--------------------------- MODULE QxfFileProofs ---------------------------
(***************************************************************************)
(* Proofs about QxfFile, for any models, any number of tensors and any     *)
(* layout the writer's loop computes.  The inductive invariant IInv says   *)
(* what the file holds in every phase of a writer, what stays true of it   *)
(* when the writer is gone, and what a reader knows between two reads;     *)
(* every property follows from it.                                         *)
(***************************************************************************)
EXTENDS QxfFile, TLAPS

-----------------------------------------------------------------------------
(***************************************************************************)
(* Layout arithmetic.                                                      *)
(***************************************************************************)
\* Rounding up loses nothing and lands on a multiple (qx_align_u64).
LEMMA AlignUpFacts ==
  ASSUME NEW n \in Nat
  PROVE  AlignUp(n) \in Nat /\ n <= AlignUp(n) /\ AlignUp(n) % Align = 0
<1> DEFINE q == (n + Align - 1) \div Align
<1>1. Align \in Nat /\ Align > 0
  BY SizesAssumption
<1>2. q \in Nat /\ q * Align <= n + Align - 1 /\ n + Align - 1 < q * Align + Align
  BY <1>1, SMT
<1>3. q * Align \in Nat
  BY <1>1, <1>2
<1>4. (q * Align) % Align = 0
  <2> HIDE DEF q
  <2> QED BY <1>1, <1>2, SMT
<1>5. AlignUp(n) = q * Align
  BY DEF AlignUp
<1>6. n <= q * Align
  <2> HIDE DEF q
  <2> QED BY <1>1, <1>2, <1>3
<1> QED BY <1>3, <1>4, <1>5, <1>6

\* Header, directory and data follow each other without overlap.
LEMMA HeaderFacts ==
  /\ DirOffset \in Nat /\ DirOffset >= 1
  /\ DataOffset \in Nat /\ DataOffset >= DirOffset + Tensors /\ DataOffset % Align = 0
<1>1. HeaderSize \in Nat /\ HeaderSize = 1
  BY DEF HeaderSize
<1>2. DirOffset \in Nat /\ DirOffset >= 1
  BY <1>1, AlignUpFacts DEF DirOffset
<1>3. DirOffset + Tensors \in Nat
  BY <1>2, SizesAssumption
<1> QED BY <1>2, <1>3, AlignUpFacts DEF DataOffset

\* The length of a file, and where its tensors lie in it.
LEMMA LayoutFacts ==
  ASSUME NEW m \in Models
  PROVE  /\ FileSize(m) \in Nat /\ DataOffset <= FileSize(m)
         /\ m \in Metadata => FileSize(m) = DataOffset
         /\ m \notin Metadata /\ Regular(m) => DataOffset < FileSize(m)
         /\ \A t \in Index :
              /\ Offset[m][t] \in Nat /\ Bytes[m][t] \in Nat
              /\ m \notin Metadata =>
                   /\ DataOffset <= Offset[m][t] /\ Offset[m][t] % Align = 0
                   /\ End(m, t) <= FileSize(m)
                   /\ t < Tensors => End(m, t) <= Offset[m][t + 1]
<1>1. \A t \in Index : Offset[m][t] \in Nat /\ Bytes[m][t] \in Nat
  BY SizesAssumption
<1>2. CASE m \in Metadata
  BY <1>1, <1>2, HeaderFacts DEF FileSize
<1>3. CASE m \notin Metadata
  <2>1. 1 \in Index /\ Tensors \in Index /\ Index \subseteq Nat
    BY SizesAssumption DEF Index
  <2>2. /\ Offset[m][1] = DataOffset
        /\ \A t \in Index : t < Tensors => Offset[m][t + 1] = AlignUp(End(m, t))
        /\ \A t, u \in Index : t < u => End(m, t) <= Offset[m][u]
    BY <1>3, LayoutAssumption
  <2>3. \A t \in Index : End(m, t) \in Nat /\ Offset[m][t] <= End(m, t)
    BY <1>1 DEF End
  <2>4. FileSize(m) \in Nat /\ End(m, Tensors) <= FileSize(m)
    BY <1>3, <2>1, <2>3, AlignUpFacts DEF FileSize
  <2>5. \A t \in Index : End(m, t) <= FileSize(m)
    <3> SUFFICES ASSUME NEW t \in Index PROVE End(m, t) <= FileSize(m)
      OBVIOUS
    <3>1. CASE t = Tensors
      BY <2>4, <3>1
    <3>2. CASE t # Tensors
      <4>1. t < Tensors
        BY <3>2, SizesAssumption DEF Index
      <4>2. End(m, t) <= Offset[m][Tensors]
        BY <2>1, <2>2, <4>1
      <4> QED BY <1>1, <2>1, <2>3, <2>4, <4>2
    <3> QED BY <3>1, <3>2
  <2>6. \A t \in Index : DataOffset <= Offset[m][t] /\ Offset[m][t] % Align = 0
    <3> SUFFICES ASSUME NEW t \in Index PROVE DataOffset <= Offset[m][t] /\ Offset[m][t] % Align = 0
      OBVIOUS
    <3>1. CASE t = 1
      BY <2>2, <3>1, HeaderFacts
    <3>2. CASE t # 1
      <4>1. t - 1 \in Index /\ t - 1 < Tensors /\ 1 < t /\ (t - 1) + 1 = t
        BY <3>2, SizesAssumption DEF Index
      <4>2. Offset[m][t] = AlignUp(End(m, t - 1))
        BY <2>2, <4>1
      <4>3. Offset[m][t] % Align = 0
        BY <2>3, <4>1, <4>2, AlignUpFacts
      <4>4. End(m, 1) <= Offset[m][t]
        BY <2>1, <2>2, <4>1
      <4> QED BY <1>1, <2>1, <2>2, <2>3, <4>3, <4>4, HeaderFacts
    <3> QED BY <3>1, <3>2
  <2>7. \A t \in Index : t < Tensors => End(m, t) <= Offset[m][t + 1]
    BY <2>2, <2>3, AlignUpFacts
  <2>8. DataOffset <= FileSize(m)
    BY <1>1, <2>1, <2>2, <2>3, <2>4, <2>5, HeaderFacts
  <2>9. ASSUME Regular(m) PROVE DataOffset < FileSize(m)
    <3>1. Bytes[m][1] > 0
      BY <1>3, <2>1, <2>9 DEF Regular
    <3>2. DataOffset < End(m, 1)
      BY <1>1, <2>1, <2>2, <3>1, HeaderFacts DEF End
    <3> QED BY <2>1, <2>3, <2>4, <2>5, <3>2, HeaderFacts
  <2> QED BY <1>1, <1>3, <2>4, <2>5, <2>6, <2>7, <2>8, <2>9
<1> QED BY <1>2, <1>3

-----------------------------------------------------------------------------
(***************************************************************************)
(* The inductive invariant.                                                *)
(***************************************************************************)
LEMMA InitInv == Init => IInv
<1> SUFFICES ASSUME Init PROVE IInv
  OBVIOUS
<1> USE DEF Init, Nothing
<1>1. TypeOK
  <2>1. size \in 0 .. MaxSize /\ at \in Index /\ units \in Nat /\ reading \in Index /\ got \in Nat
    BY SizesAssumption, MaxSizeAssumption DEF Index
  <2>2. /\ dir \in [Index -> Models \cup {None}] /\ sums \in [Index -> Models \cup {None}]
        /\ openDir \in [Index -> Models \cup {None}] /\ openSums \in [Index -> Models \cup {None}]
        /\ data \in [Positions -> Models \cup {None}]
    OBVIOUS
  <2>3. seen \subseteq Models \cup {None} /\ verified \subseteq Index /\ overtaken \in BOOLEAN
    OBVIOUS
  <2> QED BY <2>1, <2>2, <2>3 DEF TypeOK, Phases, Results, ReaderPhases
<1>2. DiskInv
  BY SizesAssumption DEF DiskInv, Full
<1>3. WriterInv
  BY SizesAssumption DEF WriterInv
<1>4. ReaderInv
  BY SizesAssumption DEF ReaderInv, Opening
<1> QED BY <1>1, <1>2, <1>3, <1>4 DEF IInv

\* A writer that leaves the header alone leaves the reader what it knows.
LEMMA ReaderUndisturbed ==
  ASSUME IInv, UNCHANGED reader, hdr' = hdr
  PROVE  ReaderInv'
BY DEF IInv, ReaderInv, Opening, reader, readerCopy, progress

LEMMA BeginInv ==
  ASSUME IInv, NEW m \in Models, Begin(m)
  PROVE  IInv'
<1> USE DEF IInv, Begin, Truncate, Nothing
<1>1. TypeOK'
  <2>1. size' \in 0 .. MaxSize /\ at' \in Index /\ units' \in Nat
    BY SizesAssumption, MaxSizeAssumption DEF Index
  <2>2. /\ dir' \in [Index -> Models \cup {None}]
        /\ sums' \in [Index -> Models \cup {None}]
        /\ data' \in [Positions -> Models \cup {None}]
    OBVIOUS
  <2>3. overtaken' \in BOOLEAN
    BY DEF TypeOK
  <2> QED BY <2>1, <2>2, <2>3 DEF TypeOK, Phases, Results, readerCopy, progress
<1>2. DiskInv'
  BY SizesAssumption DEF DiskInv, Full
<1>3. WriterInv'
  BY SizesAssumption DEF WriterInv, Index
<1>4. ReaderInv'
  BY DEF ReaderInv, readerCopy, progress
<1> QED BY <1>1, <1>2, <1>3, <1>4

LEMMA WriteHeaderInv ==
  ASSUME IInv, WriteHeader
  PROVE  IInv'
<1> USE DEF IInv, WriteHeader
<1>1. /\ copying \in Models /\ hdr = None /\ size = 0 /\ at = 1 /\ units = 0
      /\ \A t \in Index : dir[t] = None /\ sums[t] = None
  BY DEF TypeOK, WriterInv, DiskInv
<1>2. hdr' = copying /\ size' = 1 /\ copying # None
  BY <1>1, SizesAssumption DEF Larger, HeaderSize
<1>3. 1 <= DirOffset /\ DirOffset \in Nat /\ FileSize(copying) \in Nat /\ 1 < FileSize(copying)
      /\ FileSize(copying) <= MaxSize /\ MaxSize \in Nat
  <2>1. DirOffset \in Nat /\ DirOffset >= 1 /\ DataOffset \in Nat /\ DataOffset > 1
    BY HeaderFacts, SizesAssumption
  <2>2. FileSize(copying) \in Nat /\ DataOffset <= FileSize(copying)
    BY <1>1, LayoutFacts
  <2>3. FileSize(copying) <= MaxSize /\ MaxSize \in Nat
    BY <1>1, MaxSizeAssumption
  <2> QED BY <2>1, <2>2, <2>3
<1>4. TypeOK'
  BY <1>1, <1>2, <1>3 DEF TypeOK, Phases, reader, readerCopy, progress
<1>5. DiskInv'
  BY <1>1, <1>2, <1>3 DEF DiskInv, Full
<1>6. Listed(at)' /\ size' <= DirOffset' + at' - 1
  BY <1>1, <1>2, <1>3 DEF Listed, Index, DirOffset
<1>7. WriterInv'
  BY <1>1, <1>2, <1>6 DEF WriterInv
\* a reader that has read a header was overtaken by the copy that writes this one
<1>8. ReaderInv'
  <2>1. ~overtaken => rpc \notin Opening
    BY <1>1 DEF ReaderInv, Opening, TypeOK
  <2> QED BY <2>1 DEF ReaderInv, reader, readerCopy, progress
<1> QED BY <1>4, <1>5, <1>7, <1>8

LEMMA WriteEntryInv ==
  ASSUME IInv, WriteEntry
  PROVE  IInv'
<1> USE DEF IInv, WriteEntry
<1>1. /\ copying \in Models /\ hdr = copying /\ at \in Index /\ copying # None
      /\ Listed(at) /\ size <= DirOffset + at - 1 /\ size \in Nat /\ units = 0
      /\ \A t \in Index : sums[t] = None
  BY DEF TypeOK, WriterInv
<1>2. Index = 1 .. Tensors /\ Tensors \in Nat /\ Tensors >= 1
  BY SizesAssumption DEF Index
<1>3. /\ DirOffset \in Nat /\ DirOffset >= 1 /\ DataOffset \in Nat
      /\ DirOffset + Tensors <= DataOffset
      /\ FileSize(copying) \in Nat /\ DataOffset <= FileSize(copying)
      /\ FileSize(copying) <= MaxSize /\ MaxSize \in Nat
      /\ copying \notin Metadata /\ Regular(copying) => DataOffset < FileSize(copying)
  BY <1>1, HeaderFacts, LayoutFacts, MaxSizeAssumption
<1>4. size' = DirOffset + at /\ size < FileSize(copying)
  BY <1>1, <1>2, <1>3 DEF Larger
<1>5. \A t \in Index : sums'[t] = None
  BY <1>1 DEF TypeOK
<1>6. dir' \in [Index -> Models \cup {None}] /\ dir'[at] = copying
      /\ \A t \in Index : t # at => dir'[t] = dir[t]
  BY <1>1 DEF TypeOK
<1>7. TypeOK'
  <2>1. at' \in Index
    BY <1>1, <1>2
  <2>2. size' \in 0 .. MaxSize
    BY <1>1, <1>2, <1>3, <1>4
  <2>3. sums' \in [Index -> Models \cup {None}]
    BY DEF TypeOK
  <2> QED BY <1>6, <2>1, <2>2, <2>3 DEF TypeOK, Phases, reader, readerCopy, progress
<1>8. hdr' = copying
  BY <1>1
<1>9. \A t \in Index : t <= at => dir'[t] = copying
  BY <1>1, <1>2, <1>6 DEF Listed
\* only a metadata file can be complete with its directory
<1>10. Full' /\ Regular(copying) => at = Tensors /\ copying \in Metadata
  BY <1>1, <1>2, <1>3, <1>4, <1>8 DEF Full
<1>11. DiskInv'
  <2>1. size' <= FileSize(hdr)'
    BY <1>1, <1>2, <1>3, <1>4, <1>8
  <2>2. \A t \in Index : dir'[t] \in {None, hdr'}
    BY <1>1, <1>6, <1>8 DEF DiskInv
  <2>3. ASSUME Full', Regular(copying)
        PROVE  \A t \in Index : dir'[t] = copying /\ InPlace(copying, t)'
    <3>1. at = Tensors /\ copying \in Metadata
      BY <1>10, <2>3
    <3>2. \A t \in Index : SpanOf(copying, t) = {}
      BY <1>1, <3>1, MetadataAssumption DEF SpanOf, End
    <3>3. \A t \in Index : InPlace(copying, t)'
      BY <3>2 DEF InPlace
    <3> QED BY <1>2, <1>9, <3>1, <3>3
  <2> QED BY <1>1, <1>5, <1>8, <2>1, <2>2, <2>3 DEF DiskInv, Regular
<1>12. WriterInv'
  <2>1. CASE at = Tensors
    <3>1. wpc' = "padding" /\ at' = 1
      BY <2>1
    <3>2. Listed(Tensors + 1)'
      BY <1>2, <1>9, <2>1 DEF Listed
    <3> QED BY <1>1, <1>4, <1>5, <1>8, <2>1, <3>1, <3>2 DEF WriterInv
  <2>2. CASE at # Tensors
    <3>1. wpc' = "entries" /\ at' = at + 1
      BY <2>2
    <3>2. Listed(at)'
      BY <1>1, <1>2, <1>9, <3>1 DEF Listed
    <3>3. size' <= DirOffset + at' - 1
      BY <1>1, <1>2, <1>3, <1>4, <3>1
    <3> QED BY <1>1, <1>5, <1>8, <3>1, <3>2, <3>3 DEF WriterInv
  <2> QED BY <2>1, <2>2
<1> QED BY <1>7, <1>11, <1>12, ReaderUndisturbed

LEMMA WritePaddingInv ==
  ASSUME IInv, WritePadding
  PROVE  IInv'
<1> USE DEF IInv, WritePadding
<1>1. /\ copying \in Models /\ hdr = copying /\ at = 1 /\ units = 0 /\ copying # None
      /\ Listed(Tensors + 1) /\ size <= DirOffset + Tensors /\ size \in Nat
      /\ \A t \in Index : sums[t] = None
  BY DEF TypeOK, WriterInv
<1>2. Index = 1 .. Tensors /\ Tensors \in Nat /\ Tensors >= 1
  BY SizesAssumption DEF Index
<1>3. /\ DirOffset \in Nat /\ DataOffset \in Nat /\ DirOffset + Tensors <= DataOffset
      /\ FileSize(copying) \in Nat /\ DataOffset <= FileSize(copying)
      /\ FileSize(copying) <= MaxSize /\ MaxSize \in Nat
      /\ copying \in Metadata => FileSize(copying) = DataOffset
      /\ copying \notin Metadata /\ Regular(copying) => DataOffset < FileSize(copying)
  BY <1>1, HeaderFacts, LayoutFacts, MaxSizeAssumption
<1>4. size' = DataOffset
  BY <1>1, <1>2, <1>3 DEF Larger
<1>5. \A t \in Index : dir[t] = copying
  BY <1>1, <1>2 DEF Listed
<1>6. TypeOK'
  BY <1>1, <1>2, <1>3, <1>4 DEF TypeOK, Phases, reader, readerCopy, progress
<1>7. DiskInv'
  <2>1. ASSUME Full', Regular(copying) PROVE \A t \in Index : InPlace(copying, t)'
    <3>1. copying \in Metadata
      BY <1>1, <1>3, <1>4, <2>1 DEF Full
    <3>2. \A t \in Index : SpanOf(copying, t) = {}
      BY <1>1, <3>1, MetadataAssumption DEF SpanOf, End
    <3> QED BY <3>2 DEF InPlace
  <2> QED BY <1>1, <1>3, <1>4, <1>5, <2>1 DEF DiskInv, Regular
<1>8. WriterInv'
  <2>1. CASE copying \in Metadata
    <3>1. Full'
      BY <1>1, <1>3, <1>4, <2>1 DEF Full
    <3> QED BY <1>1, <2>1, <3>1 DEF WriterInv
  <2>2. CASE copying \notin Metadata
    <3>1. /\ 1 \in Index /\ Offset[copying][1] \in Nat /\ Bytes[copying][1] \in Nat
          /\ DataOffset <= Offset[copying][1]
      BY <1>1, <1>2, <2>2, LayoutFacts
    <3>2. units' = 0 /\ at' = 1 /\ wpc' = "data" /\ copying' = copying /\ hdr' = copying
          /\ sums' = sums
      BY <1>1, <2>2
    <3>3. Listed(Tensors + 1)'
      BY <1>5 DEF Listed
    <3>4. Copied(at)'
      BY <1>2, <3>2 DEF Copied
    <3>5. units' <= Bytes[copying'][at'] /\ size' <= Offset[copying'][at'] + units'
      BY <1>3, <1>4, <3>1, <3>2
    <3>6. \A p \in Offset[copying'][at'] .. (Offset[copying'][at'] + units' - 1) : FALSE
      BY <3>1, <3>2
    <3> QED BY <1>1, <2>2, <3>2, <3>3, <3>4, <3>5, <3>6 DEF WriterInv
  <2> QED BY <2>1, <2>2
<1> QED BY <1>6, <1>7, <1>8, ReaderUndisturbed

LEMMA CopyUnitInv ==
  ASSUME IInv, CopyUnit
  PROVE  IInv'
<1> USE DEF IInv, CopyUnit
<1>1. /\ copying \in Models \ Metadata /\ hdr = copying /\ at \in Index /\ copying # None
      /\ units \in Nat /\ size \in Nat /\ Listed(Tensors + 1)
      /\ \A t \in Index : sums[t] = None
  BY DEF TypeOK, WriterInv
<1>2. Index = 1 .. Tensors /\ Tensors \in Nat /\ Tensors >= 1
  BY SizesAssumption DEF Index
<1>3. /\ units < Bytes[copying][at] /\ size <= Offset[copying][at] + units /\ Copied(at)
      /\ \A p \in Offset[copying][at] .. (Offset[copying][at] + units - 1) :
           p < size /\ data[p] = copying
  BY DEF WriterInv
<1>4. /\ FileSize(copying) \in Nat /\ FileSize(copying) <= MaxSize /\ MaxSize \in Nat
      /\ \A t \in Index :
           /\ Offset[copying][t] \in Nat /\ Bytes[copying][t] \in Nat
           /\ End(copying, t) <= FileSize(copying)
           /\ t < Tensors => End(copying, t) <= Offset[copying][t + 1]
  BY <1>1, LayoutFacts, MaxSizeAssumption
<1> DEFINE here == Offset[copying][at] + units
<1>5. here \in Nat /\ size <= here /\ here < End(copying, at) /\ End(copying, at) \in Nat
  BY <1>1, <1>3, <1>4 DEF End
<1>6. here < FileSize(copying) /\ here \in Positions
  BY <1>1, <1>4, <1>5 DEF Positions
<1>7. size' = here + 1 /\ size < size' /\ size' <= FileSize(copying)
  BY <1>1, <1>4, <1>5, <1>6 DEF Larger
<1>8. data' = [data EXCEPT ![here] = copying]
  OBVIOUS
<1>9. /\ data' \in [Positions -> Models \cup {None}] /\ data'[here] = copying
      /\ \A p \in Positions : data'[p] = data[p] \/ data'[p] = copying
  BY <1>1, <1>6, <1>8 DEF TypeOK
<1>10. \A t \in Index : dir[t] = copying
  BY <1>1, <1>2 DEF Listed
<1>11. ASSUME NEW p \in Nat, p < size, data[p] = copying
       PROVE  p < size' /\ data'[p] = copying
  <2>1. p \in Positions
    BY <1>1, <1>4, <1>5, <1>6, <1>11 DEF Positions
  <2>2. p < size'
    BY <1>1, <1>5, <1>7, <1>11
  <2>3. data'[p] = copying
    BY <1>9, <1>11, <2>1
  <2> QED BY <2>2, <2>3
\* what was there of the earlier tensors still is
<1>12. \A t \in Index : t < at => InPlace(copying, t)'
  <2> SUFFICES ASSUME NEW t \in Index, t < at, NEW p \in SpanOf(copying, t)
               PROVE  p < size' /\ data'[p] = copying
    BY DEF InPlace
  <2>1. p < size /\ data[p] = copying
    BY <1>3 DEF Copied, InPlace
  <2>2. p \in Nat
    BY <1>4 DEF SpanOf, End
  <2> QED BY <1>11, <2>1, <2>2
\* and the unit just written extends the current one
<1>13. \A p \in Offset[copying][at] .. here : p < size' /\ data'[p] = copying
  <2> SUFFICES ASSUME NEW p \in Offset[copying][at] .. here
               PROVE  p < size' /\ data'[p] = copying
    OBVIOUS
  <2>1. CASE p = here
    BY <1>5, <1>7, <1>9, <2>1
  <2>2. CASE p # here
    <3>1. p \in Offset[copying][at] .. (Offset[copying][at] + units - 1) /\ p \in Nat
      BY <1>1, <1>4, <2>2
    <3> QED BY <1>3, <1>11, <3>1
  <2> QED BY <2>1, <2>2
<1>14. TypeOK'
  <2>1. size' \in 0 .. MaxSize /\ units' \in Nat
    BY <1>1, <1>4, <1>5, <1>7
  <2> QED BY <1>9, <2>1 DEF TypeOK, reader, readerCopy, progress
<1>15. units' = units + 1 /\ Offset[copying][at] + units' - 1 = here
  BY <1>1, <1>4
\* a file without empty tensors is complete at the earliest with its last one
<1>16. ASSUME Full', Regular(copying) PROVE \A t \in Index : InPlace(copying, t)'
  <2>1. \A t \in Index : Bytes[copying][t] > 0
    BY <1>1, <1>16 DEF Regular
  <2>2. size' = FileSize(copying)
    BY <1>1, <1>16 DEF Full
  <2>3. End(copying, at) = size'
    BY <1>1, <1>4, <1>5, <1>7, <2>2
  <2>4. at = Tensors
    <3>1. SUFFICES ASSUME at # Tensors PROVE FALSE
      OBVIOUS
    <3>2. at + 1 \in Index /\ at < Tensors
      BY <1>1, <1>2, <3>1
    <3>3. Offset[copying][at + 1] < End(copying, at + 1)
      BY <1>4, <2>1, <3>2 DEF End
    <3>4. End(copying, at) <= Offset[copying][at + 1]
      BY <1>1, <1>4, <3>2
    <3>5. End(copying, at + 1) <= FileSize(copying)
      BY <1>4, <3>2
    <3>6. Offset[copying][at + 1] \in Nat /\ End(copying, at + 1) \in Nat
      BY <1>4, <3>2 DEF End
    <3> QED BY <1>4, <1>5, <2>2, <2>3, <3>3, <3>4, <3>5, <3>6
  <2>5. InPlace(copying, at)'
    <3> SUFFICES ASSUME NEW p \in SpanOf(copying, at)
                 PROVE  p < size' /\ data'[p] = copying
      BY DEF InPlace
    <3>1. p \in Offset[copying][at] .. here
      BY <1>1, <1>4, <1>5, <1>7, <2>3 DEF SpanOf
    <3> QED BY <1>13, <3>1
  <2>6. ASSUME NEW t \in Index PROVE InPlace(copying, t)'
    <3>1. t < at \/ t = at
      BY <1>2, <2>4
    <3>2. CASE t < at
      BY <1>12, <3>2
    <3>3. CASE t = at
      BY <2>5, <3>3
    <3> QED BY <3>1, <3>2, <3>3
  <2> QED BY <2>6
<1>17. DiskInv'
  BY <1>1, <1>4, <1>7, <1>10, <1>16 DEF DiskInv, Regular
<1>18. WriterInv'
  <2>1. Listed(Tensors + 1)'
    BY <1>10 DEF Listed
  <2>2. Copied(at)'
    BY <1>12 DEF Copied
  <2>3. units' <= Bytes[copying][at] /\ size' <= Offset[copying][at] + units'
    BY <1>1, <1>3, <1>4, <1>7, <1>15
  <2> QED BY <1>1, <1>13, <1>15, <2>1, <2>2, <2>3 DEF WriterInv
<1> QED BY <1>14, <1>17, <1>18, ReaderUndisturbed

LEMMA NextTensorInv ==
  ASSUME IInv, NextTensor
  PROVE  IInv'
<1> USE DEF IInv, NextTensor, disk
<1>1. /\ copying \in Models \ Metadata /\ hdr = copying /\ at \in Index /\ copying # None
      /\ size \in Nat /\ Listed(Tensors + 1) /\ \A t \in Index : sums[t] = None
  BY DEF TypeOK, WriterInv
<1>2. Index = 1 .. Tensors /\ Tensors \in Nat /\ Tensors >= 1
  BY SizesAssumption DEF Index
<1>3. /\ size <= Offset[copying][at] + units /\ Copied(at) /\ units = Bytes[copying][at]
      /\ \A p \in Offset[copying][at] .. (Offset[copying][at] + units - 1) :
           p < size /\ data[p] = copying
  BY DEF WriterInv
<1>4. \A t \in Index :
        /\ Offset[copying][t] \in Nat /\ Bytes[copying][t] \in Nat
        /\ t < Tensors => End(copying, t) <= Offset[copying][t + 1]
  BY <1>1, LayoutFacts
<1>5. InPlace(copying, at)
  <2>1. SpanOf(copying, at) = Offset[copying][at] .. (Offset[copying][at] + units - 1)
    BY <1>1, <1>3, <1>4 DEF SpanOf, End
  <2> QED BY <1>3, <2>1 DEF InPlace
<1>6. \A t \in Index : t <= at => InPlace(copying, t)
  <2> SUFFICES ASSUME NEW t \in Index, t <= at PROVE InPlace(copying, t)
    OBVIOUS
  <2>1. CASE t = at
    BY <1>5, <2>1
  <2>2. CASE t # at
    <3>1. t < at
      BY <1>1, <1>2, <2>2
    <3> QED BY <1>3, <3>1 DEF Copied
  <2> QED BY <2>1, <2>2
<1>7. TypeOK'
  <2>1. at' \in Index /\ units' \in Nat
    BY <1>1, <1>2
  <2> QED BY <2>1 DEF TypeOK, Phases, reader, readerCopy, progress
<1>8. DiskInv'
  BY DEF DiskInv, Full, InPlace
<1>9. Listed(Tensors + 1)'
  BY <1>1 DEF Listed
<1>10. \A t \in Index : t <= at => InPlace(copying, t)'
  BY <1>6 DEF InPlace
<1>11. CASE at = Tensors
  <2>1. Copied(Tensors + 1)'
    BY <1>2, <1>10, <1>11 DEF Copied
  <2>2. WriterInv'
    BY <1>1, <1>9, <1>11, <2>1 DEF WriterInv
  <2> QED BY <1>7, <1>8, <2>2, ReaderUndisturbed
<1>12. CASE at # Tensors
  <2>1. at' = at + 1 /\ at + 1 \in Index /\ at < Tensors /\ units' = 0 /\ wpc' = "data"
    BY <1>1, <1>2, <1>12
  <2>2. Copied(at)'
    BY <1>1, <1>2, <1>10, <2>1 DEF Copied
  <2>3. End(copying, at) <= Offset[copying][at + 1] /\ Offset[copying][at + 1] \in Nat
    BY <1>1, <1>4, <2>1
  <2>4. size' <= Offset[copying][at + 1]
    BY <1>1, <1>3, <1>4, <2>3 DEF End
  <2>5. units' <= Bytes[copying'][at'] /\ size' <= Offset[copying'][at'] + units'
    BY <1>1, <1>4, <2>1, <2>3, <2>4
  <2>6. \A p \in Offset[copying'][at'] .. (Offset[copying'][at'] + units' - 1) : FALSE
    BY <2>1, <2>3
  <2>7. WriterInv'
    BY <1>1, <1>9, <2>1, <2>2, <2>5, <2>6 DEF WriterInv
  <2> QED BY <1>7, <1>8, <2>7, ReaderUndisturbed
<1> QED BY <1>11, <1>12

LEMMA WriteTailInv ==
  ASSUME IInv, WriteTail
  PROVE  IInv'
<1> USE DEF IInv, WriteTail
<1>1. /\ copying \in Models \ Metadata /\ hdr = copying /\ at = 1 /\ units = 0 /\ copying # None
      /\ size \in Nat /\ size <= FileSize(copying) /\ Listed(Tensors + 1) /\ Copied(Tensors + 1)
      /\ \A t \in Index : sums[t] = None
  BY DEF TypeOK, WriterInv, DiskInv
<1>2. Index = 1 .. Tensors /\ Tensors \in Nat /\ Tensors >= 1 /\ Tensors \in Index
  BY SizesAssumption DEF Index
<1>3. /\ FileSize(copying) \in Nat /\ FileSize(copying) <= MaxSize /\ MaxSize \in Nat
      /\ Offset[copying][Tensors] \in Nat /\ Bytes[copying][Tensors] \in Nat
      /\ End(copying, Tensors) <= FileSize(copying)
  BY <1>1, <1>2, LayoutFacts, MaxSizeAssumption
<1>4. size <= size' /\ size' <= FileSize(copying) /\ size' \in Nat
  BY <1>1, <1>3 DEF Larger, TailEnd
<1>5. \A t \in Index : dir[t] = copying /\ InPlace(copying, t)
  BY <1>1, <1>2 DEF Listed, Copied
\* without a tail the last tensor ends the file, if it is not empty
<1>6. Regular(copying) => Full'
  <2>1. CASE FileSize(copying) > End(copying, Tensors)
    BY <1>1, <1>3, <2>1 DEF Larger, TailEnd, Full
  <2>2. CASE ~(FileSize(copying) > End(copying, Tensors))
    <3> SUFFICES ASSUME Regular(copying) PROVE Full'
      OBVIOUS
    <3>1. Bytes[copying][Tensors] > 0
      BY <1>1, <1>2 DEF Regular
    <3>2. End(copying, Tensors) = FileSize(copying) /\ size' = size
      BY <1>3, <2>2 DEF End
    <3>3. End(copying, Tensors) - 1 \in SpanOf(copying, Tensors)
      BY <1>3, <3>1 DEF SpanOf, End
    <3>4. End(copying, Tensors) - 1 < size
      BY <1>2, <1>5, <3>3 DEF InPlace
    <3> QED BY <1>1, <1>3, <3>2, <3>4 DEF Full
  <2> QED BY <2>1, <2>2
<1>7. \A t \in Index : InPlace(copying, t)'
  <2> SUFFICES ASSUME NEW t \in Index, NEW p \in SpanOf(copying, t)
               PROVE  p < size' /\ data'[p] = copying
    BY DEF InPlace
  <2>1. p < size /\ data[p] = copying
    BY <1>5 DEF InPlace
  <2>2. p \in Int
    BY <1>1, LayoutFacts DEF SpanOf
  <2> QED BY <1>1, <1>4, <2>1, <2>2
<1>8. TypeOK'
  BY <1>3, <1>4 DEF TypeOK, Phases, reader, readerCopy, progress
<1>9. DiskInv'
  BY <1>1, <1>3, <1>4, <1>5, <1>7 DEF DiskInv, Regular
<1>10. Summed(at)' /\ Listed(Tensors + 1)'
  BY <1>1, <1>2 DEF Summed, Listed
<1>11. WriterInv'
  BY <1>1, <1>6, <1>10 DEF WriterInv, Regular
<1> QED BY <1>8, <1>9, <1>11, ReaderUndisturbed

LEMMA RewriteEntryInv ==
  ASSUME IInv, RewriteEntry
  PROVE  IInv'
<1> USE DEF IInv, RewriteEntry
<1>1. /\ copying \in Models \ Metadata /\ hdr = copying /\ at \in Index /\ units = 0 /\ copying # None
      /\ (Regular(copying) => Full) /\ Summed(at) /\ Listed(Tensors + 1)
  BY DEF TypeOK, WriterInv
<1>2. Index = 1 .. Tensors /\ Tensors \in Nat /\ Tensors >= 1
  BY SizesAssumption DEF Index
<1>3. \A t \in Index : dir[t] = copying
  BY <1>1, <1>2 DEF Listed
<1>4. /\ dir' \in [Index -> Models \cup {None}] /\ \A t \in Index : dir'[t] = copying
      /\ sums' \in [Index -> Models \cup {None}] /\ sums'[at] = copying
      /\ \A t \in Index : t # at => sums'[t] = sums[t]
  BY <1>1, <1>3 DEF TypeOK
<1>5. TypeOK'
  <2>1. at' \in Index
    BY <1>1, <1>2
  <2> QED BY <1>4, <2>1 DEF TypeOK, Phases, reader, readerCopy, progress
<1>6. Full' <=> Full
  BY DEF Full
<1>7. \A t \in Index : InPlace(copying, t)' <=> InPlace(copying, t)
  BY DEF InPlace
<1>8. DiskInv'
  <2>1. \A t \in Index : sums'[t] \in {None, dir'[t]}
    BY <1>3, <1>4 DEF DiskInv
  <2> QED BY <1>1, <1>4, <1>6, <1>7, <2>1 DEF DiskInv, Regular
<1>9. \A t \in Index : t <= at => sums'[t] = copying
  BY <1>1, <1>2, <1>4 DEF Summed
<1>10. Regular(copying)' <=> Regular(copying)
  BY DEF Regular
<1>11. Listed(Tensors + 1)'
  BY <1>4 DEF Listed
<1>12. WriterInv'
  <2>1. CASE at = Tensors
    <3>1. Summed(Tensors + 1)'
      BY <1>2, <1>9, <2>1 DEF Summed
    <3> QED BY <1>1, <1>6, <1>10, <2>1, <3>1 DEF WriterInv
  <2>2. CASE at # Tensors
    <3>1. wpc' = "rewrite" /\ at' = at + 1
      BY <2>2
    <3>2. Summed(at)'
      BY <1>1, <1>2, <1>9, <3>1 DEF Summed
    <3> QED BY <1>1, <1>6, <1>10, <1>11, <3>1, <3>2 DEF WriterInv
  <2> QED BY <2>1, <2>2
<1> QED BY <1>5, <1>8, <1>12, ReaderUndisturbed

LEMMA CloseInv ==
  ASSUME IInv, Close
  PROVE  IInv'
<1> USE DEF IInv, Close, disk
<1>1. /\ hdr = copying /\ hdr # None /\ (Regular(hdr) => Full) /\ at = 1 /\ units = 0
      /\ copying \notin Metadata => Summed(Tensors + 1)
  BY DEF WriterInv
<1>2. TypeOK' /\ DiskInv'
  BY DEF TypeOK, Phases, Results, DiskInv, Full, InPlace, reader, readerCopy, progress
<1>3. hdr' \notin Metadata => \A t \in Index : sums'[t] = hdr'
  BY <1>1, SizesAssumption DEF Summed, Index
<1>4. Regular(hdr') => Full'
  BY <1>1 DEF Full
<1>5. WriterInv'
  BY <1>1, <1>3, <1>4 DEF WriterInv, Regular
<1> QED BY <1>2, <1>5, ReaderUndisturbed

LEMMA StopInv ==
  ASSUME IInv, Stop
  PROVE  IInv'
<1> USE DEF IInv, Stop, disk
<1>1. 1 \in Index
  BY SizesAssumption DEF Index
<1>2. TypeOK'
  BY <1>1 DEF TypeOK, Phases, reader, readerCopy, progress
<1>3. DiskInv'
  BY DEF DiskInv, Full, InPlace
<1>4. result = "none"
  BY DEF WriterInv
<1>5. WriterInv'
  BY <1>4 DEF WriterInv
<1> QED BY <1>2, <1>3, <1>5, ReaderUndisturbed

\* Every step of the reader leaves the disk and the writer as they are.
LEMMA ReaderOnlyReads ==
  ASSUME IInv, UNCHANGED <<disk, writer>>
  PROVE  DiskInv' /\ WriterInv'
BY DEF IInv, DiskInv, WriterInv, Full, InPlace, Listed, Copied, Summed, Regular, disk, writer

LEMMA OpenHeaderInv ==
  ASSUME IInv, OpenHeader
  PROVE  IInv'
<1> USE DEF IInv, OpenHeader
<1>1. TypeOK'
  BY DEF TypeOK, ReaderPhases, disk, writer, progress
<1>2. ReaderInv'
  <2>1. opened' # None /\ opened' = hdr'
    BY DEF disk
  <2>2. \A t \in Index : openDir[t] = None
    BY DEF ReaderInv, TypeOK
  <2> QED BY <2>1, <2>2 DEF ReaderInv, Opening, progress
<1> QED BY <1>1, <1>2, ReaderOnlyReads

LEMMA CheckSizeInv ==
  ASSUME IInv, CheckSize
  PROVE  IInv'
<1> USE DEF IInv, CheckSize
<1>1. TypeOK'
  BY DEF TypeOK, ReaderPhases, disk, writer, readerCopy, progress
<1>2. ReaderInv'
  BY DEF ReaderInv, Opening, disk, readerCopy, progress
<1> QED BY <1>1, <1>2, ReaderOnlyReads

LEMMA ReadEntryInv ==
  ASSUME IInv, ReadEntry
  PROVE  IInv'
<1> USE DEF IInv, ReadEntry
<1>1. Index = 1 .. Tensors /\ Tensors \in Nat /\ Tensors >= 1
  BY SizesAssumption DEF Index
<1>2. /\ reading \in Index /\ opened' = opened /\ overtaken' = overtaken /\ hdr' = hdr
      /\ openDir' \in [Index -> Models \cup {None}] /\ openSums' \in [Index -> Models \cup {None}]
      /\ \A t \in Index : \/ openDir'[t] = openDir[t] /\ openSums'[t] = openSums[t]
                          \/ openDir'[t] = dir[t] /\ openSums'[t] = sums[t]
  <2>1. reading \in Index /\ opened' = opened /\ overtaken' = overtaken /\ hdr' = hdr
    BY DEF TypeOK, disk
  <2>2. /\ openDir \in [Index -> Models \cup {None}] /\ openSums \in [Index -> Models \cup {None}]
        /\ dir[reading] \in Models \cup {None} /\ sums[reading] \in Models \cup {None}
    BY <2>1 DEF TypeOK
  <2>3. /\ openDir' = [openDir EXCEPT ![reading] = dir[reading]]
        /\ openSums' = [openSums EXCEPT ![reading] = sums[reading]]
    OBVIOUS
  <2>4. openDir' \in [Index -> Models \cup {None}] /\ openSums' \in [Index -> Models \cup {None}]
    <3> HIDE DEF ReadEntry, IInv
    <3> QED BY <2>2, <2>3
  <2>5. \A t \in Index : \/ openDir'[t] = openDir[t] /\ openSums'[t] = openSums[t]
                         \/ openDir'[t] = dir[t] /\ openSums'[t] = sums[t]
    <3> HIDE DEF ReadEntry, IInv
    <3> SUFFICES ASSUME NEW t \in Index
                 PROVE  \/ openDir'[t] = openDir[t] /\ openSums'[t] = openSums[t]
                        \/ openDir'[t] = dir[t] /\ openSums'[t] = sums[t]
      OBVIOUS
    <3>1. CASE t = reading
      BY <2>2, <2>3, <3>1
    <3>2. CASE t # reading
      BY <2>2, <2>3, <3>2
    <3> QED BY <3>1, <3>2
  <2> HIDE DEF ReadEntry, IInv
  <2> QED BY <2>1, <2>4, <2>5
<1>3. reading' \in Index /\ rpc' \in ReaderPhases /\ rpc' \in {"directory", "open"}
  BY <1>1, <1>2 DEF ReaderPhases
<1>4. TypeOK'
  BY <1>2, <1>3 DEF TypeOK, disk, writer
<1>5. ReaderInv'
  <2>1. rpc' # "closed" /\ opened' # None
    BY <1>2, <1>3 DEF ReaderInv
  <2>2. rpc' = "open" => \A t \in Index : openDir'[t] # None
    BY DEF Accepted
  <2>3. \A t \in Index : openSums'[t] \in {None, openDir'[t]}
    BY <1>2 DEF ReaderInv, DiskInv
  <2>4. ~overtaken => hdr = opened /\ \A t \in Index : openDir'[t] \in {None, opened}
    BY <1>2 DEF ReaderInv, DiskInv, Opening
  <2> QED BY <1>2, <1>3, <2>1, <2>2, <2>3, <2>4 DEF ReaderInv
<1> QED BY <1>4, <1>5, ReaderOnlyReads

LEMMA ResetInv ==
  ASSUME IInv, Reset
  PROVE  IInv'
<1> USE DEF IInv, Reset, Nothing
<1>1. TypeOK'
  <2>1. 1 \in Index
    BY SizesAssumption DEF Index
  <2>2. /\ openDir' \in [Index -> Models \cup {None}] /\ openSums' \in [Index -> Models \cup {None}]
        /\ seen' \subseteq Models \cup {None} /\ verified' \subseteq Index /\ overtaken' \in BOOLEAN
    OBVIOUS
  <2> QED BY <2>1, <2>2 DEF TypeOK, ReaderPhases, disk, writer
<1>2. ReaderInv'
  BY DEF ReaderInv, Opening
<1> QED BY <1>1, <1>2, ReaderOnlyReads

\* Verification only counts what it has read.
LEMMA VerifyInv ==
  ASSUME IInv,
         (\E t \in Index : StartVerify(t)) \/ ReadUnit \/ Verify \/ VerifyFails
  PROVE  IInv'
<1> USE DEF IInv
<1>1. 1 \in Index
  BY SizesAssumption DEF Index
<1>2. UNCHANGED <<disk, writer, readerCopy, overtaken>>
  BY DEF StartVerify, ReadUnit, Verify, VerifyFails, EndVerify
<1>3. rpc \in {"open", "verify"} /\ rpc' \in {"open", "verify"}
  BY DEF StartVerify, ReadUnit, Verify, VerifyFails, EndVerify
<1>4. /\ reading' \in Index /\ got' \in Nat /\ seen' \subseteq Models \cup {None}
      /\ verified' \subseteq Index
  <2>1. ASSUME NEW t \in Index, StartVerify(t) PROVE <1>4
    BY <2>1 DEF StartVerify, TypeOK
  <2>2. CASE ReadUnit
    <3>1. UnitsLeft /\ got' = got + 1 /\ reading' = reading /\ verified' = verified
      BY <2>2 DEF ReadUnit
    <3> DEFINE p == Offset[openDir[reading]][reading] + got
    <3>2. p < size /\ seen' = seen \cup {data[p]}
      BY <2>2 DEF ReadUnit
    <3>3. p \in Positions
      <4>1. reading \in Index /\ openDir[reading] \in Models
        BY <1>3 DEF TypeOK, ReaderInv
      <4>2. Offset[openDir[reading]][reading] \in Nat
        BY <4>1, SizesAssumption
      <4> QED BY <3>2, <4>2, MaxSizeAssumption DEF TypeOK, Positions
    <3> QED BY <3>1, <3>2, <3>3 DEF TypeOK
  <2>3. CASE Verify
    BY <1>1, <2>3 DEF Verify, EndVerify, TypeOK
  <2>4. CASE VerifyFails
    BY <1>1, <2>4 DEF VerifyFails, EndVerify, TypeOK
  <2> QED BY <2>1, <2>2, <2>3, <2>4
<1>5. TypeOK'
  BY <1>2, <1>3, <1>4 DEF TypeOK, ReaderPhases, disk, writer, readerCopy
<1>6. ReaderInv'
  BY <1>2, <1>3 DEF ReaderInv, Opening, readerCopy
<1> QED BY <1>2, <1>5, <1>6, ReaderOnlyReads

LEMMA StepInv == IInv /\ [Next]_vars => IInv'
<1> SUFFICES ASSUME IInv, [Next]_vars PROVE IInv'
  OBVIOUS
<1>1. ASSUME NEW m \in Models, Begin(m) PROVE IInv'
  BY <1>1, BeginInv
<1>2. CASE WriteHeader
  BY <1>2, WriteHeaderInv
<1>3. CASE WriteEntry
  BY <1>3, WriteEntryInv
<1>4. CASE WritePadding
  BY <1>4, WritePaddingInv
<1>5. CASE CopyUnit
  BY <1>5, CopyUnitInv
<1>6. CASE NextTensor
  BY <1>6, NextTensorInv
<1>7. CASE WriteTail
  BY <1>7, WriteTailInv
<1>8. CASE RewriteEntry
  BY <1>8, RewriteEntryInv
<1>9. CASE Close
  BY <1>9, CloseInv
<1>10. CASE Stop
  BY <1>10, StopInv
<1>11. CASE OpenHeader
  BY <1>11, OpenHeaderInv
<1>12. CASE CheckSize
  BY <1>12, CheckSizeInv
<1>13. CASE ReadEntry
  BY <1>13, ReadEntryInv
<1>14. CASE OpenFails \/ CloseFile
  BY <1>14, ResetInv DEF OpenFails, CloseFile
<1>15. CASE (\E t \in Index : StartVerify(t)) \/ ReadUnit \/ Verify \/ VerifyFails
  BY <1>15, VerifyInv
<1>16. CASE UNCHANGED vars
  <2>1. UNCHANGED <<disk, writer>> /\ UNCHANGED reader
    BY <1>16 DEF vars
  <2>2. DiskInv' /\ WriterInv'
    BY <2>1, ReaderOnlyReads
  <2>3. ReaderInv'
    BY <2>1, ReaderUndisturbed DEF disk
  <2> QED BY <2>1, <2>2, <2>3 DEF IInv, TypeOK, disk, writer, reader, readerCopy, progress
<1> QED BY <1>1, <1>2, <1>3, <1>4, <1>5, <1>6, <1>7, <1>8, <1>9, <1>10, <1>11, <1>12, <1>13, <1>14,
           <1>15, <1>16 DEF Next

(***************************************************************************)
(* The strengthened invariant holds in every reachable state.  It relates  *)
(* what qx_write_* have put into the file to the phase they are in, and    *)
(* what qx_open_file has read so far to the file it reads: header and      *)
(* entries are of one model as long as no copy overtakes it.               *)
(***************************************************************************)
THEOREM FileInvariant == Spec => []IInv
<1>1. Init => IInv
  BY InitInv
<1>2. IInv /\ [Next]_vars => IInv'
  BY StepInv
<1> QED BY <1>1, <1>2, PTL DEF Spec

\* The fields of file, writer and reader stay in their ranges.
THEOREM FileTypeCorrect == Spec => []TypeOK
<1>1. IInv => TypeOK
  BY DEF IInv
<1> QED BY <1>1, FileInvariant, PTL

-----------------------------------------------------------------------------
(***************************************************************************)
(* What the reader accepts, in terms of the fields the writers set.        *)
(***************************************************************************)
\* It refuses a file with an empty tensor, wherever the entry is from.
LEMMA OpensIsRegular ==
  ASSUME IInv, Opens
  PROVE  Full /\ Regular(hdr) /\ \A t \in Index : dir[t] = hdr
<1>1. hdr # None /\ hdr \in Models /\ Full
  BY DEF IInv, TypeOK, Opens, SizeMatches, Full
<1>2. \A t \in Index : dir[t] = hdr
  BY DEF IInv, DiskInv, Opens, Accepted
<1>3. \A t \in Index : Placed(hdr, hdr, t)
  BY <1>2 DEF Opens, Accepted
<1>4. CASE MetadataOnly(hdr)
  <2>1. 1 \in Index
    BY SizesAssumption DEF Index
  <2>2. Offset[hdr][1] = 0
    BY <1>3, <1>4, <2>1 DEF Placed
  <2>3. hdr \in Metadata
    <3>1. DataOffset \in Nat /\ DataOffset > 0
      BY HeaderFacts, SizesAssumption
    <3> QED BY <1>1, <2>2, <3>1, LayoutAssumption
  <2> QED BY <1>1, <1>2, <2>3 DEF Regular
<1>5. CASE ~MetadataOnly(hdr)
  <2>1. \A t \in Index : Bytes[hdr][t] > 0
    BY <1>3, <1>5 DEF Placed
  <2> QED BY <1>1, <1>2, <2>1 DEF Regular
<1> QED BY <1>4, <1>5

\* A file of full length opens exactly if its source gives nothing to refuse.
LEMMA FullOpens ==
  ASSUME IInv, Full
  PROVE  Opens <=> Presentable(hdr)
<1>1. hdr \in Models /\ hdr # None /\ SizeMatches(hdr)
  BY DEF IInv, TypeOK, Full, SizeMatches
<1>2. FileSize(hdr) \in Nat /\ DataOffset \in Nat
  BY <1>1, LayoutFacts, HeaderFacts
<1>3. ASSUME Opens PROVE Presentable(hdr)
  <2>1. Regular(hdr) /\ \A t \in Index : dir[t] = hdr
    BY <1>3, OpensIsRegular
  <2>2. \A t \in Index : Name[hdr][t] # None /\ Given[hdr][t] > 0 /\ Placed(hdr, hdr, t)
    BY <1>3, <2>1 DEF Opens, Accepted
  <2>3. \A t, u \in Index : t < u => Name[hdr][t] # Name[hdr][u]
    BY <1>3, <2>1 DEF Opens, Accepted
  <2>4. hdr \notin Metadata => ~MetadataOnly(hdr)
    BY <1>1, <1>2, <2>1, LayoutFacts DEF MetadataOnly
  <2> QED BY <2>2, <2>3, <2>4 DEF Presentable, Placed
<1>4. ASSUME Presentable(hdr) PROVE Opens
  <2>1. Regular(hdr)
    BY <1>1, <1>4 DEF Presentable, Regular
  <2>2. \A t \in Index : dir[t] = hdr
    BY <2>1 DEF IInv, DiskInv
  <2>3. \A t \in Index : Placed(hdr, hdr, t)
    <3>1. CASE hdr \in Metadata
      BY <1>1, <3>1, MetadataAssumption, LayoutFacts DEF Placed, MetadataOnly
    <3>2. CASE hdr \notin Metadata
      <4>1. ~MetadataOnly(hdr)
        BY <1>1, <1>2, <2>1, <3>2, LayoutFacts DEF MetadataOnly
      <4>2. \A t \in Index : Bytes[hdr][t] = Given[hdr][t] /\ Bytes[hdr][t] > 0
        BY <1>4, <3>2 DEF Presentable
      <4> QED BY <1>1, <3>2, <4>1, <4>2, LayoutFacts DEF Placed
    <3> QED BY <3>1, <3>2
  <2>4. ~MetadataOnly(hdr) => \A t, u \in Index : t < u => Apart(hdr, t, hdr, u)
    <3>1. CASE hdr \in Metadata
      BY <1>1, <3>1, LayoutFacts DEF MetadataOnly
    <3>2. CASE hdr \notin Metadata
      BY <1>1, <3>2, LayoutAssumption DEF Apart
    <3> QED BY <3>1, <3>2
  <2>5. \A t \in Index : Name[hdr][t] # None /\ Given[hdr][t] > 0
    BY <1>4 DEF Presentable
  <2>6. \A t, u \in Index : t < u => Name[hdr][t] # Name[hdr][u]
    BY <1>4 DEF Presentable
  <2>7. Accepted(hdr, dir)
    BY <1>1, <2>2, <2>3, <2>4, <2>5, <2>6 DEF Accepted
  <2> QED BY <1>1, <2>7 DEF Opens
<1> QED BY <1>3, <1>4

(***************************************************************************)
(* The size check of qx_open_file accepts only files with the whole        *)
(* directory and all tensor data of the model in the header.               *)
(***************************************************************************)
THEOREM OpensCompleteHolds == Spec => []OpensComplete
<1>1. IInv => OpensComplete
  BY OpensIsRegular DEF IInv, DiskInv, OpensComplete
<1> QED BY <1>1, FileInvariant, PTL

(***************************************************************************)
(* qx_verify_tensor_checksum accepts only the bytes of the model the entry *)
(* is of, and that is the opened one unless open was overtaken.            *)
(***************************************************************************)
THEOREM VerifiesGenuineHolds == Spec => VerifiesGenuine
<1>1. ASSUME IInv, Next, NEW t \in verified' \ verified
      PROVE  seen = {openDir[t]} /\ (~overtaken => openDir[t] = opened)
  <2>1. Verify
    <3>1. ~(verified' \subseteq verified)
      BY <1>1
    <3> QED BY <1>1, <3>1
            DEF Next, Begin, WriteHeader, WriteEntry, WritePadding, CopyUnit, NextTensor, WriteTail,
                RewriteEntry, Close, Stop, OpenHeader, CheckSize, ReadEntry, OpenFails, CloseFile,
                Reset, StartVerify, ReadUnit, VerifyFails, reader
  <2>2. t = reading /\ t \in Index /\ rpc = "verify" /\ openSums[t] # None /\ seen = {openSums[t]}
    BY <1>1, <2>1, SizesAssumption DEF Verify, ChecksumMatches, IInv, TypeOK
  <2>3. openDir[t] # None /\ openSums[t] = openDir[t]
    BY <1>1, <2>2 DEF IInv, ReaderInv
  <2>4. ~overtaken => openDir[t] = opened
    BY <1>1, <2>2, <2>3 DEF IInv, ReaderInv
  <2> QED BY <2>2, <2>3, <2>4
<1>2. IInv /\ [Next]_vars =>
        [\A t \in verified' \ verified :
           /\ seen = {openDir[t]}
           /\ ~overtaken => openDir[t] = opened]_vars
  BY <1>1
<1> QED BY <1>2, FileInvariant, PTL DEF Spec, VerifiesGenuine

(***************************************************************************)
(* A file is usable from the moment its last checksum is there, if its     *)
(* source is presentable, and never otherwise.                             *)
(***************************************************************************)
LEMMA UsableIff ==
  ASSUME IInv
  PROVE  Usable <=> /\ Full /\ Presentable(hdr)
                    /\ hdr \notin Metadata => \A t \in Index : sums[t] = hdr
<1>1. ASSUME Opens
      PROVE  /\ Full /\ Presentable(hdr)
             /\ \A t \in Index : dir[t] = hdr /\ InPlace(hdr, t)
  <2>1. Full /\ Regular(hdr)
    BY <1>1, OpensIsRegular
  <2> QED BY <1>1, <2>1, FullOpens DEF IInv, DiskInv
<1>2. Full /\ Presentable(hdr) => Opens
  BY FullOpens
<1> QED BY <1>1, <1>2 DEF Usable

\* What qx_write_* reported as written can be opened and verified exactly if
\* the reader finds nothing to refuse in its source.
THEOREM SuccessIsUsableHolds == Spec => []SuccessIsUsable
<1>1. IInv => SuccessIsUsable
  <2> SUFFICES ASSUME IInv, wpc = "idle", result = "ok"
               PROVE  hdr # None /\ (Usable <=> Presentable(hdr))
    BY DEF SuccessIsUsable
  <2>1. /\ hdr # None /\ (Regular(hdr) => Full)
        /\ hdr \notin Metadata => \A t \in Index : sums[t] = hdr
    BY DEF IInv, WriterInv
  <2>2. hdr \in Models
    BY <2>1 DEF IInv, TypeOK
  <2>3. Presentable(hdr) => Regular(hdr)
    BY <2>2 DEF Presentable, Regular
  <2> QED BY <2>1, <2>3, UsableIff
<1> QED BY <1>1, FileInvariant, PTL

(***************************************************************************)
(* Writers and failures together implement ModelFile: what is usable at    *)
(* the path is withdrawn and published, never changed in place.            *)
(***************************************************************************)
THEOREM ImplementsModelFileHolds == Spec => ImplementsModelFile
<1> DEFINE found == IF Usable THEN hdr ELSE None
<1>1. Init => found = None
  BY DEF Init
<1>2. ASSUME IInv, IInv', [Next]_vars
      PROVE  [M!Next]_found
  <2>1. hdr = None => ~Usable
    BY DEF Usable, Opens
  <2>2. hdr' = None => ~Usable'
    BY DEF Usable, Opens
  <2>3. hdr' = hdr \/ hdr = None \/ hdr' = None
    <3>1. CASE UNCHANGED vars
      BY <3>1 DEF vars, disk
    <3>2. CASE Next
      <4>1. ASSUME NEW m \in Models, Begin(m) PROVE hdr' = None
        BY <4>1 DEF Begin, Truncate
      <4>2. CASE WriteHeader
        BY <1>2, <4>2 DEF WriteHeader, IInv, WriterInv
      <4>3. CASE WriteEntry \/ WritePadding \/ CopyUnit \/ WriteTail \/ RewriteEntry
        BY <4>3 DEF WriteEntry, WritePadding, CopyUnit, WriteTail, RewriteEntry
      <4>4. CASE NextTensor \/ Close \/ Stop
        BY <4>4 DEF NextTensor, Close, Stop, disk
      <4>5. CASE OpenHeader \/ CheckSize \/ ReadEntry \/ OpenFails \/ CloseFile
        BY <4>5 DEF OpenHeader, CheckSize, ReadEntry, OpenFails, CloseFile, Reset, disk
      <4>6. CASE (\E t \in Index : StartVerify(t)) \/ ReadUnit \/ Verify \/ VerifyFails
        BY <4>6 DEF StartVerify, ReadUnit, Verify, VerifyFails, EndVerify, disk
      <4> QED BY <3>2, <4>1, <4>2, <4>3, <4>4, <4>5, <4>6 DEF Next
    <3> QED BY <1>2, <3>1, <3>2
  <2>4. found \in Models \cup {None} /\ found' \in Models \cup {None}
    BY <1>2 DEF IInv, TypeOK
  <2>5. found = None \/ found' = None \/ found' = found
    BY <2>1, <2>2, <2>3
  <2> HIDE DEF found
  <2>6. CASE found' = found
    BY <2>6
  <2>7. CASE found = None /\ found' # None
    BY <2>4, <2>7 DEF M!Next, M!Publish, found
  <2>8. CASE found # None /\ found' = None
    BY <2>8 DEF M!Next, M!Withdraw, found
  <2> QED BY <2>5, <2>6, <2>7, <2>8
<1>3. Init => M!Init
  BY <1>1 DEF M!Init
<1> QED BY <1>2, <1>3, FileInvariant, PTL DEF Spec, ImplementsModelFile, M!Spec
=============================================================================
