------------------------------ MODULE QxfFile ------------------------------
(***************************************************************************)
(* A QXF file on disk, its two writers (qx_write_metadata_only and         *)
(* qx_write_tensor_copy_from_gguf), which may fail or be killed between    *)
(* any two writes, and its reader (qx_open_file, qx_verify_tensor_         *)
(* checksum), which a writer may overtake between any two reads.  Both     *)
(* writers truncate the path and write in place: header, directory without *)
(* checksums, padding, tensor data, tail, and at last the directory again  *)
(* with the checksums.                                                     *)
(*                                                                         *)
(* The disk is what has reached the file.  stdio buffers writes but keeps  *)
(* their order (every seek flushes), so a writer that is killed, or whose  *)
(* fclose fails, leaves a prefix of its writes behind.  Header, directory  *)
(* and tensors start at multiples of QX_ALIGN_BYTES, so that no block read *)
(* ahead by stdio holds bytes of two of them.  Sizes are in units: a       *)
(* header and a directory entry take one each, tensor data Bytes[m][t].    *)
(* FNV-1a is taken to be injective on the data in question.                *)
(***************************************************************************)
EXTENDS Integers

CONSTANTS
  Models,      \* what may be copied to the path
  Metadata,    \* those written by qx_write_metadata_only: no tensor data
  Tensors,     \* table->tensor_count
  Name,        \* the name in each entry of each model, None if it is empty
  Given,       \* the size the reader computes from an entry's type and
               \* dimensions, 0 if it refuses them; for an entry of a metadata
               \* file, whose size it does not compute, 1 if it accepts them
  Bytes,       \* byte_size of each tensor of each model
  Offset,      \* e->offset of each tensor of each model
  Align,       \* QX_ALIGN_BYTES
  MaxSize,     \* bound: no file of these models is longer
  None         \* no model, no name, an unwritten unit, entry or checksum

AlignUp(n) == ((n + Align - 1) \div Align) * Align

HeaderSize == 1
DirOffset == AlignUp(HeaderSize)
DataOffset == AlignUp(DirOffset + Tensors)
End(m, t) == Offset[m][t] + Bytes[m][t]
\* h.file_size: the aligned end of the last tensor, data_offset without any
FileSize(m) == IF m \in Metadata THEN DataOffset ELSE AlignUp(End(m, Tensors))

Index == 1 .. Tensors
SpanOf(m, t) == Offset[m][t] .. (End(m, t) - 1)

ASSUME SizesAssumption ==
  /\ Align \in Nat \ {0} /\ Tensors \in Nat \ {0}
  /\ Metadata \subseteq Models /\ None \notin Models
  /\ Bytes \in [Models -> [Index -> Nat]] /\ Offset \in [Models -> [Index -> Nat]]
  /\ Given \in [Models -> [Index -> Nat]]

\* The cursor of the layout loop starts at data_offset and only advances,
\* past each tensor and up to the next aligned position.  A tensor may be empty.
ASSUME LayoutAssumption ==
  \A m \in Models \ Metadata :
    /\ Offset[m][1] = DataOffset
    /\ \A t \in Index : t < Tensors => Offset[m][t + 1] = AlignUp(End(m, t))
    /\ \A t, u \in Index : t < u => End(m, t) <= Offset[m][u]

ASSUME MetadataAssumption ==
  \A m \in Metadata : \A t \in Index : Offset[m][t] = 0 /\ Bytes[m][t] = 0

ASSUME MaxSizeAssumption ==
  MaxSize \in Nat /\ \A m \in Models : FileSize(m) <= MaxSize

Positions == 0 .. MaxSize - 1

VARIABLES
  size,        \* length of the file, 0 when it does not exist
  hdr,         \* the model whose header is at the start of the file
  dir,         \* the model each directory entry in the file belongs to
  sums,        \* the model whose data the checksum in each of them is of,
               \* None if it is zero, of a name or overwritten only in part
  data,        \* the model that wrote each unit of tensor data
  wpc,         \* the writer's phase
  copying,     \* the model it writes
  at, units,   \* the tensor it is at and the units of it already copied
  result,      \* "ok" when the last copy was reported as written
  rpc,         \* the reader's phase
  opened,      \* the header it read
  openDir, openSums, \* its copy of the directory
  reading, got,\* the entry or tensor it is at and the units of it already read
  seen,        \* the models these units belong to
  verified,    \* tensors it verified since it opened the file
  overtaken    \* history: a copy began between two reads of the open

disk == <<size, hdr, dir, sums, data>>
writer == <<wpc, copying, at, units, result>>
readerCopy == <<opened, openDir, openSums>>
progress == <<reading, got, seen>>
reader == <<rpc, readerCopy, progress, verified, overtaken>>
vars == <<disk, writer, reader>>

Phases ==
  {"idle", "header", "entries", "padding", "data", "tail", "rewrite", "close"}
Results == {"none", "ok"}
ReaderPhases == {"closed", "size", "directory", "open", "verify"}
Opening == {"size", "directory"}
Nothing == [t \in Index |-> None]

Init ==
  /\ size = 0 /\ hdr = None /\ dir = Nothing /\ sums = Nothing
  /\ data = [p \in Positions |-> None]
  /\ wpc = "idle" /\ copying = None /\ at = 1 /\ units = 0 /\ result = "none"
  /\ rpc = "closed" /\ opened = None /\ openDir = Nothing /\ openSums = Nothing
  /\ reading = 1 /\ got = 0 /\ seen = {} /\ verified = {} /\ overtaken = FALSE

Larger(a, b) == IF a > b THEN a ELSE b

-----------------------------------------------------------------------------
(***************************************************************************)
(* The writers.                                                            *)
(***************************************************************************)
OverwriteInPlace == UNCHANGED disk     \* mutant: the old file is not truncated
\* fopen(path, "wb")
Truncate ==
  /\ size' = 0 /\ hdr' = None /\ dir' = Nothing /\ sums' = Nothing
  /\ data' = [p \in Positions |-> None]

\* The layout is computed before the path is touched.
Begin(m) ==
  /\ wpc = "idle"
  /\ Truncate
  /\ wpc' = "header" /\ copying' = m /\ at' = 1 /\ units' = 0 /\ result' = "none"
  /\ overtaken' = (overtaken \/ rpc \in Opening)
  /\ UNCHANGED <<rpc, readerCopy, progress, verified>>

WriteHeader ==
  /\ wpc = "header"
  /\ hdr' = copying
  /\ size' = Larger(size, HeaderSize)
  /\ wpc' = "entries"
  /\ UNCHANGED <<dir, sums, data, copying, at, units, result, reader>>

\* the padding up to dir_offset goes with the first entry
WriteEntry ==
  /\ wpc = "entries"
  /\ dir' = [dir EXCEPT ![at] = copying]
  /\ sums' = [sums EXCEPT ![at] = None]
  /\ size' = Larger(size, DirOffset + at)
  /\ IF at = Tensors THEN wpc' = "padding" /\ at' = 1 ELSE at' = at + 1 /\ UNCHANGED wpc
  /\ UNCHANGED <<hdr, data, copying, units, result, reader>>

WritePadding ==
  /\ wpc = "padding"
  /\ size' = Larger(size, DataOffset)
  /\ wpc' = IF copying \in Metadata THEN "close" ELSE "data"
  /\ UNCHANGED <<hdr, dir, sums, data, copying, at, units, result, reader>>

\* One unit of copy_tensor_bytes.
CopyUnit ==
  /\ wpc = "data" /\ units < Bytes[copying][at]
  /\ data' = [data EXCEPT ![Offset[copying][at] + units] = copying]
  /\ size' = Larger(size, Offset[copying][at] + units + 1)
  /\ units' = units + 1
  /\ UNCHANGED <<hdr, dir, sums, wpc, copying, at, result, reader>>

\* Nothing is left to copy, or the tensor is empty; the next one starts at
\* its own offset.
NextTensor ==
  /\ wpc = "data" /\ units = Bytes[copying][at]
  /\ units' = 0
  /\ IF at = Tensors THEN wpc' = "tail" /\ at' = 1 ELSE at' = at + 1 /\ UNCHANGED wpc
  /\ UNCHANGED <<disk, copying, result, reader>>

TailEndUnpadded == End(copying, Tensors) \* mutant: no byte after the last tensor
TailEnd == FileSize(copying)

\* if (h.file_size > written_end) write one byte at file_size - 1
WriteTail ==
  /\ wpc = "tail"
  /\ size' = IF FileSize(copying) > End(copying, Tensors) THEN Larger(size, TailEnd) ELSE size
  /\ wpc' = "rewrite"
  /\ UNCHANGED <<hdr, dir, sums, data, copying, at, units, result, reader>>

RewriteEntry ==
  /\ wpc = "rewrite"
  /\ dir' = [dir EXCEPT ![at] = copying]
  /\ sums' = [sums EXCEPT ![at] = copying]
  /\ IF at = Tensors THEN wpc' = "close" /\ at' = 1 ELSE at' = at + 1 /\ UNCHANGED wpc
  /\ UNCHANGED <<size, hdr, data, copying, units, result, reader>>

Close ==
  /\ wpc = "close"
  /\ wpc' = "idle" /\ copying' = None /\ result' = "ok"
  /\ UNCHANGED <<disk, at, units, reader>>

\* A read of the source or a write fails, or the process is killed.  What was
\* written stays at the path; what was written only in part counts as not written.
Stop ==
  /\ wpc # "idle"
  /\ wpc' = "idle" /\ copying' = None /\ at' = 1 /\ units' = 0
  /\ UNCHANGED <<disk, result, reader>>

-----------------------------------------------------------------------------
(***************************************************************************)
(* What the reader accepts (qx_open_file_with_backend).  It takes a file   *)
(* for metadata only if it ends where the data would begin.                *)
(***************************************************************************)
SizeAtLeast(h) == size >= DataOffset   \* mutant: the declared size is not compared
SizeMatches(h) == size = FileSize(h)

MetadataOnly(h) == FileSize(h) = DataOffset

\* an entry of model m in a file with header h
Placed(h, m, t) ==
  IF MetadataOnly(h)
  THEN Offset[m][t] = 0 /\ Bytes[m][t] = 0
  ELSE /\ Offset[m][t] >= DataOffset /\ Offset[m][t] % Align = 0
       /\ Bytes[m][t] > 0 /\ End(m, t) <= FileSize(h)
       /\ Bytes[m][t] = Given[m][t]

Apart(m, t, n, u) == End(m, t) <= Offset[n][u] \/ End(n, u) <= Offset[m][t]

\* a directory d in a file with header h
Accepted(h, d) ==
  /\ \A t \in Index :
       d[t] # None /\ Name[d[t]][t] # None /\ Given[d[t]][t] > 0 /\ Placed(h, d[t], t)
  /\ \A t, u \in Index : t < u =>
       /\ Name[d[t]][t] # Name[d[u]][u]
       /\ ~MetadataOnly(h) => Apart(d[t], t, d[u], u)

\* It accepts the file as it is, if no copy overtakes it.
Opens == hdr # None /\ SizeMatches(hdr) /\ Accepted(hdr, dir)

-----------------------------------------------------------------------------
(***************************************************************************)
(* The reader, one read at a time.  Each guard is what a step succeeds     *)
(* under; OpenFails and VerifyFails are also allowed without a reason,     *)
(* because a seek, a read or an allocation may fail anywhere.              *)
(***************************************************************************)
OpenHeader ==
  /\ rpc = "closed" /\ hdr # None
  /\ opened' = hdr /\ rpc' = "size"
  /\ UNCHANGED <<disk, writer, openDir, openSums, progress, verified, overtaken>>

CheckSize ==
  /\ rpc = "size" /\ SizeMatches(opened)
  /\ rpc' = "directory"
  /\ UNCHANGED <<disk, writer, readerCopy, progress, verified, overtaken>>

\* One entry of the fread of the directory, which fails past the end of the
\* file.  The last one is followed by the checks on the copy in memory.
ReadEntry ==
  /\ rpc = "directory" /\ dir[reading] # None
  /\ openDir' = [openDir EXCEPT ![reading] = dir[reading]]
  /\ openSums' = [openSums EXCEPT ![reading] = sums[reading]]
  /\ IF reading = Tensors
     THEN Accepted(opened, openDir') /\ rpc' = "open" /\ reading' = 1
     ELSE reading' = reading + 1 /\ UNCHANGED rpc
  /\ UNCHANGED <<disk, writer, opened, got, seen, verified, overtaken>>

\* qx_close_file, which the failing returns of open call as well
Reset ==
  /\ rpc' = "closed" /\ opened' = None /\ openDir' = Nothing /\ openSums' = Nothing
  /\ reading' = 1 /\ got' = 0 /\ seen' = {} /\ verified' = {} /\ overtaken' = FALSE
  /\ UNCHANGED <<disk, writer>>

OpenFails == rpc \in Opening /\ Reset
CloseFile == rpc = "open" /\ Reset

StartVerify(t) ==
  /\ rpc = "open" /\ t \notin verified
  /\ rpc' = "verify" /\ reading' = t
  /\ UNCHANGED <<disk, writer, readerCopy, got, seen, verified, overtaken>>

UnitsLeft == got < Bytes[openDir[reading]][reading]

ReadUnit ==
  /\ rpc = "verify" /\ UnitsLeft
  /\ LET p == Offset[openDir[reading]][reading] + got
     IN  p < size /\ seen' = seen \cup {data[p]}
  /\ got' = got + 1
  /\ UNCHANGED <<disk, writer, rpc, readerCopy, reading, verified, overtaken>>

EndVerify ==
  /\ rpc' = "open" /\ reading' = 1 /\ got' = 0 /\ seen' = {}
  /\ UNCHANGED <<disk, writer, readerCopy, overtaken>>

ChecksumSkipped == TRUE                \* mutant: the checksum is not compared
\* The checksum in the directory is the one of the bytes that were read; a
\* metadata file has one of each name there.
ChecksumMatches == openSums[reading] \in Models /\ seen = {openSums[reading]}

Verify ==
  /\ rpc = "verify" /\ ~UnitsLeft /\ ChecksumMatches
  /\ verified' = verified \cup {reading}
  /\ EndVerify

VerifyFails == rpc = "verify" /\ UNCHANGED verified /\ EndVerify

-----------------------------------------------------------------------------
Next ==
  \/ \E m \in Models : Begin(m)
  \/ WriteHeader \/ WriteEntry \/ WritePadding \/ CopyUnit \/ NextTensor \/ WriteTail
  \/ RewriteEntry \/ Close \/ Stop
  \/ OpenHeader \/ CheckSize \/ ReadEntry \/ OpenFails \/ CloseFile
  \/ \E t \in Index : StartVerify(t)
  \/ ReadUnit \/ Verify \/ VerifyFails

Spec == Init /\ [][Next]_vars

-----------------------------------------------------------------------------
\* Type invariant of the file, the writer and the reader.
TypeOK ==
  /\ size \in 0 .. MaxSize /\ hdr \in Models \cup {None}
  /\ dir \in [Index -> Models \cup {None}] /\ sums \in [Index -> Models \cup {None}]
  /\ data \in [Positions -> Models \cup {None}]
  /\ wpc \in Phases /\ copying \in Models \cup {None}
  /\ at \in Index /\ units \in Nat /\ result \in Results
  /\ rpc \in ReaderPhases /\ opened \in Models \cup {None}
  /\ openDir \in [Index -> Models \cup {None}]
  /\ openSums \in [Index -> Models \cup {None}]
  /\ reading \in Index /\ got \in Nat /\ seen \subseteq Models \cup {None}
  /\ verified \subseteq Index /\ overtaken \in BOOLEAN

\* Every byte of tensor t of model m is in the file, as m has it.
InPlace(m, t) == \A p \in SpanOf(m, t) : p < size /\ data[p] = m

(***************************************************************************)
(* The size check of open is the writers' commit point: whatever a failed  *)
(* or killed copy leaves behind, a file that opens has the directory and   *)
(* all tensor data of the one model its header names.  (Its checksums may  *)
(* still be missing; only verification tells.)                             *)
(***************************************************************************)
OpensComplete == Opens => \A t \in Index : dir[t] = hdr /\ InPlace(hdr, t)

(***************************************************************************)
(* A tensor that verifies has the bytes of the model its directory entry   *)
(* is of, even if copies rewrote the path since the file was opened and    *)
(* between two reads of the tensor.  Unless a copy began while the header  *)
(* and the directory were read, that model is the one in the header:       *)
(* nothing in the code notices a directory that is newer than the header.  *)
(***************************************************************************)
VerifiesGenuine ==
  [][\A t \in verified' \ verified :
       /\ seen = {openDir[t]}
       /\ ~overtaken => openDir[t] = opened]_vars

\* A reader that opens the file and verifies every tensor succeeds, as long
\* as no copy begins.
Usable ==
  /\ Opens
  /\ hdr \notin Metadata => \A t \in Index : sums[t] = dir[t] /\ InPlace(dir[t], t)

\* The source gives the reader nothing to refuse: each tensor has a name of
\* its own and takes the bytes its type and dimensions give, no more.
Presentable(m) ==
  /\ \A t \in Index : Name[m][t] # None /\ Given[m][t] > 0
  /\ \A t, u \in Index : t < u => Name[m][t] # Name[m][u]
  /\ m \notin Metadata => \A t \in Index : Bytes[m][t] = Given[m][t]

(***************************************************************************)
(* What a copy that reported success is worth: its file is usable exactly  *)
(* when its source is presentable, and it stays so until the next copy     *)
(* begins.  The writers check none of that: a GGUF tensor that is padded,  *)
(* empty, of an unknown type, or whose name is another one's after cutting *)
(* it to QX_NAME_MAX is copied, reported as written and refused by the     *)
(* reader.                                                                 *)
(***************************************************************************)
SuccessIsUsable ==
  wpc = "idle" /\ result = "ok" => hdr # None /\ (Usable <=> Presentable(hdr))

(***************************************************************************)
(* The path holds one complete model or none: Publish is the write that    *)
(* completes the file, Withdraw the truncation by the next copy.           *)
(***************************************************************************)
M == INSTANCE ModelFile WITH model <- IF Usable THEN hdr ELSE None
ImplementsModelFile == M!Spec

-----------------------------------------------------------------------------
(***************************************************************************)
(* The inductive strengthening.  What holds of the file whatever became of *)
(* its writer: it belongs to one model, is never too long, and when it has *)
(* its full length everything but the checksums is there.                  *)
(***************************************************************************)
Full == hdr # None /\ size = FileSize(hdr)

\* No tensor of a copy is empty.
Regular(m) == m \in Metadata \/ \A t \in Index : Bytes[m][t] > 0

DiskInv ==
  /\ hdr = None => size = 0 /\ \A t \in Index : dir[t] = None
  /\ hdr # None => size <= FileSize(hdr)
  /\ \A t \in Index : dir[t] \in {None, hdr}
  /\ \A t \in Index : sums[t] \in {None, dir[t]}
  /\ Full /\ Regular(hdr) => \A t \in Index : dir[t] = hdr /\ InPlace(hdr, t)

\* What the writer has done when it is in a phase.
Listed(n) == \A t \in Index : t < n => dir[t] = copying
Copied(n) == \A t \in Index : t < n => InPlace(copying, t)
Summed(n) == \A t \in Index : t < n => sums[t] = copying

WriterInv ==
  /\ wpc = "idle" <=> copying = None
  /\ wpc = "header" => hdr = None
  /\ wpc \notin {"idle", "header"} => hdr = copying
  /\ wpc \in {"header", "entries", "padding", "data", "tail"} =>
       \A t \in Index : sums[t] = None
  /\ wpc \notin {"entries", "data", "rewrite"} => at = 1
  /\ wpc # "data" => units = 0
  /\ wpc # "idle" => result = "none"
  /\ wpc = "entries" => Listed(at) /\ size <= DirOffset + at - 1
  /\ wpc \in {"padding", "data", "tail", "rewrite"} => Listed(Tensors + 1)
  /\ wpc = "padding" => size <= DirOffset + Tensors
  /\ wpc \in {"data", "tail", "rewrite"} => copying \notin Metadata
  /\ wpc = "data" =>
       /\ units <= Bytes[copying][at]
       /\ size <= Offset[copying][at] + units
       /\ Copied(at)
       /\ \A p \in Offset[copying][at] .. (Offset[copying][at] + units - 1) :
            p < size /\ data[p] = copying
  /\ wpc = "tail" => Copied(Tensors + 1)
  /\ wpc \in {"rewrite", "close"} => (Regular(copying) => Full)
  /\ wpc = "rewrite" => Summed(at)
  /\ wpc = "close" /\ copying \notin Metadata => Summed(Tensors + 1)
  /\ wpc = "idle" /\ result = "ok" =>
       /\ hdr # None /\ (Regular(hdr) => Full)
       /\ hdr \notin Metadata => \A t \in Index : sums[t] = hdr

\* What the reader has read: entries of one model, unless it was overtaken.
ReaderInv ==
  /\ rpc = "closed" <=> opened = None
  /\ rpc \in {"closed", "size"} => \A t \in Index : openDir[t] = None
  /\ rpc \in {"open", "verify"} => \A t \in Index : openDir[t] # None
  /\ \A t \in Index : openSums[t] \in {None, openDir[t]}
  /\ ~overtaken =>
       /\ rpc \in Opening => hdr = opened
       /\ \A t \in Index : openDir[t] \in {None, opened}

IInv == TypeOK /\ DiskInv /\ WriterInv /\ ReaderInv
=============================================================================
