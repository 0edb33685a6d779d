---------------------------- MODULE TensorLayout ----------------------------
(***************************************************************************)
(* Where the tensors of a model are: in the GGUF file, which only says     *)
(* where each of them starts (qx_gguf_load_tensor_table), and in the QXF   *)
(* container they are copied to (qx_write_tensor_copy_from_gguf), which    *)
(* its reader checks again (qx_open_file_with_backend).  Offsets and sizes *)
(* are 64 bits wide; the sum of the table's check on the end of the file   *)
(* wraps, the sums of the layout are tested before they are formed.        *)
(*                                                                         *)
(* One step per tensor read and per tensor placed.  Type and dimensions of *)
(* a tensor are the size that they give; no step of the conversion looks   *)
(* at it, the reader does.  Failing reads are left out; QxfFile has names  *)
(* and the writes.                                                         *)
(***************************************************************************)
EXTENDS Integers, Sequences, Functions

CONSTANTS
  Words,        \* 2^64
  FileSizes,    \* what the length of the GGUF file can be
  MaxTensors,   \* bound on tensor_count, 2^32 - 1 in the code
  Declared,     \* sizes that type and dimensions give, 0 if they are refused
  QxAlign,      \* QX_ALIGN_BYTES
  QxHeader,     \* sizeof(qx_header)
  QxEntry       \* sizeof(qx_tensor_dir_entry)

Word == 0 .. Words - 1

ASSUME TensorLayoutAssumption ==
  /\ Words \in Nat /\ FileSizes \subseteq Word /\ MaxTensors \in Nat
  /\ Declared \subseteq Word
  /\ QxAlign \in Nat \ {0} /\ QxHeader \in Nat /\ QxEntry \in Nat
  /\ QxHeader + MaxTensors * QxEntry + 2 * QxAlign <= Words

VARIABLES
  source,       \* the GGUF file: [size, data, count], data is data_offset
  starts,       \* the offset of each tensor behind data_offset, as read
  sizes,        \* the byte_size of each
  placed,       \* the entries of the QXF directory: [offset, size]
  cursor,       \* the end of what is placed; at last the size of the file
  conversion    \* "open", "table", "layout", "written", or why it failed

layoutVars == <<source, starts, sizes, placed, cursor, conversion>>

\* The program gets data_offset by aligning a position to what the file asks.
LayoutInit ==
  /\ source \in [size : FileSizes, data : Word, count : 1 .. MaxTensors]
  /\ starts = <<>> /\ sizes = <<>> /\ placed = <<>>
  /\ cursor = 0 /\ conversion = "open"

-----------------------------------------------------------------------------
Tensors == 1 .. source.count

\* qx_align_u64_checked
Padding(value) == (QxAlign - (value % QxAlign)) % QxAlign
Alignable(value) == value <= Words - 1 - Padding(value)
AlignUp(value) == value + Padding(value)

DirectoryStart == AlignUp(QxHeader)
DirectoryEnd == DirectoryStart + source.count * QxEntry
DataStart == AlignUp(DirectoryEnd)

Reject(why) ==
  conversion' = why /\ UNCHANGED <<source, starts, sizes, placed, cursor>>

OpenSource ==
  /\ conversion = "open"
  /\ IF source.size < source.data
     THEN Reject("GGUF data offset past EOF")
     ELSE /\ conversion' = "table"
          /\ UNCHANGED <<source, starts, sizes, placed, cursor>>

ReadTensor ==
  /\ conversion = "table" /\ Len(starts) < source.count
  /\ \E start \in Word :
       IF (source.data + start) % Words > source.size
       THEN Reject("GGUF tensor offset past EOF")
       ELSE /\ starts' = Append(starts, start)
            /\ UNCHANGED <<source, sizes, placed, cursor, conversion>>

\* What qsort may return: equal offsets come in any order.
Orders ==
  { order \in Bijection(Tensors, Tensors) :
      \A i, j \in Tensors : i < j => starts[order[i]] <= starts[order[j]] }

(***************************************************************************)
(* Mutant of DataEnd: the last tensor is measured up to the end of the     *)
(* file, from an offset that counts from data_offset.                      *)
(***************************************************************************)
EndOfFile == source.size

\* file_size - data_offset
DataEnd == source.size - source.data

\* A tensor ends where the next one starts, the last one with the file.
SizeTensors ==
  /\ conversion = "table" /\ Len(starts) = source.count
  /\ \E order \in Orders :
       LET next(i) == IF i < source.count THEN starts[order[i + 1]] ELSE DataEnd
           place(t) == CHOOSE i \in Tensors : order[i] = t
       IN  IF \E i \in Tensors : next(i) < starts[order[i]]
           THEN Reject("GGUF tensor offsets not monotonic")
           ELSE /\ sizes' = [t \in Tensors |-> next(place(t)) - starts[t]]
                /\ cursor' = DataStart /\ conversion' = "layout"
                /\ UNCHANGED <<source, starts, placed>>

PlaceTensor ==
  /\ conversion = "layout" /\ Len(placed) < source.count
  /\ LET size == sizes[Len(placed) + 1] IN
     IF cursor > Words - 1 - size \/ ~Alignable(cursor + size)
     THEN Reject("QXF tensor layout overflow")
     ELSE /\ placed' = Append(placed, [offset |-> cursor, size |-> size])
          /\ cursor' = AlignUp(cursor + size)
          /\ UNCHANGED <<source, starts, sizes, conversion>>

\* The writes themselves can also fail (QxfFile).
CopyTensors ==
  /\ conversion = "layout" /\ Len(placed) = source.count
  /\ IF \E t \in Tensors : source.data > Words - 1 - starts[t]
     THEN Reject("tensor-copy write failed")
     ELSE conversion' = "written" /\ UNCHANGED <<source, starts, sizes, placed, cursor>>

LayoutNext == OpenSource \/ ReadTensor \/ SizeTensors \/ PlaceTensor \/ CopyTensors
LayoutSpec == LayoutInit /\ [][LayoutNext]_layoutVars

-----------------------------------------------------------------------------
\* What the reader asks of the header that is written with these entries, and
\* of an entry whose type and dimensions give the size `declared`.
HeaderAccepted(fileSize) ==
  /\ DirectoryStart >= QxHeader /\ DirectoryStart % QxAlign = 0
  /\ DataStart % QxAlign = 0 /\ DirectoryEnd <= DataStart /\ DataStart <= fileSize

EntryAccepted(entry, fileSize, declared) ==
  /\ entry.offset >= DataStart /\ entry.offset % QxAlign = 0 /\ entry.size > 0
  /\ entry.offset <= fileSize /\ entry.size <= fileSize - entry.offset
  /\ entry.size = declared

Apart(entry, other) ==
  \/ entry.offset + entry.size <= other.offset
  \/ other.offset + other.size <= entry.offset

\* A file that ends where the data begins is read as one without data: its
\* tensors are empty, and the offset they were given is refused as well.
ReaderAccepts(declared) ==
  /\ HeaderAccepted(cursor)
  /\ \A t \in Tensors : EntryAccepted(placed[t], cursor, declared[t])
  /\ \A t, u \in Tensors : t # u => Apart(placed[t], placed[u])

(* The table of a GGUF file gives each byte of the data to at most one     *)
(* tensor, and no byte that is not in the file, although the check at      *)
(* qx_gguf.c:330 wraps.                                                    *)
TableWithinSource ==
  sizes # <<>> =>
    \A t \in Tensors :
      /\ source.data + starts[t] + sizes[t] <= source.size
      /\ \A u \in Tensors \ {t} :
           starts[t] + sizes[t] <= starts[u] \/ starts[u] + sizes[u] <= starts[t]

\* Type and dimensions of every tensor account for all the bytes up to where
\* the next one starts: none is empty, none is followed by padding.
Seamless(declared) == \A t \in Tensors : declared[t] > 0 /\ sizes[t] = declared[t]

(* The reader's checks on layout and sizes pass for a container that was   *)
(* written exactly if its source is seamless.  The placement never fails   *)
(* them; but a tensor that the source pads is written with its padding and *)
(* then refused.                                                           *)
WrittenIsAccepted ==
  conversion = "written" =>
    \A declared \in [Tensors -> Declared] : ReaderAccepts(declared) <=> Seamless(declared)

(* No conversion takes bytes of the source from outside of the file or for *)
(* two tensors (qx_gguf_load_tensor_table), and what it writes with        *)
(* success fails the layout and size checks of its own reader only if the  *)
(* source has an empty or padded tensor, or one of a type or dimensions    *)
(* the reader does not take (qx_write_tensor_copy_from_gguf,               *)
(* qx_open_file_with_backend).                                             *)
ConversionSound == TableWithinSource /\ WrittenIsAccepted
=============================================================================
