# QX: specifications, model checking and proofs

This directory holds the TLA+ development for QX, a C runtime that runs the
Qwen3-30B-A3B mixture-of-experts model from a container file of its own, QXF,
on a machine whose memory the model does not fit into. Paths below are relative
to the repository.

The part of QX worth specifying is not the arithmetic but the life time of what
the arithmetic reads: slices of expert weights that are borrowed from a cache,
read by worker threads, given back and evicted; a container file that is
rewritten in place; a KV cache that continues from run to run.

## 1. The system

### Components

| Component | Source | State it keeps | Operations |
|---|---|---|---|
| Row pool | `src/qx_row_pool.h` | one lock, two condition variables, the current job (rows, callback, context, `remaining`, `failed`, `generation`), up to 64 threads | create, run, destroy, worker loop |
| Expert cache | `src/qx_expert_cache.c/.h` | LRU list of entries with key, data and pin count; byte budget; counters | init, acquire, release, snapshot, destroy |
| MoE layer | `src/qx_format.c` (`qx_apply_real_moe_layer`, `qx_packed_expert_matvec_mode`) | six buffers in the scratch workspace, the selected experts, one borrow | route, three matrix products per selected expert, sum |
| QXF container | `src/qx_format.c` (writers, `qx_open_file`, `qx_verify_tensor_checksum`) | header, directory, tensor data on disk; header and directory of an open file in memory | write metadata, copy tensors, open, find, verify, close |
| Spans and scratch | `src/qx_format.c` | a mapped or a buffered view of a byte range; one reusable block with a bump pointer | acquire/release span; reserve, reset, alloc, free |
| Generation loop | `src/qx_format.c` (`qx_run_prompt_state_loop`) | position, current token, KV buffers and scales, step counters | prefill, decode, sample, end of sequence, replay |
| KV snapshot | `src/qx_format.c` | a file with the KV slots of a run and a SHA-256 trailer | write, read |
| Final head, CPU | `src/qx_format.c` | logits, top-n list, up to 64 one-shot threads | compute, join, reduce |
| Final head, CUDA | `src/qx_cuda_final_head.cu` | device copies of the weights, an activation and a logits buffer, counters | create, compute, destroy |
| Native API | `src/qx_format.c`, `include/qx_format.h` | none of its own; option and profile structures by version | validate, run, fill profile |
| Tokenizer | `src/qx_tokenizer.c` | vocabulary, merges, their hash indices | load, encode, decode |
| GGUF reader | `src/qx_gguf.c` | a table of tensors with offsets and sizes | inspect, load table, export tokens |
| Kernels | `src/qx_format.c`, `src/qx_avx2.c` | none | decode a block, dot products |
| Acceptance supervision | `scripts/native_4k_acceptance.py` | a child process, a journal, a report | run, poll, stop the tree, publish |
| CLI, probes, estimator | `src/qx_qxf_main.c`, `src/qxfit.c`, ... | none | one report per command |

### How they interact

A run opens a QXF file, optionally initialises an expert cache whose
`read_exact` callback reads that file, allocates KV buffers, optionally uploads
the output matrix to the GPU, and creates the row pool. For every token and
layer it computes attention, then calls the MoE layer. The layer asks the cache
for a slice (`acquire` pins it), has the row pool compute the output rows
(worker threads read the slice, concurrently, without a lock), waits for them
(`qx_row_pool_run` joins), and releases the slice (`release` unpins it), so
that the next `acquire` may evict it. Every way out of the run closes the file,
destroys the pool and then the cache.

Three promises tie this together, each written down in a comment:

* `qx_format.c:4868`: "run joins every reader before the coordinator releases
  the borrowed slice";
* `qx_expert_cache.h:58`: "borrow->data remains valid until its matching
  release. Runtime callers are sequential and must release a borrow before
  their next acquire";
* `qx_row_pool.h:98`: "The coordinator exclusively owns run/destroy; callbacks
  must not reenter it".

### What is hard, and what correctness means

* *Row pool*: interleavings of up to 64 threads with two condition variables,
  lost and spurious wake-ups, creation that fails half-way. Correct: every row
  is computed by exactly one callback, run returns after the last of them and
  reports this job's failures only, nobody sleeps with work to do, the memory is
  freed after the last thread left.
* *Expert cache*: sequential, but every call of its environment may fail, and
  what a mistake breaks shows up many calls later. Correct: a borrow stays
  valid, pins are borrows, resident bytes are those of the resident keys and
  within the budget, the victim is the least recently used unpinned entry,
  no failure leaks.
* *MoE layer*: many error returns, each with its own hand-written clean-up,
  buffers reused between experts. Correct: no callback outlives its slice, no
  pin its product, no entry the run; an expert's sum has only its own rows.
* *QXF container*: rewritten in place, no temporary file and rename. Correct:
  whatever a killed copy leaves, what opens is one complete model, and what
  verifies is genuine, also for a reader that a copy overtakes; and a copy that was
  reported is one the reader takes, if its source was.
* *Generation loop and snapshot*: positions, steps and slots count different
  things, and a snapshot shifts them. Correct: each layer writes each slot once
  and reads only slots below the current position; a replay continues as the
  uninterrupted run would.
* *CUDA head*: partial failure of creation and computation. Correct: no context
  or a complete one; nothing is left of a failed computation.
* *Tokenizer, GGUF*: algorithms on untyped bytes with boundary arithmetic.
  Correct: lowest-rank leftmost merges, the work limit never cuts off a legal
  chunk, offsets stay in the file although their check wraps.
* *Scratch workspace*: growing it moves it. Correct: no buffer of a layer call
  is used after the block it was cut from is gone.
* *Everything that acquires*: about a hundred functions release by hand on every
  return. Correct: nothing is left, released twice or used without being held.
* *Policies*: the same options are tested at the command line, in the API, in the
  loop, in the layers and in the head. Correct: what one refuses, an earlier one
  refuses too, before minutes of prefill.

The full list of hazards with their lines is in `PROJECT.json`. One of them, in
the acceptance script, has no property yet; its note says which planned module
is meant to cover it.

## 2. Modules

| Module | Role |
|---|---|
| `RowPartition` | the arithmetic that cuts a job into ranges, with both integer widths |
| `RowCuts` | every job the pool may be asked to cut, for every number of workers |
| `RowPool` | the pool: lock, condition variables, coordinator and workers |
| `ForkJoin` | what the pool promises: an abstract job without threads |
| `ExpertCache` | the cache, one action per stage of acquire |
| `SliceLibrary` | what the cache promises: slices that are lent and taken back |
| `MoeLayer` | the layer, composing `ExpertCache` (by EXTENDS) with `ForkJoin` (by INSTANCE) |
| `QxfFile` | a file, its two writers and its reader |
| `ModelFile` | what a path promises: one complete model or none |
| `KvSnapshot` | the file with keys and values between two runs |
| `GenerationLoop` | the token loop, on top of `KvSnapshot` |
| `PathSteps` | the vocabulary of resource paths: acquire, call, use, release, branch, loop |
| `ResourcePaths` | the engine that runs a path and lets everything fail that can |
| `ContainerPaths`, `ProbePaths`, `DecodePaths`, `ServicePaths` | the paths of 107 functions and commands |
| `TopTokens` | the list of the best tokens every head fills |
| `Tokenizer` | encoding: special tokens, chunks, the merge loop |
| `PreTokenizer` | the scanner that cuts chunks, against its regular expression |
| `PolicyGates` | which options each way to start a run accepts, and where |
| `ScratchWorkspace` | the block that layer calls take their buffers from |
| `TensorLayout` | offsets and sizes in a GGUF file and in the container written from it |
| `RowPartitionProofs`, `RowPoolProofs`, `ExpertCacheProofs`, `QxfFileProofs`, `GenerationLoopProofs`, `MoeLayerProofs` | theorems and proofs about one state machine each |
| `ComputationProofs` | theorems and proofs about six sequential computations: best tokens, merge limit, scratch workspace, policies, layout, row cuts |
| `EncoderProofs` | theorems and proofs about the encoder and the pre-tokenizer |
| `MCRowPool`, `MCExpertCache`, `MCQxfFile`, `MCMoeLayer`, `MCGenerationLoop`, `MCComputations`, `MCResourcePaths` | instances for TLC |

Every module carries, next to the definition it belongs to, one or more
variants marked `mutant`: the same step with a plausible bug. They are not used
by the specification; each property was seen to fail when one of them takes the
place of the definition below it.

### RowPool

One action is what a thread does between two points where others can interfere:
taking the lock, going to sleep (which releases it), returning from the
callback. `wpc[w]` is where worker w is (`enter`: wants the lock; `check`: holds
it; `asleep`; `call`: in the callback; `reenter`, `finish`: back with the
result; `exited`), `cpc` where the coordinator is. The fields of
`struct qx_row_pool` are variables of the same names (`jobs` always equals
`generation` and has no reader, so it is left out), the locals of
`qx_row_pool_entry` are functions of the worker. `WakeAllConditionVariable`
moves the sleepers to `enter`; a sleeper may also wake by itself, as Windows
allows. A callback returns 0 or 1 freely. `CreateThreadFails` leads into the
destroy path with the threads created so far. The two return values of
`WaitForSingleObject` that the code ignores are not modelled: with valid handles
and an infinite time-out it only returns when the thread has ended.

The caller's contract (one coordinator, no reentry) is how the code uses the
pool: there is one pool per run and only `qx_run_prompt_state_loop`'s thread
calls it.

`ForkJoin` forgets threads and wake-ups: rows are *to do*, then *active* in a
callback, and `Join` needs both sets to be empty. In the refinement mapping the
rows to do are the ranges of the workers that have not seen the generation yet.

### ExpertCache

`list` is the linked list from `cache->lru` to `cache->mru`. Acquire is `Hit`,
or `Miss` followed by `Evict`*, `AllocEntry`, `AllocData` and `Load` or
`ReadFails`, with an early return after each of them; the stages are separated
where the code calls one of the operations it was given. Addresses are reused:
`AllocEntry` may return one that was freed by the eviction before, so that a
comparison of pointers with a stale borrow would be noticed. `CounterMax` is
the largest counter value, so that every overflow check of the code is reached.
`want` and `lastUse` are history variables: the key a borrow was asked for, and
the number of the request that last lent an entry.

Key validation (`reserved`, zero size, offset overflow) rejects a call before
anything changes and is not a step.

`SliceLibrary` states what the header promises the callers without list, addresses,
pins or counters: a slice that was lent is read unchanged until it is returned, what
is in memory fits the budget, and only what is not lent is discarded. The refinement
mapping reads through the addresses: a borrow reads what stands at its address now
(`AbstractReads`), so an address that was freed and used again under a borrow would
show. A hit is `Lend`, a load that succeeds is `Lend` with a new slice in stock, an
eviction `Discard`, all other stages stutter.

### MoeLayer

`step` is where the calling thread is. The layer calls the cache's actions as
they are, so all failures inside acquire are there; the pool is represented by
`ForkJoin`, which `RowPool` implements. `Contents` is what a read of the slice
returns at this moment: the slice's key, or `NULL` if its memory was freed.
Instead of numbers, a row of an output buffer holds the key of the slice it was
computed from. The run around the layer (open, pool creation that fails, end,
destruction of the pool and then the cache) is reduced to what those two see.

Left out: attention between two layers, and the Q8_K activation, which excludes
the pool (`qx_format.c:4858`) and differs from the serial path only in the
kernel. A failure in any step that does not touch cache or pool is `LayerFails`.

### QxfFile

The disk (`size`, `hdr`, `dir`, `sums`, `data`) is what has reached the file.
Each `fwrite` is an action of its own (tensor data is copied unit by unit), and
`Stop` may end the writer before any of them: an error return of the code, or
the end of the process. Both writers open with `"wb"` (`Truncate`), write header, a
directory without checksums, padding, tensor data and a last byte at
`file_size - 1`, seek back and write the directory again with the checksums.
The reader reads as the code does: the header (`OpenHeader`), the length of the
file (`CheckSize`), the directory entry by entry (`ReadEntry`, the last one followed
by the checks on the copy in memory), and when it verifies a tensor, its data unit
by unit (`ReadUnit`). A writer may begin or go on between any two of these reads, and
the reader keeps header and directory from open to close while it does. Each read and
each verification may also fail without a reason. `overtaken` is a history variable: a
copy began between two reads of the open. Header, directory and tensors start at
multiples of `QX_ALIGN_BYTES` (4096), so a block that stdio reads ahead, which is taken
to be no larger, does not hold bytes of two of them.

`Accepted` are the reader's checks of a directory: names (`Name`: none empty, none
twice), types and dimensions (`Given`: the size they give, 0 if they are refused),
placement, the stored size against the given one, and overlaps; a file that ends where
its data would begin is taken for one without data. The writers make none of these
checks: they store what the GGUF table says. `Opens` is what the reader finds if no copy
overtakes it.

Assumptions about the environment, all in the header of the module: writes reach
the file in the order in which they are made (stdio buffers but does not
reorder; power failure, where the file system may, is not modelled); FNV-1a is
taken to be injective on the data in question, so that a checksum is represented by
the model whose data it is of. `LayoutAssumption` is what the writer's layout loop
computes (`qx_format.c:570`-`591`), empty tensors included; the MC module computes the
offsets with that loop. All models have the same number of tensors.

### GenerationLoop and KvSnapshot

What is in a vector is represented by what it was computed from: a set of pairs
of a position and the token that was fed there. An embedding is one such pair,
attention adds what is in the slots it reads, so a slot that was missed, shifted
or left by another run shows in the result. Two more elements are `Blank`,
memory as `calloc` returned it (values and scales zero), and `Foreign`, a
residual from a file or a flipped byte. `FactsOf(text, n)` and `SlotOf` say what
the head and a slot should hold after a text.

`pc` is where `qx_run_prompt_state_loop` is: `load` (reading a snapshot, if the
call names one), `token` (top of the loop), `layer`, `head` (after the last
layer), `finish` (after the loop), `save` (writing a snapshot). `base` and
`local` are `position_base` and `local_step`; `kv` has one slot per layer and
position. A layer is one action: K and V are stored before the same layer reads
them, and no other thread sees the buffers. Which token the head selects is
free; the properties must hold for every choice. The three entries of the
library differ in `Captured`, `Limit` (64 or 4096) and `Room` (the caller's
array). `RunFails` stands for every error return inside the run and for the end
of the process; both leave the file as it is at that moment.

The writer truncates and writes the header (`SaveHeader`), writes layer by
layer (`SaveLayer`) and ends with the digest (`SaveDigest`), and may stop
between any two. The digest is represented by what it is computed from: SHA-256
is taken to be free of collisions. `DamageFile` alters a complete snapshot
between two runs. There is one path, read and written. The function
accepts a call that does both, as the model does, although the command line
does not offer it.

`text`, `hybrid` and, in the file, `text`, `last` and `hybrid` are history
variables: what was fed since the first run of the chain, the token selected
last, whether a residual came from a file anywhere in the chain.

Modelled is the path with real K and V, a carried residual and causal attention
over all layers, which the library and the full MoE probe take. The diagnostic
modes that switch one of the three off, profiles, dumps and timing are not; what
the loop holds in those modes is in `DecodePaths`.

### Resource paths

CONTRIBUTING.md asks for a matching release of every allocation on all error
paths, and the code does it by hand: one release list per return. A path is what
a function does, reduced to that. `Get` acquires resources and checks them
together, `Call` is a check or a call that needs some and may fail, `Use` work
that needs some and cannot, `Drop` releases, `Clear` also resets the pointers,
`Move` hands one over; `Maybe`, `Either` and `Loop` are the branches, taken
freely. Each failing step carries the list of what this return releases. A
resource has the name of the C variable that holds it: memory, a file, a mapping,
a lock, a thread, a device buffer. A call of another function of the project
appears with what that one promises (all or nothing), which is checked on that
function's own path.

`ResourcePaths` runs the path of any function, step by step, with every outcome:
each acquisition of a group missing, each call failing, each branch either way.
It keeps what is `held` and which pointers are `dangling`. Releasing a
handle that was reset, or `NULL`, is harmless, as in C. `Reads` says what a
resource still reads while it is held (a view its file, a thread its buffers), so
that releasing in the wrong order is noticed.

The four modules with the paths follow the source: containers, spans and tensor
copies (`ContainerPaths`), the probes (`ProbePaths`), the forward pass with the
final head and the prompt loop (`DecodePaths`), GGUF, tokenizer, the CUDA head and
the commands (`ServicePaths`).

### TopTokens

One step per token of the vocabulary, in order, which inserts it into the list as
`qx_reduce_final_head_logits` does. Logits are integers that stand for doubles;
the list may be longer than the vocabulary, and then keeps fillers.

### Tokenizer and PreTokenizer

`Tokenizer` is `qx_tokenizer_encode`: the search for the next special token, with
the earliest match so far bounding the later ones, then a chunk, the merge loop with
its limit on looked-up pairs, the look-up of the symbols, and BOS and EOS with a
missing id. A symbol is the sequence of bytes it stands for. How long a chunk is is
left open there; `PreTokenizer` has the scanner `qx_tok_pretoken_length` on
classes of characters and states the regular expression it stands for,
alternative by alternative, as the lengths each of them can match. Both work on the
classes `qx_tok_classify` assigns; that these are the Unicode categories the expression
names is not shown. A segment grows character by character, so that a behaviour walks
over all of them.

### PolicyGates

One step per gate a set of options passes on its way from the command, the probe,
the native API or the C function down to the first final head. `Route` lists them.
What the machine has (Windows, CUDA, AVX2) is free.

### ScratchWorkspace

A call of attention plans its six buffers, reserves their sum once and takes them
one by one; a call of the MoE layer takes a single buffer and cuts it itself.
`block` names the block in use, and a buffer remembers the block it was cut
from. `SizeMax` is small, so that sums and products that do not fit a `size_t` occur.

### TensorLayout

`qx_gguf_load_tensor_table` reads where each tensor starts, checks it with a sum
that wraps in 64 bits (`qx_gguf.c:330`), sorts, and takes the gaps as sizes.
`qx_write_tensor_copy_from_gguf` places the tensors in the container with sums that
are tested first. `ReaderAccepts` are the checks `qx_open_file_with_backend` makes
on the places and sizes. What type and dimensions of a tensor give is not looked at by
any step of the conversion, only by the reader: the property quantifies over it
(`declared`). `Words` is 2^w for a small w, and offsets are arbitrary words.

## 3. What is checked

| Run | Instance | Question |
|---|---|---|
| `pool` | 3 workers, jobs of 2 or 7 rows (32-bit integers scaled to 3 bits), two contexts, two jobs | late readers, lost wake-ups, disjoint writers, use after free, refinement of `ForkJoin`; do run and destroy return? |
| `cache` | four keys (1, 1, 3 and 4 bytes), budget 3, counters up to 6, three addresses, two borrows | borrows, pins, accounting, leaks, LRU order, refinement of `SliceLibrary`; does acquire return? |
| `moe_safety` | 3 experts, 2 selected, 2 rows, budget 6, counters up to 20, with and without cache and pool | the composition |
| `moe_live` | 2 experts, 1 selected, budget 3, counters up to 7 | does a layer call return? |
| `qxf_file` | two models of two tensors and equal length, a padded and an empty one, one with a name twice, one metadata file, alignment 2 | what can a reader find at the path, also one that a copy overtakes? what is a reported copy worth? |
| `loop_library` | two tokens, 2 layers, context of 4, prompts of 1 to 3 tokens, 1 to 4 to generate, arrays of 2 and 4; F32 probe runs of one token with snapshots and replays | do the caller's result and counters agree with what was fed? does a run end? |
| `loop_snapshot` | the same tokens, prompts of 1 and 2, a context of 4 (INT8) and of 2 (F32), residual replays, any chain of snapshots | slots, positions, and what a snapshot carries over |
| `snapshot_scales` | as `loop_snapshot` | do all records of a finished snapshot have the scales its documentation asks for? |
| `resources` | the 107 paths, every outcome | is anything leaked, released twice, or used without being held? |
| `loop_leak` | the path of the prompt loop with deltas and causal attention, without the experts | does it release everything? |
| `command_leak` | the path of `cache-run` | does it? |
| `computations` | see below | partition, best tokens, encoder, pre-tokenizer, policies, scratch workspace, layout of tensors |

All of them pass, but for three, each of which shows a disagreement:

* `snapshot_scales`. A residual replay that starts above layer 0
  (`qx_format.c:6479`) leaves the layers below as `calloc` made them. A snapshot
  taken from it records them, with scales of zero, and is reported as complete. The
  wiki page of the snapshot and `scripts/kv_snapshot_replay.py` require 1.0 for F16
  and F32 and a positive scale for INT8; the program's own reader enforces the
  former (`qx_format.c:6087`) and not the latter. The counterexample is a single
  replay that starts at layer 1, and the snapshot it writes.
* `loop_leak`. When the delta vectors of a layer cannot be allocated
  (`qx_format.c:6662`), the return releases everything but `causal_vec`. Only
  `prompt-state-loop-probe` with causal attention and without the full MoE gets
  there.
* `command_leak`. `cache-run` reads its sequence file before it looks at its other
  arguments, and returns the usage error (`qx_qxf_main.c:1288`) without releasing
  it; `cache-run-expert` does release it.

`resources` covers everything else: all paths but `cache-run`, and the prompt loop
in all its other modes.

Three things seen on the way that no document contradicts, each stated by a property
as the code has it:

* A `pool` thread policy outside of Windows, and a processor without AVX2, are refused
  only by the first final head, after the whole prefill; `RefusedAtOnce` names these
  exceptions.
* The size of a tensor read from a GGUF file includes the padding up to the next one
  (`qx_gguf.c:342`). The copy stores it and reports success; the reader computes another
  size from type and dimensions and refuses the container (`qx_format.c:801`). The same
  becomes of an empty tensor and of two names that are equal after they were cut to
  `QX_NAME_MAX`. `SuccessIsUsable` says that a reported copy is usable exactly if its
  source has none of this, and `ConversionSound` says it of the layout.
* A copy that begins while a reader is between header and directory can make it open the
  header of one model with the directory of another, if their lengths agree, and all
  tensors verify. `VerifiesGenuine` claims the header's model only for an open that was
  not overtaken; without that condition TLC finds the mix.

Why the instances are large enough:

* *pool*: three workers are the smallest pool in which one can be late, one
  working and one done; with 2 rows one worker has an empty range, with 7, the
  largest number of rows the scaled integers hold, the ranges are uneven. Two jobs
  are what it takes for a stale failure, a stale context and a worker that skips or
  repeats a generation. `MaxJobs` bounds `generation` (64 bits in the code).
* *cache*: the budget holds two small slices or a big one, so a big admission
  evicts both, with two borrows a part of them pinned; one key is larger than the
  budget. Counters up to 6 leave room for an eviction, a re-load and a re-hit before
  the limit is reached, and then reach it.
* *moe*: the slices of one layer call (8 bytes) exceed the budget, so evictions
  happen between the products of one expert and hits between two calls; the
  byte counter's limit falls into a later call.
* *loop*: the second layer is the first one that depends on earlier positions,
  so two show a wrong slot. `StepLimit`, 64 in the code, is 3 and `BufferLimit`,
  4096, is 4, so that with a context of 4 the limit on steps cuts in before the
  context, and with one of 2 after it. A snapshot of one position leaves room for
  a run of two steps and for a further snapshot of that, so chains of three runs
  occur. The F32 configuration is there for the check of scales and for
  refusing a snapshot of another configuration. Two tokens suffice
  to tell a right token from a wrong one and an end of sequence from another.
* *qxf*: `even` and `odd` have the same length, so that only their contents can tell
  them apart; one ends on an aligned position, so that the tail writes nothing, the other
  one does not. The padded model and the one with a name twice are as long, so a header
  of any of the four can meet a directory of any other; the empty one ends where the data
  begins and has the length of the metadata file. Two tensors are a first and a last
  one, and enough for a directory with entries of two models.
* *resources*: no bound; paths are finite and a loop adds no resource, so all
  behaviours are covered.
* *computations*. Partition: 32-bit integers scaled to 4 bits, all row counts and
  2..15 workers, so that `rows * index` exceeds the scaled range for most pairs.
  Best tokens: vocabularies of up to 5 with three logits, so ties of every
  kind, and lists of up to 3, longer and shorter than the vocabulary. Encoder: all
  texts of up to 6 bytes over two letters with five tokenizers whose special
  tokens overlap, contain one another or share a prefix and whose merges build on
  merges; an array of 5, which some texts exceed; a chunk of 6 that merges
  completely is the one that needs the whole limit. Pre-tokenizer: all segments of up
  to 4 characters over the ten classes it tells apart, which is a longest
  contraction with what precedes and follows. Policies: all combinations; thread
  counts 0, 1, 2 and 65 stand for the ranges the gates distinguish. Scratch:
  dimensions from 1 to 17, whose sums overflow `SizeMax` (127), and blocks from 8 to
  64, so that a call grows the block an earlier one has left.
  Layout: words of 4 bits, so that most offsets make the table's sum wrap, three
  tensors, which is one with a neighbour on either side; two lengths of the file, with
  its data starting anywhere in it or behind it; declared sizes of 0 (refused), 1, 3 and 7,
  which match some gaps and not others.

Symmetry is used for tokens in `loop_snapshot` and `snapshot_scales` and for
experts and addresses in `moe_safety`; no run with a liveness property uses it. No
run disables the check for deadlock except `computations`, whose computations end.

### Fairness

`pool` assumes weak fairness of every thread's own steps, strong fairness
of taking the lock (a critical section is granted eventually to one who keeps
trying, although others take it in between), and that a callback returns. Spurious
wake-ups are never assumed: a wake-up that is only missing because nobody was
lucky enough would be found. `cache` and `moe_live` assume that a call which
was made goes on; nobody is obliged to make one. `loop_library` assumes weak
fairness of the running thread's own steps, not of the calls, of a failure or of
damage to the file. All of it is what the operating
system's scheduler gives to runnable threads; none of it concerns the outcome of
an allocation, a read or a callback.

## 4. What is proved

TLAPS checks all proofs, for every value of the constants that the modules'
`ASSUME`s admit.

**RowPartition** (`RangesCover`, `RangesDisjoint`, `RangesBalanced`): for all
`rows < U32` and `0 < workers < U32`. The product stays below `U32 * U32`
and the quotient below `U32`, so both conversions are identities;
`Cut(rows, i, workers)` is then monotonic in i, 0 at 0 and `rows` at `workers`,
and the range a row belongs to is found by dividing back. `SpecRowsPartitioned` in
`ComputationProofs` states it as the run checks it.

**RowPool** for any number of workers. The properties are not inductive: that no
callback runs after run returned depends on `remaining` being the number of
workers that still owe a report. `IInv` says so (`DrainInv`), together with who
owns the lock, that exactly the created threads exist, and that outside of a job
every worker is quiet. From it follow `NoLateReader`, `NoLostWakeup`,
`DisjointWriters` (with the partition lemmas), `NoUseAfterFree`, and
`PoolImplementsForkJoin`: each action maps to a `ForkJoin` action or a stutter.

Proved as well: the pool is free of deadlocks, and a call ends after finitely many steps
that are not spurious wake-ups; see *Termination* below.

**ExpertCache** for any keys, budget and number of borrows. `IInv` adds to the
checked invariants: one entry per key, the list strictly ordered by last use (so
no entry is linked twice), what exactly is allocated in each stage, and what a
stage knows about its request (the key is still absent, the borrow still empty,
after the eviction loop the slice fits). `EvictsLeastRecent` is the action
property that follows from the order. `CacheImplementsLibrary` is the step simulation
for `SliceLibrary`.

**MoeLayer** for any experts, matrices, rows and budgets. `LayerInv` relates where
the caller is to the cache (`CacheLink`: between products nothing is borrowed or
pinned, during one exactly the slice of the current expert and matrix is), to the
pool (`PoolLink`: it has rows to do or active only while the caller waits in run) and to the
buffers (`RowsLink`: the rows computed so far come from the slices of the current
expert). A
step of the layer is a step of the cache or leaves the cache's variables alone, so
`IInv` of `ExpertCacheProofs` carries over and its lemmas are used, not repeated.
All safety properties of the run follow, among them that no callback reads a
slice that was released (`ReadersHoldSlice`) and that no expert is summed from
another one's rows (`SumsOwnProducts`). `NothingPinnedBetween` includes that the
admission of a slice always finds an entry to evict, which is a theorem of its own
(`AdmissionNeverBlockedHolds`).

The composition is also justified from the other side. The cache is specified with any
callers, the pool is replaced by `ForkJoin`; that is only sound if the layer calls both
in states they are made for. `CallsInPlaceHolds` says it does, and `LayerUsesCache` and
`LayerUsesPool` that each behaviour of the layer, seen from the cache or the pool, is
one of `ExpertCache` (and so of `SliceLibrary`) or of `ForkJoin`.

**QxfFile** for any models and layouts. `IInv` says of the disk: it belongs to
the model in its header, is never longer than that declares, and at full length
directory and data are complete, unless a tensor is empty (`DiskInv`); of the writer:
what is behind its position is in place (`WriterInv`); and of the reader: unless a copy
overtook it, the file has the header it read for as long as it is opening, and the
entries it read are of that model (`ReaderInv`). A file with an empty tensor can reach
its full length early, which is why `OpensComplete` also needs that the reader refuses
it (`OpensIsRegular`). `SuccessIsUsableHolds` follows from `FullOpens`: of a file of full
length the reader's checks come down to what its source gives it to refuse.
`ImplementsModelFileHolds` shows that writers implement `ModelFile`: only truncation
withdraws a model, only the write that completes the last checksum publishes one (for
a metadata file, the write that gives it its size).

**GenerationLoop** for any number of layers, any context, any calls and any
chain of snapshots. That the head sees exactly the text (`SpecExactContext`)
needs to know of every slot below the position what it was computed from
(`SlotInv`), for that which token was fed at each position (`TextInv`,
`TokenInv`) and how positions, steps, counters and the lengths of text and
result relate (`PlaceInv`), and for a run that resumes that a digest stands for
a header and rows that fit the text they were taken from (`FileInv`), also while
they are being written (`SaveInv`). `EosInv` adds that only the last token can
end the sequence, `FreshInv` that nothing is left from the call before, and
`CallInv` that the call was found legal. `SpecIndicesInBounds` shows why the
global index in the look-ahead is safe: a run with a base above zero
has a prompt of one token. `SpecHistoryImmutable` is the action property.

**The sequential computations** (`ComputationProofs`), for all sizes:

* `TopIsBest`: after any number of tokens the list holds the best of them, the
  earlier one first among equals. With the types of the list it is inductive as it
  stands; the work is in the insertion, which shifts entries.
* `NeverGivesUp`: a chunk of n bytes never looks up more than the n(n-1)/2 pairs
  the merge loop is limited to. A pass over k symbols looks up k-1 pairs and leaves
  k-1 symbols, so the work done is at most what the passes from n to k add up to.
* `RefusedAtOnce`: no gate accepts what a later one refuses, except for what only
  the loop and the head can find out.
* `BuffersLive`: all buffers of a call lie in the block in use and do not overlap.
  What makes it work is that the plan adds up the same buffers in the same order as
  they are taken, so that no take can grow the block after the reserve.
* `ConversionSound`: no byte of a GGUF file is given to two tensors or lies outside
  the file, and what is written passes the reader's checks on layout and sizes exactly
  if every gap is the size its type and dimensions give. The wrapped check of an
  offset alone would not do it: that offsets are sorted, and that the last gap is
  measured from `data_offset`, confines the sums.

**The encoder** (`EncoderProofs`), for every text, tokenizer and capacity:

* `SpecTokensSpellText` and `SpecSpecialsTaken`. `EncodeInv` adds three things to
  the two properties: the types, with what each phase knows about chunk and symbols
  (`EncodeTypes`); that a chunk never passes the end of the segment
  (`ChunkInSegment`); and `StraddlersOverlapped`. The last one is needed
  because the end of the segment is searched anew for each chunk, from the byte
  after the chunk's start: an occurrence that started before the offset is no
  longer found, and one that ends behind a later chunk would be cut in two. It says that
  such an occurrence either ends after the next special token found, or overlaps
  one that was taken. It survives a chunk because the search finds
  the same end from any offset below it (`OffsetStable`).
* What the search finds is proved about the loop as it is written, in which the tokens
  compete in vocabulary order and a later one counts only if it ends at or
  before the earliest found so far: no special token lies completely between the
  start of the search and its result (`NothingWithin`), and the
  result is the end of the text or the start of one (`OffsetIsSpecial`).
* `SpecTokensStand`: each token is the part of the text at its place, so that the places
  `SpecialsTaken` speaks of are places of the text. `EncodedTextIsSpelled`: on success
  the tokens spell the whole text.
* `SplitCutAsRegex`: by the class of the character at the offset. Of each alternative
  of the expression it is shown what its longest match is, or that it has none
  (`CutWord`, `CutSigns`, `CutWhite`, ...); the scanner's branches are the first
  alternatives that match.

**Termination.** Liveness under fairness cannot be proved here, but what makes it true
can be, and for every size: with every step a call takes, a measure over the natural
numbers decreases, so a call that is not over takes only so many steps.

* `CallsTerminate` (pool): within a part of create, run or destroy each thread has a
  number that says how far it is from the end of its work. Every step lowers one of
  them and raises none, or ends the part. Spurious wake-ups are the exception: they can
  be repeated without end, and only the scheduler prevents it.
* `NoStandstillHolds` (pool): at any point of a call the coordinator or some worker can
  go on, without a spurious wake-up. With `CallsTerminate` this is all of `CallsReturn`
  but the scheduler's fairness.
* `AcquireTerminates` (cache): the stages of acquire follow each other, and each round of
  the eviction loop leaves a shorter list.
* `LayerTerminates` (MoE layer): products left, then the stage of the product, then
  what is left of the acquire or of the job. The cache's measure is used here as it
  is.
* `RunTerminates` (loop): the part of the function, the steps left of the call, the
  layers or rows of the snapshot left.
* `EncodingTerminates` (encoder): the text left, the phase of the chunk, its symbols. It
  needs that no chunk is empty and that empty special tokens are never taken. The merge
  loop is found to end even without its work limit.

Each measure was checked by TLC before it was proved.

The induction theorems of the library take a predicate as a parameter, which
none of the provers can instantiate. Where a proof needs induction, it takes the
least counterexample instead (`LeastOf`, from the well-foundedness of `<`), and shows that
the recursive functions the search and `FlattenSeq` choose do exist (`SearchExists`,
`FlattenExists`).

Before they were proved, the inductive invariants of the pool, the cache, the
file and the encoder were checked by TLC on the instances of section 3; the
properties the runs check follow from them.

Assumptions that proofs rest on are the named `ASSUME`s of the modules; TLC
evaluates each of them in the runs.

### Only model-checked

* Liveness under fairness (`CallsReturn`, `AcquireReturns`, `LayerReturns`,
  `RunEnds`): fairness is about `ENABLED`, which is out of reach of the proof system.
  Proved is what they rest on (*Termination* above).
* `NothingLeaks` and `NothingMisused`: finite and without parameters, so that the
  run settles them.

## 5. What is not modelled, and why

* Floating-point arithmetic: kernels, attention, norms, sampling, the kernel of
  the CUDA head. The repository compares it with oracles.
* What probes, dumps, the slot cache simulation and the memory estimator report,
  the parsing of single arguments, the offline scripts: sequential reports without
  state. What they hold is in the resource paths.
* Decoding of tokens, the UTF-8 tables, the format of the tokenizer's sidecar, its
  hash indices (taken to find what is in the table), the metadata of a GGUF file:
  parsers of bytes.
* How a size is computed from type and dimensions (it is a constant of the models), the
  bytes of header and directory entries, models with different numbers of tensors at one
  path, and a mapped file that is rewritten: what a mapping shows then is up to the system.
* That a failed computation of the CUDA head leaves the caller's logits alone, as values;
  what it holds is in the resource paths.
* The order of the reads within the reader of a snapshot: it accepts or refuses in one
  step, and a refused one ends the run.
* The reserved and size fields of the API's structures, `qx_expert_cache_snapshot`
  and the profile structures: they are compared with zero or copy counters.
* The acceptance script with its supervised child and its journal: planned.
* Power failure during a copy. The code does not flush to the medium, and a
  model of it would have to invent what the file system does.
* Windows API failures that the code does not look at (waiting on a valid handle).

## 6. Plan

Done: the pool, the cache, the MoE layer, the container, the loop with its
snapshot, each with proofs; the sequential computations, all with proofs; the resource
paths. Left, in this order:

1. The diagnostic modes of the loop that do without real K and V or without a
   carried residual, as values and not only as resource paths.
2. `AcceptanceJournal`: the supervised child that ends, times out or breaks a limit
   between two polls, and the journal that must agree with what happened.
3. `Utf8` and the decoder of the tokenizer: decoding what was encoded gives the
   text back.
4. The structures of the native API: which version may fill in which field, and
   that a refused call leaves the caller's result untouched.
5. The counters of the CUDA head over failed computations.
