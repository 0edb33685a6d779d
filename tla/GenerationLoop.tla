--------------------------- MODULE GenerationLoop ---------------------------
(***************************************************************************)
(* The token loop of qx_run_prompt_state_loop: prompt tokens are fed one   *)
(* by one, then the tokens that were selected; every layer appends one     *)
(* slot per position to its key/value cache and attends to all slots up to *)
(* that position.  A run may start from a snapshot, which shifts positions *)
(* against the run's own steps, may replace the embedding by a residual    *)
(* from a file and start at a layer of its own (residual replay), and may  *)
(* leave a snapshot for the next run.                                      *)
(*                                                                         *)
(* A residual is represented like a slot: by what it was computed from.    *)
(***************************************************************************)
EXTENDS KvSnapshot

CONSTANTS
  Calls,         \* the calls made, see CallType
  StepLimit,     \* 64: steps of a run, and positions with a snapshot
  BufferLimit,   \* 4096: steps of a run with a caller's buffer
  None           \* no end-of-sequence token, no index, no call

\* entry: without capture ("state"), or into a fixed or a caller's array.
CallType ==
  [entry : {"state", "fixed", "buffer"}, prompt : Seq(Tokens), gen : Nat,
   first : Nat, replay : BOOLEAN, in : BOOLEAN, out : BOOLEAN,
   config : Configs, eos : Tokens \cup {None}, capacity : Nat]

ASSUME LoopAssumption ==
  /\ Calls \subseteq CallType
  /\ \A c \in Calls : c.entry # "state" => ~(c.replay \/ c.in \/ c.out)
  /\ StepLimit \in Nat \ {0} /\ BufferLimit \in Nat
  /\ None \notin Tokens \cup Nat \cup Calls

VARIABLES
  pc,
  call,                  \* the arguments
  base, local,           \* position_base, local_step
  layer, current,
  residual, kv,
  counts,                \* executed, prompt and generated-input steps
  tokens, stopped, firstEos,        \* the caller's result
  text, hybrid           \* history: all tokens fed, here and before the
                         \* snapshot; whether a replayed residual is involved
loopVars == <<pc, call, base, local, layer, current, residual, kv, counts,
              tokens, stopped, firstEos, text, hybrid>>
vars == <<loopVars, file>>

args == <<call, base>>
result == <<tokens, stopped, firstEos>>
history == <<text, hybrid>>

Captured(c) == c.entry # "state"
Limit(c) == IF c.entry = "buffer" THEN BufferLimit ELSE StepLimit
Room(c) == IF c.entry = "buffer" THEN c.capacity ELSE StepLimit
Steps(c) == Len(c.prompt) + c.gen - 1
Step == base + local

EmptyKv(c) == [l \in Layers(c) |-> [p \in Positions(c) |-> {Blank}]]
NoCounts == [executed |-> 0, prompt |-> 0, generated |-> 0]

Init ==
  /\ pc = "idle" /\ call = None
  /\ base = 0 /\ local = 0 /\ layer = 0 /\ current = None
  /\ residual = {} /\ kv = <<>> /\ counts = NoCounts
  /\ tokens = <<>> /\ stopped = FALSE /\ firstEos = None
  /\ text = <<>> /\ hybrid = FALSE
  /\ file = NoFile

-----------------------------------------------------------------------------
(***************************************************************************)
(* Entering.  A call that is not legal returns before anything is done.    *)
(***************************************************************************)
Cramped(c) ==                     \* mutant: one token too many for the array
  /\ c.prompt # <<>>
  /\ c.gen \in 1 .. Limit(c) /\ Len(c.prompt) <= Limit(c)
  /\ Steps(c) <= Limit(c) /\ Steps(c) <= c.config.ctx
  /\ c.first # 0 => c.replay
  /\ c.replay => Len(c.prompt) = 1 /\ c.gen = 1 /\ c.first < c.config.layers
  /\ c.entry = "buffer" => c.gen <= c.capacity + 1

Legal(c) ==
  /\ c.prompt # <<>>
  /\ c.gen \in 1 .. Limit(c) /\ Len(c.prompt) <= Limit(c)
  /\ Steps(c) <= Limit(c) /\ Steps(c) <= c.config.ctx
  /\ c.first # 0 => c.replay
  /\ c.replay => Len(c.prompt) = 1 /\ c.gen = 1 /\ c.first < c.config.layers
  /\ c.entry = "buffer" => c.gen <= c.capacity

Begin(c) ==
  /\ pc = "idle" /\ Legal(c)
  /\ call' = c /\ kv' = EmptyKv(c.config) /\ hybrid' = c.replay
  /\ pc' = IF c.in THEN "load" ELSE "token"
  /\ UNCHANGED <<base, local, layer, current, residual, counts, result, text, file>>

\* Whether the steps fit behind the positions of the snapshot.
FitsAlone(c, positions) ==        \* mutant: the positions do not count
  Steps(c) <= c.config.ctx /\ Steps(c) <= StepLimit
FitsBehind(c, positions) ==
  positions + Steps(c) <= c.config.ctx /\ positions + Steps(c) <= StepLimit

AnyPrompt ==                      \* mutant: a longer prompt may resume
  /\ Accepts(file, call.config)
  /\ call.prompt[1] = file.header.next
  /\ FitsBehind(call, file.header.positions)

Resumes ==
  /\ Len(call.prompt) = 1
  /\ Accepts(file, call.config)
  /\ call.prompt[1] = file.header.next
  /\ FitsBehind(call, file.header.positions)

Restored ==
  [l \in Layers(call.config) |-> [p \in Positions(call.config) |->
     IF p < file.header.positions THEN file.rows[l + 1][p] ELSE kv[l][p]]]

Load ==
  /\ pc = "load" /\ Resumes
  /\ base' = file.header.positions
  /\ kv' = Restored
  /\ text' = file.text /\ hybrid' = (hybrid \/ file.hybrid)
  /\ pc' = "token"
  /\ UNCHANGED <<call, local, layer, current, residual, counts, result, file>>

-----------------------------------------------------------------------------
(***************************************************************************)
(* One position: the input token's embedding, then the layers.             *)
(***************************************************************************)
FeedToken ==
  /\ pc = "token"
  /\ LET input == IF local < Len(call.prompt) THEN call.prompt[local + 1]
                                              ELSE current
     IN /\ current' = input
        /\ residual' = IF call.replay THEN {Foreign} ELSE {<<Step, input>>}
        /\ text' = Append(text, input)
  /\ layer' = call.first
  /\ pc' = "layer"
  /\ UNCHANGED <<args, local, kv, counts, result, hybrid, file>>

AppendAtLocal == [kv EXCEPT ![layer][local] = residual]   \* mutant
\* K and V come from the residual and go to the slot of this position.
AppendSlot == [kv EXCEPT ![layer][Step] = residual]

\* The layer's output: its input plus what attention mixes from the slots.
Attend(cache) == residual \cup UNION {cache[layer][p] : p \in 0 .. Step}

RunLayer ==
  /\ pc = "layer"
  /\ kv' = AppendSlot
  /\ residual' = Attend(kv')
  /\ layer' = layer + 1
  /\ pc' = IF layer + 1 = call.config.layers THEN "head" ELSE "layer"
  /\ UNCHANGED <<args, local, current, counts, result, history, file>>

-----------------------------------------------------------------------------
(***************************************************************************)
(* After the layers: a prompt token that is not the last one needs no      *)
(* head; otherwise a token is selected and becomes the next input.         *)
(***************************************************************************)
Sampling == local + 1 >= Len(call.prompt)

CountStep ==
  counts' = [executed |-> counts.executed + 1,
             prompt |-> counts.prompt + (IF local < Len(call.prompt) THEN 1 ELSE 0),
             generated |-> counts.generated + (IF local < Len(call.prompt) THEN 0 ELSE 1)]

Prefill ==
  /\ pc = "head" /\ ~Sampling
  /\ CountStep
  /\ current' = call.prompt[Step + 2]      \* prompt_tokens[step + 1u]
  /\ local' = local + 1
  /\ pc' = "token"
  /\ UNCHANGED <<args, layer, residual, kv, result, history, file>>

NeverEos(t) == FALSE              \* mutant
IsEos(t) == Captured(call) /\ t = call.eos

SelectToken(t) ==
  /\ pc = "head" /\ Sampling
  /\ Captured(call) => Len(tokens) < Room(call)
  /\ CountStep
  /\ tokens' = Append(tokens, t) /\ current' = t
  /\ stopped' = (stopped \/ IsEos(t))
  /\ firstEos' = IF IsEos(t) /\ call.entry = "buffer" THEN Len(tokens) ELSE firstEos
  /\ local' = local + 1
  /\ pc' = IF IsEos(t) \/ local + 1 = Steps(call) THEN "finish" ELSE "token"
  /\ UNCHANGED <<args, layer, residual, kv, history, file>>

-----------------------------------------------------------------------------
(***************************************************************************)
(* Leaving.  Every way out frees the caches.                               *)
(***************************************************************************)
Release ==
  /\ pc' = "idle" /\ call' = None
  /\ base' = 0 /\ local' = 0 /\ layer' = 0 /\ current' = None
  /\ residual' = {} /\ kv' = <<>> /\ counts' = NoCounts
  /\ tokens' = <<>> /\ stopped' = FALSE /\ firstEos' = None
  /\ text' = <<>> /\ hybrid' = FALSE

RefuseUnreadable ==               \* mutant: a wrong first token is not handled
  /\ pc = "load" /\ ~Accepts(file, call.config)
  /\ Release /\ UNCHANGED file

RefuseSnapshot ==
  /\ pc = "load" /\ ~Resumes
  /\ Release /\ UNCHANGED file

Return ==
  /\ pc = "finish" /\ ~call.out
  /\ Release /\ UNCHANGED file

OwnSteps ==                       \* mutant: the restored positions are lost
  [config |-> call.config, positions |-> counts.executed, next |-> current]
Header ==
  [config |-> call.config, positions |-> base + counts.executed, next |-> current]

SaveHeader ==
  /\ pc = "finish" /\ call.out
  /\ OpenSnapshot(Header, text, tokens[Len(tokens)], hybrid)
  /\ pc' = "save"
  /\ UNCHANGED <<args, local, layer, current, residual, kv, counts, result, history>>

SaveLayer ==
  /\ pc = "save" /\ Len(file.rows) < call.config.layers
  /\ WriteRow([p \in 0 .. file.header.positions - 1 |-> kv[Len(file.rows)][p]])
  /\ UNCHANGED loopVars

SaveDigest ==
  /\ pc = "save" /\ Len(file.rows) = call.config.layers
  /\ WriteDigest /\ Release

\* Any read, allocation, kernel or write may fail, the process may end.
RunFails ==
  /\ pc # "idle"
  /\ Release /\ UNCHANGED file

DamageFile ==
  /\ pc = "idle" /\ Damage
  /\ UNCHANGED loopVars

-----------------------------------------------------------------------------
Progress ==
  \/ Load \/ RefuseSnapshot
  \/ FeedToken \/ RunLayer \/ Prefill \/ \E t \in Tokens : SelectToken(t)
  \/ Return \/ SaveHeader \/ SaveLayer \/ SaveDigest

Next ==
  \/ \E c \in Calls : Begin(c)
  \/ Progress
  \/ RunFails
  \/ DamageFile

Spec == Init /\ [][Next]_vars
FairSpec == Spec /\ WF_vars(Progress)

-----------------------------------------------------------------------------
LoopTyped ==
  /\ pc \in {"idle", "load", "token", "layer", "head", "finish", "save"}
  /\ call \in Calls \cup {None} /\ (pc = "idle" <=> call = None)
  /\ base \in Nat /\ local \in Nat /\ layer \in Nat
  /\ current \in Tokens \cup {None}
  /\ residual \in Values
  /\ pc # "idle" => kv \in [Layers(call.config) -> [Positions(call.config) -> Values]]
  /\ counts \in [executed : Nat, prompt : Nat, generated : Nat]
  /\ tokens \in Seq(Tokens) /\ stopped \in BOOLEAN /\ firstEos \in Nat \cup {None}
  /\ text \in Seq(Tokens) /\ hybrid \in BOOLEAN

FileBody ==
  /\ file = [header |-> file.header, rows |-> file.rows, digest |-> file.digest,
             text |-> file.text, last |-> file.last, hybrid |-> file.hybrid]
  /\ file.header \in HeaderType /\ file.rows \in Seq(RowType(file.header))
  /\ file.text \in Seq(Tokens) /\ file.last \in Tokens
  /\ file.hybrid \in BOOLEAN

FileTyped == file # NoFile => FileBody

\* Every variable has a value of its kind; while a call runs, the cache has
\* the shape its configuration asks for.
TypeOK == LoopTyped /\ FileTyped

\* What the head sees was computed from exactly the tokens fed so far, each
\* at its position: no slot was missed, left over, shifted or taken from
\* another run, across any number of snapshots.  (qx_format.c:6455-6604)
ExactContext ==
  pc = "head" /\ ~hybrid => residual = FactsOf(text, Len(text))

\* No layer writes its slot beyond the cache, whatever the snapshot held and
\* the caller asked for (the checks at qx_format.c:6315 and 6357); and the
\* look-ahead of prefill, which uses the position in the text and not the step
\* in the prompt, stays inside the prompt (qx_format.c:6750).
IndicesInBounds ==
  /\ pc = "layer" => Step < call.config.ctx
  /\ pc = "head" /\ ~Sampling => Step + 1 < Len(call.prompt)

\* The array never fills up before the run is done: a run does not fail after
\* the work was done.  (qx_format.c:6802 and 6807 against the checks at entry)
ResultFits == pc = "head" /\ Sampling /\ Captured(call) => Len(tokens) < Room(call)

\* When the loop is done the result agrees with what was fed: the prompt and
\* all selected tokens but the last one, counted as such; an end-of-sequence
\* token is the last one and reported with its index.  (qx_format.c:6734-6869)
ResultAccounts ==
  pc = "finish" =>
    /\ SubSeq(text, base + 1, Len(text)) =
         call.prompt \o SubSeq(tokens, 1, Len(tokens) - 1)
    /\ counts = [executed |-> Len(text) - base, prompt |-> Len(call.prompt),
                 generated |-> Len(tokens) - 1]
    /\ \A i \in 1 .. Len(tokens) - 1 : Captured(call) => tokens[i] # call.eos
    /\ stopped <=> Captured(call) /\ tokens[Len(tokens)] = call.eos
    /\ stopped \/ Len(tokens) = call.gen
    /\ call.entry = "buffer" =>
         firstEos = IF stopped THEN Len(tokens) - 1 ELSE None

\* A snapshot that was written to its end holds the slots of exactly the text
\* the run was fed and the token to go on with, and the runs it is meant for
\* do not refuse it.  (qx_format.c:6909 against 6049-6102)
SnapshotSound ==
  file # NoFile /\ Intact(file) =>
    /\ file.header.positions = Len(file.text)
    /\ file.header.next = file.last
    /\ ~file.hybrid =>
         /\ Accepts(file, file.header.config)
         /\ \A l \in Layers(file.header.config) :
              \A p \in 0 .. Len(file.text) - 1 :
                file.rows[l + 1][p] = SlotOf(l, p, file.text)

\* Slots of earlier positions, restored ones included, never change during a
\* run.  (qx_format.c:6601)
HistoryImmutable ==
  [][ (pc \notin {"idle", "load"} /\ pc' # "idle") =>
        \A l \in Layers(call.config) : \A p \in 0 .. Step - 1 :
          kv'[l][p] = kv[l][p] ]_vars

\* A run ends, also when the snapshot is refused, a token ends the sequence
\* early or the snapshot has to be written.  (qx_format.c:6455-7008)
RunEnds == pc # "idle" ~> pc = "idle"

\* Every record of a finished snapshot has a scale that the contract allows:
\* positive for INT8, one for F16 and F32.  (wiki page of the snapshot, and
\* scripts/kv_snapshot_replay.py:169-178)
ScalesValid ==
  file # NoFile /\ Intact(file) =>
    \A i \in 1 .. Len(file.rows) : \A p \in DOMAIN file.rows[i] :
      file.rows[i][p] # {Blank}
=============================================================================
