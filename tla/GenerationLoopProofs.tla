------------------------ MODULE GenerationLoopProofs ------------------------
(***************************************************************************)
(* Proofs about the generation loop and its snapshot file, for any number  *)
(* of layers, any context, any calls and any chain of snapshots.           *)
(*                                                                         *)
(* The inductive invariant says where the run is in the text (PlaceInv),   *)
(* which token was fed where (TextInv, TokenInv), what is in the slots     *)
(* written so far (SlotInv) and in the file (FileInv, SaveInv).  From it   *)
(* follow the safety properties and that every run ends (RunShrinks).      *)
(***************************************************************************)
EXTENDS GenerationLoop, SequenceTheorems, TLAPS

Looping == pc \in {"token", "layer", "head"}
Started == Looping \/ pc \in {"finish", "save"}
Fed == IF pc \in {"layer", "head"} THEN local + 1 ELSE local

\* Nothing has happened yet.
FreshInv ==
  pc \in {"idle", "load"} =>
    /\ base = 0 /\ local = 0 /\ layer = 0 /\ current = None
    /\ residual = {} /\ counts = NoCounts
    /\ tokens = <<>> /\ stopped = FALSE /\ firstEos = None /\ text = <<>>

CallInv == pc # "idle" => Legal(call) /\ (call.replay => hybrid)

PlaceInv ==
  Started =>
    /\ base + Steps(call) <= call.config.ctx
    /\ base # 0 => Len(call.prompt) = 1
    /\ IF Looping THEN local < Steps(call)
                  ELSE local <= Steps(call) /\ local >= Len(call.prompt)
    /\ Len(text) = base + Fed
    /\ counts.executed = local
    /\ counts.prompt = IF local < Len(call.prompt) THEN local ELSE Len(call.prompt)
    /\ counts.generated = IF local < Len(call.prompt) THEN 0
                          ELSE local - Len(call.prompt)
    /\ Len(tokens) = IF local < Len(call.prompt) THEN 0
                     ELSE local - Len(call.prompt) + 1
    /\ pc = "layer" => layer < call.config.layers

TextInv ==
  Started => \A i \in 1 .. Fed :
    text[base + i] = IF i <= Len(call.prompt) THEN call.prompt[i]
                     ELSE tokens[i - Len(call.prompt)]

TokenInv ==
  Started =>
    IF pc \in {"layer", "head"} THEN current = text[Len(text)]
    ELSE local >= Len(call.prompt) => current = tokens[Len(tokens)]

EosInv ==
  Started =>
    /\ \A i \in 1 .. Len(tokens) : (Looping \/ i < Len(tokens)) => ~IsEos(tokens[i])
    /\ stopped <=> ~Looping /\ IsEos(tokens[Len(tokens)])
    /\ stopped \/ Looping \/ local = Steps(call)
    /\ firstEos = IF stopped /\ call.entry = "buffer" THEN Len(tokens) - 1 ELSE None

\* The number of slots the run is done with in a layer.
Done(l) == IF pc = "head" \/ (pc = "layer" /\ l < layer) THEN Step + 1 ELSE Step

SlotInv ==
  Started /\ ~hybrid =>
    /\ \A l \in Layers(call.config) : \A p \in 0 .. Done(l) - 1 :
         kv[l][p] = SlotOf(l, p, text)
    /\ pc = "layer" =>
         residual = IF layer = 0 THEN {<<Step, current>>} ELSE FactsOf(text, Len(text))
    /\ pc = "head" => residual = FactsOf(text, Len(text))

Sound(header, rows, t, last, hyb) ==
  /\ header.positions = Len(t) /\ Len(t) \in 1 .. header.config.ctx
  /\ header.next = last
  /\ Len(rows) = header.config.layers
  /\ ~hyb => \A l \in Layers(header.config) : \A p \in 0 .. Len(t) - 1 :
               rows[l + 1][p] = SlotOf(l, p, t)

FileInv ==
  file # NoFile /\ file.digest # NoDigest =>
    Sound(file.digest[1].header, file.digest[1].rows, file.text, file.last, file.hybrid)

SaveInv ==
  pc = "save" =>
    /\ FileBody /\ file.digest = NoDigest
    /\ file.header = Header
    /\ file.text = text /\ file.last = tokens[Len(tokens)] /\ file.hybrid = hybrid
    /\ Len(file.rows) <= call.config.layers
    /\ \A i \in 1 .. Len(file.rows) : \A p \in 0 .. file.header.positions - 1 :
         file.rows[i][p] = kv[i - 1][p]

IInv ==
  /\ TypeOK /\ FreshInv /\ CallInv
  /\ PlaceInv /\ TextInv /\ TokenInv /\ EosInv
  /\ SlotInv /\ FileInv /\ SaveInv

-----------------------------------------------------------------------------
LEMMA CallTyped ==
  ASSUME NEW c \in Calls
  PROVE  /\ c.prompt \in Seq(Tokens) /\ Len(c.prompt) \in Nat
         /\ c.gen \in Nat /\ c.first \in Nat /\ c.capacity \in Nat
         /\ c.replay \in BOOLEAN /\ c.in \in BOOLEAN /\ c.out \in BOOLEAN
         /\ c.config \in Configs /\ c # None
         /\ c.config.layers \in Nat \ {0} /\ c.config.ctx \in Nat \ {0}
BY LoopAssumption, SnapshotAssumption DEF CallType

\* A text that grows keeps the facts about its beginning.
LEMMA FactsStable ==
  ASSUME NEW t \in Seq(Tokens), NEW x \in Tokens, NEW n \in 0 .. Len(t)
  PROVE  FactsOf(Append(t, x), n) = FactsOf(t, n)
<1>1. \A i \in 1 .. n : Append(t, x)[i] = t[i]
  OBVIOUS
<1> QED
  BY <1>1 DEF FactsOf

LEMMA SlotStable ==
  ASSUME NEW t \in Seq(Tokens), NEW x \in Tokens, NEW l,
         NEW p \in 0 .. Len(t) - 1
  PROVE  SlotOf(l, p, Append(t, x)) = SlotOf(l, p, t)
<1>1. p + 1 \in 0 .. Len(t) /\ p + 1 \in 1 .. Len(t)
  OBVIOUS
<1>2. Append(t, x)[p + 1] = t[p + 1]
  BY <1>1
<1> QED
  BY <1>1, <1>2, FactsStable DEF SlotOf

LEMMA FactsTyped ==
  ASSUME NEW t \in Seq(Tokens), NEW n \in 0 .. Len(t)
  PROVE  FactsOf(t, n) \in Values
BY DEF FactsOf, Values

\* A slot of a text is never the one no layer has written.
LEMMA SlotWritten ==
  ASSUME NEW t \in Seq(Tokens), NEW l, NEW p \in 0 .. Len(t) - 1
  PROVE  SlotOf(l, p, t) # {Blank}
<1>1. t[p + 1] \in Tokens /\ <<p, t[p + 1]>> \in Nat \X Tokens
  OBVIOUS
<1>2. <<p, t[p + 1]>> # Blank
  BY <1>1, SnapshotAssumption
<1>3. <<p, t[p + 1]>> \in SlotOf(l, p, t)
  <2>1. CASE l = 0
    BY <2>1 DEF SlotOf
  <2>2. CASE l # 0
    <3>1. p + 1 \in 1 .. p + 1 /\ (p + 1) - 1 = p
      OBVIOUS
    <3> QED
      BY <2>2, <3>1 DEF SlotOf, FactsOf
  <2> QED
    BY <2>1, <2>2
<1> QED
  BY <1>2, <1>3

-----------------------------------------------------------------------------
(***************************************************************************)
(* The steps outside the loop.                                             *)
(***************************************************************************)
THEOREM InitInv == Init => IInv
<1> SUFFICES ASSUME Init PROVE IInv
  OBVIOUS
<1>1. TypeOK
  <2>1. NoCounts \in [executed : Nat, prompt : Nat, generated : Nat]
    BY DEF NoCounts
  <2>2. <<>> \in Seq(Tokens) /\ {} \in Values
    BY DEF Values
  <2> QED
    BY <2>1, <2>2 DEF Init, TypeOK, LoopTyped, FileTyped
<1>2. FreshInv /\ CallInv /\ PlaceInv /\ TextInv /\ TokenInv /\ EosInv
  BY DEF Init, FreshInv, CallInv, PlaceInv, TextInv, TokenInv, EosInv, Started, Looping
<1>3. SlotInv /\ FileInv /\ SaveInv
  BY DEF Init, SlotInv, FileInv, SaveInv, Started, Looping
<1> QED
  BY <1>1, <1>2, <1>3 DEF IInv

\* Every way out leaves the state of a process that has not called yet.
LEMMA ReleaseInv ==
  ASSUME Release, FileTyped', FileInv'
  PROVE  IInv'
<1>1. LoopTyped'
  <2>1. NoCounts \in [executed : Nat, prompt : Nat, generated : Nat]
    BY DEF NoCounts
  <2>2. <<>> \in Seq(Tokens) /\ {} \in Values
    BY DEF Values
  <2> QED
    BY <2>1, <2>2 DEF Release, LoopTyped
<1>2. (FreshInv /\ CallInv /\ PlaceInv /\ TextInv /\ TokenInv /\ EosInv)'
  BY DEF Release, FreshInv, CallInv, PlaceInv, TextInv, TokenInv, EosInv, Started, Looping
<1>3. (SlotInv /\ SaveInv)'
  BY DEF Release, SlotInv, SaveInv, Started, Looping
<1> QED
  BY <1>1, <1>2, <1>3 DEF IInv, TypeOK

LEMMA FileUnchanged ==
  ASSUME FileTyped, FileInv, UNCHANGED file
  PROVE  FileTyped' /\ FileInv'
BY DEF FileTyped, FileBody, FileInv

LEMMA LeaveKeeps ==
  ASSUME IInv, RefuseSnapshot \/ Return \/ RunFails
  PROVE  IInv'
BY ReleaseInv, FileUnchanged DEF IInv, TypeOK, RefuseSnapshot, Return, RunFails

LEMMA StutterKeeps ==
  ASSUME IInv, UNCHANGED vars
  PROVE  IInv'
<1>1. TypeOK'
  BY DEF IInv, TypeOK, LoopTyped, FileTyped, FileBody, vars, loopVars
<1>2. (FreshInv /\ CallInv)'
  BY DEF IInv, FreshInv, CallInv, vars, loopVars
<1>3. (PlaceInv /\ TextInv /\ TokenInv /\ EosInv)'
  BY DEF IInv, PlaceInv, TextInv, TokenInv, EosInv, Started, Looping, Fed, IsEos, vars, loopVars
<1>4. SlotInv'
  BY DEF IInv, SlotInv, Started, Looping, Done, Step, vars, loopVars
<1>5. FileInv' /\ SaveInv'
  BY DEF IInv, FileInv, SaveInv, FileBody, Header, vars, loopVars
<1> QED
  BY <1>1, <1>2, <1>3, <1>4, <1>5 DEF IInv

LEMMA BeginKeeps ==
  ASSUME IInv, NEW c \in Calls, Begin(c)
  PROVE  IInv'
<1> USE DEF IInv
<1>1. c.config \in Configs /\ c # None /\ c.replay \in BOOLEAN
      /\ c.config.ctx \in Nat /\ c.prompt \in Seq(Tokens) /\ c.gen \in Nat
  BY CallTyped
<1>2. TypeOK'
  <2>1. EmptyKv(c.config) \in [Layers(c.config) -> [Positions(c.config) -> Values]]
    BY DEF EmptyKv, Values
  <2>2. LoopTyped'
    BY <1>1, <2>1 DEF TypeOK, LoopTyped, Begin, result
  <2> QED
    BY <2>2, FileUnchanged DEF TypeOK, Begin
<1>3. FreshInv' /\ CallInv'
  BY DEF FreshInv, CallInv, Begin, result, Legal, Limit, Steps
<1>4. PlaceInv'
  <2>1. c.prompt # <<>> => Len(c.prompt) > 0
    BY <1>1
  <2>2. Begin(c) => Steps(c) <= c.config.ctx /\ Steps(c) >= Len(c.prompt) /\ Len(c.prompt) > 0
    BY <1>1, <2>1 DEF Begin, Legal, Steps
  <2>3. Len(<<>>) = 0
    OBVIOUS
  <2> QED
    BY <1>1, <2>2, <2>3 DEF FreshInv, PlaceInv, Begin, result, Started, Looping, Fed, NoCounts, Steps
<1>5. TextInv' /\ TokenInv' /\ EosInv'
  <2>1. c.prompt # <<>> => Len(c.prompt) > 0
    BY <1>1
  <2>2. Len(<<>>) = 0
    OBVIOUS
  <2>3. TextInv' /\ TokenInv'
    BY <1>1, <2>1, <2>2 DEF FreshInv, TextInv, TokenInv, Begin, Legal, Started, Looping, Fed
  <2>4. EosInv'
    BY <1>1, <2>2 DEF FreshInv, EosInv, Begin, result, Started, Looping
  <2> QED
    BY <2>3, <2>4
<1>6. SlotInv'
  BY DEF FreshInv, SlotInv, Begin, Started, Looping, Done, Step
<1>7. FileInv' /\ SaveInv'
  BY FileUnchanged DEF TypeOK, SaveInv, Begin
<1> QED
  BY <1>2, <1>3, <1>4, <1>5, <1>6, <1>7

\* What a run accepts is what was written: the digest matches.
LEMMA AcceptedSound ==
  ASSUME TypeOK, FileInv, NEW c, Accepts(file, c)
  PROVE  /\ file # NoFile /\ file.header.config = c
         /\ Sound(file.header, file.rows, file.text, file.last, file.hybrid)
         /\ file.text \in Seq(Tokens) /\ file.hybrid \in BOOLEAN
         /\ file.rows \in Seq(RowType(file.header))
<1>1. file # NoFile /\ file.digest = Digest(file) /\ file.header.config = c
  BY DEF Accepts, Intact
<1>2. file.digest # NoDigest /\ file.digest[1].header = file.header
      /\ file.digest[1].rows = file.rows
  BY <1>1 DEF Digest, NoDigest
<1> QED
  BY <1>1, <1>2 DEF FileInv, TypeOK, FileTyped, FileBody

LEMMA LoadKeeps ==
  ASSUME IInv, Load
  PROVE  IInv'
<1> USE DEF IInv
<1>1. pc = "load" /\ call \in Calls /\ call # None
  BY DEF Load, TypeOK, LoopTyped
<1>2. /\ call.config \in Configs /\ call.config.ctx \in Nat /\ call.config.layers \in Nat
      /\ call.prompt \in Seq(Tokens) /\ call.gen \in Nat
  BY <1>1, CallTyped
<1>3. /\ Len(call.prompt) = 1 /\ Accepts(file, call.config)
      /\ FitsBehind(call, file.header.positions)
  BY DEF Load, Resumes
<1>4. /\ file # NoFile /\ file.header.config = call.config
      /\ Sound(file.header, file.rows, file.text, file.last, file.hybrid)
      /\ file.text \in Seq(Tokens) /\ file.hybrid \in BOOLEAN
      /\ file.rows \in Seq(RowType(file.header))
  BY <1>3, AcceptedSound
<1>5. /\ file.header.positions = Len(file.text)
      /\ Len(file.text) \in 1 .. call.config.ctx
      /\ Len(file.rows) = call.config.layers
  BY <1>3, <1>4 DEF Sound, Accepts
<1>6. TypeOK'
  <2>1. Restored \in [Layers(call.config) -> [Positions(call.config) -> Values]]
    <3> SUFFICES ASSUME NEW l \in Layers(call.config), NEW p \in Positions(call.config)
                 PROVE  Restored[l][p] \in Values
      BY DEF Restored
    <3>1. l + 1 \in 1 .. Len(file.rows)
      BY <1>2, <1>5 DEF Layers
    <3>2. file.rows[l + 1] \in [0 .. file.header.positions - 1 -> Values]
      BY <1>4, <3>1 DEF RowType
    <3>3. p < file.header.positions => p \in 0 .. file.header.positions - 1
      BY <1>2, <1>5 DEF Positions
    <3>4. kv[l][p] \in Values
      BY <1>1 DEF TypeOK, LoopTyped
    <3> QED
      BY <3>2, <3>3, <3>4 DEF Restored
  <2>2. LoopTyped'
    BY <1>1, <1>4, <1>5, <2>1 DEF TypeOK, LoopTyped, Load, result
  <2> QED
    BY <2>2, FileUnchanged DEF TypeOK, Load
<1>7. FreshInv' /\ CallInv'
  BY <1>1 DEF FreshInv, CallInv, Load, Legal, Limit, Steps
<1>8. /\ pc' = "token" /\ call' = call /\ local' = 0 /\ base' = Len(file.text)
      /\ text' = file.text /\ tokens' = <<>> /\ counts' = NoCounts
      /\ stopped' = FALSE /\ firstEos' = None
      /\ Started' /\ Looping' /\ Fed' = 0
  BY <1>1, <1>5 DEF FreshInv, Load, result, Started, Looping, Fed
<1>9. PlaceInv'
  <2>1. Steps(call) >= 1 /\ Steps(call) \in Nat /\ Len(file.text) + Steps(call) <= call.config.ctx
    BY <1>1, <1>2, <1>3, <1>5 DEF CallInv, Legal, Steps, FitsBehind
  <2>2. Len(<<>>) = 0
    OBVIOUS
  <2>3. Steps(call)' = Steps(call)
    BY <1>8 DEF Steps
  <2>4. NoCounts.executed = 0 /\ NoCounts.prompt = 0 /\ NoCounts.generated = 0
    BY DEF NoCounts
  <2>5. Len(text') = base' + Fed'
    BY <1>5, <1>8
  <2>6. local' < Steps(call)' /\ (base # 0 => Len(call.prompt) = 1)' /\ base' + Steps(call)' <= call'.config.ctx
    BY <1>2, <1>3, <1>5, <1>8, <2>1, <2>3
  <2>7. local' < Len(call'.prompt)
    <3>1. Len(call.prompt) = 1
      BY <1>3
    <3>2. call' = call /\ local' = 0
      BY <1>8
    <3>3. Len(call'.prompt) = 1
      BY <3>1, <3>2
    <3> QED
      BY <3>2, <3>3
  <2>9. Len(tokens') = 0
    BY <1>8, <2>2
  <2>8. counts'.executed = local' /\ counts'.prompt = local' /\ counts'.generated = 0
    BY <1>8, <2>4
  <2> QED
    BY <1>8, <2>5, <2>6, <2>7, <2>8, <2>9 DEF PlaceInv
<1>10. TextInv' /\ TokenInv' /\ EosInv'
  <2>1. TextInv' /\ TokenInv'
    <3>1. pc' = "token" /\ local' = 0 /\ Fed' = 0
      BY <1>8
    <3>2. Len(call'.prompt) = 1
      BY <1>3, <1>8
    <3>3. TextInv'
      BY <3>1 DEF TextInv
    <3>4. TokenInv'
      BY <3>1, <3>2 DEF TokenInv
    <3> QED
      BY <3>3, <3>4
  <2>2. EosInv'
    BY <1>8 DEF EosInv
  <2> QED
    BY <2>1, <2>2
<1>11. SlotInv'
  <2> SUFFICES ASSUME ~hybrid', NEW l \in Layers(call.config), NEW p \in 0 .. Len(file.text) - 1
               PROVE  kv'[l][p] = SlotOf(l, p, file.text)
    BY <1>5, <1>8 DEF SlotInv, Started, Looping, Done, Step
  <2>1. p \in Positions(call.config) /\ p < file.header.positions
    BY <1>2, <1>5 DEF Positions
  <2>2. kv'[l][p] = file.rows[l + 1][p]
    BY <2>1 DEF Load, Restored
  <2>3. ~file.hybrid
    BY DEF Load
  <2> QED
    BY <1>4, <2>2, <2>3 DEF Sound
<1>12. FileInv' /\ SaveInv'
  BY FileUnchanged DEF TypeOK, SaveInv, Load
<1> QED
  BY <1>6, <1>7, <1>9, <1>10, <1>11, <1>12

LEMMA DamageFileKeeps ==
  ASSUME IInv, DamageFile
  PROVE  IInv'
<1> USE DEF IInv
<1>1. pc = "idle" /\ UNCHANGED loopVars
  BY DEF DamageFile
<1>2. LoopTyped'
  BY <1>1 DEF TypeOK, LoopTyped, loopVars
<1>3. (FreshInv /\ CallInv /\ PlaceInv /\ TextInv /\ TokenInv /\ EosInv)'
  BY <1>1 DEF FreshInv, CallInv, PlaceInv, TextInv, TokenInv, EosInv, Started, Looping, loopVars
<1>4. (SlotInv /\ SaveInv)'
  BY <1>1 DEF SlotInv, SaveInv, Started, Looping, loopVars
<1>5. FileTyped' /\ FileInv'
  <2>1. FileBody /\ file # NoFile
    BY DEF TypeOK, FileTyped, DamageFile, Damage, Intact
  <2>2. CASE \E i \in 1 .. Len(file.rows) : \E p \in DOMAIN file.rows[i] :
               file' = [file EXCEPT !.rows[i][p] = {Foreign}]
    <3>7. PICK i \in 1 .. Len(file.rows) : \E p \in DOMAIN file.rows[i] :
            file' = [file EXCEPT !.rows[i][p] = {Foreign}]
      BY <2>2
    <3>1. PICK p \in DOMAIN file.rows[i] :
            file' = [file EXCEPT !.rows[i][p] = {Foreign}]
      BY <3>7
    <3>2. {Foreign} \in Values
      BY DEF Values
    <3>3. file.rows[i] \in RowType(file.header)
      BY <2>1 DEF FileBody
    <3>4. [file.rows[i] EXCEPT ![p] = {Foreign}] \in RowType(file.header)
      BY <3>2, <3>3 DEF RowType
    <3>5. [file.rows EXCEPT ![i] = [file.rows[i] EXCEPT ![p] = {Foreign}]]
            \in Seq(RowType(file.header))
      BY <2>1, <3>4 DEF FileBody
    <3>6. file' = [header |-> file.header,
                   rows |-> [file.rows EXCEPT ![i] = [file.rows[i] EXCEPT ![p] = {Foreign}]],
                   digest |-> file.digest, text |-> file.text,
                   last |-> file.last, hybrid |-> file.hybrid]
      BY <2>1, <3>1 DEF FileBody
    <3> QED
      BY <2>1, <3>5, <3>6 DEF FileTyped, FileBody, FileInv
  <2>3. CASE \E t \in Tokens \ {file.header.next} : file' = [file EXCEPT !.header.next = t]
    <3>1. PICK t \in Tokens : file' = [file EXCEPT !.header.next = t]
      BY <2>3
    <3>2. file' = [header |-> [file.header EXCEPT !.next = t], rows |-> file.rows,
                   digest |-> file.digest, text |-> file.text,
                   last |-> file.last, hybrid |-> file.hybrid]
      BY <2>1, <3>1 DEF FileBody
    <3>3. file'.header \in HeaderType /\ file'.header.positions = file.header.positions
      BY <2>1, <3>2 DEF FileBody, HeaderType
    <3>4. RowType(file'.header) = RowType(file.header)
      BY <3>3 DEF RowType
    <3> QED
      BY <2>1, <3>2, <3>3, <3>4 DEF FileTyped, FileBody, FileInv
  <2>4. CASE file' = [file EXCEPT !.digest = NoDigest]
    <3>1. file' = [header |-> file.header, rows |-> file.rows, digest |-> NoDigest,
                   text |-> file.text, last |-> file.last, hybrid |-> file.hybrid]
      BY <2>1, <2>4 DEF FileBody
    <3> QED
      BY <2>1, <3>1 DEF FileTyped, FileBody, FileInv
  <2> QED
    BY <2>2, <2>3, <2>4 DEF DamageFile, Damage
<1> QED
  BY <1>2, <1>3, <1>4, <1>5 DEF TypeOK

-----------------------------------------------------------------------------
(***************************************************************************)
(* The loop.                                                               *)
(***************************************************************************)
\* What the numbers of a run are bounded by.
LEMMA RunFacts ==
  ASSUME IInv, Started
  PROVE  /\ pc # "idle" /\ call \in Calls /\ call # None /\ call.config \in Configs
         /\ call.config.ctx \in Nat \ {0} /\ call.config.layers \in Nat \ {0}
         /\ call.prompt \in Seq(Tokens) /\ Len(call.prompt) \in Nat \ {0}
         /\ call.gen \in Nat \ {0} /\ call.first \in Nat
         /\ call.replay \in BOOLEAN /\ (call.replay => hybrid)
         /\ Steps(call) = Len(call.prompt) + call.gen - 1 /\ Steps(call) \in Nat
         /\ base \in Nat /\ local \in Nat /\ layer \in Nat /\ Step \in Nat
         /\ text \in Seq(Tokens) /\ Len(text) = base + Fed
         /\ tokens \in Seq(Tokens) /\ residual \in Values
         /\ kv \in [Layers(call.config) -> [Positions(call.config) -> Values]]
<1> USE DEF IInv
<1>1. pc # "idle" /\ call \in Calls /\ call # None
  BY DEF Started, Looping, TypeOK, LoopTyped
<1>2. Legal(call) /\ (call.replay => hybrid)
  BY <1>1 DEF CallInv
<1>3. call.prompt \in Seq(Tokens) /\ call.prompt # <<>> /\ call.gen \in 1 .. Limit(call)
  BY <1>1, <1>2, CallTyped DEF Legal
<1>4. Limit(call) \in Nat
  BY LoopAssumption DEF Limit
<1>5. call.gen \in Nat \ {0} /\ Len(call.prompt) \in Nat \ {0}
  BY <1>3, <1>4
<1>6. base \in Nat /\ local \in Nat /\ layer \in Nat /\ Step \in Nat
  BY DEF TypeOK, LoopTyped, Step
<1>7. Len(text) = base + Fed
  BY DEF PlaceInv
<1>8. text \in Seq(Tokens) /\ tokens \in Seq(Tokens) /\ residual \in Values
      /\ kv \in [Layers(call.config) -> [Positions(call.config) -> Values]]
  BY <1>1 DEF TypeOK, LoopTyped
<1>9. Steps(call) = Len(call.prompt) + call.gen - 1 /\ Steps(call) \in Nat
  BY <1>5 DEF Steps
<1> QED
  BY <1>1, <1>2, <1>3, <1>5, <1>6, <1>7, <1>8, <1>9, CallTyped

LEMMA FeedTokenKeeps ==
  ASSUME IInv, FeedToken
  PROVE  IInv'
<1> USE DEF IInv
<1> DEFINE input == IF local < Len(call.prompt) THEN call.prompt[local + 1] ELSE current
<1>1. /\ pc = "token" /\ pc' = "layer" /\ Started /\ Looping /\ Started' /\ Looping'
      /\ Fed = local /\ Fed' = local + 1 /\ Step' = Step
      /\ UNCHANGED <<call, base, local, kv, counts, tokens, stopped, firstEos, hybrid, file>>
      /\ current' = input /\ text' = Append(text, input) /\ layer' = call.first
      /\ residual' = IF call.replay THEN {Foreign} ELSE {<<Step, input>>}
  BY DEF FeedToken, Started, Looping, Fed, Step, args, result
<1>2. /\ call \in Calls /\ call # None /\ call.config \in Configs
      /\ call.config.layers \in Nat \ {0}
      /\ call.prompt \in Seq(Tokens) /\ Len(call.prompt) \in Nat \ {0}
      /\ call.first \in Nat /\ call.replay \in BOOLEAN /\ (call.replay => hybrid)
      /\ base \in Nat /\ local \in Nat /\ Step \in Nat
      /\ text \in Seq(Tokens) /\ Len(text) = base + local
      /\ tokens \in Seq(Tokens)
      /\ kv \in [Layers(call.config) -> [Positions(call.config) -> Values]]
  BY <1>1, RunFacts
<1>3. local >= Len(call.prompt) =>
        /\ current = tokens[Len(tokens)]
        /\ Len(tokens) = local - Len(call.prompt) + 1
  BY <1>1, <1>2 DEF PlaceInv, TokenInv
<1>4. input \in Tokens
  <2>1. CASE local < Len(call.prompt)
    <3>1. local + 1 \in 1 .. Len(call.prompt)
      BY <1>2, <2>1
    <3> QED
      BY <1>2, <2>1, <3>1
  <2>2. CASE ~(local < Len(call.prompt))
    <3>1. Len(tokens) \in 1 .. Len(tokens) /\ current = tokens[Len(tokens)]
      BY <1>2, <1>3, <2>2
    <3> QED
      BY <1>2, <2>2, <3>1
  <2> QED
    BY <2>1, <2>2
<1>5. TypeOK'
  <2>1. residual' \in Values
    BY <1>1, <1>2, <1>4 DEF Values
  <2>2. text' \in Seq(Tokens)
    BY <1>1, <1>2, <1>4
  <2>3. LoopTyped'
    BY <1>1, <1>2, <1>4, <2>1, <2>2 DEF TypeOK, LoopTyped
  <2> QED
    BY <1>1, <2>3, FileUnchanged DEF TypeOK
<1>6. FreshInv' /\ CallInv'
  BY <1>1 DEF FreshInv, CallInv, Legal, Limit, Steps
<1>7. call.first < call.config.layers /\ (~hybrid => call.first = 0)
  BY <1>1, <1>2 DEF CallInv, Legal
<1>8. Len(text') = base + local + 1
  <2>1. Len(text') = Len(text) + 1
    BY <1>1, <1>2, <1>4, AppendProperties
  <2> QED
    BY <1>1, <1>2, <2>1
<1>9. PlaceInv'
  <2>1. Steps(call)' = Steps(call)
    BY <1>1 DEF Steps
  <2>2. Len(text') = base' + Fed'
    BY <1>1, <1>2, <1>8
  <2> QED
    BY <1>1, <1>7, <2>1, <2>2 DEF PlaceInv
<1>10. \A i \in 1 .. Len(text) : text'[i] = text[i]
  BY <1>1, <1>2, <1>4
<1>11. text'[base + local + 1] = input
  BY <1>1, <1>2, <1>4
<1>12. TextInv'
  <2> SUFFICES ASSUME NEW i \in 1 .. local + 1
               PROVE  text'[base + i] = IF i <= Len(call.prompt) THEN call.prompt[i]
                                        ELSE tokens[i - Len(call.prompt)]
    BY <1>1 DEF TextInv
  <2>1. CASE i \in 1 .. local
    <3>1. base + i \in 1 .. Len(text)
      BY <1>2, <2>1
    <3> QED
      BY <1>1, <1>10, <2>1, <3>1 DEF TextInv
  <2>2. CASE i = local + 1
    <3>1. base + i = base + local + 1
      BY <1>2, <2>2
    <3>2. CASE local < Len(call.prompt)
      <4>1. i <= Len(call.prompt)
        BY <1>2, <2>2, <3>2
      <4>2. input = call.prompt[i]
        BY <2>2, <3>2
      <4> QED
        BY <1>11, <3>1, <4>1, <4>2
    <3>3. CASE ~(local < Len(call.prompt))
      <4>1. i - Len(call.prompt) = Len(tokens) /\ ~(i <= Len(call.prompt))
        BY <1>2, <1>3, <2>2, <3>3
      <4>2. input = tokens[Len(tokens)]
        BY <1>2, <1>3, <3>3
      <4> QED
        BY <1>11, <3>1, <4>1, <4>2
    <3> QED
      BY <3>2, <3>3
  <2> QED
    BY <1>2, <2>1, <2>2
<1>13. TokenInv'
  BY <1>1, <1>8, <1>11 DEF TokenInv
<1>14. EosInv'
  BY <1>1 DEF EosInv, IsEos, Captured, Steps
<1>15. SlotInv'
  <2>1. CASE hybrid
    BY <1>1, <2>1 DEF SlotInv
  <2>2. CASE ~hybrid
    <3>4. layer' = 0
      BY <1>1, <1>7, <2>2
    <3>5. \A l \in Layers(call.config) : ~(l < 0)
      BY <1>2 DEF Layers
    <3>1. \A l \in Layers(call.config) : Done(l)' = Step /\ Done(l) = Step
      BY <1>1, <3>4, <3>5 DEF Done
    <3>2. \A l \in Layers(call.config) : \A p \in 0 .. Step - 1 :
            kv'[l][p] = SlotOf(l, p, text')
      <4> SUFFICES ASSUME NEW l \in Layers(call.config), NEW p \in 0 .. Step - 1
                   PROVE  kv[l][p] = SlotOf(l, p, text')
        BY <1>1
      <4>1. kv[l][p] = SlotOf(l, p, text)
        BY <1>1, <2>2, <3>1 DEF SlotInv
      <4>2. p \in 0 .. Len(text) - 1
        BY <1>2 DEF Step
      <4> QED
        BY <1>1, <1>2, <1>4, <4>1, <4>2, SlotStable
    <3>3. layer' = 0 /\ residual' = {<<Step', current'>>}
      BY <1>1, <1>2, <1>7, <2>2
    <3> QED
      BY <1>1, <3>1, <3>2, <3>3 DEF SlotInv
  <2> QED
    BY <2>1, <2>2
<1>16. FileInv' /\ SaveInv'
  BY <1>1, FileUnchanged DEF TypeOK, SaveInv
<1> QED
  BY <1>5, <1>6, <1>9, <1>12, <1>13, <1>14, <1>15, <1>16

Mixed(row, n) == UNION {row[p] : p \in 0 .. n - 1}

\* Attention over all slots of a text finds the facts of the text.
LEMMA AttendsAll ==
  ASSUME NEW t \in Seq(Tokens), NEW l, NEW row,
         \A p \in 0 .. Len(t) - 1 : row[p] = SlotOf(l, p, t)
  PROVE  Mixed(row, Len(t)) = FactsOf(t, Len(t))
<1>1. ASSUME NEW p \in 0 .. Len(t) - 1
      PROVE  row[p] \subseteq FactsOf(t, Len(t)) /\ <<p, t[p + 1]>> \in row[p]
  <2>1. p + 1 \in 1 .. Len(t) /\ (p + 1) - 1 = p
    OBVIOUS
  <2>2. <<p, t[p + 1]>> \in FactsOf(t, Len(t)) /\ <<p, t[p + 1]>> \in FactsOf(t, p + 1)
    <3>1. p + 1 \in 1 .. p + 1
      OBVIOUS
    <3> QED
      BY <2>1, <3>1 DEF FactsOf
  <2>3. FactsOf(t, p + 1) \subseteq FactsOf(t, Len(t))
    BY DEF FactsOf
  <2>4. row[p] = SlotOf(l, p, t)
    OBVIOUS
  <2> QED
    BY <2>2, <2>3, <2>4 DEF SlotOf
<1>2. ASSUME NEW x \in FactsOf(t, Len(t))
      PROVE  \E p \in 0 .. Len(t) - 1 : x \in row[p]
  <2>1. PICK i \in 1 .. Len(t) : x = <<i - 1, t[i]>>
    BY <1>2 DEF FactsOf
  <2>2. i - 1 \in 0 .. Len(t) - 1 /\ (i - 1) + 1 = i
    OBVIOUS
  <2> QED
    BY <1>1, <2>1, <2>2
<1> QED
  BY <1>1, <1>2 DEF Mixed

LEMMA RunLayerKeeps ==
  ASSUME IInv, RunLayer
  PROVE  IInv'
<1> USE DEF IInv
<1>1. /\ pc = "layer" /\ pc' \in {"layer", "head"}
      /\ Started /\ Looping /\ Started' /\ Looping' /\ Fed = local + 1
      /\ Fed' = local + 1 /\ Step' = Step
      /\ UNCHANGED <<call, base, local, current, counts, tokens, stopped, firstEos,
                     text, hybrid, file>>
      /\ kv' = AppendSlot /\ layer' = layer + 1
      /\ residual' = residual \cup UNION {kv'[layer][p] : p \in 0 .. Step}
      /\ (pc' = "head") = (layer + 1 = call.config.layers)
  BY DEF RunLayer, Started, Looping, Fed, Step, args, result, history, Attend
<1>2. /\ call \in Calls /\ call # None /\ call.config \in Configs
      /\ call.config.layers \in Nat \ {0} /\ call.config.ctx \in Nat \ {0}
      /\ base \in Nat /\ local \in Nat /\ layer \in Nat /\ Step \in Nat
      /\ text \in Seq(Tokens) /\ Len(text) = base + Fed
      /\ tokens \in Seq(Tokens) /\ residual \in Values
      /\ kv \in [Layers(call.config) -> [Positions(call.config) -> Values]]
      /\ Steps(call) \in Nat
  BY <1>1, RunFacts
<1>3. Step < call.config.ctx /\ layer < call.config.layers /\ Len(text) = Step + 1
  <2>1. base + Steps(call) <= call.config.ctx /\ local < Steps(call)
        /\ layer < call.config.layers /\ Fed = local + 1
    BY <1>1 DEF PlaceInv
  <2>2. base \in Nat /\ local \in Nat /\ Steps(call) \in Nat /\ call.config.ctx \in Nat
    BY <1>2
  <2>3. base + local < call.config.ctx /\ base + (local + 1) = (base + local) + 1
    BY <2>1, <2>2
  <2> QED
    BY <1>2, <2>1, <2>3 DEF Step
<1>4. layer \in Layers(call.config) /\ Step \in Positions(call.config)
  BY <1>2, <1>3 DEF Layers, Positions
<1>5. /\ kv' \in [Layers(call.config) -> [Positions(call.config) -> Values]]
      /\ kv'[layer][Step] = residual
      /\ \A l \in Layers(call.config) : \A p \in Positions(call.config) :
           l # layer \/ p # Step => kv'[l][p] = kv[l][p]
  BY <1>1, <1>2, <1>4 DEF AppendSlot
<1>6. TypeOK'
  <2>1. \A p \in 0 .. Step : kv'[layer][p] \in Values
    <3> SUFFICES ASSUME NEW p \in 0 .. Step PROVE kv'[layer][p] \in Values
      OBVIOUS
    <3>1. Step \in Nat /\ call.config.ctx \in Nat /\ Step < call.config.ctx
      BY <1>2, <1>3
    <3>2. p \in Positions(call.config)
      BY <3>1 DEF Positions
    <3> QED
      BY <1>4, <1>5, <3>2
  <2>2. residual' \in Values
    BY <1>1, <1>2, <2>1 DEF Values
  <2>3. LoopTyped'
    BY SMTT(20), <1>1, <1>2, <1>5, <2>2 DEF TypeOK, LoopTyped
  <2> QED
    BY <1>1, <2>3, FileUnchanged DEF TypeOK
<1>7. FreshInv' /\ CallInv'
  BY <1>1 DEF FreshInv, CallInv, Legal, Limit, Steps
<1>8. PlaceInv'
  <2>1. Steps(call)' = Steps(call)
    BY <1>1 DEF Steps
  <2>3. layer \in Nat /\ call.config.layers \in Nat /\ layer < call.config.layers
    BY <1>2, <1>3
  <2>4. layer + 1 # call.config.layers => layer + 1 < call.config.layers
    BY <2>3
  <2>2. pc' = "layer" => layer' < call'.config.layers
    BY <1>1, <2>4
  <2> QED
    BY <1>1, <1>2, <2>1, <2>2 DEF PlaceInv
<1>9. TextInv' /\ TokenInv' /\ EosInv'
  BY <1>1 DEF TextInv, TokenInv, EosInv, IsEos, Captured, Steps
<1>10. SlotInv'
  <2> SUFFICES ASSUME ~hybrid PROVE SlotInv'
    BY <1>1 DEF SlotInv
  <2>1. residual = SlotOf(layer, Step, text) /\ residual \subseteq FactsOf(text, Len(text))
    <3>1. CASE layer = 0
      <4>1. residual = {<<Step, text[Step + 1]>>}
        BY <1>1, <1>2, <1>3, <3>1 DEF SlotInv, TokenInv
      <4>4. Step \in Nat /\ Len(text) = Step + 1
        BY <1>2, <1>3
      <4>2. Step + 1 \in 1 .. Len(text) /\ (Step + 1) - 1 = Step
        BY <4>4
      <4>3. <<Step, text[Step + 1]>> \in FactsOf(text, Len(text))
        BY <4>2 DEF FactsOf
      <4> QED
        BY <3>1, <4>1, <4>3 DEF SlotOf
    <3>2. CASE layer # 0
      BY <1>1, <1>3, <3>2 DEF SlotInv, SlotOf
    <3> QED
      BY <3>1, <3>2
  <2>2. \A l \in Layers(call.config) : \A p \in 0 .. Done(l) - 1 :
          kv[l][p] = SlotOf(l, p, text)
    BY <1>1 DEF SlotInv
  <2>3. \A l \in Layers(call.config) :
          Done(l) = (IF l < layer THEN Step + 1 ELSE Step)
          /\ Done(l)' = (IF l <= layer THEN Step + 1 ELSE Step)
    <3> SUFFICES ASSUME NEW l \in Layers(call.config)
                 PROVE  /\ Done(l) = (IF l < layer THEN Step + 1 ELSE Step)
                        /\ Done(l)' = (IF l <= layer THEN Step + 1 ELSE Step)
      OBVIOUS
    <3>3. layer \in Nat /\ call.config.layers \in Nat
      BY <1>2
    <3>4. l \in Nat /\ l < call.config.layers /\ (l < layer + 1 <=> l <= layer)
      BY <3>3 DEF Layers
    <3>1. l \in Nat /\ l < call.config.layers /\ (l < layer' <=> l <= layer)
      BY <1>1, <3>4
    <3>2. pc' = "head" => l <= layer
      BY <1>1, <1>2, <3>1
    <3> QED
      BY <1>1, <3>1, <3>2 DEF Done
  <2>4. \A l \in Layers(call.config) : \A p \in 0 .. Done(l)' - 1 :
          kv'[l][p] = SlotOf(l, p, text)
    <3> SUFFICES ASSUME NEW l \in Layers(call.config), NEW p \in 0 .. Done(l)' - 1
                 PROVE  kv'[l][p] = SlotOf(l, p, text)
      OBVIOUS
    <3>4. l \in Nat
      BY DEF Layers
    <3>5. Done(l)' = (IF l <= layer THEN Step + 1 ELSE Step)
      BY <2>3
    <3>6. p \in 0 .. Step
      BY <1>2, <3>5
    <3>1. p \in 0 .. Step /\ p \in Positions(call.config) /\ l \in Nat
      BY <1>2, <1>3, <3>4, <3>6 DEF Positions
    <3>2. CASE l = layer /\ p = Step
      BY <1>5, <2>1, <3>2
    <3>3. CASE ~(l = layer /\ p = Step)
      <4>1. p \in 0 .. Done(l) - 1
        BY <1>2, <2>3, <3>1, <3>3
      <4> QED
        BY <1>5, <2>2, <3>1, <3>3, <4>1
    <3> QED
      BY <3>2, <3>3
  <2>5. residual' = FactsOf(text, Len(text))
    <3>1. Len(text) - 1 = Step
      BY <1>2, <1>3
    <3>2. \A p \in 0 .. Len(text) - 1 : kv'[layer][p] = SlotOf(layer, p, text)
      <4> DEFINE Right(l) == \A p \in 0 .. Step : kv'[l][p] = SlotOf(l, p, text)
      <4>1. \A l \in Layers(call.config) : l <= layer => Right(l)
        <5> SUFFICES ASSUME NEW l \in Layers(call.config), l <= layer PROVE Right(l)
          OBVIOUS
        <5>1. Done(l)' - 1 = Step
          BY <1>2, <2>3
        <5> QED
          BY <2>4, <5>1
      <4>2. Right(layer)
        BY <1>2, <1>4, <4>1
      <4> QED
        BY <3>1, <4>2
    <3>3. Mixed(kv'[layer], Len(text)) = FactsOf(text, Len(text))
      BY <1>2, <3>2, AttendsAll
    <3>4. Mixed(kv'[layer], Len(text)) = UNION {kv'[layer][p] : p \in 0 .. Step}
      BY <3>1 DEF Mixed
    <3> QED
      BY <1>1, <2>1, <3>3, <3>4
  <2>6. pc' = "layer" => layer' # 0
    BY <1>1, <1>2
  <2> QED
    BY <1>1, <2>4, <2>5, <2>6 DEF SlotInv
<1>11. FileInv' /\ SaveInv'
  BY <1>1, FileUnchanged DEF TypeOK, SaveInv
<1> QED
  BY <1>6, <1>7, <1>8, <1>9, <1>10, <1>11

LEMMA PrefillKeeps ==
  ASSUME IInv, Prefill
  PROVE  IInv'
<1> USE DEF IInv
<1>1. /\ pc = "head" /\ pc' = "token" /\ Started /\ Looping /\ Started' /\ Looping'
      /\ Fed = local + 1 /\ local' = local + 1 /\ Fed' = local + 1
      /\ UNCHANGED <<call, base, kv, tokens, stopped, firstEos, text, hybrid, file>>
      /\ current' = call.prompt[Step + 2] /\ residual' = residual /\ layer' = layer
      /\ ~(local + 1 >= Len(call.prompt)) /\ CountStep
  BY DEF Prefill, Started, Looping, Fed, args, result, history, Sampling
<1>2. /\ call \in Calls /\ call # None /\ call.config \in Configs
      /\ call.prompt \in Seq(Tokens) /\ Len(call.prompt) \in Nat \ {0}
      /\ call.gen \in Nat \ {0} /\ Steps(call) = Len(call.prompt) + call.gen - 1
      /\ base \in Nat /\ local \in Nat /\ Step \in Nat
      /\ Len(text) = base + Fed
  BY <1>1, RunFacts
<1>3. base = 0 /\ Step = local /\ local + 1 < Len(call.prompt)
  <2>1. base # 0 => Len(call.prompt) = 1
    BY <1>1 DEF PlaceInv
  <2>2. local \in Nat /\ Len(call.prompt) \in Nat /\ ~(local + 1 >= Len(call.prompt))
    BY <1>1, <1>2
  <2>4. local + 1 < Len(call.prompt)
    BY <2>2
  <2>5. Len(call.prompt) # 1
    <3>1. \A n \in Nat : local + 1 < n => n # 1
      BY <2>2
    <3> QED
      BY <2>2, <2>4, <3>1
  <2>3. base = 0 /\ local + 1 < Len(call.prompt)
    BY <2>1, <2>4, <2>5
  <2> QED
    BY <2>2, <2>3 DEF Step
<1>4. counts \in [executed : Nat, prompt : Nat, generated : Nat]
  BY DEF TypeOK, LoopTyped
<1>5. counts' = [executed |-> counts.executed + 1, prompt |-> counts.prompt + 1,
                 generated |-> counts.generated]
  <2>1. local < Len(call.prompt)
    BY <1>2, <1>3
  <2> QED
    BY <1>1, <1>4, <2>1 DEF CountStep
<1>6. TypeOK'
  <2>1. current' \in Tokens
    <3>1. Step + 2 \in 1 .. Len(call.prompt)
      BY <1>2, <1>3
    <3> QED
      BY <1>1, <1>2, <3>1
  <2>3. counts' \in [executed : Nat, prompt : Nat, generated : Nat] /\ local' \in Nat
    BY SMTT(20), <1>1, <1>2, <1>4, <1>5
  <2>2. LoopTyped'
    BY <1>1, <2>1, <2>3 DEF TypeOK, LoopTyped
  <2> QED
    BY <1>1, <2>2, FileUnchanged DEF TypeOK
<1>7. FreshInv' /\ CallInv'
  BY <1>1 DEF FreshInv, CallInv, Legal, Limit, Steps
<1>8. PlaceInv'
  <2>1. Steps(call)' = Steps(call)
    BY <1>1 DEF Steps
  <2>2. local' < Len(call.prompt) /\ local' < Steps(call) /\ local < Len(call.prompt)
    BY <1>1, <1>2, <1>3
  <2>3. Len(text') = base' + Fed'
    BY <1>1, <1>2
  <2>4. counts'.executed = local' /\ counts'.prompt = local' /\ counts'.generated = 0
    BY <1>1, <1>2, <1>5, <2>2 DEF PlaceInv
  <2>5. Len(tokens') = 0
    BY <1>1, <2>2 DEF PlaceInv
  <2> QED
    BY <1>1, <2>1, <2>2, <2>3, <2>4, <2>5 DEF PlaceInv
<1>9. TextInv' /\ EosInv'
  BY <1>1 DEF TextInv, EosInv, IsEos, Captured, Steps
<1>10. TokenInv'
  BY <1>1, <1>2, <1>3 DEF TokenInv
<1>11. SlotInv'
  <2>1. \A l : Done(l)' = Done(l)
    BY <1>1, <1>2 DEF Done, Step
  <2> QED
    BY <1>1, <2>1 DEF SlotInv
<1>12. FileInv' /\ SaveInv'
  BY <1>1, FileUnchanged DEF TypeOK, SaveInv
<1> QED
  BY <1>6, <1>7, <1>8, <1>9, <1>10, <1>11, <1>12

LEMMA SelectTokenKeeps ==
  ASSUME IInv, NEW t \in Tokens, SelectToken(t)
  PROVE  IInv'
<1> USE DEF IInv
<1>1. /\ pc = "head" /\ pc' \in {"token", "finish"} /\ Started /\ Looping /\ Started'
      /\ Fed = local + 1 /\ local' = local + 1 /\ Fed' = local + 1
      /\ UNCHANGED <<call, base, kv, text, hybrid, file>>
      /\ current' = t /\ tokens' = Append(tokens, t)
      /\ residual' = residual /\ layer' = layer
      /\ local + 1 >= Len(call.prompt) /\ CountStep
  BY DEF SelectToken, Started, Looping, Fed, args, history, Sampling
<1>2. /\ call \in Calls /\ call # None /\ call.config \in Configs
      /\ call.prompt \in Seq(Tokens) /\ Len(call.prompt) \in Nat \ {0}
      /\ call.gen \in Nat \ {0} /\ Steps(call) = Len(call.prompt) + call.gen - 1
      /\ base \in Nat /\ local \in Nat /\ Step \in Nat
      /\ Len(text) = base + Fed /\ tokens \in Seq(Tokens)
  BY <1>1, RunFacts
<1>3. /\ local < Steps(call) /\ base + Steps(call) <= call.config.ctx
      /\ counts.executed = local
      /\ counts.prompt = (IF local < Len(call.prompt) THEN local ELSE Len(call.prompt))
      /\ counts.generated = (IF local < Len(call.prompt) THEN 0
                             ELSE local - Len(call.prompt))
      /\ Len(tokens) = (IF local < Len(call.prompt) THEN 0
                        ELSE local - Len(call.prompt) + 1)
      /\ (base # 0 => Len(call.prompt) = 1)
  BY <1>1 DEF PlaceInv
\* With n for the length of the prompt.
<1>4. ASSUME NEW n \in Nat, n = Len(call.prompt)
      PROVE  /\ local' >= n /\ ~(local' < n)
             /\ counts'.executed = local' /\ counts'.prompt = n
             /\ counts'.generated = local' - n
             /\ Len(tokens) = local - n + 1 /\ Len(tokens') = local' - n + 1
             /\ local' <= Steps(call)
             /\ (local + 1 # Steps(call) => local' < Steps(call))
  <2>1. n >= 1 /\ local + 1 >= n /\ Steps(call) \in Nat
    <3>1. n \in Nat \ {0} /\ local + 1 >= n
      BY <1>1, <1>2, <1>4
    <3>2. Steps(call) = n + call.gen - 1 /\ call.gen \in Nat \ {0}
      BY <1>2, <1>4
    <3> QED
      BY <3>1, <3>2
  <2>8. local \in Nat /\ local' = local + 1 /\ Len(tokens) \in Nat
        /\ Len(tokens') = Len(tokens) + 1
    BY <1>1, <1>2
  <2>9. Len(tokens) = (IF local < n THEN 0 ELSE local - n + 1)
    BY <1>3, <1>4
  <2>10. local < n => local - n + 1 = 0
    BY <2>1, <2>8
  <2>2. Len(tokens) = local - n + 1
    BY <2>9, <2>10
  <2>3. (local - n + 1) + 1 = (local + 1) - n + 1
    BY <2>8
  <2>4. Len(tokens') = local' - n + 1
    BY <2>2, <2>3, <2>8
  <2>5. counts'.executed = local'
    BY <1>1, <1>3 DEF CountStep
  <2>6. counts'.prompt = n /\ counts'.generated = local' - n
    <3>1. CASE local < n
      <4>1. local + 1 = n /\ (local + 1) - n = 0
        BY <2>1, <2>8, <3>1
      <4>2. counts.prompt = local /\ counts.generated = 0
        BY <1>3, <1>4, <3>1
      <4>3. counts'.prompt = local + 1 /\ counts'.generated = 0 + 0
        BY <1>1, <1>4, <3>1, <4>2 DEF CountStep
      <4> QED
        BY <2>8, <4>1, <4>3
    <3>2. CASE ~(local < n)
      <4>1. counts.prompt = n /\ counts.generated = local - n
        BY <1>3, <1>4, <3>2
      <4>2. n + 0 = n /\ (local - n) + 1 = (local + 1) - n
        BY <2>8
      <4>3. counts'.prompt = n + 0 /\ counts'.generated = (local - n) + 1
        BY <1>1, <1>4, <3>2, <4>1 DEF CountStep
      <4> QED
        BY <2>8, <4>2, <4>3
    <3> QED
      BY <3>1, <3>2
  <2>7. local + 1 <= Steps(call) /\ (local + 1 # Steps(call) => local + 1 < Steps(call))
    BY <1>2, <1>3, <2>1
  <2> QED
    BY <2>1, <2>2, <2>4, <2>5, <2>6, <2>7, <2>8
<1>5. /\ tokens' \in Seq(Tokens) /\ Len(tokens') = Len(tokens) + 1
      /\ tokens'[Len(tokens')] = t
      /\ \A i \in 1 .. Len(tokens) : tokens'[i] = tokens[i]
  BY <1>1, <1>2
<1>6. TypeOK'
  <2>1. counts \in [executed : Nat, prompt : Nat, generated : Nat]
    BY DEF TypeOK, LoopTyped
  <2>2. counts' \in [executed : Nat, prompt : Nat, generated : Nat]
    BY <1>1, <2>1 DEF CountStep
  <2>3. stopped' \in BOOLEAN
    BY DEF SelectToken, TypeOK, LoopTyped, IsEos, Captured
  <2>4. firstEos' \in Nat \cup {None}
    <3>1. Len(tokens) \in Nat /\ firstEos \in Nat \cup {None}
      BY <1>2 DEF TypeOK, LoopTyped
    <3> QED
      BY <3>1 DEF SelectToken
  <2>5. local' \in Nat
    BY <1>1, <1>2
  <2>6. LoopTyped'
    BY <1>1, <1>5, <2>2, <2>3, <2>4, <2>5 DEF TypeOK, LoopTyped
  <2> QED
    BY <1>1, <2>6, FileUnchanged DEF TypeOK
<1>7. FreshInv' /\ CallInv'
  BY <1>1 DEF FreshInv, CallInv, Legal, Limit, Steps
<1>8. Len(call.prompt) \in Nat /\ Steps(call)' = Steps(call)
  BY <1>1, <1>2 DEF Steps
<1>9. PlaceInv'
  <2>1. Looping' => local + 1 # Steps(call)
    BY DEF SelectToken, Looping
  <2>2. Len(text') = base' + Fed'
    BY <1>1, <1>2
  <2>3. pc' # "layer"
    BY <1>1
  <2> QED
    BY <1>1, <1>3, <1>4, <1>8, <2>1, <2>2, <2>3 DEF PlaceInv
<1>10. TextInv'
  <2> SUFFICES ASSUME NEW i \in 1 .. local + 1
               PROVE  text[base + i] = IF i <= Len(call.prompt) THEN call.prompt[i]
                                       ELSE tokens'[i - Len(call.prompt)]
    BY <1>1 DEF TextInv
  <2>1. text[base + i] = IF i <= Len(call.prompt) THEN call.prompt[i]
                         ELSE tokens[i - Len(call.prompt)]
    BY <1>1 DEF TextInv
  <2>2. ASSUME NEW n \in Nat, n = Len(call.prompt), ~(i <= n)
        PROVE  tokens'[i - n] = tokens[i - n]
    <3>1. Len(tokens) = local - n + 1
      BY <1>4, <2>2
    <3>2. i - n \in 1 .. local - n + 1
      BY <1>2, <2>2
    <3> QED
      BY <1>5, <3>1, <3>2
  <2> QED
    BY <1>8, <2>1, <2>2
<1>11. TokenInv'
  BY <1>1, <1>5 DEF TokenInv
<1>12. EosInv'
  <2>1. stopped = FALSE /\ firstEos = None
    BY <1>1 DEF EosInv, TypeOK, LoopTyped
  <2>2. \A i \in 1 .. Len(tokens) : ~IsEos(tokens[i])
    BY <1>1 DEF EosInv
  <2>3. \A x : IsEos(x)' <=> IsEos(x)
    BY <1>1 DEF IsEos, Captured
  <2>4. \A i \in 1 .. Len(tokens) : ~IsEos(tokens'[i])
    BY <1>5, <2>2
  <2>5. Looping' => ~IsEos(t)
    BY DEF SelectToken, Looping
  <2>6. \A i \in 1 .. Len(tokens') : (Looping' \/ i < Len(tokens')) => ~IsEos(tokens'[i])
    <3> SUFFICES ASSUME NEW i \in 1 .. Len(tokens'), Looping' \/ i < Len(tokens')
                 PROVE  ~IsEos(tokens'[i])
      OBVIOUS
    <3>1. Len(tokens) \in Nat
      BY <1>2
    <3>2. i \in 1 .. Len(tokens) \/ i = Len(tokens')
      BY <1>5, <3>1
    <3>3. i \in 1 .. Len(tokens) => ~IsEos(tokens'[i])
      BY <2>4
    <3>4. i = Len(tokens') => Looping' /\ tokens'[i] = t
      BY <1>5, <3>1
    <3> QED
      BY <2>5, <3>2, <3>3, <3>4
  <2>7. stopped' <=> ~Looping' /\ IsEos(t)
    <3>1. IsEos(t) => ~Looping'
      BY <2>5
    <3>2. stopped' <=> IsEos(t)
      BY <2>1 DEF SelectToken
    <3> QED
      BY <3>1, <3>2
  <2>8. stopped' \/ Looping' \/ local' = Steps(call)
    BY <1>1, <2>1, <2>7 DEF SelectToken, Looping
  <2>9. firstEos' = IF stopped' /\ call.entry = "buffer" THEN Len(tokens') - 1 ELSE None
    <3>1. stopped' <=> IsEos(t)
      BY <2>1 DEF SelectToken
    <3>2. Len(tokens') - 1 = Len(tokens)
      BY <1>2, <1>5
    <3> QED
      BY <2>1, <3>1, <3>2 DEF SelectToken
  <2> QED
    BY <1>1, <1>5, <1>8, <2>3, <2>6, <2>7, <2>8, <2>9 DEF EosInv
<1>13. SlotInv'
  <2>1. \A l : Done(l)' = Done(l)
    BY <1>1, <1>2 DEF Done, Step
  <2> QED
    BY <1>1, <2>1 DEF SlotInv
<1>14. FileInv' /\ SaveInv'
  BY <1>1, FileUnchanged DEF TypeOK, SaveInv
<1> QED
  BY <1>6, <1>7, <1>9, <1>10, <1>11, <1>12, <1>13, <1>14

-----------------------------------------------------------------------------
(***************************************************************************)
(* Leaving a snapshot.                                                     *)
(***************************************************************************)
\* A run that is done has selected a token, and all it was fed fits.
LEMMA DoneFacts ==
  ASSUME IInv, pc \in {"finish", "save"}
  PROVE  /\ Len(tokens) \in 1 .. Len(tokens) /\ current = tokens[Len(tokens)]
         /\ current \in Tokens
         /\ Header = [config |-> call.config, positions |-> Len(text), next |-> current]
         /\ Len(text) \in 1 .. call.config.ctx
         /\ Header \in HeaderType
<1> USE DEF IInv
<1>1. Started /\ ~Looping /\ Fed = local /\ pc # "layer" /\ pc # "head"
  BY DEF Started, Looping, Fed
<1>2. /\ call.config \in Configs /\ call.config.ctx \in Nat
      /\ Len(call.prompt) \in Nat /\ Len(call.prompt) >= 1
      /\ base \in Nat /\ local \in Nat /\ Steps(call) \in Nat
      /\ Len(text) = base + local /\ text \in Seq(Tokens) /\ tokens \in Seq(Tokens)
  <2>1. Len(call.prompt) \in Nat \ {0}
    BY <1>1, RunFacts
  <2>2. \A n \in Nat \ {0} : n \in Nat /\ n >= 1
    OBVIOUS
  <2> QED
    BY <1>1, <2>1, <2>2, RunFacts
<1>3. /\ base + Steps(call) <= call.config.ctx
      /\ local <= Steps(call) /\ local >= Len(call.prompt)
      /\ counts.executed = local
      /\ Len(tokens) = (IF local < Len(call.prompt) THEN 0
                        ELSE local - Len(call.prompt) + 1)
  BY <1>1 DEF PlaceInv
<1>4. Len(tokens) = local - Len(call.prompt) + 1
  <2>1. \A n \in Nat : local >= n => ~(local < n)
    BY <1>2
  <2> QED
    BY <1>2, <1>3, <2>1
<1>5. Len(tokens) \in 1 .. Len(tokens)
  BY <1>2, <1>3, <1>4
<1>6. current = tokens[Len(tokens)]
  BY <1>1, <1>3 DEF TokenInv
<1>7. base + local \in 1 .. call.config.ctx
  BY <1>2, <1>3
<1>8. Header = [config |-> call.config, positions |-> Len(text), next |-> current]
  BY <1>2, <1>3 DEF Header
<1>9. current \in Tokens
  BY <1>2, <1>5, <1>6
<1>10. Header \in HeaderType
  BY <1>2, <1>8, <1>9 DEF HeaderType
<1> QED
  BY <1>2, <1>5, <1>6, <1>7, <1>8, <1>9, <1>10

LEMMA SaveHeaderKeeps ==
  ASSUME IInv, SaveHeader
  PROVE  IInv'
<1> USE DEF IInv
<1>1. /\ pc = "finish" /\ pc' = "save" /\ Started /\ ~Looping /\ Started' /\ ~Looping'
      /\ Fed' = Fed
      /\ UNCHANGED <<call, base, local, layer, current, residual, kv, counts,
                     tokens, stopped, firstEos, text, hybrid>>
  BY DEF SaveHeader, Started, Looping, Fed, args, result, history
<1>2. file' = [header |-> Header, rows |-> <<>>, digest |-> NoDigest, text |-> text,
               last |-> tokens[Len(tokens)], hybrid |-> hybrid]
  BY DEF SaveHeader, OpenSnapshot
<1>3. Header \in HeaderType /\ tokens[Len(tokens)] \in Tokens
  BY <1>1, DoneFacts
<1>4. LoopTyped'
  BY <1>1 DEF TypeOK, LoopTyped
<1>5. FileBody'
  <2>1. <<>> \in Seq(RowType(Header))
    OBVIOUS
  <2>2. text \in Seq(Tokens) /\ hybrid \in BOOLEAN
    BY DEF TypeOK, LoopTyped
  <2> QED
    BY <1>2, <1>3, <2>1, <2>2 DEF FileBody
<1>6. TypeOK' /\ FileInv'
  BY <1>2, <1>4, <1>5 DEF TypeOK, FileTyped, FileInv
<1>7. FreshInv' /\ CallInv'
  BY <1>1 DEF FreshInv, CallInv, Legal, Limit, Steps
<1>8. (PlaceInv /\ TextInv /\ TokenInv /\ EosInv)'
  BY <1>1 DEF PlaceInv, TextInv, TokenInv, EosInv, IsEos, Captured, Steps
<1>9. SlotInv'
  BY <1>1 DEF SlotInv, Done, Step
<1>10. SaveInv'
  <2>1. Len(<<>>) = 0 /\ 0 <= call.config.layers
    BY <1>1, RunFacts
  <2>2. Header' = Header
    BY <1>1 DEF Header
  <2> QED
    BY <1>1, <1>2, <1>5, <2>1, <2>2 DEF SaveInv
<1> QED
  BY <1>6, <1>7, <1>8, <1>9, <1>10

LEMMA SaveLayerKeeps ==
  ASSUME IInv, SaveLayer
  PROVE  IInv'
<1> USE DEF IInv
<1> DEFINE r == Len(file.rows)
           row == [p \in 0 .. file.header.positions - 1 |-> kv[r][p]]
<1>1. pc = "save" /\ pc' = "save" /\ UNCHANGED loopVars /\ r < call.config.layers
      /\ file' = [file EXCEPT !.rows = Append(@, row)]
  BY DEF SaveLayer, loopVars, WriteRow
<1>2. Started /\ ~Looping /\ Started' /\ ~Looping'
  BY <1>1 DEF Started, Looping
<1>3. /\ FileBody /\ file.digest = NoDigest /\ file.header = Header
      /\ file.text = text /\ file.last = tokens[Len(tokens)] /\ file.hybrid = hybrid
      /\ \A i \in 1 .. r : \A p \in 0 .. file.header.positions - 1 :
           file.rows[i][p] = kv[i - 1][p]
  BY <1>1 DEF SaveInv
<1>4. file' = [header |-> file.header, rows |-> Append(file.rows, row),
               digest |-> NoDigest, text |-> file.text, last |-> file.last,
               hybrid |-> file.hybrid]
  BY <1>1, <1>3 DEF FileBody
<1>5. /\ r \in Nat /\ call.config.layers \in Nat /\ call.config.ctx \in Nat
      /\ kv \in [Layers(call.config) -> [Positions(call.config) -> Values]]
  <2>1. call.config.layers \in Nat /\ call.config.ctx \in Nat
        /\ kv \in [Layers(call.config) -> [Positions(call.config) -> Values]]
    BY <1>2, RunFacts
  <2> QED
    BY <1>3, <2>1 DEF FileBody
<1>6. file.header.positions = Len(text) /\ Len(text) \in 1 .. call.config.ctx
  BY <1>1, <1>3, DoneFacts
<1>7. row \in RowType(file.header)
  <2> SUFFICES ASSUME NEW p \in 0 .. file.header.positions - 1
               PROVE  kv[r][p] \in Values
    BY DEF RowType
  <2>1. r \in Layers(call.config)
    BY <1>1, <1>5 DEF Layers
  <2>2. p \in Positions(call.config)
    BY <1>5, <1>6 DEF Positions
  <2> QED
    BY <1>5, <2>1, <2>2
<1> HIDE DEF row
<1>8. /\ Append(file.rows, row) \in Seq(RowType(file.header))
      /\ Len(Append(file.rows, row)) = r + 1
      /\ \A i \in 1 .. r : Append(file.rows, row)[i] = file.rows[i]
      /\ Append(file.rows, row)[r + 1] = row
  BY <1>3, <1>7 DEF FileBody
<1>9. FileBody'
  BY <1>3, <1>4, <1>8 DEF FileBody
<1>10. TypeOK' /\ FileInv'
  <2>1. LoopTyped'
    BY <1>1 DEF TypeOK, LoopTyped, loopVars
  <2> QED
    BY <1>4, <1>9, <2>1 DEF TypeOK, FileTyped, FileInv
<1>11. (FreshInv /\ CallInv)'
  BY <1>1 DEF FreshInv, CallInv, Legal, Limit, Steps, loopVars
<1>12. (PlaceInv /\ TextInv /\ TokenInv /\ EosInv)'
  BY <1>1 DEF PlaceInv, TextInv, TokenInv, EosInv, Started, Looping, Fed, IsEos, loopVars
<1>13. SlotInv'
  BY <1>1 DEF SlotInv, Started, Looping, Done, Step, loopVars
<1>14. SaveInv'
  <2>1. \A i \in 1 .. r + 1 : \A p \in 0 .. file.header.positions - 1 :
          Append(file.rows, row)[i][p] = kv[i - 1][p]
    <3> SUFFICES ASSUME NEW i \in 1 .. r + 1, NEW p \in 0 .. file.header.positions - 1
                 PROVE  Append(file.rows, row)[i][p] = kv[i - 1][p]
      OBVIOUS
    <3>1. CASE i \in 1 .. r
      BY <1>3, <1>8, <3>1
    <3>2. CASE i = r + 1
      <4>1. i - 1 = r
        BY <1>5, <3>2
      <4> QED
        BY <1>8, <3>2, <4>1 DEF row
    <3> QED
      BY <1>5, <3>1, <3>2
  <2>2. r + 1 <= call.config.layers
    BY <1>1, <1>5
  <2>3. Header' = Header
    BY <1>1 DEF Header, loopVars
  <2>4. UNCHANGED <<call, text, tokens, hybrid, kv>>
    BY <1>1 DEF loopVars
  <2> QED
    BY <1>3, <1>4, <1>8, <1>9, <2>1, <2>2, <2>3, <2>4 DEF SaveInv
<1> QED
  BY <1>10, <1>11, <1>12, <1>13, <1>14

LEMMA SaveDigestKeeps ==
  ASSUME IInv, SaveDigest
  PROVE  IInv'
<1> USE DEF IInv
<1>1. pc = "save" /\ Release /\ Len(file.rows) = call.config.layers
      /\ file' = [file EXCEPT !.digest = Digest(file)]
  BY DEF SaveDigest, WriteDigest
<1>2. Started /\ ~Looping
  BY <1>1 DEF Started, Looping
<1>3. /\ FileBody /\ file.header = Header
      /\ file.text = text /\ file.last = tokens[Len(tokens)] /\ file.hybrid = hybrid
      /\ \A i \in 1 .. Len(file.rows) : \A p \in 0 .. file.header.positions - 1 :
           file.rows[i][p] = kv[i - 1][p]
  BY <1>1 DEF SaveInv
<1>4. file' = [header |-> file.header, rows |-> file.rows, digest |-> Digest(file),
               text |-> file.text, last |-> file.last, hybrid |-> file.hybrid]
  BY <1>1, <1>3 DEF FileBody
<1>5. FileTyped'
  BY <1>3, <1>4 DEF FileTyped, FileBody
<1>6. /\ file.header.config = call.config /\ file.header.positions = Len(text)
      /\ file.header.next = file.last /\ Len(text) \in 1 .. call.config.ctx
  BY <1>1, <1>3, DoneFacts
<1>7. call.config.layers \in Nat /\ Len(text) = Step
  BY <1>1, <1>2, RunFacts DEF Step, Fed
<1>8. ~hybrid => \A l \in Layers(call.config) : \A p \in 0 .. Len(text) - 1 :
                   file.rows[l + 1][p] = SlotOf(l, p, text)
  <2> SUFFICES ASSUME ~hybrid, NEW l \in Layers(call.config), NEW p \in 0 .. Len(text) - 1
               PROVE  file.rows[l + 1][p] = SlotOf(l, p, text)
    OBVIOUS
  <2>1. l + 1 \in 1 .. Len(file.rows) /\ (l + 1) - 1 = l
    BY <1>1, <1>7 DEF Layers
  <2>2. file.rows[l + 1][p] = kv[l][p]
    BY <1>3, <1>6, <2>1
  <2>3. p \in 0 .. Done(l) - 1
    BY <1>1, <1>7 DEF Done
  <2>4. kv[l][p] = SlotOf(l, p, text)
    BY <1>2, <2>3 DEF SlotInv
  <2> QED
    BY <2>2, <2>4
<1>9. Sound(file.header, file.rows, file.text, file.last, file.hybrid)
  BY <1>1, <1>3, <1>6, <1>8 DEF Sound
<1>10. FileInv'
  <2>1. Digest(file)[1].header = file.header /\ Digest(file)[1].rows = file.rows
    BY DEF Digest
  <2> QED
    BY <1>4, <1>9, <2>1 DEF FileInv
<1> QED
  BY <1>1, <1>5, <1>10, ReleaseInv

-----------------------------------------------------------------------------
THEOREM NextInv == IInv /\ [Next]_vars => IInv'
<1> SUFFICES ASSUME IInv, [Next]_vars PROVE IInv'
  OBVIOUS
<1>1. ASSUME NEW c \in Calls, Begin(c) PROVE IInv'
  BY <1>1, BeginKeeps
<1>2. CASE Load
  BY <1>2, LoadKeeps
<1>3. CASE RefuseSnapshot \/ Return \/ RunFails
  BY <1>3, LeaveKeeps
<1>4. CASE FeedToken
  BY <1>4, FeedTokenKeeps
<1>5. CASE RunLayer
  BY <1>5, RunLayerKeeps
<1>6. CASE Prefill
  BY <1>6, PrefillKeeps
<1>7. ASSUME NEW t \in Tokens, SelectToken(t) PROVE IInv'
  BY <1>7, SelectTokenKeeps
<1>8. CASE SaveHeader
  BY <1>8, SaveHeaderKeeps
<1>9. CASE SaveLayer
  BY <1>9, SaveLayerKeeps
<1>10. CASE SaveDigest
  BY <1>10, SaveDigestKeeps
<1>11. CASE DamageFile
  BY <1>11, DamageFileKeeps
<1>12. CASE UNCHANGED vars
  BY <1>12, StutterKeeps
<1> QED
  BY <1>1, <1>2, <1>3, <1>4, <1>5, <1>6, <1>7, <1>8, <1>9, <1>10, <1>11, <1>12
     DEF Next, Progress

THEOREM SpecInv == Spec => []IInv
BY InitInv, NextInv, PTL DEF Spec

-----------------------------------------------------------------------------
(***************************************************************************)
(* The results.                                                            *)
(***************************************************************************)
\* Every variable keeps its type (qx_format.c:6455-6915).
THEOREM SpecTypeOK == Spec => []TypeOK
<1>1. IInv => TypeOK
  BY DEF IInv
<1> QED
  BY <1>1, SpecInv, PTL

\* The head always sees the context of exactly the tokens fed, over any chain
\* of snapshots (qx_format.c:6455-6604).
THEOREM SpecExactContext == Spec => []ExactContext
<1>1. IInv => ExactContext
  BY DEF IInv, SlotInv, ExactContext, Started, Looping
<1> QED
  BY <1>1, SpecInv, PTL

\* No layer writes beyond its cache (qx_format.c:6601), and the look-ahead of
\* prefill stays inside the prompt (qx_format.c:6750).
THEOREM SpecIndicesInBounds == Spec => []IndicesInBounds
<1>1. ASSUME IInv, pc = "layer" PROVE Step < call.config.ctx
  <2>1. Started /\ Looping
    BY <1>1 DEF Started, Looping
  <2>2. base \in Nat /\ local \in Nat /\ Steps(call) \in Nat /\ call.config.ctx \in Nat
    BY <1>1, <2>1, RunFacts
  <2>3. base + Steps(call) <= call.config.ctx /\ local < Steps(call)
    BY <1>1, <2>1 DEF IInv, PlaceInv
  <2> QED
    BY <2>2, <2>3 DEF Step
<1>2. ASSUME IInv, pc = "head", ~Sampling PROVE Step + 1 < Len(call.prompt)
  <2>1. Started /\ Looping
    BY <1>2 DEF Started, Looping
  <2>2. base \in Nat /\ local \in Nat /\ Len(call.prompt) \in Nat
    BY <1>2, <2>1, RunFacts
  <2>3. base # 0 => Len(call.prompt) = 1
    BY <1>2, <2>1 DEF IInv, PlaceInv
  <2>4. ASSUME NEW n \in Nat, n = Len(call.prompt) PROVE Step + 1 < n
    <3>1. local + 1 < n
      BY <1>2, <2>2, <2>4 DEF Sampling
    <3>2. base = 0
      <4>1. n # 1
        BY <2>2, <3>1
      <4> QED
        BY <2>3, <2>4, <4>1
    <3> QED
      BY <2>2, <3>1, <3>2 DEF Step
  <2> QED
    BY <2>2, <2>4
<1>3. IInv => IndicesInBounds
  BY <1>1, <1>2 DEF IndicesInBounds
<1> QED
  BY <1>3, SpecInv, PTL

\* A selected token always has its place in the result (qx_format.c:6802, 6807).
THEOREM SpecResultFits == Spec => []ResultFits
<1>1. IInv => ResultFits
  <2> SUFFICES ASSUME IInv, pc = "head", Sampling, Captured(call)
               PROVE  Len(tokens) < Room(call)
    BY DEF ResultFits
  <2>1. Started /\ Looping
    BY DEF Started, Looping
  <2>2. /\ local \in Nat /\ Len(call.prompt) \in Nat /\ call.gen \in Nat \ {0}
        /\ Steps(call) = Len(call.prompt) + call.gen - 1 /\ call \in Calls
    BY <2>1, RunFacts
  <2>3. /\ local < Steps(call)
        /\ Len(tokens) = (IF local < Len(call.prompt) THEN 0
                          ELSE local - Len(call.prompt) + 1)
    BY <2>1 DEF IInv, PlaceInv
  <2>4. ASSUME NEW n \in Nat, n = Len(call.prompt) PROVE Len(tokens) < call.gen
    <3>1. CASE local < n
      BY <2>2, <2>3, <2>4, <3>1
    <3>2. CASE ~(local < n)
      <4>1. local < n + call.gen - 1 /\ Len(tokens) = local - n + 1
        BY <2>2, <2>3, <2>4, <3>2
      <4> QED
        BY <2>2, <4>1
    <3> QED
      BY <3>1, <3>2
  <2>5. Legal(call)
    BY <2>1 DEF IInv, CallInv
  <2>6. call.gen <= Room(call) /\ Room(call) \in Nat
    <3>1. call.capacity \in Nat
      BY <2>2, CallTyped
    <3> QED
      BY <2>5, <3>1, LoopAssumption DEF Legal, Limit, Room
  <2>7. Len(tokens) \in Nat /\ Len(tokens) < call.gen
    BY <2>1, <2>2, <2>4, RunFacts
  <2> QED
    BY <2>2, <2>6, <2>7
<1> QED
  BY <1>1, SpecInv, PTL

\* What a piece of a text is.
LEMMA Piece ==
  ASSUME NEW s \in Seq(Tokens), NEW a \in Nat, NEW b \in Nat, a <= b, b <= Len(s)
  PROVE  /\ SubSeq(s, a + 1, b) \in Seq(Tokens)
         /\ Len(SubSeq(s, a + 1, b)) = b - a
         /\ \A i \in 1 .. b - a : SubSeq(s, a + 1, b)[i] = s[a + i]
<1>1. \A i \in a + 1 .. b : s[i] \in Tokens
  OBVIOUS
<1>2. a + 1 \in Int /\ b \in Int
  OBVIOUS
<1>3. /\ SubSeq(s, a + 1, b) \in Seq(Tokens)
      /\ Len(SubSeq(s, a + 1, b)) = IF a + 1 <= b THEN b - (a + 1) + 1 ELSE 0
      /\ \A i \in 1 .. b - (a + 1) + 1 : SubSeq(s, a + 1, b)[i] = s[(a + 1) + i - 1]
  BY <1>1, <1>2, SubSeqProperties
<1>4. b - (a + 1) + 1 = b - a /\ (~(a + 1 <= b) => b - a = 0)
  OBVIOUS
<1>5. \A i \in 1 .. b - a : (a + 1) + i - 1 = a + i
  OBVIOUS
<1> QED
  BY <1>3, <1>4, <1>5

\* When the loop is done the result is what was fed and selected, counted and
\* with its end-of-sequence token reported as such (qx_format.c:6734-6869).
THEOREM SpecResultAccounts == Spec => []ResultAccounts
<1>1. ASSUME IInv, pc = "finish"
      PROVE  /\ SubSeq(text, base + 1, Len(text)) =
                  call.prompt \o SubSeq(tokens, 1, Len(tokens) - 1)
             /\ counts = [executed |-> Len(text) - base, prompt |-> Len(call.prompt),
                          generated |-> Len(tokens) - 1]
             /\ \A i \in 1 .. Len(tokens) - 1 : Captured(call) => tokens[i] # call.eos
             /\ stopped <=> Captured(call) /\ tokens[Len(tokens)] = call.eos
             /\ stopped \/ Len(tokens) = call.gen
             /\ call.entry = "buffer" =>
                  firstEos = IF stopped THEN Len(tokens) - 1 ELSE None
  <2> DEFINE m == Len(tokens)
  <2>1. Started /\ ~Looping /\ Fed = local
    BY <1>1 DEF Started, Looping, Fed
  <2>11. PICK n \in Nat : n = Len(call.prompt)
    BY <1>1, <2>1, RunFacts
  <2>2. /\ call.prompt \in Seq(Tokens) /\ Len(call.prompt) = n
        /\ call.gen \in Nat /\ Steps(call) = n + call.gen - 1
        /\ base \in Nat /\ local \in Nat /\ text \in Seq(Tokens) /\ tokens \in Seq(Tokens)
        /\ Len(text) = base + local
    BY <1>1, <2>1, <2>11, RunFacts
  <2>3. /\ local >= n /\ counts.executed = local
        /\ counts.prompt = (IF local < n THEN local ELSE n)
        /\ counts.generated = (IF local < n THEN 0 ELSE local - n)
        /\ m = (IF local < n THEN 0 ELSE local - n + 1)
    BY <1>1, <2>1, <2>11 DEF IInv, PlaceInv
  <2>4. ~(local < n)
    BY <2>2, <2>3
  <2>5. m \in Nat /\ m = local - n + 1 /\ m - 1 \in Nat /\ m - 1 = local - n
    <3>1. m = local - n + 1 /\ local - n \in Nat
      BY <2>2, <2>3, <2>4
    <3> QED
      BY <2>2, <3>1
  <2>6. counts = [executed |-> Len(text) - base, prompt |-> n, generated |-> m - 1]
    <3>1. counts \in [executed : Nat, prompt : Nat, generated : Nat]
      BY <1>1 DEF IInv, TypeOK, LoopTyped
    <3>2. counts.executed = Len(text) - base
      BY <2>2, <2>3
    <3> QED
      BY <2>3, <2>4, <2>5, <3>1, <3>2
  <2>7. SubSeq(text, base + 1, Len(text)) = call.prompt \o SubSeq(tokens, 1, m - 1)
    <3> DEFINE own == SubSeq(text, base + 1, Len(text))
               rest == SubSeq(tokens, 1, m - 1)
    <3>1. own \in Seq(Tokens) /\ Len(own) = local
          /\ \A i \in 1 .. local : own[i] = text[base + i]
      <4>1. Len(text) \in Nat /\ base <= Len(text) /\ Len(text) - base = local
        BY <2>2
      <4> QED
        BY <2>2, <4>1, Piece
    <3>2. rest \in Seq(Tokens) /\ Len(rest) = local - n
          /\ \A i \in 1 .. local - n : rest[i] = tokens[i]
      <4>1. 0 + 1 = 1 /\ (local - n) - 0 = local - n /\ \A i \in 1 .. local - n : 0 + i = i
        BY <2>2
      <4>2. 0 \in Nat /\ 0 <= m - 1 /\ m - 1 <= Len(tokens)
        BY <2>5
      <4>3. /\ SubSeq(tokens, 0 + 1, m - 1) \in Seq(Tokens)
            /\ Len(SubSeq(tokens, 0 + 1, m - 1)) = (m - 1) - 0
            /\ \A i \in 1 .. (m - 1) - 0 : SubSeq(tokens, 0 + 1, m - 1)[i] = tokens[0 + i]
        <5> HIDE DEF m
        <5> QED
          BY <2>2, <2>5, <4>2, Piece
      <4>4. (m - 1) - 0 = local - n /\ SubSeq(tokens, 0 + 1, m - 1) = rest
        BY <2>5, <4>1
      <4> QED
        BY <4>1, <4>3, <4>4
    <3> HIDE DEF own, rest
    <3>3. call.prompt \o rest \in Seq(Tokens) /\ Len(call.prompt \o rest) = local
          /\ Len(call.prompt) + Len(rest) = local
      <4>1. n + (local - n) = local
        BY <2>2
      <4>2. /\ call.prompt \o rest \in Seq(Tokens)
            /\ Len(call.prompt \o rest) = Len(call.prompt) + Len(rest)
        BY <2>2, <3>2, ConcatProperties
      <4> QED
        BY <2>2, <3>2, <4>1, <4>2
    <3>4. \A i \in 1 .. local : own[i] = (call.prompt \o rest)[i]
      <4> SUFFICES ASSUME NEW i \in 1 .. local PROVE own[i] = (call.prompt \o rest)[i]
        OBVIOUS
      <4>0. text[base + i] = IF i <= n THEN call.prompt[i] ELSE tokens[i - n]
        BY <1>1, <2>1, <2>11 DEF IInv, TextInv
      <4>1. own[i] = IF i <= n THEN call.prompt[i] ELSE tokens[i - n]
        BY <3>1, <4>0
      <4>2. (call.prompt \o rest)[i] = IF i <= n THEN call.prompt[i] ELSE rest[i - n]
        <5>1. i \in 1 .. Len(call.prompt) + Len(rest)
          BY <3>3
        <5>2. \A j \in 1 .. Len(call.prompt) + Len(rest) : (call.prompt \o rest)[j] =
                IF j <= Len(call.prompt) THEN call.prompt[j] ELSE rest[j - Len(call.prompt)]
          BY <2>2, <3>2, ConcatProperties
        <5> QED
          BY <2>2, <5>1, <5>2
      <4>3. ~(i <= n) => i - n \in 1 .. local - n
        BY <2>2
      <4> QED
        BY <3>2, <4>1, <4>2, <4>3
    <3>5. own = call.prompt \o rest
      BY <3>1, <3>3, <3>4, SeqEqual
    <3> QED
      BY <3>5 DEF own, rest
  <2>8. /\ \A i \in 1 .. m : i < m => ~IsEos(tokens[i])
        /\ stopped <=> IsEos(tokens[m])
        /\ stopped \/ local = Steps(call)
        /\ firstEos = IF stopped /\ call.entry = "buffer" THEN m - 1 ELSE None
    BY <1>1, <2>1 DEF IInv, EosInv
  <2>9. \A i \in 1 .. m - 1 : Captured(call) => tokens[i] # call.eos
    <3>1. \A i \in 1 .. m - 1 : i \in 1 .. m /\ i < m
      BY <2>5
    <3> QED
      BY <2>8, <3>1 DEF IsEos
  <2>10. stopped \/ m = call.gen
    <3>1. local = n + call.gen - 1 => local - n + 1 = call.gen
      BY SMTT(20), <2>2
    <3> QED
      BY <2>2, <2>5, <2>8, <3>1
  <2> QED
    BY <2>2, <2>6, <2>7, <2>8, <2>9, <2>10 DEF IsEos
<1>2. IInv => ResultAccounts
  BY <1>1 DEF ResultAccounts
<1> QED
  BY <1>2, SpecInv, PTL

\* A snapshot that was written to its end is what the run was fed, and a run
\* that asks for it takes it (qx_format.c:6909 and 6049-6102).
THEOREM SpecSnapshotSound == Spec => []SnapshotSound
<1>1. IInv => SnapshotSound
  <2> SUFFICES ASSUME IInv, file # NoFile, Intact(file)
               PROVE  /\ file.header.positions = Len(file.text)
                      /\ file.header.next = file.last
                      /\ ~file.hybrid =>
                           /\ Accepts(file, file.header.config)
                           /\ \A l \in Layers(file.header.config) :
                                \A p \in 0 .. Len(file.text) - 1 :
                                  file.rows[l + 1][p] = SlotOf(l, p, file.text)
    BY DEF SnapshotSound
  <2>1. FileBody
    BY DEF IInv, TypeOK, FileTyped
  <2>2. file.digest # NoDigest /\ file.digest[1].header = file.header
        /\ file.digest[1].rows = file.rows
    BY DEF Intact, Digest, NoDigest
  <2>3. Sound(file.header, file.rows, file.text, file.last, file.hybrid)
    BY <2>2 DEF IInv, FileInv
  <2>4. ASSUME ~file.hybrid PROVE ScalesReadable(file)
    <3> SUFFICES ASSUME NEW i \in 1 .. Len(file.rows), NEW p \in DOMAIN file.rows[i]
                 PROVE  file.rows[i][p] # {Blank}
      BY DEF ScalesReadable
    <3>1. file.header.config.layers \in Nat /\ Len(file.rows) = file.header.config.layers
      BY <2>1, <2>3, SnapshotAssumption DEF FileBody, HeaderType, Sound
    <3>2. i - 1 \in Layers(file.header.config) /\ (i - 1) + 1 = i
      BY <3>1 DEF Layers
    <3>3. file.rows[i] \in RowType(file.header)
      BY <2>1 DEF FileBody
    <3>4. p \in 0 .. Len(file.text) - 1
      BY <2>3, <3>3 DEF RowType, Sound
    <3>5. file.rows[i][p] = SlotOf(i - 1, p, file.text)
      BY <2>3, <2>4, <3>2, <3>4 DEF Sound
    <3> QED
      BY <2>1, <3>4, <3>5, SlotWritten DEF FileBody
  <2> QED
    BY <2>3, <2>4 DEF Sound, Accepts
<1> QED
  BY <1>1, SpecInv, PTL

\* The slots of earlier positions do not change during a run (qx_format.c:6601).
THEOREM SpecHistoryImmutable == Spec => HistoryImmutable
<1>1. ASSUME IInv, [Next]_vars, pc \notin {"idle", "load"}, pc' # "idle",
             NEW l \in Layers(call.config), NEW p \in 0 .. Step - 1
      PROVE  kv'[l][p] = kv[l][p]
  <2>1. CASE RunLayer
    <3>1. Started /\ Looping /\ pc = "layer"
      BY <2>1 DEF RunLayer, Started, Looping
    <3>2. /\ kv \in [Layers(call.config) -> [Positions(call.config) -> Values]]
          /\ Step \in Nat /\ call.config.ctx \in Nat
      BY <1>1, <3>1, RunFacts
    <3>3. p # Step /\ l \in Layers(call.config)
      BY <3>2
    <3> QED
      BY <2>1, <3>2, <3>3 DEF RunLayer, AppendSlot
  <2>2. CASE ~RunLayer
    BY <1>1, <2>2 DEF Next, Progress, Begin, Load, RefuseSnapshot, FeedToken, Prefill,
       SelectToken, Return, SaveHeader, SaveLayer, SaveDigest, RunFails, DamageFile,
       Damage, Release, vars, loopVars
  <2> QED
    BY <2>1, <2>2
<1>2. IInv /\ [Next]_vars =>
        [ (pc \notin {"idle", "load"} /\ pc' # "idle") =>
            \A l \in Layers(call.config) : \A p \in 0 .. Step - 1 :
              kv'[l][p] = kv[l][p] ]_vars
  BY <1>1
<1> QED
  BY <1>2, SpecInv, PTL DEF Spec, HistoryImmutable

-----------------------------------------------------------------------------
(***************************************************************************)
(* A run gets nearer to its return with every step: to a later part of the *)
(* function, to its last step, to its last layer or to the snapshot's last *)
(* row.                                                                    *)
(***************************************************************************)
PartsLeft ==
  CASE pc = "load"   -> 4
    [] Looping       -> 3
    [] pc = "finish" -> 2
    [] pc = "save"   -> 1
    [] OTHER         -> 0

StepsLeft == IF Looping THEN Steps(call) - local ELSE 0

StageLeft ==
  CASE pc = "token" -> call.config.layers + 2
    [] pc = "layer" -> call.config.layers + 1 - layer
    [] pc = "save"  -> call.config.layers - Len(file.rows)
    [] OTHER        -> 0

Measured == PartsLeft \in Nat /\ StepsLeft \in Nat /\ StageLeft \in Nat

Nearer ==
  /\ Measured /\ Measured'
  /\ \/ PartsLeft' < PartsLeft
     \/ PartsLeft' = PartsLeft /\ StepsLeft' < StepsLeft
     \/ PartsLeft' = PartsLeft /\ StepsLeft' = StepsLeft /\ StageLeft' < StageLeft

RunShrinks == [][pc # "idle" => Nearer]_vars

LEMMA PartsFacts ==
  ASSUME IInv
  PROVE  /\ pc = "idle" => PartsLeft = 0
         /\ pc = "load" => PartsLeft = 4
         /\ Looping => PartsLeft = 3
         /\ pc = "finish" => PartsLeft = 2
         /\ pc = "save" => PartsLeft = 1
         /\ pc \in {"idle", "load", "finish", "save"} \/ Looping
<1>1. pc \in {"idle", "load", "token", "layer", "head", "finish", "save"}
  BY DEF IInv, TypeOK, LoopTyped
<1> QED
  BY <1>1 DEF PartsLeft, Looping

LEMMA MeasuredInv == IInv => Measured
<1> SUFFICES ASSUME IInv PROVE Measured
  OBVIOUS
<1>1. PartsLeft \in Nat
  BY PartsFacts
<1>2. StepsLeft \in Nat
  <2>1. CASE Looping
    <3>1. local \in Nat /\ Steps(call) \in Nat /\ local < Steps(call)
      BY <2>1, RunFacts DEF Started, IInv, PlaceInv
    <3> QED
      BY <2>1, <3>1 DEF StepsLeft
  <2>2. CASE ~Looping
    BY <2>2 DEF StepsLeft
  <2> QED
    BY <2>1, <2>2
<1>3. StageLeft \in Nat
  <2>1. Started => call.config.layers \in Nat /\ layer \in Nat
    BY RunFacts
  <2>2. pc \in {"token", "layer", "save"} => Started
    BY DEF Started, Looping
  <2>3. pc = "layer" => layer < call.config.layers
    BY <2>2 DEF IInv, PlaceInv
  <2>4. pc = "save" => Len(file.rows) \in Nat /\ Len(file.rows) <= call.config.layers
    BY DEF IInv, SaveInv, FileBody
  <2>5. pc = "token" => StageLeft = call.config.layers + 2
    BY DEF StageLeft
  <2>6. pc = "layer" => StageLeft = call.config.layers + 1 - layer
    BY DEF StageLeft
  <2>7. pc = "save" => StageLeft = call.config.layers - Len(file.rows)
    BY DEF StageLeft
  <2>8. pc \notin {"token", "layer", "save"} => StageLeft = 0
    BY DEF StageLeft
  <2> QED
    BY <2>1, <2>2, <2>3, <2>4, <2>5, <2>6, <2>7, <2>8
<1> QED
  BY <1>1, <1>2, <1>3 DEF Measured

LEMMA MeasuredNext == IInv' => Measured'
BY MeasuredInv, PTL

LEMMA PartsNext ==
  IInv' => /\ (pc = "idle" => PartsLeft = 0)'
           /\ (pc = "load" => PartsLeft = 4)'
           /\ (Looping => PartsLeft = 3)'
           /\ (pc = "finish" => PartsLeft = 2)'
           /\ (pc = "save" => PartsLeft = 1)'
<1>1. IInv => /\ pc = "idle" => PartsLeft = 0
              /\ pc = "load" => PartsLeft = 4
              /\ Looping => PartsLeft = 3
              /\ pc = "finish" => PartsLeft = 2
              /\ pc = "save" => PartsLeft = 1
  BY PartsFacts
<1> QED
  BY <1>1, PTL

LEMMA NearerStep ==
  ASSUME IInv, IInv', [Next]_vars, ~UNCHANGED vars, pc # "idle"
  PROVE  Nearer
<1>1. Measured /\ Measured'
  BY MeasuredInv, MeasuredNext
<1>2. CASE RefuseSnapshot \/ Return \/ SaveDigest \/ RunFails
  <2>1. pc' = "idle"
    BY <1>2 DEF RefuseSnapshot, Return, SaveDigest, RunFails, Release
  <2>2. PartsLeft' = 0 /\ PartsLeft \in {1, 2, 3, 4}
    BY <2>1, PartsFacts, PartsNext
  <2> QED
    BY <1>1, <2>2 DEF Nearer
<1>3. CASE Load
  <2>1. pc = "load" /\ pc' = "token" /\ Looping'
    BY <1>3 DEF Load, Looping
  <2>2. PartsLeft = 4 /\ PartsLeft' = 3
    BY <2>1, PartsFacts, PartsNext
  <2> QED
    BY <1>1, <2>2 DEF Nearer
<1>4. CASE SaveHeader
  <2>1. pc = "finish" /\ pc' = "save"
    BY <1>4 DEF SaveHeader
  <2>2. PartsLeft = 2 /\ PartsLeft' = 1
    BY <2>1, PartsFacts, PartsNext
  <2> QED
    BY <1>1, <2>2 DEF Nearer
<1>5. CASE FeedToken
  <2>1. /\ pc = "token" /\ pc' = "layer" /\ layer' = call.first
        /\ call' = call /\ local' = local /\ Looping /\ Looping' /\ Started
    BY <1>5 DEF FeedToken, args, Looping, Started
  <2>2. PartsLeft = 3 /\ PartsLeft' = 3
    BY <2>1, PartsFacts, PartsNext
  <2>3. StepsLeft' = StepsLeft
    BY <2>1 DEF StepsLeft, Steps
  <2>4. StageLeft = call.config.layers + 2 /\ StageLeft' = call.config.layers + 1 - call.first
    BY <2>1 DEF StageLeft
  <2>5. call.config.layers \in Nat /\ call.first \in Nat
    BY <2>1, RunFacts
  <2> QED
    BY <1>1, <2>2, <2>3, <2>4, <2>5 DEF Nearer
<1>6. CASE RunLayer
  <2>1. /\ pc = "layer" /\ layer' = layer + 1
        /\ pc' = (IF layer + 1 = call.config.layers THEN "head" ELSE "layer")
        /\ call' = call /\ local' = local /\ Looping /\ Looping' /\ Started
    BY <1>6 DEF RunLayer, args, Looping, Started
  <2>2. PartsLeft = 3 /\ PartsLeft' = 3
    BY <2>1, PartsFacts, PartsNext
  <2>3. StepsLeft' = StepsLeft
    BY <2>1 DEF StepsLeft, Steps
  <2>4. call.config.layers \in Nat /\ layer \in Nat /\ layer < call.config.layers
    BY <2>1, RunFacts DEF IInv, PlaceInv
  <2>5. StageLeft = call.config.layers + 1 - layer
    BY <2>1 DEF StageLeft
  <2>6. StageLeft' = 0 \/ StageLeft' = call.config.layers + 1 - (layer + 1)
    BY <2>1 DEF StageLeft
  <2>7. StageLeft' < StageLeft
    BY <2>4, <2>5, <2>6
  <2> QED
    BY <1>1, <2>2, <2>3, <2>7 DEF Nearer
<1>7. ASSUME Prefill \/ \E t \in Tokens : SelectToken(t)
      PROVE  Nearer
  <2>1. /\ pc = "head" /\ pc' \in {"token", "finish"} /\ call' = call
        /\ local' = local + 1 /\ Looping /\ Started
    BY <1>7 DEF Prefill, SelectToken, args, Looping, Started
  <2>2. PartsLeft = 3
    BY <2>1, PartsFacts
  <2>3. CASE pc' = "finish"
    <3>1. PartsLeft' = 2
      BY <2>3, PartsNext
    <3> QED
      BY <1>1, <2>2, <3>1 DEF Nearer
  <2>4. CASE pc' = "token"
    <3>1. Looping' /\ PartsLeft' = 3
      BY <2>4, PartsNext DEF Looping
    <3>2. local \in Nat /\ Steps(call) \in Nat
      BY <2>1, RunFacts
    <3>3. StepsLeft = Steps(call) - local /\ StepsLeft' = Steps(call) - (local + 1)
      BY <2>1, <3>1 DEF StepsLeft, Steps
    <3>4. StepsLeft' < StepsLeft
      BY <3>2, <3>3
    <3> QED
      BY <1>1, <2>2, <3>1, <3>4 DEF Nearer
  <2> QED
    BY <2>1, <2>3, <2>4
<1>8. CASE SaveLayer
  <2>1. pc = "save" /\ pc' = "save" /\ call' = call /\ ~Looping /\ ~Looping'
    BY <1>8 DEF SaveLayer, loopVars, Looping
  <2>2. PartsLeft = 1 /\ PartsLeft' = 1 /\ StepsLeft = 0 /\ StepsLeft' = 0
    BY <2>1, PartsFacts, PartsNext DEF StepsLeft
  <2>3. /\ FileBody /\ call.config.layers \in Nat
    BY <2>1, RunFacts DEF IInv, SaveInv, Started
  <2>4. Len(file.rows) \in Nat /\ Len(file'.rows) = Len(file.rows) + 1
    <3> DEFINE row == [p \in 0 .. file.header.positions - 1 |-> kv[Len(file.rows)][p]]
    <3>1. file' = [file EXCEPT !.rows = Append(file.rows, row)]
      BY <1>8 DEF SaveLayer, WriteRow
    <3> HIDE DEF row
    <3>2. file.rows \in Seq(RowType(file.header)) /\ file'.rows = Append(file.rows, row)
      BY <2>3, <3>1 DEF FileBody
    <3> QED
      BY <3>2
  <2>5. StageLeft = call.config.layers - Len(file.rows)
        /\ StageLeft' = call.config.layers - Len(file'.rows)
    BY <2>1 DEF StageLeft
  <2>6. StageLeft' < StageLeft
    BY <2>3, <2>4, <2>5
  <2> QED
    BY <1>1, <2>2, <2>6 DEF Nearer
<1>9. CASE DamageFile \/ \E c \in Calls : Begin(c)
  BY <1>9 DEF DamageFile, Begin
<1> QED
  BY <1>2, <1>3, <1>4, <1>5, <1>6, <1>7, <1>8, <1>9 DEF Next, Progress

\* No run goes round in circles, with or without a snapshot, a replay or an
\* early end of sequence: every step brings it nearer to its return
\* (qx_run_prompt_state_loop, qx_format.c:6455-7008).
THEOREM RunTerminates == Spec => RunShrinks
<1> DEFINE Closer == pc # "idle" => Nearer
<1>1. IInv /\ IInv' /\ [Next]_vars => [Closer]_vars
  BY NearerStep
<1> QED
  BY <1>1, SpecInv, NextInv, PTL DEF Spec, RunShrinks
=============================================================================
