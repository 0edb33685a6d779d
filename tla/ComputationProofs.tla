------------------------- MODULE ComputationProofs --------------------------
(***************************************************************************)
(* Six of the sequential computations are right for every value of their  *)
(* constants: the list of best tokens, the limit of the tokenizer's merge  *)
(* loop, the buffers of the scratch workspace, the gates of the policies,  *)
(* the places of the tensors in a converted model and the cut of a row job.*)
(***************************************************************************)
EXTENDS
  TopTokens, Tokenizer, ScratchWorkspace, PolicyGates, TensorLayout, RowCuts,
  RowPartitionProofs,
  WellFoundedInduction, TLAPS

-----------------------------------------------------------------------------
(* The list of best tokens is right for every vocabulary, every length of  *)
(* the list and every set of logits.  TopIsBest is inductive once the      *)
(* types are known.                                                        *)

Entry == [token : Nat, logit : Int]

(* Types; Lowest is the logit of fillers only.                             *)
TopTypeOK ==
  /\ logits \in Seq(Logits)
  /\ scanned \in 0 .. Len(logits)
  /\ top \in Seq(Entry)

TopInv == TopTypeOK /\ TopIsBest

LEMMA InitTopInv == TopInit => TopInv
  <1> SUFFICES ASSUME TopInit PROVE TopInv
    OBVIOUS
  <1> USE TopTokensAssumption
  <1>1. logits \in Seq(Logits) /\ scanned = 0
    BY DEF TopInit
  <1>2. PICK n \in 1 .. MaxTop : top = [r \in 1 .. n |-> Filler]
    BY DEF TopInit
  <1>3. top \in Seq(Entry) /\ Len(top) = n
    BY <1>2 DEF Filler, Entry
  <1>4. \A r \in 1 .. Len(top) : top[r] = Filler
    BY <1>2, <1>3
  <1>5. Held = 0
    BY <1>1, <1>3 DEF Held
  <1> QED
    BY <1>1, <1>3, <1>4, <1>5 DEF TopInv, TopTypeOK, TopIsBest

(* A set of naturals that is not empty has a least member.                 *)
LEMMA LeastNat ==
  ASSUME NEW S \in SUBSET Nat, S # {}
  PROVE  \E m \in S : \A n \in S : m <= n
  <1>1. \E m \in S : \A n \in S : ~(<<n, m>> \in OpToRel(<, Nat))
    BY NatLessThanWellFounded, WFMin, Zenon
  <1>2. PICK m \in S : \A n \in S : ~(<<n, m>> \in OpToRel(<, Nat))
    BY <1>1
  <1>3. ASSUME NEW n \in S PROVE m <= n
    <2>1. m \in Nat /\ n \in Nat
      OBVIOUS
    <2>2. <<n, m>> \in Nat \X Nat
      BY <2>1
    <2>3. ~(<<n, m>> \in { ss \in Nat \X Nat : ss[1] < ss[2] })
      BY <1>2, Zenon DEF OpToRel
    <2> QED
      BY <2>1, <2>2, <2>3
  <1> QED
    BY <1>3

(* What one insertion does to a list of the right type: it ends at a rank  *)
(* q: the entries before it stay, it takes q, the rest move back.  With    *)
(* q = n + 1 nothing changes.                                              *)
LEMMA PlaceOfInsert ==
  ASSUME NEW list \in Seq(Entry),
         NEW token \in Nat, NEW logit \in Int
  PROVE  \E q \in 1 .. Len(list) + 1 :
           /\ \A r \in 1 .. q - 1 : ~Beats(logit, list[r])
           /\ q <= Len(list) => Beats(logit, list[q])
           /\ Insert(list, token, logit) =
                [r \in 1 .. Len(list) |->
                   IF r < q THEN list[r]
                   ELSE IF r = q THEN [token |-> token, logit |-> logit]
                   ELSE list[r - 1]]
  <1> DEFINE beaten == { r \in 1 .. Len(list) : Beats(logit, list[r]) }
             landed(r) == \E s \in 1 .. r : Beats(logit, list[s])
  <1>0. Len(list) \in Nat
    OBVIOUS
  <1>1. CASE beaten = {}
    <2>1. \A r \in 1 .. Len(list) : ~landed(r)
      <3>1. \A s \in 1 .. Len(list) : ~Beats(logit, list[s])
        BY <1>1
      <3>2. \A r \in 1 .. Len(list) : \A s \in 1 .. r : s \in 1 .. Len(list)
        BY <1>0
      <3> QED
        BY <3>1, <3>2, Zenon
    <2>2. Insert(list, token, logit) = [r \in 1 .. Len(list) |-> list[r]]
      BY <2>1, Zenon DEF Insert
    <2>3. [r \in 1 .. Len(list) |-> list[r]] =
            [r \in 1 .. Len(list) |->
               IF r < Len(list) + 1 THEN list[r]
               ELSE IF r = Len(list) + 1 THEN [token |-> token, logit |-> logit]
               ELSE list[r - 1]]
      BY <1>0
    <2>4. \A r \in 1 .. Len(list) : ~Beats(logit, list[r])
      BY <1>1
    <2> WITNESS Len(list) + 1 \in 1 .. Len(list) + 1
    <2> QED
      BY <1>0, <2>2, <2>3, <2>4
  <1>2. CASE beaten # {}
    <2>1. PICK q \in beaten : \A r \in beaten : q <= r
      <3> HIDE DEF landed
      <3>1. beaten \in SUBSET Nat
        OBVIOUS
      <3> HIDE DEF beaten
      <3> QED
        BY <1>2, <3>1, LeastNat
    <2>2. q \in 1 .. Len(list) /\ Beats(logit, list[q])
      OBVIOUS
    <2>3. \A r \in 0 .. Len(list) : landed(r) <=> q <= r
      BY <1>0, <2>1, <2>2
    <2>4. Insert(list, token, logit) =
            [r \in 1 .. Len(list) |->
               IF r < q THEN list[r]
               ELSE IF r = q THEN [token |-> token, logit |-> logit]
               ELSE list[r - 1]]
      <3> HIDE DEF landed
      <3>1. ASSUME NEW r \in 1 .. Len(list)
            PROVE  /\ ~landed(r) <=> r < q
                   /\ ~landed(r - 1) <=> r <= q
        BY <1>0, <2>2, <2>3
      <3>2. Insert(list, token, logit) =
              [r \in 1 .. Len(list) |->
                 IF ~landed(r) THEN list[r]
                 ELSE IF ~landed(r - 1) THEN [token |-> token, logit |-> logit]
                 ELSE list[r - 1]]
        BY Zenon DEF Insert, landed
      <3> QED
        BY <2>2, <3>1, <3>2
    <2>5. \A r \in 1 .. q - 1 : ~Beats(logit, list[r])
      BY <1>0, <2>1, <2>2
    <2>6. q \in 1 .. Len(list) + 1
      BY <1>0, <2>2
    <2> QED
      BY <2>2, <2>4, <2>5, <2>6, Zenon
  <1> QED
    BY <1>1, <1>2
(* Precedes is a strict order on entries.                                  *)
LEMMA PrecedesTransitive ==
  ASSUME NEW a \in Entry,
         NEW b \in Entry,
         NEW c \in Entry,
         Precedes(a, b), Precedes(b, c)
  PROVE  Precedes(a, c)
  BY DEF Precedes, Entry

LEMMA ScanTopInv == TopInv /\ ScanToken => TopInv'
  <1> SUFFICES ASSUME TopInv, ScanToken PROVE TopInv'
    OBVIOUS
  <1> DEFINE n == Len(top)
             l == logits[scanned + 1]
             e == [token |-> scanned, logit |-> l]
  <1>1. /\ logits \in Seq(Logits) /\ scanned \in Nat /\ scanned < Len(logits)
        /\ n \in Nat /\ top \in Seq(Entry)
        /\ l \in Logits /\ l \in Int /\ Lowest < l /\ Lowest \in Int
    <2>1. /\ logits \in Seq(Logits) /\ scanned \in Nat /\ scanned < Len(logits)
          /\ top \in Seq(Entry)
      BY DEF TopInv, TopTypeOK, ScanToken
    <2>2. n \in Nat
      BY <2>1
    <2>3. l \in Logits
      BY <2>1
    <2> QED
      BY <2>1, <2>2, <2>3, TopTokensAssumption
  <1>entry. /\ \A r \in 1 .. n : top[r] \in Entry
        /\ e \in Entry /\ e.token = scanned /\ e.logit = l
    <2>1. ASSUME NEW r \in 1 .. n PROVE top[r] \in Entry
      BY <1>1
    <2> QED
      BY <1>1, <2>1 DEF Entry
  <1>types. ASSUME NEW r \in 1 .. n
        PROVE  top[r].token \in Nat /\ top[r].logit \in Int
    BY <1>entry DEF Entry
  <1>2. /\ logits' = logits /\ scanned' = scanned + 1
        /\ top' = Insert(top, scanned, l)
    BY DEF ScanToken
  <1>3. PICK q \in 1 .. n + 1 :
           /\ \A r \in 1 .. q - 1 : ~Beats(l, top[r])
           /\ q <= n => Beats(l, top[q])
           /\ Insert(top, scanned, l) =
                [r \in 1 .. n |->
                   IF r < q THEN top[r] ELSE IF r = q THEN e ELSE top[r - 1]]
    <2> HIDE DEF l
    <2> QED
      BY <1>1, PlaceOfInsert
  <1>4. /\ top' \in Seq(Entry) /\ Len(top') = n
        /\ \A r \in 1 .. n :
             top'[r] = IF r < q THEN top[r] ELSE IF r = q THEN e ELSE top[r - 1]
    <2> HIDE DEF l
    <2> HIDE DEF e
    <2> QED
      BY <1>1, <1>2, <1>3, <1>entry
  <1>5. /\ Held \in 0 .. n /\ Held <= scanned
        /\ Held < n => Held = scanned
        /\ Held' = IF Held < n THEN Held + 1 ELSE n
    BY <1>1, <1>2, <1>4 DEF Held
  <1> HIDE DEF l, e
  <1>6. /\ \A r \in 1 .. Held :
             top[r].token \in 0 .. scanned - 1 /\ top[r].logit = logits[top[r].token + 1]
        /\ \A r \in 1 .. n : r > Held => top[r] = Filler
        /\ \A r, s \in 1 .. Held : r < s => Precedes(top[r], top[s])
        /\ \A t \in 0 .. scanned - 1 :
             \/ \E r \in 1 .. Held : top[r].token = t
             \/ /\ Held = n
                /\ \A r \in 1 .. Held :
                     Precedes(top[r], [token |-> t, logit |-> logits[t + 1]])
    <2>1. TopIsBest
      BY DEF TopInv
    <2>2. \A r \in 1 .. Held : r \in 1 .. n /\ r <= Held
      BY <1>1, <1>5
    <2>3. \A r \in 1 .. Held :
            top[r].token \in 0 .. scanned - 1 /\ top[r].logit = logits[top[r].token + 1]
      BY <2>1, <2>2 DEF TopIsBest
    <2>4. \A r \in 1 .. n : r > Held => top[r] = Filler
      BY <1>1, <1>5, <2>1 DEF TopIsBest
    <2> QED
      BY <2>1, <2>3, <2>4 DEF TopIsBest
  <1>7. q <= Held + 1
    <2>1. CASE Held < n
      <3>1. top[Held + 1].logit = Lowest
        BY <1>1, <1>5, <1>6, <2>1 DEF Filler
      <3>2. Beats(l, top[Held + 1])
        BY <1>1, <3>1 DEF Beats
      <3> QED
        BY <1>1, <1>3, <1>5, <2>1, <3>2
    <2> QED
      BY <1>1, <1>5, <2>1
  <1>8. \A r \in 1 .. n : r < q => Precedes(top[r], e)
    <2> SUFFICES ASSUME NEW r \in 1 .. n, r < q PROVE Precedes(top[r], e)
      OBVIOUS
    <2>1. r \in 1 .. q - 1 /\ r \in 1 .. Held
      BY <1>1, <1>3, <1>5, <1>7
    <2>2. ~Beats(l, top[r]) /\ top[r].token \in 0 .. scanned - 1
      BY <1>3, <1>6, <2>1
    <2>3. top[r].token < scanned
      BY <1>1, <1>types, <2>2
    <2> QED
      BY <1>1, <1>entry, <1>types, <2>2, <2>3 DEF Beats, Precedes
  <1>9. \A r \in 1 .. Held : q <= r => Precedes(e, top[r])
    <2> SUFFICES ASSUME NEW r \in 1 .. Held, q <= r PROVE Precedes(e, top[r])
      OBVIOUS
    <2>1. q \in 1 .. n /\ q \in 1 .. Held /\ r \in 1 .. n
      BY <1>1, <1>3, <1>5
    <2>2. Precedes(e, top[q])
      BY <1>1, <1>3, <1>entry, <1>types, <2>1 DEF Beats, Precedes
    <2>3. CASE q = r
      BY <2>2, <2>3
    <2>4. CASE q < r
      <3>1. Precedes(top[q], top[r])
        BY <1>6, <2>1, <2>4
      <3> QED
        BY <1>entry, <2>1, <2>2, <3>1, PrecedesTransitive
    <2> QED
      BY <2>1, <2>3, <2>4
  <1>10. TopTypeOK'
    BY <1>1, <1>2, <1>4 DEF TopTypeOK
  <1>11. \A r \in 1 .. n :
           IF r <= Held'
           THEN top'[r].token \in 0 .. scanned /\ top'[r].logit = logits[top'[r].token + 1]
           ELSE top'[r] = Filler
    <2> SUFFICES ASSUME NEW r \in 1 .. n
                 PROVE  IF r <= Held'
                        THEN /\ top'[r].token \in 0 .. scanned
                             /\ top'[r].logit = logits[top'[r].token + 1]
                        ELSE top'[r] = Filler
      OBVIOUS
    <2>1. CASE r < q
      <3>1. top'[r] = top[r]
        BY <1>4, <2>1
      <3>2. r \in 1 .. Held /\ r <= Held'
        BY <1>1, <1>3, <1>5, <1>7, <2>1
      <3>3. top[r].token \in 0 .. scanned - 1 /\ top[r].logit = logits[top[r].token + 1]
        BY <1>6, <3>2
      <3>4. 0 .. scanned - 1 \subseteq 0 .. scanned
        BY <1>1
      <3> QED
        BY <3>1, <3>2, <3>3, <3>4
    <2>2. CASE r = q
      BY <1>1, <1>4, <1>5, <1>7, <2>2 DEF e, l
    <2>3. CASE r > q
      <3>0. r - 1 \in 1 .. n
        BY <1>1, <1>3, <2>3
      <3>1. r - 1 \in 1 .. n /\ top'[r] = top[r - 1]
        <4>1. r \in Int /\ q \in Int /\ ~(r < q) /\ r # q
          BY <1>1, <1>3, <2>3
        <4> QED
          BY <1>4, <3>0, <4>1, Zenon
      <3>2. CASE r <= Held'
        <4>1. r - 1 \in 1 .. Held
          BY <1>1, <1>3, <1>5, <2>3, <3>2
        <4> QED
          BY <1>1, <1>6, <3>1, <3>2, <4>1
      <3>3. CASE r > Held'
        <4>1. r - 1 > Held
          BY <1>1, <1>3, <1>5, <1>7, <2>3, <3>3
        <4> QED
          BY <1>1, <1>5, <1>6, <3>1, <3>3, <4>1
      <3> QED
        BY <1>1, <1>5, <3>2, <3>3
    <2> QED
      BY <1>3, <2>1, <2>2, <2>3
  <1>12. \A r, s \in 1 .. Held' : r < s => Precedes(top'[r], top'[s])
    <2> SUFFICES ASSUME NEW r \in 1 .. Held', NEW s \in 1 .. Held', r < s
                 PROVE  Precedes(top'[r], top'[s])
      OBVIOUS
    <2>0. r \in 1 .. n /\ s \in 1 .. n
      BY <1>5
    <2>1. CASE s < q
      BY <1>4, <1>5, <1>6, <1>7, <2>0, <2>1
    <2>2. CASE s = q
      BY <1>4, <1>8, <2>0, <2>2
    <2>3. CASE s > q /\ r < q
      BY <1>4, <1>5, <1>6, <1>7, <2>0, <2>3
    <2>4. CASE s > q /\ r = q
      BY <1>4, <1>5, <1>9, <2>0, <2>4
    <2>5. CASE s > q /\ r > q
      <3>1. r - 1 \in 1 .. Held /\ s - 1 \in 1 .. Held /\ r - 1 < s - 1
        BY <1>1, <1>3, <1>5, <2>0, <2>5
      <3>2. Precedes(top[r - 1], top[s - 1])
        BY <1>6, <3>1
      <3>3. top'[r] = top[r - 1] /\ top'[s] = top[s - 1]
        BY <1>3, <1>4, <2>0, <2>5
      <3> QED
        BY <3>2, <3>3
    <2> QED
      BY <1>3, <2>1, <2>2, <2>3, <2>4, <2>5
  <1>13. ASSUME NEW t \in 0 .. scanned
         PROVE  \/ \E r \in 1 .. Held' : top'[r].token = t
                \/ /\ Held' = n
                   /\ \A r \in 1 .. Held' :
                        Precedes(top'[r], [token |-> t, logit |-> logits[t + 1]])
    <2> DEFINE x == [token |-> t, logit |-> logits[t + 1]]
    <2>1. CASE t = scanned /\ q <= n
      <3>1. q \in 1 .. Held' /\ top'[q] = e
        BY <1>3, <1>4, <1>5, <1>7, <2>1
      <3> QED
        BY <2>1, <3>1 DEF e
    <2>2. CASE t = scanned /\ q > n
      BY SMTT(20), <1>3, <1>4, <1>5, <1>7, <1>8, <2>2 DEF e, l
    <2>3. CASE t # scanned /\ \E r \in 1 .. Held : top[r].token = t
      <3>1. PICK r \in 1 .. Held : top[r].token = t
        BY <2>3
      <3>2. CASE r < q
        <4>1. r \in 1 .. Held' /\ top'[r] = top[r]
          BY <1>3, <1>4, <1>5, <3>1, <3>2
        <4> QED
          BY <3>1, <4>1
      <3>3. CASE r >= q /\ r < n
        <4>1. r + 1 \in 1 .. Held' /\ top'[r + 1] = top[r]
          BY <1>3, <1>4, <1>5, <3>3
        <4> QED
          BY <3>1, <4>1
      <3>4. CASE r >= q /\ r = n
        <4>1. Held = n /\ Held' = n
          BY <1>5, <3>4
        <4>2. top[n].token = t /\ top[n].logit = logits[t + 1]
          BY <1>6, <3>1, <3>4
        <4>same. \A a : Precedes(a, top[n]) => Precedes(a, x)
          BY <4>2 DEF Precedes
        <4>3. ASSUME NEW s \in 1 .. n PROVE Precedes(top'[s], x)
          <5>1. CASE s < q
            BY <1>4, <1>6, <3>4, <4>1, <4>same, <5>1
          <5>2. CASE s = q
            BY <1>4, <1>9, <3>4, <4>1, <4>same, <5>2
          <5>3. CASE s > q
            <6>1. s - 1 \in 1 .. n /\ s - 1 < n
              BY <1>1, <1>3, <5>3
            <6>2. top'[s] = top[s - 1]
              BY <1>1, <1>3, <1>4, <5>3
            <6>3. n \in 1 .. n /\ Precedes(top[s - 1], top[n])
              BY <1>1, <1>6, <4>1, <6>1
            <6> QED
              BY <4>same, <6>2, <6>3
          <5> QED
            BY <1>3, <5>1, <5>2, <5>3
        <4> QED
          BY <4>1, <4>3
      <3> QED
        BY <1>3, <1>5, <3>2, <3>3, <3>4
    <2>4. CASE t # scanned /\ Held = n /\ \A r \in 1 .. Held : Precedes(top[r], x)
      <3>1. Held' = n /\ x \in Entry
        <4>1. t \in Nat /\ t + 1 \in 1 .. Len(logits)
          BY <1>1
        <4>2. logits[t + 1] \in Logits
          BY <1>1, <4>1
        <4>3. x \in Entry
          BY <4>1, <4>2, TopTokensAssumption DEF Entry
        <4>4. Held' = n
          BY <1>1, <1>5, <2>4
        <4> QED
          BY <4>3, <4>4, Zenon
      <3>2. ASSUME NEW s \in 1 .. n PROVE Precedes(top'[s], x)
        <4>1. CASE s < q
          BY <1>4, <2>4, <4>1
        <4>2. CASE s = q
          <5>1. Precedes(e, top[q]) /\ Precedes(top[q], x) /\ top'[s] = e
            BY <1>4, <1>9, <2>4, <4>2
          <5>2. top[q] \in Entry /\ e \in Entry
            BY <1>entry, <4>2
          <5> QED
            BY <3>1, <5>1, <5>2, PrecedesTransitive
        <4>3. CASE s > q
          <5>1. s - 1 \in 1 .. Held
            BY <1>1, <1>3, <2>4, <4>3
          <5>2. top'[s] = top[s - 1]
            BY <1>1, <1>3, <1>4, <4>3
          <5> QED
            BY <2>4, <5>1, <5>2
        <4> QED
          BY <1>3, <4>1, <4>2, <4>3
      <3> QED
        BY <3>1, <3>2
    <2>5. t # scanned => t \in 0 .. scanned - 1
      BY <1>1
    <2> QED
      BY <1>3, <1>6, <2>1, <2>2, <2>3, <2>4, <2>5
  <1> QED
    <2>1. \A t \in 0 .. scanned' - 1 : t \in 0 .. scanned
      BY <1>1, <1>2
    <2>2. 0 .. scanned' - 1 = 0 .. scanned
      BY <1>1, <1>2
    <2> QED
      BY <1>2, <1>4, <1>10, <1>11, <1>12, <1>13, <2>2 DEF TopInv, TopIsBest

(* For every vocabulary and every length of the list, the list holds the   *)
(* best tokens scanned so far, earlier tokens first among equal logits     *)
(* (the insertion of qx_reduce_final_head_logits).                         *)
THEOREM SpecTopIsBest == TopSpec => []TopIsBest
  <1>1. TopInit => TopInv
    BY InitTopInv
  <1>2. TopInv /\ [TopNext]_topVars => TopInv'
    <2>1. TopInv /\ UNCHANGED topVars => TopInv'
      BY DEF TopInv, TopTypeOK, TopIsBest, Held, topVars
    <2> QED
      BY <2>1, ScanTopInv DEF TopNext
  <1>3. TopInv => TopIsBest
    BY DEF TopInv
  <1> QED
    BY <1>1, <1>2, <1>3, PTL DEF TopSpec

-----------------------------------------------------------------------------
(* The limit of the merge loop is never reached, for every tokenizer, text *)
(* and capacity.  A pass over c symbols looks up c - 1 pairs and leaves    *)
(* one symbol less, so that 2 work + c (c - 1) never grows.                *)

IsSequence(s) == Len(s) \in Nat /\ s = [i \in 1 .. Len(s) |-> s[i]]

MergeBudget ==
  /\ text \in Seq(Chars)
  /\ encoding # "BPE work limit exceeded"
  /\ encoding = "merge" =>
       /\ chunk \in Nat /\ work \in Nat
       /\ IsSequence(symbols) /\ Len(symbols) >= 1
       /\ 2 * work + Len(symbols) * (Len(symbols) - 1) <= chunk * (chunk - 1)

(* A function over 1 .. n is a sequence of length n.                       *)
LEMMA FunctionIsSequence ==
  ASSUME NEW n \in Nat, NEW s, s = [i \in 1 .. n |-> s[i]]
  PROVE  Len(s) = n /\ IsSequence(s)
  <1> DEFINE R == { s[i] : i \in 1 .. n }
  <1>1. s \in [1 .. n -> R]
    OBVIOUS
  <1>2. s \in Seq(R) /\ Len(s) = n
    <2> HIDE DEF R
    <2> QED
      BY <1>1
  <1> QED
    BY <1>2 DEF IsSequence

(* One pass pays for itself with the symbol it removes.                    *)
LEMMA PassPays ==
  ASSUME NEW c \in Nat, NEW w \in Nat, c >= 2
  PROVE  /\ 2 * (w + (c - 1)) + (c - 1) * (c - 2) = 2 * w + c * (c - 1)
         /\ 2 * (w + (c - 1)) <= 2 * w + c * (c - 1)
  <1>1. c * (c - 1) = (c - 1) * (c - 2) + 2 * (c - 1)
    OBVIOUS
  <1>2. (c - 1) * (c - 2) >= 0
    <2>1. c - 1 \in Nat /\ c - 2 \in Nat
      OBVIOUS
    <2>2. \A a, b \in Nat : a * b >= 0
      OBVIOUS
    <2> QED
      BY <2>1, <2>2
  <1>3. c * (c - 1) \in Int /\ (c - 1) * (c - 2) \in Int
    OBVIOUS
  <1> QED
    BY <1>1, <1>2, <1>3

LEMMA InitMergeBudget == EncodeInit => MergeBudget
  <1> SUFFICES ASSUME EncodeInit PROVE MergeBudget
    OBVIOUS
  <1>1. PICK n \in 0 .. MaxText : text \in [1 .. n -> Chars]
    BY DEF EncodeInit, Texts
  <1>2. n \in Nat
    BY TokenizerAssumption
  <1>3. text \in Seq(Chars)
    BY <1>1, <1>2
  <1> QED
    BY <1>3 DEF EncodeInit, MergeBudget

(* Every pair of symbols looked up is within the limit.                    *)
LEMMA NothingExceeds ==
  ASSUME MergeBudget, encoding = "merge", Pairs > 0
  PROVE  ~ExceedsLimit(work + Pairs)
  <1>1. /\ Len(symbols) \in Nat /\ work \in Nat /\ chunk \in Nat
        /\ 2 * work + Len(symbols) * (Len(symbols) - 1) <= chunk * (chunk - 1)
    BY DEF MergeBudget, IsSequence
  <1>2. Len(symbols) >= 2 /\ Pairs = Len(symbols) - 1
    BY <1>1 DEF Pairs
  <1>3. 2 * (work + Pairs) <= 2 * work + Len(symbols) * (Len(symbols) - 1)
    BY <1>1, <1>2, PassPays
  <1>4. /\ Len(symbols) * (Len(symbols) - 1) \in Int
        /\ chunk * (chunk - 1) \in Int /\ Pairs \in Int
    BY <1>1, <1>2
  <1> QED
    BY <1>1, <1>3, <1>4 DEF ExceedsLimit

LEMMA StepMergeBudget == MergeBudget /\ [EncodeNext]_tokenizerVars => MergeBudget'
  <1> SUFFICES ASSUME MergeBudget, [EncodeNext]_tokenizerVars PROVE MergeBudget'
    OBVIOUS
  <1>0. text' = text
    BY DEF EncodeNext, BeginText, TakeSpecial, StartChunk, RefuseChunk, MergePass,
           EmitSymbol, EndChunk, EndText, Mark, Fail, tokenizerVars
  <1>1. CASE BeginText
    BY <1>0, <1>1 DEF BeginText, Mark, Fail, MergeBudget
  <1>2. CASE TakeSpecial
    BY <1>0, <1>2 DEF TakeSpecial, Fail, MergeBudget
  <1>3. CASE StartChunk
    <2>1. PICK n \in 1 .. Len(text) :
            chunk' = n /\ symbols' = [i \in 1 .. n |-> <<text[offset + i]>>]
      BY <1>3 DEF StartChunk
    <2>2. n \in Nat /\ n >= 1
      <3>1. text \in Seq(Chars)
        BY DEF MergeBudget
      <3>2. Len(text) \in Nat
        BY <3>1
      <3> QED
        BY <3>2
    <2>3. symbols' = [i \in 1 .. n |-> symbols'[i]]
      BY <2>1
    <2>4. Len(symbols') = n /\ IsSequence(symbols')
      BY <2>2, <2>3, FunctionIsSequence
    <2>5. work' = 0 /\ encoding' = "merge"
      BY <1>3 DEF StartChunk
    <2>6. chunk' \in Nat /\ work' \in Nat /\ Len(symbols') >= 1
      BY <2>1, <2>2, <2>4, <2>5
    <2>7. 2 * work' + Len(symbols') * (Len(symbols') - 1) <= chunk' * (chunk' - 1)
      <3>1. chunk' = n /\ Len(symbols') = n /\ work' = 0
        BY <2>1, <2>4, <2>5
      <3>2. 2 * 0 + n * (n - 1) <= n * (n - 1)
        BY <2>2
      <3> QED
        BY <3>1, <3>2
    <2> QED
      BY <1>0, <2>4, <2>5, <2>6, <2>7 DEF MergeBudget
  <1>4. CASE RefuseChunk
    BY <1>0, <1>4 DEF RefuseChunk, Fail, MergeBudget
  <1>5. CASE MergePass
    <2>1. ~(Pairs > 0 /\ ExceedsLimit(work + Pairs))
      BY <1>5, NothingExceeds DEF MergePass
    <2>2. CASE Mergeable = {}
      BY <1>0, <1>5, <2>1, <2>2 DEF MergePass, MergeBudget
    <2>3. CASE Mergeable # {}
      <3>0. /\ encoding = "merge" /\ work' = work + Pairs
            /\ symbols' = MergedAt(BestPlace)
            /\ chunk' = chunk /\ encoding' = encoding
        BY <1>5, <2>1, <2>3 DEF MergePass
      <3> DEFINE c == Len(symbols)
      <3>1. /\ c \in Nat /\ c >= 1 /\ work \in Nat /\ chunk \in Nat
            /\ 2 * work + c * (c - 1) <= chunk * (chunk - 1)
        BY <3>0 DEF MergeBudget, IsSequence
      <3>2. PICK i : i \in 1 .. c - 1
        BY <2>3 DEF Mergeable
      <3>3. c >= 2 /\ c - 1 \in Nat
        BY <3>1, <3>2
      <3>4. symbols' = [j \in 1 .. c - 1 |-> symbols'[j]]
        <4>1. symbols' = MergedAt(BestPlace)
          BY <3>0
        <4> DEFINE f == MergedAt(BestPlace)
        <4>2. f = [j \in 1 .. c - 1 |-> f[j]]
          BY DEF MergedAt
        <4> QED
          BY <4>1, <4>2
      <3>5. Len(symbols') = c - 1 /\ IsSequence(symbols')
        BY <3>3, <3>4, FunctionIsSequence
      <3>6. work' = work + (c - 1) /\ chunk' = chunk /\ encoding' = "merge"
        BY <3>0 DEF Pairs
      <3>7. 2 * (work + (c - 1)) + (c - 1) * (c - 2) = 2 * work + c * (c - 1)
        BY <3>1, <3>3, PassPays
      <3> HIDE DEF c
      <3>8. work' \in Nat /\ (c - 1) - 1 = c - 2
        BY <3>1, <3>3, <3>6
      <3>9. 2 * work' + Len(symbols') * (Len(symbols') - 1) <= chunk' * (chunk' - 1)
        BY <3>1, <3>5, <3>6, <3>7, <3>8
      <3>10. Len(symbols') >= 1
        BY <3>1, <3>3, <3>5
      <3> QED
        BY <1>0, <3>1, <3>5, <3>6, <3>8, <3>9, <3>10 DEF MergeBudget
    <2> QED
      BY <2>2, <2>3
  <1>6. CASE EmitSymbol
    BY <1>0, <1>6 DEF EmitSymbol, Fail, MergeBudget
  <1>7. CASE EndChunk
    BY <1>0, <1>7 DEF EndChunk, MergeBudget
  <1>8. CASE EndText
    BY <1>0, <1>8 DEF EndText, Mark, Fail, MergeBudget
  <1>9. CASE UNCHANGED tokenizerVars
    BY <1>9 DEF MergeBudget, IsSequence, tokenizerVars
  <1> QED
    BY <1>1, <1>2, <1>3, <1>4, <1>5, <1>6, <1>7, <1>8, <1>9
       DEF EncodeNext

(* The merge loop of qx_tok_bpe_chunk never gives up: its limit admits     *)
(* every chunk, of any length and with any table of merges.                *)
THEOREM SpecNeverGivesUp == EncodeSpec => []NeverGivesUp
  <1>1. EncodeInit => MergeBudget
    BY InitMergeBudget
  <1>2. MergeBudget /\ [EncodeNext]_tokenizerVars => MergeBudget'
    BY StepMergeBudget
  <1>3. MergeBudget => NeverGivesUp
    BY DEF MergeBudget, NeverGivesUp
  <1> QED
    BY <1>1, <1>2, <1>3, PTL DEF EncodeSpec

-----------------------------------------------------------------------------
(* The buffers of a call are where its plan has them, for every width of a *)
(* size_t, every alignment and all dimensions.  The plan and the buffers   *)
(* are placed by the same sums, so that the block that holds the plan is   *)
(* never moved while the buffers are taken.                                *)

Needs == [count : Nat, size : Nat \ {0}]
Buffers == [block : Nat, from : Nat, to : Nat]

Complete == \A i \in 1 .. Len(buffers) : buffers[i] # NULL

(* Types, and which of them a phase fixes; when there is a plan, it is for *)
(* the buffers that are taken.                                             *)
ScratchTypes ==
  /\ phase \in {"idle", "plan", "take", "use"}
  /\ planned \in Seq(Needs) /\ needs \in Seq(Needs)
  /\ plan \in Seq(Nat) /\ Len(plan) >= 1 /\ plan[1] = 0
  /\ buffers \in Seq(Buffers)
  /\ block \in Nat /\ capacity \in Nat /\ used \in Nat
  /\ phase = "idle" => plan = <<0>> /\ buffers = <<>> /\ planned = <<>>
  /\ phase = "plan" => buffers = <<>> /\ planned = needs /\ used = 0
  /\ phase = "take" => planned = needs \/ (Len(needs) = 1 /\ plan = <<0>>)
  /\ Len(buffers) <= Len(needs)

(* The plan follows the buffers one by one.                                *)
PlanInv ==
  /\ Len(plan) <= Len(planned) + 1
  /\ \A i \in 1 .. Len(plan) - 1 : plan[i + 1] = EndBehind(plan[i], planned[i])
  /\ \A i, j \in 1 .. Len(plan) : i <= j => plan[i] <= plan[j]

(* Buffers are taken where the plan has them, in a block that holds all.   *)
TakeInv ==
  phase = "take" /\ Len(needs) > 1 =>
    /\ planned = needs /\ Len(plan) = Len(needs) + 1
    /\ plan[Len(plan)] <= capacity
    /\ Complete => used = plan[Len(buffers) + 1]

LiveInv ==
  phase \in {"take", "use"} /\ Complete =>
    \A i \in 1 .. Len(buffers) :
      /\ buffers[i].block = block
      /\ buffers[i].to <= capacity /\ buffers[i].to <= used
      /\ buffers[i].to - buffers[i].from = Bytes(needs[i])
      /\ \A j \in 1 .. i - 1 : buffers[j].to <= buffers[i].from

(* A call goes on only when it got them all.                               *)
UseInv == phase = "use" => Complete

ScratchInv == ScratchTypes /\ PlanInv /\ TakeInv /\ LiveInv /\ UseInv

LEMMA AlignedUpIsBehind ==
  ASSUME NEW c \in Nat
  PROVE  AlignedUp(c) \in Nat /\ c <= AlignedUp(c)
  <1>1. Alignment \in Nat /\ Alignment > 0
    BY ScratchAssumption
  <1> DEFINE sum == c + (Alignment - 1)
  <1>2. sum \in Nat
    BY <1>1
  <1>3. sum % Alignment \in 0 .. Alignment - 1
    <2> HIDE DEF sum
    <2> QED
      BY <1>1, <1>2
  <1> QED
    BY <1>1, <1>2, <1>3 DEF AlignedUp

LEMMA BytesIsNat ==
  ASSUME NEW need \in Needs
  PROVE  Bytes(need) \in Nat
  <1>1. need.count \in Nat /\ need.size \in Nat
    BY DEF Needs
  <1>2. \A a, b \in Nat : a * b \in Nat
    OBVIOUS
  <1> QED
    BY <1>1, <1>2 DEF Bytes

LEMMA EndIsBehind ==
  ASSUME NEW c \in Nat, NEW need \in Needs
  PROVE  /\ EndBehind(c, need) \in Nat
         /\ EndBehind(c, need) - AlignedUp(c) = Bytes(need)
         /\ c <= EndBehind(c, need) /\ AlignedUp(c) <= EndBehind(c, need)
  BY AlignedUpIsBehind, BytesIsNat DEF EndBehind

(* Both lists of attention are well formed, and the one of a MoE layer.    *)
LEMMA CallNeeds ==
  ASSUME NEW q \in Dims, NEW o \in Dims, NEW s \in Dims
  PROVE  /\ AttentionPlan(q, o, s) \in Seq(Needs)
         /\ AttentionBuffers(q, o, s) = AttentionPlan(q, o, s)
         /\ MoeBuffers(q, o) \in Seq(Needs) /\ Len(MoeBuffers(q, o)) = 1
  <1>1. /\ q \in Nat /\ o \in Nat /\ s \in Nat
        /\ FloatSize \in Nat \ {0} /\ DoubleSize \in Nat \ {0}
    BY ScratchAssumption
  <1>2. /\ Vector(q, 1) \in Needs /\ Vector(o, 1) \in Needs
        /\ Vector(q, FloatSize) \in Needs /\ Vector(s, DoubleSize) \in Needs
    BY <1>1 DEF Vector, Needs
  <1>3. 4 * q + 3 * o \in Nat
    BY <1>1
  <1>4. Vector(4 * q + 3 * o, FloatSize) \in Needs
    BY <1>1, <1>3 DEF Vector, Needs
  <1>5. AttentionBuffers(q, o, s) = AttentionPlan(q, o, s)
    BY DEF AttentionBuffers, AttentionPlan
  <1>6. AttentionPlan(q, o, s) \in Seq(Needs)
    BY <1>2 DEF AttentionPlan
  <1>7. MoeBuffers(q, o) \in Seq(Needs) /\ Len(MoeBuffers(q, o)) = 1
    BY <1>4 DEF MoeBuffers
  <1> QED
    BY <1>5, <1>6, <1>7

LEMMA GrowFits ==
  ASSUME NEW required \in Nat, ScratchTypes, Grow(required)
  PROVE  block' \in Nat /\ capacity' \in Nat /\ required <= capacity' /\ capacity <= capacity'
  <1>1. Capacities \subseteq Nat
    BY ScratchAssumption
  <1> QED
    BY <1>1 DEF Grow, ScratchTypes

LEMMA InitScratchInv == ScratchInit => ScratchInv
  BY DEF ScratchInit, ScratchInv, ScratchTypes, PlanInv, TakeInv, LiveInv, UseInv

LEMMA ReturnScratchInv == ScratchInv /\ Return => ScratchInv'
  BY DEF Return, ScratchInv, ScratchTypes, PlanInv, TakeInv, LiveInv, UseInv

LEMMA StepScratchInv == ScratchInv /\ [ScratchNext]_scratchVars => ScratchInv'
  <1> SUFFICES ASSUME ScratchInv, [ScratchNext]_scratchVars PROVE ScratchInv'
    OBVIOUS
  <1> USE DEF ScratchInv
  <1>1. CASE BeginAttention
    <2>1. PICK q, o, s \in Dims :
            planned' = AttentionPlan(q, o, s) /\ needs' = AttentionBuffers(q, o, s)
      BY <1>1 DEF BeginAttention
    <2>2. planned' \in Seq(Needs) /\ needs' = planned'
      BY <2>1, CallNeeds
    <2>3. /\ phase' = "plan" /\ used' = 0 /\ plan' = <<0>> /\ buffers' = <<>>
          /\ block' \in Nat /\ capacity' \in Nat
      BY <1>1 DEF BeginAttention, ScratchTypes
    <2> QED
      BY <2>2, <2>3 DEF ScratchTypes, PlanInv, TakeInv, LiveInv, UseInv
  <1>2. CASE BeginMoe
    <2>1. PICK h, i \in Dims : needs' = MoeBuffers(h, i)
      BY <1>2 DEF BeginMoe
    <2>2. needs' \in Seq(Needs) /\ Len(needs') = 1
      BY <2>1, CallNeeds
    <2>3. /\ phase' = "take" /\ used' = 0 /\ plan' = <<0>> /\ buffers' = <<>>
          /\ planned' = <<>> /\ block' \in Nat /\ capacity' \in Nat
      BY <1>2 DEF BeginMoe, ScratchTypes
    <2> QED
      BY <2>2, <2>3 DEF ScratchTypes, PlanInv, TakeInv, LiveInv, UseInv
  <1>3. CASE PlanNext
    <2>1. CASE ~FitsBehind(Cursor, planned[Len(plan)])
      BY <1>3, <2>1, ReturnScratchInv DEF PlanNext
    <2>2. CASE FitsBehind(Cursor, planned[Len(plan)])
      <3> DEFINE n == Len(plan)
                 end == EndBehind(plan[n], planned[n])
      <3>1. /\ n \in Nat /\ n >= 1 /\ n <= Len(planned) /\ plan[n] \in Nat
            /\ planned[n] \in Needs /\ phase = "plan"
        BY <1>3 DEF PlanNext, ScratchTypes
      <3>2. /\ plan' = Append(plan, end)
            /\ UNCHANGED <<phase, planned, needs, buffers, block, capacity, used>>
        BY <1>3, <2>2 DEF PlanNext, Cursor
      <3>3. end \in Nat /\ plan[n] <= end
        BY <3>1, EndIsBehind
      <3> HIDE DEF end
      <3>4. /\ plan' \in Seq(Nat) /\ Len(plan') = n + 1
            /\ plan'[n + 1] = end /\ \A i \in 1 .. n : plan'[i] = plan[i]
        BY <3>1, <3>2, <3>3 DEF ScratchTypes
      <3>5. ScratchTypes'
        BY <3>1, <3>2, <3>4 DEF ScratchTypes
      <3>6. PlanInv'
        <4>1. \A i \in 1 .. n : plan'[i + 1] = EndBehind(plan'[i], planned'[i])
          BY <3>1, <3>2, <3>4 DEF PlanInv, end
        <4>2. \A i, j \in 1 .. n + 1 : i <= j => plan'[i] <= plan'[j]
          <5>1. \A i \in 1 .. n : plan[i] \in Nat /\ plan[i] <= plan[n]
            BY <3>1 DEF PlanInv, ScratchTypes
          <5>2. \A i, j \in 1 .. n : i <= j => plan[i] <= plan[j]
            BY <3>1 DEF PlanInv
          <5> SUFFICES ASSUME NEW i \in 1 .. n + 1, NEW j \in 1 .. n + 1, i <= j
                       PROVE  plan'[i] <= plan'[j]
            OBVIOUS
          <5>3. CASE j \in 1 .. n
            <6>1. i \in 1 .. n
              BY <3>1, <5>3
            <6> QED
              BY <3>4, <5>2, <5>3, <6>1
          <5>4. CASE j = n + 1 /\ i \in 1 .. n
            <6>1. plan'[i] = plan[i] /\ plan'[j] = end
              BY <3>4, <5>4
            <6> QED
              BY <3>1, <3>3, <5>1, <5>4, <6>1
          <5>5. CASE j = n + 1 /\ i = n + 1
            BY <3>3, <3>4, <5>5
          <5> QED
            BY <3>1, <5>3, <5>4, <5>5
        <4>3. Len(plan') = n + 1 /\ Len(plan') - 1 = n /\ n <= Len(planned')
          BY <3>1, <3>2, <3>4
        <4>4. Len(planned') \in Nat
          BY <3>2 DEF ScratchTypes
        <4> HIDE DEF n
        <4> QED
          BY <3>1, <4>1, <4>2, <4>3, <4>4 DEF PlanInv
      <3> QED
        BY <3>1, <3>2, <3>5, <3>6 DEF TakeInv, LiveInv, UseInv
    <2> QED
      BY <2>1, <2>2
  <1>4. CASE Reserve
    <2>1. /\ phase = "plan" /\ phase' = "take" /\ Len(plan) > Len(planned)
          /\ UNCHANGED <<planned, plan, needs, buffers, used>>
      BY <1>4 DEF Reserve
    <2>2. Len(plan) = Len(needs) + 1 /\ Cursor \in Nat /\ planned = needs
      BY <2>1 DEF ScratchTypes, PlanInv, Cursor
    <2>3. block' \in Nat /\ capacity' \in Nat /\ Cursor <= capacity'
      <3>1. CASE Grow(Cursor)
        BY <2>2, <3>1, GrowFits
      <3>2. CASE Cursor <= capacity /\ UNCHANGED <<block, capacity>>
        BY <3>2 DEF ScratchTypes
      <3> QED
        BY <1>4, <3>1, <3>2 DEF Reserve
    <2>4. ScratchTypes'
      BY <2>1, <2>2, <2>3 DEF ScratchTypes
    <2>5. PlanInv'
      BY <2>1 DEF PlanInv
    <2>6. TakeInv' /\ LiveInv' /\ UseInv'
      BY <2>1, <2>2, <2>3 DEF ScratchTypes, TakeInv, LiveInv, UseInv, Cursor
    <2> QED
      BY <2>4, <2>5, <2>6
  <1>5. CASE ReserveFails
    BY <1>5, ReturnScratchInv DEF ReserveFails
  <1>6. CASE Take
    <2> DEFINE k == Len(buffers)
               from == AlignedUp(used)
               end == EndBehind(used, needs[k + 1])
               new == [block |-> block', from |-> from, to |-> end]
    <2>1. /\ phase = "take" /\ k \in Nat /\ k < Len(needs) /\ Len(needs) \in Nat
          /\ buffers' = Append(buffers, new) /\ used' = end
          /\ UNCHANGED <<phase, planned, plan, needs>>
      BY <1>6 DEF Take, Wanted, ScratchTypes
    <2>2. needs[k + 1] \in Needs /\ used \in Nat
      BY <2>1 DEF ScratchTypes
    <2>3. /\ from \in Nat /\ end \in Nat /\ used <= from /\ used <= end
          /\ end - from = Bytes(needs[k + 1])
      BY <2>2, AlignedUpIsBehind, EndIsBehind
    <2>4. /\ block' \in Nat /\ capacity' \in Nat /\ end <= capacity'
          /\ capacity <= capacity'
          /\ (block' = block /\ capacity' = capacity) \/ end > capacity
      <3>1. CASE Grow(end)
        <4>1. end > capacity
          BY <3>1 DEF Grow
        <4> HIDE DEF end
        <4> QED
          BY <2>3, <3>1, <4>1, GrowFits
      <3>2. CASE end <= capacity /\ UNCHANGED <<block, capacity>>
        BY <3>2 DEF ScratchTypes
      <3> QED
        BY <1>6, <3>1, <3>2 DEF Take, Wanted
    <2>6. Len(needs) > 1 /\ Complete => end = plan[k + 2] /\ end <= capacity
      <3> SUFFICES ASSUME Len(needs) > 1, Complete
                   PROVE  end = plan[k + 2] /\ end <= capacity
        OBVIOUS
      <3>1. /\ planned = needs /\ Len(plan) = Len(needs) + 1
            /\ plan[Len(plan)] <= capacity /\ used = plan[k + 1]
        BY <2>1 DEF TakeInv
      <3>2. plan[k + 2] = end
        BY <2>1, <3>1 DEF PlanInv
      <3>3. plan[k + 2] <= plan[Len(plan)]
        BY <2>1, <3>1 DEF PlanInv
      <3>4. plan[Len(plan)] \in Nat
        BY <2>1, <3>1 DEF ScratchTypes
      <3> HIDE DEF end
      <3> QED
        BY <2>3, <3>1, <3>2, <3>3, <3>4 DEF ScratchTypes
    <2> HIDE DEF end, from
    <2>7. new \in Buffers
      BY <2>3, <2>4 DEF Buffers
    <2>8. /\ buffers' \in Seq(Buffers) /\ Len(buffers') = k + 1
          /\ buffers'[k + 1] = new /\ \A i \in 1 .. k : buffers'[i] = buffers[i]
      BY <2>1, <2>7 DEF ScratchTypes
    <2>5. Complete' => Complete
      <3> SUFFICES ASSUME Complete', NEW i \in 1 .. k PROVE buffers[i] # NULL
        BY DEF Complete
      <3>1. i \in 1 .. k + 1
        BY <2>1
      <3> QED
        BY <2>8, <3>1 DEF Complete
    <2>9. ScratchTypes'
      BY <2>1, <2>3, <2>4, <2>8 DEF ScratchTypes
    <2>10. PlanInv'
      BY <2>1 DEF PlanInv
    <2>11. TakeInv'
      <3> SUFFICES ASSUME Len(needs) > 1
                   PROVE  /\ planned' = needs' /\ Len(plan') = Len(needs') + 1
                          /\ plan'[Len(plan')] <= capacity'
                          /\ Complete' => used' = plan'[Len(buffers') + 1]
        BY <2>1 DEF TakeInv
      <3>1. planned' = needs' /\ Len(plan') = Len(needs') + 1
        BY <2>1 DEF TakeInv
      <3>2. plan'[Len(plan')] <= capacity'
        <4>1. plan[Len(plan)] \in Nat /\ plan[Len(plan)] <= capacity /\ capacity \in Nat
          BY <2>1 DEF TakeInv, ScratchTypes
        <4> QED
          BY <2>1, <2>4, <4>1
      <3>3. Complete' => used' = plan'[Len(buffers') + 1]
        BY <2>1, <2>5, <2>6, <2>8
      <3> QED
        BY <3>1, <3>2, <3>3
    <2>12. LiveInv'
      <3> SUFFICES ASSUME Complete', NEW i \in 1 .. k + 1
                   PROVE  /\ buffers'[i].block = block'
                          /\ buffers'[i].to <= capacity' /\ buffers'[i].to <= used'
                          /\ buffers'[i].to - buffers'[i].from = Bytes(needs'[i])
                          /\ \A j \in 1 .. i - 1 : buffers'[j].to <= buffers'[i].from
        BY <2>8 DEF LiveInv
      <3>1. Complete
        BY <2>5
      <3>2. \A j \in 1 .. k :
              /\ buffers[j] \in Buffers /\ buffers[j].block = block
              /\ buffers[j].to <= capacity /\ buffers[j].to <= used
              /\ buffers[j].to - buffers[j].from = Bytes(needs[j])
              /\ \A m \in 1 .. j - 1 : buffers[m].to <= buffers[j].from
        BY <2>1, <3>1 DEF LiveInv, ScratchTypes
      <3>3. CASE i = k + 1
        <4>1. \A j \in 1 .. k : buffers'[j].to \in Nat /\ buffers'[j].to <= from
          <5> SUFFICES ASSUME NEW j \in 1 .. k
                       PROVE  buffers'[j].to \in Nat /\ buffers'[j].to <= from
            OBVIOUS
          <5>1. buffers[j] \in Buffers /\ buffers[j].to <= used
            BY <3>2
          <5>2. buffers[j].to \in Nat
            BY <5>1 DEF Buffers
          <5>3. buffers'[j] = buffers[j]
            BY <2>8
          <5> QED
            BY <2>2, <2>3, <5>1, <5>2, <5>3
        <4>2. buffers'[i] = new /\ needs' = needs
          BY <2>1, <2>8, <3>3
        <4> QED
          BY <2>1, <2>3, <2>4, <3>3, <4>1, <4>2
      <3>4. CASE i \in 1 .. k
        <4>1. Len(needs) > 1
          BY <2>1, <3>4
        <4>2. block' = block /\ capacity' = capacity
          BY <2>3, <2>4, <2>6, <3>1, <4>1 DEF ScratchTypes
        <4>3. buffers'[i] = buffers[i] /\ buffers[i].to \in Nat /\ used \in Nat
          BY <2>2, <2>8, <3>2, <3>4 DEF Buffers
        <4>4. buffers[i].to <= used'
          BY <2>1, <2>3, <3>2, <3>4, <4>3
        <4>5. \A j \in 1 .. i - 1 : buffers'[j] = buffers[j]
          BY <2>1, <2>8, <3>4
        <4> QED
          BY <2>1, <3>2, <3>4, <4>2, <4>3, <4>4, <4>5
      <3> QED
        BY <2>1, <3>3, <3>4
    <2> QED
      BY <2>1, <2>9, <2>10, <2>11, <2>12 DEF UseInv
  <1>7. CASE TakeFails
    <2>1. /\ phase = "take" /\ Len(buffers) < Len(needs)
          /\ buffers' = Append(buffers, NULL)
          /\ UNCHANGED <<phase, planned, plan, needs, block, capacity, used>>
      BY <1>7 DEF TakeFails
    <2>2. NULL \in Buffers
      BY DEF NULL, Buffers
    <2>3. /\ buffers' \in Seq(Buffers) /\ Len(buffers') = Len(buffers) + 1
          /\ buffers'[Len(buffers) + 1] = NULL /\ Len(buffers) \in Nat
      BY <2>1, <2>2 DEF ScratchTypes
    <2>4. ~Complete'
      BY <2>3 DEF Complete
    <2>5. ScratchTypes'
      BY <2>1, <2>3 DEF ScratchTypes
    <2> QED
      BY <2>1, <2>4, <2>5 DEF PlanInv, TakeInv, LiveInv, UseInv
  <1>8. CASE TestBuffers
    <2>1. CASE \E i \in DOMAIN buffers : buffers[i] = NULL
      BY <1>8, <2>1, ReturnScratchInv DEF TestBuffers
    <2>2. CASE ~\E i \in DOMAIN buffers : buffers[i] = NULL
      <3>1. /\ phase = "take" /\ phase' = "use"
            /\ UNCHANGED <<planned, plan, needs, buffers, block, capacity, used>>
        BY <1>8, <2>2 DEF TestBuffers
      <3>2. Complete
        <4>1. DOMAIN buffers = 1 .. Len(buffers)
          BY DEF ScratchTypes
        <4> QED
          BY <2>2, <4>1 DEF Complete
      <3>3. ScratchTypes' /\ PlanInv' /\ TakeInv'
        BY <3>1 DEF ScratchTypes, PlanInv, TakeInv
      <3>4. LiveInv' /\ UseInv'
        BY <3>1, <3>2 DEF LiveInv, UseInv, Complete
      <3> QED
        BY <3>3, <3>4
    <2> QED
      BY <2>1, <2>2
  <1>9. CASE EndCall
    BY <1>9, ReturnScratchInv DEF EndCall
  <1>10. CASE UNCHANGED scratchVars
    BY <1>10 DEF scratchVars, ScratchTypes, PlanInv, TakeInv, LiveInv, UseInv, Complete
  <1> QED
    BY <1>1, <1>2, <1>3, <1>4, <1>5, <1>6, <1>7, <1>8, <1>9, <1>10 DEF ScratchNext

(* No call uses a stale buffer or one that overlaps another: attention     *)
(* grows the block before it takes the first of its six buffers            *)
(* (qx_rope_gqa_attention_partial), a MoE layer takes only one.            *)
THEOREM SpecBuffersLive == ScratchSpec => []BuffersLive
  <1>1. ScratchInit => ScratchInv
    BY InitScratchInv
  <1>2. ScratchInv /\ [ScratchNext]_scratchVars => ScratchInv'
    BY StepScratchInv
  <1>3. ScratchInv => BuffersLive
    <2> SUFFICES ASSUME ScratchInv, phase = "use" PROVE BuffersLive
      BY DEF BuffersLive
    <2>1. Complete /\ DOMAIN buffers = 1 .. Len(buffers)
      BY DEF ScratchInv, ScratchTypes, UseInv
    <2> QED
      BY <2>1 DEF ScratchInv, LiveInv, BuffersLive
  <1> QED
    BY <1>1, <1>2, <1>3, PTL DEF ScratchSpec

-----------------------------------------------------------------------------
(* A gate accepts what the first one accepted.  The invariant says which   *)
(* gates are behind and that they accepted; what each of them excludes is  *)
(* compared pairwise: the command with the API, the first gate with the    *)
(* loop, the loop with the experts and with the head.                      *)

(* The gates are passed in their order, and those that were passed have    *)
(* accepted; the order of two gates only matters from the loop on.         *)
GatesInOrder ==
  \/ gates = Route[entry]
  \/ /\ Accepts(Route[entry][1], options)
     /\ \/ gates = <<"api", "loop", "experts", "head">> /\ entry = "generate"
        \/ gates = <<"loop", "experts", "head">> /\ entry # "library"
        \/ gates = <<"experts", "head">> /\ LoopAccepts(options)
        \/ gates = <<"head">> /\ LoopAccepts(options)
        \/ gates = <<>>

GateInv ==
  /\ entry \in DOMAIN Route
  /\ options \in Policies /\ Expressible(entry, options)
  /\ refusal = "none" => GatesInOrder
  /\ RefusedAtOnce

LEMMA OptionTypes ==
  ASSUME NEW o \in Policies
  PROVE  /\ o.thread \in {"serial", "pool", "moe-pool"}
         /\ o.io \in {"buffered", "mmap"} /\ o.kernel \in {"baseline", "fused"}
         /\ o.activation \in {"f32", "q8_k_compat"}
         /\ o.simd \in {"scalar", "avx2-fma"} /\ o.version \in 1 .. 3
         /\ o.budget \in {0, 1} /\ o.cuda \in BOOLEAN /\ o.resident \in BOOLEAN
  BY DEF Policies

(* The number of threads every gate agrees on is not 0.                    *)
LEMMA LoopTakesThreads ==
  ASSUME NEW o \in Policies, ThreadsFit(o), MoePoolFits(o)
  PROVE  LoopThreads(o) = o
  <1>1. o.threads # 0
    BY OptionTypes DEF ThreadsFit, MoePoolFits, SeveralThreads
  <1> QED
    BY <1>1 DEF LoopThreads, Policies

LEMMA ApiAfterGenerate ==
  ASSUME NEW o \in Policies, Expressible("generate", o), GenerateAccepts(o), entry = "generate"
  PROVE  ApiAccepts(o)
  BY OptionTypes DEF Expressible, NativeEntries, GenerateAccepts, ApiAccepts

LEMMA LoopAfterFirst ==
  ASSUME entry \in DOMAIN Route, options \in Policies, Expressible(entry, options),
         entry # "library", Accepts(Route[entry][1], options)
  PROVE  LoopAccepts(options) \/ FoundAtLoop(options)
  <1>1. CASE entry = "generate"
    <2>1. GenerateAccepts(options)
      BY <1>1 DEF Route, Accepts
    <2> QED
      BY <1>1, <2>1, LoopTakesThreads, OptionTypes
         DEF GenerateAccepts, LoopAccepts, NeedsF32, SimdFits, Expressible, NativeEntries
  <1>2. CASE entry = "probe"
    <2>1. ProbeAccepts(options)
      BY <1>2 DEF Route, Accepts
    <2> QED
      BY <2>1, LoopTakesThreads DEF ProbeAccepts, LoopAccepts
  <1>3. CASE entry \in {"v3", "buffer", "fixed"}
    <2>1. ApiAccepts(options)
      <3>1. Route[entry][1] = "api"
        BY <1>3 DEF Route
      <3> QED
        BY <3>1 DEF Accepts
    <2>2. CacheFits(options)
      BY <2>1, OptionTypes DEF ApiAccepts, CacheFits
    <2> QED
      BY <1>3, <2>1, <2>2, LoopTakesThreads, OptionTypes
         DEF ApiAccepts, LoopAccepts, NeedsF32, SimdFits, Expressible, NativeEntries, FoundAtLoop
  <1> QED
    BY <1>1, <1>2, <1>3 DEF Route

LEMMA ExpertsAfterLoop ==
  ASSUME NEW o \in Policies, LoopAccepts(o)
  PROVE  ExpertsAccept(o)
  <1>1. /\ MoePoolFits(LoopThreads(o)) /\ CacheFits(LoopThreads(o)) /\ NeedsF32(LoopThreads(o))
    BY DEF LoopAccepts
  <1>2. /\ LoopThreads(o).thread = o.thread /\ LoopThreads(o).activation = o.activation
        /\ LoopThreads(o).resident = o.resident /\ LoopThreads(o).io = o.io
    BY DEF LoopThreads, Policies
  <1> QED
    BY <1>1, <1>2, OptionTypes DEF ExpertsAccept, NeedsF32, CacheFits

LEMMA HeadAfterLoop ==
  ASSUME NEW o \in Policies, LoopAccepts(o)
  PROVE  HeadAccepts(o) \/ FoundAtHead(o)
  <1> DEFINE p == LoopThreads(o)
  <1>1. ThreadsFit(p) /\ NeedsF32(p) /\ SimdFits(p)
    BY DEF LoopAccepts
  <1>2. /\ p.thread = o.thread /\ p.activation = o.activation /\ p.simd = o.simd
        /\ p.kernel = o.kernel /\ p.threads = IF o.threads = 0 THEN 1 ELSE o.threads
    BY DEF LoopThreads, Policies
  <1> HIDE DEF p
  <1>3. o.thread = "pool" => SeveralThreads(o)
    BY <1>1, <1>2 DEF ThreadsFit, SeveralThreads
  <1> QED
    BY <1>1, <1>2, <1>3, OptionTypes DEF HeadAccepts, FoundAtHead, NeedsF32, SimdFits

(* Both invariants read the platform; they are the same in the next state. *)
LEMMA SameOptions ==
  ASSUME UNCHANGED <<platform, entry, options>>
  PROVE  /\ \A gate : Accepts(gate, options)' <=> Accepts(gate, options)
         /\ LoopAccepts(options)' <=> LoopAccepts(options)
         /\ FoundAtLoop(options)' <=> FoundAtLoop(options)
         /\ FoundAtHead(options)' <=> FoundAtHead(options)
  BY DEF Accepts, GenerateAccepts, ProbeAccepts, ApiAccepts, LoopAccepts,
         ExpertsAccept, HeadAccepts, MoePoolFits, FoundAtLoop, FoundAtHead

LEMMA StepGateInv == GateInv /\ [GateNext]_gateVars => GateInv'
  <1> SUFFICES ASSUME GateInv, [GateNext]_gateVars PROVE GateInv'
    OBVIOUS
  <1>1. CASE UNCHANGED gateVars
    <2>1. UNCHANGED <<platform, entry, options, gates, refusal>>
      BY <1>1 DEF gateVars
    <2> QED
      BY <2>1, SameOptions DEF GateInv, GatesInOrder, RefusedAtOnce
  <1>2. CASE PassGate
    <2>1. /\ gates # <<>> /\ refusal = "none" /\ Accepts(Head(gates), options)
          /\ gates' = Tail(gates) /\ UNCHANGED <<platform, entry, options, refusal>>
      BY <1>2 DEF PassGate
    <2>2. /\ entry \in DOMAIN Route /\ options \in Policies
          /\ Expressible(entry, options) /\ GatesInOrder
      BY <2>1 DEF GateInv
    <2>3. GatesInOrder'
      <3>1. CASE gates = Route[entry]
        <4>1. Accepts(Route[entry][1], options)
          BY <2>1, <2>2, <3>1 DEF Route
        <4>2. CASE entry = "generate"
          <5>1. gates' = <<"api", "loop", "experts", "head">>
            BY <2>1, <3>1, <4>2 DEF Route
          <5> QED
            BY <2>1, <4>1, <4>2, <5>1, SameOptions DEF GatesInOrder
        <4>3. CASE entry \in {"v3", "buffer", "fixed", "probe"}
          <5>1. gates' = <<"loop", "experts", "head">>
            <6>1. \/ gates = <<"api", "loop", "experts", "head">>
                  \/ gates = <<"probe", "loop", "experts", "head">>
              <7>1. CASE entry = "probe"
                BY <3>1, <7>1 DEF Route
              <7>2. CASE entry \in {"v3", "buffer", "fixed"}
                BY <3>1, <7>2 DEF Route
              <7> QED
                BY <4>3, <7>1, <7>2
            <6>2. CASE gates = <<"api", "loop", "experts", "head">>
              BY <2>1, <6>2
            <6>3. CASE gates = <<"probe", "loop", "experts", "head">>
              BY <2>1, <6>3
            <6> QED
              BY <6>1, <6>2, <6>3
          <5>2. entry # "library"
            BY <4>3
          <5> QED
            BY <2>1, <4>1, <5>1, <5>2, SameOptions DEF GatesInOrder
        <4>4. CASE entry = "library"
          <5>1. gates' = <<"experts", "head">> /\ Route[entry][1] = "loop"
            BY <2>1, <3>1, <4>4 DEF Route
          <5>2. LoopAccepts(options)
            BY <4>1, <5>1 DEF Accepts
          <5> QED
            BY <2>1, <4>1, <5>1, <5>2, SameOptions DEF GatesInOrder
        <4> QED
          BY <2>2, <4>2, <4>3, <4>4 DEF Route
      <3>2. CASE /\ Accepts(Route[entry][1], options) /\ entry = "generate"
                 /\ gates = <<"api", "loop", "experts", "head">>
        <4>1. gates' = <<"loop", "experts", "head">>
          BY <2>1, <3>2
        <4> QED
          BY <2>1, <3>2, <4>1, SameOptions DEF GatesInOrder
      <3>3. CASE /\ Accepts(Route[entry][1], options) /\ entry # "library"
                 /\ gates = <<"loop", "experts", "head">>
        <4>1. gates' = <<"experts", "head">> /\ Head(gates) = "loop"
          BY <2>1, <3>3
        <4>2. LoopAccepts(options)
          BY <2>1, <4>1 DEF Accepts
        <4> QED
          BY <2>1, <3>3, <4>1, <4>2, SameOptions DEF GatesInOrder
      <3>4. CASE /\ Accepts(Route[entry][1], options) /\ LoopAccepts(options)
                 /\ gates = <<"experts", "head">>
        <4>1. gates' = <<"head">>
          BY <2>1, <3>4
        <4> QED
          BY <2>1, <3>4, <4>1, SameOptions DEF GatesInOrder
      <3>5. CASE /\ Accepts(Route[entry][1], options) /\ LoopAccepts(options)
                 /\ gates = <<"head">>
        <4>1. gates' = <<>>
          BY <2>1, <3>5
        <4> QED
          BY <2>1, <3>5, <4>1, SameOptions DEF GatesInOrder
      <3> QED
        BY <2>1, <2>2, <3>1, <3>2, <3>3, <3>4, <3>5 DEF GatesInOrder
    <2> QED
      BY <2>1, <2>2, <2>3 DEF GateInv, RefusedAtOnce
  <1>3. CASE Refuse
    <2>1. /\ gates # <<>> /\ refusal = "none" /\ ~Accepts(Head(gates), options)
          /\ refusal' = Head(gates) /\ UNCHANGED <<platform, entry, options, gates>>
      BY <1>3 DEF Refuse
    <2>2. /\ entry \in DOMAIN Route /\ options \in Policies
          /\ Expressible(entry, options) /\ GatesInOrder
      BY <2>1 DEF GateInv
    <2>3. \/ refusal' = Route[entry][1]
          \/ refusal' = "loop" /\ FoundAtLoop(options)
          \/ refusal' = "head" /\ FoundAtHead(options)
      <3>1. CASE gates = Route[entry]
        <4>1. Head(Route[entry]) = Route[entry][1]
          BY <2>2 DEF Route
        <4> QED
          BY <2>1, <3>1, <4>1
      <3>2. CASE /\ Accepts(Route[entry][1], options) /\ entry = "generate"
                 /\ gates = <<"api", "loop", "experts", "head">>
        <4>1. Head(gates) = "api" /\ Route[entry][1] = "generate"
          BY <3>2 DEF Route
        <4>2. GenerateAccepts(options) /\ ~ApiAccepts(options)
          BY <2>1, <3>2, <4>1 DEF Accepts
        <4> QED
          BY <2>2, <3>2, <4>2, ApiAfterGenerate
      <3>3. CASE /\ Accepts(Route[entry][1], options) /\ entry # "library"
                 /\ gates = <<"loop", "experts", "head">>
        <4>1. Head(gates) = "loop"
          BY <3>3
        <4>2. ~LoopAccepts(options)
          BY <2>1, <4>1 DEF Accepts
        <4> QED
          BY <2>1, <2>2, <3>3, <4>1, <4>2, LoopAfterFirst
      <3>4. CASE /\ Accepts(Route[entry][1], options) /\ LoopAccepts(options)
                 /\ gates = <<"experts", "head">>
        <4>1. Head(gates) = "experts"
          BY <3>4
        <4>2. ~ExpertsAccept(options)
          BY <2>1, <4>1 DEF Accepts
        <4> QED
          BY <2>2, <3>4, <4>2, ExpertsAfterLoop
      <3>5. CASE /\ Accepts(Route[entry][1], options) /\ LoopAccepts(options)
                 /\ gates = <<"head">>
        <4>1. Head(gates) = "head"
          BY <3>5
        <4>2. ~HeadAccepts(options)
          BY <2>1, <4>1 DEF Accepts
        <4> QED
          BY <2>1, <2>2, <3>5, <4>1, <4>2, HeadAfterLoop
      <3> QED
        BY <2>1, <2>2, <3>1, <3>2, <3>3, <3>4, <3>5 DEF GatesInOrder
    <2>4. refusal' # "none"
      BY <2>1, <2>3, <2>2 DEF Route
    <2> QED
      BY <2>1, <2>2, <2>3, <2>4, SameOptions DEF GateInv, RefusedAtOnce
  <1> QED
    BY <1>1, <1>2, <1>3 DEF GateNext

(* A combination of policies that some gate refuses is refused by the      *)
(* first one, for all policies and every number of threads, but for what   *)
(* only the loop and the head can ask (qx_run_prompt_state_loop and its    *)
(* callers).                                                               *)
THEOREM SpecRefusedAtOnce == GateSpec => []RefusedAtOnce
  <1>1. GateInit => GateInv
    BY DEF GateInit, GateInv, GatesInOrder, RefusedAtOnce
  <1>2. GateInv /\ [GateNext]_gateVars => GateInv'
    BY StepGateInv
  <1>3. GateInv => RefusedAtOnce
    BY DEF GateInv
  <1> QED
    BY <1>1, <1>2, <1>3, PTL DEF GateSpec

-----------------------------------------------------------------------------
(* What is read of a GGUF file and written to a container is sound for     *)
(* every file, every number of tensors and every alignment.  The strength- *)
(* ening says that the tensors are placed in order and before the cursor.  *)

Entries == [offset : Nat, size : Nat]
Sized == sizes \in [Tensors -> Nat]
InLayout == conversion \in {"layout", "written"}

LayoutTypes ==
  /\ source \in [size : Word, data : Word, count : Nat \ {0}]
  /\ starts \in Seq(Word) /\ Len(starts) <= source.count
  /\ conversion = "table" => source.data <= source.size
  /\ placed \in Seq(Entries) /\ Len(placed) <= source.count
  /\ cursor \in Nat
  /\ conversion \in {"open", "table"} => placed = <<>> /\ sizes = <<>>
  /\ conversion = "written" => Len(placed) = source.count

(* What is placed is aligned, behind the directory, in the order of the    *)
(* table, and ends before the cursor.                                      *)
PlacedInv ==
  InLayout =>
    /\ Sized /\ DataStart <= cursor /\ cursor % QxAlign = 0
    /\ \A t \in 1 .. Len(placed) :
         /\ placed[t].offset >= DataStart /\ placed[t].offset % QxAlign = 0
         /\ placed[t].size = sizes[t]
         /\ placed[t].offset + placed[t].size <= cursor
    /\ \A t, u \in 1 .. Len(placed) :
         t < u => placed[t].offset + placed[t].size <= placed[u].offset

LayoutInv == LayoutTypes /\ PlacedInv /\ TableWithinSource

LEMMA AlignUpAligns ==
  ASSUME NEW value \in Nat
  PROVE  /\ AlignUp(value) \in Nat /\ value <= AlignUp(value)
         /\ AlignUp(value) % QxAlign = 0
  <1> DEFINE r == value % QxAlign
             q == value \div QxAlign
  <1>1. QxAlign \in Nat /\ QxAlign > 0
    BY TensorLayoutAssumption
  <1>2. /\ r \in 0 .. QxAlign - 1 /\ q \in Nat /\ value = QxAlign * q + r
    BY <1>1
  <1>3. CASE r = 0
    <2>1. Padding(value) = 0
      BY <1>1, <1>3 DEF Padding
    <2> QED
      BY <1>3, <2>1 DEF AlignUp
  <1>4. CASE r # 0
    <2>1. (QxAlign - r) % QxAlign = QxAlign - r
      <3> HIDE DEF r
      <3> QED
        BY <1>1, <1>2, <1>4
    <2>2. AlignUp(value) = value + (QxAlign - r)
      BY <2>1 DEF AlignUp, Padding
    <2>3. AlignUp(value) = QxAlign * (q + 1)
      <3> HIDE DEF r, q
      <3> QED
        BY <1>1, <1>2, <2>2
    <2>4. \A m \in Nat : (QxAlign * m) % QxAlign = 0
      BY <1>1
    <2>5. r <= QxAlign - 1 /\ r \in Nat
      BY <1>1, <1>2
    <2> HIDE DEF r, q
    <2> QED
      BY <1>1, <1>2, <2>2, <2>3, <2>4, <2>5
  <1> QED
    BY <1>3, <1>4

LEMMA StartsOfLayout ==
  ASSUME LayoutTypes
  PROVE  /\ DirectoryStart \in Nat /\ QxHeader <= DirectoryStart
         /\ DirectoryStart % QxAlign = 0
         /\ DirectoryEnd \in Nat
         /\ DataStart \in Nat /\ DirectoryEnd <= DataStart /\ DataStart % QxAlign = 0
  <1>1. QxHeader \in Nat /\ QxEntry \in Nat /\ source.count \in Nat
    BY TensorLayoutAssumption DEF LayoutTypes
  <1>2. source.count * QxEntry \in Nat
    BY <1>1
  <1>3. DirectoryStart \in Nat /\ QxHeader <= DirectoryStart /\ DirectoryStart % QxAlign = 0
    BY <1>1, AlignUpAligns DEF DirectoryStart
  <1>4. DirectoryEnd \in Nat
    BY <1>2, <1>3 DEF DirectoryEnd
  <1> QED
    BY <1>3, <1>4, AlignUpAligns DEF DataStart

(* Sorted starts, each tensor up to the next one: the gaps are in the file *)
(* and apart from each other.                                              *)
LEMMA SizesAreGaps ==
  ASSUME LayoutTypes, conversion = "table", SizeTensors, conversion' = "layout"
  PROVE  Sized' /\ TableWithinSource'
  <1> DEFINE n == source.count
             next(o, i) == IF i < n THEN starts[o[i + 1]] ELSE DataEnd
             place(o, t) == CHOOSE i \in Tensors : o[i] = t
  <1>1. /\ n \in Nat /\ n >= 1 /\ Len(starts) = n /\ DataEnd \in Nat
        /\ source.data \in Nat /\ source.size \in Nat
        /\ source.data + DataEnd = source.size
        /\ \A t \in Tensors : starts[t] \in Nat
    <2>1. source.data \in Nat /\ source.size \in Nat /\ source.data <= source.size
      BY TensorLayoutAssumption DEF LayoutTypes, Word
    <2>2. n \in Nat /\ n >= 1 /\ Len(starts) = n
      <3>1. Len(starts) = n
        BY DEF SizeTensors
      <3>2. source.count \in Nat \ {0}
        BY DEF LayoutTypes
      <3> QED
        BY <3>1, <3>2
    <2>3. \A t \in Tensors : starts[t] \in Nat
      <3>1. starts \in Seq(Word) /\ Tensors = 1 .. Len(starts)
        BY <2>2 DEF LayoutTypes, Tensors
      <3>2. \A w \in Word : w \in Nat
        BY TensorLayoutAssumption DEF Word
      <3> QED
        BY <3>1, <3>2
    <2> QED
      BY <2>1, <2>2, <2>3 DEF DataEnd
  <1>2. PICK o \in Orders :
          /\ ~\E i \in Tensors : next(o, i) < starts[o[i]]
          /\ sizes' = [t \in Tensors |-> next(o, place(o, t)) - starts[t]]
          /\ UNCHANGED <<source, starts>>
    BY DEF SizeTensors, Reject
  <1>3. /\ o \in [Tensors -> Tensors]
        /\ \A i, j \in Tensors : o[i] = o[j] => i = j
        /\ \A t \in Tensors : \E i \in Tensors : o[i] = t
        /\ \A i, j \in Tensors : i < j => starts[o[i]] <= starts[o[j]]
    BY DEF Orders, Bijection, Injection, Surjection, IsInjective
  <1>4. \A t \in Tensors : place(o, t) \in Tensors /\ o[place(o, t)] = t
    BY <1>3
  <1>5. \A i \in Tensors :
          /\ next(o, i) \in Nat /\ starts[o[i]] <= next(o, i) /\ next(o, i) <= DataEnd
          /\ \A j \in Tensors : i < j => next(o, i) <= starts[o[j]]
    <2> SUFFICES ASSUME NEW i \in Tensors
                 PROVE  /\ next(o, i) \in Nat /\ starts[o[i]] <= next(o, i)
                        /\ next(o, i) <= DataEnd
                        /\ \A j \in Tensors : i < j => next(o, i) <= starts[o[j]]
      OBVIOUS
    <2>1. i \in Nat /\ i <= n /\ n \in Tensors /\ starts[o[i]] \in Nat
      <3>1. starts[o[i]] \in Nat
        BY <1>1, <1>3
      <3>2. Tensors = 1 .. n
        BY DEF Tensors
      <3> HIDE DEF n
      <3> QED
        BY <1>1, <3>1, <3>2
    <2>2. \A k \in Tensors : next(o, k) \in Nat /\ starts[o[k]] <= next(o, k)
      <3> SUFFICES ASSUME NEW k \in Tensors
                   PROVE  next(o, k) \in Nat /\ starts[o[k]] <= next(o, k)
        OBVIOUS
      <3>1. next(o, k) \in Nat
        <4>1. CASE k < n
          <5>1. k + 1 \in Tensors
            BY <1>1, <4>1 DEF Tensors
          <5> QED
            BY <1>1, <1>3, <4>1, <5>1
        <4>2. CASE ~(k < n)
          BY <1>1, <4>2
        <4> QED
          BY <4>1, <4>2
      <3>2. ~(next(o, k) < starts[o[k]]) /\ starts[o[k]] \in Nat
        BY <1>1, <1>2, <1>3
      <3> HIDE DEF next
      <3> QED
        BY <3>1, <3>2
    <2>3. starts[o[n]] <= DataEnd
      BY <1>1, <2>1, <2>2
    <2>4. CASE i = n
      <3>1. \A j \in Tensors : ~(i < j)
        BY <1>1, <2>4 DEF Tensors
      <3> QED
        BY <1>1, <2>1, <2>2, <2>4, <3>1
    <2>5. CASE i < n
      <3>1. i + 1 \in Tensors /\ next(o, i) = starts[o[i + 1]]
        BY <1>1, <2>1, <2>5 DEF Tensors
      <3>2. \A j \in Tensors : i < j => starts[o[i + 1]] <= starts[o[j]]
        <4> SUFFICES ASSUME NEW j \in Tensors, i < j
                     PROVE  starts[o[i + 1]] <= starts[o[j]]
          OBVIOUS
        <4>1. j \in Nat /\ (j = i + 1 \/ i + 1 < j)
          BY <1>1, <2>1 DEF Tensors
        <4>2. starts[o[j]] \in Nat
          BY <1>1, <1>3
        <4> QED
          BY <1>3, <3>1, <4>1, <4>2
      <3>3. starts[o[i + 1]] <= starts[o[n]] /\ starts[o[n]] \in Nat /\ starts[o[i + 1]] \in Nat
        BY <1>1, <1>3, <2>1, <2>5, <3>1, <3>2
      <3> HIDE DEF next
      <3> QED
        BY <1>1, <2>2, <2>3, <3>1, <3>2, <3>3
    <2> QED
      BY <2>1, <1>1, <2>4, <2>5
  <1>6. \A t \in Tensors :
          /\ sizes'[t] \in Nat
          /\ starts[t] + sizes'[t] = next(o, place(o, t))
    <2> SUFFICES ASSUME NEW t \in Tensors
                 PROVE  sizes'[t] \in Nat /\ starts[t] + sizes'[t] = next(o, place(o, t))
      OBVIOUS
    <2>1. /\ next(o, place(o, t)) \in Nat /\ starts[t] <= next(o, place(o, t))
          /\ starts[t] \in Nat
      BY <1>1, <1>4, <1>5
    <2>2. sizes'[t] = next(o, place(o, t)) - starts[t]
      BY <1>2
    <2> HIDE DEF next, place
    <2> QED
      BY <2>1, <2>2
  <1> HIDE DEF next
  <1>7. Sized'
    <2>1. DOMAIN sizes' = Tensors /\ sizes' = [t \in Tensors |-> sizes'[t]]
      BY <1>2
    <2>2. Tensors' = Tensors
      BY <1>2 DEF Tensors
    <2> QED
      BY <1>6, <2>1, <2>2 DEF Sized
  <1>8. TableWithinSource'
    <2>1. Tensors' = Tensors /\ source' = source /\ starts' = starts
      BY <1>2 DEF Tensors
    <2>2. \A t \in Tensors : source.data + starts[t] + sizes'[t] <= source.size
      <3> SUFFICES ASSUME NEW t \in Tensors
                   PROVE  source.data + starts[t] + sizes'[t] <= source.size
        OBVIOUS
      <3>1. next(o, place(o, t)) <= DataEnd /\ next(o, place(o, t)) \in Nat
        BY <1>4, <1>5
      <3> HIDE DEF place
      <3> QED
        BY <1>1, <1>6, <3>1
    <2>3. \A t \in Tensors : \A u \in Tensors \ {t} :
            starts[t] + sizes'[t] <= starts[u] \/ starts[u] + sizes'[u] <= starts[t]
      <3> SUFFICES ASSUME NEW t \in Tensors, NEW u \in Tensors, t # u
                   PROVE  starts[t] + sizes'[t] <= starts[u] \/ starts[u] + sizes'[u] <= starts[t]
        OBVIOUS
      <3>1. /\ place(o, t) \in Tensors /\ o[place(o, t)] = t
            /\ place(o, u) \in Tensors /\ o[place(o, u)] = u
        BY <1>4
      <3>2. place(o, t) # place(o, u)
        BY <3>1
      <3> HIDE DEF place
      <3>3. place(o, t) < place(o, u) \/ place(o, u) < place(o, t)
        BY <1>1, <3>1, <3>2 DEF Tensors
      <3> QED
        BY <1>5, <1>6, <3>1, <3>3
    <2> QED
      BY <2>1, <2>2, <2>3 DEF TableWithinSource
  <1> QED
    BY <1>7, <1>8

LEMMA InitLayoutInv == LayoutInit => LayoutInv
  <1> SUFFICES ASSUME LayoutInit PROVE LayoutInv
    OBVIOUS
  <1>1. source \in [size : Word, data : Word, count : Nat \ {0}]
    <2>1. FileSizes \subseteq Word /\ MaxTensors \in Nat
      BY TensorLayoutAssumption
    <2>2. source \in [size : FileSizes, data : Word, count : 1 .. MaxTensors]
      BY DEF LayoutInit
    <2> QED
      BY <2>1, <2>2
  <1> QED
    BY <1>1 DEF LayoutInit, LayoutInv, LayoutTypes, PlacedInv, InLayout, TableWithinSource

LEMMA SameTable ==
  ASSUME UNCHANGED <<source, starts, sizes>>
  PROVE  /\ TableWithinSource' <=> TableWithinSource
         /\ Sized' <=> Sized
         /\ DataStart' = DataStart
  BY DEF TableWithinSource, Sized, Tensors, DataStart, DirectoryEnd

LEMMA RejectLayoutInv ==
  ASSUME LayoutInv, NEW why, Reject(why), why \notin {"open", "table", "layout", "written"}
  PROVE  LayoutInv'
  BY SameTable DEF Reject, LayoutInv, LayoutTypes, PlacedInv, InLayout

LEMMA StepLayoutInv == LayoutInv /\ [LayoutNext]_layoutVars => LayoutInv'
  <1> SUFFICES ASSUME LayoutInv, [LayoutNext]_layoutVars PROVE LayoutInv'
    OBVIOUS
  <1> USE DEF LayoutInv
  <1>1. CASE OpenSource
    <2>1. CASE source.size < source.data
      BY <1>1, <2>1, RejectLayoutInv DEF OpenSource
    <2>2. CASE ~(source.size < source.data)
      <3>1. /\ conversion = "open" /\ conversion' = "table"
            /\ UNCHANGED <<source, starts, sizes, placed, cursor>>
        BY <1>1, <2>2 DEF OpenSource
      <3>2. source.data <= source.size
        BY <2>2, TensorLayoutAssumption DEF LayoutTypes, Word
      <3> QED
        BY <3>1, <3>2, SameTable DEF LayoutTypes, PlacedInv, InLayout
    <2> QED
      BY <2>1, <2>2
  <1>2. CASE ReadTensor
    <2>1. PICK start \in Word :
            IF (source.data + start) % Words > source.size
            THEN Reject("GGUF tensor offset past EOF")
            ELSE /\ starts' = Append(starts, start)
                 /\ UNCHANGED <<source, sizes, placed, cursor, conversion>>
      BY <1>2 DEF ReadTensor
    <2>2. CASE (source.data + start) % Words > source.size
      BY <2>1, <2>2, RejectLayoutInv
    <2>3. CASE ~((source.data + start) % Words > source.size)
      <3>1. /\ starts' = Append(starts, start) /\ Len(starts) < source.count
            /\ conversion = "table"
            /\ UNCHANGED <<source, sizes, placed, cursor, conversion>>
        BY <1>2, <2>1, <2>3 DEF ReadTensor
      <3>2. starts' \in Seq(Word) /\ Len(starts') <= source.count
        BY <3>1 DEF LayoutTypes
      <3>3. LayoutTypes' /\ PlacedInv'
        BY <3>1, <3>2 DEF LayoutTypes, PlacedInv, InLayout
      <3>4. TableWithinSource'
        BY <3>1 DEF LayoutTypes, TableWithinSource
      <3> QED
        BY <3>3, <3>4
    <2> QED
      BY <2>2, <2>3
  <1>3. CASE SizeTensors
    <2>1. CASE Reject("GGUF tensor offsets not monotonic")
      BY <2>1, RejectLayoutInv
    <2>2. CASE /\ conversion' = "layout" /\ cursor' = DataStart
               /\ UNCHANGED <<source, starts, placed>>
      <3>1. conversion = "table"
        BY <1>3 DEF SizeTensors
      <3>2. Sized' /\ TableWithinSource'
        BY <1>3, <2>2, <3>1, SizesAreGaps
      <3>3. DataStart' = DataStart /\ DataStart \in Nat /\ DataStart % QxAlign = 0
        BY <2>2, StartsOfLayout DEF DataStart, DirectoryEnd
      <3>4. placed' = <<>>
        BY <2>2, <3>1 DEF LayoutTypes
      <3>5. LayoutTypes'
        BY <2>2, <3>3, <3>4 DEF LayoutTypes
      <3>6. PlacedInv'
        BY <2>2, <3>2, <3>3, <3>4 DEF PlacedInv
      <3> QED
        BY <3>2, <3>5, <3>6
    <2> QED
      BY <1>3, <2>1, <2>2 DEF SizeTensors
  <1>4. CASE PlaceTensor
    <2> DEFINE k == Len(placed)
               size == sizes[k + 1]
               new == [offset |-> cursor, size |-> size]
    <2>1. /\ conversion = "layout" /\ k \in Nat /\ k < source.count /\ k + 1 \in Tensors
          /\ placed \in Seq(Entries)
      <3>1. conversion = "layout" /\ k < source.count
        BY <1>4 DEF PlaceTensor
      <3>2. placed \in Seq(Entries) /\ source.count \in Nat
        BY DEF LayoutTypes
      <3>3. k \in Nat
        BY <3>2
      <3>4. k + 1 \in 1 .. source.count
        <4> HIDE DEF k
        <4> QED
          BY <3>1, <3>2, <3>3
      <3> QED
        BY <3>1, <3>2, <3>3, <3>4 DEF Tensors
    <2>2. CASE cursor > Words - 1 - size \/ ~Alignable(cursor + size)
      BY <1>4, <2>2, RejectLayoutInv DEF PlaceTensor
    <2>3. CASE ~(cursor > Words - 1 - size \/ ~Alignable(cursor + size))
      <3>1. /\ placed' = Append(placed, new) /\ cursor' = AlignUp(cursor + size)
            /\ UNCHANGED <<source, starts, sizes, conversion>>
        BY <1>4, <2>3 DEF PlaceTensor
      <3>2. /\ Sized /\ size \in Nat /\ cursor \in Nat /\ DataStart <= cursor
            /\ cursor % QxAlign = 0
        BY <2>1 DEF PlacedInv, InLayout, Sized, LayoutTypes
      <3>3. cursor' \in Nat /\ cursor + size <= cursor' /\ cursor' % QxAlign = 0
        <4>1. cursor + size \in Nat
          BY <3>2
        <4> HIDE DEF size
        <4> QED
          BY <3>1, <4>1, AlignUpAligns
      <3>4. DataStart' = DataStart /\ Sized' /\ TableWithinSource' /\ DataStart \in Nat
        BY <3>1, <3>2, SameTable, StartsOfLayout
      <3>5. new \in Entries
        BY <3>2 DEF Entries
      <3>6. /\ placed' \in Seq(Entries) /\ Len(placed') = k + 1 /\ placed'[k + 1] = new
            /\ \A t \in 1 .. k : placed'[t] = placed[t]
        BY <2>1, <3>1, <3>5
      <3>7. LayoutTypes'
        BY <2>1, <3>1, <3>3, <3>6 DEF LayoutTypes
      <3>8. \A t \in 1 .. k :
              /\ placed[t].offset \in Nat /\ placed[t].size \in Nat
              /\ placed[t].offset >= DataStart /\ placed[t].offset % QxAlign = 0
              /\ placed[t].size = sizes[t]
              /\ placed[t].offset + placed[t].size <= cursor
        <4>1. \A t \in 1 .. k : placed[t] \in Entries
          BY <2>1
        <4>2. \A t \in 1 .. k : placed[t].offset \in Nat /\ placed[t].size \in Nat
          BY <4>1 DEF Entries
        <4>3. \A t \in 1 .. k :
                /\ placed[t].offset >= DataStart /\ placed[t].offset % QxAlign = 0
                /\ placed[t].size = sizes[t]
                /\ placed[t].offset + placed[t].size <= cursor
          BY <2>1 DEF PlacedInv, InLayout
        <4> QED
          BY <4>2, <4>3
      <3>9. \A t \in 1 .. k + 1 :
              /\ placed'[t].offset >= DataStart /\ placed'[t].offset % QxAlign = 0
              /\ placed'[t].size = sizes[t]
              /\ placed'[t].offset + placed'[t].size <= cursor'
        <4> SUFFICES ASSUME NEW t \in 1 .. k + 1
                     PROVE  /\ placed'[t].offset >= DataStart /\ placed'[t].offset % QxAlign = 0
                            /\ placed'[t].size = sizes[t]
                            /\ placed'[t].offset + placed'[t].size <= cursor'
          OBVIOUS
        <4>1. CASE t = k + 1
          <5>1. placed'[t].offset = cursor /\ placed'[t].size = size
            BY <3>6, <4>1
          <5> QED
            BY <3>2, <3>3, <3>4, <4>1, <5>1
        <4>2. CASE t \in 1 .. k
          <5>1. placed'[t] = placed[t]
            BY <3>6, <4>2
          <5>2. cursor <= cursor'
            <6> HIDE DEF size
            <6> QED
              BY <3>2, <3>3
          <5> HIDE DEF size
          <5> QED
            BY <3>2, <3>3, <3>8, <4>2, <5>1, <5>2
        <4> QED
          BY <2>1, <4>1, <4>2
      <3>10. \A t, u \in 1 .. k + 1 :
               t < u => placed'[t].offset + placed'[t].size <= placed'[u].offset
        <4> SUFFICES ASSUME NEW t \in 1 .. k + 1, NEW u \in 1 .. k + 1, t < u
                     PROVE  placed'[t].offset + placed'[t].size <= placed'[u].offset
          OBVIOUS
        <4>1. t \in 1 .. k /\ placed'[t] = placed[t]
          BY <2>1, <3>6
        <4>2. CASE u = k + 1
          <5>1. placed'[u].offset = cursor
            BY <3>6, <4>2
          <5> QED
            BY <3>8, <4>1, <5>1
        <4>3. CASE u \in 1 .. k
          <5>1. placed'[u] = placed[u]
            BY <3>6, <4>3
          <5> QED
            BY <2>1, <4>1, <4>3, <5>1 DEF PlacedInv, InLayout
        <4> QED
          BY <2>1, <4>2, <4>3
      <3>11. DataStart <= cursor'
        <4> HIDE DEF size
        <4> QED
          BY <3>2, <3>3, <3>4
      <3>12. PlacedInv'
        BY <3>1, <3>3, <3>4, <3>6, <3>9, <3>10, <3>11 DEF PlacedInv
      <3> QED
        BY <3>4, <3>7, <3>12
    <2> QED
      BY <2>2, <2>3
  <1>5. CASE CopyTensors
    <2>1. CASE \E t \in Tensors : source.data > Words - 1 - starts[t]
      BY <1>5, <2>1, RejectLayoutInv DEF CopyTensors
    <2>2. CASE ~\E t \in Tensors : source.data > Words - 1 - starts[t]
      <3>1. /\ conversion = "layout" /\ conversion' = "written"
            /\ Len(placed) = source.count
            /\ UNCHANGED <<source, starts, sizes, placed, cursor>>
        BY <1>5, <2>2 DEF CopyTensors
      <3>2. LayoutTypes'
        BY <3>1 DEF LayoutTypes
      <3>3. PlacedInv' /\ TableWithinSource'
        BY <3>1, SameTable DEF PlacedInv, InLayout
      <3> QED
        BY <3>2, <3>3
    <2> QED
      BY <2>1, <2>2
  <1>6. CASE UNCHANGED layoutVars
    <2>1. UNCHANGED <<source, starts, sizes, placed, cursor, conversion>>
      BY <1>6 DEF layoutVars
    <2> QED
      BY <2>1, SameTable DEF LayoutTypes, PlacedInv, InLayout
  <1> QED
    BY <1>1, <1>2, <1>3, <1>4, <1>5, <1>6 DEF LayoutNext

(* The checks of the reader on what was placed come down to the sizes.     *)
LEMMA PlacedIsAccepted ==
  ASSUME LayoutInv, conversion = "written", NEW declared \in [Tensors -> Declared]
  PROVE  ReaderAccepts(declared) <=> Seamless(declared)
  <1>1. /\ Tensors = 1 .. Len(placed) /\ Len(placed) \in Nat /\ cursor \in Nat
        /\ \A t \in Tensors : placed[t] \in Entries
    BY DEF LayoutInv, LayoutTypes, Tensors
  <1>2. /\ DataStart \in Nat /\ DataStart <= cursor
        /\ \A t \in Tensors :
             /\ placed[t].offset >= DataStart /\ placed[t].offset % QxAlign = 0
             /\ placed[t].size = sizes[t]
             /\ placed[t].offset + placed[t].size <= cursor
        /\ \A t, u \in Tensors :
             t < u => placed[t].offset + placed[t].size <= placed[u].offset
    BY <1>1, StartsOfLayout DEF LayoutInv, PlacedInv, InLayout
  <1>3. HeaderAccepted(cursor)
    BY <1>2, StartsOfLayout, TensorLayoutAssumption DEF HeaderAccepted, LayoutInv
  <1>4. \A t \in Tensors :
          EntryAccepted(placed[t], cursor, declared[t])
            <=> declared[t] > 0 /\ sizes[t] = declared[t]
    <2> SUFFICES ASSUME NEW t \in Tensors
                 PROVE  EntryAccepted(placed[t], cursor, declared[t])
                          <=> declared[t] > 0 /\ sizes[t] = declared[t]
      OBVIOUS
    <2>1. placed[t].offset \in Nat /\ placed[t].size \in Nat
      BY <1>1 DEF Entries
    <2>2. placed[t].offset <= cursor /\ placed[t].size <= cursor - placed[t].offset
      BY <1>1, <1>2, <2>1
    <2> QED
      BY <1>2, <2>1, <2>2 DEF EntryAccepted
  <1>5. \A t, u \in Tensors : t # u => Apart(placed[t], placed[u])
    <2> SUFFICES ASSUME NEW t \in Tensors, NEW u \in Tensors, t # u
                 PROVE  Apart(placed[t], placed[u])
      OBVIOUS
    <2>1. t < u \/ u < t
      BY <1>1
    <2> QED
      BY <1>2, <2>1 DEF Apart
  <1> QED
    BY <1>3, <1>4, <1>5 DEF ReaderAccepts, Seamless

(* What is read from the source is in it and is read once, and what is     *)
(* written passes the reader's checks on layout and sizes exactly if the   *)
(* source is seamless (qx_gguf_load_tensor_table,                          *)
(* qx_write_tensor_copy_from_gguf, qx_open_file_with_backend).             *)
THEOREM SpecConversionSound == LayoutSpec => []ConversionSound
  <1>1. LayoutInit => LayoutInv
    BY InitLayoutInv
  <1>2. LayoutInv /\ [LayoutNext]_layoutVars => LayoutInv'
    BY StepLayoutInv
  <1>3. LayoutInv => ConversionSound
    BY PlacedIsAccepted DEF LayoutInv, ConversionSound, WrittenIsAccepted
  <1> QED
    BY <1>1, <1>2, <1>3, PTL DEF LayoutSpec

-----------------------------------------------------------------------------
(* Every row of every job is given to exactly one worker, for every row    *)
(* count the integer type holds (qx_row_pool_entry).                       *)
THEOREM SpecRowsPartitioned == CutSpec => []RowsPartitioned
  <1> DEFINE Job == rows \in 0 .. (U32 - 1) /\ workers \in 2 .. MaxWorkers
  <1>1. CutInit => Job
    BY U32Assumption, WorkersAssumption DEF CutInit
  <1>2. Job /\ [CutNext]_cutVars => Job'
    BY U32Assumption, WorkersAssumption DEF CutNext, MoreRows, MoreWorkers, cutVars
  <1>3. Job => RowsPartitioned
    <2> SUFFICES ASSUME Job PROVE RowsPartitioned
      OBVIOUS
    <2>1. rows \in 0 .. (U32 - 1) /\ workers \in 1 .. U32
      BY U32Assumption, WorkersAssumption
    <2> QED
      BY <2>1, RangesCover, RangesDisjoint DEF RowsPartitioned
  <1> QED
    BY <1>1, <1>2, <1>3, PTL DEF CutSpec
=============================================================================
