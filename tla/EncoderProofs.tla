--------------------------- MODULE EncoderProofs ----------------------------
(***************************************************************************)
(* Proofs about the encoder: that no special token is cut up into byte     *)
(* pairs (SpecialsTaken), that the tokens spell the text                   *)
(* (TokensSpellText), for every text, tokenizer and capacity, that         *)
(* encoding comes to an end (EncodeShrinks), and that the pre-tokenizer    *)
(* cuts every segment as its regular expression does (CutAsRegex).         *)
(*                                                                         *)
(* The first two rest on what recursive definitions compute: the search    *)
(* for the next special token, and FlattenSeq.  Induction is the least     *)
(* element of a set of counterexamples.                                    *)
(***************************************************************************)
EXTENDS Tokenizer, PreTokenizer, SequenceTheorems, WellFoundedInduction, TLAPS

-----------------------------------------------------------------------------
(* Least and greatest elements.                                            *)

LEMMA LeastOf ==
  ASSUME NEW T, T \subseteq Nat, T # {}
  PROVE  \E m \in T : \A k \in T : m <= k
  <1>1. PICK m \in T : \A k \in T : ~(<<k, m>> \in OpToRel(<, Nat))
    BY WFMin, NatLessThanWellFounded
  <1>2. \A k \in T : ~(k < m)
    BY <1>1 DEF OpToRel
  <1> QED
    BY <1>2

LEMMA MinIsLeast ==
  ASSUME NEW T, T \subseteq Nat, T # {}
  PROVE  Min(T) \in T /\ \A k \in T : Min(T) <= k
  BY LeastOf DEF Min

LEMMA MaxIsGreatest ==
  ASSUME NEW T, NEW n \in Nat, T \subseteq 0 .. n, T # {}
  PROVE  Max(T) \in T /\ \A k \in T : k <= Max(T)
  <1> DEFINE D == { n - k : k \in T }
  <1>1. D \subseteq Nat /\ D # {}
    <2>1. \A k \in T : n - k \in Nat
      OBVIOUS
    <2> QED
      BY <2>1
  <1>2. PICK d \in D : \A e \in D : d <= e
    BY <1>1, LeastOf
  <1>3. PICK m \in T : d = n - m
    OBVIOUS
  <1>4. \A k \in T : m >= k
    <2> TAKE k \in T
    <2>1. n - m <= n - k
      BY <1>2, <1>3
    <2> QED
      BY <2>1
  <1> QED
    BY <1>4 DEF Max

-----------------------------------------------------------------------------
(* A function that gives f[i] from f[i - 1] exists.                        *)
IsNext(next, n, V) == next \in [(1 .. n) \X V -> V]

Iterates(f, n, V, base, next) ==
  /\ f \in [0 .. n -> V] /\ f[0] = base
  /\ \A i \in 1 .. n : f[i] = next[<<i, f[i - 1]>>]

LEMMA RecursionExists ==
  ASSUME NEW n \in Nat, NEW V, NEW base \in V, NEW next, IsNext(next, n, V)
  PROVE  \E f : Iterates(f, n, V, base, next)
  <1> USE DEF IsNext, Iterates
  <1> DEFINE Upto(m, f) == Iterates(f, m, V, base, next)
      Missing == { m \in 0 .. n : ~\E f : Upto(m, f) }
  <1>1. SUFFICES ASSUME Missing # {} PROVE FALSE
    <2>1. n \in 0 .. n
      OBVIOUS
    <2>2. \E f : Upto(n, f)
      BY <1>1, <2>1
    <2> QED
      BY <2>2
  <1>2. PICK m \in Missing : \A k \in Missing : m <= k
    <2>1. Missing \subseteq Nat
      OBVIOUS
    <2> HIDE DEF Missing
    <2> QED
      BY <1>1, <2>1, LeastOf
  <1>3. m # 0
    <2>1. Upto(0, [i \in 0 .. 0 |-> base])
      OBVIOUS
    <2> QED
      BY <2>1
  <1>4. m - 1 \in 0 .. n /\ m - 1 \notin Missing /\ m \in 1 .. n
    BY <1>2, <1>3
  <1>5. PICK f : Upto(m - 1, f)
    BY <1>4
  <1> DEFINE g == [i \in 0 .. m |-> IF i = m THEN next[<<m, f[m - 1]>>] ELSE f[i]]
  <1>6. f[m - 1] \in V /\ <<m, f[m - 1]>> \in (1 .. n) \X V
    BY <1>4, <1>5
  <1>7. g \in [0 .. m -> V]
    BY <1>4, <1>5, <1>6
  <1>8. g[0] = base
    BY <1>4, <1>5
  <1>9. \A i \in 1 .. m : g[i] = next[<<i, g[i - 1]>>]
    <2> TAKE i \in 1 .. m
    <2>1. CASE i = m
      <3>1. m - 1 \in 0 .. m /\ m - 1 # m
        BY <1>4
      <3>2. g[m] = next[<<m, f[m - 1]>>] /\ g[m - 1] = f[m - 1]
        BY <1>4, <3>1
      <3> QED
        BY <2>1, <3>2
    <2>2. CASE i # m
      <3>1. i \in 1 .. m - 1 /\ i - 1 \in 0 .. m /\ i - 1 # m
        BY <1>4, <2>2
      <3>2. g[i] = f[i] /\ g[i - 1] = f[i - 1]
        BY <1>4, <3>1
      <3> QED
        BY <1>5, <3>1, <3>2
    <2> QED
      BY <2>1, <2>2
  <1>10. Upto(m, g)
    BY <1>7, <1>8, <1>9
  <1> QED
    BY <1>10
-----------------------------------------------------------------------------
(* What FlattenSeq returns: the last of the partial concatenations.        *)

Flattens(f, s) ==
  /\ f \in [0 .. Len(s) -> Strings] /\ f[0] = <<>>
  /\ \A i \in 1 .. Len(s) : f[i] = f[i - 1] \o s[i]

LEMMA InductionUpto ==
  ASSUME NEW n \in Nat, NEW T, 0 \in T, \A i \in 1 .. n : i - 1 \in T => i \in T
  PROVE  n \in T /\ \A i \in 0 .. n : i \in T
  <1> DEFINE Outside == { i \in 0 .. n : i \notin T }
  <1>1. SUFFICES ASSUME Outside # {} PROVE FALSE
    <2>1. n \in 0 .. n
      OBVIOUS
    <2> QED
      BY <1>1, <2>1
  <1>2. PICK i \in Outside : \A k \in Outside : i <= k
    <2>1. Outside \subseteq Nat
      OBVIOUS
    <2> HIDE DEF Outside
    <2> QED
      BY <1>1, <2>1, LeastOf
  <1>3. i \in 1 .. n /\ i - 1 \in 0 .. n
    BY <1>2
  <1>4. i - 1 \in T
    <2>1. i - 1 \notin Outside
      BY <1>2, <1>3
    <2> QED
      BY <1>3, <2>1
  <1> QED
    BY <1>2, <1>3, <1>4

LEMMA StringFacts ==
  /\ <<>> \in Strings
  /\ \A u \in Strings : Len(u) \in Nat /\ u \o <<>> = u /\ <<>> \o u = u
  /\ \A u, v \in Strings : u \o v \in Strings /\ Len(u \o v) = Len(u) + Len(v)
  /\ \A u, v, w \in Strings : (u \o v) \o w = u \o (v \o w)
  <1>1. \A u \in Strings : Len(u) \in Nat /\ u \o <<>> = u /\ <<>> \o u = u
    BY ConcatEmptySeq, LenProperties DEF Strings
  <1>2. \A u, v \in Strings : u \o v \in Strings /\ Len(u \o v) = Len(u) + Len(v)
    BY ConcatProperties DEF Strings
  <1>3. \A u, v, w \in Strings : (u \o v) \o w = u \o (v \o w)
    BY SMTT(30), ConcatAssociative DEF Strings
  <1> QED
    BY <1>1, <1>2, <1>3, EmptySeq DEF Strings

LEMMA FlattensUnique ==
  ASSUME NEW s \in Seq(Strings), NEW f, NEW g, Flattens(f, s), Flattens(g, s)
  PROVE  f[Len(s)] = g[Len(s)]
  <1> DEFINE n == Len(s)
             Same == { i \in 0 .. n : f[i] = g[i] }
  <1>1. n \in Nat /\ 0 \in Same
    BY DEF Flattens
  <1>2. \A i \in 1 .. n : i - 1 \in Same => i \in Same
    <2> TAKE i \in 1 .. n
    <2> HAVE i - 1 \in Same
    <2>1. f[i] = f[i - 1] \o s[i] /\ g[i] = g[i - 1] \o s[i]
      BY DEF Flattens
    <2>2. f[i - 1] = g[i - 1] /\ i \in 0 .. n
      BY <1>1
    <2> QED
      BY <2>1, <2>2
  <1> HIDE DEF Same
  <1>3. n \in Same
    BY <1>1, <1>2, InductionUpto
  <1> QED
    BY <1>3 DEF Same

LEMMA FlattenExists ==
  ASSUME NEW s \in Seq(Strings)
  PROVE  \E f : Flattens(f, s) /\ FlattenSeq(s) = f[Len(s)]
  <1> DEFINE n == Len(s)
             next == [p \in (1 .. n) \X Strings |-> p[2] \o s[p[1]]]
             Def(g) == g = [i \in 1 .. n |-> IF i = 1 THEN s[i] ELSE g[i - 1] \o s[i]]
  <1>1. n \in Nat /\ \A i \in 1 .. n : s[i] \in Strings
    OBVIOUS
  <1>2. IsNext(next, n, Strings)
    <2>1. \A p \in (1 .. n) \X Strings : p[2] \o s[p[1]] \in Strings
      BY <1>1, StringFacts
    <2> QED
      BY <2>1 DEF IsNext
  <1>3. PICK f : Iterates(f, n, Strings, <<>>, next)
    <2>1. <<>> \in Strings
      BY StringFacts
    <2> HIDE DEF n, next, Def
    <2> QED
      BY <1>1, <1>2, <2>1, RecursionExists
  <1>4. Flattens(f, s)
    <2>1. ASSUME NEW i \in 1 .. n PROVE f[i] = f[i - 1] \o s[i]
      <3>1. i - 1 \in 0 .. n /\ f[i - 1] \in Strings
        BY <1>1, <1>3 DEF Iterates
      <3>2. <<i, f[i - 1]>> \in (1 .. n) \X Strings
        BY <3>1
      <3> QED
        BY <1>3, <3>2 DEF Iterates
    <2> QED
      BY <1>3, <2>1 DEF Flattens, Iterates
  <1>5. CASE n = 0
    <2>1. s = <<>>
      BY <1>5
    <2>2. FlattenSeq(s) = <<>>
      BY <1>5, <2>1 DEF FlattenSeq
    <2> QED
      BY <1>4, <1>5, <2>2 DEF Flattens
  <1>6. CASE n # 0
    <2> DEFINE r == [i \in 1 .. n |-> f[i]]
               g == CHOOSE h : Def(h)
    <2>1. Def(r)
      <3>1. ASSUME NEW i \in 1 .. n
            PROVE  r[i] = IF i = 1 THEN s[i] ELSE r[i - 1] \o s[i]
        <4>1. f[i] = f[i - 1] \o s[i] /\ s[i] \in Strings
          BY <1>1, <1>4 DEF Flattens
        <4>2. CASE i = 1
          <5>1. f[0] = <<>> /\ i - 1 = 0
            BY <1>4, <4>2 DEF Flattens
          <5>2. f[i] = <<>> \o s[i]
            BY <4>1, <5>1
          <5>3. f[i] = s[i]
            BY <4>1, <5>2, StringFacts
          <5>4. r[i] = f[i]
            OBVIOUS
          <5> QED
            BY <4>2, <5>3, <5>4
        <4>3. CASE i # 1
          <5>1. i - 1 \in 1 .. n
            BY <1>1, <4>3
          <5> QED
            BY <4>1, <4>3, <5>1
        <4> QED
          BY <4>2, <4>3
      <3> QED
        BY <3>1
    <2>2. Def(g)
      BY <2>1
    <2>3. \A i \in 1 .. n : g[i] = IF i = 1 THEN s[i] ELSE g[i - 1] \o s[i]
      BY <2>2
    <2>4. FlattenSeq(s) = g[n]
      BY <1>6 DEF FlattenSeq
    <2> HIDE DEF g
    <2> DEFINE Same == { i \in 0 .. n : i = 0 \/ g[i] = f[i] }
    <2>5. 0 \in Same
      BY <1>1
    <2>6. \A i \in 1 .. n : i - 1 \in Same => i \in Same
      <3> TAKE i \in 1 .. n
      <3> HAVE i - 1 \in Same
      <3>1. r[i] = IF i = 1 THEN s[i] ELSE r[i - 1] \o s[i]
        BY <2>1
      <3>2. CASE i = 1
        BY <2>3, <3>1, <3>2
      <3>3. CASE i # 1
        <4>1. i - 1 \in 1 .. n /\ g[i - 1] = f[i - 1]
          BY <1>1, <3>3
        <4>2. g[i] = g[i - 1] \o s[i]
          BY <2>3, <3>3
        <4>3. f[i] = f[i - 1] \o s[i]
          BY <1>4 DEF Flattens
        <4>4. g[i] = f[i]
          BY <4>1, <4>2, <4>3
        <4>5. i \in 0 .. n
          BY <1>1
        <4> QED
          BY <4>4, <4>5 DEF Same
      <3> QED
        BY <3>2, <3>3
    <2> HIDE DEF Same, n, Def, next
    <2>7. n \in Same
      BY <1>1, <2>5, <2>6, InductionUpto
    <2>8. g[n] = f[n]
      BY <1>6, <2>7 DEF Same
    <2> QED
      BY <1>4, <2>4, <2>8 DEF n
  <1> QED
    BY <1>5, <1>6

LEMMA FlattenIs ==
  ASSUME NEW s \in Seq(Strings), NEW f, Flattens(f, s)
  PROVE  FlattenSeq(s) = f[Len(s)]
  BY FlattenExists, FlattensUnique

LEMMA FlattenType ==
  ASSUME NEW s \in Seq(Strings)
  PROVE  FlattenSeq(s) \in Strings
  <1>1. PICK f : Flattens(f, s) /\ FlattenSeq(s) = f[Len(s)]
    BY FlattenExists
  <1>2. Len(s) \in 0 .. Len(s)
    OBVIOUS
  <1> QED
    BY <1>1, <1>2 DEF Flattens

LEMMA FlattenAppend ==
  ASSUME NEW s \in Seq(Strings), NEW x \in Strings
  PROVE  FlattenSeq(Append(s, x)) = FlattenSeq(s) \o x
  <1> DEFINE n == Len(s)
             t == Append(s, x)
  <1>1. n \in Nat /\ t \in Seq(Strings) /\ Len(t) = n + 1 /\ t[n + 1] = x
    OBVIOUS
  <1>2. \A i \in 1 .. n : t[i] = s[i]
    OBVIOUS
  <1>3. PICK f : Flattens(f, s) /\ FlattenSeq(s) = f[n]
    BY FlattenExists
  <1> DEFINE g == [i \in 0 .. n + 1 |-> IF i = n + 1 THEN f[n] \o x ELSE f[i]]
  <1>4. \A i \in 0 .. n : f[i] \in Strings
    BY <1>3 DEF Flattens
  <1>5. f[n] \in Strings /\ f[n] \o x \in Strings
    BY <1>1, <1>4, StringFacts
  <1>6. g \in [0 .. Len(t) -> Strings] /\ g[0] = <<>>
    <2>1. \A i \in 0 .. n + 1 : i = n + 1 \/ i \in 0 .. n
      BY <1>1
    <2>2. g[0] = f[0] /\ f[0] = <<>>
      BY <1>1, <1>3 DEF Flattens
    <2> QED
      BY <1>1, <1>4, <1>5, <2>1, <2>2
  <1>7. ASSUME NEW i \in 1 .. Len(t) PROVE g[i] = g[i - 1] \o t[i]
    <2>1. CASE i = n + 1
      <3>1. i - 1 = n /\ g[i - 1] = f[n] /\ g[i] = f[n] \o x
        BY <1>1, <2>1
      <3> QED
        BY <1>1, <2>1, <3>1
    <2>2. CASE i # n + 1
      <3>1. i \in 1 .. n /\ g[i] = f[i] /\ g[i - 1] = f[i - 1]
        BY <1>1, <2>2
      <3>2. f[i] = f[i - 1] \o s[i]
        BY <1>3, <3>1 DEF Flattens
      <3> QED
        BY <1>2, <3>1, <3>2
    <2> QED
      BY <2>1, <2>2
  <1>8. Flattens(g, t)
    BY <1>6, <1>7 DEF Flattens
  <1>9. g[n + 1] = f[n] \o x
    BY <1>1
  <1>10. FlattenSeq(t) = g[n + 1]
    <2> HIDE DEF g, t
    <2> QED
      BY <1>1, <1>8, FlattenIs
  <1> QED
    BY <1>3, <1>9, <1>10

LEMMA FlattenEmpty == FlattenSeq(<<>>) = <<>>
  BY DEF FlattenSeq

\* The first string can be taken off.
LEMMA FlattenHead ==
  ASSUME NEW s \in Seq(Strings), s # <<>>
  PROVE  FlattenSeq(s) = Head(s) \o FlattenSeq(Tail(s))
  <1> DEFINE n == Len(s)
             t == Tail(s)
  <1>1. n \in Nat /\ n > 0 /\ t \in Seq(Strings) /\ Len(t) = n - 1
    OBVIOUS
  <1>2. Head(s) = s[1] /\ s[1] \in Strings /\ \A i \in 1 .. n - 1 : t[i] = s[i + 1]
    OBVIOUS
  <1>3. PICK f : Flattens(f, t) /\ FlattenSeq(t) = f[n - 1]
    BY <1>1, FlattenExists
  <1> HIDE DEF t
  <1> DEFINE g == [i \in 0 .. n |-> IF i = 0 THEN <<>> ELSE s[1] \o f[i - 1]]
  <1>4. \A i \in 0 .. n - 1 : f[i] \in Strings
    BY <1>1, <1>3 DEF Flattens
  <1>5. g \in [0 .. n -> Strings] /\ g[0] = <<>>
    <2>1. \A i \in 0 .. n : i # 0 => s[1] \o f[i - 1] \in Strings
      <3> TAKE i \in 0 .. n
      <3> HAVE i # 0
      <3>1. i - 1 \in 0 .. n - 1
        BY <1>1
      <3> QED
        BY <1>2, <1>4, <3>1, StringFacts
    <2> QED
      BY <1>1, <2>1, StringFacts
  <1>6. ASSUME NEW i \in 1 .. n PROVE g[i] = g[i - 1] \o s[i]
    <2>1. CASE i = 1
      <3>1. f[0] = <<>> /\ i - 1 = 0
        BY <1>3, <2>1 DEF Flattens
      <3>2. g[i] = s[1] \o f[i - 1] /\ g[i - 1] = <<>>
        <4>1. i \in 0 .. n /\ i # 0 /\ i - 1 \in 0 .. n
          BY <1>1
        <4> QED
          BY <3>1, <4>1
      <3>3. s[1] \o <<>> = s[1] /\ <<>> \o s[1] = s[1]
        BY <1>2, StringFacts
      <3>4. g[i] = s[1] /\ g[i - 1] \o s[1] = s[1]
        <4> HIDE DEF g
        <4> QED
          BY <3>1, <3>2, <3>3
      <3> QED
        BY <2>1, <3>4
    <2>2. CASE i # 1
      <3> DEFINE k == i - 1
      <3>1. k \in 1 .. n - 1 /\ k + 1 = i /\ k - 1 \in 0 .. n - 1
        BY <1>1, <2>2
      <3>2. f[k] = f[k - 1] \o s[i]
        BY <1>1, <1>2, <1>3, <3>1 DEF Flattens
      <3>3. s[i] \in Strings /\ f[k - 1] \in Strings
        BY <1>4, <3>1
      <3>4. s[1] \o (f[k - 1] \o s[i]) = (s[1] \o f[k - 1]) \o s[i]
        BY <1>2, <3>3, StringFacts
      <3>5. g[i] = s[1] \o f[k] /\ g[k] = s[1] \o f[k - 1]
        BY <1>1, <2>2, <3>1
      <3>6. g[i] = g[k] \o s[i]
        BY <3>2, <3>4, <3>5
      <3> QED
        BY <3>6
    <2> QED
      BY <2>1, <2>2
  <1>7. Flattens(g, s)
    BY <1>5, <1>6 DEF Flattens
  <1>8. g[n] = s[1] \o f[n - 1]
    <2>1. n \in 0 .. n /\ n # 0
      BY <1>1
    <2> QED
      BY <2>1
  <1>9. FlattenSeq(s) = g[n]
    <2> HIDE DEF g
    <2> QED
      BY <1>7, FlattenIs
  <1> QED
    BY <1>2, <1>3, <1>8, <1>9 DEF t

\* The bytes of a part of the text, each a string of its own, spell it.
LEMMA FlattenBytes ==
  ASSUME text \in Strings, NEW o \in Nat, NEW n \in Nat, o + n <= Len(text)
  PROVE  LET bytes == [i \in 1 .. n |-> <<text[o + i]>>]
         IN bytes \in Seq(Strings) /\ FlattenSeq(bytes) = SubSeq(text, o + 1, o + n)
  <1> DEFINE bytes == [i \in 1 .. n |-> <<text[o + i]>>]
             f == [i \in 0 .. n |-> SubSeq(text, o + 1, o + i)]
  <1>1. text \in Seq(Chars) /\ Len(text) \in Nat
    BY DEF Strings
  <1>2. ASSUME NEW i \in 1 .. n PROVE o + i \in 1 .. Len(text) /\ <<text[o + i]>> \in Strings
    BY <1>1 DEF Strings
  <1>3. bytes \in Seq(Strings) /\ Len(bytes) = n
    BY <1>2
  <1>4. ASSUME NEW i \in 0 .. n PROVE SubSeq(text, o + 1, o + i) \in Strings
    <2>1. \A j \in o + 1 .. o + i : text[j] \in Chars
      BY <1>1
    <2>2. o + 1 \in Int /\ o + i \in Int
      OBVIOUS
    <2> QED
      BY <2>1, <2>2, SubSeqProperties DEF Strings
  <1>5. f[0] = <<>>
    <2>1. SubSeq(text, o + 1, o + 0) = <<>>
      BY SubSeqEmpty
    <2> QED
      BY <2>1
  <1>6. ASSUME NEW i \in 1 .. n PROVE f[i] = f[i - 1] \o bytes[i]
    <2>1. o + 1 \in 1 .. Len(text) /\ o + i \in o + 1 .. Len(text)
      BY <1>1
    <2>2. SubSeq(text, o + 1, o + i) = SubSeq(text, o + 1, o + i - 1) \o <<text[o + i]>>
      BY <1>1, <2>1, SubSeqRecursiveSecond
    <2>3. f[i] = SubSeq(text, o + 1, o + i)
      OBVIOUS
    <2>4. o + (i - 1) = o + i - 1 /\ i - 1 \in 0 .. n
      OBVIOUS
    <2>5. f[i - 1] = SubSeq(text, o + 1, o + i - 1)
      BY <2>4
    <2>6. bytes[i] = <<text[o + i]>>
      OBVIOUS
    <2> HIDE DEF f, bytes
    <2> QED
      BY <2>2, <2>3, <2>5, <2>6
  <1>7. Flattens(f, bytes)
    <2>1. f \in [0 .. Len(bytes) -> Strings]
      BY <1>3, <1>4
    <2> HIDE DEF f, bytes
    <2> QED
      BY <1>3, <1>5, <1>6, <2>1 DEF Flattens
  <1>8. f[n] = SubSeq(text, o + 1, o + n)
    OBVIOUS
  <1>9. FlattenSeq(bytes) = f[n]
    <2> HIDE DEF f, bytes
    <2> QED
      BY <1>3, <1>7, FlattenIs
  <1> QED
    BY <1>3, <1>8, <1>9

\* Merging a pair leaves what the symbols spell as it was.
LEMMA FlattenMerge ==
  ASSUME symbols \in Seq(Strings), NEW i \in 1 .. Len(symbols) - 1
  PROVE  MergedAt(i) \in Seq(Strings) /\ FlattenSeq(MergedAt(i)) = FlattenSeq(symbols)
  <1> DEFINE n == Len(symbols)
             t == MergedAt(i)
  <1>1. n \in Nat /\ i + 1 \in 1 .. n /\ n - 1 \in Nat
    OBVIOUS
  <1>2. \A j \in 1 .. n : symbols[j] \in Strings
    OBVIOUS
  <1> DEFINE pair == symbols[i] \o symbols[i + 1]
  <1>3. pair \in Strings /\ i \in 1 .. n - 1 /\ i \in Int
    BY <1>1, <1>2, StringFacts
  <1>4. ASSUME NEW j \in 1 .. n - 1
        PROVE  /\ t[j] \in Strings
               /\ j < i => t[j] = symbols[j]
               /\ j = i => t[j] = pair
               /\ j > i => t[j] = symbols[j + 1]
    <2>1. j \in 1 .. n /\ j + 1 \in 1 .. n /\ j \in Int
      BY <1>1
    <2>2. t[j] = IF j < i THEN symbols[j] ELSE IF j = i THEN pair ELSE symbols[j + 1]
      BY DEF MergedAt
    <2>3. symbols[j] \in Strings /\ symbols[j + 1] \in Strings
      BY <1>2, <2>1
    <2> HIDE DEF t, pair, n
    <2> QED
      BY <1>3, <2>1, <2>2, <2>3
  <1>5. Len(t) = n - 1 /\ t \in Seq(Strings)
    <2>1. t = [j \in 1 .. n - 1 |-> t[j]]
      BY DEF MergedAt
    <2>2. \A j \in 1 .. n - 1 : t[j] \in Strings
      BY <1>4
    <2> HIDE DEF t
    <2>3. t \in [1 .. n - 1 -> Strings]
      BY <2>1, <2>2
    <2> QED
      BY <1>1, <2>3
  <1>6. PICK f : Flattens(f, symbols) /\ FlattenSeq(symbols) = f[n]
    BY FlattenExists
  <1> HIDE DEF t
  <1> DEFINE g == [j \in 0 .. n - 1 |-> IF j < i THEN f[j] ELSE f[j + 1]]
  <1>7. f[0] = <<>> /\ \A j \in 0 .. n : f[j] \in Strings
    BY <1>6 DEF Flattens
  <1>8. \A j \in 1 .. n : f[j] = f[j - 1] \o symbols[j]
    BY <1>6 DEF Flattens
  <1>9. g \in [0 .. Len(t) -> Strings] /\ g[0] = <<>>
    BY <1>1, <1>5, <1>7
  <1>10. ASSUME NEW j \in 1 .. n - 1 PROVE g[j] = g[j - 1] \o t[j]
    <2>1. j \in 1 .. n /\ j + 1 \in 1 .. n /\ j - 1 \in 0 .. n - 1 /\ j \in 0 .. n - 1
      BY <1>1
    <2> DEFINE k == j - 1
    <2>0. k \in 0 .. n - 1 /\ k + 1 = j
      BY <2>1
    <2>7. /\ g[j] = IF j < i THEN f[j] ELSE f[j + 1]
          /\ g[k] = IF k < i THEN f[k] ELSE f[k + 1]
      BY <2>1, <2>0
    <2> HIDE DEF g, pair
    <2>2. CASE j < i
      <3>1. g[j] = f[j] /\ g[j - 1] = f[j - 1] /\ t[j] = symbols[j]
        BY <1>3, <1>4, <2>1, <2>2, <2>7
      <3> QED
        BY <1>8, <2>1, <3>1
    <2>3. CASE j = i
      <3>1. g[j] = f[i + 1] /\ g[j - 1] = f[i - 1] /\ t[j] = pair
        BY <1>3, <1>4, <2>1, <2>3, <2>7
      <3>2. f[i + 1] = f[i] \o symbols[i + 1]
        <4>1. (i + 1) - 1 = i
          OBVIOUS
        <4> QED
          BY <1>1, <1>8, <4>1
      <3>3. f[i] = f[i - 1] \o symbols[i]
        BY <1>8, <2>1, <2>3
      <3>4. f[i - 1] \in Strings /\ symbols[i] \in Strings /\ symbols[i + 1] \in Strings
        BY <1>1, <1>2, <1>7
      <3>5. (f[i - 1] \o symbols[i]) \o symbols[i + 1] = f[i - 1] \o pair
        BY <3>4, StringFacts DEF pair
      <3> QED
        BY <3>1, <3>2, <3>3, <3>5
    <2>4. CASE j > i
      <3>1. g[j] = f[j + 1] /\ t[j] = symbols[j + 1]
        BY <1>3, <1>4, <2>1, <2>4, <2>7
      <3>2. g[j - 1] = f[j] /\ (j + 1) - 1 = j
        BY <2>1, <2>4, <2>7, <2>0
      <3>3. f[j + 1] = f[j] \o symbols[j + 1]
        BY <1>8, <2>1, <3>2
      <3> QED
        BY <3>1, <3>2, <3>3
    <2>5. j < i \/ j = i \/ j > i
      BY <1>3, <2>1
    <2> QED
      BY <2>2, <2>3, <2>4, <2>5
  <1>11. Flattens(g, t)
    <2> HIDE DEF g
    <2> QED
      BY <1>5, <1>9, <1>10 DEF Flattens
  <1>12. g[n - 1] = f[n]
    BY <1>1
  <1>13. FlattenSeq(t) = g[n - 1]
    <2> HIDE DEF g
    <2> QED
      BY <1>5, <1>11, FlattenIs
  <1> QED
    BY <1>5, <1>6, <1>12, <1>13 DEF t

-----------------------------------------------------------------------------
(* The pair that is merged is one of the merges: a smallest rank exists,   *)
(* and a first place that has it.                                          *)
LEMMA BestPlaceIs ==
  ASSUME tokenizer \in Tokenizers, symbols \in Seq(Strings), Mergeable # {}
  PROVE  BestPlace \in Mergeable
  <1> DEFINE Better(i) == \A j \in Mergeable :
                            Rank(i) < Rank(j) \/ (Rank(i) = Rank(j) /\ i <= j)
  <1>1. Mergeable \subseteq Nat
    BY DEF Mergeable
  <1>2. \A i \in Mergeable : Rank(i) \in Nat
    <2> TAKE i \in Mergeable
    <2>1. tokenizer.merges \in Seq(Strings \X Strings)
      BY TokenizerAssumption
    <2>2. \E r \in DOMAIN tokenizer.merges :
            tokenizer.merges[r] = <<symbols[i], symbols[i + 1]>>
      BY DEF Mergeable, Range
    <2>3. Rank(i) \in DOMAIN tokenizer.merges
      BY <2>2 DEF Rank
    <2> QED
      BY <2>1, <2>3
  <1> DEFINE Ranks == { Rank(i) : i \in Mergeable }
  <1>3. PICK r \in Ranks : \A q \in Ranks : r <= q
    <2>1. Ranks \subseteq Nat /\ Ranks # {}
      BY <1>2
    <2> HIDE DEF Ranks
    <2> QED
      BY <2>1, LeastOf
  <1> DEFINE Places == { i \in Mergeable : Rank(i) = r }
  <1>4. PICK i \in Places : \A k \in Places : i <= k
    <2>1. Places \subseteq Nat /\ Places # {}
      BY <1>1, <1>3
    <2> HIDE DEF Places
    <2> QED
      BY <2>1, LeastOf
  <1>5. Better(i)
    <2> SUFFICES ASSUME NEW j \in Mergeable
                 PROVE  Rank(i) < Rank(j) \/ (Rank(i) = Rank(j) /\ i <= j)
      OBVIOUS
    <2>1. Rank(i) = r /\ Rank(i) \in Nat /\ Rank(j) \in Nat /\ r <= Rank(j)
      BY <1>2, <1>3, <1>4
    <2>2. Rank(j) = r => i <= j
      BY <1>4
    <2> QED
      BY <2>1, <2>2
  <1>6. \E k \in Mergeable : Better(k)
    BY <1>4, <1>5
  <1> QED
    BY <1>6 DEF BestPlace

-----------------------------------------------------------------------------
(* What the search for the next special token returns.                     *)

Specials == tokenizer.specials

\* An occurrence of a special token.
Occurs(s, at) == s \in Range(Specials) /\ s # <<>> /\ at \in Nat /\ Stands(s, at)

TextTypes ==
  /\ text \in Strings /\ tokenizer \in Tokenizers
  /\ special \in BOOLEAN

LEMMA SpecialTypes ==
  ASSUME TextTypes
  PROVE  /\ Specials \in Seq(Strings) /\ Len(Specials) \in Nat
         /\ Len(text) \in Nat
         /\ \A i \in 1 .. Len(Specials) : Specials[i] \in Strings
         /\ \A s \in Range(Specials) : s \in Strings /\ Len(s) \in Nat
         /\ \A s \in Range(Specials) : \E i \in 1 .. Len(Specials) : s = Specials[i]
  <1>1. Specials \in Seq(Strings) /\ text \in Strings
    BY TokenizerAssumption DEF TextTypes, Specials
  <1>2. Len(Specials) \in Nat /\ DOMAIN Specials = 1 .. Len(Specials)
    BY <1>1
  <1>3. \A i \in 1 .. Len(Specials) : Specials[i] \in Strings
    BY <1>1
  <1>4. \A s \in Strings : Len(s) \in Nat
    BY DEF Strings
  <1>5. \A s \in Range(Specials) : \E i \in 1 .. Len(Specials) : s = Specials[i]
    BY <1>2 DEF Range
  <1> QED
    BY <1>1, <1>2, <1>3, <1>4, <1>5

\* What found is, as the search goes through the first tokens.
Searches(found, from) ==
  /\ found \in [0 .. Len(Specials) -> 0 .. Len(text)]
  /\ found[0] = Len(text)
  /\ \A i \in 1 .. Len(Specials) :
       found[i] = EarlierStart(Specials[i], from, found[i - 1])

(* One token of the search: nothing earlier, or its first place.           *)
LEMMA EarlierStartIs ==
  ASSUME TextTypes, NEW s \in Strings, NEW from \in Nat, NEW before \in 0 .. Len(text)
  PROVE  /\ EarlierStart(s, from, before) \in 0 .. before
         /\ EarlierStart(s, from, before) # before =>
              /\ s # <<>> /\ from <= EarlierStart(s, from, before)
              /\ EarlierStart(s, from, before) + Len(s) <= before
              /\ Stands(s, EarlierStart(s, from, before))
         /\ s # <<>> =>
              \A at \in Nat :
                from <= at /\ at + Len(s) <= before /\ Stands(s, at) =>
                  EarlierStart(s, from, before) <= at
  <1> DEFINE starts == { at \in from .. before - Len(s) : Stands(s, at) }
             e == EarlierStart(s, from, before)
  <1>1. Len(s) \in Nat /\ (Len(s) = 0 <=> s = <<>>) /\ before \in Nat
    BY SpecialTypes DEF Strings
  <1>2. starts \subseteq Nat
    BY <1>1
  <1>3. CASE Len(s) = 0 \/ starts = {}
    <2>1. e = before
      BY <1>3 DEF EarlierStart
    <2>2. ASSUME s # <<>>, NEW at \in Nat, from <= at, at + Len(s) <= before, Stands(s, at)
          PROVE  FALSE
      <3>1. at \in from .. before - Len(s)
        BY <1>1, <2>2
      <3> QED
        BY <1>1, <1>3, <2>2, <3>1
    <2> HIDE DEF e, starts
    <2> QED
      BY <1>1, <2>1, <2>2 DEF e
  <1>4. CASE Len(s) # 0 /\ starts # {}
    <2>1. e = Min(starts)
      BY <1>4 DEF EarlierStart
    <2> HIDE DEF e
    <2>2. e \in starts /\ \A k \in starts : e <= k
      <3> HIDE DEF starts
      <3> QED
        BY <1>2, <1>4, <2>1, MinIsLeast
    <2>3. e \in Nat /\ from <= e /\ e + Len(s) <= before /\ Stands(s, e)
      BY <1>1, <2>2
    <2>4. ASSUME NEW at \in Nat, from <= at, at + Len(s) <= before, Stands(s, at)
          PROVE  e <= at
      <3>1. at \in starts
        BY <1>1, <2>4
      <3> QED
        BY <2>2, <3>1
    <2> QED
      BY <1>1, <1>4, <2>3, <2>4 DEF e
  <1> QED
    BY <1>3, <1>4

LEMMA SearchExists ==
  ASSUME TextTypes, NEW from \in Nat
  PROVE  \E found : Searches(found, from) /\ NextSpecialOffset(from) = found[Len(Specials)]
  <1> DEFINE n == Len(Specials)
             V == 0 .. Len(text)
             next == [p \in (1 .. n) \X V |-> EarlierStart(Specials[p[1]], from, p[2])]
             Def(g) == g = [i \in 0 .. n |->
                              IF i = 0 THEN Len(text)
                              ELSE EarlierStart(Specials[i], from, g[i - 1])]
  <1>1. n \in Nat /\ Len(text) \in V
    BY SpecialTypes
  <1>2. next \in [(1 .. n) \X V -> V]
    <2>1. ASSUME NEW p \in (1 .. n) \X V
          PROVE  EarlierStart(Specials[p[1]], from, p[2]) \in V
      <3> DEFINE s == Specials[p[1]]
                 before == p[2]
      <3>1. s \in Strings /\ before \in 0 .. Len(text)
        BY SpecialTypes
      <3> HIDE DEF s, before, n, V, next, Def
      <3>2. EarlierStart(s, from, before) \in 0 .. before
        BY <3>1, EarlierStartIs
      <3>3. EarlierStart(s, from, before) \in V
        BY <1>1, <3>1, <3>2 DEF V
      <3> QED
        BY <3>3 DEF s, before
    <2> QED
      BY <2>1
  <1>3. PICK f : Iterates(f, n, V, Len(text), next)
    <2>1. IsNext(next, n, V)
      BY <1>2 DEF IsNext
    <2> HIDE DEF n, V, next, Def
    <2> QED
      BY <1>1, <2>1, RecursionExists
  <1> USE DEF Iterates
  <1>4. \A i \in 1 .. n : f[i] = EarlierStart(Specials[i], from, f[i - 1])
    <2> TAKE i \in 1 .. n
    <2>1. i - 1 \in 0 .. n /\ f[i - 1] \in V
      BY <1>1, <1>3
    <2>2. <<i, f[i - 1]>> \in (1 .. n) \X V
      BY <2>1
    <2> QED
      BY <1>3, <2>2
  <1>5. Def(f)
    <2>1. ASSUME NEW i \in 0 .. n
          PROVE  f[i] = IF i = 0 THEN Len(text) ELSE EarlierStart(Specials[i], from, f[i - 1])
      BY <1>1, <1>3, <1>4
    <2> QED
      BY <1>3, <2>1
  <1> DEFINE g == CHOOSE h : Def(h)
  <1>6. Def(g)
    BY <1>5
  <1>7. NextSpecialOffset(from) = g[n]
    BY DEF NextSpecialOffset, Specials
  <1>8. \A i \in 0 .. n :
          g[i] = IF i = 0 THEN Len(text) ELSE EarlierStart(Specials[i], from, g[i - 1])
    BY <1>6
  <1> HIDE DEF g, Def
  <1>9. ASSUME NEW i \in 1 .. n, g[i - 1] \in V PROVE g[i] \in V
    <2> DEFINE s == Specials[i]
               before == g[i - 1]
    <2>1. s \in Strings /\ before \in 0 .. Len(text) /\ i \in 0 .. n /\ i # 0
      BY <1>1, <1>9, SpecialTypes
    <2>2. g[i] = EarlierStart(s, from, before)
      BY <1>8, <2>1
    <2> HIDE DEF s, before
    <2>3. EarlierStart(s, from, before) \in 0 .. before
      BY <2>1, EarlierStartIs
    <2> QED
      BY <1>1, <2>1, <2>2, <2>3
  <1> DEFINE Outside == { i \in 0 .. n : g[i] \notin V }
  <1>10. Outside = {}
    <2> SUFFICES ASSUME Outside # {} PROVE FALSE
      OBVIOUS
    <2>1. PICK i \in Outside : \A k \in Outside : i <= k
      <3>1. Outside \subseteq Nat
        OBVIOUS
      <3> HIDE DEF Outside
      <3> QED
        BY <3>1, LeastOf
    <2>2. i # 0
      BY <1>1, <1>8, <2>1
    <2>3. i \in 1 .. n /\ i - 1 \in 0 .. n /\ i - 1 \notin Outside
      BY <1>1, <2>1, <2>2
    <2> QED
      BY <1>9, <2>1, <2>3
  <1>11. g \in [0 .. n -> V]
    BY <1>6, <1>10 DEF Def
  <1>12. Searches(g, from)
    BY <1>1, <1>8, <1>11 DEF Searches
  <1> QED
    BY <1>7, <1>12

\* One token of a search: the found offset moves to its first place, or stays.
LEMMA SearchStep ==
  ASSUME TextTypes, NEW from \in Nat, NEW found, Searches(found, from),
         NEW i \in 1 .. Len(Specials)
  PROVE  /\ found[i - 1] \in 0 .. Len(text) /\ found[i] \in 0 .. found[i - 1]
         /\ found[i] # found[i - 1] =>
              Occurs(Specials[i], found[i]) /\ from <= found[i]
              /\ found[i] + Len(Specials[i]) <= found[i - 1]
         /\ Specials[i] # <<>> =>
              \A at \in Nat :
                from <= at /\ at + Len(Specials[i]) <= found[i - 1]
                /\ Stands(Specials[i], at) => found[i] <= at
  <1> DEFINE s == Specials[i]
             before == found[i - 1]
  <1>1. s \in Strings /\ s \in Range(Specials)
    BY SpecialTypes DEF Range
  <1>2. before \in 0 .. Len(text) /\ found[i] = EarlierStart(s, from, before)
    <2>1. i - 1 \in 0 .. Len(Specials)
      BY SpecialTypes
    <2> QED
      BY <2>1 DEF Searches
  <1>3. before \in Nat
    BY <1>2, SpecialTypes
  <1> HIDE DEF s, before
  <1> DEFINE e == found[i]
  <1>4. e = EarlierStart(s, from, before)
    BY <1>2
  <1> HIDE DEF e
  <1>5. /\ e \in 0 .. before
        /\ e # before => /\ s # <<>> /\ from <= e
                         /\ e + Len(s) <= before /\ Stands(s, e)
        /\ s # <<>> => \A at \in Nat :
             from <= at /\ at + Len(s) <= before /\ Stands(s, at) => e <= at
    BY <1>1, <1>2, <1>4, EarlierStartIs
  <1>6. e # before => Occurs(s, e)
    BY <1>1, <1>3, <1>5 DEF Occurs
  <1> QED
    BY <1>2, <1>5, <1>6 DEF s, before, e

LEMMA SearchDescends ==
  ASSUME TextTypes, NEW from \in Nat, NEW found, Searches(found, from),
         NEW i \in 0 .. Len(Specials)
  PROVE  found[Len(Specials)] <= found[i]
  <1> DEFINE n == Len(Specials)
             Below == { k \in 0 .. n : k < i \/ found[k] <= found[i] }
  <1>1. n \in Nat /\ \A k \in 0 .. n : found[k] \in Nat
    BY SpecialTypes DEF Searches
  <1>2. 0 \in Below
    BY <1>1
  <1>3. \A k \in 1 .. n : k - 1 \in Below => k \in Below
    <2> TAKE k \in 1 .. n
    <2> HAVE k - 1 \in Below
    <2>1. k \in 0 .. n /\ k - 1 \in 0 .. n
      BY <1>1
    <2>2. found[k] \in Nat /\ found[k - 1] \in Nat /\ found[k] <= found[k - 1]
      BY <1>1, <2>1, SearchStep
    <2>3. k < i \/ found[k] <= found[i]
      BY <1>1, <2>1, <2>2
    <2> QED
      BY <2>1, <2>3
  <1> HIDE DEF Below
  <1>4. n \in Below
    BY <1>1, <1>2, <1>3, InductionUpto
  <1> QED
    BY <1>1, <1>4 DEF Below

(* No special token stands between the start of a search and its result.   *)
LEMMA NothingWithin ==
  ASSUME TextTypes, NEW from \in Nat, NEW s, NEW at, Occurs(s, at),
         from <= at, at + Len(s) <= NextSpecialOffset(from)
  PROVE  FALSE
  <1>1. PICK found : Searches(found, from) /\ NextSpecialOffset(from) = found[Len(Specials)]
    BY SearchExists
  <1>2. PICK i \in 1 .. Len(Specials) : s = Specials[i]
    BY SpecialTypes DEF Occurs
  <1>3. i \in 0 .. Len(Specials)
    BY SpecialTypes
  <1> DEFINE e == found[Len(Specials)]
             here == found[i]
             before == found[i - 1]
  <1>4. e <= here /\ before \in Nat /\ here \in 0 .. before
    BY <1>1, <1>3, SpecialTypes, SearchStep, SearchDescends
  <1>5. at \in Nat /\ Len(s) \in Nat /\ Len(s) > 0 /\ Stands(s, at)
    BY SpecialTypes DEF Occurs, Strings
  <1>6. e \in Nat
    <2>1. Len(Specials) \in 0 .. Len(Specials) /\ Len(text) \in Nat
      BY SpecialTypes
    <2>2. found \in [0 .. Len(Specials) -> 0 .. Len(text)]
      BY <1>1 DEF Searches
    <2> QED
      BY <2>1, <2>2
  <1>7. at + Len(s) <= e
    BY <1>1
  <1>8. from <= at /\ at + Len(s) <= before /\ Stands(s, at) => here <= at
    BY <1>1, <1>2, <1>5, SearchStep DEF Occurs
  <1> HIDE DEF e, here, before
  <1> QED
    BY <1>4, <1>5, <1>6, <1>7, <1>8

(* A search ends at a special token or at the end of the text.             *)
LEMMA OffsetIsSpecial ==
  ASSUME TextTypes, NEW from \in Nat, from <= Len(text)
  PROVE  /\ NextSpecialOffset(from) \in from .. Len(text)
         /\ NextSpecialOffset(from) # Len(text) =>
              \E s : Occurs(s, NextSpecialOffset(from))
  <1>1. PICK found : Searches(found, from) /\ NextSpecialOffset(from) = found[Len(Specials)]
    BY SearchExists
  <1> DEFINE n == Len(Specials)
             Good == { k \in 0 .. n : \/ found[k] = Len(text)
                                      \/ from <= found[k] /\ \E s : Occurs(s, found[k]) }
  <1>2. n \in Nat /\ \A k \in 0 .. n : found[k] \in 0 .. Len(text)
    BY <1>1, SpecialTypes DEF Searches
  <1>3. 0 \in Good
    BY <1>1, <1>2 DEF Searches
  <1>4. \A k \in 1 .. n : k - 1 \in Good => k \in Good
    <2> TAKE k \in 1 .. n
    <2> HAVE k - 1 \in Good
    <2>1. k \in 0 .. n
      BY <1>2
    <2>2. found[k] # found[k - 1] => Occurs(Specials[k], found[k]) /\ from <= found[k]
      BY <1>1, SearchStep
    <2>3. \/ found[k] = Len(text)
          \/ from <= found[k] /\ \E s : Occurs(s, found[k])
      BY <2>2
    <2> QED
      BY <2>1, <2>3
  <1> HIDE DEF Good
  <1>5. n \in Good
    BY <1>2, <1>3, <1>4, InductionUpto
  <1>6. \/ found[n] = Len(text)
        \/ from <= found[n] /\ \E s : Occurs(s, found[n])
    BY <1>5 DEF Good
  <1>7. found[n] \in 0 .. Len(text) /\ Len(text) \in Nat
    BY <1>2, SpecialTypes
  <1> DEFINE e == NextSpecialOffset(from)
  <1>8. e = found[n]
    BY <1>1
  <1> HIDE DEF e, n
  <1> QED
    BY <1>6, <1>7, <1>8 DEF e

(* A search that starts later, and not after the result, has that result.  *)
LEMMA OffsetStable ==
  ASSUME TextTypes, NEW from \in Nat, NEW later \in Nat,
         from <= later, later <= NextSpecialOffset(from)
  PROVE  NextSpecialOffset(later) = NextSpecialOffset(from)
  <1>1. PICK f : Searches(f, from) /\ NextSpecialOffset(from) = f[Len(Specials)]
    BY SearchExists
  <1>2. PICK g : Searches(g, later) /\ NextSpecialOffset(later) = g[Len(Specials)]
    BY SearchExists
  <1> DEFINE n == Len(Specials)
             Same == { k \in 0 .. n : g[k] = f[k] \/ f[k] < later }
  <1>3. n \in Nat /\ \A k \in 0 .. n : f[k] \in Nat /\ g[k] \in Nat
    BY <1>1, <1>2, SpecialTypes DEF Searches
  <1>4. 0 \in Same
    BY <1>1, <1>2, <1>3 DEF Searches
  <1>5. \A k \in 1 .. n : k - 1 \in Same => k \in Same
    <2> TAKE k \in 1 .. n
    <2> HAVE k - 1 \in Same
    <2> DEFINE s == Specials[k]
               before == f[k - 1]
               u == f[k]
               v == g[k]
    <2>1. k \in 0 .. n /\ k - 1 \in 0 .. n
      BY <1>3
    <2>2. u \in Nat /\ v \in Nat /\ before \in Nat /\ u <= before
      BY <1>1, <1>3, <2>1, SearchStep
    <2>3. CASE f[k - 1] < later
      <3>1. u < later
        BY <2>2, <2>3
      <3> QED
        BY <2>1, <3>1
    <2>4. CASE g[k - 1] = f[k - 1] /\ ~(f[k] < later)
      <3>1. /\ u # before => s # <<>> /\ Stands(s, u) /\ u + Len(s) <= before
            /\ s # <<>> => \A at \in Nat :
                 from <= at /\ at + Len(s) <= before /\ Stands(s, at) => u <= at
        BY <1>1, SearchStep DEF Occurs
      <3>2. /\ v # before => /\ s # <<>> /\ later <= v /\ Stands(s, v)
                             /\ v + Len(s) <= before
            /\ s # <<>> => \A at \in Nat :
                 later <= at /\ at + Len(s) <= before /\ Stands(s, at) => v <= at
            /\ v <= before
        BY <1>2, <1>3, <2>1, <2>4, SearchStep DEF Occurs
      <3>3. later <= u
        BY <2>2, <2>4
      <3> HIDE DEF s, before, u, v
      <3>4. u # before => v <= u
        BY <2>2, <3>1, <3>2, <3>3
      <3>5. v # before => u <= v
        BY <2>2, <3>1, <3>2
      <3>6. v = u
        BY <2>2, <3>2, <3>4, <3>5
      <3> QED
        BY <2>1, <3>6 DEF u, v
    <2>5. CASE f[k] < later
      BY <2>1, <2>5
    <2> QED
      BY <2>3, <2>4, <2>5
  <1> HIDE DEF Same
  <1>6. n \in Same
    BY <1>3, <1>4, <1>5, InductionUpto
  <1>7. f[n] \in Nat /\ later <= f[n]
    BY <1>1, <1>3
  <1>8. g[n] = f[n]
    BY <1>6, <1>7 DEF Same
  <1> QED
    BY <1>1, <1>2, <1>8

\* A special token stands at an offset just if one is matched there.
LEMMA MatchIs ==
  ASSUME TextTypes, NEW at \in Nat
  PROVE  /\ \A s \in MatchSpecial(at) : Occurs(s, at) /\ s \in Strings
                                        /\ Len(s) \in Nat /\ Len(s) > 0
                                        /\ at + Len(s) <= Len(text)
         /\ (\E s : Occurs(s, at)) => MatchSpecial(at) # {}
  <1> DEFINE Standing == { s \in Range(Specials) : Len(s) > 0 /\ Stands(s, at) }
  <1>1. MatchSpecial(at) = { s \in Standing : \A t \in Standing : Len(t) <= Len(s) }
    BY DEF MatchSpecial, Specials
  <1>2. ASSUME NEW s \in Standing
        PROVE  /\ Occurs(s, at) /\ s \in Strings /\ Len(s) \in Nat /\ Len(s) > 0
               /\ at + Len(s) <= Len(text)
    BY <1>2, SpecialTypes DEF Occurs, Stands
  <1>3. ASSUME NEW s, Occurs(s, at)
        PROVE  MatchSpecial(at) # {}
    <2> DEFINE Lengths == { Len(t) : t \in Standing }
    <2>1. s \in Standing
      BY <1>3, SpecialTypes DEF Occurs, Strings
    <2>2. Lengths \subseteq 0 .. Len(text) /\ Lengths # {}
      <3>1. \A t \in Standing : Len(t) \in 0 .. Len(text)
        BY <1>2, SpecialTypes
      <3> QED
        BY <2>1, <3>1
    <2>3. Max(Lengths) \in Lengths /\ \A k \in Lengths : k <= Max(Lengths)
      <3>1. Len(text) \in Nat
        BY SpecialTypes
      <3> HIDE DEF Lengths
      <3> QED
        BY <2>2, <3>1, MaxIsGreatest
    <2>4. PICK t \in Standing : Max(Lengths) = Len(t)
      BY <2>3
    <2>5. \A u \in Standing : Len(u) <= Len(t)
      <3> TAKE u \in Standing
      <3>1. Len(u) \in Lengths
        OBVIOUS
      <3> QED
        BY <2>3, <2>4, <3>1
    <2> HIDE DEF Standing
    <2> QED
      BY <1>1, <2>4, <2>5
  <1> HIDE DEF Standing
  <1>4. \A s \in MatchSpecial(at) : s \in Standing
    BY <1>1
  <1> QED
    BY <1>2, <1>3, <1>4

-----------------------------------------------------------------------------
(* The inductive invariant.                                                *)

TokenRecords == [text : Strings, at : Int, special : BOOLEAN]

EncodeTypes ==
  /\ TextTypes
  /\ offset \in Nat /\ chunk \in Nat /\ offset + chunk <= Len(text)
  /\ symbols \in Seq(Strings)
  /\ tokens \in Seq(TokenRecords)
  /\ encoding \in {"begin", "scan", "done"} => chunk = 0 /\ symbols = <<>>

\* While a chunk is encoded no special token stands where it starts, and it
\* ends no later than the segment.
ChunkInSegment ==
  encoding \in {"merge", "emit"} =>
    /\ offset < Len(text) /\ offset + chunk <= SegmentEnd
    /\ special => MatchSpecial(offset) = {}

\* A special token was taken that overlaps this place.
Overlapped(s, at) ==
  \E i \in DOMAIN tokens :
    /\ tokens[i].special
    /\ tokens[i].at < at + Len(s)
    /\ at < tokens[i].at + Len(tokens[i].text)

\* An occurrence that starts before the offset and ends after it, though not
\* after the segment, is hidden by one that was taken.
StraddlersOverlapped ==
  special /\ offset < Len(text) /\ MatchSpecial(offset) = {} =>
    \A s, at :
      Occurs(s, at) /\ at < offset /\ offset < at + Len(s)
      /\ at + Len(s) <= NextSpecialOffset(offset + 1) => Overlapped(s, at)

EncodeInv ==
  /\ EncodeTypes /\ ChunkInSegment /\ StraddlersOverlapped
  /\ TokensSpellText /\ SpecialsTaken

LEMMA SameText ==
  ASSUME tokenizer' = tokenizer, text' = text
  PROVE  /\ \A o : NextSpecialOffset(o)' = NextSpecialOffset(o)
         /\ \A o : MatchSpecial(o)' = MatchSpecial(o)
         /\ \A s, at : Occurs(s, at)' <=> Occurs(s, at)
         /\ \A s, at : Stands(s, at)' <=> Stands(s, at)
         /\ Specials' = Specials
  <1>1. \A s, at : Stands(s, at)' <=> Stands(s, at)
    BY DEF Stands
  <1>2. Specials' = Specials
    BY DEF Specials
  <1>3. \A s, at : Occurs(s, at)' <=> Occurs(s, at)
    BY <1>1, <1>2 DEF Occurs
  <1>4. \A o : MatchSpecial(o)' = MatchSpecial(o)
    BY DEF MatchSpecial, Stands
  <1>5. \A o : NextSpecialOffset(o)' = NextSpecialOffset(o)
    BY DEF NextSpecialOffset, EarlierStart, Stands
  <1> QED
    BY <1>1, <1>2, <1>3, <1>4, <1>5

\* A token more: what overlapped before still does, and it is spelled last.
TextsOf(list) == [i \in DOMAIN list |-> list[i].text]

LEMMA TextsType ==
  ASSUME tokens \in Seq(TokenRecords)
  PROVE  TextsOf(tokens) \in Seq(Strings) /\ Len(TextsOf(tokens)) = Len(tokens)
  <1> DEFINE n == Len(tokens)
  <1>1. n \in Nat /\ DOMAIN tokens = 1 .. n /\ \A i \in 1 .. n : tokens[i] \in TokenRecords
    OBVIOUS
  <1>2. \A i \in 1 .. n : tokens[i].text \in Strings
    BY <1>1 DEF TokenRecords
  <1>3. TextsOf(tokens) = [i \in 1 .. n |-> tokens[i].text]
    BY <1>1 DEF TextsOf
  <1> QED
    BY <1>1, <1>2, <1>3

LEMMA OneTokenMore ==
  ASSUME tokens \in Seq(TokenRecords), NEW r \in TokenRecords, tokens' = Append(tokens, r)
  PROVE  /\ tokens' \in Seq(TokenRecords)
         /\ \A s, at : Overlapped(s, at) => Overlapped(s, at)'
         /\ \A s, at : r.special /\ r.at < at + Len(s) /\ at < r.at + Len(r.text) =>
                         Overlapped(s, at)'
         /\ TextsOf(tokens) \in Seq(Strings)
         /\ FlattenSeq(TextsOf(tokens')) = FlattenSeq(TextsOf(tokens)) \o r.text
  <1> DEFINE n == Len(tokens)
  <1>1. /\ tokens' \in Seq(TokenRecords) /\ n \in Nat /\ Len(tokens') = n + 1
        /\ DOMAIN tokens = 1 .. n /\ DOMAIN tokens' = 1 .. n + 1
    OBVIOUS
  <1>2. tokens'[n + 1] = r /\ \A i \in 1 .. n : tokens'[i] = tokens[i]
    OBVIOUS
  <1>3. \A s, at : Overlapped(s, at) => Overlapped(s, at)'
    <2> TAKE s, at
    <2> HAVE Overlapped(s, at)
    <2>1. PICK i \in 1 .. n :
            /\ tokens[i].special /\ tokens[i].at < at + Len(s)
            /\ at < tokens[i].at + Len(tokens[i].text)
      BY <1>1 DEF Overlapped
    <2>2. i \in DOMAIN tokens' /\ tokens'[i] = tokens[i]
      BY <1>1, <1>2
    <2> QED
      BY <2>1, <2>2 DEF Overlapped
  <1>4. \A s, at : r.special /\ r.at < at + Len(s) /\ at < r.at + Len(r.text) =>
                     Overlapped(s, at)'
    <2>1. n + 1 \in DOMAIN tokens'
      BY <1>1
    <2> QED
      BY <1>2, <2>1 DEF Overlapped
  <1>5. TextsOf(tokens) \in Seq(Strings) /\ Len(TextsOf(tokens)) = n
    BY TextsType
  <1>6. TextsOf(tokens') = Append(TextsOf(tokens), r.text)
    <2> DEFINE u == TextsOf(tokens)
               v == Append(u, r.text)
    <2>1. r.text \in Strings
      BY DEF TokenRecords
    <2>2. /\ Len(v) = n + 1 /\ v[n + 1] = r.text /\ v \in Seq(Strings)
          /\ \A i \in 1 .. n : v[i] = u[i]
      BY <1>1, <1>5, <2>1, AppendProperties
    <2>3. v = [i \in 1 .. n + 1 |-> v[i]]
      <3> HIDE DEF v
      <3> QED
        BY <1>1, <2>2
    <2>4. TextsOf(tokens') = [i \in 1 .. n + 1 |-> tokens'[i].text]
      BY <1>1 DEF TextsOf
    <2>5. \A i \in 1 .. n : u[i] = tokens[i].text
      BY <1>1 DEF TextsOf
    <2> HIDE DEF u, v, n
    <2>6. \A i \in 1 .. n + 1 : v[i] = tokens'[i].text
      <3> TAKE i \in 1 .. n + 1
      <3>1. i = n + 1 \/ i \in 1 .. n
        BY <1>1
      <3> QED
        BY <1>2, <2>2, <2>5, <3>1
    <2>7. v = TextsOf(tokens')
      BY <2>3, <2>4, <2>6
    <2> QED
      BY <2>7 DEF u, v
  <1>7. r.text \in Strings
    BY DEF TokenRecords
  <1>8. FlattenSeq(TextsOf(tokens')) = FlattenSeq(TextsOf(tokens)) \o r.text
    BY <1>5, <1>6, <1>7, FlattenAppend
  <1> QED
    BY <1>1, <1>3, <1>4, <1>5, <1>8

\* What a step that stays at its offset leaves true.
LEMMA SameOffset ==
  ASSUME EncodeInv, UNCHANGED <<tokenizer, text, special, offset>>,
         \A s, at : Overlapped(s, at) => Overlapped(s, at)'
  PROVE  StraddlersOverlapped' /\ SpecialsTaken' /\ TextTypes'
  <1>1. StraddlersOverlapped'
    <2> SUFFICES ASSUME special', offset' < Len(text'), MatchSpecial(offset)' = {},
                        NEW s, NEW at, Occurs(s, at)', at < offset',
                        offset' < at + Len(s),
                        at + Len(s) <= NextSpecialOffset(offset + 1)'
                 PROVE  Overlapped(s, at)'
      BY DEF StraddlersOverlapped
    <2>1. Occurs(s, at)
      BY SameText
    <2>2. MatchSpecial(offset) = {} /\ NextSpecialOffset(offset + 1)' = NextSpecialOffset(offset + 1)
      BY SameText
    <2>3. Overlapped(s, at)
      BY <2>1, <2>2 DEF StraddlersOverlapped, EncodeInv
    <2> QED
      BY <2>3
  <1>2. SpecialsTaken'
    <2> SUFFICES ASSUME special', NEW s \in Range(Specials') \ {<<>>},
                        NEW at \in 0 .. offset' - 1,
                        Stands(s, at)', at + Len(s) <= offset'
                 PROVE  Overlapped(s, at)'
      BY DEF SpecialsTaken, Overlapped, Specials
    <2>1. s \in Range(Specials) /\ s # <<>> /\ Stands(s, at)
      BY SameText
    <2>2. Overlapped(s, at)
      BY <2>1 DEF SpecialsTaken, Overlapped, Specials, EncodeInv
    <2> QED
      BY <2>2
  <1>3. TextTypes'
    BY DEF EncodeInv, EncodeTypes, TextTypes
  <1> QED
    BY <1>1, <1>2, <1>3

\* A step that changes nothing but the phase, and not into a chunk.
LEMMA SamePhaseKind ==
  ASSUME EncodeInv,
         UNCHANGED <<tokenizer, text, special, offset, chunk, symbols, tokens>>,
         encoding' \in {"begin", "scan", "done"} => chunk = 0 /\ symbols = <<>>,
         encoding' \in {"merge", "emit"} => encoding \in {"merge", "emit"}
  PROVE  EncodeInv'
  <1>1. \A s, at : Overlapped(s, at) => Overlapped(s, at)'
    BY DEF Overlapped
  <1>2. StraddlersOverlapped' /\ SpecialsTaken' /\ TextTypes'
    BY <1>1, SameOffset
  <1>3. EncodeTypes'
    BY <1>2 DEF EncodeInv, EncodeTypes
  <1>4. ChunkInSegment'
    BY SameText DEF EncodeInv, ChunkInSegment, SegmentEnd
  <1>5. TokensSpellText'
    BY DEF EncodeInv, TokensSpellText
  <1> QED
    BY <1>2, <1>3, <1>4, <1>5 DEF EncodeInv

LEMMA MarkKeeps ==
  ASSUME EncodeInv, chunk = 0, symbols = <<>>,
         NEW flag, NEW error, NEW next, Mark(flag, error, next),
         error \notin {"merge", "emit"}, next \notin {"merge", "emit"}
  PROVE  EncodeInv'
  <1>1. CASE Fail(error)
    BY <1>1, SamePhaseKind DEF Fail
  <1>2. CASE ~Fail(error) /\ flag # "on"
    BY <1>2, SamePhaseKind DEF Mark
  <1>3. CASE ~Fail(error) /\ flag = "on"
    <2> DEFINE r == [text |-> <<>>, at |-> offset, special |-> TRUE]
    <2>1. /\ tokens' = Append(tokens, r) /\ encoding' = next
          /\ UNCHANGED <<tokenizer, text, special, offset, chunk, symbols, work>>
      BY <1>3 DEF Mark, Emit
    <2>2. r \in TokenRecords /\ tokens \in Seq(TokenRecords)
      BY StringFacts DEF TokenRecords, EncodeInv, EncodeTypes
    <2>3. r.text = <<>>
      OBVIOUS
    <2> HIDE DEF r
    <2>4. /\ tokens' \in Seq(TokenRecords)
          /\ \A s, at : Overlapped(s, at) => Overlapped(s, at)'
          /\ TextsOf(tokens) \in Seq(Strings)
          /\ FlattenSeq(TextsOf(tokens')) = FlattenSeq(TextsOf(tokens)) \o <<>>
      BY <2>1, <2>2, <2>3, OneTokenMore
    <2>5. StraddlersOverlapped' /\ SpecialsTaken' /\ TextTypes'
      BY <2>1, <2>4, SameOffset
    <2>6. EncodeTypes'
      BY <2>1, <2>4, <2>5 DEF EncodeInv, EncodeTypes
    <2>7. ChunkInSegment'
      BY <2>1 DEF ChunkInSegment
    <2>8. TokensSpellText'
      <3>1. FlattenSeq(TextsOf(tokens)) \o <<>> = FlattenSeq(TextsOf(tokens))
        BY <2>4, FlattenType, StringFacts
      <3>2. FlattenSeq(TextsOf(tokens')) = FlattenSeq(TextsOf(tokens))
        BY <2>4, <3>1
      <3> QED
        BY <2>1, <3>2 DEF EncodeInv, TokensSpellText, TextsOf
    <2> QED
      BY <2>5, <2>6, <2>7, <2>8 DEF EncodeInv
  <1> QED
    BY <1>1, <1>2, <1>3

LEMMA TakeSpecialKeeps ==
  ASSUME EncodeInv, TakeSpecial
  PROVE  EncodeInv'
  <1> USE DEF EncodeInv
  <1>1. /\ special /\ encoding = "scan" /\ chunk = 0 /\ symbols = <<>> /\ TextTypes
        /\ offset \in Nat /\ offset < Len(text) /\ tokens \in Seq(TokenRecords)
    BY DEF TakeSpecial, EncodeTypes
  <1>2. PICK s \in MatchSpecial(offset) :
          IF Len(tokens) >= Capacity
          THEN Fail("token output capacity exceeded")
          ELSE /\ Emit(s, offset, TRUE)
               /\ offset' = offset + Len(s)
               /\ UNCHANGED <<tokenizer, text, special, chunk, symbols, work, encoding>>
    BY DEF TakeSpecial
  <1>3. CASE Len(tokens) >= Capacity
    BY <1>1, <1>2, <1>3, SamePhaseKind DEF Fail
  <1>4. CASE ~(Len(tokens) >= Capacity)
    <2> DEFINE r == [text |-> s, at |-> offset, special |-> TRUE]
    <2>1. /\ tokens' = Append(tokens, r) /\ offset' = offset + Len(s)
          /\ UNCHANGED <<tokenizer, text, special, chunk, symbols, encoding>>
      BY <1>2, <1>4 DEF Emit
    <2>2. /\ Occurs(s, offset) /\ s \in Strings /\ Len(s) \in Nat /\ Len(s) > 0
          /\ offset + Len(s) <= Len(text)
      BY <1>1, MatchIs
    <2>3. r \in TokenRecords /\ r.text = s /\ r.at = offset /\ r.special
      BY <1>1, <2>2 DEF TokenRecords
    <2> HIDE DEF r
    <2>4. /\ tokens' \in Seq(TokenRecords)
          /\ \A t, at : Overlapped(t, at) => Overlapped(t, at)'
          /\ \A t, at : offset < at + Len(t) /\ at < offset + Len(s) => Overlapped(t, at)'
          /\ TextsOf(tokens) \in Seq(Strings)
          /\ FlattenSeq(TextsOf(tokens')) = FlattenSeq(TextsOf(tokens)) \o s
      BY <1>1, <2>1, <2>3, OneTokenMore
    <2>5. TextTypes'
      BY <1>1, <2>1 DEF TextTypes
    <2>6. EncodeTypes'
      BY <1>1, <2>1, <2>2, <2>4, <2>5 DEF EncodeTypes
    <2>7. ChunkInSegment'
      BY <1>1, <2>1 DEF ChunkInSegment
    <2>8. StraddlersOverlapped'
      <3> SUFFICES ASSUME NEW t, NEW at, Occurs(t, at)', at < offset',
                          offset' < at + Len(t)
                   PROVE  Overlapped(t, at)'
        BY DEF StraddlersOverlapped
      <3>1. Occurs(t, at)
        BY <2>1, SameText
      <3>2. at \in Nat /\ Len(t) \in Nat
        BY <1>1, <3>1, SpecialTypes DEF Occurs
      <3>3. offset < at + Len(t) /\ at < offset + Len(s)
        BY <1>1, <2>1, <2>2, <3>2
      <3> QED
        BY <2>4, <3>3
    <2>9. SpecialsTaken'
      <3> SUFFICES ASSUME NEW t \in Range(Specials') \ {<<>>},
                          NEW at \in 0 .. offset' - 1,
                          Stands(t, at)', at + Len(t) <= offset'
                   PROVE  Overlapped(t, at)'
        BY DEF SpecialsTaken, Overlapped, Specials
      <3>1. t \in Range(Specials) /\ t # <<>> /\ Stands(t, at)
        BY <2>1, SameText
      <3>2. at \in Nat /\ Len(t) \in Nat /\ Len(t) > 0 /\ at < offset + Len(s)
        <4>1. offset' \in Nat /\ offset' = offset + Len(s)
          BY <1>1, <2>1, <2>2
        <4>2. t \in Seq(Chars)
          BY <1>1, <3>1, SpecialTypes DEF Strings
        <4> QED
          BY <3>1, <4>1, <4>2
      <3>3. CASE at + Len(t) <= offset
        <4>1. at \in 0 .. offset - 1
          BY <1>1, <3>2, <3>3
        <4>2. Overlapped(t, at)
          BY <1>1, <3>1, <3>3, <4>1 DEF SpecialsTaken, Overlapped, Specials
        <4> QED
          BY <2>4, <4>2
      <3>4. CASE offset < at + Len(t)
        BY <2>4, <3>2, <3>4
      <3> QED
        BY <1>1, <3>2, <3>3, <3>4
    <2>10. TokensSpellText'
      <3> DEFINE F == FlattenSeq(TextsOf(tokens))
      <3>1. F \in Strings
        BY <2>4, FlattenType
      <3>2. FlattenSeq(symbols) = <<>>
        BY <1>1, FlattenEmpty
      <3>3. F \o <<>> = SubSeq(text, 1, offset + 0)
        BY <1>1, <3>2 DEF TokensSpellText, TextsOf
      <3>4. F = SubSeq(text, 1, offset)
        <4> HIDE DEF F
        <4>1. F \o <<>> = F /\ offset + 0 = offset
          BY <1>1, <3>1, StringFacts
        <4> QED
          BY <3>3, <4>1
      <3>5. s = SubSeq(text, offset + 1, offset + Len(s))
        BY <2>2 DEF Occurs, Stands
      <3>6. SubSeq(text, 1, offset) \o SubSeq(text, offset + 1, offset + Len(s))
              = SubSeq(text, 1, offset + Len(s))
        <4>1. text \in Seq(Chars) /\ Len(text) \in Nat
          BY <1>1 DEF TextTypes, Strings
        <4>2. /\ 1 \in 1 .. Len(text) + 1 /\ offset \in 1 - 1 .. Len(text)
              /\ offset + Len(s) \in offset .. Len(text)
          BY <1>1, <2>2, <4>1
        <4> QED
          BY <4>1, <4>2, ConcatAdjacentSubSeq
      <3>7. F \o s = SubSeq(text, 1, offset + Len(s))
        <4> HIDE DEF F
        <4> QED
          BY <3>4, <3>5, <3>6
      <3>8. F \o s \in Strings
        BY <2>2, <3>1, StringFacts
      <3>9. FlattenSeq(TextsOf(tokens')) = F \o s
        BY <2>4
      <3>10. FlattenSeq(symbols') = <<>> /\ offset' + chunk' = offset + Len(s)
        BY <1>1, <2>1, <2>2, <3>2
      <3>11. FlattenSeq(TextsOf(tokens')) \o FlattenSeq(symbols') = F \o s
        <4> HIDE DEF F
        <4>1. (F \o s) \o <<>> = F \o s
          BY <3>8, StringFacts
        <4> QED
          BY <3>9, <3>10, <4>1
      <3>12. text' = text
        BY <2>1
      <3> HIDE DEF F
      <3> QED
        BY <3>7, <3>10, <3>11, <3>12 DEF TokensSpellText, TextsOf
    <2> QED
      BY <2>6, <2>7, <2>8, <2>9, <2>10
  <1> QED
    BY <1>3, <1>4

LEMMA StartChunkKeeps ==
  ASSUME EncodeInv, StartChunk
  PROVE  EncodeInv'
  <1> USE DEF EncodeInv
  <1>1. /\ encoding = "scan" /\ chunk = 0 /\ symbols = <<>> /\ TextTypes
        /\ offset \in Nat /\ offset < Len(text) /\ tokens \in Seq(TokenRecords)
        /\ special => MatchSpecial(offset) = {}
    BY DEF StartChunk, EncodeTypes
  <1>2. PICK n \in 1 .. Len(text) :
          /\ offset + n <= SegmentEnd /\ chunk' = n
          /\ symbols' = [i \in 1 .. n |-> <<text[offset + i]>>]
    BY DEF StartChunk
  <1>3. encoding' = "merge" /\ UNCHANGED <<tokenizer, text, special, offset, tokens>>
    BY DEF StartChunk
  <1>4. n \in Nat /\ Len(text) \in Nat /\ offset + n <= Len(text)
    <2>1. SegmentEnd \in Nat /\ SegmentEnd <= Len(text)
      <3>1. offset + 1 \in Nat /\ offset + 1 <= Len(text) /\ Len(text) \in Nat
        BY <1>1, SpecialTypes
      <3>2. NextSpecialOffset(offset + 1) \in offset + 1 .. Len(text)
        BY <1>1, <3>1, OffsetIsSpecial
      <3> QED
        BY <3>1, <3>2 DEF SegmentEnd
    <2> QED
      BY <1>1, <1>2, <2>1, SpecialTypes
  <1>5. symbols' \in Seq(Strings)
        /\ FlattenSeq(symbols') = SubSeq(text, offset + 1, offset + n)
    <2>1. text \in Strings
      BY <1>1 DEF TextTypes
    <2> QED
      BY <1>1, <1>2, <1>4, <2>1, FlattenBytes
  <1>6. StraddlersOverlapped' /\ SpecialsTaken' /\ TextTypes'
    <2>1. \A s, at : Overlapped(s, at) => Overlapped(s, at)'
      BY <1>3 DEF Overlapped
    <2> QED
      BY <1>3, <2>1, SameOffset
  <1>7. EncodeTypes'
    BY <1>1, <1>2, <1>3, <1>4, <1>5, <1>6 DEF EncodeTypes
  <1>8. ChunkInSegment'
    <2>1. MatchSpecial(offset)' = MatchSpecial(offset) /\ SegmentEnd' = SegmentEnd
      BY <1>3, SameText DEF SegmentEnd
    <2> QED
      BY <1>1, <1>2, <1>3, <2>1 DEF ChunkInSegment
  <1>9. TokensSpellText'
    <2> DEFINE F == FlattenSeq(TextsOf(tokens))
    <2>1. F \o <<>> = SubSeq(text, 1, offset + 0)
      BY <1>1, FlattenEmpty DEF TokensSpellText, TextsOf
    <2>2. F \in Strings
      BY <1>1, TextsType, FlattenType
    <2> HIDE DEF F
    <2>3. F = SubSeq(text, 1, offset)
      <3>1. F \o <<>> = F /\ offset + 0 = offset
        BY <1>1, <2>2, StringFacts
      <3> QED
        BY <2>1, <3>1
    <2>4. SubSeq(text, 1, offset) \o SubSeq(text, offset + 1, offset + n)
            = SubSeq(text, 1, offset + n)
      <3>1. text \in Seq(Chars) /\ Len(text) \in Nat
        BY <1>1 DEF TextTypes, Strings
      <3>2. /\ 1 \in 1 .. Len(text) + 1 /\ offset \in 1 - 1 .. Len(text)
            /\ offset + n \in offset .. Len(text)
        BY <1>1, <1>4, <3>1
      <3> QED
        BY <3>1, <3>2, ConcatAdjacentSubSeq
    <2>5. F \o FlattenSeq(symbols') = SubSeq(text, 1, offset + n)
      BY <1>5, <2>3, <2>4
    <2>6. FlattenSeq(TextsOf(tokens')) = F /\ offset' + chunk' = offset + n /\ text' = text
      BY <1>2, <1>3 DEF F
    <2> QED
      BY <2>5, <2>6 DEF TokensSpellText, TextsOf
  <1> QED
    BY <1>6, <1>7, <1>8, <1>9

LEMMA MergePassKeeps ==
  ASSUME EncodeInv, MergePass
  PROVE  EncodeInv'
  <1> USE DEF EncodeInv
  <1>1. /\ encoding = "merge" /\ TextTypes /\ symbols \in Seq(Strings)
        /\ UNCHANGED <<tokenizer, text, special, offset, chunk, tokens>>
    BY DEF MergePass, Fail, EncodeTypes
  <1>2. CASE UNCHANGED symbols
    <2>1. encoding' \in {"emit", "merge", "BPE work limit exceeded"}
      BY <1>1 DEF MergePass, Fail
    <2> QED
      BY <1>1, <1>2, <2>1, SamePhaseKind
  <1>3. CASE symbols' # symbols
    <2>1. symbols' = MergedAt(BestPlace) /\ Mergeable # {} /\ encoding' = "merge"
      BY <1>1, <1>3 DEF MergePass, Fail
    <2>2. BestPlace \in 1 .. Len(symbols) - 1
      <3>1. BestPlace \in Mergeable
        BY <1>1, <2>1, BestPlaceIs DEF TextTypes
      <3> QED
        BY <3>1 DEF Mergeable
    <2>3. symbols' \in Seq(Strings) /\ FlattenSeq(symbols') = FlattenSeq(symbols)
      BY <1>1, <2>1, <2>2, FlattenMerge
    <2>4. StraddlersOverlapped' /\ SpecialsTaken' /\ TextTypes'
      <3>1. \A s, at : Overlapped(s, at) => Overlapped(s, at)'
        BY <1>1 DEF Overlapped
      <3> QED
        BY <1>1, <3>1, SameOffset
    <2>5. EncodeTypes'
      BY <1>1, <2>1, <2>3, <2>4 DEF EncodeTypes
    <2>6. ChunkInSegment'
      BY <1>1, <2>1, SameText DEF ChunkInSegment, SegmentEnd
    <2>7. TokensSpellText'
      BY <1>1, <2>3 DEF TokensSpellText
    <2> QED
      BY <2>4, <2>5, <2>6, <2>7
  <1> QED
    BY <1>2, <1>3

LEMMA EmitSymbolKeeps ==
  ASSUME EncodeInv, EmitSymbol
  PROVE  EncodeInv'
  <1> USE DEF EncodeInv
  <1>1. /\ encoding = "emit" /\ symbols # <<>> /\ symbols \in Seq(Strings)
        /\ tokens \in Seq(TokenRecords) /\ TextTypes /\ offset \in Nat /\ chunk \in Nat
    BY DEF EmitSymbol, EncodeTypes
  <1>2. CASE UNCHANGED symbols
    <2>1. /\ encoding' # "merge" /\ encoding' # "scan" /\ encoding' # "done"
          /\ encoding' # "begin"
          /\ UNCHANGED <<tokenizer, text, special, offset, chunk, tokens>>
      <3>1. Tail(symbols) # symbols
        BY <1>1
      <3> QED
        BY <1>1, <1>2, <3>1 DEF EmitSymbol, Fail
    <2> QED
      BY <1>1, <1>2, <2>1, SamePhaseKind
  <1>3. CASE symbols' # symbols
    <2> DEFINE h == Head(symbols)
               r == [text |-> h, at |-> offset + EmittedBytes, special |-> FALSE]
    <2>1. /\ tokens' = Append(tokens, r) /\ symbols' = Tail(symbols)
          /\ UNCHANGED <<tokenizer, text, special, offset, chunk, encoding>>
      BY <1>3 DEF EmitSymbol, Emit, Fail
    <2>2. h \in Strings /\ symbols' \in Seq(Strings)
      BY <1>1, <2>1
    <2>3. r \in TokenRecords /\ r.text = h
      <3>1. Len(FlattenSeq(symbols)) \in Nat
        BY <1>1, FlattenType, StringFacts
      <3>2. EmittedBytes \in Int
        BY <1>1, <3>1 DEF EmittedBytes
      <3> HIDE DEF h
      <3> QED
        BY <1>1, <2>2, <3>2 DEF TokenRecords
    <2> HIDE DEF r
    <2>4. /\ tokens' \in Seq(TokenRecords)
          /\ \A s, at : Overlapped(s, at) => Overlapped(s, at)'
          /\ TextsOf(tokens) \in Seq(Strings)
          /\ FlattenSeq(TextsOf(tokens')) = FlattenSeq(TextsOf(tokens)) \o h
      BY <1>1, <2>1, <2>3, OneTokenMore
    <2>5. StraddlersOverlapped' /\ SpecialsTaken' /\ TextTypes'
      BY <2>1, <2>4, SameOffset
    <2>6. EncodeTypes'
      BY <1>1, <2>1, <2>2, <2>4, <2>5 DEF EncodeTypes
    <2>7. ChunkInSegment'
      BY <1>1, <2>1, SameText DEF ChunkInSegment, SegmentEnd
    <2>8. TokensSpellText'
      <3> DEFINE F == FlattenSeq(TextsOf(tokens))
                 G == FlattenSeq(Tail(symbols))
      <3>1. F \in Strings /\ G \in Strings
        BY <2>1, <2>2, <2>4, FlattenType
      <3>2. FlattenSeq(symbols) = h \o G
        BY <1>1, FlattenHead
      <3>3. FlattenSeq(TextsOf(tokens')) = F \o h /\ FlattenSeq(symbols') = G
        BY <2>1, <2>4
      <3> HIDE DEF h, G
      <3>4. F \o FlattenSeq(symbols) = SubSeq(text, 1, offset + chunk)
        BY DEF TokensSpellText, TextsOf
      <3> HIDE DEF F
      <3>5. (F \o h) \o G = F \o (h \o G)
        BY <2>2, <3>1, StringFacts
      <3>6. FlattenSeq(TextsOf(tokens')) \o FlattenSeq(symbols')
              = SubSeq(text, 1, offset + chunk)
        BY <3>2, <3>3, <3>4, <3>5
      <3>7. SubSeq(text, 1, offset + chunk)' = SubSeq(text, 1, offset + chunk)
        BY <2>1
      <3> QED
        BY <3>6, <3>7 DEF TokensSpellText, TextsOf
    <2> QED
      BY <2>5, <2>6, <2>7, <2>8
  <1> QED
    BY <1>2, <1>3

(* The chunk ends inside its segment, or where a special token stands.  An *)
(* occurrence inside the chunk would have ended the segment; one that      *)
(* starts before it is hidden already.                                     *)
LEMMA EndChunkKeeps ==
  ASSUME EncodeInv, EndChunk
  PROVE  EncodeInv'
  <1> USE DEF EncodeInv
  <1> DEFINE end == offset + chunk
             border == NextSpecialOffset(offset + 1)
  <1>1. /\ encoding = "emit" /\ symbols = <<>> /\ TextTypes
        /\ offset \in Nat /\ chunk \in Nat /\ offset < Len(text) /\ end <= Len(text)
        /\ end <= SegmentEnd /\ (special => MatchSpecial(offset) = {})
        /\ offset + 1 \in Nat /\ offset + 1 <= Len(text) /\ Len(text) \in Nat
    BY SpecialTypes DEF EndChunk, EncodeTypes, ChunkInSegment
  <1>2. /\ offset' = end /\ chunk' = 0 /\ encoding' = "scan"
        /\ UNCHANGED <<tokenizer, text, special, symbols, tokens>>
    BY DEF EndChunk
  <1>3. \A s, at : Overlapped(s, at) => Overlapped(s, at)'
    BY <1>2 DEF Overlapped
  <1>4. TextTypes'
    BY <1>1, <1>2 DEF TextTypes
  <1>5. EncodeTypes'
    BY <1>1, <1>2, <1>4 DEF EncodeTypes
  <1>6. ChunkInSegment'
    BY <1>2 DEF ChunkInSegment
  <1>7. TokensSpellText'
    <2>1. end + 0 = end /\ end \in Nat
      BY <1>1
    <2>2. offset' + chunk' = end
      BY <1>2, <2>1
    <2>3. FlattenSeq(TextsOf(tokens)) \o FlattenSeq(symbols) = SubSeq(text, 1, end)
      BY DEF TokensSpellText, TextsOf
    <2> HIDE DEF end
    <2> QED
      BY <1>2, <2>2, <2>3 DEF TokensSpellText, TextsOf
  <1>8. border \in offset + 1 .. Len(text) /\ (special => end <= border)
    BY <1>1, OffsetIsSpecial DEF SegmentEnd
  <1>9. ASSUME special, NEW s, NEW at, Occurs(s, at), at < end, offset < at + Len(s),
               at + Len(s) <= border
        PROVE  Overlapped(s, at)
    <2>1. at \in Nat /\ Len(s) \in Nat
      BY <1>1, <1>9, SpecialTypes DEF Occurs
    <2>2. ~(offset + 1 <= at)
      BY <1>1, <1>9, NothingWithin
    <2>3. at # offset
      BY <1>1, <1>9, MatchIs
    <2>4. at < offset
      BY <1>1, <2>1, <2>2, <2>3
    <2> QED
      BY <1>1, <1>9, <2>4 DEF StraddlersOverlapped
  <1>10. SpecialsTaken'
    <2> SUFFICES ASSUME special', NEW s \in Range(Specials') \ {<<>>},
                        NEW at \in 0 .. offset' - 1,
                        Stands(s, at)', at + Len(s) <= offset'
                 PROVE  Overlapped(s, at)'
      BY DEF SpecialsTaken, Overlapped, Specials
    <2>1. s \in Range(Specials) /\ s # <<>> /\ Stands(s, at) /\ special
      BY <1>2, SameText
    <2>2. at \in Nat /\ Len(s) \in Nat /\ Len(s) > 0 /\ at < end /\ at + Len(s) <= end
      BY <1>1, <1>2, <2>1, SpecialTypes DEF Strings
    <2>3. CASE at + Len(s) <= offset
      <3>1. at \in 0 .. offset - 1
        BY <1>1, <2>2, <2>3
      <3>2. Overlapped(s, at)
        BY <1>1, <2>1, <2>3, <3>1 DEF SpecialsTaken, Overlapped, Specials
      <3> QED
        BY <1>3, <3>2
    <2>4. CASE offset < at + Len(s)
      <3>1. Occurs(s, at)
        BY <2>1, <2>2 DEF Occurs
      <3>2. at + Len(s) <= border
        BY <1>1, <1>8, <2>1, <2>2
      <3>3. Overlapped(s, at)
        BY <1>9, <2>1, <2>2, <2>4, <3>1, <3>2
      <3> QED
        BY <1>3, <3>3
    <2> QED
      BY <1>1, <2>2, <2>3, <2>4
  <1>11. StraddlersOverlapped'
    <2> SUFFICES ASSUME special', offset' < Len(text'), MatchSpecial(offset)' = {},
                        NEW s, NEW at, Occurs(s, at)', at < offset',
                        offset' < at + Len(s),
                        at + Len(s) <= NextSpecialOffset(offset + 1)'
                 PROVE  Overlapped(s, at)'
      BY DEF StraddlersOverlapped
    <2>1. special /\ Occurs(s, at) /\ end < Len(text) /\ at < end /\ end < at + Len(s)
      BY <1>2, SameText
    <2>2. MatchSpecial(end) = {} /\ at + Len(s) <= NextSpecialOffset(end + 1)
      BY <1>2, SameText
    <2>3. end # border
      <3> SUFFICES ASSUME end = border PROVE FALSE
        OBVIOUS
      <3>1. \E t : Occurs(t, border)
        <4>1. border # Len(text)
          BY <1>1, <2>1
        <4> HIDE DEF end
        <4> QED
          BY <1>1, <4>1, OffsetIsSpecial
      <3>2. end \in Nat /\ \E t : Occurs(t, end)
        BY <1>1, <3>1
      <3> HIDE DEF end
      <3> QED
        BY <1>1, <2>2, <3>2, MatchIs
    <2>4. NextSpecialOffset(end + 1) = border
      <3>1. end + 1 \in Nat /\ offset + 1 <= end + 1 /\ end + 1 <= border
        BY <1>1, <1>8, <2>1, <2>3
      <3> QED
        BY <1>1, <3>1, OffsetStable
    <2>5. offset < at + Len(s)
      <3>1. at \in Nat /\ Len(s) \in Nat
        BY <1>1, <2>1, SpecialTypes DEF Occurs
      <3> QED
        BY <1>1, <2>1, <3>1
    <2>6. Overlapped(s, at)
      BY <1>9, <2>1, <2>2, <2>4, <2>5
    <2> QED
      BY <1>3, <2>6
  <1> QED
    BY <1>5, <1>6, <1>7, <1>10, <1>11

-----------------------------------------------------------------------------
LEMMA InitEncodes == EncodeInit => EncodeInv
  <1> SUFFICES ASSUME EncodeInit PROVE EncodeInv
    OBVIOUS
  <1> USE DEF EncodeInit
  <1>1. text \in Strings /\ Len(text) \in Nat
    <2>1. PICK n \in 0 .. MaxText : text \in [1 .. n -> Chars]
      BY DEF Texts
    <2>2. n \in Nat
      BY TokenizerAssumption
    <2> QED
      BY <2>1, <2>2 DEF Strings
  <1>2. EncodeTypes
    BY <1>1 DEF EncodeTypes, TextTypes
  <1>3. ChunkInSegment
    BY DEF ChunkInSegment
  <1>4. StraddlersOverlapped
    BY DEF StraddlersOverlapped, Occurs
  <1>5. SpecialsTaken
    BY DEF SpecialsTaken
  <1>6. TokensSpellText
    <2>1. TextsOf(tokens) = <<>>
      BY DEF TextsOf
    <2>2. FlattenSeq(TextsOf(tokens)) = <<>> /\ FlattenSeq(symbols) = <<>>
      BY <2>1, FlattenEmpty
    <2>3. <<>> \o <<>> = <<>>
      BY StringFacts
    <2>4. SubSeq(text, 1, 0 + 0) = <<>>
      BY SubSeqEmpty
    <2>5. FlattenSeq(TextsOf(tokens)) \o FlattenSeq(symbols) = SubSeq(text, 1, offset + chunk)
      BY <2>2, <2>3, <2>4
    <2> QED
      BY <2>5 DEF TokensSpellText, TextsOf
  <1> QED
    BY <1>2, <1>3, <1>4, <1>5, <1>6 DEF EncodeInv

LEMMA NextEncodes == EncodeInv /\ [EncodeNext]_tokenizerVars => EncodeInv'
  <1> SUFFICES ASSUME EncodeInv, [EncodeNext]_tokenizerVars PROVE EncodeInv'
    OBVIOUS
  <1>0. encoding \in {"begin", "scan"} => chunk = 0 /\ symbols = <<>>
    BY DEF EncodeInv, EncodeTypes
  <1>1. CASE BeginText
    <2>1. Mark(tokenizer.bos, "invalid BOS configuration", "scan") /\ chunk = 0 /\ symbols = <<>>
      BY <1>0, <1>1 DEF BeginText
    <2>2. "invalid BOS configuration" \notin {"merge", "emit"} /\ "scan" \notin {"merge", "emit"}
      OBVIOUS
    <2> QED
      BY <2>1, <2>2, MarkKeeps
  <1>2. CASE TakeSpecial
    BY <1>2, TakeSpecialKeeps
  <1>3. CASE StartChunk
    BY <1>3, StartChunkKeeps
  <1>4. CASE RefuseChunk
    BY <1>4, SamePhaseKind DEF RefuseChunk, Fail
  <1>5. CASE MergePass
    BY <1>5, MergePassKeeps
  <1>6. CASE EmitSymbol
    BY <1>6, EmitSymbolKeeps
  <1>7. CASE EndChunk
    BY <1>7, EndChunkKeeps
  <1>8. CASE EndText
    <2>1. Mark(tokenizer.eos, "invalid EOS configuration", "done") /\ chunk = 0 /\ symbols = <<>>
      BY <1>0, <1>8 DEF EndText
    <2>2. "invalid EOS configuration" \notin {"merge", "emit"} /\ "done" \notin {"merge", "emit"}
      OBVIOUS
    <2> QED
      BY <2>1, <2>2, MarkKeeps
  <1>9. CASE UNCHANGED tokenizerVars
    BY <1>9, SamePhaseKind DEF tokenizerVars, EncodeInv, EncodeTypes
  <1> QED
    BY <1>1, <1>2, <1>3, <1>4, <1>5, <1>6, <1>7, <1>8, <1>9 DEF EncodeNext

LEMMA SpecEncodes == EncodeSpec => []EncodeInv
  BY InitEncodes, NextEncodes, PTL DEF EncodeSpec

(* The tokens emitted, followed by the symbols of the chunk, spell the text *)
(* up to the end of the chunk, for every text, set of merges and capacity   *)
(* (qx_tok_bpe_chunk, qx_tokenizer_encode).                                 *)
THEOREM SpecTokensSpellText == EncodeSpec => []TokensSpellText
  <1>1. EncodeInv => TokensSpellText
    BY DEF EncodeInv
  <1> QED
    BY <1>1, SpecEncodes, PTL

(* No occurrence of a special token in the encoded part of the text was cut *)
(* up into byte pairs: it was taken, or overlaps one that was               *)
(* (qx_tok_next_special_offset, qx_tok_match_special).                      *)
THEOREM SpecSpecialsTaken == EncodeSpec => []SpecialsTaken
  <1>1. EncodeInv => SpecialsTaken
    BY DEF EncodeInv
  <1> QED
    BY <1>1, SpecEncodes, PTL

-----------------------------------------------------------------------------
(* What the caller gets.                                                   *)

\* A part of a text that is spelled u, then v, then something: v's place.
LEMMA MiddlePart ==
  ASSUME text \in Strings, NEW u \in Strings, NEW v \in Strings, NEW w \in Strings,
         NEW n \in 0 .. Len(text), u \o (v \o w) = SubSeq(text, 1, n)
  PROVE  /\ Len(u) + Len(v) + Len(w) = n
         /\ v = SubSeq(text, Len(u) + 1, Len(u) + Len(v))
  <1> DEFINE all == SubSeq(text, 1, n)
             part == SubSeq(text, Len(u) + 1, Len(u) + Len(v))
  <1>1. text \in Seq(Chars) /\ Len(text) \in Nat /\ n \in Nat
    BY DEF Strings
  <1>2. /\ Len(u) \in Nat /\ Len(v) \in Nat /\ Len(w) \in Nat /\ v \o w \in Strings
        /\ Len(v \o w) = Len(v) + Len(w) /\ Len(u \o (v \o w)) = Len(u) + Len(v \o w)
    BY StringFacts
  <1>3. \A i \in 1 .. n : text[i] \in Chars
    BY <1>1
  <1>4. Len(all) = n /\ \A i \in 1 .. n : all[i] = text[i]
    <2>1. /\ Len(all) = IF 1 <= n THEN n - 1 + 1 ELSE 0
          /\ \A i \in 1 .. n - 1 + 1 : all[i] = text[1 + i - 1]
      BY <1>1, <1>3, SubSeqProperties
    <2> HIDE DEF all
    <2> QED
      BY <1>1, <2>1
  <1>5. Len(u) + Len(v) + Len(w) = n
    <2>1. Len(u \o (v \o w)) = n
      BY <1>4
    <2> QED
      BY <1>2, <2>1
  <1>6. \A i \in 1 .. Len(v) : v[i] = text[Len(u) + i]
    <2> TAKE i \in 1 .. Len(v)
    <2>1. Len(u) + i \in 1 .. n /\ i \in 1 .. Len(v \o w)
      BY <1>2, <1>5
    <2>2. (v \o w)[i] = v[i]
      BY <1>2, ConcatProperties DEF Strings
    <2>3. (u \o (v \o w))[Len(u) + i] = (v \o w)[i]
      <3> DEFINE x == v \o w
      <3>1. x \in Seq(Chars) /\ u \in Seq(Chars) /\ i \in 1 .. Len(x)
        BY <1>2, <2>1 DEF Strings
      <3> HIDE DEF x
      <3>2. /\ \A k \in 1 .. Len(u) + Len(x) :
                 (u \o x)[k] = IF k <= Len(u) THEN u[k] ELSE x[k - Len(u)]
        BY <3>1
      <3>3. /\ Len(u) + i \in 1 .. Len(u) + Len(x) /\ ~(Len(u) + i <= Len(u))
            /\ (Len(u) + i) - Len(u) = i
        BY <1>2, <3>1
      <3>4. (u \o x)[Len(u) + i] = x[i]
        BY <3>2, <3>3
      <3> QED
        BY <3>4 DEF x
    <2>4. (u \o (v \o w))[Len(u) + i] = text[Len(u) + i]
      BY <1>4, <2>1
    <2> QED
      BY <2>2, <2>3, <2>4
  <1>7. /\ part \in Seq(Chars) /\ Len(part) = Len(v)
        /\ \A i \in 1 .. Len(v) : part[i] = text[Len(u) + i]
    <2> DEFINE a == Len(u) + 1
               b == Len(u) + Len(v)
    <2>1. a \in Int /\ b \in Int /\ \A i \in a .. b : text[i] \in Chars
      BY <1>1, <1>2, <1>5
    <2>2. /\ b - a + 1 = Len(v) /\ (a <= b \/ Len(v) = 0)
          /\ \A i \in 1 .. Len(v) : a + i - 1 = Len(u) + i
      BY <1>2
    <2> HIDE DEF a, b
    <2>3. /\ SubSeq(text, a, b) \in Seq(Chars)
          /\ Len(SubSeq(text, a, b)) = IF a <= b THEN b - a + 1 ELSE 0
          /\ \A i \in 1 .. b - a + 1 : SubSeq(text, a, b)[i] = text[a + i - 1]
      BY <2>1, SubSeqProperties
    <2>4. ~(a <= b) => Len(v) = 0
      BY <2>2
    <2>5. Len(SubSeq(text, a, b)) = Len(v)
      BY <2>2, <2>3, <2>4
    <2>6. \A i \in 1 .. Len(v) : SubSeq(text, a, b)[i] = text[Len(u) + i]
      BY <2>2, <2>3
    <2> QED
      BY <2>3, <2>5, <2>6 DEF a, b
  <1>8. v = part
    <2>1. v \in Seq(Chars)
      BY DEF Strings
    <2> HIDE DEF part
    <2> QED
      BY <1>6, <1>7, <2>1
  <1> QED
    BY <1>5, <1>8

(* Every token, and every mark, stands in the text where `at` says.        *)
TokensStand == \A i \in DOMAIN tokens : Stands(tokens[i].text, tokens[i].at)

(* An encoding that succeeds has reached the end of the text.              *)
DoneAtEnd == encoding = "done" => offset = Len(text)

LEMMA NewTokenStands ==
  ASSUME TokensStand, tokens \in Seq(TokenRecords), NEW r, Stands(r.text, r.at),
         tokens' = Append(tokens, r), UNCHANGED <<tokenizer, text>>
  PROVE  TokensStand'
  <1> DEFINE n == Len(tokens)
  <1>1. /\ n \in Nat /\ DOMAIN tokens = 1 .. n /\ DOMAIN tokens' = 1 .. n + 1
        /\ tokens'[n + 1] = r /\ \A i \in 1 .. n : tokens'[i] = tokens[i]
    OBVIOUS
  <1>2. \A i \in 1 .. n : Stands(tokens[i].text, tokens[i].at)
    BY <1>1 DEF TokensStand
  <1> HIDE DEF n
  <1>3. ASSUME NEW i \in 1 .. n + 1
        PROVE  tokens'[i].at + Len(tokens'[i].text) <= Len(text)
               /\ SubSeq(text, tokens'[i].at + 1, tokens'[i].at + Len(tokens'[i].text))
                    = tokens'[i].text
    <2>1. i = n + 1 \/ i \in 1 .. n
      BY <1>1
    <2>2. CASE i = n + 1
      <3>1. tokens'[i] = r
        BY <1>1, <2>2
      <3> QED
        BY <3>1 DEF Stands
    <2>3. CASE i \in 1 .. n
      <3>1. tokens'[i] = tokens[i] /\ Stands(tokens[i].text, tokens[i].at)
        BY <1>1, <1>2, <2>3
      <3> QED
        BY <3>1 DEF Stands
    <2> QED
      BY <2>1, <2>2, <2>3
  <1> QED
    BY <1>1, <1>3 DEF TokensStand, Stands

LEMMA NextStands ==
  EncodeInv /\ TokensStand /\ [EncodeNext]_tokenizerVars => TokensStand'
  <1> SUFFICES ASSUME EncodeInv, TokensStand, [EncodeNext]_tokenizerVars
               PROVE  TokensStand'
    OBVIOUS
  <1>1. /\ TextTypes /\ text \in Strings /\ tokens \in Seq(TokenRecords)
        /\ symbols \in Seq(Strings) /\ Len(text) \in Nat
        /\ offset \in Nat /\ chunk \in Nat /\ offset + chunk <= Len(text)
    BY SpecialTypes DEF EncodeInv, EncodeTypes, TextTypes
  <1>2. ASSUME UNCHANGED <<tokenizer, text, tokens>> PROVE TokensStand'
    BY <1>2, SameText DEF TokensStand
  <1>3. ASSUME NEW flag, NEW error, NEW next, Mark(flag, error, next) PROVE TokensStand'
    <2>1. CASE UNCHANGED <<tokenizer, text, tokens>>
      BY <1>2, <2>1
    <2>2. CASE ~UNCHANGED <<tokenizer, text, tokens>>
      <3> DEFINE r == [text |-> <<>>, at |-> offset, special |-> TRUE]
      <3>1. tokens' = Append(tokens, r) /\ UNCHANGED <<tokenizer, text>>
        BY <1>3, <2>2 DEF Mark, Fail, Emit
      <3>2. Stands(<<>>, offset)
        <4>1. SubSeq(text, offset + 1, offset + 0) = <<>> /\ Len(<<>>) = 0
          BY <1>1, SubSeqEmpty
        <4>2. offset + 0 <= Len(text)
          BY <1>1
        <4> QED
          BY <4>1, <4>2 DEF Stands
      <3>3. Stands(r.text, r.at)
        BY <3>2
      <3> HIDE DEF r
      <3> QED
        BY <1>1, <3>1, <3>3, NewTokenStands
    <2> QED
      BY <2>1, <2>2
  <1>4. CASE TakeSpecial
    <2>1. CASE UNCHANGED <<tokenizer, text, tokens>>
      BY <1>2, <2>1
    <2>2. CASE ~UNCHANGED <<tokenizer, text, tokens>>
      <3>1. PICK s \in MatchSpecial(offset) :
              Emit(s, offset, TRUE) /\ UNCHANGED <<tokenizer, text>>
        BY <1>4, <2>2 DEF TakeSpecial, Fail
      <3> DEFINE r == [text |-> s, at |-> offset, special |-> TRUE]
      <3>2. tokens' = Append(tokens, r)
        BY <3>1 DEF Emit
      <3>3. Stands(s, offset)
        BY <1>1, MatchIs DEF Occurs
      <3>4. Stands(r.text, r.at)
        BY <3>3
      <3> HIDE DEF r
      <3> QED
        BY <1>1, <3>1, <3>2, <3>4, NewTokenStands
    <2> QED
      BY <2>1, <2>2
  <1>5. CASE EmitSymbol
    <2>1. CASE UNCHANGED <<tokenizer, text, tokens>>
      BY <1>2, <2>1
    <2>2. CASE ~UNCHANGED <<tokenizer, text, tokens>>
      <3> DEFINE h == Head(symbols)
                 r == [text |-> h, at |-> offset + EmittedBytes, special |-> FALSE]
                 F == FlattenSeq(TextsOf(tokens))
                 G == FlattenSeq(Tail(symbols))
                 n == offset + chunk
      <3>1. tokens' = Append(tokens, r) /\ UNCHANGED <<tokenizer, text>> /\ symbols # <<>>
        BY <1>5, <2>2 DEF EmitSymbol, Fail, Emit
      <3>2. h \in Strings /\ Tail(symbols) \in Seq(Strings)
        BY <1>1, <3>1
      <3>3. F \in Strings /\ G \in Strings /\ FlattenSeq(symbols) = h \o G
        BY <1>1, <3>1, <3>2, FlattenHead, FlattenType, TextsType
      <3>4. F \o FlattenSeq(symbols) = SubSeq(text, 1, n)
        BY DEF EncodeInv, TokensSpellText, TextsOf
      <3>5. n \in 0 .. Len(text)
        BY <1>1
      <3>6. EmittedBytes = chunk - Len(h \o G)
        BY <3>3 DEF EmittedBytes
      <3> HIDE DEF h, F, G
      <3>7. F \o (h \o G) = SubSeq(text, 1, n)
        BY <3>3, <3>4
      <3>8. /\ Len(F) + Len(h) + Len(G) = n
            /\ h = SubSeq(text, Len(F) + 1, Len(F) + Len(h))
        <4>1. text \in Strings
          BY <1>1
        <4>2. h \in Strings /\ F \in Strings /\ G \in Strings
          BY <3>2, <3>3
        <4> DEFINE Whole(u, v, w, k) == u \o (v \o w) = SubSeq(text, 1, k)
                   Part(u, v) == v = SubSeq(text, Len(u) + 1, Len(u) + Len(v))
        <4>3. \A u, v, w \in Strings, k \in 0 .. Len(text) :
                Whole(u, v, w, k) => Len(u) + Len(v) + Len(w) = k /\ Part(u, v)
          BY <4>1, MiddlePart
        <4>4. Whole(F, h, G, n)
          BY <3>7
        <4> HIDE DEF n, Whole, Part
        <4>5. Len(F) + Len(h) + Len(G) = n /\ Part(F, h)
          BY <4>2, <4>3, <4>4, <3>5
        <4> QED
          BY <4>5 DEF Part
      <3>9. Len(F) \in Nat /\ Len(h) \in Nat /\ Len(G) \in Nat
            /\ Len(h \o G) = Len(h) + Len(G)
        BY <3>2, <3>3, StringFacts
      <3>10. offset + EmittedBytes = Len(F) /\ Len(F) + Len(h) <= Len(text)
        BY <1>1, <3>6, <3>8, <3>9
      <3>11. Stands(h, Len(F))
        BY <3>8, <3>10 DEF Stands
      <3>12. Stands(r.text, r.at)
        BY <3>10, <3>11
      <3> HIDE DEF r
      <3> QED
        BY <1>1, <3>1, <3>12, NewTokenStands
    <2> QED
      BY <2>1, <2>2
  <1>6. CASE StartChunk \/ RefuseChunk \/ MergePass \/ EndChunk \/ UNCHANGED tokenizerVars
    <2>1. UNCHANGED <<tokenizer, text, tokens>>
      BY <1>6 DEF StartChunk, RefuseChunk, MergePass, EndChunk, Fail, tokenizerVars
    <2> QED
      BY <1>2, <2>1
  <1>7. CASE BeginText
    BY <1>3, <1>7 DEF BeginText
  <1>8. CASE EndText
    BY <1>3, <1>8 DEF EndText
  <1> QED
    BY <1>4, <1>5, <1>6, <1>7, <1>8 DEF EncodeNext

(* Every token that is emitted, special or merged, is the part of the text  *)
(* at its place: what SpecialsTaken says of the places of tokens it says of *)
(* the text (qx_tok_bpe_chunk, qx_tokenizer_encode).                        *)
THEOREM SpecTokensStand == EncodeSpec => []TokensStand
  <1>1. EncodeInit => TokensStand
    BY DEF EncodeInit, TokensStand
  <1> QED
    BY <1>1, NextStands, SpecEncodes, PTL DEF EncodeSpec

LEMMA NextDoneAtEnd ==
  EncodeInv /\ DoneAtEnd /\ [EncodeNext]_tokenizerVars => DoneAtEnd'
  <1> SUFFICES ASSUME EncodeInv, DoneAtEnd, [EncodeNext]_tokenizerVars
               PROVE  DoneAtEnd'
    OBVIOUS
  <1> USE DEF DoneAtEnd, Fail, Mark
  <1>1. CASE BeginText
    BY <1>1 DEF BeginText
  <1>2. CASE TakeSpecial
    BY <1>2 DEF TakeSpecial
  <1>3. CASE StartChunk
    BY <1>3 DEF StartChunk
  <1>4. CASE RefuseChunk
    BY <1>4 DEF RefuseChunk
  <1>5. CASE MergePass
    BY <1>5 DEF MergePass
  <1>6. CASE EmitSymbol
    BY <1>6 DEF EmitSymbol
  <1>7. CASE EndChunk
    BY <1>7 DEF EndChunk
  <1>8. CASE EndText
    BY <1>8 DEF EndText
  <1>9. CASE UNCHANGED tokenizerVars
    BY <1>9 DEF tokenizerVars
  <1> QED
    BY <1>1, <1>2, <1>3, <1>4, <1>5, <1>6, <1>7, <1>8, <1>9 DEF EncodeNext

(* When qx_tokenizer_encode succeeds, the tokens it returns spell the whole *)
(* text and nothing else.                                                   *)
THEOREM EncodedTextIsSpelled ==
  EncodeSpec => [](encoding = "done" => FlattenSeq(TextsOf(tokens)) = text)
  <1>1. EncodeInit => DoneAtEnd
    BY DEF EncodeInit, DoneAtEnd
  <1>2. EncodeInv /\ DoneAtEnd => (encoding = "done" => FlattenSeq(TextsOf(tokens)) = text)
    <2> SUFFICES ASSUME EncodeInv, DoneAtEnd, encoding = "done"
                 PROVE  FlattenSeq(TextsOf(tokens)) = text
      OBVIOUS
    <2> DEFINE F == FlattenSeq(TextsOf(tokens))
    <2>1. /\ chunk = 0 /\ symbols = <<>> /\ offset = Len(text) /\ offset \in Nat
          /\ text \in Seq(Chars) /\ tokens \in Seq(TokenRecords)
      BY DEF EncodeInv, EncodeTypes, TextTypes, DoneAtEnd, Strings
    <2>2. F \o FlattenSeq(symbols) = SubSeq(text, 1, offset + chunk)
      BY DEF EncodeInv, TokensSpellText, TextsOf
    <2>3. FlattenSeq(symbols) = <<>> /\ offset + chunk = Len(text)
      BY <2>1, FlattenEmpty
    <2>4. SubSeq(text, 1, Len(text)) = text
      BY <2>1, SubSeqFull
    <2>5. F \in Strings
      BY <2>1, TextsType, FlattenType
    <2> HIDE DEF F
    <2>6. F \o <<>> = F
      BY <2>5, StringFacts
    <2>7. F \o <<>> = text
      BY <2>2, <2>3, <2>4
    <2> QED
      BY <2>6, <2>7 DEF F
  <1> QED
    BY <1>1, <1>2, NextDoneAtEnd, SpecEncodes, PTL DEF EncodeSpec

-----------------------------------------------------------------------------
(* Encoding gets nearer to its end with every step: less text is left, or  *)
(* a later phase of the chunk begins, or the chunk has fewer symbols.      *)

TextLeft == Len(text) - offset

PhaseLeft ==
  CASE encoding = "begin" -> 4
    [] encoding = "scan"  -> 3
    [] encoding = "merge" -> 2
    [] encoding = "emit"  -> 1
    [] OTHER              -> 0

Measured == TextLeft \in Nat /\ PhaseLeft \in Nat /\ Len(symbols) \in Nat

Nearer ==
  /\ Measured /\ Measured'
  /\ \/ TextLeft' < TextLeft
     \/ TextLeft' = TextLeft /\ PhaseLeft' < PhaseLeft
     \/ TextLeft' = TextLeft /\ PhaseLeft' = PhaseLeft /\ Len(symbols') < Len(symbols)

EncodeShrinks == [][Nearer]_tokenizerVars

\* Without this the loop over the chunks could stay where it is.
ChunkNotEmpty == encoding \in {"merge", "emit"} => chunk > 0

LEMMA NextChunkNotEmpty ==
  ChunkNotEmpty /\ [EncodeNext]_tokenizerVars => ChunkNotEmpty'
  <1> SUFFICES ASSUME ChunkNotEmpty, [EncodeNext]_tokenizerVars
               PROVE  ChunkNotEmpty'
    OBVIOUS
  <1> USE DEF ChunkNotEmpty, Fail, Mark
  <1>1. CASE BeginText \/ EndText
    BY <1>1 DEF BeginText, EndText
  <1>2. CASE TakeSpecial
    BY <1>2 DEF TakeSpecial
  <1>3. CASE StartChunk
    BY <1>3 DEF StartChunk
  <1>4. CASE RefuseChunk \/ EndChunk
    BY <1>4 DEF RefuseChunk, EndChunk
  <1>5. CASE MergePass
    BY <1>5 DEF MergePass
  <1>6. CASE EmitSymbol
    BY <1>6 DEF EmitSymbol
  <1>7. CASE UNCHANGED tokenizerVars
    BY <1>7 DEF tokenizerVars
  <1> QED
    BY <1>1, <1>2, <1>3, <1>4, <1>5, <1>6, <1>7 DEF EncodeNext

LEMMA MeasuredInv == EncodeInv => Measured
  <1> SUFFICES ASSUME EncodeInv PROVE Measured
    OBVIOUS
  <1>1. TextTypes /\ offset \in Nat /\ chunk \in Nat /\ offset + chunk <= Len(text)
        /\ symbols \in Seq(Strings)
    BY DEF EncodeInv, EncodeTypes
  <1>2. Len(text) \in Nat
    BY <1>1, SpecialTypes
  <1>3. TextLeft \in Nat
    BY <1>1, <1>2 DEF TextLeft
  <1>4. PhaseLeft \in Nat
    BY DEF PhaseLeft
  <1> QED
    BY <1>1, <1>3, <1>4 DEF Measured

LEMMA MeasuredNext == EncodeInv' => Measured'
  BY MeasuredInv, PTL

\* A step that keeps the text but not the phase.
LEMMA LaterPhase ==
  ASSUME EncodeInv, EncodeInv', UNCHANGED <<text, offset>>, PhaseLeft' < PhaseLeft
  PROVE  Nearer
  <1>1. TextLeft' = TextLeft
    BY DEF TextLeft
  <1> QED
    BY <1>1, MeasuredInv, MeasuredNext DEF Nearer

LEMMA MergeNearer ==
  ASSUME EncodeInv, EncodeInv', MergePass
  PROVE  Nearer
  <1>1. /\ encoding = "merge" /\ UNCHANGED <<text, offset>>
        /\ tokenizer \in Tokenizers /\ symbols \in Seq(Strings)
    BY DEF MergePass, Fail, EncodeInv, EncodeTypes, TextTypes
  <1>2. PhaseLeft = 2 /\ TextLeft' = TextLeft
    BY <1>1 DEF PhaseLeft, TextLeft
  <1>3. CASE encoding' # "merge"
    <2>1. encoding' \in {"emit", "BPE work limit exceeded"}
      BY <1>1, <1>3 DEF MergePass, Fail
    <2>2. PhaseLeft' \in {0, 1}
      BY <2>1 DEF PhaseLeft
    <2> QED
      BY <1>1, <1>2, <2>2, LaterPhase
  <1>4. CASE encoding' = "merge"
    <2>1. symbols' = MergedAt(BestPlace) /\ Mergeable # {}
      BY <1>1, <1>4 DEF MergePass, Fail
    <2>2. BestPlace \in 1 .. Len(symbols) - 1
      <3>1. BestPlace \in Mergeable
        BY <1>1, <2>1, BestPlaceIs
      <3> QED
        BY <3>1 DEF Mergeable
    <2>3. Len(symbols) \in Nat /\ Len(symbols) - 1 \in Nat
      BY <1>1, <2>2
    <2>4. Len(symbols') = Len(symbols) - 1
      BY <2>1, <2>3 DEF MergedAt
    <2>5. PhaseLeft' = 2
      BY <1>4 DEF PhaseLeft
    <2> QED
      BY <1>2, <2>3, <2>4, <2>5, MeasuredInv, MeasuredNext DEF Nearer
  <1> QED
    BY <1>3, <1>4

LEMMA EmitNearer ==
  ASSUME EncodeInv, EncodeInv', EmitSymbol
  PROVE  Nearer
  <1>1. /\ encoding = "emit" /\ UNCHANGED <<text, offset>>
        /\ symbols \in Seq(Strings) /\ symbols # <<>>
    BY DEF EmitSymbol, Fail, EncodeInv, EncodeTypes
  <1>2. PhaseLeft = 1 /\ TextLeft' = TextLeft
    BY <1>1 DEF PhaseLeft, TextLeft
  <1>3. CASE encoding' # "emit"
    <2>1. encoding' \in {"BPE symbol missing from vocabulary", "token output capacity exceeded"}
      BY <1>1, <1>3 DEF EmitSymbol, Fail
    <2>2. PhaseLeft' = 0
      BY <2>1 DEF PhaseLeft
    <2> QED
      BY <1>1, <1>2, <2>2, LaterPhase
  <1>4. CASE encoding' = "emit"
    <2>1. symbols' = Tail(symbols)
      BY <1>1, <1>4 DEF EmitSymbol, Fail
    <2>2. Len(symbols') = Len(symbols) - 1 /\ Len(symbols) \in Nat
      BY <1>1, <2>1
    <2>3. PhaseLeft' = 1
      BY <1>4 DEF PhaseLeft
    <2> QED
      BY <1>2, <2>2, <2>3, MeasuredInv, MeasuredNext DEF Nearer
  <1> QED
    BY <1>3, <1>4

LEMMA NearerStep ==
  EncodeInv /\ EncodeInv' /\ ChunkNotEmpty /\ [EncodeNext]_tokenizerVars
    => [Nearer]_tokenizerVars
  <1> SUFFICES ASSUME EncodeInv, EncodeInv', ChunkNotEmpty, EncodeNext
               PROVE  Nearer
    OBVIOUS
  <1>0. /\ TextTypes /\ offset \in Nat /\ chunk \in Nat /\ Len(text) \in Nat
    BY SpecialTypes DEF EncodeInv, EncodeTypes
  <1>1. CASE BeginText
    <2>1. encoding = "begin" /\ encoding' \in {"scan", "invalid BOS configuration"}
      BY <1>1 DEF BeginText, Mark, Fail
    <2>2. PhaseLeft = 4 /\ PhaseLeft' \in {0, 3}
      BY <2>1 DEF PhaseLeft
    <2>3. UNCHANGED <<text, offset>>
      BY <1>1 DEF BeginText, Mark, Fail
    <2> QED
      BY <2>2, <2>3, LaterPhase
  <1>2. CASE TakeSpecial
    <2>1. PICK s \in MatchSpecial(offset) :
            IF Len(tokens) >= Capacity
            THEN Fail("token output capacity exceeded")
            ELSE text' = text /\ offset' = offset + Len(s)
      BY <1>2 DEF TakeSpecial
    <2>2. CASE Len(tokens) >= Capacity
      <3>1. encoding = "scan" /\ encoding' = "token output capacity exceeded"
        BY <1>2, <2>1, <2>2 DEF TakeSpecial, Fail
      <3>2. PhaseLeft = 3 /\ PhaseLeft' = 0
        BY <3>1 DEF PhaseLeft
      <3>3. UNCHANGED <<text, offset>>
        BY <2>1, <2>2 DEF Fail
      <3> QED
        BY <3>2, <3>3, LaterPhase
    <2>3. CASE ~(Len(tokens) >= Capacity)
      <3>1. text' = text /\ offset' = offset + Len(s)
        BY <2>1, <2>3
      <3>2. Len(s) \in Nat /\ Len(s) > 0
        BY <1>0, MatchIs
      <3>3. TextLeft' < TextLeft
        BY <1>0, <3>1, <3>2 DEF TextLeft
      <3> QED
        BY <3>3, MeasuredInv, MeasuredNext DEF Nearer
    <2> QED
      BY <2>2, <2>3
  <1>3. CASE StartChunk
    <2>1. encoding = "scan" /\ encoding' = "merge" /\ UNCHANGED <<text, offset>>
      BY <1>3 DEF StartChunk
    <2>2. PhaseLeft = 3 /\ PhaseLeft' = 2
      BY <2>1 DEF PhaseLeft
    <2> QED
      BY <2>1, <2>2, LaterPhase
  <1>4. CASE RefuseChunk
    <2>1. encoding = "scan" /\ encoding' = "input contains unsupported Unicode class"
      BY <1>4 DEF RefuseChunk, Fail
    <2>2. PhaseLeft = 3 /\ PhaseLeft' = 0
      BY <2>1 DEF PhaseLeft
    <2>3. UNCHANGED <<text, offset>>
      BY <1>4 DEF RefuseChunk, Fail
    <2> QED
      BY <2>2, <2>3, LaterPhase
  <1>5. CASE MergePass
    BY <1>5, MergeNearer
  <1>6. CASE EmitSymbol
    BY <1>6, EmitNearer
  <1>7. CASE EndChunk
    <2>1. encoding = "emit" /\ text' = text /\ offset' = offset + chunk
      BY <1>7 DEF EndChunk
    <2>2. chunk > 0
      BY <2>1 DEF ChunkNotEmpty
    <2>3. TextLeft' < TextLeft
      BY <1>0, <2>1, <2>2 DEF TextLeft
    <2> QED
      BY <2>3, MeasuredInv, MeasuredNext DEF Nearer
  <1>8. CASE EndText
    <2>1. encoding = "scan" /\ encoding' \in {"done", "invalid EOS configuration"}
      BY <1>8 DEF EndText, Mark, Fail
    <2>2. PhaseLeft = 3 /\ PhaseLeft' = 0
      BY <2>1 DEF PhaseLeft
    <2>3. UNCHANGED <<text, offset>>
      BY <1>8 DEF EndText, Mark, Fail
    <2> QED
      BY <2>2, <2>3, LaterPhase
  <1> QED
    BY <1>1, <1>2, <1>3, <1>4, <1>5, <1>6, <1>7, <1>8 DEF EncodeNext

(* Encoding never goes round in circles, for any text, set of merges and    *)
(* capacity: not in the search for special tokens, whose empty entries are  *)
(* never taken, not in the loop over the chunks and not in the merge loop,  *)
(* even without its work limit (qx_tok_bpe_chunk, qx_tokenizer_encode).     *)
THEOREM EncodingTerminates == EncodeSpec => EncodeShrinks
  <1>1. EncodeInit => ChunkNotEmpty
    BY DEF EncodeInit, ChunkNotEmpty
  <1> QED
    BY <1>1, NextChunkNotEmpty, NextEncodes, NearerStep, SpecEncodes, PTL
       DEF EncodeSpec, EncodeShrinks

-----------------------------------------------------------------------------
(* The pre-tokenizer cuts where the regular expression does.               *)

SegmentType == segment \in Seq(Characters)

Offsets == 0 .. Len(segment) - 1

LEMMA CharacterClasses ==
  ASSUME SegmentType, NEW i \in Offsets
  PROVE  /\ At(i) \in {"letter", "number", "space", "newline", "other", "unsupported"}
         /\ At(i) = "space" <=> segment[i + 1] \in {"blank", "tab"}
         /\ At(i) = "other" <=> segment[i + 1] \in {"quote", "sign"}
  <1>1. segment[i + 1] \in Characters
    BY DEF SegmentType, Offsets
  <1> QED
    BY <1>1 DEF Characters, At, ClassOf

LEMMA RunEndIs ==
  ASSUME SegmentType, NEW classes, NEW i \in 0 .. Len(segment)
  PROVE  /\ RunEnd(classes, i) \in i .. Len(segment)
         /\ AllIn(classes, i, RunEnd(classes, i))
         /\ RunEnd(classes, i) = Len(segment) \/ At(RunEnd(classes, i)) \notin classes
         /\ \A j \in i .. Len(segment) : AllIn(classes, i, j) => j <= RunEnd(classes, i)
  <1> DEFINE ends == { j \in i .. Len(segment) : j = Len(segment) \/ At(j) \notin classes }
             e == RunEnd(classes, i)
  <1>1. Len(segment) \in Nat
    BY DEF SegmentType
  <1>2. ends \subseteq Nat /\ Len(segment) \in ends
    BY <1>1
  <1>3. e = Min(ends)
    BY DEF RunEnd
  <1>4. e \in ends /\ \A k \in ends : e <= k
    <2> HIDE DEF ends, e
    <2> QED
      BY <1>2, <1>3, MinIsLeast
  <1>5. e \in i .. Len(segment) /\ (e = Len(segment) \/ At(e) \notin classes)
    BY <1>4
  <1>6. AllIn(classes, i, e)
    <2> SUFFICES ASSUME NEW x \in i .. e - 1 PROVE At(x) \in classes
      BY DEF AllIn
    <2>1. x \in i .. Len(segment) /\ ~(e <= x)
      BY <1>1, <1>5
    <2>2. x \notin ends
      BY <1>4, <2>1
    <2> QED
      BY <2>1, <2>2
  <1>7. ASSUME NEW j \in i .. Len(segment), AllIn(classes, i, j) PROVE j <= e
    <2> SUFFICES ASSUME e < j PROVE FALSE
      BY <1>1, <1>5
    <2>1. e \in i .. j - 1 /\ e # Len(segment)
      BY <1>1, <1>5
    <2>2. At(e) \in classes
      BY <1>7, <2>1 DEF AllIn
    <2> QED
      BY <1>5, <2>1, <2>2
  <1> HIDE DEF e
  <1> QED
    BY <1>5, <1>6, <1>7 DEF e

LEMMA ContractionIs ==
  ASSUME SegmentType, NEW o \in Offsets
  PROVE  /\ Contraction(o) \in {0, 2, 3}
         /\ Contraction(o) # 0 => /\ segment[o + 1] = "quote"
                                  /\ Contraction(o) \in 1 .. Len(segment) - o
  <1>1. Len(segment) \in Nat /\ o \in Nat
    BY DEF SegmentType, Offsets
  <1>2. Len(<<"s">>) = 1 /\ Len(<<"r", "e">>) = 2
    OBVIOUS
  <1>3. Contraction(o) \in {0, 2, 3}
    BY DEF Contraction
  <1>4. Contraction(o) # 0 => segment[o + 1] = "quote"
    BY DEF Contraction
  <1>5. Contraction(o) = 2 => o + 1 < Len(segment)
    BY <1>2 DEF Contraction
  <1>6. Contraction(o) = 3 => o + 2 < Len(segment)
    BY <1>2 DEF Contraction
  <1> QED
    BY <1>1, <1>3, <1>4, <1>5, <1>6

\* The alternatives, one by one.
LEMMA AlternativesAre ==
  ASSUME SegmentType, NEW o \in Offsets
  PROVE  /\ DOMAIN Alternatives(o) = 1 .. 7
         /\ \A k \in 1 .. 7 : Alternatives(o)[k] \subseteq 1 .. Len(segment) - o
         /\ \A n \in 1 .. Len(segment) - o :
              /\ n \in Alternatives(o)[1] <=> Contraction(o) = n
              /\ n \in Alternatives(o)[2] <=>
                   \E p \in 0 .. 1 :
                     /\ p = 1 => segment[o + 1] \in {"blank", "tab", "quote", "sign"}
                     /\ n > p /\ AllIn({"letter"}, o + p, o + n)
              /\ n \in Alternatives(o)[3] <=> n = 1 /\ At(o) = "number"
              /\ n \in Alternatives(o)[4] <=>
                   \E p \in 0 .. 1, m \in 1 .. n :
                     /\ p = 1 => segment[o + 1] \in {"blank"}
                     /\ m > p /\ AllIn({"other"}, o + p, o + m)
                     /\ AllIn({"newline"}, o + m, o + n)
              /\ n \in Alternatives(o)[5] <=>
                   \E m \in 0 .. n - 1 : /\ AllIn(White, o, o + m)
                                         /\ AllIn({"newline"}, o + m, o + n)
              /\ n \in Alternatives(o)[6] <=>
                   /\ AllIn(White, o, o + n)
                   /\ o + n = Len(segment) \/ At(o + n) \in White
              /\ n \in Alternatives(o)[7] <=> AllIn(White, o, o + n)
  BY DEF Alternatives

(* The longest match of the first alternative that has one is the length.  *)
LEMMA FirstLongest ==
  ASSUME SegmentType, NEW o \in Offsets, NEW k \in 1 .. 7, NEW n,
         n \in Alternatives(o)[k], \A j \in 1 .. k - 1 : Alternatives(o)[j] = {},
         \A x \in Alternatives(o)[k] : x <= n
  PROVE  RegexLength(o) = n
  <1> DEFINE M == Alternatives(o)
             S == { j \in DOMAIN M : M[j] # {} }
  <1>1. DOMAIN M = 1 .. 7 /\ M[k] \subseteq 1 .. Len(segment) - o
    BY AlternativesAre
  <1>2. RegexLength(o) = Max(M[Min(S)])
    BY DEF RegexLength
  <1>3. S \subseteq Nat /\ k \in S /\ \A j \in S : k <= j
    BY <1>1
  <1>4. Min(S) = k
    <2> HIDE DEF S, M
    <2> DEFINE least == Min(S)
    <2>1. least \in S /\ least <= k
      BY <1>3, MinIsLeast
    <2>2. least \in Nat /\ k <= least
      BY <1>3, <2>1
    <2> HIDE DEF least
    <2>3. least = k
      BY <2>1, <2>2
    <2> QED
      BY <2>3 DEF least
  <1> DEFINE T == M[k]
  <1>5. Len(segment) - o \in Nat /\ T \subseteq 0 .. Len(segment) - o /\ T # {}
    BY <1>1 DEF SegmentType, Offsets
  <1> HIDE DEF M, S
  <1>6. Max(T) \in T /\ n <= Max(T)
    <2>1. n \in T
      BY DEF M
    <2> HIDE DEF T
    <2> QED
      BY <1>5, <2>1, MaxIsGreatest
  <1>7. Max(T) <= n /\ n \in T
    BY <1>6 DEF M
  <1>8. Max(T) = n
    BY <1>5, <1>6, <1>7
  <1> QED
    BY <1>2, <1>4, <1>8

\* Alternatives that match nothing, by the characters at the offset.
LEMMA NoMatches ==
  ASSUME SegmentType, NEW o \in Offsets
  PROVE  /\ Contraction(o) = 0 => Alternatives(o)[1] = {}
         /\ At(o) # "letter"
            /\ ~(/\ At(o) \in {"space", "other"} /\ o + 1 < Len(segment)
                 /\ At(o + 1) = "letter") => Alternatives(o)[2] = {}
         /\ At(o) # "number" => Alternatives(o)[3] = {}
         /\ At(o) # "other"
            /\ ~(/\ segment[o + 1] = "blank" /\ o + 1 < Len(segment)
                 /\ At(o + 1) = "other") => Alternatives(o)[4] = {}
         /\ At(o) \notin White =>
              Alternatives(o)[5] = {} /\ Alternatives(o)[6] = {} /\ Alternatives(o)[7] = {}
  <1> DEFINE lengths == 1 .. Len(segment) - o
  <1>1. Len(segment) \in Nat /\ o \in Nat /\ \A k \in 1 .. 7 : Alternatives(o)[k] \subseteq lengths
    BY AlternativesAre DEF SegmentType, Offsets
  <1>2. ASSUME Contraction(o) = 0, NEW n \in Alternatives(o)[1] PROVE FALSE
    <2>1. n \in lengths
      BY <1>1, <1>2
    <2>2. Contraction(o) = n
      BY <1>2, <2>1, AlternativesAre
    <2> QED
      BY <1>1, <1>2, <2>1, <2>2
  <1>3. ASSUME NEW n \in Alternatives(o)[2], At(o) # "letter"
        PROVE  /\ At(o) \in {"space", "other"} /\ o + 1 < Len(segment)
               /\ At(o + 1) = "letter"
    <2>1. n \in lengths
      BY <1>1
    <2>2. PICK p \in 0 .. 1 :
            /\ p = 1 => segment[o + 1] \in {"blank", "tab", "quote", "sign"}
            /\ n > p /\ AllIn({"letter"}, o + p, o + n)
      BY <1>3, <2>1, AlternativesAre
    <2>3. At(o + p) = "letter"
      BY <1>1, <2>1, <2>2 DEF AllIn
    <2>4. p = 1
      BY <1>1, <1>3, <2>3
    <2> QED
      BY <1>1, <2>1, <2>2, <2>3, <2>4, CharacterClasses
  <1>4. ASSUME NEW n \in Alternatives(o)[3] PROVE At(o) = "number"
    BY <1>1, <1>4, AlternativesAre
  <1>5. ASSUME NEW n \in Alternatives(o)[4], At(o) # "other"
        PROVE  /\ segment[o + 1] = "blank" /\ o + 1 < Len(segment)
               /\ At(o + 1) = "other"
    <2>1. n \in lengths
      BY <1>1
    <2>2. PICK p \in 0 .. 1, m \in 1 .. n :
            /\ p = 1 => segment[o + 1] \in {"blank"}
            /\ m > p /\ AllIn({"other"}, o + p, o + m)
            /\ AllIn({"newline"}, o + m, o + n)
      <3>1. \A k \in lengths : k \in Alternatives(o)[4] =>
              \E p \in 0 .. 1, m \in 1 .. k :
                /\ p = 1 => segment[o + 1] \in {"blank"}
                /\ m > p /\ AllIn({"other"}, o + p, o + m)
                /\ AllIn({"newline"}, o + m, o + k)
        BY AlternativesAre
      <3> HIDE DEF lengths
      <3> QED
        BY <1>5, <2>1, <3>1
    <2>3. At(o + p) = "other"
      <3>1. o + p \in o + p .. (o + m) - 1
        BY <1>1, <2>2
      <3>2. \A x \in o + p .. (o + m) - 1 : At(x) \in {"other"}
        BY <2>2, Zenon DEF AllIn
      <3>3. At(o + p) \in {"other"}
        BY <3>1, <3>2, Zenon
      <3> QED
        BY <3>3
    <2>4. p = 1
      <3>1. p = 0 => o + p = o
        BY <1>1
      <3> QED
        BY <1>5, <2>3, <3>1
    <2>5. n \in Nat /\ n <= Len(segment) - o
      BY <1>1, <2>1
    <2>6. n > 1
      BY <2>2, <2>4, <2>5
    <2>7. o + 1 < Len(segment)
      BY <1>1, <2>5, <2>6
    <2>8. At(o + 1) = "other"
      BY <2>3, <2>4
    <2> QED
      BY <2>2, <2>4, <2>7, <2>8
  <1>6. ASSUME NEW k \in 5 .. 7, NEW n \in Alternatives(o)[k] PROVE At(o) \in White
    <2>1. n \in lengths
      BY <1>1
    <2>2. CASE k = 5
      <3>1. PICK m \in 0 .. n - 1 : AllIn(White, o, o + m) /\ AllIn({"newline"}, o + m, o + n)
        BY <1>6, <2>1, <2>2, AlternativesAre
      <3>2. At(o) \in White \/ At(o) = "newline"
        BY <1>1, <2>1, <3>1 DEF AllIn
      <3> QED
        BY <3>2 DEF White
    <2>3. CASE k # 5
      <3>1. AllIn(White, o, o + n)
        BY <1>6, <2>1, <2>3, AlternativesAre
      <3> QED
        BY <1>1, <2>1, <3>1 DEF AllIn
    <2> QED
      BY <2>2, <2>3
  <1> QED
    BY <1>2, <1>3, <1>4, <1>5, <1>6

\* A word, with the space or sign before it (p is 1) or without.
LEMMA CutWord ==
  ASSUME SegmentType, NEW o \in Offsets, NEW p \in 0 .. 1, Contraction(o) = 0,
         p = 0 => At(o) = "letter",
         p = 1 => /\ At(o) \in {"space", "other"} /\ o + 1 < Len(segment)
                  /\ At(o + 1) = "letter"
  PROVE  RegexLength(o) = RunEnd({"letter"}, o + p) - o /\ RegexLength(o) > 0
  <1> DEFINE e == RunEnd({"letter"}, o + p)
  <1>1. Len(segment) \in Nat /\ o \in Nat /\ o + p < Len(segment) /\ At(o + p) = "letter"
    BY DEF SegmentType, Offsets
  <1>2. /\ e \in o + p .. Len(segment) /\ AllIn({"letter"}, o + p, e)
        /\ e = Len(segment) \/ At(e) # "letter"
        /\ \A j \in o + p .. Len(segment) : AllIn({"letter"}, o + p, j) => j <= e
    BY <1>1, RunEndIs
  <1> HIDE DEF e
  <1>3. e > o + p /\ o + (e - o) = e /\ e - o \in 1 .. Len(segment) - o
    BY <1>1, <1>2
  <1>4. p = 1 => segment[o + 1] \in {"blank", "tab", "quote", "sign"}
    BY CharacterClasses
  <1>5. e - o \in Alternatives(o)[2]
    BY <1>1, <1>2, <1>3, <1>4, AlternativesAre
  <1>6. ASSUME NEW n \in Alternatives(o)[2] PROVE n <= e - o
    <2>1. n \in 1 .. Len(segment) - o
      BY AlternativesAre
    <2>2. PICK q \in 0 .. 1 :
            /\ q = 1 => segment[o + 1] \in {"blank", "tab", "quote", "sign"}
            /\ n > q /\ AllIn({"letter"}, o + q, o + n)
      BY <2>1, AlternativesAre
    <2>3. At(o + q) = "letter"
      BY <1>1, <2>1, <2>2 DEF AllIn
    <2>4. q = p
      <3>1. CASE p = 0
        <4>1. q # 1
          BY <2>2, <3>1, CharacterClasses
        <4> QED
          BY <3>1, <4>1
      <3>2. CASE p = 1
        <4>1. q # 0
          BY <1>1, <2>3, <3>2
        <4> QED
          BY <3>2, <4>1
      <3> QED
        BY <3>1, <3>2
    <2>5. o + n <= e
      BY <1>1, <1>2, <2>1, <2>2, <2>4
    <2> QED
      BY <1>1, <1>2, <2>1, <2>5
  <1>7. \A j \in 1 .. 2 - 1 : Alternatives(o)[j] = {}
    BY NoMatches
  <1>8. RegexLength(o) = e - o
    BY <1>5, <1>6, <1>7, FirstLongest
  <1> QED
    BY <1>3, <1>8 DEF e

\* Signs and the newlines after them, with the blank before them or without.
LEMMA CutSigns ==
  ASSUME SegmentType, NEW o \in Offsets, NEW p \in 0 .. 1, Contraction(o) = 0,
         p = 0 => At(o) = "other" /\ ~(o + 1 < Len(segment) /\ At(o + 1) = "letter"),
         p = 1 => /\ segment[o + 1] = "blank" /\ o + 1 < Len(segment)
                  /\ At(o + 1) = "other"
  PROVE  /\ RegexLength(o) = RunEnd({"newline"}, RunEnd({"other"}, o + p)) - o
         /\ RegexLength(o) > 0
  <1> DEFINE f == RunEnd({"other"}, o + p)
             e == RunEnd({"newline"}, f)
  <1>1. Len(segment) \in Nat /\ o \in Nat /\ o + p < Len(segment) /\ At(o + p) = "other"
    BY DEF SegmentType, Offsets
  <1>2. p = 1 => At(o) = "space"
    BY CharacterClasses
  <1>3. /\ f \in o + p .. Len(segment) /\ AllIn({"other"}, o + p, f)
        /\ f = Len(segment) \/ At(f) # "other"
        /\ \A j \in o + p .. Len(segment) : AllIn({"other"}, o + p, j) => j <= f
    BY <1>1, RunEndIs
  <1> HIDE DEF f
  <1>4. f > o + p /\ f \in 0 .. Len(segment)
    BY <1>1, <1>3
  <1>5. /\ e \in f .. Len(segment) /\ AllIn({"newline"}, f, e)
        /\ \A j \in f .. Len(segment) : AllIn({"newline"}, f, j) => j <= e
    BY <1>4, RunEndIs
  <1> HIDE DEF e
  <1>6. /\ e - o \in 1 .. Len(segment) - o /\ f - o \in 1 .. e - o
        /\ o + (e - o) = e /\ o + (f - o) = f /\ f - o > p
    BY <1>1, <1>4, <1>5
  <1>7. e - o \in Alternatives(o)[4]
    <2> DEFINE n == e - o
               m == f - o
    <2>1. n \in 1 .. Len(segment) - o /\ m \in 1 .. n
          /\ (p = 1 => segment[o + 1] \in {"blank"}) /\ m > p
          /\ AllIn({"other"}, o + p, o + m) /\ AllIn({"newline"}, o + m, o + n)
      BY <1>3, <1>5, <1>6
    <2> HIDE DEF n, m
    <2>2. n \in Alternatives(o)[4]
      BY <2>1, AlternativesAre
    <2> QED
      BY <2>2 DEF n
  <1>8. ASSUME NEW n \in Alternatives(o)[4] PROVE n <= e - o
    <2>1. n \in 1 .. Len(segment) - o
      BY AlternativesAre
    <2>2. PICK q \in 0 .. 1, m \in 1 .. n :
            /\ q = 1 => segment[o + 1] \in {"blank"}
            /\ m > q /\ AllIn({"other"}, o + q, o + m)
            /\ AllIn({"newline"}, o + m, o + n)
      BY <2>1, AlternativesAre
    <2>3. At(o + q) = "other"
      BY <1>1, <2>1, <2>2 DEF AllIn
    <2>4. q = p
      <3>1. CASE p = 0
        <4>1. q # 1
          BY <2>2, <3>1, CharacterClasses
        <4> QED
          BY <3>1, <4>1
      <3>2. CASE p = 1
        <4>1. q # 0
          BY <1>1, <1>2, <2>3, <3>2
        <4> QED
          BY <3>2, <4>1
      <3> QED
        BY <3>1, <3>2
    <2>5. o + m <= f /\ o + m \in o + p .. Len(segment)
      BY <1>1, <1>3, <2>1, <2>2, <2>4
    <2>6. CASE o + m = f
      <3>1. o + n \in f .. Len(segment) /\ AllIn({"newline"}, f, o + n)
        BY <1>1, <2>1, <2>2, <2>6
      <3>2. o + n <= e
        BY <1>5, <3>1
      <3> QED
        BY <1>1, <1>5, <2>1, <3>2
    <2>7. CASE o + m < f
      <3>1. At(o + m) = "other"
        BY <1>1, <1>3, <2>5, <2>7 DEF AllIn
      <3>2. ~(o + m <= o + n - 1)
        <4> SUFFICES ASSUME o + m <= o + n - 1 PROVE FALSE
          OBVIOUS
        <4>1. o + m \in o + m .. (o + n) - 1
          BY <1>1, <2>1
        <4>2. At(o + m) = "newline"
          BY <2>2, <4>1 DEF AllIn
        <4> QED
          BY <3>1, <4>2
      <3> QED
        BY <1>1, <1>5, <1>6, <2>1, <2>7, <3>2
    <2> QED
      BY <1>1, <1>3, <2>1, <2>5, <2>6, <2>7
  <1>9. \A j \in 1 .. 4 - 1 : Alternatives(o)[j] = {}
    <2>1. At(o) # "letter" /\ At(o) # "number"
      BY <1>2
    <2>2. ~(/\ At(o) \in {"space", "other"} /\ o + 1 < Len(segment)
            /\ At(o + 1) = "letter")
      BY <1>1
    <2>3. Alternatives(o)[1] = {} /\ Alternatives(o)[2] = {} /\ Alternatives(o)[3] = {}
      BY <2>1, <2>2, NoMatches
    <2> QED
      BY <2>3
  <1>10. RegexLength(o) = e - o
    BY <1>7, <1>8, <1>9, FirstLongest
  <1> QED
    BY <1>6, <1>10 DEF e, f

\* A run of white space.
LEMMA CutWhite ==
  ASSUME SegmentType, NEW o \in Offsets, At(o) \in White,
         At(o) = "space" => ~(o + 1 < Len(segment) /\ At(o + 1) = "letter"),
         segment[o + 1] = "blank" => ~(o + 1 < Len(segment) /\ At(o + 1) = "other")
  PROVE  RegexLength(o) = WhitespaceLength(o) /\ WhitespaceLength(o) > 0
  <1> DEFINE L == Len(segment)
             end == RunEnd({"space", "newline"}, o)
             newlines == { i \in o .. end - 1 : At(i) = "newline" }
             A == Alternatives(o)
  <1>1. L \in Nat /\ o \in Nat /\ o < L
    BY DEF SegmentType, Offsets
  <1>2. Contraction(o) = 0
    <2>1. At(o) # "other"
      BY DEF White
    <2> QED
      BY <2>1, CharacterClasses, ContractionIs
  <1>3. A[1] = {} /\ A[2] = {} /\ A[3] = {} /\ A[4] = {}
    <2>1. At(o) # "other" /\ At(o) # "letter" /\ At(o) # "number"
      BY DEF White
    <2> QED
      BY <1>2, <2>1, NoMatches
  <1>4. /\ end \in o .. L /\ AllIn(White, o, end) /\ (end = L \/ At(end) \notin White)
        /\ \A j \in o .. L : AllIn(White, o, j) => j <= end
    BY <1>1, RunEndIs DEF White
  <1>5. WhitespaceLength(o) = IF newlines # {} THEN Max(newlines) + 1 - o
                              ELSE IF end = L \/ end - o = 1 THEN end - o
                              ELSE end - 1 - o
    BY DEF WhitespaceLength
  <1>6. \A n \in 1 .. L - o :
          /\ n \in A[5] <=> \E m \in 0 .. n - 1 : /\ AllIn(White, o, o + m)
                                                  /\ AllIn({"newline"}, o + m, o + n)
          /\ n \in A[6] <=> /\ AllIn(White, o, o + n)
                            /\ o + n = L \/ At(o + n) \in White
          /\ n \in A[7] <=> AllIn(White, o, o + n)
    BY AlternativesAre
  <1>7. A[5] \subseteq 1 .. L - o /\ A[6] \subseteq 1 .. L - o /\ A[7] \subseteq 1 .. L - o
    BY AlternativesAre
  <1> HIDE DEF end, A, L
  <1>8. end > o
    <2>1. AllIn(White, o, o + 1)
      BY <1>1 DEF AllIn
    <2>2. o + 1 \in o .. L
      BY <1>1
    <2> QED
      BY <1>1, <1>4, <2>1, <2>2
  <1>9. \A n \in 1 .. L - o : AllIn(White, o, o + n) => o + n <= end
    BY <1>1, <1>4
  <1>10. ASSUME NEW n \in A[5]
         PROVE  n \in 1 .. L - o /\ o + n - 1 \in newlines
    <2>1. n \in 1 .. L - o
      BY <1>7
    <2>2. PICK m \in 0 .. n - 1 : AllIn(White, o, o + m) /\ AllIn({"newline"}, o + m, o + n)
      BY <1>6, <2>1
    <2>3. AllIn(White, o, o + n)
      <3> SUFFICES ASSUME NEW x \in o .. (o + n) - 1 PROVE At(x) \in White
        BY DEF AllIn
      <3>1. x \in o .. (o + m) - 1 \/ x \in o + m .. (o + n) - 1
        BY <1>1, <2>1
      <3> QED
        BY <2>2, <3>1 DEF AllIn, White
    <2>4. o + n <= end
      BY <1>9, <2>1, <2>3
    <2>5. At(o + n - 1) = "newline"
      <3>1. o + n - 1 \in o + m .. (o + n) - 1
        BY <1>1, <2>1
      <3> QED
        BY <2>2, <3>1 DEF AllIn
    <2>6. o + n - 1 \in o .. end - 1
      BY <1>1, <1>4, <2>1, <2>4
    <2> QED
      BY <2>1, <2>5, <2>6
  <1>11. CASE newlines # {}
    <2> DEFINE last == Max(newlines)
               n == last + 1 - o
    <2>1. last \in newlines /\ \A k \in newlines : k <= last
      <3>1. newlines \subseteq 0 .. L /\ L \in Nat
        BY <1>1, <1>4
      <3> HIDE DEF newlines
      <3> QED
        BY <1>11, <3>1, MaxIsGreatest
    <2> HIDE DEF last
    <2>2. last \in o .. end - 1 /\ At(last) = "newline"
      BY <2>1
    <2>3. n \in 1 .. L - o /\ n - 1 \in 0 .. n - 1 /\ o + (n - 1) = last /\ o + n = last + 1
      BY <1>1, <1>4, <2>2
    <2>4. AllIn(White, o, last) /\ AllIn({"newline"}, last, last + 1)
      <3>1. \A x \in o .. last - 1 : x \in o .. end - 1
        BY <1>1, <1>4, <2>2
      <3>2. \A x \in last .. (last + 1) - 1 : x = last
        BY <1>1, <1>4, <2>2
      <3> QED
        BY <1>4, <2>2, <3>1, <3>2 DEF AllIn
    <2> HIDE DEF n
    <2>5. n \in A[5]
      BY <1>6, <2>3, <2>4
    <2>6. \A x \in A[5] : x <= n
      <3> TAKE x \in A[5]
      <3>1. x \in 1 .. L - o /\ o + x - 1 <= last
        BY <1>10, <2>1
      <3> QED
        BY <1>1, <2>2, <2>3, <3>1
    <2>7. \A j \in 1 .. 5 - 1 : A[j] = {}
      BY <1>3
    <2>8. RegexLength(o) = n
      BY <2>5, <2>6, <2>7, FirstLongest DEF A
    <2> QED
      BY <1>5, <1>11, <2>3, <2>8 DEF n, last
  <1>12. CASE newlines = {}
    <2>1. A[5] = {}
      BY <1>10, <1>12
    <2>2. \A j \in 1 .. 6 - 1 : A[j] = {}
      BY <1>3, <2>1
    <2> HIDE DEF newlines
    <2>3. ASSUME NEW n \in A[6]
          PROVE  n \in 1 .. L - o /\ o + n <= end /\ (end = L \/ o + n < end)
      <3>1. n \in 1 .. L - o
        BY <1>7
      <3>2. AllIn(White, o, o + n) /\ (o + n = L \/ At(o + n) \in White)
        BY <1>6, <2>3, <3>1
      <3>3. o + n <= end
        BY <1>9, <3>1, <3>2
      <3>4. end = L \/ o + n # end
        BY <1>4, <3>2
      <3> QED
        BY <1>1, <1>4, <3>1, <3>3, <3>4
    <2>4. CASE end = L
      <3>1. end - o \in 1 .. L - o /\ o + (end - o) = end
        BY <1>1, <1>4, <1>8
      <3>2. end - o \in A[6]
        BY <1>4, <1>6, <2>4, <3>1
      <3>3. \A x \in A[6] : x <= end - o
        BY <1>1, <1>4, <2>3
      <3>4. RegexLength(o) = end - o
        BY <2>2, <3>2, <3>3, FirstLongest DEF A
      <3> QED
        BY <1>5, <1>12, <2>4, <3>1, <3>4
    <2>5. CASE end # L /\ end - o = 1
      <3>1. A[6] = {}
        BY <1>1, <1>4, <2>3, <2>5
      <3>2. 1 \in 1 .. L - o /\ o + 1 = end
        BY <1>1, <1>4, <2>5
      <3>3. 1 \in A[7]
        BY <1>4, <1>6, <3>2
      <3>4. \A x \in A[7] : x <= 1
        <4> TAKE x \in A[7]
        <4>1. x \in 1 .. L - o
          BY <1>7
        <4>2. o + x <= end
          BY <1>6, <1>9, <4>1
        <4> QED
          BY <1>1, <1>4, <3>2, <4>1, <4>2
      <3>5. \A j \in 1 .. 7 - 1 : A[j] = {}
        BY <1>3, <2>1, <3>1
      <3>6. RegexLength(o) = 1
        BY <3>3, <3>4, <3>5, FirstLongest DEF A
      <3> QED
        BY <1>5, <1>12, <2>5, <3>6
    <2>6. CASE end # L /\ end - o # 1
      <3> DEFINE n == end - 1 - o
      <3>1. n \in 1 .. L - o /\ o + n = end - 1 /\ end - 1 \in o .. end - 1
        BY <1>1, <1>4, <1>8, <2>6
      <3>2. AllIn(White, o, end - 1) /\ At(end - 1) \in White
        <4>1. \A x \in o .. (end - 1) - 1 : x \in o .. end - 1
          BY <1>1, <1>4
        <4> QED
          BY <1>4, <3>1, <4>1 DEF AllIn
      <3> HIDE DEF n
      <3>3. n \in A[6]
        BY <1>6, <3>1, <3>2
      <3>4. \A x \in A[6] : x <= n
        <4> TAKE x \in A[6]
        <4>1. x \in 1 .. L - o /\ o + x < end
          BY <2>3, <2>6
        <4> QED
          BY <1>1, <1>4, <3>1, <4>1
      <3>5. RegexLength(o) = n
        BY <2>2, <3>3, <3>4, FirstLongest DEF A
      <3> QED
        BY <1>5, <1>12, <2>6, <3>1, <3>5 DEF n
    <2> QED
      BY <2>4, <2>5, <2>6
  <1> QED
    BY <1>11, <1>12

\* A number, and a contraction.
LEMMA CutNumber ==
  ASSUME SegmentType, NEW o \in Offsets, At(o) = "number"
  PROVE  RegexLength(o) = 1
  <1>1. Contraction(o) = 0
    BY CharacterClasses, ContractionIs
  <1>2. \A j \in 1 .. 3 - 1 : Alternatives(o)[j] = {}
    BY <1>1, NoMatches
  <1>3. 1 \in 1 .. Len(segment) - o
    BY DEF SegmentType, Offsets
  <1>4. 1 \in Alternatives(o)[3]
    BY <1>3, AlternativesAre
  <1>5. \A x \in Alternatives(o)[3] : x <= 1
    <2> TAKE x \in Alternatives(o)[3]
    <2>1. x \in 1 .. Len(segment) - o
      BY AlternativesAre
    <2>2. x = 1
      BY <2>1, AlternativesAre
    <2> QED
      BY <2>2
  <1> QED
    BY <1>2, <1>4, <1>5, FirstLongest

LEMMA CutContraction ==
  ASSUME SegmentType, NEW o \in Offsets, Contraction(o) # 0
  PROVE  RegexLength(o) = Contraction(o)
  <1> DEFINE n == Contraction(o)
  <1>1. n \in 1 .. Len(segment) - o
    BY ContractionIs
  <1>2. n \in Alternatives(o)[1]
    BY <1>1, AlternativesAre
  <1>3. \A x \in Alternatives(o)[1] : x = n
    <2> TAKE x \in Alternatives(o)[1]
    <2>1. x \in 1 .. Len(segment) - o
      BY AlternativesAre
    <2> QED
      BY <2>1, AlternativesAre
  <1>4. \A j \in 1 .. 1 - 1 : Alternatives(o)[j] = {}
    OBVIOUS
  <1>5. \A x \in Alternatives(o)[1] : x <= n
    BY <1>1, <1>3
  <1> HIDE DEF n
  <1> QED
    BY <1>2, <1>4, <1>5, FirstLongest DEF n

LEMMA PretokenIsRegex ==
  ASSUME SegmentType, NEW o \in Offsets,
         At(o) # "unsupported", o + 1 < Len(segment) => At(o + 1) # "unsupported"
  PROVE  PretokenLength(o) = RegexLength(o) /\ PretokenLength(o) > 0
  <1> DEFINE next == IF o + 1 < Len(segment) THEN At(o + 1) ELSE "end"
             P == PretokenLength(o)
             C == Contraction(o)
  <1>1. Len(segment) \in Nat /\ o \in Nat /\ next # "unsupported"
    BY DEF SegmentType, Offsets
  <1>2. At(o) \in {"letter", "number", "space", "newline", "other"}
    BY CharacterClasses
  <1>3. C \in {0, 2, 3} /\ (C # 0 => At(o) = "other")
    BY CharacterClasses, ContractionIs
  <1> DEFINE none == 0   \* characters before a word or a sign
  <1>4. none \in 0 .. 1 /\ none = 0 /\ none # 1 /\ o + none = o
    BY <1>1
  <1> HIDE DEF none
  <1>5. CASE At(o) = "letter"
    <2>1. P = RunEnd({"letter"}, o) - o
      BY <1>5 DEF PretokenLength
    <2>2. C = 0
      BY <1>3, <1>5
    <2>3. RegexLength(o) = RunEnd({"letter"}, o + none) - o /\ RegexLength(o) > 0
      BY <1>4, <1>5, <2>2, CutWord
    <2> QED
      BY <1>4, <2>1, <2>3
  <1>6. CASE At(o) = "number"
    <2>1. P = 1
      BY <1>6 DEF PretokenLength
    <2> QED
      BY <1>6, <2>1, CutNumber
  <1>7. CASE At(o) = "newline"
    <2>1. P = WhitespaceLength(o)
      BY <1>7 DEF PretokenLength
    <2>2. segment[o + 1] # "blank" /\ At(o) \in White
      BY <1>7, CharacterClasses DEF White
    <2> QED
      BY <1>7, <2>1, <2>2, CutWhite
  <1>8. CASE At(o) = "other"
    <2>1. P = IF C > 0 THEN C
              ELSE IF next = "unsupported" THEN 0
              ELSE IF next = "letter" THEN RunEnd({"letter"}, o + 1) - o
              ELSE RunEnd({"newline"}, RunEnd({"other"}, o)) - o
      BY <1>8 DEF PretokenLength
    <2>2. CASE C > 0
      BY <1>3, <2>1, <2>2, CutContraction
    <2>3. CASE C = 0 /\ next = "letter"
      <3>1. o + 1 < Len(segment) /\ At(o + 1) = "letter"
        BY <2>3
      <3>2. RegexLength(o) = RunEnd({"letter"}, o + 1) - o /\ RegexLength(o) > 0
        BY <1>8, <2>3, <3>1, CutWord
      <3> QED
        BY <2>1, <2>3, <3>2
    <2>4. CASE C = 0 /\ next # "letter"
      <3>1. ~(o + 1 < Len(segment) /\ At(o + 1) = "letter")
        BY <2>4
      <3>2. /\ RegexLength(o) = RunEnd({"newline"}, RunEnd({"other"}, o + none)) - o
            /\ RegexLength(o) > 0
        BY <1>4, <1>8, <2>4, <3>1, CutSigns
      <3> QED
        BY <1>1, <1>4, <2>1, <2>4, <3>2
    <2> QED
      BY <1>3, <2>2, <2>3, <2>4
  <1>9. CASE At(o) = "space"
    <2>1. P = IF next = "unsupported" THEN 0
              ELSE IF next = "letter" THEN RunEnd({"letter"}, o + 1) - o
              ELSE IF next = "other" /\ segment[o + 1] = "blank"
              THEN RunEnd({"newline"}, RunEnd({"other"}, o + 1)) - o
              ELSE WhitespaceLength(o)
      BY <1>9 DEF PretokenLength
    <2>2. C = 0
      BY <1>3, <1>9
    <2>3. CASE next = "letter"
      <3>1. o + 1 < Len(segment) /\ At(o + 1) = "letter"
        BY <2>3
      <3>2. RegexLength(o) = RunEnd({"letter"}, o + 1) - o /\ RegexLength(o) > 0
        BY <1>9, <2>2, <3>1, CutWord
      <3> QED
        BY <2>1, <2>3, <3>2
    <2>4. CASE next = "other" /\ segment[o + 1] = "blank"
      <3>1. o + 1 < Len(segment) /\ At(o + 1) = "other"
        BY <2>4
      <3>2. /\ RegexLength(o) = RunEnd({"newline"}, RunEnd({"other"}, o + 1)) - o
            /\ RegexLength(o) > 0
        BY <2>2, <2>4, <3>1, CutSigns
      <3> QED
        BY <2>1, <2>4, <3>2
    <2>5. CASE next # "letter" /\ ~(next = "other" /\ segment[o + 1] = "blank")
      <3>1. ~(o + 1 < Len(segment) /\ At(o + 1) = "letter")
        BY <2>5
      <3>2. segment[o + 1] = "blank" => ~(o + 1 < Len(segment) /\ At(o + 1) = "other")
        BY <2>5
      <3>3. At(o) \in White
        BY <1>9 DEF White
      <3>4. RegexLength(o) = WhitespaceLength(o) /\ WhitespaceLength(o) > 0
        BY <3>1, <3>2, <3>3, CutWhite
      <3>5. P = WhitespaceLength(o)
        BY <1>1, <2>1, <2>5
      <3> QED
        BY <3>4, <3>5
    <2> QED
      BY <2>3, <2>4, <2>5
  <1> QED
    BY <1>2, <1>5, <1>6, <1>7, <1>8, <1>9

LEMMA SegmentsCut == SegmentType => CutAsRegex
  <1> SUFFICES ASSUME SegmentType, NEW o \in Offsets
               PROVE  IF \A i \in o .. Len(segment) - 1 : At(i) # "unsupported"
                      THEN PretokenLength(o) = RegexLength(o)
                      ELSE PretokenLength(o) = 0 =>
                             \E i \in {o, o + 1} :
                               i < Len(segment) /\ At(i) = "unsupported"
    BY DEF CutAsRegex, Offsets
  <1>1. Len(segment) \in Nat /\ o \in Nat /\ o < Len(segment)
    BY DEF SegmentType, Offsets
  <1>2. CASE At(o) # "unsupported"
             /\ (o + 1 < Len(segment) => At(o + 1) # "unsupported")
    <2>1. PretokenLength(o) = RegexLength(o) /\ PretokenLength(o) > 0
      BY <1>2, PretokenIsRegex
    <2>2. PretokenLength(o) # 0
      BY <2>1
    <2> QED
      BY <2>1, <2>2
  <1>3. CASE At(o) = "unsupported"
    <2>1. o \in o .. Len(segment) - 1
      BY <1>1
    <2> QED
      BY <1>1, <1>3, <2>1
  <1>4. CASE o + 1 < Len(segment) /\ At(o + 1) = "unsupported"
    <2>1. o + 1 \in o .. Len(segment) - 1
      BY <1>1, <1>4
    <2> QED
      BY <1>4, <2>1
  <1> QED
    BY <1>2, <1>3, <1>4

(* On every segment, of any length, the scanner cuts where the regular      *)
(* expression of the Qwen2 pre-tokenizer does, and it refuses a segment     *)
(* only for a character of no class (qx_tok_pretoken_length).               *)
THEOREM SplitCutAsRegex == SplitSpec => []CutAsRegex
  <1>1. SplitInit => SegmentType
    BY DEF SplitInit, SegmentType
  <1>2. SegmentType /\ [SplitNext]_segment => SegmentType'
    BY DEF SegmentType, SplitNext
  <1> QED
    BY <1>1, <1>2, SegmentsCut, PTL DEF SplitSpec
=============================================================================
