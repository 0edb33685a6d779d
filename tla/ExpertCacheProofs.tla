------------------------- MODULE ExpertCacheProofs -------------------------
(***************************************************************************)
(* Safety of ExpertCache for every set of keys, sizes and budget, every    *)
(* number of borrow objects and every counter limit.  IInv is inductive;   *)
(* the properties of the runs follow from it.                              *)
(***************************************************************************)
EXTENDS ExpertCache, FiniteSetTheorems, SequenceTheorems, TLAPS

(***************************************************************************)
(* Sequences.                                                              *)
(***************************************************************************)
LEMMA InToSet == \A s, x : x \in ToSet(s) <=> \E j \in DOMAIN s : s[j] = x
  BY DEF ToSet

\* t is s without the element at i
Removed(s, i, t) ==
  /\ DOMAIN t = 1 .. Len(s) - 1
  /\ \A j \in 1 .. Len(s) - 1 : t[j] = IF j < i THEN s[j] ELSE s[j + 1]

\* t is s followed by x
Appended(s, x, t) ==
  /\ DOMAIN t = 1 .. Len(s) + 1
  /\ t[Len(s) + 1] = x /\ \A j \in 1 .. Len(s) : t[j] = s[j]

\* f grows along s
Ordered(s, f) == \A j, k \in DOMAIN s : j < k => f[s[j]] < f[s[k]]

(* What is left of a sequence when the element at i is taken out.          *)
LEMMA RemoveAtProperties ==
  ASSUME NEW S, NEW s \in Seq(S), NEW i \in DOMAIN s
  PROVE  RemoveAt(s, i) \in Seq(S) /\ Removed(s, i, RemoveAt(s, i))
  <1> DEFINE a == SubSeq(s, 1, i - 1)  b == SubSeq(s, i + 1, Len(s))
  <1>1. Len(s) \in Nat /\ DOMAIN s = 1 .. Len(s) /\ i \in 1 .. Len(s)
    BY LenProperties
  <1>2. \A j \in 1 .. Len(s) : s[j] \in S
    BY <1>1, ElementOfSeq
  <1>3. /\ a \in Seq(S) /\ Len(a) = i - 1
        /\ \A j \in 1 .. i - 1 : a[j] = s[j]
    BY <1>1, <1>2, SubSeqProperties
  <1>4. /\ b \in Seq(S) /\ Len(b) = Len(s) - i
        /\ \A j \in 1 .. Len(s) - i : b[j] = s[i + j]
    BY <1>1, <1>2, SubSeqProperties
  <1>5. RemoveAt(s, i) = a \o b
    BY DEF RemoveAt
  <1> HIDE DEF a, b
  <1>6. /\ a \o b \in Seq(S) /\ Len(a \o b) = Len(a) + Len(b)
        /\ \A j \in 1 .. Len(a) + Len(b) :
             (a \o b)[j] = IF j <= Len(a) THEN a[j] ELSE b[j - Len(a)]
    BY <1>3, <1>4, ConcatProperties, Zenon
  <1>7. Len(a) + Len(b) = Len(s) - 1
    BY <1>1, <1>3, <1>4
  <1>8. ASSUME NEW j \in 1 .. Len(s) - 1, j < i
        PROVE  (a \o b)[j] = s[j]
    BY <1>1, <1>3, <1>6, <1>7, <1>8
  <1>9. ASSUME NEW j \in 1 .. Len(s) - 1, ~(j < i)
        PROVE  (a \o b)[j] = s[j + 1]
    <2>1. j - (i - 1) \in 1 .. Len(s) - i /\ i + (j - (i - 1)) = j + 1
      BY <1>1, <1>9
    <2>2. (a \o b)[j] = b[j - (i - 1)]
      BY <1>1, <1>3, <1>6, <1>7, <1>9
    <2> QED
      BY <1>4, <2>1, <2>2
  <1>10. DOMAIN (a \o b) = 1 .. Len(s) - 1
    BY <1>6, <1>7, LenProperties
  <1> QED
    BY <1>5, <1>6, <1>8, <1>9, <1>10 DEF Removed

(* Taking out the element at i keeps the others, in their order.           *)
LEMMA RemovedOrder ==
  ASSUME NEW S, NEW s \in Seq(S), NEW i \in DOMAIN s, NEW f \in [S -> Int],
         NEW t, Removed(s, i, t), Ordered(s, f)
  PROVE  ToSet(t) = ToSet(s) \ {s[i]} /\ Ordered(t, f)
  <1>n. PICK n \in Nat : n = Len(s)
    BY LenProperties
  <1>s. DOMAIN s = 1 .. n /\ i \in 1 .. n /\ \A j \in 1 .. n : s[j] \in S
    BY <1>n, LenProperties, ElementOfSeq
  <1>t. /\ DOMAIN t = 1 .. n - 1
        /\ \A j \in 1 .. n - 1 : t[j] = IF j < i THEN s[j] ELSE s[j + 1]
    BY <1>n DEF Removed
  <1>o. \A j, k \in 1 .. n : j < k => f[s[j]] < f[s[k]]
    BY <1>s DEF Ordered
  <1>1. \A j \in 1 .. n : f[s[j]] \in Int
    BY <1>s
  <1>2. \A j, k \in 1 .. n : s[j] = s[k] => j = k
    BY <1>1, <1>s, <1>o
  <1>3. \A j \in 1 .. n - 1 : t[j] \in ToSet(s) \ {s[i]}
    <2> TAKE j \in 1 .. n - 1
    <2>1. j \in 1 .. n /\ j + 1 \in 1 .. n
      BY <1>n
    <2>2. CASE j < i
      BY <1>2, <1>s, <1>t, <2>1, <2>2, InToSet
    <2>3. CASE ~(j < i)
      <3>1. t[j] = s[j + 1] /\ j + 1 # i
        BY <1>s, <1>t, <2>3
      <3> QED
        BY <1>2, <1>s, <2>1, <3>1, InToSet
    <2> QED
      BY <2>2, <2>3
  <1>4. ASSUME NEW j \in 1 .. n, j # i PROVE s[j] \in ToSet(t)
    <2>1. CASE j < i
      <3>1. j \in 1 .. n - 1 /\ t[j] = s[j]
        BY <1>s, <1>t, <2>1
      <3> QED
        BY <1>t, <3>1 DEF ToSet
    <2>2. CASE j > i
      <3>1. j - 1 \in 1 .. n - 1 /\ ~(j - 1 < i) /\ (j - 1) + 1 = j
        BY <1>s, <2>2
      <3>2. t[j - 1] = s[j]
        BY <1>t, <3>1
      <3> QED
        BY <1>t, <3>1, <3>2 DEF ToSet
    <2> QED
      BY <1>4, <1>s, <2>1, <2>2
  <1>5. ToSet(t) = ToSet(s) \ {s[i]}
    <2>1. ToSet(t) \subseteq ToSet(s) \ {s[i]}
      BY <1>3, <1>t, InToSet
    <2>2. ASSUME NEW x \in ToSet(s) \ {s[i]} PROVE x \in ToSet(t)
      <3>1. PICK j \in 1 .. n : s[j] = x
        BY <1>s, InToSet
      <3> QED
        BY <1>4, <3>1
    <2> QED
      BY <2>1, <2>2
  <1>6. ASSUME NEW j \in 1 .. n - 1, NEW k \in 1 .. n - 1, j < k
        PROVE  f[t[j]] < f[t[k]]
    BY <1>6, <1>s, <1>t, <1>o
  <1> QED
    BY <1>5, <1>6, <1>t DEF Ordered

LEMMA RemoveAtOrder ==
  ASSUME NEW S, NEW s \in Seq(S), NEW i \in DOMAIN s, NEW f \in [S -> Int], Ordered(s, f)
  PROVE  /\ RemoveAt(s, i) \in Seq(S)
         /\ ToSet(RemoveAt(s, i)) = ToSet(s) \ {s[i]}
         /\ Ordered(RemoveAt(s, i), f)
  <1>1. RemoveAt(s, i) \in Seq(S) /\ Removed(s, i, RemoveAt(s, i))
    BY RemoveAtProperties
  <1>2. \A t : Removed(s, i, t) => ToSet(t) = ToSet(s) \ {s[i]} /\ Ordered(t, f)
    BY RemovedOrder
  <1> QED
    BY <1>1, <1>2

(* Appending an element adds it, at the end of the order.                  *)
LEMMA AppendedOrder ==
  ASSUME NEW S, NEW s \in Seq(S), NEW x \in S, NEW f \in [S -> Int],
         NEW t, Appended(s, x, t), Ordered(s, f),
         \A e \in ToSet(s) : f[e] < f[x]
  PROVE  ToSet(t) = ToSet(s) \cup {x} /\ Ordered(t, f)
  <1>n. PICK n \in Nat : n = Len(s)
    BY LenProperties
  <1>s. DOMAIN s = 1 .. n /\ \A j \in 1 .. n : s[j] \in S
    BY <1>n, LenProperties, ElementOfSeq
  <1>t. DOMAIN t = 1 .. n + 1 /\ t[n + 1] = x /\ \A j \in 1 .. n : t[j] = s[j]
    BY <1>n DEF Appended
  <1>o. \A j, k \in 1 .. n : j < k => f[s[j]] < f[s[k]]
    BY <1>s DEF Ordered
  <1>1. ToSet(t) = ToSet(s) \cup {x}
    <2>0. \A j \in 1 .. n : j \in DOMAIN s /\ j \in DOMAIN t /\ t[j] = s[j]
      BY <1>n, <1>s, <1>t
    <2>1. \A j \in 1 .. n : s[j] \in ToSet(t) /\ t[j] \in ToSet(s)
      BY <2>0 DEF ToSet
    <2>2. x \in ToSet(t)
      BY <1>s, <1>t DEF ToSet
    <2>3. \A j \in 1 .. n + 1 : j \in 1 .. n \/ j = n + 1
      OBVIOUS
    <2>4. ToSet(t) \subseteq ToSet(s) \cup {x}
      BY <1>s, <1>t, <2>1, <2>3 DEF ToSet
    <2>5. ToSet(s) \subseteq ToSet(t)
      BY <1>s, <1>t, <2>1 DEF ToSet
    <2> QED
      BY <2>2, <2>4, <2>5
  <1>2. ASSUME NEW j \in 1 .. n + 1, NEW k \in 1 .. n + 1, j < k
        PROVE  f[t[j]] < f[t[k]]
    <2>1. j \in 1 .. n /\ t[j] = s[j]
      BY <1>2, <1>s, <1>t
    <2>2. CASE k \in 1 .. n
      BY <1>2, <1>s, <1>t, <1>o, <2>1, <2>2
    <2>3. CASE k = n + 1
      <3>1. s[j] \in ToSet(s)
        BY <1>s, <1>t, <2>1 DEF ToSet
      <3> QED
        BY <1>s, <1>t, <2>1, <2>3, <3>1
    <2> QED
      BY <1>n, <2>2, <2>3
  <1> QED
    BY <1>1, <1>2, <1>t DEF Ordered

LEMMA AppendOrder ==
  ASSUME NEW S, NEW s \in Seq(S), NEW x \in S, NEW f \in [S -> Int], Ordered(s, f),
         \A e \in ToSet(s) : f[e] < f[x]
  PROVE  /\ Append(s, x) \in Seq(S)
         /\ ToSet(Append(s, x)) = ToSet(s) \cup {x}
         /\ Ordered(Append(s, x), f)
  <1>1. Append(s, x) \in Seq(S) /\ Appended(s, x, Append(s, x))
    BY LenProperties DEF Appended
  <1>2. \A t : Appended(s, x, t) => ToSet(t) = ToSet(s) \cup {x} /\ Ordered(t, f)
    BY AppendedOrder
  <1> QED
    BY <1>1, <1>2

-----------------------------------------------------------------------------
(***************************************************************************)
(* What the parts of the invariant are about.                              *)
(***************************************************************************)
LEMMA Constants ==
  /\ CounterMax \in Nat /\ Budget \in Nat /\ Budget >= 1 /\ Budget <= CounterMax
  /\ \A k \in Keys : SizeOf[k] \in Nat /\ SizeOf[k] >= 1
  /\ NULL \notin Addrs /\ NULL \notin Keys
  BY BudgetAssumption, KeysAssumption, NullAssumption

LEMMA ResidentFacts ==
  ASSUME TypeOK
  PROVE  /\ Resident \subseteq Addrs
         /\ \A i \in DOMAIN list : list[i] \in Resident
         /\ \A e \in Resident : \E i \in DOMAIN list : list[i] = e
         /\ lastUse \in [Addrs -> Int]
  <1>1. list \in Seq(Addrs) /\ lastUse \in [Addrs -> 0 .. CounterMax]
    BY DEF TypeOK, Counter
  <1>2. \A i \in DOMAIN list : list[i] \in Addrs
    BY <1>1, LenProperties, ElementOfSeq
  <1>3. Resident = ToSet(list)
    BY DEF Resident
  <1> QED
    BY <1>1, <1>2, <1>3, InToSet, Constants

LEMMA EmptyList ==
  ASSUME list = <<>>
  PROVE  Resident = {} /\ ResidentKeys = {} /\ DOMAIN list = {}
  <1>1. DOMAIN list = {}
    OBVIOUS
  <1>2. Resident = {}
    BY <1>1, InToSet DEF Resident
  <1> QED
    BY <1>1, <1>2 DEF ResidentKeys

LEMMA InitIInv == Init => IInv
  <1> SUFFICES ASSUME Init PROVE IInv
    OBVIOUS
  <1> USE DEF Init
  <1>1. TypeOK
    <2>1. list \in Seq(Addrs)
      BY EmptySeq
    <2>2. 0 \in Counter
      BY Constants DEF Counter
    <2>3. /\ keyOf \in [Addrs -> Keys \cup {NULL}]
          /\ pins \in [Addrs -> Counter] /\ lastUse \in [Addrs -> Counter]
          /\ borrow \in [Borrows -> Addrs \cup {NULL}]
          /\ want \in [Borrows -> Keys \cup {NULL}]
      BY <2>2
    <2>4. pc \in Stages
      BY DEF Stages
    <2> QED
      BY <2>1, <2>2, <2>3, <2>4 DEF TypeOK
  <1>2. ListInv /\ OrderInv /\ HeapInv /\ PinsAreBorrows
    BY EmptyList DEF ListInv, OrderInv, HeapInv, PinsAreBorrows
  <1>3. CallInv /\ BorrowsValid /\ Accounting
    BY DEF CallInv, BorrowsValid, Accounting
  <1> QED
    BY <1>1, <1>2, <1>3 DEF IInv

(* A call is only under way on an initialized cache.                       *)
LEMMA IdleWhenUninitialized ==
  ASSUME IInv, ~initialized
  PROVE  pc = "idle" /\ list = <<>>
  BY DEF IInv, CallInv, ListInv

(* The keys of the entries, and their number and size, change by one.      *)
LEMMA KeysFinite ==
  ASSUME NEW K \in SUBSET Keys
  PROVE  IsFiniteSet(K) /\ Cardinality(K) \in Nat /\ Bytes[K] \in Nat
  BY KeysAssumption, BytesAssumption, FS_Subset, FS_CardinalityType

LEMMA KeyAdded ==
  ASSUME NEW K \in SUBSET Keys, NEW k \in Keys \ K
  PROVE  /\ Cardinality(K \cup {k}) = Cardinality(K) + 1
         /\ Bytes[K \cup {k}] = Bytes[K] + SizeOf[k]
  BY KeysFinite, FS_AddElement, BytesAssumption

LEMMA KeyRemoved ==
  ASSUME NEW K \in SUBSET Keys, NEW k \in K
  PROVE  /\ Cardinality(K \ {k}) = Cardinality(K) - 1
         /\ Bytes[K \ {k}] = Bytes[K] - SizeOf[k]
         /\ SizeOf[k] <= Bytes[K]
  <1>1. (K \ {k}) \cup {k} = K /\ k \in Keys \ (K \ {k}) /\ K \ {k} \in SUBSET Keys
    OBVIOUS
  <1>2. Bytes[K] = Bytes[K \ {k}] + SizeOf[k]
    BY <1>1, BytesAssumption
  <1>3. Cardinality(K \ {k}) = Cardinality(K) - 1
    BY KeysFinite, FS_RemoveElement
  <1>4. Bytes[K \ {k}] \in Nat /\ SizeOf[k] \in Nat
    BY KeysFinite, Constants
  <1> QED
    BY <1>2, <1>3, <1>4

(* The borrows of an entry.                                                *)
LEMMA HoldersFinite ==
  ASSUME NEW e
  PROVE  /\ IsFiniteSet(Holders(e)) /\ Cardinality(Holders(e)) \in Nat
         /\ Cardinality(Holders(e)) = 0 <=> Holders(e) = {}
  <1>1. Holders(e) \in SUBSET Borrows
    BY DEF Holders
  <1>2. IsFiniteSet(Holders(e))
    BY <1>1, FiniteAssumption, FS_Subset
  <1> QED
    BY <1>2, FS_CardinalityType, FS_EmptySet

-----------------------------------------------------------------------------
(***************************************************************************)
(* Steps that leave the entries and the borrows as they are.               *)
(***************************************************************************)
SameEntries == UNCHANGED <<initialized, entries, client>>

LEMMA SameResident ==
  ASSUME SameEntries
  PROVE  /\ Resident' = Resident /\ ResidentKeys' = ResidentKeys
         /\ \A e : Holders(e)' = Holders(e)
  <1>1. Resident' = Resident /\ keyOf' = keyOf
    BY DEF SameEntries, entries, Resident
  <1> QED
    BY <1>1 DEF SameEntries, client, ResidentKeys, Holders

LEMMA SameEntriesInv ==
  ASSUME IInv, SameEntries, pc' = "idle" \/ pc # "idle" \/ requests' = requests + 1,
         requests' \in Nat, requests' >= requests
  PROVE  ListInv' /\ OrderInv' /\ PinsAreBorrows'
  <1>1. TypeOK /\ ListInv /\ OrderInv /\ PinsAreBorrows
    BY DEF IInv
  <1>2. ListInv'
    BY <1>1, SameResident DEF ListInv, SameEntries, entries
  <1>3. OrderInv'
    <2>1. list' = list /\ lastUse' = lastUse /\ Resident' = Resident
      BY SameResident DEF SameEntries, entries
    <2>2. requests \in Nat /\ \A e \in Resident : lastUse[e] \in Nat
      BY <1>1, ResidentFacts, Constants DEF TypeOK, Counter
    <2>3. ASSUME NEW e \in Resident
          PROVE  lastUse[e] <= requests' /\ (pc' # "idle" => lastUse[e] < requests')
      BY <1>1, <2>2 DEF OrderInv
    <2> QED
      BY <1>1, <2>1, <2>3 DEF OrderInv
  <1>4. PinsAreBorrows'
    <2>1. pins' = pins
      BY DEF SameEntries, entries
    <2> QED
      BY <1>1, <2>1, SameResident DEF PinsAreBorrows
  <1> QED
    BY <1>2, <1>3, <1>4

LEMMA SameBorrowsValid ==
  ASSUME IInv, SameEntries, HeapInv'
  PROVE  BorrowsValid'
  <1>1. Resident' \subseteq dataLive'
    BY DEF HeapInv
  <1>2. initialized' = initialized /\ borrow' = borrow /\ want' = want /\ keyOf' = keyOf
    BY DEF SameEntries, entries, client
  <1>3. BorrowsValid
    BY DEF IInv
  <1> QED
    BY <1>1, <1>2, <1>3, SameResident DEF BorrowsValid

LEMMA MissStep ==
  ASSUME IInv, NEW b \in Borrows, NEW k \in Keys, Miss(b, k)
  PROVE  IInv'
  <1> USE DEF Miss
  <1>1. TypeOK /\ HeapInv /\ Accounting /\ pc = "idle"
    BY DEF IInv
  <1>2. SameEntries /\ requests \in Nat
    BY <1>1 DEF SameEntries, TypeOK, Counter
  <1>3. TypeOK'
    <2>1. requests' \in Counter /\ misses' \in Counter
      <3>1. requests \in Counter /\ misses \in Counter
        BY <1>1 DEF TypeOK
      <3>2. /\ requests < CounterMax /\ misses < CounterMax
            /\ requests' = requests + 1 /\ misses' = misses + 1
        OBVIOUS
      <3> QED
        BY <3>1, <3>2, Constants DEF Counter
    <2>2. /\ pc' \in Stages /\ reqKey' \in Keys \cup {NULL}
          /\ reqBorrow' \in Borrows \cup {NULL} /\ fresh' \in Addrs \cup {NULL}
      BY <1>1 DEF TypeOK, Stages, request
    <2> QED
      BY <1>1, <2>1, <2>2 DEF TypeOK, entries, heap, client
  <1>4. ListInv' /\ OrderInv' /\ PinsAreBorrows'
    BY <1>2, SameEntriesInv
  <1>5. HeapInv'
    BY <1>1, <1>2, SameResident DEF HeapInv, heap, request
  <1>6. CallInv'
    <2>1. CASE SizeOf[k] > Budget
      BY <1>1, <2>1 DEF CallInv, request
    <2>2. CASE ~(SizeOf[k] > Budget)
      <3>1. SizeOf[k] <= Budget
        BY <2>2, Constants
      <3>2. k \notin ResidentKeys
        BY <1>1, ResidentFacts DEF Cached, ResidentKeys
      <3>3. loads' < misses'
        BY <1>1 DEF TypeOK, Accounting, Counter
      <3> QED
        BY <1>2, <2>2, <3>1, <3>2, <3>3, SameResident DEF CallInv, client
    <2> QED
      BY <2>1, <2>2
  <1>7. Accounting'
    BY <1>1, <1>2, SameResident, Constants DEF Accounting, TypeOK, Counter, SameEntries
  <1>8. BorrowsValid'
    BY <1>2, <1>5, SameBorrowsValid
  <1> QED
    BY <1>3, <1>4, <1>5, <1>6, <1>7, <1>8 DEF IInv

(* The stages of a miss that only allocate, or that give up.               *)
LEMMA StageInv ==
  ASSUME IInv, SameEntries, TypeOK', HeapInv', CallInv', pc # "idle",
         UNCHANGED <<requests, hits, misses, loads, evictions, current, peak>>
  PROVE  IInv'
  <1>1. TypeOK /\ Accounting
    BY DEF IInv
  <1>2. ListInv' /\ OrderInv' /\ PinsAreBorrows'
    BY <1>1, SameEntriesInv DEF TypeOK, Counter
  <1>3. Accounting'
    BY <1>1, SameResident DEF Accounting, SameEntries
  <1>4. BorrowsValid'
    BY SameBorrowsValid
  <1> QED
    BY <1>2, <1>3, <1>4 DEF IInv

LEMMA AdmissionBlockedStep ==
  ASSUME IInv, AdmissionBlocked
  PROVE  IInv'
  <1> USE DEF AdmissionBlocked, EndCall
  <1>1. TypeOK /\ HeapInv /\ pc = "admit"
    BY DEF IInv
  <1>2. SameEntries
    BY DEF SameEntries
  <1>3. TypeOK'
    BY <1>1 DEF TypeOK, Stages, entries, heap, counters, client
  <1>4. HeapInv' /\ CallInv'
    BY <1>1, <1>2, SameResident DEF HeapInv, CallInv, heap
  <1> QED
    BY <1>1, <1>2, <1>3, <1>4, StageInv DEF counters

LEMMA AllocEntryStep ==
  ASSUME IInv, AllocEntry
  PROVE  IInv'
  <1> USE DEF AllocEntry
  <1>1. TypeOK /\ HeapInv /\ CallInv /\ pc = "admit" /\ Fits
    BY DEF IInv
  <1>2. SameEntries /\ dataLive' = dataLive
    BY DEF SameEntries
  <1>3. UNCHANGED <<requests, hits, misses, loads, evictions, current, peak, bytesRead, bytesAvoided>>
    BY DEF counters
  <1>4. TypeOK' /\ HeapInv' /\ CallInv'
    <2>1. CASE \E a \in Addrs \ metaLive :
                 /\ metaLive' = metaLive \cup {a}
                 /\ fresh' = a /\ pc' = "alloc" /\ UNCHANGED <<reqKey, reqBorrow>>
      <3>1. PICK a \in Addrs \ metaLive :
              /\ metaLive' = metaLive \cup {a}
              /\ fresh' = a /\ pc' = "alloc" /\ UNCHANGED <<reqKey, reqBorrow>>
        BY <2>1
      <3>2. TypeOK'
        BY <1>1, <1>2, <1>3, <3>1 DEF TypeOK, Stages, SameEntries, entries, client
      <3>3. HeapInv'
        BY <1>1, <1>2, <3>1, SameResident DEF HeapInv
      <3>4. CallInv'
        BY <1>1, <1>2, <1>3, <3>1, SameResident DEF CallInv, Fits, SameEntries, client
      <3> QED
        BY <3>2, <3>3, <3>4
    <2>2. CASE EndCall /\ UNCHANGED metaLive
      <3>1. TypeOK'
        BY <1>1, <1>2, <1>3, <2>2 DEF EndCall, TypeOK, Stages, SameEntries, entries, client
      <3>2. HeapInv' /\ CallInv'
        BY <1>1, <1>2, <2>2, SameResident DEF EndCall, HeapInv, CallInv
      <3> QED
        BY <3>1, <3>2
    <2> QED
      BY <2>1, <2>2
  <1> QED
    BY <1>1, <1>2, <1>3, <1>4, StageInv

LEMMA AllocDataStep ==
  ASSUME IInv, AllocData
  PROVE  IInv'
  <1> USE DEF AllocData
  <1>1. TypeOK /\ HeapInv /\ CallInv /\ pc = "alloc" /\ fresh \in Addrs \ Resident
    BY DEF IInv, HeapInv
  <1>2. SameEntries
    BY DEF SameEntries
  <1>3. UNCHANGED <<requests, hits, misses, loads, evictions, current, peak, bytesRead, bytesAvoided>>
    BY DEF counters
  <1>4. TypeOK' /\ HeapInv' /\ CallInv'
    <2>1. CASE /\ dataLive' = dataLive \cup {fresh}
               /\ pc' = "read" /\ UNCHANGED <<metaLive, reqKey, reqBorrow, fresh>>
      <3>1. TypeOK'
        BY <1>1, <1>2, <1>3, <2>1 DEF TypeOK, Stages, SameEntries, entries, client
      <3>2. HeapInv'
        BY <1>1, <1>2, <2>1, SameResident DEF HeapInv
      <3>3. CallInv'
        BY <1>1, <1>2, <1>3, <2>1, SameResident DEF CallInv, Fits, SameEntries, client
      <3> QED
        BY <3>1, <3>2, <3>3
    <2>2. CASE metaLive' = metaLive \ {fresh} /\ EndCall /\ UNCHANGED dataLive
      <3>1. TypeOK'
        BY <1>1, <1>2, <1>3, <2>2 DEF EndCall, TypeOK, Stages, SameEntries, entries, client
      <3>2. HeapInv' /\ CallInv'
        BY <1>1, <1>2, <2>2, SameResident DEF EndCall, HeapInv, CallInv
      <3> QED
        BY <3>1, <3>2
    <2> QED
      BY <2>1, <2>2
  <1> QED
    BY <1>1, <1>2, <1>3, <1>4, StageInv

LEMMA ReadFailsStep ==
  ASSUME IInv, ReadFails
  PROVE  IInv'
  <1> USE DEF ReadFails, EndCall
  <1>1. TypeOK /\ HeapInv /\ CallInv /\ pc = "read" /\ fresh \in Addrs \ Resident
    BY DEF IInv, HeapInv
  <1>2. SameEntries
    BY DEF SameEntries
  <1>3. bytesRead' \in Counter
    BY <1>1, Constants DEF TypeOK, Counter, CallInv, Adds
  <1>4. TypeOK'
    BY <1>1, <1>2, <1>3 DEF TypeOK, Stages, SameEntries, entries, client
  <1>5. HeapInv' /\ CallInv'
    BY <1>1, <1>2, SameResident DEF HeapInv, CallInv, FreedAfterRead
  <1> QED
    BY <1>1, <1>2, <1>4, <1>5, StageInv

-----------------------------------------------------------------------------
(***************************************************************************)
(* A hit.                                                                  *)
(***************************************************************************)
LEMMA HitStep ==
  ASSUME IInv, NEW b \in Borrows, NEW k \in Keys, Hit(b, k)
  PROVE  IInv' /\ Resident' = Resident
  <1>1. /\ TypeOK /\ ListInv /\ OrderInv /\ HeapInv /\ CallInv
        /\ BorrowsValid /\ PinsAreBorrows /\ Accounting
    BY DEF IInv
  <1>2. /\ initialized /\ initialized' = initialized /\ pc = "idle" /\ borrow[b] = NULL
        /\ UNCHANGED <<keyOf, metaLive, dataLive, misses, loads, evictions, current, peak,
                       bytesRead, pc, reqKey, reqBorrow, fresh>>
        /\ requests' = requests + 1 /\ hits' = hits + 1
        /\ bytesAvoided' = bytesAvoided + SizeOf[k]
    BY DEF Hit, heap, request
  <1>3. /\ requests' \in Counter /\ hits' \in Counter /\ bytesAvoided' \in Counter
        /\ requests \in Nat /\ hits \in Nat /\ misses \in Nat
    <2>1. requests \in Counter /\ hits \in Counter /\ bytesAvoided \in Counter /\ misses \in Counter
      BY <1>1 DEF TypeOK
    <2>2. /\ requests < CounterMax /\ hits < CounterMax
          /\ bytesAvoided + SizeOf[k] <= CounterMax
      BY DEF Hit, Adds
    <2> QED
      BY <1>2, <2>1, <2>2, Constants DEF Counter
  <1>4. PICK i \in DOMAIN list :
          /\ keyOf[list[i]] = k
          /\ IF pins[list[i]] = CounterMax
             THEN UNCHANGED <<list, pins, lastUse, client>>
             ELSE /\ pins' = [pins EXCEPT ![list[i]] = @ + 1]
                  /\ list' = Promote(i)
                  /\ lastUse' = [lastUse EXCEPT ![list[i]] = requests + 1]
                  /\ borrow' = [borrow EXCEPT ![b] = list[i]]
                  /\ want' = [want EXCEPT ![b] = k]
    BY DEF Hit, Found
  <1>5. list[i] \in Resident /\ list[i] \in Addrs
    BY <1>1, ResidentFacts
  <1>6. CASE pins[list[i]] = CounterMax
    <2>1. SameEntries
      BY <1>2, <1>4, <1>6 DEF SameEntries, entries
    <2>2. TypeOK'
      BY <1>1, <1>2, <1>3, <2>1 DEF SameEntries, entries, client, TypeOK
    <2>3. ListInv' /\ OrderInv' /\ PinsAreBorrows'
      BY <1>2, <1>3, <2>1, SameEntriesInv
    <2>4. HeapInv' /\ CallInv'
      BY <1>1, <1>2, <2>1, SameResident DEF HeapInv, CallInv
    <2>5. Accounting'
      BY <1>1, <1>2, <1>3, <2>1, SameResident DEF Accounting
    <2> QED
      BY <2>1, <2>2, <2>3, <2>4, <2>5, SameBorrowsValid, SameResident DEF IInv
  <1>7. CASE pins[list[i]] # CounterMax
    <2>e. PICK e : e = list[i]
      OBVIOUS
    <2>1. /\ pins' = [pins EXCEPT ![e] = @ + 1]
          /\ list' = Append(RemoveAt(list, i), e)
          /\ lastUse' = [lastUse EXCEPT ![e] = requests + 1]
          /\ borrow' = [borrow EXCEPT ![b] = e]
          /\ want' = [want EXCEPT ![b] = k]
      BY <1>4, <1>7, <2>e DEF Promote, Unlink
    <2>2. e \in Resident /\ e \in Addrs /\ e # NULL /\ keyOf[e] = k
      BY <1>4, <1>5, <2>e, Constants
    <2>3. /\ list' \in Seq(Addrs) /\ Resident' = Resident /\ Ordered(list', lastUse')
      <3>1. list \in Seq(Addrs) /\ lastUse \in [Addrs -> Int] /\ Ordered(list, lastUse)
        BY <1>1, ResidentFacts DEF TypeOK, OrderInv, Ordered
      <3>2. PICK rest : rest = RemoveAt(list, i)
        OBVIOUS
      <3>3. /\ rest \in Seq(Addrs) /\ ToSet(rest) = Resident \ {e}
            /\ Ordered(rest, lastUse)
        BY <3>1, <3>2, RemoveAtOrder, <2>e DEF Resident
      <3>4. lastUse' \in [Addrs -> Int] /\ lastUse'[e] = requests + 1
        BY <1>3, <2>1, <2>2, <3>1
      <3>5. \A x \in ToSet(rest) : x \in Addrs /\ lastUse'[x] = lastUse[x] /\ lastUse'[x] < lastUse'[e]
        <4> TAKE x \in ToSet(rest)
        <4>1. x \in Resident /\ x # e /\ x \in Addrs
          BY <1>1, <3>3, ResidentFacts
        <4>2. lastUse[x] <= requests /\ lastUse[x] \in Int
          BY <1>1, <3>1, <4>1 DEF OrderInv
        <4> QED
          BY <1>3, <2>1, <3>1, <3>4, <4>1, <4>2
      <3>6. Ordered(rest, lastUse')
        <4>1. \A j \in DOMAIN rest : rest[j] \in ToSet(rest)
          BY InToSet
        <4> QED
          BY <3>3, <3>5, <4>1 DEF Ordered
      <3>7. PICK f \in [Addrs -> Int] : f = lastUse'
        BY <3>4
      <3>8. /\ Append(rest, e) \in Seq(Addrs)
            /\ ToSet(Append(rest, e)) = ToSet(rest) \cup {e}
            /\ Ordered(Append(rest, e), f)
        BY <2>2, <3>3, <3>5, <3>6, <3>7, AppendOrder
      <3>9. list' = Append(rest, e)
        BY <2>1, <3>2
      <3> QED
        BY <2>2, <3>3, <3>7, <3>8, <3>9 DEF Resident
    <2>4. ResidentKeys' = ResidentKeys
      BY <1>2, <2>3 DEF ResidentKeys
    <2>5. pins \in [Addrs -> Counter] /\ pins[e] + 1 \in Counter
      <3>1. pins \in [Addrs -> Counter]
        BY <1>1 DEF TypeOK
      <3> QED
        BY <1>7, <2>2, <2>e, <3>1, Constants DEF Counter
    <2>6. TypeOK'
      <3>1. pins' \in [Addrs -> Counter]
        BY <2>1, <2>2, <2>5
      <3>2. lastUse' \in [Addrs -> Counter]
        BY <1>1, <1>2, <1>3, <2>1, <2>2 DEF TypeOK
      <3>3. borrow' \in [Borrows -> Addrs \cup {NULL}] /\ want' \in [Borrows -> Keys \cup {NULL}]
        BY <1>1, <2>1, <2>2 DEF TypeOK
      <3> QED
        BY <1>1, <1>2, <1>3, <2>3, <3>1, <3>2, <3>3 DEF TypeOK
    <2>7. ListInv'
      BY <1>1, <1>2, <2>3 DEF ListInv
    <2>8. OrderInv'
      <3>1. \A x \in Resident : x \in Addrs /\ lastUse[x] \in Int /\ lastUse[x] <= requests
        BY <1>1, ResidentFacts DEF OrderInv
      <3>2. \A x \in Resident : lastUse'[x] <= requests + 1
        BY <1>1, <1>3, <2>1, <3>1 DEF TypeOK
      <3> QED
        BY <1>2, <2>3, <3>2 DEF OrderInv, Ordered
    <2>9. HeapInv' /\ CallInv'
      BY <1>1, <1>2, <2>3 DEF HeapInv, CallInv
    <2>10. BorrowsValid'
      <3>1. e \in dataLive
        BY <1>1, <2>2 DEF HeapInv
      <3>2. \A c \in Borrows : c # b => borrow'[c] = borrow[c] /\ want'[c] = want[c]
        BY <1>1, <2>1 DEF TypeOK
      <3>3. borrow'[b] = e /\ want'[b] = k
        BY <1>1, <2>1 DEF TypeOK
      <3> QED
        BY <1>1, <1>2, <2>2, <2>3, <3>1, <3>2, <3>3 DEF BorrowsValid
    <2>11. PinsAreBorrows'
      <3>1. \A x \in Resident : x # NULL
        BY <1>1, ResidentFacts, Constants
      <3>2. \A c \in Borrows : borrow'[c] = IF c = b THEN e ELSE borrow[c]
        BY <1>1, <2>1 DEF TypeOK
      <3>3. ASSUME NEW x \in Resident, x # e
            PROVE  pins'[x] = Cardinality(Holders(x)')
        <4>1. Holders(x)' = Holders(x)
          BY <1>2, <3>1, <3>2, <3>3 DEF Holders
        <4>2. pins'[x] = pins[x]
          BY <1>1, <2>1, <3>3 DEF TypeOK
        <4> QED
          BY <1>1, <4>1, <4>2 DEF PinsAreBorrows
      <3>4. pins'[e] = Cardinality(Holders(e)')
        <4>1. Holders(e)' = Holders(e) \cup {b} /\ b \notin Holders(e)
          BY <1>2, <2>2, <3>2 DEF Holders
        <4>2. Cardinality(Holders(e) \cup {b}) = Cardinality(Holders(e)) + 1
          BY <4>1, HoldersFinite, FS_AddElement
        <4>3. pins'[e] = pins[e] + 1 /\ pins[e] = Cardinality(Holders(e))
          BY <1>1, <2>1, <2>2 DEF TypeOK, PinsAreBorrows
        <4> QED
          BY <4>1, <4>2, <4>3
      <3>5. \A x \in Resident' : pins'[x] = Cardinality(Holders(x)')
        BY <2>3, <3>3, <3>4
      <3> QED
        BY <3>5 DEF PinsAreBorrows, Holders
    <2>12. Accounting'
      BY <1>1, <1>2, <1>3, <2>4 DEF Accounting
    <2> QED
      BY <2>3, <2>6, <2>7, <2>8, <2>9, <2>10, <2>11, <2>12 DEF IInv
  <1> QED
    BY <1>6, <1>7

-----------------------------------------------------------------------------
(***************************************************************************)
(* An eviction.                                                            *)
(***************************************************************************)
\* v has left the cache, and nobody had borrowed it.
Evicted(v) ==
  /\ initialized /\ initialized'
  /\ Resident' = Resident \ {v} /\ ResidentKeys' = ResidentKeys \ {keyOf[v]}
  /\ keyOf' = [keyOf EXCEPT ![v] = NULL]
  /\ borrow' = borrow /\ \A b \in Borrows : borrow[b] # v

LEMMA EvictStep ==
  ASSUME IInv, Evict
  PROVE  /\ IInv'
         /\ \A e \in Resident \ Resident' :
              /\ pins[e] = 0
              /\ \A f \in Resident : pins[f] = 0 => lastUse[e] <= lastUse[f]
         /\ \E v \in Resident : Evicted(v)
  <1>1. /\ TypeOK /\ ListInv /\ OrderInv /\ HeapInv /\ CallInv
        /\ BorrowsValid /\ PinsAreBorrows /\ Accounting
    BY DEF IInv
  <1>2. /\ pc = "admit" /\ evictions < CounterMax /\ evictions' = evictions + 1
        /\ UNCHANGED <<initialized, pins, requests, hits, misses, loads, peak, bytesRead,
                       bytesAvoided, pc, reqKey, reqBorrow, fresh, borrow, want>>
    BY DEF Evict, request, client
  <1>3. initialized /\ initialized'
    BY <1>1, <1>2 DEF CallInv
  <1>4. PICK i \in DOMAIN list :
          /\ Victim(i)
          /\ list' = RemoveAt(list, i)
          /\ current' = current - SizeOf[keyOf[list[i]]]
          /\ metaLive' = metaLive \ {list[i]} /\ dataLive' = dataLive \ {list[i]}
          /\ keyOf' = [keyOf EXCEPT ![list[i]] = NULL]
          /\ lastUse' = [lastUse EXCEPT ![list[i]] = 0]
    BY DEF Evict, Unlink
  <1>5. PICK v : v = list[i]
    OBVIOUS
  <1>6. /\ v \in Resident /\ v \in Addrs /\ keyOf[v] \in Keys /\ pins[v] = 0
        /\ keyOf[v] \in ResidentKeys
    BY <1>1, <1>4, <1>5, ResidentFacts DEF ListInv, Victim, ResidentKeys
  <1>7. /\ keyOf \in [Addrs -> Keys \cup {NULL}] /\ pins \in [Addrs -> Counter]
        /\ lastUse \in [Addrs -> Counter] /\ lastUse \in [Addrs -> Int]
        /\ Resident \subseteq Addrs
    BY <1>1, ResidentFacts DEF TypeOK
  <1>8. \A x \in Resident : x # v => keyOf'[x] = keyOf[x] /\ lastUse'[x] = lastUse[x]
    BY <1>4, <1>5, <1>7
  <1>9. /\ list' \in Seq(Addrs) /\ Resident' = Resident \ {v} /\ Ordered(list', lastUse)
    <2>1. list \in Seq(Addrs) /\ Ordered(list, lastUse)
      BY <1>1 DEF TypeOK, OrderInv, Ordered
    <2>2. PICK rest : rest = RemoveAt(list, i)
      OBVIOUS
    <2>3. /\ rest \in Seq(Addrs) /\ ToSet(rest) = Resident \ {v} /\ Ordered(rest, lastUse)
      BY <1>5, <1>7, <2>1, <2>2, RemoveAtOrder DEF Resident
    <2> QED
      BY <1>4, <2>2, <2>3 DEF Resident
  <1>10. ResidentKeys' = ResidentKeys \ {keyOf[v]}
    BY <1>1, <1>6, <1>8, <1>9 DEF ResidentKeys, ListInv
  <1>11. /\ Cardinality(ResidentKeys') = Cardinality(ResidentKeys) - 1
         /\ Bytes[ResidentKeys'] = Bytes[ResidentKeys] - SizeOf[keyOf[v]]
         /\ SizeOf[keyOf[v]] <= Bytes[ResidentKeys]
         /\ Cardinality(ResidentKeys) \in Nat /\ Bytes[ResidentKeys] \in Nat
    <2>1. ResidentKeys \in SUBSET Keys
      BY <1>1 DEF ResidentKeys, ListInv
    <2> QED
      BY <1>6, <1>10, <2>1, KeysFinite, KeyRemoved
  <1>12. /\ current \in Counter /\ evictions \in Counter /\ loads \in Counter
         /\ peak \in Counter /\ current = Bytes[ResidentKeys] /\ SizeOf[keyOf[v]] \in Nat
    BY <1>1, <1>3, <1>6, Constants DEF TypeOK, Accounting
  <1>13. /\ current' \in Counter /\ current' <= current /\ current' = Bytes[ResidentKeys']
         /\ evictions' \in Counter
    BY <1>2, <1>4, <1>5, <1>11, <1>12, Constants DEF Counter
  <1>14. TypeOK'
    <2>1. /\ keyOf' \in [Addrs -> Keys \cup {NULL}] /\ lastUse' \in [Addrs -> Counter]
          /\ metaLive' \subseteq Addrs /\ dataLive' \subseteq Addrs
      <3>1. 0 \in Counter
        BY Constants DEF Counter
      <3>2. metaLive \subseteq Addrs /\ dataLive \subseteq Addrs
        BY <1>1 DEF TypeOK
      <3> QED
        BY <1>4, <1>7, <3>1, <3>2
    <2> QED
      BY <1>1, <1>2, <1>9, <1>13, <2>1 DEF TypeOK
  <1>15. ListInv'
    BY <1>1, <1>3, <1>8, <1>9 DEF ListInv
  <1>16. OrderInv'
    <2>1. ASSUME NEW j \in DOMAIN list', NEW k \in DOMAIN list', j < k
          PROVE  lastUse'[list'[j]] < lastUse'[list'[k]]
      <3>1. list'[j] \in Resident \ {v} /\ list'[k] \in Resident \ {v}
        BY <1>9, InToSet DEF Resident
      <3>2. lastUse[list'[j]] < lastUse[list'[k]]
        BY <1>9, <2>1 DEF Ordered
      <3> QED
        BY <1>8, <3>1, <3>2
    <2>2. \A x \in Resident' :
             lastUse'[x] <= requests' /\ (pc' # "idle" => lastUse'[x] < requests')
      BY <1>1, <1>2, <1>8, <1>9 DEF OrderInv
    <2> QED
      BY <2>1, <2>2 DEF OrderInv
  <1>17. HeapInv'
    BY <1>1, <1>2, <1>4, <1>5, <1>9 DEF HeapInv
  <1>18. CallInv'
    BY <1>1, <1>2, <1>3, <1>10 DEF CallInv
  <1>19. \A b \in Borrows : borrow[b] # v
    <2>1. Holders(v) = {}
      BY <1>1, <1>6, HoldersFinite DEF PinsAreBorrows
    <2> QED
      BY <2>1 DEF Holders
  <1>20. BorrowsValid'
    BY <1>1, <1>2, <1>3, <1>4, <1>5, <1>8, <1>9, <1>19 DEF BorrowsValid
  <1>21. PinsAreBorrows'
    <2>1. \A e : Holders(e)' = Holders(e)
      BY <1>2 DEF Holders
    <2> QED
      BY <1>1, <1>2, <1>9, <2>1 DEF PinsAreBorrows
  <1>22. Accounting'
    <2>1. loads - evictions = Cardinality(ResidentKeys) /\ current <= peak
      BY <1>1, <1>3 DEF Accounting
    <2>2. loads' - evictions' = Cardinality(ResidentKeys') /\ current' <= peak'
      BY <1>2, <1>11, <1>12, <1>13, <2>1, Constants DEF Counter
    <2> QED
      BY <1>1, <1>2, <1>3, <1>13, <2>2 DEF Accounting
  <1>23. ASSUME NEW f \in Resident, pins[f] = 0
         PROVE  lastUse[v] <= lastUse[f]
    <2>1. PICK j \in DOMAIN list : list[j] = f
      BY <1>1, ResidentFacts
    <2>2. ~(j \in 1 .. i - 1)
      BY <1>4, <1>23, <2>1 DEF Victim
    <2>3. DOMAIN list = 1 .. Len(list) /\ Len(list) \in Nat
      BY <1>1, LenProperties DEF TypeOK
    <2>4. i = j \/ i < j
      BY <2>2, <2>3
    <2>5. i < j => lastUse[list[i]] < lastUse[list[j]]
      BY <1>1 DEF OrderInv
    <2> QED
      BY <1>5, <1>6, <1>7, <2>1, <2>4, <2>5
  <1>24. Evicted(v)
    BY <1>2, <1>3, <1>4, <1>5, <1>9, <1>10, <1>19 DEF Evicted
  <1> QED
    BY <1>6, <1>9, <1>14, <1>15, <1>16, <1>17, <1>18, <1>20, <1>21, <1>22, <1>23, <1>24 DEF IInv

-----------------------------------------------------------------------------
(***************************************************************************)
(* An admission.                                                           *)
(***************************************************************************)
LEMMA LoadStep ==
  ASSUME IInv, Load
  PROVE  IInv' /\ Resident' = Resident \cup {fresh}
  <1>1. /\ TypeOK /\ ListInv /\ OrderInv /\ HeapInv /\ CallInv
        /\ BorrowsValid /\ PinsAreBorrows /\ Accounting
    BY DEF IInv
  <1>2. PICK x, k, b : x = fresh /\ k = reqKey /\ b = reqBorrow
    OBVIOUS
  <1>3. /\ pc = "read"
        /\ bytesRead + SizeOf[k] <= CounterMax /\ loads < CounterMax
        /\ bytesRead' = bytesRead + SizeOf[k]
        /\ keyOf' = [keyOf EXCEPT ![x] = k]
        /\ pins' = [pins EXCEPT ![x] = 1]
        /\ lastUse' = [lastUse EXCEPT ![x] = requests]
        /\ list' = Append(list, x)
        /\ loads' = loads + 1
        /\ current' = current + SizeOf[k]
        /\ peak' = PeakAfter(current + SizeOf[k])
        /\ borrow' = [borrow EXCEPT ![b] = x]
        /\ want' = [want EXCEPT ![b] = k]
    BY <1>2 DEF Load, Adds
  <1>4. /\ pc' = "idle" /\ reqKey' = NULL /\ reqBorrow' = NULL /\ fresh' = NULL
        /\ UNCHANGED <<initialized, metaLive, dataLive, requests, hits, misses, evictions,
                       bytesAvoided>>
    BY DEF Load, EndCall, heap
  <1>5. /\ initialized /\ initialized' /\ loads < misses
        /\ k \in Keys \ ResidentKeys /\ b \in Borrows /\ borrow[b] = NULL
        /\ current <= Budget - SizeOf[k]
        /\ x \in Addrs \ Resident /\ x # NULL
    BY <1>1, <1>2, <1>3, <1>4, Constants DEF CallInv, HeapInv, Fits
  <1>6. /\ keyOf \in [Addrs -> Keys \cup {NULL}] /\ pins \in [Addrs -> Counter]
        /\ lastUse \in [Addrs -> Counter] /\ lastUse \in [Addrs -> Int]
        /\ Resident \subseteq Addrs /\ requests \in Counter /\ requests \in Nat
        /\ borrow \in [Borrows -> Addrs \cup {NULL}] /\ want \in [Borrows -> Keys \cup {NULL}]
    BY <1>1, ResidentFacts, Constants DEF TypeOK, Counter
  <1>7. /\ \A y \in Resident : y # x /\ keyOf'[y] = keyOf[y] /\ lastUse'[y] = lastUse[y]
                                    /\ pins'[y] = pins[y]
        /\ keyOf'[x] = k /\ lastUse'[x] = requests /\ pins'[x] = 1
    BY <1>3, <1>5, <1>6
  <1>8. /\ list' \in Seq(Addrs) /\ Resident' = Resident \cup {x} /\ Ordered(list', lastUse')
    <2>1. list \in Seq(Addrs) /\ Ordered(list, lastUse)
      BY <1>1 DEF TypeOK, OrderInv, Ordered
    <2>2. PICK f \in [Addrs -> Int] : f = lastUse'
      <3>1. lastUse' \in [Addrs -> Int]
        <4>1. requests \in Int
          BY <1>6
        <4> QED
          BY <1>3, <1>6, <4>1
      <3> QED
        BY <3>1
    <2>3. Ordered(list, f)
      <3>1. \A j \in DOMAIN list : list[j] \in Resident
        BY <1>1, ResidentFacts
      <3> QED
        BY <1>7, <2>1, <2>2, <3>1 DEF Ordered
    <2>4. \A e \in ToSet(list) : f[e] < f[x]
      BY <1>1, <1>3, <1>7, <2>2 DEF OrderInv, Resident
    <2>5. /\ Append(list, x) \in Seq(Addrs)
          /\ ToSet(Append(list, x)) = ToSet(list) \cup {x}
          /\ Ordered(Append(list, x), f)
      BY <1>5, <2>1, <2>3, <2>4, AppendOrder
    <2> QED
      BY <1>3, <2>2, <2>5 DEF Resident
  <1>9. ResidentKeys' = ResidentKeys \cup {k}
    BY <1>7, <1>8 DEF ResidentKeys
  <1>10. /\ Cardinality(ResidentKeys') = Cardinality(ResidentKeys) + 1
         /\ Bytes[ResidentKeys'] = Bytes[ResidentKeys] + SizeOf[k]
         /\ Cardinality(ResidentKeys) \in Nat /\ Bytes[ResidentKeys] \in Nat
    <2>1. ResidentKeys \in SUBSET Keys
      BY <1>1 DEF ResidentKeys, ListInv
    <2> QED
      BY <1>5, <1>9, <2>1, KeysFinite, KeyAdded
  <1>11. /\ current \in Counter /\ loads \in Counter /\ evictions \in Counter
         /\ peak \in Counter /\ bytesRead \in Counter /\ misses \in Counter
         /\ current = Bytes[ResidentKeys] /\ peak <= Budget
         /\ loads - evictions = Cardinality(ResidentKeys) /\ SizeOf[k] \in Nat
    BY <1>1, <1>5, Constants DEF TypeOK, Accounting
  <1>l. /\ loads' = loads + 1 /\ loads < misses
        /\ current' = current + SizeOf[k] /\ current <= Budget - SizeOf[k]
    BY <1>3, <1>5
  <1>12. /\ current' \in Counter /\ current' = Bytes[ResidentKeys']
         /\ current' <= peak' /\ peak' <= Budget /\ peak' \in Counter
         /\ loads' \in Counter /\ loads' <= misses /\ bytesRead' \in Counter
         /\ loads' - evictions = Cardinality(ResidentKeys')
    <2>1. /\ current \in Nat /\ peak \in Nat /\ loads \in Nat /\ misses \in Nat
          /\ evictions \in Nat /\ bytesRead \in Nat /\ misses <= CounterMax
          /\ SizeOf[k] \in Nat /\ Budget \in Nat /\ Budget <= CounterMax
      BY <1>11, Constants DEF Counter
    <2>2. peak' = IF current + SizeOf[k] > peak THEN current + SizeOf[k] ELSE peak
      BY <1>3 DEF PeakAfter
    <2>3. current' \in Nat /\ current' <= Budget /\ current' = Bytes[ResidentKeys']
      <3>1. current' \in Nat /\ current' <= Budget
        BY <1>l, <2>1
      <3>2. current' = Bytes[ResidentKeys']
        BY <1>l, <1>10, <1>11, Zenon
      <3> QED
        BY <3>1, <3>2
    <2>4. peak' \in Nat /\ current' <= peak' /\ peak' <= Budget
      BY <1>3, <1>11, <2>1, <2>2, <2>3
    <2>5. loads' \in Nat /\ loads' <= misses /\ loads' - evictions = Cardinality(ResidentKeys')
      <3>1. loads' - evictions = (loads - evictions) + 1
        BY <1>l, <2>1
      <3>2. loads' - evictions = Cardinality(ResidentKeys')
        BY <1>10, <1>11, <3>1, Zenon
      <3> QED
        BY <1>l, <2>1, <3>2
    <2>6. bytesRead' \in Nat /\ bytesRead' <= CounterMax
      BY <1>3, <2>1
    <2> QED
      BY <2>1, <2>3, <2>4, <2>5, <2>6, Constants DEF Counter
  <1>13. TypeOK'
    <2>1. /\ keyOf' \in [Addrs -> Keys \cup {NULL}] /\ lastUse' \in [Addrs -> Counter]
          /\ borrow' \in [Borrows -> Addrs \cup {NULL}] /\ want' \in [Borrows -> Keys \cup {NULL}]
      BY <1>3, <1>5, <1>6
    <2>2. pins' \in [Addrs -> Counter]
      <3>1. 1 \in Counter
        BY Constants DEF Counter
      <3> QED
        BY <1>3, <1>6, <3>1
    <2>3. pc' \in Stages
      BY <1>4 DEF Stages
    <2> QED
      BY <1>1, <1>4, <1>8, <1>12, <2>1, <2>2, <2>3 DEF TypeOK
  <1>14. ListInv'
    BY <1>1, <1>5, <1>7, <1>8 DEF ListInv, ResidentKeys
  <1>15. OrderInv'
    <2>1. \A y \in Resident' : lastUse'[y] <= requests'
      BY <1>1, <1>4, <1>6, <1>7, <1>8 DEF OrderInv
    <2> QED
      BY <1>4, <1>8, <2>1 DEF OrderInv, Ordered
  <1>16. HeapInv' /\ CallInv'
    BY <1>1, <1>2, <1>3, <1>4, <1>8 DEF HeapInv, CallInv
  <1>17. \A c \in Borrows : borrow[c] # x
    BY <1>1, <1>5 DEF BorrowsValid
  <1>18. \A c \in Borrows :
           (c # b => borrow'[c] = borrow[c] /\ want'[c] = want[c])
    BY <1>3, <1>6
  <1>b. borrow'[b] = x /\ want'[b] = k
    BY <1>3, <1>5, <1>6
  <1>19. BorrowsValid'
    <2>1. x \in dataLive
      BY <1>1, <1>2, <1>3 DEF HeapInv
    <2> QED
      BY <1>1, <1>4, <1>5, <1>7, <1>8, <1>18, <1>b, <2>1 DEF BorrowsValid
  <1>20. PinsAreBorrows'
    <2>1. ASSUME NEW y \in Resident PROVE pins'[y] = Cardinality(Holders(y)')
      <3>1. y # x /\ y # NULL
        BY <1>6, <1>7, Constants
      <3>2. Holders(y)' = Holders(y)
        BY <1>5, <1>18, <1>b, <3>1 DEF Holders
      <3> QED
        BY <1>1, <1>7, <3>2 DEF PinsAreBorrows
    <2>2. pins'[x] = Cardinality(Holders(x)')
      <3>1. Holders(x)' = {b}
        BY <1>5, <1>17, <1>18, <1>b DEF Holders
      <3> QED
        BY <1>7, <3>1, FS_Singleton
    <2>3. \A y \in Resident' : pins'[y] = Cardinality(Holders(y)')
      BY <1>8, <2>1, <2>2
    <2> QED
      BY <2>3 DEF PinsAreBorrows, Holders
  <1>21. Accounting'
    BY <1>1, <1>4, <1>5, <1>12 DEF Accounting
  <1> QED
    BY <1>2, <1>8, <1>13, <1>14, <1>15, <1>16, <1>19, <1>20, <1>21 DEF IInv

-----------------------------------------------------------------------------
(***************************************************************************)
(* A release, and the two ends of the cache's life.                        *)
(***************************************************************************)
LEMMA ReleaseStep ==
  ASSUME IInv, NEW b \in Borrows, Release(b)
  PROVE  IInv' /\ Resident' = Resident
  <1>1. /\ TypeOK /\ ListInv /\ OrderInv /\ HeapInv /\ CallInv
        /\ BorrowsValid /\ PinsAreBorrows /\ Accounting
    BY DEF IInv
  <1>2. /\ pc = "idle" /\ borrow[b] # NULL
        /\ borrow' = [borrow EXCEPT ![b] = NULL] /\ want' = [want EXCEPT ![b] = NULL]
        /\ UNCHANGED <<initialized, list, keyOf, lastUse, metaLive, dataLive, pc, reqKey,
                       reqBorrow, fresh>>
        /\ UNCHANGED <<requests, hits, misses, loads, evictions, current, peak, bytesRead,
                       bytesAvoided>>
    BY DEF Release, heap, counters, request
  <1>3. PICK e : e = borrow[b]
    OBVIOUS
  <1>4. IF initialized /\ e \in Resident
        THEN pins' = [pins EXCEPT ![e] = Unpin(@)]
        ELSE UNCHANGED pins
    BY <1>3 DEF Release
  <1>5. /\ pins \in [Addrs -> Counter] /\ Resident \subseteq Addrs
        /\ borrow \in [Borrows -> Addrs \cup {NULL}] /\ want \in [Borrows -> Keys \cup {NULL}]
    BY <1>1, ResidentFacts DEF TypeOK
  <1>6. Resident' = Resident /\ ResidentKeys' = ResidentKeys
    BY <1>2 DEF Resident, ResidentKeys
  <1>7. /\ borrow'[b] = NULL /\ want'[b] = NULL
        /\ \A c \in Borrows : c # b => borrow'[c] = borrow[c] /\ want'[c] = want[c]
    BY <1>2, <1>5
  <1>8. TypeOK'
    <2>1. pins' \in [Addrs -> Counter]
      <3>1. CASE initialized /\ e \in Resident
        <4>1. e \in Addrs /\ pins[e] \in Counter
          BY <1>5, <3>1
        <4>2. Unpin(pins[e]) \in Counter
          BY <4>1, Constants DEF Unpin, Counter
        <4> QED
          BY <1>4, <1>5, <3>1, <4>2
      <3>2. CASE ~(initialized /\ e \in Resident)
        BY <1>4, <1>5, <3>2
      <3> QED
        BY <3>1, <3>2
    <2>2. borrow' \in [Borrows -> Addrs \cup {NULL}] /\ want' \in [Borrows -> Keys \cup {NULL}]
      BY <1>2, <1>5
    <2> QED
      BY <1>1, <1>2, <2>1, <2>2 DEF TypeOK
  <1>9. ListInv' /\ OrderInv' /\ HeapInv' /\ CallInv' /\ Accounting'
    BY <1>1, <1>2, <1>6 DEF ListInv, OrderInv, HeapInv, CallInv, Accounting
  <1>10. BorrowsValid'
    BY <1>1, <1>2, <1>6, <1>7 DEF BorrowsValid
  <1>11. PinsAreBorrows'
    <2>1. ASSUME NEW x \in Resident, x # e PROVE pins'[x] = Cardinality(Holders(x)')
      <3>1. Holders(x)' = Holders(x)
        <4>1. x # NULL
          BY <1>5, Constants
        <4> QED
          BY <1>3, <1>7, <2>1, <4>1 DEF Holders
      <3>2. pins'[x] = pins[x]
        BY <1>4, <1>5, <2>1
      <3> QED
        BY <1>1, <3>1, <3>2 DEF PinsAreBorrows
    <2>2. ASSUME e \in Resident PROVE pins'[e] = Cardinality(Holders(e)')
      <3>1. initialized
        BY <1>1, <2>2, EmptyList DEF ListInv
      <3>2. Holders(e)' = Holders(e) \ {b} /\ b \in Holders(e)
        BY <1>2, <1>3, <1>7 DEF Holders
      <3>3. /\ Cardinality(Holders(e) \ {b}) = Cardinality(Holders(e)) - 1
            /\ Cardinality(Holders(e)) \in Nat /\ Cardinality(Holders(e)) # 0
        BY <3>2, HoldersFinite, FS_RemoveElement
      <3>4. pins'[e] = Unpin(pins[e]) /\ pins[e] = Cardinality(Holders(e))
        BY <1>1, <1>4, <1>5, <2>2, <3>1 DEF PinsAreBorrows
      <3> QED
        BY <3>2, <3>3, <3>4 DEF Unpin
    <2>3. \A x \in Resident' : pins'[x] = Cardinality(Holders(x)')
      BY <1>6, <2>1, <2>2
    <2> QED
      BY <2>3 DEF PinsAreBorrows, Holders
  <1> QED
    BY <1>6, <1>8, <1>9, <1>10, <1>11 DEF IInv

LEMMA CacheInitStep ==
  ASSUME IInv, CacheInit
  PROVE  IInv' /\ Resident = {}
  <1>1. TypeOK /\ ListInv /\ HeapInv /\ pc = "idle" /\ list = <<>> /\ list' = <<>>
    BY IdleWhenUninitialized DEF IInv, CacheInit
  <1>2. Resident = {} /\ Resident' = {} /\ ResidentKeys' = {}
    BY <1>1, EmptyList DEF Resident, ResidentKeys
  <1>3. /\ \A b \in Borrows : borrow'[b] = NULL
        /\ initialized' = TRUE
        /\ UNCHANGED <<keyOf, pins, lastUse, metaLive, dataLive, pc, reqKey, reqBorrow, fresh,
                       borrow, want>>
        /\ requests' = 0 /\ hits' = 0 /\ misses' = 0 /\ loads' = 0 /\ evictions' = 0
        /\ current' = 0 /\ peak' = 0 /\ bytesRead' = 0 /\ bytesAvoided' = 0
    BY DEF CacheInit, heap, request, client
  <1>4. TypeOK'
    <2>1. 0 \in Counter /\ list' \in Seq(Addrs)
      BY <1>1, EmptySeq, Constants DEF Counter
    <2> QED
      BY <1>1, <1>3, <2>1 DEF TypeOK
  <1>5. ListInv' /\ PinsAreBorrows' /\ BorrowsValid'
    BY <1>2, <1>3 DEF ListInv, PinsAreBorrows, BorrowsValid
  <1>6. OrderInv'
    <2>1. DOMAIN list' = {}
      BY <1>1
    <2> QED
      BY <1>2, <2>1 DEF OrderInv
  <1>7. HeapInv' /\ CallInv'
    BY <1>1, <1>2, <1>3 DEF HeapInv, CallInv
  <1>8. Accounting'
    BY <1>2, <1>3, FS_EmptySet, BytesAssumption, Constants DEF Accounting
  <1> QED
    BY <1>2, <1>4, <1>5, <1>6, <1>7, <1>8 DEF IInv

LEMMA DestroyStep ==
  ASSUME IInv, Destroy
  PROVE  IInv' /\ ~initialized'
  <1>1. TypeOK /\ HeapInv /\ pc = "idle" /\ list' = <<>>
    BY DEF IInv, Destroy
  <1>2. Resident' = {} /\ DOMAIN list' = {}
    <2>1. DOMAIN list' = {}
      BY <1>1
    <2> QED
      BY <2>1, InToSet DEF Resident
  <1>3. /\ initialized' = FALSE
        /\ metaLive' = metaLive \ Resident /\ dataLive' = dataLive \ Resident
        /\ keyOf' = [a \in Addrs |-> NULL] /\ pins' = [a \in Addrs |-> 0]
        /\ lastUse' = [a \in Addrs |-> 0]
        /\ UNCHANGED <<pc, reqKey, reqBorrow, fresh, borrow, want>>
        /\ requests' = 0 /\ hits' = 0 /\ misses' = 0 /\ loads' = 0 /\ evictions' = 0
        /\ current' = 0 /\ peak' = 0 /\ bytesRead' = 0 /\ bytesAvoided' = 0
    BY DEF Destroy, request, client
  <1>4. TypeOK'
    <2>1. 0 \in Counter /\ list' \in Seq(Addrs)
      BY <1>1, EmptySeq, Constants DEF Counter
    <2>2. /\ keyOf' \in [Addrs -> Keys \cup {NULL}] /\ pins' \in [Addrs -> Counter]
          /\ lastUse' \in [Addrs -> Counter]
      BY <1>3, <2>1
    <2> QED
      BY <1>1, <1>3, <2>1, <2>2 DEF TypeOK
  <1>5. ListInv' /\ OrderInv' /\ PinsAreBorrows'
    BY <1>1, <1>2 DEF ListInv, OrderInv, PinsAreBorrows
  <1>6. HeapInv' /\ CallInv' /\ BorrowsValid' /\ Accounting'
    BY <1>1, <1>2, <1>3 DEF HeapInv, CallInv, BorrowsValid, Accounting
  <1> QED
    BY <1>3, <1>4, <1>5, <1>6 DEF IInv

-----------------------------------------------------------------------------
(***************************************************************************)
(* Every step.                                                             *)
(***************************************************************************)
\* What a step may do to the resident entries.
LeastRecent ==
  \A e \in Resident \ Resident' :
    initialized' =>
      /\ pins[e] = 0
      /\ \A f \in Resident : pins[f] = 0 => lastUse[e] <= lastUse[f]

LEMMA KeptResident ==
  ASSUME Resident \subseteq Resident'
  PROVE  LeastRecent
  BY DEF LeastRecent

LEMMA StutterStep ==
  ASSUME IInv, UNCHANGED vars
  PROVE  IInv' /\ Resident' = Resident
  <1>1. Resident' = Resident /\ ResidentKeys' = ResidentKeys /\ \A e : Holders(e)' = Holders(e)
    BY DEF vars, entries, client, Resident, ResidentKeys, Holders
  <1>2. TypeOK' /\ ListInv' /\ OrderInv' /\ HeapInv'
    BY <1>1 DEF IInv, TypeOK, ListInv, OrderInv, HeapInv, vars, entries, heap, counters,
                request, client
  <1>3. CallInv' /\ BorrowsValid' /\ PinsAreBorrows' /\ Accounting'
    BY <1>1 DEF IInv, CallInv, Fits, BorrowsValid, PinsAreBorrows, Accounting, vars, entries,
                heap, counters, request, client
  <1> QED
    BY <1>1, <1>2, <1>3 DEF IInv

LEMMA NextStep ==
  ASSUME IInv, [Next]_vars
  PROVE  IInv' /\ LeastRecent
  <1>1. CASE CacheInit
    BY <1>1, CacheInitStep, KeptResident
  <1>2. CASE Destroy
    BY <1>2, DestroyStep DEF LeastRecent
  <1>3. CASE Evict
    BY <1>3, EvictStep DEF LeastRecent
  <1>4. CASE AdmissionBlocked
    <2>1. SameEntries
      BY <1>4 DEF AdmissionBlocked, SameEntries
    <2> QED
      BY <1>4, <2>1, AdmissionBlockedStep, SameResident, KeptResident
  <1>5. CASE AllocEntry
    <2>1. SameEntries
      BY <1>5 DEF AllocEntry, SameEntries
    <2> QED
      BY <1>5, <2>1, AllocEntryStep, SameResident, KeptResident
  <1>6. CASE AllocData
    <2>1. SameEntries
      BY <1>6 DEF AllocData, SameEntries
    <2> QED
      BY <1>6, <2>1, AllocDataStep, SameResident, KeptResident
  <1>7. CASE ReadFails
    <2>1. SameEntries
      BY <1>7 DEF ReadFails, SameEntries
    <2> QED
      BY <1>7, <2>1, ReadFailsStep, SameResident, KeptResident
  <1>8. CASE Load
    BY <1>8, LoadStep, KeptResident
  <1>9. CASE \E b \in Borrows : Release(b)
    BY <1>9, ReleaseStep, KeptResident
  <1>10. CASE \E b \in Borrows, k \in Keys : Hit(b, k)
    BY <1>10, HitStep, KeptResident
  <1>11. CASE \E b \in Borrows, k \in Keys : Miss(b, k)
    <2>1. PICK b \in Borrows, k \in Keys : Miss(b, k)
      BY <1>11
    <2>2. SameEntries
      BY <2>1 DEF Miss, SameEntries
    <2> QED
      BY <2>1, <2>2, MissStep, SameResident, KeptResident
  <1>12. CASE UNCHANGED vars
    BY <1>12, StutterStep, KeptResident
  <1> QED
    BY <1>1, <1>2, <1>3, <1>4, <1>5, <1>6, <1>7, <1>8, <1>9, <1>10, <1>11, <1>12
    DEF Next, AcquireStep

-----------------------------------------------------------------------------
(***************************************************************************)
(* The inductive invariant: linked entries are distinct, ordered by last   *)
(* use, hold one key each, and each stage of an acquire knows what it has  *)
(* allocated and that the slice still fits.                                *)
(***************************************************************************)
THEOREM CacheInvariant == Spec => []IInv
  <1>1. IInv /\ [Next]_vars => IInv'
    BY NextStep
  <1> QED
    BY InitIInv, <1>1, PTL DEF Spec

(* No counter of the cache ever overflows or goes below zero.              *)
THEOREM CacheTypeCorrect == Spec => []TypeOK
  <1>1. IInv => TypeOK
    BY DEF IInv
  <1> QED
    BY <1>1, CacheInvariant, PTL

(* A borrow is valid until its matching release: the entry stays resident, *)
(* allocated and holds the slice that was asked for.                       *)
THEOREM BorrowsValidHolds == Spec => []BorrowsValid
  <1>1. IInv => BorrowsValid
    BY DEF IInv
  <1> QED
    BY <1>1, CacheInvariant, PTL

(* The pin count of an entry is the number of its borrows.                 *)
THEOREM PinsAreBorrowsHolds == Spec => []PinsAreBorrows
  <1>1. IInv => PinsAreBorrows
    BY DEF IInv
  <1> QED
    BY <1>1, CacheInvariant, PTL

(* Resident bytes are the bytes of the resident keys and stay within the   *)
(* budget; hits, misses, loads and evictions add up.                       *)
THEOREM AccountingHolds == Spec => []Accounting
  <1>1. IInv => Accounting
    BY DEF IInv
  <1> QED
    BY <1>1, CacheInvariant, PTL

(* Between two calls nothing but the resident entries is allocated.        *)
THEOREM NoLeakHolds == Spec => []NoLeak
  <1>1. IInv => NoLeak
    BY DEF IInv, HeapInv, NoLeak
  <1> QED
    BY <1>1, CacheInvariant, PTL

(* Only the least recently used entry nobody has borrowed is evicted.      *)
THEOREM EvictsLeastRecentHolds == Spec => EvictsLeastRecent
  <1>1. IInv /\ [Next]_vars => [LeastRecent]_vars
    BY NextStep
  <1>2. LeastRecent <=> \A e \in Resident \ Resident' :
          initialized' =>
            /\ pins[e] = 0
            /\ \A f \in Resident : pins[f] = 0 => lastUse[e] <= lastUse[f]
    BY DEF LeastRecent
  <1> QED
    BY <1>1, <1>2, CacheInvariant, PTL DEF Spec, EvictsLeastRecent

-----------------------------------------------------------------------------
(***************************************************************************)
(* The refinement of SliceLibrary.                                         *)
(***************************************************************************)
(* While the cache is initialized, a borrow that is out reads the slice it *)
(* was lent; what a borrow left over from a destroyed cache reads is gone. *)
ReadsInv ==
  /\ AbstractReads \in [Borrows -> Keys \cup {NULL}]
  /\ \A b \in Borrows :
       AbstractReads[b] = IF initialized /\ borrow[b] # NULL THEN keyOf[borrow[b]] ELSE NULL

LEMMA ReadsFacts == IInv => ReadsInv
  <1> SUFFICES ASSUME IInv PROVE ReadsInv
    OBVIOUS
  <1>1. /\ keyOf \in [Addrs -> Keys \cup {NULL}] /\ borrow \in [Borrows -> Addrs \cup {NULL}]
        /\ dataLive \subseteq Addrs /\ NULL \notin dataLive
    BY Constants DEF IInv, TypeOK
  <1>2. ~initialized => dataLive = {}
    BY IdleWhenUninitialized, EmptyList DEF IInv, HeapInv
  <1>3. \A b \in Borrows : initialized /\ borrow[b] # NULL => borrow[b] \in dataLive
    BY DEF IInv, BorrowsValid
  <1> QED
    BY <1>1, <1>2, <1>3 DEF AbstractReads, ReadsInv

LEMMA ReadsFactsNext == IInv' => ReadsInv'
  BY ReadsFacts, PTL

\* Nothing a reader can see has changed.
SameShelves ==
  /\ initialized' = initialized /\ ResidentKeys' = ResidentKeys
  /\ borrow' = borrow
  /\ \A b \in Borrows : borrow[b] # NULL /\ initialized => keyOf'[borrow[b]] = keyOf[borrow[b]]

LEMMA SameShelvesStutters ==
  ASSUME IInv, IInv', SameShelves
  PROVE  UNCHANGED <<initialized, ResidentKeys, AbstractOut, AbstractReads>>
  <1> USE DEF SameShelves
  <1>1. AbstractOut' = AbstractOut
    BY DEF AbstractOut
  <1>2. ASSUME NEW b \in Borrows PROVE AbstractReads'[b] = AbstractReads[b]
    BY ReadsFacts, ReadsFactsNext DEF ReadsInv
  <1>3. AbstractReads' = AbstractReads
    BY <1>2 DEF AbstractReads
  <1> QED
    BY <1>1, <1>3

(* The slices that stand on the shelves take no more than the budget.      *)
StockInv == initialized => Bytes[ResidentKeys] <= Budget

LEMMA StockFits == IInv => StockInv
  <1> SUFFICES ASSUME IInv, initialized PROVE Bytes[ResidentKeys] <= Budget
    BY DEF StockInv
  <1>1. current = Bytes[ResidentKeys] /\ current <= peak /\ peak <= Budget
    BY DEF IInv, Accounting
  <1>2. current \in Int /\ peak \in Int /\ Budget \in Int
    BY Constants DEF IInv, TypeOK, Counter
  <1> QED
    BY <1>1, <1>2

LEMMA StockFitsNext == IInv' => StockInv'
  BY StockFits, PTL

(* What lending the slice of key k to borrow b changes.                    *)
LEMMA Lending ==
  ASSUME IInv, IInv', NEW b \in Borrows, NEW k \in Keys, NEW e \in Addrs,
         initialized, initialized' = initialized, borrow[b] = NULL,
         borrow' = [borrow EXCEPT ![b] = e], keyOf'[e] = k,
         ResidentKeys' = ResidentKeys \cup {k},
         \A x \in Resident : keyOf'[x] = keyOf[x]
  PROVE  Library!Lend(b, k)
  <1>1. borrow \in [Borrows -> Addrs \cup {NULL}] /\ e # NULL
    BY Constants DEF IInv, TypeOK
  <1>2. /\ borrow'[b] = e
        /\ \A c \in Borrows : c # b => borrow'[c] = borrow[c]
    BY <1>1
  <1>3. b \notin AbstractOut /\ AbstractOut' = AbstractOut \cup {b}
    BY <1>1, <1>2 DEF AbstractOut
  <1>4. Bytes[ResidentKeys'] <= Budget
    BY StockFitsNext DEF StockInv
  <1>5. AbstractReads' = [AbstractReads EXCEPT ![b] = k]
    <2>1. AbstractReads'[b] = k
      BY <1>1, <1>2, ReadsFactsNext DEF ReadsInv
    <2>2. ASSUME NEW c \in Borrows, c # b PROVE AbstractReads'[c] = AbstractReads[c]
      <3>1. borrow[c] # NULL => borrow[c] \in Resident
        BY DEF IInv, BorrowsValid
      <3> QED
        BY <1>2, <2>2, <3>1, ReadsFacts, ReadsFactsNext DEF ReadsInv
    <2>3. AbstractReads \in [Borrows -> Keys \cup {NULL}] /\ AbstractReads' \in [Borrows -> Keys \cup {NULL}]
      BY ReadsFacts, ReadsFactsNext DEF ReadsInv
    <2> QED
      BY <2>1, <2>2, <2>3
  <1> QED
    BY <1>3, <1>4, <1>5 DEF Library!Lend

LEMMA HitLends ==
  ASSUME IInv, NEW b \in Borrows, NEW k \in Keys, Hit(b, k)
  PROVE  Library!Lend(b, k) \/ UNCHANGED Library!library
  <1>1. IInv' /\ Resident' = Resident
    BY HitStep
  <1>2. initialized /\ initialized' = initialized /\ keyOf' = keyOf /\ borrow[b] = NULL
    BY DEF Hit
  <1>3. ResidentKeys' = ResidentKeys
    BY <1>1, <1>2 DEF ResidentKeys
  <1>4. PICK i \in DOMAIN list :
          /\ keyOf[list[i]] = k
          /\ borrow' = borrow \/ borrow' = [borrow EXCEPT ![b] = list[i]]
    BY DEF Hit, Found, client
  <1>5. list[i] \in Resident /\ list[i] \in Addrs
    BY ResidentFacts DEF IInv
  <1>6. ResidentKeys = ResidentKeys \cup {k}
    BY <1>4, <1>5 DEF ResidentKeys
  <1>7. CASE borrow' = borrow
    BY <1>1, <1>2, <1>3, <1>7, SameShelvesStutters DEF SameShelves, Library!library
  <1>8. CASE borrow' = [borrow EXCEPT ![b] = list[i]]
    BY <1>1, <1>2, <1>3, <1>4, <1>5, <1>6, <1>8, Lending
  <1> QED
    BY <1>4, <1>7, <1>8

LEMMA LoadLends ==
  ASSUME IInv, Load
  PROVE  \E b \in Borrows, k \in Keys : Library!Lend(b, k)
  <1>1. IInv' /\ Resident' = Resident \cup {fresh}
    BY LoadStep
  <1>2. /\ pc = "read" /\ initialized' = initialized
        /\ keyOf' = [keyOf EXCEPT ![fresh] = reqKey]
        /\ borrow' = [borrow EXCEPT ![reqBorrow] = fresh]
    BY DEF Load
  <1>3. /\ initialized /\ reqBorrow \in Borrows /\ reqKey \in Keys
        /\ borrow[reqBorrow] = NULL /\ fresh \in Addrs \ Resident
        /\ keyOf \in [Addrs -> Keys \cup {NULL}]
    BY <1>2 DEF IInv, CallInv, HeapInv, TypeOK
  <1>4. keyOf'[fresh] = reqKey /\ \A x \in Resident : keyOf'[x] = keyOf[x]
    BY <1>2, <1>3
  <1>5. ResidentKeys' = ResidentKeys \cup {reqKey}
    BY <1>1, <1>4 DEF ResidentKeys
  <1>6. Library!Lend(reqBorrow, reqKey)
    BY <1>1, <1>2, <1>3, <1>4, <1>5, Lending
  <1> QED
    BY <1>3, <1>6

LEMMA EvictDiscards ==
  ASSUME IInv, Evict
  PROVE  \E k \in Keys : Library!Discard(k)
  <1>1. IInv' /\ \E v \in Resident : Evicted(v)
    BY EvictStep
  <1>2. PICK v \in Resident : Evicted(v)
    BY <1>1
  <1>3. /\ initialized /\ initialized' /\ borrow' = borrow
        /\ ResidentKeys' = ResidentKeys \ {keyOf[v]}
        /\ keyOf' = [keyOf EXCEPT ![v] = NULL]
        /\ \A b \in Borrows : borrow[b] # v
    BY <1>2 DEF Evicted
  <1>4. keyOf[v] \in Keys /\ keyOf[v] \in ResidentKeys
    BY DEF IInv, ListInv, ResidentKeys
  <1>5. \A b \in Borrows : borrow[b] # NULL => borrow[b] \in Resident
    BY <1>3 DEF IInv, BorrowsValid
  <1>6. \A b \in AbstractOut : AbstractReads[b] # keyOf[v]
    <2> TAKE b \in AbstractOut
    <2>1. b \in Borrows /\ borrow[b] \in Resident /\ borrow[b] # v
      BY <1>3, <1>5 DEF AbstractOut
    <2>2. AbstractReads[b] = keyOf[borrow[b]]
      BY <1>3, <2>1, ReadsFacts DEF ReadsInv, AbstractOut
    <2>3. keyOf[borrow[b]] # keyOf[v]
      BY <2>1 DEF IInv, ListInv
    <2> QED
      BY <2>2, <2>3
  <1>7. AbstractOut' = AbstractOut
    BY <1>3 DEF AbstractOut
  <1>8. AbstractReads' = AbstractReads
    <2>1. keyOf \in [Addrs -> Keys \cup {NULL}] /\ Resident \subseteq Addrs
      BY ResidentFacts DEF IInv, TypeOK
    <2>2. ASSUME NEW b \in Borrows PROVE AbstractReads'[b] = AbstractReads[b]
      <3>1. borrow[b] # NULL => keyOf'[borrow[b]] = keyOf[borrow[b]]
        BY <1>3, <1>5, <2>1
      <3> QED
        BY <1>1, <1>3, <3>1, ReadsFacts, ReadsFactsNext DEF ReadsInv
    <2> QED
      BY <2>2 DEF AbstractReads
  <1>9. Library!Discard(keyOf[v])
    BY <1>3, <1>4, <1>6, <1>7, <1>8 DEF Library!Discard
  <1> QED
    BY <1>4, <1>9

LEMMA ReleaseReturns ==
  ASSUME IInv, NEW b \in Borrows, Release(b)
  PROVE  Library!Return(b)
  <1>1. IInv' /\ Resident' = Resident
    BY ReleaseStep
  <1>2. /\ borrow[b] # NULL /\ borrow' = [borrow EXCEPT ![b] = NULL]
        /\ initialized' = initialized /\ keyOf' = keyOf
    BY DEF Release
  <1>3. borrow \in [Borrows -> Addrs \cup {NULL}]
    BY DEF IInv, TypeOK
  <1>4. /\ borrow'[b] = NULL
        /\ \A c \in Borrows : c # b => borrow'[c] = borrow[c]
    BY <1>2, <1>3
  <1>5. ResidentKeys' = ResidentKeys
    BY <1>1, <1>2 DEF ResidentKeys
  <1>6. b \in AbstractOut /\ AbstractOut' = AbstractOut \ {b}
    BY <1>2, <1>4 DEF AbstractOut
  <1>7. AbstractReads' = [AbstractReads EXCEPT ![b] = NULL]
    <2>1. /\ AbstractReads \in [Borrows -> Keys \cup {NULL}]
          /\ AbstractReads' \in [Borrows -> Keys \cup {NULL}]
      BY <1>1, ReadsFacts, ReadsFactsNext DEF ReadsInv
    <2>2. AbstractReads'[b] = NULL
      BY <1>1, <1>4, ReadsFactsNext DEF ReadsInv
    <2>3. ASSUME NEW c \in Borrows, c # b PROVE AbstractReads'[c] = AbstractReads[c]
      BY <1>1, <1>2, <1>4, <2>3, ReadsFacts, ReadsFactsNext DEF ReadsInv
    <2> QED
      BY <2>1, <2>2, <2>3
  <1> QED
    BY <1>2, <1>5, <1>6, <1>7 DEF Library!Return

LEMMA CacheInitOpens ==
  ASSUME IInv, CacheInit
  PROVE  Library!Open
  <1>1. IInv' /\ list = <<>> /\ list' = <<>>
    BY CacheInitStep, IdleWhenUninitialized DEF CacheInit
  <1>2. ResidentKeys = {} /\ ResidentKeys' = {}
    BY <1>1, EmptyList DEF ResidentKeys, Resident, ToSet
  <1>3. /\ ~initialized /\ initialized' = TRUE /\ borrow' = borrow
        /\ \A b \in Borrows : borrow[b] = NULL
    BY DEF CacheInit, client
  <1>4. AbstractOut = {} /\ AbstractOut' = {}
    BY <1>3 DEF AbstractOut
  <1>5. AbstractReads' = AbstractReads
    <2>1. \A b \in Borrows : AbstractReads'[b] = AbstractReads[b]
      BY <1>1, <1>3, ReadsFacts, ReadsFactsNext DEF ReadsInv
    <2> QED
      BY <2>1 DEF AbstractReads
  <1> QED
    BY <1>2, <1>3, <1>4, <1>5 DEF Library!Open

LEMMA DestroyCloses ==
  ASSUME IInv, Destroy
  PROVE  Library!Close
  <1>1. IInv' /\ list' = <<>> /\ initialized /\ initialized' = FALSE /\ borrow' = borrow
    BY DestroyStep DEF Destroy, client
  <1>2. ResidentKeys' = {}
    BY <1>1 DEF ResidentKeys, Resident, ToSet
  <1>3. AbstractOut' = AbstractOut
    BY <1>1 DEF AbstractOut
  <1>4. AbstractReads' = [b \in Borrows |-> NULL]
    BY <1>1, ReadsFactsNext DEF ReadsInv
  <1> QED
    BY <1>1, <1>2, <1>3, <1>4 DEF Library!Close

LEMMA LibraryStep ==
  ASSUME IInv, [Next]_vars
  PROVE  [Library!Next]_(Library!library)
  <1>1. CASE CacheInit
    BY <1>1, CacheInitOpens DEF Library!Next
  <1>2. CASE Destroy
    BY <1>2, DestroyCloses DEF Library!Next
  <1>3. CASE Evict
    BY <1>3, EvictDiscards DEF Library!Next
  <1>4. CASE Load
    BY <1>4, LoadLends DEF Library!Next
  <1>5. CASE \E b \in Borrows : Release(b)
    BY <1>5, ReleaseReturns DEF Library!Next
  <1>6. CASE \E b \in Borrows, k \in Keys : Hit(b, k)
    BY <1>6, HitLends DEF Library!Next
  <1>7. CASE \/ AdmissionBlocked \/ AllocEntry \/ AllocData \/ ReadFails
             \/ \E b \in Borrows, k \in Keys : Miss(b, k)
             \/ UNCHANGED vars
    <2>1. SameEntries
      BY <1>7 DEF AdmissionBlocked, AllocEntry, AllocData, ReadFails, Miss, vars, SameEntries
    <2>2. IInv'
      BY NextStep
    <2>3. SameShelves
      BY <2>1, SameResident DEF SameEntries, SameShelves, entries, client
    <2> QED
      BY <2>2, <2>3, SameShelvesStutters DEF Library!library
  <1> QED
    BY <1>1, <1>2, <1>3, <1>4, <1>5, <1>6, <1>7 DEF Next, AcquireStep

(* The cache implements a library of slices: every step is a loan, a       *)
(* discard, a return, an opening or a closing of it, or is invisible.      *)
THEOREM CacheImplementsLibrary == Spec => ImplementsLibrary
  <1>1. Init => Library!Init
    <2> SUFFICES ASSUME Init PROVE Library!Init
      OBVIOUS
    <2>1. ResidentKeys = {} /\ initialized = FALSE /\ dataLive = {}
      BY EmptyList DEF Init
    <2>2. AbstractOut = {} /\ AbstractReads = [b \in Borrows |-> NULL]
      BY <2>1 DEF Init, AbstractOut, AbstractReads
    <2> QED
      BY <2>1, <2>2 DEF Library!Init
  <1>2. IInv /\ [Next]_vars => [Library!Next]_(Library!library)
    BY LibraryStep
  <1> QED
    BY <1>1, <1>2, CacheInvariant, PTL DEF Spec, ImplementsLibrary, Library!Spec

-----------------------------------------------------------------------------
(***************************************************************************)
(* How many stages an acquire can still go through: while it makes room,   *)
(* one for every entry it could evict and three for what comes after.      *)
(***************************************************************************)
StagesLeft ==
  CASE pc = "idle"  -> 0
    [] pc = "read"  -> 1
    [] pc = "alloc" -> 2
    [] pc = "admit" -> 3 + Len(list)

Shrinks == pc # "idle" => StagesLeft' \in Nat /\ StagesLeft' < StagesLeft
AcquireShrinks == [][Shrinks]_vars

LEMMA StagesLeftValues ==
  ASSUME TypeOK
  PROVE  /\ StagesLeft \in Nat /\ Len(list) \in Nat
         /\ pc = "admit" => StagesLeft = 3 + Len(list)
         /\ pc = "alloc" => StagesLeft = 2
         /\ pc = "read" => StagesLeft = 1
         /\ pc = "idle" => StagesLeft = 0
  <1>1. pc \in {"idle", "admit", "alloc", "read"} /\ Len(list) \in Nat
    BY LenProperties DEF TypeOK, Stages
  <1> QED
    BY <1>1 DEF StagesLeft

LEMMA ShrinksStep ==
  ASSUME IInv, IInv', Next
  PROVE  Shrinks
  <1> SUFFICES ASSUME pc # "idle" PROVE StagesLeft' \in Nat /\ StagesLeft' < StagesLeft
    BY DEF Shrinks
  <1>1. TypeOK /\ pc \in {"admit", "alloc", "read"} /\ initialized
    BY DEF IInv, TypeOK, Stages, CallInv
  <1>2. /\ StagesLeft \in Nat /\ Len(list) \in Nat
        /\ pc = "admit" => StagesLeft = 3 + Len(list)
        /\ pc = "alloc" => StagesLeft = 2
        /\ pc = "read" => StagesLeft = 1
    BY <1>1, StagesLeftValues
  <1>3. /\ pc' = "idle" => StagesLeft' = 0
        /\ pc' = "read" => StagesLeft' = 1
        /\ pc' = "alloc" => StagesLeft' = 2
        /\ pc' = "admit" => StagesLeft' = 3 + Len(list')
    BY DEF StagesLeft
  <1>4. AcquireStep
    BY <1>1 DEF Next, CacheInit, Destroy, Release, Hit, Miss
  <1>5. CASE Evict
    <2>1. pc = "admit" /\ pc' = pc
      BY <1>5 DEF Evict, request
    <2>2. PICK i \in DOMAIN list : list' = RemoveAt(list, i)
      BY <1>5 DEF Evict, Unlink
    <2>3. DOMAIN list' = 1 .. Len(list) - 1 /\ list' \in Seq(Addrs)
      BY <1>1, <2>2, RemoveAtProperties DEF TypeOK, Removed
    <2>4. Len(list) >= 1
      BY <1>1, <2>2, LenProperties DEF TypeOK
    <2>5. DOMAIN list' = 1 .. Len(list') /\ Len(list') \in Nat
      BY <2>3, LenProperties
    <2>6. Len(list') = Len(list) - 1
      BY <1>2, <2>3, <2>4, <2>5
    <2> QED
      BY <1>2, <1>3, <2>1, <2>4, <2>6
  <1>6. CASE AdmissionBlocked \/ ReadFails \/ Load
    <2>1. pc' = "idle"
      BY <1>6 DEF AdmissionBlocked, ReadFails, Load, EndCall
    <2> QED
      BY <1>1, <1>2, <1>3, <2>1
  <1>7. CASE AllocEntry
    <2>1. pc = "admit" /\ pc' \in {"alloc", "idle"}
      BY <1>7 DEF AllocEntry, EndCall
    <2> QED
      BY <1>2, <1>3, <2>1
  <1>8. CASE AllocData
    <2>1. pc = "alloc" /\ pc' \in {"read", "idle"}
      BY <1>8 DEF AllocData, EndCall
    <2> QED
      BY <1>2, <1>3, <2>1
  <1> QED
    BY <1>4, <1>5, <1>6, <1>7, <1>8 DEF AcquireStep

(* An acquire takes a bounded number of stages: each one brings its return *)
(* nearer, and the eviction loop runs at most once per entry               *)
(* (the while loop of qx_expert_cache_acquire).                            *)
THEOREM AcquireTerminates == Spec => AcquireShrinks
  <1>1. IInv /\ [Next]_vars => [Shrinks]_vars
    BY NextStep, ShrinksStep
  <1> QED
    BY <1>1, CacheInvariant, PTL DEF Spec, AcquireShrinks
=============================================================================
