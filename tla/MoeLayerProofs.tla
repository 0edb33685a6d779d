--------------------------- MODULE MoeLayerProofs ---------------------------
(***************************************************************************)
(* Safety of MoeLayer for every number of experts, ranks and rows, every   *)
(* budget of the cache and every partition of a job's rows.  A step of the *)
(* layer is a step of the cache or leaves the cache alone, so that IInv    *)
(* holds here too; LayerInv ties the cache's borrow, the pool's job and    *)
(* the rows of the buffers to where the run is.                            *)
(***************************************************************************)
EXTENDS MoeLayer, ExpertCacheProofs

\* Where the product has its slice, and where a pool that is used is open.
Held == step \in {"lent", "running", "release"}
Opened == step \in {"ready", "acquire", "acquiring", "lent", "release", "closing"}

RowRange == 0 .. Rows - 1
Done(x) == \A r \in RowRange : buffers[x][r] = SliceKey[<<selected[rank], x>>]

LayerTypes ==
  /\ usesCache \in BOOLEAN /\ usesPool \in BOOLEAN /\ ok \in BOOLEAN
  /\ step \in Steps
  /\ selected \in [1 .. Ranks -> Experts] /\ rank \in 1 .. Ranks /\ matrix \in Matrices
  /\ buffers \in [Matrices -> [RowRange -> Keys \cup {NULL}]]

(* The cache lives as long as the run; an acquire is under way, or a       *)
(* borrow is out, only inside a matrix product, and is for its slice.      *)
CacheLink ==
  /\ initialized <=> usesCache /\ step # "off"
  /\ pc # "idle" <=> step = "acquiring"
  /\ step = "acquiring" => reqBorrow = Local /\ reqKey = Key
  /\ slice = borrow[Local]
  /\ borrow[Local] # NULL <=> usesCache /\ Held
  /\ usesCache /\ Held => want[Local] = Key
  /\ raw = IF ~usesCache /\ Held THEN Key ELSE NULL

(* The pool has a job exactly while the layer waits for it.                *)
PoolLink ==
  /\ phase = IF step = "running" THEN "running"
             ELSE IF usesPool /\ Opened THEN "open" ELSE "closed"
  /\ step \in {"setup", "running"} => usesPool
  /\ step # "running" => todo = {} /\ active = {} /\ bad = FALSE
  /\ bad \in BOOLEAN

(* The rows that are computed come from the slices of the current expert.  *)
RowsLink ==
  /\ matrix \in {"up", "down"} => Done("gate")
  /\ matrix = "down" => Done("up")
  /\ step = "running" =>
       \A r \in RowRange : r \in todo \cup active \/ bad \/ buffers[matrix][r] = Key
  /\ step = "release" /\ ok => Done(matrix)

LayerInv == LayerTypes /\ CacheLink /\ PoolLink /\ RowsLink

-----------------------------------------------------------------------------
LEMMA LayerConstants ==
  /\ Ranks \in Nat /\ Ranks >= 1 /\ Rows \in Nat /\ Rows >= 1
  /\ \A e \in Experts, x \in Matrices : SliceKey[<<e, x>>] \in Keys
  /\ Local \in Borrows /\ \A b \in Borrows : b = Local
  BY LayerAssumption

LEMMA KeyIsKey ==
  ASSUME LayerTypes
  PROVE  Key \in Keys /\ Key # NULL
  <1>1. selected[rank] \in Experts /\ matrix \in Matrices
    BY DEF LayerTypes
  <1> QED
    BY <1>1, LayerConstants, NullAssumption DEF Key

(* What a product that has its slice reads is the slice it asked for.      *)
LEMMA ContentsIsKey ==
  ASSUME IInv, LayerTypes, CacheLink, Held
  PROVE  Contents = Key
  <1>1. CASE usesCache
    <2>1. initialized /\ slice = borrow[Local] /\ slice # NULL /\ want[Local] = Key
      BY <1>1 DEF CacheLink, Held
    <2>2. slice \in dataLive /\ keyOf[slice] = Key
      BY <2>1, LayerConstants DEF IInv, BorrowsValid
    <2> QED
      BY <1>1, <2>2 DEF Contents
  <1>2. CASE ~usesCache
    BY <1>2 DEF Contents, CacheLink
  <1> QED
    BY <1>1, <1>2

LEMMA CacheKept ==
  ASSUME UNCHANGED vars
  PROVE  /\ UNCHANGED <<initialized, pc, reqKey, reqBorrow, borrow, want>>
         /\ [Next]_vars
  BY DEF vars, request, client

(* Steps that only move on.                                                *)
LEMMA KeptCacheLink ==
  ASSUME CacheLink, UNCHANGED vars, UNCHANGED <<usesCache, slice, raw>>,
         step' = "off" <=> step = "off", step' = "acquiring" <=> step = "acquiring",
         Held' <=> Held,
         Held \/ step = "acquiring" => UNCHANGED <<selected, rank, matrix>>
  PROVE  CacheLink'
  BY CacheKept DEF CacheLink, Key

LEMMA KeptPoolLink ==
  ASSUME PoolLink, UNCHANGED <<phase, todo, active, bad>>, UNCHANGED usesPool,
         step # "running", step' \notin {"setup", "running"}, Opened' <=> Opened
  PROVE  PoolLink'
  BY DEF PoolLink

LEMMA KeptRowsLink ==
  ASSUME RowsLink, UNCHANGED <<selected, rank, matrix, buffers>>,
         step' # "running", step' = "release" => step = "release" /\ ok' = ok
  PROVE  RowsLink'
  BY DEF RowsLink, Done, Key

LEMMA WriteRows ==
  ASSUME LayerTypes, Contents = Key, NEW S, Write(S)
  PROVE  /\ buffers' \in [Matrices -> [RowRange -> Keys \cup {NULL}]]
         /\ \A x \in Matrices : x # matrix => buffers'[x] = buffers[x]
         /\ \A r \in RowRange :
              buffers'[matrix][r] = IF r \in S THEN Key ELSE buffers[matrix][r]
  <1> DEFINE new == [r \in RowRange |-> IF r \in S THEN Key ELSE buffers[matrix][r]]
  <1>1. matrix \in Matrices /\ buffers \in [Matrices -> [RowRange -> Keys \cup {NULL}]]
    BY DEF LayerTypes
  <1>2. buffers' = [buffers EXCEPT ![matrix] = new]
    BY DEF Write, RowRange
  <1>3. Key \in Keys
    BY KeyIsKey
  <1>4. new \in [RowRange -> Keys \cup {NULL}]
    BY <1>1, <1>3
  <1>5. \A r \in RowRange : new[r] = IF r \in S THEN Key ELSE buffers[matrix][r]
    OBVIOUS
  <1> HIDE DEF new
  <1> QED
    BY <1>1, <1>2, <1>4, <1>5

-----------------------------------------------------------------------------
(* What an acquire does to the borrow of the product.                      *)
Lends(k) ==
  /\ initialized /\ initialized'
  /\ borrow'[Local] # NULL => pc' = "idle" /\ want'[Local] = k
  /\ pc' # "idle" => reqBorrow' = Local /\ reqKey' = k

LEMMA CallLends ==
  ASSUME TypeOK, pc = "idle", NEW k \in Keys, Hit(Local, k) \/ Miss(Local, k)
  PROVE  Lends(k)
  <1> USE LayerConstants
  <1>1. borrow \in [Borrows -> Addrs \cup {NULL}] /\ want \in [Borrows -> Keys \cup {NULL}]
    BY DEF TypeOK
  <1>2. CASE Hit(Local, k)
    <2>1. /\ initialized /\ initialized' = initialized /\ pc' = pc
          /\ borrow[Local] = NULL
      BY <1>2 DEF Hit, request
    <2>2. borrow' = borrow \/ want' = [want EXCEPT ![Local] = k]
      BY <1>2 DEF Hit, client
    <2> QED
      BY <1>1, <2>1, <2>2 DEF Lends
  <1>3. CASE Miss(Local, k)
    <2>1. /\ initialized /\ initialized' = initialized
          /\ borrow[Local] = NULL /\ borrow' = borrow
      BY <1>3 DEF Miss, client
    <2>2. pc' = pc \/ (reqKey' = k /\ reqBorrow' = Local)
      BY <1>3 DEF Miss, request
    <2> QED
      BY <2>1, <2>2 DEF Lends
  <1> QED
    BY <1>2, <1>3

LEMMA StageLends ==
  ASSUME IInv, pc # "idle", reqBorrow = Local, AcquireStep
  PROVE  Lends(reqKey)
  <1> USE LayerConstants
  <1>1. /\ initialized /\ borrow[Local] = NULL
        /\ want \in [Borrows -> Keys \cup {NULL}]
    BY DEF IInv, CallInv, TypeOK
  <1>2. CASE Evict \/ AdmissionBlocked \/ AllocEntry \/ AllocData \/ ReadFails
    <2>1. initialized' = initialized /\ borrow' = borrow
      BY <1>2 DEF Evict, AdmissionBlocked, AllocEntry, AllocData, ReadFails, client
    <2>2. pc' = "idle" \/ UNCHANGED <<reqKey, reqBorrow>>
      BY <1>2 DEF Evict, AdmissionBlocked, AllocEntry, AllocData, ReadFails, request, EndCall
    <2> QED
      BY <1>1, <2>1, <2>2 DEF Lends
  <1>3. CASE Load
    <2>1. initialized' = initialized /\ pc' = "idle" /\ want' = [want EXCEPT ![Local] = reqKey]
      BY <1>3 DEF Load, EndCall
    <2> QED
      BY <1>1, <2>1 DEF Lends
  <1> QED
    BY <1>2, <1>3 DEF AcquireStep

LEMMA AcquiredInv ==
  ASSUME LayerInv, step \in {"acquire", "acquiring"}, usesCache, Lends(Key), Acquired
  PROVE  LayerInv'
  <1>1. /\ slice' = borrow'[Local]
        /\ step' = IF pc' # "idle" THEN "acquiring" ELSE IF slice' # NULL THEN "lent" ELSE "closing"
        /\ UNCHANGED <<usesCache, usesPool, selected, rank, matrix, raw, ok, buffers>>
        /\ UNCHANGED <<phase, todo, active, bad>>
    BY DEF Acquired, policy, product, poolVars
  <1>2. LayerTypes'
    BY <1>1 DEF LayerInv, LayerTypes, Steps
  <1>3. CacheLink'
    <2>1. raw = NULL /\ Key' = Key
      BY <1>1 DEF LayerInv, CacheLink, Key
    <2> QED
      BY <1>1, <2>1 DEF CacheLink, Lends, Held
  <1>4. PoolLink'
    BY <1>1, KeptPoolLink DEF LayerInv, Opened
  <1>5. RowsLink'
    BY <1>1, KeptRowsLink DEF LayerInv
  <1> QED
    BY <1>2, <1>3, <1>4, <1>5 DEF LayerInv

-----------------------------------------------------------------------------
LEMMA InitLayerInv == MoeInit => IInv /\ LayerInv
  <1> SUFFICES ASSUME MoeInit PROVE IInv /\ LayerInv
    OBVIOUS
  <1> USE LayerConstants
  <1>1. /\ Init /\ phase = "closed" /\ todo = {} /\ active = {} /\ bad = FALSE
        /\ usesCache = FALSE /\ usesPool = FALSE /\ step = "off"
        /\ selected \in [1 .. Ranks -> Experts] /\ rank = 1 /\ matrix = "gate"
        /\ slice = NULL /\ raw = NULL /\ ok = FALSE /\ buffers = Blank
    BY DEF MoeInit, Pool!Init
  <1>2. buffers \in [Matrices -> [RowRange -> Keys \cup {NULL}]]
    BY <1>1 DEF Blank, RowRange
  <1>3. LayerTypes
    <2>1. rank \in 1 .. Ranks
      BY <1>1
    <2>2. matrix \in Matrices /\ step \in Steps
      BY <1>1 DEF Matrices, Steps
    <2> QED
      BY <1>1, <1>2, <2>1, <2>2 DEF LayerTypes
  <1>4. CacheLink
    BY <1>1 DEF CacheLink, Init, Held
  <1> QED
    BY <1>1, <1>3, <1>4, InitIInv DEF LayerInv, PoolLink, RowsLink

(* Every step of the layer is one of the cache, or none.                   *)
LEMMA StepOfCache ==
  ASSUME LayerInv, [MoeNext]_allVars
  PROVE  [Next]_vars
  <1> USE LayerConstants
  <1>1. CASE \E cached, pooled \in BOOLEAN : OpenRun(cached, pooled)
    BY <1>1, CacheKept DEF OpenRun, Next
  <1>2. CASE FinishCache
    BY <1>2, CacheKept DEF FinishCache, Finish, Next
  <1>3. CASE AcquireSlice
    <2>1. Key \in Keys
      BY KeyIsKey DEF LayerInv
    <2> QED
      BY <1>3, <2>1 DEF AcquireSlice, Next
  <1>4. CASE AcquireContinues
    BY <1>4 DEF AcquireContinues, Next
  <1>5. CASE Return
    BY <1>5, CacheKept DEF Return, ReleaseSlice, GiveBack, Next
  <1>6. CASE UNCHANGED vars
    BY <1>6
  <1>7. CASE UNCHANGED allVars
    BY <1>7, <1>6 DEF allVars
  <1>8. CASE CreatePool \/ DestroyPool \/ LayerFails \/ AcquireRefused \/ ReadSlice
               \/ RowsSerial \/ RunRows \/ RunReturns \/ PoolStep \/ EndRun
    <2>1. UNCHANGED vars
      BY <1>8 DEF CreatePool, DestroyPool, LayerFails, AcquireRefused, ReadSlice, RowsSerial,
                  RunRows, RunReturns, PoolStep, RowsStart, RowsFinish, EndRun
    <2> QED
      BY <2>1
  <1>9. CASE \E choice \in Selections : LayerCall(choice)
    BY <1>9, CacheKept DEF LayerCall
  <1> QED
    BY <1>1, <1>2, <1>3, <1>4, <1>5, <1>7, <1>8, <1>9 DEF MoeNext, CallerStep

-----------------------------------------------------------------------------
(* The run around the layer.                                               *)
LEMMA RunStep ==
  ASSUME IInv, LayerInv,
         \/ \E cached, pooled \in BOOLEAN : OpenRun(cached, pooled)
         \/ CreatePool \/ EndRun \/ DestroyPool \/ FinishCache
  PROVE  LayerInv'
  <1> USE DEF LayerInv
  <1>1. CASE \E cached, pooled \in BOOLEAN : OpenRun(cached, pooled)
    <2>1. PICK cached, pooled \in BOOLEAN : OpenRun(cached, pooled)
      BY <1>1
    <2>2. /\ step = "off" /\ step' = IF pooled THEN "setup" ELSE "ready"
          /\ usesCache' = cached /\ usesPool' = pooled
          /\ UNCHANGED <<selected, rank, matrix, slice, raw, ok, buffers>>
          /\ UNCHANGED <<phase, todo, active, bad>>
      BY <2>1 DEF OpenRun, product, lent, poolVars
    <2>3. /\ UNCHANGED <<pc, reqKey, reqBorrow, borrow, want>>
          /\ initialized' = IF cached THEN TRUE ELSE initialized
      BY <2>1, CacheKept DEF OpenRun, CacheInit, request, client
    <2>4. LayerTypes'
      BY <2>2 DEF LayerTypes, Steps
    <2>5. CacheLink'
      BY <2>2, <2>3 DEF CacheLink, Held
    <2>6. PoolLink'
      BY <2>2 DEF PoolLink, Opened
    <2>7. RowsLink'
      BY <2>2, KeptRowsLink
    <2> QED
      BY <2>4, <2>5, <2>6, <2>7
  <1>2. CASE CreatePool
    <2>1. /\ step = "setup" /\ step' \in {"ready", "closed"}
          /\ UNCHANGED vars /\ UNCHANGED <<usesCache, usesPool>>
          /\ UNCHANGED <<selected, rank, matrix, slice, raw, ok, buffers>>
      BY <1>2 DEF CreatePool, product, lent, policy
    <2>2. /\ UNCHANGED <<todo, active, bad>>
          /\ phase = "closed" /\ phase' = IF step' = "ready" THEN "open" ELSE "closed"
      BY <1>2 DEF CreatePool, poolVars, Pool!Open, PoolLink, Opened
    <2>3. LayerTypes'
      BY <2>1 DEF LayerTypes, Steps
    <2>4. CacheLink'
      BY <2>1, KeptCacheLink DEF Held
    <2>5. PoolLink'
      BY <2>1, <2>2 DEF PoolLink, Opened
    <2>6. RowsLink'
      BY <2>1, KeptRowsLink
    <2> QED
      BY <2>3, <2>4, <2>5, <2>6
  <1>3. CASE EndRun
    <2>1. /\ step = "ready" /\ step' = "closing"
          /\ UNCHANGED vars /\ UNCHANGED <<usesCache, usesPool>>
          /\ UNCHANGED <<selected, rank, matrix, slice, raw, ok, buffers>>
          /\ UNCHANGED <<phase, todo, active, bad>>
      BY <1>3 DEF EndRun, product, lent, policy, poolVars
    <2>2. LayerTypes'
      BY <2>1 DEF LayerTypes, Steps
    <2> QED
      BY <2>1, <2>2, KeptCacheLink, KeptPoolLink, KeptRowsLink DEF Held, Opened
  <1>4. CASE DestroyPool
    <2>1. /\ step = "closing" /\ step' = "closed"
          /\ UNCHANGED vars /\ UNCHANGED <<usesCache, usesPool>>
          /\ UNCHANGED <<selected, rank, matrix, slice, raw, ok, buffers>>
      BY <1>4 DEF DestroyPool, product, lent, policy
    <2>2. UNCHANGED <<todo, active, bad>> /\ phase' = "closed"
      BY <1>4 DEF DestroyPool, poolVars, Pool!Close, PoolLink, Opened
    <2>3. LayerTypes'
      BY <2>1 DEF LayerTypes, Steps
    <2>4. PoolLink'
      BY <2>1, <2>2 DEF PoolLink, Opened
    <2> QED
      BY <2>1, <2>3, <2>4, KeptCacheLink, KeptRowsLink DEF Held
  <1>5. CASE FinishCache
    <2>1. /\ step = "closed" /\ step' = "off"
          /\ UNCHANGED <<usesCache, usesPool>>
          /\ UNCHANGED <<selected, rank, matrix, slice, raw, ok, buffers>>
          /\ UNCHANGED <<phase, todo, active, bad>>
      BY <1>5 DEF FinishCache, product, lent, policy, poolVars
    <2>2. UNCHANGED <<pc, reqKey, reqBorrow, borrow, want>> /\ ~initialized'
      BY <1>5, CacheKept DEF FinishCache, Finish, Destroy, request, client, CacheLink
    <2>3. LayerTypes'
      BY <2>1 DEF LayerTypes, Steps
    <2>4. CacheLink'
      BY <2>1, <2>2 DEF CacheLink, Held
    <2> QED
      BY <2>1, <2>3, <2>4, KeptPoolLink, KeptRowsLink DEF Opened
  <1> QED
    BY <1>1, <1>2, <1>3, <1>4, <1>5

(* A call of the layer, and the slice of a product.                        *)
LEMMA SliceStep ==
  ASSUME IInv, LayerInv,
         \/ \E choice \in Selections : LayerCall(choice)
         \/ LayerFails \/ AcquireSlice \/ AcquireRefused \/ AcquireContinues \/ ReadSlice
  PROVE  LayerInv'
  <1> USE DEF LayerInv
  <1>1. CASE \E choice \in Selections : LayerCall(choice)
    <2>1. PICK choice \in Selections : LayerCall(choice)
      BY <1>1
    <2>2. /\ step = "ready" /\ step' = "acquire"
          /\ selected' = choice /\ rank' = 1 /\ matrix' = "gate" /\ buffers' = Blank
          /\ UNCHANGED vars /\ UNCHANGED <<usesCache, usesPool, slice, raw, ok>>
          /\ UNCHANGED <<phase, todo, active, bad>>
      BY <2>1 DEF LayerCall, lent, policy, poolVars
    <2>3. selected' \in [1 .. Ranks -> Experts]
      BY <2>2 DEF Selections
    <2>4. buffers' \in [Matrices -> [RowRange -> Keys \cup {NULL}]]
      BY <2>2 DEF Blank, RowRange
    <2>5. LayerTypes'
      BY <2>2, <2>3, <2>4, LayerConstants DEF LayerTypes, Steps, Matrices
    <2>6. RowsLink'
      BY <2>2 DEF RowsLink
    <2> QED
      BY <2>2, <2>5, <2>6, KeptCacheLink, KeptPoolLink DEF Held, Opened
  <1>2. CASE LayerFails \/ AcquireRefused
    <2>1. /\ step = "acquire" /\ step' = "closing"
          /\ UNCHANGED vars /\ UNCHANGED <<usesCache, usesPool>>
          /\ UNCHANGED <<selected, rank, matrix, slice, raw, ok, buffers>>
          /\ UNCHANGED <<phase, todo, active, bad>>
      BY <1>2 DEF LayerFails, AcquireRefused, product, lent, policy, poolVars
    <2>2. LayerTypes'
      BY <2>1 DEF LayerTypes, Steps
    <2> QED
      BY <2>1, <2>2, KeptCacheLink, KeptPoolLink, KeptRowsLink DEF Held, Opened
  <1>3. CASE AcquireSlice
    <2>1. /\ step = "acquire" /\ usesCache /\ Acquired
          /\ Hit(Local, Key) \/ Miss(Local, Key)
      BY <1>3 DEF AcquireSlice
    <2>2. pc = "idle"
      BY <2>1 DEF CacheLink
    <2>3. Lends(Key)
      BY <2>1, <2>2, KeyIsKey, CallLends DEF IInv
    <2> QED
      BY <2>1, <2>3, AcquiredInv
  <1>4. CASE AcquireContinues
    <2>1. step = "acquiring" /\ AcquireStep /\ Acquired
      BY <1>4 DEF AcquireContinues
    <2>2. pc # "idle" /\ reqBorrow = Local /\ reqKey = Key
      BY <2>1 DEF CacheLink
    <2>3. Lends(Key)
      BY <2>1, <2>2, StageLends
    <2>4. usesCache
      BY <2>1, <2>2 DEF CacheLink, IInv, CallInv
    <2> QED
      BY <2>1, <2>3, <2>4, AcquiredInv
  <1>5. CASE ReadSlice
    <2>1. /\ step = "acquire" /\ ~usesCache
          /\ \/ raw' = Key /\ step' = "lent"
             \/ raw' = raw /\ step' = "closing"
          /\ UNCHANGED vars /\ UNCHANGED <<usesCache, usesPool>>
          /\ UNCHANGED <<selected, rank, matrix, slice, ok, buffers>>
          /\ UNCHANGED <<phase, todo, active, bad>>
      BY <1>5 DEF ReadSlice, product, policy, poolVars
    <2>2. LayerTypes'
      BY <2>1 DEF LayerTypes, Steps
    <2>3. CacheLink'
      BY <2>1, CacheKept DEF CacheLink, Held, Key
    <2> QED
      BY <2>1, <2>2, <2>3, KeptPoolLink, KeptRowsLink DEF Opened
  <1> QED
    BY <1>1, <1>2, <1>3, <1>4, <1>5

(* The rows of a product.                                                  *)
LEMMA RowsStep ==
  ASSUME IInv, LayerInv, RowsSerial \/ RunRows \/ PoolStep \/ RunReturns
  PROVE  LayerInv'
  <1> USE DEF LayerInv
  <1>1. CASE RowsSerial
    <2>1. /\ step = "lent" /\ step' = "release"
          /\ UNCHANGED vars /\ UNCHANGED <<usesCache, usesPool>>
          /\ UNCHANGED <<selected, rank, matrix, slice, raw>>
          /\ UNCHANGED <<phase, todo, active, bad>>
          /\ \/ ok' = TRUE /\ Write(RowRange)
             \/ ok' = FALSE /\ \E n \in 0 .. Rows - 1 : Write(0 .. n - 1)
      BY <1>1 DEF RowsSerial, product, lent, policy, poolVars, RowRange
    <2>2. Contents = Key
      BY <2>1, ContentsIsKey DEF Held
    <2>3. PICK S : Write(S) /\ ok' \in BOOLEAN /\ (ok' => S = RowRange)
      BY <2>1
    <2>4. /\ buffers' \in [Matrices -> [RowRange -> Keys \cup {NULL}]]
          /\ \A x \in Matrices : x # matrix => buffers'[x] = buffers[x]
          /\ \A r \in RowRange :
               buffers'[matrix][r] = IF r \in S THEN Key ELSE buffers[matrix][r]
      BY <2>2, <2>3, WriteRows
    <2>5. LayerTypes'
      BY <2>1, <2>3, <2>4 DEF LayerTypes, Steps
    <2>6. RowsLink'
      BY <2>1, <2>3, <2>4 DEF RowsLink, Done, Key, Matrices
    <2> QED
      BY <2>1, <2>5, <2>6, KeptCacheLink, KeptPoolLink DEF Held, Opened
  <1>2. CASE RunRows
    <2>1. /\ step = "lent" /\ step' = "running" /\ usesPool
          /\ UNCHANGED vars /\ UNCHANGED <<usesCache, usesPool>>
          /\ UNCHANGED <<selected, rank, matrix, slice, raw, ok, buffers>>
          /\ phase' = "running" /\ todo' = RowRange /\ UNCHANGED <<active, bad>>
      BY <1>2 DEF RunRows, Pool!Submit, product, lent, policy, RowRange
    <2>2. LayerTypes'
      BY <2>1 DEF LayerTypes, Steps
    <2>3. PoolLink'
      BY <2>1 DEF PoolLink
    <2>4. RowsLink'
      BY <2>1 DEF RowsLink, Done, Key
    <2> QED
      BY <2>1, <2>2, <2>3, <2>4, KeptCacheLink DEF Held
  <1>3. CASE \E S \in SUBSET todo : S # {} /\ RowsStart(S)
    <2>1. PICK S \in SUBSET todo : RowsStart(S)
      BY <1>3
    <2>2. /\ UNCHANGED vars /\ UNCHANGED <<usesCache, usesPool, step>>
          /\ UNCHANGED <<selected, rank, matrix, slice, raw, ok, buffers>>
          /\ phase = "running" /\ UNCHANGED <<phase, bad>>
          /\ todo' = todo \ S /\ active' = active \cup S
      BY <2>1 DEF RowsStart, Pool!Start, product, lent, policy
    <2>3. step = "running"
      BY <2>2 DEF PoolLink
    <2>4. todo' \cup active' = todo \cup active
      BY <2>2
    <2>5. LayerTypes'
      BY <2>2 DEF LayerTypes
    <2>6. PoolLink'
      BY <2>2, <2>3 DEF PoolLink
    <2>7. RowsLink'
      BY <2>2, <2>3, <2>4 DEF RowsLink, Done, Key
    <2> QED
      BY <2>2, <2>5, <2>6, <2>7, KeptCacheLink DEF Held
  <1>4. CASE \E S \in SUBSET active : S # {} /\ \E failure \in BOOLEAN : RowsFinish(S, failure)
    <2>1. PICK S \in SUBSET active, failure \in BOOLEAN : S # {} /\ RowsFinish(S, failure)
      BY <1>4
    <2> DEFINE W == IF failure THEN {} ELSE S
    <2>2. /\ UNCHANGED vars /\ UNCHANGED <<usesCache, usesPool, step>>
          /\ UNCHANGED <<selected, rank, matrix, slice, raw, ok>>
          /\ UNCHANGED <<phase, todo>> /\ active' = active \ S
          /\ bad' = (bad \/ failure) /\ Write(W)
      BY <2>1 DEF RowsFinish, Pool!Finish, product, lent, policy
    <2>3. step = "running"
      BY <2>1 DEF PoolLink
    <2>4. Contents = Key
      BY <2>3, ContentsIsKey DEF Held
    <2>5. /\ buffers' \in [Matrices -> [RowRange -> Keys \cup {NULL}]]
          /\ \A x \in Matrices : x # matrix => buffers'[x] = buffers[x]
          /\ \A r \in RowRange :
               buffers'[matrix][r] = IF r \in W THEN Key ELSE buffers[matrix][r]
      BY <2>2, <2>4, WriteRows
    <2>6. LayerTypes'
      BY <2>2, <2>5 DEF LayerTypes
    <2>7. PoolLink'
      BY <2>2, <2>3 DEF PoolLink
    <2>8. \A r \in RowRange : r \in todo' \cup active' \/ bad' \/ buffers'[matrix][r] = Key
      BY <2>2, <2>3, <2>5 DEF RowsLink
    <2>9. RowsLink'
      BY <2>2, <2>3, <2>5, <2>8 DEF RowsLink, Done, Key, Matrices
    <2> QED
      BY <2>2, <2>6, <2>7, <2>9, KeptCacheLink DEF Held
  <1>5. CASE RunReturns
    <2>1. /\ step = "running" /\ step' = "release"
          /\ UNCHANGED vars /\ UNCHANGED <<usesCache, usesPool>>
          /\ UNCHANGED <<selected, rank, matrix, slice, raw, buffers>>
          /\ todo = {} /\ active = {} /\ UNCHANGED <<todo, active>>
          /\ phase' = "open" /\ bad' = FALSE
          /\ ok' = (outcome' = "ok") /\ outcome' = IF bad THEN "failed" ELSE "ok"
      BY <1>5 DEF RunReturns, Join, JobSucceeded, Pool!Join, product, lent, policy
    <2>2. bad \in BOOLEAN
      BY DEF PoolLink
    <2>3. ok' \in BOOLEAN /\ (ok' => bad = FALSE)
      BY <2>1, <2>2
    <2>4. LayerTypes'
      BY <2>1, <2>3 DEF LayerTypes, Steps
    <2>5. PoolLink'
      BY <2>1 DEF PoolLink, Opened
    <2>6. RowsLink'
      BY <2>1, <2>3 DEF RowsLink, Done, Key
    <2> QED
      BY <2>1, <2>4, <2>5, <2>6, KeptCacheLink DEF Held
  <1> QED
    BY <1>1, <1>2, <1>3, <1>4, <1>5 DEF PoolStep

(* The slice is given back, and the layer goes on.                         *)
LEMMA ReturnStep ==
  ASSUME IInv, LayerInv, Return
  PROVE  LayerInv'
  <1> USE DEF LayerInv
  <1>1. /\ step = "release" /\ ReleaseSlice
        /\ UNCHANGED <<usesCache, usesPool, selected, ok, buffers>>
        /\ UNCHANGED <<phase, todo, active, bad>>
    BY DEF Return, policy, poolVars
  <1>2. /\ step' \in {"closing", "acquire", "ready"}
        /\ rank' \in 1 .. Ranks /\ matrix' \in Matrices
    <2>1. rank \in 1 .. Ranks /\ Ranks \in Nat
      BY LayerConstants DEF LayerTypes
    <2>2. CASE ~ok
      BY <2>1, <2>2 DEF Return, LayerTypes
    <2>3. CASE ok
      BY <2>1, <2>3, LayerConstants DEF Return, LastRank, Matrices
    <2> QED
      BY <2>2, <2>3 DEF LayerTypes
  <1>3. LayerTypes'
    BY <1>1, <1>2 DEF LayerTypes, Steps
  <1>4. CacheLink'
    <2>1. slice' = NULL /\ raw' = NULL
      BY <1>1 DEF ReleaseSlice
    <2>2. UNCHANGED <<initialized, pc, reqKey, reqBorrow>> /\ borrow'[Local] = NULL
      <3>1. CASE usesCache
        <4>1. Release(Local)
          BY <1>1, <3>1 DEF ReleaseSlice, GiveBack
        <4>2. borrow \in [Borrows -> Addrs \cup {NULL}] /\ Local \in Borrows
          BY LayerConstants DEF IInv, TypeOK
        <4> QED
          BY <4>1, <4>2 DEF Release, request
      <3>2. CASE ~usesCache
        BY <1>1, <3>2, CacheKept DEF ReleaseSlice, CacheLink
      <3> QED
        BY <3>1, <3>2
    <2> QED
      BY <1>1, <1>2, <2>1, <2>2 DEF CacheLink, Held
  <1>5. PoolLink'
    BY <1>1, <1>2, KeptPoolLink DEF Opened
  <1>6. RowsLink'
    <2>1. CASE ~ok
      BY <1>1, <1>2, <2>1, KeptRowsLink DEF Return
    <2>2. CASE ok
      <3>1. Done(matrix)
        BY <1>1, <2>2 DEF RowsLink
      <3>2. \/ matrix' = "gate"
            \/ /\ rank' = rank
               /\ <<matrix, matrix'>> \in {<<"gate", "up">>, <<"up", "down">>}
        BY <2>2 DEF Return
      <3> QED
        BY <1>1, <1>2, <3>1, <3>2 DEF RowsLink, Done
    <2> QED
      BY <2>1, <2>2 DEF LayerTypes
  <1> QED
    BY <1>3, <1>4, <1>5, <1>6

LEMMA StepLayerInv ==
  ASSUME IInv, LayerInv, [MoeNext]_allVars
  PROVE  IInv' /\ LayerInv'
  <1>1. IInv'
    BY StepOfCache, NextStep
  <1>2. CASE UNCHANGED allVars
    <2>1. /\ UNCHANGED vars /\ UNCHANGED <<usesCache, usesPool, step>>
          /\ UNCHANGED <<selected, rank, matrix, slice, raw, ok, buffers>>
          /\ UNCHANGED <<phase, todo, active, bad>>
      BY <1>2 DEF allVars, policy, product, lent, poolVars
    <2>2. LayerTypes' /\ PoolLink' /\ RowsLink'
      BY <2>1 DEF LayerInv, LayerTypes, PoolLink, Opened, RowsLink, Done, Key
    <2> QED
      BY <1>1, <2>1, <2>2, KeptCacheLink DEF LayerInv, Held
  <1> QED
    BY <1>1, <1>2, RunStep, SliceStep, RowsStep, ReturnStep DEF MoeNext, CallerStep

-----------------------------------------------------------------------------
(* The cache's invariant and LayerInv hold in every state of a run.        *)
THEOREM LayerInvariant == MoeSpec => [](IInv /\ LayerInv)
  <1>1. MoeInit => IInv /\ LayerInv
    BY InitLayerInv
  <1>2. IInv /\ LayerInv /\ [MoeNext]_allVars => (IInv /\ LayerInv)'
    BY StepLayerInv
  <1> QED
    BY <1>1, <1>2, PTL DEF MoeSpec

(* Whenever a callback is inside its rows, the slice it reads is held and  *)
(* is the one of the product under way (qx_packed_expert_matvec_mode).     *)
THEOREM ReadersHoldSliceHolds == MoeSpec => []ReadersHoldSlice
  <1>1. IInv /\ LayerInv => ReadersHoldSlice
    <2> SUFFICES ASSUME IInv, LayerInv, active # {} PROVE Contents = Key
      BY DEF ReadersHoldSlice
    <2>1. Held
      BY DEF LayerInv, PoolLink, Held
    <2> QED
      BY <2>1, ContentsIsKey DEF LayerInv
  <1> QED
    BY <1>1, LayerInvariant, PTL

(* Outside of a matrix product nothing is pinned, whatever failed before.  *)
LEMMA NothingPinned ==
  ASSUME IInv, LayerInv, ~Held
  PROVE  \A e \in Resident : pins[e] = 0
  <1> SUFFICES ASSUME NEW e \in Resident PROVE pins[e] = 0
    OBVIOUS
  <1>1. borrow[Local] = NULL
    BY DEF LayerInv, CacheLink
  <1>2. e \in Addrs
    BY ResidentFacts DEF IInv
  <1>3. Holders(e) = {}
    BY <1>1, <1>2, LayerConstants, NullAssumption DEF Holders
  <1>4. Cardinality({}) = 0
    BY FS_EmptySet
  <1> QED
    BY <1>3, <1>4 DEF IInv, PinsAreBorrows

(* The admission of a slice that fits the budget always finds a victim:    *)
(* something is resident, and nothing is pinned.                           *)
LEMMA AdmissionHasVictim == IInv /\ LayerInv => AdmissionNeverBlocked
  <1> SUFFICES ASSUME IInv, LayerInv, pc = "admit", ~Fits
               PROVE  \E i \in DOMAIN list : Victim(i)
    BY DEF AdmissionNeverBlocked
  <1>1. step = "acquiring" /\ ~Held
    BY DEF LayerInv, CacheLink, Held
  <1>2. initialized /\ reqKey \in Keys /\ SizeOf[reqKey] <= Budget
    BY DEF IInv, CallInv
  <1>3. current = Bytes[ResidentKeys]
    BY <1>2 DEF IInv, Accounting
  <1>4. current # 0
    BY <1>2, Constants DEF Fits
  <1>5. list # <<>>
    BY <1>3, <1>4, EmptyList, BytesAssumption
  <1>6. list \in Seq(Addrs)
    BY DEF IInv, TypeOK
  <1>7. 1 \in DOMAIN list
    BY <1>5, <1>6
  <1>8. list[1] \in Resident
    BY <1>7, ResidentFacts DEF IInv
  <1>9. pins[list[1]] = 0
    BY <1>1, <1>8, NothingPinned
  <1> QED
    BY <1>7, <1>9 DEF Victim

(* "Runtime callers are sequential and must release a borrow before their  *)
(* next acquire" (qx_expert_cache_acquire's only caller).                  *)
THEOREM NothingPinnedBetweenHolds == MoeSpec => []NothingPinnedBetween
  <1>1. IInv /\ LayerInv => NothingPinnedBetween
    BY NothingPinned, AdmissionHasVictim DEF NothingPinnedBetween, Held
  <1> QED
    BY <1>1, LayerInvariant, PTL

(* An admission never has to give up for lack of an entry to evict.        *)
THEOREM AdmissionNeverBlockedHolds == MoeSpec => []AdmissionNeverBlocked
  <1> QED
    BY AdmissionHasVictim, LayerInvariant, PTL

(* A run leaves no slice, entry, callback or pool behind, on no way out    *)
(* (qx_run_expert_cache_finish, the cleanup of qx_run_prompt_state_loop).  *)
THEOREM NothingOutlivesTheRunHolds == MoeSpec => []NothingOutlivesTheRun
  <1>1. IInv /\ LayerInv => NothingOutlivesTheRun
    <2> SUFFICES ASSUME IInv, LayerInv, step = "off"
                 PROVE  /\ metaLive = {} /\ dataLive = {} /\ raw = NULL
                        /\ active = {} /\ phase = "closed"
      BY DEF NothingOutlivesTheRun
    <2>1. ~initialized /\ pc = "idle" /\ raw = NULL
      BY DEF LayerInv, CacheLink, Held
    <2>2. Resident = {}
      BY <2>1, EmptyList DEF IInv, ListInv
    <2>3. metaLive = {} /\ dataLive = {}
      BY <2>1, <2>2 DEF IInv, HeapInv
    <2> QED
      BY <2>1, <2>3 DEF LayerInv, PoolLink, Opened
  <1> QED
    BY <1>1, LayerInvariant, PTL

(* An expert is added to the output only when each row of its products was *)
(* computed from its own slices (qx_apply_real_moe_layer).                 *)
THEOREM SumsOwnProductsHolds == MoeSpec => SumsOwnProducts
  <1> DEFINE OwnProducts ==
        \A e \in summed' \ summed :
          \A x \in Matrices : \A r \in 0 .. Rows - 1 : buffers[x][r] = SliceKey[<<e, x>>]
  <1>1. IInv /\ LayerInv /\ [MoeNext]_allVars => [OwnProducts]_allVars
    <2> SUFFICES ASSUME LayerInv, MoeNext PROVE OwnProducts
      OBVIOUS
    <2>1. CASE summed' \subseteq summed
      BY <2>1
    <2>2. CASE Return
      <3> SUFFICES ASSUME NEW e \in summed' \ summed,
                          NEW x \in Matrices, NEW r \in 0 .. Rows - 1
                   PROVE  buffers[x][r] = SliceKey[<<e, x>>]
        OBVIOUS
      <3>1. e = selected[rank] /\ matrix = "down" /\ step = "release" /\ ok
        BY <2>2 DEF Return
      <3>2. Done("gate") /\ Done("up") /\ Done("down")
        BY <3>1 DEF LayerInv, RowsLink
      <3> QED
        BY <3>1, <3>2 DEF Done, RowRange, Matrices
    <2>3. CASE CreatePool \/ DestroyPool \/ FinishCache \/ LayerFails \/ AcquireSlice
                 \/ AcquireRefused \/ AcquireContinues \/ ReadSlice \/ RowsSerial
                 \/ RunRows \/ RunReturns \/ PoolStep \/ EndRun
      <3>1. summed' = summed
        BY <2>3 DEF CreatePool, DestroyPool, FinishCache, LayerFails, AcquireSlice, Acquired,
                    AcquireRefused, AcquireContinues, ReadSlice, RowsSerial, RunRows,
                    RunReturns, PoolStep, RowsStart, RowsFinish, EndRun
      <3> QED
        BY <2>1, <3>1
    <2>4. CASE \E cached, pooled \in BOOLEAN : OpenRun(cached, pooled)
      BY <2>1, <2>4 DEF OpenRun
    <2>5. CASE \E choice \in Selections : LayerCall(choice)
      BY <2>1, <2>5 DEF LayerCall
    <2> QED
      BY <2>2, <2>3, <2>4, <2>5 DEF MoeNext, CallerStep
  <1> QED
    BY <1>1, LayerInvariant, PTL DEF MoeSpec, SumsOwnProducts

-----------------------------------------------------------------------------
(***************************************************************************)
(* The layer and the two components it composes.                           *)
(***************************************************************************)
(* The layer uses the cache only in ways the cache's specification allows, *)
(* and so does the cache keep the promises of its library in every run.    *)
THEOREM LayerUsesCache == MoeSpec => Spec /\ ImplementsLibrary
  <1>1. MoeInit => Init
    BY DEF MoeInit
  <1>2. LayerInv /\ [MoeNext]_allVars => [Next]_vars
    BY StepOfCache
  <1>3. MoeSpec => Spec
    BY <1>1, <1>2, LayerInvariant, PTL DEF MoeSpec, Spec
  <1> QED
    BY <1>3, CacheImplementsLibrary

\* What the calls of the layer rely on: "qx_row_pool_run" has an open pool
\* without a job, an acquire has an initialized cache and a clear borrow, a
\* release has the borrow of this product, a destroy has something to destroy.
CallsInPlace ==
  /\ step = "setup" => phase = "closed"
  /\ step = "acquire" /\ usesCache => initialized /\ pc = "idle" /\ borrow[Local] = NULL
  /\ step = "acquiring" => pc # "idle"
  /\ step = "lent" /\ usesPool => phase = "open" /\ active = {}
  /\ step = "running" => phase = "running"
  /\ step = "release" /\ usesCache => pc = "idle" /\ borrow[Local] # NULL
  /\ step = "closing" /\ usesPool => phase = "open" /\ active = {}
  /\ step = "closed" /\ usesCache => initialized /\ pc = "idle"
  /\ step = "closed" => phase = "closed"

(* No call of the layer meets a cache or a pool that would refuse it for   *)
(* the state it is in (qx_packed_expert_matvec_mode, the set-up and the    *)
(* cleanup of qx_run_prompt_state_loop).                                   *)
THEOREM CallsInPlaceHolds == MoeSpec => []CallsInPlace
  <1>1. IInv /\ LayerInv => CallsInPlace
    BY DEF LayerInv, CacheLink, PoolLink, Held, Opened, CallsInPlace
  <1> QED
    BY <1>1, LayerInvariant, PTL

LEMMA StepOfPool ==
  ASSUME LayerInv, [MoeNext]_allVars
  PROVE  [Pool!Next]_(Pool!vars)
  <1>1. CASE CreatePool
    BY <1>1 DEF CreatePool, Pool!Next, Pool!vars, poolVars
  <1>2. CASE DestroyPool
    BY <1>2 DEF DestroyPool, Pool!Next, Pool!vars, poolVars
  <1>3. CASE RunRows
    BY <1>3 DEF RunRows, Pool!Next
  <1>4. CASE RunReturns
    BY <1>4 DEF RunReturns, Join, Pool!Next
  <1>5. CASE PoolStep
    BY <1>5 DEF PoolStep, RowsStart, RowsFinish, Pool!Next
  <1>6. CASE UNCHANGED poolVars
    BY <1>6 DEF poolVars, Pool!vars
  <1>7. CASE \/ FinishCache \/ LayerFails \/ AcquireSlice \/ AcquireRefused \/ AcquireContinues
             \/ ReadSlice \/ RowsSerial \/ Return \/ EndRun \/ UNCHANGED allVars
    BY <1>6, <1>7 DEF FinishCache, LayerFails, AcquireSlice, AcquireRefused, AcquireContinues,
       Acquired, ReadSlice, RowsSerial, Return, EndRun, allVars
  <1>8. CASE \/ \E cached, pooled \in BOOLEAN : OpenRun(cached, pooled)
             \/ \E choice \in Selections : LayerCall(choice)
    BY <1>6, <1>8 DEF OpenRun, LayerCall
  <1> QED
    BY <1>1, <1>2, <1>3, <1>4, <1>5, <1>7, <1>8 DEF MoeNext, CallerStep

(* The layer uses the pool only in ways the fork/join it implements allows. *)
THEOREM LayerUsesPool == MoeSpec => Pool!Spec
  <1>1. MoeInit => Pool!Init
    BY DEF MoeInit
  <1>2. LayerInv /\ [MoeNext]_allVars => [Pool!Next]_(Pool!vars)
    BY StepOfPool
  <1> QED
    BY <1>1, <1>2, LayerInvariant, PTL DEF MoeSpec, Pool!Spec

-----------------------------------------------------------------------------
(***************************************************************************)
(* A layer that was called gets nearer to its return with every step: to   *)
(* the end of its last product, within a product to the release, and       *)
(* within an acquire or a job to its end.                                  *)
(***************************************************************************)
ProductsLeft ==
  3 * (Ranks - rank) + CASE matrix = "gate" -> 2 [] matrix = "up" -> 1 [] matrix = "down" -> 0

Stage ==
  CASE step = "acquire"   -> 5
    [] step = "acquiring" -> 4
    [] step = "lent"      -> 3
    [] step = "running"   -> 2
    [] step = "release"   -> 1

Place ==
  CASE step \in {"off", "ready"}     -> 0
    [] step = "closed"               -> 1
    [] step \in {"setup", "closing"} -> 2
    [] OTHER                         -> 3 + 6 * ProductsLeft + Stage

Inside ==
  CASE step = "acquiring" -> StagesLeft
    [] step = "running"   -> 2 * Cardinality(todo) + Cardinality(active)
    [] OTHER              -> 0

Nearer ==
  /\ Place \in Nat /\ Inside \in Nat /\ Place' \in Nat /\ Inside' \in Nat
  /\ Place' < Place \/ (Place' = Place /\ Inside' < Inside)

LayerShrinks == [][step \notin {"off", "ready"} => Nearer]_allVars

\* The rows of a job, given out or not, are rows of the product.
RowsInRange == todo \subseteq RowRange /\ active \subseteq RowRange

LEMMA InitRowsInRange == MoeInit => RowsInRange
  BY DEF MoeInit, Pool!Init, RowsInRange

LEMMA StepRowsInRange ==
  ASSUME RowsInRange, LayerInv, [MoeNext]_allVars
  PROVE  RowsInRange'
  <1>1. [Pool!Next]_(Pool!vars)
    BY StepOfPool
  <1> QED
    BY <1>1 DEF RowsInRange, RowRange, Pool!Next, Pool!vars, Pool!Open, Pool!Close, Pool!Refuse,
                Pool!Join, Pool!Submit, Pool!Start, Pool!Finish

PlaceFacts ==
  /\ ProductsLeft \in Nat /\ Place \in Nat
  /\ step \in {"off", "ready"} => Place = 0
  /\ step = "closed" => Place = 1
  /\ step \in {"setup", "closing"} => Place = 2
  /\ step = "acquire" => Place = 8 + 6 * ProductsLeft
  /\ step = "acquiring" => Place = 7 + 6 * ProductsLeft
  /\ step = "lent" => Place = 6 + 6 * ProductsLeft
  /\ step = "running" => Place = 5 + 6 * ProductsLeft
  /\ step = "release" => Place = 4 + 6 * ProductsLeft

LEMMA PlaceValues == LayerTypes => PlaceFacts
  <1> SUFFICES ASSUME LayerTypes PROVE PlaceFacts
    OBVIOUS
  <1>1. rank \in 1 .. Ranks /\ Ranks \in Nat /\ matrix \in {"gate", "up", "down"}
    BY LayerConstants DEF LayerTypes, Matrices
  <1>2. Ranks - rank \in Nat
    BY <1>1
  <1>3. ProductsLeft \in Nat
    BY <1>1, <1>2 DEF ProductsLeft
  <1>4. step \in Steps
    BY DEF LayerTypes
  <1>5. /\ step \in {"off", "ready"} => Place = 0
        /\ step = "closed" => Place = 1
        /\ step \in {"setup", "closing"} => Place = 2
    BY DEF Place
  <1>6. step \in {"acquire", "acquiring", "lent", "running", "release"} =>
          Place = 3 + 6 * ProductsLeft + Stage
    BY DEF Place
  <1>7. /\ step = "acquire" => Stage = 5
        /\ step = "acquiring" => Stage = 4
        /\ step = "lent" => Stage = 3
        /\ step = "running" => Stage = 2
        /\ step = "release" => Stage = 1
    BY DEF Stage
  <1> HIDE DEF ProductsLeft, Place, Stage
  <1>8. /\ step = "acquire" => Place = 8 + 6 * ProductsLeft
        /\ step = "acquiring" => Place = 7 + 6 * ProductsLeft
        /\ step = "lent" => Place = 6 + 6 * ProductsLeft
        /\ step = "running" => Place = 5 + 6 * ProductsLeft
        /\ step = "release" => Place = 4 + 6 * ProductsLeft
    BY <1>3, <1>6, <1>7
  <1>9. Place \in Nat
    BY <1>3, <1>4, <1>5, <1>8 DEF Steps
  <1> QED
    BY <1>3, <1>5, <1>8, <1>9 DEF PlaceFacts

LEMMA PlaceValuesNext == LayerTypes' => PlaceFacts'
  BY PlaceValues, PTL

InsideFacts ==
  /\ Inside \in Nat
  /\ step = "acquiring" => Inside = StagesLeft
  /\ step = "running" => Inside = 2 * Cardinality(todo) + Cardinality(active)

LEMMA RowsCounted ==
  ASSUME NEW S \in SUBSET RowRange
  PROVE  IsFiniteSet(S) /\ Cardinality(S) \in Nat
  <1>1. IsFiniteSet(RowRange)
    BY LayerConstants, FS_Interval DEF RowRange
  <1> QED
    BY <1>1, FS_Subset, FS_CardinalityType

LEMMA InsideValues == IInv /\ RowsInRange => InsideFacts
  <1> SUFFICES ASSUME IInv, RowsInRange PROVE InsideFacts
    OBVIOUS
  <1>1. StagesLeft \in Nat
    BY StagesLeftValues DEF IInv
  <1>2. Cardinality(todo) \in Nat /\ Cardinality(active) \in Nat
    BY RowsCounted DEF RowsInRange
  <1>3. /\ step = "acquiring" => Inside = StagesLeft
        /\ step = "running" => Inside = 2 * Cardinality(todo) + Cardinality(active)
        /\ step \notin {"acquiring", "running"} => Inside = 0
    BY DEF Inside
  <1> QED
    BY <1>1, <1>2, <1>3 DEF InsideFacts

LEMMA InsideValuesNext == (IInv /\ RowsInRange)' => InsideFacts'
  BY InsideValues, PTL

\* The product under way is still the same.
SameProduct == UNCHANGED <<rank, matrix>>

LEMMA SameProductsLeft ==
  ASSUME SameProduct
  PROVE  ProductsLeft' = ProductsLeft
  BY DEF SameProduct, ProductsLeft

(* Giving out rows, and getting them back, leaves fewer to wait for.       *)
LEMMA PoolStepNearer ==
  ASSUME RowsInRange, PoolStep
  PROVE  /\ 2 * Cardinality(todo') + Cardinality(active') < 2 * Cardinality(todo) + Cardinality(active)
         /\ UNCHANGED <<step, rank, matrix>>
  <1>1. /\ IsFiniteSet(todo) /\ IsFiniteSet(active)
        /\ Cardinality(todo) \in Nat /\ Cardinality(active) \in Nat
    BY RowsCounted DEF RowsInRange
  <1>2. ASSUME NEW S \in SUBSET RowRange, S # {}
        PROVE  IsFiniteSet(S) /\ Cardinality(S) \in Nat /\ Cardinality(S) >= 1
    <2>1. IsFiniteSet(S) /\ Cardinality(S) \in Nat
      BY RowsCounted
    <2>2. Cardinality(S) # 0
      BY <1>2, <2>1, FS_EmptySet
    <2> QED
      BY <2>1, <2>2
  <1>3. ASSUME NEW S \in SUBSET todo, S # {}, RowsStart(S)
        PROVE  /\ 2 * Cardinality(todo') + Cardinality(active')
                    < 2 * Cardinality(todo) + Cardinality(active)
               /\ UNCHANGED <<step, rank, matrix>>
    <2>1. todo' = todo \ S /\ active' = active \cup S /\ UNCHANGED <<step, rank, matrix>>
      BY <1>3 DEF RowsStart, Pool!Start, product
    <2>2. IsFiniteSet(S) /\ Cardinality(S) \in Nat /\ Cardinality(S) >= 1
      BY <1>2, <1>3 DEF RowsInRange
    <2>3. Cardinality(todo \ S) = Cardinality(todo) - Cardinality(S)
      <3>1. todo \cap S = S
        OBVIOUS
      <3> QED
        BY <1>1, <3>1, FS_Difference
    <2>4. /\ Cardinality(active \cup S) <= Cardinality(active) + Cardinality(S)
          /\ Cardinality(active \cup S) \in Nat
      <3>1. /\ IsFiniteSet(active \cup S)
            /\ Cardinality(active \cup S) = Cardinality(active) + Cardinality(S) - Cardinality(active \cap S)
        BY <1>1, <2>2, FS_Union
      <3>2. Cardinality(active \cap S) \in Nat
        BY RowsCounted DEF RowsInRange
      <3>3. Cardinality(active \cup S) \in Nat
        BY <3>1, FS_CardinalityType
      <3> QED
        BY <1>1, <2>2, <3>1, <3>2, <3>3
    <2> QED
      BY <1>1, <2>1, <2>2, <2>3, <2>4
  <1>4. ASSUME NEW S \in SUBSET active, S # {}, NEW failure \in BOOLEAN, RowsFinish(S, failure)
        PROVE  /\ 2 * Cardinality(todo') + Cardinality(active')
                    < 2 * Cardinality(todo) + Cardinality(active)
               /\ UNCHANGED <<step, rank, matrix>>
    <2>1. todo' = todo /\ active' = active \ S /\ UNCHANGED <<step, rank, matrix>>
      BY <1>4 DEF RowsFinish, Pool!Finish, product
    <2>2. IsFiniteSet(S) /\ Cardinality(S) \in Nat /\ Cardinality(S) >= 1
      BY <1>2, <1>4 DEF RowsInRange
    <2>3. Cardinality(active \ S) = Cardinality(active) - Cardinality(S)
      <3>1. active \cap S = S
        OBVIOUS
      <3> QED
        BY <1>1, <3>1, FS_Difference
    <2> QED
      BY <1>1, <2>1, <2>2, <2>3
  <1> QED
    BY <1>3, <1>4 DEF PoolStep

(* The next product is one product nearer to the end.                      *)
LEMMA ReturnNearer ==
  ASSUME LayerInv, LayerInv', Return
  PROVE  Place' < Place
  <1>1. step = "release" /\ PlaceFacts /\ PlaceFacts'
    BY PlaceValues, PlaceValuesNext DEF LayerInv, Return
  <1>2. rank \in 1 .. Ranks /\ Ranks \in Nat
    BY LayerConstants DEF LayerInv, LayerTypes
  <1>3. CASE step' \in {"closing", "ready"}
    BY <1>1, <1>3 DEF PlaceFacts
  <1>4. CASE step' = "acquire"
    <2>1. \/ rank' = rank /\ matrix = "gate" /\ matrix' = "up"
          \/ rank' = rank /\ matrix = "up" /\ matrix' = "down"
          \/ rank' = rank + 1 /\ rank # Ranks /\ matrix = "down" /\ matrix' = "gate"
      BY <1>4 DEF Return, LastRank
    <2>2. ProductsLeft' = ProductsLeft - 1
      BY <1>2, <2>1 DEF ProductsLeft
    <2> QED
      BY <1>1, <1>4, <2>2 DEF PlaceFacts
  <1> QED
    BY <1>3, <1>4 DEF Return

LEMMA NearerStep ==
  ASSUME IInv, LayerInv, RowsInRange, IInv', LayerInv', RowsInRange',
         step \notin {"off", "ready"}, MoeNext
  PROVE  Nearer
  <1>1. PlaceFacts /\ PlaceFacts' /\ InsideFacts /\ InsideFacts'
    BY PlaceValues, PlaceValuesNext, InsideValues, InsideValuesNext DEF LayerInv
  <1>2. Place \in Nat /\ Inside \in Nat /\ Place' \in Nat /\ Inside' \in Nat
    BY <1>1 DEF PlaceFacts, InsideFacts
  <1>3. CASE CreatePool \/ DestroyPool \/ FinishCache
    <2>1. \/ step = "setup" /\ step' \in {"ready", "closed"}
          \/ step = "closing" /\ step' = "closed"
          \/ step = "closed" /\ step' = "off"
      BY <1>3 DEF CreatePool, DestroyPool, FinishCache
    <2> QED
      BY <1>1, <1>2, <2>1 DEF PlaceFacts, Nearer
  <1>4. CASE LayerFails \/ AcquireRefused \/ AcquireSlice \/ ReadSlice
    <2>1. step = "acquire" /\ step' \in {"acquiring", "lent", "closing"} /\ SameProduct
      BY <1>4 DEF LayerFails, AcquireRefused, AcquireSlice, Acquired, ReadSlice, product, SameProduct
    <2> QED
      BY <1>1, <1>2, <2>1, SameProductsLeft DEF PlaceFacts, Nearer
  <1>5. CASE AcquireContinues
    <2>1. step = "acquiring" /\ step' \in {"acquiring", "lent", "closing"} /\ SameProduct
      BY <1>5 DEF AcquireContinues, Acquired, product, SameProduct
    <2>2. CASE step' # "acquiring"
      BY <1>1, <1>2, <2>1, <2>2, SameProductsLeft DEF PlaceFacts, Nearer
    <2>3. CASE step' = "acquiring"
      <3>1. Place' = Place
        BY <1>1, <2>1, <2>3, SameProductsLeft DEF PlaceFacts
      <3>2. StagesLeft' < StagesLeft
        <4>1. pc # "idle" /\ Next
          BY <1>5, <2>1 DEF LayerInv, CacheLink, AcquireContinues, Next
        <4> QED
          BY <4>1, ShrinksStep DEF Shrinks
      <3> QED
        BY <1>1, <1>2, <2>1, <2>3, <3>1, <3>2 DEF InsideFacts, Nearer
    <2> QED
      BY <2>2, <2>3
  <1>6. CASE RowsSerial \/ RunRows
    <2>1. step = "lent" /\ step' \in {"running", "release"} /\ SameProduct
      BY <1>6 DEF RowsSerial, RunRows, product, SameProduct
    <2> QED
      BY <1>1, <1>2, <2>1, SameProductsLeft DEF PlaceFacts, Nearer
  <1>7. CASE RunReturns
    <2>1. step = "running" /\ step' = "release" /\ SameProduct
      BY <1>7 DEF RunReturns, product, SameProduct
    <2> QED
      BY <1>1, <1>2, <2>1, SameProductsLeft DEF PlaceFacts, Nearer
  <1>8. CASE PoolStep
    <2>1. /\ 2 * Cardinality(todo') + Cardinality(active') < 2 * Cardinality(todo) + Cardinality(active)
          /\ UNCHANGED <<step, rank, matrix>>
      BY <1>8, PoolStepNearer
    <2>2. step = "running"
      <3>1. todo # {} \/ active # {}
        BY <1>8 DEF PoolStep
      <3> QED
        BY <3>1 DEF LayerInv, PoolLink
    <2>3. Place' = Place
      <3>1. SameProduct
        BY <2>1 DEF SameProduct
      <3> QED
        BY <1>1, <2>1, <2>2, <3>1, SameProductsLeft DEF PlaceFacts
    <2> QED
      BY <1>1, <1>2, <2>1, <2>2, <2>3 DEF InsideFacts, Nearer
  <1>9. CASE Return
    BY <1>2, <1>9, ReturnNearer DEF Nearer
  <1>10. CASE \/ EndRun
              \/ \E cached, pooled \in BOOLEAN : OpenRun(cached, pooled)
              \/ \E choice \in Selections : LayerCall(choice)
    BY <1>10 DEF EndRun, OpenRun, LayerCall
  <1> QED
    BY <1>3, <1>4, <1>5, <1>6, <1>7, <1>8, <1>9, <1>10 DEF MoeNext, CallerStep

(* No call of the layer, and no way out of a run, goes round in circles:   *)
(* every step of the caller, of the cache or of a worker brings it nearer  *)
(* to its end (qx_apply_real_moe_layer, qx_packed_expert_matvec_mode).     *)
THEOREM LayerTerminates == MoeSpec => LayerShrinks
  <1> DEFINE All == IInv /\ LayerInv /\ RowsInRange
             Closer == step \notin {"off", "ready"} => Nearer
  <1>1. MoeInit => All
    BY InitLayerInv, InitRowsInRange
  <1>2. All /\ [MoeNext]_allVars => All'
    BY StepLayerInv, StepRowsInRange
  <1>3. All /\ All' /\ [MoeNext]_allVars => [Closer]_allVars
    BY NearerStep
  <1> HIDE DEF All
  <1> QED
    BY <1>1, <1>2, <1>3, PTL DEF MoeSpec, LayerShrinks
=============================================================================
