---------------------------- MODULE ExpertCache ----------------------------
(***************************************************************************)
(* The per-run LRU cache of packed expert slices (qx_expert_cache.c).  The *)
(* cache is sequential; its environment is not reliable: both allocations  *)
(* of an admission may fail, and the read may fail or come back short.     *)
(* Acquire is therefore one action per stage between two calls of its      *)
(* operations (cache->ops.alloc, .read_exact, .free).                      *)
(*                                                                         *)
(* The doubly linked list from cache->lru to cache->mru is the sequence    *)
(* `list` of entry addresses; an address freed by an eviction may be       *)
(* handed out again by the next allocation.                                *)
(***************************************************************************)
EXTENDS Integers, FiniteSets, SequencesExt

CONSTANTS
  Keys,        \* the keys callers ask for (tensor offset, slice offset, bytes, expert)
  SizeOf,      \* key.slice_bytes
  Bytes,       \* total size of a set of keys
  Budget,      \* cache->budget_bytes
  CounterMax,  \* UINT64_MAX, scaled down; the code's own limit of every counter
  Addrs,       \* addresses the allocator may return for an entry
  Borrows,     \* the callers' qx_expert_cache_borrow objects
  NULL

ASSUME KeysAssumption ==
  /\ IsFiniteSet(Keys)
  /\ SizeOf \in [Keys -> Nat \ {0}]
ASSUME BytesAssumption ==
  /\ Bytes \in [SUBSET Keys -> Nat]
  /\ Bytes[{}] = 0
  /\ \A K \in SUBSET Keys : \A k \in Keys \ K : Bytes[K \cup {k}] = Bytes[K] + SizeOf[k]
ASSUME BudgetAssumption == CounterMax \in Nat /\ Budget \in 1 .. CounterMax
ASSUME NullAssumption == NULL \notin Addrs /\ NULL \notin Keys
ASSUME FiniteAssumption == IsFiniteSet(Addrs) /\ IsFiniteSet(Borrows)

VARIABLES
  initialized,  \* cache->initialized
  list,         \* entries from least to most recently used
  keyOf, pins,  \* entry->key, entry->pin_count
  metaLive, dataLive,  \* addresses whose entry / whose data block is allocated
  requests, hits, misses, loads, evictions, \* cache->counters
  current, peak, bytesRead, bytesAvoided,
  pc,           \* the stage of the acquire under way, "idle" between calls
  reqKey, reqBorrow, fresh,  \* its key, its borrow and the entry it allocated
  borrow,       \* borrow->entry of every borrow object, NULL when cleared
  want,         \* history: the key each outstanding borrow was asked for
  lastUse       \* history: the request that last lent an entry

counters == <<requests, hits, misses, loads, evictions, current, peak, bytesRead, bytesAvoided>>
entries == <<list, keyOf, pins, lastUse>>
heap == <<metaLive, dataLive>>
request == <<pc, reqKey, reqBorrow, fresh>>
client == <<borrow, want>>
vars == <<initialized, entries, heap, counters, request, client>>

Resident == ToSet(list)
ResidentKeys == { keyOf[e] : e \in Resident }
Stages == {"idle", "admit", "alloc", "read"}

Init ==
  /\ initialized = FALSE
  /\ list = <<>>
  /\ keyOf = [a \in Addrs |-> NULL] /\ pins = [a \in Addrs |-> 0]
  /\ lastUse = [a \in Addrs |-> 0]
  /\ metaLive = {} /\ dataLive = {}
  /\ requests = 0 /\ hits = 0 /\ misses = 0 /\ loads = 0 /\ evictions = 0
  /\ current = 0 /\ peak = 0 /\ bytesRead = 0 /\ bytesAvoided = 0
  /\ pc = "idle" /\ reqKey = NULL /\ reqBorrow = NULL /\ fresh = NULL
  /\ borrow = [b \in Borrows |-> NULL] /\ want = [b \in Borrows |-> NULL]

-----------------------------------------------------------------------------
(***************************************************************************)
(* The list.                                                               *)
(***************************************************************************)
Unlink(i) == RemoveAt(list, i)

PromoteNothing(i) == list       \* mutant: a hit does not refresh the entry
Promote(i) == Append(Unlink(i), list[i])

\* The position of the entry a scan from the LRU end finds for key k.
Found(i, k) == keyOf[list[i]] = k /\ \A j \in 1 .. i - 1 : keyOf[list[j]] # k
Cached(k) == \E i \in DOMAIN list : keyOf[list[i]] = k

VictimPinned(i) == i = 1        \* mutant: the LRU entry, pinned or not
\* The position of the first unpinned entry from the LRU end.
Victim(i) == pins[list[i]] = 0 /\ \A j \in 1 .. i - 1 : pins[list[j]] # 0

-----------------------------------------------------------------------------
\* qx_expert_cache_add: the sum fits a uint64_t
Adds(a, b) == a + b <= CounterMax

(***************************************************************************)
(* qx_expert_cache_init, on an object whose earlier borrows were returned. *)
(* Calls with an invalid budget or operations leave it uninitialized.      *)
(***************************************************************************)
CacheInit ==
  /\ ~initialized
  /\ \A b \in Borrows : borrow[b] = NULL
  /\ initialized' = TRUE
  /\ list' = <<>>
  /\ requests' = 0 /\ hits' = 0 /\ misses' = 0 /\ loads' = 0 /\ evictions' = 0
  /\ current' = 0 /\ peak' = 0 /\ bytesRead' = 0 /\ bytesAvoided' = 0
  /\ UNCHANGED <<keyOf, pins, lastUse, heap, request, client>>

(***************************************************************************)
(* qx_expert_cache_acquire.  A call with an invalid key, or at the limit   *)
(* of a counter, is refused before anything changes: no step.              *)
(***************************************************************************)
\* pin, promote and lend a resident entry
Hit(b, k) ==
  /\ initialized /\ pc = "idle" /\ borrow[b] = NULL
  /\ requests < CounterMax /\ hits < CounterMax
  /\ Adds(bytesAvoided, SizeOf[k])
  /\ requests' = requests + 1 /\ hits' = hits + 1
  /\ bytesAvoided' = bytesAvoided + SizeOf[k]
  /\ \E i \in DOMAIN list :
       /\ Found(i, k)
       /\ IF pins[list[i]] = CounterMax
          THEN UNCHANGED <<list, pins, lastUse, client>>
          ELSE /\ pins' = [pins EXCEPT ![list[i]] = @ + 1]
               /\ list' = Promote(i)
               /\ lastUse' = [lastUse EXCEPT ![list[i]] = requests + 1]
               /\ borrow' = [borrow EXCEPT ![b] = list[i]]
               /\ want' = [want EXCEPT ![b] = k]
  /\ UNCHANGED <<initialized, keyOf, heap, misses, loads, evictions, current, peak,
                 bytesRead, request>>

\* count the miss; a slice larger than the budget is never admitted
Miss(b, k) ==
  /\ initialized /\ pc = "idle" /\ borrow[b] = NULL
  /\ ~Cached(k)
  /\ requests < CounterMax /\ misses < CounterMax
  /\ requests' = requests + 1 /\ misses' = misses + 1
  /\ IF SizeOf[k] > Budget
     THEN UNCHANGED request
     ELSE pc' = "admit" /\ reqKey' = k /\ reqBorrow' = b /\ UNCHANGED fresh
  /\ UNCHANGED <<initialized, entries, heap, hits, loads, evictions, current, peak,
                 bytesRead, bytesAvoided, client>>

FitsUnderBudget == current < Budget    \* mutant: the new slice is not counted
Fits == current <= Budget - SizeOf[reqKey]

RetryCall == UNCHANGED request         \* mutant: a stage that gives up does not return
\* acquire returns
EndCall == pc' = "idle" /\ reqKey' = NULL /\ reqBorrow' = NULL /\ fresh' = NULL

\* evict the least recently used unpinned entry
Evict ==
  /\ pc = "admit" /\ ~Fits
  /\ evictions < CounterMax
  /\ \E i \in DOMAIN list :
       /\ Victim(i)
       /\ list' = Unlink(i)
       /\ current' = current - SizeOf[keyOf[list[i]]]
       /\ metaLive' = metaLive \ {list[i]} /\ dataLive' = dataLive \ {list[i]}
       /\ keyOf' = [keyOf EXCEPT ![list[i]] = NULL]
       /\ lastUse' = [lastUse EXCEPT ![list[i]] = 0]
  /\ evictions' = evictions + 1
  /\ UNCHANGED <<initialized, pins, requests, hits, misses, loads, peak,
                 bytesRead, bytesAvoided, request, client>>

\* every entry left is pinned
AdmissionBlocked ==
  /\ pc = "admit" /\ ~Fits
  /\ evictions = CounterMax \/ ~\E i \in DOMAIN list : Victim(i)
  /\ EndCall
  /\ UNCHANGED <<initialized, entries, heap, counters, client>>

AllocEntry ==
  /\ pc = "admit" /\ Fits
  /\ \/ \E a \in Addrs \ metaLive :
          /\ metaLive' = metaLive \cup {a}
          /\ fresh' = a /\ pc' = "alloc" /\ UNCHANGED <<reqKey, reqBorrow>>
     \/ EndCall /\ UNCHANGED metaLive
  /\ UNCHANGED <<initialized, entries, dataLive, counters, client>>

AllocData ==
  /\ pc = "alloc"
  /\ \/ /\ dataLive' = dataLive \cup {fresh}
        /\ pc' = "read" /\ UNCHANGED <<metaLive, reqKey, reqBorrow, fresh>>
     \/ /\ metaLive' = metaLive \ {fresh}
        /\ EndCall /\ UNCHANGED dataLive
  /\ UNCHANGED <<initialized, entries, counters, client>>

FreedNothing == {}                     \* mutant: a failed read leaks the entry
FreedAfterRead == {fresh}

\* the read fails, is short, or its byte count does not fit the counter
ReadFails ==
  /\ pc = "read"
  /\ \E n \in 0 .. SizeOf[reqKey] :
       bytesRead' = IF Adds(bytesRead, n) THEN bytesRead + n ELSE bytesRead
  /\ metaLive' = metaLive \ FreedAfterRead /\ dataLive' = dataLive \ FreedAfterRead
  /\ EndCall
  /\ UNCHANGED <<initialized, entries, requests, hits, misses, loads, evictions, current,
                 peak, bytesAvoided, client>>

PeakAfter(bytes) == IF bytes > peak THEN bytes ELSE peak

\* the whole slice is there: admit it at the MRU end, pinned once, and lend it
Load ==
  /\ pc = "read"
  /\ Adds(bytesRead, SizeOf[reqKey]) /\ loads < CounterMax
  /\ bytesRead' = bytesRead + SizeOf[reqKey]
  /\ keyOf' = [keyOf EXCEPT ![fresh] = reqKey]
  /\ pins' = [pins EXCEPT ![fresh] = 1]
  /\ lastUse' = [lastUse EXCEPT ![fresh] = requests]
  /\ list' = Append(list, fresh)
  /\ loads' = loads + 1
  /\ current' = current + SizeOf[reqKey]
  /\ peak' = PeakAfter(current + SizeOf[reqKey])
  /\ borrow' = [borrow EXCEPT ![reqBorrow] = fresh]
  /\ want' = [want EXCEPT ![reqBorrow] = reqKey]
  /\ EndCall
  /\ UNCHANGED <<initialized, heap, requests, hits, misses, evictions, bytesAvoided>>

-----------------------------------------------------------------------------
UnpinAll(n) == 0                       \* mutant: one release drops every pin
Unpin(n) == IF n # 0 THEN n - 1 ELSE n

(***************************************************************************)
(* qx_expert_cache_release: unpin the entry if the cache still holds it,   *)
(* and clear the borrow.  After destroy only the borrow is cleared.        *)
(***************************************************************************)
Release(b) ==
  /\ pc = "idle" /\ borrow[b] # NULL
  /\ IF initialized /\ borrow[b] \in Resident
     THEN pins' = [pins EXCEPT ![borrow[b]] = Unpin(@)]
     ELSE UNCHANGED pins
  /\ borrow' = [borrow EXCEPT ![b] = NULL]
  /\ want' = [want EXCEPT ![b] = NULL]
  /\ UNCHANGED <<initialized, list, keyOf, lastUse, heap, counters, request>>

\* qx_expert_cache_destroy: free every entry, pinned or not, and clear the cache.
Destroy ==
  /\ initialized /\ pc = "idle"
  /\ initialized' = FALSE
  /\ metaLive' = metaLive \ Resident /\ dataLive' = dataLive \ Resident
  /\ list' = <<>>
  /\ keyOf' = [a \in Addrs |-> NULL] /\ pins' = [a \in Addrs |-> 0]
  /\ lastUse' = [a \in Addrs |-> 0]
  /\ requests' = 0 /\ hits' = 0 /\ misses' = 0 /\ loads' = 0 /\ evictions' = 0
  /\ current' = 0 /\ peak' = 0 /\ bytesRead' = 0 /\ bytesAvoided' = 0
  /\ UNCHANGED <<request, client>>

-----------------------------------------------------------------------------
AcquireStep == Evict \/ AdmissionBlocked \/ AllocEntry \/ AllocData \/ ReadFails \/ Load

Next ==
  \/ CacheInit \/ Destroy \/ AcquireStep
  \/ \E b \in Borrows : Release(b)
  \/ \E b \in Borrows, k \in Keys : Hit(b, k) \/ Miss(b, k)

Spec == Init /\ [][Next]_vars

\* A call that was made runs to its return; nobody has to make one.
FairSpec == Spec /\ WF_vars(AcquireStep)

-----------------------------------------------------------------------------
Counter == 0 .. CounterMax

\* Type invariant; no counter ever leaves the range of a uint64_t.
TypeOK ==
  /\ initialized \in BOOLEAN
  /\ list \in Seq(Addrs)
  /\ keyOf \in [Addrs -> Keys \cup {NULL}]
  /\ pins \in [Addrs -> Counter] /\ lastUse \in [Addrs -> Counter]
  /\ metaLive \subseteq Addrs /\ dataLive \subseteq Addrs
  /\ requests \in Counter /\ hits \in Counter /\ misses \in Counter
  /\ loads \in Counter /\ evictions \in Counter
  /\ current \in Counter /\ peak \in Counter
  /\ bytesRead \in Counter /\ bytesAvoided \in Counter
  /\ pc \in Stages
  /\ reqKey \in Keys \cup {NULL} /\ reqBorrow \in Borrows \cup {NULL}
  /\ fresh \in Addrs \cup {NULL}
  /\ borrow \in [Borrows -> Addrs \cup {NULL}]
  /\ want \in [Borrows -> Keys \cup {NULL}]

(***************************************************************************)
(* "borrow->data remains valid until its matching release": as long as the *)
(* cache is not destroyed, a lent entry stays resident and allocated and   *)
(* holds the slice that was asked for, through any number of admissions,   *)
(* evictions and failures for other keys.                                  *)
(***************************************************************************)
BorrowsValid ==
  initialized =>
    \A b \in Borrows : borrow[b] # NULL =>
      /\ borrow[b] \in Resident /\ borrow[b] \in dataLive
      /\ keyOf[borrow[b]] = want[b]

\* A pin count is the number of borrows out: an entry can be evicted again
\* exactly when every borrow of it has been released.
Holders(e) == { b \in Borrows : borrow[b] = e }
PinsAreBorrows == \A e \in Resident : pins[e] = Cardinality(Holders(e))

(***************************************************************************)
(* The counters the run reports are consistent with each other and with    *)
(* the entries: resident bytes are those of the resident keys and never    *)
(* exceed the budget, not even in the middle of an admission.              *)
(***************************************************************************)
Accounting ==
  initialized =>
    /\ requests = hits + misses
    /\ loads <= misses
    /\ loads - evictions = Cardinality(ResidentKeys)
    /\ current = Bytes[ResidentKeys]
    /\ current <= peak /\ peak <= Budget

\* Between calls exactly the resident entries are allocated: no failure path
\* of acquire leaks or double-frees, and destroy leaves nothing behind.
NoLeak == pc = "idle" => metaLive = Resident /\ dataLive = Resident

(***************************************************************************)
(* The list order is the order of last use, so that the victim of an       *)
(* eviction is the least recently used entry that nobody has borrowed.     *)
(***************************************************************************)
EvictsLeastRecent ==
  [][\A e \in Resident \ Resident' :
       initialized' =>
         /\ pins[e] = 0
         /\ \A f \in Resident : pins[f] = 0 => lastUse[e] <= lastUse[f]]_vars

(***************************************************************************)
(* The inductive invariant the proofs use: each part is what some stage of *)
(* acquire relies on when it continues.                                    *)
(***************************************************************************)
\* One entry per key; a cache that is not initialized has none.
ListInv ==
  /\ \A e \in Resident : keyOf[e] \in Keys
  /\ \A e, f \in Resident : keyOf[e] = keyOf[f] => e = f
  /\ ~initialized => list = <<>>

\* The list is strictly ordered by last use, so no entry is linked twice.
OrderInv ==
  /\ \A i, j \in DOMAIN list : i < j => lastUse[list[i]] < lastUse[list[j]]
  /\ \A e \in Resident : lastUse[e] <= requests /\ (pc # "idle" => lastUse[e] < requests)

\* What is allocated: the resident entries and the one under construction.
HeapInv ==
  /\ metaLive = Resident \cup (IF pc \in {"alloc", "read"} THEN {fresh} ELSE {})
  /\ dataLive = Resident \cup (IF pc = "read" THEN {fresh} ELSE {})
  /\ pc \in {"alloc", "read"} => fresh \in Addrs \ Resident

\* What the stages of an acquire know about its request.
CallInv ==
  pc # "idle" =>
    /\ initialized /\ loads < misses
    /\ reqKey \in Keys \ ResidentKeys /\ SizeOf[reqKey] <= Budget
    /\ reqBorrow \in Borrows /\ borrow[reqBorrow] = NULL
    /\ pc # "admit" => Fits

IInv ==
  /\ TypeOK /\ ListInv /\ OrderInv /\ HeapInv /\ CallInv
  /\ BorrowsValid /\ PinsAreBorrows /\ Accounting

\* Acquire returns: the eviction loop runs out of victims or makes room.
AcquireReturns == (pc # "idle") ~> (pc = "idle")

-----------------------------------------------------------------------------
(***************************************************************************)
(* The refinement mapping to SliceLibrary.                                 *)
(***************************************************************************)
AbstractOut == { b \in Borrows : borrow[b] # NULL }

\* What stands at the address a borrow holds, if that is still allocated.
AbstractReads ==
  [b \in Borrows |-> IF borrow[b] \in dataLive THEN keyOf[borrow[b]] ELSE NULL]

Library == INSTANCE SliceLibrary WITH
  open <- initialized, stock <- ResidentKeys, out <- AbstractOut, reads <- AbstractReads

(***************************************************************************)
(* The cache is a library of slices: through hits, admissions, evictions,  *)
(* failed allocations and reads, and addresses that are used again, every  *)
(* borrow goes on reading the slice it was lent until it is released, and  *)
(* the slices in memory never take more than the budget                    *)
(* (qx_expert_cache_acquire, qx_expert_cache_release).                     *)
(***************************************************************************)
ImplementsLibrary == Library!Spec
=============================================================================
