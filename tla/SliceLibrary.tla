---------------------------- MODULE SliceLibrary ----------------------------
(***************************************************************************)
(* What qx_expert_cache.h promises its callers, without lists, addresses,  *)
(* pins or counters: a library of slices.  It keeps a stock of slices that *)
(* never takes more than the budget, lends them, and may discard what is   *)
(* not lent; "borrow->data remains valid until its matching release".      *)
(* Which slice is discarded, and whether a request is granted, is left     *)
(* open.  Closing takes what is lent away, and opening again waits for the *)
(* borrows that are still out.                                             *)
(***************************************************************************)
EXTENDS Integers

CONSTANTS Keys, Bytes, Budget, Borrows, NULL

VARIABLES
  open,    \* the cache is initialized
  stock,   \* the keys of the slices in memory
  out,     \* the borrows that have not been returned
  reads    \* what each borrow reads: the slice of a key, or NULL

library == <<open, stock, out, reads>>

Init ==
  /\ open = FALSE /\ stock = {} /\ out = {}
  /\ reads = [b \in Borrows |-> NULL]

Open ==
  /\ ~open /\ out = {}
  /\ open' = TRUE
  /\ UNCHANGED <<stock, out, reads>>

Lend(b, k) ==
  /\ open /\ b \notin out
  /\ stock' = stock \cup {k} /\ Bytes[stock'] <= Budget
  /\ out' = out \cup {b}
  /\ reads' = [reads EXCEPT ![b] = k]
  /\ UNCHANGED open

Discard(k) ==
  /\ k \in stock /\ \A b \in out : reads[b] # k
  /\ stock' = stock \ {k}
  /\ UNCHANGED <<open, out, reads>>

Return(b) ==
  /\ b \in out
  /\ out' = out \ {b}
  /\ reads' = [reads EXCEPT ![b] = NULL]
  /\ UNCHANGED <<open, stock>>

Close ==
  /\ open
  /\ open' = FALSE /\ stock' = {}
  /\ reads' = [b \in Borrows |-> NULL]
  /\ UNCHANGED out

Next ==
  \/ Open \/ Close
  \/ \E b \in Borrows, k \in Keys : Lend(b, k)
  \/ \E k \in Keys : Discard(k)
  \/ \E b \in Borrows : Return(b)

Spec == Init /\ [][Next]_library
=============================================================================
