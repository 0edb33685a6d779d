------------------------------ MODULE ForkJoin ------------------------------
(***************************************************************************)
(* What qx_row_pool.h promises its caller, without threads or wake-ups: a  *)
(* job over rows 0 .. n-1 hands every row to exactly one callback and      *)
(* returns only after all callbacks have, with failure exactly when one of *)
(* this job's callbacks failed ("Nonzero fails the job after every range   *)
(* has drained").                                                          *)
(***************************************************************************)
EXTENDS Integers

CONSTANT RowCounts

VARIABLES
  phase,    \* "closed" (no pool), "open" (no job) or "running"
  todo,     \* rows no callback has been given yet
  active,   \* rows inside a callback
  bad,      \* a callback of this job has failed
  outcome   \* what the last job returned

vars == <<phase, todo, active, bad, outcome>>

Init == phase = "closed" /\ todo = {} /\ active = {} /\ bad = FALSE /\ outcome = "none"

Open ==
  /\ phase = "closed" /\ phase' = "open"
  /\ UNCHANGED <<todo, active, bad, outcome>>

Close ==
  /\ phase = "open" /\ phase' = "closed"
  /\ UNCHANGED <<todo, active, bad, outcome>>

Refuse ==
  /\ phase # "running"
  /\ outcome' = "invalid"
  /\ UNCHANGED <<phase, todo, active, bad>>

Submit(n) ==
  /\ phase = "open" /\ phase' = "running"
  /\ todo' = 0 .. n - 1
  /\ outcome' = "none"
  /\ UNCHANGED <<active, bad>>

Start(S) ==
  /\ phase = "running"
  /\ todo' = todo \ S /\ active' = active \cup S
  /\ UNCHANGED <<phase, bad, outcome>>

Finish(S, failure) ==
  /\ active' = active \ S
  /\ bad' = (bad \/ failure)
  /\ UNCHANGED <<phase, todo, outcome>>

Join ==
  /\ phase = "running" /\ todo = {} /\ active = {}
  /\ outcome' = IF bad THEN "failed" ELSE "ok"
  /\ bad' = FALSE
  /\ phase' = "open"
  /\ UNCHANGED <<todo, active>>

Next ==
  \/ Open \/ Close \/ Refuse \/ Join
  \/ \E n \in RowCounts : Submit(n)
  \/ \E S \in SUBSET todo : S # {} /\ Start(S)
  \/ \E S \in SUBSET active : S # {} /\ \E failure \in BOOLEAN : Finish(S, failure)

Spec == Init /\ [][Next]_vars
=============================================================================
