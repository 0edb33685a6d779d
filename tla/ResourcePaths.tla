---------------------------- MODULE ResourcePaths ----------------------------
(****************************************************************************)
(* What a function holds while it runs: memory, open files, mappings,       *)
(* threads and device objects.  The functions of this code release by hand, *)
(* in a list written out again at every early return; "every allocation     *)
(* needs a matching release on all error paths" (CONTRIBUTING.md:12).  A    *)
(* behaviour runs one function after another along its path, every          *)
(* acquisition and every fallible call failing at every place it can.       *)
(*                                                                          *)
(* A call to another function of the project appears with that function's   *)
(* own promise, which is checked on its own path: it holds nothing when it  *)
(* fails, and what it `gives` when it succeeds.                             *)
(****************************************************************************)
EXTENDS PathSteps, SequencesExt

CONSTANTS
    Body,           \* the path of each function
    SelfClearing,   \* resources whose release also resets the handle
    Reads           \* what a held resource reads as long as it is held

VARIABLES
    routine,        \* the function that runs or ran last
    at,             \* its next step
    held,           \* the resources acquired and not yet released
    dangling,       \* released, with the pointer still set
    misused,        \* what was done to a resource that does not allow it
    result          \* "running", "ok" or "failed"

vars == <<routine, at, held, dangling, misused, result>>

Start(r) ==
    /\ routine = r /\ at = 1
    /\ held = {} /\ dangling = {} /\ misused = {}
    /\ result = "running"

Init == \E r \in DOMAIN Body : Start(r)

step == Body[routine].steps[at]

Running(kind) ==
    /\ result = "running"
    /\ at <= Len(Body[routine].steps)
    /\ step.kind = kind

(* free(NULL) does nothing, and so does the release of a handle that was    *)
(* reset; releasing through a dangling pointer is the double release.       *)
Twice(undo, loose) ==
    {undo[i] : i \in {j \in DOMAIN undo :
                        \/ undo[j] \in loose
                        \/ /\ undo[j] \notin SelfClearing
                           /\ \E k \in 1..(j - 1) : undo[k] = undo[j]}}

(* What is released while something still held reads it: a file under a     *)
(* view of it, a buffer under a thread that works on it.                    *)
InUse(undo, holding) ==
    {undo[i] : i \in {j \in DOMAIN undo :
                        \E user \in (DOMAIN Reads \cap holding)
                                      \ {undo[k] : k \in 1..(j - 1)} :
                           undo[j] \in Reads[user] \cap holding}}

Misused(undo, holding, loose) ==
    {<<"released twice", n>> : n \in Twice(undo, loose)}
    \cup {<<"released in use", n>> : n \in InUse(undo, holding)}

Released(undo) ==
    /\ held' = held \ Range(undo)
    /\ misused' = misused \cup Misused(undo, held, dangling)

Fail(undo) ==
    /\ Released(undo)
    /\ result' = "failed"
    /\ UNCHANGED <<routine, at, dangling>>

GoOn == at' = at + 1 /\ UNCHANGED <<routine, result>>

Overwritten == {<<"overwritten", n>> : n \in step.names \cap held}

Obtain ==
    /\ Running("get")
    /\ held' = held \cup step.names
    /\ dangling' = dangling \ step.names
    /\ misused' = misused \cup Overwritten
    /\ GoOn

(* Every acquisition of the group was made except one: what is released is  *)
(* the group and more, so a smaller part of the group leaves less behind.   *)
ObtainFails ==
    /\ Running("get")
    /\ \E missing \in step.names :
         LET holding == held \cup (step.names \ {missing})
         IN  /\ held' = holding \ Range(step.undo)
             /\ misused' = misused \cup Overwritten
                            \cup Misused(step.undo, holding, dangling \ step.names)
    /\ result' = "failed"
    /\ UNCHANGED <<routine, at, dangling>>

Needed == {<<"not held", n>> : n \in step.names \ held}

CallSucceeds ==
    /\ Running("call") \/ Running("use")
    /\ misused' = misused \cup Needed
    /\ UNCHANGED <<held, dangling>>
    /\ GoOn

CallFails == Running("call") /\ Fail(step.undo)

Release ==
    /\ Running("drop") \/ Running("clear")
    /\ Released(step.undo)
    /\ dangling' = IF step.kind = "clear" THEN dangling \ Range(step.undo)
                   ELSE dangling \cup ((Range(step.undo) \cap held) \ SelfClearing)
    /\ GoOn

Transfer ==
    /\ Running("move")
    /\ held' = (held \ step.names) \cup Range(step.undo)
    /\ dangling' = dangling \ (step.names \cup Range(step.undo))
    /\ misused' = misused \cup Needed
                   \cup {<<"overwritten", n>> : n \in Range(step.undo) \cap held}
    /\ GoOn

Turn ==
    /\ \/ Running("jump") /\ at' = at + step.by
       \/ Running("branch") /\ at' \in {at + 1, at + step.by}
    /\ UNCHANGED <<routine, held, dangling, misused, result>>

Return ==
    /\ result = "running"
    /\ at = Len(Body[routine].steps) + 1
    /\ result' = "ok"
    /\ UNCHANGED <<routine, at, held, dangling, misused>>

(* The next call: of any function, with nothing carried over.               *)
CallAgain ==
    /\ result # "running"
    /\ \E r \in DOMAIN Body : routine' = r
    /\ at' = 1
    /\ held' = {} /\ dangling' = {} /\ misused' = {}
    /\ result' = "running"

Next ==
    \/ Obtain \/ ObtainFails \/ CallSucceeds \/ CallFails
    \/ Release \/ Transfer \/ Turn \/ Return \/ CallAgain

Spec == Init /\ [][Next]_vars

------------------------------------------------------------------------------
(****************************************************************************)
(* "Every allocation needs a matching release on all error paths": a        *)
(* function that has failed holds nothing, and one that has succeeded holds *)
(* exactly what it hands to its caller.                                     *)
(****************************************************************************)
NothingLeaks ==
    /\ result = "failed" => held = {}
    /\ result = "ok" => held = Body[routine].gives

(****************************************************************************)
(* No early return releases a buffer for the second time, no work is done   *)
(* with a buffer, file or handle that is not held, and no pointer to one    *)
(* that is still held is overwritten.                                       *)
(****************************************************************************)
NothingMisused == misused = {}
==============================================================================
