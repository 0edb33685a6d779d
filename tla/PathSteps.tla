------------------------------ MODULE PathSteps ------------------------------
(****************************************************************************)
(* The vocabulary in which the resource paths of the C functions are        *)
(* written.  A path is the sequence of the steps a function takes, with     *)
(* everything left out except what it acquires, what it needs to be still   *)
(* held, what it releases, and where it can fail.  Each operator below      *)
(* gives a sequence of steps, so that paths are joined with \o.  Jumps are  *)
(* relative: a joined path needs no renumbering.                            *)
(*                                                                          *)
(* A resource is named by the C variable that holds it.                     *)
(****************************************************************************)
EXTENDS Integers, Sequences

LOCAL Step(kind, names, undo, by) ==
    <<[kind |-> kind, names |-> names, undo |-> undo, by |-> by]>>

(****************************************************************************)
(* Acquire the resources rs together and check them together; when one is   *)
(* missing, release those in undo, in that order, and return the error.     *)
(****************************************************************************)
Get(rs, undo) == Step("get", rs, undo, 0)

(****************************************************************************)
(* Checks or calls that need rs and may fail; failing releases undo and     *)
(* returns the error.                                                       *)
(****************************************************************************)
Call(rs, undo) == Step("call", rs, undo, 0)

(* Work that needs rs and cannot fail.                                      *)
Use(rs) == Step("use", rs, <<>>, 0)

(* Release the resources of a sequence, in that order.                      *)
Drop(undo) == Step("drop", {}, undo, 0)

(* The same, and every pointer is set to NULL.                              *)
Clear(undo) == Step("clear", {}, undo, 0)

(* The resource held in `from` is from now on the one of `to`.              *)
Move(from, to) == Step("move", {from}, <<to>>, 0)

LOCAL Jump(n) == Step("jump", {}, <<>>, n)
LOCAL Branch(n) == Step("branch", {}, <<>>, n)

(* A part that is taken or not, as the arguments or the data have it.       *)
Maybe(path) == Branch(Len(path) + 1) \o path

(* One of two parts.                                                        *)
Either(path, other) ==
    Branch(Len(path) + 2) \o path \o Jump(Len(other) + 1) \o other

(* A part repeated any number of times, none included.                      *)
Loop(path) == Branch(Len(path) + 2) \o path \o Jump(-(Len(path) + 1))

(* A part that is there only under an option of the caller's.               *)
When(option, path) == IF option THEN path ELSE <<>>

(* The function: its steps, and what a successful call leaves its caller.   *)
Path(steps, gives) == [steps |-> steps, gives |-> gives]

(* A function that hands nothing to its caller.                             *)
Closed(steps) == Path(steps, {})
==============================================================================
