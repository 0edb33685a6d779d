----------------------------- MODULE TopTokens ------------------------------
(***************************************************************************)
(* The list of the best tokens that every head of the program fills while  *)
(* it scans the vocabulary in token order (qx_reduce_final_head_logits and *)
(* the same loop in the other heads).  The first entry is the token a      *)
(* greedy run emits, and the sampler draws from the others, so the order   *)
(* of equal logits decides what is generated.                              *)
(*                                                                         *)
(* A logit is an integer that stands for a double; the heads refuse        *)
(* results that are not finite.  Lowest is the -1e300 the list starts      *)
(* with, below every logit of float32 weights.                             *)
(***************************************************************************)
EXTENDS Integers, Sequences

CONSTANTS
  Logits,     \* the values a row of the output matrix can give
  Lowest,     \* the initial logit of an entry
  MaxVocab,   \* bound on the vocabulary
  MaxTop      \* 32 in the code; top_n is clamped to it

ASSUME TopTokensAssumption ==
  /\ Logits \subseteq Int
  /\ Lowest \in Int
  /\ \A l \in Logits : Lowest < l
  /\ MaxVocab \in Nat /\ MaxTop \in Nat

VARIABLES
  logits,    \* logits[t+1] is the logit of token t
  scanned,   \* number of tokens looked at
  top        \* the list, best first

topVars == <<logits, scanned, top>>

Filler == [token |-> 0, logit |-> Lowest]

(* top_n may exceed the vocabulary: entries then stay fillers.             *)
TopInit ==
  /\ logits \in UNION { [1 .. v -> Logits] : v \in 1 .. MaxVocab }
  /\ scanned = 0
  /\ \E n \in 1 .. MaxTop : top = [r \in 1 .. n |-> Filler]

(***************************************************************************)
(* Mutant of Beats: a tie goes to the later token.                         *)
(***************************************************************************)
BeatsOrTies(logit, entry) == logit >= entry.logit

\* An entry gives way to a strictly larger logit only.
Beats(logit, entry) == logit > entry.logit

(* The new entry takes the first rank it beats, the entries from there on  *)
(* move one back and the last one drops out.                               *)
Insert(list, token, logit) ==
  LET placed(r) == \E s \in 1 .. r : Beats(logit, list[s])   \* at or before r
  IN [r \in 1 .. Len(list) |->
        IF ~placed(r) THEN list[r]
        ELSE IF ~placed(r - 1) THEN [token |-> token, logit |-> logit]
        ELSE list[r - 1]]

ScanToken ==
  /\ scanned < Len(logits)
  /\ scanned' = scanned + 1
  /\ top' = Insert(top, scanned, logits[scanned + 1])
  /\ UNCHANGED logits

TopNext == ScanToken
TopSpec == TopInit /\ [][TopNext]_topVars

-----------------------------------------------------------------------------
\* Larger logits first, the earlier token first among equals.
Precedes(a, b) ==
  \/ a.logit > b.logit
  \/ a.logit = b.logit /\ a.token < b.token

\* The number of entries that hold a token.
Held == IF scanned < Len(top) THEN scanned ELSE Len(top)

(* After any number of tokens the list holds the best of them, in order,   *)
(* each once and with its own logit: no token left out precedes one held,  *)
(* and fillers stand only behind a vocabulary that is shorter than the     *)
(* list.  (The insertion of qx_reduce_final_head_logits.)                  *)
TopIsBest ==
  /\ \A r \in 1 .. Len(top) :
       IF r <= Held
       THEN top[r].token \in 0 .. scanned - 1 /\ top[r].logit = logits[top[r].token + 1]
       ELSE top[r] = Filler
  /\ \A r, s \in 1 .. Held : r < s => Precedes(top[r], top[s])
  /\ \A t \in 0 .. scanned - 1 :
       \/ \E r \in 1 .. Held : top[r].token = t
       \/ /\ Held = Len(top)
          /\ \A r \in 1 .. Held :
               Precedes(top[r], [token |-> t, logit |-> logits[t + 1]])
=============================================================================
