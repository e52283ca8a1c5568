------------------------------ MODULE TextPass ------------------------------
(***************************************************************************)
(* What a pass over a text promises, and nothing of how it does it: a text *)
(* that has a meaning is answered with that meaning, any other text is     *)
(* rejected, an answer is final and there always is one.  The lexer is a   *)
(* pass over characters whose meaning is their tokens; the parser is a     *)
(* pass over tokens whose meaning is a value.                              *)
(***************************************************************************)
CONSTANTS
  Sentences,  \* the texts that have a meaning
  Meaning     \* the pairs <<sentence, its meaning>>

VARIABLES text, outcome

Pending == [kind |-> "pending"]
Rejected == [kind |-> "rejected"]

Init == outcome = Pending

Accept ==
  /\ outcome = Pending
  /\ outcome'.kind = "accepted"
  /\ <<text, outcome'.value>> \in Meaning
  /\ UNCHANGED text

Reject ==
  /\ outcome = Pending
  /\ outcome' = Rejected
  /\ text \notin Sentences
  /\ UNCHANGED text

Next == Accept \/ Reject
Answered == <>(outcome # Pending)

\* Its safety, and all of it.
SafeSpec == Init /\ [][Next]_<<text, outcome>>
Spec == SafeSpec /\ Answered
=============================================================================
