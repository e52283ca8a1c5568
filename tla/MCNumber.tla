------------------------------ MODULE MCNumber ------------------------------
(***************************************************************************)
(* JsonNumber with integers of a few bits, and with all the doubles up to  *)
(* and past both ends of either integer type, denser than they are there.  *)
(***************************************************************************)
EXTENDS JsonNumber

DenseDoubles == (1 - Infinity)..(Infinity - 1)
=============================================================================
