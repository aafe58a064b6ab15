---------------------------- MODULE MCWordCopy ----------------------------
(***************************************************************************)
(* Copies over distances of up to nine bytes, of four to twelve bytes.     *)
(***************************************************************************)
EXTENDS WordCopy

MCCopies == {[src |-> 2, dst |-> 2 + d, len |-> n] : d \in 1 .. 9, n \in 4 .. 12}
=============================================================================
