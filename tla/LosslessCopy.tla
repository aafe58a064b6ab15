---------------------------- MODULE LosslessCopy ----------------------------
(***************************************************************************)
(* What an encoder and a decoder, taken together, promise: a channel that  *)
(* takes one input at a time and delivers it, a piece at a time and in     *)
(* order, before it takes the next.  Inputs are functions on 0 .. n-1.     *)
(***************************************************************************)
EXTENDS Integers

CONSTANT Inputs   (* what may be sent *)

VARIABLES
  in,    (* the input being sent       *)
  out    (* what has been delivered    *)

vars == <<in, out>>

Empty == [i \in {} |-> 0]

Init == in = Empty /\ out = Empty

Send ==
  /\ out = in
  /\ in' \in Inputs
  /\ out' = Empty

(* What is delivered grows up to and including position n. *)
Deliver ==
  \E n \in DOMAIN in :
    /\ n \notin DOMAIN out
    /\ DOMAIN out \subseteq 0 .. n
    /\ out' = [i \in 0 .. n |-> in[i]]
    /\ UNCHANGED in

Next == Send \/ Deliver

(* Safety: nothing but a prefix of the input is ever delivered. *)
Spec == Init /\ [][Next]_vars

(* Liveness: what is sent is delivered. *)
LiveSpec == Spec /\ []<>(out = in)
=============================================================================
