---------------------------- MODULE CommonLength ----------------------------
(***************************************************************************)
(* GetCommonLength of libzling_lz.cpp, which compares two stretches of the *)
(* block four bytes at a time, then two, then one.  RolzEncoder uses what  *)
(* it is meant to compute; this module shows that it computes that.  Of    *)
(* the bytes only matters which of them agree.                             *)
(***************************************************************************)
EXTENDS Integers

CONSTANTS
  MaxLen,     (* maxlen: kMatchMaxLen = 259                              *)
  Agreements  (* for each place, whether the two stretches agree there   *)

ASSUME CommonLengthAssumption ==
  /\ MaxLen \in Nat /\ MaxLen >= 4
  /\ Agreements \subseteq [0 .. MaxLen - 1 -> BOOLEAN]

VARIABLES
  agree,   (* the agreement at hand                   *)
  p,       (* p1 - buf1, and p2 - buf2                *)
  maxlen,  (* how far p may yet go                    *)
  stage    (* what is compared next                   *)

compareVars == <<agree, p, maxlen, stage>>

(* The n bytes from p on agree. *)
Same(n) == \A k \in p .. p + n - 1 : agree[k]

CompareInit == agree \in Agreements /\ p = 0 /\ maxlen = MaxLen /\ stage = "first"

(* No match at all without four bytes that agree. *)
CompareFirst ==
  /\ stage = "first"
  /\ stage' = IF Same(4) THEN "words" ELSE "done"
  /\ UNCHANGED <<agree, p, maxlen>>

Advance(n) == p' = p + n /\ maxlen' = maxlen - n

(* Fault, for mutation: a comparison that would just fit is left out. *)
RoomForMore(n) == maxlen > n

RoomFor(n) == maxlen >= n

CompareWord ==
  /\ stage = "words"
  /\ IF RoomFor(4) /\ Same(4) THEN Advance(4) /\ stage' = stage
     ELSE stage' = "half" /\ UNCHANGED <<p, maxlen>>
  /\ UNCHANGED agree

CompareHalf ==
  /\ stage = "half"
  /\ IF RoomFor(2) /\ Same(2) THEN Advance(2) ELSE UNCHANGED <<p, maxlen>>
  /\ stage' = "byte"
  /\ UNCHANGED agree

CompareByte ==
  /\ stage = "byte"
  /\ IF RoomFor(1) /\ Same(1) THEN Advance(1) ELSE UNCHANGED <<p, maxlen>>
  /\ stage' = "done"
  /\ UNCHANGED agree

Compared == stage = "done" /\ UNCHANGED compareVars

CompareNext == CompareFirst \/ CompareWord \/ CompareHalf \/ CompareByte \/ Compared

CompareSpec == CompareInit /\ [][CompareNext]_compareVars
-----------------------------------------------------------------------------
TypeOK ==
  /\ agree \in Agreements
  /\ p \in 0 .. MaxLen /\ maxlen = MaxLen - p
  /\ stage \in {"first", "words", "half", "byte", "done"}

(* The result is the number of bytes that agree from the start, MaxLen at    *)
(* most, or zero when those are fewer than four: no match is cut short by    *)
(* the width of a comparison, and none is made longer.                       *)
ExactLength ==
  stage = "done" =>
    IF \A k \in 0 .. 3 : agree[k]
    THEN /\ \A k \in 0 .. p - 1 : agree[k]
         /\ p < MaxLen => ~agree[p]
    ELSE p = 0
=============================================================================
