---------------------------- MODULE MCRolzCodec ----------------------------
(***************************************************************************)
(* Small instances of RolzCodec.                                           *)
(***************************************************************************)
EXTENDS RolzInv

(* A table that is not its own inverse (for three bytes or more), and ranks *)
(* that move about half way to the front.                                   *)
MCMtfInit == [i \in Byte |-> (i + 1) % NumBytes]
MCMtfNext == [i \in Byte |-> (i + 1) \div 2 - (IF i = 1 THEN 1 ELSE 0)]

(* The code's hash of the little-endian word b3 b2 b1 b0. *)
MCHashContext(b0, b1, b2, b3) ==
  b0 + 256 * b1 + 65536 * b2 + 16777216 * b3 + 137 * b2 + 13337 * b3

(* Every context in one slot, and no help from the check byte. *)
MCHashCollide(b0, b1, b2, b3) == 0

MCOneLevel   == {[depth |-> 2, lazy1 |-> 0, lazy2 |-> 0]}
MCTwoLevels  == {[depth |-> 1, lazy1 |-> 0, lazy2 |-> 0],
                 [depth |-> 3, lazy1 |-> 1, lazy2 |-> 1]}

BlocksOf(n) == {[len |-> n, data |-> d] : d \in [0 .. n - 1 -> Byte]}

(* Long enough for several matches, for a ring of nodes to wrap and for the *)
(* stretch at the end of a block where no match is sought.                  *)
MCLongBlocks == BlocksOf(13)

(* Blocks that are nearly constant, so that two in a row both have matches. *)
MCFlatBlocks ==
  {[len |-> 10, data |-> [k \in 0 .. 9 |-> IF k \in {i, j} THEN 1 ELSE 0]] :
     i \in 0 .. 10, j \in 0 .. 10}

(* Too short for matches: literals and words over three bytes. *)
MCShortBlocks == BlocksOf(0) \cup BlocksOf(1) \cup BlocksOf(5)

MCBlocks == MCFlatBlocks \cup MCShortBlocks
=============================================================================
