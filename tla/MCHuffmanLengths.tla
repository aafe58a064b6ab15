------------------------- MODULE MCHuffmanLengths -------------------------
(***************************************************************************)
(* Small instances of HuffmanLengths.                                      *)
(***************************************************************************)
EXTENDS HuffmanLengths

(* Of up to five symbols any frequencies: none at all, flat, with ties.     *)
MCFew == {f \in [Symbol -> {0, 1, 2, 5}] : \A s \in Symbol : s > 4 => f[s] = 0}

(* Of all symbols, up to order, which only settles ties: from flat to so    *)
(* steep that the tree is too deep and has to be scaled down.               *)
MCRising == {f \in [Symbol -> {1, 2, 3, 5, 8}] : \A s \in Symbol \ {0} : f[s - 1] <= f[s]}

MCFreqTables == MCFew \cup MCRising
=============================================================================
