--------------------------- MODULE MCFileStreams ---------------------------
(***************************************************************************)
(* Small instances of FileStreams: bytes of two values, ints of three.     *)
(***************************************************************************)
EXTENDS FileStreams

Flag(v) == [kind |-> "flag", v |-> <<v>>]
Number(v) == [kind |-> "int", v |-> <<v>>]
Data(v) == [kind |-> "data", v |-> v]

(* A chunk as Encode writes it, with the rlen of -1 of an unknown level; two *)
(* ints in a row; a piece of data and the flag of the next chunk.            *)
MCScripts ==
  {<<Flag(1), Number(n), Data(<<1, 0>>)>> : n \in {-1, 3}}
    \cup {<<Number(2), Number(-4)>>, <<Data(<<1, 1>>), Flag(0)>>}
=============================================================================
