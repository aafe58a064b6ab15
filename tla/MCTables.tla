------------------------------ MODULE MCTables ------------------------------
(***************************************************************************)
(* Tables at the size they have in the code.                               *)
(***************************************************************************)
EXTENDS Tables, OutputRoom

MCBucketItemSize == 4096

(* What ChunkCoding assumes of the size of the output buffer is so for the   *)
(* sizes of the code: 393216 bytes of output, 262144 entries of a token      *)
(* buffer of which m and m more are matches, codes of 514 and 32 symbols,    *)
(* and up to 8 extra bits.                                                   *)
ASSUME MCRoom ==
  LET code1 == CodeOf(514, HuffmanMaxLen1)
      code2 == CodeOf(32, HuffmanMaxLen2)
  IN  \A m \in 0 .. 131072 :
        HasRoom((393216 - (514 + 32) \div 2) * 8 - m * 8, code1, 262144 - m, code2, m)
=============================================================================
