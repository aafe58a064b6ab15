-------------------------- MODULE MCEntropyStream --------------------------
(***************************************************************************)
(* Small instances of EntropyStream: two literals, two words, two lengths  *)
(* of matches, and distances from 0 to 7 in four codes.  The longest codes *)
(* of a match with its extra bits take one bit less than is fetched at a   *)
(* time, as 15 + 8 + 8 bits and 32 do in the code.                         *)
(***************************************************************************)
EXTENDS EntropyStream

MCBlen == [c \in Code2 |-> IF c < 2 THEN 0 ELSE c - 1]

(* Tokens: a literal, and two matches with and without extra bits. *)
MCTokens == {<<0>>, <<3>>, <<4, 1>>, <<5, 3>>, <<5, 6>>}

MCTokenBuffers ==
  {<<>>} \cup MCTokens \cup {t \o u : t, u \in MCTokens}
    \cup {t \o u \o v : t, u, v \in {<<0>>, <<5, 3>>, <<5, 6>>}}

(* Bytes of two kinds behind the end, which take turns. *)
MCStaleBytes ==
  {[k \in Behind |-> IF k % 2 = 1 THEN a ELSE [i \in 1 .. ByteBits |-> b]] : a \in Byte, b \in {0, 1}}
=============================================================================
