--------------------------- MODULE MCChunkCoding ---------------------------
(***************************************************************************)
(* Small instances of ChunkCoding: as in MCEntropyStream, with longer      *)
(* chunks, in which the codes are as frequent as makes trees flat or so    *)
(* deep that they have to be scaled.  The flat ones take the most room,    *)
(* and the output buffer is just as large as RoomAssumption asks for them. *)
(***************************************************************************)
EXTENDS ChunkCoding

MCBlen == [c \in Code2 |-> IF c < 2 THEN 0 ELSE c - 1]

Repeat(n, v) == [i \in 1 .. n |-> v]

(* So many of the codes 0 to 5. *)
Literals(n) ==
  Repeat(n[1], 0) \o Repeat(n[2], 1) \o Repeat(n[3], 2) \o Repeat(n[4], 3) \o Repeat(n[5], 4) \o Repeat(n[6], 5)

MCFlat == <<2, 2, 2, 2, 2, 2>>
MCSteep == <<1, 1, 1, 2, 3, 5>>
MCFew == {n \in [1 .. 6 -> {0, 1, 3}] : n[1] = 0 /\ n[2] = 0 /\ \A i \in 3 .. 5 : n[i] <= n[i + 1]}

MCTokenBuffers ==
  {Literals(n) \o m : n \in {MCSteep} \cup MCFew, m \in {<<>>, <<7, 7>>, <<6, 6, 7, 0, 7, 1>>}}
    \cup {Literals(MCFlat) \o m : m \in {<<6, 4, 6, 5, 7, 6, 7, 7>>, <<6, 0, 7, 1, 7, 2, 7, 7>>}}

(* Nothing but zeros, or bytes that take turns. *)
MCStaleBytes ==
  {[k \in Behind |-> [i \in 1 .. ByteBits |-> 0]],
   [k \in Behind |-> [i \in 1 .. ByteBits |-> k % 2]],
   [k \in Behind |-> [i \in 1 .. ByteBits |-> (k + i) % 2]]}
=============================================================================
