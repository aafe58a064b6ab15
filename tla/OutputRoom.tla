----------------------------- MODULE OutputRoom -----------------------------
(***************************************************************************)
(* How many bits a chunk takes at most once it is coded, by arithmetic     *)
(* alone.  Codes of rescaled weights may be worse than codes of equal      *)
(* length, the more so the more often they were rescaled; but that they    *)
(* are seldom, for a deep Huffman tree is a heavy one.                     *)
(***************************************************************************)
EXTENDS Integers

Fib(n) ==
  LET pair[i \in 0 .. n] ==
        IF i = 0 THEN <<0, 1>> ELSE LET p == pair[i - 1] IN <<p[2], p[1] + p[2]>>
  IN  pair[n][1]

(* A code of so many symbols, none longer than maxlen; no tree lighter than  *)
(* deep has a leaf below that.                                               *)
CodeOf(size, maxlen) == [size |-> size, maxlen |-> maxlen, deep |-> Fib(maxlen + 3)]

(* With their frequencies, total in all, halved k times and rounded up, the  *)
(* symbols do not make a tree that is too deep.                              *)
ShallowEnough(code, total, k) == total < 2 ^ k * (code.deep - code.size) + code.size

(* The bits that total symbols take, if there are no more than 2 ^ l         *)
(* different ones and the tree of their codes was rescaled k times.          *)
CodedBits(total, l, k) == total * l + (2 ^ k - 1) * 2 ^ (l - 1)

(* Whether n symbols of one code and m of another fit into so many bits,     *)
(* whichever they are.  A code of more symbols than the weight of a deep     *)
(* tree might be rescaled any number of times.                               *)
HasRoom(room, code1, n, code2, m) ==
  /\ code1.size <= code1.deep /\ code2.size <= code2.deep
  /\ \E l1 \in 1 .. code1.maxlen : code1.size <= 2 ^ l1 /\
     \E l2 \in 1 .. code2.maxlen : code2.size <= 2 ^ l2 /\
     \E k1 \in 0 .. 15 : ShallowEnough(code1, n, k1) /\
     \E k2 \in 0 .. 15 : ShallowEnough(code2, m, k2) /\
       CodedBits(n, l1, k1) + CodedBits(m, l2, k2) <= room
=============================================================================
