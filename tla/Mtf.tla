-------------------------------- MODULE Mtf --------------------------------
(***************************************************************************)
(* The move-to-front coders of libzling_lz.cpp: ZlingMTFEncoder and        *)
(* ZlingMTFDecoder.  A coder ranks the bytes seen after one context byte;  *)
(* coding a byte swaps it with the byte at rank mtfnext[rank], so that     *)
(* frequent bytes drift towards rank 0.  The encoder keeps the table and   *)
(* its inverse, the decoder the table alone, and nothing but the ranks     *)
(* travels between them.                                                   *)
(***************************************************************************)
EXTENDS Integers

CONSTANTS
  NumBytes,   (* 256 in the code: the number of byte values               *)
  mtfinit,    (* tables/table_mtfinit.inc: the initial table              *)
  mtfnext     (* tables/table_mtfnext.inc: where a coded rank moves to    *)

(* Byte values; they are the ranks of a table as well. *)
Byte == 0 .. NumBytes - 1

ASSUME MtfAssumption ==
  /\ NumBytes \in Nat \ {0}
  /\ mtfinit \in [Byte -> Byte]
  /\ \A c \in Byte : \E i \in Byte : mtfinit[i] = c
  /\ \A i, j \in Byte : mtfinit[i] = mtfinit[j] => i = j
  /\ mtfnext \in [Byte -> Byte]

(* std::swap of two entries of an array. *)
SwapAt(f, a, b) == [f EXCEPT ![a] = f[b], ![b] = f[a]]

(* m_table and m_index of an encoder. *)
MtfCoder == [table : [Byte -> Byte], index : [Byte -> Byte]]

(* The constructor of ZlingMTFEncoder. *)
MtfEncoderInit ==
  [table |-> mtfinit,
   index |-> [c \in Byte |-> CHOOSE i \in Byte : mtfinit[i] = c]]

(* The constructor of ZlingMTFDecoder. *)
MtfDecoderInit == mtfinit

(* What ZlingMTFEncoder::Encode(c) returns, and the encoder it leaves. *)
MtfRank(m, c) == m.index[c]

MtfEncode(m, c) ==
  LET i == m.index[c]
  IN  [table |-> SwapAt(m.table, i, mtfnext[i]),
       index |-> SwapAt(m.index, c, m.table[mtfnext[i]])]

(* What ZlingMTFDecoder::Decode(i) returns, and the table it leaves. *)
MtfByte(t, i) == t[i]

(* Fault, for mutation: the decoder forgets to move the byte. *)
MtfDecodeStill(t, i) == t

MtfDecode(t, i) == SwapAt(t, i, mtfnext[i])

(* An encoder's index is the inverse of its table. *)
MtfConsistent(m) ==
  /\ \A c \in Byte : m.table[m.index[c]] = c
  /\ \A i \in Byte : m.index[m.table[i]] = i
=============================================================================
