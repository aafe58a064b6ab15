--------------------------- MODULE HuffmanTables ---------------------------
(***************************************************************************)
(* The code tables of libzling_huffman.cpp as functions of a length table: *)
(* ZlingMakeEncodeTable numbers the symbols canonically and reverses each  *)
(* number, so that codes are read from their lowest bit;                   *)
(* ZlingMakeDecodeTable turns that round.  Admissible says what length     *)
(* tables ZlingMakeLengthTable may produce, and is checked of it in        *)
(* HuffmanLengths.                                                         *)
(***************************************************************************)
EXTENDS Integers, FiniteSetsExt, OutputRoom

(* kHuffmanMaxLen1 and kHuffmanMaxLen2 must be below the width of a code. *)
CodeWidth == 16

NoSymbol == 65535   (* uint16_t(-1) *)

(* The symbols whose length is l. *)
OfLength(length, l) == {s \in DOMAIN length : length[s] = l}

(* The codes of a length table, taken as stretches of 0 .. 2^maxlen - 1: how *)
(* much of it those of each length and the shorter ones take.                *)
KraftSum(length, maxlen) ==
  LET sum[l \in 0 .. maxlen] ==
        IF l = 0 THEN 0 ELSE sum[l - 1] + Cardinality(OfLength(length, l)) * 2 ^ (maxlen - l)
  IN  sum

(* Every symbol that occurs gets a code, none longer than maxlen, and the   *)
(* codes of all of them fit.                                                *)
Admissible(freq, length, maxlen) ==
  /\ \A s \in DOMAIN freq : length[s] \in 0 .. maxlen /\ (freq[s] > 0 <=> length[s] > 0)
  /\ KraftSum(length, maxlen)[maxlen] <= 2 ^ maxlen

(* "code" as the loop over code lengths comes to each length. *)
FirstCode(length, maxlen) ==
  LET code[l \in 1 .. maxlen] ==
        IF l = 1 THEN 0 ELSE 2 * (code[l - 1] + Cardinality(OfLength(length, l - 1)))
  IN  code

Canonical(length, maxlen, s) ==
  FirstCode(length, maxlen)[length[s]]
    + Cardinality({t \in OfLength(length, length[s]) : t < s})

(* The bits of a code of n bits, in reverse. *)
Bit(x, i) == (x \div 2 ^ i) % 2
ReverseBits(x, n) ==
  LET y[k \in 0 .. n] == IF k = 0 THEN 0 ELSE 2 * y[k - 1] + Bit(x, k - 1)
  IN  y[n]

(* Fault, for mutation: codes are left with their highest bit first. *)
EncodeTableUnreversed(length, maxlen) ==
  [s \in DOMAIN length |-> IF length[s] \in 1 .. maxlen THEN Canonical(length, maxlen, s) ELSE 0]

(* ZlingMakeEncodeTable *)
EncodeTable(length, maxlen) ==
  [s \in DOMAIN length |->
     IF length[s] \in 1 .. maxlen THEN ReverseBits(Canonical(length, maxlen, s), length[s]) ELSE 0]

(* The entries of a decode table for maxlen bits that symbol s fills. *)
Fills(length, encode, maxlen, s, i) ==
  /\ length[s] \in 1 .. maxlen
  /\ i >= encode[s] /\ (i - encode[s]) % 2 ^ length[s] = 0

(* ZlingMakeDecodeTable: of two symbols that fill an entry the later stays. *)
DecodeTable(length, encode, maxlen) ==
  [i \in 0 .. 2 ^ maxlen - 1 |->
     LET S == {s \in DOMAIN length : Fills(length, encode, maxlen, s, i)}
     IN  IF S = {} THEN NoSymbol ELSE Max(S)]
=============================================================================
