------------------------------- MODULE Tables -------------------------------
(***************************************************************************)
(* The tables of tables/gen.py, at the size they have.  The loop over      *)
(* distances is a state machine; the ranks of the move-to-front coders are *)
(* constants, of which Mtf has a use and an assumption.  An element of a   *)
(* list of the script stands one place later here, lists beginning with 1. *)
(***************************************************************************)
EXTENDS Integers, Sequences

CONSTANTS
  BucketItemSize,   (* kBucketItemSize: distances    *)
  HuffmanMaxLen1, HuffmanMaxLen2,  (* the longest codes *)
  RefillBits        (* 32: what Decode fetches before a token *)

(* A bucket is as large as a number of codes reach, those with eight extra   *)
(* bits included; there are codes enough for them, and bits.                 *)
ASSUME TablesAssumption ==
  /\ BucketItemSize \in Nat /\ BucketItemSize >= 512 /\ BucketItemSize % 256 = 0
  /\ HuffmanMaxLen1 \in Nat /\ HuffmanMaxLen2 \in Nat /\ RefillBits \in Nat
  /\ BucketItemSize <= 512 + 256 * (2 ^ HuffmanMaxLen2 - 18)
  /\ HuffmanMaxLen1 + HuffmanMaxLen2 + 8 <= RefillBits

VARIABLES
  code,   (* matchidx_code *)
  base,   (* matchidx_base *)
  bits    (* extra bits gone through of the code being made *)

tableVars == <<code, base, bits>>

(* Fault, for mutation: extra bits double the reach of each pair of codes. *)
GrowingBlen(c) == IF c < 4 THEN 0 ELSE (c - 2) \div 2

(* matchidx_blen *)
Blen(c) == IF c < 4 THEN 0 ELSE IF c < 18 THEN (c - 2) \div 2 ELSE 8

TablesInit == code = <<>> /\ base = <<>> /\ bits = 0

NextCode == Len(base)
Complete == bits = 0 /\ Len(code) >= BucketItemSize

AppendCode ==
  /\ ~Complete /\ bits < 2 ^ Blen(NextCode)
  /\ code' = Append(code, NextCode)
  /\ bits' = bits + 1
  /\ UNCHANGED base

(* Fault, for mutation: where the code ends instead. *)
BaseBehind(len, n) == len

BaseOf(len, n) == len - n

AppendBase ==
  /\ bits = 2 ^ Blen(NextCode)
  /\ base' = Append(base, BaseOf(Len(code), bits))
  /\ bits' = 0
  /\ UNCHANGED code

TablesDone == Complete /\ UNCHANGED tableVars

TablesNext == AppendCode \/ AppendBase \/ TablesDone

TablesSpec == TablesInit /\ [][TablesNext]_tableVars

(* The bytes in the order of how often a text has them. *)
bytesByFrequency == <<
     32, 101, 116,  97, 105, 111, 110, 114, 115, 108, 104, 100,  99, 117,  93,  91,
    109, 112, 103, 102,  10, 121,  98,  39, 119,  46,  44, 118,  59,  38, 124,  47,
     49, 107,  61,  48,  67,  65,  58,  45,  84,  83,  60,  62,  50, 113,  73,  57,
     42, 120,  41,  40,  66,  77,  80,  69,  68,  53,  51,  72,  70,  56,  52,  71,
     82,  54,  76,  55,  78,  87, 122, 125, 123,  79, 106,  85,  74,  75, 208,  95,
    195,  35,  86, 215,  90,  34,  89, 209, 128, 224, 184, 131,  92, 227,  37,  33,
    176, 169, 206, 226, 130,  63,  88,  81, 161, 153,  43, 129, 188, 179, 216, 164,
    181, 189, 148, 190, 173, 187, 186, 229, 225, 167, 217, 177, 178, 168, 149, 185,
    197, 144, 147, 196, 207, 194, 180, 156, 132, 170, 166, 136, 182, 191,   9, 230,
    141, 160, 175,  36, 152, 140, 165, 145,  94, 133, 163, 183, 171, 157, 137, 174,
    134, 135, 236, 151, 231, 155, 201, 158, 138, 143, 150, 162, 159, 139, 172, 154,
    126, 232, 235, 146, 233, 228, 202, 203, 142, 214, 237, 204, 219, 234, 213,  96,
    218, 199,  64, 210, 239, 198, 211, 205, 212, 240, 222, 220, 200,   0,   1,   2,
      3,   4,   5,   6,   7,   8,  11,  12,  13,  14,  15,  16,  17,  18,  19,  20,
     21,  22,  23,  24,  25,  26,  27,  28,  29,  30,  31, 127, 192, 193, 221, 223,
    238, 241, 242, 243, 244, 245, 246, 247, 248, 249, 250, 251, 252, 253, 254, 255>>

(* table_mtfinit *)
mtfinit == [i \in 0 .. 255 |-> bytesByFrequency[i + 1]]

(* Fault, for mutation: low ranks move up a place rather than down a tenth. *)
StuckRank(i) == IF i < 128 THEN (i * 100 + 50) \div 100 ELSE (i * 55) \div 100

(* table_mtfnext; the products of the script, rounded down, come out so. *)
NextRank(i) == IF i < 128 THEN (i * 95) \div 100 ELSE (i * 55) \div 100

Mtf == INSTANCE Mtf WITH NumBytes <- 256, mtfinit <- mtfinit, mtfnext <- [i \in 0 .. 255 |-> NextRank(i)]
-----------------------------------------------------------------------------
(* Encode codes a distance as its code and what is left above the base in    *)
(* that code's extra bits, and Decode adds up: at any time the distances     *)
(* done so far come back, and when the script ends there is one code for     *)
(* each distance of a bucket and none beyond.                                *)
DistanceComesBack ==
  /\ bits = 0 /\ base # <<>> =>
       LET c == Len(base)
       IN  /\ base[c] + 2 ^ Blen(c - 1) = Len(code)
           /\ \A d \in base[c] .. Len(code) - 1 : code[d + 1] = c - 1
           /\ c > 1 => base[c - 1] + 2 ^ Blen(c - 2) = base[c]
  /\ Complete => Len(code) = BucketItemSize

(* There are not too many codes for codes of the greatest length, and a      *)
(* match with the longest codes and the most extra bits fits into what       *)
(* Decode fetches before it looks at a token.                                *)
TablesFit ==
  Complete =>
    /\ Len(base) <= 2 ^ HuffmanMaxLen2
    /\ \A c \in 0 .. Len(base) - 1 : HuffmanMaxLen1 + HuffmanMaxLen2 + Blen(c) <= RefillBits

(* The tables of ranks are what the proofs about the coders assume of them,  *)
(* and a byte that is coded again and again sinks until it has rank 0.       *)
RanksAreRanks ==
  Complete => Mtf!MtfAssumption /\ \A i \in 1 .. 255 : NextRank(i) < i
=============================================================================
