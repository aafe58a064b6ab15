------------------------------ MODULE RolzBase ------------------------------
(***************************************************************************)
(* What the ROLZ encoder and the ROLZ decoder of libzling_lz.{h,cpp} have  *)
(* in common: the size constants, the ring arithmetic of a bucket, the     *)
(* numbering of the entries of a token buffer and the table of the two     *)
(* words last seen after a byte.                                           *)
(***************************************************************************)
EXTENDS Mtf, Sequences

CONSTANTS
  BucketItemSize,  (* kBucketItemSize = 4096: nodes in the ring of a bucket *)
  MatchMinLen,     (* kMatchMinLen    = 4                                   *)
  MatchMaxLen,     (* kMatchMaxLen    = 259                                 *)
  MatchGap,        (* 16: bytes kept free behind the longest match          *)
  BlockSizeRolz,   (* kBlockSizeRolz  = 262144: entries of a token buffer   *)
  BlockSizeIn      (* kBlockSizeIn    = 16777216: bytes of an input block   *)

ASSUME RolzAssumption ==
  /\ BucketItemSize \in Nat \ {0}
  /\ MatchMinLen \in Nat /\ MatchMinLen >= 3
  /\ MatchMaxLen \in Nat /\ MatchMaxLen >= MatchMinLen
  /\ MatchGap \in Nat /\ MatchGap >= 2
  /\ BlockSizeRolz \in Nat /\ BlockSizeRolz >= 2
  /\ BlockSizeIn \in Nat \ {0}

Node == 0 .. BucketItemSize - 1

(* Fault, for mutation: the ring wraps one node late. *)
RollingAddLate(x, y) == IF x + y > BucketItemSize THEN x + y - BucketItemSize ELSE x + y

(* (x + y) & (kBucketItemSize - 1) and (x - y) & (kBucketItemSize - 1), for *)
(* operands that are nodes and a size that is a power of two.               *)
RollingAdd(x, y) == IF x + y >= BucketItemSize THEN x + y - BucketItemSize ELSE x + y
RollingSub(x, y) == IF x >= y THEN x - y ELSE x - y + BucketItemSize

(***************************************************************************)
(* Entries of a token buffer.  A number below NumBytes is a byte (for the  *)
(* first two bytes of a block) or a move-to-front rank (from the third on);*)
(* the next two numbers stand for a word of word_mru; each higher number   *)
(* for the length of a match, followed by an entry for its distance in     *)
(* nodes from the head of the bucket.                                      *)
(***************************************************************************)
WordCode(slot) == NumBytes + slot
MatchCode(len) == NumBytes + 2 + len - MatchMinLen
IsMatchCode(v) == v >= NumBytes + 2
MatchLen(v)    == v - (NumBytes + 2) + MatchMinLen

(* word_mru: for each byte the two words last seen after it, newest first. *)
Word == Byte \X Byte
MruTable == [Byte -> [{0, 1} -> Word]]
NoWords == [c \in Byte |-> [slot \in {0, 1} |-> <<0, 0>>]]

PushWord(mru, c, w) ==
  [mru EXCEPT ![c] = [slot \in {0, 1} |-> IF slot = 0 THEN w ELSE mru[c][0]]]

(* After a match the word is pushed only when it is not the newest one. *)
PushNewWord(mru, c, w) == IF mru[c][0] = w THEN mru ELSE PushWord(mru, c, w)
=============================================================================
