----------------------------- MODULE HostProofs -----------------------------
(***************************************************************************)
(* What Encode and Decode have from their host.                            *)
(*                                                                         *)
(* Memory: what they take from the heap they give back, for trees of any   *)
(* size and any number of them (FreedOnce, OnlyHalfTreesLeak), by an       *)
(* invariant that says where each member and each node stands.             *)
(*                                                                         *)
(* Files: for bytes of any width, ints of any number of bytes and any      *)
(* items, and a disk that fails and recovers at will, no loss goes unseen  *)
(* (LossIsTold), what a failed Encode leaves behind is its stream cut      *)
(* short (HoleIsShort), and what is whole in a file is read as it was      *)
(* written (WhatIsWholeComesBack), by an invariant that says how far file  *)
(* and buffer agree with what has been put, and that Decode stands in the  *)
(* file where the items it got end.                                        *)
(*                                                                         *)
(* Tables: for buckets of any size that a number of codes reach, the       *)
(* generated tables of distances agree (DistanceComesBack) and there are   *)
(* not too many codes (TablesFit), by an invariant that says which         *)
(* distances each code made so far is for; and the tables of ranks are     *)
(* what the move-to-front coders need (RanksAreRanks).                     *)
(***************************************************************************)
EXTENDS FileStreams, Resources, Tables, SequenceTheorems, TLAPS

(* Its powers of two, and its induction for functions along the numbers. *)
Numbers == INSTANCE HuffmanTablesProofs
-----------------------------------------------------------------------------
(***************************************************************************)
(* Memory.                                                                 *)
(***************************************************************************)
ResourcesTypes ==
  /\ encoding \in BOOLEAN
  /\ news \in [Member -> Nat] /\ frees \in [Member -> Nat]
  /\ next \in 0 .. Len(Members)
  /\ leaves \in 0 .. MaxLeaves /\ nodes \in Nat /\ leaked \in Nat /\ trees \in Nat
  /\ ended \in {"no", "return", "exception", "bad_alloc"}
  /\ pc \in {"allocate", "catch", "body", "tree", "destroy", "ended"}

(* The members before next have been allocated once, the others not at all;  *)
(* they are deleted all at once, in the step that ends the call.             *)
MembersInv ==
  /\ \A i \in 1 .. Len(Members) : news[Members[i]] = IF i <= next THEN 1 ELSE 0
  /\ frees = IF pc = "ended" THEN news ELSE [m \in Member |-> 0]

(* There are nodes only while a tree is being built, and no more than it     *)
(* gets.  Where some have been lost, the call is on its way out.             *)
TreeInv ==
  /\ pc = "tree" => leaves > 0 /\ nodes <= 2 * leaves - 1
  /\ pc # "tree" => nodes = 0
  /\ leaked > 0 =>
       /\ pc \in {"destroy", "ended"} /\ ended = "bad_alloc"
       /\ leaked <= 2 * leaves - 1

ResourcesInv == ResourcesTypes /\ MembersInv /\ TreeInv

(* The four members have four names. *)
LEMMA MembersDiffer ==
  /\ Len(Members) = 4 /\ \A i \in 1 .. 4 : Members[i] \in Member
  /\ \A m \in Member : \E i \in 1 .. 4 : m = Members[i]
  /\ \A i, j \in 1 .. 4 : Members[i] = Members[j] => i = j
<1>1. Len(Members) = 4 /\ Members = <<"ibuf", "obuf", "tbuf", "lz">>
  BY DEF Members
<1>2. \A i, j \in 1 .. 4 : Members[i] = Members[j] => i = j
  BY <1>1
<1> QED
  BY <1>1, <1>2 DEF Member

(* DeleteAll deletes each member as often as it was allocated. *)
LEMMA DeleteAllFrees ==
  ASSUME ResourcesInv, pc # "ended"
  PROVE  DeleteAll = news
<1>1. \A m \in Member : news[m] \in {0, 1} /\ frees[m] = 0
  BY MembersDiffer DEF ResourcesInv, ResourcesTypes, MembersInv
<1>2. \A m \in Member : (IF news[m] > 0 THEN frees[m] + 1 ELSE frees[m]) = news[m]
  BY <1>1
<1>3. DeleteAll = [m \in Member |-> news[m]]
  BY <1>2 DEF DeleteAll
<1> QED
  BY <1>3 DEF ResourcesInv, ResourcesTypes

(* Nothing has been allocated. *)
LEMMA ResourcesInvInit == Init => ResourcesInv
<1> SUFFICES ASSUME Init PROVE ResourcesInv
  OBVIOUS
<1>1. ResourcesTypes /\ TreeInv
  BY ResourcesAssumption, MembersDiffer DEF Init, ResourcesTypes, TreeInv
<1>2. MembersInv
  BY MembersDiffer DEF Init, MembersInv
<1> QED
  BY <1>1, <1>2 DEF ResourcesInv

(* Each step, one that runs out of memory too, keeps the invariant. *)
LEMMA ResourcesInvStep == ResourcesInv /\ [Next]_vars => ResourcesInv'
<1> SUFFICES ASSUME ResourcesInv, [Next]_vars PROVE ResourcesInv'
  OBVIOUS
<1> USE DEF ResourcesInv
<1>1. CASE Allocate
  <2>1. CASE next' = next /\ news' = news
    BY <1>1, <2>1 DEF Allocate, ResourcesTypes, MembersInv, TreeInv, treeVars
  <2>2. CASE /\ next < Len(Members) /\ next' = next + 1
             /\ news' = [news EXCEPT ![Members[next + 1]] = @ + 1]
             /\ UNCHANGED <<ended, pc>>
    <3>1. UNCHANGED <<encoding, frees, treeVars, ended, pc>> /\ pc = "allocate"
      BY <1>1, <2>2 DEF Allocate
    <3>2. ResourcesTypes'
      BY <2>2, <3>1, MembersDiffer DEF ResourcesTypes, treeVars
    <3>3. \A i \in 1 .. Len(Members) : news'[Members[i]] = IF i <= next' THEN 1 ELSE 0
      BY <2>2, MembersDiffer DEF ResourcesTypes, MembersInv
    <3> QED
      BY <3>1, <3>2, <3>3 DEF MembersInv, TreeInv, treeVars
  <2> QED
    BY <1>1, <2>1, <2>2 DEF Allocate
<1>2. CASE CatchBadAlloc
  BY <1>2, DeleteAllFrees DEF CatchBadAlloc, Rethrow, ResourcesTypes, MembersInv, TreeInv, treeVars
<1>3. CASE LeaveBody
  BY <1>3 DEF LeaveBody, ResourcesTypes, MembersInv, TreeInv, treeVars
<1>4. CASE StartTree
  <2>1. pc = "body" /\ pc' = "tree" /\ UNCHANGED <<encoding, news, frees, next, nodes, leaked, trees, ended>>
    BY <1>4 DEF StartTree
  <2>2. leaves' \in Nat /\ leaves' \in 0 .. MaxLeaves /\ leaves' > 0
    BY <1>4, ResourcesAssumption DEF StartTree
  <2>3. ResourcesTypes' /\ MembersInv'
    BY <2>1, <2>2 DEF ResourcesTypes, MembersInv
  <2>4. leaked = 0 /\ nodes = 0
    BY <2>1 DEF ResourcesTypes, TreeInv
  <2>5. PICK n \in Nat : n = leaves'
    BY <2>2
  <2>6. n > 0
    BY <2>2, <2>5
  <2>7. 0 <= 2 * n - 1
    BY <2>6
  <2>8. TreeInv'
    BY <2>1, <2>4, <2>5, <2>6, <2>7 DEF TreeInv
  <2> QED
    BY <2>3, <2>8
<1>5. CASE NewNode
  BY <1>5, ResourcesAssumption DEF NewNode, ResourcesTypes, MembersInv, TreeInv
<1>6. CASE NoNode
  BY <1>6, ResourcesAssumption DEF NoNode, ResourcesTypes, MembersInv, TreeInv
<1>7. CASE EndTree
  BY <1>7, ResourcesAssumption DEF EndTree, DeleteTree, ResourcesTypes, MembersInv, TreeInv
<1>8. CASE Destroy
  BY <1>8, DeleteAllFrees DEF Destroy, ResourcesTypes, MembersInv, TreeInv, treeVars
<1>9. CASE UNCHANGED vars
  BY <1>9 DEF vars, treeVars, ResourcesTypes, MembersInv, TreeInv
<1> QED
  BY <1>1, <1>2, <1>3, <1>4, <1>5, <1>6, <1>7, <1>8, <1>9 DEF Next, Terminating

(* Every state of a call that takes and gives back memory satisfies ResourcesInv. *)
LEMMA ResourcesInvariance == Spec => []ResourcesInv
BY ResourcesInvInit, ResourcesInvStep, PTL DEF Spec

(* Encode and Decode delete each member they allocated exactly once, whether *)
(* they return, throw, or fail in the middle of allocating.                  *)
THEOREM MembersFreed == Spec => []FreedOnce
<1>1. ResourcesInv => FreedOnce
  <2> SUFFICES ASSUME ResourcesInv PROVE FreedOnce
    OBVIOUS
  <2>1. \A m \in Member : news[m] \in Nat /\ frees[m] \in Nat /\ frees[m] <= news[m]
    BY DEF ResourcesInv, ResourcesTypes, MembersInv
  <2> QED
    BY <2>1 DEF FreedOnce, ResourcesInv, MembersInv
<1> QED
  BY <1>1, ResourcesInvariance, PTL

(* However large a Huffman tree, and however many are built: nothing leaks   *)
(* but what there is of one tree when memory runs out, and then the call     *)
(* ends with bad_alloc.                                                      *)
THEOREM TreesFreed == Spec => []OnlyHalfTreesLeak
<1>1. ResourcesInv => OnlyHalfTreesLeak
  BY DEF ResourcesInv, ResourcesTypes, TreeInv, OnlyHalfTreesLeak
<1> QED
  BY <1>1, ResourcesInvariance, PTL
-----------------------------------------------------------------------------
(***************************************************************************)
(* Files.                                                                  *)
(***************************************************************************)
Bytes(k) == Encoded(items[k])

Writing == phase \in {"put", "check", "close"}

StreamTypes ==
  /\ items \in Seq(Items)
  /\ wi \in 1 .. Len(items) + 1 /\ put \in Nat
  /\ disk \in Seq(Byte) /\ buffer \in Seq(Byte) /\ total_write \in Nat
  /\ werr \in BOOLEAN /\ spilt \in BOOLEAN
  /\ rpos \in 0 .. Len(disk) /\ pushed \in BOOLEAN /\ rerr \in BOOLEAN /\ total_read \in Nat
  /\ part \in Seq(Byte) /\ got \in Seq(Seq(Int)) /\ Len(got) <= Len(items)
  /\ phase \in {"put", "check", "close", "test", "get", "checkread", "end"}

(* Where Encode stands in its items; nothing has been read while it writes.  *)
Place ==
  /\ put <= IF wi > Len(items) THEN 0 ELSE Len(Bytes(wi))
  /\ phase = "put" /\ wi <= Len(items) => put < Len(Bytes(wi))
  /\ phase = "check" => wi <= Len(items)
  /\ Writing => ~spilt /\ rpos = 0 /\ ~pushed /\ ~rerr /\ part = <<>> /\ got = <<>>
  /\ ~Writing => buffer = <<>>

(* The first bytes of s are those of t, all but the last k at most.         *)
AllBut(s, t, k) ==
  \E m \in 0 .. Len(s) : Len(s) - m <= k /\ m <= Len(t) /\ \A i \in 1 .. m : s[i] = t[i]

(* Without an error all is there.  With one, the bytes that followed it are  *)
(* fewer than those of an int: only inside an int it goes unnoticed.         *)
Written ==
  /\ ~werr => /\ IF spilt THEN IsPrefix(disk, Asked) ELSE disk \o buffer = Asked
              /\ total_write = Len(Asked)
  /\ werr /\ phase = "put" =>
       wi <= Len(items) /\ items[wi].kind = "int" /\ put > 0 /\ AllBut(disk \o buffer, Asked, put - 1)
  /\ AllBut(disk \o buffer, Asked, Digits - 1)

(* Where Decode stands in an item.                                           *)
ReadPlace ==
  /\ pushed => rpos < Len(disk)
  /\ phase \in {"get", "checkread"} => Len(got) < Len(items)
  /\ Len(got) < Len(items) => Len(part) <= Len(Encoded(Item))
  /\ phase = "get" => Len(part) < Len(Encoded(Item)) /\ (Item.kind = "flag" => pushed)
  /\ phase = "checkread" => Item.kind = "data" \/ Whole(part)
  /\ phase = "test" => part = <<>> \/ (Len(got) < Len(items) /\ Item.kind = "data")

DataBy(k) == \E j \in 1 .. k : items[j].kind = "data"

(* An error, unless it has cut short a piece of data, is about to be noticed *)
(* or has been; and as long as there is none, Decode stands in a file that   *)
(* has the whole of its item where that item says.                           *)
InStep ==
  /\ rerr /\ ~DataBy(Len(got)) =>
       phase = "end" \/ (phase \in {"get", "checkread"} /\ Item.kind # "flag")
  /\ ~rerr /\ Len(got) < Len(items) /\ IsPrefix(Stream(items)[Len(got) + 1], disk) =>
       rpos = Len(Stream(items)[Len(got)]) + Len(part) /\ IsPrefix(part, Encoded(Item))

StreamsInv == StreamTypes /\ Place /\ Written /\ ReadPlace /\ InStep /\ WhatIsWholeComesBack
-----------------------------------------------------------------------------
(***************************************************************************)
(* Numbers as bytes.                                                       *)
(***************************************************************************)
LEMMA Weights ==
  ASSUME NEW k \in Nat
  PROVE  Weight(k) \in Nat \ {0} /\ Weight(k + 1) = Weight(1) * Weight(k)
<1>1. ByteBits \in Nat /\ ByteBits * k \in Nat /\ ByteBits * 1 = ByteBits
  BY StreamsAssumption
<1>2. ByteBits * (k + 1) = ByteBits + ByteBits * k
  BY <1>1
<1>3. 2 ^ (ByteBits + ByteBits * k) = 2 ^ ByteBits * 2 ^ (ByteBits * k)
  BY <1>1, Numbers!PowerSum
<1>4. 2 ^ (ByteBits * k) \in Nat \ {0}
  BY <1>1, Numbers!PowerPositive
<1> QED
  BY <1>1, <1>2, <1>3, <1>4 DEF Weight

(* The lowest byte counts for what it is. *)
LEMMA WeightOfNone == Weight(0) = 1
<1>1. ByteBits * 0 = 0
  BY StreamsAssumption
<1> QED
  BY <1>1, Numbers!PowerZero DEF Weight

(* The ints are as many as there are words of so many bytes. *)
LEMMA WordHalves == Weight(Digits) \div 2 \in Nat \ {0} /\ Weight(Digits) = 2 * (Weight(Digits) \div 2)
<1> DEFINE n == ByteBits * Digits
<1>1. n \in Nat /\ n > 0
  BY StreamsAssumption
<1>2. Weight(Digits) = 2 ^ n
  BY DEF Weight
<1> HIDE DEF n
<1>3. n - 1 \in Nat /\ (n - 1) + 1 = n
  BY <1>1
<1>4. 2 ^ n = 2 * 2 ^ (n - 1) /\ 2 ^ (n - 1) \in Nat \ {0}
  BY <1>3, Numbers!PowerNext, Numbers!PowerPositive
<1> QED
  BY <1>2, <1>4

(* Bytes are numbers, 0 among them. *)
LEMMA ByteIsNat == Byte \subseteq Nat /\ 0 \in Byte
  BY Weights DEF Byte

(* What lies above a digit is the rest of the number. *)
LEMMA DigitStep ==
  ASSUME NEW u \in Nat, NEW w \in Nat \ {0}, NEW b \in Nat \ {0}
  PROVE  /\ u \div w \in Nat /\ u \div (b * w) \in Nat /\ (u \div w) % b \in 0 .. b - 1
         /\ (u \div w) * w = (u \div (b * w)) * (b * w) + ((u \div w) % b) * w
<1> DEFINE q == u \div w
           s == u % w
           p == q \div b
           r == q % b
           c == b * w
           t == w * r + s
<1>1. q \in Nat /\ s \in 0 .. w - 1 /\ u = w * q + s
  BY Numbers!DivMod
<1>2. p \in Nat /\ r \in 0 .. b - 1 /\ q = b * p + r
  <2> HIDE DEF q
  <2> QED
    BY <1>1, Numbers!DivMod
<1>3. c \in Nat \ {0} /\ t \in 0 .. c - 1 /\ u = c * p + t
  <2> HIDE DEF q, s, p, r
  <2>1. c \in Nat \ {0}
    OBVIOUS
  <2>2. w * (r + 1) <= w * b /\ w * (r + 1) = w * r + w /\ w * r \in Nat
    BY <1>2
  <2>3. w * (b * p + r) = w * (b * p) + w * r /\ w * (b * p) = (b * w) * p
    BY <1>2
  <2>4. w * b = c
    OBVIOUS
  <2> QED
    BY <1>1, <1>2, <2>1, <2>2, <2>3, <2>4
<1>4. u \div c = p
  <2> HIDE DEF p, c, t
  <2> QED
    BY <1>2, <1>3, Numbers!DivModUnique
<1>5. q * w = p * (b * w) + r * w
  <2> HIDE DEF q, p, r
  <2> QED
    BY <1>1, <1>2
<1> QED
  BY <1>1, <1>2, <1>4, <1>5

(* What GetUInt32 has added up after each of its bytes. *)
IsSum(f, bytes) ==
  f = [k \in 0 .. Digits |-> IF k = 0 THEN 0 ELSE f[k - 1] + bytes[k] * Weight(Digits - k)]

(* For any bytes of an int there is such a function of their sums. *)
LEMMA SumExists ==
  ASSUME NEW bytes \in Seq(Byte), Len(bytes) = Digits
  PROVE  \E f \in [0 .. Digits -> Nat] : IsSum(f, bytes)
<1> USE StreamsAssumption
<1> DEFINE G == [p \in (1 .. Digits) \X Nat |-> p[2] + bytes[p[1]] * Weight(Digits - p[1])]
<1>1. ASSUME NEW i \in 1 .. Digits PROVE bytes[i] * Weight(Digits - i) \in Nat
  <2>1. bytes[i] \in Byte /\ Digits - i \in Nat
    OBVIOUS
  <2>2. bytes[i] \in Nat /\ Weight(Digits - i) \in Nat
    BY <2>1, Weights, ByteIsNat
  <2> QED
    BY <2>2
<1>2. G \in [(1 .. Digits) \X Nat -> Nat]
  <2> SUFFICES ASSUME NEW p \in (1 .. Digits) \X Nat
               PROVE  p[2] + bytes[p[1]] * Weight(Digits - p[1]) \in Nat
    OBVIOUS
  <2>1. p[1] \in 1 .. Digits /\ p[2] \in Nat
    OBVIOUS
  <2>2. bytes[p[1]] * Weight(Digits - p[1]) \in Nat
    BY <2>1, <1>1
  <2> QED
    BY <2>1, <2>2
<1>3. \A i \in 1 .. Digits, y \in Nat : G[<<i, y>>] = y + bytes[i] * Weight(Digits - i)
  OBVIOUS
<1> HIDE DEF G
<1>4. PICK f \in [0 .. Digits -> Nat] : f[0] = 0 /\ \A i \in 1 .. Digits : f[i] = G[<<i, f[i - 1]>>]
  <2>1. G \in Numbers!Steps(Digits, Nat)
    BY <1>2 DEF Numbers!Steps
  <2>2. \E f \in [0 .. Digits -> Nat] : Numbers!Follows(f, Digits, 0, G)
    BY <2>1, Numbers!Recursion
  <2> QED
    BY <2>2 DEF Numbers!Follows
<1>5. ASSUME NEW k \in 0 .. Digits
      PROVE  f[k] = IF k = 0 THEN 0 ELSE f[k - 1] + bytes[k] * Weight(Digits - k)
  <2>1. CASE k = 0
    BY <1>4, <2>1
  <2>2. CASE k # 0
    <3>1. k \in 1 .. Digits /\ k - 1 \in 0 .. Digits
      BY <2>2
    <3> QED
      BY <1>3, <1>4, <2>2, <3>1
  <2> QED
    BY <2>1, <2>2
<1> QED
  BY <1>5 DEF IsSum

(* So what GetUInt32 computes from them is the last of such sums, wrapped. *)
LEMMA NumberOfBytes ==
  ASSUME NEW bytes \in Seq(Byte), Len(bytes) = Digits
  PROVE  \E f \in [0 .. Digits -> Nat] :
           /\ f[0] = 0 /\ \A k \in 1 .. Digits : f[k] = f[k - 1] + bytes[k] * Weight(Digits - k)
           /\ FromUInt32(bytes) =
                IF f[Digits] >= Weight(Digits) \div 2 THEN f[Digits] - Weight(Digits) ELSE f[Digits]
<1> DEFINE sum == CHOOSE f : IsSum(f, bytes)
<1>1. PICK g \in [0 .. Digits -> Nat] : IsSum(g, bytes)
  BY SumExists
<1>2. IsSum(sum, bytes)
  BY <1>1
<1>3. FromUInt32(bytes) =
        IF sum[Digits] >= Weight(Digits) \div 2 THEN sum[Digits] - Weight(Digits) ELSE sum[Digits]
  BY DEF FromUInt32, IsSum
<1> HIDE DEF sum
<1>4. sum[0] = 0 /\ \A k \in 1 .. Digits : sum[k] = sum[k - 1] + bytes[k] * Weight(Digits - k)
  <2>1. 0 \in 0 .. Digits /\ \A k \in 1 .. Digits : k \in 0 .. Digits /\ k # 0
    BY StreamsAssumption
  <2> QED
    BY <1>2, <2>1, Zenon DEF IsSum
<1>5. \A k \in 0 .. Digits : sum[k] \in Nat
  <2> DEFINE S == {k \in 0 .. Digits : sum[k] \in Nat}
  <2>1. 0 \in S
    BY <1>4, StreamsAssumption
  <2>2. ASSUME NEW k \in 1 .. Digits, k - 1 \in S PROVE k \in S
    <3>1. bytes[k] \in Byte /\ Digits - k \in Nat /\ k \in 0 .. Digits
      BY StreamsAssumption
    <3>2. bytes[k] \in Nat /\ Weight(Digits - k) \in Nat /\ sum[k - 1] \in Nat
      BY <2>2, <3>1, Weights, ByteIsNat
    <3> QED
      BY <1>4, <3>1, <3>2
  <2> HIDE DEF S
  <2>3. Digits \in Nat
    BY StreamsAssumption
  <2>4. \A k \in 0 .. Digits : k \in S
    BY <2>1, <2>2, <2>3, Numbers!UpTo
  <2> QED
    BY <2>4 DEF S
<1>6. sum \in [0 .. Digits -> Nat]
  <2>1. sum = [k \in 0 .. Digits |-> sum[k]]
    BY <1>2 DEF IsSum
  <2> QED
    BY <1>5, <2>1
<1> QED
  BY <1>3, <1>4, <1>6

(* An int goes through PutUInt32 and GetUInt32 and is what it was. *)
LEMMA NumberComesBack ==
  ASSUME NEW v \in Int32
  PROVE  /\ UInt32(v) \in Seq(Byte) /\ Len(UInt32(v)) = Digits
         /\ FromUInt32(UInt32(v)) = v
<1> USE StreamsAssumption
<1> DEFINE W == Weight(Digits)
           B == Weight(1)
           h == W \div 2
           u == v % W
           bytes == UInt32(v)
<1>1. W \in Nat \ {0} /\ B \in Nat \ {0} /\ h \in Nat \ {0} /\ W = 2 * h
  BY Weights, WordHalves
<1>2. v \in -h .. h - 1
  BY DEF Int32
<1>3. u = IF v >= 0 THEN v ELSE v + W
  <2> HIDE DEF W, h
  <2>1. CASE v >= 0
    BY <1>1, <1>2, <2>1
  <2>2. CASE v < 0
    BY <1>1, <1>2, <2>2
  <2> QED
    BY <1>2, <2>1, <2>2
<1>4. u \in 0 .. W - 1
  <2> HIDE DEF W, h, u
  <2> QED
    BY <1>1, <1>2, <1>3
<1>5. ASSUME NEW k \in 1 .. Digits
      PROVE  /\ bytes[k] = (u \div Weight(Digits - k)) % B /\ bytes[k] \in Byte
             /\ (u \div Weight(Digits - k)) * Weight(Digits - k)
                  = (u \div Weight(Digits - (k - 1))) * Weight(Digits - (k - 1))
                      + bytes[k] * Weight(Digits - k)
  <2>1. bytes[k] = (u \div Weight(Digits - k)) % B
    BY DEF UInt32
  <2>2. Digits - k \in Nat /\ (Digits - k) + 1 = Digits - (k - 1)
    OBVIOUS
  <2>3. Weight(Digits - (k - 1)) = B * Weight(Digits - k) /\ Weight(Digits - k) \in Nat \ {0}
    BY <2>2, Weights
  <2> HIDE DEF W, h, u, B, bytes
  <2>4. u \in Nat
    BY <1>1, <1>4
  <2> DEFINE x == Weight(Digits - k)
  <2>5. x \in Nat \ {0}
    BY <2>3
  <2>6. /\ (u \div x) % B \in 0 .. B - 1
        /\ (u \div x) * x = (u \div (B * x)) * (B * x) + ((u \div x) % B) * x
    <3> HIDE DEF x
    <3> QED
      BY <1>1, <2>4, <2>5, DigitStep
  <2>7. bytes[k] \in Byte
    BY <2>1, <2>6 DEF Byte, B
  <2> QED
    BY <2>1, <2>3, <2>6, <2>7
<1>6. bytes = [k \in 1 .. Digits |-> bytes[k]]
  BY DEF UInt32
<1>7. bytes \in Seq(Byte) /\ Len(bytes) = Digits
  <2> HIDE DEF bytes
  <2> QED
    BY <1>5, <1>6
<1>8. PICK f \in [0 .. Digits -> Nat] :
        /\ f[0] = 0 /\ \A k \in 1 .. Digits : f[k] = f[k - 1] + bytes[k] * Weight(Digits - k)
        /\ FromUInt32(bytes) = IF f[Digits] >= h THEN f[Digits] - W ELSE f[Digits]
  <2> HIDE DEF bytes
  <2> QED
    BY <1>7, NumberOfBytes
<1> DEFINE S == {k \in 0 .. Digits : f[k] = (u \div Weight(Digits - k)) * Weight(Digits - k)}
<1> HIDE DEF W, h, u, B, bytes
<1>9. 0 \in S
  <2>1. u \div W = 0
    <3>1. u = W * 0 + u /\ 0 \in Nat
      BY <1>1, <1>4
    <3> QED
      BY <1>1, <1>4, <3>1, Numbers!DivModUnique
  <2>2. Weight(Digits - 0) = W
    BY DEF W
  <2>3. 0 * W = 0
    BY <1>1
  <2> QED
    BY <1>8, <2>1, <2>2, <2>3
<1>10. ASSUME NEW k \in 1 .. Digits, k - 1 \in S PROVE k \in S
  <2>1. k \in 0 .. Digits /\ k - 1 \in 0 .. Digits
    OBVIOUS
  <2>2. f[k - 1] = (u \div Weight(Digits - (k - 1))) * Weight(Digits - (k - 1))
    BY <1>10
  <2>3. f[k] = f[k - 1] + bytes[k] * Weight(Digits - k)
    BY <1>8
  <2> QED
    BY <1>5, <2>1, <2>2, <2>3
<1> HIDE DEF S
<1>11. Digits \in S
  <2>1. Digits \in Nat
    OBVIOUS
  <2>2. \A k \in 0 .. Digits : k \in S
    BY <1>9, <1>10, <2>1, Numbers!UpTo
  <2> QED
    BY <2>1, <2>2
<1>12. f[Digits] = u
  <2>1. Weight(Digits - Digits) = 1
    BY WeightOfNone
  <2>2. f[Digits] = (u \div 1) * 1
    BY <1>11, <2>1 DEF S
  <2>3. u \in Nat /\ (u \div 1) * 1 = u
    BY <1>1, <1>4
  <2> QED
    BY <2>2, <2>3
<1>13. FromUInt32(bytes) = v
  BY <1>1, <1>2, <1>3, <1>8, <1>12
<1> QED
  BY <1>7, <1>13 DEF bytes
-----------------------------------------------------------------------------
(***************************************************************************)
(* Items as bytes.                                                         *)
(***************************************************************************)
LEMMA ItemFacts ==
  ASSUME NEW item \in Items
  PROVE  /\ item.kind \in {"flag", "int", "data"}
         /\ item.kind = "flag" => Encoded(item) = item.v /\ Len(item.v) = 1 /\ item.v \in Seq(Byte)
         /\ item.kind = "int" => item.v = <<item.v[1]>> /\ item.v[1] \in Int32
         /\ item.kind = "data" => Encoded(item) = item.v /\ item.v \in Seq(Byte) /\ item.v # <<>>
<1>1. CASE item \in [kind : {"flag"}, v : {<<b>> : b \in Byte}]
  <2>1. PICK b \in Byte : item.v = <<b>>
    BY <1>1
  <2> QED
    BY <1>1, <2>1 DEF Encoded
<1>2. CASE item \in [kind : {"int"}, v : {<<i>> : i \in Int32}]
  <2>1. PICK i \in Int32 : item.v = <<i>>
    BY <1>2
  <2> QED
    BY <1>2, <2>1
<1>3. CASE item \in [kind : {"data"}, v : Seq(Byte) \ {<<>>}]
  BY <1>3 DEF Encoded
<1> QED
  BY <1>1, <1>2, <1>3 DEF Items

(* Every item has bytes, and comes back from them. *)
LEMMA ItemBytes ==
  ASSUME NEW item \in Items
  PROVE  /\ Encoded(item) \in Seq(Byte) /\ Len(Encoded(item)) \in Nat \ {0}
         /\ item.kind = "flag" => Len(Encoded(item)) = 1
         /\ item.kind = "int" => Len(Encoded(item)) = Digits
         /\ Decoded(item, Encoded(item)) = item.v
<1>1. CASE item.kind = "int"
  <2>1. Encoded(item) = UInt32(item.v[1]) /\ item.v[1] \in Int32 /\ item.v = <<item.v[1]>>
    BY <1>1, ItemFacts DEF Encoded
  <2>2. Encoded(item) \in Seq(Byte) /\ Len(Encoded(item)) = Digits
        /\ FromUInt32(Encoded(item)) = item.v[1]
    BY <2>1, NumberComesBack
  <2> QED
    BY <1>1, <2>1, <2>2, StreamsAssumption DEF Decoded
<1>2. CASE item.kind = "flag"
  <2>1. Encoded(item) = item.v /\ Len(item.v) = 1 /\ item.v \in Seq(Byte)
    BY <1>2, ItemFacts
  <2>2. Decoded(item, Encoded(item)) = Encoded(item)
    BY <1>2 DEF Decoded
  <2> QED
    BY <1>2, <2>1, <2>2
<1>3. CASE item.kind = "data"
  <2>1. Encoded(item) = item.v /\ item.v \in Seq(Byte) /\ item.v # <<>>
    BY <1>3, ItemFacts
  <2>2. Len(item.v) \in Nat \ {0}
    BY <2>1, EmptySeq
  <2> QED
    BY <1>3, <2>1, <2>2 DEF Decoded
<1> QED
  BY <1>1, <1>2, <1>3, ItemFacts

(* What comes of any bytes is a sequence of numbers. *)
LEMMA DecodedType ==
  ASSUME NEW item \in Items, NEW bytes \in Seq(Byte),
         item.kind = "int" => Len(bytes) = Digits
  PROVE  Decoded(item, bytes) \in Seq(Int)
<1>1. CASE item.kind = "int"
  <2>1. PICK f \in [0 .. Digits -> Nat] :
          FromUInt32(bytes) =
            IF f[Digits] >= Weight(Digits) \div 2 THEN f[Digits] - Weight(Digits) ELSE f[Digits]
    BY <1>1, NumberOfBytes
  <2>2. f[Digits] \in Nat /\ Weight(Digits) \in Nat
    BY StreamsAssumption, Weights
  <2>3. FromUInt32(bytes) \in Int
    BY <2>1, <2>2
  <2> QED
    BY <1>1, <2>3 DEF Decoded
<1>2. CASE item.kind # "int"
  <2>1. Byte \subseteq Int
    BY ByteIsNat
  <2>2. bytes \in Seq(Int)
    BY <2>1, SeqMonotonic
  <2> QED
    BY <1>2, <2>2 DEF Decoded
<1> QED
  BY <1>1, <1>2

IsStream(f, script) ==
  f = [k \in 0 .. Len(script) |-> IF k = 0 THEN <<>> ELSE f[k - 1] \o Encoded(script[k])]

(* For any items there is such a function of their bytes. *)
LEMMA StreamExists ==
  ASSUME NEW script \in Seq(Items)
  PROVE  \E f \in [0 .. Len(script) -> Seq(Byte)] : IsStream(f, script)
<1> DEFINE n == Len(script)
           T == Seq(Byte)
           G == [p \in (1 .. n) \X T |-> p[2] \o Encoded(script[p[1]])]
<1>1. n \in Nat /\ \A i \in 1 .. n : script[i] \in Items
  OBVIOUS
<1> HIDE DEF n
<1>2. G \in [(1 .. n) \X T -> T]
  <2> SUFFICES ASSUME NEW p \in (1 .. n) \X T PROVE p[2] \o Encoded(script[p[1]]) \in T
    OBVIOUS
  <2>1. p[1] \in 1 .. n /\ p[2] \in T
    OBVIOUS
  <2>2. Encoded(script[p[1]]) \in Seq(Byte)
    BY <1>1, <2>1, ItemBytes
  <2> QED
    BY <2>1, <2>2
<1>3. \A i \in 1 .. n, y \in T : G[<<i, y>>] = y \o Encoded(script[i])
  OBVIOUS
<1> HIDE DEF G
<1>4. <<>> \in T
  OBVIOUS
<1>5. PICK f \in [0 .. n -> T] : f[0] = <<>> /\ \A i \in 1 .. n : f[i] = G[<<i, f[i - 1]>>]
  <2> HIDE DEF T
  <2>1. G \in Numbers!Steps(n, T)
    BY <1>2 DEF Numbers!Steps
  <2>2. \E f \in [0 .. n -> T] : Numbers!Follows(f, n, <<>>, G)
    BY <1>1, <1>4, <2>1, Numbers!Recursion
  <2> QED
    BY <2>2 DEF Numbers!Follows
<1>6. ASSUME NEW k \in 0 .. n
      PROVE  f[k] = IF k = 0 THEN <<>> ELSE f[k - 1] \o Encoded(script[k])
  <2>1. CASE k = 0
    BY <1>5, <2>1
  <2>2. CASE k # 0
    <3>1. k \in 1 .. n /\ k - 1 \in 0 .. n
      BY <1>1, <2>2
    <3>2. f[k - 1] \in T /\ f[k] = G[<<k, f[k - 1]>>]
      BY <1>5, <3>1
    <3>3. G[<<k, f[k - 1]>>] = f[k - 1] \o Encoded(script[k])
      BY <1>3, <3>1, <3>2
    <3> QED
      BY <2>2, <3>2, <3>3
  <2> QED
    BY <2>1, <2>2
<1>7. f = [k \in 0 .. n |-> IF k = 0 THEN <<>> ELSE f[k - 1] \o Encoded(script[k])]
  BY <1>6
<1> QED
  BY <1>7 DEF IsStream, n

(* The stream begins with nothing and grows by an item at a time. *)
LEMMA StreamSteps ==
  ASSUME NEW script \in Seq(Items)
  PROVE  /\ Stream(script)[0] = <<>>
         /\ \A k \in 0 .. Len(script) : Stream(script)[k] \in Seq(Byte)
         /\ \A k \in 1 .. Len(script) : Stream(script)[k] = Stream(script)[k - 1] \o Encoded(script[k])
<1> DEFINE S == Stream(script)
<1>1. S = CHOOSE f : IsStream(f, script)
  BY DEF Stream, IsStream
<1>2. \E f : IsStream(f, script)
  BY StreamExists
<1>3. IsStream(S, script)
  BY <1>1, <1>2
<1>4. Len(script) \in Nat /\ \A k \in 1 .. Len(script) : script[k] \in Items
  OBVIOUS
<1> HIDE DEF S
<1>5. S[0] = <<>> /\ \A k \in 1 .. Len(script) : S[k] = S[k - 1] \o Encoded(script[k])
  <2>1. 0 \in 0 .. Len(script) /\ \A k \in 1 .. Len(script) : k \in 0 .. Len(script) /\ k # 0
    BY <1>4
  <2> QED
    BY <1>3, <2>1, Zenon DEF IsStream
<1> DEFINE T == {k \in 0 .. Len(script) : S[k] \in Seq(Byte)}
<1>6. 0 \in T
  <2>1. <<>> \in Seq(Byte) /\ 0 \in 0 .. Len(script)
    BY <1>4, EmptySeq
  <2> QED
    BY <1>5, <2>1
<1>7. ASSUME NEW k \in 1 .. Len(script), k - 1 \in T PROVE k \in T
  <2>1. S[k - 1] \in Seq(Byte) /\ Encoded(script[k]) \in Seq(Byte) /\ k \in 0 .. Len(script)
    BY <1>4, <1>7, ItemBytes
  <2>2. S[k] = S[k - 1] \o Encoded(script[k])
    BY <1>5
  <2>3. S[k - 1] \o Encoded(script[k]) \in Seq(Byte)
    BY <2>1, ConcatProperties
  <2> QED
    BY <2>1, <2>2, <2>3
<1> HIDE DEF T
<1>8. \A k \in 0 .. Len(script) : k \in T
  BY <1>4, <1>6, <1>7, Numbers!UpTo
<1> QED
  BY <1>5, <1>8 DEF S, T
-----------------------------------------------------------------------------
(***************************************************************************)
(* What has been asked for, and what fwrite does with it.                  *)
(***************************************************************************)
AskedOf(w, p) ==
  IF w > Len(items) THEN Stream(items)[w - 1] ELSE Stream(items)[w - 1] \o SubSeq(Bytes(w), 1, p)

InItem(w, p) == w \in 1 .. Len(items) + 1 /\ p \in 0 .. IF w > Len(items) THEN 0 ELSE Len(Bytes(w))

(* What Encode has put: the items before the one it stands in, and its part. *)
LEMMA AskedFacts ==
  ASSUME items \in Seq(Items), NEW w, NEW p, InItem(w, p)
  PROVE  LET S == Stream(items)[w - 1]
         IN  /\ S \in Seq(Byte) /\ AskedOf(w, p) \in Seq(Byte) /\ Len(AskedOf(w, p)) = Len(S) + p
             /\ w <= Len(items) => Bytes(w) \in Seq(Byte)
             /\ \A i \in 1 .. Len(S) + p :
                  AskedOf(w, p)[i] = IF i <= Len(S) THEN S[i] ELSE Bytes(w)[i - Len(S)]
<1> DEFINE S == Stream(items)[w - 1]
<1>1. Len(items) \in Nat /\ w \in Nat \ {0} /\ w - 1 \in 0 .. Len(items)
  BY DEF InItem
<1>2. S \in Seq(Byte)
  BY <1>1, StreamSteps
<1> HIDE DEF S
<1>3. CASE w > Len(items)
  <2>1. p = 0 /\ ~(w <= Len(items))
    BY <1>1, <1>3 DEF InItem
  <2>2. AskedOf(w, p) = S
    BY <1>3 DEF AskedOf, S
  <2> QED
    BY <1>2, <2>1, <2>2 DEF S
<1>4. CASE ~(w > Len(items))
  <2> DEFINE b == Bytes(w)
             q == SubSeq(b, 1, p)
  <2>1. items[w] \in Items
    BY <1>1, <1>4
  <2>2. b \in Seq(Byte) /\ p \in 0 .. Len(b)
    BY <1>1, <1>4, <2>1, ItemBytes DEF InItem, Bytes
  <2>3. AskedOf(w, p) = S \o q
    BY <1>4 DEF AskedOf, S
  <2> HIDE DEF b
  <2>4. q \in Seq(Byte) /\ Len(q) = p /\ \A i \in 1 .. p : q[i] = b[i]
    BY <2>2
  <2> HIDE DEF q
  <2>5. /\ S \o q \in Seq(Byte) /\ Len(S \o q) = Len(S) + p
        /\ \A i \in 1 .. Len(S) + p : (S \o q)[i] = IF i <= Len(S) THEN S[i] ELSE q[i - Len(S)]
    BY <1>2, <2>4, ConcatProperties
  <2>6. ASSUME NEW i \in 1 .. Len(S) + p PROVE (S \o q)[i] = IF i <= Len(S) THEN S[i] ELSE b[i - Len(S)]
    BY <1>2, <2>2, <2>4, <2>5
  <2> QED
    BY <1>2, <2>2, <2>3, <2>5, <2>6 DEF b, S
<1> QED
  BY <1>3, <1>4

(* Some more bytes of an item. *)
LEMMA AskedMore ==
  ASSUME items \in Seq(Items), NEW w \in 1 .. Len(items), NEW p \in Nat, NEW n \in Nat,
         p + n <= Len(Bytes(w))
  PROVE  /\ AskedOf(w, p) \in Seq(Byte) /\ AskedOf(w, p + n) \in Seq(Byte)
         /\ Len(AskedOf(w, p + n)) = Len(AskedOf(w, p)) + n
         /\ \A i \in 1 .. Len(AskedOf(w, p)) + n :
              AskedOf(w, p + n)[i] =
                IF i <= Len(AskedOf(w, p)) THEN AskedOf(w, p)[i]
                ELSE Bytes(w)[p + i - Len(AskedOf(w, p))]
<1> DEFINE S == Stream(items)[w - 1]
           A == AskedOf(w, p)
           B == AskedOf(w, p + n)
<1>1. Len(items) \in Nat /\ items[w] \in Items
  OBVIOUS
<1>2. Bytes(w) \in Seq(Byte) /\ Len(Bytes(w)) \in Nat
  BY <1>1, ItemBytes DEF Bytes
<1>3. InItem(w, p) /\ InItem(w, p + n)
  BY <1>1, <1>2 DEF InItem
<1>4. /\ S \in Seq(Byte) /\ A \in Seq(Byte) /\ Len(A) = Len(S) + p
      /\ \A i \in 1 .. Len(S) + p : A[i] = IF i <= Len(S) THEN S[i] ELSE Bytes(w)[i - Len(S)]
  BY <1>3, AskedFacts
<1>5. /\ B \in Seq(Byte) /\ Len(B) = Len(S) + (p + n)
      /\ \A i \in 1 .. Len(S) + (p + n) : B[i] = IF i <= Len(S) THEN S[i] ELSE Bytes(w)[i - Len(S)]
  BY <1>3, AskedFacts
<1> HIDE DEF S, A, B
<1>6. Len(S) \in Nat
  BY <1>4
<1>7. ASSUME NEW i \in 1 .. Len(A) + n
      PROVE  B[i] = IF i <= Len(A) THEN A[i] ELSE Bytes(w)[p + i - Len(A)]
  <2>1. i \in 1 .. Len(S) + (p + n)
    BY <1>4, <1>6
  <2>2. CASE i <= Len(A)
    <3>1. i \in 1 .. Len(S) + p
      BY <1>4, <1>6, <2>1, <2>2
    <3>2. A[i] = IF i <= Len(S) THEN S[i] ELSE Bytes(w)[i - Len(S)]
      BY <1>4, <3>1
    <3>3. B[i] = IF i <= Len(S) THEN S[i] ELSE Bytes(w)[i - Len(S)]
      BY <1>5, <2>1
    <3> QED
      BY <2>2, <3>2, <3>3
  <2>3. CASE ~(i <= Len(A))
    <3>1. ~(i <= Len(S)) /\ p + i - Len(A) = i - Len(S)
      BY <1>4, <1>6, <2>3
    <3> QED
      BY <1>5, <2>1, <2>3, <3>1
  <2> QED
    BY <2>2, <2>3
<1> QED
  BY <1>4, <1>5, <1>6, <1>7 DEF A, B

(* A whole item, and the next one not begun. *)
LEMMA AskedNext ==
  ASSUME items \in Seq(Items), NEW w \in 1 .. Len(items)
  PROVE  AskedOf(w + 1, 0) = AskedOf(w, Len(Bytes(w)))
<1> DEFINE n == Len(Bytes(w))
           S == Stream(items)[w - 1]
           T == Stream(items)[w]
<1>1. Len(items) \in Nat /\ items[w] \in Items /\ w - 1 \in 0 .. Len(items) /\ w \in 0 .. Len(items)
  OBVIOUS
<1>2. Bytes(w) \in Seq(Byte) /\ n \in Nat
  BY <1>1, ItemBytes DEF Bytes
<1>3. T = S \o Bytes(w) /\ S \in Seq(Byte) /\ T \in Seq(Byte)
  BY <1>1, StreamSteps DEF Bytes
<1>4. SubSeq(Bytes(w), 1, n) = Bytes(w)
  BY <1>2
<1>5. AskedOf(w, n) = T
  <2>1. ~(w > Len(items))
    BY <1>1
  <2>2. AskedOf(w, n) = S \o SubSeq(Bytes(w), 1, n)
    BY <2>1 DEF AskedOf
  <2> HIDE DEF S, T, n
  <2> QED
    BY <1>3, <1>4, <2>2
<1>6. AskedOf(w + 1, 0) = T
  <2>1. (w + 1) - 1 = w /\ w + 1 \in Nat
    OBVIOUS
  <2>2. CASE w + 1 > Len(items)
    BY <2>1, <2>2 DEF AskedOf
  <2>3. CASE ~(w + 1 > Len(items))
    <3>1. AskedOf(w + 1, 0) = T \o SubSeq(Bytes(w + 1), 1, 0)
      BY <2>1, <2>3 DEF AskedOf
    <3>2. SubSeq(Bytes(w + 1), 1, 0) = <<>>
      BY SubSeqEmpty
    <3> HIDE DEF T
    <3> QED
      BY <1>3, <3>1, <3>2, ConcatEmptySeq
  <2> QED
    BY <2>2, <2>3
<1> QED
  BY <1>5, <1>6

(* A sequence cut in two and put behind another is what it was. *)
LEMMA CutAndJoined ==
  ASSUME NEW s \in Seq(Byte), NEW t \in Seq(Byte), NEW k \in 0 .. Len(t)
  PROVE  /\ s \o SubSeq(t, 1, k) \in Seq(Byte) /\ SubSeq(t, k + 1, Len(t)) \in Seq(Byte)
         /\ (s \o SubSeq(t, 1, k)) \o SubSeq(t, k + 1, Len(t)) = s \o t
         /\ Len(s \o SubSeq(t, 1, k)) = Len(s) + k
         /\ \A i \in 1 .. Len(s) + k : (s \o SubSeq(t, 1, k))[i] = (s \o t)[i]
<1> DEFINE a == SubSeq(t, 1, k)
           b == SubSeq(t, k + 1, Len(t))
<1>1. a \in Seq(Byte) /\ Len(a) = k /\ \A i \in 1 .. k : a[i] = t[i]
  OBVIOUS
<1>2. b \in Seq(Byte) /\ Len(b) = Len(t) - k /\ \A i \in 1 .. Len(t) - k : b[i] = t[k + i]
  OBVIOUS
<1> HIDE DEF a, b
<1>3. a \o b = t
  <2>1. a \o b \in Seq(Byte) /\ Len(a \o b) = Len(t)
    <3>1. a \o b \in Seq(Byte) /\ Len(a \o b) = Len(a) + Len(b)
      <4>1. a \in Seq(Byte) /\ b \in Seq(Byte)
        BY <1>1, <1>2
      <4> QED
        BY <4>1, ConcatProperties
    <3>2. k + (Len(t) - k) = Len(t)
      OBVIOUS
    <3> QED
      BY <1>1, <1>2, <3>1, <3>2
  <2>2. ASSUME NEW i \in 1 .. Len(a \o b) PROVE (a \o b)[i] = t[i]
    <3>1. i \in 1 .. Len(a) + Len(b) /\ i \in 1 .. Len(t) /\ Len(t) \in Nat
      BY <1>1, <1>2, <2>1
    <3>2. (a \o b)[i] = IF i <= Len(a) THEN a[i] ELSE b[i - Len(a)]
      BY <1>1, <1>2, <3>1, ConcatProperties
    <3>3. CASE i <= k
      BY <1>1, <3>1, <3>2, <3>3
    <3>4. CASE ~(i <= k)
      <4>1. i - k \in 1 .. Len(t) - k /\ k + (i - k) = i
        BY <3>1, <3>4
      <4>2. b[i - k] = t[k + (i - k)]
        BY <1>2, <4>1
      <4> QED
        BY <1>1, <3>2, <3>4, <4>1, <4>2
    <3> QED
      BY <3>3, <3>4
  <2> QED
    BY <2>1, <2>2, SeqEqual
<1>4. (s \o a) \o b = s \o (a \o b)
  BY <1>1, <1>2, ConcatAssociative
<1>5. s \o a \in Seq(Byte) /\ Len(s \o a) = Len(s) + k
  BY <1>1, ConcatProperties
<1>6. ASSUME NEW i \in 1 .. Len(s) + k PROVE (s \o a)[i] = (s \o t)[i]
  <2>1. i \in 1 .. Len(s) + Len(a) /\ i \in 1 .. Len(s) + Len(t) /\ Len(s) \in Nat
    <3>1. Len(s) \in Nat /\ Len(t) \in Nat /\ Len(a) = k /\ k <= Len(t)
      BY <1>1
    <3> QED
      BY <3>1
  <2>2. /\ (s \o a)[i] = IF i <= Len(s) THEN s[i] ELSE a[i - Len(s)]
        /\ (s \o t)[i] = IF i <= Len(s) THEN s[i] ELSE t[i - Len(s)]
    BY <1>1, <2>1, ConcatProperties
  <2>3. ~(i <= Len(s)) => i - Len(s) \in 1 .. k
    BY <2>1
  <2> QED
    BY <1>1, <2>2, <2>3
<1> QED
  BY <1>2, <1>3, <1>4, <1>5, <1>6 DEF a, b

(* fwrite: file and buffer together are what they were with the n bytes      *)
(* behind it, or after an error the first part of that.                      *)
LEMMA FWriteFacts ==
  ASSUME disk \in Seq(Byte), buffer \in Seq(Byte), werr \in BOOLEAN,
         NEW bytes \in Seq(Byte), NEW n \in 0 .. Len(bytes), FWrite(bytes, n)
  PROVE  /\ disk' \in Seq(Byte) /\ buffer' \in Seq(Byte) /\ werr' \in BOOLEAN
         /\ LET W == disk \o buffer
                V == disk' \o buffer'
            IN  /\ W \in Seq(Byte) /\ V \in Seq(Byte) /\ Len(V) <= Len(W) + n
                /\ \A i \in 1 .. Len(V) : V[i] = IF i <= Len(W) THEN W[i] ELSE bytes[i - Len(W)]
                /\ ~werr' => ~werr /\ n = Len(bytes) /\ Len(V) = Len(W) + n
<1> DEFINE some == SubSeq(bytes, 1, n)
           all == buffer \o some
           W == disk \o buffer
           V == disk' \o buffer'
           D == disk \o all
<1>1. some \in Seq(Byte) /\ Len(some) = n /\ \A i \in 1 .. n : some[i] = bytes[i]
  OBVIOUS
<1>2. PICK k \in 0 .. Len(all) :
        /\ disk' = disk \o SubSeq(all, 1, k)
        /\ \/ n = Len(bytes) /\ buffer' = SubSeq(all, k + 1, Len(all)) /\ UNCHANGED werr
           \/ buffer' \in {SubSeq(all, k + 1, Len(all)), <<>>} /\ werr' = TRUE
  BY DEF FWrite
<1> HIDE DEF some
<1>3. all \in Seq(Byte)
  BY <1>1
<1>4. W \in Seq(Byte) /\ D = W \o some
  <2>1. (disk \o buffer) \o some = disk \o (buffer \o some)
    BY <1>1, ConcatAssociative
  <2>2. disk \o buffer \in Seq(Byte)
    BY ConcatProperties
  <2> QED
    BY <2>1, <2>2
<1>5. /\ D \in Seq(Byte) /\ Len(D) = Len(W) + n
      /\ \A i \in 1 .. Len(W) + n : D[i] = IF i <= Len(W) THEN W[i] ELSE some[i - Len(W)]
  <2> HIDE DEF D, W
  <2>1. /\ W \o some \in Seq(Byte) /\ Len(W \o some) = Len(W) + Len(some)
        /\ \A i \in 1 .. Len(W) + Len(some) :
             (W \o some)[i] = IF i <= Len(W) THEN W[i] ELSE some[i - Len(W)]
    BY <1>1, <1>4, ConcatProperties
  <2> QED
    BY <1>1, <1>4, <2>1
<1>6. /\ disk' \in Seq(Byte) /\ SubSeq(all, k + 1, Len(all)) \in Seq(Byte)
      /\ disk' \o SubSeq(all, k + 1, Len(all)) = D
      /\ Len(disk') = Len(disk) + k /\ \A i \in 1 .. Len(disk) + k : disk'[i] = D[i]
  <2> HIDE DEF all
  <2> QED
    BY <1>2, <1>3, CutAndJoined
<1>7. Len(disk) + k <= Len(D)
  <2>1. Len(D) = Len(disk) + Len(all)
    <3> HIDE DEF all
    <3> QED
      BY <1>3
  <2>2. Len(all) \in Nat /\ Len(disk) \in Nat
    BY <1>3
  <2> HIDE DEF all, D
  <2> QED
    BY <2>1, <2>2
<1>8. buffer' \in Seq(Byte) /\ werr' \in BOOLEAN /\ (~werr' => ~werr /\ n = Len(bytes))
  BY <1>2, <1>6, EmptySeq
<1>9. V \in Seq(Byte) /\ Len(V) <= Len(D) /\ (~werr' => Len(V) = Len(D))
      /\ \A i \in 1 .. Len(V) : V[i] = D[i]
  <2> HIDE DEF D, all
  <2>1. CASE buffer' = SubSeq(all, k + 1, Len(all))
    <3>1. V = D
      BY <1>6, <2>1
    <3> HIDE DEF V
    <3> QED
      BY <1>5, <3>1
  <2>2. CASE buffer' = <<>> /\ werr' = TRUE
    <3>1. V = disk'
      BY <1>6, <2>2, ConcatEmptySeq
    <3> HIDE DEF V
    <3> QED
      BY <1>5, <1>6, <1>7, <2>2, <3>1
  <2> QED
    BY <1>2, <2>1, <2>2
<1>10. ASSUME NEW i \in 1 .. Len(V) PROVE V[i] = IF i <= Len(W) THEN W[i] ELSE bytes[i - Len(W)]
  <2> HIDE DEF V, D, W, all
  <2>1. i \in 1 .. Len(W) + n /\ Len(W) \in Nat
    BY <1>4, <1>5, <1>9
  <2>2. V[i] = D[i]
    BY <1>9
  <2> QED
    BY <1>1, <1>5, <2>1, <2>2
<1>11. Len(V) <= Len(W) + n /\ (~werr' => Len(V) = Len(W) + n)
  <2> HIDE DEF V, D, W, all
  <2> QED
    BY <1>5, <1>9
<1> QED
  BY <1>4, <1>6, <1>8, <1>9, <1>10, <1>11
-----------------------------------------------------------------------------
(***************************************************************************)
(* Encode writes.                                                          *)
(***************************************************************************)
LEMMA AllButGrown ==
  ASSUME NEW s \in Seq(Byte), NEW t \in Seq(Byte), NEW k \in Nat, AllBut(s, t, k),
         NEW r \in Seq(Byte), NEW u \in Seq(Byte), NEW e \in Nat,
         Len(r) <= Len(s) + e, \A i \in 1 .. Len(r) : i <= Len(s) => r[i] = s[i],
         Len(t) <= Len(u), \A i \in 1 .. Len(t) : u[i] = t[i]
  PROVE  AllBut(r, u, k + e)
<1>1. PICK m \in 0 .. Len(s) : Len(s) - m <= k /\ m <= Len(t) /\ \A i \in 1 .. m : s[i] = t[i]
  BY DEF AllBut
<1> DEFINE n == IF m <= Len(r) THEN m ELSE Len(r)
<1>2. Len(s) \in Nat /\ Len(t) \in Nat /\ Len(r) \in Nat /\ Len(u) \in Nat
  OBVIOUS
<1>3. n \in 0 .. Len(r) /\ n <= m /\ Len(r) - n <= k + e /\ n <= Len(u)
  <2>1. CASE m <= Len(r)
    BY <1>1, <1>2, <2>1
  <2>2. CASE ~(m <= Len(r))
    BY <1>1, <1>2, <2>2
  <2> QED
    BY <2>1, <2>2
<1> HIDE DEF n
<1>4. ASSUME NEW i \in 1 .. n PROVE r[i] = u[i]
  <2>1. i \in 1 .. Len(r) /\ i <= Len(s) /\ i \in 1 .. m /\ i \in 1 .. Len(t)
    BY <1>1, <1>2, <1>3
  <2> QED
    BY <1>1, <2>1
<1> QED
  BY <1>3, <1>4 DEF AllBut

(* More may be missing than is. *)
LEMMA AllButWeaker ==
  ASSUME NEW s \in Seq(Byte), NEW t \in Seq(Byte), NEW k \in Nat, AllBut(s, t, k),
         NEW j \in Nat, k <= j
  PROVE  AllBut(s, t, j)
  BY DEF AllBut

(* Where all of s is there, any number of bytes may be missing. *)
LEMMA PrefixIsAllBut ==
  ASSUME NEW s \in Seq(Byte), NEW t \in Seq(Byte), Len(s) <= Len(t),
         \A i \in 1 .. Len(s) : s[i] = t[i], NEW k \in Nat
  PROVE  AllBut(s, t, k)
<1>1. Len(s) \in 0 .. Len(s) /\ Len(s) - Len(s) <= k
  OBVIOUS
<1> QED
  BY <1>1 DEF AllBut

(* As long as Encode writes, nothing is read.                                *)
LEMMA Unread ==
  ASSUME items' \in Seq(Items), (phase' \notin {"get", "checkread", "test"}) \/ phase' = "test",
         rpos' = 0, ~pushed', ~rerr', part' = <<>>, got' = <<>>
  PROVE  ReadPlace' /\ InStep' /\ WhatIsWholeComesBack'
<1>1. Len(got') = 0 /\ Len(part') = 0 /\ Len(items') \in Nat
  OBVIOUS
<1>2. ASSUME 0 < Len(items')
      PROVE  /\ Encoded(items'[1]) \in Seq(Byte) /\ Len(Encoded(items'[1])) \in Nat
             /\ IsPrefix(part', Encoded(items'[1])) /\ Len(Stream(items')[0]) = 0
  <2>1. items'[1] \in Items
    BY <1>1, <1>2
  <2>2. Encoded(items'[1]) \in Seq(Byte) /\ Len(Encoded(items'[1])) \in Nat
    BY <2>1, ItemBytes
  <2>3. Stream(items')[0] = <<>>
    BY StreamSteps
  <2>4. SubSeq(part', 1, Len(part')) = <<>> /\ SubSeq(Encoded(items'[1]), 1, Len(part')) = <<>>
    BY <1>1, SubSeqEmpty
  <2> QED
    BY <1>1, <2>2, <2>3, <2>4 DEF IsPrefix
<1>3. Item' = items'[1]
  BY <1>1 DEF Item
<1>4. ReadPlace'
  BY <1>1, <1>2, <1>3 DEF ReadPlace
<1>5. InStep'
  <2>1. rerr' = FALSE
    OBVIOUS
  <2>2. Len(got') < Len(items') => rpos' = Len(Stream(items')[Len(got')]) + Len(part')
                                   /\ IsPrefix(part', Encoded(Item'))
    BY <1>1, <1>2, <1>3
  <2> QED
    BY <2>2 DEF InStep, Item
<1>6. WhatIsWholeComesBack'
  BY <1>1 DEF WhatIsWholeComesBack
<1> QED
  BY <1>4, <1>5, <1>6

(* What has been put depends on items, item and place, and nothing else. *)
LEMMA AskedIs ==
  Asked = AskedOf(wi, put) /\ (items' = items => Asked' = AskedOf(wi', put'))
<1>1. Asked = AskedOf(wi, put)
  BY DEF Asked, AskedOf, Bytes
<1>2. ASSUME items' = items PROVE Asked' = AskedOf(wi', put')
  BY <1>2 DEF Asked, AskedOf, Bytes
<1> QED
  BY <1>1, <1>2

(* fwrite, whatever it accepts, whatever reaches the disk, error or not. *)
LEMMA PutKeeps ==
  ASSUME StreamsInv, Put
  PROVE  StreamsInv'
<1> USE StreamsAssumption
<1> DEFINE it == items[wi]
           b == Bytes(wi)
           rest == SubSeq(b, put + 1, Len(b))
           bytes == IF it.kind = "data" THEN rest ELSE <<rest[1]>>
           W == disk \o buffer
           V == disk' \o buffer'
           A == AskedOf(wi, put)
<1>1. /\ StreamTypes /\ Place /\ Written
      /\ phase = "put" /\ wi <= Len(items) /\ put < Len(b)
      /\ UNCHANGED <<items, wi, spilt, readVars>>
  BY DEF StreamsInv, Put, Bytes
<1>2. PICK n \in 0 .. Len(bytes) :
        /\ FWrite(bytes, n)
        /\ total_write' = total_write + Returned(Len(bytes), n)
        /\ put' = IF it.kind = "data" THEN put + Returned(Len(bytes), n) ELSE put + 1
  BY DEF Put, Bytes
<1>3. phase' = IF it.kind = "data" \/ put' = Len(b) THEN "check" ELSE "put"
  BY DEF Put, Bytes
<1>4. /\ Len(items) \in Nat /\ wi \in 1 .. Len(items) /\ it \in Items
      /\ b \in Seq(Byte) /\ Len(b) \in Nat \ {0} /\ put \in 0 .. Len(b) - 1
      /\ (it.kind = "flag" => Len(b) = 1) /\ (it.kind = "int" => Len(b) = Digits)
      /\ it.kind \in {"flag", "int", "data"}
  <2>1. Len(items) \in Nat /\ wi \in 1 .. Len(items) /\ it \in Items /\ put \in Nat
    BY <1>1 DEF StreamTypes
  <2> HIDE DEF it
  <2>2. b = Encoded(it)
    BY DEF b, Bytes, it
  <2> QED
    BY <1>1, <2>1, <2>2, ItemBytes, ItemFacts
<1> HIDE DEF b
<1>5. rest \in Seq(Byte) /\ Len(rest) = Len(b) - put /\ \A j \in 1 .. Len(b) - put : rest[j] = b[put + j]
  <2>1. put + 1 \in Int /\ Len(b) \in Int /\ put + 1 <= Len(b)
        /\ \A i \in put + 1 .. Len(b) : b[i] \in Byte
    BY <1>4
  <2>2. /\ rest \in Seq(Byte) /\ Len(rest) = Len(b) - (put + 1) + 1
        /\ \A j \in 1 .. Len(b) - (put + 1) + 1 : rest[j] = b[(put + 1) + j - 1]
    BY <2>1, SubSeqProperties
  <2>3. Len(b) - (put + 1) + 1 = Len(b) - put
    BY <1>4
  <2> HIDE DEF rest
  <2>4. ASSUME NEW j \in 1 .. Len(b) - put PROVE rest[j] = b[put + j]
    <3>1. (put + 1) + j - 1 = put + j
      BY <1>4
    <3> QED
      BY <2>2, <2>3, <3>1
  <2> QED
    BY <2>2, <2>3, <2>4
<1>6. /\ bytes \in Seq(Byte) /\ Len(bytes) \in 1 .. Len(b) - put
      /\ (it.kind # "data" => Len(bytes) = 1)
      /\ \A j \in 1 .. Len(bytes) : bytes[j] = b[put + j]
  <2> HIDE DEF rest, it
  <2>1. CASE it.kind = "data"
    BY <1>4, <1>5, <2>1
  <2>2. CASE it.kind # "data"
    <3>1. bytes = <<rest[1]>> /\ rest[1] \in Byte /\ rest[1] = b[put + 1]
      BY <1>4, <1>5, <2>2
    <3> HIDE DEF bytes
    <3>2. bytes \in Seq(Byte) /\ Len(bytes) = 1 /\ bytes[1] = b[put + 1]
      BY <3>1
    <3> QED
      BY <1>4, <3>2
  <2> QED
    BY <2>1, <2>2
<1> HIDE DEF rest, bytes, it
<1> DEFINE d == IF it.kind = "data" THEN n ELSE 1
<1>7. d \in 0 .. Len(b) - put /\ n <= d /\ n \in Nat /\ put' = put + d /\ d \in Nat
      /\ total_write' = total_write + n
  BY <1>2, <1>4, <1>6 DEF Returned
<1>8. /\ disk' \in Seq(Byte) /\ buffer' \in Seq(Byte) /\ werr' \in BOOLEAN
      /\ W \in Seq(Byte) /\ V \in Seq(Byte) /\ Len(V) <= Len(W) + n
      /\ \A i \in 1 .. Len(V) : V[i] = IF i <= Len(W) THEN W[i] ELSE bytes[i - Len(W)]
      /\ (~werr' => ~werr /\ n = Len(bytes) /\ Len(V) = Len(W) + n)
  <2>1. disk \in Seq(Byte) /\ buffer \in Seq(Byte) /\ werr \in BOOLEAN
    BY <1>1 DEF StreamTypes
  <2> QED
    BY <1>2, <1>6, <2>1, FWriteFacts
<1> DEFINE B == AskedOf(wi, put + d)
<1>9. /\ A \in Seq(Byte) /\ B \in Seq(Byte) /\ Len(B) = Len(A) + d
      /\ \A i \in 1 .. Len(A) + d : B[i] = IF i <= Len(A) THEN A[i] ELSE b[put + i - Len(A)]
  <2> HIDE DEF d
  <2>1. put + d <= Len(Bytes(wi)) /\ put \in Nat
    BY <1>4, <1>7 DEF b
  <2>2. items \in Seq(Items) /\ wi \in 1 .. Len(items) /\ d \in Nat
    BY <1>1, <1>4, <1>7 DEF StreamTypes
  <2> QED
    BY <2>1, <2>2, AskedMore DEF b
<1>10. Asked = A /\ Asked' = B
  <2> HIDE DEF d
  <2> QED
    BY <1>1, <1>7, AskedIs
<1> HIDE DEF A, B, W, V, d
<1>11. Len(A) \in Nat /\ Len(W) \in Nat /\ Len(V) \in Nat /\ Len(bytes) \in Nat
  BY <1>6, <1>8, <1>9
<1>12. ASSUME W = A
       PROVE  Len(V) <= Len(B) /\ \A i \in 1 .. Len(V) : V[i] = B[i]
  <2>1. Len(V) <= Len(A) + n /\ Len(V) <= Len(B)
    BY <1>7, <1>8, <1>9, <1>11, <1>12
  <2>2. ASSUME NEW i \in 1 .. Len(V) PROVE V[i] = B[i]
    <3>1. i \in 1 .. Len(A) + d
      BY <1>7, <1>11, <2>1
    <3>2. B[i] = IF i <= Len(A) THEN A[i] ELSE b[put + i - Len(A)]
      BY <1>9, <3>1
    <3>3. V[i] = IF i <= Len(A) THEN A[i] ELSE bytes[i - Len(A)]
      BY <1>8, <1>12
    <3>4. ASSUME ~(i <= Len(A)) PROVE bytes[i - Len(A)] = b[put + i - Len(A)]
      <4>1. i - Len(A) \in 1 .. n /\ n <= Len(bytes)
        BY <1>2, <1>11, <2>1, <3>4
      <4>2. i - Len(A) \in 1 .. Len(bytes) /\ put + (i - Len(A)) = put + i - Len(A)
        BY <1>4, <1>7, <1>11, <4>1
      <4> QED
        BY <1>6, <4>2
    <3> QED
      BY <3>2, <3>3, <3>4
  <2> QED
    BY <2>1, <2>2
<1>13. StreamTypes'
  <2>1. phase' \in {"check", "put"} /\ put' \in Nat /\ total_write' \in Nat
    BY <1>1, <1>3, <1>4, <1>7 DEF StreamTypes
  <2>2. rpos' = 0
    BY <1>1 DEF Place, Writing, readVars
  <2>3. 0 \in 0 .. Len(disk')
    BY <1>8
  <2> QED
    BY <1>1, <1>8, <2>1, <2>2, <2>3 DEF StreamTypes, readVars
<1>14. Place'
  <2>1. phase' \in {"check", "put"} /\ Writing /\ Writing'
    BY <1>1, <1>3 DEF Writing
  <2>2. put' <= Len(b) /\ (phase' = "put" => put' < Len(b))
    BY <1>3, <1>4, <1>7
  <2>3. Bytes(wi)' = b /\ ~(wi' > Len(items')) /\ wi' <= Len(items')
    BY <1>1, <1>4 DEF b, Bytes
  <2> QED
    BY <1>1, <2>1, <2>2, <2>3 DEF Place, readVars
<1>15. Written'
  <2>1. ASSUME ~werr' PROVE V = B /\ total_write' = Len(B) /\ ~spilt'
    <3>1. ~werr /\ n = Len(bytes) /\ Len(V) = Len(W) + n
      BY <1>8, <2>1
    <3>2. ~spilt /\ W = A /\ total_write = Len(A)
      BY <1>1, <1>10, <3>1 DEF Written, Place, Writing, W
    <3>3. d = n
      BY <1>6, <1>7, <3>1 DEF d
    <3>4. Len(V) = Len(B)
      BY <1>9, <3>1, <3>2, <3>3
    <3>5. V = B
      BY <1>8, <1>9, <1>12, <3>2, <3>4, SeqEqual
    <3> QED
      BY <1>1, <1>7, <1>9, <3>2, <3>3, <3>5
  <2>2. AllBut(V, B, Digits - 1)
        /\ (werr' /\ phase' = "put" => it.kind = "int" /\ put' > 0 /\ AllBut(V, B, put' - 1))
    <3>1. CASE ~werr
      <4>1. W = A
        BY <1>1, <1>10, <3>1 DEF Written, Place, Writing, W
      <4>2. \A k \in Nat : AllBut(V, B, k)
        BY <1>8, <1>9, <1>12, <4>1, PrefixIsAllBut
      <4>3. Digits - 1 \in Nat
        OBVIOUS
      <4>4. ASSUME phase' = "put" PROVE it.kind = "int" /\ put' > 0 /\ put' - 1 \in Nat
        <5>1. it.kind # "data" /\ put' = put + 1 /\ put' # Len(b)
          BY <1>3, <1>7, <4>4 DEF d
        <5>2. ASSUME it.kind = "flag" PROVE FALSE
          <6>1. Len(b) = 1
            BY <1>4, <5>2
          <6>2. put = 0
            BY <1>4, <6>1
          <6> QED
            BY <5>1, <6>1, <6>2
        <5> QED
          BY <1>4, <5>1, <5>2
      <4> QED
        BY <4>2, <4>3, <4>4
    <3>2. CASE werr
      <4>1. it.kind = "int" /\ put > 0 /\ AllBut(W, A, put - 1)
        BY <1>1, <1>10, <3>2 DEF Written, W, it
      <4>2. d = 1 /\ Len(B) = Len(A) + 1 /\ put' = put + 1 /\ Len(V) <= Len(W) + 1
        BY <1>7, <1>8, <1>9, <1>11, <4>1 DEF d
      <4>3. \A i \in 1 .. Len(V) : i <= Len(W) => V[i] = W[i]
        BY <1>8
      <4>4. Len(A) <= Len(B) /\ \A i \in 1 .. Len(A) : B[i] = A[i]
        <5>1. \A i \in 1 .. Len(A) : i \in 1 .. Len(A) + d /\ i <= Len(A)
          BY <1>7, <1>11
        <5> QED
          BY <1>9, <1>11, <4>2, <5>1
      <4>5. put - 1 \in Nat /\ 1 \in Nat
        BY <1>4, <4>1
      <4>6. AllBut(V, B, (put - 1) + 1)
        BY <1>8, <1>9, <4>1, <4>2, <4>3, <4>4, <4>5, AllButGrown
      <4>7. (put - 1) + 1 = put' - 1 /\ put' - 1 \in Nat /\ put' > 0 /\ put' - 1 <= Digits - 1
            /\ Digits - 1 \in Nat
        BY <1>4, <4>1, <4>2
      <4>8. AllBut(V, B, put' - 1)
        BY <4>6, <4>7
      <4>9. AllBut(V, B, Digits - 1)
        <5> DEFINE k == put' - 1
        <5>1. k \in Nat /\ k <= Digits - 1 /\ AllBut(V, B, k)
          BY <4>7, <4>8
        <5> HIDE DEF k
        <5> QED
          BY <1>8, <1>9, <4>7, <5>1, AllButWeaker
      <4> QED
        BY <4>1, <4>7, <4>8, <4>9
    <3> QED
      BY <1>1, <3>1, <3>2 DEF StreamTypes
  <2>3. wi' <= Len(items') /\ items'[wi'] = it
    BY <1>1 DEF it
  <2> QED
    BY <1>10, <2>1, <2>2, <2>3 DEF Written, V
<1>16. ReadPlace' /\ InStep' /\ WhatIsWholeComesBack'
  <2>1. items' \in Seq(Items) /\ phase' \notin {"get", "checkread", "test"}
        /\ rpos' = 0 /\ ~pushed' /\ ~rerr' /\ part' = <<>> /\ got' = <<>>
    BY <1>1, <1>3 DEF StreamTypes, Place, Writing, readVars
  <2> QED
    BY <2>1, Unread
<1> QED
  BY <1>13, <1>14, <1>15, <1>16 DEF StreamsInv
(* After an error Encode puts nothing any more; before, it goes to the next item. *)
LEMMA CheckWriteKeeps ==
  ASSUME StreamsInv, CheckWrite
  PROVE  StreamsInv'
<1>1. /\ StreamTypes /\ Place /\ Written /\ phase = "check" /\ wi <= Len(items)
      /\ UNCHANGED <<items, disk, buffer, werr, total_write, spilt, readVars>>
  BY DEF StreamsInv, CheckWrite, Place
<1>2. \/ werr /\ phase' = "close" /\ UNCHANGED <<wi, put>>
      \/ ~werr /\ phase' = "put" /\ put = Len(Bytes(wi)) /\ wi' = wi + 1 /\ put' = 0
      \/ ~werr /\ phase' = "put" /\ put # Len(Bytes(wi)) /\ UNCHANGED <<wi, put>>
  BY DEF CheckWrite, GoesOn, Bytes
<1>3. /\ Len(items) \in Nat /\ wi \in 1 .. Len(items) /\ put \in 0 .. Len(Bytes(wi))
      /\ Len(Bytes(wi)) \in Nat \ {0}
      /\ wi + 1 <= Len(items) => Len(Bytes(wi + 1)) \in Nat \ {0}
  <2>1. /\ Len(items) \in Nat /\ wi \in 1 .. Len(items) /\ items[wi] \in Items
        /\ wi + 1 <= Len(items) => items[wi + 1] \in Items
    BY <1>1 DEF StreamTypes
  <2>2. put \in Nat /\ put <= Len(Bytes(wi))
    BY <1>1, <2>1 DEF StreamTypes, Place
  <2> QED
    BY <2>1, <2>2, ItemBytes DEF Bytes
<1>4. Bytes(wi)' = IF wi' = wi THEN Bytes(wi) ELSE Bytes(wi + 1)
  BY <1>1, <1>2 DEF Bytes
<1>5. Asked' = Asked
  <2>1. Asked = AskedOf(wi, put) /\ Asked' = AskedOf(wi', put')
    BY <1>1, AskedIs
  <2>2. AskedOf(wi + 1, 0) = AskedOf(wi, Len(Bytes(wi)))
    BY <1>1, <1>3, AskedNext DEF StreamTypes
  <2> QED
    BY <1>2, <2>1, <2>2
<1>6. wi' \in 1 .. Len(items) + 1 /\ put' \in Nat /\ phase' \in {"put", "close"}
  BY <1>1, <1>2, <1>3
<1>7. StreamTypes'
  BY <1>1, <1>6 DEF StreamTypes, readVars
<1>8. Place'
  <2>1. Writing /\ Writing'
    BY <1>1, <1>6 DEF Writing
  <2>2. put' <= IF wi' > Len(items') THEN 0 ELSE Len(Bytes(wi)')
    BY <1>1, <1>2, <1>3, <1>4
  <2>3. phase' = "put" /\ wi' <= Len(items') => put' < Len(Bytes(wi)')
    BY <1>1, <1>2, <1>3, <1>4
  <2> QED
    BY <1>1, <1>6, <2>1, <2>2, <2>3 DEF Place, readVars
<1>9. Written'
  BY <1>1, <1>2, <1>5 DEF Written
<1>10. ReadPlace' /\ InStep' /\ WhatIsWholeComesBack'
  <2>1. items' \in Seq(Items) /\ phase' \notin {"get", "checkread", "test"}
        /\ rpos' = 0 /\ ~pushed' /\ ~rerr' /\ part' = <<>> /\ got' = <<>>
    BY <1>1, <1>6 DEF StreamTypes, Place, Writing, readVars
  <2> QED
    BY <2>1, Unread
<1> QED
  BY <1>7, <1>8, <1>9, <1>10 DEF StreamsInv

(* The last item has been put. *)
LEMMA EndPutKeeps ==
  ASSUME StreamsInv, EndPut
  PROVE  StreamsInv'
<1>1. /\ StreamTypes /\ Place /\ Written /\ phase = "put" /\ phase' = "close" /\ wi > Len(items)
      /\ UNCHANGED <<writeVars, readVars>>
  BY DEF StreamsInv, EndPut
<1>2. items' = items /\ wi' = wi /\ put' = put /\ Bytes(wi)' = Bytes(wi) /\ Asked' = Asked
  BY <1>1 DEF writeVars, Bytes, Asked
<1>3. StreamTypes'
  BY <1>1 DEF StreamTypes, writeVars, readVars
<1>4. Place'
  BY <1>1, <1>2 DEF Place, Writing, writeVars, readVars
<1>5. Written'
  BY <1>1, <1>2 DEF Written, writeVars
<1>6. ReadPlace' /\ InStep' /\ WhatIsWholeComesBack'
  <2>1. items' \in Seq(Items) /\ phase' \notin {"get", "checkread", "test"}
        /\ rpos' = 0 /\ ~pushed' /\ ~rerr' /\ part' = <<>> /\ got' = <<>>
    BY <1>1 DEF StreamTypes, Place, Writing, writeVars, readVars
  <2> QED
    BY <2>1, Unread
<1> QED
  BY <1>3, <1>4, <1>5, <1>6 DEF StreamsInv

(* What the last flush loses is the end of the file. *)
LEMMA CloseKeeps ==
  ASSUME StreamsInv, Close
  PROVE  StreamsInv'
<1> DEFINE W == disk \o buffer
<1>1. /\ StreamTypes /\ Place /\ Written /\ phase = "close" /\ phase' = "test" /\ buffer' = <<>>
      /\ UNCHANGED <<items, wi, put, werr, total_write, readVars>>
  BY DEF StreamsInv, Close
<1>2. PICK k \in 0 .. Len(buffer) :
        disk' = disk \o SubSeq(buffer, 1, k) /\ spilt' = (k < Len(buffer))
  BY DEF Close
<1>3. /\ disk \in Seq(Byte) /\ buffer \in Seq(Byte) /\ Len(disk) \in Nat /\ Len(buffer) \in Nat
      /\ W \in Seq(Byte) /\ Len(W) = Len(disk) + Len(buffer)
  BY <1>1, ConcatProperties DEF StreamTypes
<1>4. /\ disk' \in Seq(Byte) /\ Len(disk') = Len(disk) + k
      /\ \A i \in 1 .. Len(disk) + k : disk'[i] = W[i]
  BY <1>2, <1>3, CutAndJoined
<1>5. disk' \o buffer' = disk'
  BY <1>1, <1>4, ConcatEmptySeq
<1>6. items' = items /\ wi' = wi /\ put' = put /\ Bytes(wi)' = Bytes(wi) /\ Asked' = Asked
  BY <1>1 DEF Bytes, Asked
<1> HIDE DEF W
<1>7. Asked \in Seq(Byte)
  <2>1. InItem(wi, put)
    BY <1>1 DEF StreamTypes, Place, InItem
  <2> QED
    BY <1>1, <2>1, AskedIs, AskedFacts DEF StreamTypes
<1>8. StreamTypes'
  <2>1. rpos' = 0 /\ 0 \in 0 .. Len(disk') /\ spilt' \in BOOLEAN
    BY <1>1, <1>2, <1>4 DEF Place, Writing, readVars
  <2>2. <<>> \in Seq(Byte)
    BY EmptySeq
  <2> QED
    BY <1>1, <1>4, <2>1, <2>2 DEF StreamTypes, readVars
<1>9. Place'
  BY <1>1, <1>6 DEF Place, Writing
<1>10. Written'
  <2>1. AllBut(disk', Asked, Digits - 1)
    <3>1. AllBut(W, Asked, Digits - 1)
      BY <1>1 DEF Written, W
    <3>2. Len(disk') <= Len(W) + 0 /\ \A i \in 1 .. Len(disk') : i <= Len(W) => disk'[i] = W[i]
      BY <1>3, <1>4
    <3>3. Digits - 1 \in Nat /\ 0 \in Nat /\ (Digits - 1) + 0 = Digits - 1
      BY StreamsAssumption
    <3>4. AllBut(disk', Asked, (Digits - 1) + 0)
      <4> DEFINE k0 == Digits - 1
                 a == Asked
      <4>1. k0 \in Nat /\ AllBut(W, a, k0) /\ a \in Seq(Byte) /\ Len(a) <= Len(a)
        BY <1>7, <3>1, <3>3
      <4> HIDE DEF k0, a
      <4>2. AllBut(disk', a, k0 + 0)
        BY <1>3, <1>4, <3>2, <3>3, <4>1, AllButGrown
      <4> QED
        BY <4>2 DEF k0, a
    <3> QED
      BY <3>3, <3>4
  <2>2. ASSUME ~werr
        PROVE  total_write = Len(Asked) /\ IF spilt' THEN IsPrefix(disk', Asked) ELSE disk' = Asked
    <3>1. W = Asked /\ total_write = Len(Asked)
      BY <1>1, <2>2 DEF Written, Place, Writing, W
    <3>2. Len(disk') <= Len(Asked) /\ \A i \in 1 .. Len(disk') : disk'[i] = Asked[i]
      BY <1>3, <1>4, <3>1
    <3>3. IsPrefix(disk', Asked)
      <4>1. SubSeq(disk', 1, Len(disk')) = disk'
        BY <1>4, SubSeqFull
      <4>2. SubSeq(Asked, 1, Len(disk')) = disk'
        <5> DEFINE a == SubSeq(Asked, 1, Len(disk'))
        <5>1. a \in Seq(Byte) /\ Len(a) = Len(disk') /\ \A i \in 1 .. Len(a) : a[i] = Asked[i]
          BY <1>4, <1>7, <3>2
        <5> HIDE DEF a
        <5>2. a = disk'
          BY <1>4, <3>2, <5>1, SeqEqual
        <5> QED
          BY <5>2 DEF a
      <4> QED
        BY <3>2, <4>1, <4>2 DEF IsPrefix
    <3>4. ~spilt' => disk' = Asked
      <4>1. ~spilt' => Len(disk') = Len(Asked)
        <5>1. ~spilt' => ~(k < Len(buffer))
          BY <1>2, Zenon
        <5>2. ~(k < Len(buffer)) => k = Len(buffer)
          BY <1>3
        <5> QED
          BY <1>3, <1>4, <3>1, <5>1, <5>2
      <4> QED
        BY <1>4, <1>7, <3>2, <4>1, SeqEqual
    <3> QED
      BY <3>1, <3>3, <3>4
  <2> QED
    BY <1>1, <1>5, <1>6, <2>1, <2>2 DEF Written
<1>11. ReadPlace' /\ InStep' /\ WhatIsWholeComesBack'
  <2>1. items' \in Seq(Items) /\ phase' = "test"
        /\ rpos' = 0 /\ ~pushed' /\ ~rerr' /\ part' = <<>> /\ got' = <<>>
    BY <1>1 DEF StreamTypes, Place, Writing, readVars
  <2> QED
    BY <2>1, Unread
<1> QED
  BY <1>8, <1>9, <1>10, <1>11 DEF StreamsInv
-----------------------------------------------------------------------------
(***************************************************************************)
(* Decode reads.                                                           *)
(***************************************************************************)
LEMMA PrefixByIndex ==
  ASSUME NEW s \in Seq(Byte), NEW t \in Seq(Byte)
  PROVE  IsPrefix(s, t) <=> Len(s) <= Len(t) /\ \A i \in 1 .. Len(s) : s[i] = t[i]
<1>1. ASSUME Len(s) <= Len(t)
      PROVE  SubSeq(s, 1, Len(s)) = SubSeq(t, 1, Len(s)) <=> \A i \in 1 .. Len(s) : s[i] = t[i]
  <2> DEFINE a == SubSeq(t, 1, Len(s))
  <2>1. a \in Seq(Byte) /\ Len(a) = Len(s) /\ \A i \in 1 .. Len(s) : a[i] = t[i]
    BY <1>1
  <2>2. SubSeq(s, 1, Len(s)) = s
    BY SubSeqFull
  <2> HIDE DEF a
  <2>3. s = a <=> \A i \in 1 .. Len(s) : s[i] = t[i]
    BY <2>1, SeqEqual
  <2> QED
    BY <2>2, <2>3 DEF a
<1> QED
  BY <1>1 DEF IsPrefix

(* In a file that has an item, its bytes stand behind those of the items     *)
(* before it, which the file has as well.                                    *)
LEMMA WholeItem ==
  ASSUME items \in Seq(Items), disk \in Seq(Byte), NEW k \in 1 .. Len(items),
         IsPrefix(Stream(items)[k], disk)
  PROVE  LET P == Stream(items)[k - 1]
             b == Encoded(items[k])
         IN  /\ IsPrefix(P, disk) /\ Len(P) \in Nat /\ Len(b) \in Nat
             /\ Len(Stream(items)[k]) = Len(P) + Len(b) /\ Len(P) + Len(b) <= Len(disk)
             /\ \A i \in 1 .. Len(b) : disk[Len(P) + i] = b[i]
<1> DEFINE P == Stream(items)[k - 1]
           Q == Stream(items)[k]
           b == Encoded(items[k])
<1>1. k - 1 \in 0 .. Len(items) /\ k \in 0 .. Len(items) /\ items[k] \in Items
  OBVIOUS
<1>2. P \in Seq(Byte) /\ Q \in Seq(Byte) /\ Q = P \o b /\ b \in Seq(Byte)
  BY <1>1, StreamSteps, ItemBytes
<1>3. IsPrefix(Q, disk)
  OBVIOUS
<1> HIDE DEF P, Q, b
<1>4. Len(Q) <= Len(disk) /\ \A i \in 1 .. Len(Q) : Q[i] = disk[i]
  BY <1>2, <1>3, PrefixByIndex
<1>5. /\ Len(Q) = Len(P) + Len(b) /\ Len(P) \in Nat /\ Len(b) \in Nat
      /\ \A i \in 1 .. Len(P) + Len(b) : Q[i] = IF i <= Len(P) THEN P[i] ELSE b[i - Len(P)]
  BY <1>2, ConcatProperties
<1>6. Len(P) <= Len(disk) /\ \A i \in 1 .. Len(P) : P[i] = disk[i]
  <2>1. Len(P) <= Len(disk)
    BY <1>4, <1>5
  <2>2. ASSUME NEW i \in 1 .. Len(P) PROVE P[i] = disk[i]
    <3>1. i \in 1 .. Len(P) + Len(b) /\ i \in 1 .. Len(Q) /\ i <= Len(P)
      BY <1>5
    <3> QED
      BY <1>4, <1>5, <3>1
  <2> QED
    BY <2>1, <2>2
<1>7. IsPrefix(P, disk)
  BY <1>2, <1>6, PrefixByIndex
<1>8. ASSUME NEW i \in 1 .. Len(b) PROVE disk[Len(P) + i] = b[i]
  <2> DEFINE j == Len(P) + i
  <2>1. j \in 1 .. Len(P) + Len(b) /\ j \in 1 .. Len(Q) /\ ~(j <= Len(P)) /\ j - Len(P) = i
    BY <1>5
  <2> HIDE DEF j
  <2>2. Q[j] = b[i] /\ Q[j] = disk[j]
    BY <1>4, <1>5, <2>1
  <2> QED
    BY <2>2 DEF j
<1> QED
  BY <1>4, <1>5, <1>7, <1>8 DEF P, Q, b

(* Reading changes nothing of what was written. *)
LEMMA ReadingKeeps ==
  ASSUME Place, Written, ~Writing, UNCHANGED writeVars,
         phase' \in {"test", "get", "checkread", "end"}
  PROVE  Place' /\ Written'
<1>1. Bytes(wi)' = Bytes(wi) /\ Asked' = Asked
  BY DEF writeVars, Bytes, Asked
<1>2. phase' \notin {"put", "check", "close"}
  OBVIOUS
<1>3. Place'
  BY <1>1, <1>2 DEF Place, Writing, writeVars
<1>4. Written'
  BY <1>1, <1>2 DEF Written, writeVars
<1> QED
  BY <1>3, <1>4


(* An item more has been got. *)
LEMMA ItemGot ==
  ASSUME StreamsInv, ~Writing, UNCHANGED writeVars, Len(got) < Len(items),
         NEW x \in Seq(Int), got' = Append(got, x), part' = <<>>,
         phase' = "test", rpos' = rpos, pushed' \in BOOLEAN, rerr' \in BOOLEAN, total_read' = total_read,
         pushed' => rpos < Len(disk),
         rerr => rerr',
         rerr' => DataBy(Len(got) + 1),
         ~rerr' /\ IsPrefix(Stream(items)[Len(got) + 1], disk) =>
           rpos = Len(Stream(items)[Len(got)]) + Len(Encoded(Item)) /\ x = Item.v
  PROVE  StreamsInv'
<1> DEFINE g == Len(got)
<1>1. /\ StreamTypes /\ Place /\ Written /\ InStep /\ WhatIsWholeComesBack
      /\ items' = items /\ disk' = disk /\ items \in Seq(Items) /\ Len(items) \in Nat
      /\ disk \in Seq(Byte) /\ got \in Seq(Seq(Int)) /\ g \in Nat
  BY DEF StreamsInv, StreamTypes, writeVars
<1>2. /\ got' \in Seq(Seq(Int)) /\ Len(got') = g + 1 /\ got'[g + 1] = x
      /\ \A k \in 1 .. g : got'[k] = got[k]
  BY <1>1, AppendProperties
<1>3. Len(part') = 0 /\ part' \in Seq(Byte)
  BY EmptySeq
<1>4. Item = items[g + 1] /\ g + 1 \in 1 .. Len(items)
  BY <1>1 DEF Item
<1> HIDE DEF g
<1>5. StreamTypes'
  BY <1>1, <1>2, <1>3 DEF StreamTypes, writeVars, g
<1>6. Place' /\ Written'
  BY <1>1, ReadingKeeps
<1>7. ReadPlace'
  <2>1. ASSUME Len(got') < Len(items') PROVE Len(part') <= Len(Encoded(Item'))
    <3>1. Item' = items[g + 2] /\ items[g + 2] \in Items
      <4>1. (g + 1) + 1 = g + 2 /\ g + 2 \in 1 .. Len(items)
        BY <1>1, <1>2, <2>1
      <4>2. Item' = items'[Len(got') + 1]
        BY DEF Item
      <4>3. items[g + 2] \in Items
        BY <1>1, <4>1
      <4> QED
        BY <1>1, <1>2, <4>1, <4>2, <4>3
    <3>2. Len(Encoded(Item')) \in Nat
      BY <3>1, ItemBytes
    <3> QED
      BY <1>3, <3>2
  <2> QED
    BY <1>1, <2>1 DEF ReadPlace
<1>8. InStep'
  <2>1. ASSUME rerr' PROVE DataBy(Len(got))'
    <3>1. PICK j \in 1 .. g + 1 : items[j].kind = "data"
      BY <2>1 DEF DataBy, g
    <3> QED
      BY <1>1, <1>2, <3>1 DEF DataBy
  <2>2. ASSUME ~rerr', Len(got') < Len(items'), IsPrefix(Stream(items')[Len(got') + 1], disk')
        PROVE  /\ rpos' = Len(Stream(items')[Len(got')]) + Len(part')
               /\ IsPrefix(part', Encoded(Item'))
    <3>1. g + 2 \in 1 .. Len(items) /\ g + 1 \in 1 .. Len(items) /\ (g + 1) + 1 = g + 2
          /\ (g + 2) - 1 = g + 1 /\ (g + 1) - 1 = g
      BY <1>1, <1>2, <2>2
    <3>2. IsPrefix(Stream(items)[g + 2], disk)
      BY <1>1, <1>2, <2>2, <3>1
    <3>3. IsPrefix(Stream(items)[g + 1], disk)
      BY <1>1, <3>1, <3>2, WholeItem
    <3>4. rpos = Len(Stream(items)[g]) + Len(Encoded(items[g + 1]))
      BY <1>4, <2>2, <3>3 DEF g
    <3>5. /\ Len(Stream(items)[g + 1]) = Len(Stream(items)[g]) + Len(Encoded(items[g + 1]))
          /\ Len(Stream(items)[g]) \in Nat /\ Len(Encoded(items[g + 1])) \in Nat
      BY <1>1, <3>1, <3>3, WholeItem
    <3>6. rpos' = Len(Stream(items')[Len(got')]) + Len(part')
      BY <1>1, <1>2, <1>3, <3>4, <3>5
    <3>7. Encoded(Item') \in Seq(Byte) /\ Len(Encoded(Item')) \in Nat
      <4>1. Item' = items[g + 2]
        BY <1>1, <1>2, <3>1 DEF Item
      <4>2. items[g + 2] \in Items
        BY <1>1, <3>1
      <4> QED
        BY <4>1, <4>2, ItemBytes
    <3>8. IsPrefix(part', Encoded(Item'))
      <4>1. Len(part') <= Len(Encoded(Item')) /\ \A i \in 1 .. Len(part') : part'[i] = Encoded(Item')[i]
        BY <1>3, <3>7
      <4> QED
        BY <1>3, <3>7, <4>1, PrefixByIndex
    <3> QED
      BY <3>6, <3>8
  <2> QED
    BY <2>1, <2>2 DEF InStep, Item, DataBy
<1>9. WhatIsWholeComesBack'
  <2> SUFFICES ASSUME NEW k \in 1 .. g + 1, IsPrefix(Stream(items)[k], disk)
               PROVE  got'[k] = items[k].v \/ (rerr' /\ \E j \in 1 .. k : items[j].kind = "data")
    BY <1>1, <1>2 DEF WhatIsWholeComesBack
  <2>1. CASE k \in 1 .. g
    <3>1. got[k] = items[k].v \/ (rerr /\ \E j \in 1 .. k : items[j].kind = "data")
      BY <1>1, <2>1 DEF WhatIsWholeComesBack, g
    <3> QED
      BY <1>2, <2>1, <3>1
  <2>2. CASE k \notin 1 .. g
    <3>1. k = g + 1
      BY <1>1, <2>2
    <3>2. CASE rerr'
      BY <3>1, <3>2 DEF DataBy, g
    <3>3. CASE ~rerr'
      <4>1. x = items[g + 1].v
        BY <1>4, <3>1, <3>3 DEF g
      <4> QED
        BY <1>2, <3>1, <4>1
    <3> QED
      BY <3>2, <3>3
  <2> QED
    BY <2>1, <2>2
<1> QED
  BY <1>5, <1>6, <1>7, <1>8, <1>9 DEF StreamsInv
(* What is true of an item about to be got. *)
LEMMA ItemIs ==
  ASSUME StreamTypes, Len(got) < Len(items)
  PROVE  /\ Len(got) \in Nat /\ Len(got) + 1 \in 1 .. Len(items) /\ Item = items[Len(got) + 1]
         /\ Item \in Items /\ Encoded(Item) \in Seq(Byte) /\ Len(Encoded(Item)) \in Nat \ {0}
         /\ Item.kind \in {"flag", "int", "data"}
         /\ (Item.kind = "flag" => Len(Encoded(Item)) = 1)
         /\ (Item.kind = "int" => Len(Encoded(Item)) = Digits)
         /\ (Item.kind = "data" => Encoded(Item) = Item.v)
<1>1. /\ items \in Seq(Items) /\ got \in Seq(Seq(Int)) /\ Len(got) \in Nat /\ Len(items) \in Nat
      /\ Len(got) + 1 \in 1 .. Len(items)
  BY DEF StreamTypes
<1>2. Item \in Items
  BY <1>1 DEF Item
<1> QED
  BY <1>1, <1>2, ItemBytes, ItemFacts DEF Item

(* Item' and what is read off it, when no item is got. *)
LEMMA SameItem ==
  ASSUME items' = items, got' = got, disk' = disk
  PROVE  /\ Item' = Item /\ (DataBy(Len(got))' <=> DataBy(Len(got)))
         /\ (rerr => rerr') /\ WhatIsWholeComesBack => WhatIsWholeComesBack'
<1>1. Item' = Item
  BY DEF Item
<1>2. DataBy(Len(got))' <=> DataBy(Len(got))
  BY DEF DataBy
<1>3. ASSUME rerr => rerr', WhatIsWholeComesBack PROVE WhatIsWholeComesBack'
  BY <1>3 DEF WhatIsWholeComesBack
<1> QED
  BY <1>1, <1>2, <1>3

(* IsEnd, also when an error makes it look like the end. *)
LEMMA TestKeeps ==
  ASSUME StreamsInv, Test
  PROVE  StreamsInv'
<1>1. /\ StreamTypes /\ Place /\ Written /\ ReadPlace /\ InStep /\ WhatIsWholeComesBack
      /\ phase = "test" /\ ~Writing /\ UNCHANGED writeVars /\ total_read' = total_read
  BY DEF StreamsInv, Test, Writing
<1>2. /\ items' = items /\ disk' = disk /\ Len(got) \in Nat /\ Len(items) \in Nat
      /\ Len(got) <= Len(items) /\ part \in Seq(Byte) /\ Len(part) \in Nat
      /\ rpos \in 0 .. Len(disk) /\ Len(disk) \in Nat /\ pushed \in BOOLEAN /\ rerr \in BOOLEAN
      /\ disk \in Seq(Byte) /\ items \in Seq(Items)
  BY <1>1 DEF StreamTypes, writeVars
<1>3. ASSUME phase' \in {"end", "get"}, rpos' = rpos, got' = got, part' = part,
             pushed' \in BOOLEAN, rerr' \in BOOLEAN, pushed' => rpos < Len(disk), rerr => rerr',
             phase' = "get" => /\ Len(got) < Len(items) /\ Len(part) < Len(Encoded(Item))
                               /\ (Item.kind = "flag" => pushed') /\ (rerr' => DataBy(Len(got)) \/ Item.kind # "flag")
      PROVE  StreamsInv'
  <2>1. /\ Item' = Item /\ (DataBy(Len(got))' <=> DataBy(Len(got))) /\ WhatIsWholeComesBack'
    BY <1>1, <1>2, <1>3, SameItem
  <2>2. StreamTypes'
    BY <1>1, <1>3 DEF StreamTypes, writeVars
  <2>3. Place' /\ Written'
    BY <1>1, <1>3, ReadingKeeps
  <2>4. ReadPlace'
    <3>1. Len(got) < Len(items) => Len(part) <= Len(Encoded(Item))
      BY <1>1 DEF ReadPlace
    <3> QED
      BY <1>2, <1>3, <2>1, <3>1 DEF ReadPlace
  <2>5. InStep'
    BY <1>1, <1>2, <1>3, <2>1 DEF InStep
  <2> QED
    BY <2>1, <2>2, <2>3, <2>4, <2>5 DEF StreamsInv
<1>4. CASE Len(got) = Len(items)
  <2>1. phase' = "end" /\ UNCHANGED <<rpos, pushed, rerr, got, part>>
    BY <1>4 DEF Test
  <2>2. pushed => rpos < Len(disk)
    BY <1>1 DEF ReadPlace
  <2> QED
    BY <1>2, <1>3, <2>1, <2>2
<1>5. CASE Len(got) # Len(items)
  <2>1. Len(got) < Len(items)
    BY <1>2, <1>5
  <2>2. /\ Item = items[Len(got) + 1] /\ Len(got) + 1 \in 1 .. Len(items)
        /\ Encoded(Item) \in Seq(Byte) /\ Len(Encoded(Item)) \in Nat \ {0}
        /\ (Item.kind = "flag" => Len(Encoded(Item)) = 1)
        /\ (Item.kind = "data" => Encoded(Item) = Item.v)
    BY <1>1, <2>1, ItemIs
  <2>3. /\ (pushed => rpos < Len(disk)) /\ Len(part) <= Len(Encoded(Item))
        /\ (Item.kind # "data" => part = <<>>)
    BY <1>1, <2>1 DEF ReadPlace
  <2>4. rerr => DataBy(Len(got))
    BY <1>1 DEF InStep
  <2>5. CASE Item.kind = "int"
    <3>1. phase' = "get" /\ UNCHANGED <<rpos, pushed, rerr, got, part>>
      BY <1>5, <2>5 DEF Test
    <3>2. Len(part) < Len(Encoded(Item))
      BY <2>2, <2>3, <2>5
    <3> QED
      BY <1>2, <1>3, <2>1, <2>3, <2>4, <2>5, <3>1, <3>2
  <2>6. CASE Item.kind # "int"
    <3>1. PICK ends \in BOOLEAN :
            /\ IsEnd(ends)
            /\ IF Item.kind = "data" /\ DataRead(ends)
               THEN phase' = "test" /\ got' = Append(got, part) /\ part' = <<>>
               ELSE /\ phase' = IF Item.kind = "flag" /\ ends THEN "end" ELSE "get"
                    /\ UNCHANGED <<got, part>>
      BY <1>5, <2>6 DEF Test
    <3>2. /\ rpos' = rpos /\ pushed' \in BOOLEAN /\ rerr' \in BOOLEAN /\ (rerr => rerr')
          /\ (pushed' => rpos < Len(disk))
          /\ (~ends => pushed' /\ rerr' = rerr)
          /\ (ends /\ ~rerr' => rpos = Len(disk))
      <4>1. CASE rpos < Len(disk) /\ ends = FALSE /\ pushed' = TRUE /\ rpos' = rpos /\ UNCHANGED rerr
        BY <1>2, <4>1
      <4>2. CASE rpos = Len(disk) /\ ends = TRUE /\ UNCHANGED <<rpos, pushed, rerr>>
        BY <1>2, <2>3, <4>2
      <4>3. CASE ends = TRUE /\ ~pushed /\ rerr' = TRUE /\ UNCHANGED <<rpos, pushed>>
        BY <1>2, <2>3, <4>3
      <4> QED
        BY <3>1, <4>1, <4>2, <4>3, Zenon DEF IsEnd, Peek
    <3>3. CASE Item.kind = "data" /\ DataRead(ends)
      <4>1. phase' = "test" /\ got' = Append(got, part) /\ part' = <<>>
        BY <3>1, <3>3
      <4>2. part \in Seq(Int)
        <5>1. Byte \subseteq Int
          BY ByteIsNat
        <5> QED
          BY <1>2, <5>1, SeqMonotonic
      <4>3. DataBy(Len(got) + 1)
        <5>1. Len(got) + 1 \in 1 .. Len(got) + 1
          BY <1>2
        <5> QED
          BY <2>2, <3>3, <5>1 DEF DataBy
      <4>4. ASSUME ~rerr', IsPrefix(Stream(items)[Len(got) + 1], disk)
            PROVE  /\ rpos = Len(Stream(items)[Len(got)]) + Len(Encoded(Item)) /\ part = Item.v
        <5>1. ~rerr
          BY <3>2, <4>4
        <5>2. rpos = Len(Stream(items)[Len(got)]) + Len(part) /\ IsPrefix(part, Encoded(Item))
          BY <1>1, <2>1, <4>4, <5>1 DEF InStep
        <5>3. (Len(got) + 1) - 1 = Len(got)
          BY <1>2
        <5>4. /\ Len(Stream(items)[Len(got)]) \in Nat
              /\ Len(Stream(items)[Len(got)]) + Len(Encoded(Item)) <= Len(disk)
          BY <1>2, <2>2, <4>4, <5>3, WholeItem
        <5>5. Len(part) = Len(Encoded(Item))
          <6>1. CASE ends
            <7>1. rpos = Len(disk)
              BY <3>2, <4>4, <6>1
            <7> DEFINE p == Len(Stream(items)[Len(got)])
            <7>2. p \in Nat /\ Len(disk) = p + Len(part) /\ p + Len(Encoded(Item)) <= Len(disk)
              BY <5>2, <5>4, <7>1
            <7> HIDE DEF p
            <7> QED
              BY <1>2, <2>2, <2>3, <7>2
          <6>2. CASE ~ends
            BY <3>3, <6>2 DEF DataRead, Whole
          <6> QED
            BY <6>1, <6>2
        <5>6. part = Encoded(Item)
          <6>1. \A i \in 1 .. Len(part) : part[i] = Encoded(Item)[i]
            BY <1>2, <2>2, <5>2, PrefixByIndex
          <6> QED
            BY <1>2, <2>2, <5>5, <6>1, SeqEqual
        <5> QED
          BY <2>2, <3>3, <5>2, <5>5, <5>6
      <4> QED
        BY <1>1, <2>1, <3>2, <4>1, <4>2, <4>3, <4>4, ItemGot
    <3>4. CASE ~(Item.kind = "data" /\ DataRead(ends))
      <4>1. /\ phase' = IF Item.kind = "flag" /\ ends THEN "end" ELSE "get"
            /\ got' = got /\ part' = part
        BY <3>1, <3>4
      <4>2. ASSUME phase' = "get"
            PROVE  /\ Len(part) < Len(Encoded(Item)) /\ (Item.kind = "flag" => pushed')
                   /\ (rerr' => DataBy(Len(got)) \/ Item.kind # "flag")
        <5>1. CASE Item.kind = "flag"
          BY <2>2, <2>3, <2>4, <3>2, <4>1, <4>2, <5>1
        <5>2. CASE Item.kind = "data"
          <6>1. Len(part) # Len(Encoded(Item))
            BY <3>4, <5>2 DEF DataRead, Whole
          <6> QED
            BY <1>2, <2>2, <2>3, <5>2, <6>1
        <5> QED
          BY <1>1, <2>1, <2>6, <5>1, <5>2, ItemIs
      <4>3. phase' \in {"end", "get"}
        BY <4>1
      <4> QED
        BY <1>3, <2>1, <3>2, <4>1, <4>2, <4>3
    <3> QED
      BY <3>3, <3>4
  <2> QED
    BY <2>5, <2>6
<1> QED
  BY <1>4, <1>5

(* fread and fgetc, for all that is missing, part of it, or nothing. *)
LEMMA GetKeeps ==
  ASSUME StreamsInv, Get
  PROVE  StreamsInv'
<1>1. /\ StreamTypes /\ Place /\ Written /\ ReadPlace /\ InStep /\ WhatIsWholeComesBack
      /\ phase = "get" /\ ~Writing /\ UNCHANGED writeVars /\ got' = got /\ Len(got) < Len(items)
      /\ phase' = IF Item.kind # "int" \/ Whole(part') THEN "checkread" ELSE "get"
  BY DEF StreamsInv, Get, Writing, ReadPlace
<1> DEFINE b == Encoded(Item)
           len == IF Item.kind = "data" THEN Len(Item.v) - Len(part) ELSE 1
           there == IF len < Len(disk) - rpos THEN len ELSE Len(disk) - rpos
<1>2. /\ items' = items /\ disk' = disk /\ Len(got) \in Nat /\ Len(items) \in Nat
      /\ part \in Seq(Byte) /\ Len(part) \in Nat /\ total_read \in Nat
      /\ rpos \in 0 .. Len(disk) /\ Len(disk) \in Nat /\ pushed \in BOOLEAN /\ rerr \in BOOLEAN
      /\ disk \in Seq(Byte) /\ items \in Seq(Items)
  BY <1>1 DEF StreamTypes, writeVars
<1>3. /\ Item = items[Len(got) + 1] /\ Len(got) + 1 \in 1 .. Len(items)
      /\ b \in Seq(Byte) /\ Len(b) \in Nat
      /\ (Item.kind = "flag" => Len(b) = 1)
      /\ (Item.kind = "data" => b = Item.v)
      /\ Item.kind \in {"flag", "int", "data"}
  BY <1>1, ItemIs
<1>4. Len(part) < Len(b) /\ (Item.kind = "flag" => pushed) /\ (pushed => rpos < Len(disk))
  BY <1>1 DEF ReadPlace
<1>5. PICK n \in 0 .. len :
        /\ FRead(len, n) /\ total_read' = total_read + n
        /\ IF Item.kind # "data" /\ n = 0 THEN \E c \in Byte : part' = Append(part, c)
           ELSE part' = part \o SubSeq(disk, rpos + 1, rpos + n)
  BY DEF Get
<1>6. /\ len \in 1 .. Len(b) - Len(part) /\ (Item.kind = "data" => len = Len(b) - Len(part))
      /\ (Item.kind # "data" => len = 1)
  BY <1>2, <1>3, <1>4
<1> HIDE DEF b, len
<1>7. /\ rpos' = rpos + n /\ pushed' = (pushed /\ n = 0)
      /\ \/ n = there /\ UNCHANGED rerr
         \/ n \in (IF pushed THEN 1 ELSE 0) .. there /\ n < len /\ rerr' = TRUE
  BY <1>5 DEF FRead
<1>8. there \in 0 .. Len(disk) - rpos /\ there <= len /\ (pushed => there > 0)
  BY <1>2, <1>4, <1>6
<1>9. /\ n \in 0 .. there /\ n \in Nat /\ n <= Len(disk) - rpos /\ (pushed => n > 0)
      /\ (~rerr' => ~rerr /\ n = there) /\ rerr' \in BOOLEAN /\ (rerr => rerr')
      /\ (len = 1 /\ pushed => n = 1 /\ rerr' = rerr)
  <2> HIDE DEF there
  <2>1. CASE n = there /\ UNCHANGED rerr
    BY <1>2, <1>6, <1>8, <2>1
  <2>2. CASE n \in (IF pushed THEN 1 ELSE 0) .. there /\ n < len /\ rerr' = TRUE
    <3>1. there \in Nat /\ n \in Nat /\ len \in Nat /\ n < len /\ rerr' = TRUE
      BY <1>2, <1>3, <1>6, <1>8, <2>2
    <3>2. n \in 0 .. there /\ (pushed => n > 0)
      <4>1. CASE pushed
        <5>1. n \in 1 .. there
          BY <2>2, <4>1
        <5> QED
          BY <3>1, <5>1
      <4>2. CASE ~pushed
        <5>1. n \in 0 .. there
          BY <2>2, <4>2
        <5> QED
          BY <4>2, <5>1
      <4> QED
        BY <4>1, <4>2
    <3>3. n <= Len(disk) - rpos /\ ~(len = 1 /\ pushed)
      BY <1>2, <1>8, <3>1, <3>2
    <3> QED
      BY <3>1, <3>2, <3>3
  <2> QED
    BY <1>7, <2>1, <2>2
<1>10. rpos' \in 0 .. Len(disk) /\ pushed' = FALSE
  <2>1. rpos' \in 0 .. Len(disk)
    BY <1>2, <1>7, <1>9
  <2>2. pushed => n # 0
    BY <1>9
  <2> QED
    BY <1>7, <2>1, <2>2
<1> DEFINE q == SubSeq(disk, rpos + 1, rpos + n)
<1>11. q \in Seq(Byte) /\ Len(q) = n /\ \A i \in 1 .. n : q[i] = disk[rpos + i]
  <2>1. \A i \in rpos + 1 .. rpos + n : disk[i] \in Byte
    <3>1. \A i \in rpos + 1 .. rpos + n : i \in 1 .. Len(disk)
      BY <1>2, <1>9
    <3> QED
      BY <1>2, <3>1, ElementOfSeq
  <2>2. rpos + 1 \in Int /\ rpos + n \in Int /\ (rpos + n) - (rpos + 1) + 1 = n
        /\ (rpos + 1 <= rpos + n <=> n > 0)
    BY <1>2, <1>9
  <2>3. /\ q \in Seq(Byte) /\ Len(q) = IF rpos + 1 <= rpos + n THEN (rpos + n) - (rpos + 1) + 1 ELSE 0
        /\ \A i \in 1 .. (rpos + n) - (rpos + 1) + 1 : q[i] = disk[(rpos + 1) + i - 1]
    BY <2>1, <2>2, SubSeqProperties
  <2> HIDE DEF q
  <2>4. ASSUME NEW i \in 1 .. n PROVE q[i] = disk[rpos + i]
    <3>1. (rpos + 1) + i - 1 = rpos + i
      BY <1>2
    <3> QED
      BY <2>2, <2>3, <3>1
  <2> QED
    BY <1>9, <2>2, <2>3, <2>4
<1> HIDE DEF q, there
<1>12. /\ part' \in Seq(Byte) /\ Len(part') \in Nat /\ Len(part') <= Len(b)
       /\ (Item.kind # "data" => Len(part') = Len(part) + 1)
  <2>1. CASE Item.kind # "data" /\ n = 0
    <3>1. PICK c \in Byte : part' = Append(part, c)
      BY <1>5, <2>1
    <3> QED
      BY <1>2, <1>3, <1>4, <2>1, <3>1, AppendProperties
  <2>2. CASE ~(Item.kind # "data" /\ n = 0)
    <3>1. part' = part \o q
      BY <1>5, <2>2 DEF q
    <3>2. part' \in Seq(Byte) /\ Len(part') = Len(part) + n
      BY <1>2, <1>11, <3>1, ConcatProperties
    <3> QED
      BY <1>2, <1>3, <1>6, <1>8, <1>9, <2>2, <3>2
  <2> QED
    BY <2>1, <2>2
<1>13. Item' = Item /\ (DataBy(Len(got))' <=> DataBy(Len(got))) /\ WhatIsWholeComesBack'
  BY <1>1, <1>2, <1>9, SameItem
<1>14. phase' \in {"get", "checkread"} /\ (phase' = "get" => Item.kind = "int" /\ Len(part') # Len(b))
  BY <1>1 DEF Whole, b
<1>15. StreamTypes'
  <2>1. total_read' \in Nat
    BY <1>2, <1>5, <1>9
  <2> QED
    BY <1>1, <1>2, <1>9, <1>10, <1>12, <1>14, <2>1 DEF StreamTypes, writeVars
<1>16. Place' /\ Written'
  BY <1>1, <1>14, ReadingKeeps
<1>17. ReadPlace'
  <2>1. Encoded(Item') = b /\ Encoded(Item)' = b
    BY <1>13 DEF b
  <2>2. phase' = "get" => Len(part') < Len(b)
    BY <1>3, <1>12, <1>14
  <2>3. phase' = "checkread" => Item.kind = "data" \/ Whole(part)'
    <3>1. Item.kind = "flag" => Len(part') = Len(b)
      BY <1>2, <1>3, <1>4, <1>12
    <3>2. Whole(part)' <=> Len(part') = Len(b)
      BY <2>1 DEF Whole
    <3>3. Item.kind = "int" /\ phase' = "checkread" => Len(part') = Len(b)
      BY <1>1 DEF Whole, b
    <3> QED
      BY <1>3, <3>1, <3>2, <3>3
  <2> QED
    BY <1>1, <1>2, <1>10, <1>12, <1>13, <1>14, <2>1, <2>2, <2>3 DEF ReadPlace
<1>18. InStep'
  <2>1. ASSUME rerr', ~DataBy(Len(got)) PROVE Item.kind # "flag"
    <3> SUFFICES ASSUME Item.kind = "flag" PROVE FALSE
      OBVIOUS
    <3>1. len = 1 /\ pushed
      BY <1>4, <1>6
    <3>2. rerr
      BY <1>9, <2>1, <3>1
    <3> QED
      BY <1>1, <2>1, <3>2 DEF InStep
  <2>2. ASSUME ~rerr', IsPrefix(Stream(items)[Len(got) + 1], disk)
        PROVE  rpos' = Len(Stream(items)[Len(got)]) + Len(part') /\ IsPrefix(part', b)
    <3> DEFINE P == Stream(items)[Len(got)]
    <3>1. ~rerr /\ n = there
      BY <1>9, <2>2
    <3>2. rpos = Len(P) + Len(part) /\ IsPrefix(part, b)
      BY <1>1, <2>2, <3>1 DEF InStep, b
    <3>3. (Len(got) + 1) - 1 = Len(got)
      BY <1>2
    <3>4. /\ Len(P) \in Nat /\ Len(P) + Len(b) <= Len(disk)
          /\ \A i \in 1 .. Len(b) : disk[Len(P) + i] = b[i]
      BY <1>2, <1>3, <2>2, <3>3, WholeItem DEF b
    <3> HIDE DEF P
    <3>5. n = len /\ n > 0
      BY <1>2, <1>3, <1>6, <3>1, <3>2, <3>4 DEF there
    <3>6. part' = part \o q
      <4>1. ~(Item.kind # "data" /\ n = 0)
        BY <1>9, <3>5
      <4> QED
        BY <1>5, <4>1, Zenon DEF q
    <3>7. /\ Len(part') = Len(part) + n
          /\ \A i \in 1 .. Len(part) + n : part'[i] = IF i <= Len(part) THEN part[i] ELSE q[i - Len(part)]
      BY <1>2, <1>11, <3>6, ConcatProperties
    <3>8. \A i \in 1 .. Len(part) : part[i] = b[i]
      BY <1>2, <1>3, <3>2, PrefixByIndex
    <3>9. ASSUME NEW i \in 1 .. Len(part') PROVE part'[i] = b[i]
      <4>1. i \in 1 .. Len(part) + n /\ i \in 1 .. Len(b)
        BY <1>3, <1>12, <3>7
      <4>2. CASE i <= Len(part)
        <5>1. i \in 1 .. Len(part)
          BY <1>2, <4>2
        <5> QED
          BY <3>7, <3>8, <4>1, <4>2, <5>1
      <4>3. CASE ~(i <= Len(part))
        <5>1. i - Len(part) \in 1 .. n /\ rpos + (i - Len(part)) = Len(P) + i
          BY <1>2, <1>9, <3>2, <3>4, <4>1, <4>3
        <5>2. q[i - Len(part)] = disk[rpos + (i - Len(part))]
          BY <1>11, <5>1
        <5> QED
          BY <3>4, <3>7, <4>1, <4>3, <5>1, <5>2
      <4> QED
        BY <4>2, <4>3
    <3>10. IsPrefix(part', b)
      BY <1>3, <1>12, <3>9, PrefixByIndex
    <3>11. rpos' = Len(P) + Len(part')
      BY <1>2, <1>7, <1>9, <3>2, <3>4, <3>7
    <3> QED
      BY <3>10, <3>11 DEF P
  <2>3. Encoded(Item)' = b
    BY <1>13 DEF b
  <2> QED
    BY <1>1, <1>2, <1>13, <1>14, <2>1, <2>2, <2>3 DEF InStep
<1> QED
  BY <1>13, <1>15, <1>16, <1>17, <1>18 DEF StreamsInv

(* An item is taken for got unless an error is known; only data ignores one. *)
LEMMA CheckReadKeeps ==
  ASSUME StreamsInv, CheckRead
  PROVE  StreamsInv'
<1>1. /\ StreamTypes /\ Place /\ Written /\ ReadPlace /\ InStep /\ WhatIsWholeComesBack
      /\ phase = "checkread" /\ ~Writing /\ UNCHANGED <<writeVars, rpos, pushed, rerr, total_read>>
      /\ Len(got) < Len(items) /\ Len(part) <= Len(Encoded(Item))
      /\ (Item.kind = "data" \/ Whole(part)) /\ (pushed => rpos < Len(disk))
  BY DEF StreamsInv, CheckRead, Writing, ReadPlace
<1>2. /\ items' = items /\ disk' = disk /\ Len(got) \in Nat /\ part \in Seq(Byte)
      /\ pushed \in BOOLEAN /\ rerr \in BOOLEAN /\ disk \in Seq(Byte) /\ items \in Seq(Items)
  BY <1>1 DEF StreamTypes, writeVars
<1>3. /\ Item = items[Len(got) + 1] /\ Len(got) + 1 \in 1 .. Len(items) /\ Item \in Items
      /\ Encoded(Item) \in Seq(Byte) /\ (Item.kind = "int" => Len(Encoded(Item)) = Digits)
  BY <1>1, ItemIs
<1>4. ASSUME UNCHANGED <<got, part>>,
             phase' = "end" \/ (phase' = "test" /\ Item.kind = "data" /\ ~rerr)
      PROVE  StreamsInv'
  <2>1. /\ Item' = Item /\ (DataBy(Len(got))' <=> DataBy(Len(got))) /\ WhatIsWholeComesBack'
    BY <1>1, <1>2, <1>4, SameItem
  <2>2. StreamTypes'
    BY <1>1, <1>4 DEF StreamTypes, writeVars
  <2>3. Place' /\ Written'
    BY <1>1, <1>4, ReadingKeeps
  <2>4. ReadPlace'
    BY <1>1, <1>2, <1>4, <2>1 DEF ReadPlace
  <2>5. InStep'
    BY <1>1, <1>2, <1>4, <2>1 DEF InStep
  <2> QED
    BY <2>1, <2>2, <2>3, <2>4, <2>5 DEF StreamsInv
<1>5. CASE rerr /\ Item.kind # "flag"
  BY <1>4, <1>5 DEF CheckRead
<1>6. CASE ~(rerr /\ Item.kind # "flag") /\ Item.kind = "data"
  <2>1. phase' = "test" /\ UNCHANGED <<got, part>> /\ ~rerr
    BY <1>6 DEF CheckRead
  <2> QED
    BY <1>4, <1>6, <2>1
<1>7. CASE ~(rerr /\ Item.kind # "flag") /\ Item.kind # "data"
  <2>1. phase' = "test" /\ got' = Append(got, Decoded(Item, part)) /\ part' = <<>>
    BY <1>7 DEF CheckRead
  <2>2. Len(part) = Len(Encoded(Item))
    BY <1>1, <1>7 DEF Whole
  <2>3. Decoded(Item, part) \in Seq(Int)
    BY <1>2, <1>3, <2>2, DecodedType
  <2>4. rerr => DataBy(Len(got) + 1)
    <3>1. rerr => DataBy(Len(got))
      BY <1>1, <1>7 DEF InStep
    <3>2. DataBy(Len(got)) => DataBy(Len(got) + 1)
      BY <1>2 DEF DataBy
    <3> QED
      BY <3>1, <3>2
  <2>5. ASSUME ~rerr, IsPrefix(Stream(items)[Len(got) + 1], disk)
        PROVE  /\ rpos = Len(Stream(items)[Len(got)]) + Len(Encoded(Item))
               /\ Decoded(Item, part) = Item.v
    <3>1. rpos = Len(Stream(items)[Len(got)]) + Len(part) /\ IsPrefix(part, Encoded(Item))
      BY <1>1, <2>5 DEF InStep
    <3>2. part = Encoded(Item)
      <4>1. \A i \in 1 .. Len(part) : part[i] = Encoded(Item)[i]
        BY <1>2, <1>3, <3>1, PrefixByIndex
      <4> QED
        BY <1>2, <1>3, <2>2, <4>1, SeqEqual
    <3>3. Decoded(Item, Encoded(Item)) = Item.v
      BY <1>3, ItemBytes
    <3> QED
      BY <2>2, <3>1, <3>2, <3>3
  <2> DEFINE x == Decoded(Item, part)
  <2>6. x \in Seq(Int) /\ got' = Append(got, x)
        /\ (~rerr' /\ IsPrefix(Stream(items)[Len(got) + 1], disk) =>
              rpos = Len(Stream(items)[Len(got)]) + Len(Encoded(Item)) /\ x = Item.v)
    BY <1>1, <2>1, <2>3, <2>5
  <2> HIDE DEF x
  <2> QED
    BY <1>1, <1>2, <2>1, <2>4, <2>6, ItemGot
<1> QED
  BY <1>5, <1>6, <1>7
-----------------------------------------------------------------------------
(* Nothing has been put or got. *)
LEMMA StreamsInvInit ==
  ASSUME FileInit
  PROVE  StreamsInv
<1> USE StreamsAssumption DEF FileInit
<1>1. /\ items \in Seq(Items) /\ Len(items) \in Nat /\ Len(got) = 0 /\ Len(part) = 0 /\ Len(disk) = 0
      /\ <<>> \in Seq(Byte) /\ <<>> \in Seq(Seq(Int))
  BY EmptySeq
<1>2. ASSUME 0 < Len(items)
      PROVE  /\ Item = items[1] /\ Bytes(1) = Encoded(Item) /\ Encoded(Item) \in Seq(Byte)
             /\ Len(Encoded(Item)) \in Nat \ {0}
  <2>1. items[1] \in Items
    BY <1>1, <1>2
  <2> QED
    BY <1>1, <2>1, ItemBytes DEF Item, Bytes
<1>3. Asked = <<>> /\ disk \o buffer = <<>>
  <2>1. InItem(1, 0)
    BY <1>1, <1>2 DEF InItem
  <2>2. Stream(items)[0] = <<>>
    BY <1>1, StreamSteps
  <2>3. Asked \in Seq(Byte) /\ Len(Asked) = 0
    <3>1. AskedOf(1, 0) \in Seq(Byte) /\ Len(AskedOf(1, 0)) = Len(Stream(items)[1 - 1]) + 0
      BY <1>1, <2>1, AskedFacts
    <3>2. Asked = AskedOf(1, 0)
      BY AskedIs
    <3> QED
      BY <2>2, <3>1, <3>2
  <2> QED
    BY <1>1, <2>3, ConcatEmptySeq, EmptySeq
<1>4. StreamTypes
  <2>1. /\ wi \in 1 .. Len(items) + 1 /\ put \in Nat /\ total_write \in Nat
        /\ rpos \in 0 .. Len(disk) /\ total_read \in Nat /\ Len(got) <= Len(items)
    BY <1>1
  <2>2. disk \in Seq(Byte) /\ buffer \in Seq(Byte) /\ part \in Seq(Byte) /\ got \in Seq(Seq(Int))
    BY <1>1
  <2>3. /\ werr \in BOOLEAN /\ spilt \in BOOLEAN /\ pushed \in BOOLEAN /\ rerr \in BOOLEAN
        /\ phase \in {"put", "check", "close", "test", "get", "checkread", "end"}
    OBVIOUS
  <2> QED
    BY <1>1, <2>1, <2>2, <2>3 DEF StreamTypes
<1>5. Place
  BY <1>1, <1>2 DEF Place, Writing
<1>6. Written
  <2>1. AllBut(<<>>, <<>>, Digits - 1)
    <3>1. 0 \in 0 .. Len(<<>>) /\ Len(<<>>) - 0 <= Digits - 1 /\ 0 <= Len(<<>>)
      BY <1>1
    <3>2. \A i \in 1 .. 0 : <<>>[i] = <<>>[i]
      OBVIOUS
    <3> QED
      BY <3>1, <3>2 DEF AllBut
  <2> QED
    BY <1>1, <1>3, <2>1 DEF Written
<1>7. ReadPlace
  BY <1>1, <1>2 DEF ReadPlace
<1>8. InStep
  <2>1. ASSUME 0 < Len(items)
        PROVE  rpos = Len(Stream(items)[Len(got)]) + Len(part) /\ IsPrefix(part, Encoded(Item))
    <3>1. Stream(items)[0] = <<>>
      BY <1>1, StreamSteps
    <3>2. IsPrefix(<<>>, Encoded(Item))
      <4>1. Len(<<>>) = 0 /\ 0 <= Len(Encoded(Item)) /\ \A i \in 1 .. 0 : <<>>[i] = Encoded(Item)[i]
        BY <1>1, <1>2, <2>1
      <4>2. <<>> \in Seq(Byte) /\ Encoded(Item) \in Seq(Byte)
        BY <1>1, <1>2, <2>1
      <4> HIDE DEF FileInit
      <4> QED
        BY <4>1, <4>2, PrefixByIndex
    <3> QED
      BY <1>1, <3>1, <3>2
  <2> QED
    BY <1>1, <2>1 DEF InStep
<1>9. WhatIsWholeComesBack
  BY <1>1 DEF WhatIsWholeComesBack
<1> QED
  BY <1>4, <1>5, <1>6, <1>7, <1>8, <1>9 DEF StreamsInv

(* A step that changes no variable keeps the invariant. *)
LEMMA StutterKeeps ==
  ASSUME StreamsInv, UNCHANGED fileVars
  PROVE  StreamsInv'
<1> USE DEF fileVars, writeVars, readVars
<1>1. StreamTypes'
  BY DEF StreamsInv, StreamTypes
<1>2. Bytes(wi)' = Bytes(wi) /\ Asked' = Asked /\ Item' = Item
      /\ (DataBy(Len(got))' <=> DataBy(Len(got)))
  BY DEF Bytes, Asked, Item, DataBy
<1>3. Place' /\ Written'
  BY <1>2 DEF StreamsInv, Place, Writing, Written
<1>4. ReadPlace' /\ InStep' /\ WhatIsWholeComesBack'
  BY <1>2 DEF StreamsInv, ReadPlace, InStep, WhatIsWholeComesBack, Whole
<1> QED
  BY <1>1, <1>3, <1>4 DEF StreamsInv

(* Every state of a file that is written and read satisfies StreamsInv. *)
LEMMA StreamsInvariance == FileSpec => []StreamsInv
<1>1. FileInit => StreamsInv
  BY StreamsInvInit
<1>2. StreamsInv /\ [FileNext]_fileVars => StreamsInv'
  <2> SUFFICES ASSUME StreamsInv, [FileNext]_fileVars PROVE StreamsInv'
    OBVIOUS
  <2>1. CASE Put
    BY <2>1, PutKeeps
  <2>2. CASE CheckWrite
    BY <2>2, CheckWriteKeeps
  <2>3. CASE EndPut
    BY <2>3, EndPutKeeps
  <2>4. CASE Close
    BY <2>4, CloseKeeps
  <2>5. CASE Test
    BY <2>5, TestKeeps
  <2>6. CASE Get
    BY <2>6, GetKeeps
  <2>7. CASE CheckRead
    BY <2>7, CheckReadKeeps
  <2>8. CASE UNCHANGED fileVars
    BY <2>8, StutterKeeps
  <2> QED
    BY <2>1, <2>2, <2>3, <2>4, <2>5, <2>6, <2>7, <2>8 DEF FileNext, FileTerminating
<1> QED
  BY <1>1, <1>2, PTL DEF FileSpec

(* As long as IsErr says no, every byte that Encode put is in the file or on *)
(* its way and counted; so with a 0 the file is complete, unless the flush   *)
(* at the close fails unseen.                                                *)
THEOREM LossIsToldHolds == FileSpec => []LossIsTold
<1>1. StreamsInv => LossIsTold
  BY DEF StreamsInv, Written, LossIsTold
<1> QED
  BY <1>1, StreamsInvariance, PTL

(* What a failed Encode leaves in the file is its stream cut short, up to    *)
(* fewer bytes than an int has behind the first that was lost.               *)
THEOREM HoleIsShortHolds == FileSpec => []HoleIsShort
<1>1. StreamsInv => HoleIsShort
  <2> SUFFICES ASSUME StreamsInv PROVE HoleIsShort
    OBVIOUS
  <2> DEFINE W == disk \o buffer
             a == Asked
             d == Digits - 1
  <2>1. disk \in Seq(Byte) /\ buffer \in Seq(Byte) /\ AllBut(W, a, d) /\ InItem(wi, put)
        /\ items \in Seq(Items)
    BY DEF StreamsInv, StreamTypes, Place, Written, InItem
  <2>2. a \in Seq(Byte)
    BY <2>1, AskedIs, AskedFacts
  <2>3. d \in Nat /\ 0 \in Nat /\ d + 0 = d
    BY StreamsAssumption
  <2>4. /\ W \in Seq(Byte) /\ Len(W) = Len(disk) + Len(buffer) /\ Len(disk) \in Nat
        /\ Len(buffer) \in Nat /\ \A i \in 1 .. Len(disk) : i <= Len(W) => disk[i] = W[i]
    <3>1. \A i \in 1 .. Len(disk) : i \in 1 .. Len(disk) + Len(buffer) /\ i <= Len(disk)
      BY <2>1
    <3> QED
      BY <2>1, <3>1, ConcatProperties
  <2> HIDE DEF W, a, d
  <2>5. AllBut(disk, a, d + 0)
    <3>1. Len(disk) <= Len(W) + 0 /\ Len(a) <= Len(a)
      BY <2>2, <2>4
    <3> QED
      BY <2>1, <2>2, <2>3, <2>4, <3>1, AllButGrown
  <2>6. PICK m \in 0 .. Len(disk) :
          Len(disk) - m <= d /\ m <= Len(a) /\ \A i \in 1 .. m : disk[i] = a[i]
    BY <2>3, <2>5 DEF AllBut
  <2> DEFINE k == Len(disk) - m
             s == SubSeq(disk, 1, Len(disk) - k)
  <2>7. k \in 0 .. d /\ k <= Len(disk) /\ Len(disk) - k = m
    BY <2>3, <2>4, <2>6
  <2>8. s \in Seq(Byte) /\ Len(s) = m /\ \A i \in 1 .. m : s[i] = disk[i]
    <3>1. s = SubSeq(disk, 1, m)
      BY <2>7
    <3> HIDE DEF s
    <3> QED
      BY <2>1, <2>4, <2>6, <3>1
  <2> HIDE DEF k
  <2>9. IsPrefix(s, a)
    <3> HIDE DEF s
    <3> QED
      BY <2>2, <2>6, <2>8, PrefixByIndex
  <2>10. k \in 0 .. Digits - 1 /\ k <= Len(disk) /\ IsPrefix(SubSeq(disk, 1, Len(disk) - k), Asked)
    BY <2>7, <2>9 DEF d, a
  <2> QED
    BY <2>10, Zenon DEF HoleIsShort
<1> QED
  BY <1>1, StreamsInvariance, PTL

(* Each flag, each int, negative ones too, and each piece of data that is    *)
(* whole in the file is read as what it was, unless an error has cut a piece *)
(* of data short before.                                                     *)
THEOREM WhatIsWholeComesBackHolds == FileSpec => []WhatIsWholeComesBack
<1>1. StreamsInv => WhatIsWholeComesBack
  BY DEF StreamsInv
<1> QED
  BY <1>1, StreamsInvariance, PTL
-----------------------------------------------------------------------------
(***************************************************************************)
(* Tables.                                                                 *)
(***************************************************************************)
(* The first distance of each code: those of the first 18 codes double with  *)
(* every second code, the others are 256 apart.                              *)
Reach(c) ==
  IF c < 2 THEN c
  ELSE IF c < 18 THEN (2 + (c % 2)) * 2 ^ (c \div 2 - 1)
  ELSE 512 + 256 * (c - 18)

LEMMA ReachDoubling ==
  ASSUME NEW x \in Nat, x >= 2, x < 18, NEW r, NEW h, x % 2 = r, x \div 2 - 1 = h
  PROVE  Reach(x) = (2 + r) * 2 ^ h
<1>1. ~(x < 2)
  OBVIOUS
<1>2. Reach(x) = (2 + (x % 2)) * 2 ^ (x \div 2 - 1)
  BY <1>1, Zenon DEF Reach
<1>3. x % 2 = r /\ x \div 2 - 1 = h
  OBVIOUS
<1> QED
  BY <1>2, <1>3

LEMMA FirstPowers == 2 ^ 0 = 1 /\ 2 ^ 7 = 128 /\ 2 ^ 8 = 256
<1> DEFINE f == [n \in 0 .. 8 |-> 2 ^ n]
<1>1. f[0] = 1
  BY Numbers!PowerZero
<1>2. \A n \in 0 .. 7 : f[n + 1] = 2 * f[n]
  <2> SUFFICES ASSUME NEW n \in 0 .. 7 PROVE f[n + 1] = 2 * f[n]
    OBVIOUS
  <2>1. n \in Nat /\ n \in 0 .. 8 /\ n + 1 \in 0 .. 8
    OBVIOUS
  <2> QED
    BY <2>1, Numbers!PowerNext
<1>3. f[0] = 2 ^ 0 /\ f[7] = 2 ^ 7 /\ f[8] = 2 ^ 8
  OBVIOUS
<1> HIDE DEF f
<1>4. f[1] = 2 /\ f[2] = 4 /\ f[3] = 8 /\ f[4] = 16
  <2>1. f[0 + 1] = 2 * f[0] /\ f[1 + 1] = 2 * f[1] /\ f[2 + 1] = 2 * f[2] /\ f[3 + 1] = 2 * f[3]
    BY <1>2
  <2> QED
    BY <1>1, <2>1
<1>5. f[5] = 32 /\ f[6] = 64 /\ f[7] = 128 /\ f[8] = 256
  <2>1. f[4 + 1] = 2 * f[4] /\ f[5 + 1] = 2 * f[5] /\ f[6 + 1] = 2 * f[6] /\ f[7 + 1] = 2 * f[7]
    BY <1>2
  <2> QED
    BY <1>4, <2>1
<1> QED
  BY <1>1, <1>3, <1>5

(* A code is for two to the power of its extra bits distances. *)
LEMMA ReachSteps ==
  ASSUME NEW c \in Nat
  PROVE  /\ Reach(c) \in Nat /\ Blen(c) \in 0 .. 8 /\ 2 ^ Blen(c) \in Nat \ {0}
         /\ Reach(c + 1) = Reach(c) + 2 ^ Blen(c)
         /\ c < 18 => Reach(c) < 512 /\ Reach(c + 1) <= 512
<1>1. CASE c < 2
  <2>1. c = 0 \/ c = 1
    BY <1>1
  <2>2. Reach(0) = 0 /\ Reach(1) = 1 /\ Reach(2) = 2
    <3>1. 2 \div 2 - 1 = 0 /\ 2 % 2 = 0
      OBVIOUS
    <3>2. Reach(2) = (2 + 0) * 2 ^ 0
      <4>1. 2 \in Nat /\ 2 >= 2 /\ 2 < 18
        OBVIOUS
      <4> QED
        BY <3>1, <4>1, ReachDoubling, Zenon
    <3> QED
      BY <3>2, FirstPowers DEF Reach
  <2>3. Blen(c) = 0 /\ 2 ^ Blen(c) = 1
    BY <1>1, FirstPowers DEF Blen
  <2> QED
    BY <2>1, <2>2, <2>3
<1>2. CASE c >= 2 /\ c < 18
  <2> DEFINE h == c \div 2 - 1
             q == 2 ^ h
             r == c % 2
  <2>1. h \in 0 .. 7 /\ r \in {0, 1} /\ c = 2 * h + 2 + r /\ h \in Nat
    BY <1>2
  <2>2. Blen(c) = h
    <3>1. CASE c < 4
      <4>1. h = 0
        BY <1>2, <3>1
      <4> QED
        BY <3>1, <4>1 DEF Blen
    <3>2. CASE ~(c < 4)
      <4>1. (c - 2) \div 2 = h
        BY <1>2
      <4> QED
        BY <1>2, <3>2, <4>1 DEF Blen
    <3> QED
      BY <3>1, <3>2
  <2>3. Reach(c) = (2 + r) * q
    BY <1>2, ReachDoubling, Zenon
  <2>4. q \in Nat \ {0} /\ q <= 128
    <3>1. h \in 0 .. 7 /\ 7 \in Nat
      BY <2>1
    <3>2. 2 ^ h <= 2 ^ 7
      <4> HIDE DEF h
      <4> QED
        BY <3>1, Numbers!PowerMonotone
    <3> HIDE DEF h
    <3> QED
      BY <2>1, <3>2, FirstPowers, Numbers!PowerPositive
  <2>5. Reach(c + 1) = (3 + r) * q
    <3>1. CASE r = 0
      <4>1. (c + 1) \div 2 - 1 = h /\ (c + 1) % 2 = 1 /\ c + 1 < 18 /\ c + 1 >= 2 /\ c + 1 \in Nat
        BY <1>2, <3>1
      <4>2. Reach(c + 1) = (2 + 1) * q
        BY <4>1, ReachDoubling, Zenon
      <4> QED
        BY <3>1, <4>2
    <3>2. CASE r = 1 /\ c < 17
      <4>1. (c + 1) \div 2 - 1 = h + 1 /\ (c + 1) % 2 = 0 /\ c + 1 < 18 /\ c + 1 >= 2 /\ c + 1 \in Nat
        BY <1>2, <3>2
      <4>2. Reach(c + 1) = (2 + 0) * 2 ^ (h + 1)
        BY <4>1, ReachDoubling, Zenon
      <4>3. 2 ^ (h + 1) = 2 * q
        <5> HIDE DEF h
        <5> QED
          BY <2>1, Numbers!PowerNext DEF q
      <4> HIDE DEF h, q, r
      <4> QED
        BY <2>4, <3>2, <4>2, <4>3
    <3>3. CASE c = 17
      <4>1. h = 7 /\ r = 1 /\ q = 128
        BY <3>3, FirstPowers
      <4>2. Reach(18) = 512
        BY DEF Reach
      <4> QED
        BY <3>3, <4>1, <4>2
    <3>4. r = 0 \/ (r = 1 /\ c < 17) \/ c = 17
      BY <1>2, <2>1
    <3> QED
      BY <3>1, <3>2, <3>3, <3>4
  <2> HIDE DEF h, q, r
  <2>6. 2 ^ Blen(c) = q
    BY <2>2 DEF q
  <2>7. CASE r = 0
    BY <1>2, <2>1, <2>2, <2>3, <2>4, <2>5, <2>6, <2>7
  <2>8. CASE r = 1
    BY <1>2, <2>1, <2>2, <2>3, <2>4, <2>5, <2>6, <2>8
  <2> QED
    BY <2>1, <2>7, <2>8
<1>3. CASE c >= 18
  <2>1. Blen(c) = 8 /\ 2 ^ Blen(c) = 256
    BY <1>3, FirstPowers DEF Blen
  <2>2. Reach(c) = 512 + 256 * (c - 18) /\ Reach(c + 1) = 512 + 256 * ((c + 1) - 18)
    BY <1>3 DEF Reach
  <2> QED
    BY <1>3, <2>1, <2>2
<1> QED
  BY <1>1, <1>2, <1>3

(* A bucket that a code begins in it reaches to its end. *)
LEMMA ReachNoFurther ==
  ASSUME NEW c \in Nat
  PROVE  /\ Reach(c) < BucketItemSize => Reach(c + 1) <= BucketItemSize
         /\ Reach(c) = BucketItemSize => c <= 2 ^ HuffmanMaxLen2
<1>1. BucketItemSize \in Nat /\ BucketItemSize >= 512 /\ BucketItemSize % 256 = 0
  BY TablesAssumption
<1>2. CASE c < 18
  BY <1>1, <1>2, ReachSteps
<1>3. CASE c >= 18
  <2>1. Reach(c) = 512 + 256 * (c - 18) /\ Reach(c + 1) = 512 + 256 * ((c + 1) - 18)
    BY <1>3 DEF Reach
  <2>2. ASSUME Reach(c) < BucketItemSize PROVE Reach(c + 1) <= BucketItemSize
    <3> DEFINE j == BucketItemSize \div 256
    <3>1. j \in Nat /\ BucketItemSize = 256 * j
      BY <1>1
    <3> HIDE DEF j
    <3> QED
      BY <1>3, <2>1, <2>2, <3>1
  <2>3. ASSUME Reach(c) = BucketItemSize PROVE c <= 2 ^ HuffmanMaxLen2
    <3> DEFINE p == 2 ^ HuffmanMaxLen2
    <3>1. p \in Nat
      BY TablesAssumption, Numbers!PowerPositive
    <3>2. BucketItemSize <= 512 + 256 * (p - 18)
      BY TablesAssumption
    <3> HIDE DEF p
    <3>3. c <= p
      BY <1>3, <2>1, <2>3, <3>1, <3>2
    <3> QED
      BY <3>3 DEF p
  <2> QED
    BY <2>2, <2>3
<1> QED
  BY <1>2, <1>3

(* Each code made is there for its distances, that being made for those so   *)
(* far, and no code is begun that would reach beyond the bucket.             *)
TablesInv ==
  LET c == NextCode
  IN  /\ code \in Seq(Nat) /\ base \in Seq(Nat) /\ bits \in 0 .. 2 ^ Blen(c)
      /\ Len(code) = Reach(c) + bits
      /\ Reach(c) <= BucketItemSize /\ (bits > 0 => Reach(c + 1) <= BucketItemSize)
      /\ \A k \in 1 .. c :
           /\ base[k] = Reach(k - 1)
           /\ \A d \in Reach(k - 1) .. Reach(k) - 1 : d < Len(code) /\ code[d + 1] = k - 1
      /\ \A d \in Reach(c) .. Len(code) - 1 : code[d + 1] = c

LEMMA TablesBegin == ASSUME TablesInit PROVE TablesInv
<1>1. code = <<>> /\ base = <<>> /\ bits = 0 /\ NextCode = 0 /\ Len(code) = 0
  BY DEF TablesInit, NextCode
<1>2. Reach(0) = 0 /\ 2 ^ Blen(0) \in Nat
  <2>1. 0 \in Nat
    OBVIOUS
  <2>2. 2 ^ Blen(0) \in Nat
    BY <2>1, ReachSteps
  <2> QED
    BY <2>2 DEF Reach
<1>3. BucketItemSize \in Nat
  BY TablesAssumption
<1> QED
  BY <1>1, <1>2, <1>3 DEF TablesInv

LEMMA TablesAppendCode == ASSUME TablesInv, AppendCode PROVE TablesInv'
<1> DEFINE c == NextCode
           n == Len(code)
           w == 2 ^ Blen(c)
<1>1. /\ code \in Seq(Nat) /\ base \in Seq(Nat) /\ bits \in Nat /\ n = Reach(c) + bits
      /\ Reach(c) <= BucketItemSize /\ (bits > 0 => Reach(c + 1) <= BucketItemSize)
      /\ \A k \in 1 .. c :
           /\ base[k] = Reach(k - 1)
           /\ \A d \in Reach(k - 1) .. Reach(k) - 1 : d < n /\ code[d + 1] = k - 1
      /\ \A d \in Reach(c) .. n - 1 : code[d + 1] = c
  <2>1. bits \in Nat
    BY DEF TablesInv
  <2> QED
    BY <2>1 DEF TablesInv
<1>2. /\ ~(bits = 0 /\ n >= BucketItemSize) /\ bits < w
      /\ code' = Append(code, c) /\ bits' = bits + 1 /\ base' = base /\ NextCode' = c
  BY DEF AppendCode, Complete, NextCode
<1>3. c \in Nat /\ n \in Nat /\ w \in Nat /\ Reach(c) \in Nat /\ Reach(c + 1) \in Nat /\ BucketItemSize \in Nat
  <2>1. c \in Nat /\ n \in Nat
    BY <1>1 DEF NextCode
  <2>2. c + 1 \in Nat
    BY <2>1
  <2> HIDE DEF c
  <2> QED
    BY <2>1, <2>2, ReachSteps, TablesAssumption
<1>4. Reach(c + 1) <= BucketItemSize
  <2>1. CASE bits > 0
    BY <1>1, <2>1
  <2>2. CASE bits = 0
    <3>1. Reach(c) < BucketItemSize
      BY <1>1, <1>2, <1>3, <2>2
    <3> HIDE DEF c
    <3> QED
      BY <1>3, <3>1, ReachNoFurther
  <2> QED
    BY <1>1, <2>1, <2>2
<1> HIDE DEF c, n, w
<1>5. code' \in Seq(Nat) /\ Len(code') = n + 1 /\ code'[n + 1] = c /\ \A i \in 1 .. n : code'[i] = code[i]
  <2>1. n = Len(code) /\ code \in Seq(Nat) /\ code' = Append(code, c)
    BY <1>1, <1>2 DEF n
  <2> QED
    BY <1>3, <2>1
<1>6. bits' \in 0 .. w /\ Len(code') = Reach(c) + bits' /\ bits' > 0
  BY <1>1, <1>2, <1>3, <1>5
<1>7. ASSUME NEW k \in 1 .. c, NEW d \in Reach(k - 1) .. Reach(k) - 1
      PROVE  d < Len(code') /\ code'[d + 1] = k - 1
  <2>1. k - 1 \in Nat /\ k \in Nat
    BY <1>3
  <2>2. d \in Nat
    BY <2>1, ReachSteps
  <2>3. d < n /\ code[d + 1] = k - 1
    BY <1>1
  <2>4. d + 1 \in 1 .. n
    BY <1>3, <2>2, <2>3
  <2> QED
    BY <1>3, <1>5, <2>2, <2>3, <2>4
<1>8. ASSUME NEW d \in Reach(c) .. Len(code') - 1 PROVE code'[d + 1] = c
  <2>1. d \in Nat /\ d <= n
    BY <1>3, <1>5
  <2>2. CASE d = n
    BY <1>5, <2>2
  <2>3. CASE d # n
    <3>1. d \in Reach(c) .. n - 1 /\ d + 1 \in 1 .. n
      BY <1>3, <2>1, <2>3
    <3> QED
      BY <1>1, <1>5, <3>1
  <2> QED
    BY <2>2, <2>3
<1>9. base' \in Seq(Nat) /\ \A k \in 1 .. c : base'[k] = Reach(k - 1)
  BY <1>1, <1>2
<1> QED
  BY <1>1, <1>2, <1>4, <1>5, <1>6, <1>7, <1>8, <1>9 DEF TablesInv, w

LEMMA TablesAppendBase == ASSUME TablesInv, AppendBase PROVE TablesInv'
<1> DEFINE c == NextCode
           n == Len(code)
           w == 2 ^ Blen(c)
<1>1. /\ code \in Seq(Nat) /\ base \in Seq(Nat) /\ bits \in Nat /\ n = Reach(c) + bits
      /\ Reach(c) <= BucketItemSize /\ (bits > 0 => Reach(c + 1) <= BucketItemSize)
      /\ \A k \in 1 .. c :
           /\ base[k] = Reach(k - 1)
           /\ \A d \in Reach(k - 1) .. Reach(k) - 1 : d < n /\ code[d + 1] = k - 1
      /\ \A d \in Reach(c) .. n - 1 : code[d + 1] = c
  <2>1. bits \in Nat
    BY DEF TablesInv
  <2> QED
    BY <2>1 DEF TablesInv
<1>2. bits = w /\ base' = Append(base, n - bits) /\ bits' = 0 /\ code' = code
  BY DEF AppendBase, BaseOf
<1>3. c \in Nat /\ n \in Nat
  BY <1>1 DEF NextCode
<1>4. NextCode' = c + 1 /\ base' \in Seq(Nat)
      /\ base'[c + 1] = Reach(c) /\ \A k \in 1 .. c : base'[k] = base[k]
  <2>1. Reach(c) \in Nat
    <3> HIDE DEF c
    <3> QED
      BY <1>3, ReachSteps
  <2>2. n - bits = Reach(c)
    <3> HIDE DEF n, c
    <3> QED
      BY <1>1, <2>1
  <2>3. base' = Append(base, Reach(c)) /\ Len(base) = c
    BY <1>2, <2>2 DEF NextCode
  <2>4. Len(base') = c + 1
    BY <1>1, <2>1, <2>3
  <2> QED
    BY <1>1, <2>1, <2>3, <2>4 DEF NextCode
<1> HIDE DEF c, n
<1>5. w \in Nat \ {0} /\ Reach(c + 1) = Reach(c) + w /\ Reach(c) \in Nat /\ Reach(c + 1) \in Nat
      /\ 2 ^ Blen(c + 1) \in Nat
  <2>1. c + 1 \in Nat
    BY <1>3
  <2> QED
    BY <1>3, <2>1, ReachSteps
<1> HIDE DEF w
<1>6. n = Reach(c + 1) /\ Reach(c + 1) <= BucketItemSize /\ bits' \in 0 .. 2 ^ Blen(c + 1)
      /\ n = Reach(c + 1) + bits' /\ ~(bits' > 0)
  BY <1>1, <1>2, <1>3, <1>5
<1>7. ASSUME NEW k \in 1 .. c + 1
      PROVE  /\ base'[k] = Reach(k - 1)
             /\ \A d \in Reach(k - 1) .. Reach(k) - 1 : d < n /\ code[d + 1] = k - 1
  <2>1. CASE k = c + 1
    <3>1. k - 1 = c
      BY <1>3, <2>1
    <3>2. ASSUME NEW d \in Reach(c) .. Reach(c + 1) - 1 PROVE d < n /\ code[d + 1] = c
      BY <1>1, <1>5, <1>6
    <3> QED
      BY <1>4, <2>1, <3>1, <3>2
  <2>2. CASE k # c + 1
    <3>1. k \in 1 .. c
      BY <1>3, <2>2
    <3> QED
      BY <1>1, <1>4, <3>1
  <2> QED
    BY <2>1, <2>2
<1>8. Reach(c + 1) .. n - 1 = {}
  BY <1>5, <1>6
<1> QED
  BY <1>1, <1>2, <1>4, <1>6, <1>7, <1>8 DEF TablesInv, n

LEMMA TablesStep == ASSUME TablesInv, [TablesNext]_tableVars PROVE TablesInv'
<1>1. CASE UNCHANGED tableVars
  BY <1>1 DEF tableVars, TablesInv, NextCode
<1> QED
  BY <1>1, TablesAppendCode, TablesAppendBase DEF TablesNext, TablesDone

(* The tables of distances agree: each code's extra bits lead from its base  *)
(* to where the next one begins, each distance has the code whose base is    *)
(* behind it, and when the script ends each distance of a bucket has one.    *)
THEOREM DistancesComeBack == TablesSpec => []DistanceComesBack
<1>1. TablesInv => DistanceComesBack
  <2> SUFFICES ASSUME TablesInv PROVE DistanceComesBack
    OBVIOUS
  <2> DEFINE c == Len(base)
             n == Len(code)
  <2>1. /\ base \in Seq(Nat) /\ code \in Seq(Nat) /\ n = Reach(c) + bits
        /\ Reach(c) <= BucketItemSize /\ bits \in 0 .. 2 ^ Blen(c)
        /\ \A k \in 1 .. c :
             /\ base[k] = Reach(k - 1)
             /\ \A d \in Reach(k - 1) .. Reach(k) - 1 : d < n /\ code[d + 1] = k - 1
    BY DEF TablesInv, NextCode
  <2>2. c \in Nat /\ n \in Nat /\ BucketItemSize \in Nat /\ (base # <<>> => c >= 1)
    BY <2>1, TablesAssumption
  <2>3. Reach(c) \in Nat
    <3> HIDE DEF c
    <3> QED
      BY <2>2, ReachSteps
  <2> HIDE DEF c, n
  <2>4. ASSUME bits = 0, base # <<>>
        PROVE  /\ base[c] + 2 ^ Blen(c - 1) = n
               /\ \A d \in base[c] .. n - 1 : code[d + 1] = c - 1
               /\ c > 1 => base[c - 1] + 2 ^ Blen(c - 2) = base[c]
    <3>1. c \in 1 .. c /\ c - 1 \in Nat /\ (c - 1) + 1 = c /\ n = Reach(c)
      BY <2>1, <2>2, <2>3, <2>4
    <3>2. base[c] = Reach(c - 1) /\ \A d \in Reach(c - 1) .. Reach(c) - 1 : code[d + 1] = c - 1
      BY <2>1, <3>1
    <3>3. Reach((c - 1) + 1) = Reach(c - 1) + 2 ^ Blen(c - 1)
      BY <3>1, ReachSteps
    <3>4. ASSUME c > 1 PROVE base[c - 1] + 2 ^ Blen(c - 2) = base[c]
      <4>1. c - 1 \in 1 .. c /\ (c - 1) - 1 = c - 2 /\ c - 2 \in Nat /\ (c - 2) + 1 = c - 1
        BY <2>2, <3>4
      <4>2. base[c - 1] = Reach(c - 2)
        BY <2>1, <4>1
      <4>3. Reach((c - 2) + 1) = Reach(c - 2) + 2 ^ Blen(c - 2)
        BY <4>1, ReachSteps
      <4> QED
        BY <3>2, <4>1, <4>2, <4>3
    <3> QED
      BY <3>1, <3>2, <3>3, <3>4
  <2>5. ASSUME Complete PROVE n = BucketItemSize
    BY <2>1, <2>2, <2>3, <2>5 DEF Complete, n
  <2> QED
    BY <2>4, <2>5 DEF DistanceComesBack, c, n
<1> QED
  BY <1>1, TablesBegin, TablesStep, PTL DEF TablesSpec

(* The codes of a bucket are not more than codes of distances may have       *)
(* symbols, and a match is never longer than what Decode fetches for it.     *)
THEOREM CodesSuffice == TablesSpec => []TablesFit
<1>1. TablesInv => TablesFit
  <2> SUFFICES ASSUME TablesInv, Complete PROVE TablesFit
    BY DEF TablesFit
  <2> DEFINE c == Len(base)
  <2>1. c \in Nat /\ BucketItemSize \in Nat /\ Reach(c) <= BucketItemSize /\ Len(code) = Reach(c) + bits
        /\ bits = 0 /\ Len(code) >= BucketItemSize
    BY TablesAssumption DEF TablesInv, NextCode, Complete
  <2> HIDE DEF c
  <2>2. Reach(c) \in Nat
    BY <2>1, ReachSteps
  <2>3. Reach(c) = BucketItemSize
    BY <2>1, <2>2
  <2>4. c <= 2 ^ HuffmanMaxLen2
    BY <2>1, <2>3, ReachNoFurther
  <2>5. ASSUME NEW k \in 0 .. c - 1 PROVE HuffmanMaxLen1 + HuffmanMaxLen2 + Blen(k) <= RefillBits
    <3>1. k \in Nat
      OBVIOUS
    <3>2. Blen(k) \in 0 .. 8
      BY <3>1, ReachSteps
    <3> QED
      BY <3>2, TablesAssumption
  <2> QED
    BY <2>4, <2>5 DEF TablesFit, c
<1> QED
  BY <1>1, TablesBegin, TablesStep, PTL DEF TablesSpec

(* Where a byte stands in the initial table. *)
FirstRank ==
  LET ranks == <<
         205, 206, 207, 208, 209, 210, 211, 212, 213, 142,  20, 214, 215, 216, 217, 218,
         219, 220, 221, 222, 223, 224, 225, 226, 227, 228, 229, 230, 231, 232, 233, 234,
           0,  95,  85,  81, 147,  94,  29,  23,  51,  50,  48, 106,  26,  39,  25,  31,
          35,  32,  44,  58,  62,  57,  65,  67,  61,  47,  38,  28,  42,  34,  43, 101,
         194,  37,  52,  36,  56,  55,  60,  63,  59,  46,  76,  77,  66,  53,  68,  73,
          54, 103,  64,  41,  40,  75,  82,  69, 102,  86,  84,  15,  92,  14, 152,  79,
         191,   3,  22,  12,  11,   1,  19,  18,  10,   4,  74,  33,   9,  16,   6,   5,
          17,  45,   7,   8,   2,  13,  27,  24,  49,  21,  70,  72,  30,  71, 176, 235,
          88, 107, 100,  91, 136, 153, 160, 161, 139, 158, 168, 173, 149, 144, 184, 169,
         129, 151, 179, 130, 114, 126, 170, 163, 148, 105, 175, 165, 135, 157, 167, 172,
         145, 104, 171, 154, 111, 150, 138, 121, 125,  97, 137, 156, 174, 116, 159, 146,
          96, 123, 124, 109, 134, 112, 140, 155,  90, 127, 118, 117, 108, 113, 115, 141,
         236, 237, 133,  80, 131, 128, 197, 193, 204, 166, 182, 183, 187, 199,  98, 132,
          78,  87, 195, 198, 200, 190, 185,  83, 110, 122, 192, 188, 203, 238, 202, 239,
          89, 120,  99,  93, 181, 119, 143, 164, 177, 180, 189, 178, 162, 186, 240, 196,
         201, 241, 242, 243, 244, 245, 246, 247, 248, 249, 250, 251, 252, 253, 254, 255>>
  IN  [c \in 0 .. 255 |-> ranks[c + 1]]

LEMMA FirstRankInverse ==
  \A c \in 0 .. 255 :
    /\ mtfinit[c] \in 0 .. 255 /\ FirstRank[mtfinit[c]] = c
    /\ FirstRank[c] \in 0 .. 255 /\ mtfinit[FirstRank[c]] = c
<1>1. \A c \in 0 .. 255 : mtfinit[c] \in 0 .. 255
  BY SMTT(60) DEF mtfinit, bytesByFrequency
<1>2. \A c \in 0 .. 255 : FirstRank[c] \in 0 .. 255
  BY SMTT(60) DEF FirstRank
<1>3. \A c \in 0 .. 255 : FirstRank[mtfinit[c]] = c
  BY SMTT(60) DEF mtfinit, bytesByFrequency, FirstRank
<1>4. \A c \in 0 .. 255 : mtfinit[FirstRank[c]] = c
  BY SMTT(60) DEF mtfinit, bytesByFrequency, FirstRank
<1> QED
  BY <1>1, <1>2, <1>3, <1>4

(* The initial table is a permutation of the bytes, the other maps ranks to  *)
(* ranks, and all but the first further down: what the proofs about the      *)
(* coders assume is so of the tables that the script makes.                  *)
THEOREM RanksFit == TablesSpec => []RanksAreRanks
<1>1. \A i \in 0 .. 255 : NextRank(i) \in 0 .. 255 /\ (i > 0 => NextRank(i) < i)
  BY DEF NextRank
<1>2. Mtf!Byte = 0 .. 255
  BY DEF Mtf!Byte
<1>3. mtfinit \in [0 .. 255 -> 0 .. 255]
  BY FirstRankInverse DEF mtfinit
<1>4. ASSUME NEW c \in 0 .. 255 PROVE \E i \in 0 .. 255 : mtfinit[i] = c
  BY FirstRankInverse
<1>5. ASSUME NEW i \in 0 .. 255, NEW j \in 0 .. 255, mtfinit[i] = mtfinit[j] PROVE i = j
  <2>1. FirstRank[mtfinit[i]] = i /\ FirstRank[mtfinit[j]] = j
    BY FirstRankInverse
  <2> QED
    BY <1>5, <2>1
<1>6. [i \in 0 .. 255 |-> NextRank(i)] \in [0 .. 255 -> 0 .. 255]
  BY <1>1
<1>7. Mtf!MtfAssumption
  <2>1. 256 \in Nat \ {0}
    OBVIOUS
  <2> QED
    BY <2>1, <1>2, <1>3, <1>4, <1>5, <1>6, Zenon DEF Mtf!MtfAssumption
<1>8. RanksAreRanks
  BY <1>1, <1>7 DEF RanksAreRanks
<1> QED
  BY <1>8, PTL
=============================================================================
