------------------------------ MODULE RolzProofs ------------------------------
(***************************************************************************)
(* IInv is an inductive invariant of RolzCodec; what follows from it: the  *)
(* safety properties, the progress of a search along its chain, and that   *)
(* the two ends implement LosslessCopy.                                    *)
(*                                                                         *)
(* First the facts about the operators it is built from, for every value   *)
(* of the constants: the move-to-front coders, the arithmetic of a ring of *)
(* nodes, the word table, the numbering of tokens, the length of a common  *)
(* prefix and the update of a bucket at either end.  Then the encoder's    *)
(* half: each token it emits satisfies TokenStep between the snapshots on  *)
(* both sides of it.  Then the decoder's half: standing at a snapshot, and *)
(* given the token after it, the decoder reaches the next snapshot.  Then  *)
(* both together.                                                          *)
(***************************************************************************)
EXTENDS RolzInv, WellFoundedInduction, TLAPS

(* The constructor of ZlingMTFEncoder leaves index the inverse of table. *)
LEMMA MtfInitConsistent ==
  MtfEncoderInit \in MtfCoder /\ MtfConsistent(MtfEncoderInit)
<1> DEFINE pos(c) == CHOOSE i \in Byte : mtfinit[i] = c
<1>1. \A c \in Byte : pos(c) \in Byte /\ mtfinit[pos(c)] = c
  BY MtfAssumption
<1>2. \A i \in Byte : mtfinit[i] \in Byte
  BY MtfAssumption
<1>3. \A i \in Byte : pos(mtfinit[i]) = i
  <2>1. SUFFICES ASSUME NEW i \in Byte PROVE pos(mtfinit[i]) = i
    OBVIOUS
  <2>2. pos(mtfinit[i]) \in Byte /\ mtfinit[pos(mtfinit[i])] = mtfinit[i]
    BY <1>1, <1>2
  <2> QED
    BY <2>2, MtfAssumption
<1> HIDE DEF pos
<1>4. MtfEncoderInit = [table |-> mtfinit, index |-> [c \in Byte |-> pos(c)]]
  BY DEF MtfEncoderInit, pos
<1>5. MtfEncoderInit \in MtfCoder
  BY <1>1, <1>4, MtfAssumption DEF MtfCoder
<1> QED
  BY <1>1, <1>2, <1>3, <1>4, <1>5 DEF MtfConsistent

(* Coding one byte keeps the encoder's tables inverse to one another; the    *)
(* decoder gets the byte back from its rank, and is left with the table the  *)
(* encoder is left with.                                                     *)
THEOREM MtfInverse ==
  ASSUME NEW m \in MtfCoder, NEW c \in Byte, MtfConsistent(m)
  PROVE  /\ MtfRank(m, c) \in Byte
         /\ MtfEncode(m, c) \in MtfCoder
         /\ MtfConsistent(MtfEncode(m, c))
         /\ MtfByte(m.table, MtfRank(m, c)) = c
         /\ MtfDecode(m.table, MtfRank(m, c)) = MtfEncode(m, c).table
<1> DEFINE t == m.table
           x == m.index
           i == x[c]
           j == mtfnext[i]
           tt == SwapAt(t, i, j)
           xx == SwapAt(x, c, t[j])
<1>1. t \in [Byte -> Byte] /\ x \in [Byte -> Byte]
  BY DEF MtfCoder
<1>2. i \in Byte /\ j \in Byte /\ t[j] \in Byte
  BY <1>1, MtfAssumption
<1>3. MtfEncode(m, c) = [table |-> tt, index |-> xx]
  BY DEF MtfEncode
<1>4. tt \in [Byte -> Byte] /\ xx \in [Byte -> Byte]
  BY <1>1, <1>2 DEF SwapAt
<1>5. /\ \A b \in Byte : t[x[b]] = b
      /\ \A k \in Byte : x[t[k]] = k
  BY DEF MtfConsistent
<1>6. t[i] = c /\ x[t[j]] = j
  BY <1>2, <1>5
<1>7. \A b \in Byte : tt[xx[b]] = b
  BY <1>1, <1>2, <1>5, <1>6 DEF SwapAt
<1>8. \A k \in Byte : xx[tt[k]] = k
  BY <1>1, <1>2, <1>5, <1>6 DEF SwapAt
<1>9. MtfConsistent(MtfEncode(m, c))
  BY <1>3, <1>7, <1>8 DEF MtfConsistent
<1>10. MtfByte(t, MtfRank(m, c)) = c /\ MtfDecode(t, MtfRank(m, c)) = tt
  BY <1>6 DEF MtfByte, MtfDecode, MtfRank
<1> QED
  BY <1>2, <1>3, <1>4, <1>9, <1>10 DEF MtfCoder, MtfRank

-----------------------------------------------------------------------------
(* Adding one to a node stays in the ring. *)
LEMMA RollingAddNode ==
  ASSUME NEW h \in Node PROVE RollingAdd(h, 1) \in Node
BY RolzAssumption DEF RollingAdd, Node

(* The distance of a node from the head leads back to the node; it is not   *)
(* zero unless the node is the head.                                        *)
LEMMA RollingDistance ==
  ASSUME NEW h \in Node, NEW n \in Node
  PROVE  /\ RollingSub(h, n) \in Node
         /\ RollingSub(h, RollingSub(h, n)) = n
         /\ n # h => RollingSub(h, n) \in 1 .. BucketItemSize - 1
BY RolzAssumption DEF RollingSub, Node

LEMMA ByteIsNat == Byte \subseteq Nat /\ 0 \in Byte
BY MtfAssumption DEF Byte

(* The word table starts out, and stays, a table of words. *)
LEMMA NoWordsType == NoWords \in MruTable
BY ByteIsNat DEF NoWords, MruTable, Word

LEMMA PushWordType ==
  ASSUME NEW mru \in MruTable, NEW c \in Byte, NEW w \in Word
  PROVE  PushWord(mru, c, w) \in MruTable /\ PushNewWord(mru, c, w) \in MruTable
<1>1. [slot \in {0, 1} |-> IF slot = 0 THEN w ELSE mru[c][0]] \in [{0, 1} -> Word]
  BY DEF MruTable
<1>2. PushWord(mru, c, w) \in MruTable
  BY <1>1 DEF PushWord, MruTable
<1> QED
  BY <1>2 DEF PushNewWord

(* A token stands for one length, and no length for a byte or a word. *)
LEMMA MatchCodes ==
  ASSUME NEW len \in MatchMinLen .. MatchMaxLen
  PROVE  /\ IsMatchCode(MatchCode(len)) /\ MatchLen(MatchCode(len)) = len
         /\ MatchCode(len) \in Nat /\ MatchCode(len) <= MatchCode(MatchMaxLen)
BY MtfAssumption, RolzAssumption DEF IsMatchCode, MatchCode, MatchLen

LEMMA MatchLenBound ==
  ASSUME NEW v \in Nat, IsMatchCode(v)
  PROVE  MatchLen(v) \in Nat /\ MatchLen(v) >= 3
BY MtfAssumption, RolzAssumption DEF IsMatchCode, MatchLen

LEMMA ByteAndWordCodes ==
  /\ \A v \in Byte : ~IsMatchCode(v) /\ v <= MatchCode(MatchMaxLen)
  /\ \A slot \in {0, 1} :
       /\ WordCode(slot) \in Nat /\ WordCode(slot) \notin Byte /\ ~IsMatchCode(WordCode(slot))
       /\ WordCode(slot) >= NumBytes /\ WordCode(slot) <= MatchCode(MatchMaxLen)
  /\ WordCode(0) # WordCode(1)
BY MtfAssumption, RolzAssumption DEF IsMatchCode, MatchCode, WordCode, Byte
-----------------------------------------------------------------------------
(* A nonempty set of natural numbers has a least element. *)
Less == OpToRel(<, Nat)

LEMMA LeastNat ==
  ASSUME NEW S, S \subseteq Nat, S # {}
  PROVE  \E m \in S : \A n \in S : m <= n
<1>1. IsWellFoundedOn(Less, Nat)
  BY NatLessThanWellFounded DEF Less
<1>2. PICK m \in S : \A n \in S : <<n, m>> \notin Less
  BY <1>1, WFMin
<1>3. ASSUME NEW n \in S PROVE m <= n
  <2>1. m \in Nat /\ n \in Nat
    OBVIOUS
  <2>2. n < m => <<n, m>> \in Less
    BY <2>1, Zenon DEF OpToRel, Less
  <2> QED
    BY <1>2, <2>1, <2>2
<1> QED
  BY <1>3

(* GetCommonLength returns a number of bytes that do agree: none, or at      *)
(* least kMatchMinLen and at most kMatchMaxLen.                              *)
LEMMA CommonLengthAgrees ==
  ASSUME NEW p \in Nat, NEW q \in Nat
  PROVE  /\ CommonLength(p, q) \in {0} \cup MatchMinLen .. MatchMaxLen
         /\ SameBytes(p, q, CommonLength(p, q))
<1>1. CASE ~SameBytes(p, q, MatchMinLen)
  BY <1>1 DEF CommonLength, SameBytes
<1>2. CASE SameBytes(p, q, MatchMinLen)
  <2> DEFINE P(n) == SameBytes(p, q, n) /\ (n < MatchMaxLen => ibuf[p + n] # ibuf[q + n])
             Differ == {n \in MatchMinLen .. MatchMaxLen - 1 : ibuf[p + n] # ibuf[q + n]}
  <2>1. \E n \in MatchMinLen .. MatchMaxLen : P(n)
    <3>1. CASE Differ = {}
      <4>1. \A n \in MatchMinLen .. MatchMaxLen - 1 : ibuf[p + n] = ibuf[q + n]
        BY <3>1
      <4>2. SameBytes(p, q, MatchMaxLen)
        BY <1>2, <4>1, RolzAssumption DEF SameBytes
      <4> QED
        BY <4>2, RolzAssumption
    <3>2. CASE Differ # {}
      <4>1. Differ \subseteq Nat
        BY RolzAssumption
      <4>2. PICK m \in Differ : \A n \in Differ : m <= n
        BY <3>2, <4>1, LeastNat
      <4>3. SameBytes(p, q, m)
        BY <1>2, <4>2, RolzAssumption DEF SameBytes
      <4> QED
        BY <4>2, <4>3, RolzAssumption
    <3> QED
      BY <3>1, <3>2
  <2>2. CommonLength(p, q) = CHOOSE n \in MatchMinLen .. MatchMaxLen : P(n)
    BY <1>2 DEF CommonLength
  <2> HIDE DEF P
  <2>3. CommonLength(p, q) \in MatchMinLen .. MatchMaxLen /\ P(CommonLength(p, q))
    BY <2>1, <2>2
  <2> QED
    BY <2>3 DEF P
<1> QED
  BY <1>1, <1>2

-----------------------------------------------------------------------------
(* A token's meaning depends on the block, which stays while it is encoded. *)
LEMMA StepsStable ==
  ASSUME UNCHANGED <<ibuf, ilen>>, NEW s, NEW t, NEW v, NEW idx
  PROVE  /\ Advance(s, t)' <=> Advance(s, t)
         /\ FirstStep(s, t, v)' <=> FirstStep(s, t, v)
         /\ LiteralStep(s, t, v)' <=> LiteralStep(s, t, v)
         /\ WordStep(s, t, v)' <=> WordStep(s, t, v)
         /\ MatchStep(s, t, v, idx)' <=> MatchStep(s, t, v, idx)
<1>1. \A p : InTail(p)' = InTail(p)
  BY DEF InTail
<1>2. \A p, q, n : SameBytes(p, q, n)' = SameBytes(p, q, n)
  BY DEF SameBytes
<1>3. \A b, p : Entered(b, p)' = Entered(b, p)
  BY DEF Entered
<1>4. Advance(s, t)' <=> Advance(s, t)
  BY <1>1, <1>3 DEF Advance
<1>5. FirstStep(s, t, v)' <=> FirstStep(s, t, v)
  BY DEF FirstStep
<1>6. LiteralStep(s, t, v)' <=> LiteralStep(s, t, v)
  BY DEF LiteralStep
<1>7. WordStep(s, t, v)' <=> WordStep(s, t, v)
  BY DEF WordStep
<1>8. MatchStep(s, t, v, idx)' <=> MatchStep(s, t, v, idx)
  BY <1>1, <1>2, <1>3 DEF MatchStep
<1> QED
  BY <1>4, <1>5, <1>6, <1>7, <1>8

(* The tokens before the last one keep their meaning when one is added. *)
LEMMA OldTokens ==
  ASSUME HistoryInv, UNCHANGED <<ibuf, ilen>>, tbuf \in Seq(Nat), Len(tbuf) < Len(tbuf'),
         \A i \in 1 .. Len(tbuf) : tbuf'[i] = tbuf[i],
         DOMAIN hist \subseteq DOMAIN hist',
         \A i \in DOMAIN hist : hist'[i] = hist[i],
         NEW k \in DOMAIN hist, k < Len(tbuf)
  PROVE  TokenStep(k)'
<1>1. k \in 0 .. Len(tbuf) - 1 /\ TokenStep(k) /\ DOMAIN hist \subseteq 0 .. Len(tbuf)
  BY DEF HistoryInv
<1>2. hist'[k] = hist[k] /\ tbuf'[k + 1] = tbuf[k + 1]
  <2>1. k + 1 \in 1 .. Len(tbuf)
    BY <1>1
  <2> QED
    BY <2>1
<1>3. CASE hist[k].pos < 2
  <2>1. k + 1 \in DOMAIN hist /\ FirstStep(hist[k], hist[k + 1], tbuf[k + 1])
    BY <1>1, <1>3 DEF TokenStep
  <2>2. FirstStep(hist[k], hist[k + 1], tbuf[k + 1])'
    BY <2>1, <1>2, StepsStable
  <2> QED
    BY <1>2, <1>3, <2>1, <2>2 DEF TokenStep
<1>4. CASE ~(hist[k].pos < 2) /\ IsMatchCode(tbuf[k + 1])
  <2>1. /\ k + 2 \in DOMAIN hist
        /\ Advance(hist[k], hist[k + 2])
        /\ MatchStep(hist[k], hist[k + 2], tbuf[k + 1], tbuf[k + 2])
    BY <1>1, <1>4 DEF TokenStep
  <2>2. tbuf'[k + 2] = tbuf[k + 2] /\ hist'[k + 2] = hist[k + 2]
    BY <1>1, <2>1
  <2>3. /\ Advance(hist[k], hist[k + 2])'
        /\ MatchStep(hist[k], hist[k + 2], tbuf[k + 1], tbuf[k + 2])'
    BY <2>1, <2>2, <1>2, StepsStable
  <2> QED
    BY <1>2, <1>4, <2>1, <2>3 DEF TokenStep, IsMatchCode
<1>5. CASE ~(hist[k].pos < 2) /\ ~IsMatchCode(tbuf[k + 1])
  <2>1. /\ k + 1 \in DOMAIN hist
        /\ Advance(hist[k], hist[k + 1])
        /\ \/ LiteralStep(hist[k], hist[k + 1], tbuf[k + 1])
           \/ WordStep(hist[k], hist[k + 1], tbuf[k + 1])
    BY <1>1, <1>5 DEF TokenStep
  <2>2. hist'[k + 1] = hist[k + 1]
    BY <2>1
  <2>3. /\ Advance(hist[k], hist[k + 1])'
        /\ \/ LiteralStep(hist[k], hist[k + 1], tbuf[k + 1])'
           \/ WordStep(hist[k], hist[k + 1], tbuf[k + 1])'
    BY <2>1, <2>2, <1>2, StepsStable
  <2> QED
    BY <1>2, <1>5, <2>1, <2>3 DEF TokenStep, IsMatchCode
<1> QED
  BY <1>3, <1>4, <1>5

(* Tokens keep their meaning in a step that touches neither them nor the    *)
(* block.                                                                    *)
LEMMA HistoryKept ==
  ASSUME HistoryInv, UNCHANGED <<ibuf, ilen, ipos, tbuf, hist>>
  PROVE  HistoryInv'
<1>1. ASSUME NEW k \in DOMAIN hist, TokenStep(k) PROVE TokenStep(k)'
  <2>1. UNCHANGED <<ibuf, ilen>>
    OBVIOUS
  <2>2. CASE hist[k].pos < 2
    <3>1. k + 1 \in DOMAIN hist /\ FirstStep(hist[k], hist[k + 1], tbuf[k + 1])
      BY <1>1, <2>2 DEF TokenStep
    <3>2. FirstStep(hist[k], hist[k + 1], tbuf[k + 1])'
      BY <2>1, <3>1, StepsStable
    <3> QED
      BY <2>2, <3>1, <3>2 DEF TokenStep
  <2>3. CASE ~(hist[k].pos < 2) /\ IsMatchCode(tbuf[k + 1])
    <3>1. /\ k + 2 \in DOMAIN hist
          /\ Advance(hist[k], hist[k + 2])
          /\ MatchStep(hist[k], hist[k + 2], tbuf[k + 1], tbuf[k + 2])
      BY <1>1, <2>3 DEF TokenStep
    <3>2. /\ Advance(hist[k], hist[k + 2])'
          /\ MatchStep(hist[k], hist[k + 2], tbuf[k + 1], tbuf[k + 2])'
      BY <2>1, <3>1, StepsStable
    <3> QED
      BY <2>3, <3>1, <3>2 DEF TokenStep, IsMatchCode
  <2>4. CASE ~(hist[k].pos < 2) /\ ~IsMatchCode(tbuf[k + 1])
    <3>1. /\ k + 1 \in DOMAIN hist
          /\ Advance(hist[k], hist[k + 1])
          /\ \/ LiteralStep(hist[k], hist[k + 1], tbuf[k + 1])
             \/ WordStep(hist[k], hist[k + 1], tbuf[k + 1])
      BY <1>1, <2>4 DEF TokenStep
    <3>2. /\ Advance(hist[k], hist[k + 1])'
          /\ \/ LiteralStep(hist[k], hist[k + 1], tbuf[k + 1])'
             \/ WordStep(hist[k], hist[k + 1], tbuf[k + 1])'
      BY <2>1, <3>1, StepsStable
    <3> QED
      BY <2>4, <3>1, <3>2 DEF TokenStep, IsMatchCode
  <2> QED
    BY <2>2, <2>3, <2>4
<1> QED
  BY <1>1 DEF HistoryInv

(* What a bucket looks like to a decoder. *)
Rings == [c \in Byte |-> [head |-> encBucket[c].head, offset |-> encBucket[c].offset]]
Tables == [c \in Byte |-> encMtf[c].table]

LEMMA EncViewFields ==
  /\ EncView = [pos |-> ipos, bucket |-> Rings, table |-> Tables, mru |-> encMru]
  /\ EncTypeOK => EncView \in View
<1>1. EncView = [pos |-> ipos, bucket |-> Rings, table |-> Tables, mru |-> encMru]
  BY DEF EncView, Rings, Tables
<1>2. ASSUME EncTypeOK PROVE EncView \in View
  <2>1. Rings \in [Byte -> DecoderBucket]
    BY <1>2 DEF EncTypeOK, EncoderBucket, DecoderBucket, Rings
  <2>2. Tables \in [Byte -> [Byte -> Byte]]
    BY <1>2 DEF EncTypeOK, MtfCoder, Tables
  <2>3. ipos \in 0 .. BlockSizeIn /\ encMru \in MruTable
    BY <1>2, RolzAssumption DEF EncTypeOK
  <2> QED
    BY <1>1, <2>1, <2>2, <2>3 DEF View
<1> QED
  BY <1>1, <1>2

LEMMA EncViewFieldsNext ==
  /\ EncView' = [pos |-> ipos', bucket |-> Rings', table |-> Tables', mru |-> encMru']
  /\ EncTypeOK' => EncView' \in View
<1>1. EncView' = [pos |-> ipos', bucket |-> Rings', table |-> Tables', mru |-> encMru']
  BY DEF EncView, Rings, Tables
<1>2. ASSUME EncTypeOK' PROVE EncView' \in View
  <2>1. Rings' \in [Byte -> DecoderBucket]
    BY <1>2 DEF EncTypeOK, EncoderBucket, DecoderBucket, Rings
  <2>2. Tables' \in [Byte -> [Byte -> Byte]]
    BY <1>2 DEF EncTypeOK, MtfCoder, Tables
  <2>3. ipos' \in 0 .. BlockSizeIn /\ encMru' \in MruTable
    BY <1>2, RolzAssumption DEF EncTypeOK
  <2> QED
    BY <1>1, <2>1, <2>2, <2>3 DEF View
<1> QED
  BY <1>1, <1>2
-----------------------------------------------------------------------------
(* Whatever the token: if it satisfies TokenStep the invariant is kept. *)
LEMMA TokenEmitted ==
  ASSUME IInv, Snapshot, UNCHANGED <<ibuf, ilen, encBucket, decVars, blocks>>,
         epc # "idle", epc' = "token", ipos < ipos',
         EncTypeOK', MtfInv',
         Len(tbuf') \in Len(tbuf) + 1 .. BlockSizeRolz,
         \A i \in 1 .. Len(tbuf) : tbuf'[i] = tbuf[i],
         NEW n, n = Len(tbuf), TokenStep(n)'
  PROVE  IInv'
<1>0. UNCHANGED <<obuf, opos, tpos, decBucket, decMtf, decMru, copy, dpc>>
  BY DEF decVars
<1>1. /\ TypeOK /\ EncTypeOK /\ tbuf \in Seq(Nat)
      /\ ipos \in Nat /\ ipos' \in Nat /\ ilen \in Nat /\ Len(tbuf) \in Nat
      /\ dpc = "idle"
  BY DEF IInv, TypeOK, EncTypeOK, DecoderInv
<1>2. /\ DOMAIN hist' = DOMAIN hist \cup {Len(tbuf')}
      /\ hist'[Len(tbuf')] = EncView'
      /\ DOMAIN hist \subseteq 0 .. Len(tbuf)
      /\ \A i \in DOMAIN hist : hist'[i] = hist[i]
      /\ 0 \in DOMAIN hist /\ Len(tbuf) \in DOMAIN hist
  <2>1. DOMAIN hist \subseteq 0 .. Len(tbuf) /\ 0 \in DOMAIN hist /\ Len(tbuf) \in DOMAIN hist
    BY DEF IInv, HistoryInv, PresentInv
  <2> QED
    BY <2>1, <1>1 DEF Snapshot
<1>3. TypeOK'
  <2>1. DecTypeOK' /\ blocks' \in Nat
    BY <1>0 DEF IInv, TypeOK, DecTypeOK
  <2>2. EncView' \in View
    BY EncViewFieldsNext
  <2>3. hist \in [DOMAIN hist -> View]
    BY DEF IInv, TypeOK
  <2>4. DOMAIN hist' \subseteq Nat
    BY <1>1, <1>2
  <2>5. hist' \in [DOMAIN hist' -> View]
    BY <1>2, <2>2, <2>3 DEF Snapshot
  <2> QED
    BY <2>1, <2>4, <2>5 DEF TypeOK
<1>4. BucketInv'
  <2>1. ~PosEntered'
    BY DEF PosEntered
  <2>2. ASSUME NEW c \in Byte, NEW d \in Node
        PROVE  encBucket[c].offset[d] = 0 \/ encBucket[c].offset[d] < ipos'
    <3>1. encBucket[c].offset[d] \in Nat
      BY <1>1 DEF EncTypeOK, EncoderBucket
    <3> QED
      BY <1>1, <3>1 DEF IInv, BucketInv
  <2> QED
    BY <2>2 DEF BucketInv
<1>5. SearchInv'
  BY DEF SearchInv, PosEntered
<1>6. PresentInv'
  BY <1>2, EncViewFieldsNext DEF PresentInv, PosEntered
<1>7. HistoryInv'
  <2>1. \A k \in DOMAIN hist' : hist'[k].pos <= ipos'
    <3>1. \A k \in DOMAIN hist : hist[k].pos \in Nat /\ hist[k].pos <= ipos
      BY DEF IInv, TypeOK, View, HistoryInv
    <3>2. EncView'.pos = ipos'
      BY EncViewFieldsNext
    <3> QED
      BY <1>1, <1>2, <3>1, <3>2
  <2>2. ASSUME NEW k \in DOMAIN hist', k < Len(tbuf') PROVE TokenStep(k)'
    <3>1. CASE k \in DOMAIN hist /\ k < Len(tbuf)
      <4>1. HistoryInv /\ UNCHANGED <<ibuf, ilen>> /\ Len(tbuf) < Len(tbuf')
        BY <1>1 DEF IInv
      <4>2. DOMAIN hist \subseteq DOMAIN hist'
        BY <1>2
      <4> QED
        BY <3>1, <4>1, <4>2, <1>1, <1>2, OldTokens
    <3>2. CASE k = Len(tbuf)
      BY <3>2
    <3>3. (k \in DOMAIN hist /\ k < Len(tbuf)) \/ k = Len(tbuf)
      <4>1. k \in DOMAIN hist => k \in 0 .. Len(tbuf)
        BY <1>2
      <4>2. k # Len(tbuf')
        BY <2>2
      <4> QED
        BY <1>1, <1>2, <2>2, <4>1, <4>2
    <3> QED
      BY <3>1, <3>2, <3>3
  <2> QED
    BY <1>1, <1>2, <2>1, <2>2 DEF HistoryInv
<1>8. DecoderInv'
  <2>1. hist'[0] = hist[0]
    BY <1>2
  <2>2. Follows(hist[0]) /\ hist[0].mru = NoWords
    BY DEF IInv, DecoderInv
  <2>3. Follows(hist[0])'
    BY <1>0, <2>1, <2>2 DEF Follows, InTail
  <2> QED
    BY <1>0, <1>1, <2>1, <2>2, <2>3 DEF DecoderInv, BothIdle
<1>9. PrefixInv'
  <2>1. opos \in Nat
    BY DEF IInv, TypeOK, DecTypeOK
  <2> QED
    BY <1>0, <1>1, <2>1 DEF IInv, PrefixInv
<1> QED
  BY <1>3, <1>4, <1>5, <1>6, <1>7, <1>8, <1>9 DEF IInv

(* The snapshot before the token about to be emitted. *)
LEMMA LastSnapshot ==
  ASSUME IInv, NEW n, n = Len(tbuf)
  PROVE  /\ n \in Nat /\ n \in DOMAIN hist /\ hist[n] \in View
         /\ hist[n].pos = ipos /\ hist[n].table = Tables /\ hist[n].mru = encMru
         /\ ~PosEntered => hist[n].bucket = Rings
         /\ PosEntered => Rings = Entered(hist[n].bucket, ipos)
<1>1. n \in DOMAIN hist /\ PresentInv
  BY DEF IInv, PresentInv
<1>2. hist[n] \in View /\ n \in Nat
  BY <1>1 DEF IInv, TypeOK, EncTypeOK
<1> QED
  BY <1>1, <1>2, EncViewFields DEF PresentInv

(* The snapshot after it. *)
LEMMA NewSnapshot ==
  ASSUME Snapshot, NEW n \in DOMAIN hist, n # Len(tbuf')
  PROVE  /\ n \in DOMAIN hist' /\ hist'[n] = hist[n]
         /\ Len(tbuf') \in DOMAIN hist' /\ hist'[Len(tbuf')] = EncView'
BY DEF Snapshot

LEMMA EncoderTypes ==
  ASSUME IInv
  PROVE  /\ EncTypeOK /\ MtfInv
         /\ ilen \in Nat /\ ipos \in Nat /\ ipos <= ilen /\ ilen <= BlockSizeIn
         /\ tbuf \in Seq(Nat) /\ Len(tbuf) \in Nat
         /\ \A p \in 0 .. ilen - 1 : ibuf[p] \in Byte /\ ibuf[p] \in Nat
<1>1. EncTypeOK /\ MtfInv
  BY DEF IInv, TypeOK
<1>2. ilen \in Nat /\ ipos \in Nat /\ ipos <= ilen /\ ilen <= BlockSizeIn
  BY <1>1, RolzAssumption DEF EncTypeOK
<1>3. tbuf \in Seq(Nat) /\ Len(tbuf) \in Nat
  BY <1>1 DEF EncTypeOK
<1>4. \A p \in 0 .. ilen - 1 : ibuf[p] \in Byte /\ ibuf[p] \in Nat
  BY <1>1, ByteIsNat DEF EncTypeOK
<1> QED
  BY <1>1, <1>2, <1>3, <1>4

LEMMA EncodeFirstInv ==
  ASSUME IInv, EncodeFirst, Snapshot, UNCHANGED <<decVars, blocks>>
  PROVE  IInv'
<1> DEFINE n == Len(tbuf)
<1>1. EncTypeOK /\ MtfInv
  BY EncoderTypes
<1>2. ibuf[ipos] \in Byte /\ ibuf[ipos] \in Nat /\ ipos \in Nat /\ ilen \in Nat
  BY EncoderTypes DEF EncodeFirst
<1>3. /\ Len(tbuf') = n + 1 /\ n \in Nat /\ tbuf' \in Seq(Nat)
      /\ tbuf'[n + 1] = ibuf[ipos]
      /\ \A i \in 1 .. n : tbuf'[i] = tbuf[i]
  BY <1>1, <1>2 DEF EncodeFirst, EncTypeOK
<1>4. EncTypeOK' /\ MtfInv'
  BY <1>1, <1>2, <1>3 DEF EncodeFirst, EncTypeOK, MtfInv
<1>5. ASSUME NEW k, k = n PROVE TokenStep(k)'
  <2>1. /\ hist'[k] = hist[k] /\ k + 1 \in DOMAIN hist' /\ hist'[k + 1] = EncView'
        /\ hist[k] \in View /\ hist[k].pos = ipos /\ hist[k].table = Tables
        /\ hist[k].mru = encMru /\ hist[k].bucket = Rings
    BY <1>3, <1>5, LastSnapshot, NewSnapshot DEF EncodeFirst, PosEntered
  <2>2. EncView' = [pos |-> ipos + 1, bucket |-> Rings, table |-> Tables, mru |-> encMru]
    BY EncViewFieldsNext DEF EncodeFirst, Rings, Tables
  <2>3. EncView' = [hist[k] EXCEPT !.pos = @ + 1]
    BY <2>1, <2>2 DEF View
  <2>4. FirstStep(hist[k], hist[k + 1], tbuf[k + 1])'
    BY <1>3, <1>5, <2>1, <2>3 DEF FirstStep, EncodeFirst
  <2> QED
    BY <2>1, <2>4 DEF TokenStep, EncodeFirst
<1>6. Len(tbuf') \in n + 1 .. BlockSizeRolz /\ ipos < ipos' /\ epc # "idle" /\ epc' = "token"
  BY <1>2, <1>3, RolzAssumption DEF EncodeFirst
<1>7. UNCHANGED <<ibuf, ilen, encBucket, decVars, blocks>>
  BY DEF EncodeFirst
<1> QED
  BY <1>3, <1>4, <1>5, <1>6, <1>7, TokenEmitted

LEMMA NoMatchFacts ==
  ASSUME IInv, NoMatch
  PROVE  /\ ipos >= 2 /\ ipos < ilen /\ HasRoom /\ epc # "idle"
         /\ ~InTail(ipos) => PosEntered
<1>1. CASE epc = "nomatch"
  <2>1. ipos >= 2 /\ ~InTail(ipos) /\ HasRoom
    BY <1>1 DEF IInv, SearchInv, PosEntered
  <2>2. ipos < ilen
    BY <2>1, EncoderTypes, RolzAssumption DEF InTail
  <2> QED
    BY <1>1, <2>1, <2>2 DEF PosEntered
<1>2. CASE NextToken /\ InTail(ipos)
  BY <1>2 DEF NextToken
<1> QED
  BY <1>1, <1>2 DEF NoMatch

(* Every token moves on, and matches the rings that MatchAndUpdate left. *)
LEMMA TokenAdvances ==
  ASSUME IInv, ~InTail(ipos) => PosEntered,
         UNCHANGED <<ibuf, ilen, encBucket>>, ipos < ipos', ipos' <= ilen,
         NEW s, s = hist[Len(tbuf)], NEW t, t = EncView'
  PROVE  Advance(s, t)'
<1>1. s.pos = ipos /\ t.pos = ipos' /\ t.bucket = Rings
  BY LastSnapshot, EncViewFieldsNext DEF Rings
<1>2. ASSUME ~InTail(s.pos)' PROVE t.bucket = Entered(s.bucket, s.pos)'
  <2>1. ~InTail(ipos)
    BY <1>1, <1>2 DEF InTail
  <2>2. Rings = Entered(s.bucket, ipos)
    BY <2>1, LastSnapshot
  <2> QED
    BY <1>1, <2>2 DEF Entered
<1> QED
  BY <1>1, <1>2 DEF Advance

LEMMA EncodeLiteralInv ==
  ASSUME IInv, EncodeLiteral, Snapshot, UNCHANGED <<decVars, blocks>>
  PROVE  IInv'
<1> DEFINE n == Len(tbuf)
           c == ibuf[ipos - 1]
           b == ibuf[ipos]
           v == MtfRank(encMtf[c], b)
<1>1. /\ NoMatch /\ ipos >= 2 /\ ipos < ilen /\ HasRoom /\ epc # "idle"
      /\ ~InTail(ipos) => PosEntered
  BY NoMatchFacts DEF EncodeLiteral
<1>2. c \in Byte /\ b \in Byte /\ ibuf[ipos - 2] \in Byte /\ ipos \in Nat /\ n \in Nat
  BY <1>1, EncoderTypes
<1>3. /\ encMtf \in [Byte -> MtfCoder] /\ encMtf[c] \in MtfCoder
      /\ MtfConsistent(encMtf[c])
  BY <1>2, EncoderTypes DEF EncTypeOK, MtfInv
<1>4. /\ v \in Byte /\ v \in Nat
      /\ MtfEncode(encMtf[c], b) \in MtfCoder
      /\ MtfConsistent(MtfEncode(encMtf[c], b))
      /\ MtfByte(encMtf[c].table, v) = b
      /\ MtfDecode(encMtf[c].table, v) = MtfEncode(encMtf[c], b).table
  BY <1>2, <1>3, MtfInverse, ByteIsNat
<1>5. /\ Len(tbuf') = n + 1 /\ tbuf' \in Seq(Nat) /\ tbuf'[n + 1] = v
      /\ \A i \in 1 .. n : tbuf'[i] = tbuf[i]
  BY <1>4, EncoderTypes DEF EncodeLiteral
<1>6. encMtf' = [encMtf EXCEPT ![c] = MtfEncode(encMtf[c], b)]
  BY DEF EncodeLiteral
<1>7. encMtf' \in [Byte -> MtfCoder] /\ MtfInv'
  BY <1>2, <1>3, <1>4, <1>6, EncoderTypes DEF MtfInv
<1>8. encMru' = PushWord(encMru, ibuf[ipos - 2], <<c, b>>) /\ encMru' \in MruTable
  <2>1. <<c, b>> \in Word
    BY <1>2 DEF Word
  <2> QED
    BY <1>2, <2>1, PushWordType, EncoderTypes DEF EncodeLiteral, EncTypeOK
<1>9. EncTypeOK'
  BY <1>1, <1>2, <1>5, <1>7, <1>8, EncoderTypes DEF EncodeLiteral, EncTypeOK
<1>10. Tables' = [Tables EXCEPT ![c] = MtfDecode(Tables[c], v)] /\ Tables[c] = encMtf[c].table
  BY <1>2, <1>3, <1>4, <1>6 DEF Tables
<1>11. ASSUME NEW k, k = n PROVE TokenStep(k)'
  <2>1. /\ hist'[k] = hist[k] /\ k + 1 \in DOMAIN hist' /\ hist'[k + 1] = EncView'
        /\ hist[k].pos = ipos /\ hist[k].table = Tables /\ hist[k].mru = encMru
    BY <1>5, <1>11, LastSnapshot, NewSnapshot
  <2>2. /\ EncView'.pos = ipos + 1 /\ EncView'.table = Tables' /\ EncView'.mru = encMru'
    BY EncViewFieldsNext DEF EncodeLiteral
  <2>3. Advance(hist[k], hist[k + 1])'
    BY <1>1, <1>2, <1>11, <2>1, EncoderTypes, TokenAdvances DEF EncodeLiteral
  <2>4. UNCHANGED ibuf
    BY DEF EncodeLiteral
  <2>5. b = Tables[c][v]
    BY <1>4, <1>10 DEF MtfByte
  <2>6. LiteralStep(hist[k], hist[k + 1], tbuf[k + 1])'
    BY <1>4, <1>5, <1>8, <1>10, <1>11, <2>1, <2>2, <2>4, <2>5 DEF LiteralStep
  <2>7. ~(hist'[k].pos < 2) /\ ~IsMatchCode(tbuf'[k + 1])
    BY <1>1, <1>2, <1>4, <1>5, <1>11, <2>1, ByteAndWordCodes
  <2> QED
    BY <2>1, <2>3, <2>6, <2>7 DEF TokenStep, IsMatchCode
<1>12. n + 1 \in n + 1 .. BlockSizeRolz
  BY <1>1, <1>2, RolzAssumption DEF HasRoom
<1>13. UNCHANGED <<ibuf, ilen, encBucket, decVars, blocks>> /\ ipos < ipos' /\ epc' = "token"
  BY <1>2 DEF EncodeLiteral
<1> QED
  BY <1>1, <1>5, <1>7, <1>9, <1>11, <1>12, <1>13, TokenEmitted

(* Both word tokens: slot is the one named by the token. *)
LEMMA EncodeWordInv ==
  ASSUME IInv, Snapshot, UNCHANGED <<decVars, blocks>>,
         NEW slot \in {0, 1}, NoMatch, IsWord(slot),
         tbuf' = Append(tbuf, WordCode(slot)),
         ipos' = ipos + 2, epc' = "token",
         encMru' = IF slot = 1 THEN PushWord(encMru, ibuf[ipos - 1], <<ibuf[ipos], ibuf[ipos + 1]>>)
                   ELSE encMru,
         UNCHANGED <<ibuf, ilen, encBucket, encMtf, level, search>>
  PROVE  IInv'
<1> DEFINE n == Len(tbuf)
           c == ibuf[ipos - 1]
           w == <<ibuf[ipos], ibuf[ipos + 1]>>
           v == WordCode(slot)
<1>1. /\ ipos >= 2 /\ ipos < ilen /\ HasRoom /\ epc # "idle"
      /\ ~InTail(ipos) => PosEntered
  BY NoMatchFacts
<1>2. ipos + 1 < ilen /\ encMru[c][slot] = w
  BY DEF IsWord
<1>3. c \in Byte /\ w \in Word /\ ipos \in Nat /\ n \in Nat
  BY <1>1, <1>2, EncoderTypes DEF Word
<1>4. v \in Nat /\ ~IsMatchCode(v)
  BY ByteAndWordCodes
<1>5. /\ Len(tbuf') = n + 1 /\ tbuf' \in Seq(Nat) /\ tbuf'[n + 1] = v
      /\ \A i \in 1 .. n : tbuf'[i] = tbuf[i]
  BY <1>4, EncoderTypes
<1>6. MtfInv' /\ Tables' = Tables
  BY EncoderTypes DEF MtfInv, Tables
<1>7. encMru' \in MruTable
  BY <1>3, PushWordType, EncoderTypes DEF EncTypeOK
<1>8. EncTypeOK'
  BY <1>2, <1>3, <1>5, <1>7, EncoderTypes DEF EncTypeOK
<1>9. ASSUME NEW k, k = n PROVE TokenStep(k)'
  <2>1. /\ hist'[k] = hist[k] /\ k + 1 \in DOMAIN hist' /\ hist'[k + 1] = EncView'
        /\ hist[k].pos = ipos /\ hist[k].table = Tables /\ hist[k].mru = encMru
    BY <1>5, <1>9, LastSnapshot, NewSnapshot
  <2>2. /\ EncView'.pos = ipos + 2 /\ EncView'.table = Tables /\ EncView'.mru = encMru'
    BY <1>6, EncViewFieldsNext
  <2>3. Advance(hist[k], hist[k + 1])'
    BY <1>1, <1>2, <1>3, <1>9, <2>1, EncoderTypes, TokenAdvances
  <2>4. WordStep(hist[k], hist[k + 1], tbuf[k + 1])'
    BY <1>2, <1>5, <1>9, <2>1, <2>2 DEF WordStep
  <2>5. ~(hist'[k].pos < 2) /\ ~IsMatchCode(tbuf'[k + 1])
    BY <1>1, <1>3, <1>4, <1>5, <1>9, <2>1
  <2> QED
    BY <2>1, <2>3, <2>4, <2>5 DEF TokenStep, IsMatchCode
<1>10. n + 1 \in n + 1 .. BlockSizeRolz
  BY <1>1, <1>3, RolzAssumption DEF HasRoom
<1>11. UNCHANGED <<ibuf, ilen, encBucket, decVars, blocks>> /\ ipos < ipos'
  BY <1>3
<1> QED
  BY <1>1, <1>5, <1>6, <1>8, <1>9, <1>10, <1>11, TokenEmitted

LEMMA EncodeWord0Inv ==
  ASSUME IInv, EncodeWord0, Snapshot, UNCHANGED <<decVars, blocks>>
  PROVE  IInv'
BY EncodeWordInv DEF EncodeWord0

LEMMA EncodeWord1Inv ==
  ASSUME IInv, EncodeWord1, Snapshot, UNCHANGED <<decVars, blocks>>
  PROVE  IInv'
BY EncodeWordInv DEF EncodeWord1

(* A match token: its distance leads the decoder to the node that was found, *)
(* and the bytes there agree for the whole length.                           *)
LEMMA EncodeMatchInv ==
  ASSUME IInv, EncodeMatch, Snapshot, UNCHANGED <<decVars, blocks>>
  PROVE  IInv'
<1> DEFINE n == Len(tbuf)
           c == ibuf[ipos - 1]
           bucket == encBucket[c]
           len == search.maxlen
           end == ipos + len
           v == MatchCode(len)
           idx == RollingSub(bucket.head, search.maxnode)
           w == <<ibuf[end - 2], ibuf[end - 1]>>
<1>1. /\ ipos >= 2 /\ ~InTail(ipos) /\ HasRoom /\ PosEntered /\ epc # "idle"
      /\ len \in MatchMinLen .. MatchMaxLen
      /\ search.maxnode # bucket.head
      /\ SameBytes(ipos, bucket.offset[search.maxnode], len)
  <2>1. PosEntered /\ epc # "idle" /\ epc = "found" /\ len >= MatchMinLen
    BY DEF EncodeMatch, PosEntered
  <2>2. len \in MatchMinLen - 1 .. MatchMaxLen
    BY <2>1 DEF IInv, SearchInv
  <2>3. len \in MatchMinLen .. MatchMaxLen
    BY <2>1, <2>2, RolzAssumption
  <2> QED
    BY <2>1, <2>3 DEF IInv, SearchInv
<1>2. /\ ipos \in Nat /\ end \in Nat /\ end >= ipos + 3 /\ end < ilen /\ n \in Nat /\ ilen \in Nat
  BY <1>1, EncoderTypes, RolzAssumption DEF InTail
<1>3. c \in Byte /\ ibuf[end - 3] \in Byte /\ w \in Word
  BY <1>1, <1>2, EncoderTypes DEF Word
<1>4. bucket \in EncoderBucket /\ bucket.head \in Node /\ search.maxnode \in Node
  BY <1>3, EncoderTypes DEF EncTypeOK, EncoderBucket, Search
<1>5. /\ idx \in 1 .. BucketItemSize - 1 /\ RollingSub(bucket.head, idx) = search.maxnode
  BY <1>1, <1>4, RollingDistance
<1>6. idx \in Nat
  BY <1>5, RolzAssumption
<1>7. v \in Nat /\ IsMatchCode(v) /\ MatchLen(v) = len /\ v <= MatchCode(MatchMaxLen)
  BY <1>1, MatchCodes
<1>8. /\ Len(tbuf') = n + 2 /\ tbuf' \in Seq(Nat)
      /\ tbuf'[n + 1] = v /\ tbuf'[n + 2] = idx
      /\ \A i \in 1 .. n : tbuf'[i] = tbuf[i]
  BY <1>6, <1>7, EncoderTypes DEF EncodeMatch
<1>9. encMru' = PushNewWord(encMru, ibuf[end - 3], w) /\ encMru' \in MruTable
  BY <1>3, PushWordType, EncoderTypes DEF EncTypeOK, EncodeMatch
<1>10. MtfInv' /\ Tables' = Tables
  BY EncoderTypes DEF MtfInv, Tables, EncodeMatch
<1>11. NoSearch \in Search
  BY RolzAssumption DEF NoSearch, Search, Node
<1>12. EncTypeOK'
  <2>1. ipos' = end /\ epc' = "token" /\ search' = NoSearch
        /\ UNCHANGED <<ibuf, ilen, encBucket, encMtf, level>>
    BY DEF EncodeMatch
  <2>2. ipos' \in 0 .. ilen'
    BY <1>2, <2>1
  <2> QED
    BY <1>8, <1>9, <1>11, <2>1, <2>2, EncoderTypes DEF EncTypeOK
<1>13. bucket.offset[search.maxnode] < ipos
  <2>1. bucket.offset[search.maxnode] = 0 \/ bucket.offset[search.maxnode] < ipos
    BY <1>1, <1>3, <1>4 DEF IInv, BucketInv
  <2> QED
    BY <1>1, <1>2, <2>1
<1>14. ASSUME NEW k, k = n PROVE TokenStep(k)'
  <2>1. /\ hist'[k] = hist[k] /\ k + 2 \in DOMAIN hist' /\ hist'[k + 2] = EncView'
        /\ hist[k] \in View
        /\ hist[k].pos = ipos /\ hist[k].table = Tables /\ hist[k].mru = encMru
        /\ Rings = Entered(hist[k].bucket, ipos)
    BY <1>1, <1>8, <1>14, LastSnapshot, NewSnapshot
  <2>2. EncView'.pos = end /\ EncView'.table = Tables /\ EncView'.mru = encMru'
    BY <1>10, EncViewFieldsNext DEF EncodeMatch
  <2>3. Advance(hist[k], hist[k + 2])'
    BY <1>1, <1>2, <1>14, <2>1, TokenAdvances DEF EncodeMatch
  <2>4. UNCHANGED <<ibuf, ilen>>
    BY DEF EncodeMatch
  <2>5. MatchOffset(Rings[c], idx) = bucket.offset[search.maxnode]
    BY <1>3, <1>5 DEF MatchOffset, Rings
  <2>6. Entered(hist[k].bucket, hist[k].pos)' = Rings
    BY <2>1, <2>4 DEF Entered
  <2>7. MatchStep(hist[k], hist[k + 2], tbuf[k + 1], tbuf[k + 2])'
    <3>1. InTail(ipos) = InTail(hist[k].pos)'
      BY <2>1, <2>4 DEF InTail
    <3>2. SameBytes(ipos, bucket.offset[search.maxnode], len)
      BY <1>1
    <3> QED
      BY <1>1, <1>5, <1>7, <1>8, <1>9, <1>13, <1>14, <2>1, <2>2, <2>4, <2>5, <2>6, <3>1, <3>2
      DEF MatchStep, SameBytes
  <2>8. ~(hist'[k].pos < 2) /\ IsMatchCode(tbuf'[k + 1])
    BY <1>1, <1>2, <1>7, <1>8, <1>14, <2>1
  <2> QED
    BY <2>1, <2>3, <2>7, <2>8 DEF TokenStep, IsMatchCode
<1>15. n + 2 \in n + 1 .. BlockSizeRolz
  BY <1>1, <1>2, RolzAssumption DEF HasRoom
<1>16. UNCHANGED <<ibuf, ilen, encBucket, decVars, blocks>> /\ ipos < ipos' /\ epc' = "token"
  BY <1>2 DEF EncodeMatch
<1> QED
  BY <1>1, <1>8, <1>10, <1>12, <1>14, <1>15, <1>16, TokenEmitted
-----------------------------------------------------------------------------
(* The update of a bucket: it stays a bucket, and its rings change as the    *)
(* decoder's rings do.                                                       *)
LEMMA InsertNodeType ==
  ASSUME EncTypeOK, NEW p \in Nat, p + 3 < ilen, NEW b \in EncoderBucket
  PROVE  /\ HashSlotAt(p) \in HashSlot
         /\ InsertNode(b, p) \in EncoderBucket
         /\ InsertNode(b, p).head = RollingAdd(b.head, 1)
         /\ InsertNode(b, p).offset = [b.offset EXCEPT ![RollingAdd(b.head, 1)] = p]
<1> DEFINE h == RollingAdd(b.head, 1)
<1>1. /\ ilen \in Nat /\ ilen <= BlockSizeIn
      /\ ibuf \in [0 .. ilen - 1 -> Byte]
  BY RolzAssumption DEF EncTypeOK
<1>2. ibuf[p] \in Byte /\ ibuf[p + 1] \in Byte /\ ibuf[p + 2] \in Byte /\ ibuf[p + 3] \in Byte
  BY <1>1
<1>3. HashAt(p) \in Nat
  BY <1>2, EncoderAssumption DEF HashAt
<1>4. HashSlotAt(p) \in HashSlot
  BY <1>3, EncoderAssumption DEF HashSlotAt, HashSlot
<1>5. HashCheckAt(p) \in 0 .. 255
  <2>1. HashAt(p) \div BucketItemHash \in Int
    BY <1>3, EncoderAssumption
  <2> QED
    BY <2>1 DEF HashCheckAt
<1>6. h \in Node /\ p \in 0 .. BlockSizeIn - 1
  BY <1>1, RollingAddNode, RolzAssumption DEF EncoderBucket
<1>7. b.hash[HashSlotAt(p)] \in NodeOrNone /\ h \in NodeOrNone
  BY <1>4, <1>6 DEF EncoderBucket, NodeOrNone
<1>8. InsertNode(b, p) \in EncoderBucket
  <2>1. [b.offset EXCEPT ![h] = p] \in [Node -> 0 .. BlockSizeIn - 1]
    BY <1>6 DEF EncoderBucket
  <2>2. [b.check EXCEPT ![h] = HashCheckAt(p)] \in [Node -> 0 .. 255]
    BY <1>5, <1>6 DEF EncoderBucket
  <2>3. [b.suffix EXCEPT ![h] = b.hash[HashSlotAt(p)]] \in [Node -> NodeOrNone]
    BY <1>6, <1>7 DEF EncoderBucket
  <2>4. [b.hash EXCEPT ![HashSlotAt(p)] = h] \in [HashSlot -> NodeOrNone]
    BY <1>4, <1>7 DEF EncoderBucket
  <2> QED
    BY <1>6, <2>1, <2>2, <2>3, <2>4 DEF InsertNode, EncoderBucket
<1> QED
  BY <1>4, <1>8 DEF InsertNode

(* A step of the search touches nothing that was agreed before. *)
LEMMA SearchKeeps ==
  ASSUME IInv, epc # "idle", epc' # "idle",
         UNCHANGED <<ibuf, ilen, ipos, tbuf, decVars, blocks, hist>>,
         EncTypeOK', MtfInv', BucketInv', SearchInv', PresentInv'
  PROVE  IInv'
<1>1. UNCHANGED <<obuf, opos, tpos, decBucket, decMtf, decMru, copy, dpc>>
  BY DEF decVars
<1>2. TypeOK'
  BY <1>1 DEF IInv, TypeOK, DecTypeOK
<1>3. HistoryInv'
  BY HistoryKept DEF IInv
<1>4. DecoderInv'
  <2>1. Follows(hist[0])' = Follows(hist[0])
    BY <1>1 DEF Follows, InTail
  <2> QED
    BY <1>1, <2>1 DEF IInv, DecoderInv, BothIdle
<1>5. PrefixInv'
  BY <1>1 DEF IInv, PrefixInv
<1> QED
  BY <1>2, <1>3, <1>4, <1>5 DEF IInv

LEMMA StartMatchInv ==
  ASSUME IInv, StartMatch, UNCHANGED <<decVars, blocks, hist>>
  PROVE  IInv'
<1> DEFINE c == ibuf[ipos - 1]
           b == encBucket[c]
           h == RollingAdd(b.head, 1)
           node == b.hash[HashSlotAt(ipos)]
<1>1. /\ epc = "token" /\ ipos >= 2 /\ ipos < ilen /\ HasRoom /\ ~InTail(ipos)
      /\ UNCHANGED <<ibuf, ilen, ipos, tbuf, encMtf, encMru, level>>
      /\ encBucket' = [encBucket EXCEPT ![c] = InsertNode(b, ipos)]
      /\ \/ epc' = "nomatch" /\ UNCHANGED search
         \/ /\ node # NoNode /\ node # h
            /\ epc' = "search"
            /\ search' = [node |-> node, maxnode |-> 0, maxlen |-> MatchMinLen - 1, i |-> 0]
  BY DEF StartMatch, NextToken, NoCandidate
<1>2. ipos \in Nat /\ c \in Byte /\ ipos + 3 < ilen
  BY <1>1, EncoderTypes, RolzAssumption DEF InTail
<1>3. b \in EncoderBucket /\ encBucket \in [Byte -> EncoderBucket]
  BY <1>2, EncoderTypes DEF EncTypeOK
<1>4. /\ InsertNode(b, ipos) \in EncoderBucket
      /\ InsertNode(b, ipos).head = h
      /\ InsertNode(b, ipos).offset = [b.offset EXCEPT ![h] = ipos]
      /\ HashSlotAt(ipos) \in HashSlot
  BY <1>2, <1>3, InsertNodeType, EncoderTypes
<1>5. h \in Node /\ node \in NodeOrNone
  BY <1>3, <1>4, RollingAddNode DEF EncoderBucket
<1>6. encBucket'[c] = InsertNode(b, ipos) /\ encBucket' \in [Byte -> EncoderBucket]
      /\ \A d \in Byte : d # c => encBucket'[d] = encBucket[d]
  BY <1>1, <1>2, <1>3, <1>4
<1>7. search' \in Search
  <2>1. CASE UNCHANGED search
    BY <2>1, EncoderTypes DEF EncTypeOK
  <2>2. CASE /\ node # NoNode
             /\ search' = [node |-> node, maxnode |-> 0, maxlen |-> MatchMinLen - 1, i |-> 0]
    BY <2>2, <1>5, RolzAssumption DEF Search, Node, NodeOrNone
  <2> QED
    BY <1>1, <2>1, <2>2
<1>8. EncTypeOK' /\ MtfInv'
  BY <1>1, <1>6, <1>7, EncoderTypes DEF EncTypeOK, MtfInv
<1>9. PosEntered' /\ ~PosEntered /\ epc # "idle" /\ epc' # "idle"
  BY <1>1 DEF PosEntered
<1>10. BucketInv'
  <2>1. ASSUME NEW d \in Byte, NEW n \in Node
        PROVE  \/ encBucket'[d].offset[n] = 0
               \/ encBucket'[d].offset[n] < ipos
               \/ d = c /\ n = h /\ encBucket'[d].offset[n] = ipos
    <3>1. encBucket[d].offset[n] = 0 \/ encBucket[d].offset[n] < ipos
      BY <1>9 DEF IInv, BucketInv
    <3>2. CASE d # c
      BY <1>6, <3>1, <3>2
    <3>3. CASE d = c
      BY <1>3, <1>4, <1>5, <1>6, <3>1, <3>3 DEF EncoderBucket
    <3> QED
      BY <3>2, <3>3
  <2>2. encBucket'[c].head = h
    BY <1>4, <1>6
  <2> QED
    BY <1>1, <1>9, <2>1, <2>2 DEF BucketInv
<1>11. SearchInv'
  <2>1. encBucket'[c].head = h /\ encBucket'[c].offset[h] = ipos
    BY <1>3, <1>4, <1>5, <1>6 DEF EncoderBucket
  <2>2. ~InTail(ipos)' /\ HasRoom'
    BY <1>1 DEF InTail, HasRoom
  <2>3. epc' \in {"search", "nomatch"}
    BY <1>1
  <2>4. epc' = "search" => /\ search'.node = node /\ node # h
                           /\ search'.maxlen = MatchMinLen - 1
    BY <1>1
  <2>5. MatchMinLen - 1 \in MatchMinLen - 1 .. MatchMaxLen /\ ~(MatchMinLen - 1 >= MatchMinLen)
    BY RolzAssumption
  <2> QED
    BY <1>1, <2>1, <2>2, <2>3, <2>4, <2>5 DEF SearchInv
<1>12. PresentInv'
  <2>1. ASSUME NEW n, n = Len(tbuf) PROVE Rings' = Entered(hist[n].bucket, ipos)
    <3>1. hist[n].bucket = Rings
      BY <1>9, <2>1, LastSnapshot
    <3>2. PushOffset(Rings[c], ipos) = [head |-> h, offset |-> [b.offset EXCEPT ![h] = ipos]]
      BY <1>2 DEF PushOffset, Rings
    <3>3. Rings' = [Rings EXCEPT ![c] = PushOffset(@, ipos)]
      BY <1>2, <1>4, <1>6, <3>2 DEF Rings
    <3> QED
      BY <3>1, <3>3 DEF Entered
  <2>2. ASSUME NEW n, n = Len(tbuf)
        PROVE  n \in DOMAIN hist /\ hist[n].pos = ipos /\ hist[n].table = Tables /\ hist[n].mru = encMru
    BY <2>2, LastSnapshot
  <2>3. Tables' = Tables
    BY <1>1 DEF Tables
  <2>4. UNCHANGED <<ibuf, hist, tbuf, ipos, encMru>>
    BY <1>1
  <2>5. Entered(hist[Len(tbuf)].bucket, ipos)' = Entered(hist[Len(tbuf)].bucket, ipos)
    BY <2>4 DEF Entered
  <2> QED
    BY <1>9, <2>1, <2>2, <2>3, <2>4, <2>5, EncViewFieldsNext DEF PresentInv
<1> QED
  BY <1>1, <1>8, <1>9, <1>10, <1>11, <1>12, SearchKeeps

LEMMA RejectMatchInv ==
  ASSUME IInv, RejectMatch, UNCHANGED <<decVars, blocks, hist>>
  PROVE  IInv'
<1>1. /\ epc = "found" /\ epc' = "nomatch" /\ search' = NoSearch
      /\ UNCHANGED <<ibuf, ilen, ipos, tbuf, encBucket, encMtf, encMru, level>>
  BY DEF RejectMatch
<1>2. NoSearch \in Search
  BY RolzAssumption DEF NoSearch, Search, Node
<1>3. EncTypeOK' /\ MtfInv'
  BY <1>1, <1>2, EncoderTypes DEF EncTypeOK, MtfInv
<1>4. PosEntered /\ PosEntered'
  BY <1>1 DEF PosEntered
<1>5. BucketInv'
  BY <1>1, <1>4 DEF IInv, BucketInv
<1>6. SearchInv'
  BY <1>1, <1>4 DEF IInv, SearchInv, InTail, HasRoom
<1>7. PresentInv'
  BY <1>1, <1>4 DEF IInv, PresentInv, EncView, Entered
<1> QED
  BY <1>1, <1>3, <1>5, <1>6, <1>7, SearchKeeps

(* The search never visits the node of the current position: its offset is   *)
(* the largest in the bucket, and offsets fall along a chain.                *)
LEMMA SearchVisits ==
  ASSUME IInv, epc = "search"
  PROVE  /\ ibuf[ipos - 1] \in Byte /\ ipos \in Nat /\ ipos >= 2
         /\ encBucket[ibuf[ipos - 1]] \in EncoderBucket
         /\ search.node \in Node
         /\ encBucket[ibuf[ipos - 1]].offset[search.node] \in Nat
         /\ encBucket[ibuf[ipos - 1]].offset[search.node] < ipos
<1> DEFINE c == ibuf[ipos - 1]
<1>1. PosEntered /\ ipos >= 2 /\ ~InTail(ipos) /\ search.node # encBucket[c].head
  BY DEF IInv, SearchInv, PosEntered
<1>2. ipos \in Nat /\ ipos < ilen
  BY <1>1, EncoderTypes, RolzAssumption DEF InTail
<1>3. c \in Byte
  BY <1>1, <1>2, EncoderTypes
<1>4. encBucket[c] \in EncoderBucket /\ search.node \in Node
  BY <1>3, EncoderTypes DEF EncTypeOK, Search
<1>5. encBucket[c].offset[search.node] \in Nat
  BY <1>4 DEF EncoderBucket
<1>6. encBucket[c].offset[search.node] = 0 \/ encBucket[c].offset[search.node] < ipos
  BY <1>1, <1>3, <1>4 DEF IInv, BucketInv
<1> QED
  BY <1>1, <1>2, <1>3, <1>4, <1>5, <1>6

LEMMA SearchStepInv ==
  ASSUME IInv, SearchStep, UNCHANGED <<decVars, blocks, hist>>
  PROVE  IInv'
<1> DEFINE c == ibuf[ipos - 1]
           b == encBucket[c]
           n == search.node
           offset == b.offset[n]
           compare == /\ b.check[n] = HashCheckAt(ipos)
                      /\ ibuf[ipos + search.maxlen] = ibuf[offset + search.maxlen]
           len == CommonLength(ipos, offset)
           better == compare /\ len > search.maxlen
           best == IF better THEN [search EXCEPT !.maxnode = n, !.maxlen = len] ELSE search
           s == b.suffix[n]
<1>1. /\ epc = "search"
      /\ UNCHANGED <<ibuf, ilen, ipos, tbuf, encBucket, encMtf, encMru, level>>
      /\ \/ epc' = "found" /\ search' = best
         \/ /\ ~ChainEnds(b, n)
            /\ epc' = "search" /\ search' = [best EXCEPT !.node = s, !.i = @ + 1]
  BY DEF SearchStep
<1>2. /\ c \in Byte /\ ipos \in Nat /\ ipos >= 2 /\ b \in EncoderBucket
      /\ n \in Node /\ offset \in Nat /\ offset < ipos
  BY <1>1, SearchVisits
<1>3. /\ PosEntered /\ search \in Search /\ n # b.head /\ b.offset[b.head] = ipos
      /\ ~InTail(ipos) /\ HasRoom
      /\ search.maxlen \in MatchMinLen - 1 .. MatchMaxLen
      /\ search.maxlen >= MatchMinLen =>
           search.maxnode # b.head /\ SameBytes(ipos, b.offset[search.maxnode], search.maxlen)
  BY <1>1, EncoderTypes DEF IInv, SearchInv, PosEntered, EncTypeOK
<1>4. len \in {0} \cup MatchMinLen .. MatchMaxLen /\ SameBytes(ipos, offset, len)
  BY <1>2, CommonLengthAgrees
<1> HIDE DEF len, compare
<1>5. /\ best \in Search /\ best.node = n
      /\ best.maxlen \in MatchMinLen - 1 .. MatchMaxLen
      /\ best.maxlen >= MatchMinLen =>
           best.maxnode # b.head /\ SameBytes(ipos, b.offset[best.maxnode], best.maxlen)
  <2>1. CASE better
    <3>1. len \in MatchMinLen .. MatchMaxLen
      BY <1>3, <1>4, <2>1, RolzAssumption
    <3>2. /\ best = [search EXCEPT !.maxnode = n, !.maxlen = len]
          /\ len \in Nat
      BY <2>1, <3>1, RolzAssumption
    <3>3. best \in Search /\ best.maxlen = len /\ best.maxnode = n /\ best.node = n
      BY <1>2, <1>3, <3>2 DEF Search
    <3> QED
      BY <1>3, <1>4, <3>1, <3>3, RolzAssumption
  <2>2. CASE ~better
    BY <1>3, <2>2
  <2> QED
    BY <2>1, <2>2
<1>6. ASSUME ~ChainEnds(b, n) PROVE s \in Node /\ s # b.head
  <2>1. s # NoNode /\ ~(offset <= b.offset[s]) /\ s \in NodeOrNone
    BY <1>2, <1>6 DEF ChainEnds, EncoderBucket
  <2>2. s \in Node
    BY <2>1 DEF NodeOrNone
  <2> QED
    BY <1>2, <1>3, <2>1, <2>2
<1> HIDE DEF best, s, better
<1>7. search' \in Search /\ search'.maxlen = best.maxlen /\ search'.maxnode = best.maxnode
  <2>1. ASSUME ~ChainEnds(b, n), search' = [best EXCEPT !.node = s, !.i = @ + 1]
        PROVE  search' \in Search /\ search'.maxlen = best.maxlen /\ search'.maxnode = best.maxnode
    <3>1. ASSUME NEW x \in Search, NEW y \in Node
          PROVE  LET z == [x EXCEPT !.node = y, !.i = @ + 1]
                 IN  z \in Search /\ z.maxlen = x.maxlen /\ z.maxnode = x.maxnode
      <4>1. x.i + 1 \in Nat
        BY <3>1 DEF Search
      <4>2. ASSUME NEW i \in Nat
            PROVE  LET z == [x EXCEPT !.node = y, !.i = i]
                   IN  z \in Search /\ z.maxlen = x.maxlen /\ z.maxnode = x.maxnode
        BY <3>1 DEF Search
      <4> QED
        BY <4>1, <4>2
    <3> QED
      BY <1>5, <1>6, <2>1, <3>1
  <2> QED
    BY <1>1, <1>5, <2>1
<1>8. epc' = "search" => search'.node = s /\ s # b.head
  BY <1>1, <1>5, <1>6 DEF Search
<1>9. EncTypeOK' /\ MtfInv'
  BY <1>1, <1>7, EncoderTypes DEF EncTypeOK, MtfInv
<1>10. PosEntered' /\ epc # "idle" /\ epc' # "idle"
  BY <1>1 DEF PosEntered
<1>11. BucketInv'
  BY <1>1, <1>3, <1>10 DEF IInv, BucketInv
<1>12. SearchInv'
  <2>1. InTail(ipos)' = InTail(ipos) /\ HasRoom' = HasRoom
    BY <1>1 DEF InTail, HasRoom
  <2>2. \A p, q, m : SameBytes(p, q, m)' = SameBytes(p, q, m)
    BY <1>1 DEF SameBytes
  <2>3. encBucket'[ibuf'[ipos' - 1]] = b
    BY <1>1
  <2>4. search'.maxlen >= MatchMinLen =>
          /\ search'.maxnode # b.head
          /\ SameBytes(ipos, b.offset[search.maxnode], search.maxlen)'
    <3>1. ASSUME search'.maxlen >= MatchMinLen
          PROVE  SameBytes(ipos, b.offset[search.maxnode], search.maxlen)'
      BY <1>1, <1>5, <1>7, <2>3, <3>1 DEF SameBytes
    <3> QED
      BY <1>5, <1>7, <3>1
  <2>5. PosEntered' =>
          /\ ipos' >= 2 /\ ~InTail(ipos)' /\ HasRoom'
          /\ encBucket'[ibuf'[ipos' - 1]].offset[encBucket'[ibuf'[ipos' - 1]].head] = ipos'
    BY <1>1, <1>2, <1>3, <2>1, <2>3
  <2>6. search'.maxlen \in MatchMinLen - 1 .. MatchMaxLen
    BY <1>5, <1>7
  <2>7. epc' = "search" => search'.node # b.head
    BY <1>8
  <2> QED
    BY <2>3, <2>4, <2>5, <2>6, <2>7 DEF SearchInv
<1>13. PresentInv'
  BY <1>1, <1>3, <1>10 DEF IInv, PresentInv, EncView, Entered
<1> QED
  BY <1>1, <1>9, <1>10, <1>11, <1>12, <1>13, SearchKeeps

-----------------------------------------------------------------------------
LEMMA DecoderTypes ==
  ASSUME IInv
  PROVE  /\ DecTypeOK /\ opos \in Nat /\ tpos \in Nat /\ opos <= ipos
         /\ \A i \in 0 .. opos - 1 : obuf[i] = ibuf[i]
         /\ \A i \in 0 .. BlockSizeIn : i \in OutIndex /\ i + 1 \in OutIndex
<1>1. DecTypeOK /\ opos \in Nat /\ tpos \in Nat
  BY RolzAssumption DEF IInv, TypeOK, DecTypeOK
<1>2. \A i \in 0 .. BlockSizeIn : i \in OutIndex /\ i + 1 \in OutIndex
  BY RolzAssumption DEF OutIndex
<1> QED
  BY <1>1, <1>2 DEF IInv, PrefixInv

(* A step of the decoder leaves the encoder's side alone. *)
LEMMA DecoderKeeps ==
  ASSUME IInv, UNCHANGED <<encVars, blocks, hist>>, DecTypeOK', DecoderInv', PrefixInv'
  PROVE  IInv'
<1>1. UNCHANGED <<ibuf, ilen, ipos, tbuf, encBucket, encMtf, encMru, level, search, epc, blocks, hist>>
  BY DEF encVars
<1>2. TypeOK'
  BY <1>1 DEF IInv, TypeOK, EncTypeOK
<1>3. MtfInv' /\ BucketInv'
  BY <1>1 DEF IInv, MtfInv, BucketInv, PosEntered
<1>4. SearchInv'
  BY <1>1 DEF IInv, SearchInv, PosEntered, InTail, HasRoom, SameBytes
<1>5. PresentInv'
  BY <1>1 DEF IInv, PresentInv, PosEntered, EncView, Entered
<1>6. HistoryInv'
  BY <1>1, HistoryKept DEF IInv
<1> QED
  BY <1>2, <1>3, <1>4, <1>5, <1>6 DEF IInv

(* Before a token the decoder stands at the snapshot the token starts from. *)
LEMMA BeforeToken ==
  ASSUME IInv, dpc = "token"
  PROVE  /\ epc = "idle" /\ tpos \in DOMAIN hist /\ hist[tpos] \in View
         /\ opos = hist[tpos].pos /\ decMtf = hist[tpos].table /\ decMru = hist[tpos].mru
         /\ ~InTail(opos) => decBucket = hist[tpos].bucket
         /\ tpos <= Len(tbuf)
         /\ tpos < Len(tbuf) => TokenStep(tpos)
<1>1. tpos \in DOMAIN hist /\ Follows(hist[tpos]) /\ decMru = hist[tpos].mru /\ epc = "idle"
  BY DEF IInv, DecoderInv
<1>2. tpos <= Len(tbuf) /\ (tpos < Len(tbuf) => TokenStep(tpos))
  BY <1>1, EncoderTypes DEF IInv, HistoryInv
<1>3. hist[tpos] \in View
  BY <1>1 DEF IInv, TypeOK
<1> QED
  BY <1>1, <1>2, <1>3 DEF Follows

(* After a token it is to stand at the snapshot the token leads to. *)
LEMMA TokenDecoded ==
  ASSUME IInv, UNCHANGED <<encVars, blocks, hist>>, epc = "idle", dpc' = "token",
         tpos' \in DOMAIN hist, NEW t, t = hist[tpos'],
         opos' = t.pos, decMtf' = t.table, decMru' = t.mru,
         ~InTail(opos') => decBucket' = t.bucket,
         DecTypeOK', \A i \in 0 .. opos' - 1 : obuf'[i] = ibuf[i]
  PROVE  IInv'
<1>1. UNCHANGED <<ibuf, ilen, ipos, epc, hist>>
  BY DEF encVars
<1>2. Follows(hist[tpos])'
  BY <1>1 DEF Follows, InTail
<1>3. DecoderInv'
  BY <1>1, <1>2 DEF DecoderInv, BothIdle
<1>4. PrefixInv'
  <2>1. opos' <= ipos
    BY DEF IInv, HistoryInv
  <2> QED
    BY <1>1, <2>1 DEF PrefixInv
<1> QED
  BY <1>3, <1>4, DecoderKeeps

(* The position enters the ring of the byte before it on both sides. *)
LEMMA RingsFollow ==
  ASSUME IInv, dpc = "token", opos >= 2, UpdateBucket,
         NEW t, t \in View, Advance(hist[tpos], t)
  PROVE  /\ decBucket' \in [Byte -> DecoderBucket]
         /\ ~InTail(opos) => decBucket' = t.bucket
         /\ opos < t.pos /\ t.pos <= ilen /\ t.pos \in Nat
         /\ InTail(opos) => InTail(t.pos)
         /\ opos \in 0 .. BlockSizeIn - 1
         /\ obuf[opos - 1] = ibuf[opos - 1] /\ obuf[opos - 1] \in Byte
         /\ obuf[opos - 2] = ibuf[opos - 2] /\ obuf[opos - 2] \in Byte
<1>1. opos = hist[tpos].pos /\ (~InTail(opos) => decBucket = hist[tpos].bucket)
  BY BeforeToken
<1>2. opos < t.pos /\ t.pos <= ilen /\ t.pos \in Nat /\ opos \in 0 .. BlockSizeIn - 1
  BY <1>1, EncoderTypes, DecoderTypes, RolzAssumption DEF Advance, View
<1>3. /\ obuf[opos - 1] = ibuf[opos - 1] /\ obuf[opos - 1] \in Byte
      /\ obuf[opos - 2] = ibuf[opos - 2] /\ obuf[opos - 2] \in Byte
  BY <1>2, EncoderTypes, DecoderTypes
<1>4. decBucket' = Entered(decBucket, opos)
  BY <1>3 DEF UpdateBucket, Entered
<1>5. PushOffset(decBucket[obuf[opos - 1]], opos) \in DecoderBucket
  <2>1. decBucket[obuf[opos - 1]] \in DecoderBucket
    BY <1>3, DecoderTypes DEF DecTypeOK
  <2>2. RollingAdd(decBucket[obuf[opos - 1]].head, 1) \in Node
    BY <2>1, RollingAddNode DEF DecoderBucket
  <2> QED
    BY <1>2, <2>1, <2>2 DEF PushOffset, DecoderBucket
<1>6. decBucket' \in [Byte -> DecoderBucket]
  BY <1>3, <1>5, DecoderTypes DEF UpdateBucket, DecTypeOK
<1>7. ~InTail(opos) => decBucket' = t.bucket
  BY <1>1, <1>4 DEF Advance
<1>8. InTail(opos) => InTail(t.pos)
  BY <1>2, EncoderTypes, RolzAssumption DEF InTail
<1> QED
  BY <1>2, <1>3, <1>6, <1>7, <1>8
-----------------------------------------------------------------------------
(* Writing the block's next byte, or its next two, extends the prefix. *)
LEMMA WriteByte ==
  ASSUME IInv, opos < ilen, NEW b \in Byte, b = ibuf[opos],
         obuf' = [obuf EXCEPT ![opos] = b], opos' = opos + 1
  PROVE  /\ obuf' \in [OutIndex -> Byte] /\ opos' \in 0 .. BlockSizeIn
         /\ \A i \in 0 .. opos' - 1 : obuf'[i] = ibuf[i]
<1>1. opos \in Nat /\ ilen \in Nat /\ ilen <= BlockSizeIn /\ BlockSizeIn \in Nat
  BY EncoderTypes, DecoderTypes, RolzAssumption
<1>2. opos \in OutIndex /\ opos' \in 0 .. BlockSizeIn
  <2>1. opos \in 0 .. BlockSizeIn
    BY <1>1
  <2> QED
    BY <1>1, <2>1, DecoderTypes
<1>3. obuf \in [OutIndex -> Byte]
  BY DecoderTypes DEF DecTypeOK
<1>4. \A i \in 0 .. opos' - 1 : i \in 0 .. opos - 1 \/ i = opos
  BY <1>1
<1>5. \A i \in 0 .. opos - 1 : i \in OutIndex /\ i # opos
  BY <1>1, DecoderTypes
<1>6. \A i \in 0 .. opos' - 1 : obuf'[i] = ibuf[i]
  BY <1>2, <1>3, <1>4, <1>5, DecoderTypes
<1> QED
  BY <1>2, <1>3, <1>6

LEMMA WriteTwoBytes ==
  ASSUME IInv, opos + 1 < ilen, NEW a \in Byte, NEW b \in Byte, a = ibuf[opos], b = ibuf[opos + 1],
         obuf' = [obuf EXCEPT ![opos] = a, ![opos + 1] = b], opos' = opos + 2
  PROVE  /\ obuf' \in [OutIndex -> Byte] /\ opos' \in 0 .. BlockSizeIn
         /\ \A i \in 0 .. opos' - 1 : obuf'[i] = ibuf[i]
<1>1. opos \in Nat /\ ilen \in Nat /\ ilen <= BlockSizeIn /\ BlockSizeIn \in Nat
  BY EncoderTypes, DecoderTypes, RolzAssumption
<1>2. opos \in OutIndex /\ opos + 1 \in OutIndex /\ opos' \in 0 .. BlockSizeIn
  <2>1. opos \in 0 .. BlockSizeIn
    BY <1>1
  <2> QED
    BY <1>1, <2>1, DecoderTypes
<1>3. obuf \in [OutIndex -> Byte]
  BY DecoderTypes DEF DecTypeOK
<1>4. \A i \in 0 .. opos' - 1 : i \in 0 .. opos - 1 \/ i = opos \/ i = opos + 1
  BY <1>1
<1>5. \A i \in 0 .. opos - 1 : i \in OutIndex /\ i # opos /\ i # opos + 1
  BY <1>1, DecoderTypes
<1>6. opos # opos + 1
  BY <1>1
<1>7. \A i \in 0 .. opos' - 1 : obuf'[i] = ibuf[i]
  BY <1>2, <1>3, <1>4, <1>5, <1>6, DecoderTypes
<1> QED
  BY <1>2, <1>3, <1>7

LEMMA DecodeFirstInv ==
  ASSUME IInv, DecodeFirst(tbuf), UNCHANGED <<encVars, blocks, hist>>
  PROVE  IInv'
<1> DEFINE s == hist[tpos]
           t == hist[tpos + 1]
<1>1. dpc = "token" /\ tpos < Len(tbuf) /\ opos < 2 /\ opos = s.pos /\ s \in View
  BY BeforeToken DEF DecodeFirst
<1>2. tpos + 1 \in DOMAIN hist /\ FirstStep(s, t, tbuf[tpos + 1])
  BY <1>1, BeforeToken DEF TokenStep
<1>3. /\ opos < ilen /\ tbuf[tpos + 1] = ibuf[opos] /\ ibuf[opos] \in Byte
      /\ t.pos = opos + 1 /\ t.table = s.table /\ t.mru = s.mru /\ t.bucket = s.bucket
  BY <1>1, <1>2, EncoderTypes, DecoderTypes DEF FirstStep, View
<1>4. /\ obuf' = [obuf EXCEPT ![opos] = ibuf[opos]] /\ opos' = opos + 1 /\ tpos' = tpos + 1
      /\ UNCHANGED <<decBucket, decMtf, decMru, copy, dpc>>
  BY <1>3 DEF DecodeFirst
<1>5. /\ obuf' \in [OutIndex -> Byte] /\ opos' \in 0 .. BlockSizeIn
      /\ \A i \in 0 .. opos' - 1 : obuf'[i] = ibuf[i]
  BY <1>3, <1>4, WriteByte
<1>6. tpos' \in Nat
  BY <1>4, DecoderTypes
<1>7. DecTypeOK'
  BY <1>4, <1>5, <1>6, DecoderTypes DEF DecTypeOK
<1>8. InTail(opos) => InTail(opos')
  BY <1>4, EncoderTypes, DecoderTypes, RolzAssumption DEF InTail
<1>9. ~InTail(opos') => decBucket' = t.bucket
  BY <1>1, <1>3, <1>4, <1>8, BeforeToken
<1>10. hist[tpos'] = t /\ tpos' \in DOMAIN hist
  BY <1>2, <1>4
<1> QED
  BY <1>1, <1>3, <1>4, <1>5, <1>7, <1>9, <1>10, BeforeToken, TokenDecoded

(* The position never passes the one that was announced. *)
LEMMA CheckPosPasses ==
  ASSUME IInv, CheckPos(ipos), NEW k \in DOMAIN hist, opos' = hist[k].pos
  PROVE  dpc' = "token"
BY EncoderTypes DEF CheckPos, IInv, HistoryInv, TypeOK, View

LEMMA DecodeLiteralInv ==
  ASSUME IInv, DecodeLiteral(tbuf, ipos), UNCHANGED <<encVars, blocks, hist>>
  PROVE  IInv'
<1> DEFINE s == hist[tpos]
           t == hist[tpos + 1]
           v == tbuf[tpos + 1]
           c == ibuf[opos - 1]
<1>1. /\ dpc = "token" /\ tpos < Len(tbuf) /\ opos >= 2 /\ v < NumBytes
      /\ opos = s.pos /\ s \in View /\ tpos \in Nat /\ opos \in Nat
  BY BeforeToken, DecoderTypes DEF DecodeLiteral, Pending
<1>2. v \in Nat /\ v \in Byte /\ ~IsMatchCode(v)
  <2>1. v \in Nat
    BY <1>1, EncoderTypes
  <2> QED
    BY <1>1, <2>1, MtfAssumption, ByteAndWordCodes DEF Byte
<1>3. tpos + 1 \in DOMAIN hist /\ Advance(s, t) /\ (LiteralStep(s, t, v) \/ WordStep(s, t, v))
  BY <1>1, <1>2, BeforeToken DEF TokenStep
<1>4. LiteralStep(s, t, v)
  BY <1>2, <1>3, ByteAndWordCodes DEF WordStep
<1>5. t \in View
  BY <1>3 DEF IInv, TypeOK
<1>6. UpdateBucket /\ CheckPos(ipos)
  BY DEF DecodeLiteral
<1>7. /\ decBucket' \in [Byte -> DecoderBucket]
      /\ ~InTail(opos) => decBucket' = t.bucket
      /\ InTail(opos) => InTail(t.pos)
      /\ opos < t.pos /\ t.pos <= ilen
      /\ obuf[opos - 1] = c /\ c \in Byte
      /\ obuf[opos - 2] = ibuf[opos - 2] /\ obuf[opos - 2] \in Byte
  BY <1>1, <1>3, <1>5, <1>6, RingsFollow
<1>8. /\ t.pos = opos + 1 /\ ibuf[opos] = decMtf[c][v]
      /\ t.table = [decMtf EXCEPT ![c] = MtfDecode(@, v)]
      /\ t.mru = PushWord(decMru, ibuf[opos - 2], <<c, ibuf[opos]>>)
  BY <1>1, <1>4, BeforeToken DEF LiteralStep
<1>9. /\ obuf' = [obuf EXCEPT ![opos] = ibuf[opos]] /\ opos' = opos + 1 /\ tpos' = tpos + 1
      /\ decMtf' = t.table /\ decMru' = t.mru /\ copy' = copy
  BY <1>7, <1>8 DEF DecodeLiteral, MtfByte
<1>10. dpc' = "token"
  BY <1>3, <1>6, <1>8, <1>9, CheckPosPasses
<1>11. opos < ilen /\ tpos' \in Nat
  BY <1>1, <1>7, <1>9, <1>8, EncoderTypes
<1>12. ibuf[opos] \in Byte
  BY <1>1, <1>11, EncoderTypes
<1>13. /\ obuf' \in [OutIndex -> Byte] /\ opos' \in 0 .. BlockSizeIn
       /\ \A i \in 0 .. opos' - 1 : obuf'[i] = ibuf[i]
  BY <1>9, <1>11, <1>12, WriteByte
<1>14. DecTypeOK'
  <2>1. t.table \in [Byte -> [Byte -> Byte]] /\ t.mru \in MruTable
    BY <1>5 DEF View
  <2> QED
    BY <1>7, <1>9, <1>10, <1>11, <1>13, <2>1, DecoderTypes DEF DecTypeOK
<1>15. hist[tpos'] = t /\ tpos' \in DOMAIN hist
  BY <1>3, <1>9
<1> QED
  BY <1>1, <1>7, <1>8, <1>9, <1>10, <1>13, <1>14, <1>15, BeforeToken, TokenDecoded

LEMMA DecodeWordInv ==
  ASSUME IInv, NEW slot \in {0, 1}, DecodeWord(tbuf, ipos, slot),
         UNCHANGED <<encVars, blocks, hist>>
  PROVE  IInv'
<1> DEFINE s == hist[tpos]
           t == hist[tpos + 1]
           v == tbuf[tpos + 1]
           c == ibuf[opos - 1]
           w == <<ibuf[opos], ibuf[opos + 1]>>
<1>1. /\ dpc = "token" /\ tpos < Len(tbuf) /\ opos >= 2 /\ v = WordCode(slot)
      /\ opos = s.pos /\ s \in View /\ tpos \in Nat /\ opos \in Nat
  BY BeforeToken, DecoderTypes DEF DecodeWord, Pending
<1>2. v \notin Byte /\ ~IsMatchCode(v)
  BY <1>1, ByteAndWordCodes
<1>3. tpos + 1 \in DOMAIN hist /\ Advance(s, t) /\ (LiteralStep(s, t, v) \/ WordStep(s, t, v))
  BY <1>1, <1>2, BeforeToken DEF TokenStep
<1>4. WordStep(s, t, v)
  BY <1>2, <1>3 DEF LiteralStep
<1>5. t \in View
  BY <1>3 DEF IInv, TypeOK
<1>6. UpdateBucket /\ CheckPos(ipos)
  BY DEF DecodeWord
<1>7. /\ decBucket' \in [Byte -> DecoderBucket]
      /\ ~InTail(opos) => decBucket' = t.bucket
      /\ InTail(opos) => InTail(t.pos)
      /\ opos < t.pos /\ t.pos <= ilen
      /\ obuf[opos - 1] = c /\ c \in Byte
  BY <1>1, <1>3, <1>5, <1>6, RingsFollow
<1>8. /\ t.pos = opos + 2 /\ decMru[c][slot] = w
      /\ t.table = decMtf
      /\ t.mru = IF slot = 1 THEN PushWord(decMru, c, w) ELSE decMru
  <2>1. PICK sl \in {0, 1} :
          LET d == ibuf[s.pos - 1]
              word == s.mru[d][sl]
          IN  /\ v = WordCode(sl)
              /\ word = <<ibuf[s.pos], ibuf[s.pos + 1]>>
              /\ t.pos = s.pos + 2
              /\ t.table = s.table
              /\ t.mru = IF sl = 1 THEN PushWord(s.mru, d, word) ELSE s.mru
    BY <1>4 DEF WordStep
  <2>2. sl = slot
    <3>1. WordCode(sl) = WordCode(slot)
      BY <1>1, <2>1
    <3> QED
      BY <3>1, ByteAndWordCodes
  <2> QED
    BY <1>1, <2>1, <2>2, BeforeToken
<1>9. /\ obuf' = [obuf EXCEPT ![opos] = ibuf[opos], ![opos + 1] = ibuf[opos + 1]]
      /\ opos' = opos + 2 /\ tpos' = tpos + 1
      /\ decMtf' = t.table /\ decMru' = t.mru /\ copy' = copy
  BY <1>7, <1>8 DEF DecodeWord
<1>10. dpc' = "token"
  BY <1>3, <1>6, <1>8, <1>9, CheckPosPasses
<1>11. opos + 1 < ilen /\ tpos' \in Nat
  BY <1>1, <1>7, <1>9, <1>8, EncoderTypes
<1>12. ibuf[opos] \in Byte /\ ibuf[opos + 1] \in Byte
  BY <1>1, <1>11, EncoderTypes
<1>13. /\ obuf' \in [OutIndex -> Byte] /\ opos' \in 0 .. BlockSizeIn
       /\ \A i \in 0 .. opos' - 1 : obuf'[i] = ibuf[i]
  BY <1>9, <1>11, <1>12, WriteTwoBytes
<1>14. DecTypeOK'
  <2>1. t.table \in [Byte -> [Byte -> Byte]] /\ t.mru \in MruTable
    BY <1>5 DEF View
  <2> QED
    BY <1>7, <1>9, <1>10, <1>11, <1>13, <2>1, DecoderTypes DEF DecTypeOK
<1>15. hist[tpos'] = t /\ tpos' \in DOMAIN hist
  BY <1>3, <1>9
<1> QED
  BY <1>1, <1>7, <1>8, <1>9, <1>10, <1>13, <1>14, <1>15, BeforeToken, TokenDecoded

(* The looked-up source holds the bytes of the match, all written before. *)
LEMMA DecodeMatchInv ==
  ASSUME IInv, DecodeMatch(tbuf), UNCHANGED <<encVars, blocks, hist>>
  PROVE  IInv'
<1> DEFINE s == hist[tpos]
           t == hist[tpos + 2]
           v == tbuf[tpos + 1]
           idx == tbuf[tpos + 2]
           c == ibuf[opos - 1]
           off == MatchOffset(Entered(s.bucket, s.pos)[c], idx)
<1>1. /\ dpc = "token" /\ tpos < Len(tbuf) /\ opos >= 2 /\ IsMatchCode(v)
      /\ opos = s.pos /\ s \in View /\ tpos \in Nat /\ opos \in Nat /\ epc = "idle"
  BY BeforeToken, DecoderTypes DEF DecodeMatch, Pending
<1>2. tpos + 2 \in DOMAIN hist /\ Advance(s, t) /\ MatchStep(s, t, v, idx)
  BY <1>1, BeforeToken DEF TokenStep
<1>3. t \in View
  BY <1>2 DEF IInv, TypeOK
<1>4. /\ decBucket' \in [Byte -> DecoderBucket]
      /\ ~InTail(opos) => decBucket' = t.bucket
      /\ opos < t.pos /\ t.pos <= ilen
      /\ obuf[opos - 1] = c /\ c \in Byte
  BY <1>1, <1>2, <1>3, RingsFollow DEF DecodeMatch
<1>5. /\ idx \in 1 .. BucketItemSize - 1 /\ ~InTail(opos)
      /\ off < opos /\ SameBytes(opos, off, MatchLen(v))
      /\ t.pos = opos + MatchLen(v) /\ t.table = s.table
      /\ t.mru = PushNewWord(s.mru, ibuf[t.pos - 3], <<ibuf[t.pos - 2], ibuf[t.pos - 1]>>)
  BY <1>1, <1>2 DEF MatchStep
<1>6. decBucket' = Entered(s.bucket, s.pos)
  BY <1>1, <1>2, <1>4, <1>5 DEF Advance
<1>7. /\ copy' = [src |-> off, end |-> t.pos] /\ tpos' = tpos + 2 /\ dpc' = "copy"
      /\ UNCHANGED <<obuf, opos, decMtf, decMru>>
  BY <1>4, <1>5, <1>6 DEF DecodeMatch
<1>8. off \in Nat
  <2>1. decBucket'[c] \in DecoderBucket
    BY <1>4
  <2>2. idx \in Node
    BY <1>5, RolzAssumption DEF Node
  <2>3. RollingSub(decBucket'[c].head, idx) \in Node
    BY <2>1, <2>2, RollingDistance DEF DecoderBucket
  <2> QED
    BY <1>6, <2>1, <2>3, RolzAssumption DEF MatchOffset, DecoderBucket
<1>9. v \in Nat
  BY <1>1, EncoderTypes
<1>10. MatchLen(v) \in Nat /\ MatchLen(v) >= 3 /\ t.pos \in Nat
  BY <1>1, <1>3, <1>9, MatchLenBound, RolzAssumption DEF View
<1>11. DecTypeOK'
  <2>1. copy' \in Copy
    BY <1>7, <1>8, <1>10 DEF Copy
  <2> QED
    BY <1>4, <1>7, <2>1, DecoderTypes DEF DecTypeOK
<1>12. UNCHANGED <<ibuf, ilen, ipos, epc, hist>>
  BY DEF encVars
<1>13. PrefixInv'
  BY <1>7, <1>12, DecoderTypes DEF PrefixInv
<1>14. DecoderInv'
  <2>1. hist'[tpos'] = t /\ tpos' \in DOMAIN hist'
    BY <1>2, <1>7, <1>12
  <2>2. 2 <= opos' /\ opos' <= copy'.end /\ copy'.end = t.pos /\ copy'.src < opos'
    BY <1>1, <1>4, <1>5, <1>7, <1>10
  <2>3. copy'.end - opos' = MatchLen(v)
    BY <1>1, <1>5, <1>7, <1>10
  <2>4. SameBytes(opos, copy.src, copy.end - opos)'
    BY <1>5, <1>7, <1>12, <2>3 DEF SameBytes
  <2>5. decMtf' = t.table /\ decBucket' = t.bucket
    BY <1>1, <1>4, <1>5, <1>7, BeforeToken
  <2>6. t.mru = PushNewWord(decMru', ibuf'[t.pos - 3], <<ibuf'[t.pos - 2], ibuf'[t.pos - 1]>>)
    BY <1>1, <1>5, <1>7, <1>12, BeforeToken
  <2>7. t.pos >= 3
    BY <1>1, <1>5, <1>10
  <2> QED
    BY <1>1, <1>7, <1>12, <2>1, <2>2, <2>4, <2>5, <2>6, <2>7 DEF DecoderInv, BothIdle
<1> QED
  BY <1>11, <1>13, <1>14, DecoderKeeps

(* In a match: the snapshot it leads to, and what is still to be copied. *)
LEMMA InMatch ==
  ASSUME IInv, dpc = "copy"
  PROVE  /\ tpos \in DOMAIN hist /\ hist[tpos] \in View /\ epc = "idle"
         /\ copy.end = hist[tpos].pos /\ 2 <= opos /\ opos <= copy.end
         /\ copy.src < opos /\ copy.src \in Nat /\ copy.end \in Nat /\ copy.end <= ipos
         /\ SameBytes(opos, copy.src, copy.end - opos)
         /\ decMtf = hist[tpos].table
         /\ ~InTail(copy.end) => decBucket = hist[tpos].bucket
         /\ hist[tpos].mru = PushNewWord(decMru, ibuf[copy.end - 3], <<ibuf[copy.end - 2], ibuf[copy.end - 1]>>)
         /\ copy.end >= 3
<1>1. /\ tpos \in DOMAIN hist /\ copy.end = hist[tpos].pos /\ epc = "idle"
      /\ 2 <= opos /\ opos <= copy.end
      /\ copy.src < opos /\ SameBytes(opos, copy.src, copy.end - opos)
      /\ decMtf = hist[tpos].table
      /\ ~InTail(copy.end) => decBucket = hist[tpos].bucket
      /\ hist[tpos].mru = PushNewWord(decMru, ibuf[copy.end - 3], <<ibuf[copy.end - 2], ibuf[copy.end - 1]>>)
      /\ copy.end >= 3
  BY DEF IInv, DecoderInv
<1>2. copy.src \in Nat /\ copy.end \in Nat
  BY DecoderTypes DEF DecTypeOK, Copy
<1>3. hist[tpos] \in View /\ hist[tpos].pos <= ipos
  BY <1>1 DEF IInv, TypeOK, HistoryInv
<1> QED
  BY <1>1, <1>2, <1>3

LEMMA CopyByteInv ==
  ASSUME IInv, CopyByte, UNCHANGED <<encVars, blocks, hist>>
  PROVE  IInv'
<1>1. /\ dpc = "copy" /\ opos < copy.end /\ opos' = opos + 1
      /\ copy' = [src |-> copy.src + 1, end |-> copy.end]
      /\ UNCHANGED <<tpos, decBucket, decMtf, decMru, dpc>>
  BY DecoderTypes DEF CopyByte, DecTypeOK, Copy
<1>2. opos \in Nat /\ opos < ilen /\ ipos \in Nat /\ copy.src \in Nat /\ copy.end \in Nat
  BY <1>1, InMatch, EncoderTypes, DecoderTypes
<1>3. obuf[copy.src] = ibuf[opos]
  <2>1. obuf[copy.src] = ibuf[copy.src]
    BY <1>1, <1>2, InMatch, DecoderTypes
  <2>2. ibuf[opos + 0] = ibuf[copy.src + 0]
    BY <1>1, <1>2, InMatch DEF SameBytes
  <2> QED
    BY <1>2, <2>1, <2>2
<1>4. /\ obuf' \in [OutIndex -> Byte] /\ opos' \in 0 .. BlockSizeIn
      /\ \A i \in 0 .. opos' - 1 : obuf'[i] = ibuf[i]
  <2>1. ibuf[opos] \in Byte
    BY <1>2, EncoderTypes
  <2>2. obuf' = [obuf EXCEPT ![opos] = ibuf[opos]]
    BY <1>3 DEF CopyByte
  <2> QED
    BY <1>1, <1>2, <2>1, <2>2, WriteByte
<1>5. DecTypeOK'
  <2>1. copy' \in Copy
    BY <1>1, <1>2 DEF Copy
  <2> QED
    BY <1>1, <1>4, <2>1, DecoderTypes DEF DecTypeOK
<1>6. UNCHANGED <<ibuf, ilen, ipos, epc, hist>>
  BY DEF encVars
<1>7. PrefixInv'
  <2>1. opos' <= ipos'
    BY <1>1, <1>2, <1>6, InMatch
  <2> QED
    BY <1>4, <1>6, <2>1 DEF PrefixInv
<1>8. SameBytes(opos, copy.src, copy.end - opos)'
  <2>1. copy'.src = copy.src + 1 /\ copy'.end = copy.end
    BY <1>1
  <2>2. ASSUME NEW k \in 0 .. copy.end - (opos + 1) - 1
        PROVE  ibuf[opos + 1 + k] = ibuf[copy.src + 1 + k]
    <3>1. k + 1 \in 0 .. copy.end - opos - 1 /\ k \in Int
      BY <1>2
    <3>2. ibuf[opos + (k + 1)] = ibuf[copy.src + (k + 1)]
      BY <1>1, <3>1, InMatch DEF SameBytes
    <3>3. opos + (k + 1) = opos + 1 + k /\ copy.src + (k + 1) = copy.src + 1 + k
      BY <1>2, <3>1
    <3> QED
      BY <3>2, <3>3
  <2> QED
    BY <1>1, <1>6, <2>1, <2>2 DEF SameBytes
<1>9. DecoderInv'
  <2>1. 2 <= opos' /\ opos' <= copy'.end /\ copy'.src < opos' /\ copy'.end = copy.end
    BY <1>1, <1>2, InMatch
  <2> QED
    BY <1>1, <1>6, <1>8, <2>1, InMatch DEF DecoderInv, BothIdle, InTail
<1> QED
  BY <1>5, <1>7, <1>9, DecoderKeeps

LEMMA EndMatchInv ==
  ASSUME IInv, EndMatch(ipos), UNCHANGED <<encVars, blocks, hist>>
  PROVE  IInv'
<1> DEFINE t == hist[tpos]
<1>1. /\ dpc = "copy" /\ opos = copy.end /\ copy' = NoCopy
      /\ UNCHANGED <<obuf, opos, tpos, decBucket, decMtf>> /\ CheckPos(ipos)
  BY DEF EndMatch
<1>2. opos \in Nat /\ opos >= 3
  BY <1>1, InMatch, DecoderTypes
<1>3. /\ obuf[opos - 3] = ibuf[opos - 3] /\ obuf[opos - 2] = ibuf[opos - 2]
      /\ obuf[opos - 1] = ibuf[opos - 1]
  BY <1>2, DecoderTypes
<1>4. decMru' = t.mru
  BY <1>1, <1>3, InMatch DEF EndMatch
<1>5. dpc' = "token"
  BY <1>1, InMatch, CheckPosPasses
<1>6. DecTypeOK'
  <2>1. NoCopy \in Copy /\ t.mru \in MruTable
    BY <1>1, InMatch DEF NoCopy, Copy, View
  <2> QED
    BY <1>1, <1>4, <1>5, <2>1, DecoderTypes DEF DecTypeOK
<1> QED
  BY <1>1, <1>4, <1>5, <1>6, InMatch, DecoderTypes, TokenDecoded

LEMMA EndDecodeInv ==
  ASSUME IInv, EndDecode(tbuf, ipos), UNCHANGED <<encVars, blocks, hist>>
  PROVE  IInv'
<1>1. /\ dpc = "token" /\ tpos >= Len(tbuf)
      /\ UNCHANGED <<obuf, opos, tpos, decBucket, decMtf, decMru, copy>>
  BY DEF EndDecode
<1>2. tpos = Len(tbuf) /\ epc = "idle"
  BY <1>1, BeforeToken, EncoderTypes, DecoderTypes
<1>3. opos = ipos
  BY <1>1, <1>2, BeforeToken, LastSnapshot
<1>4. dpc' = "idle"
  BY <1>3 DEF EndDecode
<1>5. DecTypeOK'
  BY <1>1, <1>4, DecoderTypes DEF DecTypeOK
<1>6. UNCHANGED <<ibuf, ilen, ipos, tbuf, epc, hist>>
  BY DEF encVars
<1>7. PrefixInv'
  BY <1>1, <1>6, DecoderTypes DEF PrefixInv
<1>8. Follows(hist[Len(tbuf)])'
  BY <1>1, <1>2, <1>6, BeforeToken DEF Follows, InTail
<1>9. DecoderInv'
  BY <1>2, <1>4, <1>6, <1>8 DEF DecoderInv, BothIdle
<1> QED
  BY <1>5, <1>7, <1>9, DecoderKeeps
-----------------------------------------------------------------------------
(***************************************************************************)
(* Both ends together.                                                     *)
(***************************************************************************)

LEMMA EmptyBuckets ==
  /\ EmptyEncoderBucket \in EncoderBucket /\ EmptyDecoderBucket \in DecoderBucket
  /\ EmptyDecoderBucket = [head |-> EmptyEncoderBucket.head, offset |-> EmptyEncoderBucket.offset]
<1>1. 0 \in Node /\ 0 \in 0 .. BlockSizeIn - 1 /\ NoNode \in NodeOrNone
  BY RolzAssumption DEF Node, NodeOrNone
<1> QED
  BY <1>1 DEF EmptyEncoderBucket, EncoderBucket, EmptyDecoderBucket, DecoderBucket

LEMMA InitInv == Init => IInv
<1> SUFFICES ASSUME Init PROVE IInv
  OBVIOUS
<1>1. /\ ibuf = [i \in 0 .. -1 |-> 0] /\ ilen = 0 /\ ipos = 0 /\ tbuf = <<>>
      /\ encBucket = [c \in Byte |-> EmptyEncoderBucket]
      /\ encMtf = [c \in Byte |-> MtfEncoderInit]
      /\ encMru = NoWords /\ level \in Levels /\ search = NoSearch /\ epc = "idle"
      /\ obuf = [i \in OutIndex |-> 0] /\ opos = 0 /\ tpos = 0
      /\ decBucket = [c \in Byte |-> EmptyDecoderBucket]
      /\ decMtf = [c \in Byte |-> MtfDecoderInit]
      /\ decMru = NoWords /\ copy = NoCopy /\ dpc = "idle"
      /\ blocks = 0 /\ hist = [k \in {0} |-> EncView]
  BY DEF Init
<1>2. EncTypeOK
  <2>1. ilen \in 0 .. BlockSizeIn /\ ibuf \in [0 .. ilen - 1 -> Byte] /\ ipos \in 0 .. ilen
    BY <1>1, RolzAssumption
  <2>2. level \in Level /\ search \in Search
    BY <1>1, EncoderAssumption, RolzAssumption DEF NoSearch, Search, Node
  <2> QED
    BY <1>1, <2>1, <2>2, EmptyBuckets, MtfInitConsistent, NoWordsType DEF EncTypeOK
<1>3. DecTypeOK
  <2>1. MtfDecoderInit \in [Byte -> Byte] /\ NoCopy \in Copy /\ 0 \in Byte /\ 0 \in 0 .. BlockSizeIn
    BY MtfAssumption, RolzAssumption, ByteIsNat DEF MtfDecoderInit, NoCopy, Copy
  <2> QED
    BY <1>1, <2>1, EmptyBuckets, NoWordsType DEF DecTypeOK
<1>4. hist[0] = EncView /\ DOMAIN hist = {0} /\ Len(tbuf) = 0
  BY <1>1
<1>5. TypeOK
  BY <1>1, <1>2, <1>3, <1>4, EncViewFields DEF TypeOK
<1>6. MtfInv
  BY <1>1, MtfInitConsistent DEF MtfInv
<1>7. BucketInv
  BY <1>1 DEF BucketInv, EmptyEncoderBucket
<1>8. ~PosEntered /\ SearchInv
  BY <1>1 DEF SearchInv, PosEntered
<1>9. PresentInv
  BY <1>1, <1>4, <1>8, EncViewFields DEF PresentInv
<1>10. HistoryInv
  BY <1>1, <1>4, EncViewFields, RolzAssumption DEF HistoryInv
<1>11. Follows(hist[0])
  <2>1. decMtf = Tables
    BY <1>1 DEF Tables, MtfDecoderInit, MtfEncoderInit
  <2>2. decBucket = Rings
    BY <1>1, EmptyBuckets DEF Rings
  <2> QED
    BY <1>1, <1>4, <2>1, <2>2, EncViewFields DEF Follows
<1>12. DecoderInv
  BY <1>1, <1>4, <1>11 DEF DecoderInv
<1>13. PrefixInv
  BY <1>1 DEF PrefixInv
<1> QED
  BY <1>5, <1>6, <1>7, <1>8, <1>9, <1>10, <1>12, <1>13 DEF IInv

(* Both ends idle: the invariant is about what they share. *)
LEMMA BetweenChunks ==
  ASSUME IInv, BothIdle
  PROVE  /\ opos = ipos /\ decMtf = Tables
         /\ ~InTail(ipos) => decBucket = Rings
<1>1. Follows(hist[Len(tbuf)]) /\ ~PosEntered
  BY DEF IInv, DecoderInv, BothIdle, PosEntered
<1> QED
  BY <1>1, LastSnapshot DEF Follows

LEMMA BeginBlockInv ==
  ASSUME IInv, BeginBlock
  PROVE  IInv'
<1>1. /\ epc = "idle" /\ dpc = "idle" /\ ipos' = 0 /\ opos' = 0 /\ tpos' = 0 /\ tbuf' = <<>>
      /\ encBucket' = [c \in Byte |-> EmptyEncoderBucket]
      /\ decBucket' = [c \in Byte |-> EmptyDecoderBucket]
      /\ blocks' = blocks + 1 /\ hist' = [k \in {0} |-> EncView']
      /\ UNCHANGED <<encMtf, encMru, level, search, epc, obuf, decMtf, decMru, copy, dpc>>
  BY DEF BeginBlock, BothIdle, ResetEncoder, ResetDecoder
<1>2. ilen' \in 0 .. BlockSizeIn /\ ibuf' \in [0 .. ilen' - 1 -> Byte]
  BY CodecAssumption DEF BeginBlock
<1>3. EncTypeOK'
  BY <1>1, <1>2, EmptyBuckets, EncoderTypes, RolzAssumption DEF EncTypeOK
<1>4. DecTypeOK'
  BY <1>1, EmptyBuckets, DecoderTypes, RolzAssumption DEF DecTypeOK
<1>5. DOMAIN hist' = {0} /\ hist'[0] = EncView' /\ Len(tbuf') = 0
  BY <1>1
<1>6. TypeOK'
  BY <1>1, <1>3, <1>4, <1>5, EncViewFieldsNext DEF IInv, TypeOK
<1>7. MtfInv'
  BY <1>1, EncoderTypes DEF MtfInv
<1>8. BucketInv'
  BY <1>1 DEF BucketInv, EmptyEncoderBucket
<1>9. ~PosEntered' /\ SearchInv'
  BY <1>1 DEF SearchInv, PosEntered
<1>10. PresentInv'
  BY <1>5, <1>9, EncViewFieldsNext DEF PresentInv
<1>11. HistoryInv'
  BY <1>1, <1>5, EncViewFieldsNext, RolzAssumption DEF HistoryInv
<1>12. Follows(hist[Len(tbuf)])'
  <2>1. decMtf' = Tables'
    BY <1>1, BetweenChunks DEF Tables, BothIdle
  <2>2. decBucket' = Rings'
    BY <1>1, EmptyBuckets DEF Rings
  <2> QED
    BY <1>1, <1>5, <2>1, <2>2, EncViewFieldsNext DEF Follows
<1>13. DecoderInv'
  BY <1>1, <1>12 DEF DecoderInv
<1>14. PrefixInv'
  BY <1>1 DEF PrefixInv
<1> QED
  BY <1>6, <1>7, <1>8, <1>9, <1>10, <1>11, <1>13, <1>14 DEF IInv

LEMMA BeginChunkInv ==
  ASSUME IInv, BeginChunk
  PROVE  IInv'
<1>1. /\ epc = "idle" /\ dpc = "idle" /\ epc' = "token" /\ tbuf' = <<>> /\ encMru' = NoWords
      /\ level' \in Levels /\ hist' = [k \in {0} |-> EncView']
      /\ UNCHANGED <<ibuf, ilen, ipos, encBucket, encMtf, search>>
      /\ UNCHANGED <<obuf, opos, tpos, decBucket, decMtf, decMru, copy, dpc, blocks>>
  BY DEF BeginChunk, BeginEncode, BothIdle, decVars
<1>2. EncTypeOK' /\ MtfInv'
  <2>1. level' \in Level
    BY <1>1, EncoderAssumption
  <2> QED
    BY <1>1, <2>1, EncoderTypes, NoWordsType DEF EncTypeOK, MtfInv
<1>3. DecTypeOK'
  BY <1>1, DecoderTypes DEF DecTypeOK
<1>4. DOMAIN hist' = {0} /\ hist'[0] = EncView' /\ Len(tbuf') = 0
  BY <1>1
<1>5. TypeOK'
  BY <1>1, <1>2, <1>3, <1>4, EncViewFieldsNext DEF IInv, TypeOK
<1>6. ~PosEntered' /\ ~PosEntered /\ SearchInv'
  BY <1>1 DEF SearchInv, PosEntered
<1>7. BucketInv'
  BY <1>1, <1>6 DEF IInv, BucketInv
<1>8. PresentInv'
  BY <1>4, <1>6, EncViewFieldsNext DEF PresentInv
<1>9. HistoryInv'
  BY <1>1, <1>4, EncViewFieldsNext, EncoderTypes, RolzAssumption DEF HistoryInv
<1>10. Follows(hist[0])'
  <2>1. Tables' = Tables /\ Rings' = Rings
    BY <1>1 DEF Tables, Rings
  <2>2. InTail(opos)' = InTail(ipos)
    BY <1>1, BetweenChunks DEF BothIdle, InTail
  <2> QED
    BY <1>1, <1>4, <2>1, <2>2, BetweenChunks, EncViewFieldsNext DEF Follows, BothIdle
<1>11. DecoderInv'
  <2>1. hist'[0].mru = NoWords
    BY <1>1, <1>4, EncViewFieldsNext
  <2> QED
    BY <1>1, <1>10, <2>1 DEF DecoderInv, BothIdle
<1>12. PrefixInv'
  BY <1>1 DEF IInv, PrefixInv
<1> QED
  BY <1>2, <1>5, <1>6, <1>7, <1>8, <1>9, <1>11, <1>12 DEF IInv

LEMMA HandOverInv ==
  ASSUME IInv, HandOver
  PROVE  IInv'
<1>1. /\ epc = "token" /\ epc' = "idle" /\ dpc = "idle" /\ dpc' = "token"
      /\ tpos' = 0 /\ decMru' = NoWords
      /\ UNCHANGED <<ibuf, ilen, ipos, tbuf, encBucket, encMtf, encMru, level, search>>
      /\ UNCHANGED <<obuf, opos, decBucket, decMtf, copy, blocks, hist>>
  BY DEF HandOver, EndEncode, BeginDecode
<1>2. EncTypeOK' /\ MtfInv'
  BY <1>1, EncoderTypes DEF EncTypeOK, MtfInv
<1>3. DecTypeOK'
  BY <1>1, DecoderTypes, NoWordsType DEF DecTypeOK
<1>4. TypeOK'
  BY <1>1, <1>2, <1>3 DEF IInv, TypeOK
<1>5. ~PosEntered' /\ ~PosEntered /\ SearchInv'
  BY <1>1 DEF SearchInv, PosEntered
<1>6. BucketInv'
  BY <1>1, <1>5 DEF IInv, BucketInv
<1>7. PresentInv'
  BY <1>1, <1>5 DEF IInv, PresentInv, EncView
<1>8. HistoryInv'
  BY <1>1, HistoryKept DEF IInv
<1>9. DecoderInv'
  <2>1. Follows(hist[0]) /\ hist[0].mru = NoWords /\ 0 \in DOMAIN hist
    BY <1>1 DEF IInv, DecoderInv, HistoryInv
  <2>2. Follows(hist[tpos])'
    BY <1>1, <2>1 DEF Follows, InTail
  <2> QED
    BY <1>1, <2>1, <2>2 DEF DecoderInv, BothIdle
<1>10. PrefixInv'
  BY <1>1 DEF IInv, PrefixInv
<1> QED
  BY <1>2, <1>4, <1>5, <1>6, <1>7, <1>8, <1>9, <1>10 DEF IInv

LEMMA StutterInv ==
  ASSUME IInv, UNCHANGED vars
  PROVE  IInv'
<1>1. UNCHANGED <<encVars, blocks, hist>> /\ UNCHANGED decVars
  BY DEF vars
<1>2. UNCHANGED <<obuf, opos, tpos, decBucket, decMtf, decMru, copy, dpc>>
  BY <1>1 DEF decVars
<1>3. UNCHANGED <<ibuf, ilen, ipos, tbuf, epc, hist>>
  BY <1>1 DEF encVars
<1>4. DecTypeOK' /\ PrefixInv'
  BY <1>2, <1>3, DecoderTypes DEF DecTypeOK, PrefixInv
<1>5. /\ Follows(hist[Len(tbuf)])' = Follows(hist[Len(tbuf)])
      /\ Follows(hist[0])' = Follows(hist[0])
      /\ Follows(hist[tpos])' = Follows(hist[tpos])
  BY <1>2, <1>3 DEF Follows, InTail
<1>6. DecoderInv'
  BY <1>2, <1>3, <1>5 DEF IInv, DecoderInv, BothIdle, InTail, SameBytes
<1> QED
  BY <1>1, <1>4, <1>6, DecoderKeeps

LEMMA NextInv ==
  ASSUME IInv, [Next]_vars
  PROVE  IInv'
<1>1. CASE BeginBlock
  BY <1>1, BeginBlockInv
<1>2. CASE BeginChunk
  BY <1>2, BeginChunkInv
<1>3. CASE Encode
  <2>1. CASE EncodeToken /\ Snapshot /\ UNCHANGED <<decVars, blocks>>
    BY <2>1, EncodeFirstInv, EncodeMatchInv, EncodeWord0Inv, EncodeWord1Inv, EncodeLiteralInv
    DEF EncodeToken
  <2>2. CASE EncodeSearch /\ UNCHANGED <<decVars, blocks, hist>>
    BY <2>2, StartMatchInv, SearchStepInv, RejectMatchInv DEF EncodeSearch
  <2> QED
    BY <1>3, <2>1, <2>2 DEF Encode
<1>4. CASE HandOver
  BY <1>4, HandOverInv
<1>5. CASE Decode
  <2>1. UNCHANGED <<encVars, blocks, hist>>
    BY <1>5 DEF Decode
  <2>2. CASE DecodeToken(tbuf, ipos)
    BY <2>1, <2>2, DecodeFirstInv, DecodeLiteralInv, DecodeWordInv, DecodeMatchInv,
       CopyByteInv, EndMatchInv DEF DecodeToken
  <2>3. CASE EndDecode(tbuf, ipos)
    BY <2>1, <2>3, EndDecodeInv
  <2> QED
    BY <1>5, <2>2, <2>3 DEF Decode
<1>6. CASE UNCHANGED vars
  BY <1>6, StutterInv
<1> QED
  BY <1>1, <1>2, <1>3, <1>4, <1>5, <1>6 DEF Next, Terminating

(* IInv holds in every reachable state. *)
THEOREM Invariance == Spec => []IInv
BY InitInv, NextInv, PTL DEF Spec
-----------------------------------------------------------------------------
(* Every variable of encoder and decoder stays within its C++ type and array *)
(* bounds, for every block, every level and every hash function.             *)
THEOREM TypeCorrect == Spec => []TypeOK
<1>1. IInv => TypeOK
  BY DEF IInv
<1> QED
  BY <1>1, Invariance, PTL

(* Decode never returns -1 on what Encode produced, and what it has written  *)
(* is at all times a prefix of the block.                                    *)
THEOREM RoundTripHolds == Spec => []RoundTrip
<1>1. IInv => RoundTrip
  <2> SUFFICES ASSUME IInv PROVE RoundTrip
    OBVIOUS
  <2>1. dpc # "failed"
    BY DEF IInv, DecoderInv
  <2> QED
    BY <2>1, BetweenChunks DEF RoundTrip, IInv, PrefixInv
<1> QED
  BY <1>1, Invariance, PTL

(* Before each token the decoder's tables and rings are those the encoder    *)
(* had before it emitted that token.                                         *)
THEOREM DecoderTracks == Spec => []DecoderTracksEncoder
<1>1. IInv => DecoderTracksEncoder
  BY BeforeToken DEF DecoderTracksEncoder, DecView
<1> QED
  BY <1>1, Invariance, PTL

(* Every entry of a chunk is one the entropy coder has a code for, and a     *)
(* chunk never outgrows the token buffer.                                    *)
THEOREM TokensHaveCodes == Spec => []TokensInRange
<1>1. IInv => TokensInRange
  <2> SUFFICES ASSUME IInv PROVE TokensInRange
    OBVIOUS
  <2>1. Len(tbuf) <= BlockSizeRolz
    BY DEF IInv, HistoryInv
  <2>2. ASSUME NEW k \in DOMAIN hist, k < Len(tbuf)
        PROVE  /\ tbuf[k + 1] <= MatchCode(MatchMaxLen)
               /\ IF hist[k].pos >= 2 /\ IsMatchCode(tbuf[k + 1])
                  THEN k + 2 \in DOMAIN hist /\ tbuf[k + 2] \in 1 .. BucketItemSize - 1
                  ELSE k + 1 \in DOMAIN hist
    <3>1. TokenStep(k) /\ hist[k] \in View /\ hist[k].pos \in Nat
      BY <2>2 DEF IInv, HistoryInv, TypeOK, View
    <3>2. CASE hist[k].pos < 2
      <4>1. k + 1 \in DOMAIN hist /\ FirstStep(hist[k], hist[k + 1], tbuf[k + 1])
        BY <3>1, <3>2 DEF TokenStep
      <4>2. tbuf[k + 1] \in Byte
        BY <3>1, <4>1, EncoderTypes DEF FirstStep
      <4> QED
        BY <3>1, <3>2, <4>1, <4>2, ByteAndWordCodes
    <3>3. CASE ~(hist[k].pos < 2) /\ IsMatchCode(tbuf[k + 1])
      BY <3>1, <3>3 DEF TokenStep, MatchStep
    <3>4. CASE ~(hist[k].pos < 2) /\ ~IsMatchCode(tbuf[k + 1])
      <4>1. /\ k + 1 \in DOMAIN hist
            /\ \/ LiteralStep(hist[k], hist[k + 1], tbuf[k + 1])
               \/ WordStep(hist[k], hist[k + 1], tbuf[k + 1])
        BY <3>1, <3>4 DEF TokenStep
      <4>2. tbuf[k + 1] \in Byte \/ \E slot \in {0, 1} : tbuf[k + 1] = WordCode(slot)
        BY <4>1 DEF LiteralStep, WordStep
      <4>3. tbuf[k + 1] <= MatchCode(MatchMaxLen)
        BY <4>2, ByteAndWordCodes
      <4> QED
        BY <3>4, <4>1, <4>3
    <3> QED
      BY <3>2, <3>3, <3>4
  <2> QED
    BY <2>1, <2>2 DEF TokensInRange
<1> QED
  BY <1>1, Invariance, PTL

(* A match is copied from bytes that were written before it. *)
THEOREM CopyNeverSpins == Spec => []CopySourceBehind
<1>1. IInv => CopySourceBehind
  BY InMatch DEF CopySourceBehind
<1> QED
  BY <1>1, Invariance, PTL

(* A search for a match only ever goes back in the block, whatever nodes of  *)
(* the ring have been reused: it cannot meet a node twice.                   *)
THEOREM SearchesGoBack == Spec => SearchGoesBack
<1> DEFINE Back ==
      /\ epc = "search" => encBucket[ibuf[ipos - 1]].offset[search.node] < ipos
      /\ epc = "search" /\ epc' = "search" =>
           LET b == encBucket[ibuf[ipos - 1]]
           IN  b.offset[search'.node] < b.offset[search.node]
<1>1. ASSUME IInv, [Next]_vars PROVE [Back]_vars
  <2>1. epc = "search" => encBucket[ibuf[ipos - 1]].offset[search.node] < ipos
    BY <1>1, SearchVisits
  <2>2. ASSUME epc = "search", epc' = "search", ~UNCHANGED vars
        PROVE  LET b == encBucket[ibuf[ipos - 1]]
               IN  b.offset[search'.node] < b.offset[search.node]
    <3>1. dpc = "idle"
      BY <1>1, <2>2 DEF IInv, DecoderInv
    <3>2. SearchStep
      BY <1>1, <2>2, <3>1
      DEF Next, BeginBlock, BothIdle, BeginChunk, BeginEncode, Encode, EncodeToken, EncodeFirst,
          EncodeMatch, EncodeWord0, EncodeWord1, EncodeLiteral, NoMatch, NextToken, EncodeSearch,
          StartMatch, NoCandidate, RejectMatch, HandOver, EndEncode, Decode, DecodeToken, DecodeFirst, DecodeLiteral,
          Pending, DecodeWord, DecodeMatch, CopyByte, EndMatch, EndDecode, Terminating
    <3> DEFINE b == encBucket[ibuf[ipos - 1]]
               n == search.node
    <3>3. ~ChainEnds(b, n) /\ search'.node = b.suffix[n]
      <4> DEFINE better == /\ b.check[n] = HashCheckAt(ipos)
                           /\ ibuf[ipos + search.maxlen] = ibuf[b.offset[n] + search.maxlen]
                           /\ CommonLength(ipos, b.offset[n]) > search.maxlen
                 best == IF better
                         THEN [search EXCEPT !.maxnode = n, !.maxlen = CommonLength(ipos, b.offset[n])]
                         ELSE search
      <4>1. ~ChainEnds(b, n) /\ search' = [best EXCEPT !.node = b.suffix[n], !.i = @ + 1]
        BY <2>2, <3>2 DEF SearchStep
      <4>2. best = [search EXCEPT !.maxnode = best.maxnode, !.maxlen = best.maxlen]
        BY EncoderTypes, <1>1 DEF EncTypeOK, Search
      <4>3. search \in Search
        BY EncoderTypes, <1>1 DEF EncTypeOK
      <4> HIDE DEF best
      <4>4. search'.node = b.suffix[n]
        BY <4>1, <4>2, <4>3 DEF Search
      <4> QED
        BY <4>1, <4>4
    <3>4. b \in EncoderBucket /\ n \in Node
      BY <1>1, <2>2, SearchVisits
    <3>5. b.suffix[n] \in Node /\ ~(b.offset[n] <= b.offset[b.suffix[n]])
      BY <3>3, <3>4 DEF ChainEnds, EncoderBucket, NodeOrNone
    <3> QED
      BY <3>3, <3>4, <3>5, RolzAssumption DEF EncoderBucket
  <2> QED
    BY <2>1, <2>2
<1> QED
  BY <1>1, Invariance, PTL DEF Spec, SearchGoesBack

(* The two ends are a lossless channel: only prefixes of a block are ever    *)
(* delivered, and a block is complete before the next one is begun.          *)
THEOREM ImplementsLosslessCopy == Spec => Lossless!Spec
<1> DEFINE out == [i \in 0 .. opos - 1 |-> obuf[i]]
<1>1. Init => Lossless!Init
  <2> SUFFICES ASSUME Init PROVE Lossless!Init
    OBVIOUS
  <2>1. ibuf = [i \in 0 .. -1 |-> 0] /\ opos = 0
    BY DEF Init
  <2>2. 0 .. -1 = {}
    OBVIOUS
  <2> QED
    BY <2>1, <2>2 DEF Lossless!Init, Lossless!Empty
<1>2. ASSUME IInv, [Next]_vars PROVE [Lossless!Next]_(Lossless!vars)
  <2>1. IInv'
    BY <1>2, NextInv
  <2>2. ibuf \in [0 .. ilen - 1 -> Byte] /\ opos \in Nat /\ ilen \in Nat
    BY <1>2, EncoderTypes, DecoderTypes DEF EncTypeOK
  <2>3. opos' \in Nat /\ ipos' \in Nat /\ ilen' \in Nat /\ opos' <= ilen'
    BY <2>1, RolzAssumption DEF IInv, TypeOK, EncTypeOK, DecTypeOK, PrefixInv
  <2>4. CASE BeginBlock
    <3>1. opos = ilen
      BY <1>2, <2>4, BetweenChunks DEF BeginBlock
    <3>2. out = ibuf
      BY <1>2, <2>2, <3>1, DecoderTypes
    <3>3. ibuf' \in {b.data : b \in Blocks} /\ opos' = 0
      BY <2>4 DEF BeginBlock
    <3>4. out' = Lossless!Empty
      <4>1. 0 .. 0 - 1 = {}
        OBVIOUS
      <4> QED
        BY <3>3, <4>1 DEF Lossless!Empty
    <3> QED
      BY <3>2, <3>3, <3>4 DEF Lossless!Next, Lossless!Send
  <2>5. ASSUME ibuf' = ibuf, ilen' = ilen, opos < opos'
        PROVE  Lossless!Next
    <3>1. \A i \in 0 .. opos' - 1 : obuf'[i] = ibuf[i]
      BY <2>1, <2>5 DEF IInv, PrefixInv
    <3>2. DOMAIN ibuf = 0 .. ilen - 1 /\ DOMAIN out = 0 .. opos - 1 /\ opos' <= ilen
      BY <2>2, <2>3, <2>5
    <3>3. \E n \in 0 .. ilen - 1 :
            /\ n \notin 0 .. opos - 1 /\ 0 .. opos - 1 \subseteq 0 .. n
            /\ [i \in 0 .. opos' - 1 |-> obuf'[i]] = [i \in 0 .. n |-> ibuf[i]]
      <4>1. PICK q \in Nat : q = opos'
        BY <2>3
      <4>2. opos < q /\ q <= ilen /\ \A i \in 0 .. q - 1 : obuf'[i] = ibuf[i]
        BY <2>5, <3>1, <3>2, <4>1
      <4>3. q - 1 \in 0 .. ilen - 1 /\ q - 1 \notin 0 .. opos - 1
        BY <2>2, <4>2
      <4>4. 0 .. opos - 1 \subseteq 0 .. q - 1
        BY <2>2, <4>2
      <4>5. [i \in 0 .. q - 1 |-> obuf'[i]] = [i \in 0 .. q - 1 |-> ibuf[i]]
        BY <4>2
      <4> QED
        BY <4>1, <4>3, <4>4, <4>5
    <3>4. Lossless!Deliver
      BY <2>5, <3>2, <3>3 DEF Lossless!Deliver
    <3> QED
      BY <3>4 DEF Lossless!Next
  <2>6. CASE UNCHANGED <<ibuf, obuf, opos>>
    BY <2>6 DEF Lossless!vars
  <2>7. CASE BeginChunk \/ Encode \/ HandOver \/ UNCHANGED vars
    <3>1. UNCHANGED <<ibuf, obuf, opos>>
      BY <2>7 DEF BeginChunk, BeginEncode, Encode, EncodeToken, EncodeFirst, EncodeMatch, EncodeWord0,
         EncodeWord1, EncodeLiteral, EncodeSearch, StartMatch, SearchStep, RejectMatch, HandOver,
         EndEncode, BeginDecode, vars, encVars, decVars
    <3> QED
      BY <2>6, <3>1
  <2>8. CASE Decode
    <3>1. UNCHANGED <<ibuf, ilen>>
      BY <2>8 DEF Decode, encVars
    <3>2. opos < opos' \/ UNCHANGED <<obuf, opos>>
      BY <2>2, <2>8 DEF Decode, DecodeToken, DecodeFirst, DecodeLiteral, DecodeWord, DecodeMatch, CopyByte,
         EndMatch, EndDecode
    <3> QED
      BY <2>5, <2>6, <3>1, <3>2
  <2> QED
    BY <1>2, <2>4, <2>7, <2>8 DEF Next, Terminating
<1> QED
  BY <1>1, <1>2, Invariance, PTL DEF Spec, Lossless!Spec
=============================================================================
