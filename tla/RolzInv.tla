------------------------------ MODULE RolzInv ------------------------------
(***************************************************************************)
(* The inductive invariant behind the properties of RolzCodec.  Its heart  *)
(* is HistoryInv: each token of the chunk leads from the snapshot taken    *)
(* before it to the one taken after it by a step that a decoder can take   *)
(* with no more than the first snapshot and the token.  The encoder's half *)
(* of the proof establishes it, the decoder's half consumes it.            *)
(***************************************************************************)
EXTENDS RolzCodec

(* The ring of the byte before p, with position p entered. *)
Entered(bucket, p) == [bucket EXCEPT ![ibuf[p - 1]] = PushOffset(@, p)]

(* What holds of every token after the first two bytes: the position moves   *)
(* on, and unless the end of the block is near the rings gain one position.  *)
Advance(s, t) ==
  /\ s.pos < t.pos /\ t.pos <= ilen
  /\ ~InTail(s.pos) => t.bucket = Entered(s.bucket, s.pos)

FirstStep(s, t, v) ==
  /\ s.pos < ilen /\ v = ibuf[s.pos]
  /\ t = [s EXCEPT !.pos = @ + 1]

LiteralStep(s, t, v) ==
  LET c == ibuf[s.pos - 1]
      byte == ibuf[s.pos]
  IN  /\ v \in Byte /\ byte = s.table[c][v]
      /\ t.pos = s.pos + 1
      /\ t.table = [s.table EXCEPT ![c] = MtfDecode(@, v)]
      /\ t.mru = PushWord(s.mru, ibuf[s.pos - 2], <<c, byte>>)

WordStep(s, t, v) ==
  \E slot \in {0, 1} :
    LET c == ibuf[s.pos - 1]
        word == s.mru[c][slot]
    IN  /\ v = WordCode(slot)
        /\ word = <<ibuf[s.pos], ibuf[s.pos + 1]>>
        /\ t.pos = s.pos + 2
        /\ t.table = s.table
        /\ t.mru = IF slot = 1 THEN PushWord(s.mru, c, word) ELSE s.mru

MatchStep(s, t, v, idx) ==
  LET off == MatchOffset(Entered(s.bucket, s.pos)[ibuf[s.pos - 1]], idx)
  IN  /\ v <= MatchCode(MatchMaxLen) /\ idx \in 1 .. BucketItemSize - 1
      /\ ~InTail(s.pos)
      /\ off < s.pos /\ SameBytes(s.pos, off, MatchLen(v))
      /\ t.pos = s.pos + MatchLen(v)
      /\ t.table = s.table
      /\ t.mru = PushNewWord(s.mru, ibuf[t.pos - 3], <<ibuf[t.pos - 2], ibuf[t.pos - 1]>>)

TokenStep(k) ==
  LET s == hist[k]
      v == tbuf[k + 1]
  IN  IF s.pos < 2
      THEN k + 1 \in DOMAIN hist /\ FirstStep(s, hist[k + 1], v)
      ELSE IF IsMatchCode(v)
      THEN /\ k + 2 \in DOMAIN hist
           /\ Advance(s, hist[k + 2]) /\ MatchStep(s, hist[k + 2], v, tbuf[k + 2])
      ELSE /\ k + 1 \in DOMAIN hist
           /\ Advance(s, hist[k + 1])
           /\ LiteralStep(s, hist[k + 1], v) \/ WordStep(s, hist[k + 1], v)

(* MatchAndUpdate has entered the current position, its token is to come. *)
PosEntered == epc \in {"search", "found", "nomatch"}

MtfInv == \A c \in Byte : MtfConsistent(encMtf[c])

(* Buckets hold positions behind ipos, and ipos itself once it is entered. *)
BucketInv ==
  \A c \in Byte, n \in Node :
    \/ encBucket[c].offset[n] = 0
    \/ encBucket[c].offset[n] < ipos
    \/ /\ PosEntered /\ c = ibuf[ipos - 1] /\ n = encBucket[c].head
       /\ encBucket[c].offset[n] = ipos

SearchInv ==
  LET b == encBucket[ibuf[ipos - 1]]
  IN  /\ PosEntered => ipos >= 2 /\ ~InTail(ipos) /\ HasRoom /\ b.offset[b.head] = ipos
      /\ epc = "search" => search.node # b.head
      /\ epc \in {"search", "found"} =>
           /\ search.maxlen \in MatchMinLen - 1 .. MatchMaxLen
           /\ search.maxlen >= MatchMinLen =>
                search.maxnode # b.head /\ SameBytes(ipos, b.offset[search.maxnode], search.maxlen)

(* The last snapshot is the encoder's present state, but for the position   *)
(* that MatchAndUpdate has just entered.                                    *)
PresentInv ==
  LET s == hist[Len(tbuf)]
  IN  /\ Len(tbuf) \in DOMAIN hist
      /\ s.pos = ipos /\ s.table = EncView.table /\ s.mru = encMru
      /\ EncView.bucket = IF PosEntered THEN Entered(s.bucket, ipos) ELSE s.bucket

HistoryInv ==
  /\ 0 \in DOMAIN hist /\ DOMAIN hist \subseteq 0 .. Len(tbuf)
  /\ Len(tbuf) <= BlockSizeRolz
  /\ \A k \in DOMAIN hist : hist[k].pos <= ipos
  /\ \A k \in DOMAIN hist : k < Len(tbuf) => TokenStep(k)

(* The decoder has the position, tables and rings of snapshot s. *)
Follows(s) ==
  /\ opos = s.pos /\ decMtf = s.table
  /\ ~InTail(opos) => decBucket = s.bucket

(* While a chunk is encoded the decoder waits in the state of its start; it *)
(* then follows the snapshots.  Inside a match it has still to copy bytes   *)
(* that equal the ones at the source.                                       *)
DecoderInv ==
  /\ dpc # "failed" /\ (epc = "idle" \/ dpc = "idle")
  /\ BothIdle => Follows(hist[Len(tbuf)])
  /\ epc # "idle" => Follows(hist[0]) /\ hist[0].mru = NoWords
  /\ dpc = "token" =>
       tpos \in DOMAIN hist /\ Follows(hist[tpos]) /\ decMru = hist[tpos].mru
  /\ dpc = "copy" =>
       LET t == hist[tpos]
       IN  /\ tpos \in DOMAIN hist
           /\ 2 <= opos /\ opos <= copy.end /\ copy.end = t.pos
           /\ copy.src < opos /\ SameBytes(opos, copy.src, copy.end - opos)
           /\ decMtf = t.table
           /\ ~InTail(t.pos) => decBucket = t.bucket
           /\ t.mru = PushNewWord(decMru, ibuf[t.pos - 3], <<ibuf[t.pos - 2], ibuf[t.pos - 1]>>)
           /\ t.pos >= 3

PrefixInv ==
  /\ opos <= ipos
  /\ \A i \in 0 .. opos - 1 : obuf[i] = ibuf[i]

IInv ==
  /\ TypeOK /\ MtfInv /\ BucketInv /\ SearchInv
  /\ PresentInv /\ HistoryInv
  /\ DecoderInv /\ PrefixInv
=============================================================================
