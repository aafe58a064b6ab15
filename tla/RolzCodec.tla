----------------------------- MODULE RolzCodec -----------------------------
(***************************************************************************)
(* The encoder and the decoder coupled as libzling.cpp couples them: each  *)
(* block is encoded chunk by chunk, a chunk being what one call of Encode  *)
(* puts into the token buffer, and each chunk reaches one call of Decode   *)
(* together with the position where its encoding ended.  Buckets are reset *)
(* with each block, word_mru with each chunk, move-to-front tables never.  *)
(* Entropy coding and I/O sit between the two ends and are modelled        *)
(* elsewhere.                                                              *)
(***************************************************************************)
EXTENDS RolzEncoder, RolzDecoder

CONSTANTS
  Blocks,     (* the blocks the encoder may be given, with their lengths     *)
  MaxBlocks   (* bound: blocks of a run                                      *)

ASSUME CodecAssumption ==
  /\ \A b \in Blocks : b.len \in 0 .. BlockSizeIn /\ b.data \in [0 .. b.len - 1 -> Byte]
  /\ MaxBlocks \in Nat

VARIABLES
  blocks,     (* blocks begun                                                *)
  hist        (* history of the chunk: at each token boundary of tbuf, what  *)
              (* the encoder's state meant to a decoder at that time         *)

vars == <<encVars, decVars, blocks, hist>>

(* The part of the state the two ends must agree on. *)
EncView ==
  [pos    |-> ipos,
   bucket |-> [c \in Byte |-> [head |-> encBucket[c].head, offset |-> encBucket[c].offset]],
   table  |-> [c \in Byte |-> encMtf[c].table],
   mru    |-> encMru]
DecView == [pos |-> opos, bucket |-> decBucket, table |-> decMtf, mru |-> decMru]

View == [pos    : 0 .. BlockSizeIn,
         bucket : [Byte -> DecoderBucket],
         table  : [Byte -> [Byte -> Byte]],
         mru    : MruTable]

Init ==
  /\ ibuf = [i \in 0 .. -1 |-> 0] /\ ilen = 0 /\ ipos = 0 /\ tbuf = <<>>
  /\ encBucket = [c \in Byte |-> EmptyEncoderBucket]
  /\ encMtf = [c \in Byte |-> MtfEncoderInit]
  /\ encMru = NoWords
  /\ level \in Levels
  /\ search = NoSearch
  /\ epc = "idle"
  /\ obuf = [i \in OutIndex |-> 0] /\ opos = 0 /\ tpos = 0
  /\ decBucket = [c \in Byte |-> EmptyDecoderBucket]
  /\ decMtf = [c \in Byte |-> MtfDecoderInit]
  /\ decMru = NoWords
  /\ copy = NoCopy
  /\ dpc = "idle"
  /\ blocks = 0
  /\ hist = [k \in {0} |-> EncView]

BothIdle == epc = "idle" /\ dpc = "idle"

(* The next block is read; both ends start on it with empty buckets. *)
BeginBlock ==
  /\ BothIdle /\ ipos = ilen /\ blocks < MaxBlocks
  /\ \E b \in Blocks : ilen' = b.len /\ ibuf' = b.data
  /\ ipos' = 0 /\ opos' = 0
  /\ ResetEncoder /\ ResetDecoder
  /\ blocks' = blocks + 1
  /\ tbuf' = <<>> /\ tpos' = 0
  /\ UNCHANGED <<encMtf, encMru, level, search, epc, obuf, decMtf, decMru, copy, dpc>>
  /\ hist' = [k \in {0} |-> EncView']

(* while (encpos < ilen): encode the next chunk. *)
BeginChunk ==
  /\ BothIdle
  /\ BeginEncode
  /\ hist' = [k \in {0} |-> EncView']
  /\ UNCHANGED <<decVars, blocks>>

(* A token has been completed: the snapshot that follows it. *)
Snapshot ==
  hist' = [k \in DOMAIN hist \cup {Len(tbuf')} |->
             IF k = Len(tbuf') THEN EncView' ELSE hist[k]]

Encode ==
  \/ /\ EncodeToken
     /\ Snapshot
     /\ UNCHANGED <<decVars, blocks>>
  \/ /\ EncodeSearch
     /\ UNCHANGED <<decVars, blocks, hist>>

(* The chunk is complete and goes to the decoder. *)
HandOver ==
  /\ EndEncode
  /\ BeginDecode
  /\ UNCHANGED <<blocks, hist>>

Decode ==
  /\ DecodeToken(tbuf, ipos) \/ EndDecode(tbuf, ipos)
  /\ UNCHANGED <<encVars, blocks, hist>>

Finished == BothIdle /\ ipos = ilen /\ blocks = MaxBlocks
Terminating == Finished /\ UNCHANGED vars

Next == BeginBlock \/ BeginChunk \/ Encode \/ HandOver \/ Decode \/ Terminating

Spec == Init /\ [][Next]_vars

(* Both ends are sequential programs: each keeps running until it returns. *)
FairSpec == Spec /\ WF_vars(Next)
-----------------------------------------------------------------------------
(* The variables hold what their C++ types and array bounds allow; in       *)
(* particular every bucket offset fits its 24 bits.                         *)
TypeOK ==
  /\ EncTypeOK
  /\ DecTypeOK
  /\ blocks \in Nat
  /\ DOMAIN hist \subseteq Nat /\ hist \in [DOMAIN hist -> View]

(* The decoder never refuses a chunk (both "return -1" of Decode), and what  *)
(* it has written is a prefix of the block; once both ends are idle it has   *)
(* written all that was encoded.                                             *)
RoundTrip ==
  /\ dpc # "failed"
  /\ opos <= ipos
  /\ \A i \in 0 .. opos - 1 : obuf[i] = ibuf[i]
  /\ BothIdle => opos = ipos

(* Before each token the decoder's state is the state the encoder had before *)
(* it emitted that token: position, move-to-front tables, word_mru and, as   *)
(* long as matches may follow, every ring of positions.  The encoder stops   *)
(* updating its rings near the end of the block and the decoder does not.    *)
DecoderTracksEncoder ==
  dpc = "token" =>
    /\ tpos \in DOMAIN hist
    /\ LET s == hist[tpos]
       IN  /\ DecView.pos = s.pos /\ DecView.table = s.table /\ DecView.mru = s.mru
           /\ ~InTail(opos) => DecView.bucket = s.bucket

(* Every entry of a chunk is one the entropy coder has a code for: 256 bytes *)
(* or ranks, two words, a code per match length, and after a match code the  *)
(* distance of an older node; and the chunk fits the token buffer.           *)
TokensInRange ==
  /\ Len(tbuf) <= BlockSizeRolz
  /\ \A k \in DOMAIN hist : k < Len(tbuf) /\ k \in Nat =>
       /\ tbuf[k + 1] <= MatchCode(MatchMaxLen)
       /\ IF hist[k].pos >= 2 /\ IsMatchCode(tbuf[k + 1])
          THEN k + 2 \in DOMAIN hist /\ tbuf[k + 2] \in 1 .. BucketItemSize - 1
          ELSE k + 1 \in DOMAIN hist

(* A running match copies from bytes that were written before: the source   *)
(* stays behind the destination (else IncrementalCopyFastPath would spin).  *)
CopySourceBehind == dpc = "copy" => copy.src < opos /\ copy.end <= ipos

(* The nodes a search visits lie ever further back in the block, behind the *)
(* position being matched: a stale node never sends it round in a circle.   *)
SearchGoesBack ==
  [][/\ epc = "search" => encBucket[ibuf[ipos - 1]].offset[search.node] < ipos
     /\ epc = "search" /\ epc' = "search" =>
          LET b == encBucket[ibuf[ipos - 1]]
          IN  b.offset[search'.node] < b.offset[search.node]]_vars

(* Every call of Encode moves on and every chunk is decoded: all blocks get  *)
(* through.                                                                  *)
AllBlocksDone == <>Finished

(* Encoder and decoder together are a lossless channel: block by block, what *)
(* the decoder has written is a prefix of the block, it never takes a byte   *)
(* back, and the next block is not begun before the last one is complete.    *)
Lossless == INSTANCE LosslessCopy WITH
  Inputs <- {b.data : b \in Blocks},
  in <- ibuf,
  out <- [i \in 0 .. opos - 1 |-> obuf[i]]

IsLosslessCopy == Lossless!LiveSpec
=============================================================================
