---------------------------- MODULE RolzDecoder ----------------------------
(***************************************************************************)
(* ZlingRolzDecoder.  Decode replays the entries of a token buffer: it     *)
(* keeps, for every context byte, the ring of positions the encoder keeps, *)
(* and so finds the source of a match from its distance alone.  One action *)
(* is one token, or one byte of a match.                                   *)
(***************************************************************************)
EXTENDS RolzBase

VARIABLES
  obuf,       (* output block, kept from block to block                      *)
  opos,       (* bytes decoded so far (decpos between two calls)             *)
  tpos,       (* next entry of the token buffer (ipos in Decode)             *)
  decBucket,  (* m_buckets                                                   *)
  decMtf,     (* m_mtf                                                       *)
  decMru,     (* word_mru                                                    *)
  copy,       (* the running match copy: its source, and where it ends       *)
  dpc         (* where Decode stands                                         *)

decVars == <<obuf, opos, tpos, decBucket, decMtf, decMru, copy, dpc>>

(* The output block has room behind the input's size for a copy to overrun. *)
OutIndex == 0 .. BlockSizeIn + MatchMaxLen + MatchGap - 1

DecoderBucket == [head : Node, offset : [Node -> 0 .. BlockSizeIn - 1]]
EmptyDecoderBucket == [head |-> 0, offset |-> [n \in Node |-> 0]]

Copy == [src : Nat, end : Nat]
NoCopy == [src |-> 0, end |-> 0]

DecTypeOK ==
  /\ obuf \in [OutIndex -> Byte] /\ opos \in 0 .. BlockSizeIn /\ tpos \in Nat
  /\ decBucket \in [Byte -> DecoderBucket]
  /\ decMtf \in [Byte -> [Byte -> Byte]]
  /\ decMru \in MruTable
  /\ copy \in Copy
  /\ dpc \in {"idle", "token", "copy", "failed"}

(* Fault, for mutation: the position is written before the head moves. *)
PushOffsetEarly(b, p) ==
  [head |-> RollingAdd(b.head, 1), offset |-> [b.offset EXCEPT ![b.head] = p]]

(* GetMatchAndUpdate: the bucket it leaves, and the offset it returns. *)
PushOffset(b, p) ==
  LET h == RollingAdd(b.head, 1)
  IN  [head |-> h, offset |-> [b.offset EXCEPT ![h] = p]]

(* Fault, for mutation: distances count from one. *)
MatchOffsetNear(b, idx) == b.offset[RollingSub(b.head, idx - 1)]

MatchOffset(b, idx) == b.offset[RollingSub(b.head, idx)]

UpdateBucket ==
  decBucket' = [decBucket EXCEPT ![obuf[opos - 1]] = PushOffset(@, opos)]

(* Reset(); it leaves m_mtf alone. *)
ResetDecoder == decBucket' = [c \in Byte |-> EmptyDecoderBucket]

BeginDecode ==
  /\ dpc = "idle"
  /\ tpos' = 0
  /\ decMru' = NoWords
  /\ dpc' = "token"
  /\ UNCHANGED <<obuf, opos, decBucket, decMtf, copy>>

(* Each token ends with this test of the position that was announced. *)
CheckPos(encpos) == dpc' = IF opos' > encpos THEN "failed" ELSE "token"

DecodeFirst(tokens) ==
  /\ dpc = "token" /\ tpos < Len(tokens) /\ opos < 2
  /\ obuf' = [obuf EXCEPT ![opos] = tokens[tpos + 1]]
  /\ opos' = opos + 1
  /\ tpos' = tpos + 1
  /\ UNCHANGED <<decBucket, decMtf, decMru, copy, dpc>>

(* Another token to decode, and its first entry v. *)
Pending(tokens) == dpc = "token" /\ tpos < Len(tokens) /\ opos >= 2

DecodeLiteral(tokens, encpos) ==
  /\ Pending(tokens) /\ tokens[tpos + 1] < NumBytes
  /\ LET c == obuf[opos - 1]
         rank == tokens[tpos + 1]
         byte == MtfByte(decMtf[c], rank)
     IN  /\ obuf' = [obuf EXCEPT ![opos] = byte]
         /\ decMtf' = [decMtf EXCEPT ![c] = MtfDecode(@, rank)]
         /\ decMru' = PushWord(decMru, obuf[opos - 2], <<c, byte>>)
  /\ UpdateBucket
  /\ opos' = opos + 1
  /\ tpos' = tpos + 1
  /\ CheckPos(encpos)
  /\ UNCHANGED copy

DecodeWord(tokens, encpos, slot) ==
  /\ Pending(tokens) /\ tokens[tpos + 1] = WordCode(slot)
  /\ LET c == obuf[opos - 1]
         word == decMru[c][slot]
     IN  /\ obuf' = [obuf EXCEPT ![opos] = word[1], ![opos + 1] = word[2]]
         /\ decMru' = IF slot = 1 THEN PushWord(decMru, c, word) ELSE decMru
  /\ UpdateBucket
  /\ opos' = opos + 2
  /\ tpos' = tpos + 1
  /\ CheckPos(encpos)
  /\ UNCHANGED <<decMtf, copy>>

(* The source of the match is looked up and the copy begins. *)
DecodeMatch(tokens) ==
  /\ Pending(tokens) /\ IsMatchCode(tokens[tpos + 1])
  /\ UpdateBucket
  /\ copy' = [src |-> MatchOffset(decBucket'[obuf[opos - 1]], tokens[tpos + 2]),
              end |-> opos + MatchLen(tokens[tpos + 1])]
  /\ tpos' = tpos + 2
  /\ dpc' = "copy"
  /\ UNCHANGED <<obuf, opos, decMtf, decMru>>

(* IncrementalCopyFastPath, a byte at a time: the source may run into bytes *)
(* this copy has produced.                                                  *)
CopyByte ==
  /\ dpc = "copy" /\ opos < copy.end
  /\ obuf' = [obuf EXCEPT ![opos] = obuf[copy.src]]
  /\ opos' = opos + 1
  /\ copy' = [copy EXCEPT !.src = @ + 1]
  /\ UNCHANGED <<tpos, decBucket, decMtf, decMru, dpc>>

EndMatch(encpos) ==
  /\ dpc = "copy" /\ opos = copy.end
  /\ decMru' = PushNewWord(decMru, obuf[opos - 3], <<obuf[opos - 2], obuf[opos - 1]>>)
  /\ copy' = NoCopy
  /\ UNCHANGED <<obuf, opos, tpos, decBucket, decMtf>>
  /\ CheckPos(encpos)

(* Decode returns: 0 when it ends where the encoder ended, -1 if not. *)
EndDecode(tokens, encpos) ==
  /\ dpc = "token" /\ tpos >= Len(tokens)
  /\ dpc' = IF opos = encpos THEN "idle" ELSE "failed"
  /\ UNCHANGED <<obuf, opos, tpos, decBucket, decMtf, decMru, copy>>

DecodeToken(tokens, encpos) ==
  \/ DecodeFirst(tokens)
  \/ DecodeLiteral(tokens, encpos)
  \/ \E slot \in {0, 1} : DecodeWord(tokens, encpos, slot)
  \/ DecodeMatch(tokens)
  \/ CopyByte
  \/ EndMatch(encpos)
=============================================================================
