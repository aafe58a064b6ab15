---------------------------- MODULE ZlingDecode ----------------------------
(***************************************************************************)
(* Decode() of libzling.cpp: chunk after chunk of the stream is read and   *)
(* decoded into the block buffer, which is written out at each stop flag   *)
(* or wherever the stream seems to end.  The stream may end too early, and *)
(* a read error may look like its end and pass.  What is then missing of a *)
(* chunk is replaced by whatever the buffers held: such a chunk is         *)
(* refused, decodes to garbage (a byte of no place) or leads Decode        *)
(* astray, into a loop without end or outside its buffers.                 *)
(***************************************************************************)
EXTENDS ZlingEncode

VARIABLES
  dpos,       (* units of the stream read                                  *)
  dierr,      (* inputter->IsErr()                                         *)
  doerr,      (* outputter->IsErr()                                        *)
  block,      (* res.ibuf up to decpos: the bytes decoded of the block     *)
  cur,        (* the chunk being read: its header, and what data there is  *)
  filled,     (* bytes of res.obuf into which data have ever been read     *)
  ooff,       (* bytes of the block written                                *)
  out,        (* what has been written                                     *)
  dcalls,     (* calls on the action handler                               *)
  dret,       (* what Decode returned                                      *)
  dpc         (* where Decode stands                                       *)

decodeVars == <<dpos, dierr, doerr, block, cur, filled, ooff, out, dcalls, dret, dpc>>

Garbage == 0

NoHeader == [encpos |-> 0, rlen |-> 0, olen |-> 0, from |-> 0, to |-> 0, got |-> 0, whole |-> FALSE]

Rest == Len(file) - dpos   (* units yet to be read *)

(* An unsigned int of the stream, kept in an int. *)
Signed(v) == IF v >= IntRange \div 2 THEN v - IntRange ELSE v

DecodeInit ==
  /\ dpos = 0 /\ dierr = FALSE /\ doerr = FALSE
  /\ block = <<>> /\ cur = NoHeader /\ filled = 0 /\ ooff = 0
  /\ out = <<>> /\ dcalls = <<>>
  /\ dret = "none" /\ dpc = "start"

Throw == dpc' = "end" /\ dret' = "thrown"

StartDecode ==
  /\ dpc = "start"
  /\ dcalls' = <<OnInit>>
  /\ \/ dpc' = "block" /\ UNCHANGED dret
     \/ Throw
  /\ UNCHANGED <<dpos, dierr, doerr, block, cur, filled, ooff, out>>

(* while (!IsEnd()): the next block begins. *)
BeginDecodeBlock ==
  /\ dpc = "block"
  /\ \E ends \in BOOLEAN :
       /\ TestEnd(Rest = 0, dierr, ends, dierr')
       /\ IF ends THEN dpc' = "return" /\ UNCHANGED block
          ELSE dpc' = "first" /\ block' = <<>>
  /\ UNCHANGED <<dpos, doerr, cur, filled, ooff, out, dcalls, dret>>

(* What a unit says if it is taken for a flag; a byte of data may say        *)
(* anything, 2 for any that is no flag.                                      *)
FlagValues(u) == IF u.kind = "flag" THEN {u.v} ELSE 0 .. 2

(* The inner while (!IsEnd()), and the flag it then finds: the byte that     *)
(* IsEnd has put back is always there to be read.  So it is at the first     *)
(* test in a block, just after that of BeginDecodeBlock.                     *)
GetFlag ==
  /\ dpc \in {"first", "flag"}
  /\ \E ends \in BOOLEAN :
       /\ TestEnd(Rest = 0, dierr, ends, dierr')
       /\ dpc = "first" => ~ends
       /\ IF ends THEN dpc' = "output" /\ UNCHANGED <<dpos, dret>>
          ELSE /\ dpos' = dpos + 1
               /\ \E v \in FlagValues(file[dpos + 1]) :
                    \/ v = Stop.v /\ dpc' = "output" /\ UNCHANGED dret
                    \/ v = Continue.v /\ dpc' = "header" /\ UNCHANGED dret
                    \/ v \notin {Stop.v, Continue.v} /\ Throw
  /\ ooff' = 0
  /\ UNCHANGED <<doerr, block, cur, filled, out, dcalls>>

(* Fault, for mutation: a full token buffer is refused. *)
InvalidSizeFull(c) == c.rlen >= BlockSizeRolz \/ c.olen > BlockSizeHuffman

InvalidSize(c) == c.rlen > BlockSizeRolz \/ c.olen > BlockSizeHuffman

AnyInt == -(IntRange \div 2) .. IntRange \div 2 - 1

(* What may be taken for the k-th number of a header: the one written, or    *)
(* anything if the stream ends before it, as GetChar then returns what its   *)
(* variable happened to hold.                                                *)
HeaderNumber(k) == IF k <= Rest THEN {Signed(file[dpos + k].v)} ELSE AnyInt

(* The three numbers of a header.  A read error ends Decode, one met before  *)
(* it as soon as the first number has been read; that may then be any four   *)
(* bytes.  The end of the stream does not, until the sizes look wrong; the   *)
(* announced position is not looked at.                                      *)
GetHeader ==
  /\ dpc = "header"
  /\ \/ /\ \E k \in 0 .. IF dierr THEN 4 ELSE 3 : k <= Rest /\ dpos' = dpos + k
        /\ dierr' = TRUE /\ dpc' = "return"
        /\ UNCHANGED <<cur, dret>>
     \/ /\ ~dierr
        /\ dpos' = IF Rest < 3 THEN Len(file) ELSE dpos + 3
        /\ UNCHANGED dierr
        /\ \E e \in HeaderNumber(1), r \in HeaderNumber(2), o \in HeaderNumber(3) :
             cur' = [NoHeader EXCEPT !.encpos = e, !.rlen = r, !.olen = o]
        /\ IF InvalidSize(cur') THEN Throw ELSE dpc' = "data" /\ UNCHANGED dret
  /\ UNCHANGED <<doerr, block, filled, ooff, out, dcalls>>

(* Fault, for mutation: the end of the stream does not end the loop. *)
DataReadAll(ends) == cur.got >= cur.olen

DataRead(ends) == ends \/ cur.got >= cur.olen

(* One round of the loop that reads the data, its test and a call of         *)
(* GetData, which would read nothing at the end of the stream.               *)
GetPieces ==
  /\ dpc = "data"
  /\ \E ends \in BOOLEAN :
       /\ TestEnd(Rest = 0, dierr, ends, dierr')
       /\ dpc' = IF DataRead(ends) THEN "decode" ELSE "more"
  /\ UNCHANGED <<dpos, cur, doerr, block, filled, ooff, out, dcalls, dret>>

(* Fault, for mutation: the buffer is a new one for each chunk. *)
FilledByThis(n) == n

(* Bytes of the buffer that hold data once it has been read to the n-th. *)
Filled(n) == IF n > filled THEN n ELSE filled

MorePieces ==
  /\ dpc = "more"
  /\ \E n \in 0 .. cur.olen - cur.got :
       /\ n <= Rest /\ (n = 0 => Rest = 0)
       /\ dpos' = dpos + n
       /\ cur' = IF n = 0 THEN cur
                 ELSE [cur EXCEPT !.got = @ + n, !.whole = (cur.got + n = cur.olen),
                                  !.from = file[dpos + 1].from, !.to = file[dpos + 1].to]
       /\ filled' = Filled(cur.got + n)
  /\ \/ dpc' = "data" /\ UNCHANGED dierr
     \/ dpc' = "return" /\ dierr' = TRUE
  /\ UNCHANGED <<doerr, block, ooff, out, dcalls, dret>>

(* The bytes decoded of a chunk must end at the announced position. *)
Accept(bytes) ==
  IF Len(block) + Len(bytes) = cur.encpos
  THEN block' = block \o bytes /\ dpc' = "flag" /\ UNCHANGED dret
  ELSE Throw /\ UNCHANGED block

(* Tokens to be decoded from data some of which have not been read. *)
Broken == cur.rlen > 0 /\ ~cur.whole

(* Huffman and ROLZ decoding.  A chunk with no tokens gives nothing, a whole *)
(* one the bytes it stands for.  A broken one may be found invalid, or give  *)
(* any bytes up to the announced position.                                   *)
DecodeChunk ==
  /\ dpc = "decode"
  /\ \/ cur.rlen <= 0 /\ Accept(<<>>)
     \/ cur.rlen > 0 /\ cur.whole /\ Accept([k \in 1 .. cur.to - cur.from |-> cur.from + k])
     \/ /\ Broken /\ Len(block) < cur.encpos /\ cur.encpos <= BlockSizeIn
        /\ Accept([k \in 1 .. cur.encpos - Len(block) |-> Garbage])
     \/ Broken /\ Throw /\ UNCHANGED block
  /\ UNCHANGED <<dpos, dierr, doerr, cur, filled, ooff, out, dcalls>>

(* Distance 0 may have a code if the byte that says so has never been read:  *)
(* the copy of such a match, from where it writes, does not end.             *)
MaySpin == filled < DistanceByte

(* The bytes decoded are held against the announced position only. *)
MayWriteBehind == cur.encpos > BlockSizeIn

(* A token takes up to two bytes of the buffer.  Of a whole chunk fewer do   *)
(* (CodeFitsBuffer), of a broken one as many as there are may.               *)
MayReadBehind == 2 * cur.rlen > BlockSizeHuffman

(* Decoding a broken chunk may also go on for ever, or outside the buffers;  *)
(* nothing is said of what happens then.                                     *)
GoAstray ==
  /\ dpc = "decode" /\ Broken
  /\ MaySpin \/ MayWriteBehind \/ MayReadBehind
  /\ dpc' = "astray"
  /\ UNCHANGED <<dpos, dierr, doerr, block, cur, filled, ooff, out, dcalls, dret>>

(* Fault, for mutation: after a short write the block is written from its start. *)
WrittenFromStart(n) == SubSeq(block, 1, n)

Written(n) == SubSeq(block, ooff + 1, ooff + n)

(* One round of the loop that writes the block, and the end of that loop. *)
PutData ==
  /\ dpc = "output" /\ ooff < Len(block)
  /\ \E n \in 0 .. Len(block) - ooff :
       /\ out' = out \o Written(n)
       /\ ooff' = ooff + n
       /\ \/ n > 0 /\ UNCHANGED <<doerr, dpc>>
          \/ doerr' = TRUE /\ dpc' = "return"
  /\ UNCHANGED <<dpos, dierr, block, cur, filled, dcalls, dret>>

ProcessDecoded ==
  /\ dpc = "output" /\ ooff = Len(block)
  /\ dcalls' = Append(dcalls, OnProcess(Len(block)))
  /\ dpc' = "block"
  /\ UNCHANGED <<dpos, dierr, doerr, block, cur, filled, ooff, out, dret>>

ReturnDecode ==
  /\ dpc = "return"
  /\ dcalls' = Done(dcalls, dierr \/ doerr)
  /\ dret' = IF dierr \/ doerr THEN "error" ELSE "ok"
  /\ dpc' = "end"
  /\ UNCHANGED <<dpos, dierr, doerr, block, cur, filled, ooff, out>>

DecodeNext ==
  \/ StartDecode \/ BeginDecodeBlock \/ GetFlag \/ GetHeader \/ GetPieces \/ MorePieces
  \/ DecodeChunk \/ GoAstray \/ PutData \/ ProcessDecoded \/ ReturnDecode
=============================================================================
