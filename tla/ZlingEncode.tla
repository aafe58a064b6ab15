---------------------------- MODULE ZlingEncode ----------------------------
(***************************************************************************)
(* Encode() of libzling.cpp: blocks are read from the inputter, coded      *)
(* chunk by chunk and written to the outputter, with the calls made on the *)
(* action handler and every way an I/O error ends it.                      *)
(*                                                                         *)
(* Bytes of the input are named by their place, 1 to inSize.  The stream   *)
(* written is a sequence of units: a flag, the three numbers of a chunk's  *)
(* header, a piece of its data.  What a chunk's data decodes to is the     *)
(* concern of RolzCodec and EntropyStream; here a piece says which bytes   *)
(* its chunk stands for.                                                   *)
(***************************************************************************)
EXTENDS Integers, Sequences

CONSTANTS
  InSizes,            (* lengths of the input                              *)
  Levels,             (* levels a caller may pass                          *)
  BlockSizeIn,        (* kBlockSizeIn      = 16777216                      *)
  BlockSizeRolz,      (* kBlockSizeRolz    = 262144                        *)
  BlockSizeHuffman,   (* kBlockSizeHuffman = 393216                        *)
  DistanceByte,       (* 258: the byte of a chunk's data, in the second of *)
                      (* its length tables, that says whether distance 0   *)
                      (* has a code; the encoder has no such distance      *)
  IntRange            (* 2 ^ 32: values of an unsigned int of the stream   *)

ASSUME StreamAssumption ==
  /\ InSizes \subseteq Nat /\ Levels \subseteq Int
  /\ BlockSizeIn \in Nat \ {0} /\ BlockSizeRolz \in Nat \ {0} /\ BlockSizeHuffman \in Nat \ {0}
  /\ DistanceByte \in 1 .. BlockSizeHuffman
  /\ IntRange \in Nat
  /\ IntRange \div 2 > BlockSizeIn /\ IntRange \div 2 > BlockSizeRolz
  /\ IntRange \div 2 > BlockSizeHuffman

VARIABLES
  inSize,     (* length of the input                                       *)
  userLevel,  (* the argument "level"                                      *)
  inpos,      (* bytes read so far                                         *)
  eierr,      (* inputter->IsErr()                                         *)
  eoerr,      (* outputter->IsErr()                                        *)
  ilen,       (* bytes of the current block                                *)
  encpos,     (* bytes of it that have been coded                          *)
  level,      (* current_level                                             *)
  chunk,      (* the chunk just coded: what obuf, rlen and olen hold       *)
  eoff,       (* pieces of it written                                      *)
  file,       (* what has been written                                     *)
  ecalls,     (* calls on the action handler                               *)
  eret,       (* what Encode returned                                      *)
  epc         (* where Encode stands                                       *)

encodeVars ==
  <<inSize, userLevel, inpos, eierr, eoerr, ilen, encpos, level, chunk, eoff,
    file, ecalls, eret, epc>>

Continue == [kind |-> "flag", v |-> 1]
Stop == [kind |-> "flag", v |-> 0]
Number(kind, v) == [kind |-> kind, v |-> v % IntRange]    (* PutUInt32 *)
Piece(from, to) == [kind |-> "data", from |-> from, to |-> to]

(* Calls on the action handler; only OnProcess has a size. *)
OnInit == [call |-> "init", size |-> 0]
OnProcess(size) == [call |-> "process", size |-> size]
OnDone == [call |-> "done", size |-> 0]

NoChunk == [from |-> 0, to |-> 0, rlen |-> 0, olen |-> 0]

(* The levels ZlingRolzEncoder::Encode knows; for any other it returns -1. *)
KnownLevels == 0 .. 4

(* A call of IsEnd on a file: it reads a byte, and puts it back.  An error   *)
(* in reading looks like the end.  IsErr tells of it ever after; but the     *)
(* next call of IsEnd tries again, and may find a byte.                      *)
TestEnd(atEnd, err, ends, err2) ==
  \/ ends = atEnd /\ err2 = err
  \/ ends = TRUE /\ err2 = TRUE

EncodeInit ==
  /\ inSize \in InSizes /\ userLevel \in Levels
  /\ inpos = 0 /\ eierr = FALSE /\ eoerr = FALSE
  /\ ilen = 0 /\ encpos = 0 /\ level = userLevel
  /\ chunk = NoChunk /\ eoff = 0
  /\ file = <<>> /\ ecalls = <<>>
  /\ eret = "none" /\ epc = "start"

(* OnInit; then the buffers are allocated, or bad_alloc is thrown. *)
StartEncode ==
  /\ epc = "start"
  /\ ecalls' = <<OnInit>>
  /\ \/ epc' = "block" /\ UNCHANGED eret
     \/ epc' = "end" /\ eret' = "thrown"
  /\ UNCHANGED <<inSize, userLevel, inpos, eierr, eoerr, ilen, encpos, level, chunk, eoff, file>>

(* while (!IsEnd() && !IsErr()) *)
BeginBlock ==
  /\ epc = "block"
  /\ \E ends \in BOOLEAN :
       /\ TestEnd(inpos = inSize, eierr, ends, eierr')
       /\ IF ends \/ eierr' THEN epc' = "return" /\ UNCHANGED <<ilen, encpos>>
          ELSE epc' = "read" /\ ilen' = 0 /\ encpos' = 0
  /\ UNCHANGED <<inSize, userLevel, inpos, eoerr, level, chunk, eoff, file, ecalls, eret>>

(* The loop that fills a block: its test, and one call of GetData.  The      *)
(* first test finds the byte that the one of BeginBlock has put back.        *)
TestRead ==
  /\ epc = "read"
  /\ \E ends \in BOOLEAN :
       /\ TestEnd(inpos = inSize, eierr, ends, eierr')
       /\ ilen = 0 => ~ends
       /\ epc' = IF ends \/ eierr' \/ ilen >= BlockSizeIn THEN "chunk" ELSE "get"
  /\ UNCHANGED <<inSize, userLevel, inpos, eoerr, ilen, encpos, level, chunk, eoff, file, ecalls, eret>>

GetData ==
  /\ epc = "get"
  /\ \E n \in 1 .. BlockSizeIn - ilen :
       /\ inpos + n <= inSize
       /\ inpos' = inpos + n
       /\ ilen' = ilen + n
  /\ \/ epc' = "read" /\ UNCHANGED eierr
     \/ epc' = "return" /\ eierr' = TRUE
  /\ UNCHANGED <<inSize, userLevel, eoerr, encpos, level, chunk, eoff, file, ecalls, eret>>

(* PutChar, PutUInt32 or PutData with CHECK_IO_ERROR after it: all of the    *)
(* units are written, or an error keeps some of them back.                   *)
Put(units, next) ==
  \/ /\ file' = file \o units
     /\ epc' = next
     /\ UNCHANGED eoerr
  \/ /\ \E k \in 0 .. Len(units) - 1 : file' = file \o SubSeq(units, 1, k)
     /\ epc' = "return"
     /\ eoerr' = TRUE

PutContinue ==
  /\ epc = "chunk" /\ encpos < ilen
  /\ Put(<<Continue>>, "encode")
  /\ UNCHANGED <<inSize, userLevel, inpos, eierr, ilen, encpos, level, chunk, eoff, ecalls, eret>>

(* Fault, for mutation: a chunk starts over at its block's first byte. *)
ChunkStartOfBlock == inpos - ilen

(* The input byte before the next chunk. *)
ChunkStart == inpos - ilen + encpos

(* Fault, for mutation: the level never changes. *)
NextLevelSame(olen, n) == userLevel

(* The next chunk is coded at the lowest level if this one, olen bytes for   *)
(* n of the input, was hardly shrunk: 1.0 * olen / (n + 1) > 0.95.           *)
NextLevel(olen, n) == IF 100 * olen > 95 * (n + 1) THEN 0 ELSE userLevel

(* ROLZ and Huffman coding of the next chunk.  At a level it does not know   *)
(* the encoder leaves encpos alone and returns -1; the "chunk" is then just  *)
(* the two length tables, which every chunk has.                             *)
EncodeChunk ==
  /\ epc = "encode"
  /\ \E n \in 0 .. ilen - encpos, rlen \in -1 .. BlockSizeRolz,
        olen \in DistanceByte .. BlockSizeHuffman :
       /\ IF level \in KnownLevels THEN 1 <= rlen /\ rlen <= n ELSE n = 0 /\ rlen = -1
       /\ chunk' = [from |-> ChunkStart, to |-> ChunkStart + n, rlen |-> rlen, olen |-> olen]
       /\ encpos' = encpos + n
       /\ level' = NextLevel(olen, n)
  /\ eoff' = 0
  /\ epc' = "header"
  /\ UNCHANGED <<inSize, userLevel, inpos, eierr, eoerr, ilen, file, ecalls, eret>>

(* No memory for a node of a Huffman tree: bad_alloc leaves Encode. *)
ThrowInChunk ==
  /\ epc = "encode"
  /\ epc' = "end" /\ eret' = "thrown"
  /\ UNCHANGED <<inSize, userLevel, inpos, eierr, eoerr, ilen, encpos, level, chunk, eoff,
                 file, ecalls>>

(* Fault, for mutation: two numbers of the header change places. *)
HeaderSwapped ==
  <<Number("rlen", chunk.rlen), Number("encpos", encpos), Number("olen", chunk.olen)>>

Header == <<Number("encpos", encpos), Number("rlen", chunk.rlen), Number("olen", chunk.olen)>>

PutHeader ==
  /\ epc = "header"
  /\ Put(Header, "data")
  /\ UNCHANGED <<inSize, userLevel, inpos, eierr, ilen, encpos, level, chunk, eoff, ecalls, eret>>

(* One round of the loop that writes the data, and the end of that loop. *)
PutPieces ==
  /\ epc = "data" /\ eoff < chunk.olen
  /\ \E n \in 1 .. chunk.olen - eoff :
       /\ eoff' = eoff + n
       /\ Put([k \in 1 .. n |-> Piece(chunk.from, chunk.to)],
              IF eoff + n < chunk.olen THEN "data" ELSE "chunk")
  /\ UNCHANGED <<inSize, userLevel, inpos, eierr, ilen, encpos, level, chunk, ecalls, eret>>

PutStop ==
  /\ epc = "chunk" /\ encpos >= ilen
  /\ Put(<<Stop>>, "process")
  /\ UNCHANGED <<inSize, userLevel, inpos, eierr, ilen, encpos, level, chunk, eoff, ecalls, eret>>

ProcessEncoded ==
  /\ epc = "process"
  /\ ecalls' = Append(ecalls, OnProcess(ilen))
  /\ epc' = "block"
  /\ UNCHANGED <<inSize, userLevel, inpos, eierr, eoerr, ilen, encpos, level, chunk, eoff, file, eret>>

(* Fault, for mutation: the handler does not hear of the end after an error. *)
DoneUnlessError(calls, err) == IF err THEN calls ELSE Append(calls, OnDone)

(* The handler is told of the end, error or not. *)
Done(calls, err) == Append(calls, OnDone)

(* EncodeOrDecodeFinished: OnDone, and the result. *)
ReturnEncode ==
  /\ epc = "return"
  /\ ecalls' = Done(ecalls, eierr \/ eoerr)
  /\ eret' = IF eierr \/ eoerr THEN "error" ELSE "ok"
  /\ epc' = "end"
  /\ UNCHANGED <<inSize, userLevel, inpos, eierr, eoerr, ilen, encpos, level, chunk, eoff, file>>

EncodeNext ==
  \/ StartEncode \/ BeginBlock \/ TestRead \/ GetData \/ PutContinue \/ EncodeChunk \/ ThrowInChunk
  \/ PutHeader \/ PutPieces \/ PutStop \/ ProcessEncoded \/ ReturnEncode
=============================================================================
