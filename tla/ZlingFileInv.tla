---------------------------- MODULE ZlingFileInv ----------------------------
(***************************************************************************)
(* The invariants of ZlingFile from which its properties follow: FileInv,  *)
(* the shape of a stream, which is kept by whatever cuts it short, and     *)
(* where in such a stream Encode and Decode stand; and those that need it, *)
(* on the order of the data, empty chunks, wrong bytes and the calls on    *)
(* the action handler.                                                     *)
(***************************************************************************)
EXTENDS ZlingFile

Unit ==
  [kind : {"flag", "encpos", "rlen", "olen"}, v : 0 .. IntRange - 1]
    \cup [kind : {"data"}, from : Nat, to : Nat]

(***************************************************************************)
(* The shape of a stream f.                                                *)
(***************************************************************************)

(* The first n units end a block, or are none; c bytes of the input are      *)
(* coded in them.                                                            *)
AtBlock(f, n, c) ==
  \/ n = 0 /\ c = 0
  \/ n >= 2 /\ f[n] = Stop /\ f[n - 1].kind = "data" /\ f[n - 1].to = c

(* The first n units end a chunk, the last e bytes of whose c bytes are of   *)
(* a block that goes on.                                                     *)
AtChunk(f, n, c, e) ==
  \E p \in 3 .. n - 1 :
    /\ f[p].kind = "olen" /\ p + f[p].v = n /\ f[p - 2].v = e
    /\ f[n].kind = "data" /\ f[n].to = c

AtFlag(f, n, c, e) == (AtBlock(f, n, c) /\ e = 0) \/ AtChunk(f, n, c, e)

IsFlag(u) == u \in {Continue, Stop}

HeaderKind == <<"encpos", "rlen", "olen">>

(* A stop flag ends a block that is not empty, but for the last one. *)
StopOK(f, j) ==
  f[j] = Stop /\ j < Len(f) => IsFlag(f[j + 1]) /\ j >= 2 /\ f[j - 1].kind = "data"

ContinueOK(f, j) ==
  f[j] = Continue => \A k \in 1 .. 3 : j + k <= Len(f) => f[j + k].kind = HeaderKind[k]

NumberOK(f, j) ==
  /\ f[j].kind = "encpos" => f[j].v \in 0 .. BlockSizeIn
  /\ f[j].kind = "rlen" => Signed(f[j].v) \in -1 .. BlockSizeRolz
  /\ f[j].kind = "olen" => f[j].v \in DistanceByte .. BlockSizeHuffman /\ j >= 4 /\ f[j - 3] = Continue

(* As many pieces of data as the header says, all of one chunk. *)
DataOK(f, j) ==
  f[j].kind = "olen" =>
    /\ \A i \in 1 .. f[j].v : j + i <= Len(f) => f[j + i].kind = "data" /\ f[j + i] = f[j + 1]
    /\ j + f[j].v + 1 <= Len(f) => IsFlag(f[j + f[j].v + 1])

(* A chunk goes on in the input where the stream before it ends, and its     *)
(* encpos counts from the beginning of the block.                            *)
ChainOK(f, j, size) ==
  f[j] = Continue /\ j + 4 <= Len(f) =>
    /\ f[j + 4].from <= f[j + 4].to /\ f[j + 4].to <= size
    /\ Signed(f[j + 2].v) <= 0 => f[j + 4].from = f[j + 4].to
    /\ AtFlag(f, j - 1, f[j + 4].from, f[j + 1].v - (f[j + 4].to - f[j + 4].from))

StreamOK(f, size) ==
  /\ f \in Seq(Unit)
  /\ Len(f) > 0 => IsFlag(f[1])
  /\ \A j \in 1 .. Len(f) :
       StopOK(f, j) /\ ContinueOK(f, j) /\ NumberOK(f, j) /\ DataOK(f, j) /\ ChainOK(f, j, size)

(* In the first n units no chunk is cut short. *)
Complete(f, n) ==
  \A j \in 1 .. n :
    (f[j] = Continue => j + 3 <= n) /\ (f[j].kind = "olen" => j + f[j].v <= n)

(***************************************************************************)
(* Encode.                                                                 *)
(***************************************************************************)
EncTypes ==
  /\ inSize \in Nat /\ userLevel \in Int /\ level \in Int
  /\ inpos \in 0 .. inSize /\ eierr \in BOOLEAN /\ eoerr \in BOOLEAN
  /\ ilen \in 0 .. BlockSizeIn /\ ilen <= inpos /\ encpos \in 0 .. ilen /\ eoff \in Nat
  /\ chunk \in [from : Nat, to : Nat, rlen : Int, olen : Int]
  /\ epc \in {"start", "block", "read", "get", "chunk", "encode", "header", "data",
              "process", "return", "end"}
  /\ eret \in {"none", "ok", "error", "thrown"} /\ lost \in BOOLEAN
  /\ eret # "none" => epc = "end"

(* Bytes of the input coded so far. *)
CodedBytes == inpos - ilen + encpos

ChunkOK ==
  /\ ilen > 0
  /\ chunk.from <= chunk.to /\ chunk.to = CodedBytes /\ chunk.to - chunk.from <= encpos
  /\ chunk.rlen \in -1 .. BlockSizeRolz /\ chunk.olen \in DistanceByte .. BlockSizeHuffman
  /\ chunk.rlen <= 0 => chunk.from = chunk.to

(* The first n units come before the chunk just coded. *)
BeforeChunk(n) ==
  /\ Complete(file, n) /\ n \in Nat /\ n < Len(file) /\ file[n + 1] = Continue
  /\ AtFlag(file, n, chunk.from, encpos - (chunk.to - chunk.from))

(* Header and some of the data of that chunk end the stream. *)
InData ==
  LET n == Len(file) - eoff - 4
  IN  /\ BeforeChunk(n)
      /\ file[n + 2] = Number("encpos", encpos)
      /\ file[n + 3] = Number("rlen", chunk.rlen)
      /\ file[n + 4] = Number("olen", chunk.olen)
      /\ \A i \in 1 .. eoff : file[n + 4 + i] = Piece(chunk.from, chunk.to)
      /\ eoff < chunk.olen

EncPlace ==
  /\ epc = "start" => file = <<>> /\ inpos = 0 /\ ~eierr
  /\ epc \in {"block", "process"} =>
       Complete(file, Len(file)) /\ (eierr \/ AtBlock(file, Len(file), inpos))
  /\ epc \in {"read", "get", "chunk"} =>
       Complete(file, Len(file)) /\ AtFlag(file, Len(file), CodedBytes, encpos)
  /\ epc \in {"read", "get"} => encpos = 0 /\ (ilen = 0 => inpos < inSize)
  /\ epc = "chunk" => eierr \/ ilen > 0
  /\ epc = "encode" =>
       /\ encpos < ilen /\ Len(file) > 0 /\ file[Len(file)] = Continue
       /\ Complete(file, Len(file) - 1) /\ AtFlag(file, Len(file) - 1, CodedBytes, encpos)
  /\ epc = "header" => ChunkOK /\ BeforeChunk(Len(file) - 1) /\ eoff = 0
  /\ epc = "data" => ChunkOK /\ InData
  /\ epc = "return" /\ ~eierr /\ ~eoerr =>
       Complete(file, Len(file)) /\ AtBlock(file, Len(file), inSize)

(* Nothing has been lost of what Encode wrote when it returned 0. *)
Perfect == eret = "ok" /\ ~lost

EncInv ==
  /\ EncTypes /\ EncPlace /\ StreamOK(file, inSize)
  /\ Perfect => Complete(file, Len(file)) /\ AtBlock(file, Len(file), inSize)
  /\ epc # "end" => ~lost

(***************************************************************************)
(* Decode.                                                                 *)
(***************************************************************************)
DecTypes ==
  /\ dpos \in 0 .. Len(file) /\ dierr \in BOOLEAN /\ doerr \in BOOLEAN
  /\ block \in Seq(Nat) /\ out \in Seq(Nat) /\ ooff \in Nat /\ filled \in Nat
  /\ cur \in [encpos : Int, rlen : Int, olen : Int, from : Nat, to : Nat, got : Nat, whole : BOOLEAN]
  /\ dpc \in {"start", "block", "first", "flag", "header", "data", "more", "decode", "output",
              "return", "end", "astray"}
  /\ dret \in {"none", "ok", "error", "thrown"}
  /\ dpc # "end" => dret = "none"
  /\ dret = "ok" => ~dierr /\ ~doerr
  /\ dpc = "output" => ooff <= Len(block)
  /\ dpc = "start" => dpos = 0 /\ out = <<>> /\ ~dierr

(* The header of cur has been read, and some of its data. *)
HeaderRead ==
  LET p == dpos - cur.got
  IN  /\ p >= 4 /\ file[p - 3] = Continue
      /\ cur.encpos = file[p - 2].v /\ cur.rlen = Signed(file[p - 1].v)
      /\ file[p].kind = "olen" /\ cur.olen = file[p].v
      /\ cur.got <= cur.olen
      /\ cur.got > 0 => cur.from = file[dpos].from /\ cur.to = file[dpos].to
      /\ cur.whole = (cur.got = cur.olen)

(* Decode reads units as what they are, until it meets a read error; if the  *)
(* stream ends too early it has come to its end.                             *)
DecPlace ==
  /\ dpc \in {"block", "first", "flag", "output"} =>
       dierr \/ dpos = Len(file) \/ IsFlag(file[dpos + 1])
  /\ dpc = "first" => dpos < Len(file) /\ block = <<>>
  /\ dpc = "header" => dpos >= 1 /\ (dierr \/ file[dpos] = Continue)
  /\ dpc \in {"data", "more", "decode"} => HeaderRead \/ (dpos = Len(file) /\ dpc # "more")
  /\ dpc \in {"data", "more"} => ~dierr
  /\ dpc = "more" => dpos < Len(file) /\ cur.got < cur.olen
  /\ dpc = "decode" => dierr \/ dpos = Len(file) \/ cur.got >= cur.olen

(* Where the block being decoded goes on. *)
InBlock(n) ==
  /\ AtFlag(file, n, Len(out) + Len(block), Len(block))
  /\ \A i \in 1 .. Len(block) : block[i] = Len(out) + i

(* Nothing has gone wrong that Decode could have met: what it has read of    *)
(* the stream so far is as Encode left it, and not cut.                      *)
Sound == ~dierr /\ (Perfect \/ dpos < Len(file))

(* What has then been decoded.                                               *)
DecTrip ==
  /\ Len(out) <= inSize /\ \A i \in 1 .. Len(out) : out[i] = i
  /\ dpc = "block" => AtBlock(file, dpos, Len(out))
  /\ dpc \in {"first", "flag"} => dpos < Len(file) /\ InBlock(dpos)
  /\ dpc = "header" => InBlock(dpos - 1)
  /\ dpc \in {"data", "more", "decode"} => HeaderRead /\ InBlock(dpos - cur.got - 4)
  /\ dpc = "output" =>
       /\ ooff <= Len(out)
       /\ \A i \in 1 .. Len(block) : block[i] = Len(out) - ooff + i
       /\ AtBlock(file, dpos, Len(out) - ooff + Len(block))
       /\ Len(out) - ooff + Len(block) <= inSize
  /\ dpc = "return" => doerr \/ Len(out) = inSize
  /\ dpc = "end" /\ dret = "ok" => Len(out) = inSize
  /\ dpc = "end" /\ dret = "thrown" => dpos = 0
  /\ dpc # "astray"

DecInv ==
  /\ DecTypes /\ DecPlace
  /\ epc # "end" => dpc = "start"
  /\ Sound => DecTrip

FileInv == EncInv /\ DecInv

(***************************************************************************)
(* The order of the data, and the chunks that are empty.                   *)
(***************************************************************************)

(* The data at j begin the input, or go on from the data before them. *)
GoesOn(f, j) ==
  \/ f[j].from = 0 /\ \A i \in 1 .. j - 1 : f[i].kind # "data"
  \/ \E i \in 1 .. j - 1 :
       NextOfKind(f, "data", i, j) /\ (f[j] = f[i] \/ f[j].from = f[i].to)

Ordered(f, c) == \A j \in 1 .. Len(f) : f[j].kind = "data" => f[j].to <= c /\ GoesOn(f, j)

IsEmptySize(u) == u.kind = "rlen" /\ Signed(u.v) = -1

(* The last chunk of a stream is an empty one. *)
LastEmpty(f) ==
  \E i \in 1 .. Len(f) : IsEmptySize(f[i]) /\ \A k \in i + 1 .. Len(f) : f[k].kind # "rlen"

NoTwoEmpty(f) ==
  \A i \in 1 .. Len(f) : IsEmptySize(f[i]) =>
    \A j \in i + 1 .. Len(f) : NextOfKind(f, "rlen", i, j) => Signed(f[j].v) # -1

(* After an empty chunk the level is one that the encoder knows. *)
LevelInv ==
  /\ NoTwoEmpty(file)
  /\ epc \notin {"header", "return", "end"} /\ LastEmpty(file) => level = 0
  /\ epc = "header" /\ chunk.rlen = -1 => level = 0 /\ ~LastEmpty(file)

(***************************************************************************)
(* The bytes that are wrong.                                               *)
(***************************************************************************)
Spoiled == {i \in 1 .. Len(out) : out[i] # i}

(* Once one has been written no chunk is decoded any more, so that the       *)
(* blocks that follow are empty.                                             *)
SpoiledLast ==
  \A i \in Spoiled :
    /\ dpc \notin {"data", "more", "decode", "astray"}
    /\ dpc \in {"first", "flag", "header"} => dierr /\ block = <<>>
    /\ dpc = "block" => dierr \/ dpos = Len(file)
    /\ dpc = "output" => (dierr \/ dpos = Len(file)) /\ (Len(out) - ooff < i \/ block = <<>>)
    /\ \A k \in 1 .. Len(dcalls) :
         dcalls[k].call = "process" /\ dcalls[k].size > 0 => Told(dcalls)[k - 1] < i

(***************************************************************************)
(* What has been read into the buffer when a chunk is decoded.             *)
(***************************************************************************)

(* As long as the byte on distance 0 has not been read, Decode stands in the *)
(* first chunk, or reads no other.                                           *)
FirstChunk ==
  /\ dpc \in {"start", "block", "first", "flag", "output"} =>
       dierr \/ dpos = Len(file) \/ dpos = 0
  /\ dpc = "header" => dierr \/ dpos = 1
  /\ dpc \in {"data", "more", "decode"} => dpos <= 4 + cur.got

StrayInv ==
  /\ dpc \in {"data", "more", "decode"} => cur.got <= filled
  /\ MaySpin => FirstChunk
  /\ dpc \in {"data", "more", "decode"} /\ MayWriteBehind =>
       dpos = Len(file) /\ file[dpos] = Continue

(***************************************************************************)
(* The calls on the action handler.                                        *)
(***************************************************************************)
Call == [call : {"init", "process", "done"}, size : Nat]

(* A solution of the equation that defines Told(calls). *)
IsTold(t, calls) ==
  t = [k \in 0 .. Len(calls) |-> IF k = 0 THEN 0 ELSE t[k - 1] + calls[k].size]

(* There is one, and one only. *)
Counted(calls) ==
  /\ IsTold(Told(calls), calls) /\ \A t : IsTold(t, calls) => t = Told(calls)
  /\ \A k \in 0 .. Len(calls) :
       Told(calls)[k] \in Nat /\ Told(calls)[k] <= Told(calls)[Len(calls)]

(* OnInit is the first call, OnDone the last one. *)
Heard(calls, ret, started) ==
  /\ calls \in Seq(Call) /\ Counted(calls)
  /\ IF started THEN Len(calls) > 0 /\ calls[1] = OnInit ELSE calls = <<>>
  /\ \A k \in 2 .. Len(calls) : calls[k] # OnInit
  /\ \A k \in 1 .. Len(calls) - 1 : calls[k] # OnDone
  /\ ret \in {"ok", "error"} <=> Len(calls) > 0 /\ calls[Len(calls)] = OnDone

(* What the handler has heard of is what is coded of the input, *)
EncHeard ==
  LET total == Told(ecalls)[Len(ecalls)]
  IN  /\ Heard(ecalls, eret, epc # "start")
      /\ total <= inpos
      /\ epc \in {"start", "block"} => total = inpos
      /\ epc \in {"read", "get", "chunk", "encode", "header", "data", "process"} =>
           total = inpos - ilen
      /\ epc = "return" /\ ~eierr /\ ~eoerr => total = inpos
      /\ eret = "ok" => total = inpos

(* and what is written of the output. *)
DecHeard ==
  LET total == Told(dcalls)[Len(dcalls)]
  IN  /\ Heard(dcalls, dret, dpc # "start")
      /\ total <= Len(out)
      /\ dpc \in {"start", "block", "first", "flag", "header", "data", "more", "decode"} =>
           total = Len(out)
      /\ dpc = "output" => total = Len(out) - ooff
      /\ dpc = "return" /\ ~dierr /\ ~doerr => total = Len(out)
      /\ dret = "ok" => total = Len(out)
=============================================================================
