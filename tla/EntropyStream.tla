--------------------------- MODULE EntropyStream ---------------------------
(***************************************************************************)
(* How libzling.cpp carries a token buffer through bytes: both ends of the *)
(* Huffman coding of one chunk.  The encoder packs two tables of code      *)
(* lengths, then shifts the codes of the tokens through a 64-bit buffer    *)
(* into bytes; the decoder unpacks the tables and shifts the bytes back,   *)
(* fetching some beyond the last that was written.  Length tables are any  *)
(* that are Admissible, which is what HuffmanLengths shows of them.        *)
(* A code, the codebuf and a byte of the stream are kept as sequences of   *)
(* bits, lowest bit first.                                                 *)
(***************************************************************************)
EXTENDS HuffmanTables, Sequences

CONSTANTS
  FirstMatch,    (* 258: the first code that stands for a match            *)
  NumCodes1,     (* kHuffmanCodes1: codes of literals, words and lengths   *)
  MaxLen1,       (* kHuffmanMaxLen1                                        *)
  FastLen1,      (* kHuffmanMaxLen1Fast                                    *)
  NumCodes2,     (* kHuffmanCodes2: codes of distances                     *)
  MaxLen2,       (* kHuffmanMaxLen2                                        *)
  matchidx_blen, (* tables/gen.py: extra bits of each code of distances    *)
  ByteBits,      (* 8                                                      *)
  FetchBytes,    (* 4: bytes put out, or fetched, at a time                *)
  CodebufBits,   (* 64: the width of m_buf                                 *)
  TokenBuffers,  (* the token buffers to be coded                          *)
  StaleBytes     (* what the bytes of obuf behind those written may hold   *)

Code1 == 0 .. NumCodes1 - 1
Code2 == 0 .. NumCodes2 - 1

ASSUME EntropyAssumption ==
  /\ NumCodes1 \in 1 .. NoSymbol /\ NumCodes1 % 2 = 0 /\ MaxLen1 \in 1 .. CodeWidth - 1
  /\ NumCodes2 \in 1 .. NoSymbol /\ NumCodes2 % 2 = 0 /\ MaxLen2 \in 1 .. CodeWidth - 1
  /\ FirstMatch \in Nat /\ FastLen1 \in 1 .. MaxLen1
  /\ matchidx_blen \in [Code2 -> Nat]
  /\ ByteBits \in Nat \ {0} /\ FetchBytes \in Nat \ {0} /\ CodebufBits \in Nat
  /\ \A c \in Code2 : MaxLen1 + MaxLen2 + matchidx_blen[c] <= FetchBytes * ByteBits
  /\ 2 * FetchBytes * ByteBits <= CodebufBits

VARIABLES
  tbuf,       (* the tokens to be coded                                     *)
  length1,    (* length_table1 of the encoder                               *)
  length2,    (* length_table2 of the encoder                               *)
  codes,      (* encode_table1 and encode_table2 of the encoder             *)
  packed,     (* the head of obuf: both length tables                       *)
  obuf,       (* the rest of obuf, as far as written                        *)
  stale,      (* what obuf holds behind it                                  *)
  enc,        (* codebuf of the encoder                                     *)
  ei,         (* entries of tbuf coded                                      *)
  tables,     (* the decoder's length and decode tables                     *)
  dec,        (* codebuf of the decoder                                     *)
  di,         (* bytes of obuf fetched                                      *)
  dbuf,       (* tokens decoded                                             *)
  pc          (* where the coding stands                                    *)

inputVars == <<tbuf, length1, length2, stale>>
encVars == <<codes, packed, obuf, enc, ei>>
decVars == <<tables, dec, di, dbuf>>
vars == <<inputVars, encVars, decVars, pc>>

Bits(n) == [1 .. n -> {0, 1}]
Byte == Bits(ByteBits)

(* As many bytes as FetchBounded lets the decoder come upon; if it went on   *)
(* it would find the same again.                                             *)
Behind == 1 .. 2 * FetchBytes
ByteBehind(old, k) == old[(k % (2 * FetchBytes)) + 1]

ASSUME StaleAssumption == StaleBytes \subseteq [Behind -> Byte]

(* The lowest n bits of a number, and the number that n bits stand for. *)
ToBits(x, n) == [i \in 1 .. n |-> Bit(x, i - 1)]
FromBits(b, n) ==
  LET x[k \in 0 .. n] == IF k = 0 THEN 0 ELSE 2 * x[k - 1] + b[n - k + 1]
  IN  x[n]

(***************************************************************************)
(* ZlingCodebuf: m_buf, whose bits from m_len up are zero, and m_len.      *)
(***************************************************************************)
NoBits == [buf |-> <<>>, len |-> 0]

(* Input: bits that do not fit are lost. *)
Input(cb, bits) ==
  LET all == cb.buf \o bits
  IN  [buf |-> SubSeq(all, 1, IF Len(all) < CodebufBits THEN Len(all) ELSE CodebufBits),
       len |-> cb.len + Len(bits)]

(* Peek, padded with zeros, and Output, which may leave m_len negative. *)
Peek(cb, n) == [i \in 1 .. n |-> IF i <= Len(cb.buf) THEN cb.buf[i] ELSE 0]
Output(cb, n) == [buf |-> SubSeq(cb.buf, n + 1, Len(cb.buf)), len |-> cb.len - n]

(***************************************************************************)
(* matchidx_base and matchidx_code, as gen.py makes them of matchidx_blen. *)
(***************************************************************************)
matchidx_base ==
  LET base[c \in Code2] == IF c = 0 THEN 0 ELSE base[c - 1] + 2 ^ matchidx_blen[c - 1]
  IN  base
CodeOfDistance(d) ==
  CHOOSE c \in Code2 : d \in matchidx_base[c] .. matchidx_base[c] + 2 ^ matchidx_blen[c] - 1
BucketItemSize == matchidx_base[NumCodes2 - 1] + 2 ^ matchidx_blen[NumCodes2 - 1]

(* Where the tokens of a token buffer begin: a match has a second entry. *)
Heads(t) ==
  LET head[i \in 1 .. Len(t)] == i = 1 \/ ~(head[i - 1] /\ t[i - 1] >= FirstMatch)
  IN  {i \in 1 .. Len(t) : head[i]}
Matches(t) == {i \in Heads(t) : t[i] >= FirstMatch}

(* What ZlingRolzEncoder fills the token buffer with (TokensInRange): codes,  *)
(* and behind the code of a match its distance.                              *)
ASSUME TokensAssumption ==
  \A t \in TokenBuffers :
    /\ t \in Seq(Nat)
    /\ \A i \in Heads(t) : t[i] \in Code1
    /\ \A i \in Matches(t) : i < Len(t) /\ t[i + 1] \in 0 .. BucketItemSize - 1

(* freq_table1 and freq_table2. *)
Freq1(t) == [s \in Code1 |-> Cardinality({i \in Heads(t) : t[i] = s})]
Freq2(t) == [c \in Code2 |-> Cardinality({i \in Matches(t) : CodeOfDistance(t[i + 1]) = c})]

(* Fault, for mutation: each code length takes a byte. *)
PackLoosely(length) == [k \in 1 .. Cardinality(DOMAIN length) |-> length[k - 1] * 16]

(* Two code lengths to a byte. *)
Pack(length) ==
  [k \in 1 .. Cardinality(DOMAIN length) \div 2 |->
     (length[2 * k - 2] * 16 + length[2 * k - 1]) % 256]

Unpack(bytes) ==
  [s \in 0 .. 2 * Len(bytes) - 1 |->
     IF s % 2 = 0 THEN bytes[s \div 2 + 1] \div 16 ELSE bytes[s \div 2 + 1] % 16]

RefillBits == FetchBytes * ByteBits

(* Fault, for mutation: the encoder lets more than half the codebuf fill up. *)
MustDrainLate(cb) == cb.len > RefillBits + 4

MustDrain(cb) == cb.len >= RefillBits

(* Fault, for mutation: the decoder fills its codebuf to the brim. *)
MustFetchEager(cb) == cb.len < CodebufBits

MustFetch(cb) == cb.len < RefillBits

(* The next k bytes out of a codebuf, and what remains. *)
BytesOut(cb, k) == [j \in 1 .. k |-> Peek(Output(cb, (j - 1) * ByteBits), ByteBits)]

(* What the encoder puts in for the token at entry i. *)
TokenBits(i) ==
  LET v == tbuf[i]
      c == CodeOfDistance(tbuf[i + 1])
      code1 == ToBits(codes.encode1[v], length1[v])
  IN  IF v < FirstMatch THEN code1
      ELSE code1 \o ToBits(codes.encode2[c], length2[c])
                 \o ToBits(tbuf[i + 1] - matchidx_base[c], matchidx_blen[c])

(* The bytes from di on, those behind the end included. *)
BytesAt(k) ==
  [j \in 1 .. k |->
     IF di + j <= Len(obuf) THEN obuf[di + j] ELSE ByteBehind(stale, di + j - Len(obuf) - 1)]

Flat(bytes) ==
  [j \in 1 .. Len(bytes) * ByteBits |-> bytes[((j - 1) \div ByteBits) + 1][((j - 1) % ByteBits) + 1]]

(* The tables the decoder makes of the length tables it reads. *)
DecoderTables(len1, len2) ==
  LET encode1 == EncodeTable(len1, MaxLen1)
  IN  [length1 |-> len1,
       length2 |-> len2,
       fast1   |-> DecodeTable(len1, encode1, FastLen1),
       decode1 |-> DecodeTable(len1, encode1, MaxLen1),
       decode2 |-> DecodeTable(len2, EncodeTable(len2, MaxLen2), MaxLen2)]

NoTables == DecoderTables([s \in Code1 |-> 0], [c \in Code2 |-> 0])

(* Fault, for mutation: an empty entry of the fast table is taken as it is. *)
LookUp1FastOnly(cb) == tables.fast1[FromBits(Peek(cb, FastLen1), FastLen1)]

(* decode_table1_fast, and decode_table1 where that is empty. *)
LookUp1(cb) ==
  LET entry == tables.fast1[FromBits(Peek(cb, FastLen1), FastLen1)]
  IN  IF entry # NoSymbol THEN entry ELSE tables.decode1[FromBits(Peek(cb, MaxLen1), MaxLen1)]

LookUp2(cb) == tables.decode2[FromBits(Peek(cb, MaxLen2), MaxLen2)]
-----------------------------------------------------------------------------
Init ==
  /\ tbuf \in TokenBuffers
  /\ length1 = [s \in Code1 |-> 0] /\ length2 = [c \in Code2 |-> 0]
  /\ stale \in StaleBytes
  /\ codes = [encode1 |-> [s \in Code1 |-> 0], encode2 |-> [c \in Code2 |-> 0]]
  /\ packed = <<>> /\ obuf = <<>> /\ enc = NoBits /\ ei = 0
  /\ tables = NoTables /\ dec = NoBits /\ di = 0 /\ dbuf = <<>>
  /\ pc = "lengths"

(* ZlingMakeLengthTable, twice; ChunkCoding says how. *)
MakeLengths ==
  /\ pc = "lengths" /\ pc' = "pack"
  /\ length1' \in {l \in [Code1 -> 0 .. MaxLen1] : Admissible(Freq1(tbuf), l, MaxLen1)}
  /\ length2' \in {l \in [Code2 -> 0 .. MaxLen2] : Admissible(Freq2(tbuf), l, MaxLen2)}
  /\ UNCHANGED <<tbuf, stale, encVars, decVars>>

(* The encoder's code tables, and the length tables as they are written. *)
PackTables ==
  /\ pc = "pack"
  /\ codes' = [encode1 |-> EncodeTable(length1, MaxLen1), encode2 |-> EncodeTable(length2, MaxLen2)]
  /\ packed' = Pack(length1) \o Pack(length2)
  /\ pc' = "put"
  /\ UNCHANGED <<inputVars, obuf, enc, ei, decVars>>

PutToken ==
  /\ pc = "put" /\ ei < Len(tbuf)
  /\ enc' = Input(enc, TokenBits(ei + 1))
  /\ ei' = IF tbuf[ei + 1] < FirstMatch THEN ei + 1 ELSE ei + 2
  /\ pc' = "drain"
  /\ UNCHANGED <<inputVars, codes, packed, obuf, decVars>>

(* Four bytes go out when the codebuf holds as many, none when not. *)
Drain ==
  /\ pc = "drain"
  /\ IF MustDrain(enc)
     THEN obuf' = obuf \o BytesOut(enc, FetchBytes) /\ enc' = Output(enc, RefillBits)
     ELSE UNCHANGED <<obuf, enc>>
  /\ pc' = "put"
  /\ UNCHANGED <<inputVars, codes, packed, ei, decVars>>

(* What is left goes out, the last byte filled up with zeros. *)
Flush ==
  /\ pc = "put" /\ ei = Len(tbuf) /\ enc.len > 0
  /\ obuf' = obuf \o BytesOut(enc, 1)
  /\ enc' = Output(enc, ByteBits)
  /\ UNCHANGED <<inputVars, codes, packed, ei, decVars, pc>>

EndPut ==
  /\ pc = "put" /\ ei = Len(tbuf) /\ enc.len <= 0
  /\ pc' = "unpack"
  /\ UNCHANGED <<inputVars, encVars, decVars>>

UnpackTables ==
  /\ pc = "unpack"
  /\ tables' = DecoderTables(Unpack(SubSeq(packed, 1, NumCodes1 \div 2)),
                             Unpack(SubSeq(packed, NumCodes1 \div 2 + 1, Len(packed))))
  /\ pc' = "get"
  /\ UNCHANGED <<inputVars, encVars, dec, di, dbuf>>

(* Before each token the decoder sees to it that it has enough bits. *)
Fetch ==
  /\ pc = "get" /\ Len(dbuf) < Len(tbuf)
  /\ IF MustFetch(dec)
     THEN dec' = Input(dec, Flat(BytesAt(FetchBytes))) /\ di' = di + FetchBytes
     ELSE UNCHANGED <<dec, di>>
  /\ pc' = "look"
  /\ UNCHANGED <<inputVars, encVars, tables, dbuf>>

GetLiteral ==
  /\ pc = "look"
  /\ LET v == LookUp1(dec)
     IN  /\ v < FirstMatch
         /\ dbuf' = Append(dbuf, v)
         /\ dec' = Output(dec, tables.length1[v])
  /\ pc' = "get"
  /\ UNCHANGED <<inputVars, encVars, tables, di>>

(* A match: its length, the code of its distance and the extra bits.  No     *)
(* such code, or a distance the bucket does not have, and Decode throws.     *)
GetMatch ==
  /\ pc = "look"
  /\ LET v == LookUp1(dec)
         dec1 == Output(dec, tables.length1[v])
         c == LookUp2(dec1)
         dec2 == Output(dec1, tables.length2[c])
         d == matchidx_base[c] + FromBits(Peek(dec2, matchidx_blen[c]), matchidx_blen[c])
     IN  /\ v >= FirstMatch
         /\ IF v >= NumCodes1 \/ c >= NumCodes2 \/ d >= BucketItemSize
            THEN pc' = "failed" /\ UNCHANGED <<dbuf, dec>>
            ELSE /\ pc' = "get"
                 /\ dbuf' = dbuf \o <<v, d>>
                 /\ dec' = Output(dec2, matchidx_blen[c])
  /\ UNCHANGED <<inputVars, encVars, tables, di>>

EndGet ==
  /\ pc = "get" /\ Len(dbuf) >= Len(tbuf)
  /\ pc' = "done"
  /\ UNCHANGED <<inputVars, encVars, decVars>>

Terminating == pc \in {"done", "failed"} /\ UNCHANGED vars

Encode == MakeLengths \/ PackTables \/ PutToken \/ Drain \/ Flush \/ EndPut
Decode == UnpackTables \/ Fetch \/ GetLiteral \/ GetMatch \/ EndGet

Next == Encode \/ Decode \/ Terminating

Spec == Init /\ [][Next]_vars
-----------------------------------------------------------------------------
(* Neither codebuf is ever asked to hold more bits than it is wide, and the  *)
(* decoder never takes bits that it has not fetched.                         *)
CodebufFits ==
  /\ enc.len <= CodebufBits /\ enc.len > -ByteBits
  /\ dec.len \in 0 .. CodebufBits

(* The decoder gets back the tokens that went in, whatever lies in memory    *)
(* behind the last byte.                                                     *)
StreamRoundTrip ==
  /\ pc # "failed"
  /\ Len(dbuf) <= Len(tbuf) /\ dbuf = SubSeq(tbuf, 1, Len(dbuf))
  /\ pc = "done" => dbuf = tbuf

(* The decoder fetches fewer than eight bytes from behind the last byte that *)
(* was written; the output buffer is longer than a full one by far more.     *)
FetchBounded == di < Len(obuf) + 2 * FetchBytes
=============================================================================
