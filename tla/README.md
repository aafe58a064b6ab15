# A verification development for libzling

libzling is a block compressor: order-1 ROLZ (matches are named by the context
byte before them and a distance counted in entries of that context's ring),
followed by Huffman coding. This directory holds TLA+ modules that model it,
TLC configurations that check them on small instances, and proofs for every
value of the constants, checked by TLAPS. Line numbers below are of the files
of the repository; `lz.cpp` is short for `src/libzling_lz.cpp`, and so on.

## 1. The system

| Component | State | Operations | What makes it correct |
|---|---|---|---|
| Move-to-front coders (`lz.cpp` 106-126) | a table of 256 bytes per context byte; the encoder also its inverse | `Encode(c)`, `Decode(i)` | the inverse stays the inverse; both tables stay equal although only ranks travel |
| ROLZ encoder (`lz.cpp` 128-316) | per context a ring of positions with hash heads and suffix chains; `word_mru`; the token buffer | `Reset`, `Encode(level, ...)` with `MatchAndUpdate`, `MatchLazy` | tokens denote the input; searches end; the buffer never overflows |
| ROLZ decoder (`lz.cpp` 318-399) | per context a ring of positions; `word_mru`; the output block | `Reset`, `Decode(...)` with `GetMatchAndUpdate` | rebuilds the encoder's state from the tokens alone; copies only what is written |
| Word-wide fast paths (`lz.cpp` 66-104) | locals | `GetCommonLength`, `IncrementalCopyFastPath` | equal to the byte-wise loops they replace |
| Huffman tables (`huffman.cpp`) | locals | `ZlingMakeLengthTable`, `ZlingMakeEncodeTable`, `ZlingMakeDecodeTable` | lengths within the limit, a prefix code, a two-level table that finds every code |
| Entropy coding of a chunk (`libzling.cpp` 80-105, 208-258, 334-402) | a 64-bit bit buffer at each end, frequencies | the two coding loops | the tokens come back; no bit is lost; bounded prefetch; the result fits its buffer |
| `Encode`, `Decode` (`libzling.cpp` 174-427) | buffers of a block and a chunk, `current_level`, positions | one call each | input = output; defined ends for every I/O error and truncated stream |
| I/O (`libzling_utils.*`) | a `FILE*` and what stdio buffers for it, byte counters | `GetData`, `PutData`, `IsEnd`, `IsErr`, `GetChar`, `PutUInt32`, ... | a loss is told; what is whole in a file is read back; `IsEnd` changes nothing |
| Allocation (`libzling.cpp` 107-163, `huffman.cpp` 53-112) | four pointers, the nodes of a tree | constructor, destructor, handlers of `bad_alloc` | nothing is freed twice or forgotten |
| Demo (`demo/zling.cpp`) | the two redirected streams, a status | `main`, `OnDone` | the status tells what became of the target; nothing else changes |
| Table generator (`tables/gen.py`) | five tables | one script | the tables of distances are each other's inverse, the ranks a map into the table |
| Debug counters, fuzz test, benchmark, build files | | | see section 7 |

All of it is sequential and single-threaded. What is hard here is not
interleaving but **agreement at a distance**: two pieces of code, written apart,
must take the same state through the same steps with nothing but tokens between
them, while that state has three lifetimes (`word_mru` lives for one call, the
buckets for one block, the move-to-front tables for ever), is cleverly stale (ring
entries are overwritten under the chains that lead to them), and is updated
under different conditions at the two ends near the end of a block. The second
difficulty is I/O that is short, fails or ends at any call, with an end test
that cannot tell an error from the end. `PROJECT.json` lists each such hazard at
its line, with the properties aimed at it.

How the parts interact: `Encode` reads a block, resets the ROLZ encoder, and
then until the block is used up calls it for one chunk (a full token buffer),
builds two Huffman codes from the chunk's frequencies and writes a flag, a
header `encpos, rlen, olen` and the coded bytes; a stop flag ends the block.
`Decode` mirrors this chunk by chunk and writes a block at its stop flag. The
action handler is called back at start, after each block and at the end.

## 2. The modules

```
Mtf ── RolzBase ─┬─ RolzEncoder ─┐
                 └─ RolzDecoder ─┴─ RolzCodec ── RolzInv ── MCRolzCodec
                                       │ implements
                                  LosslessCopy
OutputRoom     (arithmetic for the bounds on the output, below all that follow here)
HuffmanTables ─┬─ HuffmanLengths ── MCHuffmanLengths
               │       │ twice in
               │  ChunkCoding ── MCChunkCoding
               │       │ extends, and implements
               └─ EntropyStream ── MCEntropyStream
ZlingEncode ── ZlingDecode ── ZlingFile ─┬─ MCZlingFile
                                         └─ ZlingFileInv
FileStreams ── MCFileStreams     Demo ── MCDemo
Resources ── MCResources         Tables ── MCTables
CommonLength, WordCopy           (the fast paths on their own)

proofs of   RolzCodec: RolzProofs          CommonLength, WordCopy: FastPathProofs
            ZlingFile: ZlingFileProofs     Resources, FileStreams, Tables: HostProofs
            HuffmanTables: HuffmanTablesProofs ── HuffmanLengths: HuffmanLengthsProofs
            EntropyStream, ChunkCoding: EntropyStreamProofs   Demo: DemoProofs
            (EntropyStreamProofs uses HuffmanTablesProofs and HuffmanLengthsProofs)
```

* **Mtf.** The two coders as operators on tables. `mtfinit` and `mtfnext` are
  constants: any permutation and any map of ranks.
* **RolzBase, RolzEncoder.** `m_buckets` is `encBucket`, `m_mtf` is `encMtf`,
  `word_mru` is `encMru`, `obuf` of `Encode` is `tbuf`. `EncodeImpl` is a loop,
  so one action per way round it: `EncodeFirst`, `EncodeMatch`, `EncodeWord0`,
  `EncodeWord1`, `EncodeLiteral`. `MatchAndUpdate` has state of its own
  (`search`): `StartMatch` enters the position into ring and hash and picks the
  first candidate, `SearchStep` is one round of the loop over the chain,
  `RejectMatch` covers a match that is too short or skipped for a later one
  (`LazySkip`). `HashContext` is a constant: any function of four bytes.
  The template arguments behind a level (depth and two lazy depths) are `level`.
* **RolzDecoder.** One action per token. A match sets up a copy that proceeds
  byte by byte (`CopyByte`), so that it reads its own output as in the code.
  Both places where `Decode` returns -1 lead to `dpc = "failed"`.
* **RolzCodec.** Couples them as `libzling.cpp` does. `hist` is a history
  variable: at each token boundary, the part of the encoder's state a decoder
  should have there. Nothing reads it but properties.
* **LosslessCopy.** The abstract promise: a channel that takes an input,
  delivers it in order piece by piece, and only then takes the next.
* **HuffmanTables, HuffmanLengths.** The three functions of `huffman.cpp`. A
  node of the heap is its weight with the depth of each leaf, and which of
  equally light nodes comes first is left open.
* **OutputRoom.** No code of its own, but the arithmetic that `kBlockSizeHuffman` has to
  satisfy: how often weights may be rescaled (`ShallowEnough`), what so many symbols take
  then (`CodedBits`), and whether two codes fit a number of bits (`HasRoom`). HuffmanLengths
  and ChunkCoding state their bounds in these terms.
* **EntropyStream.** Both coding loops of a chunk with the packed length tables
  and `ZlingCodebuf` as a sequence of bits with the separate `m_len` of the
  code, which may go negative. Length tables are not computed here but range
  over every `Admissible` one, which is what HuffmanLengths shows of its result.
  Behind the chunk the decoder's buffer holds `stale` bytes, any (they may differ) of a
  set of patterns; they repeat after as many as the decoder can come upon.
* **ZlingEncode, ZlingDecode, ZlingFile.** The drivers over a stream of units
  (a flag, a number of a header, a piece of data). A read or write may be short
  or fail at any call, allocation may fail, and
  `LoseTail` cuts the stream anywhere before `Decode` sees it. `IsEnd` may meet an
  error at any call, which looks like the end; `IsErr` tells of it from then on, but the
  next `IsEnd` reads again and may find a byte (`TestEnd`). The loops of `Encode` ask both,
  those of `Decode` (306, 312, 329) only `IsEnd`, so `Decode` may go on after an
  error, in the middle of a chunk's data, and take these for flags (`FlagValues`).
  A number missing at the end of the stream may be any int (`HeaderNumber`).
  Bytes of input are named by their place; bytes decoded from a broken chunk are
  `Garbage`. Decoding one may also not come to an end, write behind `ibuf` or read behind
  `obuf` (`GoAstray`): `filled` says how much of `obuf` has ever been read into, so whether
  the byte that says if distance 0 has a code (`DistanceByte`) comes from an encoder.
  What happens after that is not modelled; `dpc = "astray"` is an end of the run.
  Coding itself is abstract: a chunk takes any number of input bytes the code
  allows, and a level outside 0-4 gives the -1 that `lz.cpp` 136 returns.
* **ChunkCoding.** Closes the gap between the two before last: the frequencies
  are counted from the tokens, `ZlingMakeLengthTable` runs twice (two instances
  of HuffmanLengths, the second table's lengths being made when the first's are
  there), and then EntropyStream goes on. The composition is shown to implement
  EntropyStream, where the lengths are any `Admissible` ones, and here, where
  lengths and tokens belong together, the bound on the output can be stated. That the size
  of the buffer is one for which it holds is an assumption about constants
  (`RoomAssumption`), which TLC evaluates here for the instance and in MCTables
  (`MCRoom`) for the sizes of the code.
* **FileStreams.** What is a unit for ZlingFile is bytes here: a flag, an int of
  `Digits` bytes of `ByteBits` bits, a piece of data. Below `PutData` and
  `GetData` is a model of stdio (external: `FWrite`, `FRead`, `Close`): part of
  what `fwrite` accepts stays in a buffer, an error may strike at any call, lose
  any part of the buffer and be gone at the next, and the flush at the end of
  the process may fail with nobody to hear of it.
* **Demo.** `main` over a small file system: `freopen` of target, then source,
  the command, then block after block, with a failure at any step. Encode and
  Decode are what ZlingFile shows of them: true blocks in order, perhaps a torn
  one at the end. A read error (`ReadError`) may strike anywhere, at the end of the source
  or in an empty one too, and need not end the run: what was read of the block is still
  coded and written, whole or not, and writing that may fail in turn. The block
  is the last with any bytes even if `Decode` reads on (`OnlyLastBlockSpoiled`). A run
  that such an error leads astray has no status and is left out.
* **Resources.** How often each member of `EncodeResource` and `DecodeResource`
  has been allocated and deleted, and the nodes of the Huffman tree under
  construction, any allocation failing.
* **Tables.** The loops of `gen.py` that make the three tables for distances, one
  step to a round, and the formulas of the two for move-to-front.
* **CommonLength, WordCopy.** The two fast paths; RolzEncoder and RolzDecoder
  use what these are meant to compute, and these show that they do.

Definitions whose comment says *Fault, for mutation* are not part of the model:
each is a plausible mistake in the definition that follows it, against which a
property has been tried. `PROJECT.json` says which.

## 3. What the runs check

| Run | Instance | What it shows |
|---|---|---|
| `rolz_match` | 2 byte values, rings of 2 nodes, token buffer of 4, every block of 13 bytes, two levels: depth 1, and depth 3 with both lazy probes | `IInv` (the invariant of the proofs, the types among it), `TokensInRange`, `DecoderTracksEncoder`, `CopySourceBehind`, `SearchGoesBack`, `AllBlocksDone` |
| `rolz_blocks` | 3 byte values, all contexts in one hash slot, two blocks in a row: 10 nearly constant bytes, or any 0, 1 or 5 | `RoundTrip`, `IsLosslessCopy` (a refinement, with its liveness) |
| `huffman_lengths` | 8 symbols, lengths up to 4, fast table of 2 bits: any frequencies of up to 5 of them, rising frequencies of all | `LengthsAdmissible`, `TwoLevelLookup`, `NoWorseThanFixed`, `RescaledSeldom`, `Terminates` |
| `entropy_stream` | every admissible pair of length tables for 6 and 4 codes; buffers of 0 to 3 tokens; eight patterns of stale bytes | `StreamRoundTrip`, `CodebufFits`, `FetchBounded` |
| `chunk_coding` | 8 and 4 codes of up to 4 and 2 bits, buffers of up to 20 entries from flat to steep frequencies, an output buffer of 40 bytes | `OutputFits`, `IsEntropyStream` (a refinement) |
| `zling_file` | inputs of 0 or 3 bytes, blocks of 2, up to 2 tokens and 2 bytes of data to a chunk, levels 1 and 9 (unknown) | `FileRoundTrip`, `StreamInOrder`, `DecoderAligned`, `OnlyLastBlockSpoiled`, `AstrayOnlyIfCut`, `HandlersHearAll`, `NoTwoEmptyChunks`, `BothReturn` |
| `common_length` | greatest length 11, every pattern of agreement | `ExactLength` |
| `word_copy` | distances 1 to 9, lengths 4 to 12 | `CopiesEveryByte`, `OverrunBounded` |
| `file_streams` | bytes of 2 values, ints of 3 bytes, up to 3 items | `LossIsTold`, `HoleIsShort`, `WhatIsWholeComesBack` |
| `demo` | two files of up to two blocks, 0 to 4 arguments, any command, source and target perhaps the same | `StatusIsTrue`, `TargetFate`, `OnlyTargetChanges` |
| `resources` | trees of up to 4 leaves, up to 3 trees | `FreedOnce`, `OnlyHalfTreesLeak` |
| `tables` | the real sizes (and `MCRoom`, before the run starts) | `DistanceComesBack`, `TablesFit`, `RanksAreRanks` |

**Why the bounds are enough to be interesting.** Thirteen bytes over two values
hold several matches in one context, so a ring of two nodes wraps, nodes are
reused while hash slots still name them, and the tail where no match is sought
(`MatchMaxLen + MatchGap` bytes) begins inside the block. A token buffer of 4
entries splits a block over several chunks. With all contexts in one slot the
check byte of a hash never helps. Frequencies such as 1, 1, 2, 3, 5, 8, 8, 8
give the eight leaves a depth beyond 4, so trees are built again from coarser
weights, up to the point where all weigh the same. In `entropy_stream` a match
takes at most 7 of the 8 bits of a refill, as it takes at most 31 of 32 in the
code (15 + 8 + 8); a byte there has 2 bits and the buffer 16 for 64. In
`chunk_coding` the output buffer (`BlockSizeHuffman`, 40) is the least that
`RoomAssumption` allows for the flat buffer with four matches, and a buffer one byte
smaller is refused before the run starts.
In `zling_file` a chunk of data is written in up to two pieces, a block holds up
to two chunks with tokens, and the input two blocks; the byte on distance 0 is the second
of a chunk's, so a first chunk can be cut before and behind it, and a chunk of two tokens
may read behind the buffer while one of one token does not. `MatchMaxLen` in `common_length` is 3
modulo 4, as 259 is, so all three widths are used. The scripts of `file_streams`
have a chunk with a negative `rlen`, two ints in a row, and data before a flag. In
`demo` the two files may exist or not and may be one.

**Bounds by name:** `MaxBlocks` (blocks of a run), `Blocks`, `Levels`,
`TokenBuffers`, `FreqTables`, `Copies`, `Agreements`, `InSizes`, `Scripts`, `Contents`
(the inputs), `MaxLeaves` and `MaxTrees` (the trees of a run), and
the size constants of the code in small.

**Symmetry** is not used: byte values are also ranks and code numbers, and the
two initial tables tell them apart.

**Fairness.** `WF_vars(Next)` for the codec and the Huffman code lengths, and weak fairness of `Encode` and of `Decode` for the drivers; the
other modules state no liveness and need none. The
code is sequential: it keeps running until it returns, and that is all the
assumption says. `LoseTail` has no fairness. A branch that the environment
chooses (an error, a short read) is a choice inside an action and is never
assumed to go well; `GetData` and `PutData` without an error are assumed to
return at least one byte, as `fread` and `fwrite` do when they neither fail nor
meet the end. In ZlingFile as in FileStreams the disk may recover from an error while
the flag that tells of it stays, as `ferror` does. No loop depends on that: `Decode` may
meet any number of errors, but each flag it takes is read, so it comes to the end.

## 4. What is proved

For every value of the constants, under the named assumptions of the modules:
`MtfAssumption` (`mtfinit` is a permutation of the byte values, `mtfnext` a map of
ranks), `RolzAssumption`, `EncoderAssumption` and `CodecAssumption` (sizes are
positive, matches at least 3 bytes long, the tail gap at least 2, the token buffer at
least 2 entries, `HashContext` natural-valued, blocks no longer than
`BlockSizeIn`), `CommonLengthAssumption` (the greatest length is at least 4),
`WordCopyAssumption` (a word has at least one byte; a match lies behind its source
within the memory, with room for the overrun), `StreamAssumption` (sizes of
blocks are positive and below half the range of an unsigned int),
`HuffmanAssumption` (codes of at most 15 bits, as a `uint16_t` is what they are stored in,
and no more symbols than such codes can tell apart), `EntropyAssumption` (an even number
of codes in each table, for they are packed two to a byte; a match takes no more bits
than one refill brings, and the codebuf has room for two refills), `TokensAssumption` (a
token buffer is what `ZlingRolzEncoder` fills: each entry has a code, a match is two
entries), `ChunkAssumption` (no more symbols in either code than codes of its greatest
length; 514 and 15, 32 and 8), `RoomAssumption` (what the size of the output
buffer has to satisfy for every token buffer, see below), `TablesAssumption` (buckets have
at least 512 distances and are a multiple of 256, which codes of at most
`HuffmanMaxLen2` bits are enough for; two longest codes and 8 bits fit a refill),
`StreamsAssumption` (bytes and ints have at least one bit and byte; no piece of
data is empty), `ResourcesAssumption` (a tree may have a leaf) and `DemoAssumption`
(no file is called like a standard stream in the model).
TLC evaluates each on the instances above.

* `RolzProofs`: **MtfInverse**, the decoder yields the byte the encoder was given, and
  both tables move alike; **Invariance** (`Spec => []IInv`), and from it **TypeCorrect**,
  **RoundTripHolds**, **DecoderTracks**, **TokensHaveCodes**, **CopyNeverSpins**,
  **SearchesGoBack**, and **ImplementsLosslessCopy** (each step of the codec is a
  step of the abstract channel or leaves it alone).
* `FastPathProofs`: **ExactLengthHolds**, **CopiesEveryByteHolds** and
  **OverrunBoundedHolds**, for any width of a word.
* `HuffmanTablesProofs`: **CodesDiffer** (no code begins with another where the lengths
  have room) and **DecodeFinds** (a decode table of any size finds the symbol of every
  code that fits it), as facts about the functions that compute the tables.
* `HuffmanLengthsProofs`: **LengthsFit** (`LengthsAdmissible`) and **LookedUp**
  (`TwoLevelLookup`), for any number of symbols, frequencies and limit of length;
  **CodesNoWorse** (`NoWorseThanFixed`) and **SeldomRescaled** (`RescaledSeldom`), how
  good the code is and how soon it is found.
* `EntropyStreamProofs`: **CodingKeeps** (`Spec => []IInv` of that module), and from it
  **TokensComeBack** (`StreamRoundTrip`), **CodebufsFit** (`CodebufFits`) and
  **FewBytesBeyond** (`FetchBounded`), for any sizes, lengths and token buffers;
  **ImplementsEntropyStream** (`IsEntropyStream`, each step of ChunkCoding is one of
  EntropyStream or a stutter) and **ChunksComeBack** (the same three properties, from
  the frequencies on, for the lengths that `ZlingMakeLengthTable` makes);
  **OutputBufferSuffices** (`OutputFits`), nothing is ever written behind the output buffer.
* `ZlingFileProofs`: **Invariance** (`Spec => []FileInv`), and from it, with
  further invariants for some of them, **DecoderAlignedHolds**, **FileRoundTripHolds**,
  **StreamInOrderHolds**, **NoTwoEmptyChunksHolds**, **HandlersHearAllHolds**,
  **OnlyLastBlockSpoiledHolds** and **AstrayOnlyIfCutHolds**, for inputs of any length,
  whatever fails, and whether the errors stay or pass.
* `HostProofs`: **MembersFreed** (`FreedOnce`) and **TreesFreed** (`OnlyHalfTreesLeak`)
  for trees of any size; **LossIsToldHolds**, **HoleIsShortHolds** and
  **WhatIsWholeComesBackHolds**, for bytes and ints of any width and any items;
  **DistancesComeBack** (`DistanceComesBack`) and **CodesSuffice** (`TablesFit`) for
  buckets of any size, and **RanksFit** (`RanksAreRanks`), that the two tables for
  move-to-front are what `MtfAssumption` asks for.
* `DemoProofs`: **StatusTold** (`StatusIsTrue`), **TargetTold** (`TargetFate`) and the
  action property **TargetOnly** (`OnlyTargetChanges`), for any files and contents.

**The argument.** `RoundTrip` is not inductive: when the decoder takes a token,
the encoder has long moved on, and nothing in its present state says what it was
like when it emitted that token. `IInv` therefore keeps a history of the chunk
(`hist`) and says, in `HistoryInv`, how each snapshot follows from the one before
by the token between them (`TokenStep`), in terms a decoder can compute: a literal's
byte is the table's at that rank; a match's bytes equal those at the position the ring
holds that many nodes back. `PresentInv` ties the last snapshot to the encoder's
present state, `DecoderInv` ties the decoder to the snapshot it has reached, and
inside a match to the bytes it has still to copy. The other parts feed these:
`MtfInv` (index inverse to table), `BucketInv` (rings hold positions behind the
current one), `SearchInv` (the best match so far really matches and is not the
node just entered). One asymmetry had to be accommodated: near the end of a block
the encoder no longer updates its rings, so `DecoderInv` promises equal rings
only while a match may still follow, and `InTail` is shown to be lasting.
There is one lemma to each action of either coder, after those about rings and
`word_mru` that they share.

`ExactLength` rests on an invariant that says at each stage what the comparisons
so far have established: no further word, then no further half word, agrees.

`CopiesEveryByte` rests on an invariant (`CopyInv`) that says, besides that the bytes up to
`dst` are copied, that the copy repeats itself not only at the distance asked for but
at the present distance between the two pointers, which doubling has made of it: a
store of a word that overlaps its own source writes some wrong bytes, but never before
the byte at that distance, and those after it are written again.

`FileRoundTrip` speaks of the end of `Decode`, `DecoderAligned` of any stream that may
reach it. `FileInv`, in ZlingFileInv, says of both ends where they stand in a stream, and of
the stream what does not depend on who looks at it. `StreamOK` is its shape: what kind of
unit follows which, numbers within their ranges, as many pieces of data as the header
says, each chunk going on in the input where the units before its flag end. It is
closed under cutting (`StreamCut`), which deals with lost tails and write errors at
once. `AtFlag` says of a place in the stream how much of the input is coded before it,
in this block and altogether. Encode keeps this true of the end of the stream, Decode of
the place it has reached; that they mean the same bytes is `OnePlace`: a place determines
both numbers. What is special about a stream that Encode has finished is only
that no chunk in it is cut short (`Complete`) and that it ends with the end of a block at
`inSize`. While nothing has gone wrong that Decode could have met (`Sound`: no read error,
and either nothing is lost or the stream has not been used up), the output so far is the
input so far (`DecTrip`). There is one lemma to each action.

After a read error `Decode` may stand anywhere in the stream, and `DecPlace` says nothing of
the unit that comes next. But the loops still let it do little: whatever it takes for a
flag, the first number behind a continue flag is followed by `CHECK_IO_ERROR`, which ends
it. So no header is used that was not read before the error (`HeaderRead`), no chunk but
the one the error was met in is decoded after it, and all further blocks are empty. That
is what `SpoiledLast` says, and why `OnlyLastBlockSpoiled` is about blocks that have bytes.
`AstrayOnlyIfCut` rests on `StrayInv`: while the byte on distance 0 has not been read
(`MaySpin`), `Decode` stands in the first chunk of the stream or has met its end or an
error (`FirstChunk`), and an announced position behind the block was not read from a
header but stands for one of which nothing was left.

Four more invariants stand on `FileInv`. `Ordered` says that the data go on from each
other; the stream is only ever cut at its end or written at its end, so each step leaves
the order of what is there alone. `LevelInv` says when the level is one that the encoder
knows, which is after an empty chunk. `EncHeard` and `DecHeard` say what the handlers have
been told at each point, `SpoiledLast` that where bytes are wrong the block with them is
being written or was the last with any bytes. Sums of calls
(`Told`) are defined along the sequence, and each appended call has to be shown to have such
a sum: `Counted` carries its existence along as part of the invariant. TLC accepts all of
these on the instance in `ZlingFile.cfg`, apart from the uniqueness in `Counted`, which
quantifies over everything.

*Functions defined along the numbers.* `FirstCode`, `KraftSum`, the bits of a number, the
place of a token, the bytes of a script are functions `f[n \in Nat]`. What TLAPS has of
these is a CHOOSE; that there is such a function, and that it satisfies its equation, has
to be shown by an induction, and the library's theorems for that take an operator as a
parameter. HuffmanTablesProofs therefore begins with three facts about sets, not
operators, of numbers: a set of naturals that is not empty has a least member
(`LeastNat`), one that has 0 and the successor of each member has all (`UpTo`), and a step
given as a function defines a function along the numbers (`Recursion`). Every induction
here goes through these, in this module and, by INSTANCE or EXTENDS, in the others.

*Huffman lengths.* `HInv` says that the heap is a forest of *full* trees whose leaves are
the symbols that occur, each once. A tree is full if the leaves take up exactly all slots of
some depth below it. That is how the sum of Kraft is counted, without fractions:
`KraftCounts` maps each code of length k to the 2^(n-k) slots below it, and two trees
side by side are full one level down. When a single tree is left its depths are therefore
admissible lengths, unless they are above the limit, and then the loop starts again. From room for
all codes it follows that the canonical codes of each length end where those of the next
begin (`FirstCodeKraft`), hence that none is the beginning of another, hence that each
entry of a decode table is written for one symbol only, which is what the two-level lookup
needs. That a code has fewer than 16 bits is what keeps `NoSymbol` from being a symbol.

*The coded chunk.* The invariant has four parts: what types the variables have
(`ITypes`), that the tables at both ends belong to the same lengths (`ITables`), that the
bytes written and the codebuf of the encoder are the bits of the tokens so far
(`IEncode`), and that the codebuf of the decoder and the bytes it has yet to fetch are
the bits of the tokens to come, except beyond the end, where bytes are arbitrary and
`m_len` counts on (`IDecode`). A token takes no more bits than one refill, so the codebuf of
the decoder has a whole token when it looks one up; the same bound keeps both codebufs
below their width and the fetches beyond the end few.

*From frequencies to bytes.* `ChunkInv` says that either call of `ZlingMakeLengthTable`
satisfies `HInv` for the frequencies of the tokens, and that when it is over its lengths
are admissible for them. A call is an instance of HuffmanLengths, so the proofs about it are
instances of HuffmanLengthsProofs; first each operator of an instance is shown to be the one
it was made from, under the constants of the call. Making lengths is a stutter of
EntropyStream, which sees no lengths until both tables are there; `LengthsMade` is its
choice of admissible ones.

*How good the code is.* That a Huffman code is the best there is for its weights is more than
is needed here: `NoWorseThanFixed` compares it with codes of some equal length `l`, and the
proof does not compare trees. `Growing`, in `CInv`, says of the heap at any time that
its trees could be hung below one root at two adjacent depths such that the symbols
cost no more than `l` bits each (`AsGoodAs`). Of the leaves this is so when they are hung at
depth `l`. If the two lightest trees are not at the lower depth together they can be
exchanged for two that are, at no cost, for they are the lightest (`TwoLightest`);
joining them then changes nothing. When one tree is left its cost is the sum. Weights
are frequencies rounded up, so those that were rounded cost something; but what counts is only how
much *shorter* than `l` other codes are, and for short codes there is little room
(`FewAreShort`): what rounding costs is at most `(2^k - 1) * 2^(l-1)` for weights halved `k`
times, whatever the number of symbols (`CostBound`).

*How seldom it is built again.* No tree of the heap is lighter than the lighter half of
another (`NoneLighter`), so a tree with a leaf at depth `d` weighs at least the Fibonacci number
of `d + 2` (`Weighed`). A tree that is too deep has a leaf at depth `MaxCodeLen + 1`; it
weighs at least `Fib(MaxCodeLen + 3)`, while all weights together are at most the sum of
the frequencies divided by `2^k` and a little for each symbol that was rounded up
(`ShallowEnough`, `DeepIsHeavy`).

*The output buffer.* `OutputFits` puts these together for the two codes of a chunk. The bits
of the tokens written so far, sorted by code, are a sum over the symbols of how often
each occurred times its length, and extra bits (the sum over tokens is rearranged
by `SumByClass`, the symbols being the classes); the frequencies of all tokens are what
both calls of `ZlingMakeLengthTable` were given, so the bound on its result
applies to them. `RoomInv` carries the bounds from the calls to the coding loop.
`RoomAssumption` then is the inequality that remains, with the constants in it: there
are an equal length and a number of rescalings for each code, such that one more cannot
happen and the bits fit. It speaks of the number of literals, words and matches alone
and not of frequencies or lengths. `MCRoom` is that inequality for 514 and 32 codes, 262144
entries, any number of matches among them and 393216 bytes; with fewer
entries there is more room, for the bits grow with the number of either kind, and less
weight makes a shallower tree. It is not far off: at 129150 matches it needs
392703 of the 393216 bytes.

*The generated tables.* `TablesInv` says which distances each code made so far is for, by a
formula for the first of them (`Reach`), and that the script never goes beyond the last
distance, which is where a code with 8 extra bits ends. The ranks are settled by
giving the inverse of the initial table and comparing the two entry by entry.

*Files.* `StreamsInv` says of the writer that without an error the file and the buffer
together are what has been put. With one they are so up to the place of the first loss, and what
stands behind that was put after it within the same int, as after each item the error is
looked for: fewer than `Digits` bytes. Of the reader it says that it stands, unless an
error is known or about to be, where the items it got end, provided the next is whole in
the file. What `GetUInt32` computes from what `PutUInt32` made is the number again by an
induction along the digits (`DigitStep`), for negative numbers too.

*The demo.* Until a read error the target, with what is buffered for it, is the front of
the true result that the blocks read make; after one, and after a failed write, some front
with perhaps a torn block behind it (`Stand`), which a lost buffer and the flush at the
exit keep so. Files other than the target are what they were.

*Memory.* The members before `next` have been allocated once and the others not at all,
and all are deleted in the step that ends the call; nodes exist only while a tree is built.

## 5. What is only model-checked

* Liveness: `AllBlocksDone`, `Terminates` (of HuffmanLengths), `BothReturn`, and the `[]<>` part of
  `IsLosslessCopy`. TLAPS as used here proves neither liveness under fairness
  nor anything about `ENABLED`.

Every invariant and every action property that a run checks is also the statement of a
theorem, on its own or as a part of one (`IsLosslessCopy` but for its liveness). The runs
remain what shows that the assumptions can be satisfied and the interesting cases occur.
`MCRoom`, an inequality between numbers of the code, is computed by TLC rather than
proved: it has one case for each number of matches.

## 6. Observations

None of these contradicts what a document or comment of the repository says;
they are consequences of the code which the model shows and a reader may want
to know.

* A read error that `IsEnd` meets inside a chunk (`libzling.cpp` 329) ends the
  data loop untested: the chunk is decoded from old buffer contents and may be
  written before `Decode` returns -1. If the error passes, `Decode` goes on behind it and
  reads the rest of the data as flags: bytes of 0 seem to end blocks, for which
  `OnProcess` is called with size 0; a byte of 1 ends the run at the first number; any
  other throws. `OnlyLastBlockSpoiled` and `DecoderAligned` say how far that can go.
* What a broken chunk can do to `Decode` is not bounded by its checks. `obuf` is not
  initialised (145) and distance 0 is not refused (398): when the very first chunk is cut
  inside its length tables, before the 258th byte, distance 0 may have a code,
  and `IncrementalCopyFastPath` does not return from a copy onto itself. `encpos` is not
  held against the size of the block, so when the stream ends behind a continue flag and
  the numbers are what the memory holds, decoding may write behind `ibuf`. And the bits of
  a broken chunk of many tokens may go on behind `obuf`. `AstrayOnlyIfCut` says that
  this is all, and that no stream from an `Encode` that returned 0, if it arrives whole
  and is read without an error, is among these.
* A stream cut between two chunks decodes without an error, to a shorter output:
  nothing in the format says that a block must end with a stop flag, or how many
  blocks there are. A stream cut inside a chunk may be refused or not.
* An unknown level makes `Encode` emit an empty chunk with length -1 and go on
  with level 0 (`NoTwoEmptyChunks`); the stream still decodes.
* `OnDone` is not called when `Encode` or `Decode` throws.
* Lengths made of rescaled weights may exceed a fixed-length code: frequencies 1, 1,
  1, 2, 2, 2, 3, 3 with a greatest length of 4 give 46 bits, a fixed-length code 45
  (`NoWorseThanFixed` bounds the excess).
* The demo opens, and so empties, its target before it knows that the source can be
  read or the command exists (`TargetFate`). If source and target are one file, it is
  emptied, an empty stream is coded, and the status is 0 (`StatusIsTrue` makes this
  exception).
* A flush that fails when the process ends is seen by nobody: the status is 0 and the
  file is short (`LossIsTold`, `StatusIsTrue`).
* When memory runs out while a Huffman tree is built, its nodes so far are lost
  (`OnlyHalfTreesLeak`); the four buffers never are (`FreedOnce`).

## 7. What is not modelled

* The demo's messages of progress, the wording of the others, and the Adler-32
  check, which is compiled out.
* The counters of debug builds (compiled to nothing otherwise), benchmark and build
  files, the vendored integer headers. The fuzz test states the round trip that
  `RoundTrip`, `StreamRoundTrip` and `FileRoundTrip` are about.
* Inside RolzCodec the contents of the tables for the move-to-front coders: any
  permutation and any map of ranks will do; Tables shows that those generated are one.
* Streams that no encoder has made, beyond cut ones: what Huffman and ROLZ
  decoding do on the bytes of a broken chunk is left open, between "thrown", any bytes
  up to the announced position, and "astray"; of that, only when it may happen is said.

## 8. Plan

Order of the modules, most important behaviour first. Done:

1. Mtf, RolzBase, RolzEncoder, RolzDecoder, RolzCodec against LosslessCopy, with
   the inductive invariant and its proofs.
2. HuffmanTables, HuffmanLengths.
3. EntropyStream over any admissible code.
4. ZlingEncode, ZlingDecode, ZlingFile.
5. CommonLength and WordCopy with their proofs.
6. ChunkCoding, from frequencies to bytes, against EntropyStream.
7. FileStreams, Demo, Resources, Tables.
8. ZlingFileInv and ZlingFileProofs: what a well-formed stream is, and that the two
   drivers are each other's inverse.
9. HuffmanTablesProofs, HuffmanLengthsProofs, EntropyStreamProofs: the entropy coder for any
   sizes.
10. HostProofs and DemoProofs, and the rest of ZlingFile's properties.
11. The proof that ChunkCoding implements EntropyStream.
12. OutputRoom, and with it `NoWorseThanFixed`, `RescaledSeldom` and `OutputFits` for
    any frequencies; the generated tables for any size of bucket.

Nothing is left of it. What could follow is the liveness properties, with a prover that
knows fairness.
