---------------------------- MODULE ChunkCoding ----------------------------
(***************************************************************************)
(* A chunk of tokens from its frequencies to its bytes and back: Encode    *)
(* counts the codes, calls ZlingMakeLengthTable for each of its two codes, *)
(* then codes the tokens, which Decode reads back.  HuffmanLengths is both *)
(* calls, one after the other; EntropyStream, the rest, is at the same     *)
(* time what the whole implements: there the lengths are any Admissible.   *)
(***************************************************************************)
EXTENDS EntropyStream

CONSTANT BlockSizeHuffman   (* kBlockSizeHuffman: the room in obuf, in bytes *)

(* 514 and 32 symbols are not more than 15 and 8 bits can tell apart.        *)
ASSUME ChunkAssumption ==
  /\ NumCodes1 <= 2 ^ MaxLen1 /\ NumCodes2 <= 2 ^ MaxLen2
  /\ BlockSizeHuffman \in Nat

(* The most extra bits behind the code of a distance. *)
MaxBlen == Max({matchidx_blen[c] : c \in Code2})

(* The bits that the buffer leaves for the tokens of t, the extra bits of    *)
(* matches aside, are enough for their codes.                                *)
ASSUME RoomAssumption ==
  \A t \in TokenBuffers :
    LET n == Cardinality(Heads(t))
        m == Cardinality(Matches(t))
    IN  HasRoom((BlockSizeHuffman - (NumCodes1 + NumCodes2) \div 2) * ByteBits - m * MaxBlen,
                CodeOf(NumCodes1, MaxLen1), n, CodeOf(NumCodes2, MaxLen2), m)

VARIABLES
  call,                       (* 1 or 2: which table of lengths is made     *)
  freq, scaling, nodes, hpc   (* of that call, as in HuffmanLengths         *)

callVars == <<freq, scaling, nodes, hpc>>
chunkVars == <<vars, call, callVars>>

H1 == INSTANCE HuffmanLengths WITH
  NumCodes <- NumCodes1, MaxCodeLen <- MaxLen1, FastLen <- FastLen1,
  FreqTables <- [Code1 -> Nat], length <- length1

H2 == INSTANCE HuffmanLengths WITH
  NumCodes <- NumCodes2, MaxCodeLen <- MaxLen2, FastLen <- MaxLen2,
  FreqTables <- [Code2 -> Nat], length <- length2

ChunkInit ==
  /\ Init
  /\ call = 1 /\ freq = Freq1(tbuf) /\ scaling = 0 /\ nodes = {} /\ hpc = "leaves"

FirstCall ==
  /\ call = 1
  /\ H1!MakeLeaves \/ H1!JoinTwo \/ H1!ExtractLengths
  /\ UNCHANGED <<tbuf, length2, stale, encVars, decVars, pc, call>>

(* Fault, for mutation: distances are counted, not their codes. *)
DistancesCounted(t) == [c \in Code2 |-> Cardinality({i \in Matches(t) : t[i + 1] = c})]

(* freq_table2 *)
Counted2(t) == Freq2(t)

BeginSecond ==
  /\ call = 1 /\ hpc = "done"
  /\ call' = 2 /\ freq' = Counted2(tbuf) /\ scaling' = 0 /\ nodes' = {} /\ hpc' = "leaves"
  /\ UNCHANGED vars

SecondCall ==
  /\ call = 2
  /\ H2!MakeLeaves \/ H2!JoinTwo \/ H2!ExtractLengths
  /\ UNCHANGED <<tbuf, length1, stale, encVars, decVars, pc, call>>

(* Both tables are there, and coding begins. *)
LengthsMade ==
  /\ pc = "lengths" /\ call = 2 /\ hpc = "done"
  /\ pc' = "pack"
  /\ UNCHANGED <<inputVars, encVars, decVars, call, callVars>>

Code == pc # "lengths" /\ Next /\ UNCHANGED <<call, callVars>>

ChunkNext == FirstCall \/ BeginSecond \/ SecondCall \/ LengthsMade \/ Code

ChunkSpec == ChunkInit /\ [][ChunkNext]_chunkVars
-----------------------------------------------------------------------------
E == INSTANCE EntropyStream WITH
  length1 <- IF pc = "lengths" THEN [s \in Code1 |-> 0] ELSE length1,
  length2 <- IF pc = "lengths" THEN [c \in Code2 |-> 0] ELSE length2

(* The lengths that the two calls make of the frequencies of the tokens are  *)
(* some that EntropyStream allows, for a code of literals, words and lengths *)
(* as for one of distances; so what it shows of any such holds of these.     *)
IsEntropyStream == E!Init /\ [][E!Next]_(E!vars)

(* The tables of lengths and the coded tokens never outgrow the buffer, and  *)
(* a full token buffer is no exception; Decode would refuse more as well.    *)
OutputFits == Len(packed) + Len(obuf) <= BlockSizeHuffman

=============================================================================
