---------------------------- MODULE RolzEncoder ----------------------------
(***************************************************************************)
(* ZlingRolzEncoder.  EncodeImpl turns a stretch of the block ibuf into    *)
(* entries of the token buffer tbuf; MatchAndUpdate enters the current     *)
(* position into the bucket of the preceding byte and searches the bucket  *)
(* for a match; MatchLazy peeks one and two bytes ahead.  One action is    *)
(* one token, or one iteration of the search loop.                         *)
(***************************************************************************)
EXTENDS RolzBase

CONSTANTS
  BucketItemHash,         (* kBucketItemHash = 8192: hash slots of a bucket  *)
  MatchMinLenEnableLazy,  (* kMatchMinLenEnableLazy = 128                    *)
  Levels,                 (* template arguments of EncodeImpl, by level      *)
  HashContext(_, _, _, _) (* hash of four consecutive bytes                  *)

Level == [depth : Nat \ {0}, lazy1 : Nat, lazy2 : Nat]

ASSUME EncoderAssumption ==
  /\ BucketItemHash \in Nat \ {0}
  /\ MatchMinLenEnableLazy \in Nat
  /\ Levels \subseteq Level
  /\ \A a, b, c, d \in Byte : HashContext(a, b, c, d) \in Nat

VARIABLES
  ibuf,       (* the input block                                             *)
  ilen,       (* its length                                                  *)
  ipos,       (* the next byte to encode                                     *)
  tbuf,       (* entries of the current chunk                                *)
  encBucket,  (* m_buckets                                                   *)
  encMtf,     (* m_mtf                                                       *)
  encMru,     (* word_mru                                                    *)
  level,      (* template arguments of the running EncodeImpl                *)
  search,     (* local variables of the running MatchAndUpdate               *)
  epc         (* where EncodeImpl stands                                     *)

encVars == <<ibuf, ilen, ipos, tbuf, encBucket, encMtf, encMru, level, search, epc>>

NoNode == -1   (* 65535 in the code *)
NodeOrNone == Node \cup {NoNode}
HashSlot == 0 .. BucketItemHash - 1

EncoderBucket ==
  [head   : Node,
   offset : [Node -> 0 .. BlockSizeIn - 1],
   check  : [Node -> 0 .. 255],
   suffix : [Node -> NodeOrNone],
   hash   : [HashSlot -> NodeOrNone]]

EmptyEncoderBucket ==
  [head   |-> 0,
   offset |-> [n \in Node |-> 0],
   check  |-> [n \in Node |-> 0],
   suffix |-> [n \in Node |-> NoNode],
   hash   |-> [h \in HashSlot |-> NoNode]]

Search == [node : Node, maxnode : Node, maxlen : Nat, i : Nat]
NoSearch == [node |-> 0, maxnode |-> 0, maxlen |-> 0, i |-> 0]

EncTypeOK ==
  /\ ilen \in 0 .. BlockSizeIn /\ ibuf \in [0 .. ilen - 1 -> Byte] /\ ipos \in 0 .. ilen
  /\ tbuf \in Seq(Nat)
  /\ encBucket \in [Byte -> EncoderBucket]
  /\ encMtf \in [Byte -> MtfCoder]
  /\ encMru \in MruTable
  /\ level \in Level
  /\ search \in Search
  /\ epc \in {"idle", "token", "search", "found", "nomatch"}

HashAt(p) == HashContext(ibuf[p], ibuf[p + 1], ibuf[p + 2], ibuf[p + 3])
HashSlotAt(p) == HashAt(p) % BucketItemHash
HashCheckAt(p) == (HashAt(p) \div BucketItemHash) % 256

(* The bytes of ibuf at p and at q agree for len bytes. *)
SameBytes(p, q, len) == \A k \in 0 .. len - 1 : ibuf[p + k] = ibuf[q + k]

(* GetCommonLength(ibuf + p, ibuf + q, kMatchMaxLen): zero unless the first *)
(* kMatchMinLen bytes agree, else the number of bytes that agree.           *)
CommonLength(p, q) ==
  IF ~SameBytes(p, q, MatchMinLen) THEN 0
  ELSE CHOOSE n \in MatchMinLen .. MatchMaxLen :
         /\ SameBytes(p, q, n)
         /\ n < MatchMaxLen => ibuf[p + n] # ibuf[q + n]

(* Too close to the end of the block for a match: nothing is entered into   *)
(* the buckets from here on.                                                *)
InTail(p) == p + MatchMaxLen + MatchGap >= ilen

(* The update half of MatchAndUpdate. *)
InsertNode(b, p) ==
  LET h == RollingAdd(b.head, 1)
  IN  [head   |-> h,
       offset |-> [b.offset EXCEPT ![h] = p],
       check  |-> [b.check EXCEPT ![h] = HashCheckAt(p)],
       suffix |-> [b.suffix EXCEPT ![h] = b.hash[HashSlotAt(p)]],
       hash   |-> [b.hash EXCEPT ![HashSlotAt(p)] = h]]

(* Fault, for mutation: an equal offset does not end the chain. *)
ChainEndsLate(b, n) ==
  LET s == b.suffix[n]
  IN  s = NoNode \/ b.offset[n] < b.offset[s]

(* A chain of nodes ends at a missing suffix, or at one that does not lie   *)
(* further back in the block (its node has been reused).                    *)
ChainEnds(b, n) ==
  LET s == b.suffix[n]
  IN  s = NoNode \/ b.offset[n] <= b.offset[s]

(* MatchLazy: is there a node among the first d of the chain at p whose     *)
(* bytes agree with those at p where a match longer than len would end?     *)
MatchLazy(p, len, d) ==
  LET b == encBucket[ibuf[p - 1]]
      chain[i \in 0 .. d - 1] ==
        IF i = 0 THEN b.hash[HashSlotAt(p)]
        ELSE IF chain[i - 1] = NoNode \/ ChainEnds(b, chain[i - 1]) THEN NoNode
        ELSE b.suffix[chain[i - 1]]
  IN  \E i \in 0 .. d - 1 :
        /\ chain[i] # NoNode
        /\ SameBytes(p + len - 3, b.offset[chain[i]] + len - 3, 4)

LazySkip(len) ==
  /\ len < MatchMinLenEnableLazy
  /\ \/ MatchLazy(ipos + 1, len, level.lazy1)
     \/ MatchLazy(ipos + 2, len, level.lazy2)
-----------------------------------------------------------------------------
(* Fault, for mutation: the buckets of the last block stay. *)
ResetEncoderSkipped == UNCHANGED encBucket

(* Reset(), and the construction of the encoder; Reset leaves m_mtf alone. *)
ResetEncoder == encBucket' = [c \in Byte |-> EmptyEncoderBucket]

(* EncodeImpl is entered for the rest of the block, at some level. *)
BeginEncode ==
  /\ epc = "idle"
  /\ ipos < ilen
  /\ level' \in Levels
  /\ tbuf' = <<>>
  /\ encMru' = NoWords
  /\ epc' = "token"
  /\ UNCHANGED <<ibuf, ilen, ipos, encBucket, encMtf, search>>

(* Fault, for mutation: room is kept for more than a token. *)
HasRoomTight == Len(tbuf) + 4 < BlockSizeRolz

(* The loop condition of EncodeImpl: room for a token of two entries. *)
HasRoom == Len(tbuf) + 1 < BlockSizeRolz

(* The first two bytes of a block are stored as they are. *)
EncodeFirst ==
  /\ epc = "token" /\ ipos < 2 /\ ipos < ilen /\ Len(tbuf) < BlockSizeRolz
  /\ tbuf' = Append(tbuf, ibuf[ipos])
  /\ ipos' = ipos + 1
  /\ UNCHANGED <<ibuf, ilen, encBucket, encMtf, encMru, level, search, epc>>

NextToken == epc = "token" /\ ipos >= 2 /\ ipos < ilen /\ HasRoom

(* Fault, for mutation: the reused node is searched. *)
NoCandidateUnlessReused(b, node) == node = NoNode

(* No search is made when the hash slot was empty, or named the very node   *)
(* that is being reused.                                                    *)
NoCandidate(b, node) == node = NoNode \/ node = RollingAdd(b.head, 1)

(* MatchAndUpdate: the position enters its bucket and the search begins. *)
StartMatch ==
  /\ NextToken /\ ~InTail(ipos)
  /\ LET c == ibuf[ipos - 1]
         node == encBucket[c].hash[HashSlotAt(ipos)]
     IN  /\ encBucket' = [encBucket EXCEPT ![c] = InsertNode(@, ipos)]
         /\ IF NoCandidate(encBucket[c], node)
            THEN epc' = "nomatch" /\ UNCHANGED search
            ELSE /\ epc' = "search"
                 /\ search' = [node |-> node, maxnode |-> 0,
                               maxlen |-> MatchMinLen - 1, i |-> 0]
  /\ UNCHANGED <<ibuf, ilen, ipos, tbuf, encMtf, encMru, level>>

(* One iteration of the search loop of MatchAndUpdate. *)
SearchStep ==
  /\ epc = "search"
  /\ LET b == encBucket[ibuf[ipos - 1]]
         n == search.node
         offset == b.offset[n]
         compare == /\ b.check[n] = HashCheckAt(ipos)
                    /\ ibuf[ipos + search.maxlen] = ibuf[offset + search.maxlen]
         len == CommonLength(ipos, offset)
         better == compare /\ len > search.maxlen
         best == IF better THEN [search EXCEPT !.maxnode = n, !.maxlen = len] ELSE search
         break == (better /\ len = MatchMaxLen) \/ ChainEnds(b, n)
     IN  IF break \/ search.i + 1 >= level.depth
         THEN epc' = "found" /\ search' = best
         ELSE epc' = epc /\ search' = [best EXCEPT !.node = b.suffix[n], !.i = @ + 1]
  /\ UNCHANGED <<ibuf, ilen, ipos, tbuf, encBucket, encMtf, encMru, level>>

(* The search found too little, or lazy parsing prefers a later match. *)
RejectMatch ==
  /\ epc = "found"
  /\ search.maxlen < MatchMinLen \/ LazySkip(search.maxlen)
  /\ epc' = "nomatch"
  /\ search' = NoSearch
  /\ UNCHANGED <<ibuf, ilen, ipos, tbuf, encBucket, encMtf, encMru, level>>

EncodeMatch ==
  /\ epc = "found"
  /\ search.maxlen >= MatchMinLen /\ ~LazySkip(search.maxlen)
  /\ LET head == encBucket[ibuf[ipos - 1]].head
         end == ipos + search.maxlen
     IN  /\ tbuf' = Append(Append(tbuf, MatchCode(search.maxlen)),
                           RollingSub(head, search.maxnode))
         /\ ipos' = end
         /\ encMru' = PushNewWord(encMru, ibuf[end - 3], <<ibuf[end - 2], ibuf[end - 1]>>)
  /\ epc' = "token"
  /\ search' = NoSearch
  /\ UNCHANGED <<ibuf, ilen, encBucket, encMtf, level>>

NoMatch == epc = "nomatch" \/ (NextToken /\ InTail(ipos))

(* The next two bytes are the word in this slot of word_mru. *)
IsWord(slot) ==
  /\ ipos + 1 < ilen
  /\ encMru[ibuf[ipos - 1]][slot] = <<ibuf[ipos], ibuf[ipos + 1]>>

EncodeWord0 ==
  /\ NoMatch /\ IsWord(0)
  /\ tbuf' = Append(tbuf, WordCode(0))
  /\ ipos' = ipos + 2
  /\ epc' = "token"
  /\ UNCHANGED <<ibuf, ilen, encBucket, encMtf, encMru, level, search>>

EncodeWord1 ==
  /\ NoMatch /\ ~IsWord(0) /\ IsWord(1)
  /\ tbuf' = Append(tbuf, WordCode(1))
  /\ ipos' = ipos + 2
  /\ encMru' = PushWord(encMru, ibuf[ipos - 1], <<ibuf[ipos], ibuf[ipos + 1]>>)
  /\ epc' = "token"
  /\ UNCHANGED <<ibuf, ilen, encBucket, encMtf, level, search>>

EncodeLiteral ==
  /\ NoMatch /\ ~IsWord(0) /\ ~IsWord(1)
  /\ LET c == ibuf[ipos - 1]
     IN  /\ tbuf' = Append(tbuf, MtfRank(encMtf[c], ibuf[ipos]))
         /\ encMtf' = [encMtf EXCEPT ![c] = MtfEncode(@, ibuf[ipos])]
         /\ encMru' = PushWord(encMru, ibuf[ipos - 2], <<c, ibuf[ipos]>>)
  /\ ipos' = ipos + 1
  /\ epc' = "token"
  /\ UNCHANGED <<ibuf, ilen, encBucket, level, search>>

EncodeToken == EncodeFirst \/ EncodeMatch \/ EncodeWord0 \/ EncodeWord1 \/ EncodeLiteral
EncodeSearch == StartMatch \/ SearchStep \/ RejectMatch

(* EncodeImpl returns: the token buffer is full or the block is used up. *)
EndEncode ==
  /\ epc = "token"
  /\ ipos >= ilen \/ (ipos >= 2 /\ ~HasRoom)
  /\ epc' = "idle"
  /\ UNCHANGED <<ibuf, ilen, ipos, tbuf, encBucket, encMtf, encMru, level, search>>
=============================================================================
