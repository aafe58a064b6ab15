-------------------------- MODULE HuffmanLengths --------------------------
(***************************************************************************)
(* ZlingMakeLengthTable: from how often each symbol occurs to the length   *)
(* of its code.  A Huffman tree is built from scaled frequencies; while it *)
(* is too deep the scaling is coarsened and the tree built again.  A node  *)
(* of the heap stands for a tree and is kept as its weight and the depth   *)
(* of each of its leaves.  Which of several lightest nodes the             *)
(* priority_queue yields is left open, as the library leaves it.           *)
(***************************************************************************)
EXTENDS HuffmanTables

CONSTANTS
  NumCodes,    (* max_codes                            *)
  MaxCodeLen,  (* max_codelen                          *)
  FastLen,     (* kHuffmanMaxLen1Fast, for a 2-level decode table *)
  FreqTables   (* the frequency tables to be coded     *)

Symbol == 0 .. NumCodes - 1

ASSUME HuffmanAssumption ==
  /\ MaxCodeLen \in 1 .. CodeWidth - 1
  /\ FastLen \in 1 .. MaxCodeLen
  /\ NumCodes \in 1 .. 2 ^ MaxCodeLen
  /\ FreqTables \subseteq [Symbol -> Nat]

VARIABLES
  freq,     (* freq_table                   *)
  scaling,  (* how often the frequencies have been halved *)
  nodes,    (* nodes_heap                   *)
  length,   (* length_table                 *)
  hpc       (* where the function stands    *)

vars == <<freq, scaling, nodes, length, hpc>>

Occurring == {s \in Symbol : freq[s] > 0}

(* Rounded up, so that no symbol that occurs loses its weight. *)
Weight(f, k) == (f + 2 ^ k - 1) \div 2 ^ k

Leaf(s) == [weight |-> Weight(freq[s], scaling), depth |-> [t \in {s} |-> 0]]

(* Fault, for mutation: a root weighs only what its heavier tree does. *)
JoinHeavier(a, b) ==
  [weight |-> IF a.weight > b.weight THEN a.weight ELSE b.weight,
   depth  |-> [s \in DOMAIN a.depth \cup DOMAIN b.depth |->
                 1 + IF s \in DOMAIN a.depth THEN a.depth[s] ELSE b.depth[s]]]

(* A new root above two trees. *)
Join(a, b) ==
  [weight |-> a.weight + b.weight,
   depth  |-> [s \in DOMAIN a.depth \cup DOMAIN b.depth |->
                 1 + IF s \in DOMAIN a.depth THEN a.depth[s] ELSE b.depth[s]]]

(* What top() may be. *)
Lightest(N) == {a \in N : \A b \in N : a.weight <= b.weight}

(* max(code_length, 1): a lone leaf still takes a bit. *)
CodeLength(depth) == IF depth = 0 THEN 1 ELSE depth

(* Fault, for mutation: a tree one level too deep is let through. *)
TooLongByTwo(len) == \E s \in Symbol : len[s] > MaxCodeLen + 1

(* Fault, for mutation: a tree as deep as is allowed is built again. *)
TooLongAtLimit(len) == \E s \in Symbol : len[s] >= MaxCodeLen

TooLong(len) == \E s \in Symbol : len[s] > MaxCodeLen

(* Fault, for mutation: the tree is built again from the same weights. *)
CoarserNot(k) == k

Coarser(k) == k + 1

Init ==
  /\ freq \in FreqTables
  /\ scaling = 0
  /\ nodes = {}
  /\ length = [s \in Symbol |-> 0]
  /\ hpc = "leaves"

(* build_huffman: the heap of leaves, or nothing at all to be coded. *)
MakeLeaves ==
  /\ hpc = "leaves"
  /\ nodes' = {Leaf(s) : s \in Occurring}
  /\ hpc' = IF Occurring = {} THEN "done" ELSE "join"
  /\ UNCHANGED <<freq, scaling, length>>

JoinTwo ==
  /\ hpc = "join" /\ Cardinality(nodes) > 1
  /\ \E a \in Lightest(nodes) : \E b \in Lightest(nodes \ {a}) :
       nodes' = (nodes \ {a, b}) \cup {Join(a, b)}
  /\ UNCHANGED <<freq, scaling, length, hpc>>

(* code_length_extractor, and the choice to scale and build again. *)
ExtractLengths ==
  /\ hpc = "join" /\ Cardinality(nodes) = 1
  /\ \E root \in nodes :
       length' = [s \in Symbol |->
                    IF s \in DOMAIN root.depth THEN CodeLength(root.depth[s]) ELSE length[s]]
  /\ nodes' = {}
  /\ IF TooLong(length')
     THEN scaling' = Coarser(scaling) /\ hpc' = "leaves"
     ELSE UNCHANGED scaling /\ hpc' = "done"
  /\ UNCHANGED freq

Terminating == hpc = "done" /\ UNCHANGED vars

Next == MakeLeaves \/ JoinTwo \/ ExtractLengths \/ Terminating

(* A sequential function: it keeps running until it returns. *)
Spec == Init /\ [][Next]_vars /\ WF_vars(Next)
-----------------------------------------------------------------------------
(* The result: a code for each symbol that occurs and for no other, none     *)
(* too long for the decoder's table, and room for all of them.               *)
LengthsAdmissible == hpc = "done" => Admissible(freq, length, MaxCodeLen)

(* A decoder with the two-level table finds each symbol from its code,       *)
(* whatever bits of later codes follow it: kHuffmanMaxLen1Fast bits first,   *)
(* all the bits when that entry is empty.                                    *)
TwoLevelLookup ==
  hpc = "done" =>
    LET encode == EncodeTable(length, MaxCodeLen)
        fast == DecodeTable(length, encode, FastLen)
        slow == DecodeTable(length, encode, MaxCodeLen)
    IN  \A s \in Occurring, rest \in 0 .. 2 ^ MaxCodeLen - 1 :
          LET bits == (encode[s] + rest * 2 ^ length[s]) % 2 ^ MaxCodeLen
              entry == fast[bits % 2 ^ FastLen]
          IN  s = IF entry = NoSymbol THEN slow[bits] ELSE entry

(* The symbols coded with these lengths take no more bits than with codes of *)
(* equal length; but if the tree was built of scaled frequencies, only but   *)
(* for what some of them were rounded up: a code shorter than l takes up     *)
(* room, so there are few of them.  The size of the output buffer relies on  *)
(* it.                                                                       *)
NoWorseThanFixed ==
  hpc = "done" =>
    \A l \in 1 .. MaxCodeLen :
      Cardinality(Occurring) <= 2 ^ l =>
        SumFunction([s \in Symbol |-> freq[s] * length[s]]) <= CodedBits(SumFunction(freq), l, scaling)

(* The tree is built again only if there is weight enough for one so deep    *)
(* that it is not let through; so it soon is let through.                    *)
RescaledSeldom ==
  scaling > 0 => ~ShallowEnough(CodeOf(NumCodes, MaxCodeLen), SumFunction(freq), scaling - 1)

(* Coarser weights make the tree shallow enough in the end.                  *)
Terminates == <>(hpc = "done")
=============================================================================
