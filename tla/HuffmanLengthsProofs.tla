----------------------- MODULE HuffmanLengthsProofs -----------------------
(***************************************************************************)
(* What ZlingMakeLengthTable hands on is fit to be coded with, for any     *)
(* number of codes, any longest code and any frequencies: every symbol     *)
(* that occurs has a length, none too long for the decoder's table, there  *)
(* is room for all the codes, and they are not much worse than codes of    *)
(* equal length would be.                                                  *)
(***************************************************************************)
EXTENDS HuffmanLengths, HuffmanTablesProofs
-----------------------------------------------------------------------------
(***************************************************************************)
(* The leaves of a tree as stretches of 0 .. 2^D - 1.                      *)
(***************************************************************************)
(* A leaf at depth d[s] has 2^(D - d[s]) places at depth D below it. *)
Slots(d, D) == {p \in (DOMAIN d) \X (0 .. 2 ^ D - 1) : p[2] < 2 ^ (D - d[p[1]])}

LEMMA Below ==
  ASSUME NEW n \in Nat
  PROVE  IsFiniteSet(0 .. n - 1) /\ Cardinality(0 .. n - 1) = n
<1>1. IsFiniteSet(0 .. n - 1) /\ Cardinality(0 .. n - 1) = IF 0 > n - 1 THEN 0 ELSE (n - 1) - 0 + 1
  BY FS_Interval
<1> QED
  BY <1>1

LEMMA SlotsFinite ==
  ASSUME NEW d, IsFiniteSet(DOMAIN d), NEW D \in Nat
  PROVE  IsFiniteSet(Slots(d, D)) /\ Cardinality(Slots(d, D)) \in Nat
<1> DEFINE R == (DOMAIN d) \X (0 .. 2 ^ D - 1)
<1>1. IsFiniteSet(0 .. 2 ^ D - 1)
  BY PowerPositive, Below
<1>2. IsFiniteSet(R)
  BY <1>1, FS_Product
<1>3. Slots(d, D) \in SUBSET R
  BY DEF Slots
<1> HIDE DEF R
<1>4. IsFiniteSet(Slots(d, D))
  BY <1>2, <1>3, FS_Subset
<1> QED
  BY <1>4, FS_CardinalityType

(* KraftSum counts the slots of the codes. *)
Taken(len, maxlen, l) ==
  {p \in (DOMAIN len) \X (0 .. 2 ^ maxlen - 1) :
     len[p[1]] \in 1 .. l /\ p[2] < 2 ^ (maxlen - len[p[1]])}

LEMMA KraftCounts ==
  ASSUME NEW len, NEW maxlen, LengthTable(len, maxlen)
  PROVE  KraftSum(len, maxlen)[maxlen] = Cardinality(Taken(len, maxlen, maxlen))
<1> DEFINE K == KraftSum(len, maxlen)
           Up(l) == Taken(len, maxlen, l)
           S == {l \in 0 .. maxlen : IsFiniteSet(Up(l)) /\ K[l] = Cardinality(Up(l))}
<1>1. maxlen \in Nat /\ IsFiniteSet(DOMAIN len) /\ \A s \in DOMAIN len : len[s] \in 0 .. maxlen
  BY DEF LengthTable
<1>2. /\ K \in [0 .. maxlen -> Nat] /\ K[0] = 0
      /\ \A l \in 1 .. maxlen : K[l] = K[l - 1] + Count(len, l) * 2 ^ (maxlen - l)
  BY KraftOfTable
<1> HIDE DEF K
<1>3. 0 \in S
  <2>1. Up(0) = {}
    BY DEF Taken
  <2>2. IsFiniteSet({}) /\ Cardinality({}) = 0
    BY FS_EmptySet
  <2>3. 0 \in 0 .. maxlen
    BY <1>1
  <2> HIDE DEF Up
  <2>4. IsFiniteSet(Up(0)) /\ K[0] = Cardinality(Up(0))
    BY <1>2, <2>1, <2>2
  <2> QED
    BY <2>3, <2>4
<1>4. ASSUME NEW l \in 1 .. maxlen, l - 1 \in S PROVE l \in S
  <2> DEFINE q == 2 ^ (maxlen - l)
             A == OfLength(len, l)
             B == A \X (0 .. q - 1)
  <2>1. l \in Nat /\ maxlen - l \in 0 .. maxlen
    BY <1>1
  <2>2. q \in Nat /\ 2 ^ maxlen \in Nat /\ q <= 2 ^ maxlen
    <3>1. maxlen - l \in Nat
      BY <2>1
    <3> QED
      BY <1>1, <2>1, <3>1, PowerPositive, PowerMonotone
  <2>3. IsFiniteSet(A) /\ Cardinality(A) = Count(len, l) /\ Count(len, l) \in Nat
    BY CountOfTable DEF Count
  <2> DEFINE N == 2 ^ maxlen
             R == (DOMAIN len) \X (0 .. N - 1)
  <2>4. Up(l) = Up(l - 1) \cup B
    <3>1. ASSUME NEW p \in Up(l) PROVE p \in Up(l - 1) \cup B
      <4>1. p \in R /\ len[p[1]] \in 1 .. l /\ p[2] < 2 ^ (maxlen - len[p[1]])
        BY DEF Taken
      <4>2. CASE len[p[1]] = l
        <5>1. p[1] \in A /\ p[2] < q
          BY <4>1, <4>2 DEF OfLength
        <5> HIDE DEF q, A
        <5>2. p[2] \in 0 .. q - 1
          BY <2>2, <4>1, <5>1
        <5> QED
          BY <4>1, <5>1, <5>2
      <4>3. CASE len[p[1]] # l
        <5>1. len[p[1]] \in 1 .. l - 1
          BY <2>1, <4>1, <4>3
        <5> QED
          BY <4>1, <5>1 DEF Taken
      <4> QED
        BY <4>2, <4>3
    <3>2. ASSUME NEW p \in Up(l - 1) PROVE p \in Up(l)
      <4>1. p \in R /\ len[p[1]] \in 1 .. l - 1 /\ p[2] < 2 ^ (maxlen - len[p[1]])
        BY DEF Taken
      <4>2. len[p[1]] \in 1 .. l
        BY <2>1, <4>1
      <4> QED
        BY <4>1, <4>2 DEF Taken
    <3>3. ASSUME NEW p \in B PROVE p \in Up(l)
      <4>1. p[1] \in DOMAIN len /\ len[p[1]] = l /\ p[2] \in 0 .. q - 1 /\ p = <<p[1], p[2]>>
        BY DEF OfLength
      <4>2. p[2] \in 0 .. N - 1 /\ p[2] < q
        <5> HIDE DEF q
        <5> QED
          BY <2>2, <4>1
      <4>3. p \in R
        BY <4>1, <4>2
      <4>4. l \in 1 .. l
        BY <2>1
      <4> QED
        BY <4>1, <4>2, <4>3, <4>4 DEF Taken
    <3> QED
      BY <3>1, <3>2, <3>3
  <2>5. Up(l - 1) \cap B = {}
    <3> SUFFICES ASSUME NEW p \in Up(l - 1), p \in B PROVE FALSE
      OBVIOUS
    <3>1. len[p[1]] \in 1 .. l - 1 /\ len[p[1]] = l
      BY DEF Taken, OfLength
    <3> QED
      BY <2>1, <3>1
  <2>6. IsFiniteSet(B) /\ Cardinality(B) = Count(len, l) * q
    <3> HIDE DEF q, A
    <3>1. IsFiniteSet(0 .. q - 1) /\ Cardinality(0 .. q - 1) = q
      BY <2>2, Below
    <3> QED
      BY <2>3, <3>1, FS_Product
  <2>7. IsFiniteSet(Up(l - 1)) /\ K[l - 1] = Cardinality(Up(l - 1)) /\ K[l - 1] \in Nat
    <3>1. IsFiniteSet(Up(l - 1)) /\ K[l - 1] = Cardinality(Up(l - 1))
      BY <1>4
    <3> QED
      BY <3>1, FS_CardinalityType
  <2>8. K[l] = K[l - 1] + Count(len, l) * q
    BY <1>2
  <2> DEFINE c == Count(len, l) * q
  <2>9. c \in Nat
    <3> HIDE DEF q
    <3> QED
      BY <2>2, <2>3
  <2> HIDE DEF Up, B, c
  <2>10. IsFiniteSet(Up(l)) /\ Cardinality(Up(l)) = Cardinality(Up(l - 1)) + Cardinality(B)
    <3>1. IsFiniteSet(Up(l)) /\ Cardinality(Up(l)) = Cardinality(Up(l - 1)) + Cardinality(B) - Cardinality({})
      BY <2>4, <2>5, <2>6, <2>7, FS_Union
    <3>2. Cardinality(B) = c
      BY <2>6 DEF c
    <3> QED
      BY <2>7, <2>9, <3>1, <3>2, FS_EmptySet
  <2>11. K[l] = Cardinality(Up(l))
    BY <2>6, <2>7, <2>8, <2>10 DEF c
  <2> QED
    BY <1>1, <2>1, <2>10, <2>11
<1> HIDE DEF S
<1>5. maxlen \in S
  BY <1>1, <1>3, <1>4, UpTo
<1> QED
  BY <1>5 DEF S, K
-----------------------------------------------------------------------------
(***************************************************************************)
(* Trees.                                                                  *)
(***************************************************************************)
(* The leaves of a tree that is full leave no place below it free. *)
Full(d) ==
  \A D \in Nat : (\A s \in DOMAIN d : d[s] <= D) => Cardinality(Slots(d, D)) = 2 ^ D

IsDepth(d) == IsFiniteSet(DOMAIN d) /\ DOMAIN d # {} /\ \A s \in DOMAIN d : d[s] \in Nat

(* A leaf alone is a full tree. *)
LEMMA LeafIsFull ==
  ASSUME NEW s, NEW d, DOMAIN d = {s}, d[s] = 0
  PROVE  IsDepth(d) /\ Full(d)
<1> IsFiniteSet({s}) /\ Cardinality({s}) = 1
  BY FS_Singleton
<1>1. IsDepth(d)
  BY DEF IsDepth
<1>2. ASSUME NEW D \in Nat PROVE Cardinality(Slots(d, D)) = 2 ^ D
  <2> DEFINE N == 2 ^ D
  <2>1. N \in Nat
    BY PowerPositive
  <2>2. Slots(d, D) = {s} \X (0 .. N - 1)
    <3>1. D - 0 = D
      OBVIOUS
    <3>2. \A p \in {s} \X (0 .. N - 1) : d[p[1]] = 0 /\ p[2] < N
      BY <2>1
    <3> QED
      BY <3>1, <3>2 DEF Slots
  <2> HIDE DEF N
  <2>3. IsFiniteSet(0 .. N - 1) /\ Cardinality(0 .. N - 1) = N
    BY <2>1, Below
  <2>4. Cardinality({s} \X (0 .. N - 1)) = 1 * N
    <3>1. Cardinality({s} \X (0 .. N - 1)) = Cardinality({s}) * Cardinality(0 .. N - 1)
      BY <2>3, FS_Product
    <3> QED
      BY <2>3, <3>1
  <2>5. 1 * N = N
    BY <2>1
  <2> QED
    BY <2>2, <2>4, <2>5 DEF N
<1> QED
  BY <1>1, <1>2 DEF Full

(* So is a root above two full trees. *)
LEMMA JoinIsFull ==
  ASSUME NEW a, NEW b, IsDepth(a.depth), IsDepth(b.depth), Full(a.depth), Full(b.depth),
         DOMAIN a.depth \cap DOMAIN b.depth = {}
  PROVE  /\ DOMAIN Join(a, b).depth = DOMAIN a.depth \cup DOMAIN b.depth
         /\ IsDepth(Join(a, b).depth) /\ Full(Join(a, b).depth)
<1> DEFINE d == Join(a, b).depth
           A == DOMAIN a.depth
           B == DOMAIN b.depth
<1>1. DOMAIN d = A \cup B
  BY DEF Join
<1>2. /\ \A s \in A : d[s] = 1 + a.depth[s]
      /\ \A s \in B : d[s] = 1 + b.depth[s]
  BY DEF Join
<1>3. /\ IsFiniteSet(A) /\ A # {} /\ \A s \in A : a.depth[s] \in Nat
      /\ IsFiniteSet(B) /\ B # {} /\ \A s \in B : b.depth[s] \in Nat
  BY DEF IsDepth
<1> HIDE DEF d
<1>4. IsDepth(d)
  <2>1. IsFiniteSet(A \cup B)
    BY <1>3, FS_Union
  <2>2. \A s \in A \cup B : d[s] \in Nat
    BY <1>2, <1>3
  <2> QED
    BY <1>1, <1>3, <2>1, <2>2 DEF IsDepth
<1>5. ASSUME NEW D \in Nat, \A s \in DOMAIN d : d[s] <= D
      PROVE  Cardinality(Slots(d, D)) = 2 ^ D
  <2> DEFINE C == D - 1
             N == 2 ^ D
             M == 2 ^ C
  <2>1. C \in Nat /\ (\A s \in A : a.depth[s] <= C) /\ (\A s \in B : b.depth[s] <= C)
    <3>1. PICK s \in A : TRUE
      BY <1>3
    <3>2. d[s] <= D /\ d[s] = 1 + a.depth[s] /\ a.depth[s] \in Nat
      BY <1>1, <1>2, <1>3, <1>5
    <3>3. \A t \in A : a.depth[t] <= C
      BY <1>1, <1>2, <1>3, <1>5
    <3>4. \A t \in B : b.depth[t] <= C
      BY <1>1, <1>2, <1>3, <1>5
    <3> QED
      BY <3>2, <3>3, <3>4
  <2>2. C + 1 = D
    OBVIOUS
  <2> HIDE DEF C
  <2>3. M \in Nat /\ N = 2 * M
    BY <2>1, <2>2, PowerPositive, PowerNext
  <2>4. ASSUME NEW s \in DOMAIN d
        PROVE  (s \in A => D - d[s] = C - a.depth[s]) /\ (s \in B => D - d[s] = C - b.depth[s])
    BY <1>2, <1>3, <2>1, <2>2
  <2>5. ASSUME NEW k \in 0 .. C PROVE 2 ^ k <= M /\ 2 ^ k \in Nat
    BY <2>1, PowerMonotone, PowerPositive
  <2> HIDE DEF M, N
  <2>6. Slots(a.depth, C) = {p \in A \X (0 .. M - 1) : p[2] < 2 ^ (C - a.depth[p[1]])}
    BY DEF Slots, M
  <2>7. Slots(b.depth, C) = {p \in B \X (0 .. M - 1) : p[2] < 2 ^ (C - b.depth[p[1]])}
    BY DEF Slots, M
  <2>8. Slots(d, D) = {p \in (A \cup B) \X (0 .. N - 1) : p[2] < 2 ^ (D - d[p[1]])}
    BY <1>1 DEF Slots, N
  <2>9. Slots(d, D) = Slots(a.depth, C) \cup Slots(b.depth, C)
    <3>1. ASSUME NEW s \in A, NEW x
          PROVE  x \in 0 .. N - 1 /\ x < 2 ^ (D - d[s]) <=> x \in 0 .. M - 1 /\ x < 2 ^ (C - a.depth[s])
      <4> DEFINE k == C - a.depth[s]
      <4>1. D - d[s] = k /\ k \in 0 .. C
        BY <1>1, <1>3, <2>1, <2>4
      <4> DEFINE q == 2 ^ k
      <4>2. q <= M /\ q \in Nat
        <5> HIDE DEF k
        <5> QED
          BY <2>5, <4>1
      <4> HIDE DEF q
      <4>3. x \in 0 .. N - 1 /\ x < q <=> x \in 0 .. M - 1 /\ x < q
        BY <2>3, <4>2
      <4> QED
        BY <4>1, <4>3 DEF q
    <3>2. ASSUME NEW s \in B, NEW x
          PROVE  x \in 0 .. N - 1 /\ x < 2 ^ (D - d[s]) <=> x \in 0 .. M - 1 /\ x < 2 ^ (C - b.depth[s])
      <4> DEFINE k == C - b.depth[s]
      <4>1. D - d[s] = k /\ k \in 0 .. C
        BY <1>1, <1>3, <2>1, <2>4
      <4> DEFINE q == 2 ^ k
      <4>2. q <= M /\ q \in Nat
        <5> HIDE DEF k
        <5> QED
          BY <2>5, <4>1
      <4> HIDE DEF q
      <4>3. x \in 0 .. N - 1 /\ x < q <=> x \in 0 .. M - 1 /\ x < q
        BY <2>3, <4>2
      <4> QED
        BY <4>1, <4>3 DEF q
    <3>3. ASSUME NEW p \in Slots(d, D) PROVE p \in Slots(a.depth, C) \cup Slots(b.depth, C)
      <4>1. p[1] \in A \cup B /\ p[2] \in 0 .. N - 1 /\ p = <<p[1], p[2]>> /\ p[2] < 2 ^ (D - d[p[1]])
        BY <2>8
      <4>2. CASE p[1] \in A
        <5>1. p[2] \in 0 .. M - 1 /\ p[2] < 2 ^ (C - a.depth[p[1]])
          BY <3>1, <4>1, <4>2
        <5>2. p \in A \X (0 .. M - 1)
          BY <4>1, <4>2, <5>1
        <5> QED
          BY <2>6, <5>1, <5>2
      <4>3. CASE p[1] \in B
        <5>1. p[2] \in 0 .. M - 1 /\ p[2] < 2 ^ (C - b.depth[p[1]])
          BY <3>2, <4>1, <4>3
        <5>2. p \in B \X (0 .. M - 1)
          BY <4>1, <4>3, <5>1
        <5> QED
          BY <2>7, <5>1, <5>2
      <4> QED
        BY <4>1, <4>2, <4>3
    <3>4. ASSUME NEW p \in Slots(a.depth, C) PROVE p \in Slots(d, D)
      <4>1. p[1] \in A /\ p[2] \in 0 .. M - 1 /\ p = <<p[1], p[2]>> /\ p[2] < 2 ^ (C - a.depth[p[1]])
        BY <2>6
      <4>2. p[2] \in 0 .. N - 1 /\ p[2] < 2 ^ (D - d[p[1]])
        BY <3>1, <4>1
      <4>3. p \in (A \cup B) \X (0 .. N - 1)
        BY <4>1, <4>2
      <4> QED
        BY <2>8, <4>2, <4>3
    <3>5. ASSUME NEW p \in Slots(b.depth, C) PROVE p \in Slots(d, D)
      <4>1. p[1] \in B /\ p[2] \in 0 .. M - 1 /\ p = <<p[1], p[2]>> /\ p[2] < 2 ^ (C - b.depth[p[1]])
        BY <2>7
      <4>2. p[2] \in 0 .. N - 1 /\ p[2] < 2 ^ (D - d[p[1]])
        BY <3>2, <4>1
      <4>3. p \in (A \cup B) \X (0 .. N - 1)
        BY <4>1, <4>2
      <4> QED
        BY <2>8, <4>2, <4>3
    <3> QED
      BY <3>3, <3>4, <3>5
  <2>10. Slots(a.depth, C) \cap Slots(b.depth, C) = {}
    BY <2>6, <2>7
  <2>11. Cardinality(Slots(a.depth, C)) = M /\ Cardinality(Slots(b.depth, C)) = M
    BY <2>1 DEF Full, M
  <2>12. IsFiniteSet(Slots(a.depth, C)) /\ IsFiniteSet(Slots(b.depth, C))
    BY <1>3, <2>1, SlotsFinite
  <2>13. Cardinality(Slots(d, D)) = M + M - 0
    BY <2>9, <2>10, <2>11, <2>12, FS_Union, FS_EmptySet
  <2> QED
    BY <2>3, <2>13 DEF N
<1> QED
  BY <1>1, <1>4, <1>5 DEF Full, d

(* Lengths of at least a bit and at least the depth of the leaf fit. *)
LEMMA LengthsOfTree ==
  ASSUME NEW len, NEW maxlen, LengthTable(len, maxlen), NEW d, IsDepth(d), Full(d),
         DOMAIN d = {s \in DOMAIN len : len[s] # 0}, \A s \in DOMAIN d : d[s] <= len[s]
  PROVE  KraftSum(len, maxlen)[maxlen] <= 2 ^ maxlen
<1>1. maxlen \in Nat /\ \A s \in DOMAIN len : len[s] \in 0 .. maxlen
  BY DEF LengthTable
<1>2. \A s \in DOMAIN d : d[s] \in Nat /\ d[s] <= maxlen
  BY <1>1 DEF IsDepth
<1>3. Cardinality(Slots(d, maxlen)) = 2 ^ maxlen /\ IsFiniteSet(Slots(d, maxlen))
  BY <1>1, <1>2, SlotsFinite DEF Full, IsDepth
<1>4. Taken(len, maxlen, maxlen) \in SUBSET Slots(d, maxlen)
  <2> DEFINE N == 2 ^ maxlen
             R == (DOMAIN len) \X (0 .. N - 1)
  <2> SUFFICES ASSUME NEW p \in Taken(len, maxlen, maxlen) PROVE p \in Slots(d, maxlen)
    OBVIOUS
  <2>1. p \in R /\ len[p[1]] \in 1 .. maxlen /\ p[2] < 2 ^ (maxlen - len[p[1]])
    BY DEF Taken
  <2> DEFINE s == p[1]
             i == maxlen - len[s]
             j == maxlen - d[s]
             u == 2 ^ i
             v == 2 ^ j
  <2>2. s \in DOMAIN d /\ p[2] \in 0 .. N - 1
    BY <2>1
  <2>3. j \in Nat /\ i \in 0 .. j
    BY <1>1, <1>2, <2>1, <2>2
  <2>4. u <= v /\ u \in Nat /\ v \in Nat
    <3>1. i \in Nat
      BY <2>3
    <3> HIDE DEF i, j
    <3> QED
      BY <2>3, <3>1, PowerMonotone, PowerPositive
  <2>5. N \in Nat
    BY <1>1, PowerPositive
  <2>6. p[2] < v
    <3>1. p[2] < u
      BY <2>1
    <3> HIDE DEF u, v, N
    <3> QED
      BY <2>2, <2>4, <2>5, <3>1
  <2>7. p \in (DOMAIN d) \X (0 .. N - 1)
    BY <2>1, <2>2
  <2> QED
    BY <2>6, <2>7 DEF Slots
<1>5. Cardinality(Taken(len, maxlen, maxlen)) <= Cardinality(Slots(d, maxlen))
  BY <1>3, <1>4, FS_Subset
<1> QED
  BY <1>3, <1>5, KraftCounts

(* No code at all takes no room. *)
LEMMA NoLengths ==
  ASSUME NEW len, NEW maxlen, LengthTable(len, maxlen), \A s \in DOMAIN len : len[s] = 0
  PROVE  KraftSum(len, maxlen)[maxlen] <= 2 ^ maxlen
<1>1. Taken(len, maxlen, maxlen) = {}
  BY DEF Taken
<1>2. KraftSum(len, maxlen)[maxlen] = 0
  BY <1>1, KraftCounts, FS_EmptySet
<1>3. maxlen \in Nat
  BY DEF LengthTable
<1>4. 2 ^ maxlen >= 0
  BY <1>3, PowerPositive
<1> QED
  BY <1>2, <1>4
-----------------------------------------------------------------------------
(***************************************************************************)
(* The loop of ZlingMakeLengthTable.                                       *)
(***************************************************************************)
(* Every node of the heap is a full tree; no symbol is in two of them, and   *)
(* between them they have the symbols that occur.                            *)
Forest ==
  /\ IsFiniteSet(nodes)
  /\ \A n \in nodes : IsDepth(n.depth) /\ Full(n.depth)
  /\ \A m, n \in nodes : m # n => DOMAIN m.depth \cap DOMAIN n.depth = {}
  /\ UNION {DOMAIN n.depth : n \in nodes} = Occurring

(* Lengths are given to the symbols that occur and to no other; and while    *)
(* the tree is built the heap is such a forest.                              *)
HInv ==
  /\ freq \in [Symbol -> Nat]
  /\ length \in [Symbol -> Nat] /\ \A s \in Symbol : freq[s] = 0 => length[s] = 0
  /\ hpc \in {"leaves", "join", "done"}
  /\ hpc = "join" => Forest
  /\ LengthsAdmissible

LEMMA SymbolsFinite == IsFiniteSet(Symbol) /\ Symbol \subseteq Int /\ MaxCodeLen \in Nat \ {0}
<1>1. NumCodes - 1 \in Int /\ MaxCodeLen \in Nat \ {0}
  <2>1. MaxCodeLen \in Nat \ {0}
    BY HuffmanAssumption DEF CodeWidth
  <2> QED
    BY <2>1, HuffmanAssumption, PowerPositive
<1>2. IsFiniteSet(0 .. NumCodes - 1)
  BY <1>1, FS_Interval
<1> QED
  BY <1>1, <1>2 DEF Symbol

LEMMA HInit == Init => HInv
<1> SUFFICES ASSUME Init PROVE HInv
  OBVIOUS
<1>1. freq \in [Symbol -> Nat]
  BY HuffmanAssumption DEF Init
<1> QED
  BY <1>1 DEF Init, HInv, LengthsAdmissible

LEMMA HLeaves == HInv /\ MakeLeaves => HInv'
<1> SUFFICES ASSUME HInv, MakeLeaves PROVE HInv'
  OBVIOUS
<1> USE DEF HInv
<1>1. freq' = freq /\ length' = length /\ Occurring' = Occurring /\ nodes' = {Leaf(s) : s \in Occurring}
  BY DEF MakeLeaves, Occurring
<1>2. hpc' = IF Occurring = {} THEN "done" ELSE "join"
  BY DEF MakeLeaves
<1>3. \A s \in Symbol : freq[s] = 0 <=> s \notin Occurring
  BY DEF Occurring
<1>4. \A s \in Occurring : DOMAIN Leaf(s).depth = {s} /\ Leaf(s).depth[s] = 0
  BY DEF Leaf
<1>5. Forest'
  <2>1. IsFiniteSet(nodes')
    <3>1. Occurring \in SUBSET Symbol
      BY DEF Occurring
    <3>2. IsFiniteSet(Occurring)
      BY <3>1, SymbolsFinite, FS_Subset
    <3> DEFINE f == [s \in Occurring |-> Leaf(s)]
    <3>3. f \in Surjection(Occurring, nodes')
      BY <1>1 DEF Surjection
    <3> QED
      BY <3>2, <3>3, FS_Surjection
  <2>2. \A n \in nodes' : IsDepth(n.depth) /\ Full(n.depth)
    <3> SUFFICES ASSUME NEW s \in Occurring PROVE IsDepth(Leaf(s).depth) /\ Full(Leaf(s).depth)
      BY <1>1
    <3> QED
      BY <1>4, LeafIsFull
  <2>3. \A m, n \in nodes' : m # n => DOMAIN m.depth \cap DOMAIN n.depth = {}
    <3> SUFFICES ASSUME NEW s \in Occurring, NEW t \in Occurring, Leaf(s) # Leaf(t)
                 PROVE  DOMAIN Leaf(s).depth \cap DOMAIN Leaf(t).depth = {}
      BY <1>1
    <3> QED
      BY <1>4
  <2>4. UNION {DOMAIN n.depth : n \in nodes'} = Occurring
    <3>1. \A s \in Occurring : Leaf(s) \in nodes' /\ s \in DOMAIN Leaf(s).depth
      BY <1>1, <1>4
    <3>2. \A n \in nodes' : DOMAIN n.depth \subseteq Occurring
      BY <1>1, <1>4
    <3> QED
      BY <3>1, <3>2
  <2> QED
    BY <1>1, <2>1, <2>2, <2>3, <2>4 DEF Forest
<1>6. LengthsAdmissible'
  <2> SUFFICES ASSUME Occurring = {} PROVE Admissible(freq, length, MaxCodeLen)
    BY <1>1, <1>2 DEF LengthsAdmissible
  <2>1. DOMAIN length = Symbol /\ DOMAIN freq = Symbol /\ \A s \in Symbol : length[s] = 0 /\ freq[s] = 0
    BY <1>3
  <2>2. 0 \in 0 .. MaxCodeLen
    BY SymbolsFinite
  <2>3. LengthTable(length, MaxCodeLen)
    BY <2>1, <2>2, SymbolsFinite DEF LengthTable
  <2> QED
    BY <2>1, <2>2, <2>3, NoLengths DEF Admissible
<1> QED
  BY <1>1, <1>2, <1>5, <1>6

LEMMA HJoin == HInv /\ JoinTwo => HInv'
<1> SUFFICES ASSUME HInv, JoinTwo PROVE HInv'
  OBVIOUS
<1> USE DEF HInv
<1>1. hpc = "join" /\ hpc' = hpc /\ freq' = freq /\ length' = length /\ Occurring' = Occurring
  BY DEF JoinTwo, Occurring
<1>2. PICK a \in nodes, b \in nodes : a # b /\ nodes' = (nodes \ {a, b}) \cup {Join(a, b)}
  BY DEF JoinTwo, Lightest
<1> DEFINE c == Join(a, b)
<1>3. Forest
  BY <1>1
<1>4. DOMAIN c.depth = DOMAIN a.depth \cup DOMAIN b.depth /\ IsDepth(c.depth) /\ Full(c.depth)
  <2>1. DOMAIN a.depth \cap DOMAIN b.depth = {}
    BY <1>2, <1>3 DEF Forest
  <2> QED
    BY <1>2, <1>3, <2>1, JoinIsFull DEF Forest
<1> HIDE DEF c
<1>5. nodes' = (nodes \ {a, b}) \cup {c}
  BY <1>2 DEF c
<1>6. Forest'
  <2>1. IsFiniteSet(nodes')
    <3>1. IsFiniteSet(nodes \ {a, b})
      BY <1>3, FS_Difference DEF Forest
    <3> QED
      BY <1>5, <3>1, FS_AddElement
  <2>2. \A n \in nodes' : IsDepth(n.depth) /\ Full(n.depth)
    BY <1>3, <1>4, <1>5 DEF Forest
  <2>3. \A m, n \in nodes' : m # n => DOMAIN m.depth \cap DOMAIN n.depth = {}
    <3>1. ASSUME NEW m \in nodes \ {a, b} PROVE DOMAIN m.depth \cap DOMAIN c.depth = {}
      BY <1>2, <1>3, <1>4 DEF Forest
    <3> QED
      BY <1>3, <1>5, <3>1 DEF Forest
  <2>4. UNION {DOMAIN n.depth : n \in nodes'} = Occurring
    <3>1. ASSUME NEW s \in Occurring PROVE \E n \in nodes' : s \in DOMAIN n.depth
      <4>1. PICK n \in nodes : s \in DOMAIN n.depth
        BY <1>3 DEF Forest
      <4>2. CASE n \in {a, b}
        BY <1>4, <1>5, <4>1, <4>2
      <4>3. CASE n \notin {a, b}
        BY <1>5, <4>1, <4>3
      <4> QED
        BY <4>2, <4>3
    <3>2. ASSUME NEW n \in nodes' PROVE DOMAIN n.depth \subseteq Occurring
      <4>1. \A m \in nodes : DOMAIN m.depth \subseteq Occurring
        BY <1>3 DEF Forest
      <4> QED
        BY <1>2, <1>4, <1>5, <4>1
    <3> QED
      BY <3>1, <3>2
  <2> QED
    BY <1>1, <2>1, <2>2, <2>3, <2>4 DEF Forest
<1>7. LengthsAdmissible'
  BY <1>1 DEF LengthsAdmissible
<1> QED
  BY <1>1, <1>6, <1>7

LEMMA HExtract == HInv /\ ExtractLengths => HInv'
<1> SUFFICES ASSUME HInv, ExtractLengths PROVE HInv'
  OBVIOUS
<1> USE DEF HInv
<1>1. /\ hpc = "join" /\ freq' = freq /\ Occurring' = Occurring
      /\ hpc' = IF TooLong(length') THEN "leaves" ELSE "done"
  BY DEF ExtractLengths, Occurring
<1>2. Forest /\ Cardinality(nodes) = 1
  BY <1>1 DEF ExtractLengths
<1>3. PICK root \in nodes :
        length' = [s \in Symbol |->
                     IF s \in DOMAIN root.depth THEN CodeLength(root.depth[s]) ELSE length[s]]
  BY DEF ExtractLengths
<1> DEFINE d == root.depth
<1>4. nodes = {root}
  BY <1>2, <1>3, FS_Singleton DEF Forest
<1>5. IsDepth(d) /\ Full(d) /\ DOMAIN d = Occurring
  BY <1>2, <1>4 DEF Forest
<1>6. \A s \in DOMAIN d : d[s] \in Nat
  BY <1>5 DEF IsDepth
<1>7. \A s \in Symbol : freq[s] = 0 <=> s \notin Occurring
  BY DEF Occurring
<1>8. /\ \A s \in Occurring : s \in Symbol => length'[s] = CodeLength(d[s])
      /\ \A s \in Symbol \ Occurring : length'[s] = length[s]
  BY <1>3, <1>5
<1> HIDE DEF d
<1>9. \A s \in Occurring : s \in Symbol /\ length'[s] \in Nat /\ length'[s] # 0 /\ d[s] <= length'[s]
  <2> SUFFICES ASSUME NEW s \in Occurring
               PROVE  s \in Symbol /\ length'[s] \in Nat /\ length'[s] # 0 /\ d[s] <= length'[s]
    OBVIOUS
  <2>1. s \in Symbol /\ d[s] \in Nat
    BY <1>5, <1>6 DEF Occurring
  <2> QED
    BY <1>8, <2>1 DEF CodeLength
<1>10. \A s \in Symbol \ Occurring : length'[s] = 0
  BY <1>7, <1>8
<1>11. length' \in [Symbol -> Nat]
  <2>1. \A s \in Symbol : length'[s] \in Nat
    BY <1>9, <1>10
  <2> QED
    BY <1>3, <2>1
<1>12. LengthsAdmissible'
  <2> SUFFICES ASSUME hpc' = "done" PROVE Admissible(freq', length', MaxCodeLen)
    BY DEF LengthsAdmissible
  <2>1. \A s \in Symbol : length'[s] \in 0 .. MaxCodeLen
    <3>1. \A s \in Symbol : ~(length'[s] > MaxCodeLen)
      BY <1>1 DEF TooLong
    <3> QED
      BY <1>11, <3>1, SymbolsFinite
  <2>2. DOMAIN length' = Symbol /\ DOMAIN freq' = Symbol
    BY <1>1, <1>11
  <2>3. LengthTable(length', MaxCodeLen)
    BY <2>1, <2>2, SymbolsFinite DEF LengthTable
  <2>4. DOMAIN d = {s \in DOMAIN length' : length'[s] # 0}
    BY <1>5, <1>9, <1>10, <2>2
  <2>5. KraftSum(length', MaxCodeLen)[MaxCodeLen] <= 2 ^ MaxCodeLen
    BY <1>5, <1>9, <2>3, <2>4, LengthsOfTree
  <2>6. \A s \in Symbol : freq'[s] > 0 <=> length'[s] > 0
    BY <1>1, <1>7, <1>9, <1>10
  <2> QED
    BY <2>1, <2>2, <2>5, <2>6 DEF Admissible
<1>13. hpc' \in {"leaves", "join", "done"} /\ hpc' # "join"
  BY <1>1
<1> QED
  BY <1>1, <1>7, <1>10, <1>11, <1>12, <1>13

LEMMA HNext == HInv /\ [Next]_vars => HInv'
<1> SUFFICES ASSUME HInv, [Next]_vars PROVE HInv'
  OBVIOUS
<1>1. CASE MakeLeaves
  BY <1>1, HLeaves
<1>2. CASE JoinTwo
  BY <1>2, HJoin
<1>3. CASE ExtractLengths
  BY <1>3, HExtract
<1>4. CASE UNCHANGED vars
  BY <1>4 DEF vars, HInv, Forest, Occurring, LengthsAdmissible
<1> QED
  BY <1>1, <1>2, <1>3, <1>4 DEF Next, Terminating

(* ZlingMakeLengthTable, for any frequencies of any number of symbols and   *)
(* any longest code, gives each symbol that occurs a length and no other,   *)
(* none longer than max_codelen, and leaves room for all the codes.         *)
THEOREM LengthsFit == Spec => []LengthsAdmissible
<1>1. HInv => LengthsAdmissible
  BY DEF HInv
<1> QED
  BY HInit, HNext, <1>1, PTL DEF Spec
-----------------------------------------------------------------------------
(***************************************************************************)
(* The two levels of the decode table.                                     *)
(***************************************************************************)
LEMMA FifteenBits == 2 ^ 15 = 32768
<1> DEFINE f == [n \in 0 .. 15 |-> 2 ^ n]
<1>1. f[0] = 1
  BY PowerZero
<1>2. \A n \in 0 .. 14 : f[n + 1] = 2 * f[n]
  <2> SUFFICES ASSUME NEW n \in 0 .. 14 PROVE f[n + 1] = 2 * f[n]
    OBVIOUS
  <2>1. n \in Nat /\ n \in 0 .. 15 /\ n + 1 \in 0 .. 15
    OBVIOUS
  <2> QED
    BY <2>1, PowerNext
<1>3. f[15] = 2 ^ 15
  OBVIOUS
<1> HIDE DEF f
<1>4. f[1] = 2 /\ f[2] = 4 /\ f[3] = 8 /\ f[4] = 16
  <2>1. f[0 + 1] = 2 * f[0] /\ f[1 + 1] = 2 * f[1] /\ f[2 + 1] = 2 * f[2] /\ f[3 + 1] = 2 * f[3]
    BY <1>2
  <2> QED
    BY <1>1, <2>1
<1>5. f[5] = 32 /\ f[6] = 64 /\ f[7] = 128 /\ f[8] = 256
  <2>1. f[4 + 1] = 2 * f[4] /\ f[5 + 1] = 2 * f[5] /\ f[6 + 1] = 2 * f[6] /\ f[7 + 1] = 2 * f[7]
    BY <1>2
  <2> QED
    BY <1>4, <2>1
<1>6. f[9] = 512 /\ f[10] = 1024 /\ f[11] = 2048 /\ f[12] = 4096
  <2>1. f[8 + 1] = 2 * f[8] /\ f[9 + 1] = 2 * f[9] /\ f[10 + 1] = 2 * f[10] /\ f[11 + 1] = 2 * f[11]
    BY <1>2
  <2> QED
    BY <1>5, <2>1
<1>7. f[13] = 8192 /\ f[14] = 16384 /\ f[15] = 32768
  <2>1. f[12 + 1] = 2 * f[12] /\ f[13 + 1] = 2 * f[13] /\ f[14 + 1] = 2 * f[14]
    BY <1>2
  <2> QED
    BY <1>6, <2>1
<1> QED
  BY <1>3, <1>7

(* No code is the mark of an empty entry. *)
LEMMA SymbolsAreMarked == NoSymbol \notin Symbol
<1> DEFINE p == 2 ^ MaxCodeLen
<1>1. MaxCodeLen \in 0 .. 15
  BY HuffmanAssumption DEF CodeWidth
<1>2. p <= 32768
  <2> DEFINE k == 15
  <2>1. k \in Nat /\ MaxCodeLen \in 0 .. k
    BY <1>1
  <2>2. 2 ^ k = 32768
    BY FifteenBits
  <2> HIDE DEF k
  <2>3. 2 ^ MaxCodeLen <= 2 ^ k
    BY <2>1, PowerMonotone
  <2> QED
    BY <2>2, <2>3
<1>3. p \in Nat /\ NumCodes \in 1 .. p
  BY <1>1, HuffmanAssumption, PowerPositive
<1> HIDE DEF p
<1> QED
  BY <1>2, <1>3 DEF Symbol, NoSymbol

(* Whatever follows a code, its lowest bits are the code. *)
LEMMA CodeThenRest ==
  ASSUME NEW l \in Nat, NEW m \in Nat, l <= m, NEW e \in 0 .. 2 ^ l - 1, NEW rest \in Nat
  PROVE  LET x == (e + rest * 2 ^ l) % 2 ^ m
         IN  x \in 0 .. 2 ^ m - 1 /\ \A i \in 0 .. l - 1 : Bit(x, i) = Bit(e, i)
<1> DEFINE p == 2 ^ l
           q == 2 ^ m
           y == e + rest * p
           x == y % q
<1>1. p \in Nat \ {0} /\ q \in Nat \ {0} /\ e \in 0 .. p - 1
  BY PowerPositive
<1>2. y \in Nat /\ y = p * rest + e
  <2> HIDE DEF p
  <2> QED
    BY <1>1
<1>3. y % p = e
  <2> HIDE DEF p, y
  <2> QED
    BY <1>1, <1>2, DivModUnique
<1>4. x \in 0 .. q - 1
  <2> HIDE DEF q, y
  <2> QED
    BY <1>1, <1>2, DivMod
<1> HIDE DEF y
<1>5. ASSUME NEW i \in 0 .. l - 1 PROVE Bit(x, i) = Bit(e, i)
  <2>1. i \in 0 .. m - 1
    OBVIOUS
  <2>2. Bit(x, i) = Bit(y, i)
    BY <1>2, <2>1, BitOfMod
  <2>3. Bit(y % p, i) = Bit(y, i)
    BY <1>2, BitOfMod
  <2> QED
    BY <1>3, <2>2, <2>3
<1> QED
  BY <1>4, <1>5 DEF y

(* A decoder that looks up kHuffmanMaxLen1Fast bits first, and all the bits *)
(* when that entry is empty, finds every symbol from its code, whatever     *)
(* bits follow it; for lengths of any tree and any two sizes of table.      *)
THEOREM LookedUp == Spec => []TwoLevelLookup
<1>1. HInv => TwoLevelLookup
  <2> SUFFICES ASSUME HInv, hpc = "done", NEW s \in Occurring, NEW rest \in 0 .. 2 ^ MaxCodeLen - 1
               PROVE  LET encode == EncodeTable(length, MaxCodeLen)
                          fast == DecodeTable(length, encode, FastLen)
                          slow == DecodeTable(length, encode, MaxCodeLen)
                          bits == (encode[s] + rest * 2 ^ length[s]) % 2 ^ MaxCodeLen
                          entry == fast[bits % 2 ^ FastLen]
                      IN  s = IF entry = NoSymbol THEN slow[bits] ELSE entry
    BY DEF TwoLevelLookup
  <2> DEFINE encode == EncodeTable(length, MaxCodeLen)
             fast == DecodeTable(length, encode, FastLen)
             slow == DecodeTable(length, encode, MaxCodeLen)
             l == length[s]
             bits == (encode[s] + rest * 2 ^ l) % 2 ^ MaxCodeLen
             low == bits % 2 ^ FastLen
  <2>1. Admissible(freq, length, MaxCodeLen) /\ DOMAIN length = Symbol /\ DOMAIN freq = Symbol
    BY DEF HInv, LengthsAdmissible
  <2>2. CodeLengths(length, MaxCodeLen)
    BY <2>1, SymbolsFinite DEF Admissible, CodeLengths
  <2>3. s \in Symbol /\ l \in 1 .. MaxCodeLen /\ s # NoSymbol
    <3>1. s \in Symbol /\ freq[s] > 0
      BY DEF Occurring
    <3>2. l \in 0 .. MaxCodeLen /\ l > 0
      BY <2>1, <3>1 DEF Admissible
    <3> QED
      BY <3>1, <3>2, SymbolsAreMarked
  <2>4. MaxCodeLen \in Nat /\ FastLen \in 1 .. MaxCodeLen /\ FastLen \in Nat /\ l \in Nat
    BY <2>3, HuffmanAssumption, SymbolsFinite
  <2>5. encode[s] \in 0 .. 2 ^ l - 1
    BY <2>1, <2>2, <2>3, EncodedBits
  <2>6. rest \in Nat
    BY <2>4, PowerPositive
  <2> HIDE DEF encode, l
  <2>7. bits \in 0 .. 2 ^ MaxCodeLen - 1 /\ \A i \in 0 .. l - 1 : Bit(bits, i) = Bit(encode[s], i)
    BY <2>3, <2>4, <2>5, <2>6, CodeThenRest
  <2> HIDE DEF bits
  <2>8. bits \in Nat
    BY <2>4, <2>7, PowerPositive
  <2>9. low \in 0 .. 2 ^ FastLen - 1 /\ \A i \in 0 .. FastLen - 1 : Bit(low, i) = Bit(bits, i)
    <3>1. 2 ^ FastLen \in Nat \ {0}
      BY <2>4, PowerPositive
    <3>2. low \in 0 .. 2 ^ FastLen - 1
      <4> DEFINE p == 2 ^ FastLen
      <4> HIDE DEF p
      <4>1. bits % p \in 0 .. p - 1
        BY <2>8, <3>1, DivMod DEF p
      <4> QED
        BY <4>1 DEF p
    <3> QED
      BY <2>4, <2>8, <3>2, BitOfMod
  <2> HIDE DEF low
  <2>10. slow[bits] = s
    <3>1. MaxCodeLen \in 1 .. MaxCodeLen /\ s \in DOMAIN length /\ l # 0 /\ l <= MaxCodeLen
      BY <2>1, <2>3, <2>4
    <3>2. slow[bits] = IF l <= MaxCodeLen THEN s ELSE NoSymbol
      BY <2>2, <2>7, <3>1, DecodeFinds DEF encode, l
    <3> QED
      BY <3>1, <3>2
  <2>11. fast[low] = IF l <= FastLen THEN s ELSE NoSymbol
    <3>1. s \in DOMAIN length /\ l # 0
      BY <2>1, <2>3
    <3>2. \A i \in 0 .. l - 1 : i < FastLen => Bit(low, i) = Bit(encode[s], i)
      BY <2>3, <2>4, <2>7, <2>9
    <3> QED
      BY <2>2, <2>4, <2>9, <3>1, <3>2, DecodeFinds DEF encode, l
  <2> HIDE DEF fast, slow
  <2>12. s = IF fast[low] = NoSymbol THEN slow[bits] ELSE fast[low]
    BY <2>3, <2>10, <2>11
  <2> QED
    BY <2>12 DEF fast, slow, low, bits, encode, l
<1> QED
  BY HInit, HNext, <1>1, PTL DEF Spec
-----------------------------------------------------------------------------
(***************************************************************************)
(* What the codes cost.                                                    *)
(***************************************************************************)
(* The weight of each symbol, from how often it occurs.                      *)
Weights(f, k) == [s \in Symbol |-> Weight(f[s], k)]

(* The bits that the symbols of a tree take, each as often as it weighs.     *)
Cost(n, w) == SumFunctionOnSet([s \in DOMAIN n.depth |-> w[s] * n.depth[s]], DOMAIN n.depth)

(* A tree weighs what its leaves do, and the more the deeper it is.          *)
Weighed(n, w) ==
  /\ n.weight = SumFunctionOnSet(w, DOMAIN n.depth)
  /\ \A s \in DOMAIN n.depth : n.depth[s] = 0 => DOMAIN n.depth = {s}
  /\ \A s \in DOMAIN n.depth : n.weight >= Fib(n.depth[s] + 2)

(* No tree is lighter than the lighter half of another one.                  *)
NoneLighter(N) ==
  \A a, b \in N : a # b =>
    \A s \in DOMAIN a.depth : a.depth[s] >= 1 => b.weight >= Fib(a.depth[s] + 1)

Spent(N, w) == SumFunctionOnSet([n \in N |-> Cost(n, w)], N)
WeightOf(N) == SumFunctionOnSet([n \in N |-> n.weight], N)

(* The trees could be hung below one root at depth m - 1, those of A at      *)
(* depth m, and the symbols would cost no more than l bits each: what is     *)
(* joined so far is no worse than codes of l bits.                           *)
AsGoodAs(N, w, l) ==
  \E m \in Nat, A \in SUBSET N :
    /\ 2 * Cardinality(N) - Cardinality(A) <= 2 ^ m
    /\ Spent(N, w) + m * WeightOf(N) + WeightOf(A) <= (l + 1) * WeightOf(N)

(* While the tree is built. *)
Growing ==
  LET w == Weights(freq, scaling)
  IN  /\ \A n \in nodes : Weighed(n, w)
      /\ NoneLighter(nodes)
      /\ \A l \in Nat : Cardinality(Occurring) <= 2 ^ l => AsGoodAs(nodes, w, l)

(* The codes made are no worse than codes of equal length for symbols that   *)
(* occur as often as they weigh.                                             *)
FairlyCoded(f, len, k) ==
  \A l \in Nat \ {0} : Cardinality({s \in Symbol : f[s] > 0}) <= 2 ^ l =>
    LET w == Weights(f, k)
    IN  SumFunctionOnSet([s \in Symbol |-> w[s] * len[s]], Symbol) <= l * SumFunctionOnSet(w, Symbol)

CInv ==
  /\ HInv
  /\ scaling \in Nat
  /\ RescaledSeldom
  /\ hpc = "join" => Growing
  /\ hpc = "done" => FairlyCoded(freq, length, scaling)
-----------------------------------------------------------------------------
(***************************************************************************)
(* Fibonacci numbers.                                                      *)
(***************************************************************************)
Pairs(h, n) ==
  /\ h \in [0 .. n -> Nat \X Nat] /\ h[0] = <<0, 1>>
  /\ \A i \in 1 .. n : h[i] = <<h[i - 1][2], h[i - 1][1] + h[i - 1][2]>>

LEMMA PairsExist ==
  ASSUME NEW n \in Nat
  PROVE  \E h : Pairs(h, n)
<1> DEFINE T == Nat \X Nat
           G == [p \in (1 .. n) \X T |-> <<p[2][2], p[2][1] + p[2][2]>>]
           a == <<0, 1>>
<1>1. G \in Steps(n, T)
  <2>1. ASSUME NEW p \in (1 .. n) \X T PROVE <<p[2][2], p[2][1] + p[2][2]>> \in T
    <3>1. p[2] \in T
      OBVIOUS
    <3>2. p[2][1] \in Nat /\ p[2][2] \in Nat
      BY <3>1
    <3> QED
      BY <3>2
  <2> QED
    BY <2>1 DEF Steps
<1>2. a \in T
  OBVIOUS
<1>3. ASSUME NEW i \in 1 .. n, NEW q \in T PROVE G[<<i, q>>] = <<q[2], q[1] + q[2]>>
  <2>1. <<i, q>> \in (1 .. n) \X T
    OBVIOUS
  <2> QED
    BY <2>1
<1> HIDE DEF G, T, a
<1>4. PICK h \in [0 .. n -> T] : Follows(h, n, a, G)
  BY <1>1, <1>2, Recursion
<1>5. ASSUME NEW i \in 1 .. n PROVE h[i] = <<h[i - 1][2], h[i - 1][1] + h[i - 1][2]>>
  <2>1. h[i - 1] \in T
    BY <1>4
  <2> QED
    BY <1>3, <1>4, <2>1 DEF Follows
<1> QED
  BY <1>4, <1>5 DEF Pairs, Follows, T, a

LEMMA FibOfPairs ==
  ASSUME NEW n \in Nat, NEW m \in 0 .. n, NEW h, Pairs(h, n)
  PROVE  Fib(m) = h[m][1]
<1> DEFINE F(y) == y = [i \in 0 .. m |-> IF i = 0 THEN <<0, 1>> ELSE LET p == y[i - 1] IN <<p[2], p[1] + p[2]>>]
           r == CHOOSE y : F(y)
           S == {i \in 0 .. m : r[i] = h[i]}
<1>1. Fib(m) = r[m][1]
  BY DEF Fib
<1>2. \E y : F(y)
  <2>1. PICK g : Pairs(g, m)
    BY PairsExist
  <2>2. F(g)
    <3>1. \A i \in 0 .. m : g[i] = IF i = 0 THEN <<0, 1>> ELSE <<g[i - 1][2], g[i - 1][1] + g[i - 1][2]>>
      BY <2>1 DEF Pairs
    <3> QED
      BY <2>1, <3>1 DEF Pairs
  <2> QED
    BY <2>2
<1>3. F(r)
  <2> HIDE DEF F
  <2> QED
    BY <1>2
<1>4. \A i \in 0 .. m : r[i] = IF i = 0 THEN <<0, 1>> ELSE <<r[i - 1][2], r[i - 1][1] + r[i - 1][2]>>
  <2> HIDE DEF r
  <2> QED
    BY <1>3
<1> HIDE DEF F, r
<1>5. 0 \in S
  <2>1. 0 \in 0 .. m /\ h[0] = <<0, 1>>
    BY DEF Pairs
  <2>2. r[0] = <<0, 1>>
    BY <1>4, <2>1
  <2> QED
    BY <2>1, <2>2
<1>6. ASSUME NEW i \in 1 .. m, i - 1 \in S PROVE i \in S
  <2>1. i \in 0 .. m /\ i \in 1 .. n /\ i # 0 /\ r[i - 1] = h[i - 1]
    BY <1>6
  <2>2. r[i] = <<r[i - 1][2], r[i - 1][1] + r[i - 1][2]>>
    BY <1>4, <2>1
  <2>3. h[i] = <<h[i - 1][2], h[i - 1][1] + h[i - 1][2]>>
    BY <2>1 DEF Pairs
  <2>4. r[i] = h[i]
    BY <2>1, <2>2, <2>3
  <2> QED
    BY <2>1, <2>4
<1> HIDE DEF S
<1>7. m \in S
  BY <1>5, <1>6, UpTo
<1> QED
  BY <1>1, <1>7 DEF S

LEMMA FibSteps ==
  /\ Fib(0) = 0 /\ Fib(1) = 1
  /\ \A n \in Nat : Fib(n) \in Nat /\ Fib(n + 1) \in Nat /\ Fib(n + 2) = Fib(n) + Fib(n + 1)
<1>1. ASSUME NEW n \in Nat
      PROVE  Fib(0) = 0 /\ Fib(1) = 1 /\ Fib(n) \in Nat /\ Fib(n + 1) \in Nat /\ Fib(n + 2) = Fib(n) + Fib(n + 1)
  <2> DEFINE k == n + 2
  <2>1. k \in Nat
    OBVIOUS
  <2>2. PICK h : Pairs(h, k)
    BY <2>1, PairsExist
  <2>3. \A m \in 0 .. k : Fib(m) = h[m][1]
    <3> HIDE DEF k
    <3> QED
      BY <2>1, <2>2, FibOfPairs
  <2>4. /\ 0 \in 0 .. k /\ 1 \in 1 .. k /\ 1 \in 0 .. k /\ n \in 0 .. k /\ n + 1 \in 0 .. k
        /\ n + 1 \in 1 .. k /\ n + 2 \in 1 .. k /\ n + 2 \in 0 .. k /\ 1 - 1 = 0 /\ (n + 1) - 1 = n /\ (n + 2) - 1 = n + 1
    OBVIOUS
  <2>5. h[n] \in Nat \X Nat /\ h[n + 1] \in Nat \X Nat /\ h[0] = <<0, 1>>
    <3> HIDE DEF k
    <3> QED
      BY <2>2, <2>4 DEF Pairs
  <2>6. /\ h[1] = <<h[0][2], h[0][1] + h[0][2]>>
        /\ h[n + 1] = <<h[n][2], h[n][1] + h[n][2]>>
        /\ h[n + 2] = <<h[n + 1][2], h[n + 1][1] + h[n + 1][2]>>
    <3>1. \A i \in 1 .. k : h[i] = <<h[i - 1][2], h[i - 1][1] + h[i - 1][2]>>
      BY <2>2 DEF Pairs
    <3> HIDE DEF k
    <3> QED
      BY <2>4, <3>1
  <2>7. Fib(0) = h[0][1] /\ Fib(1) = h[1][1] /\ Fib(n) = h[n][1] /\ Fib(n + 1) = h[n + 1][1] /\ Fib(n + 2) = h[n + 2][1]
    <3> HIDE DEF k
    <3> QED
      BY <2>3, <2>4
  <2>8. h[n][1] \in Nat /\ h[n + 1][1] \in Nat
    BY <2>5
  <2>9. h[n + 2][1] = h[n + 1][2] /\ h[n + 1][2] = h[n][1] + h[n][2] /\ h[n + 1][1] = h[n][2] /\ h[1][1] = 1 /\ h[0][1] = 0
    BY <2>5, <2>6
  <2> HIDE DEF k
  <2> QED
    BY <2>7, <2>8, <2>9
<1> QED
  BY <1>1

LEMMA FibMonotone ==
  ASSUME NEW n \in Nat, NEW m \in 0 .. n
  PROVE  Fib(m + 1) <= Fib(n + 1)
<1> DEFINE S == {i \in 0 .. n : m <= i => Fib(m + 1) <= Fib(i + 1)}
<1>1. Fib(m + 1) \in Nat
  <2>1. m \in Nat
    OBVIOUS
  <2> QED
    BY <2>1, FibSteps
<1>2. 0 \in S
  <2>1. m <= 0 => m = 0
    OBVIOUS
  <2>2. Fib(0 + 1) \in Nat
    <3>1. 0 + 1 = 1 /\ Fib(1) = 1
      BY FibSteps
    <3> QED
      BY <3>1
  <2>3. m <= 0 => Fib(m + 1) <= Fib(0 + 1)
    <3> SUFFICES ASSUME m <= 0 PROVE Fib(m + 1) <= Fib(0 + 1)
      OBVIOUS
    <3>1. m = 0
      BY <2>1
    <3>2. Fib(m + 1) = Fib(0 + 1)
      BY <3>1
    <3> QED
      BY <2>2, <3>2
  <2> QED
    BY <2>3
<1>3. ASSUME NEW i \in 1 .. n, i - 1 \in S PROVE i \in S
  <2> DEFINE j == i - 1
             a == Fib(j)
             b == Fib(j + 1)
  <2>1. j \in Nat /\ j + 1 = i /\ j + 2 = i + 1
    OBVIOUS
  <2>2. Fib(j + 2) = a + b /\ a \in Nat /\ b \in Nat
    <3> HIDE DEF j
    <3> QED
      BY <2>1, FibSteps
  <2>3. Fib(i + 1) = a + b
    BY <2>1, <2>2
  <2>4. m <= j => Fib(m + 1) <= b
    BY <1>3
  <2>5. CASE m <= j
    <3> DEFINE c == Fib(m + 1)
    <3>1. c <= b /\ c \in Nat /\ Fib(i + 1) = a + b
      BY <1>1, <2>3, <2>4, <2>5
    <3> HIDE DEF c, a, b
    <3>2. c <= a + b
      BY <2>2, <3>1
    <3> QED
      BY <2>3, <3>2 DEF c
  <2>6. CASE m > j
    <3>1. m <= i => m = i
      BY <2>6
    <3>2. Fib(i + 1) \in Nat
      <4>1. i \in Nat
        OBVIOUS
      <4> QED
        BY <4>1, FibSteps
    <3>3. m <= i => Fib(m + 1) <= Fib(i + 1)
      <4> SUFFICES ASSUME m <= i PROVE Fib(m + 1) <= Fib(i + 1)
        OBVIOUS
      <4>1. Fib(m + 1) = Fib(i + 1)
        BY <3>1
      <4> QED
        BY <3>2, <4>1
    <3> QED
      BY <3>3
  <2> QED
    BY <2>5, <2>6
<1> HIDE DEF S
<1>4. n \in S
  BY <1>2, <1>3, UpTo
<1> QED
  BY <1>4 DEF S
-----------------------------------------------------------------------------
(***************************************************************************)
(* Trees and what their codes cost.                                        *)
(***************************************************************************)
(* Halved k times a frequency is rounded up. *)
LEMMA WeightRounds ==
  ASSUME NEW f \in Nat, NEW k \in Nat
  PROVE  /\ Weight(f, k) \in Nat /\ (f > 0 <=> Weight(f, k) > 0)
         /\ 2 ^ k * Weight(f, k) - f \in 0 .. 2 ^ k - 1
<1> DEFINE p == 2 ^ k
           x == f + p - 1
           q == x \div p
           r == x % p
<1>1. p \in Nat \ {0}
  BY PowerPositive
<1>2. x \in Nat
  <2> HIDE DEF p
  <2> QED
    BY <1>1
<1>3. q \in Nat /\ r \in 0 .. p - 1 /\ x = p * q + r
  <2> HIDE DEF p, x
  <2> QED
    BY <1>1, <1>2, DivMod
<1>4. Weight(f, k) = q
  BY DEF Weight
<1> DEFINE y == p * q
<1>5. y \in Nat /\ x = y + r
  <2> HIDE DEF p, x, q, r
  <2> QED
    BY <1>1, <1>3
<1>6. y - f \in 0 .. p - 1
  <2> HIDE DEF p, q, r, y
  <2> QED
    BY <1>1, <1>3, <1>5
<1>7. f > 0 <=> q > 0
  <2>1. CASE q = 0
    <3>1. y = 0
      <4> HIDE DEF p, q
      <4> QED
        BY <1>1, <2>1
    <3> HIDE DEF p, q, r, y, x
    <3> QED
      BY <1>6, <2>1, <3>1, <1>1
  <2>2. CASE q # 0
    <3>1. y >= p
      <4> HIDE DEF p, q
      <4> QED
        BY <1>1, <1>3, <2>2
    <3> HIDE DEF p, q, r, y, x
    <3> QED
      BY <1>1, <1>3, <1>5, <1>6, <2>2, <3>1
  <2> QED
    BY <2>1, <2>2
<1> QED
  BY <1>3, <1>4, <1>6, <1>7

(* Weights of the symbols of a tree. *)
Positive(w, S) == \A s \in S : w[s] \in Nat \ {0}

LEMMA TreeTypes ==
  ASSUME NEW n, NEW w, IsDepth(n.depth), Positive(w, DOMAIN n.depth), Weighed(n, w)
  PROVE  n.weight \in Nat \ {0} /\ Cost(n, w) \in Nat
<1> DEFINE S == DOMAIN n.depth
<1>1. IsFiniteSet(S) /\ S # {} /\ (\A s \in S : n.depth[s] \in Nat) /\ \A s \in S : w[s] \in Nat /\ w[s] # 0
  BY DEF IsDepth, Positive
<1>2. n.weight = SumFunctionOnSet(w, S)
  BY DEF Weighed
<1> HIDE DEF S
<1>3. n.weight \in Nat
  BY <1>1, <1>2, SumType
<1>4. n.weight # 0
  <2>1. PICK s \in S : TRUE
    BY <1>1
  <2>2. {s} \in SUBSET S
    BY <2>1
  <2>3. SumFunctionOnSet(w, {s}) <= SumFunctionOnSet(w, S)
    BY <1>1, <2>2, SumSubset
  <2>4. SumFunctionOnSet(w, {s}) = w[s] /\ w[s] \in Nat /\ w[s] # 0
    BY <1>1, <2>1, SumSingleton
  <2> QED
    BY <1>2, <1>3, <2>3, <2>4
<1>5. Cost(n, w) \in Nat
  <2> DEFINE g == [s \in S |-> w[s] * n.depth[s]]
  <2>1. \A s \in S : g[s] \in Nat
    <3> TAKE s \in S
    <3> DEFINE a == w[s]
               b == n.depth[s]
    <3>1. a \in Nat /\ b \in Nat /\ g[s] = a * b
      BY <1>1
    <3> HIDE DEF a, b, g
    <3>2. a * b \in Nat
      BY <3>1
    <3> QED
      BY <3>1, <3>2
  <2> HIDE DEF g
  <2>2. SumFunctionOnSet(g, S) \in Nat
    BY <1>1, <2>1, SumType
  <2> QED
    BY <2>2 DEF Cost, S, g
<1> QED
  BY <1>3, <1>4, <1>5

(* A leaf. *)
LEMMA LeafWeighed ==
  ASSUME NEW s, NEW w, w[s] \in Nat \ {0}, NEW n, n.weight = w[s], n.depth = [t \in {s} |-> 0]
  PROVE  Weighed(n, w) /\ Cost(n, w) = 0
<1>1. DOMAIN n.depth = {s} /\ n.depth[s] = 0
  OBVIOUS
<1>2. n.weight = SumFunctionOnSet(w, {s})
  <2>1. w[s] \in Nat
    OBVIOUS
  <2> QED
    BY <2>1, SumSingleton
<1>3. Fib(0 + 2) = 1
  <2>1. 0 \in Nat /\ 0 + 1 = 1
    OBVIOUS
  <2>2. Fib(0 + 2) = Fib(0) + Fib(0 + 1)
    BY <2>1, FibSteps
  <2> QED
    BY <2>1, <2>2, FibSteps
<1>4. n.weight >= Fib(n.depth[s] + 2)
  <2>1. n.weight >= 1
    OBVIOUS
  <2> QED
    BY <1>1, <1>3, <2>1
<1>5. Cost(n, w) = 0
  <2> DEFINE g == [t \in {s} |-> w[t] * n.depth[t]]
  <2>1. g[s] = 0
    <3> DEFINE a == w[s]
    <3>1. a \in Nat /\ g[s] = a * 0
      BY <1>1
    <3> HIDE DEF a, g
    <3> QED
      BY <3>1
  <2>2. g[s] \in Nat
    BY <2>1
  <2> HIDE DEF g
  <2>3. SumFunctionOnSet(g, {s}) = 0
    BY <2>1, <2>2, SumSingleton
  <2> QED
    BY <1>1, <2>3 DEF Cost, g
<1> QED
  BY <1>1, <1>2, <1>4, <1>5 DEF Weighed

(* A root above two trees costs each of their symbols a bit more. *)
LEMMA JoinCosts ==
  ASSUME NEW a, NEW b, NEW w, IsDepth(a.depth), IsDepth(b.depth),
         DOMAIN a.depth \cap DOMAIN b.depth = {},
         Positive(w, DOMAIN a.depth), Positive(w, DOMAIN b.depth), Weighed(a, w), Weighed(b, w)
  PROVE  /\ Join(a, b).weight = SumFunctionOnSet(w, DOMAIN Join(a, b).depth)
         /\ Cost(Join(a, b), w) = (Cost(a, w) + Cost(b, w)) + (a.weight + b.weight)
<1> DEFINE A == DOMAIN a.depth
           B == DOMAIN b.depth
           c == Join(a, b)
           d == c.depth
<1>1. DOMAIN d = A \cup B /\ (\A s \in A : d[s] = 1 + a.depth[s]) /\ (\A s \in B : d[s] = 1 + b.depth[s])
      /\ c.weight = a.weight + b.weight
  BY DEF Join
<1>2. /\ IsFiniteSet(A) /\ (\A s \in A : a.depth[s] \in Nat /\ w[s] \in Nat)
      /\ IsFiniteSet(B) /\ (\A s \in B : b.depth[s] \in Nat /\ w[s] \in Nat) /\ A \cap B = {}
  BY DEF IsDepth, Positive
<1>3. a.weight = SumFunctionOnSet(w, A) /\ b.weight = SumFunctionOnSet(w, B)
  BY DEF Weighed
<1> DEFINE ca == [s \in A |-> w[s] * a.depth[s]]
           cb == [s \in B |-> w[s] * b.depth[s]]
           cc == [s \in DOMAIN d |-> w[s] * d[s]]
<1>4. Cost(a, w) = SumFunctionOnSet(ca, A) /\ Cost(b, w) = SumFunctionOnSet(cb, B) /\ Cost(c, w) = SumFunctionOnSet(cc, DOMAIN d)
  BY DEF Cost
<1> HIDE DEF d, c
<1>5. \A s \in A : w[s] \in Nat /\ ca[s] \in Nat /\ cc[s] \in Nat /\ cc[s] = w[s] + ca[s]
  <2> TAKE s \in A
  <2> DEFINE x == w[s]
             y == a.depth[s]
  <2>1. x \in Nat /\ y \in Nat /\ ca[s] = x * y /\ cc[s] = x * (1 + y)
    BY <1>1, <1>2
  <2> HIDE DEF x, y, ca, cc
  <2>2. x * (1 + y) = x + x * y /\ x * y \in Nat /\ x + x * y \in Nat
    BY <2>1
  <2> QED
    BY <2>1, <2>2 DEF x
<1>6. \A s \in B : w[s] \in Nat /\ cb[s] \in Nat /\ cc[s] \in Nat /\ cc[s] = w[s] + cb[s]
  <2> TAKE s \in B
  <2> DEFINE x == w[s]
             y == b.depth[s]
  <2>1. x \in Nat /\ y \in Nat /\ cb[s] = x * y /\ cc[s] = x * (1 + y)
    BY <1>1, <1>2
  <2> HIDE DEF x, y, cb, cc
  <2>2. x * (1 + y) = x + x * y /\ x * y \in Nat /\ x + x * y \in Nat
    BY <2>1
  <2> QED
    BY <2>1, <2>2 DEF x
<1> HIDE DEF ca, cb, cc, A, B
<1>7. SumFunctionOnSet(cc, A) = a.weight + Cost(a, w)
  BY <1>2, <1>3, <1>4, <1>5, SumPlus
<1>8. SumFunctionOnSet(cc, B) = b.weight + Cost(b, w)
  BY <1>2, <1>3, <1>4, <1>6, SumPlus
<1>9. SumFunctionOnSet(cc, A \cup B) = SumFunctionOnSet(cc, A) + SumFunctionOnSet(cc, B)
  BY <1>2, <1>5, <1>6, SumUnion
<1>10. SumFunctionOnSet(w, A \cup B) = SumFunctionOnSet(w, A) + SumFunctionOnSet(w, B)
  BY <1>2, SumUnion
<1>11. a.weight \in Nat /\ b.weight \in Nat /\ Cost(a, w) \in Nat /\ Cost(b, w) \in Nat
  BY TreeTypes
<1>12. c.weight = SumFunctionOnSet(w, DOMAIN d)
  BY <1>1, <1>3, <1>10
<1>13. Cost(c, w) = (Cost(a, w) + Cost(b, w)) + (a.weight + b.weight)
  BY <1>1, <1>4, <1>7, <1>8, <1>9, <1>11
<1> QED
  BY <1>12, <1>13 DEF c, d

(* The next Fibonacci number, for the root above two trees that are no       *)
(* lighter than the lighter half of each other.                              *)
LEMMA JoinWeighed ==
  ASSUME NEW a, NEW b, NEW w, IsDepth(a.depth), IsDepth(b.depth), 
         DOMAIN a.depth \cap DOMAIN b.depth = {},
         Positive(w, DOMAIN a.depth), Positive(w, DOMAIN b.depth), Weighed(a, w), Weighed(b, w),
         NoneLighter({a, b}), a # b
  PROVE  Weighed(Join(a, b), w)
<1> DEFINE A == DOMAIN a.depth
           B == DOMAIN b.depth
           c == Join(a, b)
           d == c.depth
<1>1. DOMAIN d = A \cup B /\ (\A s \in A : d[s] = 1 + a.depth[s]) /\ (\A s \in B : d[s] = 1 + b.depth[s])
      /\ c.weight = a.weight + b.weight
  BY DEF Join
<1>2. c.weight = SumFunctionOnSet(w, DOMAIN d)
  BY JoinCosts
<1>3. a.weight \in Nat \ {0} /\ b.weight \in Nat \ {0}
  BY TreeTypes
<1>4. ASSUME NEW n \in {a, b}, NEW m \in {a, b}, n # m, NEW s \in DOMAIN n.depth
      PROVE  n.weight + m.weight >= Fib((1 + n.depth[s]) + 2)
  <2> DEFINE e == n.depth[s]
  <2>1. e \in Nat
    BY DEF IsDepth
  <2>2. n.weight >= Fib(e + 2)
    BY DEF Weighed
  <2>3. m.weight >= Fib(e + 1)
    <3>1. CASE e >= 1
      BY <1>4, <3>1 DEF NoneLighter
    <3>2. CASE e = 0
      <4>1. e + 1 = 1 /\ Fib(1) = 1
        BY <3>2, FibSteps
      <4>2. m.weight >= 1
        BY <1>3
      <4> QED
        BY <4>1, <4>2
    <3> QED
      BY <2>1, <3>1, <3>2
  <2> HIDE DEF e
  <2>4. e + 1 \in Nat /\ (e + 1) + 1 = e + 2 /\ (e + 1) + 2 = (1 + e) + 2
    BY <2>1
  <2>5. Fib((1 + e) + 2) = Fib(e + 1) + Fib(e + 2) /\ Fib(e + 1) \in Nat /\ Fib(e + 2) \in Nat
    BY <2>4, FibSteps
  <2>6. n.weight \in Nat /\ m.weight \in Nat
    BY <1>3
  <2>7. n.weight + m.weight >= Fib((1 + e) + 2)
    BY <2>2, <2>3, <2>5, <2>6
  <2> QED
    BY <2>7 DEF e
<1>5. \A s \in DOMAIN d : c.weight >= Fib(d[s] + 2)
  <2> SUFFICES ASSUME NEW s \in DOMAIN d PROVE c.weight >= Fib(d[s] + 2)
    OBVIOUS
  <2>1. CASE s \in A
    <3>1. a.weight + b.weight >= Fib((1 + a.depth[s]) + 2)
      BY <1>4, <2>1
    <3> HIDE DEF c, d
    <3> QED
      BY <1>1, <2>1, <3>1
  <2>2. CASE s \in B
    <3>1. b.weight + a.weight >= Fib((1 + b.depth[s]) + 2)
      BY <1>4, <2>2
    <3>2. b.weight + a.weight = a.weight + b.weight
      BY <1>3
    <3> HIDE DEF c, d
    <3> QED
      BY <1>1, <2>2, <3>1, <3>2
  <2> QED
    BY <1>1, <2>1, <2>2
<1>6. \A s \in DOMAIN d : d[s] # 0
  <2> SUFFICES ASSUME NEW s \in DOMAIN d PROVE d[s] # 0
    OBVIOUS
  <2>1. CASE s \in A
    <3>1. a.depth[s] \in Nat
      BY <2>1 DEF IsDepth
    <3> QED
      BY <1>1, <2>1, <3>1
  <2>2. CASE s \in B
    <3>1. b.depth[s] \in Nat
      BY <2>2 DEF IsDepth
    <3> QED
      BY <1>1, <2>2, <3>1
  <2> QED
    BY <1>1, <2>1, <2>2
<1> HIDE DEF c, d
<1> QED
  BY <1>2, <1>5, <1>6 DEF Weighed, c, d
-----------------------------------------------------------------------------
(***************************************************************************)
(* The two lightest trees can be those that were to be the deepest.        *)
(***************************************************************************)
LEMMA Lighter ==
  ASSUME NEW N, IsFiniteSet(N), NEW g, \A n \in N : g[n] \in Nat,
         NEW A \in SUBSET N, NEW x \in A, NEW y \in N \ A, g[y] <= g[x]
  PROVE  LET B == (A \ {x}) \cup {y}
         IN  /\ B \in SUBSET N /\ Cardinality(B) = Cardinality(A)
             /\ SumFunctionOnSet(g, B) <= SumFunctionOnSet(g, A)
<1> DEFINE C == A \ {x}
           B == C \cup {y}
<1>1. IsFiniteSet(A) /\ IsFiniteSet(C) /\ C \in SUBSET N /\ B \in SUBSET N /\ y \notin C /\ A \in SUBSET N /\ x \in A
  BY FS_Subset
<1>2. Cardinality(C) = Cardinality(A) - 1 /\ Cardinality(B) = Cardinality(C) + 1 /\ Cardinality(A) \in Nat
  <2> HIDE DEF B
  <2>1. Cardinality(C) = Cardinality(A) - 1 /\ Cardinality(A) \in Nat
    BY <1>1, FS_RemoveElement, FS_CardinalityType
  <2> HIDE DEF C
  <2>2. Cardinality(B) = Cardinality(C) + 1
    BY <1>1, FS_AddElement DEF B
  <2> QED
    BY <2>1, <2>2
<1>3. SumFunctionOnSet(g, A) = g[x] + SumFunctionOnSet(g, C)
  BY <1>1, SumWithout
<1> HIDE DEF C
<1>4. SumFunctionOnSet(g, B) = g[y] + SumFunctionOnSet(g, C) /\ SumFunctionOnSet(g, C) \in Nat
  <2>1. y \in N \ C
    BY <1>1
  <2> QED
    BY <1>1, <2>1, SumSteps
<1>5. g[x] \in Nat /\ g[y] \in Nat
  BY <1>1
<1> HIDE DEF B
<1>6. Cardinality(B) = Cardinality(A) /\ SumFunctionOnSet(g, B) <= SumFunctionOnSet(g, A)
  BY <1>2, <1>3, <1>4, <1>5
<1> QED
  BY <1>1, <1>6 DEF B, C

LEMMA TwoLightest ==
  ASSUME NEW N, IsFiniteSet(N), NEW g, \A n \in N : g[n] \in Nat,
         NEW a \in N, NEW b \in N, a # b, \A n \in N : g[a] <= g[n], \A n \in N \ {a} : g[b] <= g[n],
         NEW A \in SUBSET N, Cardinality(A) >= 2
  PROVE  \E B \in SUBSET N :
           /\ a \in B /\ b \in B /\ Cardinality(B) = Cardinality(A)
           /\ SumFunctionOnSet(g, B) <= SumFunctionOnSet(g, A)
<1>1. ASSUME NEW U \in SUBSET N
      PROVE  IsFiniteSet(U) /\ Cardinality(U) \in Nat /\ SumFunctionOnSet(g, U) \in Nat
  <2>1. IsFiniteSet(U) /\ \A n \in U : g[n] \in Nat
    BY FS_Subset
  <2> QED
    BY <2>1, FS_CardinalityType, SumType
<1>2. ASSUME NEW U \in SUBSET N, Cardinality(U) >= 2, NEW y PROVE \E x \in U : x # y
  <2> SUFFICES ASSUME U \subseteq {y} PROVE FALSE
    OBVIOUS
  <2>1. IsFiniteSet({y}) /\ Cardinality({y}) = 1
    BY FS_Singleton
  <2>2. Cardinality(U) <= 1 /\ Cardinality(U) \in Nat
    BY <1>1, <2>1, FS_Subset
  <2> QED
    BY <1>2, <2>2
<1>3. PICK A1 \in SUBSET N :
        /\ a \in A1 /\ Cardinality(A1) = Cardinality(A)
        /\ SumFunctionOnSet(g, A1) <= SumFunctionOnSet(g, A)
  <2>1. CASE a \in A
    BY <1>1, <2>1
  <2>2. CASE a \notin A
    <3>1. PICK x \in A : x # b
      BY <1>2
    <3> DEFINE B == (A \ {x}) \cup {a}
    <3>2. a \in N \ A /\ g[a] <= g[x]
      BY <2>2
    <3>3. B \in SUBSET N /\ Cardinality(B) = Cardinality(A) /\ SumFunctionOnSet(g, B) <= SumFunctionOnSet(g, A)
      BY <3>2, Lighter
    <3> QED
      BY <3>3
  <2> QED
    BY <2>1, <2>2
<1>4. CASE b \in A1
  BY <1>3, <1>4
<1>5. CASE b \notin A1
  <2>1. PICK x \in A1 : x # a
    BY <1>2, <1>3
  <2> DEFINE B == (A1 \ {x}) \cup {b}
  <2>2. b \in N \ A1 /\ g[b] <= g[x]
    BY <1>5, <2>1
  <2>3. B \in SUBSET N /\ Cardinality(B) = Cardinality(A1) /\ SumFunctionOnSet(g, B) <= SumFunctionOnSet(g, A1)
    BY <2>2, Lighter
  <2>4. a \in B /\ b \in B
    BY <1>3, <2>1
  <2> HIDE DEF B
  <2>5. SumFunctionOnSet(g, B) <= SumFunctionOnSet(g, A)
    BY <1>1, <1>3, <2>3
  <2> QED
    BY <1>3, <2>3, <2>4, <2>5
<1> QED
  BY <1>4, <1>5

LEMMA AtLeastTwo ==
  ASSUME NEW N, IsFiniteSet(N), Cardinality(N) >= 2, NEW g, \A n \in N : g[n] \in Nat,
         NEW m \in Nat, NEW A \in SUBSET N, NEW X \in Nat, NEW L \in Nat,
         2 * Cardinality(N) - Cardinality(A) <= 2 ^ m,
         X + m * SumFunctionOnSet(g, N) + SumFunctionOnSet(g, A) <= L
  PROVE  \E i \in Nat, B \in SUBSET N :
           /\ Cardinality(B) >= 2 /\ 2 * Cardinality(N) - Cardinality(B) <= 2 ^ i
           /\ X + i * SumFunctionOnSet(g, N) + SumFunctionOnSet(g, B) <= L
<1> DEFINE T == SumFunctionOnSet(g, N)
           S == SumFunctionOnSet(g, A)
           n == Cardinality(N)
           k == Cardinality(A)
<1>1. IsFiniteSet(A) /\ T \in Nat /\ S \in Nat /\ n \in Nat /\ k \in Nat
  <2>1. IsFiniteSet(A) /\ \A x \in A : g[x] \in Nat
    BY FS_Subset
  <2> QED
    BY <2>1, FS_CardinalityType, SumType
<1>2. CASE k >= 2
  BY <1>2
<1>3. CASE k < 2
  <2> DEFINE i == m - 1
             p == 2 ^ i
  <2>1. m # 0
    <3> SUFFICES ASSUME m = 0 PROVE FALSE
      OBVIOUS
    <3>1. 2 * n - k <= 1
      BY PowerZero
    <3> HIDE DEF n, k
    <3> QED
      BY <1>1, <1>3, <3>1 DEF n
  <2>2. i \in Nat /\ i + 1 = m
    BY <2>1
  <2>3. 2 ^ m = 2 * p /\ p \in Nat
    <3> HIDE DEF i
    <3>1. 2 ^ (i + 1) = 2 * p /\ p \in Nat
      BY <2>2, PowerNext, PowerPositive
    <3> QED
      BY <2>2, <3>1
  <2>4. 2 * n - k <= 2 * p
    BY <2>3
  <2>5. 2 * n - n <= p
    <3> HIDE DEF n, k, p
    <3> QED
      BY <1>1, <1>3, <2>3, <2>4
  <2>6. X + i * T + T <= L
    <3> DEFINE y == i * T
    <3>1. X + m * T + S <= L
      OBVIOUS
    <3>2. m * T = y + T /\ y \in Nat
      <4> HIDE DEF i, T
      <4> QED
        BY <1>1, <2>2
    <3> HIDE DEF y, T, S, i
    <3>3. X + (y + T) + S <= L
      BY <3>1, <3>2
    <3>4. X + y + T <= L
      BY <1>1, <3>2, <3>3
    <3> QED
      BY <3>4 DEF y
  <2>7. N \in SUBSET N /\ Cardinality(N) >= 2
    OBVIOUS
  <2> HIDE DEF i
  <2>8. 2 * Cardinality(N) - Cardinality(N) <= 2 ^ i /\ X + i * SumFunctionOnSet(g, N) + SumFunctionOnSet(g, N) <= L
    BY <2>5, <2>6
  <2> QED
    BY <2>2, <2>7, <2>8
<1> QED
  BY <1>1, <1>2, <1>3

LEMMA SumWithoutTwo ==
  ASSUME NEW S, IsFiniteSet(S), NEW x \in S, NEW y \in S, x # y, NEW g, \A s \in S : g[s] \in Nat
  PROVE  /\ SumFunctionOnSet(g, S) = (g[x] + g[y]) + SumFunctionOnSet(g, S \ {x, y})
         /\ SumFunctionOnSet(g, S \ {x, y}) \in Nat
<1> DEFINE R == S \ {x}
           Q == S \ {x, y}
<1>1. IsFiniteSet(R) /\ y \in R /\ R \ {y} = Q /\ \A s \in R : g[s] \in Nat
  BY FS_Difference
<1>2. IsFiniteSet(Q) /\ \A s \in Q : g[s] \in Nat
  BY FS_Difference
<1>3. SumFunctionOnSet(g, S) = g[x] + SumFunctionOnSet(g, R)
  BY SumWithout
<1> HIDE DEF R, Q
<1>4. SumFunctionOnSet(g, R) = g[y] + SumFunctionOnSet(g, Q)
  BY <1>1, SumWithout
<1>5. SumFunctionOnSet(g, Q) \in Nat
  BY <1>2, SumType
<1>6. g[x] \in Nat /\ g[y] \in Nat
  OBVIOUS
<1>7. SumFunctionOnSet(g, S) = (g[x] + g[y]) + SumFunctionOnSet(g, Q)
  BY <1>3, <1>4, <1>5, <1>6
<1> QED
  BY <1>5, <1>7 DEF Q

LEMMA JoinAsGood ==
  ASSUME NEW N, IsFiniteSet(N), NEW w, \A n \in N : n.weight \in Nat /\ Cost(n, w) \in Nat,
         NEW a \in Lightest(N), NEW b \in Lightest(N \ {a}), NEW c, c \notin N,
         c.weight = a.weight + b.weight,
         Cost(c, w) = (Cost(a, w) + Cost(b, w)) + (a.weight + b.weight),
         NEW l \in Nat, AsGoodAs(N, w, l)
  PROVE  AsGoodAs((N \ {a, b}) \cup {c}, w, l)
<1> DEFINE Q == N \ {a, b}
           M == Q \cup {c}
           g == [n \in N |-> n.weight]
           h == [n \in M |-> n.weight]
           u == [n \in N |-> Cost(n, w)]
           v == [n \in M |-> Cost(n, w)]
           T == SumFunctionOnSet(g, N)
           X == SumFunctionOnSet(u, N)
           L == (l + 1) * T
<1>1. a \in N /\ b \in N /\ a # b /\ (\A n \in N : g[a] <= g[n]) /\ (\A n \in N \ {a} : g[b] <= g[n])
  BY DEF Lightest
<1>2. (\A n \in N : g[n] \in Nat) /\ (\A n \in N : u[n] \in Nat)
  OBVIOUS
<1>3. /\ g[a] = a.weight /\ g[b] = b.weight /\ h[c] = a.weight + b.weight
      /\ u[a] = Cost(a, w) /\ u[b] = Cost(b, w) /\ v[c] = (Cost(a, w) + Cost(b, w)) + (a.weight + b.weight)
  BY <1>1
<1>4. (\A n \in Q : h[n] = g[n]) /\ (\A n \in Q : v[n] = u[n])
  OBVIOUS
<1>5. Spent(N, w) = X /\ WeightOf(N) = T /\ Spent(M, w) = SumFunctionOnSet(v, M) /\ WeightOf(M) = SumFunctionOnSet(h, M)
  BY DEF Spent, WeightOf
<1>6. a.weight \in Nat /\ b.weight \in Nat /\ Cost(a, w) \in Nat /\ Cost(b, w) \in Nat
  BY <1>1
<1> HIDE DEF g, h, u, v
<1>7. /\ T = (g[a] + g[b]) + SumFunctionOnSet(g, Q) /\ SumFunctionOnSet(g, Q) \in Nat
      /\ X = (u[a] + u[b]) + SumFunctionOnSet(u, Q) /\ SumFunctionOnSet(u, Q) \in Nat
  <2> HIDE DEF Q
  <2>1. T = (g[a] + g[b]) + SumFunctionOnSet(g, Q) /\ SumFunctionOnSet(g, Q) \in Nat
    BY <1>1, <1>2, SumWithoutTwo DEF Q
  <2>2. X = (u[a] + u[b]) + SumFunctionOnSet(u, Q) /\ SumFunctionOnSet(u, Q) \in Nat
    BY <1>1, <1>2, SumWithoutTwo DEF Q
  <2> QED
    BY <2>1, <2>2
<1>8. IsFiniteSet(Q) /\ IsFiniteSet(M) /\ c \in M /\ M \ {c} = Q /\ c \notin Q
  <2>1. IsFiniteSet(Q)
    BY FS_Difference
  <2>2. IsFiniteSet(M)
    <3> HIDE DEF Q
    <3> QED
      BY <2>1, FS_AddElement
  <2> QED
    BY <2>1, <2>2
<1>9. (\A n \in M : h[n] \in Nat) /\ (\A n \in M : v[n] \in Nat)
  BY <1>2, <1>3, <1>4, <1>6
<1>10. ASSUME NEW U \in SUBSET Q
       PROVE  SumFunctionOnSet(h, U) = SumFunctionOnSet(g, U) /\ SumFunctionOnSet(v, U) = SumFunctionOnSet(u, U)
  <2>1. IsFiniteSet(U) /\ \A n \in U : g[n] \in Nat /\ h[n] = g[n] /\ u[n] \in Nat /\ v[n] = u[n]
    BY <1>2, <1>4, <1>8, FS_Subset
  <2> QED
    BY <2>1, SumSame
<1>11. SumFunctionOnSet(h, M) = h[c] + SumFunctionOnSet(h, Q) /\ SumFunctionOnSet(v, M) = v[c] + SumFunctionOnSet(v, Q)
  <2> HIDE DEF M, Q
  <2> QED
    BY <1>8, <1>9, SumWithout
<1>12. SumFunctionOnSet(h, Q) = SumFunctionOnSet(g, Q) /\ SumFunctionOnSet(v, Q) = SumFunctionOnSet(u, Q)
  BY <1>10
<1> HIDE DEF T, X
<1>13. SumFunctionOnSet(h, M) = T /\ SumFunctionOnSet(v, M) = X + (a.weight + b.weight) /\ T \in Nat /\ X \in Nat
  <2> HIDE DEF M, Q
  <2> QED
    BY <1>3, <1>6, <1>7, <1>11, <1>12
<1>14. L \in Nat
  BY <1>13
<1>15. PICK m0 \in Nat, A0 \in SUBSET N :
         2 * Cardinality(N) - Cardinality(A0) <= 2 ^ m0 /\ X + m0 * T + WeightOf(A0) <= L
  BY <1>5 DEF AsGoodAs
<1>16. ASSUME NEW U \in SUBSET N PROVE WeightOf(U) = SumFunctionOnSet(g, U) /\ SumFunctionOnSet(g, U) \in Nat
  <2> DEFINE k == [n \in U |-> n.weight]
  <2>1. IsFiniteSet(U) /\ \A n \in U : g[n] \in Nat /\ k[n] = g[n]
    BY <1>2, FS_Subset DEF g
  <2>2. WeightOf(U) = SumFunctionOnSet(k, U)
    BY DEF WeightOf
  <2> HIDE DEF k
  <2> QED
    BY <2>1, <2>2, SumSame, SumType
<1>17. Cardinality(N) >= 2 /\ Cardinality(N) \in Nat
  <2>1. IsFiniteSet({a, b}) /\ Cardinality({a, b}) = 2
    <3>1. IsFiniteSet({a}) /\ Cardinality({a}) = 1 /\ {a} \cup {b} = {a, b} /\ b \notin {a}
      BY <1>1, FS_Singleton
    <3>2. IsFiniteSet({a} \cup {b}) /\ Cardinality({a} \cup {b}) = Cardinality({a}) + 1
      BY <3>1, FS_AddElement
    <3> QED
      BY <3>1, <3>2
  <2>2. Cardinality({a, b}) <= Cardinality(N)
    BY <1>1, FS_Subset
  <2> QED
    BY <2>1, <2>2, FS_CardinalityType
<1>18. PICK m \in Nat, A \in SUBSET N :
         /\ Cardinality(A) >= 2 /\ 2 * Cardinality(N) - Cardinality(A) <= 2 ^ m
         /\ X + m * T + SumFunctionOnSet(g, A) <= L
  <2>1. X + m0 * SumFunctionOnSet(g, N) + SumFunctionOnSet(g, A0) <= L
    BY <1>15, <1>16 DEF T
  <2> HIDE DEF L
  <2>2. \E i \in Nat, B \in SUBSET N :
          /\ Cardinality(B) >= 2 /\ 2 * Cardinality(N) - Cardinality(B) <= 2 ^ i
          /\ X + i * SumFunctionOnSet(g, N) + SumFunctionOnSet(g, B) <= L
    BY <1>2, <1>13, <1>14, <1>15, <1>17, <2>1, AtLeastTwo
  <2> QED
    BY <2>2 DEF T
<1>19. PICK B \in SUBSET N :
         /\ a \in B /\ b \in B /\ Cardinality(B) = Cardinality(A)
         /\ SumFunctionOnSet(g, B) <= SumFunctionOnSet(g, A)
  BY <1>1, <1>2, <1>18, TwoLightest
<1> DEFINE D == B \ {a, b}
<1>20. D \in SUBSET Q /\ D \in SUBSET M /\ IsFiniteSet(B) /\ \A n \in B : g[n] \in Nat
  BY <1>2, FS_Subset
<1>21. SumFunctionOnSet(g, B) = (g[a] + g[b]) + SumFunctionOnSet(g, D) /\ SumFunctionOnSet(g, D) \in Nat
  BY <1>1, <1>19, <1>20, SumWithoutTwo
<1>22. WeightOf(D) = SumFunctionOnSet(g, D)
  BY <1>16
<1>23. ASSUME NEW S, IsFiniteSet(S), a \in S, b \in S PROVE Cardinality(S \ {a, b}) = Cardinality(S) - 2
  <2> DEFINE R == S \ {a}
  <2>1. IsFiniteSet(R) /\ Cardinality(R) = Cardinality(S) - 1 /\ b \in R /\ R \ {b} = S \ {a, b}
    BY <1>1, <1>23, FS_RemoveElement
  <2> HIDE DEF R
  <2>2. Cardinality(R \ {b}) = Cardinality(R) - 1
    BY <2>1, FS_RemoveElement
  <2> DEFINE n == Cardinality(S)
  <2>3. n \in Nat /\ Cardinality(S \ {a, b}) = (n - 1) - 1
    BY <1>23, <2>1, <2>2, FS_CardinalityType
  <2> HIDE DEF n
  <2>4. (n - 1) - 1 = n - 2
    BY <2>3
  <2> QED
    BY <2>3, <2>4 DEF n
<1>24. Cardinality(D) = Cardinality(A) - 2
  BY <1>19, <1>20, <1>23
<1>25. Cardinality(M) = Cardinality(N) - 1
  <2>1. Cardinality(Q) = Cardinality(N) - 2
    BY <1>1, <1>23
  <2>2. Cardinality(M) = Cardinality(Q) + 1
    <3> HIDE DEF Q
    <3> QED
      BY <1>8, FS_AddElement
  <2> QED
    BY <1>17, <2>1, <2>2
<1>26. 2 * Cardinality(M) - Cardinality(D) <= 2 ^ m
  <2>1. Cardinality(A) \in Nat
    BY FS_Subset, FS_CardinalityType
  <2> DEFINE n == Cardinality(N)
             k == Cardinality(A)
             p == 2 ^ m
  <2>2. n \in Nat /\ k \in Nat /\ p \in Nat /\ 2 * n - k <= p
    BY <1>17, <1>18, <2>1, PowerPositive
  <2> HIDE DEF n, k, p
  <2>3. 2 * (n - 1) - (k - 2) <= p
    BY <2>2
  <2> QED
    BY <1>24, <1>25, <2>3 DEF n, k, p
<1> DEFINE Y == X + (a.weight + b.weight)
<1>27. Y + m * T + WeightOf(D) <= L
  <2> DEFINE y == m * T
             d == SumFunctionOnSet(g, D)
             s == SumFunctionOnSet(g, A)
             e == SumFunctionOnSet(g, B)
  <2>1. y \in Nat
    BY <1>13
  <2>2. s \in Nat /\ e \in Nat /\ d \in Nat /\ e <= s /\ e = (a.weight + b.weight) + d /\ X + y + s <= L
    BY <1>3, <1>16, <1>18, <1>19, <1>21
  <2> HIDE DEF y, d, s, e, L, D
  <2>3. (X + (a.weight + b.weight)) + y + d <= L
    BY <1>6, <1>13, <1>14, <2>1, <2>2
  <2> QED
    BY <1>22, <2>3 DEF y, d
<1> HIDE DEF M, D, Y
<1>28. Spent(M, w) = Y /\ WeightOf(M) = T
  BY <1>5, <1>13 DEF Y
<1>29. Spent(M, w) + m * WeightOf(M) + WeightOf(D) <= (l + 1) * WeightOf(M)
  BY <1>27, <1>28
<1>30. AsGoodAs(M, w, l)
  BY <1>20, <1>26, <1>29 DEF AsGoodAs
<1> QED
  BY <1>30 DEF M
-----------------------------------------------------------------------------
(***************************************************************************)
(* What rounding the weights up costs.                                     *)
(***************************************************************************)
(* Elements that count for nothing may be left out. *)
LEMMA SumSupport ==
  ASSUME NEW S, IsFiniteSet(S), NEW A \in SUBSET S, NEW g, \A s \in S : g[s] \in Nat, \A s \in S \ A : g[s] = 0
  PROVE  SumFunctionOnSet(g, S) = SumFunctionOnSet(g, A)
<1> DEFINE B == S \ A
<1>1. IsFiniteSet(A) /\ IsFiniteSet(B) /\ A \cap B = {} /\ A \cup B = S /\ \A s \in B : g[s] = 0
  BY FS_Subset
<1> HIDE DEF B
<1>2. SumFunctionOnSet(g, S) = SumFunctionOnSet(g, A) + SumFunctionOnSet(g, B)
  BY <1>1, SumUnion
<1>3. SumFunctionOnSet(g, B) = 0 * Cardinality(B)
  BY <1>1, SumConst
<1>4. Cardinality(B) \in Nat /\ SumFunctionOnSet(g, A) \in Nat
  BY <1>1, FS_CardinalityType, SumType
<1>5. 0 * Cardinality(B) = 0
  BY <1>4
<1> QED
  BY <1>2, <1>3, <1>4, <1>5

(* What is added to 2 ^ k of each weight by rounding. *)
Excess(f, k, S) == [s \in S |-> 2 ^ k * Weight(f[s], k) - f[s]]

LEMMA ExcessSmall ==
  ASSUME NEW S, NEW f, \A s \in S : f[s] \in Nat, NEW k \in Nat, NEW s \in S
  PROVE  /\ Weight(f[s], k) \in Nat /\ Excess(f, k, S)[s] \in 0 .. 2 ^ k - 1
         /\ 2 ^ k * Weight(f[s], k) = f[s] + Excess(f, k, S)[s]
         /\ (f[s] = 0 => Excess(f, k, S)[s] = 0)
<1> DEFINE p == 2 ^ k
           x == f[s]
           v == Weight(x, k)
           y == p * v
           e == Excess(f, k, S)[s]
<1>1. p \in Nat /\ x \in Nat
  BY PowerPositive
<1>2. v \in Nat /\ (x > 0 <=> v > 0) /\ y - x \in 0 .. p - 1
  BY <1>1, WeightRounds
<1>3. e = y - x
  BY DEF Excess
<1>4. y \in Nat /\ (v = 0 => y = 0)
  <2> HIDE DEF p, v
  <2> QED
    BY <1>1, <1>2
<1> HIDE DEF p, x, v, y, e
<1>5. y = x + e /\ e \in 0 .. p - 1 /\ (x = 0 => e = 0)
  BY <1>1, <1>2, <1>3, <1>4
<1> QED
  BY <1>2, <1>5 DEF p, x, v, y, e

LEMMA ExcessSum ==
  ASSUME NEW S, IsFiniteSet(S), NEW f, \A s \in S : f[s] \in Nat, NEW k \in Nat,
         NEW w, \A s \in S : w[s] = Weight(f[s], k)
  PROVE  /\ 2 ^ k * SumFunctionOnSet(w, S) = SumFunctionOnSet(f, S) + SumFunctionOnSet(Excess(f, k, S), S)
         /\ SumFunctionOnSet(Excess(f, k, S), S) <= (2 ^ k - 1) * Cardinality(S)
         /\ SumFunctionOnSet(Excess(f, k, S), S) \in Nat
         /\ SumFunctionOnSet(f, S) \in Nat /\ SumFunctionOnSet(w, S) \in Nat
<1> DEFINE p == 2 ^ k
           e == Excess(f, k, S)
           q == p - 1
           pw == [s \in S |-> p * w[s]]
           c == [s \in S |-> q]
<1>1. p \in Nat \ {0} /\ q \in Nat
  BY PowerPositive
<1>2. ASSUME NEW s \in S PROVE w[s] \in Nat /\ e[s] \in 0 .. q /\ pw[s] = f[s] + e[s] /\ pw[s] = p * w[s] /\ c[s] = q
  BY ExcessSmall
<1> HIDE DEF p, e, q, pw, c
<1>3. \A s \in S : w[s] \in Nat /\ e[s] \in Nat /\ f[s] \in Nat /\ e[s] <= c[s] /\ c[s] \in Nat /\ c[s] = q
  BY <1>1, <1>2
<1>4. SumFunctionOnSet(pw, S) = p * SumFunctionOnSet(w, S)
  BY <1>1, <1>2, <1>3, SumTimes
<1>5. SumFunctionOnSet(pw, S) = SumFunctionOnSet(f, S) + SumFunctionOnSet(e, S)
  BY <1>2, <1>3, SumPlus
<1>6. SumFunctionOnSet(e, S) <= SumFunctionOnSet(c, S)
  BY <1>3, SumLeq
<1>7. SumFunctionOnSet(c, S) = q * Cardinality(S)
  BY <1>1, <1>3, SumConst
<1>8. SumFunctionOnSet(e, S) \in Nat /\ SumFunctionOnSet(f, S) \in Nat /\ SumFunctionOnSet(w, S) \in Nat
  BY <1>3, SumType
<1> QED
  BY <1>4, <1>5, <1>6, <1>7, <1>8 DEF p, e, q

(* Half of 2 ^ x is no less than x. *)
LEMMA PowerExceeds ==
  ASSUME NEW x \in Nat
  PROVE  2 * x <= 2 ^ x
<1> DEFINE S == {i \in 0 .. x : 2 * i <= 2 ^ i /\ (i > 1 => 4 <= 2 ^ i)}
<1>1. 0 \in S
  BY PowerZero
<1>2. ASSUME NEW i \in 1 .. x, i - 1 \in S PROVE i \in S
  <2> DEFINE j == i - 1
             p == 2 ^ j
  <2>1. j \in Nat /\ j + 1 = i
    OBVIOUS
  <2>2. 2 ^ i = 2 * p /\ p \in Nat \ {0}
    <3> HIDE DEF j
    <3>1. 2 ^ (j + 1) = 2 * p /\ p \in Nat \ {0}
      BY <2>1, PowerNext, PowerPositive
    <3> QED
      BY <2>1, <3>1
  <2>3. 2 * j <= p /\ (j > 1 => 4 <= p)
    BY <1>2
  <2> HIDE DEF p
  <2>4. 2 * i <= 2 * p /\ (i > 1 => 4 <= 2 * p)
    BY <2>1, <2>2, <2>3
  <2> QED
    BY <2>2, <2>4
<1> HIDE DEF S
<1>3. x \in S
  BY <1>1, <1>2, UpTo
<1> QED
  BY <1>3 DEF S

(* By how much codes are shorter than l. *)
Shorter(len, l) == [s \in DOMAIN len |-> IF len[s] \in 1 .. l THEN l - len[s] ELSE 0]

(* There is not room for many that are much shorter. *)
LEMMA FewAreShort ==
  ASSUME NEW len, NEW maxlen, CodeLengths(len, maxlen), NEW l \in 1 .. maxlen
  PROVE  SumFunctionOnSet(Shorter(len, l), DOMAIN len) <= 2 ^ (l - 1)
<1> DEFINE S == DOMAIN len
           N == 2 ^ maxlen
           M == 2 ^ l
           q == 2 ^ (maxlen - l)
           h == 2 ^ (l - 1)
           sh == Shorter(len, l)
           room == [s \in S |-> IF len[s] \in 1 .. maxlen THEN 2 ^ (maxlen - len[s]) ELSE 0]
           part == [s \in S |-> IF len[s] \in 1 .. l THEN 2 ^ (l - len[s]) ELSE 0]
           qpart == [s \in S |-> q * part[s]]
           two == [s \in S |-> 2 * sh[s]]
<1>1. IsFiniteSet(S) /\ maxlen \in Nat /\ (\A s \in S : len[s] \in 0 .. maxlen) /\ LengthTable(len, maxlen)
      /\ KraftSum(len, maxlen)[maxlen] <= N
  BY DEF CodeLengths, LengthTable
<1>2. l \in Nat /\ l - 1 \in Nat /\ maxlen - l \in Nat /\ (l - 1) + 1 = l /\ (maxlen - l) + l = maxlen
  BY <1>1
<1>3. N \in Nat /\ M \in Nat /\ q \in Nat \ {0} /\ h \in Nat /\ M = 2 * h /\ N = q * M
  <2>1. N \in Nat /\ M \in Nat /\ q \in Nat \ {0} /\ h \in Nat
    BY <1>1, <1>2, PowerPositive
  <2>2. 2 ^ ((l - 1) + 1) = 2 * 2 ^ (l - 1)
    BY ONLY <1>2, PowerNext
  <2>3. 2 ^ ((maxlen - l) + l) = 2 ^ (maxlen - l) * 2 ^ l
    BY ONLY <1>2, PowerSum
  <2> QED
    BY <1>2, <2>1, <2>2, <2>3
<1>4. ASSUME NEW s \in S, len[s] \in 1 .. maxlen PROVE 2 ^ (maxlen - len[s]) \in 0 .. N /\ len[s] \in Nat
  <2> DEFINE j == maxlen - len[s]
  <2>1. j \in 0 .. maxlen /\ j \in Nat
    BY <1>1, <1>4
  <2> HIDE DEF j
  <2>2. 2 ^ j <= 2 ^ maxlen /\ 2 ^ j \in Nat
    BY <1>1, <2>1, PowerMonotone, PowerPositive
  <2>3. 2 ^ j \in 0 .. N
    BY <1>3, <2>2
  <2> QED
    BY <1>4, <2>3 DEF j
<1>5. \A s \in S : room[s] \in 0 .. N /\ room[s] \in Nat
  <2> TAKE s \in S
  <2>1. CASE len[s] \in 1 .. maxlen
    BY <1>3, <1>4, <2>1
  <2>2. CASE len[s] \notin 1 .. maxlen
    BY <1>3, <2>2
  <2> QED
    BY <2>1, <2>2
<1>6. SumFunctionOnSet(room, S) <= N
  <2> DEFINE C == Columns(room, S, N)
  <2>1. SumFunctionOnSet(room, S) = Cardinality(C)
    <3>1. IsFiniteSet(S) /\ N \in Nat /\ \A s \in S : room[s] \in 0 .. N
      BY <1>1, <1>3, <1>5
    <3> HIDE DEF N, room, S
    <3> QED
      BY ONLY <3>1, SumCounts
  <2>2. C = Taken(len, maxlen, maxlen)
    <3>1. ASSUME NEW p \in S \X (0 .. N - 1)
          PROVE  p[2] < room[p[1]] <=> len[p[1]] \in 1 .. maxlen /\ p[2] < 2 ^ (maxlen - len[p[1]])
      <4>1. p[2] \in 0 .. N - 1
        OBVIOUS
      <4>2. ~(p[2] < 0)
        <5> HIDE DEF N
        <5> QED
          BY <1>3, <4>1
      <4> QED
        BY <4>2
    <3> QED
      BY <3>1 DEF Taken, Columns
  <2> QED
    BY <1>1, <2>1, <2>2, KraftCounts
<1>7. ASSUME NEW s \in S
      PROVE  /\ part[s] \in Nat /\ sh[s] \in Nat /\ two[s] \in Nat /\ two[s] <= part[s] /\ two[s] = 2 * sh[s]
             /\ qpart[s] = q * part[s] /\ qpart[s] \in Nat /\ qpart[s] <= room[s]
  <2>1. CASE len[s] \in 1 .. l
    <3> DEFINE j == l - len[s]
               i == maxlen - len[s]
               a == 2 ^ j
               b == 2 ^ i
    <3>1. j \in Nat /\ i = (maxlen - l) + j /\ len[s] \in 1 .. maxlen
      BY <1>1, <2>1
    <3>2. part[s] = a /\ sh[s] = j /\ two[s] = 2 * j /\ qpart[s] = q * a /\ room[s] = b
      BY <2>1, <3>1 DEF Shorter
    <3> HIDE DEF j, i
    <3>3. a \in Nat /\ 2 * j <= a /\ b = q * a
      <4>1. 2 ^ ((maxlen - l) + j) = 2 ^ (maxlen - l) * 2 ^ j
        BY <1>2, <3>1, PowerSum
      <4> QED
        BY <3>1, <4>1, PowerPositive, PowerExceeds
    <3>4. q * a \in Nat
      <4> HIDE DEF q, a
      <4> QED
        BY <1>3, <3>3
    <3> HIDE DEF a, b, q, part, sh, two, qpart, room
    <3>5. 2 * j \in Nat /\ b <= q * a
      BY <3>1, <3>3, <3>4
    <3> QED
      BY <3>1, <3>2, <3>3, <3>4, <3>5
  <2>2. CASE len[s] \notin 1 .. l
    <3>1. part[s] = 0 /\ sh[s] = 0 /\ two[s] = 2 * 0 /\ qpart[s] = q * 0
      BY <2>2 DEF Shorter
    <3>2. q * 0 = 0
      <4> HIDE DEF q
      <4> QED
        BY <1>3
    <3> HIDE DEF q, part, sh, two, qpart, room
    <3> QED
      BY <1>5, <3>1, <3>2
  <2> QED
    BY <2>1, <2>2
<1> HIDE DEF S, N, M, q, h, sh, room, part, qpart, two
<1> DEFINE P == SumFunctionOnSet(part, S)
           Z == SumFunctionOnSet(sh, S)
<1>8. P \in Nat /\ Z \in Nat
  BY <1>1, <1>7, SumType
<1>9. SumFunctionOnSet(qpart, S) = q * P
  BY <1>1, <1>3, <1>7, SumTimes
<1>10. SumFunctionOnSet(qpart, S) <= SumFunctionOnSet(room, S) /\ SumFunctionOnSet(qpart, S) \in Nat
       /\ SumFunctionOnSet(room, S) \in Nat
  BY <1>1, <1>5, <1>7, SumLeq, SumType
<1>11. SumFunctionOnSet(two, S) = 2 * Z
  BY <1>1, <1>7, SumTimes
<1>12. SumFunctionOnSet(two, S) <= P
  BY <1>1, <1>7, SumLeq
<1> HIDE DEF P, Z
<1>13. q * P <= q * M
  BY <1>3, <1>6, <1>9, <1>10
<1>14. P <= M
  BY <1>3, <1>8, <1>13
<1>15. Z <= h
  BY <1>3, <1>8, <1>11, <1>12, <1>14
<1> QED
  BY <1>15 DEF Z, h, sh, S

(* Codes that are no worse than codes of l bits for what the symbols weigh   *)
(* are not much worse for how often they occur.                              *)
LEMMA CostBound ==
  ASSUME NEW len, NEW maxlen, CodeLengths(len, maxlen), NEW k \in Nat, NEW l \in 1 .. maxlen,
         NEW f, \A s \in DOMAIN len : f[s] \in Nat /\ (f[s] > 0 <=> len[s] > 0),
         NEW w, \A s \in DOMAIN len : w[s] = Weight(f[s], k),
         SumFunctionOnSet([s \in DOMAIN len |-> w[s] * len[s]], DOMAIN len) <= l * SumFunctionOnSet(w, DOMAIN len)
  PROVE  SumFunctionOnSet([s \in DOMAIN len |-> f[s] * len[s]], DOMAIN len)
           <= CodedBits(SumFunctionOnSet(f, DOMAIN len), l, k)
<1> DEFINE S == DOMAIN len
           p == 2 ^ k
           K == p - 1
           h == 2 ^ (l - 1)
           e == Excess(f, k, S)
           sh == Shorter(len, l)
           fl == [s \in S |-> f[s] * len[s]]
           wl == [s \in S |-> w[s] * len[s]]
           el == [s \in S |-> e[s] * len[s]]
           pwl == [s \in S |-> p * wl[s]]
           le == [s \in S |-> l * e[s]]
           ks == [s \in S |-> K * sh[s]]
           both == [s \in S |-> el[s] + ks[s]]
<1>1. IsFiniteSet(S) /\ l \in Nat /\ l # 0 /\ l - 1 \in Nat /\ \A s \in S : len[s] \in Nat
  BY DEF CodeLengths
<1>2. p \in Nat /\ K \in Nat /\ h \in Nat
  BY <1>1, PowerPositive
<1>3. \A s \in S : f[s] \in Nat /\ w[s] = Weight(f[s], k) /\ (f[s] > 0 <=> len[s] > 0)
  OBVIOUS
<1>4. SumFunctionOnSet(sh, S) <= h
  BY FewAreShort
<1>5. SumFunctionOnSet(wl, S) <= l * SumFunctionOnSet(w, S)
  OBVIOUS
<1>6. ASSUME NEW s \in S
      PROVE  /\ e[s] \in 0 .. K /\ w[s] \in Nat /\ p * w[s] = f[s] + e[s] /\ (f[s] = 0 => e[s] = 0)
             /\ sh[s] = (IF len[s] \in 1 .. l THEN l - len[s] ELSE 0) /\ sh[s] \in Nat
  <2>1. e[s] \in 0 .. K /\ w[s] \in Nat /\ p * w[s] = f[s] + e[s] /\ (f[s] = 0 => e[s] = 0)
    <3> HIDE DEF S
    <3> QED
      BY <1>3, ExcessSmall
  <2>2. sh[s] = IF len[s] \in 1 .. l THEN l - len[s] ELSE 0
    BY DEF Shorter
  <2>3. sh[s] \in Nat
    <3> HIDE DEF sh
    <3> QED
      BY <1>1, <2>2
  <2> QED
    BY <2>1, <2>2, <2>3
<1>7. \A s \in S : /\ fl[s] = f[s] * len[s] /\ wl[s] = w[s] * len[s] /\ el[s] = e[s] * len[s] /\ pwl[s] = p * wl[s]
                   /\ le[s] = l * e[s] /\ ks[s] = K * sh[s] /\ both[s] = el[s] + ks[s]
  OBVIOUS
<1> HIDE DEF S, p, K, h, e, sh, fl, wl, el, pwl, le, ks, both
<1>8. ASSUME NEW s \in S
      PROVE  /\ fl[s] \in Nat /\ wl[s] \in Nat /\ el[s] \in Nat /\ pwl[s] = fl[s] + el[s]
             /\ le[s] \in Nat /\ ks[s] \in Nat /\ both[s] \in Nat
  <2> DEFINE a == f[s]
             b == len[s]
             c == e[s]
             d == w[s]
             i == sh[s]
  <2>1. a \in Nat /\ b \in Nat /\ c \in Nat /\ d \in Nat /\ i \in Nat /\ p * d = a + c
    BY <1>1, <1>2, <1>3, <1>6
  <2>2. /\ fl[s] = a * b /\ wl[s] = d * b /\ el[s] = c * b /\ pwl[s] = p * (d * b)
        /\ le[s] = l * c /\ ks[s] = K * i /\ both[s] = c * b + K * i
    BY <1>7
  <2> HIDE DEF a, b, c, d, i
  <2>3. a * b \in Nat /\ d * b \in Nat /\ c * b \in Nat /\ l * c \in Nat /\ K * i \in Nat
    BY <1>1, <1>2, <2>1
  <2>4. p * (d * b) = (p * d) * b
    BY <1>2, <2>1
  <2>5. (a + c) * b = a * b + c * b
    BY <2>1
  <2>6. c * b + K * i \in Nat
    BY <2>3
  <2> QED
    BY <2>1, <2>2, <2>3, <2>4, <2>5, <2>6
<1>9. ASSUME NEW s \in S PROVE le[s] <= both[s]
  <2> DEFINE a == f[s]
             b == len[s]
             c == e[s]
             i == sh[s]
  <2>1. b \in Nat /\ c \in 0 .. K /\ i = (IF b \in 1 .. l THEN l - b ELSE 0) /\ (b = 0 => c = 0)
    BY <1>1, <1>3, <1>6
  <2>2. le[s] = l * c /\ both[s] = c * b + K * i
    BY <1>7
  <2> HIDE DEF b, c, i
  <2>3. CASE b = 0
    <3>1. c = 0 /\ i = 0
      BY <2>1, <2>3
    <3>2. l * 0 = 0 /\ 0 * b + K * 0 = 0
      BY <1>1, <1>2, <2>1
    <3> QED
      BY <2>2, <3>1, <3>2
  <2>4. CASE b \in 1 .. l
    <3>1. i = l - b /\ i \in Nat /\ l = b + i /\ c \in Nat /\ c <= K
      BY <1>1, <1>2, <2>1, <2>4
    <3>2. (b + i) * c = c * b + c * i
      BY <2>1, <3>1
    <3>3. c * i <= K * i
      BY <1>2, <3>1
    <3>4. c * b \in Nat /\ c * i \in Nat /\ K * i \in Nat
      BY <1>2, <2>1, <3>1
    <3>5. l * c <= c * b + K * i
      BY <3>1, <3>2, <3>3, <3>4
    <3> QED
      BY <2>2, <3>5
  <2>5. CASE b > l
    <3>1. i = 0 /\ c \in Nat /\ K * 0 = 0
      BY <1>1, <1>2, <2>1, <2>5
    <3>2. l * c <= c * b
      BY <1>1, <2>1, <2>5, <3>1
    <3>3. c * b \in Nat
      BY <2>1, <3>1
    <3> QED
      BY <2>2, <3>1, <3>2, <3>3
  <2> QED
    BY <1>1, <2>1, <2>3, <2>4, <2>5
<1> DEFINE F == SumFunctionOnSet(f, S)
           W == SumFunctionOnSet(w, S)
           E == SumFunctionOnSet(e, S)
           Z == SumFunctionOnSet(sh, S)
           FL == SumFunctionOnSet(fl, S)
           WL == SumFunctionOnSet(wl, S)
           EL == SumFunctionOnSet(el, S)
<1>10. F \in Nat /\ W \in Nat /\ E \in Nat /\ p * W = F + E
  <2>1. IsFiniteSet(S) /\ (\A s \in S : f[s] \in Nat) /\ \A s \in S : w[s] = Weight(f[s], k)
    BY <1>1, <1>3
  <2> QED
    BY <2>1, ExcessSum DEF p, e
<1>11. \A s \in S : e[s] \in Nat
  BY <1>2, <1>6
<1>12. FL \in Nat /\ WL \in Nat /\ EL \in Nat /\ Z \in Nat
  BY <1>1, <1>6, <1>8, SumType
<1>13. SumFunctionOnSet(pwl, S) = p * WL
  BY <1>1, <1>2, <1>7, <1>8, SumTimes
<1>14. SumFunctionOnSet(pwl, S) = FL + EL
  BY <1>1, <1>8, SumPlus
<1>15. SumFunctionOnSet(le, S) = l * E
  BY <1>1, <1>7, <1>11, SumTimes
<1>16. SumFunctionOnSet(ks, S) = K * Z
  BY <1>1, <1>2, <1>6, <1>7, SumTimes
<1>17. SumFunctionOnSet(both, S) = EL + SumFunctionOnSet(ks, S)
  BY <1>1, <1>7, <1>8, SumPlus
<1>18. SumFunctionOnSet(le, S) <= SumFunctionOnSet(both, S)
  BY <1>1, <1>8, <1>9, SumLeq
<1> HIDE DEF F, W, E, FL, WL, EL, Z
<1>19. p * WL <= p * (l * W)
  <2> DEFINE y == l * W
  <2>1. y \in Nat /\ WL <= y
    BY <1>1, <1>5, <1>10 DEF W, WL
  <2> HIDE DEF y
  <2>2. p * WL <= p * y
    BY <1>2, <1>12, <2>1
  <2> QED
    BY <2>2 DEF y
<1>20. p * (l * W) = l * F + l * E
  <2>1. p * (l * W) = l * (p * W)
    BY <1>1, <1>2, <1>10
  <2>2. l * (F + E) = l * F + l * E
    BY <1>1, <1>10
  <2> QED
    BY <1>10, <2>1, <2>2
<1>21. l * F \in Nat /\ l * E \in Nat /\ K * Z \in Nat /\ K * h \in Nat /\ l * F = F * l
  BY <1>1, <1>2, <1>10, <1>12
<1>22. K * Z <= K * h
  <2>1. Z <= h
    BY <1>4 DEF Z
  <2> QED
    BY <1>2, <1>12, <2>1
<1> DEFINE lF == l * F
           lE == l * E
           KZ == K * Z
           Kh == K * h
<1>23. FL + EL <= lF + lE /\ lE <= EL + KZ /\ KZ <= Kh /\ lF \in Nat /\ lE \in Nat /\ KZ \in Nat /\ Kh \in Nat
  BY <1>13, <1>14, <1>15, <1>16, <1>17, <1>18, <1>19, <1>20, <1>21, <1>22
<1> HIDE DEF lF, lE, KZ, Kh
<1>24. FL <= lF + Kh
  BY <1>12, <1>23
<1>25. CodedBits(F, l, k) = F * l + K * h
  BY DEF CodedBits, K, p, h
<1>26. FL <= CodedBits(F, l, k)
  BY <1>21, <1>24, <1>25 DEF lF, Kh
<1> QED
  BY <1>26 DEF FL, F, fl, S
-----------------------------------------------------------------------------
(***************************************************************************)
(* The loop of ZlingMakeLengthTable, once more.                            *)
(***************************************************************************)
LEMMA SymbolWeights ==
  ASSUME freq \in [Symbol -> Nat], scaling \in Nat
  PROVE  /\ \A s \in Symbol : Weights(freq, scaling)[s] = Weight(freq[s], scaling)
         /\ \A s \in Symbol : Weights(freq, scaling)[s] \in Nat
         /\ \A s \in Occurring : s \in Symbol /\ Weights(freq, scaling)[s] \in Nat \ {0}
         /\ \A s \in Symbol \ Occurring : Weights(freq, scaling)[s] = 0
         /\ IsFiniteSet(Occurring) /\ Occurring \in SUBSET Symbol
<1> DEFINE w == Weights(freq, scaling)
<1>1. \A s \in Symbol : w[s] = Weight(freq[s], scaling) /\ freq[s] \in Nat
  BY DEF Weights
<1> HIDE DEF w
<1>2. \A s \in Symbol : w[s] \in Nat /\ (freq[s] > 0 <=> w[s] > 0)
  BY <1>1, WeightRounds
<1>3. Occurring \in SUBSET Symbol /\ \A s \in Symbol : s \in Occurring <=> freq[s] > 0
  BY DEF Occurring
<1>4. IsFiniteSet(Occurring)
  BY <1>3, SymbolsFinite, FS_Subset
<1>5. \A s \in Symbol : w[s] \in Nat /\ (s \in Occurring <=> w[s] # 0)
  BY <1>2, <1>3
<1> QED
  BY <1>1, <1>3, <1>4, <1>5 DEF w

(* It suffices to compare symbol by symbol. *)
LEMMA FairEach ==
  ASSUME NEW w, \A s \in Symbol : w[s] \in Nat, NEW len, \A s \in Symbol : len[s] \in Nat,
         NEW l \in Nat, \A s \in Symbol : w[s] = 0 \/ len[s] <= l
  PROVE  SumFunctionOnSet([s \in Symbol |-> w[s] * len[s]], Symbol) <= l * SumFunctionOnSet(w, Symbol)
<1> DEFINE g == [s \in Symbol |-> w[s] * len[s]]
           h == [s \in Symbol |-> l * w[s]]
<1>1. ASSUME NEW s \in Symbol PROVE g[s] \in Nat /\ h[s] \in Nat /\ g[s] <= h[s] /\ h[s] = l * w[s]
  <2> DEFINE a == w[s]
             b == len[s]
  <2>1. a \in Nat /\ b \in Nat /\ (a = 0 \/ b <= l) /\ g[s] = a * b /\ h[s] = l * a
    OBVIOUS
  <2> HIDE DEF a, b, g, h
  <2>2. a * b \in Nat /\ l * a \in Nat
    BY <2>1
  <2>3. a * b <= l * a
    <3>1. CASE a = 0
      BY <2>1, <3>1
    <3>2. CASE b <= l
      BY <2>1, <3>2
    <3> QED
      BY <2>1, <3>1, <3>2
  <2> QED
    BY <2>1, <2>2, <2>3 DEF a
<1> HIDE DEF g, h
<1>2. IsFiniteSet(Symbol)
  BY SymbolsFinite
<1>3. SumFunctionOnSet(g, Symbol) <= SumFunctionOnSet(h, Symbol)
  BY <1>1, <1>2, SumLeq
<1>4. SumFunctionOnSet(h, Symbol) = l * SumFunctionOnSet(w, Symbol)
  BY <1>1, <1>2, SumTimes
<1> QED
  BY <1>3, <1>4 DEF g

LEMMA CInit == Init => CInv
<1> SUFFICES ASSUME Init PROVE CInv
  OBVIOUS
<1>1. HInv
  BY HInit
<1>2. scaling = 0 /\ hpc = "leaves"
  BY DEF Init
<1> QED
  BY <1>1, <1>2 DEF CInv, RescaledSeldom

LEMMA CLeaves == CInv /\ MakeLeaves => CInv'
<1> SUFFICES ASSUME CInv, MakeLeaves PROVE CInv'
  OBVIOUS
<1> DEFINE w == Weights(freq, scaling)
<1>1. HInv /\ HInv' /\ scaling \in Nat /\ RescaledSeldom /\ freq \in [Symbol -> Nat] /\ length \in [Symbol -> Nat]
  BY HLeaves DEF CInv, HInv
<1>2. /\ freq' = freq /\ scaling' = scaling /\ length' = length /\ Occurring' = Occurring
      /\ nodes' = {Leaf(s) : s \in Occurring} /\ hpc' = IF Occurring = {} THEN "done" ELSE "join"
  BY DEF MakeLeaves, Occurring
<1>3. Weights(freq', scaling') = w
  BY <1>2
<1>4. /\ \A s \in Symbol : w[s] = Weight(freq[s], scaling) /\ w[s] \in Nat
      /\ \A s \in Occurring : s \in Symbol /\ w[s] \in Nat \ {0}
      /\ \A s \in Symbol \ Occurring : w[s] = 0
      /\ IsFiniteSet(Occurring) /\ Occurring \in SUBSET Symbol
  BY <1>1, SymbolWeights
<1> HIDE DEF w
<1>5. ASSUME NEW s \in Occurring
      PROVE  /\ Leaf(s).weight = w[s] /\ Leaf(s).depth = [t \in {s} |-> 0]
             /\ Weighed(Leaf(s), w) /\ Cost(Leaf(s), w) = 0
             /\ \A t \in DOMAIN Leaf(s).depth : Leaf(s).depth[t] = 0
  <2> DEFINE n == Leaf(s)
  <2>1. n.weight = w[s] /\ n.depth = [t \in {s} |-> 0] /\ w[s] \in Nat \ {0}
    BY <1>4 DEF Leaf
  <2> HIDE DEF n
  <2>2. Weighed(n, w) /\ Cost(n, w) = 0
    BY <2>1, LeafWeighed
  <2>3. \A t \in DOMAIN n.depth : n.depth[t] = 0
    BY <2>1
  <2> QED
    BY <2>1, <2>2, <2>3 DEF n
<1>6. (hpc = "join" => Growing)'
  <2> DEFINE N == nodes'
  <2>1. \A n \in N : Weighed(n, w) /\ Cost(n, w) = 0 /\ n.weight \in Nat /\ \A t \in DOMAIN n.depth : n.depth[t] = 0
    <3> TAKE n \in N
    <3>1. PICK s \in Occurring : n = Leaf(s)
      BY <1>2
    <3>2. n.weight \in Nat
      BY <1>4, <1>5, <3>1
    <3> QED
      BY <1>5, <3>1, <3>2
  <2>2. NoneLighter(N)
    BY <2>1 DEF NoneLighter
  <2>3. IsFiniteSet(N) /\ Cardinality(N) <= Cardinality(Occurring) /\ Cardinality(N) \in Nat /\ Cardinality(Occurring) \in Nat
    <3> DEFINE f == [s \in Occurring |-> Leaf(s)]
    <3>1. f \in Surjection(Occurring, N)
      BY <1>2 DEF Surjection
    <3>2. IsFiniteSet(N) /\ Cardinality(N) <= Cardinality(Occurring)
      BY <1>4, <3>1, FS_Surjection
    <3> QED
      BY <1>4, <3>2, FS_CardinalityType
  <2> HIDE DEF N
  <2>4. Spent(N, w) = 0
    <3> DEFINE g == [n \in N |-> Cost(n, w)]
    <3>1. \A n \in N : g[n] = 0
      BY <2>1
    <3> HIDE DEF g
    <3>2. SumFunctionOnSet(g, N) = 0 * Cardinality(N)
      BY <2>3, <3>1, SumConst
    <3>3. SumFunctionOnSet(g, N) = 0
      BY <2>3, <3>2
    <3> QED
      BY <3>3 DEF Spent, g
  <2>5. WeightOf({}) = 0
    <3> DEFINE g == [n \in {} |-> n.weight]
    <3>1. IsFiniteSet({}) /\ \A n \in {} : g[n] \in Nat
      BY FS_EmptySet
    <3> HIDE DEF g
    <3>2. SumFunctionOnSet(g, {}) = 0
      BY <3>1, SumSteps
    <3> QED
      BY <3>2 DEF WeightOf, g
  <2>6. WeightOf(N) \in Nat
    <3> DEFINE g == [n \in N |-> n.weight]
    <3>1. \A n \in N : g[n] \in Nat
      BY <2>1
    <3> HIDE DEF g
    <3> QED
      BY <2>3, <3>1, SumType DEF WeightOf, g
  <2>7. ASSUME NEW l \in Nat, Cardinality(Occurring) <= 2 ^ l PROVE AsGoodAs(N, w, l)
    <3> DEFINE m == l + 1
               p == 2 ^ l
               T == WeightOf(N)
    <3>1. m \in Nat /\ {} \in SUBSET N /\ Cardinality({}) = 0
      BY FS_EmptySet
    <3>2. 2 ^ m = 2 * p /\ p \in Nat
      BY PowerNext, PowerPositive
    <3>3. 2 * Cardinality(N) - 0 <= 2 * p
      <4>1. Cardinality(N) <= p
        BY <2>3, <2>7, <3>2
      <4> HIDE DEF p
      <4> QED
        BY <2>3, <3>2, <4>1
    <3>4. m * T \in Nat
      BY <2>6, <3>1
    <3>5. Spent(N, w) + m * T + WeightOf({}) <= m * T
      BY <2>4, <2>5, <3>4
    <3> HIDE DEF m
    <3>6. 2 * Cardinality(N) - Cardinality({}) <= 2 ^ m
      BY <3>1, <3>2, <3>3
    <3>7. Spent(N, w) + m * WeightOf(N) + WeightOf({}) <= (l + 1) * WeightOf(N)
      BY <3>5 DEF m
    <3> QED
      BY <3>1, <3>6, <3>7 DEF AsGoodAs
  <2> QED
    BY <1>2, <1>3, <2>1, <2>2, <2>7 DEF Growing, N
<1>7. (hpc = "done" => FairlyCoded(freq, length, scaling))'
  <2> SUFFICES ASSUME Occurring = {}, NEW l \in Nat \ {0}
               PROVE  SumFunctionOnSet([s \in Symbol |-> w[s] * length[s]], Symbol) <= l * SumFunctionOnSet(w, Symbol)
    BY <1>2, <1>3 DEF FairlyCoded
  <2>1. \A s \in Symbol : w[s] \in Nat /\ w[s] = 0 /\ length[s] \in Nat
    BY <1>1, <1>4
  <2> QED
    BY <2>1, FairEach
<1>8. RescaledSeldom'
  BY <1>1, <1>2 DEF RescaledSeldom
<1> QED
  BY <1>1, <1>2, <1>6, <1>7, <1>8 DEF CInv

LEMMA CJoin == CInv /\ JoinTwo => CInv'
<1> SUFFICES ASSUME CInv, JoinTwo PROVE CInv'
  OBVIOUS
<1> DEFINE w == Weights(freq, scaling)
<1>1. /\ HInv /\ HInv' /\ scaling \in Nat /\ RescaledSeldom /\ freq \in [Symbol -> Nat]
      /\ hpc = "join" /\ Forest /\ Growing
  BY HJoin DEF CInv, HInv, JoinTwo
<1>2. /\ freq' = freq /\ scaling' = scaling /\ length' = length /\ Occurring' = Occurring /\ hpc' = hpc
  BY DEF JoinTwo, Occurring
<1>3. PICK a \in Lightest(nodes) : \E b \in Lightest(nodes \ {a}) : nodes' = (nodes \ {a, b}) \cup {Join(a, b)}
  BY DEF JoinTwo
<1>4. PICK b \in Lightest(nodes \ {a}) : nodes' = (nodes \ {a, b}) \cup {Join(a, b)}
  BY <1>3
<1> DEFINE c == Join(a, b)
<1>5. Weights(freq', scaling') = w
  BY <1>2
<1>6. \A s \in Occurring : w[s] \in Nat \ {0}
  BY <1>1, SymbolWeights
<1>7. /\ \A n \in nodes : Weighed(n, w)
      /\ NoneLighter(nodes)
      /\ \A l \in Nat : Cardinality(Occurring) <= 2 ^ l => AsGoodAs(nodes, w, l)
  BY <1>1 DEF Growing
<1> HIDE DEF w
<1>8. a \in nodes /\ b \in nodes /\ a # b /\ (\A n \in nodes : a.weight <= n.weight) /\ (\A n \in nodes \ {a} : b.weight <= n.weight)
  BY DEF Lightest
<1>9. \A n \in nodes : IsDepth(n.depth) /\ Positive(w, DOMAIN n.depth)
  <2> TAKE n \in nodes
  <2>1. DOMAIN n.depth \in SUBSET Occurring
    BY <1>1 DEF Forest
  <2> QED
    BY <1>1, <1>6, <2>1 DEF Forest, Positive
<1>10. \A n \in nodes : n.weight \in Nat \ {0} /\ Cost(n, w) \in Nat
  BY <1>7, <1>9, TreeTypes
<1>11. DOMAIN a.depth \cap DOMAIN b.depth = {}
  BY <1>1, <1>8 DEF Forest
<1>12. Weighed(c, w) /\ Cost(c, w) = (Cost(a, w) + Cost(b, w)) + (a.weight + b.weight)
  <2>1. NoneLighter({a, b})
    BY <1>7, <1>8 DEF NoneLighter
  <2>2. Weighed(a, w) /\ Weighed(b, w) /\ IsDepth(a.depth) /\ IsDepth(b.depth) /\ Positive(w, DOMAIN a.depth)
        /\ Positive(w, DOMAIN b.depth)
    BY <1>7, <1>8, <1>9
  <2>3. Weighed(c, w)
    BY <1>8, <1>11, <2>1, <2>2, JoinWeighed
  <2>4. Cost(c, w) = (Cost(a, w) + Cost(b, w)) + (a.weight + b.weight)
    BY <1>11, <2>2, JoinCosts
  <2> QED
    BY <2>3, <2>4
<1>13. /\ c.weight = a.weight + b.weight /\ DOMAIN c.depth = DOMAIN a.depth \cup DOMAIN b.depth
       /\ (\A s \in DOMAIN a.depth : c.depth[s] = 1 + a.depth[s])
       /\ (\A s \in DOMAIN b.depth : c.depth[s] = 1 + b.depth[s])
  BY <1>11 DEF Join
<1> HIDE DEF c
<1>14. c \notin nodes
  <2> SUFFICES ASSUME c \in nodes PROVE FALSE
    OBVIOUS
  <2>1. DOMAIN a.depth # {} /\ DOMAIN b.depth # {}
    BY <1>8, <1>9 DEF IsDepth
  <2>2. c = a
    BY <1>1, <1>8, <1>13, <2>1 DEF Forest
  <2> QED
    BY <1>11, <1>13, <2>1, <2>2
<1>15. nodes' = (nodes \ {a, b}) \cup {c}
  BY <1>4 DEF c
<1>16. \A n \in nodes' : Weighed(n, w)
  BY <1>7, <1>12, <1>15
<1>17. NoneLighter(nodes')
  <2>1. ASSUME NEW e \in {a, b}, NEW x \in nodes \ {a, b}, NEW s \in DOMAIN e.depth
        PROVE  x.weight >= Fib((1 + e.depth[s]) + 1)
    <3> DEFINE d == e.depth[s]
               f == Fib(d + 2)
    <3>1. e \in nodes /\ d \in Nat /\ e.weight >= f
      BY <1>7, <1>8, <1>9 DEF Weighed, IsDepth
    <3>2. x.weight >= e.weight /\ x.weight \in Nat /\ e.weight \in Nat
      BY <1>8, <1>10
    <3>3. f \in Nat
      <4>1. d + 1 \in Nat /\ (d + 1) + 1 = d + 2
        BY <3>1
      <4> HIDE DEF d
      <4> QED
        BY <4>1, FibSteps
    <3>4. (1 + d) + 1 = d + 2
      BY <3>1
    <3> HIDE DEF f
    <3>5. x.weight >= f
      BY <3>1, <3>2, <3>3
    <3> QED
      BY <3>4, <3>5 DEF f
  <2>2. ASSUME NEW x \in nodes \ {a, b}, NEW s \in DOMAIN c.depth
        PROVE  x.weight >= Fib(c.depth[s] + 1)
    <3>1. CASE s \in DOMAIN a.depth
      BY <1>13, <2>1, <3>1
    <3>2. CASE s \in DOMAIN b.depth
      BY <1>13, <2>1, <3>2
    <3> QED
      BY <1>13, <3>1, <3>2
  <2>3. ASSUME NEW x \in nodes \ {a, b}, NEW s \in DOMAIN x.depth, x.depth[s] >= 1
        PROVE  c.weight >= Fib(x.depth[s] + 1)
    <3> DEFINE f == Fib(x.depth[s] + 1)
    <3>1. a.weight >= f
      BY <1>7, <1>8, <2>3 DEF NoneLighter
    <3>2. f \in Nat
      <4>1. x.depth[s] \in Nat
        BY <1>9 DEF IsDepth
      <4> QED
        BY <4>1, FibSteps
    <3> HIDE DEF f
    <3>3. c.weight >= f
      BY <1>8, <1>10, <1>13, <3>1, <3>2
    <3> QED
      BY <3>3 DEF f
  <2> SUFFICES ASSUME NEW x \in nodes', NEW y \in nodes', x # y, NEW s \in DOMAIN x.depth, x.depth[s] >= 1
               PROVE  y.weight >= Fib(x.depth[s] + 1)
    BY DEF NoneLighter
  <2>4. CASE x = c
    BY <1>15, <2>2, <2>4
  <2>5. CASE y = c
    BY <1>15, <2>3, <2>5
  <2>6. CASE x # c /\ y # c
    BY <1>7, <1>15, <2>6 DEF NoneLighter
  <2> QED
    BY <2>4, <2>5, <2>6
<1>18. ASSUME NEW l \in Nat, Cardinality(Occurring) <= 2 ^ l PROVE AsGoodAs(nodes', w, l)
  <2>1. AsGoodAs(nodes, w, l)
    BY <1>7, <1>18
  <2>2. IsFiniteSet(nodes) /\ \A n \in nodes : n.weight \in Nat /\ Cost(n, w) \in Nat
    BY <1>1, <1>10 DEF Forest
  <2>3. AsGoodAs((nodes \ {a, b}) \cup {c}, w, l)
    BY <1>12, <1>13, <1>14, <2>1, <2>2, JoinAsGood
  <2> QED
    BY <1>15, <2>3
<1>19. Growing'
  BY <1>2, <1>5, <1>16, <1>17, <1>18 DEF Growing
<1>20. RescaledSeldom'
  BY <1>1, <1>2 DEF RescaledSeldom
<1> QED
  BY <1>1, <1>2, <1>19, <1>20 DEF CInv

(* Of one tree left its symbols cost no more than l bits each. *)
LEMMA LoneTree ==
  ASSUME NEW n, NEW w, n.weight \in Nat, Cost(n, w) \in Nat, NEW l \in Nat, AsGoodAs({n}, w, l)
  PROVE  Cost(n, w) <= l * n.weight
<1> DEFINE N == {n}
           x == n.weight
           y == Cost(n, w)
<1>1. IsFiniteSet(N) /\ Cardinality(N) = 1
  BY FS_Singleton
<1>2. WeightOf(N) = x
  <2> DEFINE g == [i \in N |-> i.weight]
  <2>1. g[n] = x /\ g[n] \in Nat
    OBVIOUS
  <2> HIDE DEF g
  <2>2. SumFunctionOnSet(g, {n}) = g[n]
    BY <2>1, SumSingleton
  <2> QED
    BY <2>1, <2>2 DEF WeightOf, g
<1>3. Spent(N, w) = y
  <2> DEFINE g == [i \in N |-> Cost(i, w)]
  <2>1. g[n] = y /\ g[n] \in Nat
    OBVIOUS
  <2> HIDE DEF g
  <2>2. SumFunctionOnSet(g, {n}) = g[n]
    BY <2>1, SumSingleton
  <2> QED
    BY <2>1, <2>2 DEF Spent, g
<1>4. WeightOf({}) = 0
  <2> DEFINE g == [i \in {} |-> i.weight]
  <2>1. IsFiniteSet({}) /\ \A i \in {} : g[i] \in Nat
    BY FS_EmptySet
  <2> HIDE DEF g
  <2>2. SumFunctionOnSet(g, {}) = 0
    BY <2>1, SumSteps
  <2> QED
    BY <2>2 DEF WeightOf, g
<1>5. PICK m \in Nat, A \in SUBSET N :
        2 * Cardinality(N) - Cardinality(A) <= 2 ^ m
        /\ Spent(N, w) + m * WeightOf(N) + WeightOf(A) <= (l + 1) * WeightOf(N)
  BY DEF AsGoodAs
<1> HIDE DEF x, y
<1>6. x \in Nat /\ y \in Nat
  BY DEF x, y
<1>7. y + m * x + WeightOf(A) <= (l + 1) * x /\ (l + 1) * x = l * x + x /\ l * x \in Nat /\ m * x \in Nat
  BY <1>2, <1>3, <1>5, <1>6
<1>8. y <= l * x
  <2> DEFINE z == l * x
             v == m * x
  <2>1. y + v + WeightOf(A) <= z + x /\ z \in Nat /\ v \in Nat
    BY <1>7
  <2>2. CASE A = N
    <3>1. WeightOf(A) = x
      BY <1>2, <2>2
    <3> HIDE DEF z, v
    <3>2. y <= z
      BY <1>6, <2>1, <3>1
    <3> QED
      BY <3>2 DEF z
  <2>3. CASE A = {}
    <3>1. 2 <= 2 ^ m
      BY <1>1, <1>5, <2>3, FS_EmptySet
    <3>2. m # 0
      <4> SUFFICES ASSUME m = 0 PROVE FALSE
        OBVIOUS
      <4>1. 2 ^ m = 1
        BY PowerZero
      <4> QED
        BY <3>1, <4>1
    <3>3. x <= v
      BY <1>6, <3>2
    <3>4. WeightOf(A) = 0
      BY <1>4, <2>3
    <3> HIDE DEF z, v
    <3>5. y <= z
      BY <1>6, <2>1, <3>3, <3>4
    <3> QED
      BY <3>5 DEF z
  <2> HIDE DEF z, v
  <2>4. A = N \/ A = {}
    OBVIOUS
  <2> QED
    BY <2>2, <2>3, <2>4
<1> QED
  BY <1>8 DEF x, y

(* A tree too deep to be let through is heavy. *)
LEMMA DeepIsHeavy ==
  ASSUME freq \in [Symbol -> Nat], scaling \in Nat, NEW n, n.weight \in Nat, IsDepth(n.depth), 
         DOMAIN n.depth = Occurring, Weighed(n, Weights(freq, scaling)), 
         NEW s \in DOMAIN n.depth, n.depth[s] > MaxCodeLen
  PROVE  ~ShallowEnough(CodeOf(NumCodes, MaxCodeLen), SumFunction(freq), scaling)
<1> DEFINE w == Weights(freq, scaling)
           d == n.depth[s]
           deep == Fib(MaxCodeLen + 3)
           F == SumFunctionOnSet(freq, Symbol)
           W == SumFunctionOnSet(w, Symbol)
           E == SumFunctionOnSet(Excess(freq, scaling, Symbol), Symbol)
           p == 2 ^ scaling
           q == p - 1
<1>1. /\ \A t \in Symbol : w[t] = Weight(freq[t], scaling) /\ w[t] \in Nat /\ freq[t] \in Nat
      /\ \A t \in Symbol \ Occurring : w[t] = 0
      /\ Occurring \in SUBSET Symbol
  BY SymbolWeights
<1>2. IsFiniteSet(Symbol) /\ Cardinality(Symbol) = NumCodes /\ NumCodes \in Nat /\ MaxCodeLen \in Nat
  <2>1. MaxCodeLen \in Nat /\ NumCodes \in Nat
    BY SymbolsFinite, HuffmanAssumption, PowerPositive
  <2> QED
    BY <2>1, Below DEF Symbol
<1>3. SumFunction(freq) = F
  BY DEF SumFunction
<1>4. n.weight = SumFunctionOnSet(w, Occurring) /\ n.weight >= Fib(d + 2)
  BY DEF Weighed
<1>5. d \in Nat /\ d > MaxCodeLen
  BY DEF IsDepth
<1> HIDE DEF w, d
<1>6. n.weight = W
  BY <1>1, <1>2, <1>4, SumSupport
<1>7. deep <= n.weight /\ deep \in Nat
  <2> DEFINE i == MaxCodeLen + 2
             j == d + 1
  <2>1. j \in Nat /\ i \in 0 .. j /\ i \in Nat /\ i + 1 = MaxCodeLen + 3 /\ j + 1 = d + 2
    BY <1>2, <1>5
  <2> HIDE DEF i, j
  <2>2. Fib(i + 1) <= Fib(j + 1) /\ Fib(i + 1) \in Nat /\ Fib(j + 1) \in Nat
    BY <2>1, FibMonotone, FibSteps
  <2> DEFINE a == Fib(MaxCodeLen + 3)
             b == Fib(d + 2)
  <2>3. a <= b /\ a \in Nat /\ b \in Nat /\ b <= n.weight
    BY <1>4, <2>1, <2>2
  <2> HIDE DEF a, b
  <2>4. a <= n.weight
    BY <2>3
  <2> QED
    BY <2>3, <2>4 DEF a
<1>8. p * W = F + E /\ E <= q * NumCodes /\ E \in Nat /\ F \in Nat /\ W \in Nat
  <2> HIDE DEF p, q
  <2> QED
    BY <1>1, <1>2, ExcessSum DEF p, q
<1>9. p \in Nat /\ q \in Nat
  BY PowerPositive
<1> HIDE DEF F, E, W, p, q, deep
<1>10. p * deep <= p * W
  BY <1>6, <1>7, <1>8, <1>9
<1> DEFINE a == p * deep
           b == p * NumCodes
<1>11. a \in Nat /\ b \in Nat /\ a <= F + E /\ q * NumCodes = b - NumCodes
  BY <1>2, <1>7, <1>8, <1>9, <1>10 DEF q
<1>12. p * (deep - NumCodes) = a - b
  BY <1>2, <1>7, <1>9
<1> HIDE DEF a, b
<1>13. ~(F < (a - b) + NumCodes)
  BY <1>2, <1>8, <1>11
<1>14. ~(F < p * (deep - NumCodes) + NumCodes)
  BY <1>12, <1>13
<1> QED
  BY <1>3, <1>14 DEF ShallowEnough, CodeOf, p, deep

LEMMA CExtract == CInv /\ ExtractLengths => CInv'
<1> SUFFICES ASSUME CInv, ExtractLengths PROVE CInv'
  OBVIOUS
<1> DEFINE w == Weights(freq, scaling)
<1>1. /\ HInv /\ HInv' /\ scaling \in Nat /\ RescaledSeldom /\ freq \in [Symbol -> Nat] /\ length \in [Symbol -> Nat]
      /\ hpc = "join" /\ Forest /\ Growing
  BY HExtract DEF CInv, HInv, ExtractLengths
<1>2. /\ freq' = freq /\ Occurring' = Occurring
      /\ IF TooLong(length') THEN scaling' = scaling + 1 /\ hpc' = "leaves" ELSE scaling' = scaling /\ hpc' = "done"
  BY DEF ExtractLengths, Occurring, Coarser
<1>3. PICK root \in nodes :
        length' = [s \in Symbol |->
                     IF s \in DOMAIN root.depth THEN CodeLength(root.depth[s]) ELSE length[s]]
  BY DEF ExtractLengths
<1> DEFINE d == root.depth
<1>4. nodes = {root}
  <2>1. Cardinality(nodes) = 1
    BY DEF ExtractLengths
  <2> QED
    BY <1>1, <1>3, <2>1, FS_Singleton DEF Forest
<1>5. IsDepth(d) /\ DOMAIN d = Occurring
  BY <1>1, <1>4 DEF Forest
<1>6. /\ \A s \in Symbol : w[s] = Weight(freq[s], scaling) /\ w[s] \in Nat
      /\ \A s \in Occurring : s \in Symbol /\ w[s] \in Nat \ {0}
      /\ \A s \in Symbol \ Occurring : w[s] = 0
      /\ Occurring \in SUBSET Symbol /\ IsFiniteSet(Occurring)
  BY <1>1, SymbolWeights
<1>7. Weighed(root, w) /\ \A l \in Nat : Cardinality(Occurring) <= 2 ^ l => AsGoodAs({root}, w, l)
  BY <1>1, <1>4 DEF Growing
<1>8. Positive(w, DOMAIN d)
  BY <1>5, <1>6 DEF Positive
<1> HIDE DEF w
<1>9. root.weight \in Nat /\ Cost(root, w) \in Nat
  BY <1>5, <1>7, <1>8, TreeTypes
<1>10. \A s \in Symbol : s \in DOMAIN d => d[s] \in Nat /\ length'[s] = IF d[s] = 0 THEN 1 ELSE d[s]
  BY <1>3, <1>5 DEF CodeLength, IsDepth
<1>11. length' \in [Symbol -> Nat] /\ \A s \in Symbol \ Occurring : freq[s] = 0 /\ length'[s] = 0
  <2>1. length' \in [Symbol -> Nat] /\ \A s \in Symbol : freq[s] = 0 => length'[s] = 0
    BY <1>1, <1>2 DEF HInv
  <2> QED
    BY <1>1, <2>1 DEF Occurring
<1> HIDE DEF d
<1>12. CASE TooLong(length')
  <2>1. PICK s \in Symbol : length'[s] > MaxCodeLen
    BY <1>12 DEF TooLong
  <2>2. MaxCodeLen \in Nat \ {0}
    BY SymbolsFinite
  <2>3. s \in DOMAIN d
    BY <1>5, <1>11, <2>1, <2>2
  <2>4. d[s] > MaxCodeLen
    BY <1>10, <2>1, <2>2, <2>3
  <2>5. ~ShallowEnough(CodeOf(NumCodes, MaxCodeLen), SumFunction(freq), scaling)
    BY <1>1, <1>5, <1>7, <1>9, <2>3, <2>4, DeepIsHeavy DEF w, d
  <2>6. scaling' = scaling + 1 /\ hpc' = "leaves" /\ scaling' - 1 = scaling
    BY <1>1, <1>2, <1>12
  <2>7. RescaledSeldom'
    BY <1>2, <2>5, <2>6 DEF RescaledSeldom
  <2> QED
    BY <1>1, <2>6, <2>7 DEF CInv
<1>13. CASE ~TooLong(length')
  <2>1. scaling' = scaling /\ hpc' = "done"
    BY <1>2, <1>13
  <2>2. RescaledSeldom'
    BY <1>1, <1>2, <2>1 DEF RescaledSeldom
  <2>3. FairlyCoded(freq, length', scaling)
    <3> SUFFICES ASSUME NEW l \in Nat \ {0}, Cardinality(Occurring) <= 2 ^ l
                 PROVE  SumFunctionOnSet([s \in Symbol |-> w[s] * length'[s]], Symbol) <= l * SumFunctionOnSet(w, Symbol)
      BY DEF FairlyCoded, Occurring, w
    <3>1. CASE \E s \in DOMAIN d : d[s] = 0
      <4>1. PICK s \in DOMAIN d : d[s] = 0
        BY <3>1
      <4>2. DOMAIN d = {s}
        BY <1>7, <4>1 DEF Weighed, d
      <4>3. length'[s] = 1 /\ s \in Symbol
        BY <1>5, <1>6, <1>10, <4>1
      <4>4. \A t \in Symbol : w[t] \in Nat /\ length'[t] \in Nat /\ (w[t] = 0 \/ length'[t] <= l)
        <5> TAKE t \in Symbol
        <5>1. w[t] \in Nat /\ length'[t] \in Nat
          BY <1>6, <1>11
        <5>2. CASE t = s
          BY <4>3, <5>1, <5>2
        <5>3. CASE t # s
          BY <1>5, <1>6, <4>2, <5>1, <5>3
        <5> QED
          BY <5>2, <5>3
      <4> QED
        BY <4>4, FairEach
    <3>2. CASE \A s \in DOMAIN d : d[s] # 0
      <4> DEFINE g == [s \in Symbol |-> w[s] * length'[s]]
                 c == [s \in DOMAIN d |-> w[s] * d[s]]
      <4>1. \A s \in Symbol : g[s] \in Nat /\ (s \notin Occurring => g[s] = 0)
        <5> TAKE s \in Symbol
        <5> DEFINE a == w[s]
                   b == length'[s]
        <5>1. a \in Nat /\ b \in Nat /\ g[s] = a * b /\ (s \notin Occurring => b = 0)
          BY <1>6, <1>11
        <5> HIDE DEF a, b, g
        <5>2. a * b \in Nat /\ (b = 0 => a * b = 0)
          BY <5>1
        <5> QED
          BY <5>1, <5>2
      <4>2. \A s \in Occurring : g[s] \in Nat /\ c[s] = g[s]
        <5> TAKE s \in Occurring
        <5>1. s \in Symbol /\ s \in DOMAIN d /\ d[s] # 0
          BY <1>5, <1>6, <3>2
        <5>2. length'[s] = d[s]
          BY <1>10, <5>1
        <5> QED
          BY <4>1, <5>1, <5>2
      <4>3. Cost(root, w) = SumFunctionOnSet(c, DOMAIN d)
        BY DEF Cost, d
      <4> HIDE DEF g, c
      <4>4. SumFunctionOnSet(g, Symbol) = SumFunctionOnSet(g, Occurring)
        BY <1>6, <4>1, SymbolsFinite, SumSupport
      <4>5. SumFunctionOnSet(g, Occurring) = SumFunctionOnSet(c, Occurring)
        BY <1>6, <4>2, SumSame
      <4>6. SumFunctionOnSet(w, Symbol) = SumFunctionOnSet(w, Occurring)
        BY <1>6, SymbolsFinite, SumSupport
      <4>7. root.weight = SumFunctionOnSet(w, Occurring)
        BY <1>5, <1>7 DEF Weighed, d
      <4>8. Cost(root, w) <= l * root.weight
        <5>1. AsGoodAs({root}, w, l)
          BY <1>7
        <5> QED
          BY <1>9, <5>1, LoneTree
      <4>9. SumFunctionOnSet(g, Symbol) = Cost(root, w) /\ SumFunctionOnSet(w, Symbol) = root.weight
        BY <1>5, <4>3, <4>4, <4>5, <4>6, <4>7
      <4> QED
        BY <4>8, <4>9 DEF g
    <3> QED
      BY <3>1, <3>2
  <2>4. FairlyCoded(freq', length', scaling')
    BY <1>2, <2>1, <2>3
  <2> QED
    BY <1>1, <2>1, <2>2, <2>4 DEF CInv
<1> QED
  BY <1>12, <1>13

LEMMA CNext == CInv /\ [Next]_vars => CInv'
<1> SUFFICES ASSUME CInv, [Next]_vars PROVE CInv'
  OBVIOUS
<1>1. CASE MakeLeaves
  BY <1>1, CLeaves
<1>2. CASE JoinTwo
  BY <1>2, CJoin
<1>3. CASE ExtractLengths
  BY <1>3, CExtract
<1>4. CASE UNCHANGED vars
  <2>1. HInv'
    BY <1>4, HNext DEF CInv
  <2> QED
    BY <1>4, <2>1 DEF vars, CInv, Growing, Occurring, RescaledSeldom
<1> QED
  BY <1>1, <1>2, <1>3, <1>4 DEF Next, Terminating

(* What is made of the lengths once they are admissible. *)
LEMMA CodedWell ==
  ASSUME CInv, hpc = "done", NEW l \in 1 .. MaxCodeLen, Cardinality(Occurring) <= 2 ^ l
  PROVE  SumFunction([s \in Symbol |-> freq[s] * length[s]]) <= CodedBits(SumFunction(freq), l, scaling)
<1> DEFINE w == Weights(freq, scaling)
           g == [s \in Symbol |-> freq[s] * length[s]]
<1>1. /\ freq \in [Symbol -> Nat] /\ length \in [Symbol -> Nat] /\ scaling \in Nat
      /\ Admissible(freq, length, MaxCodeLen) /\ FairlyCoded(freq, length, scaling)
  BY DEF CInv, HInv, LengthsAdmissible
<1>2. DOMAIN length = Symbol /\ DOMAIN freq = Symbol /\ IsFiniteSet(Symbol) /\ Symbol \subseteq Int /\ MaxCodeLen \in Nat \ {0}
  BY <1>1, SymbolsFinite
<1>3. CodeLengths(length, MaxCodeLen)
  BY <1>1, <1>2 DEF CodeLengths, Admissible
<1>4. \A s \in Symbol : freq[s] \in Nat /\ (freq[s] > 0 <=> length[s] > 0) /\ w[s] = Weight(freq[s], scaling)
  BY <1>1, <1>2 DEF Admissible, Weights
<1>5. SumFunctionOnSet([s \in Symbol |-> w[s] * length[s]], Symbol) <= l * SumFunctionOnSet(w, Symbol)
  <2>1. l \in Nat \ {0}
    BY <1>2
  <2> QED
    BY <1>1, <2>1 DEF FairlyCoded, Occurring
<1>6. SumFunction(g) = SumFunctionOnSet(g, Symbol) /\ SumFunction(freq) = SumFunctionOnSet(freq, Symbol)
  BY <1>2 DEF SumFunction
<1> HIDE DEF w
<1>7. SumFunctionOnSet(g, Symbol) <= CodedBits(SumFunctionOnSet(freq, Symbol), l, scaling)
  BY <1>1, <1>2, <1>3, <1>4, <1>5, CostBound
<1> HIDE DEF g
<1>8. SumFunction(g) <= CodedBits(SumFunction(freq), l, scaling)
  BY <1>6, <1>7
<1> QED
  BY <1>8 DEF g

(* Symbols coded with the lengths that ZlingMakeLengthTable makes take no    *)
(* more bits than with codes of equal length, but for what rounding up of    *)
(* scaled frequencies costs, and there is a bound to that; for any           *)
(* frequencies and whichever of equally light nodes are joined.              *)
THEOREM CodesNoWorse == Spec => []NoWorseThanFixed
<1>1. CInv => NoWorseThanFixed
  BY CodedWell DEF NoWorseThanFixed
<1> QED
  BY CInit, CNext, <1>1, PTL DEF Spec

(* It builds the tree once more only if the frequencies are enough for one   *)
(* too deep, which is as heavy as a Fibonacci number; that bounds how often. *)
THEOREM SeldomRescaled == Spec => []RescaledSeldom
<1>1. CInv => RescaledSeldom
  BY DEF CInv
<1> QED
  BY CInit, CNext, <1>1, PTL DEF Spec
=============================================================================
