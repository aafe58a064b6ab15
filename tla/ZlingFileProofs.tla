-------------------------- MODULE ZlingFileProofs --------------------------
(***************************************************************************)
(* FileInv is an inductive invariant of ZlingFile; what follows from it:   *)
(* Decode reads each unit of a stream as what it was written for, and what *)
(* Encode has written is decoded to the input.  First come the facts about *)
(* streams, then a lemma for each step of Encode and of Decode.  On this   *)
(* rest the other invariants: the order of the data, the chunks that are   *)
(* empty, the calls on the action handler, the bytes that are wrong, and   *)
(* where Decode may go astray.                                             *)
(***************************************************************************)
EXTENDS ZlingFileInv, TLAPS

(* The values of the constants, as far as they matter for types. *)
LEMMA Sizes ==
  /\ BlockSizeIn \in Nat \ {0} /\ BlockSizeRolz \in Nat \ {0} /\ BlockSizeHuffman \in Nat \ {0}
  /\ IntRange \in Nat /\ IntRange \div 2 \in Nat
  /\ BlockSizeIn < IntRange \div 2 /\ BlockSizeRolz < IntRange \div 2
  /\ BlockSizeHuffman < IntRange \div 2
  /\ DistanceByte \in Nat \ {0} /\ DistanceByte <= BlockSizeHuffman
  /\ IntRange \div 2 <= IntRange /\ IntRange - 1 >= IntRange \div 2
BY StreamAssumption

(* What becomes of a number that Encode writes when Decode reads it. *)
LEMMA NumberRead ==
  /\ \A v \in 0 .. IntRange - 1 : v % IntRange = v
  /\ \A v \in Nat : v < IntRange \div 2 => Signed(v) = v
  /\ (-1) % IntRange = IntRange - 1 /\ Signed(IntRange - 1) = -1
<1>1. IntRange > 0 /\ IntRange \in Nat
  BY Sizes
<1>2. \A v \in 0 .. IntRange - 1 : v % IntRange = v
  BY <1>1
<1>3. (-1) % IntRange = IntRange - 1
  BY <1>1
<1>4. \A v \in Nat : v < IntRange \div 2 => Signed(v) = v
  BY Sizes DEF Signed
<1>5. Signed(IntRange - 1) = -1
  BY Sizes DEF Signed
<1>. QED  BY <1>2, <1>3, <1>4, <1>5

(* What the units of a stream are. *)
LEMMA UnitFacts ==
  /\ Continue \in Unit /\ Stop \in Unit /\ Continue # Stop
  /\ Continue.kind = "flag" /\ Stop.kind = "flag"
  /\ \A u \in Unit : /\ u.kind \in {"flag", "encpos", "rlen", "olen", "data"}
                     /\ u.kind # "data" => u.v \in 0 .. IntRange - 1
                     /\ u.kind = "data" => u.from \in Nat /\ u.to \in Nat
<1>1. IntRange \in Nat /\ IntRange > 1
  BY StreamAssumption
<1>2. Continue \in Unit /\ Stop \in Unit
  BY <1>1 DEF Continue, Stop, Unit
<1>3. Continue # Stop /\ Continue.kind = "flag" /\ Stop.kind = "flag"
  BY DEF Continue, Stop
<1>4. ASSUME NEW u \in Unit
      PROVE  /\ u.kind \in {"flag", "encpos", "rlen", "olen", "data"}
             /\ u.kind # "data" => u.v \in 0 .. IntRange - 1
             /\ u.kind = "data" => u.from \in Nat /\ u.to \in Nat
  BY DEF Unit
<1>. QED  BY <1>2, <1>3, <1>4

(* Where a stream stands after n units depends on these alone. *)
LEMMA SameStart ==
  ASSUME NEW f, NEW g, NEW n \in Nat, \A i \in 1 .. n : f[i] = g[i], NEW c, NEW e
  PROVE  /\ AtBlock(f, n, c) => AtBlock(g, n, c)
         /\ AtFlag(f, n, c, e) => AtFlag(g, n, c, e)
         /\ Complete(f, n) => Complete(g, n)
<1>1. AtBlock(f, n, c) => AtBlock(g, n, c)
  BY DEF AtBlock
<1>2. AtChunk(f, n, c, e) => AtChunk(g, n, c, e)
  BY DEF AtChunk
<1>3. Complete(f, n) => Complete(g, n)
  BY DEF Complete
<1>. QED  BY <1>1, <1>2, <1>3 DEF AtFlag

(* A stream may be cut anywhere. *)
LEMMA StreamCut ==
  ASSUME NEW f, NEW g \in Seq(Unit), NEW size, StreamOK(f, size),
         Len(g) <= Len(f), \A i \in 1 .. Len(g) : g[i] = f[i]
  PROVE  StreamOK(g, size)
<1>1. /\ f \in Seq(Unit) /\ Len(f) \in Nat /\ Len(g) \in Nat
      /\ Len(f) > 0 => IsFlag(f[1])
      /\ \A j \in 1 .. Len(f) : /\ StopOK(f, j) /\ ContinueOK(f, j) /\ NumberOK(f, j)
                                /\ DataOK(f, j) /\ ChainOK(f, j, size)
  BY DEF StreamOK
<1>2. Len(g) > 0 => IsFlag(g[1])
  BY <1>1 DEF IsFlag
<1>3. SUFFICES ASSUME NEW j \in 1 .. Len(g)
               PROVE  /\ StopOK(g, j) /\ ContinueOK(g, j) /\ NumberOK(g, j)
                      /\ DataOK(g, j) /\ ChainOK(g, j, size)
  BY <1>1, <1>2 DEF StreamOK
<1>4. j \in 1 .. Len(f) /\ g[j] = f[j]
  BY <1>1
<1>5. StopOK(g, j)
  <2>1. SUFFICES ASSUME f[j] = Stop, j < Len(g)
                 PROVE  IsFlag(g[j + 1]) /\ j >= 2 /\ g[j - 1].kind = "data"
    BY <1>4 DEF StopOK
  <2>2. j < Len(f) /\ j + 1 \in 1 .. Len(g)
    BY <1>1, <2>1
  <2>3. IsFlag(f[j + 1]) /\ j >= 2 /\ f[j - 1].kind = "data"
    BY <1>1, <1>4, <2>1, <2>2 DEF StopOK
  <2>4. j - 1 \in 1 .. Len(g)
    BY <1>1, <2>3
  <2>. QED  BY <2>2, <2>3, <2>4
<1>6. ContinueOK(g, j)
  <2>1. SUFFICES ASSUME f[j] = Continue, NEW k \in 1 .. 3, j + k <= Len(g)
                 PROVE  g[j + k].kind = HeaderKind[k]
    BY <1>4 DEF ContinueOK
  <2>2. j + k \in 1 .. Len(g) /\ j + k <= Len(f)
    BY <1>1, <2>1
  <2>3. f[j + k].kind = HeaderKind[k]
    BY <1>1, <1>4, <2>1, <2>2 DEF ContinueOK
  <2>. QED  BY <2>2, <2>3
<1>7. NumberOK(g, j)
  BY <1>1, <1>4 DEF NumberOK
<1>8. DataOK(g, j)
  <2>1. SUFFICES ASSUME g[j].kind = "olen"
                 PROVE  /\ \A i \in 1 .. f[j].v : j + i <= Len(g) =>
                             g[j + i].kind = "data" /\ g[j + i] = g[j + 1]
                        /\ j + f[j].v + 1 <= Len(g) => IsFlag(g[j + f[j].v + 1])
    BY <1>4 DEF DataOK
  <2>2. /\ \A i \in 1 .. f[j].v : j + i <= Len(f) => f[j + i].kind = "data" /\ f[j + i] = f[j + 1]
        /\ j + f[j].v + 1 <= Len(f) => IsFlag(f[j + f[j].v + 1])
    BY <1>1, <1>4, <2>1 DEF DataOK
  <2>3. f[j].v \in Nat
    BY <1>1, <1>4, <2>1, UnitFacts
  <2>4. ASSUME NEW i \in 1 .. f[j].v, j + i <= Len(g)
        PROVE  g[j + i].kind = "data" /\ g[j + i] = g[j + 1]
    <3>1. j + i \in 1 .. Len(g) /\ j + 1 \in 1 .. Len(g) /\ j + i <= Len(f)
      BY <1>1, <2>3, <2>4
    <3>2. g[j + i] = f[j + i] /\ g[j + 1] = f[j + 1]
      BY <3>1
    <3>3. f[j + i].kind = "data" /\ f[j + i] = f[j + 1]
      BY <2>2, <2>4, <3>1
    <3>. QED  BY <3>2, <3>3
  <2>5. j + f[j].v + 1 <= Len(g) => IsFlag(g[j + f[j].v + 1])
    <3>1. SUFFICES ASSUME j + f[j].v + 1 <= Len(g)
                   PROVE  IsFlag(g[j + f[j].v + 1])
      OBVIOUS
    <3>2. j + f[j].v + 1 \in 1 .. Len(g) /\ j + f[j].v + 1 <= Len(f)
      BY <1>1, <2>3, <3>1
    <3>. QED  BY <2>2, <3>2
  <2>. QED  BY <2>4, <2>5
<1>9. ChainOK(g, j, size)
  <2>1. SUFFICES ASSUME g[j] = Continue, j + 4 <= Len(g)
                 PROVE  /\ g[j + 4].from <= g[j + 4].to /\ g[j + 4].to <= size
                        /\ Signed(g[j + 2].v) <= 0 => g[j + 4].from = g[j + 4].to
                        /\ AtFlag(g, j - 1, g[j + 4].from, g[j + 1].v - (g[j + 4].to - g[j + 4].from))
    BY DEF ChainOK
  <2>2. /\ f[j + 4].from <= f[j + 4].to /\ f[j + 4].to <= size
        /\ Signed(f[j + 2].v) <= 0 => f[j + 4].from = f[j + 4].to
        /\ AtFlag(f, j - 1, f[j + 4].from, f[j + 1].v - (f[j + 4].to - f[j + 4].from))
    BY <1>1, <1>4, <2>1 DEF ChainOK
  <2>3. g[j + 1] = f[j + 1] /\ g[j + 2] = f[j + 2] /\ g[j + 4] = f[j + 4]
    BY <1>1, <2>1
  <2>4. j - 1 \in Nat /\ \A i \in 1 .. j - 1 : f[i] = g[i]
    BY <1>1
  <2> DEFINE n == j - 1
             c == f[j + 4].from
             e == f[j + 1].v - (f[j + 4].to - f[j + 4].from)
  <2>5. AtFlag(g, n, c, e)
    <3>1. n \in Nat /\ (\A i \in 1 .. n : f[i] = g[i]) /\ AtFlag(f, n, c, e)
      BY <2>2, <2>4
    <3> HIDE DEF n, c, e
    <3>. QED  BY <3>1, SameStart
  <2>. QED  BY <2>2, <2>3, <2>5
<1>. QED  BY <1>5, <1>6, <1>7, <1>8, <1>9

(* Nothing else stands where a chunk or a block ends. *)
LEMMA OnePlace ==
  ASSUME NEW f, NEW size, StreamOK(f, size), NEW n \in 0 .. Len(f),
         NEW c, NEW e, NEW c2, NEW e2, AtFlag(f, n, c, e), AtFlag(f, n, c2, e2)
  PROVE  c = c2 /\ e = e2
<1>1. f \in Seq(Unit) /\ \A j \in 1 .. Len(f) : DataOK(f, j)
  BY DEF StreamOK
<1>2. CASE AtBlock(f, n, c) /\ e = 0
  <2>1. ~AtChunk(f, n, c2, e2)
    BY <1>1, <1>2, UnitFacts DEF AtBlock, AtChunk
  <2>. QED  BY <1>2, <2>1, UnitFacts DEF AtFlag, AtBlock
<1>3. CASE AtChunk(f, n, c, e)
  <2>1. ~AtBlock(f, n, c2)
    BY <1>1, <1>3, UnitFacts DEF AtBlock, AtChunk
  <2>2. AtChunk(f, n, c2, e2)
    BY <2>1 DEF AtFlag
  <2>3. PICK p \in 3 .. n - 1 : /\ f[p].kind = "olen" /\ p + f[p].v = n /\ f[p - 2].v = e
                                /\ f[n].kind = "data" /\ f[n].to = c
    BY <1>3 DEF AtChunk
  <2>4. PICK q \in 3 .. n - 1 : /\ f[q].kind = "olen" /\ q + f[q].v = n /\ f[q - 2].v = e2
                                /\ f[n].kind = "data" /\ f[n].to = c2
    BY <2>2 DEF AtChunk
  <2>5. f[p].v \in Nat /\ f[q].v \in Nat
    BY <1>1, <2>3, <2>4, UnitFacts
  <2>6. ASSUME NEW a \in 3 .. n - 1, NEW b \in 3 .. n - 1, a < b, f[a].kind = "olen",
               f[a].v \in Nat, a + f[a].v = n
        PROVE  f[b].kind = "data"
    <3>1. DataOK(f, a) /\ b - a \in 1 .. f[a].v /\ a + (b - a) <= Len(f) /\ a + (b - a) = b
      BY <1>1, <2>6
    <3>. QED  BY <2>6, <3>1 DEF DataOK
  <2>7. ~(p < q)
    BY <2>3, <2>4, <2>5, <2>6
  <2>8. ~(q < p)
    BY <2>3, <2>4, <2>5, <2>6
  <2>. QED  BY <2>3, <2>4, <2>7, <2>8
<1>. QED  BY <1>2, <1>3 DEF AtFlag

(* What has been said of the first n units of f, which end a chunk or a      *)
(* block, is true of them in any longer stream in which a flag follows.      *)
LEMMA StreamKept ==
  ASSUME NEW f, NEW g \in Seq(Unit), NEW size, StreamOK(f, size), NEW n \in 0 .. Len(f),
         Len(f) <= Len(g), \A i \in 1 .. Len(f) : g[i] = f[i], Complete(f, n),
         n < Len(g) => IsFlag(g[n + 1]), NEW c, NEW e, AtFlag(f, n, c, e), NEW j \in 1 .. n
  PROVE  /\ StopOK(g, j) /\ ContinueOK(g, j) /\ NumberOK(g, j)
         /\ DataOK(g, j) /\ ChainOK(g, j, size)
<1>1. /\ f \in Seq(Unit) /\ Len(f) \in Nat /\ Len(g) \in Nat /\ j \in 1 .. Len(f)
      /\ f[j] \in Unit /\ g[j] = f[j]
  BY DEF StreamOK
<1>2. StopOK(f, j) /\ ContinueOK(f, j) /\ NumberOK(f, j) /\ DataOK(f, j) /\ ChainOK(f, j, size)
  BY <1>1 DEF StreamOK
<1>3. (f[j] = Continue => j + 3 <= n) /\ (f[j].kind = "olen" => j + f[j].v <= n)
  BY DEF Complete
<1>4. StopOK(g, j)
  <2>1. CASE j < n
    BY <1>1, <1>2, <2>1 DEF StopOK, IsFlag
  <2>2. CASE j = n /\ g[j] = Stop /\ j < Len(g)
    <3>1. n >= 2 /\ f[n - 1].kind = "data"
      BY <1>1, <2>2, UnitFacts DEF AtFlag, AtBlock, AtChunk
    <3>. QED  BY <1>1, <2>2, <3>1 DEF StopOK
  <2>. QED  BY <2>1, <2>2 DEF StopOK
<1>5. ContinueOK(g, j)
  BY <1>1, <1>2, <1>3 DEF ContinueOK
<1>6. NumberOK(g, j)
  BY <1>1, <1>2 DEF NumberOK
<1>7. DataOK(g, j)
  <2>1. SUFFICES ASSUME f[j].kind = "olen" PROVE DataOK(g, j)
    BY <1>1 DEF DataOK
  <2>2. f[j].v \in Nat /\ j + f[j].v <= n
    BY <1>1, <1>3, <2>1, UnitFacts
  <2>3. ASSUME NEW i \in 1 .. f[j].v
        PROVE  g[j + i].kind = "data" /\ g[j + i] = g[j + 1]
    <3>1. j + i \in 1 .. Len(f) /\ j + 1 \in 1 .. Len(f)
      BY <1>1, <2>2
    <3>2. f[j + i].kind = "data" /\ f[j + i] = f[j + 1]
      BY <1>2, <2>1, <3>1 DEF DataOK
    <3>. QED  BY <3>1, <3>2
  <2>4. j + f[j].v + 1 <= Len(g) => IsFlag(g[j + f[j].v + 1])
    <3>1. CASE j + f[j].v = n
      BY <3>1, <2>2
    <3>2. CASE j + f[j].v < n
      <4>1. j + f[j].v + 1 \in 1 .. Len(f)
        BY <1>1, <2>2, <3>2
      <4>. QED  BY <1>2, <2>1, <4>1 DEF DataOK
    <3>3. j + f[j].v = n \/ j + f[j].v < n
      <4>1. j + f[j].v \in Int /\ j + f[j].v <= n
        BY <2>2
      <4>. QED  BY <4>1
    <3>. QED  BY <3>1, <3>2, <3>3
  <2>. QED  BY <1>1, <2>3, <2>4 DEF DataOK
<1>8. ChainOK(g, j, size)
  <2>1. SUFFICES ASSUME f[j] = Continue PROVE ChainOK(g, j, size)
    BY <1>1 DEF ChainOK
  <2>2. j + 3 <= n /\ j + 3 \in 1 .. Len(f) /\ f[j + 3].kind = "olen"
    BY <1>1, <1>2, <1>3, <2>1 DEF ContinueOK, HeaderKind
  <2>3. j + 4 <= Len(f)
    <3>1. f[j + 3].v >= 1 /\ f[j + 3].v \in Nat
      BY <2>2, StreamAssumption DEF StreamOK, NumberOK
    <3>2. j + 3 + f[j + 3].v <= n
      BY <1>1, <2>2 DEF Complete
    <3>. QED  BY <3>1, <3>2, <1>1
  <2>4. /\ f[j + 4].from <= f[j + 4].to /\ f[j + 4].to <= size
        /\ Signed(f[j + 2].v) <= 0 => f[j + 4].from = f[j + 4].to
        /\ AtFlag(f, j - 1, f[j + 4].from, f[j + 1].v - (f[j + 4].to - f[j + 4].from))
    BY <1>2, <2>1, <2>3 DEF ChainOK
  <2>5. g[j + 1] = f[j + 1] /\ g[j + 2] = f[j + 2] /\ g[j + 4] = f[j + 4]
    BY <1>1, <2>3
  <2> DEFINE m == j - 1
             from == f[j + 4].from
             had == f[j + 1].v - (f[j + 4].to - f[j + 4].from)
  <2>6. AtFlag(g, m, from, had)
    <3>1. m \in Nat /\ (\A i \in 1 .. m : f[i] = g[i]) /\ AtFlag(f, m, from, had)
      BY <1>1, <2>4
    <3> HIDE DEF m, from, had
    <3>. QED  BY <3>1, SameStart
  <2>. QED  BY <2>4, <2>5, <2>6 DEF ChainOK
<1>. QED  BY <1>4, <1>5, <1>6, <1>7, <1>8

(* A flag behind a chunk or a block. *)
LEMMA FlagAppended ==
  ASSUME NEW f, NEW g \in Seq(Unit), NEW size, StreamOK(f, size), Complete(f, Len(f)),
         NEW c, NEW e, AtFlag(f, Len(f), c, e),
         Len(g) = Len(f) + 1, \A i \in 1 .. Len(f) : g[i] = f[i], IsFlag(g[Len(g)])
  PROVE  StreamOK(g, size)
<1>1. f \in Seq(Unit) /\ Len(f) \in Nat /\ (Len(f) > 0 => IsFlag(f[1]))
  BY DEF StreamOK
<1>2. IsFlag(g[1])
  BY <1>1 DEF IsFlag
<1>3. ASSUME NEW j \in 1 .. Len(f)
      PROVE  /\ StopOK(g, j) /\ ContinueOK(g, j) /\ NumberOK(g, j)
             /\ DataOK(g, j) /\ ChainOK(g, j, size)
  BY <1>1, <1>3, StreamKept
<1>4. ASSUME NEW j, j = Len(g)
      PROVE  /\ StopOK(g, j) /\ ContinueOK(g, j) /\ NumberOK(g, j)
             /\ DataOK(g, j) /\ ChainOK(g, j, size)
  <2>1. g[j].kind = "flag"
    BY <1>4, UnitFacts DEF IsFlag
  <2>. QED  BY <1>1, <1>4, <2>1 DEF StopOK, ContinueOK, NumberOK, DataOK, ChainOK
<1>. QED  BY <1>1, <1>2, <1>3, <1>4 DEF StreamOK

(* A header behind its flag. *)
LEMMA HeaderAppended ==
  ASSUME NEW f, NEW g \in Seq(Unit), NEW size, StreamOK(f, size), NEW n \in Nat,
         Len(f) = n + 1, Len(g) = n + 4, \A i \in 1 .. n + 1 : g[i] = f[i],
         f[n + 1] = Continue, Complete(f, n), NEW c, NEW e, AtFlag(f, n, c, e),
         g[n + 2].kind = "encpos", g[n + 2].v \in 0 .. BlockSizeIn,
         g[n + 3].kind = "rlen", Signed(g[n + 3].v) \in -1 .. BlockSizeRolz,
         g[n + 4].kind = "olen", g[n + 4].v \in DistanceByte .. BlockSizeHuffman
  PROVE  StreamOK(g, size)
<1>1. f \in Seq(Unit) /\ IsFlag(f[1]) /\ IsFlag(g[1]) /\ IsFlag(g[n + 1]) /\ g[n + 1] = Continue
  BY DEF StreamOK, IsFlag
<1>2. ASSUME NEW j \in 1 .. n
      PROVE  /\ StopOK(g, j) /\ ContinueOK(g, j) /\ NumberOK(g, j)
             /\ DataOK(g, j) /\ ChainOK(g, j, size)
  <2>1. n \in 0 .. Len(f) /\ Len(f) <= Len(g) /\ (\A i \in 1 .. Len(f) : g[i] = f[i])
    OBVIOUS
  <2>. QED  BY <1>1, <2>1, StreamKept
<1>3. ASSUME NEW j, j = n + 1
      PROVE  /\ StopOK(g, j) /\ ContinueOK(g, j) /\ NumberOK(g, j)
             /\ DataOK(g, j) /\ ChainOK(g, j, size)
  <2>1. ContinueOK(g, j)
    <3>1. ASSUME NEW k \in 1 .. 3 PROVE g[n + 1 + k].kind = HeaderKind[k]
      <4>1. CASE k = 1
        BY <4>1 DEF HeaderKind
      <4>2. CASE k = 2
        BY <4>2 DEF HeaderKind
      <4>3. CASE k = 3
        BY <4>3 DEF HeaderKind
      <4>. QED  BY <4>1, <4>2, <4>3
    <3>. QED  BY <1>3, <3>1 DEF ContinueOK
  <2>. QED  BY <1>1, <1>3, <2>1, UnitFacts DEF StopOK, NumberOK, DataOK, ChainOK
<1>4. ASSUME NEW j \in n + 2 .. n + 4
      PROVE  /\ StopOK(g, j) /\ ContinueOK(g, j) /\ NumberOK(g, j)
             /\ DataOK(g, j) /\ ChainOK(g, j, size)
  <2>0. j = n + 2 \/ j = n + 3 \/ j = n + 4
    OBVIOUS
  <2>1. g[j] # Stop /\ g[j] # Continue
    BY <2>0, UnitFacts
  <2>2. NumberOK(g, j)
    <3>1. CASE j = n + 2
      BY <3>1 DEF NumberOK
    <3>2. CASE j = n + 3
      BY <3>2 DEF NumberOK
    <3>3. CASE j = n + 4
      BY <1>1, <3>3 DEF NumberOK
    <3>. QED  BY <2>0, <3>1, <3>2, <3>3
  <2>3. DataOK(g, j)
    <3>1. g[n + 4].v \in Nat
      BY Sizes
    <3>. QED  BY <2>0, <3>1 DEF DataOK
  <2>. QED  BY <2>1, <2>2, <2>3 DEF StopOK, ContinueOK, ChainOK
<1>5. \A j \in 1 .. Len(g) : j \in 1 .. n \/ j = n + 1 \/ j \in n + 2 .. n + 4
  OBVIOUS
<1>. QED  BY <1>1, <1>2, <1>3, <1>4, <1>5 DEF StreamOK

(* Data behind their header. *)
LEMMA DataAppended ==
  ASSUME NEW f, NEW g \in Seq(Unit), NEW size, StreamOK(f, size), NEW n \in Nat,
         Len(f) >= n + 4, Len(f) <= Len(g), \A i \in 1 .. Len(f) : g[i] = f[i],
         f[n + 1] = Continue, Complete(f, n), NEW u \in Unit, u.kind = "data",
         AtFlag(f, n, u.from, f[n + 2].v - (u.to - u.from)), u.from <= u.to, u.to <= size,
         Signed(f[n + 3].v) <= 0 => u.from = u.to,
         Len(g) <= n + 4 + f[n + 4].v,
         \A i \in 1 .. Len(g) - (n + 4) : g[n + 4 + i] = u
  PROVE  StreamOK(g, size)
<1>1. /\ f \in Seq(Unit) /\ Len(f) \in Nat /\ Len(g) \in Nat /\ IsFlag(f[1]) /\ IsFlag(g[1])
      /\ IsFlag(g[n + 1]) /\ g[n + 1] = Continue
      /\ g[n + 2] = f[n + 2] /\ g[n + 3] = f[n + 3] /\ g[n + 4] = f[n + 4]
      /\ f[n + 2].kind = "encpos" /\ f[n + 3].kind = "rlen" /\ f[n + 4].kind = "olen"
  <2>1. f \in Seq(Unit) /\ Len(f) \in Nat /\ Len(g) \in Nat /\ IsFlag(f[1])
    BY DEF StreamOK
  <2>2. /\ g[1] = f[1] /\ g[n + 1] = f[n + 1]
        /\ g[n + 2] = f[n + 2] /\ g[n + 3] = f[n + 3] /\ g[n + 4] = f[n + 4]
    BY <2>1
  <2>3. ContinueOK(f, n + 1)
    BY <2>1 DEF StreamOK
  <2>4. \A k \in 1 .. 3 : n + 1 + k <= Len(f) => f[n + 1 + k].kind = HeaderKind[k]
    BY <2>3 DEF ContinueOK
  <2>5. f[n + 2].kind = "encpos" /\ f[n + 3].kind = "rlen" /\ f[n + 4].kind = "olen"
    <3>1. f[n + 1 + 1].kind = HeaderKind[1]
      BY <2>1, <2>4
    <3>2. f[n + 1 + 2].kind = HeaderKind[2]
      BY <2>1, <2>4
    <3>3. f[n + 1 + 3].kind = HeaderKind[3]
      BY <2>1, <2>4
    <3>4. n + 1 + 1 = n + 2 /\ n + 1 + 2 = n + 3 /\ n + 1 + 3 = n + 4
      OBVIOUS
    <3>. QED  BY <3>1, <3>2, <3>3, <3>4 DEF HeaderKind
  <2>. QED  BY <2>1, <2>2, <2>5 DEF IsFlag
<1>2. ASSUME NEW j \in 1 .. n
      PROVE  /\ StopOK(g, j) /\ ContinueOK(g, j) /\ NumberOK(g, j)
             /\ DataOK(g, j) /\ ChainOK(g, j, size)
  <2> DEFINE e == f[n + 2].v - (u.to - u.from)
  <2>1. n \in 0 .. Len(f) /\ IsFlag(g[n + 1]) /\ AtFlag(f, n, u.from, e)
    BY <1>1
  <2> HIDE DEF e
  <2>. QED  BY <2>1, StreamKept
<1>3. ASSUME NEW j, j = n + 1
      PROVE  /\ StopOK(g, j) /\ ContinueOK(g, j) /\ NumberOK(g, j)
             /\ DataOK(g, j) /\ ChainOK(g, j, size)
  <2>1. StopOK(g, j) /\ NumberOK(g, j) /\ DataOK(g, j)
    BY <1>1, <1>3, UnitFacts DEF StopOK, NumberOK, DataOK
  <2>2. ContinueOK(g, j)
    <3>1. ASSUME NEW k \in 1 .. 3 PROVE g[n + 1 + k].kind = HeaderKind[k]
      <4>1. CASE k = 1
        BY <1>1, <4>1 DEF HeaderKind
      <4>2. CASE k = 2
        BY <1>1, <4>2 DEF HeaderKind
      <4>3. CASE k = 3
        BY <1>1, <4>3 DEF HeaderKind
      <4>. QED  BY <4>1, <4>2, <4>3
    <3>. QED  BY <1>3, <3>1 DEF ContinueOK
  <2>3. AtFlag(g, n, u.from, f[n + 2].v - (u.to - u.from))
    <3> DEFINE had == f[n + 2].v - (u.to - u.from)
    <3>1. AtFlag(f, n, u.from, had) /\ \A i \in 1 .. n : f[i] = g[i]
      BY <1>1
    <3> HIDE DEF had
    <3>2. AtFlag(g, n, u.from, had)
      BY <3>1, SameStart
    <3>. QED  BY <3>2 DEF had
  <2>4. ASSUME j + 4 <= Len(g) PROVE g[j + 4] = u
    <3>1. Len(g) \in Nat /\ j = n + 1
      BY <1>3
    <3>2. 1 \in 1 .. Len(g) - (n + 4) /\ j + 4 = n + 4 + 1
      BY <2>4, <3>1
    <3>. QED  BY <3>2
  <2>5. ChainOK(g, j, size)
    BY <1>1, <1>3, <2>3, <2>4 DEF ChainOK
  <2>. QED  BY <2>1, <2>2, <2>5
<1>4. ASSUME NEW j \in n + 2 .. n + 4
      PROVE  /\ StopOK(g, j) /\ ContinueOK(g, j) /\ NumberOK(g, j)
             /\ DataOK(g, j) /\ ChainOK(g, j, size)
  <2>0. j = n + 2 \/ j = n + 3 \/ j = n + 4
    OBVIOUS
  <2>1. g[j] # Stop /\ g[j] # Continue
    BY <1>1, <2>0, UnitFacts
  <2>2. NumberOK(g, j)
    <3>1. NumberOK(f, j) /\ g[j] = f[j] /\ (j = n + 4 => g[j - 3] = f[j - 3])
      BY <1>1, <2>0 DEF StreamOK
    <3>. QED  BY <1>1, <2>0, <3>1 DEF NumberOK
  <2>3. DataOK(g, j)
    <3>1. SUFFICES ASSUME j = n + 4 PROVE DataOK(g, j)
      BY <1>1, <2>0 DEF DataOK
    <3>2. f[n + 4].v \in Nat
      BY <1>1, UnitFacts
    <3>3. ASSUME NEW i \in 1 .. g[j].v, j + i <= Len(g)
          PROVE  g[j + i] = u /\ g[j + 1] = u
      <4>1. i \in 1 .. Len(g) - (n + 4) /\ 1 \in 1 .. Len(g) - (n + 4)
        BY <1>1, <3>1, <3>2, <3>3
      <4>2. g[n + 4 + i] = u /\ g[n + 4 + 1] = u
        BY <4>1
      <4>. QED  BY <3>1, <4>2
    <3>4. ~(j + g[j].v + 1 <= Len(g))
      BY <1>1, <3>1, <3>2
    <3>. QED  BY <3>3, <3>4 DEF DataOK
  <2>. QED  BY <2>1, <2>2, <2>3 DEF StopOK, ContinueOK, ChainOK
<1>5. ASSUME NEW j \in n + 5 .. Len(g)
      PROVE  /\ StopOK(g, j) /\ ContinueOK(g, j) /\ NumberOK(g, j)
             /\ DataOK(g, j) /\ ChainOK(g, j, size)
  <2>1. g[j] = u
    <3>1. j - (n + 4) \in 1 .. Len(g) - (n + 4) /\ n + 4 + (j - (n + 4)) = j
      BY <1>1
    <3>. QED  BY <3>1
  <2>. QED  BY <2>1, UnitFacts DEF StopOK, ContinueOK, NumberOK, DataOK, ChainOK
<1>6. \A j \in 1 .. Len(g) :
        j \in 1 .. n \/ j = n + 1 \/ j \in n + 2 .. n + 4 \/ j \in n + 5 .. Len(g)
  <2>1. Len(g) \in Nat
    BY <1>1
  <2>. QED  BY <2>1
<1>. QED  BY <1>1, <1>2, <1>3, <1>4, <1>5, <1>6 DEF StreamOK
(***************************************************************************)
(* Encode.                                                                 *)
(***************************************************************************)

(* Nothing has been written or read. *)
LEMMA InitInv == Init => FileInv
<1> SUFFICES ASSUME Init PROVE FileInv
  OBVIOUS
<1> USE DEF Init, EncodeInit, DecodeInit
<1>1. inSize \in Nat /\ userLevel \in Int /\ file = <<>> /\ Len(file) = 0 /\ file \in Seq(Unit)
  BY StreamAssumption
<1>2. EncTypes
  <2>1. BlockSizeIn \in Nat /\ level \in Int /\ encpos \in 0 .. ilen /\ inpos \in 0 .. inSize
    BY <1>1, StreamAssumption
  <2>2. chunk \in [from : Nat, to : Nat, rlen : Int, olen : Int]
    BY DEF NoChunk
  <2>3. eierr \in BOOLEAN /\ eoerr \in BOOLEAN /\ lost \in BOOLEAN
    OBVIOUS
  <2>4. ilen \in 0 .. BlockSizeIn /\ ilen <= inpos /\ eoff \in Nat
    BY <2>1
  <2>5. /\ epc \in {"start", "block", "read", "get", "chunk", "encode", "header", "data",
                  "process", "return", "end"}
        /\ eret \in {"none", "ok", "error", "thrown"} /\ (eret # "none" => epc = "end")
    OBVIOUS
  <2> HIDE DEF Init, EncodeInit, DecodeInit
  <2>. QED  BY <1>1, <2>1, <2>2, <2>3, <2>4, <2>5 DEF EncTypes
<1>3. StreamOK(file, inSize)
  BY <1>1 DEF StreamOK
<1>4. EncInv
  BY <1>1, <1>2, <1>3 DEF EncInv, EncPlace, Perfect
<1>5. DecTypes
  <2>1. cur \in [encpos : Int, rlen : Int, olen : Int, from : Nat, to : Nat, got : Nat, whole : BOOLEAN]
    BY DEF NoHeader
  <2>2. block \in Seq(Nat) /\ out \in Seq(Nat) /\ Len(block) = 0
    OBVIOUS
  <2>3. dierr \in BOOLEAN /\ doerr \in BOOLEAN /\ ~dierr
    OBVIOUS
  <2>4. dpos \in 0 .. Len(file) /\ ooff \in Nat /\ filled \in Nat
    BY <1>1
  <2>5. dpc = "start" /\ dret = "none" /\ dpos = 0 /\ out = <<>>
    OBVIOUS
  <2> HIDE DEF Init, EncodeInit, DecodeInit
  <2>. QED  BY <1>1, <2>1, <2>2, <2>3, <2>4, <2>5 DEF DecTypes
<1>6. DecInv
  BY <1>1, <1>5 DEF DecInv, DecPlace, DecTrip
<1>. QED  BY <1>4, <1>6 DEF FileInv

(* Encode begins with an empty stream. *)
LEMMA StartEncodeInv == ASSUME EncInv, StartEncode, UNCHANGED lost PROVE EncInv'
<1>1. EncTypes'
  BY DEF EncInv, EncTypes, StartEncode
<1>2. EncPlace'
  BY DEF EncInv, EncTypes, EncPlace, StartEncode, Complete, AtBlock
<1>. QED  BY <1>1, <1>2 DEF EncInv, EncTypes, StartEncode, Perfect

(* A block begins where the one before it ends. *)
LEMMA BeginBlockInv == ASSUME EncInv, BeginBlock, UNCHANGED lost PROVE EncInv'
<1>1. EncTypes'
  <2>1. eierr' \in BOOLEAN
    BY DEF EncInv, EncTypes, BeginBlock, TestEnd
  <2>2. BlockSizeIn \in Nat
    BY StreamAssumption
  <2>3. ilen' \in 0 .. BlockSizeIn /\ ilen' <= inpos /\ encpos' \in 0 .. ilen'
    BY <2>2 DEF EncInv, EncTypes, BeginBlock
  <2>4. epc' \in {"return", "read"}
    BY DEF BeginBlock
  <2>. QED  BY <2>1, <2>3, <2>4 DEF EncInv, EncTypes, BeginBlock
<1>2. EncPlace'
  BY DEF EncInv, EncTypes, EncPlace, BeginBlock, TestEnd, AtFlag, CodedBytes
<1>. QED  BY <1>1, <1>2 DEF EncInv, EncTypes, BeginBlock, Perfect

(* A block is read until it is full or the input ends. *)
LEMMA TestReadInv == ASSUME EncInv, TestRead, UNCHANGED lost PROVE EncInv'
<1>1. EncTypes'
  BY DEF EncInv, EncTypes, TestRead, TestEnd
<1>2. EncPlace'
  BY StreamAssumption DEF EncInv, EncTypes, EncPlace, TestRead, TestEnd, CodedBytes
<1>. QED  BY <1>1, <1>2 DEF EncInv, EncTypes, TestRead, Perfect

(* Reading moves the end of the block, not the place coded up to. *)
LEMMA GetDataInv == ASSUME EncInv, GetData, UNCHANGED lost PROVE EncInv'
<1>1. EncTypes'
  <2>1. eierr' \in BOOLEAN /\ epc' \in {"return", "read"} /\ epc = "get"
    BY DEF EncInv, EncTypes, GetData
  <2>2. PICK n \in 1 .. BlockSizeIn - ilen : inpos + n <= inSize /\ inpos' = inpos + n /\ ilen' = ilen + n
    BY DEF GetData
  <2>3. inpos' \in 0 .. inSize /\ ilen' \in 0 .. BlockSizeIn /\ ilen' <= inpos' /\ encpos \in 0 .. ilen'
    BY <2>2, StreamAssumption DEF EncInv, EncTypes
  <2>. QED  BY <2>1, <2>3 DEF EncInv, EncTypes, GetData
<1>2. CodedBytes' = CodedBytes
  BY StreamAssumption DEF EncInv, EncTypes, GetData, CodedBytes
<1>3. EncPlace'
  BY <1>2, StreamAssumption DEF EncInv, EncTypes, EncPlace, GetData
<1>. QED  BY <1>1, <1>3 DEF EncInv, EncTypes, GetData, Perfect

(* A chunk goes on where the last one of its block ends. *)
LEMMA EncodeChunkInv == ASSUME EncInv, EncodeChunk, UNCHANGED lost PROVE EncInv'
<1>1. PICK n \in 0 .. ilen - encpos, rlen \in -1 .. BlockSizeRolz, olen \in DistanceByte .. BlockSizeHuffman :
        /\ IF level \in KnownLevels THEN 1 <= rlen /\ rlen <= n ELSE n = 0 /\ rlen = -1
        /\ chunk' = [from |-> ChunkStart, to |-> ChunkStart + n, rlen |-> rlen, olen |-> olen]
        /\ encpos' = encpos + n
        /\ level' = NextLevel(olen, n)
  BY DEF EncodeChunk
<1>2. EncTypes'
  BY <1>1, StreamAssumption DEF EncInv, EncTypes, EncodeChunk, ChunkStart, NextLevel
<1>3. ChunkOK'
  <2>1. /\ inpos' = inpos /\ ilen' = ilen /\ ilen > 0 /\ encpos \in Nat /\ inpos \in Nat /\ ilen \in Nat
        /\ ilen <= inpos /\ encpos < ilen
    BY StreamAssumption DEF EncInv, EncTypes, EncPlace, EncodeChunk
  <2>2. /\ chunk'.from = ChunkStart /\ chunk'.to = ChunkStart + n /\ chunk'.rlen = rlen /\ chunk'.olen = olen
        /\ rlen \in Int /\ n \in Nat
    BY <1>1, <2>1
  <2>3. rlen <= 0 => n = 0
    BY <1>1
  <2>. QED  BY <1>1, <2>1, <2>2, <2>3 DEF ChunkStart, ChunkOK, CodedBytes
<1>4. BeforeChunk(Len(file) - 1)'
  <2>1. chunk'.from = CodedBytes /\ encpos' - (chunk'.to - chunk'.from) = encpos
    BY <1>1 DEF EncInv, EncTypes, ChunkStart, CodedBytes
  <2>2. file \in Seq(Unit) /\ file' = file /\ epc = "encode"
    BY DEF EncInv, StreamOK, EncodeChunk
  <2>. QED  BY <2>1, <2>2 DEF EncInv, EncPlace, BeforeChunk
<1>5. EncPlace'
  BY <1>3, <1>4 DEF EncodeChunk, EncPlace
<1>. QED  BY <1>2, <1>5 DEF EncInv, EncTypes, EncodeChunk, Perfect

(* A stream left by bad_alloc is one that has been cut short. *)
LEMMA ThrowInChunkInv == ASSUME EncInv, ThrowInChunk, UNCHANGED lost PROVE EncInv'
<1>1. EncTypes'
  BY DEF EncInv, EncTypes, ThrowInChunk
<1>2. EncPlace'
  BY DEF EncPlace, ThrowInChunk
<1>. QED  BY <1>1, <1>2 DEF EncInv, EncTypes, ThrowInChunk, Perfect

(* OnProcess changes nothing of the stream. *)
LEMMA ProcessEncodedInv == ASSUME EncInv, ProcessEncoded, UNCHANGED lost PROVE EncInv'
<1>1. EncTypes'
  BY DEF EncInv, EncTypes, ProcessEncoded
<1>2. EncPlace'
  BY DEF EncInv, EncPlace, ProcessEncoded
<1>. QED  BY <1>1, <1>2 DEF EncInv, EncTypes, ProcessEncoded, Perfect

(* Encode returns 0 only when all of the input is coded. *)
LEMMA ReturnEncodeInv == ASSUME EncInv, ReturnEncode, UNCHANGED lost PROVE EncInv'
<1>1. EncTypes'
  BY DEF EncInv, EncTypes, ReturnEncode
<1>2. EncPlace'
  BY DEF EncPlace, ReturnEncode
<1>3. Perfect' => Complete(file', Len(file')) /\ AtBlock(file', Len(file'), inSize')
  BY DEF EncInv, EncPlace, ReturnEncode, Perfect
<1>. QED  BY <1>1, <1>2, <1>3 DEF EncInv, EncTypes, ReturnEncode

(* The elements of two sequences one behind the other. *)
LEMMA Joined ==
  ASSUME NEW S, NEW s \in Seq(S), NEW t \in Seq(S)
  PROVE  /\ s \o t \in Seq(S) /\ Len(s \o t) = Len(s) + Len(t)
         /\ \A i \in 1 .. Len(s) : (s \o t)[i] = s[i]
         /\ \A i \in 1 .. Len(t) : (s \o t)[Len(s) + i] = t[i]
OBVIOUS

(* PutChar, PutUInt32 and PutData leave a stream, all of it or up to an error. *)
LEMMA PutCuts ==
  ASSUME NEW units \in Seq(Unit), NEW next, file \in Seq(Unit), inSize' = inSize,
         StreamOK(file \o units, inSize), Put(units, next)
  PROVE  /\ StreamOK(file', inSize')
         /\ \/ file' = file \o units /\ epc' = next /\ eoerr' = eoerr
            \/ epc' = "return" /\ eoerr' = TRUE
<1>1. CASE file' = file \o units /\ epc' = next /\ eoerr' = eoerr
  BY <1>1
<1>2. CASE /\ \E k \in 0 .. Len(units) - 1 : file' = file \o SubSeq(units, 1, k)
           /\ epc' = "return" /\ eoerr' = TRUE
  <2>1. PICK k \in 0 .. Len(units) - 1 : file' = file \o SubSeq(units, 1, k)
    BY <1>2
  <2> DEFINE g == file \o SubSeq(units, 1, k)
             f == file \o units
  <2>2. /\ SubSeq(units, 1, k) \in Seq(Unit) /\ Len(SubSeq(units, 1, k)) = k
        /\ \A i \in 1 .. k : SubSeq(units, 1, k)[i] = units[i]
    OBVIOUS
  <2>3. /\ g \in Seq(Unit) /\ Len(g) = Len(file) + k /\ Len(f) = Len(file) + Len(units)
        /\ Len(g) <= Len(f) /\ StreamOK(f, inSize)
    BY <2>2
  <2>4. \A i \in 1 .. Len(g) : g[i] = f[i]
    BY <2>2, <2>3
  <2>5. StreamOK(g, inSize)
    <3> HIDE DEF f, g
    <3>. QED  BY <2>3, <2>4, StreamCut
  <2>. QED  BY <1>2, <2>1, <2>5
<1>. QED  BY <1>1, <1>2 DEF Put

(* The flag before a chunk stands where the stream before it ends. *)
LEMMA PutContinueInv == ASSUME EncInv, PutContinue, UNCHANGED lost PROVE EncInv'
<1>1. /\ epc = "chunk" /\ encpos < ilen /\ Put(<<Continue>>, "encode") /\ inSize' = inSize
      /\ file \in Seq(Unit) /\ Len(file) \in Nat
      /\ StreamOK(file, inSize) /\ Complete(file, Len(file)) /\ AtFlag(file, Len(file), CodedBytes, encpos)
  BY DEF EncInv, EncPlace, PutContinue, StreamOK
<1> DEFINE g == file \o <<Continue>>
<1>2. /\ g \in Seq(Unit) /\ Len(g) = Len(file) + 1
      /\ (\A i \in 1 .. Len(file) : g[i] = file[i]) /\ g[Len(g)] = Continue
  BY <1>1, UnitFacts
<1>3. StreamOK(g, inSize)
  <2> HIDE DEF g
  <2>. QED  BY <1>1, <1>2, FlagAppended DEF IsFlag
<1>4. /\ StreamOK(file', inSize')
      /\ \/ file' = g /\ epc' = "encode" /\ eoerr' = eoerr
         \/ epc' = "return" /\ eoerr' = TRUE
  <2>1. <<Continue>> \in Seq(Unit)
    BY UnitFacts
  <2>. QED  BY <1>1, <1>3, <2>1, PutCuts
<1>5. EncTypes'
  BY <1>4 DEF EncInv, EncTypes, PutContinue
<1>6. EncPlace'
  <2>1. CASE file' = g /\ epc' = "encode" /\ eoerr' = eoerr
    <3>1. CodedBytes' = CodedBytes /\ encpos' = encpos /\ ilen' = ilen
      BY DEF PutContinue, CodedBytes
    <3>2. Complete(g, Len(file)) /\ AtFlag(g, Len(file), CodedBytes, encpos)
      <4> HIDE DEF g
      <4>. QED  BY <1>1, <1>2, SameStart
    <3>3. Len(g) - 1 = Len(file) /\ Len(g) > 0
      BY <1>1, <1>2
    <3> HIDE DEF g
    <3>. QED  BY <1>1, <1>2, <2>1, <3>1, <3>2, <3>3 DEF EncPlace
  <2>2. CASE epc' = "return" /\ eoerr' = TRUE
    BY <2>2 DEF EncPlace
  <2>. QED  BY <1>4, <2>1, <2>2
<1>. QED  BY <1>4, <1>5, <1>6 DEF EncInv, EncTypes, PutContinue, Perfect

(* The stop flag ends a block all of which is coded. *)
LEMMA PutStopInv == ASSUME EncInv, PutStop, UNCHANGED lost PROVE EncInv'
<1>1. /\ epc = "chunk" /\ encpos >= ilen /\ Put(<<Stop>>, "process") /\ inSize' = inSize
      /\ file \in Seq(Unit) /\ Len(file) \in Nat /\ (eierr \/ ilen > 0)
      /\ StreamOK(file, inSize) /\ Complete(file, Len(file)) /\ AtFlag(file, Len(file), CodedBytes, encpos)
  BY DEF EncInv, EncPlace, PutStop, StreamOK
<1> DEFINE g == file \o <<Stop>>
<1>2. /\ g \in Seq(Unit) /\ Len(g) = Len(file) + 1
      /\ (\A i \in 1 .. Len(file) : g[i] = file[i]) /\ g[Len(g)] = Stop
  BY <1>1, UnitFacts
<1>3. StreamOK(g, inSize)
  <2> HIDE DEF g
  <2>. QED  BY <1>1, <1>2, FlagAppended DEF IsFlag
<1>4. /\ StreamOK(file', inSize')
      /\ \/ file' = g /\ epc' = "process" /\ eoerr' = eoerr
         \/ epc' = "return" /\ eoerr' = TRUE
  <2>1. <<Stop>> \in Seq(Unit)
    BY UnitFacts
  <2>. QED  BY <1>1, <1>3, <2>1, PutCuts
<1>5. EncTypes'
  BY <1>4 DEF EncInv, EncTypes, PutStop
<1>6. EncPlace'
  <2>1. CASE file' = g /\ epc' = "process" /\ eoerr' = eoerr
    <3>1. inpos' = inpos /\ eierr' = eierr /\ inpos = CodedBytes
      BY <1>1 DEF PutStop, CodedBytes, EncInv, EncTypes
    <3>2. Complete(g, Len(g))
      <4> HIDE DEF g
      <4>1. Complete(g, Len(file))
        BY <1>1, <1>2, SameStart
      <4>. QED  BY <1>1, <1>2, <4>1, UnitFacts DEF Complete
    <3>3. eierr \/ AtBlock(g, Len(g), inpos)
      <4> HIDE DEF g
      <4>1. SUFFICES ASSUME ~eierr PROVE AtBlock(g, Len(g), inpos)
        OBVIOUS
      <4>2. encpos # 0
        BY <1>1, <4>1 DEF EncInv, EncTypes
      <4>3. AtChunk(file, Len(file), inpos, encpos)
        BY <1>1, <3>1, <4>2 DEF AtFlag
      <4>4. Len(file) >= 4 /\ file[Len(file)].kind = "data" /\ file[Len(file)].to = inpos
        BY <1>1, <4>3 DEF AtChunk
      <4>5. Len(g) >= 2 /\ g[Len(g) - 1] = file[Len(file)]
        BY <1>1, <1>2, <4>4
      <4>. QED  BY <1>2, <4>4, <4>5 DEF AtBlock
    <3> HIDE DEF g
    <3>. QED  BY <2>1, <3>1, <3>2, <3>3 DEF EncPlace
  <2>2. CASE epc' = "return" /\ eoerr' = TRUE
    BY <2>2 DEF EncPlace
  <2>. QED  BY <1>4, <2>1, <2>2
<1>. QED  BY <1>4, <1>5, <1>6 DEF EncInv, EncTypes, PutStop, Perfect

(* The numbers of a header are read as they were. *)
LEMMA HeaderUnits ==
  ASSUME EncTypes, ChunkOK
  PROVE  /\ Number("encpos", encpos) \in Unit
         /\ Number("encpos", encpos).kind = "encpos" /\ Number("encpos", encpos).v = encpos
         /\ Number("rlen", chunk.rlen) \in Unit
         /\ Number("rlen", chunk.rlen).kind = "rlen" /\ Signed(Number("rlen", chunk.rlen).v) = chunk.rlen
         /\ Number("olen", chunk.olen) \in Unit
         /\ Number("olen", chunk.olen).kind = "olen" /\ Number("olen", chunk.olen).v = chunk.olen
<1>1. encpos \in 0 .. BlockSizeIn /\ chunk.rlen \in -1 .. BlockSizeRolz /\ chunk.olen \in DistanceByte .. BlockSizeHuffman
  BY Sizes DEF EncTypes, ChunkOK
<1>2. encpos % IntRange = encpos /\ chunk.olen % IntRange = chunk.olen
  <2>1. encpos \in 0 .. IntRange - 1 /\ chunk.olen \in 0 .. IntRange - 1
    BY <1>1, Sizes
  <2>. QED  BY <2>1, NumberRead
<1>3. /\ chunk.rlen % IntRange \in 0 .. IntRange - 1
      /\ Signed(chunk.rlen % IntRange) = chunk.rlen
  <2>1. CASE chunk.rlen = -1
    BY <2>1, Sizes, NumberRead
  <2>2. CASE chunk.rlen \in 0 .. BlockSizeRolz
    <3>1. chunk.rlen \in 0 .. IntRange - 1 /\ chunk.rlen \in Nat /\ chunk.rlen < IntRange \div 2
      BY <2>2, Sizes
    <3>. QED  BY <3>1, NumberRead
  <2>. QED  BY <1>1, <2>1, <2>2, Sizes
<1>4. encpos \in 0 .. IntRange - 1 /\ chunk.olen \in 0 .. IntRange - 1
  BY <1>1, Sizes
<1>. QED  BY <1>2, <1>3, <1>4 DEF Number, Unit

(* The header stands behind its flag. *)
LEMMA PutHeaderInv == ASSUME EncInv, PutHeader, UNCHANGED lost PROVE EncInv'
<1>1. /\ epc = "header" /\ Put(Header, "data") /\ inSize' = inSize /\ UNCHANGED <<chunk, encpos, eoff, ilen, inpos>>
      /\ file \in Seq(Unit) /\ Len(file) \in Nat /\ EncTypes
      /\ StreamOK(file, inSize) /\ ChunkOK /\ BeforeChunk(Len(file) - 1) /\ eoff = 0
  BY DEF EncInv, EncPlace, PutHeader, StreamOK
<1>0. PICK n : n = Len(file) - 1
  OBVIOUS
<1> DEFINE g == file \o Header
           had == encpos - (chunk.to - chunk.from)
<1>2. Header \in Seq(Unit) /\ Len(Header) = 3
      /\ Header[1] = Number("encpos", encpos) /\ Header[2] = Number("rlen", chunk.rlen)
      /\ Header[3] = Number("olen", chunk.olen)
  BY <1>1, HeaderUnits DEF Header
<1>3a. /\ n \in Nat /\ Len(file) = n + 1 /\ file[n + 1] = Continue
       /\ Complete(file, n) /\ AtFlag(file, n, chunk.from, had)
  BY <1>0, <1>1 DEF BeforeChunk
<1>3b. /\ g \in Seq(Unit) /\ Len(g) = Len(file) + 3
       /\ \A i \in 1 .. Len(file) : g[i] = file[i]
       /\ \A i \in 1 .. 3 : g[Len(file) + i] = Header[i]
  <2>1. file \in Seq(Unit) /\ Header \in Seq(Unit)
    BY <1>1, <1>2
  <2>2. /\ file \o Header \in Seq(Unit) /\ Len(file \o Header) = Len(file) + Len(Header)
        /\ \A i \in 1 .. Len(file) : (file \o Header)[i] = file[i]
        /\ \A i \in 1 .. Len(Header) : (file \o Header)[Len(file) + i] = Header[i]
    BY <2>1, Joined
  <2>3. Len(Header) = 3
    BY <1>2
  <2>. QED  BY <2>2, <2>3 DEF g
<1>3c. g[Len(file) + 1] = Header[1] /\ g[Len(file) + 2] = Header[2] /\ g[Len(file) + 3] = Header[3]
  BY <1>3b
<1> HIDE DEF g, had
<1>3. /\ n \in Nat /\ Len(file) = n + 1 /\ g \in Seq(Unit) /\ Len(g) = n + 4
      /\ (\A i \in 1 .. n + 1 : g[i] = file[i]) /\ file[n + 1] = Continue
      /\ g[n + 2] = Number("encpos", encpos) /\ g[n + 3] = Number("rlen", chunk.rlen)
      /\ g[n + 4] = Number("olen", chunk.olen)
      /\ Complete(file, n) /\ AtFlag(file, n, chunk.from, had)
  BY <1>1, <1>2, <1>3a, <1>3b, <1>3c
<1>4. StreamOK(g, inSize)
  <2>1. /\ encpos \in 0 .. BlockSizeIn /\ chunk.rlen \in -1 .. BlockSizeRolz
        /\ chunk.olen \in DistanceByte .. BlockSizeHuffman
    BY <1>1, Sizes DEF EncTypes, ChunkOK
  <2>2. /\ g[n + 2].kind = "encpos" /\ g[n + 2].v \in 0 .. BlockSizeIn
        /\ g[n + 3].kind = "rlen" /\ Signed(g[n + 3].v) \in -1 .. BlockSizeRolz
        /\ g[n + 4].kind = "olen" /\ g[n + 4].v \in DistanceByte .. BlockSizeHuffman
    BY <1>1, <1>3, <2>1, HeaderUnits
  <2>. QED  BY <1>1, <1>3, <2>2, HeaderAppended
<1>5. /\ StreamOK(file', inSize')
      /\ \/ file' = g /\ epc' = "data" /\ eoerr' = eoerr
         \/ epc' = "return" /\ eoerr' = TRUE
  BY <1>1, <1>2, <1>4, PutCuts DEF g
<1>6. EncTypes'
  BY <1>5 DEF EncInv, EncTypes, PutHeader
<1>7. EncPlace'
  <2>1. CASE file' = g /\ epc' = "data" /\ eoerr' = eoerr
    <3>1. ChunkOK'
      BY <1>1 DEF ChunkOK, CodedBytes
    <3>2. Complete(g, n) /\ AtFlag(g, n, chunk.from, had)
      <4>1. \A i \in 1 .. n : file[i] = g[i]
        BY <1>3
      <4>. QED  BY <1>3, <4>1, SameStart
    <3>3. InData'
      <4>1. Len(file') - eoff' - 4 = n
        BY <1>1, <1>3, <2>1
      <4>2. g[n + 1] = Continue /\ n < Len(g)
        BY <1>3
      <4>3. BeforeChunk(n)'
        BY <1>1, <1>3, <2>1, <3>2, <4>2 DEF BeforeChunk, had
      <4>4. eoff' < chunk'.olen /\ eoff' = 0
        BY <1>1, Sizes DEF ChunkOK
      <4>5. (Number("encpos", encpos))' = Number("encpos", encpos)
            /\ (Number("rlen", chunk.rlen))' = Number("rlen", chunk.rlen)
            /\ (Number("olen", chunk.olen))' = Number("olen", chunk.olen)
        BY <1>1 DEF Number
      <4>. QED  BY <1>3, <2>1, <4>1, <4>3, <4>4, <4>5 DEF InData
    <3>. QED  BY <2>1, <3>1, <3>3 DEF EncPlace
  <2>2. CASE epc' = "return" /\ eoerr' = TRUE
    BY <2>2 DEF EncPlace
  <2>. QED  BY <1>5, <2>1, <2>2
<1>. QED  BY <1>5, <1>6, <1>7 DEF EncInv, EncTypes, PutHeader, Perfect

(* The data stand behind their header, as many as it says. *)
LEMMA PutPiecesInv == ASSUME EncInv, PutPieces, UNCHANGED lost PROVE EncInv'
<1> DEFINE u == Piece(chunk.from, chunk.to)
           had == encpos - (chunk.to - chunk.from)
<1>0. PICK m : m = Len(file) - eoff - 4
  OBVIOUS
<1>1. /\ epc = "data" /\ inSize' = inSize /\ UNCHANGED <<chunk, encpos, ilen, inpos>>
      /\ file \in Seq(Unit) /\ Len(file) \in Nat /\ EncTypes /\ eoff \in Nat
      /\ StreamOK(file, inSize) /\ ChunkOK /\ InData
  BY DEF EncInv, EncTypes, EncPlace, PutPieces, StreamOK
<1>2. /\ m \in Nat /\ Len(file) = m + 4 + eoff /\ file[m + 1] = Continue /\ Complete(file, m)
      /\ AtFlag(file, m, chunk.from, had)
      /\ file[m + 2] = Number("encpos", encpos) /\ file[m + 3] = Number("rlen", chunk.rlen)
      /\ file[m + 4] = Number("olen", chunk.olen)
      /\ \A i \in 1 .. eoff : file[m + 4 + i] = u
  BY <1>0, <1>1 DEF InData, BeforeChunk
<1>3. /\ file[m + 2].v = encpos /\ Signed(file[m + 3].v) = chunk.rlen
      /\ file[m + 4].kind = "olen" /\ file[m + 4].v = chunk.olen
  BY <1>1, <1>2, HeaderUnits
<1>4. /\ u \in Unit /\ u.kind = "data" /\ u.from = chunk.from /\ u.to = chunk.to
      /\ u.from <= u.to /\ u.to <= inSize /\ (chunk.rlen <= 0 => u.from = u.to)
  BY <1>1 DEF Piece, Unit, EncTypes, ChunkOK, CodedBytes
<1>5. PICK k \in 1 .. chunk.olen - eoff :
        /\ eoff' = eoff + k
        /\ Put([i \in 1 .. k |-> u], IF eoff + k < chunk.olen THEN "data" ELSE "chunk")
  BY DEF PutPieces
<1> DEFINE units == [i \in 1 .. k |-> u]
           g == file \o units
<1>6. chunk.olen \in Nat /\ k \in Nat /\ k > 0 /\ eoff + k <= chunk.olen
  BY <1>1, Sizes DEF ChunkOK
<1>7. units \in Seq(Unit) /\ Len(units) = k
  BY <1>4, <1>6
<1> HIDE DEF u, had, units
<1>a. /\ m \in Nat /\ eoff \in Nat /\ k \in Nat /\ k > 0 /\ chunk.olen \in Nat
      /\ eoff + k <= chunk.olen /\ Len(file) = m + 4 + eoff
  BY <1>1, <1>2, <1>6
<1>b. /\ g \in Seq(Unit) /\ Len(g) = Len(file) + k
      /\ \A i \in 1 .. Len(file) : g[i] = file[i]
      /\ \A i \in 1 .. k : g[Len(file) + i] = u
  <2>1. file \in Seq(Unit) /\ units \in Seq(Unit) /\ Len(units) = k /\ \A i \in 1 .. k : units[i] = u
    BY <1>1, <1>7 DEF units
  <2>2. /\ g \in Seq(Unit) /\ Len(g) = Len(file) + Len(units)
        /\ \A i \in 1 .. Len(file) : g[i] = file[i]
        /\ \A i \in 1 .. Len(units) : g[Len(file) + i] = units[i]
    <3>1. file \in Seq(Unit) /\ units \in Seq(Unit)
      BY <2>1
    <3>. QED  BY <3>1, Joined
  <2> HIDE DEF g
  <2>. QED  BY <2>1, <2>2
<1> HIDE DEF g
<1>8. /\ g \in Seq(Unit) /\ Len(g) = m + 4 + eoff + k
      /\ \A i \in 1 .. Len(file) : g[i] = file[i]
  BY <1>a, <1>b
<1>9. \A i \in 1 .. eoff + k : g[m + 4 + i] = u
  <2>1. SUFFICES ASSUME NEW i \in 1 .. eoff + k PROVE g[m + 4 + i] = u
    OBVIOUS
  <2>2. CASE i <= eoff
    <3>1. i \in 1 .. eoff /\ m + 4 + i \in 1 .. Len(file)
      BY <1>a, <2>2
    <3>. QED  BY <1>2, <1>8, <3>1
  <2>3. CASE i > eoff
    <3>1. i - eoff \in 1 .. k /\ m + 4 + i = Len(file) + (i - eoff)
      BY <1>a, <2>3
    <3>. QED  BY <1>b, <3>1
  <2>. QED  BY <1>a, <2>2, <2>3
<1>10. StreamOK(g, inSize)
  <2>1. /\ Len(file) >= m + 4 /\ Len(file) <= Len(g) /\ Len(g) <= m + 4 + file[m + 4].v
        /\ Len(g) - (m + 4) = eoff + k
    <3>1. Len(g) = m + 4 + eoff + k /\ file[m + 4].v = chunk.olen
      BY <1>3, <1>8
    <3>2. /\ Len(file) >= m + 4 /\ Len(file) <= Len(g) /\ Len(g) <= m + 4 + chunk.olen
          /\ Len(g) - (m + 4) = eoff + k
      BY <1>a, <3>1
    <3>. QED  BY <3>1, <3>2
  <2>2. AtFlag(file, m, u.from, file[m + 2].v - (u.to - u.from))
    <3>1. u.from = chunk.from /\ file[m + 2].v - (u.to - u.from) = had
      BY <1>3, <1>4 DEF had
    <3>. QED  BY <1>2, <3>1
  <2>3. Signed(file[m + 3].v) <= 0 => u.from = u.to
    BY <1>3, <1>4
  <2>. QED  BY <1>1, <1>2, <1>4, <1>8, <1>9, <2>1, <2>2, <2>3, DataAppended
<1>11. /\ StreamOK(file', inSize')
       /\ \/ /\ file' = g /\ eoerr' = eoerr
             /\ epc' = IF eoff + k < chunk.olen THEN "data" ELSE "chunk"
          \/ epc' = "return" /\ eoerr' = TRUE
  <2>. QED  BY <1>1, <1>5, <1>7, <1>10, PutCuts DEF g, units
<1>12. EncTypes'
  <2>1. eoff' \in Nat /\ epc' \in {"data", "chunk", "return"} /\ eoerr' \in BOOLEAN /\ epc = "data"
    <3>1. eoff' \in Nat /\ epc = "data"
      BY <1>1, <1>5, <1>a
    <3>2. epc' \in {"data", "chunk", "return"}
      BY <1>11
    <3>3. eoerr' \in BOOLEAN
      BY <1>1, <1>11 DEF EncTypes
    <3>. QED  BY <3>1, <3>2, <3>3
  <2>. QED  BY <1>1, <2>1 DEF EncTypes, PutPieces
<1>13. Complete(g, m) /\ AtFlag(g, m, chunk.from, had)
  <2>1. \A i \in 1 .. m : file[i] = g[i]
    BY <1>1, <1>2, <1>8
  <2>. QED  BY <1>2, <2>1, SameStart
<1>14. /\ g[m + 1] = Continue /\ g[m + 2] = file[m + 2] /\ g[m + 3] = file[m + 3]
       /\ g[m + 4] = file[m + 4] /\ m < Len(g)
  BY <1>1, <1>2, <1>6, <1>8
<1>15. EncPlace'
  <2>1. CASE file' = g /\ epc' = "data" /\ eoff + k < chunk.olen
    <3>1. ChunkOK'
      BY <1>1 DEF ChunkOK, CodedBytes
    <3>2. Len(file') - eoff' - 4 = m
      BY <1>1, <1>2, <1>5, <1>6, <1>8, <2>1
    <3>3. BeforeChunk(m)'
      BY <1>1, <1>2, <1>13, <1>14, <2>1 DEF BeforeChunk, had
    <3>4. /\ (Number("encpos", encpos))' = Number("encpos", encpos)
          /\ (Number("rlen", chunk.rlen))' = Number("rlen", chunk.rlen)
          /\ (Number("olen", chunk.olen))' = Number("olen", chunk.olen)
          /\ (Piece(chunk.from, chunk.to))' = u
      BY <1>1 DEF Number, u
    <3>5. InData'
      BY <1>1, <1>2, <1>5, <1>9, <1>14, <2>1, <3>2, <3>3, <3>4 DEF InData
    <3>. QED  BY <2>1, <3>1, <3>5 DEF EncPlace
  <2>2. CASE file' = g /\ epc' = "chunk" /\ eoff + k = chunk.olen
    <3>1. g[Len(g)] = u /\ Len(g) = m + 4 + chunk.olen
      <4>1. Len(g) = m + 4 + (eoff + k) /\ eoff + k \in 1 .. eoff + k
        BY <1>a, <1>8
      <4>2. g[m + 4 + (eoff + k)] = u
        BY <1>9, <4>1
      <4>. QED  BY <2>2, <4>1, <4>2
    <3>2. Complete(g, Len(g))
      <4>1. SUFFICES ASSUME NEW j \in 1 .. Len(g)
                     PROVE  /\ g[j] = Continue => j + 3 <= Len(g)
                            /\ g[j].kind = "olen" => j + g[j].v <= Len(g)
        BY DEF Complete
      <4>2. CASE j <= m
        <5>1. (g[j] = Continue => j + 3 <= m) /\ (g[j].kind = "olen" => j + g[j].v <= m)
          BY <1>13, <4>2 DEF Complete
        <5>2. g[j].kind = "olen" => g[j].v \in Nat
          BY <1>8, UnitFacts
        <5>. QED  BY <1>2, <1>6, <5>1, <5>2, <3>1
      <4>3. CASE j \in m + 1 .. m + 4
        <5>1. g[m + 2].kind = "encpos" /\ g[m + 3].kind = "rlen" /\ g[m + 4].kind = "olen"
          BY <1>1, <1>2, <1>14, HeaderUnits
        <5>2. j = m + 1 \/ j = m + 2 \/ j = m + 3 \/ j = m + 4
          BY <1>2, <4>3
        <5>. QED  BY <1>2, <1>3, <1>6, <1>14, <3>1, <5>1, <5>2, UnitFacts
      <4>4. CASE j > m + 4
        <5>1. j - (m + 4) \in 1 .. eoff + k
          BY <1>1, <1>2, <1>6, <1>8, <4>4
        <5>2. g[m + 4 + (j - (m + 4))] = u
          BY <1>9, <5>1
        <5>3. m + 4 + (j - (m + 4)) = j
          BY <1>a
        <5>. QED  BY <1>4, <5>2, <5>3, UnitFacts
      <4>. QED  BY <1>2, <4>2, <4>3, <4>4
    <3>3. AtChunk(g, Len(g), CodedBytes, encpos)
      <4>1. m + 4 \in 3 .. Len(g) - 1 /\ g[m + 4].kind = "olen" /\ m + 4 + g[m + 4].v = Len(g)
        BY <1>a, <1>3, <1>14, <3>1
      <4>2. g[(m + 4) - 2].v = encpos
        BY <1>2, <1>3, <1>14
      <4>3. g[Len(g)].kind = "data" /\ g[Len(g)].to = CodedBytes
        BY <1>1, <1>4, <3>1 DEF ChunkOK
      <4>. QED  BY <4>1, <4>2, <4>3 DEF AtChunk
    <3>4. CodedBytes' = CodedBytes
      BY <1>1 DEF CodedBytes
    <3>5. eierr' \/ ilen' > 0
      BY <1>1 DEF PutPieces, ChunkOK
    <3>. QED  BY <1>1, <2>2, <3>2, <3>3, <3>4, <3>5 DEF EncPlace, AtFlag
  <2>3. CASE epc' = "return" /\ eoerr' = TRUE
    BY <2>3 DEF EncPlace
  <2>4. eoff + k < chunk.olen \/ eoff + k = chunk.olen
    BY <1>a
  <2>. QED  BY <1>11, <2>1, <2>2, <2>3, <2>4
<1>. QED  BY <1>11, <1>12, <1>15 DEF EncInv, EncTypes, PutPieces, Perfect

(***************************************************************************)
(* Decode.                                                                 *)
(***************************************************************************)

(* While Decode runs the stream and what is known of it stay as they are. *)
LEMMA DecodeFrame ==
  ASSUME FileInv, epc = "end", UNCHANGED <<encodeVars, lost>>
  PROVE  /\ EncInv' /\ epc' = "end" /\ inSize' = inSize /\ file' = file /\ Perfect' = Perfect
         /\ inSize \in Nat /\ StreamOK(file, inSize) /\ file \in Seq(Unit) /\ Len(file) \in Nat
         /\ Perfect => Complete(file, Len(file)) /\ AtBlock(file, Len(file), inSize)
         /\ DecTypes /\ DecPlace /\ (Sound => DecTrip)
<1>1. EncInv /\ DecInv /\ UNCHANGED <<encodeVars, lost>>
  BY DEF FileInv
<1>2. file' = file /\ inSize' = inSize /\ epc' = epc /\ Perfect' = Perfect
  BY DEF encodeVars, Perfect
<1>3. EncTypes'
  BY <1>1 DEF encodeVars, EncInv, EncTypes
<1>4. EncPlace'
  BY <1>2 DEF EncPlace
<1>5. EncInv'
  BY <1>1, <1>2, <1>3, <1>4 DEF EncInv
<1>. QED  BY <1>1, <1>2, <1>5 DEF EncInv, EncTypes, StreamOK, DecInv

(* What is sound now has been sound before. *)
LEMMA SoundBefore ==
  ASSUME FileInv, epc = "end", UNCHANGED <<encodeVars, lost>>, dierr => dierr',
         dpos' \in Int, dpos <= dpos', Sound'
  PROVE  ~dierr /\ ~dierr' /\ (Perfect \/ dpos' < Len(file)) /\ DecTrip
<1>1. /\ file' = file /\ Perfect' = Perfect /\ (Sound => DecTrip)
      /\ dpos \in Int /\ Len(file) \in Nat
  BY DecodeFrame DEF DecTypes
<1>2. ~dierr' /\ (Perfect \/ dpos' < Len(file))
  BY <1>1 DEF Sound
<1>3. Perfect \/ dpos < Len(file)
  BY <1>1, <1>2
<1>. QED  BY <1>1, <1>2, <1>3 DEF Sound

(* A call of IsEnd that finds more to read meets no error. *)
LEMMA EndTested ==
  ASSUME NEW ends \in BOOLEAN, dierr \in BOOLEAN, TestEnd(Rest = 0, dierr, ends, dierr')
  PROVE  /\ dierr' \in BOOLEAN /\ (dierr => dierr') /\ (ends => Rest = 0 \/ dierr')
         /\ ~ends => ~(Rest = 0) /\ dierr' = dierr
<1> DEFINE atEnd == Rest = 0
<1>1. atEnd \in BOOLEAN
  OBVIOUS
<1> HIDE DEF atEnd
<1>2. CASE ends = atEnd /\ dierr' = dierr
  BY <1>1, <1>2 DEF atEnd
<1>3. CASE ends = TRUE /\ dierr' = TRUE
  BY <1>3
<1>. QED  BY <1>2, <1>3 DEF TestEnd, atEnd

(* Decode begins where a stream begins. *)
LEMMA StartDecodeInv ==
  ASSUME FileInv, epc = "end", StartDecode, UNCHANGED <<encodeVars, lost>>
  PROVE  FileInv'
<1>1. /\ dpc = "start" /\ UNCHANGED <<dpos, dierr, doerr, block, cur, filled, ooff, out>>
      /\ \/ dpc' = "block" /\ dret' = dret
         \/ dpc' = "end" /\ dret' = "thrown"
  <2>1. dpc = "start" /\ UNCHANGED <<dpos, dierr, doerr, block, cur, filled, ooff, out>>
    BY DEF StartDecode
  <2>. QED  BY <2>1 DEF StartDecode, Throw
<1>2. dpos = 0 /\ out = <<>> /\ ~dierr
  BY <1>1, DecodeFrame DEF DecTypes
<1>3. DecTypes'
  BY <1>1, DecodeFrame DEF DecTypes
<1>4. DecPlace'
  <2>1. dpos = Len(file) \/ IsFlag(file[dpos + 1])
    BY <1>2, DecodeFrame DEF StreamOK
  <2>2. dpc' \in {"block", "end"} /\ file' = file /\ dpos' = dpos
    BY <1>1, DecodeFrame
  <2>. QED  BY <2>1, <2>2 DEF DecPlace
<1>5. DecTrip'
  <2>1. AtBlock(file, 0, 0)
    BY DEF AtBlock
  <2>2. dpc' \in {"block", "end"} /\ file' = file /\ dpos' = 0 /\ inSize' \in Nat /\ out' = <<>>
    BY <1>1, <1>2, DecodeFrame
  <2>3. dpc' = "end" => dret' = "thrown"
    BY <1>1
  <2>. QED  BY <2>1, <2>2, <2>3 DEF DecTrip
<1>. QED  BY <1>3, <1>4, <1>5, DecodeFrame DEF FileInv, DecInv

(* If no error looks like the end, Decode gets to the end of the last block  *)
(* only.                                                                     *)
LEMMA BeginDecodeBlockInv ==
  ASSUME FileInv, epc = "end", BeginDecodeBlock, UNCHANGED <<encodeVars, lost>>
  PROVE  FileInv'
<1>1. PICK ends \in BOOLEAN :
        /\ TestEnd(Rest = 0, dierr, ends, dierr')
        /\ IF ends THEN dpc' = "return" /\ UNCHANGED block
           ELSE dpc' = "first" /\ block' = <<>>
  BY DEF BeginDecodeBlock
<1>2. dpc = "block" /\ UNCHANGED <<dpos, doerr, cur, filled, ooff, out, dcalls, dret>>
  BY DEF BeginDecodeBlock
<1>3. /\ dierr' \in BOOLEAN /\ (dierr => dierr') /\ (ends => Rest = 0 \/ dierr')
      /\ ~ends => ~(Rest = 0) /\ dierr' = dierr
  <2>1. dierr \in BOOLEAN
    BY DecodeFrame DEF DecTypes
  <2>. QED  BY <1>1, <2>1, EndTested
<1>4. DecTypes'
  <2>1. block' \in Seq(Nat) /\ dpc' \in {"return", "first"}
    <3>1. block \in Seq(Nat) /\ <<>> \in Seq(Nat)
      BY DecodeFrame DEF DecTypes
    <3>2. CASE ends
      BY <1>1, <3>1, <3>2
    <3>3. CASE ~ends
      BY <1>1, <3>1, <3>3
    <3>. QED  BY <3>2, <3>3
  <2>. QED  BY <1>2, <1>3, <2>1, DecodeFrame DEF DecTypes
<1>5. DecPlace'
  <2>1. dierr \/ dpos = Len(file) \/ IsFlag(file[dpos + 1])
    BY <1>2, DecodeFrame DEF DecPlace
  <2>2. dpc' \in {"return", "first"} /\ file' = file /\ dpos' = dpos
    BY <1>1, <1>2, DecodeFrame
  <2>3. dpc' = "first" => dpos < Len(file) /\ block' = <<>>
    BY <1>1, <1>3, DecodeFrame DEF Rest, DecTypes
  <2>. QED  BY <1>3, <2>1, <2>2, <2>3 DEF DecPlace
<1>6. ASSUME Sound' PROVE DecTrip'
  <2>1. /\ DecTrip /\ AtBlock(file, dpos, Len(out)) /\ ~dierr' /\ (Perfect \/ dpos < Len(file))
        /\ out \in Seq(Nat) /\ Len(out) \in Nat
    <3>1. dpos \in Nat /\ out \in Seq(Nat) /\ Len(out) \in Nat
      BY DecodeFrame DEF DecTypes
    <3>2. DecTrip /\ ~dierr' /\ (Perfect \/ dpos' < Len(file))
      BY <1>2, <1>3, <1>6, <3>1, SoundBefore
    <3>. QED  BY <1>2, <3>1, <3>2 DEF DecTrip
  <2>2. /\ Len(out) <= inSize /\ (\A i \in 1 .. Len(out) : out[i] = i)
        /\ out' = out /\ file' = file /\ inSize' = inSize /\ dpos' = dpos
    BY <1>2, <2>1, DecodeFrame DEF DecTrip
  <2>3. CASE ends
    <3>1. dpos = Len(file) /\ dpc' = "return"
      BY <1>1, <1>3, <2>1, <2>3, DecodeFrame DEF Rest, DecTypes
    <3>2. AtFlag(file, Len(file), Len(out), 0) /\ AtFlag(file, Len(file), inSize, 0)
      <4>1. Perfect
        BY <2>1, <3>1, DecodeFrame
      <4>. QED  BY <2>1, <3>1, <4>1, DecodeFrame DEF AtFlag
    <3>3. Len(out) = inSize
      BY <3>2, OnePlace, DecodeFrame
    <3>. QED  BY <2>2, <3>1, <3>3 DEF DecTrip
  <2>4. CASE ~ends
    <3>1. dpos < Len(file) /\ dpc' = "first" /\ block' = <<>>
      BY <1>1, <1>3, <2>4, DecodeFrame DEF Rest, DecTypes
    <3>2. InBlock(dpos)'
      BY <2>1, <2>2, <3>1 DEF InBlock, AtFlag
    <3>. QED  BY <2>2, <3>1, <3>2 DEF DecTrip
  <2>. QED  BY <2>3, <2>4
<1>. QED  BY <1>4, <1>5, <1>6, DecodeFrame DEF FileInv, DecInv

(* What a chunk of the stream stands for lies within the input. *)
LEMMA ChunkBound ==
  ASSUME NEW f, NEW size, StreamOK(f, size), NEW n \in 0 .. Len(f), NEW c, NEW e,
         AtChunk(f, n, c, e)
  PROVE  c <= size
<1>1. PICK p \in 3 .. n - 1 : /\ f[p].kind = "olen" /\ p + f[p].v = n /\ f[p - 2].v = e
                              /\ f[n].kind = "data" /\ f[n].to = c
  BY DEF AtChunk
<1>2. /\ f \in Seq(Unit) /\ Len(f) \in Nat /\ p \in 1 .. Len(f)
      /\ NumberOK(f, p) /\ DataOK(f, p)
  BY DEF StreamOK
<1>3. f[p].v \in Nat /\ f[p].v >= 1 /\ p >= 4 /\ f[p - 3] = Continue
  BY <1>1, <1>2, UnitFacts DEF NumberOK
<1>4. f[n] = f[p + 1]
  <2>1. f[p].v \in 1 .. f[p].v /\ p + f[p].v <= Len(f)
    BY <1>1, <1>3
  <2>. QED  BY <1>1, <1>2, <2>1 DEF DataOK
<1>5. ChainOK(f, p - 3, size) /\ (p - 3) + 4 = p + 1 /\ p + 1 <= Len(f)
  BY <1>1, <1>2, <1>3 DEF StreamOK
<1>. QED  BY <1>1, <1>3, <1>4, <1>5 DEF ChainOK

(* A stop flag is the end of a block, which has been decoded. *)
LEMMA GetFlagInv ==
  ASSUME FileInv, epc = "end", GetFlag, UNCHANGED <<encodeVars, lost>>
  PROVE  FileInv'
<1>1. PICK ends \in BOOLEAN :
        /\ TestEnd(Rest = 0, dierr, ends, dierr')
        /\ IF ends THEN dpc' = "output" /\ UNCHANGED <<dpos, dret>>
           ELSE /\ dpos' = dpos + 1
                /\ \E v \in FlagValues(file[dpos + 1]) :
                     \/ v = Stop.v /\ dpc' = "output" /\ UNCHANGED dret
                     \/ v = Continue.v /\ dpc' = "header" /\ UNCHANGED dret
                     \/ v \notin {Stop.v, Continue.v} /\ Throw
  BY DEF GetFlag
<1>2. dpc \in {"first", "flag"} /\ ooff' = 0 /\ UNCHANGED <<doerr, block, cur, filled, out, dcalls>>
  BY DEF GetFlag
<1>3. /\ dierr' \in BOOLEAN /\ (dierr => dierr') /\ (ends => Rest = 0 \/ dierr')
      /\ ~ends => ~(Rest = 0) /\ dierr' = dierr
  <2>1. dierr \in BOOLEAN
    BY DecodeFrame DEF DecTypes
  <2>. QED  BY <1>1, <2>1, EndTested
<1>4. DecTypes /\ dpos \in 0 .. Len(file) /\ Len(file) \in Nat /\ file \in Seq(Unit)
      /\ block \in Seq(Nat) /\ out \in Seq(Nat) /\ Len(block) \in Nat /\ Len(out) \in Nat
      /\ (dierr \/ dpos = Len(file) \/ IsFlag(file[dpos + 1]))
  BY <1>2, DecodeFrame DEF DecTypes, DecPlace
<1>5. CASE ends
  <2>1. dpc' = "output" /\ dpos' = dpos /\ dret' = dret /\ file' = file
    BY <1>1, <1>5, DecodeFrame
  <2>2. DecTypes'
    BY <1>2, <1>3, <1>4, <2>1 DEF DecTypes
  <2>3. DecPlace'
    BY <1>3, <1>4, <2>1 DEF DecPlace
  <2>4. ~(Sound')
    <3>1. SUFFICES ASSUME Sound' PROVE FALSE
      OBVIOUS
    <3>2. ~dierr' /\ Rest = 0 /\ DecTrip
      BY <1>3, <1>4, <1>5, <2>1, <3>1, SoundBefore
    <3>3. dpos < Len(file)
      BY <1>2, <3>2 DEF DecTrip
    <3>. QED  BY <1>4, <3>2, <3>3 DEF Rest
  <2>. QED  BY <2>2, <2>3, <2>4, DecodeFrame DEF FileInv, DecInv
<1>6. CASE ~ends /\ dierr
  <2>1. dpos < Len(file) /\ dierr' /\ dpos' = dpos + 1 /\ file' = file /\ dpos' \in 1 .. Len(file)
    <3>1. ~(Rest = 0) /\ dierr' /\ dpos' = dpos + 1
      BY <1>1, <1>3, <1>6
    <3>2. dpos < Len(file)
      BY <1>4, <3>1 DEF Rest
    <3>. QED  BY <1>4, <3>1, <3>2, DecodeFrame
  <2>2. \/ dpc' \in {"output", "header"} /\ dret' = dret
        \/ dpc' = "end" /\ dret' = "thrown"
    <3>1. PICK v \in FlagValues(file[dpos + 1]) :
            \/ v = Stop.v /\ dpc' = "output" /\ UNCHANGED dret
            \/ v = Continue.v /\ dpc' = "header" /\ UNCHANGED dret
            \/ v \notin {Stop.v, Continue.v} /\ Throw
      BY <1>1, <1>6
    <3>. QED  BY <3>1 DEF Throw
  <2>3. DecTypes'
    BY <1>2, <1>3, <1>4, <2>1, <2>2 DEF DecTypes
  <2>4. DecPlace'
    BY <2>1, <2>2 DEF DecPlace
  <2>. QED  BY <2>1, <2>3, <2>4, DecodeFrame DEF FileInv, DecInv, Sound
<1>7. CASE ~ends /\ ~dierr
  <2>1. dpos < Len(file) /\ ~dierr /\ ~dierr' /\ dpos' = dpos + 1 /\ IsFlag(file[dpos + 1])
    <3>1. ~(Rest = 0) /\ ~dierr /\ ~dierr' /\ dpos' = dpos + 1
      BY <1>1, <1>3, <1>7
    <3>2. dpos < Len(file)
      BY <1>4, <3>1 DEF Rest
    <3>. QED  BY <1>4, <1>7, <3>1, <3>2
  <2>2. file' = file /\ inSize' = inSize /\ inSize \in Nat /\ dpos' \in 1 .. Len(file)
    BY <1>4, <2>1, DecodeFrame
  <2>0. FlagValues(file[dpos + 1]) = {file[dpos + 1].v} /\ Stop.v = 0 /\ Continue.v = 1
    BY <2>1 DEF FlagValues, IsFlag, Stop, Continue
  <2>3. CASE file[dpos + 1] = Stop
    <3>1. dpc' = "output" /\ dret' = dret
      BY <1>1, <1>7, <2>0, <2>3
    <3>2. StopOK(file, dpos + 1)
      BY <2>2, <2>1, DecodeFrame DEF StreamOK
    <3>3. DecTypes'
      BY <1>2, <1>3, <1>4, <2>1, <2>2, <3>1 DEF DecTypes
    <3>4. DecPlace'
      <4>1. dpos + 1 = Len(file) \/ IsFlag(file[dpos + 1 + 1])
        BY <1>4, <2>1, <2>3, <3>2 DEF StopOK
      <4>. QED  BY <2>1, <2>2, <3>1, <4>1 DEF DecPlace
    <3>5. ASSUME Sound' PROVE DecTrip'
      <4>0. DecTrip /\ (Perfect \/ dpos' < Len(file))
        BY <1>4, <2>1, <2>2, <3>5, SoundBefore
      <4>1. /\ Len(out) <= inSize /\ (\A i \in 1 .. Len(out) : out[i] = i) /\ InBlock(dpos)
            /\ AtBlock(file, Len(file), inSize) \/ dpos + 1 < Len(file)
        BY <1>2, <2>1, <4>0, DecodeFrame DEF DecTrip
      <4>2. dpos >= 1 /\ file[dpos].kind = "data"
        <5>1. CASE dpos + 1 < Len(file)
          BY <1>4, <2>1, <2>3, <3>2, <5>1 DEF StopOK
        <5>2. CASE dpos + 1 = Len(file)
          BY <1>4, <4>1, <5>2 DEF AtBlock
        <5>. QED  BY <1>4, <2>1, <5>1, <5>2
      <4>3. AtChunk(file, dpos, Len(out) + Len(block), Len(block))
        <5>1. ~AtBlock(file, dpos, Len(out) + Len(block))
          BY <1>4, <4>2, UnitFacts DEF AtBlock
        <5>. QED  BY <4>1, <5>1 DEF InBlock, AtFlag
      <4>4. Len(out) + Len(block) <= inSize
        BY <1>4, <4>3, ChunkBound, DecodeFrame
      <4>5. AtBlock(file, dpos + 1, Len(out) + Len(block))
        BY <1>4, <2>1, <2>3, <4>2, <4>3 DEF AtBlock, AtChunk
      <4>6. /\ out' = out /\ block' = block /\ ooff' = 0 /\ Len(out) - 0 = Len(out)
            /\ \A i \in 1 .. Len(block) : block[i] = Len(out) + i
        BY <1>2, <1>4, <4>1 DEF InBlock
      <4>. QED  BY <1>4, <2>1, <2>2, <3>1, <4>1, <4>4, <4>5, <4>6 DEF DecTrip
    <3>. QED  BY <3>3, <3>4, <3>5, DecodeFrame DEF FileInv, DecInv
  <2>4. CASE file[dpos + 1] # Stop
    <3>0. file[dpos + 1] = Continue
      BY <2>1, <2>4 DEF IsFlag
    <3>1. dpc' = "header" /\ dret' = dret /\ file[dpos + 1] = Continue
      BY <1>1, <1>7, <2>0, <3>0
    <3>2. DecTypes'
      BY <1>2, <1>3, <1>4, <2>1, <2>2, <3>1 DEF DecTypes
    <3>3. DecPlace'
      BY <2>1, <2>2, <3>1 DEF DecPlace
    <3>4. ASSUME Sound' PROVE DecTrip'
      <4>0. DecTrip
        BY <1>4, <2>1, <2>2, <3>4, SoundBefore
      <4>1. /\ Len(out) <= inSize /\ (\A i \in 1 .. Len(out) : out[i] = i) /\ InBlock(dpos)
        BY <1>2, <4>0 DEF DecTrip
      <4>2. dpos' - 1 = dpos /\ out' = out /\ block' = block
        BY <1>2, <1>4, <2>1
      <4>3. (InBlock(dpos - 1))'
        BY <2>2, <4>1, <4>2 DEF InBlock
      <4>. QED  BY <2>2, <3>1, <4>1, <4>2, <4>3 DEF DecTrip
    <3>. QED  BY <3>2, <3>3, <3>4, DecodeFrame DEF FileInv, DecInv
  <2>. QED  BY <2>3, <2>4
<1>. QED  BY <1>5, <1>6, <1>7

(* The numbers of a header are read as they were written, and not refused. *)
LEMMA GetHeaderInv ==
  ASSUME FileInv, epc = "end", GetHeader, UNCHANGED <<encodeVars, lost>>
  PROVE  FileInv'
<1>1. /\ dpc = "header" /\ UNCHANGED <<doerr, block, filled, ooff, out, dcalls>>
      /\ file' = file /\ inSize' = inSize /\ inSize \in Nat /\ file \in Seq(Unit) /\ Len(file) \in Nat
  BY DecodeFrame DEF GetHeader
<1>2. /\ dpos \in 1 .. Len(file) /\ (dierr \/ file[dpos] = Continue)
      /\ cur \in [encpos : Int, rlen : Int, olen : Int, from : Nat, to : Nat, got : Nat, whole : BOOLEAN]
      /\ dret = "none"
  BY <1>1, DecodeFrame DEF DecTypes, DecPlace
<1>3. CASE /\ \E k \in 0 .. IF dierr THEN 4 ELSE 3 : k <= Rest /\ dpos' = dpos + k
           /\ dierr' = TRUE /\ dpc' = "return"
           /\ UNCHANGED <<cur, dret>>
  <2>1. dpos' \in 0 .. Len(file)
    BY <1>1, <1>2, <1>3 DEF Rest
  <2>2. DecTypes'
    BY <1>1, <1>2, <1>3, <2>1, DecodeFrame DEF DecTypes
  <2>3. DecPlace'
    BY <1>3 DEF DecPlace
  <2>4. ~(Sound')
    BY <1>3 DEF Sound
  <2>. QED  BY <2>2, <2>3, <2>4, DecodeFrame DEF FileInv, DecInv
<1>4. CASE /\ ~dierr
           /\ dpos' = IF Rest < 3 THEN Len(file) ELSE dpos + 3
           /\ UNCHANGED dierr
           /\ \E e \in HeaderNumber(1), r \in HeaderNumber(2), o \in HeaderNumber(3) :
                cur' = [NoHeader EXCEPT !.encpos = e, !.rlen = r, !.olen = o]
           /\ IF InvalidSize(cur') THEN Throw ELSE dpc' = "data" /\ UNCHANGED dret
  <2>0. file[dpos] = Continue
    BY <1>2, <1>4
  <2>1. PICK e \in HeaderNumber(1), r \in HeaderNumber(2), o \in HeaderNumber(3) :
          cur' = [NoHeader EXCEPT !.encpos = e, !.rlen = r, !.olen = o]
    BY <1>4
  <2>2. dpos' = IF Rest < 3 THEN Len(file) ELSE dpos + 3
    BY <1>4
  <2>3. \/ dpc' = "end" /\ dret' = "thrown" /\ InvalidSize(cur')
        \/ dpc' = "data" /\ dret' = dret
    BY <1>4 DEF Throw
  <2>4. ASSUME NEW k \in 1 .. 3, k <= Rest
        PROVE  /\ dpos + k \in 1 .. Len(file) /\ file[dpos + k].v \in 0 .. IntRange - 1
               /\ file[dpos + k].kind = HeaderKind[k] /\ NumberOK(file, dpos + k)
    <3>1. dpos + k \in 1 .. Len(file) /\ ContinueOK(file, dpos) /\ NumberOK(file, dpos + k)
      BY <1>1, <1>2, <2>0, <2>4, DecodeFrame DEF Rest, StreamOK
    <3>2. file[dpos + k].kind = HeaderKind[k]
      <4>1. file[dpos] = Continue /\ dpos + k <= Len(file)
        BY <1>1, <1>2, <2>0, <3>1
      <4>. QED  BY <3>1, <4>1 DEF ContinueOK
    <3>3. HeaderKind[k] # "data"
      BY DEF HeaderKind
    <3>. QED  BY <1>1, <3>1, <3>2, <3>3, UnitFacts
  <2>5. ASSUME NEW k \in 1 .. 3, k <= Rest PROVE Signed(file[dpos + k].v) \in Int
    BY <2>4, <2>5, Sizes DEF Signed
  <2>6. e \in Int /\ r \in Int /\ o \in Int
    <3>1. AnyInt \subseteq Int
      BY Sizes DEF AnyInt
    <3>2. ASSUME NEW k \in 1 .. 3 PROVE HeaderNumber(k) \subseteq Int
      BY <2>5, <3>1 DEF HeaderNumber
    <3>. QED  BY <3>2
  <2>7. /\ cur' \in [encpos : Int, rlen : Int, olen : Int, from : Nat, to : Nat, got : Nat, whole : BOOLEAN]
        /\ cur'.encpos = e /\ cur'.rlen = r /\ cur'.olen = o /\ cur'.got = 0 /\ cur'.whole = FALSE
    BY <2>1, <2>6 DEF NoHeader
  <2>8. dpos' \in 0 .. Len(file)
    BY <1>1, <1>2, <2>2 DEF Rest
  <2>9. DecTypes'
    <3>1. dierr' \in BOOLEAN /\ doerr' \in BOOLEAN
      BY <1>1, <1>2, <1>4, DecodeFrame DEF DecTypes
    <3>2. dpc' \in {"data", "end"} /\ dret' \in {"none", "thrown"} /\ (dpc' = "data" => dret' = "none")
      BY <1>2, <2>3
    <3>. QED  BY <1>1, <2>7, <2>8, <3>1, <3>2, DecodeFrame DEF DecTypes
  <2>10. ASSUME Rest >= 3
         PROVE  /\ HeaderRead' /\ dpos' - cur'.got - 4 = dpos - 1
                /\ r <= BlockSizeRolz /\ o <= BlockSizeHuffman
    <3>1. dpos' = dpos + 3 /\ dpos' \in 1 .. Len(file) /\ dpos' - cur'.got = dpos + 3
      BY <1>1, <1>2, <2>2, <2>7, <2>10 DEF Rest
    <3>2. /\ e = Signed(file[dpos + 1].v) /\ r = Signed(file[dpos + 2].v)
          /\ o = Signed(file[dpos + 3].v)
      <4>1. 1 <= Rest /\ 2 <= Rest /\ 3 <= Rest
        BY <1>1, <1>2, <2>10 DEF Rest
      <4>. QED  BY <4>1 DEF HeaderNumber
    <3>3. /\ file[dpos + 1].v \in 0 .. BlockSizeIn /\ Signed(file[dpos + 2].v) \in -1 .. BlockSizeRolz
          /\ file[dpos + 3].v \in DistanceByte .. BlockSizeHuffman /\ file[dpos + 3].kind = "olen"
      <4>1. 1 <= Rest /\ 2 <= Rest /\ 3 <= Rest
        BY <1>1, <1>2, <2>10 DEF Rest
      <4>2. /\ file[dpos + 1].kind = "encpos" /\ NumberOK(file, dpos + 1)
            /\ file[dpos + 2].kind = "rlen" /\ NumberOK(file, dpos + 2)
            /\ file[dpos + 3].kind = "olen" /\ NumberOK(file, dpos + 3)
        BY <2>4, <4>1 DEF HeaderKind
      <4>. QED  BY <4>2 DEF NumberOK
    <3>4. e = file[dpos + 1].v /\ o = file[dpos + 3].v
      <4>1. \A v \in Nat : v < IntRange \div 2 => Signed(v) = v
        BY NumberRead
      <4>2. file[dpos + 1].v \in Nat /\ file[dpos + 1].v < IntRange \div 2
        BY <3>3, Sizes
      <4>3. file[dpos + 3].v \in Nat /\ file[dpos + 3].v < IntRange \div 2
        BY <3>3, Sizes
      <4>. QED  BY <3>2, <4>1, <4>2, <4>3
    <3>5. HeaderRead'
      <4>1. PICK p : p = dpos + 3
        OBVIOUS
      <4>2. /\ p - 3 = dpos /\ p - 2 = dpos + 1 /\ p - 1 = dpos + 2 /\ p >= 4
            /\ dpos' - cur'.got = p
        BY <1>2, <3>1, <4>1
      <4>3. (cur'.whole = (cur'.got = cur'.olen)) /\ cur'.got <= cur'.olen /\ ~(cur'.got > 0)
        BY <2>7, <3>3, <3>4, Sizes
      <4>. QED  BY <1>1, <1>2, <2>0, <2>7, <3>2, <3>3, <3>4, <4>1, <4>2, <4>3 DEF HeaderRead
    <3>6. dpos' - cur'.got - 4 = dpos - 1
      BY <1>1, <1>2, <3>1
    <3>7. r <= BlockSizeRolz
      BY <3>2, <3>3, Sizes
    <3>8. o <= BlockSizeHuffman
      BY <3>3, <3>4, Sizes
    <3>. QED  BY <3>5, <3>6, <3>7, <3>8
  <2>11. DecPlace'
    <3>1. dpc' \in {"data", "end"}
      BY <2>3
    <3>2. HeaderRead' \/ dpos' = Len(file)
      <4>1. CASE Rest >= 3
        BY <4>1, <2>10
      <4>2. CASE ~(Rest >= 3)
        BY <1>1, <1>2, <2>2, <4>2 DEF Rest
      <4>. QED  BY <4>1, <4>2
    <3>. QED  BY <1>1, <1>4, <3>1, <3>2 DEF DecPlace
  <2>12. ASSUME Sound' PROVE DecTrip'
    <3>0. DecTrip /\ (Perfect \/ dpos' < Len(file))
      <4>1. dpos <= dpos' /\ dpos' \in Int
        BY <1>1, <1>2, <2>2, <2>8 DEF Rest
      <4>. QED  BY <1>4, <2>12, <4>1, SoundBefore
    <3>1. /\ Len(out) <= inSize /\ (\A i \in 1 .. Len(out) : out[i] = i) /\ InBlock(dpos - 1)
          /\ Perfect => Complete(file, Len(file))
      BY <1>1, <3>0, DecodeFrame DEF DecTrip
    <3>2. Rest >= 3
      <4>1. CASE Perfect
        <5>1. dpos + 3 <= Len(file)
          BY <1>2, <2>0, <3>1, <4>1 DEF Complete
        <5>. QED  BY <1>1, <1>2, <5>1 DEF Rest
      <4>2. CASE dpos' < Len(file)
        BY <1>1, <1>2, <2>2, <4>2 DEF Rest
      <4>. QED  BY <3>0, <4>1, <4>2
    <3>3. dpc' = "data"
      BY <2>3, <2>7, <2>10, <3>2, Sizes, <2>6 DEF InvalidSize
    <3>4. InBlock(dpos - cur.got - 4)'
      <4>1. PICK n : n = dpos - 1
        OBVIOUS
      <4>2. dpos' - cur'.got - 4 = n /\ InBlock(n)
        BY <2>10, <3>1, <3>2, <4>1
      <4>. QED  BY <1>1, <4>2 DEF InBlock
    <3>. QED  BY <1>1, <2>10, <3>1, <3>2, <3>3, <3>4 DEF DecTrip
  <2>. QED  BY <2>9, <2>11, <2>12, DecodeFrame DEF FileInv, DecInv
<1>. QED  BY <1>3, <1>4 DEF GetHeader

(* The data of a chunk are read until there are no more. *)
LEMMA GetPiecesInv ==
  ASSUME FileInv, epc = "end", GetPieces, UNCHANGED <<encodeVars, lost>>
  PROVE  FileInv'
<1>1. PICK ends \in BOOLEAN :
        /\ TestEnd(Rest = 0, dierr, ends, dierr')
        /\ dpc' = IF DataRead(ends) THEN "decode" ELSE "more"
  BY DEF GetPieces
<1>2. /\ dpc = "data" /\ UNCHANGED <<dpos, cur, doerr, block, filled, ooff, out, dcalls, dret>>
      /\ file' = file /\ inSize' = inSize /\ Len(file) \in Nat
  BY DecodeFrame DEF GetPieces
<1>3. /\ dierr' \in BOOLEAN /\ (dierr => dierr') /\ (ends => Rest = 0 \/ dierr')
      /\ ~ends => ~(Rest = 0) /\ dierr' = dierr
  <2>1. dierr \in BOOLEAN
    BY DecodeFrame DEF DecTypes
  <2>. QED  BY <1>1, <2>1, EndTested
<1>4. /\ dpos \in 0 .. Len(file) /\ cur.got \in Nat /\ cur.olen \in Int
      /\ HeaderRead \/ dpos = Len(file)
      /\ (Rest = 0) = (dpos = Len(file)) /\ ~dierr
  BY <1>2, DecodeFrame DEF DecTypes, DecPlace, Rest
<1>5. dpc' \in {"decode", "more"}
  BY <1>1
<1>6. DecTypes'
  BY <1>2, <1>3, <1>5, DecodeFrame DEF DecTypes
<1>7. HeaderRead' = HeaderRead
  BY <1>2 DEF HeaderRead
<1>8. DecPlace'
  <2>1. CASE ends
    <3>1. dpc' = "decode" /\ (dpos = Len(file) \/ dierr')
      BY <1>1, <1>3, <1>4, <2>1 DEF DataRead
    <3>. QED  BY <1>2, <1>4, <1>7, <3>1 DEF DecPlace
  <2>2. CASE ~ends
    <3>1. dpos < Len(file) /\ ~dierr' /\ HeaderRead
      BY <1>2, <1>3, <1>4, <2>2
    <3>2. (dpc' = "decode" /\ cur.got >= cur.olen) \/ (dpc' = "more" /\ cur.got < cur.olen)
      BY <1>1, <1>4, <2>2 DEF DataRead
    <3>. QED  BY <1>2, <1>7, <3>1, <3>2 DEF DecPlace
  <2>. QED  BY <2>1, <2>2
<1>9. ASSUME Sound' PROVE DecTrip'
  <2>0. DecTrip
    BY <1>2, <1>3, <1>4, <1>9, SoundBefore
  <2>1. /\ Len(out) <= inSize /\ (\A i \in 1 .. Len(out) : out[i] = i)
        /\ HeaderRead /\ InBlock(dpos - cur.got - 4)
    BY <1>2, <2>0 DEF DecTrip
  <2>2. InBlock(dpos - cur.got - 4)'
    BY <1>2, <2>1 DEF InBlock
  <2>. QED  BY <1>2, <1>5, <1>7, <2>1, <2>2 DEF DecTrip
<1>. QED  BY <1>6, <1>8, <1>9, DecodeFrame DEF FileInv, DecInv

(* The data found are those of the chunk whose header has been read. *)
LEMMA MorePiecesInv ==
  ASSUME FileInv, epc = "end", MorePieces, UNCHANGED <<encodeVars, lost>>
  PROVE  FileInv'
<1>1. PICK n \in 0 .. cur.olen - cur.got :
        /\ n <= Rest /\ (n = 0 => Rest = 0)
        /\ dpos' = dpos + n
        /\ cur' = IF n = 0 THEN cur
                  ELSE [cur EXCEPT !.got = @ + n, !.whole = (cur.got + n = cur.olen),
                                   !.from = file[dpos + 1].from, !.to = file[dpos + 1].to]
        /\ filled' = Filled(cur.got + n)
  BY DEF MorePieces
<1>2. /\ dpc = "more" /\ UNCHANGED <<doerr, block, ooff, out, dcalls, dret>>
      /\ file' = file /\ inSize' = inSize /\ file \in Seq(Unit) /\ Len(file) \in Nat
  BY DecodeFrame DEF MorePieces
<1>3. \/ dpc' = "data" /\ dierr' = dierr
      \/ dpc' = "return" /\ dierr' = TRUE
  BY DEF MorePieces
<1>4. /\ dpos \in 0 .. Len(file) /\ dpos < Len(file) /\ ~dierr /\ cur.got < cur.olen /\ HeaderRead
      /\ cur \in [encpos : Int, rlen : Int, olen : Int, from : Nat, to : Nat, got : Nat, whole : BOOLEAN]
      /\ dret = "none" /\ doerr \in BOOLEAN /\ filled \in Nat
  BY <1>2, DecodeFrame DEF DecTypes, DecPlace
<1>5. PICK p \in Nat : p = dpos - cur.got
  <2>1. dpos - cur.got >= 4
    BY <1>4 DEF HeaderRead
  <2>2. dpos \in Nat /\ cur.got \in Nat
    BY <1>2, <1>4
  <2>3. dpos - cur.got \in Nat
    BY <2>1, <2>2
  <2>. QED  BY <2>3
<1>6. /\ p >= 4 /\ file[p - 3] = Continue
      /\ cur.encpos = file[p - 2].v /\ cur.rlen = Signed(file[p - 1].v)
      /\ file[p].kind = "olen" /\ cur.olen = file[p].v
  BY <1>4, <1>5 DEF HeaderRead
<1>a. cur.got \in Nat /\ cur.olen \in Int /\ dierr \in BOOLEAN
  BY <1>4, DecodeFrame DEF DecTypes
<1>7. n >= 1 /\ n \in Nat /\ dpos + n <= Len(file) /\ dpos = p + cur.got /\ cur.got + n <= cur.olen
  BY <1>1, <1>2, <1>4, <1>5, <1>a DEF Rest
<1>8. /\ file[dpos + 1].kind = "data" /\ file[dpos + n] = file[dpos + 1]
      /\ file[dpos + 1].from \in Nat /\ file[dpos + 1].to \in Nat
  <2>1. DataOK(file, p)
    BY <1>2, <1>4, <1>5, <1>6, DecodeFrame DEF StreamOK
  <2>2. ASSUME NEW i \in 1 .. cur.got + n
        PROVE  file[p + i].kind = "data" /\ file[p + i] = file[p + 1]
    <3>1. i \in 1 .. cur.olen
      BY <1>7, <1>a
    <3>2. p + i <= Len(file)
      BY <1>2, <1>7, <1>a
    <3>. QED  BY <1>6, <2>1, <3>1, <3>2 DEF DataOK
  <2>3. cur.got + 1 \in 1 .. cur.got + n /\ cur.got + n \in 1 .. cur.got + n
    BY <1>7, <1>a
  <2>5. p + (cur.got + 1) = dpos + 1 /\ p + (cur.got + n) = dpos + n
    BY <1>7, <1>a
  <2>4. file[dpos + 1].kind = "data" /\ file[dpos + n] = file[dpos + 1]
    BY <2>2, <2>3, <2>5
  <2>6. dpos + 1 \in 1 .. Len(file)
    BY <1>2, <1>4
  <2>. QED  BY <1>2, <2>4, <2>6, UnitFacts
<1>9. /\ cur' \in [encpos : Int, rlen : Int, olen : Int, from : Nat, to : Nat, got : Nat, whole : BOOLEAN]
      /\ cur'.encpos = cur.encpos /\ cur'.rlen = cur.rlen /\ cur'.olen = cur.olen
      /\ cur'.got = cur.got + n /\ cur'.whole = (cur.got + n = cur.olen)
      /\ cur'.from = file[dpos + 1].from /\ cur'.to = file[dpos + 1].to
  <2>1. cur' = [cur EXCEPT !.got = @ + n, !.whole = (cur.got + n = cur.olen),
                           !.from = file[dpos + 1].from, !.to = file[dpos + 1].to]
    BY <1>1, <1>7
  <2>2. cur.got + n \in Nat /\ (cur.got + n = cur.olen) \in BOOLEAN
    BY <1>4, <1>7
  <2>. QED  BY <1>4, <1>8, <2>1, <2>2
<1>10. DecTypes'
  <2>1. dpos' \in 0 .. Len(file)
    BY <1>1, <1>2, <1>4, <1>7
  <2>2. dpc' \in {"data", "return"}
    BY <1>3
  <2>3. dierr' \in BOOLEAN
    BY <1>3, <1>a
  <2>4. filled' \in Nat
    BY <1>1, <1>4, <1>7, <1>a DEF Filled
  <2>. QED  BY <1>2, <1>4, <1>9, <2>1, <2>2, <2>3, <2>4, DecodeFrame DEF DecTypes
<1>11. dpos' - cur'.got = p
  BY <1>1, <1>4, <1>7, <1>9
<1>12. HeaderRead'
  <2>1. cur'.got <= cur'.olen
    BY <1>7, <1>9
  <2>2. cur'.whole = (cur'.got = cur'.olen)
    BY <1>9
  <2>3. cur'.from = file[dpos'].from /\ cur'.to = file[dpos'].to
    BY <1>1, <1>8, <1>9
  <2>. QED  BY <1>2, <1>6, <1>9, <1>11, <2>1, <2>2, <2>3 DEF HeaderRead
<1>13. DecPlace'
  BY <1>3, <1>4, <1>12 DEF DecPlace
<1>14. ASSUME Sound' PROVE DecTrip'
  <2>0. DecTrip /\ ~dierr'
    <3>1. dpos <= dpos' /\ dpos' \in Int
      BY <1>1, <1>4
    <3>. QED  BY <1>3, <1>14, <3>1, SoundBefore
  <2>1. /\ Len(out) <= inSize /\ (\A i \in 1 .. Len(out) : out[i] = i) /\ InBlock(p - 4)
    BY <1>2, <1>4, <1>5, <2>0 DEF DecTrip
  <2>2. dpc' = "data"
    BY <1>3, <2>0
  <2>3. InBlock(dpos - cur.got - 4)'
    BY <1>2, <1>11, <2>1 DEF InBlock
  <2>. QED  BY <1>2, <1>12, <2>1, <2>2, <2>3 DEF DecTrip
<1>. QED  BY <1>10, <1>13, <1>14, DecodeFrame DEF FileInv, DecInv

(* The numbers behind c, m of them. *)
LEMMA CountedUp ==
  ASSUME NEW m \in Int, NEW c \in Nat
  PROVE  /\ [k \in 1 .. m |-> c + k] \in Seq(Nat)
         /\ m \in Nat => Len([k \in 1 .. m |-> c + k]) = m
<1>1. CASE m \in Nat
  BY <1>1
<1>2. CASE m \notin Nat
  <2>1. 1 .. m = 1 .. 0
    BY <1>2
  <2>2. [k \in 1 .. m |-> c + k] \in [1 .. 0 -> Nat]
    BY <2>1
  <2> DEFINE s == [k \in 1 .. m |-> c + k]
  <2> HIDE DEF s
  <2>. QED  BY <1>2, <2>2 DEF s
<1>. QED  BY <1>1, <1>2

(* A whole chunk gives the bytes that follow those decoded before it, and    *)
(* ends at the announced position.                                           *)
LEMMA DecodeChunkInv ==
  ASSUME FileInv, epc = "end", DecodeChunk, UNCHANGED <<encodeVars, lost>>
  PROVE  FileInv'
<1>2. /\ dpc = "decode" /\ UNCHANGED <<dpos, dierr, doerr, cur, filled, ooff, out, dcalls>>
      /\ file' = file /\ inSize' = inSize /\ file \in Seq(Unit) /\ Len(file) \in Nat
  BY DecodeFrame DEF DecodeChunk
<1>3. /\ dpos \in 0 .. Len(file) /\ block \in Seq(Nat) /\ Len(block) \in Nat
      /\ out \in Seq(Nat) /\ Len(out) \in Nat /\ dret = "none"
      /\ HeaderRead \/ dpos = Len(file)
      /\ dierr \/ dpos = Len(file) \/ cur.got >= cur.olen
  BY <1>2, DecodeFrame DEF DecTypes, DecPlace
<1>4. /\ cur.encpos \in Int /\ cur.rlen \in Int /\ cur.olen \in Int /\ cur.from \in Nat
      /\ cur.to \in Nat /\ cur.got \in Nat /\ cur.whole \in BOOLEAN
  BY DecodeFrame DEF DecTypes
<1>5. \E bytes \in Seq(Nat) :
        /\ \/ /\ Len(block) + Len(bytes) = cur.encpos
              /\ block' = block \o bytes /\ dpc' = "flag" /\ dret' = dret
           \/ /\ Len(block) + Len(bytes) # cur.encpos \/ Broken
              /\ block' = block /\ dpc' = "end" /\ dret' = "thrown"
        /\ cur.rlen <= 0 => Len(bytes) = 0
        /\ cur.rlen > 0 /\ cur.whole /\ cur.from <= cur.to =>
             Len(bytes) = cur.to - cur.from /\ \A k \in 1 .. Len(bytes) : bytes[k] = cur.from + k
  <2>1. CASE cur.rlen <= 0 /\ Accept(<<>>)
    <3>1. <<>> \in Seq(Nat) /\ Len(<<>>) = 0
      OBVIOUS
    <3>2. ~(cur.rlen > 0)
      BY <1>4, <2>1
    <3>. QED  BY <2>1, <3>1, <3>2 DEF Accept, Throw
  <2>2. CASE cur.rlen > 0 /\ cur.whole /\ Accept([k \in 1 .. cur.to - cur.from |-> cur.from + k])
    <3> DEFINE s == [k \in 1 .. cur.to - cur.from |-> cur.from + k]
    <3>1. s \in Seq(Nat)
      BY <1>4, CountedUp
    <3>2. cur.from <= cur.to => Len(s) = cur.to - cur.from /\ \A k \in 1 .. Len(s) : s[k] = cur.from + k
      <4>1. SUFFICES ASSUME cur.from <= cur.to
                     PROVE  Len(s) = cur.to - cur.from /\ \A k \in 1 .. Len(s) : s[k] = cur.from + k
        OBVIOUS
      <4>2. cur.to - cur.from \in Nat
        BY <1>4, <4>1
      <4>3. Len(s) = cur.to - cur.from
        BY <1>4, <4>2, CountedUp
      <4>. QED  BY <4>3
    <3>3. Accept(s) /\ ~(cur.rlen <= 0)
      BY <1>4, <2>2
    <3> HIDE DEF s
    <3>. QED  BY <3>1, <3>2, <3>3 DEF Accept, Throw
  <2>3. CASE /\ Broken /\ Len(block) < cur.encpos /\ cur.encpos <= BlockSizeIn
             /\ Accept([k \in 1 .. cur.encpos - Len(block) |-> Garbage])
    <3> DEFINE s == [k \in 1 .. cur.encpos - Len(block) |-> Garbage]
    <3>1. cur.encpos - Len(block) \in Nat /\ Garbage \in Nat
      BY <1>3, <1>4, <2>3 DEF Garbage
    <3>2. s \in Seq(Nat)
      BY <3>1
    <3>3. Accept(s) /\ ~(cur.rlen <= 0) /\ ~cur.whole
      BY <1>4, <2>3 DEF Broken
    <3> HIDE DEF s
    <3>. QED  BY <3>2, <3>3 DEF Accept, Throw
  <2>4. CASE Broken /\ Throw /\ UNCHANGED block
    <3>1. <<>> \in Seq(Nat) /\ Len(<<>>) = 0 /\ ~cur.whole
      BY <2>4 DEF Broken
    <3>. QED  BY <2>4, <3>1 DEF Throw
  <2>. QED  BY <2>1, <2>2, <2>3, <2>4 DEF DecodeChunk
<1>6. PICK bytes \in Seq(Nat) :
        /\ \/ /\ Len(block) + Len(bytes) = cur.encpos
              /\ block' = block \o bytes /\ dpc' = "flag" /\ dret' = dret
           \/ /\ Len(block) + Len(bytes) # cur.encpos \/ Broken
              /\ block' = block /\ dpc' = "end" /\ dret' = "thrown"
        /\ cur.rlen <= 0 => Len(bytes) = 0
        /\ cur.rlen > 0 /\ cur.whole /\ cur.from <= cur.to =>
             Len(bytes) = cur.to - cur.from /\ \A k \in 1 .. Len(bytes) : bytes[k] = cur.from + k
  BY <1>5
<1>7. PICK n \in Nat : n = Len(bytes)
  BY <1>6
<1>8. DecTypes'
  <2>1. block' \in Seq(Nat)
    <3>1. block \o bytes \in Seq(Nat)
      BY <1>3, <1>6, Joined
    <3>. QED  BY <1>3, <1>6, <3>1
  <2>2. dpc' \in {"flag", "end"} /\ dret' \in {"none", "thrown"} /\ (dpc' = "flag" => dret' = "none")
    BY <1>3, <1>6
  <2>. QED  BY <1>2, <2>1, <2>2, DecodeFrame DEF DecTypes
<1>9. dpc' \in {"flag", "end"}
  BY <1>6
<1>10. ASSUME HeaderRead, cur.got >= cur.olen
       PROVE  /\ dpos - cur.got \in 4 .. Len(file) /\ cur.got = cur.olen /\ cur.whole
              /\ file[dpos - cur.got].kind = "olen" /\ file[dpos - cur.got].v = cur.got
              /\ dpos < Len(file) => IsFlag(file[dpos + 1])
  <2>1. /\ dpos - cur.got \in 4 .. Len(file) /\ cur.got = cur.olen
        /\ file[dpos - cur.got].kind = "olen" /\ file[dpos - cur.got].v = cur.got
    <3>1. /\ dpos - cur.got >= 4 /\ cur.got <= cur.olen
          /\ file[dpos - cur.got].kind = "olen" /\ cur.olen = file[dpos - cur.got].v
      BY <1>10 DEF HeaderRead
    <3>2. cur.got = cur.olen
      BY <1>4, <1>10, <3>1
    <3>3. dpos - cur.got \in 4 .. Len(file)
      BY <1>2, <1>3, <1>4, <3>1
    <3>. QED  BY <3>1, <3>2, <3>3
  <2>2. cur.whole
    BY <1>4, <1>10, <2>1 DEF HeaderRead
  <2>3. DataOK(file, dpos - cur.got)
    BY <2>1, DecodeFrame DEF StreamOK
  <2>4. (dpos - cur.got) + file[dpos - cur.got].v + 1 = dpos + 1
    <3>1. (dpos - cur.got) + cur.got + 1 = dpos + 1
      BY <1>3, <1>4
    <3>. QED  BY <2>1, <3>1
  <2>5. dpos < Len(file) => dpos + 1 <= Len(file)
    BY <1>2, <1>3
  <2>. QED  BY <2>1, <2>2, <2>3, <2>4, <2>5 DEF DataOK
<1>11. DecPlace'
  <2>1. dierr \/ dpos = Len(file) \/ IsFlag(file[dpos + 1])
    BY <1>2, <1>3, <1>10
  <2>. QED  BY <1>2, <1>9, <2>1 DEF DecPlace
<1>12. ASSUME Sound' PROVE DecTrip'
  <2>0. DecTrip /\ ~dierr /\ (Perfect \/ dpos < Len(file))
    BY <1>2, <1>3, <1>12, SoundBefore
  <2>1. /\ Len(out) <= inSize /\ (\A i \in 1 .. Len(out) : out[i] = i)
        /\ HeaderRead /\ InBlock(dpos - cur.got - 4)
        /\ \/ Complete(file, Len(file)) /\ AtBlock(file, Len(file), inSize)
           \/ dpos < Len(file)
    BY <1>2, <2>0, DecodeFrame DEF DecTrip
  <2>2. PICK p \in Nat : p = dpos - cur.got
    <3>1. dpos - cur.got >= 4
      BY <2>1 DEF HeaderRead
    <3>2. dpos - cur.got \in Nat
      BY <1>3, <1>4, <3>1
    <3>. QED  BY <3>2
  <2>3. /\ p >= 4 /\ p <= Len(file) /\ dpos = p + cur.got /\ file[p - 3] = Continue
        /\ cur.encpos = file[p - 2].v /\ cur.rlen = Signed(file[p - 1].v)
        /\ file[p].kind = "olen" /\ cur.olen = file[p].v /\ cur.got <= cur.olen
    <3>1. /\ p >= 4 /\ file[p - 3] = Continue
          /\ cur.encpos = file[p - 2].v /\ cur.rlen = Signed(file[p - 1].v)
          /\ file[p].kind = "olen" /\ cur.olen = file[p].v /\ cur.got <= cur.olen
      BY <2>1, <2>2 DEF HeaderRead
    <3>2. p <= Len(file) /\ dpos = p + cur.got
      BY <1>2, <1>3, <1>4, <2>2
    <3>. QED  BY <3>1, <3>2
  <2>4. p \in 1 .. Len(file) /\ p - 3 \in 1 .. Len(file) /\ p - 4 \in 0 .. Len(file)
    <3>1. p >= 4 /\ p <= Len(file) /\ Len(file) \in Nat
      BY <1>2, <2>3
    <3>. QED  BY <3>1
  <2>5. NumberOK(file, p) /\ DataOK(file, p) /\ ChainOK(file, p - 3, inSize)
    BY <2>4, DecodeFrame DEF StreamOK
  <2>6. cur.olen >= 1 /\ cur.got >= cur.olen
    <3>1. cur.olen >= 1
      BY <2>3, <2>5, Sizes DEF NumberOK
    <3>2. p + cur.olen <= Len(file) \/ dpos < Len(file)
      BY <2>1, <2>3, <2>4 DEF Complete
    <3>3. dpos = Len(file) => cur.got >= cur.olen
      <4>1. dpos = p + cur.got
        BY <2>3
      <4>. QED  BY <1>2, <1>4, <3>2, <4>1
    <3>4. dpos = Len(file) \/ cur.got >= cur.olen
      BY <1>3, <2>0
    <3>. QED  BY <3>1, <3>3, <3>4
  <2>7. cur.got = cur.olen /\ cur.whole
    BY <1>10, <2>1, <2>6
  <2>8. /\ file[dpos].kind = "data" /\ file[dpos] = file[p + 1]
        /\ cur.from = file[p + 1].from /\ cur.to = file[p + 1].to
    <3>1. cur.got \in 1 .. file[p].v /\ p + cur.got = dpos /\ p + cur.got <= Len(file)
      BY <1>2, <1>3, <1>4, <2>3, <2>6, <2>7
    <3>2. file[dpos].kind = "data" /\ file[dpos] = file[p + 1]
      BY <2>3, <2>5, <3>1 DEF DataOK
    <3>3. cur.from = file[dpos].from /\ cur.to = file[dpos].to
      BY <1>4, <2>1, <2>6 DEF HeaderRead
    <3>. QED  BY <3>2, <3>3
  <2>9. /\ cur.from <= cur.to /\ cur.to <= inSize /\ (cur.rlen <= 0 => cur.from = cur.to)
        /\ AtFlag(file, p - 4, cur.from, cur.encpos - (cur.to - cur.from))
    <3>1. /\ (p - 3) + 4 = p + 1 /\ (p - 3) + 1 = p - 2 /\ (p - 3) + 2 = p - 1
          /\ (p - 3) - 1 = p - 4 /\ p + 1 <= Len(file)
      BY <1>2, <1>3, <1>4, <2>3, <2>6
    <3>. QED  BY <2>3, <2>5, <2>8, <3>1 DEF ChainOK
  <2>10. Len(out) + Len(block) = cur.from /\ Len(block) = cur.encpos - (cur.to - cur.from)
    <3> DEFINE m == p - 4
               c == Len(out) + Len(block)
               e == cur.encpos - (cur.to - cur.from)
    <3>1. AtFlag(file, m, c, Len(block)) /\ AtFlag(file, m, cur.from, e) /\ m \in 0 .. Len(file)
      BY <2>1, <2>2, <2>4, <2>9 DEF InBlock
    <3> HIDE DEF m, c, e
    <3>2. c = cur.from /\ Len(block) = e
      BY <3>1, OnePlace, DecodeFrame
    <3>. QED  BY <3>2 DEF c, e
  <2>11. n = cur.to - cur.from /\ n \in Nat
    <3>1. CASE cur.rlen <= 0
      BY <1>4, <1>6, <1>7, <2>9, <3>1
    <3>2. CASE ~(cur.rlen <= 0)
      BY <1>4, <1>6, <1>7, <2>7, <2>9, <3>2
    <3>. QED  BY <3>1, <3>2
  <2>12. Len(block) + n = cur.encpos
    <3>1. /\ cur.encpos \in Int /\ cur.to \in Int /\ cur.from \in Int
          /\ Len(block) = cur.encpos - (cur.to - cur.from) /\ n = cur.to - cur.from
      BY <1>4, <2>10, <2>11
    <3>. QED  BY <3>1
  <2>13. /\ block' = block \o bytes /\ dpc' = "flag"
         /\ Len(bytes) = n /\ \A k \in 1 .. n : bytes[k] = cur.from + k
    <3>1. \A k \in 1 .. n : bytes[k] = cur.from + k
      <4>1. CASE cur.rlen <= 0
        BY <1>6, <1>7, <4>1
      <4>2. CASE ~(cur.rlen <= 0)
        BY <1>4, <1>6, <1>7, <2>7, <2>9, <4>2
      <4>. QED  BY <4>1, <4>2
    <3>2. ~Broken
      BY <2>7 DEF Broken
    <3>. QED  BY <1>6, <1>7, <2>12, <3>1, <3>2
  <2>14. /\ Len(block') = cur.encpos /\ Len(out) + Len(block') = cur.to
         /\ \A i \in 1 .. Len(block') : block'[i] = Len(out) + i
    <3>1. /\ Len(block') = Len(block) + n
          /\ \A i \in 1 .. Len(block) : block'[i] = block[i]
          /\ \A i \in 1 .. n : block'[Len(block) + i] = bytes[i]
      <4> DEFINE joined == block \o bytes
      <4>1. /\ Len(joined) = Len(block) + Len(bytes)
            /\ \A i \in 1 .. Len(block) : joined[i] = block[i]
            /\ \A i \in 1 .. Len(bytes) : joined[Len(block) + i] = bytes[i]
        BY <1>3, <1>6, Joined
      <4>2. block' = joined /\ Len(bytes) = n
        BY <2>13
      <4> HIDE DEF joined
      <4>. QED  BY <4>1, <4>2
    <3>2. \A i \in 1 .. Len(block) : block[i] = Len(out) + i
      BY <2>1 DEF InBlock
    <3>3. ASSUME NEW i \in 1 .. Len(block') PROVE block'[i] = Len(out) + i
      <4>1. CASE i <= Len(block)
        BY <1>3, <3>1, <3>2, <4>1
      <4>2. CASE i > Len(block)
        <5>1. i - Len(block) \in 1 .. n /\ Len(block) + (i - Len(block)) = i
          BY <1>3, <2>11, <3>1, <4>2
        <5>2. block'[i] = cur.from + (i - Len(block))
          BY <2>13, <3>1, <5>1
        <5>. QED  BY <1>3, <1>4, <2>10, <3>1, <5>2
      <4>. QED  BY <1>3, <2>11, <3>1, <4>1, <4>2
    <3>4. Len(block') = cur.encpos
      BY <2>12, <3>1
    <3>5. Len(out) + Len(block') = cur.to
      <4>1. /\ Len(block') = Len(block) + n /\ Len(out) + Len(block) = cur.from
            /\ n = cur.to - cur.from
        BY <2>10, <2>11, <3>1
      <4>2. Len(out) \in Nat /\ Len(block) \in Nat /\ cur.from \in Nat /\ cur.to \in Nat
        BY <1>3, <1>4
      <4>. QED  BY <4>1, <4>2
    <3>. QED  BY <3>3, <3>4, <3>5
  <2>15. AtChunk(file, dpos, cur.to, cur.encpos)
    <3>1. p \in 3 .. dpos - 1 /\ p + file[p].v = dpos
      BY <1>3, <1>4, <2>3, <2>6, <2>7
    <3>. QED  BY <2>3, <2>8, <3>1 DEF AtChunk
  <2>16. InBlock(dpos)'
    <3>1. AtFlag(file, dpos, Len(out) + Len(block'), Len(block'))
      BY <2>14, <2>15 DEF AtFlag
    <3>. QED  BY <1>2, <2>14, <3>1 DEF InBlock
  <2>17. dpos < Len(file)
    <3>1. dpos # Len(file)
      BY <1>3, <2>1, <2>3, <2>8, UnitFacts DEF AtBlock
    <3>. QED  BY <1>2, <1>3, <3>1
  <2>. QED  BY <1>2, <2>1, <2>13, <2>16, <2>17 DEF DecTrip
<1>. QED  BY <1>8, <1>11, <1>12, DecodeFrame DEF FileInv, DecInv

(* Of a stream that is sound all of a chunk is there. *)
LEMMA SoundWhole ==
  ASSUME FileInv, Sound, dpc = "decode"
  PROVE  cur.whole
<1>1. /\ dpos \in 0 .. Len(file) /\ Len(file) \in Nat /\ cur.got \in Nat /\ cur.olen \in Int
      /\ DecTrip /\ ~dierr /\ (Perfect \/ dpos < Len(file))
      /\ Perfect => Complete(file, Len(file))
      /\ dierr \/ dpos = Len(file) \/ cur.got >= cur.olen
  BY DEF FileInv, DecInv, DecTypes, DecPlace, Sound, EncInv, StreamOK
<1>2. HeaderRead
  BY <1>1 DEF DecTrip
<1>3. /\ dpos - cur.got >= 4 /\ file[dpos - cur.got].kind = "olen"
      /\ cur.olen = file[dpos - cur.got].v /\ cur.got <= cur.olen
      /\ cur.whole = (cur.got = cur.olen)
  BY <1>2 DEF HeaderRead
<1>4. cur.got >= cur.olen
  <2>1. CASE dpos < Len(file)
    BY <1>1, <2>1
  <2>2. CASE ~(dpos < Len(file))
    <3>1. dpos - cur.got \in 1 .. Len(file)
      BY <1>1, <1>3
    <3>2. (dpos - cur.got) + cur.olen <= Len(file)
      BY <1>1, <1>3, <2>2, <3>1 DEF Complete
    <3>. QED  BY <1>1, <2>2, <3>2
  <2>. QED  BY <2>1, <2>2
<1>5. cur.got = cur.olen
  BY <1>1, <1>3, <1>4
<1>. QED  BY <1>3, <1>5

(* Decode goes astray in streams only that are cut, or read with an error. *)
LEMMA GoAstrayInv ==
  ASSUME FileInv, epc = "end", GoAstray, UNCHANGED <<encodeVars, lost>>
  PROVE  FileInv'
<1>1. /\ dpc = "decode" /\ dpc' = "astray" /\ ~cur.whole
      /\ UNCHANGED <<dpos, dierr, doerr, block, cur, filled, ooff, out, dcalls, dret>>
      /\ file' = file /\ Perfect' = Perfect
  BY DecodeFrame DEF GoAstray, Broken
<1>2. DecTypes'
  BY <1>1, DecodeFrame DEF DecTypes
<1>3. DecPlace'
  BY <1>1 DEF DecPlace
<1>4. ~(Sound')
  BY <1>1, SoundWhole DEF Sound
<1>. QED  BY <1>2, <1>3, <1>4, DecodeFrame DEF FileInv, DecInv

(* What is written out is what follows in the block. *)
LEMMA PutDataInv ==
  ASSUME FileInv, epc = "end", PutData, UNCHANGED <<encodeVars, lost>>
  PROVE  FileInv'
<1>1. PICK n \in 0 .. Len(block) - ooff :
        /\ out' = out \o Written(n)
        /\ ooff' = ooff + n
        /\ \/ n > 0 /\ UNCHANGED <<doerr, dpc>>
           \/ doerr' = TRUE /\ dpc' = "return"
  BY DEF PutData
<1>2. /\ dpc = "output" /\ ooff < Len(block) /\ UNCHANGED <<dpos, dierr, block, cur, filled, dcalls, dret>>
      /\ file' = file /\ inSize' = inSize
  BY DecodeFrame DEF PutData
<1>3. /\ out \in Seq(Nat) /\ block \in Seq(Nat) /\ ooff \in Nat /\ Len(block) \in Nat
      /\ Len(out) \in Nat /\ doerr \in BOOLEAN /\ n \in Nat /\ ooff + n <= Len(block)
  <2>1. out \in Seq(Nat) /\ block \in Seq(Nat) /\ ooff \in Nat /\ doerr \in BOOLEAN
    BY DecodeFrame DEF DecTypes
  <2>2. Len(block) \in Nat /\ Len(out) \in Nat
    BY <2>1
  <2>3. n \in Nat /\ ooff + n <= Len(block)
    BY <1>2, <2>1, <2>2
  <2>. QED  BY <2>1, <2>2, <2>3
<1>4. /\ Written(n) \in Seq(Nat) /\ Len(Written(n)) = n
      /\ \A i \in 1 .. n : Written(n)[i] = block[ooff + i]
  BY <1>3 DEF Written
<1>5. /\ out' \in Seq(Nat) /\ Len(out') = Len(out) + n
      /\ \A i \in 1 .. Len(out) : out'[i] = out[i]
      /\ \A i \in 1 .. n : out'[Len(out) + i] = block[ooff + i]
  <2> DEFINE part == Written(n)
             joined == out \o part
  <2>1. /\ part \in Seq(Nat) /\ Len(part) = n
        /\ \A i \in 1 .. n : part[i] = block[ooff + i]
        /\ out' = joined
    BY <1>1, <1>4
  <2> HIDE DEF part
  <2>2. /\ joined \in Seq(Nat) /\ Len(joined) = Len(out) + Len(part)
        /\ \A i \in 1 .. Len(out) : joined[i] = out[i]
        /\ \A i \in 1 .. Len(part) : joined[Len(out) + i] = part[i]
    <3>1. out \in Seq(Nat) /\ part \in Seq(Nat)
      BY <1>3, <2>1
    <3>. QED  BY <3>1, Joined
  <2> HIDE DEF joined
  <2>. QED  BY <2>1, <2>2
<1>6. \/ n > 0 /\ doerr' = doerr /\ dpc' = "output"
      \/ doerr' = TRUE /\ dpc' = "return"
  BY <1>1, <1>2
<1>7. doerr' \in BOOLEAN
  BY <1>3, <1>6
<1>8. dpc' \in {"output", "return"}
  BY <1>6
<1>9. DecTypes'
  <2>1. ooff' \in Nat /\ ooff' <= Len(block)
    BY <1>1, <1>3
  <2>. QED  BY <1>2, <1>5, <1>7, <1>8, <2>1, DecodeFrame DEF DecTypes
<1>10. DecPlace'
  <2>1. dierr \/ dpos = Len(file) \/ IsFlag(file[dpos + 1])
    BY <1>2, DecodeFrame DEF DecPlace
  <2>. QED  BY <1>2, <1>8, <2>1 DEF DecPlace
<1>11. ASSUME Sound' PROVE DecTrip'
  <2>0. DecTrip
    <3>1. dpos \in Int
      BY DecodeFrame DEF DecTypes
    <3>. QED  BY <1>2, <1>11, <3>1, SoundBefore
  <2>1. /\ Len(out) <= inSize /\ (\A i \in 1 .. Len(out) : out[i] = i)
        /\ ooff <= Len(out)
        /\ \A i \in 1 .. Len(block) : block[i] = Len(out) - ooff + i
        /\ AtBlock(file, dpos, Len(out) - ooff + Len(block))
        /\ Len(out) - ooff + Len(block) <= inSize
    BY <1>2, <2>0 DEF DecTrip
  <2>2. Len(out') - ooff' = Len(out) - ooff
    BY <1>1, <1>3, <1>5
  <2>3. Len(out') <= inSize /\ ooff' <= Len(out')
    BY <1>1, <1>3, <1>5, <2>1, DecodeFrame
  <2>4. ASSUME NEW i \in 1 .. Len(out') PROVE out'[i] = i
    <3>1. CASE i <= Len(out)
      BY <1>3, <1>5, <2>1, <3>1
    <3>2. CASE i > Len(out)
      <4>1. i - Len(out) \in 1 .. n /\ Len(out) + (i - Len(out)) = i
        BY <1>3, <1>5, <3>2
      <4>2. out'[i] = block[ooff + (i - Len(out))] /\ ooff + (i - Len(out)) \in 1 .. Len(block)
        <5>1. out'[Len(out) + (i - Len(out))] = block[ooff + (i - Len(out))]
          BY <1>5, <4>1
        <5>2. ooff + (i - Len(out)) \in 1 .. Len(block)
          BY <1>3, <4>1
        <5>. QED  BY <4>1, <5>1, <5>2
      <4>3. block[ooff + (i - Len(out))] = Len(out) - ooff + (ooff + (i - Len(out)))
        BY <2>1, <4>2
      <4>. QED  BY <1>3, <4>2, <4>3
    <3>. QED  BY <1>3, <1>5, <3>1, <3>2
  <2>5. dpc' = "return" => doerr'
    BY <1>6
  <2> DEFINE base == Len(out) - ooff
  <2>6. /\ Len(out') - ooff' = base /\ (\A i \in 1 .. Len(block) : block[i] = base + i)
        /\ AtBlock(file, dpos, base + Len(block)) /\ base + Len(block) <= inSize
    BY <2>1, <2>2
  <2> HIDE DEF base
  <2>. QED  BY <1>2, <1>8, <2>3, <2>4, <2>5, <2>6 DEF DecTrip
<1>. QED  BY <1>9, <1>10, <1>11, DecodeFrame DEF FileInv, DecInv

(* A block written out brings Decode to the beginning of the next. *)
LEMMA ProcessDecodedInv ==
  ASSUME FileInv, epc = "end", ProcessDecoded, UNCHANGED <<encodeVars, lost>>
  PROVE  FileInv'
<1>1. /\ dpc = "output" /\ ooff = Len(block) /\ dpc' = "block"
      /\ UNCHANGED <<dpos, dierr, doerr, block, cur, filled, ooff, out, dret>>
      /\ file' = file /\ inSize' = inSize
  BY DecodeFrame DEF ProcessDecoded
<1>2. DecTypes'
  BY <1>1, DecodeFrame DEF DecTypes
<1>3. DecPlace'
  <2>1. dierr \/ dpos = Len(file) \/ IsFlag(file[dpos + 1])
    BY <1>1, DecodeFrame DEF DecPlace
  <2>. QED  BY <1>1, <2>1 DEF DecPlace
<1>4. ASSUME Sound' PROVE DecTrip'
  <2>0. DecTrip
    <3>1. dpos \in Int
      BY DecodeFrame DEF DecTypes
    <3>. QED  BY <1>1, <1>4, <3>1, SoundBefore
  <2>1. /\ Len(out) <= inSize /\ (\A i \in 1 .. Len(out) : out[i] = i)
        /\ AtBlock(file, dpos, Len(out) - ooff + Len(block))
    BY <1>1, <2>0 DEF DecTrip
  <2>2. Len(out) - ooff + Len(block) = Len(out)
    BY <1>1, DecodeFrame DEF DecTypes
  <2>3. AtBlock(file, dpos, Len(out))
    BY <2>1, <2>2
  <2>. QED  BY <1>1, <2>1, <2>3 DEF DecTrip
<1>. QED  BY <1>2, <1>3, <1>4, DecodeFrame DEF FileInv, DecInv

(* Decode returns 0 when all of the input has been written. *)
LEMMA ReturnDecodeInv ==
  ASSUME FileInv, epc = "end", ReturnDecode, UNCHANGED <<encodeVars, lost>>
  PROVE  FileInv'
<1>1. /\ dpc = "return" /\ dpc' = "end"
      /\ UNCHANGED <<dpos, dierr, doerr, block, cur, filled, ooff, out>>
      /\ file' = file /\ inSize' = inSize
  BY DecodeFrame DEF ReturnDecode
<1>2. dret' \in {"ok", "error"} /\ (dret' = "ok" => ~dierr /\ ~doerr)
  BY DEF ReturnDecode
<1>3. DecTypes'
  <2>1. dret' = "ok" => ~dierr' /\ ~doerr'
    BY <1>1, <1>2
  <2>. QED  BY <1>1, <1>2, <2>1, DecodeFrame DEF DecTypes
<1>4. DecPlace'
  BY <1>1 DEF DecPlace
<1>5. ASSUME Sound' PROVE DecTrip'
  <2>0. DecTrip
    <3>1. dpos \in Int
      BY DecodeFrame DEF DecTypes
    <3>. QED  BY <1>1, <1>5, <3>1, SoundBefore
  <2>1. /\ Len(out) <= inSize /\ (\A i \in 1 .. Len(out) : out[i] = i)
        /\ doerr \/ Len(out) = inSize
    BY <1>1, <2>0 DEF DecTrip
  <2>2. dret' # "thrown" /\ (dret' = "ok" => Len(out) = inSize)
    BY <1>2, <2>1
  <2>. QED  BY <1>1, <2>1, <2>2 DEF DecTrip
<1>. QED  BY <1>3, <1>4, <1>5, DecodeFrame DEF FileInv, DecInv

(***************************************************************************)
(* The two together.                                                       *)
(***************************************************************************)

(* Before Decode starts the stream may change. *)
LEMMA NotStarted ==
  ASSUME FileInv, dpc = "start", EncInv', UNCHANGED decodeVars
  PROVE  FileInv'
<1>1. /\ dpc' = "start" /\ dpos' = 0 /\ out' = <<>> /\ Len(file') \in Nat /\ inSize' \in Nat
      /\ UNCHANGED <<dpos, dierr, doerr, block, cur, filled, ooff, out, dret>>
  BY DEF FileInv, DecInv, DecTypes, decodeVars, EncInv, EncTypes, StreamOK
<1>2. DecTypes'
  BY <1>1 DEF FileInv, DecInv, DecTypes
<1>3. DecPlace'
  BY <1>1 DEF DecPlace
<1>4. DecTrip'
  BY <1>1 DEF DecTrip
<1>. QED  BY <1>1, <1>2, <1>3, <1>4 DEF FileInv, DecInv

(* A step of Encode keeps the invariant. *)
LEMMA EncodeKeeps == ASSUME FileInv, Encode PROVE FileInv'
<1>1. EncInv /\ EncodeNext /\ UNCHANGED lost /\ epc # "end" /\ UNCHANGED decodeVars
  BY DEF FileInv, Encode
<1>2. EncInv'
  BY <1>1, StartEncodeInv, BeginBlockInv, TestReadInv, GetDataInv, PutContinueInv, EncodeChunkInv,
     ThrowInChunkInv, PutHeaderInv, PutPiecesInv, PutStopInv, ProcessEncodedInv, ReturnEncodeInv
     DEF EncodeNext
<1>3. dpc = "start"
  BY <1>1 DEF FileInv, DecInv
<1>. QED  BY <1>1, <1>2, <1>3, NotStarted

(* What is left of a stream is a stream. *)
LEMMA LoseTailKeeps == ASSUME FileInv, LoseTail PROVE FileInv'
<1>1. /\ epc = "end" /\ dpc = "start" /\ lost' = TRUE /\ UNCHANGED decodeVars
      /\ UNCHANGED <<inSize, userLevel, inpos, eierr, eoerr, ilen, encpos, level, chunk, eoff, eret, epc>>
  BY DEF LoseTail
<1>2. EncTypes /\ StreamOK(file, inSize) /\ file \in Seq(Unit)
  BY DEF FileInv, EncInv, StreamOK
<1>3. PICK k \in 0 .. Len(file) - 1 : file' = SubSeq(file, 1, k)
  BY DEF LoseTail
<1>4. /\ file' \in Seq(Unit) /\ Len(file') <= Len(file)
      /\ \A i \in 1 .. Len(file') : file'[i] = file[i]
  BY <1>2, <1>3
<1>5. StreamOK(file', inSize')
  BY <1>1, <1>2, <1>4, StreamCut
<1>6. EncTypes'
  BY <1>1, <1>2 DEF EncTypes
<1>7. EncPlace'
  BY <1>1 DEF EncPlace
<1>8. EncInv'
  BY <1>1, <1>5, <1>6, <1>7 DEF EncInv, Perfect
<1>. QED  BY <1>1, <1>8, NotStarted

(* A step of Decode keeps the invariant. *)
LEMMA DecodeKeeps == ASSUME FileInv, Decode PROVE FileInv'
BY StartDecodeInv, BeginDecodeBlockInv, GetFlagInv, GetHeaderInv, GetPiecesInv, MorePiecesInv,
   DecodeChunkInv, GoAstrayInv, PutDataInv, ProcessDecodedInv, ReturnDecodeInv
   DEF Decode, DecodeNext

(* FileInv is an invariant, whatever fails and wherever the stream is cut. *)
THEOREM Invariance == Spec => []FileInv
<1>1. FileInv /\ [Next]_vars => FileInv'
  <2>1. SUFFICES ASSUME FileInv, [Next]_vars PROVE FileInv'
    OBVIOUS
  <2>2. ASSUME UNCHANGED vars PROVE FileInv'
    <3>1. UNCHANGED <<encodeVars, lost>> /\ UNCHANGED decodeVars
      BY <2>2 DEF vars
    <3>2. EncInv'
      BY <2>1, <3>1 DEF FileInv, encodeVars, EncInv, EncTypes, EncPlace, Perfect, CodedBytes,
                        ChunkOK, BeforeChunk, InData
    <3>3. DecInv'
      BY <2>1, <3>1 DEF FileInv, encodeVars, decodeVars, DecInv, DecTypes, DecPlace, DecTrip,
                        HeaderRead, InBlock, Sound, Perfect
    <3>. QED  BY <3>2, <3>3 DEF FileInv
  <2>. QED  BY <2>1, <2>2, EncodeKeeps, LoseTailKeeps, DecodeKeeps DEF Next, Terminating
<1>. QED  BY InitInv, <1>1, PTL DEF Spec

(* Of a header that has been read whole the numbers are those written. *)
LEMMA HeaderThere ==
  ASSUME FileInv, dpc \in {"data", "more", "decode"}, HeaderRead
  PROVE  HeaderOfData
<1>1. PICK p : p = dpos - cur.got
  OBVIOUS
<1>2. /\ p >= 4 /\ file[p - 3] = Continue
      /\ cur.encpos = file[p - 2].v /\ cur.rlen = Signed(file[p - 1].v)
      /\ file[p].kind = "olen" /\ cur.olen = file[p].v
  BY <1>1 DEF HeaderRead
<1>3. /\ p \in 4 .. Len(file) /\ Len(file) \in Nat /\ file \in Seq(Unit) /\ StreamOK(file, inSize)
  <2>1. /\ dpos \in 0 .. Len(file) /\ cur.got \in Nat /\ StreamOK(file, inSize) /\ file \in Seq(Unit)
    BY DEF FileInv, EncInv, DecInv, DecTypes, StreamOK
  <2>. QED  BY <1>1, <1>2, <2>1
<1>4. file[p - 2].kind = "encpos"
  <2>1. p - 3 \in 1 .. Len(file) /\ 1 \in 1 .. 3 /\ (p - 3) + 1 <= Len(file) /\ (p - 3) + 1 = p - 2
    BY <1>3
  <2>2. ContinueOK(file, p - 3)
    BY <1>3, <2>1 DEF StreamOK
  <2>3. file[(p - 3) + 1].kind = HeaderKind[1]
    BY <1>2, <2>1, <2>2 DEF ContinueOK
  <2>. QED  BY <2>1, <2>3 DEF HeaderKind
<1>5. file[p - 2].v \in 0 .. BlockSizeIn /\ file[p].v \in DistanceByte .. BlockSizeHuffman
  <2>1. NumberOK(file, p - 2) /\ NumberOK(file, p)
    BY <1>3 DEF StreamOK
  <2>. QED  BY <1>2, <1>4, <2>1 DEF NumberOK
<1>6. Signed(file[p - 2].v) = file[p - 2].v /\ Signed(file[p].v) = file[p].v
  <2>1. /\ file[p - 2].v \in Nat /\ file[p - 2].v < IntRange \div 2
        /\ file[p].v \in Nat /\ file[p].v < IntRange \div 2
    BY <1>5, Sizes
  <2>. QED  BY <2>1, NumberRead
<1>. QED  BY <1>1, <1>2, <1>6 DEF HeaderOfData

(* Decode reads each unit as what it was written for until it meets a read   *)
(* error, and after one it decodes no data but those of the header before    *)
(* them; even of a stream that Encode could not finish or of which some has  *)
(* been lost.                                                                *)
THEOREM DecoderAlignedHolds == Spec => []DecoderAligned
<1>1. FileInv => DecoderAligned
  <2>1. SUFFICES ASSUME FileInv PROVE DecoderAligned
    OBVIOUS
  <2>2. /\ StreamOK(file, inSize) /\ file \in Seq(Unit) /\ Len(file) \in Nat /\ dpos \in 0 .. Len(file)
        /\ DecPlace /\ cur.got \in Nat /\ cur.olen \in Int
    BY <2>1 DEF FileInv, EncInv, DecInv, DecTypes, StreamOK
  <2>3. ASSUME dpc = "header", ~dierr, NEW k \in 1 .. 3, k <= Rest
        PROVE  file[dpos + k].kind = <<"encpos", "rlen", "olen">>[k]
    <3>1. dpos \in 1 .. Len(file) /\ file[dpos] = Continue /\ dpos + k <= Len(file)
      BY <2>2, <2>3 DEF DecPlace, Rest
    <3>2. ContinueOK(file, dpos)
      BY <2>2, <3>1 DEF StreamOK
    <3>. QED  BY <3>1, <3>2 DEF ContinueOK, HeaderKind
  <2>4. ASSUME dpc = "more" PROVE ~dierr /\ Rest > 0 /\ file[dpos + 1].kind = "data"
    <3>1. ~dierr /\ dpos < Len(file) /\ cur.got < cur.olen /\ HeaderRead
      BY <2>2, <2>4 DEF DecPlace
    <3>2. PICK p : p = dpos - cur.got
      OBVIOUS
    <3>3. p >= 4 /\ file[p].kind = "olen" /\ cur.olen = file[p].v
      BY <3>1, <3>2 DEF HeaderRead
    <3>4. /\ p \in 1 .. Len(file) /\ cur.got + 1 \in 1 .. cur.olen
          /\ p + (cur.got + 1) = dpos + 1 /\ dpos + 1 <= Len(file)
      BY <2>2, <3>1, <3>2, <3>3
    <3>5. DataOK(file, p)
      BY <2>2, <3>4 DEF StreamOK
    <3>6. file[dpos + 1].kind = "data"
      BY <3>3, <3>4, <3>5 DEF DataOK
    <3>. QED  BY <2>2, <3>1, <3>6 DEF Rest
  <2>5. ASSUME dpc \in {"block", "first", "flag"}, Rest > 0, ~dierr
        PROVE  file[dpos + 1].kind = "flag"
    <3>1. dpos # Len(file)
      BY <2>2, <2>5 DEF Rest
    <3>. QED  BY <2>2, <2>5, <3>1, UnitFacts DEF DecPlace, IsFlag
  <2>6. ASSUME dpc \in {"data", "more", "decode"}, Rest > 0 PROVE HeaderOfData
    <3>1. dpos # Len(file)
      BY <2>2, <2>6 DEF Rest
    <3>2. HeaderRead
      BY <2>2, <2>6, <3>1 DEF DecPlace
    <3>. QED  BY <2>1, <2>6, <3>2, HeaderThere
  <2>. QED  BY <2>3, <2>4, <2>5, <2>6 DEF DecoderAligned
<1>. QED  BY Invariance, <1>1, PTL

(* If Encode returned 0 and nothing got lost, Decode gives back the input. *)
THEOREM FileRoundTripHolds == Spec => []FileRoundTrip
<1>1. FileInv => FileRoundTrip
  <2>1. SUFFICES ASSUME FileInv, dpc = "end", eret = "ok", ~lost
                 PROVE  /\ ~dierr => Len(out) <= inSize /\ out = SubSeq(Input, 1, Len(out))
                        /\ dret = "ok" => out = Input
                        /\ dret = "thrown" /\ ~dierr => dpos = 0
    BY DEF FileRoundTrip
  <2>2. /\ inSize \in Nat /\ out \in Seq(Nat) /\ Len(out) \in Nat
        /\ (~dierr => DecTrip) /\ (dret = "ok" => ~dierr)
    BY <2>1 DEF FileInv, EncInv, EncTypes, DecInv, DecTypes, Sound, Perfect
  <2>3. Input \in Seq(Nat) /\ Len(Input) = inSize /\ \A i \in 1 .. inSize : Input[i] = i
    BY <2>2 DEF Input
  <2>4. ASSUME ~dierr
        PROVE  /\ Len(out) <= inSize /\ out = SubSeq(Input, 1, Len(out))
               /\ Len(out) = inSize => out = Input
    <3>1. Len(out) <= inSize /\ \A i \in 1 .. Len(out) : out[i] = i
      BY <2>2, <2>4 DEF DecTrip
    <3> DEFINE begin == SubSeq(Input, 1, Len(out))
    <3>2. /\ begin \in Seq(Nat) /\ Len(begin) = Len(out)
          /\ \A i \in 1 .. Len(out) : begin[i] = Input[i]
      BY <2>2, <2>3, <3>1
    <3>3. out = begin
      <4> HIDE DEF begin
      <4>1. ASSUME NEW i \in 1 .. Len(out) PROVE out[i] = begin[i]
        <5>1. i \in 1 .. inSize
          BY <2>2, <3>1
        <5>. QED  BY <2>3, <3>1, <3>2, <5>1
      <4>2. /\ out \in Seq(Nat) /\ begin \in Seq(Nat) /\ Len(begin) = Len(out)
            /\ \A i \in 1 .. Len(out) : out[i] = begin[i]
        BY <2>2, <3>2, <4>1
      <4>. QED  BY <4>2
    <3>4. Len(out) = inSize => out = Input
      BY <2>2, <2>3, <3>1
    <3>. QED  BY <3>1, <3>3, <3>4
  <2>. QED  BY <2>1, <2>2, <2>4 DEF DecTrip
<1>. QED  BY Invariance, <1>1, PTL

(***************************************************************************)
(* The order of the data.                                                  *)
(***************************************************************************)

(* Whether data go on from the data before depends on these alone. *)
LEMMA SameGoesOn ==
  ASSUME NEW f, NEW g, NEW j \in Nat \ {0}, \A i \in 1 .. j : g[i] = f[i], GoesOn(f, j)
  PROVE  GoesOn(g, j)
<1>1. CASE f[j].from = 0 /\ \A i \in 1 .. j - 1 : f[i].kind # "data"
  <2>1. g[j] = f[j]
    OBVIOUS
  <2>2. \A i \in 1 .. j - 1 : g[i] = f[i]
    OBVIOUS
  <2>. QED  BY <1>1, <2>1, <2>2 DEF GoesOn
<1>2. CASE \E i \in 1 .. j - 1 :
             NextOfKind(f, "data", i, j) /\ (f[j] = f[i] \/ f[j].from = f[i].to)
  <2>1. PICK i \in 1 .. j - 1 :
          NextOfKind(f, "data", i, j) /\ (f[j] = f[i] \/ f[j].from = f[i].to)
    BY <1>2
  <2>2. g[j] = f[j] /\ g[i] = f[i] /\ \A k \in i + 1 .. j - 1 : g[k] = f[k]
    OBVIOUS
  <2>. QED  BY <2>1, <2>2 DEF GoesOn, NextOfKind
<1>. QED  BY <1>1, <1>2 DEF GoesOn

(* A stream cut anywhere stays in order. *)
LEMMA OrderCut ==
  ASSUME NEW f \in Seq(Unit), NEW g \in Seq(Unit), NEW c, Ordered(f, c),
         Len(g) <= Len(f), \A i \in 1 .. Len(g) : g[i] = f[i]
  PROVE  Ordered(g, c)
<1>1. SUFFICES ASSUME NEW j \in 1 .. Len(g), g[j].kind = "data"
               PROVE  g[j].to <= c /\ GoesOn(g, j)
  BY DEF Ordered
<1>2. j \in 1 .. Len(f) /\ g[j] = f[j] /\ \A i \in 1 .. j - 1 : g[i] = f[i]
  OBVIOUS
<1>3. f[j].to <= c /\ GoesOn(f, j)
  BY <1>1, <1>2 DEF Ordered
<1>4. GoesOn(g, j)
  <2>1. j \in Nat \ {0} /\ \A i \in 1 .. j : g[i] = f[i]
    BY <1>2
  <2>. QED  BY <1>3, <2>1, SameGoesOn
<1>. QED  BY <1>2, <1>3, <1>4

(* A stream that grows stays in order if what is new goes on from the rest. *)
LEMMA OrderGrown ==
  ASSUME NEW f \in Seq(Unit), NEW g \in Seq(Unit), NEW c \in Nat, NEW d \in Nat, c <= d,
         Ordered(f, c), Len(f) <= Len(g), \A i \in 1 .. Len(f) : g[i] = f[i],
         \A j \in Len(f) + 1 .. Len(g) : g[j].kind = "data" => g[j].to <= d /\ GoesOn(g, j)
  PROVE  Ordered(g, d)
<1>1. SUFFICES ASSUME NEW j \in 1 .. Len(g), g[j].kind = "data"
               PROVE  g[j].to <= d /\ GoesOn(g, j)
  BY DEF Ordered
<1>2. CASE j > Len(f)
  <2>1. j \in Len(f) + 1 .. Len(g)
    BY <1>2
  <2>. QED  BY <1>1, <2>1
<1>3. CASE j <= Len(f)
  <2>1. j \in 1 .. Len(f) /\ g[j] = f[j] /\ \A i \in 1 .. j - 1 : g[i] = f[i]
    BY <1>3
  <2>2. f[j].to <= c /\ GoesOn(f, j)
    BY <1>1, <2>1 DEF Ordered
  <2>3. GoesOn(g, j)
    <3>1. j \in Nat \ {0} /\ \A i \in 1 .. j : g[i] = f[i]
      BY <2>1
    <3>. QED  BY <2>2, <3>1, SameGoesOn
  <2>4. f[j].to \in Nat
    BY <1>1, <2>1, UnitFacts
  <2>. QED  BY <2>1, <2>2, <2>3, <2>4
<1>. QED  BY <1>2, <1>3

(* What Put leaves of units that are in order is in order. *)
LEMMA OrderPut ==
  ASSUME NEW units \in Seq(Unit), NEW next, NEW c, file \in Seq(Unit),
         Ordered(file \o units, c), Put(units, next)
  PROVE  file' \in Seq(Unit) /\ Ordered(file', c)
<1> DEFINE f == file \o units
<1>1. f \in Seq(Unit) /\ Len(f) = Len(file) + Len(units)
  OBVIOUS
<1>2. CASE file' = f
  BY <1>1, <1>2
<1>3. CASE \E k \in 0 .. Len(units) - 1 : file' = file \o SubSeq(units, 1, k)
  <2>1. PICK k \in 0 .. Len(units) - 1 : file' = file \o SubSeq(units, 1, k)
    BY <1>3
  <2>2. /\ SubSeq(units, 1, k) \in Seq(Unit) /\ Len(SubSeq(units, 1, k)) = k
        /\ \A i \in 1 .. k : SubSeq(units, 1, k)[i] = units[i]
    OBVIOUS
  <2>3. file' \in Seq(Unit) /\ Len(file') = Len(file) + k /\ Len(file') <= Len(f)
    BY <1>1, <2>1, <2>2
  <2>4. \A i \in 1 .. Len(file') : file'[i] = f[i]
    BY <2>1, <2>2, <2>3
  <2> HIDE DEF f
  <2>. QED  BY <1>1, <2>3, <2>4, OrderCut DEF f
<1>. QED  BY <1>2, <1>3 DEF Put

(* Flags and numbers are no data. *)
LEMMA OrderOther ==
  ASSUME NEW units \in Seq(Unit), NEW next, file \in Seq(Unit), inpos \in Nat, inpos' = inpos,
         StreamInOrder, \A i \in 1 .. Len(units) : units[i].kind # "data", Put(units, next)
  PROVE  StreamInOrder'
<1> DEFINE g == file \o units
<1>1. /\ g \in Seq(Unit) /\ Len(g) = Len(file) + Len(units)
      /\ \A i \in 1 .. Len(file) : g[i] = file[i]
      /\ \A i \in 1 .. Len(units) : g[Len(file) + i] = units[i]
  BY Joined
<1>2. Ordered(file, inpos)
  BY DEF StreamInOrder, Ordered, GoesOn
<1> HIDE DEF g
<1>3. ASSUME NEW j \in Len(file) + 1 .. Len(g) PROVE g[j].kind # "data"
  <2>1. j - Len(file) \in 1 .. Len(units) /\ Len(file) + (j - Len(file)) = j
    BY <1>1
  <2>. QED  BY <1>1, <2>1
<1>4. Ordered(g, inpos)
  <2>1. Len(file) <= Len(g)
    BY <1>1
  <2>. QED  BY <1>1, <1>2, <1>3, <2>1, OrderGrown
<1>5. Ordered(file', inpos)
  BY <1>4, OrderPut DEF g
<1>. QED  BY <1>5 DEF StreamInOrder, Ordered, GoesOn

(* A chunk's data begin where the data before it end. *)
LEMMA PieceGoesOn ==
  ASSUME EncInv, epc = "data", NEW n \in Nat \ {0}, NEW g \in Seq(Unit), Len(g) = Len(file) + n,
         \A i \in 1 .. Len(file) : g[i] = file[i],
         \A i \in 1 .. n : g[Len(file) + i] = Piece(chunk.from, chunk.to),
         NEW i \in 1 .. n
  PROVE  GoesOn(g, Len(file) + i)
<1>1. /\ file \in Seq(Unit) /\ Len(file) \in Nat /\ eoff \in Nat /\ ChunkOK /\ InData
      /\ chunk.from \in Nat /\ chunk.to \in Nat
  BY DEF EncInv, EncTypes, EncPlace, StreamOK
<1>2. Piece(chunk.from, chunk.to).kind = "data" /\ Piece(chunk.from, chunk.to).from = chunk.from
  BY DEF Piece
<1>3. CASE i > 1
  <2>1. i - 1 \in 1 .. n /\ Len(file) + i - 1 = Len(file) + (i - 1)
    BY <1>3
  <2>2. g[Len(file) + i] = g[Len(file) + i - 1] /\ g[Len(file) + i].kind = "data"
    BY <1>2, <2>1
  <2>3. Len(file) + i - 1 \in 1 .. Len(file) + i - 1
    BY <1>1, <1>3
  <2>4. NextOfKind(g, "data", Len(file) + i - 1, Len(file) + i)
    BY <1>1, <2>2 DEF NextOfKind
  <2>. QED  BY <2>2, <2>3, <2>4 DEF GoesOn
<1>4. CASE i = 1
  <2> DEFINE p == Piece(chunk.from, chunk.to)
             L == Len(file)
             m == L - eoff - 4
  <2>1. g[L + 1] = p /\ p.kind = "data" /\ p.from = chunk.from /\ L \in Nat
    BY <1>1, <1>2, <1>4
  <2>2. /\ m \in Nat /\ m < L /\ file[m + 1] = Continue
        /\ AtFlag(file, m, chunk.from, encpos - (chunk.to - chunk.from))
        /\ file[m + 2] = Number("encpos", encpos) /\ file[m + 3] = Number("rlen", chunk.rlen)
        /\ file[m + 4] = Number("olen", chunk.olen)
        /\ \A k \in 1 .. eoff : file[m + 4 + k] = p
    BY <1>1 DEF InData, BeforeChunk
  <2> HIDE DEF p, m
  <2>3. m + 4 + eoff = L
    BY <1>1 DEF m
  <2>4. CASE eoff > 0
    <3>1. file[L] = p
      <4>1. eoff \in 1 .. eoff /\ m + 4 + eoff = L
        BY <1>1, <2>3, <2>4
      <4>. QED  BY <2>2, <4>1
    <3>2. L \in 1 .. L /\ g[L] = file[L]
      BY <2>1, <2>2
    <3>3. NextOfKind(g, "data", L, L + 1)
      BY <2>1, <3>1, <3>2 DEF NextOfKind
    <3>. QED  BY <1>4, <2>1, <3>1, <3>2, <3>3 DEF GoesOn
  <2>5. CASE eoff = 0
    <3>1. L = m + 4
      BY <2>2, <2>3, <2>5
    <3>2. \A k \in m + 1 .. L : g[k] = file[k] /\ file[k].kind # "data"
      <4>1. ASSUME NEW k \in m + 1 .. L PROVE file[k].kind # "data"
        <5>1. k \in {m + 1, m + 2, m + 3, m + 4}
          BY <2>2, <3>1
        <5>. QED  BY <2>2, <5>1, UnitFacts DEF Number
      <4>2. \A k \in m + 1 .. L : k \in 1 .. L
        BY <2>1, <2>2
      <4>. QED  BY <4>1, <4>2
    <3>3. ASSUME NEW k \in 1 .. m, file[k].kind = "data", file[k].to = chunk.from,
                 \A h \in k + 1 .. m : file[h].kind # "data"
          PROVE  GoesOn(g, L + 1)
      <4>1. k \in 1 .. L /\ g[k] = file[k]
        BY <2>2, <3>1
      <4>2. \A h \in k + 1 .. L : g[h].kind # "data"
        <5>1. ASSUME NEW h \in k + 1 .. L PROVE g[h].kind # "data"
          <6>1. CASE h <= m
            BY <2>2, <3>1, <3>3, <6>1
          <6>2. CASE h > m
            BY <2>2, <3>1, <3>2, <6>2
          <6>. QED  BY <2>2, <3>1, <6>1, <6>2
        <5>. QED  BY <5>1
      <4>3. NextOfKind(g, "data", k, L + 1)
        BY <2>1, <3>3, <4>1, <4>2 DEF NextOfKind
      <4>. QED  BY <2>1, <3>3, <4>1, <4>3 DEF GoesOn
    <3>4. CASE m = 0 /\ chunk.from = 0
      <4>1. \A k \in 1 .. L : g[k].kind # "data"
        BY <3>2, <3>4
      <4>. QED  BY <1>4, <2>1, <3>4, <4>1 DEF GoesOn
    <3>5. CASE m >= 2 /\ file[m] = Stop /\ file[m - 1].kind = "data" /\ file[m - 1].to = chunk.from
      <4>1. m - 1 \in 1 .. m /\ \A h \in (m - 1) + 1 .. m : file[h].kind # "data"
        BY <2>2, <3>5, UnitFacts
      <4>. QED  BY <1>4, <3>3, <3>5, <4>1
    <3>6. CASE \E e : AtChunk(file, m, chunk.from, e)
      <4>1. m >= 4 /\ file[m].kind = "data" /\ file[m].to = chunk.from
        BY <2>2, <3>6 DEF AtChunk
      <4>2. m \in 1 .. m /\ \A h \in m + 1 .. m : file[h].kind # "data"
        BY <2>2, <4>1
      <4>. QED  BY <1>4, <3>3, <4>1, <4>2
    <3>. QED  BY <2>2, <3>4, <3>5, <3>6 DEF AtFlag, AtBlock
  <2>. QED  BY <1>1, <2>4, <2>5
<1>. QED  BY <1>3, <1>4

(* The pieces of a chunk's data keep the order. *)
LEMMA PutPiecesOrder ==
  ASSUME EncInv, StreamInOrder, PutPieces PROVE StreamInOrder'
<1>1. /\ epc = "data" /\ inpos' = inpos /\ inpos \in Nat /\ file \in Seq(Unit) /\ Len(file) \in Nat
      /\ chunk.from \in Nat /\ chunk.to \in Nat /\ chunk.olen \in Nat /\ eoff \in Nat
      /\ chunk.to = CodedBytes /\ encpos <= ilen /\ encpos \in Nat /\ ilen \in Nat
  BY StreamAssumption DEF EncInv, EncTypes, EncPlace, ChunkOK, StreamOK, PutPieces
<1> DEFINE p == Piece(chunk.from, chunk.to)
<1>2. PICK n \in 1 .. chunk.olen - eoff :
        Put([k \in 1 .. n |-> p], IF eoff + n < chunk.olen THEN "data" ELSE "chunk")
  BY DEF PutPieces
<1> DEFINE units == [k \in 1 .. n |-> p]
           g == file \o units
<1>3. p \in Unit /\ p.kind = "data" /\ p.to = chunk.to
  BY <1>1 DEF Unit, Piece
<1>4. n \in Nat \ {0}
  BY <1>1
<1>5. units \in Seq(Unit) /\ Len(units) = n /\ \A i \in 1 .. n : units[i] = p
  BY <1>3, <1>4
<1>6. /\ g \in Seq(Unit) /\ Len(g) = Len(file) + n
      /\ \A i \in 1 .. Len(file) : g[i] = file[i]
      /\ \A i \in 1 .. n : g[Len(file) + i] = p
  <2> HIDE DEF units, p
  <2>1. file \in Seq(Unit) /\ units \in Seq(Unit)
    BY <1>1, <1>5
  <2>2. /\ file \o units \in Seq(Unit) /\ Len(file \o units) = Len(file) + Len(units)
        /\ \A i \in 1 .. Len(file) : (file \o units)[i] = file[i]
        /\ \A i \in 1 .. Len(units) : (file \o units)[Len(file) + i] = units[i]
    BY <2>1, Joined
  <2>. QED  BY <1>5, <2>2
<1> HIDE DEF units, g
<1>7. chunk.to <= inpos
  BY <1>1 DEF CodedBytes
<1>8. ASSUME NEW j \in Len(file) + 1 .. Len(g) PROVE g[j].to <= inpos /\ GoesOn(g, j)
  <2>1. j - Len(file) \in 1 .. n /\ Len(file) + (j - Len(file)) = j
    BY <1>1, <1>4, <1>6
  <2>2. GoesOn(g, j)
    BY <1>1, <1>4, <1>6, <2>1, PieceGoesOn
  <2>. QED  BY <1>3, <1>6, <1>7, <2>1, <2>2
<1>9. Ordered(file, inpos)
  BY DEF StreamInOrder, Ordered, GoesOn
<1>10. Ordered(g, inpos)
  <2>1. Len(file) <= Len(g)
    BY <1>1, <1>4, <1>6
  <2>. QED  BY <1>1, <1>6, <1>8, <1>9, <2>1, OrderGrown
<1>11. Ordered(file', inpos)
  <2>1. Ordered(file \o units, inpos)
    BY <1>10 DEF g
  <2>2. Put(units, IF eoff + n < chunk.olen THEN "data" ELSE "chunk")
    BY <1>2 DEF units
  <2>. QED  BY <1>1, <1>5, <2>1, <2>2, OrderPut
<1>. QED  BY <1>1, <1>11 DEF StreamInOrder, Ordered, GoesOn

(* What a header's units are. *)
LEMMA OtherUnits ==
  ASSUME EncInv
  PROVE  /\ <<Continue>> \in Seq(Unit) /\ <<Stop>> \in Seq(Unit)
         /\ epc = "header" => Header \in Seq(Unit)
         /\ \A units \in {<<Continue>>, <<Stop>>, Header} :
              \A i \in 1 .. Len(units) : units[i].kind # "data"
<1>1. <<Continue>> \in Seq(Unit) /\ <<Stop>> \in Seq(Unit)
  BY UnitFacts
<1>2. \A k \in {"encpos", "rlen", "olen"}, v \in Int : Number(k, v) \in Unit
  BY Sizes DEF Number, Unit
<1>3. encpos \in Int /\ chunk.rlen \in Int /\ chunk.olen \in Int
  BY DEF EncInv, EncTypes
<1>4. Header \in Seq(Unit)
  BY <1>2, <1>3 DEF Header
<1>5. \A i \in 1 .. Len(Header) : Header[i].kind # "data"
  BY DEF Header, Number
<1>. QED  BY <1>1, <1>4, <1>5, UnitFacts

(* Every step of Encode keeps the order. *)
LEMMA EncodeOrder ==
  ASSUME EncInv, StreamInOrder, EncodeNext PROVE StreamInOrder'
<1>1. /\ file \in Seq(Unit) /\ Len(file) \in Nat /\ inpos \in Nat /\ inSize \in Nat
      /\ Ordered(file, inpos)
  BY DEF EncInv, EncTypes, StreamOK, StreamInOrder, Ordered, GoesOn
<1>2. CASE UNCHANGED <<file, inpos>>
  BY <1>2 DEF StreamInOrder, NextOfKind
<1>3. CASE GetData
  <2>1. file' = file /\ inpos' \in Nat /\ inpos <= inpos'
    <3>1. ilen \in Nat /\ BlockSizeIn \in Nat
      BY StreamAssumption DEF EncInv, EncTypes
    <3>. QED  BY <1>1, <1>3, <3>1 DEF GetData
  <2>2. Ordered(file, inpos')
    BY <1>1, <2>1, OrderGrown
  <2>. QED  BY <2>1, <2>2 DEF StreamInOrder, Ordered, GoesOn
<1>4. CASE PutContinue
  BY <1>1, <1>4, OtherUnits, OrderOther DEF PutContinue
<1>5. CASE PutStop
  BY <1>1, <1>5, OtherUnits, OrderOther DEF PutStop
<1>6. CASE PutHeader
  BY <1>1, <1>6, OtherUnits, OrderOther DEF PutHeader
<1>7. CASE PutPieces
  BY <1>7, PutPiecesOrder
<1>. QED  BY <1>2, <1>3, <1>4, <1>5, <1>6, <1>7
          DEF EncodeNext, StartEncode, BeginBlock, TestRead, EncodeChunk, ThrowInChunk,
              ProcessEncoded, ReturnEncode

(* The chunks in a stream follow each other through the input.               *)
THEOREM StreamInOrderHolds == Spec => []StreamInOrder
<1>1. Init => StreamInOrder
  BY DEF Init, EncodeInit, StreamInOrder
<1>2. FileInv /\ StreamInOrder /\ [Next]_vars => StreamInOrder'
  <2>1. SUFFICES ASSUME FileInv, StreamInOrder, [Next]_vars PROVE StreamInOrder'
    OBVIOUS
  <2>2. CASE UNCHANGED encodeVars
    BY <2>1, <2>2 DEF encodeVars, StreamInOrder, NextOfKind
  <2>3. CASE Encode
    BY <2>1, <2>3, EncodeOrder DEF Encode, FileInv
  <2>4. CASE LoseTail
    <3>1. file \in Seq(Unit) /\ Ordered(file, inpos) /\ inpos' = inpos
      BY <2>1, <2>4 DEF FileInv, EncInv, StreamOK, StreamInOrder, Ordered, GoesOn, LoseTail
    <3>2. PICK k \in 0 .. Len(file) - 1 : file' = SubSeq(file, 1, k)
      BY <2>4 DEF LoseTail
    <3>3. /\ file' \in Seq(Unit) /\ Len(file') <= Len(file)
          /\ \A i \in 1 .. Len(file') : file'[i] = file[i]
      BY <3>1, <3>2
    <3>4. Ordered(file', inpos)
      BY <3>1, <3>3, OrderCut
    <3>. QED  BY <3>1, <3>4 DEF StreamInOrder, Ordered, GoesOn
  <2>. QED  BY <2>1, <2>2, <2>3, <2>4 DEF Next, Decode, Terminating, vars
<1>. QED  BY Invariance, <1>1, <1>2, PTL DEF Spec

(***************************************************************************)
(* Empty chunks.                                                           *)
(***************************************************************************)

(* A stream cut anywhere has no two empty chunks in a row that it had not. *)
LEMMA EmptyCut ==
  ASSUME NEW f \in Seq(Unit), NEW g \in Seq(Unit), NoTwoEmpty(f),
         Len(g) <= Len(f), \A i \in 1 .. Len(g) : g[i] = f[i]
  PROVE  NoTwoEmpty(g)
<1>1. SUFFICES ASSUME NEW i \in 1 .. Len(g), IsEmptySize(g[i]), NEW j \in i + 1 .. Len(g),
                      NextOfKind(g, "rlen", i, j)
               PROVE  Signed(g[j].v) # -1
  BY DEF NoTwoEmpty
<1>2. /\ i \in 1 .. Len(f) /\ j \in i + 1 .. Len(f) /\ g[i] = f[i] /\ g[j] = f[j]
      /\ \A k \in i + 1 .. j - 1 : g[k] = f[k]
  OBVIOUS
<1>3. NextOfKind(f, "rlen", i, j)
  BY <1>1, <1>2 DEF NextOfKind
<1>. QED  BY <1>1, <1>2, <1>3 DEF NoTwoEmpty

(* Nor has one that grows, unless by the size of an empty chunk. *)
LEMMA EmptyGrown ==
  ASSUME NEW f \in Seq(Unit), NEW g \in Seq(Unit), NoTwoEmpty(f),
         Len(f) <= Len(g), \A i \in 1 .. Len(f) : g[i] = f[i],
         LastEmpty(f) => \A j \in Len(f) + 1 .. Len(g) : ~IsEmptySize(g[j]),
         NEW n \in Len(f) + 1 .. Len(g) + 1,
         \A j \in Len(f) + 1 .. Len(g) : g[j].kind = "rlen" => j = n
  PROVE  /\ NoTwoEmpty(g)
         /\ LastEmpty(g) =>
              IF n <= Len(g) /\ g[n].kind = "rlen" THEN IsEmptySize(g[n]) ELSE LastEmpty(f)
<1>1. ASSUME NEW i \in 1 .. Len(g), IsEmptySize(g[i]), NEW j \in i + 1 .. Len(g),
             NextOfKind(g, "rlen", i, j)
      PROVE  Signed(g[j].v) # -1
  <2>1. g[i].kind = "rlen" /\ g[j].kind = "rlen"
    BY <1>1 DEF NextOfKind
  <2>2. CASE j <= Len(f)
    <3>1. /\ i \in 1 .. Len(f) /\ j \in i + 1 .. Len(f) /\ g[i] = f[i] /\ g[j] = f[j]
          /\ \A k \in i + 1 .. j - 1 : g[k] = f[k]
      BY <2>2
    <3>2. NextOfKind(f, "rlen", i, j)
      BY <1>1, <3>1 DEF NextOfKind
    <3>. QED  BY <1>1, <3>1, <3>2 DEF NoTwoEmpty
  <2>3. CASE j > Len(f)
    <3>1. j \in Len(f) + 1 .. Len(g) /\ j = n
      BY <2>1, <2>3
    <3>2. i <= Len(f)
      <4>1. i > Len(f) => i \in Len(f) + 1 .. Len(g)
        OBVIOUS
      <4>. QED  BY <2>1, <3>1, <4>1
    <3>3. i \in 1 .. Len(f) /\ g[i] = f[i] /\ \A k \in i + 1 .. Len(f) : k \in i + 1 .. j - 1 /\ g[k] = f[k]
      BY <2>3, <3>2
    <3>4. \A k \in i + 1 .. Len(f) : f[k].kind # "rlen"
      BY <1>1, <3>3 DEF NextOfKind
    <3>5. LastEmpty(f)
      BY <1>1, <3>3, <3>4 DEF LastEmpty
    <3>. QED  BY <2>1, <3>1, <3>5 DEF IsEmptySize
  <2>. QED  BY <2>2, <2>3
<1>2. NoTwoEmpty(g)
  BY <1>1 DEF NoTwoEmpty
<1>3. ASSUME LastEmpty(g)
      PROVE  IF n <= Len(g) /\ g[n].kind = "rlen" THEN IsEmptySize(g[n]) ELSE LastEmpty(f)
  <2>1. PICK i \in 1 .. Len(g) : IsEmptySize(g[i]) /\ \A k \in i + 1 .. Len(g) : g[k].kind # "rlen"
    BY <1>3 DEF LastEmpty
  <2>2. CASE i <= Len(f)
    <3>1. i \in 1 .. Len(f) /\ \A k \in i + 1 .. Len(f) : k \in i + 1 .. Len(g) /\ g[k] = f[k]
      BY <2>2
    <3>2. n <= Len(g) => n \in i + 1 .. Len(g)
      BY <2>2
    <3>. QED  BY <2>1, <3>1, <3>2 DEF LastEmpty
  <2>3. CASE i > Len(f)
    <3>1. i \in Len(f) + 1 .. Len(g) /\ g[i].kind = "rlen"
      BY <2>1, <2>3 DEF IsEmptySize
    <3>. QED  BY <2>1, <3>1
  <2>. QED  BY <2>2, <2>3
<1>. QED  BY <1>2, <1>3

(* What Put leaves of units has no two empty chunks in a row if they have not. *)
LEMMA EmptyPut ==
  ASSUME NEW units \in Seq(Unit), NEW next, file \in Seq(Unit),
         NoTwoEmpty(file \o units), Put(units, next)
  PROVE  NoTwoEmpty(file')
<1> DEFINE f == file \o units
<1>1. f \in Seq(Unit) /\ Len(f) = Len(file) + Len(units)
  OBVIOUS
<1>2. CASE file' = f
  BY <1>2
<1>3. CASE \E k \in 0 .. Len(units) - 1 : file' = file \o SubSeq(units, 1, k)
  <2>1. PICK k \in 0 .. Len(units) - 1 : file' = file \o SubSeq(units, 1, k)
    BY <1>3
  <2>2. /\ SubSeq(units, 1, k) \in Seq(Unit) /\ Len(SubSeq(units, 1, k)) = k
        /\ \A i \in 1 .. k : SubSeq(units, 1, k)[i] = units[i]
    OBVIOUS
  <2>3. file' \in Seq(Unit) /\ Len(file') = Len(file) + k /\ Len(file') <= Len(f)
    BY <1>1, <2>1, <2>2
  <2>4. \A i \in 1 .. Len(file') : file'[i] = f[i]
    BY <2>1, <2>2, <2>3
  <2>5. NoTwoEmpty(f)
    OBVIOUS
  <2> HIDE DEF f
  <2>. QED  BY <1>1, <2>3, <2>4, <2>5, EmptyCut
<1>. QED  BY <1>2, <1>3 DEF Put

(* Flags and data change nothing of this. *)
LEMMA EmptyOther ==
  ASSUME NEW units \in Seq(Unit), NEW next, file \in Seq(Unit), level' = level,
         LevelInv, epc \notin {"header", "return", "end"}, next # "header",
         \A i \in 1 .. Len(units) : units[i].kind # "rlen", Put(units, next)
  PROVE  LevelInv'
<1> DEFINE g == file \o units
<1>1. /\ g \in Seq(Unit) /\ Len(g) = Len(file) + Len(units) /\ Len(file) <= Len(g)
      /\ \A i \in 1 .. Len(file) : g[i] = file[i]
      /\ \A i \in 1 .. Len(units) : g[Len(file) + i] = units[i]
  BY Joined
<1>2. NoTwoEmpty(file) /\ (LastEmpty(file) => level = 0)
  BY DEF LevelInv
<1>3. NoTwoEmpty(g) /\ (LastEmpty(g) => LastEmpty(file))
  <2> HIDE DEF g
  <2>1. ASSUME NEW j \in Len(file) + 1 .. Len(g) PROVE g[j].kind # "rlen"
    <3>1. j - Len(file) \in 1 .. Len(units) /\ Len(file) + (j - Len(file)) = j
      BY <1>1
    <3>. QED  BY <1>1, <3>1
  <2>2. \A j \in Len(file) + 1 .. Len(g) : ~IsEmptySize(g[j])
    BY <2>1 DEF IsEmptySize
  <2>3. Len(g) + 1 \in Len(file) + 1 .. Len(g) + 1 /\ ~(Len(g) + 1 <= Len(g))
    BY <1>1
  <2>4. /\ NoTwoEmpty(g)
        /\ LastEmpty(g) =>
             IF Len(g) + 1 <= Len(g) /\ g[Len(g) + 1].kind = "rlen" THEN IsEmptySize(g[Len(g) + 1])
             ELSE LastEmpty(file)
    BY <1>1, <1>2, <2>1, <2>2, <2>3, EmptyGrown
  <2>. QED  BY <2>3, <2>4
<1>4. NoTwoEmpty(file')
  BY <1>3, EmptyPut
<1>5. \/ file' = g /\ epc' = next
      \/ epc' = "return"
  BY DEF Put
<1> HIDE DEF g
<1>. QED  BY <1>2, <1>3, <1>4, <1>5 DEF LevelInv

(* A header is that of an empty chunk if its rlen is -1. *)
LEMMA PutHeaderLevel == ASSUME EncInv, LevelInv, PutHeader PROVE LevelInv'
<1>1. /\ epc = "header" /\ Put(Header, "data") /\ level' = level /\ file \in Seq(Unit)
      /\ Len(file) \in Nat /\ chunk.rlen \in -1 .. BlockSizeRolz
      /\ NoTwoEmpty(file) /\ (chunk.rlen = -1 => level = 0 /\ ~LastEmpty(file))
  BY DEF EncInv, EncPlace, ChunkOK, StreamOK, LevelInv, PutHeader
<1> DEFINE g == file \o Header
<1>2. Header \in Seq(Unit) /\ Len(Header) = 3
  BY <1>1, OtherUnits DEF Header
<1>3. /\ g \in Seq(Unit) /\ Len(g) = Len(file) + 3
      /\ \A i \in 1 .. Len(file) : g[i] = file[i]
      /\ \A i \in 1 .. 3 : g[Len(file) + i] = Header[i]
  <2>1. /\ file \o Header \in Seq(Unit) /\ Len(file \o Header) = Len(file) + Len(Header)
        /\ \A i \in 1 .. Len(file) : (file \o Header)[i] = file[i]
        /\ \A i \in 1 .. Len(Header) : (file \o Header)[Len(file) + i] = Header[i]
    <3>1. file \in Seq(Unit) /\ Header \in Seq(Unit)
      BY <1>1, <1>2
    <3>. QED  BY <3>1, Joined
  <2>. QED  BY <1>2, <2>1
<1>4. Signed(chunk.rlen % IntRange) = chunk.rlen
  <2>1. CASE chunk.rlen = -1
    BY <2>1, NumberRead
  <2>2. CASE chunk.rlen # -1
    <3>1. chunk.rlen \in Nat /\ chunk.rlen < IntRange \div 2 /\ chunk.rlen \in 0 .. IntRange - 1
      BY <1>1, <2>2, Sizes
    <3>. QED  BY <3>1, NumberRead
  <2>. QED  BY <2>1, <2>2
<1>5. /\ Header[1].kind = "encpos" /\ Header[3].kind = "olen"
      /\ Header[2].kind = "rlen" /\ Header[2].v = chunk.rlen % IntRange
  BY DEF Header, Number
<1>6. IsEmptySize(Header[2]) <=> chunk.rlen = -1
  BY <1>4, <1>5 DEF IsEmptySize
<1> HIDE DEF g
<1>7. \A j \in Len(file) + 1 .. Len(g) :
        j \in {Len(file) + 1, Len(file) + 2, Len(file) + 3}
  BY <1>1, <1>3
<1>8. /\ g[Len(file) + 1] = Header[1] /\ g[Len(file) + 2] = Header[2]
      /\ g[Len(file) + 3] = Header[3]
  BY <1>3
<1>9. \A j \in Len(file) + 1 .. Len(g) : g[j].kind = "rlen" => j = Len(file) + 2
  BY <1>5, <1>7, <1>8
<1>10. LastEmpty(file) => \A j \in Len(file) + 1 .. Len(g) : ~IsEmptySize(g[j])
  <2>1. \A j \in Len(file) + 1 .. Len(g) : IsEmptySize(g[j]) => IsEmptySize(Header[2])
    BY <1>8, <1>9 DEF IsEmptySize
  <2>. QED  BY <1>1, <1>6, <2>1
<1>11. NoTwoEmpty(g) /\ (LastEmpty(g) => chunk.rlen = -1)
  <2>1. /\ Len(file) + 2 \in Len(file) + 1 .. Len(g) + 1 /\ Len(file) <= Len(g)
        /\ Len(file) + 2 <= Len(g) /\ g[Len(file) + 2].kind = "rlen"
    BY <1>1, <1>3, <1>5, <1>8
  <2>. QED  BY <1>1, <1>3, <1>6, <1>8, <1>9, <1>10, <2>1, EmptyGrown
<1>12. NoTwoEmpty(file')
  BY <1>1, <1>2, <1>11, EmptyPut DEF g
<1>13. \/ file' = g /\ epc' = "data"
       \/ epc' = "return"
  BY <1>1 DEF Put, g
<1>. QED  BY <1>1, <1>11, <1>12, <1>13 DEF LevelInv

(* A chunk is empty only if the level is none the encoder knows; the next    *)
(* level is then the lowest.                                                 *)
LEMMA EncodeChunkLevel == ASSUME EncInv, LevelInv, EncodeChunk PROVE LevelInv'
<1>1. epc = "encode" /\ epc' = "header" /\ file' = file /\ NoTwoEmpty(file) /\ (LastEmpty(file) => level = 0)
  BY DEF LevelInv, EncodeChunk
<1>2. PICK n \in 0 .. ilen - encpos, rlen \in -1 .. BlockSizeRolz, olen \in DistanceByte .. BlockSizeHuffman :
        /\ IF level \in KnownLevels THEN 1 <= rlen /\ rlen <= n ELSE n = 0 /\ rlen = -1
        /\ chunk' = [from |-> ChunkStart, to |-> ChunkStart + n, rlen |-> rlen, olen |-> olen]
        /\ level' = NextLevel(olen, n)
  BY DEF EncodeChunk
<1>3. chunk'.rlen = rlen
  BY <1>2
<1>4. ASSUME rlen = -1 PROVE level' = 0 /\ level # 0
  <2>1. n = 0 /\ level # 0
    BY <1>2, <1>4 DEF KnownLevels
  <2>2. 100 * olen > 95 * (0 + 1)
    BY <1>2, Sizes
  <2>. QED  BY <1>2, <2>1, <2>2 DEF NextLevel
<1>. QED  BY <1>1, <1>3, <1>4 DEF LevelInv

(* Every step of Encode keeps this. *)
LEMMA EncodeLevel == ASSUME EncInv, LevelInv, EncodeNext PROVE LevelInv'
<1>1. file \in Seq(Unit) /\ Len(file) \in Nat
  BY DEF EncInv, StreamOK
<1>2. CASE /\ UNCHANGED <<file, level>> /\ epc \notin {"header", "return", "end"}
           /\ epc' # "header"
  BY <1>2 DEF LevelInv
<1>3. CASE ReturnEncode
  BY <1>3 DEF LevelInv, ReturnEncode
<1>4. CASE EncodeChunk
  BY <1>4, EncodeChunkLevel
<1>5. CASE PutHeader
  BY <1>5, PutHeaderLevel
<1>6. CASE PutContinue
  <2>1. /\ <<Continue>> \in Seq(Unit)
        /\ \A i \in 1 .. Len(<<Continue>>) : <<Continue>>[i].kind # "rlen"
    BY UnitFacts
  <2>2. \E next \in {"encode", "process"} : Put(<<Continue>>, next)
    BY <1>6 DEF PutContinue
  <2>3. epc = "chunk" /\ level' = level
    BY <1>6 DEF PutContinue
  <2>. QED  BY <1>1, <2>1, <2>2, <2>3, EmptyOther
<1>7. CASE PutStop
  <2>1. /\ <<Stop>> \in Seq(Unit)
        /\ \A i \in 1 .. Len(<<Stop>>) : <<Stop>>[i].kind # "rlen"
    BY UnitFacts
  <2>2. \E next \in {"encode", "process"} : Put(<<Stop>>, next)
    BY <1>7 DEF PutStop
  <2>3. epc = "chunk" /\ level' = level
    BY <1>7 DEF PutStop
  <2>. QED  BY <1>1, <2>1, <2>2, <2>3, EmptyOther
<1>8. CASE PutPieces
  <2>1. chunk.from \in Nat /\ chunk.to \in Nat /\ chunk.olen \in Int /\ eoff \in Nat
    BY DEF EncInv, EncTypes
  <2> DEFINE p == Piece(chunk.from, chunk.to)
  <2>2. PICK n \in 1 .. chunk.olen - eoff :
          Put([k \in 1 .. n |-> p], IF eoff + n < chunk.olen THEN "data" ELSE "chunk")
    BY <1>8 DEF PutPieces
  <2>3. p \in Unit /\ p.kind = "data"
    BY <2>1 DEF Unit, Piece
  <2> DEFINE units == [k \in 1 .. n |-> p]
             next == IF eoff + n < chunk.olen THEN "data" ELSE "chunk"
  <2>4. n \in Nat /\ next # "header"
    BY <2>1
  <2>5. units \in Seq(Unit) /\ \A i \in 1 .. Len(units) : units[i].kind # "rlen"
    <3> HIDE DEF p
    <3>. QED  BY <2>3, <2>4
  <2>6. level' = level /\ epc = "data" /\ Put(units, next)
    BY <1>8, <2>2 DEF PutPieces
  <2> HIDE DEF units, next
  <2>. QED  BY <1>1, <2>4, <2>5, <2>6, EmptyOther
<1>9. CASE StartEncode \/ BeginBlock \/ TestRead \/ GetData \/ ThrowInChunk \/ ProcessEncoded
  BY <1>2, <1>9 DEF StartEncode, BeginBlock, TestRead, GetData, ThrowInChunk, ProcessEncoded
<1>. QED  BY <1>3, <1>4, <1>5, <1>6, <1>7, <1>8, <1>9 DEF EncodeNext

(* No two chunks in a row of a stream are empty, at any level.               *)
THEOREM NoTwoEmptyChunksHolds == Spec => []NoTwoEmptyChunks
<1>1. Init => LevelInv
  BY DEF Init, EncodeInit, LevelInv, NoTwoEmpty, LastEmpty
<1>2. FileInv /\ LevelInv /\ [Next]_vars => LevelInv'
  <2>1. SUFFICES ASSUME FileInv, LevelInv, [Next]_vars PROVE LevelInv'
    OBVIOUS
  <2>2. CASE UNCHANGED encodeVars
    BY <2>1, <2>2 DEF encodeVars, LevelInv
  <2>3. CASE Encode
    BY <2>1, <2>3, EncodeLevel DEF Encode, FileInv
  <2>4. CASE LoseTail
    <3>1. file \in Seq(Unit) /\ NoTwoEmpty(file) /\ epc' = "end"
      BY <2>1, <2>4 DEF FileInv, EncInv, StreamOK, LevelInv, LoseTail
    <3>2. PICK k \in 0 .. Len(file) - 1 : file' = SubSeq(file, 1, k)
      BY <2>4 DEF LoseTail
    <3>3. /\ file' \in Seq(Unit) /\ Len(file') <= Len(file)
          /\ \A i \in 1 .. Len(file') : file'[i] = file[i]
      BY <3>1, <3>2
    <3>4. NoTwoEmpty(file')
      BY <3>1, <3>3, EmptyCut
    <3>. QED  BY <3>1, <3>4 DEF LevelInv
  <2>. QED  BY <2>1, <2>2, <2>3, <2>4 DEF Next, Decode, Terminating, vars
<1>3. LevelInv => NoTwoEmptyChunks
  BY DEF LevelInv, NoTwoEmpty, IsEmptySize, NoTwoEmptyChunks
<1>. QED  BY Invariance, <1>1, <1>2, <1>3, PTL DEF Spec

(***************************************************************************)
(* The calls on the action handler.                                        *)
(***************************************************************************)

(* Before any call the handler has been told of nothing. *)
LEMMA NothingTold == Counted(<<>>) /\ Told(<<>>)[0] = 0
<1> DEFINE none == <<>>
           zero == [k \in 0 .. Len(none) |-> 0]
<1>1. Len(none) = 0 /\ 0 .. Len(none) = {0}
  OBVIOUS
<1>2. IsTold(zero, none)
  BY <1>1 DEF IsTold
<1>3. Told(none) = CHOOSE t : IsTold(t, none)
  BY DEF Told, IsTold
<1> HIDE DEF none
<1>4. IsTold(Told(none), none)
  BY <1>2, <1>3
<1>5. ASSUME NEW t, IsTold(t, none) PROVE t = zero
  BY <1>1, <1>5 DEF IsTold
<1> HIDE DEF zero
<1>6. Told(none) = zero
  BY <1>4, <1>5
<1>7. Counted(none) /\ Told(none)[0] = 0
  BY <1>1, <1>4, <1>5, <1>6 DEF Counted, zero
<1>. QED  BY <1>7 DEF none

(* A call adds its size to what has been told before. *)
LEMMA OneMoreCall ==
  ASSUME NEW calls \in Seq(Call), Counted(calls), NEW c \in Call
  PROVE  /\ Append(calls, c) \in Seq(Call) /\ Len(Append(calls, c)) = Len(calls) + 1
         /\ \A k \in 1 .. Len(calls) : Append(calls, c)[k] = calls[k]
         /\ Append(calls, c)[Len(calls) + 1] = c
         /\ Counted(Append(calls, c))
         /\ \A k \in 0 .. Len(calls) : Told(Append(calls, c))[k] = Told(calls)[k]
         /\ Told(Append(calls, c))[Len(calls) + 1] = Told(calls)[Len(calls)] + c.size
<1> DEFINE more == Append(calls, c)
           n == Len(calls)
           t == Told(calls)
<1>1. /\ more \in Seq(Call) /\ Len(more) = n + 1 /\ more[n + 1] = c /\ n \in Nat
      /\ \A k \in 1 .. n : more[k] = calls[k]
  OBVIOUS
<1>2. c.size \in Nat
  BY DEF Call
<1>3. /\ IsTold(t, calls) /\ \A f : IsTold(f, calls) => f = t
      /\ \A k \in 0 .. n : t[k] \in Nat /\ t[k] <= t[n]
  BY DEF Counted
<1>4. Told(more) = CHOOSE f : IsTold(f, more)
  BY DEF Told, IsTold
<1> HIDE DEF more, n, t
<1>5. n = Len(calls)
  BY DEF n
<1> DEFINE u == [k \in 0 .. n + 1 |-> IF k <= n THEN t[k] ELSE t[n] + c.size]
<1>6. t[0] = 0 /\ \A k \in 1 .. n : t[k] = t[k - 1] + calls[k].size
  BY <1>1, <1>3, <1>5 DEF IsTold
<1>7. IsTold(u, more)
  <2>1. ASSUME NEW k \in 0 .. n + 1
        PROVE  u[k] = IF k = 0 THEN 0 ELSE u[k - 1] + more[k].size
    <3>1. CASE k = 0
      BY <1>1, <1>6, <3>1
    <3>2. CASE k \in 1 .. n
      <4>1. u[k] = t[k] /\ u[k - 1] = t[k - 1] /\ more[k] = calls[k]
        BY <1>1, <3>2
      <4>. QED  BY <1>6, <3>2, <4>1
    <3>3. CASE k = n + 1
      <4>1. u[k] = t[n] + c.size /\ u[k - 1] = t[n] /\ more[k] = c /\ k # 0
        BY <1>1, <3>3
      <4>. QED  BY <4>1
    <3>. QED  BY <1>1, <3>1, <3>2, <3>3
  <2>2. u = [k \in 0 .. n + 1 |-> u[k]]
    OBVIOUS
  <2> HIDE DEF u
  <2>. QED  BY <1>1, <2>1, <2>2 DEF IsTold
<1>8. IsTold(Told(more), more)
  BY <1>4, <1>7
<1>9. ASSUME NEW f, IsTold(f, more) PROVE f = u
  <2> DEFINE g == [k \in 0 .. n |-> f[k]]
  <2>1. /\ f = [k \in 0 .. n + 1 |-> f[k]] /\ f[0] = 0
        /\ \A k \in 1 .. n + 1 : f[k] = f[k - 1] + more[k].size
    BY <1>1, <1>9 DEF IsTold
  <2>2. IsTold(g, calls)
    <3>1. ASSUME NEW k \in 0 .. n PROVE g[k] = IF k = 0 THEN 0 ELSE g[k - 1] + calls[k].size
      <4>1. CASE k = 0
        BY <1>1, <2>1, <4>1
      <4>2. CASE k # 0
        <5>1. k \in 1 .. n /\ k \in 1 .. n + 1 /\ g[k] = f[k] /\ g[k - 1] = f[k - 1]
          BY <1>1, <4>2
        <5>. QED  BY <1>1, <2>1, <4>2, <5>1
      <4>. QED  BY <4>1, <4>2
    <3>2. g = [k \in 0 .. n |-> g[k]]
      OBVIOUS
    <3> HIDE DEF g
    <3>. QED  BY <1>5, <3>1, <3>2 DEF IsTold
  <2>3. g = t
    BY <1>3, <2>2
  <2>4. \A k \in 0 .. n : f[k] = t[k]
    BY <2>3
  <2>5. f[n + 1] = t[n] + c.size
    <3>1. n + 1 \in 1 .. n + 1 /\ (n + 1) - 1 = n /\ n \in 0 .. n
      BY <1>1
    <3>2. f[n + 1] = f[(n + 1) - 1] + more[n + 1].size
      BY <2>1, <3>1
    <3>. QED  BY <1>1, <2>4, <3>1, <3>2
  <2>6. \A k \in 0 .. n + 1 : f[k] = u[k]
    BY <1>1, <2>4, <2>5
  <2>. QED  BY <2>1, <2>6
<1>10. Told(more) = u
  BY <1>8, <1>9
<1>11. /\ \A k \in 0 .. n : u[k] = t[k]
       /\ u[n + 1] = t[n] + c.size
  BY <1>1
<1>12. \A k \in 0 .. n + 1 : u[k] \in Nat /\ u[k] <= u[n + 1]
  BY <1>1, <1>2, <1>3
<1> HIDE DEF u
<1>13. Counted(more)
  BY <1>1, <1>8, <1>9, <1>10, <1>12 DEF Counted
<1>. QED  BY <1>1, <1>10, <1>11, <1>13 DEF more, n, t

(* The calls there are. *)
LEMMA CallFacts ==
  /\ OnInit \in Call /\ OnDone \in Call /\ \A n \in Nat : OnProcess(n) \in Call
  /\ OnInit # OnDone /\ \A n \in Nat : OnProcess(n) # OnInit /\ OnProcess(n) # OnDone
  /\ OnInit.size = 0 /\ OnDone.size = 0 /\ \A n \in Nat : OnProcess(n).size = n
  /\ OnInit.call = "init" /\ OnDone.call = "done" /\ \A n \in Nat : OnProcess(n).call = "process"
BY DEF OnInit, OnDone, OnProcess, Call

(* The first call is OnInit. *)
LEMMA FirstHeard ==
  ASSUME NEW calls, NEW ret, Heard(calls, ret, FALSE), NEW ret2, ret2 \in {"none", "thrown"}
  PROVE  /\ Heard(<<OnInit>>, ret2, TRUE)
         /\ Told(calls)[Len(calls)] = 0 /\ Told(<<OnInit>>)[Len(<<OnInit>>)] = 0
<1>1. calls = <<>> /\ Len(calls) = 0 /\ calls \in Seq(Call)
  BY DEF Heard
<1>2. Counted(calls) /\ Told(calls)[0] = 0
  BY <1>1, NothingTold
<1>3. <<OnInit>> = Append(calls, OnInit)
  BY <1>1
<1> DEFINE one == Append(calls, OnInit)
<1>4. /\ one \in Seq(Call) /\ Len(one) = 1 /\ one[1] = OnInit /\ Counted(one)
      /\ Told(one)[1] = 0
  <2>1. OnInit \in Call /\ OnInit.size = 0
    BY CallFacts
  <2>2. /\ one \in Seq(Call) /\ Len(one) = Len(calls) + 1 /\ one[Len(calls) + 1] = OnInit
        /\ Counted(one) /\ Told(one)[Len(calls) + 1] = Told(calls)[Len(calls)] + OnInit.size
    BY <1>1, <1>2, <2>1, OneMoreCall
  <2> HIDE DEF one
  <2>. QED  BY <1>1, <1>2, <2>1, <2>2
<1> HIDE DEF one
<1>5. Heard(one, ret2, TRUE)
  BY <1>4, CallFacts DEF Heard
<1>. QED  BY <1>1, <1>2, <1>3, <1>4, <1>5 DEF one

(* Then come OnProcess and, with the result, OnDone. *)
LEMMA MoreHeard ==
  ASSUME NEW calls, NEW ret, ret \notin {"ok", "error"}, Heard(calls, ret, TRUE), NEW c \in Call,
         c # OnInit, NEW ret2, ret2 \in {"ok", "error"} <=> c = OnDone
  PROVE  /\ Heard(Append(calls, c), ret2, TRUE)
         /\ Told(Append(calls, c))[Len(Append(calls, c))] = Told(calls)[Len(calls)] + c.size
<1>1. /\ calls \in Seq(Call) /\ Counted(calls) /\ Len(calls) > 0 /\ calls[1] = OnInit
      /\ \A k \in 2 .. Len(calls) : calls[k] # OnInit
      /\ \A k \in 1 .. Len(calls) - 1 : calls[k] # OnDone
      /\ calls[Len(calls)] # OnDone
  BY DEF Heard
<1> DEFINE more == Append(calls, c)
<1>2. /\ more \in Seq(Call) /\ Len(more) = Len(calls) + 1
      /\ \A k \in 1 .. Len(calls) : more[k] = calls[k]
      /\ more[Len(calls) + 1] = c /\ Counted(more)
      /\ Told(more)[Len(calls) + 1] = Told(calls)[Len(calls)] + c.size
  BY <1>1, OneMoreCall
<1> HIDE DEF more
<1>3. Len(calls) \in Nat
  BY <1>1
<1>4. more[1] = OnInit /\ Len(more) > 0
  BY <1>1, <1>2, <1>3
<1>5. ASSUME NEW k \in 2 .. Len(more) PROVE more[k] # OnInit
  <2>1. k \in 2 .. Len(calls) \/ k = Len(calls) + 1
    BY <1>2, <1>3
  <2>2. k \in 2 .. Len(calls) => k \in 1 .. Len(calls)
    OBVIOUS
  <2>. QED  BY <1>1, <1>2, <2>1, <2>2
<1>6. ASSUME NEW k \in 1 .. Len(more) - 1 PROVE more[k] # OnDone
  <2>1. k \in 1 .. Len(calls) - 1 \/ k = Len(calls)
    BY <1>2, <1>3
  <2>2. k \in 1 .. Len(calls)
    BY <1>1, <1>3, <2>1
  <2>. QED  BY <1>1, <1>2, <2>1, <2>2
<1>7. Heard(more, ret2, TRUE)
  BY <1>2, <1>4, <1>5, <1>6 DEF Heard
<1>. QED  BY <1>2, <1>7 DEF more

(* An exception is the end without a call. *)
LEMMA SameHeard ==
  ASSUME NEW calls, NEW ret, NEW started, Heard(calls, ret, started),
         ret \notin {"ok", "error"}, NEW ret2, ret2 \notin {"ok", "error"}
  PROVE  Heard(calls, ret2, started)
BY DEF Heard

(* Every step of Encode. *)
LEMMA EncodeHeard == ASSUME EncInv, EncHeard, EncodeNext PROVE EncHeard'
<1> DEFINE total == Told(ecalls)[Len(ecalls)]
<1>1. /\ inpos \in Nat /\ ilen \in Nat /\ ilen <= inpos /\ eierr \in BOOLEAN /\ eoerr \in BOOLEAN
      /\ eret \in {"none", "ok", "error", "thrown"} /\ (eret # "none" => epc = "end")
      /\ BlockSizeIn \in Nat /\ inSize \in Nat
  BY StreamAssumption DEF EncInv, EncTypes
<1>2. /\ Heard(ecalls, eret, epc # "start") /\ total \in Nat /\ total <= inpos
      /\ epc \in {"start", "block"} => total = inpos
      /\ epc \in {"read", "get", "chunk", "encode", "header", "data", "process"} =>
           total = inpos - ilen
      /\ epc = "return" /\ ~eierr /\ ~eoerr => total = inpos
      /\ eret = "ok" => total = inpos
  BY DEF EncHeard, Heard, Counted
<1> HIDE DEF total
<1>3. CASE StartEncode
  <2>1. /\ epc = "start" /\ eret = "none" /\ ecalls' = <<OnInit>> /\ inpos' = inpos
        /\ epc' \in {"block", "end"} /\ eret' \in {"none", "thrown"}
    BY <1>1, <1>3 DEF StartEncode
  <2>2. /\ Heard(ecalls', eret', TRUE)
        /\ total = 0 /\ Told(ecalls')[Len(ecalls')] = 0
    <3>1. Heard(ecalls, eret, FALSE)
      BY <1>2, <2>1
    <3>. QED  BY <2>1, <3>1, FirstHeard DEF total
  <2>3. (epc' # "start") = TRUE
    BY <2>1
  <2>4. Heard(ecalls', eret', epc' # "start")
    BY <2>2, <2>3
  <2>5. inpos = 0 /\ inpos' = 0
    BY <1>2, <2>1, <2>2
  <2>. QED  BY <2>1, <2>2, <2>4, <2>5 DEF EncHeard
<1>4. CASE ProcessEncoded
  <2>1. /\ epc = "process" /\ eret = "none" /\ ecalls' = Append(ecalls, OnProcess(ilen))
        /\ inpos' = inpos /\ epc' = "block" /\ eret' = "none"
    BY <1>1, <1>4 DEF ProcessEncoded
  <2>2. /\ Heard(ecalls', eret', TRUE)
        /\ Told(ecalls')[Len(ecalls')] = total + ilen
    <3>1. Heard(ecalls, eret, TRUE) /\ OnProcess(ilen) \in Call /\ OnProcess(ilen).size = ilen
      BY <1>1, <1>2, <2>1, CallFacts
    <3>2. OnProcess(ilen) # OnInit /\ (eret' \in {"ok", "error"} <=> OnProcess(ilen) = OnDone)
      BY <1>1, <2>1, CallFacts
    <3>3. eret \notin {"ok", "error"}
      BY <2>1
    <3> DEFINE c == OnProcess(ilen)
    <3>4. /\ Heard(Append(ecalls, c), eret', TRUE)
          /\ Told(Append(ecalls, c))[Len(Append(ecalls, c))] = Told(ecalls)[Len(ecalls)] + c.size
      <4> HIDE DEF c
      <4>1. c \in Call /\ c # OnInit /\ (eret' \in {"ok", "error"} <=> c = OnDone)
        BY <3>1, <3>2 DEF c
      <4>. QED  BY <3>1, <3>3, <4>1, MoreHeard
    <3>. QED  BY <2>1, <3>1, <3>4 DEF total
  <2>3. (epc' # "start") = TRUE
    BY <2>1
  <2>4. Heard(ecalls', eret', epc' # "start")
    BY <2>2, <2>3
  <2>5. total + ilen = inpos
    BY <1>1, <1>2, <2>1
  <2>. QED  BY <1>1, <2>1, <2>2, <2>4, <2>5 DEF EncHeard
<1>5. CASE ReturnEncode
  <2>1. /\ epc = "return" /\ eret = "none" /\ ecalls' = Append(ecalls, OnDone)
        /\ inpos' = inpos /\ epc' = "end" /\ eret' \in {"ok", "error"}
        /\ eret' = "ok" => ~eierr /\ ~eoerr
    BY <1>1, <1>5 DEF ReturnEncode, Done
  <2>2. /\ Heard(ecalls', eret', TRUE)
        /\ Told(ecalls')[Len(ecalls')] = total
    <3>1. Heard(ecalls, eret, TRUE) /\ OnDone \in Call /\ OnDone.size = 0 /\ OnDone # OnInit
      BY <1>2, <2>1, CallFacts
    <3>2. eret \notin {"ok", "error"} /\ eret' \in {"ok", "error"}
      BY <2>1
    <3>3. /\ Heard(Append(ecalls, OnDone), eret', TRUE)
          /\ Told(Append(ecalls, OnDone))[Len(Append(ecalls, OnDone))]
               = Told(ecalls)[Len(ecalls)] + OnDone.size
      BY <3>1, <3>2, MoreHeard
    <3>4. total = Told(ecalls)[Len(ecalls)]
      BY DEF total
    <3>5. total + OnDone.size = total
      BY <1>2, <3>1
    <3>. QED  BY <2>1, <3>3, <3>4, <3>5
  <2>3. (epc' # "start") = TRUE
    BY <2>1
  <2>4. Heard(ecalls', eret', epc' # "start")
    BY <2>2, <2>3
  <2>. QED  BY <1>1, <1>2, <2>1, <2>2, <2>4 DEF EncHeard
<1>6. CASE GetData
  <2>1. PICK n \in 1 .. BlockSizeIn - ilen : inpos' = inpos + n /\ ilen' = ilen + n
    BY <1>6 DEF GetData
  <2>2. inpos' \in Nat /\ inpos <= inpos' /\ inpos' - ilen' = inpos - ilen
    BY <1>1, <2>1
  <2>3. /\ epc = "get" /\ UNCHANGED <<ecalls, eret, eoerr>> /\ eret = "none"
        /\ epc' = "read" \/ (epc' = "return" /\ eierr')
    BY <1>1, <1>6 DEF GetData
  <2>4. total' = total
    BY <2>3 DEF total
  <2>5. /\ Heard(ecalls', eret', epc' # "start") /\ total' <= inpos' /\ total' = inpos' - ilen'
    BY <1>1, <1>2, <2>2, <2>3, <2>4
  <2>. QED  BY <2>3, <2>5 DEF EncHeard, total
<1>7. CASE BeginBlock
  <2>1. /\ epc = "block" /\ UNCHANGED <<ecalls, eret, inpos>> /\ eret = "none"
        /\ epc' = "return" \/ (epc' = "read" /\ ilen' = 0)
    BY <1>1, <1>7 DEF BeginBlock
  <2>. QED  BY <1>1, <1>2, <2>1 DEF EncHeard, total
<1>8. CASE ThrowInChunk
  <2>1. epc = "encode" /\ epc' = "end" /\ eret' = "thrown" /\ eret = "none" /\ UNCHANGED <<ecalls, inpos>>
    BY <1>1, <1>8 DEF ThrowInChunk
  <2>2. Heard(ecalls', eret', epc' # "start")
    BY <1>2, <2>1, SameHeard
  <2>. QED  BY <1>2, <2>1, <2>2 DEF EncHeard, total
<1>9. CASE /\ epc \in {"read", "get", "chunk", "encode", "header", "data"}
           /\ UNCHANGED <<ecalls, eret, inpos, ilen>> /\ eret = "none"
           /\ \/ epc' \in {"get", "chunk", "encode", "header", "data", "process"}
              \/ epc' = "return" /\ eoerr'
  <2>1. Heard(ecalls', eret', epc' # "start")
    BY <1>2, <1>9
  <2>. QED  BY <1>2, <1>9, <2>1 DEF EncHeard, total
<1>10. ASSUME NEW units, NEW next, Put(units, next)
       PROVE  epc' = next \/ (epc' = "return" /\ eoerr')
  BY <1>10 DEF Put
<1>11. CASE PutContinue \/ PutHeader \/ PutPieces \/ PutStop
  <2>1. /\ epc \in {"chunk", "header", "data"} /\ UNCHANGED <<ecalls, eret, inpos, ilen>> /\ eret = "none"
    BY <1>1, <1>11 DEF PutContinue, PutHeader, PutPieces, PutStop
  <2>2. \E next \in {"encode", "data", "chunk", "process"} : \E units : Put(units, next)
    <3>1. PutContinue => Put(<<Continue>>, "encode")
      BY DEF PutContinue
    <3>2. PutStop => Put(<<Stop>>, "process")
      BY DEF PutStop
    <3>3. PutHeader => Put(Header, "data")
      BY DEF PutHeader
    <3>4. PutPieces => \E next \in {"data", "chunk"} : \E units : Put(units, next)
      <4>1. SUFFICES ASSUME PutPieces PROVE \E next \in {"data", "chunk"} : \E units : Put(units, next)
        OBVIOUS
      <4>2. PICK n \in 1 .. chunk.olen - eoff :
              Put([k \in 1 .. n |-> Piece(chunk.from, chunk.to)],
                  IF eoff + n < chunk.olen THEN "data" ELSE "chunk")
        BY <4>1 DEF PutPieces
      <4>. QED  BY <4>2
    <3>. QED  BY <1>11, <3>1, <3>2, <3>3, <3>4
  <2>. QED  BY <1>9, <1>10, <2>1, <2>2
<1>12. CASE TestRead \/ EncodeChunk
  BY <1>1, <1>9, <1>12 DEF TestRead, EncodeChunk
<1>. QED  BY <1>3, <1>4, <1>5, <1>6, <1>7, <1>8, <1>11, <1>12 DEF EncodeNext

(* Every step of Decode. *)
LEMMA DecodeHeard == ASSUME DecTypes, DecHeard, DecodeNext PROVE DecHeard'
<1> DEFINE total == Told(dcalls)[Len(dcalls)]
<1>1. /\ out \in Seq(Nat) /\ block \in Seq(Nat) /\ Len(out) \in Nat /\ Len(block) \in Nat /\ ooff \in Nat
      /\ dierr \in BOOLEAN /\ doerr \in BOOLEAN /\ (dpc = "output" => ooff <= Len(block))
      /\ dret \in {"none", "ok", "error", "thrown"} /\ (dpc # "end" => dret = "none")
  BY DEF DecTypes
<1>2. /\ Heard(dcalls, dret, dpc # "start") /\ total \in Nat /\ total <= Len(out)
      /\ dpc \in {"start", "block", "first", "flag", "header", "data", "more", "decode"} =>
           total = Len(out)
      /\ dpc = "output" => total = Len(out) - ooff
      /\ dpc = "return" /\ ~dierr /\ ~doerr => total = Len(out)
      /\ dret = "ok" => total = Len(out)
  BY DEF DecHeard, Heard, Counted
<1> HIDE DEF total
<1>3. CASE StartDecode
  <2>1. /\ dpc = "start" /\ dret = "none" /\ dcalls' = <<OnInit>> /\ out' = out
        /\ dpc' \in {"block", "end"} /\ dret' \in {"none", "thrown"}
    BY <1>1, <1>3 DEF StartDecode, Throw
  <2>2. /\ Heard(dcalls', dret', TRUE)
        /\ total = 0 /\ Told(dcalls')[Len(dcalls')] = 0
    <3>1. Heard(dcalls, dret, FALSE)
      BY <1>2, <2>1
    <3>. QED  BY <2>1, <3>1, FirstHeard DEF total
  <2>3. (dpc' # "start") = TRUE
    BY <2>1
  <2>4. Heard(dcalls', dret', dpc' # "start")
    BY <2>2, <2>3
  <2>5. Len(out) = 0 /\ Len(out') = 0
    BY <1>2, <2>1, <2>2
  <2>. QED  BY <2>1, <2>2, <2>4, <2>5 DEF DecHeard
<1>4. CASE ProcessDecoded
  <2>1. /\ dpc = "output" /\ dret = "none" /\ dcalls' = Append(dcalls, OnProcess(Len(block)))
        /\ out' = out /\ dpc' = "block" /\ dret' = "none" /\ ooff = Len(block)
    BY <1>1, <1>4 DEF ProcessDecoded
  <2>2. /\ Heard(dcalls', dret', TRUE)
        /\ Told(dcalls')[Len(dcalls')] = total + Len(block)
    <3> DEFINE c == OnProcess(Len(block))
    <3>1. Heard(dcalls, dret, TRUE) /\ c \in Call /\ c.size = Len(block)
      BY <1>1, <1>2, <2>1, CallFacts
    <3>2. c # OnInit /\ (dret' \in {"ok", "error"} <=> c = OnDone)
      BY <1>1, <2>1, CallFacts
    <3>3. dret \notin {"ok", "error"}
      BY <2>1
    <3>4. /\ Heard(Append(dcalls, c), dret', TRUE)
          /\ Told(Append(dcalls, c))[Len(Append(dcalls, c))] = Told(dcalls)[Len(dcalls)] + c.size
      <4> HIDE DEF c
      <4>. QED  BY <3>1, <3>2, <3>3, MoreHeard
    <3>. QED  BY <2>1, <3>1, <3>4 DEF total
  <2>3. (dpc' # "start") = TRUE
    BY <2>1
  <2>4. Heard(dcalls', dret', dpc' # "start")
    BY <2>2, <2>3
  <2>5. total + Len(block) = Len(out)
    BY <1>1, <1>2, <2>1
  <2>. QED  BY <1>1, <2>1, <2>2, <2>4, <2>5 DEF DecHeard
<1>5. CASE ReturnDecode
  <2>1. /\ dpc = "return" /\ dret = "none" /\ dcalls' = Append(dcalls, OnDone)
        /\ out' = out /\ dpc' = "end" /\ dret' \in {"ok", "error"}
        /\ dret' = "ok" => ~dierr /\ ~doerr
    BY <1>1, <1>5 DEF ReturnDecode, Done
  <2>2. /\ Heard(dcalls', dret', TRUE)
        /\ Told(dcalls')[Len(dcalls')] = total
    <3>1. Heard(dcalls, dret, TRUE) /\ OnDone \in Call /\ OnDone.size = 0 /\ OnDone # OnInit
      BY <1>2, <2>1, CallFacts
    <3>2. dret \notin {"ok", "error"} /\ dret' \in {"ok", "error"}
      BY <2>1
    <3>3. /\ Heard(Append(dcalls, OnDone), dret', TRUE)
          /\ Told(Append(dcalls, OnDone))[Len(Append(dcalls, OnDone))]
               = Told(dcalls)[Len(dcalls)] + OnDone.size
      BY <3>1, <3>2, MoreHeard
    <3>4. total = Told(dcalls)[Len(dcalls)]
      BY DEF total
    <3>5. total + OnDone.size = total
      BY <1>2, <3>1
    <3>. QED  BY <2>1, <3>3, <3>4, <3>5
  <2>3. (dpc' # "start") = TRUE
    BY <2>1
  <2>4. Heard(dcalls', dret', dpc' # "start")
    BY <2>2, <2>3
  <2>. QED  BY <1>1, <1>2, <2>1, <2>2, <2>4 DEF DecHeard
<1>6. CASE PutData
  <2>1. /\ dpc = "output" /\ ooff < Len(block) /\ dret = "none" /\ UNCHANGED <<dcalls, dret>>
    BY <1>1, <1>6 DEF PutData
  <2>2. PICK n \in 0 .. Len(block) - ooff :
          /\ out' = out \o Written(n) /\ ooff' = ooff + n
          /\ dpc' = "output" \/ (dpc' = "return" /\ doerr')
    BY <1>6, <2>1 DEF PutData
  <2>3. Written(n) \in Seq(Nat) /\ Len(Written(n)) = n
    BY <1>1, <2>1, <2>2 DEF Written
  <2>4. Len(out') = Len(out) + n /\ Len(out') - ooff' = Len(out) - ooff
    <3>1. Len(out \o Written(n)) = Len(out) + Len(Written(n))
      <4>1. out \in Seq(Nat) /\ Written(n) \in Seq(Nat)
        BY <1>1, <2>3
      <4>. QED  BY <4>1, Joined
    <3>2. n \in Nat
      BY <1>1
    <3>3. Len(out') = Len(out) + n
      BY <2>2, <2>3, <3>1
    <3>. QED  BY <1>1, <2>2, <3>2, <3>3
  <2>5. Heard(dcalls', dret', dpc' # "start")
    BY <1>2, <2>1, <2>2
  <2>6. total' = total
    BY <2>1 DEF total
  <2>7. total' <= Len(out') /\ total' = Len(out') - ooff'
    BY <1>1, <1>2, <2>1, <2>2, <2>4, <2>6
  <2>. QED  BY <2>1, <2>2, <2>5, <2>7 DEF DecHeard, total
<1>7. CASE /\ dpc \in {"block", "first", "flag", "header", "data", "more", "decode"}
           /\ UNCHANGED <<dcalls, out>> /\ dret = "none" /\ dpc' # "start" /\ dret' \in {"none", "thrown"}
           /\ dpc' = "output" => ooff' = 0
  <2>1. Heard(dcalls, dret', dpc # "start")
    BY <1>2, <1>7, SameHeard
  <2>2. Heard(dcalls', dret', dpc' # "start")
    BY <1>7, <2>1
  <2>. QED  BY <1>1, <1>2, <1>7, <2>2 DEF DecHeard, total
<1>8. CASE BeginDecodeBlock \/ GetPieces \/ MorePieces \/ GoAstray
  BY <1>1, <1>7, <1>8 DEF BeginDecodeBlock, GetPieces, MorePieces, GoAstray
<1>a. CASE GetFlag
  <2>1. dpc \in {"first", "flag"} /\ UNCHANGED <<dcalls, out>> /\ ooff' = 0
    BY <1>a DEF GetFlag
  <2>2. dpc' \in {"output", "header", "end"} /\ dret' \in {dret, "thrown"}
    BY <1>a DEF GetFlag, Throw
  <2>. QED  BY <1>1, <1>7, <2>1, <2>2
<1>9. CASE GetHeader
  <2>1. dpc = "header" /\ UNCHANGED <<dcalls, out>>
    BY <1>9 DEF GetHeader
  <2>2. /\ dpc' \in {"return", "data", "end"} /\ dret' \in {dret, "thrown"}
    BY <1>9 DEF GetHeader, Throw
  <2>. QED  BY <1>1, <1>7, <2>1, <2>2
<1>10. CASE DecodeChunk
  <2>1. dpc = "decode" /\ UNCHANGED <<dcalls, out>>
    BY <1>10 DEF DecodeChunk
  <2>2. /\ dpc' \in {"flag", "end"} /\ dret' \in {dret, "thrown"}
    BY <1>10 DEF DecodeChunk, Accept, Throw
  <2>. QED  BY <1>1, <1>7, <2>1, <2>2
<1>. QED  BY <1>3, <1>4, <1>5, <1>6, <1>8, <1>9, <1>10, <1>a DEF DecodeNext

(* What has been heard is what the protocol of calls allows. *)
LEMMA ProtocolKept ==
  ASSUME NEW calls, NEW ret, NEW started \in BOOLEAN, Heard(calls, ret, started),
         NEW total, Told(calls)[Len(calls)] <= total, ret = "ok" => Told(calls)[Len(calls)] = total
  PROVE  HandlerProtocol(calls, ret, total)
<1>1. /\ calls \in Seq(Call) /\ Len(calls) \in Nat
      /\ Len(calls) > 0 => calls[1] = OnInit
      /\ \A k \in 2 .. Len(calls) : calls[k] # OnInit
      /\ \A k \in 1 .. Len(calls) - 1 : calls[k] # OnDone
      /\ ret \in {"ok", "error"} <=> Len(calls) > 0 /\ calls[Len(calls)] = OnDone
  BY DEF Heard
<1>2. ASSUME NEW k \in 1 .. Len(calls)
      PROVE  (k = 1 <=> calls[k] = OnInit) /\ (calls[k] = OnDone => k = Len(calls))
  <2>1. k = 1 \/ k \in 2 .. Len(calls)
    BY <1>1
  <2>2. k = Len(calls) \/ k \in 1 .. Len(calls) - 1
    BY <1>1
  <2>. QED  BY <1>1, <2>1, <2>2
<1>. QED  BY <1>1, <1>2 DEF HandlerProtocol

(* The handlers' calls and the work are in step. *)
THEOREM CallsCounted == Spec => [](EncHeard /\ DecHeard)
<1>1. Init => EncHeard /\ DecHeard
  <2>1. Heard(<<>>, "none", FALSE)
    BY NothingTold, CallFacts DEF Heard
  <2>2. Told(<<>>)[Len(<<>>)] = 0
    BY NothingTold
  <2>3. SUFFICES ASSUME Init PROVE EncHeard /\ DecHeard
    OBVIOUS
  <2>4. /\ ecalls = <<>> /\ eret = "none" /\ epc = "start" /\ inpos = 0
        /\ dcalls = <<>> /\ dret = "none" /\ dpc = "start" /\ out = <<>> /\ Len(out) = 0
    BY <2>3 DEF Init, EncodeInit, DecodeInit
  <2>5. (epc # "start") = FALSE /\ (dpc # "start") = FALSE
    BY <2>4
  <2>6. Heard(ecalls, eret, epc # "start") /\ Heard(dcalls, dret, dpc # "start")
    BY <2>1, <2>4, <2>5
  <2>. QED  BY <2>2, <2>4, <2>6 DEF EncHeard, DecHeard
<1>2. FileInv /\ EncHeard /\ DecHeard /\ [Next]_vars => (EncHeard /\ DecHeard)'
  <2>1. SUFFICES ASSUME FileInv, EncHeard, DecHeard, [Next]_vars PROVE EncHeard' /\ DecHeard'
    OBVIOUS
  <2>2. ASSUME UNCHANGED encodeVars PROVE EncHeard'
    BY <2>1, <2>2 DEF encodeVars, EncHeard
  <2>3. ASSUME UNCHANGED decodeVars PROVE DecHeard'
    BY <2>1, <2>3 DEF decodeVars, DecHeard
  <2>4. CASE Encode
    BY <2>1, <2>3, <2>4, EncodeHeard DEF Encode, FileInv
  <2>5. CASE Decode
    BY <2>1, <2>2, <2>5, DecodeHeard DEF Decode, FileInv, DecInv
  <2>6. CASE LoseTail
    <3>1. UNCHANGED <<ecalls, eret, epc, inpos, ilen, eierr, eoerr>> /\ UNCHANGED decodeVars
      BY <2>6 DEF LoseTail
    <3>2. EncHeard'
      BY <2>1, <3>1 DEF EncHeard
    <3>. QED  BY <2>3, <3>1, <3>2
  <2>7. CASE UNCHANGED vars
    BY <2>2, <2>3, <2>7 DEF vars
  <2>. QED  BY <2>1, <2>4, <2>5, <2>6, <2>7 DEF Next, Terminating
<1>. QED  BY Invariance, <1>1, <1>2, PTL DEF Spec

(* The handlers hear of the beginning, of every block, and of the end.       *)
THEOREM HandlersHearAllHolds == Spec => []HandlersHearAll
<1>1. EncHeard /\ DecHeard => HandlersHearAll
  <2>1. SUFFICES ASSUME EncHeard, DecHeard PROVE HandlersHearAll
    OBVIOUS
  <2>2. HandlerProtocol(ecalls, eret, inpos)
    BY <2>1, ProtocolKept DEF EncHeard
  <2>3. HandlerProtocol(dcalls, dret, Len(out))
    BY <2>1, ProtocolKept DEF DecHeard
  <2>. QED  BY <2>2, <2>3 DEF HandlersHearAll
<1>. QED  BY CallsCounted, <1>1, PTL

(***************************************************************************)
(* The bytes that are wrong.                                               *)
(***************************************************************************)

(* None is while nothing has gone wrong. *)
LEMMA NoneSpoiled == ASSUME FileInv, Sound PROVE Spoiled = {}
BY DEF FileInv, DecInv, DecTrip, Spoiled

(* No bytes follow those of a block that is spoiled. *)
LEMMA SpoiledKept ==
  ASSUME FileInv, FileInv', DecHeard, SpoiledLast, DecodeNext, UNCHANGED <<encodeVars, lost>>
  PROVE  SpoiledLast'
<1>1. /\ out \in Seq(Nat) /\ block \in Seq(Nat) /\ Len(out) \in Nat /\ Len(block) \in Nat /\ ooff \in Nat
      /\ dierr \in BOOLEAN /\ (dpc = "output" => ooff <= Len(block))
      /\ dpos \in 0 .. Len(file) /\ Len(file) \in Nat /\ file' = file
      /\ dpc = "start" => out = <<>>
  <2>1. DecTypes /\ file' = file /\ Len(file) \in Nat
    BY DEF FileInv, EncInv, StreamOK, DecInv, encodeVars
  <2>. QED  BY <2>1 DEF DecTypes
<1>2. /\ dcalls \in Seq(Call) /\ Len(dcalls) \in Nat /\ Counted(dcalls)
      /\ \A k \in 0 .. Len(dcalls) :
           Told(dcalls)[k] \in Nat /\ Told(dcalls)[k] <= Told(dcalls)[Len(dcalls)]
      /\ dpc = "output" => Told(dcalls)[Len(dcalls)] = Len(out) - ooff
  BY DEF DecHeard, Heard, Counted
<1>3. Spoiled' # {} => dierr' \/ dpos' = Len(file)
  <2>1. Sound' => Spoiled' = {}
    BY DEF FileInv, DecInv, DecTrip, Spoiled
  <2>2. dpos' \in 0 .. Len(file)
    BY <1>1 DEF FileInv, DecInv, DecTypes
  <2>. QED  BY <1>1, <2>1, <2>2 DEF Sound
<1>4. CASE /\ UNCHANGED <<out, dcalls>>
           /\ dpc \in {"data", "more", "decode"} \/ (dpc = "start" /\ out = <<>>)
  <2>1. Spoiled = {}
    <3>1. CASE dpc \in {"data", "more", "decode"}
      BY <3>1 DEF SpoiledLast
    <3>2. CASE out = <<>>
      BY <3>2 DEF Spoiled
    <3>. QED  BY <1>4, <3>1, <3>2
  <2>2. Spoiled' = {}
    BY <1>4, <2>1 DEF Spoiled
  <2>. QED  BY <2>2 DEF SpoiledLast
<1>a. ASSUME UNCHANGED <<out, dcalls>>,
             ASSUME NEW i \in Spoiled
             PROVE  /\ dpc' \notin {"data", "more", "decode", "astray"}
                    /\ dpc' \in {"first", "flag", "header"} => dierr' /\ block' = <<>>
                    /\ dpc' = "output" => block' = <<>>
      PROVE  SpoiledLast'
  <2>1. Spoiled' = Spoiled
    BY <1>a DEF Spoiled
  <2>2. ASSUME NEW i \in Spoiled, NEW k \in 1 .. Len(dcalls),
               dcalls[k].call = "process", dcalls[k].size > 0
        PROVE  Told(dcalls)[k - 1] < i
    BY <2>2 DEF SpoiledLast
  <2>. QED  BY <1>1, <1>3, <1>a, <2>1, <2>2 DEF SpoiledLast
<1>b. CASE BeginDecodeBlock
  <2>1. /\ dpc = "block" /\ UNCHANGED <<out, dcalls, dpos>>
        /\ \E ends \in BOOLEAN :
             /\ TestEnd(Rest = 0, dierr, ends, dierr')
             /\ IF ends THEN dpc' = "return" ELSE dpc' = "first" /\ block' = <<>>
    BY <1>b DEF BeginDecodeBlock
  <2>2. ASSUME NEW i \in Spoiled PROVE dpc' = "return" \/ (dpc' = "first" /\ dierr' /\ block' = <<>>)
    <3>1. dierr \/ dpos = Len(file)
      BY <2>1, <2>2 DEF SpoiledLast
    <3>2. CASE dpc' = "return"
      BY <3>2
    <3>3. CASE dpc' # "return"
      <4>1. ~(Rest = 0) /\ dierr' = dierr /\ dpc' = "first" /\ block' = <<>>
        BY <1>1, <2>1, <3>3, EndTested
      <4>. QED  BY <1>1, <3>1, <4>1 DEF Rest
    <3>. QED  BY <3>2, <3>3
  <2>. QED  BY <1>a, <2>1, <2>2
<1>c. CASE GetFlag
  <2>1. /\ dpc \in {"first", "flag"} /\ UNCHANGED <<out, dcalls, block>>
        /\ dpc' \in {"output", "header", "end"}
    BY <1>c DEF GetFlag, Throw
  <2>2. dierr => dierr'
    BY <1>1, <1>c, EndTested DEF GetFlag
  <2>3. ASSUME NEW i \in Spoiled PROVE dierr /\ block = <<>>
    BY <2>1, <2>3 DEF SpoiledLast
  <2>. QED  BY <1>a, <2>1, <2>2, <2>3
<1>d. CASE GetHeader
  <2>1. dpc = "header" /\ UNCHANGED <<out, dcalls>> /\ (dierr => dpc' = "return")
    BY <1>d DEF GetHeader
  <2>2. ASSUME NEW i \in Spoiled PROVE dierr
    BY <2>1, <2>2 DEF SpoiledLast
  <2>. QED  BY <1>a, <2>1, <2>2
<1>5. CASE PutData
  <2>1. dpc = "output" /\ ooff < Len(block) /\ UNCHANGED <<dcalls, block, dierr, dpos>>
    BY <1>5 DEF PutData
  <2>2. PICK n \in 0 .. Len(block) - ooff :
          /\ out' = out \o Written(n) /\ ooff' = ooff + n /\ dpc' \in {"output", "return"}
    BY <1>5, <2>1 DEF PutData
  <2>0. n \in Nat /\ ooff + n <= Len(block)
    BY <1>1, <2>1
  <2>3. Written(n) \in Seq(Nat) /\ Len(Written(n)) = n
    BY <1>1, <2>0 DEF Written
  <2>4. /\ Len(out \o Written(n)) = Len(out) + Len(Written(n))
        /\ \A i \in 1 .. Len(out) : (out \o Written(n))[i] = out[i]
    <3>1. out \in Seq(Nat) /\ Written(n) \in Seq(Nat)
      BY <1>1, <2>3
    <3>. QED  BY <3>1, Joined
  <2>5. n \in Nat /\ Len(out') = Len(out) + n /\ \A i \in 1 .. Len(out) : out'[i] = out[i]
    BY <1>1, <2>2, <2>3, <2>4
  <2>6. Len(out') - ooff' = Len(out) - ooff
    BY <1>1, <2>2, <2>5
  <2>7. ASSUME NEW i \in Spoiled'
        PROVE  Len(out) - ooff < i /\ \A k \in 1 .. Len(dcalls) :
                 dcalls[k].call = "process" /\ dcalls[k].size > 0 => Told(dcalls)[k - 1] < i
    <3>1. i \in 1 .. Len(out') /\ out'[i] # i
      BY <2>7 DEF Spoiled
    <3>2. CASE i <= Len(out)
      <4>1. i \in Spoiled
        BY <1>1, <2>5, <3>1, <3>2 DEF Spoiled
      <4>2. block # <<>>
        BY <1>1, <2>1
      <4>. QED  BY <2>1, <4>1, <4>2 DEF SpoiledLast
    <3>3. CASE i > Len(out)
      <4>1. Len(out) - ooff < i /\ i \in Nat
        BY <1>1, <2>5, <3>1, <3>3
      <4>2. ASSUME NEW k \in 1 .. Len(dcalls) PROVE Told(dcalls)[k - 1] < i
        <5>1. k - 1 \in 0 .. Len(dcalls) /\ Len(dcalls) \in 0 .. Len(dcalls)
          BY <1>2
        <5>2. /\ Told(dcalls)[k - 1] \in Nat /\ Told(dcalls)[k - 1] <= Len(out) - ooff
          BY <1>2, <2>1, <5>1
        <5>. QED  BY <1>1, <4>1, <5>2
      <4>. QED  BY <4>1, <4>2
    <3>. QED  BY <1>1, <2>5, <3>1, <3>2, <3>3
  <2>. QED  BY <1>1, <1>3, <2>1, <2>2, <2>6, <2>7 DEF SpoiledLast
<1>6. CASE ProcessDecoded
  <2> DEFINE c == OnProcess(Len(block))
  <2>1. /\ dpc = "output" /\ dpc' = "block" /\ dcalls' = Append(dcalls, c) /\ out' = out
        /\ ooff = Len(block) /\ UNCHANGED <<dierr, dpos>>
    BY <1>6 DEF ProcessDecoded
  <2>2. c \in Call /\ c.size = Len(block)
    BY <1>1, CallFacts
  <2> HIDE DEF c
  <2>3. /\ Len(dcalls') = Len(dcalls) + 1 /\ \A k \in 1 .. Len(dcalls) : dcalls'[k] = dcalls[k]
        /\ \A k \in 0 .. Len(dcalls) : Told(dcalls')[k] = Told(dcalls)[k]
    BY <1>2, <2>1, <2>2, OneMoreCall
  <2>4. ASSUME NEW i \in Spoiled', NEW k \in 1 .. Len(dcalls'),
               dcalls'[k].call = "process", dcalls'[k].size > 0
        PROVE  Told(dcalls')[k - 1] < i
    <3>1. i \in Spoiled
      BY <2>1, <2>4 DEF Spoiled
    <3>2. k - 1 \in 0 .. Len(dcalls)
      BY <1>2, <2>3
    <3>3. CASE k \in 1 .. Len(dcalls)
      BY <2>3, <2>4, <3>1, <3>2, <3>3 DEF SpoiledLast
    <3>4. CASE k = Len(dcalls) + 1
      <4>1. k - 1 = Len(dcalls)
        BY <1>2, <3>4
      <4>2. Told(dcalls)[k - 1] = Len(out) - ooff
        BY <1>2, <2>1, <4>1
      <4>3. dcalls'[k] = c
        BY <1>2, <2>1, <3>4
      <4>4. block # <<>>
        BY <1>1, <2>2, <2>4, <4>3
      <4>. QED  BY <2>1, <2>3, <3>1, <3>2, <4>2, <4>4 DEF SpoiledLast
    <3>. QED  BY <1>2, <2>3, <3>3, <3>4
  <2>. QED  BY <1>1, <1>3, <2>1, <2>4 DEF SpoiledLast
<1>7. CASE ReturnDecode
  <2>1. /\ dpc = "return" /\ dpc' = "end" /\ dcalls' = Append(dcalls, OnDone) /\ out' = out
    BY <1>7 DEF ReturnDecode, Done
  <2>2. /\ Len(dcalls') = Len(dcalls) + 1 /\ \A k \in 1 .. Len(dcalls) : dcalls'[k] = dcalls[k]
        /\ dcalls'[Len(dcalls) + 1] = OnDone
        /\ \A k \in 0 .. Len(dcalls) : Told(dcalls')[k] = Told(dcalls)[k]
    BY <1>2, <2>1, CallFacts, OneMoreCall
  <2>3. ASSUME NEW i \in Spoiled', NEW k \in 1 .. Len(dcalls'),
               dcalls'[k].call = "process", dcalls'[k].size > 0
        PROVE  Told(dcalls')[k - 1] < i
    <3>1. i \in Spoiled
      BY <2>1, <2>3 DEF Spoiled
    <3>2. k \in 1 .. Len(dcalls)
      <4>1. k # Len(dcalls) + 1
        BY <2>2, <2>3, CallFacts
      <4>. QED  BY <1>2, <2>2, <4>1
    <3>3. k - 1 \in 0 .. Len(dcalls)
      BY <1>2, <3>2
    <3>. QED  BY <2>2, <2>3, <3>1, <3>2, <3>3 DEF SpoiledLast
  <2>. QED  BY <2>1, <2>3 DEF SpoiledLast
<1>8. CASE StartDecode
  <2>1. dpc = "start" /\ out' = out
    BY <1>8 DEF StartDecode
  <2>. QED  BY <1>1, <2>1 DEF SpoiledLast, Spoiled
<1>9. CASE GetPieces \/ MorePieces \/ DecodeChunk \/ GoAstray
  BY <1>4, <1>9 DEF GetPieces, MorePieces, DecodeChunk, GoAstray
<1>. QED  BY <1>5, <1>6, <1>7, <1>8, <1>9, <1>b, <1>c, <1>d DEF DecodeNext

(* Whatever gets lost and whatever fails, even for a moment only, no block   *)
(* after the one a wrong byte is in has any bytes; and a byte is wrong only  *)
(* if something has got lost or failed.                                      *)
THEOREM OnlyLastBlockSpoiledHolds == Spec => []OnlyLastBlockSpoiled
<1>1. Init => SpoiledLast
  <2>1. SUFFICES ASSUME Init PROVE SpoiledLast
    OBVIOUS
  <2>2. out = <<>> /\ Len(out) = 0
    BY <2>1 DEF Init, DecodeInit
  <2>. QED  BY <2>2 DEF SpoiledLast, Spoiled
<1>2. FileInv /\ FileInv' /\ DecHeard /\ SpoiledLast /\ [Next]_vars => SpoiledLast'
  <2>1. SUFFICES ASSUME FileInv, FileInv', DecHeard, SpoiledLast, [Next]_vars PROVE SpoiledLast'
    OBVIOUS
  <2>2. CASE Encode \/ LoseTail
    <3>1. dpc = "start" /\ out' = out
      BY <2>1, <2>2 DEF Encode, LoseTail, decodeVars, FileInv, DecInv
    <3>2. out = <<>>
      BY <2>1, <3>1 DEF FileInv, DecInv, DecTypes
    <3>. QED  BY <3>1, <3>2 DEF SpoiledLast, Spoiled
  <2>3. CASE Decode
    BY <2>1, <2>3, SpoiledKept DEF Decode
  <2>4. CASE UNCHANGED vars
    BY <2>1, <2>4 DEF vars, encodeVars, decodeVars, SpoiledLast, Spoiled
  <2>. QED  BY <2>1, <2>2, <2>3, <2>4 DEF Next, Terminating
<1>3. FileInv /\ SpoiledLast => OnlyLastBlockSpoiled
  <2>1. SUFFICES ASSUME FileInv, SpoiledLast, NEW i \in 1 .. Len(out), out[i] # i
                 PROVE  /\ lost \/ eret # "ok" \/ dierr
                        /\ dpos = Len(file) \/ dierr
                        /\ \A k \in 1 .. Len(dcalls) :
                             dcalls[k].call = "process" /\ dcalls[k].size > 0 =>
                               Told(dcalls)[k - 1] < i
    BY DEF OnlyLastBlockSpoiled
  <2>2. i \in Spoiled
    BY <2>1 DEF Spoiled
  <2>3. ~Sound
    BY <2>1, <2>2, NoneSpoiled
  <2>4. dpos \in 0 .. Len(file) /\ Len(file) \in Nat
    BY <2>1 DEF FileInv, EncInv, StreamOK, DecInv, DecTypes
  <2>. QED  BY <2>1, <2>2, <2>3, <2>4 DEF Sound, Perfect, SpoiledLast
<1>. QED  BY Invariance, CallsCounted, <1>1, <1>2, <1>3, PTL DEF Spec

(***************************************************************************)
(* The ways in which Decode goes astray.                                   *)
(***************************************************************************)

(* Of what Decode has read when it comes to a chunk's data. *)
LEMMA StrayKept ==
  ASSUME FileInv, StrayInv, DecodeNext, file' = file
  PROVE  StrayInv'
<1>1. /\ dpos \in 0 .. Len(file) /\ Len(file) \in Nat /\ StreamOK(file, inSize) /\ DecPlace
      /\ dierr \in BOOLEAN /\ filled \in Nat /\ cur.got \in Nat /\ cur.olen \in Int
      /\ cur \in [encpos : Int, rlen : Int, olen : Int, from : Nat, to : Nat, got : Nat, whole : BOOLEAN]
      /\ dpc = "start" => dpos = 0
  BY DEF FileInv, EncInv, StreamOK, DecInv, DecTypes
<1>2. CASE UNCHANGED <<dpos, filled>> /\ dpc \in {"start", "block", "output"}
           /\ (dierr => dierr') /\ dpc' \in {"block", "first", "output", "return", "end"}
  BY <1>1, <1>2 DEF StrayInv, FirstChunk, MaySpin
<1>3. CASE StartDecode \/ PutData \/ ProcessDecoded
  BY <1>1, <1>2, <1>3 DEF StartDecode, Throw, PutData, ProcessDecoded
<1>4. CASE BeginDecodeBlock
  <2>1. dierr => dierr'
    BY <1>1, <1>4, EndTested DEF BeginDecodeBlock
  <2>. QED  BY <1>2, <1>4, <2>1 DEF BeginDecodeBlock
<1>5. CASE GetFlag
  <2>1. PICK ends \in BOOLEAN :
          /\ TestEnd(Rest = 0, dierr, ends, dierr')
          /\ IF ends THEN dpc' = "output" /\ dpos' = dpos
             ELSE /\ dpos' = dpos + 1
                  /\ \E v \in FlagValues(file[dpos + 1]) :
                       \/ v = Stop.v /\ dpc' = "output"
                       \/ v = Continue.v /\ dpc' = "header"
                       \/ v \notin {Stop.v, Continue.v} /\ dpc' = "end"
    BY <1>5 DEF GetFlag, Throw
  <2>2. dpc \in {"first", "flag"} /\ filled' = filled /\ dpc' \in {"output", "header", "end"}
    BY <1>5, <2>1 DEF GetFlag
  <2>3. /\ (dierr => dierr') /\ (ends => Rest = 0 \/ dierr')
        /\ ~ends => ~(Rest = 0) /\ dierr' = dierr
    BY <1>1, <2>1, EndTested
  <2>4. ASSUME MaySpin PROVE FirstChunk'
    <3>1. dierr \/ dpos = Len(file) \/ dpos = 0
      BY <2>2, <2>4 DEF StrayInv, FirstChunk
    <3>2. CASE ends
      BY <1>1, <2>1, <2>3, <3>2 DEF FirstChunk, Rest
    <3>3. CASE ~ends /\ ~dierr
      <4>1. dpos = 0 /\ dpos' = 1 /\ Len(file) >= 1 /\ IsFlag(file[1])
        BY <1>1, <2>1, <2>2, <2>3, <3>1, <3>3 DEF Rest, DecPlace
      <4>2. /\ FlagValues(file[1]) = {file[1].v} /\ Stop.v = 0 /\ Continue.v = 1
            /\ dpos + 1 = 1
        BY <4>1 DEF FlagValues, IsFlag, Stop, Continue
      <4>3. CASE file[1] = Stop
        <5>1. StopOK(file, 1)
          BY <1>1, <4>1 DEF StreamOK
        <5>2. Len(file) = 1
          <6>1. ~(1 < Len(file))
            BY <4>3, <5>1 DEF StopOK
          <6>2. Len(file) \in Nat /\ Len(file) >= 1
            BY <1>1, <4>1
          <6>. QED  BY <6>1, <6>2
        <5>3. dpc' = "output"
          BY <2>1, <3>3, <4>1, <4>2, <4>3
        <5>. QED  BY <4>1, <5>2, <5>3 DEF FirstChunk
      <4>4. CASE file[1] = Continue
        <5>1. dpc' \in {"header", "end"}
          BY <2>1, <3>3, <4>1, <4>2, <4>4
        <5>. QED  BY <4>1, <5>1 DEF FirstChunk
      <4>. QED  BY <4>1, <4>3, <4>4 DEF IsFlag
    <3>4. CASE ~ends /\ dierr
      BY <2>2, <2>3, <3>4 DEF FirstChunk
    <3>. QED  BY <3>2, <3>3, <3>4
  <2>. QED  BY <2>2, <2>4 DEF StrayInv, MaySpin
<1>6. CASE GetHeader
  <2>1. CASE dpc' = "data"
    <3>1. /\ dpc = "header" /\ ~dierr /\ ~dierr' /\ filled' = filled
          /\ dpos' = IF Rest < 3 THEN Len(file) ELSE dpos + 3
          /\ \E e \in HeaderNumber(1), r \in HeaderNumber(2), o \in HeaderNumber(3) :
               cur' = [NoHeader EXCEPT !.encpos = e, !.rlen = r, !.olen = o]
      <4>1. dpc = "header" /\ filled' = filled
        BY <1>6 DEF GetHeader
      <4>2. /\ ~dierr /\ UNCHANGED dierr
            /\ dpos' = IF Rest < 3 THEN Len(file) ELSE dpos + 3
            /\ \E e \in HeaderNumber(1), r \in HeaderNumber(2), o \in HeaderNumber(3) :
                 cur' = [NoHeader EXCEPT !.encpos = e, !.rlen = r, !.olen = o]
        BY <1>6, <2>1, Zenon DEF GetHeader
      <4>. QED  BY <4>1, <4>2
    <3>2. cur'.got = 0 /\ cur'.encpos \in HeaderNumber(1)
      BY <3>1 DEF NoHeader
    <3>3. dpos \in 1 .. Len(file) /\ file[dpos] = Continue
      BY <1>1, <3>1 DEF DecPlace
    <3>4. MaySpin => dpos' <= 4 + cur'.got
      <4>1. MaySpin => dpos = 1
        BY <3>1 DEF StrayInv, FirstChunk
      <4>. QED  BY <1>1, <3>1, <3>2, <4>1 DEF Rest
    <3>5. cur'.encpos > BlockSizeIn => Rest = 0
      <4>1. SUFFICES ASSUME Rest # 0 PROVE ~(cur'.encpos > BlockSizeIn)
        OBVIOUS
      <4>2. 1 <= Rest /\ dpos + 1 \in 1 .. Len(file)
        BY <1>1, <3>3, <4>1 DEF Rest
      <4>3. cur'.encpos = Signed(file[dpos + 1].v)
        BY <3>2, <4>2 DEF HeaderNumber
      <4>4. ContinueOK(file, dpos) /\ NumberOK(file, dpos + 1)
        BY <1>1, <3>3, <4>2 DEF StreamOK
      <4>5. file[dpos + 1].kind = "encpos"
        BY <3>3, <4>2, <4>4 DEF ContinueOK, HeaderKind
      <4>6. file[dpos + 1].v \in 0 .. BlockSizeIn
        BY <4>4, <4>5 DEF NumberOK
      <4>7. file[dpos + 1].v \in Nat /\ file[dpos + 1].v < IntRange \div 2
        BY <4>6, Sizes
      <4>8. Signed(file[dpos + 1].v) = file[dpos + 1].v
        BY <4>7, NumberRead
      <4>. QED  BY <4>3, <4>6, <4>8, Sizes
    <3>6. cur'.encpos > BlockSizeIn => dpos' = Len(file') /\ file'[dpos'] = Continue
      <4>1. Rest = 0 => dpos' = Len(file) /\ dpos = Len(file)
        BY <1>1, <3>1, <3>3 DEF Rest
      <4>. QED  BY <3>3, <3>5, <4>1
    <3>. QED  BY <1>1, <2>1, <3>1, <3>2, <3>4, <3>6 DEF StrayInv, FirstChunk, MaySpin, MayWriteBehind
  <2>2. CASE dpc' # "data"
    <3>1. dpc' \in {"return", "end"}
      BY <1>6, <2>2 DEF GetHeader, Throw
    <3>. QED  BY <3>1 DEF StrayInv, FirstChunk
  <2>. QED  BY <2>1, <2>2
<1>7. CASE GetPieces
  <2>1. /\ dpc = "data" /\ dpc' \in {"decode", "more"} /\ UNCHANGED <<dpos, cur, filled>>
    BY <1>7 DEF GetPieces
  <2>. QED  BY <2>1 DEF StrayInv, FirstChunk, MaySpin, MayWriteBehind
<1>8. CASE MorePieces
  <2>1. dpc = "more" /\ dpc' \in {"data", "return"} /\ dpos < Len(file)
    BY <1>1, <1>8 DEF MorePieces, DecPlace
  <2>2. PICK n \in 0 .. cur.olen - cur.got :
          /\ dpos' = dpos + n
          /\ cur' = IF n = 0 THEN cur
                    ELSE [cur EXCEPT !.got = @ + n, !.whole = (cur.got + n = cur.olen),
                                     !.from = file[dpos + 1].from, !.to = file[dpos + 1].to]
          /\ filled' = Filled(cur.got + n)
    BY <1>8 DEF MorePieces
  <2>3. cur'.got = cur.got + n /\ cur'.encpos = cur.encpos /\ n \in Nat
    BY <1>1, <2>2
  <2>4. filled' \in Nat /\ filled <= filled' /\ cur'.got <= filled'
    BY <1>1, <2>2, <2>3 DEF Filled
  <2>5. ~(cur.encpos > BlockSizeIn)
    BY <1>1, <2>1 DEF StrayInv, MayWriteBehind
  <2>6. MaySpin' => dpos' <= 4 + cur'.got
    <3>1. MaySpin' => MaySpin
      BY <1>1, <2>4, Sizes DEF MaySpin
    <3>2. MaySpin => dpos <= 4 + cur.got
      BY <2>1 DEF StrayInv, FirstChunk
    <3>. QED  BY <1>1, <2>2, <2>3, <3>1, <3>2
  <2>. QED  BY <2>1, <2>3, <2>4, <2>5, <2>6 DEF StrayInv, FirstChunk, MayWriteBehind
<1>9. CASE DecodeChunk
  <2>1. dpc = "decode" /\ dpc' \in {"flag", "end"} /\ UNCHANGED <<dpos, dierr, cur, filled>>
    BY <1>9 DEF DecodeChunk, Accept, Throw
  <2>2. ASSUME MaySpin PROVE dierr \/ dpos = Len(file)
    <3>1. SUFFICES ASSUME ~dierr, dpos # Len(file) PROVE FALSE
      OBVIOUS
    <3>2. cur.got >= cur.olen /\ HeaderRead /\ cur.got <= filled
      BY <2>1, <3>1, <1>1 DEF DecPlace, StrayInv
    <3>3. PICK p : p = dpos - cur.got
      OBVIOUS
    <3>4. p >= 4 /\ file[p].kind = "olen" /\ cur.olen = file[p].v
      BY <3>2, <3>3 DEF HeaderRead
    <3>5. p \in 1 .. Len(file)
      BY <1>1, <3>3, <3>4
    <3>6. NumberOK(file, p)
      BY <1>1, <3>5 DEF StreamOK
    <3>7. cur.olen >= DistanceByte
      BY <3>4, <3>6, Sizes DEF NumberOK
    <3>. QED  BY <1>1, <2>2, <3>2, <3>7, Sizes DEF MaySpin
  <2>. QED  BY <2>1, <2>2 DEF StrayInv, FirstChunk, MaySpin
<1>10. CASE GoAstray \/ ReturnDecode
  <2>1. dpc' \in {"astray", "end"}
    BY <1>10 DEF GoAstray, ReturnDecode
  <2>. QED  BY <2>1 DEF StrayInv, FirstChunk
<1>. QED  BY <1>3, <1>4, <1>5, <1>6, <1>7, <1>8, <1>9, <1>10 DEF DecodeNext

(* Decode goes astray only where something is missing of what it reads last, *)
(* and in few places there.                                                  *)
THEOREM AstrayOnlyIfCutHolds == Spec => []AstrayOnlyIfCut
<1>1. Init => StrayInv /\ AstrayOnlyIfCut
  BY DEF Init, DecodeInit, StrayInv, FirstChunk, AstrayOnlyIfCut
<1>2. FileInv /\ StrayInv /\ AstrayOnlyIfCut /\ [Next]_vars => StrayInv' /\ AstrayOnlyIfCut'
  <2>1. SUFFICES ASSUME FileInv, StrayInv, AstrayOnlyIfCut, [Next]_vars
                 PROVE  StrayInv' /\ AstrayOnlyIfCut'
    OBVIOUS
  <2>2. CASE Encode \/ LoseTail
    <3>1. dpc' = "start" /\ dpos' = dpos /\ dpc = "start"
      BY <2>1, <2>2 DEF Encode, LoseTail, decodeVars, FileInv, DecInv
    <3>2. dpos' = 0
      BY <2>1, <3>1 DEF FileInv, DecInv, DecTypes
    <3>. QED  BY <3>1, <3>2 DEF StrayInv, FirstChunk, AstrayOnlyIfCut
  <2>3. CASE Decode
    <3>1. DecodeNext /\ UNCHANGED <<encodeVars, lost>> /\ file' = file /\ eret' = eret /\ lost' = lost
      BY <2>3 DEF Decode, encodeVars
    <3>2. StrayInv'
      BY <2>1, <3>1, StrayKept
    <3>3. CASE dpc' = "astray"
      <4>1. GoAstray
        BY <2>1, <3>1, <3>3 DEF DecodeNext, StartDecode, BeginDecodeBlock, GetFlag, GetHeader,
          GetPieces, MorePieces, DecodeChunk, Accept, PutData, ProcessDecoded, ReturnDecode, Throw
      <4>2. /\ dpc = "decode" /\ ~cur.whole /\ (MaySpin \/ MayWriteBehind \/ MayReadBehind)
            /\ UNCHANGED <<dpos, dierr, cur, filled>>
        BY <4>1 DEF GoAstray, Broken
      <4>3. ~Sound
        BY <2>1, <4>2, SoundWhole
      <4>4. /\ dpos \in 0 .. Len(file) /\ Len(file) \in Nat /\ filled \in Nat /\ cur.got \in Nat
        BY <2>1 DEF FileInv, EncInv, StreamOK, DecInv, DecTypes
      <4>5. (lost \/ eret # "ok" \/ dierr) /\ (dpos = Len(file) \/ dierr)
        BY <4>3, <4>4 DEF Sound, Perfect
      <4>6. MaySpin => dpos < 4 + DistanceByte
        <5>1. MaySpin => dpos <= 4 + cur.got /\ cur.got <= filled /\ filled < DistanceByte
          BY <2>1, <4>2 DEF StrayInv, FirstChunk, MaySpin
        <5>. QED  BY <4>4, <5>1, Sizes
      <4>7. MayWriteBehind => dpos = Len(file) /\ file[dpos] = Continue
        BY <2>1, <4>2 DEF StrayInv
      <4>8. MayReadBehind' = MayReadBehind
        BY <4>2 DEF MayReadBehind
      <4>. QED  BY <3>1, <3>2, <4>2, <4>5, <4>6, <4>7, <4>8 DEF AstrayOnlyIfCut
    <3>. QED  BY <3>2, <3>3 DEF AstrayOnlyIfCut
  <2>4. CASE UNCHANGED vars
    BY <2>1, <2>4 DEF vars, encodeVars, decodeVars, StrayInv, FirstChunk, AstrayOnlyIfCut,
                      MaySpin, MayWriteBehind, MayReadBehind
  <2>. QED  BY <2>1, <2>2, <2>3, <2>4 DEF Next, Terminating
<1>. QED  BY Invariance, <1>1, <1>2, PTL DEF Spec
=============================================================================
