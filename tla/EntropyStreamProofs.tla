------------------------ MODULE EntropyStreamProofs ------------------------
(***************************************************************************)
(* The decoder gets back the tokens that went in, for codes, tables and    *)
(* codebufs of any size, any admissible lengths and any token buffers that *)
(* ZlingRolzEncoder fills.  At the end, the same for the lengths that      *)
(* ZlingMakeLengthTable makes of the frequencies of the tokens: that they  *)
(* are made by two calls implements their being chosen, and as codes of    *)
(* such lengths take few bits the output buffer suffices (OutputFits).     *)
(***************************************************************************)
EXTENDS ChunkCoding, HuffmanTablesProofs, SequenceTheorems

(* What is proved of ZlingMakeLengthTable, for either call of it.            *)
P1 == INSTANCE HuffmanLengthsProofs WITH
  NumCodes <- NumCodes1, MaxCodeLen <- MaxLen1, FastLen <- FastLen1,
  FreqTables <- [Code1 -> Nat], length <- length1

P2 == INSTANCE HuffmanLengthsProofs WITH
  NumCodes <- NumCodes2, MaxCodeLen <- MaxLen2, FastLen <- MaxLen2,
  FreqTables <- [Code2 -> Nat], length <- length2

LEMMA Sizes ==
  /\ MaxLen1 \in Nat \ {0} /\ MaxLen2 \in Nat \ {0} /\ FastLen1 \in Nat \ {0} /\ FastLen1 <= MaxLen1
  /\ MaxLen1 < 16 /\ MaxLen2 < 16
  /\ NumCodes1 \in Nat \ {0} /\ NumCodes2 \in Nat \ {0}
  /\ NoSymbol \notin Code1 /\ NoSymbol \notin Code2
  /\ ByteBits \in Nat \ {0} /\ FetchBytes \in Nat \ {0} /\ RefillBits \in Nat \ {0}
  /\ CodebufBits \in Nat /\ 2 * RefillBits <= CodebufBits
  /\ FirstMatch \in Nat
  /\ \A c \in Code2 : matchidx_blen[c] \in Nat /\ MaxLen1 + MaxLen2 + matchidx_blen[c] <= RefillBits
  /\ 0 \in Code2
<1>1. RefillBits \in Nat \ {0}
  BY EntropyAssumption DEF RefillBits
<1>2. /\ \A c \in Code2 : MaxLen1 + MaxLen2 + matchidx_blen[c] <= RefillBits
      /\ 2 * RefillBits <= CodebufBits
  <2>1. FetchBytes \in Nat /\ ByteBits \in Nat
    BY EntropyAssumption
  <2>2. 2 * (FetchBytes * ByteBits) = 2 * FetchBytes * ByteBits
    BY <2>1
  <2> QED
    BY <2>2, EntropyAssumption, Zenon DEF RefillBits
<1>3. \A c \in Code2 : matchidx_blen[c] \in Nat
  BY EntropyAssumption
<1>4. /\ NoSymbol \notin Code1 /\ NoSymbol \notin Code2
      /\ 0 \in Code2
  BY EntropyAssumption DEF Code1, Code2, NoSymbol, CodeWidth
<1>5. MaxLen1 < 16 /\ MaxLen2 < 16
  BY EntropyAssumption DEF CodeWidth
<1>6. /\ MaxLen1 \in Nat \ {0} /\ MaxLen2 \in Nat \ {0}
      /\ FastLen1 \in Nat \ {0} /\ FastLen1 <= MaxLen1
      /\ NumCodes1 \in Nat \ {0} /\ NumCodes2 \in Nat \ {0}
      /\ ByteBits \in Nat \ {0} /\ FetchBytes \in Nat \ {0}
      /\ CodebufBits \in Nat /\ FirstMatch \in Nat
  BY EntropyAssumption DEF CodeWidth
<1> QED
  BY <1>1, <1>2, <1>3, <1>4, <1>5, <1>6

(* Lengths that MakeLengths may choose are code lengths. *)
LEMMA AdmissibleLengths ==
  ASSUME NEW n \in Nat, NEW maxlen \in Nat \ {0}, NEW f, DOMAIN f = 0 .. n - 1,
         NEW length \in [0 .. n - 1 -> 0 .. maxlen], Admissible(f, length, maxlen)
  PROVE  CodeLengths(length, maxlen)
<1>1. IsFiniteSet(0 .. n - 1)
  BY FS_Interval
<1>2. DOMAIN length = 0 .. n - 1 /\ 0 .. n - 1 \subseteq Int
  OBVIOUS
<1>3. KraftSum(length, maxlen)[maxlen] <= 2 ^ maxlen
  BY DEF Admissible
<1>4. \A s \in DOMAIN length : length[s] \in 0 .. maxlen
  OBVIOUS
<1> QED
  BY <1>1, <1>2, <1>3, <1>4 DEF CodeLengths
-----------------------------------------------------------------------------
(***************************************************************************)
(* The beginnings of tokens.                                               *)
(***************************************************************************)
LEMMA HeadSteps ==
  ASSUME NEW t \in Seq(Nat)
  PROVE  /\ Heads(t) \subseteq 1 .. Len(t)
         /\ Len(t) > 0 => 1 \in Heads(t)
         /\ \A i \in 1 .. Len(t) - 1 :
              i + 1 \in Heads(t) <=> ~(i \in Heads(t) /\ t[i] >= FirstMatch)
<1> DEFINE n == Len(t)
           F(h) == h = [i \in 1 .. n |-> i = 1 \/ ~(h[i - 1] /\ t[i - 1] >= FirstMatch)]
           G == [p \in (1 .. n - 1) \X BOOLEAN |-> ~(p[2] /\ t[p[1]] >= FirstMatch)]
           H == CHOOSE h : F(h)
<1>1. n \in Nat
  OBVIOUS
<1>2. Heads(t) = {i \in 1 .. n : H[i]}
  BY DEF Heads
<1>3. CASE n = 0
  <2>1. 1 .. n = {} /\ ~(n > 0) /\ 1 .. n - 1 = {}
    BY <1>3
  <2> QED
    BY <1>2, <2>1
<1>4. CASE n # 0
  <2>1. n - 1 \in Nat
    BY <1>1, <1>4
  <2>2. G \in Steps(n - 1, BOOLEAN)
    BY DEF Steps
  <2>3. \A i \in 1 .. n - 1, b \in BOOLEAN : G[<<i, b>>] = ~(b /\ t[i] >= FirstMatch)
    OBVIOUS
  <2> HIDE DEF G
  <2>4. PICK f \in [0 .. n - 1 -> BOOLEAN] : f[0] = TRUE /\ \A i \in 1 .. n - 1 : f[i] = G[<<i, f[i - 1]>>]
    <3>1. \E f \in [0 .. n - 1 -> BOOLEAN] : Follows(f, n - 1, TRUE, G)
      BY <2>1, <2>2, Recursion
    <3> QED
      BY <3>1 DEF Follows
  <2> DEFINE h == [i \in 1 .. n |-> f[i - 1]]
  <2>5. F(h)
    <3> SUFFICES ASSUME NEW i \in 1 .. n
                 PROVE  f[i - 1] = (i = 1 \/ ~(h[i - 1] /\ t[i - 1] >= FirstMatch))
      OBVIOUS
    <3>1. CASE i = 1
      BY <2>4, <3>1
    <3>2. CASE i # 1
      <4>1. i - 1 \in 1 .. n - 1 /\ i - 1 \in 1 .. n /\ (i - 1) - 1 \in 0 .. n - 1
        BY <1>1, <3>2
      <4>2. f[i - 1] = ~(f[(i - 1) - 1] /\ t[i - 1] >= FirstMatch)
        BY <2>3, <2>4, <4>1
      <4>3. h[i - 1] = f[(i - 1) - 1]
        BY <4>1
      <4> HIDE DEF h
      <4> QED
        BY <3>2, <4>2, <4>3
    <3> QED
      BY <3>1, <3>2
  <2>6. F(H)
    <3> HIDE DEF F, h
    <3> QED
      BY <2>5
  <2> HIDE DEF H
  <2>7. \A i \in 1 .. n : H[i] = (i = 1 \/ ~(H[i - 1] /\ t[i - 1] >= FirstMatch))
    BY <2>6
  <2>8. H[1]
    <3>1. 1 \in 1 .. n
      BY <1>1, <1>4
    <3> QED
      BY <2>7, <3>1
  <2>9. ASSUME NEW i \in 1 .. n - 1
        PROVE  H[i + 1] <=> ~(H[i] /\ t[i] >= FirstMatch)
    <3>1. i + 1 \in 1 .. n /\ i + 1 # 1 /\ (i + 1) - 1 = i
      BY <1>1
    <3> QED
      BY <2>7, <3>1
  <2>10. ASSUME NEW i \in 1 .. n - 1
         PROVE  i + 1 \in Heads(t) <=> ~(i \in Heads(t) /\ t[i] >= FirstMatch)
    <3>1. i + 1 \in 1 .. n /\ i \in 1 .. n
      BY <1>1
    <3> QED
      BY <1>2, <2>9, <3>1
  <2>11. 1 \in Heads(t)
    BY <1>1, <1>2, <1>4, <2>8
  <2> QED
    BY <1>2, <2>10, <2>11
<1> QED
  BY <1>3, <1>4
-----------------------------------------------------------------------------
(***************************************************************************)
(* The codes of distances.                                                 *)
(***************************************************************************)
LEMMA BaseSteps ==
  /\ matchidx_base \in [Code2 -> Nat] /\ matchidx_base[0] = 0
  /\ \A c \in 1 .. NumCodes2 - 1 : matchidx_base[c] = matchidx_base[c - 1] + 2 ^ matchidx_blen[c - 1]
<1> DEFINE n == NumCodes2 - 1
           B == matchidx_base
           F(b) == b = [c \in Code2 |-> IF c = 0 THEN 0 ELSE b[c - 1] + 2 ^ matchidx_blen[c - 1]]
           G == [p \in (1 .. n) \X Nat |-> p[2] + 2 ^ matchidx_blen[p[1] - 1]]
<1>1. n \in Nat /\ Code2 = 0 .. n
  BY Sizes DEF Code2
<1>2. ASSUME NEW c \in 1 .. n PROVE 2 ^ matchidx_blen[c - 1] \in Nat
  <2>1. matchidx_blen[c - 1] \in Nat
    BY <1>1, Sizes
  <2> QED
    BY <2>1, PowerPositive
<1>3. G \in Steps(n, Nat)
  <2> SUFFICES ASSUME NEW p \in (1 .. n) \X Nat
               PROVE  p[2] + 2 ^ matchidx_blen[p[1] - 1] \in Nat
    BY DEF Steps
  <2>1. p[2] \in Nat /\ p[1] \in 1 .. n
    OBVIOUS
  <2>2. 2 ^ matchidx_blen[p[1] - 1] \in Nat
    BY <1>2, <2>1
  <2> QED
    BY <2>1, <2>2
<1>4. \A c \in 1 .. n, y \in Nat : G[<<c, y>>] = y + 2 ^ matchidx_blen[c - 1]
  OBVIOUS
<1> HIDE DEF G
<1>5. PICK f \in [0 .. n -> Nat] : f[0] = 0 /\ \A c \in 1 .. n : f[c] = G[<<c, f[c - 1]>>]
  <2>1. \E f \in [0 .. n -> Nat] : Follows(f, n, 0, G)
    BY <1>1, <1>3, Recursion
  <2> QED
    BY <2>1 DEF Follows
<1>6. F(f)
  <2> SUFFICES ASSUME NEW c \in 0 .. n
               PROVE  f[c] = IF c = 0 THEN 0 ELSE f[c - 1] + 2 ^ matchidx_blen[c - 1]
    BY <1>1
  <2>1. CASE c = 0
    BY <1>5, <2>1
  <2>2. CASE c # 0
    <3>1. c \in 1 .. n /\ f[c - 1] \in Nat
      BY <1>1, <2>2
    <3> QED
      BY <1>4, <1>5, <2>2, <3>1
  <2> QED
    BY <2>1, <2>2
<1>7. B = CHOOSE b : F(b)
  BY DEF matchidx_base
<1>8. F(B)
  <2> HIDE DEF F, B
  <2> QED
    BY <1>6, <1>7
<1> HIDE DEF B
<1>9. B[0] = 0
  BY <1>1, <1>8
<1>10. ASSUME NEW c \in 1 .. n PROVE B[c] = B[c - 1] + 2 ^ matchidx_blen[c - 1]
  <2>1. c \in Code2 /\ c # 0
    BY <1>1
  <2> QED
    BY <1>8, <2>1
<1>11. \A c \in 0 .. n : B[c] \in Nat
  <2> DEFINE S == {c \in 0 .. n : B[c] \in Nat}
  <2>1. 0 \in S
    BY <1>1, <1>9
  <2>2. ASSUME NEW c \in 1 .. n, c - 1 \in S PROVE c \in S
    BY <1>2, <1>10, <2>2
  <2> HIDE DEF S
  <2>3. \A c \in 0 .. n : c \in S
    BY <1>1, <2>1, <2>2, UpTo
  <2> QED
    BY <2>3 DEF S
<1>12. B \in [Code2 -> Nat]
  <2>1. B = [c \in Code2 |-> B[c]]
    BY <1>8
  <2> QED
    BY <1>1, <1>11, <2>1
<1> QED
  BY <1>9, <1>10, <1>12 DEF B

(* Every distance that a bucket has is in the stretch of a code. *)
LEMMA DistanceHasCode ==
  ASSUME NEW d \in 0 .. BucketItemSize - 1
  PROVE  /\ CodeOfDistance(d) \in Code2
         /\ d - matchidx_base[CodeOfDistance(d)] \in 0 .. 2 ^ matchidx_blen[CodeOfDistance(d)] - 1
         /\ matchidx_base[CodeOfDistance(d)] \in Nat
<1> DEFINE n == NumCodes2 - 1
           B == matchidx_base
           Ends(c) == B[c] + 2 ^ matchidx_blen[c]
           P(c) == d \in matchidx_base[c] .. matchidx_base[c] + 2 ^ matchidx_blen[c] - 1
           Past == {c \in 0 .. n : d < Ends(c)}
<1>1. n \in Nat /\ Code2 = 0 .. n
  BY Sizes DEF Code2
<1>2. \A c \in 0 .. n : B[c] \in Nat /\ 2 ^ matchidx_blen[c] \in Nat
  <2> SUFFICES ASSUME NEW c \in 0 .. n PROVE B[c] \in Nat /\ 2 ^ matchidx_blen[c] \in Nat
    OBVIOUS
  <2>1. matchidx_blen[c] \in Nat
    BY <1>1, Sizes
  <2> QED
    BY <1>1, <2>1, BaseSteps, PowerPositive
<1>3. d \in Nat /\ n \in Past
  <2>1. BucketItemSize = Ends(n)
    BY DEF BucketItemSize
  <2>2. n \in 0 .. n /\ Ends(n) \in Nat
    BY <1>1, <1>2
  <2> QED
    BY <2>1, <2>2
<1>4. PICK c \in Past : \A i \in Past : c <= i
  <2>1. Past \subseteq Nat /\ Past # {}
    BY <1>3
  <2> HIDE DEF Past
  <2> QED
    BY <2>1, LeastNat
<1>5. P(c)
  <2> SUFFICES B[c] <= d /\ d < Ends(c)
    <3> DEFINE b == B[c]
               p == 2 ^ matchidx_blen[c]
    <3>1. b \in Nat /\ p \in Nat
      BY <1>2
    <3>2. P(c) <=> d \in b .. b + p - 1
      OBVIOUS
    <3>3. Ends(c) = b + p
      OBVIOUS
    <3> HIDE DEF b, p, P, Ends
    <3>4. b <= d /\ d < b + p => d \in b .. b + p - 1
      BY <1>3, <3>1
    <3> QED
      BY <3>2, <3>3, <3>4 DEF b
  <2>1. CASE c = 0
    <3>1. B[0] = 0
      BY BaseSteps
    <3>2. 0 \in 0 .. n /\ d < Ends(0)
      BY <1>1, <1>4, <2>1
    <3>3. Ends(0) \in Nat
      BY <1>2, <3>2
    <3> HIDE DEF Ends
    <3> QED
      BY <1>3, <2>1, <3>1, <3>2, <3>3
  <2>2. CASE c # 0
    <3>1. c \in 1 .. n /\ c - 1 \in 0 .. n /\ c \in 0 .. n /\ ~(c <= c - 1)
      BY <1>1, <2>2
    <3>2. ~(d < Ends(c - 1))
      BY <1>4, <3>1
    <3>3. B[c] = Ends(c - 1)
      BY <3>1, BaseSteps
    <3>4. d < Ends(c) /\ B[c] \in Nat /\ Ends(c) \in Nat
      BY <1>2, <1>4, <3>1
    <3> HIDE DEF B, Ends
    <3> QED
      BY <1>3, <3>2, <3>3, <3>4
  <2> QED
    BY <2>1, <2>2
<1>6. c \in Code2
  BY <1>1
<1>7. CodeOfDistance(d) = CHOOSE i \in Code2 : P(i)
  BY DEF CodeOfDistance
<1>8. CodeOfDistance(d) \in Code2 /\ P(CodeOfDistance(d))
  <2> HIDE DEF P
  <2> QED
    BY <1>5, <1>6, <1>7
<1>9. PICK e \in 0 .. n : e = CodeOfDistance(d)
  BY <1>1, <1>8
<1>10. d - B[e] \in 0 .. 2 ^ matchidx_blen[e] - 1
  <2>1. B[e] \in Nat /\ 2 ^ matchidx_blen[e] \in Nat /\ d \in B[e] .. B[e] + 2 ^ matchidx_blen[e] - 1
    BY <1>2, <1>8, <1>9
  <2> QED
    BY <1>3, <2>1
<1> QED
  BY <1>2, <1>8, <1>9, <1>10
-----------------------------------------------------------------------------
(***************************************************************************)
(* Numbers and symbols from the bits of a codebuf.                         *)
(***************************************************************************)
LEMMA NumberOfBits ==
  ASSUME NEW n \in Nat, NEW b \in [1 .. n -> {0, 1}]
  PROVE  /\ FromBits(b, n) \in 0 .. 2 ^ n - 1
         /\ \A i \in 0 .. n - 1 : Bit(FromBits(b, n), i) = b[i + 1]
<1> DEFINE d == [k \in 1 .. n |-> b[n - k + 1]]
           F(x) == x = [k \in 0 .. n |-> IF k = 0 THEN 0 ELSE 2 * x[k - 1] + b[n - k + 1]]
           H(x) == x = [k \in 0 .. n |-> IF k = 0 THEN 0 ELSE 2 * x[k - 1] + d[k]]
           r == CHOOSE x : F(x)
<1>1. d \in [1 .. n -> {0, 1}]
  <2> SUFFICES ASSUME NEW k \in 1 .. n PROVE b[n - k + 1] \in {0, 1}
    OBVIOUS
  <2>1. n - k + 1 \in 1 .. n
    OBVIOUS
  <2> QED
    BY <2>1
<1>2. ASSUME NEW x PROVE F(x) <=> H(x)
  <2>1. ASSUME NEW k \in 0 .. n
        PROVE  (IF k = 0 THEN 0 ELSE 2 * x[k - 1] + b[n - k + 1])
                 = (IF k = 0 THEN 0 ELSE 2 * x[k - 1] + d[k])
    <3>1. k # 0 => d[k] = b[n - k + 1]
      OBVIOUS
    <3> QED
      BY <3>1
  <2> HIDE DEF d
  <2> QED
    BY <2>1
<1>3. \E x : H(x)
  <2> HIDE DEF d
  <2>1. \E x \in [0 .. n -> Nat] : x = [k \in 0 .. n |-> IF k = 0 THEN 0 ELSE 2 * x[k - 1] + d[k]]
    BY <1>1, HornerExists
  <2> QED
    BY <2>1
<1>4. H(r)
  <2> HIDE DEF F, H
  <2>1. \E x : F(x)
    BY <1>2, <1>3
  <2> QED
    BY <1>2, <2>1
<1>5. FromBits(b, n) = r[n]
  BY DEF FromBits
<1>6. r[n] \in 0 .. 2 ^ n - 1 /\ \A i \in 0 .. n - 1 : Bit(r[n], i) = d[n - i]
  <2> HIDE DEF r, d
  <2>1. r = [k \in 0 .. n |-> IF k = 0 THEN 0 ELSE 2 * r[k - 1] + d[k]]
    BY <1>4
  <2> QED
    BY <1>1, <2>1, Horner
<1>7. ASSUME NEW i \in 0 .. n - 1 PROVE d[n - i] = b[i + 1]
  <2>1. n - i \in 1 .. n /\ n - (n - i) + 1 = i + 1
    OBVIOUS
  <2> QED
    BY <2>1
<1> HIDE DEF r, d
<1> QED
  BY <1>5, <1>6, <1>7

LEMMA PeekBits ==
  ASSUME NEW cb, cb.buf \in Seq({0, 1}), NEW n \in Nat, n <= Len(cb.buf)
  PROVE  /\ FromBits(Peek(cb, n), n) \in 0 .. 2 ^ n - 1
         /\ \A i \in 0 .. n - 1 : Bit(FromBits(Peek(cb, n), n), i) = cb.buf[i + 1]
<1> DEFINE b == Peek(cb, n)
<1>1. b \in [1 .. n -> {0, 1}] /\ \A i \in 1 .. n : b[i] = cb.buf[i]
  <2> SUFFICES ASSUME NEW i \in 1 .. n PROVE cb.buf[i] \in {0, 1} /\ i <= Len(cb.buf)
    BY DEF Peek
  <2>1. i \in 1 .. Len(cb.buf)
    OBVIOUS
  <2> QED
    BY <2>1
<1>2. ASSUME NEW i \in 0 .. n - 1 PROVE b[i + 1] = cb.buf[i + 1]
  <2>1. i + 1 \in 1 .. n
    OBVIOUS
  <2> QED
    BY <1>1, <2>1
<1> HIDE DEF b
<1>3. FromBits(b, n) \in 0 .. 2 ^ n - 1 /\ \A i \in 0 .. n - 1 : Bit(FromBits(b, n), i) = b[i + 1]
  BY <1>1, NumberOfBits
<1> QED
  BY <1>2, <1>3 DEF b

(* The number whose bits come next in a codebuf is what Peek yields. *)
LEMMA PeekNumber ==
  ASSUME NEW cb, cb.buf \in Seq({0, 1}), NEW n \in Nat, n <= Len(cb.buf),
         NEW y \in 0 .. 2 ^ n - 1, \A i \in 0 .. n - 1 : cb.buf[i + 1] = Bit(y, i)
  PROVE  FromBits(Peek(cb, n), n) = y
<1> DEFINE x == FromBits(Peek(cb, n), n)
<1>1. x \in 0 .. 2 ^ n - 1 /\ \A i \in 0 .. n - 1 : Bit(x, i) = Bit(y, i)
  BY PeekBits
<1> HIDE DEF x
<1>2. x = y
  BY <1>1, BitsUnique
<1> QED
  BY <1>2 DEF x

(* The symbol whose code comes next in a codebuf is what a table yields. *)
LEMMA PeekFinds ==
  ASSUME NEW cb, cb.buf \in Seq({0, 1}),
         NEW length, NEW maxlen, CodeLengths(length, maxlen),
         NEW m \in 1 .. maxlen, m <= Len(cb.buf), NEW v \in DOMAIN length, length[v] # 0,
         \A i \in 0 .. length[v] - 1 :
           i < m => cb.buf[i + 1] = Bit(EncodeTable(length, maxlen)[v], i)
  PROVE  DecodeTable(length, EncodeTable(length, maxlen), m)[FromBits(Peek(cb, m), m)]
           = IF length[v] <= m THEN v ELSE NoSymbol
<1> DEFINE x == FromBits(Peek(cb, m), m)
<1>1. m \in Nat /\ length[v] \in Nat
  BY DEF CodeLengths
<1>2. x \in 0 .. 2 ^ m - 1 /\ \A i \in 0 .. m - 1 : Bit(x, i) = cb.buf[i + 1]
  BY <1>1, PeekBits
<1>3. ASSUME NEW i \in 0 .. length[v] - 1, i < m
      PROVE  Bit(x, i) = Bit(EncodeTable(length, maxlen)[v], i)
  <2>1. i \in 0 .. m - 1
    BY <1>1, <1>3
  <2> QED
    BY <1>2, <1>3, <2>1
<1> HIDE DEF x
<1>4. DecodeTable(length, EncodeTable(length, maxlen), m)[x]
        = IF length[v] <= m THEN v ELSE NoSymbol
  BY <1>2, <1>3, DecodeFinds
<1> QED
  BY <1>4 DEF x
-----------------------------------------------------------------------------
(***************************************************************************)
(* Tokens, and where their bits are in the stream.                         *)
(***************************************************************************)
(* Lengths of the codes of a token buffer as MakeLengths may choose them. *)
Coded(t, l1, l2) ==
  /\ t \in TokenBuffers
  /\ l1 \in [Code1 -> 0 .. MaxLen1] /\ Admissible(Freq1(t), l1, MaxLen1)
  /\ l2 \in [Code2 -> 0 .. MaxLen2] /\ Admissible(Freq2(t), l2, MaxLen2)

(* How many bits the token at entry k takes, and which they are. *)
TokenLen(t, l1, l2, k) ==
  IF t[k] < FirstMatch THEN l1[t[k]]
  ELSE l1[t[k]] + l2[CodeOfDistance(t[k + 1])] + matchidx_blen[CodeOfDistance(t[k + 1])]

TokenBit(t, l1, l2, k, b) ==
  LET v == t[k]
      c == CodeOfDistance(t[k + 1])
  IN  IF b < l1[v] THEN Bit(EncodeTable(l1, MaxLen1)[v], b)
      ELSE IF b < l1[v] + l2[c] THEN Bit(EncodeTable(l2, MaxLen2)[c], b - l1[v])
      ELSE Bit(t[k + 1] - matchidx_base[c], b - (l1[v] + l2[c]))

(* How many bits the entries up to i take. *)
Pos(t, l1, l2) ==
  LET pos[i \in 0 .. Len(t)] ==
        IF i = 0 THEN 0 ELSE pos[i - 1] + (IF i \in Heads(t) THEN TokenLen(t, l1, l2, i) ELSE 0)
  IN  pos

LEMMA TokenFacts ==
  ASSUME NEW t, NEW l1, NEW l2, Coded(t, l1, l2), NEW k \in Heads(t)
  PROVE  /\ t \in Seq(Nat) /\ k \in 1 .. Len(t)
         /\ CodeLengths(l1, MaxLen1) /\ CodeLengths(l2, MaxLen2)
         /\ t[k] \in Code1 /\ t[k] \in Nat /\ l1[t[k]] \in 1 .. MaxLen1
         /\ t[k] >= FirstMatch =>
              LET c == CodeOfDistance(t[k + 1])
              IN  /\ k < Len(t) /\ t[k + 1] \in 0 .. BucketItemSize - 1
                  /\ c \in Code2 /\ l2[c] \in 1 .. MaxLen2
                  /\ matchidx_base[c] \in Nat
                  /\ t[k + 1] - matchidx_base[c] \in 0 .. 2 ^ matchidx_blen[c] - 1
         /\ TokenLen(t, l1, l2, k) \in 1 .. RefillBits
<1>1. t \in Seq(Nat) /\ t[k] \in Code1
      /\ \A i \in Matches(t) : i < Len(t) /\ t[i + 1] \in 0 .. BucketItemSize - 1
  BY TokensAssumption DEF Coded
<1>2. k \in 1 .. Len(t) /\ Heads(t) \subseteq 1 .. Len(t) /\ t[k] \in Nat
  <2>1. Heads(t) \subseteq 1 .. Len(t)
    BY <1>1, HeadSteps
  <2> QED
    BY <1>1, <2>1
<1>3. CodeLengths(l1, MaxLen1)
  <2>1. l1 \in [0 .. NumCodes1 - 1 -> 0 .. MaxLen1] /\ DOMAIN Freq1(t) = 0 .. NumCodes1 - 1
    BY DEF Coded, Code1, Freq1
  <2> QED
    BY <2>1, Sizes, AdmissibleLengths DEF Coded
<1>4. CodeLengths(l2, MaxLen2)
  <2>1. l2 \in [0 .. NumCodes2 - 1 -> 0 .. MaxLen2] /\ DOMAIN Freq2(t) = 0 .. NumCodes2 - 1
    BY DEF Coded, Code2, Freq2
  <2> QED
    BY <2>1, Sizes, AdmissibleLengths DEF Coded
<1>5. ASSUME NEW S \in SUBSET (1 .. Len(t)), k \in S PROVE Cardinality(S) > 0
  <2>1. IsFiniteSet(1 .. Len(t))
    BY <1>1, FS_Interval
  <2>2. IsFiniteSet(S)
    BY <2>1, FS_Subset
  <2>3. Cardinality(S) \in Nat /\ Cardinality(S) # 0
    BY <1>5, <2>2, FS_CardinalityType, FS_EmptySet
  <2> QED
    BY <2>3
<1>6. l1[t[k]] \in 1 .. MaxLen1
  <2> DEFINE v == t[k]
             S == {i \in Heads(t) : t[i] = v}
  <2>1. Cardinality(S) > 0
    BY <1>2, <1>5
  <2>2. Freq1(t)[v] > 0 /\ v \in DOMAIN Freq1(t)
    BY <1>1, <2>1 DEF Freq1
  <2>3. l1[v] > 0 /\ l1[v] \in 0 .. MaxLen1
    BY <2>2 DEF Coded, Admissible
  <2> HIDE DEF v
  <2>4. l1[v] \in 1 .. MaxLen1
    BY <2>3, Sizes
  <2> QED
    BY <2>4 DEF v
<1>7. ASSUME t[k] >= FirstMatch
      PROVE  LET c == CodeOfDistance(t[k + 1])
             IN  /\ k < Len(t) /\ t[k + 1] \in 0 .. BucketItemSize - 1
                 /\ c \in Code2 /\ l2[c] \in 1 .. MaxLen2
                 /\ matchidx_base[c] \in Nat
                 /\ t[k + 1] - matchidx_base[c] \in 0 .. 2 ^ matchidx_blen[c] - 1
  <2> DEFINE c == CodeOfDistance(t[k + 1])
             S == {i \in Matches(t) : CodeOfDistance(t[i + 1]) = c}
  <2>1. k \in Matches(t) /\ Matches(t) \subseteq Heads(t)
    BY <1>7 DEF Matches
  <2>2. k < Len(t) /\ t[k + 1] \in 0 .. BucketItemSize - 1
    BY <1>1, <2>1
  <2>3. /\ c \in Code2 /\ matchidx_base[c] \in Nat
        /\ t[k + 1] - matchidx_base[c] \in 0 .. 2 ^ matchidx_blen[c] - 1
    BY <2>2, DistanceHasCode
  <2>4. Cardinality(S) > 0
    BY <1>2, <1>5, <2>1
  <2>5. Freq2(t)[c] > 0 /\ c \in DOMAIN Freq2(t)
    BY <2>3, <2>4 DEF Freq2
  <2>6. l2[c] > 0 /\ l2[c] \in 0 .. MaxLen2
    BY <2>5 DEF Coded, Admissible
  <2>7. l2[c] \in 1 .. MaxLen2
    <3> HIDE DEF c
    <3> QED
      BY <2>6, Sizes
  <2> QED
    BY <2>2, <2>3, <2>7
<1>8. TokenLen(t, l1, l2, k) \in 1 .. RefillBits
  <2>1. CASE t[k] < FirstMatch
    <3>1. TokenLen(t, l1, l2, k) = l1[t[k]]
      BY <2>1 DEF TokenLen
    <3>2. MaxLen1 + MaxLen2 + matchidx_blen[0] <= RefillBits /\ matchidx_blen[0] \in Nat
      BY Sizes
    <3> QED
      BY <1>6, <3>1, <3>2, Sizes
  <2>2. CASE ~(t[k] < FirstMatch)
    <3> DEFINE c == CodeOfDistance(t[k + 1])
               a == l1[t[k]]
               b == l2[c]
               e == matchidx_blen[c]
    <3>1. t[k] >= FirstMatch
      BY <1>2, <2>2, Sizes
    <3>2. c \in Code2 /\ b \in 1 .. MaxLen2 /\ a \in 1 .. MaxLen1
      BY <1>6, <1>7, <3>1
    <3>3. MaxLen1 + MaxLen2 + e <= RefillBits /\ e \in Nat
      BY <3>2, Sizes
    <3>4. TokenLen(t, l1, l2, k) = a + b + e
      BY <2>2 DEF TokenLen
    <3> HIDE DEF a, b, c, e
    <3> QED
      BY <3>2, <3>3, <3>4, Sizes
  <2> QED
    BY <2>1, <2>2
<1> QED
  BY <1>1, <1>2, <1>3, <1>4, <1>6, <1>7, <1>8

(* Pos, as it goes from one entry to the next. *)
LEMMA PosSteps ==
  ASSUME NEW t, NEW l1, NEW l2, Coded(t, l1, l2)
  PROVE  LET P == Pos(t, l1, l2)
         IN  /\ P \in [0 .. Len(t) -> Nat] /\ P[0] = 0
             /\ \A i \in 1 .. Len(t) :
                  P[i] = P[i - 1] + (IF i \in Heads(t) THEN TokenLen(t, l1, l2, i) ELSE 0)
<1> DEFINE n == Len(t)
           P == Pos(t, l1, l2)
           W(i) == IF i \in Heads(t) THEN TokenLen(t, l1, l2, i) ELSE 0
           F(p) == p = [i \in 0 .. n |-> IF i = 0 THEN 0 ELSE p[i - 1] + W(i)]
           G == [q \in (1 .. n) \X Nat |-> q[2] + W(q[1])]
<1>1. n \in Nat
  BY TokensAssumption DEF Coded
<1>2. \A i : W(i) \in Nat
  <2> SUFFICES ASSUME NEW i \in Heads(t) PROVE TokenLen(t, l1, l2, i) \in Nat
    OBVIOUS
  <2>1. TokenLen(t, l1, l2, i) \in 1 .. RefillBits
    BY TokenFacts
  <2> QED
    BY <2>1, Sizes
<1>3. P = CHOOSE p : F(p)
  BY DEF Pos
<1> HIDE DEF W
<1>4. G \in Steps(n, Nat)
  <2> SUFFICES ASSUME NEW q \in (1 .. n) \X Nat PROVE q[2] + W(q[1]) \in Nat
    BY DEF Steps
  <2>1. q[2] \in Nat /\ W(q[1]) \in Nat
    BY <1>2
  <2> QED
    BY <2>1
<1>5. \A i \in 1 .. n, y \in Nat : G[<<i, y>>] = y + W(i)
  OBVIOUS
<1> HIDE DEF G
<1>6. PICK f \in [0 .. n -> Nat] : f[0] = 0 /\ \A i \in 1 .. n : f[i] = G[<<i, f[i - 1]>>]
  <2>1. \E f \in [0 .. n -> Nat] : Follows(f, n, 0, G)
    BY <1>1, <1>4, Recursion
  <2> QED
    BY <2>1 DEF Follows
<1>7. F(f)
  <2> SUFFICES ASSUME NEW i \in 0 .. n PROVE f[i] = IF i = 0 THEN 0 ELSE f[i - 1] + W(i)
    OBVIOUS
  <2>1. CASE i = 0
    BY <1>6, <2>1
  <2>2. CASE i # 0
    <3>1. i \in 1 .. n /\ f[i - 1] \in Nat
      BY <1>1, <2>2
    <3> QED
      BY <1>5, <1>6, <2>2, <3>1
  <2> QED
    BY <2>1, <2>2
<1>8. F(P)
  <2> HIDE DEF F, P
  <2> QED
    BY <1>3, <1>7
<1> HIDE DEF P
<1>9. P[0] = 0
  BY <1>1, <1>8
<1>10. ASSUME NEW i \in 1 .. n PROVE P[i] = P[i - 1] + W(i)
  <2>1. i \in 0 .. n /\ i # 0
    BY <1>1
  <2> QED
    BY <1>8, <2>1
<1>11. \A i \in 0 .. n : P[i] \in Nat
  <2> DEFINE S == {i \in 0 .. n : P[i] \in Nat}
  <2>1. 0 \in S
    BY <1>1, <1>9
  <2>2. ASSUME NEW i \in 1 .. n, i - 1 \in S PROVE i \in S
    BY <1>2, <1>10, <2>2
  <2> HIDE DEF S
  <2>3. \A i \in 0 .. n : i \in S
    BY <1>1, <2>1, <2>2, UpTo
  <2> QED
    BY <2>3 DEF S
<1>12. P \in [0 .. n -> Nat]
  <2>1. P = [i \in 0 .. n |-> P[i]]
    BY <1>8
  <2> QED
    BY <1>11, <2>1
<1> QED
  BY <1>9, <1>10, <1>12 DEF P, W

LEMMA PosMonotone ==
  ASSUME NEW t, NEW l1, NEW l2, Coded(t, l1, l2), NEW j \in 0 .. Len(t), NEW i \in 0 .. j
  PROVE  Pos(t, l1, l2)[i] <= Pos(t, l1, l2)[j]
<1> DEFINE n == Len(t)
           P == Pos(t, l1, l2)
           S == {k \in 0 .. j - i : P[i] <= P[i + k]}
<1>1. n \in Nat
  BY TokensAssumption DEF Coded
<1>2. P \in [0 .. n -> Nat] /\ \A k \in 1 .. n : P[k - 1] <= P[k]
  <2>1. P \in [0 .. n -> Nat]
    BY PosSteps
  <2>2. ASSUME NEW k \in 1 .. n PROVE P[k - 1] <= P[k]
    <3> DEFINE w == IF k \in Heads(t) THEN TokenLen(t, l1, l2, k) ELSE 0
    <3>1. w \in Nat
      <4>1. k \in Heads(t) => TokenLen(t, l1, l2, k) \in 1 .. RefillBits
        BY TokenFacts
      <4> QED
        BY <4>1, Sizes
    <3>2. P[k] = P[k - 1] + w
      BY PosSteps
    <3>3. P[k - 1] \in Nat /\ P[k] \in Nat
      BY <1>1, <2>1
    <3> HIDE DEF w, P
    <3> QED
      BY <3>1, <3>2, <3>3
  <2> QED
    BY <2>1, <2>2
<1> HIDE DEF P, n
<1>3. j - i \in Nat /\ i \in 0 .. n /\ i + 0 = i /\ i + (j - i) = j /\ i \in Nat /\ j \in 0 .. n
  BY <1>1 DEF n
<1>4. 0 \in S
  <2>1. P[i] <= P[i]
    BY <1>2, <1>3
  <2> QED
    BY <1>3, <2>1
<1>5. ASSUME NEW k \in 1 .. j - i, k - 1 \in S PROVE k \in S
  <2>1. i + k \in 1 .. n /\ (i + k) - 1 = i + (k - 1) /\ i + (k - 1) \in 0 .. n /\ i + k \in 0 .. n
    BY <1>1, <1>3
  <2>2. P[i] <= P[i + (k - 1)] /\ P[i + (k - 1)] <= P[i + k]
    BY <1>2, <1>5, <2>1
  <2>3. P[i] \in Nat /\ P[i + (k - 1)] \in Nat /\ P[i + k] \in Nat
    BY <1>2, <1>3, <2>1
  <2> QED
    BY <2>2, <2>3
<1> HIDE DEF S
<1>6. j - i \in S
  BY <1>3, <1>4, <1>5, UpTo
<1> QED
  BY <1>3, <1>6 DEF S, P
-----------------------------------------------------------------------------
(***************************************************************************)
(* Bits in the bytes of the stream and in the codebuf behind them.         *)
(***************************************************************************)
SBit(ob, buf, j) ==
  IF j < Len(ob) * ByteBits THEN ob[(j \div ByteBits) + 1][(j % ByteBits) + 1]
  ELSE buf[j - Len(ob) * ByteBits + 1]

(* What the decoder comes upon, whatever is in memory behind the stream. *)
XBit(ob, st, j) ==
  IF j < Len(ob) * ByteBits THEN ob[(j \div ByteBits) + 1][(j % ByteBits) + 1]
  ELSE ByteBehind(st, (j \div ByteBits) - Len(ob))[(j % ByteBits) + 1]

LEMMA Rest ==
  ASSUME NEW S, NEW s \in Seq(S), NEW n \in Nat
  PROVE  LET r == SubSeq(s, n + 1, Len(s))
         IN  /\ r \in Seq(S) /\ Len(r) = IF n <= Len(s) THEN Len(s) - n ELSE 0
             /\ \A i \in 1 .. Len(s) - n : r[i] = s[n + i]
  OBVIOUS

LEMMA InputFits ==
  ASSUME NEW cb, cb.buf \in Seq({0, 1}), NEW bits \in Seq({0, 1}),
         Len(cb.buf) + Len(bits) <= CodebufBits
  PROVE  Input(cb, bits) = [buf |-> cb.buf \o bits, len |-> cb.len + Len(bits)]
<1> DEFINE all == cb.buf \o bits
           m == IF Len(all) < CodebufBits THEN Len(all) ELSE CodebufBits
<1>1. all \in Seq({0, 1}) /\ Len(all) = Len(cb.buf) + Len(bits)
  BY ConcatProperties
<1>2. m = Len(all)
  BY <1>1, Sizes
<1>3. SubSeq(all, 1, Len(all)) = all
  <2> HIDE DEF all
  <2> QED
    BY <1>1, SubSeqFull
<1> HIDE DEF all
<1> QED
  BY <1>2, <1>3 DEF Input, all

(* Bits that go into a codebuf come behind those that are there. *)
LEMMA InputKeeps ==
  ASSUME NEW ob, Len(ob) \in Nat, NEW buf \in Seq({0, 1}), NEW bits \in Seq({0, 1})
  PROVE  LET m == Len(ob) * ByteBits + Len(buf)
         IN  /\ \A j \in 0 .. m - 1 : SBit(ob, buf \o bits, j) = SBit(ob, buf, j)
             /\ \A b \in 0 .. Len(bits) - 1 : SBit(ob, buf \o bits, m + b) = bits[b + 1]
<1> DEFINE p == Len(ob) * ByteBits
           l == Len(buf)
<1>1. p \in Nat /\ l \in Nat /\ Len(bits) \in Nat
  BY Sizes
<1>2. /\ \A i \in 1 .. l : (buf \o bits)[i] = buf[i]
      /\ \A i \in 1 .. Len(bits) : (buf \o bits)[l + i] = bits[i]
  BY ConcatProperties
<1>3. ASSUME NEW j \in 0 .. (p + l) - 1
      PROVE  SBit(ob, buf \o bits, j) = SBit(ob, buf, j)
  <2>1. CASE j < p
    BY <2>1 DEF SBit
  <2>2. CASE ~(j < p)
    <3>1. j - p + 1 \in 1 .. l
      BY <1>1, <2>2
    <3>2. SBit(ob, buf \o bits, j) = (buf \o bits)[j - p + 1] /\ SBit(ob, buf, j) = buf[j - p + 1]
      BY <2>2 DEF SBit
    <3> HIDE DEF p, l
    <3> QED
      BY <1>2, <3>1, <3>2
  <2> QED
    BY <2>1, <2>2
<1>4. ASSUME NEW b \in 0 .. Len(bits) - 1
      PROVE  SBit(ob, buf \o bits, (p + l) + b) = bits[b + 1]
  <2> DEFINE j == (p + l) + b
  <2>1. ~(j < p) /\ j - p + 1 = l + (b + 1) /\ b + 1 \in 1 .. Len(bits)
    BY <1>1
  <2>2. SBit(ob, buf \o bits, j) = (buf \o bits)[j - p + 1]
    BY <2>1 DEF SBit
  <2> HIDE DEF j, p, l
  <2>3. SBit(ob, buf \o bits, j) = bits[b + 1]
    BY <1>2, <2>1, <2>2
  <2> QED
    BY <2>3 DEF j
<1> QED
  BY <1>3, <1>4

(* Which byte a bit is in. *)
LEMMA ByteOf ==
  ASSUME NEW j \in Nat
  PROVE  /\ j \div ByteBits \in Nat /\ j % ByteBits \in 0 .. ByteBits - 1
         /\ j = (j \div ByteBits) * ByteBits + (j % ByteBits)
         /\ \A l \in Nat : j < l * ByteBits <=> j \div ByteBits < l
<1> DEFINE q == j \div ByteBits
           r == j % ByteBits
<1>1. ByteBits \in Nat \ {0}
  BY Sizes
<1>2. q \in Nat /\ r \in 0 .. ByteBits - 1 /\ j = ByteBits * q + r
  BY <1>1, DivMod
<1>3. PICK p \in Nat \ {0} : p = ByteBits
  BY <1>1
<1> HIDE DEF q, r
<1>4. ByteBits * q = q * ByteBits
  BY <1>2, <1>3
<1>5. ASSUME NEW l \in Nat PROVE j < l * ByteBits <=> q < l
  <2>1. j = q * p + r /\ r \in Nat /\ r < p
    BY <1>2, <1>3, <1>4
  <2>2. CASE q < l
    <3>1. (q + 1) * p <= l * p
      <4>1. PICK e \in Nat : l = (q + 1) + e
        <5>1. l - (q + 1) \in Nat /\ l = (q + 1) + (l - (q + 1))
          BY <1>2, <2>2
        <5> QED
          BY <5>1
      <4>2. l * p = (q + 1) * p + e * p /\ e * p \in Nat /\ (q + 1) * p \in Nat
        BY <1>2, <4>1
      <4> QED
        BY <4>2
    <3>2. (q + 1) * p = q * p + p /\ q * p \in Nat /\ l * p \in Nat
      BY <1>2
    <3>3. j < l * p
      BY <2>1, <3>1, <3>2
    <3> QED
      BY <1>3, <2>2, <3>3
  <2>3. CASE ~(q < l)
    <3>1. PICK e \in Nat : q = l + e
      <4>1. q - l \in Nat /\ q = l + (q - l)
        BY <1>2, <2>3
      <4> QED
        BY <4>1
    <3>2. q * p = l * p + e * p /\ e * p \in Nat /\ l * p \in Nat
      BY <3>1
    <3>3. ~(j < l * p)
      BY <2>1, <3>2
    <3> QED
      BY <1>3, <2>3, <3>3
  <2> QED
    BY <2>2, <2>3
<1> QED
  BY <1>2, <1>4, <1>5 DEF q, r

(* Bytes that go out of a codebuf hold the bits that were in it. *)
LEMMA BytesOutKeep ==
  ASSUME NEW ob \in Seq(Byte), NEW cb, cb.buf \in Seq({0, 1}), NEW k \in Nat
  PROVE  LET new == ob \o BytesOut(cb, k)
             rest == Output(cb, k * ByteBits).buf
         IN  /\ new \in Seq(Byte) /\ Len(new) = Len(ob) + k
             /\ rest \in Seq({0, 1})
             /\ Len(rest) = IF k * ByteBits <= Len(cb.buf) THEN Len(cb.buf) - k * ByteBits ELSE 0
             /\ \A j \in 0 .. Len(ob) * ByteBits + Len(cb.buf) - 1 :
                  SBit(new, rest, j) = SBit(ob, cb.buf, j)
<1> DEFINE out == BytesOut(cb, k)
           new == ob \o out
           rest == Output(cb, k * ByteBits).buf
           l == Len(ob)
           f == Len(cb.buf)
<1>1. ByteBits \in Nat /\ ByteBits > 0 /\ l \in Nat /\ f \in Nat
  BY Sizes
<1>2. ASSUME NEW m \in Nat
      PROVE  LET r == Output(cb, m).buf
             IN  /\ r \in Seq({0, 1}) /\ Len(r) = IF m <= f THEN f - m ELSE 0
                 /\ \A i \in 1 .. f - m : r[i] = cb.buf[m + i]
  <2> DEFINE r == SubSeq(cb.buf, m + 1, Len(cb.buf))
  <2>1. Output(cb, m).buf = r
    BY DEF Output
  <2>2. /\ r \in Seq({0, 1}) /\ Len(r) = IF m <= Len(cb.buf) THEN Len(cb.buf) - m ELSE 0
        /\ \A i \in 1 .. Len(cb.buf) - m : r[i] = cb.buf[m + i]
    BY Rest
  <2> HIDE DEF r
  <2> QED
    BY <2>1, <2>2
<1>3. ASSUME NEW i \in 1 .. k
      PROVE  /\ (i - 1) * ByteBits \in Nat
             /\ out[i] \in Byte
             /\ \A r \in 0 .. ByteBits - 1 :
                  (i - 1) * ByteBits + r < f => out[i][r + 1] = cb.buf[(i - 1) * ByteBits + r + 1]
  <2> DEFINE m == (i - 1) * ByteBits
             s == Output(cb, m).buf
  <2>1. m \in Nat
    BY <1>1
  <2>2. out[i] = [x \in 1 .. ByteBits |-> IF x <= Len(s) THEN s[x] ELSE 0]
    BY DEF BytesOut, Peek
  <2> HIDE DEF m
  <2>3. /\ s \in Seq({0, 1}) /\ Len(s) = IF m <= f THEN f - m ELSE 0
        /\ \A x \in 1 .. f - m : s[x] = cb.buf[m + x]
    BY <1>2, <2>1
  <2> HIDE DEF s, out
  <2>4. out[i] \in Byte
    <3>1. ASSUME NEW x \in 1 .. ByteBits PROVE (IF x <= Len(s) THEN s[x] ELSE 0) \in {0, 1}
      <4>1. x <= Len(s) => x \in 1 .. Len(s)
        BY <2>3, <1>1
      <4> QED
        BY <2>3, <4>1
    <3> QED
      BY <2>2, <3>1 DEF Byte, Bits
  <2>5. ASSUME NEW r \in 0 .. ByteBits - 1, m + r < f PROVE out[i][r + 1] = cb.buf[m + r + 1]
    <3>1. r + 1 \in 1 .. ByteBits /\ r + 1 <= Len(s) /\ r + 1 \in 1 .. f - m /\ m + (r + 1) = m + r + 1
      BY <1>1, <2>1, <2>3, <2>5
    <3> QED
      BY <2>2, <2>3, <3>1
  <2> QED
    BY <2>1, <2>4, <2>5 DEF m
<1>4. out \in Seq(Byte) /\ Len(out) = k
  <2>1. out = [i \in 1 .. k |-> out[i]]
    BY DEF BytesOut
  <2> HIDE DEF out
  <2>2. out \in [1 .. k -> Byte]
    BY <1>3, <2>1
  <2> QED
    BY <2>2
<1>5. /\ new \in Seq(Byte) /\ Len(new) = l + k
      /\ \A i \in 1 .. l : new[i] = ob[i]
      /\ \A i \in 1 .. k : new[l + i] = out[i]
  <2> HIDE DEF out
  <2>1. /\ new \in Seq(Byte) /\ Len(new) = Len(ob) + Len(out)
        /\ \A i \in 1 .. Len(ob) + Len(out) :
             new[i] = IF i <= Len(ob) THEN ob[i] ELSE out[i - Len(ob)]
    BY <1>4, ConcatProperties
  <2>2. ASSUME NEW i \in 1 .. l PROVE i \in 1 .. Len(ob) + Len(out) /\ i <= Len(ob)
    BY <1>1, <1>4
  <2>3. ASSUME NEW i \in 1 .. k
        PROVE  l + i \in 1 .. Len(ob) + Len(out) /\ ~(l + i <= Len(ob)) /\ (l + i) - Len(ob) = i
    BY <1>1, <1>4
  <2> HIDE DEF new
  <2> QED
    BY <1>4, <2>1, <2>2, <2>3
<1>6. k * ByteBits \in Nat
  BY <1>1
<1> HIDE DEF out, new
<1>7. /\ rest \in Seq({0, 1}) /\ Len(rest) = IF k * ByteBits <= f THEN f - k * ByteBits ELSE 0
      /\ \A i \in 1 .. f - k * ByteBits : rest[i] = cb.buf[k * ByteBits + i]
  BY <1>2, <1>6
<1> HIDE DEF rest
<1>8. ASSUME NEW j \in 0 .. l * ByteBits + f - 1
      PROVE  SBit(new, rest, j) = SBit(ob, cb.buf, j)
  <2> DEFINE q == j \div ByteBits
             r == j % ByteBits
             p == l * ByteBits
             z == k * ByteBits
  <2>1. j \in Nat /\ p \in Nat /\ z \in Nat /\ j < p + f
    <3>1. j \in 0 .. p + f - 1
      OBVIOUS
    <3>2. p \in Nat /\ z \in Nat
      BY <1>1, <1>6
    <3> HIDE DEF p, f, z
    <3> QED
      BY <1>1, <3>1, <3>2
  <2>2. /\ q \in Nat /\ r \in 0 .. ByteBits - 1 /\ j = q * ByteBits + r
        /\ j < p <=> q < l
        /\ j < (l + k) * ByteBits <=> q < l + k
    <3>1. l + k \in Nat
      BY <1>1
    <3> QED
      BY <1>1, <2>1, <3>1, ByteOf
  <2>3. (l + k) * ByteBits = p + z
    BY <1>1
  <2>4. /\ SBit(new, rest, j) = IF j < p + z THEN new[q + 1][r + 1] ELSE rest[j - (p + z) + 1]
        /\ SBit(ob, cb.buf, j) = IF j < p THEN ob[q + 1][r + 1] ELSE cb.buf[j - p + 1]
    BY <1>5, <2>3 DEF SBit
  <2>5. CASE j < p
    <3>1. q + 1 \in 1 .. l /\ j < p + z
      BY <1>1, <2>1, <2>2, <2>5
    <3>2. new[q + 1] = ob[q + 1]
      BY <1>5, <3>1
    <3> HIDE DEF q, r, p, z
    <3> QED
      BY <2>4, <2>5, <3>1, <3>2
  <2>6. CASE ~(j < p) /\ j < p + z
    <3> DEFINE i == q - l + 1
               m == (i - 1) * ByteBits
    <3>1. i \in 1 .. k /\ l + i = q + 1 /\ i - 1 = q - l
      <4>1. q < l + k /\ ~(q < l)
        BY <2>2, <2>3, <2>6
      <4> QED
        BY <1>1, <2>2, <4>1
    <3>2. m = q * ByteBits - p /\ q * ByteBits \in Nat
      <4>1. (q - l) * ByteBits = q * ByteBits - p
        BY <1>1, <2>2
      <4> QED
        BY <1>1, <2>2, <3>1, <4>1
    <3>3. m + r = j - p /\ m + r < f
      <4> DEFINE y == q * ByteBits
      <4>1. j = y + r /\ m = y - p /\ y \in Nat
        BY <2>2, <3>2
      <4>2. r \in Nat
        BY <1>1, <2>2
      <4> HIDE DEF y, q, r, p, z, m
      <4> QED
        BY <1>1, <2>1, <4>1, <4>2
    <3>4. new[q + 1] = out[i]
      BY <1>5, <3>1
    <3>5. out[i][r + 1] = cb.buf[m + r + 1]
      BY <1>3, <2>2, <3>1, <3>3
    <3> HIDE DEF q, r, p, z, i, m
    <3>6. m + r + 1 = j - p + 1
      BY <3>3
    <3> QED
      BY <2>4, <2>6, <3>4, <3>5, <3>6
  <2>7. CASE ~(j < p + z)
    <3> HIDE DEF q, r, p, z
    <3>1. ~(j < p)
      BY <2>1, <2>7
    <3>2. j - (p + z) + 1 \in 1 .. f - z /\ z + (j - (p + z) + 1) = j - p + 1
      <4> HIDE DEF f
      <4> QED
        BY <1>1, <2>1, <2>7
    <3>3. rest[j - (p + z) + 1] = cb.buf[z + (j - (p + z) + 1)]
      BY <1>7, <3>2 DEF z
    <3> HIDE DEF p, z
    <3> QED
      BY <2>4, <2>7, <3>1, <3>2, <3>3
  <2> QED
    BY <2>5, <2>6, <2>7
<1> QED
  BY <1>5, <1>7, <1>8 DEF out, new, rest

LEMMA NumberToBits ==
  ASSUME NEW x \in Nat, NEW n \in Nat
  PROVE  /\ ToBits(x, n) \in Seq({0, 1}) /\ Len(ToBits(x, n)) = n
         /\ \A b \in 0 .. n - 1 : ToBits(x, n)[b + 1] = Bit(x, b)
<1> DEFINE s == ToBits(x, n)
<1>1. s = [i \in 1 .. n |-> Bit(x, i - 1)]
  BY DEF ToBits
<1>2. ASSUME NEW i \in 1 .. n PROVE Bit(x, i - 1) \in {0, 1}
  <2>1. i - 1 \in Nat
    OBVIOUS
  <2> QED
    BY <2>1, BitRange
<1>3. s \in Seq({0, 1}) /\ Len(s) = n
  <2> HIDE DEF s
  <2>1. s \in [1 .. n -> {0, 1}]
    BY <1>1, <1>2
  <2> QED
    BY <2>1
<1>4. ASSUME NEW b \in 0 .. n - 1 PROVE s[b + 1] = Bit(x, b)
  <2>1. b + 1 \in 1 .. n /\ (b + 1) - 1 = b
    OBVIOUS
  <2> HIDE DEF s
  <2> QED
    BY <1>1, <2>1
<1> QED
  BY <1>3, <1>4

(* The bits of three sequences, one behind the other. *)
LEMMA ThreeParts ==
  ASSUME NEW x \in Seq({0, 1}), NEW y \in Seq({0, 1}), NEW z \in Seq({0, 1})
  PROVE  /\ x \o y \o z \in Seq({0, 1}) /\ Len(x \o y \o z) = Len(x) + Len(y) + Len(z)
         /\ \A b \in 0 .. Len(x) + Len(y) + Len(z) - 1 :
              (x \o y \o z)[b + 1] =
                IF b < Len(x) THEN x[b + 1]
                ELSE IF b < Len(x) + Len(y) THEN y[b - Len(x) + 1]
                ELSE z[b - (Len(x) + Len(y)) + 1]
<1> DEFINE w == x \o y
<1>1. Len(x) \in Nat /\ Len(y) \in Nat /\ Len(z) \in Nat
  OBVIOUS
<1>2. /\ w \in Seq({0, 1}) /\ Len(w) = Len(x) + Len(y)
      /\ \A i \in 1 .. Len(x) + Len(y) : w[i] = IF i <= Len(x) THEN x[i] ELSE y[i - Len(x)]
  BY ConcatProperties
<1> HIDE DEF w
<1>3. /\ w \o z \in Seq({0, 1}) /\ Len(w \o z) = Len(w) + Len(z)
      /\ \A i \in 1 .. Len(w) + Len(z) : (w \o z)[i] = IF i <= Len(w) THEN w[i] ELSE z[i - Len(w)]
  <2>1. w \in Seq({0, 1})
    BY <1>2
  <2> QED
    BY ONLY <2>1, z \in Seq({0, 1}), ConcatProperties
<1> DEFINE v == w \o z
<1> HIDE DEF v
<1>4. ASSUME NEW b \in 0 .. Len(x) + Len(y) + Len(z) - 1
      PROVE  v[b + 1] = IF b < Len(x) THEN x[b + 1]
                        ELSE IF b < Len(x) + Len(y) THEN y[b - Len(x) + 1]
                        ELSE z[b - (Len(x) + Len(y)) + 1]
  <2>1. b + 1 \in 1 .. Len(w) + Len(z)
    BY <1>1, <1>2
  <2>2. v[b + 1] = IF b + 1 <= Len(w) THEN w[b + 1] ELSE z[b + 1 - Len(w)]
    BY <1>3, <2>1 DEF v
  <2>3. CASE b < Len(x) + Len(y)
    <3>1. b + 1 \in 1 .. Len(x) + Len(y) /\ b + 1 <= Len(w)
      BY <1>1, <1>2, <2>3
    <3>2. v[b + 1] = IF b + 1 <= Len(x) THEN x[b + 1] ELSE y[b + 1 - Len(x)]
      BY <1>2, <2>2, <3>1
    <3>3. (b + 1 <= Len(x) <=> b < Len(x)) /\ b + 1 - Len(x) = b - Len(x) + 1
      BY <1>1
    <3> QED
      BY <2>3, <3>2, <3>3
  <2>4. CASE ~(b < Len(x) + Len(y))
    <3>1. ~(b + 1 <= Len(w)) /\ ~(b < Len(x)) /\ b + 1 - Len(w) = b - (Len(x) + Len(y)) + 1
      BY <1>1, <1>2, <2>4
    <3> QED
      BY <2>2, <2>4, <3>1
  <2> QED
    BY <2>3, <2>4
<1> QED
  BY <1>2, <1>3, <1>4 DEF v, w

(* What the encoder puts in for a token are the bits of the token. *)
LEMMA TokenBitsOfToken ==
  ASSUME Coded(tbuf, length1, length2),
         codes = [encode1 |-> EncodeTable(length1, MaxLen1), encode2 |-> EncodeTable(length2, MaxLen2)],
         NEW k \in Heads(tbuf)
  PROVE  /\ TokenBits(k) \in Seq({0, 1})
         /\ Len(TokenBits(k)) = TokenLen(tbuf, length1, length2, k)
         /\ \A b \in 0 .. TokenLen(tbuf, length1, length2, k) - 1 :
              TokenBits(k)[b + 1] = TokenBit(tbuf, length1, length2, k, b)
<1> DEFINE v == tbuf[k]
           c == CodeOfDistance(tbuf[k + 1])
           x == ToBits(EncodeTable(length1, MaxLen1)[v], length1[v])
           y == ToBits(EncodeTable(length2, MaxLen2)[c], length2[c])
           z == ToBits(tbuf[k + 1] - matchidx_base[c], matchidx_blen[c])
           l1 == length1[v]
           l2 == length2[c]
           e == matchidx_blen[c]
           TB(b) == IF b < l1 THEN Bit(EncodeTable(length1, MaxLen1)[v], b)
                    ELSE IF b < l1 + l2 THEN Bit(EncodeTable(length2, MaxLen2)[c], b - l1)
                    ELSE Bit(tbuf[k + 1] - matchidx_base[c], b - (l1 + l2))
<1>1. /\ v \in Code1 /\ v \in Nat /\ l1 \in 1 .. MaxLen1
      /\ CodeLengths(length1, MaxLen1) /\ CodeLengths(length2, MaxLen2)
      /\ v >= FirstMatch => /\ c \in Code2 /\ l2 \in 1 .. MaxLen2
                            /\ tbuf[k + 1] - matchidx_base[c] \in 0 .. 2 ^ e - 1
  BY TokenFacts
<1>2. DOMAIN length1 = Code1 /\ DOMAIN length2 = Code2
  BY DEF Coded
<1>3. x \in Seq({0, 1}) /\ Len(x) = l1
      /\ \A b \in 0 .. l1 - 1 : x[b + 1] = Bit(EncodeTable(length1, MaxLen1)[v], b)
  <2>1. EncodeTable(length1, MaxLen1)[v] \in Nat /\ l1 \in Nat
    <3>1. EncodeTable(length1, MaxLen1)[v] \in 0 .. 2 ^ l1 - 1
      BY <1>1, <1>2, EncodedBits
    <3> QED
      BY <1>1, <3>1
  <2> QED
    BY <2>1, NumberToBits
<1>4. ASSUME v >= FirstMatch
      PROVE  /\ y \in Seq({0, 1}) /\ Len(y) = l2
             /\ \A b \in 0 .. l2 - 1 : y[b + 1] = Bit(EncodeTable(length2, MaxLen2)[c], b)
  <2>1. EncodeTable(length2, MaxLen2)[c] \in Nat /\ l2 \in Nat
    <3>1. EncodeTable(length2, MaxLen2)[c] \in 0 .. 2 ^ l2 - 1
      BY <1>1, <1>2, <1>4, EncodedBits
    <3> QED
      BY <1>1, <1>4, <3>1
  <2> QED
    BY <2>1, NumberToBits
<1>5. ASSUME v >= FirstMatch
      PROVE  /\ z \in Seq({0, 1}) /\ Len(z) = e /\ e \in Nat
             /\ \A b \in 0 .. e - 1 : z[b + 1] = Bit(tbuf[k + 1] - matchidx_base[c], b)
  <2>1. tbuf[k + 1] - matchidx_base[c] \in Nat
    BY <1>1, <1>5
  <2>2. e \in Nat
    BY <1>1, <1>5, Sizes
  <2> QED
    BY <2>1, <2>2, NumberToBits
<1>6. /\ TokenBits(k) = IF v < FirstMatch THEN x ELSE x \o y \o z
      /\ TokenLen(tbuf, length1, length2, k) = IF v < FirstMatch THEN l1 ELSE l1 + l2 + e
      /\ \A b : TokenBit(tbuf, length1, length2, k, b) = TB(b)
  BY DEF TokenBits, TokenLen, TokenBit
<1>7. CASE v < FirstMatch
  <2>1. ASSUME NEW b \in 0 .. l1 - 1 PROVE x[b + 1] = TB(b)
    <3>1. b < l1
      BY <1>1
    <3> QED
      BY <1>3, <3>1
  <2> HIDE DEF x, l1, TB
  <2> QED
    BY <1>3, <1>6, <1>7, <2>1
<1>8. CASE ~(v < FirstMatch)
  <2>1. v >= FirstMatch
    BY <1>1, <1>8, Sizes
  <2>2. /\ y \in Seq({0, 1}) /\ Len(y) = l2
        /\ \A b \in 0 .. l2 - 1 : y[b + 1] = Bit(EncodeTable(length2, MaxLen2)[c], b)
    BY <1>4, <2>1
  <2>3. /\ z \in Seq({0, 1}) /\ Len(z) = e /\ e \in Nat
        /\ \A b \in 0 .. e - 1 : z[b + 1] = Bit(tbuf[k + 1] - matchidx_base[c], b)
    BY <1>5, <2>1
  <2>4. l1 \in Nat /\ l2 \in Nat /\ e \in Nat
    BY <1>1, <2>1, <2>3
  <2> HIDE DEF x, y, z, l1, l2, e, v, c
  <2>5. /\ x \o y \o z \in Seq({0, 1}) /\ Len(x \o y \o z) = l1 + l2 + e
        /\ \A b \in 0 .. l1 + l2 + e - 1 :
             (x \o y \o z)[b + 1] = IF b < l1 THEN x[b + 1]
                                    ELSE IF b < l1 + l2 THEN y[b - l1 + 1] ELSE z[b - (l1 + l2) + 1]
    BY <1>3, <2>2, <2>3, ThreeParts
  <2>6. ASSUME NEW b \in 0 .. l1 + l2 + e - 1 PROVE (x \o y \o z)[b + 1] = TB(b)
    <3>1. CASE b < l1
      <4>1. b \in 0 .. l1 - 1
        BY <2>4, <3>1
      <4>2. x[b + 1] = Bit(EncodeTable(length1, MaxLen1)[v], b)
        BY <1>3, <4>1
      <4>3. (x \o y \o z)[b + 1] = x[b + 1]
        BY <2>5, <3>1
      <4> QED
        BY <3>1, <4>2, <4>3
    <3>2. CASE ~(b < l1) /\ b < l1 + l2
      <4>1. b - l1 \in 0 .. l2 - 1
        BY <2>4, <3>2
      <4>2. y[b - l1 + 1] = Bit(EncodeTable(length2, MaxLen2)[c], b - l1)
        BY <2>2, <4>1
      <4>3. (x \o y \o z)[b + 1] = y[b - l1 + 1]
        BY <2>5, <3>2
      <4> QED
        BY <3>2, <4>2, <4>3
    <3>3. CASE ~(b < l1) /\ ~(b < l1 + l2)
      <4>1. b - (l1 + l2) \in 0 .. e - 1
        BY <2>4, <3>3
      <4>2. z[b - (l1 + l2) + 1] = Bit(tbuf[k + 1] - matchidx_base[c], b - (l1 + l2))
        BY <2>3, <4>1
      <4>3. (x \o y \o z)[b + 1] = z[b - (l1 + l2) + 1]
        BY <2>5, <3>3
      <4> QED
        BY <3>3, <4>2, <4>3
    <3> QED
      BY <3>1, <3>2, <3>3
  <2> HIDE DEF TB
  <2>7. TokenBits(k) = x \o y \o z /\ TokenLen(tbuf, length1, length2, k) = l1 + l2 + e
    BY <1>6, <1>8
  <2> DEFINE w == x \o y \o z
             n == l1 + l2 + e
  <2> HIDE DEF w, n
  <2>8. w \in Seq({0, 1}) /\ Len(w) = n /\ \A b \in 0 .. n - 1 : w[b + 1] = TB(b)
    <3>1. w \in Seq({0, 1}) /\ Len(w) = n
      BY <2>5 DEF w, n
    <3>2. ASSUME NEW b \in 0 .. n - 1 PROVE w[b + 1] = TB(b)
      <4>1. b \in 0 .. l1 + l2 + e - 1
        BY <2>4 DEF n
      <4> QED
        BY <2>6, <4>1 DEF w
    <3> QED
      BY <3>1, <3>2
  <2>9. TokenBits(k) = w /\ TokenLen(tbuf, length1, length2, k) = n
    BY <2>7 DEF w, n
  <2> QED
    BY <1>6, <2>8, <2>9
<1> QED
  BY <1>7, <1>8
-----------------------------------------------------------------------------
(***************************************************************************)
(* Length tables, two lengths to a byte.                                   *)
(***************************************************************************)
LEMMA Even ==
  ASSUME NEW m \in Nat \ {0}, m % 2 = 0
  PROVE  m \div 2 \in Nat \ {0} /\ 2 * (m \div 2) = m
  OBVIOUS

LEMMA PackedLengths ==
  ASSUME NEW m \in Nat \ {0}, m % 2 = 0, NEW length \in [0 .. m - 1 -> 0 .. 15]
  PROVE  /\ Pack(length) \in Seq(Nat) /\ Len(Pack(length)) = m \div 2
         /\ Unpack(Pack(length)) = length
<1> DEFINE h == m \div 2
           B(k) == length[2 * k - 2] * 16 + length[2 * k - 1]
<1>1. h \in Nat \ {0} /\ 2 * h = m
  BY Even
<1>2. Cardinality(DOMAIN length) = m
  <2>1. DOMAIN length = 0 .. m - 1
    OBVIOUS
  <2>2. Cardinality(0 .. m - 1) = (m - 1) - 0 + 1
    BY FS_Interval
  <2> QED
    BY <2>1, <2>2
<1>3. Pack(length) = [k \in 1 .. h |-> B(k) % 256]
  BY <1>2 DEF Pack
<1> HIDE DEF h
<1>4. ASSUME NEW k \in 1 .. h
      PROVE  /\ B(k) % 256 \in Nat
             /\ (B(k) % 256) \div 16 = length[2 * k - 2]
             /\ (B(k) % 256) % 16 = length[2 * k - 1]
  <2>1. 2 * k - 2 \in 0 .. m - 1 /\ 2 * k - 1 \in 0 .. m - 1
    BY <1>1
  <2>2. PICK a \in 0 .. 15 : a = length[2 * k - 2]
    BY <2>1
  <2>3. PICK b \in 0 .. 15 : b = length[2 * k - 1]
    BY <2>1
  <2>4. B(k) = 16 * a + b
    BY <2>2, <2>3
  <2>5. (16 * a + b) % 256 = 16 * a + b /\ 16 * a + b \in Nat
    OBVIOUS
  <2>6. (16 * a + b) \div 16 = a /\ (16 * a + b) % 16 = b
    OBVIOUS
  <2> HIDE DEF B
  <2> QED
    BY <2>2, <2>3, <2>4, <2>5, <2>6
<1> HIDE DEF B
<1>5. Pack(length) \in Seq(Nat) /\ Len(Pack(length)) = h
  <2>1. Pack(length) \in [1 .. h -> Nat]
    BY <1>3, <1>4
  <2> QED
    BY <1>1, <2>1
<1> DEFINE bytes == Pack(length)
           U(s) == IF s % 2 = 0 THEN bytes[s \div 2 + 1] \div 16 ELSE bytes[s \div 2 + 1] % 16
<1>6. Unpack(bytes) = [s \in 0 .. m - 1 |-> U(s)]
  <2>1. 2 * Len(bytes) - 1 = m - 1
    BY <1>1, <1>5
  <2> QED
    BY <2>1 DEF Unpack
<1>7. ASSUME NEW s \in 0 .. m - 1 PROVE U(s) = length[s]
  <2> DEFINE k == s \div 2 + 1
  <2>1. k \in 1 .. h
    BY <1>1
  <2>2. bytes[k] \div 16 = length[2 * k - 2] /\ bytes[k] % 16 = length[2 * k - 1]
    <3> HIDE DEF k
    <3> QED
      BY <1>3, <1>4, <2>1
  <2>3. IF s % 2 = 0 THEN 2 * k - 2 = s ELSE 2 * k - 1 = s
    OBVIOUS
  <2>4. U(s) = IF s % 2 = 0 THEN bytes[k] \div 16 ELSE bytes[k] % 16
    OBVIOUS
  <2> HIDE DEF k, bytes, U
  <2> QED
    BY <2>2, <2>3, <2>4
<1> HIDE DEF U, bytes
<1>8. Unpack(bytes) = length
  BY <1>6, <1>7
<1> QED
  BY <1>5, <1>8 DEF h, bytes

(* The decoder finds both tables where the encoder packed them. *)
LEMMA TablesComeBack ==
  ASSUME NEW l1 \in [Code1 -> 0 .. MaxLen1], NEW l2 \in [Code2 -> 0 .. MaxLen2],
         NEW head, head = Pack(l1) \o Pack(l2)
  PROVE  /\ Unpack(SubSeq(head, 1, NumCodes1 \div 2)) = l1
         /\ Unpack(SubSeq(head, NumCodes1 \div 2 + 1, Len(head))) = l2
<1>1. l1 \in [0 .. NumCodes1 - 1 -> 0 .. 15] /\ l2 \in [0 .. NumCodes2 - 1 -> 0 .. 15]
  <2>1. 0 .. MaxLen1 \subseteq 0 .. 15 /\ 0 .. MaxLen2 \subseteq 0 .. 15
    BY Sizes
  <2> QED
    BY <2>1 DEF Code1, Code2
<1> DEFINE s == Pack(l1)
           t == Pack(l2)
           h == NumCodes1 \div 2
<1>2. NumCodes1 % 2 = 0 /\ NumCodes2 % 2 = 0
  BY EntropyAssumption
<1>3. s \in Seq(Nat) /\ Len(s) = h /\ Unpack(s) = l1
  BY <1>1, <1>2, Sizes, PackedLengths
<1>4. t \in Seq(Nat) /\ Len(t) = NumCodes2 \div 2 /\ Unpack(t) = l2
  BY <1>1, <1>2, Sizes, PackedLengths
<1>5. h \in Nat \ {0} /\ NumCodes2 \div 2 \in Nat \ {0}
  BY <1>2, Sizes, Even
<1> HIDE DEF s, t, h
<1>6. Len(head) = Len(s) + Len(t)
  BY <1>3, <1>4, ConcatProperties DEF s, t
<1>7. SubSeq(head, 1, h) = s
  <2>1. 1 \in 1 .. Len(s) /\ h \in 1 .. Len(s)
    BY <1>3, <1>5
  <2>2. SubSeq(s \o t, 1, h) = SubSeq(s, 1, h)
    BY <1>3, <1>4, <2>1, SubSeqOfConcat1
  <2>3. SubSeq(s, 1, h) = s
    BY <1>3, SubSeqFull
  <2> QED
    BY <2>2, <2>3 DEF s, t
<1>8. SubSeq(head, h + 1, Len(head)) = t
  <2> DEFINE n == Len(s) + Len(t)
  <2>1. /\ h + 1 \in Len(s) + 1 .. Len(s) + Len(t) /\ n \in Len(s) + 1 .. Len(s) + Len(t)
        /\ (h + 1) - Len(s) = 1 /\ n - Len(s) = Len(t)
    BY <1>3, <1>4, <1>5
  <2> HIDE DEF n
  <2>2. SubSeq(s \o t, h + 1, n) = SubSeq(t, (h + 1) - Len(s), n - Len(s))
    BY <1>3, <1>4, <2>1, SubSeqOfConcat2
  <2>3. SubSeq(t, 1, Len(t)) = t
    BY <1>4, SubSeqFull
  <2> QED
    BY <1>6, <2>1, <2>2, <2>3 DEF s, t, n
<1> QED
  BY <1>3, <1>4, <1>7, <1>8 DEF h
-----------------------------------------------------------------------------
(***************************************************************************)
(* The decoder's side.                                                     *)
(***************************************************************************)
(* What is found behind the stream are bytes. *)
LEMMA StaleByte ==
  ASSUME NEW old \in StaleBytes, NEW k \in Nat
  PROVE  ByteBehind(old, k) \in Byte
<1>1. 2 * FetchBytes \in Nat \ {0}
  BY Sizes
<1>2. (k % (2 * FetchBytes)) + 1 \in Behind
  BY <1>1 DEF Behind
<1>3. old \in [Behind -> Byte]
  BY StaleAssumption
<1> QED
  BY <1>2, <1>3 DEF ByteBehind

(* What is fetched is what comes next in memory, written or not. *)
LEMMA FetchedBits ==
  ASSUME obuf \in Seq(Byte), stale \in StaleBytes, di \in Nat, NEW k \in Nat
  PROVE  LET f == Flat(BytesAt(k))
         IN  /\ f \in Seq({0, 1}) /\ Len(f) = k * ByteBits
             /\ \A m \in 1 .. k * ByteBits : f[m] = XBit(obuf, stale, di * ByteBits + (m - 1))
<1> DEFINE bs == BytesAt(k)
           z == k * ByteBits
           l == Len(obuf)
           F(m) == bs[((m - 1) \div ByteBits) + 1][((m - 1) % ByteBits) + 1]
<1>1. ByteBits \in Nat \ {0} /\ l \in Nat
  BY Sizes
<1>2. /\ Len(bs) = k
      /\ \A i \in 1 .. k : bs[i] = IF di + i <= l THEN obuf[di + i]
                                ELSE ByteBehind(stale, di + i - l - 1)
  BY DEF BytesAt
<1>3. Flat(bs) = [m \in 1 .. z |-> F(m)]
  <2>1. Flat(bs) = [m \in 1 .. Len(bs) * ByteBits |-> F(m)]
    BY DEF Flat
  <2> HIDE DEF bs, F
  <2> QED
    BY <1>2, <2>1
<1>4. z \in Nat
  BY <1>1
<1> HIDE DEF bs
<1>5. ASSUME NEW m \in 1 .. z
      PROVE  F(m) = XBit(obuf, stale, di * ByteBits + (m - 1)) /\ F(m) \in {0, 1}
  <2> DEFINE y == m - 1
             q == y \div ByteBits
             r == y % ByteBits
             j == di * ByteBits + y
  <2>1. y \in Nat /\ y < z
    <3> HIDE DEF z
    <3> QED
      BY <1>4
  <2> HIDE DEF y
  <2>2. q \in Nat /\ r \in 0 .. ByteBits - 1 /\ y = q * ByteBits + r /\ q < k
    BY <2>1, ByteOf DEF z
  <2> HIDE DEF q, r
  <2>3. j = ByteBits * (di + q) + r
    BY <1>1, <2>2
  <2>4. j \in Nat /\ di + q \in Nat
    <3>1. di * ByteBits \in Nat
      BY <1>1
    <3> QED
      BY <2>1, <2>2, <3>1
  <2>5. j \div ByteBits = di + q /\ j % ByteBits = r
    <3>1. (ByteBits * (di + q) + r) \div ByteBits = di + q /\ (ByteBits * (di + q) + r) % ByteBits = r
      BY <1>1, <2>2, <2>4, DivModUnique
    <3> QED
      BY <2>3, <3>1
  <2>6. j < l * ByteBits <=> di + q < l
    BY <1>1, <2>4, <2>5, ByteOf
  <2>7. XBit(obuf, stale, j) = IF di + q < l THEN obuf[(di + q) + 1][r + 1]
                               ELSE ByteBehind(stale, (di + q) - l)[r + 1]
    BY <2>5, <2>6 DEF XBit
  <2>8. q + 1 \in 1 .. k /\ di + (q + 1) = (di + q) + 1 /\ (di + (q + 1) <= l <=> di + q < l)
    BY <1>1, <2>2
  <2>9. bs[q + 1] = IF di + q < l THEN obuf[(di + q) + 1] ELSE ByteBehind(stale, (di + q) - l)
    <3>1. di + (q + 1) - l - 1 = (di + q) - l
      BY <1>1, <2>2
    <3> QED
      BY <1>2, <2>8, <3>1
  <2>10. F(m) = bs[q + 1][r + 1]
    BY DEF q, r, y
  <2>11. F(m) = XBit(obuf, stale, j)
    BY <2>7, <2>9, <2>10
  <2>12. bs[q + 1] \in Byte /\ r + 1 \in 1 .. ByteBits
    <3>1. di + q < l => (di + q) + 1 \in 1 .. l
      BY <1>1, <2>4
    <3>2. r + 1 \in 1 .. ByteBits
      BY <1>1, <2>2
    <3>3. ~(di + q < l) => ByteBehind(stale, (di + q) - l) \in Byte
      <4>1. ~(di + q < l) => (di + q) - l \in Nat
        BY <1>1, <2>4
      <4> QED
        BY <4>1, StaleByte
    <3> QED
      BY <2>9, <3>1, <3>2, <3>3
  <2>13. F(m) \in {0, 1}
    BY <2>10, <2>12 DEF Byte, Bits
  <2> QED
    BY <2>11, <2>13 DEF y
<1> HIDE DEF F, z
<1> DEFINE f == Flat(bs)
<1> HIDE DEF f
<1>6. f = [m \in 1 .. z |-> F(m)]
  BY <1>3 DEF f
<1>7. f \in [1 .. z -> {0, 1}]
  BY <1>5, <1>6
<1>8. f \in Seq({0, 1}) /\ Len(f) = z
  BY <1>4, <1>7
<1>9. \A m \in 1 .. z : f[m] = XBit(obuf, stale, di * ByteBits + (m - 1))
  BY <1>5, <1>6
<1> QED
  BY <1>8, <1>9 DEF f, bs, z

(* With the bits of a token next in its codebuf, the decoder finds the token: *)
(* its code in one of the tables, then the code of the distance, then the    *)
(* extra bits.                                                               *)
LEMMA TokenFound ==
  ASSUME Coded(tbuf, length1, length2), tables = DecoderTables(length1, length2),
         NEW cb, cb.buf \in Seq({0, 1}), Len(cb.buf) >= RefillBits,
         NEW k \in Heads(tbuf),
         \A b \in 0 .. TokenLen(tbuf, length1, length2, k) - 1 :
           cb.buf[b + 1] = TokenBit(tbuf, length1, length2, k, b)
  PROVE  /\ LookUp1(cb) = tbuf[k]
         /\ tbuf[k] >= FirstMatch =>
              LET c == CodeOfDistance(tbuf[k + 1])
                  cb1 == Output(cb, length1[tbuf[k]])
                  cb2 == Output(cb1, length2[c])
              IN  /\ LookUp2(cb1) = c
                  /\ FromBits(Peek(cb2, matchidx_blen[c]), matchidx_blen[c])
                       = tbuf[k + 1] - matchidx_base[c]
<1> DEFINE v == tbuf[k]
           c == CodeOfDistance(tbuf[k + 1])
           l1 == length1[v]
           l2 == length2[c]
           e == matchidx_blen[c]
           y == tbuf[k + 1] - matchidx_base[c]
           E1 == EncodeTable(length1, MaxLen1)
           E2 == EncodeTable(length2, MaxLen2)
           n == TokenLen(tbuf, length1, length2, k)
           TB(b) == IF b < l1 THEN Bit(E1[v], b)
                    ELSE IF b < l1 + l2 THEN Bit(E2[c], b - l1)
                    ELSE Bit(y, b - (l1 + l2))
           buf == cb.buf
<1>1. /\ v \in Code1 /\ v \in Nat /\ l1 \in 1 .. MaxLen1
      /\ CodeLengths(length1, MaxLen1) /\ CodeLengths(length2, MaxLen2)
      /\ v >= FirstMatch => /\ c \in Code2 /\ l2 \in 1 .. MaxLen2
                            /\ y \in 0 .. 2 ^ e - 1
  BY TokenFacts
<1>2. DOMAIN length1 = Code1 /\ DOMAIN length2 = Code2
  BY DEF Coded
<1>3. n = IF v < FirstMatch THEN l1 ELSE l1 + l2 + e
  BY DEF TokenLen
<1>4. \A b \in 0 .. n - 1 : buf[b + 1] = TB(b)
  BY DEF TokenBit
<1>5. l1 <= n /\ n \in Nat
  <2>1. CASE v < FirstMatch
    BY <1>1, <1>3, <2>1
  <2>2. CASE ~(v < FirstMatch)
    <3>1. v >= FirstMatch
      BY <1>1, <2>2, Sizes
    <3>2. l1 \in Nat /\ l2 \in Nat /\ e \in Nat
      BY <1>1, <3>1, Sizes
    <3> HIDE DEF v, l1, l2, e, n
    <3> QED
      BY <1>3, <2>2, <3>2
  <2> QED
    BY <2>1, <2>2
<1>6. Len(buf) \in Nat /\ Len(buf) >= RefillBits
  OBVIOUS
<1>7. /\ tables.fast1 = DecodeTable(length1, E1, FastLen1)
      /\ tables.decode1 = DecodeTable(length1, E1, MaxLen1)
      /\ tables.decode2 = DecodeTable(length2, E2, MaxLen2)
  BY DEF DecoderTables
<1> HIDE DEF n, buf
<1>8. LookUp1(cb) = v
  <2>1. ASSUME NEW i \in 0 .. l1 - 1 PROVE buf[i + 1] = Bit(E1[v], i)
    <3>1. i \in 0 .. n - 1 /\ i < l1
      <4> HIDE DEF v, l1
      <4> QED
        BY <1>1, <1>5
    <3> QED
      BY <1>4, <3>1
  <2>2. FastLen1 \in 1 .. MaxLen1 /\ MaxLen1 \in 1 .. MaxLen1 /\ FastLen1 <= Len(buf) /\ MaxLen1 <= Len(buf)
    <3>1. MaxLen1 + MaxLen2 + matchidx_blen[0] <= RefillBits /\ matchidx_blen[0] \in Nat
      BY Sizes
    <3> QED
      BY <1>6, <3>1, Sizes
  <2>3. l1 # 0 /\ v \in DOMAIN length1 /\ l1 <= MaxLen1
    BY <1>1, <1>2, Sizes
  <2>4. tables.fast1[FromBits(Peek(cb, FastLen1), FastLen1)] = IF l1 <= FastLen1 THEN v ELSE NoSymbol
    <3>1. \A i \in 0 .. length1[v] - 1 :
            i < FastLen1 => cb.buf[i + 1] = Bit(EncodeTable(length1, MaxLen1)[v], i)
      BY <2>1 DEF buf
    <3>2. DecodeTable(length1, EncodeTable(length1, MaxLen1), FastLen1)[FromBits(Peek(cb, FastLen1), FastLen1)]
            = IF length1[v] <= FastLen1 THEN v ELSE NoSymbol
      BY <1>1, <2>2, <2>3, <3>1, PeekFinds DEF buf
    <3> QED
      BY <1>7, <3>2
  <2>5. tables.decode1[FromBits(Peek(cb, MaxLen1), MaxLen1)] = v
    <3>1. \A i \in 0 .. length1[v] - 1 :
            i < MaxLen1 => cb.buf[i + 1] = Bit(EncodeTable(length1, MaxLen1)[v], i)
      BY <2>1 DEF buf
    <3>2. DecodeTable(length1, EncodeTable(length1, MaxLen1), MaxLen1)[FromBits(Peek(cb, MaxLen1), MaxLen1)]
            = IF length1[v] <= MaxLen1 THEN v ELSE NoSymbol
      BY <1>1, <2>2, <2>3, <3>1, PeekFinds DEF buf
    <3> QED
      BY <1>7, <2>3, <3>2
  <2>6. v # NoSymbol
    BY <1>1, Sizes
  <2> HIDE DEF v, l1
  <2> QED
    BY <2>4, <2>5, <2>6 DEF LookUp1
<1>9. ASSUME v >= FirstMatch
      PROVE  /\ LookUp2(Output(cb, l1)) = c
             /\ FromBits(Peek(Output(Output(cb, l1), l2), e), e) = y
  <2> DEFINE cb1 == Output(cb, l1)
             cb2 == Output(cb1, l2)
             buf1 == cb1.buf
             buf2 == cb2.buf
  <2>1. /\ c \in Code2 /\ l1 \in Nat /\ l1 # 0 /\ l2 \in Nat /\ l2 # 0 /\ e \in Nat
        /\ l1 <= MaxLen1 /\ l2 <= MaxLen2
        /\ MaxLen1 + MaxLen2 + e <= RefillBits
        /\ y \in 0 .. 2 ^ e - 1
    <3>1. c \in Code2 /\ l2 \in 1 .. MaxLen2 /\ y \in 0 .. 2 ^ e - 1
      BY <1>1, <1>9
    <3>2. e \in Nat /\ MaxLen1 + MaxLen2 + e <= RefillBits
      BY <3>1, Sizes
    <3> HIDE DEF c, l1, l2, e, y
    <3> QED
      BY <1>1, <3>1, <3>2, Sizes
  <2>2. n = l1 + l2 + e
    <3>1. ~(v < FirstMatch)
      BY <1>1, <1>9, Sizes
    <3> QED
      BY <1>3, <3>1
  <2> HIDE DEF l1, l2, e, y, c, v
  <2>3. MaxLen1 \in Nat /\ MaxLen2 \in Nat /\ MaxLen2 # 0 /\ RefillBits \in Nat
    BY Sizes
  <2>4. buf1 = SubSeq(buf, l1 + 1, Len(buf))
    BY DEF Output, buf
  <2>5. /\ buf1 \in Seq({0, 1}) /\ Len(buf1) = Len(buf) - l1
        /\ \A i \in 1 .. Len(buf) - l1 : buf1[i] = buf[l1 + i]
    <3>1. l1 <= Len(buf)
      BY <1>6, <2>1, <2>3
    <3>2. buf \in Seq({0, 1})
      BY DEF buf
    <3> HIDE DEF buf1
    <3> QED
      BY <2>1, <2>4, <3>1, <3>2, Rest
  <2>6. buf2 = SubSeq(buf1, l2 + 1, Len(buf1))
    BY DEF Output
  <2>7. /\ buf2 \in Seq({0, 1}) /\ Len(buf2) = Len(buf1) - l2
        /\ \A i \in 1 .. Len(buf1) - l2 : buf2[i] = buf1[l2 + i]
    <3>1. l2 <= Len(buf1)
      BY <1>6, <2>1, <2>3, <2>5
    <3> HIDE DEF buf2, buf1
    <3> QED
      BY <2>1, <2>5, <2>6, <3>1, Rest
  <2> HIDE DEF cb1, cb2
  <2>8. LookUp2(cb1) = c
    <3>1. ASSUME NEW i \in 0 .. l2 - 1 PROVE buf1[i + 1] = Bit(E2[c], i)
      <4>1. /\ i + 1 \in 1 .. Len(buf) - l1 /\ l1 + (i + 1) = (l1 + i) + 1
            /\ l1 + i \in 0 .. n - 1 /\ ~(l1 + i < l1) /\ l1 + i < l1 + l2 /\ (l1 + i) - l1 = i
        BY <1>6, <2>1, <2>2, <2>3
      <4>2. buf1[i + 1] = buf[(l1 + i) + 1]
        BY <2>5, <4>1
      <4>3. buf[(l1 + i) + 1] = TB(l1 + i)
        BY <1>4, <4>1
      <4>4. TB(l1 + i) = Bit(E2[c], i)
        BY <4>1
      <4> QED
        BY <4>2, <4>3, <4>4
    <3>2. \A i \in 0 .. length2[c] - 1 :
            i < MaxLen2 => cb1.buf[i + 1] = Bit(EncodeTable(length2, MaxLen2)[c], i)
      BY <3>1 DEF l2
    <3>3. MaxLen2 \in 1 .. MaxLen2 /\ MaxLen2 <= Len(cb1.buf)
      BY <1>6, <2>1, <2>3, <2>5
    <3>4. c \in DOMAIN length2 /\ length2[c] # 0 /\ length2[c] <= MaxLen2 /\ cb1.buf \in Seq({0, 1})
      BY <1>2, <2>1, <2>5 DEF l2
    <3>5. DecodeTable(length2, EncodeTable(length2, MaxLen2), MaxLen2)[FromBits(Peek(cb1, MaxLen2), MaxLen2)]
            = IF length2[c] <= MaxLen2 THEN c ELSE NoSymbol
      BY <1>1, <3>2, <3>3, <3>4, PeekFinds
    <3> QED
      BY <1>7, <3>4, <3>5 DEF LookUp2
  <2>9. FromBits(Peek(cb2, e), e) = y
    <3>1. ASSUME NEW i \in 0 .. e - 1 PROVE buf2[i + 1] = Bit(y, i)
      <4> DEFINE b == (l1 + l2) + i
      <4>1. /\ i + 1 \in 1 .. Len(buf1) - l2 /\ l2 + (i + 1) \in 1 .. Len(buf) - l1
            /\ l1 + (l2 + (i + 1)) = b + 1
            /\ b \in 0 .. n - 1 /\ ~(b < l1) /\ ~(b < l1 + l2) /\ b - (l1 + l2) = i
        BY <1>6, <2>1, <2>2, <2>3, <2>5
      <4> HIDE DEF b
      <4>2. buf2[i + 1] = buf[b + 1]
        BY <2>5, <2>7, <4>1
      <4>3. buf[b + 1] = TB(b)
        BY <1>4, <4>1
      <4>4. TB(b) = Bit(y, i)
        BY <4>1
      <4> QED
        BY <4>2, <4>3, <4>4
    <3>2. e <= Len(cb2.buf) /\ cb2.buf \in Seq({0, 1})
      BY <1>6, <2>1, <2>3, <2>5, <2>7
    <3>3. \A i \in 0 .. e - 1 : cb2.buf[i + 1] = Bit(y, i)
      BY <3>1
    <3> QED
      BY <2>1, <3>2, <3>3, PeekNumber
  <2> QED
    BY <2>8, <2>9 DEF cb1, cb2
<1> QED
  BY <1>8, <1>9
-----------------------------------------------------------------------------
(***************************************************************************)
(* The inductive invariant.                                                *)
(***************************************************************************)
(* With i entries coded: every bit of their tokens is in the bytes that are *)
(* written or in the codebuf behind them, at its place.                    *)
Encoded(t, l1, l2, ob, cb, i) ==
  /\ i \in 0 .. Len(t) /\ (i = Len(t) \/ i + 1 \in Heads(t))
  /\ Pos(t, l1, l2)[i] = Len(ob) * ByteBits + cb.len
  /\ cb.len > -ByteBits
  /\ IF cb.len >= 0 THEN Len(cb.buf) = cb.len ELSE i = Len(t) /\ cb.buf = <<>>
  /\ \A k \in Heads(t) :
       k <= i => \A b \in 0 .. TokenLen(t, l1, l2, k) - 1 :
                   SBit(ob, cb.buf, Pos(t, l1, l2)[k - 1] + b) = TokenBit(t, l1, l2, k, b)

(* With d decoded and i bytes fetched: d is what was coded, and the codebuf *)
(* holds what is between the bits of d and the end of what is fetched.     *)
Decoded(t, l1, l2, ob, st, cb, i, d) ==
  /\ Len(d) <= Len(t) /\ d = SubSeq(t, 1, Len(d))
  /\ Len(d) = Len(t) \/ Len(d) + 1 \in Heads(t)
  /\ cb.len = Len(cb.buf) /\ cb.len < 2 * RefillBits
  /\ i * ByteBits = Pos(t, l1, l2)[Len(d)] + cb.len
  /\ \A m \in 1 .. Len(cb.buf) : cb.buf[m] = XBit(ob, st, Pos(t, l1, l2)[Len(d)] + (m - 1))
  /\ i < Len(ob) + 2 * FetchBytes

Codebuf == [buf : Seq({0, 1}), len : Int]

ITypes ==
  /\ pc \in {"lengths", "pack", "put", "drain", "unpack", "get", "look", "done"}
  /\ stale \in StaleBytes /\ obuf \in Seq(Byte)
  /\ enc \in Codebuf /\ dec \in Codebuf
  /\ ei \in Nat /\ di \in Nat /\ dbuf \in Seq(Nat)

ITables ==
  /\ tbuf \in TokenBuffers
  /\ pc # "lengths" => Coded(tbuf, length1, length2)
  /\ pc \notin {"lengths", "pack"} =>
       /\ codes = [encode1 |-> EncodeTable(length1, MaxLen1), encode2 |-> EncodeTable(length2, MaxLen2)]
       /\ packed = Pack(length1) \o Pack(length2)
  /\ pc \in {"get", "look", "done"} => tables = DecoderTables(length1, length2)

IEncode ==
  /\ IF pc \in {"lengths", "pack"} THEN obuf = <<>> /\ enc = NoBits /\ ei = 0
     ELSE Encoded(tbuf, length1, length2, obuf, enc, ei)
  /\ pc = "put" => enc.len < RefillBits
  /\ pc = "drain" => enc.len < 2 * RefillBits
  /\ pc \notin {"lengths", "pack", "put", "drain"} => ei = Len(tbuf) /\ enc.len <= 0

IDecode ==
  /\ IF pc \in {"get", "look", "done"} THEN Decoded(tbuf, length1, length2, obuf, stale, dec, di, dbuf)
     ELSE dec = NoBits /\ di = 0 /\ dbuf = <<>>
  /\ pc = "look" => Len(dbuf) < Len(tbuf) /\ dec.len >= RefillBits
  /\ pc = "done" => Len(dbuf) = Len(tbuf)

IInv == ITypes /\ ITables /\ IEncode /\ IDecode
-----------------------------------------------------------------------------
(***************************************************************************)
(* The encoder's steps.                                                    *)
(***************************************************************************)
LEMMA EncodedEmpty ==
  ASSUME NEW t, NEW l1, NEW l2, Coded(t, l1, l2)
  PROVE  Encoded(t, l1, l2, <<>>, NoBits, 0)
<1>1. t \in Seq(Nat)
  BY TokensAssumption DEF Coded
<1>2. Len(t) \in Nat /\ Heads(t) \subseteq 1 .. Len(t) /\ (Len(t) > 0 => 1 \in Heads(t))
  BY <1>1, HeadSteps
<1>3. Pos(t, l1, l2)[0] = 0
  BY PosSteps
<1>4. NoBits.len = 0 /\ NoBits.buf = <<>> /\ Len(<<>>) = 0
  BY DEF NoBits
<1>5. 0 \in 0 .. Len(t) /\ (0 = Len(t) \/ 0 + 1 \in Heads(t))
  BY <1>2
<1>6. \A k \in Heads(t) : ~(k <= 0)
  BY <1>2
<1>7. Pos(t, l1, l2)[0] = Len(<<>>) * ByteBits + NoBits.len /\ NoBits.len > -ByteBits /\ NoBits.len >= 0
  BY <1>3, <1>4, Sizes
<1> QED
  BY <1>4, <1>5, <1>6, <1>7 DEF Encoded

(* The entries a token takes, and the token behind it. *)
LEMMA NextToken ==
  ASSUME NEW t, NEW l1, NEW l2, Coded(t, l1, l2), NEW k \in Heads(t),
         NEW i, i = IF t[k] < FirstMatch THEN k ELSE k + 1
  PROVE  /\ i \in 1 .. Len(t) /\ (i = Len(t) \/ i + 1 \in Heads(t))
         /\ Pos(t, l1, l2)[i] = Pos(t, l1, l2)[k - 1] + TokenLen(t, l1, l2, k)
         /\ Pos(t, l1, l2)[k] = Pos(t, l1, l2)[i]
         /\ \A j \in Heads(t) : j <= i <=> j <= k
<1> DEFINE P == Pos(t, l1, l2)
           n == Len(t)
<1>1. /\ t \in Seq(Nat) /\ n \in Nat /\ k \in 1 .. n /\ t[k] \in Nat
      /\ t[k] >= FirstMatch => k < n
  BY TokenFacts
<1>2. /\ Heads(t) \subseteq 1 .. n
      /\ \A j \in 1 .. n - 1 : j + 1 \in Heads(t) <=> ~(j \in Heads(t) /\ t[j] >= FirstMatch)
  BY <1>1, HeadSteps
<1>3. /\ P \in [0 .. n -> Nat]
      /\ \A j \in 1 .. n : P[j] = P[j - 1] + (IF j \in Heads(t) THEN TokenLen(t, l1, l2, j) ELSE 0)
  BY PosSteps
<1> HIDE DEF P, n
<1>4. P[k] = P[k - 1] + TokenLen(t, l1, l2, k)
  BY <1>1, <1>3
<1>5. CASE t[k] < FirstMatch
  <2>1. i = k /\ ~(t[k] >= FirstMatch)
    BY <1>1, <1>5, Sizes
  <2>2. k = n \/ k + 1 \in Heads(t)
    <3>1. k # n => k \in 1 .. n - 1
      BY <1>1
    <3> QED
      BY <1>2, <2>1, <3>1
  <2> QED
    BY <1>1, <1>4, <2>1, <2>2 DEF P, n
<1>6. CASE ~(t[k] < FirstMatch)
  <2>1. i = k + 1 /\ t[k] >= FirstMatch /\ k \in 1 .. n - 1 /\ i \in 1 .. n /\ i - 1 = k
    BY <1>1, <1>6, Sizes
  <2>2. i \notin Heads(t)
    BY <1>2, <2>1
  <2>3. P[i] = P[k]
    <3>1. P[i] = P[i - 1] + 0
      BY <1>3, <2>1, <2>2
    <3>2. P[i - 1] = P[k] /\ P[k] \in Nat
      BY <1>1, <1>3, <2>1
    <3> QED
      BY <3>1, <3>2
  <2>4. i = n \/ i + 1 \in Heads(t)
    <3>1. i # n => i \in 1 .. n - 1
      BY <1>1, <2>1
    <3> QED
      BY <1>2, <2>2, <3>1
  <2>5. ASSUME NEW j \in Heads(t) PROVE j <= i <=> j <= k
    <3>1. j # i /\ j \in Nat /\ k \in Nat
      BY <1>1, <1>2, <2>2
    <3> QED
      BY <2>1, <3>1
  <2> QED
    BY <1>4, <2>1, <2>3, <2>4, <2>5 DEF P, n
<1> QED
  BY <1>5, <1>6

(* Bits of tokens that are coded are below the end of the stream. *)
LEMMA TokensBelow ==
  ASSUME NEW t, NEW l1, NEW l2, Coded(t, l1, l2), NEW i \in 0 .. Len(t),
         NEW k \in Heads(t), k <= i, NEW b \in 0 .. TokenLen(t, l1, l2, k) - 1
  PROVE  Pos(t, l1, l2)[k - 1] + b \in 0 .. Pos(t, l1, l2)[i] - 1
<1> DEFINE P == Pos(t, l1, l2)
           w == TokenLen(t, l1, l2, k)
<1>1. k \in 1 .. Len(t) /\ w \in 1 .. RefillBits /\ Len(t) \in Nat
  BY TokenFacts
<1>2. P \in [0 .. Len(t) -> Nat] /\ P[k] = P[k - 1] + w
  BY <1>1, PosSteps
<1>3. P[k] <= P[i]
  <2>1. k \in 0 .. i
    BY <1>1
  <2> QED
    BY <2>1, PosMonotone
<1>4. P[k - 1] \in Nat /\ P[k] \in Nat /\ P[i] \in Nat /\ w \in Nat
  BY <1>1, <1>2, Sizes
<1> HIDE DEF P, w
<1>5. P[k - 1] + b \in 0 .. P[i] - 1
  BY <1>2, <1>3, <1>4 DEF w
<1> QED
  BY <1>5 DEF P

LEMMA EncodedToken ==
  ASSUME NEW t, NEW l1, NEW l2, Coded(t, l1, l2), NEW ob \in Seq(Byte), NEW cb \in Codebuf,
         NEW i, Encoded(t, l1, l2, ob, cb, i), i < Len(t), cb.len < RefillBits,
         NEW bits \in Seq({0, 1}), Len(bits) = TokenLen(t, l1, l2, i + 1),
         \A b \in 0 .. TokenLen(t, l1, l2, i + 1) - 1 : bits[b + 1] = TokenBit(t, l1, l2, i + 1, b)
  PROVE  /\ Encoded(t, l1, l2, ob, Input(cb, bits), IF t[i + 1] < FirstMatch THEN i + 1 ELSE i + 2)
         /\ Input(cb, bits) \in Codebuf /\ Input(cb, bits).len < 2 * RefillBits
<1> DEFINE P == Pos(t, l1, l2)
           n == Len(t)
           w == TokenLen(t, l1, l2, i + 1)
           new == Input(cb, bits)
           buf == cb.buf \o bits
           len == cb.len + Len(bits)
           h == IF t[i + 1] < FirstMatch THEN i + 1 ELSE i + 2
           p == Len(ob) * ByteBits
<1>1. t \in Seq(Nat) /\ n \in Nat /\ i \in 0 .. n /\ i + 1 \in Heads(t)
  <2>1. t \in Seq(Nat)
    BY TokensAssumption DEF Coded
  <2> QED
    BY <2>1 DEF Encoded
<1>2. cb.buf \in Seq({0, 1}) /\ cb.len \in Int /\ Len(cb.buf) = cb.len /\ cb.len >= 0
  BY <1>1 DEF Encoded, Codebuf
<1>3. w \in 1 .. RefillBits /\ Len(bits) = w
  BY <1>1, TokenFacts
<1>4. RefillBits \in Nat /\ 2 * RefillBits <= CodebufBits /\ CodebufBits \in Nat /\ p \in Nat
  BY Sizes
<1>5. new = [buf |-> buf, len |-> len]
  <2>1. Len(cb.buf) + Len(bits) <= CodebufBits
    BY <1>2, <1>3, <1>4
  <2> QED
    BY <1>2, <2>1, InputFits
<1>6. buf \in Seq({0, 1}) /\ Len(buf) = len /\ len >= 0 /\ len \in Int /\ len < 2 * RefillBits
  <2>1. buf \in Seq({0, 1}) /\ Len(buf) = Len(cb.buf) + Len(bits)
    BY <1>2, ConcatProperties
  <2> QED
    BY <1>2, <1>3, <1>4, <2>1
<1>7. new.buf = buf /\ new.len = len /\ new \in Codebuf
  BY <1>5, <1>6 DEF Codebuf
<1>8. /\ h \in 1 .. n /\ (h = n \/ h + 1 \in Heads(t))
      /\ P[h] = P[i] + w
      /\ \A j \in Heads(t) : j <= h <=> j <= i + 1
  <2> DEFINE k == i + 1
  <2>1. k \in Heads(t) /\ k + 1 = i + 2 /\ k - 1 = i
    BY <1>1
  <2>2. h = IF t[k] < FirstMatch THEN k ELSE k + 1
    BY <2>1
  <2> HIDE DEF k, h, P, n
  <2> QED
    BY <2>1, <2>2, NextToken DEF k, P, n
<1>9. P[i] = p + cb.len
  BY DEF Encoded
<1>10. p \in Nat /\ Len(ob) \in Nat
  BY <1>4
<1> HIDE DEF p, new, buf, len, P, n, w, h
<1>11. P[h] = p + len
  BY <1>2, <1>3, <1>8, <1>9, <1>10 DEF len
<1>12. ASSUME NEW k \in Heads(t), k <= h, NEW b \in 0 .. TokenLen(t, l1, l2, k) - 1
       PROVE  SBit(ob, buf, P[k - 1] + b) = TokenBit(t, l1, l2, k, b)
  <2>1. CASE k <= i
    <3>1. P[k - 1] + b \in 0 .. P[i] - 1
      BY <1>1, <2>1, TokensBelow DEF P, n
    <3>2. SBit(ob, cb.buf, P[k - 1] + b) = TokenBit(t, l1, l2, k, b)
      BY <2>1 DEF Encoded, P
    <3>3. P[i] = p + Len(cb.buf)
      BY <1>2, <1>9
    <3>4. SBit(ob, buf, P[k - 1] + b) = SBit(ob, cb.buf, P[k - 1] + b)
      <4>1. \A j \in 0 .. (p + Len(cb.buf)) - 1 : SBit(ob, buf, j) = SBit(ob, cb.buf, j)
        BY <1>2, <1>10, InputKeeps DEF buf, p
      <4> QED
        BY <3>1, <3>3, <4>1
    <3> QED
      BY <3>2, <3>4
  <2>2. CASE ~(k <= i)
    <3>1. k = i + 1
      <4>1. k <= i + 1 /\ k \in 1 .. n
        BY <1>1, <1>8, <1>12, HeadSteps DEF n
      <4> QED
        BY <1>1, <2>2, <4>1
    <3>2. k - 1 = i /\ b \in 0 .. w - 1 /\ b \in 0 .. Len(bits) - 1
      BY <1>1, <1>3, <3>1 DEF w
    <3>3. bits[b + 1] = TokenBit(t, l1, l2, k, b)
      BY <3>1, <3>2 DEF w
    <3>4. SBit(ob, buf, (p + Len(cb.buf)) + b) = bits[b + 1]
      BY <1>2, <1>10, <3>2, InputKeeps DEF buf, p
    <3>5. P[k - 1] = p + Len(cb.buf)
      BY <1>2, <1>9, <3>2
    <3> QED
      BY <3>3, <3>4, <3>5
  <2> QED
    BY <2>1, <2>2
<1>13. h \in 0 .. n /\ len > -ByteBits
  BY <1>1, <1>6, <1>8, Sizes
<1>14. Encoded(t, l1, l2, ob, new, h)
  BY <1>6, <1>7, <1>8, <1>11, <1>12, <1>13 DEF Encoded, P, n, p
<1> QED
  BY <1>6, <1>7, <1>14 DEF new, h, len

(* Whole bytes go out, or what is left with a last one behind it. *)
LEMMA EncodedBytes ==
  ASSUME NEW t, NEW l1, NEW l2, Coded(t, l1, l2), NEW ob \in Seq(Byte), NEW cb \in Codebuf,
         NEW i, Encoded(t, l1, l2, ob, cb, i), NEW k \in Nat, cb.len >= 0,
         k * ByteBits <= cb.len \/ (i = Len(t) /\ k * ByteBits < cb.len + ByteBits)
  PROVE  /\ Encoded(t, l1, l2, ob \o BytesOut(cb, k), Output(cb, k * ByteBits), i)
         /\ Output(cb, k * ByteBits) \in Codebuf /\ Output(cb, k * ByteBits).len = cb.len - k * ByteBits
         /\ ob \o BytesOut(cb, k) \in Seq(Byte)
<1> DEFINE P == Pos(t, l1, l2)
           z == k * ByteBits
           new == Output(cb, z)
           ob2 == ob \o BytesOut(cb, k)
           p == Len(ob) * ByteBits
<1>1. cb.buf \in Seq({0, 1}) /\ cb.len \in Int /\ Len(cb.buf) = cb.len
  BY DEF Encoded, Codebuf
<1>2. z \in Nat /\ p \in Nat /\ ByteBits \in Nat \ {0} /\ Len(ob) \in Nat
  BY Sizes
<1>3. /\ ob2 \in Seq(Byte) /\ Len(ob2) = Len(ob) + k
      /\ new.buf \in Seq({0, 1})
      /\ Len(new.buf) = IF z <= Len(cb.buf) THEN Len(cb.buf) - z ELSE 0
      /\ \A j \in 0 .. p + Len(cb.buf) - 1 : SBit(ob2, new.buf, j) = SBit(ob, cb.buf, j)
  BY <1>1, BytesOutKeep
<1>4. new.len = cb.len - z /\ new \in Codebuf
  <2> DEFINE rest == SubSeq(cb.buf, z + 1, Len(cb.buf))
             len == cb.len - z
  <2>1. new = [buf |-> rest, len |-> len]
    BY DEF Output
  <2>2. len \in Int
    BY <1>1, <1>2
  <2> HIDE DEF rest, len, new
  <2>3. rest \in Seq({0, 1})
    <3>1. new.buf = rest
      BY <2>1
    <3> QED
      BY <1>3, <3>1
  <2>4. [buf |-> rest, len |-> len] \in Codebuf
    BY <2>2, <2>3 DEF Codebuf
  <2>5. new.len = len
    BY <2>1
  <2> QED
    BY <2>1, <2>4, <2>5 DEF len
<1>5. Len(ob2) * ByteBits = p + z
  BY <1>2, <1>3
<1>6. /\ i \in 0 .. Len(t) /\ (i = Len(t) \/ i + 1 \in Heads(t))
      /\ P[i] = p + cb.len
  BY DEF Encoded
<1>7. z <= cb.len \/ (i = Len(t) /\ z < cb.len + ByteBits)
  OBVIOUS
<1> HIDE DEF z, p, new, ob2, P
<1>8. P[i] = Len(ob2) * ByteBits + new.len /\ new.len > -ByteBits
  BY <1>1, <1>2, <1>4, <1>5, <1>6, <1>7
<1>9. IF new.len >= 0 THEN Len(new.buf) = new.len ELSE i = Len(t) /\ new.buf = <<>>
  <2>1. CASE z <= cb.len
    BY <1>1, <1>2, <1>3, <1>4, <2>1
  <2>2. CASE ~(z <= cb.len)
    <3>1. ~(new.len >= 0) /\ i = Len(t) /\ Len(new.buf) = 0
      BY <1>1, <1>2, <1>3, <1>4, <1>7, <2>2
    <3>2. new.buf = <<>>
      BY <1>3, <3>1, EmptySeq
    <3> QED
      BY <3>1, <3>2
  <2> QED
    BY <2>1, <2>2
<1>10. ASSUME NEW j \in Heads(t), j <= i, NEW b \in 0 .. TokenLen(t, l1, l2, j) - 1
       PROVE  SBit(ob2, new.buf, P[j - 1] + b) = TokenBit(t, l1, l2, j, b)
  <2>1. P[j - 1] + b \in 0 .. P[i] - 1
    BY <1>6, <1>10, TokensBelow DEF P
  <2>2. P[i] = p + Len(cb.buf)
    BY <1>1, <1>6
  <2>3. SBit(ob2, new.buf, P[j - 1] + b) = SBit(ob, cb.buf, P[j - 1] + b)
    <3>1. P[j - 1] + b \in 0 .. p + Len(cb.buf) - 1
      BY <1>1, <1>2, <2>1, <2>2
    <3> QED
      BY <1>3, <3>1
  <2>4. SBit(ob, cb.buf, P[j - 1] + b) = TokenBit(t, l1, l2, j, b)
    BY <1>10 DEF Encoded, P
  <2> QED
    BY <2>3, <2>4
<1>11. Encoded(t, l1, l2, ob2, new, i)
  BY <1>6, <1>8, <1>9, <1>10 DEF Encoded, P
<1> QED
  BY <1>3, <1>4, <1>11 DEF new, z, ob2
-----------------------------------------------------------------------------
(***************************************************************************)
(* The decoder's steps.                                                    *)
(***************************************************************************)
LEMMA OutputTwice ==
  ASSUME NEW cb \in Codebuf, NEW a \in Nat, NEW b \in Nat
  PROVE  Output(Output(cb, a), b) = Output(cb, a + b)
<1> DEFINE s == cb.buf
           r == SubSeq(s, a + 1, Len(s))
           u == SubSeq(r, b + 1, Len(r))
           v == SubSeq(s, (a + b) + 1, Len(s))
<1>1. s \in Seq({0, 1}) /\ cb.len \in Int /\ Len(s) \in Nat
  BY DEF Codebuf
<1> HIDE DEF s
<1>2. /\ r \in Seq({0, 1}) /\ Len(r) = IF a <= Len(s) THEN Len(s) - a ELSE 0
      /\ \A i \in 1 .. Len(s) - a : r[i] = s[a + i]
  BY <1>1, Rest
<1> HIDE DEF r
<1>3. /\ u \in Seq({0, 1}) /\ Len(u) = IF b <= Len(r) THEN Len(r) - b ELSE 0
      /\ \A i \in 1 .. Len(r) - b : u[i] = r[b + i]
  BY <1>2, Rest
<1>4. /\ v \in Seq({0, 1}) /\ Len(v) = IF a + b <= Len(s) THEN Len(s) - (a + b) ELSE 0
      /\ \A i \in 1 .. Len(s) - (a + b) : v[i] = s[(a + b) + i]
  <2>1. a + b \in Nat
    OBVIOUS
  <2> QED
    BY <1>1, <2>1, Rest
<1> HIDE DEF u, v
<1>5. Len(u) = Len(v)
  BY <1>1, <1>2, <1>3, <1>4
<1>6. ASSUME NEW i \in 1 .. Len(u) PROVE u[i] = v[i]
  <2>1. /\ i \in 1 .. Len(r) - b /\ b + i \in 1 .. Len(s) - a /\ a + (b + i) = (a + b) + i
        /\ i \in 1 .. Len(s) - (a + b)
    BY <1>1, <1>2, <1>3, <1>4
  <2> QED
    BY <1>2, <1>3, <1>4, <2>1
<1>7. u = v
  BY <1>3, <1>4, <1>5, <1>6, SeqEqual
<1>8. (cb.len - a) - b = cb.len - (a + b)
  BY <1>1
<1>9. Output(cb, a) = [buf |-> r, len |-> cb.len - a]
  BY DEF Output, r, s
<1>10. Output(Output(cb, a), b) = [buf |-> u, len |-> (cb.len - a) - b]
  BY <1>9 DEF Output, u
<1>11. Output(cb, a + b) = [buf |-> v, len |-> cb.len - (a + b)]
  BY DEF Output, v, s
<1> QED
  BY <1>7, <1>8, <1>10, <1>11

LEMMA DecodedEmpty ==
  ASSUME NEW t, NEW l1, NEW l2, Coded(t, l1, l2), NEW ob \in Seq(Byte), NEW st
  PROVE  Decoded(t, l1, l2, ob, st, NoBits, 0, <<>>)
<1>1. t \in Seq(Nat)
  BY TokensAssumption DEF Coded
<1>2. Len(t) \in Nat /\ (Len(t) > 0 => 1 \in Heads(t))
  BY <1>1, HeadSteps
<1>3. Pos(t, l1, l2)[0] = 0
  BY PosSteps
<1>4. NoBits.len = 0 /\ NoBits.buf = <<>> /\ Len(<<>>) = 0 /\ Len(NoBits.buf) = 0
  BY DEF NoBits
<1>5. <<>> = SubSeq(t, 1, 0)
  BY SubSeqEmpty
<1>6. 0 <= Len(t) /\ (0 = Len(t) \/ 0 + 1 \in Heads(t))
  BY <1>2
<1>7. 0 < 2 * RefillBits /\ 0 * ByteBits = Pos(t, l1, l2)[0] + 0 /\ 0 < Len(ob) + 2 * FetchBytes
  BY <1>3, Sizes
<1>8. \A m \in 1 .. 0 : FALSE
  OBVIOUS
<1> QED
  BY <1>4, <1>5, <1>6, <1>7, <1>8 DEF Decoded

(* Every bit of every token is where the decoder comes upon it. *)
AtPlace(t, l1, l2, ob, st) ==
  \A k \in Heads(t) : \A b \in 0 .. TokenLen(t, l1, l2, k) - 1 :
    XBit(ob, st, Pos(t, l1, l2)[k - 1] + b) = TokenBit(t, l1, l2, k, b)

(* Where the encoder has left off, all bits of tokens are in written bytes. *)
LEMMA AllWritten ==
  ASSUME NEW t, NEW l1, NEW l2, Coded(t, l1, l2), NEW ob \in Seq(Byte), NEW cb \in Codebuf, NEW st,
         Encoded(t, l1, l2, ob, cb, Len(t)), cb.len <= 0
  PROVE  /\ Pos(t, l1, l2)[Len(t)] <= Len(ob) * ByteBits
         /\ AtPlace(t, l1, l2, ob, st)
<1> DEFINE P == Pos(t, l1, l2)
           p == Len(ob) * ByteBits
           n == Len(t)
<1>1. p \in Nat /\ n \in Nat /\ Heads(t) \subseteq 1 .. n
  <2>1. t \in Seq(Nat)
    BY TokensAssumption DEF Coded
  <2>2. Heads(t) \subseteq 1 .. n
    BY <2>1, HeadSteps
  <2>3. p \in Nat
    BY Sizes
  <2> QED
    BY <2>1, <2>2, <2>3
<1>2. P[n] \in Nat
  BY <1>1, PosSteps
<1>3. P[n] = p + cb.len /\ cb.len \in Int
  BY DEF Encoded, Codebuf
<1> HIDE DEF P, p, n
<1>4. P[n] <= p
  BY <1>1, <1>2, <1>3
<1>5. ASSUME NEW k \in Heads(t), NEW b \in 0 .. TokenLen(t, l1, l2, k) - 1
      PROVE  XBit(ob, st, P[k - 1] + b) = TokenBit(t, l1, l2, k, b)
  <2>1. k <= n /\ n \in 0 .. n
    BY <1>1
  <2>2. P[k - 1] + b \in 0 .. P[n] - 1
    BY <1>1, <2>1, TokensBelow DEF P, n
  <2>3. P[k - 1] + b < p
    BY <1>1, <1>2, <1>4, <2>2
  <2>4. SBit(ob, cb.buf, P[k - 1] + b) = TokenBit(t, l1, l2, k, b)
    BY <2>1 DEF Encoded, P, n
  <2> QED
    BY <2>3, <2>4 DEF SBit, XBit, p
<1> QED
  BY <1>4, <1>5 DEF P, p, n, AtPlace

LEMMA DecodedFetch ==
  ASSUME Coded(tbuf, length1, length2), obuf \in Seq(Byte), stale \in StaleBytes, di \in Nat, dec \in Codebuf,
         Decoded(tbuf, length1, length2, obuf, stale, dec, di, dbuf),
         Pos(tbuf, length1, length2)[Len(tbuf)] <= Len(obuf) * ByteBits,
         dec.len < RefillBits
  PROVE  LET new == Input(dec, Flat(BytesAt(FetchBytes)))
         IN  /\ Decoded(tbuf, length1, length2, obuf, stale, new, di + FetchBytes, dbuf)
             /\ new \in Codebuf /\ new.len >= RefillBits
<1> DEFINE f == Flat(BytesAt(FetchBytes))
           new == Input(dec, f)
           P == Pos(tbuf, length1, length2)
           g == Len(dbuf)
           buf == dec.buf \o f
           n == Len(tbuf)
           l == Len(dec.buf)
           X(j) == XBit(obuf, stale, j)
<1>0. RefillBits = FetchBytes * ByteBits
  BY DEF RefillBits
<1>1. /\ RefillBits \in Nat \ {0} /\ FetchBytes \in Nat
      /\ ByteBits \in Nat \ {0} /\ 2 * RefillBits <= CodebufBits /\ CodebufBits \in Nat
  BY Sizes
<1>2. /\ f \in Seq({0, 1}) /\ Len(f) = RefillBits
      /\ \A m \in 1 .. RefillBits : f[m] = X(di * ByteBits + (m - 1))
  BY <1>0, <1>1, FetchedBits
<1>3. dec.buf \in Seq({0, 1}) /\ dec.len = l /\ l \in Nat
  BY DEF Decoded, Codebuf
<1> HIDE DEF f
<1>4. new = [buf |-> buf, len |-> dec.len + Len(f)]
  <2>1. Len(dec.buf) + Len(f) <= CodebufBits
    BY <1>1, <1>2, <1>3
  <2> QED
    BY <1>2, <1>3, <2>1, InputFits
<1>5. /\ buf \in Seq({0, 1}) /\ Len(buf) = l + RefillBits
      /\ \A i \in 1 .. l : buf[i] = dec.buf[i]
      /\ \A i \in 1 .. RefillBits : buf[l + i] = f[i]
  <2>1. /\ buf \in Seq({0, 1}) /\ Len(buf) = Len(dec.buf) + Len(f)
        /\ \A i \in 1 .. Len(dec.buf) + Len(f) :
             buf[i] = IF i <= Len(dec.buf) THEN dec.buf[i] ELSE f[i - Len(dec.buf)]
    BY <1>2, <1>3, ConcatProperties
  <2> HIDE DEF buf
  <2>2. ASSUME NEW i \in 1 .. l PROVE i \in 1 .. Len(dec.buf) + Len(f) /\ i <= Len(dec.buf)
    BY <1>1, <1>2, <1>3
  <2>3. ASSUME NEW i \in 1 .. RefillBits
        PROVE  l + i \in 1 .. Len(dec.buf) + Len(f) /\ ~(l + i <= Len(dec.buf)) /\ (l + i) - Len(dec.buf) = i
    BY <1>1, <1>2, <1>3
  <2> QED
    BY <1>2, <2>1, <2>2, <2>3
<1> HIDE DEF buf
<1>6. new.buf = buf /\ new.len = Len(buf) /\ Len(buf) = l + RefillBits
  BY <1>2, <1>3, <1>4, <1>5
<1>7. new \in Codebuf /\ new.len >= RefillBits /\ new.len < 2 * RefillBits
  <2>1. dec.len + Len(f) \in Int
    BY <1>1, <1>2, <1>3
  <2>2. [buf |-> buf, len |-> dec.len + Len(f)] \in Codebuf
    BY <1>5, <2>1 DEF Codebuf
  <2>3. l + RefillBits >= RefillBits /\ l + RefillBits < 2 * RefillBits
    BY <1>1, <1>3
  <2> HIDE DEF new
  <2> QED
    BY <1>4, <1>6, <2>2, <2>3
<1> HIDE DEF new, l
<1>8. n \in Nat /\ g \in 0 .. n
  <2>1. tbuf \in Seq(Nat)
    BY TokensAssumption DEF Coded
  <2>2. n \in Nat /\ g \in Nat
    <3>1. dbuf = SubSeq(tbuf, 1, g) /\ g <= n
      BY DEF Decoded
    <3>2. n \in Nat
      BY <2>1
    <3>3. g \in Nat
      <4>1. Len(SubSeq(tbuf, 1, g)) \in Nat
        <5>1. CASE g \in Int
          <6>1. \A i \in 1 .. g : tbuf[i] \in Nat
            <7>1. \A i \in 1 .. g : i \in 1 .. n
              BY <3>1, <3>2, <5>1
            <7> QED
              BY <2>1, <7>1, ElementOfSeq
          <6>2. SubSeq(tbuf, 1, g) \in Seq(Nat)
            BY <5>1, <6>1, SubSeqProperties
          <6> QED
            BY <6>2
        <5> QED
          BY <5>1
      <4> QED
        BY <3>1, <4>1
    <3> QED
      BY <3>2, <3>3
  <2> QED
    BY <2>2 DEF Decoded
<1>9. P[g] \in Nat /\ P[n] \in Nat /\ P[g] <= P[n]
  <2>1. P \in [0 .. n -> Nat]
    BY PosSteps
  <2>2. P[g] <= P[n]
    <3>1. n \in 0 .. n
      BY <1>8
    <3> QED
      BY <1>8, <3>1, PosMonotone
  <2> QED
    BY <1>8, <2>1, <2>2
<1>10. /\ di * ByteBits = P[g] + l
       /\ \A m \in 1 .. l : dec.buf[m] = X(P[g] + (m - 1))
  BY <1>3 DEF Decoded, l
<1> HIDE DEF P, g, n, X
<1>11. ASSUME NEW m \in 1 .. Len(buf) PROVE buf[m] = X(P[g] + (m - 1))
  <2>1. CASE m <= l
    <3>1. m \in 1 .. l
      BY <1>3, <2>1
    <3> QED
      BY <1>5, <1>10, <3>1
  <2>2. CASE ~(m <= l)
    <3> DEFINE i == m - l
    <3>1. i \in 1 .. RefillBits /\ l + i = m
      BY <1>1, <1>3, <1>5, <2>2
    <3>2. di * ByteBits + (i - 1) = P[g] + (m - 1)
      BY <1>3, <1>9, <1>10, <3>1
    <3> HIDE DEF i
    <3>3. buf[m] = f[i] /\ f[i] = X(di * ByteBits + (i - 1))
      BY <1>2, <1>5, <3>1
    <3> QED
      BY <3>2, <3>3
  <2> QED
    BY <2>1, <2>2
<1>12. (di + FetchBytes) * ByteBits = P[g] + new.len
  <2> DEFINE y == di * ByteBits
             z == (di + FetchBytes) * ByteBits
  <2>1. z = y + RefillBits
    BY <1>0, <1>1
  <2>2. y = P[g] + l
    BY <1>10
  <2> HIDE DEF y, z
  <2>3. z = P[g] + new.len
    BY <1>1, <1>3, <1>6, <1>9, <2>1, <2>2
  <2> QED
    BY <2>3 DEF z
<1>13. di + FetchBytes < Len(obuf) + 2 * FetchBytes
  <2>1. PICK q \in Nat : q = Len(obuf)
    OBVIOUS
  <2>2. (q + FetchBytes) * ByteBits = q * ByteBits + RefillBits /\ q * ByteBits \in Nat
    BY <1>0, <1>1
  <2>3. P[n] <= q * ByteBits
    BY <2>1 DEF P, n
  <2>4. di * ByteBits < q * ByteBits + RefillBits
    <3> DEFINE y == di * ByteBits
               z == q * ByteBits
    <3>1. y = P[g] + l /\ z \in Nat /\ P[n] <= z
      BY <1>10, <2>2, <2>3
    <3> HIDE DEF y, z
    <3>2. y < z + RefillBits
      BY <1>1, <1>3, <1>9, <3>1
    <3> QED
      BY <3>2 DEF y, z
  <2>5. di < q + FetchBytes
    <3> SUFFICES ASSUME ~(di < q + FetchBytes) PROVE FALSE
      OBVIOUS
    <3>1. PICK e \in Nat : di = (q + FetchBytes) + e
      <4>1. di - (q + FetchBytes) \in Nat /\ di = (q + FetchBytes) + (di - (q + FetchBytes))
        BY <1>1
      <4> QED
        BY <4>1
    <3>2. di * ByteBits = (q + FetchBytes) * ByteBits + e * ByteBits /\ e * ByteBits \in Nat
      BY <1>1, <3>1
    <3> QED
      BY <1>1, <2>2, <2>4, <3>2
  <2> QED
    BY <1>1, <2>1, <2>5
<1>14. /\ g <= n /\ dbuf = SubSeq(tbuf, 1, g) /\ (g = n \/ g + 1 \in Heads(tbuf))
  BY DEF Decoded, g, n
<1>15. Decoded(tbuf, length1, length2, obuf, stale, new, di + FetchBytes, dbuf)
  BY <1>6, <1>7, <1>11, <1>12, <1>13, <1>14 DEF Decoded, P, g, n, X
<1> QED
  BY <1>7, <1>15 DEF new, f

(* The bits of the token that comes next are next in the codebuf. *)
LEMMA NextBits ==
  ASSUME NEW t, NEW l1, NEW l2, Coded(t, l1, l2), NEW ob, NEW st, NEW cb \in Codebuf, NEW i, NEW d,
         Decoded(t, l1, l2, ob, st, cb, i, d), Len(d) < Len(t), cb.len >= RefillBits,
         AtPlace(t, l1, l2, ob, st)
  PROVE  LET k == Len(d) + 1
         IN  /\ k \in Heads(t) /\ k - 1 = Len(d) /\ Len(d) \in Nat
             /\ cb.buf \in Seq({0, 1}) /\ Len(cb.buf) >= RefillBits
             /\ TokenLen(t, l1, l2, k) \in 1 .. RefillBits
             /\ \A b \in 0 .. TokenLen(t, l1, l2, k) - 1 : cb.buf[b + 1] = TokenBit(t, l1, l2, k, b)
<1> DEFINE g == Len(d)
           k == g + 1
           w == TokenLen(t, l1, l2, k)
           P == Pos(t, l1, l2)
<1>1. t \in Seq(Nat) /\ Heads(t) \subseteq 1 .. Len(t) /\ Len(t) \in Nat
  <2>1. t \in Seq(Nat)
    BY TokensAssumption DEF Coded
  <2> QED
    BY <2>1, HeadSteps
<1>2. g < Len(t) /\ g <= Len(t) /\ d = SubSeq(t, 1, g) /\ (g = Len(t) \/ k \in Heads(t))
  BY DEF Decoded
<1>3. g \in Nat
  <2>1. d \in Seq(Nat)
    <3>1. CASE g \in Int
      <4>1. \A j \in 1 .. g : j \in 1 .. Len(t)
        BY <1>1, <1>2, <3>1
      <4>2. \A j \in 1 .. g : t[j] \in Nat
        BY <1>1, <4>1, ElementOfSeq
      <4>3. SubSeq(t, 1, g) \in Seq(Nat)
        BY <3>1, <4>2, SubSeqProperties
      <4> QED
        BY <1>2, <4>3
    <3> QED
      BY <1>1, <1>2, <3>1
  <2> QED
    BY <2>1
<1>4. k \in Heads(t) /\ k - 1 = g
  <2>1. g # Len(t)
    BY <1>1, <1>2, <1>3
  <2> QED
    BY <1>2, <1>3, <2>1
<1>5. /\ cb.buf \in Seq({0, 1}) /\ Len(cb.buf) >= RefillBits /\ Len(cb.buf) \in Nat
      /\ \A m \in 1 .. Len(cb.buf) : cb.buf[m] = XBit(ob, st, P[g] + (m - 1))
  BY DEF Decoded, Codebuf
<1>6. w \in 1 .. RefillBits
  BY <1>4, TokenFacts
<1> HIDE DEF P, w
<1>7. ASSUME NEW b \in 0 .. w - 1 PROVE cb.buf[b + 1] = TokenBit(t, l1, l2, k, b)
  <2>1. b + 1 \in 1 .. Len(cb.buf) /\ (b + 1) - 1 = b
    BY <1>5, <1>6, Sizes
  <2>2. cb.buf[b + 1] = XBit(ob, st, P[g] + b)
    BY <1>5, <2>1
  <2>3. XBit(ob, st, P[k - 1] + b) = TokenBit(t, l1, l2, k, b)
    BY <1>4 DEF AtPlace, P, w
  <2> QED
    BY <1>4, <2>2, <2>3
<1> QED
  BY <1>3, <1>4, <1>5, <1>6, <1>7 DEF w

LEMMA DecodedToken ==
  ASSUME NEW t, NEW l1, NEW l2, Coded(t, l1, l2), NEW ob, NEW st, NEW cb \in Codebuf, NEW i, NEW d,
         Decoded(t, l1, l2, ob, st, cb, i, d), Len(d) < Len(t), cb.len >= RefillBits,
         Len(d) \in Nat, Len(d) + 1 \in Heads(t),
         NEW h, h = IF t[Len(d) + 1] < FirstMatch THEN Len(d) + 1 ELSE Len(d) + 2,
         NEW new, new = Output(cb, TokenLen(t, l1, l2, Len(d) + 1))
  PROVE  /\ Decoded(t, l1, l2, ob, st, new, i, SubSeq(t, 1, h))
         /\ new \in Codebuf /\ SubSeq(t, 1, h) \in Seq(Nat)
<1> DEFINE g == Len(d)
           k == g + 1
           w == TokenLen(t, l1, l2, k)
           P == Pos(t, l1, l2)
           l == Len(cb.buf)
           d2 == SubSeq(t, 1, h)
<1>1. t \in Seq(Nat) /\ w \in 1 .. RefillBits /\ Len(t) \in Nat
  BY TokenFacts
<1>2. /\ h \in 1 .. Len(t) /\ (h = Len(t) \/ h + 1 \in Heads(t))
      /\ P[h] = P[g] + w
  <2>1. k \in Heads(t) /\ k - 1 = g /\ k + 1 = g + 2
    OBVIOUS
  <2>2. h = IF t[k] < FirstMatch THEN k ELSE k + 1
    BY <2>1
  <2> HIDE DEF k, P, w, g
  <2> QED
    BY <2>1, <2>2, NextToken DEF P, w
<1>3. /\ cb.buf \in Seq({0, 1}) /\ cb.len = l /\ cb.len < 2 * RefillBits /\ l \in Nat
      /\ i * ByteBits = P[g] + cb.len
      /\ \A m \in 1 .. l : cb.buf[m] = XBit(ob, st, P[g] + (m - 1))
      /\ i < Len(ob) + 2 * FetchBytes
  BY DEF Decoded, Codebuf
<1>4. P[g] \in Nat /\ RefillBits \in Nat /\ w \in Nat
  <2>1. P \in [0 .. Len(t) -> Nat] /\ g \in 0 .. Len(t)
    BY <1>1, PosSteps
  <2>2. P[g] \in Nat
    BY <2>1
  <2> HIDE DEF w, P
  <2> QED
    BY <1>1, <2>2, Sizes
<1>5. d2 \in Seq(Nat) /\ Len(d2) = h
  <2>1. \A j \in 1 .. h : j \in 1 .. Len(t)
    BY <1>1, <1>2
  <2>2. \A j \in 1 .. h : t[j] \in Nat
    BY <1>1, <2>1, ElementOfSeq
  <2>3. /\ SubSeq(t, 1, h) \in Seq(Nat)
        /\ Len(SubSeq(t, 1, h)) = IF 1 <= h THEN h - 1 + 1 ELSE 0
    BY <1>2, <2>2, SubSeqProperties
  <2> QED
    BY <1>2, <2>3
<1> DEFINE rest == SubSeq(cb.buf, w + 1, Len(cb.buf))
           len == cb.len - w
<1>6. new = [buf |-> rest, len |-> len]
  BY DEF Output
<1> HIDE DEF P, w, d2
<1>7. /\ rest \in Seq({0, 1}) /\ Len(rest) = l - w
      /\ \A m \in 1 .. l - w : rest[m] = cb.buf[w + m]
  <2>1. w <= Len(cb.buf)
    BY <1>1, <1>3, <1>4
  <2> HIDE DEF rest
  <2> QED
    BY <1>3, <1>4, <2>1, Rest DEF rest
<1> HIDE DEF rest, len, l, k, g
<1>8. len = l - w /\ len \in Int /\ len < 2 * RefillBits
  BY <1>1, <1>3, <1>4 DEF len
<1>9. new \in Codebuf /\ new.buf = rest /\ new.len = len
  BY <1>6, <1>7, <1>8 DEF Codebuf
<1>10. i * ByteBits = P[h] + new.len
  <2> DEFINE y == i * ByteBits
  <2>1. y = P[g] + cb.len
    BY <1>3
  <2> HIDE DEF y
  <2>2. y = P[h] + new.len
    BY <1>2, <1>3, <1>4, <1>8, <1>9, <2>1
  <2> QED
    BY <2>2 DEF y
<1>11. ASSUME NEW m \in 1 .. Len(rest) PROVE rest[m] = XBit(ob, st, P[h] + (m - 1))
  <2>1. m \in 1 .. l - w /\ w + m \in 1 .. l /\ P[g] + ((w + m) - 1) = P[h] + (m - 1)
    BY <1>2, <1>3, <1>4, <1>7
  <2>2. rest[m] = cb.buf[w + m] /\ cb.buf[w + m] = XBit(ob, st, P[g] + ((w + m) - 1))
    BY <1>3, <1>7, <2>1
  <2> QED
    BY <2>1, <2>2
<1>12. h <= Len(t)
  BY <1>1, <1>2
<1>13. Decoded(t, l1, l2, ob, st, new, i, d2)
  BY <1>2, <1>3, <1>5, <1>7, <1>8, <1>9, <1>10, <1>11, <1>12 DEF Decoded, P, d2
<1> QED
  BY <1>5, <1>9, <1>13 DEF d2

(* What the decoder appends is what comes next in the token buffer. *)
LEMMA Appended ==
  ASSUME NEW t \in Seq(Nat), NEW d, d = SubSeq(t, 1, Len(d)), Len(d) \in Nat
  PROVE  /\ Len(d) + 1 <= Len(t) => Append(d, t[Len(d) + 1]) = SubSeq(t, 1, Len(d) + 1)
         /\ Len(d) + 2 <= Len(t) =>
              d \o <<t[Len(d) + 1], t[Len(d) + 2]>> = SubSeq(t, 1, Len(d) + 2)
<1> DEFINE g == Len(d)
<1>1. ASSUME NEW j \in 1 .. Len(t)
      PROVE  SubSeq(t, 1, j) = SubSeq(t, 1, j - 1) \o <<t[j]>> /\ SubSeq(t, 1, j) \in Seq(Nat)
  <2>1. 1 \in 1 .. Len(t)
    OBVIOUS
  <2>2. SubSeq(t, 1, j) = SubSeq(t, 1, j - 1) \o <<t[j]>>
    BY <2>1, SubSeqRecursiveSecond
  <2>3. \A i \in 1 .. j : t[i] \in Nat
    <3>1. \A i \in 1 .. j : i \in 1 .. Len(t)
      OBVIOUS
    <3> QED
      BY <3>1, ElementOfSeq
  <2>4. SubSeq(t, 1, j) \in Seq(Nat)
    BY <2>3, SubSeqProperties
  <2> QED
    BY <2>2, <2>4
<1>2. ASSUME g + 1 <= Len(t)
      PROVE  d \in Seq(Nat) /\ t[g + 1] \in Nat /\ d \o <<t[g + 1]>> = SubSeq(t, 1, g + 1)
  <2>1. g + 1 \in 1 .. Len(t) /\ (g + 1) - 1 = g
    BY <1>2
  <2>2. SubSeq(t, 1, g + 1) = SubSeq(t, 1, g) \o <<t[g + 1]>>
    BY <1>1, <2>1
  <2>3. t[g + 1] \in Nat
    BY <2>1, ElementOfSeq
  <2>4. d \in Seq(Nat)
    <3>1. CASE g = 0
      BY <3>1, SubSeqEmpty, EmptySeq
    <3>2. CASE g # 0
      <4>1. g \in 1 .. Len(t)
        BY <2>1, <3>2
      <4> QED
        BY <1>1, <4>1
    <3> QED
      BY <3>1, <3>2
  <2> QED
    BY <2>2, <2>3, <2>4
<1>3. ASSUME g + 1 <= Len(t) PROVE Append(d, t[g + 1]) = SubSeq(t, 1, g + 1)
  BY <1>2, <1>3, AppendIsConcat
<1>4. ASSUME g + 2 <= Len(t) PROVE d \o <<t[g + 1], t[g + 2]>> = SubSeq(t, 1, g + 2)
  <2>1. g + 1 <= Len(t) /\ g + 2 \in 1 .. Len(t) /\ (g + 2) - 1 = g + 1
    BY <1>4
  <2>2. d \in Seq(Nat) /\ t[g + 1] \in Nat /\ d \o <<t[g + 1]>> = SubSeq(t, 1, g + 1)
    BY <1>2, <2>1
  <2>3. SubSeq(t, 1, g + 2) = SubSeq(t, 1, g + 1) \o <<t[g + 2]>> /\ t[g + 2] \in Nat
    BY <1>1, <2>1, ElementOfSeq
  <2> DEFINE u == <<t[g + 1]>>
             v == <<t[g + 2]>>
  <2>4. u \in Seq(Nat) /\ v \in Seq(Nat) /\ u \o v = <<t[g + 1], t[g + 2]>>
    <3>1. PICK a \in Nat : a = t[g + 1]
      BY <2>2
    <3>2. PICK b \in Nat : b = t[g + 2]
      BY <2>3
    <3>3. <<a>> \in Seq(Nat) /\ <<b>> \in Seq(Nat) /\ <<a, b>> \in Seq(Nat)
      OBVIOUS
    <3>4. Append(<<a>>, b) = <<a>> \o <<b>>
      BY <3>3, AppendIsConcat
    <3>5. Append(<<a>>, b) = <<a, b>>
      <4>1. Append(<<a>>, b) \in Seq(Nat) /\ Len(Append(<<a>>, b)) = 2
        BY <3>3, AppendProperties
      <4>2. Append(<<a>>, b)[1] = a /\ Append(<<a>>, b)[2] = b
        BY <3>3, AppendProperties
      <4>3. Len(<<a, b>>) = 2 /\ <<a, b>>[1] = a /\ <<a, b>>[2] = b
        OBVIOUS
      <4>4. ASSUME NEW i \in 1 .. 2 PROVE Append(<<a>>, b)[i] = <<a, b>>[i]
        <5>1. i = 1 \/ i = 2
          OBVIOUS
        <5> QED
          BY <4>2, <4>3, <5>1
      <4> QED
        BY <3>3, <4>1, <4>3, <4>4, SeqEqual
    <3> QED
      BY <3>1, <3>2, <3>3, <3>4, <3>5
  <2>5. (d \o u) \o v = d \o (u \o v)
    BY <2>2, <2>4, ConcatAssociative
  <2> QED
    BY <2>2, <2>3, <2>4, <2>5
<1> QED
  BY <1>3, <1>4
-----------------------------------------------------------------------------
(***************************************************************************)
(* Every step keeps the invariant.                                         *)
(***************************************************************************)
LEMMA InitInv == ASSUME Init PROVE IInv
<1>1. NoBits \in Codebuf /\ NoBits.len = 0
  BY EmptySeq DEF NoBits, Codebuf
<1>2. ITypes
  BY <1>1, EmptySeq DEF Init, ITypes
<1>3. ITables
  BY DEF Init, ITables
<1>4. IEncode
  BY DEF Init, IEncode
<1>5. IDecode
  BY DEF Init, IDecode
<1> QED
  BY <1>2, <1>3, <1>4, <1>5 DEF IInv

LEMMA MakeLengthsInv == ASSUME IInv, MakeLengths PROVE IInv'
<1> USE DEF IInv, MakeLengths, encVars, decVars
<1>1. ITypes'
  BY DEF ITypes
<1>2. ITables'
  <2>1. pc' = "pack" /\ tbuf' = tbuf
    OBVIOUS
  <2>2. Coded(tbuf', length1', length2')
    BY DEF Coded, ITables
  <2> QED
    BY <2>1, <2>2 DEF ITables
<1>3. IEncode'
  BY DEF IEncode
<1>4. IDecode'
  BY DEF IDecode
<1> QED
  BY <1>1, <1>2, <1>3, <1>4

LEMMA PackTablesInv == ASSUME IInv, PackTables PROVE IInv'
<1> USE DEF IInv, PackTables, inputVars, decVars
<1>1. ITypes'
  BY DEF ITypes
<1>2. ITables'
  BY DEF ITables
<1>3. IEncode'
  <2>1. Encoded(tbuf, length1, length2, <<>>, NoBits, 0)
    BY EncodedEmpty DEF ITables
  <2>2. obuf' = <<>> /\ enc' = NoBits /\ ei' = 0
    BY DEF IEncode
  <2>3. Encoded(tbuf, length1, length2, obuf, enc, ei)'
    BY <2>1, <2>2
  <2>4. enc'.len < RefillBits
    BY <2>2, Sizes DEF NoBits
  <2> QED
    BY <2>3, <2>4 DEF IEncode
<1>4. IDecode'
  BY DEF IDecode
<1> QED
  BY <1>1, <1>2, <1>3, <1>4

LEMMA PutTokenInv == ASSUME IInv, PutToken PROVE IInv'
<1> USE DEF IInv, PutToken, inputVars, decVars
<1>1. /\ Coded(tbuf, length1, length2) /\ obuf \in Seq(Byte) /\ enc \in Codebuf
      /\ Encoded(tbuf, length1, length2, obuf, enc, ei) /\ ei < Len(tbuf) /\ enc.len < RefillBits
      /\ codes = [encode1 |-> EncodeTable(length1, MaxLen1), encode2 |-> EncodeTable(length2, MaxLen2)]
  BY DEF ITypes, ITables, IEncode
<1> DEFINE k == ei + 1
           h == IF tbuf[k] < FirstMatch THEN ei + 1 ELSE ei + 2
           new == Input(enc, TokenBits(k))
<1>2. k \in Heads(tbuf) /\ ei \in Nat
  <2>1. tbuf \in Seq(Nat)
    BY <1>1, TokensAssumption DEF Coded
  <2> QED
    BY <1>1, <2>1 DEF Encoded
<1>3. /\ TokenBits(k) \in Seq({0, 1})
      /\ Len(TokenBits(k)) = TokenLen(tbuf, length1, length2, k)
      /\ \A b \in 0 .. TokenLen(tbuf, length1, length2, k) - 1 :
           TokenBits(k)[b + 1] = TokenBit(tbuf, length1, length2, k, b)
  BY <1>1, <1>2, TokenBitsOfToken
<1>4. /\ Encoded(tbuf, length1, length2, obuf, new, h)
      /\ new \in Codebuf /\ new.len < 2 * RefillBits
  BY <1>1, <1>3, EncodedToken
<1>5. enc' = new /\ ei' = h /\ pc' = "drain" /\ h \in Nat
  BY <1>2
<1> HIDE DEF new, h
<1>6. ITypes'
  BY <1>4, <1>5 DEF ITypes
<1>7. ITables'
  BY DEF ITables
<1>8. IEncode'
  <2>1. Encoded(tbuf, length1, length2, obuf, enc, ei)'
    BY <1>4, <1>5
  <2> QED
    BY <1>4, <1>5, <2>1 DEF IEncode
<1>9. IDecode'
  BY DEF IDecode
<1> QED
  BY <1>6, <1>7, <1>8, <1>9

LEMMA DrainInv == ASSUME IInv, Drain PROVE IInv'
<1> USE DEF IInv, Drain, inputVars, decVars
<1>1. /\ Coded(tbuf, length1, length2) /\ obuf \in Seq(Byte) /\ enc \in Codebuf
      /\ Encoded(tbuf, length1, length2, obuf, enc, ei) /\ enc.len < 2 * RefillBits
      /\ pc = "drain"
  BY DEF ITypes, ITables, IEncode
<1>2. enc.len \in Int /\ RefillBits \in Nat /\ FetchBytes \in Nat
  BY <1>1, Sizes DEF Codebuf
<1>0. FetchBytes * ByteBits = RefillBits
  BY DEF RefillBits
<1>3. /\ Encoded(tbuf, length1, length2, obuf, enc, ei)'
      /\ enc' \in Codebuf /\ enc'.len < RefillBits /\ obuf' \in Seq(Byte)
  <2>1. CASE MustDrain(enc)
    <3>1. enc.len >= RefillBits
      BY <2>1 DEF MustDrain
    <3>2. enc.len >= 0 /\ FetchBytes * ByteBits <= enc.len
      <4> DEFINE z == FetchBytes * ByteBits
      <4>1. z = RefillBits
        BY <1>0
      <4> HIDE DEF z
      <4>2. enc.len >= 0 /\ z <= enc.len
        BY <1>2, <3>1, <4>1
      <4> QED
        BY <4>2 DEF z
    <3> DEFINE ob2 == obuf \o BytesOut(enc, FetchBytes)
               new == Output(enc, RefillBits)
    <3>3. /\ Encoded(tbuf, length1, length2, ob2, Output(enc, FetchBytes * ByteBits), ei)
          /\ Output(enc, FetchBytes * ByteBits) \in Codebuf
          /\ Output(enc, FetchBytes * ByteBits).len = enc.len - FetchBytes * ByteBits
          /\ ob2 \in Seq(Byte)
      BY <1>1, <1>2, <3>2, EncodedBytes
    <3>4. /\ Encoded(tbuf, length1, length2, ob2, new, ei) /\ new \in Codebuf
          /\ new.len = enc.len - RefillBits
      BY <1>0, <3>3
    <3>5. obuf' = ob2 /\ enc' = new /\ UNCHANGED <<tbuf, length1, length2, ei>>
      BY <2>1
    <3> HIDE DEF ob2, new
    <3>6. new.len < RefillBits
      BY <1>1, <1>2, <3>4
    <3> QED
      BY <3>3, <3>4, <3>5, <3>6
  <2>2. CASE ~MustDrain(enc)
    <3>1. enc.len < RefillBits
      BY <1>2, <2>2 DEF MustDrain
    <3>2. UNCHANGED <<tbuf, length1, length2, obuf, enc, ei>>
      BY <2>2
    <3> QED
      BY <1>1, <3>1, <3>2
  <2> QED
    BY <2>1, <2>2
<1>4. ITypes'
  BY <1>3 DEF ITypes
<1>5. ITables'
  BY DEF ITables
<1>6. IEncode'
  BY <1>3 DEF IEncode
<1>7. IDecode'
  BY DEF IDecode
<1> QED
  BY <1>4, <1>5, <1>6, <1>7

LEMMA FlushInv == ASSUME IInv, Flush PROVE IInv'
<1> USE DEF IInv, Flush, inputVars, decVars
<1>1. /\ Coded(tbuf, length1, length2) /\ obuf \in Seq(Byte) /\ enc \in Codebuf
      /\ Encoded(tbuf, length1, length2, obuf, enc, ei) /\ enc.len < RefillBits
      /\ pc = "put" /\ ei = Len(tbuf) /\ enc.len > 0
  BY DEF ITypes, ITables, IEncode
<1>2. enc.len \in Int /\ ByteBits \in Nat \ {0} /\ RefillBits \in Nat /\ 1 * ByteBits = ByteBits
  BY <1>1, Sizes DEF Codebuf
<1> DEFINE ob2 == obuf \o BytesOut(enc, 1)
           new == Output(enc, ByteBits)
<1>3. /\ Encoded(tbuf, length1, length2, ob2, Output(enc, 1 * ByteBits), ei)
      /\ Output(enc, 1 * ByteBits) \in Codebuf
      /\ Output(enc, 1 * ByteBits).len = enc.len - 1 * ByteBits
      /\ ob2 \in Seq(Byte)
  <2>1. enc.len >= 0 /\ 1 * ByteBits < enc.len + ByteBits /\ 1 \in Nat
    BY <1>1, <1>2
  <2> QED
    BY <1>1, <2>1, EncodedBytes
<1>4. /\ Encoded(tbuf, length1, length2, ob2, new, ei) /\ new \in Codebuf
      /\ new.len = enc.len - ByteBits
  BY <1>2, <1>3
<1>5. obuf' = ob2 /\ enc' = new /\ UNCHANGED <<tbuf, length1, length2, ei, pc>>
  OBVIOUS
<1> HIDE DEF ob2, new
<1>6. new.len < RefillBits
  BY <1>1, <1>2, <1>4
<1>7. ITypes'
  BY <1>3, <1>4, <1>5 DEF ITypes
<1>8. ITables'
  BY DEF ITables
<1>9. IEncode'
  <2>1. Encoded(tbuf, length1, length2, obuf, enc, ei)'
    BY <1>4, <1>5
  <2> QED
    BY <1>1, <1>5, <1>6, <2>1 DEF IEncode
<1>10. IDecode'
  BY DEF IDecode
<1> QED
  BY <1>7, <1>8, <1>9, <1>10

LEMMA EndPutInv == ASSUME IInv, EndPut PROVE IInv'
<1> USE DEF IInv, EndPut, inputVars, encVars, decVars
<1>1. ITypes'
  BY DEF ITypes
<1>2. ITables'
  BY DEF ITables
<1>3. IEncode'
  BY DEF IEncode
<1>4. IDecode'
  BY DEF IDecode
<1> QED
  BY <1>1, <1>2, <1>3, <1>4

LEMMA UnpackTablesInv == ASSUME IInv, UnpackTables PROVE IInv'
<1> USE DEF IInv, UnpackTables, inputVars, encVars
<1>1. Coded(tbuf, length1, length2) /\ obuf \in Seq(Byte) /\ packed = Pack(length1) \o Pack(length2)
  BY DEF ITypes, ITables
<1>2. ITypes'
  BY DEF ITypes
<1>3. ITables'
  <2>1. length1 \in [Code1 -> 0 .. MaxLen1] /\ length2 \in [Code2 -> 0 .. MaxLen2]
    BY <1>1 DEF Coded
  <2>2. /\ Unpack(SubSeq(packed, 1, NumCodes1 \div 2)) = length1
        /\ Unpack(SubSeq(packed, NumCodes1 \div 2 + 1, Len(packed))) = length2
    BY <1>1, <2>1, TablesComeBack
  <2>3. tables' = DecoderTables(length1, length2)
    BY <2>2
  <2> QED
    BY <2>3 DEF ITables
<1>4. IEncode'
  BY DEF IEncode
<1>5. IDecode'
  <2>1. Decoded(tbuf, length1, length2, obuf, stale, NoBits, 0, <<>>)
    BY <1>1, DecodedEmpty
  <2>2. dec' = NoBits /\ di' = 0 /\ dbuf' = <<>>
    BY DEF IDecode
  <2>3. Decoded(tbuf, length1, length2, obuf, stale, dec, di, dbuf)'
    BY <2>1, <2>2
  <2> QED
    BY <2>3 DEF IDecode
<1> QED
  BY <1>2, <1>3, <1>4, <1>5

LEMMA FetchInv == ASSUME IInv, Fetch PROVE IInv'
<1> USE DEF IInv, Fetch, inputVars, encVars
<1>1. /\ Coded(tbuf, length1, length2) /\ obuf \in Seq(Byte) /\ stale \in StaleBytes
      /\ enc \in Codebuf /\ dec \in Codebuf /\ di \in Nat
      /\ Encoded(tbuf, length1, length2, obuf, enc, Len(tbuf)) /\ enc.len <= 0
      /\ Decoded(tbuf, length1, length2, obuf, stale, dec, di, dbuf)
      /\ Len(dbuf) < Len(tbuf)
  BY DEF ITypes, ITables, IEncode, IDecode
<1>2. dec.len \in Int /\ RefillBits \in Nat /\ FetchBytes \in Nat
  BY <1>1, Sizes DEF Codebuf
<1>3. Pos(tbuf, length1, length2)[Len(tbuf)] <= Len(obuf) * ByteBits
  BY <1>1, AllWritten
<1>4. /\ Decoded(tbuf, length1, length2, obuf, stale, dec, di, dbuf)'
      /\ dec' \in Codebuf /\ dec'.len >= RefillBits /\ di' \in Nat
  <2>1. CASE MustFetch(dec)
    <3> DEFINE new == Input(dec, Flat(BytesAt(FetchBytes)))
    <3>1. dec.len < RefillBits
      BY <2>1 DEF MustFetch
    <3>2. /\ Decoded(tbuf, length1, length2, obuf, stale, new, di + FetchBytes, dbuf)
          /\ new \in Codebuf /\ new.len >= RefillBits
      BY <1>1, <1>3, <3>1, DecodedFetch
    <3>3. dec' = new /\ di' = di + FetchBytes /\ UNCHANGED <<tbuf, length1, length2, obuf, stale, dbuf>>
      BY <2>1
    <3>4. di + FetchBytes \in Nat
      BY <1>1, <1>2
    <3> HIDE DEF new
    <3> QED
      BY <3>2, <3>3, <3>4
  <2>2. CASE ~MustFetch(dec)
    <3>1. dec.len >= RefillBits
      BY <1>2, <2>2 DEF MustFetch
    <3>2. UNCHANGED <<tbuf, length1, length2, obuf, stale, dbuf, dec, di>>
      BY <2>2
    <3> QED
      BY <1>1, <3>1, <3>2
  <2> QED
    BY <2>1, <2>2
<1>5. ITypes'
  BY <1>4 DEF ITypes
<1>6. ITables'
  BY DEF ITables
<1>7. IEncode'
  BY DEF IEncode
<1>8. IDecode'
  BY <1>1, <1>4 DEF IDecode
<1> QED
  BY <1>5, <1>6, <1>7, <1>8

(* What a decoder finds that is about to take a token. *)
LEMMA Looking ==
  ASSUME IInv, pc = "look"
  PROVE  LET k == Len(dbuf) + 1
             v == tbuf[k]
             c == CodeOfDistance(tbuf[k + 1])
             dec1 == Output(dec, length1[v])
             dec2 == Output(dec1, length2[c])
         IN  /\ k \in Heads(tbuf) /\ Len(dbuf) \in Nat /\ v \in Code1 /\ v \in Nat
             /\ LookUp1(dec) = v
             /\ tables.length1 = length1 /\ tables.length2 = length2
             /\ v < FirstMatch =>
                  /\ Append(dbuf, v) = SubSeq(tbuf, 1, k)
                  /\ Decoded(tbuf, length1, length2, obuf, stale, dec1, di, SubSeq(tbuf, 1, k))
                  /\ dec1 \in Codebuf /\ SubSeq(tbuf, 1, k) \in Seq(Nat)
             /\ v >= FirstMatch =>
                  LET dec3 == Output(dec2, matchidx_blen[c])
                      d == matchidx_base[c] + FromBits(Peek(dec2, matchidx_blen[c]), matchidx_blen[c])
                  IN  /\ LookUp2(dec1) = c /\ c \in Code2
                      /\ d = tbuf[k + 1] /\ d \in 0 .. BucketItemSize - 1
                      /\ dbuf \o <<v, d>> = SubSeq(tbuf, 1, k + 1)
                      /\ Decoded(tbuf, length1, length2, obuf, stale, dec3, di, SubSeq(tbuf, 1, k + 1))
                      /\ dec3 \in Codebuf /\ SubSeq(tbuf, 1, k + 1) \in Seq(Nat)
<1> DEFINE k == Len(dbuf) + 1
           v == tbuf[k]
           c == CodeOfDistance(tbuf[k + 1])
           a == length1[v]
           b == length2[c]
           e == matchidx_blen[c]
           w == TokenLen(tbuf, length1, length2, k)
           dec1 == Output(dec, a)
           dec2 == Output(dec1, b)
           dec3 == Output(dec2, e)
<1>1. /\ Coded(tbuf, length1, length2) /\ obuf \in Seq(Byte) /\ stale \in StaleBytes
      /\ enc \in Codebuf /\ dec \in Codebuf /\ di \in Nat
      /\ Encoded(tbuf, length1, length2, obuf, enc, Len(tbuf)) /\ enc.len <= 0
      /\ Decoded(tbuf, length1, length2, obuf, stale, dec, di, dbuf)
      /\ Len(dbuf) < Len(tbuf) /\ dec.len >= RefillBits
      /\ tables = DecoderTables(length1, length2)
  BY DEF IInv, ITypes, ITables, IEncode, IDecode
<1>2. AtPlace(tbuf, length1, length2, obuf, stale)
  BY <1>1, AllWritten
<1>3. /\ k \in Heads(tbuf) /\ k - 1 = Len(dbuf) /\ Len(dbuf) \in Nat
      /\ dec.buf \in Seq({0, 1}) /\ Len(dec.buf) >= RefillBits
      /\ \A j \in 0 .. w - 1 : dec.buf[j + 1] = TokenBit(tbuf, length1, length2, k, j)
  BY <1>1, <1>2, NextBits
<1>4. /\ tbuf \in Seq(Nat) /\ k \in 1 .. Len(tbuf) /\ v \in Code1 /\ v \in Nat /\ a \in 1 .. MaxLen1
      /\ v >= FirstMatch => /\ k < Len(tbuf) /\ tbuf[k + 1] \in 0 .. BucketItemSize - 1
                            /\ c \in Code2 /\ b \in 1 .. MaxLen2 /\ matchidx_base[c] \in Nat
  BY <1>1, <1>3, TokenFacts
<1>5. /\ LookUp1(dec) = v
      /\ v >= FirstMatch =>
           LookUp2(dec1) = c /\ FromBits(Peek(dec2, e), e) = tbuf[k + 1] - matchidx_base[c]
  BY <1>1, <1>3, TokenFound
<1>6. tables.length1 = length1 /\ tables.length2 = length2
  BY <1>1 DEF DecoderTables
<1>7. dbuf = SubSeq(tbuf, 1, Len(dbuf))
  BY <1>1 DEF Decoded
<1>8. ASSUME NEW h, h = IF v < FirstMatch THEN Len(dbuf) + 1 ELSE Len(dbuf) + 2
      PROVE  /\ Decoded(tbuf, length1, length2, obuf, stale, Output(dec, w), di, SubSeq(tbuf, 1, h))
             /\ Output(dec, w) \in Codebuf /\ SubSeq(tbuf, 1, h) \in Seq(Nat)
  BY <1>1, <1>3, <1>8, DecodedToken
<1>9. ASSUME v < FirstMatch
      PROVE  /\ Append(dbuf, v) = SubSeq(tbuf, 1, k)
             /\ Decoded(tbuf, length1, length2, obuf, stale, dec1, di, SubSeq(tbuf, 1, k))
             /\ dec1 \in Codebuf /\ SubSeq(tbuf, 1, k) \in Seq(Nat)
  <2>1. w = a
    BY <1>9 DEF TokenLen
  <2>2. /\ Decoded(tbuf, length1, length2, obuf, stale, Output(dec, w), di, SubSeq(tbuf, 1, k))
        /\ Output(dec, w) \in Codebuf /\ SubSeq(tbuf, 1, k) \in Seq(Nat)
    BY <1>8, <1>9
  <2>3. k <= Len(tbuf)
    BY <1>4
  <2>4. Append(dbuf, v) = SubSeq(tbuf, 1, k)
    BY <1>3, <1>4, <1>7, <2>3, Appended
  <2> QED
    BY <2>1, <2>2, <2>4
<1>10. ASSUME v >= FirstMatch
       PROVE  LET d == matchidx_base[c] + FromBits(Peek(dec2, e), e)
              IN  /\ LookUp2(dec1) = c /\ c \in Code2
                  /\ d = tbuf[k + 1] /\ d \in 0 .. BucketItemSize - 1
                  /\ dbuf \o <<v, d>> = SubSeq(tbuf, 1, k + 1)
                  /\ Decoded(tbuf, length1, length2, obuf, stale, dec3, di, SubSeq(tbuf, 1, k + 1))
                  /\ dec3 \in Codebuf /\ SubSeq(tbuf, 1, k + 1) \in Seq(Nat)
  <2> DEFINE d == matchidx_base[c] + FromBits(Peek(dec2, e), e)
  <2>1. ~(v < FirstMatch) /\ k + 1 = Len(dbuf) + 2
    BY <1>3, <1>4, <1>10, Sizes
  <2>2. w = a + b + e
    BY <2>1 DEF TokenLen
  <2>3. a \in Nat /\ b \in Nat /\ e \in Nat
    <3>1. c \in Code2 /\ b \in 1 .. MaxLen2
      BY <1>4, <1>10
    <3>2. e \in Nat
      BY <3>1, Sizes
    <3> QED
      BY <1>4, <3>1, <3>2
  <2>4. dec3 = Output(dec, w)
    <3> HIDE DEF a, b, e
    <3>1. dec2 = Output(dec, a + b)
      BY <1>1, <2>3, OutputTwice
    <3>2. a + b \in Nat
      BY <2>3
    <3>3. Output(Output(dec, a + b), e) = Output(dec, (a + b) + e)
      BY <1>1, <2>3, <3>2, OutputTwice
    <3> QED
      BY <2>2, <3>1, <3>3
  <2>5. /\ Decoded(tbuf, length1, length2, obuf, stale, Output(dec, w), di, SubSeq(tbuf, 1, k + 1))
        /\ Output(dec, w) \in Codebuf /\ SubSeq(tbuf, 1, k + 1) \in Seq(Nat)
    BY <1>8, <2>1
  <2>6. d = tbuf[k + 1] /\ d \in 0 .. BucketItemSize - 1
    <3> DEFINE x == FromBits(Peek(dec2, e), e)
               y == matchidx_base[c]
               z == tbuf[k + 1]
    <3>1. x = z - y /\ y \in Nat /\ z \in Nat /\ z \in 0 .. BucketItemSize - 1
      BY <1>4, <1>5, <1>10
    <3> HIDE DEF x, y, z
    <3>2. y + x = z
      BY <3>1
    <3> QED
      BY <3>1, <3>2 DEF x, y, z
  <2>7. dbuf \o <<v, tbuf[k + 1]>> = SubSeq(tbuf, 1, k + 1)
    <3>1. Len(dbuf) + 2 <= Len(tbuf)
      BY <1>3, <1>4, <1>10, <2>1
    <3> QED
      BY <1>3, <1>4, <1>7, <2>1, <3>1, Appended
  <2>8. LookUp2(dec1) = c /\ c \in Code2
    BY <1>4, <1>5, <1>10
  <2> HIDE DEF d, dec1, dec2, dec3, c, e, k, v
  <2>9. dbuf \o <<v, d>> = SubSeq(tbuf, 1, k + 1)
    BY <2>6, <2>7
  <2> QED
    BY <2>4, <2>5, <2>6, <2>8, <2>9 DEF d
<1> QED
  BY <1>3, <1>4, <1>5, <1>6, <1>9, <1>10

LEMMA GetLiteralInv == ASSUME IInv, GetLiteral PROVE IInv'
<1> USE DEF inputVars, encVars
<1> DEFINE k == Len(dbuf) + 1
           v == tbuf[k]
           dec1 == Output(dec, length1[v])
           s == SubSeq(tbuf, 1, k)
<1>1. pc = "look" /\ pc' = "get" /\ UNCHANGED <<tbuf, length1, length2, stale, codes, packed, obuf, enc, ei, tables, di>>
  BY DEF GetLiteral
<1>2. /\ LookUp1(dec) = v /\ tables.length1 = length1
      /\ v < FirstMatch =>
           /\ Append(dbuf, v) = s
           /\ Decoded(tbuf, length1, length2, obuf, stale, dec1, di, s)
           /\ dec1 \in Codebuf /\ s \in Seq(Nat)
  BY <1>1, Looking
<1>3. v < FirstMatch /\ dbuf' = s /\ dec' = dec1
  BY <1>2 DEF GetLiteral
<1> HIDE DEF k, v, s, dec1
<1>4. ITypes'
  BY <1>1, <1>2, <1>3 DEF IInv, ITypes
<1>5. ITables'
  BY <1>1 DEF IInv, ITables
<1>6. IEncode'
  BY <1>1 DEF IInv, IEncode
<1>7. IDecode'
  <2>1. Decoded(tbuf, length1, length2, obuf, stale, dec, di, dbuf)'
    BY <1>1, <1>2, <1>3
  <2> QED
    BY <1>1, <2>1 DEF IDecode
<1> QED
  BY <1>4, <1>5, <1>6, <1>7 DEF IInv

LEMMA GetMatchInv == ASSUME IInv, GetMatch PROVE IInv'
<1> USE DEF inputVars, encVars
<1> DEFINE k == Len(dbuf) + 1
           v == tbuf[k]
           c == CodeOfDistance(tbuf[k + 1])
           dec1 == Output(dec, length1[v])
           dec2 == Output(dec1, length2[c])
           dec3 == Output(dec2, matchidx_blen[c])
           d == matchidx_base[c] + FromBits(Peek(dec2, matchidx_blen[c]), matchidx_blen[c])
           s == SubSeq(tbuf, 1, k + 1)
<1>1. pc = "look" /\ UNCHANGED <<tbuf, length1, length2, stale, codes, packed, obuf, enc, ei, tables, di>>
  BY DEF GetMatch
<1>2. /\ LookUp1(dec) = v /\ tables.length1 = length1 /\ tables.length2 = length2 /\ v \in Code1 /\ v \in Nat
      /\ v >= FirstMatch =>
           /\ LookUp2(dec1) = c /\ c \in Code2 /\ d \in 0 .. BucketItemSize - 1
           /\ dbuf \o <<v, d>> = s
           /\ Decoded(tbuf, length1, length2, obuf, stale, dec3, di, s)
           /\ dec3 \in Codebuf /\ s \in Seq(Nat)
  BY <1>1, Looking
<1>3. v >= FirstMatch
  BY <1>2 DEF GetMatch
<1>4. LookUp2(dec1) = c
  BY <1>2, <1>3
<1>5. IF v >= NumCodes1 \/ c >= NumCodes2 \/ d >= BucketItemSize
      THEN pc' = "failed" /\ UNCHANGED <<dbuf, dec>>
      ELSE /\ pc' = "get"
           /\ dbuf' = dbuf \o <<v, d>>
           /\ dec' = dec3
  <2>1. LookUp1(dec) = v /\ tables.length1 = length1 /\ tables.length2 = length2
    BY <1>2
  <2> QED
    BY <1>4, <2>1 DEF GetMatch
<1>6. BucketItemSize \in Nat
  <2> DEFINE n == NumCodes2 - 1
  <2>1. n \in Code2
    BY Sizes DEF Code2
  <2>2. matchidx_base[n] \in Nat /\ 2 ^ matchidx_blen[n] \in Nat
    BY <2>1, BaseSteps, Sizes, PowerPositive
  <2> QED
    BY <2>2 DEF BucketItemSize
<1>7. ~(v >= NumCodes1) /\ ~(c >= NumCodes2) /\ ~(d >= BucketItemSize)
  <2> HIDE DEF v, c, d
  <2>1. v < NumCodes1 /\ c < NumCodes2 /\ c \in Nat
    BY <1>2, <1>3, Sizes DEF Code1, Code2
  <2>2. d \in 0 .. BucketItemSize - 1
    BY <1>2, <1>3
  <2> QED
    BY <1>2, <1>6, <2>1, <2>2, Sizes
<1>8. pc' = "get" /\ dbuf' = s /\ dec' = dec3
  BY <1>2, <1>3, <1>5, <1>7
<1> HIDE DEF k, v, c, d, s, dec1, dec2, dec3
<1>9. ITypes'
  BY <1>1, <1>2, <1>3, <1>8 DEF IInv, ITypes
<1>10. ITables'
  BY <1>1, <1>8 DEF IInv, ITables
<1>11. IEncode'
  BY <1>1, <1>8 DEF IInv, IEncode
<1>12. IDecode'
  <2>1. Decoded(tbuf, length1, length2, obuf, stale, dec, di, dbuf)'
    BY <1>1, <1>2, <1>3, <1>8
  <2> QED
    BY <1>8, <2>1 DEF IDecode
<1> QED
  BY <1>9, <1>10, <1>11, <1>12 DEF IInv

LEMMA EndGetInv == ASSUME IInv, EndGet PROVE IInv'
<1> USE DEF IInv, EndGet, inputVars, encVars, decVars
<1>1. ITypes'
  BY DEF ITypes
<1>2. ITables'
  BY DEF ITables
<1>3. IEncode'
  BY DEF IEncode
<1>4. IDecode'
  <2>1. Len(dbuf) <= Len(tbuf) /\ Len(dbuf) >= Len(tbuf) /\ Len(dbuf) \in Nat /\ Len(tbuf) \in Nat
    <3>1. Len(dbuf) <= Len(tbuf)
      BY DEF IDecode, Decoded
    <3>2. Len(dbuf) \in Nat
      BY DEF ITypes
    <3>3. tbuf \in Seq(Nat)
      BY TokensAssumption DEF ITables
    <3> QED
      BY <3>1, <3>2, <3>3
  <2>2. Len(dbuf) = Len(tbuf)
    BY <2>1
  <2> QED
    BY <2>2 DEF IDecode
<1> QED
  BY <1>1, <1>2, <1>3, <1>4

LEMMA StepInv == ASSUME IInv, [Next]_vars PROVE IInv'
<1>1. CASE Encode
  BY <1>1, MakeLengthsInv, PackTablesInv, PutTokenInv, DrainInv, FlushInv, EndPutInv DEF Encode
<1>2. CASE Decode
  BY <1>2, UnpackTablesInv, FetchInv, GetLiteralInv, GetMatchInv, EndGetInv DEF Decode
<1>3. CASE UNCHANGED vars
  <2> USE <1>3 DEF vars, inputVars, encVars, decVars, IInv
  <2>1. ITypes'
    BY DEF ITypes
  <2>2. ITables'
    BY DEF ITables
  <2>3. IEncode'
    BY DEF IEncode
  <2>4. IDecode'
    BY DEF IDecode
  <2> QED
    BY <2>1, <2>2, <2>3, <2>4
<1> QED
  BY <1>1, <1>2, <1>3 DEF Next, Terminating

(* The inductive invariant holds of every state of the coding of a chunk.  *)
THEOREM CodingKeeps == Spec => []IInv
<1>1. Init => IInv
  BY InitInv
<1>2. IInv /\ [Next]_vars => IInv'
  BY StepInv
<1> QED
  BY <1>1, <1>2, PTL DEF Spec

(* In a state of the invariant both codebufs have room. *)
LEMMA FitsInvariant == ASSUME IInv PROVE CodebufFits
<1> DEFINE e == enc.len
           d == dec.len
<1>1. e \in Int /\ d \in Int /\ RefillBits \in Nat \ {0} /\ ByteBits \in Nat \ {0}
      /\ CodebufBits \in Nat /\ 2 * RefillBits <= CodebufBits
  BY Sizes DEF IInv, ITypes, Codebuf
<1>2. e <= 2 * RefillBits /\ e > -ByteBits
  <2>1. CASE pc \in {"lengths", "pack"}
    <3>1. e = 0
      BY <2>1 DEF IInv, IEncode, NoBits
    <3> HIDE DEF e
    <3> QED
      BY <1>1, <3>1
  <2>2. CASE pc \notin {"lengths", "pack"}
    <3>1. e > -ByteBits
      BY <2>2 DEF IInv, IEncode, Encoded
    <3>2. e < RefillBits \/ e < 2 * RefillBits \/ e <= 0
      BY <2>2 DEF IInv, IEncode
    <3> HIDE DEF e
    <3> QED
      BY <1>1, <3>1, <3>2
  <2> QED
    BY <2>1, <2>2
<1>3. d \in Nat /\ d <= 2 * RefillBits
  <2>1. CASE pc \in {"get", "look", "done"}
    <3>1. d = Len(dec.buf) /\ d < 2 * RefillBits /\ dec.buf \in Seq({0, 1})
      BY <2>1 DEF IInv, ITypes, IDecode, Decoded, Codebuf
    <3>2. d \in Nat
      BY <3>1
    <3> HIDE DEF d
    <3> QED
      BY <1>1, <3>1, <3>2
  <2>2. CASE pc \notin {"get", "look", "done"}
    <3>1. d = 0
      BY <2>2 DEF IInv, IDecode, NoBits
    <3> HIDE DEF d
    <3> QED
      BY <1>1, <3>1
  <2> QED
    BY <2>1, <2>2
<1> HIDE DEF d, e
<1>4. e <= CodebufBits /\ e > -ByteBits /\ d \in 0 .. CodebufBits
  BY <1>1, <1>2, <1>3
<1> QED
  BY <1>4 DEF CodebufFits, d, e

(***************************************************************************)
(* Neither codebuf is asked to hold more bits than it is wide: of any      *)
(* length tables, any tokens and any four bytes at a time, a token put     *)
(* behind fewer than 32 bits or four bytes fetched behind as many fit.     *)
(***************************************************************************)
THEOREM CodebufsFit == Spec => []CodebufFits
<1>1. IInv => CodebufFits
  BY FitsInvariant
<1> QED
  BY <1>1, CodingKeeps, PTL

(* What the decoder has got, if the invariant holds, are the first tokens. *)
LEMMA RoundTripInvariant == ASSUME IInv PROVE StreamRoundTrip
<1>1. pc # "failed"
  BY DEF IInv, ITypes
<1>2. tbuf \in Seq(Nat) /\ Len(dbuf) \in Nat /\ dbuf \in Seq(Nat)
  BY TokensAssumption DEF IInv, ITypes, ITables
<1>3. Len(dbuf) <= Len(tbuf) /\ dbuf = SubSeq(tbuf, 1, Len(dbuf))
  <2>1. CASE pc \in {"get", "look", "done"}
    BY <2>1 DEF IInv, IDecode, Decoded
  <2>2. CASE pc \notin {"get", "look", "done"}
    <3>1. dbuf = <<>>
      BY <2>2 DEF IInv, IDecode
    <3>2. Len(dbuf) = 0
      BY <3>1
    <3> QED
      BY <1>2, <3>1, <3>2, SubSeqEmpty
  <2> QED
    BY <2>1, <2>2
<1>4. ASSUME pc = "done" PROVE dbuf = tbuf
  <2>1. Len(dbuf) = Len(tbuf)
    BY <1>4 DEF IInv, IDecode
  <2>2. SubSeq(tbuf, 1, Len(tbuf)) = tbuf
    BY <1>2, SubSeqFull
  <2> QED
    BY <1>3, <2>1, <2>2
<1> QED
  BY <1>1, <1>3, <1>4 DEF StreamRoundTrip

(***************************************************************************)
(* The decoder gets back the tokens that the encoder was given, whatever   *)
(* lies in memory behind the last byte, and never fails.                   *)
(***************************************************************************)
THEOREM TokensComeBack == Spec => []StreamRoundTrip
<1>1. IInv => StreamRoundTrip
  BY RoundTripInvariant
<1> QED
  BY <1>1, CodingKeeps, PTL

(* What the decoder has fetched, if the invariant holds, ends close behind what was written. *)
LEMMA FetchInvariant == ASSUME IInv PROVE FetchBounded
<1>1. CASE pc \in {"get", "look", "done"}
  BY <1>1 DEF IInv, IDecode, Decoded, FetchBounded
<1>2. CASE pc \notin {"get", "look", "done"}
  <2>1. di = 0 /\ Len(obuf) \in Nat
    BY <1>2 DEF IInv, ITypes, IDecode
  <2> QED
    BY <2>1, Sizes DEF FetchBounded
<1> QED
  BY <1>1, <1>2

(***************************************************************************)
(* The decoder fetches fewer than two times four bytes from behind the     *)
(* last byte that was written.                                             *)
(***************************************************************************)
THEOREM FewBytesBeyond == Spec => []FetchBounded
<1>1. IInv => FetchBounded
  BY FetchInvariant
<1> QED
  BY <1>1, CodingKeeps, PTL
-----------------------------------------------------------------------------
(***************************************************************************)
(* The two calls of ZlingMakeLengthTable.  An instance has operators of    *)
(* its own; each is the one it was made from.                              *)
(***************************************************************************)
(* What HuffmanLengths assumes, the sizes of the first code fulfil. *)
LEMMA CallAssumption1 == P1!HuffmanAssumption
<1>1. P1!CodeWidth = CodeWidth /\ P1!Symbol = Code1
  BY DEF P1!CodeWidth, CodeWidth, P1!Symbol, Code1
<1>2. MaxLen1 \in 1 .. CodeWidth - 1 /\ FastLen1 \in 1 .. MaxLen1
  BY EntropyAssumption DEF CodeWidth
<1>3. NumCodes1 \in 1 .. 2 ^ MaxLen1
  BY EntropyAssumption, ChunkAssumption DEF NoSymbol
<1> QED
  BY <1>1, <1>2, <1>3, Zenon DEF P1!HuffmanAssumption

LEMMA Counts1 == ASSUME NEW S PROVE P1!Cardinality(S) = Cardinality(S)
BY DEF P1!Cardinality, Cardinality

LEMMA CountsInCall1 == ASSUME NEW S PROVE H1!Cardinality(S) = P1!Cardinality(S)
BY DEF P1!Cardinality, H1!Cardinality

(* Admissible means the same in the proofs about a call as here. *)
LEMMA SameAdmissible1 ==
  ASSUME NEW f, NEW l, NEW m
  PROVE  P1!Admissible(f, l, m) <=> Admissible(f, l, m)
<1>1. P1!KraftSum(l, m) = KraftSum(l, m)
  BY Counts1, Zenon DEF P1!KraftSum, KraftSum, P1!OfLength, OfLength
<1> QED
  BY <1>1 DEF P1!Admissible, Admissible

(* The steps of a call are those that the proofs are about. *)
LEMMA SameLeaves1 == H1!MakeLeaves => P1!MakeLeaves
BY DEF H1!MakeLeaves, P1!MakeLeaves, H1!Leaf, P1!Leaf, H1!Weight, P1!Weight,
       H1!Occurring, P1!Occurring, H1!Symbol, P1!Symbol

LEMMA SameJoin1 == H1!JoinTwo => P1!JoinTwo
BY CountsInCall1, Zenon
DEF H1!JoinTwo, P1!JoinTwo, H1!Lightest, P1!Lightest, H1!Join, P1!Join

LEMMA SameExtract1 == H1!ExtractLengths => P1!ExtractLengths
BY CountsInCall1, Zenon
DEF H1!ExtractLengths, P1!ExtractLengths, H1!CodeLength, P1!CodeLength, H1!TooLong,
    P1!TooLong, H1!Coarser, P1!Coarser, H1!Symbol, P1!Symbol


(* And so do those of the second. *)
LEMMA CallAssumption2 == P2!HuffmanAssumption
<1>1. P2!CodeWidth = CodeWidth /\ P2!Symbol = Code2
  BY DEF P2!CodeWidth, CodeWidth, P2!Symbol, Code2
<1>2. MaxLen2 \in 1 .. CodeWidth - 1 /\ MaxLen2 \in 1 .. MaxLen2
  BY EntropyAssumption DEF CodeWidth
<1>3. NumCodes2 \in 1 .. 2 ^ MaxLen2
  BY EntropyAssumption, ChunkAssumption DEF NoSymbol
<1> QED
  BY <1>1, <1>2, <1>3, Zenon DEF P2!HuffmanAssumption

LEMMA Counts2 == ASSUME NEW S PROVE P2!Cardinality(S) = Cardinality(S)
BY DEF P2!Cardinality, Cardinality

LEMMA CountsInCall2 == ASSUME NEW S PROVE H2!Cardinality(S) = P2!Cardinality(S)
BY DEF P2!Cardinality, H2!Cardinality

(* Admissible means the same in the proofs about a call as here. *)
LEMMA SameAdmissible2 ==
  ASSUME NEW f, NEW l, NEW m
  PROVE  P2!Admissible(f, l, m) <=> Admissible(f, l, m)
<1>1. P2!KraftSum(l, m) = KraftSum(l, m)
  BY Counts2, Zenon DEF P2!KraftSum, KraftSum, P2!OfLength, OfLength
<1> QED
  BY <1>1 DEF P2!Admissible, Admissible

(* The steps of a call are those that the proofs are about. *)
LEMMA SameLeaves2 == H2!MakeLeaves => P2!MakeLeaves
BY DEF H2!MakeLeaves, P2!MakeLeaves, H2!Leaf, P2!Leaf, H2!Weight, P2!Weight,
       H2!Occurring, P2!Occurring, H2!Symbol, P2!Symbol

LEMMA SameJoin2 == H2!JoinTwo => P2!JoinTwo
BY CountsInCall2, Zenon
DEF H2!JoinTwo, P2!JoinTwo, H2!Lightest, P2!Lightest, H2!Join, P2!Join

LEMMA SameExtract2 == H2!ExtractLengths => P2!ExtractLengths
BY CountsInCall2, Zenon
DEF H2!ExtractLengths, P2!ExtractLengths, H2!CodeLength, P2!CodeLength, H2!TooLong,
    P2!TooLong, H2!Coarser, P2!Coarser, H2!Symbol, P2!Symbol

(* The same for what EntropyStream is made of, taken as what is implemented. *)
LEMMA SameCount == ASSUME NEW S PROVE E!Cardinality(S) = Cardinality(S)
BY DEF E!Cardinality, Cardinality

LEMMA SameFirstCode == ASSUME NEW l, NEW m PROVE E!FirstCode(l, m) = FirstCode(l, m)
BY SameCount, Zenon DEF E!FirstCode, FirstCode, E!OfLength, OfLength

LEMMA SameEncodeTable == ASSUME NEW l, NEW m PROVE E!EncodeTable(l, m) = EncodeTable(l, m)
<1>1. \A s : E!Canonical(l, m, s) = Canonical(l, m, s)
  BY SameCount, SameFirstCode DEF E!Canonical, Canonical, E!OfLength, OfLength
<1>2. \A x, n : E!ReverseBits(x, n) = ReverseBits(x, n)
  BY Zenon DEF E!ReverseBits, ReverseBits, E!Bit, Bit
<1> QED
  BY <1>1, <1>2 DEF E!EncodeTable, EncodeTable

LEMMA SameDecodeTable == ASSUME NEW l, NEW c, NEW m PROVE E!DecodeTable(l, c, m) = DecodeTable(l, c, m)
<1>1. \A s, i : E!Fills(l, c, m, s, i) <=> Fills(l, c, m, s, i)
  BY Zenon DEF E!Fills, Fills
<1>2. \A S : E!Max(S) = Max(S)
  BY Zenon DEF E!Max, Max
<1>3. E!NoSymbol = NoSymbol
  BY DEF E!NoSymbol, NoSymbol
<1> QED
  BY <1>1, <1>2, <1>3 DEF E!DecodeTable, DecodeTable

LEMMA SameDecoderTables == ASSUME NEW l, NEW m PROVE E!DecoderTables(l, m) = DecoderTables(l, m)
BY SameEncodeTable, SameDecodeTable DEF E!DecoderTables, DecoderTables

LEMMA SamePack == ASSUME NEW l PROVE E!Pack(l) = Pack(l) /\ E!Unpack(l) = Unpack(l)
BY SameCount, Zenon DEF E!Pack, Pack, E!Unpack, Unpack

LEMMA SameDistances ==
  /\ E!matchidx_base = matchidx_base /\ E!BucketItemSize = BucketItemSize
  /\ \A d : E!CodeOfDistance(d) = CodeOfDistance(d)
<1>1. E!matchidx_base = matchidx_base
  BY Zenon DEF E!matchidx_base, matchidx_base, E!Code2, Code2
<1> QED
  BY <1>1, Zenon
  DEF E!BucketItemSize, BucketItemSize, E!CodeOfDistance, CodeOfDistance, E!Code2,
      Code2

LEMMA SameTokens ==
  ASSUME NEW t
  PROVE  E!Heads(t) = Heads(t) /\ E!Matches(t) = Matches(t) /\ E!Freq1(t) = Freq1(t) /\ E!Freq2(t) = Freq2(t)
<1>1. E!Heads(t) = Heads(t)
  BY Zenon DEF E!Heads, Heads
<1>2. E!Matches(t) = Matches(t)
  BY <1>1, Zenon DEF E!Matches, Matches
<1> QED
  BY <1>1, <1>2, SameCount, SameDistances, Zenon
  DEF E!Freq1, Freq1, E!Freq2, Freq2, E!Code1, Code1, E!Code2, Code2

LEMMA SameCodebuf ==
  /\ E!NoBits = NoBits /\ E!RefillBits = RefillBits /\ E!Byte = Byte
  /\ \A cb, n : /\ E!Input(cb, n) = Input(cb, n) /\ E!Output(cb, n) = Output(cb, n)
                /\ E!Peek(cb, n) = Peek(cb, n) /\ E!BytesOut(cb, n) = BytesOut(cb, n)
                /\ E!ToBits(cb, n) = ToBits(cb, n) /\ E!FromBits(cb, n) = FromBits(cb, n)
  /\ \A cb : E!MustDrain(cb) = MustDrain(cb) /\ E!MustFetch(cb) = MustFetch(cb) /\ E!Flat(cb) = Flat(cb)
<1>1. E!NoBits = NoBits /\ E!RefillBits = RefillBits /\ E!Byte = Byte
  BY Zenon DEF E!NoBits, NoBits, E!RefillBits, RefillBits, E!Byte, Byte, E!Bits, Bits
<1>2. \A cb, n : /\ E!Input(cb, n) = Input(cb, n) /\ E!Output(cb, n) = Output(cb, n)
                 /\ E!Peek(cb, n) = Peek(cb, n)
  BY Zenon DEF E!Input, Input, E!Output, Output, E!Peek, Peek
<1>3. \A cb, n : E!BytesOut(cb, n) = BytesOut(cb, n)
  BY Zenon DEF E!BytesOut, BytesOut, E!Peek, Peek, E!Output, Output
<1>4. \A cb, n : E!ToBits(cb, n) = ToBits(cb, n) /\ E!FromBits(cb, n) = FromBits(cb, n)
  BY Zenon DEF E!ToBits, ToBits, E!FromBits, FromBits, E!Bit, Bit
<1>5. \A cb : E!MustDrain(cb) = MustDrain(cb) /\ E!MustFetch(cb) = MustFetch(cb) /\ E!Flat(cb) = Flat(cb)
  BY <1>1, Zenon DEF E!MustDrain, MustDrain, E!MustFetch, MustFetch, E!Flat, Flat
<1> QED
  BY <1>1, <1>2, <1>3, <1>4, <1>5

LEMMA SameLookUps ==
  /\ \A cb : E!LookUp1(cb) = LookUp1(cb) /\ E!LookUp2(cb) = LookUp2(cb)
  /\ \A k : E!BytesAt(k) = BytesAt(k)
  /\ pc # "lengths" => \A i : E!TokenBits(i) = TokenBits(i)
<1>1. \A cb : E!LookUp1(cb) = LookUp1(cb) /\ E!LookUp2(cb) = LookUp2(cb)
  <2>1. E!NoSymbol = NoSymbol
    BY DEF E!NoSymbol, NoSymbol
  <2> QED
    BY <2>1, SameCodebuf DEF E!LookUp1, LookUp1, E!LookUp2, LookUp2
<1>2. \A k : E!BytesAt(k) = BytesAt(k)
  BY Zenon DEF E!BytesAt, BytesAt, E!ByteBehind, ByteBehind
<1>3. ASSUME pc # "lengths", NEW i PROVE E!TokenBits(i) = TokenBits(i)
  BY <1>3, SameCodebuf, SameDistances DEF E!TokenBits, TokenBits
<1> QED
  BY <1>1, <1>2, <1>3

(* Once coding has begun, the mapping is the identity. *)
LEMMA SameVars ==
  ASSUME pc # "lengths", pc' # "lengths"
  PROVE  /\ UNCHANGED E!inputVars <=> UNCHANGED inputVars
         /\ UNCHANGED E!vars <=> UNCHANGED vars
         /\ UNCHANGED E!encVars <=> UNCHANGED encVars
         /\ UNCHANGED E!decVars <=> UNCHANGED decVars
BY DEF E!inputVars, inputVars, E!vars, vars, E!encVars, encVars, E!decVars, decVars

(* So each step of coding is one of EntropyStream. *)
LEMMA SamePackTables == ASSUME pc # "lengths", PackTables PROVE E!PackTables
<1>1. pc' # "lengths"
  BY DEF PackTables
<1> QED
  BY <1>1, SameVars, SameEncodeTable, SamePack DEF E!PackTables, PackTables

LEMMA SamePutToken == ASSUME pc # "lengths", PutToken PROVE E!PutToken
<1>1. pc' # "lengths"
  BY DEF PutToken
<1> QED
  BY <1>1, SameVars, SameLookUps, SameCodebuf DEF E!PutToken, PutToken

LEMMA SameDrain == ASSUME pc # "lengths", Drain PROVE E!Drain
<1>1. pc' # "lengths"
  BY DEF Drain
<1> QED
  BY <1>1, SameVars, SameCodebuf DEF E!Drain, Drain

LEMMA SameFlush == ASSUME pc # "lengths", Flush PROVE E!Flush
<1>1. pc' # "lengths"
  BY DEF Flush
<1> QED
  BY <1>1, SameVars, SameCodebuf DEF E!Flush, Flush

LEMMA SameEndPut == ASSUME pc # "lengths", EndPut PROVE E!EndPut
<1>1. pc' # "lengths"
  BY DEF EndPut
<1> QED
  BY <1>1, SameVars DEF E!EndPut, EndPut

LEMMA SameUnpackTables == ASSUME pc # "lengths", UnpackTables PROVE E!UnpackTables
<1>1. pc' # "lengths"
  BY DEF UnpackTables
<1> QED
  BY <1>1, SameVars, SameDecoderTables, SamePack DEF E!UnpackTables, UnpackTables

LEMMA SameFetch == ASSUME pc # "lengths", Fetch PROVE E!Fetch
<1>1. pc' # "lengths"
  BY DEF Fetch
<1> QED
  BY <1>1, SameVars, SameLookUps, SameCodebuf DEF E!Fetch, Fetch

LEMMA SameGetLiteral == ASSUME pc # "lengths", GetLiteral PROVE E!GetLiteral
<1>1. pc' # "lengths"
  BY DEF GetLiteral
<1> QED
  BY <1>1, SameVars, SameLookUps, SameCodebuf DEF E!GetLiteral, GetLiteral

LEMMA SameGetMatch == ASSUME pc # "lengths", GetMatch PROVE E!GetMatch
<1>1. pc' # "lengths"
  BY DEF GetMatch
<1> QED
  BY <1>1, SameVars, SameLookUps, SameCodebuf, SameDistances DEF E!GetMatch, GetMatch

LEMMA SameEndGet == ASSUME pc # "lengths", EndGet PROVE E!EndGet
<1>1. pc' # "lengths"
  BY DEF EndGet
<1> QED
  BY <1>1, SameVars DEF E!EndGet, EndGet
LEMMA SameAdmissible ==
  ASSUME NEW f, NEW l, NEW m
  PROVE  E!Admissible(f, l, m) <=> Admissible(f, l, m)
<1>1. E!KraftSum(l, m) = KraftSum(l, m)
  BY SameCount, Zenon DEF E!KraftSum, KraftSum, E!OfLength, OfLength
<1> QED
  BY <1>1 DEF E!Admissible, Admissible

(* The first call is made of the first frequencies, and leaves admissible     *)
(* lengths to the second; coding begins when both have returned.             *)
ChunkInv ==
  /\ tbuf \in TokenBuffers /\ call \in {1, 2}
  /\ IF pc # "lengths" THEN call = 2 /\ hpc = "done"
     ELSE IF call = 1 THEN P1!HInv /\ freq = Freq1(tbuf) /\ length2 = [c \in Code2 |-> 0]
     ELSE /\ P2!HInv /\ freq = Freq2(tbuf)
          /\ length1 \in [Code1 -> 0 .. MaxLen1] /\ Admissible(Freq1(tbuf), length1, MaxLen1)

(* The codes that occur can be counted. *)
LEMMA FreqTypes ==
  ASSUME NEW t \in TokenBuffers
  PROVE  Freq1(t) \in [Code1 -> Nat] /\ Freq2(t) \in [Code2 -> Nat]
<1>1. t \in Seq(Nat) /\ Heads(t) \subseteq 1 .. Len(t) /\ Len(t) \in Nat
  BY TokensAssumption, HeadSteps
<1>2. IsFiniteSet(Heads(t))
  <2>1. IsFiniteSet(1 .. Len(t))
    BY <1>1, FS_Interval
  <2> QED
    BY <1>1, <2>1, FS_Subset
<1>3. Matches(t) \subseteq Heads(t)
  BY DEF Matches
<1>4. ASSUME NEW S, S \subseteq Heads(t) PROVE Cardinality(S) \in Nat
  BY <1>2, <1>4, FS_Subset, FS_CardinalityType
<1>5. \A s \in Code1 : Cardinality({i \in Heads(t) : t[i] = s}) \in Nat
  <2> TAKE s \in Code1
  <2>1. {i \in Heads(t) : t[i] = s} \subseteq Heads(t)
    OBVIOUS
  <2> QED
    BY <1>4, <2>1
<1>6. \A c \in Code2 : Cardinality({i \in Matches(t) : CodeOfDistance(t[i + 1]) = c}) \in Nat
  <2> TAKE c \in Code2
  <2>1. {i \in Matches(t) : CodeOfDistance(t[i + 1]) = c} \subseteq Heads(t)
    BY <1>3
  <2> QED
    BY <1>4, <2>1
<1> QED
  BY <1>5, <1>6 DEF Freq1, Freq2

(* The first call begins with all lengths zero. *)
LEMMA ChunkInvInit == ASSUME ChunkInit PROVE ChunkInv
<1>1. pc = "lengths" /\ call = 1 /\ hpc = "leaves" /\ freq = Freq1(tbuf) /\ tbuf \in TokenBuffers
      /\ length1 = [s \in Code1 |-> 0] /\ length2 = [c \in Code2 |-> 0]
  BY DEF ChunkInit, Init
<1>2. freq \in [Code1 -> Nat]
  BY <1>1, FreqTypes
<1>3. P1!HInv
  BY <1>1, <1>2 DEF P1!HInv, P1!Symbol, Code1, P1!LengthsAdmissible
<1> QED
  BY <1>1, <1>3 DEF ChunkInv

(* The first call keeps to what is proved of it, *)
LEMMA FirstCallKeeps == ASSUME ChunkInv, FirstCall PROVE ChunkInv' /\ pc = "lengths" /\ pc' = "lengths"
<1>1. call = 1 /\ UNCHANGED <<tbuf, length2, stale, encVars, decVars, pc, call>>
  BY DEF FirstCall
<1>2. pc = "lengths" /\ P1!HInv /\ freq = Freq1(tbuf) /\ length2 = [c \in Code2 |-> 0] /\ tbuf \in TokenBuffers
  BY <1>1 DEF ChunkInv
<1>3. P1!MakeLeaves \/ P1!JoinTwo \/ P1!ExtractLengths
  BY SameLeaves1, SameJoin1, SameExtract1 DEF FirstCall
<1>4. P1!HInv'
  BY <1>2, <1>3, CallAssumption1, P1!HLeaves, P1!HJoin, P1!HExtract
<1>5. freq' = freq
  BY <1>3 DEF P1!MakeLeaves, P1!JoinTwo, P1!ExtractLengths
<1> QED
  BY <1>1, <1>2, <1>4, <1>5 DEF ChunkInv

(* when it has returned its lengths are admissible, *)
LEMMA BeginSecondKeeps == ASSUME ChunkInv, BeginSecond PROVE ChunkInv' /\ pc = "lengths" /\ UNCHANGED vars
<1>1. call = 1 /\ hpc = "done" /\ UNCHANGED vars /\ call' = 2 /\ freq' = Freq2(tbuf)
      /\ hpc' = "leaves"
  BY DEF BeginSecond, Counted2
<1>2. pc = "lengths" /\ P1!HInv /\ freq = Freq1(tbuf) /\ length2 = [c \in Code2 |-> 0] /\ tbuf \in TokenBuffers
  BY <1>1 DEF ChunkInv
<1>3. UNCHANGED <<tbuf, length1, length2, pc>>
  BY <1>1 DEF vars, inputVars
<1>4. length1 \in [Code1 -> Nat] /\ Admissible(freq, length1, MaxLen1)
  BY <1>1, <1>2, SameAdmissible1 DEF P1!HInv, P1!LengthsAdmissible, P1!Symbol, Code1
<1>5. freq \in [Code1 -> Nat] /\ freq' \in [Code2 -> Nat]
  BY <1>1, <1>2, FreqTypes
<1>6. length1 \in [Code1 -> 0 .. MaxLen1]
  BY <1>4, <1>5 DEF Admissible
<1>7. P2!HInv'
  BY <1>1, <1>2, <1>3, <1>5 DEF P2!HInv, P2!Symbol, Code2, P2!LengthsAdmissible
<1> QED
  BY <1>1, <1>2, <1>3, <1>4, <1>6, <1>7 DEF ChunkInv

(* and so it is with the second. *)
LEMMA SecondCallKeeps == ASSUME ChunkInv, SecondCall PROVE ChunkInv' /\ pc = "lengths" /\ pc' = "lengths"
<1>1. call = 2 /\ UNCHANGED <<tbuf, length1, stale, encVars, decVars, pc, call>>
  BY DEF SecondCall
<1>2. P2!MakeLeaves \/ P2!JoinTwo \/ P2!ExtractLengths
  BY SameLeaves2, SameJoin2, SameExtract2 DEF SecondCall
<1>3. hpc # "done" /\ freq' = freq
  BY <1>2 DEF P2!MakeLeaves, P2!JoinTwo, P2!ExtractLengths
<1>4. /\ pc = "lengths" /\ P2!HInv /\ freq = Freq2(tbuf) /\ tbuf \in TokenBuffers
      /\ length1 \in [Code1 -> 0 .. MaxLen1] /\ Admissible(Freq1(tbuf), length1, MaxLen1)
  BY <1>1, <1>3 DEF ChunkInv
<1>5. P2!HInv'
  BY <1>2, <1>4, CallAssumption2, P2!HLeaves, P2!HJoin, P2!HExtract
<1> QED
  BY <1>1, <1>3, <1>4, <1>5 DEF ChunkInv

(* When both calls have returned, the lengths are some that MakeLengths may choose. *)
LEMMA LengthsMadeKeeps ==
  ASSUME ChunkInv, LengthsMade
  PROVE  /\ ChunkInv'
         /\ pc = "lengths" /\ pc' = "pack"
         /\ length1' \in {l \in [Code1 -> 0 .. MaxLen1] : Admissible(Freq1(tbuf), l, MaxLen1)}
         /\ length2' \in {l \in [Code2 -> 0 .. MaxLen2] : Admissible(Freq2(tbuf), l, MaxLen2)}
<1>1. /\ pc = "lengths" /\ call = 2 /\ hpc = "done" /\ pc' = "pack"
      /\ UNCHANGED <<tbuf, length1, length2, call, hpc>>
  BY DEF LengthsMade, inputVars, callVars
<1>2. /\ P2!HInv /\ freq = Freq2(tbuf) /\ tbuf \in TokenBuffers
      /\ length1 \in [Code1 -> 0 .. MaxLen1] /\ Admissible(Freq1(tbuf), length1, MaxLen1)
  BY <1>1 DEF ChunkInv
<1>3. length2 \in [Code2 -> Nat] /\ Admissible(freq, length2, MaxLen2)
  BY <1>1, <1>2, SameAdmissible2 DEF P2!HInv, P2!LengthsAdmissible, P2!Symbol, Code2
<1>4. freq \in [Code2 -> Nat]
  BY <1>2, FreqTypes
<1>5. length2 \in [Code2 -> 0 .. MaxLen2]
  BY <1>3, <1>4 DEF Admissible
<1> QED
  BY <1>1, <1>2, <1>3, <1>5 DEF ChunkInv

(* Coding leaves the two calls alone. *)
LEMMA CodeKeeps ==
  ASSUME ChunkInv, Code
  PROVE  ChunkInv' /\ pc # "lengths" /\ pc' # "lengths"
<1> USE DEF inputVars
<1>1. pc # "lengths" /\ UNCHANGED <<call, callVars>> /\ ~MakeLengths
  BY DEF Code, MakeLengths
<1>2. tbuf' = tbuf /\ pc' # "lengths"
  BY <1>1
  DEF Code, Next, Encode, Decode, Terminating, PackTables, PutToken, Drain, Flush,
      EndPut,
     UnpackTables, Fetch, GetLiteral, GetMatch, EndGet, vars
<1> QED
  BY <1>1, <1>2 DEF ChunkInv, callVars
(* While lengths are made, EntropyStream stands still. *)
LEMMA StepImplements ==
  ASSUME ChunkInv, [ChunkNext]_chunkVars
  PROVE  ChunkInv' /\ [E!Next]_(E!vars)
<1>1. CASE FirstCall
  <2>1. UNCHANGED <<tbuf, length2, stale, encVars, decVars, pc>>
    BY <1>1 DEF FirstCall
  <2> QED
    BY <1>1, <2>1, FirstCallKeeps
    DEF E!vars, E!inputVars, E!encVars, E!decVars, encVars, decVars
<1>2. CASE BeginSecond
  BY <1>2, BeginSecondKeeps
  DEF E!vars, E!inputVars, E!encVars, E!decVars, vars, inputVars, encVars, decVars
<1>3. CASE SecondCall
  <2>1. UNCHANGED <<tbuf, length1, stale, encVars, decVars, pc>>
    BY <1>3 DEF SecondCall
  <2> QED
    BY <1>3, <2>1, SecondCallKeeps
    DEF E!vars, E!inputVars, E!encVars, E!decVars, encVars, decVars
<1>4. CASE LengthsMade
  <2>1. UNCHANGED <<tbuf, stale, encVars, decVars>>
    BY <1>4 DEF LengthsMade, inputVars
  <2>2. UNCHANGED E!encVars /\ UNCHANGED E!decVars
    BY <2>1 DEF E!encVars, E!decVars, encVars, decVars
  <2>4. E!MakeLengths
    BY <1>4, <2>1, <2>2, LengthsMadeKeeps, SameTokens, SameAdmissible
    DEF E!MakeLengths, E!Code1, E!Code2, Code1, Code2
  <2> QED
    BY <1>4, <2>4, LengthsMadeKeeps DEF E!Next, E!Encode
<1>5. CASE Code
  <2>1. ChunkInv' /\ pc # "lengths" /\ pc' # "lengths" /\ Next /\ ~MakeLengths
    BY <1>5, CodeKeeps DEF Code, MakeLengths
  <2>2. CASE Encode
    BY <2>1, <2>2, SamePackTables, SamePutToken, SameDrain, SameFlush, SameEndPut
    DEF Encode, E!Next, E!Encode
  <2>3. CASE Decode
    BY <2>1, <2>3, SameUnpackTables, SameFetch, SameGetLiteral, SameGetMatch, SameEndGet
    DEF Decode, E!Next, E!Decode
  <2>4. CASE Terminating
    BY <2>1, <2>4, SameVars DEF Terminating
  <2> QED
    BY <2>1, <2>2, <2>3, <2>4 DEF Next
<1>6. CASE UNCHANGED chunkVars
  <2>1. UNCHANGED vars /\ UNCHANGED <<call, freq, scaling, nodes, hpc>>
    BY <1>6 DEF chunkVars, callVars
  <2>2. UNCHANGED E!vars
    BY <2>1
    DEF E!vars, E!inputVars, E!encVars, E!decVars, vars, inputVars, encVars, decVars
  <2>3. P1!HInv' <=> P1!HInv
    BY <2>1 DEF P1!HInv, P1!Forest, P1!Occurring, P1!LengthsAdmissible, vars, inputVars
  <2>4. P2!HInv' <=> P2!HInv
    BY <2>1 DEF P2!HInv, P2!Forest, P2!Occurring, P2!LengthsAdmissible, vars, inputVars
  <2> QED
    BY <2>1, <2>2, <2>3, <2>4 DEF ChunkInv, vars, inputVars
<1> QED
  BY <1>1, <1>2, <1>3, <1>4, <1>5, <1>6 DEF ChunkNext

(* Where a chunk begins, EntropyStream may begin. *)
LEMMA InitImplements == ASSUME ChunkInit PROVE E!Init
<1>1. Init
  BY DEF ChunkInit
<1> QED
  BY <1>1, SameCodebuf, SameDecoderTables
  DEF Init, E!Init, E!NoTables, NoTables, E!Code1, Code1, E!Code2, Code2

(***************************************************************************)
(* Counting the codes and calling ZlingMakeLengthTable for each table      *)
(* implements the choice of admissible lengths, for codes of any size and  *)
(* any tokens; so what EntropyStream shows of any such lengths holds of    *)
(* those that Encode computes.                                             *)
(***************************************************************************)
THEOREM ImplementsEntropyStream == ChunkSpec => IsEntropyStream
<1>1. ChunkInit => ChunkInv /\ E!Init
  BY ChunkInvInit, InitImplements
<1>2. ChunkInv /\ [ChunkNext]_chunkVars => ChunkInv' /\ [E!Next]_(E!vars)
  BY StepImplements
<1> QED
  BY <1>1, <1>2, PTL DEF ChunkSpec, IsEntropyStream

(* Making the lengths changes nothing that the invariant of the coding says.  *)
LEMMA ChunkKeepsCoding ==
  ASSUME ChunkInv, IInv, [ChunkNext]_chunkVars
  PROVE  IInv'
<1>1. CASE FirstCall \/ SecondCall
  <2>1. pc = "lengths" /\ UNCHANGED <<tbuf, stale, encVars, decVars, pc>>
    BY <1>1, FirstCallKeeps, SecondCallKeeps DEF FirstCall, SecondCall
  <2> USE <2>1 DEF IInv, encVars, decVars
  <2>2. ITypes'
    BY DEF ITypes
  <2>3. ITables'
    BY DEF ITables
  <2>4. IEncode'
    BY DEF IEncode
  <2>5. IDecode'
    BY DEF IDecode
  <2> QED
    BY <2>2, <2>3, <2>4, <2>5
<1>2. CASE LengthsMade
  <2>1. MakeLengths
    BY <1>2, LengthsMadeKeeps DEF MakeLengths, LengthsMade, inputVars
  <2> QED
    BY <2>1, MakeLengthsInv
<1>3. CASE BeginSecond \/ Code \/ UNCHANGED chunkVars
  <2>1. [Next]_vars
    BY <1>3 DEF BeginSecond, Code, chunkVars
  <2> QED
    BY <2>1, StepInv
<1> QED
  BY <1>1, <1>2, <1>3 DEF ChunkNext

(***************************************************************************)
(* From its frequencies to its bytes and back: the tokens of a chunk come  *)
(* back, no bit is lost in a codebuf, and few bytes are fetched beyond the *)
(* end.                                                                    *)
(***************************************************************************)
THEOREM ChunksComeBack == ChunkSpec => [](StreamRoundTrip /\ CodebufFits /\ FetchBounded)
<1>1. ChunkInit => ChunkInv /\ IInv
  BY ChunkInvInit, InitInv DEF ChunkInit
<1>2. ChunkInv /\ IInv /\ [ChunkNext]_chunkVars => ChunkInv' /\ IInv'
  BY StepImplements, ChunkKeepsCoding
<1>3. IInv => StreamRoundTrip /\ CodebufFits /\ FetchBounded
  BY RoundTripInvariant, FitsInvariant, FetchInvariant
<1> QED
  BY <1>1, <1>2, <1>3, PTL DEF ChunkSpec
-----------------------------------------------------------------------------
(***************************************************************************)
(* How many bits the tokens take.                                          *)
(***************************************************************************)
(* The bits that symbols take with codes of lengths l if each occurs as      *)
(* often as f says.                                                          *)
Total(f, l) == SumFunction([s \in DOMAIN f |-> f[s] * l[s]])

(* What a token of t takes for its first code, and a match behind it.        *)
FirstBits(t, l1) == [k \in Heads(t) |-> l1[t[k]]]
DistanceBits(t, l2) == [k \in Matches(t) |-> l2[CodeOfDistance(t[k + 1])]]
ExtraBits(t) == [k \in Matches(t) |-> matchidx_blen[CodeOfDistance(t[k + 1])]]

LEMMA TokensFinite ==
  ASSUME NEW t \in TokenBuffers
  PROVE  /\ t \in Seq(Nat) /\ Len(t) \in Nat
         /\ Heads(t) \subseteq 1 .. Len(t) /\ IsFiniteSet(Heads(t)) /\ Cardinality(Heads(t)) \in Nat
         /\ Matches(t) \subseteq Heads(t) /\ IsFiniteSet(Matches(t)) /\ Cardinality(Matches(t)) \in Nat
         /\ \A k \in Heads(t) : t[k] \in Code1
         /\ \A k \in Matches(t) : CodeOfDistance(t[k + 1]) \in Code2
<1>1. t \in Seq(Nat) /\ Heads(t) \subseteq 1 .. Len(t) /\ Len(t) \in Nat
  BY TokensAssumption, HeadSteps
<1>2. IsFiniteSet(Heads(t))
  <2>1. IsFiniteSet(1 .. Len(t))
    BY <1>1, FS_Interval
  <2> QED
    BY <1>1, <2>1, FS_Subset
<1>3. Matches(t) \subseteq Heads(t)
  BY DEF Matches
<1>4. IsFiniteSet(Matches(t))
  BY <1>2, <1>3, FS_Subset
<1>5. \A k \in Heads(t) : t[k] \in Code1
  BY TokensAssumption
<1>6. ASSUME NEW k \in Matches(t) PROVE CodeOfDistance(t[k + 1]) \in Code2
  <2>1. t[k + 1] \in 0 .. BucketItemSize - 1
    BY TokensAssumption
  <2> QED
    BY <2>1, DistanceHasCode
<1> QED
  BY <1>1, <1>2, <1>3, <1>4, <1>5, <1>6, FS_CardinalityType

(* The frequencies count the heads of tokens and the matches among them, and *)
(* the bits of codes are those counted, each as often as it is there.        *)
LEMMA CountedByCode ==
  ASSUME NEW t, NEW l1, NEW l2, Coded(t, l1, l2)
  PROVE  /\ SumFunction(Freq1(t)) = Cardinality(Heads(t))
         /\ SumFunction(Freq2(t)) = Cardinality(Matches(t))
         /\ SumFunctionOnSet(FirstBits(t, l1), Heads(t)) = Total(Freq1(t), l1)
         /\ SumFunctionOnSet(DistanceBits(t, l2), Matches(t)) = Total(Freq2(t), l2)
<1> DEFINE H == Heads(t)
           M == Matches(t)
           f1 == Freq1(t)
           f2 == Freq2(t)
           a == [k \in H |-> t[k]]
           b == [k \in M |-> CodeOfDistance(t[k + 1])]
           g1 == FirstBits(t, l1)
           g2 == DistanceBits(t, l2)
           e1 == [s \in Code1 |-> f1[s] * l1[s]]
           e2 == [c \in Code2 |-> f2[c] * l2[c]]
           ones == [k \in H |-> 1]
           one == [s \in Code1 \cup Code2 |-> 1]
<1>1. /\ t \in TokenBuffers
      /\ l1 \in [Code1 -> 0 .. MaxLen1] /\ l2 \in [Code2 -> 0 .. MaxLen2]
  BY DEF Coded
<1>2. /\ IsFiniteSet(H) /\ IsFiniteSet(M) /\ M \subseteq H
      /\ \A k \in H : a[k] \in Code1 /\ a[k] = t[k]
      /\ \A k \in M : b[k] \in Code2 /\ b[k] = CodeOfDistance(t[k + 1])
  BY <1>1, TokensFinite
<1>3. IsFiniteSet(Code1) /\ IsFiniteSet(Code2)
  BY Sizes, FS_Interval DEF Code1, Code2
<1>4. /\ \A s \in Code1 : l1[s] \in Nat /\ one[s] \in Nat /\ one[s] = 1
      /\ \A c \in Code2 : l2[c] \in Nat /\ one[c] \in Nat /\ one[c] = 1
  BY <1>1, Sizes
<1>5. /\ \A s \in Code1 : f1[s] = Cardinality(Members(H, a, s))
      /\ \A c \in Code2 : f2[c] = Cardinality(Members(M, b, c))
      /\ DOMAIN f1 = Code1 /\ DOMAIN f2 = Code2
  <2>1. \A s : Members(H, a, s) = {k \in Heads(t) : t[k] = s}
    BY <1>2 DEF Members
  <2>2. \A c : Members(M, b, c) = {k \in Matches(t) : CodeOfDistance(t[k + 1]) = c}
    BY <1>2 DEF Members
  <2> HIDE DEF a, b, H, M
  <2> QED
    BY <2>1, <2>2 DEF Freq1, Freq2
<1>6. /\ \A k \in H : g1[k] = l1[a[k]] /\ ones[k] = one[a[k]] /\ ones[k] = 1
      /\ \A k \in M : g2[k] = l2[b[k]] /\ ones[k] = one[b[k]] /\ ones[k] = 1
  <2>1. (\A k \in H : g1[k] = l1[a[k]]) /\ \A k \in M : g2[k] = l2[b[k]]
    BY DEF FirstBits, DistanceBits
  <2>2. /\ \A k \in H : ones[k] = 1 /\ one[a[k]] = 1
        /\ \A k \in M : ones[k] = 1 /\ one[b[k]] = 1
    <3> HIDE DEF a, b, H, M
    <3> QED
      BY <1>2
  <2> HIDE DEF a, b, H, M, g1, g2, one, ones
  <2> QED
    BY <2>1, <2>2
<1>7. /\ \A s \in Code1 : e1[s] = f1[s] * l1[s]
      /\ \A c \in Code2 : e2[c] = f2[c] * l2[c]
  OBVIOUS
<1>8. Total(f1, l1) = SumFunctionOnSet(e1, Code1) /\ Total(f2, l2) = SumFunctionOnSet(e2, Code2)
  BY <1>5 DEF Total, SumFunction
<1> HIDE DEF a, b, H, M, f1, f2, g1, g2, e1, e2, one, ones
<1>9. SumFunctionOnSet(g1, H) = SumFunctionOnSet(e1, Code1) /\ \A s \in Code1 : f1[s] \in Nat
  <2>1. /\ IsFiniteSet(H) /\ IsFiniteSet(Code1) /\ \A k \in H : a[k] \in Code1
        /\ \A s \in Code1 : l1[s] \in Nat
        /\ \A s \in Code1 : f1[s] = Cardinality(Members(H, a, s))
        /\ \A k \in H : g1[k] = l1[a[k]]
        /\ \A s \in Code1 : e1[s] = f1[s] * l1[s]
    BY <1>2, <1>3, <1>4, <1>5, <1>6, <1>7
  <2> QED
    BY <2>1, SumByClass
<1>10. SumFunctionOnSet(g2, M) = SumFunctionOnSet(e2, Code2) /\ \A c \in Code2 : f2[c] \in Nat
  <2>1. /\ IsFiniteSet(M) /\ IsFiniteSet(Code2) /\ \A k \in M : b[k] \in Code2
        /\ \A c \in Code2 : l2[c] \in Nat
        /\ \A c \in Code2 : f2[c] = Cardinality(Members(M, b, c))
        /\ \A k \in M : g2[k] = l2[b[k]]
        /\ \A c \in Code2 : e2[c] = f2[c] * l2[c]
    BY <1>2, <1>3, <1>4, <1>5, <1>6, <1>7
  <2> QED
    BY <2>1, SumByClass
<1>11. (\A s \in Code1 : f1[s] = f1[s] * one[s]) /\ \A c \in Code2 : f2[c] = f2[c] * one[c]
  BY <1>4, <1>9, <1>10
<1>12. SumFunctionOnSet(ones, H) = SumFunctionOnSet(f1, Code1)
  <2>1. /\ IsFiniteSet(H) /\ IsFiniteSet(Code1) /\ \A k \in H : a[k] \in Code1
        /\ \A s \in Code1 : one[s] \in Nat
        /\ \A s \in Code1 : f1[s] = Cardinality(Members(H, a, s))
        /\ \A k \in H : ones[k] = one[a[k]]
        /\ \A s \in Code1 : f1[s] = f1[s] * one[s]
    BY <1>2, <1>3, <1>4, <1>5, <1>6, <1>11
  <2> QED
    BY <2>1, SumByClass
<1>13. SumFunctionOnSet(ones, M) = SumFunctionOnSet(f2, Code2)
  <2>1. /\ IsFiniteSet(M) /\ IsFiniteSet(Code2) /\ \A k \in M : b[k] \in Code2
        /\ \A c \in Code2 : one[c] \in Nat
        /\ \A c \in Code2 : f2[c] = Cardinality(Members(M, b, c))
        /\ \A k \in M : ones[k] = one[b[k]]
        /\ \A c \in Code2 : f2[c] = f2[c] * one[c]
    BY <1>2, <1>3, <1>4, <1>5, <1>6, <1>11
  <2> QED
    BY <2>1, SumByClass
<1>14. SumFunctionOnSet(ones, H) = Cardinality(H) /\ SumFunctionOnSet(ones, M) = Cardinality(M)
  BY <1>2, <1>6, SumOnes
<1>15. SumFunction(f1) = Cardinality(H) /\ SumFunction(f2) = Cardinality(M)
  BY <1>5, <1>12, <1>13, <1>14 DEF SumFunction
<1> QED
  BY <1>8, <1>9, <1>10, <1>15 DEF H, M, f1, f2, g1, g2

(* Pos adds up what the tokens take. *)
LEMMA PosIsSum ==
  ASSUME NEW t, NEW l1, NEW l2, Coded(t, l1, l2)
  PROVE  Pos(t, l1, l2)[Len(t)]
           = SumFunctionOnSet([k \in Heads(t) |-> TokenLen(t, l1, l2, k)], Heads(t))
<1> DEFINE H == Heads(t)
           n == Len(t)
           P == Pos(t, l1, l2)
           g == [k \in H |-> TokenLen(t, l1, l2, k)]
           Upto(i) == H \cap (1 .. i)
           S == {i \in 0 .. n : P[i] = SumFunctionOnSet(g, Upto(i))}
<1>1. H \subseteq 1 .. n /\ n \in Nat /\ IsFiniteSet(H)
  BY TokensFinite DEF Coded
<1>2. \A k \in H : g[k] = TokenLen(t, l1, l2, k) /\ g[k] \in Nat
  <2> SUFFICES ASSUME NEW k \in H PROVE TokenLen(t, l1, l2, k) \in Nat
    OBVIOUS
  <2>1. TokenLen(t, l1, l2, k) \in 1 .. RefillBits
    BY TokenFacts
  <2> QED
    BY <2>1, Sizes
<1>3. /\ P \in [0 .. n -> Nat] /\ P[0] = 0
      /\ \A i \in 1 .. n : P[i] = P[i - 1] + (IF i \in H THEN TokenLen(t, l1, l2, i) ELSE 0)
  BY PosSteps
<1> HIDE DEF g, P, n, H
<1>4. /\ SumFunctionOnSet(g, {}) = 0
      /\ \A U \in SUBSET H : SumFunctionOnSet(g, U) \in Nat
      /\ \A U \in SUBSET H : \A x \in H \ U :
           SumFunctionOnSet(g, U \cup {x}) = g[x] + SumFunctionOnSet(g, U)
  BY <1>1, <1>2, SumSteps
<1>5. 0 \in S
  <2>1. Upto(0) = {} /\ 0 \in 0 .. n
    <3>1. 1 .. 0 = {}
      OBVIOUS
    <3> QED
      BY <1>1, <3>1
  <2> QED
    BY <1>3, <1>4, <2>1
<1>6. ASSUME NEW i \in 1 .. n, i - 1 \in S PROVE i \in S
  <2>1. P[i - 1] = SumFunctionOnSet(g, Upto(i - 1)) /\ i \in 0 .. n
    BY <1>1, <1>6
  <2>2. Upto(i - 1) \in SUBSET H /\ i \notin Upto(i - 1)
    BY <1>1
  <2>3. CASE i \in H
    <3>1. Upto(i) = Upto(i - 1) \cup {i}
      <4>1. 1 .. i = (1 .. i - 1) \cup {i}
        BY <1>1
      <4> QED
        BY <2>3, <4>1
    <3>2. SumFunctionOnSet(g, Upto(i)) = g[i] + SumFunctionOnSet(g, Upto(i - 1))
      <4> HIDE DEF Upto
      <4> QED
        BY <1>4, <2>2, <2>3, <3>1
    <3>3. P[i] = P[i - 1] + g[i] /\ g[i] \in Nat /\ P[i - 1] \in Nat
      <4>1. SumFunctionOnSet(g, Upto(i - 1)) \in Nat
        <5> HIDE DEF Upto
        <5> QED
          BY <1>4, <2>2
      <4> QED
        BY <1>2, <1>3, <2>1, <2>3, <4>1
    <3> HIDE DEF Upto
    <3>4. P[i] = SumFunctionOnSet(g, Upto(i))
      BY <2>1, <3>2, <3>3
    <3> QED
      BY <2>1, <3>4 DEF Upto
  <2>4. CASE i \notin H
    <3>1. Upto(i) = Upto(i - 1)
      <4>1. 1 .. i = (1 .. i - 1) \cup {i}
        BY <1>1
      <4> QED
        BY <2>4, <4>1
    <3>2. P[i] = P[i - 1]
      <4>1. i - 1 \in 0 .. n
        BY <1>1
      <4>2. P[i - 1] \in Nat
        BY <1>3, <4>1
      <4> QED
        BY <1>3, <2>4, <4>2
    <3> QED
      BY <2>1, <3>1, <3>2
  <2> QED
    BY <2>3, <2>4
<1> HIDE DEF S
<1>7. n \in S
  BY <1>1, <1>5, <1>6, UpTo
<1>8. Upto(n) = H
  BY <1>1
<1> HIDE DEF Upto
<1>9. P[n] = SumFunctionOnSet(g, H)
  BY <1>7, <1>8 DEF S
<1> QED
  BY <1>9 DEF P, n, g, H

(* The extra bits behind the code of a distance are at most MaxBlen. *)
LEMMA MostExtraBits ==
  /\ MaxBlen \in Nat
  /\ \A c \in Code2 : matchidx_blen[c] \in Nat /\ matchidx_blen[c] <= MaxBlen
<1> DEFINE S == {matchidx_blen[c] : c \in Code2}
           Most(U) == U = {} \/ \E c \in U : \A d \in U : matchidx_blen[d] <= matchidx_blen[c]
           P == {U \in SUBSET Code2 : Most(U)}
<1>1. IsFiniteSet(Code2) /\ 0 \in Code2 /\ \A c \in Code2 : matchidx_blen[c] \in Nat
  <2>1. IsFiniteSet(Code2)
    BY Sizes, FS_Interval DEF Code2
  <2> QED
    BY <2>1, Sizes
<1>2. {} \in P
  OBVIOUS
<1>3. ASSUME NEW U \in P, NEW x \in Code2 \ U PROVE U \cup {x} \in P
  <2>1. U \in SUBSET Code2 /\ Most(U)
    OBVIOUS
  <2>2. Most(U \cup {x})
    <3>1. CASE U = {}
      BY <1>1, <3>1
    <3>2. CASE U # {}
      <4>1. PICK c \in U : \A d \in U : matchidx_blen[d] <= matchidx_blen[c]
        BY <2>1, <3>2
      <4>2. CASE matchidx_blen[x] <= matchidx_blen[c]
        BY <4>1, <4>2
      <4>3. CASE ~(matchidx_blen[x] <= matchidx_blen[c])
        <5>1. \A d \in U \cup {x} : matchidx_blen[d] <= matchidx_blen[x]
          BY <1>1, <2>1, <4>1, <4>3
        <5> QED
          BY <5>1
      <4> QED
        BY <4>2, <4>3
    <3> QED
      BY <3>1, <3>2
  <2> QED
    BY <2>1, <2>2
<1> HIDE DEF P
<1>4. Code2 \in P
  BY <1>1, <1>2, <1>3, EverySubset
<1>5. PICK c \in Code2 : \A d \in Code2 : matchidx_blen[d] <= matchidx_blen[c]
  BY <1>1, <1>4 DEF P
<1>6. \E x \in S : \A y \in S : x >= y
  <2>1. matchidx_blen[c] \in S /\ \A y \in S : matchidx_blen[c] >= y
    BY <1>1, <1>5
  <2> QED
    BY <2>1
<1>7. Max(S) \in S /\ \A y \in S : Max(S) >= y
  <2> HIDE DEF S
  <2> QED
    BY <1>6 DEF Max
<1>8. MaxBlen = Max(S)
  BY DEF MaxBlen
<1> HIDE DEF S
<1>9. MaxBlen \in S /\ \A y \in S : MaxBlen >= y
  BY <1>7, <1>8
<1> QED
  BY <1>1, <1>9 DEF S

(* The tokens take the bits of their codes, and of matches at most as many   *)
(* extra bits as any.                                                        *)
LEMMA TokensTake ==
  ASSUME NEW t, NEW l1, NEW l2, Coded(t, l1, l2)
  PROVE  /\ Total(Freq1(t), l1) \in Nat /\ Total(Freq2(t), l2) \in Nat
         /\ Pos(t, l1, l2)[Len(t)]
              <= Total(Freq1(t), l1) + Total(Freq2(t), l2) + Cardinality(Matches(t)) * MaxBlen
<1> DEFINE H == Heads(t)
           M == Matches(t)
           a == FirstBits(t, l1)
           b == DistanceBits(t, l2)
           x == ExtraBits(t)
           g == [k \in H |-> TokenLen(t, l1, l2, k)]
           r == [k \in H |-> IF k \in M THEN b[k] + x[k] ELSE 0]
           most == [k \in M |-> MaxBlen]
<1>1. t \in TokenBuffers
  BY DEF Coded
<1>2. /\ IsFiniteSet(H) /\ IsFiniteSet(M) /\ IsFiniteSet(H \ M) /\ M \subseteq H
      /\ M \cap (H \ M) = {} /\ M \cup (H \ M) = H
      /\ Cardinality(M) \in Nat /\ Cardinality(H \ M) \in Nat
  <2>1. IsFiniteSet(H) /\ IsFiniteSet(M) /\ M \subseteq H /\ Cardinality(M) \in Nat
    BY <1>1, TokensFinite
  <2>2. IsFiniteSet(H \ M) /\ Cardinality(H \ M) \in Nat
    BY <2>1, FS_Subset, FS_CardinalityType
  <2> QED
    BY <2>1, <2>2
<1>3. ASSUME NEW k \in H
      PROVE  a[k] \in Nat /\ r[k] \in Nat /\ g[k] = a[k] + r[k]
  <2>1. g[k] = TokenLen(t, l1, l2, k) /\ a[k] = l1[t[k]] /\ l1[t[k]] \in 1 .. MaxLen1 /\ t[k] \in Nat
    BY TokenFacts DEF FirstBits
  <2>2. a[k] \in Nat
    BY <2>1, Sizes
  <2>3. CASE k \in M
    <3> DEFINE c == CodeOfDistance(t[k + 1])
    <3>1. t[k] >= FirstMatch
      BY <2>3 DEF Matches
    <3>2. c \in Code2 /\ l2[c] \in 1 .. MaxLen2
      BY <3>1, TokenFacts
    <3>3. b[k] = l2[c] /\ x[k] = matchidx_blen[c] /\ r[k] = b[k] + x[k]
      BY <2>3 DEF DistanceBits, ExtraBits
    <3>4. b[k] \in Nat /\ x[k] \in Nat
      BY <3>2, <3>3, Sizes
    <3>5. g[k] = l1[t[k]] + l2[c] + matchidx_blen[c]
      BY <2>1, <3>1, Sizes DEF TokenLen
    <3> HIDE DEF a, b, g, x, r, c
    <3> QED
      BY <2>1, <2>2, <3>3, <3>4, <3>5
  <2>4. CASE k \notin M
    <3>1. t[k] < FirstMatch
      BY <2>1, <2>4, Sizes DEF Matches
    <3>2. g[k] = l1[t[k]] /\ r[k] = 0
      BY <2>1, <2>4, <3>1 DEF TokenLen
    <3> HIDE DEF a, b, g, x, r
    <3> QED
      BY <2>1, <2>2, <3>2
  <2> QED
    BY <2>3, <2>4
<1>4. ASSUME NEW k \in M
      PROVE  b[k] \in Nat /\ x[k] \in Nat /\ r[k] = b[k] + x[k] /\ x[k] <= most[k] /\ most[k] = MaxBlen /\ most[k] \in Nat
  <2> DEFINE c == CodeOfDistance(t[k + 1])
  <2>1. k \in H /\ t[k] >= FirstMatch
    BY <1>2 DEF Matches
  <2>2. c \in Code2 /\ l2[c] \in 1 .. MaxLen2
    BY <2>1, TokenFacts
  <2>3. b[k] = l2[c] /\ x[k] = matchidx_blen[c] /\ r[k] = b[k] + x[k] /\ most[k] = MaxBlen
    BY <2>1 DEF DistanceBits, ExtraBits
  <2> HIDE DEF c, b, x, r, most
  <2> QED
    BY <2>2, <2>3, Sizes, MostExtraBits
<1>5. \A k \in H \ M : r[k] = 0 /\ r[k] \in Nat
  OBVIOUS
<1>6. /\ SumFunctionOnSet(a, H) = Total(Freq1(t), l1)
      /\ SumFunctionOnSet(b, M) = Total(Freq2(t), l2)
      /\ Pos(t, l1, l2)[Len(t)] = SumFunctionOnSet(g, H)
  BY CountedByCode, PosIsSum
<1> HIDE DEF H, M, a, b, x, g, r, most
<1>7. SumFunctionOnSet(g, H) = SumFunctionOnSet(a, H) + SumFunctionOnSet(r, H)
  BY <1>2, <1>3, SumPlus
<1>8. SumFunctionOnSet(r, H) = SumFunctionOnSet(r, M) + SumFunctionOnSet(r, H \ M)
  <2>1. \A k \in M \cup (H \ M) : r[k] \in Nat
    BY <1>2, <1>3
  <2>2. SumFunctionOnSet(r, M \cup (H \ M)) = SumFunctionOnSet(r, M) + SumFunctionOnSet(r, H \ M)
    BY <1>2, <2>1, SumUnion
  <2> QED
    BY <1>2, <2>2
<1>9. SumFunctionOnSet(r, H \ M) = 0 * Cardinality(H \ M)
  BY <1>2, <1>5, SumConst
<1>10. SumFunctionOnSet(r, M) = SumFunctionOnSet(b, M) + SumFunctionOnSet(x, M)
  BY <1>2, <1>4, SumPlus
<1>11. SumFunctionOnSet(x, M) <= SumFunctionOnSet(most, M)
  BY <1>2, <1>4, SumLeq
<1>12. SumFunctionOnSet(most, M) = MaxBlen * Cardinality(M)
  BY <1>2, <1>4, MostExtraBits, SumConst
<1>13. SumFunctionOnSet(a, H) \in Nat
  BY <1>2, <1>3, SumType
<1>14. SumFunctionOnSet(b, M) \in Nat
  BY <1>2, <1>4, SumType
<1>15. SumFunctionOnSet(x, M) \in Nat
  BY <1>2, <1>4, SumType
<1> DEFINE A == SumFunctionOnSet(a, H)
           B == SumFunctionOnSet(b, M)
           X == SumFunctionOnSet(x, M)
           n == Cardinality(M)
           Z == Cardinality(H \ M)
<1>16. SumFunctionOnSet(g, H) <= A + B + n * MaxBlen
  <2>1. SumFunctionOnSet(r, H \ M) = 0
    BY <1>2, <1>9
  <2>2. n \in Nat /\ MaxBlen \in Nat /\ X <= MaxBlen * n
    BY <1>2, <1>11, <1>12, MostExtraBits
  <2>3. SumFunctionOnSet(g, H) = A + (B + X + 0)
    BY <1>7, <1>8, <1>10, <2>1
  <2>4. A \in Nat /\ B \in Nat /\ X \in Nat
    BY <1>13, <1>14, <1>15
  <2> HIDE DEF A, B, X, n
  <2>5. MaxBlen * n = n * MaxBlen /\ n * MaxBlen \in Nat
    BY <2>2
  <2> QED
    BY <2>2, <2>3, <2>4, <2>5
<1> QED
  BY <1>6, <1>13, <1>14, <1>16 DEF M
-----------------------------------------------------------------------------
(***************************************************************************)
(* The room in the output buffer.                                          *)
(***************************************************************************)
(* Symbols of a code of the given size that occur as often as f says, coded  *)
(* with lengths l, take no more bits than with codes of equal length but for *)
(* what rescaling costs; and the tree was rescaled only if it could not be   *)
(* shallow enough.                                                           *)
Economical(f, l, size, maxlen) ==
  \E k \in Nat :
    /\ k = 0 \/ ~ShallowEnough(CodeOf(size, maxlen), SumFunction(f), k - 1)
    /\ \A n \in 1 .. maxlen : size <= 2 ^ n => Total(f, l) <= CodedBits(SumFunction(f), n, k)

LEMMA SameFib == ASSUME NEW n PROVE P1!Fib(n) = Fib(n) /\ P2!Fib(n) = Fib(n)
BY Zenon DEF P1!Fib, P2!Fib, Fib

LEMMA DeepIsNat ==
  ASSUME NEW size, NEW maxlen \in Nat
  PROVE  CodeOf(size, maxlen).deep \in Nat /\ CodeOf(size, maxlen).size = size
<1>1. maxlen + 3 \in Nat
  OBVIOUS
<1>2. P1!Fib(maxlen + 3) \in Nat
  BY <1>1, CallAssumption1, P1!FibSteps
<1> QED
  BY <1>2, SameFib DEF CodeOf

(* If the weights make a shallow tree once they are halved j times, they are *)
(* not halved more often, and no more bits are lost than j times cost.       *)
LEMMA FewRescalings ==
  ASSUME NEW code, code.size \in Nat, code.deep \in Nat, code.size <= code.deep,
         NEW total \in Nat, NEW j \in Nat, NEW k \in Nat, NEW l \in Nat \ {0},
         ShallowEnough(code, total, j), k = 0 \/ ~ShallowEnough(code, total, k - 1)
  PROVE  CodedBits(total, l, k) <= CodedBits(total, l, j)
<1> DEFINE d == code.deep - code.size
           p == 2 ^ k
           q == 2 ^ j
           h == 2 ^ (l - 1)
<1>1. d \in Nat
  OBVIOUS
<1>2. k <= j
  <2> SUFFICES ASSUME k > j PROVE FALSE
    OBVIOUS
  <2> DEFINE r == 2 ^ (k - 1)
  <2>1. k - 1 \in Nat /\ j \in 0 .. k - 1 /\ k # 0
    OBVIOUS
  <2>2. r \in Nat /\ q \in Nat /\ q <= r
    BY <2>1, PowerPositive, PowerMonotone
  <2>3. total < q * d + code.size /\ ~(total < r * d + code.size)
    BY <2>1 DEF ShallowEnough
  <2> HIDE DEF q, r, d
  <2>4. q * d \in Nat /\ r * d \in Nat /\ q * d <= r * d
    BY <1>1, <2>2
  <2> DEFINE x == q * d
             y == r * d
  <2>5. x \in Nat /\ y \in Nat /\ x <= y /\ total < x + code.size /\ ~(total < y + code.size)
    BY <2>3, <2>4
  <2> HIDE DEF x, y
  <2> QED
    BY <2>5
<1>3. p \in Nat \ {0} /\ q \in Nat \ {0} /\ p <= q
  BY <1>2, PowerPositive, PowerMonotone
<1>4. h \in Nat
  BY PowerPositive
<1>5. CodedBits(total, l, k) = total * l + (p - 1) * h /\ CodedBits(total, l, j) = total * l + (q - 1) * h
  BY DEF CodedBits
<1> DEFINE x == (p - 1) * h
           y == (q - 1) * h
           z == total * l
<1> HIDE DEF p, q, h
<1>6. x \in Nat /\ y \in Nat /\ z \in Nat
  BY <1>3, <1>4
<1>7. x <= y
  <2> DEFINE u == p - 1
             v == q - 1
  <2>1. u \in Nat /\ v \in Nat /\ u <= v
    BY <1>3
  <2> HIDE DEF u, v
  <2>2. u * h <= v * h
    BY <1>4, <2>1
  <2> QED
    BY <2>2 DEF u, v
<1>8. CodedBits(total, l, k) = z + x /\ CodedBits(total, l, j) = z + y
  BY <1>5
<1> HIDE DEF x, y, z
<1> QED
  BY <1>6, <1>7, <1>8

LEMMA CodedCheaply ==
  ASSUME NEW f, NEW l, NEW size \in Nat, NEW maxlen \in Nat, Economical(f, l, size, maxlen),
         SumFunction(f) \in Nat, Total(f, l) \in Nat, size <= CodeOf(size, maxlen).deep,
         NEW n \in 1 .. maxlen, size <= 2 ^ n,
         NEW j \in Nat, ShallowEnough(CodeOf(size, maxlen), SumFunction(f), j)
  PROVE  Total(f, l) <= CodedBits(SumFunction(f), n, j) /\ CodedBits(SumFunction(f), n, j) \in Int
<1> DEFINE total == SumFunction(f)
           code == CodeOf(size, maxlen)
<1>1. PICK k \in Nat :
        /\ k = 0 \/ ~ShallowEnough(code, total, k - 1)
        /\ \A i \in 1 .. maxlen : size <= 2 ^ i => Total(f, l) <= CodedBits(total, i, k)
  BY DEF Economical
<1>2. Total(f, l) <= CodedBits(total, n, k)
  BY <1>1
<1>3. code.deep \in Nat /\ code.size = size
  BY DeepIsNat
<1>4. n \in Nat \ {0}
  OBVIOUS
<1>5. total \in Nat /\ size <= code.deep /\ ShallowEnough(code, total, j)
  OBVIOUS
<1> HIDE DEF total, code
<1>6. CodedBits(total, n, k) <= CodedBits(total, n, j)
  BY <1>1, <1>3, <1>4, <1>5, FewRescalings
<1>7. \A i \in Nat : CodedBits(total, n, i) \in Int
  <2> SUFFICES ASSUME NEW i \in Nat PROVE CodedBits(total, n, i) \in Int
    OBVIOUS
  <2>1. 2 ^ i \in Nat /\ 2 ^ (n - 1) \in Nat
    BY <1>4, PowerPositive
  <2> DEFINE p == 2 ^ i
             q == 2 ^ (n - 1)
  <2>2. CodedBits(total, n, i) = total * n + (p - 1) * q
    BY DEF CodedBits
  <2> HIDE DEF p, q
  <2>3. p \in Nat /\ q \in Nat
    BY <2>1 DEF p, q
  <2> QED
    BY <1>4, <1>5, <2>2, <2>3
<1>8. Total(f, l) <= CodedBits(total, n, j)
  <2> DEFINE x == CodedBits(total, n, k)
             y == CodedBits(total, n, j)
  <2>1. x \in Int /\ y \in Int /\ Total(f, l) <= x /\ x <= y
    BY <1>2, <1>6, <1>7
  <2> HIDE DEF x, y
  <2>2. Total(f, l) <= y
    BY <2>1
  <2> QED
    BY <2>2 DEF y
<1> QED
  BY <1>7, <1>8 DEF total

(* The bits of a token buffer, its length tables aside. *)
Room == (BlockSizeHuffman - (NumCodes1 + NumCodes2) \div 2) * ByteBits

LEMMA RoomForTokens ==
  ASSUME NEW t, NEW l1, NEW l2, Coded(t, l1, l2),
         Economical(Freq1(t), l1, NumCodes1, MaxLen1), Economical(Freq2(t), l2, NumCodes2, MaxLen2)
  PROVE  Pos(t, l1, l2)[Len(t)] <= Room
<1> DEFINE n == Cardinality(Heads(t))
           m == Cardinality(Matches(t))
           code1 == CodeOf(NumCodes1, MaxLen1)
           code2 == CodeOf(NumCodes2, MaxLen2)
           A == Total(Freq1(t), l1)
           B == Total(Freq2(t), l2)
           p == Pos(t, l1, l2)[Len(t)]
           x == m * MaxBlen
<1>1. t \in TokenBuffers
  BY DEF Coded
<1>2. n \in Nat /\ m \in Nat /\ SumFunction(Freq1(t)) = n /\ SumFunction(Freq2(t)) = m
  BY <1>1, TokensFinite, CountedByCode
<1>3. A \in Nat /\ B \in Nat /\ p <= A + B + x
  BY TokensTake
<1>4. HasRoom(Room - x, code1, n, code2, m)
  BY <1>1, RoomAssumption DEF Room
<1>5. code1.size = NumCodes1 /\ code1.maxlen = MaxLen1 /\ code2.size = NumCodes2 /\ code2.maxlen = MaxLen2
  BY DEF CodeOf
<1>6. PICK i1 \in 1 .. MaxLen1, i2 \in 1 .. MaxLen2, k1 \in 0 .. 15, k2 \in 0 .. 15 :
        /\ NumCodes1 <= code1.deep /\ NumCodes2 <= code2.deep
        /\ NumCodes1 <= 2 ^ i1 /\ NumCodes2 <= 2 ^ i2
        /\ ShallowEnough(code1, n, k1) /\ ShallowEnough(code2, m, k2)
        /\ CodedBits(n, i1, k1) + CodedBits(m, i2, k2) <= Room - x
  <2> HIDE DEF code1, code2, n, m, x
  <2> QED
    BY <1>4, <1>5 DEF HasRoom
<1>7. A <= CodedBits(n, i1, k1) /\ CodedBits(n, i1, k1) \in Int
  <2> HIDE DEF n, A
  <2>1. k1 \in Nat /\ NumCodes1 \in Nat /\ MaxLen1 \in Nat
    BY Sizes
  <2> QED
    BY <1>2, <1>3, <1>6, <2>1, CodedCheaply DEF A
<1>8. B <= CodedBits(m, i2, k2) /\ CodedBits(m, i2, k2) \in Int
  <2> HIDE DEF m, B
  <2>1. k2 \in Nat /\ NumCodes2 \in Nat /\ MaxLen2 \in Nat
    BY Sizes
  <2> QED
    BY <1>2, <1>3, <1>6, <2>1, CodedCheaply DEF B
<1>9. p \in Nat /\ x \in Nat
  <2>1. p \in Nat
    <3>1. Len(t) \in Nat
      BY <1>1, TokensFinite
    <3>2. Len(t) \in 0 .. Len(t) /\ Pos(t, l1, l2) \in [0 .. Len(t) -> Nat]
      BY <3>1, PosSteps
    <3> QED
      BY <3>2
  <2> QED
    BY <1>2, <2>1, MostExtraBits
<1>10. Room \in Int
  BY Sizes, ChunkAssumption DEF Room
<1> DEFINE y == CodedBits(n, i1, k1)
           z == CodedBits(m, i2, k2)
<1>11. y \in Int /\ z \in Int /\ A <= y /\ B <= z /\ y + z <= Room - x
  BY <1>6, <1>7, <1>8
<1> HIDE DEF A, B, p, x, y, z, n, m
<1>12. p <= Room
  BY <1>3, <1>9, <1>10, <1>11
<1> QED
  BY <1>12 DEF p

(* While tokens are coded, and when they are, the bytes written are within   *)
(* the buffer.                                                               *)
LEMMA FitsBuffer ==
  ASSUME IInv, pc \in {"lengths", "pack"} => packed = <<>>,
         pc # "lengths" => /\ Economical(Freq1(tbuf), length1, NumCodes1, MaxLen1)
                           /\ Economical(Freq2(tbuf), length2, NumCodes2, MaxLen2)
  PROVE  OutputFits
<1> DEFINE h == (NumCodes1 + NumCodes2) \div 2
           r == BlockSizeHuffman - h
           o == Len(obuf)
<1>1. BlockSizeHuffman \in Nat /\ ByteBits \in Nat \ {0} /\ h \in Nat
  BY Sizes, ChunkAssumption
<1>2. CASE pc \in {"lengths", "pack"}
  <2>1. packed = <<>> /\ obuf = <<>>
    BY <1>2 DEF IInv, IEncode
  <2> QED
    BY <1>1, <2>1 DEF OutputFits
<1>3. CASE pc \notin {"lengths", "pack"}
  <2>1. /\ Coded(tbuf, length1, length2) /\ packed = Pack(length1) \o Pack(length2)
        /\ Encoded(tbuf, length1, length2, obuf, enc, ei)
        /\ enc.len \in Int /\ o \in Nat
    BY <1>3 DEF IInv, ITypes, IEncode, ITables, Codebuf
  <2>2. Pos(tbuf, length1, length2)[Len(tbuf)] <= Room
    BY <1>3, <2>1, RoomForTokens
  <2>3. Len(packed) = h
    <3>1. 0 .. MaxLen1 \subseteq 0 .. 15 /\ 0 .. MaxLen2 \subseteq 0 .. 15
      BY Sizes
    <3>2. length1 \in [0 .. NumCodes1 - 1 -> 0 .. 15] /\ length2 \in [0 .. NumCodes2 - 1 -> 0 .. 15]
      BY <2>1, <3>1 DEF Coded, Code1, Code2
    <3>3. NumCodes1 \in Nat \ {0} /\ NumCodes1 % 2 = 0 /\ NumCodes2 \in Nat \ {0} /\ NumCodes2 % 2 = 0
      BY Sizes, EntropyAssumption
    <3>4. Pack(length1) \in Seq(Nat) /\ Len(Pack(length1)) = NumCodes1 \div 2
      BY <3>2, <3>3, PackedLengths
    <3>5. Pack(length2) \in Seq(Nat) /\ Len(Pack(length2)) = NumCodes2 \div 2
      BY <3>2, <3>3, PackedLengths
    <3>6. Len(packed) = NumCodes1 \div 2 + NumCodes2 \div 2
      <4> DEFINE u == Pack(length1)
                 v == Pack(length2)
      <4>1. u \in Seq(Nat) /\ v \in Seq(Nat) /\ packed = u \o v
        BY <2>1, <3>4, <3>5
      <4> HIDE DEF u, v
      <4>2. Len(packed) = Len(u) + Len(v)
        BY <4>1
      <4> QED
        BY <3>4, <3>5, <4>2 DEF u, v
    <3>7. h = NumCodes1 \div 2 + NumCodes2 \div 2
      BY <3>3
    <3> QED
      BY <3>6, <3>7
  <2> DEFINE p == Pos(tbuf, length1, length2)[ei]
             q == Pos(tbuf, length1, length2)[Len(tbuf)]
             e == enc.len
             b == ByteBits
  <2>4. p = o * b + e /\ e > -b
    BY <2>1 DEF Encoded
  <2>5. p \in Nat /\ q \in Nat /\ p <= q
    <3>1. Len(tbuf) \in Nat
      BY <2>1, TokensFinite DEF Coded
    <3>2. ei \in 0 .. Len(tbuf) /\ Len(tbuf) \in 0 .. Len(tbuf)
      BY <2>1, <3>1 DEF Encoded
    <3> QED
      BY <2>1, <3>2, PosSteps, PosMonotone
  <2>6. q <= r * b /\ r \in Int
    BY <1>1, <2>2 DEF Room
  <2> HIDE DEF p, q, e, b, h, r, o
  <2>7. b \in Nat \ {0} /\ e \in Int /\ o \in Nat
    BY <1>1, <2>1 DEF b, e, o
  <2>8. o <= r
    <3> SUFFICES ASSUME o > r PROVE FALSE
      BY <2>6, <2>7
    <3> DEFINE d == o - r - 1
    <3>1. d \in Nat /\ o = r + 1 + d
      BY <2>6, <2>7
    <3> HIDE DEF d
    <3>2. o * b = r * b + b + d * b /\ d * b \in Nat /\ r * b \in Int
      BY <2>6, <2>7, <3>1
    <3> DEFINE u == o * b
               v == r * b
               w == d * b
    <3>3. u = v + b + w /\ w \in Nat /\ v \in Int /\ p = u + e /\ q <= v
      BY <2>4, <2>6, <3>2
    <3> HIDE DEF u, v, w
    <3> QED
      BY <2>4, <2>5, <2>7, <3>3
  <2>9. Len(packed) + o <= BlockSizeHuffman
    BY <1>1, <2>3, <2>7, <2>8 DEF r
  <2> QED
    BY <2>9 DEF OutputFits, o
<1> QED
  BY <1>2, <1>3
-----------------------------------------------------------------------------
(***************************************************************************)
(* What either call returns is economical.                                 *)
(***************************************************************************)
LEMMA SameSum1 ==
  ASSUME NEW S, IsFiniteSet(S), NEW g, \A s \in S : g[s] \in Nat
  PROVE  P1!SumFunctionOnSet(g, S) = SumFunctionOnSet(g, S)
<1>1. PICK T : AddsUp(T, g, S)
  BY AddingExists
<1>2. P1!AddsUp(T, g, S)
  BY <1>1 DEF P1!AddsUp, AddsUp
<1>3. P1!IsFiniteSet(S)
  BY DEF P1!IsFiniteSet, IsFiniteSet
<1>4. SumFunctionOnSet(g, S) = T[S]
  BY <1>1, SumIsUnique
<1>5. P1!SumFunctionOnSet(g, S) = T[S]
  BY <1>2, <1>3, CallAssumption1, P1!SumIsUnique
<1> QED
  BY <1>4, <1>5

LEMMA EconomicalCall1 ==
  ASSUME P1!CInv, hpc = "done", freq \in [Code1 -> Nat]
  PROVE  Economical(freq, length1, NumCodes1, MaxLen1)
<1> DEFINE g == [s \in Code1 |-> freq[s] * length1[s]]
           total == SumFunction(freq)
<1>1. /\ scaling \in Nat /\ length1 \in [Code1 -> Nat]
      /\ scaling > 0 => ~P1!ShallowEnough(P1!CodeOf(NumCodes1, MaxLen1), P1!SumFunction(freq), scaling - 1)
  BY DEF P1!CInv, P1!HInv, P1!RescaledSeldom, P1!Symbol, Code1
<1>2. IsFiniteSet(Code1) /\ DOMAIN freq = Code1 /\ DOMAIN g = Code1
  BY Sizes, FS_Interval DEF Code1
<1>3. \A s \in Code1 : freq[s] \in Nat /\ g[s] \in Nat
  BY <1>1
<1>4. Total(freq, length1) = SumFunction(g)
  BY <1>2 DEF Total
<1> HIDE DEF g
<1>5. P1!SumFunctionOnSet(freq, Code1) = SumFunctionOnSet(freq, Code1)
  BY <1>2, <1>3, SameSum1
<1>6. P1!SumFunctionOnSet(g, Code1) = SumFunctionOnSet(g, Code1)
  BY <1>2, <1>3, SameSum1
<1>7. P1!SumFunction(freq) = total /\ P1!SumFunction(g) = SumFunction(g)
  BY <1>2, <1>5, <1>6 DEF P1!SumFunction, SumFunction
<1>8. scaling = 0 \/ ~ShallowEnough(CodeOf(NumCodes1, MaxLen1), total, scaling - 1)
  BY <1>1, <1>7, SameFib DEF P1!ShallowEnough, ShallowEnough, P1!CodeOf, CodeOf
<1>9. ASSUME NEW n \in 1 .. MaxLen1, NumCodes1 <= 2 ^ n
      PROVE  Total(freq, length1) <= CodedBits(total, n, scaling)
  <2>1. P1!Cardinality(P1!Occurring) <= 2 ^ n
    <3>1. P1!Occurring \subseteq Code1
      BY DEF P1!Occurring, P1!Symbol, Code1
    <3>2. Cardinality(Code1) = NumCodes1 /\ NumCodes1 \in Nat
      <4>1. Cardinality(0 .. NumCodes1 - 1) = IF 0 > NumCodes1 - 1 THEN 0 ELSE (NumCodes1 - 1) - 0 + 1
        BY Sizes, FS_Interval
      <4> QED
        BY <4>1, Sizes DEF Code1
    <3>3. Cardinality(P1!Occurring) <= NumCodes1 /\ Cardinality(P1!Occurring) \in Nat
      BY <1>2, <3>1, <3>2, FS_Subset, FS_CardinalityType
    <3>4. 2 ^ n \in Nat
      BY PowerPositive
    <3>5. P1!Cardinality(P1!Occurring) = Cardinality(P1!Occurring)
      BY Counts1
    <3> QED
      BY <1>9, <3>2, <3>3, <3>4, <3>5
  <2>2. P1!SumFunction([s \in P1!Symbol |-> freq[s] * length1[s]]) <= P1!CodedBits(P1!SumFunction(freq), n, scaling)
    BY <2>1, CallAssumption1, P1!CodedWell
  <2>3. g = [s \in P1!Symbol |-> freq[s] * length1[s]]
    BY DEF g, P1!Symbol, Code1
  <2>4. \A x : P1!CodedBits(x, n, scaling) = CodedBits(x, n, scaling)
    BY DEF P1!CodedBits, CodedBits
  <2> QED
    BY <1>4, <1>7, <2>2, <2>3, <2>4
<1> QED
  BY <1>1, <1>8, <1>9 DEF Economical

LEMMA SameSum2 ==
  ASSUME NEW S, IsFiniteSet(S), NEW g, \A s \in S : g[s] \in Nat
  PROVE  P2!SumFunctionOnSet(g, S) = SumFunctionOnSet(g, S)
<1>1. PICK T : AddsUp(T, g, S)
  BY AddingExists
<1>2. P2!AddsUp(T, g, S)
  BY <1>1 DEF P2!AddsUp, AddsUp
<1>3. P2!IsFiniteSet(S)
  BY DEF P2!IsFiniteSet, IsFiniteSet
<1>4. SumFunctionOnSet(g, S) = T[S]
  BY <1>1, SumIsUnique
<1>5. P2!SumFunctionOnSet(g, S) = T[S]
  BY <1>2, <1>3, CallAssumption2, P2!SumIsUnique
<1> QED
  BY <1>4, <1>5

LEMMA EconomicalCall2 ==
  ASSUME P2!CInv, hpc = "done", freq \in [Code2 -> Nat]
  PROVE  Economical(freq, length2, NumCodes2, MaxLen2)
<1> DEFINE g == [s \in Code2 |-> freq[s] * length2[s]]
           total == SumFunction(freq)
<1>1. /\ scaling \in Nat /\ length2 \in [Code2 -> Nat]
      /\ scaling > 0 => ~P2!ShallowEnough(P2!CodeOf(NumCodes2, MaxLen2), P2!SumFunction(freq), scaling - 1)
  BY DEF P2!CInv, P2!HInv, P2!RescaledSeldom, P2!Symbol, Code2
<1>2. IsFiniteSet(Code2) /\ DOMAIN freq = Code2 /\ DOMAIN g = Code2
  BY Sizes, FS_Interval DEF Code2
<1>3. \A s \in Code2 : freq[s] \in Nat /\ g[s] \in Nat
  BY <1>1
<1>4. Total(freq, length2) = SumFunction(g)
  BY <1>2 DEF Total
<1> HIDE DEF g
<1>5. P2!SumFunctionOnSet(freq, Code2) = SumFunctionOnSet(freq, Code2)
  BY <1>2, <1>3, SameSum2
<1>6. P2!SumFunctionOnSet(g, Code2) = SumFunctionOnSet(g, Code2)
  BY <1>2, <1>3, SameSum2
<1>7. P2!SumFunction(freq) = total /\ P2!SumFunction(g) = SumFunction(g)
  BY <1>2, <1>5, <1>6 DEF P2!SumFunction, SumFunction
<1>8. scaling = 0 \/ ~ShallowEnough(CodeOf(NumCodes2, MaxLen2), total, scaling - 1)
  BY <1>1, <1>7, SameFib DEF P2!ShallowEnough, ShallowEnough, P2!CodeOf, CodeOf
<1>9. ASSUME NEW n \in 1 .. MaxLen2, NumCodes2 <= 2 ^ n
      PROVE  Total(freq, length2) <= CodedBits(total, n, scaling)
  <2>1. P2!Cardinality(P2!Occurring) <= 2 ^ n
    <3>1. P2!Occurring \subseteq Code2
      BY DEF P2!Occurring, P2!Symbol, Code2
    <3>2. Cardinality(Code2) = NumCodes2 /\ NumCodes2 \in Nat
      <4>1. Cardinality(0 .. NumCodes2 - 1) = IF 0 > NumCodes2 - 1 THEN 0 ELSE (NumCodes2 - 1) - 0 + 1
        BY Sizes, FS_Interval
      <4> QED
        BY <4>1, Sizes DEF Code2
    <3>3. Cardinality(P2!Occurring) <= NumCodes2 /\ Cardinality(P2!Occurring) \in Nat
      BY <1>2, <3>1, <3>2, FS_Subset, FS_CardinalityType
    <3>4. 2 ^ n \in Nat
      BY PowerPositive
    <3>5. P2!Cardinality(P2!Occurring) = Cardinality(P2!Occurring)
      BY Counts2
    <3> QED
      BY <1>9, <3>2, <3>3, <3>4, <3>5
  <2>2. P2!SumFunction([s \in P2!Symbol |-> freq[s] * length2[s]]) <= P2!CodedBits(P2!SumFunction(freq), n, scaling)
    BY <2>1, CallAssumption2, P2!CodedWell
  <2>3. g = [s \in P2!Symbol |-> freq[s] * length2[s]]
    BY DEF g, P2!Symbol, Code2
  <2>4. \A x : P2!CodedBits(x, n, scaling) = CodedBits(x, n, scaling)
    BY DEF P2!CodedBits, CodedBits
  <2> QED
    BY <1>4, <1>7, <2>2, <2>3, <2>4
<1> QED
  BY <1>1, <1>8, <1>9 DEF Economical
-----------------------------------------------------------------------------
(* What is known of the lengths, beside ChunkInv and IInv: of those of a     *)
(* call that runs what is proved of the call, and of those that are made     *)
(* that they are economical.                                                 *)
RoomInv ==
  /\ pc \in {"lengths", "pack"} => packed = <<>>
  /\ call = 1 => P1!CInv
  /\ call = 2 => Economical(Freq1(tbuf), length1, NumCodes1, MaxLen1)
  /\ call = 2 /\ pc = "lengths" => P2!CInv
  /\ pc # "lengths" => Economical(Freq2(tbuf), length2, NumCodes2, MaxLen2)

LEMMA RoomInit == ASSUME ChunkInit PROVE RoomInv
<1>1. /\ pc = "lengths" /\ call = 1 /\ packed = <<>>
      /\ freq = Freq1(tbuf) /\ tbuf \in TokenBuffers
      /\ scaling = 0 /\ nodes = {} /\ hpc = "leaves" /\ length1 = [s \in Code1 |-> 0]
  BY DEF ChunkInit, Init
<1>2. freq \in [Code1 -> Nat]
  BY <1>1, FreqTypes
<1>3. P1!Init
  BY <1>1, <1>2 DEF P1!Init, P1!Symbol, Code1
<1>4. P1!CInv
  BY <1>3, CallAssumption1, P1!CInit
<1> QED
  BY <1>1, <1>4 DEF RoomInv

LEMMA FirstCallEconomical == ASSUME ChunkInv, RoomInv, FirstCall PROVE RoomInv'
<1>1. call = 1 /\ call' = 1 /\ packed' = packed /\ pc = "lengths" /\ pc' = "lengths"
  BY FirstCallKeeps DEF FirstCall, encVars
<1>2. P1!MakeLeaves \/ P1!JoinTwo \/ P1!ExtractLengths
  BY SameLeaves1, SameJoin1, SameExtract1 DEF FirstCall
<1>3. P1!CInv'
  BY <1>1, <1>2, CallAssumption1, P1!CLeaves, P1!CJoin, P1!CExtract DEF RoomInv
<1> QED
  BY <1>1, <1>3 DEF RoomInv

LEMMA BeginSecondEconomical == ASSUME ChunkInv, RoomInv, BeginSecond PROVE RoomInv'
<1>1. /\ call = 1 /\ hpc = "done" /\ call' = 2 /\ scaling' = 0 /\ hpc' = "leaves"
      /\ UNCHANGED <<tbuf, length1, packed, pc>>
  BY DEF BeginSecond, vars, inputVars, encVars
<1>2. pc = "lengths" /\ ChunkInv'
  BY BeginSecondKeeps
<1>3. freq = Freq1(tbuf) /\ tbuf \in TokenBuffers
  BY <1>1, <1>2 DEF ChunkInv
<1>4. freq \in [Code1 -> Nat]
  BY <1>3, FreqTypes
<1>5. Economical(freq, length1, NumCodes1, MaxLen1)
  BY <1>1, <1>4, EconomicalCall1 DEF RoomInv
<1>6. P2!HInv'
  BY <1>1, <1>2 DEF ChunkInv
<1>7. P2!CInv'
  <2>1. 0 \in Nat /\ ~(0 > 0)
    OBVIOUS
  <2> QED
    BY <1>1, <1>6, <2>1 DEF P2!CInv, P2!RescaledSeldom
<1>8. Economical(Freq1(tbuf), length1, NumCodes1, MaxLen1)'
  BY <1>1, <1>3, <1>5
<1> QED
  BY <1>1, <1>2, <1>7, <1>8 DEF RoomInv

LEMMA SecondCallEconomical == ASSUME ChunkInv, RoomInv, SecondCall PROVE RoomInv'
<1>1. /\ call = 2 /\ call' = 2 /\ pc = "lengths" /\ pc' = "lengths"
      /\ UNCHANGED <<tbuf, length1, packed>>
  BY SecondCallKeeps DEF SecondCall, encVars
<1>2. P2!MakeLeaves \/ P2!JoinTwo \/ P2!ExtractLengths
  BY SameLeaves2, SameJoin2, SameExtract2 DEF SecondCall
<1>3. P2!CInv'
  BY <1>1, <1>2, CallAssumption2, P2!CLeaves, P2!CJoin, P2!CExtract DEF RoomInv
<1> QED
  BY <1>1, <1>3 DEF RoomInv

LEMMA LengthsMadeEconomical == ASSUME ChunkInv, RoomInv, LengthsMade PROVE RoomInv'
<1>1. /\ pc = "lengths" /\ call = 2 /\ hpc = "done" /\ pc' = "pack"
      /\ UNCHANGED <<tbuf, length1, length2, packed, call>>
  BY DEF LengthsMade, inputVars, encVars
<1>2. freq = Freq2(tbuf) /\ tbuf \in TokenBuffers
  BY <1>1 DEF ChunkInv
<1>3. freq \in [Code2 -> Nat]
  BY <1>2, FreqTypes
<1>4. Economical(freq, length2, NumCodes2, MaxLen2)
  BY <1>1, <1>3, EconomicalCall2 DEF RoomInv
<1> QED
  BY <1>1, <1>2, <1>4 DEF RoomInv

LEMMA CodeEconomical == ASSUME ChunkInv, RoomInv, Code PROVE RoomInv'
<1>1. pc # "lengths" /\ pc' # "lengths" /\ UNCHANGED <<call, callVars>> /\ ~MakeLengths
  BY CodeKeeps DEF Code, MakeLengths
<1>2. UNCHANGED <<tbuf, length1, length2>> /\ (pc' = "pack" => pc = "pack" /\ packed' = packed)
  BY <1>1
  DEF Code, Next, Encode, Decode, Terminating, PackTables, PutToken, Drain, Flush, EndPut,
      UnpackTables, Fetch, GetLiteral, GetMatch, EndGet, vars, inputVars, encVars
<1>3. call = 2
  BY <1>1 DEF ChunkInv
<1> QED
  BY <1>1, <1>2, <1>3 DEF RoomInv

LEMMA RoomStep == ASSUME ChunkInv, RoomInv, [ChunkNext]_chunkVars PROVE RoomInv'
<1>1. CASE UNCHANGED chunkVars
  <2>1. UNCHANGED <<tbuf, length1, length2, packed, pc, call, freq, scaling, nodes, hpc>>
    BY <1>1 DEF chunkVars, callVars, vars, inputVars, encVars
  <2>2. P1!CInv => P1!CInv'
    <3>1. UNCHANGED P1!vars
      BY <2>1 DEF P1!vars
    <3> QED
      BY <3>1, CallAssumption1, P1!CNext
  <2>3. P2!CInv => P2!CInv'
    <3>1. UNCHANGED P2!vars
      BY <2>1 DEF P2!vars
    <3> QED
      BY <3>1, CallAssumption2, P2!CNext
  <2> QED
    BY <2>1, <2>2, <2>3 DEF RoomInv
<1> QED
  BY <1>1, FirstCallEconomical, BeginSecondEconomical, SecondCallEconomical,
     LengthsMadeEconomical, CodeEconomical
  DEF ChunkNext

(***************************************************************************)
(* The output buffer is large enough for the tables and the coded tokens   *)
(* of any token buffer: for sizes of codes and of the buffer that          *)
(* RoomAssumption allows, any frequencies of the codes, and whichever of   *)
(* equally light trees ZlingMakeLengthTable joins.                         *)
(***************************************************************************)
THEOREM OutputBufferSuffices == ChunkSpec => []OutputFits
<1>1. ChunkInit => ChunkInv /\ IInv /\ RoomInv
  BY ChunkInvInit, InitInv, RoomInit DEF ChunkInit
<1>2. ChunkInv /\ IInv /\ RoomInv /\ [ChunkNext]_chunkVars => ChunkInv' /\ IInv' /\ RoomInv'
  BY StepImplements, ChunkKeepsCoding, RoomStep
<1>3. ChunkInv /\ IInv /\ RoomInv => OutputFits
  <2> SUFFICES ASSUME ChunkInv, IInv, RoomInv PROVE OutputFits
    OBVIOUS
  <2>1. pc # "lengths" => call = 2
    BY DEF ChunkInv
  <2> QED
    BY <2>1, FitsBuffer DEF RoomInv
<1> QED
  BY <1>1, <1>2, <1>3, PTL DEF ChunkSpec
=============================================================================
