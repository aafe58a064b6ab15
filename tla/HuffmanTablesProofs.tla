------------------------ MODULE HuffmanTablesProofs ------------------------
(***************************************************************************)
(* What the code tables of HuffmanTables are good for, proved for length   *)
(* tables of any size: an Admissible one gives codes none of which begins  *)
(* another, and a decode table finds the symbol whose code comes next.     *)
(***************************************************************************)
EXTENDS HuffmanTables, FiniteSetTheorems, WellFoundedInduction, TLAPS

(***************************************************************************)
(* Induction over data, from well-founded sets of natural numbers.         *)
(***************************************************************************)
Less == OpToRel(<, Nat)

(* A nonempty set of natural numbers has a least element. *)
LEMMA LeastNat ==
  ASSUME NEW S, S \subseteq Nat, S # {}
  PROVE  \E m \in S : \A n \in S : m <= n
<1>1. IsWellFoundedOn(Less, Nat)
  BY NatLessThanWellFounded DEF Less
<1>2. PICK m \in S : \A n \in S : <<n, m>> \notin Less
  BY <1>1, WFMin
<1>3. ASSUME NEW n \in S PROVE m <= n
  <2>1. m \in Nat /\ n \in Nat
    OBVIOUS
  <2>2. n < m => <<n, m>> \in Less
    BY <2>1, Zenon DEF OpToRel, Less
  <2> QED
    BY <1>2, <2>1, <2>2
<1> QED
  BY <1>3

(* What has 0, and with a number below n the next one, has all up to n. *)
LEMMA UpTo ==
  ASSUME NEW n \in Nat, NEW S, 0 \in S, \A i \in 1 .. n : i - 1 \in S => i \in S
  PROVE  \A i \in 0 .. n : i \in S
<1> DEFINE Out == {i \in 0 .. n : i \notin S}
<1> SUFFICES ASSUME Out # {} PROVE FALSE
  OBVIOUS
<1>1. PICK m \in Out : \A i \in Out : m <= i
  <2>1. Out \subseteq Nat
    OBVIOUS
  <2> HIDE DEF Out
  <2> QED
    BY <2>1, LeastNat
<1>2. m \in 1 .. n /\ m - 1 \in 0 .. n /\ ~(m <= m - 1)
  BY <1>1
<1>3. m - 1 \in S
  BY <1>1, <1>2
<1> QED
  BY <1>1, <1>2, <1>3

(* A function may be defined along the numbers up to n. *)
Steps(n, T) == [(1 .. n) \X T -> T]
Follows(f, n, a, G) == f[0] = a /\ \A i \in 1 .. n : f[i] = G[<<i, f[i - 1]>>]

LEMMA Recursion ==
  ASSUME NEW n \in Nat, NEW T, NEW a \in T, NEW G \in Steps(n, T)
  PROVE  \E f \in [0 .. n -> T] : Follows(f, n, a, G)
<1> USE DEF Steps, Follows
<1> DEFINE Good(m, f) == f[0] = a /\ \A i \in 1 .. m : f[i] = G[<<i, f[i - 1]>>]
           Some == {m \in 0 .. n : \E f \in [0 .. m -> T] : Good(m, f)}
<1>1. 0 \in Some
  <2> DEFINE f == [i \in 0 .. 0 |-> a]
  <2>1. f \in [0 .. 0 -> T]
    OBVIOUS
  <2>2. f[0] = a /\ \A i \in 1 .. 0 : f[i] = G[<<i, f[i - 1]>>]
    OBVIOUS
  <2>3. \E h \in [0 .. 0 -> T] : Good(0, h)
    <3> HIDE DEF f
    <3> QED
      BY <2>1, <2>2
  <2> QED
    BY <2>3
<1>2. ASSUME NEW m \in 1 .. n, m - 1 \in Some PROVE m \in Some
  <2>1. PICK f \in [0 .. m - 1 -> T] : Good(m - 1, f)
    BY <1>2
  <2> DEFINE g == [i \in 0 .. m |-> IF i = m THEN G[<<m, f[m - 1]>>] ELSE f[i]]
  <2>2. f[m - 1] \in T /\ G[<<m, f[m - 1]>>] \in T
    OBVIOUS
  <2>3. g \in [0 .. m -> T]
    BY <2>2
  <2>4. g[0] = a
    BY <2>1
  <2>5. ASSUME NEW i \in 1 .. m PROVE g[i] = G[<<i, g[i - 1]>>]
    <3>1. CASE i = m
      <4>1. g[m] = G[<<m, f[m - 1]>>] /\ g[m - 1] = f[m - 1]
        OBVIOUS
      <4> QED
        BY <4>1, <3>1
    <3>2. CASE i # m
      <4>1. i \in 1 .. m - 1 /\ i - 1 \in 0 .. m - 1
        BY <3>2
      <4> QED
        BY <4>1, <2>1, <3>2
    <3> QED
      BY <3>1, <3>2
  <2> HIDE DEF g
  <2> QED
    BY <2>3, <2>4, <2>5
<1> HIDE DEF Some
<1>3. n \in Some
  BY <1>1, <1>2, UpTo
<1> QED
  BY <1>3 DEF Some
-----------------------------------------------------------------------------
(***************************************************************************)
(* Powers of two.                                                          *)
(***************************************************************************)
(* A power of two is as many as there are sets of so many elements. *)
LEMMA PowerIsSubsets ==
  ASSUME NEW n \in Nat
  PROVE  IsFiniteSet(SUBSET (1 .. n)) /\ Cardinality(SUBSET (1 .. n)) = 2 ^ n /\ 2 ^ n \in Nat
<1>1. IsFiniteSet(1 .. n) /\ Cardinality(1 .. n) = n
  <2>1. IsFiniteSet(1 .. n) /\ Cardinality(1 .. n) = IF 1 > n THEN 0 ELSE n - 1 + 1
    BY FS_Interval
  <2> QED
    BY <2>1
<1>2. IsFiniteSet(SUBSET (1 .. n)) /\ Cardinality(SUBSET (1 .. n)) = 2 ^ Cardinality(1 .. n)
  BY <1>1, FS_SUBSET
<1>3. Cardinality(SUBSET (1 .. n)) \in Nat
  BY <1>2, FS_CardinalityType
<1> QED
  BY <1>1, <1>2, <1>3

LEMMA PowerZero == 2 ^ 0 = 1
<1>1. SUBSET (1 .. 0) = {{}}
  OBVIOUS
<1>2. Cardinality({{}}) = 1
  BY FS_Singleton
<1> QED
  BY <1>1, <1>2, PowerIsSubsets

LEMMA PowerNext ==
  ASSUME NEW n \in Nat
  PROVE  2 ^ (n + 1) = 2 * 2 ^ n
<1> DEFINE A == SUBSET (1 .. n)
           With == {T \cup {n + 1} : T \in A}
<1>1. SUBSET (1 .. n + 1) = A \cup With
  <2>1. ASSUME NEW U \in SUBSET (1 .. n + 1) PROVE U \in A \cup With
    <3>1. CASE n + 1 \in U
      <4>1. U \ {n + 1} \in A /\ U = (U \ {n + 1}) \cup {n + 1}
        BY <3>1
      <4> QED
        BY <4>1
    <3>2. CASE n + 1 \notin U
      BY <3>2
    <3> QED
      BY <3>1, <3>2
  <2>2. ASSUME NEW U \in A \cup With PROVE U \in SUBSET (1 .. n + 1)
    OBVIOUS
  <2> QED
    BY <2>1, <2>2
<1>2. A \cap With = {}
  OBVIOUS
<1>3. IsFiniteSet(A) /\ Cardinality(A) = 2 ^ n /\ 2 ^ n \in Nat
  BY PowerIsSubsets
<1>4. IsFiniteSet(With) /\ Cardinality(With) = Cardinality(A)
  <2> DEFINE f == [T \in A |-> T \cup {n + 1}]
  <2>1. \A T, U \in A : f[T] = f[U] => T = U
    OBVIOUS
  <2>2. f \in [A -> With] /\ \A U \in With : \E T \in A : f[T] = U
    OBVIOUS
  <2>3. f \in Bijection(A, With)
    BY <2>1, <2>2 DEF Bijection, Injection, Surjection, IsInjective
  <2>4. ExistsBijection(A, With)
    BY <2>3 DEF ExistsBijection
  <2> HIDE DEF A, With
  <2> QED
    BY <2>4, <1>3, FS_Bijection
<1>5. Cardinality(A \cup With) = Cardinality(A) + Cardinality(With) - Cardinality(A \cap With)
  <2> HIDE DEF A, With
  <2> QED
    BY <1>3, <1>4, FS_Union
<1>6. Cardinality(A \cap With) = 0
  BY <1>2, FS_EmptySet
<1>7. Cardinality(SUBSET (1 .. n + 1)) = 2 ^ (n + 1)
  BY PowerIsSubsets, n + 1 \in Nat
<1> HIDE DEF A, With
<1>8. Cardinality(A \cup With) = 2 * 2 ^ n
  BY <1>3, <1>4, <1>5, <1>6
<1> QED
  BY <1>1, <1>7, <1>8

LEMMA PowerPositive ==
  ASSUME NEW n \in Nat
  PROVE  2 ^ n \in Nat \ {0}
<1>1. {} \in SUBSET (1 .. n)
  OBVIOUS
<1>2. Cardinality(SUBSET (1 .. n)) # 0
  BY <1>1, PowerIsSubsets, FS_EmptySet
<1> QED
  BY <1>2, PowerIsSubsets

LEMMA PowerSum ==
  ASSUME NEW k \in Nat, NEW n \in Nat
  PROVE  2 ^ (k + n) = 2 ^ k * 2 ^ n
<1> DEFINE S == {i \in 0 .. n : 2 ^ (k + i) = 2 ^ k * 2 ^ i}
<1>1. 0 \in S
  <2>1. k + 0 = k /\ 2 ^ k \in Nat
    BY PowerPositive
  <2> QED
    BY <2>1, PowerZero
<1>2. ASSUME NEW i \in 1 .. n, i - 1 \in S PROVE i \in S
  <2> DEFINE p == 2 ^ (i - 1)
             q == 2 ^ k
             r == 2 ^ (k + (i - 1))
  <2>1. r = q * p
    BY <1>2
  <2>2. i - 1 \in Nat /\ k + (i - 1) \in Nat /\ (i - 1) + 1 = i /\ (k + (i - 1)) + 1 = k + i
    OBVIOUS
  <2>3. 2 ^ i = 2 * p /\ 2 ^ (k + i) = 2 * r
    BY ONLY <2>2, PowerNext
  <2>4. p \in Nat /\ q \in Nat
    BY <2>2, PowerPositive
  <2> HIDE DEF p, q, r
  <2>5. 2 * (q * p) = q * (2 * p)
    BY <2>4
  <2>6. 2 ^ (k + i) = q * 2 ^ i
    BY <2>1, <2>3, <2>5
  <2> QED
    BY <2>6 DEF q
<1> HIDE DEF S
<1>3. n \in S
  BY <1>1, <1>2, UpTo
<1> QED
  BY <1>3 DEF S

LEMMA PowerMonotone ==
  ASSUME NEW k \in Nat, NEW j \in 0 .. k
  PROVE  2 ^ j <= 2 ^ k
<1> DEFINE d == k - j
           p == 2 ^ j
           q == 2 ^ d
<1>1. d \in Nat /\ j \in Nat /\ j + d = k
  OBVIOUS
<1>2. 2 ^ (j + d) = p * q
  <2> HIDE DEF d
  <2> QED
    BY <1>1, PowerSum
<1>3. p \in Nat \ {0} /\ q \in Nat \ {0}
  <2> HIDE DEF d
  <2> QED
    BY <1>1, PowerPositive
<1>4. p <= p * q
  <2> HIDE DEF p, q
  <2> QED
    BY <1>3
<1> HIDE DEF d, p, q
<1>5. 2 ^ k = p * q
  BY <1>1, <1>2
<1> QED
  BY <1>4, <1>5 DEF p
-----------------------------------------------------------------------------
(***************************************************************************)
(* The bits of a number.                                                   *)
(***************************************************************************)
LEMMA DivMod ==
  ASSUME NEW x \in Nat, NEW p \in Nat \ {0}
  PROVE  /\ x \div p \in Nat /\ x % p \in 0 .. p - 1
         /\ x = p * (x \div p) + (x % p)
<1>1. x \div p \in Int /\ x % p \in 0 .. p - 1 /\ x = p * (x \div p) + (x % p)
  OBVIOUS
<1>2. x \div p >= 0
  OBVIOUS
<1> QED
  BY <1>1, <1>2

LEMMA DivModUnique ==
  ASSUME NEW p \in Nat \ {0}, NEW q \in Nat, NEW r \in 0 .. p - 1
  PROVE  (p * q + r) \div p = q /\ (p * q + r) % p = r
  OBVIOUS

LEMMA Halves ==
  ASSUME NEW x \in Nat, NEW p \in Nat \ {0}
  PROVE  /\ x \div (2 * p) = (x \div p) \div 2
         /\ x \div (2 * p) = (x \div 2) \div p
         /\ x % (2 * p) = 2 * ((x \div 2) % p) + (x % 2)
<1>1. x \div (2 * p) = (x \div p) \div 2
  OBVIOUS
<1>2. x \div (2 * p) = (x \div 2) \div p
  OBVIOUS
<1>3. x % (2 * p) = 2 * ((x \div 2) % p) + (x % 2)
  <2> DEFINE h == x \div 2
             q == h \div p
             r == h % p
  <2>1. h \in Nat /\ x = 2 * h + (x % 2) /\ x % 2 \in {0, 1}
    OBVIOUS
  <2>2. q \in Nat /\ r \in 0 .. p - 1 /\ h = p * q + r
    <3> HIDE DEF h
    <3> QED
      BY <2>1, DivMod
  <2> HIDE DEF h, q, r
  <2>3. x = (2 * p) * q + (2 * r + (x % 2)) /\ 2 * r + (x % 2) \in 0 .. 2 * p - 1
    BY <2>1, <2>2
  <2>4. 2 * p \in Nat \ {0}
    OBVIOUS
  <2>5. x % (2 * p) = 2 * r + (x % 2)
    <3> DEFINE pp == 2 * p
               rr == 2 * r + (x % 2)
    <3>1. pp \in Nat \ {0} /\ q \in Nat /\ rr \in 0 .. pp - 1 /\ x = pp * q + rr
      BY <2>2, <2>3, <2>4
    <3> HIDE DEF pp, rr
    <3>2. x % pp = rr
      BY <3>1, DivModUnique
    <3> QED
      BY <3>2 DEF pp, rr
  <2> QED
    BY <2>5 DEF r, h
<1> QED
  BY <1>1, <1>2, <1>3

LEMMA BitRange ==
  ASSUME NEW x \in Nat, NEW i \in Nat
  PROVE  Bit(x, i) \in {0, 1}
<1>1. x \div 2 ^ i \in Nat
  BY PowerPositive, DivMod
<1> QED
  BY <1>1 DEF Bit

LEMMA BitZero ==
  ASSUME NEW x \in Nat
  PROVE  Bit(x, 0) = x % 2
<1>1. x \div 1 = x
  OBVIOUS
<1> QED
  BY <1>1, PowerZero DEF Bit

LEMMA BitNext ==
  ASSUME NEW x \in Nat, NEW i \in Nat
  PROVE  Bit(x, i + 1) = Bit(x \div 2, i)
<1>1. 2 ^ (i + 1) = 2 * 2 ^ i
  BY PowerNext
<1>2. x \div (2 * 2 ^ i) = (x \div 2) \div 2 ^ i
  BY PowerPositive, Halves
<1> QED
  BY <1>1, <1>2 DEF Bit

(* Bits of what is left of a number when its k lowest bits are shifted out. *)
LEMMA BitShift ==
  ASSUME NEW x \in Nat, NEW j \in Nat, NEW k \in Nat
  PROVE  x \div 2 ^ k \in Nat /\ Bit(x \div 2 ^ k, j) = Bit(x, k + j)
<1> DEFINE S == {i \in 0 .. j : (x \div 2 ^ k) \div 2 ^ i = x \div 2 ^ (k + i)}
<1>1. x \div 2 ^ k \in Nat
  BY PowerPositive, DivMod
<1>2. 0 \in S
  <2> DEFINE y == x \div 2 ^ k
  <2>1. y \div 1 = y /\ k + 0 = k
    <3>1. y \in Nat
      BY <1>1
    <3> HIDE DEF y
    <3> QED
      BY <3>1
  <2> QED
    BY <2>1, PowerZero
<1>3. ASSUME NEW i \in 1 .. j, i - 1 \in S PROVE i \in S
  <2> DEFINE y == x \div 2 ^ k
             p == 2 ^ (i - 1)
             q == 2 ^ (k + (i - 1))
  <2>1. y \div p = x \div q
    BY <1>3
  <2>2. i - 1 \in Nat /\ k + (i - 1) \in Nat /\ (i - 1) + 1 = i /\ (k + (i - 1)) + 1 = k + i
    OBVIOUS
  <2>3. 2 ^ i = 2 * p /\ 2 ^ (k + i) = 2 * q
    BY ONLY <2>2, PowerNext
  <2>4. p \in Nat \ {0} /\ q \in Nat \ {0} /\ y \in Nat
    BY <1>1, <2>2, PowerPositive
  <2> HIDE DEF p, q, y
  <2>5. y \div (2 * p) = (y \div p) \div 2 /\ x \div (2 * q) = (x \div q) \div 2
    BY <2>4, Halves
  <2>6. y \div 2 ^ i = x \div 2 ^ (k + i)
    BY <2>1, <2>3, <2>5
  <2> QED
    BY <2>6 DEF y
<1> HIDE DEF S
<1>4. j \in S
  BY <1>2, <1>3, UpTo
<1> QED
  BY <1>1, <1>4 DEF Bit, S

(* The bits of a number that is put together from its lowest bit and the rest. *)
LEMMA BitOfDouble ==
  ASSUME NEW y \in Nat, NEW b \in {0, 1}
  PROVE  /\ 2 * y + b \in Nat /\ Bit(2 * y + b, 0) = b
         /\ \A i \in Nat : Bit(2 * y + b, i + 1) = Bit(y, i)
<1>1. 2 * y + b \in Nat /\ (2 * y + b) % 2 = b /\ (2 * y + b) \div 2 = y
  OBVIOUS
<1> QED
  BY <1>1, BitZero, BitNext

(* Numbers below 2^n with the same n bits are the same. *)
LEMMA BitsUnique ==
  ASSUME NEW n \in Nat, NEW x \in 0 .. 2 ^ n - 1, NEW y \in 0 .. 2 ^ n - 1,
         \A i \in 0 .. n - 1 : Bit(x, i) = Bit(y, i)
  PROVE  x = y
<1> DEFINE S == {k \in 0 .. n : \A u, v \in 0 .. 2 ^ k - 1 :
                   (\A i \in 0 .. k - 1 : Bit(u, i) = Bit(v, i)) => u = v}
<1>1. 0 \in S
  BY PowerZero
<1>2. ASSUME NEW k \in 1 .. n, k - 1 \in S PROVE k \in S
  <2> SUFFICES ASSUME NEW u \in 0 .. 2 ^ k - 1, NEW v \in 0 .. 2 ^ k - 1,
                      \A i \in 0 .. k - 1 : Bit(u, i) = Bit(v, i)
               PROVE  u = v
    OBVIOUS
  <2> DEFINE p == 2 ^ (k - 1)
  <2>1. 2 ^ k = 2 * p /\ p \in Nat \ {0}
    <3>1. k - 1 \in Nat /\ (k - 1) + 1 = k
      OBVIOUS
    <3> QED
      BY ONLY <3>1, PowerNext, PowerPositive
  <2>2. u \in Nat /\ v \in Nat /\ u \div 2 \in 0 .. p - 1 /\ v \div 2 \in 0 .. p - 1
    <3> HIDE DEF p
    <3> QED
      BY <2>1
  <2>3. ASSUME NEW i \in 0 .. (k - 1) - 1 PROVE Bit(u \div 2, i) = Bit(v \div 2, i)
    <3>1. i \in Nat /\ i + 1 \in 0 .. k - 1
      OBVIOUS
    <3>2. Bit(u, i + 1) = Bit(v, i + 1)
      BY <3>1
    <3> QED
      BY ONLY <3>1, <3>2, <2>2, BitNext
  <2>4. u \div 2 = v \div 2
    BY <1>2, <2>2, <2>3
  <2>5. u % 2 = v % 2
    <3>1. Bit(u, 0) = Bit(v, 0)
      OBVIOUS
    <3> QED
      BY <3>1, <2>2, BitZero
  <2> HIDE DEF S
  <2> QED
    BY <2>2, <2>4, <2>5
<1> HIDE DEF S
<1>3. n \in S
  BY <1>1, <1>2, UpTo
<1> QED
  BY <1>3 DEF S

(* The lowest n bits stay when the others are masked out. *)
LEMMA BitOfMod ==
  ASSUME NEW x \in Nat, NEW n \in Nat, NEW i \in 0 .. n - 1
  PROVE  Bit(x % 2 ^ n, i) = Bit(x, i)
<1> DEFINE S == {k \in 0 .. n : \A u \in Nat, j \in 0 .. k - 1 : Bit(u % 2 ^ k, j) = Bit(u, j)}
<1>1. 0 \in S
  OBVIOUS
<1>2. ASSUME NEW k \in 1 .. n, k - 1 \in S PROVE k \in S
  <2> SUFFICES ASSUME NEW u \in Nat, NEW j \in 0 .. k - 1
               PROVE  Bit(u % 2 ^ k, j) = Bit(u, j)
    OBVIOUS
  <2> DEFINE p == 2 ^ (k - 1)
             w == (u \div 2) % p
             b == u % 2
  <2>1. 2 ^ k = 2 * p /\ p \in Nat \ {0}
    <3>1. k - 1 \in Nat /\ (k - 1) + 1 = k
      OBVIOUS
    <3> QED
      BY ONLY <3>1, PowerNext, PowerPositive
  <2>2. u % 2 ^ k = 2 * w + b
    <3>1. u % (2 * p) = 2 * ((u \div 2) % p) + (u % 2)
      <4> HIDE DEF p
      <4> QED
        BY <2>1, Halves
    <3> QED
      BY <2>1, <3>1
  <2>3. w \in Nat /\ b \in {0, 1} /\ u \div 2 \in Nat
    <3> HIDE DEF p
    <3>1. u \div 2 \in Nat /\ b \in {0, 1}
      OBVIOUS
    <3> QED
      BY <3>1, <2>1, DivMod
  <2>4. CASE j = 0
    <3>1. Bit(2 * w + b, 0) = b
      <4> HIDE DEF w, b
      <4> QED
        BY <2>3, BitOfDouble
    <3> QED
      BY <2>2, <2>4, <3>1, BitZero
  <2>5. CASE j # 0
    <3>1. j - 1 \in Nat /\ j - 1 \in 0 .. (k - 1) - 1 /\ (j - 1) + 1 = j
      BY <2>5
    <3>2. Bit(w, j - 1) = Bit(u \div 2, j - 1)
      BY <1>2, <2>3, <3>1
    <3>3. Bit(2 * w + b, (j - 1) + 1) = Bit(w, j - 1)
      <4> HIDE DEF w, b
      <4>1. \A m \in Nat : Bit(2 * w + b, m + 1) = Bit(w, m)
        BY <2>3, BitOfDouble
      <4> QED
        BY <3>1, <4>1
    <3>4. Bit(u, (j - 1) + 1) = Bit(u \div 2, j - 1)
      BY <3>1, BitNext
    <3> QED
      BY <2>2, <3>1, <3>2, <3>3, <3>4
  <2> QED
    BY <2>4, <2>5
<1> HIDE DEF S
<1>3. n \in S
  BY <1>1, <1>2, UpTo
<1> QED
  BY <1>3 DEF S
-----------------------------------------------------------------------------
(***************************************************************************)
(* Numbers put together from digits, the highest first.                    *)
(***************************************************************************)
LEMMA HornerExists ==
  ASSUME NEW n \in Nat, NEW d \in [1 .. n -> {0, 1}]
  PROVE  \E f \in [0 .. n -> Nat] : f = [k \in 0 .. n |-> IF k = 0 THEN 0 ELSE 2 * f[k - 1] + d[k]]
<1> DEFINE G == [p \in (1 .. n) \X Nat |-> 2 * p[2] + d[p[1]]]
<1>1. G \in [(1 .. n) \X Nat -> Nat]
  <2> SUFFICES ASSUME NEW p \in (1 .. n) \X Nat PROVE 2 * p[2] + d[p[1]] \in Nat
    OBVIOUS
  <2>1. p[2] \in Nat /\ d[p[1]] \in {0, 1}
    OBVIOUS
  <2> QED
    BY <2>1
<1>2. \A i \in 1 .. n, y \in Nat : G[<<i, y>>] = 2 * y + d[i]
  OBVIOUS
<1> HIDE DEF G
<1>3. PICK f \in [0 .. n -> Nat] : f[0] = 0 /\ \A i \in 1 .. n : f[i] = G[<<i, f[i - 1]>>]
  <2>1. G \in Steps(n, Nat)
    BY <1>1 DEF Steps
  <2>2. \E f \in [0 .. n -> Nat] : Follows(f, n, 0, G)
    BY <2>1, Recursion
  <2> QED
    BY <2>2 DEF Follows
<1>4. ASSUME NEW k \in 0 .. n PROVE f[k] = IF k = 0 THEN 0 ELSE 2 * f[k - 1] + d[k]
  <2>1. CASE k = 0
    BY <1>3, <2>1
  <2>2. CASE k # 0
    <3>1. k \in 1 .. n /\ k - 1 \in 0 .. n
      BY <2>2
    <3> QED
      BY <1>2, <1>3, <2>2, <3>1
  <2> QED
    BY <2>1, <2>2
<1> QED
  BY <1>4

LEMMA Horner ==
  ASSUME NEW n \in Nat, NEW d \in [1 .. n -> {0, 1}], NEW f,
         f = [k \in 0 .. n |-> IF k = 0 THEN 0 ELSE 2 * f[k - 1] + d[k]]
  PROVE  f[n] \in 0 .. 2 ^ n - 1 /\ \A i \in 0 .. n - 1 : Bit(f[n], i) = d[n - i]
<1> DEFINE S == {k \in 0 .. n : /\ f[k] \in 0 .. 2 ^ k - 1
                              /\ \A i \in 0 .. k - 1 : Bit(f[k], i) = d[k - i]}
<1>1. 0 \in S
  <2>1. f[0] = 0
    OBVIOUS
  <2> QED
    BY <2>1, PowerZero
<1>2. ASSUME NEW k \in 1 .. n, k - 1 \in S PROVE k \in S
  <2> DEFINE p == 2 ^ (k - 1)
             y == f[k - 1]
             b == d[k]
  <2>1. 2 ^ k = 2 * p /\ p \in Nat \ {0}
    <3>1. k - 1 \in Nat /\ (k - 1) + 1 = k
      OBVIOUS
    <3> QED
      BY ONLY <3>1, PowerNext, PowerPositive
  <2>2. y \in 0 .. p - 1 /\ b \in {0, 1}
    BY <1>2
  <2>3. f[k] = 2 * y + b
    OBVIOUS
  <2>4. f[k] \in 0 .. 2 ^ k - 1
    <3> HIDE DEF p, y, b
    <3> QED
      BY <2>1, <2>2, <2>3
  <2>5. ASSUME NEW i \in 0 .. k - 1 PROVE Bit(f[k], i) = d[k - i]
    <3>1. y \in Nat /\ Bit(2 * y + b, 0) = b /\ \A j \in Nat : Bit(2 * y + b, j + 1) = Bit(y, j)
      <4> HIDE DEF y, b
      <4>1. y \in Nat
        BY <2>1, <2>2
      <4> QED
        BY <2>2, <4>1, BitOfDouble
    <3>2. CASE i = 0
      BY <2>3, <3>1, <3>2
    <3>3. CASE i # 0
      <4>1. i - 1 \in 0 .. (k - 1) - 1 /\ i - 1 \in Nat /\ (i - 1) + 1 = i /\ (k - 1) - (i - 1) = k - i
        BY <3>3
      <4>2. Bit(y, i - 1) = d[(k - 1) - (i - 1)]
        BY <1>2, <4>1
      <4>3. Bit(2 * y + b, (i - 1) + 1) = Bit(y, i - 1)
        <5> HIDE DEF y, b
        <5> QED
          BY <3>1, <4>1
      <4> QED
        BY <2>3, <4>1, <4>2, <4>3
    <3> QED
      BY <3>2, <3>3
  <2> QED
    BY <2>4, <2>5
<1> HIDE DEF S
<1>3. n \in S
  BY <1>1, <1>2, UpTo
<1> QED
  BY <1>3 DEF S

(* ReverseBits does what it is named for. *)
LEMMA ReversedBits ==
  ASSUME NEW x \in Nat, NEW n \in Nat
  PROVE  /\ ReverseBits(x, n) \in 0 .. 2 ^ n - 1
         /\ \A i \in 0 .. n - 1 : Bit(ReverseBits(x, n), i) = Bit(x, n - 1 - i)
<1> DEFINE d == [k \in 1 .. n |-> Bit(x, k - 1)]
           F(y) == y = [k \in 0 .. n |-> IF k = 0 THEN 0 ELSE 2 * y[k - 1] + Bit(x, k - 1)]
           H(y) == y = [k \in 0 .. n |-> IF k = 0 THEN 0 ELSE 2 * y[k - 1] + d[k]]
           r == CHOOSE y : F(y)
<1>1. d \in [1 .. n -> {0, 1}]
  <2> SUFFICES ASSUME NEW k \in 1 .. n PROVE Bit(x, k - 1) \in {0, 1}
    OBVIOUS
  <2>1. k - 1 \in Nat
    OBVIOUS
  <2> QED
    BY ONLY <2>1, x \in Nat, BitRange
<1>2. ASSUME NEW y PROVE F(y) <=> H(y)
  <2>1. ASSUME NEW k \in 0 .. n
        PROVE  (IF k = 0 THEN 0 ELSE 2 * y[k - 1] + Bit(x, k - 1))
                 = (IF k = 0 THEN 0 ELSE 2 * y[k - 1] + d[k])
    <3>1. k # 0 => d[k] = Bit(x, k - 1)
      OBVIOUS
    <3> QED
      BY <3>1
  <2> HIDE DEF d
  <2> QED
    BY <2>1
<1>3. \E y : H(y)
  <2> HIDE DEF d
  <2>1. \E y \in [0 .. n -> Nat] : y = [k \in 0 .. n |-> IF k = 0 THEN 0 ELSE 2 * y[k - 1] + d[k]]
    BY <1>1, HornerExists
  <2> QED
    BY <2>1
<1>4. H(r)
  <2> HIDE DEF F, H
  <2>1. \E y : F(y)
    BY <1>2, <1>3
  <2> QED
    BY <1>2, <2>1
<1>5. ReverseBits(x, n) = r[n]
  BY DEF ReverseBits
<1>6. r[n] \in 0 .. 2 ^ n - 1 /\ \A i \in 0 .. n - 1 : Bit(r[n], i) = d[n - i]
  <2> HIDE DEF r, d
  <2>1. r = [k \in 0 .. n |-> IF k = 0 THEN 0 ELSE 2 * r[k - 1] + d[k]]
    BY <1>4
  <2> QED
    BY <1>1, <2>1, Horner
<1>7. ASSUME NEW i \in 0 .. n - 1 PROVE d[n - i] = Bit(x, n - 1 - i)
  <2>1. n - i \in 1 .. n /\ (n - i) - 1 = n - 1 - i
    OBVIOUS
  <2> QED
    BY <2>1
<1> HIDE DEF r, d
<1> QED
  BY <1>5, <1>6, <1>7
-----------------------------------------------------------------------------
(***************************************************************************)
(* Canonical codes.                                                        *)
(***************************************************************************)
(* Code lengths as Admissible asks for them, whatever the frequencies. *)
CodeLengths(length, maxlen) ==
  /\ maxlen \in Nat \ {0}
  /\ IsFiniteSet(DOMAIN length) /\ DOMAIN length \subseteq Int
  /\ \A s \in DOMAIN length : length[s] \in 0 .. maxlen
  /\ KraftSum(length, maxlen)[maxlen] <= 2 ^ maxlen

(* All that but the room for the codes. *)
LengthTable(length, maxlen) ==
  /\ maxlen \in Nat \ {0}
  /\ IsFiniteSet(DOMAIN length) /\ DOMAIN length \subseteq Int
  /\ \A s \in DOMAIN length : length[s] \in 0 .. maxlen

(* How many codes of l bits there are. *)
Count(length, l) == Cardinality(OfLength(length, l))

(* They are a natural number. *)
LEMMA CountOfTable ==
  ASSUME NEW length, NEW maxlen, LengthTable(length, maxlen), NEW l
  PROVE  IsFiniteSet(OfLength(length, l)) /\ Count(length, l) \in Nat
<1>1. OfLength(length, l) \in SUBSET DOMAIN length /\ IsFiniteSet(DOMAIN length)
  BY DEF OfLength, LengthTable
<1>2. IsFiniteSet(OfLength(length, l))
  BY <1>1, FS_Subset
<1> QED
  BY <1>2, FS_CardinalityType DEF Count

(* KraftSum, as it goes from one length to the next. *)
LEMMA KraftOfTable ==
  ASSUME NEW length, NEW maxlen, LengthTable(length, maxlen)
  PROVE  LET K == KraftSum(length, maxlen)
         IN  /\ K \in [0 .. maxlen -> Nat] /\ K[0] = 0
             /\ \A l \in 1 .. maxlen : K[l] = K[l - 1] + Count(length, l) * 2 ^ (maxlen - l)
<1> DEFINE K == KraftSum(length, maxlen)
           F(k) == k = [l \in 0 .. maxlen |->
                          IF l = 0 THEN 0
                          ELSE k[l - 1] + Cardinality(OfLength(length, l)) * 2 ^ (maxlen - l)]
           G == [p \in (1 .. maxlen) \X Nat |-> p[2] + Count(length, p[1]) * 2 ^ (maxlen - p[1])]
<1>1. maxlen \in Nat
  BY DEF LengthTable
<1>2. ASSUME NEW l \in 1 .. maxlen, NEW y \in Nat
      PROVE  y + Count(length, l) * 2 ^ (maxlen - l) \in Nat
  <2> DEFINE c == Count(length, l)
             p == 2 ^ (maxlen - l)
  <2>1. c \in Nat
    BY CountOfTable
  <2>2. maxlen - l \in Nat
    BY <1>1
  <2>3. p \in Nat
    BY <2>2, PowerPositive
  <2> HIDE DEF c, p
  <2>4. y + c * p \in Nat
    BY <2>1, <2>3
  <2> QED
    BY <2>4 DEF c, p
<1>3. G \in Steps(maxlen, Nat)
  <2> SUFFICES ASSUME NEW p \in (1 .. maxlen) \X Nat
               PROVE  p[2] + Count(length, p[1]) * 2 ^ (maxlen - p[1]) \in Nat
    BY DEF Steps
  <2>1. p[1] \in 1 .. maxlen /\ p[2] \in Nat
    OBVIOUS
  <2> QED
    BY <2>1, <1>2
<1>4. \A l \in 1 .. maxlen, y \in Nat :
        G[<<l, y>>] = y + Count(length, l) * 2 ^ (maxlen - l)
  OBVIOUS
<1> HIDE DEF G
<1>5. PICK f \in [0 .. maxlen -> Nat] : f[0] = 0 /\ \A l \in 1 .. maxlen : f[l] = G[<<l, f[l - 1]>>]
  <2>1. \E f \in [0 .. maxlen -> Nat] : Follows(f, maxlen, 0, G)
    BY <1>1, <1>3, Recursion
  <2> QED
    BY <2>1 DEF Follows
<1>6. F(f)
  <2> SUFFICES ASSUME NEW l \in 0 .. maxlen
               PROVE  f[l] = IF l = 0 THEN 0
                             ELSE f[l - 1] + Cardinality(OfLength(length, l)) * 2 ^ (maxlen - l)
    OBVIOUS
  <2>1. CASE l = 0
    BY <1>5, <2>1
  <2>2. CASE l # 0
    <3>1. l \in 1 .. maxlen /\ f[l - 1] \in Nat
      BY <1>1, <2>2
    <3> QED
      BY <1>4, <1>5, <2>2, <3>1 DEF Count
  <2> QED
    BY <2>1, <2>2
<1>7. K = CHOOSE k : F(k)
  BY DEF KraftSum
<1>8. F(K)
  <2> HIDE DEF F, K
  <2> QED
    BY <1>6, <1>7
<1> HIDE DEF K
<1>9. K[0] = 0 /\ \A l \in 1 .. maxlen : K[l] = K[l - 1] + Count(length, l) * 2 ^ (maxlen - l)
  <2>1. K[0] = 0
    BY <1>1, <1>8
  <2>2. ASSUME NEW l \in 1 .. maxlen
        PROVE  K[l] = K[l - 1] + Count(length, l) * 2 ^ (maxlen - l)
    <3>1. l \in 0 .. maxlen /\ l # 0
      OBVIOUS
    <3> QED
      BY <1>8, <3>1 DEF Count
  <2> QED
    BY <2>1, <2>2
<1>10. \A l \in 0 .. maxlen : K[l] \in Nat
  <2> DEFINE S == {l \in 0 .. maxlen : K[l] \in Nat}
  <2>1. 0 \in S
    BY <1>1, <1>9
  <2>2. ASSUME NEW l \in 1 .. maxlen, l - 1 \in S PROVE l \in S
    BY <1>2, <1>9, <2>2
  <2> HIDE DEF S
  <2>3. \A l \in 0 .. maxlen : l \in S
    BY <1>1, <2>1, <2>2, UpTo
  <2> QED
    BY <2>3 DEF S
<1>11. K \in [0 .. maxlen -> Nat]
  <2>1. K = [l \in 0 .. maxlen |-> K[l]]
    BY <1>8
  <2> QED
    BY <1>10, <2>1
<1> QED
  BY <1>9, <1>11 DEF K

LEMMA CountNat ==
  ASSUME NEW length, NEW maxlen, CodeLengths(length, maxlen), NEW l
  PROVE  IsFiniteSet(OfLength(length, l)) /\ Count(length, l) \in Nat
<1>1. LengthTable(length, maxlen)
  BY DEF CodeLengths, LengthTable
<1> QED
  BY <1>1, CountOfTable

LEMMA KraftSteps ==
  ASSUME NEW length, NEW maxlen, CodeLengths(length, maxlen)
  PROVE  LET K == KraftSum(length, maxlen)
         IN  /\ K \in [0 .. maxlen -> Nat] /\ K[0] = 0
             /\ \A l \in 1 .. maxlen : K[l] = K[l - 1] + Count(length, l) * 2 ^ (maxlen - l)
<1>1. LengthTable(length, maxlen)
  BY DEF CodeLengths, LengthTable
<1> QED
  BY <1>1, KraftOfTable

LEMMA KraftMonotone ==
  ASSUME NEW length, NEW maxlen, CodeLengths(length, maxlen),
         NEW j \in 0 .. maxlen, NEW i \in 0 .. j
  PROVE  KraftSum(length, maxlen)[i] <= KraftSum(length, maxlen)[j]
<1> DEFINE K == KraftSum(length, maxlen)
           S == {l \in 0 .. j - i : K[i] <= K[i + l]}
<1>1. maxlen \in Nat
  BY DEF CodeLengths
<1>2. /\ K \in [0 .. maxlen -> Nat]
      /\ \A l \in 1 .. maxlen : K[l] = K[l - 1] + Count(length, l) * 2 ^ (maxlen - l)
  BY KraftSteps
<1> HIDE DEF K
<1>3. j - i \in Nat /\ i \in Nat /\ j \in Nat /\ i + 0 = i /\ i \in 0 .. maxlen /\ i + (j - i) = j
  BY <1>1
<1>4. 0 \in S
  <2>1. K[i] <= K[i]
    BY <1>2, <1>3
  <2> QED
    BY <1>3, <2>1
<1>5. ASSUME NEW l \in 1 .. j - i, l - 1 \in S PROVE l \in S
  <2> DEFINE m == i + l
             c == Count(length, m)
             p == 2 ^ (maxlen - m)
  <2>1. m \in 1 .. maxlen /\ m - 1 \in 0 .. maxlen /\ i + (l - 1) = m - 1 /\ maxlen - m \in Nat
    BY <1>1, <1>3
  <2>2. c \in Nat /\ p \in Nat
    <3>1. p \in Nat
      BY <2>1, PowerPositive
    <3> QED
      BY <3>1, CountNat
  <2>3. K[m] = K[m - 1] + c * p
    BY <1>2, <2>1
  <2>4. K[m] \in Nat /\ K[m - 1] \in Nat /\ K[i] \in Nat
    BY <1>2, <1>3, <2>1
  <2>5. K[i] <= K[m - 1]
    BY <1>5, <2>1
  <2>6. l \in 0 .. j - i
    BY <1>3
  <2> HIDE DEF c, p, m
  <2>7. c * p >= 0
    BY <2>2
  <2>8. K[i] <= K[m]
    BY <2>2, <2>3, <2>4, <2>5, <2>7
  <2> QED
    BY <2>6, <2>8 DEF m
<1> HIDE DEF S
<1>6. j - i \in S
  BY <1>3, <1>4, <1>5, UpTo
<1> QED
  BY <1>3, <1>6 DEF S, K

(* FirstCode, as it goes from one length to the next. *)
LEMMA FirstCodeSteps ==
  ASSUME NEW length, NEW maxlen, CodeLengths(length, maxlen)
  PROVE  LET C == FirstCode(length, maxlen)
         IN  /\ C \in [1 .. maxlen -> Nat] /\ C[1] = 0
             /\ \A l \in 2 .. maxlen : C[l] = 2 * (C[l - 1] + Count(length, l - 1))
<1> DEFINE C == FirstCode(length, maxlen)
           n == maxlen - 1
           F(c) == c = [l \in 1 .. maxlen |->
                          IF l = 1 THEN 0
                          ELSE 2 * (c[l - 1] + Cardinality(OfLength(length, l - 1)))]
           G == [p \in (1 .. n) \X Nat |-> 2 * (p[2] + Count(length, p[1]))]
<1>1. maxlen \in Nat \ {0} /\ n \in Nat
  BY DEF CodeLengths
<1>2. \A l : Count(length, l) \in Nat
  BY CountNat
<1>3. G \in Steps(n, Nat)
  <2> SUFFICES ASSUME NEW p \in (1 .. n) \X Nat
               PROVE  2 * (p[2] + Count(length, p[1])) \in Nat
    BY DEF Steps
  <2>1. p[2] \in Nat /\ Count(length, p[1]) \in Nat
    BY <1>2
  <2> QED
    BY <2>1
<1>4. \A l \in 1 .. n, y \in Nat : G[<<l, y>>] = 2 * (y + Count(length, l))
  OBVIOUS
<1> HIDE DEF G
<1>5. PICK f \in [0 .. n -> Nat] : f[0] = 0 /\ \A l \in 1 .. n : f[l] = G[<<l, f[l - 1]>>]
  <2>1. \E f \in [0 .. n -> Nat] : Follows(f, n, 0, G)
    BY <1>1, <1>3, Recursion
  <2> QED
    BY <2>1 DEF Follows
<1> DEFINE c == [l \in 1 .. maxlen |-> f[l - 1]]
<1>6. F(c)
  <2> SUFFICES ASSUME NEW l \in 1 .. maxlen
               PROVE  f[l - 1] = IF l = 1 THEN 0
                                 ELSE 2 * (c[l - 1] + Cardinality(OfLength(length, l - 1)))
    OBVIOUS
  <2>1. CASE l = 1
    BY <1>5, <2>1
  <2>2. CASE l # 1
    <3>1. l - 1 \in 1 .. n /\ l - 1 \in 1 .. maxlen /\ (l - 1) - 1 \in 0 .. n
      BY <1>1, <2>2
    <3>2. f[l - 1] = G[<<l - 1, f[(l - 1) - 1]>>]
      BY <1>5, <3>1
    <3>3. f[(l - 1) - 1] \in Nat
      BY <3>1
    <3>4. G[<<l - 1, f[(l - 1) - 1]>>] = 2 * (f[(l - 1) - 1] + Count(length, l - 1))
      BY <1>4, <3>1, <3>3
    <3>5. c[l - 1] = f[(l - 1) - 1]
      BY <3>1
    <3> HIDE DEF c
    <3> QED
      BY <2>2, <3>2, <3>4, <3>5 DEF Count
  <2> QED
    BY <2>1, <2>2
<1>7. C = CHOOSE d : F(d)
  BY DEF FirstCode
<1>8. F(C)
  <2> HIDE DEF F, C, c
  <2> QED
    BY <1>6, <1>7
<1> HIDE DEF C, c
<1>9. C[1] = 0
  BY <1>1, <1>8
<1>10. ASSUME NEW l \in 2 .. maxlen PROVE C[l] = 2 * (C[l - 1] + Count(length, l - 1))
  <2>1. l \in 1 .. maxlen /\ l # 1
    BY <1>1
  <2> QED
    BY <1>8, <2>1 DEF Count
<1>11. \A l \in 0 .. n : C[l + 1] \in Nat
  <2> DEFINE S == {l \in 0 .. n : C[l + 1] \in Nat}
  <2>1. 0 \in S
    BY <1>1, <1>9
  <2>2. ASSUME NEW l \in 1 .. n, l - 1 \in S PROVE l \in S
    <3>1. l + 1 \in 2 .. maxlen /\ (l + 1) - 1 = l /\ (l - 1) + 1 = l
      BY <1>1
    <3>2. C[l + 1] = 2 * (C[l] + Count(length, l))
      BY <1>10, <3>1
    <3>3. C[l] \in Nat /\ Count(length, l) \in Nat
      BY <1>2, <2>2, <3>1
    <3> QED
      BY <3>2, <3>3
  <2> HIDE DEF S
  <2>3. \A l \in 0 .. n : l \in S
    BY <1>1, <2>1, <2>2, UpTo
  <2> QED
    BY <2>3 DEF S
<1>12. C \in [1 .. maxlen -> Nat]
  <2>1. C = [l \in 1 .. maxlen |-> C[l]]
    BY <1>8
  <2>2. ASSUME NEW l \in 1 .. maxlen PROVE C[l] \in Nat
    <3>1. l - 1 \in 0 .. n /\ (l - 1) + 1 = l
      BY <1>1
    <3> QED
      BY <1>11, <3>1
  <2> QED
    BY <2>1, <2>2
<1> QED
  BY <1>9, <1>10, <1>12 DEF C

(* The codes of l bits begin where those of fewer bits end. *)
LEMMA FirstCodeKraft ==
  ASSUME NEW length, NEW maxlen, CodeLengths(length, maxlen), NEW l \in 1 .. maxlen
  PROVE  FirstCode(length, maxlen)[l] * 2 ^ (maxlen - l) = KraftSum(length, maxlen)[l - 1]
<1> DEFINE C == FirstCode(length, maxlen)
           K == KraftSum(length, maxlen)
           n == maxlen - 1
           S == {i \in 0 .. n : C[i + 1] * 2 ^ (maxlen - (i + 1)) = K[i]}
<1>1. maxlen \in Nat \ {0} /\ n \in Nat
  BY DEF CodeLengths
<1>2. /\ C \in [1 .. maxlen -> Nat] /\ C[1] = 0
      /\ \A i \in 2 .. maxlen : C[i] = 2 * (C[i - 1] + Count(length, i - 1))
  BY FirstCodeSteps
<1>3. /\ K \in [0 .. maxlen -> Nat] /\ K[0] = 0
      /\ \A i \in 1 .. maxlen : K[i] = K[i - 1] + Count(length, i) * 2 ^ (maxlen - i)
  BY KraftSteps
<1> HIDE DEF C, K
<1>4. 0 \in S
  <2>1. 2 ^ (maxlen - 1) \in Nat /\ 0 + 1 = 1
    BY <1>1, PowerPositive
  <2>2. C[1] * 2 ^ (maxlen - 1) = K[0]
    BY <1>2, <1>3, <2>1
  <2> QED
    BY <1>1, <2>1, <2>2
<1>5. ASSUME NEW i \in 1 .. n, i - 1 \in S PROVE i \in S
  <2> DEFINE p == 2 ^ (maxlen - (i + 1))
             q == 2 ^ (maxlen - i)
             m == Count(length, i)
  <2>1. i + 1 \in 2 .. maxlen /\ (i + 1) - 1 = i /\ (i - 1) + 1 = i /\ i \in 1 .. maxlen
        /\ maxlen - (i + 1) \in Nat /\ (maxlen - (i + 1)) + 1 = maxlen - i /\ i - 1 \in 0 .. maxlen
    BY <1>1
  <2>2. q = 2 * p /\ p \in Nat
    BY ONLY <2>1, PowerNext, PowerPositive
  <2>3. C[i] * q = K[i - 1]
    BY <1>5, <2>1
  <2>4. C[i + 1] = 2 * (C[i] + m) /\ C[i] \in Nat
    BY <1>2, <2>1
  <2>5. K[i] = K[i - 1] + m * q
    BY <1>3, <2>1
  <2>6. m \in Nat
    BY CountNat
  <2> HIDE DEF m, p, q
  <2>7. (2 * (C[i] + m)) * p = C[i] * (2 * p) + m * (2 * p)
    BY <2>2, <2>4, <2>6
  <2>8. C[i + 1] * p = K[i]
    BY <2>2, <2>3, <2>4, <2>5, <2>7
  <2> QED
    BY <2>8 DEF p
<1> HIDE DEF S
<1>6. \A i \in 0 .. n : i \in S
  BY <1>1, <1>4, <1>5, UpTo
<1>7. l - 1 \in 0 .. n /\ (l - 1) + 1 = l
  BY <1>1
<1>8. C[(l - 1) + 1] * 2 ^ (maxlen - ((l - 1) + 1)) = K[l - 1]
  BY <1>6, <1>7 DEF S
<1> QED
  BY <1>7, <1>8 DEF C, K

(* The rank of a symbol among those with as long a code. *)
Rank(length, s) == Cardinality({t \in OfLength(length, length[s]) : t < s})

LEMMA Ranks ==
  ASSUME NEW length, NEW maxlen, CodeLengths(length, maxlen), NEW s \in DOMAIN length
  PROVE  /\ Rank(length, s) \in Nat /\ Rank(length, s) < Count(length, length[s])
         /\ \A t \in DOMAIN length :
              length[t] = length[s] /\ s < t => Rank(length, s) < Rank(length, t)
<1> DEFINE Below(t) == {u \in OfLength(length, length[t]) : u < t}
<1>1. DOMAIN length \subseteq Int
  BY DEF CodeLengths
<1>2. ASSUME NEW t \in DOMAIN length
      PROVE  IsFiniteSet(Below(t)) /\ Rank(length, t) = Cardinality(Below(t)) /\ Rank(length, t) \in Nat
  <2>1. IsFiniteSet(OfLength(length, length[t])) /\ Below(t) \in SUBSET OfLength(length, length[t])
    BY CountNat
  <2>2. IsFiniteSet(Below(t))
    BY <2>1, FS_Subset
  <2> QED
    BY <2>2, FS_CardinalityType DEF Rank
<1>3. ASSUME NEW T, IsFiniteSet(T), Below(s) \subseteq T, s \in T
      PROVE  Rank(length, s) < Cardinality(T)
  <2>1. s \notin Below(s)
    BY <1>1
  <2>2. IsFiniteSet(Below(s) \cup {s}) /\ Cardinality(Below(s) \cup {s}) = Cardinality(Below(s)) + 1
    BY <1>2, <2>1, FS_AddElement
  <2>3. Below(s) \cup {s} \in SUBSET T
    BY <1>3
  <2>4. Cardinality(Below(s) \cup {s}) <= Cardinality(T)
    BY <1>3, <2>3, FS_Subset
  <2>5. Cardinality(T) \in Nat
    BY <1>3, FS_CardinalityType
  <2> HIDE DEF Below
  <2> QED
    BY <1>2, <2>2, <2>4, <2>5
<1>4. Rank(length, s) < Count(length, length[s])
  <2>1. Below(s) \subseteq OfLength(length, length[s]) /\ s \in OfLength(length, length[s])
    BY DEF OfLength
  <2> HIDE DEF Below
  <2> QED
    BY <1>3, <2>1, CountNat DEF Count
<1>5. ASSUME NEW t \in DOMAIN length, length[t] = length[s], s < t
      PROVE  Rank(length, s) < Rank(length, t)
  <2>1. Below(s) \subseteq Below(t) /\ s \in Below(t)
    BY <1>1, <1>5 DEF OfLength
  <2> HIDE DEF Below
  <2> QED
    BY <1>2, <1>3, <2>1
<1> QED
  BY <1>2, <1>4, <1>5

(* A code lies in the stretch that KraftSum leaves to its length. *)
LEMMA CanonicalBounds ==
  ASSUME NEW length, NEW maxlen, CodeLengths(length, maxlen),
         NEW s \in DOMAIN length, length[s] # 0
  PROVE  LET c == Canonical(length, maxlen, s)
             l == length[s]
             K == KraftSum(length, maxlen)
         IN  /\ l \in 1 .. maxlen
             /\ c = FirstCode(length, maxlen)[l] + Rank(length, s)
             /\ c \in 0 .. 2 ^ l - 1
             /\ K[l - 1] <= c * 2 ^ (maxlen - l)
             /\ (c + 1) * 2 ^ (maxlen - l) <= K[l]
<1> DEFINE c == Canonical(length, maxlen, s)
           l == length[s]
           K == KraftSum(length, maxlen)
           a == FirstCode(length, maxlen)[l]
           r == Rank(length, s)
           m == Count(length, l)
           p == 2 ^ (maxlen - l)
           q == 2 ^ l
<1>1. maxlen \in Nat \ {0} /\ l \in 1 .. maxlen
  BY DEF CodeLengths
<1>2. c = a + r
  BY DEF Canonical, Rank
<1>3. a \in Nat
  BY <1>1, FirstCodeSteps
<1>4. r \in Nat /\ r < m
  BY Ranks
<1>5. m \in Nat
  BY CountNat
<1>6. a * p = K[l - 1]
  BY <1>1, FirstCodeKraft
<1>7. K[l] = K[l - 1] + m * p /\ K[l] \in Nat /\ K[l - 1] \in Nat
  <2>1. l \in 0 .. maxlen /\ l - 1 \in 0 .. maxlen
    BY <1>1
  <2> HIDE DEF l
  <2> QED
    BY <1>1, <2>1, KraftSteps
<1>8. maxlen - l \in Nat /\ l \in Nat /\ (maxlen - l) + l = maxlen
  BY <1>1
<1>9. p \in Nat \ {0} /\ q \in Nat \ {0} /\ 2 ^ maxlen = p * q
  <2>1. 2 ^ ((maxlen - l) + l) = 2 ^ (maxlen - l) * 2 ^ l
    BY ONLY <1>8, PowerSum
  <2> QED
    BY <1>8, <2>1, PowerPositive
<1>10. K[l] <= p * q
  <2>1. l \in 0 .. maxlen /\ maxlen \in 0 .. maxlen
    BY <1>1
  <2>2. K[l] <= K[maxlen]
    BY <2>1, KraftMonotone
  <2>3. K[maxlen] <= 2 ^ maxlen /\ K[maxlen] \in Nat
    <3>1. K[maxlen] <= 2 ^ maxlen
      BY DEF CodeLengths
    <3> HIDE DEF K
    <3> QED
      BY <3>1, <2>1, KraftSteps DEF K
  <2> HIDE DEF K, p, q, l
  <2> QED
    BY <1>7, <1>9, <2>2, <2>3
<1> HIDE DEF c, l, K, a, r, m, p, q
<1>11. K[l - 1] <= c * p
  <2>1. (a + r) * p = a * p + r * p /\ r * p >= 0
    BY <1>3, <1>4, <1>9
  <2> QED
    BY <1>2, <1>6, <1>7, <1>3, <1>4, <1>9, <2>1
<1>12. (c + 1) * p <= K[l]
  <2>1. (a + r + 1) * p = a * p + (r + 1) * p
    BY <1>3, <1>4, <1>9
  <2>2. (r + 1) * p <= m * p
    BY <1>4, <1>5, <1>9
  <2> QED
    BY <1>2, <1>6, <1>7, <1>3, <1>4, <1>5, <1>9, <2>1, <2>2
<1>13. c \in 0 .. q - 1
  <2>1. c \in Nat
    BY <1>2, <1>3, <1>4
  <2>2. (c + 1) * p <= q * p
    BY <1>7, <1>9, <1>10, <1>12, <2>1
  <2>3. c + 1 <= q
    BY <1>9, <2>1, <2>2
  <2> QED
    BY <1>9, <2>1, <2>3
<1> QED
  BY <1>1, <1>2, <1>11, <1>12, <1>13 DEF c, l, K, a, r, p, q

(* No code begins another, not even one as long. *)
LEMMA CanonicalPrefixFree ==
  ASSUME NEW length, NEW maxlen, CodeLengths(length, maxlen),
         NEW s \in DOMAIN length, NEW t \in DOMAIN length,
         s # t, length[s] # 0, length[s] <= length[t]
  PROVE  Canonical(length, maxlen, t) \div 2 ^ (length[t] - length[s]) # Canonical(length, maxlen, s)
<1> DEFINE a == Canonical(length, maxlen, s)
           b == Canonical(length, maxlen, t)
           i == length[s]
           j == length[t]
           K == KraftSum(length, maxlen)
<1>1. maxlen \in Nat \ {0} /\ DOMAIN length \subseteq Int
      /\ i \in 0 .. maxlen /\ j \in 0 .. maxlen
  BY DEF CodeLengths
<1>2. i \in 1 .. maxlen /\ j \in 1 .. maxlen /\ length[t] # 0
  BY <1>1
<1>3. /\ a = FirstCode(length, maxlen)[i] + Rank(length, s)
      /\ b = FirstCode(length, maxlen)[j] + Rank(length, t)
      /\ a \in Nat /\ b \in Nat
      /\ (a + 1) * 2 ^ (maxlen - i) <= K[i]
      /\ K[j - 1] <= b * 2 ^ (maxlen - j)
  <2>1. 2 ^ i \in Nat /\ 2 ^ j \in Nat
    BY <1>2, PowerPositive
  <2>2. a \in 0 .. 2 ^ i - 1 /\ b \in 0 .. 2 ^ j - 1
    BY <1>2, CanonicalBounds
  <2> QED
    BY <1>2, <2>1, <2>2, CanonicalBounds
<1>4. CASE i = j
  <2>1. FirstCode(length, maxlen)[i] \in Nat /\ Rank(length, s) \in Nat /\ Rank(length, t) \in Nat
    BY <1>2, FirstCodeSteps, Ranks
  <2>2. Rank(length, s) # Rank(length, t)
    <3>1. s < t \/ t < s
      BY <1>1
    <3>2. s < t => Rank(length, s) < Rank(length, t)
      BY <1>4, Ranks
    <3>3. t < s => Rank(length, t) < Rank(length, s)
      BY <1>4, Ranks
    <3> QED
      BY <2>1, <3>1, <3>2, <3>3
  <2>3. a # b
    BY <1>3, <1>4, <2>1, <2>2
  <2>4. 2 ^ (j - i) = 1
    <3>1. j - i = 0
      <4> HIDE DEF i, j
      <4> QED
        BY <1>1, <1>4
    <3> QED
      BY <3>1, PowerZero
  <2> HIDE DEF a, b
  <2>5. b \div 1 = b
    BY <1>3
  <2> QED
    BY <2>3, <2>4, <2>5 DEF a, b
<1>5. CASE i # j
  <2> DEFINE p == 2 ^ (maxlen - j)
             q == 2 ^ (j - i)
  <2>1. i < j
    BY <1>1, <1>5
  <2>2. maxlen - j \in Nat /\ j - i \in Nat /\ (maxlen - j) + (j - i) = maxlen - i
        /\ i \in 0 .. j - 1 /\ j - 1 \in 0 .. maxlen /\ i \in 0 .. maxlen
    <3> HIDE DEF i, j
    <3> QED
      BY <1>1, <1>2, <2>1
  <2>3. 2 ^ (maxlen - i) = p * q /\ p \in Nat \ {0} /\ q \in Nat \ {0}
    BY ONLY <2>2, PowerSum, PowerPositive
  <2>4. K[i] <= K[j - 1]
    BY ONLY <2>2, CodeLengths(length, maxlen), KraftMonotone
  <2>5. K[i] \in Nat /\ K[j - 1] \in Nat
    BY <2>2, KraftSteps
  <2> HIDE DEF a, b, i, j, K, p, q
  <2>6. (a + 1) * (p * q) <= b * p
    <3>1. (a + 1) * (p * q) \in Nat /\ b * p \in Nat
      BY <1>3, <2>3
    <3> QED
      BY <1>3, <2>3, <2>4, <2>5, <3>1 DEF p
  <2>7. (a + 1) * q <= b
    <3>1. (a + 1) * (p * q) = ((a + 1) * q) * p
      BY <1>3, <2>3
    <3>2. (a + 1) * q \in Nat
      BY <1>3, <2>3
    <3> QED
      BY <1>3, <2>3, <2>6, <3>1, <3>2
  <2>8. b \div q >= a + 1
    BY <1>3, <2>3, <2>7
  <2>9. b \div q \in Nat
    BY <1>3, <2>3, DivMod
  <2>10. b \div q # a
    BY <1>3, <2>8, <2>9
  <2> QED
    BY <2>10 DEF a, b, q, i, j
<1> QED
  BY <1>4, <1>5
-----------------------------------------------------------------------------
(***************************************************************************)
(* Encode and decode tables.                                               *)
(***************************************************************************)
LEMMA EncodedBits ==
  ASSUME NEW length, NEW maxlen, CodeLengths(length, maxlen),
         NEW s \in DOMAIN length, length[s] # 0
  PROVE  LET e == EncodeTable(length, maxlen)[s]
         IN  /\ length[s] \in 1 .. maxlen /\ e \in 0 .. 2 ^ length[s] - 1
             /\ \A i \in 0 .. length[s] - 1 :
                  Bit(e, i) = Bit(Canonical(length, maxlen, s), length[s] - 1 - i)
<1> DEFINE c == Canonical(length, maxlen, s)
           l == length[s]
<1>1. l \in 1 .. maxlen /\ c \in 0 .. 2 ^ l - 1
  BY CanonicalBounds
<1>2. EncodeTable(length, maxlen)[s] = ReverseBits(c, l)
  BY <1>1 DEF EncodeTable
<1>3. l \in Nat /\ c \in Nat
  <2>1. l \in Nat
    BY <1>1 DEF CodeLengths
  <2> HIDE DEF c, l
  <2> QED
    BY <1>1, <2>1, PowerPositive
<1> HIDE DEF c, l
<1>4. /\ ReverseBits(c, l) \in 0 .. 2 ^ l - 1
      /\ \A i \in 0 .. l - 1 : Bit(ReverseBits(c, l), i) = Bit(c, l - 1 - i)
  BY <1>3, ReversedBits
<1> QED
  BY <1>1, <1>2, <1>4 DEF c, l

(* Of two symbols neither's code begins with the other's. *)
THEOREM CodesDiffer ==
  ASSUME NEW length, NEW maxlen, CodeLengths(length, maxlen),
         NEW s \in DOMAIN length, NEW t \in DOMAIN length,
         s # t, length[s] # 0, length[s] <= length[t]
  PROVE  \E i \in 0 .. length[s] - 1 :
           Bit(EncodeTable(length, maxlen)[s], i) # Bit(EncodeTable(length, maxlen)[t], i)
<1> DEFINE a == Canonical(length, maxlen, s)
           b == Canonical(length, maxlen, t)
           e == EncodeTable(length, maxlen)
           k == length[s]
           l == length[t]
           d == l - k
<1> SUFFICES ASSUME \A i \in 0 .. k - 1 : Bit(e[s], i) = Bit(e[t], i) PROVE FALSE
  OBVIOUS
<1>1. maxlen \in Nat /\ k \in 0 .. maxlen /\ l \in 0 .. maxlen /\ k # 0 /\ k <= l
  BY DEF CodeLengths
<1>2. l # 0 /\ k \in Nat /\ l \in Nat /\ d \in Nat /\ d + k = l
  <2> HIDE DEF k, l
  <2> QED
    BY <1>1
<1>3. a \in 0 .. 2 ^ k - 1 /\ b \in 0 .. 2 ^ l - 1
  BY <1>1, <1>2, CanonicalBounds
<1>4. /\ \A i \in 0 .. k - 1 : Bit(e[s], i) = Bit(a, k - 1 - i)
      /\ \A i \in 0 .. l - 1 : Bit(e[t], i) = Bit(b, l - 1 - i)
  BY <1>1, <1>2, EncodedBits
<1>5. b \div 2 ^ d # a
  BY <1>1, CanonicalPrefixFree
<1> HIDE DEF a, b, e, k, l
<1>6. 2 ^ k \in Nat \ {0} /\ 2 ^ l \in Nat \ {0} /\ 2 ^ d \in Nat \ {0} /\ 2 ^ l = 2 ^ d * 2 ^ k
  <2>1. 2 ^ (d + k) = 2 ^ d * 2 ^ k
    BY <1>2, PowerSum
  <2> QED
    BY <1>2, <2>1, PowerPositive
<1>7. a \in Nat /\ b \in Nat
  BY <1>3, <1>6
<1>8. b \div 2 ^ d \in 0 .. 2 ^ k - 1
  <2> DEFINE p == 2 ^ d
             q == 2 ^ k
  <2>1. p \in Nat \ {0} /\ q \in Nat \ {0} /\ b < p * q
    BY <1>3, <1>6, <1>7
  <2> HIDE DEF p, q
  <2>2. b \div p \in Nat /\ b = p * (b \div p) + (b % p) /\ b % p \in 0 .. p - 1
    BY <1>7, <2>1, DivMod
  <2>3. b \div p < q
    <3> DEFINE x == b \div p
    <3>1. x \in Nat /\ p * x < p * q
      BY <1>7, <2>1, <2>2
    <3> HIDE DEF x
    <3>2. x < q
      BY <2>1, <3>1
    <3> QED
      BY <3>2 DEF x
  <2>4. b \div p \in 0 .. q - 1
    BY <2>1, <2>2, <2>3
  <2> QED
    BY <2>4 DEF p, q
<1>9. ASSUME NEW j \in 0 .. k - 1 PROVE Bit(b \div 2 ^ d, j) = Bit(a, j)
  <2> DEFINE i == k - 1 - j
  <2>1. i \in 0 .. k - 1 /\ i \in 0 .. l - 1 /\ k - 1 - i = j /\ l - 1 - i = d + j /\ j \in Nat
    BY <1>1, <1>2
  <2>2. Bit(a, j) = Bit(b, d + j)
    BY <1>4, <2>1
  <2>3. Bit(b \div 2 ^ d, j) = Bit(b, d + j)
    BY <1>2, <1>7, <2>1, BitShift
  <2> QED
    BY <2>2, <2>3
<1>10. b \div 2 ^ d = a
  <2> HIDE DEF d
  <2> QED
    BY <1>2, <1>3, <1>8, <1>9, BitsUnique
<1> QED
  BY <1>5, <1>10

(* A symbol fills the entries that end in its code. *)
LEMMA FillsEntries ==
  ASSUME NEW length, NEW maxlen, CodeLengths(length, maxlen),
         NEW m \in 1 .. maxlen, NEW s \in DOMAIN length, NEW x \in Nat
  PROVE  Fills(length, EncodeTable(length, maxlen), m, s, x)
           <=> length[s] \in 1 .. m /\ x % 2 ^ length[s] = EncodeTable(length, maxlen)[s]
<1> DEFINE e == EncodeTable(length, maxlen)[s]
           l == length[s]
           p == 2 ^ l
<1>1. CASE l \notin 1 .. m
  BY <1>1 DEF Fills
<1>2. CASE l \in 1 .. m
  <2>1. m \in Nat /\ l \in Nat /\ l # 0
    <3>1. maxlen \in Nat
      BY DEF CodeLengths
    <3> HIDE DEF l
    <3> QED
      BY <1>2, <3>1
  <2>2. p \in Nat \ {0} /\ e \in 0 .. p - 1
    BY <2>1, PowerPositive, EncodedBits
  <2>3. Fills(length, EncodeTable(length, maxlen), m, s, x) <=> x >= e /\ (x - e) % p = 0
    BY <1>2 DEF Fills
  <2> HIDE DEF e, p, l
  <2>4. ASSUME x >= e, (x - e) % p = 0 PROVE x % p = e
    <3> DEFINE q == (x - e) \div p
    <3>1. x - e \in Nat
      BY <2>2, <2>4
    <3>2. q \in Nat /\ x - e = p * q + ((x - e) % p)
      BY <2>2, <3>1, DivMod
    <3> HIDE DEF q
    <3>3. x = p * q + e
      BY <2>2, <2>4, <3>2
    <3> QED
      BY <2>2, <3>2, <3>3, DivModUnique
  <2>5. ASSUME x % p = e PROVE x >= e /\ (x - e) % p = 0
    <3> DEFINE q == x \div p
    <3>1. q \in Nat /\ x = p * q + e
      BY <2>2, <2>5, DivMod
    <3> HIDE DEF q
    <3>2. p * q \in Nat
      BY <2>2, <3>1
    <3>3. x >= e /\ x - e = p * q + 0 /\ 0 \in 0 .. p - 1
      BY <2>2, <3>1, <3>2
    <3>4. (p * q + 0) % p = 0
      BY <2>2, <3>1, <3>3, DivModUnique
    <3> QED
      BY <3>3, <3>4
  <2> QED
    BY <1>2, <2>3, <2>4, <2>5 DEF e, p, l
<1> QED
  BY <1>1, <1>2

(* A decode table of m bits finds the symbol whose code comes next, unless   *)
(* that code is longer: then it has no symbol there.                         *)
THEOREM DecodeFinds ==
  ASSUME NEW length, NEW maxlen, CodeLengths(length, maxlen),
         NEW m \in 1 .. maxlen, NEW v \in DOMAIN length, length[v] # 0,
         NEW x \in 0 .. 2 ^ m - 1,
         \A i \in 0 .. length[v] - 1 :
           i < m => Bit(x, i) = Bit(EncodeTable(length, maxlen)[v], i)
  PROVE  DecodeTable(length, EncodeTable(length, maxlen), m)[x]
           = IF length[v] <= m THEN v ELSE NoSymbol
<1> DEFINE e == EncodeTable(length, maxlen)
           F(s) == Fills(length, e, m, s, x)
           S == {s \in DOMAIN length : F(s)}
<1>1. maxlen \in Nat /\ m \in Nat /\ m # 0 /\ \A s \in DOMAIN length : length[s] \in Nat
  <2>1. maxlen \in Nat /\ \A s \in DOMAIN length : length[s] \in 0 .. maxlen
    BY DEF CodeLengths
  <2> QED
    BY <2>1
<1>2. x \in Nat
  BY <1>1, PowerPositive
<1>3. \A s \in DOMAIN length : F(s) <=> length[s] \in 1 .. m /\ x % 2 ^ length[s] = e[s]
  BY <1>2, FillsEntries
<1>4. DecodeTable(length, e, m)[x] = IF S = {} THEN NoSymbol ELSE Max(S)
  BY DEF DecodeTable
<1> HIDE DEF F, e
<1>5. ASSUME NEW s \in DOMAIN length, F(s), s # v PROVE FALSE
  <2> DEFINE k == length[s]
             l == length[v]
  <2>1. k \in Nat /\ l \in Nat /\ k \in 1 .. m /\ l # 0 /\ k # 0
    BY <1>1, <1>3, <1>5
  <2>2. x % 2 ^ k = e[s]
    BY <1>3, <1>5
  <2>3. ASSUME NEW i \in 0 .. k - 1 PROVE Bit(e[s], i) = Bit(x, i)
    BY <1>2, <2>1, <2>2, BitOfMod
  <2>4. ASSUME NEW i \in 0 .. l - 1, i < m PROVE Bit(e[v], i) = Bit(x, i)
    BY <2>4 DEF e
  <2> HIDE DEF k, l
  <2>5. ASSUME NEW i \in 0 .. k - 1, i \in 0 .. l - 1 PROVE Bit(e[s], i) = Bit(e[v], i)
    <3>1. i < m
      BY <1>1, <2>1
    <3> QED
      BY <2>3, <2>4, <2>5, <3>1
  <2>6. CASE k <= l
    <3>1. \E i \in 0 .. k - 1 : Bit(e[s], i) # Bit(e[v], i)
      BY <1>5, <2>1, <2>6, CodesDiffer DEF k, l, e
    <3> QED
      BY <2>1, <2>5, <2>6, <3>1
  <2>7. CASE ~(k <= l)
    <3>1. \E i \in 0 .. l - 1 : Bit(e[v], i) # Bit(e[s], i)
      <4>1. l <= k
        BY <2>1, <2>7
      <4> QED
        BY <1>5, <2>1, <4>1, CodesDiffer DEF k, l, e
    <3> QED
      BY <2>1, <2>5, <2>7, <3>1
  <2> QED
    BY <2>6, <2>7
<1>6. CASE length[v] <= m
  <2> DEFINE l == length[v]
             p == 2 ^ l
  <2>1. l \in Nat /\ l \in 1 .. m
    BY <1>1, <1>6
  <2>2. p \in Nat \ {0} /\ e[v] \in 0 .. p - 1
    <3>1. e[v] \in 0 .. 2 ^ length[v] - 1
      BY EncodedBits DEF e
    <3> QED
      BY <2>1, <3>1, PowerPositive
  <2>3. x % p \in 0 .. p - 1
    <3> HIDE DEF p
    <3> QED
      BY <1>2, <2>2, DivMod
  <2>4. ASSUME NEW i \in 0 .. l - 1 PROVE Bit(x % p, i) = Bit(e[v], i)
    <3>1. Bit(x % p, i) = Bit(x, i)
      BY <1>2, <2>1, BitOfMod
    <3>2. i < m
      <4> HIDE DEF l
      <4> QED
        BY <1>1, <2>1
    <3> QED
      BY <3>1, <3>2 DEF e
  <2>5. x % p = e[v]
    <3> HIDE DEF l
    <3> QED
      BY <2>1, <2>2, <2>3, <2>4, BitsUnique
  <2>6. F(v)
    BY <1>3, <2>1, <2>5
  <2>7. S = {v}
    BY <1>5, <2>6
  <2>8. Max({v}) = v
    <3>1. v \in Int
      BY DEF CodeLengths
    <3> QED
      BY <3>1 DEF Max
  <2> QED
    BY <1>4, <1>6, <2>7, <2>8 DEF e
<1>7. CASE ~(length[v] <= m)
  <2>1. ~F(v)
    BY <1>1, <1>3, <1>7
  <2>2. S = {}
    BY <1>5, <2>1
  <2> QED
    BY <1>4, <1>7, <2>2 DEF e
<1> QED
  BY <1>6, <1>7
-----------------------------------------------------------------------------
(***************************************************************************)
(* Sums over finite sets.                                                  *)
(***************************************************************************)
(* What holds of no element and, with some, of one more holds of all. *)
LEMMA EverySubset ==
  ASSUME NEW S, IsFiniteSet(S), NEW P, {} \in P,
         \A U \in P : \A x \in S \ U : U \subseteq S => U \cup {x} \in P
  PROVE  \A U \in SUBSET S : U \in P
<1> DEFINE N == {n \in 0 .. Cardinality(S) : \A U \in SUBSET S : Cardinality(U) = n => U \in P}
<1>1. Cardinality(S) \in Nat
  BY FS_CardinalityType
<1>2. \A U \in SUBSET S : IsFiniteSet(U) /\ Cardinality(U) \in 0 .. Cardinality(S)
  <2> TAKE U \in SUBSET S
  <2>1. IsFiniteSet(U) /\ Cardinality(U) <= Cardinality(S)
    BY FS_Subset
  <2>2. Cardinality(U) \in Nat
    BY <2>1, FS_CardinalityType
  <2> QED
    BY <1>1, <2>1, <2>2
<1>3. 0 \in N
  <2>1. ASSUME NEW U \in SUBSET S, Cardinality(U) = 0 PROVE U \in P
    <3>1. U = {}
      BY <1>2, <2>1, FS_EmptySet
    <3> QED
      BY <3>1
  <2>2. 0 \in 0 .. Cardinality(S)
    BY <1>1
  <2> QED
    BY <2>1, <2>2
<1>4. ASSUME NEW n \in 1 .. Cardinality(S), n - 1 \in N PROVE n \in N
  <2>1. ASSUME NEW U \in SUBSET S, Cardinality(U) = n PROVE U \in P
    <3>1. IsFiniteSet(U) /\ U # {}
      BY <1>2, <2>1, FS_EmptySet
    <3>2. PICK x \in U : TRUE
      BY <3>1
    <3>3. Cardinality(U \ {x}) = n - 1 /\ U \ {x} \in SUBSET S
      BY <2>1, <3>1, <3>2, FS_RemoveElement
    <3>4. U \ {x} \in P
      BY <1>4, <3>3
    <3>5. x \in S \ (U \ {x}) /\ (U \ {x}) \cup {x} = U
      BY <3>2
    <3> QED
      BY <3>3, <3>4, <3>5
  <2>2. n \in 0 .. Cardinality(S)
    BY <1>1
  <2> QED
    BY <2>1, <2>2
<1> HIDE DEF N
<1>5. \A n \in 0 .. Cardinality(S) : n \in N
  BY <1>1, <1>3, <1>4, UpTo
<1> QED
  BY <1>2, <1>5 DEF N

(* T adds up what g has at each element of a subset of S. *)
AddsUp(T, g, S) ==
  /\ T \in [SUBSET S -> Nat] /\ T[{}] = 0
  /\ \A U \in SUBSET S : \A x \in S \ U : T[U \cup {x}] = g[x] + T[U]

LEMMA AddingExists ==
  ASSUME NEW S, IsFiniteSet(S), NEW g, \A s \in S : g[s] \in Nat
  PROVE  \E T : AddsUp(T, g, S)
<1> DEFINE P == {U \in SUBSET S : \E T : AddsUp(T, g, U)}
<1>1. {} \in P
  <2> DEFINE T == [U \in SUBSET {} |-> 0]
  <2>1. AddsUp(T, g, {})
    BY DEF AddsUp
  <2> QED
    BY <2>1
<1>2. ASSUME NEW U \in P, NEW x \in S \ U PROVE U \cup {x} \in P
  <2>1. PICK T : AddsUp(T, g, U)
    BY <1>2
  <2> DEFINE V == U \cup {x}
             R == [W \in SUBSET V |-> IF x \in W THEN g[x] + T[W \ {x}] ELSE T[W]]
  <2>2. g[x] \in Nat
    OBVIOUS
  <2>3. ASSUME NEW W \in SUBSET V PROVE W \ {x} \in SUBSET U /\ T[W \ {x}] \in Nat /\ (x \notin W => T[W] \in Nat)
    <3>1. W \ {x} \in SUBSET U
      OBVIOUS
    <3>2. x \notin W => W = W \ {x}
      OBVIOUS
    <3> QED
      BY <2>1, <3>1, <3>2 DEF AddsUp
  <2>4. R \in [SUBSET V -> Nat]
    <3>1. \A W \in SUBSET V : (IF x \in W THEN g[x] + T[W \ {x}] ELSE T[W]) \in Nat
      <4> TAKE W \in SUBSET V
      <4>1. CASE x \in W
        <5> DEFINE c == g[x]
                   d == T[W \ {x}]
        <5>1. c \in Nat /\ d \in Nat
          BY <2>2, <2>3
        <5> HIDE DEF c, d
        <5>2. c + d \in Nat
          BY <5>1
        <5> QED
          BY <4>1, <5>2 DEF c, d
      <4>2. CASE x \notin W
        BY <2>3, <4>2
      <4> QED
        BY <4>1, <4>2
    <3> QED
      BY <3>1
  <2>5. R[{}] = 0
    <3>1. T[{}] = 0
      BY <2>1 DEF AddsUp
    <3> QED
      BY <3>1
  <2>6. ASSUME NEW W \in SUBSET V, NEW y \in V \ W PROVE R[W \cup {y}] = g[y] + R[W]
    <3>1. W \cup {y} \in SUBSET V
      OBVIOUS
    <3>2. CASE y = x
      <4>1. (W \cup {x}) \ {x} = W /\ x \notin W
        BY <2>6, <3>2
      <4> QED
        BY <3>1, <3>2, <4>1
    <3>3. CASE y # x /\ x \in W
      <4>1. (W \cup {y}) \ {x} = (W \ {x}) \cup {y} /\ y \in U \ (W \ {x}) /\ W \ {x} \in SUBSET U
        BY <2>6, <3>3
      <4>2. T[(W \ {x}) \cup {y}] = g[y] + T[W \ {x}]
        BY <2>1, <4>1 DEF AddsUp
      <4>3. g[y] \in Nat /\ T[W \ {x}] \in Nat
        BY <2>3, <3>3
      <4>4. R[W \cup {y}] = g[x] + T[(W \cup {y}) \ {x}] /\ R[W] = g[x] + T[W \ {x}]
        BY <3>1, <3>3
      <4> DEFINE p == g[x]
                 q == g[y]
                 t == T[W \ {x}]
      <4>5. R[W \cup {y}] = p + (q + t) /\ R[W] = p + t
        BY <4>1, <4>2, <4>4
      <4>6. p \in Nat /\ q \in Nat /\ t \in Nat
        BY <2>2, <4>3
      <4> HIDE DEF R, p, q, t
      <4>7. p + (q + t) = q + (p + t)
        BY <4>6
      <4> QED
        BY <4>5, <4>7 DEF q
    <3>4. CASE y # x /\ x \notin W
      <4>1. W \in SUBSET U /\ y \in U \ W
        BY <2>6, <3>4
      <4>2. T[W \cup {y}] = g[y] + T[W]
        BY <2>1, <4>1 DEF AddsUp
      <4> QED
        BY <3>1, <3>4, <4>2
    <3> QED
      BY <3>2, <3>3, <3>4
  <2> HIDE DEF R
  <2>7. AddsUp(R, g, V)
    BY <2>4, <2>5, <2>6 DEF AddsUp
  <2> QED
    BY <2>7
<1>3. \A U \in SUBSET S : U \in P
  <2>1. \A U \in P : \A x \in S \ U : U \cup {x} \in P
    BY <1>2
  <2> HIDE DEF P
  <2> QED
    BY <1>1, <2>1, EverySubset
<1> QED
  BY <1>3

(* There is one sum only, and SumFunctionOnSet is it. *)
LEMMA SumIsUnique ==
  ASSUME NEW S, IsFiniteSet(S), NEW g, NEW T, AddsUp(T, g, S)
  PROVE  \A U \in SUBSET S : SumFunctionOnSet(g, U) = T[U]
<1> SUFFICES ASSUME NEW U \in SUBSET S PROVE SumFunctionOnSet(g, U) = T[U]
  OBVIOUS
<1> DEFINE Pick(s) == CHOOSE x \in s : TRUE
           F(f) == f = [s \in SUBSET U |-> IF s = {} THEN 0 ELSE g[Pick(s)] + f[s \ {Pick(s)}]]
           iter == CHOOSE f : F(f)
           R == [s \in SUBSET U |-> T[s]]
<1>1. SumFunctionOnSet(g, U) = iter[U]
  BY DEF SumFunctionOnSet, FoldFunctionOnSet, MapThenFoldSet
<1>2. \A s \in SUBSET U : s # {} => Pick(s) \in s /\ T[s] = g[Pick(s)] + T[s \ {Pick(s)}]
  <2> TAKE s \in SUBSET U
  <2> HAVE s # {}
  <2>1. Pick(s) \in s
    OBVIOUS
  <2> DEFINE x == Pick(s)
  <2> HIDE DEF Pick
  <2>2. s \ {x} \in SUBSET S /\ x \in S \ (s \ {x}) /\ (s \ {x}) \cup {x} = s
    BY <2>1
  <2> QED
    BY <2>1, <2>2 DEF AddsUp
<1>3. T[{}] = 0
  BY DEF AddsUp
<1> HIDE DEF Pick
<1>4. F(R)
  <2>1. \A s \in SUBSET U : R[s] = IF s = {} THEN 0 ELSE g[Pick(s)] + R[s \ {Pick(s)}]
    <3> TAKE s \in SUBSET U
    <3>1. CASE s = {}
      BY <1>3, <3>1
    <3>2. CASE s # {}
      <4>1. s \ {Pick(s)} \in SUBSET U
        OBVIOUS
      <4> QED
        BY <1>2, <3>2, <4>1
    <3> QED
      BY <3>1, <3>2
  <2>2. R = [s \in SUBSET U |-> R[s]]
    OBVIOUS
  <2> HIDE DEF R
  <2> QED
    BY <2>1, <2>2
<1>5. F(iter)
  <2> HIDE DEF F, R
  <2> QED
    BY <1>4
<1>6. \A s \in SUBSET U : iter[s] = IF s = {} THEN 0 ELSE g[Pick(s)] + iter[s \ {Pick(s)}]
  <2> HIDE DEF iter
  <2> QED
    BY <1>5
<1> HIDE DEF F, iter
<1> DEFINE N == {n \in 0 .. Cardinality(U) : \A s \in SUBSET U : Cardinality(s) = n => iter[s] = T[s]}
<1>7. IsFiniteSet(U) /\ Cardinality(U) \in Nat
  BY FS_Subset, FS_CardinalityType
<1>8. 0 \in N
  <2>1. ASSUME NEW s \in SUBSET U, Cardinality(s) = 0 PROVE iter[s] = T[s]
    <3>1. s = {}
      BY <1>7, <2>1, FS_Subset, FS_EmptySet
    <3> QED
      BY <1>3, <1>6, <3>1
  <2> QED
    BY <1>7, <2>1
<1>9. ASSUME NEW n \in 1 .. Cardinality(U), n - 1 \in N PROVE n \in N
  <2>1. ASSUME NEW s \in SUBSET U, Cardinality(s) = n PROVE iter[s] = T[s]
    <3>1. IsFiniteSet(s) /\ s # {}
      BY <1>7, <2>1, FS_Subset, FS_EmptySet
    <3> DEFINE x == Pick(s)
    <3>2. x \in s /\ T[s] = g[x] + T[s \ {x}]
      BY <1>2, <3>1
    <3>3. Cardinality(s \ {x}) = n - 1 /\ s \ {x} \in SUBSET U
      BY <2>1, <3>1, <3>2, FS_RemoveElement
    <3>4. iter[s \ {x}] = T[s \ {x}]
      BY <1>9, <3>3
    <3>5. iter[s] = g[x] + iter[s \ {x}]
      BY <1>6, <3>1
    <3> QED
      BY <3>2, <3>4, <3>5
  <2> QED
    BY <1>7, <2>1
<1> HIDE DEF N
<1>10. Cardinality(U) \in N
  BY <1>7, <1>8, <1>9, UpTo
<1>11. iter[U] = T[U]
  BY <1>10 DEF N
<1> QED
  BY <1>1, <1>11

(* Sums over the subsets of S: none, and one element more. *)
LEMMA SumSteps ==
  ASSUME NEW S, IsFiniteSet(S), NEW g, \A s \in S : g[s] \in Nat
  PROVE  /\ SumFunctionOnSet(g, {}) = 0
         /\ \A U \in SUBSET S : SumFunctionOnSet(g, U) \in Nat
         /\ \A U \in SUBSET S : \A x \in S \ U :
              SumFunctionOnSet(g, U \cup {x}) = g[x] + SumFunctionOnSet(g, U)
<1>1. PICK T : AddsUp(T, g, S)
  BY AddingExists
<1>2. \A U \in SUBSET S : SumFunctionOnSet(g, U) = T[U]
  BY <1>1, SumIsUnique
<1>3. {} \in SUBSET S /\ \A U \in SUBSET S : \A x \in S \ U : U \cup {x} \in SUBSET S
  OBVIOUS
<1> QED
  BY <1>1, <1>2, <1>3 DEF AddsUp

LEMMA SumType ==
  ASSUME NEW S, IsFiniteSet(S), NEW g, \A s \in S : g[s] \in Nat
  PROVE  SumFunctionOnSet(g, S) \in Nat
BY SumSteps

LEMMA SumPlus ==
  ASSUME NEW S, IsFiniteSet(S), NEW f, NEW g, NEW h,
         \A s \in S : f[s] \in Nat /\ g[s] \in Nat /\ h[s] = f[s] + g[s]
  PROVE  SumFunctionOnSet(h, S) = SumFunctionOnSet(f, S) + SumFunctionOnSet(g, S)
<1> DEFINE F(U) == SumFunctionOnSet(f, U)
           G(U) == SumFunctionOnSet(g, U)
           H(U) == SumFunctionOnSet(h, U)
           P == {U \in SUBSET S : H(U) = F(U) + G(U)}
<1>1. \A s \in S : h[s] \in Nat
  OBVIOUS
<1>2. F({}) = 0 /\ G({}) = 0 /\ H({}) = 0
  BY <1>1, SumSteps
<1>3. \A U \in SUBSET S : F(U) \in Nat /\ G(U) \in Nat /\ H(U) \in Nat
  BY <1>1, SumSteps
<1>4. \A U \in SUBSET S : \A x \in S \ U :
        F(U \cup {x}) = f[x] + F(U) /\ G(U \cup {x}) = g[x] + G(U) /\ H(U \cup {x}) = h[x] + H(U)
  <2>1. \A U \in SUBSET S : \A x \in S \ U : F(U \cup {x}) = f[x] + F(U)
    BY SumSteps
  <2>2. \A U \in SUBSET S : \A x \in S \ U : G(U \cup {x}) = g[x] + G(U)
    BY SumSteps
  <2>3. \A U \in SUBSET S : \A x \in S \ U : H(U \cup {x}) = h[x] + H(U)
    BY <1>1, SumSteps
  <2> HIDE DEF F, G, H
  <2> QED
    BY <2>1, <2>2, <2>3
<1> HIDE DEF F, G, H
<1>5. \A U \in SUBSET S : U \in P
  <2>1. {} \in P
    BY <1>2
  <2>2. ASSUME NEW U \in P, NEW x \in S \ U PROVE U \cup {x} \in P
    <3> DEFINE V == U \cup {x}
               a == f[x]
               b == g[x]
               c == F(U)
               d == G(U)
    <3>1. U \in SUBSET S /\ V \in SUBSET S /\ H(U) = c + d
      BY <2>2
    <3>2. F(V) = a + c /\ G(V) = b + d /\ H(V) = (a + b) + (c + d)
      BY <1>4, <3>1
    <3>3. a \in Nat /\ b \in Nat /\ c \in Nat /\ d \in Nat
      BY <1>3, <3>1
    <3>4. H(V) = F(V) + G(V)
      <4> HIDE DEF a, b, c, d, V
      <4> QED
        BY <3>2, <3>3
    <3> QED
      BY <3>1, <3>4
  <2> HIDE DEF P
  <2> QED
    BY <2>1, <2>2, EverySubset
<1> QED
  BY <1>5 DEF F, G, H

LEMMA SumLeq ==
  ASSUME NEW S, IsFiniteSet(S), NEW f, NEW g,
         \A s \in S : f[s] \in Nat /\ g[s] \in Nat /\ f[s] <= g[s]
  PROVE  SumFunctionOnSet(f, S) <= SumFunctionOnSet(g, S)
<1> DEFINE d == [s \in S |-> g[s] - f[s]]
<1>1. \A s \in S : d[s] \in Nat /\ g[s] = f[s] + d[s]
  OBVIOUS
<1> HIDE DEF d
<1>2. SumFunctionOnSet(g, S) = SumFunctionOnSet(f, S) + SumFunctionOnSet(d, S)
  BY <1>1, SumPlus
<1>3. SumFunctionOnSet(f, S) \in Nat /\ SumFunctionOnSet(d, S) \in Nat
  BY <1>1, SumType
<1> QED
  BY <1>2, <1>3

LEMMA SumSame ==
  ASSUME NEW S, IsFiniteSet(S), NEW f, NEW g, \A s \in S : f[s] \in Nat /\ g[s] = f[s]
  PROVE  SumFunctionOnSet(f, S) = SumFunctionOnSet(g, S)
<1> DEFINE a == SumFunctionOnSet(f, S)
           b == SumFunctionOnSet(g, S)
<1>1. a \in Nat /\ b \in Nat
  BY SumType
<1>2. a <= b /\ b <= a
  <2>1. \A s \in S : f[s] \in Nat /\ g[s] \in Nat /\ f[s] <= g[s] /\ g[s] <= f[s]
    OBVIOUS
  <2> QED
    BY <2>1, SumLeq
<1> HIDE DEF a, b
<1>3. a = b
  BY <1>1, <1>2
<1> QED
  BY <1>3 DEF a, b

LEMMA SumTimes ==
  ASSUME NEW S, IsFiniteSet(S), NEW c \in Nat, NEW f, NEW g,
         \A s \in S : f[s] \in Nat /\ g[s] = c * f[s]
  PROVE  SumFunctionOnSet(g, S) = c * SumFunctionOnSet(f, S)
<1> DEFINE F(U) == SumFunctionOnSet(f, U)
           G(U) == SumFunctionOnSet(g, U)
           P == {U \in SUBSET S : G(U) = c * F(U)}
<1>1. \A s \in S : g[s] \in Nat
  <2> TAKE s \in S
  <2> DEFINE x == f[s]
  <2>1. x \in Nat /\ g[s] = c * x
    OBVIOUS
  <2> HIDE DEF x
  <2>2. c * x \in Nat
    BY <2>1
  <2> QED
    BY <2>1, <2>2
<1>2. F({}) = 0 /\ G({}) = 0
  BY <1>1, SumSteps
<1>3. \A U \in SUBSET S : F(U) \in Nat /\ G(U) \in Nat
  BY <1>1, SumSteps
<1>4. \A U \in SUBSET S : \A x \in S \ U : F(U \cup {x}) = f[x] + F(U) /\ G(U \cup {x}) = g[x] + G(U)
  <2>1. \A U \in SUBSET S : \A x \in S \ U : F(U \cup {x}) = f[x] + F(U)
    BY SumSteps
  <2>2. \A U \in SUBSET S : \A x \in S \ U : G(U \cup {x}) = g[x] + G(U)
    BY <1>1, SumSteps
  <2> HIDE DEF F, G
  <2> QED
    BY <2>1, <2>2
<1> HIDE DEF F, G
<1>5. \A U \in SUBSET S : U \in P
  <2>1. {} \in P
    BY <1>2
  <2>2. ASSUME NEW U \in P, NEW x \in S \ U PROVE U \cup {x} \in P
    <3> DEFINE V == U \cup {x}
               a == f[x]
               d == F(U)
    <3>1. U \in SUBSET S /\ V \in SUBSET S /\ G(U) = c * d
      BY <2>2
    <3>2. F(V) = a + d /\ G(V) = c * a + c * d
      BY <1>4, <3>1
    <3>3. a \in Nat /\ d \in Nat
      BY <1>3, <3>1
    <3>4. c * a + c * d = c * (a + d)
      <4> HIDE DEF a, d
      <4> QED
        BY <3>3
    <3> QED
      BY <3>1, <3>2, <3>4
  <2> HIDE DEF P
  <2> QED
    BY <2>1, <2>2, EverySubset
<1> QED
  BY <1>5 DEF F, G

LEMMA SumOnes ==
  ASSUME NEW S, IsFiniteSet(S), NEW f, \A s \in S : f[s] = 1
  PROVE  SumFunctionOnSet(f, S) = Cardinality(S)
<1> DEFINE F(U) == SumFunctionOnSet(f, U)
           P == {U \in SUBSET S : F(U) = Cardinality(U)}
<1>1. \A s \in S : f[s] \in Nat
  OBVIOUS
<1>2. F({}) = 0 /\ Cardinality({}) = 0
  BY <1>1, SumSteps, FS_EmptySet
<1>3. \A U \in SUBSET S : \A x \in S \ U : F(U \cup {x}) = f[x] + F(U)
  BY <1>1, SumSteps
<1> HIDE DEF F
<1>4. \A U \in SUBSET S : U \in P
  <2>1. {} \in P
    BY <1>2
  <2>2. ASSUME NEW U \in P, NEW x \in S \ U PROVE U \cup {x} \in P
    <3>1. IsFiniteSet(U) /\ Cardinality(U) \in Nat
      BY <2>2, FS_Subset, FS_CardinalityType
    <3>2. Cardinality(U \cup {x}) = Cardinality(U) + 1
      BY <2>2, <3>1, FS_AddElement
    <3>3. F(U \cup {x}) = 1 + Cardinality(U)
      BY <1>3, <2>2
    <3> QED
      BY <2>2, <3>1, <3>2, <3>3
  <2> HIDE DEF P
  <2> QED
    BY <2>1, <2>2, EverySubset
<1> QED
  BY <1>4 DEF F

LEMMA SumConst ==
  ASSUME NEW S, IsFiniteSet(S), NEW c \in Nat, NEW f, \A s \in S : f[s] = c
  PROVE  SumFunctionOnSet(f, S) = c * Cardinality(S)
<1> DEFINE one == [s \in S |-> 1]
<1>1. \A s \in S : one[s] = 1 /\ one[s] \in Nat /\ f[s] = c * one[s]
  OBVIOUS
<1> HIDE DEF one
<1> QED
  BY <1>1, SumOnes, SumTimes

LEMMA SumUnion ==
  ASSUME NEW A, NEW B, IsFiniteSet(A), IsFiniteSet(B), A \cap B = {},
         NEW g, \A s \in A \cup B : g[s] \in Nat
  PROVE  SumFunctionOnSet(g, A \cup B) = SumFunctionOnSet(g, A) + SumFunctionOnSet(g, B)
<1> DEFINE G(U) == SumFunctionOnSet(g, U)
           P == {U \in SUBSET B : G(A \cup U) = G(A) + G(U)}
           S == A \cup B
<1>1. IsFiniteSet(S)
  BY FS_Union
<1>2. /\ G({}) = 0 /\ \A U \in SUBSET S : G(U) \in Nat
      /\ \A U \in SUBSET S : \A x \in S \ U : G(U \cup {x}) = g[x] + G(U)
  <2>1. \A s \in S : g[s] \in Nat
    OBVIOUS
  <2> HIDE DEF S
  <2> QED
    BY <1>1, <2>1, SumSteps
<1> HIDE DEF G
<1>3. \A U \in SUBSET B : U \in P
  <2>1. {} \in P
    <3>1. A \cup {} = A /\ A \in SUBSET S /\ {} \in SUBSET B
      OBVIOUS
    <3>2. G(A) = G(A) + G({})
      BY <1>2, <3>1
    <3> QED
      BY <3>1, <3>2
  <2>2. ASSUME NEW U \in P, NEW x \in B \ U PROVE U \cup {x} \in P
    <3> DEFINE a == G(A)
               b == G(U)
               y == g[x]
    <3>1. U \in SUBSET B /\ U \cup {x} \in SUBSET B /\ G(A \cup U) = a + b
      BY <2>2
    <3>2. /\ U \in SUBSET S /\ A \cup U \in SUBSET S /\ x \in S \ U /\ x \in S \ (A \cup U) /\ A \in SUBSET S
          /\ (A \cup U) \cup {x} = A \cup (U \cup {x})
      BY <2>2
    <3>3. G(A \cup (U \cup {x})) = y + (a + b) /\ G(U \cup {x}) = y + b
      BY <1>2, <3>1, <3>2
    <3>4. a \in Nat /\ b \in Nat /\ y \in Nat
      BY <1>2, <3>2
    <3>5. y + (a + b) = a + (y + b)
      <4> HIDE DEF a, b, y
      <4> QED
        BY <3>4
    <3> QED
      BY <3>1, <3>3, <3>5
  <2> HIDE DEF P
  <2> QED
    BY <2>1, <2>2, EverySubset
<1> QED
  BY <1>3 DEF G

(* Without one of its elements. *)
LEMMA SumWithout ==
  ASSUME NEW S, IsFiniteSet(S), NEW x \in S, NEW g, \A s \in S : g[s] \in Nat
  PROVE  SumFunctionOnSet(g, S) = g[x] + SumFunctionOnSet(g, S \ {x})
<1>1. S \ {x} \in SUBSET S /\ x \in S \ (S \ {x}) /\ (S \ {x}) \cup {x} = S
  OBVIOUS
<1>2. \A U \in SUBSET S : \A y \in S \ U :
        SumFunctionOnSet(g, U \cup {y}) = g[y] + SumFunctionOnSet(g, U)
  BY SumSteps
<1> QED
  BY <1>1, <1>2

LEMMA SumSingleton ==
  ASSUME NEW x, NEW g, g[x] \in Nat
  PROVE  SumFunctionOnSet(g, {x}) = g[x]
<1>1. IsFiniteSet({x}) /\ {x} \ {x} = {} /\ \A s \in {x} : g[s] \in Nat
  BY FS_Singleton
<1>2. SumFunctionOnSet(g, {x}) = g[x] + SumFunctionOnSet(g, {})
  BY <1>1, SumWithout
<1>3. SumFunctionOnSet(g, {}) = 0
  BY <1>1, SumSteps
<1> QED
  BY <1>2, <1>3

(* Over fewer elements. *)
LEMMA SumSubset ==
  ASSUME NEW S, IsFiniteSet(S), NEW A \in SUBSET S, NEW g, \A s \in S : g[s] \in Nat
  PROVE  SumFunctionOnSet(g, A) <= SumFunctionOnSet(g, S)
<1> DEFINE B == S \ A
<1>1. IsFiniteSet(A) /\ IsFiniteSet(B) /\ A \cap B = {} /\ A \cup B = S
  BY FS_Subset
<1> HIDE DEF B
<1>2. SumFunctionOnSet(g, S) = SumFunctionOnSet(g, A) + SumFunctionOnSet(g, B)
  BY <1>1, SumUnion
<1>3. SumFunctionOnSet(g, A) \in Nat /\ SumFunctionOnSet(g, B) \in Nat
  BY <1>1, SumType
<1> QED
  BY <1>2, <1>3

(* What each element of S adds, by the class it is in, is for each class as   *)
(* often what it adds as there are elements in it.                           *)
Members(S, class, c) == {s \in S : class[s] = c}

LEMMA SumByClass ==
  ASSUME NEW S, IsFiniteSet(S), NEW C, IsFiniteSet(C), NEW class, \A s \in S : class[s] \in C,
         NEW len, \A c \in C : len[c] \in Nat,
         NEW f, \A c \in C : f[c] = Cardinality(Members(S, class, c)),
         NEW g, \A s \in S : g[s] = len[class[s]],
         NEW e, \A c \in C : e[c] = f[c] * len[c]
  PROVE  /\ \A c \in C : f[c] \in Nat
         /\ SumFunctionOnSet(g, S) = SumFunctionOnSet(e, C)
<1> DEFINE In(U, c) == Members(U, class, c)
           h(U) == [c \in C |-> Cardinality(In(U, c)) * len[c]]
           P == {U \in SUBSET S : SumFunctionOnSet(g, U) = SumFunctionOnSet(h(U), C)}
<1>1. \A s \in S : g[s] = len[class[s]] /\ g[s] \in Nat
  OBVIOUS
<1>2. ASSUME NEW U \in SUBSET S, NEW c \in C
      PROVE  Cardinality(In(U, c)) \in Nat /\ IsFiniteSet(In(U, c))
  <2>1. In(U, c) \in SUBSET S
    BY DEF Members
  <2> HIDE DEF In
  <2> QED
    BY <2>1, FS_Subset, FS_CardinalityType
<1>3. \A U \in SUBSET S : \A c \in C : h(U)[c] = Cardinality(In(U, c)) * len[c] /\ h(U)[c] \in Nat
  <2> SUFFICES ASSUME NEW U \in SUBSET S, NEW c \in C
               PROVE  h(U)[c] = Cardinality(In(U, c)) * len[c] /\ h(U)[c] \in Nat
    OBVIOUS
  <2>1. h(U)[c] = Cardinality(In(U, c)) * len[c]
    OBVIOUS
  <2>2. Cardinality(In(U, c)) \in Nat /\ len[c] \in Nat
    BY <1>2
  <2> HIDE DEF h, In
  <2> QED
    BY <2>1, <2>2
<1>4. {} \in P
  <2>1. \A c \in C : h({})[c] = 0
    <3> SUFFICES ASSUME NEW c \in C PROVE h({})[c] = 0
      OBVIOUS
    <3>1. In({}, c) = {}
      BY DEF Members
    <3>2. Cardinality(In({}, c)) = 0
      BY <3>1, FS_EmptySet
    <3>3. h({})[c] = Cardinality(In({}, c)) * len[c] /\ len[c] \in Nat
      BY <1>3
    <3> HIDE DEF h, In
    <3> QED
      BY <3>2, <3>3
  <2>2. SumFunctionOnSet(h({}), C) = 0 * Cardinality(C)
    <3> HIDE DEF h
    <3> QED
      BY <2>1, SumConst
  <2>3. SumFunctionOnSet(g, {}) = 0
    <3> QED
      BY <1>1, SumSteps
  <2>4. Cardinality(C) \in Nat
    BY FS_CardinalityType
  <2> HIDE DEF h
  <2>5. SumFunctionOnSet(g, {}) = SumFunctionOnSet(h({}), C)
    BY <2>2, <2>3, <2>4
  <2> QED
    BY <2>5
<1>5. ASSUME NEW U \in P, NEW x \in S \ U PROVE U \cup {x} \in P
  <2> DEFINE V == U \cup {x}
             d == class[x]
             D == C \ {d}
  <2>1. U \in SUBSET S /\ V \in SUBSET S /\ d \in C /\ IsFiniteSet(D)
    BY FS_Subset
  <2>2. SumFunctionOnSet(g, V) = g[x] + SumFunctionOnSet(g, U)
    <3> QED
      BY <1>1, <2>1, SumSteps
  <2>3. \A c \in D : h(U)[c] \in Nat /\ h(V)[c] = h(U)[c]
    <3> SUFFICES ASSUME NEW c \in D PROVE h(U)[c] \in Nat /\ h(V)[c] = h(U)[c]
      OBVIOUS
    <3>1. In(V, c) = In(U, c)
      BY DEF Members
    <3> HIDE DEF In
    <3> QED
      BY <1>3, <2>1, <3>1
  <2>4. h(V)[d] = h(U)[d] + len[d]
    <3>1. In(V, d) = In(U, d) \cup {x} /\ x \notin In(U, d)
      BY DEF Members
    <3>2. Cardinality(In(V, d)) = Cardinality(In(U, d)) + 1
      <4> HIDE DEF In
      <4> QED
        BY <1>2, <2>1, <3>1, FS_AddElement
    <3> DEFINE n == Cardinality(In(U, d))
               m == len[d]
    <3>3. h(V)[d] = (n + 1) * m /\ h(U)[d] = n * m
      BY <1>3, <2>1, <3>2
    <3>4. n \in Nat /\ m \in Nat
      BY <1>2, <2>1
    <3> HIDE DEF n, m, h
    <3>5. h(V)[d] = h(U)[d] + m
      BY <3>3, <3>4
    <3> QED
      BY <3>5 DEF m
  <2> HIDE DEF h
  <2>5. SumFunctionOnSet(h(V), C) = h(V)[d] + SumFunctionOnSet(h(V), D)
    BY <1>3, <2>1, SumWithout
  <2>6. SumFunctionOnSet(h(U), C) = h(U)[d] + SumFunctionOnSet(h(U), D)
    BY <1>3, <2>1, SumWithout
  <2>7. SumFunctionOnSet(h(V), D) = SumFunctionOnSet(h(U), D)
    BY <2>1, <2>3, SumSame
  <2>8. g[x] = len[d] /\ len[d] \in Nat /\ SumFunctionOnSet(g, U) = SumFunctionOnSet(h(U), C)
    BY <2>1
  <2>9. h(U)[d] \in Nat /\ SumFunctionOnSet(h(U), D) \in Nat
    <3>1. SumFunctionOnSet(h(U), D) \in Nat
      BY <2>1, <2>3, SumType
    <3> QED
      BY <1>3, <2>1, <3>1
  <2> HIDE DEF D, d, V
  <2>10. SumFunctionOnSet(g, V) = SumFunctionOnSet(h(V), C)
    BY <2>2, <2>4, <2>5, <2>6, <2>7, <2>8, <2>9
  <2> QED
    BY <2>1, <2>10 DEF V
<1> HIDE DEF P
<1>6. S \in P
  BY <1>4, <1>5, EverySubset
<1>7. SumFunctionOnSet(h(S), C) = SumFunctionOnSet(e, C)
  <2>1. \A c \in C : h(S)[c] \in Nat /\ e[c] = h(S)[c]
    BY <1>3
  <2> HIDE DEF h
  <2> QED
    BY <2>1, SumSame
<1>8. SumFunctionOnSet(g, S) = SumFunctionOnSet(h(S), C)
  BY <1>6 DEF P
<1> HIDE DEF h
<1>9. \A c \in C : f[c] \in Nat
  BY <1>2
<1> QED
  BY <1>7, <1>8, <1>9

(* A sum counts as many places in columns as its elements say. *)
Columns(g, S, N) == {p \in S \X (0 .. N - 1) : p[2] < g[p[1]]}

LEMMA SumCounts ==
  ASSUME NEW S, IsFiniteSet(S), NEW N \in Nat, NEW g, \A s \in S : g[s] \in 0 .. N
  PROVE  IsFiniteSet(Columns(g, S, N)) /\ SumFunctionOnSet(g, S) = Cardinality(Columns(g, S, N))
<1> DEFINE C(U) == {p \in U \X (0 .. N - 1) : p[2] < g[p[1]]}
           G(U) == SumFunctionOnSet(g, U)
           P == {U \in SUBSET S : IsFiniteSet(C(U)) /\ G(U) = Cardinality(C(U))}
<1>1. \A s \in S : g[s] \in Nat
  OBVIOUS
<1>2. /\ G({}) = 0 /\ \A U \in SUBSET S : G(U) \in Nat
      /\ \A U \in SUBSET S : \A x \in S \ U : G(U \cup {x}) = g[x] + G(U)
  BY <1>1, SumSteps
<1> HIDE DEF G
<1>3. \A U \in SUBSET S : U \in P
  <2>1. {} \in P
    <3>1. C({}) = {}
      OBVIOUS
    <3> HIDE DEF C
    <3> QED
      BY <1>2, <3>1, FS_EmptySet
  <2>2. ASSUME NEW U \in P, NEW x \in S \ U PROVE U \cup {x} \in P
    <3> DEFINE n == g[x]
               B == {x} \X (0 .. n - 1)
    <3>1. n \in 0 .. N /\ n \in Nat
      OBVIOUS
    <3>2. C(U \cup {x}) = C(U) \cup B
      <4>1. ASSUME NEW p \in C(U \cup {x}) PROVE p \in C(U) \cup B
        <5>1. CASE p[1] = x
          <6>1. p[2] \in 0 .. n - 1
            BY <5>1
          <6> HIDE DEF n
          <6> QED
            BY <5>1, <6>1
        <5>2. CASE p[1] # x
          BY <5>2
        <5> QED
          BY <5>1, <5>2
      <4>2. ASSUME NEW p \in B PROVE p \in C(U \cup {x})
        <5>1. p[1] = x /\ p[2] \in 0 .. n - 1 /\ p = <<p[1], p[2]>>
          OBVIOUS
        <5>2. p[2] \in 0 .. N - 1 /\ p[2] < n
          <6> HIDE DEF n
          <6> QED
            BY <3>1, <5>1
        <5> QED
          BY <5>1, <5>2
      <4>3. ASSUME NEW p \in C(U) PROVE p \in C(U \cup {x})
        OBVIOUS
      <4> QED
        BY <4>1, <4>2, <4>3
    <3>3. C(U) \cap B = {}
      OBVIOUS
    <3>4. IsFiniteSet(B) /\ Cardinality(B) = n
      <4> HIDE DEF n
      <4>1. IsFiniteSet(0 .. n - 1) /\ Cardinality(0 .. n - 1) = n
        BY <3>1, FS_Interval
      <4>2. IsFiniteSet({x}) /\ Cardinality({x}) = 1
        BY FS_Singleton
      <4> DEFINE X == {x}
                 Y == 0 .. n - 1
      <4> HIDE DEF X, Y
      <4>3. IsFiniteSet(X \X Y) /\ Cardinality(X \X Y) = Cardinality(X) * Cardinality(Y)
        BY <4>1, <4>2, FS_Product DEF X, Y
      <4>4. 1 * n = n
        BY <3>1
      <4> QED
        BY <4>1, <4>2, <4>3, <4>4 DEF X, Y
    <3>5. IsFiniteSet(C(U)) /\ G(U) = Cardinality(C(U)) /\ U \cup {x} \in SUBSET S
      BY <2>2
    <3>6. G(U \cup {x}) = n + G(U) /\ G(U) \in Nat
      BY <1>2, <3>5
    <3> HIDE DEF C, B, n
    <3>7. IsFiniteSet(C(U \cup {x})) /\ Cardinality(C(U \cup {x})) = Cardinality(C(U)) + Cardinality(B) - Cardinality({})
      <4> DEFINE D == C(U)
                 E == C(U \cup {x})
      <4>1. E = D \cup B /\ D \cap B = {} /\ IsFiniteSet(D) /\ IsFiniteSet(B)
        BY <3>2, <3>3, <3>4, <3>5
      <4> HIDE DEF D, E
      <4>2. IsFiniteSet(E) /\ Cardinality(E) = Cardinality(D) + Cardinality(B) - Cardinality({})
        BY <4>1, FS_Union
      <4> QED
        BY <4>2 DEF D, E
    <3>8. G(U \cup {x}) = Cardinality(C(U \cup {x}))
      BY <3>1, <3>4, <3>5, <3>6, <3>7, FS_EmptySet
    <3> QED
      BY <3>5, <3>7, <3>8
  <2> HIDE DEF P
  <2> QED
    BY <2>1, <2>2, EverySubset
<1> QED
  BY <1>3 DEF G, Columns
=========================================================================
