--------------------------- MODULE FastPathProofs ---------------------------
(***************************************************************************)
(* The two loops of libzling_lz.cpp that go by words.                      *)
(* IncrementalCopyFastPath leaves what a copy byte by byte would leave, at *)
(* any distance, of any length and for words of any width, and writes      *)
(* little beyond.  GetCommonLength returns the exact length, for every     *)
(* greatest length and every two stretches of bytes.                       *)
(***************************************************************************)
EXTENDS CommonLength, WordCopy, TLAPS

(* A remainder is what is left over a multiple, if it is small enough.       *)
LEMMA ModUnique ==
  ASSUME NEW d \in Nat, d > 0, NEW r \in 0 .. d - 1, NEW q \in Int
  PROVE  (q * d + r) % d = r
  OBVIOUS

(* Remainders repeat. *)
LEMMA ModPeriod ==
  ASSUME NEW d \in Nat, d > 0, NEW x \in Nat
  PROVE  (x + d) % d = x % d
<1> DEFINE q == x \div d
           r == x % d
<1>1. q \in Int /\ r \in 0 .. d - 1 /\ x = q * d + r
  OBVIOUS
<1> HIDE DEF q, r
<1>2. x + d = (q + 1) * d + r
  BY <1>1
<1>3. ((q + 1) * d + r) % d = r
  BY <1>1, ModUnique
<1> QED
  BY <1>1, <1>2, <1>3 DEF r

(* src and dst keep their place and their order, and together with len tell  *)
(* how much of the copy is done.                                             *)
ArgsInv ==
  /\ job \in Copies
  /\ src \in Nat /\ dst \in Nat /\ len \in Int
  /\ dst + len = job.dst + job.len
  /\ job.src <= src /\ src < dst /\ job.dst <= dst
  /\ pc \in {"near", "far", "done"}
  /\ pc = "near" => src = job.src
  /\ pc = "far" => dst - src >= WordBytes
  /\ pc = "done" => len <= 0

(* The bytes before the copy are untouched, those up to dst are copied; and  *)
(* the copy repeats itself not only at the distance asked for but at every   *)
(* distance that doubling makes of it.                                       *)
BytesInv ==
  /\ mem \in [Place -> Place]
  /\ \A i \in Place : i < job.dst => mem[i] = i
  /\ \A i \in Place : job.dst <= i /\ i < dst => mem[i] = Copied(i)
  /\ \A i \in Place : job.src + (dst - src) <= i => Copied(i) = Copied(i - (dst - src))

CopyInv == ArgsInv /\ BytesInv /\ OverrunBounded

(* What is known of a job. *)
LEMMA JobFacts ==
  ASSUME job \in Copies
  PROVE  /\ job.src \in Nat /\ job.dst \in Nat /\ job.len \in Nat
         /\ job.src < job.dst /\ job.dst + job.len + WordBytes <= MemSize
         /\ MemSize \in Nat /\ WordBytes \in Nat /\ WordBytes > 0
  BY WordCopyAssumption DEF Place

(* Between source and destination a copied byte is the byte itself. *)
LEMMA CopiedSource ==
  ASSUME job \in Copies, NEW i \in Int, job.src <= i, i < job.dst
  PROVE  Copied(i) = i
<1> DEFINE d == job.dst - job.src
           r == i - job.src
<1>1. d \in Nat /\ d > 0 /\ r \in 0 .. d - 1
  BY JobFacts
<1> HIDE DEF d, r
<1>2. (0 * d + r) % d = r
  BY <1>1, ModUnique
<1>3. 0 * d + r = r
  BY <1>1
<1>4. r % d = r
  BY <1>2, <1>3
<1>5. (i - job.src) % (job.dst - job.src) = i - job.src
  BY <1>4 DEF d, r
<1> QED
  BY <1>5, JobFacts DEF Copied

(* At the start the copy repeats itself at the distance asked for. *)
LEMMA CopiedPeriod ==
  ASSUME job \in Copies, NEW i \in Int, job.dst <= i
  PROVE  Copied(i) = Copied(i - (job.dst - job.src))
<1> DEFINE d == job.dst - job.src
           x == i - job.dst
<1>1. d \in Nat /\ d > 0 /\ x \in Nat
  BY JobFacts
<1>2. i - job.src = x + d /\ (i - d) - job.src = x
  BY JobFacts
<1> HIDE DEF d, x
<1>3. (x + d) % d = x % d
  BY <1>1, ModPeriod
<1>4. (i - job.src) % d = ((i - d) - job.src) % d
  BY <1>2, <1>3
<1> QED
  BY <1>4 DEF Copied, d

(* Storing a word makes right the bytes of it that lie within the distance.  *)
LEMMA StoreWordCopies ==
  ASSUME ArgsInv, BytesInv, StoreWord, NEW n \in Nat,
         n <= WordBytes, n <= dst - src
  PROVE  /\ mem' \in [Place -> Place]
         /\ \A i \in Place : i < job.dst => mem'[i] = i
         /\ \A i \in Place : job.dst <= i /\ i < dst + n => mem'[i] = Copied(i)
         /\ \A i \in Place : dst + WordBytes <= i => mem'[i] = mem[i]
<1> USE JobFacts DEF ArgsInv
<1>1. ASSUME NEW i \in Place PROVE i \in Nat /\ i < MemSize
  BY <1>1 DEF Place
<1>2. ASSUME NEW i \in Place, i \in dst .. dst + WordBytes - 1
      PROVE  i - dst + src \in Place
  BY <1>1, <1>2 DEF Place
<1>3. mem' \in [Place -> Place]
  BY <1>2 DEF StoreWord, BytesInv
<1>4. ASSUME NEW i \in Place, i < job.dst PROVE mem'[i] = i
  BY <1>1, <1>4 DEF StoreWord, BytesInv
<1>5. ASSUME NEW i \in Place, job.dst <= i, i < dst + n PROVE mem'[i] = Copied(i)
  <2>1. CASE i < dst
    BY <1>1, <1>5, <2>1 DEF StoreWord, BytesInv
  <2>2. CASE dst <= i
    <3> DEFINE k == i - (dst - src)
    <3>1. i \in dst .. dst + WordBytes - 1
      BY <1>1, <1>5, <2>2
    <3>2. k = i - dst + src /\ k \in Place /\ k \in Nat
      BY <1>1, <1>2, <3>1
    <3>3. job.src <= k /\ k < dst /\ job.src + (dst - src) <= i
      BY <1>1, <1>5, <2>2
    <3>4. mem'[i] = mem[k]
      BY <3>1, <3>2 DEF StoreWord
    <3>5. mem[k] = Copied(k)
      <4>1. CASE k < job.dst
        BY <3>2, <3>3, <4>1, CopiedSource DEF BytesInv
      <4>2. CASE job.dst <= k
        BY <3>2, <3>3, <4>2 DEF BytesInv
      <4> QED
        BY <3>2, <4>1, <4>2
    <3>6. Copied(i) = Copied(k)
      BY <1>1, <3>3 DEF BytesInv
    <3> QED
      BY <3>4, <3>5, <3>6
  <2> QED
    BY <1>1, <2>1, <2>2
<1>6. ASSUME NEW i \in Place, dst + WordBytes <= i PROVE mem'[i] = mem[i]
  BY <1>1, <1>6 DEF StoreWord
<1> QED
  BY <1>3, <1>4, <1>5, <1>6

(* Before the first word. *)
LEMMA CopyInvInit == Init => CopyInv
<1> SUFFICES ASSUME Init PROVE CopyInv
  OBVIOUS
<1>0. job \in Copies
  BY DEF Init
<1>1. ArgsInv
  BY <1>0, JobFacts DEF Init, ArgsInv
<1>2. BytesInv
  <2>1. mem \in [Place -> Place] /\ \A i \in Place : mem[i] = i
    BY DEF Init
  <2>2. \A i \in Place : i \in Int
    BY JobFacts, <1>0 DEF Place
  <2>3. \A i \in Place : job.src + (dst - src) <= i => Copied(i) = Copied(i - (dst - src))
    BY <1>0, <2>2, JobFacts, CopiedPeriod DEF Init
  <2> QED
    BY <2>1, <2>2, <2>3, <1>0, JobFacts DEF Init, BytesInv
<1>3. OverrunBounded
  BY <1>0, JobFacts DEF Init, OverrunBounded, Place
<1> QED
  BY <1>1, <1>2, <1>3 DEF CopyInv

(* A word at a distance of less than a word: the distance doubles. *)
LEMMA CopyNearKeeps == CopyInv /\ CopyNear => CopyInv'
<1> SUFFICES ASSUME ArgsInv, BytesInv, OverrunBounded, CopyNear PROVE CopyInv'
  BY DEF CopyInv
<1> DEFINE D == dst - src
<1>0. job \in Copies /\ job' = job /\ src' = src /\ dst' = dst + D /\ len' = len - D /\ pc' = pc
      /\ pc = "near" /\ D \in Nat /\ D < WordBytes /\ src = job.src /\ StoreWord
  BY JobFacts DEF CopyNear, Near, ArgsInv
<1>1. ArgsInv'
  BY <1>0, JobFacts DEF ArgsInv
<1>2. /\ mem' \in [Place -> Place]
      /\ \A i \in Place : i < job.dst => mem'[i] = i
      /\ \A i \in Place : job.dst <= i /\ i < dst + D => mem'[i] = Copied(i)
      /\ \A i \in Place : dst + WordBytes <= i => mem'[i] = mem[i]
  BY <1>0, StoreWordCopies, JobFacts
<1>3. \A i \in Place : i \in Nat /\ i < MemSize
  BY <1>0, JobFacts DEF Place
<1>4. ASSUME NEW i \in Place, job.src + 2 * D <= i PROVE Copied(i) = Copied(i - 2 * D)
  <2>1. i - D \in Place /\ job.src + D <= i - D
    BY <1>0, <1>3, <1>4, JobFacts DEF Place
  <2>2. Copied(i - D) = Copied((i - D) - D)
    BY <2>1 DEF BytesInv
  <2>3. Copied(i) = Copied(i - D)
    BY <1>0, <1>3, <1>4, JobFacts DEF BytesInv
  <2>4. (i - D) - D = i - 2 * D
    BY <1>0, <1>3
  <2> QED
    BY <2>2, <2>3, <2>4
<1>5. dst' - src' = 2 * D
  BY <1>0, JobFacts DEF ArgsInv
<1>6. BytesInv'
  <2>1. \A i : Copied(i)' = Copied(i)
    BY <1>0 DEF Copied
  <2> QED
    BY <1>0, <1>2, <1>4, <1>5, <2>1 DEF BytesInv, Copied
<1>7. OverrunBounded'
  <2> SUFFICES ASSUME job.len >= WordBytes,
                      NEW i \in job.dst + job.len + WordBytes - 1 .. MemSize - 1
               PROVE  mem'[i] = i
    BY <1>0 DEF OverrunBounded
  <2>1. i \in Place /\ dst + WordBytes <= i
    BY <1>0, JobFacts DEF ArgsInv, Place
  <2> QED
    BY <1>2, <2>1 DEF OverrunBounded
<1> QED
  BY <1>1, <1>6, <1>7 DEF CopyInv

(* A word at a distance of at least a word. *)
LEMMA CopyFarKeeps == CopyInv /\ CopyFar => CopyInv'
<1> SUFFICES ASSUME ArgsInv, BytesInv, OverrunBounded, CopyFar PROVE CopyInv'
  BY DEF CopyInv
<1>0. job \in Copies /\ job' = job /\ src' = src + WordBytes /\ dst' = dst + WordBytes
      /\ len' = len - WordBytes /\ pc' = pc /\ pc = "far" /\ len > 0
      /\ dst - src >= WordBytes /\ StoreWord
  BY DEF CopyFar, More, ArgsInv
<1>1. ArgsInv'
  BY <1>0, JobFacts DEF ArgsInv
<1>2. /\ mem' \in [Place -> Place]
      /\ \A i \in Place : i < job.dst => mem'[i] = i
      /\ \A i \in Place : job.dst <= i /\ i < dst + WordBytes => mem'[i] = Copied(i)
      /\ \A i \in Place : dst + WordBytes <= i => mem'[i] = mem[i]
  BY <1>0, StoreWordCopies, JobFacts
<1>3. dst' - src' = dst - src
  BY <1>0, JobFacts DEF ArgsInv
<1>4. BytesInv'
  BY <1>0, <1>2, <1>3 DEF BytesInv, Copied
<1>5. OverrunBounded'
  <2> SUFFICES ASSUME job.len >= WordBytes,
                      NEW i \in job.dst + job.len + WordBytes - 1 .. MemSize - 1
               PROVE  mem'[i] = i
    BY <1>0 DEF OverrunBounded
  <2>1. i \in Place /\ dst + WordBytes <= i
    BY <1>0, JobFacts DEF ArgsInv, Place
  <2> QED
    BY <1>2, <2>1 DEF OverrunBounded
<1> QED
  BY <1>1, <1>4, <1>5 DEF CopyInv

(* The invariant holds from word to word. *)
LEMMA CopyInvInductive == CopyInv /\ [Next]_vars => CopyInv'
<1> SUFFICES ASSUME CopyInv, [Next]_vars PROVE CopyInv'
  OBVIOUS
<1>1. CASE CopyNear
  BY <1>1, CopyNearKeeps
<1>2. CASE CopyFar
  BY <1>2, CopyFarKeeps
<1>3. CASE EndNear \/ EndFar \/ Terminating \/ UNCHANGED vars
  <2>1. job \in Copies
    BY DEF CopyInv, ArgsInv
  <2>2. UNCHANGED <<job, mem, src, dst, len>>
    BY <1>3 DEF EndNear, EndFar, Terminating, vars
  <2>3. ArgsInv'
    BY <1>3, <2>1, JobFacts DEF CopyInv, ArgsInv, EndNear, EndFar, Near, More, Terminating, vars
  <2>4. BytesInv' /\ OverrunBounded'
    BY <2>2 DEF CopyInv, BytesInv, OverrunBounded, Copied
  <2> QED
    BY <2>3, <2>4 DEF CopyInv
<1> QED
  BY <1>1, <1>2, <1>3 DEF Next

(* A match is copied as byte by byte, however close its source and however   *)
(* long: what RolzDecoder takes IncrementalCopyFastPath to do.               *)
THEOREM CopiesEveryByteHolds == Spec => []CopiesEveryByte
<1>1. CopyInv => CopiesEveryByte
  <2> SUFFICES ASSUME CopyInv, pc = "done"
               PROVE  /\ \A i \in job.dst .. job.dst + job.len - 1 : mem[i] = Copied(i)
                      /\ \A i \in 0 .. job.dst - 1 : mem[i] = i
    BY DEF CopiesEveryByte
  <2>1. job \in Copies
    BY DEF CopyInv, ArgsInv
  <2>2. job.dst + job.len <= dst
    BY <2>1, JobFacts DEF CopyInv, ArgsInv
  <2>3. ASSUME NEW i \in job.dst .. job.dst + job.len - 1 PROVE mem[i] = Copied(i)
    <3>1. i \in Place /\ job.dst <= i /\ i < dst
      BY <2>1, <2>2, JobFacts DEF CopyInv, ArgsInv, Place
    <3> QED
      BY <3>1 DEF CopyInv, BytesInv
  <2>4. ASSUME NEW i \in 0 .. job.dst - 1 PROVE mem[i] = i
    <3>1. i \in Place /\ i < job.dst
      BY <2>1, JobFacts DEF Place
    <3> QED
      BY <3>1 DEF CopyInv, BytesInv
  <2> QED
    BY <2>3, <2>4
<1> QED
  BY <1>1, CopyInvInit, CopyInvInductive, PTL DEF Spec

(* A copy of at least a word writes less than a word beyond its end, which   *)
(* is what the room behind the output block is for.                          *)
THEOREM OverrunBoundedHolds == Spec => []OverrunBounded
<1>1. CopyInv => OverrunBounded
  BY DEF CopyInv
<1> QED
  BY <1>1, CopyInvInit, CopyInvInductive, PTL DEF Spec
-----------------------------------------------------------------------------
(***************************************************************************)
(* GetCommonLength.                                                        *)
(***************************************************************************)
(* What is known at each stage: everything behind p agrees, and each         *)
(* comparison that has been given up leaves too little room, or a byte       *)
(* within its width that does not agree.                                     *)
StageInv ==
  /\ TypeOK
  /\ \A k \in 0 .. p - 1 : agree[k]
  /\ stage = "first" => p = 0
  /\ stage \in {"words", "half", "byte"} => \A k \in 0 .. 3 : agree[k]
  /\ stage = "half" => maxlen < 4 \/ ~Same(4)
  /\ stage = "byte" => maxlen < 2 \/ ~Same(2)
  /\ ExactLength

(* The stages follow from each other. *)
LEMMA StageInvInductive == StageInv /\ [CompareNext]_compareVars => StageInv'
<1> SUFFICES ASSUME StageInv, [CompareNext]_compareVars PROVE StageInv'
  OBVIOUS
<1> USE CommonLengthAssumption
<1>1. CASE CompareFirst
  BY <1>1 DEF CompareFirst, StageInv, TypeOK, Same, ExactLength
<1>2. CASE CompareWord
  BY <1>2 DEF CompareWord, StageInv, TypeOK, Same, ExactLength, Advance, RoomFor
<1>3. CASE CompareHalf
  BY <1>3 DEF CompareHalf, StageInv, TypeOK, Same, ExactLength, Advance, RoomFor
<1>4. CASE CompareByte
  BY <1>4 DEF CompareByte, StageInv, TypeOK, Same, ExactLength, Advance, RoomFor
<1>5. CASE Compared \/ UNCHANGED compareVars
  BY <1>5 DEF Compared, compareVars, StageInv, TypeOK, Same, ExactLength
<1>6. QED
  BY <1>1, <1>2, <1>3, <1>4, <1>5 DEF CompareNext

(* GetCommonLength computes the length RolzEncoder counts on: the number of  *)
(* bytes that agree, MaxLen at most, or zero for fewer than four.            *)
THEOREM ExactLengthHolds == CompareSpec => []ExactLength
<1>1. CompareInit => StageInv
  BY CommonLengthAssumption DEF CompareInit, StageInv, TypeOK, Same, ExactLength
<1>2. StageInv => ExactLength
  BY DEF StageInv
<1>3. QED
  BY <1>1, <1>2, StageInvInductive, PTL DEF CompareSpec
=============================================================================
