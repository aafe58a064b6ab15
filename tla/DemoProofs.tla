----------------------------- MODULE DemoProofs -----------------------------
(***************************************************************************)
(* What a run of the demo program leaves behind, for any files with any    *)
(* contents: StatusIsTrue, TargetFate and OnlyTargetChanges follow from an *)
(* inductive invariant that says, for every point of the run, how much of  *)
(* the result the target and the buffer in front of it hold together.      *)
(***************************************************************************)
EXTENDS Demo, SequenceTheorems, TLAPS

(* The output so far: what is in the file, then what is held back. *)
Whole == fs[output] \o buffer

(* What there is to be coded: nothing, if the source was emptied to become   *)
(* the target.                                                               *)
Src == IF input = output THEN <<>> ELSE before[input]

(* The first blocks of r, all of them at most; and with a torn one behind.   *)
Piece(w, r) == \E k \in 0 .. Len(r) : w = SubSeq(r, 1, k)
TornPiece(w, r) == \E k \in 0 .. Len(r) : w = Append(SubSeq(r, 1, k), Torn)
Stand(w, r) == Piece(w, r) \/ TornPiece(w, r)

Early == {"cannot write", "cannot read", "usage"}
Late == {"I/O error", "allocation failed", "runtime error"}
Said(M) == \E m \in M : said = <<m>>

TypeOK ==
  /\ args \in Int /\ source \in Files /\ target \in Files
  /\ before \in [Names -> Seq(Int)] /\ fs \in [Names -> Seq(Int)] /\ buffer \in Seq(Int)
  /\ input \in Names /\ output \in Names /\ rpos \in Nat
  /\ ierr \in BOOLEAN /\ oerr \in BOOLEAN /\ lost \in BOOLEAN
  /\ status \in {NoStatus, 0, -1}
  /\ pc \in {"target", "source", "command", "work", "done", "return", "exit", "exited"}

(* Which files the streams are, and that the others are as they were.        *)
StreamInv ==
  /\ before["stdout"] = <<>>
  /\ \A n \in Names : n # output => fs[n] = before[n]
  /\ IF pc = "target" \/ said = <<"cannot write">> THEN output = "stdout"
     ELSE output = IF args = 3 THEN target ELSE "stdout"
  /\ pc \in {"target", "source"} => input = "stdin"
  /\ input # "stdin" => input = source
  /\ pc \in {"command", "work", "done", "return"} /\ args \in {2, 3} => input = source

(* How the run ends, and what it has written then. *)
Succeeded == status = 0 /\ said = <<"summary">>
Refused == status = -1 /\ Said(Early) /\ Whole = <<>>
Failed == status = -1 /\ Said(Late) /\ Stand(Whole, Result(Src)) /\ (args = 3 => input = source)

OutputInv ==
  /\ pc \in {"target", "source", "command"} =>
       Whole = <<>> /\ rpos = 0
  /\ pc \in {"target", "source", "command", "work"} => said = <<>> /\ ~oerr
  /\ pc \in {"target", "source", "command"} => ~ierr
  /\ pc = "work" =>
       /\ rpos <= Len(Src)
       /\ IF ierr THEN Stand(Whole, Result(Src)) ELSE Whole = SubSeq(Result(Src), 1, rpos)
  /\ pc \in {"done", "return"} =>
       IF ierr \/ oerr THEN Stand(Whole, Result(Src)) ELSE Whole = Result(Src)
  /\ pc = "done" => said = <<>>
  /\ pc = "return" => said = Verdict(ierr \/ oerr)
  /\ pc = "exit" =>
       \/ Succeeded /\ Whole = Result(Src) /\ (args = 3 => input = source)
       \/ Refused \/ Failed
  /\ pc = "exited" => buffer = <<>>
  /\ pc = "exited" =>
       \/ /\ Succeeded /\ (args = 3 => input = source)
          /\ Whole = Result(Src) \/ (lost /\ Stand(Whole, Result(Src)))
       \/ Refused \/ Failed

IInv == TypeOK /\ StreamInv /\ OutputInv
-----------------------------------------------------------------------------
(* The first blocks of a sequence, with what the last of them may be. *)
LEMMA Prefixes ==
  ASSUME NEW r \in Seq(Int), NEW k \in 0 .. Len(r)
  PROVE  /\ SubSeq(r, 1, k) \in Seq(Int) /\ Len(SubSeq(r, 1, k)) = k
         /\ \A i \in 1 .. k : SubSeq(r, 1, k)[i] = r[i]
         /\ k < Len(r) => SubSeq(r, 1, k) \o <<r[k + 1]>> = SubSeq(r, 1, k + 1)
<1>1. Len(r) \in Nat /\ \A i \in 1 .. Len(r) : r[i] \in Int
  BY LenProperties, ElementOfSeq
<1>2. /\ SubSeq(r, 1, k) \in Seq(Int) /\ Len(SubSeq(r, 1, k)) = k
      /\ \A i \in 1 .. k : SubSeq(r, 1, k)[i] = r[i]
  BY <1>1, SubSeqProperties
<1>3. ASSUME k < Len(r) PROVE SubSeq(r, 1, k) \o <<r[k + 1]>> = SubSeq(r, 1, k + 1)
  <2>1. 1 \in 1 .. Len(r) /\ k + 1 \in 1 .. Len(r) /\ k + 1 - 1 = k
    BY <1>1, <1>3
  <2> QED
    BY <2>1, SubSeqRecursiveSecond
<1> QED
  BY <1>2, <1>3

(* What is in the front of w \o v is in w, or is w and the front of v. *)
LEMMA FrontOfFront ==
  ASSUME NEW r \in Seq(Int), NEW k \in 0 .. Len(r), NEW j \in 0 .. k
  PROVE  SubSeq(SubSeq(r, 1, k), 1, j) = SubSeq(r, 1, j)
<1>1. Len(r) \in Nat /\ j \in 0 .. Len(r)
  BY LenProperties
<1> DEFINE w == SubSeq(r, 1, k)
<1>2. w \in Seq(Int) /\ Len(w) = k /\ \A i \in 1 .. k : w[i] = r[i]
  BY Prefixes
<1>3. SubSeq(r, 1, j) \in Seq(Int) /\ Len(SubSeq(r, 1, j)) = j /\ \A i \in 1 .. j : SubSeq(r, 1, j)[i] = r[i]
  BY <1>1, Prefixes
<1> HIDE DEF w
<1>4. j \in 0 .. Len(w)
  BY <1>2
<1>5. SubSeq(w, 1, j) \in Seq(Int) /\ Len(SubSeq(w, 1, j)) = j /\ \A i \in 1 .. j : SubSeq(w, 1, j)[i] = w[i]
  BY <1>2, <1>4, Prefixes
<1>6. \A i \in 1 .. j : SubSeq(w, 1, j)[i] = SubSeq(r, 1, j)[i]
  BY <1>1, <1>2, <1>3, <1>5
<1>7. SubSeq(w, 1, j) = SubSeq(r, 1, j)
  BY <1>3, <1>5, <1>6, SeqEqual
<1> QED
  BY <1>7 DEF w

LEMMA FrontOfConcat ==
  ASSUME NEW s \in Seq(Int), NEW t \in Seq(Int), NEW j \in 0 .. Len(t)
  PROVE  s \o SubSeq(t, 1, j) = SubSeq(s \o t, 1, Len(s) + j)
<1> DEFINE a == SubSeq(t, 1, j)
           b == s \o t
           n == Len(s) + j
<1>1. Len(s) \in Nat /\ Len(t) \in Nat
  BY LenProperties
<1>2. a \in Seq(Int) /\ Len(a) = j /\ \A i \in 1 .. j : a[i] = t[i]
  BY Prefixes
<1>3. /\ b \in Seq(Int) /\ Len(b) = Len(s) + Len(t)
      /\ \A i \in 1 .. Len(s) + Len(t) : b[i] = IF i <= Len(s) THEN s[i] ELSE t[i - Len(s)]
  BY ConcatProperties
<1> HIDE DEF a, b
<1>4. n \in 0 .. Len(b)
  BY <1>1, <1>3
<1>5. SubSeq(b, 1, n) \in Seq(Int) /\ Len(SubSeq(b, 1, n)) = n /\ \A i \in 1 .. n : SubSeq(b, 1, n)[i] = b[i]
  BY <1>3, <1>4, Prefixes
<1>6. /\ s \o a \in Seq(Int) /\ Len(s \o a) = n
      /\ \A i \in 1 .. n : (s \o a)[i] = IF i <= Len(s) THEN s[i] ELSE a[i - Len(s)]
  BY <1>2, ConcatProperties
<1>7. \A i \in 1 .. n : (s \o a)[i] = SubSeq(b, 1, n)[i]
  <2>1. SUFFICES ASSUME NEW i \in 1 .. n PROVE (s \o a)[i] = SubSeq(b, 1, n)[i]
    OBVIOUS
  <2>2. i \in 1 .. Len(s) + Len(t)
    BY <1>1
  <2>3. ~ i <= Len(s) => i - Len(s) \in 1 .. j
    BY <1>1
  <2> QED
    BY <1>2, <1>3, <1>5, <1>6, <2>2, <2>3
<1>8. s \o a = SubSeq(b, 1, n)
  BY <1>5, <1>6, <1>7, SeqEqual
<1> QED
  BY <1>8 DEF a, b

(* The result of a content has a block for each block of it. *)
LEMMA ResultType ==
  ASSUME NEW c \in Seq(Int)
  PROVE  /\ Result(c) \in Seq(Int) /\ Len(Result(c)) = Len(c)
         /\ \A i \in 1 .. Len(c) : Result(c)[i] = Coded(c[i])
BY DEF Result, Coded

(* A front of something that stands well stands well, and so it does with a  *)
(* torn block in place of what is missing.                                   *)
LEMMA FrontStands ==
  ASSUME NEW r \in Seq(Int), NEW w \in Seq(Int), Stand(w, r), NEW j \in 0 .. Len(w)
  PROVE  /\ Stand(SubSeq(w, 1, j), r)
         /\ j < Len(w) => Stand(SubSeq(w, 1, j) \o <<Torn>>, r)
<1>1. Len(r) \in Nat /\ Torn \in Int
  BY LenProperties DEF Torn
<1>2. ASSUME NEW i \in 0 .. Len(r)
      PROVE  SubSeq(r, 1, i) \o <<Torn>> = Append(SubSeq(r, 1, i), Torn)
  BY <1>1, Prefixes, AppendIsConcat
<1>3. CASE Piece(w, r)
  <2>1. PICK k \in 0 .. Len(r) : w = SubSeq(r, 1, k)
    BY <1>3 DEF Piece
  <2>2. j \in 0 .. k /\ j \in 0 .. Len(r)
    BY <1>1, <2>1, Prefixes
  <2>3. SubSeq(w, 1, j) = SubSeq(r, 1, j)
    BY <2>1, <2>2, FrontOfFront
  <2> QED
    BY <1>2, <2>2, <2>3 DEF Stand, Piece, TornPiece
<1>4. CASE TornPiece(w, r)
  <2>1. PICK k \in 0 .. Len(r) : w = Append(SubSeq(r, 1, k), Torn)
    BY <1>4 DEF TornPiece
  <2>2. SubSeq(r, 1, k) \in Seq(Int) /\ Len(SubSeq(r, 1, k)) = k
    BY Prefixes
  <2>3. Len(w) = k + 1
    BY <1>1, <2>1, <2>2, AppendProperties
  <2>4. CASE j = k + 1
    <3>1. SubSeq(w, 1, j) = w
      BY <2>3, <2>4, SubSeqFull
    <3>2. ~ j < Len(w)
      BY <2>3, <2>4
    <3> QED
      BY <3>1, <3>2
  <2>5. CASE j <= k
    <3>1. j \in 0 .. k /\ j \in 0 .. Len(r)
      BY <1>1, <2>5
    <3>2. w = SubSeq(r, 1, k) \o <<Torn>>
      BY <1>2, <2>1
    <3>3. SubSeq(w, 1, j) = SubSeq(SubSeq(r, 1, k), 1, j)
      <4>1. CASE j = 0
        BY <4>1, SubSeqEmpty
      <4>2. CASE j > 0
        <5>1. 1 \in 1 .. k /\ j \in 1 .. k /\ <<Torn>> \in Seq(Int)
          BY <1>1, <3>1, <4>2
        <5> QED
          BY <2>2, <3>2, <5>1, SubSeqOfConcat1
      <4> QED
        BY <3>1, <4>1, <4>2
    <3>4. SubSeq(w, 1, j) = SubSeq(r, 1, j)
      BY <3>1, <3>3, FrontOfFront
    <3> QED
      BY <1>2, <3>1, <3>4 DEF Stand, Piece, TornPiece
  <2> QED
    BY <2>3, <2>4, <2>5
<1> QED
  BY <1>3, <1>4 DEF Stand

-----------------------------------------------------------------------------
(* Putting together is associative, for blocks. *)
LEMMA Associative ==
  \A s, v, w \in Seq(Int) : (s \o v) \o w = s \o (v \o w)
<1> SUFFICES ASSUME NEW s \in Seq(Int), NEW v \in Seq(Int), NEW w \in Seq(Int)
             PROVE  (s \o v) \o w = s \o (v \o w)
  OBVIOUS
<1> QED
  BY ConcatAssociative, SMTT(60)

(* fwrite puts the blocks behind what there is of the output, wherever the   *)
(* border between the file and the buffer comes to lie.                      *)
LEMMA WriteAppends ==
  ASSUME TypeOK, NEW blocks \in Seq(Int), Write(blocks), output' = output
  PROVE  /\ fs' \in [Names -> Seq(Int)] /\ buffer' \in Seq(Int)
         /\ Whole' = Whole \o blocks
         /\ \A n \in Names : n # output => fs'[n] = fs[n]
<1> DEFINE b == buffer \o blocks
           f == fs[output]
<1>1. f \in Seq(Int) /\ buffer \in Seq(Int) /\ b \in Seq(Int)
  BY ConcatProperties DEF TypeOK
<1>2. PICK k \in 0 .. Len(b) :
        /\ fs' = [fs EXCEPT ![output] = f \o SubSeq(b, 1, k)]
        /\ buffer' = SubSeq(b, k + 1, Len(b))
  BY DEF Write
<1> HIDE DEF f
<1> DEFINE c == SubSeq(b, 1, k)
           d == SubSeq(b, k + 1, Len(b))
<1>3. (f \o buffer) \o blocks = f \o b
  BY <1>1, Associative
<1> HIDE DEF b
<1>4. Len(b) \in Nat /\ \A i \in 1 .. Len(b) : b[i] \in Int
  BY <1>1, LenProperties, ElementOfSeq
<1>5. c \in Seq(Int)
  BY <1>1, Prefixes
<1>6. d \in Seq(Int)
  <2>1. k + 1 \in Int /\ Len(b) \in Int /\ \A i \in k + 1 .. Len(b) : b[i] \in Int
    BY <1>4
  <2> QED
    BY <2>1, SubSeqProperties
<1>7. c \o d = b
  <2>1. 1 \in 1 .. Len(b) + 1 /\ k \in 1 - 1 .. Len(b) /\ Len(b) \in k .. Len(b)
    BY <1>4
  <2>2. c \o d = SubSeq(b, 1, Len(b))
    BY <1>1, <2>1, ConcatAdjacentSubSeq
  <2> QED
    BY <1>1, <2>2, SubSeqFull
<1> HIDE DEF c, d
<1>8. fs' = [fs EXCEPT ![output] = f \o c] /\ buffer' = d
  BY <1>2 DEF c, d
<1>9. f \o c \in Seq(Int) /\ (f \o c) \o d = f \o b
  <2>1. f \o c \in Seq(Int)
    BY <1>1, <1>5, ConcatProperties
  <2>2. f \in Seq(Int)
    BY <1>1
  <2>3. (f \o c) \o d = f \o (c \o d)
    BY <1>5, <1>6, <2>2, Associative
  <2> QED
    BY <1>7, <2>1, <2>3
<1>10. fs' \in [Names -> Seq(Int)] /\ fs'[output] = f \o c /\ \A n \in Names : n # output => fs'[n] = fs[n]
  BY <1>8, <1>9 DEF TypeOK
<1>11. Whole' = (f \o c) \o d
  BY <1>8, <1>10 DEF Whole
<1> QED
  BY <1>3, <1>6, <1>8, <1>9, <1>10, <1>11 DEF Whole, f

(* So what stood well still stands if nothing is written, or a torn block    *)
(* behind whole ones.                                                        *)
LEMMA WriteTornStands ==
  ASSUME TypeOK, output' = output, NEW r \in Seq(Int), Stand(Whole, r),
         Write(<<>>) \/ (Write(<<Torn>>) /\ Piece(Whole, r))
  PROVE  /\ fs' \in [Names -> Seq(Int)] /\ buffer' \in Seq(Int)
         /\ Stand(Whole', r)
         /\ \A n \in Names : n # output => fs'[n] = fs[n]
<1>1. PICK blocks \in {<<>>, <<Torn>>} : Write(blocks) /\ (blocks = <<Torn>> => Piece(Whole, r))
  <2>1. CASE Write(<<>>)
    <3>1. <<>> # <<Torn>>
      OBVIOUS
    <3> QED
      BY <2>1, <3>1
  <2> QED
    BY <2>1
<1>2. blocks \in Seq(Int)
  <2>1. <<>> \in Seq(Int) /\ <<0>> \in Seq(Int)
    OBVIOUS
  <2> QED
    BY <1>1, <2>1 DEF Torn
<1>3. /\ fs' \in [Names -> Seq(Int)] /\ buffer' \in Seq(Int)
      /\ Whole' = Whole \o blocks
      /\ \A n \in Names : n # output => fs'[n] = fs[n]
  BY <1>1, <1>2, WriteAppends
<1>4. Whole \in Seq(Int)
  BY ConcatProperties DEF TypeOK, Whole
<1>5. Stand(Whole', r)
  <2>1. CASE blocks = <<>>
    BY <1>3, <1>4, <2>1, ConcatEmptySeq
  <2>2. CASE blocks = <<Torn>>
    <3>1. PICK k \in 0 .. Len(r) : Whole = SubSeq(r, 1, k)
      BY <1>1, <2>2 DEF Piece
    <3>2. SubSeq(r, 1, k) \in Seq(Int) /\ Torn \in Int
      BY Prefixes DEF Torn
    <3>3. SubSeq(r, 1, k) \o <<Torn>> = Append(SubSeq(r, 1, k), Torn)
      BY <3>2, AppendIsConcat
    <3> QED
      BY <1>3, <2>2, <3>1, <3>3 DEF Stand, TornPiece
  <2> QED
    BY <1>1, <2>1, <2>2
<1> QED
  BY <1>3, <1>5

(* What is there of the source while it is being read. *)
LEMMA SourceType ==
  ASSUME IInv
  PROVE  /\ Src \in Seq(Int) /\ Whole \in Seq(Int) /\ fs[output] \in Seq(Int) /\ Result(Src) \in Seq(Int)
         /\ Len(Result(Src)) = Len(Src)
         /\ pc = "work" /\ ~ierr => Len(fs[input]) = Len(Src)
         /\ pc = "work" /\ ~ierr => \A i \in 1 .. Len(Src) : Coded(fs[input][i]) = Result(Src)[i]
<1>1. before[input] \in Seq(Int) /\ fs[output] \in Seq(Int) /\ buffer \in Seq(Int)
  BY DEF IInv, TypeOK
<1>2. Src \in Seq(Int) /\ Whole \in Seq(Int)
  BY <1>1, ConcatProperties DEF Src, Whole
<1>3. Result(Src) \in Seq(Int) /\ Len(Result(Src)) = Len(Src) /\ \A i \in 1 .. Len(Src) : Result(Src)[i] = Coded(Src[i])
  BY <1>2, ResultType
<1>4. ASSUME pc = "work", ~ierr PROVE fs[input] = Src
  <2>1. CASE input # output
    BY <2>1 DEF IInv, TypeOK, StreamInv, Src
  <2>2. CASE input = output
    <3>1. Src = <<>>
      BY <2>2 DEF Src
    <3>2. rpos = 0 /\ Whole = SubSeq(Result(Src), 1, rpos)
      BY <1>4, <3>1 DEF IInv, TypeOK, OutputInv
    <3>3. Whole = <<>>
      BY <3>2, SubSeqEmpty
    <3>4. fs[output] = <<>>
      BY <1>1, <3>3, ConcatEqualIffEmpty DEF Whole
    <3> QED
      BY <2>2, <3>1, <3>4
  <2> QED
    BY <2>1, <2>2
<1> QED
  BY <1>1, <1>2, <1>3, <1>4

-----------------------------------------------------------------------------
LEMMA InitInv == Init => IInv
<1> SUFFICES ASSUME Init PROVE IInv
  OBVIOUS
<1>1. \A n \in Names : before[n] \in Seq(Int)
  <2>1. SUFFICES ASSUME NEW n \in Names PROVE before[n] \in Seq(Int)
    OBVIOUS
  <2>2. before[n] \in Seq(Nat \ {0}) /\ Nat \ {0} \subseteq Int
    BY DemoAssumption DEF Init
  <2> QED
    BY <2>2, SeqMonotonic
<1>2. before \in [Names -> Seq(Int)] /\ fs = before
  BY <1>1 DEF Init
<1>3. "stdin" \in Names /\ "stdout" \in Names /\ <<>> \in Seq(Int)
  BY DEF Names
<1>4. TypeOK
  <2>1. args \in Int
    BY DEF Init
  <2>2. ierr \in BOOLEAN /\ oerr \in BOOLEAN /\ lost \in BOOLEAN
    BY Zenon DEF Init
  <2> QED
    BY <1>2, <1>3, <2>1, <2>2 DEF Init, TypeOK
<1>5. before["stdout"] = <<>>
  BY <1>3 DEF Init
<1>6. StreamInv
  BY <1>2, <1>5 DEF Init, StreamInv
<1>7. Whole = <<>>
  BY <1>2, <1>5 DEF Init, Whole
<1>8. OutputInv
  BY <1>7 DEF Init, OutputInv
<1> QED
  BY <1>4, <1>6, <1>8 DEF IInv

(* A refusal is the first thing that is said, and the last. *)
LEMMA RefuseSays ==
  ASSUME said = <<>>, NEW m, Refuse(m)
  PROVE  said' = <<m>> /\ status' = -1 /\ pc' = "exit"
<1>1. Append(<<>>, m) = <<m>>
  OBVIOUS
<1> QED
  BY <1>1 DEF Refuse

LEMMA OpenTargetInv == ASSUME IInv, OpenTarget PROVE IInv'
<1> USE DEF IInv
<1>1. pc = "target" /\ output = "stdout" /\ input = "stdin" /\ Whole = <<>> /\ rpos = 0 /\ said = <<>> /\ ~ierr /\ ~oerr
  BY DEF OpenTarget, StreamInv, OutputInv
<1>2. UNCHANGED <<arguments, input, rpos, ierr, oerr, lost, buffer>>
  BY DEF OpenTarget, files
<1>3. target \in Names /\ fs[output] \in Seq(Int) /\ buffer \in Seq(Int)
  BY DEF TypeOK, Names
<1>4. buffer = <<>> /\ fs[output] = <<>>
  BY <1>1, <1>3, ConcatEqualIffEmpty DEF Whole
<1>5. CASE args # 3 /\ pc' = "source" /\ UNCHANGED <<files, output, said, status>>
  <2>1. TypeOK'
    BY <1>2, <1>5 DEF TypeOK, arguments, files
  <2>2. StreamInv'
    BY <1>1, <1>2, <1>5 DEF StreamInv, arguments, files
  <2>3. Whole' = Whole
    BY <1>5 DEF Whole, files
  <2>4. OutputInv'
    BY <1>1, <1>2, <1>5, <2>3 DEF OutputInv
  <2> QED
    BY <2>1, <2>2, <2>4
<1>6. CASE args = 3 /\ Refuse("cannot write") /\ UNCHANGED <<files, output>>
  <2>1. said' = <<"cannot write">> /\ status' = -1 /\ pc' = "exit"
    BY <1>1, <1>6, RefuseSays
  <2>2. TypeOK'
    BY <1>2, <1>6, <2>1 DEF TypeOK, arguments, files
  <2>3. StreamInv'
    BY <1>1, <1>2, <1>6, <2>1 DEF StreamInv, arguments, files
  <2>4. Whole' = <<>>
    BY <1>1, <1>6 DEF Whole, files
  <2>5. OutputInv'
    BY <2>1, <2>4 DEF OutputInv, Refused, Said, Early
  <2> QED
    BY <2>2, <2>3, <2>5
<1>7. CASE /\ args = 3 /\ pc' = "source"
           /\ output' = target /\ fs' = [fs EXCEPT ![target] = OpenedToWrite(@)]
           /\ UNCHANGED <<buffer, said, status>>
  <2>1. fs' \in [Names -> Seq(Int)] /\ fs'[target] = <<>> /\ \A n \in Names : n # target => fs'[n] = fs[n]
    BY <1>3, <1>7 DEF TypeOK, OpenedToWrite
  <2>2. TypeOK'
    BY <1>2, <1>3, <1>7, <2>1 DEF TypeOK, arguments
  <2>3. \A n \in Names : n # output' => fs'[n] = before[n]
    BY <1>1, <1>4, <1>7, <2>1 DEF StreamInv
  <2>4. StreamInv'
    BY <1>1, <1>2, <1>7, <2>3 DEF StreamInv, arguments
  <2>5. Whole' = <<>>
    BY <1>4, <1>7, <2>1 DEF Whole
  <2>6. OutputInv'
    BY <1>1, <1>2, <1>7, <2>5 DEF OutputInv
  <2> QED
    BY <2>2, <2>4, <2>6
<1> QED
  BY <1>5, <1>6, <1>7 DEF OpenTarget

LEMMA OpenSourceInv == ASSUME IInv, OpenSource PROVE IInv'
<1> USE DEF IInv
<1>1. pc = "source" /\ input = "stdin" /\ Whole = <<>> /\ rpos = 0 /\ said = <<>> /\ ~ierr /\ ~oerr
  BY DEF OpenSource, StreamInv, OutputInv
<1>2. UNCHANGED <<arguments, output, rpos, ierr, oerr, lost, buffer>>
  BY DEF OpenSource
<1>3. fs' = fs
  BY DEF OpenSource, OpenedToRead, TypeOK
<1>4. Whole' = <<>>
  BY <1>1, <1>2, <1>3 DEF Whole
<1>5. CASE pc' = "command" /\ (args \in {2, 3} => input' = source) /\ input' \in {"stdin", source} /\ UNCHANGED <<said, status>>
  <2>1. TypeOK'
    BY <1>2, <1>3, <1>5 DEF TypeOK, arguments, Names
  <2>2. StreamInv'
    BY <1>1, <1>2, <1>3, <1>5 DEF StreamInv, arguments
  <2>3. OutputInv'
    BY <1>1, <1>2, <1>4, <1>5 DEF OutputInv
  <2> QED
    BY <2>1, <2>2, <2>3
<1>6. CASE Refuse("cannot read") /\ UNCHANGED input
  <2>1. said' = <<"cannot read">> /\ status' = -1 /\ pc' = "exit"
    BY <1>1, <1>6, RefuseSays
  <2>2. TypeOK'
    BY <1>2, <1>3, <1>6, <2>1 DEF TypeOK, arguments
  <2>3. said' # <<"cannot write">>
    BY <2>1
  <2>4. StreamInv'
    BY <1>1, <1>2, <1>3, <1>6, <2>1, <2>3 DEF StreamInv, arguments
  <2>5. OutputInv'
    BY <1>4, <2>1 DEF OutputInv, Refused, Said, Early
  <2> QED
    BY <2>2, <2>4, <2>5
<1> QED
  BY <1>1, <1>5, <1>6 DEF OpenSource

LEMMA DispatchInv == ASSUME IInv, Dispatch PROVE IInv'
<1> USE DEF IInv
<1>1. pc = "command" /\ Whole = <<>> /\ rpos = 0 /\ said = <<>> /\ ~ierr /\ ~oerr
  BY DEF Dispatch, OutputInv
<1>2. UNCHANGED <<arguments, files, input, output, rpos, ierr, oerr, lost>>
  BY DEF Dispatch
<1>3. Whole' = <<>> /\ Src' = Src
  BY <1>1, <1>2 DEF Whole, Src, files, arguments
<1>4. CASE pc' = "work" /\ UNCHANGED <<said, status>>
  <2>1. TypeOK'
    BY <1>2, <1>4 DEF TypeOK, arguments, files
  <2>2. StreamInv'
    BY <1>1, <1>2, <1>4 DEF StreamInv, arguments, files
  <2>3. Len(Src) \in Nat /\ Src \in Seq(Int)
    BY SourceType, LenProperties
  <2>4. SubSeq(Result(Src), 1, 0) = <<>>
    BY SubSeqEmpty
  <2>5. OutputInv'
    BY <1>1, <1>2, <1>3, <1>4, <2>3, <2>4 DEF OutputInv
  <2> QED
    BY <2>1, <2>2, <2>5
<1>5. CASE Refuse("usage")
  <2>1. said' = <<"usage">> /\ status' = -1 /\ pc' = "exit"
    BY <1>1, <1>5, RefuseSays
  <2>2. TypeOK'
    BY <1>2, <2>1 DEF TypeOK, arguments, files
  <2>3. said' # <<"cannot write">> /\ said # <<"cannot write">>
    BY <1>1, <2>1
  <2>4. StreamInv'
    BY <1>1, <1>2, <2>1, <2>3 DEF StreamInv, arguments, files
  <2>5. OutputInv'
    BY <1>3, <2>1 DEF OutputInv, Refused, Said, Early
  <2> QED
    BY <2>2, <2>4, <2>5
<1> QED
  BY <1>4, <1>5 DEF Dispatch


(* While the source is read without an error, what has been written is the   *)
(* front of the result; it stands in any case.                               *)
LEMMA WorkFacts ==
  ASSUME IInv, pc = "work"
  PROVE  /\ said = <<>> /\ ~oerr /\ rpos \in 0 .. Len(Src) /\ Len(Src) \in Nat
         /\ Result(Src) \in Seq(Int) /\ Len(Result(Src)) = Len(Src) /\ Whole \in Seq(Int)
         /\ Stand(Whole, Result(Src))
         /\ ~ierr => Whole = SubSeq(Result(Src), 1, rpos) /\ Piece(Whole, Result(Src))
<1>1. /\ said = <<>> /\ ~oerr /\ rpos <= Len(Src) /\ rpos \in Nat
      /\ IF ierr THEN Stand(Whole, Result(Src)) ELSE Whole = SubSeq(Result(Src), 1, rpos)
  BY DEF IInv, TypeOK, OutputInv
<1>2. Src \in Seq(Int) /\ Result(Src) \in Seq(Int) /\ Len(Result(Src)) = Len(Src) /\ Whole \in Seq(Int)
  BY SourceType
<1>3. Len(Src) \in Nat /\ rpos \in 0 .. Len(Result(Src))
  BY <1>1, <1>2, LenProperties
<1>4. ~ierr => Piece(Whole, Result(Src))
  BY <1>1, <1>3 DEF Piece
<1> QED
  BY <1>1, <1>2, <1>3, <1>4 DEF Stand

(* A step of the work that writes, whatever it says: the streams, types.     *)
LEMMA WorkStep ==
  ASSUME IInv, pc = "work", UNCHANGED <<arguments, input, output, lost>>,
         fs' \in [Names -> Seq(Int)], buffer' \in Seq(Int), \A n \in Names : n # output => fs'[n] = fs[n],
         rpos' \in Nat, ierr' \in BOOLEAN, oerr' \in BOOLEAN, status' \in {NoStatus, 0, -1},
         pc' \in {"work", "done", "exit"}, said' # <<"cannot write">>
  PROVE  TypeOK' /\ StreamInv' /\ Src' = Src
<1>1. said # <<"cannot write">>
  <2>1. said = <<>>
    BY WorkFacts
  <2>2. <<>> # <<"cannot write">>
    OBVIOUS
  <2> QED
    BY <2>1, <2>2
<1>2. \A n \in Names : n # output' => fs'[n] = before'[n]
  BY DEF IInv, StreamInv, arguments
<1>3. StreamInv'
  BY <1>1, <1>2 DEF IInv, StreamInv, arguments
<1>4. TypeOK'
  BY DEF IInv, TypeOK, arguments
<1> QED
  BY <1>3, <1>4 DEF Src, arguments

(* What a block of the source is written as. *)
LEMMA NextBlock ==
  ASSUME IInv, pc = "work", ~ierr, rpos < Len(fs[input]), output' = output,
         NEW b, b = Coded(fs[input][rpos + 1]), Write(<<b>>)
  PROVE  /\ rpos + 1 \in 0 .. Len(Result(Src)) /\ rpos + 1 <= Len(Src)
         /\ fs' \in [Names -> Seq(Int)] /\ buffer' \in Seq(Int)
         /\ Whole' = SubSeq(Result(Src), 1, rpos + 1)
         /\ \A n \in Names : n # output => fs'[n] = fs[n]
<1>1. /\ Whole = SubSeq(Result(Src), 1, rpos) /\ rpos \in 0 .. Len(Src) /\ Len(Src) \in Nat
      /\ Result(Src) \in Seq(Int) /\ Len(Result(Src)) = Len(Src)
  BY WorkFacts
<1>2. /\ Len(fs[input]) = Len(Src)
      /\ \A i \in 1 .. Len(Src) : Coded(fs[input][i]) = Result(Src)[i]
  BY SourceType
<1>3. rpos + 1 \in 1 .. Len(Result(Src)) /\ rpos \in 0 .. Len(Result(Src)) /\ rpos < Len(Result(Src))
  BY <1>1, <1>2
<1>4. b = Result(Src)[rpos + 1] /\ b \in Int
  BY <1>1, <1>2, <1>3, ElementOfSeq
<1>5. <<b>> \in Seq(Int)
  BY <1>4
<1>6. /\ fs' \in [Names -> Seq(Int)] /\ buffer' \in Seq(Int)
      /\ Whole' = Whole \o <<b>>
      /\ \A n \in Names : n # output => fs'[n] = fs[n]
  BY <1>5, WriteAppends DEF IInv
<1>7. Whole' = SubSeq(Result(Src), 1, rpos + 1)
  BY <1>1, <1>3, <1>4, <1>6, Prefixes
<1>8. rpos + 1 \in 0 .. Len(Result(Src)) /\ rpos + 1 <= Len(Src)
  BY <1>1, <1>3
<1> QED
  BY <1>6, <1>7, <1>8

LEMMA BlockInv == ASSUME IInv, Block PROVE IInv'
<1>1. /\ pc = "work" /\ ~ierr /\ rpos < Len(fs[input])
      /\ rpos' = rpos + 1 /\ Write(<<Coded(fs[input][rpos + 1])>>)
      /\ UNCHANGED <<arguments, input, output, ierr, oerr, said, status, lost, pc>>
  BY DEF Block
<1>2. said = <<>> /\ ~oerr
  BY <1>1, WorkFacts
<1>3. /\ rpos + 1 \in 0 .. Len(Result(Src)) /\ rpos + 1 <= Len(Src)
      /\ fs' \in [Names -> Seq(Int)] /\ buffer' \in Seq(Int)
      /\ Whole' = SubSeq(Result(Src), 1, rpos + 1)
      /\ \A n \in Names : n # output => fs'[n] = fs[n]
  BY <1>1, NextBlock
<1>4. TypeOK' /\ StreamInv' /\ Src' = Src
  <2>1. <<>> # <<"cannot write">>
    OBVIOUS
  <2>2. rpos' \in Nat /\ ierr' \in BOOLEAN /\ oerr' \in BOOLEAN /\ status' \in {NoStatus, 0, -1}
    BY <1>1, <1>3 DEF IInv, TypeOK
  <2> QED
    BY <1>1, <1>2, <1>3, <2>1, <2>2, WorkStep
<1>5. OutputInv'
  BY <1>1, <1>2, <1>3, <1>4 DEF OutputInv
<1> QED
  BY <1>4, <1>5 DEF IInv

(* What a read error leaves of a block stands behind the whole ones.         *)
LEMMA ReadErrorInv == ASSUME IInv, ReadError PROVE IInv'
<1>1. /\ pc = "work" /\ ~ierr /\ ierr' = TRUE
      /\ UNCHANGED <<arguments, input, output, rpos, oerr, said, status, lost, pc>>
  BY DEF ReadError
<1>2. /\ said = <<>> /\ ~oerr /\ rpos \in 0 .. Len(Src) /\ Len(Src) \in Nat
      /\ Result(Src) \in Seq(Int) /\ Whole \in Seq(Int)
      /\ Stand(Whole, Result(Src)) /\ Piece(Whole, Result(Src))
  BY <1>1, WorkFacts
<1>3. /\ fs' \in [Names -> Seq(Int)] /\ buffer' \in Seq(Int)
      /\ Stand(Whole', Result(Src))
      /\ \A n \in Names : n # output => fs'[n] = fs[n]
  <2>1. CASE UNCHANGED <<fs, buffer>>
    <3>1. Whole' = Whole
      BY <1>1, <2>1 DEF Whole
    <3> QED
      BY <1>2, <2>1, <3>1 DEF IInv, TypeOK
  <2>2. ASSUME rpos < Len(fs[input]), Write(<<Coded(fs[input][rpos + 1])>>)
        PROVE  /\ fs' \in [Names -> Seq(Int)] /\ buffer' \in Seq(Int)
               /\ Stand(Whole', Result(Src))
               /\ \A n \in Names : n # output => fs'[n] = fs[n]
    BY <1>1, <2>2, NextBlock DEF Stand, Piece
  <2>3. CASE Write(<<Torn>>)
    BY <1>1, <1>2, <2>3, WriteTornStands DEF IInv
  <2> QED
    BY <2>1, <2>2, <2>3 DEF ReadError
<1>4. TypeOK' /\ StreamInv' /\ Src' = Src
  <2>1. <<>> # <<"cannot write">>
    OBVIOUS
  <2>2. rpos' \in Nat /\ ierr' \in BOOLEAN /\ oerr' \in BOOLEAN /\ status' \in {NoStatus, 0, -1}
    BY <1>1 DEF IInv, TypeOK
  <2> QED
    BY <1>1, <1>2, <1>3, <2>1, <2>2, WorkStep
<1>5. Stand(Whole, Result(Src))'
  BY <1>3, <1>4 DEF Stand, Piece, TornPiece
<1>6. OutputInv'
  BY <1>1, <1>2, <1>4, <1>5 DEF OutputInv
<1> QED
  BY <1>4, <1>6 DEF IInv

(* WriteTorn is one of the two ways in which what stands goes on to stand.   *)
LEMMA TornWork ==
  ASSUME IInv, pc = "work", WriteTorn, output' = output
  PROVE  /\ fs' \in [Names -> Seq(Int)] /\ buffer' \in Seq(Int)
         /\ Stand(Whole', Result(Src))
         /\ \A n \in Names : n # output => fs'[n] = fs[n]
<1>1. Result(Src) \in Seq(Int) /\ Stand(Whole, Result(Src)) /\ (~ierr => Piece(Whole, Result(Src)))
  BY WorkFacts
<1>2. Write(<<>>) \/ (Write(<<Torn>>) /\ Piece(Whole, Result(Src)))
  BY <1>1 DEF WriteTorn
<1> QED
  BY <1>1, <1>2, WriteTornStands DEF IInv

(* The other: the buffer gets lost, but for a torn block perhaps.            *)
LEMMA BufferLost ==
  ASSUME IInv, pc = "work", output' = output, buffer' = <<>>,
         \/ fs' = fs
         \/ (buffer # <<>> \/ ~ierr) /\ fs' = [fs EXCEPT ![output] = Append(@, Torn)]
  PROVE  /\ fs' \in [Names -> Seq(Int)] /\ buffer' \in Seq(Int)
         /\ Stand(Whole', Result(Src))
         /\ \A n \in Names : n # output => fs'[n] = fs[n]
<1> DEFINE f == fs[output]
<1>1. f \in Seq(Int) /\ buffer \in Seq(Int) /\ Torn \in Int /\ fs \in [Names -> Seq(Int)] /\ output \in Names
  BY DEF IInv, TypeOK, Torn
<1>2. /\ Result(Src) \in Seq(Int) /\ Whole \in Seq(Int) /\ Stand(Whole, Result(Src))
      /\ (~ierr => Piece(Whole, Result(Src)))
  BY WorkFacts
<1>3. /\ Len(f) \in Nat /\ Len(buffer) \in Nat /\ Len(Whole) = Len(f) + Len(buffer)
      /\ Len(buffer) = 0 => buffer = <<>>
  BY <1>1, LenProperties, ConcatProperties, EmptySeq DEF Whole
<1>4. Append(f, Torn) \in Seq(Int) /\ Append(f, Torn) = f \o <<Torn>>
  BY <1>1, AppendProperties, AppendIsConcat
<1>5. f = SubSeq(Whole, 1, Len(f))
  <2>1. 0 \in 0 .. Len(buffer) /\ SubSeq(buffer, 1, 0) = <<>> /\ Len(f) + 0 = Len(f)
    BY <1>3, SubSeqEmpty
  <2>2. f \o SubSeq(buffer, 1, 0) = SubSeq(Whole, 1, Len(f) + 0)
    BY <1>1, <2>1, FrontOfConcat DEF Whole
  <2> QED
    BY <1>1, <2>1, <2>2, ConcatEmptySeq
<1> HIDE DEF f
<1>6. Len(f) \in 0 .. Len(Whole)
  BY <1>3
<1>7. Stand(f, Result(Src)) /\ (buffer # <<>> => Stand(Append(f, Torn), Result(Src)))
  <2>1. buffer # <<>> => Len(f) < Len(Whole)
    BY <1>3
  <2> QED
    BY <1>2, <1>4, <1>5, <1>6, <2>1, FrontStands
<1>8. ~ierr /\ buffer = <<>> => Stand(Append(f, Torn), Result(Src))
  <2> SUFFICES ASSUME ~ierr, buffer = <<>> PROVE Stand(Append(f, Torn), Result(Src))
    OBVIOUS
  <2>1. Whole = f
    BY <1>1, ConcatEmptySeq DEF Whole, f
  <2>2. PICK k \in 0 .. Len(Result(Src)) : f = SubSeq(Result(Src), 1, k)
    BY <1>2, <2>1 DEF Piece
  <2> QED
    BY <2>2 DEF Stand, TornPiece
<1>9. fs'[output] \in {f, Append(f, Torn)} /\ Stand(fs'[output], Result(Src))
  <2>1. CASE fs' = fs
    BY <1>7, <2>1 DEF f
  <2>2. CASE (buffer # <<>> \/ ~ierr) /\ fs' = [fs EXCEPT ![output] = Append(f, Torn)]
    BY <1>1, <1>7, <1>8, <2>2
  <2> QED
    BY <2>1, <2>2 DEF f
<1>10. fs' \in [Names -> Seq(Int)] /\ \A n \in Names : n # output => fs'[n] = fs[n]
  <2>1. CASE fs' = fs
    BY <1>1, <2>1
  <2>2. CASE fs' = [fs EXCEPT ![output] = Append(f, Torn)]
    BY <1>1, <1>4, <2>2
  <2> QED
    BY <2>1, <2>2 DEF f
<1>11. Whole' = fs'[output]
  BY <1>1, <1>10, ConcatEmptySeq DEF Whole
<1> QED
  BY <1>9, <1>10, <1>11, EmptySeq

LEMMA WriteErrorInv == ASSUME IInv, WriteError PROVE IInv'
<1>1. /\ pc = "work" /\ oerr' = TRUE /\ pc' = "done"
      /\ UNCHANGED <<arguments, input, output, rpos, ierr, said, status, lost>>
  BY DEF WriteError
<1>2. said = <<>>
  BY <1>1, WorkFacts
<1>3. /\ fs' \in [Names -> Seq(Int)] /\ buffer' \in Seq(Int)
      /\ Stand(Whole', Result(Src))
      /\ \A n \in Names : n # output => fs'[n] = fs[n]
  <2>1. CASE WriteTorn
    BY <1>1, <2>1, TornWork
  <2>2. CASE /\ buffer' = <<>>
             /\ \/ fs' = fs
                \/ (buffer # <<>> \/ ~ierr) /\ fs' = [fs EXCEPT ![output] = Append(@, Torn)]
    BY <1>1, <2>2, BufferLost
  <2> QED
    BY <2>1, <2>2 DEF WriteError
<1>4. TypeOK' /\ StreamInv' /\ Src' = Src
  <2>1. <<>> # <<"cannot write">>
    OBVIOUS
  <2>2. rpos' \in Nat /\ ierr' \in BOOLEAN /\ oerr' \in BOOLEAN /\ status' \in {NoStatus, 0, -1}
    BY <1>1 DEF IInv, TypeOK
  <2> QED
    BY <1>1, <1>2, <1>3, <2>1, <2>2, WorkStep
<1>5. Stand(Whole, Result(Src))'
  BY <1>3, <1>4 DEF Stand, Piece, TornPiece
<1>6. OutputInv'
  BY <1>1, <1>2, <1>5 DEF OutputInv
<1> QED
  BY <1>4, <1>6 DEF IInv

(* A step of the work or behind it that leaves the files and the streams as  *)
(* they are.                                                                 *)
LEMMA QuietStep ==
  ASSUME IInv, UNCHANGED <<arguments, files, input, output, rpos, ierr, oerr, lost>>,
         pc \in {"work", "done", "return"}, pc' \in {"done", "return", "exit"}, status' \in {NoStatus, 0, -1},
         said # <<"cannot write">>, said' # <<"cannot write">>
  PROVE  TypeOK' /\ StreamInv' /\ Whole' = Whole /\ Src' = Src
<1>1. TypeOK'
  BY DEF IInv, TypeOK, arguments, files
<1>2. Whole' = Whole /\ Src' = Src
  BY DEF Whole, Src, arguments, files
<1>3. StreamInv'
  BY DEF IInv, StreamInv, arguments, files
<1> QED
  BY <1>1, <1>2, <1>3

LEMMA StandStable ==
  ASSUME UNCHANGED <<Whole, Src>>
  PROVE  Stand(Whole, Result(Src))' <=> Stand(Whole, Result(Src))
BY DEF Stand, Piece, TornPiece

LEMMA EndOfInputInv == ASSUME IInv, EndOfInput PROVE IInv'
<1> USE DEF IInv
<1>1. pc = "work" /\ pc' = "done" /\ said' = said /\ ierr' = ierr /\ oerr' = oerr /\ (ierr \/ rpos = Len(fs[input]))
  BY DEF EndOfInput
<1>2. said = <<>> /\ ~oerr /\ Stand(Whole, Result(Src)) /\ (~ierr => Whole = SubSeq(Result(Src), 1, rpos))
  BY <1>1, WorkFacts
<1>3. said # <<"cannot write">>
  <2>1. <<>> # <<"cannot write">>
    OBVIOUS
  <2> QED
    BY <1>2, <2>1
<1>4. TypeOK' /\ StreamInv' /\ Whole' = Whole /\ Src' = Src
  BY <1>1, <1>3, QuietStep DEF EndOfInput, TypeOK
<1>5. ~ierr => Whole = Result(Src)
  BY <1>1, <1>2, SourceType, SubSeqFull
<1>6. OutputInv'
  BY <1>1, <1>2, <1>4, <1>5, StandStable DEF OutputInv
<1> QED
  BY <1>4, <1>6

LEMMA OnDoneInv == ASSUME IInv, OnDone PROVE IInv'
<1> USE DEF IInv
<1>1. pc = "done" /\ said = <<>> /\ pc' = "return" /\ said' = <<>> \o Verdict(ierr \/ oerr) /\ ierr' = ierr /\ oerr' = oerr
  BY DEF OnDone, OutputInv
<1>2. said' = Verdict(ierr \/ oerr) /\ said' # <<"cannot write">>
  <2>1. <<>> \o <<"I/O error">> = <<"I/O error">> /\ <<>> \o <<"summary">> = <<"summary">>
    OBVIOUS
  <2>2. Verdict(ierr \/ oerr) \in {<<"I/O error">>, <<"summary">>}
    BY DEF Verdict
  <2>3. said' = Verdict(ierr \/ oerr)
    BY <1>1, <2>1, <2>2
  <2>4. <<"I/O error">> # <<"cannot write">> /\ <<"summary">> # <<"cannot write">>
    OBVIOUS
  <2> QED
    BY <2>2, <2>3, <2>4
<1>3. TypeOK' /\ StreamInv' /\ Whole' = Whole /\ Src' = Src
  BY <1>1, <1>2, QuietStep DEF OnDone, TypeOK
<1>4. IF ierr \/ oerr THEN Stand(Whole, Result(Src)) ELSE Whole = Result(Src)
  BY <1>1 DEF OutputInv
<1>5. OutputInv'
  BY <1>1, <1>2, <1>3, <1>4, StandStable DEF OutputInv
<1> QED
  BY <1>3, <1>5

LEMMA ReturnInv == ASSUME IInv, Return PROVE IInv'
<1> USE DEF IInv
<1>1. pc = "return" /\ pc' = "exit" /\ said' = said /\ said = Verdict(ierr \/ oerr) /\ status' = Status(ierr, oerr)
  BY DEF Return, OutputInv
<1>2. said # <<"cannot write">> /\ status' \in {0, -1}
  BY <1>1 DEF Verdict, Status
<1>3. TypeOK' /\ StreamInv' /\ Whole' = Whole /\ Src' = Src
  BY <1>1, <1>2, QuietStep DEF Return
<1>4. args' = args /\ input' = input /\ source' = source /\ (args = 3 => input = source)
  BY <1>1 DEF Return, arguments, StreamInv
<1>5. CASE ierr \/ oerr
  <2>1. said' = <<"I/O error">> /\ status' = -1 /\ Stand(Whole, Result(Src))
    BY <1>1, <1>5 DEF Verdict, Status, OutputInv
  <2>2. Failed'
    BY <1>3, <1>4, <2>1, StandStable DEF Failed, Said, Late
  <2> QED
    BY <1>1, <1>3, <2>2 DEF OutputInv
<1>6. CASE ~(ierr \/ oerr)
  <2>1. said' = <<"summary">> /\ status' = 0 /\ Whole = Result(Src)
    BY <1>1, <1>6 DEF Verdict, Status, OutputInv
  <2>2. Succeeded' /\ Whole' = Result(Src)'
    BY <1>3, <2>1 DEF Succeeded
  <2> QED
    BY <1>1, <1>3, <1>4, <2>2 DEF OutputInv
<1> QED
  BY <1>5, <1>6

LEMMA ThrowInv == ASSUME IInv, Throw PROVE IInv'
<1>1. pc = "work" /\ UNCHANGED <<arguments, exists, input, output, rpos, ierr, oerr, lost>>
  BY DEF Throw
<1>2. said = <<>> /\ Stand(Whole, Result(Src)) /\ (args = 3 => input = source)
  BY <1>1, WorkFacts DEF IInv, StreamInv
<1>3. PICK m \in {"allocation failed", "runtime error"} : Refuse(m)
  BY DEF Throw
<1>4. said' = <<m>> /\ status' = -1 /\ pc' = "exit" /\ said' # <<"cannot write">>
  <2>1. said' = <<m>> /\ status' = -1 /\ pc' = "exit"
    BY <1>2, <1>3, RefuseSays
  <2>2. <<m>> # <<"cannot write">>
    OBVIOUS
  <2> QED
    BY <2>1, <2>2
<1>5. /\ fs' \in [Names -> Seq(Int)] /\ buffer' \in Seq(Int)
      /\ Stand(Whole', Result(Src))
      /\ \A n \in Names : n # output => fs'[n] = fs[n]
  <2>1. CASE UNCHANGED <<fs, buffer>>
    <3>1. Whole' = Whole
      BY <1>1, <2>1 DEF Whole
    <3> QED
      BY <1>2, <2>1, <3>1 DEF IInv, TypeOK
  <2>2. CASE WriteTorn
    BY <1>1, <2>2, TornWork
  <2> QED
    BY <2>1, <2>2 DEF Throw
<1>6. TypeOK' /\ StreamInv' /\ Src' = Src
  <2>1. rpos' \in Nat /\ ierr' \in BOOLEAN /\ oerr' \in BOOLEAN
    BY <1>1 DEF IInv, TypeOK
  <2> QED
    BY <1>1, <1>4, <1>5, <2>1, WorkStep
<1>7. Failed'
  <2>1. Stand(Whole, Result(Src))'
    BY <1>5, <1>6 DEF Stand, Piece, TornPiece
  <2>2. args' = args /\ source' = source
    BY <1>1 DEF arguments
  <2> QED
    BY <1>1, <1>2, <1>4, <2>1, <2>2 DEF Failed, Said, Late
<1>8. OutputInv'
  BY <1>4, <1>7 DEF OutputInv
<1> QED
  BY <1>6, <1>8 DEF IInv


(* The flush at the exit: all of the output, or a front of it.               *)
LEMMA ExitInv == ASSUME IInv, Exit PROVE IInv'
<1> USE DEF IInv
<1>1. pc = "exit" /\ pc' = "exited" /\ buffer' = <<>> /\ UNCHANGED <<arguments, exists, input, output, rpos, ierr, oerr, said, status>>
  BY DEF Exit
<1> DEFINE f == fs[output]
<1>2. PICK k \in 0 .. Len(buffer), torn \in {<<>>, <<Torn>>} :
        /\ k = Len(buffer) => torn = <<>>
        /\ lost' = (k < Len(buffer))
        /\ fs' = [fs EXCEPT ![output] = f \o SubSeq(buffer, 1, k) \o torn]
  BY DEF Exit
<1> DEFINE c == SubSeq(buffer, 1, k)
           j == Len(f) + k
<1>3. f \in Seq(Int) /\ buffer \in Seq(Int) /\ c \in Seq(Int) /\ Whole \in Seq(Int)
  <2>1. f \in Seq(Int) /\ buffer \in Seq(Int)
    BY DEF TypeOK
  <2> QED
    BY <2>1, Prefixes, ConcatProperties DEF Whole
<1>4. f \o c = SubSeq(Whole, 1, j)
  BY <1>3, FrontOfConcat DEF Whole
<1>5. torn \in Seq(Int)
  <2>1. <<>> \in Seq(Int) /\ <<0>> \in Seq(Int)
    OBVIOUS
  <2> QED
    BY <1>2, <2>1 DEF Torn
<1>6. Len(f) \in Nat /\ Len(buffer) \in Nat /\ Len(Whole) = Len(f) + Len(buffer)
  BY <1>3, LenProperties, ConcatProperties DEF Whole
<1>7. c = SubSeq(buffer, 1, k)
  OBVIOUS
<1> HIDE DEF f, c
<1> DEFINE w == (f \o c) \o torn
<1>8. w \in Seq(Int)
  BY <1>3, <1>5, ConcatProperties
<1> HIDE DEF w
<1>9. fs' = [fs EXCEPT ![output] = w]
  BY <1>2 DEF w, c
<1>10. fs' \in [Names -> Seq(Int)] /\ fs'[output] = w /\ \A n \in Names : n # output => fs'[n] = fs[n]
  BY <1>8, <1>9 DEF TypeOK
<1>11. Whole' = w
  BY <1>1, <1>8, <1>10, ConcatEmptySeq DEF Whole
<1>12. Src' = Src
  BY <1>1 DEF Src, arguments
<1>13. TypeOK'
  <2>1. lost' \in BOOLEAN
    BY <1>2
  <2>2. buffer' \in Seq(Int)
    BY <1>1, EmptySeq
  <2> QED
    BY <1>1, <1>10, <2>1, <2>2 DEF TypeOK, arguments
<1>14. StreamInv'
  BY <1>1, <1>10 DEF StreamInv, arguments
<1>15. CASE k = Len(buffer)
  <2>1. torn = <<>> /\ c = buffer
    BY <1>2, <1>3, <1>7, <1>15, SubSeqFull
  <2>2. w = Whole
    BY <1>3, <2>1, ConcatProperties, ConcatEmptySeq DEF w, Whole, f
  <2>3. Whole' = Whole
    BY <1>11, <2>2
  <2>4. Succeeded /\ Whole = Result(Src) /\ (args = 3 => input = source) => (Succeeded /\ Whole = Result(Src) /\ (args = 3 => input = source))'
    BY <1>1, <1>12, <2>3 DEF Succeeded, arguments
  <2>5. Refused => Refused'
    BY <1>1, <2>3 DEF Refused, Said
  <2>6. Failed => Failed'
    BY <1>1, <1>12, <2>3, StandStable DEF Failed, Said, arguments
  <2> QED
    BY <1>1, <1>13, <1>14, <2>4, <2>5, <2>6 DEF OutputInv
<1>16. CASE k # Len(buffer)
  <2>1. j \in 0 .. Len(Whole) /\ j < Len(Whole) /\ lost'
    <3>1. k < Len(buffer)
      BY <1>6, <1>16
    <3>2. lost'
      BY <1>2, <3>1, Zenon
    <3> QED
      BY <1>6, <3>1, <3>2
  <2>2. w = SubSeq(Whole, 1, j) \o torn
    BY <1>4 DEF w
  <2>3. Stand(Whole, Result(Src)) => Stand(w, Result(Src))
    <3> HIDE DEF j
    <3> SUFFICES ASSUME Stand(Whole, Result(Src)) PROVE Stand(w, Result(Src))
      OBVIOUS
    <3>1. Result(Src) \in Seq(Int)
      BY SourceType
    <3>2. Stand(SubSeq(Whole, 1, j), Result(Src)) /\ Stand(SubSeq(Whole, 1, j) \o <<Torn>>, Result(Src))
      BY <1>3, <2>1, <3>1, FrontStands
    <3>3. SubSeq(Whole, 1, j) \o <<>> = SubSeq(Whole, 1, j)
      BY <1>3, <2>1, Prefixes, ConcatEmptySeq
    <3> QED
      BY <1>2, <2>2, <3>2, <3>3
  <2>4. Stand(Whole, Result(Src)) => Stand(Whole, Result(Src))'
    BY <1>11, <1>12, <2>3 DEF Stand, Piece, TornPiece
  <2>5. ~Refused
    <3>1. Len(<<>>) = 0 /\ Len(Whole) > 0
      BY <1>6, <2>1
    <3> QED
      BY <3>1 DEF Refused
  <2>6. Failed => Failed'
    BY <1>1, <2>4 DEF Failed, Said, arguments
  <2>7. Whole = Result(Src) => Stand(Whole, Result(Src))
    <3>1. Len(Whole) \in 0 .. Len(Whole) /\ Whole = SubSeq(Whole, 1, Len(Whole))
      BY <1>3, <1>6, SubSeqFull
    <3> QED
      BY <3>1 DEF Stand, Piece
  <2>8. Succeeded /\ (args = 3 => input = source) => (Succeeded /\ (args = 3 => input = source))'
    BY <1>1 DEF Succeeded, arguments
  <2> QED
    BY <1>1, <1>13, <1>14, <2>1, <2>4, <2>5, <2>6, <2>7, <2>8 DEF OutputInv
<1> QED
  BY <1>15, <1>16

LEMMA StutterInv == ASSUME IInv, UNCHANGED vars PROVE IInv'
<1>1. TypeOK'
  BY DEF IInv, TypeOK, vars, arguments, files
<1>2. StreamInv'
  BY DEF IInv, StreamInv, vars, arguments, files
<1>3. Whole' = Whole /\ Src' = Src
  BY DEF Whole, Src, vars, arguments, files
<1>4. Stand(Whole, Result(Src))' <=> Stand(Whole, Result(Src))
  BY <1>3, StandStable
<1>5. OutputInv'
  BY <1>3, <1>4 DEF IInv, OutputInv, Succeeded, Refused, Failed, Said, vars, arguments, files
<1> QED
  BY <1>1, <1>2, <1>5 DEF IInv

LEMMA NextInv == IInv /\ [Next]_vars => IInv'
BY OpenTargetInv, OpenSourceInv, DispatchInv, BlockInv, ReadErrorInv, WriteErrorInv,
   EndOfInputInv, ThrowInv, OnDoneInv, ReturnInv, ExitInv, StutterInv DEF Next, Terminating

(* Every state of a run satisfies IInv. *)
LEMMA Invariance == Spec => []IInv
BY InitInv, NextInv, PTL DEF Spec
-----------------------------------------------------------------------------
(* Whatever the files: a run that returns 0 and prints its summary has       *)
(* written the whole result, unless the flush at the exit failed after that; *)
(* and a run that prints anything else does not return 0.                    *)
THEOREM StatusTold == Spec => []StatusIsTrue
<1>1. IInv => StatusIsTrue
  <2> SUFFICES ASSUME IInv, pc = "exited"
               PROVE  /\ status = 0 => fs[output] = (IF input = output THEN <<>> ELSE Result(fs[input])) \/ lost
                      /\ Len(said) = 1 /\ (said[1] = "summary" <=> status = 0)
    BY DEF StatusIsTrue
  <2>1. Whole = fs[output]
    BY ConcatEmptySeq DEF Whole, IInv, TypeOK, OutputInv
  <2>2. Result(Src) = (IF input = output THEN <<>> ELSE Result(fs[input]))
    <3>1. CASE input = output
      <4>1. Src = <<>> /\ Len(<<>>) = 0 /\ <<>> \in Seq(Int)
        BY <3>1 DEF Src
      <4>2. Result(Src) \in Seq(Int) /\ Len(Result(Src)) = 0
        BY <4>1, ResultType
      <4>3. Result(Src) = <<>>
        BY <4>2, EmptySeq
      <4> QED
        BY <3>1, <4>3
    <3>2. CASE input # output
      <4>1. fs[input] = Src
        BY <3>2 DEF IInv, TypeOK, StreamInv, Src
      <4> QED
        BY <3>2, <4>1
    <3> QED
      BY <3>1, <3>2
  <2>3. CASE Succeeded /\ (Whole = Result(Src) \/ lost)
    <3>1. said = <<"summary">> /\ status = 0
      BY <2>3 DEF Succeeded
    <3>2. Len(said) = 1 /\ said[1] = "summary"
      BY <3>1
    <3> QED
      BY <2>1, <2>2, <2>3, <3>1, <3>2
  <2>4. CASE Refused \/ Failed
    <3>1. status = -1 /\ Said(Early \cup Late)
      BY <2>4 DEF Refused, Failed, Said
    <3>2. PICK m \in Early \cup Late : said = <<m>>
      BY <3>1 DEF Said
    <3>3. Len(said) = 1 /\ said[1] = m
      BY <3>2
    <3>4. m # "summary"
      BY DEF Early, Late
    <3> QED
      BY <3>1, <3>3, <3>4
  <2> QED
    BY <2>3, <2>4 DEF IInv, OutputInv
<1> QED
  BY <1>1, Invariance, PTL

(* Whatever the files, a target that was opened ends up with a front of the  *)
(* result and, where something failed, perhaps a torn block behind it; one   *)
(* that could not be opened is what it was.                                  *)
THEOREM TargetTold == Spec => []TargetFate
<1>1. IInv => TargetFate
  <2> SUFFICES ASSUME IInv, pc = "exited", args = 3
               PROVE  IF said = <<"cannot write">> THEN fs[target] = before[target]
                      ELSE \E k \in 0 .. Len(before[source]) :
                             LET done == SubSeq(Result(before[source]), 1, k)
                             IN  \/ fs[target] = done /\ (said \in {<<"cannot read">>, <<"usage">>} => k = 0)
                                 \/ fs[target] = Append(done, Torn) /\ (status = -1 \/ lost)
    BY DEF TargetFate
  <2>1. CASE said = <<"cannot write">>
    <3>1. output = "stdout" /\ target \in Names /\ target # "stdout"
      BY <2>1, DemoAssumption DEF IInv, TypeOK, StreamInv, Names
    <3> QED
      BY <2>1, <3>1 DEF IInv, StreamInv
  <2>2. CASE said # <<"cannot write">>
    <3> DEFINE r == Result(before[source])
    <3>1. output = target
      BY <2>2 DEF IInv, StreamInv
    <3>2. fs[target] = Whole
      BY <3>1, ConcatEmptySeq DEF Whole, IInv, TypeOK, OutputInv
    <3>3. before[source] \in Seq(Int) /\ Len(before[source]) \in Nat /\ Len(r) = Len(before[source])
      <4>1. before[source] \in Seq(Int)
        BY DEF IInv, TypeOK, Names
      <4> QED
        BY <4>1, LenProperties, ResultType
    <3>4. SubSeq(r, 1, 0) = <<>> /\ 0 \in 0 .. Len(before[source])
      BY <3>3, SubSeqEmpty
    <3>5. CASE Refused
      BY <2>2, <3>2, <3>4, <3>5 DEF Refused
    <3>6. ASSUME Stand(Whole, Result(Src)), input = source, status = -1 \/ lost,
                 said \notin {<<"cannot read">>, <<"usage">>}
          PROVE  \E k \in 0 .. Len(before[source]) :
                   \/ fs[target] = SubSeq(r, 1, k) /\ (said \in {<<"cannot read">>, <<"usage">>} => k = 0)
                   \/ fs[target] = Append(SubSeq(r, 1, k), Torn) /\ (status = -1 \/ lost)
      <4>1. CASE source = target
        <5>1. Src = <<>>
          BY <3>1, <3>6, <4>1 DEF Src
        <5>2. Len(Result(Src)) = 0
          <6>1. <<>> \in Seq(Int) /\ Len(<<>>) = 0
            OBVIOUS
          <6> QED
            BY <5>1, <6>1, ResultType
        <5>3. \A k \in 0 .. 0 : SubSeq(Result(Src), 1, k) = SubSeq(r, 1, 0)
          BY <3>4, SubSeqEmpty
        <5>4. Whole = SubSeq(r, 1, 0) \/ Whole = Append(SubSeq(r, 1, 0), Torn)
          BY <3>6, <5>2, <5>3 DEF Stand, Piece, TornPiece
        <5> QED
          BY <3>2, <3>4, <3>6, <5>4
      <4>2. CASE source # target
        <5>1. Result(Src) = r
          BY <3>1, <3>6, <4>2 DEF Src
        <5> QED
          BY <3>2, <3>3, <3>6, <5>1 DEF Stand, Piece, TornPiece
      <4> QED
        BY <4>1, <4>2
    <3>7. CASE Failed
      <4>1. said \notin {<<"cannot read">>, <<"usage">>}
        <5>1. PICK m \in Late : said = <<m>>
          BY <3>7 DEF Failed, Said
        <5>2. m # "cannot read" /\ m # "usage"
          BY DEF Late
        <5>3. said[1] = m /\ (\A x : <<x>>[1] = x)
          BY <5>1
        <5> QED
          BY <5>2, <5>3
      <4> QED
        BY <2>2, <3>6, <3>7, <4>1 DEF Failed
    <3>8. CASE /\ Succeeded /\ input = source
               /\ Whole = Result(Src) \/ (lost /\ Stand(Whole, Result(Src)))
      <4>1. said \notin {<<"cannot read">>, <<"usage">>}
        BY <3>8 DEF Succeeded
      <4>2. CASE lost /\ Stand(Whole, Result(Src))
        BY <2>2, <3>6, <3>8, <4>1, <4>2
      <4>3. CASE Whole = Result(Src)
        <5>1. CASE source = target
          <6>1. Src = <<>> /\ <<>> \in Seq(Int) /\ Len(<<>>) = 0
            BY <3>1, <3>8, <5>1 DEF Src
          <6>2. Result(Src) \in Seq(Int) /\ Len(Result(Src)) = 0
            BY <6>1, ResultType
          <6>3. Whole = SubSeq(r, 1, 0)
            BY <3>4, <4>3, <6>2, EmptySeq
          <6> QED
            BY <2>2, <3>2, <3>4, <6>3
        <5>2. CASE source # target
          <6>1. Whole = r
            BY <3>1, <3>8, <4>3, <5>2 DEF Src
          <6>2. r \in Seq(Int) /\ SubSeq(r, 1, Len(before[source])) = r /\ Len(before[source]) \in 0 .. Len(before[source])
            BY <3>3, ResultType, SubSeqFull
          <6> QED
            BY <2>2, <3>2, <4>1, <6>1, <6>2
        <5> QED
          BY <5>1, <5>2
      <4> QED
        BY <3>8, <4>2, <4>3
    <3> QED
      BY <3>5, <3>7, <3>8 DEF IInv, OutputInv
  <2> QED
    BY <2>1, <2>2
<1> QED
  BY <1>1, Invariance, PTL


(* Nothing written, nothing flushed. *)
LEMMA QuietExit ==
  ASSUME IInv, Exit, Whole = <<>>
  PROVE  fs' = fs
<1>1. fs \in [Names -> Seq(Int)] /\ buffer \in Seq(Int) /\ fs[output] \in Seq(Int)
  BY DEF IInv, TypeOK
<1>2. buffer = <<>> /\ fs[output] = <<>>
  BY <1>1, ConcatEqualIffEmpty DEF Whole
<1>3. Len(buffer) = 0
  BY <1>2, EmptySeq
<1>4. SubSeq(<<>>, 1, 0) = <<>> /\ <<>> \o <<>> = <<>>
  BY SubSeqEmpty, EmptySeq, ConcatEmptySeq
<1>5. fs' = [fs EXCEPT ![output] = (fs[output] \o SubSeq(buffer, 1, 0)) \o <<>>]
  <2>1. PICK k \in 0 .. Len(buffer), torn \in {<<>>, <<Torn>>} :
          /\ k = Len(buffer) => torn = <<>>
          /\ fs' = [fs EXCEPT ![output] = (fs[output] \o SubSeq(buffer, 1, k)) \o torn]
    BY DEF Exit
  <2>2. k = 0
    BY <1>3
  <2> QED
    BY <1>3, <2>1, <2>2
<1> QED
  BY <1>1, <1>2, <1>4, <1>5

(* No step changes a file that is not the target, nor the target before it   *)
(* has been opened; without a target only stdout is written.                 *)
THEOREM TargetOnly == Spec => OnlyTargetChanges
<1>1. IInv /\ [Next]_vars => [\A n \in Names : fs'[n] # fs[n] => n = output' /\ (args = 3 <=> n = target)]_vars
  <2> SUFFICES ASSUME IInv, Next, NEW n \in Names, fs'[n] # fs[n]
               PROVE  n = output' /\ (args = 3 <=> n = target)
    OBVIOUS
  <2>1. target \in Names /\ source \in Names /\ target # "stdout" /\ fs \in [Names -> Seq(Int)] /\ buffer \in Seq(Int)
    BY DemoAssumption DEF IInv, TypeOK, Names
  <2>2. CASE OpenTarget
    BY <2>1, <2>2 DEF OpenTarget, files
  <2>3. CASE n = output /\ output' = output /\ ~(pc = "target" \/ said = <<"cannot write">>)
    BY <2>1, <2>3 DEF IInv, StreamInv
  <2>4. CASE OpenSource
    BY <2>1, <2>4 DEF OpenSource, OpenedToRead
  <2>5. ASSUME WriteTorn \/ \E blocks : Write(blocks), output' = output PROVE n = output
    BY <2>1, <2>5 DEF Write, WriteTorn
  <2>6. CASE Block \/ ReadError \/ WriteError
    <3>1. n = output /\ output' = output
      BY <2>1, <2>5, <2>6 DEF Block, ReadError, WriteError
    <3>2. pc # "target" /\ said # <<"cannot write">>
      <4>1. pc = "work" /\ said = <<>>
        BY <2>6 DEF Block, ReadError, WriteError, IInv, OutputInv
      <4>2. <<>> # <<"cannot write">>
        OBVIOUS
      <4> QED
        BY <4>1, <4>2
    <3> QED
      BY <2>3, <3>1, <3>2
  <2>7. CASE Throw
    <3>1. n = output /\ output' = output
      BY <2>1, <2>5, <2>7 DEF Throw
    <3>2. pc # "target" /\ said # <<"cannot write">>
      <4>1. pc = "work" /\ said = <<>>
        BY <2>7 DEF Throw, IInv, OutputInv
      <4>2. <<>> # <<"cannot write">>
        OBVIOUS
      <4> QED
        BY <4>1, <4>2
    <3> QED
      BY <2>3, <3>1, <3>2
  <2>8. CASE Exit
    <3>1. n = output /\ output' = output /\ pc = "exit"
      BY <2>1, <2>8 DEF Exit
    <3>2. said # <<"cannot write">>
      <4> SUFFICES ASSUME said = <<"cannot write">> PROVE FALSE
        OBVIOUS
      <4>1. ~Succeeded /\ ~Failed
        <5>1. <<"cannot write">> # <<"summary">> /\ \A m \in Late : <<"cannot write">> # <<m>>
          BY DEF Late
        <5> QED
          BY <5>1 DEF Succeeded, Failed, Said
      <4>2. Whole = <<>>
        BY <3>1, <4>1 DEF IInv, OutputInv, Refused
      <4> QED
        BY <2>8, <4>2, QuietExit
    <3> QED
      BY <2>3, <3>1, <3>2
  <2>9. CASE Dispatch \/ EndOfInput \/ OnDone \/ Return \/ Terminating
    BY <2>9 DEF Dispatch, EndOfInput, OnDone, Return, Terminating, files, vars
  <2> QED
    BY <2>2, <2>4, <2>6, <2>7, <2>8, <2>9 DEF Next
<1> QED
  BY <1>1, Invariance, PTL DEF Spec, OnlyTargetChanges
=============================================================================
