------------------------------ MODULE WordCopy ------------------------------
(***************************************************************************)
(* IncrementalCopyFastPath of libzling_lz.cpp.  A match is copied in words *)
(* of four bytes.  Source and destination may overlap, and then bytes that *)
(* the copy has just produced are copied on; while they are less than a    *)
(* word apart only the first dst - src bytes of a word are right, and the  *)
(* distance is doubled.  RolzDecoder copies byte by byte; this module      *)
(* shows that words come to the same.                                      *)
(***************************************************************************)
EXTENDS Integers

CONSTANTS
  MemSize,   (* bytes of the output block, with the room behind it     *)
  WordBytes, (* 4: the bytes of a word                                 *)
  Copies     (* the copies to be made: source, destination and length  *)

Place == 0 .. MemSize - 1

ASSUME WordCopyAssumption ==
  /\ MemSize \in Nat /\ WordBytes \in Nat \ {0}
  /\ \A c \in Copies :
       /\ c.src \in Place /\ c.dst \in Place /\ c.len \in Nat
       /\ c.src < c.dst /\ c.dst + c.len + WordBytes <= MemSize

VARIABLES
  job,   (* the copy as it was asked for                              *)
  mem,   (* the bytes; at first each is its own place                 *)
  src,   (* the arguments, as the function changes them               *)
  dst,
  len,
  pc     (* which of the two loops runs                               *)

vars == <<job, mem, src, dst, len, pc>>

Init ==
  /\ job \in Copies
  /\ mem = [i \in Place |-> i]
  /\ src = job.src /\ dst = job.dst /\ len = job.len
  /\ pc = "near"

(* A word is read at one place and written at another. *)
StoreWord ==
  mem' = [i \in Place |->
            IF i \in dst .. dst + WordBytes - 1 THEN mem[i - dst + src] ELSE mem[i]]

(* Fault, for mutation: a distance just short of a word counts as one. *)
NearButOne == dst - src < WordBytes - 1

Near == dst - src < WordBytes

(* while (dst - src < 4) *)
CopyNear ==
  /\ pc = "near" /\ Near
  /\ StoreWord
  /\ len' = len - (dst - src)
  /\ dst' = dst + (dst - src)
  /\ UNCHANGED <<job, src, pc>>

EndNear ==
  /\ pc = "near" /\ ~Near
  /\ pc' = "far"
  /\ UNCHANGED <<job, mem, src, dst, len>>

(* Fault, for mutation: a last word that is not wanted whole is written. *)
MoreWithSlack == len > -WordBytes

More == len > 0

(* while (len > 0) *)
CopyFar ==
  /\ pc = "far" /\ More
  /\ StoreWord
  /\ len' = len - WordBytes
  /\ dst' = dst + WordBytes
  /\ src' = src + WordBytes
  /\ UNCHANGED <<job, pc>>

EndFar ==
  /\ pc = "far" /\ ~More
  /\ pc' = "done"
  /\ UNCHANGED <<job, mem, src, dst, len>>

Terminating == pc = "done" /\ UNCHANGED vars

Next == CopyNear \/ EndNear \/ CopyFar \/ EndFar \/ Terminating

Spec == Init /\ [][Next]_vars
-----------------------------------------------------------------------------
(* The byte that a copy byte by byte would leave at place i. *)
Copied(i) == job.src + ((i - job.src) % (job.dst - job.src))

(* When it is done, the bytes asked for are those a copy byte by byte would  *)
(* have made, and what was there before them is untouched.                   *)
CopiesEveryByte ==
  pc = "done" =>
    /\ \A i \in job.dst .. job.dst + job.len - 1 : mem[i] = Copied(i)
    /\ \A i \in 0 .. job.dst - 1 : mem[i] = i

(* No more than a word less one byte is written behind the bytes asked for,  *)
(* if a match is no shorter than a word: the room behind the output block    *)
(* takes it.                                                                 *)
OverrunBounded ==
  job.len >= WordBytes =>
    \A i \in job.dst + job.len + WordBytes - 1 .. MemSize - 1 : mem[i] = i
=============================================================================
