----------------------------- MODULE Resources -----------------------------
(***************************************************************************)
(* What Encode and Decode take from the heap and give back: the members of *)
(* EncodeResource or DecodeResource, allocated one after another, and in   *)
(* Encode the Huffman trees, which come and go.  Any allocation may fail.  *)
(***************************************************************************)
EXTENDS Integers, Sequences

CONSTANTS
  MaxLeaves,  (* kHuffmanCodes1: leaves of a tree                      *)
  MaxTrees    (* bound: trees built in a run, two or more to a chunk   *)

ASSUME ResourcesAssumption == MaxLeaves \in Nat \ {0} /\ MaxTrees \in Nat

VARIABLES
  encoding,      (* Encode, or Decode                                     *)
  news, frees,   (* how often each member was allocated, and was deleted  *)
  next,          (* members allocated                                     *)
  leaves, nodes, (* of the tree being built: its leaves, nodes so far     *)
  leaked,        (* nodes no pointer leads to any more                    *)
  trees,         (* trees built                                           *)
  ended,         (* how the call ends: not yet, "return" or an exception  *)
  pc

treeVars == <<leaves, nodes, leaked, trees>>
vars == <<encoding, news, frees, next, treeVars, ended, pc>>

(* In the order of their allocation. *)
Members == <<"ibuf", "obuf", "tbuf", "lz">>
Member == {Members[i] : i \in 1 .. Len(Members)}

Init ==
  /\ encoding \in BOOLEAN
  /\ news = [m \in Member |-> 0] /\ frees = news /\ next = 0
  /\ leaves = 0 /\ nodes = 0 /\ leaked = 0 /\ trees = 0
  /\ ended = "no" /\ pc = "allocate"

(* Fault, for mutation: of what has been allocated the last is forgotten. *)
DeleteButLast == [m \in Member |-> IF news[m] > 0 /\ m # Members[next] THEN frees[m] + 1 ELSE frees[m]]

(* delete of each member; of a null pointer it does nothing. *)
DeleteAll == [m \in Member |-> IF news[m] > 0 THEN frees[m] + 1 ELSE frees[m]]

Allocate ==
  /\ pc = "allocate"
  /\ \/ next = Len(Members) /\ pc' = "body" /\ UNCHANGED <<news, next, ended>>
     \/ /\ next < Len(Members)
        /\ \/ next' = next + 1 /\ news' = [news EXCEPT ![Members[next + 1]] = @ + 1]
              /\ UNCHANGED <<ended, pc>>
           \/ ended' = "bad_alloc" /\ pc' = "catch" /\ UNCHANGED <<news, next>>
  /\ UNCHANGED <<encoding, frees, treeVars>>

(* An exception out of a constructor: there will be no destructor. *)
Rethrow(e) == pc' = "ended" /\ ended' = e

CatchBadAlloc ==
  /\ pc = "catch"
  /\ frees' = DeleteAll
  /\ Rethrow("bad_alloc")
  /\ UNCHANGED <<encoding, news, next, treeVars>>

(* The body returns, or lets out what it, a handler or a stream throws. *)
LeaveBody ==
  /\ pc = "body"
  /\ ended' \in {"return", "exception"}
  /\ pc' = "destroy"
  /\ UNCHANGED <<encoding, news, frees, next, treeVars>>

(* ZlingMakeLengthTable: the nodes of a tree, leaves first. *)
StartTree ==
  /\ pc = "body" /\ encoding /\ trees < MaxTrees
  /\ leaves' \in 1 .. MaxLeaves
  /\ pc' = "tree"
  /\ UNCHANGED <<encoding, news, frees, next, nodes, leaked, trees, ended>>

NewNode ==
  /\ pc = "tree" /\ nodes < 2 * leaves - 1
  /\ nodes' = nodes + 1
  /\ UNCHANGED <<encoding, news, frees, next, leaves, leaked, trees, ended, pc>>

(* No memory for a node, for the vector of leaves, which the newest leaf may *)
(* then not have reached, or for its copy in the priority_queue.             *)
NoNode ==
  /\ pc = "tree" /\ (nodes < 2 * leaves - 1 \/ nodes = leaves)
  /\ leaked' \in leaked + nodes .. leaked + (IF nodes < leaves THEN nodes + 1 ELSE nodes)
  /\ nodes' = 0 /\ ended' = "bad_alloc" /\ pc' = "destroy"
  /\ UNCHANGED <<encoding, news, frees, next, leaves, trees>>

(* Fault, for mutation: the root goes alone. *)
DeleteRoot(n) == n - 1

(* delete nodes_heap.top(): the destructor of a node deletes its children. *)
DeleteTree(n) == 0

(* The lengths have been read off; the tree goes, and may have to be built   *)
(* again from scaled weights.                                                *)
EndTree ==
  /\ pc = "tree" /\ nodes = 2 * leaves - 1
  /\ leaked' = leaked + DeleteTree(nodes) /\ nodes' = 0
  /\ trees' = trees + 1
  /\ \/ pc' = "body" /\ leaves' = 0
     \/ trees' < MaxTrees /\ UNCHANGED <<leaves, pc>>
  /\ UNCHANGED <<encoding, news, frees, next, ended>>

Destroy ==
  /\ pc = "destroy"
  /\ frees' = DeleteAll
  /\ pc' = "ended"
  /\ UNCHANGED <<encoding, news, next, treeVars, ended>>

Terminating == pc = "ended" /\ UNCHANGED vars

Next ==
  \/ Allocate \/ CatchBadAlloc \/ LeaveBody \/ StartTree \/ NewNode \/ NoNode
  \/ EndTree \/ Destroy \/ Terminating

Spec == Init /\ [][Next]_vars
-----------------------------------------------------------------------------
(* Each member that was allocated is deleted once, however the call ends.    *)
FreedOnce ==
  /\ \A m \in Member : frees[m] <= news[m]
  /\ pc = "ended" => frees = news

(* Nothing else stays on the heap, but for one tree that is left behind half *)
(* built when memory runs out; and what leaks is never more than that tree.  *)
OnlyHalfTreesLeak ==
  /\ leaked > 0 => ended = "bad_alloc" /\ leaked <= 2 * leaves - 1
  /\ pc = "ended" => nodes = 0
=============================================================================
