---------------------------- MODULE MCResources ----------------------------
(***************************************************************************)
(* Small instances of Resources: trees of up to MCMaxLeaves leaves.        *)
(***************************************************************************)
EXTENDS Resources

MCMaxLeaves == 4
MCMaxTrees == 3
=============================================================================
