---------------------------- MODULE MCZlingFile ----------------------------
(***************************************************************************)
(* Small instances of ZlingFile.                                           *)
(***************************************************************************)
EXTENDS ZlingFile

(* Level 9 stands for any level there is not. *)
MCLevels == {1, 9}
MCInSizes == {0, 3}
=============================================================================
