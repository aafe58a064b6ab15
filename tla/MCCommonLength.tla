-------------------------- MODULE MCCommonLength --------------------------
(***************************************************************************)
(* An instance of CommonLength whose greatest length is three more than a  *)
(* multiple of four, as 259 is.                                            *)
(***************************************************************************)
EXTENDS CommonLength

MCAgreements == [0 .. MaxLen - 1 -> BOOLEAN]
=============================================================================
