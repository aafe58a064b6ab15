------------------------------- MODULE MCDemo -------------------------------
(***************************************************************************)
(* Small instances of Demo: two files with up to two blocks.               *)
(***************************************************************************)
EXTENDS Demo

MCFiles == {"a", "b"}
MCContents == {<<>>, <<1>>, <<2, 3>>}
=============================================================================
