---------------------------- MODULE MCGenerator ----------------------------
(***************************************************************************)
(* TLC instance of Generator: a linear layer between two full ones, a      *)
(* prompt of one token and one of two chunks, lookaheads of none, one, two *)
(* and "everything".                                                       *)
(***************************************************************************)
EXTENDS Generator

MCKinds == <<"full", "linear", "full">>
MCDepths == {0, 1, 2, Huge}
=============================================================================
