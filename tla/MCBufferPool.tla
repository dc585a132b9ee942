--------------------------- MODULE MCBufferPool ---------------------------
(***************************************************************************)
(* TLC instance of BufferPool: three buffer identities, two size classes   *)
(* (one twice the other), ceilings that hold nothing, one small buffer, or *)
(* a mix.                                                                  *)
(***************************************************************************)
EXTENDS BufferPool, TLC

MCSizes == {1, 2}
MCCaps == {0, 1, 3}
Symmetric == Permutations(Buffers)
=============================================================================
