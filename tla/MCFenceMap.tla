---------------------------- MODULE MCFenceMap ----------------------------
(***************************************************************************)
(* TLC instance of FenceMap: two buffers, so that an encoder can conflict  *)
(* with another through one and not the other, and enough encoders for a   *)
(* profiled session of two that is abandoned between two others.           *)
(***************************************************************************)
EXTENDS FenceMap, TLC

Symmetric == Permutations(Keys)
=============================================================================
