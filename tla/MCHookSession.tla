---------------------------- MODULE MCHookSession ---------------------------
(***************************************************************************)
(* HookSession with two interchangeable shells: no definition and no       *)
(* property names one of them, and only safety is checked.                 *)
(***************************************************************************)
EXTENDS HookSession, TLC

Symmetry == Permutations(Shell)
=============================================================================
