------------------------------ MODULE MCRedact ------------------------------
(***************************************************************************)
(* Two masked values of which one begins the other, one of them bound      *)
(* twice, one of two lines, and a binding that is not masked; every text   *)
(* of five letters on one line and of four on several to stdout, or a      *)
(* short one to both streams.                                              *)
(***************************************************************************)
EXTENDS Redact

CONSTANTS A, B, N, R

MCLetters == {A, B, N, R}
MCValues == <<<<A, B, A>>, <<A, B>>, <<A, B>>, <<A>>, <<A, N, B>>>>
MCMaskable == {1, 2, 3, 5}
MCOutputs ==
  {[out |-> t, err |-> <<>>] : t \in [1..5 -> {A, B}] \cup [1..4 -> {A, B, N}]}
    \cup {[out |-> t, err |-> u] : t, u \in {<<A, B, A, B>>}}
MCTerminals == {{}, {"stdin"}, {"stdin", "stdout"}}
=============================================================================
