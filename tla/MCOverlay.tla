----------------------------- MODULE MCOverlay ------------------------------
(***************************************************************************)
(* Overlay on three rules over one ordinary name, public and private, and  *)
(* on two rules over that name and one entry more on a name that is a      *)
(* number or no variable.                                                  *)
(***************************************************************************)
EXTENDS Overlay

CONSTANTS K   \* the ordinary name

Plain == {r \in Rule : \A e \in Entry : e[1] # K => r.value[e] = "none"}

Mixed ==
  {r \in Rule :
     /\ r.value[<<K, TRUE>>] = "none"
     /\ \A e, f \in Entry :
          e[1] # K /\ f[1] # K /\ r.value[e] # "none" /\ r.value[f] # "none"
            => e = f}

Empty == [output |-> "env", value |-> [e \in Entry |-> "none"]]

MCInit ==
  /\ rules \in [Index -> Plain] \cup
       {[i \in Index |-> IF i < Depth THEN r[i] ELSE Empty] :
          r \in [1..(Depth - 1) -> Mixed]}
  /\ Init

MCSpec == MCInit /\ [][Next]_vars
=============================================================================
