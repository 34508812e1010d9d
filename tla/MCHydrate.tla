----------------------------- MODULE MCHydrate ------------------------------
(***************************************************************************)
(* Hydrate on three bindings: every graph of references over them (cycles  *)
(* and self references included) and, for the plans that run, every choice *)
(* of masking sources, scripts, private bindings and places (up to the     *)
(* name of a place).  A plan that is refused never looks at those choices. *)
(***************************************************************************)
EXTENDS Hydrate

CONSTANTS First, FirstPlace   \* a binding, and the name of its place

Choices == IF Cyclic \/ missing THEN {{}} ELSE SUBSET Binding

MCInit ==
  /\ deps \in [Binding -> SUBSET Binding]
  /\ missing \in BOOLEAN
  /\ masks \in Choices
  /\ shell \in Choices
  /\ private \in Choices
  /\ place \in {f \in [Binding -> Place] : f[First] = FirstPlace}
  /\ Init

MCSpec == MCInit /\ [][Next]_vars /\ WF_vars(Next)
=============================================================================
