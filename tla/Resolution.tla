----------------------------- MODULE Resolution -----------------------------
(***************************************************************************)
(* What the resolution of the bindings of one command promises, with no    *)
(* word of how it is scheduled: values appear in sets, no value appears    *)
(* before the values it refers to, a value is marked for redaction exactly *)
(* when a masking provider had a part in it, and the caller is told        *)
(* "done" only when every binding has its value.  Hydrate.tla is the       *)
(* scheduler of src/config/mod.rs and is checked, and proved, to implement *)
(* this module.                                                            *)
(***************************************************************************)
CONSTANT Binding

VARIABLES
  deps,      \* deps[n]: the bindings the template of n refers to
  masks,     \* the bindings whose own source is read by a masking provider
  resolved,  \* the bindings that have a value
  maskable,  \* the bindings marked for redaction
  outcome    \* what the caller has been told: "none", "done" or "error"

vars == <<deps, masks, resolved, maskable, outcome>>

Init ==
  /\ deps \in [Binding -> SUBSET Binding]
  /\ masks \in SUBSET Binding
  /\ resolved = {}
  /\ maskable = {}
  /\ outcome = "none"

\* The values of the set S become known together.
Resolve(S) ==
  /\ outcome = "none"
  /\ S # {} /\ S \cap resolved = {}
  /\ \A n \in S : deps[n] \subseteq resolved
  /\ resolved' = resolved \cup S
  /\ maskable' = maskable \cup
                 {n \in S : n \in masks \/ deps[n] \cap maskable # {}}
  /\ UNCHANGED <<deps, masks, outcome>>

Succeed ==
  /\ outcome = "none"
  /\ resolved = Binding
  /\ outcome' = "done"
  /\ UNCHANGED <<deps, masks, resolved, maskable>>

GiveUp ==
  /\ outcome = "none"
  /\ outcome' = "error"
  /\ UNCHANGED <<deps, masks, resolved, maskable>>

Next == (\E S \in SUBSET Binding : Resolve(S)) \/ Succeed \/ GiveUp

Spec == Init /\ [][Next]_vars
=============================================================================
