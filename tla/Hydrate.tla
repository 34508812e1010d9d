------------------------------ MODULE Hydrate -------------------------------
(***************************************************************************)
(* Resolution of the bindings of one command: the plan (Dag in             *)
(* sdk/src/resolve.rs) and the scheduler that runs it                      *)
(* (Config::hydrate_rules in src/config/mod.rs).                           *)
(*                                                                         *)
(* A binding is a name of lade.yml whose value comes from a provider; its  *)
(* source may refer to other bindings.  The plan counts the references of  *)
(* each binding and refuses a cycle.  The scheduler takes the batch of     *)
(* bindings that are ready, fills in their sources, puts together those    *)
(* that can share one provider call, starts the calls, and waits for ONE   *)
(* of the calls under way before it looks for what became ready.           *)
(*                                                                         *)
(* The text of a source and of a value is abstracted to the set of the     *)
(* bindings it is made of.                                                 *)
(***************************************************************************)
EXTENDS Integers, FiniteSets

CONSTANTS
  Binding,   \* the names bound by the rules that match the command
  Place      \* what a provider call runs with: directory and rule environment

ASSUME BindingFinite == IsFiniteSet(Binding)

VARIABLES
  deps,      \* deps[n]: the bindings the source of n refers to
  missing,   \* some braced reference names no binding
  masks,     \* the bindings whose source is read by a masking provider
  shell,     \* the bindings whose source is a shell script
  place,     \* the place of each binding
  private,   \* the bindings that are not emitted, only referred to
  pc,        \* where the resolution stands
  degrees,   \* the references of each binding still to be resolved
  ready,     \* the bindings with none left, not yet started
  visited,   \* the bindings the cycle check has reached
  running,   \* the provider calls under way, each a set of bindings
  source,    \* the filled-in source of each started binding
  resolved,  \* the bindings that have a value
  maskable   \* the bindings whose value is to be redacted

config == <<deps, missing, masks, shell, place, private>>
vars == <<deps, missing, masks, shell, place, private, pc, degrees, ready,
          visited, running, source, resolved, maskable>>

\* degrees are usize: a count below zero would be a panic or a wrap.
TypeOK ==
  /\ deps \in [Binding -> SUBSET Binding]
  /\ missing \in BOOLEAN
  /\ masks \in SUBSET Binding
  /\ shell \in SUBSET Binding
  /\ place \in [Binding -> Place]
  /\ private \in SUBSET Binding
  /\ pc \in {"plan", "validate", "loop", "await",
             "done", "rejected", "failed", "panic"}
  /\ degrees \in [Binding -> Nat]
  /\ ready \in SUBSET Binding
  /\ visited \in SUBSET Binding
  /\ running \in SUBSET (SUBSET Binding)
  /\ source \in [Binding -> SUBSET Binding]
  /\ resolved \in SUBSET Binding
  /\ maskable \in SUBSET Binding

Init ==
  /\ deps \in [Binding -> SUBSET Binding]
  /\ missing \in BOOLEAN
  /\ masks \in SUBSET Binding
  /\ shell \in SUBSET Binding
  /\ place \in [Binding -> Place]
  /\ private \in SUBSET Binding
  /\ pc = "plan"
  /\ degrees = [n \in Binding |-> 0]
  /\ ready = {}
  /\ visited = {}
  /\ running = {}
  /\ source = [n \in Binding |-> {}]
  /\ resolved = {}
  /\ maskable = {}

-----------------------------------------------------------------------------
(* The plan.                                                               *)

\* Mutant: a reference of a binding to itself is not counted.
IndegreesSkipSelf == [n \in Binding |-> Cardinality(deps[n] \ {n})]

\* A binding referred to twice counts once.
Indegrees == [n \in Binding |-> Cardinality(deps[n])]

InitialReady == {n \in Binding : Cardinality(deps[n]) = 0}

\* Every binding that refers to a member of S loses those references.
Decrement(S) == [n \in Binding |-> degrees[n] - Cardinality(deps[n] \cap S)]

\* Mutant: ready as soon as one reference is resolved.
NewlyReadyAtFirst(S) == {n \in Binding : deps[n] \cap S # {}}

\* The bindings whose last reference is in S.
NewlyReady(S) ==
  {n \in Binding : deps[n] \cap S # {} /\ Decrement(S)[n] = 0}

\* Dag::new: a braced reference to no binding is an error.
BuildDag ==
  /\ pc = "plan"
  /\ IF missing
     THEN pc' = "rejected" /\ UNCHANGED <<degrees, ready>>
     ELSE pc' = "validate" /\ degrees' = Indegrees /\ ready' = InitialReady
  /\ UNCHANGED <<config, visited, running, source, resolved, maskable>>

\* Dag::validate_acyclic, one binding taken from its queue.  The order of
\* the queue does not matter to the verdict and is left open.
Visit(n) ==
  /\ pc = "validate"
  /\ n \in ready
  /\ visited' = visited \cup {n}
  /\ degrees' = Decrement({n})
  /\ ready' = (ready \ {n}) \cup NewlyReady({n})
  /\ UNCHANGED <<config, pc, running, source, resolved, maskable>>

\* The queue is empty: a binding not reached is on a cycle or behind one.
\* The scheduler starts from counts of its own.
Validated ==
  /\ pc = "validate"
  /\ ready = {}
  /\ IF visited = Binding
     THEN pc' = "loop" /\ degrees' = Indegrees /\ ready' = InitialReady
     ELSE pc' = "rejected" /\ UNCHANGED <<degrees, ready>>
  /\ UNCHANGED <<config, visited, running, source, resolved, maskable>>

-----------------------------------------------------------------------------
(* The scheduler.                                                          *)

\* Bindings share a provider call when they run in the same place with the
\* same environment; a script has its dependencies in its environment.
SameCall(m, n) ==
  /\ place[m] = place[n]
  /\ (m \in shell) = (n \in shell)
  /\ m \in shell => deps[m] = deps[n]

Groups(S) == {{m \in S : SameCall(m, n)} : n \in S}

\* Template::render, or the environment of a script: what has a value by
\* now is filled in, any other plain reference stays as written.
Render(n) == {n} \cup UNION {source[d] : d \in deps[n] \cap resolved}

\* Mutant: the loop ends with calls under way.
PendingReadyOnly == ready # {}

\* The condition of the scheduler's loop.
Pending == ready # {} \/ running # {}

\* The batch is started; the loop then waits.
Launch ==
  /\ pc = "loop"
  /\ Pending
  /\ running' = running \cup Groups(ready)
  /\ source' = [n \in Binding |-> IF n \in ready THEN Render(n) ELSE source[n]]
  /\ ready' = {}
  /\ pc' = "await"
  /\ UNCHANGED <<config, degrees, visited, resolved, maskable>>

\* Mutant: only the binding's own provider counts.
TaintedOwn(g) == g \cap masks

\* A value is to be redacted when its own provider masks, or when it refers
\* to a value that is to be redacted.
Tainted(g) == {n \in g : n \in masks \/ deps[n] \cap maskable # {}}

\* One call returned its values.
Complete(g) ==
  /\ pc = "await"
  /\ g \in running
  /\ running' = running \ {g}
  /\ resolved' = resolved \cup g
  /\ maskable' = maskable \cup Tainted(g)
  /\ degrees' = Decrement(g)
  /\ ready' = NewlyReady(g)
  /\ pc' = "loop"
  /\ UNCHANGED <<config, visited, source>>

\* Mutant: the error of one call is passed over.
FailIgnored(g) ==
  /\ pc = "await"
  /\ g \in running
  /\ running' = running \ {g}
  /\ pc' = "loop"
  /\ UNCHANGED <<config, degrees, ready, visited, source, resolved, maskable>>

\* One call failed, or its provider panicked: the others are dropped with the
\* scheduler.
Fail(g) ==
  /\ pc = "await"
  /\ g \in running
  /\ running' = {}
  /\ pc' = "failed"
  /\ UNCHANGED <<config, degrees, ready, visited, source, resolved, maskable>>

\* Nothing is left: each public binding is moved to its output, and expect()
\* panics on one that has no value.
Finish ==
  /\ pc = "loop"
  /\ ~Pending
  /\ pc' = IF Binding \ private \subseteq resolved THEN "done" ELSE "panic"
  /\ UNCHANGED <<config, degrees, ready, visited, running, source, resolved,
                 maskable>>

-----------------------------------------------------------------------------
Next ==
  \/ BuildDag
  \/ \E n \in Binding : Visit(n)
  \/ Validated
  \/ Launch
  \/ \E g \in SUBSET Binding : Complete(g) \/ Fail(g)
  \/ Finish

Spec == Init /\ [][Next]_vars

\* The scheduler is polled to the end, and a provider call returns: the
\* shell provider by its timeout, the others because the tool they call does.
FairSpec == Spec /\ WF_vars(Next)

-----------------------------------------------------------------------------
(* Properties.                                                             *)

\* The reference definition of a cycle: a set of bindings each of which
\* refers to another of the set.
Cyclic ==
  \E S \in SUBSET Binding : S # {} /\ \A n \in S : deps[n] \cap S # {}

\* The counting of validate_acyclic decides exactly that: a plan is run only
\* if it has no cycle, and refused only for a cycle or a missing binding.
PlanExact ==
  /\ pc \in {"loop", "await", "done", "failed", "panic"} => ~Cyclic
  /\ pc = "rejected" => Cyclic \/ missing

\* No source is handed to a provider with a reference still unfilled, though
\* calls finish in any order and only one is awaited at a time.
ReferencesFilled ==
  \A n \in Binding : (n \in resolved \/ \E g \in running : n \in g) =>
     /\ deps[n] \subseteq resolved
     /\ source[n] = {n} \cup UNION {source[d] : d \in deps[n]}

\* A value is marked for redaction exactly when some masking provider's
\* value is part of it, through any number of private bindings.
MaskExact == \A n \in resolved : n \in maskable <=> source[n] \cap masks # {}

\* The expect() calls of hydrate_rules never panic and no binding is started
\* twice or is in two calls.
EachOnce ==
  /\ pc # "panic"
  /\ \A g \in running : g # {} /\ g \cap (resolved \cup ready) = {}
  /\ \A g, h \in running : g # h => g \cap h = {}
  /\ ready \cap resolved = {}

\* The loop implements the promise of Resolution.
Outcome ==
  CASE pc = "done" -> "done"
    [] pc \in {"rejected", "failed", "panic"} -> "error"
    [] OTHER -> "none"

Promise == INSTANCE Resolution WITH outcome <- Outcome
ImplementsResolution == Promise!Spec

\* Resolution ends: no set of failures and completions leaves the loop
\* waiting on nothing.
Terminates == <>(pc \in {"done", "rejected", "failed"})
=============================================================================
