--------------------------- MODULE HydrateProofs ----------------------------
(***************************************************************************)
(* Proofs about Hydrate, for every finite set of bindings, every graph of  *)
(* references and every order in which provider calls finish.              *)
(*                                                                         *)
(* The inductive invariant says what the counts count (Counts), that what  *)
(* the cycle check has visited is well founded (Ordered), that a binding   *)
(* is in one place only (Apart), and what a started binding knows          *)
(* (Filled).  The properties checked by TLC follow from it.                *)
(***************************************************************************)
EXTENDS Hydrate, FiniteSetTheorems, TLAPS

\* The bindings the current count has taken off: the cycle check and the
\* scheduler use the same counts one after the other.
Seen == IF pc = "validate" THEN visited ELSE resolved

Busy == ready \cup Seen \cup UNION running

\* A set of bindings with no cycle: every part of it has a first element.
WellFounded(V) ==
  \A S \in SUBSET V : S # {} => \E n \in S : deps[n] \cap S = {}

\* The counts leave out R, and are zero for the bindings of B only.
Counted(count, R, B) ==
  \A n \in Binding : /\ count[n] = Cardinality(deps[n] \ R)
                     /\ count[n] = 0 <=> n \in B

Counts ==
  pc \in {"validate", "loop", "await"} => Counted(degrees, Seen, Busy)

Ordered ==
  /\ pc \in {"plan", "validate"} => WellFounded(visited)
  /\ pc \in {"loop", "await", "done", "failed", "panic"} =>
       WellFounded(Binding)
  /\ pc = "rejected" => Cyclic \/ missing

Apart ==
  /\ ready \cap Seen = {}
  /\ \A g \in running : g # {} /\ g \cap (resolved \cup ready) = {}
  /\ \A g, h \in running : g # h => g \cap h = {}

Filled ==
  \A n \in resolved \cup UNION running :
     /\ deps[n] \subseteq resolved
     /\ source[n] = {n} \cup UNION {source[d] : d \in deps[n]}

Phase ==
  /\ pc \in {"plan", "validate", "rejected"} => resolved = {} /\ running = {}
  /\ pc = "plan" => ready = {} /\ visited = {}
  /\ pc = "await" => ready = {}
  /\ pc = "done" => resolved = Binding
  /\ pc # "panic"
  /\ maskable \subseteq resolved

IInv == TypeOK /\ Counts /\ Ordered /\ Apart /\ Filled /\ Phase /\ MaskExact

-----------------------------------------------------------------------------
(* Counting.                                                               *)

\* Taking a set off a count, when none of it was taken off before.
LEMMA CountOff ==
  ASSUME NEW D \in SUBSET Binding, NEW R \in SUBSET Binding,
         NEW g \in SUBSET Binding, g \cap R = {}
  PROVE  /\ Cardinality(D \ R) \in Nat
         /\ Cardinality(D \cap g) \in Nat
         /\ Cardinality(D \ (R \cup g)) \in Nat
         /\ Cardinality(D \ (R \cup g)) =
              Cardinality(D \ R) - Cardinality(D \cap g)
         /\ Cardinality(D \ R) = 0 <=> D \subseteq R
         /\ Cardinality(D \cap g) = 0 <=> D \cap g = {}
<1>1. /\ IsFiniteSet(D \ R) /\ IsFiniteSet(D \cap g) /\ IsFiniteSet(g)
      /\ IsFiniteSet(D \ (R \cup g))
  BY FS_Subset, BindingFinite
<1>2. /\ Cardinality(D \ R) \in Nat
      /\ Cardinality(D \cap g) \in Nat
      /\ Cardinality(D \ (R \cup g)) \in Nat
  BY <1>1, FS_CardinalityType
<1>3. Cardinality((D \ R) \ g) =
        Cardinality(D \ R) - Cardinality((D \ R) \cap g)
  BY <1>1, FS_Difference
<1>4. (D \ R) \ g = D \ (R \cup g) /\ (D \ R) \cap g = D \cap g
  OBVIOUS
<1>5. Cardinality(D \ R) = 0 <=> D \ R = {}
  BY <1>1, FS_EmptySet
<1>6. Cardinality(D \cap g) = 0 <=> D \cap g = {}
  BY <1>1, FS_EmptySet
<1>7. QED
  BY <1>2, <1>3, <1>4, <1>5, <1>6

\* A count is zero when everything it counts has been taken off.
LEMMA CountZero ==
  ASSUME NEW D \in SUBSET Binding, NEW R \in SUBSET Binding
  PROVE  Cardinality(D \ R) = 0 <=> D \subseteq R
<1>1. IsFiniteSet(D \ R)
  BY FS_Subset, BindingFinite
<1>2. QED
  BY <1>1, FS_EmptySet

\* One round of counting: whoever the counts call idle stays counted, and
\* exactly the bindings whose last reference is in g become ready.
LEMMA CountRound ==
  ASSUME NEW R \in SUBSET Binding, NEW B \in SUBSET Binding,
         NEW g \in SUBSET Binding, g \cap R = {},
         deps \in [Binding -> SUBSET Binding],
         degrees \in [Binding -> Nat],
         Counted(degrees, R, B)
  PROVE  /\ Decrement(g) \in [Binding -> Nat]
         /\ NewlyReady(g) \in SUBSET Binding
         /\ NewlyReady(g) \cap B = {}
         /\ Counted(Decrement(g), R \cup g, B \cup NewlyReady(g))
<1>1. ASSUME NEW n \in Binding
      PROVE  /\ Decrement(g)[n] = Cardinality(deps[n] \ (R \cup g))
             /\ Decrement(g)[n] \in Nat
             /\ n \in B => deps[n] \cap g = {} /\ Decrement(g)[n] = 0
             /\ n \notin B /\ Decrement(g)[n] = 0 => deps[n] \cap g # {}
  <2>1. deps[n] \in SUBSET Binding
    OBVIOUS
  <2>2. /\ Cardinality(deps[n] \ R) \in Nat
        /\ Cardinality(deps[n] \cap g) \in Nat
        /\ Cardinality(deps[n] \ (R \cup g)) \in Nat
        /\ Cardinality(deps[n] \ (R \cup g)) =
             Cardinality(deps[n] \ R) - Cardinality(deps[n] \cap g)
        /\ Cardinality(deps[n] \ R) = 0 <=> deps[n] \subseteq R
        /\ Cardinality(deps[n] \cap g) = 0 <=> deps[n] \cap g = {}
    BY <2>1, CountOff
  <2>3. Decrement(g)[n] = degrees[n] - Cardinality(deps[n] \cap g)
    BY DEF Decrement
  <2>4. degrees[n] = Cardinality(deps[n] \ R) /\ (degrees[n] = 0 <=> n \in B)
    BY DEF Counted
  <2>5. n \in B => deps[n] \cap g = {}
    BY <2>2, <2>4
  <2>6. QED
    BY <2>2, <2>3, <2>4, <2>5
<1>2. Decrement(g) \in [Binding -> Nat]
  BY <1>1 DEF Decrement
<1>3. NewlyReady(g) \cap B = {} /\ NewlyReady(g) \in SUBSET Binding
  BY <1>1 DEF NewlyReady
<1>4. QED
  BY <1>1, <1>2, <1>3 DEF NewlyReady, Counted

\* The counts the plan hands out describe the state in which nothing is seen.
LEMMA CountStart ==
  ASSUME deps \in [Binding -> SUBSET Binding]
  PROVE  /\ Indegrees \in [Binding -> Nat]
         /\ InitialReady \in SUBSET Binding
         /\ Counted(Indegrees, {}, InitialReady)
<1>1. ASSUME NEW n \in Binding
      PROVE  Cardinality(deps[n]) \in Nat /\ deps[n] \ {} = deps[n]
  BY FS_Subset, FS_CardinalityType, BindingFinite
<1>2. QED
  BY <1>1 DEF Indegrees, InitialReady, Counted

\* A binding none of whose references is outside V extends V.
LEMMA WellFoundedExtend ==
  ASSUME deps \in [Binding -> SUBSET Binding],
         NEW V \in SUBSET Binding, WellFounded(V),
         \A m \in V : deps[m] \subseteq V,
         NEW n \in Binding, n \notin V, deps[n] \subseteq V
  PROVE  WellFounded(V \cup {n})
<1>1. SUFFICES ASSUME NEW S \in SUBSET (V \cup {n}), S # {}
               PROVE  \E m \in S : deps[m] \cap S = {}
  BY DEF WellFounded
<1>2. CASE S \ {n} = {}
  BY <1>1, <1>2
<1>3. CASE S \ {n} # {}
  <2>1. PICK m \in S \ {n} : deps[m] \cap (S \ {n}) = {}
    BY <1>3 DEF WellFounded
  <2>2. n \notin deps[m]
    BY <2>1
  <2>3. QED
    BY <2>1, <2>2
<1>4. QED
  BY <1>2, <1>3

-----------------------------------------------------------------------------
(* The invariant.                                                          *)

LEMMA InitInv == Init => IInv
<1>1. SUFFICES ASSUME Init PROVE IInv
  OBVIOUS
<1>2. TypeOK
  BY <1>1 DEF Init, TypeOK
<1>3. Ordered /\ Apart /\ Filled
  BY <1>1 DEF Init, Ordered, Apart, Filled, WellFounded, Seen
<1>4. Counts /\ Phase /\ MaskExact
  BY <1>1 DEF Init, Counts, Phase, MaskExact
<1>5. QED
  BY <1>2, <1>3, <1>4 DEF IInv

LEMMA BuildDagInv == ASSUME IInv, BuildDag PROVE IInv'
<1> USE DEF IInv, BuildDag, config
<1>1. /\ Indegrees \in [Binding -> Nat]
      /\ InitialReady \in SUBSET Binding
      /\ Counted(Indegrees, {}, InitialReady)
  BY CountStart DEF TypeOK
<1>2. TypeOK'
  BY <1>1 DEF TypeOK
<1>3. resolved = {} /\ running = {} /\ visited = {} /\ maskable = {}
  BY DEF Phase
<1>4. Apart' /\ Filled' /\ Phase' /\ MaskExact'
  BY <1>3 DEF Apart, Filled, Phase, MaskExact, Seen
<1>5. Counts'
  <2>1. CASE missing
    BY <2>1 DEF Counts
  <2>2. CASE ~missing
    <3>1. pc' = "validate" /\ Seen' = {} /\ Busy' = InitialReady
      BY <2>2, <1>3 DEF Seen, Busy
    <3>2. QED
      BY <2>2, <3>1, <1>1 DEF Counts, Counted
  <2>3. QED
    BY <2>1, <2>2
<1>6. Ordered'
  BY DEF Ordered, WellFounded
<1>7. QED
  BY <1>2, <1>4, <1>5, <1>6

LEMMA VisitInv == ASSUME IInv, NEW n \in Binding, Visit(n) PROVE IInv'
<1> USE DEF IInv, Visit, config
<1> DEFINE B == ready \cup visited
<1>1. resolved = {} /\ running = {} /\ maskable = {}
  BY DEF Phase
<1>2. Seen = visited /\ Busy = B /\ Seen' = visited \cup {n}
  BY <1>1 DEF Seen, Busy
<1>3. n \notin visited
  BY <1>2 DEF Apart
<1>4. Counted(degrees, visited, B)
  BY <1>2 DEF Counts
<1>5. /\ Decrement({n}) \in [Binding -> Nat]
      /\ NewlyReady({n}) \in SUBSET Binding
      /\ NewlyReady({n}) \cap B = {}
      /\ Counted(Decrement({n}), visited \cup {n}, B \cup NewlyReady({n}))
  <2> DEFINE G == {n}
  <2> HIDE DEF B, IInv, Visit
  <2>1. B \in SUBSET Binding /\ visited \in SUBSET Binding
    BY DEF B, TypeOK, IInv
  <2>2. deps \in [Binding -> SUBSET Binding] /\ degrees \in [Binding -> Nat]
    BY DEF TypeOK, IInv
  <2>3. G \in SUBSET Binding /\ G \cap visited = {}
    BY <1>3
  <2> HIDE DEF G
  <2>4. /\ Decrement(G) \in [Binding -> Nat]
        /\ NewlyReady(G) \in SUBSET Binding
        /\ NewlyReady(G) \cap B = {}
        /\ Counted(Decrement(G), visited \cup G, B \cup NewlyReady(G))
    BY <1>4, <2>1, <2>2, <2>3, CountRound
  <2>5. QED
    BY <2>4 DEF G
<1>6. \A m \in B : deps[m] \subseteq visited
  <2>1. ASSUME NEW m \in B PROVE deps[m] \subseteq visited
    <3>1. m \in Binding /\ deps[m] \in SUBSET Binding
          /\ visited \in SUBSET Binding
      BY DEF TypeOK
    <3>2. Cardinality(deps[m] \ visited) = 0
      BY <1>4, <3>1 DEF Counted
    <3>3. QED
      BY <3>1, <3>2, CountZero
  <2>2. QED
    BY <2>1
<1>7. TypeOK'
  BY <1>5 DEF TypeOK
<1>8. Counts'
  <2>1. Busy' = B \cup NewlyReady({n})
    BY <1>1, <1>2 DEF Busy
  <2>2. QED
    BY <1>2, <1>5, <2>1 DEF Counts, Counted
<1>9. Ordered'
  <2>1. WellFounded(visited \cup {n})
    BY <1>3, <1>6, WellFoundedExtend DEF TypeOK, Ordered
  <2>2. QED
    BY <2>1 DEF Ordered, WellFounded
<1>10. Apart'
  <2>1. ready \cap visited = {} /\ NewlyReady({n}) \cap visited = {}
    BY <1>2, <1>5 DEF Apart
  <2>2. n \notin ready \ {n} /\ n \notin NewlyReady({n})
    BY <1>5
  <2>3. ready' \cap (visited \cup {n}) = {}
    BY <2>1, <2>2
  <2>4. QED
    BY <1>1, <1>2, <2>3 DEF Apart
<1>11. Filled' /\ Phase' /\ MaskExact'
  BY <1>1 DEF Filled, Phase, MaskExact
<1>12. QED
  BY <1>7, <1>8, <1>9, <1>10, <1>11

LEMMA ValidatedInv == ASSUME IInv, Validated PROVE IInv'
<1> USE DEF IInv, Validated, config
<1>1. resolved = {} /\ running = {} /\ maskable = {}
  BY DEF Phase
<1>2. /\ Indegrees \in [Binding -> Nat]
      /\ InitialReady \in SUBSET Binding
      /\ Counted(Indegrees, {}, InitialReady)
  BY CountStart DEF TypeOK
<1>3. TypeOK'
  BY <1>2 DEF TypeOK
<1>4. Filled' /\ Phase' /\ MaskExact'
  BY <1>1 DEF Filled, Phase, MaskExact
<1>5. Seen' = {} /\ (visited = Binding => Busy' = InitialReady)
  BY <1>1 DEF Seen, Busy
<1>6. Counts'
  BY <1>2, <1>5 DEF Counts, Counted
<1>7. Apart'
  BY <1>1, <1>5 DEF Apart
<1>8. Ordered'
  <2>1. CASE visited = Binding
    BY <2>1 DEF Ordered, WellFounded
  <2>2. CASE visited # Binding
    <3> DEFINE S == Binding \ visited
    <3>1. S # {}
      BY <2>2 DEF TypeOK
    <3>2. ASSUME NEW n \in S PROVE deps[n] \cap S # {}
      <4>1. degrees[n] = Cardinality(deps[n] \ visited) /\ degrees[n] # 0
        BY <1>1 DEF Counts, Counted, Seen, Busy
      <4>2. deps[n] \in SUBSET Binding /\ visited \in SUBSET Binding
        BY DEF TypeOK
      <4>3. ~(deps[n] \subseteq visited)
        BY <4>1, <4>2, CountZero
      <4>4. QED
        BY <4>2, <4>3
    <3>3. Cyclic
      BY <3>1, <3>2 DEF Cyclic
    <3>4. QED
      BY <2>2, <3>3 DEF Ordered, Cyclic
  <2>3. QED
    BY <2>1, <2>2
<1>9. QED
  BY <1>3, <1>4, <1>6, <1>7, <1>8

LEMMA LaunchInv == ASSUME IInv, Launch PROVE IInv'
<1> USE DEF IInv, Launch, config
<1>1. /\ \A g \in Groups(ready) : g # {} /\ g \subseteq ready
      /\ UNION Groups(ready) = ready
      /\ \A g, h \in Groups(ready) : g # h => g \cap h = {}
  <2>1. ASSUME NEW g \in Groups(ready)
        PROVE  \E n \in ready : g = {m \in ready : SameCall(m, n)} /\ n \in g
    BY DEF Groups, SameCall
  <2>2. \A n \in ready : {m \in ready : SameCall(m, n)} \in Groups(ready)
    BY DEF Groups
  <2>3. UNION Groups(ready) = ready
    <3>1. ASSUME NEW n \in ready PROVE n \in UNION Groups(ready)
      BY <2>2 DEF SameCall
    <3>2. ASSUME NEW n \in UNION Groups(ready) PROVE n \in ready
      BY <2>1
    <3>3. QED
      BY <3>1, <3>2
  <2>4. ASSUME NEW g \in Groups(ready), NEW h \in Groups(ready),
               g \cap h # {}
        PROVE  g = h
    <3>1. PICK x \in ready : g = {m \in ready : SameCall(m, x)}
      BY <2>1
    <3>2. PICK y \in ready : h = {m \in ready : SameCall(m, y)}
      BY <2>1
    <3>3. PICK z \in ready : SameCall(z, x) /\ SameCall(z, y)
      BY <2>4, <3>1, <3>2
    <3>4. \A m \in ready : SameCall(m, x) <=> SameCall(m, y)
      BY <3>3 DEF SameCall
    <3>5. QED
      BY <3>1, <3>2, <3>4
  <2>5. QED
    BY <2>1, <2>3, <2>4
<1>2. UNION running' = ready \cup UNION running
  BY <1>1
<1>3. Seen = resolved /\ Seen' = resolved /\ Busy' = Busy
  BY <1>2 DEF Seen, Busy
<1>4. \A n \in ready : n \notin resolved /\ n \notin UNION running
  BY <1>3 DEF Apart
<1>5. ASSUME NEW n \in Busy
      PROVE  n \in Binding /\ deps[n] \subseteq resolved
  <2>1. n \in Binding /\ deps[n] \in SUBSET Binding
        /\ resolved \in SUBSET Binding
    BY <1>3 DEF TypeOK, Busy
  <2>2. Cardinality(deps[n] \ resolved) = 0
    BY <1>3, <2>1 DEF Counts, Counted
  <2>3. QED
    BY <2>1, <2>2, CountZero
<1>6. TypeOK'
  <2>1. \A n \in Binding : Render(n) \in SUBSET Binding
    BY DEF TypeOK, Render
  <2>2. running' \in SUBSET (SUBSET Binding)
    BY <1>1 DEF TypeOK
  <2>3. QED
    BY <2>1, <2>2 DEF TypeOK
<1>7. Counts'
  BY <1>3 DEF Counts, Counted
<1>8. Ordered' /\ Phase'
  BY DEF Ordered, Phase, WellFounded
<1>9. Apart'
  <2>1. \A g \in running' : g # {} /\ g \cap resolved = {}
    BY <1>1, <1>4 DEF Apart
  <2>2. \A g \in running, h \in Groups(ready) : g \cap h = {}
    BY <1>1 DEF Apart
  <2>3. QED
    BY <1>1, <1>3, <2>1, <2>2 DEF Apart
<1>10. Filled'
  <2>1. SUFFICES ASSUME NEW n \in resolved \cup UNION running'
                 PROVE  /\ deps[n] \subseteq resolved
                        /\ source'[n] = {n} \cup UNION {source'[d] : d \in deps[n]}
    BY DEF Filled
  <2>2. n \in Busy
    BY <1>2, <1>3 DEF Busy
  <2>3. n \in Binding /\ deps[n] \subseteq resolved
    BY <1>5, <2>2
  <2>4. \A d \in deps[n] : source'[d] = source[d]
    BY <1>4, <2>3 DEF TypeOK
  <2>5. {source'[d] : d \in deps[n]} = {source[d] : d \in deps[n]}
    BY <2>4
  <2>6. source'[n] = {n} \cup UNION {source[d] : d \in deps[n]}
    <3>1. CASE n \in ready
      <4>1. source'[n] = Render(n)
        BY <2>3, <3>1
      <4>2. deps[n] \cap resolved = deps[n]
        BY <2>3
      <4>3. QED
        BY <4>1, <4>2 DEF Render
    <3>2. CASE n \notin ready
      <4>1. source'[n] = source[n] /\ n \in resolved \cup UNION running
        BY <1>2, <2>1, <2>3, <3>2
      <4>2. QED
        BY <4>1 DEF Filled
    <3>3. QED
      BY <3>1, <3>2
  <2>7. QED
    BY <2>3, <2>5, <2>6
<1>11. MaskExact'
  <2>1. \A n \in resolved : source'[n] = source[n]
    BY <1>4 DEF TypeOK
  <2>2. QED
    BY <2>1 DEF MaskExact
<1>12. QED
  BY <1>6, <1>7, <1>8, <1>9, <1>10, <1>11

LEMMA CompleteInv ==
  ASSUME IInv, NEW g \in SUBSET Binding, Complete(g) PROVE IInv'
<1> USE DEF IInv, Complete, config
<1> DEFINE B == resolved \cup UNION running
<1>1. ready = {} /\ Seen = resolved /\ Busy = B /\ Seen' = resolved \cup g
  BY DEF Phase, Seen, Busy
<1>2. g \in running /\ g \cap resolved = {} /\ g # {}
  BY DEF Apart
<1>3. UNION running = g \cup UNION running' /\ g \cap UNION running' = {}
  BY <1>2 DEF Apart
<1>4. Counted(degrees, resolved, B)
  BY <1>1 DEF Counts
<1>5. /\ Decrement(g) \in [Binding -> Nat]
      /\ NewlyReady(g) \in SUBSET Binding
      /\ NewlyReady(g) \cap B = {}
      /\ Counted(Decrement(g), resolved \cup g, B \cup NewlyReady(g))
  <2> HIDE DEF B, IInv, Complete
  <2>1. B \in SUBSET Binding /\ resolved \in SUBSET Binding
    BY DEF B, TypeOK, IInv
  <2>2. deps \in [Binding -> SUBSET Binding] /\ degrees \in [Binding -> Nat]
    BY DEF TypeOK, IInv
  <2>3. QED
    BY <1>2, <1>4, <2>1, <2>2, CountRound
<1>6. TypeOK'
  BY <1>5 DEF TypeOK, Tainted
<1>7. Counts'
  <2>1. Busy' = B \cup NewlyReady(g)
    BY <1>1, <1>3 DEF Busy
  <2>2. QED
    BY <1>1, <1>5, <2>1 DEF Counts, Counted
<1>8. Ordered'
  BY DEF Ordered, WellFounded
<1>9. Apart'
  <2>1. ready' \cap Seen' = {} /\ ready' \cap UNION running' = {}
    BY <1>1, <1>2, <1>3, <1>5
  <2>2. \A h \in running' : h # {} /\ h \cap (resolved' \cup ready') = {}
    BY <1>3, <2>1 DEF Apart
  <2>3. QED
    BY <2>1, <2>2 DEF Apart
<1>10. Filled'
  BY <1>2, <1>3 DEF Filled
<1>11. Phase'
  BY DEF Phase, Tainted
<1>12. MaskExact'
  <2>1. SUFFICES ASSUME NEW n \in resolved \cup g
                 PROVE  n \in maskable' <=> source[n] \cap masks # {}
    BY DEF MaskExact
  <2>2. CASE n \in resolved
    BY <1>2, <2>2 DEF MaskExact, Tainted
  <2>3. CASE n \in g
    <3>1. n \notin maskable /\ n \in UNION running
      BY <1>2, <2>3 DEF Phase
    <3>2. /\ deps[n] \subseteq resolved
          /\ source[n] = {n} \cup UNION {source[d] : d \in deps[n]}
      BY <3>1 DEF Filled
    <3>3. n \in maskable' <=> n \in masks \/ deps[n] \cap maskable # {}
      BY <2>3, <3>1 DEF Tainted
    <3>4. \A d \in deps[n] : d \in maskable <=> source[d] \cap masks # {}
      BY <3>2 DEF MaskExact
    <3>5. deps[n] \cap maskable # {} <=>
            \E d \in deps[n] : source[d] \cap masks # {}
      BY <3>4
    <3>6. source[n] \cap masks # {} <=>
            n \in masks \/ \E d \in deps[n] : source[d] \cap masks # {}
      BY <3>2
    <3>7. QED
      BY <3>3, <3>5, <3>6
  <2>4. QED
    BY <2>1, <2>2, <2>3
<1>13. QED
  BY <1>6, <1>7, <1>8, <1>9, <1>10, <1>11, <1>12

LEMMA FailInv ==
  ASSUME IInv, NEW g \in SUBSET Binding, Fail(g) PROVE IInv'
<1> USE DEF IInv, Fail, config
<1>1. TypeOK' /\ Phase'
  BY DEF TypeOK, Phase
<1>2. Counts' /\ Apart' /\ Filled' /\ MaskExact'
  BY DEF Counts, Apart, Filled, MaskExact, Seen
<1>3. Ordered'
  BY DEF Ordered, WellFounded
<1>4. QED
  BY <1>1, <1>2, <1>3

\* When nothing is pending every binding has its value: a set of bindings
\* without one would be a cycle.
LEMMA NothingLeft ==
  ASSUME IInv, pc = "loop", ~Pending PROVE resolved = Binding
<1> USE DEF IInv
<1> DEFINE S == Binding \ resolved
<1>1. Seen = resolved /\ Busy = resolved
  BY DEF Pending, Seen, Busy
<1>2. WellFounded(Binding)
  BY DEF Ordered
<1>3. SUFFICES ASSUME S # {} PROVE FALSE
  BY DEF TypeOK
<1>4. PICK n \in S : deps[n] \cap S = {}
  BY <1>2, <1>3 DEF WellFounded
<1>5. deps[n] \in SUBSET Binding /\ resolved \in SUBSET Binding
  BY DEF TypeOK
<1>6. deps[n] \subseteq resolved
  BY <1>4, <1>5
<1>7. Cardinality(deps[n] \ resolved) = 0
  BY <1>5, <1>6, CountZero
<1>8. n \in resolved
  BY <1>1, <1>4, <1>7 DEF Counts, Counted
<1>9. QED
  BY <1>4, <1>8

LEMMA FinishInv == ASSUME IInv, Finish PROVE IInv'
<1> USE DEF IInv, Finish, config
<1>1. resolved = Binding
  BY NothingLeft
<1>2. pc' = "done"
  BY <1>1
<1>3. TypeOK' /\ Phase'
  BY <1>1, <1>2 DEF TypeOK, Phase
<1>4. Counts' /\ Apart' /\ Filled' /\ MaskExact'
  BY <1>2 DEF Counts, Apart, Filled, MaskExact, Seen
<1>5. Ordered'
  BY <1>2 DEF Ordered, WellFounded
<1>6. QED
  BY <1>3, <1>4, <1>5

LEMMA NextInv == ASSUME IInv, [Next]_vars PROVE IInv'
<1>1. CASE BuildDag
  BY <1>1, BuildDagInv
<1>2. CASE \E n \in Binding : Visit(n)
  BY <1>2, VisitInv
<1>3. CASE Validated
  BY <1>3, ValidatedInv
<1>4. CASE Launch
  BY <1>4, LaunchInv
<1>5. CASE \E g \in SUBSET Binding : Complete(g) \/ Fail(g)
  BY <1>5, CompleteInv, FailInv
<1>6. CASE Finish
  BY <1>6, FinishInv
<1>7. CASE UNCHANGED vars
  <2> USE <1>7 DEF vars, IInv
  <2>1. TypeOK' /\ Phase' /\ Filled' /\ MaskExact'
    BY DEF TypeOK, Phase, Filled, MaskExact
  <2>2. Counts' /\ Apart'
    BY DEF Counts, Counted, Apart, Seen, Busy
  <2>3. Ordered'
    BY DEF Ordered, WellFounded, Cyclic
  <2>4. QED
    BY <2>1, <2>2, <2>3
<1>8. QED
  BY <1>1, <1>2, <1>3, <1>4, <1>5, <1>6, <1>7 DEF Next

LEMMA Invariance == Spec => []IInv
<1>1. IInv /\ [Next]_vars => IInv'
  BY NextInv
<1>2. QED
  BY <1>1, InitInv, PTL DEF Spec

-----------------------------------------------------------------------------
(* What the invariant says of the properties.                              *)

\* Every variable keeps its type; in particular no count, a usize in the
\* code, is ever decremented below zero.
THEOREM TypeCorrect == Spec => []TypeOK
<1>1. IInv => TypeOK
  BY DEF IInv
<1>2. QED
  BY <1>1, Invariance, PTL

\* validate_acyclic accepts exactly the plans without a cycle.
THEOREM PlanIsExact == Spec => []PlanExact
<1>1. ASSUME IInv PROVE PlanExact
  <2>1. WellFounded(Binding) => ~Cyclic
    BY DEF WellFounded, Cyclic
  <2>2. QED
    BY <1>1, <2>1 DEF IInv, Ordered, PlanExact
<1>2. QED
  BY <1>1, Invariance, PTL

\* No provider is given a source with a reference left unfilled.
THEOREM ReferencesAreFilled == Spec => []ReferencesFilled
<1>1. IInv => ReferencesFilled
  BY DEF IInv, Filled, ReferencesFilled
<1>2. QED
  BY <1>1, Invariance, PTL

\* A value is marked for redaction exactly when it contains one that a
\* masking provider read.
THEOREM MaskIsExact == Spec => []MaskExact
<1>1. IInv => MaskExact
  BY DEF IInv
<1>2. QED
  BY <1>1, Invariance, PTL

\* No binding is resolved twice and none is left without a value: the
\* expect() calls of the scheduler do not panic.
THEOREM ResolvedOnce == Spec => []EachOnce
<1>1. ASSUME IInv PROVE EachOnce
  <2>1. ready \cap resolved = {}
    BY <1>1 DEF IInv, Phase, Apart, Seen
  <2>2. QED
    BY <1>1, <2>1 DEF IInv, Phase, Apart, EachOnce
<1>2. QED
  BY <1>1, Invariance, PTL

\* The scheduler implements the promise of Resolution: the plan and the start
\* of calls are invisible, the return of a call is a Resolve step.
THEOREM HydrateImplementsResolution == Spec => ImplementsResolution
<1>1. Init => Promise!Init
  BY DEF Init, Promise!Init, Outcome
<1>2. ASSUME IInv, [Next]_vars PROVE [Promise!Next]_(Promise!vars)
  <2> USE DEF Promise!vars, Outcome, config
  <2>1. CASE BuildDag
    BY <1>2, <2>1 DEF BuildDag, Promise!Next, Promise!GiveUp
  <2>2. ASSUME NEW n \in Binding, Visit(n)
        PROVE  [Promise!Next]_(Promise!vars)
    BY <2>2 DEF Visit
  <2>3. CASE Validated
    BY <2>3 DEF Validated, Promise!Next, Promise!GiveUp
  <2>4. CASE Launch
    BY <2>4 DEF Launch
  <2>5. ASSUME NEW g \in SUBSET Binding, Complete(g)
        PROVE  [Promise!Next]_(Promise!vars)
    <3>1. g # {} /\ g \cap resolved = {} /\ g \in running
      BY <1>2, <2>5 DEF IInv, Apart, Complete
    <3>2. \A n \in g : deps[n] \subseteq resolved
      BY <1>2, <3>1 DEF IInv, Filled
    <3>3. Promise!Resolve(g)
      BY <2>5, <3>1, <3>2 DEF Complete, Tainted, Promise!Resolve
    <3>4. QED
      BY <3>3 DEF Promise!Next
  <2>6. ASSUME NEW g \in SUBSET Binding, Fail(g)
        PROVE  [Promise!Next]_(Promise!vars)
    BY <2>6 DEF Fail, Promise!Next, Promise!GiveUp
  <2>7. CASE Finish
    <3>1. resolved = Binding
      BY <1>2, <2>7, NothingLeft DEF Finish
    <3>2. QED
      BY <2>7, <3>1 DEF Finish, Promise!Next, Promise!Succeed
  <2>8. CASE UNCHANGED vars
    BY <2>8 DEF vars
  <2>9. QED
    BY <1>2, <2>1, <2>2, <2>3, <2>4, <2>5, <2>6, <2>7, <2>8 DEF Next
<1>3. QED
  BY <1>1, <1>2, Invariance, PTL DEF Spec, ImplementsResolution, Promise!Spec
=============================================================================
