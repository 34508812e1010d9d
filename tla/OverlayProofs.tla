--------------------------- MODULE OverlayProofs ----------------------------
(***************************************************************************)
(* For any rules over any names: what is connected and what is resolved    *)
(* are the last word of the rules, the two never give a command one name,  *)
(* what is resolved was announced, refusals are exact, and unset removes   *)
(* what set wrote where names are regular.                                 *)
(***************************************************************************)
EXTENDS Overlay, TLAPS

(* The function at work has come upon the valid entry e in rule i.              *)
Valid(i, e) == Of(i, e) \notin {"none", "invalid"}
Heard(i, e) == Valid(i, e) /\ (i < at \/ (i = at /\ e \notin todo))

(* It has come upon no entry on n in a rule after i, in the forms of D.    *)
LastHeard(i, n, D) ==
  \A j \in Index, d \in D : j > i => ~Heard(j, <<n, d>>)

(* While network_bindings_from_rules is at work.                           *)
NetworksSoFar ==
  view = "network" => \A n \in Name, i \in Index :
    networks[n] = i <=>
      /\ Heard(i, <<n, FALSE>>) /\ Of(i, <<n, FALSE>>) = "network"
      /\ LastHeard(i, n, {FALSE})

(* Sources are by entry.                                                   *)
SourcesSoFar ==
  view = "sources" => \A n \in Name, d \in BOOLEAN, i \in Index :
    sources[<<n, d>>] = i <=>
      /\ Heard(i, <<n, d>>) /\ Of(i, <<n, d>>) = "secret"
      /\ LastHeard(i, n, {d})

SourcesOverlay ==
  view \in {"bindings", "keys", "done"} =>
    \A n \in Name, d \in BOOLEAN, i \in Index :
      sources[<<n, d>>] = i <=>
        Of(i, <<n, d>>) = "secret" /\ LastWord(i, n, {d})

NotYet ==
  /\ view = "network" => sources = [e \in Entry |-> 0]
  /\ view \in {"network", "sources"} =>
       bindings = [n \in Name |-> Unbound]

(* A binding is the last entry of its own form, ambiguous rules or not.    *)
OwnSoFar ==
  view = "bindings" => \A n \in Name, i \in Index, d \in BOOLEAN :
    bindings[n] = [rule |-> i, private |-> d] =>
      /\ Heard(i, <<n, d>>) /\ Of(i, <<n, d>>) = "secret"
      /\ LastHeard(i, n, {d})

OwnLast ==
  view \in {"keys", "done"} => \A n \in Name, i \in Index, d \in BOOLEAN :
    bindings[n] = [rule |-> i, private |-> d] =>
      Of(i, <<n, d>>) = "secret" /\ LastWord(i, n, {d})

BindingsSoFar ==
  view = "bindings" /\ ~Ambiguous =>
    \A n \in Name, i \in Index, d \in BOOLEAN :
      bindings[n] = [rule |-> i, private |-> d] <=>
        /\ Heard(i, <<n, d>>) /\ Of(i, <<n, d>>) = "secret"
        /\ LastHeard(i, n, BOOLEAN)

BoundByRule ==
  \A n \in Name : bindings[n] = Unbound \/ bindings[n].rule \in Index

IInv ==
  /\ TypeOK
  /\ NetworksSoFar /\ NetworksOverlay
  /\ SourcesSoFar /\ SourcesOverlay
  /\ NotYet /\ BoundByRule
  /\ OwnSoFar /\ OwnLast
  /\ BindingsSoFar /\ BindingsOverlay

-----------------------------------------------------------------------------
(* What has been heard.                                                    *)

\* Going on to the next rule is to hear nothing new.
LEMMA HeardNextRule ==
  ASSUME TypeOK, NextRule
  PROVE  \A i \in Index, e \in Entry : Heard(i, e)' <=> Heard(i, e)
BY DepthPositive DEF TypeOK, NextRule, Heard, Valid, Of, Present, Index

\* Going over an entry is to hear just that one.
LEMMA HeardStep ==
  ASSUME TypeOK, NEW f \in Entry, f \in todo, todo' = todo \ {f},
         Of(at, f) # "invalid", at' = at, rules' = rules
  PROVE  /\ \A i \in Index, e \in Entry :
              Heard(i, e)' <=> Heard(i, e) \/ (i = at /\ e = f)
         /\ ~Heard(at, f)
         /\ Of(at, f) # "none"
         /\ \A i \in Index, e \in Entry : i > at => ~Heard(i, e)
BY DepthPositive DEF TypeOK, Heard, Valid, Of, Present, Index

\* An invalid entry is not heard.
LEMMA HeardInvalid ==
  ASSUME TypeOK, NEW f \in todo, Of(at, f) = "invalid",
         todo' = todo \ {f}, at' = at, rules' = rules
  PROVE  \A i \in Index, e \in Entry : Heard(i, e)' <=> Heard(i, e)
BY DEF TypeOK, Heard, Valid, Of

\* At the end all is heard, at the start of the next function nothing.
LEMMA HeardNextView ==
  ASSUME TypeOK, NextView
  PROVE  \A i \in Index, e \in Entry :
           (Heard(i, e) <=> Valid(i, e)) /\ ~Heard(i, e)'
BY DepthPositive DEF TypeOK, NextView, Heard, Valid, Of, Present, Index

\* The entry <<m, b>> of rule at is heard, and is the last so far.
JustHeard(m, b) ==
  /\ \A i \in Index, n \in Name, d \in BOOLEAN :
       /\ Heard(i, <<n, d>>)' <=>
            Heard(i, <<n, d>>) \/ (i = at /\ n = m /\ d = b)
       /\ Of(i, <<n, d>>)' = Of(i, <<n, d>>)
       /\ Heard(i, <<n, d>>) => i <= at
  /\ ~Heard(at, <<m, b>>) /\ Of(at, <<m, b>>) # "none"
  /\ \A i \in Index, n \in Name, D \in SUBSET BOOLEAN :
       /\ LastHeard(i, n, D)' <=>
            LastHeard(i, n, D) /\ ~(i < at /\ n = m /\ b \in D)
       /\ i >= at => LastHeard(i, n, D)

LEMMA LastStep ==
  ASSUME TypeOK, NEW m \in Name, NEW b \in BOOLEAN, <<m, b>> \in todo,
         Of(at, <<m, b>>) # "invalid",
         todo' = todo \ {<<m, b>>}, at' = at, rules' = rules
  PROVE  JustHeard(m, b)
<1>1. <<m, b>> \in Entry
  BY DEF Entry
<1>2. /\ \A i \in Index, e \in Entry :
           /\ Heard(i, e)' <=> Heard(i, e) \/ (i = at /\ e = <<m, b>>)
           /\ i > at => ~Heard(i, e)
      /\ ~Heard(at, <<m, b>>) /\ Of(at, <<m, b>>) # "none"
  BY <1>1, HeardStep
<1>3. at \in Index /\ \A i \in Index : i \in Nat
  BY DepthPositive DEF TypeOK, Index
<1>4. ASSUME NEW i \in Index, NEW n \in Name, NEW d \in BOOLEAN
      PROVE  /\ Heard(i, <<n, d>>)' <=>
                  Heard(i, <<n, d>>) \/ (i = at /\ n = m /\ d = b)
             /\ Of(i, <<n, d>>)' = Of(i, <<n, d>>)
             /\ Heard(i, <<n, d>>) => i <= at
  <2>1. <<n, d>> \in Entry
    BY DEF Entry
  <2>2. <<n, d>> = <<m, b>> <=> n = m /\ d = b
    OBVIOUS
  <2>3. Of(i, <<n, d>>)' = Of(i, <<n, d>>)
    BY DEF Of
  <2> QED
    BY <1>2, <1>3, <2>1, <2>2, <2>3
<1>5. ASSUME NEW i \in Index, NEW n \in Name, NEW D \in SUBSET BOOLEAN
      PROVE  /\ LastHeard(i, n, D)' <=>
                  LastHeard(i, n, D) /\ ~(i < at /\ n = m /\ b \in D)
             /\ i >= at => LastHeard(i, n, D)
  BY <1>3, <1>4 DEF LastHeard
<1> QED
  BY <1>2, <1>4, <1>5 DEF JustHeard

-----------------------------------------------------------------------------
LEMMA InitInv == Init => IInv
<1> SUFFICES ASSUME Init PROVE IInv
  OBVIOUS
<1>1. TypeOK
  BY DepthPositive, EnvNoFile
     DEF Init, TypeOK, Index, Unbound, Present, Rule
<1>2. \A i \in Index, e \in Entry : ~Heard(i, e)
  BY DepthPositive DEF Init, Heard, Valid, Present, Index
<1>3. NetworksSoFar
  <2> SUFFICES ASSUME NEW n \in Name, NEW i \in Index
               PROVE  networks[n] # i /\ ~Heard(i, <<n, FALSE>>)
    BY DEF NetworksSoFar
  <2>1. networks[n] = 0 /\ i # 0
    BY DepthPositive DEF Init, Index
  <2>2. <<n, FALSE>> \in Entry
    BY DEF Entry
  <2> QED
    BY <1>2, <2>1, <2>2
<1> QED
  BY <1>1, <1>3
     DEF Init, IInv, NetworksOverlay, SourcesSoFar, SourcesOverlay, NotYet,
         BoundByRule, OwnSoFar, OwnLast, BindingsSoFar, BindingsOverlay

-----------------------------------------------------------------------------
(* The steps.                                                              *)

\* A step that hears nothing and changes nothing that is bound.
LEMMA NothingNew ==
  ASSUME IInv, TypeOK',
         \A i \in Index, e \in Entry : Heard(i, e)' <=> Heard(i, e),
         UNCHANGED <<rules, view, networks, sources, bindings>>
  PROVE  IInv'
<1>3. \A i \in Index, n \in Name, d \in BOOLEAN :
        Heard(i, <<n, d>>)' <=> Heard(i, <<n, d>>)
  BY DEF Entry
<1>4. \A i \in Index, n \in Name, D \in SUBSET BOOLEAN :
        LastHeard(i, n, D)' <=> LastHeard(i, n, D)
  BY <1>3 DEF LastHeard
<1>5. /\ \A i \in Index, e \in Entry : Of(i, e)' = Of(i, e)
      /\ \A i \in Index, n \in Name, d \in BOOLEAN :
           Of(i, <<n, d>>)' = Of(i, <<n, d>>)
  BY DEF Of
<1>6. /\ \A i \in Index, n \in Name, D \in SUBSET BOOLEAN :
           LastWord(i, n, D)' <=> LastWord(i, n, D)
      /\ Ambiguous' <=> Ambiguous
  <2>1. ASSUME NEW i \in Index, NEW n \in Name, NEW D \in SUBSET BOOLEAN
        PROVE  LastWord(i, n, D)' <=> LastWord(i, n, D)
    BY <1>5 DEF LastWord
  <2>2. Ambiguous' <=> Ambiguous
    BY <1>5, Zenon DEF Ambiguous
  <2> QED
    BY <2>1, <2>2
<1>7. UNCHANGED <<view, networks, sources, bindings>>
  OBVIOUS
<1>8. NetworksSoFar' /\ NetworksOverlay'
  <2>1. FALSE \in BOOLEAN /\ {FALSE} \in SUBSET BOOLEAN
    OBVIOUS
  <2>2. NetworksSoFar'
    <3> SUFFICES ASSUME NEW n \in Name, NEW i \in Index, view = "network"
                 PROVE  networks'[n] = i <=>
                          /\ Heard(i, <<n, FALSE>>)'
                          /\ Of(i, <<n, FALSE>>)' = "network"
                          /\ LastHeard(i, n, {FALSE})'
      BY <1>7 DEF NetworksSoFar
    <3>1. networks[n] = i <=>
            /\ Heard(i, <<n, FALSE>>) /\ Of(i, <<n, FALSE>>) = "network"
            /\ LastHeard(i, n, {FALSE})
      BY DEF IInv, NetworksSoFar
    <3> QED
      BY <1>3, <1>4, <1>5, <1>7, <2>1, <3>1
  <2>3. NetworksOverlay'
    <3> SUFFICES ASSUME NEW n \in Name, NEW i \in Index, view # "network"
                 PROVE  networks'[n] = i <=>
                          /\ Of(i, <<n, FALSE>>)' = "network"
                          /\ LastWord(i, n, {FALSE})'
      BY <1>7 DEF NetworksOverlay
    <3>1. networks[n] = i <=>
            Of(i, <<n, FALSE>>) = "network" /\ LastWord(i, n, {FALSE})
      BY DEF IInv, NetworksOverlay
    <3> QED
      BY <1>5, <1>6, <1>7, <2>1, <3>1
  <2> QED
    BY <2>2, <2>3
<1>9. SourcesSoFar' /\ SourcesOverlay'
  BY <1>3, <1>4, <1>5, <1>6, <1>7 DEF IInv, SourcesSoFar, SourcesOverlay
<1>10. OwnSoFar' /\ OwnLast'
  BY <1>3, <1>4, <1>5, <1>6, <1>7 DEF IInv, OwnSoFar, OwnLast
<1>11. BindingsSoFar' /\ BindingsOverlay'
  BY <1>3, <1>4, <1>5, <1>6, <1>7 DEF IInv, BindingsSoFar, BindingsOverlay
<1>12. NotYet' /\ BoundByRule'
  BY <1>7 DEF IInv, NotYet, BoundByRule
<1> QED
  BY <1>8, <1>9, <1>10, <1>11, <1>12 DEF IInv

LEMMA NextRuleInv == ASSUME IInv, NextRule PROVE IInv'
<1>1. TypeOK'
  BY DepthPositive DEF IInv, TypeOK, NextRule, Index, Present, Of
<1>2. \A i \in Index, e \in Entry : Heard(i, e)' <=> Heard(i, e)
  BY HeardNextRule DEF IInv
<1>3. UNCHANGED <<rules, view, networks, sources, bindings>>
  BY DEF NextRule
<1> QED
  BY <1>1, <1>2, <1>3, NothingNew

LEMMA NextViewInv == ASSUME IInv, NextView PROVE IInv'
<1>1. TypeOK'
  BY DepthPositive DEF IInv, TypeOK, NextView, After, Index, Present, Of
<1>2. \A i \in Index, n \in Name, d \in BOOLEAN :
        /\ Heard(i, <<n, d>>) <=> Of(i, <<n, d>>) \notin {"none", "invalid"}
        /\ ~Heard(i, <<n, d>>)'
  BY HeardNextView DEF IInv, Entry, Valid
<1>3. \A i \in Index, n \in Name, D \in SUBSET BOOLEAN :
        LastHeard(i, n, D) <=> LastWord(i, n, D)
  <2> SUFFICES ASSUME NEW i \in Index, NEW n \in Name,
                      NEW D \in SUBSET BOOLEAN
               PROVE  LastHeard(i, n, D) <=> LastWord(i, n, D)
    OBVIOUS
  <2> QED
    BY <1>2 DEF LastHeard, LastWord
<1>4. \A i \in Index, n \in Name, d \in BOOLEAN :
        Of(i, <<n, d>>)' = Of(i, <<n, d>>)
  BY DEF NextView, Of
<1>5. /\ \A i \in Index, n \in Name, D \in SUBSET BOOLEAN :
           LastWord(i, n, D)' <=> LastWord(i, n, D)
      /\ Ambiguous' <=> Ambiguous
  <2>1. ASSUME NEW i \in Index, NEW n \in Name, NEW D \in SUBSET BOOLEAN
        PROVE  LastWord(i, n, D)' <=> LastWord(i, n, D)
    BY <1>4 DEF LastWord
  <2>2. Ambiguous' <=> Ambiguous
    BY <1>4, Zenon DEF Ambiguous
  <2> QED
    BY <2>1, <2>2
<1>6. UNCHANGED <<networks, sources, bindings>>
  BY DEF NextView
<1>15. \A i \in Index, n \in Name, d \in BOOLEAN :
         /\ LastWord(i, n, {d})' <=> LastWord(i, n, {d})
         /\ LastWord(i, n, BOOLEAN)' <=> LastWord(i, n, BOOLEAN)
  <2> SUFFICES ASSUME NEW i \in Index, NEW n \in Name, NEW d \in BOOLEAN
               PROVE  /\ LastWord(i, n, {d})' <=> LastWord(i, n, {d})
                      /\ LastWord(i, n, BOOLEAN)' <=> LastWord(i, n, BOOLEAN)
    OBVIOUS
  <2>1. {d} \in SUBSET BOOLEAN /\ BOOLEAN \in SUBSET BOOLEAN
    OBVIOUS
  <2> QED
    BY <1>5, <2>1
<1>7. BoundByRule'
  BY <1>6 DEF IInv, BoundByRule
<1>8. FALSE \in BOOLEAN /\ {FALSE} \in SUBSET BOOLEAN /\ 0 \notin Index
  BY DEF Index
<1>9. CASE view = "network"
  <2>1. view' = "sources"
    BY <1>9 DEF NextView, After
  <2>2. NetworksOverlay'
    <3> SUFFICES ASSUME NEW n \in Name, NEW i \in Index
                 PROVE  networks[n] = i <=>
                          /\ Of(i, <<n, FALSE>>) = "network"
                          /\ LastWord(i, n, {FALSE})
      BY <1>4, <1>5, <1>6, <1>8, ZenonT(60) DEF NetworksOverlay
    <3> QED
      BY <1>2, <1>3, <1>8, <1>9 DEF IInv, NetworksSoFar
  <2>3. SourcesSoFar'
    <3> SUFFICES ASSUME NEW n \in Name, NEW d \in BOOLEAN, NEW i \in Index
                 PROVE  sources[<<n, d>>] # i
      BY <1>2, <1>6 DEF SourcesSoFar
    <3> QED
      BY <1>8, <1>9 DEF IInv, NotYet, Entry
  <2>4. NotYet'
    BY <1>6, <1>9, <2>1 DEF IInv, NotYet
  <2> QED
    BY <1>1, <1>7, <2>1, <2>2, <2>3, <2>4
       DEF IInv, NetworksSoFar, SourcesOverlay, OwnSoFar, OwnLast,
           BindingsSoFar, BindingsOverlay
<1>10. NetworksOverlay' \/ view = "network"
  BY <1>4, <1>5, <1>6, <1>8, ZenonT(60) DEF IInv, NetworksOverlay
<1>11. CASE view = "sources"
  <2>1. view' = "bindings"
    BY <1>11 DEF NextView, After
  <2>2. SourcesOverlay'
    <3> SUFFICES ASSUME NEW n \in Name, NEW d \in BOOLEAN, NEW i \in Index
                 PROVE  sources'[<<n, d>>] = i <=>
                          /\ Of(i, <<n, d>>)' = "secret"
                          /\ LastWord(i, n, {d})'
      BY DEF SourcesOverlay
    <3>1. sources[<<n, d>>] = i <=>
            Of(i, <<n, d>>) = "secret" /\ LastWord(i, n, {d})
      BY <1>2, <1>3, <1>11 DEF IInv, SourcesSoFar
    <3> QED
      BY <1>4, <1>6, <1>15, <3>1
  <2>3. OwnSoFar' /\ BindingsSoFar'
    <3> SUFFICES ASSUME NEW n \in Name, NEW d \in BOOLEAN, NEW i \in Index
                 PROVE  bindings[n] # [rule |-> i, private |-> d]
      BY <1>2, <1>6 DEF OwnSoFar, BindingsSoFar
    <3>1. bindings[n].rule = 0
      BY <1>11 DEF IInv, NotYet, Unbound
    <3> QED
      BY <1>8, <3>1
  <2> QED
    BY <1>1, <1>7, <1>10, <1>11, <2>1, <2>2, <2>3
       DEF IInv, NetworksSoFar, SourcesSoFar, NotYet, OwnLast, BindingsOverlay
<1>12. SourcesOverlay' \/ view \in {"network", "sources"}
  <2> SUFFICES ASSUME view \in {"bindings", "keys"} PROVE SourcesOverlay'
    BY DEF NextView, After
  <2> SUFFICES ASSUME NEW n \in Name, NEW d \in BOOLEAN, NEW i \in Index
                 PROVE  sources'[<<n, d>>] = i <=>
                          /\ Of(i, <<n, d>>)' = "secret"
                          /\ LastWord(i, n, {d})'
    BY DEF SourcesOverlay
  <2>1. sources[<<n, d>>] = i <=>
            Of(i, <<n, d>>) = "secret" /\ LastWord(i, n, {d})
    BY DEF IInv, SourcesOverlay
  <2> QED
    BY <1>4, <1>6, <1>15, <2>1
<1>13. CASE view = "bindings"
  <2>1. view' = "keys"
    BY <1>13 DEF NextView, After
  <2>2. OwnLast'
    <3> SUFFICES ASSUME NEW n \in Name, NEW d \in BOOLEAN, NEW i \in Index,
                        bindings[n] = [rule |-> i, private |-> d]
                 PROVE  Of(i, <<n, d>>) = "secret" /\ LastWord(i, n, {d})
      BY <1>4, <1>5, <1>6 DEF OwnLast
    <3> QED
      BY <1>3, <1>13 DEF IInv, OwnSoFar
  <2>3. BindingsOverlay'
    <3> SUFFICES ASSUME ~Ambiguous,
                        NEW n \in Name, NEW i \in Index, NEW d \in BOOLEAN
                 PROVE  bindings'[n] = [rule |-> i, private |-> d] <=>
                          /\ Of(i, <<n, d>>)' = "secret"
                          /\ LastWord(i, n, BOOLEAN)'
      BY <1>5 DEF BindingsOverlay
    <3>1. bindings[n] = [rule |-> i, private |-> d] <=>
            Of(i, <<n, d>>) = "secret" /\ LastWord(i, n, BOOLEAN)
      BY <1>2, <1>3, <1>13 DEF IInv, BindingsSoFar
    <3> QED
      BY <1>4, <1>6, <1>15, <3>1
  <2> QED
    BY <1>1, <1>7, <1>10, <1>12, <1>13, <2>1, <2>2, <2>3
       DEF IInv, NetworksSoFar, SourcesSoFar, NotYet, OwnSoFar, BindingsSoFar
<1>14. CASE view = "keys"
  <2>1. view' = "done"
    BY <1>14 DEF NextView, After
  <2>2. OwnLast'
    BY <1>4, <1>5, <1>6, <1>14 DEF IInv, OwnLast
  <2>3. BindingsOverlay'
    <3> SUFFICES ASSUME ~Ambiguous,
                        NEW n \in Name, NEW i \in Index, NEW d \in BOOLEAN
                 PROVE  bindings'[n] = [rule |-> i, private |-> d] <=>
                          /\ Of(i, <<n, d>>)' = "secret"
                          /\ LastWord(i, n, BOOLEAN)'
      BY <1>5 DEF BindingsOverlay
    <3>1. bindings[n] = [rule |-> i, private |-> d] <=>
            Of(i, <<n, d>>) = "secret" /\ LastWord(i, n, BOOLEAN)
      BY <1>14 DEF IInv, BindingsOverlay
    <3> QED
      BY <1>4, <1>6, <1>15, <3>1
  <2> QED
    BY <1>1, <1>7, <1>10, <1>12, <1>14, <2>1, <2>2, <2>3
       DEF IInv, NetworksSoFar, SourcesSoFar, NotYet, OwnSoFar, BindingsSoFar
<1> QED
  BY <1>9, <1>11, <1>13, <1>14 DEF NextView, After

LEMMA NetworkStepInv ==
  ASSUME IInv, NEW e \in Entry, NetworkStep(e) PROVE IInv'
<1> PICK m \in Name, b \in BOOLEAN : e = <<m, b>>
  BY DEF Entry
<1>1. TypeOK'
  BY DepthPositive DEF IInv, TypeOK, NetworkStep, Index, Present, Of
<1>2. /\ view = "network" /\ <<m, b>> \in todo /\ todo' = todo \ {<<m, b>>}
      /\ UNCHANGED <<rules, view, at, sources, bindings>>
  BY DEF NetworkStep
<1>3. TypeOK /\ at \in Index /\ \A i \in Index : i \in Nat /\ i # 0
  BY DepthPositive DEF IInv, TypeOK, Index
<1>6. CASE Of(at, e) = "invalid"
  <2>1. networks' = networks
    BY <1>6 DEF NetworkStep
  <2>2. \A i \in Index, f \in Entry : Heard(i, f)' <=> Heard(i, f)
    BY <1>2, <1>3, <1>6, HeardInvalid
  <2> QED
    BY <1>1, <1>2, <2>1, <2>2, NothingNew
<1> SUFFICES ASSUME Of(at, <<m, b>>) # "invalid" PROVE IInv'
  BY <1>6
<1>4. NetworksSoFar'
  <2> SUFFICES ASSUME NEW n \in Name, NEW i \in Index
               PROVE  networks'[n] = i <=>
                        /\ Heard(i, <<n, FALSE>>)'
                        /\ Of(i, <<n, FALSE>>)' = "network"
                        /\ LastHeard(i, n, {FALSE})'
    BY DEF NetworksSoFar
  <2>1. networks[n] = i <=>
          /\ Heard(i, <<n, FALSE>>) /\ Of(i, <<n, FALSE>>) = "network"
          /\ LastHeard(i, n, {FALSE})
    BY <1>2 DEF IInv, NetworksSoFar
  <2>2. FALSE \in BOOLEAN /\ {FALSE} \in SUBSET BOOLEAN
    OBVIOUS
  <2>3. /\ Heard(i, <<n, FALSE>>)' <=>
             Heard(i, <<n, FALSE>>) \/ (i = at /\ n = m /\ b = FALSE)
        /\ Of(i, <<n, FALSE>>)' = Of(i, <<n, FALSE>>)
        /\ Heard(i, <<n, FALSE>>) => i <= at
        /\ LastHeard(i, n, {FALSE})' <=>
             LastHeard(i, n, {FALSE}) /\ ~(i < at /\ n = m /\ b = FALSE)
        /\ i >= at => LastHeard(i, n, {FALSE})
    BY <1>2, <1>3, <2>2, LastStep DEF JustHeard
  <2>4. CASE n = m /\ b = FALSE
    <3>1. networks'[n] = IF Of(at, <<m, FALSE>>) = "network" THEN at ELSE 0
      BY <2>4 DEF NetworkStep, IInv, TypeOK
    <3> QED
      BY <1>3, <2>3, <2>4, <3>1
  <2>5. CASE ~(n = m /\ b = FALSE)
    <3>1. networks'[n] = networks[n]
      BY <2>5 DEF NetworkStep, IInv, TypeOK
    <3> QED
      BY <2>1, <2>3, <2>5, <3>1
  <2> QED
    BY <2>4, <2>5
<1>5. NotYet' /\ BoundByRule'
  BY <1>2 DEF IInv, NotYet, BoundByRule
<1> QED
  BY <1>1, <1>2, <1>4, <1>5
     DEF IInv, NetworksOverlay, SourcesSoFar, SourcesOverlay, OwnSoFar, OwnLast,
         BindingsSoFar, BindingsOverlay

(* What the functions that have ended brought stays.                       *)

LEMMA SameRules ==
  ASSUME rules' = rules
  PROVE  /\ \A i \in Index, n \in Name, d \in BOOLEAN :
              /\ Of(i, <<n, d>>)' = Of(i, <<n, d>>)
              /\ LastWord(i, n, {d})' <=> LastWord(i, n, {d})
              /\ LastWord(i, n, BOOLEAN)' <=> LastWord(i, n, BOOLEAN)
         /\ Ambiguous' <=> Ambiguous
<1>1. \A i \in Index, n \in Name, d \in BOOLEAN :
        Of(i, <<n, d>>)' = Of(i, <<n, d>>)
  BY DEF Of
<1>2. ASSUME NEW i \in Index, NEW n \in Name, NEW D \in SUBSET BOOLEAN
      PROVE  LastWord(i, n, D)' <=> LastWord(i, n, D)
  BY <1>1 DEF LastWord
<1>3. ASSUME NEW i \in Index, NEW n \in Name, NEW d \in BOOLEAN
      PROVE  /\ LastWord(i, n, {d})' <=> LastWord(i, n, {d})
             /\ LastWord(i, n, BOOLEAN)' <=> LastWord(i, n, BOOLEAN)
  <2>1. {d} \in SUBSET BOOLEAN /\ BOOLEAN \in SUBSET BOOLEAN
    OBVIOUS
  <2> QED
    BY <1>2, <2>1
<1>4. Ambiguous' <=> Ambiguous
  BY <1>1, Zenon DEF Ambiguous
<1> QED
  BY <1>1, <1>3, <1>4

LEMMA NetworksKept ==
  ASSUME NetworksOverlay, view # "network",
         rules' = rules, networks' = networks
  PROVE  NetworksOverlay'
<1> SUFFICES ASSUME NEW n \in Name, NEW i \in Index
             PROVE  networks'[n] = i <=>
                      /\ Of(i, <<n, FALSE>>)' = "network"
                      /\ LastWord(i, n, {FALSE})'
  BY DEF NetworksOverlay
<1>1. networks[n] = i <=>
        Of(i, <<n, FALSE>>) = "network" /\ LastWord(i, n, {FALSE})
  BY DEF NetworksOverlay
<1>2. FALSE \in BOOLEAN
  OBVIOUS
<1> QED
  BY <1>1, <1>2, SameRules

LEMMA SourcesKept ==
  ASSUME SourcesOverlay, view \in {"bindings", "keys", "done"},
         rules' = rules, sources' = sources
  PROVE  SourcesOverlay'
<1> SUFFICES ASSUME NEW n \in Name, NEW d \in BOOLEAN, NEW i \in Index
             PROVE  sources'[<<n, d>>] = i <=>
                      Of(i, <<n, d>>)' = "secret" /\ LastWord(i, n, {d})'
  BY DEF SourcesOverlay
<1>1. sources[<<n, d>>] = i <=>
        Of(i, <<n, d>>) = "secret" /\ LastWord(i, n, {d})
  BY DEF SourcesOverlay
<1> QED
  BY <1>1, SameRules

LEMMA BindingsKept ==
  ASSUME OwnLast, BindingsOverlay, view \in {"keys", "done"},
         rules' = rules, bindings' = bindings
  PROVE  OwnLast' /\ BindingsOverlay'
<1>1. OwnLast'
  <2> SUFFICES ASSUME NEW n \in Name, NEW i \in Index, NEW d \in BOOLEAN,
                      bindings'[n] = [rule |-> i, private |-> d]
               PROVE  Of(i, <<n, d>>)' = "secret" /\ LastWord(i, n, {d})'
    BY DEF OwnLast
  <2>1. Of(i, <<n, d>>) = "secret" /\ LastWord(i, n, {d})
    BY DEF OwnLast
  <2> QED
    BY <2>1, SameRules
<1>2. BindingsOverlay'
  <2> SUFFICES ASSUME ~Ambiguous',
                      NEW n \in Name, NEW i \in Index, NEW d \in BOOLEAN
               PROVE  bindings'[n] = [rule |-> i, private |-> d] <=>
                        /\ Of(i, <<n, d>>)' = "secret"
                        /\ LastWord(i, n, BOOLEAN)'
    BY DEF BindingsOverlay
  <2>1. bindings[n] = [rule |-> i, private |-> d] <=>
          Of(i, <<n, d>>) = "secret" /\ LastWord(i, n, BOOLEAN)
    BY SameRules DEF BindingsOverlay
  <2> QED
    BY <2>1, SameRules
<1> QED
  BY <1>1, <1>2

LEMMA SourceStepInv ==
  ASSUME IInv, NEW e \in Entry, SourceStep(e) PROVE IInv'
<1> PICK m \in Name, b \in BOOLEAN : e = <<m, b>>
  BY DEF Entry
<1>1. TypeOK'
  <2>1. at \in Index /\ sources \in [Entry -> 0..Depth] /\ Index \subseteq 0..Depth
    BY DepthPositive DEF IInv, TypeOK, Index
  <2>2. sources' \in [Entry -> 0..Depth]
    BY <2>1, DepthPositive DEF SourceStep
  <2>3. view' \in {"sources", "failed"} /\ todo' \in SUBSET Present(at)'
    BY DEF IInv, TypeOK, SourceStep, Present, Of
  <2> QED
    BY <2>2, <2>3 DEF IInv, TypeOK, SourceStep
<1>2. /\ view = "sources" /\ <<m, b>> \in todo /\ todo' = todo \ {<<m, b>>}
      /\ at' = at /\ rules' = rules
      /\ networks' = networks /\ bindings' = bindings
      /\ view' \in {"sources", "failed"}
  BY DEF SourceStep
<1>3. TypeOK /\ at \in Index /\ \A i \in Index : i \in Nat /\ i # 0
  BY DepthPositive DEF IInv, TypeOK, Index
<1>7. ASSUME view' = "sources" PROVE JustHeard(m, b)
  <2>1. Of(at, <<m, b>>) # "invalid"
    BY <1>7 DEF SourceStep
  <2> QED
    BY <1>2, <1>3, <2>1, LastStep
<1>4. SourcesSoFar'
  <2> SUFFICES ASSUME view' = "sources",
                      NEW n \in Name, NEW d \in BOOLEAN, NEW i \in Index
               PROVE  sources'[<<n, d>>] = i <=>
                        /\ Heard(i, <<n, d>>)'
                        /\ Of(i, <<n, d>>)' = "secret"
                        /\ LastHeard(i, n, {d})'
    BY DEF SourcesSoFar
  <2>1. sources[<<n, d>>] = i <=>
          /\ Heard(i, <<n, d>>) /\ Of(i, <<n, d>>) = "secret"
          /\ LastHeard(i, n, {d})
    BY <1>2 DEF IInv, SourcesSoFar
  <2>2. {d} \in SUBSET BOOLEAN /\ <<n, d>> \in Entry
    BY DEF Entry
  <2>3. /\ Heard(i, <<n, d>>)' <=>
             Heard(i, <<n, d>>) \/ (i = at /\ n = m /\ d = b)
        /\ Of(i, <<n, d>>)' = Of(i, <<n, d>>)
        /\ Heard(i, <<n, d>>) => i <= at
        /\ LastHeard(i, n, {d})' <=>
             LastHeard(i, n, {d}) /\ ~(i < at /\ n = m /\ b = d)
        /\ i >= at => LastHeard(i, n, {d})
    BY <1>7, <2>2 DEF JustHeard
  <2>4. sources' = [sources EXCEPT ![e] =
                      IF Of(at, e) = "secret" THEN at ELSE 0]
    BY <1>2 DEF SourceStep
  <2>5. CASE n = m /\ d = b
    <3>1. sources'[<<n, d>>] = IF Of(at, <<m, b>>) = "secret" THEN at ELSE 0
      BY <2>2, <2>4, <2>5 DEF IInv, TypeOK
    <3> QED
      BY <1>3, <2>3, <2>5, <3>1
  <2>6. CASE ~(n = m /\ d = b)
    <3>1. sources'[<<n, d>>] = sources[<<n, d>>]
      BY <2>2, <2>4, <2>6 DEF IInv, TypeOK
    <3> QED
      BY <2>1, <2>3, <2>6, <3>1
  <2> QED
    BY <2>5, <2>6
<1>5. NetworksOverlay'
  BY <1>2, NetworksKept DEF IInv
<1>6. NotYet' /\ BoundByRule'
  BY <1>2 DEF IInv, NotYet, BoundByRule
<1> QED
  BY <1>1, <1>2, <1>4, <1>5, <1>6
     DEF IInv, NetworksSoFar, SourcesOverlay, OwnSoFar, OwnLast,
         BindingsSoFar, BindingsOverlay

LEMMA BindingStepInv ==
  ASSUME IInv, NEW e \in Entry, BindingStep(e) PROVE IInv'
<1> PICK m \in Name, b \in BOOLEAN : e = <<m, b>>
  BY DEF Entry
<1>1. TypeOK'
  <2>1. at \in 0..Depth /\ bindings \in [Name -> [rule: 0..Depth, private: BOOLEAN]]
    BY DepthPositive DEF IInv, TypeOK, Index
  <2>2. bindings' \in [Name -> [rule: 0..Depth, private: BOOLEAN]]
    <3>1. 0 \in 0..Depth
      BY DepthPositive
    <3>2. /\ [rule |-> at, private |-> b] \in [rule: 0..Depth, private: BOOLEAN]
          /\ Unbound \in [rule: 0..Depth, private: BOOLEAN]
      BY <2>1, <3>1 DEF Unbound
    <3> QED
      BY <2>1, <3>2 DEF BindingStep
  <2>3. view' \in {"bindings", "failed"} /\ todo' \in SUBSET Present(at)'
    BY DEF IInv, TypeOK, BindingStep, Present, Of
  <2> QED
    BY <2>2, <2>3 DEF IInv, TypeOK, BindingStep
<1>2. /\ view = "bindings" /\ <<m, b>> \in todo
      /\ todo' = todo \ {<<m, b>>}
      /\ at' = at /\ rules' = rules
      /\ networks' = networks /\ sources' = sources
      /\ view' \in {"bindings", "failed"}
  BY DEF BindingStep
<1>3. TypeOK /\ at \in Index /\ \A i \in Index : i \in Nat /\ i # 0
  BY DepthPositive DEF IInv, TypeOK, Index
<1>4. /\ view' = "bindings" =>
           bindings'[m] = IF Of(at, <<m, b>>) = "secret"
                          THEN [rule |-> at, private |-> b] ELSE Unbound
      /\ view' = "failed" => bindings' = bindings
      /\ \A n \in Name : n # m => bindings'[n] = bindings[n]
  BY <1>2, <1>3 DEF BindingStep, TypeOK
<1>5. BoundByRule'
  BY <1>2, <1>3, <1>4 DEF IInv, BoundByRule, Unbound
<1>11. ASSUME view' = "bindings" PROVE JustHeard(m, b)
  <2>1. Of(at, <<m, b>>) # "invalid"
    BY <1>11 DEF BindingStep, Refused
  <2> QED
    BY <1>2, <1>3, <2>1, LastStep
<1>6. ASSUME view' = "bindings", NEW n \in Name, NEW i \in Index, NEW d \in BOOLEAN,
             NEW D \in SUBSET BOOLEAN, d \in D
      PROVE  /\ Heard(i, <<n, d>>)' <=>
                  Heard(i, <<n, d>>) \/ (i = at /\ n = m /\ d = b)
             /\ Of(i, <<n, d>>)' = Of(i, <<n, d>>)
             /\ Heard(i, <<n, d>>) => i <= at
             /\ LastHeard(i, n, D)' <=>
                  LastHeard(i, n, D) /\ ~(i < at /\ n = m /\ b \in D)
             /\ i >= at => LastHeard(i, n, D)
  BY <1>6, <1>11 DEF JustHeard
<1>7. ASSUME NEW i \in Index, NEW d \in BOOLEAN
      PROVE  /\ [rule |-> i, private |-> d] # Unbound
             /\ [rule |-> i, private |-> d] = [rule |-> at, private |-> b]
                  <=> i = at /\ d = b
  BY <1>3 DEF Unbound
<1>8. OwnSoFar'
  <2> SUFFICES ASSUME view' = "bindings",
                      NEW n \in Name, NEW i \in Index, NEW d \in BOOLEAN,
                      bindings'[n] = [rule |-> i, private |-> d]
               PROVE  /\ Heard(i, <<n, d>>)'
                      /\ Of(i, <<n, d>>)' = "secret"
                      /\ LastHeard(i, n, {d})'
    BY DEF OwnSoFar
  <2>1. {d} \in SUBSET BOOLEAN /\ d \in {d}
    OBVIOUS
  <2>2. CASE n = m
    <3>1. Of(at, <<m, b>>) = "secret" /\ i = at /\ d = b
      BY <1>4, <1>7, <2>2
    <3> QED
      BY <1>3, <1>6, <2>1, <2>2, <3>1
  <2>3. CASE n # m
    <3>1. /\ Heard(i, <<n, d>>) /\ Of(i, <<n, d>>) = "secret"
          /\ LastHeard(i, n, {d})
      BY <1>2, <1>4, <2>3 DEF IInv, OwnSoFar
    <3> QED
      BY <1>6, <2>1, <2>3, <3>1
  <2> QED
    BY <2>2, <2>3
<1>9. BindingsSoFar'
  <2> SUFFICES ASSUME view' = "bindings", ~Ambiguous',
                      NEW n \in Name, NEW i \in Index, NEW d \in BOOLEAN
               PROVE  bindings'[n] = [rule |-> i, private |-> d] <=>
                        /\ Heard(i, <<n, d>>)'
                        /\ Of(i, <<n, d>>)' = "secret"
                        /\ LastHeard(i, n, BOOLEAN)'
    BY DEF BindingsSoFar
  <2>1. ~Ambiguous
    BY <1>2 DEF Ambiguous, Of
  <2>2. CASE n = m
    <3>1. d # b => Of(at, <<m, d>>) = "none"
      <4>1. Of(at, <<m, b>>) # "none"
        BY <1>11 DEF JustHeard
      <4>2. Of(at, <<m, TRUE>>) = "none" \/ Of(at, <<m, FALSE>>) = "none"
        BY <1>3, <2>1 DEF Ambiguous
      <4>3. d # b => (d = TRUE /\ b = FALSE) \/ (d = FALSE /\ b = TRUE)
        OBVIOUS
      <4> QED
        BY <4>1, <4>2, <4>3
    <3>2. ~(d # b /\ Heard(at, <<m, d>>))
      BY <3>1 DEF Heard, Valid
    <3>3. bindings'[n] = [rule |-> i, private |-> d] <=>
            Of(at, <<m, b>>) = "secret" /\ i = at /\ d = b
      BY <1>4, <1>7, <2>2
    <3> QED
      BY <1>3, <1>6, <2>2, <3>2, <3>3
  <2>3. CASE n # m
    <3>1. bindings[n] = [rule |-> i, private |-> d] <=>
            /\ Heard(i, <<n, d>>) /\ Of(i, <<n, d>>) = "secret"
            /\ LastHeard(i, n, BOOLEAN)
      BY <1>2, <2>1 DEF IInv, BindingsSoFar
    <3> QED
      BY <1>4, <1>6, <2>3, <3>1
  <2> QED
    BY <2>2, <2>3
<1>10. NetworksOverlay' /\ SourcesOverlay'
  BY <1>2, NetworksKept, SourcesKept DEF IInv
<1> QED
  BY <1>1, <1>2, <1>5, <1>8, <1>9, <1>10
     DEF IInv, NetworksSoFar, SourcesSoFar, NotYet, OwnLast, BindingsOverlay

LEMMA KeysStepInv == ASSUME IInv, NEW e \in Entry, KeysStep(e) PROVE IInv'
<1>1. TypeOK'
  BY DepthPositive
     DEF IInv, TypeOK, KeysStep, Index, Present, Of, Rule, Entry
<1>2. view = "keys" /\ UNCHANGED <<rules, view, networks, sources, bindings>>
  BY DEF KeysStep
<1>3. NetworksOverlay' /\ SourcesOverlay' /\ OwnLast' /\ BindingsOverlay'
  BY <1>2, NetworksKept, SourcesKept, BindingsKept DEF IInv
<1> QED
  BY <1>1, <1>2, <1>3
     DEF IInv, NetworksSoFar, SourcesSoFar, NotYet, BoundByRule, OwnSoFar,
         BindingsSoFar

-----------------------------------------------------------------------------
LEMMA StepInv == IInv /\ [Next]_vars => IInv'
<1> SUFFICES ASSUME IInv, [Next]_vars PROVE IInv'
  OBVIOUS
<1>1. CASE NextRule
  BY <1>1, NextRuleInv
<1>2. CASE NextView
  BY <1>2, NextViewInv
<1>3. ASSUME NEW e \in Entry,
             NetworkStep(e) \/ SourceStep(e) \/ BindingStep(e) \/ KeysStep(e)
      PROVE  IInv'
  BY <1>3, NetworkStepInv, SourceStepInv, BindingStepInv, KeysStepInv
<1>4. CASE UNCHANGED vars
  <2>1. UNCHANGED <<rules, view, at, todo, networks, sources, bindings, keys>>
    BY <1>4 DEF vars
  <2>2. TypeOK'
    BY <2>1 DEF IInv, TypeOK, Present, Of
  <2>3. \A i \in Index, e \in Entry : Heard(i, e)' <=> Heard(i, e)
    BY <2>1 DEF Heard, Valid, Of
  <2> QED
    BY <2>1, <2>2, <2>3, NothingNew
<1> QED
  BY <1>1, <1>2, <1>3, <1>4 DEF Next

LEMMA Invariant == Spec => []IInv
BY InitInv, StepInv, PTL DEF Spec

\* A name the network connects has no public secret: both would be the last
\* word of the rules on it.
LEMMA InvNoConflict == IInv => NoConflict
<1> SUFFICES ASSUME IInv, view \in {"keys", "done"}, NEW n \in Name,
                    networks[n] # 0, bindings[n] # Unbound,
                    ~bindings[n].private
             PROVE  FALSE
  BY DEF NoConflict
<1> DEFINE k == networks[n]
           i == bindings[n].rule
<1>1. k \in Index /\ i \in Index /\ \A j \in Index : j \in Nat
  BY DepthPositive DEF IInv, TypeOK, BoundByRule, Index
<1>2. Of(k, <<n, FALSE>>) = "network" /\ LastWord(k, n, {FALSE})
  BY <1>1 DEF IInv, NetworksOverlay
<1>3. bindings[n] = [rule |-> i, private |-> FALSE]
  BY DEF IInv, TypeOK
<1>4. Of(i, <<n, FALSE>>) = "secret" /\ LastWord(i, n, {FALSE})
  BY <1>1, <1>3 DEF IInv, OwnLast
<1>5. k = i \/ k > i \/ i > k
  BY <1>1
<1> QED
  BY <1>1, <1>2, <1>4, <1>5 DEF LastWord

\* A binding is announced by the rule that binds it: both are the last
\* secret of the same form.
LEMMA InvAnnounced == IInv => Announced
<1> SUFFICES ASSUME IInv, view \in {"keys", "done"}, NEW n \in Name,
                    bindings[n] # Unbound
             PROVE  sources[<<n, bindings[n].private>>] = bindings[n].rule
  BY DEF Announced
<1> DEFINE d == bindings[n].private
           i == bindings[n].rule
<1>1. d \in BOOLEAN /\ i \in Index
  BY DEF IInv, TypeOK, BoundByRule
<1>2. bindings[n] = [rule |-> i, private |-> d]
  BY DEF IInv, TypeOK
<1>3. Of(i, <<n, d>>) = "secret" /\ LastWord(i, n, {d})
  BY <1>1, <1>2 DEF IInv, OwnLast
<1> QED
  BY <1>1, <1>3 DEF IInv, SourcesOverlay

-----------------------------------------------------------------------------
(* What unset takes the files from.                                        *)

\* The last entry on n of the rules with the output o is a secret of rule i.
KeyedBy(i, n, o) ==
  /\ rules[i].output = o
  /\ Heard(i, <<n, FALSE>>) /\ Of(i, <<n, FALSE>>) = "secret"
  /\ \A j \in Index :
       j > i /\ rules[j].output = o => ~Heard(j, <<n, FALSE>>)

KeyedAtLast(i, n, o) ==
  /\ rules[i].output = o
  /\ Of(i, <<n, FALSE>>) = "secret"
  /\ \A j \in Index :
       j > i /\ rules[j].output = o => ~Valid(j, <<n, FALSE>>)

KeysInv ==
  /\ view \in {"network", "sources", "bindings"} =>
       keys = [o \in File \cup {"env"} |-> {}]
  /\ view = "keys" => \A o \in File \cup {"env"}, n \in Name :
       n \in keys[o] <=> ValidEnv(n) /\ \E i \in Index : KeyedBy(i, n, o)
  /\ view = "done" => \A o \in File \cup {"env"}, n \in Name :
       n \in keys[o] <=> ValidEnv(n) /\ \E i \in Index : KeyedAtLast(i, n, o)

(* What is refused.                                                        *)

Passed(i, e) == i < at \/ (i = at /\ e \notin todo)

\* Two heard secrets on n, one private and one public, nothing in between.
ClashHeard(n, i, j, d) ==
  /\ i < j
  /\ Heard(i, <<n, d>>) /\ Of(i, <<n, d>>) = "secret"
  /\ Heard(j, <<n, ~d>>) /\ Of(j, <<n, ~d>>) = "secret"
  /\ \A k \in Index, b \in BOOLEAN :
       i < k /\ k < j => Of(k, <<n, b>>) = "none"

RefusalInv ==
  /\ view = "bindings" =>
       \A i \in Index, e \in Entry : Passed(i, e) => ~BadEntry(i, e)
  /\ view = "bindings" /\ ~Ambiguous =>
       \A n \in Name, i, j \in Index, d \in BOOLEAN : ~ClashHeard(n, i, j, d)
  /\ RefusalExact

\* The rules stay, and with them all that is said of them alone.
LEMMA SameEntries ==
  ASSUME rules' = rules
  PROVE  /\ \A i \in Index, e \in Entry :
              /\ Of(i, e)' = Of(i, e)
              /\ Valid(i, e)' <=> Valid(i, e)
              /\ BadEntry(i, e)' <=> BadEntry(i, e)
         /\ \A n \in Name : Clash(n)' <=> Clash(n)
         /\ Refusable' <=> Refusable
<1>1. \A i \in Index, e \in Entry :
        /\ Of(i, e)' = Of(i, e)
        /\ Valid(i, e)' <=> Valid(i, e)
        /\ BadEntry(i, e)' <=> BadEntry(i, e)
  BY DEF Of, Valid, BadEntry
<1>2. \A i \in Index, n \in Name, d \in BOOLEAN :
        Of(i, <<n, d>>)' = Of(i, <<n, d>>)
  BY DEF Of
<1>3. ASSUME NEW n \in Name PROVE Clash(n)' <=> Clash(n)
  BY DEF Clash, Of
<1> QED
  BY <1>1, <1>3 DEF Refusable

LEMMA KeysInit == Init => KeysInv
BY DEF Init, KeysInv

LEMMA KeysSame ==
  ASSUME KeysInv, rules' = rules, view' = view, keys' = keys,
         \A i \in Index, e \in Entry : Heard(i, e)' <=> Heard(i, e)
  PROVE  KeysInv'
<1>1. \A i \in Index, n \in Name, o \in File \cup {"env"} :
        /\ KeyedBy(i, n, o)' <=> KeyedBy(i, n, o)
        /\ KeyedAtLast(i, n, o)' <=> KeyedAtLast(i, n, o)
  <2> SUFFICES ASSUME NEW i \in Index, NEW n \in Name,
                      NEW o \in File \cup {"env"}
               PROVE  /\ KeyedBy(i, n, o)' <=> KeyedBy(i, n, o)
                      /\ KeyedAtLast(i, n, o)' <=> KeyedAtLast(i, n, o)
    OBVIOUS
  <2>1. <<n, FALSE>> \in Entry
    BY DEF Entry
  <2>2. \A j \in Index :
          /\ Heard(j, <<n, FALSE>>)' <=> Heard(j, <<n, FALSE>>)
          /\ Valid(j, <<n, FALSE>>)' <=> Valid(j, <<n, FALSE>>)
          /\ Of(j, <<n, FALSE>>)' = Of(j, <<n, FALSE>>)
    BY <2>1, SameEntries
  <2>3. KeyedBy(i, n, o)' <=> KeyedBy(i, n, o)
    BY <2>2 DEF KeyedBy
  <2>4. KeyedAtLast(i, n, o)' <=> KeyedAtLast(i, n, o)
    BY <2>2 DEF KeyedAtLast
  <2> QED
    BY <2>3, <2>4
<1> QED
  BY <1>1 DEF KeysInv

LEMMA KeysNextView == ASSUME IInv, KeysInv, NextView PROVE KeysInv'
<1>1. /\ rules' = rules /\ keys' = keys
      /\ \/ view \in {"network", "sources"}
            /\ view' \in {"sources", "bindings"}
         \/ view = "bindings" /\ view' = "keys"
         \/ view = "keys" /\ view' = "done"
  BY DEF NextView, After
<1>2. \A n \in Name : <<n, FALSE>> \in Entry
  BY DEF Entry
<1>3. \A i \in Index, e \in Entry :
        (Heard(i, e) <=> Valid(i, e)) /\ ~Heard(i, e)'
  BY HeardNextView DEF IInv
<1>4. CASE view \in {"network", "sources"}
  BY <1>1, <1>4 DEF KeysInv
<1>5. CASE view = "bindings"
  <2>1. \A i \in Index, n \in Name, o \in File \cup {"env"} :
          ~KeyedBy(i, n, o)'
    BY <1>2, <1>3 DEF KeyedBy
  <2> QED
    BY <1>1, <1>5, <2>1 DEF KeysInv
<1>6. CASE view = "keys"
  <2>1. ASSUME NEW i \in Index, NEW n \in Name, NEW o \in File \cup {"env"}
        PROVE  KeyedAtLast(i, n, o)' <=> KeyedBy(i, n, o)
    <3>1. <<n, FALSE>> \in Entry
      BY DEF Entry
    <3>2. \A j \in Index :
            /\ Heard(j, <<n, FALSE>>) <=> Valid(j, <<n, FALSE>>)
            /\ Valid(j, <<n, FALSE>>)' <=> Valid(j, <<n, FALSE>>)
            /\ Of(j, <<n, FALSE>>)' = Of(j, <<n, FALSE>>)
      BY <1>1, <1>3, <3>1, SameEntries
    <3>3. Of(i, <<n, FALSE>>) = "secret" => Valid(i, <<n, FALSE>>)
      BY DEF Valid
    <3> QED
      BY <1>1, <3>2, <3>3 DEF KeyedBy, KeyedAtLast
  <2> QED
    BY <1>1, <1>6, <2>1 DEF KeysInv
<1> QED
  BY <1>1, <1>4, <1>5, <1>6

LEMMA KeysKeysStep ==
  ASSUME IInv, KeysInv, NEW e \in Entry, KeysStep(e) PROVE KeysInv'
<1> PICK m \in Name, b \in BOOLEAN : e = <<m, b>>
  BY DEF Entry
<1>1. /\ view = "keys" /\ view' = "keys" /\ rules' = rules /\ at' = at
      /\ <<m, b>> \in todo /\ todo' = todo \ {<<m, b>>}
  BY DEF KeysStep
<1>2. /\ TypeOK /\ at \in Index /\ Index \subseteq Nat
      /\ \A i \in Index : rules[i].output \in File \cup {"env"}
  BY DepthPositive DEF IInv, TypeOK, Index, Rule
<1>3. CASE Of(at, e) = "invalid"
  <2>1. ~ValidEnv(m)
    <3>1. rules[at].value[e] # "invalid"
      BY <1>2 DEF TypeOK, Rule, Value
    <3> QED
      BY <1>3, <3>1 DEF Of, ValidEnv
  <2>2. keys' = keys
    BY <2>1 DEF KeysStep
  <2> QED
    BY <1>1, <1>2, <1>3, <2>2, HeardInvalid, KeysSame
<1>4. CASE Of(at, e) # "invalid"
  <2>1. JustHeard(m, b)
    BY <1>1, <1>2, <1>4, LastStep
  <2> SUFFICES ASSUME NEW o \in File \cup {"env"}, NEW n \in Name
               PROVE  n \in keys'[o] <=>
                        ValidEnv(n) /\ \E i \in Index : KeyedBy(i, n, o)'
    BY <1>1 DEF KeysInv
  <2>2. n \in keys[o] <=> ValidEnv(n) /\ \E i \in Index : KeyedBy(i, n, o)
    BY <1>1 DEF KeysInv
  <2>3. \A i \in Index :
          /\ Heard(i, <<n, FALSE>>)' <=>
               Heard(i, <<n, FALSE>>) \/ (i = at /\ n = m /\ b = FALSE)
          /\ Of(i, <<n, FALSE>>)' = Of(i, <<n, FALSE>>)
          /\ Heard(i, <<n, FALSE>>) => i <= at
          /\ rules'[i].output = rules[i].output
    BY <1>1, <2>1 DEF JustHeard
  <2>4. CASE b = FALSE /\ n = m /\ ValidEnv(m) /\ o = rules[at].output
    <3>1. n \in keys'[o] <=> Of(at, <<m, FALSE>>) = "secret"
      BY <1>2, <2>4 DEF KeysStep, TypeOK
    <3>4. /\ Heard(at, <<n, FALSE>>)' /\ rules'[at].output = o
          /\ Of(at, <<n, FALSE>>)' = Of(at, <<m, FALSE>>)
          /\ \A i \in Index : Heard(i, <<n, FALSE>>)' => ~(i > at)
      <4>1. Heard(at, <<n, FALSE>>)' /\ rules'[at].output = o
        BY <1>1, <1>2, <2>3, <2>4
      <4>2. Of(at, <<n, FALSE>>)' = Of(at, <<m, FALSE>>)
        BY <1>1, <1>2, <2>3, <2>4
      <4>3. ASSUME NEW i \in Index, Heard(i, <<n, FALSE>>)'
            PROVE  ~(i > at)
        BY <1>2, <2>3, <4>3
      <4> QED
        BY <4>1, <4>2, <4>3
    <3>2. ASSUME NEW i \in Index, KeyedBy(i, n, o)'
          PROVE  Of(at, <<m, FALSE>>) = "secret"
      <4>1. Heard(i, <<n, FALSE>>)' /\ ~(at > i)
        BY <1>1, <1>2, <3>2, <3>4 DEF KeyedBy
      <4>3. ~(i > at) /\ i \in Nat /\ at \in Nat
        BY <1>2, <3>4, <4>1
      <4>2. i = at
        BY <4>1, <4>3
      <4> QED
        BY <1>1, <3>2, <3>4, <4>2 DEF KeyedBy
    <3>3. Of(at, <<m, FALSE>>) = "secret" => KeyedBy(at, n, o)'
      BY <1>1, <1>2, <3>4 DEF KeyedBy
    <3>5. ValidEnv(n)
      BY <2>4
    <3> QED
      BY <1>1, <1>2, <3>1, <3>2, <3>3, <3>5
  <2>5. CASE ~(b = FALSE /\ n = m /\ ValidEnv(m) /\ o = rules[at].output)
    <3>1. n \in keys'[o] <=> n \in keys[o]
      BY <1>2, <2>5 DEF KeysStep, TypeOK
    <3>2. CASE ValidEnv(n)
      <4>1. \A i \in Index : KeyedBy(i, n, o)' <=> KeyedBy(i, n, o)
        BY <1>2, <2>3, <2>5, <3>2 DEF KeyedBy
      <4> QED
        BY <2>2, <3>1, <4>1
    <3>3. CASE ~ValidEnv(n)
      BY <2>2, <3>1, <3>3
    <3> QED
      BY <3>2, <3>3
  <2> QED
    BY <2>4, <2>5
<1> QED
  BY <1>3, <1>4

LEMMA KeysNext == IInv /\ KeysInv /\ [Next]_vars => KeysInv'
<1> SUFFICES ASSUME IInv, KeysInv, [Next]_vars PROVE KeysInv'
  OBVIOUS
<1>1. CASE NextRule
  <2>1. \A i \in Index, e \in Entry : Heard(i, e)' <=> Heard(i, e)
    BY <1>1, HeardNextRule DEF IInv
  <2> QED
    BY <1>1, <2>1, KeysSame DEF NextRule
<1>2. CASE NextView
  BY <1>2, KeysNextView
<1>3. ASSUME NEW e \in Entry, NetworkStep(e) \/ SourceStep(e) \/ BindingStep(e)
      PROVE  KeysInv'
  <2>1. /\ view \in {"network", "sources", "bindings"} /\ keys' = keys
        /\ view' \in {view, "failed"}
    BY <1>3 DEF NetworkStep, SourceStep, BindingStep
  <2> QED
    BY <2>1 DEF KeysInv
<1>4. ASSUME NEW e \in Entry, KeysStep(e) PROVE KeysInv'
  BY <1>4, KeysKeysStep
<1>5. CASE UNCHANGED vars
  <2>1. \A i \in Index, e \in Entry : Heard(i, e)' <=> Heard(i, e)
    BY <1>5 DEF vars, Heard, Valid, Of
  <2> QED
    BY <1>5, <2>1, KeysSame DEF vars
<1> QED
  BY <1>1, <1>2, <1>3, <1>4, <1>5 DEF Next

\* Two entries on a regular name.
LEMMA RegularPair ==
  ASSUME NEW n \in Name, Regular(n), NEW i \in Index, NEW j \in Index,
         NEW c \in BOOLEAN, NEW d \in BOOLEAN,
         Of(i, <<n, c>>) # "none", Of(j, <<n, d>>) # "none"
  PROVE  /\ c = d
         /\ rules[i].output = rules[j].output
         /\ ValidEnv(n) \/ rules[i].output = "env"
<1> DEFINE On == {p \in Index \X BOOLEAN : Of(p[1], <<n, p[2]>>) # "none"}
<1>1. <<i, c>> \in On /\ <<j, d>> \in On
  OBVIOUS
<1> QED
  BY <1>1 DEF Regular

\* A file with a key left has a binding by the rule of the key, and back.
LEMMA InvRegularFiles == IInv /\ KeysInv => RegularFilesAgree
<1> SUFFICES ASSUME IInv, KeysInv, view = "done", \A n \in Name : Regular(n)
             PROVE  Written = Removed
  BY DEF RegularFilesAgree
<1>1. ~Ambiguous
  <2> SUFFICES ASSUME NEW i \in Index, NEW n \in Name,
                      Of(i, <<n, TRUE>>) # "none", Of(i, <<n, FALSE>>) # "none"
               PROVE  FALSE
    BY DEF Ambiguous
  <2>1. TRUE \in BOOLEAN /\ FALSE \in BOOLEAN /\ Regular(n)
    OBVIOUS
  <2>2. TRUE = FALSE
    BY <2>1, RegularPair
  <2> QED
    BY <2>2
<1>2. /\ \A i \in Index : rules[i].output \in File \cup {"env"}
      /\ "env" \notin File /\ FALSE \in BOOLEAN
  BY EnvNoFile DEF IInv, TypeOK, Rule
<1>3. \A n \in Name, i \in Index, d \in BOOLEAN :
        bindings[n] = [rule |-> i, private |-> d] <=>
          Of(i, <<n, d>>) = "secret" /\ LastWord(i, n, BOOLEAN)
  BY <1>1 DEF IInv, BindingsOverlay
<1>4. \A o \in File \cup {"env"}, n \in Name :
        n \in keys[o] <=> ValidEnv(n) /\ \E i \in Index : KeyedAtLast(i, n, o)
  BY DEF KeysInv
<1>5. ASSUME NEW f \in Written PROVE f \in Removed
  <2>1. PICK n \in Name :
          /\ bindings[n] # Unbound /\ ~bindings[n].private
          /\ f = rules[bindings[n].rule].output /\ f # "env"
    BY <1>5 DEF Written
  <2> DEFINE i == bindings[n].rule
  <2>2. i \in Index /\ bindings[n] = [rule |-> i, private |-> FALSE]
    BY <2>1 DEF IInv, TypeOK, BoundByRule
  <2>3. Of(i, <<n, FALSE>>) = "secret" /\ LastWord(i, n, BOOLEAN)
    BY <1>2, <1>3, <2>2
  <2>4. KeyedAtLast(i, n, f)
    BY <1>2, <2>1, <2>2, <2>3 DEF KeyedAtLast, LastWord, Valid
  <2>5. ValidEnv(n)
    BY <1>2, <2>1, <2>2, <2>3, RegularPair
  <2>6. f \in File
    BY <1>2, <2>1, <2>2
  <2> QED
    BY <1>4, <2>2, <2>4, <2>5, <2>6 DEF Removed
<1>6. ASSUME NEW f \in Removed PROVE f \in Written
  <2>1. f \in File /\ keys[f] # {}
    BY <1>6 DEF Removed
  <2>2. PICK n \in Name : n \in keys[f]
    BY <2>1 DEF IInv, TypeOK
  <2>3. PICK i \in Index : KeyedAtLast(i, n, f)
    BY <1>4, <2>1, <2>2
  <2>4. Of(i, <<n, FALSE>>) = "secret" /\ rules[i].output = f
    BY <2>3 DEF KeyedAtLast
  <2>5. ASSUME NEW j \in Index, NEW d \in BOOLEAN, j > i,
               Of(j, <<n, d>>) \notin {"none", "invalid"}
        PROVE  FALSE
    <3>1. Of(i, <<n, FALSE>>) # "none" /\ Of(j, <<n, d>>) # "none"
      BY <2>4, <2>5
    <3>2. d = FALSE /\ rules[j].output = f
      BY <1>2, <2>4, <3>1, RegularPair
    <3>3. ~Valid(j, <<n, FALSE>>)
      BY <2>3, <2>5, <3>2 DEF KeyedAtLast
    <3> QED
      BY <2>5, <3>2, <3>3 DEF Valid
  <2>6. LastWord(i, n, BOOLEAN)
    BY <2>5 DEF LastWord
  <2>7. bindings[n] = [rule |-> i, private |-> FALSE]
    BY <1>2, <1>3, <2>4, <2>6
  <2>8. bindings[n] # Unbound
    <3>1. i # 0
      BY DEF Index
    <3> QED
      BY <2>7, <3>1 DEF Unbound
  <2> QED
    BY <1>2, <2>1, <2>4, <2>7, <2>8 DEF Written
<1> QED
  BY <1>5, <1>6

(* The refusals.                                                           *)

LEMMA RefusalInit == Init => RefusalInv
BY DEF Init, RefusalInv, RefusalExact

\* Nothing but the place in the rules changes, and nothing is gone over.
LEMMA RefusalSame ==
  ASSUME RefusalInv, rules' = rules, view' = view,
         \A i \in Index, e \in Entry :
           (Heard(i, e)' <=> Heard(i, e)) /\ (Passed(i, e)' => Passed(i, e))
  PROVE  RefusalInv'
<1>1. \A i \in Index, e \in Entry :
        /\ Of(i, e)' = Of(i, e)
        /\ BadEntry(i, e)' <=> BadEntry(i, e)
  BY SameEntries
<1>2. (Ambiguous' <=> Ambiguous) /\ (Refusable' <=> Refusable)
  BY SameRules, SameEntries
<1>3. ASSUME NEW n \in Name, NEW i \in Index, NEW j \in Index,
             NEW d \in BOOLEAN
      PROVE  ClashHeard(n, i, j, d)' => ClashHeard(n, i, j, d)
  <2>1. \A k \in Index, b \in BOOLEAN :
          /\ Heard(k, <<n, b>>)' <=> Heard(k, <<n, b>>)
          /\ Of(k, <<n, b>>)' = Of(k, <<n, b>>)
    BY <1>1 DEF Entry
  <2>2. (~d) \in BOOLEAN
    OBVIOUS
  <2> QED
    BY <2>1, <2>2 DEF ClashHeard
<1> QED
  BY <1>1, <1>2, <1>3 DEF RefusalInv, RefusalExact

\* What is refused is refusable: a bad entry, or a secret that the binding of
\* its name, the last heard entry on it, clashes with.
LEMMA RefusedRefusable ==
  ASSUME IInv, ~Ambiguous, view = "bindings", NEW e \in todo, Refused(e)
  PROVE  Refusable
<1>1. e \in Entry /\ at \in Index /\ Of(at, e) # "none" /\ Index \subseteq Nat
  BY DepthPositive DEF IInv, TypeOK, Present, Index
<1> PICK m \in Name, b \in BOOLEAN : e = <<m, b>>
  BY <1>1 DEF Entry
<1>2. CASE Of(at, e) = "invalid" \/ (e[2] /\ ~ValidEnv(e[1]))
  <2>1. BadEntry(at, e)
    BY <1>1, <1>2 DEF BadEntry
  <2> QED
    BY <1>1, <2>1 DEF Refusable
<1>3. CASE /\ Of(at, e) = "secret"
           /\ bindings[m] # Unbound /\ bindings[m].private # b
  <2> DEFINE i == bindings[m].rule
             d == bindings[m].private
  <2>1. i \in Index /\ d \in BOOLEAN /\ bindings[m] = [rule |-> i, private |-> d]
    BY <1>3 DEF IInv, TypeOK, BoundByRule
  <2>2. /\ Heard(i, <<m, d>>) /\ Of(i, <<m, d>>) = "secret"
        /\ LastHeard(i, m, BOOLEAN)
    BY <2>1 DEF IInv, BindingsSoFar
  <2>3. b = ~d
    BY <1>3, <2>1
  <2>4. i # at
    <3>1. Of(at, <<m, b>>) # "none" /\ Of(i, <<m, d>>) # "none"
      BY <1>3, <2>2
    <3>2. (b = TRUE /\ d = FALSE) \/ (b = FALSE /\ d = TRUE)
      BY <2>1, <2>3
    <3> QED
      BY <1>1, <3>1, <3>2 DEF Ambiguous
  <2>5. i < at
    BY <1>1, <2>1, <2>2, <2>4 DEF Heard
  <2>6. ASSUME NEW k \in Index, NEW x \in BOOLEAN, i < k, k < at
        PROVE  Of(k, <<m, x>>) \in {"none", "invalid"}
    <3>1. ~Heard(k, <<m, x>>)
      BY <1>1, <2>1, <2>2, <2>6 DEF LastHeard
    <3> QED
      BY <1>1, <2>6, <3>1 DEF Heard, Valid
  <2>7. CASE \E k \in Index, x \in BOOLEAN : Of(k, <<m, x>>) = "invalid"
    <3>1. PICK k \in Index, x \in BOOLEAN : Of(k, <<m, x>>) = "invalid"
      BY <2>7
    <3>2. <<m, x>> \in Entry /\ BadEntry(k, <<m, x>>)
      BY <3>1 DEF BadEntry, Entry
    <3> QED
      BY <3>2 DEF Refusable
  <2>8. CASE \A k \in Index, x \in BOOLEAN : Of(k, <<m, x>>) # "invalid"
    <3>1. \A k \in Index, x \in BOOLEAN :
            i < k /\ k < at => Of(k, <<m, x>>) = "none"
      BY <2>6, <2>8
    <3>2. Clash(m)
      BY <1>1, <1>3, <2>1, <2>2, <2>3, <2>5, <3>1 DEF Clash
    <3> QED
      BY <3>2 DEF Refusable
  <2> QED
    BY <2>7, <2>8
<1> QED
  BY <1>2, <1>3 DEF Refused

\* An entry that is not refused clashes with none heard before: the earlier
\* one would be the binding of its name.
LEMMA NoNewClash ==
  ASSUME IInv, RefusalInv, ~Ambiguous, view = "bindings",
         NEW m \in Name, NEW b \in BOOLEAN, <<m, b>> \in todo,
         ~Refused(<<m, b>>), JustHeard(m, b), rules' = rules, at' = at,
         NEW n \in Name, NEW i \in Index, NEW j \in Index, NEW d \in BOOLEAN,
         ClashHeard(n, i, j, d)'
  PROVE  FALSE
<1>1. at \in Index /\ Index \subseteq Nat /\ (~d) \in BOOLEAN
  BY DepthPositive DEF IInv, TypeOK, Index
<1>2. \A k \in Index, x \in BOOLEAN :
        /\ Heard(k, <<n, x>>)' <=>
             Heard(k, <<n, x>>) \/ (k = at /\ n = m /\ x = b)
        /\ Of(k, <<n, x>>)' = Of(k, <<n, x>>)
        /\ Heard(k, <<n, x>>) => k <= at
  BY DEF JustHeard
<1>3. /\ i < j
      /\ Heard(i, <<n, d>>)' /\ Of(i, <<n, d>>) = "secret"
      /\ Heard(j, <<n, ~d>>)' /\ Of(j, <<n, ~d>>) = "secret"
      /\ \A k \in Index, x \in BOOLEAN :
           i < k /\ k < j => Of(k, <<n, x>>) = "none"
  BY <1>1, <1>2 DEF ClashHeard
<1>4. j <= at /\ i < at
  <2>1. at \in Nat /\ i \in Nat /\ j \in Nat
    BY <1>1
  <2>2. j <= at
    <3>1. Heard(j, <<n, ~d>>) \/ j = at
      BY <1>1, <1>2, <1>3
    <3> QED
      BY <2>1, <3>1 DEF Heard
  <2> QED
    BY <1>3, <2>1, <2>2
<1>5. Heard(i, <<n, d>>)
  BY <1>1, <1>2, <1>3, <1>4
<1>6. ~Heard(j, <<n, ~d>>)
  BY <1>3, <1>5 DEF RefusalInv, ClashHeard
<1>7. j = at /\ n = m /\ b = ~d
  BY <1>1, <1>2, <1>3, <1>6
<1>8. LastHeard(i, n, BOOLEAN)
  <2> SUFFICES ASSUME NEW k \in Index, NEW x \in BOOLEAN, k > i,
                      Heard(k, <<n, x>>)
               PROVE  FALSE
    BY DEF LastHeard
  <2>1. k <= at /\ Of(k, <<n, x>>) # "none"
    BY <1>2 DEF Heard, Valid
  <2>2. k = at
    BY <1>1, <1>3, <1>7, <2>1
  <2>3. x # b
    BY <1>7, <2>2 DEF JustHeard
  <2>4. Of(at, <<n, b>>) # "none"
    BY <1>3, <1>7
  <2>5. (b = TRUE /\ x = FALSE) \/ (b = FALSE /\ x = TRUE)
    BY <2>3
  <2> QED
    BY <1>1, <2>1, <2>2, <2>4, <2>5 DEF Ambiguous
<1>9. bindings[n] = [rule |-> i, private |-> d]
  BY <1>3, <1>5, <1>8 DEF IInv, BindingsSoFar
<1>10. bindings[m] # Unbound /\ bindings[m].private # b
  <2>1. i # 0
    BY DEF Index
  <2> QED
    BY <1>7, <1>9, <2>1 DEF Unbound
<1> QED
  BY <1>3, <1>7, <1>10 DEF Refused

LEMMA RefusalSourceStep ==
  ASSUME IInv, RefusalInv, NEW e \in Entry, SourceStep(e) PROVE RefusalInv'
<1>1. /\ view = "sources" /\ rules' = rules /\ at \in Index
      /\ view' = "sources" \/ (view' = "failed" /\ Of(at, e) = "invalid")
  BY DEF SourceStep, IInv, TypeOK
<1>2. view' = "failed" => Refusable
  BY <1>1 DEF BadEntry, Refusable
<1>3. Refusable' <=> Refusable
  BY <1>1, SameEntries
<1> QED
  BY <1>1, <1>2, <1>3 DEF RefusalInv, RefusalExact

LEMMA RefusalBindingStep ==
  ASSUME IInv, RefusalInv, NEW e \in Entry, BindingStep(e) PROVE RefusalInv'
<1> PICK m \in Name, b \in BOOLEAN : e = <<m, b>>
  BY DEF Entry
<1>1. /\ view = "bindings" /\ rules' = rules /\ at' = at
      /\ e \in todo /\ todo' = todo \ {e}
      /\ \/ view' = "failed" /\ Refused(e)
         \/ view' = "bindings" /\ ~Refused(e)
  BY DEF BindingStep
<1>2. Ambiguous' <=> Ambiguous
  BY <1>1, SameRules
<1>3. CASE view' = "failed"
  <2>1. ~Ambiguous => Refusable
    BY <1>1, <1>3, RefusedRefusable
  <2>2. Refusable' <=> Refusable
    BY <1>1, SameEntries
  <2> QED
    BY <1>2, <1>3, <2>1, <2>2 DEF RefusalInv, RefusalExact
<1>4. CASE view' = "bindings"
  <2>1. ~Refused(<<m, b>>) /\ Of(at, e) # "invalid"
    BY <1>1, <1>4 DEF Refused
  <2>2. JustHeard(m, b)
    BY <1>1, <2>1, LastStep DEF IInv
  <2>3. ASSUME NEW i \in Index, NEW f \in Entry, Passed(i, f)'
        PROVE  ~BadEntry(i, f)'
    <3>1. Passed(i, f) \/ (i = at /\ f = e)
      BY <1>1, <2>3 DEF Passed
    <3>2. ~BadEntry(at, e)
      BY <1>1, <1>4 DEF Refused, BadEntry
    <3>3. ~BadEntry(i, f)
      BY <1>1, <3>1, <3>2 DEF RefusalInv
    <3> QED
      BY <1>1, <3>3, SameEntries
  <2>4. ASSUME ~Ambiguous', NEW n \in Name, NEW i \in Index, NEW j \in Index,
               NEW d \in BOOLEAN
        PROVE  ~ClashHeard(n, i, j, d)'
    BY <1>1, <1>2, <2>1, <2>2, <2>4, NoNewClash
  <2> QED
    BY <1>4, <2>3, <2>4 DEF RefusalInv, RefusalExact
<1> QED
  BY <1>1, <1>3, <1>4

LEMMA RefusalNextView == ASSUME IInv, RefusalInv, NextView PROVE RefusalInv'
<1>1. /\ rules' = rules /\ at = Depth /\ todo = {}
      /\ at' = 1 /\ todo' = Present(1)
      /\ \/ view = "network" /\ view' = "sources"
         \/ view = "sources" /\ view' = "bindings"
         \/ view = "bindings" /\ view' = "keys"
         \/ view = "keys" /\ view' = "done"
  BY DEF NextView, After
<1>2. (Ambiguous' <=> Ambiguous) /\ (Refusable' <=> Refusable)
  BY <1>1, SameRules, SameEntries
<1>3. \A i \in Index, e \in Entry :
        (Heard(i, e) <=> Valid(i, e)) /\ ~Heard(i, e)'
  BY HeardNextView DEF IInv
<1>4. CASE view = "network"
  BY <1>1, <1>4 DEF RefusalInv, RefusalExact
<1>5. CASE view = "sources"
  <2>1. ASSUME NEW i \in Index, NEW e \in Entry, Passed(i, e)'
        PROVE  ~BadEntry(i, e)'
    <3>1. i \in Nat /\ i >= 1
      BY DEF Index
    <3>2. i = 1 /\ e \notin Present(1)
      BY <1>1, <2>1, <3>1 DEF Passed
    <3>3. Of(i, e) = "none"
      BY <3>2 DEF Present
    <3>4. ~BadEntry(i, e)
      BY <3>3 DEF BadEntry
    <3> QED
      BY <1>1, <3>4, SameEntries
  <2>2. ASSUME NEW n \in Name, NEW i \in Index, NEW j \in Index,
               NEW d \in BOOLEAN
        PROVE  ~ClashHeard(n, i, j, d)'
    <3>1. <<n, d>> \in Entry
      BY DEF Entry
    <3> QED
      BY <1>3, <3>1 DEF ClashHeard
  <2> QED
    BY <1>1, <1>5, <2>1, <2>2 DEF RefusalInv, RefusalExact
<1>6. CASE view = "bindings"
  <2>1. \A i \in Index, e \in Entry : ~BadEntry(i, e)
    <3>1. \A i \in Index, e \in Entry : Passed(i, e)
      BY <1>1, DepthPositive DEF Passed, Index
    <3> QED
      BY <1>6, <3>1 DEF RefusalInv
  <2>2. ASSUME ~Ambiguous, NEW n \in Name, Clash(n)
        PROVE  FALSE
    <3>1. PICK i \in Index, j \in Index, d \in BOOLEAN :
            /\ i < j
            /\ Of(i, <<n, d>>) = "secret" /\ Of(j, <<n, ~d>>) = "secret"
            /\ \A k \in Index, b \in BOOLEAN :
                 i < k /\ k < j => Of(k, <<n, b>>) = "none"
      BY <2>2 DEF Clash
    <3>2. <<n, d>> \in Entry /\ <<n, ~d>> \in Entry
      BY DEF Entry
    <3>3. Heard(i, <<n, d>>) /\ Heard(j, <<n, ~d>>)
      BY <1>3, <3>1, <3>2 DEF Valid
    <3>4. ClashHeard(n, i, j, d)
      BY <3>1, <3>3 DEF ClashHeard
    <3> QED
      BY <1>6, <2>2, <3>4 DEF RefusalInv
  <2> QED
    BY <1>1, <1>2, <1>6, <2>1, <2>2 DEF RefusalInv, RefusalExact, Refusable
<1>7. CASE view = "keys"
  BY <1>1, <1>2, <1>7 DEF RefusalInv, RefusalExact
<1> QED
  BY <1>1, <1>4, <1>5, <1>6, <1>7

LEMMA RefusalNext == IInv /\ RefusalInv /\ [Next]_vars => RefusalInv'
<1> SUFFICES ASSUME IInv, RefusalInv, [Next]_vars PROVE RefusalInv'
  OBVIOUS
<1>1. CASE NextRule
  <2>1. \A i \in Index, e \in Entry : Heard(i, e)' <=> Heard(i, e)
    BY <1>1, HeardNextRule DEF IInv
  <2>2. rules' = rules /\ view' = view
    BY <1>1 DEF NextRule
  <2>3. CASE view = "bindings"
    <3>1. ASSUME NEW i \in Index, NEW e \in Entry, Passed(i, e)'
          PROVE  ~BadEntry(i, e)'
      <4>1. Passed(i, e) \/ (i = at + 1 /\ e \notin Present(i))
        BY <1>1, <3>1, DepthPositive
           DEF IInv, TypeOK, NextRule, Passed, Index
      <4>2. e \notin Present(i) => ~BadEntry(i, e)
        BY DEF Present, BadEntry
      <4>3. ~BadEntry(i, e)
        BY <2>3, <4>1, <4>2 DEF RefusalInv
      <4> QED
        BY <2>2, <4>3, SameEntries
    <3>2. ASSUME ~Ambiguous, NEW n \in Name, NEW i \in Index, NEW j \in Index,
                 NEW d \in BOOLEAN
          PROVE  ~ClashHeard(n, i, j, d)'
      <4>1. \A k \in Index, b \in BOOLEAN :
              /\ Heard(k, <<n, b>>)' <=> Heard(k, <<n, b>>)
              /\ Of(k, <<n, b>>)' = Of(k, <<n, b>>)
        BY <2>1, <2>2, SameRules DEF Entry
      <4>2. (~d) \in BOOLEAN
        OBVIOUS
      <4>3. ~ClashHeard(n, i, j, d)
        BY <2>3, <3>2 DEF RefusalInv
      <4> QED
        BY <4>1, <4>2, <4>3 DEF ClashHeard
    <3>3. Ambiguous' <=> Ambiguous
      BY <2>2, SameRules
    <3> QED
      BY <2>2, <2>3, <3>1, <3>2, <3>3 DEF RefusalInv, RefusalExact
  <2>4. CASE view # "bindings"
    <3>1. (Ambiguous' <=> Ambiguous) /\ (Refusable' <=> Refusable)
      BY <2>2, SameRules, SameEntries
    <3> QED
      BY <2>2, <2>4, <3>1 DEF RefusalInv, RefusalExact
  <2> QED
    BY <2>3, <2>4
<1>2. CASE NextView
  BY <1>2, RefusalNextView
<1>3. ASSUME NEW e \in Entry, NetworkStep(e) \/ KeysStep(e)
      PROVE  RefusalInv'
  <2>1. /\ view \in {"network", "keys"} /\ view' = view /\ rules' = rules
    BY <1>3 DEF NetworkStep, KeysStep
  <2>2. (Ambiguous' <=> Ambiguous) /\ (Refusable' <=> Refusable)
    BY <2>1, SameRules, SameEntries
  <2> QED
    BY <2>1, <2>2 DEF RefusalInv, RefusalExact
<1>4. ASSUME NEW e \in Entry, SourceStep(e) PROVE RefusalInv'
  BY <1>4, RefusalSourceStep
<1>5. ASSUME NEW e \in Entry, BindingStep(e) PROVE RefusalInv'
  BY <1>5, RefusalBindingStep
<1>6. CASE UNCHANGED vars
  <2>1. \A i \in Index, e \in Entry :
          (Heard(i, e)' <=> Heard(i, e)) /\ (Passed(i, e)' => Passed(i, e))
    BY <1>6 DEF vars, Heard, Valid, Of, Passed
  <2> QED
    BY <1>6, <2>1, RefusalSame DEF vars
<1> QED
  BY <1>1, <1>2, <1>3, <1>4, <1>5, <1>6 DEF Next

\* The variables of the four functions keep their types.
THEOREM TypeCorrect == Spec => []TypeOK
BY Invariant, PTL DEF IInv

\* What is connected and what is resolved are the last word of the rules,
\* whatever the order of the entries in a HashMap.
THEOREM LastRuleWins == Spec => []Overlaid
<1>1. IInv => Overlaid
  BY DEF IInv, Overlaid
<1> QED
  BY <1>1, Invariant, PTL

\* The merge of secrets and network bindings never finds a conflict.
THEOREM NoNameTwice == Spec => []NoConflict
BY InvNoConflict, Invariant, PTL

\* No secret is resolved that was not announced from the same rule.
THEOREM AllAnnounced == Spec => []Announced
BY InvAnnounced, Invariant, PTL

\* With regular names unset removes exactly the files set has written.
THEOREM RegularFilesAlike == Spec => []RegularFilesAgree
<1>1. Spec => []KeysInv
  BY Invariant, KeysInit, KeysNext, PTL DEF Spec
<1> QED
  BY <1>1, Invariant, InvRegularFiles, PTL

\* The rules of a command are refused for a bad entry or for two secrets
\* that clash, and then always; only ambiguous rules are a matter of luck.
THEOREM RefusedExactly == Spec => []RefusalExact
<1>1. Spec => []RefusalInv
  BY Invariant, RefusalInit, RefusalNext, PTL DEF Spec
<1>2. RefusalInv => RefusalExact
  BY DEF RefusalInv
<1> QED
  BY <1>1, <1>2, PTL
=============================================================================
