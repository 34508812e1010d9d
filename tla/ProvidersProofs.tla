---------------------------- MODULE ProvidersProofs -----------------------------
(***************************************************************************)
(* Proofs about Providers: its type, that each binding gets the value of   *)
(* its own source and is masked as it should, that nothing is left running *)
(* or on disk, and that no value is lost but where two sources clash.      *)
(***************************************************************************)
EXTENDS Providers, FiniteSetTheorems, TLAPS

(***************************************************************************)
(* Type correctness of the resolution of a batch.                          *)
(***************************************************************************)
THEOREM TypeCorrect == Spec => []TypeOK
<1>1. Init => TypeOK
  BY SourcesRead DEF Init, TypeOK
<1>2. TypeOK /\ [Next]_vars => TypeOK'
  <2> SUFFICES ASSUME TypeOK, [Next]_vars PROVE TypeOK'
    OBVIOUS
  <2> USE DEF TypeOK
  <2>1. ASSUME NEW n \in Name, Add(n) PROVE TypeOK'
    BY <2>1 DEF Add, Keep
  <2>2. CASE Start
    <3>1. tools' \subseteq Calls
      BY <2>2 DEF Start, Calls
    <3>2. dirs' \subseteq {s.place : s \in Sources}
      BY <2>2 DEF Start, PlacesOf, CallOf
    <3>3. hydration' \subseteq Sources \X Value
      BY <2>2 DEF Start, Value
    <3>. QED BY <2>2, <3>1, <3>2, <3>3 DEF Start
  <2>3. CASE StartPanics
    <3>1. \A U \in SUBSET urls : {CallOf(s) : s \in U} \subseteq Calls
      BY DEF Calls
    <3>. QED BY <2>3, <3>1 DEF StartPanics
  <2>4. CASE Finish
    BY <2>4 DEF Finish
  <2>5. ASSUME NEW c, NEW values, c \in tools, Completes(c, values),
               values \subseteq Sources \X Value
        PROVE  TypeOK'
    BY <2>5 DEF Completes
  <2>6. ASSUME NEW c \in tools, TimesOut(c) PROVE TypeOK'
    BY <2>6 DEF TimesOut, GivesUp
  <2>7. ASSUME NEW c \in tools, NEW present, Answers(c, present) PROVE TypeOK'
    <3>1. CASE AllThere(c, present)
      <4>1. PICK S \in Filled(c) : Completes(c, {<<s, Secret(s)>> : s \in S})
        BY <2>7, <3>1 DEF Answers
      <4>2. S \subseteq Sources
        BY DEF Filled, Wanted
      <4>3. {<<s, Secret(s)>> : s \in S} \subseteq Sources \X Value
        BY <4>2 DEF Value
      <4>. QED BY <2>5, <4>1, <4>3
    <3>2. CASE ~AllThere(c, present)
      BY <2>7, <3>2 DEF Answers, GivesUp
    <3>. QED BY <3>1, <3>2
  <2>8. ASSUME NEW c \in tools, Fails(c) PROVE TypeOK'
    BY <2>8 DEF Fails, GivesUp
  <2>9. ASSUME NEW c \in tools, Prints(c) \/ InjectOk(c) PROVE TypeOK'
    <3>1. {<<s, Secret(s)>> : s \in Wanted(c)} \subseteq Sources \X Value
      BY DEF Wanted, Value
    <3>2. Completes(c, {<<s, Secret(s)>> : s \in Wanted(c)})
      BY <2>9 DEF Prints, InjectOk
    <3>. QED BY <2>5, <3>1, <3>2
  <2>10. ASSUME NEW c \in tools, InjectRefused(c) PROVE TypeOK'
    <3>1. c.place \in {s.place : s \in Sources}
      BY DEF Calls, CallOf
    <3>. QED BY <2>10, <3>1 DEF InjectRefused
  <2>11. ASSUME NEW c \in tools, InjectMissing(c) PROVE TypeOK'
    BY <2>11 DEF InjectMissing, GivesUp
  <2>12. ASSUME NEW c \in tools, ReadOne(c) PROVE TypeOK'
    <3>0. PICK s \in Unread(c) : \E u \in SameLabel(s) :
              IF Unread(c) = {s} THEN Completes(c, {<<s, Secret(u)>>})
              ELSE /\ hydration' = hydration \cup {<<s, Secret(u)>>}
                   /\ UNCHANGED <<env, added, urls, literal, pc, tools, slow, dirs, warned>>
      BY <2>12 DEF ReadOne
    <3>1. PICK u \in SameLabel(s) :
            IF Unread(c) = {s} THEN Completes(c, {<<s, Secret(u)>>})
            ELSE /\ hydration' = hydration \cup {<<s, Secret(u)>>}
                 /\ UNCHANGED <<env, added, urls, literal, pc, tools, slow, dirs, warned>>
      BY <3>0
    <3>2. {<<s, Secret(u)>>} \subseteq Sources \X Value
      BY DEF Unread, Wanted, Value, SameLabel
    <3>3. CASE Unread(c) = {s}
      BY <2>5, <3>1, <3>2, <3>3
    <3>4. CASE Unread(c) # {s}
      BY <3>1, <3>2, <3>4
    <3>. QED BY <3>3, <3>4
  <2>13. ASSUME NEW c \in tools, ToolExits(c) PROVE TypeOK'
    BY <2>13 DEF ToolExits
  <2>14. CASE UNCHANGED vars
    BY <2>14 DEF vars
  <2>. QED
    BY <2>1, <2>2, <2>3, <2>4, <2>6, <2>7, <2>8, <2>9, <2>10, <2>11, <2>12, <2>13, <2>14
    DEF Next, Lade, Tool
<1>. QED BY <1>1, <1>2, PTL DEF Spec

-----------------------------------------------------------------------------
(* The kept sources are those of the bindings, valid ones with a provider  *)
(* and others with Raw; no value is had but under a source it may stand    *)
(* for, and one of each.  What a call of op brings is had before it ends   *)
(* only where its references are read one by one.                          *)

Good(s) == s.scheme # "none" /\ s.valid
Fits(x) == \/ x[1] \in literal /\ x = <<x[1], Itself(x[1])>>
           \/ x[1] \in urls /\ \E t \in StandsFor(x[1]) : x = <<x[1], Secret(t)>>

OwnInv ==
  /\ \A s \in urls : Good(s)
  /\ \A s \in literal : ~Good(s)
  /\ \A x \in hydration : Fits(x)
  /\ \A x, y \in hydration : x[1] = y[1] => x = y
  /\ \A c \in slow : c.scheme = "op" /\ c.place \in warned
  /\ \A x \in hydration : x[1] \in urls /\ x[1].scheme = "op" /\ CallOf(x[1]) \in tools =>
       CallOf(x[1]) \in slow
  /\ pc = "add" => hydration = {} /\ slow = {}
  /\ pc = "done" => \A n \in Name : Found(n) # {}

LEMMA FitsSame ==
  ASSUME TypeOK, OwnInv, NEW x \in hydration, UNCHANGED <<urls, literal>>,
         warned \subseteq warned'
  PROVE  Fits(x)'
<1>1. CASE x[1] \in literal /\ x = <<x[1], Itself(x[1])>>
  BY <1>1 DEF Fits
<1>2. CASE x[1] \in urls /\ \E t \in StandsFor(x[1]) : x = <<x[1], Secret(t)>>
  <2>1. PICK t \in StandsFor(x[1]) : x = <<x[1], Secret(t)>>
    BY <1>2
  <2>2. x[1] \in Sources
    BY <1>2 DEF TypeOK
  <2>3. t \in StandsFor(x[1])'
    BY <2>1, <2>2 DEF StandsFor, OneByOne, SameLabel
  <2>. QED BY <1>2, <2>1, <2>3 DEF Fits
<1>. QED BY <1>1, <1>2 DEF OwnInv, Fits

\* Steps that bring no value.
LEMMA OwnSame ==
  ASSUME TypeOK, OwnInv,
         UNCHANGED <<env, urls, literal, hydration>>, warned \subseteq warned',
         \A c \in slow' : c.scheme = "op" /\ c.place \in warned',
         \A c \in tools' : c \in tools /\ (c \in slow => c \in slow'),
         pc' # "add",
         pc' = "done" => \A n \in Name : Found(n) # {}
  PROVE  OwnInv'
<1>1. \A x \in hydration' : Fits(x)'
  BY FitsSame
<1>2. pc' = "done" => \A n \in Name : Found(n)' # {}
  BY DEF Found
<1>. QED BY <1>1, <1>2 DEF OwnInv

\* The values of a call, or of one reference of it.
LEMMA OwnBrought ==
  ASSUME TypeOK, OwnInv, NEW c, NEW values, pc = "resolve",
         UNCHANGED <<env, urls, literal, pc, warned>>,
         hydration' = hydration \cup values,
         \/ tools' = tools \ {c} /\ slow' = slow \ {c}
         \/ UNCHANGED <<tools, slow>> /\ c \in slow,
         \A y \in values : /\ y[1] \in urls /\ CallOf(y[1]) = c
                           /\ \E t \in StandsFor(y[1]) : y = <<y[1], Secret(t)>>,
         \A x \in hydration \cup values, y \in values : x[1] = y[1] => x = y
  PROVE  OwnInv'
<1>1. \A x \in hydration' : Fits(x)'
  <2>1. \A x \in hydration : Fits(x)'
    BY FitsSame
  <2>2. \A y \in values : Fits(y)'
    BY DEF Fits, StandsFor, OneByOne, SameLabel
  <2>. QED BY <2>1, <2>2
<1>2. \A x, y \in hydration' : x[1] = y[1] => x = y
  BY DEF OwnInv
<1>3. \A x \in hydration' : x[1] \in urls' /\ x[1].scheme = "op" /\ CallOf(x[1]) \in tools' =>
        CallOf(x[1]) \in slow'
  BY DEF OwnInv
<1>4. \A d \in slow' : d.scheme = "op" /\ d.place \in warned'
  BY DEF OwnInv
<1>. QED BY <1>1, <1>2, <1>3, <1>4 DEF OwnInv

LEMMA OwnAnswered ==
  ASSUME TypeOK, OwnInv, NEW c \in tools, NEW S, S \subseteq Wanted(c), pc = "resolve",
         Completes(c, {<<s, Secret(s)>> : s \in S}),
         c.scheme = "op" => c \notin slow
  PROVE  OwnInv'
<1> DEFINE values == {<<s, Secret(s)>> : s \in S}
<1>1. ASSUME NEW y \in values
      PROVE  /\ y[1] \in urls /\ y[1] \in Sources /\ CallOf(y[1]) = c
             /\ y = <<y[1], Secret(y[1])>>
  <2>1. PICK s \in S : y = <<s, Secret(s)>>
    OBVIOUS
  <2>2. y[1] = s
    BY <2>1
  <2>. QED BY <2>1, <2>2 DEF Wanted, TypeOK
<1>2. \A y \in values : y[1] \in StandsFor(y[1])
  BY <1>1 DEF StandsFor, OneByOne, SameLabel
<1>3. ASSUME NEW x \in hydration, NEW y \in values, x[1] = y[1] PROVE x = y
  <2>1. y[1] \in urls /\ CallOf(y[1]) = c /\ y = <<y[1], Secret(y[1])>>
    BY <1>1
  <2>2. y[1].scheme = c.scheme
    BY <2>1 DEF CallOf
  <2>3. y[1].scheme # "op"
    BY <1>3, <2>1, <2>2 DEF OwnInv
  <2>4. x[1] \notin literal
    BY <1>3, <2>1 DEF OwnInv
  <2>5. PICK t \in StandsFor(x[1]) : x = <<x[1], Secret(t)>>
    BY <2>4 DEF OwnInv, Fits
  <2>6. t = x[1]
    BY <1>3, <2>3, <2>5 DEF StandsFor, OneByOne
  <2>. QED BY <1>3, <2>1, <2>5, <2>6
<1>4. \A x, y \in values : x[1] = y[1] => x = y
  BY <1>1
<1>5. \A y \in values : /\ y[1] \in urls /\ CallOf(y[1]) = c
                        /\ \E t \in StandsFor(y[1]) : y = <<y[1], Secret(t)>>
  BY <1>1, <1>2
<1>6. /\ UNCHANGED <<env, urls, literal, pc, warned>>
      /\ hydration' = hydration \cup values /\ tools' = tools \ {c} /\ slow' = slow \ {c}
  BY DEF Completes
<1> HIDE DEF values
<1>. QED BY <1>3, <1>4, <1>5, <1>6, OwnBrought

LEMMA OwnRead ==
  ASSUME TypeOK, OwnInv, NEW c \in tools, ReadOne(c)
  PROVE  OwnInv'
<1>0. PICK s \in Unread(c) : \E u \in SameLabel(s) :
          IF Unread(c) = {s} THEN Completes(c, {<<s, Secret(u)>>})
          ELSE /\ hydration' = hydration \cup {<<s, Secret(u)>>}
               /\ UNCHANGED <<env, added, urls, literal, pc, tools, slow, dirs, warned>>
  BY DEF ReadOne
<1>1. PICK u \in SameLabel(s) :
        IF Unread(c) = {s} THEN Completes(c, {<<s, Secret(u)>>})
        ELSE /\ hydration' = hydration \cup {<<s, Secret(u)>>}
             /\ UNCHANGED <<env, added, urls, literal, pc, tools, slow, dirs, warned>>
  BY <1>0
<1> DEFINE values == {<<s, Secret(u)>>}
<1>2. s \in urls /\ CallOf(s) = c /\ \A x \in hydration : x[1] # s
  BY DEF Unread, Wanted
<1>3. c \in slow /\ pc = "resolve"
  BY DEF ReadOne
<1>4. OneByOne(s)
  BY <1>2, <1>3 DEF OwnInv, CallOf, OneByOne
<1>5. \A y \in values : /\ y[1] \in urls /\ CallOf(y[1]) = c
                        /\ \E t \in StandsFor(y[1]) : y = <<y[1], Secret(t)>>
  BY <1>1, <1>2, <1>4 DEF StandsFor
<1>6. \A x \in hydration \cup values, y \in values : x[1] = y[1] => x = y
  BY <1>2
<1>7. /\ UNCHANGED <<env, urls, literal, pc, warned>>
      /\ hydration' = hydration \cup values
      /\ \/ tools' = tools \ {c} /\ slow' = slow \ {c}
         \/ UNCHANGED <<tools, slow>>
  BY <1>1 DEF Completes
<1> HIDE DEF values
<1>. QED BY <1>3, <1>5, <1>6, <1>7, OwnBrought

LEMMA OwnInductive == Spec => []OwnInv
<1>1. Init => OwnInv
  BY DEF Init, OwnInv
<1>2. TypeOK /\ OwnInv /\ [Next]_vars => OwnInv'
  <2> SUFFICES ASSUME TypeOK, OwnInv, [Next]_vars PROVE OwnInv'
    OBVIOUS
  <2>a. \A c \in slow : c.scheme = "op" /\ c.place \in warned
    BY DEF OwnInv
  <2>1. ASSUME NEW n \in Name, Add(n) PROVE OwnInv'
    BY <2>1 DEF OwnInv, Add, Keep, Good
  <2>2. CASE Start
    <3>1. ASSUME NEW x \in hydration'
          PROVE  x[1] \in literal /\ x = <<x[1], Itself(x[1])>>
      <4>1. PICK s \in literal : x = <<s, Itself(s)>>
        BY <2>2 DEF Start
      <4>. QED BY <4>1
    <3>2. \A x \in hydration' : Fits(x)' /\ x[1] \notin urls'
      BY <2>2, <3>1 DEF Start, Fits, OwnInv
    <3>3. \A x, y \in hydration' : x[1] = y[1] => x = y
      BY <3>1
    <3>. QED BY <2>2, <3>2, <3>3 DEF Start, OwnInv
  <2>3. CASE StartPanics
    BY <2>3 DEF StartPanics, OwnInv
  <2>4. CASE Finish
    <3>1. pc' = "done" => \A n \in Name : Found(n) # {}
      BY <2>4 DEF Finish
    <3>. QED BY <2>4, <2>a, <3>1, OwnSame DEF Finish
  <2>5. ASSUME NEW how, how \in {"error", "panic"}, GivesUp(how), tools' \subseteq tools,
               \/ UNCHANGED slow
               \/ \E c : tools' = tools \ {c} /\ slow' = slow \ {c}
        PROVE  OwnInv'
    BY <2>5, <2>a, OwnSame DEF GivesUp
  <2>6. ASSUME NEW c \in tools, TimesOut(c) PROVE OwnInv'
    BY <2>5, <2>6 DEF TimesOut
  <2>7. ASSUME NEW c \in tools, NEW present, Answers(c, present) PROVE OwnInv'
    <3>1. CASE AllThere(c, present)
      <4>1. PICK S \in Filled(c) : Completes(c, {<<s, Secret(s)>> : s \in S})
        BY <2>7, <3>1 DEF Answers
      <4>2. S \subseteq Wanted(c)
        BY DEF Filled
      <4>. QED BY <2>7, <4>1, <4>2, OwnAnswered DEF Answers
    <3>2. CASE ~AllThere(c, present)
      BY <2>5, <2>7, <3>2 DEF Answers
    <3>. QED BY <3>1, <3>2
  <2>8. ASSUME NEW c \in tools, Fails(c) PROVE OwnInv'
    BY <2>5, <2>8 DEF Fails
  <2>9. ASSUME NEW c \in tools, Prints(c) \/ InjectOk(c) PROVE OwnInv'
    BY <2>9, OwnAnswered DEF Prints, InjectOk
  <2>10. ASSUME NEW c \in tools, InjectRefused(c) PROVE OwnInv'
    BY <2>10, <2>a, OwnSame DEF InjectRefused
  <2>11. ASSUME NEW c \in tools, InjectMissing(c) PROVE OwnInv'
    BY <2>5, <2>11 DEF InjectMissing
  <2>12. ASSUME NEW c \in tools, ToolExits(c) PROVE OwnInv'
    BY <2>12, <2>a, OwnSame DEF ToolExits
  <2>13. CASE UNCHANGED vars
    BY <2>13 DEF vars, OwnInv, Found, Fits, StandsFor, OneByOne, SameLabel
  <2>. QED
    BY <2>1, <2>2, <2>3, <2>4, <2>6, <2>7, <2>8, <2>9, <2>10, <2>11, <2>12, <2>13, OwnRead
    DEF Next, Lade, Tool
<1>. QED BY <1>1, <1>2, TypeCorrect, PTL DEF Spec

(***************************************************************************)
(* Whatever the number of bindings and the order of the calls, a binding   *)
(* gets what its own source stands for, or a field of its label where an   *)
(* account is read one by one, and is masked exactly if that is not the    *)
(* source itself.                                                          *)
(***************************************************************************)
THEOREM OwnValueHolds == Spec => []OwnValue
<1>1. TypeOK /\ OwnInv => OwnValue
  <2> SUFFICES ASSUME TypeOK, OwnInv, pc = "done", NEW n \in Name
               PROVE  IF Good(env[n])
                      THEN /\ env[n] \in Masked
                           /\ \E s \in StandsFor(env[n]) : Found(n) = {Secret(s)}
                      ELSE env[n] \notin Masked /\ Found(n) = {Itself(env[n])}
    BY DEF OwnValue, Good
  <2>1. PICK x \in hydration : x[1] = env[n]
    BY DEF OwnInv, Found
  <2>2. \A y \in hydration : y[1] = env[n] => y = x
    BY <2>1 DEF OwnInv
  <2>3. Found(n) = {x[2]}
    BY <2>1, <2>2 DEF Found
  <2>4. Fits(x)
    BY DEF OwnInv
  <2>5. CASE Good(env[n])
    <3>1. env[n] \in urls /\ \E t \in StandsFor(env[n]) : x = <<x[1], Secret(t)>>
      BY <2>1, <2>4, <2>5 DEF Fits, OwnInv
    <3>2. PICK t \in StandsFor(env[n]) : x[2] = Secret(t)
      BY <3>1
    <3>3. env[n] \in Masked
      BY <2>1, <3>1 DEF Masked
    <3>. QED BY <2>3, <2>5, <3>2, <3>3
  <2>6. CASE ~Good(env[n])
    <3>1. env[n] \notin urls /\ x = <<x[1], Itself(env[n])>>
      BY <2>1, <2>4, <2>6 DEF Fits, OwnInv
    <3>2. env[n] \notin Masked
      BY <3>1 DEF Masked
    <3>3. x[2] = Itself(env[n])
      BY <3>1
    <3>. QED BY <2>3, <2>6, <3>2, <3>3
  <2>. QED BY <2>5, <2>6
<1>. QED BY <1>1, TypeCorrect, OwnInductive, PTL

-----------------------------------------------------------------------------
(***************************************************************************)
(* No tool runs after a success, no directory is left after any end, and   *)
(* every account read one by one has been warned about.                    *)
(***************************************************************************)
THEOREM NothingLeftHolds == Spec => []NothingLeft
<1> DEFINE Inv == /\ NothingLeft
                  /\ pc = "add" => tools = {} /\ dirs = {}
                  /\ pc \in {"add", "resolve"} => slow \subseteq tools
                  /\ pc = "resolve" => dirs = PlacesOf(tools)
<1>1. Init => Inv
  BY DEF Init, NothingLeft, Ended
<1>2. TypeOK /\ Inv /\ [Next]_vars => Inv'
  <2> SUFFICES ASSUME TypeOK, Inv, [Next]_vars PROVE Inv'
    OBVIOUS
  <2> USE DEF NothingLeft, Ended
  <2>1. ASSUME NEW n \in Name, Add(n) PROVE Inv'
    BY <2>1 DEF Add
  <2>2. CASE Start
    BY <2>2 DEF Start, PlacesOf
  <2>3. CASE StartPanics
    BY <2>3 DEF StartPanics
  <2>4. CASE Finish
    BY <2>4 DEF Finish, PlacesOf
  <2>5. ASSUME NEW c \in tools, NEW values, Completes(c, values), pc = "resolve"
        PROVE  Inv'
    <3>1. dirs' = PlacesOf(tools')
      BY <2>5 DEF Completes, PlacesOf
    <3>2. \A d \in tools' : d.scheme = "infisical" => d.place \in dirs'
      BY <3>1 DEF PlacesOf
    <3>. QED BY <2>5, <3>1, <3>2 DEF Completes
  <2>6. ASSUME NEW how, how \in {"error", "panic"}, GivesUp(how), slow' \subseteq slow
        PROVE  Inv'
    BY <2>6 DEF GivesUp
  <2>7. ASSUME NEW c \in tools, TimesOut(c) PROVE Inv'
    BY <2>6, <2>7 DEF TimesOut
  <2>8. ASSUME NEW c \in tools, NEW present, Answers(c, present) PROVE Inv'
    <3>1. CASE AllThere(c, present)
      BY <2>5, <2>8, <3>1 DEF Answers
    <3>2. CASE ~AllThere(c, present)
      BY <2>6, <2>8, <3>2 DEF Answers
    <3>. QED BY <3>1, <3>2
  <2>9. ASSUME NEW c \in tools, Fails(c) PROVE Inv'
    BY <2>6, <2>9 DEF Fails
  <2>10. ASSUME NEW c \in tools, Prints(c) \/ InjectOk(c) PROVE Inv'
    BY <2>5, <2>10 DEF Prints, InjectOk
  <2>11. ASSUME NEW c \in tools, InjectRefused(c) PROVE Inv'
    BY <2>11 DEF InjectRefused
  <2>12. ASSUME NEW c \in tools, InjectMissing(c) PROVE Inv'
    BY <2>6, <2>12 DEF InjectMissing
  <2>13. ASSUME NEW c \in tools, ReadOne(c) PROVE Inv'
    <3>0. PICK s \in Unread(c) : \E u \in SameLabel(s) :
              IF Unread(c) = {s} THEN Completes(c, {<<s, Secret(u)>>})
              ELSE /\ hydration' = hydration \cup {<<s, Secret(u)>>}
                   /\ UNCHANGED <<env, added, urls, literal, pc, tools, slow, dirs, warned>>
      BY <2>13 DEF ReadOne
    <3>1. PICK u \in SameLabel(s) :
            IF Unread(c) = {s} THEN Completes(c, {<<s, Secret(u)>>})
            ELSE /\ hydration' = hydration \cup {<<s, Secret(u)>>}
                 /\ UNCHANGED <<env, added, urls, literal, pc, tools, slow, dirs, warned>>
      BY <3>0
    <3>2. CASE Unread(c) = {s}
      BY <2>5, <2>13, <3>1, <3>2 DEF ReadOne
    <3>3. CASE Unread(c) # {s}
      BY <3>1, <3>3 DEF PlacesOf
    <3>. QED BY <3>2, <3>3
  <2>14. ASSUME NEW c \in tools, ToolExits(c) PROVE Inv'
    BY <2>14 DEF ToolExits
  <2>15. CASE UNCHANGED vars
    BY <2>15 DEF vars, PlacesOf
  <2>. QED
    BY <2>1, <2>2, <2>3, <2>4, <2>7, <2>8, <2>9, <2>10, <2>11, <2>12, <2>13, <2>14, <2>15
    DEF Next, Lade, Tool
<1>. QED BY <1>1, <1>2, TypeCorrect, PTL DEF Spec
-----------------------------------------------------------------------------
(***************************************************************************)
(* Where the value of a source is to come from.  A kept source has its     *)
(* call, its value, or that of another one that asks Doppler for the same  *)
(* variable; a source that is not kept gave way to another spelling.       *)
(***************************************************************************)
Had(s) == \E x \in hydration : x[1] = s
SameVariable(s, t) == s.scheme = "doppler" /\ CallOf(s) = CallOf(t) /\ s.var = t.var
Kept(n) ==
  IF Good(env[n])
  THEN env[n] \in urls \/ \E m \in added : env[m] \in urls /\ SameUrl(env[m], env[n])
  ELSE env[n] \in literal
Comes(s) == CallOf(s) \in tools \/ Had(s) \/ \E t \in urls : SameVariable(s, t) /\ Had(t)

SourceInv ==
  /\ \A n \in added : Kept(n)
  /\ \A s \in urls : \E n \in added : s = env[n]
  /\ pc # "add" => added = Name
  /\ pc = "resolve" => /\ \A s \in urls : Comes(s)
                       /\ \A s \in literal : Had(s)

\* A call that is done brings a value for each of its sources, or for
\* another that asks for the same variable.
LEMMA CompletesComes ==
  ASSUME SourceInv, pc = "resolve", NEW c, NEW values, Completes(c, values),
         \A s \in Wanted(c) : \E t \in Wanted(c) :
           /\ s = t \/ SameVariable(s, t)
           /\ \E x \in hydration \cup values : x[1] = t
  PROVE  SourceInv'
<1>1. \A s : Had(s) => Had(s)'
  BY DEF Completes, Had
<1>2. ASSUME NEW s \in urls PROVE Comes(s)'
  <2>1. CASE CallOf(s) = c
    <3>1. PICK t \in Wanted(c) : /\ s = t \/ SameVariable(s, t)
                                 /\ \E x \in hydration \cup values : x[1] = t
      BY <2>1 DEF Wanted
    <3>2. Had(t)'
      BY <3>1 DEF Completes, Had
    <3>3. t \in urls'
      BY DEF Wanted, Completes
    <3>. QED BY <3>1, <3>2, <3>3 DEF Comes, SameVariable
  <2>2. CASE CallOf(s) # c
    BY <1>1, <2>2 DEF Completes, Comes, SourceInv, SameVariable
  <2>. QED BY <2>1, <2>2
<1>. QED BY <1>1, <1>2 DEF Completes, SourceInv, Kept

LEMMA SourceInductive == Spec => []SourceInv
<1>1. Init => SourceInv
  BY DEF Init, SourceInv
<1>2. TypeOK /\ SourceInv /\ [Next]_vars => SourceInv'
  <2> SUFFICES ASSUME TypeOK, SourceInv, [Next]_vars PROVE SourceInv'
    OBVIOUS
  <2>1. ASSUME UNCHANGED <<env, added, urls, literal>>, pc' # "resolve", pc # "add"
        PROVE  SourceInv'
    BY <2>1 DEF SourceInv, Kept
  <2>2. ASSUME NEW n \in Name, Add(n) PROVE SourceInv'
    <3>1. ASSUME NEW m \in added' PROVE Kept(m)'
      <4>1. CASE Good(env[m])
        <5>1. PICK k \in added' : /\ SameUrl(env[k], env[m]) \/ env[k] = env[m]
                                  /\ env[k] \in urls'
          BY <2>2, <3>1, <4>1 DEF Add, Keep, SourceInv, Kept, SameUrl, Good
        <5>. QED BY <2>2, <4>1, <5>1 DEF Add, Kept
      <4>2. CASE ~Good(env[m])
        BY <2>2, <3>1, <4>2 DEF Add, SourceInv, Kept, Good
      <4>. QED BY <4>1, <4>2
    <3>2. \A s \in urls' : \E m \in added' : s = env'[m]
      BY <2>2 DEF Add, Keep, SourceInv
    <3>. QED BY <2>2, <3>1, <3>2 DEF Add, SourceInv
  <2>3. CASE Start
    <3>1. ASSUME NEW s \in literal PROVE Had(s)'
      <4>1. <<s, Itself(s)>> \in hydration' /\ <<s, Itself(s)>>[1] = s
        BY <2>3 DEF Start
      <4>. QED BY <4>1 DEF Had
    <3>. QED BY <2>3, <3>1 DEF Start, SourceInv, Kept, Comes
  <2>4. CASE StartPanics
    BY <2>4 DEF StartPanics, SourceInv, Kept
  <2>5. CASE Finish
    BY <2>1, <2>5 DEF Finish
  <2>6. ASSUME NEW how, how \in {"error", "panic"}, GivesUp(how), pc = "resolve" PROVE SourceInv'
    BY <2>1, <2>6 DEF GivesUp
  <2>7. ASSUME NEW c \in tools, TimesOut(c) PROVE SourceInv'
    BY <2>6, <2>7 DEF TimesOut
  <2>8. ASSUME NEW c, NEW S, S \subseteq Wanted(c), pc = "resolve",
               Completes(c, {<<s, Secret(s)>> : s \in S}),
               \A s \in Wanted(c) : \E t \in S : s = t \/ SameVariable(s, t)
        PROVE  SourceInv'
    <3>1. ASSUME NEW t \in S PROVE \E x \in {<<s, Secret(s)>> : s \in S} : x[1] = t
      <4>1. <<t, Secret(t)>> \in {<<s, Secret(s)>> : s \in S} /\ <<t, Secret(t)>>[1] = t
        OBVIOUS
      <4>. QED BY <4>1
    <3>. QED BY <2>8, <3>1, CompletesComes
  <2>9. ASSUME NEW c \in tools, NEW present, Answers(c, present) PROVE SourceInv'
    <3>1. CASE AllThere(c, present)
      <4>1. PICK S \in Filled(c) : Completes(c, {<<s, Secret(s)>> : s \in S})
        BY <2>9, <3>1 DEF Answers
      <4>2. CASE c.scheme = "doppler"
        <5>1. S \subseteq Wanted(c)
          BY <4>2 DEF Filled
        <5>2. ASSUME NEW s \in Wanted(c) PROVE \E t \in S : SameVariable(s, t)
          <6>1. Cardinality({t \in S : t.var = s.var}) = 1
            BY <4>2 DEF Filled
          <6>2. PICK t \in S : t.var = s.var
            BY <6>1, FS_EmptySet
          <6>. QED BY <4>2, <5>1, <6>2 DEF SameVariable, Wanted, CallOf
        <5>. QED BY <2>8, <2>9, <4>1, <5>1, <5>2 DEF Answers
      <4>3. CASE c.scheme # "doppler"
        BY <2>8, <2>9, <4>1, <4>3 DEF Filled, Answers
      <4>. QED BY <4>2, <4>3
    <3>2. CASE ~AllThere(c, present)
      BY <2>6, <2>9, <3>2 DEF Answers
    <3>. QED BY <3>1, <3>2
  <2>10. ASSUME NEW c \in tools, Fails(c) PROVE SourceInv'
    BY <2>6, <2>10 DEF Fails
  <2>11. ASSUME NEW c \in tools, Prints(c) \/ InjectOk(c) PROVE SourceInv'
    BY <2>8, <2>11 DEF Prints, InjectOk
  <2>12. ASSUME NEW c \in tools, InjectRefused(c) PROVE SourceInv'
    BY <2>12 DEF InjectRefused, SourceInv, Kept, Comes, Had
  <2>13. ASSUME NEW c \in tools, InjectMissing(c) PROVE SourceInv'
    BY <2>6, <2>13 DEF InjectMissing
  <2>14. ASSUME NEW c \in tools, ReadOne(c) PROVE SourceInv'
    <3>0. PICK s \in Unread(c) : \E u \in SameLabel(s) :
              IF Unread(c) = {s} THEN Completes(c, {<<s, Secret(u)>>})
              ELSE /\ hydration' = hydration \cup {<<s, Secret(u)>>}
                   /\ UNCHANGED <<env, added, urls, literal, pc, tools, slow, dirs, warned>>
      BY <2>14 DEF ReadOne
    <3>1. PICK u \in SameLabel(s) :
            IF Unread(c) = {s} THEN Completes(c, {<<s, Secret(u)>>})
            ELSE /\ hydration' = hydration \cup {<<s, Secret(u)>>}
                 /\ UNCHANGED <<env, added, urls, literal, pc, tools, slow, dirs, warned>>
      BY <3>0
    <3>2. CASE Unread(c) = {s}
      <4>1. ASSUME NEW t \in Wanted(c)
            PROVE  \E x \in hydration \cup {<<s, Secret(u)>>} : x[1] = t
        <5>1. <<s, Secret(u)>>[1] = s
          OBVIOUS
        <5>2. CASE t = s
          BY <5>1, <5>2
        <5>3. CASE t # s
          <6>1. t \notin Unread(c)
            BY <3>2, <5>3
          <6>. QED BY <6>1 DEF Unread
        <5>. QED BY <5>2, <5>3
      <4>. QED BY <2>14, <3>1, <3>2, <4>1, CompletesComes DEF ReadOne
    <3>3. CASE Unread(c) # {s}
      <4>1. \A t : Had(t) => Had(t)'
        BY <3>1, <3>3 DEF Had
      <4>. QED BY <3>1, <3>3, <4>1 DEF SourceInv, Kept, Comes, SameVariable
    <3>. QED BY <3>2, <3>3
  <2>15. ASSUME NEW c \in tools, ToolExits(c) PROVE SourceInv'
    BY <2>1, <2>15 DEF ToolExits
  <2>16. CASE UNCHANGED vars
    BY <2>16 DEF vars, SourceInv, Kept, Comes, Had
  <2>. QED
    BY <2>2, <2>3, <2>4, <2>5, <2>7, <2>9, <2>10, <2>11, <2>12, <2>13, <2>14, <2>15, <2>16
    DEF Next, Lade, Tool
<1>. QED BY <1>1, <1>2, TypeCorrect, PTL DEF Spec

(***************************************************************************)
(* The lookup at the end fails only if two of the bindings' sources are    *)
(* spellings of one url, or ask Doppler for one variable: no other value   *)
(* is lost between the calls, whatever their number and order.             *)
(***************************************************************************)
THEOREM NoneLostHolds == Spec => []NoneLost
<1>1. TypeOK /\ OwnInv /\ SourceInv => NoneLost
  <2> SUFFICES ASSUME TypeOK, OwnInv, SourceInv, pc = "resolve", tools = {},
                      NEW n \in Name, Found(n) = {}
               PROVE  \E m \in Name : Clash(env[m], env[n])
    BY DEF NoneLost, LookupFails
  <2>1. ~Had(env[n])
    BY DEF Found, Had
  <2>2. added = Name /\ Kept(n)
    BY DEF SourceInv
  <2>3. Good(env[n])
    BY <2>1, <2>2 DEF Kept, SourceInv
  <2>4. CASE env[n] \in urls
    <3>1. PICK t \in urls : SameVariable(env[n], t) /\ Had(t)
      BY <2>1, <2>4 DEF SourceInv, Comes
    <3>2. PICK m \in Name : t = env[m]
      BY <2>2 DEF SourceInv
    <3>3. Good(t) /\ t # env[n]
      BY <2>1, <3>1 DEF OwnInv
    <3>4. Clash(env[m], env[n])
      BY <2>3, <3>1, <3>2, <3>3 DEF Clash, SameVariable, Good, CallOf
    <3>. QED BY <3>4
  <2>5. CASE env[n] \notin urls
    <3>1. PICK m \in Name : env[m] \in urls /\ SameUrl(env[m], env[n])
      BY <2>2, <2>3, <2>5 DEF Kept
    <3>2. Clash(env[m], env[n])
      BY <2>3, <2>5, <3>1 DEF Clash, SameUrl, Good, OwnInv
    <3>. QED BY <3>2
  <2>. QED BY <2>4, <2>5
<1>. QED BY <1>1, TypeCorrect, OwnInductive, SourceInductive, PTL
=============================================================================
