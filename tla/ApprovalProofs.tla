--------------------------- MODULE ApprovalProofs ----------------------------
(***************************************************************************)
(* Proofs about Approval: its type, that consent is fresh, that approve    *)
(* uncovers the last line as it was shown, and that codes are honoured;    *)
(* then about HookSession, the shells in which a line that was approved is *)
(* run: what its hooks leave behind.                                       *)
(***************************************************************************)
EXTENDS Approval, HookSession, TLAPS

\* A run that begins, and one that moves on.
LEMMA StartsType ==
  ASSUME TypeOK, NEW p \in Actors, NEW sub, NEW at, NEW text, NEW dir, NEW code, NEW typed,
         Starts(p, sub, at, text, dir, code, typed),
         [sub |-> sub, at |-> at, text |-> text, dir |-> dir, code |-> code,
          typed |-> typed, checked |-> now, yes |-> FALSE] \in Run
  PROVE  TypeOK'
<1>1. runs' \in 0..MaxRuns
  BY WindowNat DEF TypeOK, Starts
<1>2. run' \in [Actors -> Run \cup {Idle}]
  <2> DEFINE began(a) == [sub |-> sub, at |-> a, text |-> text, dir |-> dir, code |-> code,
                          typed |-> typed, checked |-> now, yes |-> FALSE]
  <2>1. began(at) \in Run /\ began("refused") \in Run
    BY DEF Run
  <2>2. \E r \in Run : run' = [run EXCEPT ![p] = r]
    <3>1. run' = [run EXCEPT ![p] = began(IF config[dir] = Unreadable THEN "refused" ELSE at)]
      BY DEF Starts
    <3>. QED BY <2>1, <3>1
  <2>. QED BY <2>2 DEF TypeOK
<1>3. approved' \subseteq Texts /\ signal' \in BOOLEAN /\ tty' \in BOOLEAN
  BY Zenon DEF TypeOK, Starts, fixed
<1>. QED BY <1>1, <1>2, <1>3 DEF TypeOK, Starts, fixed

LEMMA EvaluatesType ==
  ASSUME TypeOK, NEW p \in Actors, NEW withheld \in BOOLEAN, run[p] \in Run,
         Evaluates(p, withheld)
  PROVE  /\ pending' \in [text : Text, dir : Dirs] \cup {NoPending}
         /\ last' \in Line \cup {NoPending}
BY DEF TypeOK, Evaluates, Run, Line

LEMMA FixedType ==
  ASSUME TypeOK, UNCHANGED fixed
  PROVE  /\ config' \in LadeFiles /\ approved' \subseteq Texts
         /\ signal' \in BOOLEAN /\ tty' \in BOOLEAN
BY Zenon DEF TypeOK, fixed

LEMMA CodeOfType ==
  ASSUME TypeOK, NEW x \in PrefixesSeen \cup {NoCode}
  PROVE  /\ x \in Prefix \cup {NoCode}
         /\ CodeOf(x) \in CodesSeen \cup {NoCode}
         /\ CodeOf(x) \in Code \cup {NoCode}
<1>1. CodesSeen \subseteq Code
  BY DEF TypeOK, CodesSeen, Shown
<1>2. CASE x = NoCode
  BY <1>2 DEF CodeOf
<1>3. CASE x # NoCode
  <2>1. PICK c \in CodesSeen : /\ c.text.prefix = NoCode
                               /\ x = [cmd |-> c.text.cmd, window |-> c.window]
    BY <1>3 DEF PrefixesSeen
  <2>2. c \in Code
    BY <1>1
  <2>3. c = [text |-> [prefix |-> NoCode, cmd |-> c.text.cmd], window |-> c.window]
    BY <2>1, <2>2 DEF Code, Text
  <2>4. CodeOf(x) = c
    BY <1>3, <2>1, <2>3 DEF CodeOf, Plain
  <2>. QED BY <2>1, <2>2, <2>4 DEF Code, Text, Prefix
<1>. QED BY <1>2, <1>3

(***************************************************************************)
(* Type correctness of disclaimers and their approval.                     *)
(***************************************************************************)
THEOREM TypeCorrect == Spec => []TypeOK
<1>1. Init => TypeOK
  BY FilesAreRules, WindowNat DEF Init, TypeOK, Window
<1>2. TypeOK /\ [Next]_vars => TypeOK'
  <2> SUFFICES ASSUME TypeOK, [Next]_vars PROVE TypeOK'
    OBVIOUS
  <2>a. now \in Window /\ cwd \in Dirs /\ NoCode \in Code \cup {NoCode}
    BY DEF TypeOK
  <2>b. \A p \in Actors : run[p].at # "idle" => run[p] \in Run
    BY DEF TypeOK, Idle
  <2>c. "shell" \in Actors /\ "agent" \in Actors
    BY DEF Actors
  <2>1. ASSUME NEW c \in Commands, NEW x \in PrefixesSeen \cup {NoCode}, EnterLine(c, x)
        PROVE  TypeOK'
    <3>1. [prefix |-> x, cmd |-> c] \in Text
      BY CodeOfType DEF Text
    <3>. QED BY <2>1, <2>a, <2>c, <3>1, CodeOfType, StartsType DEF EnterLine, Run
  <2>2. ASSUME NEW c \in Commands, NEW x \in PrefixesSeen \cup {NoCode}, TypeInject(c, x)
        PROVE  TypeOK'
    <3>1. Plain(c) \in Text
      BY DEF Text, Plain
    <3>. QED BY <2>2, <2>a, <2>c, <3>1, CodeOfType, StartsType DEF TypeInject, Run
  <2>3. ASSUME NEW c \in Commands, NEW x \in PrefixesSeen \cup {NoCode}, NEW d \in Dirs,
               AgentRuns(c, d, x)
        PROVE  TypeOK'
    <3>1. [prefix |-> x, cmd |-> c] \in Text
      BY CodeOfType DEF Text
    <3>. QED BY <2>3, <2>a, <2>c, <3>1, CodeOfType, StartsType DEF AgentRuns, Run
  <2>4. ASSUME NEW code \in CodesSeen \cup {NoCode}, TypeApprove(code) PROVE TypeOK'
    <3>1. Plain(CHOOSE c \in Commands : TRUE) \in Text
      BY SomeCommand DEF Text, Plain
    <3>2. code \in Code \cup {NoCode}
      BY DEF TypeOK, CodesSeen, Shown
    <3>. QED BY <2>4, <2>a, <2>c, <3>1, <3>2, StartsType DEF TypeApprove, Run
  <2>5. ASSUME NEW d \in Dirs, Cd(d) PROVE TypeOK'
    <3>1. UNCHANGED <<fixed, now, pending, last, shown, run, runs>>
      BY <2>5 DEF Cd
    <3>. QED BY <2>5, <3>1, FixedType DEF Cd, TypeOK
  <2>6. CASE Tick
    <3>1. UNCHANGED <<fixed, cwd, pending, last, shown, run, runs>>
      BY <2>6 DEF Tick
    <3>2. now' \in Window
      BY <2>6, WindowNat DEF Tick, TypeOK, Window
    <3>. QED BY <3>1, <3>2, FixedType DEF TypeOK
  <2>7. ASSUME NEW p \in Actors, Lade(p) PROVE TypeOK'
    <3>a. run[p].at # "idle" => run[p] \in Run
      BY <2>b
    <3>1. CASE Rewrite(p)
      <4>1. Plain(run[p].text.cmd) \in Text
        BY <3>1, <3>a DEF Rewrite, Run, Text, Plain
      <4>a. run[p] \in Run
        BY <3>1, <3>a DEF Rewrite
      <4>b. [run[p] EXCEPT !.at = "plain"] \in Run
        BY <4>a DEF Run
      <4>c. [run[p] EXCEPT !.sub = "inject", !.at = "gate",
               !.text = Plain(run[p].text.cmd), !.code = run[p].typed] \in Run
        BY <4>a, <4>1 DEF Run
      <4>d. \E r \in Run : run' = [run EXCEPT ![p] = r]
        BY <3>1, <4>b, <4>c DEF Rewrite, Moves
      <4>2. run' \in [Actors -> Run \cup {Idle}]
        BY <4>d DEF TypeOK
      <4>3. UNCHANGED <<fixed, now, cwd, pending, last, shown, runs>>
        BY <3>1 DEF Rewrite
      <4>. QED BY <4>2, <4>3, FixedType DEF TypeOK
    <3>2. CASE VerifyPending(p)
      <4>a. run[p] \in Run
        BY <3>2, <3>a DEF VerifyPending
      <4>b. [run[p] EXCEPT !.at = "refused"] \in Run
        BY <4>a DEF Run
      <4>c. ASSUME Accepts(p)
            PROVE  [run[p] EXCEPT !.at = "gate", !.text = pending.text,
                      !.code = run[p].typed] \in Run
        BY <4>a, <4>c DEF Accepts, TypeOK, Run
      <4>d. \E r \in Run : run' = [run EXCEPT ![p] = r]
        BY <3>2, <4>b, <4>c DEF VerifyPending, Moves
      <4>1. run' \in [Actors -> Run \cup {Idle}]
        BY <4>d DEF TypeOK
      <4>2. UNCHANGED <<fixed, now, cwd, pending, last, shown, runs>>
        BY <3>2 DEF VerifyPending
      <4>. QED BY <4>1, <4>2, FixedType DEF TypeOK
    <3>3. CASE Gate(p)
      <4>1. run' \in [Actors -> Run \cup {Idle}]
        BY <3>3, <3>a, <2>a DEF Gate, TypeOK, Run
      <4>2. UNCHANGED <<fixed, now, cwd, shown, runs>>
        BY <3>3 DEF Gate
      <4>3. Evaluates(p, FALSE) \/ UNCHANGED <<pending, last>>
        BY <3>3 DEF Gate
      <4>4. run[p] \in Run
        BY <3>3, <3>a DEF Gate
      <4>5. /\ pending' \in [text : Text, dir : Dirs] \cup {NoPending}
            /\ last' \in Line \cup {NoPending}
        BY <4>3, <4>4, EvaluatesType DEF TypeOK
      <4>. QED BY <4>1, <4>2, <4>5, FixedType DEF TypeOK
    <3>4. CASE Withhold(p)
      <4>1. run[p] \in Run
        BY <3>4, <3>a DEF Withhold
      <4>2. run' \in [Actors -> Run \cup {Idle}]
        BY <3>4, <4>1 DEF Withhold, Moves, TypeOK, Run
      <4>3. Disclaimers(RulesOf(p)) \subseteq Texts
        BY DEF Disclaimers
      <4>4. AudienceOf(p) \in Audience
        BY DEF AudienceOf, Audience
      <4>5. shown' \subseteq Shown
        BY <3>4, <4>1, <4>3, <4>4, <2>a DEF Withhold, TypeOK, Run, Shown, Code
      <4>6. UNCHANGED <<fixed, now, cwd, runs>> /\ Evaluates(p, TRUE)
        BY <3>4 DEF Withhold
      <4>. QED BY <4>1, <4>2, <4>5, <4>6, FixedType, EvaluatesType DEF TypeOK
    <3>5. ASSUME NEW yes \in BOOLEAN, Answers(p, yes) PROVE TypeOK'
      <4>1. run' \in [Actors -> Run \cup {Idle}]
        BY <3>5, <3>a DEF Answers, TypeOK, Run
      <4>2. UNCHANGED <<fixed, now, cwd, pending, last, shown, runs>>
        BY <3>5 DEF Answers
      <4>. QED BY <4>1, <4>2, FixedType DEF TypeOK
    <3>. QED BY <2>7, <3>1, <3>2, <3>3, <3>4, <3>5 DEF Lade
  <2>8. CASE UNCHANGED vars
    <3>1. UNCHANGED <<fixed, now, cwd, pending, last, shown, run, runs>>
      BY <2>8 DEF vars, fixed
    <3>. QED BY <3>1, FixedType DEF TypeOK
  <2>. QED BY <2>1, <2>2, <2>3, <2>4, <2>5, <2>6, <2>7, <2>8 DEF Next, People
<1>. QED BY <1>1, <1>2, PTL DEF Spec

----------------------------------------------------------------------------
(***************************************************************************)
(* What holds of each run by itself: it knows only codes that were shown,  *)
(* its gate is given the code that was typed, and consent is fresh.        *)
(***************************************************************************)
Codes(p) == run[p].at # "idle" => /\ run[p].code \in CodesSeen \cup {NoCode}
                                  /\ run[p].typed \in CodesSeen \cup {NoCode}
Forms(p) ==
  /\ run[p].at = "verify" => run[p].sub = "approve"
  /\ run[p].at = "gate" /\ run[p].sub \in {"inject", "approve"} => run[p].code = run[p].typed
  /\ run[p].sub = "inject" => run[p].text = Plain(run[p].text.cmd)
Consent(p) ==
  run[p].at = "uncovered" /\ Asks(p) # {} /\ ~run[p].yes =>
    \E s \in shown : Fresh(p, s)
Met(p) == /\ run[p].sub = "inject" => Honoured(p, Plain(run[p].text.cmd))
          /\ run[p].sub = "approve" => Honoured(p, run[p].text)
Each(p) == Codes(p) /\ Forms(p) /\ Consent(p) /\ Met(p)

(***************************************************************************)
(* What relates the shell's runs to its last line.                         *)
(***************************************************************************)
Whose == run["shell"].sub # "hook" /\ run["agent"].sub \notin {"set", "approve"}
OfLast(p) ==
  run[p].sub = "approve" /\ run[p].at \notin {"verify", "refused"} =>
    last = [text |-> run[p].text, dir |-> run[p].dir, withheld |-> TRUE]
PendingIsLast ==
  pending # NoPending => last = [text |-> pending.text, dir |-> pending.dir, withheld |-> TRUE]
LastWasShown ==
  \A t \in Text, d \in Dirs : last = [text |-> t, dir |-> d, withheld |-> TRUE] =>
    \E s \in shown : /\ s.code.text = t /\ s.audience = "human"
                     /\ s.texts = Disclaimers(RulesFor(d, t, "human"))
Windows == \A s \in shown : s.code.window <= now
WithTexts == \A s \in shown : s.texts = Disclaimers(RulesFor(s.dir, s.code.text, s.audience))

IInv == /\ Whose /\ PendingIsLast /\ LastWasShown /\ Windows /\ WithTexts
        /\ \A p \in Actors : Each(p) /\ OfLast(p)

LEMMA AsksSame ==
  ASSUME NEW q \in Actors, run'[q].sub = run[q].sub, run'[q].text = run[q].text,
         run'[q].dir = run[q].dir, UNCHANGED fixed
  PROVE  /\ RulesOf(q)' = RulesOf(q)
         /\ Asks(q)' = Asks(q)
<1>1. config' = config /\ approved' = approved /\ signal' = signal
  BY DEF fixed
<1>2. AudienceOf(q)' = AudienceOf(q)
  BY <1>1 DEF AudienceOf
<1>3. RulesOf(q)' = RulesOf(q)
  BY <1>1, <1>2 DEF RulesOf, RulesFor
<1>. QED BY <1>1, <1>3 DEF Asks, Disclaimers

LEMMA TextsSame ==
  ASSUME IInv, UNCHANGED <<fixed, shown>>
  PROVE  WithTexts'
<1>1. config' = config /\ shown' = shown
  BY DEF fixed
<1>. QED BY <1>1 DEF IInv, WithTexts, RulesFor, Disclaimers

LEMMA EachSame ==
  ASSUME NEW q \in Actors, Each(q), run'[q] = run[q], UNCHANGED fixed, shown \subseteq shown'
  PROVE  Each(q)'
<1>1. Asks(q)' = Asks(q)
  BY AsksSame
<1>2. CodesSeen \subseteq CodesSeen'
  BY DEF CodesSeen
<1>3. Codes(q)'
  BY <1>2 DEF Each, Codes
<1>4. Forms(q)'
  BY DEF Each, Forms, Plain
<1>5. Consent(q)'
  BY <1>1 DEF Each, Consent, Fresh
<1>6. Met(q)'
  BY DEF Each, Met, Honoured, Plain
<1>. QED BY <1>3, <1>4, <1>5, <1>6 DEF Each

\* What a step that leaves the shell's lines and the screen alone keeps.
LEMMA LinesSame ==
  ASSUME TypeOK, IInv, UNCHANGED <<fixed, pending, last, shown>>, now' \in {now, now + 1}
  PROVE  PendingIsLast' /\ LastWasShown' /\ Windows'
<1>1. PendingIsLast'
  BY DEF IInv, PendingIsLast
<1>2. config' = config
  BY DEF fixed
<1>3. \A d \in Dirs, t \in Text : RulesFor(d, t, "human")' = RulesFor(d, t, "human")
  BY <1>2 DEF RulesFor
<1>4. LastWasShown'
  BY <1>3 DEF IInv, LastWasShown, Disclaimers
<1>5. Windows'
  BY DEF IInv, Windows, TypeOK, Shown, Code, Window
<1>. QED BY <1>1, <1>4, <1>5

LEMMA OfLastSame ==
  ASSUME NEW q \in Actors, OfLast(q), run'[q] = run[q], last' = last
  PROVE  OfLast(q)'
BY DEF OfLast

LEMMA StartsKeeps ==
  ASSUME TypeOK, IInv, NEW p \in Actors, NEW sub, NEW at, NEW text, NEW dir,
         NEW code \in CodesSeen \cup {NoCode}, NEW typed \in CodesSeen \cup {NoCode},
         Starts(p, sub, at, text, dir, code, typed),
         \/ p = "shell" /\ sub = "set" /\ at = "gate"
         \/ p = "shell" /\ sub = "inject" /\ at = "gate" /\ code = typed /\ text = Plain(text.cmd)
         \/ p = "shell" /\ sub = "approve" /\ at = "verify"
         \/ p = "agent" /\ sub = "hook" /\ at = "hook"
  PROVE  IInv'
<1>1. /\ UNCHANGED <<fixed, now, pending, last, shown>>
      /\ \A q \in Actors : q # p => run'[q] = run[q]
      /\ run'[p] = [sub |-> sub, at |-> IF config[dir] = Unreadable THEN "refused" ELSE at,
                    text |-> text, dir |-> dir, code |-> code,
                    typed |-> typed, checked |-> now, yes |-> FALSE]
  BY DEF Starts, TypeOK
<1>2. PendingIsLast' /\ LastWasShown' /\ Windows'
  BY <1>1, LinesSame
<1>3. Whose'
  BY <1>1 DEF Whose, IInv, Actors
<1>4. Each(p)'
  <2>1. Codes(p)'
    BY <1>1 DEF Codes, CodesSeen
  <2>2. Forms(p)'
    BY <1>1 DEF Forms, Plain
  <2>3. Consent(p)' /\ Met(p)'
    BY <1>1 DEF Consent, Met, Honoured
  <2>. QED BY <2>1, <2>2, <2>3 DEF Each
<1>5. OfLast(p)'
  BY <1>1 DEF OfLast
<1>6. \A q \in Actors : Each(q)' /\ OfLast(q)'
  BY <1>1, <1>4, <1>5, EachSame, OfLastSame DEF IInv
<1>7. WithTexts'
  BY <1>1, TextsSame
<1>. QED BY <1>2, <1>3, <1>6, <1>7 DEF IInv

\* A step of one run that leaves the shell's lines and the screen alone.
LEMMA MovesKeeps ==
  ASSUME TypeOK, IInv, NEW p \in Actors,
         \A q \in Actors : q # p => run'[q] = run[q],
         run'[p].sub = run[p].sub \/ run'[p].sub = "inject",
         UNCHANGED <<fixed, now, cwd, pending, last, shown, runs>>,
         Each(p)', OfLast(p)'
  PROVE  IInv'
<1>1. PendingIsLast' /\ LastWasShown' /\ Windows'
  BY LinesSame
<1>2. Whose'
  BY DEF IInv, Whose, Actors
<1>3. \A q \in Actors : Each(q)' /\ OfLast(q)'
  BY EachSame, OfLastSame DEF IInv
<1>4. WithTexts'
  BY TextsSame
<1>. QED BY <1>1, <1>2, <1>3, <1>4 DEF IInv

\* What the run of a hook evaluates names the line it was given.
LEMMA EvaluatesKeeps ==
  ASSUME TypeOK, IInv, NEW p \in Actors, NEW withheld \in BOOLEAN, run[p] \in Run,
         Evaluates(p, withheld), UNCHANGED <<fixed, now>>, shown \subseteq shown',
         withheld /\ run[p].sub = "set" =>
           \E s \in shown' : /\ s.code.text = run[p].text /\ s.audience = "human"
                             /\ s.texts = Disclaimers(RulesFor(run[p].dir, run[p].text, "human"))
  PROVE  /\ PendingIsLast' /\ LastWasShown'
         /\ p # "shell" => last' = last
<1>1. config' = config
  BY DEF fixed
<1>2. \A d, t : Disclaimers(RulesFor(d, t, "human"))' = Disclaimers(RulesFor(d, t, "human"))
  BY <1>1 DEF RulesFor, Disclaimers
<1>3. CASE run[p].sub = "set"
  <2>1. p = "shell"
    BY <1>3 DEF IInv, Whose, Actors
  <2>2. /\ pending' = IF withheld THEN [text |-> run[p].text, dir |-> run[p].dir] ELSE NoPending
        /\ last' = [text |-> run[p].text, dir |-> run[p].dir, withheld |-> withheld]
    BY <1>3 DEF Evaluates
  <2>3. PendingIsLast'
    BY <2>2 DEF PendingIsLast
  <2>4. LastWasShown'
    BY <1>2, <1>3, <2>2 DEF LastWasShown
  <2>. QED BY <2>1, <2>3, <2>4
<1>4. CASE run[p].sub # "set"
  <2>1. UNCHANGED <<pending, last>>
    BY <1>4 DEF Evaluates
  <2>2. PendingIsLast'
    BY <2>1 DEF IInv, PendingIsLast
  <2>3. LastWasShown'
    BY <1>2, <2>1 DEF IInv, LastWasShown
  <2>. QED BY <2>1, <2>2, <2>3
<1>. QED BY <1>3, <1>4

LEMMA GateKeeps ==
  ASSUME TypeOK, IInv, NEW p \in Actors, Gate(p)
  PROVE  IInv'
<1>1. run[p] \in Run
  BY DEF Gate, TypeOK, Idle
<1>2. PICK at \in {"plain", "uncovered", "ask", "show"} :
        /\ run' = [run EXCEPT ![p].at = at, ![p].checked = now]
        /\ at \in {"plain", "uncovered"} => Evaluates(p, FALSE)
        /\ at \in {"ask", "show"} => UNCHANGED <<pending, last>>
        /\ at \in {"ask", "show"} =>
             ~IsApproved(run[p].text, run[p].code, Disclaimers(RulesOf(p)))
        /\ at = "uncovered" => IsApproved(run[p].text, run[p].code, Disclaimers(RulesOf(p)))
  BY Zenon DEF Gate
<1>3. UNCHANGED <<fixed, now, cwd, shown, runs>>
  BY DEF Gate
<1>4. /\ run'[p] = [run[p] EXCEPT !.at = at, !.checked = now]
      /\ \A q \in Actors : q # p => run'[q] = run[q]
  BY <1>2 DEF TypeOK
<1>5. /\ run'[p].sub = run[p].sub /\ run'[p].text = run[p].text /\ run'[p].dir = run[p].dir
      /\ run'[p].code = run[p].code /\ run'[p].typed = run[p].typed
      /\ run'[p].yes = run[p].yes /\ run'[p].at = at /\ run'[p].checked = now
  BY <1>1, <1>4 DEF Run
<1>6. PendingIsLast' /\ LastWasShown' /\ (p # "shell" => last' = last)
  <2>1. CASE at \in {"plain", "uncovered"}
    BY <1>1, <1>2, <1>3, <2>1, EvaluatesKeeps
  <2>2. CASE at \in {"ask", "show"}
    BY <1>2, <1>3, <2>2, LinesSame
  <2>. QED BY <2>1, <2>2
<1>7. Windows'
  BY <1>3 DEF IInv, Windows
<1>8. Whose'
  BY <1>4, <1>5 DEF IInv, Whose, Actors
<1>9. run[p].code \in CodesSeen \cup {NoCode} /\ run[p].typed \in CodesSeen \cup {NoCode}
  BY DEF Gate, IInv, Each, Codes
<1>10. Each(p)'
  <2>1. Codes(p)'
    BY <1>3, <1>5, <1>9 DEF Codes, CodesSeen
  <2>2. Forms(p)'
    BY <1>5 DEF IInv, Each, Forms, Plain
  <2>3. Consent(p)'
    <3>1. CASE at = "uncovered" /\ Verify(run[p].text, run[p].code)
      <4>1. PICK s \in shown : s.code = run[p].code
        BY <1>9, <3>1 DEF CodesSeen, Verify
      <4>2. s.code.text = run[p].text /\ now \in s.code.window..(s.code.window + 1)
        BY <3>1, <4>1 DEF Verify, TypeOK, Shown, Code, Window
      <4>. QED BY <1>3, <1>5, <4>1, <4>2 DEF Consent, Fresh
    <3>2. CASE at = "uncovered" /\ Disclaimers(RulesOf(p)) \subseteq approved
      <4>1. Asks(p)' = {}
        BY <1>3, <1>5, <3>2, AsksSame DEF Asks
      <4>. QED BY <4>1 DEF Consent
    <3>3. CASE at # "uncovered"
      BY <1>5, <3>3 DEF Consent
    <3>. QED BY <1>2, <3>1, <3>2, <3>3 DEF IsApproved
  <2>4. Met(p)'
    <3>1. SUFFICES ASSUME run[p].sub \in {"inject", "approve"}, at \in {"ask", "show"},
                          run[p].typed # NoCode, run[p].typed.text = run[p].text
                   PROVE  run[p].typed.window + 1 < now
      BY <1>5 DEF Met, Honoured, Plain, IInv, Each, Forms
    <3>2. run[p].code = run[p].typed
      BY <3>1 DEF Gate, IInv, Each, Forms
    <3>3. PICK s \in shown : s.code = run[p].typed
      BY <1>9, <3>1 DEF CodesSeen
    <3>4. s.code.window <= now /\ s.code.window \in Nat /\ now \in Nat
      BY DEF IInv, Windows, TypeOK, Shown, Code, Window
    <3>5. ~Verify(run[p].text, run[p].code)
      BY <1>2, <3>1 DEF IsApproved
    <3>. QED BY <3>1, <3>2, <3>3, <3>4, <3>5 DEF Verify
  <2>. QED BY <2>1, <2>2, <2>3, <2>4 DEF Each
<1>11. OfLast(p)'
  <2>1. SUFFICES ASSUME run[p].sub = "approve"
                 PROVE  last' = [text |-> run[p].text, dir |-> run[p].dir, withheld |-> TRUE]
    BY <1>5 DEF OfLast
  <2>2. last' = last
    BY <1>2, <2>1 DEF Evaluates
  <2>. QED BY <2>1, <2>2 DEF IInv, OfLast, Gate
<1>12. ASSUME NEW q \in Actors, q # p PROVE Each(q)' /\ OfLast(q)'
  <2>1. Each(q)'
    BY <1>3, <1>4, <1>12, EachSame DEF IInv
  <2>2. OfLast(q)'
    <3>1. CASE p # "shell"
      BY <1>4, <1>6, <1>12, <3>1, OfLastSame DEF IInv
    <3>2. CASE p = "shell"
      BY <1>4, <1>8, <1>12, <3>2 DEF OfLast, Whose, Actors
    <3>. QED BY <3>1, <3>2
  <2>. QED BY <2>1, <2>2
<1>13. WithTexts'
  BY <1>3, TextsSame
<1>. QED BY <1>6, <1>7, <1>8, <1>10, <1>11, <1>12, <1>13 DEF IInv

LEMMA WithholdKeeps ==
  ASSUME TypeOK, IInv, NEW p \in Actors, Withhold(p)
  PROVE  IInv'
<1>1. run[p] \in Run
  BY DEF Withhold, TypeOK, Idle
<1>2. /\ run'[p] = [run[p] EXCEPT !.at = "withheld"]
      /\ \A q \in Actors : q # p => run'[q] = run[q]
  BY DEF Withhold, Moves, TypeOK
<1>3. /\ run'[p].sub = run[p].sub /\ run'[p].text = run[p].text /\ run'[p].dir = run[p].dir
      /\ run'[p].code = run[p].code /\ run'[p].typed = run[p].typed
      /\ run'[p].at = "withheld" /\ run'[p].checked = run[p].checked
  BY <1>1, <1>2 DEF Run
<1>4. UNCHANGED <<fixed, now>> /\ Evaluates(p, TRUE)
  BY DEF Withhold
<1>. DEFINE new == [code |-> [text |-> run[p].text, window |-> now], dir |-> run[p].dir,
                    audience |-> AudienceOf(p), texts |-> Disclaimers(RulesOf(p))]
<1>5. shown' = shown \cup {new}
  BY DEF Withhold
<1>6. run[p].sub = "set" =>
        /\ new.code.text = run[p].text /\ new.audience = "human"
        /\ new.texts = Disclaimers(RulesFor(run[p].dir, run[p].text, "human"))
  BY DEF AudienceOf, RulesOf
<1>7. PendingIsLast' /\ LastWasShown' /\ (p # "shell" => last' = last)
  BY <1>1, <1>4, <1>5, <1>6, EvaluatesKeeps
<1>8. Windows'
  <2>1. new.code.window = now /\ now <= now
    BY DEF TypeOK, Window
  <2>. QED BY <1>4, <1>5, <2>1 DEF IInv, Windows
<1>9. Whose'
  BY <1>2, <1>3 DEF IInv, Whose, Actors
<1>10. Each(p)'
  <2>1. Codes(p)'
    BY <1>3, <1>5 DEF Withhold, IInv, Each, Codes, CodesSeen
  <2>2. Forms(p)' /\ Consent(p)'
    BY <1>3 DEF IInv, Each, Forms, Plain, Consent
  <2>3. Met(p)'
    BY <1>3 DEF Withhold, IInv, Each, Met, Honoured, Plain
  <2>. QED BY <2>1, <2>2, <2>3 DEF Each
<1>11. OfLast(p)'
  <2>1. SUFFICES ASSUME run[p].sub = "approve"
                 PROVE  last' = [text |-> run[p].text, dir |-> run[p].dir, withheld |-> TRUE]
    BY <1>3 DEF OfLast
  <2>. QED BY <1>4, <2>1 DEF Evaluates, IInv, OfLast, Withhold
<1>12. ASSUME NEW q \in Actors, q # p PROVE Each(q)' /\ OfLast(q)'
  <2>1. Each(q)'
    BY <1>2, <1>4, <1>5, <1>12, EachSame DEF IInv
  <2>2. OfLast(q)'
    <3>1. CASE p # "shell"
      BY <1>2, <1>7, <1>12, <3>1, OfLastSame DEF IInv
    <3>2. CASE p = "shell"
      BY <1>2, <1>9, <1>12, <3>2 DEF OfLast, Whose, Actors
    <3>. QED BY <3>1, <3>2
  <2>. QED BY <2>1, <2>2
<1>13. WithTexts'
  <2>1. config' = config
    BY <1>4 DEF fixed
  <2>2. \A d, t, a : Disclaimers(RulesFor(d, t, a))' = Disclaimers(RulesFor(d, t, a))
    BY <2>1 DEF RulesFor, Disclaimers
  <2>3. new.texts = Disclaimers(RulesFor(new.dir, new.code.text, new.audience))
    BY DEF RulesOf
  <2>. QED BY <1>5, <2>2, <2>3 DEF IInv, WithTexts
<1>. QED BY <1>7, <1>8, <1>9, <1>10, <1>11, <1>12, <1>13 DEF IInv

LEMMA RewriteKeeps ==
  ASSUME TypeOK, IInv, NEW p \in Actors, Rewrite(p)
  PROVE  IInv'
<1>1. run[p] \in Run
  BY DEF Rewrite, TypeOK, Idle
<1>2. /\ \A q \in Actors : q # p => run'[q] = run[q]
      /\ run'[p] \in {[run[p] EXCEPT !.at = "plain"],
                      [run[p] EXCEPT !.sub = "inject", !.at = "gate",
                                     !.text = Plain(run[p].text.cmd), !.code = run[p].typed]}
  BY DEF Rewrite, Moves, TypeOK
<1>3. /\ run'[p].typed = run[p].typed /\ run'[p].code \in {run[p].code, run[p].typed}
      /\ \/ /\ run'[p].at = "plain" /\ run'[p].sub = run[p].sub
            /\ run'[p].text = run[p].text /\ run'[p].dir = run[p].dir
         \/ /\ run'[p].at = "gate" /\ run'[p].sub = "inject"
            /\ run'[p].text = Plain(run[p].text.cmd) /\ run'[p].code = run'[p].typed
  BY <1>1, <1>2, ZenonT(60) DEF Run
<1>4. UNCHANGED <<fixed, now, cwd, pending, last, shown, runs>>
  BY DEF Rewrite
<1>5. run[p].code \in CodesSeen \cup {NoCode} /\ run[p].typed \in CodesSeen \cup {NoCode}
  BY DEF Rewrite, IInv, Each, Codes
<1>6. Codes(p)'
  BY <1>3, <1>4, <1>5 DEF Codes, CodesSeen
<1>7. Forms(p)'
  BY <1>3 DEF IInv, Each, Forms, Plain
<1>8. Consent(p)' /\ Met(p)'
  BY <1>3 DEF Consent, Met, Honoured
<1>9. OfLast(p)'
  BY <1>3, <1>4 DEF Rewrite, IInv, OfLast
<1>. QED BY <1>2, <1>3, <1>4, <1>6, <1>7, <1>8, <1>9, MovesKeeps DEF Each

LEMMA VerifyKeeps ==
  ASSUME TypeOK, IInv, NEW p \in Actors, VerifyPending(p)
  PROVE  IInv'
<1>1. run[p] \in Run
  BY DEF VerifyPending, TypeOK, Idle
<1>2. run[p].sub = "approve"
  BY DEF VerifyPending, IInv, Each, Forms
<1>3. UNCHANGED <<fixed, now, cwd, pending, last, shown, runs>>
  BY DEF VerifyPending
<1>4. run[p].code \in CodesSeen \cup {NoCode} /\ run[p].typed \in CodesSeen \cup {NoCode}
  BY DEF VerifyPending, IInv, Each, Codes
<1>5. \A q \in Actors : q # p => run'[q] = run[q]
  BY DEF VerifyPending, Moves, TypeOK
<1>6. CASE Accepts(p)
  <2>1. /\ pending # NoPending /\ pending.dir = run[p].dir
        /\ run'[p] = [run[p] EXCEPT !.at = "gate", !.text = pending.text, !.code = run[p].typed]
    BY <1>6 DEF VerifyPending, Accepts, TypeOK
  <2>2. /\ run'[p].sub = "approve" /\ run'[p].at = "gate" /\ run'[p].text = pending.text
        /\ run'[p].dir = pending.dir
        /\ run'[p].code = run[p].typed /\ run'[p].typed = run[p].typed
    BY <1>1, <1>2, <2>1 DEF Run
  <2>3. Codes(p)'
    BY <1>3, <1>4, <2>2 DEF Codes, CodesSeen
  <2>4. Forms(p)' /\ Consent(p)' /\ Met(p)'
    BY <2>2 DEF Forms, Consent, Met, Honoured
  <2>5. OfLast(p)'
    BY <1>3, <2>1, <2>2 DEF IInv, PendingIsLast, OfLast
  <2>. QED BY <1>2, <1>3, <1>5, <2>2, <2>3, <2>4, <2>5, MovesKeeps DEF Each
<1>7. CASE ~Accepts(p)
  <2>1. run'[p] = [run[p] EXCEPT !.at = "refused"]
    BY <1>7 DEF VerifyPending, Moves, TypeOK
  <2>2. /\ run'[p].sub = run[p].sub /\ run'[p].at = "refused" /\ run'[p].text = run[p].text
        /\ run'[p].code = run[p].code /\ run'[p].typed = run[p].typed
    BY <1>1, <2>1 DEF Run
  <2>3. Codes(p)'
    BY <1>3, <1>4, <2>2 DEF Codes, CodesSeen
  <2>4. Forms(p)' /\ Consent(p)' /\ Met(p)'
    BY <1>2, <2>2 DEF Forms, Consent, Met, Honoured
  <2>5. OfLast(p)'
    BY <2>2 DEF OfLast
  <2>. QED BY <1>3, <1>5, <2>2, <2>3, <2>4, <2>5, MovesKeeps DEF Each
<1>. QED BY <1>6, <1>7

LEMMA AnswersKeeps ==
  ASSUME TypeOK, IInv, NEW p \in Actors, NEW yes \in BOOLEAN, Answers(p, yes)
  PROVE  IInv'
<1>1. run[p] \in Run
  BY DEF Answers, TypeOK, Idle
<1>2. /\ \A q \in Actors : q # p => run'[q] = run[q]
      /\ run'[p] = [run[p] EXCEPT !.at = IF yes THEN "uncovered" ELSE "aborted", !.yes = yes]
  BY DEF Answers, TypeOK
<1>3. /\ run'[p].sub = run[p].sub /\ run'[p].text = run[p].text /\ run'[p].dir = run[p].dir
      /\ run'[p].code = run[p].code /\ run'[p].typed = run[p].typed /\ run'[p].yes = yes
      /\ run'[p].at = IF yes THEN "uncovered" ELSE "aborted"
  BY <1>1, <1>2 DEF Run
<1>4. (run'[p].at = "uncovered" /\ run'[p].yes) \/ run'[p].at = "aborted"
  BY <1>3
<1>5. UNCHANGED <<fixed, now, cwd, pending, last, shown, runs>>
  BY DEF Answers
<1>6. Codes(p)'
  BY <1>3, <1>5 DEF Answers, IInv, Each, Codes, CodesSeen
<1>7. Forms(p)'
  BY <1>3, <1>4 DEF IInv, Each, Forms, Plain
<1>8. Consent(p)' /\ Met(p)'
  BY <1>3, <1>4 DEF Consent, Met, Honoured
<1>9. OfLast(p)'
  BY <1>3, <1>5 DEF Answers, IInv, OfLast
<1>. QED BY <1>2, <1>3, <1>5, <1>6, <1>7, <1>8, <1>9, MovesKeeps DEF Each

LEMMA ClockKeeps ==
  ASSUME TypeOK, IInv, UNCHANGED <<fixed, pending, last, shown, run>>, now' \in {now, now + 1}
  PROVE  IInv'
<1>1. PendingIsLast' /\ LastWasShown' /\ Windows'
  BY LinesSame
<1>2. Whose'
  BY DEF IInv, Whose
<1>3. \A q \in Actors : Each(q)' /\ OfLast(q)'
  BY EachSame, OfLastSame DEF IInv
<1>4. WithTexts'
  BY TextsSame
<1>. QED BY <1>1, <1>2, <1>3, <1>4 DEF IInv

(***************************************************************************)
(* IInv is inductive: every action keeps it.                               *)
(***************************************************************************)
LEMMA Inductive == TypeOK /\ IInv /\ [Next]_vars => IInv'
<1> SUFFICES ASSUME TypeOK, IInv, [Next]_vars PROVE IInv'
  OBVIOUS
<1>a. NoCode \in CodesSeen \cup {NoCode}
  OBVIOUS
<1>b. \A c : Plain(c) = Plain(Plain(c).cmd)
  BY DEF Plain
<1>1. ASSUME NEW c \in Commands, NEW x \in PrefixesSeen \cup {NoCode}, EnterLine(c, x) PROVE IInv'
  BY <1>1, <1>a, CodeOfType, StartsKeeps DEF EnterLine, Actors
<1>2. ASSUME NEW c \in Commands, NEW x \in PrefixesSeen \cup {NoCode}, TypeInject(c, x) PROVE IInv'
  BY <1>2, <1>b, CodeOfType, StartsKeeps DEF TypeInject, Actors
<1>3. ASSUME NEW c \in Commands, NEW x \in PrefixesSeen \cup {NoCode}, NEW d \in Dirs,
             AgentRuns(c, d, x)
      PROVE  IInv'
  BY <1>3, <1>a, CodeOfType, StartsKeeps DEF AgentRuns, Actors
<1>4. ASSUME NEW code \in CodesSeen \cup {NoCode}, TypeApprove(code) PROVE IInv'
  BY <1>4, <1>a, StartsKeeps DEF TypeApprove, Actors
<1>5. ASSUME NEW d \in Dirs, Cd(d) PROVE IInv'
  BY <1>5, ClockKeeps DEF Cd
<1>6. CASE Tick
  BY <1>6, ClockKeeps DEF Tick
<1>7. ASSUME NEW p \in Actors, Lade(p) PROVE IInv'
  BY <1>7, RewriteKeeps, VerifyKeeps, GateKeeps, WithholdKeeps, AnswersKeeps DEF Lade
<1>8. CASE UNCHANGED vars
  BY <1>8, ClockKeeps DEF vars, fixed
<1>. QED BY <1>1, <1>2, <1>3, <1>4, <1>5, <1>6, <1>7, <1>8 DEF Next, People

LEMMA Always == Spec => [](TypeOK /\ IInv)
<1>1. Init => IInv
  <2> SUFFICES ASSUME Init PROVE IInv
    OBVIOUS
  <2>1. \A p \in Actors : run[p] = Idle
    BY DEF Init
  <2>2. \A p \in Actors : Each(p) /\ OfLast(p)
    BY <2>1 DEF Idle, Each, Codes, Forms, Consent, Met, Honoured, OfLast
  <2>3. Whose
    BY <2>1 DEF Idle, Whose, Actors
  <2>4. PendingIsLast /\ Windows
    BY DEF Init, PendingIsLast, Windows
  <2>5. LastWasShown
    BY DEF Init, LastWasShown, NoPending
  <2>6. WithTexts
    BY DEF Init, WithTexts
  <2>. QED BY <2>2, <2>3, <2>4, <2>5, <2>6 DEF IInv
<1>2. Spec => []TypeOK
  BY TypeCorrect
<1>. QED BY <1>1, <1>2, Inductive, PTL DEF Spec

(***************************************************************************)
(* Consent is fresh: no secret is uncovered by a code of another command   *)
(* or of a window gone by.                                                 *)
(***************************************************************************)
THEOREM FreshConsentHolds == Spec => []FreshConsent
<1>1. IInv => FreshConsent
  <2> SUFFICES ASSUME IInv, NEW p \in Actors, run[p].at = "uncovered", Asks(p) # {}, ~run[p].yes
               PROVE  /\ \E s \in shown : Fresh(p, s)
                      /\ \A s \in shown :
                           Fresh(p, s) /\ s.dir = run[p].dir /\ s.audience = AudienceOf(p) =>
                             Asks(p) \subseteq s.texts
    BY DEF FreshConsent
  <2>1. \E s \in shown : Fresh(p, s)
    BY DEF IInv, Each, Consent
  <2>2. ASSUME NEW s \in shown, Fresh(p, s), s.dir = run[p].dir, s.audience = AudienceOf(p)
        PROVE  Asks(p) \subseteq s.texts
    BY <2>2 DEF IInv, WithTexts, Fresh, Asks, RulesOf
  <2>. QED BY <2>1, <2>2
<1>. QED BY <1>1, Always, PTL

(***************************************************************************)
(* lade approve runs the last line that went through the hooks, and only   *)
(* if it was denied its secrets.                                           *)
(***************************************************************************)
THEOREM ApprovesLastLineHolds == Spec => []ApprovesLastLine
<1>1. IInv => ApprovesLastLine
  BY DEF IInv, OfLast, ApprovesLastLine
<1>. QED BY <1>1, Always, PTL

(***************************************************************************)
(* All the disclaimers of what lade approve uncovers for a human were      *)
(* shown to a human.                                                       *)
(***************************************************************************)
THEOREM ApprovedAsShownHolds == Spec => []ApprovedAsShown
<1>1. TypeOK /\ IInv => ApprovedAsShown
  <2> SUFFICES ASSUME TypeOK, IInv, NEW p \in Actors,
                      run[p].at = "uncovered", run[p].sub = "approve", AudienceOf(p) = "human"
               PROVE  \E s \in shown : /\ s.code.text = run[p].text
                                       /\ Disclaimers(RulesOf(p)) \subseteq s.texts
                                       /\ s.audience = "human"
    BY DEF ApprovedAsShown
  <2>1. run[p].text \in Text /\ run[p].dir \in Dirs
    BY DEF TypeOK, Run, Idle
  <2>2. last = [text |-> run[p].text, dir |-> run[p].dir, withheld |-> TRUE]
    BY DEF IInv, OfLast
  <2>. QED BY <2>1, <2>2 DEF IInv, LastWasShown, RulesOf
<1>. QED BY <1>1, Always, PTL

(***************************************************************************)
(* A code that was shown is not asked for a second time in its time.       *)
(***************************************************************************)
THEOREM CodeHonouredHolds == Spec => []CodeHonoured
<1>1. IInv => CodeHonoured
  BY DEF IInv, Each, Met, CodeHonoured
<1>. QED BY <1>1, Always, PTL

-----------------------------------------------------------------------------
(***************************************************************************)
(* What the hooks leave behind in a shell and in the directories, for any  *)
(* number of shells and of failed calls of "lade unset".                   *)
(*                                                                         *)
(* While no call has failed, a shell that shows its prompt with the hooks  *)
(* on has no line left to undo; what is left otherwise is exactly what the *)
(* next undo needs (Env, Ids).  Two parts hold whatever fails: an undo     *)
(* only has ids of forwards (Owned), and a snapshot is there only after    *)
(* lade has written the file of the rule itself (Claimed).                 *)
(***************************************************************************)
\* The value v of the variable is the user's, but for one not exported.
Faithful(s, v) ==
  \/ v = sh[s].own
  \/ sh[s].own = "local" /\ v = "absent"

\* A shell at a prompt with the hooks on has undone its line, and the
\* snapshot is only there for a line.
Env(s) ==
  /\ AtPrompt(s) => sh[s].line = "unset"
  /\ sh[s].line = "unset" => sh[s].restore = "unset"
  /\ sh[s].restore = "unset" => Faithful(s, sh[s].var)
  /\ sh[s].restore # "unset" => Faithful(s, sh[s].restore)

Ids(s) ==
  /\ sh[s].line = "unset" => ~sh[s].pids
  /\ sh[s].forward = IF sh[s].pids THEN "held" ELSE "none"

Owned(s) ==
  sh[s].line # "unset" /\ sh[s].told /\ sh[s].pids => sh[s].forward # "none"

Claimed(s) == sh[s].restore # "unset" => file["top"] # "user"

HookInv ==
  /\ HookTypeOK
  /\ \A s \in Shell : Owned(s) /\ Claimed(s)
  /\ faults = 0 => \A s \in Shell : Env(s) /\ Ids(s)

-----------------------------------------------------------------------------
Phases == {"prompt", "command", "precmd"}
Lines == {"unset", "matched", "other"}
Vars == {"absent", "local", "exported", "secret"}
Owns == {"absent", "local", "exported"}
Restores == {"unset", "absent", "exported", "secret"}
Forwards == {"none", "held", "lost"}
ShellState ==
  [phase: Phases, cwd: Dir, hooks: BOOLEAN, line: Lines, told: BOOLEAN,
   var: Vars, own: Owns, restore: Restores, pids: BOOLEAN, forward: Forwards]

\* The values steps give to fields; with them a record is in ShellState by
\* its fields alone.
LEMMA HookWords ==
  /\ "prompt" \in Phases /\ "command" \in Phases /\ "precmd" \in Phases
  /\ "unset" \in Lines /\ "matched" \in Lines /\ "other" \in Lines
  /\ "secret" \in Vars /\ Owns \subseteq Vars
  /\ Restores \ {"unset"} \subseteq Vars /\ "unset" \in Restores
  /\ \A v \in Vars : Previous(v) \in Restores
  /\ "held" \in Forwards /\ "lost" \in Forwards /\ "none" \in Forwards
BY DEF Phases, Lines, Vars, Owns, Restores, Forwards, Previous

LEMMA HookForwards ==
  ASSUME NEW s \in Shell, sh[s] \in ShellState
  PROVE  Forgotten(s) \in Forwards /\ StoppedForward(s) \in Forwards
BY HookWords DEF ShellState, Forgotten, StoppedForward

LEMMA HookTyping ==
  HookTypeOK <=> /\ sh \in [Shell -> ShellState]
             /\ file \in [Governed -> {"none", "user"} \cup Shell]
             /\ faults \in 0..MaxFaults
BY DEF HookTypeOK, ShellState, Phases, Lines, Vars, Owns, Restores, Forwards

LEMMA HookInitInv == HookInit => HookInv
<1> SUFFICES ASSUME HookInit PROVE HookInv
  OBVIOUS
<1>1. HookTypeOK
  <2>1. PICK d \in [Shell -> Dir] :
          sh = [s \in Shell |->
                 [phase |-> "prompt", cwd |-> d[s], hooks |-> TRUE,
                  line |-> "unset", told |-> FALSE,
                  var |-> "absent", own |-> "absent",
                  restore |-> "unset", pids |-> FALSE, forward |-> "none"]]
    BY DEF HookInit
  <2>2. ASSUME NEW s \in Shell PROVE sh[s] \in ShellState
    BY <2>1, HookWords DEF ShellState, Owns
  <2>3. sh \in [Shell -> ShellState]
    BY <2>1, <2>2
  <2>4. file \in [Governed -> {"none", "user"} \cup Shell]
    BY DEF HookInit
  <2>5. faults \in 0..MaxFaults
    BY MaxFaultsNat DEF HookInit
  <2> QED
    BY <2>3, <2>4, <2>5, HookTyping
<1>2. ASSUME NEW s \in Shell
      PROVE  Owned(s) /\ Claimed(s) /\ Env(s) /\ Ids(s)
  <2>1. /\ sh[s].line = "unset" /\ sh[s].var = "absent"
        /\ sh[s].own = "absent" /\ sh[s].restore = "unset"
        /\ sh[s].pids = FALSE /\ sh[s].forward = "none"
    BY DEF HookInit
  <2> QED
    BY <2>1 DEF Owned, Claimed, Env, Ids, Faithful
<1> QED
  BY <1>1, <1>2 DEF HookInv

\* A step of the shell s leaves the other shells alone, and brings no file
\* of the user's.
Alone(s) ==
  /\ \A r \in Shell : r # s => sh'[r] = sh[r]
  /\ file'["top"] = "user" => file["top"] = "user"

LEMMA ByShell ==
  ASSUME HookInv, NEW s \in Shell, HookTypeOK', Alone(s), Owned(s)', Claimed(s)',
         faults' = 0 => faults = 0 /\ Env(s)' /\ Ids(s)'
  PROVE  HookInv'
<1>1. ASSUME NEW r \in Shell, r # s
      PROVE  /\ Owned(r)' /\ Claimed(r)'
             /\ faults' = 0 => Env(r)' /\ Ids(r)'
  <2>1. sh'[r] = sh[r]
    BY <1>1 DEF Alone
  <2>2. Owned(r)' /\ Claimed(r)'
    BY <2>1 DEF HookInv, Alone, Owned, Claimed
  <2>3. ASSUME faults' = 0 PROVE Env(r)' /\ Ids(r)'
    BY <2>1, <2>3 DEF HookInv, Env, Ids, AtPrompt, Faithful
  <2> QED
    BY <2>2, <2>3
<1> QED
  BY <1>1 DEF HookInv

LEMMA HookTypingNext ==
  HookTypeOK' <=> /\ sh' \in [Shell -> ShellState]
              /\ file' \in [Governed -> {"none", "user"} \cup Shell]
              /\ faults' \in 0..MaxFaults
BY DEF HookTypeOK, ShellState, Phases, Lines, Vars, Owns, Restores, Forwards

LEMMA OneShell ==
  ASSUME HookTypeOK, NEW s \in Shell, NEW c \in ShellState,
         sh' = [sh EXCEPT ![s] = c]
  PROVE  /\ sh' \in [Shell -> ShellState]
         /\ \A r \in Shell : r # s => sh'[r] = sh[r]
BY HookTyping

\* A step keeps the types.
LEMMA HookStepTypes ==
  ASSUME HookTypeOK, NEW s \in Shell, Step(s) PROVE HookTypeOK' /\ Alone(s)
<1> DEFINE x == sh[s]
<1>1. /\ x \in ShellState /\ sh \in [Shell -> ShellState]
      /\ file \in [Governed -> {"none", "user"} \cup Shell]
      /\ faults \in 0..MaxFaults
  BY HookTyping
<1>2. ASSUME NEW v \in {"absent", "local", "exported"}, UserSets(s, v)
      PROVE  HookTypeOK' /\ Alone(s)
  <2> DEFINE c == [x EXCEPT !.var = v,
                        !.own = IF x.restore = "unset" THEN v ELSE @]
  <2>1. c \in ShellState
    BY <1>1, <1>2 DEF ShellState, Vars, Owns
  <2>2. sh' = [sh EXCEPT ![s] = c]
    BY <1>1, <1>2 DEF UserSets
  <2>3. /\ file' \in [Governed -> {"none", "user"} \cup Shell]
        /\ file'["top"] = "user" => file["top"] = "user"
        /\ faults' \in 0..MaxFaults
    BY <1>1, <1>2 DEF UserSets
  <2> HIDE DEF c
  <2> QED
    BY <2>1, <2>2, <2>3, OneShell, HookTypingNext DEF Alone
<1>3. ASSUME NEW l \in {"matched", "other"}, SetRefused(s, l)
      PROVE  HookTypeOK' /\ Alone(s)
  <2> DEFINE c == [x EXCEPT !.phase = "command", !.line = l,
                        !.told = FALSE]
  <2>1. c \in ShellState
    BY <1>1, <1>3, HookWords DEF ShellState, Lines
  <2>2. sh' = [sh EXCEPT ![s] = c]
    BY <1>1, <1>3 DEF SetRefused
  <2>3. /\ file' \in [Governed -> {"none", "user"} \cup Shell]
        /\ file'["top"] = "user" => file["top"] = "user"
        /\ faults' \in 0..MaxFaults
    BY <1>1, <1>3 DEF SetRefused
  <2> HIDE DEF c
  <2> QED
    BY <2>1, <2>2, <2>3, OneShell, HookTypingNext DEF Alone
<1>4. ASSUME NEW d \in Dir, ChangeDir(s, d)
      PROVE  HookTypeOK' /\ Alone(s)
  <2> DEFINE c == [x EXCEPT !.cwd = d]
  <2>1. c \in ShellState
    BY <1>1, <1>4 DEF ShellState
  <2>2. sh' = [sh EXCEPT ![s] = c]
    BY <1>1, <1>4 DEF ChangeDir
  <2>3. /\ file' \in [Governed -> {"none", "user"} \cup Shell]
        /\ file'["top"] = "user" => file["top"] = "user"
        /\ faults' \in 0..MaxFaults
    BY <1>1, <1>4 DEF ChangeDir
  <2> HIDE DEF c
  <2> QED
    BY <2>1, <2>2, <2>3, OneShell, HookTypingNext DEF Alone
<1>5. ASSUME NEW l \in {"matched", "other"}, SetNothing(s, l)
      PROVE  HookTypeOK' /\ Alone(s)
  <2> DEFINE c == [x EXCEPT !.phase = "command", !.line = l, !.told = TRUE,
                        !.restore = "unset", !.pids = FALSE,
                        !.forward = Forgotten(s)]
  <2>1. c \in ShellState
    BY <1>1, <1>5, HookWords, HookForwards DEF ShellState, Lines
  <2>2. sh' = [sh EXCEPT ![s] = c]
    BY <1>1, <1>5 DEF SetNothing
  <2>3. /\ file' \in [Governed -> {"none", "user"} \cup Shell]
        /\ file'["top"] = "user" => file["top"] = "user"
        /\ faults' \in 0..MaxFaults
    BY <1>1, <1>5 DEF SetNothing
  <2> HIDE DEF c
  <2> QED
    BY <2>1, <2>2, <2>3, OneShell, HookTypingNext DEF Alone
<1>6. CASE SetOk(s)
  <2> DEFINE c == [x EXCEPT !.phase = "command", !.line = "matched", !.told = TRUE,
                        !.restore = Previous(x.var),
                        !.var = "secret", !.pids = TRUE,
                        !.forward = IF Forgotten(s) = "lost"
                                    THEN "lost" ELSE "held"]
  <2>1. c \in ShellState
    BY <1>1, HookWords, HookForwards DEF ShellState
  <2>2. sh' = [sh EXCEPT ![s] = c]
    BY <1>1, <1>6 DEF SetOk
  <2>3. /\ file' \in [Governed -> {"none", "user"} \cup Shell]
        /\ file'["top"] = "user" => file["top"] = "user"
        /\ faults' \in 0..MaxFaults
    BY <1>1, <1>6, ShellNames DEF SetOk, Governed
  <2> HIDE DEF c
  <2> QED
    BY <2>1, <2>2, <2>3, OneShell, HookTypingNext DEF Alone
<1>7. CASE On(s)
  <2> DEFINE c == [x EXCEPT !.hooks = TRUE, !.phase = "precmd"]
  <2>1. c \in ShellState
    BY <1>1, HookWords DEF ShellState
  <2>2. sh' = [sh EXCEPT ![s] = c]
    BY <1>1, <1>7 DEF On
  <2>3. /\ file' \in [Governed -> {"none", "user"} \cup Shell]
        /\ file'["top"] = "user" => file["top"] = "user"
        /\ faults' \in 0..MaxFaults
    BY <1>1, <1>7 DEF On
  <2> HIDE DEF c
  <2> QED
    BY <2>1, <2>2, <2>3, OneShell, HookTypingNext DEF Alone
<1>8. CASE Off(s)
  <2> DEFINE c == [x EXCEPT !.hooks = FALSE, !.phase = "prompt"]
  <2>1. c \in ShellState
    BY <1>1, HookWords DEF ShellState
  <2>2. sh' = [sh EXCEPT ![s] = c]
    BY <1>1, <1>8 DEF Off
  <2>3. /\ file' \in [Governed -> {"none", "user"} \cup Shell]
        /\ file'["top"] = "user" => file["top"] = "user"
        /\ faults' \in 0..MaxFaults
    BY <1>1, <1>8 DEF Off
  <2> HIDE DEF c
  <2> QED
    BY <2>1, <2>2, <2>3, OneShell, HookTypingNext DEF Alone
<1>9. CASE CommandEnds(s)
  <2> DEFINE c == [x EXCEPT !.phase = "precmd"]
  <2>1. c \in ShellState
    BY <1>1, HookWords DEF ShellState
  <2>2. sh' = [sh EXCEPT ![s] = c]
    BY <1>1, <1>9 DEF CommandEnds
  <2>3. /\ file' \in [Governed -> {"none", "user"} \cup Shell]
        /\ file'["top"] = "user" => file["top"] = "user"
        /\ faults' \in 0..MaxFaults
    BY <1>1, <1>9 DEF CommandEnds
  <2> HIDE DEF c
  <2> QED
    BY <2>1, <2>2, <2>3, OneShell, HookTypingNext DEF Alone
<1>10. CASE NothingToUnset(s)
  <2> DEFINE c == [x EXCEPT !.phase = "prompt"]
  <2>1. c \in ShellState
    BY <1>1, HookWords DEF ShellState
  <2>2. sh' = [sh EXCEPT ![s] = c]
    BY <1>1, <1>10 DEF NothingToUnset
  <2>3. /\ file' \in [Governed -> {"none", "user"} \cup Shell]
        /\ file'["top"] = "user" => file["top"] = "user"
        /\ faults' \in 0..MaxFaults
    BY <1>1, <1>10 DEF NothingToUnset
  <2> HIDE DEF c
  <2> QED
    BY <2>1, <2>2, <2>3, OneShell, HookTypingNext DEF Alone
<1>11. CASE Unset(s)
  <2> DEFINE c == [x EXCEPT !.phase = "prompt", !.line = "unset", !.told = FALSE,
                        !.forward = StoppedForward(s), !.pids = FALSE,
                        !.var = IF x.restore = "unset" THEN @
                                ELSE x.restore,
                        !.restore = "unset"]
  <2>1. c \in ShellState
    <3>1. (IF x.restore = "unset" THEN x.var ELSE x.restore) \in Vars
      BY <1>1, HookWords DEF ShellState
    <3>2. QED BY <1>1, <3>1, HookWords, HookForwards DEF ShellState
  <2>2. sh' = [sh EXCEPT ![s] = c]
    BY <1>1, <1>11 DEF Unset
  <2>3. /\ file' \in [Governed -> {"none", "user"} \cup Shell]
        /\ file'["top"] = "user" => file["top"] = "user"
        /\ faults' \in 0..MaxFaults
    BY <1>1, <1>11 DEF Unset, Governed, Sweeps
  <2> HIDE DEF c
  <2> QED
    BY <2>1, <2>2, <2>3, OneShell, HookTypingNext DEF Alone
<1>12. CASE UnsetFails(s)
  <2> DEFINE c == [x EXCEPT !.phase = "prompt", !.line = "unset", !.told = FALSE,
                        !.forward = StoppedForward(s)]
  <2>1. c \in ShellState
    BY <1>1, HookWords, HookForwards DEF ShellState
  <2>2. sh' = [sh EXCEPT ![s] = c]
    BY <1>1, <1>12 DEF UnsetFails
  <2>3. /\ file' \in [Governed -> {"none", "user"} \cup Shell]
        /\ file'["top"] = "user" => file["top"] = "user"
        /\ faults' \in 0..MaxFaults
    BY <1>1, <1>12, MaxFaultsNat DEF UnsetFails
  <2> HIDE DEF c
  <2> QED
    BY <2>1, <2>2, <2>3, OneShell, HookTypingNext DEF Alone
<1>13. CASE UnsetRefused(s)
  <2> DEFINE c == [x EXCEPT !.phase = "prompt", !.line = "unset", !.told = FALSE]
  <2>1. c \in ShellState
    BY <1>1, HookWords DEF ShellState
  <2>2. sh' = [sh EXCEPT ![s] = c]
    BY <1>1, <1>13 DEF UnsetRefused
  <2>3. /\ file' \in [Governed -> {"none", "user"} \cup Shell]
        /\ file'["top"] = "user" => file["top"] = "user"
        /\ faults' \in 0..MaxFaults
    BY <1>1, <1>13, MaxFaultsNat DEF UnsetRefused
  <2> HIDE DEF c
  <2> QED
    BY <2>1, <2>2, <2>3, OneShell, HookTypingNext DEF Alone
<1>14. CASE OwnLine(s)
  <2> DEFINE c == [x EXCEPT !.phase = "command"]
  <2>1. c \in ShellState
    BY <1>1, HookWords DEF ShellState
  <2>2. sh' = [sh EXCEPT ![s] = c]
    BY <1>1, <1>14 DEF OwnLine
  <2>3. /\ file' \in [Governed -> {"none", "user"} \cup Shell]
        /\ file'["top"] = "user" => file["top"] = "user"
        /\ faults' \in 0..MaxFaults
    BY <1>1, <1>14 DEF OwnLine
  <2> HIDE DEF c
  <2> QED
    BY <2>1, <2>2, <2>3, OneShell, HookTypingNext DEF Alone
<1> QED
  BY <1>2, <1>3, <1>4, <1>5, <1>6, <1>7, <1>8, <1>9,
     <1>10, <1>11, <1>12, <1>13, <1>14 DEF Step

LEMMA HookStepInv == ASSUME HookInv, NEW s \in Shell, Step(s) PROVE HookInv'
<1> USE HookTyping DEF HookInv
<1>t. HookTypeOK' /\ Alone(s)
  BY HookStepTypes
<1> SUFFICES /\ Owned(s)' /\ Claimed(s)'
             /\ faults' = 0 => faults = 0 /\ Env(s)' /\ Ids(s)'
  BY <1>t, ByShell
<1>1. ASSUME NEW v \in {"absent", "local", "exported"}, UserSets(s, v)
      PROVE  /\ Owned(s)' /\ Claimed(s)'
             /\ faults' = 0 => faults = 0 /\ Env(s)' /\ Ids(s)'
  <2>1. Owned(s)' /\ Claimed(s)'
    BY <1>1 DEF UserSets, Owned, Claimed
  <2>2. faults' = 0 => faults = 0 /\ Env(s)' /\ Ids(s)'
    BY <1>1 DEF UserSets, Env, Ids, AtPrompt, Faithful, ShellState, Phases, Lines, Vars, Owns, Restores, Forwards
  <2> QED
    BY <2>1, <2>2
<1>2. ASSUME NEW l \in {"matched", "other"}, SetRefused(s, l)
      PROVE  /\ Owned(s)' /\ Claimed(s)'
             /\ faults' = 0 => faults = 0 /\ Env(s)' /\ Ids(s)'
  <2>1. Owned(s)' /\ Claimed(s)'
    BY <1>2 DEF SetRefused, Owned, Claimed
  <2>2. faults' = 0 => faults = 0 /\ Env(s)' /\ Ids(s)'
    BY <1>2 DEF SetRefused, Env, Ids, AtPrompt, Faithful, ShellState, Phases, Lines, Vars, Owns, Restores, Forwards
  <2> QED
    BY <2>1, <2>2
<1>3. ASSUME NEW d \in Dir, ChangeDir(s, d)
      PROVE  /\ Owned(s)' /\ Claimed(s)'
             /\ faults' = 0 => faults = 0 /\ Env(s)' /\ Ids(s)'
  <2>1. Owned(s)' /\ Claimed(s)'
    BY <1>3 DEF ChangeDir, Owned, Claimed
  <2>2. faults' = 0 => faults = 0 /\ Env(s)' /\ Ids(s)'
    BY <1>3 DEF ChangeDir, Env, Ids, AtPrompt, Faithful, ShellState, Phases, Lines, Vars, Owns, Restores, Forwards
  <2> QED
    BY <2>1, <2>2
<1>4. ASSUME NEW l \in {"matched", "other"}, SetNothing(s, l)
      PROVE  /\ Owned(s)' /\ Claimed(s)'
             /\ faults' = 0 => faults = 0 /\ Env(s)' /\ Ids(s)'
  <2>1. Owned(s)' /\ Claimed(s)'
    BY <1>4 DEF SetNothing, Owned, Claimed
  <2>2. faults' = 0 => faults = 0 /\ Env(s)' /\ Ids(s)'
    BY <1>4 DEF SetNothing, Env, Ids, AtPrompt, Faithful, Forgotten, ShellState, Phases, Lines, Vars, Owns, Restores, Forwards
  <2> QED
    BY <2>1, <2>2
<1>5. CASE SetOk(s)
  <2>1. Owned(s)' /\ Claimed(s)'
    BY <1>5, ShellNames DEF SetOk, Owned, Claimed, Forgotten, Governed
  <2>2. faults' = 0 => faults = 0 /\ Env(s)' /\ Ids(s)'
    BY <1>5 DEF SetOk, Env, Ids, AtPrompt, Faithful, Forgotten, Previous,
                ShellState, Phases, Lines, Vars, Owns, Restores, Forwards
  <2> QED
    BY <2>1, <2>2
<1>6. CASE On(s)
  <2>1. Owned(s)' /\ Claimed(s)'
    BY <1>6 DEF On, Owned, Claimed
  <2>2. faults' = 0 => faults = 0 /\ Env(s)' /\ Ids(s)'
    BY <1>6 DEF On, Env, Ids, AtPrompt, Faithful, ShellState, Phases, Lines, Vars, Owns, Restores, Forwards
  <2> QED
    BY <2>1, <2>2
<1>7. CASE Off(s)
  <2>1. Owned(s)' /\ Claimed(s)'
    BY <1>7 DEF Off, Owned, Claimed
  <2>2. faults' = 0 => faults = 0 /\ Env(s)' /\ Ids(s)'
    BY <1>7 DEF Off, Env, Ids, AtPrompt, Faithful, ShellState, Phases, Lines, Vars, Owns, Restores, Forwards
  <2> QED
    BY <2>1, <2>2
<1>8. CASE CommandEnds(s)
  <2>1. Owned(s)' /\ Claimed(s)'
    BY <1>8 DEF CommandEnds, Owned, Claimed
  <2>2. faults' = 0 => faults = 0 /\ Env(s)' /\ Ids(s)'
    BY <1>8 DEF CommandEnds, Env, Ids, AtPrompt, Faithful, ShellState, Phases, Lines, Vars, Owns, Restores, Forwards
  <2> QED
    BY <2>1, <2>2
<1>9. CASE NothingToUnset(s)
  <2>1. Owned(s)' /\ Claimed(s)'
    BY <1>9 DEF NothingToUnset, Owned, Claimed
  <2>2. faults' = 0 => faults = 0 /\ Env(s)' /\ Ids(s)'
    BY <1>9 DEF NothingToUnset, Env, Ids, AtPrompt, Faithful, ShellState, Phases, Lines, Vars, Owns, Restores, Forwards
  <2> QED
    BY <2>1, <2>2
<1>10. CASE Unset(s)
  <2>1. Owned(s)' /\ Claimed(s)'
    BY <1>10, SMTT(30) DEF Unset, Owned, Claimed
  <2>2. faults' = 0 => faults = 0 /\ Env(s)' /\ Ids(s)'
    BY <1>10 DEF Unset, Env, Ids, AtPrompt, Faithful, StoppedForward,
                 ShellState, Phases, Lines, Vars, Owns, Restores, Forwards
  <2> QED
    BY <2>1, <2>2
<1>11. CASE UnsetFails(s)
  <2>1. Owned(s)' /\ Claimed(s)'
    BY <1>11 DEF UnsetFails, Owned, Claimed
  <2>2. faults' # 0
    BY <1>11, MaxFaultsNat DEF UnsetFails
  <2> QED
    BY <2>1, <2>2
<1>12. CASE UnsetRefused(s)
  <2>1. Owned(s)' /\ Claimed(s)'
    BY <1>12 DEF UnsetRefused, Owned, Claimed
  <2>2. faults' # 0
    BY <1>12, MaxFaultsNat DEF UnsetRefused
  <2> QED
    BY <2>1, <2>2
<1>13. CASE OwnLine(s)
  <2>1. Owned(s)' /\ Claimed(s)'
    BY <1>13 DEF OwnLine, Owned, Claimed
  <2>2. faults' = 0 => faults = 0 /\ Env(s)' /\ Ids(s)'
    BY <1>13 DEF OwnLine, Env, Ids, AtPrompt, Faithful, ShellState, Phases, Lines, Vars, Owns, Restores, Forwards
  <2> QED
    BY <2>1, <2>2
<1> QED
  BY <1>1, <1>2, <1>3, <1>4, <1>5, <1>6, <1>7, <1>8,
     <1>9, <1>10, <1>11, <1>12, <1>13 DEF Step

LEMMA HookAlways == HookSpec => []HookInv
<1>1. HookInv /\ [HookNext]_hookVars => HookInv'
  <2> SUFFICES ASSUME HookInv, [HookNext]_hookVars PROVE HookInv'
    OBVIOUS
  <2>1. CASE HookNext
    BY <2>1, HookStepInv DEF HookNext
  <2>2. CASE UNCHANGED hookVars
    BY <2>2 DEF hookVars, HookInv, HookTypeOK, Owned, Claimed, Env, Ids, AtPrompt,
                Faithful
  <2> QED
    BY <2>1, <2>2
<1> QED
  BY HookInitInv, <1>1, PTL DEF HookSpec

-----------------------------------------------------------------------------
(* The variables of the shells, the files and the count keep their types.  *)
THEOREM HookTyped == HookSpec => []HookTypeOK
<1>1. HookInv => HookTypeOK
  BY DEF HookInv
<1> QED
  BY <1>1, HookAlways, PTL

(* Unless an unset fails, a prompt with the hooks on shows the variable the
   user gave before the line, or without it, but for one not exported. *)
THEOREM EnvIsRestored == HookSpec => []EnvRestored
<1>1. HookInv => EnvRestored
  BY DEF HookInv, Env, AtPrompt, Faithful, EnvRestored
<1> QED
  BY <1>1, HookAlways, PTL

(* No id of a running forward is cleared, none of them outlives its line
   unless an unset fails, and an unset signals those of its own line, where
   the set of that line could read the lade.yml. *)
THEOREM ForwardsAreTracked == HookSpec => []ForwardsTracked
<1>1. HookInv => ForwardsTracked
  <2> SUFFICES ASSUME HookInv, NEW s \in Shell
               PROVE  /\ faults = 0 => sh[s].forward # "lost"
                      /\ faults = 0 /\ AtPrompt(s) => sh[s].forward # "held"
                      /\ sh[s].line # "unset" /\ sh[s].told /\ sh[s].pids =>
                           sh[s].forward # "none"
    BY DEF ForwardsTracked
  <2>1. sh[s].line # "unset" /\ sh[s].told /\ sh[s].pids =>
          sh[s].forward # "none"
    BY DEF HookInv, Owned
  <2>2. ASSUME faults = 0
        PROVE  /\ sh[s].forward # "lost"
               /\ AtPrompt(s) => sh[s].forward # "held"
    BY <2>2 DEF HookInv, Env, Ids
  <2> QED
    BY <2>1, <2>2
<1> QED
  BY <1>1, HookAlways, PTL

(* Whatever fails, a file of the user's is never written over, and where
   the rule stands it is not removed for a line that was given its own. *)
THEOREM UserFileSafe == HookSpec => UserFileTaken
<1>1. ASSUME HookInv, [HookNext]_hookVars, NEW d \in Governed,
             file[d] = "user", file'[d] # "user"
      PROVE  /\ file'[d] = "none"
             /\ \E s \in Shell : /\ Undo(s) /\ sh[s].cwd = d
                                 /\ sh[s].restore = "unset" \/ d # "top"
  <2>1. file' # file
    BY <1>1
  <2>2. PICK s \in Shell : SetOk(s) \/ Unset(s)
    <3>1. PICK s \in Shell : Step(s)
      BY <1>1, <2>1 DEF hookVars, HookNext
    <3>2. /\ ~ \E v \in {"absent", "local", "exported"} : UserSets(s, v)
          /\ ~ \E e \in Dir : ChangeDir(s, e)
          /\ ~ \E l \in {"matched", "other"} : SetRefused(s, l) \/ SetNothing(s, l)
      BY <2>1 DEF UserSets, ChangeDir, SetRefused, SetNothing
    <3> QED
      BY <2>1, <3>1, <3>2
         DEF Step, OwnLine, On, Off, CommandEnds, NothingToUnset, UnsetFails,
             UnsetRefused
  <2>3. ~SetOk(s)
    BY <1>1, ShellNames DEF HookInv, HookTypeOK, SetOk
  <2>4. /\ Undo(s) /\ Sweeps(s)
        /\ file' = [file EXCEPT ![sh[s].cwd] = "none"]
    BY <2>1, <2>2, <2>3 DEF Unset
  <2>5. sh[s].cwd = d /\ file'[d] = "none"
    BY <1>1, <2>4 DEF HookInv, HookTypeOK
  <2>6. sh[s].restore = "unset" \/ d # "top"
    BY <1>1 DEF HookInv, Claimed
  <2> QED
    BY <2>4, <2>5, <2>6
<1>2. HookInv /\ [HookNext]_hookVars =>
        \A d \in Governed : file[d] = "user" /\ file'[d] # "user" =>
          /\ file'[d] = "none"
          /\ \E s \in Shell : /\ Undo(s) /\ sh[s].cwd = d
                              /\ sh[s].restore = "unset" \/ d # "top"
  BY <1>1
<1> QED
  BY <1>2, HookAlways, PTL DEF HookSpec, UserFileTaken
=============================================================================
