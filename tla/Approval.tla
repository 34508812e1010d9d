------------------------------ MODULE Approval -------------------------------
(***************************************************************************)
(* Disclaimers (src/prompt.rs) and the three ways a command meets them: a  *)
(* line of an interactive shell through the hook `lade set`, a command     *)
(* given to `lade inject` or withheld before and given to `lade approve`,  *)
(* and an agent's command, which `lade hook` rewrites to an inject.  A     *)
(* code approves one text of a command for the window of five minutes it   *)
(* was made in and for the next one; it names neither the disclaimers it   *)
(* was shown with nor a directory.  Two codes are taken to be different    *)
(* unless both the text and the window agree.                              *)
(***************************************************************************)
EXTENDS Naturals

CONSTANTS
  Commands,   \* the commands
  Dirs,       \* the directories
  Texts,      \* the disclaimers
  NoText,     \* a rule without one
  Unreadable, \* a lade.yml that is no configuration
  LadeFiles,  \* what lade.yml may say: by directory, a set of rules
  MaxWindow,  \* bound of the clock
  MaxRuns     \* bound of the runs of lade

ASSUME WindowNat == MaxWindow \in Nat /\ MaxRuns \in Nat
ASSUME TextsNamed == NoText \notin Texts
ASSUME SomeCommand == Commands # {}

Audience == {"human", "agent"}
Window == 0..MaxWindow
Rule == [cmd : Commands, when : {"always", "human", "agent"},
         anchored : BOOLEAN, text : Texts \cup {NoText}]

ASSUME FilesAreRules == LadeFiles \subseteq [Dirs -> (SUBSET Rule) \cup {Unreadable}]

(***************************************************************************)
(* A text is a command and the assignment of LADE_APPROVE before it, a     *)
(* code of the command without one.                                        *)
(***************************************************************************)
NoCode == [cmd |-> "none"]
Prefix == [cmd : Commands, window : Window]
Text == [prefix : Prefix \cup {NoCode}, cmd : Commands]
Plain(c) == [prefix |-> NoCode, cmd |-> c]
Code == [text : Text, window : Window]
CodeOf(prefix) == IF prefix = NoCode THEN NoCode
                  ELSE [text |-> Plain(prefix.cmd), window |-> prefix.window]

Actors == {"shell", "agent"}
NoPending == [cmd |-> "none"]

VARIABLES
  config,   \* lade.yml
  approved, \* LADE_DISCLAIMER_APPROVED
  signal,   \* the environment of the shell names an agent
  tty,      \* stdin and stderr of the shell are terminals
  now,      \* the window
  cwd,      \* the directory of the shell
  pending,  \* LADE_PENDING in the shell
  last,     \* the last line of the shell that the hook could judge
  shown,    \* the disclaimers shown, with their codes
  run,      \* the run of lade of each actor
  runs      \* how many there have been

vars == <<config, approved, signal, tty, now, cwd, pending, last, shown, run, runs>>
fixed == <<config, approved, signal, tty>>

Shown == [code : Code, dir : Dirs, audience : Audience, texts : SUBSET Texts]
Line == [text : Text, dir : Dirs, withheld : BOOLEAN]
Idle == [sub |-> "none", at |-> "idle"]
Run == [sub : {"set", "inject", "approve", "hook"},
        at : {"hook", "verify", "gate", "ask", "show", "uncovered", "plain",
              "withheld", "refused", "aborted"},
        text : Text, dir : Dirs, code : Code \cup {NoCode},
        typed : Code \cup {NoCode}, checked : Window, yes : BOOLEAN]

TypeOK ==
  /\ config \in LadeFiles /\ approved \subseteq Texts
  /\ signal \in BOOLEAN /\ tty \in BOOLEAN
  /\ now \in Window /\ cwd \in Dirs
  /\ pending \in [text : Text, dir : Dirs] \cup {NoPending}
  /\ last \in Line \cup {NoPending}
  /\ shown \subseteq Shown
  /\ run \in [Actors -> Run \cup {Idle}]
  /\ runs \in 0..MaxRuns

Init ==
  /\ config \in LadeFiles /\ approved \in SUBSET Texts
  /\ signal \in BOOLEAN /\ tty \in BOOLEAN
  /\ now = 0 /\ cwd \in Dirs
  /\ pending = NoPending /\ last = NoPending /\ shown = {}
  /\ run = [p \in Actors |-> Idle] /\ runs = 0

----------------------------------------------------------------------------
\* audience::detect.  The hooks stamp what they start.
AudienceOf(p) ==
  IF run[p].sub # "set" /\ (p = "agent" \/ signal) THEN "agent" ELSE "human"
Interactive(p) ==
  run[p].sub \in {"inject", "approve"} /\ tty /\ AudienceOf(p) = "human"

Applies(rule, audience) == rule.when \in {"always", audience}

\* The rules for a text: a pattern that is anchored at its beginning does not
\* match behind an assignment.
RulesFor(dir, text, audience) ==
  {r \in config[dir] : /\ r.cmd = text.cmd
                       /\ r.anchored => text.prefix = NoCode
                       /\ Applies(r, audience)}
Disclaimers(rules) == {t \in Texts : \E r \in rules : r.text = t}

RulesOf(p) == RulesFor(run[p].dir, run[p].text, AudienceOf(p))

\* Mutant: a code is good for one more window.
VerifyOneMore(text, code) ==
  code # NoCode /\ code.text = text /\ code.window <= now /\ now <= code.window + 2

\* A code of this window or of the one before, for this text.
Verify(text, code) ==
  code # NoCode /\ code.text = text /\ (code.window = now \/ code.window + 1 = now)

IsApproved(text, code, texts) == Verify(text, code) \/ texts \subseteq approved

\* How the run before has ended.
Over(p) == run[p].at \in {"idle", "uncovered", "plain", "withheld", "refused", "aborted"}

\* Whatever it was started for, lade gives up on a lade.yml it cannot read,
\* before it has printed anything for the shell.
Starts(p, sub, at, text, dir, code, typed) ==
  /\ Over(p) /\ runs < MaxRuns
  /\ runs' = runs + 1
  /\ run' = [run EXCEPT ![p] =
       [sub |-> sub, at |-> IF config[dir] = Unreadable THEN "refused" ELSE at,
        text |-> text, dir |-> dir, code |-> code, typed |-> typed,
        checked |-> now, yes |-> FALSE]]
  /\ UNCHANGED <<fixed, now, cwd, pending, last, shown>>

\* Where people have their codes from.
CodesSeen == {s.code : s \in shown}
PrefixesSeen == {[cmd |-> c.text.cmd, window |-> c.window] :
                   c \in {d \in CodesSeen : d.text.prefix = NoCode}}

\* preexec_lade.  The assignment before a command is part of its text, and
\* is not in the environment of the hook.
EnterLine(cmd, prefix) ==
  Starts("shell", "set", "gate", [prefix |-> prefix, cmd |-> cmd], cwd, NoCode, CodeOf(prefix))

\* A line that begins with "lade " has no hook.  The prefix is for a shell
\* without hooks.
TypeInject(cmd, prefix) ==
  Starts("shell", "inject", "gate", Plain(cmd), cwd, CodeOf(prefix), CodeOf(prefix))
TypeApprove(code) ==
  Starts("shell", "approve", "verify", Plain(CHOOSE c \in Commands : TRUE), cwd, NoCode, code)

\* The command of an agent in a directory.
AgentRuns(cmd, dir, prefix) ==
  Starts("agent", "hook", "hook", [prefix |-> prefix, cmd |-> cmd], dir, NoCode, CodeOf(prefix))

Moves(p, at) == run' = [run EXCEPT ![p].at = at]

\* lade hook: the assignments stay before the inject, and are no part of the
\* text.  A second hook leaves the rewritten command alone.
Rewrite(p) ==
  /\ run[p].at = "hook"
  /\ LET command == Plain(run[p].text.cmd)
     IN  IF RulesFor(run[p].dir, command, "agent") = {}
         THEN Moves(p, "plain")
         ELSE run' = [run EXCEPT ![p] = [@ EXCEPT
                !.sub = "inject", !.at = "gate", !.text = command,
                !.code = run[p].typed]]
  /\ UNCHANGED <<fixed, now, cwd, pending, last, shown, runs>>

\* Mutant: the directory of the pending line is not compared.
AcceptsAnywhere(p) ==
  /\ run[p].typed # NoCode /\ pending # NoPending
  /\ Verify(pending.text, run[p].typed)

\* handle_approve: only what is pending, where it was, and with its code.
Accepts(p) ==
  /\ run[p].typed # NoCode /\ pending # NoPending
  /\ pending.dir = run[p].dir
  /\ Verify(pending.text, run[p].typed)

\* Mutant: the code verified is not handed on to the gate.
VerifyPendingOnly(p) ==
  /\ run[p].at = "verify"
  /\ IF Accepts(p)
     THEN run' = [run EXCEPT ![p].at = "gate", ![p].text = pending.text]
     ELSE Moves(p, "refused")
  /\ UNCHANGED <<fixed, now, cwd, pending, last, shown, runs>>

VerifyPending(p) ==
  /\ run[p].at = "verify"
  /\ IF Accepts(p)
     THEN run' = [run EXCEPT ![p] = [@ EXCEPT
            !.at = "gate", !.text = pending.text, !.code = run[p].typed]]
     ELSE Moves(p, "refused")
  /\ UNCHANGED <<fixed, now, cwd, pending, last, shown, runs>>

\* Mutant: a line that has its secrets leaves what was pending before.
EvaluatesKeeping(p, withheld) ==
  IF run[p].sub = "set"
  THEN /\ pending' = IF withheld THEN [text |-> run[p].text, dir |-> run[p].dir] ELSE pending
       /\ last' = [text |-> run[p].text, dir |-> run[p].dir, withheld |-> withheld]
  ELSE UNCHANGED <<pending, last>>

\* What the shell evaluates when `lade set` has judged a line: the line before
\* is forgotten, whether this one is withheld or not.
Evaluates(p, withheld) ==
  IF run[p].sub = "set"
  THEN /\ pending' = IF withheld THEN [text |-> run[p].text, dir |-> run[p].dir] ELSE NoPending
       /\ last' = [text |-> run[p].text, dir |-> run[p].dir, withheld |-> withheld]
  ELSE UNCHANGED <<pending, last>>

\* run_inject and handle_set up to the secrets.
Gate(p) ==
  /\ run[p].at = "gate"
  /\ LET texts == Disclaimers(RulesOf(p))
         next  == CASE RulesOf(p) = {} -> "plain"
                    [] RulesOf(p) # {} /\ IsApproved(run[p].text, run[p].code, texts)
                         -> "uncovered"
                    [] OTHER -> IF Interactive(p) THEN "ask" ELSE "show"
     IN  /\ run' = [run EXCEPT ![p].at = next, ![p].checked = now]
         /\ IF next \in {"plain", "uncovered"} THEN Evaluates(p, FALSE)
            ELSE UNCHANGED <<pending, last>>
  /\ UNCHANGED <<fixed, now, cwd, shown, runs>>

\* The code shown is made from a clock of its own.
Withhold(p) ==
  /\ run[p].at = "show"
  /\ Moves(p, "withheld")
  /\ shown' = shown \cup {[code |-> [text |-> run[p].text, window |-> now],
                           dir |-> run[p].dir, audience |-> AudienceOf(p),
                           texts |-> Disclaimers(RulesOf(p))]}
  /\ Evaluates(p, TRUE)
  /\ UNCHANGED <<fixed, now, cwd, runs>>

\* "yes", or anything else and the end of the input; Ctrl-C ends it too.
Answers(p, yes) ==
  /\ run[p].at = "ask"
  /\ run' = [run EXCEPT ![p].at = IF yes THEN "uncovered" ELSE "aborted", ![p].yes = yes]
  /\ UNCHANGED <<fixed, now, cwd, pending, last, shown, runs>>

Cd(dir) ==
  /\ Over("shell") /\ dir # cwd
  /\ cwd' = dir
  /\ UNCHANGED <<fixed, now, pending, last, shown, run, runs>>

Tick ==
  /\ now < MaxWindow
  /\ now' = now + 1
  /\ UNCHANGED <<fixed, cwd, pending, last, shown, run, runs>>

People ==
  \/ \E c \in Commands, x \in PrefixesSeen \cup {NoCode} :
       EnterLine(c, x) \/ TypeInject(c, x) \/ \E d \in Dirs : AgentRuns(c, d, x)
  \/ \E code \in CodesSeen \cup {NoCode} : TypeApprove(code)
  \/ \E d \in Dirs : Cd(d)

Lade(p) ==
  \/ Rewrite(p) \/ VerifyPending(p) \/ Gate(p) \/ Withhold(p)
  \/ Answers(p, TRUE) \/ Answers(p, FALSE)

Next == People \/ Tick \/ \E p \in Actors : Lade(p)

Spec == Init /\ [][Next]_vars

----------------------------------------------------------------------------
Asks(p) == Disclaimers(RulesOf(p)) \ approved

(***************************************************************************)
(* No secret is uncovered behind a disclaimer unless somebody typed "yes"  *)
(* under it, or a code was shown for that very text, no longer ago than in *)
(* the window before: neither a code of another command, nor one kept from *)
(* earlier, nor one of the window to come opens anything.  Where the same  *)
(* audience was shown the code, all that is not approved for good was      *)
(* shown with it; elsewhere it opens other disclaimers of the command too. *)
(***************************************************************************)
Fresh(p, s) == /\ s.code.text = run[p].text
               /\ run[p].checked \in s.code.window..(s.code.window + 1)
FreshConsent ==
  \A p \in Actors : run[p].at = "uncovered" /\ Asks(p) # {} /\ ~run[p].yes =>
    /\ \E s \in shown : Fresh(p, s)
    /\ \A s \in shown : Fresh(p, s) /\ s.dir = run[p].dir /\ s.audience = AudienceOf(p) =>
         Asks(p) \subseteq s.texts

(***************************************************************************)
(* What `lade approve` uncovers for a human was shown to a human before,   *)
(* every disclaimer of it, however the shell has moved, and whoever else   *)
(* was shown the same code.                                                *)
(***************************************************************************)
ApprovedAsShown ==
  \A p \in Actors :
    run[p].at = "uncovered" /\ run[p].sub = "approve" /\ AudienceOf(p) = "human" /\ ~run[p].yes =>
      \E s \in shown : s.code.text = run[p].text /\ Disclaimers(RulesOf(p)) \subseteq s.texts
                         /\ s.audience = "human"

(***************************************************************************)
(* `lade approve` runs the last line that the hooks could judge or         *)
(* nothing, only if that line was denied its secrets, and where it was     *)
(* entered.  A line entered under a lade.yml that cannot be read is not    *)
(* judged, and the one before it stays pending.                            *)
(***************************************************************************)
ApprovesLastLine ==
  \A p \in Actors : run[p].sub = "approve" /\ run[p].at \notin {"verify", "refused"} =>
    last = [text |-> run[p].text, dir |-> run[p].dir, withheld |-> TRUE]

(***************************************************************************)
(* A code that was shown works: a command run again with its code, by      *)
(* `lade approve`, by `lade inject` or by an agent, meets no disclaimer a  *)
(* second time unless the code ran out by then.  approve looks at the      *)
(* clock twice, and may find it running out in between.                    *)
(***************************************************************************)
Honoured(p, cmd) ==
  run[p].at \in {"ask", "show", "withheld"} /\ run[p].typed # NoCode /\ run[p].typed.text = cmd =>
    run[p].typed.window + 1 < run[p].checked
CodeHonoured ==
  \A p \in Actors : /\ run[p].sub = "inject" => Honoured(p, Plain(run[p].text.cmd))
                    /\ run[p].sub = "approve" => Honoured(p, run[p].text)
=============================================================================
