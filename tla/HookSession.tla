---------------------------- MODULE HookSession -----------------------------
(***************************************************************************)
(* Interactive shells with lade's hooks (scripts/on.*: preexec_lade and    *)
(* precmd_lade; handle_set and handle_unset in src/inject.rs).  Before a   *)
(* line is run the shell evaluates what "lade set" prints, after it what   *)
(* "lade unset" prints.  All that passes from one to the other is in the   *)
(* shell's own variables; the secret files and the forwards are outside.   *)
(*                                                                         *)
(* One lade.yml stands in the directory "top", of which "sub" is a part    *)
(* and "out" is not.  A matching line gets a variable, a file next to the  *)
(* lade.yml, and a forward.  Two shells share the directories.             *)
(***************************************************************************)
EXTENDS Naturals

CONSTANTS
  Shell,      \* the interactive shells
  MaxFaults   \* bound on the calls of "lade unset" that fail

ASSUME MaxFaultsNat == MaxFaults \in Nat
ASSUME ShellNames == Shell \cap {"none", "user"} = {}

Dir == {"top", "sub", "out"}
Governed == {"top", "sub"}   \* where the lade.yml of "top" is found

VARIABLES
  sh,     \* each shell: where it stands and its variables
  file,   \* by directory, who wrote the file the rule names, if it exists
  faults  \* calls of "lade unset" that have failed

hookVars == <<sh, file, faults>>

(* Of a shell:                                                             *)
(*   phase    at the prompt, in a command, or about to show the prompt     *)
(*   cwd      its directory                                                *)
(*   hooks    the hooks are installed                                      *)
(*   line     LADE: the line set was called for, if any                    *)
(*   told     set has printed something for that line                      *)
(*   var      the variable the rule binds: absent, a shell variable of the *)
(*            user's, an exported one, or lade's secret                    *)
(*   own      what the user gave it last, other than while LADE_RESTORE    *)
(*            was set, as in a line that has the secret itself             *)
(*   restore  LADE_RESTORE: what the variable is to become again           *)
(*   pids     LADE_NETWORK_PIDS is set                                     *)
(*   forward  a forward runs: its pid is in pids, or it is lost            *)

HookTypeOK ==
  /\ sh \in [Shell ->
       [phase: {"prompt", "command", "precmd"}, cwd: Dir, hooks: BOOLEAN,
        line: {"unset", "matched", "other"}, told: BOOLEAN,
        var: {"absent", "local", "exported", "secret"},
        own: {"absent", "local", "exported"},
        restore: {"unset", "absent", "exported", "secret"},
        pids: BOOLEAN, forward: {"none", "held", "lost"}]]
  /\ file \in [Governed -> {"none", "user"} \cup Shell]
  /\ faults \in 0..MaxFaults

HookInit ==
  /\ \E d \in [Shell -> Dir] :
       sh = [s \in Shell |->
              [phase |-> "prompt", cwd |-> d[s], hooks |-> TRUE,
               line |-> "unset", told |-> FALSE,
               var |-> "absent", own |-> "absent",
               restore |-> "unset", pids |-> FALSE, forward |-> "none"]]
  /\ file \in [Governed -> {"none", "user"}]
  /\ faults = 0

-----------------------------------------------------------------------------
(* What the user does.  With the hooks on it is part of a line; without    *)
(* them a line is just run.                                                *)

Free(s) ==
  \/ sh[s].phase = "command"
  \/ sh[s].phase = "prompt" /\ ~sh[s].hooks

\* The user sets, exports or unsets the variable.
UserSets(s, v) ==
  /\ Free(s)
  /\ sh' = [sh EXCEPT ![s].var = v,
              ![s].own = IF sh[s].restore = "unset" THEN v ELSE @]
  /\ UNCHANGED <<file, faults>>

ChangeDir(s, d) ==
  /\ Free(s)
  /\ sh' = [sh EXCEPT ![s].cwd = d]
  /\ UNCHANGED <<file, faults>>

\* Mutant: the hooks come back without looking at the line still open.
OnQuiet(s) ==
  /\ sh[s].phase = "prompt" /\ ~sh[s].hooks
  /\ sh' = [sh EXCEPT ![s].hooks = TRUE]
  /\ UNCHANGED <<file, faults>>

\* "lade on": the prompt that follows already runs precmd_lade.
On(s) ==
  /\ sh[s].phase = "prompt" /\ ~sh[s].hooks
  /\ sh' = [sh EXCEPT ![s].hooks = TRUE, ![s].phase = "precmd"]
  /\ UNCHANGED <<file, faults>>

-----------------------------------------------------------------------------
(* preexec_lade: a line was entered.                                       *)

\* A line that begins with "lade" is not for set, nor for unset.
OwnLine(s) ==
  /\ sh[s].phase = "prompt" /\ sh[s].hooks
  /\ sh' = [sh EXCEPT ![s].phase = "command"]
  /\ UNCHANGED <<file, faults>>

\* The lade.yml cannot be read where the line begins, or the shell is not
\* known: set ends before it prints, so that nothing is cleared.
SetRefused(s, line) ==
  /\ sh[s].phase = "prompt" /\ sh[s].hooks
  /\ sh' = [sh EXCEPT ![s].phase = "command", ![s].line = line,
              ![s].told = FALSE]
  /\ UNCHANGED <<file, faults>>

\* Clearing the pids of a forward that still runs loses it.
Forgotten(s) == IF sh[s].forward = "held" THEN "lost" ELSE sh[s].forward

\* What an earlier line has left is cleared, then no rule is found for the
\* line, its disclaimer is not approved, or its secrets, files or forwards
\* cannot be had.  The line is run all the same.
\* The forwards a failed set may leave behind are the concern of Acquire.
SetNothing(s, line) ==
  /\ sh[s].phase = "prompt" /\ sh[s].hooks
  /\ sh' = [sh EXCEPT ![s].phase = "command", ![s].line = line,
              ![s].told = TRUE, ![s].restore = "unset", ![s].pids = FALSE,
              ![s].forward = Forgotten(s)]
  /\ UNCHANGED <<file, faults>>

\* stamp_preexec reads the environment: it does not see a shell variable
\* that is not exported.
Previous(v) == IF v = "local" THEN "absent" ELSE v

\* Mutant: the file is written over another.
SetOver(s) ==
  /\ sh[s].phase = "prompt" /\ sh[s].hooks
  /\ sh[s].cwd \in Governed
  /\ file' = [file EXCEPT !["top"] = s]
  /\ sh' = [sh EXCEPT ![s].phase = "command", ![s].line = "matched",
              ![s].told = TRUE, ![s].restore = Previous(sh[s].var),
              ![s].var = "secret",
              ![s].pids = TRUE,
              ![s].forward = IF Forgotten(s) = "lost" THEN "lost" ELSE "held"]
  /\ UNCHANGED faults

\* The file must not exist; the path is the rule's directory and the name.
SetOk(s) ==
  /\ sh[s].phase = "prompt" /\ sh[s].hooks
  /\ sh[s].cwd \in Governed
  /\ file["top"] = "none"
  /\ file' = [file EXCEPT !["top"] = s]
  /\ sh' = [sh EXCEPT ![s].phase = "command", ![s].line = "matched",
              ![s].told = TRUE, ![s].restore = Previous(sh[s].var),
              ![s].var = "secret",
              ![s].pids = TRUE,
              ![s].forward = IF Forgotten(s) = "lost" THEN "lost" ELSE "held"]
  /\ UNCHANGED faults

-----------------------------------------------------------------------------
(* The line is run.                                                        *)

\* A line can contain "lade off", or be it: the hooks are gone before
\* precmd_lade could run, and what follows is as at a prompt without them.
Off(s) ==
  /\ sh[s].phase = "command"
  /\ sh' = [sh EXCEPT ![s].hooks = FALSE, ![s].phase = "prompt"]
  /\ UNCHANGED <<file, faults>>

CommandEnds(s) ==
  /\ sh[s].phase = "command"
  /\ sh' = [sh EXCEPT ![s].phase = "precmd"]
  /\ UNCHANGED <<file, faults>>

-----------------------------------------------------------------------------
(* precmd_lade.                                                            *)

NothingToUnset(s) ==
  /\ sh[s].phase = "precmd" /\ sh[s].line = "unset"
  /\ sh' = [sh EXCEPT ![s].phase = "prompt"]
  /\ UNCHANGED <<file, faults>>

\* The rules are matched again, now where the line has ended, and the file
\* is looked for there.
Sweeps(s) == sh[s].line = "matched" /\ sh[s].cwd \in Governed

Undo(s) == sh[s].phase = "precmd" /\ sh[s].line # "unset"

StoppedForward(s) ==
  IF sh[s].pids /\ sh[s].forward = "held" THEN "none" ELSE sh[s].forward

\* Mutant: only a line that still matches is undone.
UnsetByRules(s) ==
  /\ Undo(s)
  /\ IF Sweeps(s)
     THEN /\ file' = [file EXCEPT ![sh[s].cwd] = "none"]
          /\ sh' = [sh EXCEPT ![s].phase = "prompt",
                     ![s].line = "unset", ![s].told = FALSE,
                      ![s].forward = StoppedForward(s), ![s].pids = FALSE,
                      ![s].var = IF sh[s].restore = "unset" THEN @
                                 ELSE sh[s].restore,
                      ![s].restore = "unset"]
     ELSE /\ file' = file
          /\ sh' = [sh EXCEPT ![s].phase = "prompt", ![s].line = "unset",
                      ![s].told = FALSE]
  /\ UNCHANGED faults

\* Mutant: there is always a snapshot to restore.
UnsetBlind(s) ==
  /\ Undo(s)
  /\ file' = IF Sweeps(s) THEN [file EXCEPT ![sh[s].cwd] = "none"] ELSE file
  /\ sh' = [sh EXCEPT ![s].phase = "prompt",
              ![s].line = "unset", ![s].told = FALSE,
              ![s].forward = StoppedForward(s), ![s].pids = FALSE,
              ![s].var = sh[s].restore, ![s].restore = "unset"]
  /\ UNCHANGED faults

Unset(s) ==
  /\ Undo(s)
  /\ file' = IF Sweeps(s) THEN [file EXCEPT ![sh[s].cwd] = "none"] ELSE file
  /\ sh' = [sh EXCEPT ![s].phase = "prompt",
              ![s].line = "unset", ![s].told = FALSE,
              ![s].forward = StoppedForward(s), ![s].pids = FALSE,
              ![s].var = IF sh[s].restore = "unset" THEN @
                         ELSE sh[s].restore,
              ![s].restore = "unset"]
  /\ UNCHANGED faults

\* The file cannot be removed: nothing is printed, so nothing is restored.
UnsetFails(s) ==
  /\ Undo(s) /\ Sweeps(s) /\ file[sh[s].cwd] # "none"
  /\ faults < MaxFaults
  /\ faults' = faults + 1
  /\ sh' = [sh EXCEPT ![s].phase = "prompt",
              ![s].line = "unset", ![s].told = FALSE,
              ![s].forward = StoppedForward(s)]
  /\ UNCHANGED file

\* The lade.yml cannot be read where the line has ended: not even the
\* forwards are stopped.
UnsetRefused(s) ==
  /\ Undo(s)
  /\ faults < MaxFaults
  /\ faults' = faults + 1
  /\ sh' = [sh EXCEPT ![s].phase = "prompt", ![s].line = "unset",
              ![s].told = FALSE]
  /\ UNCHANGED file

-----------------------------------------------------------------------------
Step(s) ==
  \/ \E v \in {"absent", "local", "exported"} : UserSets(s, v)
  \/ \E d \in Dir : ChangeDir(s, d)
  \/ \E l \in {"matched", "other"} : SetRefused(s, l) \/ SetNothing(s, l)
  \/ OwnLine(s) \/ SetOk(s) \/ On(s) \/ Off(s) \/ CommandEnds(s) \/ NothingToUnset(s)
  \/ Unset(s) \/ UnsetFails(s) \/ UnsetRefused(s)

HookNext == \E s \in Shell : Step(s)

HookSpec == HookInit /\ [][HookNext]_hookVars

-----------------------------------------------------------------------------
(* Properties.                                                             *)

AtPrompt(s) == sh[s].phase = "prompt" /\ sh[s].hooks

\* Back at the prompt the variable is the user's again, wherever the line
\* went, whatever set did of it, and though hooks went off and on meanwhile.
\* Two things are lost: a value that was not exported, and what the user gave
\* the variable between set and unset, such as by a line that got the secret
\* and assigns the variable itself.  It is then as it was before that line.
EnvRestored ==
  faults = 0 => \A s \in Shell : AtPrompt(s) =>
    \/ sh[s].var = sh[s].own
    \/ sh[s].own = "local" /\ sh[s].var = "absent"

\* The forwards and what the shell knows of them go together: the id of a
\* running forward is never cleared, and back at the prompt none of them
\* runs, unless an unset has failed.  Whatever failed, the ids the next unset
\* will signal are those of its own line, not what an unset that failed has
\* left; but for a line of which set could not even read the lade.yml.
ForwardsTracked ==
  \A s \in Shell :
    /\ faults = 0 => sh[s].forward # "lost"
    /\ faults = 0 /\ AtPrompt(s) => sh[s].forward # "held"
    /\ sh[s].line # "unset" /\ sh[s].told /\ sh[s].pids =>
         sh[s].forward # "none"

\* A file of the user's is overwritten by none.  It is removed, by unset,
\* only for a line whose set had failed, as it does when the file exists, or
\* for one that ended in another directory than that of the rule: a line
\* that was given its own file and stayed leaves those of the user alone.
UserFileTaken ==
  [][\A d \in Governed : file[d] = "user" /\ file'[d] # "user" =>
       /\ file'[d] = "none"
       /\ \E s \in Shell : /\ Undo(s) /\ sh[s].cwd = d
                           /\ sh[s].restore = "unset" \/ d # "top"]_hookVars
=============================================================================
