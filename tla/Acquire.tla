------------------------------ MODULE Acquire -------------------------------
(***************************************************************************)
(* The life of what one command is given: its secrets and files, and its   *)
(* network forwards.  Three callers acquire them: "inject" and "set"       *)
(* (src/inject.rs), where secrets and network race, and "mcp"              *)
(* (src/access.rs), where they follow one another.                         *)
(*                                                                         *)
(* The network session (src/network/acquire.rs) starts one worker thread   *)
(* per binding and joins them in order.  "inject" and "mcp" hold a forward *)
(* by a guard that stops it when dropped (Forward.tla); "set" detaches it  *)
(* and keeps its process id, for the shell to stop after the command.      *)
(*                                                                         *)
(* A stop is taken for done: of a guard because its drop ends the process, *)
(* of a process id because providers honour SIGTERM.  The main thread ends *)
(* the program without joining or unwinding the others.                    *)
(***************************************************************************)
EXTENDS Naturals

CONSTANTS
  N,      \* the network bindings of the command, in the order of their joins
  Modes   \* the callers considered

ASSUME NPositive == N \in Nat \ {0}
ASSUME ModesKnown == Modes \subseteq {"inject", "set", "mcp"}

Binding == 1..N

VARIABLES
  mode,      \* the caller
  main,      \* where the main thread stands
  secret,    \* the secrets: not asked for, being resolved, or settled
  files,     \* the secret files are on disk
  net,       \* the network session
  joined,    \* how many workers it has joined with success
  worker,    \* the worker of each binding
  forward,   \* the forward of each binding
  exported,  \* the bindings whose process ids went to the shell
  outcome    \* how the program ended

vars == <<mode, main, secret, files, net, joined, worker, forward, exported,
          outcome>>
session == <<net, joined, worker, forward>>

TypeOK ==
  /\ mode \in Modes
  /\ main \in {"race", "awaitNet", "awaitSecret", "hydrate", "network", "stop",
               "decide", "notify", "write", "warn", "command", "sweep",
               "close", "exited"}
  /\ secret \in {"run", "ok", "err", "off"}
  /\ files \in BOOLEAN
  /\ net \in {"idle", "run", "ok", "err"}
  /\ joined \in 0..N
  /\ worker \in [Binding -> {"idle", "prepare", "probe", "ok", "err"}]
  /\ forward \in [Binding -> {"none", "up", "stopped"}]
  /\ exported \in SUBSET Binding
  /\ outcome \in {"none", "done", "failed", "cancelled"}

Init ==
  /\ mode \in Modes
  /\ secret = "run"
  /\ files = FALSE
  /\ joined = 0
  /\ forward = [b \in Binding |-> "none"]
  /\ exported = {}
  /\ outcome = "none"
  /\ IF mode = "mcp"
     THEN /\ main = "hydrate" /\ net = "idle"
          /\ worker = [b \in Binding |-> "idle"]
     ELSE /\ main = "race" /\ net = "run"
          /\ worker = [b \in Binding |-> "prepare"]

Running == main # "exited"

\* The forwards of S that have come up are stopped.
Stopped(S) ==
  [b \in Binding |->
     IF b \in S /\ forward[b] = "up" THEN "stopped" ELSE forward[b]]

-----------------------------------------------------------------------------
(* The workers.                                                            *)

\* The provider tool is found and its process is started.
Spawn(b) ==
  /\ Running /\ worker[b] = "prepare"
  /\ worker' = [worker EXCEPT ![b] = "probe"]
  /\ forward' = [forward EXCEPT ![b] = "up"]
  /\ UNCHANGED <<mode, main, secret, files, net, joined, exported, outcome>>

\* The port answers: the worker reports and returns.
Connected(b) ==
  /\ Running /\ worker[b] = "probe"
  /\ worker' = [worker EXCEPT ![b] = "ok"]
  /\ UNCHANGED <<mode, main, secret, files, net, joined, forward, exported,
                 outcome>>

\* Mutant: a provider that does not get ready is left running.
ConnectFailsLeaving(b) ==
  /\ Running /\ worker[b] \in {"prepare", "probe"}
  /\ worker' = [worker EXCEPT ![b] = "err"]
  /\ UNCHANGED <<mode, main, secret, files, net, joined, forward, exported,
                 outcome>>

\* It cannot be started, or does not get ready in time and is killed.
ConnectFails(b) ==
  /\ Running /\ worker[b] \in {"prepare", "probe"}
  /\ worker' = [worker EXCEPT ![b] = "err"]
  /\ forward' = Stopped({b})
  /\ UNCHANGED <<mode, main, secret, files, net, joined, exported, outcome>>

\* A guard whose session has failed is dropped by the worker that holds it.
DropAbandoned(b) ==
  /\ Running /\ net = "err" /\ mode # "set"
  /\ worker[b] = "ok" /\ forward[b] = "up"
  /\ forward' = Stopped({b})
  /\ UNCHANGED <<mode, main, secret, files, net, joined, worker, exported,
                 outcome>>

Worker(b) == Spawn(b) \/ Connected(b) \/ ConnectFails(b) \/ DropAbandoned(b)

-----------------------------------------------------------------------------
(* The session thread.                                                     *)

\* Mutant: the session is handed over one worker early.
JoinOneEarly ==
  /\ Running /\ net = "run"
  /\ worker[joined + 1] = "ok"
  /\ joined' = joined + 1
  /\ net' = IF joined' >= N - 1 THEN "ok" ELSE "run"
  /\ UNCHANGED <<mode, main, secret, files, worker, forward, exported,
                 outcome>>

Join ==
  /\ Running /\ net = "run"
  /\ worker[joined + 1] = "ok"
  /\ joined' = joined + 1
  /\ net' = IF joined' = N THEN "ok" ELSE "run"
  /\ UNCHANGED <<mode, main, secret, files, worker, forward, exported,
                 outcome>>

\* The first failed worker ends the session.  "set" stops the forwards it
\* has joined.  A guarded session drops their guards, and with the threads'
\* handles the results of those workers that are entirely through.
JoinFailed ==
  /\ Running /\ net = "run"
  /\ worker[joined + 1] = "err"
  /\ net' = "err"
  /\ IF mode = "set"
     THEN forward' = Stopped(1..joined)
     ELSE \E D \in SUBSET {b \in Binding : worker[b] = "ok"} :
            forward' = Stopped(1..joined \cup D)
  /\ UNCHANGED <<mode, main, secret, files, joined, worker, exported, outcome>>

Session == Join \/ JoinFailed

-----------------------------------------------------------------------------
(* The main thread of inject and set: race_provider_tasks.                 *)

\* The secrets are resolved and their files written, in one poll.
SecretOk ==
  /\ main \in {"race", "awaitSecret"}
  /\ secret' = "ok" /\ files' = TRUE
  /\ main' = IF main = "race" THEN "awaitNet" ELSE "stop"
  /\ UNCHANGED <<mode, session, exported, outcome>>

\* No value, or a file that could not be written: none of them is left.
SecretErr ==
  /\ main \in {"race", "awaitSecret"}
  /\ secret' = "err"
  /\ main' = IF main = "race" THEN "awaitNet" ELSE "stop"
  /\ UNCHANGED <<mode, files, session, exported, outcome>>

\* The network is first: its failure ends the wait for the secrets.
NetFirst ==
  /\ main = "race"
  /\ \/ net = "ok" /\ main' = "awaitSecret" /\ UNCHANGED secret
     \/ net = "err" /\ main' = "stop" /\ secret' = "off"
  /\ UNCHANGED <<mode, files, session, exported, outcome>>

\* Mutant: after the secrets only the success of the network is heard.
NetAwaitedOk ==
  /\ main \in {"awaitNet", "network"}
  /\ net = "ok"
  /\ main' = "stop"
  /\ UNCHANGED <<mode, secret, files, session, exported, outcome>>

NetAwaited ==
  /\ main \in {"awaitNet", "network"}
  /\ net \in {"ok", "err"}
  /\ main' = "stop"
  /\ UNCHANGED <<mode, secret, files, session, exported, outcome>>

-----------------------------------------------------------------------------
(* The main thread of mcp: acquire_attached.                               *)

Hydrated ==
  /\ main = "hydrate"
  /\ \/ /\ secret' = "ok" /\ main' = "network" /\ net' = "run"
        /\ worker' = [b \in Binding |-> "prepare"]
        /\ UNCHANGED outcome
     \/ /\ secret' = "err" /\ main' = "exited" /\ outcome' = "failed"
        /\ UNCHANGED <<net, worker>>
  /\ UNCHANGED <<mode, files, joined, forward, exported>>

\* The files come last; without them the forwards are let go.
WriteFiles ==
  /\ main = "write"
  /\ \/ files' = TRUE /\ main' = "command" /\ UNCHANGED outcome
     \/ files' = FALSE /\ main' = "close" /\ outcome' = "failed"
  /\ UNCHANGED <<mode, secret, session, exported>>

-----------------------------------------------------------------------------
(* The main thread, whichever the caller.                                  *)

\* stop_provider_progress joins the renderer, which ends when every worker
\* has dropped its sink.
StopProgress ==
  /\ main = "stop"
  /\ \A b \in Binding : worker[b] \in {"ok", "err"}
  /\ main' = "decide"
  /\ UNCHANGED <<mode, secret, files, session, exported, outcome>>

Ready ==
  /\ main = "decide" /\ secret = "ok" /\ net = "ok"
  /\ main' = IF mode = "mcp" THEN "write" ELSE "warn"
  /\ UNCHANGED <<mode, secret, files, session, exported, outcome>>

\* The guards of a session handed over; dropping a detached one does nothing.
Guarded == IF mode = "set" THEN {} ELSE Binding

\* Mutant: a network failure leaves the files.
FailKeepsFiles ==
  /\ main = "decide" /\ ~(secret = "ok" /\ net = "ok")
  /\ forward' = IF net = "ok" THEN Stopped(Guarded) ELSE forward
  /\ main' = "notify"
  /\ UNCHANGED <<mode, secret, files, net, joined, worker, exported, outcome>>

\* FailedWithFiles, FailedWithNetwork and Failed.
Fail ==
  /\ main = "decide" /\ ~(secret = "ok" /\ net = "ok")
  /\ files' = FALSE
  /\ forward' = IF net = "ok" THEN Stopped(Guarded) ELSE forward
  /\ main' = "notify"
  /\ UNCHANGED <<mode, secret, net, joined, worker, exported, outcome>>

\* The failure is shown, then the program exits.
ExitFailed ==
  /\ main = "notify"
  /\ main' = "exited" /\ outcome' = "failed"
  /\ UNCHANGED <<mode, secret, files, session, exported>>

\* The loader's warnings were shown; set prints what the shell is to export.
Warned ==
  /\ main = "warn"
  /\ IF mode = "set"
     THEN /\ exported' = 1..joined
          /\ main' = "exited" /\ outcome' = "done"
     ELSE main' = "command" /\ UNCHANGED <<exported, outcome>>
  /\ UNCHANGED <<mode, secret, files, session>>

\* sleep_or_cancel: Ctrl-C while the warnings stand on the terminal.
CancelWarning ==
  /\ main = "warn"
  /\ main' = "exited" /\ outcome' = "cancelled"
  /\ UNCHANGED <<mode, secret, files, session, exported>>

\* The command, or the MCP session, ends or could not be run.
CommandEnds ==
  /\ main = "command"
  /\ main' = "sweep"
  /\ outcome' \in {"done", "failed"}
  /\ UNCHANGED <<mode, secret, files, session, exported>>

Sweep ==
  /\ main = "sweep"
  /\ files' = FALSE
  /\ main' = "close"
  /\ UNCHANGED <<mode, secret, session, exported, outcome>>

Close ==
  /\ main = "close"
  /\ forward' = Stopped(Guarded)
  /\ main' = "exited"
  /\ UNCHANGED <<mode, secret, files, net, joined, worker, exported, outcome>>

Settle ==
  \/ SecretOk \/ SecretErr \/ NetFirst \/ NetAwaited \/ Hydrated \/ WriteFiles
  \/ StopProgress \/ Ready \/ Fail
Finish == ExitFailed \/ Warned \/ CommandEnds \/ Sweep \/ Close

Next ==
  \/ Settle \/ Finish \/ CancelWarning \/ Session
  \/ \E b \in Binding : Worker(b)

Spec == Init /\ [][Next]_vars

\* Every thread is scheduled, a probe returns by its timeout, and the command
\* ends.  That a provider call returns is assumed: only scripts have a time
\* limit (ScriptsEnd in Providers).  Nobody has to press Ctrl-C.
FairSpec ==
  /\ Spec
  /\ WF_vars(Settle) /\ WF_vars(Finish) /\ WF_vars(Session)
  /\ \A b \in Binding : WF_vars(Worker(b))

-----------------------------------------------------------------------------
(* Properties.                                                             *)

Exited(how) == main = "exited" /\ outcome = how

\* A program that ends by itself leaves no secret file, whichever of the two
\* tasks failed and whichever was noticed first; only set leaves them, to a
\* shell that will run the command.
NoFileLeft ==
  main = "exited" /\ files =>
    outcome = "cancelled" \/ (mode = "set" /\ outcome = "done")

\* A command is run, or its variables exported, only with all it asked for.
RunsComplete ==
  main = "command" \/ (mode = "set" /\ Exited("done")) =>
    /\ secret = "ok" /\ files
    /\ \A b \in Binding : forward[b] = "up"

\* What set leaves running on success is exactly what the shell can stop.
HandedOver ==
  mode = "set" /\ Exited("done") =>
    exported = {b \in Binding : forward[b] = "up"}

\* A guarded program that ends by itself leaves no forward, but for one whose
\* worker was given up by a session that failed on an earlier binding.
OnlyAbandonedLeft ==
  mode # "set" /\ (Exited("done") \/ Exited("failed")) =>
    \A b \in Binding : forward[b] = "up" => net = "err" /\ b > joined + 1

\* No worker is still at work when the outcome is decided: none of them can
\* bring up a forward behind the back of the cleanup.
Settled ==
  main \in {"decide", "notify", "write", "warn", "command", "sweep", "close"}
    => \A b \in Binding : worker[b] \in {"ok", "err"}

\* The renderer, the workers and the two tasks do not wait for one another
\* for ever.
Ends == <>(main = "exited")
=============================================================================
