------------------------------ MODULE Forward -------------------------------
(***************************************************************************)
(* A supervised network forward, RunningForward in src/network/process.rs: *)
(* the owner, who constructs it, holds it while the command runs and drops *)
(* it; the supervisor thread, which starts the provider process, probes    *)
(* its port, waits for its end and starts it again; and the process, which *)
(* may start another in its session that outlives it.                      *)
(*                                                                         *)
(* The two threads share the flag "shutdown", the number "childPid" and    *)
(* two channels.  Each access to them is a step of its own.  Durations are *)
(* abstracted: a timed wait may end at any moment, and the startup         *)
(* deadline passes once.                                                   *)
(*                                                                         *)
(* ForwardInit, ForwardNext and ForwardSpec are so named for modules that  *)
(* extend this one and that of its owner.                                  *)
(***************************************************************************)
EXTENDS Integers

CONSTANTS
  Pid,        \* ids of processes and groups; given out again after use
  MaxFaults   \* bound on the crashes and failed starts of one behaviour

NoPid == 0

ASSUME PidPositive == Pid \subseteq Nat \ {NoPid}
ASSUME PidsEnough == \A p \in Pid : Pid # {p}
ASSUME MaxFaultsNat == MaxFaults \in Nat

VARIABLES
  own,       \* where the owner stands
  sup,       \* where the supervisor stands
  shutdown,  \* the flag set by drop
  childPid,  \* the process id the supervisor publishes, or NoPid
  target,    \* the process id drop has read
  messages,  \* messages in the shutdown channel
  ready,     \* the content of the readiness channel
  readySent, \* the supervisor's note that it has announced readiness
  child,     \* the provider process started last
  helper,    \* a process of its group that holds its pipes open
  stranger,  \* the id of a group that is none of lade's, or NoPid
  foreign,   \* another process listens on the port
  late,      \* the startup deadline has passed
  faults     \* crashes and failed starts so far

forwardVars == <<own, sup, shutdown, childPid, target, messages, ready,
                 readySent, child, helper, stranger, foreign, late, faults>>
ownerVars == <<own, shutdown, target>>
supVars == <<sup, childPid, ready, readySent>>
worldVars == <<stranger, foreign, late, faults>>
provider == <<child, helper>>

Alive == {"starting", "listening"}

ForwardTypeOK ==
  /\ own \in {"new", "failed", "held", "flagged", "sent", "loaded", "join",
              "dropped"}
  /\ sup \in {"top", "spawn", "probe", "connect", "stop", "store", "announce",
              "reap", "wait", "clear", "drain", "after", "backoff", "exited"}
  /\ shutdown \in BOOLEAN
  /\ childPid \in Pid \cup {NoPid}
  /\ target \in Pid \cup {NoPid}
  /\ messages \in {0, 1}
  /\ ready \in {"none", "ok", "err"}
  /\ readySent \in BOOLEAN
  /\ child \in [pid: Pid \cup {NoPid}, termed: BOOLEAN,
                status: Alive \cup {"none", "dead", "reaped"}]
  /\ helper \in {"none", "running", "termed"}
  /\ stranger \in Pid \cup {NoPid}
  /\ foreign \in BOOLEAN
  /\ late \in BOOLEAN
  /\ faults \in 0..MaxFaults

ForwardInit ==
  /\ own = "new"
  /\ sup = "top"
  /\ shutdown = FALSE
  /\ childPid = NoPid
  /\ target = NoPid
  /\ messages = 0
  /\ ready = "none"
  /\ readySent = FALSE
  /\ child = [pid |-> NoPid, status |-> "none", termed |-> FALSE]
  /\ helper = "none"
  /\ stranger \in Pid \cup {NoPid}
  /\ foreign \in BOOLEAN
  /\ late = FALSE
  /\ faults = 0

-----------------------------------------------------------------------------
(* The supervisor thread.                                                  *)

\* The head of the loop.  (Before readiness nobody can have set the flag,
\* so the error the code would announce here is out of reach.)
Top ==
  /\ sup = "top"
  /\ sup' = IF shutdown THEN "exited" ELSE "spawn"
  /\ UNCHANGED <<ownerVars, childPid, messages, ready, readySent, provider,
                 worldVars>>

SpawnOk ==
  /\ sup = "spawn"
  /\ \E p \in Pid \ {stranger} :
       child' = [pid |-> p, status |-> "starting", termed |-> FALSE]
  /\ sup' = "probe"
  /\ UNCHANGED <<ownerVars, helper, childPid, messages, ready, readySent, worldVars>>

\* The command cannot be built or started.
SpawnErr ==
  /\ sup = "spawn"
  /\ faults < MaxFaults
  /\ faults' = faults + 1
  /\ IF ~readySent /\ late
     THEN ready' = "err" /\ sup' = "exited"
     ELSE ready' = ready /\ sup' = "backoff"
  /\ UNCHANGED <<ownerVars, childPid, messages, readySent, provider, stranger,
                 foreign, late>>

\* wait_forward_ready, first half of a round: try_wait reaps a dead process.
ProbeExit ==
  /\ sup = "probe"
  /\ IF child.status = "dead"
     THEN child' = [child EXCEPT !.status = "reaped"] /\ sup' = "stop"
     ELSE child' = child /\ sup' = "connect"
  /\ UNCHANGED <<ownerVars, helper, childPid, messages, ready, readySent, worldVars>>

PortOpen == foreign \/ child.status = "listening"

\* Second half: the port answers, or the deadline has passed, or a shutdown
\* message arrives, or the next round begins.
ProbePort ==
  /\ sup = "connect"
  /\ \/ /\ PortOpen
        /\ sup' = "store"
        /\ UNCHANGED messages
     \/ /\ ~PortOpen /\ late
        /\ sup' = "stop"
        /\ UNCHANGED messages
     \/ /\ ~PortOpen /\ ~late /\ messages > 0
        /\ messages' = messages - 1
        /\ sup' = "stop"
     \/ /\ ~PortOpen /\ ~late /\ messages = 0
        /\ sup' = "probe"
        /\ UNCHANGED messages
  /\ UNCHANGED <<ownerVars, childPid, ready, readySent, provider, worldVars>>

\* killpg reaches what is left of the group of an id.
Reached(id) == id # NoPid /\ id = child.pid
Asked(id) == [child EXCEPT !.termed = @ \/ (Reached(id) /\ child.status \in Alive)]
HelperAsked(id) ==
  IF Reached(id) /\ helper = "running" THEN "termed" ELSE helper

\* stop_child, first SIGTERM to the group, though try_wait may have reaped
\* the process and its id be another's.
Stop ==
  /\ sup = "stop"
  /\ child' = Asked(child.pid)
  /\ helper' = HelperAsked(child.pid)
  /\ sup' = "reap"
  /\ UNCHANGED <<ownerVars, childPid, messages, ready, readySent, worldVars>>

\* Mutant: SIGTERM only, and no wait.
ReapNothing ==
  /\ sup = "reap"
  /\ sup' = "clear"
  /\ UNCHANGED <<ownerVars, childPid, messages, ready, readySent, provider,
                 worldVars>>

\* Then it kills the process alone without recourse, and waits.
Reap ==
  /\ sup = "reap"
  /\ child' = [child EXCEPT !.status = "reaped"]
  /\ sup' = "clear"
  /\ UNCHANGED <<ownerVars, helper, childPid, messages, ready, readySent,
                 worldVars>>

Store ==
  /\ sup = "store"
  /\ childPid' = child.pid
  /\ sup' = "announce"
  /\ UNCHANGED <<ownerVars, messages, ready, readySent, provider, worldVars>>

Announce ==
  /\ sup = "announce"
  /\ ready' = IF readySent THEN ready ELSE "ok"
  /\ readySent' = TRUE
  /\ sup' = "wait"
  /\ UNCHANGED <<ownerVars, childPid, messages, provider, worldVars>>

\* child.wait() returns when the process is dead.
Wait ==
  /\ sup = "wait"
  /\ child.status = "dead"
  /\ child' = [child EXCEPT !.status = "reaped"]
  /\ sup' = "clear"
  /\ UNCHANGED <<ownerVars, helper, childPid, messages, ready, readySent,
                 worldVars>>

\* Mutant: the process id stays published after the process is gone.
ClearNothing ==
  /\ sup = "clear"
  /\ sup' = "drain"
  /\ UNCHANGED <<ownerVars, childPid, messages, ready, readySent, provider,
                 worldVars>>

Clear ==
  /\ sup = "clear"
  /\ childPid' = NoPid
  /\ sup' = "drain"
  /\ UNCHANGED <<ownerVars, messages, ready, readySent, provider, worldVars>>

\* Mutant: the readers of its output are left behind.
DrainNothing ==
  /\ sup = "drain"
  /\ sup' = "after"
  /\ UNCHANGED <<ownerVars, childPid, messages, ready, readySent, provider,
                 worldVars>>

\* join_readers returns when nobody holds the pipes.
Drain ==
  /\ sup = "drain"
  /\ helper = "none"
  /\ sup' = "after"
  /\ UNCHANGED <<ownerVars, childPid, messages, ready, readySent, provider,
                 worldVars>>

\* Mutant: a provider that never gets ready is retried for ever.
AfterKeepsTrying ==
  /\ sup = "after"
  /\ sup' = IF shutdown THEN "exited" ELSE "backoff"
  /\ UNCHANGED <<ownerVars, childPid, messages, ready, readySent, provider,
                 worldVars>>

\* The process is gone: leave, give up before readiness, or try again.
After ==
  /\ sup = "after"
  /\ IF shutdown
     THEN ready' = ready /\ sup' = "exited"
     ELSE IF ~readySent /\ late
          THEN ready' = "err" /\ sup' = "exited"
          ELSE ready' = ready /\ sup' = "backoff"
  /\ UNCHANGED <<ownerVars, childPid, messages, readySent, provider, worldVars>>

\* Mutant: the pause before a restart does not listen for shutdown.
WaitRestartDeaf ==
  /\ sup = "backoff"
  /\ sup' = "spawn"
  /\ UNCHANGED <<ownerVars, childPid, messages, ready, readySent, provider,
                 worldVars>>

\* wait_restart: a message ends the supervisor, the end of the pause
\* restarts the provider.
WaitRestart ==
  /\ sup = "backoff"
  /\ \/ messages > 0 /\ messages' = messages - 1 /\ sup' = "exited"
     \/ messages = 0 /\ messages' = messages /\ sup' = "top"
  /\ UNCHANGED <<ownerVars, childPid, ready, readySent, provider, worldVars>>

Supervisor ==
  \/ Top \/ SpawnOk \/ SpawnErr \/ ProbeExit \/ ProbePort \/ Stop \/ Reap
  \/ Store \/ Announce \/ Wait \/ Clear \/ Drain \/ After \/ WaitRestart

-----------------------------------------------------------------------------
(* The owner.                                                              *)

\* supervise() returns what the readiness channel brings.
Constructed ==
  /\ own = "new"
  /\ ready # "none"
  /\ own' = IF ready = "ok" THEN "held" ELSE "failed"
  /\ UNCHANGED <<supVars, shutdown, target, messages, provider, worldVars>>

\* drop, one access to what it shares with the supervisor at a time.
DropFlag ==
  /\ own = "held"
  /\ shutdown' = TRUE
  /\ own' = "flagged"
  /\ UNCHANGED <<supVars, target, messages, provider, worldVars>>

DropSend ==
  /\ own = "flagged"
  /\ messages' = 1
  /\ own' = "sent"
  /\ UNCHANGED <<supVars, shutdown, target, provider, worldVars>>

DropLoad ==
  /\ own = "sent"
  /\ target' = childPid
  /\ own' = "loaded"
  /\ UNCHANGED <<supVars, shutdown, messages, provider, worldVars>>

\* killpg(SIGTERM).
DropKill ==
  /\ own = "loaded"
  /\ child' = Asked(target)
  /\ helper' = HelperAsked(target)
  /\ own' = "join"
  /\ UNCHANGED <<supVars, shutdown, target, messages, worldVars>>

\* Mutant: drop returns without joining the supervisor.
DropNoJoin ==
  /\ own = "join"
  /\ own' = "dropped"
  /\ UNCHANGED <<supVars, shutdown, target, messages, provider, worldVars>>

DropJoin ==
  /\ own = "join"
  /\ sup = "exited"
  /\ own' = "dropped"
  /\ UNCHANGED <<supVars, shutdown, target, messages, provider, worldVars>>

Owner == Constructed \/ DropSend \/ DropLoad \/ DropKill \/ DropJoin

-----------------------------------------------------------------------------
(* The provider process, the other processes and the clock.                *)

Listen ==
  /\ child.status = "starting"
  /\ child' = [child EXCEPT !.status = "listening"]
  /\ UNCHANGED <<ownerVars, supVars, messages, helper, worldVars>>

\* It starts a process that inherits its output.
Fork ==
  /\ child.status \in Alive /\ helper = "none"
  /\ helper' = "running"
  /\ UNCHANGED <<ownerVars, supVars, messages, child, worldVars>>

Crash ==
  /\ child.status \in Alive
  /\ faults < MaxFaults
  /\ faults' = faults + 1
  /\ child' = [child EXCEPT !.status = "dead"]
  /\ UNCHANGED <<ownerVars, supVars, messages, helper, stranger, foreign,
                 late>>

\* A provider honours SIGTERM, and so do those it has started.
ExitOnTerm ==
  /\ child.status \in Alive /\ child.termed
  /\ child' = [child EXCEPT !.status = "dead"]
  /\ UNCHANGED <<ownerVars, supVars, messages, helper, worldVars>>

HelperExits(asked) ==
  /\ helper \in asked
  /\ helper' = "none"
  /\ UNCHANGED <<ownerVars, supVars, messages, child, worldVars>>

\* An id is free once its process was waited for and its group is empty.
StrangerComes ==
  /\ stranger = NoPid
  /\ stranger' \in {p \in Pid : p = child.pid =>
                      child.status = "reaped" /\ helper = "none"}
  /\ UNCHANGED <<ownerVars, supVars, messages, provider, foreign, late,
                 faults>>

StrangerGoes ==
  /\ stranger # NoPid
  /\ stranger' = NoPid
  /\ UNCHANGED <<ownerVars, supVars, messages, provider, foreign, late,
                 faults>>

DeadlinePasses ==
  /\ ~late
  /\ late' = TRUE
  /\ UNCHANGED <<ownerVars, supVars, messages, provider, stranger, foreign,
                 faults>>

World ==
  \/ Listen \/ Fork \/ Crash \/ ExitOnTerm \/ HelperExits({"running", "termed"})
  \/ StrangerComes \/ StrangerGoes \/ DeadlinePasses

ForwardNext == Supervisor \/ Owner \/ DropFlag \/ World

ForwardSpec == ForwardInit /\ [][ForwardNext]_forwardVars

\* Both threads are scheduled, the clock runs, and processes that were asked
\* to exit do.  Nothing says that a provider ever listens, or that the
\* command ends and the owner drops.
FairForward ==
  /\ ForwardSpec
  /\ WF_forwardVars(Supervisor) /\ WF_forwardVars(Owner)
  /\ WF_forwardVars(ExitOnTerm) /\ WF_forwardVars(HelperExits({"termed"}))
  /\ WF_forwardVars(DeadlinePasses)

-----------------------------------------------------------------------------
(* Properties.                                                             *)

\* Whichever way the owner is done with the forward, no provider process is
\* left behind, not even a zombie, nor one that it had started and that held
\* its output.
NoOrphan ==
  own \in {"dropped", "failed"} =>
    child.status \in {"none", "reaped"} /\ helper = "none"

\* Process ids are used again, and both signals of lade may be sent to an id
\* after its process was waited for, so that they can reach a process which
\* is none of lade's.  They do so only if the provider started last has
\* ended unasked: the id drop signals is never that of an earlier one.
StraySignals ==
  [][/\ own = "loaded" /\ own' = "join" /\ target # NoPid /\ target = stranger
          => child.pid = target /\ child.status = "reaped" /\ ~child.termed
     /\ sup = "stop" /\ sup' = "reap" /\ child.pid = stranger
          => child.status = "reaped" /\ ~child.termed]_forwardVars

\* A child is published exactly while the supervisor waits for its end; a
\* shutdown that finds nothing published finds no ready forward.
PublishedWhileReady ==
  /\ sup \in {"announce", "wait"} => childPid = child.pid /\ childPid # NoPid
  /\ childPid # NoPid => sup \in {"announce", "wait", "clear"}

\* Nothing that a provider has started holds its output for ever.
OutputEnds == []<>(helper = "none")

\* The construction ends, with a provider that listens, fails or hangs,
\* unless what it has started keeps its output open.
ConstructReturns == OutputEnds => (own = "new" ~> own # "new")

Restarting == sup \in {"spawn", "probe", "connect", "store"}

\* Drop returns unless it set the flag in the middle of a start, or waits for
\* the output of a provider that is gone: the message ends a pause, the flag
\* the next round, and the signal, which is never repeated, a process that
\* was ready when its id was read.
DropReturnsUnlessRestarting ==
  OutputEnds => ((own = "flagged" /\ ~Restarting) ~> own = "dropped")

\* The promise of drop (it ends the supervisor and the process group),
\* whatever happened to the provider before, and though nothing holds its
\* output for ever.
DropReturns == OutputEnds => (own = "flagged" ~> own = "dropped")
=============================================================================
