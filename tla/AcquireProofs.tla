---------------------------- MODULE AcquireProofs ---------------------------
(***************************************************************************)
(* The safety of the acquisition, for any number of network bindings; and  *)
(* of one supervised forward, which Acquire takes to be gone with its      *)
(* guard, for any set of process ids and any number of faults.             *)
(***************************************************************************)
EXTENDS Acquire, Forward, TLAPS

-----------------------------------------------------------------------------
(* The acquisition.                                                        *)

\* A forward is up only under a worker that started it, and a connected one
\* is up as long as its session lasts.
Workers ==
  \A b \in Binding :
    /\ forward[b] = "up" => worker[b] \in {"probe", "ok"}
    /\ worker[b] = "probe" => forward[b] = "up"
    /\ worker[b] = "ok" /\ net = "run" => forward[b] = "up"
    /\ net = "idle" => worker[b] = "idle"
    /\ worker[b] = "idle" => net = "idle"

\* What the session has joined, and what it has let go.
Joined ==
  /\ net = "run" => joined < N
  /\ net = "ok" => joined = N
  /\ net = "err" => joined < N /\ worker[joined + 1] = "err"
  /\ \A b \in Binding :
       b <= joined => /\ worker[b] = "ok"
                      /\ net = "err" => forward[b] # "up"

Handed == {"decide", "write", "warn", "command", "sweep"}

\* A session handed over is whole until it is closed.
Whole ==
  net = "ok" /\ main \in {"race", "awaitNet", "awaitSecret", "network",
                          "stop"} \cup Handed =>
    \A b \in Binding : forward[b] = "up"

\* Where the main thread stands, the tasks it has waited for are settled.
Course ==
  /\ net = "idle" => main \in {"hydrate", "exited"}
  /\ main = "hydrate" => net = "idle"
  /\ main = "awaitSecret" => net = "ok"
  /\ main \in {"stop"} \cup Handed \cup {"notify", "close"} =>
       net \in {"ok", "err"}
  /\ main \in {"write", "warn", "command", "sweep", "close"} =>
       net = "ok" /\ secret = "ok"
  /\ main \in {"hydrate", "network", "write"} => mode = "mcp"
  /\ main \in {"race", "awaitNet", "awaitSecret"} => mode # "mcp"
  /\ main \in {"sweep", "close", "command"} => mode # "set"

\* The files are there from the secrets on, until they are swept.
Filed ==
  /\ files => secret = "ok"
  /\ main \in {"hydrate", "race", "awaitSecret", "network", "notify", "close",
               "write"} => ~files
  /\ main \in {"stop", "decide"} => (files <=> secret = "ok" /\ mode # "mcp")
  /\ main = "awaitNet" => (files <=> secret = "ok")
  /\ main \in {"warn", "command"} => files

\* The end: of main, of the forwards and of what was exported.
Ended ==
  /\ outcome # "none" => main \in {"sweep", "close", "exited"}
  /\ main \in {"sweep", "close"} => outcome \in {"done", "failed"}
  /\ main = "exited" => outcome # "none"
  /\ main = "exited" /\ mode # "set" /\ net = "ok" /\ outcome # "cancelled" =>
       \A b \in Binding : forward[b] # "up"
  /\ main = "notify" /\ mode # "set" /\ net = "ok" =>
       \A b \in Binding : forward[b] # "up"
  /\ main = "exited" /\ mode = "set" /\ outcome = "done" =>
       /\ exported = Binding /\ net = "ok" /\ secret = "ok" /\ files
       /\ \A b \in Binding : forward[b] = "up"
  /\ main = "exited" /\ outcome = "failed" => ~files
  /\ main = "exited" /\ mode # "set" /\ outcome = "done" => ~files
  /\ main = "exited" => net # "run"

IInv ==
  TypeOK /\ Workers /\ Joined /\ Whole /\ Course /\ Filed /\ Ended /\ Settled

LEMMA InitInv == Init => IInv
<1> SUFFICES ASSUME Init PROVE IInv
  OBVIOUS
<1> USE NPositive, ModesKnown DEF Binding
<1>1. TypeOK
  <2>1. /\ worker \in [Binding -> {"idle", "prepare"}]
        /\ main \in {"hydrate", "race"} /\ net \in {"idle", "run"}
    BY DEF Init
  <2>2. forward \in [Binding -> {"none"}] /\ joined \in 0..N
    BY DEF Init
  <2> QED BY <2>1, <2>2 DEF Init, TypeOK
<1>2. Workers /\ Whole /\ Settled
  BY DEF Init, Workers, Whole, Handed, Settled
<1>3. Joined /\ Course /\ Filed /\ Ended
  BY DEF Init, Joined, Course, Handed, Filed, Ended
<1> QED BY <1>1, <1>2, <1>3 DEF IInv

LEMMA WorkerInv ==
  ASSUME IInv, NEW b \in Binding, Worker(b) PROVE IInv'
<1> USE NPositive, ModesKnown
        DEF IInv, Binding, session, Handed, TypeOK, Workers, Joined, Whole,
            Course, Filed, Ended, Settled
<1>1. CASE Spawn(b)
  <2>1. TypeOK'
    BY <1>1 DEF Spawn, Running
  <2>2. Workers' /\ Joined' /\ Whole'
    BY <1>1 DEF Spawn, Running
  <2>3. Course' /\ Filed'
    BY <1>1 DEF Spawn, Running
  <2>4. Ended' /\ Settled'
    BY <1>1 DEF Spawn, Running
  <2> QED BY <2>1, <2>2, <2>3, <2>4
<1>2. CASE Connected(b)
  <2>1. TypeOK'
    BY <1>2 DEF Connected, Running
  <2>2. Workers' /\ Joined' /\ Whole'
    BY <1>2 DEF Connected, Running
  <2>3. Course' /\ Filed'
    BY <1>2 DEF Connected, Running
  <2>4. Ended' /\ Settled'
    BY <1>2 DEF Connected, Running
  <2> QED BY <2>1, <2>2, <2>3, <2>4
<1>3. CASE ConnectFails(b)
  <2>1. TypeOK'
    BY <1>3 DEF ConnectFails, Running, Stopped
  <2>2. Workers' /\ Joined' /\ Whole'
    BY <1>3 DEF ConnectFails, Running, Stopped
  <2>3. Course' /\ Filed'
    BY <1>3 DEF ConnectFails, Running, Stopped
  <2>4. Ended' /\ Settled'
    BY <1>3 DEF ConnectFails, Running, Stopped
  <2> QED BY <2>1, <2>2, <2>3, <2>4
<1>4. CASE DropAbandoned(b)
  <2>1. TypeOK'
    BY <1>4 DEF DropAbandoned, Running, Stopped
  <2>2. Workers' /\ Joined' /\ Whole'
    BY <1>4 DEF DropAbandoned, Running, Stopped
  <2>3. Course' /\ Filed'
    BY <1>4 DEF DropAbandoned, Running, Stopped
  <2>4. Ended' /\ Settled'
    BY <1>4 DEF DropAbandoned, Running, Stopped
  <2> QED BY <2>1, <2>2, <2>3, <2>4
<1> QED BY <1>1, <1>2, <1>3, <1>4 DEF Worker

LEMMA SessionInv ==
  ASSUME IInv, Session PROVE IInv'
<1> USE NPositive, ModesKnown
        DEF IInv, Binding, session, Handed, TypeOK, Workers, Joined, Whole,
            Course, Filed, Ended, Settled
<1>1. CASE Join
  <2>1. TypeOK'
    BY <1>1 DEF Join, Running
  <2>2. Workers' /\ Joined' /\ Whole'
    BY <1>1 DEF Join, Running
  <2>3. Course' /\ Filed'
    BY <1>1 DEF Join, Running
  <2>4. Ended' /\ Settled'
    BY <1>1 DEF Join, Running
  <2> QED BY <2>1, <2>2, <2>3, <2>4
<1>2. CASE JoinFailed
  <2>1. TypeOK'
    BY <1>2 DEF JoinFailed, Running, Stopped
  <2>2. Workers' /\ Joined' /\ Whole'
    BY <1>2 DEF JoinFailed, Running, Stopped
  <2>3. Course' /\ Filed'
    BY <1>2 DEF JoinFailed, Running, Stopped
  <2>4. Ended' /\ Settled'
    BY <1>2 DEF JoinFailed, Running, Stopped
  <2> QED BY <2>1, <2>2, <2>3, <2>4
<1> QED BY <1>1, <1>2 DEF Session

LEMMA SettleInv ==
  ASSUME IInv, Settle PROVE IInv'
<1> USE NPositive, ModesKnown
        DEF IInv, Binding, session, Handed, TypeOK, Workers, Joined, Whole,
            Course, Filed, Ended, Settled
<1>1. CASE SecretOk
  <2>1. TypeOK'
    BY <1>1 DEF SecretOk
  <2>2. Workers' /\ Joined' /\ Whole'
    BY <1>1 DEF SecretOk
  <2>3. Course' /\ Filed'
    BY <1>1 DEF SecretOk
  <2>4. Ended' /\ Settled'
    BY <1>1 DEF SecretOk
  <2> QED BY <2>1, <2>2, <2>3, <2>4
<1>2. CASE SecretErr
  <2>1. TypeOK'
    BY <1>2 DEF SecretErr
  <2>2. Workers' /\ Joined' /\ Whole'
    BY <1>2 DEF SecretErr
  <2>3. Course' /\ Filed'
    BY <1>2 DEF SecretErr
  <2>4. Ended' /\ Settled'
    BY <1>2 DEF SecretErr
  <2> QED BY <2>1, <2>2, <2>3, <2>4
<1>3. CASE NetFirst
  <2>1. TypeOK'
    BY <1>3 DEF NetFirst
  <2>2. Workers' /\ Joined' /\ Whole'
    BY <1>3 DEF NetFirst
  <2>3. Course' /\ Filed'
    BY <1>3 DEF NetFirst
  <2>4. Ended' /\ Settled'
    BY <1>3 DEF NetFirst
  <2> QED BY <2>1, <2>2, <2>3, <2>4
<1>4. CASE NetAwaited
  <2>1. TypeOK'
    BY <1>4 DEF NetAwaited
  <2>2. Workers' /\ Joined' /\ Whole'
    BY <1>4 DEF NetAwaited
  <2>3. Course' /\ Filed'
    BY <1>4 DEF NetAwaited
  <2>4. Ended' /\ Settled'
    BY <1>4 DEF NetAwaited
  <2> QED BY <2>1, <2>2, <2>3, <2>4
<1>5. CASE Hydrated
  <2>1. TypeOK'
    BY <1>5 DEF Hydrated
  <2>2. Workers' /\ Joined' /\ Whole'
    BY <1>5 DEF Hydrated
  <2>3. Course' /\ Filed'
    BY <1>5 DEF Hydrated
  <2>4. Ended' /\ Settled'
    BY <1>5 DEF Hydrated
  <2> QED BY <2>1, <2>2, <2>3, <2>4
<1>6. CASE WriteFiles
  <2>1. TypeOK'
    BY <1>6 DEF WriteFiles
  <2>2. Workers' /\ Joined' /\ Whole'
    BY <1>6 DEF WriteFiles
  <2>3. Course' /\ Filed'
    BY <1>6 DEF WriteFiles
  <2>4. Ended' /\ Settled'
    BY <1>6 DEF WriteFiles
  <2> QED BY <2>1, <2>2, <2>3, <2>4
<1>7. CASE StopProgress
  <2>1. TypeOK'
    BY <1>7 DEF StopProgress
  <2>2. Workers' /\ Joined' /\ Whole'
    BY <1>7 DEF StopProgress
  <2>3. Course' /\ Filed'
    BY <1>7 DEF StopProgress
  <2>4. Ended' /\ Settled'
    BY <1>7 DEF StopProgress
  <2> QED BY <2>1, <2>2, <2>3, <2>4
<1>8. CASE Ready
  <2>1. TypeOK'
    BY <1>8 DEF Ready
  <2>2. Workers' /\ Joined' /\ Whole'
    BY <1>8 DEF Ready
  <2>3. Course' /\ Filed'
    BY <1>8 DEF Ready
  <2>4. Ended' /\ Settled'
    BY <1>8 DEF Ready
  <2> QED BY <2>1, <2>2, <2>3, <2>4
<1>9. CASE Fail
  <2>1. TypeOK'
    BY <1>9 DEF Fail, Guarded, Stopped
  <2>2. Workers' /\ Joined' /\ Whole'
    BY <1>9 DEF Fail, Guarded, Stopped
  <2>3. Course' /\ Filed'
    BY <1>9 DEF Fail, Guarded, Stopped
  <2>4. Ended' /\ Settled'
    BY <1>9 DEF Fail, Guarded, Stopped
  <2> QED BY <2>1, <2>2, <2>3, <2>4
<1> QED BY <1>1, <1>2, <1>3, <1>4, <1>5, <1>6, <1>7, <1>8, <1>9 DEF Settle

LEMMA FinishInv ==
  ASSUME IInv, Finish \/ CancelWarning PROVE IInv'
<1> USE NPositive, ModesKnown
        DEF IInv, Binding, session, Handed, TypeOK, Workers, Joined, Whole,
            Course, Filed, Ended, Settled
<1>1. CASE ExitFailed
  <2>1. TypeOK'
    BY <1>1 DEF ExitFailed
  <2>2. Workers' /\ Joined' /\ Whole'
    BY <1>1 DEF ExitFailed
  <2>3. Course' /\ Filed'
    BY <1>1 DEF ExitFailed
  <2>4. Ended' /\ Settled'
    BY <1>1 DEF ExitFailed
  <2> QED BY <2>1, <2>2, <2>3, <2>4
<1>2. CASE Warned
  <2>1. TypeOK'
    BY <1>2 DEF Warned
  <2>2. Workers' /\ Joined' /\ Whole'
    BY <1>2 DEF Warned
  <2>3. Course' /\ Filed'
    BY <1>2 DEF Warned
  <2>4. Ended' /\ Settled'
    BY <1>2 DEF Warned
  <2> QED BY <2>1, <2>2, <2>3, <2>4
<1>3. CASE CommandEnds
  <2>1. TypeOK'
    BY <1>3 DEF CommandEnds
  <2>2. Workers' /\ Joined' /\ Whole'
    BY <1>3 DEF CommandEnds
  <2>3. Course' /\ Filed'
    BY <1>3 DEF CommandEnds
  <2>4. Ended' /\ Settled'
    BY <1>3 DEF CommandEnds
  <2> QED BY <2>1, <2>2, <2>3, <2>4
<1>4. CASE Sweep
  <2>1. TypeOK'
    BY <1>4 DEF Sweep
  <2>2. Workers' /\ Joined' /\ Whole'
    BY <1>4 DEF Sweep
  <2>3. Course' /\ Filed'
    BY <1>4 DEF Sweep
  <2>4. Ended' /\ Settled'
    BY <1>4 DEF Sweep
  <2> QED BY <2>1, <2>2, <2>3, <2>4
<1>5. CASE Close
  <2>1. TypeOK'
    BY <1>5 DEF Close, Guarded, Stopped
  <2>2. Workers' /\ Joined' /\ Whole'
    BY <1>5 DEF Close, Guarded, Stopped
  <2>3. Course' /\ Filed'
    BY <1>5 DEF Close, Guarded, Stopped
  <2>4. Ended' /\ Settled'
    BY <1>5 DEF Close, Guarded, Stopped
  <2> QED BY <2>1, <2>2, <2>3, <2>4
<1>6. CASE CancelWarning
  <2>1. TypeOK'
    BY <1>6 DEF CancelWarning
  <2>2. Workers' /\ Joined' /\ Whole'
    BY <1>6 DEF CancelWarning
  <2>3. Course' /\ Filed'
    BY <1>6 DEF CancelWarning
  <2>4. Ended' /\ Settled'
    BY <1>6 DEF CancelWarning
  <2> QED BY <2>1, <2>2, <2>3, <2>4
<1> QED BY <1>1, <1>2, <1>3, <1>4, <1>5, <1>6 DEF Finish
LEMMA Invariance == Spec => []IInv
<1>1. IInv /\ [Next]_vars => IInv'
  <2> SUFFICES ASSUME IInv, [Next]_vars PROVE IInv'
    OBVIOUS
  <2>1. CASE Next
    BY <2>1, WorkerInv, SessionInv, SettleInv, FinishInv DEF Next
  <2>2. CASE UNCHANGED vars
    BY <2>2 DEF vars, IInv, TypeOK, Workers, Joined, Whole, Course, Filed,
                Ended, Settled
  <2> QED BY <2>1, <2>2
<1> QED BY InitInv, <1>1, PTL DEF Spec

(* The type invariant. *)
THEOREM TypeCorrect == Spec => []TypeOK
<1>1. IInv => TypeOK
  BY DEF IInv
<1> QED BY Invariance, <1>1, PTL

(* A program that ends by itself leaves no secret file behind, but for those
   set leaves to the shell. *)
THEOREM NoFileIsLeft == Spec => []NoFileLeft
<1>1. IInv => NoFileLeft
  BY DEF IInv, TypeOK, Ended, NoFileLeft
<1> QED BY Invariance, <1>1, PTL

(* No command runs, and nothing is exported, with a part missing. *)
THEOREM RunIsComplete == Spec => []RunsComplete
<1>1. IInv => RunsComplete
  BY DEF IInv, Whole, Handed, Course, Filed, Ended, RunsComplete, Exited
<1> QED BY Invariance, <1>1, PTL

(* The shell is handed the process id of every forward set leaves, and of no
   other. *)
THEOREM HandedOverExactly == Spec => []HandedOver
<1>1. IInv => HandedOver
  BY DEF IInv, Ended, HandedOver, Exited
<1> QED BY Invariance, <1>1, PTL

(* Where the forwards are guarded, the only one that can outlive the program
   is one whose worker came after the binding that failed. *)
THEOREM OnlyAbandonedIsLeft == Spec => []OnlyAbandonedLeft
<1>1. IInv => OnlyAbandonedLeft
  <2> SUFFICES ASSUME IInv, mode # "set", Exited("done") \/ Exited("failed"),
                      NEW b \in Binding, forward[b] = "up"
               PROVE  net = "err" /\ b > joined + 1
    BY DEF OnlyAbandonedLeft
  <2>1. worker[b] \in {"probe", "ok"} /\ net # "idle"
    BY DEF IInv, Workers
  <2>2. net = "err"
    BY <2>1 DEF IInv, TypeOK, Ended, Exited
  <2>3. ~(b <= joined) /\ b # joined + 1
    BY <2>1, <2>2 DEF IInv, Joined
  <2> QED BY <2>2, <2>3 DEF IInv, TypeOK, Binding
<1> QED BY Invariance, <1>1, PTL

(* The cleanup runs with every worker at rest. *)
THEOREM CleanupIsSettled == Spec => []Settled
<1>1. IInv => Settled
  BY DEF IInv
<1> QED BY Invariance, <1>1, PTL

-----------------------------------------------------------------------------
(* A supervised forward.                                                   *)

\* What the channel of readiness says of both threads.
Readiness ==
  /\ readySent <=> ready = "ok"
  /\ ready = "err" => sup = "exited"
  /\ own = "failed" => ready = "err"
  /\ shutdown <=> own \in {"flagged", "sent", "loaded", "join", "dropped"}
  /\ own = "dropped" => sup = "exited"

\* Where the supervisor stands, there is a process or there is none, nor is
\* its output held.
Childless ==
  /\ sup \in {"top", "spawn", "clear", "drain", "after", "backoff", "exited"} =>
       child.status \in {"none", "reaped"}
  /\ sup \in {"top", "spawn", "after", "backoff", "exited"} => helper = "none"

\* The process id of a child that has been started, and its publication.
Published ==
  /\ sup \in {"probe", "connect", "stop", "store", "announce", "wait"} =>
       child.pid # NoPid
  /\ sup \in {"announce", "wait"} => childPid = child.pid
  /\ childPid # NoPid =>
       sup \in {"announce", "wait", "clear"} /\ childPid = child.pid

\* An id that drop has read stays that of the last child: the supervisor is
\* on its way out, and has not signalled this child itself.
Aimed ==
  /\ sup \in {"probe", "connect", "stop", "store"} => ~child.termed
  /\ childPid # NoPid /\ child.termed => own \in {"join", "dropped"}
  /\ target # NoPid =>
       /\ child.pid = target
       /\ own \in {"loaded", "join", "dropped"}
       /\ sup \in {"announce", "wait", "clear", "drain", "after", "exited"}
       /\ own = "loaded" => ~child.termed

\* An id is given out again after the end of what had it.
Apart ==
  stranger # NoPid /\ stranger = child.pid =>
    child.status = "reaped" /\ helper = "none"

ForwardInv ==
  /\ ForwardTypeOK /\ Readiness /\ Childless /\ Published /\ Aimed /\ Apart

LEMMA AskedKeeps ==
  ASSUME NEW id \in Pid \cup {NoPid},
         child \in [pid: Pid \cup {NoPid}, termed: BOOLEAN,
                    status: Alive \cup {"none", "dead", "reaped"}]
  PROVE  /\ Asked(id) \in [pid: Pid \cup {NoPid}, termed: BOOLEAN,
                           status: Alive \cup {"none", "dead", "reaped"}]
         /\ Asked(id).pid = child.pid /\ Asked(id).status = child.status
         /\ Asked(id).termed => child.termed \/ (id # NoPid /\ id = child.pid)
<1> DEFINE hit == child.termed \/ (Reached(id) /\ child.status \in Alive)
<1>1. hit \in BOOLEAN /\ (hit => child.termed \/ (id # NoPid /\ id = child.pid))
  BY DEF Reached
<1>2. Asked(id) = [child EXCEPT !.termed = hit]
  BY DEF Asked
<1> HIDE DEF hit
<1> QED BY <1>1, <1>2

LEMMA ForwardBase == ForwardInit => ForwardInv
<1> SUFFICES ASSUME ForwardInit PROVE ForwardInv
  OBVIOUS
<1>1. ForwardTypeOK
  <2>1. child \in [pid: Pid \cup {NoPid}, termed: BOOLEAN,
                   status: Alive \cup {"none", "dead", "reaped"}]
    BY DEF ForwardInit
  <2>2. shutdown \in BOOLEAN /\ readySent \in BOOLEAN /\ late \in BOOLEAN
    BY DEF ForwardInit
  <2>3. faults \in 0..MaxFaults
    BY MaxFaultsNat DEF ForwardInit
  <2> QED BY <2>1, <2>2, <2>3 DEF ForwardInit, ForwardTypeOK
<1>2. Readiness /\ Childless
  BY DEF ForwardInit, Readiness, Childless
<1>3. Published /\ Aimed /\ Apart
  BY DEF ForwardInit, Published, Aimed, Apart
<1> QED BY <1>1, <1>2, <1>3 DEF ForwardInv

LEMMA ForwardSupervisorStep == ForwardInv /\ Supervisor => ForwardInv'
<1> SUFFICES ASSUME ForwardInv, Supervisor PROVE ForwardInv'
  OBVIOUS
<1> USE PidPositive, MaxFaultsNat DEF ForwardInv, ownerVars, supVars, worldVars,
            provider, NoPid, Alive
<1>1. CASE Top
  <2>1. ForwardTypeOK'
    BY <1>1 DEF Top, ForwardTypeOK
  <2>2. Readiness' /\ Childless' /\ Published'
    BY <1>1 DEF Top, ForwardTypeOK, Readiness, Childless, Published
  <2>3. Aimed' /\ Apart'
    BY <1>1 DEF Top, ForwardTypeOK, Readiness, Published, Aimed, Apart
  <2> QED BY <2>1, <2>2, <2>3
<1>2. CASE SpawnOk
  <2>1. ForwardTypeOK'
    BY <1>2 DEF SpawnOk, ForwardTypeOK
  <2>2. Readiness' /\ Childless' /\ Published'
    BY <1>2 DEF SpawnOk, ForwardTypeOK, Readiness, Childless, Published
  <2>3. Aimed' /\ Apart'
    BY <1>2 DEF SpawnOk, ForwardTypeOK, Readiness, Published, Aimed, Apart
  <2> QED BY <2>1, <2>2, <2>3
<1>3. CASE SpawnErr
  <2>1. ForwardTypeOK'
    BY <1>3 DEF SpawnErr, ForwardTypeOK
  <2>2. Readiness' /\ Childless' /\ Published'
    BY <1>3 DEF SpawnErr, ForwardTypeOK, Readiness, Childless, Published
  <2>3. Aimed' /\ Apart'
    BY <1>3 DEF SpawnErr, ForwardTypeOK, Readiness, Published, Aimed, Apart
  <2> QED BY <2>1, <2>2, <2>3
<1>4. CASE ProbeExit
  <2>1. ForwardTypeOK'
    BY <1>4 DEF ProbeExit, ForwardTypeOK
  <2>2. Readiness' /\ Childless' /\ Published'
    BY <1>4 DEF ProbeExit, ForwardTypeOK, Readiness, Childless, Published
  <2>3. Aimed' /\ Apart'
    BY <1>4 DEF ProbeExit, ForwardTypeOK, Readiness, Published, Aimed, Apart
  <2> QED BY <2>1, <2>2, <2>3
<1>5. CASE ProbePort
  <2>1. ForwardTypeOK'
    BY <1>5 DEF ProbePort, PortOpen, ForwardTypeOK
  <2>2. Readiness' /\ Childless' /\ Published'
    BY <1>5 DEF ProbePort, PortOpen, ForwardTypeOK, Readiness, Childless, Published
  <2>3. Aimed' /\ Apart'
    BY <1>5 DEF ProbePort, PortOpen, ForwardTypeOK, Readiness, Published, Aimed, Apart
  <2> QED BY <2>1, <2>2, <2>3
<1>6. CASE Stop
  <2>1. child' = Asked(child.pid) /\ helper' = HelperAsked(child.pid)
    BY <1>6 DEF Stop
  <2>2. child.pid \in Pid \cup {NoPid}
    BY DEF ForwardTypeOK
  <2>3. /\ child' \in [pid: Pid \cup {NoPid}, termed: BOOLEAN,
                       status: Alive \cup {"none", "dead", "reaped"}]
        /\ child'.pid = child.pid /\ child'.status = child.status
        /\ child'.termed => child.termed \/ child.pid # NoPid
    BY <2>1, <2>2, AskedKeeps DEF ForwardTypeOK
  <2>4. helper' \in {"none", "running", "termed"}
    BY <2>1 DEF HelperAsked, ForwardTypeOK
  <2>5. helper = "none" => helper' = "none"
    BY <2>1 DEF HelperAsked
  <2>6. ForwardTypeOK'
    BY <1>6, <2>3, <2>4 DEF Stop, ForwardTypeOK
  <2>7. Readiness' /\ Childless' /\ Published'
    BY <1>6, <2>3, <2>5 DEF Stop, Readiness, Childless, Published
  <2>8. Aimed' /\ Apart'
    BY <1>6, <2>3, <2>5 DEF Stop, ForwardTypeOK, Published, Aimed, Apart
  <2> QED BY <2>6, <2>7, <2>8
<1>7. CASE Reap
  <2>1. ForwardTypeOK'
    BY <1>7 DEF Reap, ForwardTypeOK
  <2>2. Readiness' /\ Childless' /\ Published'
    BY <1>7 DEF Reap, ForwardTypeOK, Readiness, Childless, Published
  <2>3. Aimed' /\ Apart'
    BY <1>7 DEF Reap, ForwardTypeOK, Readiness, Published, Aimed, Apart
  <2> QED BY <2>1, <2>2, <2>3
<1>8. CASE Store
  <2>1. ForwardTypeOK'
    BY <1>8 DEF Store, ForwardTypeOK
  <2>2. Readiness' /\ Childless' /\ Published'
    BY <1>8 DEF Store, ForwardTypeOK, Readiness, Childless, Published
  <2>3. Aimed' /\ Apart'
    BY <1>8 DEF Store, ForwardTypeOK, Readiness, Published, Aimed, Apart
  <2> QED BY <2>1, <2>2, <2>3
<1>9. CASE Announce
  <2>1. ForwardTypeOK'
    BY <1>9 DEF Announce, ForwardTypeOK
  <2>2. Readiness' /\ Childless' /\ Published'
    BY <1>9 DEF Announce, ForwardTypeOK, Readiness, Childless, Published
  <2>3. Aimed' /\ Apart'
    BY <1>9 DEF Announce, ForwardTypeOK, Readiness, Published, Aimed, Apart
  <2> QED BY <2>1, <2>2, <2>3
<1>10. CASE Wait
  <2>1. ForwardTypeOK'
    BY <1>10 DEF Wait, ForwardTypeOK
  <2>2. Readiness' /\ Childless' /\ Published'
    BY <1>10 DEF Wait, ForwardTypeOK, Readiness, Childless, Published
  <2>3. Aimed' /\ Apart'
    BY <1>10 DEF Wait, ForwardTypeOK, Readiness, Published, Aimed, Apart
  <2> QED BY <2>1, <2>2, <2>3
<1>11. CASE Clear
  <2>1. ForwardTypeOK'
    BY <1>11 DEF Clear, ForwardTypeOK
  <2>2. Readiness' /\ Childless' /\ Published'
    BY <1>11 DEF Clear, ForwardTypeOK, Readiness, Childless, Published
  <2>3. Aimed' /\ Apart'
    BY <1>11 DEF Clear, ForwardTypeOK, Readiness, Published, Aimed, Apart
  <2> QED BY <2>1, <2>2, <2>3
<1>12. CASE Drain
  <2>1. ForwardTypeOK'
    BY <1>12 DEF Drain, ForwardTypeOK
  <2>2. Readiness' /\ Childless' /\ Published'
    BY <1>12 DEF Drain, ForwardTypeOK, Readiness, Childless, Published
  <2>3. Aimed' /\ Apart'
    BY <1>12 DEF Drain, ForwardTypeOK, Readiness, Published, Aimed, Apart
  <2> QED BY <2>1, <2>2, <2>3
<1>13. CASE After
  <2>1. ForwardTypeOK'
    BY <1>13 DEF After, ForwardTypeOK
  <2>2. Readiness' /\ Childless' /\ Published'
    BY <1>13 DEF After, ForwardTypeOK, Readiness, Childless, Published
  <2>3. Aimed' /\ Apart'
    BY <1>13 DEF After, ForwardTypeOK, Readiness, Published, Aimed, Apart
  <2> QED BY <2>1, <2>2, <2>3
<1>14. CASE WaitRestart
  <2>1. ForwardTypeOK'
    BY <1>14 DEF WaitRestart, ForwardTypeOK
  <2>2. Readiness' /\ Childless' /\ Published'
    BY <1>14 DEF WaitRestart, ForwardTypeOK, Readiness, Childless, Published
  <2>3. Aimed' /\ Apart'
    BY <1>14 DEF WaitRestart, ForwardTypeOK, Readiness, Published, Aimed, Apart
  <2> QED BY <2>1, <2>2, <2>3
<1> QED
  BY <1>1, <1>2, <1>3, <1>4, <1>5, <1>6, <1>7, <1>8, <1>9, <1>10, <1>11,
     <1>12, <1>13, <1>14 DEF Supervisor

LEMMA ForwardOwnerStep ==
  ForwardInv /\ (Owner \/ DropFlag) => ForwardInv'
<1> SUFFICES ASSUME ForwardInv, Owner \/ DropFlag PROVE ForwardInv'
  OBVIOUS
<1> USE PidPositive, MaxFaultsNat DEF ForwardInv, ownerVars, supVars, worldVars,
            provider, NoPid, Alive
<1>1. CASE Constructed
  <2>1. ForwardTypeOK'
    BY <1>1 DEF Constructed, ForwardTypeOK
  <2>2. Readiness' /\ Childless' /\ Published'
    BY <1>1 DEF Constructed, ForwardTypeOK, Readiness, Childless, Published
  <2>3. Aimed' /\ Apart'
    BY <1>1 DEF Constructed, ForwardTypeOK, Readiness, Published, Aimed, Apart
  <2> QED BY <2>1, <2>2, <2>3
<1>2. CASE DropFlag
  <2>1. ForwardTypeOK'
    BY <1>2 DEF DropFlag, ForwardTypeOK
  <2>2. Readiness' /\ Childless' /\ Published'
    BY <1>2 DEF DropFlag, ForwardTypeOK, Readiness, Childless, Published
  <2>3. Aimed' /\ Apart'
    BY <1>2 DEF DropFlag, ForwardTypeOK, Readiness, Published, Aimed, Apart
  <2> QED BY <2>1, <2>2, <2>3
<1>3. CASE DropSend
  <2>1. ForwardTypeOK'
    BY <1>3 DEF DropSend, ForwardTypeOK
  <2>2. Readiness' /\ Childless' /\ Published'
    BY <1>3 DEF DropSend, ForwardTypeOK, Readiness, Childless, Published
  <2>3. Aimed' /\ Apart'
    BY <1>3 DEF DropSend, ForwardTypeOK, Readiness, Published, Aimed, Apart
  <2> QED BY <2>1, <2>2, <2>3
<1>4. CASE DropLoad
  <2>1. ForwardTypeOK'
    BY <1>4 DEF DropLoad, ForwardTypeOK
  <2>2. Readiness' /\ Childless' /\ Published'
    BY <1>4 DEF DropLoad, ForwardTypeOK, Readiness, Childless, Published
  <2>3. Aimed' /\ Apart'
    BY <1>4 DEF DropLoad, ForwardTypeOK, Readiness, Published, Aimed, Apart
  <2> QED BY <2>1, <2>2, <2>3
<1>5. CASE DropKill
  <2>1. child' = Asked(target) /\ helper' = HelperAsked(target)
    BY <1>5 DEF DropKill
  <2>2. target \in Pid \cup {NoPid}
    BY DEF ForwardTypeOK
  <2>3. /\ child' \in [pid: Pid \cup {NoPid}, termed: BOOLEAN,
                       status: Alive \cup {"none", "dead", "reaped"}]
        /\ child'.pid = child.pid /\ child'.status = child.status
        /\ child'.termed => child.termed \/ (target # NoPid /\ target = child.pid)
    BY <2>1, <2>2, AskedKeeps DEF ForwardTypeOK
  <2>4. helper' \in {"none", "running", "termed"}
    BY <2>1 DEF HelperAsked, ForwardTypeOK
  <2>5. helper = "none" => helper' = "none"
    BY <2>1 DEF HelperAsked
  <2>6. ForwardTypeOK'
    BY <1>5, <2>3, <2>4 DEF DropKill, ForwardTypeOK
  <2>7. Readiness' /\ Childless' /\ Published'
    BY <1>5, <2>3, <2>5 DEF DropKill, Readiness, Childless, Published
  <2>8. Aimed' /\ Apart'
    BY <1>5, <2>3, <2>5 DEF DropKill, ForwardTypeOK, Published, Aimed, Apart
  <2> QED BY <2>6, <2>7, <2>8
<1>6. CASE DropJoin
  <2>1. ForwardTypeOK'
    BY <1>6 DEF DropJoin, ForwardTypeOK
  <2>2. Readiness' /\ Childless' /\ Published'
    BY <1>6 DEF DropJoin, ForwardTypeOK, Readiness, Childless, Published
  <2>3. Aimed' /\ Apart'
    BY <1>6 DEF DropJoin, ForwardTypeOK, Readiness, Published, Aimed, Apart
  <2> QED BY <2>1, <2>2, <2>3
<1> QED
  BY <1>1, <1>2, <1>3, <1>4, <1>5, <1>6 DEF Owner

LEMMA ForwardWorldStep == ForwardInv /\ World => ForwardInv'
<1> SUFFICES ASSUME ForwardInv, World PROVE ForwardInv'
  OBVIOUS
<1> USE PidPositive, MaxFaultsNat DEF ForwardInv, ownerVars, supVars, worldVars,
            provider, NoPid, Alive
<1>1. CASE Listen
  <2>1. ForwardTypeOK'
    BY <1>1 DEF Listen, ForwardTypeOK
  <2>2. Readiness' /\ Childless' /\ Published'
    BY <1>1 DEF Listen, ForwardTypeOK, Readiness, Childless, Published
  <2>3. Aimed' /\ Apart'
    BY <1>1 DEF Listen, ForwardTypeOK, Readiness, Published, Aimed, Apart
  <2> QED BY <2>1, <2>2, <2>3
<1>2. CASE Fork
  <2>1. ForwardTypeOK'
    BY <1>2 DEF Fork, ForwardTypeOK
  <2>2. Readiness' /\ Childless' /\ Published'
    BY <1>2 DEF Fork, ForwardTypeOK, Readiness, Childless, Published
  <2>3. Aimed' /\ Apart'
    BY <1>2 DEF Fork, ForwardTypeOK, Readiness, Published, Aimed, Apart
  <2> QED BY <2>1, <2>2, <2>3
<1>3. CASE Crash
  <2>1. ForwardTypeOK'
    BY <1>3 DEF Crash, ForwardTypeOK
  <2>2. Readiness' /\ Childless' /\ Published'
    BY <1>3 DEF Crash, ForwardTypeOK, Readiness, Childless, Published
  <2>3. Aimed' /\ Apart'
    BY <1>3 DEF Crash, ForwardTypeOK, Readiness, Published, Aimed, Apart
  <2> QED BY <2>1, <2>2, <2>3
<1>4. CASE ExitOnTerm
  <2>1. ForwardTypeOK'
    BY <1>4 DEF ExitOnTerm, ForwardTypeOK
  <2>2. Readiness' /\ Childless' /\ Published'
    BY <1>4 DEF ExitOnTerm, ForwardTypeOK, Readiness, Childless, Published
  <2>3. Aimed' /\ Apart'
    BY <1>4 DEF ExitOnTerm, ForwardTypeOK, Readiness, Published, Aimed, Apart
  <2> QED BY <2>1, <2>2, <2>3
<1>5. CASE HelperExits({"running", "termed"})
  <2>1. ForwardTypeOK'
    BY <1>5 DEF HelperExits, ForwardTypeOK
  <2>2. Readiness' /\ Childless' /\ Published'
    BY <1>5 DEF HelperExits, ForwardTypeOK, Readiness, Childless, Published
  <2>3. Aimed' /\ Apart'
    BY <1>5 DEF HelperExits, ForwardTypeOK, Readiness, Published, Aimed, Apart
  <2> QED BY <2>1, <2>2, <2>3
<1>6. CASE StrangerComes
  <2>1. ForwardTypeOK'
    BY <1>6 DEF StrangerComes, ForwardTypeOK
  <2>2. Readiness' /\ Childless' /\ Published'
    BY <1>6 DEF StrangerComes, ForwardTypeOK, Readiness, Childless, Published
  <2>3. Aimed' /\ Apart'
    BY <1>6 DEF StrangerComes, ForwardTypeOK, Readiness, Published, Aimed, Apart
  <2> QED BY <2>1, <2>2, <2>3
<1>7. CASE StrangerGoes
  <2>1. ForwardTypeOK'
    BY <1>7 DEF StrangerGoes, ForwardTypeOK
  <2>2. Readiness' /\ Childless' /\ Published'
    BY <1>7 DEF StrangerGoes, ForwardTypeOK, Readiness, Childless, Published
  <2>3. Aimed' /\ Apart'
    BY <1>7 DEF StrangerGoes, ForwardTypeOK, Readiness, Published, Aimed, Apart
  <2> QED BY <2>1, <2>2, <2>3
<1>8. CASE DeadlinePasses
  <2>1. ForwardTypeOK'
    BY <1>8 DEF DeadlinePasses, ForwardTypeOK
  <2>2. Readiness' /\ Childless' /\ Published'
    BY <1>8 DEF DeadlinePasses, ForwardTypeOK, Readiness, Childless, Published
  <2>3. Aimed' /\ Apart'
    BY <1>8 DEF DeadlinePasses, ForwardTypeOK, Readiness, Published, Aimed, Apart
  <2> QED BY <2>1, <2>2, <2>3
<1> QED
  BY <1>1, <1>2, <1>3, <1>4, <1>5, <1>6, <1>7, <1>8 DEF World

LEMMA ForwardStep == ForwardInv /\ [ForwardNext]_forwardVars => ForwardInv'
<1> SUFFICES ASSUME ForwardInv, [ForwardNext]_forwardVars PROVE ForwardInv'
  OBVIOUS
<1>1. CASE ForwardNext
  BY <1>1, ForwardSupervisorStep, ForwardOwnerStep, ForwardWorldStep DEF ForwardNext
<1>2. CASE UNCHANGED forwardVars
  BY <1>2
     DEF forwardVars, ForwardInv, ForwardTypeOK, Readiness, Childless, Published,
         Aimed, Apart
<1> QED BY <1>1, <1>2

LEMMA ForwardInvariant == ForwardSpec => []ForwardInv
BY ForwardBase, ForwardStep, PTL DEF ForwardSpec

(* The type invariant; a supervisor never holds more than one message. *)
THEOREM ForwardTyped == ForwardSpec => []ForwardTypeOK
<1>1. ForwardInv => ForwardTypeOK
  BY DEF ForwardInv
<1> QED BY ForwardInvariant, <1>1, PTL

(* When drop has joined the supervisor, or the construction has failed, no
   provider process is left, whatever crashed in between. *)
THEOREM NoOrphanLeft == ForwardSpec => []NoOrphan
<1>1. ForwardInv => NoOrphan
  BY DEF ForwardInv, Readiness, Childless, NoOrphan
<1> QED BY ForwardInvariant, <1>1, PTL

(* A signal of lade reaches a process that is none of its own only if the
   provider started last, whose id it was, has ended unasked. *)
THEOREM StraysOnlyAfterExit == ForwardSpec => StraySignals
<1> DEFINE Aim ==
      /\ own = "loaded" /\ own' = "join" /\ target # NoPid /\ target = stranger
           => child.pid = target /\ child.status = "reaped" /\ ~child.termed
      /\ sup = "stop" /\ sup' = "reap" /\ child.pid = stranger
           => child.status = "reaped" /\ ~child.termed
<1>1. ForwardInv => Aim
  BY DEF ForwardInv, ForwardTypeOK, Published, Aimed, Apart
<1>2. ForwardInv /\ [ForwardNext]_forwardVars => [Aim]_forwardVars
  BY <1>1
<1> QED
  BY <1>2, ForwardInvariant, PTL DEF ForwardSpec, StraySignals

(* A child is published exactly while its end is awaited. *)
THEOREM PublishedExactly == ForwardSpec => []PublishedWhileReady
<1>1. ForwardInv => PublishedWhileReady
  BY DEF ForwardInv, Published, PublishedWhileReady
<1> QED BY ForwardInvariant, <1>1, PTL
=============================================================================
