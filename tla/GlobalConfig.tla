---------------------------- MODULE GlobalConfig ----------------------------
(***************************************************************************)
(* The global configuration file (src/global_config.rs) and those who      *)
(* write it: the update check (src/upgrade.rs), the check of the provider  *)
(* tools (src/compat.rs) and `lade user` (src/main.rs).  Every `lade` is a *)
(* process of its own and there is no lock: a writer loads the file,       *)
(* changes its own field, writes a file named after its process id and     *)
(* renames that over the configuration.                                    *)
(*                                                                         *)
(* A writer is a task <<process, kind>>.  The tasks of one process share   *)
(* its temporary name; in `lade inject` the update check runs beside the   *)
(* check of the tools.  A file is the task that created it, as rename      *)
(* moves a file and an open one stays reachable by those who hold it.      *)
(***************************************************************************)
EXTENDS Integers, FiniteSets

CONSTANTS
  Procs,    \* the processes, each one run of `lade`
  Plans,    \* the commands considered, one for each process
  Outdated, \* the processes that find an outdated tool
  NoUser,   \* the value of an unset user
  Day,      \* the interval between checks
  MaxTime   \* bound of the clock

ASSUME PlansKnown == Plans \subseteq [Procs -> {"set", "inject", "status", "user", "reset", "none"}]
ASSUME NoUserIsNone == NoUser \notin Procs
ASSUME DayPositive == Day \in Nat \ {0}
ASSUME TimeBounded == MaxTime \in Nat

Kinds == {"upgrade", "compat", "user"}

\* What a command does with the configuration.
KindsOf(j) == CASE j = "set" -> {"upgrade"}
                [] j \in {"inject", "status"} -> {"upgrade", "compat"}
                [] j \in {"user", "reset"} -> {"user"}
                [] j = "none" -> {}

Tasks == Procs \X Kinds
NoFile == <<"no", "file">>

Never == -1
Time == 0..MaxTime
Stamp == Time \cup {Never}
Config == [user : Procs \cup {NoUser}, upgrade : Stamp, compat : Stamp]
Default == [user |-> NoUser, upgrade |-> Never, compat |-> Never]

\* A file that was truncated and not yet written, or written by two at once.
Empty == [user |-> NoUser, upgrade |-> -2, compat |-> -2]
Garbled == [user |-> NoUser, upgrade |-> -3, compat |-> -3]
Content == Config \cup {Empty, Garbled}

VARIABLES
  job,      \* the command each process runs
  now,      \* the clock
  config,   \* the file of that name
  tmp,      \* the file under each process's temporary name
  content,  \* what each file holds
  task,     \* what each task is at, and what it knows
  raced,    \* history: a change was overwritten by who had not loaded it
  saved,    \* history: the tasks that saved their change
  prior,    \* history: the tasks of its kind that had when it looked
  lastUser  \* history: the user set by the last command to say so

vars == <<job, now, config, tmp, content, task, raced, saved, prior,
          lastUser>>
files == <<config, tmp, content>>
history == <<raced, saved, prior, lastUser>>

At == {"start", "load", "open", "write", "rename", "lookup", "done", "failed"}

TypeOK ==
  /\ job \in Plans
  /\ now \in Time
  /\ config \in Tasks \cup {NoFile}
  /\ tmp \in [Procs -> Tasks \cup {NoFile}]
  /\ content \in [Tasks -> Content]
  /\ task \in [Tasks -> [at : At, dropped : BOOLEAN, asked : BOOLEAN,
                         checked : Stamp, new : Config,
                         from : Tasks \cup {NoFile}, file : Tasks \cup {NoFile}]]
  /\ raced \in BOOLEAN
  /\ saved \in SUBSET Tasks
  /\ prior \in [Tasks -> SUBSET Tasks]
  /\ lastUser \in Procs \cup {NoUser}

Init ==
  /\ job \in Plans
  /\ now = 0
  /\ config = NoFile
  /\ tmp = [p \in Procs |-> NoFile]
  /\ content = [t \in Tasks |-> Empty]
  /\ task = [t \in Tasks |->
       [at |-> IF t[2] \notin KindsOf(job[t[1]]) THEN "done"
               ELSE IF t[2] = "user" THEN "load" ELSE "start",
        dropped |-> FALSE, asked |-> FALSE, checked |-> Never, new |-> Default,
        from |-> NoFile, file |-> NoFile]]
  /\ raced = FALSE
  /\ saved = {}
  /\ prior = [t \in Tasks |-> {}]
  /\ lastUser = NoUser

----------------------------------------------------------------------------
\* What load() finds, and whether it is JSON at all.
OnDisk == IF config = NoFile THEN Default ELSE content[config]
Readable == OnDisk \in Config

\* Mutant: every process writes to the same temporary name.
TmpNameShared(p) == CHOOSE q \in Procs : TRUE

\* The temporary name holds the process id, so that processes do not share it.
TmpName(p) == p

\* Nothing awaits a dropped task: the call in progress is its last.
Then(t, at) == IF task[t].dropped THEN "done" ELSE at

\* Mutant: due again when the day is only just over.
CheckIsDueOften(checked) == checked = Never \/ checked + Day <= now

CheckIsDue(checked) == checked = Never \/ checked + Day < now

\* Mutant: the update check writes the defaults with its stamp.
UpdateFromDefault(t, loaded) ==
  CASE t[2] = "user" -> [loaded EXCEPT !.user = IF job[t[1]] = "user" THEN t[1] ELSE NoUser]
    [] t[2] = "upgrade" -> [Default EXCEPT !.upgrade = now]
    [] OTHER -> [loaded EXCEPT !.compat = IF t[1] \in Outdated THEN now ELSE task[t].checked]

\* What a task changes in the configuration it loaded.
Update(t, loaded) ==
  CASE t[2] = "user" -> [loaded EXCEPT !.user = IF job[t[1]] = "user" THEN t[1] ELSE NoUser]
    [] t[2] = "upgrade" -> [loaded EXCEPT !.upgrade = now]
    [] OTHER -> [loaded EXCEPT !.compat = IF t[1] \in Outdated THEN now ELSE task[t].checked]

\* `lade status` makes its two checks one after the other.
InTurn(t) ==
  job[t[1]] = "status" /\ t[2] = "compat" =>
    \/ task[<<t[1], "upgrade">>].at \in {"done", "failed"}
    \/ task[<<t[1], "upgrade">>].dropped

\* Both checks first load the configuration to see whether they are due; the
\* update check stamps before it asks, that of the tools after.
Begin(t) ==
  /\ task[t].at = "start" /\ InTurn(t)
  /\ LET due == CheckIsDue(OnDisk[t[2]])
     IN  task' = [task EXCEPT
           ![t].at = CASE ~Readable -> "failed"
                       [] Readable /\ ~due -> "done"
                       [] OTHER -> IF t[2] = "upgrade" THEN "load" ELSE "lookup",
           ![t].checked = now]
  /\ prior' = [prior EXCEPT ![t] = {u \in saved : u[2] = t[2]}]
  /\ UNCHANGED <<job, now, files, raced, saved, lastUser>>

\* The answer of GitHub, or the versions of the tools.  The tools' check is
\* then stamped, but for `lade status` when one is outdated.
Lookup(t) ==
  /\ task[t].at = "lookup"
  /\ task' = [task EXCEPT
       ![t].asked = TRUE,
       ![t].at = IF t[2] = "compat" /\ ~(job[t[1]] = "status" /\ t[1] \in Outdated)
                 THEN "load" ELSE "done"]
  /\ UNCHANGED <<job, now, files, history>>

Load(t) ==
  /\ task[t].at = "load"
  /\ task' = IF Readable
             THEN [task EXCEPT ![t].at = "open", ![t].from = config,
                               ![t].new = Update(t, OnDisk)]
             ELSE [task EXCEPT ![t].at = "failed"]
  /\ UNCHANGED <<job, now, files, history>>

\* fs::write truncates the file of that name, or creates it ...
Open(t) ==
  /\ task[t].at = "open"
  /\ LET name == TmpName(t[1])
         file == IF tmp[name] = NoFile THEN t ELSE tmp[name]
     IN  /\ tmp' = [tmp EXCEPT ![name] = file]
         /\ content' = [content EXCEPT ![file] = Empty]
         /\ task' = [task EXCEPT ![t].at = "write", ![t].file = file]
  /\ UNCHANGED <<job, now, config, history>>

\* ... and fills it from its start: what is left of a longer text stays.
Write(t) ==
  /\ task[t].at = "write"
  /\ LET file == task[t].file
     IN  \E result \in {task[t].new} \cup IF content[file] = Empty THEN {} ELSE {Garbled} :
           content' = [content EXCEPT ![file] = result]
  /\ task' = [task EXCEPT ![t].at = Then(t, "rename")]
  /\ raced' = (raced \/ config = task[t].file)
  /\ UNCHANGED <<job, now, config, tmp, saved, prior, lastUser>>

Rename(t) ==
  /\ task[t].at = "rename"
  /\ LET name == TmpName(t[1])
     IN  IF tmp[name] = NoFile
         THEN /\ task' = [task EXCEPT ![t].at = "failed"]
              /\ UNCHANGED <<files, raced, saved, lastUser>>
         ELSE /\ config' = tmp[name]
              /\ tmp' = [tmp EXCEPT ![name] = NoFile]
              /\ task' = [task EXCEPT ![t].at =
                            Then(t, IF t[2] = "upgrade" THEN "lookup" ELSE "done")]
              /\ raced' = (raced \/ config # task[t].from \/ content[tmp[name]] # task[t].new)
              /\ saved' = saved \cup {t}
              /\ lastUser' = IF t[2] = "user" THEN task[t].new.user ELSE lastUser
              /\ UNCHANGED content
  /\ UNCHANGED <<job, now, prior>>

\* The wait for the update check ends: two seconds in `lade set`, five in
\* `lade status`, after the command in `lade inject`.  The call in progress,
\* on a thread of its own, may still be made.
Drop(t) ==
  /\ t[2] = "upgrade" /\ ~task[t].dropped
  /\ task[t].at \notin {"done", "failed"}
  /\ job[t[1]] = "inject" => task[<<t[1], "compat">>].at \in {"done", "failed"}
  /\ \E at \in IF task[t].at = "write" THEN {"write"}
               ELSE {"done"} \cup ({task[t].at} \cap {"open", "rename"}) :
       task' = [task EXCEPT ![t].at = at, ![t].dropped = TRUE]
  /\ UNCHANGED <<job, now, files, history>>

\* The process is killed, or ends by process::exit: its threads stop where
\* they are.
Kill(p) ==
  /\ \E t \in Tasks : t[1] = p /\ task[t].at \notin {"done", "failed"}
  /\ task' = [t \in Tasks |->
       IF t[1] = p /\ task[t].at # "done" THEN [task[t] EXCEPT !.at = "failed"] ELSE task[t]]
  /\ UNCHANGED <<job, now, files, history>>

Tick ==
  /\ now < MaxTime
  /\ now' = now + 1
  /\ UNCHANGED <<job, files, task, history>>

Step(t) == Begin(t) \/ Lookup(t) \/ Load(t) \/ Open(t) \/ Write(t) \/ Rename(t)

Next ==
  \/ \E t \in Tasks : Step(t) \/ Drop(t)
  \/ \E p \in Procs : Kill(p)
  \/ Tick

Spec == Init /\ [][Next]_vars

----------------------------------------------------------------------------
(***************************************************************************)
(* The file is JSON whenever someone may read it, even after a kill at any *)
(* point: it is only ever cut or mixed by the second task of the process   *)
(* that published it, which has the same temporary name.                   *)
(***************************************************************************)
ConfigWhole ==
  ~Readable => \E t, u \in Tasks : t # u /\ task[t].file = config /\ task[u].file = config

(***************************************************************************)
(* The user is the one the last `lade user` confirmed, whoever else wrote  *)
(* the file: every writer carries the fields of the others over.  Where a  *)
(* writer replaced a file it had not loaded, the last change is lost.      *)
(***************************************************************************)
UserKeptUnlessRaced == ~raced => OnDisk.user = lastUser

(***************************************************************************)
(* GitHub is asked only once the attempt is on disk for every other        *)
(* process to see, so that a slow or failing answer is not asked for       *)
(* again.                                                                  *)
(***************************************************************************)
AttemptStampedFirst ==
  \A t \in Tasks : t[2] = "upgrade" /\ task[t].at = "lookup" /\ ~raced
                     => OnDisk.upgrade >= task[t].checked

(***************************************************************************)
(* GitHub is asked once a day: whoever looks after an attempt was saved    *)
(* asks again only a day later, unless a writer lost the stamp.  Two that  *)
(* look before either has saved may both ask.  The stamp of the tools'     *)
(* check is the time it began, so that a slow one may set it back.         *)
(***************************************************************************)
OncePerDay ==
  \A t \in Tasks : t[2] = "upgrade" /\ task[t].asked /\ ~raced =>
    \A u \in prior[t] : task[u].new.upgrade + Day < task[t].checked
=============================================================================
