------------------------- MODULE GlobalConfigProofs --------------------------
(***************************************************************************)
(* Proofs about GlobalConfig: its type, that the file is whole, that the   *)
(* user is kept and that GitHub is asked once a day.                       *)
(***************************************************************************)
EXTENDS GlobalConfig, TLAPS

LEMMA NoFileIsNone == NoFile \notin Tasks
BY DEF NoFile, Tasks, Kinds

LEMMA DefaultType == Default \in Config
BY NoUserIsNone DEF Default, Config, Stamp

LEMMA OnDiskType == TypeOK => OnDisk \in Content
BY DefaultType DEF TypeOK, OnDisk, Content

LEMMA UpdateType ==
  ASSUME TypeOK, NEW t \in Tasks, NEW c \in Config
  PROVE  Update(t, c) \in Config
<1>1. now \in Stamp /\ task[t].checked \in Stamp /\ t[1] \in Procs
  BY DEF TypeOK, Stamp, Tasks
<1>2. CASE t[2] = "user"
  BY <1>1, <1>2 DEF Update, Config
<1>3. CASE t[2] = "upgrade"
  BY <1>1, <1>3 DEF Update, Config
<1>4. CASE t[2] = "compat"
  BY <1>1, <1>4 DEF Update, Config
<1>. QED BY <1>2, <1>3, <1>4 DEF Tasks, Kinds

Task == [at : At, dropped : BOOLEAN, asked : BOOLEAN, checked : Stamp, new : Config,
         from : Tasks \cup {NoFile}, file : Tasks \cup {NoFile}]

\* The changes of a task.
LEMMA TaskChanges ==
  ASSUME NEW r \in Task, NEW at \in At
  PROVE  /\ [r EXCEPT !.at = at] \in Task
         /\ \A time \in Stamp : [r EXCEPT !.at = at, !.checked = time] \in Task
         /\ \A f \in Tasks : [r EXCEPT !.at = at, !.file = f] \in Task
         /\ \A f \in Tasks \cup {NoFile}, c \in Config :
              [r EXCEPT !.at = at, !.from = f, !.new = c] \in Task
         /\ [r EXCEPT !.asked = TRUE, !.at = at] \in Task
<1>1. [r EXCEPT !.at = at] \in Task
  BY DEF Task
<1>2. ASSUME NEW time \in Stamp PROVE [r EXCEPT !.at = at, !.checked = time] \in Task
  BY DEF Task
<1>3. ASSUME NEW f \in Tasks PROVE [r EXCEPT !.at = at, !.file = f] \in Task
  BY DEF Task
<1>4. ASSUME NEW f \in Tasks \cup {NoFile}, NEW c \in Config
      PROVE  [r EXCEPT !.at = at, !.from = f, !.new = c] \in Task
  BY DEF Task
<1>5. [r EXCEPT !.asked = TRUE, !.at = at] \in Task
  BY DEF Task
<1>. QED BY <1>1, <1>2, <1>3, <1>4, <1>5

(***************************************************************************)
(* Type correctness of the configuration and its writers.                  *)
(***************************************************************************)
THEOREM TypeCorrect == Spec => []TypeOK
<1>1. Init => TypeOK
  <2> SUFFICES ASSUME Init PROVE TypeOK
    OBVIOUS
  <2>1. task \in [Tasks -> Task]
    BY DefaultType DEF Init, Task, At, Stamp
  <2>2. content \in [Tasks -> Content]
    BY DEF Init, Content
  <2>3. now \in Time
    BY TimeBounded DEF Init, Time
  <2>6. raced \in BOOLEAN
    BY DEF Init
  <2>4. prior \in [Tasks -> SUBSET Tasks] /\ tmp \in [Procs -> Tasks \cup {NoFile}]
    BY DEF Init
  <2>5. /\ job \in Plans /\ config \in Tasks \cup {NoFile}
        /\ saved \in SUBSET Tasks /\ lastUser \in Procs \cup {NoUser}
    BY DEF Init
  <2>. QED BY <2>1, <2>2, <2>3, <2>4, <2>5, <2>6 DEF TypeOK, Task
<1>2. TypeOK /\ [Next]_vars => TypeOK'
  <2> SUFFICES ASSUME TypeOK, [Next]_vars PROVE TypeOK'
    OBVIOUS
  <2>a. /\ job \in Plans /\ now \in Time /\ config \in Tasks \cup {NoFile}
        /\ tmp \in [Procs -> Tasks \cup {NoFile}] /\ content \in [Tasks -> Content]
        /\ task \in [Tasks -> Task] /\ raced \in BOOLEAN /\ saved \in SUBSET Tasks
        /\ prior \in [Tasks -> SUBSET Tasks] /\ lastUser \in Procs \cup {NoUser}
    BY DEF TypeOK, Task
  <2>1. ASSUME NEW t \in Tasks, Begin(t) PROVE TypeOK'
    <3>1. PICK at \in {"failed", "done", "load", "lookup"} :
            task' = [task EXCEPT ![t].at = at, ![t].checked = now]
      BY <2>1, Zenon DEF Begin
    <3>2. task' \in [Tasks -> Task]
      <4>a. at \in At
        BY DEF At
      <4>b. now \in Stamp
        BY <2>a DEF Stamp
      <4>2. [task[t] EXCEPT !.at = at, !.checked = now] \in Task
        BY <2>a, <4>a, <4>b, TaskChanges
      <4>. QED BY <2>a, <3>1, <4>2
    <3>3. prior' \in [Tasks -> SUBSET Tasks]
      BY <2>1, <2>a DEF Begin
    <3>4. UNCHANGED <<job, now, config, tmp, content, raced, saved, lastUser>>
      BY <2>1 DEF Begin, files
    <3>. QED BY <2>a, <3>2, <3>3, <3>4 DEF TypeOK, Task
  <2>2. ASSUME NEW t \in Tasks, Lookup(t) PROVE TypeOK'
    <3>a. PICK at \in At : task' = [task EXCEPT ![t].asked = TRUE, ![t].at = at]
      BY <2>2 DEF Lookup, At
    <3>1. task' \in [Tasks -> Task]
      <4>1. [task[t] EXCEPT !.asked = TRUE, !.at = at] \in Task
        BY <2>a, TaskChanges
      <4>. QED BY <2>a, <3>a, <4>1
    <3>2. UNCHANGED <<job, now, config, tmp, content, raced, saved, prior, lastUser>>
      BY <2>2 DEF Lookup, files, history
    <3>. QED BY <2>a, <3>1, <3>2 DEF TypeOK, Task
  <2>3. ASSUME NEW t \in Tasks, Load(t) PROVE TypeOK'
    <3>1. Readable => Update(t, OnDisk) \in Config
      BY UpdateType DEF Readable
    <3>2. task' \in [Tasks -> Task]
      <4>1. CASE Readable
        <5>1. [task[t] EXCEPT !.at = "open", !.from = config, !.new = Update(t, OnDisk)] \in Task
          <6>1. "open" \in At BY DEF At
          <6>2. /\ task[t] \in Task /\ config \in Tasks \cup {NoFile}
                /\ Update(t, OnDisk) \in Config
            BY <2>a, <3>1, <4>1
          <6>. QED BY <6>1, <6>2, TaskChanges
        <5>. QED BY <2>3, <2>a, <4>1, <5>1 DEF Load
      <4>2. CASE ~Readable
        <5>1. [task[t] EXCEPT !.at = "failed"] \in Task
          <6>1. "failed" \in At BY DEF At
          <6>. QED BY <2>a, <6>1, TaskChanges
        <5>. QED BY <2>3, <2>a, <4>2, <5>1 DEF Load
      <4>. QED BY <4>1, <4>2
    <3>3. UNCHANGED <<job, now, config, tmp, content, raced, saved, prior, lastUser>>
      BY <2>3 DEF Load, files, history
    <3>. QED BY <2>a, <3>2, <3>3 DEF TypeOK, Task
  <2>4. ASSUME NEW t \in Tasks, Open(t) PROVE TypeOK'
    <3>1. PICK file \in Tasks : /\ tmp' = [tmp EXCEPT ![TmpName(t[1])] = file]
                                /\ content' = [content EXCEPT ![file] = Empty]
                                /\ task' = [task EXCEPT ![t].at = "write", ![t].file = file]
      <4>. DEFINE file == IF tmp[TmpName(t[1])] = NoFile THEN t ELSE tmp[TmpName(t[1])]
      <4>1. tmp[t[1]] \in Tasks \cup {NoFile}
        BY <2>a DEF Tasks
      <4>2. file \in Tasks
        BY <4>1 DEF TmpName
      <4>3. /\ tmp' = [tmp EXCEPT ![TmpName(t[1])] = file]
            /\ content' = [content EXCEPT ![file] = Empty]
            /\ task' = [task EXCEPT ![t].at = "write", ![t].file = file]
        BY <2>4, Zenon DEF Open
      <4>. HIDE DEF file
      <4>. QED BY <4>2, <4>3
    <3>2. task' \in [Tasks -> Task]
      <4>1. [task[t] EXCEPT !.at = "write", !.file = file] \in Task
        BY <2>a, TaskChanges DEF At
      <4>. QED BY <2>a, <3>1, <4>1
    <3>3. content' \in [Tasks -> Content] /\ tmp' \in [Procs -> Tasks \cup {NoFile}]
      BY <2>a, <3>1 DEF Content
    <3>4. UNCHANGED <<job, now, config, raced, saved, prior, lastUser>>
      BY <2>4 DEF Open, history
    <3>. QED BY <2>a, <3>2, <3>3, <3>4 DEF TypeOK, Task
  <2>5. ASSUME NEW t \in Tasks, Write(t) PROVE TypeOK'
    <3>1. task[t].new \in Config
      BY <2>a DEF Task
    <3>2. content' \in [Tasks -> Content]
      BY <2>5, <2>a, <3>1 DEF Write, Content
    <3>3. task' \in [Tasks -> Task]
      BY <2>5, <2>a DEF Write, Then, Task, At
    <3>4. raced' \in BOOLEAN
      BY <2>5, Zenon DEF Write
    <3>5. UNCHANGED <<job, now, config, tmp, saved, prior, lastUser>>
      BY <2>5 DEF Write
    <3>. QED BY <2>a, <3>2, <3>3, <3>4, <3>5 DEF TypeOK, Task
  <2>6. ASSUME NEW t \in Tasks, Rename(t) PROVE TypeOK'
    <3>1. UNCHANGED <<job, now, prior, content>>
      BY <2>6 DEF Rename, files
    <3>a. PICK at \in At : task' = [task EXCEPT ![t].at = at]
      <4>1. CASE tmp[TmpName(t[1])] = NoFile
        BY <2>6, <4>1 DEF Rename, At
      <4>2. CASE tmp[TmpName(t[1])] # NoFile
        <5>1. Then(t, IF t[2] = "upgrade" THEN "lookup" ELSE "done") \in At
          BY DEF Then, At
        <5>. QED BY <2>6, <4>2, <5>1 DEF Rename
      <4>. QED BY <4>1, <4>2
    <3>2. task' \in [Tasks -> Task]
      BY <2>a, <3>a DEF Task
    <3>3. task[t].new.user \in Procs \cup {NoUser} /\ tmp[t[1]] \in Tasks \cup {NoFile}
      BY <2>a DEF Task, Config, Tasks
    <3>4. CASE tmp[TmpName(t[1])] = NoFile
      <4>1. UNCHANGED <<config, tmp, raced, saved, lastUser>>
        BY <2>6, <3>4 DEF Rename, files
      <4>. QED BY <2>a, <3>1, <3>2, <4>1 DEF TypeOK, Task
    <3>5. CASE tmp[TmpName(t[1])] # NoFile
      <4>1. /\ config' \in Tasks \cup {NoFile} /\ tmp' \in [Procs -> Tasks \cup {NoFile}]
            /\ saved' \in SUBSET Tasks /\ lastUser' \in Procs \cup {NoUser}
        BY <2>6, <2>a, <3>3, <3>5 DEF Rename, TmpName
      <4>2. raced' \in BOOLEAN
        BY <2>6, <3>5, Zenon DEF Rename
      <4>. QED BY <2>a, <3>1, <3>2, <4>1, <4>2 DEF TypeOK, Task
    <3>. QED BY <3>4, <3>5
  <2>7. ASSUME NEW t \in Tasks, Drop(t) PROVE TypeOK'
    <3>1. task' \in [Tasks -> Task]
      BY <2>7, <2>a DEF Drop, Task, At
    <3>2. UNCHANGED <<job, now, config, tmp, content, raced, saved, prior, lastUser>>
      BY <2>7 DEF Drop, files, history
    <3>. QED BY <2>a, <3>1, <3>2 DEF TypeOK, Task
  <2>8. ASSUME NEW p \in Procs, Kill(p) PROVE TypeOK'
    <3>1. \A t \in Tasks : [task[t] EXCEPT !.at = "failed"] \in Task
      <4>1. "failed" \in At BY DEF At
      <4>. QED BY <2>a, <4>1, TaskChanges
    <3>2. task' \in [Tasks -> Task]
      BY <2>8, <2>a, <3>1 DEF Kill
    <3>3. UNCHANGED <<job, now, config, tmp, content, raced, saved, prior, lastUser>>
      BY <2>8 DEF Kill, files, history
    <3>. QED BY <2>a, <3>2, <3>3 DEF TypeOK, Task
  <2>9. CASE Tick
    <3>1. now' \in Time
      BY <2>9, <2>a, TimeBounded DEF Tick, Time
    <3>2. UNCHANGED <<job, config, tmp, content, task, raced, saved, prior, lastUser>>
      BY <2>9 DEF Tick, files, history
    <3>. QED BY <2>a, <3>1, <3>2 DEF TypeOK, Task
  <2>10. CASE UNCHANGED vars
    BY <2>10, <2>a DEF vars, TypeOK, Task
  <2>. QED BY <2>1, <2>2, <2>3, <2>4, <2>5, <2>6, <2>7, <2>8, <2>9, <2>10 DEF Next, Step
<1>. QED BY <1>1, <1>2, PTL DEF Spec

----------------------------------------------------------------------------
(***************************************************************************)
(* Who holds which file.  A file belongs to the process of the task that   *)
(* created it, which holds it from then on; the file under a temporary     *)
(* name was never published; a task about to rename finds its own file     *)
(* under the name, unless the other task of its process holds it too.      *)
(***************************************************************************)
Shared(f) == \E t, u \in Tasks : t # u /\ task[t].file = f /\ task[u].file = f
Held(t) ==
  /\ task[t].file # NoFile => /\ task[t].file[1] = t[1]
                              /\ task[task[t].file].file = task[t].file
                              /\ t[2] \in KindsOf(job[t[1]])
  /\ task[t].at \in {"start", "load", "open"} => task[t].file = NoFile
  /\ task[t].at = "lookup" /\ t[2] # "upgrade" => task[t].file = NoFile
  /\ task[t].at \in {"write", "rename"} => task[t].file # NoFile
  /\ t[2] \notin KindsOf(job[t[1]]) => task[t].at = "done"
InHand(t) ==
  task[t].at \in {"write", "rename"} =>
    tmp[t[1]] = task[t].file \/ \E u \in Tasks : u # t /\ task[u].file = task[t].file
Named(p) == tmp[p] # NoFile => tmp[p][1] = p /\ task[tmp[p]].file = tmp[p] /\ tmp[p] # config
Published == config # NoFile => task[config].file = config
Stopped(t) == task[t].at \in {"done", "failed"}
Whole(f) ==
  task[f].file = f /\ ~Shared(f) =>
    \/ task[f].at = "write" /\ content[f] = Empty
    \/ task[f].at # "write" /\ content[f] \in Config
    \/ task[f].at = "failed" /\ config # f /\ \A u \in Tasks : u[1] = f[1] => Stopped(u)

HInv == /\ Published /\ \A p \in Procs : Named(p)
        /\ \A t \in Tasks : Held(t) /\ InHand(t) /\ Whole(t)

\* Steps that leave the files alone.
LEMMA QuietKeeps ==
  ASSUME TypeOK, HInv, UNCHANGED <<job, config, tmp, content>>,
         \A u \in Tasks : /\ task'[u].file = task[u].file
                          /\ task[u].at = "write" => task'[u].at = "write"
                          /\ Stopped(u) => task'[u].at = task[u].at
                          /\ \/ task'[u].at \in {task[u].at, "done"}
                             \/ /\ task[u].at # "done" /\ task[u].file = NoFile
                                /\ task'[u].at \notin {"write", "rename"}
                             \/ task[u].at # "done" /\ task'[u].at = "failed"
  PROVE  HInv'
<1>a. \A u \in Tasks : task[u].file \in Tasks \cup {NoFile}
  BY DEF TypeOK
<1>b. config \in Tasks \cup {NoFile} /\ \A p \in Procs : tmp[p] \in Tasks \cup {NoFile}
  BY DEF TypeOK
<1>1. Published'
  BY <1>b DEF HInv, Published
<1>2. ASSUME NEW p \in Procs PROVE Named(p)'
  BY <1>b DEF HInv, Named
<1>3. ASSUME NEW t \in Tasks PROVE Held(t)'
  BY <1>a DEF HInv, Held, Stopped
<1>4. ASSUME NEW t \in Tasks PROVE InHand(t)'
  <2>1. task'[t].at \in {"write", "rename"} => task[t].at \in {"write", "rename"}
    OBVIOUS
  <2>. QED BY <2>1 DEF HInv, InHand
<1>5. ASSUME NEW f \in Tasks PROVE Whole(f)'
  <2>1. Shared(f)' <=> Shared(f)
    BY DEF Shared
  <2>2. \A u \in Tasks : Stopped(u) => Stopped(u)'
    BY DEF Stopped
  <2>3. task[f].file = f => task[f].file # NoFile
    BY NoFileIsNone
  <2>. QED BY <2>1, <2>2, <2>3 DEF HInv, Whole, Stopped
<1>. QED BY <1>1, <1>2, <1>3, <1>4, <1>5 DEF HInv

LEMMA BeginKeeps ==
  ASSUME TypeOK, HInv, NEW t \in Tasks, Begin(t)
  PROVE  HInv'
<1>1. PICK at \in {"failed", "done", "load", "lookup"} :
        task' = [task EXCEPT ![t].at = at, ![t].checked = now]
  BY Zenon DEF Begin
<1>2. task'[t].file = task[t].file /\ task'[t].at = at
  BY <1>1 DEF TypeOK
<1>3. \A u \in Tasks : u # t => task'[u] = task[u]
  BY <1>1 DEF TypeOK
<1>4. task[t].at = "start" /\ task[t].file = NoFile
  BY DEF Begin, HInv, Held
<1>5. UNCHANGED <<job, config, tmp, content>>
  BY DEF Begin, files
<1>. QED BY <1>2, <1>3, <1>4, <1>5, QuietKeeps DEF Stopped

LEMMA LookupKeeps ==
  ASSUME TypeOK, HInv, NEW t \in Tasks, Lookup(t)
  PROVE  HInv'
<1>1. PICK at \in {"load", "done"} :
        /\ task' = [task EXCEPT ![t].asked = TRUE, ![t].at = at]
        /\ at = "load" => t[2] = "compat"
  BY DEF Lookup
<1>2. task'[t].file = task[t].file /\ task'[t].at = at
  BY <1>1 DEF TypeOK
<1>3. \A u \in Tasks : u # t => task'[u] = task[u]
  BY <1>1 DEF TypeOK
<1>4. task[t].at = "lookup" /\ (at = "load" => task[t].file = NoFile)
  BY <1>1 DEF Lookup, HInv, Held
<1>5. UNCHANGED <<job, config, tmp, content>>
  BY DEF Lookup, files
<1>. QED BY <1>2, <1>3, <1>4, <1>5, QuietKeeps DEF Stopped

LEMMA LoadKeeps ==
  ASSUME TypeOK, HInv, NEW t \in Tasks, Load(t)
  PROVE  HInv'
<1>1. task'[t].file = task[t].file /\ task'[t].at \in {"open", "failed"}
  BY DEF Load, TypeOK
<1>2. \A u \in Tasks : u # t => task'[u] = task[u]
  BY DEF Load, TypeOK
<1>3. task[t].at = "load" /\ task[t].file = NoFile
  BY DEF Load, HInv, Held
<1>4. UNCHANGED <<job, config, tmp, content>>
  BY DEF Load, files
<1>. QED BY <1>1, <1>2, <1>3, <1>4, QuietKeeps DEF Stopped

LEMMA DropKeeps ==
  ASSUME TypeOK, HInv, NEW t \in Tasks, Drop(t)
  PROVE  HInv'
<1>1. /\ task'[t].file = task[t].file /\ task'[t].at \in {task[t].at, "done"}
      /\ task[t].at = "write" => task'[t].at = "write"
  BY DEF Drop, TypeOK
<1>2. \A u \in Tasks : u # t => task'[u] = task[u]
  BY DEF Drop, TypeOK
<1>3. ~Stopped(t)
  BY DEF Drop, Stopped
<1>4. UNCHANGED <<job, config, tmp, content>>
  BY DEF Drop, files
<1>. QED BY <1>1, <1>2, <1>3, <1>4, QuietKeeps DEF Stopped

\* A killed process leaves its file, which nobody publishes any more.
LEMMA KillKeeps ==
  ASSUME TypeOK, HInv, NEW p \in Procs, Kill(p)
  PROVE  HInv'
<1>1. UNCHANGED <<job, config, tmp, content>>
  BY DEF Kill, files
<1>2. \A u \in Tasks :
        /\ task'[u].file = task[u].file
        /\ task'[u].at = IF u[1] = p /\ task[u].at # "done" THEN "failed" ELSE task[u].at
  BY DEF Kill, TypeOK
<1>a. \A u \in Tasks : task[u].file \in Tasks \cup {NoFile}
  BY DEF TypeOK
<1>b. config \in Tasks \cup {NoFile} /\ \A q \in Procs : tmp[q] \in Tasks \cup {NoFile}
  BY DEF TypeOK
<1>3. Published' /\ \A q \in Procs : Named(q)'
  BY <1>1, <1>2, <1>b DEF HInv, Published, Named
<1>4. ASSUME NEW t \in Tasks PROVE Held(t)'
  BY <1>1, <1>2, <1>a DEF HInv, Held
<1>5. ASSUME NEW t \in Tasks PROVE InHand(t)'
  BY <1>1, <1>2 DEF HInv, InHand
<1>6. ASSUME NEW f \in Tasks PROVE Whole(f)'
  <2>1. Shared(f)' <=> Shared(f)
    BY <1>2 DEF Shared
  <2>2. \A u \in Tasks : (Stopped(u) \/ u[1] = p) => Stopped(u)'
    BY <1>2 DEF Stopped
  <2>3. CASE task[f].file = f /\ ~Shared(f) /\ task[f].at = "write" /\ f[1] = p
    <3>1. tmp[f[1]] = f
      BY <2>3 DEF HInv, InHand, Shared
    <3>2. config # f
      BY <3>1, NoFileIsNone DEF HInv, Named, Tasks
    <3>. QED BY <1>1, <1>2, <2>2, <2>3, <3>2 DEF Whole
  <2>4. CASE ~(task[f].file = f /\ ~Shared(f) /\ task[f].at = "write" /\ f[1] = p)
    BY <1>1, <1>2, <2>1, <2>2, <2>4 DEF HInv, Whole
  <2>. QED BY <2>3, <2>4
<1>. QED BY <1>3, <1>4, <1>5, <1>6 DEF HInv

LEMMA OpenKeeps ==
  ASSUME TypeOK, HInv, NEW t \in Tasks, Open(t)
  PROVE  HInv'
<1>. DEFINE f == IF tmp[t[1]] = NoFile THEN t ELSE tmp[t[1]]
<1>a. /\ t[1] \in Procs /\ tmp[t[1]] \in Tasks \cup {NoFile} /\ config \in Tasks \cup {NoFile}
      /\ \A p \in Procs : tmp[p] \in Tasks \cup {NoFile}
      /\ \A u \in Tasks : task[u].file \in Tasks \cup {NoFile}
  BY DEF TypeOK, Tasks
<1>b. task[t].at = "open" /\ task[t].file = NoFile /\ t[2] \in KindsOf(job[t[1]])
  BY DEF Open, HInv, Held
<1>1. f \in Tasks /\ f[1] = t[1] /\ f # config
  BY <1>a, <1>b, NoFileIsNone DEF HInv, Named, Published
<1>2. /\ tmp' = [tmp EXCEPT ![t[1]] = f]
      /\ content' = [content EXCEPT ![f] = Empty]
      /\ task' = [task EXCEPT ![t].at = "write", ![t].file = f]
      /\ config' = config /\ job' = job
  BY DEF Open, TmpName, history
<1>3. f = t \/ (f # t /\ task[f].file = f /\ tmp[t[1]] = f)
  <2>1. CASE tmp[t[1]] = NoFile
    BY <2>1
  <2>2. CASE tmp[t[1]] # NoFile
    <3>1. f = tmp[t[1]] /\ task[f].file = f
      BY <1>a, <2>2 DEF HInv, Named
    <3>2. f # t
      BY <1>b, <2>2, <3>1
    <3>. QED BY <3>1, <3>2
  <2>. QED BY <2>1, <2>2
<1>. HIDE DEF f
<1>4. /\ task'[t].at = "write" /\ task'[t].file = f
      /\ \A u \in Tasks : u # t => task'[u] = task[u]
      /\ tmp'[t[1]] = f /\ \A p \in Procs : p # t[1] => tmp'[p] = tmp[p]
      /\ content'[f] = Empty /\ \A g \in Tasks : g # f => content'[g] = content[g]
  BY <1>a, <1>1, <1>2 DEF TypeOK
<1>5. \A u \in Tasks : task[u].file # NoFile => task'[u].file = task[u].file
  BY <1>b, <1>4
<1>6. \A g \in Tasks : task[g].file = g => task'[g].file = g
  BY <1>5, NoFileIsNone
<1>7. task'[f].file = f
  BY <1>1, <1>3, <1>4
<1>8. Published'
  BY <1>2, <1>6, <1>a DEF HInv, Published
<1>9. ASSUME NEW p \in Procs PROVE Named(p)'
  BY <1>1, <1>2, <1>4, <1>6, <1>7, <1>a, ZenonT(60) DEF HInv, Named
<1>10. ASSUME NEW u \in Tasks PROVE Held(u)'
  <2>1. CASE u = t
    BY <1>1, <1>2, <1>4, <1>7, <1>b, <2>1, NoFileIsNone, ZenonT(60) DEF Held
  <2>2. CASE u # t
    <3>1. task'[u] = task[u] /\ job' = job
      BY <1>2, <1>4, <2>2
    <3>2. Held(u) /\ task[u].file \in Tasks \cup {NoFile}
      BY <1>a DEF HInv
    <3>3. task[u].file # NoFile => task'[task[u].file].file = task[u].file
      BY <1>6, <3>2 DEF Held
    <3>. QED BY <3>1, <3>2, <3>3 DEF Held
  <2>. QED BY <2>1, <2>2
<1>11. ASSUME NEW u \in Tasks PROVE InHand(u)'
  <2>1. CASE u = t
    BY <1>4, <2>1 DEF InHand
  <2>2. CASE u # t
    <3>1. SUFFICES ASSUME task[u].at \in {"write", "rename"}
                   PROVE  tmp'[u[1]] = task[u].file
                            \/ \E v \in Tasks : v # u /\ task'[v].file = task[u].file
      BY <1>4, <2>2 DEF InHand
    <3>2. task[u].file # NoFile /\ u[1] \in Procs
      BY <3>1 DEF HInv, Held, Tasks
    <3>3. CASE tmp[u[1]] = task[u].file
      <4>1. CASE u[1] = t[1]
        <5>1. f = tmp[t[1]]
          BY <3>2, <3>3, <4>1 DEF f
        <5>. QED BY <1>4, <3>3, <4>1, <5>1
      <4>2. CASE u[1] # t[1]
        BY <1>4, <3>2, <3>3, <4>2
      <4>. QED BY <4>1, <4>2
    <3>4. CASE \E v \in Tasks : v # u /\ task[v].file = task[u].file
      BY <1>5, <3>2, <3>4
    <3>. QED BY <3>1, <3>3, <3>4 DEF HInv, InHand
  <2>. QED BY <2>1, <2>2
<1>12. ASSUME NEW g \in Tasks PROVE Whole(g)'
  <2>1. CASE g = f /\ f = t
    BY <1>4, <2>1 DEF Whole
  <2>2. CASE g = f /\ f # t
    <3>1. Shared(g)'
      BY <1>1, <1>4, <1>7, <2>2 DEF Shared
    <3>. QED BY <3>1 DEF Whole
  <2>3. CASE g # f /\ g # t
    <3>1. Shared(g) => Shared(g)'
      BY <1>5, NoFileIsNone DEF Shared
    <3>2. \A u \in Tasks : Stopped(u) => Stopped(u)'
      BY <1>4, <1>b DEF Stopped
    <3>3. /\ task'[g] = task[g] /\ content'[g] = content[g] /\ config' = config
          /\ Whole(g)
      BY <1>2, <1>4, <2>3 DEF HInv
    <3>4. SUFFICES ASSUME task[g].file = g, ~Shared(g)
                   PROVE  \/ task[g].at = "write" /\ content[g] = Empty
                          \/ task[g].at # "write" /\ content[g] \in Config
                          \/ /\ task[g].at = "failed" /\ config # g
                             /\ \A u \in Tasks : u[1] = g[1] => Stopped(u)'
      BY <3>1, <3>3 DEF Whole
    <3>. QED BY <3>2, <3>3, <3>4 DEF Whole
  <2>4. CASE g # f /\ g = t
    BY <1>4, <2>4 DEF Whole
  <2>. QED BY <2>1, <2>2, <2>3, <2>4
<1>. QED BY <1>8, <1>9, <1>10, <1>11, <1>12 DEF HInv

\* A process writes the configuration by two tasks at most.
LEMMA TwoTasks ==
  ASSUME TypeOK, HInv, NEW t \in Tasks, task[t].at = "rename", tmp[t[1]] # NoFile
  PROVE  task[t].file = tmp[t[1]]
<1>1. SUFFICES ASSUME task[t].file # tmp[t[1]] PROVE FALSE
  OBVIOUS
<1>. DEFINE f == tmp[t[1]]
<1>2. t[1] \in Procs /\ f \in Tasks
  BY DEF TypeOK, Tasks
<1>3. f[1] = t[1] /\ task[f].file = f /\ f[2] \in KindsOf(job[t[1]])
  BY <1>2, NoFileIsNone DEF HInv, Named, Held
<1>4. PICK u \in Tasks : u # t /\ task[u].file = task[t].file
  BY <1>1 DEF HInv, InHand
<1>5. /\ task[t].file # NoFile /\ task[t].file[1] = t[1] /\ u[1] = t[1]
      /\ t[2] \in KindsOf(job[t[1]]) /\ u[2] \in KindsOf(job[t[1]])
  BY <1>4 DEF HInv, Held
<1>6. f # t /\ f # u
  BY <1>1, <1>3, <1>4
<1>7. t[2] # u[2] /\ t[2] # f[2] /\ u[2] # f[2]
  BY <1>2, <1>3, <1>4, <1>5, <1>6 DEF Tasks
<1>8. job[t[1]] \in {"set", "inject", "status", "user", "reset", "none"}
  BY <1>2, PlansKnown DEF TypeOK
<1>9. \E k \in Kinds : k \notin KindsOf(job[t[1]])
  BY <1>8 DEF KindsOf, Kinds
<1>10. t[2] \in Kinds /\ u[2] \in Kinds /\ f[2] \in Kinds
  BY <1>2 DEF Tasks
<1>. QED BY <1>3, <1>5, <1>7, <1>9, <1>10 DEF Kinds

LEMMA WriteKeeps ==
  ASSUME TypeOK, HInv, NEW t \in Tasks, Write(t)
  PROVE  HInv'
<1>. DEFINE f == task[t].file
<1>a. /\ config \in Tasks \cup {NoFile} /\ \A p \in Procs : tmp[p] \in Tasks \cup {NoFile}
      /\ \A u \in Tasks : task[u].file \in Tasks \cup {NoFile}
  BY DEF TypeOK
<1>b. task[t].at = "write" /\ f \in Tasks /\ task[f].file = f
  BY <1>a DEF Write, HInv, Held
<1>1. PICK at \in {"rename", "done"}, c \in {task[t].new, Garbled} :
        /\ content' = [content EXCEPT ![f] = c]
        /\ content[f] = Empty => c = task[t].new
        /\ task' = [task EXCEPT ![t].at = at]
  BY DEF Write, Then
<1>2. UNCHANGED <<job, config, tmp>>
  BY DEF Write
<1>3. /\ task'[t].at \in {"rename", "done"} /\ \A u \in Tasks : u # t => task'[u] = task[u]
      /\ \A u \in Tasks : task'[u].file = task[u].file
      /\ content'[f] = c /\ \A g \in Tasks : g # f => content'[g] = content[g]
  BY <1>b, <1>1 DEF TypeOK
<1>4. task[t].new \in Config
  BY DEF TypeOK
<1>5. Published' /\ \A p \in Procs : Named(p)'
  BY <1>2, <1>3, <1>a DEF HInv, Published, Named
<1>6. ASSUME NEW u \in Tasks PROVE Held(u)'
  <2>1. Held(u) /\ task[u].file \in Tasks \cup {NoFile}
    BY <1>a DEF HInv
  <2>2. CASE u = t
    BY <1>2, <1>3, <1>b, <2>1, <2>2 DEF Held
  <2>3. CASE u # t
    BY <1>2, <1>3, <2>1, <2>3 DEF Held
  <2>. QED BY <2>2, <2>3
<1>7. ASSUME NEW u \in Tasks PROVE InHand(u)'
  <2>1. task'[u].at \in {"write", "rename"} => task[u].at \in {"write", "rename"}
    BY <1>3, <1>b
  <2>. QED BY <1>2, <1>3, <2>1 DEF HInv, InHand
<1>8. ASSUME NEW g \in Tasks PROVE Whole(g)'
  <2>1. Shared(g)' <=> Shared(g)
    BY <1>3 DEF Shared
  <2>2. CASE g # f
    <3>1. g = t => task[g].file # g
      BY <2>2
    <3>2. \A u \in Tasks : Stopped(u) => Stopped(u)'
      BY <1>3, <1>b DEF Stopped
    <3>. QED BY <1>2, <1>3, <2>1, <2>2, <3>1, <3>2 DEF HInv, Whole
  <2>3. CASE g = f
    <3>1. SUFFICES ASSUME ~Shared(g) PROVE Whole(g)'
      BY <2>1 DEF Whole
    <3>2. g = t
      BY <1>b, <2>3, <3>1 DEF Shared
    <3>3. content[f] = Empty
      BY <1>b, <2>3, <3>1, <3>2 DEF HInv, Whole
    <3>. QED BY <1>1, <1>3, <1>4, <2>3, <3>2, <3>3 DEF Whole
  <2>. QED BY <2>2, <2>3
<1>. QED BY <1>5, <1>6, <1>7, <1>8 DEF HInv

LEMMA RenameKeeps ==
  ASSUME TypeOK, HInv, NEW t \in Tasks, Rename(t)
  PROVE  HInv'
<1>. DEFINE f == tmp[t[1]]
<1>a. /\ config \in Tasks \cup {NoFile} /\ \A p \in Procs : tmp[p] \in Tasks \cup {NoFile}
      /\ \A u \in Tasks : task[u].file \in Tasks \cup {NoFile}
      /\ t[1] \in Procs
  BY DEF TypeOK, Tasks
<1>b. task[t].at = "rename" /\ job' = job
  BY DEF Rename
<1>1. CASE f = NoFile
  <2>1. UNCHANGED <<job, config, tmp, content>> /\ task' = [task EXCEPT ![t].at = "failed"]
    BY <1>1 DEF Rename, TmpName, files
  <2>2. /\ task'[t].at = "failed" /\ task'[t].file = task[t].file
        /\ \A u \in Tasks : u # t => task'[u] = task[u]
    BY <2>1 DEF TypeOK
  <2>. QED BY <1>b, <2>1, <2>2, QuietKeeps DEF Stopped
<1>2. CASE f # NoFile
  <2>a. task[t].file = f
    BY <1>b, <1>2, TwoTasks
  <2>1. f \in Tasks /\ f[1] = t[1] /\ task[f].file = f /\ f # config
    BY <1>2, <1>a DEF HInv, Named
  <2>2. PICK at \in {"lookup", "done"} :
          task' = [task EXCEPT ![t].at = at] /\ (at = "lookup" => t[2] = "upgrade")
    <3>1. /\ Then(t, IF t[2] = "upgrade" THEN "lookup" ELSE "done") \in {"lookup", "done"}
          /\ t[2] # "upgrade" => Then(t, IF t[2] = "upgrade" THEN "lookup" ELSE "done") = "done"
      BY DEF Then
    <3>. QED BY <1>2, <3>1 DEF Rename, TmpName
  <2>3. config' = f /\ tmp' = [tmp EXCEPT ![t[1]] = NoFile] /\ content' = content
    BY <1>2 DEF Rename, TmpName
  <2>. HIDE DEF f
  <2>4. /\ task'[t].at = at /\ \A u \in Tasks : u # t => task'[u] = task[u]
        /\ \A u \in Tasks : task'[u].file = task[u].file
        /\ tmp'[t[1]] = NoFile /\ \A p \in Procs : p # t[1] => tmp'[p] = tmp[p]
    BY <1>a, <2>2, <2>3 DEF TypeOK
  <2>5. Published'
    BY <2>1, <2>3, <2>4 DEF Published
  <2>6. ASSUME NEW p \in Procs PROVE Named(p)'
    BY <1>a, <2>1, <2>3, <2>4 DEF HInv, Named
  <2>7. ASSUME NEW u \in Tasks PROVE Held(u)'
    <3>1. Held(u) /\ task[u].file \in Tasks \cup {NoFile}
      BY <1>a DEF HInv
    <3>2. CASE u = t
      BY <1>2, <1>b, <2>1, <2>2, <2>4, <3>1, <3>2 DEF Held
    <3>3. CASE u # t
      BY <1>b, <2>4, <3>1, <3>3 DEF Held
    <3>. QED BY <3>2, <3>3
  <2>8. ASSUME NEW u \in Tasks PROVE InHand(u)'
    <3>1. CASE u = t
      BY <2>4, <3>1 DEF InHand
    <3>2. CASE u # t /\ u[1] = t[1] /\ task[u].file = f
      BY <2>4, <2>a, <3>2 DEF InHand
    <3>3. CASE u # t /\ u[1] = t[1] /\ task[u].file # f
      <4>1. tmp[u[1]] # task[u].file
        BY <3>3 DEF f
      <4>. QED BY <2>4, <3>3, <4>1 DEF HInv, InHand
    <3>4. CASE u # t /\ u[1] # t[1]
      <4>1. u[1] \in Procs
        BY DEF Tasks
      <4>. QED BY <2>4, <3>4, <4>1 DEF HInv, InHand
    <3>. QED BY <3>1, <3>2, <3>3, <3>4
  <2>9. ASSUME NEW g \in Tasks PROVE Whole(g)'
    <3>1. Shared(g)' <=> Shared(g)
      BY <2>4 DEF Shared
    <3>2. \A u \in Tasks : Stopped(u) => Stopped(u)' /\ u # t
      BY <1>b, <2>4 DEF Stopped
    <3>3. CASE g # f
      <4>1. g # t \/ task[g].file # g
        BY <2>a, <3>3
      <4>. QED BY <2>3, <2>4, <3>1, <3>2, <3>3, <4>1 DEF HInv, Whole
    <3>4. CASE g = f
      <4>1. SUFFICES ASSUME ~Shared(g) PROVE Whole(g)'
        BY <3>1 DEF Whole
      <4>2. g = t
        BY <2>1, <2>a, <3>4, <4>1 DEF Shared
      <4>3. content[g] \in Config
        BY <1>b, <2>1, <3>4, <4>1, <4>2 DEF HInv, Whole
      <4>. QED BY <2>3, <2>4, <4>2, <4>3 DEF Whole
    <3>. QED BY <3>3, <3>4
  <2>. QED BY <2>5, <2>6, <2>7, <2>8, <2>9 DEF HInv
<1>. QED BY <1>1, <1>2

(***************************************************************************)
(* HInv is inductive, and no configuration under its name is cut or mixed  *)
(* but by two tasks that hold it.                                          *)
(***************************************************************************)
LEMMA HoldInductive == TypeOK /\ HInv /\ [Next]_vars => HInv'
<1> SUFFICES ASSUME TypeOK, HInv, [Next]_vars PROVE HInv'
  OBVIOUS
<1>1. ASSUME NEW t \in Tasks, Step(t) \/ Drop(t) PROVE HInv'
  BY <1>1, BeginKeeps, LookupKeeps, LoadKeeps, OpenKeeps, WriteKeeps, RenameKeeps, DropKeeps
  DEF Step
<1>2. ASSUME NEW p \in Procs, Kill(p) PROVE HInv'
  BY <1>2, KillKeeps
<1>3. CASE Tick
  <2>1. UNCHANGED <<job, config, tmp, content, task>>
    BY <1>3 DEF Tick, files
  <2>. QED BY <2>1, QuietKeeps
<1>4. CASE UNCHANGED vars
  <2>1. UNCHANGED <<job, config, tmp, content, task>>
    BY <1>4 DEF vars
  <2>. QED BY <2>1, QuietKeeps
<1>. QED BY <1>1, <1>2, <1>3, <1>4 DEF Next

LEMMA HoldAlways == Spec => [](TypeOK /\ HInv)
<1>1. Init => HInv
  <2> SUFFICES ASSUME Init PROVE HInv
    OBVIOUS
  <2>1. \A t \in Tasks : task[t].file = NoFile /\ task[t].at \in {"start", "load", "done"}
    BY DEF Init
  <2>2. \A t \in Tasks : t[2] \notin KindsOf(job[t[1]]) => task[t].at = "done"
    BY DEF Init
  <2>3. config = NoFile /\ \A p \in Procs : tmp[p] = NoFile
    BY DEF Init
  <2>4. \A t \in Tasks : Held(t) /\ InHand(t) /\ Whole(t)
    BY <2>1, <2>2, NoFileIsNone DEF Held, InHand, Whole
  <2>. QED BY <2>3, <2>4 DEF HInv, Published, Named
<1>2. Spec => []TypeOK
  BY TypeCorrect
<1>. QED BY <1>1, <1>2, HoldInductive, PTL DEF Spec

(***************************************************************************)
(* The file is JSON whenever someone may read it.                          *)
(***************************************************************************)
THEOREM ConfigWholeHolds == Spec => []ConfigWhole
<1>1. TypeOK /\ HInv => ConfigWhole
  <2> SUFFICES ASSUME TypeOK, HInv, ~Readable, ~Shared(config) PROVE FALSE
    BY DEF ConfigWhole, Shared
  <2>1. config # NoFile /\ config \in Tasks /\ content[config] \notin Config
    BY DefaultType DEF Readable, OnDisk, TypeOK
  <2>2. task[config].file = config
    BY <2>1 DEF HInv, Published
  <2>3. task[config].at = "write"
    BY <2>1, <2>2 DEF HInv, Whole
  <2>4. tmp[config[1]] = config
    BY <2>1, <2>2, <2>3 DEF HInv, InHand, Shared
  <2>. QED BY <2>1, <2>4, NoFileIsNone DEF HInv, Named, Tasks
<1>. QED BY <1>1, HoldAlways, PTL

----------------------------------------------------------------------------
(***************************************************************************)
(* What a task knows of the configuration.  As long as nobody replaced a   *)
(* file it had not loaded, a task that loaded the file that is still there *)
(* writes it back but for its own field, and stamps only grow.             *)
(***************************************************************************)
Going == {"load", "open", "write", "rename", "lookup"}
Writing == {"open", "write", "rename"}
Stamps(t) ==
  t[2] = "upgrade" =>
    /\ task[t].at = "start" => ~task[t].asked
    /\ task[t].at \in Going => 0 <= task[t].checked /\ task[t].checked <= now
    /\ task[t].at \in Writing => task[t].checked <= task[t].new.upgrade
    /\ t \in saved => /\ 0 <= task[t].checked /\ task[t].checked <= task[t].new.upgrade
                      /\ ~raced => task[t].new.upgrade <= OnDisk.upgrade
    /\ task[t].at = "lookup" => t \in saved
Asked(t) ==
  t[2] = "upgrade" /\ (task[t].at \in Going \/ task[t].asked) /\ ~raced =>
    \A u \in prior[t] : /\ u \in saved /\ u[2] = "upgrade"
                        /\ task[u].new.upgrade + Day < task[t].checked
Loaded(t) ==
  /\ task[t].from # NoFile =>
       task[task[t].from].file = task[t].from /\ \A p \in Procs : tmp[p] # task[t].from
  /\ task[t].at \in Writing /\ ~raced /\ task[t].from = config =>
       /\ OnDisk.upgrade <= task[t].new.upgrade
       /\ t[2] # "user" => task[t].new.user = OnDisk.user
  /\ t \in saved => Stopped(t) \/ (task[t].at = "lookup" /\ t[2] = "upgrade")
  /\ task[t].new.upgrade <= now
Clock == \A f \in Tasks : content[f].upgrade <= now
Last == ~raced => OnDisk.user = lastUser

RInv == /\ Clock /\ Last
        /\ \A t \in Tasks : Stamps(t) /\ Asked(t) /\ Loaded(t)

Numbers ==
  /\ now \in Int /\ OnDisk.upgrade \in Int
  /\ \A f \in Tasks : content[f].upgrade \in Int
  /\ \A t \in Tasks : task[t].new.upgrade \in Int /\ task[t].checked \in Int

LEMMA HasNumbers == TypeOK => Numbers
<1> SUFFICES ASSUME TypeOK PROVE Numbers
  OBVIOUS
<1>1. \A c \in Content : c.upgrade \in Int
  BY TimeBounded DEF Content, Config, Stamp, Time, Never, Empty, Garbled
<1>2. OnDisk \in Content
  BY OnDiskType
<1>3. \A t \in Tasks : task[t].new \in Content /\ task[t].checked \in Int
  BY TimeBounded DEF TypeOK, Content, Stamp, Time, Never
<1>4. now \in Int /\ \A f \in Tasks : content[f] \in Content
  BY TimeBounded DEF TypeOK, Time
<1>. QED BY <1>1, <1>2, <1>3, <1>4 DEF Numbers

LEMMA HasNumbersPrime == TypeOK' => Numbers'
BY HasNumbers, PTL

\* A task that does not step, or only ends.
LEMMA StampsSame ==
  ASSUME TypeOK, TypeOK', NEW u \in Tasks, Stamps(u),
         task'[u].at \in {task[u].at, "done", "failed"}, task'[u].asked = task[u].asked,
         task'[u].checked = task[u].checked, task'[u].new = task[u].new,
         raced => raced', u \in saved' <=> u \in saved,
         ~raced' => OnDisk.upgrade <= OnDisk'.upgrade, now <= now'
  PROVE  Stamps(u)'
<1>1. /\ now \in Int /\ now' \in Int /\ OnDisk.upgrade \in Int /\ OnDisk'.upgrade \in Int
      /\ task[u].new.upgrade \in Int /\ task[u].checked \in Int
  BY HasNumbers, HasNumbersPrime DEF Numbers
<1>. QED BY <1>1 DEF Stamps, Going, Writing

LEMMA AskedSame ==
  ASSUME NEW u \in Tasks, Asked(u), \/ task'[u].at \in {task[u].at, "done", "failed"}
                                    \/ task[u].at \in Going,
         task'[u].asked => task[u].asked \/ task[u].at \in Going,
         task'[u].checked = task[u].checked,
         prior'[u] = prior[u], raced => raced', saved \subseteq saved',
         \A v \in saved : task'[v].new = task[v].new
  PROVE  Asked(u)'
BY DEF Asked, Going

LEMMA LoadedSame ==
  ASSUME TypeOK, TypeOK', NEW u \in Tasks, Loaded(u),
         task'[u].at \in {task[u].at, "done", "failed"},
         task'[u].from = task[u].from, task'[u].new = task[u].new,
         raced => raced', u \in saved' <=> u \in saved,
         \A g \in Tasks : task[g].file = g => task'[g].file = g,
         task[u].from # NoFile => \A p \in Procs : tmp'[p] # task[u].from,
         ~raced' /\ config' = task[u].from => config = task[u].from /\ OnDisk' = OnDisk,
         now <= now'
  PROVE  Loaded(u)'
<1>1. now \in Int /\ now' \in Int /\ task[u].new.upgrade \in Int
  BY HasNumbers, HasNumbersPrime DEF Numbers
<1>2. task[u].from \in Tasks \cup {NoFile}
  BY DEF TypeOK
<1>. QED BY <1>1, <1>2 DEF Loaded, Writing, Stopped

\* The tasks beside the one that steps.
LEMMA OthersKeep ==
  ASSUME TypeOK, TypeOK', RInv, NEW t \in Tasks,
         \A u \in Tasks : u # t => task'[u] = task[u] /\ prior'[u] = prior[u],
         t \in saved => task'[t].new = task[t].new,
         raced => raced', saved \subseteq saved', saved' \subseteq saved \cup {t},
         \A g \in Tasks : task[g].file = g => task'[g].file = g,
         \A p \in Procs : tmp'[p] \in {NoFile, tmp[p]} \/ task[tmp'[p]].file # tmp'[p],
         ~raced' => \/ config' = config /\ OnDisk' = OnDisk
                    \/ /\ \A u \in Tasks : u # t => config' # task[u].from
                       /\ OnDisk.upgrade <= OnDisk'.upgrade,
         now <= now'
  PROVE  \A u \in Tasks : u # t => Stamps(u)' /\ Asked(u)' /\ Loaded(u)'
<1> SUFFICES ASSUME NEW u \in Tasks, u # t PROVE Stamps(u)' /\ Asked(u)' /\ Loaded(u)'
  OBVIOUS
<1>1. task'[u] = task[u] /\ prior'[u] = prior[u] /\ (u \in saved' <=> u \in saved)
  OBVIOUS
<1>2. Stamps(u) /\ Asked(u) /\ Loaded(u)
  BY DEF RInv
<1>3. ~raced' => OnDisk.upgrade <= OnDisk'.upgrade
  BY HasNumbers DEF Numbers
<1>4. Stamps(u)'
  BY <1>1, <1>2, <1>3, StampsSame
<1>5. Asked(u)'
  <2>1. \A v \in saved : task'[v].new = task[v].new
    BY DEF TypeOK
  <2>. QED BY <1>1, <1>2, <2>1, AskedSame
<1>6. Loaded(u)'
  <2>1. task[u].from # NoFile => \A p \in Procs : tmp'[p] # task[u].from
    BY <1>2 DEF Loaded
  <2>. QED BY <1>1, <1>2, <2>1, LoadedSame
<1>. QED BY <1>4, <1>5, <1>6

\* Steps that change neither files nor stamps.
LEMMA StillKeeps ==
  ASSUME TypeOK, TypeOK', RInv, UNCHANGED <<config, tmp, content, raced, saved, prior, lastUser>>,
         now' \in {now, now + 1},
         \A u \in Tasks : /\ task'[u].asked = task[u].asked /\ task'[u].checked = task[u].checked
                          /\ task'[u].new = task[u].new /\ task'[u].from = task[u].from
                          /\ task'[u].file = task[u].file
                          /\ task'[u].at \in {task[u].at, "done", "failed"}
  PROVE  RInv'
<1>1. OnDisk' = OnDisk
  BY DEF OnDisk
<1>2. now <= now' /\ OnDisk.upgrade <= OnDisk'.upgrade
  BY <1>1, HasNumbers DEF Numbers
<1>3. Clock' /\ Last'
  <2>1. Clock'
    BY <1>2, HasNumbers, HasNumbersPrime DEF RInv, Clock, Numbers
  <2>. QED BY <1>1, <2>1 DEF RInv, Last
<1>4. ASSUME NEW u \in Tasks PROVE Stamps(u)'
  BY <1>2, StampsSame DEF RInv
<1>5. ASSUME NEW u \in Tasks PROVE Asked(u)'
  <2>1. \A v \in saved : task'[v].new = task[v].new
    BY DEF TypeOK
  <2>. QED BY <2>1, AskedSame DEF RInv
<1>6. ASSUME NEW u \in Tasks PROVE Loaded(u)'
  <2>1. task[u].from # NoFile => \A p \in Procs : tmp'[p] # task[u].from
    BY DEF RInv, Loaded
  <2>. QED BY <1>1, <1>2, <2>1, LoadedSame DEF RInv
<1>. QED BY <1>3, <1>4, <1>5, <1>6 DEF RInv

LEMMA BeginStamps ==
  ASSUME TypeOK, TypeOK', HInv, RInv, NEW t \in Tasks, Begin(t)
  PROVE  RInv'
<1>1. PICK at \in {"failed", "done", "load", "lookup"} :
        /\ task' = [task EXCEPT ![t].at = at, ![t].checked = now]
        /\ at = "load" => Readable /\ CheckIsDue(OnDisk[t[2]])
        /\ t[2] = "upgrade" => at # "lookup"
  BY Zenon DEF Begin
<1>2. /\ task'[t].at = at /\ task'[t].checked = now
      /\ task'[t].asked = task[t].asked /\ task'[t].new = task[t].new
      /\ task'[t].from = task[t].from /\ task'[t].file = task[t].file
      /\ \A u \in Tasks : u # t => task'[u] = task[u]
  BY <1>1 DEF TypeOK
<1>3. /\ prior'[t] = {u \in saved : u[2] = t[2]}
      /\ \A u \in Tasks : u # t => prior'[u] = prior[u]
      /\ UNCHANGED <<job, now, config, tmp, content, raced, saved, lastUser>>
  BY DEF Begin, files, TypeOK
<1>4. OnDisk' = OnDisk
  BY <1>3 DEF OnDisk
<1>5. task[t].at = "start" /\ t \notin saved /\ Stamps(t) /\ Loaded(t)
  BY DEF Begin, RInv, Loaded, Stopped
<1>6. \A u \in Tasks : u # t => Stamps(u)' /\ Asked(u)' /\ Loaded(u)'
  <2>1. \A g \in Tasks : task[g].file = g => task'[g].file = g
    BY <1>2
  <2>2. now <= now'
    BY <1>3, HasNumbers DEF Numbers
  <2>. QED BY <1>2, <1>3, <1>4, <1>5, <2>1, <2>2, OthersKeep
<1>7. Stamps(t)'
  <2>1. 0 <= now /\ now <= now
    BY TimeBounded DEF TypeOK, Time
  <2>. QED BY <1>1, <1>2, <1>3, <1>5, <2>1 DEF Stamps, Going, Writing
<1>8. Asked(t)'
  <2>1. SUFFICES ASSUME t[2] = "upgrade", at = "load", ~raced, NEW u \in saved, u[2] = "upgrade"
                 PROVE  task'[u].new.upgrade + Day < now
    BY <1>1, <1>2, <1>3, <1>5 DEF Asked, Going, Stamps
  <2>2. u \in Tasks /\ u # t /\ task'[u] = task[u]
    BY <1>2, <1>5 DEF TypeOK
  <2>3. /\ 0 <= task[u].checked /\ task[u].checked <= task[u].new.upgrade
        /\ task[u].new.upgrade <= OnDisk.upgrade
    BY <2>1, <2>2 DEF RInv, Stamps
  <2>4. OnDisk.upgrade = -1 \/ OnDisk.upgrade + Day < now
    BY <1>1, <2>1 DEF CheckIsDue, Never
  <2>. QED BY <2>2, <2>3, <2>4, HasNumbers, DayPositive DEF Numbers
<1>9. Loaded(t)'
  <2>1. \A g \in Tasks : task'[g].file = task[g].file
    BY <1>2
  <2>2. task[t].from \in Tasks \cup {NoFile}
    BY DEF TypeOK
  <2>3. task'[t].at \notin Writing /\ t \notin saved'
    BY <1>1, <1>2, <1>3, <1>5 DEF Writing
  <2>. QED BY <1>2, <1>3, <1>5, <2>1, <2>2, <2>3 DEF Loaded
<1>10. Clock' /\ Last'
  BY <1>3, <1>4 DEF RInv, Clock, Last
<1>. QED BY <1>6, <1>7, <1>8, <1>9, <1>10 DEF RInv

LEMMA LookupStamps ==
  ASSUME TypeOK, TypeOK', HInv, RInv, NEW t \in Tasks, Lookup(t)
  PROVE  RInv'
<1>1. PICK at \in {"load", "done"} :
        /\ task' = [task EXCEPT ![t].asked = TRUE, ![t].at = at]
        /\ at = "load" => t[2] = "compat"
  BY DEF Lookup
<1>2. /\ task'[t].at = at /\ task'[t].checked = task[t].checked
      /\ task'[t].new = task[t].new
      /\ task'[t].from = task[t].from /\ task'[t].file = task[t].file
      /\ \A u \in Tasks : u # t => task'[u] = task[u]
  BY <1>1 DEF TypeOK
<1>3. UNCHANGED <<job, now, config, tmp, content, raced, saved, prior, lastUser>>
  BY DEF Lookup, files, history
<1>4. OnDisk' = OnDisk
  BY <1>3 DEF OnDisk
<1>5. /\ task[t].at = "lookup" /\ Stamps(t) /\ Asked(t) /\ Loaded(t)
      /\ t[2] # "upgrade" => t \notin saved
  BY DEF Lookup, RInv, Loaded, Stopped
<1>6. \A g \in Tasks : task'[g].file = task[g].file
  BY <1>2
<1>7. \A u \in Tasks : u # t => Stamps(u)' /\ Asked(u)' /\ Loaded(u)'
  <2>1. now <= now'
    BY <1>3, HasNumbers DEF Numbers
  <2>. QED BY <1>2, <1>3, <1>4, <1>6, <2>1, OthersKeep
<1>8. Stamps(t)'
  BY <1>1, <1>2, <1>3, <1>4, <1>5 DEF Stamps, Going, Writing
<1>9. Asked(t)'
  <2>1. \A v \in saved : task'[v].new = task[v].new
    BY <1>2 DEF TypeOK
  <2>2. t[2] = "upgrade" => at = "done"
    BY <1>1
  <2>. QED BY <1>2, <1>3, <1>5, <2>1, <2>2 DEF Asked, Going
<1>10. Loaded(t)'
  <2>1. task'[t].at \notin Writing /\ task[t].from \in Tasks \cup {NoFile}
    BY <1>2 DEF Writing, TypeOK
  <2>2. t \in saved' => Stopped(t)'
    BY <1>1, <1>2, <1>3, <1>5 DEF Stopped
  <2>. QED BY <1>2, <1>3, <1>5, <1>6, <2>1, <2>2 DEF Loaded
<1>11. Clock' /\ Last'
  BY <1>3, <1>4 DEF RInv, Clock, Last
<1>. QED BY <1>7, <1>8, <1>9, <1>10, <1>11 DEF RInv

LEMMA LoadStamps ==
  ASSUME TypeOK, TypeOK', HInv, RInv, NEW t \in Tasks, Load(t)
  PROVE  RInv'
<1>1. UNCHANGED <<job, now, config, tmp, content, raced, saved, prior, lastUser>>
  BY DEF Load, files, history
<1>2. /\ task'[t].asked = task[t].asked /\ task'[t].checked = task[t].checked
      /\ task'[t].file = task[t].file
      /\ \A u \in Tasks : u # t => task'[u] = task[u]
  BY DEF Load, TypeOK
<1>3. \/ /\ task'[t].at = "open" /\ task'[t].from = config /\ task'[t].new = Update(t, OnDisk)
         /\ Readable
      \/ /\ task'[t].at = "failed" /\ task'[t].from = task[t].from /\ task'[t].new = task[t].new
  BY DEF Load, TypeOK
<1>4. OnDisk' = OnDisk
  BY <1>1 DEF OnDisk
<1>5. task[t].at = "load" /\ t \notin saved /\ Stamps(t) /\ Asked(t) /\ Loaded(t)
  BY DEF Load, RInv, Loaded, Stopped
<1>6. \A g \in Tasks : task'[g].file = task[g].file
  BY <1>2
<1>7. \A u \in Tasks : u # t => Stamps(u)' /\ Asked(u)' /\ Loaded(u)'
  <2>1. now <= now'
    BY <1>1, HasNumbers DEF Numbers
  <2>. QED BY <1>1, <1>2, <1>4, <1>5, <1>6, <2>1, OthersKeep
<1>8. OnDisk.upgrade <= now /\ 0 <= now
  BY TimeBounded DEF RInv, Clock, OnDisk, Default, Never, TypeOK, Time
<1>9. ASSUME Readable
      PROVE  /\ t[2] = "upgrade" => Update(t, OnDisk).upgrade = now
             /\ t[2] # "upgrade" => Update(t, OnDisk).upgrade = OnDisk.upgrade
             /\ t[2] # "user" => Update(t, OnDisk).user = OnDisk.user
  <2>1. OnDisk \in Config /\ t[2] \in Kinds
    BY <1>9 DEF Readable, Tasks
  <2>2. CASE t[2] = "user"
    BY <2>1, <2>2 DEF Update, Config
  <2>3. CASE t[2] = "upgrade"
    BY <2>1, <2>3 DEF Update, Config
  <2>4. CASE t[2] = "compat"
    BY <2>1, <2>4 DEF Update, Config
  <2>. QED BY <2>1, <2>2, <2>3, <2>4 DEF Kinds
<1>10. Stamps(t)'
  BY <1>1, <1>2, <1>3, <1>5, <1>9 DEF Stamps, Going, Writing
<1>11. Asked(t)'
  <2>1. \A v \in saved : task'[v].new = task[v].new
    BY <1>2, <1>5 DEF TypeOK
  <2>. QED BY <1>1, <1>2, <1>5, <2>1 DEF Asked, Going
<1>12. Loaded(t)'
  <2>1. CASE task'[t].at = "failed"
    <3>1. task[t].from \in Tasks \cup {NoFile}
      BY DEF TypeOK
    <3>. QED BY <1>1, <1>3, <1>5, <1>6, <2>1, <3>1 DEF Loaded, Writing
  <2>2. CASE task'[t].at = "open"
    <3>1. config # NoFile => /\ task[config].file = config /\ config \in Tasks
                             /\ \A p \in Procs : tmp[p] # config
      BY DEF HInv, Published, Named, TypeOK
    <3>2. OnDisk.upgrade <= task'[t].new.upgrade /\ task'[t].new.upgrade <= now
      BY <1>3, <1>8, <1>9, <2>2, HasNumbers DEF Numbers
    <3>3. t[2] # "user" => task'[t].new.user = OnDisk.user
      BY <1>3, <1>9, <2>2
    <3>4. task'[t].from = config
      BY <1>3, <2>2
    <3>. QED BY <1>1, <1>4, <1>5, <1>6, <3>1, <3>2, <3>3, <3>4 DEF Loaded
  <2>. QED BY <1>3, <2>1, <2>2
<1>13. Clock' /\ Last'
  BY <1>1, <1>4 DEF RInv, Clock, Last
<1>. QED BY <1>7, <1>10, <1>11, <1>12, <1>13 DEF RInv

LEMMA OpenStamps ==
  ASSUME TypeOK, TypeOK', HInv, RInv, NEW t \in Tasks, Open(t)
  PROVE  RInv'
<1>1. PICK f \in Tasks :
        /\ f = t \/ f = tmp[t[1]]
        /\ tmp' = [tmp EXCEPT ![t[1]] = f]
        /\ content' = [content EXCEPT ![f] = Empty]
        /\ task' = [task EXCEPT ![t].at = "write", ![t].file = f]
  <2>1. tmp[t[1]] \in Tasks \cup {NoFile}
    BY DEF TypeOK, Tasks
  <2>2. CASE tmp[t[1]] = NoFile
    BY <2>2 DEF Open, TmpName
  <2>3. CASE tmp[t[1]] # NoFile
    BY <2>1, <2>3 DEF Open, TmpName
  <2>. QED BY <2>2, <2>3
<1>2. UNCHANGED <<job, now, config, raced, saved, prior, lastUser>>
  BY DEF Open, history
<1>3. /\ task'[t].at = "write" /\ task'[t].asked = task[t].asked
      /\ task'[t].checked = task[t].checked /\ task'[t].new = task[t].new
      /\ task'[t].from = task[t].from /\ task'[t].file = f
      /\ \A u \in Tasks : u # t => task'[u] = task[u]
  BY <1>1 DEF TypeOK
<1>4. /\ task[t].at = "open" /\ task[t].file = NoFile /\ t \notin saved
      /\ Stamps(t) /\ Asked(t) /\ Loaded(t)
  BY DEF Open, HInv, Held, RInv, Loaded, Stopped
<1>5. f # config
  <2>1. t # config
    BY <1>4, NoFileIsNone DEF HInv, Published
  <2>2. tmp[t[1]] # NoFile => tmp[t[1]] # config
    BY DEF HInv, Named, Tasks
  <2>. QED BY <1>1, <2>1, <2>2, NoFileIsNone
<1>6. OnDisk' = OnDisk
  BY <1>1, <1>2, <1>5 DEF OnDisk, TypeOK
<1>7. \A g \in Tasks : task[g].file = g => task'[g].file = g
  BY <1>3, <1>4, NoFileIsNone
<1>8. \A p \in Procs : tmp'[p] \in {NoFile, tmp[p]} \/ task[tmp'[p]].file # tmp'[p]
  BY <1>1, <1>4, NoFileIsNone DEF TypeOK
<1>9. \A u \in Tasks : u # t => Stamps(u)' /\ Asked(u)' /\ Loaded(u)'
  <2>1. now <= now'
    BY <1>2, HasNumbers DEF Numbers
  <2>. QED BY <1>2, <1>3, <1>6, <1>7, <1>8, <2>1, OthersKeep
<1>10. Stamps(t)'
  BY <1>2, <1>3, <1>4 DEF Stamps, Going, Writing
<1>11. Asked(t)'
  <2>1. \A v \in saved : task'[v].new = task[v].new
    BY <1>3, <1>4 DEF TypeOK
  <2>. QED BY <1>2, <1>3, <1>4, <2>1 DEF Asked, Going
<1>12. Loaded(t)'
  <2>1. task[t].from # NoFile =>
          task'[task[t].from].file = task[t].from /\ \A p \in Procs : tmp'[p] # task[t].from
    <3>1. task[t].from \in Tasks \cup {NoFile}
      BY DEF TypeOK
    <3>. QED BY <1>4, <1>7, <1>8, <3>1 DEF Loaded
  <2>. QED BY <1>2, <1>3, <1>4, <1>6, <2>1 DEF Loaded, Writing
<1>13. Clock' /\ Last'
  <2>1. \A g \in Tasks : content'[g].upgrade = content[g].upgrade \/ content'[g].upgrade = -2
    BY <1>1 DEF TypeOK, Empty
  <2>2. 0 <= now
    BY TimeBounded DEF TypeOK, Time
  <2>3. Clock'
    BY <1>2, <2>1, <2>2, HasNumbers DEF RInv, Clock, Numbers
  <2>. QED BY <1>2, <1>6, <2>3 DEF RInv, Last
<1>. QED BY <1>9, <1>10, <1>11, <1>12, <1>13 DEF RInv

LEMMA WriteStamps ==
  ASSUME TypeOK, TypeOK', HInv, RInv, NEW t \in Tasks, Write(t)
  PROVE  RInv'
<1>. DEFINE f == task[t].file
<1>1. PICK at \in {"rename", "done"}, c \in {task[t].new, Garbled} :
        content' = [content EXCEPT ![f] = c] /\ task' = [task EXCEPT ![t].at = at]
  BY DEF Write, Then
<1>2. UNCHANGED <<job, now, config, tmp, saved, prior, lastUser>>
  BY DEF Write
<1>3. /\ task'[t].at = at /\ task'[t].asked = task[t].asked
      /\ task'[t].checked = task[t].checked /\ task'[t].new = task[t].new
      /\ task'[t].from = task[t].from /\ task'[t].file = task[t].file
      /\ \A u \in Tasks : u # t => task'[u] = task[u]
  BY <1>1 DEF TypeOK
<1>4. /\ task[t].at = "write" /\ t \notin saved
      /\ Stamps(t) /\ Asked(t) /\ Loaded(t)
  BY DEF Write, RInv, Loaded, Stopped
<1>5. (raced => raced') /\ (~raced' => config # f)
  BY Zenon DEF Write
<1>6. ~raced' => OnDisk' = OnDisk
  BY <1>1, <1>2, <1>5 DEF OnDisk, TypeOK
<1>7. \A g \in Tasks : task'[g].file = task[g].file
  BY <1>3
<1>8. \A u \in Tasks : u # t => Stamps(u)' /\ Asked(u)' /\ Loaded(u)'
  <2>1. now <= now'
    BY <1>2, HasNumbers DEF Numbers
  <2>. QED BY <1>2, <1>3, <1>5, <1>6, <1>7, <2>1, OthersKeep
<1>9. Stamps(t)'
  BY <1>2, <1>3, <1>4 DEF Stamps, Going, Writing
<1>10. Asked(t)'
  <2>1. \A v \in saved : task'[v].new = task[v].new
    BY <1>3 DEF TypeOK
  <2>. QED BY <1>2, <1>3, <1>4, <1>5, <2>1 DEF Asked, Going
<1>11. Loaded(t)'
  <2>1. task[t].from \in Tasks \cup {NoFile}
    BY DEF TypeOK
  <2>. QED BY <1>2, <1>3, <1>4, <1>5, <1>6, <1>7, <2>1 DEF Loaded, Writing
<1>12. Clock' /\ Last'
  <2>1. \A g \in Tasks : content'[g] = content[g] \/ content'[g] = c
    BY <1>1 DEF TypeOK
  <2>2. c.upgrade <= now
    BY <1>4, TimeBounded DEF Loaded, Garbled, TypeOK, Time
  <2>3. Clock'
    BY <1>2, <2>1, <2>2 DEF RInv, Clock
  <2>. QED BY <1>2, <1>5, <1>6, <2>3 DEF RInv, Last
<1>. QED BY <1>8, <1>9, <1>10, <1>11, <1>12 DEF RInv

LEMMA RenameStamps ==
  ASSUME TypeOK, TypeOK', HInv, RInv, NEW t \in Tasks, Rename(t)
  PROVE  RInv'
<1>. DEFINE f == tmp[t[1]]
<1>a. t[1] \in Procs /\ f \in Tasks \cup {NoFile}
  BY DEF TypeOK, Tasks
<1>1. CASE f = NoFile
  <2>1. /\ UNCHANGED <<config, tmp, content, raced, saved, prior, lastUser, now>>
        /\ task' = [task EXCEPT ![t].at = "failed"]
    BY <1>1 DEF Rename, TmpName, files
  <2>2. \A u \in Tasks : /\ task'[u].asked = task[u].asked /\ task'[u].checked = task[u].checked
                         /\ task'[u].new = task[u].new /\ task'[u].from = task[u].from
                         /\ task'[u].file = task[u].file
                         /\ task'[u].at \in {task[u].at, "done", "failed"}
    BY <2>1 DEF TypeOK
  <2>. QED BY <2>1, <2>2, StillKeeps
<1>2. CASE f # NoFile
  <2>1. PICK at \in {"lookup", "done"} :
          /\ task' = [task EXCEPT ![t].at = at]
          /\ at = "lookup" => t[2] = "upgrade"
    <3>1. /\ Then(t, IF t[2] = "upgrade" THEN "lookup" ELSE "done") \in {"lookup", "done"}
          /\ t[2] # "upgrade" => Then(t, IF t[2] = "upgrade" THEN "lookup" ELSE "done") = "done"
      BY DEF Then
    <3>. QED BY <1>2, <3>1 DEF Rename, TmpName
  <2>2. /\ task'[t].at = at /\ task'[t].asked = task[t].asked
        /\ task'[t].checked = task[t].checked /\ task'[t].new = task[t].new
        /\ task'[t].from = task[t].from /\ task'[t].file = task[t].file
        /\ \A u \in Tasks : u # t => task'[u] = task[u]
    BY <2>1 DEF TypeOK
  <2>3. /\ config' = f /\ tmp' = [tmp EXCEPT ![t[1]] = NoFile] /\ content' = content
        /\ saved' = saved \cup {t} /\ UNCHANGED <<job, now, prior>>
        /\ lastUser' = IF t[2] = "user" THEN task[t].new.user ELSE lastUser
    BY <1>2 DEF Rename, TmpName
  <2>4. (raced => raced') /\ (~raced' => config = task[t].from /\ content[f] = task[t].new)
    BY <1>2, Zenon DEF Rename, TmpName
  <2>5. ~raced' => OnDisk' = task[t].new
    BY <1>2, <2>3, <2>4 DEF OnDisk
  <2>6. task[t].at = "rename" /\ t \notin saved /\ Stamps(t) /\ Asked(t) /\ Loaded(t)
    BY DEF Rename, RInv, Loaded, Stopped
  <2>7. ~raced' => OnDisk.upgrade <= OnDisk'.upgrade
    BY <2>4, <2>5, <2>6 DEF Loaded, Writing
  <2>8. \A g \in Tasks : task'[g].file = task[g].file
    BY <2>2
  <2>9. \A u \in Tasks : config' # task[u].from
    BY <1>2, <1>a, <2>3 DEF RInv, Loaded
  <2>10. \A p \in Procs : tmp'[p] \in {NoFile, tmp[p]}
    BY <2>3 DEF TypeOK
  <2>11. \A u \in Tasks : u # t => Stamps(u)' /\ Asked(u)' /\ Loaded(u)'
    <3>1. now <= now'
      BY <2>3, HasNumbers DEF Numbers
    <3>. QED BY <2>2, <2>3, <2>4, <2>7, <2>8, <2>9, <2>10, <3>1, OthersKeep
  <2>12. Stamps(t)'
    <3>1. task[t].new.upgrade <= task[t].new.upgrade
      BY HasNumbers DEF Numbers
    <3>. QED BY <2>1, <2>2, <2>3, <2>5, <2>6, <3>1 DEF Stamps, Going, Writing
  <2>13. Asked(t)'
    <3>1. \A v \in saved : task'[v].new = task[v].new
      BY <2>2 DEF TypeOK
    <3>. QED BY <2>2, <2>3, <2>4, <2>6, <3>1 DEF Asked, Going
  <2>14. Loaded(t)'
    <3>1. task'[t].at \notin Writing /\ task[t].from \in Tasks \cup {NoFile}
      BY <2>2 DEF Writing, TypeOK
    <3>2. Stopped(t)' \/ (task'[t].at = "lookup" /\ t[2] = "upgrade")
      BY <2>1, <2>2 DEF Stopped
    <3>. QED BY <2>2, <2>3, <2>6, <2>8, <2>10, <3>1, <3>2 DEF Loaded
  <2>15. Clock' /\ Last'
    <3>1. Clock'
      BY <2>3 DEF RInv, Clock
    <3>2. Last'
      BY <2>3, <2>4, <2>5, <2>6 DEF RInv, Last, Loaded, Writing
    <3>. QED BY <3>1, <3>2
  <2>. QED BY <2>11, <2>12, <2>13, <2>14, <2>15 DEF RInv
<1>. QED BY <1>1, <1>2

(***************************************************************************)
(* RInv is inductive beside HInv.                                          *)
(***************************************************************************)
LEMMA StampsInductive == TypeOK /\ TypeOK' /\ HInv /\ RInv /\ [Next]_vars => RInv'
<1> SUFFICES ASSUME TypeOK, TypeOK', HInv, RInv, [Next]_vars PROVE RInv'
  OBVIOUS
<1>1. ASSUME NEW t \in Tasks, Step(t) PROVE RInv'
  BY <1>1, BeginStamps, LookupStamps, LoadStamps, OpenStamps, WriteStamps, RenameStamps DEF Step
<1>2. ASSUME NEW t \in Tasks, Drop(t) PROVE RInv'
  <2>1. UNCHANGED <<config, tmp, content, raced, saved, prior, lastUser, now>>
    BY <1>2 DEF Drop, files, history
  <2>2. \A u \in Tasks : /\ task'[u].asked = task[u].asked /\ task'[u].checked = task[u].checked
                         /\ task'[u].new = task[u].new /\ task'[u].from = task[u].from
                         /\ task'[u].file = task[u].file
                         /\ task'[u].at \in {task[u].at, "done", "failed"}
    BY <1>2 DEF Drop, TypeOK
  <2>. QED BY <2>1, <2>2, StillKeeps
<1>3. ASSUME NEW p \in Procs, Kill(p) PROVE RInv'
  <2>1. UNCHANGED <<config, tmp, content, raced, saved, prior, lastUser, now>>
    BY <1>3 DEF Kill, files, history
  <2>2. \A u \in Tasks : /\ task'[u].asked = task[u].asked /\ task'[u].checked = task[u].checked
                         /\ task'[u].new = task[u].new /\ task'[u].from = task[u].from
                         /\ task'[u].file = task[u].file
                         /\ task'[u].at \in {task[u].at, "done", "failed"}
    BY <1>3 DEF Kill, TypeOK
  <2>. QED BY <2>1, <2>2, StillKeeps
<1>4. CASE Tick
  <2>1. UNCHANGED <<config, tmp, content, task, raced, saved, prior, lastUser>> /\ now' = now + 1
    BY <1>4 DEF Tick, files, history
  <2>. QED BY <2>1, StillKeeps
<1>5. CASE UNCHANGED vars
  <2>1. UNCHANGED <<config, tmp, content, task, raced, saved, prior, lastUser, now>>
    BY <1>5 DEF vars
  <2>. QED BY <2>1, StillKeeps
<1>. QED BY <1>1, <1>2, <1>3, <1>4, <1>5 DEF Next

LEMMA StampsAlways == Spec => []RInv
<1>1. Init => RInv
  <2> SUFFICES ASSUME Init PROVE RInv
    OBVIOUS
  <2>1. \A t \in Tasks : /\ task[t].at \in {"start", "load", "done"} /\ task[t].asked = FALSE
                         /\ task[t].new = Default /\ task[t].from = NoFile
                         /\ t[2] = "upgrade" => task[t].at # "load"
    BY DEF Init
  <2>2. now = 0 /\ config = NoFile /\ saved = {} /\ lastUser = NoUser
    BY DEF Init
  <2>3. \A t \in Tasks : Stamps(t) /\ Asked(t) /\ Loaded(t)
    BY <2>1, <2>2 DEF Stamps, Asked, Loaded, Going, Writing, Default, Never
  <2>4. Clock
    BY <2>2 DEF Init, Clock, Empty
  <2>5. Last
    BY <2>2 DEF Last, OnDisk, Default
  <2>. QED BY <2>3, <2>4, <2>5 DEF RInv
<1>. QED BY <1>1, HoldAlways, StampsInductive, PTL DEF Spec

(***************************************************************************)
(* What `lade user` confirmed is kept as long as nobody wrote over a file  *)
(* it had not loaded.                                                      *)
(***************************************************************************)
THEOREM UserKeptHolds == Spec => []UserKeptUnlessRaced
<1>1. RInv => UserKeptUnlessRaced
  BY DEF RInv, Last, UserKeptUnlessRaced
<1>. QED BY <1>1, StampsAlways, PTL

(***************************************************************************)
(* The attempt is on disk before GitHub is asked.                          *)
(***************************************************************************)
THEOREM AttemptStampedFirstHolds == Spec => []AttemptStampedFirst
<1>1. TypeOK /\ RInv => AttemptStampedFirst
  BY HasNumbers DEF RInv, Stamps, AttemptStampedFirst, Numbers
<1>. QED BY <1>1, HoldAlways, StampsAlways, PTL

(***************************************************************************)
(* GitHub is asked once a day.                                             *)
(***************************************************************************)
THEOREM OncePerDayHolds == Spec => []OncePerDay
<1>1. RInv => OncePerDay
  BY DEF RInv, Asked, OncePerDay
<1>. QED BY <1>1, StampsAlways, PTL
=============================================================================
