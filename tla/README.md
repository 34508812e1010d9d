# lade in TLA+

lade runs a command with the secrets, secret files and network forwards that
the rules of a `lade.yml` ask for, and takes them away again when the command
ends. This directory holds TLA+ models of the parts of lade in which several
actors share state, the TLC configurations that check them, and TLAPS proofs
of their main invariants. Paths below are relative to the repository.

## 1. Inventory

| Part | State | Operations | Other parts it meets |
| --- | --- | --- | --- |
| Binding resolution (`src/config/mod.rs`, `sdk/src/resolve.rs`, `sdk/src/lib.rs`) | counts of open references, the values so far, the running groups | build the graph, refuse cycles, start groups of bindings, take in a finished group, fail | called by acquisition; calls the secret providers |
| Supervised forward (`src/network/process.rs`) | shutdown flag, channel of shutdown messages, published process id, readiness channel, the child process | supervise, spawn, probe, restart, construct, drop | one per network binding; owned by acquisition |
| Acquisition (`src/inject.rs`, `src/access.rs`, `src/network/acquire.rs`, `src/files.rs`, `src/provider_progress.rs`) | two racing tasks, a session thread, a worker thread per binding, the files on disk | resolve, write files, connect, join, clean up, hand over, exit | callers: `lade inject`, `lade set`, `lade mcp` |
| Shell hooks (`src/scripts/on.*`, `off.*`, `handle_set` and `handle_unset` of `src/inject.rs`, `src/shell`) | `LADE`, `LADE_RESTORE`, `LADE_NETWORK_PIDS` and the user's own variables, files, forwards | preexec, the line, precmd, `lade on`, `lade off` | runs `lade set` and `lade unset` |
| Rule overlay (`src/config`) | none, a function of rules and command | match, overlay, unset, group by output | input of resolution and of unset |
| Disclaimers and approval (`src/prompt.rs`, `src/audience.rs`) | `LADE_PENDING`, `LADE_APPROVE`, the clock, the codes somebody saw | show and withhold, verify a code, ask for "yes", approve the last line | inside set, inject, approve; agents come in by their hook |
| Redaction (`src/redact.rs`, `src/masking.rs`, `src/exec`) | text read and not yet written, a thread for each stream | read a chunk, scan, write, flush at the end | the output of a command under inject |
| MCP bridge (`src/mcp.rs`, `sdk/src/mcp.rs`) | the session of the HTTP server, the message in hand, the child and two copying tasks | forward a message, read a body or a stream of events, end, release the session | runs on acquired access |
| Global configuration (`src/global_config.rs`, `src/upgrade.rs`, `src/compat.rs`) | one file shared by every lade process, one temporary name for each process | load, change, write, rename | `lade user`, the update check, the check of the tools |
| Agent hooks (`src/pretool`) | settings files of agents | rewrite a tool call, install | start `lade inject` |
| Secret providers (`sdk/src/providers`) | the urls kept, the tools that run, their directories, the values so far | take a source, call a tool, fall back, time out, look up | called by resolution |
| Command lines of network tools (`src/network/command.rs`, `parse.rs`, `kubeconfig.rs`) | none | build argument lists, pick a port | used by forwards |
| Terminal output, arguments (`src/message_box`, `src/args.rs`) | none | layout | everywhere |

What makes each part correct:

- Resolution: a binding is asked for exactly once and only when all it refers
  to has a value, cycles are refused and nothing else, a value built from a
  secret is a secret, and every acyclic set of bindings ends.
- Forward: no provider process outlives its owner, a signal meant for one provider
  never goes to the id of an earlier one, construction and drop return, a crashed
  provider comes back.
- Acquisition: a command gets all it asked for or nothing; whatever was
  written or opened is gone when lade is, whichever task failed first; nobody
  waits for ever.
- Hooks: after the line the shell is as the user had it, wherever the line
  went; what lade removes is lade's own.
- Overlay: the later rule wins in all outputs.
- Disclaimers: no secret of a rule with one is given out without an approved text, a
  "yes", or a recent code of that very command; what `lade approve` opens for a human was
  shown to a human in full; a code that was shown does work.
- Redaction: how the output is cut into reads does not change what is masked, no
  secret gets through, and of what waits for more output, as a prompt does, only the last letters are
  kept back.
- MCP: a request is answered once and in order, the session of the server is
  released when the bridge is done with it or gives up, and the command keeps its access.
- Global configuration: no torn file, no lost user, GitHub is asked once a day.
- Providers: each binding gets the value of its own source, masked as it should
  be, in whatever order the calls end; no directory is left; scripts cannot hang lade.

The hard behaviours are the concurrent ones (supervisor and owner, the race of
secrets and network, several shells on one directory, several processes on one
configuration, calls of providers side by side), the partial failures (one
worker of several, one of two tasks, one call of several, unset itself), and
state that is read in one place and used in another (a process id, the current
directory, a pending line, the rules matched a second time). `PROJECT.json`
lists each at its line.

## 2. Modules

| Module | Content |
| --- | --- |
| `Resolution` | what resolution promises: abstract specification |
| `Hydrate`, `MCHydrate`, `HydrateProofs` | the graph and the scheduler |
| `Forward` | one supervised forward; its proofs are in `AcquireProofs` |
| `Acquire`, `AcquireProofs` | acquisition and cleanup of one command's access |
| `HookSession`, `MCHookSession` | shells with lade's hooks; proofs in `ApprovalProofs` |
| `Overlay`, `MCOverlay`, `OverlayProofs` | what the rules that match a command bind |
| `Providers`, `MCProviders`, `ProvidersProofs` | one resolution by the providers |
| `Approval`, `MCApproval`, `ApprovalProofs` | disclaimers and their approval |
| `GlobalConfig`, `MCGlobalConfig`, `GlobalConfigProofs` | the configuration file and its writers |
| `Redact`, `MCRedact`, `RedactProofs` | the output of a command |
| `Mcp`, `McpProofs` | the stdio proxy and the HTTP bridge |

`Hydrate` is a component of `Acquire` seen from inside (there, "secrets are
resolved" is one step with two outcomes); `Forward` is a component of `Acquire`
as well (there, a worker's forward is up or stopped). `Acquire` under mode
`set` is what `HookSession` calls in one step. Each module states which
part of its neighbour it relies on. `Overlay` comes before all of them: the bindings
that `Hydrate` starts from and the workers of `Acquire` are its `bindings` and
`networks`, and the `keys` are what unset goes by in `HookSession`. `Providers` is one
call of `Hydrate` seen from inside: a batch of sources that ends with all their
values or with an error. `Approval` decides what in `HookSession` and `Acquire` is an input:
whether set or inject gets past the disclaimers. `Redact` and `Mcp` are what runs on the
access while `Acquire` waits for the command. `GlobalConfig` runs beside everything.

### Hydrate

`Config::hydrate_rules` and the `Dag` of `resolve.rs`. `Init` chooses any graph
of references and any grouping (the references of a binding are a set, as they are in the
`BTreeSet` of the code: that a double one counts once is taken over from it, not checked); `Place` is the directory
or provider that keeps calls apart. `BuildDag` counts, `Launch` starts all ready
bindings grouped into calls, `Complete` takes in one finished call and
decrements its dependents, `Fail` is `?` on a provider's error or panic, `Finish` hands
the values out. `Cyclic` is the textbook definition of a cycle, by
reachability, and `PlanExact` compares the counting of `validate_acyclic` with
it. Values are abstract: what matters is whether the references were filled in
and whether a masking provider took part (`Tainted`). The overlay of rules and
the choice of a provider are those of `Overlay` and `Providers`.

### Forward

One step per access to shared state, in the order of the code. The variable
`sup` is the supervisor's place in `supervise`, `own` that of the owner in
`drop`; `childPid` is the atomic process id, `messages` the shutdown channel,
`ready` the readiness channel, `late` the passing of `STARTUP_TIMEOUT`, which
is fixed once. The end of a provider has four steps of its own: `Stop` asks the group of its id,
`Reap` or `Wait` waits for the process, `Clear` takes the id back, `Drain` joins the readers of its
output, which `helper`, another process of its group, may hold open. Process ids are used again as
soon as they are waited for, published or not: by the next provider, or by a
process that is none of lade's (`stranger`). `foreign`: another
process listens on the port. The provider can crash, listen or hang. What it prints
and the wording of errors are left out.

### Acquire

`mode` is the caller. The main thread's place is `main`; `worker` and `forward`
hold each binding's thread and process; `net` and `joined` are the session
thread, which joins in order. `SecretOk` includes the writing of files because
`prepare_secrets` does both without awaiting; the writing is one step, which fails as a whole
(`SecretErr`): that `write_files` undoes a part of it is an assumption. `NetFirst` is the branch of
`select!` that drops the secrets' future. Dropped guards of workers that were not
joined run on those workers' threads (`DropAbandoned`) and race with the exit
of the program. A stop is taken for complete: that is what `NoOrphan` of
`Forward` shows for guards, and an assumption about providers for `set`. A
drop that hangs (finding `forward_drop`) is not repeated here. SIGINT and SIGTERM
during the command and a failing `remove_files` are not modelled; nor is a
conflict of variable names in `merge_env`, which `NoNameTwice` of `OverlayProofs`
excludes.

### HookSession

Every shell has its directory, its hooks, `LADE` (`line`), the variable of the
rule, `LADE_RESTORE`, `LADE_NETWORK_PIDS` and a forward. The `lade.yml` is in
`top`, `sub` lies below it and `out` elsewhere. A call of set or unset is one
step, since the shell waits for it and its exchanges with the disk are single
operations (`create_new`, `remove_file`); lines of several shells interleave
freely. A line may change directory and may turn the hooks off.
`SetNothing` is a set that finds no rule, is denied or fails after it has printed what undoes the
line before; `SetRefused` one that ends before it prints anything (a `lade.yml` that cannot
be read, an unknown shell), which clears nothing: `told` tells them apart. `OwnLine` is a line that begins with
`lade`, which the hooks let pass. `own` is what the user has given the variable last, other than
in a line that had the secret in it. One rule, one
variable and one file stand for all: they are handled alike. `lade approve` and
`LADE_PENDING` are in `Approval`.

### Overlay

Four functions of `src/config/mod.rs` go over the same rules: what is connected,
announced, resolved, and known to unset. `view` is the function at work, `at` the
rule, `todo` the entries it has left of that rule: it takes them in any order, as a
HashMap gives them. An entry is a name with or without the dot of a private
binding, its value what `resolve_entry` makes of it (`Of`); `Refused` is each
`bail!` of `bindings_from_rules`. `Overlaid` is the definition by the last rule
that all four are measured against. Which rules match, the audience and the user
of a per-user map are inputs (`rules`); the token of a 1Password service account
and the marks for the display (silent, overridden, cancelled) are left out.

### Providers

`env` binds each name to a source: its scheme, the url it is parsed to, the place
its provider calls for (host, project, environment or file), the folder, the
variable, and what it `lacks`: a part the calls are put together by, or only the variable. `Add` is `Providers::add` with the fallback to `Raw` for what no provider takes;
`Start` makes one call for each place of each provider; the calls then go on in
any order: `Answers` for those that ask for all variables of a place, `Prints` for
scripts, `InjectOk`, `InjectRefused`, `InjectMissing` and `ReadOne` for 1Password, which goes on one
by one when the first call was refused, with `warned` as what the user is told. Read one by one a
reference loses its section, so that any field of the same item and label may answer (`SameLabel`). The first failure
ends the resolution and drops the other calls; `ToolExits` are their processes, which are not
killed. `Infisical` makes a directory for each project, `dirs`. `StartPanics` and `Finish` are the
places where a provider takes a source apart without a check and where a value is looked
up that may not be there; a variable that is missing shows only in the answer (`AllThere`). What a tool prints is a value or nothing of use.

### Approval

`config` is what each directory's `lade.yml` says, which may be nothing that can be read
(`Unreadable`: lade gives up before it prints), fixed for a behaviour. A `run` is one
process of lade at its place between the command it was started with and what
it gave out; the shell's are set, inject and approve, the agent's come through its hook
(`Rewrite`). A text is the command with the `LADE_APPROVE=` before it, since a pattern anchored
at its beginning does not match behind one. A code is a text and a window of
five minutes, as in the code; it names no disclaimers and no directory. HMAC is taken to be injective. `Verify` accepts the window of the clock and
the one before. `Gate` is `prompt::confirm_disclaimers` and its callers; `Withhold` shows the
disclaimers and, in set, leaves `LADE_PENDING`; `Evaluates` is what the shell keeps of what set
printed; `last` is the last line for which it printed anything. `shown` is the history of what was shown with which code to whom. The clock ticks
between any two steps, so that approve, which verifies twice, may see two windows.
Whether an agent is named in the environment (`signal`) and whether there is a terminal
are inputs. set is told by its hook that a human types; approve looks for itself.

### GlobalConfig

A writer is a task of a process: the update check, the check of the tools, `lade user`.
Each step is one access to the disk: `Begin` and `Load` read, `Open` truncates or creates
the temporary file, `Write` fills it, `Rename` publishes it. A file is known by the task that
created it, since an open file goes on under another name: the two tasks of one process
have the same temporary name, and the one may write into what the other has published. `Drop` is the end
of the wait for the update check, whose call in progress still goes on in its thread; `Kill`
stops a process anywhere. `raced` is set when a writer has replaced a file it had not
loaded, or written into the published one: there is no lock, and an update is lost then.

### Redact

`said` is what the command will write to each stream and `text` what of it is there to read: the same
in a pipe, and over a pseudo terminal, which lade opens with default flags, with a return before each
newline (`Arrived`). `written`, `got` and `base` are how far it was
written, read and shown, `out` the pieces shown. `Scan` is one pass of the redactor over its buffer: at each
place the longest pattern, or one letter in clear. `Fork` and `Close` are processes of the command that
keep a stream open. `Mode` is the way of running: pipes with two threads, a pseudo
terminal, or nothing to mask. `ReadError` is the end of a pseudo terminal on Linux (EIO),
`WriteFails` a write or flush of lade's own that fails in the middle of a turn, after which the stream is `lost`.

### Mcp

`main` is the place of lade in either transport. HTTP: `ReadLine` takes a message, `PostFails`,
`Accepted`, `Refused` (a failing status), `Unsupported` (a type of content lade does not take) and
`Succeeds` are the answers of the server to the post, any of which may open a session (`Opens`; `opened` says by
which answer, `known` whether the bridge holds its id), `Body`, `Event`, `StreamEnds`,
`StreamBreaks` what follows, `CleanupSession` the DELETE. stdio: `Select` and `Grace` are the two `select!` of
`proxy_stdio`, `CopyIn`, `CopyInEnds`, `CopyOut`, `CopyOutEnds` and `CopyFails` its tasks. A pipe may be full: that of the
command until it reads (`full`, `ChildReads`), that of the client until it does (`stalled`, `ClientStalls`). The client
may send, close its end (`eof`) or go away (`gone`): the next output then kills lade, as `main` restores the default action of
SIGPIPE; so does a copy to a command that has closed its input. `asked` is a server that waits for the client's reply in the middle of a stream; the
bridge reads no input until the stream is over.

## 3. Runs

| Run | Bounds | Shows |
| --- | --- | --- |
| `hydrate` | 3 bindings, 2 places, all graphs | plan, order, masking, termination, and that `Hydrate` implements `Resolution` |
| `forward` | 2 process ids, 2 faults | no orphan, when a signal may stray, construction returns, drop returns outside of a restart |
| `forward_drop` | the same | violated: drop hangs when it meets a restart |
| `acquire` | 3 bindings, all modes | files and forwards after every exit, complete access for commands, no deadlock of renderer, workers and tasks |
| `hooks` | 2 shells, 1 fault | the environment is restored at every prompt, no forward is lost, ids signalled are those of the line, when a file of the user's is removed |
| `overlay` | 3 rules over one name in both forms, and 2 rules with one more entry on a number or an odd name; 1 file | the last rule wins in all functions, in any order of entries; refusals are exact; unset removes what set writes, for regular names |
| `providers` | 3 bindings, each over 15 sources of all providers | each gets its own value and mask, when one is lost, nothing left on disk, scripts end |
| `approval` | 2 commands, 2 directories, 2 disclaimers, a `lade.yml` that cannot be read among others, 3 windows, 3 runs of lade | fresh consent, approve opens what was shown and only the last line, shown codes work |
| `config` | 4 plans for 3 processes, a clock of 3 days | the file is whole, the user is kept, GitHub is asked once a day |
| `redact` | 4 names on 3 masked values of which one begins another and one has two lines, every text of 5 letters on one line and of 4 on several, any reads of up to 5, 3 sets of terminals, both platforms, failing writes | the reads cannot be seen in the output, no secret in clear, little is held back, lade ends |
| `output_tail` | the same | violated: the end of the output of a terminal is lost on Linux |
| `mcp` | 3 messages, both transports | one answer each and in order, the session is released, the command keeps its access, lade ends |

Why the bounds are enough. Three bindings have every shape of cycle and of
sharing that counting could get wrong (a self reference, two- and
three-cycles, a diamond's half), and the proofs cover any
number. Two process ids are what a reused id needs, two faults a
crash, a restart and a crash during it. Three workers have one joined, one
failed and one after it. Two shells give every interference over the one file
they share; a third would add only another owner. One failure of unset, then
any number of lines, reaches all leftovers one failure can cause. Three rules
are an entry, what replaces it and what comes back after; names do not interact
except through refusals, for which one more entry is enough. Three bindings
put two calls of one provider beside one of another, or two sources that
collide beside a third. Three runs of lade are a line withheld, another line or
a code used, and an approval of it; three windows are that of the code, the
next, in which it still holds, and the one in which it does not. Three
processes are two that race and one whose update is lost; the day is one tick,
so that the third lies past the end of an interval that began with the first.
A text of five letters has two of the longest secret that overlap, or two of the
other at any distance; one of four has a newline in any place of a value of two lines; and the
chunk of five is longer than what is held back. Three messages have one answered, one in hand
and one waiting.

Deadlock is checked in `hooks` (a shell can always go on); the other systems
end, or are bounded by a clock, and where they must end a liveness property
says that they do.

Fairness. `Hydrate`: the runtime polls futures that are ready, and a provider
call ends. `Forward`: both threads are scheduled, time passes, and a provider
that was sent SIGTERM exits; nothing is assumed about whether it ever listens
or whether the owner drops. `Acquire`: threads are scheduled, probes
end by their deadline, the calls of providers end (an assumption: of the providers only scripts have a
limit), the command ends; Ctrl-C is never assumed. `Providers`:
lade's own steps and its time limit, nothing of a tool; only scripts
have a limit, so `ScriptsEnd` is about resolutions that call nothing else, and
the assumption of `Hydrate` that a call ends is, for the other providers, one about their tools.
`Redact`: lade's threads are scheduled; that the command exits and closes its
streams is a premise of `Returns`. `Mcp`: the tasks of lade are scheduled; an
HTTP server answers and ends its streams, unless it waits for a reply itself
(the client of the bridge has no time limit, so this is an assumption about
servers); of the command and the client of the proxy nothing is assumed, `Ends` names
what they can hold up. `HookSession`,
`Overlay`, `Approval` and `GlobalConfig` check safety only.

## 4. Proofs

The theorems hold for all values of the constants under the named
assumptions of the modules (`N \in Nat \ {0}`, known modes, finite sets where
counting needs them).

- `HydrateProofs`: the counts never go negative (`TypeCorrect`), the plan is
  exact, references are filled, masking is exact, each binding runs once, and
  `Hydrate` implements `Resolution`. The inductive invariant `IInv` says, beside
  types, that every count equals the number of references without a value yet
  (`Counts`), that what was visited is closed under references (`Ordered`),
  that waiting, running and finished bindings are apart (`Apart`), that a value
  has its references filled (`Filled`), and what each phase has reached
  (`Phase`). `PlanExact` needs `Ordered` because a cycle survives the counting
  exactly as the unvisited rest, which is closed under having a predecessor.
- `AcquireProofs`, its second part, about `ForwardSpec`: `NoOrphan`, `StraySignals` and
  `PublishedWhileReady`, for any process ids and number of faults. The module extends both
  components, which is why the specification of `Forward` carries its name. The
  invariant relates the supervisor's place to the child's state (`Childless`), to
  the published id (`Published`), to readiness (`Readiness`), the id that
  drop has read to the child (`Aimed`): once the flag is set the supervisor can
  start no other process before the signal, unless it was already about to; and says that a stranger has
  the child's id only when the child was waited for (`Apart`). `StraySignals` follows for both signals
  of lade: they may reach a stranger, but only after the provider started last has ended by itself.
- `AcquireProofs`, its first part: `NoFileLeft`, `RunsComplete`, `HandedOver`,
  `OnlyAbandonedLeft`, `Settled`, for any number of bindings. The invariant
  relates workers to their forwards (`Workers`), joined workers to success
  (`Joined`), a complete session to all of them (`Whole`), the main thread's place to
  the tasks (`Course`) and to the files (`Filed`), and says what each exit left
  (`Ended`).
- `OverlayProofs`: `Overlaid`, `NoConflict` and `Announced`, for any number of
  rules and names. The invariant says of the function at work what it has made of
  the entries it has come upon so far (`Heard`, `LastHeard`: `NetworksSoFar`,
  `SourcesSoFar`, `BindingsSoFar`), and of those that have ended that they brought
  the last word of the rules. `OwnSoFar` and `OwnLast` hold even for a rule that
  has both `K` and `.K`, where the order of the HashMap decides which is bound:
  from them follow `NoConflict` and `Announced` for such rules too. Two more invariants
  stand on this one. `KeysInv` says what unset has gathered of the rules it has passed; a
  regular name is in `keys` and in `bindings` by the same rules, hence `RegularFilesAgree`.
  `RefusalInv` says that no bad entry was passed, and no clash unless some rule has
  both forms of a name; both ways of `RefusalExact` follow, since what is refused is
  at hand when it is.
- `ApprovalProofs`, its second part, about `HookSpec`: `EnvRestored`, `ForwardsTracked` and `UserFileTaken`, for any number of
  shells. The module extends both components, so `HookSession` has names of its own too. Of each shell the invariant says that a prompt has no line to undo, that a snapshot
  is there only for a line and is what the user had (`Env`), and that ids and a running forward
  go together (`Ids`), both until an unset fails; and, whatever fails, that ids in the
  environment of a line for which set printed something are those of its own forward (`Owned`; `told` is needed, as
  a set that prints nothing leaves the ids an unset that failed had left) and that a snapshot means lade
  wrote the file of the rule itself (`Claimed`). A step touches one shell and the files only, so each
  part is proved for that shell and carried over for the others. `UserFileTaken` is an
  action property: `Claimed` is what excludes a removal after a successful set.
- `GlobalConfigProofs`: `ConfigWhole`, `UserKeptUnlessRaced`, `AttemptStampedFirst` and
  `OncePerDay`, for any processes and plans. `HInv` says who has which file in hand: a
  file belongs to the process of the task that created it, which holds it from
  then on (`Held`, `Published`), the one under a temporary name was never published
  (`Named`), a task about to rename finds its own file there (`InHand`), and a file that is
  not whole is still being written, or stays unpublished (`Whole`), unless two
  tasks share it (`Shared`). `RInv` adds that no stamp is later than the clock (`Clock`)
  and, as long as no update was lost, that a task which loaded the file that is
  still there writes it back but for its own field (`Loaded`), that saved stamps only grow
  (`Stamps`), and that who asks does so a day after those saved before it (`Asked`).
- `ApprovalProofs`, its first part: `FreshConsent`, `ApprovesLastLine`, `ApprovedAsShown` and `CodeHonoured`, for
  any rules, commands and texts. `IInv`: `PendingIsLast` relates the variable of the shell to the
  last line, `LastWasShown` a line that was withheld to what was shown, `WithTexts` what was shown to the rules
  of the directory and the audience it was shown in, `Whose` runs to
  those who start them, and `Consent` a run past the gate to why it is. `WithTexts` is what makes a code carry
  all disclaimers where it was shown; elsewhere nothing does.
- `ProvidersProofs`: `OwnValue`, `NothingLeft` and `NoneLost`, for any sources. `OwnInv` says that the kept
  urls are valid sources of the bindings and literals the rest (`Good`),
  that every value brought so far is one its source stands for (`Fits`), one for each source, and that
  an account of 1Password is read one by one only after the user was warned.
  `SourceInv` adds that a kept url has its value, or is still to come from a call that runs
  (`Comes`), or has one of another source that clashes with it.
- `McpProofs`: `SessionReleased`, `AccessOutlivesCommand` and `AnsweredOnceInOrder`, for any
  number of messages. `Places` keeps the two transports apart; an open session whose id came with a success is known to the
  bridge, so that `CleanupSession` releases it. The message in hand is not among the answered ones while it is posted or its body
  read (`Fresh`), so that its answer comes after all others (`AnswerInOrder`).

- `RedactProofs`: `ChunkingInvisible`, `NoSecretInClear` and `HeldBack`, for any values (that
  overlap, begin or contain one another), any texts and any reads. `Scan` is a recursive
  function over the places of a text. That it exists is shown without an induction scheme:
  the functions that agree with it from some place on are defined for ever earlier
  places (`ScanExists`, by the least place that has none, `WFMin`). Its result is then described
  without recursion: `Tiles` are pieces that lie side by side, each with the length and name
  that its place in the text determines (`ScanTiles`). Two tilings from one place agree
  (`TilesAgree`) and tilings join (`JoinTiles`). A piece that begins at least `CarryLen` letters
  before the end of a part is the same in the whole text, as each value that could
  begin there is seen in full (`HitsAhead`); what a read lets go therefore continues
  the tiling of the text (`ReadPart`), and the rest is added at the end (`LastPart`). In the
  invariant `Cut` says this of a stream that is read, with less than the longest value kept
  back, and `Whole` of one at its end; `Reader` and `Course` say when somebody reads. Over a pseudo terminal a value of one line stands in what is read as it stood
  in what was written, further on by the newlines before it (`At`, `Before`), which carries the statement over
  to the text of the command. `NoSecretInClear`
  needs one step more: where a value begins, either a piece begins, which is then the longest
  value there, or a longer piece began before, which is a mask (`HitIsMasked`). The module `Redact` has
  assumptions for this, that values and texts are sequences of the same `Letters`,
  which may be any set with a newline and a return.

Only model-checked: the liveness properties (fairness and ENABLED are out of
the prover's reach), that is `Terminates`, `ConstructReturns`,
`DropReturnsUnlessRestarting`, `Ends`, `ScriptsEnd` and `Returns`. No module has a RECURSIVE operator.

## 5. Findings

Two disagreements between the code and what its documents, comments or tests
say are kept as runs that must fail, `forward_drop` and `output_tail`; each is
described with its lines in `PROJECT.json`. The passing runs state what does hold
around them: drop returns outside of restarts, and what a failed read loses is
at most what was held back. Three more are named in a property that passes, which
is violated without the exception:

- `NoSecretInClear` excepts values of several lines over a pseudo terminal. It is opened with default flags
  (`exec/pty.rs:24`), so that a newline is read as a return and a newline, and the redactor looks for the value
  as the provider gave it: a private key, say, is shown in clear. README.md:361 has secrets "masked from
  command output unless `--no-mask` is set".
- `SessionReleased` excepts a client that closes the output of `lade mcp` (`gone`). With the default
  action of SIGPIPE (`main.rs:50`) the next write kills lade: session, files and forwards are left, where README.md:277-278
  has it "exits and cleans up when the connection closes" and docs/architecture.md:174-176 likewise.
- `OwnValue` excepts two fields of one label in two sections of a 1Password item (`OneByOne`). Once `op inject` was refused
  for the account, `read_one` asks for `label=` only (`onepassword.rs:59-70`) and gives one the value of the other; the comment at
  `onepassword.rs:48` has it read "vault/item/[section/]field".

Where the models show the code to be weaker than one might take it to be, the
properties say exactly how far it goes instead:

- Forward: the startup deadline is that of every restart (`process.rs:154`), so that a
  provider which crashes after it is never restored. `Forward` has it (`late`). An id is published, and
  signalled, after its process was waited for: drop loads it and signals in two steps (`process.rs:134-135`), and `stop_child` sends
  SIGTERM to the group of a process that `try_wait` may have reaped (284, 306-308). A group that was given the id
  meanwhile is signalled: `StraySignals` says when. What a provider has started may keep its
  output open and with it `join_readers` (195), construction and drop: the premise `OutputEnds`.
- Acquire: a set that fails leaves forwards that nobody knows of
  (`inject.rs:187`, `acquire.rs:82`): `OnlyAbandonedLeft`. Ctrl-C while warnings are shown exits past
  the cleanup (`files.rs:22`): `NoFileLeft` names that exit.
- Hooks: unset removes a file of the user's after a set that failed, and names
  another file after a change of directory (`inject.rs:430`, `config/mod.rs:451`): `UserFileTaken`
  says when. An unset that fails restores nothing (`faults` of `EnvRestored`).
  A matched line that assigns the variable of its own rule is undone with the secret, as what set found before the line is
  restored (`inject.rs:321-330`, `444-446`): `own`. A set that exits at `main.rs:189-200` clears nothing: ids
  that an unset which failed has left are then signalled by the next unset (`told` of `ForwardsTracked`).
- Overlay: set and unset agree on files for regular names only
  (`config/mod.rs:454`): the premise of `RegularFilesAgree`.
- Approval: the README has a line typed again behind `LADE_APPROVE=` (README.md:444-446); set
  under the hooks does not look at it, so the line is withheld again, and
  `CodeHonoured` is about inject, approve and agents. A second rewriting of a rewritten
  command changes nothing. approve may take the shell for an agent's where set did not. A code is made of the command and the
  window only (`prompt.rs:46-51`): shown with one disclaimer it opens, by inject or an agent, the same command
  under another one in another directory or for another audience, which was never shown (`FreshConsent` binds texts
  only where directory and audience are the same). A line entered where `lade.yml` cannot be read leaves the line
  before it pending, and `lade approve` runs that one (`ApprovesLastLine`).
- GlobalConfig: racing writers lose updates (`raced`), the stamp of the check of
  the tools is the time it began, and the two tasks of one process may cut or mix
  the published file: the exception of `ConfigWhole`.
- Redact: the last letters of a prompt, less than the longest secret, wait for more output
  (`HeldBack`; tests/pty_echo.rs:287-289 has it too). A write of lade's own that fails (`redact.rs:90-103`) loses the rest; over a pseudo
  terminal nobody reads on, and lade waits for a command that may block on it: `Returns` has the end of the
  command as its premise.
- Mcp: a server that waits for the client's reply within a stream waits for ever, as the bridge
  reads no input then (`asked` of `Ends`); a process that keeps the output of the
  command open keeps lade waiting (`holder`), a client that does not read as well (`stalled`), and behind a full pipe to a
  command that runs and does not read the end of the input is never seen (`full`; `mcp.rs:98`). A session whose id the
  server gave with 202, with a failing status or in an answer that was lost is left to it (sdk
  `mcp.rs:223-253`): `opened` of `SessionReleased`.
- Providers: two spellings of one url, and two urls of Doppler for one variable,
  end in a panic (`Clash` of `NoneLost`); a 1Password reference with a `+` is taken for a
  literal and shown in clear (`OwnValue` says so); the exit status of a script is not
  looked at; tools of a resolution that failed go on (`ToolExits`).

## 6. Not modelled

- Argument lists and answers of foreign tools, the choice of a port and the kubeconfig
  (`src/network/command.rs`, `parse.rs`, `kubeconfig.rs`): text in, text out. The port enters
  `Forward` as a foreign listener.
- Terminal layout and argument parsing (`src/message_box`, `src/args.rs`, `src/status.rs`).
- Installation of agent hooks and download of a new lade: edits of files by one
  process, and network I/O.
- SIGINT and SIGTERM while the command runs: no code of lade's handles them.
- Edits of `lade.yml` between a disclaimer and its approval, and during a line, but for those that make
  it unreadable (`SetRefused`, `UnsetRefused`).
- Detection of an agent by its ancestors, and per-user values: inputs.

## 7. Plan

Done: all modules above, with a proof of every safety property that a run checks.

Left: liveness stays with TLC. Of the hazards without a property, the late startup
deadline and the session that is dropped when the secrets fail are the next to
state; `Hydrate` and `Acquire` could be composed, so that `SecretOk` and `SecretFails` are steps of a
resolution, and the refinement proved as that of `Resolution` is.
