------------------------------ MODULE Providers ------------------------------
(***************************************************************************)
(* One resolution by the providers (sdk/src/providers): the sources of a   *)
(* batch of bindings are handed to the providers of their schemes, each    *)
(* makes as few calls of its tool as it can, all calls run at once, and    *)
(* the first that fails ends the resolution.                               *)
(*                                                                         *)
(* The secret behind a url is the url, a literal is the text itself (its   *)
(* escape, a first '!', left out).  A panic ends the command like an       *)
(* error, and is told apart.                                               *)
(***************************************************************************)
EXTENDS FiniteSets

CONSTANTS
  Name,     \* the bindings
  Sources   \* what they may be bound to

Calling == {"op", "vault", "doppler", "passbolt", "file", "infisical", "sh"}

(***************************************************************************)
(* A source as written, of which                                           *)
(*   url     what it is parsed to: two spellings may mean one url          *)
(*   place   its host, project and environment, or its file                *)
(*   path    its folder there, for Infisical; a script, for a shell        *)
(*   var     the variable asked for; of an op reference the vault, the     *)
(*           item and the label of the field, without its section          *)
(*   valid   its provider takes it; a '+' in an op reference, a file       *)
(*           without a query or an empty script is not taken               *)
(*   lacks   a part the calls are put together by (a host, a project, an   *)
(*           environment), or the variable of Vault or Passbolt            *)
(***************************************************************************)
ASSUME SourcesRead ==
  \A s \in Sources : /\ s.scheme \in Calling \cup {"none"}
                     /\ s.valid \in BOOLEAN
                     /\ s.lacks \in {"nothing", "part", "variable"}
                     /\ {"url", "place", "path", "var", "spelling"} \subseteq DOMAIN s

CallOf(s) == [scheme |-> s.scheme, place |-> s.place, path |-> s.path]
Calls == {CallOf(s) : s \in Sources}

VARIABLES
  env,       \* the source of each binding
  added,     \* the bindings whose source was handed to a provider
  urls,      \* the sources the providers have kept
  literal,   \* the sources kept by the fallback, Raw
  pc,        \* "add", "resolve", or how it ended: "done", "error", "panic"
  tools,     \* the calls whose tool runs
  slow,      \* the calls of op that go on one by one
  dirs,      \* the places that have a temporary directory
  hydration, \* the values had so far, by source
  warned     \* the accounts the caller was warned about

vars == <<env, added, urls, literal, pc, tools, slow, dirs, hydration, warned>>

Secret(s) == [of |-> s.url]
Itself(s) == [text |-> s]
Value == {Secret(s) : s \in Sources} \cup {Itself(s) : s \in Sources}

TypeOK ==
  /\ env \in [Name -> Sources]
  /\ added \subseteq Name
  /\ urls \subseteq Sources /\ literal \subseteq Sources
  /\ pc \in {"add", "resolve", "done", "error", "panic"}
  /\ tools \subseteq Calls /\ slow \subseteq Calls
  /\ dirs \subseteq {s.place : s \in Sources}
  /\ hydration \subseteq Sources \X Value
  /\ warned \subseteq {s.place : s \in Sources}

Init ==
  /\ env \in [Name -> Sources]
  /\ added = {} /\ urls = {} /\ literal = {}
  /\ pc = "add" /\ tools = {} /\ slow = {} /\ dirs = {}
  /\ hydration = {} /\ warned = {}

----------------------------------------------------------------------------
\* Mutant: one url of each place is kept.
SamePlace(s, t) == s.scheme = t.scheme /\ s.scheme # "sh" /\ s.place = t.place

\* Providers::add.  Urls are the keys of a map: a second spelling of one
\* takes the place of the first.
SameUrl(s, t) == s.scheme = t.scheme /\ s.scheme # "sh" /\ s.url = t.url
Keep(s) == {t \in urls : ~SameUrl(s, t)} \cup {s}

Add(n) ==
  /\ pc = "add" /\ n \notin added
  /\ added' = added \cup {n}
  /\ IF env[n].scheme # "none" /\ env[n].valid
     THEN urls' = Keep(env[n]) /\ literal' = literal
     ELSE literal' = literal \cup {env[n]} /\ urls' = urls
  /\ UNCHANGED <<env, pc, tools, slow, dirs, hydration, warned>>

Wanted(c) == {s \in urls : CallOf(s) = c}
PlacesOf(calls) == {c.place : c \in {d \in calls : d.scheme = "infisical"}}

\* Every call is started; Infisical's run in a directory made for the place.
Start ==
  /\ pc = "add" /\ added = Name
  /\ \A s \in urls : s.lacks # "part"
  /\ pc' = "resolve"
  /\ tools' = {CallOf(s) : s \in urls}
  /\ dirs' = PlacesOf({CallOf(s) : s \in urls})
  /\ hydration' = {<<s, Itself(s)>> : s \in literal}
  /\ UNCHANGED <<env, added, urls, literal, slow, warned>>

\* A url that lacks a part is found out when its provider puts the calls
\* together; the tools of the providers that came before are running.
StartPanics ==
  /\ pc = "add" /\ added = Name
  /\ LET broken == {s.scheme : s \in {t \in urls : t.lacks = "part"}}
     IN  /\ broken # {}
         /\ tools' \in SUBSET {CallOf(s) : s \in {t \in urls : t.scheme \notin broken}}
  /\ pc' = "panic"
  /\ UNCHANGED <<env, added, urls, literal, slow, dirs, hydration, warned>>

\* The other calls are dropped with the one that ended it, and their tools
\* left alone; what is on disk goes with them.
GivesUp(how) ==
  /\ pc' = how /\ dirs' = {}
  /\ UNCHANGED <<env, added, urls, literal, hydration, warned>>

\* Mutant: the first call of a place removes the directory of all.
CompletesLeaving(c, values) ==
  /\ hydration' = hydration \cup values
  /\ tools' = tools \ {c} /\ slow' = slow \ {c}
  /\ dirs' = dirs \ PlacesOf({c})
  /\ UNCHANGED <<env, added, urls, literal, pc, warned>>

\* The values of a call are in.
Completes(c, values) ==
  /\ hydration' = hydration \cup values
  /\ tools' = tools \ {c} /\ slow' = slow \ {c}
  /\ dirs' = dirs \ (PlacesOf({c}) \ PlacesOf(tools \ {c}))
  /\ UNCHANGED <<env, added, urls, literal, pc, warned>>

\* The sources a call fills in.  Doppler's are a map by their variable.
Filled(c) ==
  IF c.scheme = "doppler"
  THEN {S \in SUBSET Wanted(c) : \A s \in Wanted(c) : Cardinality({t \in S : t.var = s.var}) = 1}
  ELSE {Wanted(c)}

\* The tool answered, with some of the variables: one that is not there, or
\* not even in the url, is an error of Infisical, and a panic of the others.
AllThere(c, present) == \A s \in Wanted(c) : s.lacks # "variable" /\ s.var \in present
Answers(c, present) ==
  /\ pc = "resolve" /\ c \in tools /\ c.scheme \notin {"op", "sh"}
  /\ IF AllThere(c, present)
     THEN \E S \in Filled(c) : Completes(c, {<<s, Secret(s)>> : s \in S})
     ELSE /\ GivesUp(IF c.scheme = "infisical" THEN "error" ELSE "panic")
          /\ tools' = tools \ {c} /\ slow' = slow

\* The tool is missing, refuses, or says what cannot be understood; a file
\* that is not there is a panic.
Fails(c) ==
  /\ pc = "resolve" /\ c \in tools /\ (c.scheme = "op" => c \in slow)
  /\ \E how \in {"error"} \cup IF c.scheme = "file" THEN {"panic"} ELSE {} : GivesUp(how)
  /\ tools' = tools \ {c} /\ slow' = slow \ {c}

\* Mutant: no time limit.
TimesOutNever(c) == FALSE /\ c \in tools /\ UNCHANGED vars

\* A shell's script has half a minute; it is not stopped.
TimesOut(c) ==
  /\ pc = "resolve" /\ c \in tools /\ c.scheme = "sh"
  /\ GivesUp("error")
  /\ UNCHANGED <<tools, slow>>

Prints(c) ==
  /\ pc = "resolve" /\ c \in tools /\ c.scheme = "sh"
  /\ Completes(c, {<<s, Secret(s)>> : s \in Wanted(c)})

\* op inject: all references of an account in one text, told apart again by
\* what was put between them.  Not one of them is used unless all came back.
InjectOk(c) ==
  /\ pc = "resolve" /\ c \in tools \ slow /\ c.scheme = "op"
  /\ Completes(c, {<<s, Secret(s)>> : s \in Wanted(c)})
InjectRefused(c) ==
  /\ pc = "resolve" /\ c \in tools \ slow /\ c.scheme = "op"
  /\ slow' = slow \cup {c}
  /\ warned' = warned \cup {c.place}
  /\ UNCHANGED <<env, added, urls, literal, pc, tools, dirs, hydration>>
InjectMissing(c) ==
  /\ pc = "resolve" /\ c \in tools \ slow /\ c.scheme = "op"
  /\ GivesUp("error")
  /\ tools' = tools \ {c} /\ slow' = slow

\* op item get, one reference after the other, by its label: which of the
\* fields of that label, in whatever section, is up to op.
Unread(c) == {s \in Wanted(c) : \A x \in hydration : x[1] # s}
SameLabel(s) == {t \in Sources : t.scheme = "op" /\ t.place = s.place /\ t.var = s.var}
ReadOne(c) ==
  /\ pc = "resolve" /\ c \in slow
  /\ \E s \in Unread(c) : \E t \in SameLabel(s) :
       IF Unread(c) = {s} THEN Completes(c, {<<s, Secret(t)>>})
       ELSE /\ hydration' = hydration \cup {<<s, Secret(t)>>}
            /\ UNCHANGED <<env, added, urls, literal, pc, tools, slow, dirs, warned>>

\* Mutant: looked for by the name of the variable.
FoundByVar(n) == {x[2] : x \in {y \in hydration : y[1].var = env[n].var}}

\* hydrate_with_maskable: the value of each binding is looked for under its
\* source as written.
Found(n) == {x[2] : x \in {y \in hydration : y[1] = env[n]}}
Finish ==
  /\ pc = "resolve" /\ tools = {}
  /\ pc' = IF \A n \in Name : Found(n) # {} THEN "done" ELSE "panic"
  /\ UNCHANGED <<env, added, urls, literal, tools, slow, dirs, hydration, warned>>

\* A tool left behind ends by itself.
ToolExits(c) ==
  /\ pc \in {"error", "panic"} /\ c \in tools
  /\ tools' = tools \ {c} /\ slow' = slow \ {c}
  /\ UNCHANGED <<env, added, urls, literal, pc, dirs, hydration, warned>>

Lade == (\E n \in Name : Add(n)) \/ Start \/ StartPanics \/ Finish \/ \E c \in tools : TimesOut(c)
Tool(c) ==
  \/ \E present \in SUBSET {s.var : s \in Wanted(c)} : Answers(c, present)
  \/ Fails(c) \/ Prints(c) \/ InjectOk(c) \/ InjectRefused(c) \/ InjectMissing(c)
  \/ ReadOne(c)

Next == Lade \/ \E c \in tools : Tool(c) \/ ToolExits(c)

Spec == Init /\ [][Next]_vars

\* Only the scripts of the shells have a time limit.
FairSpec == Spec /\ WF_vars(Lade)

----------------------------------------------------------------------------
Ended == pc \in {"done", "error", "panic"}
Masked == {x[1] : x \in hydration} \cap urls

(***************************************************************************)
(* Each binding gets what its own source stands for, in whatever order the *)
(* calls end, and is masked exactly if that is not the source itself.  In  *)
(* an account of 1Password that is read one by one it may be that of       *)
(* another field of the same item and label, whose section the call leaves *)
(* out.  A source refused by its provider is its own value, in clear.      *)
(***************************************************************************)
OneByOne(s) == s.scheme = "op" /\ s.place \in warned
StandsFor(s) == IF OneByOne(s) THEN SameLabel(s) ELSE {s}
OwnValue ==
  pc = "done" => \A n \in Name :
    IF env[n].scheme # "none" /\ env[n].valid
    THEN env[n] \in Masked /\ \E s \in StandsFor(env[n]) : Found(n) = {Secret(s)}
    ELSE env[n] \notin Masked /\ Found(n) = {Itself(env[n])}

(***************************************************************************)
(* The value looked for at the end is there, unless two sources are        *)
(* different spellings of one url, or ask Doppler for one variable.        *)
(***************************************************************************)
Clash(s, t) ==
  /\ s # t /\ s.valid /\ t.valid /\ s.scheme = t.scheme
  /\ s.url = t.url \/ (s.scheme = "doppler" /\ CallOf(s) = CallOf(t) /\ s.var = t.var)
LookupFails == pc = "resolve" /\ tools = {} /\ \E n \in Name : Found(n) = {}
NoneLost == LookupFails => \E m, n \in Name : Clash(env[m], env[n])

(***************************************************************************)
(* A resolution that succeeds leaves no tool running, and none leaves a    *)
(* directory behind; Infisical's tools have theirs as long as they are     *)
(* waited for.  The caller is told of every account read one by one.       *)
(***************************************************************************)
NothingLeft ==
  /\ pc = "done" => tools = {} /\ slow = {}
  /\ Ended => dirs = {}
  /\ pc = "resolve" => \A c \in tools : c.scheme = "infisical" => c.place \in dirs
  /\ \A c \in slow : c.place \in warned

(***************************************************************************)
(* With scripts and literals only, a resolution ends whatever the scripts  *)
(* do.                                                                     *)
(***************************************************************************)
ScriptsEnd == (\A n \in Name : env[n].scheme \in {"sh", "none"}) ~> Ended
=============================================================================
