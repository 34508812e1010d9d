------------------------------ MODULE Overlay -------------------------------
(***************************************************************************)
(* What the rules that match a command bind (src/config/mod.rs).  Four     *)
(* functions go over the same rules, in overlay order, and each over the   *)
(* entries of a rule in whatever order its HashMap has:                    *)
(*   network  network_bindings_from_rules, what is connected               *)
(*   sources  secret_sources_from_rules, what is announced                 *)
(*   bindings bindings_from_rules, what is resolved and written            *)
(*   keys     keys_from_rules, from which unset takes the files to remove  *)
(* The rules and the user are taken to be the same throughout, and paths   *)
(* to be relative to one directory (HookSession has them differ).          *)
(***************************************************************************)
EXTENDS Naturals

CONSTANTS
  Name,     \* the names of bindings
  Numeric,  \* those that are numbers
  Odd,      \* those that are no name of an environment variable either
  File,     \* the files of rules
  Depth     \* the number of rules

ASSUME DepthPositive == Depth \in Nat \ {0}
ASSUME NameKinds == Numeric \subseteq Name /\ Odd \subseteq Name
ASSUME EnvNoFile == "env" \notin File

Index == 1..Depth
ValidEnv(n) == n \notin Numeric \cup Odd

\* A key is a name, with or without the dot of a private binding.
Entry == Name \X BOOLEAN

\* An entry, for the user; "none" is one that is missing, or a map without
\* this user.
Value == {"none", "unset", "network", "secret"}

Rule == [output: File \cup {"env"}, value: [Entry -> Value]]

Unbound == [rule |-> 0, private |-> FALSE]

VARIABLES
  rules,     \* the rules
  view,      \* the function at work, or how it all ended
  at, todo,  \* the rule it has come to and the entries left of it
  networks,  \* by name, the rule that connects it, or 0
  sources,   \* by entry, the rule that announces it, or 0
  bindings,  \* by name, the rule that binds it and whether privately
  keys       \* by output, the names unset knows of

vars == <<rules, view, at, todo, networks, sources, bindings, keys>>

\* resolve_entry: a number cannot be a secret.
Of(i, e) ==
  IF rules[i].value[e] = "secret" /\ e[1] \in Numeric /\ ~e[2]
  THEN "invalid" ELSE rules[i].value[e]

Present(i) == {e \in Entry : Of(i, e) # "none"}

TypeOK ==
  /\ rules \in [Index -> Rule]
  /\ view \in {"network", "sources", "bindings", "keys", "done", "failed"}
  /\ at \in Index
  /\ todo \in SUBSET Present(at)
  /\ networks \in [Name -> 0..Depth]
  /\ sources \in [Entry -> 0..Depth]
  /\ bindings \in [Name -> [rule: 0..Depth, private: BOOLEAN]]
  /\ keys \in [File \cup {"env"} -> SUBSET Name]

Init ==
  /\ rules \in [Index -> Rule]
  /\ view = "network"
  /\ at = 1
  /\ todo = Present(1)
  /\ networks = [n \in Name |-> 0]
  /\ sources = [e \in Entry |-> 0]
  /\ bindings = [n \in Name |-> Unbound]
  /\ keys = [o \in File \cup {"env"} |-> {}]

-----------------------------------------------------------------------------
NextRule ==
  /\ view \notin {"done", "failed"}
  /\ todo = {} /\ at < Depth
  /\ at' = at + 1
  /\ todo' = Present(at + 1)
  /\ UNCHANGED <<rules, view, networks, sources, bindings, keys>>

After == [network |-> "sources", sources |-> "bindings",
          bindings |-> "keys", keys |-> "done"]

NextView ==
  /\ view \in DOMAIN After
  /\ todo = {} /\ at = Depth
  /\ view' = After[view]
  /\ at' = 1
  /\ todo' = Present(1)
  /\ UNCHANGED <<rules, networks, sources, bindings, keys>>

\* Private entries are no network bindings and cancel none, invalid ones
\* are left for the other functions to refuse.
NetworkStep(e) ==
  /\ view = "network" /\ e \in todo
  /\ todo' = todo \ {e}
  /\ networks' = IF e[2] \/ Of(at, e) = "invalid" THEN networks
                 ELSE [networks EXCEPT ![e[1]] =
                         IF Of(at, e) = "network" THEN at ELSE 0]
  /\ UNCHANGED <<rules, view, at, sources, bindings, keys>>

SourceStep(e) ==
  /\ view = "sources" /\ e \in todo
  /\ todo' = todo \ {e}
  /\ IF Of(at, e) = "invalid"
     THEN view' = "failed" /\ UNCHANGED sources
     ELSE /\ view' = view
          /\ sources' = [sources EXCEPT ![e] =
                           IF Of(at, e) = "secret" THEN at ELSE 0]
  /\ UNCHANGED <<rules, at, networks, bindings, keys>>

\* Mutant: public and private bindings replace one another.
RefusedName(e) == Of(at, e) = "invalid" \/ (e[2] /\ ~ValidEnv(e[1]))

\* binding_name refuses the name, or it is bound the other way already.
Refused(e) ==
  \/ Of(at, e) = "invalid"
  \/ e[2] /\ ~ValidEnv(e[1])
  \/ /\ Of(at, e) = "secret"
     /\ bindings[e[1]] # Unbound
     /\ bindings[e[1]].private # e[2]

\* Mutant: the first rule wins.
BindingStepFirst(e) ==
  /\ view = "bindings" /\ e \in todo
  /\ todo' = todo \ {e}
  /\ IF Refused(e)
     THEN view' = "failed" /\ UNCHANGED bindings
     ELSE /\ view' = view
          /\ bindings' = [bindings EXCEPT ![e[1]] =
               IF @ # Unbound THEN @
               ELSE IF Of(at, e) = "secret"
                    THEN [rule |-> at, private |-> e[2]] ELSE Unbound]
  /\ UNCHANGED <<rules, at, networks, sources, keys>>

\* An unset or network entry removes the binding of its name, private or not.
BindingStep(e) ==
  /\ view = "bindings" /\ e \in todo
  /\ todo' = todo \ {e}
  /\ IF Refused(e)
     THEN view' = "failed" /\ UNCHANGED bindings
     ELSE /\ view' = view
          /\ bindings' = [bindings EXCEPT ![e[1]] =
               IF Of(at, e) = "secret"
               THEN [rule |-> at, private |-> e[2]] ELSE Unbound]
  /\ UNCHANGED <<rules, at, networks, sources, keys>>

\* Mutant: a network entry leaves the key.
KeysStepUnsetOnly(e) ==
  /\ view = "keys" /\ e \in todo
  /\ todo' = todo \ {e}
  /\ keys' = IF e[2] \/ ~ValidEnv(e[1]) THEN keys
             ELSE [keys EXCEPT ![rules[at].output] =
                     IF Of(at, e) = "unset" THEN @ \ {e[1]}
                     ELSE @ \cup {e[1]}]
  /\ UNCHANGED <<rules, view, at, networks, sources, bindings>>

\* Here a name is known by output, and must be one of the environment.
KeysStep(e) ==
  /\ view = "keys" /\ e \in todo
  /\ todo' = todo \ {e}
  /\ keys' = IF e[2] \/ ~ValidEnv(e[1]) THEN keys
             ELSE [keys EXCEPT ![rules[at].output] =
                     IF Of(at, e) = "secret" THEN @ \cup {e[1]}
                     ELSE @ \ {e[1]}]
  /\ UNCHANGED <<rules, view, at, networks, sources, bindings>>

Next ==
  \/ NextRule \/ NextView
  \/ \E e \in Entry :
       NetworkStep(e) \/ SourceStep(e) \/ BindingStep(e) \/ KeysStep(e)

Spec == Init /\ [][Next]_vars

-----------------------------------------------------------------------------
(* Properties.  Of the entries on a name the one of the last rule counts.  *)

\* A rule with both K and .K: which comes last is up to the HashMap.
Ambiguous ==
  \E i \in Index, n \in Name :
    Of(i, <<n, TRUE>>) # "none" /\ Of(i, <<n, FALSE>>) # "none"

\* No rule after i has a valid entry on the name n, in the forms of D.
LastWord(i, n, D) ==
  \A j \in Index, d \in D :
    j > i => Of(j, <<n, d>>) \in {"none", "invalid"}

\* A name is connected by the last rule with an entry on it, if that is a
\* network entry.
NetworksOverlay ==
  view # "network" => \A n \in Name, i \in Index :
    networks[n] = i <=>
      Of(i, <<n, FALSE>>) = "network" /\ LastWord(i, n, {FALSE})

\* A name is bound by the last rule with an entry on it, private or public,
\* if that is a secret.
BindingsOverlay ==
  view \in {"keys", "done"} /\ ~Ambiguous =>
    \A n \in Name, i \in Index, d \in BOOLEAN :
      bindings[n] = [rule |-> i, private |-> d] <=>
        Of(i, <<n, d>>) = "secret" /\ LastWord(i, n, BOOLEAN)

\* What is connected and what is resolved are the last word of the rules.
Overlaid == NetworksOverlay /\ BindingsOverlay

\* No name is given to a command by the network and by a secret at once, so
\* the merge of the two finds no conflict; not even with an ambiguous rule.
NoConflict ==
  view \in {"keys", "done"} => \A n \in Name :
    networks[n] # 0 => bindings[n] = Unbound \/ bindings[n].private

\* What is resolved has been announced, so no provider is called unseen.
Announced ==
  view \in {"keys", "done"} => \A n \in Name :
    bindings[n] # Unbound =>
      sources[<<n, bindings[n].private>>] = bindings[n].rule

BadEntry(i, e) ==
  \/ e[2] /\ ~ValidEnv(e[1]) /\ Of(i, e) # "none"
  \/ Of(i, e) = "invalid"

\* Two secrets on n, one private and one public, with nothing in between.
Clash(n) ==
  \E i, j \in Index, d \in BOOLEAN :
    /\ i < j
    /\ Of(i, <<n, d>>) = "secret" /\ Of(j, <<n, ~d>>) = "secret"
    /\ \A k \in Index, b \in BOOLEAN :
         i < k /\ k < j => Of(k, <<n, b>>) = "none"

Refusable ==
  \/ \E i \in Index, e \in Entry : BadEntry(i, e)
  \/ \E n \in Name : Clash(n)

\* Rules are refused for a bad entry or a clash, and for nothing else.
RefusalExact ==
  ~Ambiguous =>
    /\ view = "failed" => Refusable
    /\ view \in {"keys", "done"} => ~Refusable

\* The files the resolved values are written to.
Written ==
  {rules[bindings[n].rule].output :
     n \in {m \in Name : bindings[m] # Unbound /\ ~bindings[m].private}}
  \ {"env"}

\* The files unset removes.
Removed == {f \in File : keys[f] # {}}

\* A name whose entries agree: all public or all private, on one output, and
\* in a file only if it could be a variable.
Regular(n) ==
  LET On == {p \in Index \X BOOLEAN : Of(p[1], <<n, p[2]>>) # "none"}
  IN  \A p, q \in On :
        /\ p[2] = q[2]
        /\ rules[p[1]].output = rules[q[1]].output
        /\ ValidEnv(n) \/ rules[p[1]].output = "env"

\* With regular names unset removes exactly the files set has written.
RegularFilesAgree ==
  view = "done" /\ (\A n \in Name : Regular(n)) => Written = Removed
=============================================================================
