------------------------------- MODULE Redact -------------------------------
(***************************************************************************)
(* The output of a command on its way through the redactor                 *)
(* (src/redact.rs, src/masking.rs), in the three ways of running it        *)
(* (src/exec).  Piped, two threads redact stdout and stderr and are joined *)
(* once the command has ended; on a terminal, one pseudo terminal carries  *)
(* both and is read to its end before the command is waited for; without a *)
(* secret to mask the command inherits the descriptors of `lade`.  The     *)
(* terminal is opened with default flags: a newline written to it is read  *)
(* as a return and a newline.                                              *)
(*                                                                         *)
(* A binding is its place in the order of names, a text a sequence of      *)
(* letters.  Output is a sequence of pieces: the letter at a place of the  *)
(* text in clear, or the mask of a binding over the letters it replaces.   *)
(* A read takes what is there, up to Chunk letters.                        *)
(***************************************************************************)
EXTENDS Naturals, Sequences, FiniteSets, SequencesExt

CONSTANTS
  Letters,   \* what texts and values are made of ...
  Newline,   \* ... two of them
  Return,
  Values,    \* the value of each binding given to the command
  Maskable,  \* the bindings whose provider masks
  Outputs,   \* what the command may write to "out" and to "err"
  Terminals, \* the descriptors of `lade` that are terminals, as far as known
  Platforms, \* "linux", "macos": how a pseudo terminal ends
  Chunk      \* the most letters one read takes

Streams == {"out", "err"}

ASSUME LineEnds == Newline \in Letters /\ Return \in Letters
ASSUME ValuesAreTexts == Values \in Seq(Seq(Letters))
ASSUME OutputsAreTexts == Outputs \subseteq [Streams -> Seq(Letters)]
ASSUME MaskableBound == Maskable \subseteq DOMAIN Values
ASSUME TerminalsKnown == Terminals \subseteq SUBSET {"stdin", "stdout"}
ASSUME PlatformsKnown == Platforms \subseteq {"linux", "macos"}
ASSUME ChunkPositive == Chunk \in Nat \ {0}

\* One pattern for each value; the first name in order stands for it.
Patterns == {Values[n] : n \in Maskable} \ {<<>>}
NameOf(v) == CHOOSE n \in Maskable : Values[n] = v /\ \A m \in Maskable : Values[m] = v => n <= m
MaxLen == CHOOSE n \in {Len(v) : v \in Patterns} : \A v \in Patterns : Len(v) <= n

\* Mutant: one letter too few is held back.
CarryShort == MaxLen - 2
\* Mutant: one letter too many is held back.
CarryLong == MaxLen

\* The letters held back for the next read: a secret may continue there.
CarryLen == MaxLen - 1

VARIABLES
  terminals, \* the descriptors of `lade` that are terminals
  platform,
  said,      \* what is written to each stream in the end ...
  text,      \* ... and what of it is there to read
  written,   \* how much of it has been
  got,       \* how much the redactor has read ...
  base,      \* ... and how much of that it has let go
  out,       \* the pieces it wrote
  reader,    \* the redactor of each stream
  child,     \* the command: "run", "exited"
  holders,   \* who has the writing end of the streams open
  main       \* where lade stands: "wait", "join", "exited"

vars == <<terminals, platform, said, text, written, got, base, out, reader, child,
          holders, main>>
chosen == <<terminals, platform, said, text>>
stream == <<got, base, out, reader>>

Mode == CASE Patterns = {} -> "plain"
          [] Patterns # {} /\ terminals = {"stdin", "stdout"} -> "pty"
          [] OTHER -> "piped"

Piece == [at : Nat, len : Nat, name : 0..Len(Values)]

\* Where letter i of what is written comes to be read.
At(t, i) ==
  IF Mode = "pty" THEN i + Cardinality({j \in 1..(i - 1) : t[j] = Newline})
                  ELSE i

\* What is read: each letter, a newline with a return before it.
Arrived(t) ==
  [k \in 1..(At(t, Len(t) + 1) - 1) |->
     LET i == CHOOSE i \in 1..Len(t) : At(t, i) <= k /\ k < At(t, i + 1)
     IN  IF k + 1 = At(t, i + 1) THEN t[i] ELSE Return]

TypeOK ==
  /\ terminals \in Terminals /\ platform \in Platforms /\ said \in Outputs
  /\ \A s \in Streams : base[s] <= got[s] /\ got[s] <= written[s] /\ written[s] <= Len(text[s])
  /\ \A s \in Streams : out[s] \in Seq(Piece)
  /\ reader \in [Streams -> {"read", "ended", "failed", "lost", "none"}]
  /\ child \in {"run", "exited"}
  /\ holders \in SUBSET {"command", "background"}
  /\ main \in {"read", "wait", "join", "exited"}

----------------------------------------------------------------------------
\* What leftmost-longest matching finds at place i of the data.
Hits(data, i) ==
  {v \in Patterns : i + Len(v) <= Len(data) + 1 /\ SubSeq(data, i, i + Len(v) - 1) = v}
\* Mutant: of two values that match the shorter is masked.
Shortest(hits) == CHOOSE v \in hits : \A w \in hits : Len(v) <= Len(w)
Longest(hits) == CHOOSE v \in hits : \A w \in hits : Len(w) <= Len(v)

\* The pieces for the places up to limit, and the place after them: a match
\* that starts there is taken whole.  Places count from offset.
Scan(data, offset, limit) ==
  LET scan[i \in 1..(Len(data) + 1)] ==
        IF i > limit
        THEN [pieces |-> <<>>, next |-> i]
        ELSE LET hits == Hits(data, i)
                 len  == IF hits = {} THEN 1 ELSE Len(Longest(hits))
                 name == IF hits = {} THEN 0 ELSE NameOf(Longest(hits))
                 rest == scan[i + len]
             IN  [pieces |-> <<[at |-> offset + i, len |-> len, name |-> name]>> \o rest.pieces,
                  next |-> rest.next]
  IN  scan[1]

Buffer(s, upTo) == SubSeq(text[s], base[s] + 1, upTo)
\* Mutant: the count of a read is off by one.
AvailableAndOne(s) == written[s] - got[s] + 1
Available(s) == written[s] - got[s]

Init ==
  /\ terminals \in Terminals /\ platform \in Platforms /\ said \in Outputs
  /\ text = [s \in Streams |-> Arrived(said[s])]
  /\ written = [s \in Streams |-> 0]
  /\ got = [s \in Streams |-> 0]
  /\ base = [s \in Streams |-> 0]
  /\ out = [s \in Streams |-> <<>>]
  /\ reader = [s \in Streams |->
       IF Mode = "piped" \/ (Mode = "pty" /\ s = "out") THEN "read" ELSE "none"]
  /\ child = "run"
  /\ holders = {"command"}
  /\ main = IF Mode = "pty" THEN "read" ELSE "wait"

\* The command, and whatever it left running in the background.  A pipe is
\* closed with its reader, a pseudo terminal only when lade ends.
Write(s) ==
  /\ holders # {}
  /\ reader[s] = "read" \/ (Mode = "pty" /\ reader[s] # "none")
  /\ written[s] < Len(text[s])
  /\ written' = [written EXCEPT ![s] = @ + 1]
  /\ UNCHANGED <<chosen, stream, child, holders, main>>

Fork ==
  /\ "command" \in holders
  /\ holders' = holders \cup {"background"}
  /\ UNCHANGED <<chosen, written, stream, child, main>>

Close(h) ==
  /\ h \in holders
  /\ holders' = holders \ {h}
  /\ UNCHANGED <<chosen, written, stream, child, main>>

Exit ==
  /\ child = "run"
  /\ child' = "exited"
  /\ holders' = holders \ {"command"}
  /\ UNCHANGED <<chosen, written, stream, main>>

\* How much of n letters may be written: what starts before those to hold
\* back.
SafeEnd(n) == IF n > CarryLen THEN n - CarryLen ELSE 0

\* What is let go of the letters read so far, up to a limit among them.
LetGo(s, upTo, limit) ==
  LET done == Scan(Buffer(s, upTo), base[s], limit)
  IN  /\ out' = [out EXCEPT ![s] = @ \o done.pieces]
      /\ base' = [base EXCEPT ![s] = @ + done.next - 1]

\* One turn of stream(), flushed at its end.
Read(s, n) ==
  /\ reader[s] = "read"
  /\ n \in 1..Available(s)
  /\ LetGo(s, got[s] + n, SafeEnd(got[s] + n - base[s]))
  /\ got' = [got EXCEPT ![s] = @ + n]
  /\ UNCHANGED <<chosen, written, reader, child, holders, main>>

\* The end of a pipe is a read of nothing; that of a pseudo terminal is one
\* on macOS and an error on Linux.
Ended(s) ==
  /\ reader[s] = "read"
  /\ holders = {} /\ Available(s) = 0
EndsQuietly == Mode = "piped" \/ platform = "macos"
ReadNothing(s) ==
  /\ Ended(s) /\ EndsQuietly
  /\ LetGo(s, got[s], got[s] - base[s])
  /\ reader' = [reader EXCEPT ![s] = "ended"]
  /\ UNCHANGED <<chosen, written, got, child, holders, main>>
\* Mutant: after the error the terminal is read again.
ReadErrorRetried(s) ==
  /\ Ended(s) /\ ~EndsQuietly
  /\ UNCHANGED <<chosen, written, stream, child, holders, main>>
ReadError(s) ==
  /\ Ended(s) /\ ~EndsQuietly
  /\ reader' = [reader EXCEPT ![s] = "failed"]
  /\ UNCHANGED <<chosen, written, got, base, out, child, holders, main>>

\* A write or the flush of a turn fails: some of it may have been written,
\* what comes after is lost.
WriteFails(s, n, limit) ==
  /\ reader[s] = "read"
  /\ \/ n \in 1..Available(s) /\ limit <= SafeEnd(got[s] + n - base[s])
     \/ n = 0 /\ Ended(s) /\ EndsQuietly
  /\ limit <= got[s] + n - base[s]
  /\ LetGo(s, got[s] + n, limit)
  /\ got' = [got EXCEPT ![s] = @ + n]
  /\ reader' = [reader EXCEPT ![s] = "lost"]
  /\ UNCHANGED <<chosen, written, child, holders, main>>

\* The pseudo terminal is read to its end by the main thread, then the
\* command waited for; the pipes have threads, joined after the command.
Main ==
  /\ \/ main = "read" /\ reader["out"] # "read" /\ main' = "wait"
     \/ main = "wait" /\ child = "exited" /\ main' = IF Mode = "piped" THEN "join" ELSE "exited"
     \/ main = "join" /\ (\A s \in Streams : reader[s] # "read") /\ main' = "exited"
  /\ UNCHANGED <<chosen, written, stream, child, holders>>

Lade == Main \/ \E s \in Streams : (\E n \in 1..Chunk : Read(s, n)) \/ ReadNothing(s) \/ ReadError(s)
Command == Fork \/ Exit \/ (\E s \in Streams : Write(s)) \/ \E h \in holders : Close(h)

OutputFails ==
  \E s \in Streams : \E n \in 0..Chunk, limit \in 0..Len(text[s]) : WriteFails(s, n, limit)

Next == main # "exited" /\ (Lade \/ Command \/ OutputFails)

Spec == Init /\ [][Next]_vars
FairSpec == Spec /\ WF_vars(main # "exited" /\ Lade)

----------------------------------------------------------------------------
Sofar(s) == SubSeq(text[s], 1, written[s])
Redacted(data) == Scan(data, 0, Len(data)).pieces

(***************************************************************************)
(* However the output is cut by the reads, what is written is the          *)
(* beginning of the whole text redacted at once, and all of it once the    *)
(* stream has been read to its end.                                        *)
(***************************************************************************)
ChunkingInvisible ==
  \A s \in Streams :
    /\ reader[s] = "read" => IsPrefix(out[s], Redacted(text[s]))
    /\ reader[s] = "ended" => out[s] = Redacted(Sofar(s))

\* Where a value was written and its first letter let go there is a mask, of
\* a value at least as long unless that mask began before.
Masked(s, i, v) ==
  LET a == At(said[s], i)
  IN  a <= base[s] /\ At(said[s], i + Len(v)) <= written[s] + 1 =>
        \E p \in ToSet(out[s]) :
          /\ p.name # 0
          /\ \/ p.at < a /\ a < p.at + p.len
             \/ p.at = a /\ p.len >= Len(v)

(***************************************************************************)
(* No masked value can be read in the output: where the command wrote one, *)
(* its first letter is held back or under a mask.  Over a pseudo terminal  *)
(* this is said of values of one line only.                                *)
(***************************************************************************)
NoSecretInClear ==
  \A s \in Streams : \A i \in 1..Len(said[s]) : \A v \in Hits(said[s], i) :
    Mode # "pty" \/ Newline \notin ToSet(v) => Masked(s, i, v)

(***************************************************************************)
(* Less than the longest secret waits for more output, so that of a prompt *)
(* all but its last letters is seen before it is answered.  That much at   *)
(* most is lost when the read fails.  Nothing else ever is, but for what   *)
(* follows a write of lade's own that failed.                              *)
(***************************************************************************)
HeldBack ==
  \A s \in Streams : reader[s] \notin {"none", "lost"} =>
    /\ got[s] - base[s] < MaxLen
    /\ main = "exited" => got[s] = written[s]

(***************************************************************************)
(* Once no process has the streams open and the command has ended, lade    *)
(* ends with it.                                                           *)
(***************************************************************************)
Returns == (holders = {} /\ child = "exited") ~> main = "exited"

(***************************************************************************)
(* "Print sanitized output": all the command wrote is shown, redacted,     *)
(* when lade ends.                                                         *)
(***************************************************************************)
OutputComplete ==
  main = "exited" => \A s \in Streams :
    reader[s] \notin {"none", "lost"} => out[s] = Redacted(Sofar(s))
=============================================================================
