-------------------------------- MODULE Mcp ---------------------------------
(***************************************************************************)
(* `lade mcp` (src/mcp.rs) between the standard streams of a client and a  *)
(* server: either a command with pipes of its own ("stdio"), or an HTTP    *)
(* endpoint that the bridge posts to, one message after the other, and     *)
(* that answers with a body or a stream of events ("http",                 *)
(* sdk/src/mcp.rs).  A message is its kind and its place among those of    *)
(* the client.                                                             *)
(*                                                                         *)
(* main() restores the default action of SIGPIPE: to write where nobody    *)
(* reads any more kills lade on the spot.                                  *)
(***************************************************************************)
EXTENDS Naturals, Sequences

CONSTANTS
  Transports,  \* "stdio", "http"
  MaxMessages  \* bound of the messages of the client

ASSUME TransportsKnown == Transports \subseteq {"stdio", "http"}
ASSUME MessagesBounded == MaxMessages \in Nat

Kinds == {"request", "notification", "reply", "broken"}

VARIABLES
  transport,
  sent,     \* the messages of the client
  taken,    \* how many of them lade has read
  eof,      \* the client has closed the input of lade
  gone,     \* the client has closed the output of lade
  stalled,  \* the client reads nothing for now and its pipe is full
  main,     \* where lade stands
  result,   \* what the transport returned
  access,   \* files and forwards of the invocation
  opened,   \* sessions the server was not asked to forget, by the answer
            \* that gave their id
  known,    \* the bridge holds the id of a session
  asked,    \* the server waits for a reply of the client
  answered, \* the messages that were given an answer, in order
  child,    \* the command of the stdio transport
  reads,    \* the command has its input open
  holder,   \* a process of the command holds its output open
  input,    \* the task that copies to the command
  output    \* the task that copies from it

vars == <<transport, sent, taken, eof, gone, stalled, main, result, access, opened,
          known, asked, answered, child, reads, holder, input, output>>
client == <<sent, eof, gone, stalled>>
http == <<opened, known, asked, answered>>
stdio == <<child, reads, holder, input, output>>

TypeOK ==
  /\ transport \in Transports
  /\ sent \in Seq(Kinds) /\ Len(sent) <= MaxMessages
  /\ taken \in 0..Len(sent)
  /\ eof \in BOOLEAN /\ gone \in BOOLEAN /\ stalled \in BOOLEAN
  /\ main \in {"read", "post", "body", "stream", "select", "grace", "join",
               "cleanup", "closing", "leaving", "exited", "killed"}
  /\ result \in {"none", "ok", "code", "err"}
  /\ access \in {"held", "released"}
  /\ opened \subseteq {"success", "accepted", "failure", "unheard"}
  /\ known \in BOOLEAN /\ asked \in BOOLEAN
  /\ answered \in Seq(1..MaxMessages)
  /\ child \in {"none", "run", "ok", "failed"}
  /\ reads \in BOOLEAN /\ holder \in BOOLEAN
  /\ input \in {"none", "copy", "full", "ended", "failed", "aborted"}
  /\ output \in {"none", "copy", "ended", "failed"}

Over == main \in {"exited", "killed"}

Init ==
  /\ transport \in Transports
  /\ sent = <<>> /\ taken = 0 /\ eof = FALSE /\ gone = FALSE /\ stalled = FALSE
  /\ result = "none" /\ access = "held"
  /\ opened = {} /\ known = FALSE /\ asked = FALSE /\ answered = <<>>
  /\ holder = FALSE
  /\ IF transport = "http"
     THEN /\ main = "read" /\ child = "none" /\ reads = FALSE
          /\ input = "none" /\ output = "none"
     ELSE /\ main = "select" /\ child = "run" /\ reads = TRUE
          /\ input = "copy" /\ output = "copy"

----------------------------------------------------------------------------
\* The client: any messages, a reply only to what the server asked, and the
\* end of either stream at any time.
ClientSends(kind) ==
  /\ ~eof /\ Len(sent) < MaxMessages
  /\ kind = "reply" => asked
  /\ sent' = Append(sent, kind)
  /\ UNCHANGED <<transport, taken, eof, gone, stalled, main, result, access, http, stdio>>

ClientCloses ==
  /\ \/ ~eof /\ eof' = TRUE /\ gone' = gone
     \/ ~gone /\ gone' = TRUE /\ eof' = eof
  /\ UNCHANGED <<transport, sent, taken, stalled, main, result, access, http, stdio>>

ClientStalls(now) ==
  /\ stalled # now /\ stalled' = now
  /\ UNCHANGED <<transport, sent, taken, eof, gone, main, result, access, http, stdio>>

\* A write to the client: the rest of the step happens only when it reads.
WriteOut(next, answers) ==
  /\ ~stalled \/ gone
  /\ IF gone THEN main' = "killed" /\ UNCHANGED <<answered, result>>
     ELSE main' = next /\ answered' = answered \o answers /\ result' = result

\* Mutant: the error returns past the cleanup of the session.
BailAtOnce == main' = "closing" /\ result' = "err" /\ answered' = answered

Bail == main' = "cleanup" /\ result' = "err" /\ answered' = answered

Current == sent[taken]
HasId(kind) == kind \in {"request", "reply"}

\* The next line, which must be JSON, or the end of the input.
ReadLine ==
  /\ main = "read" /\ taken < Len(sent)
  /\ taken' = taken + 1
  /\ IF sent[taken + 1] = "broken" THEN Bail
     ELSE main' = "post" /\ UNCHANGED <<result, answered>>
  /\ UNCHANGED <<transport, client, access, opened, known, asked, stdio>>

ReadEof ==
  /\ main = "read" /\ eof /\ taken = Len(sent)
  /\ main' = "cleanup" /\ result' = "ok"
  /\ UNCHANGED <<transport, client, taken, access, http, stdio>>

\* The server got the message: a reply is what it waited for.
Delivered == asked' = (asked /\ Current # "reply")

\* To a message without one it may give a session; the id is taken from a
\* success only, and whatever its type.
Opens(answer) ==
  \/ UNCHANGED <<opened, known>>
  \/ ~known /\ opened' = opened \cup {answer} /\ known' = (answer = "success")

\* The request or its answer is lost: the client is told if it waits for one.
PostFails ==
  /\ main = "post"
  /\ IF HasId(Current) THEN WriteOut("read", <<taken>>)
     ELSE main' = "read" /\ UNCHANGED <<answered, result>>
  /\ \/ UNCHANGED <<opened, known, asked>>
     \/ Delivered /\ Opens("unheard")
  /\ UNCHANGED <<transport, client, taken, access, stdio>>

Accepted ==
  /\ main = "post"
  /\ main' = "read" /\ Delivered /\ Opens("accepted")
  /\ UNCHANGED <<transport, client, taken, result, access, answered, stdio>>

\* A failing status.
Refused ==
  /\ main = "post"
  /\ Bail /\ Delivered /\ Opens("failure")
  /\ UNCHANGED <<transport, client, taken, access, stdio>>

\* A success with a type of content that is not supported.
\* Mutant: the id of its session is not taken.
UnsupportedDropped ==
  /\ main = "post"
  /\ Bail /\ Delivered /\ UNCHANGED known
  /\ opened' = IF known THEN opened ELSE opened \cup {"success"}
  /\ UNCHANGED <<transport, client, taken, access, stdio>>
Unsupported ==
  /\ main = "post"
  /\ Bail /\ Delivered /\ Opens("success")
  /\ UNCHANGED <<transport, client, taken, access, stdio>>

\* A success with a body or a stream to come.
Succeeds(next) ==
  /\ main = "post"
  /\ main' = next /\ Delivered /\ Opens("success")
  /\ UNCHANGED <<transport, client, taken, result, access, answered, stdio>>

Answer == IF Current = "request" THEN <<taken>> ELSE <<>>
Pending == Current = "request" /\ \A i \in DOMAIN answered : answered[i] # taken

Body ==
  /\ main = "body"
  /\ WriteOut("read", Answer) \/ Bail
  /\ UNCHANGED <<transport, client, taken, access, opened, known, asked, stdio>>

\* Events of the stream: the answer, a request of the server, a notice.
Event ==
  /\ main = "stream"
  /\ \/ Pending /\ ~asked /\ WriteOut("stream", <<taken>>) /\ asked' = asked
     \/ ~asked /\ WriteOut("stream", <<>>) /\ asked' = ~gone
     \/ WriteOut("stream", <<>>) /\ asked' = asked
  /\ UNCHANGED <<transport, client, taken, access, opened, known, stdio>>

\* The stream ends, after the answer or not, or breaks.
StreamEnds ==
  /\ main = "stream" /\ ~asked
  /\ main' = "read"
  /\ UNCHANGED <<transport, client, taken, result, access, http, stdio>>
\* Mutant: a broken stream is reported like a request that failed.
StreamBreaksReported ==
  /\ main = "stream"
  /\ IF HasId(Current) THEN WriteOut("read", <<taken>>)
     ELSE main' = "read" /\ UNCHANGED <<answered, result>>
  /\ UNCHANGED <<transport, client, taken, access, opened, known, asked, stdio>>
StreamBreaks ==
  /\ main = "stream"
  /\ Bail
  /\ UNCHANGED <<transport, client, taken, access, opened, known, asked, stdio>>

\* Whatever ended the loop, the server is asked to forget the session whose
\* id the bridge holds; that this may fail is logged only.
CleanupSession ==
  /\ main = "cleanup"
  /\ main' = "closing"
  /\ opened' = IF known THEN opened \ {"success"} ELSE opened
  /\ UNCHANGED <<transport, client, taken, result, access, known, asked, answered, stdio>>

----------------------------------------------------------------------------
\* The command of the stdio transport.
ChildExits(how) ==
  /\ child = "run"
  /\ child' = how /\ reads' = FALSE
  /\ UNCHANGED <<transport, client, taken, main, result, access, http, holder, input, output>>
ChildCloses ==
  /\ reads /\ reads' = FALSE
  /\ UNCHANGED <<transport, client, taken, main, result, access, http, child, holder, input, output>>
Holds(h) ==
  /\ transport = "stdio" /\ holder # h /\ (h => child = "run")
  /\ holder' = h
  /\ UNCHANGED <<transport, client, taken, main, result, access, http, child, reads, input, output>>
ChildReads ==
  /\ input = "full" /\ reads
  /\ input' = "copy"
  /\ UNCHANGED <<transport, client, taken, main, result, access, http, child, reads, holder, output>>

\* What the command writes is copied to nobody: that kills lade.
CopyOut ==
  /\ child = "run" \/ holder
  /\ output = "copy" /\ gone
  /\ main' = "killed"
  /\ UNCHANGED <<transport, client, taken, result, access, http, stdio>>

\* The copy to the command: into its pipe, which may be full, or, when the
\* command reads no more, into a broken one.
CopyIn ==
  /\ \/ input = "copy" /\ taken < Len(sent) /\ taken' = taken + 1
     \/ input = "full" /\ ~reads /\ taken' = taken
  /\ IF reads THEN input' \in {"copy", "full"} /\ main' = main
     ELSE input' = input /\ main' = "killed"
  /\ UNCHANGED <<transport, client, result, access, http, child, reads, holder, output>>
CopyInEnds ==
  /\ input = "copy" /\ eof /\ taken = Len(sent)
  /\ input' = "ended"
  /\ UNCHANGED <<transport, client, taken, main, result, access, http, child, reads, holder, output>>

\* The copy from it ends when all is written to the client.
CopyOutEnds ==
  /\ output = "copy" /\ child # "run" /\ ~holder /\ ~stalled
  /\ output' = "ended"
  /\ UNCHANGED <<transport, client, taken, main, result, access, http, child, reads, holder, input>>

\* A read of the input or a write of the output fails.
CopyFails ==
  /\ \/ input = "copy" /\ input' = "failed" /\ output' = output
     \/ output = "copy" /\ output' = "failed" /\ input' = input
  /\ UNCHANGED <<transport, client, taken, main, result, access, http, child, reads, holder>>

\* Mutant: the command is not waited for once the input has ended.
SelectLeaving ==
  /\ main = "select"
  /\ \/ /\ child # "run"
        /\ main' = "join" /\ result' = result
        /\ input' = IF input \in {"copy", "full"} THEN "aborted" ELSE input
     \/ /\ input = "ended"
        /\ main' = "closing" /\ UNCHANGED <<input, result>>
     \/ /\ input = "failed"
        /\ main' = "closing" /\ result' = "err" /\ input' = input
  /\ UNCHANGED <<transport, client, taken, access, http, child, reads, holder, output>>

\* Whichever is first, the end of the command or that of the input.
Select ==
  /\ main = "select"
  /\ \/ /\ child # "run"
        /\ main' = "join" /\ result' = result
        /\ input' = IF input \in {"copy", "full"} THEN "aborted" ELSE input
     \/ /\ input = "ended"
        /\ main' = "grace" /\ UNCHANGED <<input, result>>
     \/ /\ input = "failed"
        /\ main' = "closing" /\ result' = "err" /\ input' = input
  /\ UNCHANGED <<transport, client, taken, access, http, child, reads, holder, output>>

\* Mutant: the command is waited for without a limit.
GraceWaits ==
  /\ main = "grace" /\ child # "run"
  /\ main' = "join"
  /\ UNCHANGED <<transport, client, taken, result, access, http, stdio>>

\* The command has a second to end by itself.
Grace ==
  /\ main = "grace"
  /\ main' = "join"
  /\ child' = IF child = "run" THEN "failed" ELSE child
  /\ reads' = FALSE
  /\ UNCHANGED <<transport, client, taken, result, access, http, holder, input, output>>

Join ==
  /\ main = "join" /\ output # "copy"
  /\ main' = "closing"
  /\ result' = IF output = "failed" THEN "err" ELSE IF child = "ok" THEN "ok" ELSE "code"
  /\ UNCHANGED <<transport, client, taken, access, http, stdio>>

\* run(): the files and the forwards go, then the program.  Without a code
\* to exit with, the runtime waits for the read of the standard input that an
\* aborted copy left behind.
Close ==
  /\ main = "closing"
  /\ main' = "leaving" /\ access' = "released"
  /\ UNCHANGED <<transport, client, taken, result, http, stdio>>
Leave ==
  /\ main = "leaving"
  /\ result = "ok" /\ input = "aborted" => eof \/ taken < Len(sent)
  /\ main' = "exited"
  /\ UNCHANGED <<transport, client, taken, result, access, http, stdio>>

Client == (\E kind \in Kinds : ClientSends(kind)) \/ ClientCloses
            \/ \E now \in BOOLEAN : ClientStalls(now)
Bridge == ReadLine \/ ReadEof \/ CleanupSession
Server == PostFails \/ Accepted \/ Refused \/ Unsupported \/ Succeeds("body") \/ Succeeds("stream") \/ Body
            \/ StreamEnds
Command == ChildExits("ok") \/ ChildExits("failed") \/ ChildCloses
             \/ (\E h \in BOOLEAN : Holds(h)) \/ ChildReads \/ CopyOut
Proxy == CopyIn \/ CopyInEnds \/ CopyOutEnds \/ Select \/ Grace \/ Join

Next ==
  /\ ~Over
  /\ \/ Client \/ Command
     \/ Bridge \/ Server \/ Event \/ StreamBreaks
     \/ Proxy \/ CopyFails \/ Close \/ Leave

Spec == Init /\ [][Next]_vars

\* The server answers and ends its streams unless it waits for a reply; the
\* command need not end by itself, and nothing is asked of the client.
FairSpec ==
  Spec /\ WF_vars(~Over /\ (Bridge \/ Close \/ Leave)) /\ WF_vars(~Over /\ Server)
       /\ WF_vars(~Over /\ Proxy)

----------------------------------------------------------------------------
(***************************************************************************)
(* A message is given one answer at most, the result or the error of the   *)
(* transport, whichever way a stream or the loop ends; and the answers     *)
(* come in the order of the messages that have an id.                      *)
(***************************************************************************)
AnsweredOnceInOrder ==
  /\ \A i, j \in DOMAIN answered : i < j => answered[i] < answered[j]
  /\ \A i \in DOMAIN answered : answered[i] <= taken /\ HasId(sent[answered[i]])

(***************************************************************************)
(* When the bridge is done, by the end of the input or by any failure, the *)
(* server was asked to forget the session that a success opened, also one  *)
(* of a type of content lade refuses.  Left to the server are a session    *)
(* whose id came with 202 or a failing status or in an answer that was     *)
(* lost, and any session if the client closes the output of lade.          *)
(***************************************************************************)
SessionReleased ==
  main \in {"closing", "leaving", "exited"} \/ (Over /\ ~gone) => "success" \notin opened

(***************************************************************************)
(* The files and forwards are there as long as the command that was given  *)
(* them runs, but for a command abandoned because the input of lade could  *)
(* not be read.                                                            *)
(***************************************************************************)
AccessOutlivesCommand == access = "released" /\ child = "run" => input = "failed"

(***************************************************************************)
(* Once the client closes the input, or the command fails, lade ends: the  *)
(* bridge after the messages it was sent, the proxy a second later at most *)
(* even if its command goes on.  Four things it waits for without end: a   *)
(* server that itself waits for a reply, which lade does not read while a  *)
(* stream is open, a process that keeps the command's output open, a       *)
(* client that does not read what it is sent, and a command that runs and  *)
(* does not read its input, behind which the end of the input is not seen. *)
(***************************************************************************)
Ends ==
  <>[](~asked /\ ~holder /\ ~stalled /\ (input = "full" => child # "run"))
    => ((eof \/ child = "failed") ~> Over)
=============================================================================
