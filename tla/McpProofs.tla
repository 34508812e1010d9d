------------------------------- MODULE McpProofs --------------------------------
(***************************************************************************)
(* Proofs about Mcp, for any number of messages and any behaviour of       *)
(* client, server and command: its type, that the session is given back,   *)
(* that a command keeps its access, and that no message is answered twice  *)
(* or out of order.                                                        *)
(***************************************************************************)
EXTENDS Mcp, SequenceTheorems, TLAPS

(***************************************************************************)
(* What an output to the client may do: nothing but end lade, or append    *)
(* the answers.                                                            *)
(***************************************************************************)
LEMMA WriteOutType ==
  ASSUME NEW next, NEW answers, WriteOut(next, answers)
  PROVE  /\ result' = result
         /\ \/ main' = "killed" /\ answered' = answered
            \/ main' = next /\ answered' = answered \o answers
BY DEF WriteOut

(***************************************************************************)
(* A session is opened by one of four answers.                             *)
(***************************************************************************)
LEMMA OpensType ==
  ASSUME TypeOK, NEW answer \in {"success", "accepted", "failure", "unheard"}, Opens(answer)
  PROVE  /\ opened' \subseteq {"success", "accepted", "failure", "unheard"}
         /\ known' \in BOOLEAN
<1>1. CASE UNCHANGED <<opened, known>>
  BY <1>1 DEF TypeOK
<1>2. CASE ~known /\ opened' = opened \cup {answer} /\ known' = (answer = "success")
  BY <1>2 DEF TypeOK
<1>. QED BY <1>1, <1>2 DEF Opens

(***************************************************************************)
(* A session that a success opened stays known.                            *)
(***************************************************************************)
LEMMA OpensKnown ==
  ASSUME NEW answer, Opens(answer), "success" \in opened => known
  PROVE  "success" \in opened' => known'
<1>1. CASE UNCHANGED <<opened, known>>
  BY <1>1
<1>2. CASE ~known /\ opened' = opened \cup {answer} /\ known' = (answer = "success")
  <2>1. "success" \in opened' => answer = "success"
    BY <1>2
  <2>. QED BY <1>2, <2>1, Zenon
<1>. QED BY <1>1, <1>2 DEF Opens

(***************************************************************************)
(* The answer to the current message is a sequence of one or none.         *)
(***************************************************************************)
LEMMA AnswersType ==
  ASSUME TypeOK, taken # 0
  PROVE  /\ answered \o <<taken>> \in Seq(1..MaxMessages)
         /\ answered \o <<>> = answered
         /\ answered \o Answer \in Seq(1..MaxMessages)
<1>1. taken \in 1..MaxMessages
  BY MessagesBounded DEF TypeOK
<1>2. <<taken>> \in Seq(1..MaxMessages) /\ <<>> \in Seq(1..MaxMessages)
  BY <1>1
<1>3. answered \in Seq(1..MaxMessages)
  BY DEF TypeOK
<1>4. \A s \in Seq(1..MaxMessages) : answered \o s \in Seq(1..MaxMessages)
  BY <1>3, ConcatProperties
<1>5. answered \o <<>> = answered
  BY <1>3, ConcatEmptySeq
<1>6. Answer \in Seq(1..MaxMessages)
  BY <1>2 DEF Answer
<1>. QED BY <1>2, <1>4, <1>5, <1>6

-----------------------------------------------------------------------------
(***************************************************************************)
(* The transports do not mix, and the bridge is never past the input       *)
(* without a message in hand.                                              *)
(***************************************************************************)
Places ==
  /\ transport = "stdio" => main \notin {"read", "post", "body", "stream", "cleanup"}
  /\ transport = "http" => /\ main \notin {"select", "grace", "join"}
                           /\ child = "none" /\ input = "none" /\ output = "none"
                           /\ ~reads /\ ~holder
  /\ main \in {"post", "body", "stream"} => taken # 0

(***************************************************************************)
(* Type correctness of the bridge and of the proxy.                        *)
(***************************************************************************)
THEOREM TypeCorrect == Spec => [](TypeOK /\ Places)
<1>1. Init => TypeOK /\ Places
  <2> SUFFICES ASSUME Init PROVE TypeOK /\ Places
    OBVIOUS
  <2>1. transport = "stdio" \/ transport = "http"
    BY TransportsKnown DEF Init
  <2>2. sent \in Seq(Kinds) /\ Len(sent) = 0 /\ answered \in Seq(1..MaxMessages)
    BY EmptySeq DEF Init
  <2>3. /\ eof \in BOOLEAN /\ gone \in BOOLEAN /\ stalled \in BOOLEAN /\ known \in BOOLEAN /\ asked \in BOOLEAN
        /\ reads \in BOOLEAN /\ holder \in BOOLEAN
    BY Zenon DEF Init
  <2>4. TypeOK
    BY <2>1, <2>2, <2>3, MessagesBounded DEF Init, TypeOK
  <2>5. Places
    BY <2>1 DEF Init, Places
  <2>. QED BY <2>4, <2>5
<1>2. TypeOK /\ Places /\ [Next]_vars => (TypeOK /\ Places)'
  <2> SUFFICES ASSUME TypeOK, Places, [Next]_vars PROVE (TypeOK /\ Places)'
    OBVIOUS
  <2> USE MessagesBounded DEF Places, client, http, stdio
  <2>1. ASSUME NEW kind \in Kinds, ClientSends(kind) PROVE (TypeOK /\ Places)'
    <3>1. sent' \in Seq(Kinds) /\ Len(sent') = Len(sent) + 1 /\ Len(sent) \in Nat
      BY <2>1 DEF ClientSends, TypeOK
    <3>. QED BY <2>1, <3>1 DEF ClientSends, TypeOK
  <2>2. CASE ClientCloses
    <3>1. TypeOK'
      <4>1. eof' \in BOOLEAN /\ gone' \in BOOLEAN
        BY <2>2, Zenon DEF ClientCloses, TypeOK
      <4>. QED BY <2>2, <4>1 DEF ClientCloses, TypeOK
    <3>2. Places'
      BY <2>2 DEF ClientCloses, TypeOK
    <3>. QED BY <3>1, <3>2
  <2>3. CASE ReadLine
    <3>1. Len(sent) \in Nat
      BY DEF TypeOK
    <3>. QED BY <2>3, <3>1 DEF ReadLine, Bail, TypeOK
  <2>4. CASE ReadEof
    BY <2>4 DEF ReadEof, TypeOK
  <2>5. ASSUME NEW next \in {"read", "stream"}, NEW answers \in {<<>>, <<taken>>, Answer},
               WriteOut(next, answers), next = "stream" => main = "stream",
               main \in {"post", "body", "stream"},
               UNCHANGED <<transport, client, taken, access, stdio>>,
               asked' \in BOOLEAN, known' \in BOOLEAN,
               opened' \subseteq {"success", "accepted", "failure", "unheard"}
        PROVE  (TypeOK /\ Places)'
    <3>1. taken # 0
      BY <2>5
    <3>2. answered' \in Seq(1..MaxMessages)
      <4>1. answers = <<>> \/ answers = <<taken>> \/ answers = Answer
        BY <2>5
      <4>2. answered \in Seq(1..MaxMessages)
        BY DEF TypeOK
      <4>3. answered \o answers \in Seq(1..MaxMessages)
        BY <3>1, <4>1, <4>2, AnswersType
      <4>. QED BY <2>5, <4>2, <4>3, WriteOutType
    <3>3. main' \in {"killed", "read", "stream"} /\ result' = result
      BY <2>5, WriteOutType
    <3>. QED BY <2>5, <3>1, <3>2, <3>3 DEF TypeOK
  <2>6. CASE PostFails
    <3>1. /\ opened' \subseteq {"success", "accepted", "failure", "unheard"}
          /\ known' \in BOOLEAN /\ asked' \in BOOLEAN
      BY <2>6, OpensType DEF PostFails, Delivered, TypeOK
    <3>2. CASE HasId(Current)
      BY <2>5, <2>6, <3>1, <3>2 DEF PostFails
    <3>3. CASE ~HasId(Current)
      BY <2>6, <3>1, <3>3 DEF PostFails, TypeOK
    <3>. QED BY <3>2, <3>3
  <2>7. CASE Accepted
    BY <2>7, OpensType DEF Accepted, Delivered, TypeOK
  <2>8. CASE Refused \/ Unsupported
    <3>1. Opens("failure") \/ Opens("success")
      BY <2>8 DEF Refused, Unsupported
    <3>2. /\ opened' \subseteq {"success", "accepted", "failure", "unheard"}
          /\ known' \in BOOLEAN
      BY <3>1, OpensType
    <3>3. /\ main' = "cleanup" /\ result' = "err" /\ answered' = answered
          /\ main = "post" /\ Delivered
          /\ UNCHANGED <<transport, client, taken, access, stdio>>
      BY <2>8 DEF Refused, Unsupported, Bail
    <3>. QED BY <3>2, <3>3 DEF Delivered, TypeOK
  <2>9. ASSUME NEW next \in {"body", "stream"}, Succeeds(next) PROVE (TypeOK /\ Places)'
    BY <2>9, OpensType DEF Succeeds, Delivered, TypeOK
  <2>10. CASE Body
    <3>1. CASE WriteOut("read", Answer)
      BY <2>5, <2>10, <3>1 DEF Body, TypeOK
    <3>2. CASE Bail
      BY <2>10, <3>2 DEF Body, Bail, TypeOK
    <3>. QED BY <2>10, <3>1, <3>2 DEF Body
  <2>11. CASE Event
    <3>1. /\ main = "stream"
          /\ UNCHANGED <<transport, client, taken, access, opened, known, stdio>>
          /\ asked' \in BOOLEAN /\ known' \in BOOLEAN
          /\ opened' \subseteq {"success", "accepted", "failure", "unheard"}
      BY <2>11 DEF Event, TypeOK
    <3>2. WriteOut("stream", <<taken>>) \/ WriteOut("stream", <<>>)
      BY <2>11 DEF Event
    <3>. QED BY <2>5, <3>1, <3>2
  <2>12. CASE StreamEnds
    BY <2>12 DEF StreamEnds, TypeOK
  <2>13. CASE StreamBreaks
    BY <2>13 DEF StreamBreaks, Bail, TypeOK
  <2>14. CASE CleanupSession
    BY <2>14 DEF CleanupSession, TypeOK
  <2>15. ASSUME NEW how \in {"ok", "failed"}, ChildExits(how) PROVE (TypeOK /\ Places)'
    <3>1. TypeOK'
      <4>1. reads' \in BOOLEAN
        BY <2>15, Zenon DEF ChildExits, TypeOK
      <4>. QED BY <2>15, <4>1 DEF ChildExits, TypeOK
    <3>2. Places'
      BY <2>15 DEF ChildExits, TypeOK
    <3>. QED BY <3>1, <3>2
  <2>16. CASE ChildCloses
    <3>1. TypeOK'
      <4>1. reads' \in BOOLEAN
        BY <2>16, Zenon DEF ChildCloses, TypeOK
      <4>. QED BY <2>16, <4>1 DEF ChildCloses, TypeOK
    <3>2. Places'
      BY <2>16 DEF ChildCloses, TypeOK
    <3>. QED BY <3>1, <3>2
  <2>17. ASSUME NEW h \in BOOLEAN, Holds(h) PROVE (TypeOK /\ Places)'
    BY <2>17 DEF Holds, TypeOK
  <2>18. CASE ChildReads
    BY <2>18, TransportsKnown DEF ChildReads, TypeOK
  <2>19. CASE CopyOut
    BY <2>19, TransportsKnown DEF CopyOut, TypeOK
  <2>20. CASE CopyIn
    <3>1. Len(sent) \in Nat
      BY DEF TypeOK
    <3>. QED BY <2>20, <3>1, TransportsKnown DEF CopyIn, TypeOK
  <2>21. CASE CopyInEnds
    BY <2>21, TransportsKnown DEF CopyInEnds, TypeOK
  <2>22. CASE CopyOutEnds
    BY <2>22, TransportsKnown DEF CopyOutEnds, TypeOK
  <2>23. CASE CopyFails
    BY <2>23, TransportsKnown DEF CopyFails, TypeOK
  <2>24. CASE Select
    BY <2>24 DEF Select, TypeOK
  <2>25. CASE Grace
    <3>1. TypeOK'
      <4>1. reads' \in BOOLEAN
        BY <2>25, Zenon DEF Grace, TypeOK
      <4>. QED BY <2>25, <4>1 DEF Grace, TypeOK
    <3>2. Places'
      BY <2>25 DEF Grace, TypeOK
    <3>. QED BY <3>1, <3>2
  <2>26. CASE Join
    BY <2>26 DEF Join, TypeOK
  <2>27. CASE Close
    BY <2>27 DEF Close, TypeOK
  <2>28. CASE Leave
    <3>1. main = "leaving" /\ main' = "exited"
          /\ UNCHANGED <<transport, client, taken, result, access, http, stdio>>
      BY <2>28 DEF Leave
    <3>. QED BY <3>1 DEF TypeOK
  <2>29. CASE UNCHANGED vars
    BY <2>29 DEF vars, TypeOK
  <2>30. ASSUME NEW now \in BOOLEAN, ClientStalls(now) PROVE (TypeOK /\ Places)'
    BY <2>30 DEF ClientStalls, TypeOK
  <2>. QED
    BY <2>1, <2>2, <2>3, <2>4, <2>6, <2>7, <2>8, <2>9, <2>10, <2>11, <2>12, <2>13, <2>14,
       <2>15, <2>16, <2>17, <2>18, <2>19, <2>20, <2>21, <2>22, <2>23, <2>24, <2>25,
       <2>26, <2>27, <2>28, <2>29, <2>30
    DEF Next, Client, Command, Bridge, Server, Proxy
<1>. QED BY <1>1, <1>2, PTL DEF Spec

-----------------------------------------------------------------------------
(***************************************************************************)
(* A session that a success opened is asked to be forgotten before the     *)
(* bridge is done, whatever ends it but a client that reads no more: such  *)
(* a session is always known, and there is none with a command.            *)
(***************************************************************************)
THEOREM SessionReleasedHolds == Spec => []SessionReleased
<1> DEFINE Done == main \in {"closing", "leaving", "exited"}
           Inv == /\ Done => "success" \notin opened
                  /\ main = "killed" /\ "success" \in opened => gone
                  /\ "success" \in opened => known
                  /\ transport = "stdio" => "success" \notin opened
<1>1. Init => Inv
  BY DEF Init
<1>2. TypeOK /\ Places /\ Inv /\ [Next]_vars => Inv'
  <2> SUFFICES ASSUME TypeOK, Places, Inv, [Next]_vars PROVE Inv'
    OBVIOUS
  <2>. USE DEF client, http, stdio
  <2>0. transport = "stdio" \/ transport = "http"
    BY TransportsKnown DEF TypeOK
  <2>1. ASSUME UNCHANGED <<transport, opened, known>>, gone => gone',
               Done' => Done \/ "success" \notin opened,
               main' = "killed" => main = "killed" \/ gone \/ "success" \notin opened
        PROVE  Inv'
    BY <2>1
  <2>2. ASSUME Opens("unheard") \/ Opens("accepted") \/ Opens("failure") \/ Opens("success"),
               UNCHANGED <<transport, gone>>, transport = "http", ~Done',
               main' = "killed" => gone
        PROVE  Inv'
    <3>1. "success" \in opened' => known'
      BY <2>2, OpensKnown
    <3>. QED BY <2>2, <3>1
  <2>3. ASSUME NEW kind \in Kinds, ClientSends(kind) PROVE Inv'
    BY <2>1, <2>3 DEF ClientSends
  <2>4. ASSUME NEW now \in BOOLEAN, ClientStalls(now) PROVE Inv'
    BY <2>1, <2>4 DEF ClientStalls
  <2>5. CASE ClientCloses \/ ReadLine \/ ReadEof \/ StreamEnds \/ StreamBreaks
    BY <2>1, <2>5 DEF ClientCloses, ReadLine, ReadEof, StreamEnds, StreamBreaks, Bail
  <2>6. CASE Body \/ Event
    BY <2>1, <2>6 DEF Body, Event, WriteOut, Bail
  <2>7. CASE PostFails
    <3>1. main = "post" /\ main' \in {"killed", "read"} /\ (main' = "killed" => gone)
      BY <2>7 DEF PostFails, WriteOut
    <3>2. CASE UNCHANGED <<opened, known, asked>>
      BY <2>1, <2>7, <3>1, <3>2 DEF PostFails
    <3>3. CASE Opens("unheard")
      BY <2>0, <2>2, <2>7, <3>1, <3>3 DEF PostFails, Places
    <3>. QED BY <2>7, <3>2, <3>3 DEF PostFails
  <2>8. CASE Accepted \/ Refused \/ Unsupported
    BY <2>0, <2>2, <2>8 DEF Accepted, Refused, Unsupported, Bail, Places
  <2>9. ASSUME NEW next \in {"body", "stream"}, Succeeds(next) PROVE Inv'
    BY <2>0, <2>2, <2>9 DEF Succeeds, Places
  <2>10. CASE CleanupSession
    BY <2>0, <2>10 DEF CleanupSession, Places
  <2>11. ASSUME NEW how \in {"ok", "failed"}, ChildExits(how) PROVE Inv'
    BY <2>1, <2>11 DEF ChildExits
  <2>12. ASSUME NEW h \in BOOLEAN, Holds(h) PROVE Inv'
    BY <2>1, <2>12 DEF Holds
  <2>13. CASE ChildCloses \/ ChildReads \/ CopyInEnds \/ CopyOutEnds \/ CopyFails \/ Grace
    BY <2>1, <2>13 DEF ChildCloses, ChildReads, CopyInEnds, CopyOutEnds, CopyFails, Grace
  <2>14. CASE CopyOut
    BY <2>1, <2>14 DEF CopyOut
  <2>15. CASE CopyIn \/ Select \/ Join
    <3>1. "success" \notin opened
      BY <2>0, <2>15 DEF CopyIn, Select, Join, Places
    <3>. QED BY <2>1, <2>15, <3>1 DEF CopyIn, Select, Join
  <2>16. CASE Close \/ Leave
    BY <2>1, <2>16 DEF Close, Leave
  <2>17. CASE UNCHANGED vars
    BY <2>1, <2>17 DEF vars
  <2>. QED
    BY <2>3, <2>4, <2>5, <2>6, <2>7, <2>8, <2>9, <2>10, <2>11, <2>12, <2>13, <2>14, <2>15,
       <2>16, <2>17
    DEF Next, Client, Command, Bridge, Server, Proxy
<1>3. Inv => SessionReleased
  BY DEF SessionReleased, Over
<1>. QED BY <1>1, <1>2, <1>3, TypeCorrect, PTL DEF Spec

(***************************************************************************)
(* The files and the forwards are not taken from a command that runs: by   *)
(* the time lade closes, the command has ended or the copy to it failed.   *)
(***************************************************************************)
THEOREM AccessOutlivesCommandHolds == Spec => []AccessOutlivesCommand
<1> DEFINE Stays == child = "run" => input = "failed"
           Inv == /\ access = "released" => Stays
                  /\ main \in {"closing", "leaving", "exited"} => Stays
                  /\ main = "join" => child # "run"
<1>1. Init => Inv
  BY TransportsKnown DEF Init
<1>2. TypeOK /\ Places /\ Inv /\ [Next]_vars => Inv'
  <2> SUFFICES ASSUME TypeOK, Places, Inv, [Next]_vars PROVE Inv'
    OBVIOUS
  <2>. USE DEF client, http, stdio
  <2>0. transport = "stdio" \/ transport = "http"
    BY TransportsKnown DEF TypeOK
  <2>1. ASSUME UNCHANGED <<access, child>>, input = "failed" => input' = "failed",
               main' \in {"closing", "leaving", "exited"} =>
                 main \in {"closing", "leaving", "exited"} \/ Stays,
               main' = "join" => main = "join" \/ child # "run"
        PROVE  Inv'
    BY <2>1
  <2>2. ASSUME NEW kind \in Kinds, ClientSends(kind) PROVE Inv'
    BY <2>1, <2>2 DEF ClientSends
  <2>3. CASE Accepted \/ Refused \/ Unsupported
    BY <2>1, <2>3 DEF Accepted, Refused, Unsupported, Bail
  <2>15. CASE ClientCloses \/ ReadLine \/ ReadEof \/ StreamEnds \/ StreamBreaks
    BY <2>1, <2>15 DEF ClientCloses, ReadLine, ReadEof, StreamEnds, StreamBreaks, Bail
  <2>16. ASSUME NEW now \in BOOLEAN, ClientStalls(now) PROVE Inv'
    BY <2>1, <2>16 DEF ClientStalls
  <2>4. CASE PostFails \/ Body \/ Event
    BY <2>1, <2>4 DEF PostFails, Body, Event, WriteOut, Bail
  <2>5. ASSUME NEW next \in {"body", "stream"}, Succeeds(next) PROVE Inv'
    BY <2>1, <2>5 DEF Succeeds
  <2>6. CASE CleanupSession
    <3>1. child = "none"
      BY <2>0, <2>6 DEF CleanupSession, Places
    <3>. QED BY <2>1, <2>6, <3>1 DEF CleanupSession
  <2>7. ASSUME NEW how \in {"ok", "failed"}, ChildExits(how) PROVE Inv'
    BY <2>7 DEF ChildExits
  <2>8. ASSUME NEW h \in BOOLEAN, Holds(h) PROVE Inv'
    BY <2>1, <2>8 DEF Holds
  <2>9. CASE ChildCloses \/ ChildReads \/ CopyOut \/ CopyIn \/ CopyInEnds \/ CopyOutEnds \/ CopyFails
    BY <2>1, <2>9 DEF ChildCloses, ChildReads, CopyOut, CopyIn, CopyInEnds, CopyOutEnds, CopyFails
  <2>10. CASE Select
    BY <2>10 DEF Select
  <2>11. CASE Grace
    BY <2>11 DEF Grace
  <2>12. CASE Join \/ Leave
    BY <2>1, <2>12 DEF Join, Leave
  <2>13. CASE Close
    BY <2>13 DEF Close
  <2>14. CASE UNCHANGED vars
    BY <2>1, <2>14 DEF vars
  <2>. QED
    BY <2>2, <2>3, <2>4, <2>5, <2>6, <2>7, <2>8, <2>9, <2>10, <2>11, <2>12, <2>13, <2>14,
       <2>15, <2>16
    DEF Next, Client, Command, Bridge, Server, Proxy
<1>3. Inv => AccessOutlivesCommand
  BY DEF AccessOutlivesCommand
<1>. QED BY <1>1, <1>2, <1>3, TypeCorrect, PTL DEF Spec
-----------------------------------------------------------------------------
(***************************************************************************)
(* The message in hand has no answer while it is posted or its body read:  *)
(* all answers are those of earlier messages.                              *)
(***************************************************************************)
Unanswered == \A i \in DOMAIN answered : answered[i] # taken
Fresh == main \in {"post", "body"} => Unanswered

(***************************************************************************)
(* A first answer to the message in hand comes after those of earlier      *)
(* messages.                                                               *)
(***************************************************************************)
LEMMA AnswerInOrder ==
  ASSUME TypeOK, taken # 0, AnsweredOnceInOrder, Unanswered, HasId(Current),
         answered' = answered \o <<taken>>, UNCHANGED <<taken, sent>>
  PROVE  AnsweredOnceInOrder'
<1>. DEFINE n == Len(answered)
<1>1. /\ answered \in Seq(1..MaxMessages) /\ n \in Nat /\ DOMAIN answered = 1..n
      /\ taken \in 1..MaxMessages
  BY MessagesBounded, LenProperties DEF TypeOK
<1>2. /\ DOMAIN answered' = 1..(n + 1)
      /\ \A i \in 1..(n + 1) : answered'[i] = IF i <= n THEN answered[i] ELSE taken
  <2>1. <<taken>> \in Seq(1..MaxMessages) /\ Len(<<taken>>) = 1 /\ <<taken>>[1] = taken
    BY <1>1
  <2>2. /\ answered' \in Seq(1..MaxMessages) /\ Len(answered') = n + 1
        /\ \A i \in 1..(n + 1) :
             answered'[i] = IF i <= n THEN answered[i] ELSE <<taken>>[i - n]
    BY <1>1, <2>1, ConcatProperties
  <2>3. \A i \in 1..(n + 1) : i <= n \/ i - n = 1
    BY <1>1
  <2>4. DOMAIN answered' = 1..(n + 1)
    BY <2>2, LenProperties
  <2>. QED BY <2>1, <2>2, <2>3, <2>4
<1>3. \A i \in 1..n : answered[i] \in Nat /\ answered[i] < taken /\ HasId(sent[answered[i]])
  <2>1. \A i \in 1..n : answered[i] \in 1..MaxMessages
    BY <1>1, ElementOfSeq
  <2>. QED BY <1>1, <2>1 DEF AnsweredOnceInOrder, Unanswered
<1>4. ASSUME NEW i \in 1..(n + 1), NEW j \in 1..(n + 1), i < j
      PROVE  answered'[i] < answered'[j]
  <2>1. i \in 1..n
    BY <1>1, <1>4
  <2>2. CASE j \in 1..n
    BY <1>1, <1>2, <1>4, <2>1, <2>2 DEF AnsweredOnceInOrder
  <2>3. CASE j = n + 1
    BY <1>1, <1>2, <1>3, <2>1, <2>3
  <2>. QED BY <1>1, <2>2, <2>3
<1>5. ASSUME NEW i \in 1..(n + 1)
      PROVE  answered'[i] <= taken /\ HasId(sent[answered'[i]])
  <2>1. CASE i \in 1..n
    BY <1>1, <1>2, <1>3, <2>1
  <2>2. CASE i = n + 1
    BY <1>1, <1>2, <2>2 DEF Current
  <2>. QED BY <1>1, <2>1, <2>2
<1>. QED BY <1>2, <1>4, <1>5 DEF AnsweredOnceInOrder, HasId

(***************************************************************************)
(* A message is answered once at most, and answers come in the order of    *)
(* the messages, however requests end and whenever the loop does.          *)
(***************************************************************************)
THEOREM AnsweredOnceInOrderHolds == Spec => []AnsweredOnceInOrder
<1> DEFINE Inv == AnsweredOnceInOrder /\ Fresh
<1>1. Init => Inv
  BY DEF Init, AnsweredOnceInOrder, Fresh, Unanswered
<1>2. TypeOK /\ Places /\ Inv /\ [Next]_vars => Inv'
  <2> SUFFICES ASSUME TypeOK, Places, Inv, [Next]_vars PROVE Inv'
    OBVIOUS
  <2>. USE DEF client, http, stdio
  <2>0. /\ transport = "stdio" \/ transport = "http"
        /\ taken \in Nat /\ Len(sent) \in Nat /\ taken <= Len(sent)
        /\ \A i \in DOMAIN answered : answered[i] \in Nat /\ answered[i] \in 1..Len(sent)
    <3>1. answered \in Seq(1..MaxMessages) /\ sent \in Seq(Kinds) /\ taken \in 0..Len(sent)
      BY DEF TypeOK
    <3>2. \A i \in DOMAIN answered : answered[i] \in 1..MaxMessages /\ answered[i] <= taken
      BY <3>1, LenProperties, ElementOfSeq DEF AnsweredOnceInOrder
    <3>. QED BY <3>1, <3>2, TransportsKnown, MessagesBounded DEF TypeOK
  <2>1. ASSUME UNCHANGED <<answered, taken, sent>>,
               main' \in {"post", "body"} => main \in {"post", "body"}
        PROVE  Inv'
    BY <2>1 DEF AnsweredOnceInOrder, Fresh, Unanswered, HasId
  <2>2. ASSUME UNCHANGED <<answered, sent>>, taken' = taken + 1
        PROVE  Inv'
    BY <2>0, <2>2 DEF AnsweredOnceInOrder, Fresh, Unanswered, HasId
  <2>3. ASSUME HasId(Current), Unanswered, WriteOut("read", <<taken>>) \/ WriteOut("stream", <<taken>>),
               UNCHANGED <<taken, sent>>, taken # 0
        PROVE  Inv'
    <3>1. CASE answered' = answered /\ main' = "killed"
      BY <2>1, <2>3, <3>1
    <3>2. CASE answered' = answered \o <<taken>> /\ main' \in {"read", "stream"}
      BY <2>3, <3>2, AnswerInOrder DEF Fresh
    <3>. QED BY <2>3, <3>1, <3>2 DEF WriteOut
  <2>4. ASSUME WriteOut("read", <<>>) \/ WriteOut("stream", <<>>), UNCHANGED <<taken, sent>>
        PROVE  Inv'
    <3>1. answered' = answered /\ main' \in {"killed", "read", "stream"}
      BY <2>4, ConcatEmptySeq DEF WriteOut, TypeOK
    <3>. QED BY <2>1, <2>4, <3>1
  <2>5. ASSUME NEW kind \in Kinds, ClientSends(kind) PROVE Inv'
    <3>1. \A i \in 1..Len(sent) : sent'[i] = sent[i]
      BY <2>5 DEF ClientSends, TypeOK
    <3>2. UNCHANGED <<answered, taken, main>>
      BY <2>5 DEF ClientSends
    <3>. QED BY <2>0, <3>1, <3>2 DEF AnsweredOnceInOrder, Fresh, Unanswered, HasId
  <2>6. CASE ReadLine
    BY <2>2, <2>6 DEF ReadLine, Bail
  <2>7. CASE CopyIn
    <3>1. main' \in {main, "killed"} /\ UNCHANGED <<answered, sent>>
      BY <2>7 DEF CopyIn
    <3>2. taken' = taken \/ taken' = taken + 1
      BY <2>7 DEF CopyIn
    <3>. QED BY <2>1, <2>2, <3>1, <3>2
  <2>8. CASE PostFails
    BY <2>1, <2>3, <2>8 DEF PostFails, Fresh, Places
  <2>9. CASE Body
    <3>1. CASE Bail
      BY <2>1, <2>9, <3>1 DEF Body, Bail
    <3>2. CASE WriteOut("read", Answer)
      <4>1. CASE Current = "request"
        BY <2>3, <2>9, <3>2, <4>1 DEF Body, Answer, HasId, Fresh, Places
      <4>2. CASE Current # "request"
        BY <2>4, <2>9, <3>2, <4>2 DEF Body, Answer
      <4>. QED BY <4>1, <4>2
    <3>. QED BY <2>9, <3>1, <3>2 DEF Body
  <2>10. CASE Event
    <3>1. CASE Pending /\ WriteOut("stream", <<taken>>)
      BY <2>3, <2>10, <3>1 DEF Event, Pending, HasId, Unanswered, Places
    <3>2. CASE WriteOut("stream", <<>>)
      BY <2>4, <2>10, <3>2 DEF Event
    <3>. QED BY <2>10, <3>1, <3>2 DEF Event
  <2>11. CASE ClientCloses \/ ReadEof \/ StreamEnds \/ StreamBreaks
    BY <2>1, <2>11 DEF ClientCloses, ReadEof, StreamEnds, StreamBreaks, Bail
  <2>18. CASE Accepted \/ Refused \/ Unsupported
    BY <2>1, <2>18 DEF Accepted, Refused, Unsupported, Bail
  <2>19. ASSUME NEW now \in BOOLEAN, ClientStalls(now) PROVE Inv'
    BY <2>1, <2>19 DEF ClientStalls
  <2>12. ASSUME NEW next \in {"body", "stream"}, Succeeds(next) PROVE Inv'
    BY <2>1, <2>12 DEF Succeeds
  <2>13. ASSUME NEW how \in {"ok", "failed"}, ChildExits(how) PROVE Inv'
    BY <2>1, <2>13 DEF ChildExits
  <2>14. ASSUME NEW h \in BOOLEAN, Holds(h) PROVE Inv'
    BY <2>1, <2>14 DEF Holds
  <2>15. CASE CleanupSession \/ ChildCloses \/ ChildReads \/ CopyOut \/ Select
    BY <2>1, <2>15 DEF CleanupSession, ChildCloses, ChildReads, CopyOut, Select
  <2>20. CASE CopyInEnds \/ CopyOutEnds \/ CopyFails
    BY <2>1, <2>20 DEF CopyInEnds, CopyOutEnds, CopyFails
  <2>16. CASE Grace \/ Join \/ Close \/ Leave
    BY <2>1, <2>16 DEF Grace, Join, Close, Leave
  <2>17. CASE UNCHANGED vars
    BY <2>1, <2>17 DEF vars
  <2>. QED
    BY <2>5, <2>6, <2>7, <2>8, <2>9, <2>10, <2>11, <2>12, <2>13, <2>14, <2>15, <2>16, <2>17,
       <2>18, <2>19, <2>20
    DEF Next, Client, Command, Bridge, Server, Proxy
<1>. QED BY <1>1, <1>2, TypeCorrect, PTL DEF Spec
=============================================================================
