----------------------------- MODULE MCApproval -----------------------------
(***************************************************************************)
(* Two commands under disclaimers of their own; the disclaimers of the     *)
(* first differ by directory, or by audience, and then the lade.yml of the *)
(* other directory cannot be read.                                         *)
(***************************************************************************)
EXTENDS Approval

CONSTANTS Deploy, Drop, Top, Sub, D1, D2

Says(cmd, when, anchored, text) ==
  [cmd |-> cmd, when |-> when, anchored |-> anchored, text |-> text]

Common == {Says(Drop, "always", TRUE, D2)}
ByDir ==
  [d \in Dirs |-> Common \cup
     IF d = Top THEN {Says(Deploy, "always", FALSE, D1)}
     ELSE {Says(Deploy, "human", FALSE, D2), Says(Deploy, "agent", FALSE, NoText)}]
ByAudience ==
  [d \in Dirs |->
     IF d = Top
     THEN Common \cup {Says(Deploy, "human", FALSE, D1), Says(Deploy, "always", FALSE, D2)}
     ELSE Unreadable]
MCLadeFiles == {ByDir, ByAudience}

\* The shell starts in the directory above: Cd leads anywhere.  With an agent
\* named in its environment no terminal makes a difference.  One of the two
\* disclaimers of a text may be approved for good.
MCInit ==
  /\ Init
  /\ cwd = Top /\ ~(signal /\ tty)
  /\ IF config = ByAudience THEN approved = {D1} /\ ~signal ELSE approved = {}
MCSpec == MCInit /\ [][Next]_vars
=============================================================================
