--------------------------- MODULE RaftRefinement ---------------------------
(***************************************************************************)
(* Raft implements ReplicatedLog while no node takes a snapshot.  The      *)
(* refinement mapping needs what no node may remember after a crash, so    *)
(* the specification is extended by a history variable, decided.           *)
(***************************************************************************)
EXTENDS RaftSafety

VARIABLE decided   \* history: the longest log prefix that a node knew to be committed

refinementVars == <<vars, decided>>

Committed(i) == EntriesBetween(log[i], snapshotIndex[i], 1, commitIndex[i])

\* The longest of the committed prefixes and what was decided before.
Longest(prefixes) ==
  CHOOSE p \in prefixes : \A q \in prefixes : Len(q) <= Len(p)

RecordDecided == decided' = Longest({decided} \union {Committed(i)' : i \in Server})

\* Module Raft with its history: nothing is decided at first.
DecidedSpec ==
  /\ Init /\ decided = << >>
  /\ [][Next /\ RecordDecided]_refinementVars

\* A result that Propose has yet to return may still be lost to its timeout.
ToldTo(cmd) ==
  [status |-> IF proposal[cmd].status = "notified" THEN "waiting"
                                                   ELSE proposal[cmd].status,
   node   |-> proposal[cmd].node]

Abstract == INSTANCE ReplicatedLog
  WITH Node      <- Server,
       NoCommand <- Nil,
       ledger    <- [n \in DOMAIN decided |-> decided[n].cmd],
       position  <- lastApplied,
       executed  <- machine,
       proposal  <- [cmd \in Command |-> ToldTo(cmd)]

\* There is one order of commands that all nodes execute, which no change of
\* leader, timeout or crash rewrites, and a client is told of success only when
\* its node has executed its command in that order (raft.go:582-704): every step
\* of Raft is a step of ReplicatedLog or leaves it alone.
ImplementsReplicatedLog == Abstract!Spec
=============================================================================
