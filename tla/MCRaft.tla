------------------------------- MODULE MCRaft -------------------------------
(***************************************************************************)
(* Raft on small instances, for TLC.  The servers and the commands are     *)
(* model values that the specification treats alike, and the start states  *)
(* are closed under their permutations.                                    *)
(***************************************************************************)
EXTENDS RaftSafety, TLC

Symmetry == Permutations(Server) \union Permutations(Command)

-----------------------------------------------------------------------------
(* Start states, reachable from Init. *)

Noop(term, index) == [term |-> term, index |-> index, cmd |-> Nil]

\* What Init leaves alone in the start states below.
QuietStart ==
  /\ snapshotIndex = [i \in Server |-> 0]
  /\ snapshotTerm = [i \in Server |-> 0]
  /\ commitIndex = [i \in Server |-> 0]
  /\ lastApplied = [i \in Server |-> 0]
  /\ matchIndex = [i \in Server |-> [j \in Server |-> 0]]
  /\ applyPhase = [i \in Server |-> "idle"]
  /\ applying = [i \in Server |-> << >>]
  /\ machine = [i \in Server |-> << >>]
  /\ snapshotFile = [i \in Server |-> [index |-> 0, data |-> << >>]]
  /\ restarts = [i \in Server |-> 0]

\* a led term 1, and b leads term 2 with the vote of the third node; a refused b
\* its vote, its log being longer, but heard of the term.  Each has its own no-op at
\* index 1, and b a proposal behind it.  All calls were lost but the first request
\* of b to the third node, built before b had its proposal.
DivergedInit == \E a, b \in Server, x \in Command :
  /\ a # b
  /\ state = [i \in Server |-> IF i = b THEN Leader ELSE Follower]
  /\ currentTerm = [i \in Server |-> 2]
  /\ votedFor = [i \in Server |-> IF i = a THEN Nil ELSE b]
  /\ votesReceived = [i \in Server |-> {}]
  /\ log = [i \in Server |->
       CASE i = a -> <<Noop(1, 1)>>
         [] i = b -> <<Noop(2, 1), [term |-> 2, index |-> 2, cmd |-> x]>>
         [] OTHER -> << >>]
  /\ nextIndex = [i \in Server |->
       [j \in Server |-> IF i \in {a, b} /\ j # i THEN 1 ELSE 0]]
  /\ pendingProposals = [i \in Server |-> IF i = b THEN 2 :> x ELSE << >>]
  /\ proposal = [cmd \in Command |->
       IF cmd = x
       THEN [status |-> "waiting", node |-> b, index |-> 2, term |-> 2]
       ELSE Idle]
  /\ calls = SetToBag(
       {[type |-> "AppendEntries", src |-> b, dst |-> c, life |-> 0, term |-> 2,
         prevLogIndex |-> 0, prevLogTerm |-> 0, entries |-> <<Noop(2, 1)>>,
         leaderCommit |-> 0] : c \in Server \ {a, b}})
  /\ elected = {[term |-> 1, leader |-> a, voters |-> Server \ {b}],
                [term |-> 2, leader |-> b, voters |-> Server \ {a}]}
  /\ QuietStart

\* a won term 1, all nodes voted for it, and no entry is replicated.
LedInit == \E a \in Server :
  /\ state = [i \in Server |-> IF i = a THEN Leader ELSE Follower]
  /\ currentTerm = [i \in Server |-> 1]
  /\ votedFor = [i \in Server |-> a]
  /\ votesReceived = [i \in Server |-> {}]
  /\ log = [i \in Server |-> IF i = a THEN <<Noop(1, 1)>> ELSE << >>]
  /\ nextIndex = [i \in Server |->
       [j \in Server |-> IF i = a /\ j # i THEN 1 ELSE 0]]
  /\ calls = EmptyBag
  /\ pendingProposals = [i \in Server |-> << >>]
  /\ proposal = [cmd \in Command |-> Idle]
  /\ \E voters \in Quorums :
       /\ a \in voters
       /\ Cardinality(voters) = Majority
       /\ elected = {[term |-> 1, leader |-> a, voters |-> voters]}
  /\ QuietStart

-----------------------------------------------------------------------------
(* Parts of Next, and the specifications of the runs. *)

\* The protocol alone: without snapshots the apply loop and the end of a
\* proposal read what the protocol wrote and write nothing that it reads.  No
\* command is left to propose in these runs.
ProtocolNext ==
  \/ CallStep
  \/ \E i \in Server :
       StartElection(i) \/ BroadcastAppendEntries(i) \/ Crash(i)

\* Everything with snapshots but crashes outside handlers and snapshots, the
\* timeout of a proposal, and elections, for which the runs leave no term.
\* Nothing but a crash reads that a result waits for its proposer, who returns
\* first.
LedNext ==
  IF \E cmd \in Command : proposal[cmd].status = "notified"
  THEN \E cmd \in Command : ProposeReturn(cmd)
  ELSE \/ CallStep
       \/ \E i \in Server, cmd \in Command : Propose(i, cmd)
       \/ \E i \in Server : \/ BroadcastAppendEntries(i)
                            \/ FetchCommitted(i)
                            \/ ApplyEntry(i)
                            \/ MaybeSnapshot(i)
                            \/ TakeSnapshot(i)
                            \/ CrashInSnapshot(i)

\* The protocol from the start, and from two leaders.
ProtocolSpec == Init /\ [][ProtocolNext]_vars
DivergedSpec == DivergedInit /\ [][ProtocolNext]_vars

\* Snapshots and crashes in them, from one leader.
LedSpec == LedInit /\ [][LedNext]_vars
=============================================================================
