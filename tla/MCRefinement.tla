---------------------------- MODULE MCRefinement ----------------------------
(***************************************************************************)
(* Raft against ReplicatedLog on a small instance, for TLC.                *)
(***************************************************************************)
EXTENDS RaftRefinement, MCRaft

\* a has led term 1 long enough for its no-op to be committed and applied on every
\* node; all calls have ended.  Reachable but for the history: elected names all nodes as
\* voters, where becomeLeader counts two of the three.  No property of the run reads it,
\* and so the other two nodes are alike.
SettledInit ==
  \E a \in Server :
    /\ state = [i \in Server |-> IF i = a THEN Leader ELSE Follower]
    /\ currentTerm = [i \in Server |-> 1]
    /\ votedFor = [i \in Server |-> a]
    /\ votesReceived = [i \in Server |-> {}]
    /\ log = [i \in Server |-> <<Noop(1, 1)>>]
    /\ snapshotIndex = [i \in Server |-> 0]
    /\ snapshotTerm = [i \in Server |-> 0]
    /\ commitIndex = [i \in Server |-> 1]
    /\ lastApplied = [i \in Server |-> 1]
    /\ nextIndex = [i \in Server |->
         [j \in Server |-> IF i = a /\ j # i THEN 2 ELSE 0]]
    /\ matchIndex = [i \in Server |->
         [j \in Server |-> IF i = a /\ j # i THEN 1 ELSE 0]]
    /\ applyPhase = [i \in Server |-> "idle"]
    /\ applying = [i \in Server |-> << >>]
    /\ machine = [i \in Server |-> << >>]
    /\ snapshotFile = [i \in Server |-> [index |-> 0, data |-> << >>]]
    /\ pendingProposals = [i \in Server |-> << >>]
    /\ proposal = [cmd \in Command |-> Idle]
    /\ calls = EmptyBag
    /\ restarts = [i \in Server |-> 0]
    /\ elected = {[term |-> 1, leader |-> a, voters |-> Server]}

\* i has entries to apply and no proposal that a result may find.
NobodyWaits(i) == lastApplied[i] < commitIndex[i] /\ pendingProposals[i] = << >>

\* Everything but snapshots, from one leader.  Steps whose delay the run replication
\* is about, or nobody can tell, go first: the request of a call, the entries that a
\* node has copied or nobody waits for, and the return of a result.
CrashingNext ==
  IF \E i \in Server : applyPhase[i] # "idle"
  THEN \E i \in Server : ApplyEntry(i) \/ MaybeSnapshot(i)
  ELSE IF \E i \in Server : NobodyWaits(i)
  THEN \E i \in Server : NobodyWaits(i) /\ FetchCommitted(i)
  ELSE IF \E cmd \in Command : proposal[cmd].status = "notified"
  THEN \E cmd \in Command : ProposeReturn(cmd)
  ELSE IF \E c \in DOMAIN calls : c.type = "SendAppendEntries"
  THEN \E c \in DOMAIN calls : SendAppendEntries(c)
  ELSE \/ CallStep
       \/ \E i \in Server : \/ StartElection(i)
                            \/ BroadcastAppendEntries(i)
                            \/ FetchCommitted(i)
                            \/ Crash(i)
       \/ \E cmd \in Command : \/ ProposeTimeout(cmd)
                               \/ \E i \in Server : Propose(i, cmd)

RefinementInit == SettledInit /\ decided = <<Noop(1, 1)>>

RefinementSpec ==
  /\ RefinementInit
  /\ [][CrashingNext /\ RecordDecided]_refinementVars
=============================================================================
