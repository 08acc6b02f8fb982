---------------------------- MODULE RaftLiveness ----------------------------
(***************************************************************************)
(* What the Raft node of src/raft eventually does, once the cluster is     *)
(* quiet: the last term, MaxTerm, is one in which the random timeouts let  *)
(* an up-to-date node campaign alone and the network loses only a few more *)
(* calls.  Before that term candidates split their votes and lose their    *)
(* calls at will.  Crashes and snapshots are left out.                     *)
(***************************************************************************)
EXTENDS RaftSafety

CONSTANTS
  MaxLost,         \* bound: this many calls of the last term are lost
  MaxCallsPerPeer  \* bound: this many calls of a node to one peer at a time

ASSUME LivenessBounds == MaxLost \in Nat /\ MaxCallsPerPeer \in Nat \ {0}

VARIABLE lost       \* the calls of the last term that were lost

liveVars == <<vars, lost>>

\* Every node would grant i its vote.
HasBestLog(i) ==
  \A j \in Server : UpToDate(LastTerm(i), LastIndex(i), LastTerm(j), LastIndex(j))

Quiet == \E i \in Server : currentTerm[i] = MaxTerm

\* i starts its calls to all peers; one that fails at once counts as lost.
CallsEveryPeer(i) ==
  BagCardinality(calls') = BagCardinality(calls) + Cardinality(Peers(i))

\* In the last term the timer of an up-to-date node fires first (raft.go:139-146),
\* and its heartbeats keep the other timers from firing (raft.go:320).
TimerFires(i) ==
  /\ StartElection(i)
  /\ currentTerm'[i] = MaxTerm => ~Quiet /\ HasBestLog(i) /\ CallsEveryPeer(i)

\* Requests for a vote are lost at will before the last term; of the other calls
\* only MaxLost.
LoseSome(c) ==
  /\ IF c.type \in {"RequestVote", "RequestVoteReply"} /\ c.term < MaxTerm
     THEN UNCHANGED lost
     ELSE lost < MaxLost /\ lost' = lost + 1
  /\ Lose(c)

HandleAppendEntries(c) ==
  RejectStaleAppend(c) \/ RejectShortLog(c) \/ RejectMismatch(c) \/ AcceptEntries(c)

\* Once the last term has begun, the last vote of an earlier campaign is lost.
HandleReply(c) ==
  \/ StepDownOnReply(c) \/ DiscardReply(c) \/ CountVote(c)
  \/ /\ Quiet => c.term = MaxTerm
     /\ BecomeLeader(c)
  \/ /\ Quiet /\ c.term < MaxTerm /\ c.type = "RequestVoteReply"
     /\ Lose(c)
  \/ AdvanceOnSuccess(c) \/ BackOffOnFailure(c)

\* One step of some call from i to j: of its goroutine, or of the handler.
CallProceeds(i, j) ==
  \E c \in DOMAIN calls :
    /\ c.src = i /\ c.dst = j
    /\ HandleRequestVote(c) \/ HandleAppendEntries(c) \/ HandleReply(c)
         \/ SendAppendEntries(c)

ApplyLoop(i) == FetchCommitted(i) \/ ApplyEntry(i) \/ MaybeSnapshot(i)

InFlight(i, j) ==
  LET between == {c \in DOMAIN calls : c.src = i /\ c.dst = j}
  IN  BagCardinality([c \in between |-> calls[c]])

\* Clients come only to a cluster that has seen one before.
ClientsCome == \E cmd \in Command : proposal[cmd] # Idle

\* A call overtakes another to the same peer only where a client has come.
KeepsCallBound(i) ==
  \A j \in Peers(i) :
    InFlight(i, j)' <= IF ClientsCome THEN MaxCallsPerPeer ELSE 1

\* A tick calls every peer to which no call is under way, and may overtake the calls
\* that are.
Heartbeat(i) ==
  /\ BroadcastAppendEntries(i)
  /\ KeepsCallBound(i)
  /\ \A j \in Peers(i) : InFlight(i, j) = 0 => InFlight(i, j)' > 0

\* What happens whether or not clients come and lose their patience.
QuietNext ==
  \/ /\ \/ \E i, j \in Server : CallProceeds(i, j)
        \/ \E i \in Server : TimerFires(i) \/ Heartbeat(i) \/ ApplyLoop(i)
        \/ \E cmd \in Command : ProposeReturn(cmd)
     /\ UNCHANGED lost
  \/ \E c \in DOMAIN calls : LoseSome(c)

\* Goroutines are scheduled, timers and tickers fire, and calls that are not lost end
\* (they have a timeout of 500 ms).  Nothing is assumed of the clients and of the
\* timeout of their proposals.
Fairness ==
  /\ \A i \in Server : /\ WF_liveVars(TimerFires(i) /\ UNCHANGED lost)
                       /\ WF_liveVars(Heartbeat(i) /\ UNCHANGED lost)
                       /\ WF_liveVars(ApplyLoop(i) /\ UNCHANGED lost)
                       /\ \A j \in Peers(i) :
                            WF_liveVars(CallProceeds(i, j) /\ UNCHANGED lost)
  /\ \A cmd \in Command : WF_liveVars(ProposeReturn(cmd) /\ UNCHANGED lost)

-----------------------------------------------------------------------------

\* In the end there is a leader for good, with an entry of its own committed, after
\* whatever split votes and lost calls there were (raft.go:109-248).
LeaderIsEstablished ==
  <>[](\E i \in Server : /\ state[i] = Leader
                         /\ HasEntry(i, commitIndex[i])
                         /\ Entry(i, commitIndex[i]).term = currentTerm[i])

\* In the end every node has executed all commands that the leader of the quiet term
\* has in its log, whatever their logs looked like before and whatever the proposer was
\* told: nextIndex finds the place where the logs part although a call overtakes
\* another to the same peer, the log grows between them, and an answer that comes late
\* moves nextIndex back behind what the peer has confirmed (raft.go:521-543).
EntriesSpread ==
  <>[](\A i \in Server :
         state[i] = Leader /\ currentTerm[i] = MaxTerm
           => \A j \in Server : CommandsOf(log[i]) \subseteq Range(machine[j]))

\* In the end no client of that leader waits, even if the timeout of five seconds never
\* comes: the result finds the proposal that waits for it (raft.go:594-608, 690-694).
ClientsAreAnswered ==
  <>[](\A cmd \in Command :
         ~(proposal[cmd].status = "waiting" /\ proposal[cmd].term = MaxTerm))
=============================================================================
