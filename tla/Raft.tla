-------------------------------- MODULE Raft --------------------------------
(***************************************************************************)
(* The Raft node of src/raft: elections, log replication, client           *)
(* proposals, the apply loop, snapshots, and crashes with recovery from    *)
(* the files.  One action is one critical section of RaftNode.mu (or one   *)
(* crash); what a goroutine has read before it takes the lock again is     *)
(* part of the state, so that every interleaving the lock allows is a      *)
(* behaviour.                                                              *)
(*                                                                         *)
(* Each RPC is a goroutine of the caller that blocks in the transport.     *)
(* calls is the bag of these goroutines, each a record that says how far   *)
(* it has come:                                                            *)
(*   RequestVote         the request is on its way to dst                  *)
(*   RequestVoteReply    the answer is on its way back to src              *)
(*   SendAppendEntries   the goroutine is started and has read no log yet  *)
(*   AppendEntries       the request is on its way to dst                  *)
(*   AppendEntriesReply  the answer is on its way back to src              *)
(* A call that fails or times out is taken out of the bag (Lose); calls    *)
(* are delivered in any order.                                             *)
(*                                                                         *)
(* Every change of the persistent state is saved before the lock is        *)
(* released, so currentTerm, votedFor, log, snapshotIndex and snapshotTerm *)
(* are the file as well as the memory; a crash inside a critical section,  *)
(* between two saves, is an action of its own.                             *)
(*                                                                         *)
(* A definition introduced by "Mutant:" is a plausible bug of the one that *)
(* follows it, against which the properties are tried; nothing uses it.    *)
(***************************************************************************)
EXTENDS Integers, Sequences, FiniteSets, FiniteSetsExt, BagsExt, Bags, RaftLog

CONSTANTS
  Server,             \* the keys of Config.Peers, the node itself included
  Command,            \* the client commands, each proposed at most once
  Nil,                \* no vote ("") and the command of a no-op entry (nil)
  SnapshotThreshold,  \* Config.SnapshotThreshold
  DefaultSnapshotThreshold,  \* what maybeSnapshot takes for a threshold of 0
  MaxTerm,            \* bound: no election beyond this term
  MaxLogIndex,        \* bound: no entry beyond this index
  MaxCalls,           \* bound: this many calls in progress at a time
  MaxRestarts         \* bound: this many crashes in a behaviour

ASSUME NilAssumption == Nil \notin Server /\ Nil \notin Command
ASSUME ServerAssumption == IsFiniteSet(Server) /\ Server # {}
ASSUME BoundAssumption ==
  /\ MaxTerm \in Nat
  /\ MaxLogIndex \in Nat
  /\ MaxCalls \in Nat
  /\ MaxRestarts \in Nat
  /\ SnapshotThreshold \in Nat
  /\ DefaultSnapshotThreshold \in Nat \ {0}

VARIABLES
  state,             \* rn.state
  currentTerm,       \* persistent.CurrentTerm
  votedFor,          \* persistent.VotedFor
  votesReceived,     \* the voters behind startElection's counter
  log,               \* persistent.Log
  snapshotIndex,     \* persistent.SnapshotIndex
  snapshotTerm,      \* persistent.SnapshotTerm
  commitIndex,       \* volatile.CommitIndex
  lastApplied,       \* volatile.LastApplied
  nextIndex,         \* leaderState.NextIndex
  matchIndex,        \* leaderState.MatchIndex
  applyPhase,        \* where the goroutine of applyLoop stands
  applying,          \* the entries applyCommitted copied and has yet to apply
  machine,           \* the commands the state machine has executed, in order
  snapshotFile,      \* the snapshot file: the index it names and its data
  pendingProposals,  \* rn.pendingProposals: index -> proposal
  proposal,          \* the goroutine of Propose(cmd), for every command
  calls,             \* the RPC goroutines
  restarts,          \* how often each node has crashed
  elected            \* history: every election won, with its voters

electionVars == <<state, currentTerm, votedFor, votesReceived>>
logVars      == <<log, snapshotIndex, snapshotTerm>>
leaderVars   == <<nextIndex, matchIndex>>
applyVars    == <<lastApplied, applyPhase, applying, machine, snapshotFile>>
clientVars   == <<pendingProposals, proposal>>
vars == <<electionVars, logVars, commitIndex, leaderVars, applyVars, clientVars,
          calls, restarts, elected>>

Follower  == "Follower"
Candidate == "Candidate"
Leader    == "Leader"

\* Mutant: a node calls itself too.
EveryServer(i) == Server

Peers(i) == Server \ {i}

\* len(Peers)/2 + 1 votes, or a set of that size.
Majority == Cardinality(Server) \div 2 + 1
Quorums  == {Q \in SUBSET Server : Cardinality(Q) >= Majority}

LastIndex(i) == LastLogIndex(log[i], snapshotIndex[i])
LastTerm(i)  == LastLogTerm(log[i], snapshotTerm[i])
HasEntry(i, index) == HasLogEntry(log[i], snapshotIndex[i], index)
Entry(i, index) == GetLogEntry(log[i], snapshotIndex[i], index)

Idle == [status |-> "idle", node |-> Nil, index |-> 0, term |-> 0]

-----------------------------------------------------------------------------
(* The calls in progress. *)

Replies == {"RequestVoteReply", "AppendEntriesReply"}

RequestVoteCall(i, j, term) ==
  [type |-> "RequestVote", src |-> i, dst |-> j, life |-> restarts[i],
   term |-> term, lastLogIndex |-> LastIndex(i), lastLogTerm |-> LastTerm(i)]

SendAppendCall(i, j) ==
  [type |-> "SendAppendEntries", src |-> i, dst |-> j,
   term |-> currentTerm[i], leaderCommit |-> commitIndex[i]]

\* The calls a node starts together, one goroutine per peer.  Those that fail at
\* once (the peer is down, the connection refused) leave no trace.
Start(newCalls) ==
  \E started \in SUBSET newCalls :
    /\ BagCardinality(calls) + Cardinality(started) <= MaxCalls
    /\ calls' = calls (+) SetToBag(started)

\* Replace a request by its answer; nobody waits for it if the caller has
\* crashed since.
Reply(c, answer) ==
  calls' = IF c.life = restarts[c.src] THEN BagAdd(BagRemove(calls, c), answer)
                                       ELSE BagRemove(calls, c)

Consume(c) == calls' = BagRemove(calls, c)

-----------------------------------------------------------------------------
(* Elections. *)

\* becomeFollower
BecomeFollower(i, term) ==
  /\ state' = [state EXCEPT ![i] = Follower]
  /\ currentTerm' = [currentTerm EXCEPT ![i] = term]
  /\ votedFor' = [votedFor EXCEPT ![i] = Nil]
  /\ votesReceived' = [votesReceived EXCEPT ![i] = {}]

\* The election timer fires: electionLoop and startElection.
StartElection(i) ==
  LET term == currentTerm[i] + 1 IN
  /\ state[i] # Leader
  /\ term <= MaxTerm
  /\ state' = [state EXCEPT ![i] = Candidate]
  /\ currentTerm' = [currentTerm EXCEPT ![i] = term]
  /\ votedFor' = [votedFor EXCEPT ![i] = i]
  /\ votesReceived' = [votesReceived EXCEPT ![i] = {i}]
  /\ Start({RequestVoteCall(i, j, term) : j \in Peers(i)})
  /\ UNCHANGED <<logVars, commitIndex, leaderVars, applyVars, clientVars,
                 restarts, elected>>

\* Mutant: a new term does not clear the vote.
VoteOfAnyTerm(c) == votedFor[c.dst]

\* The vote that HandleRequestVote has on record when it decides: becomeFollower
\* has cleared it if the request carries a new term.
VoteOnRecord(c) ==
  IF c.term > currentTerm[c.dst] THEN Nil ELSE votedFor[c.dst]

\* Mutant: the vote on record is not looked at.
GrantsAnyCandidate(c) ==
  /\ c.term >= currentTerm[c.dst]
  /\ UpToDate(c.lastLogTerm, c.lastLogIndex, LastTerm(c.dst), LastIndex(c.dst))

GrantsVote(c) ==
  /\ c.term >= currentTerm[c.dst]
  /\ VoteOnRecord(c) \in {Nil, c.src}
  /\ UpToDate(c.lastLogTerm, c.lastLogIndex, LastTerm(c.dst), LastIndex(c.dst))

HandleRequestVote(c) ==
  LET i == c.dst
      newTerm == c.term > currentTerm[i]
  IN
  /\ c.type = "RequestVote"
  /\ state' = [state EXCEPT ![i] = IF newTerm THEN Follower ELSE @]
  /\ currentTerm' = [currentTerm EXCEPT ![i] = IF newTerm THEN c.term ELSE @]
  /\ votesReceived' = [votesReceived EXCEPT ![i] = IF newTerm THEN {} ELSE @]
  /\ votedFor' = [votedFor EXCEPT ![i] =
                    IF GrantsVote(c) THEN c.src ELSE VoteOnRecord(c)]
  /\ Reply(c, [type |-> "RequestVoteReply", src |-> c.src, dst |-> i,
               term |-> c.term, replyTerm |-> currentTerm'[i],
               voteGranted |-> GrantsVote(c)])
  /\ UNCHANGED <<logVars, commitIndex, leaderVars, applyVars, clientVars,
                 restarts, elected>>

\* The answer to either RPC carries a newer term.
StepDownOnReply(c) ==
  /\ c.type \in Replies
  /\ c.replyTerm > currentTerm[c.src]
  /\ BecomeFollower(c.src, c.replyTerm)
  /\ Consume(c)
  /\ UNCHANGED <<logVars, commitIndex, leaderVars, applyVars, clientVars,
                 restarts, elected>>

\* The caller has left the role or the term it sent the request in, or the vote
\* was refused.
DiscardReply(c) ==
  /\ \/ /\ c.type = "RequestVoteReply"
        /\ state[c.src] = Candidate /\ currentTerm[c.src] = c.term => ~c.voteGranted
     \/ /\ c.type = "AppendEntriesReply"
        /\ state[c.src] # Leader \/ currentTerm[c.src] # c.term
  /\ c.replyTerm <= currentTerm[c.src]
  /\ Consume(c)
  /\ UNCHANGED <<electionVars, logVars, commitIndex, leaderVars, applyVars,
                 clientVars, restarts, elected>>

\* Mutant: the answer may belong to an earlier campaign.
CountsLateVotes(c) ==
  /\ c.type = "RequestVoteReply"
  /\ c.replyTerm <= currentTerm[c.src]
  /\ state[c.src] = Candidate
  /\ c.voteGranted

\* A granted vote is counted only for the Candidate that asked, in its term.
VoteCounts(c) ==
  /\ c.type = "RequestVoteReply"
  /\ c.replyTerm <= currentTerm[c.src]
  /\ state[c.src] = Candidate
  /\ currentTerm[c.src] = c.term
  /\ c.voteGranted

\* Mutant: off by one.
HasHalf(voters) == Cardinality(voters) >= Majority - 1

HasMajority(voters) == Cardinality(voters) >= Majority

CountVote(c) ==
  LET voters == votesReceived[c.src] \union {c.dst} IN
  /\ VoteCounts(c)
  /\ ~HasMajority(voters)
  /\ votesReceived' = [votesReceived EXCEPT ![c.src] = voters]
  /\ Consume(c)
  /\ UNCHANGED <<state, currentTerm, votedFor, logVars, commitIndex, leaderVars,
                 applyVars, clientVars, restarts, elected>>

\* becomeLeader: the new leader appends a no-op entry of its term.  Its counter
\* is read no more once the role is Leader.
BecomeLeader(c) ==
  LET i == c.src
      voters == votesReceived[i] \union {c.dst}
      last == LastIndex(i)
      noop == [term |-> currentTerm[i], index |-> last + 1, cmd |-> Nil]
  IN
  /\ VoteCounts(c)
  /\ HasMajority(voters)
  /\ last < MaxLogIndex
  /\ state' = [state EXCEPT ![i] = Leader]
  /\ votesReceived' = [votesReceived EXCEPT ![i] = {}]
  /\ nextIndex' = [nextIndex EXCEPT ![i] =
                     [j \in Server |-> IF j = i THEN @[j] ELSE last + 1]]
  /\ matchIndex' = [matchIndex EXCEPT ![i] =
                     [j \in Server |-> IF j = i THEN @[j] ELSE 0]]
  /\ log' = [log EXCEPT ![i] = Append(@, noop)]
  /\ elected' = elected \union
                  {[term |-> currentTerm[i], leader |-> i, voters |-> voters]}
  /\ Consume(c)
  /\ UNCHANGED <<currentTerm, votedFor, snapshotIndex, snapshotTerm, commitIndex,
                 applyVars, clientVars, restarts>>

-----------------------------------------------------------------------------
(* Log replication. *)

\* heartbeatLoop, at once and at every tick: broadcastAppendEntries captures
\* the term and the commit index and starts one goroutine per peer.
BroadcastAppendEntries(i) ==
  /\ state[i] = Leader
  /\ Start({SendAppendCall(i, j) : j \in Peers(i)})
  /\ UNCHANGED <<electionVars, logVars, commitIndex, leaderVars, applyVars,
                 clientVars, restarts, elected>>

\* sendAppendEntries builds the request from the state it finds when it runs,
\* under the term and the commit index of the broadcast.  Behind the snapshot,
\* or where the log has no entry, the term before the entries is 0.
PrevLogIndex(i, j) == IF nextIndex[i][j] > 1 THEN nextIndex[i][j] - 1 ELSE 0

PrevLogTerm(i, prev) ==
  IF prev = snapshotIndex[i] THEN snapshotTerm[i]
  ELSE IF HasEntry(i, prev) THEN Entry(i, prev).term
  ELSE 0

EntriesToSend(i, j) ==
  LET next == nextIndex[i][j]
      first == IF next <= snapshotIndex[i] THEN snapshotIndex[i] + 1 ELSE next
  IN  IF next <= LastIndex(i)
      THEN EntriesBetween(log[i], snapshotIndex[i], first, LastIndex(i))
      ELSE << >>

SendAppendEntries(c) ==
  LET i == c.src
      prev == PrevLogIndex(i, c.dst)
  IN
  /\ c.type = "SendAppendEntries"
  /\ calls' = BagAdd(BagRemove(calls, c),
                [type |-> "AppendEntries", src |-> i, dst |-> c.dst,
                 life |-> restarts[i], term |-> c.term,
                 prevLogIndex |-> prev, prevLogTerm |-> PrevLogTerm(i, prev),
                 entries |-> EntriesToSend(i, c.dst),
                 leaderCommit |-> c.leaderCommit])
  /\ UNCHANGED <<electionVars, logVars, commitIndex, leaderVars, applyVars,
                 clientVars, restarts, elected>>

\* What the caller keeps of the request: the index of the last entry it sent.
LastSent(c) == IF c.entries = << >> THEN 0 ELSE c.entries[Len(c.entries)].index

AppendReply(c, replyTerm, success, match) ==
  Reply(c, [type |-> "AppendEntriesReply", src |-> c.src, dst |-> c.dst,
            term |-> c.term, replyTerm |-> replyTerm, success |-> success,
            matchIndex |-> match, lastSent |-> LastSent(c)])

\* HandleAppendEntries, request of an old term.
RejectStaleAppend(c) ==
  /\ c.type = "AppendEntries"
  /\ c.term < currentTerm[c.dst]
  /\ AppendReply(c, currentTerm[c.dst], FALSE, 0)
  /\ UNCHANGED <<electionVars, logVars, commitIndex, leaderVars, applyVars,
                 clientVars, restarts, elected>>

\* Mutant: becomeFollower for every request that is not stale.
StepsDownAlways(c) == TRUE

\* A request that is not stale makes the node a Follower of its term.  Leaving
\* another role clears the vote, in the same term too.
StepsDownFor(c) == c.term > currentTerm[c.dst] \/ state[c.dst] # Follower

FollowLeader(c) ==
  LET i == c.dst IN
  /\ c.type = "AppendEntries"
  /\ c.term >= currentTerm[i]
  /\ IF StepsDownFor(c) THEN BecomeFollower(i, c.term)
                        ELSE UNCHANGED electionVars

\* The consistency check of HandleAppendEntries.  A position the snapshot covers
\* (0 among them) always passes.
PrevBeyondLog(c) ==
  /\ c.prevLogIndex > snapshotIndex[c.dst]
  /\ c.prevLogIndex > LastIndex(c.dst)

\* Mutant: any entry at the position will do.
PrevMissing(c) ==
  /\ c.prevLogIndex > snapshotIndex[c.dst]
  /\ c.prevLogIndex <= LastIndex(c.dst)
  /\ ~HasEntry(c.dst, c.prevLogIndex)

PrevMismatch(c) ==
  /\ c.prevLogIndex > snapshotIndex[c.dst]
  /\ c.prevLogIndex <= LastIndex(c.dst)
  /\ HasEntry(c.dst, c.prevLogIndex) =>
       Entry(c.dst, c.prevLogIndex).term # c.prevLogTerm

RejectShortLog(c) ==
  /\ FollowLeader(c)
  /\ PrevBeyondLog(c)
  /\ AppendReply(c, c.term, FALSE, LastIndex(c.dst))
  /\ UNCHANGED <<logVars, commitIndex, leaderVars, applyVars, clientVars,
                 restarts, elected>>

RejectMismatch(c) ==
  LET i == c.dst IN
  /\ FollowLeader(c)
  /\ PrevMismatch(c)
  /\ log' = [log EXCEPT ![i] =
               IF HasEntry(i, c.prevLogIndex)
               THEN TruncateFrom(@, snapshotIndex[i], c.prevLogIndex) ELSE @]
  /\ AppendReply(c, c.term, FALSE, LastLogIndex(log'[i], snapshotIndex[i]))
  /\ UNCHANGED <<snapshotIndex, snapshotTerm, commitIndex, leaderVars, applyVars,
                 clientVars, restarts, elected>>

\* The commit index of a follower: never beyond the last entry of the request,
\* or of the log if the request has none.
FollowerCommit(i, c, newLog) ==
  LET lastNew == IF c.entries = << >> THEN LastLogIndex(newLog, snapshotIndex[i])
                                      ELSE LastSent(c)
  IN  IF c.leaderCommit <= commitIndex[i] THEN commitIndex[i]
      ELSE IF c.leaderCommit < lastNew THEN c.leaderCommit ELSE lastNew

AcceptEntries(c) ==
  LET i == c.dst IN
  /\ FollowLeader(c)
  /\ ~PrevBeyondLog(c)
  /\ ~PrevMismatch(c)
  /\ log' = [log EXCEPT ![i] = AppendAll(@, snapshotIndex[i], c.entries)]
  /\ commitIndex' = [commitIndex EXCEPT ![i] = FollowerCommit(i, c, log'[i])]
  /\ AppendReply(c, c.term, TRUE, LastLogIndex(log'[i], snapshotIndex[i]))
  /\ UNCHANGED <<snapshotIndex, snapshotTerm, leaderVars, applyVars, clientVars,
                 restarts, elected>>

\* The answer reaches a node that still leads the term of the request.
ReplyCounts(c) ==
  /\ c.type = "AppendEntriesReply"
  /\ c.replyTerm <= currentTerm[c.src]
  /\ state[c.src] = Leader
  /\ currentTerm[c.src] = c.term

\* advanceCommitIndex: the median of the match indexes, the leader's own being
\* the end of its log, if the entry there is of the current term.
AgreedIndex(i, match) ==
  LET at == [j \in Server |-> IF j = i THEN LastIndex(i) ELSE match[j]]
  IN  Max({n \in {at[j] : j \in Server} :
             HasMajority({j \in Server : at[j] >= n})})

LeaderCommit(i, match) ==
  LET agreed == AgreedIndex(i, match) IN
  IF /\ agreed > commitIndex[i]
     /\ HasEntry(i, agreed)
     /\ Entry(i, agreed).term = currentTerm[i]
  THEN agreed ELSE commitIndex[i]

\* Mutant: the end of the log is read when the answer comes.
LastIndexNow(c) == LastIndex(c.src)

\* Mutant: off by one.
AllButTheLast(c) == IF c.lastSent = 0 THEN 0 ELSE c.lastSent - 1

\* What a success proves to be on the peer: the entries up to the last one that
\* this goroutine sent.
ReplicatedUpTo(c) == c.lastSent

AdvanceOnSuccess(c) ==
  LET i == c.src
      j == c.dst
      last == ReplicatedUpTo(c)
      advanced == last > matchIndex[i][j]
  IN
  /\ ReplyCounts(c)
  /\ c.success
  /\ matchIndex' = [matchIndex EXCEPT ![i][j] = IF advanced THEN last ELSE @]
  /\ nextIndex' = [nextIndex EXCEPT ![i][j] = IF advanced THEN last + 1 ELSE @]
  /\ commitIndex' = [commitIndex EXCEPT ![i] = LeaderCommit(i, matchIndex'[i])]
  /\ Consume(c)
  /\ UNCHANGED <<electionVars, logVars, applyVars, clientVars, restarts, elected>>

\* Mutant: an answer without a hint moves nothing.
HintAlone(c) ==
  IF c.matchIndex > 0 THEN c.matchIndex + 1 ELSE nextIndex[c.src][c.dst]

\* A failure moves nextIndex wherever the answer says, forward or back; without a
\* hint one position back.
HintedIndex(c) ==
  LET next == nextIndex[c.src][c.dst] IN
  IF c.matchIndex > 0 THEN c.matchIndex + 1
  ELSE IF next > 1 THEN next - 1
  ELSE next

\* nextIndex does not move into the snapshot.
BackOffOnFailure(c) ==
  LET i == c.src IN
  /\ ReplyCounts(c)
  /\ ~c.success
  /\ nextIndex' = [nextIndex EXCEPT ![i][c.dst] =
                     IF HintedIndex(c) <= snapshotIndex[i] THEN snapshotIndex[i] + 1
                                                          ELSE HintedIndex(c)]
  /\ Consume(c)
  /\ UNCHANGED <<electionVars, logVars, commitIndex, matchIndex, applyVars,
                 clientVars, restarts, elected>>

-----------------------------------------------------------------------------
(* Client proposals. *)

\* Propose up to its select: the entry, the pending proposal under its index,
\* and a broadcast.  A broadcast that finds the role gone starts nothing: then
\* all its calls are lost.
Propose(i, cmd) ==
  LET index == LastIndex(i) + 1
      term == currentTerm[i]
  IN
  /\ state[i] = Leader
  /\ proposal[cmd] = Idle
  /\ index <= MaxLogIndex
  /\ log' = [log EXCEPT ![i] =
               Append(@, [term |-> term, index |-> index, cmd |-> cmd])]
  /\ proposal' = [proposal EXCEPT ![cmd] =
       [status |-> "waiting", node |-> i, index |-> index, term |-> term]]
  /\ pendingProposals' = [pendingProposals EXCEPT ![i] =
       [n \in DOMAIN @ \union {index} |-> IF n = index THEN cmd ELSE @[n]]]
  /\ Start({SendAppendCall(i, j) : j \in Peers(i)})
  /\ UNCHANGED <<electionVars, snapshotIndex, snapshotTerm, commitIndex,
                 leaderVars, applyVars, restarts, elected>>

\* Mutant: the whole map is cleared.
WithoutAnyPending(i, index) == << >>

\* The map of a node's pending proposals without the one under index.
WithoutPending(i, index) ==
  [n \in DOMAIN pendingProposals[i] \ {index} |-> pendingProposals[i][n]]

\* The five seconds are over: Propose deletes what is pending under its index,
\* whoever proposed it.  select may take this branch although a result is there.
ProposeTimeout(cmd) ==
  LET i == proposal[cmd].node IN
  /\ proposal[cmd].status \in {"waiting", "notified"}
  /\ proposal' = [proposal EXCEPT ![cmd].status = "failed"]
  /\ pendingProposals' = [pendingProposals EXCEPT ![i] =
                            WithoutPending(i, proposal[cmd].index)]
  /\ UNCHANGED <<electionVars, logVars, commitIndex, leaderVars, applyVars,
                 calls, restarts, elected>>

\* Propose returns the result to the client.
ProposeReturn(cmd) ==
  /\ proposal[cmd].status = "notified"
  /\ proposal' = [proposal EXCEPT ![cmd].status = "done"]
  /\ UNCHANGED <<electionVars, logVars, commitIndex, leaderVars, applyVars,
                 pendingProposals, calls, restarts, elected>>

-----------------------------------------------------------------------------
(* The apply loop and snapshots: one goroutine per node. *)

\* applyCommitted copies the committed entries it has not applied.
FetchCommitted(i) ==
  LET entries == EntriesBetween(log[i], snapshotIndex[i],
                                lastApplied[i] + 1, commitIndex[i])
  IN
  /\ applyPhase[i] = "idle"
  /\ commitIndex[i] > lastApplied[i]
  /\ entries # << >>
  /\ applying' = [applying EXCEPT ![i] = entries]
  /\ applyPhase' = [applyPhase EXCEPT ![i] = "apply"]
  /\ UNCHANGED <<electionVars, logVars, commitIndex, leaderVars, lastApplied,
                 machine, snapshotFile, clientVars, calls, restarts, elected>>

\* Mutant: whatever is applied at the index answers the proposal.
AnswersAnyTerm(entry, cmd) == TRUE

\* The result goes to the proposal pending under the entry's index if the entry
\* is the one that was proposed.
Answers(entry, cmd) == proposal[cmd].term = entry.term

\* One turn of its loop: the state machine executes the command; then, under the
\* lock, lastApplied moves and the proposal pending under the index is answered
\* if it is of the entry's term, and forgotten in any case.
ApplyEntry(i) ==
  LET entry == Head(applying[i])
      pending == entry.index \in DOMAIN pendingProposals[i]
      cmd == pendingProposals[i][entry.index]
  IN
  /\ applyPhase[i] = "apply"
  /\ machine' = [machine EXCEPT ![i] =
                   IF entry.cmd = Nil THEN @ ELSE Append(@, entry.cmd)]
  /\ lastApplied' = [lastApplied EXCEPT ![i] = entry.index]
  /\ proposal' = IF pending /\ Answers(entry, cmd)
                 THEN [proposal EXCEPT ![cmd].status = "notified"] ELSE proposal
  /\ pendingProposals' = [pendingProposals EXCEPT ![i] =
                            WithoutPending(i, entry.index)]
  /\ applying' = [applying EXCEPT ![i] = Tail(@)]
  /\ applyPhase' = [applyPhase EXCEPT ![i] =
                      IF Len(applying[i]) = 1 THEN "check" ELSE "apply"]
  /\ UNCHANGED <<electionVars, logVars, commitIndex, leaderVars, snapshotFile,
                 calls, restarts, elected>>

Threshold ==
  IF SnapshotThreshold = 0 THEN DefaultSnapshotThreshold ELSE SnapshotThreshold

\* maybeSnapshot decides under the read lock.
MaybeSnapshot(i) ==
  /\ applyPhase[i] = "check"
  /\ applyPhase' = [applyPhase EXCEPT ![i] =
       IF Len(log[i]) >= Threshold /\ lastApplied[i] > snapshotIndex[i]
       THEN "snapshot" ELSE "idle"]
  /\ UNCHANGED <<electionVars, logVars, commitIndex, leaderVars, lastApplied,
                 applying, machine, snapshotFile, clientVars, calls, restarts,
                 elected>>

\* Under the lock it looks for the last applied entry; without it there is no
\* snapshot.
CanCompact(i) == HasEntry(i, lastApplied[i])

\* Mutant: the data of the last snapshot is written again.
OldSnapshot(i) == [index |-> lastApplied[i], data |-> snapshotFile[i].data]

NewSnapshot(i) == [index |-> lastApplied[i], data |-> machine[i]]

TakeSnapshot(i) ==
  /\ applyPhase[i] = "snapshot"
  /\ applyPhase' = [applyPhase EXCEPT ![i] = "idle"]
  /\ IF CanCompact(i)
     THEN /\ snapshotFile' = [snapshotFile EXCEPT ![i] = NewSnapshot(i)]
          /\ snapshotIndex' = [snapshotIndex EXCEPT ![i] = lastApplied[i]]
          /\ snapshotTerm' = [snapshotTerm EXCEPT ![i] =
                                Entry(i, lastApplied[i]).term]
          /\ log' = [log EXCEPT ![i] =
                       CompactTo(@, snapshotIndex[i], lastApplied[i])]
     ELSE UNCHANGED <<snapshotFile, logVars>>
  /\ UNCHANGED <<electionVars, commitIndex, leaderVars, lastApplied, applying,
                 machine, clientVars, calls, restarts, elected>>

-----------------------------------------------------------------------------
(* Crashes.  A node that stops is started again at once: until then it only  *)
(* loses the calls it is sent, which Lose does.                              *)

TotalRestarts == MapThenSumSet(LAMBDA i : restarts[i], Server)

\* NewRaftNode: the state machine comes from the snapshot file, the rest from
\* the state file.  The goroutines of the node are gone; a request they sent
\* may still arrive.  callsLeft are the calls that the crash itself has not cut.
Reboot(i, callsLeft) ==
  /\ TotalRestarts < MaxRestarts
  /\ restarts' = [restarts EXCEPT ![i] = @ + 1]
  /\ state' = [state EXCEPT ![i] = Follower]
  /\ votesReceived' = [votesReceived EXCEPT ![i] = {}]
  /\ commitIndex' = [commitIndex EXCEPT ![i] = snapshotIndex[i]]
  /\ lastApplied' = [lastApplied EXCEPT ![i] = snapshotIndex[i]]
  /\ machine' = [machine EXCEPT ![i] = snapshotFile'[i].data]
  /\ applying' = [applying EXCEPT ![i] = << >>]
  /\ applyPhase' = [applyPhase EXCEPT ![i] = "idle"]
  /\ nextIndex' = [nextIndex EXCEPT ![i] = [j \in Server |-> 0]]
  /\ matchIndex' = [matchIndex EXCEPT ![i] = [j \in Server |-> 0]]
  /\ pendingProposals' = [pendingProposals EXCEPT ![i] = << >>]
  /\ proposal' = [cmd \in Command |->
       IF proposal[cmd].node = i /\ proposal[cmd].status \in {"waiting", "notified"}
       THEN [proposal[cmd] EXCEPT !.status = "failed"] ELSE proposal[cmd]]
  /\ calls' = LET onTheWay == {"RequestVote", "AppendEntries"}
                  left == {c \in DOMAIN callsLeft : c.src = i => c.type \in onTheWay}
              IN  [c \in left |-> callsLeft[c]]
  /\ UNCHANGED <<logVars, elected>>

Crash(i) ==
  /\ UNCHANGED <<currentTerm, votedFor, snapshotFile>>
  /\ Reboot(i, calls)

\* The node stops inside a handler, after becomeFollower has saved the new term
\* and before the handler saves anything else.
CrashInHandler(c) ==
  LET i == c.dst IN
  /\ \/ c.type = "RequestVote" /\ c.term > currentTerm[i]
     \/ c.type = "AppendEntries" /\ c.term >= currentTerm[i] /\ StepsDownFor(c)
  /\ currentTerm' = [currentTerm EXCEPT ![i] = c.term]
  /\ votedFor' = [votedFor EXCEPT ![i] = Nil]
  /\ UNCHANGED snapshotFile
  /\ Reboot(i, BagRemove(calls, c))

\* The node stops in maybeSnapshot: the snapshot file is the new one, the state
\* file the old one.
CrashInSnapshot(i) ==
  /\ applyPhase[i] = "snapshot"
  /\ CanCompact(i)
  /\ snapshotFile' = [snapshotFile EXCEPT ![i] = NewSnapshot(i)]
  /\ Reboot(i, calls)
  /\ UNCHANGED <<currentTerm, votedFor>>

\* A request or an answer is lost, or the call times out.
Lose(c) ==
  /\ Consume(c)
  /\ UNCHANGED <<electionVars, logVars, commitIndex, leaderVars, applyVars,
                 clientVars, restarts, elected>>

-----------------------------------------------------------------------------

Init ==
  /\ state = [i \in Server |-> Follower]
  /\ currentTerm = [i \in Server |-> 0]
  /\ votedFor = [i \in Server |-> Nil]
  /\ votesReceived = [i \in Server |-> {}]
  /\ log = [i \in Server |-> << >>]
  /\ snapshotIndex = [i \in Server |-> 0]
  /\ snapshotTerm = [i \in Server |-> 0]
  /\ commitIndex = [i \in Server |-> 0]
  /\ lastApplied = [i \in Server |-> 0]
  /\ nextIndex = [i \in Server |-> [j \in Server |-> 0]]
  /\ matchIndex = [i \in Server |-> [j \in Server |-> 0]]
  /\ applyPhase = [i \in Server |-> "idle"]
  /\ applying = [i \in Server |-> << >>]
  /\ machine = [i \in Server |-> << >>]
  /\ snapshotFile = [i \in Server |-> [index |-> 0, data |-> << >>]]
  /\ pendingProposals = [i \in Server |-> << >>]
  /\ proposal = [cmd \in Command |-> Idle]
  /\ calls = EmptyBag
  /\ restarts = [i \in Server |-> 0]
  /\ elected = {}

\* The goroutines and handlers that elect a leader and replicate its log.
CallStep ==
  \E c \in DOMAIN calls :
    \/ HandleRequestVote(c)
    \/ StepDownOnReply(c)
    \/ DiscardReply(c)
    \/ CountVote(c)
    \/ BecomeLeader(c)
    \/ SendAppendEntries(c)
    \/ RejectStaleAppend(c)
    \/ RejectShortLog(c)
    \/ RejectMismatch(c)
    \/ AcceptEntries(c)
    \/ AdvanceOnSuccess(c)
    \/ BackOffOnFailure(c)
    \/ CrashInHandler(c)
    \/ Lose(c)

NodeStep ==
  \E i \in Server :
    \/ StartElection(i)
    \/ BroadcastAppendEntries(i)
    \/ FetchCommitted(i)
    \/ ApplyEntry(i)
    \/ MaybeSnapshot(i)
    \/ TakeSnapshot(i)
    \/ Crash(i)
    \/ CrashInSnapshot(i)

ClientStep ==
  \E cmd \in Command :
    \/ \E i \in Server : Propose(i, cmd)
    \/ ProposeReturn(cmd)
    \/ ProposeTimeout(cmd)

Next == CallStep \/ NodeStep \/ ClientStep

Spec == Init /\ [][Next]_vars
=============================================================================
