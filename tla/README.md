# A TLA+ model of distributeStateMachine

The repository is a replicated task and key-value service in Go: three or more
nodes agree on a log by Raft, every node executes the log on an in-memory
`KVStore`, and an HTTP service in front turns client requests into log entries.
This directory holds TLA+ modules for the protocol and the service, the
configurations that check them with TLC, and machine-checked proofs (TLAPS): of
the safety of elections, of the replicated log, of what state machines and
clients get from it, of snapshots, of the task service on top, of the node's files
and of its timers.

Paths below are relative to the repository's root; `raft.go:217` is
`src/raft/raft.go`, line 217.

## Running it

    tlc -workers 2 -config MCRaft_elections.cfg MCRaft      # any run of the table below
    tlapm --threads 4 RaftProofs.tla       # the proofs of any module that holds theorems

## Inventory

| Component | State | Operations | Hard part | Correct if |
|---|---|---|---|---|
| Elections (`raft.go:110-298`) | role, `CurrentTerm`, `VotedFor`, the vote counter of each campaign | timer, `startElection` and its goroutines, `HandleRequestVote`, `becomeFollower`, `becomeLeader` | late votes, votes across crashes, `becomeFollower` clears the vote within a term | one leader per term, a vote granted is kept |
| Replication (`raft.go:305-575`) | `Log`, `CommitIndex`, `NextIndex`, `MatchIndex` | heartbeat and broadcast, `sendAppendEntries`, `HandleAppendEntries`, `advanceCommitIndex` | goroutines that read the log after the broadcast, reordered requests, conflicting logs | logs match, committed entries stay, leaders are complete |
| Proposals and apply loop (`raft.go:582-704`) | `pendingProposals`, `LastApplied`, the copied entries | `Propose`, its timeout, `applyCommitted` | proposals matched by index, an entry replaced at its index, timeouts | same commands in the same order, an answer means it is committed |
| Snapshots and recovery (`raft.go:18-81, 774-852`, `file_storage.go`) | `SnapshotIndex`, `SnapshotTerm`, two files | `maybeSnapshot`, `NewRaftNode` | two files written one after the other, logs that start behind a snapshot | nothing executed is lost, nothing is executed twice |
| State machine (`kvstore.go`) | KV data, tasks | `Apply`, `Snapshot`, `Restore` | transitions decided by log order, determinism | the state is a function of the executed log |
| Task service and KV handlers (`task_service.go`, `server.go`) | one goroutine per request | `SetTaskStatus`, `handleSet`, `handleDelete` | reads the store after the proposal has returned | the answer tells what happened |
| File storage (`file_storage.go`) | state file, snapshot file, a temporary file for each | save, load | crash between two saves or within one, writes that fail | each file is old or new, never torn; what was answered is on disk |
| Timers (`raft.go:110-146, 400-427, 753-759`) | election timer, reset channel, tickers | fire, reset, tick | a reset against a timer that has just fired, loops of earlier terms | a node campaigns in time and not before |
| HTTP transport | calls in progress | send, handle | loss, delay, reordering, timeouts | (assumed to be a network of that kind) |
| `cmd/node`, `cmd/client`, `scripts` | none of their own | flags, one request per command | none | not modelled |

A node's goroutines (election timer, heartbeat, one per RPC and per client
request, the apply loop) share its state under `RaftNode.mu`.  Nodes call each
other through the transport and call back into the same handlers.  The service
calls `Propose` and reads the store, which only the apply loop writes.

## Modules

| Module | What it models |
|---|---|
| `RaftLog` | operators on a log behind a snapshot: index arithmetic, cut, append loop, compaction, the up-to-date comparison |
| `Raft` | the Raft node: one action per critical section of `RaftNode.mu` |
| `RaftSafety` | types, safety properties and the inductive invariant of elections |
| `ReplicatedLog` | abstract: what consensus promises to a service |
| `RaftRefinement` | the mapping from `Raft` to `ReplicatedLog` |
| `RaftLiveness` | `Raft` under fairness in a cluster that becomes quiet |
| `KVStore` | the state machine as pure operators: `Apply`, `Snapshot`, `Restore` |
| `TaskService` | client requests, the committed log, and the nodes that execute it on `KVStore`s, with snapshots and restarts; its log refines `ReplicatedLog` |
| `Storage` | the two files of a node, saved in steps that may fail, and what a restart makes of them |
| `Timers` | the election timer, its reset channel and the heartbeat loops of one node in discrete time |
| `Slots` | the commands in a sequence of slots, for `ReplicatedLog` and `TaskService` |
| `NatInduction` | induction on the natural numbers over a set, and lemmas about `Slots` |
| `RaftProofs` | theorems and proofs: elections and types of `Raft` |
| `RaftLogSafety` | the inductive invariant of the replicated log, and theorems about the log |
| `RaftApplyProofs` | theorems about state machines, answers and pending proposals; `Raft` implements `ReplicatedLog` |
| `RaftSnapshotProofs` | theorems about what snapshots and crashes keep |
| `TaskServiceProofs`, `StorageProofs`, `TimersProofs` | theorems and proofs for those modules |
| `MCRaft`, `MCRefinement`, `MCLiveness`, `MCTaskService` | start states and specifications for TLC |

`Raft` is the centre.  It takes three things for granted that a module beside it
says more about: that a save is one step which does not fail (`Storage`), that a
timer may fire at any time (`Timers`), and that a command is an opaque value
(`KVStore`, `TaskService`).  `ReplicatedLog` is where `Raft` and `TaskService`
meet: the one implements it, the other uses no more of its log than it allows.

### Raft and the code

The variables `currentTerm`, `votedFor`, `log`, `snapshotIndex` and
`snapshotTerm` are `PersistentState`.  Every critical section that changes them
saves them before it releases the lock, so one variable stands for memory and
file; the sections that save more than once have an extra action for the crash
in between (`CrashInHandler`, `CrashInSnapshot`).

The network is `calls`, a bag of records, one for each RPC goroutine.  A
`RequestVote` or `AppendEntries` record is a request under way; the handler
replaces it by its reply record, in any order of arrival, and the caller's
goroutine consumes that.  `SendAppendEntries` is a goroutine that
`broadcastAppendEntries` has started with the term and the commit index it saw
and that has yet to read the log: between the two the node may have stepped down,
as it may in the code between lines 438 and 450.  `Lose` is a failed or timed-out
call.  Requests are not duplicated: the Go client does not repeat a POST whose
body it cannot rewind.  A call whose caller has crashed may still be handled;
its answer reaches nobody (`life`).

`votesReceived` is a set instead of a counter: a campaign sends one request to
each peer, so no voter is counted twice.  `elected` is a history variable.

`HandleAppendEntries` is split by outcome into `RejectStaleAppend`,
`RejectShortLog`, `RejectMismatch` and `AcceptEntries`; the three last ones share
`FollowLeader`, its first part.  The reply goroutines are split into
`StepDownOnReply` (both RPCs), `DiscardReply`, `CountVote`, `BecomeLeader`,
`AdvanceOnSuccess` and `BackOffOnFailure`.  The apply loop is `FetchCommitted`
(under the lock), `ApplyEntry` (one entry), `MaybeSnapshot` (the decision under
the read lock) and `TakeSnapshot` (under the lock again).  The state machine is a
sequence of commands here; `KVStore` says what they do.

Positions and indices are kept apart as in the code: an entry has an `index`
field, and the position a logical index has in the slice is `index -
snapshotIndex`.  Nothing forces the two to agree, and with snapshots they do not.

### TaskService and the code

`ledger` is the sequence of committed commands.  `Submit`, `Commit` and `Timeout`
are `Propose` as the service sees it (`Raft` implements `ReplicatedLog`, and
`UsesReplicatedLog` shows that `ledger` takes the steps of that log, as long as
the findings below do not strike).
`ApplyNext` executes the next command on a node; `Finish` is the part of
`SetTaskStatus` after `Propose`, which reads the store.  The result of `Apply` is
kept in `request[r].result` for the properties only: the code throws it away.

A task's message is left out, KV commands of the old format occur at the head of
the ledger (`OldLogs`), and the wall clock (`clock`) is one for all nodes and
moves between any two steps.

### ReplicatedLog and Raft

`ReplicatedLog` has a `ledger` of decided slots that only grows, a `position` of
every node on it, the commands the node has `executed`, and what each proposer
was told.  A command is decided at most once and only if it was proposed; a node
executes slot after slot; success is told only when the proposer's node has
executed the command; a restart falls back to an earlier slot and fails the
proposals that waited there.

The mapping takes the longest log prefix that any node ever knew to be committed
for the ledger.  After a crash no node may know it any more, so `RaftRefinement`
adds a history variable, `decided`, which records it.  A result that waits in the
channel of `Propose` (`notified`) may still lose against the timeout
(`raft.go:605-609`) and is mapped to `waiting`.  Snapshots are left out: with them
the refinement is false (`behind_snapshot`).

### Storage and the code

A save is `Open` (`os.WriteFile` truncates the temporary file), `Fill` and
`Rename`, each of which may be the last thing before a `Crash` or may fail
(`SaveFails`).  What the state holds is abstracted to a version that grows with
every change, and to how far the log is compacted; `machine` counts the executed
entries.  `saveState` only logs a failure (`raft.go:763`), so the handler goes on
and answers; `maybeSnapshot` gives up when the snapshot cannot be written
(`raft.go:829`), and does not when the state cannot.  `unsaved` remembers that a
save of the state has failed: from there on nothing is promised of answers.

### Timers and the code

Time passes only when no goroutine can go on, and then by one tick.  `timer` is
`timer.C` with its value in it (0), received (`Off`) or still to come; the
election loop may be waiting for `rn.mu` (`"campaign"`) while handlers go on, and
`resetTimerCh` has one place.  When a reset and a fired timer are both there,
`select` may take either.  `loops` are the tickers of `heartbeatLoop`: one of an
earlier term that has not had its next tick when the node is elected again goes on
(`raft.go:244`, 420-425).

## Runs

| Run | Bounds | Shows |
|---|---|---|
| `elections` | 3 nodes, 2 terms, 2 calls at a time, 1 crash | `ElectionSafety`, the inductive invariant `ElectionInv`, `VoteIsKept` |
| `replication` | 3 nodes, 3 terms, 3 entries, 2 calls; starts from the leader of term 2 and the leader of term 1, which conflict | `LogMatching`, `LeaderCompleteness`, `MatchIndexIsTrue`, `CommittedIsKept` |
| `clients` | 3 nodes, 2 terms, 3 entries, 1 call, 2 commands, 1 crash; starts from a leader whose no-op is committed | `StateMachineSafety`, `AckedSurvives`, `WaitingIsPending`, `ImplementsReplicatedLog` |
| `liveness` | 3 nodes, 4 terms, 3 entries, 3 calls, 2 of them to one peer, 1 lost call in the last term; starts from a split vote and from two leaders with conflicting logs | `LeaderIsEstablished`, `EntriesSpread`, `ClientsAreAnswered` |
| `files` | 4 changes, 3 entries, 2 failures, 2 crashes | `FilesAreWhole`, `NothingIsLost`, `AnswersAreOnDisk`, the inductive invariant `StorageInv` |
| `timers` | timeout of 4 ticks, heartbeat of 2, 3 loops | `SilenceEnds`, `LeaderIsHeard`, `CampaignsOnlyWhenLate`, the inductive invariant `TimerInv` |
| `snapshots` | 3 nodes, 1 term, 2 entries, 1 call, threshold 1, 1 crash; starts from a leader | `TypeOK`, `FilesCoverTheMachine` |
| `tasks` | 2 nodes, 3 requests on one task, 1 restart | `OneOutcome`, `SuccessWasTrue` |
| `recovery` | 2 nodes, 2 requests, KV and task commands, 1 restart, which may cut a snapshot, 1 tick of the clock with at most 1 request | `TypeOK`, `WorldIsReplayed`, `DataIsReplayed`, `UsesReplicatedLog` |
| `behind_snapshot`, `answers`, `cut_snapshot` | as in their configurations | violations, see Findings |

Why these bounds. Two terms are the fewest in which a vote or an answer can be
late, two calls the fewest in which one can overtake another (two of a leader to
one peer, for `EntriesSpread`); three nodes have majorities that overlap in one
node. A third term is needed for an entry of the first term to be committed, or
not, by a leader of the third; reaching it from the initial state is costly, so
`replication` starts from a state that two elections with lost calls lead to: a
no-op of each leader at index 1, a proposal of the second behind its own, and one
request of it under way. The start states of `MCRaft`,
`MCRefinement` and `MCLiveness` are reachable from `Init`, as their comments say,
but for the voters that `SettledInit` has in the history of elections, which its run
does not read.
`MaxCalls` bounds the goroutines at one time, not their number.  Every bound is a
constant of the module, in a guard, and the proofs do not depend on its value.

The runs split the next-state relation where its parts do not influence what is
checked: `ProtocolNext` leaves out the apply loop, which writes nothing that the
protocol reads while no snapshot is taken, and proposals, of which these runs have
none or one made before the start; `CrashingNext` has the apply loop, the
clients, their timeouts and crashes, but no snapshots; `LedNext` has snapshots and
the crashes that cut handlers and snapshots, and no elections, no crashes of idle
nodes and no timeouts of proposals.  In `CrashingNext` the steps that follow
something already begun go first (an entry that a node has copied, or has no waiting
proposal for, is executed, a result returns, a call reads its log): what their
delay does is the matter of `replication` and `snapshots`, where nothing goes first
but the return of a proposal.

The properties of the log (`LogMatching` to `CommittedIsKept`) are about nodes
without snapshots: the runs set the threshold above the longest log.  With
snapshots several of them are false, which is what `behind_snapshot` shows.  For the same reason `FilesCoverTheMachine` leaves out a
node that has lost an executed entry from its log (the proof shows when none has), and `WorldIsReplayed` says
nothing after a snapshot was cut in two (`cut_snapshot` shows why), while
`DataIsReplayed` does.  `WaitingIsPending` leaves out two proposals of one node
under the same index: then the timeout of one forgets the other
(`raft.go:599, 611`), which takes a third term and a re-elected leader to happen.

`replication` has no crash: the log, the term and the vote are on disk at every
step, and `clients` has crashes of any node at any of its steps.

Deadlock is checked for `timers` and not for the others, whose behaviours end when
the bounds are used up.

Each property of a passing run is tried against a mutant: a definition marked
`Mutant:` in the modules takes the place of the one behind it, and the run must
find the property violated.

### Fairness

Only `liveness` assumes fairness, in `RaftLiveness`: weak fairness of each node's
election timer, heartbeat and apply loop, of the goroutine and handler of each
pair of nodes, and of the return of a result.  These are goroutines that the Go
scheduler runs, tickers that fire, and calls that end by a timeout of 500 ms
(`raft.go:181, 499`).  Clients, the timeout of a proposal and lost calls get none.

Fairness alone elects nobody: all timers may fire together for ever.  What stands
against it is that timeouts are random (`raft.go:139-146`) and longer than a
heartbeat, and the model says so for one term, the last: in it (`Quiet`) the first
timer to fire is that of a node whose log nobody refuses, its heartbeats keep the
other timers quiet (the part that `Timers` is about), a vote of an earlier campaign
that would still make a leader is lost, and the network loses at most `MaxLost`
calls.  Before the last term campaigns split and lose their calls as they like.
So the properties read: once there is a term in which the timeouts and the network
behave, there is a leader, what it has spreads, and its clients are answered.

A heartbeat must call every peer to which no call is under way, and may start a second
call to the others: the ticker does not wait for answers (`raft.go:440-445`).  Then an
answer may arrive after that of a later call.  Where no client comes one call per peer is
enough.

Three starts are joined in the run.

- A split vote of the term before the last, all logs empty, two nodes waiting for the vote
  of the third.  No call of the last term is lost, and votes of the term before may be
  late in it.  No client comes, so that this start is for `LeaderIsEstablished` alone.
- Two leaders, one of term 1 that has not noticed and one of term 4 with another no-op, a
  pending proposal and a `nextIndex` that is wrong for both peers.  One call of the last
  term is lost.
- The same two leaders with the proposal still to come, so that the log grows while calls
  are under way.  None of them is lost but by failing at once.

From the last two TLC reaches states in which a failure comes after a success has moved
`matchIndex`, a success comes after that of a longer request, and a success comes when the
log has grown.  They do not keep the entries from spreading.  A late failure does leave
`nextIndex` behind `matchIndex + 1` for good: the success that follows confirms nothing
new (`raft.go:525`), and the peer is sent entries again that it has, until the log grows.

The request of a call is built at once, a result returns at once, and entries are executed
as soon as they are committed: a committed entry stays where it is, so that the logs do
not depend on when it is executed.  The timeout of a proposal, which would end the wait of
a client and touches no log, is left out.  There is no symmetry in the run, which would be
unsound for liveness.

## Findings

1. **Entries behind the snapshot** (`behind_snapshot`).  There is no
   InstallSnapshot.  A follower behind the leader's snapshot is sent the entries
   after it with its own `prevLogIndex`, appends them at wrong positions and
   executes a different sequence (`raft.go:478-480`, 371-373; against
   `kvstore.go:51`, `README.md:455`).
2. **The answer is not the result** (`answers`).  `SetTaskStatus` compares the
   status in the store: a reverted transaction may be answered with success and
   one that was carried out with failure (`task_service.go:150-165`, against line
   91).
3. **A snapshot cut in two** (`cut_snapshot`).  After a crash between the
   snapshot file and the state file, entries of the snapshot are executed again
   and a transition reverted the first time may be carried out (`raft.go:828`,
   848, 65-66; against line 64 and `README.md:46`).

Seen on the way, and not the matter of a run:

- A candidate that receives AppendEntries in its own term clears its vote
  (`raft.go:323`, 221) and may grant another one in the same term, which
  `raft_test.go:296` excludes.  `ElectionSafety` holds all the same, and is
  proved: the second vote can only come after somebody has won that term.
- A `nextIndex` inside the leader's own snapshot yields `prevLogTerm` 0, and a
  follower that has the entry cuts it off though it is committed
  (`raft.go:458-463`, 339-344; against `README.md:289`).
- The timeout of a proposal deletes what is pending under its index
  (`raft.go:611`).  If the log was cut and the node leads again within the five
  seconds, that is another client's proposal, which is executed and times out.
- After a save of the state that failed, a crash takes back votes and entries that
  were answered (`raft.go:763`); a state file or a snapshot file that cannot be
  read is ignored, and with the snapshot ignored the node skips what it held
  (`raft.go:46-47, 58, 65`).  Nothing is flushed before the rename
  (`file_storage.go:52-55`), so a loss of power may leave such a file.
- A node elected again before the next tick of its old `heartbeatLoop` has two
  loops from then on (`raft.go:244`), and sends twice the heartbeats.
- `Apply` stores `time.Now()` of the node that executes it (`kvstore.go:124`,
  against `README.md:82`); `WorldIsReplayed` compares worlds without their times.
- The branch for the old command format is never taken, since such a command
  decodes as a transaction without a type (`kvstore.go:56`); a node that does not
  lead answers with an empty leader hint (`raft.go:96-103`); a threshold of 0 means
  100 and not "no snapshots" (`state.go:39`, `raft.go:776-778`).

## Proofs

### Elections

`RaftProofs` proves, for every finite non-empty set of servers, every set of
commands and every value of the bounds (`NilAssumption`, `ServerAssumption`,
`BoundAssumption`):

| Theorem | Statement |
|---|---|
| `ElectionInvariant` | `Spec => []ElectionInv` |
| `ElectionIsSafe` | `Spec => []ElectionSafety` |
| `ElectionIsTyped` | `Spec => []ElectionTypeOK` |
| `VotesAreKept` | `Spec => VoteIsKept` |
| `TypesAreKept` | `Spec => []TypeInv` |
| `RaftIsTyped` | `Spec => []TypeOK` |

`Spec` is the whole of module `Raft`, with snapshots and crashes.

`ElectionSafety` is not inductive, and the textbook strengthening ("a node votes
for one candidate in a term") is false here: a candidate may forget its vote.  What is true is about
votes for *others*.  `Granted(q, c, t)` says that somebody can still tell that
`q` gave its vote to another node `c` in term `t`: the answer is under way, or
counted, or was part of a majority.  The invariant says that such a vote binds
the voter: in its current term it is a follower with that vote on record
(`GrantsBind`), so it is granted once (`GrantsAreUnique`); that an elected node
has a majority of such votes and its own, and has granted nothing to others in
that term (`ElectedAreBacked`); that only elected nodes lead or send
AppendEntries (`LeadersWereElected`).  The last two carry the argument past the
forgotten vote: whoever forgets it has heard from an elected node of its term, so
two majorities already share a voter that is bound or is one of the two leaders.

The proof has a lemma for each kind of step (`QuietStep` for those that touch no
vote, `FollowerStep`, `StartElectionStep`, `GrantStep`, `RefuseStep`,
`CountVoteStep`, `BecomeLeaderStep`, `FollowLeaderStep`, `RebootStep`,
`CrashStep`), and `CallStepKeeps`, `NodeStepKeeps` and `ClientStepKeeps` go
through the actions of `Next`.  `QuorumsIntersect` is the counting lemma.
`VoteIsKept` follows from the same invariant, because a node that leaves another
role than Follower has voted for itself.

The type invariant rests on lemmas about the operators of `RaftLog`: what
`AppendAll`, `CompactTo`, `TruncateFrom` and `EntriesBetween` return are logs, and
the median of `advanceCommitIndex` exists.  It is inductive with one addition, that a pending index names a proposal
that has been made (`PendingIsTyped`).  That terms are natural numbers and that no
node calls itself comes from `ElectionInv`.

### The replicated log

| Theorem (`RaftLogSafety`) | Statement |
|---|---|
| `RestIsKept` | `Spec => []RestInv` |
| `HistoryExplainsLogs` | `Spec => []LogHasHistory`, the inductive invariant |
| `LogsMatch` | `Spec => [](NoSnapshots => LogMatching)` |
| `LeadersAreComplete` | `Spec => [](NoSnapshots => LeaderCompleteness)` |
| `MatchIndexesAreTrue` | `Spec => [](NoSnapshots => MatchIndexIsTrue)` |
| `CommittedStays` | `Spec /\ []NoSnapshots => CommittedIsKept` |

`NoSnapshots` says that no snapshot file has been written yet.  It is a condition
on the behaviour and not on the constants: every behaviour satisfies it until the
first `TakeSnapshot`, and all of them do as long as logs stay below the threshold.
It cannot be dropped, because these properties are false behind a snapshot
(finding 1 and the `nextIndex` inside a snapshot, below it).  Crashes, also inside
handlers, and lost, late and reordered calls are in.

The state of a cluster does not say which entries may still be committed: the
votes and answers that decide it are in messages long gone, and a goroutine of an
old leader may still read a log that has since been cut.  The invariant therefore
speaks of two histories, which the theorem quantifies (`\E H, A : LogInv(H, A)`)
instead of adding variables to `Raft`.  `H[t]` is the log of the leader of term `t`
when it last led, `A[t][q]` how much of it `q` has acknowledged.  Every action
extends them by at most one leader (`BecomeLeader`), one entry (`Propose`, or the
no-op) or one acknowledgement (`AcceptEntries`).  The conjuncts, in the order of
the argument:

- `LogsAreGood`, `LeaderLogs`: a log agrees, up to any of its entries, with the
  log of the leader that created the entry; hence `LogMatching`.
- `AckedIsKept`: a node keeps an entry that it has acknowledged, and votes for
  nobody who lacks it, until a later leader is elected by voters who all lack it
  (`Overruled`), after which the entry can never be committed.
- `ElectedHold`: every leader elected later has an entry that is not overruled.  An
  entry on a majority (`Chosen`) never is, since two majorities meet.
- `CallsOK`: a request under way drops nothing that may be committed
  (`RequestOK`); an answer claims no more than was acknowledged (`ReplyOK`).  A
  goroutine that reads the log after its node has stepped down may find
  `nextIndex` behind the end of a log that was cut: it then sends `prevLogTerm` 0
  (`Dangling`), which is harmless because it carries no entries.
- `FutureIsLost`: the same late goroutine may send entries of terms after its own,
  so that a follower holds an entry of a term it has not reached.  Whoever elected
  that term's leader does not vote for it.
- `TablesOK`, `AckedByTerm`, `CommitsOK`: `matchIndex` is at most what was
  acknowledged in the leader's term, and a commit index lies before a chosen entry;
  the rule that only an entry of the current term is counted (`raft.go:570`) is
  what makes the entry chosen.

The first part of the module shows, for each conjunct, that any step which follows
the discipline keeps it (roles, logs, histories and new calls change only as stated);
the second part shows that each action of `Raft` follows it, and derives the four
properties.  `MatchIndexIsTrue` and `LeaderCompleteness` are not inductive, and
neither is `CommittedIsKept`, which compares two states with the same histories.

### State machines and clients

| Theorem (`RaftApplyProofs`) | Statement |
|---|---|
| `HistoryExplainsService` | `Spec => []ServiceHasHistory`, the inductive invariant |
| `MachinesAgree` | `Spec => [](NoSnapshots => StateMachineSafety)` |
| `AcknowledgedIsKept` | `Spec => [](NoSnapshots => AckedSurvives)` |
| `WaitersAreFound` | `Spec => [](NoSnapshots => WaitingIsPending)` |
| `EntriesAreProposed` | `Spec => []EntriesWereProposed` |
| `RaftImplementsLog` | `DecidedSpec /\ []NoSnapshots => ImplementsReplicatedLog` |

`ServiceInv` adds to `LogInv` that what a node has executed, and the entries its
apply loop has copied, come from the log of a leader before a chosen entry
(`ChosenIsApplied`); that a proposal is in the log of the leader that made it, at
its index, and chosen once its proposer has a result (`ProposalsOK`); and that a
pending index is the index of its proposal (`PendingIsInPlace`).  The case that
needs most is `ApplyEntry`: it finds the proposer by the index of
the entry and compares only the terms (`raft.go:691-692`).  That is enough because
entries of one term come from one leader, whose log `H[t]` has one entry at each
index.

`RaftImplementsLog` is the refinement of `ReplicatedLog`, step by step.
`DecidedSpec` is `Spec` with the history variable `decided`; the condition
`[]NoSnapshots` is met by all behaviours whose logs stay below the threshold, and
without it the refinement is false (finding 1).  The invariant of the proof is
`DecidedInv`: with the histories of `ServiceInv`, what is decided is a prefix of a
leader's log before a chosen entry, and no commit index or apply loop is ahead of
it.  Such prefixes continue each other, because later leaders have every chosen
entry; so `Longest` only adds slots to the ledger and no step rewrites one.  Three
invariants stand beside it:

- `EntriesWereProposed`: an entry with a command is exactly the one of the command's
  proposal, in every log and request, so a command is decided in one slot only.  It
  needs no condition on snapshots.
- `NotifiedIsExecuted`: a result that waits in the channel of `Propose` is that of a
  command in its node's machine.
- `PendingIsWaiting`: what is pending still waits, so that nobody is answered twice.

`StepOfLog` has one lemma for each kind of step: `ProposeIsPropose`,
`ApplyIsExecute`, `ReturnIsSucceed`, `TimeoutIsFail`, `RebootIsRestart`, and
`DecideOrStutter` for the rest, where the ledger may grow.

### Snapshots

| Theorem (`RaftSnapshotProofs`) | Statement |
|---|---|
| `SnapshotFileIsNewer` | `Spec => []FileIsNewer` |
| `SnapshotsLoseNothing` | `Spec /\ []RequestsFit => []FilesCoverTheMachine /\ [](\A i \in Server : HoldsExecuted(i))` |
| `ExecutedEntriesStay` | `Spec /\ []RequestsFit => [][KeepsExecuted]_vars` |
| `RequestsFitAtFirst` | `Spec => [](NoSnapshots => RequestsFit)` |
| `AppliesWhatIsCommitted` | `Spec => []AppliedIsCommitted` |

The first part of `FilesCoverTheMachine`, that the snapshot file is never older than
the state file, holds whatever happens.  The rest has a condition.  A node that loses
an executed entry from its log before a snapshot covers it has it in no file any more,
and the code does take such entries away: that is why the property leaves such nodes
out.  `RequestsFit` says what requests must be for no node to be left out: a request
that is not stale carries the entries after its `prevLogIndex`, in order, and where
it names an index that its receiver has executed, it names the entry executed.  It
says nothing of snapshots, files or crashes.

Until the first snapshot this is no condition but a theorem (`RequestsFitAtFirst`).
Its proof brings the two halves of the invariant together: what a node has executed
is before its commit index (`AppliesWhatIsCommitted`), so it is chosen, and a request
drops nothing that is chosen (`RequestOK`).  Later the condition excludes the two
defects of `sendAppendEntries` behind a snapshot: entries that do not follow
`prevLogIndex` (finding 1), and a `prevLogTerm` of 0 for an index inside the leader's
own snapshot (below the findings).  It leaves behaviours with snapshots on every
node, as long as no follower is that far behind: in the bounds of `snapshots`, TLC
reaches snapshots of both entries on all three nodes with fitting requests only.

Under the condition two invariants are inductive together.  `EntriesAtIndex`: the
entry at position `p` of a log has the index `snapshotIndex + p`.  The append loop
does not see to that by itself, since it puts an entry beyond the end at the end;
`AppendAllFits` shows it for a request that fits.  `ExecutedIsCovered`: a node has
executed the first entries behind its snapshot, what its apply loop holds comes next
(`Covers`), and each command it has executed is in the data of its snapshot file or
in those entries.  `FitStep` shows that no step of `HandleAppendEntries` touches what
is executed or copied, and `CoveredStep` that the cover then stays; the cases that
need it most are `TakeSnapshot`, which turns the one part into the other, and
`CrashInSnapshot`, after which the data is new and the log is old.

### Files

`StorageProofs` proves `StorageInv`, and from it `FilesAreWhole`, `NothingIsLost`
and `AnswersAreOnDisk`, for every value of the bounds.  None of the three is
inductive.  The invariant adds what a save relies on (`SaveIsSound`: before the
rename the temporary file has the right content, and the snapshot that is being
saved covers its index) and that the memory is never behind the state file and is
equal to it between two saves, unless one has failed (`MemoryIsAhead`); the case
that needs it most is `Rename` of a snapshot, after which the memory is compacted
and the file is not.  `StepStorage` has one case for each action.

### Timers

`TimersProofs` proves `TimerInv`, and from it `SilenceEnds`, `LeaderIsHeard` and
`CampaignsOnlyWhenLate`, for every `ElectionTimeout`, `HeartbeatInterval` and
`MaxLoops` (`TimerAssumption`).  The invariant relates the timer to the two
histories: with what is left of it the silence stays below two timeouts
(`FiresInTime`), and the wait, or the gap that a heartbeat has just ended while its
reset is still in the channel, is at least one (`FiresLate`); a reset that waits
stops time (`NothingIsLate`); and of a leader's loops one is on time
(`SomeLoopIsOnTime`), which is the loop started last until another one broadcasts.

### Task service

`TaskServiceProofs` is about every set of nodes, requests, keys, values and tasks,
and every bound (`NoneAssumption`, `AskedAssumption`, `BoundAssumption`).  What consensus does is
taken from `Submit`, `Commit` and `Timeout`, as `ReplicatedLog` promises it.

| Theorem | Statement |
|---|---|
| `ServiceIsTyped` | `Spec => []TypeOK` |
| `WorldsAreReplayed` | `Spec => []WorldIsReplayed` |
| `DataIsReplayedAlways` | `Spec => []DataIsReplayed` |
| `SuccessIsTrue` | `Spec => [](cuts = 0 => SuccessWasTrue)` |
| `TasksEndOnce` | `Spec => [](cuts = 0 => OneOutcome)` |
| `ServiceUsesReplicatedLog` | `Spec => UsesReplicatedLog` |

`Replay(log, n)` is the world after the first `n` entries.  `StoresAreReplayed`
says that every store, and every snapshot file at the index of its state file, is
such a world up to its times.  It is inductive as long as no snapshot was cut in
two (`cuts = 0`).  Where one was, entries are executed again on a world that has
them already: `StoresCatchUp` says what is left, key by key, that a store has what
the ledger makes of a key unless an entry it has yet to execute writes the key;
this is inductive without a condition and gives `DataIsReplayed`.

`SuccessIsTrue` needs that a command is committed at most once and at the index its
request remembers (`RequestInv`), and a witness in the ledger for the status that
the handler found in the store (`SuccessHeld`), which no later snapshot or
restart takes away.  `TasksEndOnce` follows with a lemma about `KVStore`: a final
status is final under every further `Replay`.  Both have the condition
`cuts = 0`, which the run `tasks` meets by its bound: after a cut a transition that
was reverted the first time may be carried out on one node, whose handler then
answers from it (finding 3).

`ServiceUsesReplicatedLog` is the whole refinement: the initial state and every
action, `Crash`, `CrashInSnapshot` and `TakeSnapshot` included, are mapped to an
action of `ReplicatedLog` or to a stutter.  It needs `LogInv` of that module, that a
request knows its place in the ledger and that a state file is not ahead of its
node.

### Induction

The induction theorems of the library take an operator, which the installed
provers cannot instantiate.  `NatSetInduction` takes a set instead, and is proved
from the well-foundedness of `<`; with it the modules prove what `AppendAll`,
`CommandsIn` and `Replay` return for every length.  That is why `Slots` has a
recursive function where `SelectSeq` would do.

### Left to TLC

- Liveness (`liveness`), out of the prover's reach as is `ENABLED`.
- `RequestsFit` once a snapshot exists.  It should hold as long as every goroutine of
  `sendAppendEntries` finds its `nextIndex` behind the leader's snapshot, and TLC finds
  no exception in the bounds of `snapshots` when all other steps are cut off; it is
  not a property of the run, where one follower falling behind makes it false.
- The properties of the log once a snapshot exists, which are false as they stand.
- The violations under Findings.

## Not modelled

Files that turn unreadable for another reason than a crash of the process (a loss
of power, a broken disk), JSON and HTTP themselves, reads that change no state
(`handleGet`, `GetTask`, `ListTasks`, `handleStatus`), requests refused before the
proposal, the moments between `Stop` of the node and the end of the process (a
crash in the model: `cmd/node` exits right after), and the command-line programs
and scripts.  `MCLiveness` has no crashes and no snapshots: behind a snapshot a
follower does not catch up (finding 1), and a crash only repeats its start.

## Plan

The order is that of importance: elections and the log first, since everything
rests on them, then what clients see.

Done: all modules; liveness of elections, replication and answers; the proofs of
elections and types, of the log, the state machines and the clients without
snapshots, of the refinement of `ReplicatedLog` by `Raft` and by the task service, of
what snapshots keep, of files and timers.

Next: snapshots in the invariant of the log (`LogInv`), for the behaviours in which
no follower falls behind its leader's snapshot.  `RequestsFit` is then a theorem for
these, and the condition one about `nextIndex` alone.
