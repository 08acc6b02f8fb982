----------------------------- MODULE RaftSafety -----------------------------
(***************************************************************************)
(* What the Raft node of src/raft promises, as properties of module Raft.  *)
(*                                                                         *)
(* The properties of the log compare positions and so speak of nodes that  *)
(* have taken no snapshot; the runs that check them set the threshold      *)
(* above the longest log.  The properties of elections and of recovery     *)
(* hold with snapshots as well.                                            *)
(***************************************************************************)
EXTENDS Raft, SequencesExt

LogEntries == [term : Nat, index : Nat, cmd : Command \union {Nil}]

CallRecords ==
  [type : {"RequestVote"}, src : Server, dst : Server, life : Nat, term : Nat,
   lastLogIndex : Nat, lastLogTerm : Nat]
  \union
  [type : {"RequestVoteReply"}, src : Server, dst : Server, term : Nat,
   replyTerm : Nat, voteGranted : BOOLEAN]
  \union
  [type : {"SendAppendEntries"}, src : Server, dst : Server, term : Nat,
   leaderCommit : Nat]
  \union
  [type : {"AppendEntries"}, src : Server, dst : Server, life : Nat, term : Nat,
   prevLogIndex : Nat, prevLogTerm : Nat, entries : Seq(LogEntries),
   leaderCommit : Nat]
  \union
  [type : {"AppendEntriesReply"}, src : Server, dst : Server, term : Nat,
   replyTerm : Nat, success : BOOLEAN, matchIndex : Nat, lastSent : Nat]

\* The part of the type invariant that elections rest on.
ElectionTypeOK ==
  /\ state \in [Server -> {Follower, Candidate, Leader}]
  /\ currentTerm \in [Server -> Nat]
  /\ votedFor \in [Server -> Server \union {Nil}]
  /\ votesReceived \in [Server -> SUBSET Server]
  /\ elected \subseteq [term : Nat, leader : Server, voters : SUBSET Server]

LogTypeOK ==
  /\ log \in [Server -> Seq(LogEntries)]
  /\ snapshotIndex \in [Server -> Nat]
  /\ snapshotTerm \in [Server -> Nat]
  /\ commitIndex \in [Server -> Nat]
  /\ nextIndex \in [Server -> [Server -> Nat]]
  /\ matchIndex \in [Server -> [Server -> Nat]]

ApplyTypeOK ==
  /\ lastApplied \in [Server -> Nat]
  /\ applyPhase \in [Server -> {"idle", "apply", "check", "snapshot"}]
  /\ applying \in [Server -> Seq(LogEntries)]
  /\ \A i \in Server : applyPhase[i] = "apply" <=> applying[i] # << >>
  /\ machine \in [Server -> Seq(Command)]
  /\ snapshotFile \in [Server -> [index : Nat, data : Seq(Command)]]

ClientTypeOK ==
  /\ \A i \in Server : /\ DOMAIN pendingProposals[i] \subseteq Nat
                       /\ \A n \in DOMAIN pendingProposals[i] :
                            pendingProposals[i][n] \in Command
  /\ proposal \in
       [Command -> {Idle} \union
          [status : {"waiting", "notified", "done", "failed"}, node : Server,
           index : Nat, term : Nat]]

CallTypeOK ==
  /\ DOMAIN calls \subseteq CallRecords
  /\ \A c \in DOMAIN calls : calls[c] \in Nat \ {0} /\ c.src # c.dst
  /\ restarts \in [Server -> Nat]

\* Every variable keeps its type, and no node calls itself.
TypeOK ==
  /\ ElectionTypeOK
  /\ LogTypeOK
  /\ ApplyTypeOK
  /\ ClientTypeOK
  /\ CallTypeOK

-----------------------------------------------------------------------------
(* Elections. *)

\* At most one node is elected in a term, over the whole history and not only
\* at a time: votes survive a crash, and a candidate that steps down in its own
\* term, whose vote HandleAppendEntries clears (raft.go:322-325), does not give
\* a second leader the majority.
ElectionSafety ==
  \A e, f \in elected : e.term = f.term => e.leader = f.leader

\* A vote for another node is not taken back within the term: HandleRequestVote
\* granted it (raft.go:276-291) and neither a later request nor a crash, in the
\* handler or outside, may clear it before the term changes.
VoteIsKept ==
  [][\A i \in Server :
       votedFor[i] \in Server \ {i} /\ currentTerm'[i] = currentTerm[i]
         => votedFor'[i] = votedFor[i]]_vars

-----------------------------------------------------------------------------
(* The inductive invariant behind ElectionSafety. *)

Terms == 0..MaxTerm

\* Node q gave its vote to another node c in term t, as far as anybody can still
\* tell: the answer is on its way, or a candidate counts it, or it elected c.
Granted(q, c, t) ==
  \/ \E r \in DOMAIN calls : /\ r.type = "RequestVoteReply"
                             /\ r.voteGranted
                             /\ r.dst = q /\ r.src = c /\ r.term = t
  \/ /\ state[c] = Candidate /\ currentTerm[c] = t
     /\ q # c /\ q \in votesReceived[c]
  \/ \E e \in elected : e.leader = c /\ e.term = t /\ q # c /\ q \in e.voters

\* Terms stay in their bound and calls name two nodes.
CallsAreTyped ==
  /\ \A i \in Server : currentTerm[i] \in Terms
  /\ \A e \in elected : e.term \in Terms
  /\ \A c \in DOMAIN calls :
       /\ c.src \in Server /\ c.dst \in Server /\ c.src # c.dst
       /\ c.term \in Terms
       /\ c.type \in Replies => c.replyTerm \in Terms

CampaignersVoteForThemselves ==
  \A i \in Server : /\ state[i] # Follower => votedFor[i] = i
                    /\ i \in votesReceived[i] \/ state[i] # Candidate

\* A vote for another node binds the voter: it cannot have been cast in a term
\* to come, and in the voter's current term it is the vote on record and the
\* voter does not campaign.
GrantsBind ==
  \A q, c \in Server : \A t \in Terms :
    Granted(q, c, t)
      => /\ q # c
         /\ t <= currentTerm[q]
         /\ t = currentTerm[q] => votedFor[q] = c /\ state[q] = Follower

GrantsAreUnique ==
  \A q, c, d \in Server : \A t \in Terms :
    Granted(q, c, t) /\ Granted(q, d, t) => c = d

\* An elected node has a majority, itself included, has voted for nobody else in
\* its term and keeps its own vote while the term lasts.
ElectedAreBacked ==
  \A e \in elected :
    /\ e.voters \in Quorums
    /\ e.leader \in e.voters
    /\ e.term <= currentTerm[e.leader]
    /\ e.term = currentTerm[e.leader] => votedFor[e.leader] = e.leader
    /\ \A c \in Server : ~Granted(e.leader, c, e.term)

WasElected(i, t) == \E e \in elected : e.leader = i /\ e.term = t

\* Only an elected node leads or sends entries, and no call is ahead of the term
\* of its caller.
LeadersWereElected ==
  /\ \A i \in Server : state[i] = Leader => WasElected(i, currentTerm[i])
  /\ \A c \in DOMAIN calls :
       /\ c.term <= currentTerm[c.src]
       /\ c.type \in {"SendAppendEntries", "AppendEntries"}
            => WasElected(c.src, c.term)

\* The inductive invariant: together with the type invariant it implies itself
\* after every step, and ElectionSafety is a part of it.
ElectionInv ==
  /\ ElectionTypeOK
  /\ CallsAreTyped
  /\ CampaignersVoteForThemselves
  /\ GrantsBind
  /\ GrantsAreUnique
  /\ ElectedAreBacked
  /\ LeadersWereElected
  /\ ElectionSafety

-----------------------------------------------------------------------------
(* The replicated log, as long as nobody takes a snapshot. *)

SameUpTo(i, j, n) == SubSeq(log[i], 1, n) = SubSeq(log[j], 1, n)

\* Two logs that agree on the term at a position agree on everything up to it,
\* and a position is the Index of the entry there: the consistency check and
\* the append loop of HandleAppendEntries (raft.go:328-376) keep both true even
\* for a request that sendAppendEntries built after its node lost the role.
LogMatching ==
  /\ \A i \in Server : \A p \in 1..Len(log[i]) : log[i][p].index = p
  /\ \A i, j \in Server : \A p \in 1..Len(log[i]) :
       p <= Len(log[j]) /\ log[i][p].term = log[j][p].term => SameUpTo(i, j, p)

\* A leader has every entry that a node of its term or an earlier one knows to
\* be committed: the election restriction (raft.go:281-286) and the median of
\* advanceCommitIndex (raft.go:547-575) speak of overlapping majorities.
LeaderCompleteness ==
  \A i, j \in Server :
    state[i] = Leader /\ currentTerm[j] <= currentTerm[i]
      => /\ commitIndex[j] <= Len(log[i])
         /\ SameUpTo(i, j, commitIndex[j])

\* What a leader has recorded as replicated on a node of its term is in that
\* node's log: the answer may be late, and matchIndex is set from what the
\* goroutine sent (raft.go:523-528), not from what the node answered.
MatchIndexIsTrue ==
  \A i, j \in Server :
    /\ state[i] = Leader
    /\ i # j
    /\ currentTerm[j] = currentTerm[i]
    => /\ matchIndex[i][j] <= Len(log[j])
       /\ SameUpTo(i, j, matchIndex[i][j])

\* No handler cuts a committed entry from the log, and the commit index moves
\* back only in a crash (raft.go:339-344, 366-369, 378-389).
CommittedIsKept ==
  [][\A i \in Server :
       /\ SubSeq(log'[i], 1, commitIndex[i]) = SubSeq(log[i], 1, commitIndex[i])
       /\ restarts'[i] = restarts[i] => commitIndex'[i] >= commitIndex[i]]_vars

-----------------------------------------------------------------------------
(* The state machines and the clients. *)

\* The state machines execute the same commands in the same order: what one has
\* executed is a prefix of what another has (kvstore.go:50-51; raft.go:671-704).
StateMachineSafety ==
  \A i, j \in Server : \/ IsPrefix(machine[i], machine[j])
                       \/ IsPrefix(machine[j], machine[i])

\* Node i has the entry of a proposal, in its log or in the snapshot on its disk.
Holds(i, cmd) ==
  \/ \E p \in 1..Len(log[i]) :
       log[i][p] = [term |-> proposal[cmd].term, index |-> proposal[cmd].index,
                    cmd |-> cmd]
  \/ \E p \in 1..Len(snapshotFile[i].data) : snapshotFile[i].data[p] = cmd

\* A command whose proposer has its result is on a majority and stays there:
\* the result comes from the entry that was proposed and not from the one that
\* replaced it at its index (raft.go:691-696), and no later leader loses it.
AckedSurvives ==
  \A cmd \in Command :
    proposal[cmd].status \in {"notified", "done"}
      => {i \in Server : Holds(i, cmd)} \in Quorums

\* A proposal that waits, and whose entry its node has yet to apply, will be
\* found by the apply loop: it is the one pending under its index, whatever
\* other proposals have timed out.  Two proposals of a node under one index are
\* left out: the map has one place for both (raft.go:599, 611).
WaitingIsPending ==
  \A cmd \in Command :
    LET i == proposal[cmd].node
        n == proposal[cmd].index
    IN  /\ proposal[cmd].status = "waiting"
        /\ n > lastApplied[i]
        /\ HasEntry(i, n)
        /\ Entry(i, n).term = proposal[cmd].term
        /\ \A other \in Command \ {cmd} :
             proposal[other].node = i => proposal[other].index # n
        => n \in DOMAIN pendingProposals[i] /\ pendingProposals[i][n] = cmd

-----------------------------------------------------------------------------
(* Snapshots and recovery. *)

CommandsOf(entries) == {entries[p].cmd : p \in DOMAIN entries} \ {Nil}

\* The log of node i holds every entry that the node has executed and its
\* snapshot does not replace, each at its position.
HoldsExecuted(i) ==
  \A n \in (snapshotIndex[i] + 1)..lastApplied[i] :
    HasEntry(i, n) /\ Entry(i, n).index = n

\* A crash at any moment, between the two writes of maybeSnapshot too
\* (raft.go:822-848), loses nothing that was executed: each command is in the
\* snapshot file or in the log of the state file, and the snapshot file is
\* never the older of the two.  A node whose log has lost an executed entry to
\* its leader (raft.go:339-344 with 458) is left out.
FilesCoverTheMachine ==
  \A i \in Server :
    /\ snapshotFile[i].index >= snapshotIndex[i]
    /\ HoldsExecuted(i) =>
         Range(machine[i]) \subseteq
           Range(snapshotFile[i].data) \union CommandsOf(log[i])

=============================================================================
