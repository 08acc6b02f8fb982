----------------------------- MODULE TaskService -----------------------------
(***************************************************************************)
(* The service on top of the log: SetTaskStatus of src/service and the KV  *)
(* handlers of src/server build a command, propose it to their own node    *)
(* and answer the client; every node executes the committed commands on    *)
(* its KVStore, takes snapshots and recovers from its files.               *)
(*                                                                         *)
(* Consensus is left to module Raft: ledger is the sequence of commands    *)
(* that are committed, in the order all nodes execute them, and has the    *)
(* steps of ReplicatedLog, which Raft implements; whether a node accepts a *)
(* proposal (it is the leader), and when or whether an accepted proposal   *)
(* is committed, is left open.                                             *)
(*                                                                         *)
(* As in module Raft, a definition introduced by "Mutant:" is a plausible  *)
(* bug of the one that follows it; nothing uses it.                        *)
(***************************************************************************)
EXTENDS KVStore, Slots, Sequences, FiniteSets, FiniteSetsExt

CONSTANTS
  Node,         \* the nodes of the cluster
  Request,      \* client requests, each made once
  None,         \* no node, no command
  AskedStatus,  \* bound: the statuses that clients ask for
  MaxClock,     \* bound: seconds of wall clock
  MaxRestarts,  \* bound: crashes in a behaviour
  MaxCutSnapshots  \* bound: crashes between the two files of a snapshot

ASSUME NoneAssumption == None \notin Node
ASSUME AskedAssumption == AskedStatus \subseteq Status
ASSUME BoundAssumption == {MaxClock, MaxRestarts, MaxCutSnapshots} \subseteq Nat

VARIABLES
  ledger,         \* the committed commands, each with the request it is of
  world,          \* the KVStore of each node
  lastApplied,    \* volatile.LastApplied
  snapshotIndex,  \* persistent.SnapshotIndex, in the state file
  snapshotFile,   \* the snapshot file: its index and its data
  request,        \* the handler goroutine of every request
  clock,          \* the wall clock
  restarts,       \* how many crashes there were
  cuts            \* how many of them cut a snapshot in two

nodeVars == <<world, lastApplied, snapshotIndex, snapshotFile>>
boundVars == <<clock, restarts, cuts>>
vars == <<ledger, nodeVars, request, boundVars>>

NewRequest == [pc |-> "new", node |-> None, command |-> None, index |-> 0,
               result |-> "none", response |-> "none"]

\* A request that is refused (no task_id, none of validStatuses, not the leader)
\* changes nothing and is not modelled.
Commands == {c \in TaskCommands : c.status \in AskedStatus}
            \union {c \in KVCommands : c.form = "KV"}

\* Logs that an earlier version may have left: KV commands without transaction.
OldLogs == {<< >>} \union
           {<<[request |-> None, command |-> c]>> : c \in {d \in KVCommands : d.form = "legacy"}}

-----------------------------------------------------------------------------
(* The handlers. *)

Answer(r, response) ==
  request' = [request EXCEPT ![r].pc = "answered", ![r].response = response]

\* SetTaskStatus, handleSet or handleDelete on node i, up to the wait of Propose:
\* the node takes the command into its log.
Submit(r, i, command) ==
  /\ request[r].pc = "new"
  /\ request' = [request EXCEPT ![r].pc = "proposed", ![r].node = i,
                                ![r].command = command]
  /\ UNCHANGED <<ledger, nodeVars, boundVars>>

\* Mutant: a command may be committed again, as if its client had sent it twice.
CommitAgain(r) ==
  /\ request[r].command # None
  /\ Cardinality({n \in DOMAIN ledger : ledger[n].request = r}) < 2
  /\ ledger' = Append(ledger, [request |-> r, command |-> request[r].command])
  /\ request' = [request EXCEPT ![r].index = Len(ledger')]
  /\ UNCHANGED <<nodeVars, boundVars>>

\* The command of a request is committed, be its client still waiting or not.
Commit(r) ==
  /\ request[r].command # None
  /\ request[r].index = 0
  /\ ledger' = Append(ledger, [request |-> r, command |-> request[r].command])
  /\ request' = [request EXCEPT ![r].index = Len(ledger')]
  /\ UNCHANGED <<nodeVars, boundVars>>

\* Propose waits five seconds.
Timeout(r) ==
  /\ request[r].pc \in {"proposed", "executed"}
  /\ Answer(r, "failed")
  /\ UNCHANGED <<ledger, nodeVars, boundVars>>

\* Mutant: the status that is read is not compared.
AnyStatus(tasks, tx) == tx.taskID \in DOMAIN tasks

\* What SetTaskStatus takes for success: the task has the status it asked for.
HasStatus(tasks, tx) ==
  tx.taskID \in DOMAIN tasks /\ tasks[tx.taskID].status = tx.status

\* Propose has returned: SetTaskStatus reads the task from the store, as it is
\* by now; the KV handlers answer OK.
Finish(r) ==
  LET command == request[r].command IN
  /\ request[r].pc = "executed"
  /\ Answer(r, IF command.form = "TASK" /\ ~HasStatus(world[request[r].node].tasks, command)
               THEN "rejected" ELSE "success")
  /\ UNCHANGED <<ledger, nodeVars, boundVars>>

-----------------------------------------------------------------------------
(* The nodes. *)

\* applyCommitted: the store executes the next command, and the handler that
\* waits for it on this node goes on.  It is told the command and not the result
\* of Apply; result is kept for the properties.
ApplyNext(i) ==
  LET entry == ledger[lastApplied[i] + 1]
      r == entry.request
      done == Apply(world[i], entry.command, clock)
  IN
  /\ lastApplied[i] < Len(ledger)
  /\ world' = [world EXCEPT ![i] = done.world]
  /\ lastApplied' = [lastApplied EXCEPT ![i] = @ + 1]
  /\ request' = IF r # None /\ request[r].node = i /\ request[r].pc = "proposed"
                THEN [request EXCEPT ![r].pc = "executed", ![r].result = done.result]
                ELSE request
  /\ UNCHANGED <<ledger, snapshotIndex, snapshotFile, boundVars>>

\* Mutant: the index is one too high.
SnapshotAhead(i) == [index |-> lastApplied[i] + 1, data |-> Snapshot(world[i])]

\* maybeSnapshot: the snapshot file, then the state file.
SnapshotOf(i) == [index |-> lastApplied[i], data |-> Snapshot(world[i])]

TakeSnapshot(i) ==
  /\ lastApplied[i] > snapshotIndex[i]
  /\ snapshotFile' = [snapshotFile EXCEPT ![i] = SnapshotOf(i)]
  /\ snapshotIndex' = [snapshotIndex EXCEPT ![i] = lastApplied[i]]
  /\ UNCHANGED <<ledger, world, lastApplied, request, boundVars>>

\* The node stops and NewRaftNode starts it again; its handlers are gone.
Reboot(i) ==
  /\ restarts < MaxRestarts
  /\ restarts' = restarts + 1
  /\ world' = [world EXCEPT ![i] = Restore(snapshotFile'[i].data)]
  /\ lastApplied' = [lastApplied EXCEPT ![i] = snapshotIndex[i]]
  /\ request' = [r \in Request |->
       IF request[r].node = i /\ request[r].pc \in {"proposed", "executed"}
       THEN [request[r] EXCEPT !.pc = "answered", !.response = "failed"]
       ELSE request[r]]
  /\ UNCHANGED <<ledger, snapshotIndex, clock>>

Crash(i) ==
  /\ UNCHANGED <<snapshotFile, cuts>>
  /\ Reboot(i)

\* The node stops when the snapshot file is written and the state file is not.
CrashInSnapshot(i) ==
  /\ lastApplied[i] > snapshotIndex[i]
  /\ cuts < MaxCutSnapshots
  /\ cuts' = cuts + 1
  /\ snapshotFile' = [snapshotFile EXCEPT ![i] = SnapshotOf(i)]
  /\ Reboot(i)

Tick ==
  /\ clock < MaxClock
  /\ clock' = clock + 1
  /\ UNCHANGED <<ledger, nodeVars, request, restarts, cuts>>

-----------------------------------------------------------------------------

Init ==
  /\ ledger \in OldLogs
  /\ world = [i \in Node |-> EmptyWorld]
  /\ lastApplied = [i \in Node |-> 0]
  /\ snapshotIndex = [i \in Node |-> 0]
  /\ snapshotFile = [i \in Node |-> [index |-> 0, data |-> Snapshot(EmptyWorld)]]
  /\ request = [r \in Request |-> NewRequest]
  /\ clock = 0
  /\ restarts = 0
  /\ cuts = 0

RequestStep ==
  \E r \in Request :
    \/ \E i \in Node, command \in Commands : Submit(r, i, command)
    \/ Commit(r)
    \/ Timeout(r)
    \/ Finish(r)

NodeStep ==
  \E i \in Node :
    \/ ApplyNext(i)
    \/ TakeSnapshot(i)
    \/ Crash(i)
    \/ CrashInSnapshot(i)

Next == RequestStep \/ NodeStep \/ Tick

Spec == Init /\ [][Next]_vars

-----------------------------------------------------------------------------

(* Properties. *)

WorldOK(w) ==
  /\ DOMAIN w.data \subseteq Key
  /\ \A k \in DOMAIN w.data : w.data[k] \in Value
  /\ DOMAIN w.tasks \subseteq TaskID
  /\ \A t \in DOMAIN w.tasks : w.tasks[t] \in Tasks

\* Every variable keeps its type, and no node has executed, or has on disk, more
\* than the ledger has.
TypeOK ==
  /\ ledger \in Seq([request : Request \union {None}, command : KVCommands \union TaskCommands])
  /\ \A i \in Node : WorldOK(world[i]) /\ WorldOK(snapshotFile[i].data)
  /\ lastApplied \in [Node -> 0..Len(ledger)]
  /\ snapshotIndex \in [Node -> 0..Len(ledger)]
  /\ \A i \in Node : snapshotFile[i].index \in 0..Len(ledger)
  /\ request \in
       [Request -> [pc : {"new", "proposed", "executed", "answered"},
                    node : Node \union {None}, command : Commands \union {None},
                    index : 0..Len(ledger),
                    result : {"none", "ok", "reverted", "error"},
                    response : {"none", "failed", "rejected", "success"}]]
  /\ clock \in 0..MaxClock /\ restarts \in 0..MaxRestarts /\ cuts \in 0..MaxCutSnapshots

\* The part of a world that does not depend on the clock.
Statuses(w) == [t \in DOMAIN w.tasks |-> w.tasks[t].status]
Untimed(w)  == [data |-> w.data, tasks |-> Statuses(w)]

\* The world after the first n commands of a log, executed from the start.
Replay(log, n) ==
  LET after[k \in 0..n] ==
        IF k = 0 THEN EmptyWorld ELSE Apply(after[k - 1], log[k].command, 0).world
  IN  after[n]

Replayed(n) == Replay(ledger, n)

\* Up to the times in it, a node's world is what its lastApplied first commands
\* make, whatever snapshots and restarts there were in between: Restore brings
\* back all of what Snapshot took (kvstore.go:259-293), and a restart goes on
\* from the index of that data (raft.go:44-66), unless a crash came between the
\* two files.
WorldIsReplayed ==
  cuts = 0 =>
    \A i \in Node : Untimed(world[i]) = Untimed(Replayed(lastApplied[i]))

\* After such a crash the node executes again what the snapshot file contains,
\* and may write a snapshot of an earlier index with that data.  Its KV data comes
\* out right all the same once it has caught up: SET and DELETE do not depend on
\* what they overwrite (kvstore.go:93-101).
DataIsReplayed ==
  \A i \in Node :
    lastApplied[i] = Len(ledger)
      => world[i].data = Replayed(lastApplied[i]).data

\* A task ends once: two clients that asked for final statuses of the same task,
\* on whatever nodes, are told of success only if they asked for the same one,
\* although SetTaskStatus reads the store after its command was executed, when
\* others may have moved the task on (task_service.go:134-169).
OneOutcome ==
  \A r, s \in Request :
    LET tx == request[r].command
        ty == request[s].command
    IN  /\ request[r].response = "success" /\ request[s].response = "success"
        /\ tx.form = "TASK" /\ ty.form = "TASK"
        /\ tx.taskID = ty.taskID
        /\ {tx.status, ty.status} \subseteq terminalStatuses
        => tx.status = ty.status

\* Success is never told of a command that is not committed, or of a status that
\* the task did not have when or after the command was executed: the answer
\* comes from a store that may be behind other nodes (task_service.go:152-169).
SuccessWasTrue ==
  \A r \in Request :
    LET tx == request[r].command IN
    request[r].response = "success" =>
      /\ request[r].index > 0
      /\ tx.form = "TASK" =>
           \E n \in request[r].index..Len(ledger) :
             Statuses(Replayed(n))[tx.taskID] = tx.status

\* The answer tells the result of the execution: success if and only if Apply
\* carried the command out (task_service.go:86-91).
ResponseIsTheResult ==
  \A r \in Request :
    request[r].response \in {"success", "rejected"}
      => (request[r].response = "success" <=> request[r].result = "ok")

\* Nodes that have executed all of the ledger are in the same state
\* (README.md:46).
CaughtUpNodesAgree ==
  \A i, j \in Node :
    lastApplied[i] = Len(ledger) /\ lastApplied[j] = Len(ledger)
      => Untimed(world[i]) = Untimed(world[j])

-----------------------------------------------------------------------------
(* The log underneath. *)

Requests == [n \in DOMAIN ledger |-> ledger[n].request]

ToldTo(r) ==
  [status |-> CASE request[r].pc = "new" -> "idle"
                [] request[r].pc \in {"proposed", "executed"} -> "waiting"
                [] request[r].response = "failed" -> "failed"
                [] OTHER -> "done",
   node   |-> request[r].node]

Log == INSTANCE ReplicatedLog
  WITH Command   <- Request,
       NoCommand <- None,
       ledger    <- Requests,
       position  <- lastApplied,
       executed  <- [i \in Node |-> CommandsIn(Requests, None, lastApplied[i])],
       proposal  <- [r \in Request |-> ToldTo(r)]

\* The service needs no more of the log than consensus promises: commands are
\* decided once and never moved, a restart goes back in the same order, and an
\* answer other than failure comes from a node that has executed the command
\* (task_service.go:126-170).
UsesReplicatedLog == Log!Spec
=============================================================================
