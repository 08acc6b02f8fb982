---------------------------- MODULE ReplicatedLog ----------------------------
(***************************************************************************)
(* What consensus promises to the service above it: one sequence of slots, *)
(* the ledger, that only grows, that every node executes from its start    *)
(* and in its order, and that holds every command whose proposer is told   *)
(* of success.  A slot holds a command of a client or no command at all.   *)
(*                                                                         *)
(* Module Raft implements this specification with the refinement mapping   *)
(* of module RaftRefinement, as long as no node takes a snapshot, and the  *)
(* log of module TaskService is such a ledger.                             *)
(***************************************************************************)
EXTENDS Integers, Sequences, SequencesExt, Slots

CONSTANTS
  Node,      \* the nodes of the cluster
  Command,   \* the commands that clients propose, each at most once
  NoCommand  \* a slot without a command, and the proposer of an idle command

VARIABLES
  ledger,    \* what is decided, slot by slot
  position,  \* how many slots each node has gone through
  executed,  \* the commands that the state machine of each node has executed
  proposal   \* every command's proposer and what it was told

vars == <<ledger, position, executed, proposal>>

\* The ledger may begin with slots of nobody here: the log of an earlier version.
Init ==
  /\ ledger \in Seq({NoCommand})
  /\ position \in [Node -> 0..Len(ledger)]
  /\ executed = [i \in Node |-> << >>]
  /\ proposal = [cmd \in Command |-> [status |-> "idle", node |-> NoCommand]]

\* A client hands a command to node i.
Propose(i, cmd) ==
  /\ proposal[cmd].status = "idle"
  /\ proposal' = [proposal EXCEPT ![cmd] = [status |-> "waiting", node |-> i]]
  /\ UNCHANGED <<ledger, position, executed>>

\* Slots are decided, several at a time perhaps.  A command in them was proposed,
\* be its proposer still waiting or not, and is not decided twice.
Decide ==
  /\ IsStrictPrefix(ledger, ledger')
  /\ \A n \in DOMAIN ledger' \ DOMAIN ledger :
       \/ ledger'[n] = NoCommand
       \/ /\ ledger'[n] \in Command
          /\ proposal[ledger'[n]].status # "idle"
          /\ \A m \in 1..(n - 1) : ledger'[m] # ledger'[n]
  /\ UNCHANGED <<position, executed, proposal>>

\* Node i executes the next slot of the ledger.
Execute(i) ==
  /\ position[i] < Len(ledger)
  /\ position' = [position EXCEPT ![i] = @ + 1]
  /\ executed' = [executed EXCEPT ![i] =
       IF ledger[position'[i]] = NoCommand THEN @ ELSE Append(@, ledger[position'[i]])]
  /\ UNCHANGED <<ledger, proposal>>

\* Success is told only of a command that the proposer's node has executed.
Succeed(cmd) ==
  /\ proposal[cmd].status = "waiting"
  /\ cmd \in ToSet(executed[proposal[cmd].node])
  /\ proposal' = [proposal EXCEPT ![cmd].status = "done"]
  /\ UNCHANGED <<ledger, position, executed>>

\* Failure may be told of any command, decided or not.
Fail(cmd) ==
  /\ proposal[cmd].status = "waiting"
  /\ proposal' = [proposal EXCEPT ![cmd].status = "failed"]
  /\ UNCHANGED <<ledger, position, executed>>

\* Node i restarts: it falls back to an earlier slot of the ledger, and those that
\* waited for it fail.
Restart(i) ==
  /\ \E n \in 0..position[i] :
       /\ position' = [position EXCEPT ![i] = n]
       /\ executed' = [executed EXCEPT ![i] = CommandsIn(ledger, NoCommand, n)]
  /\ proposal' = [cmd \in Command |->
       IF proposal[cmd] = [status |-> "waiting", node |-> i]
       THEN [status |-> "failed", node |-> i] ELSE proposal[cmd]]
  /\ UNCHANGED ledger

Next ==
  \/ Decide
  \/ \E i \in Node : \/ Execute(i)
                     \/ Restart(i)
                     \/ \E cmd \in Command : Propose(i, cmd)
  \/ \E cmd \in Command : Succeed(cmd) \/ Fail(cmd)

Spec == Init /\ [][Next]_vars
=============================================================================
