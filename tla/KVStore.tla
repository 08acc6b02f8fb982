------------------------------- MODULE KVStore -------------------------------
(***************************************************************************)
(* The replicated state machine of src/statemachine: the "world" of KV     *)
(* data and tasks, and Apply, which executes one command of the log on it. *)
(* Apply is a function of the world, the command and the wall clock of the *)
(* node that executes it.                                                  *)
(*                                                                         *)
(* A command is what json.Unmarshal can tell apart of its bytes: form is   *)
(* "KV" or "TASK" for a transaction of that type with its payload,         *)
(* "legacy" for a KV command outside any transaction, and "garbage" for    *)
(* bytes that are no JSON object.                                          *)
(***************************************************************************)
EXTENDS Integers

CONSTANTS
  Key,      \* keys of the KV data
  Value,    \* values of the KV data
  TaskID    \* identifiers of tasks

\* service.validStatuses, all that reaches the log.
Status == {"PENDING", "RUNNING", "SUCCESS", "FAILED", "CANCELLED", "TIMEOUT"}

allowedTransitions ==
  [PENDING |-> {"RUNNING", "CANCELLED"},
   RUNNING |-> {"SUCCESS", "FAILED", "CANCELLED", "TIMEOUT"}]

terminalStatuses == {"SUCCESS", "FAILED", "CANCELLED", "TIMEOUT"}

\* Mutant: a task may always move on to a final status.
AllowsAnyEnd(from, to) == to \in terminalStatuses \/ from = "PENDING"

\* validateTransition returns no error.
ValidTransition(from, to) ==
  /\ from \notin terminalStatuses
  /\ from \in DOMAIN allowedTransitions
  /\ to \in allowedTransitions[from]

KVCommands   == [form : {"KV", "legacy"}, op : {"SET"}, key : Key, value : Value]
                  \union [form : {"KV", "legacy"}, op : {"DELETE"}, key : Key]
TaskCommands == [form : {"TASK"}, taskID : TaskID, status : Status]

\* A task's message is replaced with its status and is left out; never is the
\* empty CompletedAt.
never == -1
Tasks == [status : Status, createdAt : Nat, updatedAt : Nat,
          completedAt : Nat \union {never}]

EmptyMap   == [k \in {} |-> never]
EmptyWorld == [data |-> EmptyMap, tasks |-> EmptyMap]

Put(map, key, value) ==
  [k \in DOMAIN map \union {key} |-> IF k = key THEN value ELSE map[k]]
Delete(map, key) == [k \in DOMAIN map \ {key} |-> map[k]]

-----------------------------------------------------------------------------

\* DecodeTx: the transaction's type, "" for an object without tx_type.
Decodes(command) == command.form # "garbage"
TxType(command)  == IF command.form \in {"KV", "TASK"} THEN command.form ELSE ""

Failed(world)   == [world |-> world, result |-> "error"]
Reverted(world) == [world |-> world, result |-> "reverted"]

executeKVOp(world, cmd) ==
  [world  |-> [world EXCEPT !.data = IF cmd.op = "SET" THEN Put(@, cmd.key, cmd.value)
                                                       ELSE Delete(@, cmd.key)],
   result |-> "ok"]

\* Bytes that DecodeTx rejects, DecodeCommand rejects as well.
applyLegacyCommand(world, command) ==
  IF command.form \in {"KV", "legacy"} THEN executeKVOp(world, command)
                                       ELSE Failed(world)

\* The task after a transition at time now, and a new task.
Moved(task, status, now) ==
  [task EXCEPT !.status = status, !.updatedAt = now,
               !.completedAt = IF status \in terminalStatuses THEN now ELSE @]

Created(status, now) ==
  [status |-> status, createdAt |-> now, updatedAt |-> now,
   completedAt |-> IF status \in terminalStatuses THEN now ELSE never]

applyTaskTx(world, tx, now) ==
  LET id == tx.taskID
      exists == id \in DOMAIN world.tasks
      task == IF exists THEN Moved(world.tasks[id], tx.status, now)
                        ELSE Created(tx.status, now)
  IN  IF exists /\ ~ValidTransition(world.tasks[id].status, tx.status)
      THEN Reverted(world)
      ELSE [world |-> [world EXCEPT !.tasks = Put(@, id, task)], result |-> "ok"]

Apply(world, command, now) ==
  IF ~Decodes(command) THEN applyLegacyCommand(world, command)
  ELSE CASE TxType(command) = "KV"   -> executeKVOp(world, command)
         [] TxType(command) = "TASK" -> applyTaskTx(world, command, now)
         [] OTHER                    -> Failed(world)

-----------------------------------------------------------------------------
(* Snapshots: the two maps as one JSON object. *)

Snapshot(world) == [data |-> world.data, tasks |-> world.tasks]

\* Mutant: only the KV data is restored.
RestoreData(snapshot) == [data |-> snapshot.data, tasks |-> EmptyMap]

\* Mutant: only the tasks are restored.
RestoreTasks(snapshot) == [data |-> EmptyMap, tasks |-> snapshot.tasks]

\* Restore replaces the whole world.
Restore(snapshot) == [data |-> snapshot.data, tasks |-> snapshot.tasks]
=============================================================================
