------------------------- MODULE TaskServiceProofs -------------------------
(***************************************************************************)
(* Theorems about module TaskService, for every set of nodes, requests,    *)
(* keys, values and tasks, and every bound.                                *)
(***************************************************************************)
EXTENDS TaskService, NatInduction, SequenceTheorems

-----------------------------------------------------------------------------
(* What Apply makes of a world. *)

Maps(S, V) == UNION {[K -> V] : K \in SUBSET S}

Worlds == [data : Maps(Key, Value), tasks : Maps(TaskID, Tasks)]

LogCommands == KVCommands \union TaskCommands

Entries == [request : Request \union {None}, command : LogCommands]

LEMMA PutTyped ==
  ASSUME NEW S, NEW V, NEW map \in Maps(S, V), NEW k \in S, NEW v \in V
  PROVE  Put(map, k, v) \in Maps(S, V)
<1>1. PICK K \in SUBSET S : map \in [K -> V]
  BY DEF Maps
<1>2. Put(map, k, v) \in [K \union {k} -> V]
  BY <1>1 DEF Put
<1>. QED  BY <1>2 DEF Maps

LEMMA DeleteTyped ==
  ASSUME NEW S, NEW V, NEW map \in Maps(S, V), NEW k
  PROVE  Delete(map, k) \in Maps(S, V)
<1>1. PICK K \in SUBSET S : map \in [K -> V]
  BY DEF Maps
<1>2. Delete(map, k) \in [K \ {k} -> V]
  BY <1>1 DEF Delete
<1>. QED  BY <1>2 DEF Maps

\* The entry of a log writes key k.
Writes(command, k) == command.form = "KV" /\ command.key = k

DataAfter(data, command) ==
  IF command.form # "KV" THEN data
  ELSE IF command.op = "SET" THEN Put(data, command.key, command.value)
                             ELSE Delete(data, command.key)

\* A task transaction is carried out.
Allowed(tasks, command) ==
  command.taskID \in DOMAIN tasks
    => ValidTransition(tasks[command.taskID].status, command.status)

TaskAfter(tasks, command, now) ==
  IF command.taskID \in DOMAIN tasks
  THEN Moved(tasks[command.taskID], command.status, now)
  ELSE Created(command.status, now)

TasksAfter(tasks, command, now) ==
  IF command.form = "TASK" /\ Allowed(tasks, command)
  THEN Put(tasks, command.taskID, TaskAfter(tasks, command, now))
  ELSE tasks

LEMMA ApplyParts ==
  ASSUME NEW w \in Worlds, NEW command \in LogCommands, NEW now
  PROVE  Apply(w, command, now).world
           = [data |-> DataAfter(w.data, command), tasks |-> TasksAfter(w.tasks, command, now)]
<1> USE DEF Worlds, Apply, Decodes, TxType
<1>1. CASE command.form = "KV"
  BY <1>1 DEF executeKVOp, DataAfter, TasksAfter
<1>2. CASE command.form = "TASK"
  BY <1>2 DEF applyTaskTx, Reverted, DataAfter, TasksAfter, TaskAfter, Allowed
<1>3. CASE command.form = "legacy"
  BY <1>3 DEF Failed, DataAfter, TasksAfter
<1>4. command.form \in {"KV", "TASK", "legacy"}
  BY DEF LogCommands, KVCommands, TaskCommands
<1>. QED  BY <1>1, <1>2, <1>3, <1>4

LEMMA TaskAfterTyped ==
  ASSUME NEW tasks \in Maps(TaskID, Tasks), NEW command \in TaskCommands, NEW now \in Nat
  PROVE  TaskAfter(tasks, command, now) \in Tasks
<1>1. command.status \in Status
  BY DEF TaskCommands
<1>2. CASE command.taskID \in DOMAIN tasks
  <2>1. tasks[command.taskID] \in Tasks
    BY <1>2 DEF Maps
  <2>. QED  BY <1>1, <1>2, <2>1 DEF TaskAfter, Moved, Tasks
<1>3. CASE command.taskID \notin DOMAIN tasks
  BY <1>1, <1>3 DEF TaskAfter, Created, Tasks
<1>. QED  BY <1>2, <1>3

LEMMA ApplyTyped ==
  ASSUME NEW w \in Worlds, NEW command \in LogCommands, NEW now \in Nat
  PROVE  Apply(w, command, now).world \in Worlds
<1>1. w.data \in Maps(Key, Value) /\ w.tasks \in Maps(TaskID, Tasks)
  BY DEF Worlds
<1>2. DataAfter(w.data, command) \in Maps(Key, Value)
  <2>1. CASE command.form # "KV"
    BY <1>1, <2>1 DEF DataAfter
  <2>2. CASE command.form = "KV"
    <3>1. command \in KVCommands
      BY <2>2 DEF LogCommands, TaskCommands
    <3>2. command.key \in Key /\ (command.op = "SET" => command.value \in Value)
      BY <3>1 DEF KVCommands
    <3>. QED  BY <1>1, <2>2, <3>2, PutTyped, DeleteTyped DEF DataAfter
  <2>. QED  BY <2>1, <2>2
<1>3. TasksAfter(w.tasks, command, now) \in Maps(TaskID, Tasks)
  <2>1. CASE command.form # "TASK"
    BY <1>1, <2>1 DEF TasksAfter
  <2>2. CASE command.form = "TASK"
    <3>1. command \in TaskCommands
      BY <2>2 DEF LogCommands, KVCommands
    <3>2. command.taskID \in TaskID
      BY <3>1 DEF TaskCommands
    <3>. QED  BY <1>1, <2>2, <3>1, <3>2, TaskAfterTyped, PutTyped DEF TasksAfter
  <2>. QED  BY <2>1, <2>2
<1>4. [data |-> DataAfter(w.data, command), tasks |-> TasksAfter(w.tasks, command, now)]
        \in Worlds
  BY <1>2, <1>3 DEF Worlds
<1>. QED  BY <1>4, ApplyParts

LEMMA EmptyWorldTyped == EmptyWorld \in Worlds
<1>1. \A S, V : EmptyMap \in Maps(S, V)
  <2> TAKE S, V
  <2>1. EmptyMap \in [{} -> V]
    BY DEF EmptyMap
  <2>2. {} \in SUBSET S
    OBVIOUS
  <2>. QED  BY <2>1, <2>2 DEF Maps
<1>. QED  BY <1>1 DEF EmptyWorld, Worlds

\* Two worlds that differ in their times only still do so after a command, whenever
\* it is executed on each.
LEMMA UntimedApply ==
  ASSUME NEW w \in Worlds, NEW v \in Worlds, Untimed(w) = Untimed(v),
         NEW command \in LogCommands, NEW now \in Nat, NEW then \in Nat
  PROVE  Untimed(Apply(w, command, now).world) = Untimed(Apply(v, command, then).world)
<1> DEFINE x == Apply(w, command, now).world
           y == Apply(v, command, then).world
           id == command.taskID
<1>1. /\ w.data = v.data
      /\ DOMAIN w.tasks = DOMAIN v.tasks
      /\ \A t \in DOMAIN w.tasks : w.tasks[t].status = v.tasks[t].status
  <2>1. w.data = v.data /\ Statuses(w) = Statuses(v)
    BY DEF Untimed
  <2>2. /\ DOMAIN Statuses(w) = DOMAIN w.tasks /\ DOMAIN Statuses(v) = DOMAIN v.tasks
        /\ \A t \in DOMAIN w.tasks : Statuses(w)[t] = w.tasks[t].status
        /\ \A t \in DOMAIN v.tasks : Statuses(v)[t] = v.tasks[t].status
    BY DEF Statuses
  <2>. QED  BY <2>1, <2>2
<1>2. /\ x.data = DataAfter(w.data, command) /\ x.tasks = TasksAfter(w.tasks, command, now)
      /\ y.data = DataAfter(v.data, command) /\ y.tasks = TasksAfter(v.tasks, command, then)
  <2>1. x = [data |-> DataAfter(w.data, command), tasks |-> TasksAfter(w.tasks, command, now)]
    BY ApplyParts
  <2>2. y = [data |-> DataAfter(v.data, command), tasks |-> TasksAfter(v.tasks, command, then)]
    BY ApplyParts
  <2> HIDE DEF x, y
  <2>. QED  BY <2>1, <2>2
<1> HIDE DEF x, y
<1>3. /\ DOMAIN x.tasks = DOMAIN y.tasks
      /\ \A t \in DOMAIN x.tasks : x.tasks[t].status = y.tasks[t].status
  <2>1. CASE command.form = "TASK" /\ Allowed(w.tasks, command)
    <3>1. Allowed(v.tasks, command)
      BY <1>1, <2>1 DEF Allowed
    <3>2. /\ x.tasks = Put(w.tasks, id, TaskAfter(w.tasks, command, now))
          /\ y.tasks = Put(v.tasks, id, TaskAfter(v.tasks, command, then))
      BY <1>2, <2>1, <3>1 DEF TasksAfter
    <3>3. TaskAfter(w.tasks, command, now).status = command.status
      <4>1. id \in DOMAIN w.tasks => w.tasks[id] \in Tasks
        BY DEF Worlds, Maps
      <4>. QED  BY <4>1 DEF TaskAfter, Moved, Created, Tasks
    <3>4. TaskAfter(v.tasks, command, then).status = command.status
      <4>1. id \in DOMAIN v.tasks => v.tasks[id] \in Tasks
        BY DEF Worlds, Maps
      <4>. QED  BY <4>1 DEF TaskAfter, Moved, Created, Tasks
    <3>. QED  BY <1>1, <3>2, <3>3, <3>4 DEF Put
  <2>2. CASE ~(command.form = "TASK" /\ Allowed(w.tasks, command))
    <3>1. command.form # "TASK" \/ ~Allowed(v.tasks, command)
      BY <1>1, <2>2 DEF Allowed
    <3>. QED  BY <1>1, <1>2, <2>2, <3>1 DEF TasksAfter
  <2>. QED  BY <2>1, <2>2
<1>4. Statuses(x) = Statuses(y)
  BY <1>3 DEF Statuses
<1>. QED  BY <1>1, <1>2, <1>4 DEF Untimed, x, y

-----------------------------------------------------------------------------
(* The worlds that a log makes. *)

\* The worlds that the first n commands of a log go through.
Worldline(L, after, n) ==
  after = [k \in 0..n |-> IF k = 0 THEN EmptyWorld
                          ELSE Apply(after[k - 1], L[k].command, 0).world]

LEMMA WorldlineExists ==
  ASSUME NEW L, NEW n \in Nat
  PROVE  \E f : Worldline(L, f, n)
<1> DEFINE S == {m \in Nat : \E f : Worldline(L, f, m)}
<1>1. 0 \in S
  <2>1. Worldline(L, [k \in 0..0 |-> EmptyWorld], 0)
    BY DEF Worldline
  <2>. QED  BY <2>1
<1>2. ASSUME NEW m \in Nat, m \in S
      PROVE  m + 1 \in S
  <2>1. PICK f : Worldline(L, f, m)
    BY <1>2
  <2> DEFINE next == Apply(f[m], L[m + 1].command, 0).world
             g == [k \in 0..(m + 1) |-> IF k = m + 1 THEN next ELSE f[k]]
  <2> HIDE DEF next
  <2>2. g[0] = EmptyWorld
    BY <2>1 DEF Worldline
  <2>3. \A k \in 1..m : g[k] = Apply(g[k - 1], L[k].command, 0).world
    <3>1. \A k \in 1..m : /\ f[k] = Apply(f[k - 1], L[k].command, 0).world
                          /\ k - 1 \in 0..m
      BY <2>1 DEF Worldline
    <3>. QED  BY <3>1
  <2>4. g[m + 1] = Apply(g[m], L[m + 1].command, 0).world
    BY DEF next
  <2> HIDE DEF g
  <2>5. \A k \in 0..(m + 1) :
          g[k] = IF k = 0 THEN EmptyWorld ELSE Apply(g[k - 1], L[k].command, 0).world
    <3> TAKE k \in 0..(m + 1)
    <3>1. k = 0 \/ k \in 1..m \/ k = m + 1
      OBVIOUS
    <3>2. m + 1 - 1 = m
      OBVIOUS
    <3>. QED  BY <2>2, <2>3, <2>4, <3>1, <3>2
  <2>6. Worldline(L, g, m + 1)
    BY <2>5 DEF Worldline, g
  <2>. QED  BY <2>6
<1>. QED  BY <1>1, <1>2, NatSetInduction

\* Replaying the longer of two logs goes through the same worlds as long as the
\* commands are the same.
LEMMA WorldlinesAgree ==
  ASSUME NEW L, NEW M, NEW f, NEW g, NEW n \in Nat, NEW m \in Nat,
         Worldline(L, f, n), Worldline(M, g, m), n <= m,
         \A k \in 1..n : L[k].command = M[k].command
  PROVE  f[n] = g[n]
<1> DEFINE S == {j \in Nat : j <= n => f[j] = g[j]}
<1>1. /\ f[0] = EmptyWorld
      /\ \A j \in Nat : j + 1 <= n => f[j + 1] = Apply(f[j], L[j + 1].command, 0).world
  <2>1. \A k \in 0..n : f[k] = IF k = 0 THEN EmptyWorld
                               ELSE Apply(f[k - 1], L[k].command, 0).world
    BY DEF Worldline
  <2>2. \A j \in Nat : j + 1 <= n => j + 1 \in 0..n /\ j + 1 # 0 /\ j + 1 - 1 = j
    OBVIOUS
  <2>. QED  BY <2>1, <2>2
<1>2. /\ g[0] = EmptyWorld
      /\ \A j \in Nat : j + 1 <= n => g[j + 1] = Apply(g[j], M[j + 1].command, 0).world
  <2>1. \A k \in 0..m : g[k] = IF k = 0 THEN EmptyWorld
                               ELSE Apply(g[k - 1], M[k].command, 0).world
    BY DEF Worldline
  <2>2. \A j \in Nat : j + 1 <= n => j + 1 \in 0..m /\ j + 1 # 0 /\ j + 1 - 1 = j
    OBVIOUS
  <2>. QED  BY <2>1, <2>2
<1>3. 0 \in S
  BY <1>1, <1>2
<1>4. ASSUME NEW j \in Nat, j \in S
      PROVE  j + 1 \in S
  <2> SUFFICES ASSUME j + 1 <= n PROVE f[j + 1] = g[j + 1]
    OBVIOUS
  <2>1. f[j] = g[j] /\ L[j + 1].command = M[j + 1].command
    BY <1>4
  <2>. QED  BY <1>1, <1>2, <2>1
<1> HIDE DEF S
<1>5. n \in S
  BY <1>3, <1>4, NatSetInduction
<1>. QED  BY <1>5 DEF S

LEMMA ReplayIsWorldline ==
  ASSUME NEW L, NEW n \in Nat
  PROVE  \E f : Worldline(L, f, n) /\ Replay(L, n) = f[n]
<1> DEFINE f == CHOOSE a : Worldline(L, a, n)
<1>1. Worldline(L, f, n)
  BY WorldlineExists
<1>2. Replay(L, n) = f[n]
  BY DEF Replay, Worldline
<1>. QED  BY <1>1, <1>2

LEMMA ReplaySame ==
  ASSUME NEW L, NEW M, NEW n \in Nat, \A k \in 1..n : L[k].command = M[k].command
  PROVE  Replay(L, n) = Replay(M, n)
<1>1. PICK f : Worldline(L, f, n) /\ Replay(L, n) = f[n]
  BY ReplayIsWorldline
<1>2. PICK g : Worldline(M, g, n) /\ Replay(M, n) = g[n]
  BY ReplayIsWorldline
<1>. QED  BY <1>1, <1>2, WorldlinesAgree

LEMMA ReplayStep ==
  ASSUME NEW L
  PROVE  /\ Replay(L, 0) = EmptyWorld
         /\ \A n \in Nat : Replay(L, n + 1) = Apply(Replay(L, n), L[n + 1].command, 0).world
<1>1. Replay(L, 0) = EmptyWorld
  <2>1. PICK f : Worldline(L, f, 0) /\ Replay(L, 0) = f[0]
    BY ReplayIsWorldline
  <2>. QED  BY <2>1 DEF Worldline
<1>2. ASSUME NEW n \in Nat
      PROVE  Replay(L, n + 1) = Apply(Replay(L, n), L[n + 1].command, 0).world
  <2>1. PICK f : Worldline(L, f, n) /\ Replay(L, n) = f[n]
    BY ReplayIsWorldline
  <2>2. PICK g : Worldline(L, g, n + 1) /\ Replay(L, n + 1) = g[n + 1]
    BY ReplayIsWorldline
  <2>3. f[n] = g[n]
    BY <2>1, <2>2, WorldlinesAgree
  <2>4. g[n + 1] = Apply(g[n], L[n + 1].command, 0).world
    <3>1. \A k \in 0..(n + 1) : g[k] = IF k = 0 THEN EmptyWorld
                                       ELSE Apply(g[k - 1], L[k].command, 0).world
      BY <2>2 DEF Worldline
    <3>2. n + 1 \in 0..(n + 1) /\ n + 1 # 0 /\ n + 1 - 1 = n
      OBVIOUS
    <3>. QED  BY <3>1, <3>2
  <2>. QED  BY <2>1, <2>2, <2>3, <2>4
<1>. QED  BY <1>1, <1>2

LEMMA ReplayTyped ==
  ASSUME NEW L \in Seq(Entries), NEW n \in 0..Len(L)
  PROVE  Replay(L, n) \in Worlds
<1> DEFINE S == {m \in Nat : m <= Len(L) => Replay(L, m) \in Worlds}
<1>1. 0 \in S
  BY ReplayStep, EmptyWorldTyped
<1>2. ASSUME NEW m \in Nat, m \in S
      PROVE  m + 1 \in S
  <2> SUFFICES ASSUME m + 1 <= Len(L) PROVE Replay(L, m + 1) \in Worlds
    OBVIOUS
  <2>1. Replay(L, m) \in Worlds
    BY <1>2
  <2>2. L[m + 1] \in Entries
    OBVIOUS
  <2>3. L[m + 1].command \in LogCommands
    BY <2>2 DEF Entries
  <2>4. Replay(L, m + 1) = Apply(Replay(L, m), L[m + 1].command, 0).world
    BY ReplayStep
  <2>. QED  BY <2>1, <2>3, <2>4, ApplyTyped
<1> HIDE DEF S
<1>3. n \in S
  BY <1>1, <1>2, NatSetInduction
<1>. QED  BY <1>3 DEF S

-----------------------------------------------------------------------------
(* Types. *)

RequestStates ==
  [pc : {"new", "proposed", "executed", "answered"},
   node : Node \union {None}, command : Commands \union {None}, index : Nat,
   result : {"none", "ok", "reverted", "error"},
   response : {"none", "failed", "rejected", "success"}]

\* The types, with worlds that are records of maps.
Typed ==
  /\ ledger \in Seq(Entries)
  /\ world \in [Node -> Worlds]
  /\ snapshotFile \in [Node -> [index : Nat, data : Worlds]]
  /\ lastApplied \in [Node -> Nat]
  /\ snapshotIndex \in [Node -> Nat]
  /\ request \in [Request -> RequestStates]
  /\ clock \in Nat

Bounded ==
  /\ \A i \in Node : /\ lastApplied[i] <= Len(ledger)
                     /\ snapshotIndex[i] <= Len(ledger)
                     /\ snapshotFile[i].index <= Len(ledger)
  /\ \A r \in Request : request[r].index <= Len(ledger)
  /\ clock \in 0..MaxClock /\ restarts \in 0..MaxRestarts /\ cuts \in 0..MaxCutSnapshots

TypeInv == Typed /\ Bounded

LEMMA WorldIsOK ==
  ASSUME NEW w \in Worlds
  PROVE  WorldOK(w)
  BY DEF Worlds, Maps, WorldOK

LEMMA TypeInvGivesTypeOK == TypeInv => TypeOK
<1> SUFFICES ASSUME TypeInv PROVE TypeOK
  OBVIOUS
<1> USE DEF TypeInv, Typed, Bounded
<1>1. Len(ledger) \in Nat
  OBVIOUS
<1>2. /\ lastApplied \in [Node -> 0..Len(ledger)]
      /\ snapshotIndex \in [Node -> 0..Len(ledger)]
      /\ \A i \in Node : snapshotFile[i].index \in 0..Len(ledger)
  BY <1>1
<1>3. \A i \in Node : WorldOK(world[i]) /\ WorldOK(snapshotFile[i].data)
  BY WorldIsOK
<1>4. request \in
       [Request -> [pc : {"new", "proposed", "executed", "answered"},
                    node : Node \union {None}, command : Commands \union {None},
                    index : 0..Len(ledger),
                    result : {"none", "ok", "reverted", "error"},
                    response : {"none", "failed", "rejected", "success"}]]
  BY <1>1 DEF RequestStates
<1>. QED  BY <1>2, <1>3, <1>4 DEF TypeOK, Entries, LogCommands

LEMMA CommandsAreLogCommands == Commands \subseteq LogCommands
  BY DEF Commands, LogCommands

LEMMA ApplyResult ==
  ASSUME NEW w, NEW command \in LogCommands, NEW now
  PROVE  Apply(w, command, now).result \in {"ok", "reverted", "error"}
<1>1. command.form \in {"KV", "TASK", "legacy"}
  BY DEF LogCommands, KVCommands, TaskCommands
<1>. QED  BY <1>1 DEF Apply, Decodes, TxType, executeKVOp, applyTaskTx, Reverted, Failed

LEMMA InitTyped == Init => TypeInv
<1> SUFFICES ASSUME Init PROVE TypeInv
  OBVIOUS
<1> USE DEF Init
<1>1. ledger \in Seq(Entries) /\ Len(ledger) \in Nat
  <2>1. CASE ledger = << >>
    BY <2>1
  <2>2. CASE ledger # << >>
    <3>1. PICK c \in KVCommands : ledger = <<[request |-> None, command |-> c]>>
      BY <2>2 DEF OldLogs
    <3>2. [request |-> None, command |-> c] \in Entries
      BY DEF Entries, LogCommands
    <3>. QED  BY <3>1, <3>2
  <2>. QED  BY <2>1, <2>2
<1>2. world \in [Node -> Worlds]
  BY EmptyWorldTyped
<1>3. Snapshot(EmptyWorld) \in Worlds
  BY EmptyWorldTyped DEF Snapshot, Worlds
<1>4. request \in [Request -> RequestStates]
  BY DEF NewRequest, RequestStates
<1>5. \A r \in Request : request[r].index = 0
  BY DEF NewRequest
<1>. QED  BY <1>1, <1>2, <1>3, <1>4, <1>5, BoundAssumption DEF TypeInv, Typed, Bounded

\* What the steps of requests and of nodes change.
LEMMA StepTyped ==
  ASSUME TypeInv, Next
  PROVE  TypeInv'
<1> USE DEF TypeInv, Typed, Bounded
<1>0. Len(ledger) \in Nat
  OBVIOUS
<1>1. ASSUME NEW r \in Request, NEW i \in Node, NEW command \in Commands,
             Submit(r, i, command)
      PROVE  TypeInv'
  <2>1. request' \in [Request -> RequestStates]
    <3>1. PICK q \in RequestStates : q = request[r]
      OBVIOUS
    <3>2. [q EXCEPT !.pc = "proposed", !.node = i, !.command = command] \in RequestStates
      BY DEF RequestStates
    <3>3. request' = [request EXCEPT ![r] =
                        [q EXCEPT !.pc = "proposed", !.node = i, !.command = command]]
      BY <1>1, <3>1 DEF Submit
    <3>. QED  BY <3>2, <3>3
  <2>2. \A q \in Request : request'[q].index = request[q].index
    BY <1>1 DEF Submit, RequestStates
  <2>. QED  BY <1>1, <2>1, <2>2 DEF Submit, nodeVars, boundVars
<1>2. ASSUME NEW r \in Request, Commit(r)
      PROVE  TypeInv'
  <2>1. [request |-> r, command |-> request[r].command] \in Entries
    BY <1>2, CommandsAreLogCommands DEF Commit, Entries, RequestStates
  <2>2. ledger' \in Seq(Entries) /\ Len(ledger') = Len(ledger) + 1
    BY <1>2, <2>1, AppendProperties DEF Commit
  <2>3. request' \in [Request -> RequestStates]
    <3>1. PICK q \in RequestStates : q = request[r]
      OBVIOUS
    <3>2. Len(ledger') \in Nat
      BY <1>0, <2>2
    <3>3. [q EXCEPT !.index = Len(ledger')] \in RequestStates
      BY <3>2 DEF RequestStates
    <3>4. request' = [request EXCEPT ![r] = [q EXCEPT !.index = Len(ledger')]]
      BY <1>2, <3>1 DEF Commit
    <3>. QED  BY <3>3, <3>4
  <2>4. \A q \in Request : request'[q].index \in {request[q].index, Len(ledger')}
    BY <1>2 DEF Commit, RequestStates
  <2>5. \A q \in Request : request'[q].index <= Len(ledger')
    <3>1. \A q \in Request : request[q].index \in Nat
      BY DEF RequestStates
    <3>2. \A q \in Request : request[q].index <= Len(ledger)
      OBVIOUS
    <3> HIDE DEF TypeInv
    <3>. QED  BY <1>0, <2>2, <2>4, <3>1, <3>2
  <2>. QED  BY <1>0, <1>2, <2>2, <2>3, <2>5 DEF Commit, nodeVars, boundVars
<1>3. ASSUME NEW r \in Request, Timeout(r) \/ Finish(r)
      PROVE  TypeInv'
  <2>1. PICK response \in {"failed", "rejected", "success"} : Answer(r, response)
    BY <1>3 DEF Timeout, Finish
  <2>2. request' \in [Request -> RequestStates]
    <3>1. PICK q \in RequestStates : q = request[r]
      OBVIOUS
    <3>2. [q EXCEPT !.pc = "answered", !.response = response] \in RequestStates
      BY DEF RequestStates
    <3>3. request' = [request EXCEPT ![r] =
                        [q EXCEPT !.pc = "answered", !.response = response]]
      BY <2>1, <3>1 DEF Answer
    <3>. QED  BY <3>2, <3>3
  <2>3. \A q \in Request : request'[q].index = request[q].index
    BY <2>1 DEF Answer, RequestStates
  <2>. QED  BY <1>3, <2>2, <2>3 DEF Timeout, Finish, nodeVars, boundVars
<1>4. ASSUME NEW i \in Node, ApplyNext(i)
      PROVE  TypeInv'
  <2> DEFINE entry == ledger[lastApplied[i] + 1]
             done == Apply(world[i], entry.command, clock)
  <2>1. lastApplied[i] + 1 \in 1..Len(ledger)
    BY <1>0, <1>4 DEF ApplyNext
  <2>2. entry.command \in LogCommands
    <3>1. entry \in Entries
      BY <2>1
    <3>. QED  BY <3>1 DEF Entries
  <2>3. done.world \in Worlds /\ done.result \in {"ok", "reverted", "error"}
    BY <2>2, ApplyTyped, ApplyResult
  <2> HIDE DEF done
  <2>4. world' \in [Node -> Worlds]
    BY <1>4, <2>3 DEF ApplyNext, done
  <2>5. /\ lastApplied' \in [Node -> Nat]
        /\ \A j \in Node : lastApplied'[j] <= Len(ledger)
    BY <1>0, <1>4, <2>1 DEF ApplyNext
  <2>6. request' \in [Request -> RequestStates]
    <3> DEFINE r == entry.request
    <3>1. CASE r # None /\ request[r].node = i /\ request[r].pc = "proposed"
      <4>1. r \in Request
        <5>1. entry \in Entries
          BY <2>1
        <5>. QED  BY <3>1, <5>1 DEF Entries
      <4>2. PICK q \in RequestStates : q = request[r]
        BY <4>1
      <4>3. [q EXCEPT !.pc = "executed", !.result = done.result] \in RequestStates
        BY <2>3 DEF RequestStates
      <4>4. request' = [request EXCEPT ![r] =
                          [q EXCEPT !.pc = "executed", !.result = done.result]]
        BY <1>4, <3>1, <4>2 DEF ApplyNext, done
      <4>. QED  BY <4>3, <4>4
    <3>2. CASE ~(r # None /\ request[r].node = i /\ request[r].pc = "proposed")
      BY <1>4, <3>2 DEF ApplyNext
    <3>. QED  BY <3>1, <3>2
  <2>7. \A q \in Request : request'[q].index = request[q].index
    BY <1>4 DEF ApplyNext, RequestStates
  <2>. QED  BY <1>0, <1>4, <2>4, <2>5, <2>6, <2>7 DEF ApplyNext, boundVars
<1>5. ASSUME NEW i \in Node, TakeSnapshot(i)
      PROVE  TypeInv'
  <2>1. SnapshotOf(i) \in [index : Nat, data : Worlds] /\ SnapshotOf(i).index = lastApplied[i]
    BY DEF SnapshotOf, Snapshot, Worlds
  <2>. QED  BY <1>0, <1>5, <2>1 DEF TakeSnapshot, boundVars
<1>6. ASSUME NEW i \in Node, Crash(i) \/ CrashInSnapshot(i)
      PROVE  TypeInv'
  <2>1. SnapshotOf(i) \in [index : Nat, data : Worlds] /\ SnapshotOf(i).index = lastApplied[i]
    BY DEF SnapshotOf, Snapshot, Worlds
  <2>2. /\ snapshotFile' \in [Node -> [index : Nat, data : Worlds]]
        /\ \A j \in Node : snapshotFile'[j].index <= Len(ledger)
    BY <1>6, <2>1 DEF Crash, CrashInSnapshot
  <2>3. Restore(snapshotFile'[i].data) \in Worlds
    BY <2>2 DEF Restore, Worlds
  <2>4. Reboot(i)
    BY <1>6 DEF Crash, CrashInSnapshot
  <2>5. world' \in [Node -> Worlds]
    BY <2>3, <2>4 DEF Reboot
  <2>6. request' \in [Request -> RequestStates]
    <3>1. \A q \in RequestStates :
            [q EXCEPT !.pc = "answered", !.response = "failed"] \in RequestStates
      BY DEF RequestStates
    <3>. QED  BY <2>4, <3>1 DEF Reboot
  <2>7. \A q \in Request : request'[q].index = request[q].index
    BY <2>4 DEF Reboot, RequestStates
  <2>8. /\ lastApplied' \in [Node -> Nat]
        /\ \A j \in Node : lastApplied'[j] <= Len(ledger)
    BY <2>4 DEF Reboot
  <2>9. restarts' \in 0..MaxRestarts /\ cuts' \in 0..MaxCutSnapshots
    <3>1. /\ restarts < MaxRestarts /\ restarts' = restarts + 1
          /\ cuts' = cuts \/ (cuts < MaxCutSnapshots /\ cuts' = cuts + 1)
      BY <1>6, <2>4 DEF Reboot, Crash, CrashInSnapshot
    <3>2. /\ restarts \in 0..MaxRestarts /\ cuts \in 0..MaxCutSnapshots
          /\ MaxRestarts \in Nat /\ MaxCutSnapshots \in Nat
      BY BoundAssumption
    <3> HIDE DEF TypeInv
    <3>. QED  BY <3>1, <3>2
  <2>. QED  BY <2>2, <2>4, <2>5, <2>6, <2>7, <2>8, <2>9 DEF Reboot
<1>7. ASSUME Tick
      PROVE  TypeInv'
  BY <1>7, BoundAssumption DEF Tick, nodeVars
<1>. QED  BY <1>1, <1>2, <1>3, <1>4, <1>5, <1>6, <1>7 DEF Next, RequestStep, NodeStep

LEMMA StutterTyped ==
  ASSUME TypeInv, UNCHANGED vars
  PROVE  TypeInv'
  BY DEF TypeInv, Typed, Bounded, vars, nodeVars, boundVars

LEMMA AlwaysTyped == Spec => []TypeInv
<1>1. TypeInv /\ [Next]_vars => TypeInv'
  BY StepTyped, StutterTyped
<1>. QED  BY <1>1, InitTyped, PTL DEF Spec

\* The ledger, the stores, the files and the handlers keep their types, and no node
\* has executed, or has on disk, more than the ledger has, whatever crashes and
\* cut snapshots there were.
THEOREM ServiceIsTyped == Spec => []TypeOK
  BY AlwaysTyped, TypeInvGivesTypeOK, PTL

-----------------------------------------------------------------------------
(* What a step does to one node and to the ledger. *)

Executes(i) ==
  /\ lastApplied[i] < Len(ledger)
  /\ world'[i] = Apply(world[i], ledger[lastApplied[i] + 1].command, clock).world
  /\ lastApplied'[i] = lastApplied[i] + 1
  /\ snapshotFile'[i] = snapshotFile[i] /\ snapshotIndex'[i] = snapshotIndex[i]

Snapshots(i) ==
  /\ snapshotFile'[i].data = world[i] /\ snapshotIndex'[i] = lastApplied[i]
  /\ world'[i] = world[i] /\ lastApplied'[i] = lastApplied[i]

Restarts(i) ==
  /\ world'[i] = snapshotFile'[i].data
  /\ lastApplied'[i] = snapshotIndex[i] /\ snapshotIndex'[i] = snapshotIndex[i]
  /\ \/ snapshotFile'[i] = snapshotFile[i]
     \/ /\ cuts' = cuts + 1 /\ snapshotIndex[i] < lastApplied[i]
        /\ snapshotFile'[i].data = world[i]

Rests(i) ==
  /\ world'[i] = world[i] /\ lastApplied'[i] = lastApplied[i]
  /\ snapshotFile'[i] = snapshotFile[i] /\ snapshotIndex'[i] = snapshotIndex[i]

LEMMA SnapshotIsWorld ==
  ASSUME NEW w \in Worlds
  PROVE  Snapshot(w) = w /\ Restore(w) = w
  BY DEF Worlds, Snapshot, Restore

LEMMA NodeEffects ==
  ASSUME TypeInv, [Next]_vars, NEW i \in Node
  PROVE  Executes(i) \/ Snapshots(i) \/ Restarts(i) \/ Rests(i)
<1> USE DEF TypeInv, Typed
<1>1. CASE RequestStep \/ Tick \/ UNCHANGED vars
  BY <1>1 DEF RequestStep, Submit, Commit, Timeout, Finish, Tick, vars, nodeVars, Rests
<1>2. ASSUME NEW j \in Node, ApplyNext(j)
      PROVE  Executes(i) \/ Rests(i)
  BY <1>2 DEF ApplyNext, Executes, Rests
<1>3. ASSUME NEW j \in Node, TakeSnapshot(j)
      PROVE  Snapshots(i) \/ Rests(i)
  <2>1. SnapshotOf(j).data = world[j]
    BY SnapshotIsWorld DEF SnapshotOf
  <2>. QED  BY <1>3, <2>1 DEF TakeSnapshot, Snapshots, Rests
<1>4. ASSUME NEW j \in Node, Crash(j) \/ CrashInSnapshot(j)
      PROVE  Restarts(i) \/ Rests(i)
  <2>1. Reboot(j)
    BY <1>4 DEF Crash, CrashInSnapshot
  <2>2. /\ world' = [world EXCEPT ![j] = Restore(snapshotFile'[j].data)]
        /\ lastApplied' = [lastApplied EXCEPT ![j] = snapshotIndex[j]]
        /\ snapshotIndex' = snapshotIndex
    BY <2>1 DEF Reboot
  <2>3. CASE Crash(j)
    <3>1. snapshotFile' = snapshotFile
      BY <2>3 DEF Crash
    <3>2. Restore(snapshotFile[j].data) = snapshotFile[j].data
      BY SnapshotIsWorld
    <3>. QED  BY <2>2, <3>1, <3>2 DEF Restarts, Rests
  <2>4. CASE CrashInSnapshot(j)
    <3>1. /\ snapshotFile' = [snapshotFile EXCEPT ![j] = SnapshotOf(j)]
          /\ cuts' = cuts + 1 /\ snapshotIndex[j] < lastApplied[j]
      BY <2>4 DEF CrashInSnapshot
    <3>2. SnapshotOf(j).data = world[j] /\ Restore(world[j]) = world[j]
      BY SnapshotIsWorld DEF SnapshotOf
    <3>. QED  BY <2>2, <3>1, <3>2 DEF Restarts, Rests
  <2>. QED  BY <1>4, <2>3, <2>4
<1>. QED  BY <1>1, <1>2, <1>3, <1>4 DEF Next, NodeStep

LEMMA LedgerGrows ==
  ASSUME TypeInv, [Next]_vars
  PROVE  /\ Len(ledger) <= Len(ledger')
         /\ \A n \in 1..Len(ledger) : ledger'[n] = ledger[n]
         /\ \A n \in 0..Len(ledger) : Replay(ledger', n) = Replay(ledger, n)
<1> USE DEF TypeInv, Typed
<1>1. /\ Len(ledger) \in Nat /\ Len(ledger) <= Len(ledger')
      /\ \A n \in 1..Len(ledger) : ledger'[n] = ledger[n]
  <2>1. CASE UNCHANGED ledger
    BY <2>1
  <2>2. CASE ~UNCHANGED ledger
    <3>1. PICK r \in Request : Commit(r)
      BY <2>2 DEF Next, RequestStep, NodeStep, Submit, Timeout, Finish, ApplyNext, TakeSnapshot,
                  Crash, CrashInSnapshot, Reboot, Tick, vars
    <3>2. PICK entry : ledger' = Append(ledger, entry)
      BY <3>1 DEF Commit
    <3>. QED  BY <3>2
  <2>. QED  BY <2>1, <2>2
<1>2. ASSUME NEW n \in 0..Len(ledger)
      PROVE  Replay(ledger', n) = Replay(ledger, n)
  <2>1. \A k \in 1..n : ledger'[k].command = ledger[k].command
    <3>1. \A k \in 1..n : k \in 1..Len(ledger)
      BY <1>1
    <3>. QED  BY <1>1, <3>1
  <2>. QED  BY <1>1, <2>1, ReplaySame
<1>. QED  BY <1>1, <1>2

LEMMA CutsGrow ==
  ASSUME TypeInv, [Next]_vars
  PROVE  cuts' \in Nat /\ cuts \in Nat /\ (cuts' = cuts \/ cuts' = cuts + 1)
<1>1. cuts \in Nat
  BY BoundAssumption DEF TypeInv, Bounded
<1>2. cuts' = cuts \/ cuts' = cuts + 1
  BY DEF Next, RequestStep, NodeStep, Submit, Commit, Timeout, Finish, ApplyNext, TakeSnapshot,
         Crash, CrashInSnapshot, Tick, vars, boundVars
<1>. QED  BY <1>1, <1>2

-----------------------------------------------------------------------------
(* Worlds are replayed. *)

\* WorldIsReplayed, and the same of the snapshot files.
StoresAreReplayed ==
  cuts = 0 =>
    \A i \in Node :
      /\ Untimed(world[i]) = Untimed(Replayed(lastApplied[i]))
      /\ Untimed(snapshotFile[i].data) = Untimed(Replayed(snapshotIndex[i]))

LEMMA StepReplays ==
  ASSUME TypeInv, StoresAreReplayed, [Next]_vars
  PROVE  StoresAreReplayed'
<1> SUFFICES ASSUME cuts' = 0, NEW i \in Node
             PROVE  /\ Untimed(world'[i]) = Untimed(Replay(ledger', lastApplied'[i]))
                    /\ Untimed(snapshotFile'[i].data) = Untimed(Replay(ledger', snapshotIndex'[i]))
  BY DEF StoresAreReplayed, Replayed, Untimed, Statuses
<1>1. cuts = 0 /\ cuts' # cuts + 1
  BY CutsGrow
<1>2. /\ Untimed(world[i]) = Untimed(Replay(ledger, lastApplied[i]))
      /\ Untimed(snapshotFile[i].data) = Untimed(Replay(ledger, snapshotIndex[i]))
  BY <1>1 DEF StoresAreReplayed, Replayed
<1>3. /\ lastApplied[i] \in 0..Len(ledger) /\ snapshotIndex[i] \in 0..Len(ledger)
      /\ Len(ledger) \in Nat /\ world[i] \in Worlds /\ ledger \in Seq(Entries) /\ clock \in Nat
  BY DEF TypeInv, Typed, Bounded
<1>4. \A n \in 0..Len(ledger) : Replay(ledger', n) = Replay(ledger, n)
  BY LedgerGrows
<1>5. CASE Executes(i)
  <2> DEFINE n == lastApplied[i]
             v == Replay(ledger, n)
             command == ledger[n + 1].command
  <2>1. n + 1 \in 1..Len(ledger)
    BY <1>3, <1>5 DEF Executes
  <2>2. command \in LogCommands
    <3>1. ledger[n + 1] \in Entries
      BY <1>3, <2>1
    <3>. QED  BY <3>1 DEF Entries
  <2>3. v \in Worlds
    BY <1>3, ReplayTyped
  <2>4. Untimed(Apply(world[i], command, clock).world) = Untimed(Apply(v, command, 0).world)
    BY <1>2, <1>3, <2>2, <2>3, UntimedApply
  <2>5. Replay(ledger, n + 1) = Apply(v, command, 0).world
    <3>1. n \in Nat
      BY <1>3
    <3>. QED  BY <3>1, ReplayStep
  <2>6. Replay(ledger', n + 1) = Replay(ledger, n + 1)
    BY <1>4, <2>1
  <2>7. Untimed(world'[i]) = Untimed(Replay(ledger', lastApplied'[i]))
    BY <1>5, <2>4, <2>5, <2>6 DEF Executes
  <2>. QED  BY <1>2, <1>3, <1>4, <1>5, <2>7 DEF Executes
<1>6. CASE Snapshots(i)
  BY <1>2, <1>3, <1>4, <1>6 DEF Snapshots
<1>7. CASE Restarts(i)
  BY <1>1, <1>2, <1>3, <1>4, <1>7 DEF Restarts
<1>8. CASE Rests(i)
  BY <1>2, <1>3, <1>4, <1>8 DEF Rests
<1>. QED  BY <1>5, <1>6, <1>7, <1>8, NodeEffects

LEMMA AlwaysReplayed == Spec => []StoresAreReplayed
<1>1. Init => StoresAreReplayed
  <2> SUFFICES ASSUME Init, NEW i \in Node
               PROVE  /\ Untimed(world[i]) = Untimed(Replayed(lastApplied[i]))
                      /\ Untimed(snapshotFile[i].data) = Untimed(Replayed(snapshotIndex[i]))
    BY DEF StoresAreReplayed
  <2>1. Snapshot(EmptyWorld) = EmptyWorld
    BY SnapshotIsWorld, EmptyWorldTyped
  <2>. QED  BY <2>1, ReplayStep DEF Init, Replayed
<1>2. TypeInv /\ StoresAreReplayed /\ [Next]_vars => StoresAreReplayed'
  BY StepReplays
<1>. QED  BY <1>1, <1>2, AlwaysTyped, PTL DEF Spec

\* Up to the times in it, the world of a node is what the commands it has executed
\* make, on every node and through every snapshot and restart, as long as no crash
\* came between the two files of a snapshot.
THEOREM WorldsAreReplayed == Spec => []WorldIsReplayed
<1>1. StoresAreReplayed => WorldIsReplayed
  BY DEF StoresAreReplayed, WorldIsReplayed
<1>. QED  BY <1>1, AlwaysReplayed, PTL

-----------------------------------------------------------------------------
(* KV data after a crash between the two files of a snapshot. *)

\* Two maps say the same of key k.
SameAt(data, more, k) ==
  /\ k \in DOMAIN data <=> k \in DOMAIN more
  /\ k \in DOMAIN data => data[k] = more[k]

\* A command of the log after the first n writes key k.
WrittenAfter(L, n, k) == \E p \in (n + 1)..Len(L) : Writes(L[p].command, k)

LEMMA WritesDecide ==
  ASSUME NEW data, NEW more, NEW command, NEW k, Writes(command, k)
  PROVE  SameAt(DataAfter(data, command), DataAfter(more, command), k)
  BY DEF Writes, SameAt, DataAfter, Put, Delete

LEMMA OthersKeep ==
  ASSUME NEW data, NEW command, NEW k, ~Writes(command, k)
  PROVE  SameAt(DataAfter(data, command), data, k)
  BY DEF Writes, SameAt, DataAfter, Put, Delete

LEMMA ApplyData ==
  ASSUME NEW w \in Worlds, NEW command \in LogCommands, NEW now
  PROVE  Apply(w, command, now).world.data = DataAfter(w.data, command)
<1>1. Apply(w, command, now).world
        = [data |-> DataAfter(w.data, command), tasks |-> TasksAfter(w.tasks, command, now)]
  BY ApplyParts
<1>. QED  BY <1>1

LEMMA ReplayData ==
  ASSUME NEW L \in Seq(Entries), NEW n \in Nat, n + 1 <= Len(L)
  PROVE  /\ L[n + 1].command \in LogCommands
         /\ Replay(L, n + 1).data = DataAfter(Replay(L, n).data, L[n + 1].command)
<1>1. L[n + 1] \in Entries
  OBVIOUS
<1>2. L[n + 1].command \in LogCommands
  BY <1>1 DEF Entries
<1>3. Replay(L, n) \in Worlds
  BY ReplayTyped
<1>4. Replay(L, n + 1) = Apply(Replay(L, n), L[n + 1].command, 0).world
  BY ReplayStep
<1>. QED  BY <1>2, <1>3, <1>4, ApplyData

\* Commands that do not write a key leave it as it is.
LEMMA ReplayKeeps ==
  ASSUME NEW L \in Seq(Entries), NEW n \in Nat, NEW m \in Nat, n <= m, m <= Len(L),
         NEW k, \A p \in (n + 1)..m : ~Writes(L[p].command, k)
  PROVE  SameAt(Replay(L, n).data, Replay(L, m).data, k)
<1> DEFINE S == {d \in Nat : n + d <= m
                   => SameAt(Replay(L, n).data, Replay(L, n + d).data, k)}
<1>1. 0 \in S
  <2>1. n + 0 = n
    OBVIOUS
  <2>. QED  BY <2>1 DEF SameAt
<1>2. ASSUME NEW d \in Nat, d \in S
      PROVE  d + 1 \in S
  <2> SUFFICES ASSUME n + (d + 1) <= m
               PROVE  SameAt(Replay(L, n).data, Replay(L, n + (d + 1)).data, k)
    OBVIOUS
  <2> DEFINE q == n + d
  <2>1. q \in Nat /\ q + 1 \in (n + 1)..m /\ q + 1 <= Len(L) /\ n + (d + 1) = q + 1
    OBVIOUS
  <2>2. SameAt(Replay(L, n).data, Replay(L, q).data, k)
    BY <1>2
  <2> HIDE DEF q
  <2>3. Replay(L, q + 1).data = DataAfter(Replay(L, q).data, L[q + 1].command)
    BY <2>1, ReplayData
  <2>4. SameAt(Replay(L, q + 1).data, Replay(L, q).data, k)
    BY <2>1, <2>3, OthersKeep
  <2>. QED  BY <2>1, <2>2, <2>4 DEF SameAt
<1> HIDE DEF S
<1>5. Nat \subseteq S
  BY <1>1, <1>2, NatSetInduction
<1>3. m - n \in S
  BY <1>5
<1>4. n + (m - n) = m
  OBVIOUS
<1>. QED  BY <1>3, <1>4 DEF S

\* A store has, of every key, what the commands it has executed make of it, unless
\* a command that it has yet to execute writes the key.
CatchesUp(L, w, n) ==
  \A k \in Key : WrittenAfter(L, n, k) \/ SameAt(w.data, Replay(L, n).data, k)

\* So has, for the commands up to the index in the state file, the snapshot file.
StoresCatchUp ==
  \A i \in Node : /\ CatchesUp(ledger, world[i], lastApplied[i])
                  /\ CatchesUp(ledger, snapshotFile[i].data, snapshotIndex[i])

\* A store may count fewer commands than it has executed.
LEMMA CatchesUpFromEarlier ==
  ASSUME NEW L \in Seq(Entries), NEW w, NEW n \in Nat, NEW m \in Nat,
         n <= m, m <= Len(L), CatchesUp(L, w, m)
  PROVE  CatchesUp(L, w, n)
<1> SUFFICES ASSUME NEW k \in Key, ~WrittenAfter(L, n, k)
             PROVE  SameAt(w.data, Replay(L, n).data, k)
  BY DEF CatchesUp
<1>1. \A p \in (n + 1)..Len(L) : ~Writes(L[p].command, k)
  BY DEF WrittenAfter
<1>2. Len(L) \in Nat
  OBVIOUS
<1>3. ~WrittenAfter(L, m, k)
  <2>1. \A p \in (m + 1)..Len(L) : p \in (n + 1)..Len(L)
    BY <1>2
  <2>. QED  BY <1>1, <2>1 DEF WrittenAfter
<1>4. SameAt(Replay(L, n).data, Replay(L, m).data, k)
  <2>1. \A p \in (n + 1)..m : p \in (n + 1)..Len(L)
    BY <1>2
  <2>. QED  BY <1>1, <2>1, ReplayKeeps
<1>5. SameAt(w.data, Replay(L, m).data, k)
  BY <1>3 DEF CatchesUp
<1>. QED  BY <1>4, <1>5 DEF SameAt

\* It goes on catching up with the next command.
LEMMA CatchesUpByApply ==
  ASSUME NEW L \in Seq(Entries), NEW w \in Worlds, NEW n \in Nat, n + 1 <= Len(L),
         NEW now, CatchesUp(L, w, n)
  PROVE  CatchesUp(L, Apply(w, L[n + 1].command, now).world, n + 1)
<1> DEFINE command == L[n + 1].command
           x == Apply(w, command, now).world
<1>1. /\ command \in LogCommands
      /\ Replay(L, n + 1).data = DataAfter(Replay(L, n).data, command)
  BY ReplayData
<1>2. x.data = DataAfter(w.data, command)
  BY <1>1, ApplyData
<1> HIDE DEF x, command
<1> SUFFICES ASSUME NEW k \in Key, ~WrittenAfter(L, n + 1, k)
             PROVE  SameAt(x.data, Replay(L, n + 1).data, k)
  BY DEF CatchesUp, x, command
<1>3. CASE Writes(command, k)
  BY <1>1, <1>2, <1>3, WritesDecide
<1>4. CASE ~Writes(command, k)
  <2>1. ~WrittenAfter(L, n, k)
    <3>1. \A p \in (n + 1)..Len(L) : p = n + 1 \/ p \in (n + 1 + 1)..Len(L)
      OBVIOUS
    <3>. QED  BY <1>4, <3>1 DEF WrittenAfter, command
  <2>2. SameAt(w.data, Replay(L, n).data, k)
    BY <2>1 DEF CatchesUp
  <2>3. /\ SameAt(x.data, w.data, k)
        /\ SameAt(Replay(L, n + 1).data, Replay(L, n).data, k)
    BY <1>1, <1>2, <1>4, OthersKeep
  <2>. QED  BY <2>2, <2>3 DEF SameAt
<1>. QED  BY <1>3, <1>4

\* It does not mind that the log grows.
LEMMA CatchesUpAnyway ==
  ASSUME NEW L, NEW M, NEW w, NEW n \in Nat, Len(L) \in Nat, Len(M) \in Nat,
         Len(L) <= Len(M), \A p \in 1..Len(L) : M[p] = L[p],
         Replay(M, n) = Replay(L, n), CatchesUp(L, w, n)
  PROVE  CatchesUp(M, w, n)
<1>1. ASSUME NEW k, WrittenAfter(L, n, k)
      PROVE  WrittenAfter(M, n, k)
  <2>1. PICK p \in (n + 1)..Len(L) : Writes(L[p].command, k)
    BY <1>1 DEF WrittenAfter
  <2>2. M[p] = L[p] /\ p \in (n + 1)..Len(M)
    BY <2>1
  <2>. QED  BY <2>1, <2>2 DEF WrittenAfter
<1>. QED  BY <1>1 DEF CatchesUp

LEMMA StepCatchesUp ==
  ASSUME TypeInv, StoresCatchUp, [Next]_vars
  PROVE  StoresCatchUp'
<1> SUFFICES ASSUME NEW i \in Node
             PROVE  /\ CatchesUp(ledger', world'[i], lastApplied'[i])
                    /\ CatchesUp(ledger', snapshotFile'[i].data, snapshotIndex'[i])
  BY DEF StoresCatchUp, CatchesUp, WrittenAfter
<1> DEFINE n == lastApplied[i]
           s == snapshotIndex[i]
<1>1. /\ n \in Nat /\ s \in Nat /\ n <= Len(ledger) /\ s <= Len(ledger)
      /\ Len(ledger) \in Nat /\ world[i] \in Worlds /\ ledger \in Seq(Entries)
  BY DEF TypeInv, Typed, Bounded
<1>2. CatchesUp(ledger, world[i], n) /\ CatchesUp(ledger, snapshotFile[i].data, s)
  BY DEF StoresCatchUp
<1>3. /\ Len(ledger) <= Len(ledger')
      /\ \A p \in 1..Len(ledger) : ledger'[p] = ledger[p]
      /\ \A p \in 0..Len(ledger) : Replay(ledger', p) = Replay(ledger, p)
  BY LedgerGrows
<1>4. Len(ledger') \in Nat
  <2>1. TypeInv'
    BY StepTyped, StutterTyped
  <2>. QED  BY <2>1 DEF TypeInv, Typed
<1> HIDE DEF n, s
<1>5. ASSUME NEW w, NEW m \in Nat, m <= Len(ledger), CatchesUp(ledger, w, m)
      PROVE  CatchesUp(ledger', w, m)
  <2>1. Replay(ledger', m) = Replay(ledger, m)
    BY <1>1, <1>3, <1>5
  <2>. QED  BY <1>1, <1>3, <1>4, <1>5, <2>1, CatchesUpAnyway
<1>6. CASE Executes(i)
  <2>1. n + 1 \in Nat /\ n + 1 <= Len(ledger)
    BY <1>1, <1>6 DEF Executes, n
  <2>2. CatchesUp(ledger, world'[i], n + 1)
    BY <1>1, <1>2, <1>6, <2>1, CatchesUpByApply DEF Executes, n
  <2>3. CatchesUp(ledger', world'[i], n + 1)
    BY <1>5, <2>1, <2>2
  <2>. QED  BY <1>1, <1>2, <1>5, <1>6, <2>3 DEF Executes, n, s
<1>7. CASE Snapshots(i)
  BY <1>1, <1>2, <1>5, <1>7 DEF Snapshots, n, s
<1>8. CASE Restarts(i)
  <2>1. CASE snapshotFile'[i] = snapshotFile[i]
    BY <1>1, <1>2, <1>5, <1>8, <2>1 DEF Restarts, s
  <2>2. CASE s < n /\ snapshotFile'[i].data = world[i]
    <3>1. CatchesUp(ledger, world[i], s)
      BY <1>1, <1>2, <2>2, CatchesUpFromEarlier
    <3>. QED  BY <1>1, <1>5, <1>8, <2>2, <3>1 DEF Restarts, s
  <2>. QED  BY <1>8, <2>1, <2>2 DEF Restarts, n, s
<1>9. CASE Rests(i)
  BY <1>1, <1>2, <1>5, <1>9 DEF Rests, n, s
<1>. QED  BY <1>6, <1>7, <1>8, <1>9, NodeEffects

LEMMA AlwaysCatchesUp == Spec => []StoresCatchUp
<1>1. Init => StoresCatchUp
  <2> SUFFICES ASSUME Init, NEW i \in Node
               PROVE  /\ CatchesUp(ledger, world[i], lastApplied[i])
                      /\ CatchesUp(ledger, snapshotFile[i].data, snapshotIndex[i])
    BY DEF StoresCatchUp
  <2>1. Snapshot(EmptyWorld) = EmptyWorld
    BY SnapshotIsWorld, EmptyWorldTyped
  <2>. QED  BY <2>1, ReplayStep DEF Init, CatchesUp, SameAt
<1>2. TypeInv /\ StoresCatchUp /\ [Next]_vars => StoresCatchUp'
  BY StepCatchesUp
<1>. QED  BY <1>1, <1>2, AlwaysTyped, PTL DEF Spec

LEMMA SameEverywhere ==
  ASSUME NEW f \in Maps(Key, Value), NEW g \in Maps(Key, Value),
         \A k \in Key : SameAt(f, g, k)
  PROVE  f = g
<1>1. PICK K \in SUBSET Key : f \in [K -> Value]
  BY DEF Maps
<1>2. PICK M \in SUBSET Key : g \in [M -> Value]
  BY DEF Maps
<1>3. K = M
  BY <1>1, <1>2 DEF SameAt
<1>. QED  BY <1>1, <1>2, <1>3 DEF SameAt

\* Whatever crashes there were between the two files of a snapshot, the KV data of
\* a node that has caught up with the ledger is what the ledger makes.
THEOREM DataIsReplayedAlways == Spec => []DataIsReplayed
<1>1. TypeInv /\ StoresCatchUp => DataIsReplayed
  <2> SUFFICES ASSUME TypeInv, StoresCatchUp, NEW i \in Node, lastApplied[i] = Len(ledger)
               PROVE  world[i].data = Replay(ledger, lastApplied[i]).data
    BY DEF DataIsReplayed, Replayed
  <2> DEFINE n == lastApplied[i]
  <2>1. world[i] \in Worlds /\ Replay(ledger, n) \in Worlds /\ n \in Nat
    BY ReplayTyped DEF TypeInv, Typed, Bounded
  <2>2. \A k : ~WrittenAfter(ledger, n, k)
    BY <2>1 DEF WrittenAfter
  <2>3. \A k \in Key : SameAt(world[i].data, Replay(ledger, n).data, k)
    BY <2>2 DEF StoresCatchUp, CatchesUp
  <2>4. world[i].data \in Maps(Key, Value) /\ Replay(ledger, n).data \in Maps(Key, Value)
    BY <2>1 DEF Worlds
  <2>. QED  BY <2>3, <2>4, SameEverywhere
<1>. QED  BY <1>1, AlwaysTyped, AlwaysCatchesUp, PTL

-----------------------------------------------------------------------------
(* What a step does to one request. *)

\* Nothing, and if its handler has still to read the store then no crash takes it.
Waits(r) ==
  /\ request'[r] = request[r]
  /\ request[r].pc = "executed" /\ request[r].node \in Node
       => lastApplied[request[r].node] <= lastApplied'[request[r].node]

IsSubmitted(r) ==
  /\ request[r].pc = "new" /\ request'[r].pc = "proposed"
  /\ request'[r].index = request[r].index /\ request'[r].response = request[r].response

IsCommitted(r) ==
  /\ request[r].index = 0 /\ request'[r] = [request[r] EXCEPT !.index = Len(ledger) + 1]
  /\ ledger' = Append(ledger, [request |-> r, command |-> request[r].command])
  /\ lastApplied' = lastApplied

IsExecuted(r) ==
  LET i == request[r].node IN
  /\ i \in Node /\ r # None
  /\ lastApplied[i] < Len(ledger) /\ ledger[lastApplied[i] + 1].request = r
  /\ lastApplied'[i] = lastApplied[i] + 1 /\ ledger' = ledger
  /\ request[r].pc = "proposed" /\ request'[r].pc = "executed"
  /\ request'[r].node = i /\ request'[r].index = request[r].index
  /\ request'[r].response = request[r].response /\ request'[r].command = request[r].command

IsAnswered(r) ==
  /\ request'[r].pc = "answered" /\ request'[r].response # "none"
  /\ request'[r].index = request[r].index /\ request'[r].command = request[r].command
  /\ request'[r].response = "success" =>
       /\ request[r].pc = "executed" /\ ledger' = ledger
       /\ request[r].command.form = "TASK"
            => HasStatus(world[request[r].node].tasks, request[r].command)

LEMMA RequestEffects ==
  ASSUME TypeInv, [Next]_vars, NEW r \in Request
  PROVE  \/ Waits(r) \/ IsSubmitted(r) \/ IsCommitted(r) \/ IsExecuted(r) \/ IsAnswered(r)
<1>0. /\ request \in [Request -> RequestStates] /\ request[r] \in RequestStates
      /\ lastApplied \in [Node -> Nat]
  BY DEF TypeInv, Typed
<1>1. ASSUME NEW q \in Request, NEW i \in Node, NEW command \in Commands,
             Submit(q, i, command)
      PROVE  Waits(r) \/ IsSubmitted(r)
  <2>1. lastApplied' = lastApplied
    BY <1>1 DEF Submit, nodeVars
  <2>2. CASE q = r
    <3>1. PICK s \in RequestStates : s = request[r]
      BY <1>0
    <3>2. request' = [request EXCEPT ![r] =
                        [s EXCEPT !.pc = "proposed", !.node = i, !.command = command]]
      BY <1>1, <2>2, <3>1 DEF Submit
    <3>3. request'[r] = [s EXCEPT !.pc = "proposed", !.node = i, !.command = command]
      BY <1>0, <3>2
    <3>4. /\ request'[r].pc = "proposed" /\ request'[r].index = s.index
          /\ request'[r].response = s.response
      BY <3>3 DEF RequestStates
    <3>5. request[r].pc = "new"
      BY <1>1, <2>2 DEF Submit
    <3>. QED  BY <3>1, <3>4, <3>5 DEF IsSubmitted
  <2>3. CASE q # r
    <3>1. request'[r] = request[r]
      BY <1>0, <1>1, <2>3 DEF Submit
    <3>. QED  BY <1>0, <2>1, <3>1 DEF Waits
  <2>. QED  BY <2>2, <2>3
<1>2. ASSUME NEW q \in Request, Commit(q)
      PROVE  Waits(r) \/ IsCommitted(r)
  <2>1. lastApplied' = lastApplied
    BY <1>2 DEF Commit, nodeVars
  <2>2. CASE q = r
    <3>1. Len(ledger') = Len(ledger) + 1
      BY <1>2 DEF Commit, TypeInv, Typed
    <3>2. request'[r] = [request[r] EXCEPT !.index = Len(ledger')]
      BY <1>0, <1>2, <2>2 DEF Commit
    <3>. QED  BY <1>2, <2>1, <2>2, <3>1, <3>2 DEF Commit, IsCommitted
  <2>3. CASE q # r
    <3>1. request'[r] = request[r]
      BY <1>0, <1>2, <2>3 DEF Commit
    <3>. QED  BY <1>0, <2>1, <3>1 DEF Waits
  <2>. QED  BY <2>2, <2>3
<1>3. ASSUME NEW q \in Request, Timeout(q) \/ Finish(q)
      PROVE  Waits(r) \/ IsAnswered(r)
  <2>1. lastApplied' = lastApplied /\ ledger' = ledger
    BY <1>3 DEF Timeout, Finish, nodeVars
  <2>2. PICK response : /\ Answer(q, response) /\ response # "none"
                        /\ response = "success" =>
                             /\ request[q].pc = "executed"
                             /\ request[q].command.form = "TASK"
                                  => HasStatus(world[request[q].node].tasks, request[q].command)
    BY <1>3 DEF Timeout, Finish
  <2>3. CASE q = r
    <3>1. PICK s \in RequestStates : s = request[r]
      BY <1>0
    <3>2. request' = [request EXCEPT ![r] =
                        [s EXCEPT !.pc = "answered", !.response = response]]
      BY <2>2, <2>3, <3>1 DEF Answer
    <3>3. request'[r] = [s EXCEPT !.pc = "answered", !.response = response]
      BY <1>0, <3>2
    <3>4. /\ request'[r].pc = "answered" /\ request'[r].response = response
          /\ request'[r].index = s.index /\ request'[r].command = s.command
      BY <3>3 DEF RequestStates
    <3>. QED  BY <2>1, <2>2, <2>3, <3>1, <3>4 DEF IsAnswered
  <2>4. CASE q # r
    <3>1. request'[r] = request[r]
      BY <1>0, <2>2, <2>4 DEF Answer
    <3>. QED  BY <1>0, <2>1, <3>1 DEF Waits
  <2>. QED  BY <2>3, <2>4
<1>4. ASSUME NEW i \in Node, ApplyNext(i)
      PROVE  Waits(r) \/ IsExecuted(r)
  <2> DEFINE entry == ledger[lastApplied[i] + 1]
             q == entry.request
  <2>1. /\ lastApplied[i] < Len(ledger)
        /\ lastApplied' = [lastApplied EXCEPT ![i] = lastApplied[i] + 1]
        /\ ledger' = ledger
    BY <1>4 DEF ApplyNext
  <2>2. \A j \in Node : lastApplied[j] <= lastApplied'[j]
    BY <1>0, <2>1
  <2>3. CASE q # None /\ request[q].node = i /\ request[q].pc = "proposed"
    <3>1. CASE q = r
      <4>1. PICK s \in RequestStates : s = request[r]
        BY <1>0
      <4>2. PICK result :
              request' = [request EXCEPT ![r] = [s EXCEPT !.pc = "executed", !.result = result]]
        BY <1>4, <2>3, <3>1, <4>1 DEF ApplyNext
      <4>3. request'[r] = [s EXCEPT !.pc = "executed", !.result = result]
        BY <1>0, <4>2
      <4>4. /\ request'[r].pc = "executed" /\ request'[r].node = s.node
            /\ request'[r].index = s.index /\ request'[r].command = s.command
            /\ request'[r].response = s.response
        BY <4>3 DEF RequestStates
      <4>5. lastApplied'[i] = lastApplied[i] + 1
        BY <1>0, <2>1
      <4>. QED  BY <2>1, <2>3, <3>1, <4>1, <4>4, <4>5 DEF IsExecuted
    <3>2. CASE q # r
      <4>1. request'[r] = request[r]
        BY <1>0, <1>4, <2>3, <3>2 DEF ApplyNext
      <4>. QED  BY <2>2, <4>1 DEF Waits
    <3>. QED  BY <3>1, <3>2
  <2>4. CASE ~(q # None /\ request[q].node = i /\ request[q].pc = "proposed")
    <3>1. request' = request
      BY <1>4, <2>4 DEF ApplyNext
    <3>. QED  BY <2>2, <3>1 DEF Waits
  <2>. QED  BY <2>3, <2>4
<1>5. ASSUME NEW i \in Node, TakeSnapshot(i)
      PROVE  Waits(r)
  BY <1>0, <1>5 DEF TakeSnapshot, Waits
<1>6. ASSUME NEW i \in Node, Crash(i) \/ CrashInSnapshot(i)
      PROVE  Waits(r) \/ IsAnswered(r)
  <2>1. Reboot(i)
    BY <1>6 DEF Crash, CrashInSnapshot
  <2>2. lastApplied' = [lastApplied EXCEPT ![i] = snapshotIndex[i]]
    BY <2>1 DEF Reboot
  <2>3. PICK s \in RequestStates : s = request[r]
    BY <1>0
  <2>4. CASE s.node = i /\ s.pc \in {"proposed", "executed"}
    <3>1. request'[r] = [s EXCEPT !.pc = "answered", !.response = "failed"]
      BY <2>1, <2>3, <2>4 DEF Reboot
    <3>2. /\ request'[r].pc = "answered" /\ request'[r].response = "failed"
          /\ request'[r].index = s.index /\ request'[r].command = s.command
      BY <3>1 DEF RequestStates
    <3>. QED  BY <2>3, <3>2 DEF IsAnswered
  <2>5. CASE ~(s.node = i /\ s.pc \in {"proposed", "executed"})
    <3>1. request'[r] = request[r]
      BY <2>1, <2>3, <2>5 DEF Reboot
    <3>. QED  BY <1>0, <2>2, <2>3, <2>5, <3>1 DEF Waits
  <2>. QED  BY <2>4, <2>5
<1>7. CASE Tick \/ UNCHANGED vars
  BY <1>0, <1>7 DEF Tick, vars, nodeVars, Waits
<1>. QED  BY <1>1, <1>2, <1>3, <1>4, <1>5, <1>6, <1>7 DEF Next, RequestStep, NodeStep

-----------------------------------------------------------------------------
(* Success was true. *)

\* The ledger has the command of a request once, where the request says.
CommittedOnce ==
  \A n \in 1..Len(ledger) : \A r \in Request :
    ledger[n].request = r /\ r # None => request[r].index = n

\* A node whose handler goes on has executed the handler's command.
ExecutedIsCommitted ==
  \A r \in Request :
    request[r].pc = "executed" =>
      /\ request[r].node \in Node
      /\ request[r].index > 0
      /\ request[r].index <= lastApplied[request[r].node]

NewIsUnanswered ==
  \A r \in Request : request[r].pc = "new" => request[r].response = "none"

SuccessIsCommitted ==
  \A r \in Request : request[r].response = "success" => request[r].index > 0

RequestInv ==
  CommittedOnce /\ ExecutedIsCommitted /\ NewIsUnanswered /\ SuccessIsCommitted

LEMMA StepRequests ==
  ASSUME TypeInv, RequestInv, [Next]_vars
  PROVE  RequestInv'
<1>1. /\ Len(ledger) \in Nat /\ lastApplied \in [Node -> Nat]
      /\ \A r \in Request : request[r].index \in Nat
      /\ \A i \in Node : lastApplied[i] <= Len(ledger)
  BY DEF TypeInv, Typed, Bounded, RequestStates
<1>2. /\ Len(ledger') \in Nat /\ lastApplied' \in [Node -> Nat]
      /\ \A r \in Request : request'[r].index \in Nat
  <2>1. TypeInv'
    BY StepTyped, StutterTyped
  <2>. QED  BY <2>1 DEF TypeInv, Typed, RequestStates
<1>3. \A r \in Request :
        request'[r].index # request[r].index => IsCommitted(r) /\ request'[r].index > 0
  <2> TAKE r \in Request
  <2>1. CASE IsCommitted(r)
    <3>1. request'[r].index = Len(ledger) + 1
      BY <2>1 DEF IsCommitted, TypeInv, Typed, RequestStates
    <3>. QED  BY <1>1, <2>1, <3>1
  <2>2. CASE Waits(r) \/ IsSubmitted(r) \/ IsExecuted(r) \/ IsAnswered(r)
    BY <2>2 DEF Waits, IsSubmitted, IsExecuted, IsAnswered
  <2>. QED  BY <2>1, <2>2, RequestEffects
<1>4. CommittedOnce'
  <2> SUFFICES ASSUME NEW n \in 1..Len(ledger'), NEW r \in Request,
                      ledger'[n].request = r, r # None
               PROVE  request'[r].index = n
    BY DEF CommittedOnce
  <2>1. CASE n <= Len(ledger)
    <3>1. n \in 1..Len(ledger) /\ ledger'[n] = ledger[n]
      BY <1>1, <2>1, LedgerGrows
    <3>2. request[r].index = n
      BY <3>1 DEF RequestInv, CommittedOnce
    <3>3. ~IsCommitted(r)
      BY <3>1, <3>2 DEF IsCommitted
    <3>. QED  BY <1>3, <3>2, <3>3
  <2>2. CASE n > Len(ledger)
    <3>1. PICK q \in Request : Commit(q)
      <4>1. ledger' # ledger
        BY <1>1, <1>2, <2>2
      <4>. QED  BY <4>1 DEF Next, RequestStep, NodeStep, Submit, Timeout, Finish, ApplyNext,
                            TakeSnapshot, Crash, CrashInSnapshot, Reboot, Tick, vars
    <3>2. /\ ledger' = Append(ledger, [request |-> q, command |-> request[q].command])
          /\ request' = [request EXCEPT ![q].index = Len(ledger')]
      BY <3>1 DEF Commit
    <3>3. n = Len(ledger) + 1 /\ Len(ledger') = n /\ ledger'[n].request = q
      BY <1>1, <2>2, <3>2 DEF TypeInv, Typed
    <3>4. q = r
      BY <3>3
    <3>. QED  BY <3>2, <3>3, <3>4 DEF TypeInv, Typed, RequestStates
  <2>. QED  BY <1>1, <1>2, <2>1, <2>2
<1>5. ExecutedIsCommitted'
  <2> SUFFICES ASSUME NEW r \in Request, request'[r].pc = "executed"
               PROVE  /\ request'[r].node \in Node /\ request'[r].index > 0
                      /\ request'[r].index <= lastApplied'[request'[r].node]
    BY DEF ExecutedIsCommitted
  <2>1. CASE Waits(r)
    <3>1. request'[r] = request[r]
      BY <2>1 DEF Waits
    <3>2. /\ request[r].node \in Node /\ request[r].index > 0
          /\ request[r].index <= lastApplied[request[r].node]
      BY <3>1 DEF RequestInv, ExecutedIsCommitted
    <3>3. lastApplied[request[r].node] <= lastApplied'[request[r].node]
      BY <2>1, <3>1, <3>2 DEF Waits
    <3>. QED  BY <1>1, <1>2, <3>1, <3>2, <3>3
  <2>2. CASE IsCommitted(r)
    <3>1. request[r].index = 0 /\ request'[r].pc = request[r].pc
      BY <2>2 DEF IsCommitted, TypeInv, Typed, RequestStates
    <3>. QED  BY <3>1 DEF RequestInv, ExecutedIsCommitted
  <2>3. CASE IsExecuted(r)
    <3> DEFINE i == request[r].node
               n == lastApplied[i] + 1
    <3>1. /\ i \in Node /\ r # None /\ lastApplied[i] < Len(ledger)
          /\ ledger[n].request = r /\ lastApplied'[i] = n
          /\ request'[r].node = i /\ request'[r].index = request[r].index
      BY <2>3 DEF IsExecuted
    <3>2. n \in 1..Len(ledger)
      BY <1>1, <3>1
    <3>3. request[r].index = n
      BY <3>1, <3>2 DEF RequestInv, CommittedOnce
    <3>. QED  BY <3>1, <3>2, <3>3
  <2>4. CASE IsSubmitted(r) \/ IsAnswered(r)
    BY <2>4 DEF IsSubmitted, IsAnswered
  <2>. QED  BY <2>1, <2>2, <2>3, <2>4, RequestEffects
<1>6. NewIsUnanswered'
  <2> SUFFICES ASSUME NEW r \in Request, request'[r].pc = "new"
               PROVE  request'[r].response = "none"
    BY DEF NewIsUnanswered
  <2>1. CASE Waits(r)
    BY <2>1 DEF Waits, RequestInv, NewIsUnanswered
  <2>2. CASE IsCommitted(r)
    <3>1. request'[r].pc = request[r].pc /\ request'[r].response = request[r].response
      BY <2>2 DEF IsCommitted, TypeInv, Typed, RequestStates
    <3>. QED  BY <3>1 DEF RequestInv, NewIsUnanswered
  <2>3. CASE IsSubmitted(r) \/ IsExecuted(r) \/ IsAnswered(r)
    BY <2>3 DEF IsSubmitted, IsExecuted, IsAnswered
  <2>. QED  BY <2>1, <2>2, <2>3, RequestEffects
<1>7. SuccessIsCommitted'
  <2> SUFFICES ASSUME NEW r \in Request, request'[r].response = "success"
               PROVE  request'[r].index > 0
    BY DEF SuccessIsCommitted
  <2>1. CASE request[r].index > 0
    BY <1>3, <2>1
  <2>2. CASE ~(request[r].index > 0)
    <3>1. request[r].response # "success" /\ request[r].pc # "executed"
      BY <2>2 DEF RequestInv, SuccessIsCommitted, ExecutedIsCommitted
    <3>2. request'[r].index # request[r].index
      <4>1. ~Waits(r) /\ ~IsSubmitted(r) /\ ~IsExecuted(r) /\ ~IsAnswered(r)
        BY <3>1 DEF Waits, IsSubmitted, IsExecuted, IsAnswered
      <4>2. IsCommitted(r)
        BY <4>1, RequestEffects
      <4>3. request'[r].index = Len(ledger) + 1 /\ request[r].index = 0
        BY <4>2 DEF IsCommitted, TypeInv, Typed, RequestStates
      <4>. QED  BY <1>1, <4>3
    <3>. QED  BY <1>3, <3>2
  <2>. QED  BY <2>1, <2>2
<1>. QED  BY <1>4, <1>5, <1>6, <1>7 DEF RequestInv

LEMMA AlwaysRequests == Spec => []RequestInv
<1>1. Init => RequestInv
  <2> SUFFICES ASSUME Init PROVE RequestInv
    OBVIOUS
  <2>1. \A r \in Request : request[r].pc = "new" /\ request[r].response = "none"
    BY DEF Init, NewRequest
  <2>2. \A n \in 1..Len(ledger) : ledger[n].request = None
    BY DEF Init, OldLogs
  <2>. QED  BY <2>1, <2>2 DEF RequestInv, CommittedOnce, ExecutedIsCommitted, NewIsUnanswered,
                              SuccessIsCommitted
<1>2. TypeInv /\ RequestInv /\ [Next]_vars => RequestInv'
  BY StepRequests
<1>. QED  BY <1>1, <1>2, AlwaysTyped, PTL DEF Spec

\* The task had the status that its client was told it has, at a point of the
\* ledger where the command was executed.
SuccessHeld ==
  cuts = 0 =>
    \A r \in Request :
      request[r].response = "success" /\ request[r].command.form = "TASK" =>
        \E n \in request[r].index..Len(ledger) :
          HasStatus(Replay(ledger, n).tasks, request[r].command)

LEMMA SameStatus ==
  ASSUME NEW w, NEW v, Untimed(w) = Untimed(v), NEW tx
  PROVE  HasStatus(w.tasks, tx) <=> HasStatus(v.tasks, tx)
<1>1. Statuses(w) = Statuses(v)
  BY DEF Untimed
<1>2. /\ DOMAIN Statuses(w) = DOMAIN w.tasks /\ DOMAIN Statuses(v) = DOMAIN v.tasks
      /\ \A t \in DOMAIN w.tasks : Statuses(w)[t] = w.tasks[t].status
      /\ \A t \in DOMAIN v.tasks : Statuses(v)[t] = v.tasks[t].status
  BY DEF Statuses
<1>. QED  BY <1>1, <1>2 DEF HasStatus

LEMMA StepHeld ==
  ASSUME TypeInv, StoresAreReplayed, RequestInv, SuccessHeld, [Next]_vars
  PROVE  SuccessHeld'
<1> SUFFICES ASSUME cuts' = 0, NEW r \in Request, request'[r].response = "success",
                    request'[r].command.form = "TASK"
             PROVE  \E n \in request'[r].index..Len(ledger') :
                      HasStatus(Replay(ledger', n).tasks, request'[r].command)
  BY DEF SuccessHeld
<1>1. cuts = 0
  BY CutsGrow
<1>2. /\ Len(ledger) \in Nat /\ Len(ledger') \in Nat /\ Len(ledger) <= Len(ledger')
      /\ \A n \in 0..Len(ledger) : Replay(ledger', n) = Replay(ledger, n)
      /\ request[r] \in RequestStates /\ request[r].index \in Nat
  <2>1. TypeInv'
    BY StepTyped, StutterTyped
  <2>. QED  BY <2>1, LedgerGrows DEF TypeInv, Typed, RequestStates
<1>3. ASSUME request[r].response = "success", request'[r].index = request[r].index,
             request'[r].command = request[r].command
      PROVE  \E n \in request'[r].index..Len(ledger') :
               HasStatus(Replay(ledger', n).tasks, request'[r].command)
  <2>1. PICK n \in request[r].index..Len(ledger) :
               HasStatus(Replay(ledger, n).tasks, request[r].command)
    BY <1>1, <1>3 DEF SuccessHeld
  <2>2. n \in 0..Len(ledger) /\ n \in request'[r].index..Len(ledger')
    BY <1>2, <1>3, <2>1
  <2>. QED  BY <1>2, <1>3, <2>1, <2>2
<1>4. CASE Waits(r) \/ IsExecuted(r)
  BY <1>3, <1>4 DEF Waits, IsExecuted
<1>5. CASE IsSubmitted(r)
  BY <1>5 DEF IsSubmitted, RequestInv, NewIsUnanswered
<1>6. CASE IsCommitted(r)
  <2>1. request'[r].response = request[r].response
    BY <1>2, <1>6 DEF IsCommitted, RequestStates
  <2>. QED  BY <1>6, <2>1 DEF IsCommitted, RequestInv, SuccessIsCommitted
<1>7. CASE IsAnswered(r)
  <2> DEFINE i == request[r].node
             n == lastApplied[i]
             tx == request[r].command
  <2>1. /\ request[r].pc = "executed" /\ ledger' = ledger
        /\ request'[r].index = request[r].index /\ request'[r].command = tx
        /\ HasStatus(world[i].tasks, tx)
    BY <1>7 DEF IsAnswered
  <2>2. i \in Node /\ request[r].index <= n
    BY <2>1 DEF RequestInv, ExecutedIsCommitted
  <2>3. n \in Nat /\ n <= Len(ledger)
    BY <2>2 DEF TypeInv, Typed, Bounded
  <2>4. Untimed(world[i]) = Untimed(Replay(ledger, n))
    BY <1>1, <2>2 DEF StoresAreReplayed, Replayed
  <2>5. HasStatus(Replay(ledger, n).tasks, tx)
    BY <2>1, <2>4, SameStatus
  <2> HIDE DEF i, n, tx
  <2>6. n \in request'[r].index..Len(ledger')
    BY <1>2, <2>1, <2>2, <2>3
  <2>. QED  BY <2>1, <2>5, <2>6
<1>. QED  BY <1>4, <1>5, <1>6, <1>7, RequestEffects

LEMMA AlwaysHeld == Spec => []SuccessHeld
<1>1. Init => SuccessHeld
  BY DEF Init, NewRequest, SuccessHeld
<1>2. TypeInv /\ StoresAreReplayed /\ RequestInv /\ SuccessHeld /\ [Next]_vars => SuccessHeld'
  BY StepHeld
<1>. QED  BY <1>1, <1>2, AlwaysTyped, AlwaysReplayed, AlwaysRequests, PTL DEF Spec

\* A client that is told of success asked for a command that is committed, and its
\* task had the status when or after the command was executed, although the answer
\* comes from the store of one node, some time later; as long as no crash came
\* between the two files of a snapshot.
THEOREM SuccessIsTrue == Spec => [](cuts = 0 => SuccessWasTrue)
<1>1. TypeInv /\ RequestInv /\ SuccessHeld => (cuts = 0 => SuccessWasTrue)
  <2> SUFFICES ASSUME TypeInv, RequestInv, SuccessHeld, cuts = 0, NEW r \in Request,
                      request[r].response = "success"
               PROVE  /\ request[r].index > 0
                      /\ request[r].command.form = "TASK" =>
                           \E n \in request[r].index..Len(ledger) :
                             Statuses(Replayed(n))[request[r].command.taskID]
                               = request[r].command.status
    BY DEF SuccessWasTrue
  <2>1. request[r].index > 0
    BY DEF RequestInv, SuccessIsCommitted
  <2>2. ASSUME request[r].command.form = "TASK"
        PROVE  \E n \in request[r].index..Len(ledger) :
                 Statuses(Replayed(n))[request[r].command.taskID] = request[r].command.status
    <3>1. PICK n \in request[r].index..Len(ledger) :
                 HasStatus(Replay(ledger, n).tasks, request[r].command)
      BY <2>2 DEF SuccessHeld
    <3>2. Statuses(Replayed(n))[request[r].command.taskID] = request[r].command.status
      BY <3>1 DEF HasStatus, Statuses, Replayed
    <3>. QED  BY <3>2
  <2>. QED  BY <2>1, <2>2
<1>. QED  BY <1>1, AlwaysTyped, AlwaysRequests, AlwaysHeld, PTL

-----------------------------------------------------------------------------
(* A task ends once. *)

LEMMA EndedStays ==
  ASSUME NEW L \in Seq(Entries), NEW n \in Nat, NEW m \in Nat, n <= m, m <= Len(L),
         NEW tx, HasStatus(Replay(L, n).tasks, tx), tx.status \in terminalStatuses
  PROVE  HasStatus(Replay(L, m).tasks, tx)
<1> DEFINE S == {d \in Nat : n + d <= m => HasStatus(Replay(L, n + d).tasks, tx)}
<1>1. 0 \in S
  <2>1. n + 0 = n
    OBVIOUS
  <2>. QED  BY <2>1
<1>2. ASSUME NEW d \in Nat, d \in S
      PROVE  d + 1 \in S
  <2> SUFFICES ASSUME n + (d + 1) <= m
               PROVE  HasStatus(Replay(L, n + (d + 1)).tasks, tx)
    OBVIOUS
  <2> DEFINE q == n + d
             w == Replay(L, q)
             command == L[q + 1].command
  <2>1. q \in Nat /\ q + 1 <= Len(L) /\ n + (d + 1) = q + 1
    OBVIOUS
  <2>2. HasStatus(w.tasks, tx)
    BY <1>2
  <2>3. w \in Worlds /\ command \in LogCommands
    BY <2>1, ReplayTyped, ReplayData
  <2>4. Replay(L, q + 1) = Apply(w, command, 0).world
    BY <2>1, ReplayStep
  <2> HIDE DEF q, w, command
  <2>5. Apply(w, command, 0).world
          = [data |-> DataAfter(w.data, command), tasks |-> TasksAfter(w.tasks, command, 0)]
    BY <2>3, ApplyParts
  <2>6. HasStatus(TasksAfter(w.tasks, command, 0), tx)
    <3>1. CASE command.form = "TASK" /\ Allowed(w.tasks, command)
      <4>1. command.taskID # tx.taskID
        BY <2>2, <3>1 DEF HasStatus, Allowed, ValidTransition
      <4>. QED  BY <2>2, <3>1, <4>1 DEF HasStatus, TasksAfter, Put
    <3>2. CASE ~(command.form = "TASK" /\ Allowed(w.tasks, command))
      BY <2>2, <3>2 DEF TasksAfter
    <3>. QED  BY <3>1, <3>2
  <2>. QED  BY <2>1, <2>4, <2>5, <2>6
<1> HIDE DEF S
<1>5. Nat \subseteq S
  BY <1>1, <1>2, NatSetInduction
<1>3. m - n \in S
  BY <1>5
<1>4. n + (m - n) = m
  OBVIOUS
<1>. QED  BY <1>3, <1>4 DEF S

\* Clients that are told that they have ended a task agree on how it ended, as long
\* as no crash came between the two files of a snapshot.
THEOREM TasksEndOnce == Spec => [](cuts = 0 => OneOutcome)
<1>1. TypeInv /\ SuccessHeld => (cuts = 0 => OneOutcome)
  <2> SUFFICES ASSUME TypeInv, SuccessHeld, cuts = 0, NEW r \in Request, NEW s \in Request,
                      request[r].response = "success", request[s].response = "success",
                      request[r].command.form = "TASK", request[s].command.form = "TASK",
                      request[r].command.taskID = request[s].command.taskID,
                      request[r].command.status \in terminalStatuses,
                      request[s].command.status \in terminalStatuses
               PROVE  request[r].command.status = request[s].command.status
    BY DEF OneOutcome
  <2> DEFINE tx == request[r].command
             ty == request[s].command
  <2>1. PICK n \in request[r].index..Len(ledger) : HasStatus(Replay(ledger, n).tasks, tx)
    BY DEF SuccessHeld
  <2>2. PICK m \in request[s].index..Len(ledger) : HasStatus(Replay(ledger, m).tasks, ty)
    BY DEF SuccessHeld
  <2>3. /\ ledger \in Seq(Entries) /\ Len(ledger) \in Nat
        /\ request[r].index \in Nat /\ request[s].index \in Nat
    BY DEF TypeInv, Typed, RequestStates
  <2> DEFINE z == Len(ledger)
  <2>4. HasStatus(Replay(ledger, z).tasks, tx)
    BY <2>1, <2>3, EndedStays
  <2>5. HasStatus(Replay(ledger, z).tasks, ty)
    BY <2>2, <2>3, EndedStays
  <2>. QED  BY <2>4, <2>5 DEF HasStatus
<1>. QED  BY <1>1, AlwaysTyped, AlwaysHeld, PTL

-----------------------------------------------------------------------------
(* The log underneath is a replicated log. *)

\* A request knows where its command is in the ledger, if it is; only commands that
\* were submitted are; a node has executed at least what its state file says.
LogInv ==
  /\ \A r \in Request :
       /\ request[r].index > 0 => ledger[request[r].index].request = r
       /\ request[r].pc = "new" => request[r].command = None
       /\ request[r].pc = "executed" => r # None
       /\ request[r].pc \in {"proposed", "executed"} => request[r].response = "none"
       /\ request[r].pc = "answered" => request[r].response # "none"
  /\ \A i \in Node : snapshotIndex[i] <= lastApplied[i]

LEMMA StepLog ==
  ASSUME TypeInv, RequestInv, LogInv, [Next]_vars
  PROVE  LogInv'
<1>1. /\ Len(ledger) \in Nat /\ lastApplied \in [Node -> Nat] /\ snapshotIndex \in [Node -> Nat]
      /\ ledger \in Seq(Entries)
      /\ \A r \in Request : /\ request[r].index \in Nat /\ request[r].index <= Len(ledger)
                             /\ request[r] \in RequestStates
  BY DEF TypeInv, Typed, Bounded, RequestStates
<1>2. \A n \in 1..Len(ledger) : ledger'[n] = ledger[n]
  BY LedgerGrows
<1>3. ASSUME NEW r \in Request
      PROVE  /\ request'[r].index > 0 => ledger'[request'[r].index].request = r
             /\ request'[r].pc = "executed" => r # None
  <2>1. CASE IsCommitted(r)
    <3>1. /\ request'[r].index = Len(ledger) + 1 /\ request'[r].pc = request[r].pc
          /\ ledger' = Append(ledger, [request |-> r, command |-> request[r].command])
      BY <1>1, <2>1 DEF IsCommitted, RequestStates
    <3>2. ledger'[Len(ledger) + 1] = [request |-> r, command |-> request[r].command]
      BY <1>1, <3>1
    <3>. QED  BY <3>1, <3>2 DEF LogInv
  <2>2. CASE ~IsCommitted(r)
    <3>1. request'[r].index = request[r].index
      BY <2>2, RequestEffects DEF Waits, IsSubmitted, IsExecuted, IsAnswered
    <3>2. request'[r].pc = "executed" => r # None
      BY <2>2, RequestEffects DEF Waits, IsSubmitted, IsExecuted, IsAnswered, LogInv
    <3>3. request[r].index > 0 => request[r].index \in 1..Len(ledger)
      BY <1>1
    <3>. QED  BY <1>2, <3>1, <3>2, <3>3 DEF LogInv
  <2>. QED  BY <2>1, <2>2
<1>4. ASSUME NEW r \in Request
      PROVE  /\ request'[r].pc = "new" => request'[r].command = None
             /\ request'[r].pc \in {"proposed", "executed"} => request'[r].response = "none"
             /\ request'[r].pc = "answered" => request'[r].response # "none"
  <2>1. CASE Waits(r)
    BY <2>1 DEF Waits, LogInv
  <2>2. CASE IsSubmitted(r)
    BY <2>2 DEF IsSubmitted, RequestInv, NewIsUnanswered
  <2>3. CASE IsCommitted(r)
    <3>1. /\ request'[r].pc = request[r].pc /\ request'[r].command = request[r].command
          /\ request'[r].response = request[r].response
      BY <1>1, <2>3 DEF IsCommitted, RequestStates
    <3>. QED  BY <3>1 DEF LogInv
  <2>4. CASE IsExecuted(r)
    BY <2>4 DEF IsExecuted, LogInv
  <2>5. CASE IsAnswered(r)
    BY <2>5 DEF IsAnswered
  <2>. QED  BY <2>1, <2>2, <2>3, <2>4, <2>5, RequestEffects
<1>5. ASSUME NEW i \in Node
      PROVE  snapshotIndex'[i] <= lastApplied'[i]
  <2>1. /\ snapshotIndex[i] <= lastApplied[i]
        /\ snapshotIndex[i] \in Nat /\ lastApplied[i] \in Nat
    BY <1>1 DEF LogInv
  <2>. QED  BY <2>1, NodeEffects DEF Executes, Snapshots, Restarts, Rests
<1>. QED  BY <1>3, <1>4, <1>5 DEF LogInv

LEMMA AlwaysLog == Spec => []LogInv
<1>1. Init => LogInv
  BY DEF Init, NewRequest, LogInv
<1>2. TypeInv /\ RequestInv /\ LogInv /\ [Next]_vars => LogInv'
  BY StepLog
<1>. QED  BY <1>1, <1>2, AlwaysTyped, AlwaysRequests, PTL DEF Spec

\* What the handlers are told is what the abstract proposals are told.
Told == [r \in Request |-> ToldTo(r)]

ExecutedBy == [i \in Node |-> CommandsIn(Requests, None, lastApplied[i])]

LEMMA InitOfLog == Init => Log!Init
<1> SUFFICES ASSUME Init PROVE Log!Init
  OBVIOUS
<1>1. Requests \in Seq({None})
  <2>1. \A n \in DOMAIN ledger : ledger[n].request = None
    BY DEF Init, OldLogs
  <2>2. ledger = << >> \/ DOMAIN ledger = 1..1
    BY DEF Init, OldLogs
  <2>3. CASE ledger = << >>
    <3>1. Requests = << >>
      BY <2>3 DEF Requests
    <3>. QED  BY <3>1
  <2>4. CASE DOMAIN ledger = 1..1
    <3>1. Requests \in [1..1 -> {None}]
      BY <2>1, <2>4 DEF Requests
    <3>. QED  BY <3>1, SeqDef
  <2>. QED  BY <2>2, <2>3, <2>4
<1>2. lastApplied \in [Node -> 0..Len(Requests)]
  <2>1. Len(Requests) \in Nat
    BY <1>1
  <2>. QED  BY <2>1 DEF Init
<1>3. ExecutedBy = [i \in Node |-> << >>]
  BY CommandsNone DEF Init, ExecutedBy
<1>4. Told = [r \in Request |-> [status |-> "idle", node |-> None]]
  BY DEF Init, NewRequest, Told, ToldTo
<1>. QED  BY <1>1, <1>2, <1>3, <1>4 DEF Log!Init, ExecutedBy, Told

\* What the handler of a request in state s has been told.
StatusOf(s) ==
  CASE s.pc = "new" -> "idle"
    [] s.pc \in {"proposed", "executed"} -> "waiting"
    [] s.response = "failed" -> "failed"
    [] OTHER -> "done"

Tells(s) == [status |-> StatusOf(s), node |-> s.node]

LEMMA ToldIs ==
  /\ Told = [r \in Request |-> Tells(request[r])]
  /\ Told' = [r \in Request |-> Tells(request'[r])]
<1>1. ASSUME NEW r
      PROVE  ToldTo(r) = Tells(request[r]) /\ ToldTo(r)' = Tells(request'[r])
  <2> DEFINE q == request[r]
             s == request'[r]
  <2>1. ToldTo(r) = [status |-> StatusOf(q), node |-> q.node]
    BY DEF ToldTo, StatusOf
  <2>2. ToldTo(r)' = [status |-> StatusOf(s), node |-> s.node]
    BY DEF ToldTo, StatusOf
  <2>. QED  BY <2>1, <2>2 DEF Tells
<1>. QED  BY <1>1 DEF Told

LEMMA WhatItTells ==
  ASSUME NEW s
  PROVE  /\ s.pc = "new" /\ s.response = "none"
              => Tells(s) = [status |-> "idle", node |-> s.node]
         /\ s.pc \in {"proposed", "executed"} /\ s.response = "none"
              => Tells(s) = [status |-> "waiting", node |-> s.node]
         /\ s.pc = "answered" /\ s.response = "failed"
              => Tells(s) = [status |-> "failed", node |-> s.node]
         /\ s.pc = "answered" /\ s.response # "failed"
              => Tells(s) = [status |-> "done", node |-> s.node]
<1>1. /\ s.pc = "new" /\ s.response = "none" => StatusOf(s) = "idle"
      /\ s.pc \in {"proposed", "executed"} /\ s.response = "none" => StatusOf(s) = "waiting"
  BY DEF StatusOf
<1>2. /\ s.pc = "answered" /\ s.response = "failed" => StatusOf(s) = "failed"
      /\ s.pc = "answered" /\ s.response # "failed" => StatusOf(s) = "done"
  BY DEF StatusOf
<1>. QED  BY <1>1, <1>2 DEF Tells

LEMMA OneIsTold ==
  ASSUME NEW r \in Request, NEW s, request \in [Request -> RequestStates],
         request' = [request EXCEPT ![r] = s]
  PROVE  Told' = [Told EXCEPT ![r] = Tells(s)]
<1>1. \A q \in Request : request'[q] = IF q = r THEN s ELSE request[q]
  OBVIOUS
<1>. QED  BY <1>1, ToldIs

RequestsIn(L) == [n \in DOMAIN L |-> L[n].request]

LEMMA RequestsAre == Requests = RequestsIn(ledger) /\ Requests' = RequestsIn(ledger')
  BY DEF Requests, RequestsIn

LEMMA RequestsTyped ==
  ASSUME NEW L \in Seq(Entries)
  PROVE  /\ RequestsIn(L) \in Seq(Request \union {None})
         /\ Len(RequestsIn(L)) = Len(L) /\ DOMAIN RequestsIn(L) = 1..Len(L)
         /\ \A n \in 1..Len(L) : RequestsIn(L)[n] = L[n].request
<1>1. Len(L) \in Nat /\ DOMAIN L = 1..Len(L)
  OBVIOUS
<1>2. \A n \in 1..Len(L) : L[n].request \in Request \union {None}
  <2> TAKE n \in 1..Len(L)
  <2>1. L[n] \in Entries
    BY <1>1
  <2>. QED  BY <2>1 DEF Entries
<1>3. RequestsIn(L) \in [1..Len(L) -> Request \union {None}]
  BY <1>1, <1>2 DEF RequestsIn
<1>4. RequestsIn(L) \in Seq(Request \union {None})
  BY <1>1, <1>3, SeqDef
<1>5. Len(RequestsIn(L)) = Len(L)
  BY <1>1, <1>3, <1>4
<1>. QED  BY <1>1, <1>3, <1>4, <1>5 DEF RequestsIn

LEMMA SubmitIsPropose ==
  ASSUME TypeInv, RequestInv, NEW r \in Request, NEW i \in Node, NEW command \in Commands,
         Submit(r, i, command)
  PROVE  Log!Propose(i, r)
<1>1. request \in [Request -> RequestStates]
  BY DEF TypeInv, Typed
<1>2. PICK q \in RequestStates : q = request[r]
  BY <1>1
<1> DEFINE s == [q EXCEPT !.pc = "proposed", !.node = i, !.command = command]
<1>3. s.pc = "proposed" /\ s.node = i /\ s.response = "none"
  <2>1. q.pc = "new" /\ q.response = "none"
    BY <1>2 DEF Submit, RequestInv, NewIsUnanswered
  <2>. QED  BY <2>1 DEF RequestStates
<1>4. request' = [request EXCEPT ![r] = s]
  BY <1>2 DEF Submit
<1> HIDE DEF s
<1>5. Told' = [Told EXCEPT ![r] = [status |-> "waiting", node |-> i]]
  BY <1>1, <1>3, <1>4, OneIsTold, WhatItTells
<1>6. Told[r].status = "idle"
  <2>1. request[r].pc = "new" /\ request[r].response = "none"
    BY DEF Submit, RequestInv, NewIsUnanswered
  <2>. QED  BY <2>1, ToldIs, WhatItTells
<1>7. Requests' = Requests /\ lastApplied' = lastApplied /\ ExecutedBy' = ExecutedBy
  BY DEF Submit, nodeVars, Requests, ExecutedBy
<1>. QED  BY <1>5, <1>6, <1>7 DEF Log!Propose, Told, ExecutedBy

LEMMA CommitIsDecide ==
  ASSUME TypeInv, RequestInv, LogInv, NEW r \in Request, Commit(r)
  PROVE  Log!Decide
<1> DEFINE n == Len(ledger) + 1
<1>1. /\ request \in [Request -> RequestStates] /\ ledger \in Seq(Entries)
      /\ lastApplied \in [Node -> Nat] /\ \A i \in Node : lastApplied[i] <= Len(ledger)
  BY DEF TypeInv, Typed, Bounded
<1>2. /\ Len(ledger') = n /\ DOMAIN ledger' = 1..n /\ n \in Nat \ {0} /\ Len(ledger) \in Nat
      /\ ledger'[n] = [request |-> r, command |-> request[r].command]
      /\ \A m \in 1..Len(ledger) : ledger'[m] = ledger[m]
  BY <1>1 DEF Commit
<1>3. /\ Requests' \in Seq(Request \union {None}) /\ Len(Requests') = n
      /\ DOMAIN Requests' = 1..n /\ Requests'[n] = r
      /\ \A m \in 1..Len(ledger) : Requests'[m] = ledger[m].request
  <2>1. TypeInv'
    BY StepTyped DEF Next, RequestStep
  <2>2. /\ Requests' \in Seq(Request \union {None}) /\ Len(Requests') = Len(ledger')
        /\ DOMAIN Requests' = 1..Len(ledger')
        /\ \A m \in 1..Len(ledger') : Requests'[m] = ledger'[m].request
    BY <2>1, RequestsTyped, RequestsAre DEF TypeInv, Typed
  <2>. QED  BY <1>2, <2>2
<1>4. /\ Requests \in Seq(Request \union {None}) /\ Len(Requests) = Len(ledger)
      /\ DOMAIN Requests = 1..Len(ledger)
      /\ \A m \in 1..Len(ledger) : Requests[m] = ledger[m].request
  BY <1>1, RequestsTyped, RequestsAre
<1> HIDE DEF n
<1>5. Log!IsStrictPrefix(Requests, Requests')
  <2>1. Len(Requests) <= Len(Requests') /\ Requests # Requests'
    BY <1>2, <1>3, <1>4 DEF n
  <2>2. SubSeq(Requests, 1, Len(Requests)) = SubSeq(Requests', 1, Len(Requests))
    <3>1. \A m \in 1..Len(Requests) : Requests[m] = Requests'[m]
      BY <1>3, <1>4
    <3>2. Len(Requests) \in Nat /\ Len(Requests) <= Len(Requests')
      BY <1>2, <1>4, <2>1
    <3>. QED  BY <1>3, <1>4, <3>1, <3>2
  <2>. QED  BY <2>1, <2>2 DEF Log!IsStrictPrefix, Log!IsPrefix
<1>6. Told' = Told /\ (r # None => Told[r].status # "idle")
  <2>1. PICK q \in RequestStates : q = request[r]
    BY <1>1
  <2> DEFINE s == [q EXCEPT !.index = Len(ledger')]
  <2>2. request' = [request EXCEPT ![r] = s]
    BY <2>1 DEF Commit
  <2>3. s.pc = q.pc /\ s.response = q.response /\ s.node = q.node
    BY DEF RequestStates
  <2> HIDE DEF s
  <2>4. Tells(s) = Tells(q)
    BY <2>3 DEF Tells, StatusOf
  <2>5. Told' = [Told EXCEPT ![r] = Tells(s)]
    BY <1>1, <2>2, OneIsTold
  <2>6. Told[r] = Tells(q)
    BY <2>1, ToldIs
  <2>7. Told' = Told
    BY <2>4, <2>5, <2>6, ToldIs
  <2>8. /\ q.pc # "new" /\ q.pc \in {"new", "proposed", "executed", "answered"}
        /\ q.pc \in {"proposed", "executed"} => q.response = "none"
    BY <2>1 DEF Commit, LogInv, RequestStates
  <2>9. Tells(q).status # "idle"
    BY <2>8, WhatItTells
  <2>. QED  BY <2>6, <2>7, <2>9
<1>7. \A m \in 1..(n - 1) : r # None => Requests'[m] # Requests'[n]
  <2> SUFFICES ASSUME NEW m \in 1..(n - 1), r # None, Requests'[m] = r
               PROVE  FALSE
    BY <1>3
  <2>1. m \in 1..Len(ledger) /\ m # 0
    BY <1>2 DEF n
  <2>2. ledger[m].request = r
    BY <1>3, <2>1
  <2>3. request[r].index = m
    BY <2>1, <2>2 DEF RequestInv, CommittedOnce
  <2>. QED  BY <2>1, <2>3 DEF Commit
<1>8. lastApplied' = lastApplied
  BY DEF Commit, nodeVars
<1>9. ExecutedBy' = ExecutedBy
  <2>1. ASSUME NEW i \in Node
        PROVE  CommandsIn(Requests', None, lastApplied[i]) = CommandsIn(Requests, None, lastApplied[i])
    <3>1. \A m \in 1..lastApplied[i] : Requests'[m] = Requests[m]
      BY <1>1, <1>2, <1>3, <1>4
    <3>2. lastApplied[i] \in Nat
      BY <1>1
    <3>. QED  BY <3>1, <3>2, CommandsSame
  <2>. QED  BY <1>8, <2>1 DEF ExecutedBy
<1>10. ASSUME NEW m \in DOMAIN Requests' \ DOMAIN Requests
       PROVE  m = n
  BY <1>2, <1>3, <1>4 DEF n
<1>11. \A m \in DOMAIN Requests' \ DOMAIN Requests :
         \/ Requests'[m] = None
         \/ /\ Requests'[m] \in Request
            /\ Told[Requests'[m]].status # "idle"
            /\ \A k \in 1..(m - 1) : Requests'[k] # Requests'[m]
  BY <1>3, <1>6, <1>7, <1>10
<1>. QED  BY <1>5, <1>6, <1>8, <1>9, <1>11 DEF Log!Decide, Told, ExecutedBy

LEMMA AnswerIsTold ==
  ASSUME TypeInv, LogInv, NEW r \in Request, NEW response, Answer(r, response),
         request[r].pc \in {"proposed", "executed"}
  PROVE  LET i == request[r].node
             status == IF response = "failed" THEN "failed" ELSE "done"
         IN  /\ Told[r] = [status |-> "waiting", node |-> i]
             /\ Told' = [Told EXCEPT ![r].status = status]
<1> DEFINE i == request[r].node
           status == IF response = "failed" THEN "failed" ELSE "done"
<1>1. request \in [Request -> RequestStates]
  BY DEF TypeInv, Typed
<1>2. PICK q \in RequestStates : q = request[r]
  BY <1>1
<1> DEFINE s == [q EXCEPT !.pc = "answered", !.response = response]
<1>3. s.pc = "answered" /\ s.response = response /\ s.node = i
  BY <1>2 DEF RequestStates
<1>4. request' = [request EXCEPT ![r] = s]
  BY <1>2 DEF Answer
<1> HIDE DEF s
<1>5. Told[r] = [status |-> "waiting", node |-> i]
  <2>1. request[r].response = "none"
    BY DEF LogInv
  <2>. QED  BY <2>1, ToldIs, WhatItTells
<1>6. Tells(s) = [status |-> status, node |-> i]
  BY <1>3, WhatItTells
<1>7. Told' = [Told EXCEPT ![r] = [status |-> status, node |-> i]]
  BY <1>1, <1>4, <1>6, OneIsTold
<1>8. Told' = [Told EXCEPT ![r].status = status]
  <2> HIDE DEF i, status
  <2>1. [Told[r] EXCEPT !.status = status] = [status |-> status, node |-> i]
    BY <1>5
  <2>. QED  BY <1>7, <2>1
<1>. QED  BY <1>5, <1>8

LEMMA TimeoutIsFail ==
  ASSUME TypeInv, LogInv, NEW r \in Request, Timeout(r)
  PROVE  Log!Fail(r)
<1>1. /\ Told[r] = [status |-> "waiting", node |-> request[r].node]
      /\ Told' = [Told EXCEPT ![r].status = "failed"]
  BY AnswerIsTold DEF Timeout
<1>2. Requests' = Requests /\ lastApplied' = lastApplied /\ ExecutedBy' = ExecutedBy
  BY DEF Timeout, nodeVars, Requests, ExecutedBy
<1>. QED  BY <1>1, <1>2 DEF Log!Fail, Told, ExecutedBy

LEMMA FinishIsSucceed ==
  ASSUME TypeInv, RequestInv, LogInv, NEW r \in Request, Finish(r)
  PROVE  Log!Succeed(r)
<1> DEFINE i == request[r].node
           n == lastApplied[i]
<1>1. PICK response \in {"rejected", "success"} : Answer(r, response)
  BY DEF Finish
<1>2. request[r].pc = "executed"
  BY DEF Finish
<1>3. /\ Told[r] = [status |-> "waiting", node |-> i]
      /\ Told' = [Told EXCEPT ![r].status = "done"]
  BY <1>1, <1>2, AnswerIsTold
<1>4. /\ i \in Node /\ request[r].index > 0 /\ request[r].index <= n
      /\ r # None /\ ledger[request[r].index].request = r
  BY <1>2 DEF RequestInv, ExecutedIsCommitted, LogInv
<1>5. n \in Nat /\ request[r].index \in Nat /\ n <= Len(ledger) /\ ledger \in Seq(Entries)
  BY <1>4 DEF TypeInv, Typed, Bounded, RequestStates
<1> HIDE DEF i, n
<1>6. request[r].index \in 1..n /\ request[r].index \in 1..Len(ledger)
  BY <1>4, <1>5
<1>7. Requests[request[r].index] = r
  BY <1>4, <1>5, <1>6, RequestsTyped, RequestsAre
<1>8. r \in Log!ToSet(CommandsIn(Requests, None, n))
  BY <1>4, <1>5, <1>6, <1>7, CommandsContain DEF Log!ToSet
<1>9. r \in Log!ToSet(ExecutedBy[Told[r].node])
  BY <1>3, <1>4, <1>8 DEF ExecutedBy, n
<1>10. Requests' = Requests /\ lastApplied' = lastApplied /\ ExecutedBy' = ExecutedBy
  BY DEF Finish, nodeVars, Requests, ExecutedBy
<1>. QED  BY <1>3, <1>9, <1>10 DEF Log!Succeed, Told, ExecutedBy

LEMMA ApplyIsExecute ==
  ASSUME TypeInv, LogInv, NEW i \in Node, ApplyNext(i)
  PROVE  Log!Execute(i)
<1> DEFINE n == lastApplied[i] + 1
           r == ledger[n].request
<1>1. /\ request \in [Request -> RequestStates] /\ ledger \in Seq(Entries)
      /\ lastApplied \in [Node -> Nat] /\ lastApplied[i] < Len(ledger)
  BY DEF TypeInv, Typed, ApplyNext
<1>2. n \in 1..Len(ledger) /\ ledger[n] \in Entries
  BY <1>1
<1>3. Requests' = Requests /\ Len(Requests) = Len(ledger) /\ Requests[n] = r
  <2>1. Requests' = Requests
    BY DEF ApplyNext, Requests
  <2>. QED  BY <1>1, <1>2, <2>1, RequestsTyped, RequestsAre
<1>4. lastApplied' = [lastApplied EXCEPT ![i] = n] /\ lastApplied'[i] = n
  BY <1>1 DEF ApplyNext
<1>5. lastApplied' = [lastApplied EXCEPT ![i] = @ + 1]
  BY <1>4
<1> HIDE DEF n
<1>6. ExecutedBy' = [ExecutedBy EXCEPT ![i] =
        IF Requests[lastApplied'[i]] = None THEN @ ELSE Append(@, Requests[lastApplied'[i]])]
  <2>1. CommandsIn(Requests, None, n)
          = IF Requests[n] = None THEN CommandsIn(Requests, None, lastApplied[i])
            ELSE Append(CommandsIn(Requests, None, lastApplied[i]), Requests[n])
    BY <1>1, CommandsStep DEF n
  <2>2. ExecutedBy' = [j \in Node |-> CommandsIn(Requests, None, lastApplied'[j])]
    BY <1>3 DEF ExecutedBy
  <2>3. \A j \in Node : lastApplied'[j] = IF j = i THEN n ELSE lastApplied[j]
    BY <1>1, <1>4
  <2>4. ExecutedBy' = [ExecutedBy EXCEPT ![i] = CommandsIn(Requests, None, n)]
    BY <2>2, <2>3 DEF ExecutedBy
  <2>5. ExecutedBy[i] = CommandsIn(Requests, None, lastApplied[i])
    BY DEF ExecutedBy
  <2>. QED  BY <1>4, <2>1, <2>4, <2>5
<1>7. Told' = Told
  <2>1. CASE r # None /\ request[r].node = i /\ request[r].pc = "proposed"
    <3>1. r \in Request
      BY <1>2, <2>1 DEF Entries
    <3>2. PICK q \in RequestStates : q = request[r]
      BY <1>1, <3>1
    <3> DEFINE result == Apply(world[i], ledger[n].command, clock).result
               s == [q EXCEPT !.pc = "executed", !.result = result]
    <3>3. request' = [request EXCEPT ![r] = s]
      BY <2>1, <3>2 DEF ApplyNext, n
    <3>4. s.pc = "executed" /\ s.response = q.response /\ s.node = q.node
      BY DEF RequestStates
    <3> HIDE DEF s
    <3>5. q.pc = "proposed" /\ q.response = "none"
      BY <2>1, <3>1, <3>2 DEF LogInv
    <3>6. Tells(s) = Tells(q)
      BY <3>4, <3>5, WhatItTells
    <3>7. Told' = [Told EXCEPT ![r] = Tells(s)]
      BY <1>1, <3>1, <3>3, OneIsTold
    <3>8. Told[r] = Tells(q)
      BY <3>1, <3>2, ToldIs
    <3>. QED  BY <3>6, <3>7, <3>8, ToldIs
  <2>2. CASE ~(r # None /\ request[r].node = i /\ request[r].pc = "proposed")
    <3>1. request' = request
      BY <2>2 DEF ApplyNext, n
    <3>. QED  BY <3>1, ToldIs
  <2>. QED  BY <2>1, <2>2
<1>. QED  BY <1>1, <1>3, <1>5, <1>6, <1>7 DEF Log!Execute, Told, ExecutedBy

LEMMA RebootIsRestart ==
  ASSUME TypeInv, RequestInv, LogInv, NEW i \in Node, Reboot(i)
  PROVE  Log!Restart(i)
<1> DEFINE n == snapshotIndex[i]
<1>1. /\ request \in [Request -> RequestStates] /\ lastApplied \in [Node -> Nat]
      /\ n \in 0..lastApplied[i]
  BY DEF TypeInv, Typed, LogInv
<1>2. lastApplied' = [lastApplied EXCEPT ![i] = n] /\ Requests' = Requests
  BY DEF Reboot, Requests
<1>3. ExecutedBy' = [ExecutedBy EXCEPT ![i] = CommandsIn(Requests, None, n)]
  <2>1. ExecutedBy' = [j \in Node |-> CommandsIn(Requests, None, lastApplied'[j])]
    BY <1>2 DEF ExecutedBy
  <2>2. \A j \in Node : lastApplied'[j] = IF j = i THEN n ELSE lastApplied[j]
    BY <1>1, <1>2
  <2>. QED  BY <2>1, <2>2 DEF ExecutedBy
<1>4. Told' = [r \in Request |-> IF Told[r] = [status |-> "waiting", node |-> i]
                                 THEN [status |-> "failed", node |-> i] ELSE Told[r]]
  <2>1. ASSUME NEW r \in Request
        PROVE  Tells(request'[r]) = IF Tells(request[r]) = [status |-> "waiting", node |-> i]
                                    THEN [status |-> "failed", node |-> i]
                                    ELSE Tells(request[r])
    <3>1. PICK q \in RequestStates : q = request[r]
      BY <1>1
    <3>2. CASE q.node = i /\ q.pc \in {"proposed", "executed"}
      <4> DEFINE s == [q EXCEPT !.pc = "answered", !.response = "failed"]
      <4>1. request'[r] = s
        BY <3>1, <3>2 DEF Reboot
      <4>2. s.pc = "answered" /\ s.response = "failed" /\ s.node = i
        BY <3>2 DEF RequestStates
      <4> HIDE DEF s
      <4>3. Tells(s) = [status |-> "failed", node |-> i]
        BY <4>2, WhatItTells
      <4>4. q.response = "none"
        BY <3>1, <3>2 DEF LogInv
      <4>5. Tells(q) = [status |-> "waiting", node |-> i]
        BY <3>2, <4>4, WhatItTells
      <4>. QED  BY <3>1, <4>1, <4>3, <4>5
    <3>3. CASE ~(q.node = i /\ q.pc \in {"proposed", "executed"})
      <4>1. request'[r] = q
        BY <3>1, <3>3 DEF Reboot
      <4>2. Tells(q) # [status |-> "waiting", node |-> i]
        <5>1. CASE q.node # i
          BY <5>1 DEF Tells
        <5>2. CASE q.pc \in {"new", "answered"}
          <6>1. q.pc = "new" => q.response = "none"
            BY <3>1 DEF RequestInv, NewIsUnanswered
          <6>. QED  BY <5>2, <6>1, WhatItTells
        <5>. QED  BY <3>3, <5>1, <5>2 DEF RequestStates
      <4>. QED  BY <3>1, <4>1, <4>2
    <3>. QED  BY <3>2, <3>3
  <2>2. \A r \in Request : Told[r] = Tells(request[r])
    BY ToldIs
  <2>. QED  BY <2>1, <2>2, ToldIs
<1>5. Log!CommandsIn(Requests, None, n) = CommandsIn(Requests, None, n)
  BY DEF Log!CommandsIn, CommandsIn
<1>. QED  BY <1>1, <1>2, <1>3, <1>4, <1>5 DEF Log!Restart, Told, ExecutedBy

LEMMA StepOfLog ==
  ASSUME TypeInv, RequestInv, LogInv, [Next]_vars
  PROVE  [Log!Next]_(Log!vars)
<1>1. ASSUME NEW r \in Request,
             (\E i \in Node, command \in Commands : Submit(r, i, command))
               \/ Commit(r) \/ Timeout(r) \/ Finish(r)
      PROVE  Log!Next
  BY <1>1, SubmitIsPropose, CommitIsDecide, TimeoutIsFail, FinishIsSucceed DEF Log!Next
<1>2. ASSUME NEW i \in Node, ApplyNext(i) \/ Crash(i) \/ CrashInSnapshot(i)
      PROVE  Log!Next
  BY <1>2, ApplyIsExecute, RebootIsRestart DEF Crash, CrashInSnapshot, Log!Next
<1>3. CASE (\E i \in Node : TakeSnapshot(i)) \/ Tick \/ UNCHANGED vars
  <2>1. ledger' = ledger /\ lastApplied' = lastApplied /\ request' = request
    BY <1>3 DEF TakeSnapshot, Tick, vars, nodeVars
  <2>2. Requests' = Requests /\ ExecutedBy' = ExecutedBy /\ Told' = Told
    BY <2>1, ToldIs DEF Requests, ExecutedBy
  <2>. QED  BY <2>1, <2>2 DEF Log!vars, Told, ExecutedBy
<1>. QED  BY <1>1, <1>2, <1>3 DEF Next, RequestStep, NodeStep

\* The service keeps to what consensus promises, and needs no more of it: each of its
\* steps is a step of ReplicatedLog or leaves the log alone, crashes and cut snapshots
\* included.
THEOREM ServiceUsesReplicatedLog == Spec => UsesReplicatedLog
<1>1. TypeInv /\ RequestInv /\ LogInv /\ [Next]_vars => [Log!Next]_(Log!vars)
  BY StepOfLog
<1>. QED  BY <1>1, InitOfLog, AlwaysTyped, AlwaysRequests, AlwaysLog, PTL
          DEF Spec, UsesReplicatedLog, Log!Spec
=============================================================================
