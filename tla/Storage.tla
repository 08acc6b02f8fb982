------------------------------ MODULE Storage ------------------------------
(***************************************************************************)
(* The two files of one node: FileStorage of src/storage, the saves of     *)
(* src/raft/raft.go that use it, and NewRaftNode, which reads them again.  *)
(* Module Raft takes a save for one step that never fails; here a save is  *)
(* a temporary file that is opened, filled and renamed, any of which may   *)
(* fail or be the last thing the node does.                                *)
(*                                                                         *)
(* Of the persistent state only its age is kept, the number of changes it  *)
(* has seen, and how far its log is compacted; of the state machine how    *)
(* many entries it has executed.  rn.mu is held from the change of the     *)
(* memory to the end of the save, so that nothing but a crash comes        *)
(* between the steps of a save.                                            *)
(*                                                                         *)
(* A definition introduced by "Mutant:" is a plausible bug of the one that *)
(* follows it, against which the properties are tried; nothing uses it.    *)
(***************************************************************************)
EXTENDS Integers

CONSTANTS
  MaxVersion,   \* bound: this many changes of the persistent state
  MaxIndex,     \* bound: no entry beyond this index
  MaxFailures,  \* bound: this many saves that fail
  MaxCrashes    \* bound: this many crashes

ASSUME StorageBounds ==
  MaxVersion \in Nat /\ MaxIndex \in Nat /\ MaxFailures \in Nat /\ MaxCrashes \in Nat

VARIABLES
  memory,       \* rn.persistent: its version, and SnapshotIndex
  lastApplied,  \* volatile.LastApplied
  machine,      \* how many entries the state machine has executed
  file,         \* raft_state.json and snapshot.json
  tmp,          \* the temporary file of each
  phase,        \* where the holder of rn.mu stands, "idle" if nobody holds it
  target,       \* the file it saves
  captured,     \* the snapshot that it saves: its index and its data
  answered,     \* history: the version when the last answer was given
  unsaved,      \* history: whether a save of the state has failed
  failures,     \* how many saves have failed
  crashes       \* how many crashes there were

memoryVars == <<memory, lastApplied, machine>>
fileVars   == <<file, tmp>>
saveVars   == <<phase, target, captured>>
history    == <<answered, unsaved>>
bounds     == <<failures, crashes>>
vars       == <<memoryVars, fileVars, saveVars, history, bounds>>

Files == {"state", "snapshot"}

\* What NewRaftNode takes for the content of a file that is missing or unreadable.
NoState    == [version |-> 0, snapshotIndex |-> 0]
NoSnapshot == [index |-> 0, data |-> 0]
Nothing == [state |-> NoState, snapshot |-> NoSnapshot]

Missing(f) == [status |-> "missing", content |-> Nothing[f]]
Torn(f)    == [status |-> "torn", content |-> Nothing[f]]
Whole(c)   == [status |-> "whole", content |-> c]

-----------------------------------------------------------------------------
(* What the node does with its memory. *)

\* A handler changes term, vote or log and goes on to save them; it may do so more
\* than once before it answers.
ChangeState ==
  /\ phase \in {"idle", "saved"}
  /\ memory.version < MaxVersion
  /\ memory' = [memory EXCEPT !.version = @ + 1]
  /\ phase' = "open"
  /\ target' = "state"
  /\ UNCHANGED <<lastApplied, machine, fileVars, captured, history, bounds>>

\* Mutant: the answer does not wait for the save.
NearlySaved == phase \in {"rename", "saved"}

Saved == phase = "saved"

\* The lock is released, and the caller has its answer.
Answer ==
  /\ Saved
  /\ phase' = "idle"
  /\ answered' = memory.version
  /\ UNCHANGED <<memoryVars, fileVars, target, captured, unsaved, bounds>>

\* The apply loop.  An entry that is in the restored data already is executed again.
ApplyEntry ==
  /\ phase = "idle"
  /\ lastApplied < MaxIndex
  /\ lastApplied' = lastApplied + 1
  /\ machine' = IF machine < lastApplied' THEN lastApplied' ELSE machine
  /\ UNCHANGED <<memory, fileVars, saveVars, history, bounds>>

\* maybeSnapshot up to SaveSnapshot.
BeginSnapshot ==
  /\ phase = "idle"
  /\ lastApplied > memory.snapshotIndex
  /\ memory.version < MaxVersion
  /\ captured' = [index |-> lastApplied, data |-> machine]
  /\ phase' = "open"
  /\ target' = "snapshot"
  /\ UNCHANGED <<memoryVars, fileVars, history, bounds>>

-----------------------------------------------------------------------------
(* SaveState and SaveSnapshot. *)

\* Mutant: the file itself is opened.
OpenInPlace == file' = [file EXCEPT ![target] = Torn(target)] /\ UNCHANGED tmp

\* os.WriteFile creates or truncates the temporary file, a left-over too.
OpenTemporary == tmp' = [tmp EXCEPT ![target] = Torn(target)] /\ UNCHANGED file

Open ==
  /\ phase = "open"
  /\ OpenTemporary
  /\ phase' = "fill"
  /\ UNCHANGED <<memoryVars, target, captured, history, bounds>>

ToSave == IF target = "state" THEN memory ELSE captured

Fill ==
  /\ phase = "fill"
  /\ tmp' = [tmp EXCEPT ![target] = Whole(ToSave)]
  /\ phase' = "rename"
  /\ UNCHANGED <<memoryVars, file, target, captured, history, bounds>>

\* maybeSnapshot after SaveSnapshot: the log is compacted, and that is saved.
Compact ==
  /\ memory' = [version |-> memory.version + 1, snapshotIndex |-> captured.index]
  /\ phase' = "open"
  /\ target' = "state"

Rename ==
  /\ phase = "rename"
  /\ file' = [file EXCEPT ![target] = tmp[target]]
  /\ tmp' = [tmp EXCEPT ![target] = Missing(target)]
  /\ IF target = "snapshot" THEN Compact
                            ELSE phase' = "saved" /\ UNCHANGED <<memory, target>>
  /\ UNCHANGED <<lastApplied, machine, captured, history, bounds>>

\* Mutant: a snapshot that could not be saved is logged and forgotten as well.
GoOnAnyway ==
  IF target = "snapshot" THEN Compact /\ UNCHANGED unsaved
  ELSE phase' = "saved" /\ unsaved' = TRUE /\ UNCHANGED <<memory, target>>

\* What a failed save leads to: maybeSnapshot gives up, saveState logs it.
AfterFailure ==
  IF target = "snapshot"
  THEN phase' = "idle" /\ UNCHANGED <<memory, target, unsaved>>
  ELSE phase' = "saved" /\ unsaved' = TRUE /\ UNCHANGED <<memory, target>>

\* Opening, writing or renaming the temporary file fails.
SaveFails ==
  /\ phase \in {"open", "fill", "rename"}
  /\ failures < MaxFailures
  /\ failures' = failures + 1
  /\ AfterFailure
  /\ UNCHANGED <<lastApplied, machine, fileVars, captured, answered, crashes>>

-----------------------------------------------------------------------------
(* Crashes and NewRaftNode. *)

\* The node starts from what it finds in the files; state and snapshot are what
\* LoadState and LoadSnapshot make of them.
NewRaftNode(state, snapshot) ==
  /\ crashes < MaxCrashes
  /\ crashes' = crashes + 1
  /\ memory' = state
  /\ lastApplied' = state.snapshotIndex
  /\ machine' = snapshot.data
  /\ phase' = "idle"
  /\ UNCHANGED <<tmp, target, captured, history>>

\* The process ends wherever it is, and is started again.
Crash ==
  /\ NewRaftNode(file["state"].content, file["snapshot"].content)
  /\ UNCHANGED <<file, failures>>

-----------------------------------------------------------------------------

Init ==
  /\ memory = NoState
  /\ lastApplied = 0
  /\ machine = 0
  /\ file = [f \in Files |-> Missing(f)]
  /\ tmp = [f \in Files |-> Missing(f)]
  /\ phase = "idle"
  /\ target = "state"
  /\ captured = NoSnapshot
  /\ answered = 0
  /\ unsaved = FALSE
  /\ failures = 0
  /\ crashes = 0

Next ==
  \/ ChangeState
  \/ Answer
  \/ ApplyEntry
  \/ BeginSnapshot
  \/ Open
  \/ Fill
  \/ Rename
  \/ SaveFails
  \/ Crash

Spec == Init /\ [][Next]_vars

-----------------------------------------------------------------------------

\* No crash and no failed write leaves a file half written (file_storage.go:50-55).
FilesAreWhole == \A f \in Files : file[f].status # "torn"

\* The entries that the log on disk has no longer are in the snapshot on disk, in
\* whatever order writes fail and the node crashes (raft.go:822-848).
NothingIsLost ==
  file["state"].content.snapshotIndex <= file["snapshot"].content.data

\* As long as no save of the state has failed, whatever the node has told another
\* node or a client is on its disk (raft.go:290, 391).
AnswersAreOnDisk == ~unsaved => answered <= file["state"].content.version

\* The state machine holds the entries that are not going to be executed again
\* (raft.go:46-47, 65-66).
MachineIsRestored == lastApplied <= machine

-----------------------------------------------------------------------------
(* Why FilesAreWhole, NothingIsLost and AnswersAreOnDisk are inductive. *)

States    == [version : Nat, snapshotIndex : Nat]
Snapshots == [index : Nat, data : Nat]
Contents  == [status : {"missing", "torn", "whole"}, content : States \union Snapshots]

TypeOK ==
  /\ memory \in States /\ captured \in Snapshots
  /\ lastApplied \in Nat /\ machine \in Nat
  /\ file \in [Files -> Contents] /\ tmp \in [Files -> Contents]
  /\ file["state"].content \in States /\ file["snapshot"].content \in Snapshots
  /\ phase \in {"idle", "open", "fill", "rename", "saved"}
  /\ target \in Files
  /\ answered \in Nat /\ unsaved \in BOOLEAN
  /\ failures \in Nat /\ crashes \in Nat

SavesSnapshot == phase \in {"open", "fill", "rename"} /\ target = "snapshot"

\* The memory is never behind the state file, and is the file between two saves.
MemoryIsAhead ==
  /\ file["state"].content.snapshotIndex <= memory.snapshotIndex
  /\ memory.snapshotIndex <= file["snapshot"].content.data
  /\ memory.snapshotIndex <= lastApplied
  /\ ~unsaved => answered <= memory.version
  /\ ~unsaved /\ (phase \in {"idle", "saved"} \/ SavesSnapshot) =>
       file["state"].content = memory

\* A save has the right content before the rename; a snapshot covers its index, and
\* that lies beyond the last one.
SaveIsSound ==
  /\ phase = "rename" => tmp[target] = Whole(ToSave)
  /\ SavesSnapshot => /\ memory.snapshotIndex <= captured.index
                      /\ captured.index <= captured.data
                      /\ captured.index <= lastApplied
  /\ phase = "saved" => target = "state"

\* The inductive invariant: with it every step keeps the files whole and complete
\* (file_storage.go:40-106, raft.go:44-74, 761-766, 798-848).
StorageInv ==
  /\ TypeOK
  /\ FilesAreWhole /\ NothingIsLost /\ AnswersAreOnDisk /\ MachineIsRestored
  /\ MemoryIsAhead
  /\ SaveIsSound
=============================================================================
