--------------------------- MODULE StorageProofs ---------------------------
(***************************************************************************)
(* Proofs about module Storage: StorageInv is inductive, and with it what  *)
(* the files hold is whole, complete, and has what was answered, for any   *)
(* number of changes, entries, failing saves and crashes.                  *)
(***************************************************************************)
EXTENDS Storage, TLAPS

\* A node without files satisfies the invariant (raft.go:17-42).
LEMMA InitStorage == Init => StorageInv
  <1> SUFFICES ASSUME Init PROVE StorageInv
    OBVIOUS
  <1> USE DEF Init, Files, Missing, Nothing, NoState, NoSnapshot
  <1>1. TypeOK
    <2>1. NoState \in States /\ NoSnapshot \in Snapshots
      BY DEF States, Snapshots
    <2>2. \A f \in Files : Missing(f) \in Contents
      BY <2>1 DEF Contents
    <2> QED
      BY <2>1, <2>2 DEF TypeOK
  <1>2. FilesAreWhole /\ NothingIsLost /\ AnswersAreOnDisk /\ MachineIsRestored
    BY DEF FilesAreWhole, NothingIsLost, AnswersAreOnDisk, MachineIsRestored
  <1>3. MemoryIsAhead /\ SaveIsSound
    BY DEF MemoryIsAhead, SaveIsSound, SavesSnapshot
  <1> QED
    BY <1>1, <1>2, <1>3 DEF StorageInv

\* No step of a save, of the apply loop or of a restart breaks it
\* (file_storage.go:40-130, raft.go:44-74, 761-766, 798-848).
LEMMA StepStorage == StorageInv /\ [Next]_vars => StorageInv'
  <1> SUFFICES ASSUME StorageInv, [Next]_vars PROVE StorageInv'
    OBVIOUS
  <1> USE DEF StorageInv, TypeOK, FilesAreWhole, NothingIsLost, AnswersAreOnDisk,
          MachineIsRestored, MemoryIsAhead, SaveIsSound, SavesSnapshot, States,
          Snapshots, Contents, Files
  <1>1. CASE ChangeState
    BY <1>1 DEF ChangeState, fileVars, history, bounds, ToSave
  <1>2. CASE Answer
    BY <1>2 DEF Answer, Saved, memoryVars, fileVars, bounds
  <1>3. CASE ApplyEntry
    BY <1>3 DEF ApplyEntry, fileVars, saveVars, history, bounds, ToSave
  <1>4. CASE BeginSnapshot
    BY <1>4 DEF BeginSnapshot, memoryVars, fileVars, history, bounds
  <1>5. CASE Open
    BY <1>5 DEF Open, OpenTemporary, Torn, Nothing, NoState, NoSnapshot, memoryVars,
       history, bounds
  <1>6. CASE Fill
    BY <1>6 DEF Fill, ToSave, Whole, memoryVars, history, bounds
  <1>7. CASE Rename
    BY <1>7 DEF Rename, Compact, ToSave, Whole, Missing, Nothing, NoState, NoSnapshot,
       history, bounds
  <1>8. CASE SaveFails
    <2>1. CASE target = "snapshot"
      BY <1>8, <2>1 DEF SaveFails, AfterFailure, fileVars
    <2>2. CASE target = "state"
      BY <1>8, <2>2 DEF SaveFails, AfterFailure, fileVars
    <2> QED
      BY <2>1, <2>2
  <1>9. CASE Crash
    BY <1>9 DEF Crash, NewRaftNode, history
  <1>10. CASE UNCHANGED vars
    BY <1>10 DEF vars, memoryVars, fileVars, saveVars, history, bounds, ToSave
  <1> QED
    BY <1>1, <1>2, <1>3, <1>4, <1>5, <1>6, <1>7, <1>8, <1>9, <1>10 DEF Next

\* The files stay whole, complete and true to the answers, and the memory is never
\* behind them, for any bounds (file_storage.go:40-106, raft.go:761-766, 798-848).
THEOREM StorageInvariant == Spec => []StorageInv
  BY InitStorage, StepStorage, PTL DEF Spec

\* No crash between the truncation of a temporary file and its rename, and no failed
\* write, leaves a file half written (file_storage.go:50-55, 92-97).
THEOREM FilesStayWhole == Spec => []FilesAreWhole
  <1>1. StorageInv => FilesAreWhole
    BY DEF StorageInv
  <1> QED
    BY <1>1, StorageInvariant, PTL

\* Whatever the log on disk has given up is in the snapshot on disk, although the two
\* files are written one after the other and either write may fail (raft.go:822-848).
THEOREM NothingGetsLost == Spec => []NothingIsLost
  <1>1. StorageInv => NothingIsLost
    BY DEF StorageInv
  <1> QED
    BY <1>1, StorageInvariant, PTL

\* Until a save of the state fails, what the node has answered is on its disk
\* (raft.go:290, 391, 761-766).
THEOREM AnswersStayOnDisk == Spec => []AnswersAreOnDisk
  <1>1. StorageInv => AnswersAreOnDisk
    BY DEF StorageInv
  <1> QED
    BY <1>1, StorageInvariant, PTL
=============================================================================
