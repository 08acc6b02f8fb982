------------------------- MODULE RaftSnapshotProofs -------------------------
(***************************************************************************)
(* What snapshots and crashes keep of what a node has executed, for every  *)
(* set of servers and every bound, and what a request must not do for it.  *)
(***************************************************************************)
EXTENDS RaftApplyProofs

-----------------------------------------------------------------------------
(* What a node writes to its two files keeps what it executed, as long as    *)
(* the log of the state file does.                                           *)

\* The snapshot file is never older than the state file.
FileIsNewer == \A i \in Server : snapshotIndex[i] <= snapshotFile[i].index

\* No log has a gap or an entry out of place.
EntriesAtIndex ==
  \A i \in Server : \A p \in 1..Len(log[i]) : log[i][p].index = snapshotIndex[i] + p

\* A step takes out of a log no entry that the node's apply loop has executed, or has
\* copied to execute it, unless a snapshot replaces it.
KeepsExecuted ==
  \A i \in Server : \A n \in (snapshotIndex'[i] + 1)..(lastApplied[i] + Len(applying[i])) :
    HasEntry(i, n) => HasEntry(i, n)' /\ Entry(i, n)' = Entry(i, n)

\* What the apply loop of a node holds in its hands is what its log has behind k
\* entries, and M is covered by the data D of a snapshot and the first k entries.
Covers(D, L, k, B, M) ==
  /\ k + Len(B) <= Len(L)
  /\ \A p \in 1..Len(B) : B[p] = L[k + p]
  /\ \A q \in 1..Len(M) : \/ \E p \in 1..Len(D) : D[p] = M[q]
                          \/ \E p \in 1..k : L[p].cmd = M[q]

\* Node i stands behind its snapshot, and its files hold all it has executed.
IsCovered(i) ==
  /\ snapshotIndex[i] <= lastApplied[i]
  /\ Covers(snapshotFile[i].data, log[i], lastApplied[i] - snapshotIndex[i],
            applying[i], machine[i])

ExecutedIsCovered == \A i \in Server : IsCovered(i)

\* What a step may do to the files and to the apply loop.
LEMMA FileKinds ==
  ASSUME TypeInv, [Next]_vars
  PROVE  \/ UNCHANGED <<lastApplied, machine, applying, snapshotFile, snapshotIndex>>
         \/ \E i \in Server : \/ FetchCommitted(i) \/ ApplyEntry(i) \/ TakeSnapshot(i)
                              \/ CrashInSnapshot(i)
                              \/ /\ \E left : Reboot(i, left)
                                 /\ UNCHANGED snapshotFile
<1>1. CASE UNCHANGED vars
  BY <1>1 DEF vars, applyVars, logVars
<1>2. CASE CallStep
  BY <1>2, CallEffects DEF TypeInv, TypeOK, applyVars
<1>3. CASE NodeStep
  <2>1. PICK i \in Server :
          \/ StartElection(i)
          \/ BroadcastAppendEntries(i)
          \/ FetchCommitted(i)
          \/ ApplyEntry(i)
          \/ MaybeSnapshot(i)
          \/ TakeSnapshot(i)
          \/ Crash(i)
          \/ CrashInSnapshot(i)
    BY <1>3 DEF NodeStep
  <2>2. CASE StartElection(i) \/ BroadcastAppendEntries(i) \/ MaybeSnapshot(i)
    BY <2>2 DEF StartElection, BroadcastAppendEntries, MaybeSnapshot, applyVars, logVars
  <2>3. CASE Crash(i)
    BY <2>3 DEF Crash
  <2>. QED  BY <2>1, <2>2, <2>3
<1>4. CASE ClientStep
  BY <1>4 DEF ClientStep, Propose, ProposeReturn, ProposeTimeout, applyVars, logVars
<1>. QED  BY <1>1, <1>2, <1>3, <1>4 DEF Next

LEMMA CompactsAhead ==
  ASSUME TypeInv, NEW i \in Server, CanCompact(i)
  PROVE  snapshotIndex[i] < lastApplied[i]
<1>1. snapshotIndex[i] \in Nat /\ lastApplied[i] \in Nat /\ log[i] \in Seq(LogEntries)
  BY DEF TypeInv, TypeOK, LogTypeOK, ApplyTypeOK
<1>. QED  BY <1>1 DEF CanCompact, HasEntry, HasLogEntry, LogicalToPhysical

LEMMA FileStaysNewer ==
  ASSUME TypeInv, FileIsNewer, [Next]_vars
  PROVE  FileIsNewer'
<1>1. /\ snapshotIndex \in [Server -> Nat] /\ lastApplied \in [Server -> Nat]
      /\ snapshotFile \in [Server -> [index : Nat, data : Seq(Command)]]
  BY DEF TypeInv, TypeOK, LogTypeOK, ApplyTypeOK
<1>2. CASE UNCHANGED <<snapshotFile, snapshotIndex>>
  BY <1>2 DEF FileIsNewer
<1>3. ASSUME NEW i \in Server, TakeSnapshot(i) \/ CrashInSnapshot(i), CanCompact(i)
      PROVE  FileIsNewer'
  <2>1. /\ snapshotFile' = [snapshotFile EXCEPT ![i] = NewSnapshot(i)]
        /\ \/ snapshotIndex' = snapshotIndex
           \/ snapshotIndex' = [snapshotIndex EXCEPT ![i] = lastApplied[i]]
    BY <1>3 DEF TakeSnapshot, CrashInSnapshot, Reboot, logVars
  <2>2. snapshotFile'[i].index = lastApplied[i]
    BY <1>3, <2>1, SnapshotShows
  <2>3. snapshotIndex[i] < lastApplied[i]
    BY <1>3, CompactsAhead
  <2> SUFFICES ASSUME NEW j \in Server
               PROVE  snapshotIndex'[j] <= snapshotFile'[j].index
    BY DEF FileIsNewer
  <2>4. CASE j = i
    <3>1. snapshotIndex'[i] \in {snapshotIndex[i], lastApplied[i]}
      BY <1>1, <2>1
    <3>. QED  BY <1>1, <2>2, <2>3, <2>4, <3>1
  <2>5. CASE j # i
    <3>1. snapshotFile'[j] = snapshotFile[j] /\ snapshotIndex'[j] = snapshotIndex[j]
      BY <1>1, <2>1, <2>5
    <3>. QED  BY <3>1 DEF FileIsNewer
  <2>. QED  BY <2>4, <2>5
<1>4. ASSUME NEW i \in Server, FetchCommitted(i) \/ ApplyEntry(i)
      PROVE  UNCHANGED <<snapshotFile, snapshotIndex>>
  BY <1>4 DEF FetchCommitted, ApplyEntry, logVars
<1>5. ASSUME NEW i \in Server, TakeSnapshot(i) \/ CrashInSnapshot(i), ~CanCompact(i)
      PROVE  UNCHANGED <<snapshotFile, snapshotIndex>>
  BY <1>5 DEF TakeSnapshot, CrashInSnapshot, logVars
<1>6. ASSUME NEW i \in Server, NEW left, Reboot(i, left), UNCHANGED snapshotFile
      PROVE  UNCHANGED <<snapshotFile, snapshotIndex>>
  BY <1>6 DEF Reboot, logVars
<1>. QED  BY <1>2, <1>3, <1>4, <1>5, <1>6, FileKinds

LEMMA CoversLonger ==
  ASSUME NEW D, NEW L \in Seq(LogEntries), NEW k \in Nat, NEW B \in Seq(LogEntries), NEW M,
         Covers(D, L, k, B, M), NEW L2 \in Seq(LogEntries),
         \A p \in 1..(k + Len(B)) : p \in 1..Len(L2) /\ L2[p] = L[p]
  PROVE  Covers(D, L2, k, B, M)
<1>1. Len(B) \in Nat /\ Len(L2) \in Nat /\ Len(L) \in Nat
  OBVIOUS
<1>2. k + Len(B) <= Len(L2)
  <2>1. CASE k + Len(B) = 0
    BY <1>1, <2>1
  <2>2. CASE k + Len(B) # 0
    <3>1. k + Len(B) \in 1..(k + Len(B))
      BY <1>1, <2>2
    <3>. QED  BY <1>1, <3>1
  <2>. QED  BY <2>1, <2>2
<1>3. \A p \in 1..Len(B) : B[p] = L2[k + p]
  <2> TAKE p \in 1..Len(B)
  <2>1. k + p \in 1..(k + Len(B))
    BY <1>1
  <2>. QED  BY <2>1 DEF Covers
<1>4. \A p \in 1..k : L2[p] = L[p]
  <2> TAKE p \in 1..k
  <2>1. p \in 1..(k + Len(B))
    BY <1>1
  <2>. QED  BY <2>1
<1>. QED  BY <1>2, <1>3, <1>4 DEF Covers

\* The apply loop executes what it holds, in the order of the log.
LEMMA CoversNext ==
  ASSUME NEW D, NEW L \in Seq(LogEntries), NEW k \in Nat, NEW B \in Seq(LogEntries),
         NEW M \in Seq(Command), Covers(D, L, k, B, M), B # << >>
  PROVE  /\ k + 1 \in 1..Len(L) /\ Head(B) = L[k + 1]
         /\ Covers(D, L, k + 1, Tail(B), AfterEntry(M, Head(B)))
<1>1. /\ Len(B) \in Nat /\ Len(L) \in Nat /\ Len(M) \in Nat /\ 1 \in 1..Len(B)
      /\ Len(Tail(B)) = Len(B) - 1 /\ Head(B) = B[1]
      /\ \A p \in 1..Len(Tail(B)) : Tail(B)[p] = B[p + 1]
  OBVIOUS
<1>2. k + 1 \in 1..Len(L) /\ Head(B) = L[k + 1]
  BY <1>1 DEF Covers
<1>3. (k + 1) + Len(Tail(B)) <= Len(L)
  BY <1>1 DEF Covers
<1>4. \A p \in 1..Len(Tail(B)) : Tail(B)[p] = L[(k + 1) + p]
  <2> TAKE p \in 1..Len(Tail(B))
  <2>1. p + 1 \in 1..Len(B) /\ k + (p + 1) = (k + 1) + p
    BY <1>1
  <2>2. B[p + 1] = L[k + (p + 1)]
    BY <2>1 DEF Covers
  <2>. QED  BY <1>1, <2>1, <2>2
<1>5. \A q \in 1..Len(M) : \/ \E p \in 1..Len(D) : D[p] = M[q]
                           \/ \E p \in 1..(k + 1) : L[p].cmd = M[q]
  <2> TAKE q \in 1..Len(M)
  <2>1. \A p \in 1..k : p \in 1..(k + 1)
    OBVIOUS
  <2>. QED  BY <2>1 DEF Covers
<1>6. CASE Head(B).cmd = Nil
  BY <1>2, <1>3, <1>4, <1>5, <1>6 DEF Covers, AfterEntry
<1>7. CASE Head(B).cmd # Nil
  <2>1. Head(B).cmd \in Command
    <3>1. B[1] \in LogEntries
      BY <1>1, ElementOfSeq
    <3>. QED  BY <1>1, <1>7, <3>1 DEF LogEntries
  <2> DEFINE M2 == Append(M, Head(B).cmd)
  <2>2. /\ Len(M2) = Len(M) + 1 /\ M2[Len(M) + 1] = Head(B).cmd
        /\ \A q \in 1..Len(M) : M2[q] = M[q]
    BY <1>1, <2>1, AppendProperties
  <2> HIDE DEF M2
  <2>3. k + 1 \in 1..(k + 1) /\ L[k + 1].cmd = Head(B).cmd
    BY <1>2
  <2>4. \A q \in 1..Len(M2) : \/ \E p \in 1..Len(D) : D[p] = M2[q]
                              \/ \E p \in 1..(k + 1) : L[p].cmd = M2[q]
    <3> TAKE q \in 1..Len(M2)
    <3>1. CASE q = Len(M) + 1
      BY <2>2, <2>3, <3>1
    <3>2. CASE q # Len(M) + 1
      <4>1. q \in 1..Len(M)
        BY <1>1, <2>2, <3>2
      <4>. QED  BY <1>5, <2>2, <4>1
    <3>. QED  BY <3>1, <3>2
  <2>5. Covers(D, L, k + 1, Tail(B), M2)
    BY <1>3, <1>4, <2>4 DEF Covers
  <2>. QED  BY <1>2, <1>7, <2>5 DEF AfterEntry, M2
<1>. QED  BY <1>6, <1>7

\* What the apply loop copies comes right behind what it has executed.
LEMMA CoversFetched ==
  ASSUME NEW D, NEW L \in Seq(LogEntries), NEW s \in Nat, NEW a \in Nat, s <= a, NEW c \in Nat,
         NEW M, Covers(D, L, a - s, << >>, M), EntriesBetween(L, s, a + 1, c) # << >>
  PROVE  Covers(D, L, a - s, EntriesBetween(L, s, a + 1, c), M)
<1> DEFINE from == (a + 1) - s
           to == IF c - s > Len(L) THEN Len(L) ELSE c - s
           B == SubSeq(L, from, to)
<1>1. Len(L) \in Nat /\ from \in Nat /\ from >= 1 /\ to \in Int /\ to <= Len(L)
  OBVIOUS
<1>2. EntriesBetween(L, s, a + 1, c) = B
  <2>1. /\ LogicalToPhysical(a + 1, s) = from /\ LogicalToPhysical(c, s) = c - s
        /\ ~(from < 1)
    BY <1>1 DEF LogicalToPhysical
  <2>. QED  BY <2>1 DEF EntriesBetween
<1>3. from <= to
  <2> SUFFICES ASSUME from > to PROVE FALSE
    BY <1>1
  <2>1. B = << >>
    BY <1>1, SubSeqEmpty
  <2>. QED  BY <1>2, <2>1
<1>4. from \in 1..(Len(L) + 1) /\ to \in (from - 1)..Len(L)
  BY <1>1, <1>3
<1>5. Len(B) = to - from + 1 /\ \A p \in 1..Len(B) : B[p] = L[from + p - 1]
  <2> HIDE DEF from, to
  <2>1. \A p \in from..to : L[p] \in LogEntries
    <3> TAKE p \in from..to
    <3>1. p \in 1..Len(L)
      BY <1>1
    <3>. QED  BY <3>1, ElementOfSeq
  <2>. QED  BY <1>1, <1>3, <2>1, SubSeqProperties
<1>6. (a - s) + Len(B) <= Len(L)
  BY <1>1, <1>5
<1>7. \A p \in 1..Len(B) : B[p] = L[(a - s) + p]
  <2> TAKE p \in 1..Len(B)
  <2>1. from + p - 1 = (a - s) + p
    OBVIOUS
  <2>. QED  BY <1>5, <2>1
<1> HIDE DEF B
<1>. QED  BY <1>2, <1>6, <1>7 DEF Covers

\* Other nodes' steps, and those that only change the log or the answers.
LEMMA CoveredSame ==
  ASSUME TypeInv, TypeInv', KeepsExecuted, NEW i \in Server, IsCovered(i),
         /\ lastApplied'[i] = lastApplied[i] /\ snapshotIndex'[i] = snapshotIndex[i]
         /\ applying'[i] = applying[i] /\ machine'[i] = machine[i]
         /\ snapshotFile'[i].data = snapshotFile[i].data
  PROVE  IsCovered(i)'
<1> DEFINE k == lastApplied[i] - snapshotIndex[i]
<1>1. /\ log[i] \in Seq(LogEntries) /\ log'[i] \in Seq(LogEntries)
      /\ applying[i] \in Seq(LogEntries) /\ Len(log[i]) \in Nat /\ Len(applying[i]) \in Nat
      /\ lastApplied[i] \in Nat /\ snapshotIndex[i] \in Nat
  BY DEF TypeInv, TypeOK, LogTypeOK, ApplyTypeOK
<1>2. k \in Nat /\ snapshotIndex[i] + k = lastApplied[i]
  BY <1>1 DEF IsCovered
<1>3. Covers(snapshotFile[i].data, log[i], k, applying[i], machine[i])
  BY DEF IsCovered
<1> HIDE DEF k
<1>4. \A p \in 1..(k + Len(applying[i])) : p \in 1..Len(log'[i]) /\ log'[i][p] = log[i][p]
  <2> TAKE p \in 1..(k + Len(applying[i]))
  <2> PICK n \in Nat : n = snapshotIndex[i] + p
    BY <1>1
  <2>1. n \in (snapshotIndex'[i] + 1)..(lastApplied[i] + Len(applying[i]))
    BY <1>1, <1>2
  <2>2. p \in 1..Len(log[i])
    BY <1>1, <1>2, <1>3 DEF Covers
  <2>3. n - snapshotIndex[i] = p
    BY <1>1
  <2>4. HasEntry(i, n)
    BY <2>2, <2>3 DEF HasEntry, HasLogEntry, LogicalToPhysical
  <2>5. HasEntry(i, n)' /\ Entry(i, n)' = Entry(i, n)
    BY <2>1, <2>4 DEF KeepsExecuted
  <2>. QED  BY <2>3, <2>5 DEF HasEntry, HasLogEntry, Entry, GetLogEntry, LogicalToPhysical
<1>5. Covers(snapshotFile[i].data, log'[i], k, applying[i], machine[i])
  BY <1>1, <1>2, <1>3, <1>4, CoversLonger
<1>. QED  BY <1>5 DEF IsCovered, k

\* A state machine that is a snapshot needs no entry.
LEMMA SnapshotCovers ==
  ASSUME NEW D \in Seq(Command), NEW L \in Seq(LogEntries)
  PROVE  Covers(D, L, 0, << >>, D)
  BY DEF Covers

LEMMA FetchCovered ==
  ASSUME TypeInv, NEW i \in Server, IsCovered(i), FetchCommitted(i)
  PROVE  IsCovered(i)'
<1> DEFINE B == EntriesBetween(log[i], snapshotIndex[i], lastApplied[i] + 1, commitIndex[i])
<1>1. /\ lastApplied[i] \in Nat /\ snapshotIndex[i] \in Nat /\ commitIndex[i] \in Nat
      /\ log[i] \in Seq(LogEntries) /\ applying \in [Server -> Seq(LogEntries)]
      /\ applyPhase[i] = "idle" => applying[i] = << >>
  BY DEF TypeInv, TypeOK, LogTypeOK, ApplyTypeOK
<1>2. /\ applyPhase[i] = "idle" /\ B # << >> /\ applying' = [applying EXCEPT ![i] = B]
      /\ UNCHANGED <<log, snapshotIndex, snapshotFile, lastApplied, machine>>
  BY DEF FetchCommitted, logVars
<1> HIDE DEF B
<1>3. applying[i] = << >> /\ applying'[i] = B
  BY <1>1, <1>2
<1>4. snapshotIndex[i] <= lastApplied[i]
      /\ Covers(snapshotFile[i].data, log[i], lastApplied[i] - snapshotIndex[i], << >>, machine[i])
  BY <1>3 DEF IsCovered
<1>5. Covers(snapshotFile[i].data, log[i], lastApplied[i] - snapshotIndex[i], B, machine[i])
  BY <1>1, <1>2, <1>4, CoversFetched DEF B
<1>. QED  BY <1>2, <1>3, <1>4, <1>5 DEF IsCovered

LEMMA ApplyCovered ==
  ASSUME TypeInv, EntriesAtIndex, NEW i \in Server, IsCovered(i), ApplyEntry(i)
  PROVE  IsCovered(i)'
<1> DEFINE k == lastApplied[i] - snapshotIndex[i]
           entry == Head(applying[i])
<1>1. /\ lastApplied \in [Server -> Nat] /\ snapshotIndex[i] \in Nat
      /\ machine \in [Server -> Seq(Command)] /\ log[i] \in Seq(LogEntries)
      /\ applying \in [Server -> Seq(LogEntries)]
      /\ applyPhase[i] = "apply" => applying[i] # << >>
  BY DEF TypeInv, TypeOK, LogTypeOK, ApplyTypeOK
<1>2. /\ applyPhase[i] = "apply"
      /\ machine' = [machine EXCEPT ![i] = AfterEntry(machine[i], entry)]
      /\ lastApplied' = [lastApplied EXCEPT ![i] = entry.index]
      /\ applying' = [applying EXCEPT ![i] = Tail(applying[i])]
      /\ UNCHANGED <<log, snapshotIndex, snapshotFile>>
  BY DEF ApplyEntry, AfterEntry, logVars
<1>3. k \in Nat /\ snapshotIndex[i] + (k + 1) = lastApplied[i] + 1
      /\ (lastApplied[i] + 1) - snapshotIndex[i] = k + 1
      /\ snapshotIndex[i] <= lastApplied[i] + 1
  BY <1>1 DEF IsCovered
<1>4. Covers(snapshotFile[i].data, log[i], k, applying[i], machine[i])
  BY DEF IsCovered
<1> HIDE DEF k, entry
<1>5. /\ k + 1 \in 1..Len(log[i]) /\ entry = log[i][k + 1]
      /\ Covers(snapshotFile[i].data, log[i], k + 1, Tail(applying[i]),
                AfterEntry(machine[i], entry))
  BY <1>1, <1>2, <1>3, <1>4, CoversNext DEF entry
<1>6. entry.index = lastApplied[i] + 1
  BY <1>3, <1>5 DEF EntriesAtIndex
<1>7. /\ lastApplied'[i] = lastApplied[i] + 1 /\ applying'[i] = Tail(applying[i])
      /\ machine'[i] = AfterEntry(machine[i], entry)
  BY <1>1, <1>2, <1>6
<1>. QED  BY <1>2, <1>3, <1>5, <1>7 DEF IsCovered

LEMMA RebootCovered ==
  ASSUME TypeInv, TypeInv', NEW i \in Server, NEW left, Reboot(i, left)
  PROVE  IsCovered(i)'
<1>1. /\ lastApplied \in [Server -> Nat] /\ snapshotIndex[i] \in Nat
      /\ machine \in [Server -> Seq(Command)] /\ log'[i] \in Seq(LogEntries)
      /\ applying \in [Server -> Seq(LogEntries)] /\ snapshotFile'[i].data \in Seq(Command)
  BY DEF TypeInv, TypeOK, LogTypeOK, ApplyTypeOK
<1>2. /\ lastApplied' = [lastApplied EXCEPT ![i] = snapshotIndex[i]]
      /\ machine' = [machine EXCEPT ![i] = snapshotFile'[i].data]
      /\ applying' = [applying EXCEPT ![i] = << >>]
      /\ snapshotIndex' = snapshotIndex
  BY DEF Reboot, logVars
<1>3. /\ lastApplied'[i] = snapshotIndex[i] /\ machine'[i] = snapshotFile'[i].data
      /\ applying'[i] = << >> /\ snapshotIndex'[i] = snapshotIndex[i]
      /\ snapshotIndex[i] - snapshotIndex[i] = 0 /\ snapshotIndex[i] <= snapshotIndex[i]
  BY <1>1, <1>2
<1>4. Covers(snapshotFile'[i].data, log'[i], 0, << >>, snapshotFile'[i].data)
  BY <1>1, SnapshotCovers
<1>. QED  BY <1>3, <1>4 DEF IsCovered

LEMMA TakeSnapshotCovered ==
  ASSUME TypeInv, TypeInv', NEW i \in Server, TakeSnapshot(i), CanCompact(i)
  PROVE  IsCovered(i)'
<1>1. /\ lastApplied[i] \in Nat /\ snapshotIndex \in [Server -> Nat]
      /\ snapshotFile \in [Server -> [index : Nat, data : Seq(Command)]]
      /\ machine[i] \in Seq(Command) /\ log'[i] \in Seq(LogEntries)
      /\ applyPhase[i] = "snapshot" => applying[i] = << >>
  BY DEF TypeInv, TypeOK, LogTypeOK, ApplyTypeOK
<1>2. /\ applyPhase[i] = "snapshot"
      /\ snapshotFile' = [snapshotFile EXCEPT ![i] = NewSnapshot(i)]
      /\ snapshotIndex' = [snapshotIndex EXCEPT ![i] = lastApplied[i]]
      /\ UNCHANGED <<lastApplied, applying, machine>>
  BY DEF TakeSnapshot
<1>3. /\ snapshotFile'[i].data = machine[i] /\ snapshotIndex'[i] = lastApplied[i]
      /\ applying'[i] = << >> /\ lastApplied[i] - lastApplied[i] = 0
      /\ lastApplied[i] <= lastApplied[i]
  BY <1>1, <1>2 DEF NewSnapshot
<1>4. Covers(machine[i], log'[i], 0, << >>, machine[i])
  BY <1>1, SnapshotCovers
<1>. QED  BY <1>2, <1>3, <1>4 DEF IsCovered

LEMMA CoveredStep ==
  ASSUME TypeInv, TypeInv', EntriesAtIndex, KeepsExecuted, ExecutedIsCovered, [Next]_vars
  PROVE  ExecutedIsCovered'
<1> SUFFICES ASSUME NEW i \in Server
             PROVE  IsCovered(i)'
  BY DEF ExecutedIsCovered
<1>1. IsCovered(i)
  BY DEF ExecutedIsCovered
<1>2. /\ lastApplied \in [Server -> Nat] /\ snapshotIndex \in [Server -> Nat]
      /\ applying \in [Server -> Seq(LogEntries)] /\ machine \in [Server -> Seq(Command)]
      /\ snapshotFile \in [Server -> [index : Nat, data : Seq(Command)]]
  BY DEF TypeInv, TypeOK, LogTypeOK, ApplyTypeOK
<1>3. CASE UNCHANGED <<lastApplied, machine, applying, snapshotFile, snapshotIndex>>
  BY <1>1, <1>3, CoveredSame
<1>4. ASSUME NEW j \in Server, FetchCommitted(j)
      PROVE  IsCovered(i)'
  <2>1. /\ \E B : applying' = [applying EXCEPT ![j] = B]
        /\ UNCHANGED <<lastApplied, machine, snapshotFile, snapshotIndex>>
    BY <1>4 DEF FetchCommitted, logVars
  <2>2. i # j => applying'[i] = applying[i]
    BY <1>2, <2>1
  <2>. QED  BY <1>1, <1>4, <2>1, <2>2, CoveredSame, FetchCovered
<1>5. ASSUME NEW j \in Server, ApplyEntry(j)
      PROVE  IsCovered(i)'
  <2>1. /\ \E B : applying' = [applying EXCEPT ![j] = B]
        /\ \E M : machine' = [machine EXCEPT ![j] = M]
        /\ \E a : lastApplied' = [lastApplied EXCEPT ![j] = a]
        /\ UNCHANGED <<snapshotFile, snapshotIndex>>
    BY <1>5 DEF ApplyEntry, logVars
  <2>2. i # j => /\ applying'[i] = applying[i] /\ machine'[i] = machine[i]
                 /\ lastApplied'[i] = lastApplied[i]
    BY <1>2, <2>1
  <2>. QED  BY <1>1, <1>5, <2>1, <2>2, CoveredSame, ApplyCovered
<1>6. ASSUME NEW j \in Server, NEW left, Reboot(j, left),
             \/ UNCHANGED snapshotFile
             \/ snapshotFile' = [snapshotFile EXCEPT ![j] = NewSnapshot(j)]
      PROVE  IsCovered(i)'
  <2>1. /\ applying' = [applying EXCEPT ![j] = << >>]
        /\ machine' = [machine EXCEPT ![j] = snapshotFile'[j].data]
        /\ lastApplied' = [lastApplied EXCEPT ![j] = snapshotIndex[j]]
        /\ UNCHANGED snapshotIndex
    BY <1>6 DEF Reboot, logVars
  <2>2. i # j => /\ applying'[i] = applying[i] /\ machine'[i] = machine[i]
                 /\ lastApplied'[i] = lastApplied[i] /\ snapshotFile'[i] = snapshotFile[i]
    BY <1>2, <1>6, <2>1
  <2>. QED  BY <1>1, <1>6, <2>1, <2>2, CoveredSame, RebootCovered
<1>7. ASSUME NEW j \in Server, CrashInSnapshot(j)
      PROVE  IsCovered(i)'
  BY <1>6, <1>7 DEF CrashInSnapshot
<1>8. ASSUME NEW j \in Server, TakeSnapshot(j)
      PROVE  IsCovered(i)'
  <2>1. CASE ~CanCompact(j)
    BY <1>3, <1>8, <2>1 DEF TakeSnapshot, logVars
  <2>2. CASE CanCompact(j)
    <3>1. /\ snapshotFile' = [snapshotFile EXCEPT ![j] = NewSnapshot(j)]
          /\ snapshotIndex' = [snapshotIndex EXCEPT ![j] = lastApplied[j]]
          /\ UNCHANGED <<lastApplied, applying, machine>>
      BY <1>8, <2>2 DEF TakeSnapshot
    <3>2. i # j => /\ snapshotFile'[i] = snapshotFile[i]
                   /\ snapshotIndex'[i] = snapshotIndex[i]
      BY <1>2, <3>1
    <3>. QED  BY <1>1, <1>8, <2>2, <3>1, <3>2, CoveredSame, TakeSnapshotCovered
  <2>. QED  BY <2>1, <2>2
<1>. QED  BY <1>3, <1>4, <1>5, <1>6, <1>7, <1>8, FileKinds

LEMMA CoveredImpliesFiles ==
  ASSUME TypeInv, FileIsNewer, ExecutedIsCovered
  PROVE  FilesCoverTheMachine
<1> SUFFICES ASSUME NEW i \in Server
             PROVE  /\ snapshotFile[i].index >= snapshotIndex[i]
                    /\ Range(machine[i]) \subseteq
                         Range(snapshotFile[i].data) \union CommandsOf(log[i])
  BY DEF FilesCoverTheMachine
<1>1. /\ lastApplied[i] \in Nat /\ snapshotIndex[i] \in Nat /\ log[i] \in Seq(LogEntries)
      /\ machine[i] \in Seq(Command) /\ snapshotFile[i].index \in Nat
      /\ snapshotFile[i].data \in Seq(Command) /\ Len(applying[i]) \in Nat
  BY DEF TypeInv, TypeOK, LogTypeOK, ApplyTypeOK
<1>2. snapshotFile[i].index >= snapshotIndex[i]
  BY <1>1 DEF FileIsNewer
<1>3. ASSUME NEW q \in DOMAIN machine[i]
      PROVE  machine[i][q] \in Range(snapshotFile[i].data) \union CommandsOf(log[i])
  <2>1. q \in 1..Len(machine[i]) /\ machine[i][q] \in Command /\ machine[i][q] # Nil
    <3>1. q \in 1..Len(machine[i])
      BY <1>1
    <3>. QED  BY <1>1, <3>1, ElementOfSeq, NilAssumption
  <2>2. CASE \E p \in 1..Len(snapshotFile[i].data) : snapshotFile[i].data[p] = machine[i][q]
    BY <1>1, <2>2 DEF Range
  <2>3. CASE \E p \in 1..(lastApplied[i] - snapshotIndex[i]) : log[i][p].cmd = machine[i][q]
    <3>1. PICK p \in 1..(lastApplied[i] - snapshotIndex[i]) : log[i][p].cmd = machine[i][q]
      BY <2>3
    <3>2. p \in 1..Len(log[i])
      BY <1>1, <3>1 DEF ExecutedIsCovered, IsCovered, Covers
    <3>3. p \in DOMAIN log[i]
      BY <1>1, <3>2
    <3>. QED  BY <2>1, <3>1, <3>3 DEF CommandsOf
  <2>. QED  BY <2>1, <2>2, <2>3 DEF ExecutedIsCovered, IsCovered, Covers
<1>. QED  BY <1>2, <1>3 DEF Range

\* A crash at any moment, between the two writes of maybeSnapshot (raft.go:822-848)
\* too, leaves a snapshot file that is at least as new as the state file.
THEOREM SnapshotFileIsNewer == Spec => []FileIsNewer
<1>1. Init => FileIsNewer
  BY DEF Init, FileIsNewer
<1>2. TypeInv /\ FileIsNewer /\ [Next]_vars => FileIsNewer'
  BY FileStaysNewer
<1>. QED  BY <1>1, <1>2, TypesAreKept, PTL DEF Spec

-----------------------------------------------------------------------------
(* Requests that fit. *)

\* Request c carries the entries that follow prevLogIndex, and where it names an entry
\* that its receiver has executed, or has copied to execute it, it names that entry.
RequestFits(c) ==
  LET i == c.dst
      executed == (snapshotIndex[i] + 1)..(lastApplied[i] + Len(applying[i]))
  IN
  /\ c.prevLogIndex \in executed => Entry(i, c.prevLogIndex).term = c.prevLogTerm
  /\ \A k \in 1..Len(c.entries) :
       /\ c.entries[k].index = c.prevLogIndex + k
       /\ c.entries[k].index \in executed =>
            Entry(i, c.entries[k].index).term = c.entries[k].term

\* Every request on its way to a node that will look at it fits.
RequestsFit ==
  \A c \in DOMAIN calls :
    c.type = "AppendEntries" /\ c.term >= currentTerm[c.dst] => RequestFits(c)

\* The apply loop of a node is never ahead of the node's commit index.
AppliedIsCommitted ==
  NoSnapshots => \A i \in Server : lastApplied[i] + Len(applying[i]) <= commitIndex[i]

LEMMA AppliedCommittedStep ==
  ASSUME RestInv, RestInv', ServiceHasHistory, AppliedIsCommitted, [Next]_vars
  PROVE  AppliedIsCommitted'
<1> SUFFICES ASSUME NoSnapshots', NEW i \in Server
             PROVE  lastApplied'[i] + Len(applying'[i]) <= commitIndex'[i]
  BY DEF AppliedIsCommitted
<1>1. NoSnapshots
  BY SnapshotStep DEF RestInv
<1>2. Plain /\ Plain'
  BY <1>1, RestIsPlain DEF RestInv, NoSnapshots, SnapshotsAreOnDisk, Plain
<1>3. PICK H, A : ServiceInv(H, A)
  BY <1>1 DEF ServiceHasHistory
<1>4. LogInv(H, A)
  BY <1>3 DEF ServiceInv
<1>5. PICK m \in Nat : m = commitIndex[i]
  BY <1>2, PlainParts DEF LogTypeOK
<1>6. commitIndex[i] <= m /\ lastApplied[i] + Len(applying[i]) <= m
  BY <1>1, <1>5 DEF AppliedIsCommitted
<1>7. lastApplied'[i] + Len(applying'[i]) <= m
  BY <1>2, <1>3, <1>6, ApplyStaysBehind
<1>8. /\ commitIndex'[i] \in Nat /\ lastApplied'[i] \in Nat /\ Len(applying'[i]) \in Nat
  BY <1>2 DEF Plain, TypeInv, TypeOK, LogTypeOK, ApplyTypeOK
<1>9. CASE commitIndex'[i] >= commitIndex[i]
  BY <1>5, <1>7, <1>8, <1>9
<1>10. CASE lastApplied'[i] = 0 /\ applying'[i] = << >>
  BY <1>8, <1>10, EmptySeq
<1>. QED  BY <1>2, <1>4, <1>9, <1>10, CommitsGrow

\* applyCommitted (raft.go:655-718) executes only entries that the commit index covers:
\* a restart before the first snapshot sets both back together.
THEOREM AppliesWhatIsCommitted == Spec => []AppliedIsCommitted
<1>1. Init => AppliedIsCommitted
  <2> SUFFICES ASSUME Init, NEW i \in Server
               PROVE  lastApplied[i] + Len(applying[i]) <= commitIndex[i]
    BY DEF AppliedIsCommitted
  <2>1. lastApplied[i] = 0 /\ applying[i] = << >> /\ commitIndex[i] = 0
    BY DEF Init
  <2>. QED  BY <2>1, EmptySeq
<1>2. RestInv /\ RestInv' /\ ServiceHasHistory /\ AppliedIsCommitted /\ [Next]_vars
        => AppliedIsCommitted'
  BY AppliedCommittedStep
<1>. QED  BY <1>1, <1>2, RestIsKept, HistoryExplainsService, PTL DEF Spec

LEMMA PlainFits ==
  ASSUME Plain, NoSnapshots, AppliedIsCommitted, NEW H, NEW A, LogInv(H, A),
         NEW c \in DOMAIN calls, c.type = "AppendEntries", c.term >= currentTerm[c.dst]
  PROVE  RequestFits(c)
<1> DEFINE i == c.dst
           r == lastApplied[i] + Len(applying[i])
           prev == c.prevLogIndex
<1>1. i \in Server /\ c.term \in Nat
  BY CallTyped, PlainParts
<1>2. snapshotIndex[i] = 0 /\ r \in Nat /\ commitIndex[i] \in Nat /\ r <= commitIndex[i]
      /\ currentTerm[i] \in Nat
  <2>1. lastApplied[i] \in Nat /\ Len(applying[i]) \in Nat /\ commitIndex[i] \in Nat
    BY <1>1 DEF Plain, TypeInv, TypeOK, LogTypeOK, ApplyTypeOK
  <2>2. currentTerm[i] \in Nat
    BY <1>1, PlainParts DEF ElectionTypeOK
  <2>. QED  BY <1>1, <2>1, <2>2 DEF Plain, AppliedIsCommitted
<1>3. /\ log[i] \in Seq(LogEntries) /\ Len(log[i]) \in Nat
      /\ \A n \in Nat : Entry(i, n) = log[i][n]
  BY <1>1, PlainLog
<1>4. prev \in Nat /\ c.entries \in Seq(LogEntries) /\ Len(c.entries) \in Nat
  <2>1. prev \in Nat /\ c.entries \in Seq(LogEntries)
    BY PlainParts DEF CallTypeOK, CallRecords
  <2>. QED  BY <2>1
<1> HIDE DEF i, r, prev
\* What the receiver has executed is a chosen log's, of a term that c.term is not before.
<1>5. ASSUME r > 0
      PROVE  \E t \in Terms : \E n \in Created(H, t) :
               /\ t <= c.term /\ r <= n /\ n \in Nat /\ ~Overruled(A, n, t)
               /\ \A p \in 1..r : log[i][p] = H[t][p]
  <2>1. CommittedUpTo(H, A, log[i], currentTerm[i], commitIndex[i])
    BY <1>1 DEF LogInv, CommitsOK
  <2>2. commitIndex[i] > 0
    BY <1>2, <1>5
  <2>3. PICK t \in Terms : \E n \in Created(H, t) :
          Chosen(H, A, n, t) /\ t <= currentTerm[i] /\ commitIndex[i] <= n
          /\ Agree(log[i], H[t], commitIndex[i])
    BY <2>1, <2>2 DEF CommittedUpTo
  <2>4. PICK n \in Created(H, t) :
          Chosen(H, A, n, t) /\ t <= currentTerm[i] /\ commitIndex[i] <= n
          /\ Agree(log[i], H[t], commitIndex[i])
    BY <2>3
  <2>5. t \in Nat /\ n \in Nat
    BY HistoryParts DEF Created
  <2>6. ~Overruled(A, n, t)
    BY <2>4, ChosenStays, PlainParts DEF LogInv
  <2>7. t <= c.term
    BY <1>1, <1>2, <2>4, <2>5 DEF i
  <2>8. \A p \in 1..r : log[i][p] = H[t][p]
    <3> TAKE p \in 1..r
    <3>1. p \in 1..commitIndex[i]
      BY <1>2
    <3>. QED  BY <2>4, <3>1 DEF Agree
  <2>9. r <= n
    BY <1>2, <2>4, <2>5
  <2>. QED  BY <2>5, <2>6, <2>7, <2>8, <2>9
<1>6. CASE Dangling(c)
  <2>1. DanglingOK(H, A, c)
    BY <1>6 DEF LogInv, CallsOK, CallOK
  <2>2. Len(c.entries) = 0
    BY <2>1, EmptySeq DEF DanglingOK
  <2>3. prev \notin 1..r
    <3> SUFFICES ASSUME prev \in 1..r PROVE FALSE
      OBVIOUS
    <3>1. r > 0
      BY <1>2
    <3>2. PICK t \in Terms : \E n \in Created(H, t) :
               /\ t <= c.term /\ r <= n /\ n \in Nat /\ ~Overruled(A, n, t)
               /\ \A p \in 1..r : log[i][p] = H[t][p]
      BY <1>5, <3>1
    <3>3. PICK n \in Created(H, t) : t <= c.term /\ r <= n /\ n \in Nat /\ ~Overruled(A, n, t)
      BY <3>2
    <3>4. n < prev
      BY <2>1, <3>3 DEF DanglingOK, prev
    <3>. QED  BY <1>2, <1>4, <3>3, <3>4
  <2>. QED  BY <1>2, <2>2, <2>3 DEF RequestFits, i, r, prev
<1>7. CASE ~Dangling(c)
  <2> DEFINE L == RequestLog(H, c)
  <2>1. /\ RequestOK(H, A, c)
        /\ L \in Seq(LogEntries) /\ Len(L) \in Nat /\ GoodLog(H, L)
        /\ EndOf(L, prev, c.entries)
        /\ Agree(L, H[c.prevLogTerm], prev)
    BY <1>7, RequestLogParts, PlainParts DEF prev
  <2>2. \A t \in Terms : \A n \in Created(H, t) : t <= c.term =>
          \/ Overruled(A, n, t)
          \/ Has(L, n, t)
          \/ t = c.term /\ Agree(L, H[t], Len(L)) /\ Len(L) < n
    BY <2>1 DEF RequestOK
  <2>3. prev = 0 \/ Has(H[c.prevLogTerm], prev, c.prevLogTerm)
    BY <2>1 DEF RequestOK, prev
  <2> HIDE DEF L
  <2>4. \A p \in 1..r : p <= Len(L) => L[p] = log[i][p]
    <3> SUFFICES ASSUME NEW p \in 1..r, p <= Len(L) PROVE L[p] = log[i][p]
      OBVIOUS
    <3>1. r > 0
      BY <1>2
    <3>2. PICK t \in Terms : \E n \in Created(H, t) :
               /\ t <= c.term /\ r <= n /\ n \in Nat /\ ~Overruled(A, n, t)
               /\ \A q \in 1..r : log[i][q] = H[t][q]
      BY <1>5, <3>1
    <3>3. PICK n \in Created(H, t) : /\ t <= c.term /\ r <= n /\ n \in Nat /\ ~Overruled(A, n, t)
                                     /\ \A q \in 1..r : log[i][q] = H[t][q]
      BY <3>2
    <3>4. CASE Has(L, n, t)
      <4>1. Agree(L, H[t], n)
        BY <2>1, <3>4, HasAgrees
      <4>2. p \in 1..n
        BY <1>2, <3>3
      <4>. QED  BY <3>3, <4>1, <4>2 DEF Agree
    <3>5. CASE Agree(L, H[t], Len(L))
      <4>1. p \in 1..Len(L)
        BY <2>1
      <4>. QED  BY <3>3, <3>5, <4>1 DEF Agree
    <3>. QED  BY <2>2, <3>3, <3>4, <3>5
  <2>5. Len(L) = prev + Len(c.entries) /\ \A k \in 1..Len(c.entries) : L[prev + k] = c.entries[k]
    BY <2>1 DEF EndOf
  <2>6. ASSUME prev \in 1..r
        PROVE  Entry(i, prev).term = c.prevLogTerm
    <3>1. prev <= Len(L) /\ prev > 0
      BY <1>2, <1>4, <2>5, <2>6
    <3>2. L[prev] = log[i][prev]
      BY <2>4, <2>6, <3>1
    <3>3. L[prev] = H[c.prevLogTerm][prev]
      <4>1. prev \in 1..prev
        BY <1>4, <3>1
      <4>. QED  BY <2>1, <4>1 DEF Agree
    <3>4. H[c.prevLogTerm][prev].term = c.prevLogTerm
      BY <2>3, <3>1 DEF Has
    <3>. QED  BY <1>3, <1>4, <3>2, <3>3, <3>4
  <2>7. ASSUME NEW k \in 1..Len(c.entries)
        PROVE  /\ c.entries[k].index = prev + k
               /\ c.entries[k].index \in 1..r => Entry(i, c.entries[k].index).term = c.entries[k].term
    <3>1. prev + k \in 1..Len(L) /\ prev + k \in Nat /\ prev + k <= Len(L)
      BY <1>4, <2>5
    <3>2. L[prev + k] = c.entries[k] /\ L[prev + k].index = prev + k
      BY <2>1, <2>5, <3>1 DEF GoodLog
    <3>. QED  BY <1>3, <2>4, <3>1, <3>2
  <2>. QED  BY <1>2, <2>6, <2>7 DEF RequestFits, i, r, prev
<1>. QED  BY <1>6, <1>7

\* Until the first snapshot every request fits: what a node has executed, no later
\* request names otherwise (HandleAppendEntries, raft.go:332-389).
THEOREM RequestsFitAtFirst == Spec => [](NoSnapshots => RequestsFit)
<1>1. RestInv /\ LogHasHistory /\ AppliedIsCommitted => (NoSnapshots => RequestsFit)
  <2> SUFFICES ASSUME RestInv, LogHasHistory, AppliedIsCommitted, NoSnapshots
               PROVE  RequestsFit
    OBVIOUS
  <2>. QED  BY RestIsPlain, PlainFits DEF LogHasHistory, RequestsFit
<1>. QED  BY <1>1, RestIsKept, HistoryExplainsLogs, AppliesWhatIsCommitted, PTL

-----------------------------------------------------------------------------
(* Requests that fit leave every entry at its place. *)

InPlace(L, s) == \A p \in 1..Len(L) : L[p].index = s + p

LEMMA InPlaceLast ==
  ASSUME NEW L \in Seq(LogEntries), NEW s \in Nat, InPlace(L, s)
  PROVE  LastLogIndex(L, s) = s + Len(L)
<1>1. Len(L) \in Nat
  OBVIOUS
<1>2. CASE L = << >>
  BY <1>2, EmptySeq DEF LastLogIndex
<1>3. CASE L # << >>
  <2>1. Len(L) \in 1..Len(L)
    BY <1>1, <1>3, EmptySeq
  <2>. QED  BY <1>3, <2>1 DEF LastLogIndex, InPlace
<1>. QED  BY <1>2, <1>3

LEMMA InPlaceAppend ==
  ASSUME NEW L \in Seq(LogEntries), NEW s \in Nat, InPlace(L, s),
         NEW entry \in LogEntries, entry.index = s + Len(L) + 1
  PROVE  /\ InPlace(Append(L, entry), s)
         /\ Len(Append(L, entry)) = Len(L) + 1
         /\ \A p \in 1..Len(L) : Append(L, entry)[p] = L[p]
<1> DEFINE N == Append(L, entry)
<1>1. Len(L) \in Nat /\ Len(N) = Len(L) + 1 /\ N[Len(L) + 1] = entry
      /\ \A p \in 1..Len(L) : N[p] = L[p]
  BY AppendProperties
<1> HIDE DEF N
<1>2. ASSUME NEW p \in 1..Len(N)
      PROVE  N[p].index = s + p
  <2>1. CASE p = Len(L) + 1
    BY <1>1, <2>1
  <2>2. CASE p # Len(L) + 1
    <3>1. p \in 1..Len(L)
      BY <1>1, <2>2
    <3>. QED  BY <1>1, <3>1 DEF InPlace
  <2>. QED  BY <2>1, <2>2
<1>. QED  BY <1>1, <1>2 DEF InPlace, N

LEMMA InPlaceCut ==
  ASSUME NEW L \in Seq(LogEntries), NEW s \in Nat, InPlace(L, s), NEW n \in Nat, n <= Len(L)
  PROVE  /\ SubSeq(L, 1, n) \in Seq(LogEntries) /\ Len(SubSeq(L, 1, n)) = n
         /\ \A p \in 1..n : SubSeq(L, 1, n)[p] = L[p]
         /\ InPlace(SubSeq(L, 1, n), s)
<1>1. n \in 0..Len(L)
  OBVIOUS
<1>2. /\ SubSeq(L, 1, n) \in Seq(LogEntries) /\ Len(SubSeq(L, 1, n)) = n
      /\ \A p \in 1..n : SubSeq(L, 1, n)[p] = L[p]
  BY <1>1, FirstEntries
<1>3. \A p \in 1..n : p \in 1..Len(L)
  BY <1>1
<1>. QED  BY <1>2, <1>3 DEF InPlace

\* What a snapshot leaves is at its place behind the snapshot.
LEMMA InPlaceCompact ==
  ASSUME NEW L \in Seq(LogEntries), NEW s \in Nat, InPlace(L, s), NEW a \in Nat,
         a - s \in 1..Len(L)
  PROVE  InPlace(CompactTo(L, s, a), a)
<1> DEFINE k == a - s
           N == SubSeq(L, k + 1, Len(L))
<1>1. Len(L) \in Nat /\ k \in Nat /\ k <= Len(L) /\ s + k = a
  OBVIOUS
<1>2. CompactTo(L, s, a) = N
  BY DEF CompactTo, LogicalToPhysical
<1> HIDE DEF k
<1>3. \A p \in (k + 1)..Len(L) : L[p] \in LogEntries
  <2> TAKE p \in (k + 1)..Len(L)
  <2>1. p \in 1..Len(L)
    BY <1>1
  <2>. QED  BY <2>1, ElementOfSeq
<1>4. /\ Len(N) = IF k + 1 <= Len(L) THEN Len(L) - (k + 1) + 1 ELSE 0
      /\ \A p \in 1..(Len(L) - (k + 1) + 1) : N[p] = L[(k + 1) + p - 1]
  BY <1>1, <1>3, SubSeqProperties
<1> HIDE DEF N
<1>5. ASSUME NEW p \in 1..Len(N)
      PROVE  N[p].index = a + p
  <2>1. /\ p \in 1..(Len(L) - (k + 1) + 1) /\ (k + 1) + p - 1 \in 1..Len(L)
        /\ s + ((k + 1) + p - 1) = a + p
    BY <1>1, <1>4, <1>5
  <2>. QED  BY <1>4, <2>1 DEF InPlace
<1>. QED  BY <1>2, <1>5 DEF InPlace

\* One turn of the append loop, for an entry that fits.
LEMMA AppendOneFits ==
  ASSUME NEW L \in Seq(LogEntries), NEW s \in Nat, InPlace(L, s), NEW m \in Nat, m <= Len(L),
         NEW entry \in LogEntries, entry.index <= s + Len(L) + 1,
         entry.index - s \in 1..m => L[entry.index - s].term = entry.term
  PROVE  LET N == AppendOne(L, s, entry) IN
         /\ N \in Seq(LogEntries) /\ InPlace(N, s)
         /\ m <= Len(N) /\ \A p \in 1..m : N[p] = L[p]
         /\ entry.index <= s + Len(N)
<1> DEFINE N == AppendOne(L, s, entry)
           physical == entry.index - s
<1>1. entry.index \in Nat /\ Len(L) \in Nat /\ physical \in Int /\ \A e \in LogEntries : e.index \in Nat
  BY DEF LogEntries
<1>2. N \in Seq(LogEntries)
  BY <1>1, AppendOneTyped
<1>3. CASE entry.index <= s
  <2>1. N = L
    BY <1>3 DEF AppendOne
  <2>. QED  BY <1>1, <1>2, <1>3, <2>1
<1>4. CASE entry.index > s /\ physical > Len(L)
  <2>1. N = Append(L, entry)
    BY <1>1, <1>4 DEF AppendOne, LogicalToPhysical
  <2>2. entry.index = s + Len(L) + 1
    BY <1>1, <1>4
  <2>3. /\ InPlace(N, s) /\ Len(N) = Len(L) + 1 /\ \A p \in 1..Len(L) : N[p] = L[p]
    BY <2>1, <2>2, InPlaceAppend
  <2> HIDE DEF N
  <2>. QED  BY <1>1, <1>2, <2>2, <2>3 DEF N
<1>5. CASE entry.index > s /\ physical <= Len(L)
  <2>1. CASE L[physical].term = entry.term
    <3>1. N = L
      BY <1>1, <1>5, <2>1 DEF AppendOne, LogicalToPhysical
    <3>. QED  BY <1>1, <1>2, <1>5, <3>1
  <2>2. CASE L[physical].term # entry.term
    <3> DEFINE M == SubSeq(L, 1, physical - 1)
    <3>1. N = Append(M, entry)
      BY <1>1, <1>5, <2>2 DEF AppendOne, LogicalToPhysical
    <3>2. physical > m
      BY <1>1, <1>5, <2>2
    <3>3. physical - 1 \in Nat /\ physical - 1 <= Len(L)
      BY <1>1, <1>5
    <3>4. /\ M \in Seq(LogEntries) /\ Len(M) = physical - 1 /\ InPlace(M, s)
          /\ \A p \in 1..(physical - 1) : M[p] = L[p]
      BY <3>3, InPlaceCut
    <3> HIDE DEF M
    <3>5. entry.index = s + Len(M) + 1
      BY <1>1, <3>4
    <3>6. InPlace(N, s) /\ Len(N) = Len(M) + 1 /\ \A p \in 1..Len(M) : N[p] = M[p]
      BY <3>1, <3>4, <3>5, InPlaceAppend
    <3> HIDE DEF N
    <3>7. \A p \in 1..m : p \in 1..(physical - 1)
      BY <1>1, <3>2
    <3>8. \A p \in 1..m : N[p] = L[p]
      BY <3>4, <3>6, <3>7
    <3>9. m <= Len(N) /\ entry.index <= s + Len(N)
      <4>1. Len(M) = physical - 1 /\ Len(N) = physical
        BY <1>1, <3>4, <3>6
      <4>. QED  BY <1>1, <3>2, <4>1
    <3>. QED  BY <1>2, <3>6, <3>8, <3>9 DEF N
  <2>. QED  BY <2>1, <2>2
<1>. QED  BY <1>1, <1>3, <1>4, <1>5

\* The append loop, for the entries of a request that fits.
LEMMA AppendAllFits ==
  ASSUME NEW L \in Seq(LogEntries), NEW s \in Nat, InPlace(L, s), NEW m \in Nat, m <= Len(L),
         NEW E \in Seq(LogEntries), NEW prev \in Nat, prev <= s + Len(L),
         \A k \in 1..Len(E) :
           /\ E[k].index = prev + k
           /\ E[k].index - s \in 1..m => L[E[k].index - s].term = E[k].term
  PROVE  LET N == AppendAll(L, s, E) IN
         InPlace(N, s) /\ m <= Len(N) /\ \A p \in 1..m : N[p] = L[p]
<1>1. Len(E) \in Nat
  OBVIOUS
<1>2. PICK after : AreTurns(after, L, s, E)
  BY <1>1, AppendAllTurns
<1> DEFINE Good(n) ==
      /\ after[n] \in Seq(LogEntries) /\ InPlace(after[n], s)
      /\ m <= Len(after[n]) /\ \A p \in 1..m : after[n][p] = L[p]
      /\ prev + n <= s + Len(after[n])
<1> DEFINE S == {n \in Nat : n <= Len(E) => Good(n)}
<1>3. 0 \in S
  <2>1. after[0] = L /\ prev + 0 = prev
    BY <1>2 DEF AreTurns
  <2>. QED  BY <2>1
<1>4. ASSUME NEW n \in Nat, n \in S
      PROVE  n + 1 \in S
  <2> SUFFICES ASSUME n + 1 <= Len(E) PROVE Good(n + 1)
    OBVIOUS
  <2> DEFINE M == after[n]
             entry == E[n + 1]
  <2>1. Good(n)
    BY <1>1, <1>4
  <2>2. n + 1 \in 1..Len(E) /\ entry \in LogEntries /\ entry.index = prev + (n + 1)
    <3>1. n + 1 \in 1..Len(E)
      BY <1>1
    <3>. QED  BY <3>1, ElementOfSeq
  <2>3. after[n + 1] = AppendOne(M, s, entry)
    <3>1. after[n + 1] = AppendOne(after[(n + 1) - 1], s, E[n + 1])
      BY <1>2, <2>2 DEF AreTurns
    <3>2. (n + 1) - 1 = n
      OBVIOUS
    <3>. QED  BY <3>1, <3>2
  <2>4. /\ M \in Seq(LogEntries) /\ InPlace(M, s) /\ m <= Len(M) /\ Len(M) \in Nat
        /\ \A p \in 1..m : M[p] = L[p]
        /\ prev + n <= s + Len(M)
    BY <2>1
  <2>5. entry.index - s \in 1..m => M[entry.index - s].term = entry.term
    BY <2>2, <2>4
  <2> HIDE DEF M, entry
  <2>6. entry.index <= s + Len(M) + 1
    BY <2>2, <2>4
  <2>7. /\ AppendOne(M, s, entry) \in Seq(LogEntries) /\ InPlace(AppendOne(M, s, entry), s)
        /\ m <= Len(AppendOne(M, s, entry)) /\ \A p \in 1..m : AppendOne(M, s, entry)[p] = M[p]
        /\ entry.index <= s + Len(AppendOne(M, s, entry))
    BY <2>2, <2>4, <2>5, <2>6, AppendOneFits
  <2>. QED  BY <2>2, <2>3, <2>4, <2>7
<1> HIDE DEF Good
<1>5. Len(E) \in S
  BY <1>1, <1>3, <1>4, NatSetInduction
<1>6. Good(Len(E))
  BY <1>1, <1>5
<1>. QED  BY <1>2, <1>6 DEF AreTurns, Good

-----------------------------------------------------------------------------
(* What a request that fits does to a log. *)

\* How far into its log node i has executed or copied.
Held(i) == lastApplied[i] + Len(applying[i]) - snapshotIndex[i]

LEMMA HeldTyped ==
  ASSUME TypeInv, NEW i \in Server, IsCovered(i)
  PROVE  /\ Held(i) \in Nat /\ Held(i) <= Len(log[i])
         /\ snapshotIndex[i] + Held(i) = lastApplied[i] + Len(applying[i])
         /\ lastApplied[i] \in Nat /\ Len(applying[i]) \in Nat
         /\ snapshotIndex[i] \in Nat /\ log[i] \in Seq(LogEntries) /\ Len(log[i]) \in Nat
<1>1. /\ lastApplied[i] \in Nat /\ Len(applying[i]) \in Nat
      /\ snapshotIndex[i] \in Nat /\ log[i] \in Seq(LogEntries) /\ Len(log[i]) \in Nat
  BY DEF TypeInv, TypeOK, LogTypeOK, ApplyTypeOK
<1>2. /\ snapshotIndex[i] <= lastApplied[i]
      /\ (lastApplied[i] - snapshotIndex[i]) + Len(applying[i]) <= Len(log[i])
  BY DEF IsCovered, Covers
<1>. QED  BY <1>1, <1>2 DEF Held

\* A log that keeps its first entries keeps them where the code looks for them.
LEMMA KeptByPrefix ==
  ASSUME TypeInv, NEW i \in Server, IsCovered(i), snapshotIndex'[i] = snapshotIndex[i],
         Held(i) <= Len(log'[i]), Len(log'[i]) \in Nat,
         \A p \in 1..Held(i) : log'[i][p] = log[i][p],
         NEW n \in (snapshotIndex'[i] + 1)..(lastApplied[i] + Len(applying[i]))
  PROVE  HasEntry(i, n)' /\ Entry(i, n)' = Entry(i, n)
<1>1. /\ Held(i) \in Nat /\ snapshotIndex[i] \in Nat
      /\ snapshotIndex[i] + Held(i) = lastApplied[i] + Len(applying[i])
      /\ lastApplied[i] \in Nat /\ Len(applying[i]) \in Nat
  BY HeldTyped
<1>2. PICK p \in Int : p = n - snapshotIndex[i]
  BY <1>1
<1>3. p \in 1..Held(i)
  BY <1>1, <1>2
<1>4. p \in 1..Len(log'[i])
  BY <1>1, <1>3
<1>. QED  BY <1>2, <1>3, <1>4 DEF HasEntry, HasLogEntry, Entry, GetLogEntry, LogicalToPhysical

\* A node's entry is appended at its end.
LEMMA AppendKeeps ==
  ASSUME TypeInv, NEW i \in Server, IsCovered(i), InPlace(log[i], snapshotIndex[i]),
         NEW entry \in LogEntries, entry.index = LastIndex(i) + 1,
         log'[i] = Append(log[i], entry)
  PROVE  /\ InPlace(log'[i], snapshotIndex[i])
         /\ Held(i) <= Len(log'[i]) /\ Len(log'[i]) \in Nat
         /\ \A p \in 1..Held(i) : log'[i][p] = log[i][p]
<1>1. /\ Held(i) \in Nat /\ Held(i) <= Len(log[i]) /\ snapshotIndex[i] \in Nat
      /\ log[i] \in Seq(LogEntries) /\ Len(log[i]) \in Nat
  BY HeldTyped
<1>2. entry.index = snapshotIndex[i] + Len(log[i]) + 1
  BY <1>1, InPlaceLast DEF LastIndex
<1>3. /\ InPlace(log'[i], snapshotIndex[i]) /\ Len(log'[i]) = Len(log[i]) + 1
      /\ \A p \in 1..Len(log[i]) : log'[i][p] = log[i][p]
  BY <1>1, <1>2, InPlaceAppend
<1>4. \A p \in 1..Held(i) : p \in 1..Len(log[i])
  BY <1>1
<1>. QED  BY <1>1, <1>3, <1>4

\* A request that fits is refused for an entry that the receiver has not executed.
LEMMA MismatchKeeps ==
  ASSUME TypeInv, NEW c \in DOMAIN calls, RejectMismatch(c), RequestFits(c),
         NEW i \in Server, i = c.dst, IsCovered(i), InPlace(log[i], snapshotIndex[i])
  PROVE  /\ InPlace(log'[i], snapshotIndex[i])
         /\ Held(i) <= Len(log'[i]) /\ Len(log'[i]) \in Nat
         /\ \A p \in 1..Held(i) : log'[i][p] = log[i][p]
<1> DEFINE L == log[i]
           s == snapshotIndex[i]
           prev == c.prevLogIndex
<1>1. /\ Held(i) \in Nat /\ Held(i) <= Len(L) /\ s \in Nat /\ L \in Seq(LogEntries)
      /\ Len(L) \in Nat /\ s + Held(i) = lastApplied[i] + Len(applying[i])
  BY HeldTyped
<1>2. prev \in Nat /\ log \in [Server -> Seq(LogEntries)] /\ c.type = "AppendEntries"
  BY DEF TypeInv, TypeOK, LogTypeOK, CallTypeOK, CallRecords, RejectMismatch, FollowLeader
<1>3. /\ prev > s /\ prev <= LastIndex(i)
      /\ HasEntry(i, prev) => Entry(i, prev).term # c.prevLogTerm
      /\ log' = [log EXCEPT ![i] = IF HasEntry(i, prev) THEN TruncateFrom(@, s, prev) ELSE @]
  BY DEF RejectMismatch, PrevMismatch
<1>4. LastIndex(i) = s + Len(L)
  BY <1>1, InPlaceLast DEF LastIndex
<1>5. HasEntry(i, prev)
  BY <1>1, <1>2, <1>3, <1>4 DEF HasEntry, HasLogEntry, LogicalToPhysical
<1>6. log'[i] = SubSeq(L, 1, (prev - s) - 1)
  BY <1>2, <1>3, <1>5 DEF TruncateFrom, LogicalToPhysical
<1>7. prev \in (s + 1)..(lastApplied[i] + Len(applying[i])) => Entry(i, prev).term = c.prevLogTerm
  BY DEF RequestFits
<1> HIDE DEF L, s, prev
<1>8. ~(prev \in (s + 1)..(s + Held(i)))
  BY <1>1, <1>3, <1>5, <1>7
<1>9. PICK n \in Nat : n = (prev - s) - 1
  BY <1>1, <1>2, <1>3
<1>10. n <= Len(L) /\ Held(i) <= n
  BY <1>1, <1>2, <1>3, <1>4, <1>8, <1>9
<1>11. /\ Len(log'[i]) = n /\ InPlace(log'[i], s)
       /\ \A p \in 1..n : log'[i][p] = L[p]
  BY <1>1, <1>6, <1>9, <1>10, InPlaceCut DEF L, s
<1>12. \A p \in 1..Held(i) : p \in 1..n
  BY <1>1, <1>9, <1>10
<1>. QED  BY <1>9, <1>10, <1>11, <1>12 DEF L, s

\* A request that fits is accepted behind what the receiver has executed.
LEMMA AcceptKeeps ==
  ASSUME TypeInv, TypeInv', NEW c \in DOMAIN calls, AcceptEntries(c), RequestFits(c),
         NEW i \in Server, i = c.dst, IsCovered(i), InPlace(log[i], snapshotIndex[i])
  PROVE  /\ InPlace(log'[i], snapshotIndex[i])
         /\ Held(i) <= Len(log'[i]) /\ Len(log'[i]) \in Nat
         /\ \A p \in 1..Held(i) : log'[i][p] = log[i][p]
<1> DEFINE L == log[i]
           s == snapshotIndex[i]
           prev == c.prevLogIndex
           E == c.entries
           m == Held(i)
<1>1. /\ m \in Nat /\ m <= Len(L) /\ s \in Nat /\ L \in Seq(LogEntries)
      /\ Len(L) \in Nat /\ s + m = lastApplied[i] + Len(applying[i])
  BY HeldTyped
<1>2. prev \in Nat /\ E \in Seq(LogEntries) /\ log \in [Server -> Seq(LogEntries)]
  BY DEF TypeInv, TypeOK, LogTypeOK, CallTypeOK, CallRecords, AcceptEntries, FollowLeader
<1>3. ~(prev > s /\ prev > LastIndex(i)) /\ log'[i] = AppendAll(L, s, E)
  BY <1>2 DEF AcceptEntries, PrevBeyondLog
<1>4. LastIndex(i) = s + Len(L)
  BY <1>1, InPlaceLast DEF LastIndex
<1>5. prev <= s + Len(L)
  BY <1>1, <1>2, <1>3, <1>4
<1>6. \A k \in 1..Len(E) :
        /\ E[k].index = prev + k
        /\ E[k].index \in (s + 1)..(lastApplied[i] + Len(applying[i])) =>
             Entry(i, E[k].index).term = E[k].term
  BY DEF RequestFits
<1>7. \A n : Entry(i, n) = L[n - s]
  BY DEF Entry, GetLogEntry, LogicalToPhysical
<1>8. Len(log'[i]) \in Nat
  BY DEF TypeInv, TypeOK, LogTypeOK
<1>9. Len(E) \in Nat
  BY <1>2
<1> HIDE DEF L, s, prev, E, m
<1>10. ASSUME NEW k \in 1..Len(E)
       PROVE  /\ E[k].index = prev + k
              /\ E[k].index - s \in 1..m => L[E[k].index - s].term = E[k].term
  <2>1. E[k].index = prev + k /\ prev + k \in Nat
    BY <1>2, <1>6, <1>9
  <2>2. ASSUME E[k].index - s \in 1..m
        PROVE  L[E[k].index - s].term = E[k].term
    <3>1. E[k].index \in (s + 1)..(s + m)
      BY <1>1, <2>1, <2>2
    <3>. QED  BY <1>1, <1>6, <1>7, <3>1
  <2>. QED  BY <2>1, <2>2
<1>11. InPlace(L, s)
  BY DEF L, s
<1>12. /\ InPlace(AppendAll(L, s, E), s) /\ m <= Len(AppendAll(L, s, E))
       /\ \A p \in 1..m : AppendAll(L, s, E)[p] = L[p]
  BY <1>1, <1>2, <1>5, <1>10, <1>11, AppendAllFits
<1>. QED  BY <1>3, <1>8, <1>12 DEF L, s, m

\* What happens at one node whose snapshot stays: its log keeps what it holds.
LEMMA KeptAtNode ==
  ASSUME TypeInv, TypeInv', RequestsFit, EntriesAtIndex, ExecutedIsCovered,
         \/ log' = log
         \/ \E c \in DOMAIN calls : BecomeLeader(c) \/ RejectMismatch(c) \/ AcceptEntries(c)
         \/ \E j \in Server : \E cmd \in Command : Propose(j, cmd),
         NEW i \in Server
  PROVE  /\ InPlace(log'[i], snapshotIndex[i])
         /\ Held(i) <= Len(log'[i]) /\ Len(log'[i]) \in Nat
         /\ \A p \in 1..Held(i) : log'[i][p] = log[i][p]
<1>1. /\ IsCovered(i) /\ InPlace(log[i], snapshotIndex[i])
      /\ log \in [Server -> Seq(LogEntries)] /\ LastIndex(i) \in Nat
  <2>1. IsCovered(i) /\ InPlace(log[i], snapshotIndex[i])
    BY DEF ExecutedIsCovered, EntriesAtIndex, InPlace
  <2>2. log \in [Server -> Seq(LogEntries)] /\ snapshotIndex \in [Server -> Nat]
    BY DEF TypeInv, TypeOK, LogTypeOK
  <2>3. snapshotIndex[i] \in Nat /\ log[i] \in Seq(LogEntries)
    BY <2>2
  <2>4. Len(log[i]) \in Nat
    BY <2>3
  <2>. QED  BY <2>1, <2>2, <2>3, <2>4, InPlaceLast DEF LastIndex
<1>2. CASE log'[i] = log[i]
  BY <1>1, <1>2, HeldTyped
<1>3. ASSUME NEW c \in DOMAIN calls, BecomeLeader(c), log'[i] # log[i]
      PROVE  \E entry \in LogEntries : entry.index = LastIndex(i) + 1
                                       /\ log'[i] = Append(log[i], entry)
  <2>1. /\ log' = [log EXCEPT ![c.src] =
              Append(@, [term |-> currentTerm[c.src], index |-> LastIndex(c.src) + 1, cmd |-> Nil])]
    BY <1>3 DEF BecomeLeader
  <2>2. c.src = i
    BY <1>1, <1>3, <2>1
  <2>3. currentTerm[i] \in Nat
    BY DEF TypeInv, TypeOK, ElectionTypeOK
  <2>4. [term |-> currentTerm[i], index |-> LastIndex(i) + 1, cmd |-> Nil] \in LogEntries
    BY <1>1, <2>3 DEF LogEntries
  <2>. QED  BY <1>1, <2>1, <2>2, <2>4
<1>4. ASSUME NEW j \in Server, NEW cmd \in Command, Propose(j, cmd), log'[i] # log[i]
      PROVE  \E entry \in LogEntries : entry.index = LastIndex(i) + 1
                                       /\ log'[i] = Append(log[i], entry)
  <2>1. /\ log' = [log EXCEPT ![j] =
              Append(@, [term |-> currentTerm[j], index |-> LastIndex(j) + 1, cmd |-> cmd])]
    BY <1>4 DEF Propose
  <2>2. j = i
    BY <1>1, <1>4, <2>1
  <2>3. currentTerm[i] \in Nat
    BY DEF TypeInv, TypeOK, ElectionTypeOK
  <2>4. [term |-> currentTerm[i], index |-> LastIndex(i) + 1, cmd |-> cmd] \in LogEntries
    BY <1>1, <2>3 DEF LogEntries
  <2>. QED  BY <1>1, <2>1, <2>2, <2>4
<1>5. ASSUME NEW entry \in LogEntries, entry.index = LastIndex(i) + 1,
             log'[i] = Append(log[i], entry)
      PROVE  /\ InPlace(log'[i], snapshotIndex[i])
             /\ Held(i) <= Len(log'[i]) /\ Len(log'[i]) \in Nat
             /\ \A p \in 1..Held(i) : log'[i][p] = log[i][p]
  BY <1>1, <1>5, AppendKeeps
<1>6. ASSUME NEW c \in DOMAIN calls, RejectMismatch(c) \/ AcceptEntries(c), log'[i] # log[i]
      PROVE  i = c.dst /\ RequestFits(c)
  <2>1. FollowLeader(c) /\ \E l : log' = [log EXCEPT ![c.dst] = l]
    BY <1>6 DEF RejectMismatch, AcceptEntries
  <2>2. i = c.dst
    BY <1>1, <1>6, <2>1
  <2>. QED  BY <2>1, <2>2 DEF RequestsFit, FollowLeader
<1>7. ASSUME NEW c \in DOMAIN calls, RejectMismatch(c), log'[i] # log[i]
      PROVE  /\ InPlace(log'[i], snapshotIndex[i])
             /\ Held(i) <= Len(log'[i]) /\ Len(log'[i]) \in Nat
             /\ \A p \in 1..Held(i) : log'[i][p] = log[i][p]
  BY <1>1, <1>6, <1>7, MismatchKeeps
<1>8. ASSUME NEW c \in DOMAIN calls, AcceptEntries(c), log'[i] # log[i]
      PROVE  /\ InPlace(log'[i], snapshotIndex[i])
             /\ Held(i) <= Len(log'[i]) /\ Len(log'[i]) \in Nat
             /\ \A p \in 1..Held(i) : log'[i][p] = log[i][p]
  BY <1>1, <1>6, <1>8, AcceptKeeps
<1>. QED  BY <1>2, <1>3, <1>4, <1>5, <1>7, <1>8

LEMMA SnapshotKeepsPlaces ==
  ASSUME TypeInv, EntriesAtIndex, NEW j \in Server, TakeSnapshot(j), NEW i \in Server
  PROVE  /\ InPlace(log'[i], snapshotIndex'[i])
         /\ (snapshotIndex'[i] # snapshotIndex[i] \/ log'[i] # log[i]) =>
              snapshotIndex'[i] = lastApplied[i] /\ applying[i] = << >>
<1>1. /\ log \in [Server -> Seq(LogEntries)] /\ snapshotIndex \in [Server -> Nat]
      /\ lastApplied[j] \in Nat /\ log[j] \in Seq(LogEntries) /\ snapshotIndex[j] \in Nat
      /\ applyPhase[j] = "snapshot" => applying[j] = << >>
  BY DEF TypeInv, TypeOK, LogTypeOK, ApplyTypeOK
<1>2. InPlace(log[i], snapshotIndex[i]) /\ InPlace(log[j], snapshotIndex[j])
  BY DEF EntriesAtIndex, InPlace
<1>3. CASE ~CanCompact(j)
  BY <1>2, <1>3 DEF TakeSnapshot, logVars
<1>4. CASE CanCompact(j)
  <2>1. /\ applying[j] = << >>
        /\ snapshotIndex' = [snapshotIndex EXCEPT ![j] = lastApplied[j]]
        /\ log' = [log EXCEPT ![j] = CompactTo(@, snapshotIndex[j], lastApplied[j])]
    BY <1>1, <1>4 DEF TakeSnapshot
  <2>2. lastApplied[j] - snapshotIndex[j] \in 1..Len(log[j])
    BY <1>4 DEF CanCompact, HasEntry, HasLogEntry, LogicalToPhysical
  <2>3. InPlace(CompactTo(log[j], snapshotIndex[j], lastApplied[j]), lastApplied[j])
    BY <1>1, <1>2, <2>2, InPlaceCompact
  <2>. QED  BY <1>1, <1>2, <2>1, <2>3
<1>. QED  BY <1>3, <1>4

\* A step of a system whose requests fit.
LEMMA FitStep ==
  ASSUME TypeInv, TypeInv', RequestsFit, EntriesAtIndex, ExecutedIsCovered, [Next]_vars
  PROVE  KeepsExecuted /\ EntriesAtIndex'
<1>1. CASE \E j \in Server : TakeSnapshot(j)
  <2>1. PICK j \in Server : TakeSnapshot(j)
    BY <1>1
  <2>2. EntriesAtIndex'
    BY <2>1, SnapshotKeepsPlaces DEF EntriesAtIndex, InPlace
  <2>3. ASSUME NEW i \in Server,
               NEW n \in (snapshotIndex'[i] + 1)..(lastApplied[i] + Len(applying[i])),
               HasEntry(i, n)
        PROVE  HasEntry(i, n)' /\ Entry(i, n)' = Entry(i, n)
    <3>1. lastApplied[i] \in Nat
      BY DEF TypeInv, TypeOK, ApplyTypeOK
    <3>2. ~(snapshotIndex'[i] = lastApplied[i] /\ applying[i] = << >>)
      BY <2>3, <3>1, EmptySeq
    <3>3. snapshotIndex'[i] = snapshotIndex[i] /\ log'[i] = log[i]
      BY <2>1, <3>2, SnapshotKeepsPlaces
    <3>. QED  BY <2>3, <3>3 DEF HasEntry, Entry
  <2>. QED  BY <2>2, <2>3 DEF KeepsExecuted
<1>2. CASE ~\E j \in Server : TakeSnapshot(j)
  <2>1. snapshotIndex' = snapshotIndex
    <3>1. ASSUME NEW i \in Server, \/ FetchCommitted(i) \/ ApplyEntry(i) \/ CrashInSnapshot(i)
                                   \/ \E left : Reboot(i, left)
          PROVE  snapshotIndex' = snapshotIndex
      BY <3>1 DEF FetchCommitted, ApplyEntry, CrashInSnapshot, Reboot, logVars
    <3>. QED  BY <1>2, <3>1, FileKinds
  <2>2. ASSUME NEW i \in Server
        PROVE  /\ InPlace(log'[i], snapshotIndex[i])
               /\ Held(i) <= Len(log'[i]) /\ Len(log'[i]) \in Nat
               /\ \A p \in 1..Held(i) : log'[i][p] = log[i][p]
    BY <1>2, LogKinds, KeptAtNode
  <2>3. EntriesAtIndex'
    BY <2>1, <2>2 DEF EntriesAtIndex, InPlace
  <2>4. ASSUME NEW i \in Server,
               NEW n \in (snapshotIndex'[i] + 1)..(lastApplied[i] + Len(applying[i]))
        PROVE  HasEntry(i, n)' /\ Entry(i, n)' = Entry(i, n)
    BY <2>1, <2>2, KeptByPrefix DEF ExecutedIsCovered
  <2>. QED  BY <2>3, <2>4 DEF KeepsExecuted
<1>. QED  BY <1>1, <1>2

\* What requests that fit preserve: every entry stands at its place, and every command
\* a node has executed is in one of its two files.
LEMMA FittingRequestsCover ==
  Spec /\ []RequestsFit => [](EntriesAtIndex /\ ExecutedIsCovered)
<1>1. Init => EntriesAtIndex /\ ExecutedIsCovered
  <2> SUFFICES ASSUME Init
               PROVE  EntriesAtIndex /\ ExecutedIsCovered
    OBVIOUS
  <2>1. ASSUME NEW i \in Server
        PROVE  IsCovered(i) /\ Len(log[i]) = 0
    <3>1. /\ lastApplied[i] = 0 /\ snapshotIndex[i] = 0 /\ machine[i] = << >>
          /\ applying[i] = << >> /\ snapshotFile[i].data = << >> /\ log[i] = << >>
      BY DEF Init
    <3>2. << >> \in Seq(Command) /\ << >> \in Seq(LogEntries)
      OBVIOUS
    <3>3. Covers(<< >>, << >>, 0, << >>, << >>)
      BY <3>2, SnapshotCovers
    <3>. QED  BY <3>1, <3>3, EmptySeq DEF IsCovered
  <2>2. ExecutedIsCovered
    BY <2>1 DEF ExecutedIsCovered
  <2>3. \A i \in Server : \A p \in 1..Len(log[i]) : FALSE
    BY <2>1
  <2>. QED  BY <2>2, <2>3 DEF EntriesAtIndex
<1>2. TypeInv /\ TypeInv' /\ RequestsFit /\ EntriesAtIndex /\ ExecutedIsCovered /\ [Next]_vars
        => EntriesAtIndex' /\ ExecutedIsCovered'
  BY FitStep, CoveredStep
<1>. QED  BY <1>1, <1>2, TypesAreKept, PTL DEF Spec

LEMMA CoveredHolds ==
  ASSUME TypeInv, EntriesAtIndex, ExecutedIsCovered, NEW i \in Server
  PROVE  HoldsExecuted(i)
<1>1. /\ IsCovered(i)
      /\ \A p \in 1..Len(log[i]) : log[i][p].index = snapshotIndex[i] + p
  BY DEF ExecutedIsCovered, EntriesAtIndex
<1>2. /\ lastApplied[i] \in Nat /\ snapshotIndex[i] \in Nat /\ Len(log[i]) \in Nat
      /\ Len(applying[i]) \in Nat /\ lastApplied[i] - snapshotIndex[i] <= Len(log[i])
  <2>1. /\ Len(applying[i]) \in Nat /\ Len(log[i]) \in Nat
        /\ lastApplied[i] \in Nat /\ snapshotIndex[i] \in Nat
    BY <1>1, HeldTyped
  <2>2. (lastApplied[i] - snapshotIndex[i]) + Len(applying[i]) <= Len(log[i])
    BY <1>1 DEF IsCovered, Covers
  <2>. QED  BY <2>1, <2>2
<1>3. ASSUME NEW n \in (snapshotIndex[i] + 1)..lastApplied[i]
      PROVE  HasEntry(i, n) /\ Entry(i, n).index = n
  <2>1. n - snapshotIndex[i] \in 1..Len(log[i]) /\ snapshotIndex[i] + (n - snapshotIndex[i]) = n
    BY <1>2
  <2>. QED  BY <1>1, <2>1 DEF HasEntry, HasLogEntry, Entry, GetLogEntry, LogicalToPhysical
<1>. QED  BY <1>3 DEF HoldsExecuted

\* Snapshots, restarts and crashes between the two writes of maybeSnapshot
\* (raft.go:822-848) lose no executed command, as long as no request names an entry
\* its receiver has executed otherwise, which sendAppendEntries (raft.go:458-466) does
\* for an index inside the leader's own snapshot.  No node has to be left out.
THEOREM SnapshotsLoseNothing ==
  Spec /\ []RequestsFit => []FilesCoverTheMachine /\ [](\A i \in Server : HoldsExecuted(i))
<1>1. TypeInv /\ FileIsNewer /\ ExecutedIsCovered => FilesCoverTheMachine
  BY CoveredImpliesFiles
<1>2. TypeInv /\ EntriesAtIndex /\ ExecutedIsCovered => \A i \in Server : HoldsExecuted(i)
  BY CoveredHolds
<1>. QED  BY <1>1, <1>2, TypesAreKept, SnapshotFileIsNewer, FittingRequestsCover, PTL

\* Under the same condition HandleAppendEntries (raft.go:332-389) takes out of no log
\* what its node has executed.
THEOREM ExecutedEntriesStay == Spec /\ []RequestsFit => [][KeepsExecuted]_vars
<1>1. TypeInv /\ TypeInv' /\ RequestsFit /\ EntriesAtIndex /\ ExecutedIsCovered /\ [Next]_vars
        => KeepsExecuted
  BY FitStep
<1>. QED  BY <1>1, TypesAreKept, FittingRequestsCover, PTL DEF Spec
=============================================================================
