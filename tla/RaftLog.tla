------------------------------ MODULE RaftLog ------------------------------
(***************************************************************************)
(* The log of a Raft node (src/raft/raft.go, src/raft/state.go): a Go      *)
(* slice whose entries carry their logical index, behind a snapshot that   *)
(* replaced every entry up to snapshotIndex.  A logical index is turned    *)
(* into a position of the slice by subtracting snapshotIndex; nothing in   *)
(* the code keeps the position and the Index field of an entry equal, so   *)
(* neither does this module.                                               *)
(*                                                                         *)
(* A log is a sequence of entries; position p of the sequence is physical  *)
(* index p - 1 of the slice.  Go's uint64 indices stay far below 2^63.     *)
(***************************************************************************)
EXTENDS Integers, Sequences

\* LogicalToPhysical(i, s) is the position that logical index i has behind a
\* snapshot of the first s entries; it may fall outside the log.
LogicalToPhysical(index, snapshotIndex) == index - snapshotIndex

LastLogIndex(log, snapshotIndex) ==
  IF log = << >> THEN snapshotIndex ELSE log[Len(log)].index

LastLogTerm(log, snapshotTerm) ==
  IF log = << >> THEN snapshotTerm ELSE log[Len(log)].term

\* getLogEntry answers an entry and not nil.
HasLogEntry(log, snapshotIndex, index) ==
  LogicalToPhysical(index, snapshotIndex) \in 1..Len(log)

GetLogEntry(log, snapshotIndex, index) ==
  log[LogicalToPhysical(index, snapshotIndex)]

\* The entries getLogEntry finds at the logical indices first..last, in order.
\* The positions it finds are consecutive, so the loop copies a subsequence.
EntriesBetween(log, snapshotIndex, first, last) ==
  LET from == LogicalToPhysical(first, snapshotIndex)
      to   == LogicalToPhysical(last, snapshotIndex)
  IN  SubSeq(log, IF from < 1 THEN 1 ELSE from,
                  IF to > Len(log) THEN Len(log) ELSE to)

\* HandleAppendEntries cuts the log at the entry that does not match.
TruncateFrom(log, snapshotIndex, index) ==
  SubSeq(log, 1, LogicalToPhysical(index, snapshotIndex) - 1)

\* Mutant: an entry at the position is taken for the same one.
AppendMissing(log, snapshotIndex, entry) ==
  IF LogicalToPhysical(entry.index, snapshotIndex) > Len(log)
  THEN Append(log, entry) ELSE log

\* One turn of the append loop of HandleAppendEntries.  An entry beyond the end
\* of the slice goes to its end, whether or not that is its position.
AppendOne(log, snapshotIndex, entry) ==
  LET physical == LogicalToPhysical(entry.index, snapshotIndex) IN
  IF entry.index <= snapshotIndex THEN log
  ELSE IF physical > Len(log) THEN Append(log, entry)
  ELSE IF log[physical].term # entry.term
       THEN Append(SubSeq(log, 1, physical - 1), entry)
       ELSE log

\* The append loop: after[k] is the log once the first k entries are handled.
AppendAll(log, snapshotIndex, entries) ==
  LET after[k \in 0..Len(entries)] ==
        IF k = 0 THEN log ELSE AppendOne(after[k - 1], snapshotIndex, entries[k])
  IN  after[Len(entries)]

\* The log that is left once a snapshot covers everything up to index: the
\* entries behind index's position, none if that position is the last one.
CompactTo(log, snapshotIndex, index) ==
  SubSeq(log, LogicalToPhysical(index, snapshotIndex) + 1, Len(log))

\* Mutant: the longer log wins.
LongerLogWins(lastTerm, lastIndex, myTerm, myIndex) == lastIndex >= myIndex

\* HandleRequestVote and Raft's election restriction: the log that ends in
\* (lastTerm, lastIndex) is at least as up to date as the one that ends in
\* (myTerm, myIndex).
UpToDate(lastTerm, lastIndex, myTerm, myIndex) ==
  \/ lastTerm > myTerm
  \/ lastTerm = myTerm /\ lastIndex >= myIndex
=============================================================================
