--------------------------- MODULE RaftLogSafety ----------------------------
(***************************************************************************)
(* The replicated log is safe as long as nobody takes a snapshot, for      *)
(* every set of servers and every bound.  The first part has the inductive *)
(* invariant and what a step that keeps to the discipline of the log does  *)
(* to it, one lemma for each conjunct; the second part shows that each     *)
(* action of module Raft is such a step.                                   *)
(*                                                                         *)
(* The invariant speaks of two histories that the state of Raft does not   *)
(* record, and that are therefore parameters:                              *)
(*   H[t]     the log of the leader of term t when it last led, << >> if   *)
(*            term t has no leader yet                                     *)
(*   A[t][q]  up to which index node q has acknowledged H[t] to a leader   *)
(*            that still led term t; its end for the leader itself         *)
(* Both only grow.                                                         *)
(***************************************************************************)
EXTENDS RaftProofs

NoSnapshots == \A i \in Server : snapshotFile[i].index = 0

\* L and M hold the same entries up to position n.
Agree(L, M, n) ==
  /\ n <= Len(L) /\ n <= Len(M)
  /\ \A p \in 1..n : L[p] = M[p]

\* The entry of term t at position n is in L.
Has(L, n, t) == n \in 1..Len(L) /\ L[n].term = t

\* The positions at which the leader of term t appended an entry of its term.
Created(H, t) == {n \in 1..Len(H[t]) : H[t][n].term = t}

\* Every entry of L is at its position, and L agrees up to it with the log of
\* the leader that created it.
GoodLog(H, L) ==
  \A p \in 1..Len(L) :
    /\ L[p].index = p
    /\ L[p].term \in Terms
    /\ Agree(L, H[L[p].term], p)

\* A later leader was elected by voters none of which has the entry of term t at
\* position n: it will never be committed.
Overruled(A, n, t) ==
  \E e \in elected : e.term > t /\ \A q \in e.voters : A[t][q] < n

\* A majority has the entry of term t at position n: it will never be lost.
Chosen(H, A, n, t) ==
  /\ n \in Created(H, t)
  /\ {q \in Server : A[t][q] >= n} \in Quorums

\* The election restriction for a voter that has the entry of term t at n.
CoversEntry(L, n, t) == UpToDate(LastLogTerm(L, 0), Len(L), t, n)

Leads(i, t) == state[i] = Leader /\ currentTerm[i] = t

\* Node c campaigns with the vote of q, which may be its own.
HasVote(c, q) ==
  /\ state[c] = Candidate
  /\ q = c \/ Granted(q, c, currentTerm[c])

-----------------------------------------------------------------------------

HistoryTyped(H, A) ==
  /\ H \in [Terms -> Seq(LogEntries)]
  /\ A \in [Terms -> [Server -> Nat]]
  /\ \A t \in Terms : \A q \in Server :
       /\ A[t][q] <= Len(H[t])
       /\ A[t][q] > 0 => t <= currentTerm[q]

\* What a leader has in its log, it or an earlier leader created.
LeaderLogs(H) ==
  \A t \in Terms :
    /\ GoodLog(H, H[t])
    /\ \A p \in 1..Len(H[t]) : H[t][p].term <= t
    /\ H[t] # << >> <=> \E e \in elected : e.term = t
    /\ H[t] # << >> => H[t][Len(H[t])].term = t

LogsAreGood(H) == \A i \in Server : GoodLog(H, log[i])

LeadersHold(H, A) ==
  \A i \in Server : state[i] = Leader =>
    /\ log[i] = H[currentTerm[i]]
    /\ A[currentTerm[i]][i] = Len(log[i])

CampaignsAreNew ==
  /\ \A e \in elected : e.term > 0
  /\ \A i \in Server :
       state[i] = Candidate => currentTerm[i] > 0 /\ ~WasElected(i, currentTerm[i])

\* A late goroutine of sendAppendEntries may give a node entries of terms to
\* come; whoever elected their leader will not vote for that node.
FutureIsLost ==
  \A c \in Server : \A p \in 1..Len(log[c]) : \A e \in elected :
    e.term = log[c][p].term /\ e.term > currentTerm[c]
      => \A q \in e.voters : ~HasVote(c, q)

\* A vote request describes the log of its candidate for as long as it matters.
RequestsDescribeLogs ==
  \A c \in DOMAIN calls :
    /\ c.type = "RequestVote"
    /\ state[c.src] = Candidate /\ currentTerm[c.src] = c.term
    => c.lastLogIndex = Len(log[c.src]) /\ c.lastLogTerm = LastLogTerm(log[c.src], 0)

\* A node keeps what it has acknowledged, and votes for nobody who lacks it.
AckedIsKept(H, A) ==
  \A t \in Terms : \A n \in Created(H, t) : \A q \in Server : A[t][q] >= n =>
    \/ Overruled(A, n, t)
    \/ /\ Has(log[q], n, t)
       /\ \A c \in Server : HasVote(c, q) /\ currentTerm[c] > t => CoversEntry(log[c], n, t)

\* Every leader elected since has it, and has kept it.
ElectedHold(H, A) ==
  \A t \in Terms : \A n \in Created(H, t) : \A e \in elected : e.term >= t =>
    \/ Overruled(A, n, t)
    \/ Has(log[e.leader], n, t) /\ Has(H[e.term], n, t)

\* The log that an AppendEntries request describes: the position before its
\* entries stands for what the leader of that term had up to it.
RequestLog(H, c) == SubSeq(H[c.prevLogTerm], 1, c.prevLogIndex) \o c.entries

\* The sender did not have the position before the entries any more.
Dangling(c) == c.prevLogTerm = 0 /\ c.prevLogIndex > 0

DanglingOK(H, A, c) ==
  /\ c.entries = << >>
  /\ ~Leads(c.src, c.term)
  /\ \A t \in Terms : \A n \in Created(H, t) : t <= c.term =>
       Overruled(A, n, t) \/ n < c.prevLogIndex

\* A request leads nobody to drop an entry that may be committed.
RequestOK(H, A, c) ==
  LET L == RequestLog(H, c) IN
  /\ c.prevLogTerm \in Terms
  /\ c.prevLogIndex = 0 \/ Has(H[c.prevLogTerm], c.prevLogIndex, c.prevLogTerm)
  /\ GoodLog(H, L)
  /\ Leads(c.src, c.term) => Agree(L, H[c.term], Len(L))
  /\ \A t \in Terms : \A n \in Created(H, t) : t <= c.term =>
       \/ Overruled(A, n, t)
       \/ Has(L, n, t)
       \/ t = c.term /\ Agree(L, H[t], Len(L)) /\ Len(L) < n
  /\ c.leaderCommit > 0 =>
       \E t \in Terms : \E n \in Created(H, t) :
         Chosen(H, A, n, t) /\ t <= c.term /\ c.leaderCommit <= n /\ Has(L, n, t)

SendOK(H, A, c) ==
  c.leaderCommit > 0 =>
    \E t \in Terms : \E n \in Created(H, t) :
      Chosen(H, A, n, t) /\ t <= c.term /\ c.leaderCommit <= n

ReplyOK(A, c) ==
  /\ WasElected(c.src, c.term)
  /\ Leads(c.src, c.term) =>
       IF c.success THEN c.lastSent <= A[c.term][c.dst]
                    ELSE c.matchIndex <= Len(log[c.src])

CallOK(H, A, c) ==
  /\ c.type = "AppendEntries"
       => IF Dangling(c) THEN DanglingOK(H, A, c) ELSE RequestOK(H, A, c)
  /\ c.type = "SendAppendEntries" => SendOK(H, A, c)
  /\ c.type = "AppendEntriesReply" => ReplyOK(A, c)

CallsOK(H, A) == \A c \in DOMAIN calls : CallOK(H, A, c)

TablesOK(H, A) ==
  \A i, j \in Server : state[i] = Leader /\ i # j =>
    /\ matchIndex[i][j] <= A[currentTerm[i]][j]
    /\ nextIndex[i][j] <= Len(log[i]) + 1

\* While a leader leads, the nodes of its term keep all that they acknowledged.
AckedByTerm(A) ==
  \A i, q \in Server : Leads(i, currentTerm[q]) =>
    Agree(log[q], log[i], A[currentTerm[q]][q])

\* A log L of term u is committed up to position k: it holds what a leader of
\* that term or an earlier one had up to a chosen entry at k or behind it.
CommittedUpTo(H, A, L, u, k) ==
  k > 0 =>
    \E t \in Terms : \E n \in Created(H, t) :
      /\ Chosen(H, A, n, t)
      /\ t <= u
      /\ k <= n
      /\ Agree(L, H[t], k)

CommitsOK(H, A) ==
  \A i \in Server : CommittedUpTo(H, A, log[i], currentTerm[i], commitIndex[i])

LogInv(H, A) ==
  /\ HistoryTyped(H, A)
  /\ LeaderLogs(H)
  /\ LogsAreGood(H)
  /\ LeadersHold(H, A)
  /\ CampaignsAreNew
  /\ FutureIsLost
  /\ RequestsDescribeLogs
  /\ AckedIsKept(H, A)
  /\ ElectedHold(H, A)
  /\ CallsOK(H, A)
  /\ TablesOK(H, A)
  /\ AckedByTerm(A)
  /\ CommitsOK(H, A)

-----------------------------------------------------------------------------
(* Logs. *)

LEMMA AgreeSym ==
  ASSUME NEW L, NEW M, NEW n, Agree(L, M, n)
  PROVE  Agree(M, L, n)
  BY DEF Agree

LEMMA AgreeTrans ==
  ASSUME NEW L, NEW M, NEW N, NEW n, Agree(L, M, n), Agree(M, N, n)
  PROVE  Agree(L, N, n)
  BY DEF Agree

LEMMA AgreeShorter ==
  ASSUME NEW E, NEW L \in Seq(E), NEW M \in Seq(E), NEW n \in Nat, NEW m \in Nat,
         m <= n, Agree(L, M, n)
  PROVE  Agree(L, M, m)
  BY DEF Agree

\* In a good log the entry of term t at position n stands for the log of t's
\* leader up to n.
LEMMA HasAgrees ==
  ASSUME NEW H, NEW L, GoodLog(H, L), NEW n, NEW t, Has(L, n, t)
  PROVE  Agree(L, H[t], n) /\ t \in Terms
  BY DEF GoodLog, Has

\* The index of the last entry of a good log is its length.
LEMMA GoodLastIndex ==
  ASSUME NEW H, NEW L \in Seq(LogEntries), GoodLog(H, L)
  PROVE  LastLogIndex(L, 0) = Len(L)
<1>1. CASE L = << >>
  BY <1>1 DEF LastLogIndex
<1>2. CASE L # << >>
  <2>1. Len(L) \in 1..Len(L)
    BY <1>2
  <2>. QED  BY <1>2, <2>1 DEF LastLogIndex, GoodLog
<1>. QED  BY <1>1, <1>2

\* A log that agrees with a good one up to its own end is good.
LEMMA GoodPrefix ==
  ASSUME NEW H, H \in [Terms -> Seq(LogEntries)],
         NEW L \in Seq(LogEntries), NEW M \in Seq(LogEntries),
         GoodLog(H, M), Agree(L, M, Len(L))
  PROVE  GoodLog(H, L)
<1> SUFFICES ASSUME NEW p \in 1..Len(L)
             PROVE  /\ L[p].index = p
                    /\ L[p].term \in Terms
                    /\ Agree(L, H[L[p].term], p)
  BY DEF GoodLog
<1>1. L[p] = M[p] /\ p \in 1..Len(M) /\ Len(L) \in Nat
  BY DEF Agree
<1>2. M[p].index = p /\ M[p].term \in Terms /\ Agree(M, H[M[p].term], p)
  BY <1>1 DEF GoodLog
<1>3. Agree(L, M, p)
  BY DEF Agree
<1>. QED  BY <1>1, <1>2, <1>3, AgreeTrans

\* The terms in a good log do not grow beyond its last term.
LEMMA TermsUpToLast ==
  ASSUME NEW H, H \in [Terms -> Seq(LogEntries)], LeaderLogs(H),
         NEW L \in Seq(LogEntries), GoodLog(H, L), NEW p \in 1..Len(L),
         NEW q \in p..Len(L)
  PROVE  L[p].term <= L[q].term
<1>1. q \in 1..Len(L) /\ Len(L) \in Nat
  OBVIOUS
<1>2. L[q].term \in Terms /\ Agree(L, H[L[q].term], q)
  BY <1>1 DEF GoodLog
<1>3. p <= Len(H[L[q].term]) /\ L[p] = H[L[q].term][p]
  BY <1>1, <1>2 DEF Agree
<1>4. p \in 1..Len(H[L[q].term])
  BY <1>2, <1>3
<1>. QED  BY <1>2, <1>3, <1>4 DEF LeaderLogs

\* A node that has the entry of term t at n only accepts the log of a candidate
\* that covers it.
LEMMA HasIsCovered ==
  ASSUME NEW H, H \in [Terms -> Seq(LogEntries)], LeaderLogs(H),
         NEW L \in Seq(LogEntries), GoodLog(H, L), NEW n, NEW t, Has(L, n, t)
  PROVE  CoversEntry(L, n, t)
<1>1. /\ n \in 1..Len(L) /\ Len(L) \in n..Len(L) /\ L # << >>
      /\ L[n].term = t /\ t \in Terms /\ L[Len(L)].term \in Terms /\ Len(L) \in Nat
  BY HasAgrees DEF Has, GoodLog
<1>2. L[n].term <= L[Len(L)].term
  BY <1>1, TermsUpToLast
<1>. QED  BY <1>1, <1>2 DEF CoversEntry, UpToDate, LastLogTerm, Terms

LEMMA CoversTrans ==
  ASSUME NEW L \in Seq(LogEntries), NEW M \in Seq(LogEntries), NEW n \in Nat, NEW t \in Nat,
         CoversEntry(L, n, t),
         UpToDate(LastLogTerm(M, 0), Len(M), LastLogTerm(L, 0), Len(L))
  PROVE  CoversEntry(M, n, t)
<1>1. \A N \in Seq(LogEntries) : LastLogTerm(N, 0) \in Nat /\ Len(N) \in Nat
  <2> TAKE N \in Seq(LogEntries)
  <2>1. LastLogIndex(N, 0) \in Nat /\ LastLogTerm(N, 0) \in Nat
    BY LastLogTyped
  <2>. QED  BY <2>1
<1>. QED  BY <1>1 DEF CoversEntry, UpToDate

\* A good log that covers an entry which is not overruled has it: this is what
\* the election restriction is for.
LEMMA CoversHas ==
  ASSUME NEW H, NEW A, HistoryTyped(H, A), LeaderLogs(H), ElectedHold(H, A),
         NEW t \in Terms, NEW n \in Created(H, t), ~Overruled(A, n, t),
         NEW L \in Seq(LogEntries), GoodLog(H, L), CoversEntry(L, n, t)
  PROVE  Has(L, n, t)
<1>1. /\ n \in 1..Len(H[t]) /\ H[t][n].term = t /\ t \in Nat /\ Len(L) \in Nat
      /\ H \in [Terms -> Seq(LogEntries)]
  BY DEF Created, Terms, HistoryTyped
<1> DEFINE u == LastLogTerm(L, 0)
<1>2. L # << >>
  <2>1. CASE L = << >>
    <3>1. u = 0 /\ Len(L) = 0
      BY <2>1 DEF LastLogTerm
    <3>2. t = 0
      BY <1>1, <2>1, <3>1 DEF CoversEntry, UpToDate
    <3>3. H[t] # << >>
      BY <1>1
    <3>4. \E e \in elected : e.term = t
      BY <3>3 DEF LeaderLogs
    <3>. QED  BY <1>1, <2>1, <3>1 DEF CoversEntry, UpToDate
  <2>. QED  BY <2>1
<1>3. Len(L) \in 1..Len(L) /\ u = L[Len(L)].term
  BY <1>2 DEF LastLogTerm
<1>4. u \in Terms /\ Agree(L, H[u], Len(L)) /\ u \in Nat
  BY <1>3 DEF GoodLog, Terms
<1>5. CASE u = t
  <2>1. Len(L) >= n
    BY <1>1, <1>4, <1>5 DEF CoversEntry, UpToDate
  <2>2. n \in 1..Len(L) /\ L[n] = H[t][n]
    BY <1>1, <1>4, <1>5, <2>1 DEF Agree
  <2>. QED  BY <1>1, <2>2 DEF Has
<1>6. CASE u # t
  <2>1. u > t
    BY <1>1, <1>4, <1>6 DEF CoversEntry, UpToDate
  <2>2. H[u] # << >>
    BY <1>3, <1>4 DEF Agree
  <2>3. PICK e \in elected : e.term = u
    BY <1>4, <2>2 DEF LeaderLogs
  <2>4. Has(H[u], n, t)
    BY <1>1, <1>4, <2>1, <2>3 DEF ElectedHold
  <2>5. GoodLog(H, H[u]) /\ H[u] \in Seq(LogEntries)
    BY <1>1, <1>4 DEF LeaderLogs
  <2>6. CASE n <= Len(L)
    <3>1. L[n] = H[u][n]
      BY <1>1, <1>4, <2>6 DEF Agree
    <3>. QED  BY <1>1, <2>4, <2>6, <3>1 DEF Has
  <2>7. CASE n > Len(L)
    <3>1. H[u][Len(L)] = L[Len(L)]
      BY <1>3, <1>4 DEF Agree
    <3>2. Len(L) \in 1..Len(H[u]) /\ n \in Len(L)..Len(H[u])
      BY <1>3, <1>4, <2>4, <2>7 DEF Agree, Has
    <3>3. H[u][Len(L)].term <= H[u][n].term
      BY <1>1, <2>5, <3>2, TermsUpToLast
    <3>. QED  BY <1>1, <1>3, <1>4, <2>1, <2>4, <3>1, <3>3 DEF Has
  <2>. QED  BY <1>1, <2>6, <2>7
<1>. QED  BY <1>5, <1>6

\* An entry that a majority has cannot be overruled: the later leader's majority
\* would have met it.
LEMMA ChosenStays ==
  ASSUME ElectionInv, NEW H, NEW A, HistoryTyped(H, A), NEW t \in Terms, NEW n,
         Chosen(H, A, n, t)
  PROVE  ~Overruled(A, n, t)
<1> SUFFICES ASSUME NEW e \in elected, \A q \in e.voters : A[t][q] < n
             PROVE  FALSE
  BY DEF Overruled
<1>1. e.voters \in Quorums
  BY DEF ElectionInv, ElectedAreBacked
<1>2. PICK q \in e.voters : q \in {r \in Server : A[t][r] >= n}
  BY <1>1, QuorumsIntersect DEF Chosen
<1>3. A[t][q] \in Nat /\ n \in Nat /\ A[t][q] >= n /\ A[t][q] < n
  BY <1>2 DEF HistoryTyped, Chosen, Created
<1>. QED  BY <1>3

-----------------------------------------------------------------------------
(* The append loop, for a node without a snapshot. *)

\* The entries are the end of a good log R that agrees with L before them.
EndOf(R, prev, entries) ==
  /\ Len(R) = prev + Len(entries)
  /\ \A k \in 1..Len(entries) : R[prev + k] = entries[k]

\* The first n entries of a log.
LEMMA FirstEntries ==
  ASSUME NEW E, NEW R \in Seq(E), NEW n \in 0..Len(R)
  PROVE  /\ SubSeq(R, 1, n) \in Seq(E)
         /\ Len(SubSeq(R, 1, n)) = n
         /\ \A p \in 1..n : SubSeq(R, 1, n)[p] = R[p]
         /\ Agree(SubSeq(R, 1, n), R, n)
<1>1. 1 \in Int /\ n \in Int /\ n \in Nat /\ Len(R) \in Nat /\ \A p \in 1..n : R[p] \in E
  OBVIOUS
<1>2. /\ SubSeq(R, 1, n) \in Seq(E)
      /\ Len(SubSeq(R, 1, n)) = IF 1 <= n THEN n - 1 + 1 ELSE 0
      /\ \A p \in 1..(n - 1 + 1) : SubSeq(R, 1, n)[p] = R[1 + p - 1]
  BY <1>1, SubSeqProperties
<1>3. \A p \in 1..n : SubSeq(R, 1, n)[p] = R[p]
  BY <1>1, <1>2
<1>. QED  BY <1>1, <1>2, <1>3 DEF Agree

\* A log that is one entry longer than what agrees with R.
LEMMA OneMore ==
  ASSUME NEW E, NEW R \in Seq(E), NEW n \in 1..Len(R), NEW L \in Seq(E),
         Agree(L, R, n - 1), Len(L) = n - 1
  PROVE  Append(L, R[n]) = SubSeq(R, 1, n)
<1>1. R[n] \in E /\ n \in 0..Len(R) /\ n \in Nat
  OBVIOUS
<1>2. /\ Append(L, R[n]) \in Seq(E) /\ Len(Append(L, R[n])) = n
      /\ \A p \in 1..(n - 1) : Append(L, R[n])[p] = L[p]
      /\ Append(L, R[n])[n] = R[n]
  BY <1>1, AppendProperties
<1>3. /\ SubSeq(R, 1, n) \in Seq(E) /\ Len(SubSeq(R, 1, n)) = n
      /\ \A p \in 1..n : SubSeq(R, 1, n)[p] = R[p]
  BY <1>1, FirstEntries
<1>4. \A p \in 1..n : Append(L, R[n])[p] = SubSeq(R, 1, n)[p]
  BY <1>1, <1>2, <1>3 DEF Agree
<1>. QED  BY <1>2, <1>3, <1>4, SeqEqual

\* What one turn of the loop leaves where the entry of R at n is due: the log it
\* found, or R up to n.
TurnsInto(L, R, n, N) ==
  /\ Agree(N, R, n)
  /\ N \in {L, SubSeq(R, 1, n)}
  /\ n <= Len(L) /\ L[n] = R[n] => N = L
  /\ Len(L) = n - 1 => N = SubSeq(R, 1, n)

LEMMA AppendTurn ==
  ASSUME NEW H, H \in [Terms -> Seq(LogEntries)],
         NEW R \in Seq(LogEntries), GoodLog(H, R), NEW n \in 1..Len(R),
         NEW L \in Seq(LogEntries), GoodLog(H, L), Agree(L, R, n - 1)
  PROVE  TurnsInto(L, R, n, AppendOne(L, 0, R[n]))
<1> DEFINE N == AppendOne(L, 0, R[n])
<1>1. /\ n \in Nat /\ n > 0 /\ n - 1 \in Nat /\ Len(L) \in Nat /\ Len(L) >= n - 1
      /\ R[n].index = n /\ R[n].term \in Terms
  BY DEF GoodLog, Agree
<1>2. N = IF n > Len(L) THEN Append(L, R[n])
          ELSE IF L[n].term # R[n].term THEN Append(SubSeq(L, 1, n - 1), R[n])
          ELSE L
  BY <1>1 DEF AppendOne, LogicalToPhysical
<1>3. /\ SubSeq(R, 1, n) \in Seq(LogEntries) /\ Agree(SubSeq(R, 1, n), R, n)
      /\ Len(SubSeq(R, 1, n)) = n
  BY <1>1, FirstEntries
<1> SUFFICES TurnsInto(L, R, n, N)
  OBVIOUS
<1> HIDE DEF N
<1>4. CASE n > Len(L)
  <2>1. Len(L) = n - 1
    BY <1>1, <1>4
  <2>2. Append(L, R[n]) = SubSeq(R, 1, n)
    BY <2>1, OneMore
  <2>3. N = SubSeq(R, 1, n)
    BY <1>2, <1>4, <2>2
  <2>. QED  BY <1>1, <1>3, <1>4, <2>3 DEF TurnsInto
<1>5. CASE n <= Len(L) /\ L[n].term # R[n].term
  <2>1. n - 1 \in 0..Len(L)
    BY <1>1, <1>5
  <2>2. /\ SubSeq(L, 1, n - 1) \in Seq(LogEntries) /\ Len(SubSeq(L, 1, n - 1)) = n - 1
        /\ Agree(SubSeq(L, 1, n - 1), L, n - 1)
    BY <2>1, FirstEntries
  <2>3. Agree(SubSeq(L, 1, n - 1), R, n - 1)
    BY <2>2, AgreeTrans
  <2>4. Append(SubSeq(L, 1, n - 1), R[n]) = SubSeq(R, 1, n)
    BY <2>2, <2>3, OneMore
  <2>5. N = SubSeq(R, 1, n)
    BY <1>1, <1>2, <1>5, <2>4
  <2>. QED  BY <1>1, <1>3, <1>5, <2>5 DEF TurnsInto
<1>6. CASE n <= Len(L) /\ L[n].term = R[n].term
  <2>1. N = L
    BY <1>1, <1>2, <1>6
  <2>2. n \in 1..Len(L)
    BY <1>1, <1>6
  <2>3. Agree(L, H[R[n].term], n) /\ Agree(R, H[R[n].term], n)
    BY <1>6, <2>2 DEF GoodLog
  <2>4. Agree(L, R, n)
    BY <2>3, AgreeSym, AgreeTrans
  <2>. QED  BY <1>1, <1>6, <2>1, <2>4 DEF TurnsInto
<1>. QED  BY <1>1, <1>4, <1>5, <1>6

\* The append loop leaves the log it found, if that is at least as long as the
\* request and agrees with it, and the log of the request otherwise.
LEMMA AppendAllMerges ==
  ASSUME NEW H, H \in [Terms -> Seq(LogEntries)],
         NEW R \in Seq(LogEntries), GoodLog(H, R),
         NEW L \in Seq(LogEntries), GoodLog(H, L),
         NEW prev \in Nat, NEW entries \in Seq(LogEntries), EndOf(R, prev, entries),
         Agree(L, R, prev)
  PROVE  /\ Agree(AppendAll(L, 0, entries), R, Len(R))
         /\ AppendAll(L, 0, entries) \in {L, R}
         /\ Agree(L, R, Len(R)) => AppendAll(L, 0, entries) = L
<1>1. /\ Len(entries) \in Nat /\ Len(R) \in Nat /\ Len(R) = prev + Len(entries)
      /\ \A k \in 1..Len(entries) : R[prev + k] = entries[k]
  BY DEF EndOf
<1>2. PICK after : AreTurns(after, L, 0, entries)
  BY <1>1, AppendAllTurns
<1>3. /\ after[0] = L
      /\ \A k \in 1..Len(entries) : after[k] = AppendOne(after[k - 1], 0, entries[k])
      /\ AppendAll(L, 0, entries) = after[Len(entries)]
  BY <1>2 DEF AreTurns
<1> DEFINE OK(k) == /\ Agree(after[k], R, prev + k)
                    /\ after[k] = L \/ after[k] = SubSeq(R, 1, prev + k)
                    /\ Agree(L, R, Len(R)) => after[k] = L
           S == {k \in Nat : k <= Len(entries) => OK(k)}
<1>4. 0 \in S
  BY <1>3
<1>5. ASSUME NEW k \in Nat, k \in S
      PROVE  k + 1 \in S
  <2> SUFFICES ASSUME k + 1 <= Len(entries) PROVE OK(k + 1)
    OBVIOUS
  <2>1. OK(k)
    BY <1>1, <1>5
  <2> DEFINE n == prev + (k + 1)
             M == after[k]
  <2>2. /\ n \in 1..Len(R) /\ n - 1 = prev + k /\ prev + k \in 0..Len(R)
        /\ k + 1 \in 1..Len(entries) /\ (k + 1) - 1 = k
    BY <1>1
  <2>3. R[n] = entries[k + 1]
    BY <1>1, <2>2
  <2>4. M \in Seq(LogEntries) /\ GoodLog(H, M)
    <3>1. /\ SubSeq(R, 1, prev + k) \in Seq(LogEntries)
          /\ Len(SubSeq(R, 1, prev + k)) = prev + k
          /\ Agree(SubSeq(R, 1, prev + k), R, prev + k)
      BY <2>2, FirstEntries
    <3>2. GoodLog(H, SubSeq(R, 1, prev + k))
      BY <3>1, GoodPrefix
    <3>. QED  BY <2>1, <3>1, <3>2
  <2>5. after[k + 1] = AppendOne(M, 0, R[n])
    BY <1>3, <2>2, <2>3
  <2>6. Agree(M, R, n - 1)
    BY <2>1, <2>2
  <2>7. (M = L \/ M = SubSeq(R, 1, prev + k)) /\ (Agree(L, R, Len(R)) => M = L)
    BY <2>1
  <2> HIDE DEF M, n
  <2>8. TurnsInto(M, R, n, after[k + 1])
    BY <2>2, <2>4, <2>5, <2>6, AppendTurn
  <2>9. after[k + 1] = L \/ after[k + 1] = SubSeq(R, 1, n)
    <3>1. CASE M = SubSeq(R, 1, prev + k)
      <4>1. Len(M) = n - 1
        BY <2>2, <3>1, FirstEntries
      <4>. QED  BY <2>8, <4>1 DEF TurnsInto
    <3>. QED  BY <2>7, <2>8, <3>1 DEF TurnsInto
  <2>10. Agree(L, R, Len(R)) => after[k + 1] = L
    <3> SUFFICES ASSUME Agree(L, R, Len(R)) PROVE after[k + 1] = L
      OBVIOUS
    <3>1. n <= Len(L) /\ L[n] = R[n]
      BY <2>2 DEF Agree
    <3>. QED  BY <2>7, <2>8, <3>1 DEF TurnsInto
  <2>11. Agree(after[k + 1], R, n)
    BY <2>8 DEF TurnsInto
  <2>. QED  BY <2>9, <2>10, <2>11 DEF n
<1> HIDE DEF S
<1>6. Nat \subseteq S
  BY <1>4, <1>5, NatSetInduction
<1>7. OK(Len(entries))
  BY <1>1, <1>6 DEF S
<1>8. prev + Len(entries) = Len(R) /\ SubSeq(R, 1, Len(R)) = R
  BY <1>1, SubSeqFull
<1>. QED  BY <1>3, <1>7, <1>8

\* What the old log shares with a log M stays, if the request shares it too or
\* agrees with M to its own end.
LEMMA AppendAllKeeps ==
  ASSUME NEW H, H \in [Terms -> Seq(LogEntries)],
         NEW R \in Seq(LogEntries), GoodLog(H, R),
         NEW L \in Seq(LogEntries), GoodLog(H, L),
         NEW prev \in Nat, NEW entries \in Seq(LogEntries), EndOf(R, prev, entries),
         Agree(L, R, prev),
         NEW M \in Seq(LogEntries), NEW n \in Nat, Agree(L, M, n),
         Agree(R, M, n) \/ Agree(R, M, Len(R))
  PROVE  Agree(AppendAll(L, 0, entries), M, n)
<1> DEFINE N == AppendAll(L, 0, entries)
<1>1. Agree(N, R, Len(R)) /\ N \in {L, R} /\ (Agree(L, R, Len(R)) => N = L)
  BY AppendAllMerges
<1> SUFFICES Agree(N, M, n)
  OBVIOUS
<1> HIDE DEF N
<1>2. Len(R) \in Nat /\ N \in Seq(LogEntries)
  BY <1>1
<1>3. CASE Agree(R, M, n)
  BY <1>1, <1>3
<1>4. CASE Agree(R, M, Len(R)) /\ n <= Len(R)
  <2>1. Agree(R, M, n)
    BY <1>2, <1>4, AgreeShorter
  <2>. QED  BY <1>1, <2>1
<1>5. CASE Agree(R, M, Len(R)) /\ n > Len(R)
  <2>1. Agree(L, M, Len(R))
    BY <1>2, <1>5, AgreeShorter
  <2>2. Agree(L, R, Len(R))
    BY <1>5, <2>1, AgreeSym, AgreeTrans
  <2>. QED  BY <1>1, <2>2
<1>. QED  BY <1>2, <1>3, <1>4, <1>5

-----------------------------------------------------------------------------
(* Steps that change no log. *)

\* No node becomes a leader, and who campaigns anew does so in a new term.
RolesFall ==
  \A i \in Server :
    /\ currentTerm[i] <= currentTerm'[i]
    /\ state'[i] = Leader => state[i] = Leader /\ currentTerm'[i] = currentTerm[i]
    /\ state'[i] = Candidate =>
         \/ state[i] = Candidate /\ currentTerm'[i] = currentTerm[i]
         \/ currentTerm'[i] > currentTerm[i]

\* A new vote comes from a node that has compared the logs.
VotesAreInformed(H, A) ==
  \A c, q \in Server : HasVote(c, q)' =>
    \/ HasVote(c, q) /\ currentTerm'[c] = currentTerm[c]
    \/ /\ currentTerm[q] <= currentTerm'[c]
       /\ \A t \in Terms : \A n \in Created(H, t) :
            A[t][q] >= n /\ t < currentTerm'[c]
              => Overruled(A, n, t) \/ CoversEntry(log[c], n, t)

NewCallsOK(H, A) ==
  \A c \in DOMAIN calls' \ DOMAIN calls :
    /\ CallOK(H, A, c)
    /\ c.type = "RequestVote" =>
         c.lastLogIndex = Len(log[c.src]) /\ c.lastLogTerm = LastLogTerm(log[c.src], 0)

TablesStayOK(A) ==
  \A i, j \in Server : state'[i] = Leader /\ i # j =>
    /\ matchIndex'[i][j] <= A[currentTerm[i]][j]
    /\ nextIndex'[i][j] <= Len(log[i]) + 1

CommitsStayOK(H, A) ==
  \A i \in Server :
    \/ commitIndex'[i] \in {0, commitIndex[i]}
    \/ CommittedUpTo(H, A, log[i], currentTerm[i], commitIndex'[i])

LEMMA VoterTerm ==
  ASSUME ElectionInv, NEW e \in elected, NEW q \in e.voters
  PROVE  /\ q \in Server /\ e.term \in Terms /\ currentTerm[q] \in Terms
         /\ e.term <= currentTerm[q]
<1>1. /\ q \in Server /\ e.leader \in Server /\ e.term \in Terms
      /\ currentTerm[q] \in Terms
  BY DEF ElectionInv, ElectionTypeOK, CallsAreTyped
<1>2. CASE q = e.leader
  BY <1>1, <1>2 DEF ElectionInv, ElectedAreBacked
<1>3. CASE q # e.leader
  <2>1. Granted(q, e.leader, e.term)
    BY <1>3 DEF Granted
  <2>. QED  BY <1>1, <2>1 DEF ElectionInv, GrantsBind
<1>. QED  BY <1>1, <1>2, <1>3

LEMMA CommitLasts ==
  ASSUME NEW H, NEW A, NEW L, NEW u \in Nat, NEW v \in Nat, NEW k,
         u <= v, CommittedUpTo(H, A, L, u, k)
  PROVE  CommittedUpTo(H, A, L, v, k)
  BY DEF CommittedUpTo, Terms

LEMMA QuietLogStep ==
  ASSUME ElectionInv, ElectionInv', NEW H, NEW A, LogInv(H, A),
         log' = log, elected' = elected,
         RolesFall, VotesAreInformed(H, A), NewCallsOK(H, A), TablesStayOK(A),
         CommitsStayOK(H, A)
  PROVE  LogInv(H, A)'
<1>1. \A n, t : Overruled(A, n, t)' <=> Overruled(A, n, t)
  BY DEF Overruled
<1>2. \A i \in Server : currentTerm[i] \in Nat /\ currentTerm'[i] \in Nat
  BY DEF ElectionInv, ElectionTypeOK
<1>3. HistoryTyped(H, A)'
  <2>1. HistoryTyped(H, A) /\ \A t \in Terms : t \in Nat
    BY DEF LogInv, Terms
  <2>. QED  BY <1>2, <2>1 DEF HistoryTyped, RolesFall
<1>4. LeaderLogs(H)' /\ LogsAreGood(H)'
  BY DEF LogInv, LeaderLogs, LogsAreGood
<1>5. LeadersHold(H, A)'
  BY DEF LogInv, LeadersHold, RolesFall
<1>6. CampaignsAreNew'
  <2>1. \A e \in elected : e.leader \in Server /\ e.term \in Nat /\ e.term <= currentTerm[e.leader]
    BY DEF ElectionInv, ElectionTypeOK, ElectedAreBacked
  <2>. QED  BY <1>2, <2>1 DEF LogInv, CampaignsAreNew, RolesFall, WasElected
<1>7. FutureIsLost'
  <2> SUFFICES ASSUME NEW c \in Server, NEW p \in 1..Len(log[c]), NEW e \in elected,
                      e.term = log[c][p].term, e.term > currentTerm'[c],
                      NEW q \in e.voters, HasVote(c, q)'
               PROVE  FALSE
    BY DEF FutureIsLost
  <2>1. q \in Server /\ e.term \in Nat /\ currentTerm[q] \in Nat /\ e.term <= currentTerm[q]
    BY VoterTerm DEF Terms
  <2>2. CASE HasVote(c, q) /\ currentTerm'[c] = currentTerm[c]
    BY <2>2 DEF LogInv, FutureIsLost
  <2>3. CASE currentTerm[q] <= currentTerm'[c]
    BY <1>2, <2>1, <2>3
  <2>. QED  BY <2>1, <2>2, <2>3 DEF VotesAreInformed
<1>8. RequestsDescribeLogs'
  <2> SUFFICES ASSUME NEW c \in DOMAIN calls', c.type = "RequestVote",
                      state'[c.src] = Candidate, currentTerm'[c.src] = c.term
               PROVE  c.lastLogIndex = Len(log[c.src])
                      /\ c.lastLogTerm = LastLogTerm(log[c.src], 0)
    BY DEF RequestsDescribeLogs
  <2>1. CASE c \in DOMAIN calls
    <3>1. c.src \in Server /\ c.term <= currentTerm[c.src] /\ c.term \in Nat
      BY <2>1 DEF ElectionInv, CallsAreTyped, LeadersWereElected, Terms
    <3>2. state[c.src] = Candidate /\ currentTerm[c.src] = c.term
      BY <1>2, <3>1 DEF RolesFall
    <3>. QED  BY <2>1, <3>2 DEF LogInv, RequestsDescribeLogs
  <2>. QED  BY <2>1 DEF NewCallsOK
<1>9. AckedIsKept(H, A)'
  <2> SUFFICES ASSUME NEW t \in Terms, NEW n \in Created(H, t), NEW q \in Server,
                      A[t][q] >= n, ~Overruled(A, n, t)
               PROVE  /\ Has(log[q], n, t)
                      /\ \A c \in Server : HasVote(c, q)' /\ currentTerm'[c] > t
                                             => CoversEntry(log[c], n, t)
    BY <1>1 DEF AckedIsKept
  <2>1. /\ Has(log[q], n, t)
        /\ \A c \in Server : HasVote(c, q) /\ currentTerm[c] > t => CoversEntry(log[c], n, t)
    BY DEF LogInv, AckedIsKept
  <2>2. \A c \in Server : t < currentTerm'[c] <=> currentTerm'[c] > t
    BY <1>2 DEF Terms
  <2>. QED  BY <2>1, <2>2 DEF VotesAreInformed
<1>10. ElectedHold(H, A)'
  BY <1>1 DEF LogInv, ElectedHold
<1>11. \A c : c.src \in Server /\ CallOK(H, A, c) => CallOK(H, A, c)'
  <2> SUFFICES ASSUME NEW c, c.src \in Server, CallOK(H, A, c) PROVE CallOK(H, A, c)'
    OBVIOUS
  <2>1. Leads(c.src, c.term)' => Leads(c.src, c.term)
    BY DEF Leads, RolesFall
  <2>2. DanglingOK(H, A, c) => DanglingOK(H, A, c)'
    BY <1>1, <2>1 DEF DanglingOK
  <2>3. RequestOK(H, A, c) => RequestOK(H, A, c)'
    BY <1>1, <2>1 DEF RequestOK
  <2>4. ReplyOK(A, c) => ReplyOK(A, c)'
    BY <2>1 DEF ReplyOK, WasElected
  <2>. QED  BY <2>2, <2>3, <2>4 DEF CallOK, SendOK
<1>12. CallsOK(H, A)'
  <2>1. \A c \in DOMAIN calls' : c.src \in Server
    BY DEF ElectionInv, CallsAreTyped
  <2>. QED  BY <1>11, <2>1 DEF LogInv, CallsOK, NewCallsOK
<1>13. TablesOK(H, A)'
  BY DEF TablesOK, TablesStayOK, RolesFall
<1>14. AckedByTerm(A)'
  <2> SUFFICES ASSUME NEW i \in Server, NEW q \in Server,
                      state'[i] = Leader, currentTerm'[i] = currentTerm'[q]
               PROVE  Agree(log[q], log[i], A[currentTerm'[q]][q])
    BY DEF AckedByTerm, Leads
  <2> DEFINE t == currentTerm'[q]
  <2>1. state[i] = Leader /\ currentTerm[i] = t /\ t \in Terms
    BY DEF RolesFall, ElectionInv, CallsAreTyped
  <2>2. CASE currentTerm[q] = t
    BY <2>1, <2>2 DEF LogInv, AckedByTerm, Leads
  <2>3. CASE currentTerm[q] # t
    <3>1. currentTerm[q] < t
      BY <1>2, <2>3 DEF RolesFall
    <3>2. A[t][q] \in Nat /\ ~(t <= currentTerm[q]) /\ Len(log[q]) \in Nat /\ Len(log[i]) \in Nat
      BY <1>2, <2>1, <3>1 DEF LogInv, HistoryTyped, LogsAreGood
    <3>3. A[t][q] = 0
      BY <2>1, <3>2 DEF LogInv, HistoryTyped
    <3>. QED  BY <3>2, <3>3 DEF Agree
  <2>. QED  BY <2>2, <2>3
<1>15. CommitsOK(H, A)'
  <2> SUFFICES ASSUME NEW i \in Server
               PROVE  CommittedUpTo(H, A, log[i], currentTerm'[i], commitIndex'[i])
    BY DEF CommitsOK
  <2>1. CommittedUpTo(H, A, log[i], currentTerm[i], commitIndex[i])
    BY DEF LogInv, CommitsOK
  <2>2. CommittedUpTo(H, A, log[i], currentTerm[i], 0)
    BY DEF CommittedUpTo
  <2>3. CommittedUpTo(H, A, log[i], currentTerm[i], commitIndex'[i])
    BY <2>1, <2>2 DEF CommitsStayOK
  <2>. QED  BY <1>2, <2>3, CommitLasts DEF RolesFall
<1>. QED
  BY <1>3, <1>4, <1>5, <1>6, <1>7, <1>8, <1>9, <1>10, <1>12, <1>13, <1>14, <1>15 DEF LogInv
-----------------------------------------------------------------------------
(* How the histories grow. *)

\* A2 counts what A counts, and possibly more at node i for term u.
AcksGrow(A, A2, i, u) ==
  /\ A2 \in [Terms -> [Server -> Nat]]
  /\ \A t \in Terms : \A q \in Server :
       /\ A2[t][q] >= A[t][q]
       /\ A2[t][q] # A[t][q] => t = u /\ q = i

LEMMA QuorumGrows ==
  ASSUME NEW P \in Quorums, NEW Q \in SUBSET Server, P \subseteq Q
  PROVE  Q \in Quorums
<1>1. IsFiniteSet(Q) /\ IsFiniteSet(P)
  BY ServerAssumption, FS_Subset
<1>2. Cardinality(P) <= Cardinality(Q) /\ Cardinality(P) \in Nat /\ Cardinality(Q) \in Nat
  BY <1>1, FS_Subset, FS_CardinalityType
<1>3. Cardinality(Server) \in Nat
  BY ServerAssumption, FS_CardinalityType
<1>. QED  BY <1>2, <1>3 DEF Quorums, Majority

\* An entry stays chosen.
LEMMA ChosenGrows ==
  ASSUME NEW H, NEW H2, NEW A, NEW A2, NEW i, NEW u,
         A \in [Terms -> [Server -> Nat]], AcksGrow(A, A2, i, u)
  PROVE  \A t \in Terms : \A n :
           Created(H, t) \subseteq Created(H2, t) /\ Chosen(H, A, n, t) => Chosen(H2, A2, n, t)
<1> SUFFICES ASSUME NEW t \in Terms, NEW n, Created(H, t) \subseteq Created(H2, t),
                    Chosen(H, A, n, t)
             PROVE  Chosen(H2, A2, n, t)
  OBVIOUS
<1> DEFINE P == {q \in Server : A[t][q] >= n}
           Q == {q \in Server : A2[t][q] >= n}
<1>1. n \in Created(H, t) /\ n \in Nat
  BY DEF Chosen, Created
<1>2. P \subseteq Q
  BY <1>1 DEF AcksGrow
<1>3. P \in Quorums
  BY DEF Chosen
<1> HIDE DEF P
<1>4. Q \in Quorums
  BY <1>2, <1>3, QuorumGrows
<1>. QED  BY <1>1, <1>4 DEF Chosen

\* An entry stays overruled: the voters of a leader of a later term acknowledge
\* no more of the earlier one.
LEMMA OverruledGrows ==
  ASSUME ElectionInv, NEW A, NEW A2, NEW i \in Server, NEW u \in Nat,
         u >= currentTerm[i], AcksGrow(A, A2, i, u),
         NEW t \in Terms, NEW n, Overruled(A, n, t)
  PROVE  Overruled(A2, n, t)
<1>1. PICK e \in elected : e.term > t /\ \A q \in e.voters : A[t][q] < n
  BY DEF Overruled
<1>2. ASSUME NEW q \in e.voters
      PROVE  A2[t][q] = A[t][q]
  <2>1. q \in Server /\ e.term \in Nat /\ currentTerm[q] \in Nat /\ e.term <= currentTerm[q]
        /\ t \in Nat
    BY VoterTerm DEF Terms
  <2>. QED  BY <1>1, <2>1 DEF AcksGrow
<1>. QED  BY <1>1, <1>2 DEF Overruled

LEMMA CommitGrows ==
  ASSUME NEW H, NEW A, NEW A2, NEW i, NEW u,
         A \in [Terms -> [Server -> Nat]], AcksGrow(A, A2, i, u),
         NEW L, NEW v, NEW k, CommittedUpTo(H, A, L, v, k)
  PROVE  CommittedUpTo(H, A2, L, v, k)
<1>1. \A t \in Terms : \A n \in Created(H, t) : Chosen(H, A, n, t) => Chosen(H, A2, n, t)
  BY ChosenGrows
<1>. QED  BY <1>1 DEF CommittedUpTo

-----------------------------------------------------------------------------
(* Steps of a follower that handles AppendEntries. *)

\* The handler of node i, for a request of term u, keeps of log L in N what may be
\* committed.
KeepsWhatMatters(H, A, L, N, u) ==
  \A t \in Terms : \A n \in Created(H, t) : t <= u /\ ~Overruled(A, n, t) =>
    \A k \in 0..n : Agree(L, H[t], k) => Agree(N, H[t], k)

KeepsLeadersLog(L, N, u) ==
  \A l \in Server : Leads(l, u) =>
    \A k \in Nat : Agree(L, log[l], k) => Agree(N, log[l], k)

\* What it acknowledges is there.
AcksAreTrue(H, A, A2, N, i, u) ==
  /\ AcksGrow(A, A2, i, u)
  /\ A2[u][i] # A[u][i] => A2[u][i] <= Len(H[u]) /\ Agree(N, H[u], A2[u][i])

LEMMA FollowerLogStep ==
  ASSUME ElectionInv, ElectionInv', LogTypeOK, CallTypeOK,
         NEW H, NEW A, NEW A2, LogInv(H, A),
         NEW i \in Server, NEW u \in Terms, u >= currentTerm[i],
         state' = [state EXCEPT ![i] = Follower],
         currentTerm' = [currentTerm EXCEPT ![i] = u],
         UNCHANGED <<elected, leaderVars>>,
         NEW N \in Seq(LogEntries), GoodLog(H, N),
         log' = [log EXCEPT ![i] = N],
         \A c, q \in Server : HasVote(c, q)' => HasVote(c, q),
         KeepsWhatMatters(H, A, log[i], N, u), KeepsLeadersLog(log[i], N, u),
         AcksAreTrue(H, A, A2, N, i, u),
         \A j \in Server : j # i => commitIndex'[j] = commitIndex[j],
         commitIndex'[i] = commitIndex[i] \/ CommittedUpTo(H, A, N, u, commitIndex'[i]),
         \A c \in DOMAIN calls' \ DOMAIN calls : c.type = "AppendEntriesReply" /\ ReplyOK(A2, c)
  PROVE  LogInv(H, A2)'
<1> USE DEF Follower, Candidate, Leader
<1>0. /\ A \in [Terms -> [Server -> Nat]] /\ H \in [Terms -> Seq(LogEntries)]
      /\ A2 \in [Terms -> [Server -> Nat]] /\ AcksGrow(A, A2, i, u)
      /\ \A j \in Server : Len(log[j]) \in Nat /\ commitIndex[j] \in Nat
      /\ \A t \in Terms : t \in Nat /\ Len(H[t]) \in Nat
      /\ log \in [Server -> Seq(LogEntries)]
  <2>1. /\ A \in [Terms -> [Server -> Nat]] /\ H \in [Terms -> Seq(LogEntries)]
        /\ A2 \in [Terms -> [Server -> Nat]] /\ AcksGrow(A, A2, i, u)
    BY DEF LogInv, HistoryTyped, AcksAreTrue, AcksGrow
  <2>2. /\ log \in [Server -> Seq(LogEntries)]
        /\ \A j \in Server : log[j] \in Seq(LogEntries) /\ commitIndex[j] \in Nat
    BY DEF LogTypeOK
  <2>3. \A t \in Terms : t \in Nat /\ H[t] \in Seq(LogEntries)
    BY <2>1 DEF Terms
  <2>. QED  BY <2>1, <2>2, <2>3
<1>1. \A t \in Terms : \A n : Overruled(A, n, t) => Overruled(A2, n, t)'
  <2>1. \A t \in Terms : \A n : Overruled(A, n, t) => Overruled(A2, n, t)
    BY <1>0, OverruledGrows DEF Terms
  <2>. QED  BY <2>1 DEF Overruled
<1>2. /\ \A j \in Server : currentTerm[j] \in Nat /\ currentTerm'[j] \in Nat
      /\ \A j \in Server : j # i =>
           /\ state'[j] = state[j] /\ currentTerm'[j] = currentTerm[j] /\ log'[j] = log[j]
      /\ state'[i] = Follower /\ currentTerm'[i] = u /\ log'[i] = N
      /\ \A j \in Server : currentTerm[j] <= currentTerm'[j]
  BY <1>0 DEF ElectionInv, ElectionTypeOK
<1>3. HistoryTyped(H, A2)'
  <2> SUFFICES ASSUME NEW t \in Terms, NEW q \in Server
               PROVE  A2[t][q] <= Len(H[t]) /\ (A2[t][q] > 0 => t <= currentTerm'[q])
    BY <1>0 DEF HistoryTyped
  <2>1. A[t][q] <= Len(H[t]) /\ (A[t][q] > 0 => t <= currentTerm[q])
    BY DEF LogInv, HistoryTyped
  <2>2. CASE A2[t][q] = A[t][q]
    BY <1>0, <1>2, <2>1, <2>2
  <2>3. CASE A2[t][q] # A[t][q]
    BY <1>0, <1>2, <2>3 DEF AcksGrow, AcksAreTrue
  <2>. QED  BY <2>2, <2>3
<1>4. LeaderLogs(H)'
  BY DEF LogInv, LeaderLogs
<1>5. LogsAreGood(H)'
  BY <1>2 DEF LogInv, LogsAreGood
<1>6. LeadersHold(H, A2)'
  <2> SUFFICES ASSUME NEW j \in Server, state'[j] = Leader
               PROVE  /\ log'[j] = H[currentTerm'[j]]
                      /\ A2[currentTerm'[j]][j] = Len(log'[j])
    BY DEF LeadersHold
  <2>1. j # i /\ currentTerm[j] \in Terms
    BY <1>2 DEF ElectionInv, CallsAreTyped
  <2>2. log[j] = H[currentTerm[j]] /\ A[currentTerm[j]][j] = Len(log[j])
    BY <1>2, <2>1 DEF LogInv, LeadersHold
  <2>. QED  BY <1>0, <1>2, <2>1, <2>2 DEF AcksGrow
<1>7. CampaignsAreNew'
  BY <1>2 DEF LogInv, CampaignsAreNew, WasElected
<1>8. FutureIsLost'
  <2> SUFFICES ASSUME NEW c \in Server, NEW p \in 1..Len(log'[c]), NEW e \in elected,
                      e.term = log'[c][p].term, e.term > currentTerm'[c],
                      NEW q \in e.voters, HasVote(c, q)'
               PROVE  FALSE
    BY DEF FutureIsLost
  <2>1. q \in Server
    BY VoterTerm
  <2>2. c # i
    BY <1>2 DEF HasVote
  <2>. QED  BY <1>2, <2>1, <2>2 DEF LogInv, FutureIsLost
<1>9. RequestsDescribeLogs'
  <2>1. \A c \in DOMAIN calls' : c.src \in Server
    BY DEF ElectionInv, CallsAreTyped
  <2>. QED  BY <1>2, <2>1 DEF LogInv, RequestsDescribeLogs
\* What node i has of an entry stays.
<1>10. ASSUME NEW t \in Terms, NEW n \in Created(H, t), t <= u, Has(log[i], n, t),
              ~Overruled(A, n, t)
       PROVE  Has(N, n, t)
  <2>1. Agree(log[i], H[t], n) /\ n \in 0..n /\ n \in 1..Len(H[t]) /\ H[t][n].term = t
    BY <1>10, HasAgrees DEF LogInv, LogsAreGood, Created
  <2>2. Agree(N, H[t], n)
    BY <1>10, <2>1 DEF KeepsWhatMatters
  <2>. QED  BY <2>1, <2>2 DEF Agree, Has
<1>11. AckedIsKept(H, A2)'
  <2> SUFFICES ASSUME NEW t \in Terms, NEW n \in Created(H, t), NEW q \in Server,
                      A2[t][q] >= n, ~Overruled(A2, n, t)'
               PROVE  /\ Has(log'[q], n, t)
                      /\ \A c \in Server : HasVote(c, q)' /\ currentTerm'[c] > t
                                             => CoversEntry(log'[c], n, t)
    BY DEF AckedIsKept
  <2>1. ~Overruled(A, n, t) /\ n \in Nat /\ n > 0 /\ n \in 1..Len(H[t]) /\ H[t][n].term = t
    BY <1>1 DEF Created
  <2>2. \A c \in Server : HasVote(c, q)' => c # i /\ HasVote(c, q)
    BY <1>2 DEF HasVote
  <2>3. ASSUME A[t][q] >= n
        PROVE  /\ Has(log[q], n, t)
               /\ \A c \in Server : HasVote(c, q) /\ currentTerm[c] > t => CoversEntry(log[c], n, t)
    BY <2>1, <2>3 DEF LogInv, AckedIsKept
  <2>4. CASE A[t][q] >= n /\ q # i
    BY <1>2, <2>2, <2>3, <2>4
  <2>5. CASE A[t][q] >= n /\ q = i
    <3>1. t <= currentTerm[i]
      BY <1>0, <2>1, <2>5 DEF LogInv, HistoryTyped
    <3>2. t <= u
      BY <1>0, <1>2, <3>1
    <3>. QED  BY <1>2, <1>10, <2>1, <2>2, <2>3, <2>5, <3>2
  <2>6. CASE ~(A[t][q] >= n)
    <3>1. t = u /\ q = i /\ A2[u][i] # A[u][i]
      BY <1>0, <2>1, <2>6 DEF AcksGrow
    <3>2. Agree(N, H[t], A2[u][i])
      BY <3>1 DEF AcksAreTrue
    <3>3. Has(log'[q], n, t)
      BY <1>0, <1>2, <2>1, <3>1, <3>2 DEF Agree, Has
    <3>4. ASSUME NEW c \in Server, HasVote(c, q)', currentTerm'[c] > t
          PROVE  FALSE
      <4>1. c # i /\ HasVote(c, i) /\ currentTerm[c] > u /\ currentTerm[c] \in Terms
        BY <1>2, <2>2, <3>1, <3>4 DEF ElectionInv, CallsAreTyped
      <4>2. Granted(i, c, currentTerm[c])
        BY <4>1 DEF HasVote
      <4>3. currentTerm[c] <= currentTerm[i]
        BY <4>1, <4>2 DEF ElectionInv, GrantsBind
      <4>4. currentTerm[c] \in Nat /\ currentTerm[i] \in Nat /\ u \in Nat
        BY <1>0, <1>2
      <4>. QED  BY <4>1, <4>3, <4>4
    <3>. QED  BY <3>3, <3>4
  <2>. QED  BY <2>4, <2>5, <2>6
<1>12. ElectedHold(H, A2)'
  <2> SUFFICES ASSUME NEW t \in Terms, NEW n \in Created(H, t), NEW e \in elected,
                      e.term >= t, ~Overruled(A2, n, t)'
               PROVE  Has(log'[e.leader], n, t) /\ Has(H[e.term], n, t)
    BY DEF ElectedHold
  <2>1. ~Overruled(A, n, t) /\ Has(log[e.leader], n, t) /\ Has(H[e.term], n, t)
    BY <1>1 DEF LogInv, ElectedHold
  <2>2. e.leader \in Server /\ e.term <= currentTerm[e.leader] /\ e.term \in Nat
    BY DEF ElectionInv, ElectionTypeOK, ElectedAreBacked
  <2>3. CASE e.leader = i
    <3>1. t <= u
      BY <1>0, <1>2, <2>2, <2>3
    <3>. QED  BY <1>2, <1>10, <2>1, <2>3, <3>1
  <2>. QED  BY <1>2, <2>1, <2>2, <2>3
<1>13. \A t \in Terms : \A n \in Created(H, t) : Chosen(H, A, n, t) => Chosen(H, A2, n, t)
  BY <1>0, ChosenGrows
<1>14. ASSUME NEW c \in DOMAIN calls, c.src \in Server, c.dst \in Server, c.term \in Terms,
              CallOK(H, A, c)
       PROVE  CallOK(H, A2, c)'
  <2>1. /\ Leads(c.src, c.term)' => Leads(c.src, c.term)
        /\ Leads(c.src, c.term)' => c.src # i
        /\ WasElected(c.src, c.term) => WasElected(c.src, c.term)'
    BY <1>2, <1>14 DEF Leads, WasElected
  <2>2. DanglingOK(H, A, c) => DanglingOK(H, A2, c)'
    BY <1>1, <2>1 DEF DanglingOK
  <2>3. RequestOK(H, A, c) => RequestOK(H, A2, c)'
    <3> SUFFICES ASSUME RequestOK(H, A, c) PROVE RequestOK(H, A2, c)'
      OBVIOUS
    <3>1. \A t \in Terms : \A n \in Created(H, t) : t <= c.term =>
            \/ Overruled(A2, n, t)'
            \/ Has(RequestLog(H, c), n, t)
            \/ /\ t = c.term /\ Agree(RequestLog(H, c), H[t], Len(RequestLog(H, c)))
               /\ Len(RequestLog(H, c)) < n
      BY <1>1 DEF RequestOK
    <3>2. c.leaderCommit > 0 =>
            \E t \in Terms : \E n \in Created(H, t) :
              Chosen(H, A2, n, t) /\ t <= c.term /\ c.leaderCommit <= n
              /\ Has(RequestLog(H, c), n, t)
      BY <1>13 DEF RequestOK
    <3>. QED  BY <2>1, <3>1, <3>2 DEF RequestOK
  <2>4. SendOK(H, A, c) => SendOK(H, A2, c)
    BY <1>13 DEF SendOK
  <2>5. c.type = "AppendEntriesReply" /\ ReplyOK(A, c) => ReplyOK(A2, c)'
    <3> SUFFICES ASSUME c.type = "AppendEntriesReply", ReplyOK(A, c), Leads(c.src, c.term)'
                 PROVE  IF c.success THEN c.lastSent <= A2[c.term][c.dst]
                                     ELSE c.matchIndex <= Len(log'[c.src])
      BY <2>1 DEF ReplyOK
    <3>1. IF c.success THEN c.lastSent <= A[c.term][c.dst]
                       ELSE c.matchIndex <= Len(log[c.src])
      BY <2>1 DEF ReplyOK
    <3>2. log'[c.src] = log[c.src]
      BY <1>2, <1>14, <2>1
    <3>3. A2[c.term][c.dst] >= A[c.term][c.dst]
      BY <1>0, <1>14 DEF AcksGrow
    <3>4. A2[c.term][c.dst] \in Nat /\ A[c.term][c.dst] \in Nat
      BY <1>0, <1>14
    <3>5. c.lastSent \in Nat
      BY DEF CallTypeOK, CallRecords
    <3>. QED  BY <3>1, <3>2, <3>3, <3>4, <3>5
  <2>. QED  BY <1>14, <2>2, <2>3, <2>4, <2>5 DEF CallOK, SendOK
<1>15. CallsOK(H, A2)'
  <2> SUFFICES ASSUME NEW c \in DOMAIN calls' PROVE CallOK(H, A2, c)'
    BY DEF CallsOK
  <2>1. c.src \in Server /\ c.dst \in Server /\ c.term \in Terms
    BY DEF ElectionInv, CallsAreTyped
  <2>2. CASE c \in DOMAIN calls
    BY <1>14, <2>1, <2>2 DEF LogInv, CallsOK
  <2>3. CASE c \notin DOMAIN calls
    <3>1. c.type = "AppendEntriesReply" /\ ReplyOK(A2, c)
      BY <2>3
    <3>2. Leads(c.src, c.term)' => Leads(c.src, c.term) /\ c.src # i
      BY <1>2, <2>1 DEF Leads
    <3>3. Leads(c.src, c.term)' => log'[c.src] = log[c.src]
      BY <1>2, <2>1, <3>2
    <3>4. WasElected(c.src, c.term)'
      BY <3>1 DEF ReplyOK, WasElected
    <3>5. ReplyOK(A2, c)'
      BY <3>1, <3>2, <3>3, <3>4 DEF ReplyOK
    <3>. QED  BY <3>1, <3>5 DEF CallOK
  <2>. QED  BY <2>2, <2>3
<1>16. TablesOK(H, A2)'
  <2> SUFFICES ASSUME NEW l \in Server, NEW j \in Server, state'[l] = Leader, l # j
               PROVE  /\ matchIndex'[l][j] <= A2[currentTerm'[l]][j]
                      /\ nextIndex'[l][j] <= Len(log'[l]) + 1
    BY DEF TablesOK
  <2>1. l # i /\ currentTerm[l] \in Terms
    BY <1>2 DEF ElectionInv, CallsAreTyped
  <2>2. matchIndex[l][j] <= A[currentTerm[l]][j] /\ nextIndex[l][j] <= Len(log[l]) + 1
    BY <1>2, <2>1 DEF LogInv, TablesOK
  <2>3. /\ A2[currentTerm[l]][j] >= A[currentTerm[l]][j] /\ A[currentTerm[l]][j] \in Nat
        /\ A2[currentTerm[l]][j] \in Nat
    BY <1>0, <2>1 DEF AcksGrow
  <2>4. matchIndex[l][j] \in Nat
    BY DEF LogTypeOK
  <2>. QED  BY <1>2, <2>1, <2>2, <2>3, <2>4 DEF leaderVars
<1>17. AckedByTerm(A2)'
  <2> SUFFICES ASSUME NEW l \in Server, NEW q \in Server,
                      state'[l] = Leader, currentTerm'[l] = currentTerm'[q]
               PROVE  Agree(log'[q], log'[l], A2[currentTerm'[q]][q])
    BY DEF AckedByTerm, Leads
  <2>1. l # i /\ Leads(l, currentTerm'[q]) /\ log'[l] = log[l]
    BY <1>2 DEF Leads
  <2>2. CASE q # i
    <3>1. currentTerm'[q] = currentTerm[q] /\ log'[q] = log[q] /\ currentTerm[q] \in Terms
      BY <1>2, <2>2 DEF ElectionInv, CallsAreTyped
    <3>2. A2[currentTerm[q]][q] = A[currentTerm[q]][q]
      BY <1>0, <2>2, <3>1 DEF AcksGrow
    <3>. QED  BY <2>1, <3>1, <3>2 DEF LogInv, AckedByTerm
  <2>3. CASE q = i
    <3>1. Leads(l, u) /\ log'[q] = N /\ currentTerm'[q] = u
      BY <1>2, <2>1, <2>3
    <3>2. log[l] = H[u]
      BY <2>1, <3>1 DEF LogInv, LeadersHold, Leads
    <3>3. CASE A2[u][i] # A[u][i]
      BY <2>1, <2>3, <3>1, <3>2, <3>3 DEF AcksAreTrue
    <3>4. CASE A2[u][i] = A[u][i] /\ A[u][i] > 0
      <4>1. currentTerm[i] = u /\ A[u][i] \in Nat
        BY <1>0, <1>2, <3>4 DEF LogInv, HistoryTyped
      <4>2. Agree(log[i], log[l], A[u][i])
        BY <3>1, <4>1 DEF LogInv, AckedByTerm
      <4>. QED  BY <2>1, <2>3, <3>1, <3>4, <4>1, <4>2 DEF KeepsLeadersLog
    <3>5. CASE A2[u][i] = A[u][i] /\ ~(A[u][i] > 0)
      <4>1. A2[u][i] = 0
        BY <1>0, <3>5
      <4>2. Len(N) \in Nat /\ Len(log[l]) \in Nat
        BY <1>0
      <4>. QED  BY <2>1, <2>3, <3>1, <4>1, <4>2 DEF Agree
    <3>. QED  BY <3>3, <3>4, <3>5
  <2>. QED  BY <2>2, <2>3
<1>18. CommitsOK(H, A2)'
  <2> SUFFICES ASSUME NEW j \in Server
               PROVE  CommittedUpTo(H, A2, log'[j], currentTerm'[j], commitIndex'[j])
    BY DEF CommitsOK
  <2>1. CommittedUpTo(H, A, log[j], currentTerm[j], commitIndex[j])
    BY DEF LogInv, CommitsOK
  <2>2. CASE j # i
    BY <1>0, <1>2, <2>1, <2>2, CommitGrows
  <2>3. CASE j = i /\ commitIndex'[i] = commitIndex[i]
    <3>1. CommittedUpTo(H, A, N, u, commitIndex[i])
      <4> SUFFICES ASSUME commitIndex[i] > 0
                   PROVE  \E t \in Terms : \E n \in Created(H, t) :
                            /\ Chosen(H, A, n, t) /\ t <= u /\ commitIndex[i] <= n
                            /\ Agree(N, H[t], commitIndex[i])
        BY DEF CommittedUpTo
      <4>1. PICK t \in Terms : \E n \in Created(H, t) :
              /\ Chosen(H, A, n, t) /\ t <= currentTerm[i] /\ commitIndex[i] <= n
              /\ Agree(log[i], H[t], commitIndex[i])
        BY <2>1, <2>3 DEF CommittedUpTo
      <4>2. PICK n \in Created(H, t) :
              /\ Chosen(H, A, n, t) /\ t <= currentTerm[i] /\ commitIndex[i] <= n
              /\ Agree(log[i], H[t], commitIndex[i])
        BY <4>1
      <4>3. ~Overruled(A, n, t) /\ commitIndex[i] \in 0..n /\ t <= u
        <5>1. ~Overruled(A, n, t)
          BY <4>2, ChosenStays DEF LogInv
        <5>2. n \in Nat
          BY DEF Created
        <5>3. commitIndex[i] \in Nat /\ u \in Nat /\ t \in Nat /\ currentTerm[i] \in Nat
          BY <1>0, <1>2
        <5>. QED  BY <4>2, <5>1, <5>2, <5>3
      <4>4. Agree(N, H[t], commitIndex[i])
        BY <4>2, <4>3 DEF KeepsWhatMatters
      <4>. QED  BY <4>2, <4>3, <4>4
    <3>. QED  BY <1>0, <1>2, <2>3, <3>1, CommitGrows
  <2>4. CASE j = i /\ commitIndex'[i] # commitIndex[i]
    <3>1. CommittedUpTo(H, A, N, u, commitIndex'[i])
      BY <2>4
    <3>. QED  BY <1>0, <1>2, <2>4, <3>1, CommitGrows
  <2>. QED  BY <2>2, <2>3, <2>4
<1>. QED
  BY <1>3, <1>4, <1>5, <1>6, <1>7, <1>8, <1>9, <1>11, <1>12, <1>15, <1>16, <1>17, <1>18
     DEF LogInv
-----------------------------------------------------------------------------
(* Steps of a leader that appends an entry of its term. *)

\* The logs of the leaders only get longer.
LogsGrow(H, H2) ==
  \A t \in Terms : Agree(H[t], H2[t], Len(H[t]))

LEMMA AppendExtends ==
  ASSUME NEW E, NEW L \in Seq(E), NEW x \in E
  PROVE  /\ Append(L, x) \in Seq(E) /\ Len(Append(L, x)) = Len(L) + 1
         /\ Append(L, x)[Len(L) + 1] = x
         /\ Agree(L, Append(L, x), Len(L))
<1>1. /\ Append(L, x) \in Seq(E) /\ Len(Append(L, x)) = Len(L) + 1
      /\ \A p \in 1..Len(L) : Append(L, x)[p] = L[p]
      /\ Append(L, x)[Len(L) + 1] = x
  BY AppendProperties
<1>. QED  BY <1>1 DEF Agree

LEMMA AgreeGrows ==
  ASSUME NEW E, NEW L \in Seq(E), NEW M \in Seq(E), NEW N \in Seq(E), NEW n \in Nat,
         Agree(L, M, n), Agree(M, N, Len(M))
  PROVE  Agree(L, N, n)
<1>1. n <= Len(M) /\ Len(M) \in Nat
  BY DEF Agree
<1>2. Agree(M, N, n)
  BY <1>1, AgreeShorter
<1>. QED  BY <1>2, AgreeTrans

LEMMA HasGrows ==
  ASSUME NEW L \in Seq(LogEntries), NEW M \in Seq(LogEntries), NEW n, NEW t,
         Agree(L, M, Len(L)), Has(L, n, t)
  PROVE  Has(M, n, t)
  BY DEF Agree, Has

LEMMA GoodGrows ==
  ASSUME NEW H \in [Terms -> Seq(LogEntries)], NEW H2 \in [Terms -> Seq(LogEntries)],
         LogsGrow(H, H2), NEW L \in Seq(LogEntries), GoodLog(H, L)
  PROVE  GoodLog(H2, L)
<1> SUFFICES ASSUME NEW p \in 1..Len(L)
             PROVE  /\ L[p].index = p
                    /\ L[p].term \in Terms
                    /\ Agree(L, H2[L[p].term], p)
  BY DEF GoodLog
<1>1. L[p].index = p /\ L[p].term \in Terms /\ Agree(L, H[L[p].term], p) /\ p \in Nat
  BY DEF GoodLog
<1>2. H[L[p].term] \in Seq(LogEntries) /\ H2[L[p].term] \in Seq(LogEntries)
  BY <1>1
<1>3. Agree(L, H2[L[p].term], p)
  BY <1>1, <1>2, AgreeGrows DEF LogsGrow
<1>. QED  BY <1>1, <1>3

LEMMA RequestLogGrows ==
  ASSUME NEW H \in [Terms -> Seq(LogEntries)], NEW H2 \in [Terms -> Seq(LogEntries)],
         LogsGrow(H, H2), NEW c, c.prevLogTerm \in Terms, c.prevLogIndex \in Nat,
         c.prevLogIndex <= Len(H[c.prevLogTerm])
  PROVE  RequestLog(H2, c) = RequestLog(H, c)
<1> DEFINE L == H[c.prevLogTerm]
           M == H2[c.prevLogTerm]
           n == c.prevLogIndex
<1>1. L \in Seq(LogEntries) /\ M \in Seq(LogEntries) /\ Agree(L, M, Len(L)) /\ n \in Nat
      /\ Len(L) \in Nat /\ Len(M) \in Nat
  BY DEF LogsGrow
<1>2. Agree(L, M, n) /\ n \in 0..Len(L) /\ n \in 0..Len(M)
  BY <1>1 DEF Agree
<1> HIDE DEF L, M, n
<1>3. /\ SubSeq(L, 1, n) \in Seq(LogEntries) /\ Len(SubSeq(L, 1, n)) = n
      /\ \A p \in 1..n : SubSeq(L, 1, n)[p] = L[p]
  BY <1>1, <1>2, FirstEntries
<1>4. /\ SubSeq(M, 1, n) \in Seq(LogEntries) /\ Len(SubSeq(M, 1, n)) = n
      /\ \A p \in 1..n : SubSeq(M, 1, n)[p] = M[p]
  BY <1>1, <1>2, FirstEntries
<1>5. \A p \in 1..n : SubSeq(L, 1, n)[p] = SubSeq(M, 1, n)[p]
  BY <1>2, <1>3, <1>4 DEF Agree
<1>6. SubSeq(L, 1, n) = SubSeq(M, 1, n)
  BY <1>3, <1>4, <1>5, SeqEqual
<1>. QED  BY <1>6 DEF RequestLog, L, M, n

\* What the leader of term t, node i, has before it appends.
ReadyToAppend(H, A, i, t) ==
  /\ \A p \in 1..Len(log[i]) : log[i][p].term <= t
  /\ \A u \in Terms : \A n \in Created(H, u) : u < t =>
       Has(log[i], n, u) \/ Overruled(A, n, u)'
  /\ \/ H[t] = << >> /\ ~ \E e \in elected : e.term = t
     \/ H[t] = log[i] /\ Leads(i, t) /\ elected' = elected

\* The step itself, entry being the new end of its log.
AppendsAsLeader(i, t, entry) ==
  /\ t = currentTerm[i] /\ t > 0
  /\ entry.term = t /\ entry.index = Len(log[i]) + 1
  /\ log' = [log EXCEPT ![i] = Append(@, entry)]
  /\ state' = [state EXCEPT ![i] = Leader]
  /\ UNCHANGED <<currentTerm, commitIndex>>
  /\ elected \subseteq elected'
  /\ \A e \in elected' \ elected : e.term = t /\ e.leader = i
  /\ \A c, q \in Server : c # i /\ HasVote(c, q)' => HasVote(c, q)

LEMMA LeaderLogStep ==
  ASSUME ElectionInv, ElectionInv', LogTypeOK, LogTypeOK', CallTypeOK,
         NEW H, NEW A, NEW H2, NEW A2, LogInv(H, A),
         NEW i \in Server, NEW t \in Terms, NEW entry \in LogEntries,
         AppendsAsLeader(i, t, entry), ReadyToAppend(H, A, i, t),
         NEW N, N = Append(log[i], entry), NEW last, last = Len(log[i]) + 1,
         H2 = [H EXCEPT ![t] = N], A2 = [A EXCEPT ![t][i] = last],
         \A j \in Server \ {i} : matchIndex'[j] = matchIndex[j] /\ nextIndex'[j] = nextIndex[j],
         \A j \in Server \ {i} : matchIndex'[i][j] <= A[t][j] /\ nextIndex'[i][j] <= Len(log[i]) + 1,
         \A c \in DOMAIN calls' \ DOMAIN calls : c.type = "SendAppendEntries" /\ SendOK(H, A, c)
  PROVE  LogInv(H2, A2)'
<1> USE DEF Follower, Candidate, Leader
<1>0. /\ A \in [Terms -> [Server -> Nat]] /\ H \in [Terms -> Seq(LogEntries)]
      /\ log \in [Server -> Seq(LogEntries)] /\ Len(log[i]) \in Nat
      /\ \A u \in Terms : u \in Nat /\ H[u] \in Seq(LogEntries) /\ Len(H[u]) \in Nat
      /\ t \in Nat /\ t > 0 /\ currentTerm[i] = t
      /\ last \in Nat /\ last > 0
  <2>1. A \in [Terms -> [Server -> Nat]] /\ H \in [Terms -> Seq(LogEntries)]
    BY DEF LogInv, HistoryTyped
  <2>2. log \in [Server -> Seq(LogEntries)] /\ log[i] \in Seq(LogEntries)
    BY DEF LogTypeOK
  <2>3. \A u \in Terms : u \in Nat /\ H[u] \in Seq(LogEntries)
    BY <2>1 DEF Terms
  <2>. QED  BY <2>1, <2>2, <2>3 DEF AppendsAsLeader
<1>1. /\ N \in Seq(LogEntries) /\ Len(N) = last /\ N[last] = entry /\ Agree(log[i], N, Len(log[i]))
      /\ Agree(N, N, Len(N))
  <2>1. log[i] \in Seq(LogEntries)
    BY <1>0
  <2>2. N \in Seq(LogEntries) /\ Len(N) = last /\ N[last] = entry /\ Agree(log[i], N, Len(log[i]))
    BY <2>1, AppendExtends
  <2>. QED  BY <1>0, <2>2 DEF Agree
<1>2. /\ entry.term = t /\ entry.index = last
      /\ log' = [log EXCEPT ![i] = N]
      /\ state' = [state EXCEPT ![i] = Leader] /\ currentTerm' = currentTerm
      /\ commitIndex' = commitIndex
      /\ elected \subseteq elected' /\ \A e \in elected' \ elected : e.term = t /\ e.leader = i
  BY DEF AppendsAsLeader
<1>3. /\ H2 = [H EXCEPT ![t] = N] /\ A2 = [A EXCEPT ![t][i] = last]
      /\ H2 \in [Terms -> Seq(LogEntries)] /\ A2 \in [Terms -> [Server -> Nat]]
      /\ H2[t] = N /\ A2[t][i] = last
      /\ \A u \in Terms : u # t => H2[u] = H[u]
      /\ \A u \in Terms : \A q \in Server : u # t \/ q # i => A2[u][q] = A[u][q]
  BY <1>0, <1>1
<1>4. /\ log'[i] = N /\ state'[i] = Leader
      /\ \A j \in Server : j # i => log'[j] = log[j] /\ state'[j] = state[j]
      /\ \A j \in Server : log[j] \in Seq(LogEntries) /\ log'[j] \in Seq(LogEntries)
                           /\ Len(log[j]) \in Nat /\ Agree(log[j], log'[j], Len(log[j]))
  <2>1. /\ log'[i] = N /\ state'[i] = Leader
        /\ \A j \in Server : j # i => log'[j] = log[j] /\ state'[j] = state[j]
    BY <1>0, <1>2 DEF ElectionInv, ElectionTypeOK
  <2>2. \A j \in Server : log[j] \in Seq(LogEntries) /\ log'[j] \in Seq(LogEntries) /\ Len(log[j]) \in Nat
    <3> TAKE j \in Server
    <3>1. log[j] \in Seq(LogEntries)
      BY <1>0
    <3>2. log'[j] \in Seq(LogEntries)
      BY <1>1, <2>1, <3>1
    <3>. QED  BY <3>1, <3>2
  <2>3. \A j \in Server : Agree(log[j], log'[j], Len(log[j]))
    BY <1>1, <2>1, <2>2 DEF Agree
  <2>. QED  BY <2>1, <2>2, <2>3
<1>5. /\ Len(H[t]) < last /\ LogsGrow(H, H2)
      /\ \A q \in Server : A[t][q] < last
  <2>1. H[t] = << >> \/ H[t] = log[i]
    BY DEF ReadyToAppend
  <2>2. Len(H[t]) < last /\ Agree(H[t], N, Len(H[t]))
    <3>1. CASE H[t] = << >>
      BY <1>0, <1>1, <3>1 DEF Agree
    <3>2. CASE H[t] = log[i]
      BY <1>0, <1>1, <3>2
    <3>. QED  BY <2>1, <3>1, <3>2
  <2>3. \A q \in Server : A[t][q] <= Len(H[t]) /\ A[t][q] \in Nat
    BY <1>0 DEF LogInv, HistoryTyped
  <2>4. \A u \in Terms : Agree(H[u], H[u], Len(H[u]))
    BY <1>0 DEF Agree
  <2>5. \A q \in Server : A[t][q] < last
    BY <1>0, <2>2, <2>3
  <2>6. \A u \in Terms : Agree(H[u], H2[u], Len(H[u]))
    BY <1>3, <2>2, <2>4
  <2>. QED  BY <2>2, <2>5, <2>6 DEF LogsGrow
<1>6. AcksGrow(A, A2, i, t)
  <2>1. A[t][i] < last /\ A[t][i] \in Nat
    BY <1>0, <1>5
  <2>. QED  BY <1>0, <1>3, <2>1 DEF AcksGrow
\* The entries that the leaders created, the new one last.
<1>7. /\ \A u \in Terms : Created(H, u) \subseteq Created(H2, u)
      /\ \A u \in Terms : \A n \in Created(H2, u) : n \in Created(H, u) \/ (u = t /\ n = last)
      /\ \A u \in Terms : \A n \in Created(H2, u) : n \in Nat /\ n > 0
      /\ last \in Created(H2, t)
  <2>1. ASSUME NEW u \in Terms, NEW n \in Created(H, u) PROVE n \in Created(H2, u)
    <3>1. Agree(H[u], H2[u], Len(H[u])) /\ n \in 1..Len(H[u]) /\ H[u][n].term = u
      BY <1>5 DEF LogsGrow, Created
    <3>2. H[u] \in Seq(LogEntries) /\ H2[u] \in Seq(LogEntries)
      BY <1>0, <1>3
    <3>3. Len(H2[u]) \in Nat /\ Len(H[u]) \in Nat
      BY <3>2
    <3>. QED  BY <3>1, <3>3 DEF Agree, Created
  <2>2. ASSUME NEW u \in Terms, NEW n \in Created(H2, u), u # t \/ n # last
        PROVE  n \in Created(H, u)
    <3>1. CASE u # t
      BY <1>3, <3>1 DEF Created
    <3>2. CASE u = t
      <4>1. n \in 1..last /\ N[n].term = t /\ n # last
        BY <1>1, <1>3, <2>2, <3>2 DEF Created
      <4>2. n \in 1..Len(log[i])
        BY <1>0, <4>1
      <4>3. N[n] = log[i][n]
        BY <1>1, <4>2 DEF Agree
      <4>4. H[t] = log[i]
        <5>1. CASE H[t] = << >>
          <6>1. GoodLog(H, log[i])
            BY DEF LogInv, LogsAreGood
          <6>2. Agree(log[i], H[t], n)
            BY <4>1, <4>3, <4>2, <6>1 DEF GoodLog
          <6>. QED  BY <4>1, <5>1, <6>2 DEF Agree
        <5>. QED  BY <5>1 DEF ReadyToAppend
      <4>. QED  BY <3>2, <4>1, <4>3, <4>4, <4>2 DEF Created
    <3>. QED  BY <3>1, <3>2
  <2>3. last \in Created(H2, t)
    BY <1>0, <1>1, <1>2, <1>3 DEF Created
  <2>4. \A u \in Terms : \A n \in Created(H2, u) : n \in Nat /\ n > 0
    BY DEF Created
  <2>. QED  BY <2>1, <2>2, <2>3, <2>4
<1>8. \A u \in Terms : \A n : Overruled(A, n, u) => Overruled(A2, n, u)'
  <2>1. \A u \in Terms : \A n : Overruled(A, n, u) => Overruled(A2, n, u)
    BY <1>0, <1>6, OverruledGrows
  <2>. QED  BY <1>2, <2>1 DEF Overruled
\* A leader of a later term was elected without the new entry.
<1>9. ASSUME NEW e \in elected', e.term > t
      PROVE  Overruled(A2, last, t)'
  <2>1. e \in elected
    BY <1>0, <1>2, <1>9
  <2>2. ASSUME NEW q \in e.voters PROVE A2[t][q] < last
    <3>1. q \in Server /\ e.term \in Nat /\ currentTerm[q] \in Nat /\ e.term <= currentTerm[q]
      BY <2>1, VoterTerm DEF Terms
    <3>2. q # i
      BY <1>0, <1>9, <3>1
    <3>3. A2[t][q] = A[t][q] /\ A[t][q] < last
      BY <1>3, <1>5, <3>1, <3>2
    <3>. QED  BY <3>3
  <2>. QED  BY <1>9, <2>2 DEF Overruled
<1>10. /\ \A e \in elected' : e.term = t => e.leader = i
       /\ \E e \in elected' : e.term = t
  <2>1. WasElected(i, t)'
    BY <1>0, <1>2, <1>4 DEF ElectionInv, LeadersWereElected
  <2>. QED  BY <2>1 DEF ElectionInv, ElectionSafety, WasElected
<1>11. HistoryTyped(H2, A2)'
  <2> SUFFICES ASSUME NEW u \in Terms, NEW q \in Server
               PROVE  A2[u][q] <= Len(H2[u]) /\ (A2[u][q] > 0 => u <= currentTerm[q])
    BY <1>2, <1>3 DEF HistoryTyped
  <2>1. A[u][q] <= Len(H[u]) /\ (A[u][q] > 0 => u <= currentTerm[q])
    BY DEF LogInv, HistoryTyped
  <2>2. CASE u = t /\ q = i
    BY <1>0, <1>1, <1>3, <2>2
  <2>3. CASE u # t
    BY <1>3, <2>1, <2>3
  <2>4. CASE u = t /\ q # i
    <3>1. A2[t][q] = A[t][q] /\ A[t][q] < last /\ Len(H2[t]) = last /\ A[t][q] \in Nat
      BY <1>0, <1>1, <1>3, <1>5, <2>4
    <3>. QED  BY <1>0, <2>1, <2>4, <3>1
  <2>. QED  BY <2>2, <2>3, <2>4
<1>12. \A L \in Seq(LogEntries) : GoodLog(H, L) => GoodLog(H2, L)
  BY <1>0, <1>3, <1>5, GoodGrows
<1>13. GoodLog(H2, N)
  <2> SUFFICES ASSUME NEW p \in 1..Len(N)
               PROVE  /\ N[p].index = p /\ N[p].term \in Terms
                      /\ Agree(N, H2[N[p].term], p)
    BY DEF GoodLog
  <2>1. CASE p = last
    BY <1>0, <1>1, <1>2, <1>3, <2>1
  <2>2. CASE p # last
    <3>1. p \in 1..Len(log[i]) /\ N[p] = log[i][p] /\ p \in Nat
      <4>1. p \in 1..Len(log[i])
        BY <1>0, <1>1, <2>2
      <4>. QED  BY <1>1, <4>1 DEF Agree
    <3>2. GoodLog(H2, log[i])
      BY <1>4, <1>12 DEF LogInv, LogsAreGood
    <3>3. log[i][p].index = p /\ log[i][p].term \in Terms /\ Agree(log[i], H2[log[i][p].term], p)
      BY <3>1, <3>2 DEF GoodLog
    <3>4. Agree(N, log[i], p)
      <4>1. log[i] \in Seq(LogEntries) /\ p <= Len(log[i])
        BY <1>0, <3>1
      <4>. QED  BY <1>0, <1>1, <3>1, <4>1, AgreeShorter, AgreeSym
    <3>. QED  BY <3>1, <3>3, <3>4, AgreeTrans
  <2>. QED  BY <2>1, <2>2
<1>14. LeaderLogs(H2)'
  <2> SUFFICES ASSUME NEW u \in Terms
               PROVE  /\ GoodLog(H2, H2[u])
                      /\ \A p \in 1..Len(H2[u]) : H2[u][p].term <= u
                      /\ H2[u] # << >> <=> \E e \in elected' : e.term = u
                      /\ H2[u] # << >> => H2[u][Len(H2[u])].term = u
    BY DEF LeaderLogs
  <2>1. CASE u # t
    <3>1. /\ GoodLog(H, H[u])
          /\ \A p \in 1..Len(H[u]) : H[u][p].term <= u
          /\ H[u] # << >> <=> \E e \in elected : e.term = u
          /\ H[u] # << >> => H[u][Len(H[u])].term = u
      BY DEF LogInv, LeaderLogs
    <3>2. H2[u] = H[u] /\ GoodLog(H2, H[u])
      BY <1>0, <1>3, <1>12, <2>1, <3>1
    <3>3. (\E e \in elected' : e.term = u) <=> (\E e \in elected : e.term = u)
      BY <1>2, <2>1
    <3>. QED  BY <3>1, <3>2, <3>3
  <2>2. CASE u = t
    <3>1. N # << >> /\ N[Len(N)].term = t
      <4>1. Len(N) = last /\ last > 0 /\ N[last].term = t
        BY <1>0, <1>1, <1>2
      <4>. QED  BY <4>1
    <3>2. \A p \in 1..Len(N) : N[p].term <= t
      <4> TAKE p \in 1..Len(N)
      <4>1. CASE p = last
        BY <1>0, <1>1, <1>2, <4>1
      <4>2. CASE p # last
        <5>1. p \in 1..Len(log[i])
          BY <1>0, <1>1, <4>2
        <5>2. N[p] = log[i][p]
          BY <1>1, <5>1 DEF Agree
        <5>. QED  BY <5>1, <5>2 DEF ReadyToAppend
      <4>. QED  BY <4>1, <4>2
    <3>3. \E e \in elected' : e.term = t
      BY <1>10
    <3>. QED  BY <1>3, <1>13, <2>2, <3>1, <3>2, <3>3
  <2>. QED  BY <2>1, <2>2
<1>15. LogsAreGood(H2)'
  BY <1>4, <1>12, <1>13 DEF LogInv, LogsAreGood
<1>16. \A j \in Server : j # i /\ state'[j] = Leader => currentTerm[j] # t /\ currentTerm[j] \in Terms
  <2>1. \A j \in Server : state'[j] = Leader => \E e \in elected' : e.leader = j /\ e.term = currentTerm[j]
    BY <1>2 DEF ElectionInv, LeadersWereElected, WasElected
  <2>2. \A j \in Server : currentTerm[j] \in Terms
    BY DEF ElectionInv, CallsAreTyped
  <2>. QED  BY <1>10, <2>1, <2>2
<1>17. LeadersHold(H2, A2)'
  <2> SUFFICES ASSUME NEW j \in Server, state'[j] = Leader
               PROVE  /\ log'[j] = H2[currentTerm[j]]
                      /\ A2[currentTerm[j]][j] = Len(log'[j])
    BY <1>2 DEF LeadersHold
  <2>1. CASE j = i
    BY <1>0, <1>1, <1>3, <1>4, <2>1
  <2>2. CASE j # i
    <3>1. log[j] = H[currentTerm[j]] /\ A[currentTerm[j]][j] = Len(log[j])
      BY <1>4, <2>2 DEF LogInv, LeadersHold
    <3>. QED  BY <1>3, <1>4, <1>16, <2>2, <3>1
  <2>. QED  BY <2>1, <2>2
<1>18. CampaignsAreNew'
  BY <1>0, <1>2, <1>4 DEF LogInv, CampaignsAreNew, WasElected
<1>19. \A c, q \in Server : HasVote(c, q)' => c # i /\ HasVote(c, q)
  BY <1>4 DEF AppendsAsLeader, HasVote
<1>20. FutureIsLost'
  <2> SUFFICES ASSUME NEW c \in Server, NEW p \in 1..Len(log'[c]), NEW e \in elected',
                      e.term = log'[c][p].term, e.term > currentTerm'[c],
                      NEW q \in e.voters, HasVote(c, q)'
               PROVE  FALSE
    BY DEF FutureIsLost
  <2>1. q \in Server
    BY DEF ElectionInv, ElectionTypeOK
  <2>2. c # i /\ HasVote(c, q) /\ log'[c] = log[c] /\ currentTerm'[c] = currentTerm[c]
    BY <1>2, <1>4, <1>19, <2>1
  <2>3. CASE e \in elected
    BY <2>2, <2>3 DEF LogInv, FutureIsLost
  <2>4. CASE e \notin elected
    <3>1. e.term = t /\ elected' # elected
      BY <1>2, <2>4
    <3>2. H[t] = << >>
      BY <3>1 DEF ReadyToAppend
    <3>3. Agree(log[c], H[t], p)
      BY <2>2, <3>1 DEF LogInv, LogsAreGood, GoodLog
    <3>. QED  BY <3>2, <3>3 DEF Agree
  <2>. QED  BY <2>3, <2>4
<1>21. RequestsDescribeLogs'
  <2> SUFFICES ASSUME NEW c \in DOMAIN calls', c.type = "RequestVote",
                      state'[c.src] = Candidate, currentTerm'[c.src] = c.term
               PROVE  c.lastLogIndex = Len(log'[c.src])
                      /\ c.lastLogTerm = LastLogTerm(log'[c.src], 0)
    BY DEF RequestsDescribeLogs
  <2>1. c.src \in Server /\ c \in DOMAIN calls
    BY DEF ElectionInv, CallsAreTyped
  <2>. QED  BY <1>2, <1>4, <2>1 DEF LogInv, RequestsDescribeLogs
<1>22. AckedIsKept(H2, A2)'
  <2> SUFFICES ASSUME NEW u \in Terms, NEW n \in Created(H2, u), NEW q \in Server,
                      A2[u][q] >= n, ~Overruled(A2, n, u)'
               PROVE  /\ Has(log'[q], n, u)
                      /\ \A c \in Server : HasVote(c, q)' /\ currentTerm[c] > u
                                             => CoversEntry(log'[c], n, u)
    BY <1>2 DEF AckedIsKept
  <2>1. ~Overruled(A, n, u) /\ n \in Nat /\ n > 0
    BY <1>7, <1>8
  <2>2. CASE u = t /\ q = i
    <3>1. Has(N, n, t)
      BY <1>3, <2>2 DEF Created, Has
    <3>2. ASSUME NEW c \in Server, HasVote(c, i)', currentTerm[c] > t
          PROVE  FALSE
      <4>1. c # i /\ HasVote(c, i) /\ currentTerm[c] \in Terms
        BY <1>19, <3>2 DEF ElectionInv, CallsAreTyped
      <4>2. Granted(i, c, currentTerm[c])
        BY <4>1 DEF HasVote
      <4>3. currentTerm[c] <= currentTerm[i]
        BY <4>1, <4>2 DEF ElectionInv, GrantsBind
      <4>4. currentTerm[c] \in Nat
        BY <1>0, <4>1
      <4>. QED  BY <1>0, <3>2, <4>3, <4>4
    <3>. QED  BY <1>2, <1>4, <2>2, <3>1, <3>2
  <2>3. CASE ~(u = t /\ q = i)
    <3>1. A2[u][q] = A[u][q]
      BY <1>3, <2>3
    <3>2. n \in Created(H, u)
      <4>1. CASE u = t /\ n = last
        <5>1. A[t][q] < last /\ A[t][q] \in Nat
          BY <1>0, <1>5
        <5>. QED  BY <1>0, <3>1, <4>1, <5>1
      <4>. QED  BY <1>7, <4>1
    <3>3. /\ Has(log[q], n, u)
          /\ \A c \in Server : HasVote(c, q) /\ currentTerm[c] > u => CoversEntry(log[c], n, u)
      BY <2>1, <3>1, <3>2 DEF LogInv, AckedIsKept
    <3>4. Has(log'[q], n, u)
      BY <1>4, <3>3, HasGrows
    <3>. QED  BY <1>4, <1>19, <3>3, <3>4
  <2>. QED  BY <2>2, <2>3
<1>23. ElectedHold(H2, A2)'
  <2> SUFFICES ASSUME NEW u \in Terms, NEW n \in Created(H2, u), NEW e \in elected',
                      e.term >= u, ~Overruled(A2, n, u)'
               PROVE  Has(log'[e.leader], n, u) /\ Has(H2[e.term], n, u)
    BY DEF ElectedHold
  <2>1. e.leader \in Server /\ e.term \in Terms /\ e.term \in Nat
    BY <1>0 DEF ElectionInv, ElectionTypeOK, CallsAreTyped
  <2>2. CASE u = t /\ n = last
    <3>1. e.term = t
      <4>1. CASE e.term > t
        BY <1>9, <2>2, <4>1
      <4>. QED  BY <1>0, <2>1, <2>2, <4>1
    <3>2. e.leader = i
      BY <1>10, <3>1
    <3>3. Has(N, n, u)
      BY <1>3, <2>2 DEF Created, Has
    <3>. QED  BY <1>3, <1>4, <3>1, <3>2, <3>3
  <2>3. CASE ~(u = t /\ n = last)
    <3>1. ~Overruled(A, n, u) /\ n \in Created(H, u)
      BY <1>7, <1>8, <2>3
    <3>2. CASE e \in elected
      <4>1. Has(log[e.leader], n, u) /\ Has(H[e.term], n, u)
        BY <3>1, <3>2 DEF LogInv, ElectedHold
      <4>2. Agree(H[e.term], H2[e.term], Len(H[e.term])) /\ H2[e.term] \in Seq(LogEntries)
            /\ H[e.term] \in Seq(LogEntries)
        BY <1>0, <1>3, <1>5, <2>1 DEF LogsGrow
      <4>3. Has(log'[e.leader], n, u)
        BY <1>4, <2>1, <4>1, HasGrows
      <4>. QED  BY <4>1, <4>2, <4>3, HasGrows
    <3>3. CASE e \notin elected
      <4>1. e.term = t /\ e.leader = i /\ elected' # elected
        BY <1>2, <3>3
      <4>2. H[t] = << >>
        BY <4>1 DEF ReadyToAppend
      <4>3. u # t
        BY <3>1, <4>2 DEF Created
      <4>4. u < t
        BY <1>0, <4>1, <4>3
      <4>5. Has(log[i], n, u)
        <5>1. ~Overruled(A, n, u)'
          <6>1. \A f \in elected' : f.term > u => \A q \in f.voters : q \in Server /\ A2[u][q] = A[u][q]
            BY <1>3, <4>3 DEF ElectionInv, ElectionTypeOK
          <6>. QED  BY <6>1 DEF Overruled
        <5>. QED  BY <3>1, <4>4, <5>1 DEF ReadyToAppend
      <4>6. Has(N, n, u)
        BY <1>1, <1>4, <4>5, HasGrows
      <4>. QED  BY <1>3, <1>4, <4>1, <4>6
    <3>. QED  BY <3>2, <3>3
  <2>. QED  BY <2>2, <2>3
<1>24. \A u \in Terms : \A n \in Created(H, u) :
         Chosen(H, A, n, u) => Chosen(H2, A2, n, u) /\ n \in Created(H2, u)
  <2> SUFFICES ASSUME NEW u \in Terms, NEW n \in Created(H, u), Chosen(H, A, n, u)
               PROVE  Chosen(H2, A2, n, u)
    BY <1>7
  <2> DEFINE P == {q \in Server : A[u][q] >= n}
             Q == {q \in Server : A2[u][q] >= n}
  <2>1. P \subseteq Q
    <3> SUFFICES ASSUME NEW q \in Server, A[u][q] >= n PROVE A2[u][q] >= n
      OBVIOUS
    <3>1. A2[u][q] >= A[u][q]
      BY <1>6, Zenon DEF AcksGrow
    <3>2. A \in [Terms -> [Server -> Nat]] /\ A2 \in [Terms -> [Server -> Nat]]
      BY <1>0, <1>3
    <3>3. A[u][q] \in Nat /\ A2[u][q] \in Nat
      <4>1. A[u] \in [Server -> Nat] /\ A2[u] \in [Server -> Nat]
        BY <3>2, Zenon
      <4>. QED  BY <4>1, Zenon
    <3>4. n \in Nat
      <4>1. n \in Created(H2, u)
        BY <1>7, Zenon
      <4>. QED  BY <1>7, <4>1, Zenon
    <3>. QED  BY <3>1, <3>3, <3>4
  <2>2. P \in Quorums
    BY DEF Chosen
  <2> HIDE DEF P
  <2>3. Q \in Quorums
    BY <2>1, <2>2, QuorumGrows
  <2>. QED  BY <1>7, <2>3 DEF Chosen
\* An elected caller of term t is this leader, and led it before the step.
<1>25. ASSUME NEW c \in Server, WasElected(c, t)
       PROVE  c = i /\ Leads(c, t) /\ H[t] = log[i]
  <2>1. c = i
    BY <1>2, <1>10, <1>25 DEF WasElected
  <2>2. \E e \in elected : e.term = t
    BY <1>25 DEF WasElected
  <2>. QED  BY <2>1, <2>2 DEF ReadyToAppend
<1>26. ASSUME NEW c, c.src \in Server, c.dst \in Server, c.term \in Terms,
              WasElected(c.src, c.term)
       PROVE  /\ Leads(c.src, c.term)' => Leads(c.src, c.term)
              /\ WasElected(c.src, c.term)'
  <2>1. CASE c.src = i /\ c.term = t
    BY <1>2, <1>25, <1>26, <2>1 DEF WasElected
  <2>2. CASE c.src = i /\ c.term # t
    BY <1>0, <1>2, <1>26, <2>2 DEF Leads, WasElected
  <2>3. CASE c.src # i
    BY <1>2, <1>4, <1>26, <2>3 DEF Leads, WasElected
  <2>. QED  BY <2>1, <2>2, <2>3
\* A request of a term in which the new entry may matter overrules it.
<1>27. ASSUME NEW c, c.term \in Terms, c.term > t, WasElected(c.src, c.term)
       PROVE  Overruled(A2, last, t)'
  <2>1. PICK e \in elected : e.term = c.term
    BY <1>27 DEF WasElected
  <2>. QED  BY <1>2, <1>9, <1>27, <2>1
<1>28. ASSUME NEW c, c.src \in Server, c.dst \in Server, c.term \in Terms,
              WasElected(c.src, c.term), DanglingOK(H, A, c)
       PROVE  DanglingOK(H2, A2, c)'
  <2>1. c.entries = << >> /\ ~Leads(c.src, c.term)'
    BY <1>26, <1>28 DEF DanglingOK
  <2>2. ASSUME NEW u \in Terms, NEW n \in Created(H2, u), u <= c.term
        PROVE  Overruled(A2, n, u)' \/ n < c.prevLogIndex
    <3>1. CASE n \in Created(H, u)
      BY <1>8, <1>28, <2>2, <3>1 DEF DanglingOK
    <3>2. CASE n \notin Created(H, u)
      <4>1. u = t /\ n = last
        BY <1>7, <3>2
      <4>2. CASE c.term = t
        BY <1>25, <1>28, <4>2 DEF DanglingOK
      <4>3. CASE c.term # t
        <5>1. c.term \in Nat /\ t \in Nat /\ t <= c.term
          BY <1>0, <1>28, <2>2, <4>1
        <5>2. c.term > t
          BY <4>3, <5>1
        <5>. QED  BY <1>27, <1>28, <4>1, <5>2
      <4>. QED  BY <4>2, <4>3
    <3>. QED  BY <3>1, <3>2
  <2>. QED  BY <2>1, <2>2 DEF DanglingOK
<1>29. ASSUME NEW c, c.src \in Server, c.dst \in Server, c.term \in Terms,
              c.prevLogIndex \in Nat, c.entries \in Seq(LogEntries),
              WasElected(c.src, c.term), RequestOK(H, A, c)
       PROVE  RequestOK(H2, A2, c)'
  <2>1. /\ c.prevLogTerm \in Terms /\ c.prevLogIndex <= Len(H[c.prevLogTerm])
        /\ H[c.prevLogTerm] \in Seq(LogEntries)
    <3>1. c.prevLogTerm \in Terms
      BY <1>29 DEF RequestOK
    <3>2. H[c.prevLogTerm] \in Seq(LogEntries) /\ Len(H[c.prevLogTerm]) \in Nat
      BY <1>0, <3>1
    <3>. QED  BY <1>29, <3>1, <3>2 DEF RequestOK, Has
  <2>2. RequestLog(H2, c) = RequestLog(H, c)
    <3>1. H \in [Terms -> Seq(LogEntries)] /\ H2 \in [Terms -> Seq(LogEntries)]
      BY <1>0, <1>3
    <3>2. LogsGrow(H, H2)
      BY <1>5
    <3>3. c.prevLogIndex \in Nat
      BY <1>29
    <3>. QED  BY <2>1, <3>1, <3>2, <3>3, RequestLogGrows
  <2> DEFINE R == RequestLog(H, c)
  <2>3. R \in Seq(LogEntries) /\ Len(R) \in Nat
    <3>1. SubSeq(H[c.prevLogTerm], 1, c.prevLogIndex) \in Seq(LogEntries)
      BY <1>29, <2>1, FirstEntries
    <3>2. R \in Seq(LogEntries)
      BY <1>29, <3>1, ConcatProperties DEF RequestLog
    <3>. QED  BY <3>2
  <2>4. /\ GoodLog(H, R)
        /\ Leads(c.src, c.term) => Agree(R, H[c.term], Len(R))
        /\ \A u \in Terms : \A n \in Created(H, u) : u <= c.term =>
             \/ Overruled(A, n, u)
             \/ Has(R, n, u)
             \/ u = c.term /\ Agree(R, H[u], Len(R)) /\ Len(R) < n
        /\ c.leaderCommit > 0 =>
             \E u \in Terms : \E n \in Created(H, u) :
               Chosen(H, A, n, u) /\ u <= c.term /\ c.leaderCommit <= n /\ Has(R, n, u)
        /\ c.prevLogIndex = 0 \/ Has(H[c.prevLogTerm], c.prevLogIndex, c.prevLogTerm)
    BY <1>29 DEF RequestOK
  <2> HIDE DEF R
  <2>5. \A u \in Terms : Agree(R, H[u], Len(R)) => Agree(R, H2[u], Len(R))
    BY <1>0, <1>3, <1>5, <2>3, AgreeGrows DEF LogsGrow
  <2>6. GoodLog(H2, R)
    BY <1>12, <2>3, <2>4
  <2>7. Leads(c.src, c.term)' => Agree(R, H2[c.term], Len(R))
    BY <1>26, <1>29, <2>4, <2>5
  <2>8. ASSUME NEW u \in Terms, NEW n \in Created(H2, u), u <= c.term
        PROVE  \/ Overruled(A2, n, u)'
               \/ Has(R, n, u)
               \/ u = c.term /\ Agree(R, H2[u], Len(R)) /\ Len(R) < n
    <3>1. CASE n \in Created(H, u)
      BY <1>8, <2>4, <2>5, <2>8, <3>1
    <3>2. CASE n \notin Created(H, u)
      <4>1. u = t /\ n = last
        BY <1>7, <3>2
      <4>2. CASE c.term = t
        <5>1. Agree(R, H[t], Len(R))
          BY <1>25, <1>29, <2>4, <4>2
        <5>2. Len(R) < last
          BY <1>0, <1>5, <2>3, <5>1 DEF Agree
        <5>. QED  BY <2>5, <4>1, <4>2, <5>1, <5>2
      <4>3. CASE c.term # t
        <5>1. c.term \in Nat /\ t \in Nat /\ t <= c.term
          BY <1>0, <1>29, <2>8, <4>1
        <5>2. c.term > t
          BY <4>3, <5>1
        <5>. QED  BY <1>27, <1>29, <4>1, <5>2
      <4>. QED  BY <4>2, <4>3
    <3>. QED  BY <3>1, <3>2
  <2>9. c.leaderCommit > 0 =>
          \E u \in Terms : \E n \in Created(H2, u) :
            Chosen(H2, A2, n, u) /\ u <= c.term /\ c.leaderCommit <= n /\ Has(R, n, u)
    BY <1>24, <2>4
  <2>10. c.prevLogIndex = 0 \/ Has(H2[c.prevLogTerm], c.prevLogIndex, c.prevLogTerm)
    BY <1>0, <1>3, <1>5, <2>1, <2>4, HasGrows DEF LogsGrow
  <2>. QED  BY <2>1, <2>2, <2>6, <2>7, <2>8, <2>9, <2>10 DEF RequestOK, R
<1>30. ASSUME NEW c, SendOK(H, A, c)
       PROVE  SendOK(H2, A2, c)
  BY <1>24, <1>30 DEF SendOK
<1>31. ASSUME NEW c, c.src \in Server, c.dst \in Server, c.term \in Terms, c.lastSent \in Nat,
              c.matchIndex \in Nat, ReplyOK(A, c)
       PROVE  ReplyOK(A2, c)'
  <2>1. WasElected(c.src, c.term)' /\ (Leads(c.src, c.term)' => Leads(c.src, c.term))
    BY <1>26, <1>31 DEF ReplyOK
  <2>2. A2[c.term][c.dst] >= A[c.term][c.dst] /\ A2[c.term][c.dst] \in Nat
        /\ A[c.term][c.dst] \in Nat
    <3>1. A \in [Terms -> [Server -> Nat]] /\ A2 \in [Terms -> [Server -> Nat]]
      BY <1>0, <1>3
    <3>2. A2[c.term][c.dst] >= A[c.term][c.dst]
      BY <1>6, <1>31 DEF AcksGrow
    <3>. QED  BY <1>31, <3>1, <3>2
  <2>3. Len(log[c.src]) <= Len(log'[c.src]) /\ Len(log[c.src]) \in Nat /\ Len(log'[c.src]) \in Nat
    BY <1>4, <1>31 DEF Agree
  <2>. QED  BY <1>31, <2>1, <2>2, <2>3 DEF ReplyOK
<1>32. CallsOK(H2, A2)'
  <2> SUFFICES ASSUME NEW c \in DOMAIN calls' PROVE CallOK(H2, A2, c)'
    BY DEF CallsOK
  <2>1. c.src \in Server /\ c.dst \in Server /\ c.term \in Terms
    BY DEF ElectionInv, CallsAreTyped
  <2>2. CASE c \notin DOMAIN calls
    BY <1>30, <2>2 DEF CallOK
  <2>3. CASE c \in DOMAIN calls
    <3>1. CallOK(H, A, c) /\ c \in CallRecords
      BY <2>3 DEF LogInv, CallsOK, CallTypeOK
    <3>2. CASE c.type = "AppendEntries"
      <4>1. c.prevLogIndex \in Nat /\ c.entries \in Seq(LogEntries)
        BY <3>1, <3>2 DEF CallRecords
      <4>2. WasElected(c.src, c.term)
        BY <2>3, <3>2 DEF ElectionInv, LeadersWereElected
      <4>3. IF Dangling(c) THEN DanglingOK(H, A, c) ELSE RequestOK(H, A, c)
        BY <3>1, <3>2 DEF CallOK
      <4>4. IF Dangling(c) THEN DanglingOK(H2, A2, c)' ELSE RequestOK(H2, A2, c)'
        BY <1>28, <1>29, <2>1, <4>1, <4>2, <4>3
      <4>. QED  BY <3>2, <4>4 DEF CallOK
    <3>3. CASE c.type = "SendAppendEntries"
      BY <1>30, <3>1, <3>3 DEF CallOK
    <3>4. CASE c.type = "AppendEntriesReply"
      <4>1. c.lastSent \in Nat /\ c.matchIndex \in Nat
        BY <3>1, <3>4 DEF CallRecords
      <4>2. ReplyOK(A, c)
        BY <3>1, <3>4 DEF CallOK
      <4>3. ReplyOK(A2, c)'
        BY <1>31, <2>1, <4>1, <4>2
      <4>. QED  BY <3>4, <4>3 DEF CallOK
    <3>5. CASE c.type \notin {"AppendEntries", "SendAppendEntries", "AppendEntriesReply"}
      BY <3>5 DEF CallOK
    <3>. QED  BY <3>2, <3>3, <3>4, <3>5
  <2>. QED  BY <2>2, <2>3
<1>33. TablesOK(H2, A2)'
  <2> SUFFICES ASSUME NEW l \in Server, NEW j \in Server, state'[l] = Leader, l # j
               PROVE  /\ matchIndex'[l][j] <= A2[currentTerm[l]][j]
                      /\ nextIndex'[l][j] <= Len(log'[l]) + 1
    BY <1>2 DEF TablesOK
  <2>1. CASE l = i
    <3>1. nextIndex'[i][j] <= last /\ matchIndex'[i][j] <= A[t][j] /\ A2[t][j] = A[t][j]
      BY <1>3, <2>1
    <3>2. Len(log'[i]) = last
      BY <1>1, <1>4
    <3>3. nextIndex'[i][j] \in Nat
      BY DEF LogTypeOK
    <3>4. currentTerm[l] = t
      BY <1>0, <2>1
    <3>5. nextIndex'[i][j] <= last + 1
      BY <1>0, <3>1, <3>3
    <3>. QED  BY <2>1, <3>1, <3>2, <3>4, <3>5
  <2>2. CASE l # i
    <3>1. matchIndex[l][j] <= A[currentTerm[l]][j] /\ nextIndex[l][j] <= Len(log[l]) + 1
      BY <1>4, <2>2 DEF LogInv, TablesOK
    <3>2. A2[currentTerm[l]][j] = A[currentTerm[l]][j]
      BY <1>3, <1>16, <2>2
    <3>. QED  BY <1>4, <2>2, <3>1, <3>2
  <2>. QED  BY <2>1, <2>2
<1>34. AckedByTerm(A2)'
  <2> SUFFICES ASSUME NEW l \in Server, NEW q \in Server,
                      state'[l] = Leader, currentTerm[l] = currentTerm[q]
               PROVE  Agree(log'[q], log'[l], A2[currentTerm[q]][q])
    BY <1>2 DEF AckedByTerm, Leads
  <2>1. CASE l # i
    <3>1. currentTerm[q] # t /\ currentTerm[q] \in Terms /\ q # i
      BY <1>0, <1>16, <2>1
    <3>2. Agree(log[q], log[l], A[currentTerm[q]][q])
      BY <1>4, <2>1 DEF LogInv, AckedByTerm, Leads
    <3>. QED  BY <1>3, <1>4, <2>1, <3>1, <3>2
  <2>2. CASE l = i /\ q = i
    <3>1. currentTerm[q] = t /\ log'[q] = N /\ log'[l] = N /\ A2[t][q] = Len(N)
      BY <1>0, <1>1, <1>3, <1>4, <2>2
    <3>. QED  BY <1>1, <3>1
  <2>3. CASE l = i /\ q # i
    <3>1. currentTerm[q] = t /\ A2[t][q] = A[t][q] /\ A[t][q] \in Nat /\ log'[q] = log[q]
      BY <1>0, <1>3, <1>4, <2>3
    <3>2. CASE H[t] = << >>
      <4>1. A[t][q] <= Len(H[t])
        BY DEF LogInv, HistoryTyped
      <4>2. A[t][q] = 0
        BY <3>1, <3>2, <4>1
      <4>3. Len(log[q]) \in Nat /\ Len(N) \in Nat
        BY <1>0, <1>1, <1>4
      <4>. QED  BY <1>4, <2>3, <3>1, <4>2, <4>3 DEF Agree
    <3>3. CASE Leads(i, t)
      <4>1. Agree(log[q], log[i], A[t][q])
        BY <3>1, <3>3 DEF LogInv, AckedByTerm
      <4>2. log[q] \in Seq(LogEntries) /\ log[i] \in Seq(LogEntries)
        BY <1>4
      <4>3. Agree(log[q], N, A[t][q])
        BY <1>1, <3>1, <4>1, <4>2, AgreeGrows
      <4>. QED  BY <1>4, <2>3, <3>1, <4>3
    <3>. QED  BY <3>2, <3>3 DEF ReadyToAppend
  <2>. QED  BY <2>1, <2>2, <2>3
<1>35. CommitsOK(H2, A2)'
  <2> SUFFICES ASSUME NEW j \in Server, commitIndex[j] > 0
               PROVE  \E u \in Terms : \E n \in Created(H2, u) :
                        /\ Chosen(H2, A2, n, u) /\ u <= currentTerm[j] /\ commitIndex[j] <= n
                        /\ Agree(log'[j], H2[u], commitIndex[j])
    BY <1>2 DEF CommitsOK, CommittedUpTo
  <2>1. CommittedUpTo(H, A, log[j], currentTerm[j], commitIndex[j])
    BY DEF LogInv, CommitsOK
  <2>2. PICK u \in Terms : \E n \in Created(H, u) :
          /\ Chosen(H, A, n, u) /\ u <= currentTerm[j] /\ commitIndex[j] <= n
          /\ Agree(log[j], H[u], commitIndex[j])
    BY <2>1 DEF CommittedUpTo
  <2>3. PICK n \in Created(H, u) :
          /\ Chosen(H, A, n, u) /\ u <= currentTerm[j] /\ commitIndex[j] <= n
          /\ Agree(log[j], H[u], commitIndex[j])
    BY <2>2
  <2>4. /\ log[j] \in Seq(LogEntries) /\ log'[j] \in Seq(LogEntries)
        /\ H[u] \in Seq(LogEntries) /\ H2[u] \in Seq(LogEntries)
        /\ Agree(log[j], log'[j], Len(log[j])) /\ Agree(H[u], H2[u], Len(H[u]))
        /\ commitIndex[j] \in Nat
    BY <1>0, <1>3, <1>4, <1>5 DEF LogsGrow, LogTypeOK
  <2>5. Agree(log[j], H2[u], commitIndex[j])
    BY <2>3, <2>4, AgreeGrows
  <2>6. Agree(H2[u], log[j], commitIndex[j])
    BY <2>5, AgreeSym
  <2>7. Agree(H2[u], log'[j], commitIndex[j])
    BY <2>4, <2>6, AgreeGrows
  <2>8. Agree(log'[j], H2[u], commitIndex[j])
    BY <2>7, AgreeSym
  <2>. QED  BY <1>24, <2>3, <2>8
<1>. QED
  BY <1>11, <1>14, <1>15, <1>17, <1>18, <1>20, <1>21, <1>22, <1>23, <1>32, <1>33, <1>34, <1>35
     DEF LogInv

-----------------------------------------------------------------------------
(* States without a snapshot. *)

\* Every position of a log is the index of the entry there.
Plain ==
  /\ TypeInv
  /\ ElectionInv
  /\ \A i \in Server : snapshotIndex[i] = 0 /\ snapshotTerm[i] = 0

LEMMA PlainParts ==
  ASSUME Plain
  PROVE  /\ ElectionInv /\ ElectionTypeOK /\ LogTypeOK /\ CallTypeOK /\ ApplyTypeOK
         /\ TypeInv
  BY DEF Plain, TypeInv, TypeOK

LEMMA PlainLog ==
  ASSUME Plain, NEW H, NEW A, LogInv(H, A), NEW i \in Server
  PROVE  /\ log[i] \in Seq(LogEntries) /\ Len(log[i]) \in Nat /\ GoodLog(H, log[i])
         /\ LastIndex(i) = Len(log[i])
         /\ LastTerm(i) = LastLogTerm(log[i], 0)
         /\ \A n \in Nat : HasEntry(i, n) <=> n \in 1..Len(log[i])
         /\ \A n \in Nat : Entry(i, n) = log[i][n]
<1>1. log[i] \in Seq(LogEntries) /\ snapshotIndex[i] = 0 /\ snapshotTerm[i] = 0
  BY PlainParts DEF Plain, LogTypeOK
<1>2. GoodLog(H, log[i])
  BY DEF LogInv, LogsAreGood
<1>3. LastIndex(i) = Len(log[i])
  BY <1>1, <1>2, GoodLastIndex DEF LastIndex
<1>4. LastTerm(i) = LastLogTerm(log[i], 0)
  BY <1>1 DEF LastTerm
<1>5. \A n \in Nat : (HasEntry(i, n) <=> n \in 1..Len(log[i])) /\ Entry(i, n) = log[i][n]
  BY <1>1 DEF HasEntry, HasLogEntry, Entry, GetLogEntry, LogicalToPhysical
<1>. QED  BY <1>1, <1>2, <1>3, <1>4, <1>5

LEMMA HistoryParts ==
  ASSUME NEW H, NEW A, LogInv(H, A)
  PROVE  /\ H \in [Terms -> Seq(LogEntries)] /\ A \in [Terms -> [Server -> Nat]]
         /\ \A t \in Terms : t \in Nat /\ H[t] \in Seq(LogEntries) /\ Len(H[t]) \in Nat
<1>1. H \in [Terms -> Seq(LogEntries)] /\ A \in [Terms -> [Server -> Nat]]
  BY DEF LogInv, HistoryTyped
<1>2. \A t \in Terms : t \in Nat /\ H[t] \in Seq(LogEntries)
  BY <1>1 DEF Terms
<1>. QED  BY <1>1, <1>2

\* A request of which a position is known describes a log.
LEMMA RequestLogParts ==
  ASSUME CallTypeOK, NEW H, NEW A, LogInv(H, A), NEW c \in DOMAIN calls,
         c.type = "AppendEntries", ~Dangling(c)
  PROVE  /\ RequestOK(H, A, c)
         /\ RequestLog(H, c) \in Seq(LogEntries) /\ Len(RequestLog(H, c)) \in Nat
         /\ GoodLog(H, RequestLog(H, c))
         /\ c.prevLogIndex \in Nat /\ c.entries \in Seq(LogEntries)
         /\ EndOf(RequestLog(H, c), c.prevLogIndex, c.entries)
         /\ Agree(RequestLog(H, c), H[c.prevLogTerm], c.prevLogIndex)
<1> DEFINE n == c.prevLogIndex
           M == H[c.prevLogTerm]
           first == SubSeq(M, 1, n)
           R == RequestLog(H, c)
<1>1. n \in Nat /\ c.entries \in Seq(LogEntries) /\ Len(c.entries) \in Nat
  <2>1. n \in Nat /\ c.entries \in Seq(LogEntries)
    BY DEF CallTypeOK, CallRecords
  <2>. QED  BY <2>1
<1>2. RequestOK(H, A, c)
  BY DEF LogInv, CallsOK, CallOK
<1>3. c.prevLogTerm \in Terms /\ (n = 0 \/ Has(M, n, c.prevLogTerm)) /\ GoodLog(H, R)
  BY <1>2 DEF RequestOK
<1>4. M \in Seq(LogEntries) /\ Len(M) \in Nat
  BY <1>3, HistoryParts
<1>5. n \in 0..Len(M)
  BY <1>1, <1>3, <1>4 DEF Has
<1>6. R = first \o c.entries
  BY DEF RequestLog
<1> HIDE DEF M, R, n
<1>7. /\ first \in Seq(LogEntries) /\ Len(first) = n
      /\ \A p \in 1..n : first[p] = M[p]
  BY <1>4, <1>5, FirstEntries
<1> HIDE DEF first
<1>8. /\ R \in Seq(LogEntries) /\ Len(R) = n + Len(c.entries)
      /\ \A p \in 1..(n + Len(c.entries)) :
           R[p] = IF p <= n THEN first[p] ELSE c.entries[p - n]
  BY <1>1, <1>6, <1>7, ConcatProperties
<1>9. EndOf(R, n, c.entries)
  <2>1. ASSUME NEW k \in 1..Len(c.entries) PROVE R[n + k] = c.entries[k]
    <3>1. n + k \in 1..(n + Len(c.entries)) /\ ~(n + k <= n) /\ (n + k) - n = k
      BY <1>1
    <3>. QED  BY <1>8, <3>1
  <2>. QED  BY <1>8, <2>1 DEF EndOf
<1>10. Agree(R, M, n)
  <2>1. ASSUME NEW p \in 1..n PROVE R[p] = M[p]
    <3>1. p \in 1..(n + Len(c.entries)) /\ p <= n
      BY <1>1
    <3>. QED  BY <1>7, <1>8, <3>1
  <2>. QED  BY <1>1, <1>5, <1>8, <2>1 DEF Agree
<1>. QED  BY <1>1, <1>2, <1>3, <1>8, <1>9, <1>10 DEF M, R, n

-----------------------------------------------------------------------------
(* Actions that change no log. *)

\* Nobody gains a vote but by a call that grants one.
LEMMA NoNewVotes ==
  ASSUME OnlyHarmlessCallsAdded, elected' = elected,
         \A c \in Server : state'[c] = Candidate
           => /\ state[c] = Candidate
              /\ currentTerm'[c] = currentTerm[c]
              /\ votesReceived'[c] = votesReceived[c]
  PROVE  \A c, q \in Server : HasVote(c, q)' =>
           HasVote(c, q) /\ currentTerm'[c] = currentTerm[c]
<1> SUFFICES ASSUME NEW c \in Server, NEW q \in Server, HasVote(c, q)'
             PROVE  HasVote(c, q) /\ currentTerm'[c] = currentTerm[c]
  OBVIOUS
<1>1. state[c] = Candidate /\ currentTerm'[c] = currentTerm[c]
  BY DEF HasVote
<1>2. CASE q = c
  BY <1>1, <1>2 DEF HasVote
<1>3. CASE q # c
  <2>1. PICK t : t = currentTerm[c]
    OBVIOUS
  <2>2. Granted(q, c, t)'
    BY <1>1, <1>3, <2>1 DEF HasVote, Granted
  <2>3. Granted(q, c, t)
    BY <2>2, NoNewGrants
  <2>. QED  BY <1>1, <2>1, <2>3 DEF HasVote
<1>. QED  BY <1>2, <1>3

\* No node changes its role, and no vote is given.
LEMMA QuietAction ==
  ASSUME Plain, Plain', NEW H, NEW A, LogInv(H, A),
         UNCHANGED <<electionVars, log, elected>>, OnlyHarmlessCallsAdded,
         NewCallsOK(H, A), TablesStayOK(A), CommitsStayOK(H, A)
  PROVE  LogInv(H, A)'
<1>1. ElectionInv /\ ElectionInv' /\ \A i \in Server : currentTerm[i] \in Nat
  BY DEF Plain, TypeInv, TypeOK, ElectionTypeOK
<1>2. RolesFall
  BY <1>1 DEF RolesFall, electionVars
<1>3. VotesAreInformed(H, A)
  <2>1. \A c, q \in Server : HasVote(c, q)' =>
          HasVote(c, q) /\ currentTerm'[c] = currentTerm[c]
    BY NoNewVotes DEF electionVars
  <2>. QED  BY <2>1 DEF VotesAreInformed
<1>. QED  BY <1>1, <1>2, <1>3, QuietLogStep

\* Nor do the tables and the commit indexes change, or any call start.
LEMMA IdleAction ==
  ASSUME Plain, Plain', NEW H, NEW A, LogInv(H, A),
         UNCHANGED <<electionVars, log, elected, leaderVars, commitIndex>>,
         DOMAIN calls' \subseteq DOMAIN calls
  PROVE  LogInv(H, A)'
<1>1. OnlyHarmlessCallsAdded /\ NewCallsOK(H, A)
  BY DEF OnlyHarmlessCallsAdded, NewCallsOK
<1>2. TablesStayOK(A) /\ CommitsStayOK(H, A)
  BY DEF TablesStayOK, CommitsStayOK, LogInv, TablesOK, leaderVars, electionVars
<1>. QED  BY <1>1, <1>2, QuietAction

\* A node becomes a follower, because it restarts or has heard of a newer term.
LEMMA StepDownAction ==
  ASSUME Plain, Plain', NEW H, NEW A, LogInv(H, A), NEW i \in Server, NEW t \in Nat,
         t >= currentTerm[i],
         state' = [state EXCEPT ![i] = Follower],
         currentTerm' = [currentTerm EXCEPT ![i] = t],
         \A j \in Server \ {i} : /\ votesReceived'[j] = votesReceived[j]
                                 /\ nextIndex'[j] = nextIndex[j]
                                 /\ matchIndex'[j] = matchIndex[j]
                                 /\ commitIndex'[j] = commitIndex[j],
         commitIndex'[i] \in {0, commitIndex[i]},
         log' = log, elected' = elected,
         OnlyHarmlessCallsAdded, NewCallsOK(H, A)
  PROVE  LogInv(H, A)'
<1> USE DEF Follower, Candidate, Leader
<1>1. /\ ElectionInv /\ ElectionInv'
      /\ \A j \in Server : currentTerm[j] \in Nat
      /\ state \in [Server -> {Follower, Candidate, Leader}]
      /\ currentTerm \in [Server -> Nat]
  BY DEF Plain, TypeInv, TypeOK, ElectionTypeOK
<1>2. /\ state'[i] = Follower /\ currentTerm'[i] = t
      /\ \A j \in Server : j # i => state'[j] = state[j] /\ currentTerm'[j] = currentTerm[j]
  BY <1>1
<1>3. RolesFall
  BY <1>1, <1>2 DEF RolesFall
<1>4. VotesAreInformed(H, A)
  <2>1. \A c, q \in Server : HasVote(c, q)' =>
          HasVote(c, q) /\ currentTerm'[c] = currentTerm[c]
    BY <1>2, NoNewVotes
  <2>. QED  BY <2>1 DEF VotesAreInformed
<1>5. TablesStayOK(A)
  BY <1>2 DEF TablesStayOK, LogInv, TablesOK
<1>6. CommitsStayOK(H, A)
  BY DEF CommitsStayOK
<1>. QED  BY <1>1, <1>3, <1>4, <1>5, <1>6, QuietLogStep

LEMMA StartElectionLogs ==
  ASSUME Plain, Plain', NEW H, NEW A, LogInv(H, A), NEW i \in Server, StartElection(i)
  PROVE  LogInv(H, A)'
<1> USE DEF Follower, Candidate, Leader
<1>1. /\ ElectionInv /\ ElectionInv' /\ HistoryTyped(H, A) /\ LeaderLogs(H) /\ CallTypeOK
      /\ \A j \in Server : currentTerm[j] \in Nat
      /\ state \in [Server -> {Follower, Candidate, Leader}]
      /\ currentTerm \in [Server -> Nat] /\ votesReceived \in [Server -> SUBSET Server]
  BY PlainParts DEF Plain, ElectionTypeOK, LogInv
<1>2. /\ state'[i] = Candidate /\ currentTerm'[i] = currentTerm[i] + 1
      /\ votesReceived'[i] = {i}
      /\ \A j \in Server : j # i => /\ state'[j] = state[j] /\ currentTerm'[j] = currentTerm[j]
                                    /\ votesReceived'[j] = votesReceived[j]
      /\ UNCHANGED <<log, elected, leaderVars, commitIndex>>
  BY <1>1 DEF StartElection, logVars
<1>3. DOMAIN calls' \subseteq DOMAIN calls \union
        {RequestVoteCall(i, j, currentTerm[i] + 1) : j \in Peers(i)}
  BY StartAdds DEF StartElection
<1>4. \A r \in DOMAIN calls' : r \in DOMAIN calls \/
        /\ r.type = "RequestVote" /\ r.src = i
        /\ r.lastLogIndex = LastIndex(i) /\ r.lastLogTerm = LastTerm(i)
  BY <1>3 DEF RequestVoteCall
<1>5. RolesFall
  BY <1>1, <1>2 DEF RolesFall
<1>6. ASSUME NEW c \in Server, NEW q \in Server, c # i, HasVote(c, q)'
      PROVE  HasVote(c, q)
  <2>1. state[c] = Candidate /\ currentTerm'[c] = currentTerm[c]
        /\ votesReceived'[c] = votesReceived[c]
    BY <1>2, <1>6 DEF HasVote
  <2>2. CASE q = c
    BY <2>1, <2>2 DEF HasVote
  <2>3. CASE q # c
    BY <1>2, <1>4, <1>6, <2>1, <2>3 DEF HasVote, Granted
  <2>. QED  BY <2>2, <2>3
<1>7. ASSUME NEW q \in Server, HasVote(i, q)'
      PROVE  q = i
  <2> SUFFICES ASSUME q # i PROVE FALSE
    OBVIOUS
  <2>1. CASE \E r \in DOMAIN calls' : r.type = "RequestVoteReply" /\ r.src = i
                                      /\ r.term = currentTerm'[i]
    <3>1. PICK r \in DOMAIN calls : r.src = i /\ r.term = currentTerm'[i]
      BY <1>4, <2>1
    <3>2. currentTerm'[i] <= currentTerm[i]
      BY <1>1, <3>1 DEF ElectionInv, LeadersWereElected
    <3>. QED  BY <1>1, <1>2, <3>2
  <2>2. CASE \E e \in elected : e.leader = i /\ e.term = currentTerm'[i]
    <3>1. currentTerm'[i] <= currentTerm[i]
      BY <1>1, <2>2 DEF ElectionInv, ElectedAreBacked
    <3>. QED  BY <1>1, <1>2, <3>1
  <2>. QED  BY <1>2, <1>7, <2>1, <2>2 DEF HasVote, Granted
<1>8. VotesAreInformed(H, A)
  <2> SUFFICES ASSUME NEW c \in Server, NEW q \in Server, HasVote(c, q)', c = i
               PROVE  /\ currentTerm[q] <= currentTerm'[c]
                      /\ \A t \in Terms : \A n \in Created(H, t) :
                           A[t][q] >= n /\ t < currentTerm'[c]
                             => Overruled(A, n, t) \/ CoversEntry(log[c], n, t)
    BY <1>2, <1>6 DEF VotesAreInformed
  <2>1. q = i
    BY <1>7
  <2>2. currentTerm[q] <= currentTerm'[c]
    BY <1>1, <1>2, <2>1
  <2>3. \A n, t : Has(log[i], n, t) => CoversEntry(log[i], n, t)
    BY <1>1, PlainLog, HasIsCovered, HistoryParts
  <2>4. \A t \in Terms : \A n \in Created(H, t) : A[t][i] >= n =>
          Overruled(A, n, t) \/ Has(log[i], n, t)
    BY DEF LogInv, AckedIsKept
  <2>. QED  BY <2>1, <2>2, <2>3, <2>4
<1>9. NewCallsOK(H, A)
  <2>1. LastIndex(i) = Len(log[i]) /\ LastTerm(i) = LastLogTerm(log[i], 0)
    BY PlainLog
  <2>. QED  BY <1>4, <2>1 DEF NewCallsOK, CallOK
<1>10. TablesStayOK(A) /\ CommitsStayOK(H, A)
  BY <1>2 DEF TablesStayOK, CommitsStayOK, LogInv, TablesOK, leaderVars
<1>11. log' = log /\ elected' = elected
  BY <1>2
<1>. QED  BY <1>1, <1>5, <1>8, <1>9, <1>10, <1>11, QuietLogStep

\* The vote of HandleRequestVote goes to a log that covers what the voter has
\* acknowledged.
LEMMA HandleRequestVoteLogs ==
  ASSUME Plain, Plain', NEW H, NEW A, LogInv(H, A), NEW c \in DOMAIN calls,
         HandleRequestVote(c)
  PROVE  LogInv(H, A)'
<1> USE DEF Follower, Candidate, Leader
<1> DEFINE i == c.dst
           d == c.src
<1>1. /\ ElectionInv /\ ElectionInv' /\ HistoryTyped(H, A) /\ LeaderLogs(H) /\ CallTypeOK
      /\ \A j \in Server : currentTerm[j] \in Nat
      /\ state \in [Server -> {Follower, Candidate, Leader}]
      /\ currentTerm \in [Server -> Nat] /\ votesReceived \in [Server -> SUBSET Server]
      /\ i \in Server /\ d \in Server /\ i # d /\ c.term \in Nat
  BY PlainParts DEF Plain, ElectionTypeOK, LogInv, ElectionInv, CallsAreTyped, Terms
<1>2. c.type = "RequestVote" /\ UNCHANGED <<log, elected, leaderVars, commitIndex>>
  BY DEF HandleRequestVote, logVars
<1>3. \A r \in DOMAIN calls' : r \in DOMAIN calls \/
        /\ r.type = "RequestVoteReply" /\ r.src = d /\ r.dst = i
        /\ r.term = c.term /\ r.voteGranted = GrantsVote(c)
  <2> DEFINE a == [type |-> "RequestVoteReply", src |-> c.src, dst |-> i,
                   term |-> c.term, replyTerm |-> currentTerm'[i],
                   voteGranted |-> GrantsVote(c)]
  <2>1. Reply(c, a)
    BY DEF HandleRequestVote
  <2>2. DOMAIN calls' \subseteq DOMAIN calls \union {a}
    BY <2>1, ReplyAdds
  <2>. QED  BY <2>2
<1>4. /\ \A j \in Server : j # i => /\ state'[j] = state[j] /\ currentTerm'[j] = currentTerm[j]
                                    /\ votesReceived'[j] = votesReceived[j]
      /\ \/ /\ state'[i] = Follower /\ currentTerm'[i] = c.term /\ c.term > currentTerm[i]
         \/ /\ state'[i] = state[i] /\ currentTerm'[i] = currentTerm[i]
            /\ votesReceived'[i] = votesReceived[i]
  BY <1>1 DEF HandleRequestVote
<1>5. RolesFall
  BY <1>1, <1>4 DEF RolesFall
<1>6. ASSUME NEW b \in Server, NEW q \in Server, HasVote(b, q)'
      PROVE  /\ state[b] = Candidate /\ currentTerm'[b] = currentTerm[b]
             /\ HasVote(b, q) \/ (b = d /\ q = i /\ currentTerm[b] = c.term /\ GrantsVote(c))
  <2>1. state[b] = Candidate /\ currentTerm'[b] = currentTerm[b]
        /\ votesReceived'[b] = votesReceived[b]
    BY <1>4, <1>6 DEF HasVote
  <2>2. CASE q = b
    BY <2>1, <2>2 DEF HasVote
  <2>3. CASE q # b
    BY <1>2, <1>3, <1>6, <2>1, <2>3 DEF HasVote, Granted
  <2>. QED  BY <2>1, <2>2, <2>3
<1>7. VotesAreInformed(H, A)
  <2> SUFFICES ASSUME state[d] = Candidate, currentTerm'[d] = currentTerm[d],
                      currentTerm[d] = c.term, GrantsVote(c)
               PROVE  /\ currentTerm[i] <= currentTerm'[d]
                      /\ \A t \in Terms : \A n \in Created(H, t) :
                           A[t][i] >= n /\ t < currentTerm'[d]
                             => Overruled(A, n, t) \/ CoversEntry(log[d], n, t)
    BY <1>6 DEF VotesAreInformed
  <2>1. currentTerm[i] <= c.term /\ UpToDate(c.lastLogTerm, c.lastLogIndex, LastTerm(i), LastIndex(i))
    BY DEF GrantsVote
  <2>2. c.lastLogIndex = Len(log[d]) /\ c.lastLogTerm = LastLogTerm(log[d], 0)
    BY <1>2 DEF LogInv, RequestsDescribeLogs
  <2>3. /\ log[i] \in Seq(LogEntries) /\ log[d] \in Seq(LogEntries) /\ GoodLog(H, log[i])
        /\ LastTerm(i) = LastLogTerm(log[i], 0) /\ LastIndex(i) = Len(log[i])
    BY <1>1, PlainLog
  <2>4. UpToDate(LastLogTerm(log[d], 0), Len(log[d]), LastLogTerm(log[i], 0), Len(log[i]))
    BY <2>1, <2>2, <2>3
  <2>5. ASSUME NEW t \in Terms, NEW n \in Created(H, t), A[t][i] >= n
        PROVE  Overruled(A, n, t) \/ CoversEntry(log[d], n, t)
    <3>1. CASE Has(log[i], n, t)
      <4>1. CoversEntry(log[i], n, t)
        BY <1>1, <2>3, <3>1, HasIsCovered, HistoryParts
      <4>2. n \in Nat /\ t \in Nat
        BY DEF Created, Terms
      <4>3. log[i] \in Seq(LogEntries) /\ log[d] \in Seq(LogEntries)
        BY <2>3
      <4>4. CoversEntry(log[d], n, t)
        BY <2>4, <4>1, <4>2, <4>3, CoversTrans
      <4>. QED  BY <4>4
    <3>. QED  BY <1>1, <2>5, <3>1 DEF LogInv, AckedIsKept
  <2>. QED  BY <2>1, <2>5
<1>8. NewCallsOK(H, A)
  BY <1>3 DEF NewCallsOK, CallOK
<1>9. TablesStayOK(A) /\ CommitsStayOK(H, A)
  BY <1>2, <1>5 DEF TablesStayOK, CommitsStayOK, LogInv, TablesOK, leaderVars, RolesFall
<1>10. log' = log /\ elected' = elected
  BY <1>2
<1>. QED  BY <1>1, <1>5, <1>7, <1>8, <1>9, <1>10, QuietLogStep

LEMMA CountVoteLogs ==
  ASSUME Plain, Plain', NEW H, NEW A, LogInv(H, A), NEW c \in DOMAIN calls, CountVote(c)
  PROVE  LogInv(H, A)'
<1> USE DEF Follower, Candidate, Leader
<1>1. /\ ElectionInv /\ ElectionInv' /\ CallTypeOK
      /\ \A j \in Server : currentTerm[j] \in Nat
      /\ votesReceived \in [Server -> SUBSET Server]
      /\ c.src \in Server /\ c.dst \in Server
  BY PlainParts DEF Plain, ElectionTypeOK, ElectionInv, CallsAreTyped
<1>2. /\ UNCHANGED <<state, currentTerm, log, elected, leaderVars, commitIndex>>
      /\ votesReceived' = [votesReceived EXCEPT ![c.src] = votesReceived[c.src] \union {c.dst}]
      /\ DOMAIN calls' \subseteq DOMAIN calls
      /\ Granted(c.dst, c.src, currentTerm[c.src])
  <2>1. DOMAIN calls' \subseteq DOMAIN calls
    BY ConsumeAdds DEF CountVote
  <2>. QED  BY <2>1 DEF CountVote, VoteCounts, Granted, logVars
<1>3. ASSUME NEW b \in Server, NEW q \in Server, HasVote(b, q)'
      PROVE  HasVote(b, q)
  <2>1. CASE q = b
    BY <1>2, <1>3, <2>1 DEF HasVote
  <2>2. CASE q # b /\ b = c.src /\ q = c.dst
    BY <1>2, <1>3, <2>2 DEF HasVote
  <2>3. CASE q # b /\ ~(b = c.src /\ q = c.dst)
    <3>1. q \in votesReceived'[b] => q \in votesReceived[b]
      BY <1>1, <1>2, <2>3
    <3>. QED  BY <1>2, <1>3, <2>3, <3>1 DEF HasVote, Granted
  <2>. QED  BY <2>1, <2>2, <2>3
<1>4. RolesFall /\ VotesAreInformed(H, A)
  BY <1>1, <1>2, <1>3 DEF RolesFall, VotesAreInformed
<1>5. NewCallsOK(H, A) /\ TablesStayOK(A) /\ CommitsStayOK(H, A)
  BY <1>2 DEF NewCallsOK, TablesStayOK, CommitsStayOK, LogInv, TablesOK, leaderVars
<1>6. log' = log /\ elected' = elected
  BY <1>2
<1>. QED  BY <1>1, <1>4, <1>5, <1>6, QuietLogStep

LEMMA StepDownOnReplyLogs ==
  ASSUME Plain, Plain', NEW H, NEW A, LogInv(H, A), NEW c \in DOMAIN calls, StepDownOnReply(c)
  PROVE  LogInv(H, A)'
<1>1. /\ c.src \in Server /\ c.replyTerm \in Nat /\ c.replyTerm >= currentTerm[c.src]
      /\ votesReceived \in [Server -> SUBSET Server]
  BY PlainParts, CallTyped DEF StepDownOnReply, ElectionTypeOK
<1>2. DOMAIN calls' \subseteq DOMAIN calls
  BY ConsumeAdds DEF StepDownOnReply
<1>3. OnlyHarmlessCallsAdded /\ NewCallsOK(H, A)
  BY <1>2 DEF OnlyHarmlessCallsAdded, NewCallsOK
<1>4. /\ state' = [state EXCEPT ![c.src] = Follower]
      /\ currentTerm' = [currentTerm EXCEPT ![c.src] = c.replyTerm]
      /\ votesReceived' = [votesReceived EXCEPT ![c.src] = {}]
      /\ UNCHANGED <<log, elected, nextIndex, matchIndex, commitIndex>>
  BY DEF StepDownOnReply, BecomeFollower, logVars, leaderVars
<1>5. \A j \in Server \ {c.src} : votesReceived'[j] = votesReceived[j]
  BY <1>1, <1>4
<1>. QED  BY <1>1, <1>3, <1>4, <1>5, StepDownAction

LEMMA CrashLogs ==
  ASSUME Plain, Plain', NEW H, NEW A, LogInv(H, A), NEW i \in Server,
         NEW t \in Nat, t >= currentTerm[i], currentTerm' = [currentTerm EXCEPT ![i] = t],
         NEW callsLeft, DOMAIN callsLeft \subseteq DOMAIN calls, Reboot(i, callsLeft)
  PROVE  LogInv(H, A)'
<1>1. OnlyHarmlessCallsAdded /\ NewCallsOK(H, A)
  BY DEF Reboot, OnlyHarmlessCallsAdded, NewCallsOK
<1>2. /\ votesReceived \in [Server -> SUBSET Server]
      /\ nextIndex \in [Server -> [Server -> Nat]] /\ matchIndex \in [Server -> [Server -> Nat]]
      /\ commitIndex \in [Server -> Nat] /\ snapshotIndex[i] = 0
  BY PlainParts DEF Plain, ElectionTypeOK, LogTypeOK
<1>3. /\ state' = [state EXCEPT ![i] = Follower]
      /\ votesReceived' = [votesReceived EXCEPT ![i] = {}]
      /\ commitIndex' = [commitIndex EXCEPT ![i] = snapshotIndex[i]]
      /\ nextIndex' = [nextIndex EXCEPT ![i] = [j \in Server |-> 0]]
      /\ matchIndex' = [matchIndex EXCEPT ![i] = [j \in Server |-> 0]]
      /\ UNCHANGED <<log, elected>>
  BY DEF Reboot, logVars
<1>4. \A j \in Server \ {i} :
        /\ votesReceived'[j] = votesReceived[j] /\ nextIndex'[j] = nextIndex[j]
        /\ matchIndex'[j] = matchIndex[j] /\ commitIndex'[j] = commitIndex[j]
  BY <1>2, <1>3
<1>5. commitIndex'[i] \in {0, commitIndex[i]}
  BY <1>2, <1>3
<1>. QED  BY <1>1, <1>3, <1>4, <1>5, StepDownAction

\* The answer to an AppendEntries request, and who waits for it.
LEMMA AppendAnswer ==
  ASSUME ElectionInv, NEW c \in DOMAIN calls, c.type = "AppendEntries",
         NEW replyTerm \in Terms, NEW success \in BOOLEAN, NEW match,
         AppendReply(c, replyTerm, success, match)
  PROVE  /\ OnlyHarmlessCallsAdded
         /\ c.src \in Server /\ c.dst \in Server /\ c.src # c.dst /\ c.term \in Terms
         /\ WasElected(c.src, c.term)
         /\ \A r \in DOMAIN calls' : r \in DOMAIN calls \/
              /\ r.type = "AppendEntriesReply" /\ r.src = c.src /\ r.dst = c.dst
              /\ r.term = c.term /\ r.success = success /\ r.matchIndex = match
              /\ r.lastSent = LastSent(c)
<1>1. DOMAIN calls' \subseteq DOMAIN calls \union
          {[type |-> "AppendEntriesReply", src |-> c.src, dst |-> c.dst,
            term |-> c.term, replyTerm |-> replyTerm, success |-> success,
            matchIndex |-> match, lastSent |-> LastSent(c)]}
  BY ReplyAdds DEF AppendReply
<1>2. c.src \in Server /\ c.dst \in Server /\ c.src # c.dst /\ c.term \in Terms
      /\ c.term <= currentTerm[c.src] /\ WasElected(c.src, c.term)
  BY DEF ElectionInv, CallsAreTyped, LeadersWereElected
<1>. QED  BY <1>1, <1>2 DEF OnlyHarmlessCallsAdded, Harmless

\* The handler becomes a follower of the request's term, or is one.
LEMMA FollowParts ==
  ASSUME Plain, NEW c \in DOMAIN calls, FollowLeader(c)
  PROVE  /\ c.type = "AppendEntries" /\ c.dst \in Server /\ c.term \in Nat
         /\ c.term >= currentTerm[c.dst]
         /\ state' = [state EXCEPT ![c.dst] = Follower]
         /\ currentTerm' = [currentTerm EXCEPT ![c.dst] = c.term]
         /\ \A j \in Server \ {c.dst} : votesReceived'[j] = votesReceived[j]
<1>1. /\ c.type = "AppendEntries" /\ c.dst \in Server /\ c.term \in Nat
      /\ c.term >= currentTerm[c.dst]
      /\ state \in [Server -> {Follower, Candidate, Leader}]
      /\ currentTerm \in [Server -> Nat] /\ votesReceived \in [Server -> SUBSET Server]
  BY PlainParts, CallTyped DEF ElectionTypeOK, FollowLeader
<1>2. CASE StepsDownFor(c)
  BY <1>1, <1>2 DEF FollowLeader, BecomeFollower
<1>3. CASE ~StepsDownFor(c)
  <2>1. state[c.dst] = Follower /\ currentTerm[c.dst] = c.term
    BY <1>1, <1>3 DEF StepsDownFor
  <2>2. state' = state /\ currentTerm' = currentTerm /\ votesReceived' = votesReceived
    BY <1>3 DEF FollowLeader, electionVars
  <2>. QED  BY <1>1, <2>1, <2>2
<1>. QED  BY <1>1, <1>2, <1>3

LEMMA RejectStaleLogs ==
  ASSUME Plain, Plain', NEW H, NEW A, LogInv(H, A), NEW c \in DOMAIN calls,
         RejectStaleAppend(c)
  PROVE  LogInv(H, A)'
<1>1. /\ OnlyHarmlessCallsAdded /\ WasElected(c.src, c.term) /\ c.src \in Server
      /\ \A r \in DOMAIN calls' : r \in DOMAIN calls \/
              /\ r.type = "AppendEntriesReply" /\ r.src = c.src /\ r.dst = c.dst
              /\ r.term = c.term /\ r.success = FALSE /\ r.matchIndex = 0
              /\ r.lastSent = LastSent(c)
  <2>1. currentTerm[c.dst] \in Terms /\ ElectionInv
    BY PlainParts DEF ElectionInv, CallsAreTyped
  <2>2. c.type = "AppendEntries" /\ AppendReply(c, currentTerm[c.dst], FALSE, 0)
    BY DEF RejectStaleAppend
  <2>. QED  BY <2>1, <2>2, AppendAnswer
<1>2. Len(log[c.src]) \in Nat
  BY <1>1, PlainLog
<1>3. NewCallsOK(H, A)
  BY <1>1, <1>2 DEF NewCallsOK, CallOK, ReplyOK
<1>4. TablesStayOK(A) /\ CommitsStayOK(H, A)
  BY DEF RejectStaleAppend, TablesStayOK, CommitsStayOK, LogInv, TablesOK, leaderVars,
         electionVars
<1>. QED  BY <1>1, <1>3, <1>4, QuietAction DEF RejectStaleAppend, logVars

\* The hint of a follower whose log is too short lies within the log of a leader
\* that still leads.
LEMMA RejectShortLogs ==
  ASSUME Plain, Plain', NEW H, NEW A, LogInv(H, A), NEW c \in DOMAIN calls,
         RejectShortLog(c)
  PROVE  LogInv(H, A)'
<1>1. /\ c.type = "AppendEntries" /\ c.dst \in Server /\ c.term \in Nat
      /\ c.term >= currentTerm[c.dst]
      /\ state' = [state EXCEPT ![c.dst] = Follower]
      /\ currentTerm' = [currentTerm EXCEPT ![c.dst] = c.term]
      /\ \A j \in Server \ {c.dst} : votesReceived'[j] = votesReceived[j]
  BY FollowParts DEF RejectShortLog
<1>2. /\ OnlyHarmlessCallsAdded /\ WasElected(c.src, c.term) /\ c.src \in Server
      /\ \A r \in DOMAIN calls' : r \in DOMAIN calls \/
              /\ r.type = "AppendEntriesReply" /\ r.src = c.src /\ r.dst = c.dst
              /\ r.term = c.term /\ r.success = FALSE /\ r.matchIndex = LastIndex(c.dst)
              /\ r.lastSent = LastSent(c)
  <2>1. c.term \in Terms /\ ElectionInv
    BY PlainParts DEF ElectionInv, CallsAreTyped
  <2>2. AppendReply(c, c.term, FALSE, LastIndex(c.dst))
    BY DEF RejectShortLog
  <2>. QED  BY <1>1, <2>1, <2>2, AppendAnswer
<1>3. ASSUME Leads(c.src, c.term)
      PROVE  LastIndex(c.dst) <= Len(log[c.src])
  <2>1. ~Dangling(c)
    BY <1>1, <1>3 DEF LogInv, CallsOK, CallOK, DanglingOK
  <2> DEFINE R == RequestLog(H, c)
  <2>2. /\ RequestOK(H, A, c) /\ EndOf(R, c.prevLogIndex, c.entries) /\ Len(R) \in Nat
        /\ c.prevLogIndex \in Nat /\ c.entries \in Seq(LogEntries)
    BY <1>1, <2>1, RequestLogParts, PlainParts
  <2>3. Len(R) <= Len(H[c.term]) /\ log[c.src] = H[c.term]
    BY <1>2, <1>3, <2>2 DEF RequestOK, Agree, LogInv, LeadersHold, Leads
  <2>4. c.prevLogIndex <= Len(R)
    <3>1. Len(c.entries) \in Nat
      BY <2>2
    <3>. QED  BY <2>2, <3>1 DEF EndOf
  <2>5. c.prevLogIndex > LastIndex(c.dst) /\ LastIndex(c.dst) \in Nat
    BY <1>1, PlainLog DEF RejectShortLog, PrevBeyondLog
  <2>6. Len(log[c.src]) \in Nat
    BY <1>2, PlainLog
  <2>. QED  BY <2>2, <2>3, <2>4, <2>5, <2>6
<1>4. NewCallsOK(H, A)
  BY <1>2, <1>3 DEF NewCallsOK, CallOK, ReplyOK
<1>5. UNCHANGED <<log, nextIndex, matchIndex, commitIndex, elected>>
  BY DEF RejectShortLog, logVars, leaderVars
<1>. QED  BY <1>1, <1>2, <1>4, <1>5, StepDownAction

\* The entries from a position to the end of a log, behind those before it, are
\* the log.
LEMMA SplitLog ==
  ASSUME NEW E, NEW L \in Seq(E), NEW M \in Seq(E), NEW p \in Nat, Agree(L, M, p)
  PROVE  SubSeq(M, 1, p) \o SubSeq(L, p + 1, Len(L)) = L
<1> DEFINE first == SubSeq(M, 1, p)
           rest == SubSeq(L, p + 1, Len(L))
<1>1. p \in 0..Len(M) /\ p <= Len(L) /\ Len(L) \in Nat
  BY DEF Agree
<1>2. first \in Seq(E) /\ Len(first) = p /\ \A k \in 1..p : first[k] = M[k]
  BY <1>1, FirstEntries
<1>3. rest \in Seq(E)
  BY <1>1, PartIsSeq
<1>4. /\ Len(rest) = Len(L) - p
      /\ \A k \in 1..(Len(L) - p) : rest[k] = L[p + k]
  BY <1>1
<1> HIDE DEF first, rest
<1>5. /\ first \o rest \in Seq(E) /\ Len(first \o rest) = Len(L)
      /\ \A k \in 1..Len(L) : (first \o rest)[k] = IF k <= p THEN first[k] ELSE rest[k - p]
  BY <1>1, <1>2, <1>3, <1>4, ConcatProperties
<1>6. ASSUME NEW k \in 1..Len(L) PROVE (first \o rest)[k] = L[k]
  <2>1. CASE k <= p
    BY <1>2, <1>5, <2>1 DEF Agree
  <2>2. CASE k > p
    <3>1. k - p \in 1..(Len(L) - p) /\ p + (k - p) = k
      BY <1>1, <2>2
    <3>2. rest[k - p] = L[k]
      BY <1>4, <3>1
    <3>. QED  BY <1>1, <1>5, <2>2, <3>2
  <2>3. k <= p \/ k > p
    BY <1>1
  <2>. QED  BY <2>1, <2>2, <2>3
<1>7. first \o rest = L
  BY <1>5, <1>6, SeqEqual
<1>. QED  BY <1>7 DEF first, rest

\* What sendAppendEntries reads, as long as there is no snapshot.
LEMMA WhatIsSent ==
  ASSUME Plain, NEW H, NEW A, LogInv(H, A), NEW i \in Server, NEW j \in Server
  PROVE  /\ PrevLogIndex(i, j) \in Nat
         /\ PrevLogIndex(i, j) > Len(log[i]) =>
              /\ PrevLogTerm(i, PrevLogIndex(i, j)) = 0
              /\ EntriesToSend(i, j) = << >>
              /\ nextIndex[i][j] > Len(log[i]) + 1
         /\ PrevLogIndex(i, j) <= Len(log[i]) =>
              /\ EntriesToSend(i, j) = SubSeq(log[i], PrevLogIndex(i, j) + 1, Len(log[i]))
              /\ PrevLogTerm(i, PrevLogIndex(i, j)) =
                   IF PrevLogIndex(i, j) = 0 THEN 0 ELSE log[i][PrevLogIndex(i, j)].term
<1> DEFINE next == nextIndex[i][j]
           prev == PrevLogIndex(i, j)
           L == log[i]
<1>1. /\ L \in Seq(LogEntries) /\ Len(L) \in Nat /\ LastIndex(i) = Len(L)
      /\ \A n \in Nat : HasEntry(i, n) <=> n \in 1..Len(L)
      /\ \A n \in Nat : Entry(i, n) = L[n]
      /\ snapshotIndex[i] = 0 /\ snapshotTerm[i] = 0
  BY PlainLog DEF Plain
<1>2. next \in Nat
  BY PlainParts DEF LogTypeOK
<1>3. prev = IF next > 1 THEN next - 1 ELSE 0
  BY DEF PrevLogIndex
<1>4. prev \in Nat /\ (prev > Len(L) => next = prev + 1)
  BY <1>1, <1>2, <1>3
<1>5. PrevLogTerm(i, prev) = IF prev = 0 THEN 0 ELSE IF prev \in 1..Len(L) THEN L[prev].term ELSE 0
  BY <1>1, <1>4 DEF PrevLogTerm
<1>6. EntriesToSend(i, j) = IF next <= Len(L)
                            THEN EntriesBetween(L, 0, IF next <= 0 THEN 1 ELSE next, Len(L))
                            ELSE << >>
  BY <1>1 DEF EntriesToSend
<1>7. \A m \in Nat : m >= 1 => EntriesBetween(L, 0, m, Len(L)) = SubSeq(L, m, Len(L))
  <2> SUFFICES ASSUME NEW m \in Nat, m >= 1
               PROVE  EntriesBetween(L, 0, m, Len(L)) = SubSeq(L, m, Len(L))
    OBVIOUS
  <2>1. /\ (IF m - 0 < 1 THEN 1 ELSE m - 0) = m
        /\ (IF Len(L) - 0 > Len(L) THEN Len(L) ELSE Len(L) - 0) = Len(L)
    BY <1>1
  <2>. QED  BY <2>1, Zenon DEF EntriesBetween, LogicalToPhysical
<1> HIDE DEF next, prev, L
<1>8. CASE prev > Len(L)
  BY <1>1, <1>2, <1>4, <1>5, <1>6, <1>8 DEF next, prev, L
<1>9. CASE prev <= Len(L) /\ next <= Len(L)
  <2>1. (IF next <= 0 THEN 1 ELSE next) = prev + 1
    BY <1>2, <1>3
  <2>2. EntriesToSend(i, j) = SubSeq(L, prev + 1, Len(L))
    <3>1. EntriesToSend(i, j) = EntriesBetween(L, 0, prev + 1, Len(L))
      BY <1>6, <1>9, <2>1
    <3>2. prev + 1 \in Nat /\ prev + 1 >= 1
      BY <1>4
    <3>. QED  BY <1>7, <3>1, <3>2
  <2>. QED  BY <1>1, <1>4, <1>5, <1>9, <2>2 DEF next, prev, L
<1>10. CASE prev <= Len(L) /\ ~(next <= Len(L))
  <2>1. EntriesToSend(i, j) = << >> /\ prev + 1 > Len(L)
    BY <1>1, <1>2, <1>3, <1>6, <1>10
  <2>2. SubSeq(L, prev + 1, Len(L)) = << >>
    BY <1>1, <1>4, <2>1, SubSeqEmpty
  <2>. QED  BY <1>1, <1>4, <1>5, <1>10, <2>1, <2>2 DEF next, prev, L
<1>. QED  BY <1>1, <1>4, <1>8, <1>9, <1>10

\* A request of a node that leads, or has led, its term: it describes the log of
\* its sender, who may have lost the role since.
LEMMA SendAppendEntriesLogs ==
  ASSUME Plain, Plain', NEW H, NEW A, LogInv(H, A), NEW c \in DOMAIN calls,
         SendAppendEntries(c)
  PROVE  LogInv(H, A)'
<1> DEFINE i == c.src
           j == c.dst
           prev == PrevLogIndex(i, j)
           L == log[i]
<1>1. /\ c.type = "SendAppendEntries" /\ i \in Server /\ j \in Server /\ i # j
      /\ c.term \in Terms /\ c.term <= currentTerm[i] /\ WasElected(i, c.term)
  BY PlainParts DEF SendAppendEntries, ElectionInv, CallsAreTyped, LeadersWereElected
<1>2. \A r \in DOMAIN calls' : r \in DOMAIN calls \/
        /\ r.type = "AppendEntries" /\ r.src = i /\ r.dst = j /\ r.term = c.term
        /\ r.prevLogIndex = prev /\ r.prevLogTerm = PrevLogTerm(i, prev)
        /\ r.entries = EntriesToSend(i, j) /\ r.leaderCommit = c.leaderCommit
  <2> DEFINE a == [type |-> "AppendEntries", src |-> i, dst |-> j,
                 life |-> restarts[i], term |-> c.term,
                 prevLogIndex |-> prev, prevLogTerm |-> PrevLogTerm(i, prev),
                 entries |-> EntriesToSend(i, j),
                 leaderCommit |-> c.leaderCommit]
  <2>1. calls' = BagAdd(BagRemove(calls, c), a)
    BY DEF SendAppendEntries
  <2>2. DOMAIN calls' \subseteq DOMAIN calls \union {a}
    <3>1. DOMAIN BagRemove(calls, c) \subseteq DOMAIN calls
      BY BagRemoveDomain
    <3>2. DOMAIN BagAdd(BagRemove(calls, c), a) = DOMAIN BagRemove(calls, c) \union {a}
      BY BagAddDomain
    <3>. QED  BY <2>1, <3>1, <3>2
  <2>. QED  BY <2>2
<1>3. /\ L \in Seq(LogEntries) /\ Len(L) \in Nat /\ GoodLog(H, L)
      /\ prev \in Nat
      /\ prev > Len(L) => /\ PrevLogTerm(i, prev) = 0 /\ EntriesToSend(i, j) = << >>
                          /\ nextIndex[i][j] > Len(L) + 1
      /\ prev <= Len(L) =>
              /\ EntriesToSend(i, j) = SubSeq(L, prev + 1, Len(L))
              /\ PrevLogTerm(i, prev) = IF prev = 0 THEN 0 ELSE L[prev].term
  BY <1>1, PlainLog, WhatIsSent
<1>4. \A t \in Terms : \A n \in Created(H, t) : t <= c.term => Overruled(A, n, t) \/ Has(L, n, t)
  <2>1. PICK e \in elected : e.leader = i /\ e.term = c.term
    BY <1>1 DEF WasElected
  <2>2. \A t \in Terms : t <= c.term <=> c.term >= t
    BY <1>1 DEF Terms
  <2>. QED  BY <2>1, <2>2 DEF LogInv, ElectedHold
<1>5. c.leaderCommit > 0 =>
        \E t \in Terms : \E n \in Created(H, t) :
          Chosen(H, A, n, t) /\ t <= c.term /\ c.leaderCommit <= n /\ Has(L, n, t)
  <2>1. SendOK(H, A, c)
    BY <1>1 DEF LogInv, CallsOK, CallOK
  <2>2. \A t \in Terms : \A n : Chosen(H, A, n, t) => ~Overruled(A, n, t)
    BY PlainParts, ChosenStays DEF LogInv
  <2>. QED  BY <1>4, <2>1, <2>2 DEF SendOK
<1>6. Leads(i, c.term) => L = H[c.term] /\ nextIndex[i][j] <= Len(L) + 1
  BY <1>1 DEF LogInv, LeadersHold, TablesOK, Leads
<1> HIDE DEF prev
<1>7. ASSUME NEW r \in DOMAIN calls' \ DOMAIN calls, prev > Len(L)
      PROVE  Dangling(r) /\ DanglingOK(H, A, r)
  <2>1. Dangling(r) /\ r.entries = << >> /\ r.src = i /\ r.term = c.term /\ r.prevLogIndex = prev
    BY <1>2, <1>3, <1>7 DEF Dangling
  <2>2. ~Leads(i, c.term)
    <3>1. nextIndex[i][j] \in Nat
      BY <1>1, PlainParts DEF LogTypeOK
    <3>. QED  BY <1>3, <1>6, <1>7, <3>1
  <2>3. \A n, t : Has(L, n, t) => n < prev
    BY <1>3, <1>7 DEF Has
  <2>. QED  BY <1>4, <2>1, <2>2, <2>3 DEF DanglingOK
<1>8. ASSUME NEW r \in DOMAIN calls' \ DOMAIN calls, prev <= Len(L)
      PROVE  ~Dangling(r) /\ RequestOK(H, A, r)
  <2>1. /\ r.src = i /\ r.term = c.term /\ r.prevLogIndex = prev
        /\ r.entries = SubSeq(L, prev + 1, Len(L)) /\ r.leaderCommit = c.leaderCommit
        /\ r.prevLogTerm = IF prev = 0 THEN 0 ELSE L[prev].term
    BY <1>2, <1>3, <1>8
  <2>2. prev > 0 => Has(L, prev, r.prevLogTerm)
    BY <1>3, <1>8, <2>1 DEF Has
  <2>3. r.prevLogTerm \in Terms /\ Agree(L, H[r.prevLogTerm], prev)
    <3>1. CASE prev = 0
      <4>1. r.prevLogTerm = 0 /\ 0 \in Terms
        BY <2>1, <3>1, BoundAssumption DEF Terms
      <4>2. Len(H[0]) \in Nat
        BY <4>1, HistoryParts
      <4>. QED  BY <1>3, <3>1, <4>1, <4>2 DEF Agree
    <3>2. CASE prev # 0
      <4>1. Has(L, prev, r.prevLogTerm)
        BY <1>3, <2>2, <3>2
      <4>. QED  BY <1>3, <4>1, HasAgrees
    <3>. QED  BY <3>1, <3>2
  <2>4. H[r.prevLogTerm] \in Seq(LogEntries) /\ Len(H[r.prevLogTerm]) \in Nat
    BY <2>3, HistoryParts
  <2>5. prev = 0 \/ Has(H[r.prevLogTerm], prev, r.prevLogTerm)
    BY <1>3, <2>2, <2>3, <2>4 DEF Agree, Has
  <2>6. RequestLog(H, r) = L
    <3>1. SubSeq(H[r.prevLogTerm], 1, prev) \o SubSeq(L, prev + 1, Len(L)) = L
      BY <1>3, <2>3, <2>4, SplitLog
    <3>. QED  BY <2>1, <3>1 DEF RequestLog
  <2>7. ~Dangling(r)
    <3> SUFFICES ASSUME r.prevLogTerm = 0, prev > 0 PROVE FALSE
      BY <2>1 DEF Dangling
    <3>1. Has(H[0], prev, 0) /\ 0 \in Terms
      BY <1>3, <2>3, <2>5
    <3>2. H[0] # << >>
      BY <3>1 DEF Has
    <3>3. PICK e \in elected : e.term = 0
      BY <3>1, <3>2 DEF LogInv, LeaderLogs
    <3>. QED  BY <3>3 DEF LogInv, CampaignsAreNew
  <2>8. Leads(r.src, r.term) => Agree(L, H[r.term], Len(L))
    BY <1>3, <1>6, <2>1 DEF Agree
  <2>. QED  BY <1>3, <1>4, <1>5, <2>1, <2>3, <2>5, <2>6, <2>7, <2>8 DEF RequestOK
<1>9. NewCallsOK(H, A)
  <2>1. \A r \in DOMAIN calls' \ DOMAIN calls : r.type = "AppendEntries"
    BY <1>2
  <2>2. \A r \in DOMAIN calls' \ DOMAIN calls :
          IF Dangling(r) THEN DanglingOK(H, A, r) ELSE RequestOK(H, A, r)
    BY <1>3, <1>7, <1>8
  <2>. QED  BY <2>1, <2>2 DEF NewCallsOK, CallOK
<1>10. OnlyHarmlessCallsAdded
  BY <1>1, <1>2 DEF OnlyHarmlessCallsAdded, Harmless, Replies
<1>11. UNCHANGED <<electionVars, log, elected>> /\ TablesStayOK(A) /\ CommitsStayOK(H, A)
  BY DEF SendAppendEntries, TablesStayOK, CommitsStayOK, LogInv, TablesOK, leaderVars,
         electionVars, logVars
<1>. QED  BY <1>9, <1>10, <1>11, QuietAction

\* A broadcast carries a commit index behind which there is a chosen entry.
LEMMA BroadcastParts ==
  ASSUME Plain, NEW H, NEW A, LogInv(H, A), NEW i \in Server,
         Start({SendAppendCall(i, j) : j \in Peers(i)})
  PROVE  \A r \in DOMAIN calls' \ DOMAIN calls :
           /\ r.type = "SendAppendEntries" /\ SendOK(H, A, r)
           /\ r.src = i /\ r.term = currentTerm[i]
<1>1. DOMAIN calls' \subseteq DOMAIN calls \union {SendAppendCall(i, j) : j \in Peers(i)}
  BY StartAdds
<1>2. \A r \in DOMAIN calls' \ DOMAIN calls :
        /\ r.type = "SendAppendEntries" /\ r.src = i /\ r.term = currentTerm[i]
        /\ r.leaderCommit = commitIndex[i]
  BY <1>1 DEF SendAppendCall
<1>3. CommittedUpTo(H, A, log[i], currentTerm[i], commitIndex[i])
  BY DEF LogInv, CommitsOK
<1>. QED  BY <1>2, <1>3 DEF CommittedUpTo, SendOK

LEMMA BroadcastLogs ==
  ASSUME Plain, Plain', NEW H, NEW A, LogInv(H, A), NEW i \in Server,
         BroadcastAppendEntries(i)
  PROVE  LogInv(H, A)'
<1>1. \A r \in DOMAIN calls' \ DOMAIN calls :
        r.type = "SendAppendEntries" /\ SendOK(H, A, r)
  BY BroadcastParts DEF BroadcastAppendEntries
<1>2. NewCallsOK(H, A)
  BY <1>1 DEF NewCallsOK, CallOK
<1>3. OnlyHarmlessCallsAdded
  BY PlainParts, LeaderCallsAreHarmless DEF BroadcastAppendEntries
<1>4. UNCHANGED <<electionVars, log, elected>> /\ TablesStayOK(A) /\ CommitsStayOK(H, A)
  BY DEF BroadcastAppendEntries, TablesStayOK, CommitsStayOK, LogInv, TablesOK, leaderVars,
         electionVars, logVars
<1>. QED  BY <1>2, <1>3, <1>4, QuietAction

LEMMA SetCell ==
  ASSUME NEW m \in [Server -> [Server -> Nat]], NEW i \in Server, NEW j \in Server,
         NEW v, NEW m2, m2 = [m EXCEPT ![i][j] = v]
  PROVE  /\ m2[i][j] = v
         /\ \A l, k \in Server : l # i \/ k # j => m2[l][k] = m[l][k]
<1>1. m2[i] = [m[i] EXCEPT ![j] = v] /\ \A l \in Server : l # i => m2[l] = m[l]
  OBVIOUS
<1>2. m[i] \in [Server -> Nat]
  OBVIOUS
<1>. QED  BY <1>1, <1>2

\* A success counts for what it proves; what a majority has of the leader's term
\* is chosen.
LEMMA AdvanceOnSuccessLogs ==
  ASSUME Plain, Plain', NEW H, NEW A, LogInv(H, A), NEW c \in DOMAIN calls,
         AdvanceOnSuccess(c)
  PROVE  LogInv(H, A)'
<1> DEFINE i == c.src
           j == c.dst
           t == currentTerm[i]
           L == log[i]
<1>1. /\ c.type = "AppendEntriesReply" /\ c.success /\ state[i] = Leader /\ c.term = t
      /\ i \in Server /\ j \in Server /\ i # j /\ t \in Terms /\ c.lastSent \in Nat
  BY PlainParts DEF AdvanceOnSuccess, ReplyCounts, ElectionInv, CallsAreTyped, CallTypeOK,
                    CallRecords
<1>2. /\ matchIndex \in [Server -> [Server -> Nat]] /\ nextIndex \in [Server -> [Server -> Nat]]
      /\ commitIndex \in [Server -> Nat] /\ matchIndex' \in [Server -> [Server -> Nat]]
      /\ A \in [Terms -> [Server -> Nat]] /\ L \in Seq(LogEntries) /\ Len(L) \in Nat
      /\ LastIndex(i) = Len(L)
  <2>1. LogTypeOK /\ LogTypeOK'
    BY PlainParts DEF Plain, TypeInv, TypeOK
  <2>2. L \in Seq(LogEntries) /\ Len(L) \in Nat /\ LastIndex(i) = Len(L)
    BY <1>1, PlainLog
  <2>. QED  BY <2>1, <2>2, HistoryParts DEF LogTypeOK
<1>3. L = H[t] /\ A[t][i] = Len(L)
  BY <1>1 DEF LogInv, LeadersHold
<1>4. c.lastSent <= A[t][j] /\ A[t][j] <= Len(L) /\ A[t][j] \in Nat
  <2>1. c.lastSent <= A[t][j]
    BY <1>1 DEF LogInv, CallsOK, CallOK, ReplyOK, Leads
  <2>2. A[t][j] <= Len(H[t])
    BY <1>1 DEF LogInv, HistoryTyped
  <2>. QED  BY <1>1, <1>2, <1>3, <2>1, <2>2
<1>15. ASSUME NEW x \in Nat, NEW y \in Nat, NEW z \in Nat, x <= y, y <= z
       PROVE  x + 1 <= z + 1
  BY <1>15
<1>16. c.lastSent + 1 <= Len(L) + 1
  BY <1>1, <1>2, <1>4, <1>15
<1> DEFINE advanced == c.lastSent > matchIndex[i][j]
<1>5. /\ matchIndex' = [matchIndex EXCEPT ![i][j] = IF advanced THEN c.lastSent ELSE @]
      /\ nextIndex' = [nextIndex EXCEPT ![i][j] = IF advanced THEN c.lastSent + 1 ELSE @]
      /\ commitIndex' = [commitIndex EXCEPT ![i] = LeaderCommit(i, matchIndex'[i])]
  BY DEF AdvanceOnSuccess, ReplicatedUpTo
<1>6. UNCHANGED <<electionVars, log, elected>>
  BY DEF AdvanceOnSuccess, logVars
<1>7. \A k \in Server : k # i =>
        matchIndex[i][k] <= A[t][k] /\ nextIndex[i][k] <= Len(L) + 1
  BY <1>1 DEF LogInv, TablesOK
<1>12. /\ matchIndex'[i][j] = IF advanced THEN c.lastSent ELSE matchIndex[i][j]
       /\ \A l, k \in Server : l # i \/ k # j => matchIndex'[l][k] = matchIndex[l][k]
  <2>1. matchIndex' = [matchIndex EXCEPT ![i][j] = IF advanced THEN c.lastSent
                                                              ELSE matchIndex[i][j]]
    BY <1>5
  <2>. QED  BY <1>1, <1>2, <2>1, SetCell
<1>13. /\ nextIndex'[i][j] = IF advanced THEN c.lastSent + 1 ELSE nextIndex[i][j]
       /\ \A l, k \in Server : l # i \/ k # j => nextIndex'[l][k] = nextIndex[l][k]
  <2>1. nextIndex' = [nextIndex EXCEPT ![i][j] = IF advanced THEN c.lastSent + 1
                                                            ELSE nextIndex[i][j]]
    BY <1>5
  <2>. QED  BY <1>1, <1>2, <2>1, SetCell
<1>14. \A l, k \in Server :
         /\ l = i /\ k = j =>
              /\ matchIndex'[l][k] = IF advanced THEN c.lastSent ELSE matchIndex[i][j]
              /\ nextIndex'[l][k] = IF advanced THEN c.lastSent + 1 ELSE nextIndex[i][j]
         /\ ~(l = i /\ k = j) =>
              matchIndex'[l][k] = matchIndex[l][k] /\ nextIndex'[l][k] = nextIndex[l][k]
  BY <1>12, <1>13
<1>8. TablesStayOK(A)
  <2> SUFFICES ASSUME NEW l \in Server, NEW k \in Server, state[l] = Leader, l # k
               PROVE  /\ matchIndex'[l][k] <= A[currentTerm[l]][k]
                      /\ nextIndex'[l][k] <= Len(log[l]) + 1
    BY <1>6 DEF TablesStayOK, electionVars
  <2>1. CASE l = i /\ k = j
    <3>1. /\ matchIndex'[l][k] = IF advanced THEN c.lastSent ELSE matchIndex[i][j]
          /\ nextIndex'[l][k] = IF advanced THEN c.lastSent + 1 ELSE nextIndex[i][j]
      BY <1>14, <2>1
    <3>2. matchIndex[i][j] <= A[t][j] /\ nextIndex[i][j] <= Len(L) + 1
      BY <1>1, <1>7
    <3>. QED  BY <1>4, <1>16, <2>1, <3>1, <3>2
  <2>2. CASE ~(l = i /\ k = j)
    <3>1. matchIndex'[l][k] = matchIndex[l][k] /\ nextIndex'[l][k] = nextIndex[l][k]
      BY <1>14, <2>2
    <3>. QED  BY <3>1 DEF LogInv, TablesOK
  <2>. QED  BY <2>1, <2>2
<1>9. CommitsStayOK(H, A)
  <2> SUFFICES ASSUME commitIndex'[i] # commitIndex[i]
               PROVE  CommittedUpTo(H, A, L, t, commitIndex'[i])
    BY <1>1, <1>2, <1>5 DEF CommitsStayOK
  <2> DEFINE n == AgreedIndex(i, matchIndex'[i])
  <2>1. /\ commitIndex'[i] = n /\ HasEntry(i, n) /\ Entry(i, n).term = t
    BY <1>1, <1>2, <1>5 DEF LeaderCommit
  <2>2. matchIndex'[i] \in [Server -> Nat] /\ LastIndex(i) \in Nat
    BY <1>1, <1>2
  <2>3. /\ n \in Nat
        /\ HasMajority({k \in Server :
              (IF k = i THEN LastIndex(i) ELSE matchIndex'[i][k]) >= n})
    BY <1>1, <2>2, AgreedByMajority
  <2> HIDE DEF n
  <2>4. n \in 1..Len(L) /\ L[n].term = t
    BY <1>1, <2>1, <2>3, PlainLog
  <2>5. n \in Created(H, t)
    BY <1>3, <2>4 DEF Created
  <2> DEFINE P == {k \in Server :
                     (IF k = i THEN LastIndex(i) ELSE matchIndex'[i][k]) >= n}
             Q == {k \in Server : A[t][k] >= n}
  <2>6. P \subseteq Q
    <3> SUFFICES ASSUME NEW k \in Server,
                        (IF k = i THEN LastIndex(i) ELSE matchIndex'[i][k]) >= n
                 PROVE  A[t][k] >= n
      OBVIOUS
    <3>1. CASE k = i
      BY <1>2, <1>3, <3>1
    <3>2. CASE k # i
      <4>1. matchIndex'[i][k] <= A[t][k]
        BY <1>1, <1>6, <1>8, <3>2 DEF TablesStayOK, electionVars
      <4>2. matchIndex'[i][k] \in Nat /\ A[t][k] \in Nat
        BY <1>1, <1>2
      <4>. QED  BY <2>3, <3>2, <4>1, <4>2
    <3>. QED  BY <3>1, <3>2
  <2>7. P \in Quorums
    BY <2>3 DEF HasMajority, Quorums
  <2> HIDE DEF P
  <2>8. Q \in Quorums
    BY <2>6, <2>7, QuorumGrows
  <2>9. Chosen(H, A, n, t)
    BY <2>5, <2>8 DEF Chosen
  <2>10. Agree(L, H[t], n)
    BY <1>2, <1>3, <2>4 DEF Agree
  <2>11. t <= t /\ n <= n
    BY <1>1, <2>3 DEF Terms
  <2>. QED  BY <1>1, <2>1, <2>5, <2>9, <2>10, <2>11 DEF CommittedUpTo
<1>10. NewCallsOK(H, A) /\ OnlyHarmlessCallsAdded
  BY ConsumeAdds DEF AdvanceOnSuccess, NewCallsOK, OnlyHarmlessCallsAdded
<1>. QED  BY <1>6, <1>8, <1>9, <1>10, QuietAction

LEMMA BackOffLogs ==
  ASSUME Plain, Plain', NEW H, NEW A, LogInv(H, A), NEW c \in DOMAIN calls,
         BackOffOnFailure(c)
  PROVE  LogInv(H, A)'
<1> DEFINE i == c.src
           j == c.dst
           L == log[i]
<1>1. /\ c.type = "AppendEntriesReply" /\ ~c.success /\ state[i] = Leader
      /\ c.term = currentTerm[i]
      /\ i \in Server /\ j \in Server /\ i # j /\ c.matchIndex \in Nat
  BY PlainParts DEF BackOffOnFailure, ReplyCounts, ElectionInv, CallsAreTyped, CallTypeOK,
                    CallRecords
<1>2. /\ nextIndex \in [Server -> [Server -> Nat]] /\ nextIndex[i][j] \in Nat
      /\ Len(L) \in Nat /\ snapshotIndex[i] = 0
  BY <1>1, PlainParts, PlainLog DEF LogTypeOK, Plain
<1>3. c.matchIndex <= Len(L)
  BY <1>1 DEF LogInv, CallsOK, CallOK, ReplyOK, Leads
<1>4. nextIndex[i][j] <= Len(L) + 1
  BY <1>1 DEF LogInv, TablesOK
<1>5. HintedIndex(c) \in Nat /\ HintedIndex(c) <= Len(L) + 1
  <2> DEFINE l == Len(L)
             x == nextIndex[i][j]
             h == c.matchIndex
  <2>1. l \in Nat /\ x \in Nat /\ h \in Nat /\ h <= l /\ x <= l + 1
    BY <1>1, <1>2, <1>3, <1>4
  <2>2. HintedIndex(c) = IF h > 0 THEN h + 1 ELSE IF x > 1 THEN x - 1 ELSE x
    BY DEF HintedIndex
  <2> HIDE DEF l, x, h
  <2>3. HintedIndex(c) \in Nat /\ HintedIndex(c) <= l + 1
    BY <2>1, <2>2
  <2>. QED  BY <2>3 DEF l
<1>6. PICK n \in Nat : n <= Len(L) + 1 /\ nextIndex' = [nextIndex EXCEPT ![i][j] = n]
  <2> DEFINE h == HintedIndex(c)
             n == IF h <= snapshotIndex[i] THEN snapshotIndex[i] + 1 ELSE h
  <2>1. nextIndex' = [nextIndex EXCEPT ![i][j] = n]
    BY DEF BackOffOnFailure
  <2>2. n \in Nat /\ n <= Len(L) + 1
    BY <1>2, <1>5
  <2>. QED  BY <2>1, <2>2
<1>7. UNCHANGED <<electionVars, log, elected, matchIndex, commitIndex>>
  BY DEF BackOffOnFailure, logVars
<1>8. TablesStayOK(A)
  <2>1. \A l, k \in Server : nextIndex'[l][k] = nextIndex[l][k]
                             \/ (l = i /\ nextIndex'[l][k] <= Len(L) + 1)
    BY <1>1, <1>2, <1>6, SetCell
  <2>. QED  BY <1>7, <2>1 DEF TablesStayOK, LogInv, TablesOK, electionVars
<1>9. NewCallsOK(H, A) /\ OnlyHarmlessCallsAdded /\ CommitsStayOK(H, A)
  BY <1>7, ConsumeAdds DEF BackOffOnFailure, NewCallsOK, OnlyHarmlessCallsAdded, CommitsStayOK
<1>. QED  BY <1>7, <1>8, <1>9, QuietAction

-----------------------------------------------------------------------------
(* A request that changes the log of its receiver. *)

LEMMA OneLeader ==
  ASSUME ElectionInv, NEW l \in Server, NEW k \in Server, NEW t, Leads(l, t), WasElected(k, t)
  PROVE  l = k
  BY DEF ElectionInv, LeadersWereElected, ElectionSafety, WasElected, Leads

\* What may be committed, a log that fails the consistency check does not hold
\* beyond the position of the check.
LEMMA MismatchIsUncommitted ==
  ASSUME Plain, NEW H, NEW A, LogInv(H, A), NEW c \in DOMAIN calls,
         c.type = "AppendEntries", NEW L \in Seq(LogEntries),
         NEW prev, prev = c.prevLogIndex, prev \in 1..Len(L), L[prev].term # c.prevLogTerm
  PROVE  /\ \A t \in Terms : \A n \in Created(H, t) : t <= c.term /\ ~Overruled(A, n, t) =>
              \A k \in 0..n : Agree(L, H[t], k) => k < prev
         /\ Leads(c.src, c.term) =>
              /\ prev <= Len(H[c.term])
              /\ \A k \in Nat : Agree(L, H[c.term], k) => k < prev
<1>1. prev \in Nat /\ prev > 0
  OBVIOUS
<1>2. \A t \in Terms : \A n \in Created(H, t) : n \in Nat
  BY DEF Created
<1>3. CASE Dangling(c)
  <2>1. DanglingOK(H, A, c)
    BY <1>3 DEF LogInv, CallsOK, CallOK
  <2>2. \A t \in Terms : \A n \in Created(H, t) : t <= c.term /\ ~Overruled(A, n, t) => n < prev
    BY <2>1 DEF DanglingOK
  <2>3. \A t \in Terms : \A n \in Created(H, t) : t <= c.term /\ ~Overruled(A, n, t) =>
              \A k \in 0..n : k < prev
    BY <1>1, <1>2, <2>2
  <2>. QED  BY <2>1, <2>3 DEF DanglingOK
<1>4. CASE ~Dangling(c)
  <2> DEFINE R == RequestLog(H, c)
             M == H[c.prevLogTerm]
  <2>1. /\ RequestOK(H, A, c) /\ EndOf(R, prev, c.entries) /\ Len(R) \in Nat
        /\ c.entries \in Seq(LogEntries) /\ Agree(R, M, prev)
    BY <1>4, RequestLogParts, PlainParts
  <2>2. prev <= Len(R)
    <3>1. Len(c.entries) \in Nat
      BY <2>1
    <3>. QED  BY <1>1, <2>1, <3>1 DEF EndOf
  <2>3. M[prev].term = c.prevLogTerm
    BY <1>1, <2>1 DEF RequestOK, Has
  <2>4. R[prev].term # L[prev].term
    BY <1>1, <2>1, <2>3 DEF Agree
  <2> HIDE DEF R, M
  <2>5. ASSUME NEW N, NEW m \in Nat, Agree(R, N, m), prev <= m, NEW k \in Nat, Agree(L, N, k)
        PROVE  k < prev
    BY <1>1, <2>4, <2>5 DEF Agree
  <2>6. ASSUME NEW t \in Terms, NEW n \in Created(H, t), t <= c.term, ~Overruled(A, n, t),
               NEW k \in 0..n, Agree(L, H[t], k)
        PROVE  k < prev
    <3>1. n \in Nat /\ k \in Nat /\ k <= n
      BY <1>2
    <3>2. \/ Has(R, n, t)
          \/ t = c.term /\ Agree(R, H[t], Len(R)) /\ Len(R) < n
      BY <2>1, <2>6 DEF RequestOK, R
    <3>3. CASE Has(R, n, t)
      <4>1. Agree(R, H[t], n)
        BY <2>1, <3>3, HasAgrees DEF RequestOK, R
      <4>2. prev <= n \/ n < prev
        BY <1>1, <3>1
      <4>3. CASE prev <= n
        BY <2>5, <2>6, <3>1, <4>1, <4>3
      <4>4. CASE n < prev
        BY <1>1, <3>1, <4>4
      <4>. QED  BY <4>2, <4>3, <4>4
    <3>4. CASE Agree(R, H[t], Len(R))
      BY <2>1, <2>2, <2>5, <2>6, <3>1, <3>4
    <3>. QED  BY <3>2, <3>3, <3>4
  <2>7. ASSUME Leads(c.src, c.term)
        PROVE  /\ prev <= Len(H[c.term])
               /\ \A k \in Nat : Agree(L, H[c.term], k) => k < prev
    <3>1. Agree(R, H[c.term], Len(R))
      BY <2>1, <2>7 DEF RequestOK, R
    <3>2. \A k \in Nat : Agree(L, H[c.term], k) => k < prev
      BY <2>1, <2>2, <2>5, <3>1
    <3>3. c.term \in Terms
      BY PlainParts DEF ElectionInv, CallsAreTyped
    <3>4. Len(H[c.term]) \in Nat
      BY <3>3, HistoryParts
    <3>5. Len(R) <= Len(H[c.term])
      BY <3>1 DEF Agree
    <3>6. prev <= Len(H[c.term])
      BY <1>1, <2>1, <2>2, <3>4, <3>5
    <3>. QED  BY <3>2, <3>6
  <2>. QED  BY <2>6, <2>7
<1>. QED  BY <1>3, <1>4

LEMMA NoVotesGained ==
  ASSUME Plain, NEW c \in DOMAIN calls, FollowLeader(c), elected' = elected,
         OnlyHarmlessCallsAdded
  PROVE  \A b, q \in Server : HasVote(b, q)' => HasVote(b, q)
<1> USE DEF Follower, Candidate, Leader
<1>1. /\ c.dst \in Server
      /\ state' = [state EXCEPT ![c.dst] = Follower]
      /\ currentTerm' = [currentTerm EXCEPT ![c.dst] = c.term]
      /\ \A j \in Server \ {c.dst} : votesReceived'[j] = votesReceived[j]
  BY FollowParts
<1>2. /\ state \in [Server -> {Follower, Candidate, Leader}]
      /\ currentTerm \in [Server -> Nat]
  BY PlainParts DEF ElectionTypeOK
<1>3. \A b \in Server : state'[b] = Candidate
           => /\ state[b] = Candidate
              /\ currentTerm'[b] = currentTerm[b]
              /\ votesReceived'[b] = votesReceived[b]
  BY <1>1, <1>2
<1>. QED  BY <1>3, NoNewVotes

LEMMA RejectMismatchLogs ==
  ASSUME Plain, Plain', NEW H, NEW A, LogInv(H, A), NEW c \in DOMAIN calls,
         RejectMismatch(c)
  PROVE  LogInv(H, A)'
<1> DEFINE i == c.dst
           L == log[i]
           prev == c.prevLogIndex
           N == SubSeq(L, 1, prev - 1)
<1>1. /\ c.type = "AppendEntries" /\ i \in Server
      /\ c.term >= currentTerm[i]
      /\ state' = [state EXCEPT ![i] = Follower]
      /\ currentTerm' = [currentTerm EXCEPT ![i] = c.term]
      /\ UNCHANGED <<elected, leaderVars, commitIndex>>
  BY FollowParts DEF RejectMismatch
<1>2. /\ L \in Seq(LogEntries) /\ Len(L) \in Nat /\ GoodLog(H, L) /\ LastIndex(i) = Len(L)
      /\ prev \in Nat /\ snapshotIndex[i] = 0
      /\ \A n \in Nat : (HasEntry(i, n) <=> n \in 1..Len(L)) /\ Entry(i, n) = L[n]
  BY <1>1, PlainLog, PlainParts DEF CallTypeOK, CallRecords, Plain
<1>3. prev \in 1..Len(L) /\ L[prev].term # c.prevLogTerm
  BY <1>2 DEF RejectMismatch, PrevMismatch
<1>4. log' = [log EXCEPT ![i] = N]
  <2>1. HasEntry(i, prev)
    BY <1>2, <1>3
  <2>2. TruncateFrom(L, snapshotIndex[i], prev) = N
    <3>1. prev - 0 - 1 = prev - 1
      BY <1>2
    <3>. QED  BY <1>2, <3>1 DEF TruncateFrom, LogicalToPhysical
  <2>3. log' = [log EXCEPT ![i] = IF HasEntry(i, prev)
                                  THEN TruncateFrom(L, snapshotIndex[i], prev) ELSE L]
    BY DEF RejectMismatch
  <2> HIDE DEF N, L, prev
  <2>. QED  BY <2>1, <2>2, <2>3, Zenon
<1>5. prev - 1 \in 0..Len(L) /\ prev - 1 \in Nat
  BY <1>2, <1>3
<1>6. /\ N \in Seq(LogEntries) /\ Len(N) = prev - 1 /\ Agree(N, L, prev - 1)
  BY <1>2, <1>5, FirstEntries
<1> HIDE DEF N
<1>7. GoodLog(H, N)
  BY <1>2, <1>6, HistoryParts, GoodPrefix
<1>8. log'[i] = N
  BY <1>1, <1>4, PlainParts DEF LogTypeOK
<1>9. LastLogIndex(log'[i], 0) = prev - 1
  BY <1>6, <1>7, <1>8, GoodLastIndex
<1>10. /\ OnlyHarmlessCallsAdded /\ WasElected(c.src, c.term) /\ c.src \in Server
       /\ c.src # i /\ c.term \in Terms
       /\ \A r \in DOMAIN calls' : r \in DOMAIN calls \/
              /\ r.type = "AppendEntriesReply" /\ r.src = c.src /\ r.dst = i
              /\ r.term = c.term /\ r.success = FALSE /\ r.matchIndex = prev - 1
              /\ r.lastSent = LastSent(c)
  <2>1. c.term \in Terms /\ ElectionInv
    BY PlainParts DEF ElectionInv, CallsAreTyped
  <2>2. AppendReply(c, c.term, FALSE, prev - 1)
    BY <1>2, <1>9 DEF RejectMismatch
  <2>. QED  BY <1>1, <2>1, <2>2, AppendAnswer
<1>11. /\ \A t \in Terms : \A n \in Created(H, t) : t <= c.term /\ ~Overruled(A, n, t) =>
              \A k \in 0..n : Agree(L, H[t], k) => k < prev
       /\ Leads(c.src, c.term) =>
              /\ prev <= Len(H[c.term])
              /\ \A k \in Nat : Agree(L, H[c.term], k) => k < prev
  BY <1>1, <1>2, <1>3, MismatchIsUncommitted
<1>12. ASSUME NEW M, NEW k \in Nat, Agree(L, M, k), k < prev
       PROVE  Agree(N, M, k)
  BY <1>2, <1>6, <1>12 DEF Agree
<1>13. KeepsWhatMatters(H, A, L, N, c.term)
  <2>1. ASSUME NEW t \in Terms, NEW n \in Created(H, t), t <= c.term, ~Overruled(A, n, t),
               NEW k \in 0..n, Agree(L, H[t], k)
        PROVE  Agree(N, H[t], k)
    <3>1. k \in Nat
      BY DEF Created
    <3>2. k < prev
      BY <1>11, <2>1
    <3>. QED  BY <1>12, <2>1, <3>1, <3>2
  <2>. QED  BY <2>1 DEF KeepsWhatMatters
<1>14. ASSUME NEW l \in Server, Leads(l, c.term)
       PROVE  l = c.src /\ log[l] = H[c.term]
  BY <1>10, <1>14, OneLeader, PlainParts DEF LogInv, LeadersHold, Leads
<1>15. KeepsLeadersLog(L, N, c.term)
  BY <1>11, <1>12, <1>14 DEF KeepsLeadersLog
<1>16. AcksAreTrue(H, A, A, N, i, c.term)
  BY HistoryParts DEF AcksAreTrue, AcksGrow
<1>17. \A b, q \in Server : HasVote(b, q)' => HasVote(b, q)
  BY <1>1, <1>10, NoVotesGained DEF RejectMismatch
<1>18. \A r \in DOMAIN calls' \ DOMAIN calls : r.type = "AppendEntriesReply" /\ ReplyOK(A, r)
  <2>1. Leads(c.src, c.term) => prev - 1 <= Len(log[c.src])
    <3> SUFFICES ASSUME Leads(c.src, c.term) PROVE prev - 1 <= Len(log[c.src])
      OBVIOUS
    <3>1. Len(H[c.term]) \in Nat
      BY <1>10, HistoryParts
    <3>. QED  BY <1>2, <1>10, <1>11, <1>14, <3>1
  <2>. QED  BY <1>10, <2>1 DEF ReplyOK
<1>19. ElectionInv /\ ElectionInv' /\ LogTypeOK /\ CallTypeOK
  BY PlainParts DEF Plain
<1>20. /\ \A j \in Server : j # i => commitIndex'[j] = commitIndex[j]
       /\ commitIndex'[i] = commitIndex[i] \/ CommittedUpTo(H, A, N, c.term, commitIndex'[i])
       /\ UNCHANGED <<elected, leaderVars>>
  BY <1>1
<1>. QED
  BY <1>1, <1>4, <1>6, <1>7, <1>10, <1>13, <1>15, <1>16, <1>17, <1>18, <1>19, <1>20, FollowerLogStep

\* The request that a node accepts describes a log, and the node's own log agrees
\* with it up to the position before the entries.
LEMMA AcceptParts ==
  ASSUME Plain, NEW H, NEW A, LogInv(H, A), NEW c \in DOMAIN calls,
         c.type = "AppendEntries", ~PrevBeyondLog(c), ~PrevMismatch(c)
  PROVE  ~Dangling(c) /\ Agree(log[c.dst], RequestLog(H, c), c.prevLogIndex)
<1> DEFINE i == c.dst
           L == log[i]
           prev == c.prevLogIndex
<1>1. i \in Server /\ prev \in Nat /\ snapshotIndex[i] = 0
  BY CallTyped, PlainParts DEF CallTypeOK, CallRecords, Plain
<1>2. /\ L \in Seq(LogEntries) /\ Len(L) \in Nat /\ GoodLog(H, L) /\ LastIndex(i) = Len(L)
      /\ \A n \in Nat : (HasEntry(i, n) <=> n \in 1..Len(L)) /\ Entry(i, n) = L[n]
  BY <1>1, PlainLog
<1>3. prev > 0 => Has(L, prev, c.prevLogTerm)
  BY <1>1, <1>2 DEF PrevBeyondLog, PrevMismatch, Has
<1>4. prev > 0 => Agree(L, H[c.prevLogTerm], prev) /\ c.prevLogTerm \in Terms
  BY <1>2, <1>3, HasAgrees
<1>5. ~Dangling(c)
  <2> SUFFICES ASSUME c.prevLogTerm = 0, prev > 0 PROVE FALSE
    BY DEF Dangling
  <2>1. prev <= Len(H[0]) /\ 0 \in Terms
    BY <1>4 DEF Agree
  <2>2. H[0] # << >>
    BY <1>1, <2>1
  <2>3. PICK e \in elected : e.term = 0
    BY <2>1, <2>2 DEF LogInv, LeaderLogs
  <2>. QED  BY <2>3 DEF LogInv, CampaignsAreNew
<1>6. /\ Agree(RequestLog(H, c), H[c.prevLogTerm], prev)
      /\ Len(RequestLog(H, c)) \in Nat
  BY <1>5, PlainParts, RequestLogParts
<1>7. Agree(L, RequestLog(H, c), prev)
  <2>1. CASE prev > 0
    BY <1>4, <1>6, <2>1, AgreeSym, AgreeTrans
  <2>2. CASE prev = 0
    BY <1>2, <1>6, <2>2 DEF Agree
  <2>. QED  BY <1>1, <2>1, <2>2
<1>. QED  BY <1>5, <1>7

LEMMA LastSentIsEnd ==
  ASSUME Plain, NEW H, NEW A, LogInv(H, A), NEW c \in DOMAIN calls,
         c.type = "AppendEntries", ~Dangling(c)
  PROVE  LastSent(c) = IF c.entries = << >> THEN 0 ELSE Len(RequestLog(H, c))
<1> DEFINE R == RequestLog(H, c)
           prev == c.prevLogIndex
           k == Len(c.entries)
<1>1. /\ EndOf(R, prev, c.entries) /\ Len(R) \in Nat /\ GoodLog(H, R)
      /\ prev \in Nat /\ c.entries \in Seq(LogEntries)
  BY PlainParts, RequestLogParts
<1> HIDE DEF R
<1>2. CASE c.entries = << >>
  BY <1>2 DEF LastSent
<1>3. CASE c.entries # << >>
  <2>1. k \in 1..k /\ k \in Nat
    BY <1>1, <1>3
  <2>2. R[prev + k] = c.entries[k] /\ Len(R) = prev + k
    BY <1>1, <2>1 DEF EndOf
  <2>3. Len(R) \in 1..Len(R)
    BY <1>1, <2>1, <2>2
  <2>4. R[Len(R)].index = Len(R)
    BY <1>1, <2>3 DEF GoodLog
  <2>. QED  BY <1>3, <2>2, <2>4 DEF LastSent, R
<1>. QED  BY <1>2, <1>3

\* Whatever the follower learns to be committed, it has: the bound by the last
\* entry of the request cuts nothing off.
LEMMA AcceptCommits ==
  ASSUME Plain, NEW H, NEW A, LogInv(H, A), NEW c \in DOMAIN calls,
         c.type = "AppendEntries", ~Dangling(c),
         NEW N \in Seq(LogEntries), GoodLog(H, N),
         Agree(N, RequestLog(H, c), Len(RequestLog(H, c)))
  PROVE  /\ \/ FollowerCommit(c.dst, c, N) = commitIndex[c.dst]
            \/ CommittedUpTo(H, A, N, c.term, FollowerCommit(c.dst, c, N))
         /\ FollowerCommit(c.dst, c, N) >= commitIndex[c.dst]
<1> DEFINE i == c.dst
           R == RequestLog(H, c)
           k == c.leaderCommit
<1>1. i \in Server /\ k \in Nat /\ snapshotIndex[i] = 0 /\ commitIndex[i] \in Nat
  <2>1. i \in Server /\ k \in Nat
    BY CallTyped, PlainParts DEF CallTypeOK, CallRecords
  <2>. QED  BY <2>1, PlainParts DEF Plain, LogTypeOK
<1>2. RequestOK(H, A, c) /\ R \in Seq(LogEntries) /\ Len(R) \in Nat /\ GoodLog(H, R)
  BY PlainParts, RequestLogParts
<1>3. LastSent(c) = IF c.entries = << >> THEN 0 ELSE Len(R)
  BY LastSentIsEnd
<1>4. LastLogIndex(N, 0) = Len(N) /\ Len(N) \in Nat
  BY GoodLastIndex
<1>5. Len(R) <= Len(N)
  BY DEF Agree
<1> SUFFICES ASSUME k > commitIndex[i]
             PROVE  /\ CommittedUpTo(H, A, N, c.term, FollowerCommit(i, c, N))
                    /\ FollowerCommit(i, c, N) >= commitIndex[i]
  BY <1>1 DEF FollowerCommit
<1>6. PICK t \in Terms : \E n \in Created(H, t) :
         Chosen(H, A, n, t) /\ t <= c.term /\ k <= n /\ Has(R, n, t)
  BY <1>1, <1>2 DEF RequestOK
<1>7. PICK n \in Created(H, t) :
         Chosen(H, A, n, t) /\ t <= c.term /\ k <= n /\ Has(R, n, t)
  BY <1>6
<1> HIDE DEF R
<1>8. n \in Nat /\ n <= Len(R) /\ Agree(R, H[t], n)
  BY <1>2, <1>7, HasAgrees DEF Has
<1>9. FollowerCommit(i, c, N) = k
  <2> DEFINE lastNew == IF c.entries = << >> THEN LastLogIndex(N, snapshotIndex[i])
                                             ELSE LastSent(c)
  <2>1. lastNew = IF c.entries = << >> THEN Len(N) ELSE Len(R)
    BY <1>1, <1>3, <1>4
  <2>2. lastNew \in Nat /\ k <= lastNew
    BY <1>1, <1>2, <1>4, <1>5, <1>7, <1>8, <2>1
  <2>3. FollowerCommit(i, c, N) = IF k < lastNew THEN k ELSE lastNew
    BY <1>1 DEF FollowerCommit
  <2> HIDE DEF lastNew
  <2>. QED  BY <1>1, <2>2, <2>3
<1>10. Agree(N, R, k) /\ Agree(R, H[t], k)
  <2>1. H[t] \in Seq(LogEntries)
    BY HistoryParts
  <2>2. k <= Len(R)
    BY <1>1, <1>2, <1>7, <1>8
  <2>3. Agree(N, R, k)
    BY <1>1, <1>2, <2>2, AgreeShorter DEF R
  <2>4. Agree(R, H[t], k)
    BY <1>1, <1>2, <1>7, <1>8, <2>1, AgreeShorter
  <2>. QED  BY <2>3, <2>4
<1>11. Agree(N, H[t], k)
  BY <1>10, AgreeTrans
<1>12. FollowerCommit(i, c, N) >= commitIndex[i]
  BY <1>1, <1>9
<1>. QED  BY <1>7, <1>9, <1>11, <1>12 DEF CommittedUpTo

\* What the append loop makes of the log.
LEMMA AcceptedLog ==
  ASSUME Plain, NEW H, NEW A, LogInv(H, A), NEW c \in DOMAIN calls,
         c.type = "AppendEntries", ~PrevBeyondLog(c), ~PrevMismatch(c),
         NEW N, N = AppendAll(log[c.dst], 0, c.entries)
  PROVE  /\ N \in Seq(LogEntries) /\ GoodLog(H, N)
         /\ Agree(N, RequestLog(H, c), Len(RequestLog(H, c)))
         /\ KeepsWhatMatters(H, A, log[c.dst], N, c.term)
         /\ KeepsLeadersLog(log[c.dst], N, c.term)
<1> DEFINE L == log[c.dst]
           R == RequestLog(H, c)
           prev == c.prevLogIndex
<1>1. ~Dangling(c) /\ Agree(L, R, prev)
  BY AcceptParts
<1>2. /\ RequestOK(H, A, c) /\ R \in Seq(LogEntries) /\ Len(R) \in Nat /\ GoodLog(H, R)
      /\ prev \in Nat /\ c.entries \in Seq(LogEntries) /\ EndOf(R, prev, c.entries)
  BY <1>1, PlainParts, RequestLogParts
<1>3. L \in Seq(LogEntries) /\ GoodLog(H, L)
  BY CallTyped, PlainParts, PlainLog
<1>4. H \in [Terms -> Seq(LogEntries)]
  BY HistoryParts
<1>5. /\ \A t \in Terms : \A n \in Created(H, t) : t <= c.term =>
           \/ Overruled(A, n, t)
           \/ Has(R, n, t)
           \/ t = c.term /\ Agree(R, H[t], Len(R)) /\ Len(R) < n
      /\ Leads(c.src, c.term) => Agree(R, H[c.term], Len(R))
  BY <1>2 DEF RequestOK
<1> HIDE DEF R, L, prev
<1>6. Agree(N, R, Len(R)) /\ N \in {L, R}
  BY <1>1, <1>2, <1>3, <1>4, AppendAllMerges DEF L
<1>7. N \in Seq(LogEntries) /\ GoodLog(H, N)
  BY <1>2, <1>3, <1>6
<1>8. ASSUME NEW M \in Seq(LogEntries), NEW n \in Nat, Agree(L, M, n),
             Agree(R, M, n) \/ Agree(R, M, Len(R))
      PROVE  Agree(N, M, n)
  BY <1>1, <1>2, <1>3, <1>4, <1>8, AppendAllKeeps DEF L
<1>9. ASSUME NEW t \in Terms, NEW n \in Created(H, t), t <= c.term, ~Overruled(A, n, t),
             NEW k \in 0..n, Agree(L, H[t], k)
      PROVE  Agree(N, H[t], k)
  <2>1. n \in Nat /\ k \in Nat /\ k <= n /\ H[t] \in Seq(LogEntries)
    BY <1>4 DEF Created
  <2>2. Has(R, n, t) \/ Agree(R, H[t], Len(R))
    BY <1>5, <1>9
  <2>3. ASSUME Has(R, n, t) PROVE Agree(R, H[t], k)
    <3>1. Agree(R, H[t], n)
      BY <1>2, <2>3, HasAgrees
    <3>. QED  BY <1>2, <2>1, <3>1, AgreeShorter
  <2>. QED  BY <1>8, <1>9, <2>1, <2>2, <2>3
<1>10. KeepsWhatMatters(H, A, L, N, c.term)
  BY <1>9 DEF KeepsWhatMatters
<1>11. ASSUME NEW l \in Server, Leads(l, c.term), NEW k \in Nat, Agree(L, log[l], k)
       PROVE  Agree(N, log[l], k)
  <2>1. c.src \in Server /\ WasElected(c.src, c.term) /\ ElectionInv
    BY CallTyped, PlainParts DEF ElectionInv, LeadersWereElected
  <2>2. l = c.src
    BY <1>11, <2>1, OneLeader
  <2>3. log[l] = H[c.term] /\ log[l] \in Seq(LogEntries)
    BY <1>11, PlainLog DEF LogInv, LeadersHold, Leads
  <2>. QED  BY <1>5, <1>8, <1>11, <2>2, <2>3
<1>12. KeepsLeadersLog(L, N, c.term)
  BY <1>11 DEF KeepsLeadersLog
<1>. QED  BY <1>6, <1>7, <1>10, <1>12 DEF L, R

\* What a node acknowledges to a leader that leads no more counts for nothing.
LEMMA AcceptAcks ==
  ASSUME Plain, NEW H, NEW A, LogInv(H, A), NEW c \in DOMAIN calls,
         c.type = "AppendEntries", ~Dangling(c),
         NEW N \in Seq(LogEntries), GoodLog(H, N),
         Agree(N, RequestLog(H, c), Len(RequestLog(H, c)))
  PROVE  \E A2 : /\ AcksAreTrue(H, A, A2, N, c.dst, c.term)
                 /\ Leads(c.src, c.term) => LastSent(c) <= A2[c.term][c.dst]
<1> DEFINE i == c.dst
           u == c.term
           R == RequestLog(H, c)
<1>1. i \in Server /\ u \in Terms
  BY CallTyped, PlainParts DEF ElectionInv, CallsAreTyped
<1>2. /\ A \in [Terms -> [Server -> Nat]] /\ H[u] \in Seq(LogEntries) /\ A[u][i] \in Nat
  <2>1. A \in [Terms -> [Server -> Nat]]
    BY HistoryParts
  <2>. QED  BY <1>1, <2>1, HistoryParts
<1>3. RequestOK(H, A, c) /\ R \in Seq(LogEntries) /\ Len(R) \in Nat
  BY PlainParts, RequestLogParts
<1>4. LastSent(c) = IF c.entries = << >> THEN 0 ELSE Len(R)
  BY LastSentIsEnd
<1> HIDE DEF R
<1>5. LastSent(c) <= Len(R)
  BY <1>3, <1>4
<1>6. CASE ~Leads(c.src, u) \/ Len(R) <= A[u][i]
  <2>1. AcksAreTrue(H, A, A, N, i, u)
    BY <1>2 DEF AcksAreTrue, AcksGrow
  <2>2. Leads(c.src, u) => LastSent(c) <= A[u][i]
    BY <1>2, <1>3, <1>4, <1>6
  <2>. QED  BY <2>1, <2>2
<1>7. CASE Leads(c.src, u) /\ Len(R) > A[u][i]
  <2> DEFINE A2 == [A EXCEPT ![u][i] = Len(R)]
  <2>1. /\ A2 \in [Terms -> [Server -> Nat]] /\ A2[u][i] = Len(R)
        /\ \A t \in Terms : \A q \in Server : ~(t = u /\ q = i) => A2[t][q] = A[t][q]
    BY <1>1, <1>2, <1>3
  <2> HIDE DEF A2
  <2>2. AcksGrow(A, A2, i, u)
    <3>1. \A t \in Terms : \A q \in Server : A[t][q] \in Nat
      BY <1>2
    <3>2. ASSUME NEW t \in Terms, NEW q \in Server
          PROVE  A2[t][q] >= A[t][q]
      <4>1. CASE t = u /\ q = i
        BY <1>2, <1>3, <1>7, <2>1, <4>1
      <4>2. CASE ~(t = u /\ q = i)
        <5>1. A2[t][q] = A[t][q] /\ A[t][q] \in Nat
          BY <2>1, <3>1, <4>2
        <5>. QED  BY <5>1
      <4>. QED  BY <4>1, <4>2
    <3>. QED  BY <2>1, <3>2 DEF AcksGrow
  <2>3. Agree(R, H[u], Len(R))
    BY <1>3, <1>7 DEF RequestOK, R
  <2>4. Agree(N, H[u], Len(R)) /\ Len(R) <= Len(H[u])
    BY <2>3, AgreeTrans DEF Agree, R
  <2>5. AcksAreTrue(H, A, A2, N, i, u)
    BY <2>1, <2>2, <2>4 DEF AcksAreTrue
  <2>. QED  BY <1>5, <2>1, <2>5
<1>8. Len(R) <= A[u][i] \/ Len(R) > A[u][i]
  BY <1>2, <1>3
<1>. QED  BY <1>6, <1>7, <1>8

LEMMA AcceptEntriesLogs ==
  ASSUME Plain, Plain', NEW H, NEW A, LogInv(H, A), NEW c \in DOMAIN calls,
         AcceptEntries(c)
  PROVE  \E A2 : AcksGrow(A, A2, c.dst, c.term) /\ LogInv(H, A2)'
<1> DEFINE i == c.dst
           N == AppendAll(log[i], 0, c.entries)
<1>1. /\ c.type = "AppendEntries" /\ i \in Server /\ c.term \in Terms
      /\ c.term >= currentTerm[i]
      /\ state' = [state EXCEPT ![i] = Follower]
      /\ currentTerm' = [currentTerm EXCEPT ![i] = c.term]
      /\ UNCHANGED <<elected, leaderVars>>
  BY FollowParts, PlainParts DEF AcceptEntries, ElectionInv, CallsAreTyped
<1>2. ~PrevBeyondLog(c) /\ ~PrevMismatch(c) /\ snapshotIndex[i] = 0
      /\ log \in [Server -> Seq(LogEntries)] /\ commitIndex \in [Server -> Nat]
  BY <1>1, PlainParts DEF AcceptEntries, Plain, LogTypeOK
<1>3. log' = [log EXCEPT ![i] = N] /\ log'[i] = N
  BY <1>1, <1>2 DEF AcceptEntries
<1>4. /\ N \in Seq(LogEntries) /\ GoodLog(H, N)
      /\ Agree(N, RequestLog(H, c), Len(RequestLog(H, c)))
      /\ KeepsWhatMatters(H, A, log[i], N, c.term)
      /\ KeepsLeadersLog(log[i], N, c.term)
  BY <1>1, <1>2, AcceptedLog
<1>5. commitIndex' = [commitIndex EXCEPT ![i] = FollowerCommit(i, c, N)]
  BY <1>3 DEF AcceptEntries
<1>6. AppendReply(c, c.term, TRUE, LastLogIndex(N, 0))
  BY <1>2, <1>3 DEF AcceptEntries
<1> HIDE DEF N
<1>7. ~Dangling(c)
  BY <1>1, <1>2, AcceptParts
<1>8. PICK A2 : /\ AcksAreTrue(H, A, A2, N, i, c.term)
                /\ Leads(c.src, c.term) => LastSent(c) <= A2[c.term][i]
  BY <1>1, <1>4, <1>7, AcceptAcks
<1>9. /\ OnlyHarmlessCallsAdded /\ WasElected(c.src, c.term) /\ c.src \in Server
      /\ \A r \in DOMAIN calls' : r \in DOMAIN calls \/
              /\ r.type = "AppendEntriesReply" /\ r.src = c.src /\ r.dst = i
              /\ r.term = c.term /\ r.success = TRUE /\ r.matchIndex = LastLogIndex(N, 0)
              /\ r.lastSent = LastSent(c)
  <2>1. ElectionInv
    BY PlainParts
  <2>. QED  BY <1>1, <1>6, <2>1, AppendAnswer
<1>10. \A r \in DOMAIN calls' \ DOMAIN calls : r.type = "AppendEntriesReply" /\ ReplyOK(A2, r)
  BY <1>8, <1>9 DEF ReplyOK
<1>11. \A b, q \in Server : HasVote(b, q)' => HasVote(b, q)
  BY <1>1, <1>9, NoVotesGained DEF AcceptEntries
<1>12. /\ \A j \in Server : j # i => commitIndex'[j] = commitIndex[j]
       /\ commitIndex'[i] = commitIndex[i] \/ CommittedUpTo(H, A, N, c.term, commitIndex'[i])
  <2>1. commitIndex'[i] = FollowerCommit(i, c, N)
    BY <1>1, <1>2, <1>5
  <2>2. \A j \in Server : j # i => commitIndex'[j] = commitIndex[j]
    BY <1>1, <1>2, <1>5
  <2>3. \/ FollowerCommit(i, c, N) = commitIndex[i]
        \/ CommittedUpTo(H, A, N, c.term, FollowerCommit(i, c, N))
    BY <1>1, <1>4, <1>7, AcceptCommits
  <2>. QED  BY <2>1, <2>2, <2>3
<1>13. ElectionInv /\ ElectionInv' /\ LogTypeOK /\ CallTypeOK
  BY PlainParts DEF Plain
<1>14. LogInv(H, A2)'
  BY <1>1, <1>3, <1>4, <1>8, <1>10, <1>11, <1>12, <1>13, FollowerLogStep
<1>. QED  BY <1>8, <1>14 DEF AcksAreTrue

-----------------------------------------------------------------------------
(* A leader appends an entry. *)

\* What the two histories become.
LEMMA HistoriesGrow ==
  ASSUME NEW H \in [Terms -> Seq(LogEntries)], NEW A \in [Terms -> [Server -> Nat]],
         NEW i \in Server, NEW t \in Terms, NEW L \in Seq(LogEntries),
         NEW entry \in LogEntries, H[t] \in {<< >>, L}, A[t][i] <= Len(H[t]),
         NEW H2, H2 = [H EXCEPT ![t] = Append(L, entry)],
         NEW A2, A2 = [A EXCEPT ![t][i] = Len(L) + 1]
  PROVE  LogsGrow(H, H2) /\ AcksGrow(A, A2, i, t)
<1>1. Len(L) \in Nat /\ Len(H[t]) \in Nat /\ A[t][i] \in Nat /\ Len(H[t]) <= Len(L)
  <2>1. A[t] \in [Server -> Nat] /\ H[t] \in Seq(LogEntries)
    OBVIOUS
  <2>. QED  BY <2>1
<1>2. /\ Append(L, entry) \in Seq(LogEntries) /\ Len(Append(L, entry)) = Len(L) + 1
      /\ Agree(L, Append(L, entry), Len(L))
  BY AppendExtends
<1>3. Agree(H[t], Append(L, entry), Len(H[t]))
  <2>1. CASE H[t] = << >>
    BY <1>1, <1>2, <2>1 DEF Agree
  <2>. QED  BY <1>2, <2>1
<1>4. H2[t] = Append(L, entry) /\ \A u \in Terms : u # t => H2[u] = H[u]
  OBVIOUS
<1>5. \A u \in Terms : Len(H[u]) \in Nat
  <2>1. \A u \in Terms : H[u] \in Seq(LogEntries)
    OBVIOUS
  <2>. QED  BY <2>1
<1>6. LogsGrow(H, H2)
  <2>1. ASSUME NEW u \in Terms PROVE Agree(H[u], H2[u], Len(H[u]))
    <3>1. CASE u = t
      BY <1>3, <1>4, <3>1
    <3>2. CASE u # t
      BY <1>4, <1>5, <3>2 DEF Agree
    <3>. QED  BY <3>1, <3>2
  <2>. QED  BY <2>1 DEF LogsGrow
<1>7. /\ A2 \in [Terms -> [Server -> Nat]] /\ A2[t][i] = Len(L) + 1
      /\ \A u \in Terms : \A q \in Server : ~(u = t /\ q = i) => A2[u][q] = A[u][q]
  BY <1>1
<1>8. \A u \in Terms : \A q \in Server : A[u][q] \in Nat
  OBVIOUS
<1>9. AcksGrow(A, A2, i, t)
  <2>1. ASSUME NEW u \in Terms, NEW q \in Server
        PROVE  A2[u][q] >= A[u][q]
    <3>1. CASE u = t /\ q = i
      <4>1. A[t][i] <= Len(L)
        BY <1>1
      <4>. QED  BY <1>1, <1>7, <3>1, <4>1
    <3>2. CASE ~(u = t /\ q = i)
      <4>1. A2[u][q] = A[u][q] /\ A[u][q] \in Nat
        BY <1>7, <1>8, <3>2
      <4>. QED  BY <4>1
    <3>. QED  BY <3>1, <3>2
  <2>. QED  BY <1>7, <2>1 DEF AcksGrow
<1>. QED  BY <1>6, <1>9

\* A node that wins has in its log every entry that is not lost by its election.
LEMMA WinnerIsReady ==
  ASSUME Plain, Plain', NEW H, NEW A, LogInv(H, A), NEW c \in DOMAIN calls, BecomeLeader(c)
  PROVE  ReadyToAppend(H, A, c.src, currentTerm[c.src]) /\ currentTerm[c.src] > 0
<1> DEFINE i == c.src
           t == currentTerm[i]
           L == log[i]
           voters == votesReceived[i] \union {c.dst}
           new == [term |-> t, leader |-> i, voters |-> voters]
<1>1. /\ c.type = "RequestVoteReply" /\ c.voteGranted /\ c.term = t /\ state[i] = Candidate
      /\ HasMajority(voters) /\ elected' = elected \union {new}
  BY DEF BecomeLeader, VoteCounts
<1>2. /\ i \in Server /\ c.dst \in Server /\ i # c.dst /\ t \in Terms
      /\ votesReceived[i] \subseteq Server
  BY PlainParts DEF ElectionInv, CallsAreTyped, ElectionTypeOK
<1>3. voters \in Quorums
  BY <1>1, <1>2 DEF HasMajority, Quorums
<1>4. \A q \in voters : HasVote(i, q) /\ q \in Server
  BY <1>1, <1>2 DEF HasVote, Granted
<1> HIDE DEF voters
<1>5. t > 0 /\ ~WasElected(i, t)
  BY <1>1, <1>2 DEF LogInv, CampaignsAreNew
<1>6. \A e \in elected : e.term # t
  <2> SUFFICES ASSUME NEW e \in elected, e.term = t PROVE FALSE
    OBVIOUS
  <2>1. ElectionSafety'
    BY DEF Plain, ElectionInv
  <2>2. e \in elected' /\ new \in elected' /\ new.leader = i /\ new.term = t
    BY <1>1
  <2>3. e.leader = i
    BY <2>1, <2>2 DEF ElectionSafety
  <2>. QED  BY <1>5, <2>3 DEF WasElected
<1>7. H[t] = << >>
  BY <1>2, <1>6 DEF LogInv, LeaderLogs
<1>8. /\ H \in [Terms -> Seq(LogEntries)] /\ A \in [Terms -> [Server -> Nat]]
      /\ L \in Seq(LogEntries) /\ Len(L) \in Nat /\ GoodLog(H, L)
      /\ HistoryTyped(H, A) /\ LeaderLogs(H) /\ ElectedHold(H, A)
  BY <1>2, PlainLog, HistoryParts DEF LogInv
<1>9. ASSUME NEW p \in 1..Len(L)
      PROVE  L[p].term <= t
  <2> DEFINE s == L[p].term
  <2>1. s \in Terms /\ Agree(L, H[s], p) /\ s \in Nat /\ t \in Nat
    BY <1>2, <1>8 DEF GoodLog, Terms
  <2> SUFFICES ASSUME s > t PROVE FALSE
    BY <2>1
  <2>2. H[s] # << >>
    BY <1>8, <2>1 DEF Agree
  <2>3. PICK e \in elected : e.term = s
    BY <1>8, <2>1, <2>2 DEF LeaderLogs
  <2>4. e.voters \in Quorums
    BY PlainParts DEF ElectionInv, ElectedAreBacked
  <2>5. PICK q \in voters : q \in e.voters
    BY <1>3, <2>4, QuorumsIntersect
  <2>. QED  BY <1>2, <1>4, <2>3, <2>5 DEF LogInv, FutureIsLost
<1>10. ASSUME NEW u \in Terms, NEW n \in Created(H, u), u < t, ~Overruled(A, n, u)'
       PROVE  Has(L, n, u)
  <2>1. ~Overruled(A, n, u) /\ new \in elected' /\ new.term = t /\ new.voters = voters
    BY <1>1, <1>10 DEF Overruled
  <2>2. u \in Nat /\ t \in Nat /\ n \in Nat /\ t > u
    BY <1>2, <1>10 DEF Terms, Created
  <2>3. PICK q \in voters : ~(A[u][q] < n)
    BY <1>10, <2>1, <2>2 DEF Overruled
  <2>4. A[u][q] >= n /\ q \in Server /\ HasVote(i, q)
    <3>1. q \in Server /\ HasVote(i, q)
      BY <1>4
    <3>2. A[u][q] \in Nat
      BY <1>8, <3>1
    <3>. QED  BY <2>2, <2>3, <3>1, <3>2
  <2>5. CoversEntry(L, n, u)
    BY <1>2, <2>1, <2>2, <2>4 DEF LogInv, AckedIsKept
  <2>. QED  BY <1>8, <2>1, <2>5, CoversHas
<1>. QED  BY <1>5, <1>6, <1>7, <1>9, <1>10 DEF ReadyToAppend

\* What a step may do to the histories: no log of a leader loses an entry, and
\* what is chosen stays chosen.
HistoriesKept(H, A, H2, A2) ==
  /\ LogsGrow(H, H2)
  /\ \A t \in Terms : \A n : Chosen(H, A, n, t) => Chosen(H2, A2, n, t)

LEMMA GrowthKeeps ==
  ASSUME NEW H \in [Terms -> Seq(LogEntries)], NEW A \in [Terms -> [Server -> Nat]],
         NEW H2 \in [Terms -> Seq(LogEntries)], NEW A2,
         NEW i, NEW u, LogsGrow(H, H2), AcksGrow(A, A2, i, u)
  PROVE  HistoriesKept(H, A, H2, A2)
<1>1. ASSUME NEW t \in Terms
      PROVE  Created(H, t) \subseteq Created(H2, t)
  <2>1. Agree(H[t], H2[t], Len(H[t])) /\ H[t] \in Seq(LogEntries) /\ H2[t] \in Seq(LogEntries)
    BY DEF LogsGrow
  <2>2. Len(H[t]) \in Nat /\ Len(H2[t]) \in Nat /\ Len(H[t]) <= Len(H2[t])
    BY <2>1 DEF Agree
  <2>. QED  BY <2>1, <2>2 DEF Created, Agree
<1>2. \A t \in Terms : \A n : Chosen(H, A, n, t) => Chosen(H2, A2, n, t)
  BY <1>1, ChosenGrows
<1>. QED  BY <1>2 DEF HistoriesKept

LEMMA SameIsKept ==
  ASSUME NEW H, NEW A, LogInv(H, A)
  PROVE  HistoriesKept(H, A, H, A)
<1>1. \A t \in Terms : Len(H[t]) \in Nat
  BY HistoryParts
<1>. QED  BY <1>1 DEF HistoriesKept, LogsGrow, Agree

LEMMA BecomeLeaderLogs ==
  ASSUME Plain, Plain', NEW H, NEW A, LogInv(H, A), NEW c \in DOMAIN calls, BecomeLeader(c)
  PROVE  \E H2, A2 : HistoriesKept(H, A, H2, A2) /\ LogInv(H2, A2)'
<1> USE DEF Follower, Candidate, Leader
<1> DEFINE i == c.src
           new == [term |-> currentTerm[i], leader |-> i,
                   voters |-> votesReceived[i] \union {c.dst}]
<1>1. PICK t : t = currentTerm[i]
  OBVIOUS
<1>2. PICK entry : entry = [term |-> t, index |-> Len(log[i]) + 1, cmd |-> Nil]
  OBVIOUS
<1>3. PICK last : last = Len(log[i]) + 1
  OBVIOUS
<1>4. PICK N : N = Append(log[i], entry)
  OBVIOUS
<1>5. PICK H2 : H2 = [H EXCEPT ![t] = N]
  OBVIOUS
<1>6. PICK A2 : A2 = [A EXCEPT ![t][i] = last]
  OBVIOUS
<1>7. i \in Server /\ c.dst \in Server /\ t \in Terms /\ t \in Nat
  BY <1>1, PlainParts DEF ElectionInv, CallsAreTyped, Terms
<1>8. ReadyToAppend(H, A, i, t) /\ t > 0
  BY <1>1, WinnerIsReady
<1>9. /\ log[i] \in Seq(LogEntries) /\ Len(log[i]) \in Nat /\ LastIndex(i) = Len(log[i])
      /\ H \in [Terms -> Seq(LogEntries)] /\ A \in [Terms -> [Server -> Nat]]
  BY <1>7, PlainLog, HistoryParts
<1>10. entry \in LogEntries /\ entry.term = t /\ entry.index = Len(log[i]) + 1
  BY <1>2, <1>7, <1>9 DEF LogEntries
<1>11. /\ state' = [state EXCEPT ![i] = Leader]
       /\ log' = [log EXCEPT ![i] = Append(@, entry)]
       /\ elected' = elected \union {new} /\ new.term = t /\ new.leader = i
       /\ nextIndex' = [nextIndex EXCEPT ![i] =
                     [j \in Server |-> IF j = i THEN @[j] ELSE last]]
       /\ matchIndex' = [matchIndex EXCEPT ![i] =
                     [j \in Server |-> IF j = i THEN @[j] ELSE 0]]
       /\ votesReceived' = [votesReceived EXCEPT ![i] = {}]
       /\ DOMAIN calls' \subseteq DOMAIN calls
       /\ UNCHANGED <<currentTerm, commitIndex>>
  BY <1>1, <1>2, <1>3, <1>9, ConsumeAdds DEF BecomeLeader
<1>12. \A b, q \in Server : b # i /\ HasVote(b, q)' => HasVote(b, q)
  <2> SUFFICES ASSUME NEW b \in Server, NEW q \in Server, b # i, HasVote(b, q)'
               PROVE  HasVote(b, q)
    OBVIOUS
  <2>1. state[b] = Candidate /\ currentTerm'[b] = currentTerm[b]
        /\ votesReceived'[b] = votesReceived[b]
    BY <1>7, <1>11, PlainParts DEF HasVote, ElectionTypeOK
  <2>2. CASE q = b
    BY <2>1, <2>2 DEF HasVote
  <2>3. CASE q # b
    BY <1>11, <2>1, <2>3 DEF HasVote, Granted
  <2>. QED  BY <2>2, <2>3
<1>13. AppendsAsLeader(i, t, entry)
  BY <1>1, <1>8, <1>10, <1>11, <1>12 DEF AppendsAsLeader
<1>14. /\ nextIndex \in [Server -> [Server -> Nat]] /\ matchIndex \in [Server -> [Server -> Nat]]
  BY PlainParts DEF LogTypeOK
<1>15. \A j \in Server \ {i} : matchIndex'[j] = matchIndex[j] /\ nextIndex'[j] = nextIndex[j]
  BY <1>7, <1>11, <1>14
<1>16. \A j \in Server \ {i} : matchIndex'[i][j] = 0 /\ nextIndex'[i][j] = last
  BY <1>7, <1>11, <1>14
<1>17. \A j \in Server \ {i} :
         matchIndex'[i][j] <= A[t][j] /\ nextIndex'[i][j] <= Len(log[i]) + 1
  <2>1. \A j \in Server : A[t][j] \in Nat
    BY <1>7, <1>9
  <2>. QED  BY <1>3, <1>9, <1>16, <2>1
<1>18. ElectionInv /\ ElectionInv' /\ LogTypeOK /\ LogTypeOK' /\ CallTypeOK
  BY PlainParts DEF Plain, TypeInv, TypeOK
<1>19. \A r \in DOMAIN calls' \ DOMAIN calls : r.type = "SendAppendEntries" /\ SendOK(H, A, r)
  BY <1>11
<1>20. LogInv(H2, A2)'
  <2> HIDE DEF i
  <2>. QED
    BY <1>3, <1>4, <1>5, <1>6, <1>7, <1>8, <1>10, <1>13, <1>15, <1>17, <1>18, <1>19,
       LeaderLogStep
<1>21. HistoriesKept(H, A, H2, A2)
  <2>1. H[t] = << >> \/ H[t] = log[i]
    BY <1>8 DEF ReadyToAppend
  <2>2. A[t][i] <= Len(H[t])
    BY <1>7 DEF LogInv, HistoryTyped
  <2>3. LogsGrow(H, H2) /\ AcksGrow(A, A2, i, t)
    BY <1>3, <1>4, <1>5, <1>6, <1>7, <1>9, <1>10, <2>1, <2>2, HistoriesGrow
  <2>4. H2 \in [Terms -> Seq(LogEntries)]
    <3>1. N \in Seq(LogEntries)
      BY <1>4, <1>9, <1>10, AppendExtends
    <3>. QED  BY <1>5, <1>9, <3>1
  <2>. QED  BY <1>9, <2>3, <2>4, GrowthKeeps
<1>. QED  BY <1>20, <1>21

LEMMA ProposeLogs ==
  ASSUME Plain, Plain', NEW H, NEW A, LogInv(H, A), NEW i \in Server, NEW cmd \in Command,
         Propose(i, cmd)
  PROVE  \E H2, A2 : HistoriesKept(H, A, H2, A2) /\ LogInv(H2, A2)'
<1> USE DEF Follower, Candidate, Leader
<1>1. PICK t : t = currentTerm[i]
  OBVIOUS
<1>2. PICK entry : entry = [term |-> t, index |-> Len(log[i]) + 1, cmd |-> cmd]
  OBVIOUS
<1>3. PICK last : last = Len(log[i]) + 1
  OBVIOUS
<1>4. PICK N : N = Append(log[i], entry)
  OBVIOUS
<1>5. PICK H2 : H2 = [H EXCEPT ![t] = N]
  OBVIOUS
<1>6. PICK A2 : A2 = [A EXCEPT ![t][i] = last]
  OBVIOUS
<1>7. t \in Terms /\ t \in Nat /\ Leads(i, t)
  BY <1>1, PlainParts DEF ElectionInv, CallsAreTyped, Terms, Leads, Propose
<1>8. /\ log[i] \in Seq(LogEntries) /\ Len(log[i]) \in Nat /\ LastIndex(i) = Len(log[i])
      /\ H \in [Terms -> Seq(LogEntries)] /\ A \in [Terms -> [Server -> Nat]]
  BY PlainLog, HistoryParts
<1>9. H[t] = log[i] /\ A[t][i] = Len(log[i])
  BY <1>7 DEF LogInv, LeadersHold, Leads
<1>10. PICK e \in elected : e.leader = i /\ e.term = t
  BY <1>7, PlainParts DEF ElectionInv, LeadersWereElected, WasElected, Leads
<1>11. t > 0
  BY <1>10 DEF LogInv, CampaignsAreNew
<1>12. entry \in LogEntries /\ entry.term = t /\ entry.index = Len(log[i]) + 1
  BY <1>2, <1>7, <1>8 DEF LogEntries
<1>13. /\ log' = [log EXCEPT ![i] = Append(@, entry)]
       /\ UNCHANGED <<electionVars, elected, leaderVars, commitIndex>>
       /\ Start({SendAppendCall(i, j) : j \in Peers(i)})
  BY <1>1, <1>2, <1>8 DEF Propose
<1>14. state' = [state EXCEPT ![i] = Leader]
  BY <1>7, <1>13, PlainParts DEF electionVars, Leads, ElectionTypeOK
<1>15. ReadyToAppend(H, A, i, t)
  <2>1. \A p \in 1..Len(log[i]) : log[i][p].term <= t
    BY <1>7, <1>9 DEF LogInv, LeaderLogs
  <2>2. ASSUME NEW u \in Terms, NEW n \in Created(H, u), u < t
        PROVE  Has(log[i], n, u) \/ Overruled(A, n, u)'
    <3>1. e.term >= u
      BY <1>7, <1>10, <2>2 DEF Terms
    <3>2. Overruled(A, n, u) \/ Has(log[i], n, u)
      BY <1>10, <3>1 DEF LogInv, ElectedHold
    <3>. QED  BY <1>13, <3>2 DEF Overruled
  <2>. QED  BY <1>7, <1>9, <1>13, <2>1, <2>2 DEF ReadyToAppend
<1>16. \A r \in DOMAIN calls' \ DOMAIN calls : r.type = "SendAppendEntries" /\ SendOK(H, A, r)
  BY <1>13, BroadcastParts
<1>17. \A b, q \in Server : HasVote(b, q)' => HasVote(b, q)
  <2>1. \A r \in DOMAIN calls' : r.type = "RequestVoteReply" => r \in DOMAIN calls
    BY <1>16
  <2>. QED  BY <1>13, <2>1 DEF HasVote, Granted, electionVars
<1>18. AppendsAsLeader(i, t, entry)
  BY <1>1, <1>11, <1>12, <1>13, <1>14, <1>17 DEF AppendsAsLeader, electionVars
<1>19. \A j \in Server \ {i} : matchIndex'[j] = matchIndex[j] /\ nextIndex'[j] = nextIndex[j]
  BY <1>13 DEF leaderVars
<1>20. \A j \in Server \ {i} :
         matchIndex'[i][j] <= A[t][j] /\ nextIndex'[i][j] <= Len(log[i]) + 1
  BY <1>7, <1>13 DEF leaderVars, LogInv, TablesOK, Leads
<1>21. ElectionInv /\ ElectionInv' /\ LogTypeOK /\ LogTypeOK' /\ CallTypeOK
  BY PlainParts DEF Plain, TypeInv, TypeOK
<1>22. LogInv(H2, A2)'
  BY <1>3, <1>4, <1>5, <1>6, <1>7, <1>12, <1>15, <1>16, <1>18, <1>19, <1>20, <1>21,
     LeaderLogStep
<1>23. HistoriesKept(H, A, H2, A2)
  <2>1. A[t][i] <= Len(H[t])
    BY <1>7 DEF LogInv, HistoryTyped
  <2>2. LogsGrow(H, H2) /\ AcksGrow(A, A2, i, t)
    BY <1>3, <1>4, <1>5, <1>6, <1>7, <1>8, <1>9, <1>12, <2>1, HistoriesGrow
  <2>3. H2 \in [Terms -> Seq(LogEntries)]
    <3>1. N \in Seq(LogEntries)
      BY <1>4, <1>8, <1>12, AppendExtends
    <3>. QED  BY <1>5, <1>8, <3>1
  <2>. QED  BY <1>8, <2>2, <2>3, GrowthKeeps
<1>. QED  BY <1>22, <1>23

-----------------------------------------------------------------------------
(* Every step, as long as it leaves no snapshot behind. *)

\* Who has no snapshot file has its whole log, and its state machine starts empty.
SnapshotsAreOnDisk ==
  \A i \in Server : snapshotFile[i].index = 0 =>
    snapshotIndex[i] = 0 /\ snapshotTerm[i] = 0 /\ snapshotFile[i].data = << >>

\* A node that stops has its roles and tables as a follower would; its log stays.
LEMMA RebootLogs ==
  ASSUME Plain, Plain', NEW H, NEW A, LogInv(H, A), NEW i \in Server,
         Crash(i) \/ \E c \in DOMAIN calls : c.dst = i /\ CrashInHandler(c)
  PROVE  LogInv(H, A)'
<1>1. currentTerm \in [Server -> Nat]
  BY PlainParts DEF ElectionTypeOK
<1>2. CASE Crash(i)
  <2>1. currentTerm' = [currentTerm EXCEPT ![i] = currentTerm[i]] /\ Reboot(i, calls)
    BY <1>1, <1>2 DEF Crash
  <2>2. currentTerm[i] \in Nat /\ currentTerm[i] >= currentTerm[i]
    BY <1>1
  <2>. QED  BY <2>1, <2>2, CrashLogs
<1>3. ASSUME NEW c \in DOMAIN calls, c.dst = i, CrashInHandler(c)
      PROVE  LogInv(H, A)'
  <2>1. c.term \in Nat /\ c.term >= currentTerm[i]
    <3>1. c.term \in Nat /\ currentTerm[i] \in Nat
      BY <1>1, CallTyped, PlainParts
    <3>2. c.term > currentTerm[i] \/ c.term >= currentTerm[i]
      BY <1>3 DEF CrashInHandler
    <3>. QED  BY <3>1, <3>2
  <2>2. /\ currentTerm' = [currentTerm EXCEPT ![i] = c.term]
        /\ Reboot(i, BagRemove(calls, c))
    BY <1>3 DEF CrashInHandler
  <2>3. DOMAIN BagRemove(calls, c) \subseteq DOMAIN calls
    BY BagRemoveDomain
  <2>. QED  BY <2>1, <2>2, <2>3, CrashLogs
<1>. QED  BY <1>2, <1>3

LEMMA CallStepLogs ==
  ASSUME Plain, Plain', NEW H, NEW A, LogInv(H, A), CallStep
  PROVE  \E H2, A2 : HistoriesKept(H, A, H2, A2) /\ LogInv(H2, A2)'
<1> PICK c \in DOMAIN calls :
      \/ HandleRequestVote(c)
      \/ StepDownOnReply(c)
      \/ DiscardReply(c)
      \/ CountVote(c)
      \/ BecomeLeader(c)
      \/ SendAppendEntries(c)
      \/ RejectStaleAppend(c)
      \/ RejectShortLog(c)
      \/ RejectMismatch(c)
      \/ AcceptEntries(c)
      \/ AdvanceOnSuccess(c)
      \/ BackOffOnFailure(c)
      \/ CrashInHandler(c)
      \/ Lose(c)
  BY DEF CallStep
<1>1. CASE BecomeLeader(c)
  BY <1>1, BecomeLeaderLogs
<1>2. CASE AcceptEntries(c)
  <2>1. PICK A2 : AcksGrow(A, A2, c.dst, c.term) /\ LogInv(H, A2)'
    BY <1>2, AcceptEntriesLogs
  <2>2. /\ H \in [Terms -> Seq(LogEntries)] /\ A \in [Terms -> [Server -> Nat]]
        /\ LogsGrow(H, H)
    BY SameIsKept, HistoryParts DEF HistoriesKept
  <2>3. HistoriesKept(H, A, H, A2)
    BY <2>1, <2>2, GrowthKeeps
  <2>. QED  BY <2>1, <2>3
<1>3. ASSUME LogInv(H, A)'
      PROVE  \E H2, A2 : HistoriesKept(H, A, H2, A2) /\ LogInv(H2, A2)'
  BY <1>3, SameIsKept
<1>4. CASE DiscardReply(c) \/ Lose(c)
  <2>1. UNCHANGED <<electionVars, log, elected, leaderVars, commitIndex>>
    BY <1>4 DEF DiscardReply, Lose, logVars
  <2>2. DOMAIN calls' \subseteq DOMAIN calls
    BY <1>4, ConsumeAdds DEF DiscardReply, Lose
  <2>. QED  BY <1>3, <2>1, <2>2, IdleAction
<1>5. CASE CrashInHandler(c)
  <2>1. c.dst \in Server
    BY CallTyped, PlainParts
  <2>. QED  BY <1>3, <1>5, <2>1, RebootLogs
<1>6. CASE HandleRequestVote(c) \/ StepDownOnReply(c) \/ CountVote(c) \/ SendAppendEntries(c)
  BY <1>3, <1>6, HandleRequestVoteLogs, StepDownOnReplyLogs, CountVoteLogs,
     SendAppendEntriesLogs
<1>7. CASE RejectStaleAppend(c) \/ RejectShortLog(c) \/ RejectMismatch(c)
  BY <1>3, <1>7, RejectStaleLogs, RejectShortLogs, RejectMismatchLogs
<1>8. CASE AdvanceOnSuccess(c) \/ BackOffOnFailure(c)
  BY <1>3, <1>8, AdvanceOnSuccessLogs, BackOffLogs
<1>. QED  BY <1>1, <1>2, <1>4, <1>5, <1>6, <1>7, <1>8

\* A node that takes a snapshot has executed something.
LEMMA SnapshotShows ==
  ASSUME TypeInv, NEW i \in Server, CanCompact(i),
         snapshotFile' = [snapshotFile EXCEPT ![i] = NewSnapshot(i)]
  PROVE  snapshotFile'[i].index # 0 /\ snapshotFile'[i].index = lastApplied[i]
<1>1. /\ lastApplied[i] \in Nat /\ snapshotIndex[i] \in Nat /\ log[i] \in Seq(LogEntries)
      /\ snapshotFile \in [Server -> [index : Nat, data : Seq(Command)]]
  BY DEF TypeInv, TypeOK, LogTypeOK, ApplyTypeOK
<1>2. lastApplied[i] - snapshotIndex[i] \in 1..Len(log[i]) /\ Len(log[i]) \in Nat
  BY <1>1 DEF CanCompact, HasEntry, HasLogEntry, LogicalToPhysical
<1>3. lastApplied[i] # 0
  BY <1>1, <1>2
<1>4. snapshotFile'[i] = [index |-> lastApplied[i], data |-> machine[i]]
  BY <1>1 DEF NewSnapshot
<1>. QED  BY <1>3, <1>4

LEMMA NodeStepLogs ==
  ASSUME Plain, Plain', NEW H, NEW A, LogInv(H, A), NoSnapshots', NodeStep
  PROVE  LogInv(H, A)'
<1> PICK i \in Server :
      \/ StartElection(i)
      \/ BroadcastAppendEntries(i)
      \/ FetchCommitted(i)
      \/ ApplyEntry(i)
      \/ MaybeSnapshot(i)
      \/ TakeSnapshot(i)
      \/ Crash(i)
      \/ CrashInSnapshot(i)
  BY DEF NodeStep
<1>1. CASE StartElection(i) \/ BroadcastAppendEntries(i) \/ Crash(i)
  BY <1>1, StartElectionLogs, BroadcastLogs, RebootLogs
<1>2. CASE FetchCommitted(i) \/ ApplyEntry(i) \/ MaybeSnapshot(i)
  <2>1. UNCHANGED <<electionVars, log, elected, leaderVars, commitIndex, calls>>
    BY <1>2 DEF FetchCommitted, ApplyEntry, MaybeSnapshot, logVars
  <2>. QED  BY <2>1, IdleAction
<1>3. CASE TakeSnapshot(i)
  <2>1. ~CanCompact(i)
    BY <1>3, PlainParts, SnapshotShows DEF TakeSnapshot, NoSnapshots
  <2>2. UNCHANGED <<electionVars, log, elected, leaderVars, commitIndex, calls>>
    BY <1>3, <2>1 DEF TakeSnapshot, logVars
  <2>. QED  BY <2>2, IdleAction
<1>4. CASE CrashInSnapshot(i)
  BY <1>4, PlainParts, SnapshotShows DEF CrashInSnapshot, NoSnapshots
<1>. QED  BY <1>1, <1>2, <1>3, <1>4

LEMMA ClientStepLogs ==
  ASSUME Plain, Plain', NEW H, NEW A, LogInv(H, A), ClientStep
  PROVE  \E H2, A2 : HistoriesKept(H, A, H2, A2) /\ LogInv(H2, A2)'
<1> PICK cmd \in Command :
      \/ \E i \in Server : Propose(i, cmd)
      \/ ProposeReturn(cmd)
      \/ ProposeTimeout(cmd)
  BY DEF ClientStep
<1>1. CASE \E i \in Server : Propose(i, cmd)
  BY <1>1, ProposeLogs
<1>2. CASE ProposeReturn(cmd) \/ ProposeTimeout(cmd)
  <2>1. UNCHANGED <<electionVars, log, elected, leaderVars, commitIndex, calls>>
    BY <1>2 DEF ProposeReturn, ProposeTimeout, logVars
  <2>2. LogInv(H, A)'
    BY <2>1, IdleAction
  <2>. QED  BY <2>2, SameIsKept
<1>. QED  BY <1>1, <1>2

LEMMA StepLogs ==
  ASSUME Plain, Plain', NEW H, NEW A, LogInv(H, A), NoSnapshots', [Next]_vars
  PROVE  \E H2, A2 : HistoriesKept(H, A, H2, A2) /\ LogInv(H2, A2)'
<1>1. CASE UNCHANGED vars
  <2>1. UNCHANGED <<electionVars, log, elected, leaderVars, commitIndex, calls>>
    BY <1>1 DEF vars, logVars
  <2>2. LogInv(H, A)'
    BY <2>1, IdleAction
  <2>. QED  BY <2>2, SameIsKept
<1>2. CASE NodeStep
  BY <1>2, NodeStepLogs, SameIsKept
<1>. QED  BY <1>1, <1>2, CallStepLogs, ClientStepLogs DEF Next

-----------------------------------------------------------------------------
(* The invariant, and what it says of the replicated log. *)

\* A call changes neither the state machine's side of a node nor the proposals,
\* unless a node crashes in it.
LEMMA CallEffects ==
  ASSUME CallTypeOK, CallStep
  PROVE  \/ UNCHANGED <<applyVars, clientVars, snapshotIndex, snapshotTerm>>
         \/ /\ \E i \in Server : \E left : Reboot(i, left)
            /\ UNCHANGED snapshotFile
<1>1. PICK c \in DOMAIN calls :
        \/ HandleRequestVote(c)
        \/ StepDownOnReply(c)
        \/ DiscardReply(c)
        \/ CountVote(c)
        \/ BecomeLeader(c)
        \/ SendAppendEntries(c)
        \/ RejectStaleAppend(c)
        \/ RejectShortLog(c)
        \/ RejectMismatch(c)
        \/ AcceptEntries(c)
        \/ AdvanceOnSuccess(c)
        \/ BackOffOnFailure(c)
        \/ CrashInHandler(c)
        \/ Lose(c)
  BY DEF CallStep
<1>2. CASE HandleRequestVote(c) \/ StepDownOnReply(c) \/ DiscardReply(c) \/ CountVote(c)
  BY <1>2 DEF HandleRequestVote, StepDownOnReply, DiscardReply, CountVote, logVars
<1>3. CASE BecomeLeader(c) \/ SendAppendEntries(c) \/ RejectStaleAppend(c)
  BY <1>3 DEF BecomeLeader, SendAppendEntries, RejectStaleAppend, logVars
<1>4. CASE RejectShortLog(c) \/ RejectMismatch(c) \/ AcceptEntries(c)
  BY <1>4 DEF RejectShortLog, RejectMismatch, AcceptEntries, logVars
<1>5. CASE AdvanceOnSuccess(c) \/ BackOffOnFailure(c) \/ Lose(c)
  BY <1>5 DEF AdvanceOnSuccess, BackOffOnFailure, Lose, logVars
<1>6. CASE CrashInHandler(c)
  <2>1. Reboot(c.dst, BagRemove(calls, c)) /\ UNCHANGED snapshotFile
    BY <1>6 DEF CrashInHandler
  <2>2. c.dst \in Server
    BY CallTyped
  <2>. QED  BY <2>1, <2>2
<1>. QED  BY <1>1, <1>2, <1>3, <1>4, <1>5, <1>6

LEMMA SnapshotStep ==
  ASSUME TypeInv, SnapshotsAreOnDisk, [Next]_vars
  PROVE  SnapshotsAreOnDisk' /\ (NoSnapshots' => NoSnapshots)
<1>1. ASSUME NEW i \in Server, TakeSnapshot(i) \/ CrashInSnapshot(i)
      PROVE  SnapshotsAreOnDisk' /\ (NoSnapshots' => NoSnapshots)
  <2>1. /\ \A j \in Server : j # i => snapshotFile'[j] = snapshotFile[j]
                                      /\ snapshotIndex'[j] = snapshotIndex[j]
                                      /\ snapshotTerm'[j] = snapshotTerm[j]
        /\ \/ snapshotFile'[i].index # 0
           \/ UNCHANGED <<snapshotFile, snapshotIndex, snapshotTerm>>
    <3>1. /\ snapshotIndex \in [Server -> Nat] /\ snapshotTerm \in [Server -> Nat]
          /\ snapshotFile \in [Server -> [index : Nat, data : Seq(Command)]]
      BY DEF TypeInv, TypeOK, LogTypeOK, ApplyTypeOK
    <3>2. CASE ~CanCompact(i)
      BY <1>1, <3>2 DEF TakeSnapshot, CrashInSnapshot, logVars
    <3>3. CASE CanCompact(i)
      <4>1. /\ snapshotFile' = [snapshotFile EXCEPT ![i] = NewSnapshot(i)]
            /\ \/ UNCHANGED logVars
               \/ /\ snapshotIndex' = [snapshotIndex EXCEPT ![i] = lastApplied[i]]
                  /\ snapshotTerm' = [snapshotTerm EXCEPT ![i] = Entry(i, lastApplied[i]).term]
        BY <1>1, <3>3 DEF TakeSnapshot, CrashInSnapshot, Reboot
      <4>2. snapshotFile'[i].index # 0
        BY <3>3, <4>1, SnapshotShows
      <4>3. \A j \in Server : j # i => snapshotFile'[j] = snapshotFile[j]
        BY <3>1, <4>1
      <4>4. \A j \in Server : j # i => snapshotIndex'[j] = snapshotIndex[j]
                                      /\ snapshotTerm'[j] = snapshotTerm[j]
        BY <3>1, <4>1 DEF logVars
      <4>. QED  BY <4>2, <4>3, <4>4
    <3>. QED  BY <3>2, <3>3
  <2>. QED  BY <2>1 DEF SnapshotsAreOnDisk, NoSnapshots
<1>2. ASSUME UNCHANGED <<snapshotFile, snapshotIndex, snapshotTerm>>
      PROVE  SnapshotsAreOnDisk' /\ (NoSnapshots' => NoSnapshots)
  BY <1>2 DEF SnapshotsAreOnDisk, NoSnapshots
<1>3. CASE UNCHANGED vars
  BY <1>2, <1>3 DEF vars, logVars, applyVars
<1>4. CASE CallStep
  <2>1. UNCHANGED <<snapshotFile, snapshotIndex, snapshotTerm>>
    BY <1>4, CallEffects DEF TypeInv, TypeOK, applyVars, Reboot, logVars
  <2>. QED  BY <1>2, <2>1
<1>5. CASE ClientStep
  <2>1. UNCHANGED <<snapshotFile, snapshotIndex, snapshotTerm>>
    BY <1>5 DEF ClientStep, Propose, ProposeReturn, ProposeTimeout, logVars, applyVars
  <2>. QED  BY <1>2, <2>1
<1>6. CASE NodeStep
  <2>1. PICK i \in Server :
          \/ StartElection(i)
          \/ BroadcastAppendEntries(i)
          \/ FetchCommitted(i)
          \/ ApplyEntry(i)
          \/ MaybeSnapshot(i)
          \/ TakeSnapshot(i)
          \/ Crash(i)
          \/ CrashInSnapshot(i)
    BY <1>6 DEF NodeStep
  <2>2. CASE TakeSnapshot(i) \/ CrashInSnapshot(i)
    BY <1>1, <2>2
  <2>3. CASE ~(TakeSnapshot(i) \/ CrashInSnapshot(i))
    <3>1. UNCHANGED <<snapshotFile, snapshotIndex, snapshotTerm>>
      BY <2>1, <2>3 DEF StartElection, BroadcastAppendEntries, FetchCommitted, ApplyEntry,
         MaybeSnapshot, Crash, Reboot, logVars, applyVars
    <3>. QED  BY <1>2, <3>1
  <2>. QED  BY <2>2, <2>3
<1>. QED  BY <1>3, <1>4, <1>5, <1>6 DEF Next

LEMMA InitLogInv ==
  ASSUME Init
  PROVE  \E H, A : LogInv(H, A)
<1> DEFINE H == [t \in Terms |-> << >>]
           A == [t \in Terms |-> [q \in Server |-> 0]]
<1>1. H \in [Terms -> Seq(LogEntries)] /\ A \in [Terms -> [Server -> Nat]]
  <2>1. << >> \in Seq(LogEntries)
    OBVIOUS
  <2>. QED  BY <2>1
<1>2. \A t \in Terms : H[t] = << >> /\ Len(H[t]) = 0 /\ \A q \in Server : A[t][q] = 0
  OBVIOUS
<1>3. \A t \in Terms : Created(H, t) = {}
  BY <1>2 DEF Created
<1> HIDE DEF H, A
<1>4. /\ \A i \in Server : log[i] = << >> /\ Len(log[i]) = 0 /\ state[i] = Follower
                           /\ commitIndex[i] = 0 /\ currentTerm[i] = 0
      /\ DOMAIN calls = {} /\ elected = {}
  BY DEF Init, EmptyBag, SetToBag
<1>5. HistoryTyped(H, A)
  BY <1>1, <1>2 DEF HistoryTyped
<1>6. LeaderLogs(H) /\ LogsAreGood(H)
  BY <1>2, <1>4 DEF LeaderLogs, LogsAreGood, GoodLog
<1>7. LeadersHold(H, A) /\ CampaignsAreNew /\ TablesOK(H, A) /\ AckedByTerm(A)
  BY <1>4 DEF LeadersHold, CampaignsAreNew, TablesOK, AckedByTerm, Leads, Follower,
              Candidate, Leader
<1>8. FutureIsLost /\ RequestsDescribeLogs /\ CallsOK(H, A)
  BY <1>4 DEF FutureIsLost, RequestsDescribeLogs, CallsOK
<1>9. AckedIsKept(H, A) /\ ElectedHold(H, A)
  BY <1>3 DEF AckedIsKept, ElectedHold
<1>10. CommitsOK(H, A)
  BY <1>4 DEF CommitsOK, CommittedUpTo
<1>11. LogInv(H, A)
  BY <1>5, <1>6, <1>7, <1>8, <1>9, <1>10 DEF LogInv
<1>. QED  BY <1>11

\* The two histories exist as long as nobody has taken a snapshot.
LogHasHistory == NoSnapshots => \E H, A : LogInv(H, A)

\* Everything that the steps of this module need of the rest.
RestInv == TypeInv /\ ElectionInv /\ SnapshotsAreOnDisk

LEMMA RestIsPlain ==
  ASSUME RestInv, NoSnapshots
  PROVE  Plain
  BY DEF RestInv, NoSnapshots, SnapshotsAreOnDisk, Plain

\* Recovery finds a log and a snapshot that fit: whoever has no snapshot file
\* remembers no snapshot.
THEOREM RestIsKept == Spec => []RestInv
<1>1. Init => SnapshotsAreOnDisk
  BY DEF Init, SnapshotsAreOnDisk
<1>2. TypeInv /\ SnapshotsAreOnDisk /\ [Next]_vars => SnapshotsAreOnDisk'
  BY SnapshotStep
<1>3. Spec => []SnapshotsAreOnDisk
  BY <1>1, <1>2, TypesAreKept, PTL DEF Spec
<1>. QED  BY <1>3, TypesAreKept, ElectionInvariant, PTL DEF RestInv

\* The inductive invariant behind the properties of the log: in every behaviour,
\* until a node takes its first snapshot, there are logs of leaders and
\* acknowledgements in the past that explain every log, table, commit index and
\* call, late and repeated ones among them.
THEOREM HistoryExplainsLogs == Spec => []LogHasHistory
<1>1. Init => LogHasHistory
  BY InitLogInv DEF LogHasHistory
<1>2. ASSUME RestInv, RestInv', LogHasHistory, [Next]_vars
      PROVE  LogHasHistory'
  <2> SUFFICES ASSUME NoSnapshots'
               PROVE  \E H, A : LogInv(H, A)'
    BY DEF LogHasHistory
  <2>1. NoSnapshots
    BY <1>2, SnapshotStep DEF RestInv
  <2>2. Plain /\ Plain'
    BY <1>2, <2>1, RestIsPlain DEF RestInv, NoSnapshots, SnapshotsAreOnDisk, Plain
  <2>3. PICK H, A : LogInv(H, A)
    BY <1>2, <2>1 DEF LogHasHistory
  <2>. QED  BY <1>2, <2>2, <2>3, StepLogs
<1>. QED  BY <1>1, <1>2, RestIsKept, PTL DEF Spec

LEMMA AgreeIsSame ==
  ASSUME NEW L \in Seq(LogEntries), NEW M \in Seq(LogEntries), NEW n \in Nat, Agree(L, M, n)
  PROVE  SubSeq(L, 1, n) = SubSeq(M, 1, n)
<1>1. n \in 0..Len(L) /\ n \in 0..Len(M) /\ \A p \in 1..n : L[p] = M[p]
  BY DEF Agree
<1>2. /\ SubSeq(L, 1, n) \in Seq(LogEntries) /\ Len(SubSeq(L, 1, n)) = n
      /\ \A p \in 1..n : SubSeq(L, 1, n)[p] = L[p]
  BY <1>1, FirstEntries
<1>3. /\ SubSeq(M, 1, n) \in Seq(LogEntries) /\ Len(SubSeq(M, 1, n)) = n
      /\ \A p \in 1..n : SubSeq(M, 1, n)[p] = M[p]
  BY <1>1, FirstEntries
<1>. QED  BY <1>1, <1>2, <1>3, SeqEqual

\* Two entries of which each was committed by a majority are on one log.
ChosenAgree(H, A) ==
  \A t, u \in Terms : \A n, m : \A k \in Nat :
    Chosen(H, A, n, t) /\ Chosen(H, A, m, u) /\ k <= n /\ k <= m => Agree(H[t], H[u], k)

\* E are the elections won, now or after a step.
LEMMA ChosenIsOne ==
  ASSUME NEW H \in [Terms -> Seq(LogEntries)], NEW A \in [Terms -> [Server -> Nat]],
         \A t \in Terms : GoodLog(H, H[t]),
         NEW E, \A e \in E : e.voters \in Quorums /\ e.term \in Nat,
         \A t \in Terms : H[t] # << >> => \E e \in E : e.term = t,
         \A t \in Terms : \A n \in Created(H, t) : \A e \in E : e.term >= t =>
           \/ \E f \in E : f.term > t /\ \A q \in f.voters : A[t][q] < n
           \/ Has(H[e.term], n, t)
  PROVE  ChosenAgree(H, A)
<1>1. ASSUME NEW r \in Terms, NEW v \in Terms, NEW p, NEW q, NEW k \in Nat,
             Chosen(H, A, p, r), Chosen(H, A, q, v), k <= p, r <= v
      PROVE  Agree(H[v], H[r], k)
  <2>1. p \in Created(H, r) /\ q \in Created(H, v) /\ p \in Nat
    BY <1>1 DEF Chosen, Created
  <2>2. H[v] # << >> /\ H[v] \in Seq(LogEntries) /\ H[r] \in Seq(LogEntries)
    BY <2>1 DEF Created
  <2>3. PICK e \in E : e.term = v
    BY <2>2
  <2>4. e.term >= r
    BY <1>1, <2>3
  <2>5. ASSUME NEW f \in E, \A x \in f.voters : A[r][x] < p
        PROVE  FALSE
    <3>1. {x \in Server : A[r][x] >= p} \in Quorums
      BY <1>1 DEF Chosen
    <3>2. PICK x \in f.voters : x \in Server /\ A[r][x] >= p
      BY <3>1, QuorumsIntersect
    <3>3. A[r][x] \in Nat /\ A[r][x] < p
      BY <2>5, <3>2
    <3>. QED  BY <2>1, <3>2, <3>3
  <2>6. Has(H[v], p, r)
    BY <2>1, <2>3, <2>4, <2>5
  <2>7. Agree(H[v], H[r], p)
    BY <2>6, HasAgrees
  <2>. QED  BY <1>1, <2>1, <2>2, <2>7, AgreeShorter
<1>2. ASSUME NEW t \in Terms, NEW u \in Terms, NEW n, NEW m, NEW k \in Nat,
             Chosen(H, A, n, t), Chosen(H, A, m, u), k <= n, k <= m
      PROVE  Agree(H[t], H[u], k)
  <2>1. t <= u \/ u <= t
    BY DEF Terms
  <2>2. CASE t <= u
    BY <1>1, <1>2, <2>2, AgreeSym
  <2>3. CASE u <= t
    BY <1>1, <1>2, <2>3
  <2>. QED  BY <2>1, <2>2, <2>3
<1>. QED  BY <1>2 DEF ChosenAgree

LEMMA ChosenNow ==
  ASSUME ElectionInv, NEW H, NEW A, LogInv(H, A)
  PROVE  ChosenAgree(H, A)
<1>1. \A e \in elected : e.voters \in Quorums /\ e.term \in Nat
  BY DEF ElectionInv, ElectedAreBacked, ElectionTypeOK
<1>2. \A t \in Terms : GoodLog(H, H[t]) /\ (H[t] # << >> => \E e \in elected : e.term = t)
  BY DEF LogInv, LeaderLogs
<1>3. \A t \in Terms : \A n \in Created(H, t) : \A e \in elected : e.term >= t =>
           \/ \E f \in elected : f.term > t /\ \A q \in f.voters : A[t][q] < n
           \/ Has(H[e.term], n, t)
  BY DEF LogInv, ElectedHold, Overruled
<1>4. PICK E : E = elected
  OBVIOUS
<1>. QED  BY <1>1, <1>2, <1>3, <1>4, HistoryParts, ChosenIsOne

LEMMA ChosenNext ==
  ASSUME ElectionInv', NEW H, NEW A, LogInv(H, A)'
  PROVE  ChosenAgree(H, A)
<1>1. \A e \in elected' : e.voters \in Quorums /\ e.term \in Nat
  BY DEF ElectionInv, ElectedAreBacked, ElectionTypeOK
<1>2. /\ \A t \in Terms : GoodLog(H, H[t]) /\ (H[t] # << >> => \E e \in elected' : e.term = t)
      /\ H \in [Terms -> Seq(LogEntries)] /\ A \in [Terms -> [Server -> Nat]]
  BY DEF LogInv, LeaderLogs, HistoryTyped
<1>3. \A t \in Terms : \A n \in Created(H, t) : \A e \in elected' : e.term >= t =>
           \/ \E f \in elected' : f.term > t /\ \A q \in f.voters : A[t][q] < n
           \/ Has(H[e.term], n, t)
  BY DEF LogInv, ElectedHold, Overruled
<1>4. PICK E : E = elected'
  OBVIOUS
<1>. QED  BY <1>1, <1>2, <1>3, <1>4, ChosenIsOne

LEMMA HistoryImpliesMatching ==
  ASSUME Plain, NEW H, NEW A, LogInv(H, A)
  PROVE  LogMatching
<1>1. \A i \in Server : log[i] \in Seq(LogEntries) /\ GoodLog(H, log[i])
  BY PlainLog
<1>2. ASSUME NEW i \in Server, NEW j \in Server, NEW p \in 1..Len(log[i]),
             p <= Len(log[j]), log[i][p].term = log[j][p].term
      PROVE  SameUpTo(i, j, p)
  <2>1. p \in Nat /\ p \in 1..Len(log[j])
    <3>1. Len(log[j]) \in Nat
      BY <1>1
    <3>. QED  BY <1>2, <3>1
  <2>2. Agree(log[i], H[log[i][p].term], p) /\ Agree(log[j], H[log[i][p].term], p)
    BY <1>1, <1>2, <2>1 DEF GoodLog
  <2>3. Agree(log[i], log[j], p)
    BY <2>2, AgreeSym, AgreeTrans
  <2>. QED  BY <1>1, <2>1, <2>3, AgreeIsSame DEF SameUpTo
<1>3. \A i \in Server : \A p \in 1..Len(log[i]) : log[i][p].index = p
  BY <1>1 DEF GoodLog
<1>. QED  BY <1>2, <1>3 DEF LogMatching

LEMMA HistoryImpliesCompleteness ==
  ASSUME Plain, NEW H, NEW A, LogInv(H, A)
  PROVE  LeaderCompleteness
<1> SUFFICES ASSUME NEW i \in Server, NEW j \in Server, state[i] = Leader,
                    currentTerm[j] <= currentTerm[i]
             PROVE  Agree(log[i], log[j], commitIndex[j])
  <2> SUFFICES ASSUME NEW i \in Server, NEW j \in Server, Agree(log[i], log[j], commitIndex[j])
               PROVE  /\ commitIndex[j] <= Len(log[i])
                      /\ SameUpTo(i, j, commitIndex[j])
    BY DEF LeaderCompleteness
  <2>1. log[i] \in Seq(LogEntries) /\ log[j] \in Seq(LogEntries) /\ commitIndex[j] \in Nat
    BY PlainParts DEF LogTypeOK
  <2>. QED  BY <2>1, AgreeIsSame DEF Agree, SameUpTo
<1> DEFINE k == commitIndex[j]
<1>1. /\ log[i] \in Seq(LogEntries) /\ log[j] \in Seq(LogEntries) /\ k \in Nat
      /\ Len(log[i]) \in Nat /\ Len(log[j]) \in Nat /\ GoodLog(H, log[i])
      /\ currentTerm[i] \in Nat /\ currentTerm[j] \in Nat
  BY PlainParts, PlainLog DEF LogTypeOK, ElectionTypeOK
<1>2. CASE k = 0
  BY <1>1, <1>2 DEF Agree
<1>3. CASE k > 0
  <2>1. PICK t \in Terms : \E n \in Created(H, t) :
          Chosen(H, A, n, t) /\ t <= currentTerm[j] /\ k <= n /\ Agree(log[j], H[t], k)
    BY <1>3 DEF LogInv, CommitsOK, CommittedUpTo
  <2>2. PICK n \in Created(H, t) :
          Chosen(H, A, n, t) /\ t <= currentTerm[j] /\ k <= n /\ Agree(log[j], H[t], k)
    BY <2>1
  <2>3. PICK e \in elected : e.leader = i /\ e.term = currentTerm[i]
    BY PlainParts DEF ElectionInv, LeadersWereElected, WasElected
  <2>4. e.term >= t
    BY <1>1, <2>2, <2>3 DEF Terms
  <2>5. Has(log[i], n, t)
    BY <2>2, <2>3, <2>4, ChosenStays, PlainParts DEF LogInv, ElectedHold
  <2>6. Agree(log[i], H[t], n) /\ n \in Nat /\ H[t] \in Seq(LogEntries)
    BY <1>1, <2>5, HasAgrees, HistoryParts DEF Created
  <2>7. Agree(log[i], H[t], k)
    BY <1>1, <2>2, <2>6, AgreeShorter
  <2>. QED  BY <2>2, <2>7, AgreeSym, AgreeTrans
<1>. QED  BY <1>1, <1>2, <1>3

LEMMA HistoryImpliesMatchIndex ==
  ASSUME Plain, NEW H, NEW A, LogInv(H, A)
  PROVE  MatchIndexIsTrue
<1> SUFFICES ASSUME NEW i \in Server, NEW j \in Server, state[i] = Leader, i # j,
                    currentTerm[j] = currentTerm[i]
             PROVE  /\ matchIndex[i][j] <= Len(log[j])
                    /\ SameUpTo(i, j, matchIndex[i][j])
  BY DEF MatchIndexIsTrue
<1> DEFINE t == currentTerm[i]
<1>1. /\ log[i] \in Seq(LogEntries) /\ log[j] \in Seq(LogEntries)
      /\ matchIndex[i][j] \in Nat /\ t \in Terms
  BY PlainParts DEF LogTypeOK, ElectionInv, CallsAreTyped
<1>2. A[t][j] \in Nat
  BY <1>1, HistoryParts
<1>3. Agree(log[j], log[i], A[t][j])
  BY DEF LogInv, AckedByTerm, Leads
<1>4. matchIndex[i][j] <= A[t][j]
  BY DEF LogInv, TablesOK
<1>5. Agree(log[j], log[i], matchIndex[i][j])
  BY <1>1, <1>2, <1>3, <1>4, AgreeShorter
<1>. QED  BY <1>1, <1>5, AgreeIsSame DEF SameUpTo, Agree

LEMMA CommitsGrow ==
  ASSUME Plain, Plain', NoSnapshots', NEW H, NEW A, LogInv(H, A), [Next]_vars
  PROVE  \A i \in Server :
           \/ commitIndex'[i] >= commitIndex[i]
           \/ /\ log'[i] = log[i] /\ restarts'[i] # restarts[i]
              /\ lastApplied'[i] = 0 /\ applying'[i] = << >>
<1>1. /\ commitIndex \in [Server -> Nat] /\ log \in [Server -> Seq(LogEntries)]
      /\ restarts \in [Server -> Nat] /\ \A i \in Server : commitIndex[i] >= commitIndex[i]
      /\ lastApplied \in [Server -> Nat] /\ applying \in [Server -> Seq(LogEntries)]
  <2>1. /\ commitIndex \in [Server -> Nat] /\ log \in [Server -> Seq(LogEntries)]
        /\ restarts \in [Server -> Nat]
        /\ lastApplied \in [Server -> Nat] /\ applying \in [Server -> Seq(LogEntries)]
    BY PlainParts DEF LogTypeOK, CallTypeOK, ApplyTypeOK
  <2>. QED  BY <2>1
<1>2. ASSUME commitIndex' = commitIndex
      PROVE  \A i \in Server : commitIndex'[i] >= commitIndex[i]
  BY <1>1, <1>2
<1>3. CASE UNCHANGED vars
  BY <1>2, <1>3 DEF vars
<1>4. ASSUME NEW j \in Server, NEW callsLeft, Reboot(j, callsLeft)
      PROVE  \A i \in Server :
               \/ commitIndex'[i] >= commitIndex[i]
               \/ /\ log'[i] = log[i] /\ restarts'[i] # restarts[i]
                  /\ lastApplied'[i] = 0 /\ applying'[i] = << >>
  <2>1. /\ log' = log
        /\ restarts' = [restarts EXCEPT ![j] = restarts[j] + 1]
        /\ \A i \in Server : i # j => commitIndex'[i] = commitIndex[i]
    BY <1>1, <1>4 DEF Reboot, logVars
  <2>2. restarts'[j] # restarts[j]
    <3>1. restarts'[j] = restarts[j] + 1 /\ restarts[j] \in Nat
      BY <1>1, <2>1
    <3>. QED  BY <3>1
  <2>3. lastApplied'[j] = 0 /\ applying'[j] = << >>
    <3>1. /\ lastApplied' = [lastApplied EXCEPT ![j] = snapshotIndex[j]]
          /\ applying' = [applying EXCEPT ![j] = << >>]
      BY <1>4 DEF Reboot
    <3>. QED  BY <1>1, <3>1 DEF Plain
  <2>. QED  BY <1>1, <2>1, <2>2, <2>3
<1>5. ASSUME NEW c \in DOMAIN calls, AcceptEntries(c)
      PROVE  \A i \in Server : commitIndex'[i] >= commitIndex[i]
  <2> DEFINE j == c.dst
             N == AppendAll(log[j], 0, c.entries)
  <2>1. c.type = "AppendEntries" /\ j \in Server /\ ~PrevBeyondLog(c) /\ ~PrevMismatch(c)
        /\ snapshotIndex[j] = 0
    BY <1>5, CallTyped, PlainParts DEF AcceptEntries, FollowLeader, Plain
  <2>2. /\ N \in Seq(LogEntries) /\ GoodLog(H, N)
        /\ Agree(N, RequestLog(H, c), Len(RequestLog(H, c)))
    BY <2>1, AcceptedLog
  <2>3. ~Dangling(c)
    BY <2>1, AcceptParts
  <2>4. commitIndex' = [commitIndex EXCEPT ![j] = FollowerCommit(j, c, N)]
    <3>1. log'[j] = N
      BY <1>1, <1>5, <2>1 DEF AcceptEntries
    <3>. QED  BY <1>5, <3>1 DEF AcceptEntries
  <2> HIDE DEF N
  <2>5. FollowerCommit(j, c, N) >= commitIndex[j]
    BY <2>1, <2>2, <2>3, AcceptCommits
  <2>. QED  BY <1>1, <2>1, <2>4, <2>5
<1>6. ASSUME NEW c \in DOMAIN calls, AdvanceOnSuccess(c)
      PROVE  \A i \in Server : commitIndex'[i] >= commitIndex[i]
  <2> DEFINE j == c.src
             n == AgreedIndex(j, matchIndex'[j])
  <2>1. j \in Server
    BY CallTyped, PlainParts
  <2>2. matchIndex'[j] \in [Server -> Nat] /\ LastIndex(j) \in Nat
    <3>1. LogTypeOK'
      BY DEF Plain, TypeInv, TypeOK
    <3>2. LastIndex(j) = Len(log[j]) /\ Len(log[j]) \in Nat
      BY <2>1, PlainLog
    <3>. QED  BY <2>1, <3>1, <3>2 DEF LogTypeOK
  <2>3. n \in Nat
    BY <2>1, <2>2, AgreedByMajority
  <2> HIDE DEF n
  <2>4. LeaderCommit(j, matchIndex'[j]) \in {commitIndex[j]} \union {m \in Nat : m > commitIndex[j]}
    BY <2>3 DEF LeaderCommit, n
  <2>5. commitIndex' = [commitIndex EXCEPT ![j] = LeaderCommit(j, matchIndex'[j])]
    BY <1>6 DEF AdvanceOnSuccess
  <2>. QED  BY <1>1, <2>1, <2>4, <2>5
<1>7. CASE CallStep
  <2>1. PICK c \in DOMAIN calls :
          \/ HandleRequestVote(c)
          \/ StepDownOnReply(c)
          \/ DiscardReply(c)
          \/ CountVote(c)
          \/ BecomeLeader(c)
          \/ SendAppendEntries(c)
          \/ RejectStaleAppend(c)
          \/ RejectShortLog(c)
          \/ RejectMismatch(c)
          \/ AcceptEntries(c)
          \/ AdvanceOnSuccess(c)
          \/ BackOffOnFailure(c)
          \/ CrashInHandler(c)
          \/ Lose(c)
    BY <1>7 DEF CallStep
  <2>2. CASE CrashInHandler(c)
    <3>1. c.dst \in Server
      BY CallTyped, PlainParts
    <3>. QED  BY <1>4, <2>2, <3>1 DEF CrashInHandler
  <2>3. CASE AcceptEntries(c) \/ AdvanceOnSuccess(c)
    BY <1>5, <1>6, <2>3
  <2>4. CASE ~(CrashInHandler(c) \/ AcceptEntries(c) \/ AdvanceOnSuccess(c))
    <3>1. commitIndex' = commitIndex
      <4>1. CASE \/ HandleRequestVote(c) \/ StepDownOnReply(c) \/ DiscardReply(c)
                 \/ CountVote(c) \/ BecomeLeader(c)
        BY <4>1 DEF HandleRequestVote, StepDownOnReply, DiscardReply, CountVote, BecomeLeader
      <4>2. CASE \/ SendAppendEntries(c) \/ RejectStaleAppend(c) \/ RejectShortLog(c)
                 \/ RejectMismatch(c) \/ BackOffOnFailure(c) \/ Lose(c)
        BY <4>2 DEF SendAppendEntries, RejectStaleAppend, RejectShortLog, RejectMismatch,
                    BackOffOnFailure, Lose
      <4>. QED  BY <2>1, <2>4, <4>1, <4>2
    <3>. QED  BY <1>2, <3>1
  <2>. QED  BY <2>2, <2>3, <2>4
<1>8. CASE NodeStep
  <2>1. PICK j \in Server :
          \/ StartElection(j)
          \/ BroadcastAppendEntries(j)
          \/ FetchCommitted(j)
          \/ ApplyEntry(j)
          \/ MaybeSnapshot(j)
          \/ TakeSnapshot(j)
          \/ Crash(j)
          \/ CrashInSnapshot(j)
    BY <1>8 DEF NodeStep
  <2>2. CASE Crash(j) \/ CrashInSnapshot(j)
    BY <1>4, <2>2 DEF Crash, CrashInSnapshot
  <2>3. CASE ~(Crash(j) \/ CrashInSnapshot(j))
    <3>1. commitIndex' = commitIndex
      BY <2>1, <2>3 DEF StartElection, BroadcastAppendEntries, FetchCommitted, ApplyEntry,
         MaybeSnapshot, TakeSnapshot
    <3>. QED  BY <1>2, <3>1
  <2>. QED  BY <2>2, <2>3
<1>9. CASE ClientStep
  <2>1. commitIndex' = commitIndex
    BY <1>9 DEF ClientStep, Propose, ProposeReturn, ProposeTimeout
  <2>. QED  BY <1>2, <2>1
<1>. QED  BY <1>3, <1>7, <1>8, <1>9 DEF Next

\* The action of CommittedIsKept.
KeepsCommitted ==
  \A i \in Server :
    /\ SubSeq(log'[i], 1, commitIndex[i]) = SubSeq(log[i], 1, commitIndex[i])
    /\ restarts'[i] = restarts[i] => commitIndex'[i] >= commitIndex[i]

LEMMA StepKeepsCommitted ==
  ASSUME Plain, Plain', NoSnapshots', NEW H, NEW A, LogInv(H, A), [Next]_vars
  PROVE  KeepsCommitted
<1> SUFFICES ASSUME NEW i \in Server
             PROVE  /\ SubSeq(log'[i], 1, commitIndex[i]) = SubSeq(log[i], 1, commitIndex[i])
                    /\ restarts'[i] = restarts[i] => commitIndex'[i] >= commitIndex[i]
  BY DEF KeepsCommitted
<1>1. \/ commitIndex'[i] >= commitIndex[i]
      \/ log'[i] = log[i] /\ restarts'[i] # restarts[i]
  BY CommitsGrow
<1>2. CASE log'[i] = log[i] /\ restarts'[i] # restarts[i]
  BY <1>2
<1>3. PICK H2, A2 : HistoriesKept(H, A, H2, A2) /\ LogInv(H2, A2)'
  BY StepLogs
<1>4. PICK k : k = commitIndex[i]
  OBVIOUS
<1>5. PICK k2, L2 : k2 = commitIndex'[i] /\ L2 = log'[i]
  OBVIOUS
<1>6. /\ k \in Nat /\ k2 \in Nat
      /\ log[i] \in Seq(LogEntries) /\ L2 \in Seq(LogEntries)
      /\ Len(log[i]) \in Nat /\ Len(L2) \in Nat
  <2>1. LogTypeOK /\ LogTypeOK'
    BY DEF Plain, TypeInv, TypeOK
  <2>2. /\ k \in Nat /\ k2 \in Nat
        /\ log[i] \in Seq(LogEntries) /\ L2 \in Seq(LogEntries)
    BY <1>4, <1>5, <2>1 DEF LogTypeOK
  <2>. QED  BY <2>2
<1>7. CASE k2 >= k
  <2>1. CASE k = 0
    <3>1. Agree(log[i], L2, k)
      BY <1>6, <2>1 DEF Agree
    <3>. QED  BY <1>4, <1>5, <1>6, <1>7, <3>1, AgreeIsSame
  <2>2. CASE k > 0
    <3>1. PICK t, n : t \in Terms /\ Chosen(H, A, n, t) /\ k <= n /\ Agree(log[i], H[t], k)
      BY <1>4, <2>2 DEF LogInv, CommitsOK, CommittedUpTo
    <3>2. PICK u, m : u \in Terms /\ Chosen(H2, A2, m, u) /\ k2 <= m /\ Agree(L2, H2[u], k2)
      <4>1. k2 > 0
        BY <1>6, <1>7, <2>2
      <4>2. CommitsOK(H2, A2)'
        BY <1>3 DEF LogInv
      <4>. QED  BY <1>5, <4>1, <4>2 DEF CommitsOK, CommittedUpTo
    <3>3. Chosen(H2, A2, n, t)
      BY <1>3, <3>1 DEF HistoriesKept
    <3>4. /\ n \in Nat /\ m \in Nat
          /\ H[t] \in Seq(LogEntries) /\ H2[t] \in Seq(LogEntries) /\ H2[u] \in Seq(LogEntries)
          /\ Agree(H[t], H2[t], Len(H[t])) /\ Len(H[t]) \in Nat
      <4>1. n \in Nat /\ m \in Nat
        BY <3>1, <3>2 DEF Chosen, Created
      <4>2. H2 \in [Terms -> Seq(LogEntries)]
        BY <1>3 DEF LogInv, HistoryTyped
      <4>3. H[t] \in Seq(LogEntries) /\ Len(H[t]) \in Nat
        BY <3>1, HistoryParts
      <4>. QED  BY <1>3, <3>1, <3>2, <4>1, <4>2, <4>3 DEF HistoriesKept, LogsGrow
    <3>5. Agree(log[i], H2[t], k)
      BY <1>6, <3>1, <3>4, AgreeGrows
    <3>6. k <= m
      BY <1>6, <1>7, <3>2, <3>4
    <3>7. Agree(H2[t], H2[u], k)
      <4>1. ElectionInv'
        BY DEF Plain
      <4>2. ChosenAgree(H2, A2)
        BY <1>3, <4>1, ChosenNext
      <4>. QED  BY <1>6, <3>1, <3>2, <3>3, <3>6, <4>2 DEF ChosenAgree
    <3>8. Agree(L2, H2[u], k)
      BY <1>6, <1>7, <3>2, <3>4, AgreeShorter
    <3>9. Agree(log[i], L2, k)
      BY <3>5, <3>7, <3>8, AgreeSym, AgreeTrans
    <3>. QED  BY <1>4, <1>5, <1>6, <1>7, <3>9, AgreeIsSame
  <2>3. k = 0 \/ k > 0
    BY <1>6
  <2>. QED  BY <2>1, <2>2, <2>3
<1>. QED  BY <1>1, <1>2, <1>4, <1>5, <1>7

\* The consistency check and the append loop keep logs that agree at an entry equal
\* up to it, whatever requests arrive late, twice or out of order.
THEOREM LogsMatch == Spec => [](NoSnapshots => LogMatching)
<1>1. RestInv /\ LogHasHistory => (NoSnapshots => LogMatching)
  BY RestIsPlain, HistoryImpliesMatching DEF LogHasHistory
<1>. QED  BY <1>1, RestIsKept, HistoryExplainsLogs, PTL

\* No leader lacks an entry that was committed before it: the vote and the median of
\* the match indexes ask majorities that overlap.
THEOREM LeadersAreComplete == Spec => [](NoSnapshots => LeaderCompleteness)
<1>1. RestInv /\ LogHasHistory => (NoSnapshots => LeaderCompleteness)
  BY RestIsPlain, HistoryImpliesCompleteness DEF LogHasHistory
<1>. QED  BY <1>1, RestIsKept, HistoryExplainsLogs, PTL

\* A leader counts for a node of its term only what that node has.
THEOREM MatchIndexesAreTrue == Spec => [](NoSnapshots => MatchIndexIsTrue)
<1>1. RestInv /\ LogHasHistory => (NoSnapshots => MatchIndexIsTrue)
  BY RestIsPlain, HistoryImpliesMatchIndex DEF LogHasHistory
<1>. QED  BY <1>1, RestIsKept, HistoryExplainsLogs, PTL

\* No step that leaves everybody without a snapshot cuts a committed entry from a
\* log or takes a commit index back, but for a crash.
THEOREM CommittedStays == Spec /\ []NoSnapshots => CommittedIsKept
<1>1. ASSUME RestInv, RestInv', LogHasHistory, NoSnapshots, NoSnapshots', [Next]_vars
      PROVE  KeepsCommitted
  <2>1. Plain /\ Plain'
    BY <1>1 DEF RestInv, NoSnapshots, SnapshotsAreOnDisk, Plain
  <2>. QED  BY <1>1, <2>1, StepKeepsCommitted DEF LogHasHistory
<1>2. RestInv /\ RestInv' /\ LogHasHistory /\ NoSnapshots /\ NoSnapshots' /\ [Next]_vars
        => [KeepsCommitted]_vars
  BY <1>1
<1>3. CommittedIsKept <=> [][KeepsCommitted]_vars
  BY DEF CommittedIsKept, KeepsCommitted
<1>. QED  BY <1>2, <1>3, RestIsKept, HistoryExplainsLogs, PTL DEF Spec
=============================================================================
