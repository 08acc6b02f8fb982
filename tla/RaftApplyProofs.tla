-------------------------- MODULE RaftApplyProofs --------------------------
(***************************************************************************)
(* What the state machines and the clients get from the replicated log, as *)
(* long as nobody takes a snapshot, for every set of servers and every     *)
(* bound; with it, that Raft implements ReplicatedLog.                     *)
(***************************************************************************)
EXTENDS RaftLogSafety, RaftRefinement

-----------------------------------------------------------------------------
(* What a state machine has executed. *)

\* The state machine that has executed the commands before an entry executes it.
AfterEntry(M, entry) == IF entry.cmd = Nil THEN M ELSE Append(M, entry.cmd)

\* past goes through the states of a machine that executes the first k entries of L.
ExecutionOf(past, L, k) ==
  /\ past \in [0..k -> Seq(Command)]
  /\ past[0] = << >>
  /\ \A p \in 1..k : past[p] = AfterEntry(past[p - 1], L[p])

\* M is a state machine that has executed the first k entries of L.
Executes(M, L, k) == \E past : ExecutionOf(past, L, k) /\ past[k] = M

LEMMA NothingExecuted ==
  ASSUME NEW L
  PROVE  Executes(<< >>, L, 0)
<1> DEFINE past == [p \in 0..0 |-> << >>]
<1>1. past \in [0..0 -> Seq(Command)] /\ past[0] = << >> /\ 1..0 = {}
  <2>1. << >> \in Seq(Command) /\ 0 \in 0..0
    OBVIOUS
  <2>. QED  BY <2>1
<1> HIDE DEF past
<1>2. ExecutionOf(past, L, 0)
  BY <1>1 DEF ExecutionOf
<1>. QED  BY <1>1, <1>2 DEF Executes

LEMMA OneMoreExecuted ==
  ASSUME NEW M, NEW L \in Seq(LogEntries), NEW k \in Nat, k < Len(L), Executes(M, L, k)
  PROVE  Executes(AfterEntry(M, L[k + 1]), L, k + 1)
<1>1. PICK past : ExecutionOf(past, L, k) /\ past[k] = M
  BY DEF Executes
<1>2. /\ past \in [0..k -> Seq(Command)] /\ past[0] = << >>
      /\ \A p \in 1..k : past[p] = AfterEntry(past[p - 1], L[p])
  BY <1>1 DEF ExecutionOf
<1> DEFINE new == AfterEntry(M, L[k + 1])
           longer == [p \in 0..(k + 1) |-> IF p = k + 1 THEN new ELSE past[p]]
<1>3. M \in Seq(Command)
  <2>1. k \in 0..k
    OBVIOUS
  <2>. QED  BY <1>1, <1>2, <2>1
<1>4. new \in Seq(Command)
  <2>1. k + 1 \in 1..Len(L)
    OBVIOUS
  <2>2. L[k + 1] \in LogEntries
    BY <2>1, ElementOfSeq
  <2>3. L[k + 1].cmd \in Command \union {Nil}
    BY <2>2 DEF LogEntries
  <2>. QED  BY <1>3, <2>3, AppendProperties DEF AfterEntry
<1> HIDE DEF new
<1>5. /\ longer \in [0..(k + 1) -> Seq(Command)]
      /\ longer[k + 1] = new
      /\ \A p \in 0..k : longer[p] = past[p]
  <2>1. \A p \in 0..(k + 1) : p = k + 1 \/ p \in 0..k
    OBVIOUS
  <2>2. \A p \in 0..k : p \in 0..(k + 1) /\ p # k + 1
    OBVIOUS
  <2>3. k + 1 \in 0..(k + 1)
    OBVIOUS
  <2>4. longer \in [0..(k + 1) -> Seq(Command)]
    BY <1>2, <1>4, <2>1
  <2>. QED  BY <2>2, <2>3, <2>4
<1> HIDE DEF longer
<1>6. ASSUME NEW p \in 1..(k + 1)
      PROVE  longer[p] = AfterEntry(longer[p - 1], L[p])
  <2>1. p - 1 \in 0..k /\ (p = k + 1 => p - 1 = k) /\ (p # k + 1 => p \in 0..k /\ p \in 1..k)
    OBVIOUS
  <2>2. CASE p = k + 1
    <3>1. longer[p - 1] = M
      BY <1>1, <1>5, <2>1, <2>2
    <3>2. longer[p] = new
      BY <1>5, <2>2
    <3>. QED  BY <2>2, <3>1, <3>2 DEF new
  <2>3. CASE p # k + 1
    BY <1>2, <1>5, <2>1, <2>3
  <2>. QED  BY <2>2, <2>3
<1>7. longer[0] = << >>
  <2>1. 0 \in 0..k
    OBVIOUS
  <2>. QED  BY <1>2, <1>5, <2>1
<1>8. ExecutionOf(longer, L, k + 1)
  BY <1>5, <1>6, <1>7 DEF ExecutionOf
<1>. QED  BY <1>5, <1>8 DEF Executes, new

\* Only the entries matter that were executed.
LEMMA SameExecuted ==
  ASSUME NEW M, NEW L, NEW N, NEW k \in Nat, Executes(M, L, k), Agree(L, N, k)
  PROVE  Executes(M, N, k)
<1>1. PICK past : ExecutionOf(past, L, k) /\ past[k] = M
  BY DEF Executes
<1>2. \A p \in 1..k : L[p] = N[p]
  BY DEF Agree
<1>3. ExecutionOf(past, N, k)
  BY <1>1, <1>2 DEF ExecutionOf
<1>. QED  BY <1>1, <1>3 DEF Executes

LEMMA PrefixAppend ==
  ASSUME NEW s \in Seq(Command), NEW t \in Seq(Command), IsPrefix(s, t), NEW c \in Command
  PROVE  IsPrefix(s, Append(t, c))
<1>1. Len(s) \in Nat /\ Len(t) \in Nat /\ Len(s) <= Len(t) /\ Len(s) \in 0..Len(s)
      /\ Len(s) \in 0..Len(t)
  BY DEF IsPrefix
<1>2. Append(t, c) \in Seq(Command) /\ Len(Append(t, c)) = Len(t) + 1 /\ Agree(t, Append(t, c), Len(t))
  BY AppendExtends
<1>3. Len(s) \in 0..Len(Append(t, c))
  BY <1>1, <1>2
<1>4. /\ SubSeq(t, 1, Len(s)) \in Seq(Command) /\ Len(SubSeq(t, 1, Len(s))) = Len(s)
      /\ \A p \in 1..Len(s) : SubSeq(t, 1, Len(s))[p] = t[p]
  BY <1>1, FirstEntries
<1>5. /\ SubSeq(Append(t, c), 1, Len(s)) \in Seq(Command)
      /\ Len(SubSeq(Append(t, c), 1, Len(s))) = Len(s)
      /\ \A p \in 1..Len(s) : SubSeq(Append(t, c), 1, Len(s))[p] = Append(t, c)[p]
  BY <1>2, <1>3, FirstEntries
<1>6. \A p \in 1..Len(s) : Append(t, c)[p] = t[p]
  BY <1>1, <1>2 DEF Agree
<1>7. SubSeq(Append(t, c), 1, Len(s)) = SubSeq(t, 1, Len(s))
  <2> DEFINE u == SubSeq(Append(t, c), 1, Len(s))
             v == SubSeq(t, 1, Len(s))
  <2>1. /\ u \in Seq(Command) /\ v \in Seq(Command) /\ Len(u) = Len(v)
        /\ \A p \in 1..Len(u) : u[p] = v[p]
    BY <1>4, <1>5, <1>6
  <2> HIDE DEF u, v
  <2>2. u = v
    BY <2>1, SeqEqual
  <2>. QED  BY <2>2 DEF u, v
<1>. QED  BY <1>1, <1>2, <1>7 DEF IsPrefix

LEMMA PrefixSelf ==
  ASSUME NEW s \in Seq(Command)
  PROVE  IsPrefix(s, s)
  BY DEF IsPrefix

LEMMA PrefixEmpty ==
  ASSUME NEW s \in Seq(Command)
  PROVE  IsPrefix(<< >>, s)
<1>1. << >> \in Seq(Command) /\ Len(<< >>) = 0 /\ 0 \in 0..Len(s) /\ 0 \in 0..Len(<< >>)
  OBVIOUS
<1>2. SubSeq(s, 1, 0) \in Seq(Command) /\ Len(SubSeq(s, 1, 0)) = 0
  BY <1>1, FirstEntries
<1>3. SubSeq(<< >>, 1, 0) \in Seq(Command) /\ Len(SubSeq(<< >>, 1, 0)) = 0
  BY <1>1, FirstEntries
<1>4. SubSeq(s, 1, 0) = << >> /\ SubSeq(<< >>, 1, 0) = << >>
  BY <1>2, <1>3, EmptySeq
<1>. QED  BY <1>1, <1>4 DEF IsPrefix

\* The states of an execution grow, and the entries determine them.
LEMMA ExecutionGrows ==
  ASSUME NEW L \in Seq(LogEntries), NEW k \in Nat, NEW m \in Nat, k <= m, m <= Len(L),
         NEW past, ExecutionOf(past, L, k), NEW later, ExecutionOf(later, L, m)
  PROVE  IsPrefix(past[k], later[m])
<1>1. /\ past \in [0..k -> Seq(Command)] /\ past[0] = << >>
      /\ \A p \in 1..k : past[p] = AfterEntry(past[p - 1], L[p])
      /\ later \in [0..m -> Seq(Command)] /\ later[0] = << >>
      /\ \A p \in 1..m : later[p] = AfterEntry(later[p - 1], L[p])
  BY DEF ExecutionOf
<1> DEFINE S == {p \in Nat : p <= k => past[p] = later[p]}
           R == {p \in Nat : k <= p /\ p <= m => IsPrefix(past[k], later[p])}
<1>2. 0 \in S
  BY <1>1
<1>3. ASSUME NEW p \in Nat, p \in S
      PROVE  p + 1 \in S
  <2>1. CASE p + 1 <= k
    <3>1. p + 1 \in 1..k /\ p + 1 \in 1..m /\ (p + 1) - 1 = p /\ past[p] = later[p]
      BY <1>3, <2>1
    <3>2. past[p + 1] = AfterEntry(past[p], L[p + 1]) /\ later[p + 1] = AfterEntry(later[p], L[p + 1])
      BY <1>1, <3>1
    <3>. QED  BY <3>1, <3>2
  <2>. QED  BY <2>1
<1>4. Nat \subseteq S
  <2> HIDE DEF S
  <2>. QED  BY <1>2, <1>3, NatSetInduction
<1>5. past[k] = later[k] /\ past[k] \in Seq(Command)
  <2>1. k \in 0..k
    OBVIOUS
  <2>. QED  BY <1>1, <1>4, <2>1
<1>6. 0 \in R
  <2>1. CASE k = 0
    BY <1>1, <1>5, <2>1, PrefixSelf
  <2>. QED  BY <2>1
<1>7. ASSUME NEW p \in Nat, p \in R
      PROVE  p + 1 \in R
  <2>1. CASE k = p + 1
    BY <1>5, <2>1, PrefixSelf
  <2>2. CASE k <= p /\ p + 1 <= m
    <3>1. p + 1 \in 1..m /\ p + 1 \in 1..Len(L) /\ (p + 1) - 1 = p /\ p \in 0..m
          /\ IsPrefix(past[k], later[p])
      BY <1>7, <2>2
    <3>2. later[p] \in Seq(Command) /\ later[p + 1] = AfterEntry(later[p], L[p + 1])
      BY <1>1, <3>1
    <3>3. L[p + 1].cmd \in Command \union {Nil}
      <4>1. L[p + 1] \in LogEntries
        BY <3>1, ElementOfSeq
      <4>. QED  BY <4>1 DEF LogEntries
    <3>4. IsPrefix(past[k], later[p + 1])
      BY <1>5, <3>1, <3>2, <3>3, PrefixAppend DEF AfterEntry
    <3>. QED  BY <3>4
  <2>3. CASE ~(k = p + 1) /\ ~(k <= p /\ p + 1 <= m)
    BY <2>3
  <2>. QED  BY <2>1, <2>2, <2>3
<1>8. Nat \subseteq R
  <2> HIDE DEF R
  <2>. QED  BY <1>6, <1>7, NatSetInduction
<1>. QED  BY <1>8

\* Of two machines that execute one log, one is a prefix of the other.
LEMMA ExecutedPrefix ==
  ASSUME NEW L \in Seq(LogEntries), NEW k \in Nat, NEW m \in Nat, k <= m, m <= Len(L),
         NEW M, Executes(M, L, k), NEW N, Executes(N, L, m)
  PROVE  IsPrefix(M, N)
  BY ExecutionGrows DEF Executes

-----------------------------------------------------------------------------
(* What a node has applied is chosen. *)

\* A machine that has executed the first k entries, with B the entries that its
\* apply loop holds: both come from the log of a leader, before a chosen entry.
Applied(H, A, k, M, B) ==
  \/ k = 0 /\ M = << >> /\ B = << >>
  \/ \E t \in Terms : \E n \in Created(H, t) :
       /\ Chosen(H, A, n, t)
       /\ k + Len(B) <= n
       /\ Executes(M, H[t], k)
       /\ \A p \in 1..Len(B) : B[p] = H[t][k + p]

ChosenIsApplied(H, A) ==
  \A i \in Server : Applied(H, A, lastApplied[i], machine[i], applying[i])

\* H and A are what the invariant makes of them: logs, and numbers.
LogsAreTyped(H) == \A t \in Terms : t \in Nat /\ H[t] \in Seq(LogEntries) /\ Len(H[t]) \in Nat

LEMMA AppliedGrows ==
  ASSUME NEW H, NEW A, NEW H2, NEW A2, LogsAreTyped(H), LogsAreTyped(H2),
         HistoriesKept(H, A, H2, A2),
         NEW k \in Nat, NEW M, NEW B \in Seq(LogEntries), Applied(H, A, k, M, B)
  PROVE  Applied(H2, A2, k, M, B)
<1>1. CASE k = 0 /\ M = << >> /\ B = << >>
  BY <1>1 DEF Applied
<1>2. CASE ~(k = 0 /\ M = << >> /\ B = << >>)
  <2>1. PICK t \in Terms : \E n \in Created(H, t) :
          /\ Chosen(H, A, n, t)
          /\ k + Len(B) <= n
          /\ Executes(M, H[t], k)
          /\ \A p \in 1..Len(B) : B[p] = H[t][k + p]
    BY <1>2 DEF Applied
  <2>2. PICK n \in Created(H, t) :
          /\ Chosen(H, A, n, t)
          /\ k + Len(B) <= n
          /\ Executes(M, H[t], k)
          /\ \A p \in 1..Len(B) : B[p] = H[t][k + p]
    BY <2>1
  <2>3. Chosen(H2, A2, n, t) /\ Agree(H[t], H2[t], Len(H[t])) /\ n \in Created(H2, t)
    BY <2>2 DEF HistoriesKept, LogsGrow, Chosen
  <2>4. /\ H[t] \in Seq(LogEntries) /\ H2[t] \in Seq(LogEntries) /\ Len(H[t]) \in Nat
        /\ Len(B) \in Nat /\ n \in Nat /\ n <= Len(H[t])
    BY <2>2 DEF LogsAreTyped, Created
  <2>5. k <= Len(H[t]) /\ \A p \in 1..Len(B) : k + p \in 1..Len(H[t])
    BY <2>2, <2>4
  <2>6. Executes(M, H2[t], k)
    BY <2>2, <2>3, <2>4, <2>5, AgreeShorter, SameExecuted
  <2>7. \A p \in 1..Len(B) : B[p] = H2[t][k + p]
    BY <2>2, <2>3, <2>5 DEF Agree
  <2>. QED  BY <2>2, <2>3, <2>6, <2>7 DEF Applied
<1>. QED  BY <1>1, <1>2

\* FetchCommitted: a log that is committed up to c continues what was applied.
LEMMA AppliedFetch ==
  ASSUME NEW H, NEW A, LogsAreTyped(H), ChosenAgree(H, A),
         NEW k \in Nat, NEW M, Applied(H, A, k, M, << >>),
         NEW L \in Seq(LogEntries), NEW u, NEW c \in Nat, c > k, CommittedUpTo(H, A, L, u, c)
  PROVE  Applied(H, A, k, M, SubSeq(L, k + 1, c)) /\ c <= Len(L)
<1>1. PICK t \in Terms : \E n \in Created(H, t) :
        Chosen(H, A, n, t) /\ c <= n /\ Agree(L, H[t], c)
  BY DEF CommittedUpTo
<1>2. PICK n \in Created(H, t) : Chosen(H, A, n, t) /\ c <= n /\ Agree(L, H[t], c)
  BY <1>1
<1>3. /\ H[t] \in Seq(LogEntries) /\ Len(H[t]) \in Nat /\ Len(L) \in Nat /\ n \in Nat
      /\ n <= Len(H[t]) /\ c <= Len(L)
  BY <1>2 DEF LogsAreTyped, Created, Agree
<1> DEFINE B == SubSeq(L, k + 1, c)
<1>4. /\ Len(B) = c - k
      /\ \A p \in 1..(c - k) : B[p] = L[k + p]
  <2>1. k + 1 \in Int /\ c \in Int /\ \A p \in (k + 1)..c : L[p] \in LogEntries
    <3>1. \A p \in (k + 1)..c : p \in 1..Len(L)
      BY <1>3
    <3>. QED  BY <3>1, ElementOfSeq
  <2>2. /\ Len(SubSeq(L, k + 1, c)) = IF k + 1 <= c THEN c - (k + 1) + 1 ELSE 0
        /\ \A p \in 1..(c - (k + 1) + 1) : SubSeq(L, k + 1, c)[p] = L[(k + 1) + p - 1]
    BY <2>1, SubSeqProperties
  <2>. QED  BY <2>2
<1> HIDE DEF B
<1>5. \A p \in 1..Len(B) : B[p] = H[t][k + p]
  <2>1. \A p \in 1..(c - k) : k + p \in 1..c
    OBVIOUS
  <2>. QED  BY <1>2, <1>4, <2>1 DEF Agree
<1>6. Executes(M, H[t], k)
  <2>1. CASE k = 0 /\ M = << >>
    BY <2>1, NothingExecuted
  <2>2. CASE ~(k = 0 /\ M = << >>)
    <3>1. PICK r \in Terms : \E m \in Created(H, r) :
            Chosen(H, A, m, r) /\ k + Len(<< >>) <= m /\ Executes(M, H[r], k)
      BY <2>2 DEF Applied
    <3>2. PICK m \in Created(H, r) :
            Chosen(H, A, m, r) /\ k + Len(<< >>) <= m /\ Executes(M, H[r], k)
      BY <3>1
    <3>3. m \in Nat /\ k <= m /\ k <= n
      BY <1>2, <1>3, <3>2 DEF Created
    <3>4. Agree(H[r], H[t], k)
      BY <1>2, <3>2, <3>3 DEF ChosenAgree
    <3>. QED  BY <3>2, <3>4, SameExecuted
  <2>. QED  BY <2>1, <2>2
<1>7. k + Len(B) <= n
  BY <1>2, <1>3, <1>4
<1>. QED  BY <1>2, <1>3, <1>5, <1>6, <1>7 DEF Applied, B

\* ApplyEntry: the machine executes the first of the entries at hand, which is at its
\* place.
LEMMA AppliedEntry ==
  ASSUME NEW H, NEW A, LogsAreTyped(H), \A t \in Terms : GoodLog(H, H[t]),
         NEW k \in Nat, NEW M, NEW B \in Seq(LogEntries), B # << >>, Applied(H, A, k, M, B)
  PROVE  /\ Head(B).index = k + 1
         /\ Applied(H, A, k + 1, AfterEntry(M, Head(B)), Tail(B))
         /\ \E t \in Terms : \E n \in Created(H, t) :
              Chosen(H, A, n, t) /\ k + 1 <= n /\ H[t][k + 1] = Head(B)
<1>1. PICK t \in Terms : \E n \in Created(H, t) :
        /\ Chosen(H, A, n, t)
        /\ k + Len(B) <= n
        /\ Executes(M, H[t], k)
        /\ \A p \in 1..Len(B) : B[p] = H[t][k + p]
  BY DEF Applied
<1>2. PICK n \in Created(H, t) :
        /\ Chosen(H, A, n, t)
        /\ k + Len(B) <= n
        /\ Executes(M, H[t], k)
        /\ \A p \in 1..Len(B) : B[p] = H[t][k + p]
  BY <1>1
<1>3. /\ H[t] \in Seq(LogEntries) /\ Len(H[t]) \in Nat /\ n \in Nat /\ n <= Len(H[t])
      /\ Len(B) \in Nat /\ Len(B) # 0
  BY <1>2, EmptySeq DEF LogsAreTyped, Created
<1>4. 1 \in 1..Len(B) /\ k + 1 <= n /\ k + 1 \in 1..Len(H[t]) /\ k < Len(H[t])
  BY <1>2, <1>3
<1>5. Head(B) = H[t][k + 1]
  <2>1. Head(B) = B[1]
    BY HeadTailProperties
  <2>. QED  BY <1>2, <1>4, <2>1
<1>6. Head(B).index = k + 1
  BY <1>4, <1>5 DEF GoodLog
<1>7. Executes(AfterEntry(M, Head(B)), H[t], k + 1)
  BY <1>2, <1>3, <1>4, <1>5, OneMoreExecuted
<1>8. /\ Len(Tail(B)) = Len(B) - 1
      /\ \A p \in 1..(Len(B) - 1) : Tail(B)[p] = B[p + 1]
  BY HeadTailProperties
<1>9. \A p \in 1..Len(Tail(B)) : Tail(B)[p] = H[t][(k + 1) + p]
  <2>1. \A p \in 1..(Len(B) - 1) : p + 1 \in 1..Len(B) /\ k + (p + 1) = (k + 1) + p
    BY <1>3
  <2>. QED  BY <1>2, <1>8, <2>1
<1>10. (k + 1) + Len(Tail(B)) <= n
  BY <1>2, <1>3, <1>8
<1>11. Applied(H, A, k + 1, AfterEntry(M, Head(B)), Tail(B))
  BY <1>2, <1>7, <1>9, <1>10 DEF Applied
<1>. QED  BY <1>2, <1>4, <1>5, <1>6, <1>11

\* What a step may do to the state machines and the proposals.
LEMMA StepKinds ==
  ASSUME TypeInv, [Next]_vars
  PROVE  \/ UNCHANGED <<lastApplied, machine, applying, clientVars>>
         \/ \E i \in Server : FetchCommitted(i)
         \/ \E i \in Server : ApplyEntry(i)
         \/ \E i \in Server : \E left : Reboot(i, left)
         \/ \E cmd \in Command : \E i \in Server : Propose(i, cmd)
         \/ \E cmd \in Command : ProposeReturn(cmd) \/ ProposeTimeout(cmd)
<1>1. CASE UNCHANGED vars
  BY <1>1 DEF vars, applyVars
<1>2. CASE CallStep
  BY <1>2, CallEffects DEF TypeInv, TypeOK, applyVars
<1>3. CASE NodeStep
  <2>1. PICK i \in Server :
          \/ StartElection(i)
          \/ BroadcastAppendEntries(i)
          \/ FetchCommitted(i)
          \/ ApplyEntry(i)
          \/ MaybeSnapshot(i)
          \/ TakeSnapshot(i)
          \/ Crash(i)
          \/ CrashInSnapshot(i)
    BY <1>3 DEF NodeStep
  <2>2. CASE StartElection(i) \/ BroadcastAppendEntries(i)
    BY <2>2 DEF StartElection, BroadcastAppendEntries, applyVars
  <2>3. CASE MaybeSnapshot(i) \/ TakeSnapshot(i)
    BY <2>3 DEF MaybeSnapshot, TakeSnapshot
  <2>4. CASE Crash(i) \/ CrashInSnapshot(i)
    BY <2>4 DEF Crash, CrashInSnapshot
  <2>. QED  BY <2>1, <2>2, <2>3, <2>4
<1>4. CASE ClientStep
  BY <1>4 DEF ClientStep
<1>. QED  BY <1>1, <1>2, <1>3, <1>4 DEF Next

LEMMA WholeBetween ==
  ASSUME NEW L \in Seq(LogEntries), NEW k \in Nat, NEW c \in Nat, c <= Len(L)
  PROVE  EntriesBetween(L, 0, k + 1, c) = SubSeq(L, k + 1, c)
<1>1. /\ LogicalToPhysical(k + 1, 0) = k + 1 /\ LogicalToPhysical(c, 0) = c
      /\ ~(k + 1 < 1) /\ ~(c > Len(L))
  BY DEF LogicalToPhysical
<1>. QED  BY <1>1 DEF EntriesBetween

LEMMA ApplyingStep ==
  ASSUME Plain, Plain', NoSnapshots', SnapshotsAreOnDisk', [Next]_vars,
         NEW H, NEW A, LogInv(H, A), ChosenIsApplied(H, A), NEW i \in Server
  PROVE  Applied(H, A, lastApplied'[i], machine'[i], applying'[i])
<1>1. /\ lastApplied \in [Server -> Nat] /\ machine \in [Server -> Seq(Command)]
      /\ applying \in [Server -> Seq(LogEntries)] /\ log \in [Server -> Seq(LogEntries)]
      /\ commitIndex \in [Server -> Nat]
      /\ applyPhase[i] = "idle" => applying[i] = << >>
  BY PlainParts DEF ApplyTypeOK, LogTypeOK
<1>2. Applied(H, A, lastApplied[i], machine[i], applying[i])
  BY DEF ChosenIsApplied
<1>3. LogsAreTyped(H) /\ ChosenAgree(H, A) /\ \A t \in Terms : GoodLog(H, H[t])
  <2>1. LogsAreTyped(H)
    BY HistoryParts DEF LogsAreTyped
  <2>2. ChosenAgree(H, A)
    BY PlainParts, ChosenNow
  <2>. QED  BY <2>1, <2>2 DEF LogInv, LeaderLogs
<1>4. ASSUME /\ lastApplied'[i] = lastApplied[i] /\ machine'[i] = machine[i]
             /\ applying'[i] = applying[i]
      PROVE  Applied(H, A, lastApplied'[i], machine'[i], applying'[i])
  BY <1>2, <1>4
<1>5. ASSUME NEW j \in Server, FetchCommitted(j)
      PROVE  Applied(H, A, lastApplied'[i], machine'[i], applying'[i])
  <2> DEFINE B == EntriesBetween(log[j], snapshotIndex[j], lastApplied[j] + 1, commitIndex[j])
  <2>1. /\ applyPhase[j] = "idle" /\ commitIndex[j] > lastApplied[j]
        /\ applying' = [applying EXCEPT ![j] = B]
        /\ lastApplied' = lastApplied /\ machine' = machine
    BY <1>5 DEF FetchCommitted
  <2> HIDE DEF B
  <2>2. CASE i # j
    BY <1>1, <1>4, <2>1, <2>2
  <2>3. CASE i = j
    <3>1. applying[i] = << >> /\ applying'[i] = B /\ lastApplied[i] \in Nat
          /\ commitIndex[i] \in Nat /\ log[i] \in Seq(LogEntries)
      BY <1>1, <2>1, <2>3
    <3>2. CommittedUpTo(H, A, log[i], currentTerm[i], commitIndex[i])
      BY DEF LogInv, CommitsOK
    <3>3. /\ Applied(H, A, lastApplied[i], machine[i],
                     SubSeq(log[i], lastApplied[i] + 1, commitIndex[i]))
          /\ commitIndex[i] <= Len(log[i])
      BY <1>2, <1>3, <2>1, <2>3, <3>1, <3>2, AppliedFetch
    <3>4. B = SubSeq(log[i], lastApplied[i] + 1, commitIndex[i])
      <4>1. snapshotIndex[i] = 0 /\ Len(log[i]) \in Nat
        BY <3>1 DEF Plain
      <4>. QED  BY <2>3, <3>1, <3>3, <4>1, WholeBetween DEF B
    <3>. QED  BY <2>1, <3>1, <3>3, <3>4
  <2>. QED  BY <2>2, <2>3
<1>6. ASSUME NEW j \in Server, ApplyEntry(j)
      PROVE  Applied(H, A, lastApplied'[i], machine'[i], applying'[i])
  <2> DEFINE entry == Head(applying[j])
  <2>1. /\ applyPhase[j] = "apply"
        /\ machine' = [machine EXCEPT ![j] = AfterEntry(machine[j], entry)]
        /\ lastApplied' = [lastApplied EXCEPT ![j] = entry.index]
        /\ applying' = [applying EXCEPT ![j] = Tail(applying[j])]
    BY <1>6 DEF ApplyEntry, AfterEntry
  <2> HIDE DEF entry
  <2>2. CASE i # j
    BY <1>1, <1>4, <2>1, <2>2
  <2>3. CASE i = j
    <3>1. applying[i] # << >> /\ applying[i] \in Seq(LogEntries) /\ lastApplied[i] \in Nat
      BY <1>1, <2>1, <2>3, PlainParts DEF ApplyTypeOK
    <3>2. /\ Head(applying[i]).index = lastApplied[i] + 1
          /\ Applied(H, A, lastApplied[i] + 1, AfterEntry(machine[i], Head(applying[i])),
                     Tail(applying[i]))
      BY <1>2, <1>3, <3>1, AppliedEntry
    <3>3. /\ machine'[i] = AfterEntry(machine[i], entry) /\ lastApplied'[i] = entry.index
          /\ applying'[i] = Tail(applying[i])
      BY <1>1, <2>1, <2>3
    <3>. QED  BY <2>3, <3>2, <3>3 DEF entry
  <2>. QED  BY <2>2, <2>3
<1>7. ASSUME NEW j \in Server, NEW left, Reboot(j, left)
      PROVE  Applied(H, A, lastApplied'[i], machine'[i], applying'[i])
  <2>1. /\ lastApplied' = [lastApplied EXCEPT ![j] = snapshotIndex[j]]
        /\ machine' = [machine EXCEPT ![j] = snapshotFile'[j].data]
        /\ applying' = [applying EXCEPT ![j] = << >>]
    BY <1>7 DEF Reboot
  <2>2. CASE i # j
    BY <1>1, <1>4, <2>1, <2>2
  <2>3. CASE i = j
    <3>1. snapshotIndex[i] = 0 /\ snapshotFile'[i].data = << >>
      BY DEF Plain, NoSnapshots, SnapshotsAreOnDisk
    <3>. QED  BY <1>1, <2>1, <2>3, <3>1 DEF Applied
  <2>. QED  BY <2>2, <2>3
<1>8. CASE UNCHANGED <<lastApplied, machine, applying>>
  BY <1>4, <1>8
<1>9. ASSUME NEW cmd \in Command, (\E j \in Server : Propose(j, cmd)) \/ ProposeReturn(cmd) \/ ProposeTimeout(cmd)
      PROVE  UNCHANGED <<lastApplied, machine, applying>>
  BY <1>9 DEF Propose, ProposeReturn, ProposeTimeout, applyVars
<1>. QED  BY <1>5, <1>6, <1>7, <1>8, <1>9, StepKinds, PlainParts

LEMMA AppliesStep ==
  ASSUME Plain, Plain', NoSnapshots', SnapshotsAreOnDisk', [Next]_vars,
         NEW H, NEW A, LogInv(H, A), ChosenIsApplied(H, A),
         NEW H2, NEW A2, HistoriesKept(H, A, H2, A2), LogInv(H2, A2)'
  PROVE  ChosenIsApplied(H2, A2)'
<1> SUFFICES ASSUME NEW i \in Server
             PROVE  Applied(H2, A2, lastApplied'[i], machine'[i], applying'[i])
  BY DEF ChosenIsApplied
<1>1. Applied(H, A, lastApplied'[i], machine'[i], applying'[i])
  BY ApplyingStep
<1>2. ApplyTypeOK'
  BY DEF Plain, TypeInv, TypeOK
<1>3. PICK k, M, B : k = lastApplied'[i] /\ M = machine'[i] /\ B = applying'[i]
  OBVIOUS
<1>4. k \in Nat /\ B \in Seq(LogEntries)
  BY <1>2, <1>3 DEF ApplyTypeOK
<1>5. LogsAreTyped(H) /\ LogsAreTyped(H2)
  <2>1. LogsAreTyped(H)
    BY HistoryParts DEF LogsAreTyped
  <2>2. H2 \in [Terms -> Seq(LogEntries)]
    BY DEF LogInv, HistoryTyped
  <2>3. \A t \in Terms : t \in Nat /\ H2[t] \in Seq(LogEntries)
    BY <2>2 DEF Terms
  <2>. QED  BY <2>1, <2>3 DEF LogsAreTyped
<1>. QED  BY <1>1, <1>3, <1>4, <1>5, AppliedGrows

LEMMA AppliedImpliesSafety ==
  ASSUME Plain, NEW H, NEW A, LogInv(H, A), ChosenIsApplied(H, A)
  PROVE  StateMachineSafety
<1>1. /\ lastApplied \in [Server -> Nat] /\ machine \in [Server -> Seq(Command)]
      /\ applying \in [Server -> Seq(LogEntries)]
  BY PlainParts DEF ApplyTypeOK
<1>2. LogsAreTyped(H) /\ ChosenAgree(H, A)
  BY HistoryParts, PlainParts, ChosenNow DEF LogsAreTyped
<1>3. ASSUME NEW i \in Server, NEW j \in Server, lastApplied[i] <= lastApplied[j]
      PROVE  IsPrefix(machine[i], machine[j])
  <2>1. CASE lastApplied[i] = 0 /\ machine[i] = << >> /\ applying[i] = << >>
    <3>1. machine[j] \in Seq(Command)
      BY <1>1
    <3>. QED  BY <2>1, <3>1, PrefixEmpty
  <2>2. CASE ~(lastApplied[i] = 0 /\ machine[i] = << >> /\ applying[i] = << >>)
    <3> DEFINE k == lastApplied[i]
               m == lastApplied[j]
    <3>1. PICK t \in Terms : \E n \in Created(H, t) :
            Chosen(H, A, n, t) /\ k + Len(applying[i]) <= n /\ Executes(machine[i], H[t], k)
      BY <2>2 DEF ChosenIsApplied, Applied
    <3>2. PICK n \in Created(H, t) :
            Chosen(H, A, n, t) /\ k + Len(applying[i]) <= n /\ Executes(machine[i], H[t], k)
      BY <3>1
    <3>3. /\ k \in Nat /\ m \in Nat /\ k <= m /\ n \in Nat /\ n <= Len(H[t])
          /\ Len(applying[i]) \in Nat /\ Len(applying[j]) \in Nat /\ k <= n
          /\ H[t] \in Seq(LogEntries) /\ Len(H[t]) \in Nat
      <4>1. /\ k \in Nat /\ m \in Nat /\ k <= m /\ n \in Nat /\ n <= Len(H[t])
            /\ H[t] \in Seq(LogEntries) /\ Len(H[t]) \in Nat
            /\ applying[i] \in Seq(LogEntries) /\ applying[j] \in Seq(LogEntries)
        BY <1>1, <1>2, <1>3, <3>2 DEF LogsAreTyped, Created
      <4>2. Len(applying[i]) \in Nat /\ Len(applying[j]) \in Nat
        BY <4>1
      <4>. QED  BY <3>2, <4>1, <4>2
    <3>4. CASE m = 0 /\ machine[j] = << >> /\ applying[j] = << >>
      <4>1. k = 0
        BY <3>3, <3>4
      <4>2. Executes(machine[j], H[t], m)
        BY <3>4, NothingExecuted
      <4>. QED  BY <3>2, <3>3, <3>4, <4>1, <4>2, ExecutedPrefix
    <3>5. CASE ~(m = 0 /\ machine[j] = << >> /\ applying[j] = << >>)
      <4>1. PICK u \in Terms : \E q \in Created(H, u) :
              Chosen(H, A, q, u) /\ m + Len(applying[j]) <= q /\ Executes(machine[j], H[u], m)
        BY <3>5 DEF ChosenIsApplied, Applied
      <4>2. PICK q \in Created(H, u) :
              Chosen(H, A, q, u) /\ m + Len(applying[j]) <= q /\ Executes(machine[j], H[u], m)
        BY <4>1
      <4>3. q \in Nat /\ q <= Len(H[u]) /\ H[u] \in Seq(LogEntries) /\ Len(H[u]) \in Nat
        BY <1>2, <4>2 DEF LogsAreTyped, Created
      <4>4. m <= q /\ k <= q /\ m <= Len(H[u])
        BY <3>3, <4>2, <4>3
      <4>5. Agree(H[t], H[u], k)
        BY <1>2, <3>2, <3>3, <4>2, <4>4 DEF ChosenAgree
      <4>6. Executes(machine[i], H[u], k)
        BY <3>2, <3>3, <4>5, SameExecuted
      <4>. QED  BY <3>3, <4>2, <4>3, <4>4, <4>6, ExecutedPrefix
    <3>. QED  BY <3>4, <3>5
  <2>. QED  BY <2>1, <2>2
<1>4. \A i, j \in Server : lastApplied[i] <= lastApplied[j] \/ lastApplied[j] <= lastApplied[i]
  BY <1>1
<1>. QED  BY <1>3, <1>4 DEF StateMachineSafety

-----------------------------------------------------------------------------
(* Proposals. *)

EntryOf(p, cmd) == [term |-> p.term, index |-> p.index, cmd |-> cmd]

\* The entry is at position k before a chosen one.
ChosenAt(H, A, k, entry) ==
  \E t \in Terms : \E n \in Created(H, t) :
    Chosen(H, A, n, t) /\ k \in 1..n /\ H[t][k] = entry

\* A proposal is in the log of the leader that made it, and chosen once its proposer
\* has a result.
ProposalOK(H, A, p, cmd) ==
  p # Idle =>
    /\ p.term \in Terms
    /\ p.index \in 1..Len(H[p.term])
    /\ H[p.term][p.index] = EntryOf(p, cmd)
    /\ p.status \in {"notified", "done"} => ChosenAt(H, A, p.index, EntryOf(p, cmd))

ProposalsOK(H, A) == \A cmd \in Command : ProposalOK(H, A, proposal[cmd], cmd)

PendingIsInPlace ==
  \A i \in Server : \A n \in DOMAIN pendingProposals[i] :
    LET p == proposal[pendingProposals[i][n]] IN p.index = n /\ p.node = i

\* WaitingIsPending without the conditions on the log, which it does not need.
AloneIsPending ==
  \A cmd \in Command :
    LET i == proposal[cmd].node
        n == proposal[cmd].index
    IN  /\ proposal[cmd].status = "waiting"
        /\ n > lastApplied[i]
        /\ \A other \in Command \ {cmd} :
             proposal[other].node = i => proposal[other].index # n
        => n \in DOMAIN pendingProposals[i] /\ pendingProposals[i][n] = cmd

LEMMA ChosenAtGrows ==
  ASSUME NEW H, NEW A, NEW H2, NEW A2, LogsAreTyped(H), HistoriesKept(H, A, H2, A2),
         NEW k, NEW entry, ChosenAt(H, A, k, entry)
  PROVE  ChosenAt(H2, A2, k, entry)
<1>1. PICK t \in Terms : \E n \in Created(H, t) :
        Chosen(H, A, n, t) /\ k \in 1..n /\ H[t][k] = entry
  BY DEF ChosenAt
<1>2. PICK n \in Created(H, t) : Chosen(H, A, n, t) /\ k \in 1..n /\ H[t][k] = entry
  BY <1>1
<1>3. Chosen(H2, A2, n, t) /\ Agree(H[t], H2[t], Len(H[t])) /\ n \in Created(H2, t)
  BY <1>2 DEF HistoriesKept, LogsGrow, Chosen
<1>4. k \in 1..Len(H[t])
  <2>1. Len(H[t]) \in Nat /\ n \in Nat /\ n <= Len(H[t])
    BY <1>2 DEF LogsAreTyped, Created
  <2>. QED  BY <1>2, <2>1
<1>5. H2[t][k] = entry
  BY <1>2, <1>3, <1>4 DEF Agree
<1>. QED  BY <1>2, <1>3, <1>5 DEF ChosenAt

LEMMA ProposalGrows ==
  ASSUME NEW H, NEW A, NEW H2, NEW A2, LogsAreTyped(H), LogsAreTyped(H2),
         HistoriesKept(H, A, H2, A2), NEW p, NEW cmd, ProposalOK(H, A, p, cmd)
  PROVE  ProposalOK(H2, A2, p, cmd)
<1> SUFFICES ASSUME p # Idle
             PROVE  /\ p.term \in Terms
                    /\ p.index \in 1..Len(H2[p.term])
                    /\ H2[p.term][p.index] = EntryOf(p, cmd)
                    /\ p.status \in {"notified", "done"} =>
                         ChosenAt(H2, A2, p.index, EntryOf(p, cmd))
  BY DEF ProposalOK
<1>1. /\ p.term \in Terms /\ p.index \in 1..Len(H[p.term])
      /\ H[p.term][p.index] = EntryOf(p, cmd)
      /\ p.status \in {"notified", "done"} => ChosenAt(H, A, p.index, EntryOf(p, cmd))
  BY DEF ProposalOK
<1>2. Agree(H[p.term], H2[p.term], Len(H[p.term]))
  BY <1>1 DEF HistoriesKept, LogsGrow
<1>3. Len(H[p.term]) \in Nat /\ Len(H2[p.term]) \in Nat
  BY <1>1 DEF LogsAreTyped
<1>4. p.index \in 1..Len(H2[p.term]) /\ H2[p.term][p.index] = EntryOf(p, cmd)
  BY <1>1, <1>2, <1>3 DEF Agree
<1>. QED  BY <1>1, <1>4, ChosenAtGrows

LEMMA StatusKeeps ==
  ASSUME NEW H, NEW A, NEW p \in ProposalRecords, NEW cmd, ProposalOK(H, A, p, cmd),
         NEW s \in {"waiting", "notified", "done", "failed"}, p # Idle,
         s \in {"notified", "done"} => ChosenAt(H, A, p.index, EntryOf(p, cmd))
  PROVE  ProposalOK(H, A, [p EXCEPT !.status = s], cmd)
<1> DEFINE q == [p EXCEPT !.status = s]
<1>1. q.term = p.term /\ q.index = p.index /\ q.status = s
  BY DEF ProposalRecords
<1> HIDE DEF q
<1>2. EntryOf(q, cmd) = EntryOf(p, cmd)
  BY <1>1 DEF EntryOf
<1>3. ProposalOK(H, A, q, cmd)
  BY <1>1, <1>2 DEF ProposalOK
<1>. QED  BY <1>3 DEF q

\* The steps other than Propose change at most the status of a proposal.
Moves(cmd) ==
  \E s \in {"notified", "done", "failed"} :
    /\ proposal[cmd] # Idle
    /\ proposal'[cmd] = [proposal[cmd] EXCEPT !.status = s]
    /\ s = "done" => proposal[cmd].status = "notified"
    /\ s = "notified" =>
         \E i \in Server : LET entry == Head(applying[i]) IN
           /\ ApplyEntry(i)
           /\ entry.index \in DOMAIN pendingProposals[i]
           /\ cmd = pendingProposals[i][entry.index]
           /\ Answers(entry, cmd)

NotPropose ==
  \/ UNCHANGED <<lastApplied, machine, applying, clientVars>>
  \/ \E i \in Server : FetchCommitted(i)
  \/ \E i \in Server : ApplyEntry(i)
  \/ \E i \in Server : \E left : Reboot(i, left)
  \/ \E cmd \in Command : ProposeReturn(cmd) \/ ProposeTimeout(cmd)

LEMMA ProposalTyped ==
  ASSUME TypeInv
  PROVE  /\ \A cmd \in Command : proposal[cmd] # Idle => proposal[cmd] \in ProposalRecords
         /\ proposal \in [Command -> {Idle} \union ProposalRecords]
         /\ DOMAIN pendingProposals = Server
         /\ \A i \in Server : \A n \in DOMAIN pendingProposals[i] :
              /\ n \in Nat
              /\ pendingProposals[i][n] \in Command
              /\ proposal[pendingProposals[i][n]] # Idle
         /\ \A cmd \in Command :
              proposal[cmd].status \in {"waiting", "notified", "done", "failed"}
                => proposal[cmd] # Idle
<1>1. proposal \in [Command -> {Idle} \union ProposalRecords]
  BY DEF TypeInv, TypeOK, ClientTypeOK, ProposalRecords
<1>2. /\ DOMAIN pendingProposals = Server
      /\ \A i \in Server : \A n \in DOMAIN pendingProposals[i] :
              /\ n \in Nat
              /\ pendingProposals[i][n] \in Command
              /\ proposal[pendingProposals[i][n]] # Idle
  BY DEF TypeInv, TypeOK, ClientTypeOK, PendingIsTyped
<1>3. Idle.status = "idle"
  BY DEF Idle
<1>. QED  BY <1>1, <1>2, <1>3

LEMMA ProposalsMove ==
  ASSUME TypeInv, NotPropose, NEW cmd \in Command
  PROVE  proposal'[cmd] = proposal[cmd] \/ Moves(cmd)
<1>1. /\ proposal \in [Command -> {Idle} \union ProposalRecords]
      /\ \A i \in Server : \A n \in DOMAIN pendingProposals[i] :
           pendingProposals[i][n] \in Command /\ proposal[pendingProposals[i][n]] # Idle
      /\ \A other \in Command :
           proposal[other].status \in {"waiting", "notified", "done", "failed"}
             => proposal[other] # Idle
  BY ProposalTyped
<1>2. ASSUME NEW other \in Command, NEW s, proposal' = [proposal EXCEPT ![other].status = s]
      PROVE  /\ cmd # other => proposal'[cmd] = proposal[cmd]
             /\ cmd = other => proposal'[cmd] = [proposal[cmd] EXCEPT !.status = s]
  BY <1>1, <1>2
<1>3. CASE proposal' = proposal
  BY <1>3
<1>4. ASSUME NEW i \in Server, ApplyEntry(i)
      PROVE  proposal'[cmd] = proposal[cmd] \/ Moves(cmd)
  <2> DEFINE entry == Head(applying[i])
             other == pendingProposals[i][entry.index]
  <2>1. CASE entry.index \in DOMAIN pendingProposals[i] /\ Answers(entry, other)
    <3>1. proposal' = [proposal EXCEPT ![other].status = "notified"]
      BY <1>4, <2>1 DEF ApplyEntry
    <3>2. other \in Command /\ proposal[other] # Idle
      BY <1>1, <2>1
    <3> HIDE DEF other
    <3>3. CASE cmd # other
      BY <1>2, <3>1, <3>2, <3>3
    <3>4. CASE cmd = other
      <4>1. proposal'[cmd] = [proposal[cmd] EXCEPT !.status = "notified"]
        BY <1>2, <3>1, <3>2, <3>4
      <4>. QED  BY <1>4, <2>1, <3>2, <3>4, <4>1 DEF Moves, other
    <3>. QED  BY <3>3, <3>4
  <2>2. CASE ~(entry.index \in DOMAIN pendingProposals[i] /\ Answers(entry, other))
    <3>1. proposal' = proposal
      BY <1>4, <2>2 DEF ApplyEntry
    <3>. QED  BY <1>3, <3>1
  <2>. QED  BY <2>1, <2>2
<1>5. ASSUME NEW i \in Server, NEW left, Reboot(i, left)
      PROVE  proposal'[cmd] = proposal[cmd] \/ Moves(cmd)
  <2>1. CASE proposal[cmd].node = i /\ proposal[cmd].status \in {"waiting", "notified"}
    <3>1. proposal'[cmd] = [proposal[cmd] EXCEPT !.status = "failed"]
      BY <1>5, <2>1 DEF Reboot
    <3>. QED  BY <1>1, <2>1, <3>1 DEF Moves
  <2>2. CASE ~(proposal[cmd].node = i /\ proposal[cmd].status \in {"waiting", "notified"})
    BY <1>5, <2>2 DEF Reboot
  <2>. QED  BY <2>1, <2>2
<1>6. ASSUME NEW other \in Command, ProposeReturn(other)
      PROVE  proposal'[cmd] = proposal[cmd] \/ Moves(cmd)
  <2>1. proposal[other].status = "notified" /\ proposal' = [proposal EXCEPT ![other].status = "done"]
    BY <1>6 DEF ProposeReturn
  <2>. QED  BY <1>1, <1>2, <2>1 DEF Moves
<1>7. ASSUME NEW other \in Command, ProposeTimeout(other)
      PROVE  proposal'[cmd] = proposal[cmd] \/ Moves(cmd)
  <2>1. proposal[other].status \in {"waiting", "notified"}
        /\ proposal' = [proposal EXCEPT ![other].status = "failed"]
    BY <1>7 DEF ProposeTimeout
  <2>. QED  BY <1>1, <1>2, <2>1 DEF Moves
<1>8. ASSUME NEW i \in Server, FetchCommitted(i)
      PROVE  proposal' = proposal
  BY <1>8 DEF FetchCommitted, clientVars
<1>. QED  BY <1>3, <1>4, <1>5, <1>6, <1>7, <1>8 DEF NotPropose, clientVars

LEMMA PendingShrinks ==
  ASSUME TypeInv, NotPropose
  PROVE  NothingPendingAdded
<1>1. DOMAIN pendingProposals = Server
  BY ProposalTyped
<1>2. CASE pendingProposals' = pendingProposals
  BY <1>1, <1>2 DEF NothingPendingAdded
<1>3. ASSUME NEW i \in Server, ApplyEntry(i)
      PROVE  NothingPendingAdded
  BY <1>3, WithoutPendingAddsNothing DEF ApplyEntry
<1>4. ASSUME NEW i \in Server, NEW left, Reboot(i, left)
      PROVE  NothingPendingAdded
  <2>1. pendingProposals' = [pendingProposals EXCEPT ![i] = << >>]
    BY <1>4 DEF Reboot
  <2>. QED  BY <1>1, <2>1 DEF NothingPendingAdded
<1>5. ASSUME NEW cmd \in Command, ProposeTimeout(cmd)
      PROVE  NothingPendingAdded
  <2>1. proposal[cmd].node \in Server
    <3>1. proposal[cmd].status \in {"waiting", "notified"}
      BY <1>5 DEF ProposeTimeout
    <3>2. proposal[cmd] \in ProposalRecords
      BY <3>1, ProposalTyped
    <3>. QED  BY <3>2 DEF ProposalRecords
  <2>. QED  BY <1>5, <2>1, WithoutPendingAddsNothing DEF ProposeTimeout
<1>6. ASSUME NEW cmd \in Command, ProposeReturn(cmd)
      PROVE  pendingProposals' = pendingProposals
  BY <1>6 DEF ProposeReturn
<1>7. ASSUME NEW i \in Server, FetchCommitted(i)
      PROVE  pendingProposals' = pendingProposals
  BY <1>7 DEF FetchCommitted, clientVars
<1>. QED  BY <1>2, <1>3, <1>4, <1>5, <1>6, <1>7 DEF NotPropose, clientVars

\* A proposal keeps its place.
LEMMA MovesInPlace ==
  ASSUME TypeInv, NotPropose, NEW cmd \in Command
  PROVE  /\ proposal'[cmd].node = proposal[cmd].node
         /\ proposal'[cmd].index = proposal[cmd].index
         /\ proposal'[cmd].term = proposal[cmd].term
         /\ proposal'[cmd].status = "waiting" => proposal'[cmd] = proposal[cmd]
<1>1. proposal[cmd] # Idle => proposal[cmd] \in ProposalRecords
  BY ProposalTyped
<1>2. CASE Moves(cmd)
  <2>1. PICK s \in {"notified", "done", "failed"} :
          proposal[cmd] # Idle /\ proposal'[cmd] = [proposal[cmd] EXCEPT !.status = s]
    BY <1>2 DEF Moves
  <2>. QED  BY <1>1, <2>1 DEF ProposalRecords
<1>. QED  BY <1>2, ProposalsMove

LEMMA PendingStep ==
  ASSUME TypeInv, PendingIsInPlace, NotPropose
  PROVE  PendingIsInPlace'
<1>1. \A i \in Server : \A n \in DOMAIN pendingProposals[i] : pendingProposals[i][n] \in Command
  BY ProposalTyped
<1>. QED  BY <1>1, PendingShrinks, MovesInPlace DEF PendingIsInPlace, NothingPendingAdded

\* The result of a proposal is that of its own entry.
LEMMA AnswerIsChosen ==
  ASSUME Plain, NEW H, NEW A, LogInv(H, A), ChosenIsApplied(H, A), ProposalsOK(H, A),
         PendingIsInPlace, NEW i \in Server, ApplyEntry(i), NEW entry, entry = Head(applying[i]),
         entry.index \in DOMAIN pendingProposals[i],
         NEW cmd, cmd = pendingProposals[i][entry.index], Answers(entry, cmd)
  PROVE  /\ ChosenAt(H, A, proposal[cmd].index, EntryOf(proposal[cmd], cmd))
         /\ entry.cmd = cmd /\ proposal[cmd].node = i
<1> DEFINE p == proposal[cmd]
           k == lastApplied[i]
<1>1. cmd \in Command /\ p # Idle /\ p.index = entry.index /\ p.term = entry.term /\ p.node = i
  BY PlainParts, ProposalTyped DEF PendingIsInPlace, Answers
<1>2. p.term \in Terms /\ p.index \in 1..Len(H[p.term]) /\ H[p.term][p.index] = EntryOf(p, cmd)
  BY <1>1 DEF ProposalsOK, ProposalOK
<1>3. /\ k \in Nat /\ applying[i] \in Seq(LogEntries) /\ applying[i] # << >>
      /\ Applied(H, A, k, machine[i], applying[i])
  <2>1. k \in Nat /\ applying[i] \in Seq(LogEntries)
    BY PlainParts DEF ApplyTypeOK
  <2>2. applying[i] # << >>
    BY PlainParts DEF ApplyTypeOK, ApplyEntry
  <2>. QED  BY <2>1, <2>2 DEF ChosenIsApplied
<1>4. LogsAreTyped(H) /\ \A t \in Terms : GoodLog(H, H[t])
  BY HistoryParts DEF LogsAreTyped, LogInv, LeaderLogs
<1>5. /\ entry.index = k + 1
      /\ \E t \in Terms : \E n \in Created(H, t) :
           Chosen(H, A, n, t) /\ k + 1 <= n /\ H[t][k + 1] = entry
  BY <1>3, <1>4, AppliedEntry
<1>6. PICK t \in Terms : \E n \in Created(H, t) :
        Chosen(H, A, n, t) /\ k + 1 <= n /\ H[t][k + 1] = entry
  BY <1>5
<1>7. PICK n \in Created(H, t) : Chosen(H, A, n, t) /\ k + 1 <= n /\ H[t][k + 1] = entry
  BY <1>6
<1>8. n \in Nat /\ n <= Len(H[t]) /\ Len(H[t]) \in Nat
  BY <1>4, <1>7 DEF LogsAreTyped, Created
<1>9. k + 1 \in 1..n /\ k + 1 \in 1..Len(H[t])
  BY <1>3, <1>7, <1>8
<1>10. Agree(H[t], H[entry.term], k + 1)
  BY <1>4, <1>7, <1>9 DEF GoodLog
<1>11. H[entry.term][k + 1] = entry
  <2>1. k + 1 \in 1..(k + 1)
    BY <1>3
  <2>. QED  BY <1>7, <1>10, <2>1 DEF Agree
<1>12. entry = EntryOf(p, cmd)
  BY <1>1, <1>2, <1>5, <1>11
<1>13. entry.cmd = cmd
  BY <1>12 DEF EntryOf
<1>. QED  BY <1>1, <1>5, <1>7, <1>9, <1>12, <1>13 DEF ChosenAt

LEMMA ProposalsStep ==
  ASSUME Plain, NEW H, NEW A, LogInv(H, A), ChosenIsApplied(H, A), ProposalsOK(H, A),
         PendingIsInPlace, NotPropose, NEW cmd \in Command
  PROVE  ProposalOK(H, A, proposal'[cmd], cmd)
<1>1. ProposalOK(H, A, proposal[cmd], cmd)
  BY DEF ProposalsOK
<1>2. CASE proposal'[cmd] = proposal[cmd]
  BY <1>1, <1>2
<1>3. CASE Moves(cmd)
  <2>1. PICK s \in {"notified", "done", "failed"} :
          /\ proposal[cmd] # Idle
          /\ proposal'[cmd] = [proposal[cmd] EXCEPT !.status = s]
          /\ s = "done" => proposal[cmd].status = "notified"
          /\ s = "notified" =>
               \E i \in Server : LET entry == Head(applying[i]) IN
                 /\ ApplyEntry(i)
                 /\ entry.index \in DOMAIN pendingProposals[i]
                 /\ cmd = pendingProposals[i][entry.index]
                 /\ Answers(entry, cmd)
    BY <1>3 DEF Moves
  <2>2. proposal[cmd] \in ProposalRecords
    BY <2>1, PlainParts, ProposalTyped
  <2>3. s = "done" => ChosenAt(H, A, proposal[cmd].index, EntryOf(proposal[cmd], cmd))
    BY <1>1, <2>1 DEF ProposalOK
  <2>4. s = "notified" => ChosenAt(H, A, proposal[cmd].index, EntryOf(proposal[cmd], cmd))
    <3> SUFFICES ASSUME s = "notified"
                 PROVE  ChosenAt(H, A, proposal[cmd].index, EntryOf(proposal[cmd], cmd))
      OBVIOUS
    <3>1. PICK i \in Server : LET entry == Head(applying[i]) IN
            /\ ApplyEntry(i)
            /\ entry.index \in DOMAIN pendingProposals[i]
            /\ cmd = pendingProposals[i][entry.index]
            /\ Answers(entry, cmd)
      BY <2>1
    <3>2. PICK entry : entry = Head(applying[i])
      OBVIOUS
    <3>3. /\ ApplyEntry(i) /\ entry.index \in DOMAIN pendingProposals[i]
          /\ cmd = pendingProposals[i][entry.index] /\ Answers(entry, cmd)
      BY <3>1, <3>2
    <3>. QED  BY <3>2, <3>3, AnswerIsChosen
  <2>5. PICK p : p = proposal[cmd]
    OBVIOUS
  <2>6. /\ p \in ProposalRecords /\ p # Idle /\ ProposalOK(H, A, p, cmd)
        /\ s \in {"notified", "done"} => ChosenAt(H, A, p.index, EntryOf(p, cmd))
        /\ s \in {"waiting", "notified", "done", "failed"}
    BY <1>1, <2>1, <2>2, <2>3, <2>4, <2>5
  <2>7. ProposalOK(H, A, [p EXCEPT !.status = s], cmd)
    BY <2>6, StatusKeeps
  <2>. QED  BY <2>1, <2>5, <2>7
<1>. QED  BY <1>2, <1>3, ProposalsMove, PlainParts

\* What Propose adds.
LEMMA ProposeParts ==
  ASSUME TypeInv, NEW i \in Server, NEW cmd \in Command, Propose(i, cmd)
  PROVE  LET index == LastIndex(i) + 1 IN
         /\ proposal[cmd] = Idle
         /\ proposal'[cmd] = [status |-> "waiting", node |-> i, index |-> index,
                              term |-> currentTerm[i]]
         /\ \A other \in Command \ {cmd} : proposal'[other] = proposal[other]
         /\ DOMAIN pendingProposals'[i] = DOMAIN pendingProposals[i] \union {index}
         /\ pendingProposals'[i][index] = cmd
         /\ \A n \in DOMAIN pendingProposals[i] \ {index} :
              pendingProposals'[i][n] = pendingProposals[i][n]
         /\ \A j \in Server \ {i} : pendingProposals'[j] = pendingProposals[j]
         /\ lastApplied' = lastApplied
<1> DEFINE index == LastIndex(i) + 1
           new == [status |-> "waiting", node |-> i, index |-> index, term |-> currentTerm[i]]
           map == [n \in DOMAIN pendingProposals[i] \union {index} |->
                     IF n = index THEN cmd ELSE pendingProposals[i][n]]
<1>1. proposal \in [Command -> {Idle} \union ProposalRecords] /\ DOMAIN pendingProposals = Server
  BY ProposalTyped
<1>2. /\ proposal[cmd] = Idle
      /\ proposal' = [proposal EXCEPT ![cmd] = new]
      /\ pendingProposals' = [pendingProposals EXCEPT ![i] = map]
      /\ lastApplied' = lastApplied
  BY DEF Propose, applyVars
<1>3. /\ DOMAIN map = DOMAIN pendingProposals[i] \union {index}
      /\ map[index] = cmd
      /\ \A n \in DOMAIN pendingProposals[i] \ {index} : map[n] = pendingProposals[i][n]
  OBVIOUS
<1> HIDE DEF map, new
<1>4. /\ pendingProposals'[i] = map
      /\ \A j \in Server \ {i} : pendingProposals'[j] = pendingProposals[j]
  BY <1>1, <1>2
<1>5. /\ proposal'[cmd] = new
      /\ \A other \in Command \ {cmd} : proposal'[other] = proposal[other]
  BY <1>1, <1>2
<1>. QED  BY <1>2, <1>3, <1>4, <1>5 DEF new

LEMMA NewProposal ==
  ASSUME Plain, Plain', NEW H, NEW A, LogInv(H, A), ProposalsOK(H, A), PendingIsInPlace,
         NEW H2, NEW A2, HistoriesKept(H, A, H2, A2), LogInv(H2, A2)', LogsAreTyped(H2),
         NEW i \in Server, NEW cmd \in Command, Propose(i, cmd)
  PROVE  ProposalsOK(H2, A2)' /\ PendingIsInPlace'
<1> DEFINE index == LastIndex(i) + 1
           t == currentTerm[i]
           L == log[i]
           entry == [term |-> t, index |-> index, cmd |-> cmd]
           new == [status |-> "waiting", node |-> i, index |-> index, term |-> t]
<1>1. /\ proposal[cmd] = Idle /\ proposal'[cmd] = new
      /\ \A other \in Command \ {cmd} : proposal'[other] = proposal[other]
      /\ DOMAIN pendingProposals'[i] = DOMAIN pendingProposals[i] \union {index}
      /\ pendingProposals'[i][index] = cmd
      /\ \A n \in DOMAIN pendingProposals[i] \ {index} :
           pendingProposals'[i][n] = pendingProposals[i][n]
      /\ \A j \in Server \ {i} : pendingProposals'[j] = pendingProposals[j]
  BY PlainParts, ProposeParts
<1>2. /\ L \in Seq(LogEntries) /\ Len(L) \in Nat /\ index = Len(L) + 1
      /\ t \in Terms /\ t \in Nat
  <2>1. t \in Terms
    BY PlainParts DEF ElectionInv, CallsAreTyped
  <2>. QED  BY <2>1, PlainLog DEF Terms
<1>3. entry \in LogEntries
  BY <1>2 DEF LogEntries
<1>4. H2[t] = Append(L, entry)
  <2>1. log'[i] = Append(L, entry)
    <3>1. log' = [log EXCEPT ![i] = Append(L, entry)] /\ log \in [Server -> Seq(LogEntries)]
      BY PlainParts DEF Propose, LogTypeOK
    <3>. QED  BY <3>1
  <2>2. state'[i] = Leader /\ currentTerm'[i] = t
    BY DEF Propose, electionVars
  <2>3. log'[i] = H2[currentTerm'[i]]
    BY <2>2 DEF LogInv, LeadersHold
  <2>. QED  BY <2>1, <2>2, <2>3
<1>5. index \in 1..Len(H2[t]) /\ H2[t][index] = entry
  <2>1. Len(Append(L, entry)) = Len(L) + 1 /\ Append(L, entry)[Len(L) + 1] = entry
    BY <1>2, <1>3, AppendProperties
  <2>. QED  BY <1>2, <1>4, <2>1
<1>6. ProposalOK(H2, A2, proposal'[cmd], cmd)
  BY <1>1, <1>2, <1>5 DEF ProposalOK, EntryOf
<1>7. ASSUME NEW other \in Command, other # cmd
      PROVE  ProposalOK(H2, A2, proposal'[other], other)
  <2>1. ProposalOK(H, A, proposal[other], other) /\ proposal'[other] = proposal[other]
    BY <1>1, <1>7 DEF ProposalsOK
  <2>2. LogsAreTyped(H)
    BY HistoryParts DEF LogsAreTyped
  <2>. QED  BY <2>1, <2>2, ProposalGrows
<1>8. ASSUME NEW j \in Server, NEW n \in DOMAIN pendingProposals'[j]
      PROVE  LET p == proposal'[pendingProposals'[j][n]] IN p.index = n /\ p.node = j
  <2>1. CASE j = i /\ n = index
    BY <1>1, <2>1
  <2>2. CASE ~(j = i /\ n = index)
    <3>1. n \in DOMAIN pendingProposals[j] /\ pendingProposals'[j][n] = pendingProposals[j][n]
      BY <1>1, <1>8, <2>2
    <3> DEFINE other == pendingProposals[j][n]
    <3>2. other \in Command /\ proposal[other] # Idle
      BY <3>1, PlainParts, ProposalTyped
    <3>3. proposal[other].index = n /\ proposal[other].node = j
      BY <3>1 DEF PendingIsInPlace
    <3>4. proposal'[other] = proposal[other]
      BY <1>1, <3>2
    <3>. QED  BY <3>1, <3>3, <3>4
  <2>. QED  BY <2>1, <2>2
<1>. QED  BY <1>6, <1>7, <1>8 DEF ProposalsOK, PendingIsInPlace

\* The place of a proposal in the map is its own.
LEMMA AloneStep ==
  ASSUME Plain, Plain', AloneIsPending, NEW H, NEW A, LogInv(H, A), ChosenIsApplied(H, A),
         NotPropose
  PROVE  AloneIsPending'
<1> SUFFICES ASSUME NEW cmd \in Command, NEW i, i = proposal'[cmd].node,
                    NEW n, n = proposal'[cmd].index, proposal'[cmd].status = "waiting",
                    n > lastApplied'[i],
                    \A other \in Command \ {cmd} :
                      proposal'[other].node = i => proposal'[other].index # n
             PROVE  n \in DOMAIN pendingProposals'[i] /\ pendingProposals'[i][n] = cmd
  BY DEF AloneIsPending
<1>1. /\ proposal'[cmd] = proposal[cmd] /\ proposal[cmd].status = "waiting"
      /\ i = proposal[cmd].node /\ n = proposal[cmd].index
      /\ \A other \in Command \ {cmd} :
           proposal[other].node = i => proposal[other].index # n
  BY PlainParts, MovesInPlace
<1>2. i \in Server /\ n \in Nat
  <2>1. proposal[cmd] \in ProposalRecords
    BY <1>1, PlainParts, ProposalTyped
  <2>. QED  BY <1>1, <2>1 DEF ProposalRecords
<1>3. /\ lastApplied \in [Server -> Nat] /\ DOMAIN pendingProposals = Server
  BY PlainParts, ProposalTyped DEF ApplyTypeOK
<1>4. ASSUME n > lastApplied[i]
      PROVE  n \in DOMAIN pendingProposals[i] /\ pendingProposals[i][n] = cmd
  BY <1>1, <1>4 DEF AloneIsPending
<1>5. CASE pendingProposals'[i] = pendingProposals[i] /\ lastApplied'[i] = lastApplied[i]
  BY <1>4, <1>5
<1>6. ASSUME NEW j \in Server, ApplyEntry(j)
      PROVE  n \in DOMAIN pendingProposals'[i] /\ pendingProposals'[i][n] = cmd
  <2> DEFINE k == Head(applying[j]).index
  <2>1. /\ lastApplied' = [lastApplied EXCEPT ![j] = k]
        /\ pendingProposals' = [pendingProposals EXCEPT ![j] = WithoutPending(j, k)]
    BY <1>6 DEF ApplyEntry
  <2>2. CASE i # j
    BY <1>2, <1>3, <1>5, <2>1, <2>2
  <2>3. CASE i = j
    <3>1. /\ lastApplied[i] \in Nat /\ applying[i] \in Seq(LogEntries) /\ applying[i] # << >>
          /\ Applied(H, A, lastApplied[i], machine[i], applying[i])
      BY <1>2, <1>6, <2>3, PlainParts DEF ApplyTypeOK, ApplyEntry, ChosenIsApplied
    <3>2. LogsAreTyped(H) /\ \A t \in Terms : GoodLog(H, H[t])
      BY HistoryParts DEF LogsAreTyped, LogInv, LeaderLogs
    <3>3. k = lastApplied[i] + 1
      BY <2>3, <3>1, <3>2, AppliedEntry
    <3> HIDE DEF k
    <3>4. lastApplied'[i] = k /\ pendingProposals'[i] = WithoutPending(i, k)
      BY <1>2, <1>3, <2>1, <2>3
    <3>5. n > k /\ n > lastApplied[i] /\ n # k
      BY <1>2, <3>1, <3>3, <3>4
    <3>. QED  BY <1>4, <3>4, <3>5 DEF WithoutPending
  <2>. QED  BY <2>2, <2>3
<1>7. ASSUME NEW j \in Server, NEW left, Reboot(j, left)
      PROVE  n \in DOMAIN pendingProposals'[i] /\ pendingProposals'[i][n] = cmd
  <2>1. i # j
    <3> SUFFICES ASSUME i = j PROVE FALSE
      OBVIOUS
    <3>1. proposal'[cmd] = [proposal[cmd] EXCEPT !.status = "failed"]
      BY <1>1, <1>7 DEF Reboot
    <3>2. proposal[cmd] \in ProposalRecords
      BY <1>1, PlainParts, ProposalTyped
    <3>. QED  BY <1>1, <3>1, <3>2 DEF ProposalRecords
  <2>2. /\ pendingProposals' = [pendingProposals EXCEPT ![j] = << >>]
        /\ lastApplied' = [lastApplied EXCEPT ![j] = snapshotIndex[j]]
    BY <1>7 DEF Reboot
  <2>. QED  BY <1>2, <1>3, <1>5, <2>1, <2>2
<1>8. ASSUME NEW other \in Command, ProposeTimeout(other)
      PROVE  n \in DOMAIN pendingProposals'[i] /\ pendingProposals'[i][n] = cmd
  <2> DEFINE j == proposal[other].node
             m == proposal[other].index
  <2>1. /\ proposal[other].status \in {"waiting", "notified"}
        /\ proposal' = [proposal EXCEPT ![other].status = "failed"]
        /\ pendingProposals' = [pendingProposals EXCEPT ![j] = WithoutPending(j, m)]
        /\ lastApplied' = lastApplied
    BY <1>8 DEF ProposeTimeout, applyVars
  <2>2. proposal[other] \in ProposalRecords /\ j \in Server
    <3>1. proposal[other] \in ProposalRecords
      BY <2>1, PlainParts, ProposalTyped
    <3>. QED  BY <3>1 DEF ProposalRecords
  <2>3. other # cmd
    <3> SUFFICES ASSUME other = cmd PROVE FALSE
      OBVIOUS
    <3>1. proposal \in [Command -> {Idle} \union ProposalRecords]
      BY PlainParts, ProposalTyped
    <3>2. proposal'[cmd].status = "failed"
      BY <2>1, <2>2, <3>1 DEF ProposalRecords
    <3>. QED  BY <1>1, <3>2
  <2>4. CASE i # j
    BY <1>2, <1>3, <1>5, <2>1, <2>4
  <2>5. CASE i = j
    <3>1. m # n
      BY <1>1, <2>3, <2>5
    <3>2. pendingProposals'[i] = WithoutPending(i, m)
      BY <1>2, <1>3, <2>1, <2>5
    <3>. QED  BY <1>4, <2>1, <3>1, <3>2 DEF WithoutPending
  <2>. QED  BY <2>4, <2>5
<1>9. ASSUME NEW other \in Command, ProposeReturn(other)
      PROVE  pendingProposals' = pendingProposals /\ lastApplied' = lastApplied
  BY <1>9 DEF ProposeReturn, applyVars
<1>10. ASSUME NEW j \in Server, FetchCommitted(j)
       PROVE  pendingProposals' = pendingProposals /\ lastApplied' = lastApplied
  BY <1>10 DEF FetchCommitted, clientVars
<1>. QED  BY <1>5, <1>6, <1>7, <1>8, <1>9, <1>10 DEF NotPropose, clientVars

LEMMA NewIsPending ==
  ASSUME TypeInv, AloneIsPending, NEW j \in Server, NEW new \in Command, Propose(j, new)
  PROVE  AloneIsPending'
<1> SUFFICES ASSUME NEW cmd \in Command, NEW i, i = proposal'[cmd].node,
                    NEW n, n = proposal'[cmd].index, proposal'[cmd].status = "waiting",
                    n > lastApplied'[i],
                    \A other \in Command \ {cmd} :
                      proposal'[other].node = i => proposal'[other].index # n
             PROVE  n \in DOMAIN pendingProposals'[i] /\ pendingProposals'[i][n] = cmd
  BY DEF AloneIsPending
<1> DEFINE index == LastIndex(j) + 1
<1>1. /\ proposal[new] = Idle
      /\ proposal'[new] = [status |-> "waiting", node |-> j, index |-> index,
                           term |-> currentTerm[j]]
      /\ \A other \in Command \ {new} : proposal'[other] = proposal[other]
      /\ DOMAIN pendingProposals'[j] = DOMAIN pendingProposals[j] \union {index}
      /\ pendingProposals'[j][index] = new
      /\ \A m \in DOMAIN pendingProposals[j] \ {index} :
           pendingProposals'[j][m] = pendingProposals[j][m]
      /\ \A l \in Server \ {j} : pendingProposals'[l] = pendingProposals[l]
      /\ lastApplied' = lastApplied
  BY ProposeParts
<1> HIDE DEF index
<1>2. CASE cmd = new
  BY <1>1, <1>2
<1>3. CASE cmd # new
  <2>1. proposal'[cmd] = proposal[cmd] /\ i = proposal[cmd].node /\ n = proposal[cmd].index
        /\ proposal[cmd].status = "waiting" /\ n > lastApplied[i]
    BY <1>1, <1>3
  <2>2. i \in Server
    <3>1. proposal[cmd] \in ProposalRecords
      BY <2>1, ProposalTyped
    <3>. QED  BY <2>1, <3>1 DEF ProposalRecords
  <2>3. \A other \in Command \ {cmd} : proposal[other].node = i => proposal[other].index # n
    <3>1. Idle.node = Nil /\ Nil \notin Server
      BY NilAssumption DEF Idle
    <3>. QED  BY <1>1, <2>2, <3>1
  <2>4. n \in DOMAIN pendingProposals[i] /\ pendingProposals[i][n] = cmd
    BY <2>1, <2>3 DEF AloneIsPending
  <2>5. i = j => n # index
    BY <1>1, <1>3
  <2>. QED  BY <1>1, <2>2, <2>4, <2>5
<1>. QED  BY <1>2, <1>3

-----------------------------------------------------------------------------
(* The invariant, and what it says of the state machines and the clients. *)

ServiceInv(H, A) ==
  /\ LogInv(H, A)
  /\ ChosenIsApplied(H, A)
  /\ ProposalsOK(H, A)
  /\ PendingIsInPlace
  /\ AloneIsPending

ServiceHasHistory == NoSnapshots => \E H, A : ServiceInv(H, A)

LEMMA InitServiceInv ==
  ASSUME Init
  PROVE  ServiceHasHistory
<1>1. PICK H, A : LogInv(H, A)
  BY InitLogInv
<1>2. ChosenIsApplied(H, A)
  BY DEF Init, ChosenIsApplied, Applied
<1>3. ProposalsOK(H, A)
  BY DEF Init, ProposalsOK, ProposalOK
<1>4. PendingIsInPlace
  <2>1. \A i \in Server : DOMAIN pendingProposals[i] = {}
    BY DEF Init
  <2>. QED  BY <2>1 DEF PendingIsInPlace
<1>5. AloneIsPending
  <2>1. \A cmd \in Command : proposal[cmd].status # "waiting"
    BY DEF Init, Idle
  <2>. QED  BY <2>1 DEF AloneIsPending
<1>. QED  BY <1>1, <1>2, <1>3, <1>4, <1>5 DEF ServiceHasHistory, ServiceInv

LEMMA ServiceStep ==
  ASSUME Plain, Plain', NoSnapshots', SnapshotsAreOnDisk', [Next]_vars,
         NEW H, NEW A, ServiceInv(H, A)
  PROVE  \E H2, A2 : HistoriesKept(H, A, H2, A2) /\ ServiceInv(H2, A2)'
<1>1. /\ LogInv(H, A) /\ ChosenIsApplied(H, A) /\ ProposalsOK(H, A) /\ PendingIsInPlace
      /\ AloneIsPending
  BY DEF ServiceInv
<1>2. PICK H2, A2 : HistoriesKept(H, A, H2, A2) /\ LogInv(H2, A2)'
  BY <1>1, StepLogs
<1>3. LogsAreTyped(H) /\ LogsAreTyped(H2)
  <2>1. LogsAreTyped(H)
    BY <1>1, HistoryParts DEF LogsAreTyped
  <2>2. H2 \in [Terms -> Seq(LogEntries)]
    BY <1>2 DEF LogInv, HistoryTyped
  <2>3. \A t \in Terms : t \in Nat /\ H2[t] \in Seq(LogEntries)
    BY <2>2 DEF Terms
  <2>. QED  BY <2>1, <2>3 DEF LogsAreTyped
<1>4. ChosenIsApplied(H2, A2)'
  BY <1>1, <1>2, AppliesStep
<1>5. CASE NotPropose
  <2>1. ASSUME NEW cmd \in Command
        PROVE  ProposalOK(H2, A2, proposal'[cmd], cmd)
    <3>1. ProposalOK(H, A, proposal'[cmd], cmd)
      BY <1>1, <1>5, ProposalsStep
    <3>. QED  BY <1>2, <1>3, <3>1, ProposalGrows
  <2>2. ProposalsOK(H2, A2)'
    BY <2>1 DEF ProposalsOK
  <2>3. PendingIsInPlace'
    BY <1>1, <1>5, PlainParts, PendingStep
  <2>4. AloneIsPending'
    BY <1>1, <1>5, AloneStep
  <2>. QED  BY <1>2, <1>4, <2>2, <2>3, <2>4 DEF ServiceInv
<1>6. ASSUME NEW cmd \in Command, NEW i \in Server, Propose(i, cmd)
      PROVE  ServiceInv(H2, A2)'
  <2>1. ProposalsOK(H2, A2)' /\ PendingIsInPlace'
    BY <1>1, <1>2, <1>3, <1>6, NewProposal
  <2>2. AloneIsPending'
    BY <1>1, <1>6, PlainParts, NewIsPending
  <2>. QED  BY <1>2, <1>4, <2>1, <2>2 DEF ServiceInv
<1>7. NotPropose \/ \E cmd \in Command : \E i \in Server : Propose(i, cmd)
  BY PlainParts, StepKinds DEF NotPropose
<1>. QED  BY <1>2, <1>5, <1>6, <1>7

LEMMA ChosenIsHeld ==
  ASSUME Plain, NEW H, NEW A, LogInv(H, A), NEW cmd \in Command,
         ChosenAt(H, A, proposal[cmd].index, EntryOf(proposal[cmd], cmd))
  PROVE  {i \in Server : Holds(i, cmd)} \in Quorums
<1> DEFINE k == proposal[cmd].index
           entry == EntryOf(proposal[cmd], cmd)
<1>1. PICK t \in Terms : \E n \in Created(H, t) :
        Chosen(H, A, n, t) /\ k \in 1..n /\ H[t][k] = entry
  BY DEF ChosenAt
<1>2. PICK n \in Created(H, t) : Chosen(H, A, n, t) /\ k \in 1..n /\ H[t][k] = entry
  BY <1>1
<1> DEFINE P == {q \in Server : A[t][q] >= n}
           Q == {i \in Server : Holds(i, cmd)}
<1>3. P \in Quorums
  BY <1>2 DEF Chosen
<1>4. ~Overruled(A, n, t)
  BY <1>2, PlainParts, ChosenStays DEF LogInv
<1>5. ASSUME NEW q \in Server, A[t][q] >= n
      PROVE  Holds(q, cmd)
  <2>1. Has(log[q], n, t)
    BY <1>2, <1>4, <1>5 DEF LogInv, AckedIsKept
  <2>2. Agree(log[q], H[t], n) /\ Len(log[q]) \in Nat /\ n \in Nat
    BY <1>2, <2>1, PlainLog, HasAgrees, HistoryParts DEF Created
  <2>3. k \in 1..Len(log[q]) /\ log[q][k] = entry
    BY <1>2, <2>2 DEF Agree
  <2>. QED  BY <2>3 DEF Holds, EntryOf
<1>6. P \subseteq Q
  BY <1>5
<1> HIDE DEF P
<1>7. Q \in Quorums
  BY <1>3, <1>6, QuorumGrows
<1>. QED  BY <1>7

LEMMA ProposalsSurvive ==
  ASSUME Plain, NEW H, NEW A, LogInv(H, A), ProposalsOK(H, A)
  PROVE  AckedSurvives
<1> SUFFICES ASSUME NEW cmd \in Command, proposal[cmd].status \in {"notified", "done"}
             PROVE  {i \in Server : Holds(i, cmd)} \in Quorums
  BY DEF AckedSurvives
<1>1. proposal[cmd] # Idle
  BY PlainParts, ProposalTyped
<1>2. ChosenAt(H, A, proposal[cmd].index, EntryOf(proposal[cmd], cmd))
  BY <1>1 DEF ProposalsOK, ProposalOK
<1>. QED  BY <1>2, ChosenIsHeld

\* The histories also explain what every node has applied, what every client was
\* told, and what is pending, in every behaviour until the first snapshot.
THEOREM HistoryExplainsService == Spec => []ServiceHasHistory
<1>1. Init => ServiceHasHistory
  BY InitServiceInv
<1>2. ASSUME RestInv, RestInv', ServiceHasHistory, [Next]_vars
      PROVE  ServiceHasHistory'
  <2> SUFFICES ASSUME NoSnapshots'
               PROVE  \E H, A : ServiceInv(H, A)'
    BY DEF ServiceHasHistory
  <2>1. NoSnapshots
    BY <1>2, SnapshotStep DEF RestInv
  <2>2. Plain /\ Plain' /\ SnapshotsAreOnDisk'
    BY <1>2, <2>1, RestIsPlain DEF RestInv, NoSnapshots, SnapshotsAreOnDisk, Plain
  <2>3. PICK H, A : ServiceInv(H, A)
    BY <1>2, <2>1 DEF ServiceHasHistory
  <2>. QED  BY <1>2, <2>2, <2>3, ServiceStep
<1>. QED  BY <1>1, <1>2, RestIsKept, PTL DEF Spec

\* The state machines never part: FetchCommitted copies entries that are chosen, in
\* order and without a gap, and a restarted node executes them again from the first.
THEOREM MachinesAgree == Spec => [](NoSnapshots => StateMachineSafety)
<1>1. RestInv /\ ServiceHasHistory => (NoSnapshots => StateMachineSafety)
  BY RestIsPlain, AppliedImpliesSafety DEF ServiceHasHistory, ServiceInv
<1>. QED  BY <1>1, RestIsKept, HistoryExplainsService, PTL

\* A client that has its result finds its command on a majority for ever after: the
\* result is that of the very entry that was proposed.
THEOREM AcknowledgedIsKept == Spec => [](NoSnapshots => AckedSurvives)
<1>1. RestInv /\ ServiceHasHistory => (NoSnapshots => AckedSurvives)
  BY RestIsPlain, ProposalsSurvive DEF ServiceHasHistory, ServiceInv
<1>. QED  BY <1>1, RestIsKept, HistoryExplainsService, PTL

\* No timeout and no result of another proposal takes away the place of one that
\* waits alone under its index.
THEOREM WaitersAreFound == Spec => [](NoSnapshots => WaitingIsPending)
<1>1. ServiceHasHistory => (NoSnapshots => WaitingIsPending)
  BY DEF ServiceHasHistory, ServiceInv, AloneIsPending, WaitingIsPending
<1>. QED  BY <1>1, HistoryExplainsService, PTL

-----------------------------------------------------------------------------
(* Every entry with a command is the one that was proposed. *)

\* What a step may do to the logs and to the requests that carry entries.
LEMMA LogKinds ==
  ASSUME TypeInv, [Next]_vars
  PROVE  \/ log' = log
         \/ \E c \in DOMAIN calls : BecomeLeader(c) \/ RejectMismatch(c) \/ AcceptEntries(c)
         \/ \E i \in Server : TakeSnapshot(i)
         \/ \E i \in Server : \E cmd \in Command : Propose(i, cmd)
<1>1. CASE UNCHANGED vars
  BY <1>1 DEF vars, logVars
<1>2. CASE CallStep
  <2>1. PICK c \in DOMAIN calls :
          \/ HandleRequestVote(c)
          \/ StepDownOnReply(c)
          \/ DiscardReply(c)
          \/ CountVote(c)
          \/ BecomeLeader(c)
          \/ SendAppendEntries(c)
          \/ RejectStaleAppend(c)
          \/ RejectShortLog(c)
          \/ RejectMismatch(c)
          \/ AcceptEntries(c)
          \/ AdvanceOnSuccess(c)
          \/ BackOffOnFailure(c)
          \/ CrashInHandler(c)
          \/ Lose(c)
    BY <1>2 DEF CallStep
  <2>2. CASE HandleRequestVote(c) \/ StepDownOnReply(c) \/ DiscardReply(c) \/ CountVote(c)
    BY <2>2 DEF HandleRequestVote, StepDownOnReply, DiscardReply, CountVote, logVars
  <2>3. CASE SendAppendEntries(c) \/ RejectStaleAppend(c) \/ RejectShortLog(c) \/ Lose(c)
    BY <2>3 DEF SendAppendEntries, RejectStaleAppend, RejectShortLog, Lose, logVars
  <2>4. CASE AdvanceOnSuccess(c) \/ BackOffOnFailure(c) \/ CrashInHandler(c)
    BY <2>4 DEF AdvanceOnSuccess, BackOffOnFailure, CrashInHandler, Reboot, logVars
  <2>. QED  BY <2>1, <2>2, <2>3, <2>4
<1>3. CASE NodeStep
  <2>1. PICK i \in Server :
          \/ StartElection(i)
          \/ BroadcastAppendEntries(i)
          \/ FetchCommitted(i)
          \/ ApplyEntry(i)
          \/ MaybeSnapshot(i)
          \/ TakeSnapshot(i)
          \/ Crash(i)
          \/ CrashInSnapshot(i)
    BY <1>3 DEF NodeStep
  <2>2. CASE ~TakeSnapshot(i)
    BY <2>1, <2>2 DEF StartElection, BroadcastAppendEntries, FetchCommitted, ApplyEntry,
       MaybeSnapshot, Crash, CrashInSnapshot, Reboot, logVars
  <2>. QED  BY <2>2
<1>4. CASE ClientStep
  <2>1. PICK cmd \in Command : \/ \E i \in Server : Propose(i, cmd)
                               \/ ProposeReturn(cmd) \/ ProposeTimeout(cmd)
    BY <1>4 DEF ClientStep
  <2>. QED  BY <2>1 DEF ProposeReturn, ProposeTimeout, logVars
<1>. QED  BY <1>1, <1>2, <1>3, <1>4 DEF Next

\* A request carries what its sender has in its log.
LEMMA RequestKinds ==
  ASSUME TypeInv, [Next]_vars, NEW r \in DOMAIN calls', r.type = "AppendEntries"
  PROVE  \/ r \in DOMAIN calls
         \/ \E c \in DOMAIN calls : c.src \in Server /\ r.entries = EntriesToSend(c.src, c.dst)
<1>1. CASE UNCHANGED vars
  BY <1>1 DEF vars
<1>2. CASE CallStep
  <2>1. PICK c \in DOMAIN calls :
          \/ HandleRequestVote(c)
          \/ StepDownOnReply(c)
          \/ DiscardReply(c)
          \/ CountVote(c)
          \/ BecomeLeader(c)
          \/ SendAppendEntries(c)
          \/ RejectStaleAppend(c)
          \/ RejectShortLog(c)
          \/ RejectMismatch(c)
          \/ AcceptEntries(c)
          \/ AdvanceOnSuccess(c)
          \/ BackOffOnFailure(c)
          \/ CrashInHandler(c)
          \/ Lose(c)
    BY <1>2 DEF CallStep
  <2>2. ASSUME NEW answer, Reply(c, answer), answer.type # "AppendEntries"
        PROVE  r \in DOMAIN calls
    BY <2>2, ReplyAdds
  <2>3. CASE HandleRequestVote(c)
    <3>1. PICK answer : Reply(c, answer) /\ answer.type = "RequestVoteReply"
      BY <2>3 DEF HandleRequestVote
    <3>. QED  BY <2>2, <3>1
  <2>4. CASE RejectStaleAppend(c) \/ RejectShortLog(c) \/ RejectMismatch(c) \/ AcceptEntries(c)
    <3>1. \E replyTerm, success, match : AppendReply(c, replyTerm, success, match)
      BY <2>4 DEF RejectStaleAppend, RejectShortLog, RejectMismatch, AcceptEntries
    <3>2. PICK answer : Reply(c, answer) /\ answer.type = "AppendEntriesReply"
      BY <3>1 DEF AppendReply
    <3>. QED  BY <2>2, <3>2
  <2>5. CASE \/ StepDownOnReply(c) \/ DiscardReply(c) \/ CountVote(c) \/ BecomeLeader(c)
             \/ AdvanceOnSuccess(c) \/ BackOffOnFailure(c) \/ Lose(c)
    <3>1. Consume(c)
      BY <2>5 DEF StepDownOnReply, DiscardReply, CountVote, BecomeLeader, AdvanceOnSuccess,
                  BackOffOnFailure, Lose
    <3>. QED  BY <3>1, ConsumeAdds
  <2>6. CASE CrashInHandler(c)
    <3>1. DOMAIN calls' \subseteq DOMAIN BagRemove(calls, c)
      BY <2>6 DEF CrashInHandler, Reboot
    <3>. QED  BY <3>1, BagRemoveDomain
  <2>7. CASE SendAppendEntries(c)
    <3>1. PICK new : /\ calls' = BagAdd(BagRemove(calls, c), new)
                     /\ new.entries = EntriesToSend(c.src, c.dst)
      BY <2>7 DEF SendAppendEntries
    <3>2. r \in DOMAIN calls \/ r = new
      <4>1. DOMAIN BagAdd(BagRemove(calls, c), new) = DOMAIN BagRemove(calls, c) \union {new}
        BY BagAddDomain
      <4>2. DOMAIN BagRemove(calls, c) \subseteq DOMAIN calls
        BY BagRemoveDomain
      <4>. QED  BY <3>1, <4>1, <4>2
    <3>3. c.src \in Server
      BY CallTyped DEF TypeInv, TypeOK
    <3>. QED  BY <3>1, <3>2, <3>3
  <2>. QED  BY <2>1, <2>3, <2>4, <2>5, <2>6, <2>7
<1>3. ASSUME NEW S, Start(S), \A x \in S : x.type # "AppendEntries"
      PROVE  r \in DOMAIN calls
  BY <1>3, StartAdds
<1>4. CASE NodeStep
  <2>1. PICK i \in Server :
          \/ StartElection(i)
          \/ BroadcastAppendEntries(i)
          \/ FetchCommitted(i)
          \/ ApplyEntry(i)
          \/ MaybeSnapshot(i)
          \/ TakeSnapshot(i)
          \/ Crash(i)
          \/ CrashInSnapshot(i)
    BY <1>4 DEF NodeStep
  <2>2. CASE StartElection(i)
    <3>1. \A j : RequestVoteCall(i, j, currentTerm[i] + 1).type # "AppendEntries"
      BY DEF RequestVoteCall
    <3>. QED  BY <1>3, <2>2, <3>1 DEF StartElection
  <2>3. CASE BroadcastAppendEntries(i)
    <3>1. \A j : SendAppendCall(i, j).type # "AppendEntries"
      BY DEF SendAppendCall
    <3>. QED  BY <1>3, <2>3, <3>1 DEF BroadcastAppendEntries
  <2>4. CASE FetchCommitted(i) \/ ApplyEntry(i) \/ MaybeSnapshot(i) \/ TakeSnapshot(i)
    BY <2>4 DEF FetchCommitted, ApplyEntry, MaybeSnapshot, TakeSnapshot
  <2>5. CASE Crash(i) \/ CrashInSnapshot(i)
    BY <2>5 DEF Crash, CrashInSnapshot, Reboot
  <2>. QED  BY <2>1, <2>2, <2>3, <2>4, <2>5
<1>5. CASE ClientStep
  <2>1. PICK cmd \in Command : \/ \E i \in Server : Propose(i, cmd)
                               \/ ProposeReturn(cmd) \/ ProposeTimeout(cmd)
    BY <1>5 DEF ClientStep
  <2>2. CASE ProposeReturn(cmd) \/ ProposeTimeout(cmd)
    BY <2>2 DEF ProposeReturn, ProposeTimeout
  <2>3. ASSUME NEW i \in Server, Propose(i, cmd)
        PROVE  r \in DOMAIN calls
    <3>1. \A j : SendAppendCall(i, j).type # "AppendEntries"
      BY DEF SendAppendCall
    <3>. QED  BY <1>3, <2>3, <3>1 DEF Propose
  <2>. QED  BY <2>1, <2>2, <2>3
<1>. QED  BY <1>1, <1>2, <1>4, <1>5 DEF Next

\* The entries without a command, and those that were proposed.
Proposed ==
  {entry \in LogEntries : entry.cmd # Nil =>
     /\ proposal[entry.cmd] # Idle
     /\ entry = EntryOf(proposal[entry.cmd], entry.cmd)}

EntriesWereProposed ==
  /\ \A i \in Server : log[i] \in Seq(Proposed)
  /\ \A c \in DOMAIN calls : c.type = "AppendEntries" => c.entries \in Seq(Proposed)

LEMMA ProposedStays ==
  ASSUME TypeInv, [Next]_vars
  PROVE  Proposed \subseteq Proposed'
<1> SUFFICES ASSUME NEW entry \in LogEntries, NEW cmd, cmd = entry.cmd, cmd # Nil,
                    proposal[cmd] # Idle, entry = EntryOf(proposal[cmd], cmd)
             PROVE  proposal'[cmd] # Idle /\ entry = EntryOf(proposal'[cmd], cmd)
  BY DEF Proposed
<1>1. cmd \in Command
  BY DEF LogEntries
<1>2. CASE NotPropose
  <2>1. proposal'[cmd].index = proposal[cmd].index /\ proposal'[cmd].term = proposal[cmd].term
    BY <1>1, <1>2, MovesInPlace
  <2>2. proposal'[cmd] # Idle
    <3>1. proposal'[cmd] = proposal[cmd] \/ Moves(cmd)
      BY <1>1, <1>2, ProposalsMove
    <3>2. CASE Moves(cmd)
      <4>1. PICK s \in {"notified", "done", "failed"} :
              proposal'[cmd] = [proposal[cmd] EXCEPT !.status = s]
        BY <3>2 DEF Moves
      <4>2. proposal[cmd] \in ProposalRecords
        BY <1>1, ProposalTyped
      <4>3. proposal'[cmd].status = s
        BY <4>1, <4>2 DEF ProposalRecords
      <4>. QED  BY <4>3 DEF Idle
    <3>. QED  BY <3>1, <3>2
  <2>. QED  BY <2>1, <2>2 DEF EntryOf
<1>3. ASSUME NEW i \in Server, NEW other \in Command, Propose(i, other)
      PROVE  proposal'[cmd] = proposal[cmd]
  BY <1>1, <1>3, ProposeParts
<1>4. NotPropose \/ \E other \in Command : \E i \in Server : Propose(i, other)
  BY StepKinds DEF NotPropose
<1>. QED  BY <1>2, <1>3, <1>4

LEMMA SeqGrows ==
  ASSUME NEW S, NEW T, S \subseteq T, NEW s \in Seq(S)
  PROVE  s \in Seq(T)
  OBVIOUS

\* What BecomeLeader and Propose append.
LEMMA AppendedWasProposed ==
  ASSUME TypeInv, TypeInv', EntriesWereProposed, [Next]_vars, NEW j \in Server,
         \/ \E c \in DOMAIN calls : BecomeLeader(c)
         \/ \E i \in Server : \E cmd \in Command : Propose(i, cmd)
  PROVE  log'[j] \in Seq(Proposed')
<1>1. log \in [Server -> Seq(LogEntries)] /\ log' \in [Server -> Seq(LogEntries)]
      /\ currentTerm \in [Server -> Nat]
  BY DEF TypeInv, TypeOK, LogTypeOK, ElectionTypeOK
<1>2. log[j] \in Seq(Proposed')
  BY ProposedStays, SeqGrows DEF EntriesWereProposed
<1>3. ASSUME NEW i \in Server, NEW entry \in Proposed', log' = [log EXCEPT ![i] = Append(log[i], entry)]
      PROVE  log'[j] \in Seq(Proposed')
  <2>1. CASE i # j
    BY <1>1, <1>2, <1>3, <2>1
  <2>2. CASE i = j
    <3>1. log'[j] = Append(log[j], entry)
      BY <1>1, <1>3, <2>2
    <3>. QED  BY <1>2, <3>1, AppendProperties
  <2>. QED  BY <2>1, <2>2
<1>4. ASSUME NEW c \in DOMAIN calls, BecomeLeader(c)
      PROVE  log'[j] \in Seq(Proposed')
  <2> DEFINE i == c.src
             noop == [term |-> currentTerm[i], index |-> LastIndex(i) + 1, cmd |-> Nil]
  <2>1. i \in Server /\ LastIndex(i) \in Nat
    BY CallTyped, LastTyped DEF TypeInv, TypeOK
  <2>2. noop \in Proposed'
    BY <1>1, <2>1 DEF Proposed, LogEntries
  <2>3. log' = [log EXCEPT ![i] = Append(log[i], noop)]
    BY <1>4 DEF BecomeLeader
  <2> HIDE DEF noop, i
  <2>. QED  BY <1>3, <2>1, <2>2, <2>3
<1>5. ASSUME NEW i \in Server, NEW cmd \in Command, Propose(i, cmd)
      PROVE  log'[j] \in Seq(Proposed')
  <2> DEFINE entry == [term |-> currentTerm[i], index |-> LastIndex(i) + 1, cmd |-> cmd]
  <2>1. LastIndex(i) \in Nat
    BY LastTyped DEF TypeInv, TypeOK
  <2>2. entry \in Proposed'
    <3>1. entry \in LogEntries /\ entry.cmd = cmd
      BY <1>1, <2>1 DEF LogEntries
    <3>2. proposal'[cmd] = [status |-> "waiting", node |-> i, index |-> LastIndex(i) + 1,
                            term |-> currentTerm[i]]
      BY <1>5, ProposeParts
    <3>3. proposal'[cmd] # Idle /\ entry = EntryOf(proposal'[cmd], cmd)
      BY <3>2 DEF Idle, EntryOf
    <3>. QED  BY <3>1, <3>3 DEF Proposed
  <2>3. log' = [log EXCEPT ![i] = Append(log[i], entry)]
    BY <1>5 DEF Propose
  <2> HIDE DEF entry
  <2>. QED  BY <1>3, <2>2, <2>3
<1>. QED  BY <1>4, <1>5

\* What the handlers and the compaction leave of a log.
LEMMA HandledWasProposed ==
  ASSUME TypeInv, TypeInv', EntriesWereProposed, [Next]_vars, NEW j \in Server,
         \/ \E c \in DOMAIN calls : RejectMismatch(c) \/ AcceptEntries(c)
         \/ \E i \in Server : TakeSnapshot(i)
  PROVE  log'[j] \in Seq(Proposed')
<1>1. /\ log \in [Server -> Seq(LogEntries)] /\ snapshotIndex \in [Server -> Nat]
      /\ lastApplied \in [Server -> Nat]
  BY DEF TypeInv, TypeOK, LogTypeOK, ApplyTypeOK
<1>2. Proposed \subseteq Proposed' /\ log[j] \in Seq(Proposed) /\ \A e \in Proposed : e.index \in Nat
  BY ProposedStays DEF EntriesWereProposed, Proposed, LogEntries
<1>3. ASSUME NEW i, NEW L \in Seq(Proposed), log' = [log EXCEPT ![i] = L]
      PROVE  log'[j] \in Seq(Proposed')
  BY <1>1, <1>2, <1>3, SeqGrows
<1>4. CASE log' = log
  BY <1>2, <1>4, SeqGrows
<1>5. ASSUME NEW c \in DOMAIN calls, RejectMismatch(c)
      PROVE  log'[j] \in Seq(Proposed')
  <2> DEFINE i == c.dst
  <2>1. c.type = "AppendEntries"
    BY <1>5 DEF RejectMismatch, FollowLeader
  <2>2. i \in Server /\ c.prevLogIndex \in Nat
    BY <2>1 DEF TypeInv, TypeOK, CallTypeOK, CallRecords
  <2>3. log[i] \in Seq(Proposed)
    BY <2>2 DEF EntriesWereProposed
  <2>4. CASE ~HasEntry(i, c.prevLogIndex)
    <3>1. log' = [log EXCEPT ![i] = log[i]]
      BY <1>5, <2>4 DEF RejectMismatch
    <3>. QED  BY <1>3, <2>3, <3>1
  <2>5. CASE HasEntry(i, c.prevLogIndex)
    <3>1. log' = [log EXCEPT ![i] = TruncateFrom(log[i], snapshotIndex[i], c.prevLogIndex)]
      BY <1>5, <2>5 DEF RejectMismatch
    <3>2. TruncateFrom(log[i], snapshotIndex[i], c.prevLogIndex) \in Seq(Proposed)
      BY <1>1, <2>2, <2>3, <2>5, TruncateFromTyped DEF HasEntry
    <3>. QED  BY <1>3, <3>1, <3>2
  <2>. QED  BY <2>4, <2>5
<1>6. ASSUME NEW c \in DOMAIN calls, AcceptEntries(c)
      PROVE  log'[j] \in Seq(Proposed')
  <2> DEFINE i == c.dst
             N == AppendAll(log[i], snapshotIndex[i], c.entries)
  <2>1. c.type = "AppendEntries"
    BY <1>6 DEF AcceptEntries, FollowLeader
  <2>2. i \in Server
    BY <2>1 DEF TypeInv, TypeOK, CallTypeOK, CallRecords
  <2>3. log[i] \in Seq(Proposed) /\ c.entries \in Seq(Proposed)
    BY <2>1, <2>2 DEF EntriesWereProposed
  <2>4. N \in Seq(Proposed)
    BY <1>1, <1>2, <2>2, <2>3, AppendAllTyped
  <2>5. log' = [log EXCEPT ![i] = N]
    BY <1>6 DEF AcceptEntries
  <2> HIDE DEF N
  <2>. QED  BY <1>3, <2>4, <2>5
<1>7. ASSUME NEW i \in Server, TakeSnapshot(i)
      PROVE  log'[j] \in Seq(Proposed')
  <2>1. CASE CanCompact(i)
    <3>1. log' = [log EXCEPT ![i] = CompactTo(log[i], snapshotIndex[i], lastApplied[i])]
      BY <1>7, <2>1 DEF TakeSnapshot
    <3>2. log[i] \in Seq(Proposed)
      BY DEF EntriesWereProposed
    <3>3. CompactTo(log[i], snapshotIndex[i], lastApplied[i]) \in Seq(Proposed)
      BY <1>1, <2>1, <3>2, CompactToTyped DEF CanCompact, HasEntry
    <3>. QED  BY <1>3, <3>1, <3>3
  <2>2. CASE ~CanCompact(i)
    BY <1>4, <1>7, <2>2 DEF TakeSnapshot, logVars
  <2>. QED  BY <2>1, <2>2
<1>. QED  BY <1>5, <1>6, <1>7

LEMMA EntriesStep ==
  ASSUME TypeInv, TypeInv', EntriesWereProposed, [Next]_vars
  PROVE  EntriesWereProposed'
<1>1. Proposed \subseteq Proposed'
  BY ProposedStays
<1>2. ASSUME NEW j \in Server
      PROVE  log'[j] \in Seq(Proposed')
  <2>1. CASE log' = log
    BY <1>1, <2>1, SeqGrows DEF EntriesWereProposed
  <2>. QED  BY <2>1, LogKinds, AppendedWasProposed, HandledWasProposed
<1>3. ASSUME NEW r \in DOMAIN calls', r.type = "AppendEntries"
      PROVE  r.entries \in Seq(Proposed')
  <2>1. CASE r \in DOMAIN calls
    BY <1>1, <1>3, <2>1, SeqGrows DEF EntriesWereProposed
  <2>2. ASSUME NEW c \in DOMAIN calls, c.src \in Server, r.entries = EntriesToSend(c.src, c.dst)
        PROVE  r.entries \in Seq(Proposed')
    <3> DEFINE i == c.src
               first == IF nextIndex[i][c.dst] <= snapshotIndex[i]
                        THEN snapshotIndex[i] + 1 ELSE nextIndex[i][c.dst]
    <3>1. i \in Server /\ c.dst \in Server
      BY CallTyped DEF TypeInv, TypeOK
    <3>2. first \in Nat /\ snapshotIndex[i] \in Nat /\ LastIndex(i) \in Nat
      <4>1. nextIndex[i][c.dst] \in Nat /\ snapshotIndex[i] \in Nat
        BY <3>1 DEF TypeInv, TypeOK, LogTypeOK
      <4>2. LastIndex(i) \in Nat
        BY <3>1, LastTyped DEF TypeInv, TypeOK
      <4>. QED  BY <4>1, <4>2
    <3>3. log[i] \in Seq(Proposed) /\ << >> \in Seq(Proposed)
      BY <3>1 DEF EntriesWereProposed
    <3> HIDE DEF first
    <3>4. EntriesBetween(log[i], snapshotIndex[i], first, LastIndex(i)) \in Seq(Proposed)
      BY <3>2, <3>3, EntriesBetweenTyped
    <3>5. EntriesToSend(i, c.dst) \in Seq(Proposed)
      BY <3>3, <3>4 DEF EntriesToSend, first
    <3>. QED  BY <1>1, <2>2, <3>5, SeqGrows
  <2>. QED  BY <1>3, <2>1, <2>2, RequestKinds
<1>. QED  BY <1>2, <1>3 DEF EntriesWereProposed

-----------------------------------------------------------------------------
(* Every result that Propose has yet to return is that of a command which its *)
(* node has executed.                                                         *)

InMachine(M, cmd) == \E p \in DOMAIN M : M[p] = cmd

NotifiedIsExecuted ==
  \A cmd \in Command :
    proposal[cmd].status = "notified" => InMachine(machine[proposal[cmd].node], cmd)

LEMMA EntryInMachine ==
  ASSUME NEW M \in Seq(Command), NEW entry, entry.cmd \in Command \union {Nil}, NEW cmd \in Command,
         InMachine(M, cmd) \/ entry.cmd = cmd
  PROVE  InMachine(AfterEntry(M, entry), cmd)
<1>1. CASE entry.cmd = Nil
  BY <1>1, NilAssumption DEF AfterEntry
<1>2. CASE entry.cmd # Nil
  <2>1. PICK x \in Command : x = entry.cmd
    BY <1>2
  <2>2. /\ Len(Append(M, x)) = Len(M) + 1 /\ Append(M, x)[Len(M) + 1] = x
        /\ \A p \in 1..Len(M) : Append(M, x)[p] = M[p]
        /\ DOMAIN Append(M, x) = 1..(Len(M) + 1) /\ DOMAIN M = 1..Len(M) /\ Len(M) \in Nat
    BY AppendProperties
  <2>3. AfterEntry(M, entry) = Append(M, x)
    BY <1>2, <2>1 DEF AfterEntry
  <2>4. CASE InMachine(M, cmd)
    <3>1. PICK p \in 1..Len(M) : M[p] = cmd
      BY <2>2, <2>4 DEF InMachine
    <3>2. p \in 1..(Len(M) + 1)
      BY <2>2
    <3>. QED  BY <2>2, <2>3, <3>1, <3>2 DEF InMachine
  <2>5. CASE x = cmd
    <3>1. Len(M) + 1 \in 1..(Len(M) + 1)
      BY <2>2
    <3>. QED  BY <2>2, <2>3, <2>5, <3>1 DEF InMachine
  <2>. QED  BY <2>1, <2>4, <2>5
<1>. QED  BY <1>1, <1>2

LEMMA NotifiedStep ==
  ASSUME Plain, NEW H, NEW A, LogInv(H, A), ChosenIsApplied(H, A), ProposalsOK(H, A),
         PendingIsInPlace, NotifiedIsExecuted, [Next]_vars
  PROVE  NotifiedIsExecuted'
<1> SUFFICES ASSUME NEW cmd \in Command, proposal'[cmd].status = "notified"
             PROVE  InMachine(machine'[proposal'[cmd].node], cmd)
  BY DEF NotifiedIsExecuted
<1>1. /\ machine \in [Server -> Seq(Command)] /\ applying \in [Server -> Seq(LogEntries)]
      /\ \A i \in Server : applyPhase[i] = "apply" => applying[i] # << >>
  BY PlainParts DEF ApplyTypeOK
<1>2. ASSUME NEW j \in Server, ApplyEntry(j)
      PROVE  /\ machine' = [machine EXCEPT ![j] = AfterEntry(machine[j], Head(applying[j]))]
             /\ Head(applying[j]).cmd \in Command \union {Nil}
  <2>1. machine' = [machine EXCEPT ![j] = AfterEntry(machine[j], Head(applying[j]))]
    BY <1>2 DEF ApplyEntry, AfterEntry
  <2>2. applying[j] # << >> /\ applying[j] \in Seq(LogEntries)
    BY <1>1, <1>2 DEF ApplyEntry
  <2>3. Head(applying[j]) \in LogEntries
    BY <2>2, HeadTailProperties
  <2>. QED  BY <2>1, <2>3 DEF LogEntries
<1>3. ASSUME NotPropose, proposal'[cmd] = proposal[cmd]
      PROVE  InMachine(machine'[proposal'[cmd].node], cmd)
  <2> DEFINE i == proposal[cmd].node
  <2>1. proposal[cmd].status = "notified" /\ proposal'[cmd].node = i /\ InMachine(machine[i], cmd)
    BY <1>3 DEF NotifiedIsExecuted
  <2>2. i \in Server
    <3>1. proposal[cmd] \in ProposalRecords
      BY <2>1, PlainParts, ProposalTyped
    <3>. QED  BY <3>1 DEF ProposalRecords
  <2>3. ASSUME NEW j \in Server, ApplyEntry(j)
        PROVE  InMachine(machine'[i], cmd)
    <3>1. CASE i = j
      <4>1. machine'[i] = AfterEntry(machine[i], Head(applying[i])) /\ machine[i] \in Seq(Command)
        BY <1>1, <1>2, <2>2, <2>3, <3>1
      <4>. QED  BY <1>2, <2>1, <2>3, <3>1, <4>1, EntryInMachine
    <3>2. CASE i # j
      BY <1>1, <1>2, <2>1, <2>2, <2>3, <3>2
    <3>. QED  BY <3>1, <3>2
  <2>4. ASSUME NEW j \in Server, NEW left, Reboot(j, left)
        PROVE  InMachine(machine'[i], cmd)
    <3>1. i # j
      <4> SUFFICES ASSUME i = j PROVE FALSE
        OBVIOUS
      <4>1. proposal'[cmd] = [proposal[cmd] EXCEPT !.status = "failed"]
        BY <2>1, <2>4 DEF Reboot
      <4>2. proposal[cmd] \in ProposalRecords
        BY <2>1, PlainParts, ProposalTyped
      <4>. QED  BY <1>3, <2>1, <4>1, <4>2 DEF ProposalRecords
    <3>2. machine' = [machine EXCEPT ![j] = snapshotFile'[j].data]
      BY <2>4 DEF Reboot
    <3>. QED  BY <1>1, <2>1, <2>2, <3>1, <3>2
  <2>5. CASE machine' = machine
    BY <2>1, <2>5
  <2>6. ASSUME NEW other \in Command, ProposeReturn(other) \/ ProposeTimeout(other)
        PROVE  machine' = machine
    BY <2>6 DEF ProposeReturn, ProposeTimeout, applyVars
  <2>7. ASSUME NEW j \in Server, FetchCommitted(j)
        PROVE  machine' = machine
    BY <2>7 DEF FetchCommitted
  <2>. QED  BY <1>3, <2>1, <2>3, <2>4, <2>5, <2>6, <2>7 DEF NotPropose
<1>4. CASE Moves(cmd)
  <2>1. PICK s \in {"notified", "done", "failed"} :
          /\ proposal[cmd] # Idle
          /\ proposal'[cmd] = [proposal[cmd] EXCEPT !.status = s]
          /\ s = "notified" =>
               \E i \in Server : LET entry == Head(applying[i]) IN
                 /\ ApplyEntry(i)
                 /\ entry.index \in DOMAIN pendingProposals[i]
                 /\ cmd = pendingProposals[i][entry.index]
                 /\ Answers(entry, cmd)
    BY <1>4 DEF Moves
  <2>2. s = "notified" /\ proposal'[cmd].node = proposal[cmd].node
    <3>1. proposal[cmd] \in ProposalRecords
      BY <2>1, PlainParts, ProposalTyped
    <3>. QED  BY <2>1, <3>1 DEF ProposalRecords
  <2>3. PICK i \in Server : LET entry == Head(applying[i]) IN
          /\ ApplyEntry(i)
          /\ entry.index \in DOMAIN pendingProposals[i]
          /\ cmd = pendingProposals[i][entry.index]
          /\ Answers(entry, cmd)
    BY <2>1, <2>2
  <2>4. PICK entry : entry = Head(applying[i])
    OBVIOUS
  <2>5. /\ ApplyEntry(i) /\ entry.index \in DOMAIN pendingProposals[i]
        /\ cmd = pendingProposals[i][entry.index] /\ Answers(entry, cmd)
    BY <2>3, <2>4
  <2>6. entry.cmd = cmd /\ proposal[cmd].node = i
    BY <2>4, <2>5, AnswerIsChosen
  <2>7. machine'[i] = AfterEntry(machine[i], entry) /\ machine[i] \in Seq(Command)
    BY <1>1, <1>2, <2>4, <2>5
  <2>. QED  BY <2>2, <2>6, <2>7, EntryInMachine
<1>5. ASSUME NEW i \in Server, NEW new \in Command, Propose(i, new)
      PROVE  InMachine(machine'[proposal'[cmd].node], cmd)
  <2>1. /\ proposal'[new] = [status |-> "waiting", node |-> i, index |-> LastIndex(i) + 1,
                             term |-> currentTerm[i]]
        /\ \A other \in Command \ {new} : proposal'[other] = proposal[other]
    BY <1>5, PlainParts, ProposeParts
  <2>2. cmd # new /\ proposal'[cmd] = proposal[cmd]
    BY <2>1
  <2>3. machine' = machine
    BY <1>5 DEF Propose, applyVars
  <2>. QED  BY <2>2, <2>3 DEF NotifiedIsExecuted
<1>6. NotPropose \/ \E new \in Command : \E i \in Server : Propose(i, new)
  BY PlainParts, StepKinds DEF NotPropose
<1>. QED  BY <1>3, <1>4, <1>5, <1>6, PlainParts, ProposalsMove

\* Whoever is pending still waits for its result.
PendingIsWaiting ==
  \A i \in Server : \A n \in DOMAIN pendingProposals[i] :
    proposal[pendingProposals[i][n]].status = "waiting"

LEMMA PendingWaitsStep ==
  ASSUME TypeInv, PendingIsInPlace, PendingIsWaiting, [Next]_vars
  PROVE  PendingIsWaiting'
<1> SUFFICES ASSUME NEW i \in Server, NEW n \in DOMAIN pendingProposals'[i]
             PROVE  proposal'[pendingProposals'[i][n]].status = "waiting"
  BY DEF PendingIsWaiting
<1>1. /\ proposal \in [Command -> {Idle} \union ProposalRecords]
      /\ DOMAIN pendingProposals = Server
      /\ \A j \in Server : \A m \in DOMAIN pendingProposals[j] : pendingProposals[j][m] \in Command
  BY ProposalTyped
<1>2. ASSUME NotPropose
      PROVE  proposal'[pendingProposals'[i][n]].status = "waiting"
  <2>1. n \in DOMAIN pendingProposals[i] /\ pendingProposals'[i][n] = pendingProposals[i][n]
    BY <1>2, PendingShrinks DEF NothingPendingAdded
  <2> DEFINE cmd == pendingProposals[i][n]
             p == proposal[cmd]
  <2>2. /\ cmd \in Command /\ pendingProposals'[i][n] = cmd
        /\ p.index = n /\ p.node = i /\ p.status = "waiting"
    BY <1>1, <2>1 DEF PendingIsInPlace, PendingIsWaiting
  <2> HIDE DEF cmd
  <2>3. CASE proposal'[cmd] = p
    BY <2>2, <2>3
  <2>4. CASE proposal' = proposal
    BY <2>3, <2>4
  <2>5. ASSUME NEW j \in Server, ApplyEntry(j)
        PROVE  proposal'[cmd] = p
    <3> DEFINE e == Head(applying[j]).index
               other == pendingProposals[j][e]
    <3>1. /\ pendingProposals' = [pendingProposals EXCEPT ![j] = WithoutPending(j, e)]
          /\ \/ e \in DOMAIN pendingProposals[j]
                /\ proposal' = [proposal EXCEPT ![other].status = "notified"]
             \/ proposal' = proposal
      BY <2>5 DEF ApplyEntry
    <3>2. CASE proposal' = proposal
      BY <3>2
    <3>3. CASE e \in DOMAIN pendingProposals[j]
               /\ proposal' = [proposal EXCEPT ![other].status = "notified"]
      <4>1. other \in Command /\ proposal[other].index = e /\ proposal[other].node = j
        BY <1>1, <3>3 DEF PendingIsInPlace
      <4>2. other # cmd
        <5> SUFFICES ASSUME other = cmd PROVE FALSE
          OBVIOUS
        <5>1. e = n /\ j = i
          BY <2>2, <4>1
        <5>2. pendingProposals'[i] = WithoutPending(i, n)
          BY <1>1, <3>1, <5>1
        <5>. QED  BY <5>2 DEF WithoutPending
      <4> HIDE DEF other
      <4>. QED  BY <1>1, <2>2, <3>3, <4>1, <4>2
    <3>. QED  BY <3>1, <3>2, <3>3
  <2>6. ASSUME NEW j \in Server, NEW left, Reboot(j, left)
        PROVE  proposal'[cmd] = p
    <3>1. pendingProposals' = [pendingProposals EXCEPT ![j] = << >>]
      BY <2>6 DEF Reboot
    <3>2. i # j
      BY <1>1, <3>1
    <3>. QED  BY <2>2, <2>6, <3>2 DEF Reboot
  <2>7. ASSUME NEW other \in Command, ProposeReturn(other)
        PROVE  proposal'[cmd] = p
    <3>1. proposal[other].status = "notified" /\ proposal' = [proposal EXCEPT ![other].status = "done"]
      BY <2>7 DEF ProposeReturn
    <3>. QED  BY <1>1, <2>2, <3>1
  <2>8. ASSUME NEW other \in Command, ProposeTimeout(other)
        PROVE  proposal'[cmd] = p
    <3> DEFINE j == proposal[other].node
               m == proposal[other].index
    <3>1. /\ proposal' = [proposal EXCEPT ![other].status = "failed"]
          /\ pendingProposals' = [pendingProposals EXCEPT ![j] = WithoutPending(j, m)]
      BY <2>8 DEF ProposeTimeout
    <3>2. other # cmd
      <4> SUFFICES ASSUME other = cmd PROVE FALSE
        OBVIOUS
      <4>1. pendingProposals'[i] = WithoutPending(i, n)
        BY <1>1, <2>2, <3>1
      <4>. QED  BY <4>1 DEF WithoutPending
    <3>. QED  BY <1>1, <2>2, <3>1, <3>2
  <2>9. ASSUME NEW j \in Server, FetchCommitted(j)
        PROVE  proposal' = proposal
    BY <2>9 DEF FetchCommitted, clientVars
  <2>. QED  BY <1>2, <2>2, <2>3, <2>4, <2>5, <2>6, <2>7, <2>8, <2>9 DEF NotPropose, clientVars
<1>3. ASSUME NEW j \in Server, NEW new \in Command, Propose(j, new)
      PROVE  proposal'[pendingProposals'[i][n]].status = "waiting"
  <2> DEFINE index == LastIndex(j) + 1
  <2>1. /\ proposal[new] = Idle
        /\ proposal'[new] = [status |-> "waiting", node |-> j, index |-> index,
                             term |-> currentTerm[j]]
        /\ \A other \in Command \ {new} : proposal'[other] = proposal[other]
        /\ DOMAIN pendingProposals'[j] = DOMAIN pendingProposals[j] \union {index}
        /\ pendingProposals'[j][index] = new
        /\ \A m \in DOMAIN pendingProposals[j] \ {index} :
             pendingProposals'[j][m] = pendingProposals[j][m]
        /\ \A l \in Server \ {j} : pendingProposals'[l] = pendingProposals[l]
    BY <1>3, ProposeParts
  <2> HIDE DEF index
  <2>2. CASE i = j /\ n = index
    BY <2>1, <2>2
  <2>3. CASE ~(i = j /\ n = index)
    <3>1. n \in DOMAIN pendingProposals[i] /\ pendingProposals'[i][n] = pendingProposals[i][n]
      BY <2>1, <2>3
    <3> DEFINE cmd == pendingProposals[i][n]
    <3>2. cmd \in Command /\ proposal[cmd].status = "waiting" /\ pendingProposals'[i][n] = cmd
      BY <1>1, <3>1 DEF PendingIsWaiting
    <3> HIDE DEF cmd
    <3>3. cmd # new
      BY <2>1, <3>2 DEF Idle
    <3>. QED  BY <2>1, <3>2, <3>3
  <2>. QED  BY <2>2, <2>3
<1>4. NotPropose \/ \E new \in Command : \E j \in Server : Propose(j, new)
  BY StepKinds DEF NotPropose
<1>. QED  BY <1>2, <1>3, <1>4

-----------------------------------------------------------------------------
(* What is decided. *)

\* L holds nothing but entries before a chosen one.
IsChosen(H, A, L) ==
  \/ L = << >>
  \/ \E t \in Terms : \E n \in Created(H, t) :
       Chosen(H, A, n, t) /\ Len(L) <= n /\ Agree(L, H[t], Len(L))

LEMMA IsChosenGrows ==
  ASSUME NEW H, NEW A, NEW H2, NEW A2, LogsAreTyped(H), LogsAreTyped(H2),
         HistoriesKept(H, A, H2, A2), NEW L \in Seq(LogEntries), IsChosen(H, A, L)
  PROVE  IsChosen(H2, A2, L)
<1>1. CASE L = << >>
  BY <1>1 DEF IsChosen
<1>2. CASE L # << >>
  <2>1. PICK t \in Terms : \E n \in Created(H, t) :
          Chosen(H, A, n, t) /\ Len(L) <= n /\ Agree(L, H[t], Len(L))
    BY <1>2 DEF IsChosen
  <2>2. PICK n \in Created(H, t) : Chosen(H, A, n, t) /\ Len(L) <= n /\ Agree(L, H[t], Len(L))
    BY <2>1
  <2>3. Chosen(H2, A2, n, t) /\ Agree(H[t], H2[t], Len(H[t])) /\ n \in Created(H2, t)
    BY <2>2 DEF HistoriesKept, LogsGrow, Chosen
  <2>4. H[t] \in Seq(LogEntries) /\ H2[t] \in Seq(LogEntries) /\ Len(L) \in Nat
    BY DEF LogsAreTyped
  <2>5. Agree(L, H2[t], Len(L))
    BY <2>2, <2>3, <2>4, AgreeGrows
  <2>. QED  BY <2>2, <2>3, <2>5 DEF IsChosen
<1>. QED  BY <1>1, <1>2

\* Of two such logs the longer one continues the other.
LEMMA ChosenContinues ==
  ASSUME NEW H, NEW A, LogsAreTyped(H), ChosenAgree(H, A),
         NEW L \in Seq(LogEntries), NEW M \in Seq(LogEntries), Len(L) <= Len(M),
         IsChosen(H, A, L), IsChosen(H, A, M)
  PROVE  Agree(L, M, Len(L)) /\ (Len(L) = Len(M) => L = M)
<1>1. Len(L) \in Nat /\ Len(M) \in Nat
  OBVIOUS
<1>2. CASE L = << >>
  BY <1>1, <1>2, EmptySeq DEF Agree
<1>3. CASE L # << >>
  <2>1. Len(L) # 0 /\ Len(M) # 0 /\ M # << >>
    BY <1>1, <1>3, EmptySeq
  <2>2. PICK t \in Terms : \E n \in Created(H, t) :
          Chosen(H, A, n, t) /\ Len(L) <= n /\ Agree(L, H[t], Len(L))
    BY <1>3 DEF IsChosen
  <2>3. PICK n \in Created(H, t) : Chosen(H, A, n, t) /\ Len(L) <= n /\ Agree(L, H[t], Len(L))
    BY <2>2
  <2>4. PICK u \in Terms : \E m \in Created(H, u) :
          Chosen(H, A, m, u) /\ Len(M) <= m /\ Agree(M, H[u], Len(M))
    BY <2>1 DEF IsChosen
  <2>5. PICK m \in Created(H, u) : Chosen(H, A, m, u) /\ Len(M) <= m /\ Agree(M, H[u], Len(M))
    BY <2>4
  <2>6. n \in Nat /\ m \in Nat /\ Len(L) <= m /\ H[u] \in Seq(LogEntries)
    BY <1>1, <2>3, <2>5 DEF LogsAreTyped, Created
  <2>7. Agree(H[t], H[u], Len(L))
    BY <1>1, <2>3, <2>5, <2>6 DEF ChosenAgree
  <2>8. Agree(H[u], M, Len(L))
    BY <1>1, <2>5, <2>6, AgreeShorter, AgreeSym
  <2>9. Agree(L, M, Len(L))
    BY <2>3, <2>7, <2>8, AgreeTrans
  <2>10. CASE Len(L) = Len(M)
    <3>1. \A p \in 1..Len(L) : L[p] = M[p]
      BY <2>9 DEF Agree
    <3>. QED  BY <2>9, <2>10, <3>1, SeqEqual
  <2>. QED  BY <2>9, <2>10
<1>4. Len(L) = Len(M) /\ L = << >> => L = M
  BY <1>1, EmptySeq
<1>. QED  BY <1>2, <1>3, <1>4

\* The first entries of a committed log.
LEMMA CommittedPrefix ==
  ASSUME NEW H, NEW A, LogsAreTyped(H), NEW L \in Seq(LogEntries), NEW u, NEW c \in Nat,
         CommittedUpTo(H, A, L, u, c)
  PROVE  LET C == EntriesBetween(L, 0, 1, c) IN
         C \in Seq(LogEntries) /\ Len(C) = c /\ IsChosen(H, A, C)
<1> DEFINE C == EntriesBetween(L, 0, 1, c)
<1>1. c <= Len(L)
  <2>1. CASE c > 0
    <3>1. PICK t \in Terms : \E n \in Created(H, t) :
            Chosen(H, A, n, t) /\ c <= n /\ Agree(L, H[t], c)
      BY <2>1 DEF CommittedUpTo
    <3>. QED  BY <3>1 DEF Agree
  <2>2. CASE c = 0
    <3>1. Len(L) \in Nat
      OBVIOUS
    <3>. QED  BY <2>2, <3>1
  <2>. QED  BY <2>1, <2>2
<1>2. C = SubSeq(L, 1, c)
  <2>1. 0 + 1 = 1 /\ 0 \in Nat
    OBVIOUS
  <2>. QED  BY <1>1, <2>1, WholeBetween
<1>3. c \in 0..Len(L)
  BY <1>1
<1>4. C \in Seq(LogEntries) /\ Len(C) = c /\ Agree(C, L, c)
  BY <1>2, <1>3, FirstEntries
<1> HIDE DEF C
<1>5. IsChosen(H, A, C)
  <2>1. CASE c = 0
    BY <1>4, <2>1, EmptySeq DEF IsChosen
  <2>2. CASE c > 0
    <3>1. PICK t \in Terms : \E n \in Created(H, t) :
            Chosen(H, A, n, t) /\ c <= n /\ Agree(L, H[t], c)
      BY <2>2 DEF CommittedUpTo
    <3>2. PICK n \in Created(H, t) : Chosen(H, A, n, t) /\ c <= n /\ Agree(L, H[t], c)
      BY <3>1
    <3>3. Agree(C, H[t], c)
      BY <1>4, <3>2, AgreeTrans
    <3>. QED  BY <1>4, <3>2, <3>3 DEF IsChosen
  <2>. QED  BY <2>1, <2>2
<1>. QED  BY <1>4, <1>5 DEF C

LEMMA LongestIs ==
  ASSUME NEW S, NEW p \in S, \A q \in S : Len(q) <= Len(p)
  PROVE  Longest(S) \in S /\ \A q \in S : Len(q) <= Len(Longest(S))
  BY DEF Longest

\* What is decided is chosen and proposed, and nobody is ahead of it.
DecidedOK(H, A) ==
  /\ decided \in Seq(Proposed)
  /\ IsChosen(H, A, decided)
  /\ \A i \in Server : commitIndex[i] <= Len(decided)
  /\ \A i \in Server : lastApplied[i] + Len(applying[i]) <= Len(decided)

\* RecordDecided keeps what was decided and follows whoever knows more.
LEMMA RecordStep ==
  ASSUME Plain', NEW H, NEW A, LogInv(H, A)', LogsAreTyped(H), ChosenAgree(H, A),
         EntriesWereProposed', Proposed \subseteq Proposed',
         decided \in Seq(Proposed), IsChosen(H, A, decided), RecordDecided
  PROVE  /\ decided' \in Seq(Proposed') /\ IsChosen(H, A, decided')
         /\ Agree(decided, decided', Len(decided))
         /\ \A i \in Server : commitIndex'[i] <= Len(decided')
         /\ (\A i \in Server : commitIndex'[i] <= Len(decided)) => decided' = decided
<1> DEFINE C(i) == EntriesBetween(log'[i], 0, 1, commitIndex'[i])
           S == {decided} \union {C(i) : i \in Server}
<1>1. /\ log' \in [Server -> Seq(LogEntries)] /\ commitIndex' \in [Server -> Nat]
      /\ \A i \in Server : snapshotIndex'[i] = 0
  BY DEF Plain, TypeInv, TypeOK, LogTypeOK
<1>2. decided' = Longest(S)
  BY <1>1 DEF RecordDecided, Committed
<1>3. ASSUME NEW i \in Server
      PROVE  /\ C(i) \in Seq(LogEntries) /\ Len(C(i)) = commitIndex'[i]
             /\ IsChosen(H, A, C(i)) /\ C(i) \in Seq(Proposed')
  <2>1. CommittedUpTo(H, A, log'[i], currentTerm'[i], commitIndex'[i])
    BY DEF LogInv, CommitsOK
  <2>2. log'[i] \in Seq(LogEntries) /\ commitIndex'[i] \in Nat /\ log'[i] \in Seq(Proposed')
        /\ 0 \in Nat /\ 1 \in Nat
    BY <1>1 DEF EntriesWereProposed
  <2>3. EntriesBetween(log'[i], 0, 1, commitIndex'[i]) \in Seq(Proposed')
    BY <2>2, EntriesBetweenTyped
  <2>. QED  BY <2>1, <2>2, <2>3, CommittedPrefix
<1>4. decided \in Seq(LogEntries) /\ decided \in Seq(Proposed')
  <2>1. Proposed \subseteq LogEntries
    BY DEF Proposed
  <2>. QED  BY <2>1, SeqGrows
<1> HIDE DEF C
<1>5. \E p \in S : \A q \in S : Len(q) <= Len(p)
  <2>1. PICK j \in Server : \A i \in Server : commitIndex'[j] >= commitIndex'[i]
    BY <1>1, ServerAssumption, GreatestValue
  <2>2. Len(decided) \in Nat /\ commitIndex'[j] \in Nat
    BY <1>1, <1>4
  <2>3. CASE commitIndex'[j] <= Len(decided)
    <3>1. \A i \in Server : Len(C(i)) <= Len(decided)
      BY <1>1, <1>3, <2>1, <2>2, <2>3
    <3>. QED  BY <2>2, <3>1
  <2>4. CASE Len(decided) < commitIndex'[j]
    <3>1. \A q \in S : Len(q) <= Len(C(j))
      BY <1>1, <1>3, <2>1, <2>2, <2>4
    <3>. QED  BY <3>1
  <2>. QED  BY <2>2, <2>3, <2>4
<1>6. decided' \in S /\ \A q \in S : Len(q) <= Len(decided')
  BY <1>2, <1>5, LongestIs
<1>7. decided' \in Seq(Proposed') /\ IsChosen(H, A, decided') /\ decided' \in Seq(LogEntries)
  BY <1>3, <1>4, <1>6
<1>8. Agree(decided, decided', Len(decided))
  BY <1>4, <1>6, <1>7, ChosenContinues
<1>9. \A i \in Server : commitIndex'[i] <= Len(decided')
  BY <1>3, <1>6
<1>10. ASSUME \A i \in Server : commitIndex'[i] <= Len(decided)
       PROVE  decided' = decided
  <2>1. CASE decided' = decided
    BY <2>1
  <2>2. ASSUME NEW i \in Server, decided' = C(i)
        PROVE  decided' = decided
    <3>1. Len(decided') <= Len(decided) /\ Len(decided) <= Len(decided')
      BY <1>3, <1>6, <1>10, <2>2
    <3>2. Len(decided') = Len(decided)
      <4>1. Len(decided') \in Nat /\ Len(decided) \in Nat
        BY <1>4, <1>7
      <4>. QED  BY <3>1, <4>1
    <3>. QED  BY <1>4, <1>7, <3>2, ChosenContinues
  <2>. QED  BY <1>6, <2>1, <2>2
<1>. QED  BY <1>7, <1>8, <1>9, <1>10

DecidedInv(H, A) ==
  ServiceInv(H, A) /\ NotifiedIsExecuted /\ PendingIsWaiting /\ DecidedOK(H, A)

\* An apply loop stays behind what its node knows to be committed, and behind
\* what is decided.
LEMMA ApplyStaysBehind ==
  ASSUME Plain, Plain', NEW H, NEW A, ServiceInv(H, A), [Next]_vars, NEW m \in Nat,
         NEW i \in Server, commitIndex[i] <= m, lastApplied[i] + Len(applying[i]) <= m
  PROVE  lastApplied'[i] + Len(applying'[i]) <= m
<1>1. /\ lastApplied \in [Server -> Nat] /\ applying \in [Server -> Seq(LogEntries)]
      /\ log \in [Server -> Seq(LogEntries)] /\ commitIndex \in [Server -> Nat]
      /\ applyPhase[i] = "apply" => applying[i] # << >>
  BY PlainParts DEF ApplyTypeOK, LogTypeOK
<1>2. lastApplied[i] \in Nat /\ applying[i] \in Seq(LogEntries) /\ Len(applying[i]) \in Nat
  <2>1. applying[i] \in Seq(LogEntries) /\ lastApplied[i] \in Nat
    BY <1>1
  <2>. QED  BY <2>1
<1>3. CASE lastApplied'[i] = lastApplied[i] /\ applying'[i] = applying[i]
  BY <1>3
<1>4. ASSUME NEW j \in Server, FetchCommitted(j)
      PROVE  lastApplied'[i] + Len(applying'[i]) <= m
  <2> DEFINE B == EntriesBetween(log[j], snapshotIndex[j], lastApplied[j] + 1, commitIndex[j])
  <2>1. /\ commitIndex[j] > lastApplied[j] /\ lastApplied' = lastApplied
        /\ applying' = [applying EXCEPT ![j] = B]
    BY <1>4 DEF FetchCommitted
  <2> HIDE DEF B
  <2>2. CASE i # j
    BY <1>1, <1>3, <2>1, <2>2
  <2>3. CASE i = j
    <3> DEFINE k == lastApplied[i]
               c == commitIndex[i]
    <3>1. /\ k \in Nat /\ c \in Nat /\ log[i] \in Seq(LogEntries) /\ c > k
      BY <1>1, <2>1, <2>3
    <3>2. c <= Len(log[i])
      <4>1. CommittedUpTo(H, A, log[i], currentTerm[i], c)
        BY DEF ServiceInv, LogInv, CommitsOK
      <4>2. c > 0
        BY <3>1
      <4>. QED  BY <4>1, <4>2 DEF CommittedUpTo, Agree
    <3>3. snapshotIndex[i] = 0
      BY DEF Plain
    <3>4. B = SubSeq(log[i], k + 1, c)
      BY <2>3, <3>1, <3>2, <3>3, WholeBetween DEF B
    <3>5. Len(B) = c - k
      <4>1. k + 1 \in Nat /\ k + 1 <= c /\ \A p \in (k + 1)..c : log[i][p] \in LogEntries
        <5>1. \A p \in (k + 1)..c : p \in 1..Len(log[i])
          <6>1. Len(log[i]) \in Nat
            BY <3>1
          <6>. QED  BY <3>1, <3>2, <6>1
        <5>. QED  BY <3>1, <5>1, ElementOfSeq
      <4>2. Len(SubSeq(log[i], k + 1, c)) = IF k + 1 <= c THEN c - (k + 1) + 1 ELSE 0
        BY <3>1, <4>1, SubSeqProperties
      <4>. QED  BY <3>1, <3>4, <4>1, <4>2
    <3>6. lastApplied'[i] = k /\ applying'[i] = B
      BY <1>1, <2>1, <2>3
    <3>. QED  BY <3>1, <3>5, <3>6
  <2>. QED  BY <2>2, <2>3
<1>5. ASSUME NEW j \in Server, ApplyEntry(j)
      PROVE  lastApplied'[i] + Len(applying'[i]) <= m
  <2>1. /\ applyPhase[j] = "apply"
        /\ lastApplied' = [lastApplied EXCEPT ![j] = Head(applying[j]).index]
        /\ applying' = [applying EXCEPT ![j] = Tail(applying[j])]
    BY <1>5 DEF ApplyEntry
  <2>2. CASE i # j
    BY <1>1, <1>3, <2>1, <2>2
  <2>3. CASE i = j
    <3>1. applying[i] # << >>
      BY <1>1, <2>1, <2>3
    <3>2. LogsAreTyped(H) /\ \A t \in Terms : GoodLog(H, H[t])
      BY HistoryParts DEF ServiceInv, LogsAreTyped, LogInv, LeaderLogs
    <3>3. Applied(H, A, lastApplied[i], machine[i], applying[i])
      BY DEF ServiceInv, ChosenIsApplied
    <3>4. Head(applying[i]).index = lastApplied[i] + 1
      BY <1>2, <3>1, <3>2, <3>3, AppliedEntry
    <3>5. Len(Tail(applying[i])) = Len(applying[i]) - 1
      BY <1>2, <3>1, HeadTailProperties
    <3>6. lastApplied'[i] = lastApplied[i] + 1 /\ applying'[i] = Tail(applying[i])
      BY <1>1, <2>1, <2>3, <3>4
    <3>. QED  BY <1>2, <3>5, <3>6
  <2>. QED  BY <2>2, <2>3
<1>6. ASSUME NEW j \in Server, NEW left, Reboot(j, left)
      PROVE  lastApplied'[i] + Len(applying'[i]) <= m
  <2>1. /\ lastApplied' = [lastApplied EXCEPT ![j] = snapshotIndex[j]]
        /\ applying' = [applying EXCEPT ![j] = << >>]
    BY <1>6 DEF Reboot
  <2>2. CASE i # j
    BY <1>1, <1>3, <2>1, <2>2
  <2>3. CASE i = j
    <3>1. lastApplied'[i] = 0 /\ applying'[i] = << >>
      BY <1>1, <2>1, <2>3 DEF Plain
    <3>. QED  BY <3>1, EmptySeq
  <2>. QED  BY <2>2, <2>3
<1>7. CASE UNCHANGED <<lastApplied, machine, applying, clientVars>>
  BY <1>3, <1>7
<1>8. ASSUME NEW cmd \in Command,
             (\E j \in Server : Propose(j, cmd)) \/ ProposeReturn(cmd) \/ ProposeTimeout(cmd)
      PROVE  lastApplied' = lastApplied /\ applying' = applying
  BY <1>8 DEF Propose, ProposeReturn, ProposeTimeout, applyVars
<1>. QED  BY <1>3, <1>4, <1>5, <1>6, <1>7, <1>8, StepKinds, PlainParts

LEMMA DecidedStep ==
  ASSUME Plain, Plain', NoSnapshots', SnapshotsAreOnDisk', EntriesWereProposed,
         EntriesWereProposed', [Next /\ RecordDecided]_refinementVars,
         NEW H, NEW A, DecidedInv(H, A)
  PROVE  \E H2, A2 :
           /\ HistoriesKept(H, A, H2, A2)
           /\ DecidedInv(H2, A2)'
           /\ Agree(decided, decided', Len(decided))
           /\ (\A i \in Server : commitIndex'[i] <= commitIndex[i]) => decided' = decided
<1>1. [Next]_vars
  BY DEF refinementVars
<1>2. ServiceInv(H, A) /\ NotifiedIsExecuted /\ PendingIsWaiting /\ DecidedOK(H, A)
  BY DEF DecidedInv
<1>3. PICK H2, A2 : HistoriesKept(H, A, H2, A2) /\ ServiceInv(H2, A2)'
  BY <1>1, <1>2, ServiceStep
<1>4. LogsAreTyped(H) /\ LogsAreTyped(H2) /\ ChosenAgree(H2, A2) /\ LogInv(H2, A2)'
  <2>1. LogsAreTyped(H)
    BY <1>2, HistoryParts DEF LogsAreTyped, ServiceInv
  <2>2. LogInv(H2, A2)'
    BY <1>3 DEF ServiceInv
  <2>3. H2 \in [Terms -> Seq(LogEntries)]
    BY <2>2 DEF LogInv, HistoryTyped
  <2>4. LogsAreTyped(H2)
    <3>1. \A t \in Terms : t \in Nat /\ H2[t] \in Seq(LogEntries)
      BY <2>3 DEF Terms
    <3>. QED  BY <3>1 DEF LogsAreTyped
  <2>5. ElectionInv'
    BY DEF Plain
  <2>. QED  BY <2>1, <2>2, <2>4, <2>5, ChosenNext
<1>5. NotifiedIsExecuted' /\ PendingIsWaiting'
  <2>1. NotifiedIsExecuted'
    BY <1>1, <1>2, NotifiedStep DEF ServiceInv
  <2>2. PendingIsWaiting'
    BY <1>1, <1>2, PlainParts, PendingWaitsStep DEF ServiceInv
  <2>. QED  BY <2>1, <2>2
<1>6. /\ decided \in Seq(Proposed) /\ IsChosen(H, A, decided)
      /\ \A i \in Server : commitIndex[i] <= Len(decided)
      /\ \A i \in Server : lastApplied[i] + Len(applying[i]) <= Len(decided)
  BY <1>2 DEF DecidedOK
<1>7. decided \in Seq(LogEntries) /\ Len(decided) \in Nat
  <2>1. Proposed \subseteq LogEntries
    BY DEF Proposed
  <2>2. decided \in Seq(LogEntries)
    BY <1>6, <2>1, SeqGrows
  <2>. QED  BY <2>2
<1>8. IsChosen(H2, A2, decided)
  BY <1>3, <1>4, <1>6, <1>7, IsChosenGrows
<1>9. Proposed \subseteq Proposed'
  BY <1>1, PlainParts, ProposedStays
<1>10. \A i \in Server : lastApplied'[i] + Len(applying'[i]) <= Len(decided)
  BY <1>1, <1>2, <1>6, <1>7, ApplyStaysBehind
<1>11. /\ lastApplied' \in [Server -> Nat] /\ commitIndex' \in [Server -> Nat]
       /\ commitIndex \in [Server -> Nat]
       /\ \A i \in Server : Len(applying'[i]) \in Nat
  <2>1. /\ lastApplied' \in [Server -> Nat] /\ commitIndex' \in [Server -> Nat]
        /\ commitIndex \in [Server -> Nat] /\ applying' \in [Server -> Seq(LogEntries)]
    BY DEF Plain, TypeInv, TypeOK, ApplyTypeOK, LogTypeOK
  <2>2. \A i \in Server : applying'[i] \in Seq(LogEntries)
    BY <2>1
  <2>. QED  BY <2>1, <2>2
<1>12. CASE RecordDecided
  <2>1. /\ decided' \in Seq(Proposed') /\ IsChosen(H2, A2, decided')
        /\ Agree(decided, decided', Len(decided))
        /\ \A i \in Server : commitIndex'[i] <= Len(decided')
        /\ (\A i \in Server : commitIndex'[i] <= Len(decided)) => decided' = decided
    BY <1>4, <1>6, <1>8, <1>9, <1>12, RecordStep
  <2>2. \A i \in Server : lastApplied'[i] + Len(applying'[i]) <= Len(decided')
    <3>1. Len(decided') \in Nat
      BY <2>1
    <3>2. Len(decided) <= Len(decided')
      BY <2>1 DEF Agree
    <3>. QED  BY <1>7, <1>10, <1>11, <3>1, <3>2
  <2>3. DecidedOK(H2, A2)'
    BY <2>1, <2>2 DEF DecidedOK, IsChosen
  <2>4. ASSUME \A i \in Server : commitIndex'[i] <= commitIndex[i]
        PROVE  decided' = decided
    BY <1>6, <1>7, <1>11, <2>1, <2>4
  <2>. QED  BY <1>3, <1>5, <2>1, <2>3, <2>4 DEF DecidedInv
<1>13. CASE UNCHANGED refinementVars
  <2>1. decided' = decided /\ commitIndex' = commitIndex
    BY <1>13 DEF refinementVars, vars
  <2>2. decided' \in Seq(Proposed')
    BY <1>6, <1>9, <2>1, SeqGrows
  <2>3. DecidedOK(H2, A2)'
    BY <1>6, <1>8, <1>10, <2>1, <2>2 DEF DecidedOK, IsChosen
  <2>4. Agree(decided, decided', Len(decided))
    BY <1>7, <2>1 DEF Agree
  <2>. QED  BY <1>3, <1>5, <2>1, <2>3, <2>4 DEF DecidedInv
<1>. QED  BY <1>12, <1>13

-----------------------------------------------------------------------------
(* Module Raft implements module ReplicatedLog.                              *)

CommandSlots(L) == [n \in DOMAIN L |-> L[n].cmd]

Ledger == CommandSlots(decided)

Told == [cmd \in Command |-> ToldTo(cmd)]

LEMMA CommandSlotsTyped ==
  ASSUME NEW L \in Seq(LogEntries)
  PROVE  /\ CommandSlots(L) \in Seq(Command \union {Nil})
         /\ Len(CommandSlots(L)) = Len(L) /\ DOMAIN CommandSlots(L) = 1..Len(L) /\ Len(L) \in Nat
         /\ \A n \in 1..Len(L) : CommandSlots(L)[n] = L[n].cmd
<1>1. Len(L) \in Nat /\ DOMAIN L = 1..Len(L)
  OBVIOUS
<1>2. \A n \in 1..Len(L) : L[n].cmd \in Command \union {Nil}
  <2> TAKE n \in 1..Len(L)
  <2>1. L[n] \in LogEntries
    BY <1>1
  <2>. QED  BY <2>1 DEF LogEntries
<1>3. CommandSlots(L) \in [1..Len(L) -> Command \union {Nil}]
  BY <1>1, <1>2 DEF CommandSlots
<1>4. CommandSlots(L) \in Seq(Command \union {Nil})
  BY <1>1, <1>3, SeqDef
<1>5. Len(CommandSlots(L)) = Len(L)
  BY <1>1, <1>3, <1>4
<1>. QED  BY <1>1, <1>3, <1>4, <1>5 DEF CommandSlots

Tells(p) ==
  [status |-> IF p.status = "notified" THEN "waiting" ELSE p.status, node |-> p.node]

LEMMA ToldIs ==
  /\ Told = [cmd \in Command |-> Tells(proposal[cmd])]
  /\ Told' = [cmd \in Command |-> Tells(proposal'[cmd])]
<1>1. ASSUME NEW cmd
      PROVE  ToldTo(cmd) = Tells(proposal[cmd]) /\ ToldTo(cmd)' = Tells(proposal'[cmd])
  BY DEF ToldTo, Tells
<1>. QED  BY <1>1 DEF Told

LEMMA LedgerIs == Ledger' = CommandSlots(decided')
  BY DEF Ledger, CommandSlots

LEMMA InitOfLog ==
  ASSUME Init, decided = << >>
  PROVE  Abstract!Init
<1>1. Ledger = << >>
  BY DEF Ledger, CommandSlots
<1>2. Ledger \in Seq({Nil}) /\ Len(Ledger) = 0
  BY <1>1, EmptySeq
<1>3. lastApplied \in [Server -> 0..Len(Ledger)]
  BY <1>2 DEF Init
<1>4. Told = [cmd \in Command |-> [status |-> "idle", node |-> Nil]]
  <2>1. Tells(Idle) = [status |-> "idle", node |-> Nil]
    BY DEF Tells, Idle
  <2>2. \A cmd \in Command : proposal[cmd] = Idle
    BY DEF Init
  <2>. QED  BY <2>1, <2>2, ToldIs
<1>5. machine = [i \in Server |-> << >>]
  BY DEF Init
<1>. QED  BY <1>2, <1>3, <1>4, <1>5 DEF Abstract!Init, Ledger, CommandSlots, Told

LEMMA ProposeIsPropose ==
  ASSUME TypeInv, NEW i \in Server, NEW cmd \in Command, Propose(i, cmd), decided' = decided
  PROVE  Abstract!Propose(i, cmd)
<1>1. /\ proposal[cmd] = Idle
      /\ proposal'[cmd] = [status |-> "waiting", node |-> i, index |-> LastIndex(i) + 1,
                           term |-> currentTerm[i]]
      /\ \A other \in Command \ {cmd} : proposal'[other] = proposal[other]
  BY ProposeParts
<1>2. Told[cmd].status = "idle"
  <2>1. Tells(Idle).status = "idle"
    BY DEF Tells, Idle
  <2>. QED  BY <1>1, <2>1, ToldIs
<1>3. Told' = [Told EXCEPT ![cmd] = [status |-> "waiting", node |-> i]]
  <2>1. Tells(proposal'[cmd]) = [status |-> "waiting", node |-> i]
    BY <1>1 DEF Tells
  <2>. QED  BY <1>1, <2>1, ToldIs
<1>4. Ledger' = Ledger /\ lastApplied' = lastApplied /\ machine' = machine
  BY DEF Propose, applyVars, Ledger, CommandSlots
<1>. QED  BY <1>2, <1>3, <1>4 DEF Abstract!Propose, Ledger, CommandSlots, Told

LEMMA ReturnIsSucceed ==
  ASSUME TypeInv, NotifiedIsExecuted, NEW cmd \in Command, ProposeReturn(cmd),
         decided' = decided
  PROVE  Abstract!Succeed(cmd)
<1>1. PICK p \in ProposalRecords : p = proposal[cmd]
  <2>1. proposal[cmd].status = "notified"
    BY DEF ProposeReturn
  <2>. QED  BY <2>1, ProposalTyped
<1>2. /\ p.status = "notified" /\ proposal' = [proposal EXCEPT ![cmd] = [p EXCEPT !.status = "done"]]
      /\ proposal \in [Command -> {Idle} \union ProposalRecords]
  BY <1>1, ProposalTyped DEF ProposeReturn
<1>3. Tells(p) = [status |-> "waiting", node |-> p.node]
  BY <1>2 DEF Tells
<1>4. Tells([p EXCEPT !.status = "done"]) = [status |-> "done", node |-> p.node]
  BY DEF Tells, ProposalRecords
<1>5. Told[cmd] = [status |-> "waiting", node |-> p.node]
  BY <1>1, <1>3, ToldIs
<1>6. Told' = [Told EXCEPT ![cmd] = [status |-> "done", node |-> p.node]]
  BY <1>2, <1>4, ToldIs
<1>7. Told' = [Told EXCEPT ![cmd].status = "done"]
  <2>1. PICK q : q = Told[cmd]
    OBVIOUS
  <2>2. [q EXCEPT !.status = "done"] = [status |-> "done", node |-> p.node]
    BY <1>5, <2>1
  <2>3. Told' = [Told EXCEPT ![cmd] = [q EXCEPT !.status = "done"]]
    BY <1>6, <2>2
  <2>. QED  BY <2>1, <2>3
<1>8. cmd \in Abstract!ToSet(machine[Told[cmd].node])
  <2>1. InMachine(machine[p.node], cmd)
    BY <1>1, <1>2 DEF NotifiedIsExecuted
  <2>. QED  BY <1>5, <2>1 DEF Abstract!ToSet, InMachine
<1>9. Ledger' = Ledger /\ lastApplied' = lastApplied /\ machine' = machine
  BY DEF ProposeReturn, applyVars, Ledger, CommandSlots
<1>. QED  BY <1>5, <1>7, <1>8, <1>9 DEF Abstract!Succeed, Ledger, CommandSlots, Told

LEMMA TimeoutIsFail ==
  ASSUME TypeInv, NEW cmd \in Command, ProposeTimeout(cmd), decided' = decided
  PROVE  Abstract!Fail(cmd)
<1>1. PICK p \in ProposalRecords : p = proposal[cmd]
  <2>1. proposal[cmd].status \in {"waiting", "notified"}
    BY DEF ProposeTimeout
  <2>. QED  BY <2>1, ProposalTyped
<1>2. /\ p.status \in {"waiting", "notified"}
      /\ proposal' = [proposal EXCEPT ![cmd] = [p EXCEPT !.status = "failed"]]
      /\ proposal \in [Command -> {Idle} \union ProposalRecords]
  BY <1>1, ProposalTyped DEF ProposeTimeout
<1>3. Tells(p) = [status |-> "waiting", node |-> p.node]
  BY <1>2 DEF Tells
<1>4. Tells([p EXCEPT !.status = "failed"]) = [status |-> "failed", node |-> p.node]
  BY DEF Tells, ProposalRecords
<1>5. Told[cmd] = [status |-> "waiting", node |-> p.node]
  BY <1>1, <1>3, ToldIs
<1>6. Told' = [Told EXCEPT ![cmd] = [status |-> "failed", node |-> p.node]]
  BY <1>2, <1>4, ToldIs
<1>7. Told' = [Told EXCEPT ![cmd].status = "failed"]
  <2>1. PICK q : q = Told[cmd]
    OBVIOUS
  <2>2. [q EXCEPT !.status = "failed"] = [status |-> "failed", node |-> p.node]
    BY <1>5, <2>1
  <2>3. Told' = [Told EXCEPT ![cmd] = [q EXCEPT !.status = "failed"]]
    BY <1>6, <2>2
  <2>. QED  BY <2>1, <2>3
<1>8. Ledger' = Ledger /\ lastApplied' = lastApplied /\ machine' = machine
  BY DEF ProposeTimeout, applyVars, Ledger, CommandSlots
<1>. QED  BY <1>5, <1>7, <1>8 DEF Abstract!Fail, Ledger, CommandSlots, Told

LEMMA RebootIsRestart ==
  ASSUME Plain, NoSnapshots', SnapshotsAreOnDisk', NEW i \in Server, NEW left, Reboot(i, left),
         decided' = decided
  PROVE  Abstract!Restart(i)
<1>1. /\ lastApplied \in [Server -> Nat] /\ machine \in [Server -> Seq(Command)]
      /\ proposal \in [Command -> {Idle} \union ProposalRecords]
  BY PlainParts, ProposalTyped DEF ApplyTypeOK
<1>2. lastApplied' = [lastApplied EXCEPT ![i] = 0] /\ 0 \in 0..lastApplied[i]
  <2>1. snapshotIndex[i] = 0
    BY DEF Plain
  <2>2. lastApplied' = [lastApplied EXCEPT ![i] = snapshotIndex[i]]
    BY DEF Reboot
  <2>3. lastApplied[i] \in Nat
    BY <1>1
  <2>. QED  BY <2>1, <2>2, <2>3
<1>3. machine' = [machine EXCEPT ![i] = CommandsIn(Ledger, Nil, 0)]
  <2>1. snapshotFile'[i].data = << >>
    BY DEF NoSnapshots, SnapshotsAreOnDisk
  <2>. QED  BY <2>1, CommandsNone DEF Reboot
<1>4. Told' = [cmd \in Command |-> IF Told[cmd] = [status |-> "waiting", node |-> i]
                                   THEN [status |-> "failed", node |-> i] ELSE Told[cmd]]
  <2>1. ASSUME NEW cmd \in Command
        PROVE  Tells(proposal'[cmd])
                 = IF Tells(proposal[cmd]) = [status |-> "waiting", node |-> i]
                   THEN [status |-> "failed", node |-> i] ELSE Tells(proposal[cmd])
    <3>1. PICK p \in {Idle} \union ProposalRecords : p = proposal[cmd]
      BY <1>1
    <3>2. CASE p.node = i /\ p.status \in {"waiting", "notified"}
      <4>1. proposal'[cmd] = [p EXCEPT !.status = "failed"]
        BY <3>1, <3>2 DEF Reboot
      <4>2. p \in ProposalRecords
        BY <3>2 DEF Idle
      <4>3. Tells([p EXCEPT !.status = "failed"]) = [status |-> "failed", node |-> i]
        BY <3>2, <4>2 DEF Tells, ProposalRecords
      <4>4. Tells(p) = [status |-> "waiting", node |-> i]
        BY <3>2 DEF Tells
      <4>. QED  BY <3>1, <4>1, <4>3, <4>4
    <3>3. CASE ~(p.node = i /\ p.status \in {"waiting", "notified"})
      <4>1. proposal'[cmd] = p
        BY <3>1, <3>3 DEF Reboot
      <4>2. Tells(p) # [status |-> "waiting", node |-> i]
        BY <3>3 DEF Tells
      <4>. QED  BY <3>1, <4>1, <4>2
    <3>. QED  BY <3>2, <3>3
  <2>2. \A cmd \in Command : Told[cmd] = Tells(proposal[cmd])
    BY ToldIs
  <2>. QED  BY <2>1, <2>2, ToldIs
<1>5. Abstract!CommandsIn(Ledger, Nil, 0) = CommandsIn(Ledger, Nil, 0)
  BY DEF Abstract!CommandsIn, CommandsIn
<1>6. Ledger' = Ledger
  BY DEF Ledger, CommandSlots
<1>. QED  BY <1>2, <1>3, <1>4, <1>5, <1>6 DEF Abstract!Restart, Ledger, CommandSlots, Told

LEMMA ApplyIsExecute ==
  ASSUME Plain, NEW H, NEW A, DecidedInv(H, A), NEW i \in Server, ApplyEntry(i),
         decided' = decided
  PROVE  Abstract!Execute(i)
<1> DEFINE k == lastApplied[i]
           entry == Head(applying[i])
<1>1. /\ lastApplied \in [Server -> Nat] /\ machine \in [Server -> Seq(Command)]
      /\ k \in Nat /\ applying[i] \in Seq(LogEntries) /\ applying[i] # << >>
  BY PlainParts DEF ApplyTypeOK, ApplyEntry
<1>2. LogsAreTyped(H) /\ ChosenAgree(H, A) /\ \A t \in Terms : GoodLog(H, H[t])
  <2>1. LogInv(H, A)
    BY DEF DecidedInv, ServiceInv
  <2>2. LogsAreTyped(H) /\ \A t \in Terms : GoodLog(H, H[t])
    BY <2>1, HistoryParts DEF LogsAreTyped, LogInv, LeaderLogs
  <2>. QED  BY <2>1, <2>2, PlainParts, ChosenNow
<1>3. Applied(H, A, k, machine[i], applying[i])
  BY DEF DecidedInv, ServiceInv, ChosenIsApplied
<1>4. /\ entry.index = k + 1
      /\ \E t \in Terms : \E n \in Created(H, t) :
           Chosen(H, A, n, t) /\ k + 1 <= n /\ H[t][k + 1] = entry
  BY <1>1, <1>2, <1>3, AppliedEntry
<1>5. PICK t \in Terms : \E n \in Created(H, t) :
        Chosen(H, A, n, t) /\ k + 1 <= n /\ H[t][k + 1] = entry
  BY <1>4
<1>6. PICK n \in Created(H, t) : Chosen(H, A, n, t) /\ k + 1 <= n /\ H[t][k + 1] = entry
  BY <1>5
<1> HIDE DEF entry
<1>7. decided \in Seq(LogEntries) /\ IsChosen(H, A, decided) /\ Len(decided) \in Nat
  <2>1. decided \in Seq(Proposed) /\ Proposed \subseteq LogEntries
    BY DEF DecidedInv, DecidedOK, Proposed
  <2>2. decided \in Seq(LogEntries)
    BY <2>1, SeqGrows
  <2>3. IsChosen(H, A, decided)
    BY DEF DecidedInv, DecidedOK
  <2>. QED  BY <2>2, <2>3
<1>8. k + 1 <= Len(decided) /\ k + 1 \in 1..(k + 1) /\ k + 1 \in 1..Len(decided)
  <2>1. k + Len(applying[i]) <= Len(decided)
    BY DEF DecidedInv, DecidedOK
  <2>2. Len(applying[i]) \in Nat /\ Len(applying[i]) # 0
    BY <1>1, EmptySeq
  <2>. QED  BY <1>1, <1>7, <2>1, <2>2
<1>9. decided[k + 1] = entry
  <2>1. decided # << >>
    BY <1>1, <1>7, <1>8, EmptySeq
  <2>2. PICK u \in Terms : \E m \in Created(H, u) :
          Chosen(H, A, m, u) /\ Len(decided) <= m /\ Agree(decided, H[u], Len(decided))
    BY <1>7, <2>1 DEF IsChosen
  <2>3. PICK m \in Created(H, u) :
          Chosen(H, A, m, u) /\ Len(decided) <= m /\ Agree(decided, H[u], Len(decided))
    BY <2>2
  <2>4. m \in Nat /\ n \in Nat /\ k + 1 <= m /\ k + 1 \in Nat
    <3>1. m \in Nat /\ n \in Nat
      BY <1>2, <1>6, <2>3 DEF LogsAreTyped, Created
    <3>. QED  BY <1>1, <1>7, <1>8, <2>3, <3>1
  <2>5. Agree(H[t], H[u], k + 1)
    BY <1>2, <1>6, <2>3, <2>4 DEF ChosenAgree
  <2>6. H[t][k + 1] = H[u][k + 1]
    BY <1>8, <2>5 DEF Agree
  <2>7. decided[k + 1] = H[u][k + 1]
    BY <1>8, <2>3 DEF Agree
  <2>. QED  BY <1>6, <2>6, <2>7
<1>10. Ledger' = Ledger /\ Len(Ledger) = Len(decided) /\ Ledger[k + 1] = entry.cmd
  <2>1. Ledger' = Ledger
    BY DEF Ledger, CommandSlots
  <2>2. /\ Len(CommandSlots(decided)) = Len(decided)
        /\ \A p \in 1..Len(decided) : CommandSlots(decided)[p] = decided[p].cmd
    BY <1>7, CommandSlotsTyped
  <2>. QED  BY <1>8, <1>9, <2>1, <2>2 DEF Ledger
<1>11. /\ lastApplied' = [lastApplied EXCEPT ![i] = @ + 1] /\ lastApplied'[i] = k + 1
       /\ k < Len(Ledger)
  <2>1. lastApplied' = [lastApplied EXCEPT ![i] = k + 1]
    BY <1>4 DEF ApplyEntry, entry
  <2>. QED  BY <1>1, <1>7, <1>8, <1>10, <2>1
<1>12. machine' = [machine EXCEPT ![i] =
         IF Ledger[lastApplied'[i]] = Nil THEN @ ELSE Append(@, Ledger[lastApplied'[i]])]
  <2>1. machine' = [machine EXCEPT ![i] = IF entry.cmd = Nil THEN @ ELSE Append(@, entry.cmd)]
    BY DEF ApplyEntry, entry
  <2>. QED  BY <1>10, <1>11, <2>1
<1>13. Told' = Told
  <2> DEFINE cmd == pendingProposals[i][entry.index]
  <2>1. CASE proposal' = proposal
    BY <2>1, ToldIs
  <2>2. CASE /\ entry.index \in DOMAIN pendingProposals[i]
             /\ proposal' = [proposal EXCEPT ![cmd].status = "notified"]
    <3>1. cmd \in Command /\ proposal[cmd].status = "waiting"
      BY <2>2, PlainParts, ProposalTyped DEF DecidedInv, PendingIsWaiting
    <3>2. PICK p \in ProposalRecords : p = proposal[cmd]
      BY <3>1, PlainParts, ProposalTyped
    <3>3. proposal \in [Command -> {Idle} \union ProposalRecords]
      BY PlainParts, ProposalTyped
    <3>4. proposal' = [proposal EXCEPT ![cmd] = [p EXCEPT !.status = "notified"]]
      BY <2>2, <3>2
    <3> HIDE DEF cmd
    <3>5. Tells([p EXCEPT !.status = "notified"]) = Tells(p)
      BY <3>1, <3>2 DEF Tells, ProposalRecords
    <3>6. \A other \in Command : Tells(proposal'[other]) = Tells(proposal[other])
      BY <3>1, <3>2, <3>3, <3>4, <3>5
    <3>. QED  BY <3>6, ToldIs
  <2>3. \/ proposal' = proposal
        \/ /\ entry.index \in DOMAIN pendingProposals[i]
           /\ proposal' = [proposal EXCEPT ![cmd].status = "notified"]
    BY DEF ApplyEntry, entry
  <2>. QED  BY <2>1, <2>2, <2>3
<1>. QED  BY <1>10, <1>11, <1>12, <1>13 DEF Abstract!Execute, Ledger, CommandSlots, Told

\* Entries of a chosen log are at their places.
LEMMA ChosenInPlace ==
  ASSUME NEW H, NEW A, LogsAreTyped(H), \A t \in Terms : GoodLog(H, H[t]),
         NEW L \in Seq(LogEntries), IsChosen(H, A, L), NEW n \in 1..Len(L)
  PROVE  L[n].index = n
<1>1. L # << >> /\ Len(L) \in Nat
  BY EmptySeq
<1>2. PICK t \in Terms : \E m \in Created(H, t) :
        Chosen(H, A, m, t) /\ Len(L) <= m /\ Agree(L, H[t], Len(L))
  BY <1>1 DEF IsChosen
<1>3. Agree(L, H[t], Len(L)) /\ Len(H[t]) \in Nat
  BY <1>2 DEF LogsAreTyped
<1>4. L[n] = H[t][n] /\ n \in 1..Len(H[t])
  BY <1>1, <1>3 DEF Agree
<1>. QED  BY <1>2, <1>4 DEF GoodLog

\* A step that leaves the state machines and the clients alone decides more entries,
\* or none.
LEMMA DecideOrStutter ==
  ASSUME Plain, Plain', NEW H, NEW A, LogInv(H, A)', IsChosen(H, A, decided'),
         decided \in Seq(LogEntries), decided' \in Seq(Proposed'),
         Agree(decided, decided', Len(decided)),
         UNCHANGED <<lastApplied, machine, applying, clientVars>>
  PROVE  [Abstract!Next]_(Abstract!vars)
<1>1. lastApplied' = lastApplied /\ machine' = machine /\ proposal' = proposal /\ Told' = Told
  BY ToldIs DEF clientVars
<1>2. CASE decided' = decided
  <2>1. Ledger' = Ledger
    BY <1>2 DEF Ledger, CommandSlots
  <2>. QED  BY <1>1, <2>1 DEF Abstract!vars, Ledger, CommandSlots, Told
<1>3. CASE decided' # decided
  <2>1. decided' \in Seq(LogEntries) /\ Len(decided) \in Nat /\ Len(decided') \in Nat
    <3>1. Proposed' \subseteq LogEntries
      BY DEF Proposed
    <3>2. decided' \in Seq(LogEntries)
      BY <3>1, SeqGrows
    <3>. QED  BY <3>2
  <2>2. Len(decided) <= Len(decided') /\ Len(decided) # Len(decided')
    <3>1. Len(decided) <= Len(decided') /\ \A p \in 1..Len(decided) : decided[p] = decided'[p]
      BY DEF Agree
    <3>. QED  BY <1>3, <2>1, <3>1, SeqEqual
  <2>3. /\ Ledger \in Seq(Command \union {Nil}) /\ Len(Ledger) = Len(decided)
        /\ DOMAIN Ledger = 1..Len(decided)
        /\ \A n \in 1..Len(decided) : Ledger[n] = decided[n].cmd
    BY CommandSlotsTyped DEF Ledger
  <2>4. /\ Ledger' \in Seq(Command \union {Nil}) /\ Len(Ledger') = Len(decided')
        /\ DOMAIN Ledger' = 1..Len(decided')
        /\ \A n \in 1..Len(decided') : Ledger'[n] = decided'[n].cmd
    BY <2>1, CommandSlotsTyped, LedgerIs
  <2>5. Abstract!IsStrictPrefix(Ledger, Ledger')
    <3>1. \A n \in 1..Len(Ledger) : Ledger[n] = Ledger'[n]
      <4>1. \A n \in 1..Len(decided) : n \in 1..Len(decided') /\ decided[n] = decided'[n]
        BY <2>1, <2>2 DEF Agree
      <4>. QED  BY <2>3, <2>4, <4>1
    <3>2. Len(Ledger) \in Nat /\ Len(Ledger) <= Len(Ledger') /\ Ledger # Ledger'
      BY <2>1, <2>2, <2>3, <2>4
    <3>3. SubSeq(Ledger, 1, Len(Ledger)) = SubSeq(Ledger', 1, Len(Ledger))
      BY <2>3, <2>4, <3>1, <3>2
    <3>. QED  BY <3>2, <3>3 DEF Abstract!IsStrictPrefix, Abstract!IsPrefix
  <2>6. ASSUME NEW n \in DOMAIN Ledger' \ DOMAIN Ledger
        PROVE  \/ Ledger'[n] = Nil
               \/ /\ Ledger'[n] \in Command
                  /\ Told[Ledger'[n]].status # "idle"
                  /\ \A m \in 1..(n - 1) : Ledger'[m] # Ledger'[n]
    <3> DEFINE cmd == decided'[n].cmd
    <3>1. n \in 1..Len(decided') /\ Ledger'[n] = cmd /\ cmd \in Command \union {Nil}
      <4>1. n \in 1..Len(decided')
        BY <2>4
      <4>2. decided'[n] \in LogEntries
        BY <2>1, <4>1, ElementOfSeq
      <4>. QED  BY <2>4, <4>1, <4>2 DEF LogEntries
    <3> HIDE DEF cmd
    <3>2. CASE cmd # Nil
      <4>1. ASSUME NEW m \in 1..Len(decided'), decided'[m].cmd = cmd
            PROVE  proposal[cmd] # Idle /\ decided'[m] = EntryOf(proposal[cmd], cmd)
        <5>1. decided'[m] \in Proposed'
          BY ElementOfSeq
        <5>. QED  BY <1>1, <3>2, <4>1, <5>1 DEF Proposed, EntryOf
      <4>2. proposal[cmd] # Idle /\ decided'[n] = EntryOf(proposal[cmd], cmd)
        BY <3>1, <4>1 DEF cmd
      <4>3. Told[cmd].status # "idle"
        <5>1. proposal[cmd] \in ProposalRecords /\ cmd \in Command
          BY <3>1, <3>2, <4>2, PlainParts, ProposalTyped
        <5>2. Tells(proposal[cmd]).status # "idle"
          BY <5>1 DEF Tells, ProposalRecords
        <5>. QED  BY <5>1, <5>2, ToldIs
      <4>4. ASSUME NEW m \in 1..(n - 1), Ledger'[m] = cmd
            PROVE  FALSE
        <5>1. m \in 1..Len(decided') /\ m # n
          BY <2>1, <3>1
        <5>2. decided'[m].cmd = cmd
          BY <2>4, <4>4, <5>1
        <5>3. decided'[m] = decided'[n]
          BY <4>1, <4>2, <5>1, <5>2
        <5>4. LogsAreTyped(H) /\ \A t \in Terms : GoodLog(H, H[t])
          <6>1. H \in [Terms -> Seq(LogEntries)] /\ \A t \in Terms : GoodLog(H, H[t])
            BY DEF LogInv, HistoryTyped, LeaderLogs
          <6>2. \A t \in Terms : t \in Nat /\ H[t] \in Seq(LogEntries)
            BY <6>1 DEF Terms
          <6>. QED  BY <6>1, <6>2 DEF LogsAreTyped
        <5>5. decided'[m].index = m /\ decided'[n].index = n
          BY <2>1, <3>1, <5>1, <5>4, ChosenInPlace
        <5>. QED  BY <5>1, <5>3, <5>5
      <4>. QED  BY <3>1, <3>2, <4>3, <4>4
    <3>. QED  BY <3>1, <3>2
  <2>7. Abstract!Decide
    BY <1>1, <2>5, <2>6 DEF Abstract!Decide, Ledger, CommandSlots, Told
  <2>. QED  BY <2>7 DEF Abstract!Next
<1>. QED  BY <1>2, <1>3

LEMMA StepOfLog ==
  ASSUME Plain, Plain', NoSnapshots', SnapshotsAreOnDisk', EntriesWereProposed,
         EntriesWereProposed', [Next /\ RecordDecided]_refinementVars,
         NEW H, NEW A, DecidedInv(H, A)
  PROVE  [Abstract!Next]_(Abstract!vars)
<1>1. PICK H2, A2 :
        /\ HistoriesKept(H, A, H2, A2)
        /\ DecidedInv(H2, A2)'
        /\ Agree(decided, decided', Len(decided))
        /\ (\A i \in Server : commitIndex'[i] <= commitIndex[i]) => decided' = decided
  BY DecidedStep
<1>2. [Next]_vars
  BY DEF refinementVars
<1>3. /\ LogInv(H2, A2)' /\ IsChosen(H2, A2, decided') /\ decided' \in Seq(Proposed')
      /\ decided \in Seq(LogEntries) /\ TypeInv
  <2>1. LogInv(H2, A2)' /\ IsChosen(H2, A2, decided') /\ decided' \in Seq(Proposed')
    BY <1>1 DEF DecidedInv, ServiceInv, DecidedOK, IsChosen
  <2>2. decided \in Seq(Proposed) /\ Proposed \subseteq LogEntries
    BY DEF DecidedInv, DecidedOK, Proposed
  <2>. QED  BY <2>1, <2>2, SeqGrows, PlainParts
<1>4. commitIndex \in [Server -> Nat] /\ \A i \in Server : snapshotIndex[i] = 0
  BY PlainParts DEF LogTypeOK, Plain
<1>5. CASE UNCHANGED <<lastApplied, machine, applying, clientVars>>
  BY <1>1, <1>3, <1>5, DecideOrStutter
<1>6. ASSUME NEW i \in Server, FetchCommitted(i)
      PROVE  [Abstract!Next]_(Abstract!vars)
  <2>1. commitIndex' = commitIndex /\ lastApplied' = lastApplied /\ machine' = machine
        /\ proposal' = proposal
    BY <1>6 DEF FetchCommitted, clientVars
  <2>2. Ledger' = Ledger /\ Told' = Told
    <3>1. decided' = decided
      BY <1>1, <1>4, <2>1
    <3>. QED  BY <2>1, <3>1, ToldIs DEF Ledger, CommandSlots
  <2>. QED  BY <2>1, <2>2 DEF Abstract!vars, Ledger, CommandSlots, Told
<1>7. ASSUME NEW i \in Server, ApplyEntry(i)
      PROVE  Abstract!Next
  <2>1. commitIndex' = commitIndex
    BY <1>7 DEF ApplyEntry
  <2>2. decided' = decided
    BY <1>1, <1>4, <2>1
  <2>. QED  BY <1>7, <2>2, ApplyIsExecute DEF Abstract!Next
<1>8. ASSUME NEW i \in Server, NEW left, Reboot(i, left)
      PROVE  Abstract!Next
  <2>1. commitIndex' = [commitIndex EXCEPT ![i] = 0]
    <3>1. commitIndex' = [commitIndex EXCEPT ![i] = snapshotIndex[i]]
      BY <1>8 DEF Reboot
    <3>. QED  BY <1>4, <3>1
  <2>2. \A j \in Server : commitIndex'[j] <= commitIndex[j]
    BY <1>4, <2>1
  <2>3. decided' = decided
    BY <1>1, <2>2
  <2>. QED  BY <1>8, <2>3, RebootIsRestart DEF Abstract!Next
<1>9. ASSUME NEW cmd \in Command, NEW i \in Server, Propose(i, cmd)
       PROVE  Abstract!Next
  <2>1. commitIndex' = commitIndex
    BY <1>9 DEF Propose
  <2>2. decided' = decided
    BY <1>1, <1>4, <2>1
  <2>. QED  BY <1>3, <1>9, <2>2, ProposeIsPropose DEF Abstract!Next
<1>10. ASSUME NEW cmd \in Command, ProposeReturn(cmd) \/ ProposeTimeout(cmd)
       PROVE  Abstract!Next
  <2>1. commitIndex' = commitIndex
    BY <1>10 DEF ProposeReturn, ProposeTimeout
  <2>2. decided' = decided
    BY <1>1, <1>4, <2>1
  <2>3. NotifiedIsExecuted
    BY DEF DecidedInv
  <2>. QED  BY <1>3, <1>10, <2>2, <2>3, ReturnIsSucceed, TimeoutIsFail DEF Abstract!Next
<1>. QED  BY <1>2, <1>3, <1>5, <1>6, <1>7, <1>8, <1>9, <1>10, StepKinds

DecidedHasHistory == \E H, A : DecidedInv(H, A)

LEMMA InitDecidedInv ==
  ASSUME Init, decided = << >>
  PROVE  DecidedHasHistory
<1>1. PICK H, A : ServiceInv(H, A)
  <2>1. NoSnapshots
    BY DEF Init, NoSnapshots
  <2>. QED  BY <2>1, InitServiceInv DEF ServiceHasHistory
<1>2. NotifiedIsExecuted
  BY DEF Init, Idle, NotifiedIsExecuted
<1>3. PendingIsWaiting
  <2>1. \A i \in Server : DOMAIN pendingProposals[i] = {}
    BY DEF Init
  <2>. QED  BY <2>1 DEF PendingIsWaiting
<1>4. DecidedOK(H, A)
  <2>1. decided \in Seq(Proposed) /\ Len(decided) = 0
    BY EmptySeq
  <2>2. \A i \in Server : commitIndex[i] = 0 /\ lastApplied[i] = 0 /\ Len(applying[i]) = 0
    BY EmptySeq DEF Init
  <2>. QED  BY <2>1, <2>2 DEF DecidedOK, IsChosen
<1>. QED  BY <1>1, <1>2, <1>3, <1>4 DEF DecidedInv, DecidedHasHistory

\* No handler, snapshot or restart invents, alters or doubles an entry: every entry of
\* a log or of a request on its way is one of a new leader without a command, or the
\* one that Propose (raft.go:582-704) appended for its command.
THEOREM EntriesAreProposed == Spec => []EntriesWereProposed
<1>1. Init => EntriesWereProposed
  <2> SUFFICES ASSUME Init PROVE EntriesWereProposed
    OBVIOUS
  <2>1. \A i \in Server : log[i] = << >>
    BY DEF Init
  <2>2. DOMAIN calls = {}
    BY DEF Init, EmptyBag, SetToBag
  <2>. QED  BY <2>1, <2>2, EmptySeq DEF EntriesWereProposed
<1>2. TypeInv /\ TypeInv' /\ EntriesWereProposed /\ [Next]_vars => EntriesWereProposed'
  BY EntriesStep
<1>. QED  BY <1>1, <1>2, TypesAreKept, PTL DEF Spec

\* Until its first snapshot Raft implements ReplicatedLog: a step of a node or of a
\* client decides more entries, executes the next one on a node, restarts a node,
\* takes a command or tells its result, or changes nothing that the service sees.
THEOREM RaftImplementsLog == DecidedSpec /\ []NoSnapshots => ImplementsReplicatedLog
<1>1. DecidedSpec => Spec
  <2>1. [Next /\ RecordDecided]_refinementVars => [Next]_vars
    BY DEF refinementVars
  <2>. QED  BY <2>1, PTL DEF DecidedSpec, Spec
<1>2. Init /\ decided = << >> => DecidedHasHistory /\ Abstract!Init
  BY InitDecidedInv, InitOfLog
<1>3. ASSUME RestInv, RestInv', NoSnapshots, NoSnapshots', EntriesWereProposed,
             EntriesWereProposed', [Next /\ RecordDecided]_refinementVars, DecidedHasHistory
      PROVE  DecidedHasHistory' /\ [Abstract!Next]_(Abstract!vars)
  <2>1. Plain /\ Plain' /\ SnapshotsAreOnDisk'
    BY <1>3, RestIsPlain DEF RestInv, NoSnapshots, SnapshotsAreOnDisk, Plain
  <2>2. PICK H, A : DecidedInv(H, A)
    BY <1>3 DEF DecidedHasHistory
  <2>3. PICK H2, A2 : DecidedInv(H2, A2)'
    BY <1>3, <2>1, <2>2, DecidedStep
  <2>. QED  BY <1>3, <2>1, <2>2, <2>3, StepOfLog DEF DecidedHasHistory
<1>4. RestInv /\ RestInv' /\ NoSnapshots /\ NoSnapshots' /\ EntriesWereProposed
        /\ EntriesWereProposed' /\ DecidedHasHistory /\ [Next /\ RecordDecided]_refinementVars
        => DecidedHasHistory' /\ [Abstract!Next]_(Abstract!vars)
  BY <1>3
<1>. QED  BY <1>1, <1>2, <1>4, RestIsKept, EntriesAreProposed, PTL
          DEF DecidedSpec, ImplementsReplicatedLog, Abstract!Spec
=============================================================================
