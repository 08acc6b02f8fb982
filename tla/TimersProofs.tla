---------------------------- MODULE TimersProofs ----------------------------
(***************************************************************************)
(* Proofs about module Timers: for every timeout, every heartbeat interval *)
(* and any number of loops, elections are neither too early nor too late,  *)
(* and a leader's heartbeats come at their interval.                       *)
(***************************************************************************)
EXTENDS Timers, TLAPS

\* The timer is started at random before anything is heard (raft.go:109-113).
LEMMA InitTimers == Init => TimerInv
  <1> SUFFICES ASSUME Init PROVE TimerInv
    OBVIOUS
  <1> USE TimerAssumption DEF Init, RandomTimeouts, Off, Follower, Candidate, Leader
  <1>1. TypeOK
    <2>1. timer \in 0 .. 2 * ElectionTimeout - 1
      OBVIOUS
    <2>2. loops \in Seq(0 .. HeartbeatInterval)
      OBVIOUS
    <2> QED
      BY <2>1, <2>2 DEF TypeOK
  <1>2. NothingIsLate /\ FiresInTime /\ FiresLate /\ SomeLoopIsOnTime
    BY DEF NothingIsLate, FiresInTime, FiresLate, SomeLoopIsOnTime
  <1> QED
    BY <1>1, <1>2 DEF TimerInv

\* What a loop of an earlier term leaves behind when it ends (raft.go:420-423).
LEMMA RemoveKeepsType ==
  ASSUME NEW S, NEW s \in Seq(S), NEW k \in 1 .. Len(s)
  PROVE  RemoveAt(s, k) \in Seq(S)
  BY DEF RemoveAt

\* A timer that is started with nothing to wait for fires neither late nor early
\* (raft.go:125, 133, 139-146).
LEMMA Rearmed ==
  ASSUME NEW T \in Nat, NEW t \in T .. 2 * T - 1, NEW h \in Nat
  PROVE  /\ t \in 0 .. 2 * T - 1 /\ t # -1
         /\ 0 + t < 2 * T
         /\ h + t >= T
  OBVIOUS

\* No step of the election loop, of a handler, of a heartbeat loop or of time breaks the
\* invariant (raft.go:109-146, 216-248, 319-326, 400-427).
LEMMA StepTimers == TimerInv /\ [Next]_vars => TimerInv'
  <1> SUFFICES ASSUME TimerInv, [Next]_vars PROVE TimerInv'
    OBVIOUS
  <1> USE TimerAssumption DEF TimerInv, RandomTimeouts, Off, Follower, Candidate, Leader,
          TypeOK, NothingIsLate, FiresInTime, FiresLate
  <1>1. CASE TimerExpires
    BY <1>1 DEF TimerExpires, SomeLoopIsOnTime
  <1>2. CASE StartElection
    <2> USE <1>2 DEF StartElection, Rearm
    <2>1. timer' \in ElectionTimeout .. 2 * ElectionTimeout - 1
      OBVIOUS
    <2>2. TypeOK' /\ NothingIsLate'
      <3>1. timer' \in 0 .. 2 * ElectionTimeout - 1 /\ timer' # Off
        BY <2>1, Rearmed
      <3> QED
        BY <3>1
    <2>3. state' # Leader => silence' = 0
      OBVIOUS
    <2>4. /\ timer' # Off /\ 0 + timer' < 2 * ElectionTimeout
          /\ heard' + timer' >= ElectionTimeout
      BY <2>1, <2>2, Rearmed
    <2>6. FiresInTime' /\ FiresLate'
      BY <2>3, <2>4, Zenon
    <2>5. SomeLoopIsOnTime'
      BY DEF SomeLoopIsOnTime
    <2> QED
      BY <2>2, <2>6, <2>5
  <1>3. CASE TakeReset
    <2> USE <1>3 DEF TakeReset, StopAndReset, Rearm
    <2>1. timer' \in ElectionTimeout .. 2 * ElectionTimeout - 1
      OBVIOUS
    <2>2. TypeOK' /\ NothingIsLate'
      <3>1. timer' \in 0 .. 2 * ElectionTimeout - 1 /\ timer' # Off
        BY <2>1, Rearmed
      <3> QED
        BY <3>1
    <2>3. state' # Leader => silence' = 0
      OBVIOUS
    <2>4. /\ timer' # Off /\ 0 + timer' < 2 * ElectionTimeout
          /\ heard' + timer' >= ElectionTimeout
      BY <2>1, <2>2, Rearmed
    <2>6. FiresInTime' /\ FiresLate'
      BY <2>3, <2>4, Zenon
    <2>5. SomeLoopIsOnTime'
      BY DEF SomeLoopIsOnTime
    <2> QED
      BY <2>2, <2>6, <2>5
  <1>4. CASE HearOfLeader
    BY <1>4 DEF HearOfLeader, SomeLoopIsOnTime
  <1>5. CASE BecomeFollower
    BY <1>5 DEF BecomeFollower, SomeLoopIsOnTime
  <1>6. CASE BecomeLeader
    <2> USE <1>6 DEF BecomeLeader, BroadcastAtOnce
    <2>1. loops' \in Seq(0 .. HeartbeatInterval)
      OBVIOUS
    <2>2. /\ Len(loops) + 1 \in 1 .. Len(loops')
          /\ loops'[Len(loops) + 1] = HeartbeatInterval
      OBVIOUS
    <2>3. SomeLoopIsOnTime'
      BY <2>2 DEF SomeLoopIsOnTime
    <2> QED
      BY <2>1, <2>3
  <1>7. CASE Heartbeat
    <2>1. PICK k \in 1 .. Len(loops) :
            /\ loops[k] = 0
            /\ IF state = Leader
               THEN loops' = [loops EXCEPT ![k] = HeartbeatInterval] /\ sent' = 0
               ELSE loops' = RemoveAt(loops, k) /\ UNCHANGED sent
            /\ UNCHANGED <<state, timer, resetTimerCh, electionLoop, silence, heard, lastGap>>
      BY <1>7 DEF Heartbeat
    <2>2. CASE state = Leader
      <3>1. loops' \in Seq(0 .. HeartbeatInterval) /\ k \in 1 .. Len(loops')
        BY <2>1, <2>2
      <3>2. loops'[k] = HeartbeatInterval
        BY <2>1, <2>2
      <3>3. SomeLoopIsOnTime'
        BY <2>1, <2>2, <3>1, <3>2 DEF SomeLoopIsOnTime
      <3> QED
        BY <2>1, <2>2, <3>1, <3>3
    <2>3. CASE state # Leader
      <3>1. loops' \in Seq(0 .. HeartbeatInterval)
        BY <2>1, <2>3, RemoveKeepsType
      <3> QED
        BY <2>1, <2>3, <3>1 DEF SomeLoopIsOnTime
    <2> QED
      BY <2>2, <2>3
  <1>8. CASE Tick
    <2> USE <1>8 DEF Tick, SomethingIsDue
    <2>1. \A t \in Nat : Later(t) \in Nat /\ Later(t) <= t + 1
      BY DEF Later
    <2>2. loops' \in Seq(0 .. HeartbeatInterval) /\ Len(loops') = Len(loops)
      OBVIOUS
    <2>t. /\ timer \in 1 .. 2 * ElectionTimeout - 1 /\ timer' = timer - 1
          /\ silence' = Later(silence) /\ heard' = Later(heard) /\ sent' = Later(sent)
          /\ UNCHANGED <<state, resetTimerCh, electionLoop, lastGap>>
          /\ electionLoop = "select" /\ resetTimerCh = FALSE
      OBVIOUS
    <2>3. TypeOK'
      BY <2>1, <2>2, <2>t
    <2>4. NothingIsLate' /\ FiresInTime'
      <3>1. NothingIsLate'
        BY <2>t
      <3>2. silence' <= silence + 1 /\ silence' \in Nat /\ silence \in Nat
        BY <2>1, <2>t
      <3>3. state # Leader => silence + timer < 2 * ElectionTimeout
        BY <2>t
      <3> QED
        BY ONLY <2>t, <3>1, <3>2, <3>3, TimerAssumption DEF FiresInTime, Off
    <2>5. FiresLate'
      BY DEF Later
    <2>6. ASSUME state = Leader PROVE \E k \in 1 .. Len(loops') : loops'[k] + sent' <= HeartbeatInterval
      <3>1. PICK k \in 1 .. Len(loops) : loops[k] + sent <= HeartbeatInterval
        BY <2>6 DEF SomeLoopIsOnTime
      <3>2. loops'[k] = loops[k] - 1 /\ loops[k] \in Nat /\ sent' <= sent + 1 /\ sent' \in Nat
        <4>1. loops[k] \in 0 .. HeartbeatInterval /\ loops'[k] = loops[k] - 1
          BY <3>1
        <4>2. sent' <= sent + 1 /\ sent' \in Nat
          BY <2>1, <2>t
        <4> QED
          BY <4>1, <4>2
      <3>3. k \in 1 .. Len(loops')
        BY <2>2, <3>1
      <3>4. loops'[k] + sent' <= HeartbeatInterval
        <4>1. HeartbeatInterval \in Nat /\ sent \in Nat
          BY TimerAssumption DEF TypeOK
        <4> QED
          BY ONLY <3>1, <3>2, <4>1
      <3> QED
        BY ONLY <3>3, <3>4
    <2>7. SomeLoopIsOnTime'
      BY <2>6, <2>t DEF SomeLoopIsOnTime
    <2> QED
      BY <2>3, <2>4, <2>5, <2>7
  <1>9. CASE UNCHANGED vars
    BY <1>9 DEF vars, SomeLoopIsOnTime
  <1> QED
    BY <1>1, <1>2, <1>3, <1>4, <1>5, <1>6, <1>7, <1>8, <1>9 DEF Next

\* The invariant holds in every reachable state (raft.go:109-146, 400-427).
THEOREM TimerInvariant == Spec => []TimerInv
  BY InitTimers, StepTimers, PTL DEF Spec

\* Whatever resets, lost campaigns and lost leaderships there were, a node that does not
\* lead campaigns before two timeouts have passed in silence (raft.go:125, 133, 144-145).
THEOREM SilenceAlwaysEnds == Spec => []SilenceEnds
  <1>1. TimerInv => SilenceEnds
    BY TimerAssumption DEF TimerInv, TypeOK, FiresInTime, SilenceEnds, Off
  <1> QED
    BY <1>1, TimerInvariant, PTL

\* A leader broadcasts at its interval from the moment it is elected, with loops of
\* earlier terms or without (raft.go:409-425).
THEOREM LeadersAreHeard == Spec => []LeaderIsHeard
  <1>1. TimerInv => LeaderIsHeard
    BY TimerAssumption DEF TimerInv, TypeOK, SomeLoopIsOnTime, LeaderIsHeard
  <1> QED
    BY <1>1, TimerInvariant, PTL

\* A timer that has not fired never wins against a heartbeat, and one that has makes
\* the node campaign only if it had waited long enough (raft.go:119-133).
THEOREM CampaignsAreLate == Spec => CampaignsOnlyWhenLate
  <1>1. TimerInv => (electionLoop = "campaign" =>
          heard >= ElectionTimeout \/ lastGap >= ElectionTimeout)
    BY DEF TimerInv, NothingIsLate, FiresLate
  <1>2. TimerInv => [electionLoop = "campaign" /\ state' = Candidate /\ electionLoop' = "select"
          => heard >= ElectionTimeout \/ lastGap >= ElectionTimeout]_vars
    BY <1>1
  <1> QED
    BY <1>2, TimerInvariant, PTL DEF CampaignsOnlyWhenLate
=============================================================================
