------------------------------- MODULE Timers -------------------------------
(***************************************************************************)
(* The clocks of one node of src/raft: the election timer, the channel     *)
(* that resets it, and the tickers of its heartbeat loops, in discrete     *)
(* time.  Module Raft lets timers and tickers fire at any time; this one   *)
(* says when they do.  The rest of the cluster is what may happen to the   *)
(* node.  Goroutines that can go on do so before time passes, in any       *)
(* order.                                                                  *)
(*                                                                         *)
(* A definition introduced by "Mutant:" is a plausible bug of the one that *)
(* follows it, against which the properties are tried; nothing uses it.    *)
(***************************************************************************)
EXTENDS Integers, Sequences, SequencesExt

CONSTANTS
  ElectionTimeout,    \* Config.ElectionTimeout, in ticks
  HeartbeatInterval,  \* Config.HeartbeatInterval, in ticks
  MaxLoops            \* bound: this many heartbeat loops at a time

ASSUME TimerAssumption ==
  /\ ElectionTimeout \in Nat \ {0}
  /\ HeartbeatInterval \in Nat \ {0}
  /\ MaxLoops \in Nat

VARIABLES
  state,         \* rn.state
  timer,         \* ticks to go; 0: it has fired, the value is in timer.C; Off: received
  resetTimerCh,  \* whether the channel, of one place, is full
  electionLoop,  \* "select", or "campaign" when it waits for rn.mu
  loops,         \* the tickers of the heartbeat loops: ticks to go
  silence,       \* history: since a heartbeat, a campaign or the end of the leadership
  heard,         \* history: since the last heartbeat or granted vote
  lastGap,       \* history: how long that one had been waited for
  sent           \* history: since the node's last broadcast

vars == <<state, timer, resetTimerCh, electionLoop, loops, silence, heard, lastGap, sent>>

Follower  == "Follower"
Candidate == "Candidate"
Leader    == "Leader"

Off == -1

\* randomElectionTimeout
RandomTimeouts == ElectionTimeout .. 2 * ElectionTimeout - 1

-----------------------------------------------------------------------------
(* electionLoop *)

TimerExpires ==
  /\ electionLoop = "select"
  /\ timer = 0
  /\ timer' = Off
  /\ electionLoop' = "campaign"
  /\ UNCHANGED <<state, resetTimerCh, loops, silence, heard, lastGap, sent>>

\* Mutant: the timer is not started again.
StaysOff == timer' = timer

Rearm == timer' \in RandomTimeouts

\* The lock is there: startElection, unless the node leads by now.
StartElection ==
  /\ electionLoop = "campaign"
  /\ electionLoop' = "select"
  /\ Rearm
  /\ IF state = Leader THEN UNCHANGED <<state, silence>>
                       ELSE state' = Candidate /\ silence' = 0
  /\ UNCHANGED <<resetTimerCh, loops, heard, lastGap, sent>>

\* Mutant: a timer that has not fired yet goes on.
ResetIfFired == IF timer > 0 THEN UNCHANGED timer ELSE Rearm

\* timer.Stop, with what may be in timer.C thrown away, and timer.Reset.
StopAndReset == Rearm

\* select may as well prefer a timer that has fired.
TakeReset ==
  /\ electionLoop = "select"
  /\ resetTimerCh
  /\ resetTimerCh' = FALSE
  /\ StopAndReset
  /\ UNCHANGED <<state, electionLoop, loops, silence, heard, lastGap, sent>>

-----------------------------------------------------------------------------
(* What happens to the node: its handlers and the answers to its calls. *)

\* AppendEntries of a leader, or RequestVote of a candidate that gets the vote: the
\* node is a Follower, and resetElectionTimer fills the channel unless it is full.
HearOfLeader ==
  /\ state' = Follower
  /\ resetTimerCh' = TRUE
  /\ silence' = 0
  /\ heard' = 0
  /\ lastGap' = IF heard = 0 THEN lastGap ELSE heard
  /\ UNCHANGED <<timer, electionLoop, loops, sent>>

\* A newer term in an answer, or in a RequestVote that is refused.
BecomeFollower ==
  /\ state # Follower
  /\ state' = Follower
  /\ silence' = IF state = Leader THEN 0 ELSE silence
  /\ UNCHANGED <<timer, resetTimerCh, electionLoop, loops, heard, lastGap, sent>>

\* Mutant: the loop waits for its first tick.
BroadcastLater == UNCHANGED sent

BroadcastAtOnce == sent' = 0

\* becomeLeader starts a heartbeat loop, whose first broadcast is at once.
BecomeLeader ==
  /\ state = Candidate
  /\ Len(loops) < MaxLoops
  /\ state' = Leader
  /\ loops' = Append(loops, HeartbeatInterval)
  /\ BroadcastAtOnce
  /\ UNCHANGED <<timer, resetTimerCh, electionLoop, silence, heard, lastGap>>

-----------------------------------------------------------------------------
(* heartbeatLoop, and time *)

\* The ticker of one loop: a Leader broadcasts, whichever of its terms the loop was
\* started in; otherwise the loop ends.
Heartbeat ==
  \E k \in 1 .. Len(loops) :
    /\ loops[k] = 0
    /\ IF state = Leader
       THEN loops' = [loops EXCEPT ![k] = HeartbeatInterval] /\ sent' = 0
       ELSE loops' = RemoveAt(loops, k) /\ UNCHANGED sent
    /\ UNCHANGED <<state, timer, resetTimerCh, electionLoop, silence, heard, lastGap>>

SomethingIsDue ==
  \/ electionLoop = "campaign" \/ timer = 0 \/ resetTimerCh
  \/ \E k \in 1 .. Len(loops) : loops[k] = 0

\* Beyond two timeouts the history makes no difference any more.
Later(t) == IF t < 2 * ElectionTimeout THEN t + 1 ELSE t

Tick ==
  /\ ~SomethingIsDue
  /\ timer' = IF timer = Off THEN Off ELSE timer - 1
  /\ loops' = [k \in 1 .. Len(loops) |-> loops[k] - 1]
  /\ silence' = Later(silence)
  /\ heard' = Later(heard)
  /\ sent' = Later(sent)
  /\ UNCHANGED <<state, resetTimerCh, electionLoop, lastGap>>

-----------------------------------------------------------------------------

Init ==
  /\ state = Follower
  /\ timer \in RandomTimeouts
  /\ resetTimerCh = FALSE
  /\ electionLoop = "select"
  /\ loops = << >>
  /\ silence = 0
  /\ heard = 0
  /\ lastGap = 0
  /\ sent = 0

Next ==
  \/ TimerExpires
  \/ StartElection
  \/ TakeReset
  \/ HearOfLeader
  \/ BecomeFollower
  \/ BecomeLeader
  \/ Heartbeat
  \/ Tick

Spec == Init /\ [][Next]_vars

-----------------------------------------------------------------------------

\* A node campaigns only if it has heard nothing for the election timeout, or if what
\* it heard last came that late: a reset may lose against a timer that has just fired
\* (raft.go:119-133), but never against one that has not.  So a leader whose
\* heartbeats take less than the timeout keeps its followers.
CampaignsOnlyWhenLate ==
  [][electionLoop = "campaign" /\ state' = Candidate /\ electionLoop' = "select"
       => heard >= ElectionTimeout \/ lastGap >= ElectionTimeout]_vars

\* A node that does not lead campaigns before two timeouts without a heartbeat have
\* passed, whatever resets and lost campaigns there were (raft.go:125, 133, 144-145).
SilenceEnds == state # Leader => silence < 2 * ElectionTimeout

\* A leader's broadcasts are never further apart than the interval, from the moment
\* it is elected, also if loops of earlier terms still run (raft.go:409-425).
LeaderIsHeard == state = Leader => sent <= HeartbeatInterval

-----------------------------------------------------------------------------
(* Why they hold: the inductive invariant, in parts. *)

TypeOK ==
  /\ state \in {Follower, Candidate, Leader}
  /\ timer \in (0 .. 2 * ElectionTimeout - 1) \union {Off}
  /\ resetTimerCh \in BOOLEAN
  /\ electionLoop \in {"select", "campaign"}
  /\ loops \in Seq(0 .. HeartbeatInterval)
  /\ silence \in Nat /\ heard \in Nat /\ lastGap \in Nat /\ sent \in Nat

\* The timer is off only while the loop is at its campaign, and no time passes while a
\* reset is waiting.
NothingIsLate ==
  /\ (electionLoop = "select") <=> (timer # Off)
  /\ resetTimerCh => silence = 0 /\ heard = 0

\* The timer fires in time.
FiresInTime ==
  state # Leader =>
    IF timer = Off THEN silence < 2 * ElectionTimeout
                   ELSE silence + timer < 2 * ElectionTimeout

\* The timer does not fire early: since it was started the node has waited long enough,
\* or had when a heartbeat came whose reset is still waiting.
FiresLate ==
  IF timer = Off
  THEN heard >= ElectionTimeout \/ (heard = 0 /\ lastGap >= ElectionTimeout)
  ELSE \/ heard + timer >= ElectionTimeout
       \/ /\ resetTimerCh /\ heard = 0
          /\ lastGap + timer >= ElectionTimeout

\* Some loop of a leader has its next broadcast within the interval.
SomeLoopIsOnTime ==
  state = Leader => \E k \in 1 .. Len(loops) : loops[k] + sent <= HeartbeatInterval

\* What every step keeps (raft.go:109-146, 319-320, 400-427, 753-759).
TimerInv ==
  TypeOK /\ NothingIsLate /\ FiresInTime /\ FiresLate /\ SomeLoopIsOnTime
=============================================================================
