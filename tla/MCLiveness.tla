----------------------------- MODULE MCLiveness -----------------------------
(***************************************************************************)
(* RaftLiveness on small instances, for TLC.  Symmetry is unsound for      *)
(* liveness; the start states name their nodes instead.                    *)
(***************************************************************************)
EXTENDS RaftLiveness, MCRaft

\* a leads term 1 alone: it has its no-op and x in its log, and x has failed.  The
\* third node has then voted for b in term 2, made b step down by a campaign of its own
\* in term 3, voted for b again in term 4, and knows no entry yet.  b has a no-op of
\* either term in its log, and y behind them if that is proposed already, and believes
\* that the others have the first.
Conflicting(a, b, x, y, proposed) ==
  LET entry == [term |-> 4, index |-> 3, cmd |-> y] IN
  /\ QuietStart
  /\ state = [i \in Server |-> IF i \in {a, b} THEN Leader ELSE Follower]
  /\ currentTerm = [i \in Server |-> IF i = a THEN 1 ELSE 4]
  /\ votedFor = [i \in Server |-> IF i = a THEN a ELSE b]
  /\ votesReceived = [i \in Server |-> {}]
  /\ log = [i \in Server |->
       CASE i = a -> <<Noop(1, 1), [term |-> 1, index |-> 2, cmd |-> x]>>
         [] i = b -> <<Noop(2, 1), Noop(4, 2)>>
                       \o (IF proposed THEN <<entry>> ELSE << >>)
         [] OTHER -> << >>]
  /\ nextIndex = [i \in Server |-> [j \in Server |->
       CASE i = a /\ j # a -> 1 [] i = b /\ j # b -> 2 [] OTHER -> 0]]
  /\ calls = EmptyBag
  /\ pendingProposals =
       [i \in Server |-> IF proposed /\ i = b THEN 3 :> y ELSE << >>]
  /\ proposal = [cmd \in Command |->
       IF cmd = x THEN [status |-> "failed", node |-> a, index |-> 2, term |-> 1]
       ELSE IF proposed THEN [status |-> "waiting", node |-> b, index |-> 3, term |-> 4]
       ELSE Idle]
  /\ elected = {[term |-> 1, leader |-> a, voters |-> Server \ {b}],
                [term |-> 2, leader |-> b, voters |-> Server \ {a}],
                [term |-> 4, leader |-> b, voters |-> Server \ {a}]}

\* All nodes have been candidates of the term before the last but one and voted for
\* themselves.  The timers of a and b have fired again, all calls between these two have
\* ended, and the third node is to vote for one of them.
Campaigning(a, b) ==
  /\ QuietStart
  /\ state = [i \in Server |-> Candidate]
  /\ currentTerm = [i \in Server |-> IF i \in {a, b} THEN MaxTerm - 1 ELSE MaxTerm - 2]
  /\ votedFor = [i \in Server |-> i]
  /\ votesReceived = [i \in Server |-> {i}]
  /\ log = [i \in Server |-> << >>]
  /\ nextIndex = [i \in Server |-> [j \in Server |-> 0]]
  /\ calls = SetToBag({RequestVoteCall(i, j, MaxTerm - 1) :
                         i \in {a, b}, j \in Server \ {a, b}})
  /\ pendingProposals = [i \in Server |-> << >>]
  /\ proposal = [cmd \in Command |-> Idle]
  /\ elected = {}

-----------------------------------------------------------------------------
(* Parts of Next, and the specifications of the runs. *)

HasToApply(i) == applyPhase[i] # "idle" \/ lastApplied[i] < commitIndex[i]

BuildsRequest(c) == c.type = "SendAppendEntries"

\* Committed entries stay where they are, so that the logs do not depend on when a node
\* executes them: it does so at once.  A result returns at once, and the request of a
\* call is built at once.  A client may find the leader of the quiet term.
LivenessNext ==
  IF \E i \in Server : HasToApply(i)
  THEN (\E i \in Server : HasToApply(i) /\ ApplyLoop(i)) /\ UNCHANGED lost
  ELSE IF \E cmd \in Command : proposal[cmd].status = "notified"
  THEN (\E cmd \in Command : ProposeReturn(cmd)) /\ UNCHANGED lost
  ELSE IF \E c \in DOMAIN calls : BuildsRequest(c)
  THEN (\E c \in DOMAIN calls : SendAppendEntries(c)) /\ UNCHANGED lost
  ELSE \/ QuietNext
       \/ /\ ClientsCome
          /\ \E i \in Server, cmd \in Command :
               currentTerm[i] = MaxTerm /\ Propose(i, cmd) /\ KeepsCallBound(i)
          /\ UNCHANGED lost

S == SetToSeq(Server)
C == SetToSeq(Command)

\* The term of the second leader of Conflicting is the quiet one, and one call of it is
\* lost, or none but by failing at once where its proposal is still to come.  The last
\* term of Campaigning is still to come and loses no call either.
LivenessSpec ==
  /\ \/ Conflicting(S[1], S[2], C[1], C[2], TRUE) /\ lost = 0
     \/ Conflicting(S[1], S[2], C[1], C[2], FALSE) /\ lost = MaxLost
     \/ Campaigning(S[1], S[2]) /\ lost = MaxLost
  /\ [][LivenessNext]_liveVars /\ Fairness
=============================================================================
