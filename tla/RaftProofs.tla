----------------------------- MODULE RaftProofs -----------------------------
(***************************************************************************)
(* Elections and types: theorems about module Raft for every set of        *)
(* servers and every bound, with snapshots and crashes.                    *)
(***************************************************************************)
EXTENDS RaftSafety, NatInduction, SequenceTheorems, FiniteSetTheorems

-----------------------------------------------------------------------------
(* What the bag of calls contains after a step. *)

LEMMA BagAddDomain ==
  ASSUME NEW B, NEW x
  PROVE  DOMAIN BagAdd(B, x) = DOMAIN B \union {x}
  BY DEF BagAdd

LEMMA BagRemoveDomain ==
  ASSUME NEW B, NEW x
  PROVE  DOMAIN BagRemove(B, x) \subseteq DOMAIN B
  BY DEF BagRemove

LEMMA BagSetDomain ==
  ASSUME NEW B, NEW S
  PROVE  DOMAIN (B (+) SetToBag(S)) = DOMAIN B \union S
  BY DEF (+), SetToBag

LEMMA QuorumsIntersect ==
  ASSUME NEW P \in Quorums, NEW Q \in Quorums
  PROVE  P \intersect Q # {}
<1> USE ServerAssumption
<1>1. IsFiniteSet(P) /\ IsFiniteSet(Q) /\ P \subseteq Server /\ Q \subseteq Server
  BY FS_Subset DEF Quorums
<1>2. /\ Cardinality(P) \in Nat /\ Cardinality(Q) \in Nat /\ Cardinality(Server) \in Nat
      /\ Cardinality(P \union Q) <= Cardinality(Server)
  BY <1>1, FS_CardinalityType, FS_Subset
<1>3. /\ IsFiniteSet(P \intersect Q)
      /\ Cardinality(P \union Q)
           = Cardinality(P) + Cardinality(Q) - Cardinality(P \intersect Q)
  BY <1>1, FS_Union, FS_Intersection
<1>4. Cardinality(P) + Cardinality(Q) > Cardinality(Server)
  BY <1>2 DEF Quorums, Majority
<1>5. Cardinality(P \intersect Q) # 0
  BY <1>2, <1>3, <1>4, FS_CardinalityType
<1>. QED  BY <1>3, <1>5, FS_EmptySet

-----------------------------------------------------------------------------
(* Steps that cast no vote and elect nobody. *)

\* A call that no step below minds: typed, not ahead of its caller, without a
\* granted vote, and sent by an elected node if it carries entries.
Harmless(c) ==
  /\ c.src \in Server /\ c.dst \in Server /\ c.src # c.dst
  /\ c.term \in Terms
  /\ c.type \in Replies => c.replyTerm \in Terms
  /\ c.term <= currentTerm[c.src]
  /\ c.type \in {"SendAppendEntries", "AppendEntries"} => WasElected(c.src, c.term)
  /\ c.type = "RequestVoteReply" => ~c.voteGranted

OnlyHarmlessCallsAdded ==
  \A c \in DOMAIN calls' : c \in DOMAIN calls \/ Harmless(c)

\* No candidate gains a vote.
LEMMA NoNewGrants ==
  ASSUME OnlyHarmlessCallsAdded,
         elected' = elected,
         \A c \in Server : state'[c] = Candidate
           => /\ state[c] = Candidate
              /\ currentTerm'[c] = currentTerm[c]
              /\ votesReceived'[c] = votesReceived[c],
         NEW q \in Server, NEW c \in Server, NEW t,
         Granted(q, c, t)'
  PROVE  Granted(q, c, t)
  BY DEF Granted, OnlyHarmlessCallsAdded, Harmless

LEMMA QuietStep ==
  ASSUME ElectionInv,
         UNCHANGED <<electionVars, elected>>,
         OnlyHarmlessCallsAdded
  PROVE  ElectionInv'
<1>1. \A q, c \in Server : \A t : Granted(q, c, t)' => Granted(q, c, t)
  BY NoNewGrants DEF electionVars
<1>2. \A i \in Server : \A t : WasElected(i, t)' <=> WasElected(i, t)
  BY DEF WasElected
<1>3. ElectionTypeOK' /\ CampaignersVoteForThemselves' /\ ElectionSafety'
  BY DEF ElectionInv, electionVars, ElectionTypeOK, CampaignersVoteForThemselves,
         ElectionSafety
<1>4. CallsAreTyped'
  BY DEF ElectionInv, electionVars, CallsAreTyped, OnlyHarmlessCallsAdded, Harmless
<1>5. LeadersWereElected'
  BY <1>2 DEF ElectionInv, electionVars, CallsAreTyped, LeadersWereElected,
              OnlyHarmlessCallsAdded, Harmless
<1>6. GrantsBind' /\ GrantsAreUnique'
  BY <1>1 DEF ElectionInv, electionVars, GrantsBind, GrantsAreUnique
<1>7. ElectedAreBacked'
  BY <1>1 DEF ElectionInv, electionVars, ElectedAreBacked, ElectionTypeOK
<1>. QED  BY <1>3, <1>4, <1>5, <1>6, <1>7 DEF ElectionInv

\* Node i becomes, or stays, a follower of a term that is not older than its
\* own.  It may lose its vote of the current term only if it campaigned in it
\* and was not elected.
BecomesFollower(i, t) ==
  /\ t \in Terms /\ t >= currentTerm[i]
  /\ state' = [state EXCEPT ![i] = Follower]
  /\ currentTerm' = [currentTerm EXCEPT ![i] = t]
  /\ \/ votedFor' = votedFor /\ t = currentTerm[i]
     \/ /\ votedFor' = [votedFor EXCEPT ![i] = Nil]
        /\ t > currentTerm[i] \/ (state[i] # Follower /\ ~WasElected(i, t))
  /\ votesReceived' \in [Server -> SUBSET Server]
  /\ \A j \in Server \ {i} : votesReceived'[j] = votesReceived[j]
  /\ elected' = elected

LEMMA FollowerStep ==
  ASSUME ElectionInv,
         NEW i \in Server, NEW t,
         BecomesFollower(i, t),
         OnlyHarmlessCallsAdded
  PROVE  ElectionInv'
<1> USE DEF Follower, Candidate, Leader
<1>0. /\ ElectionTypeOK /\ CallsAreTyped /\ CampaignersVoteForThemselves
      /\ GrantsBind /\ GrantsAreUnique /\ ElectedAreBacked /\ LeadersWereElected
      /\ ElectionSafety
  BY DEF ElectionInv
<1>t. ElectionTypeOK'
  BY <1>0 DEF ElectionTypeOK, BecomesFollower, Terms
<1>i. /\ state'[i] = Follower /\ currentTerm'[i] = t
      /\ \A j \in Server \ {i} : /\ state'[j] = state[j]
                                 /\ currentTerm'[j] = currentTerm[j]
                                 /\ votedFor'[j] = votedFor[j]
      /\ elected' = elected
  BY <1>0 DEF ElectionTypeOK, BecomesFollower
<1>m. \A j \in Server : /\ currentTerm[j] \in Nat /\ currentTerm'[j] \in Nat
                        /\ currentTerm[j] <= currentTerm'[j]
  BY <1>0, <1>i DEF ElectionTypeOK, BecomesFollower, Terms
<1>1. \A q, c \in Server : \A u : Granted(q, c, u)' => Granted(q, c, u)
  <2>1. \A c \in Server : state'[c] = Candidate
          => /\ state[c] = Candidate
             /\ currentTerm'[c] = currentTerm[c]
             /\ votesReceived'[c] = votesReceived[c]
    BY <1>i DEF BecomesFollower
  <2>. QED  BY <2>1, <1>i, NoNewGrants
<1>3. CampaignersVoteForThemselves' /\ ElectionSafety'
  BY <1>0, <1>i DEF CampaignersVoteForThemselves, ElectionSafety, BecomesFollower
<1>4. CallsAreTyped'
  BY <1>0, <1>i DEF CallsAreTyped, OnlyHarmlessCallsAdded, Harmless, BecomesFollower
<1>5. LeadersWereElected'
  <2>1. \A j \in Server : (state[j] = Leader => WasElected(j, currentTerm[j]))'
    BY <1>0, <1>i DEF LeadersWereElected, WasElected
  <2>2. ASSUME NEW c \in DOMAIN calls'
        PROVE  /\ c.src \in Server
               /\ c.term \in Nat
               /\ c.term <= currentTerm[c.src]
               /\ c.type \in {"SendAppendEntries", "AppendEntries"}
                    => WasElected(c.src, c.term)
    BY <1>0, <2>2 DEF LeadersWereElected, CallsAreTyped, OnlyHarmlessCallsAdded,
                      Harmless, Terms
  <2>. QED  BY <2>1, <2>2, <1>i, <1>m DEF LeadersWereElected, WasElected
<1>6. GrantsBind'
  <2> SUFFICES ASSUME NEW q \in Server, NEW c \in Server, NEW u \in Terms,
                      Granted(q, c, u)
               PROVE  /\ q # c
                      /\ u <= currentTerm'[q]
                      /\ u = currentTerm'[q] => votedFor'[q] = c /\ state'[q] = Follower
    BY <1>1 DEF GrantsBind, Terms
  <2>1. /\ q # c /\ u <= currentTerm[q]
        /\ u = currentTerm[q] => votedFor[q] = c /\ state[q] = Follower
    BY <1>0 DEF GrantsBind
  <2>2. CASE q = i
    BY <2>1, <2>2, <1>i, <1>m DEF BecomesFollower, Terms
  <2>3. CASE q # i
    BY <2>1, <2>3, <1>i
  <2>. QED  BY <2>2, <2>3
<1>7. GrantsAreUnique'
  BY <1>0, <1>1 DEF GrantsAreUnique, Terms
<1>8. ElectedAreBacked'
  <2> SUFFICES ASSUME NEW e \in elected
               PROVE  /\ e.voters \in Quorums
                      /\ e.leader \in e.voters
                      /\ e.term <= currentTerm'[e.leader]
                      /\ e.term = currentTerm'[e.leader]
                           => votedFor'[e.leader] = e.leader
                      /\ \A c \in Server : ~Granted(e.leader, c, e.term)'
    BY <1>i DEF ElectedAreBacked
  <2>1. /\ e.voters \in Quorums /\ e.leader \in e.voters
        /\ e.term <= currentTerm[e.leader]
        /\ e.term = currentTerm[e.leader] => votedFor[e.leader] = e.leader
        /\ \A c \in Server : ~Granted(e.leader, c, e.term)
        /\ e.leader \in Server /\ e.term \in Nat
    BY <1>0 DEF ElectedAreBacked, ElectionTypeOK
  <2>2. CASE e.leader = i
    BY <2>1, <2>2, <1>1, <1>i, <1>m DEF BecomesFollower, Terms, WasElected
  <2>3. CASE e.leader # i
    BY <2>1, <2>3, <1>1, <1>i
  <2>. QED  BY <2>2, <2>3
<1>. QED
  BY <1>t, <1>3, <1>4, <1>5, <1>6, <1>7, <1>8 DEF ElectionInv

-----------------------------------------------------------------------------
(* What the actions do to the bag of calls. *)

LEMMA ConsumeAdds ==
  ASSUME NEW c, Consume(c)
  PROVE  DOMAIN calls' \subseteq DOMAIN calls
  BY BagRemoveDomain DEF Consume

LEMMA ReplyAdds ==
  ASSUME NEW c, NEW answer, Reply(c, answer)
  PROVE  DOMAIN calls' \subseteq DOMAIN calls \union {answer}
<1>1. DOMAIN BagRemove(calls, c) \subseteq DOMAIN calls
  BY BagRemoveDomain
<1>2. DOMAIN BagAdd(BagRemove(calls, c), answer)
        = DOMAIN BagRemove(calls, c) \union {answer}
  BY BagAddDomain
<1>. QED  BY <1>1, <1>2 DEF Reply

LEMMA StartAdds ==
  ASSUME NEW S, Start(S)
  PROVE  DOMAIN calls' \subseteq DOMAIN calls \union S
<1>1. PICK started \in SUBSET S : calls' = calls (+) SetToBag(started)
  BY DEF Start
<1>. QED  BY <1>1, BagSetDomain

-----------------------------------------------------------------------------
(* The steps of an election. *)

LEMMA StartElectionStep ==
  ASSUME ElectionInv, NEW i \in Server, StartElection(i)
  PROVE  ElectionInv'
<1> USE DEF Follower, Candidate, Leader
<1>0. /\ ElectionTypeOK /\ CallsAreTyped /\ CampaignersVoteForThemselves
      /\ GrantsBind /\ GrantsAreUnique /\ ElectedAreBacked /\ LeadersWereElected
      /\ ElectionSafety
  BY DEF ElectionInv
<1>1. \A j \in Server : /\ currentTerm[j] \in Nat
                        /\ currentTerm'[j] = IF j = i THEN currentTerm[i] + 1
                                                      ELSE currentTerm[j]
                        /\ state'[j] = IF j = i THEN Candidate ELSE state[j]
                        /\ votedFor'[j] = IF j = i THEN i ELSE votedFor[j]
                        /\ votesReceived'[j] = IF j = i THEN {i} ELSE votesReceived[j]
  BY <1>0 DEF StartElection, ElectionTypeOK
<1>2. elected' = elected /\ currentTerm'[i] \in Terms
  BY <1>0, <1>1, BoundAssumption DEF StartElection, ElectionTypeOK, Terms
<1>3. DOMAIN calls' \subseteq DOMAIN calls \union
        {RequestVoteCall(i, j, currentTerm[i] + 1) : j \in Peers(i)}
  BY StartAdds DEF StartElection
<1>4. \A c \in DOMAIN calls' :
        \/ c \in DOMAIN calls
        \/ /\ c.type = "RequestVote" /\ c.src = i /\ c.dst \in Server \ {i}
           /\ c.term = currentTerm[i] + 1
  BY <1>3 DEF RequestVoteCall, Peers
<1>5. \A q, c \in Server : \A t : Granted(q, c, t)' => Granted(q, c, t)
  BY <1>1, <1>2, <1>4 DEF Granted
<1>6. ElectionTypeOK'
  BY <1>0, <1>2 DEF StartElection, ElectionTypeOK
<1>7. CallsAreTyped'
  BY <1>0, <1>1, <1>2, <1>4 DEF CallsAreTyped, Replies, Terms
<1>8. CampaignersVoteForThemselves' /\ ElectionSafety'
  BY <1>0, <1>1, <1>2 DEF CampaignersVoteForThemselves, ElectionSafety
<1>9. GrantsBind' /\ GrantsAreUnique'
  BY <1>0, <1>1, <1>5 DEF GrantsBind, GrantsAreUnique, Terms
<1>10. ElectedAreBacked'
  BY <1>0, <1>1, <1>2, <1>5 DEF ElectedAreBacked, ElectionTypeOK
<1>11. LeadersWereElected'
  <2>1. \A j \in Server : (state[j] = Leader => WasElected(j, currentTerm[j]))'
    BY <1>0, <1>1, <1>2 DEF LeadersWereElected, WasElected
  <2>2. \A c \in DOMAIN calls' :
          /\ c.term <= currentTerm'[c.src]
          /\ c.type \in {"SendAppendEntries", "AppendEntries"}
               => WasElected(c.src, c.term)
    BY <1>0, <1>1, <1>2, <1>4 DEF LeadersWereElected, CallsAreTyped, Terms
  <2>. QED  BY <2>1, <2>2, <1>2 DEF LeadersWereElected, WasElected
<1>. QED
  BY <1>6, <1>7, <1>8, <1>9, <1>10, <1>11 DEF ElectionInv

LEMMA GrantStep ==
  ASSUME ElectionInv, NEW c \in DOMAIN calls, HandleRequestVote(c), GrantsVote(c)
  PROVE  ElectionInv'
<1> USE DEF Follower, Candidate, Leader
<1> DEFINE i == c.dst
           d == c.src
           t == c.term
<1>0. /\ ElectionTypeOK /\ CallsAreTyped /\ CampaignersVoteForThemselves
      /\ GrantsBind /\ GrantsAreUnique /\ ElectedAreBacked /\ LeadersWereElected
      /\ ElectionSafety
  BY DEF ElectionInv
<1>1. /\ i \in Server /\ d \in Server /\ i # d /\ t \in Terms
      /\ t <= currentTerm[d]
      /\ currentTerm[i] <= t
      /\ t = currentTerm[i] => votedFor[i] \in {Nil, d}
      /\ \A j \in Server : currentTerm[j] \in Nat
  BY <1>0 DEF CallsAreTyped, LeadersWereElected, GrantsVote, VoteOnRecord,
              ElectionTypeOK, Terms
<1>2. t = currentTerm[i] => state[i] = Follower
  BY <1>0, <1>1, NilAssumption DEF CampaignersVoteForThemselves, ElectionTypeOK
<1>3. /\ state' = [state EXCEPT ![i] = Follower]
      /\ currentTerm' = [currentTerm EXCEPT ![i] = t]
      /\ votedFor' = [votedFor EXCEPT ![i] = d]
      /\ votesReceived' \in [Server -> SUBSET Server]
      /\ \A j \in Server \ {i} : votesReceived'[j] = votesReceived[j]
      /\ elected' = elected
  <2>1. CASE t > currentTerm[i]
    BY <2>1, <1>0 DEF HandleRequestVote, ElectionTypeOK
  <2>2. CASE t = currentTerm[i]
    <3>1. ~(t > currentTerm[i])
      BY <2>2, <1>1 DEF Terms
    <3>. QED  BY <3>1, <2>2, <1>0, <1>1, <1>2 DEF HandleRequestVote, ElectionTypeOK
  <2>. QED  BY <2>1, <2>2, <1>1 DEF Terms
<1>4. \A j \in Server : /\ currentTerm'[j] = IF j = i THEN t ELSE currentTerm[j]
                        /\ state'[j] = IF j = i THEN Follower ELSE state[j]
                        /\ votedFor'[j] = IF j = i THEN d ELSE votedFor[j]
  BY <1>0, <1>1, <1>3 DEF ElectionTypeOK
<1>5. \A r \in DOMAIN calls' :
        \/ r \in DOMAIN calls
        \/ /\ r.type = "RequestVoteReply" /\ r.src = d /\ r.dst = i
           /\ r.term = t /\ r.replyTerm = t
  BY <1>1, <1>4, ReplyAdds DEF HandleRequestVote
<1>6. \A q, e \in Server : \A u :
        Granted(q, e, u)' => Granted(q, e, u) \/ (q = i /\ e = d /\ u = t)
  BY <1>3, <1>4, <1>5 DEF Granted
<1>7. \A e \in Server : Granted(i, e, t) => e = d
  BY <1>0, <1>1, NilAssumption DEF GrantsBind, Terms
<1>8. ElectionTypeOK'
  BY <1>0, <1>1, <1>3 DEF ElectionTypeOK, Terms
<1>9. CallsAreTyped'
  BY <1>0, <1>1, <1>3, <1>4, <1>5 DEF CallsAreTyped, Replies
<1>10. CampaignersVoteForThemselves' /\ ElectionSafety'
  BY <1>0, <1>3, <1>4 DEF CampaignersVoteForThemselves, ElectionSafety
<1>11. GrantsBind'
  <2> SUFFICES ASSUME NEW q \in Server, NEW e \in Server, NEW u \in Terms,
                      Granted(q, e, u)'
               PROVE  /\ q # e
                      /\ u <= currentTerm'[q]
                      /\ u = currentTerm'[q] => votedFor'[q] = e /\ state'[q] = Follower
    BY DEF GrantsBind
  <2>1. CASE q = i /\ e = d /\ u = t
    BY <2>1, <1>1, <1>4 DEF Terms
  <2>2. CASE Granted(q, e, u)
    BY <2>2, <1>0, <1>1, <1>4, <1>7 DEF GrantsBind, Terms
  <2>. QED  BY <2>1, <2>2, <1>6
<1>12. GrantsAreUnique'
  BY <1>0, <1>6, <1>7 DEF GrantsAreUnique
<1>13. ElectedAreBacked'
  <2> SUFFICES ASSUME NEW e \in elected
               PROVE  /\ e.voters \in Quorums
                      /\ e.leader \in e.voters
                      /\ e.term <= currentTerm'[e.leader]
                      /\ e.term = currentTerm'[e.leader]
                           => votedFor'[e.leader] = e.leader
                      /\ \A q \in Server : ~Granted(e.leader, q, e.term)'
    BY <1>3 DEF ElectedAreBacked
  <2>1. /\ e.voters \in Quorums /\ e.leader \in e.voters
        /\ e.term <= currentTerm[e.leader]
        /\ e.term = currentTerm[e.leader] => votedFor[e.leader] = e.leader
        /\ \A q \in Server : ~Granted(e.leader, q, e.term)
        /\ e.leader \in Server /\ e.term \in Nat
    BY <1>0 DEF ElectedAreBacked, ElectionTypeOK
  <2>2. ~(e.leader = i /\ e.term = t)
    BY <2>1, <1>1, NilAssumption DEF Terms
  <2>. QED  BY <2>1, <2>2, <1>1, <1>4, <1>6 DEF Terms
<1>14. LeadersWereElected'
  <2>1. \A j \in Server : (state[j] = Leader => WasElected(j, currentTerm[j]))'
    BY <1>0, <1>3, <1>4 DEF LeadersWereElected, WasElected
  <2>2. \A r \in DOMAIN calls' :
          /\ r.term <= currentTerm'[r.src]
          /\ r.type \in {"SendAppendEntries", "AppendEntries"}
               => WasElected(r.src, r.term)
    BY <1>0, <1>1, <1>4, <1>5 DEF LeadersWereElected, CallsAreTyped, Terms
  <2>. QED  BY <2>1, <2>2, <1>3 DEF LeadersWereElected, WasElected
<1>. QED
  BY <1>8, <1>9, <1>10, <1>11, <1>12, <1>13, <1>14 DEF ElectionInv

\* A vote that is counted was granted by the answer, which stands for it already.
LEMMA CountVoteStep ==
  ASSUME ElectionInv, NEW c \in DOMAIN calls, CountVote(c)
  PROVE  ElectionInv'
<1> USE DEF Follower, Candidate, Leader
<1> DEFINE i == c.src
<1>0. /\ ElectionTypeOK /\ CallsAreTyped /\ CampaignersVoteForThemselves
      /\ GrantsBind /\ GrantsAreUnique /\ ElectedAreBacked /\ LeadersWereElected
      /\ ElectionSafety
  BY DEF ElectionInv
<1>1. /\ i \in Server /\ c.dst \in Server
      /\ c.type = "RequestVoteReply" /\ c.voteGranted /\ currentTerm[i] = c.term
  BY <1>0 DEF CallsAreTyped, CountVote, VoteCounts
<1>2. /\ votesReceived' = [votesReceived EXCEPT ![i] = votesReceived[i] \union {c.dst}]
      /\ UNCHANGED <<state, currentTerm, votedFor, elected>>
      /\ DOMAIN calls' \subseteq DOMAIN calls
  BY ConsumeAdds DEF CountVote
<1>3. \A q, e \in Server : \A t : Granted(q, e, t)' => Granted(q, e, t)
  BY <1>0, <1>1, <1>2 DEF Granted, ElectionTypeOK
<1>4. ElectionTypeOK' /\ CampaignersVoteForThemselves' /\ ElectionSafety'
  BY <1>0, <1>1, <1>2 DEF ElectionTypeOK, CampaignersVoteForThemselves, ElectionSafety
<1>5. CallsAreTyped' /\ LeadersWereElected'
  BY <1>0, <1>2 DEF CallsAreTyped, LeadersWereElected, WasElected
<1>6. GrantsBind' /\ GrantsAreUnique'
  BY <1>0, <1>2, <1>3 DEF GrantsBind, GrantsAreUnique
<1>7. ElectedAreBacked'
  BY <1>0, <1>2, <1>3 DEF ElectedAreBacked, ElectionTypeOK
<1>. QED  BY <1>4, <1>5, <1>6, <1>7 DEF ElectionInv

\* The quorum of a new leader cannot meet the quorum of another leader of its
\* term: who is in both has granted two votes, or is one of the two leaders.
LEMMA BecomeLeaderStep ==
  ASSUME ElectionInv, NEW c \in DOMAIN calls, BecomeLeader(c)
  PROVE  ElectionInv'
<1> USE DEF Follower, Candidate, Leader
<1> DEFINE i == c.src
           t == currentTerm[i]
           voters == votesReceived[i] \union {c.dst}
           new == [term |-> t, leader |-> i, voters |-> voters]
<1>0. /\ ElectionTypeOK /\ CallsAreTyped /\ CampaignersVoteForThemselves
      /\ GrantsBind /\ GrantsAreUnique /\ ElectedAreBacked /\ LeadersWereElected
      /\ ElectionSafety
  BY DEF ElectionInv
<1>1. /\ i \in Server /\ c.dst \in Server /\ i # c.dst /\ t \in Terms
      /\ c.type = "RequestVoteReply" /\ c.voteGranted /\ t = c.term
      /\ state[i] = Candidate /\ votedFor[i] = i /\ i \in votesReceived[i]
  BY <1>0 DEF CallsAreTyped, BecomeLeader, VoteCounts, CampaignersVoteForThemselves
<1>2. /\ state' = [state EXCEPT ![i] = Leader]
      /\ votesReceived' = [votesReceived EXCEPT ![i] = {}]
      /\ UNCHANGED <<currentTerm, votedFor>>
      /\ elected' = elected \union {new}
      /\ DOMAIN calls' \subseteq DOMAIN calls
  BY ConsumeAdds DEF BecomeLeader
<1>3. voters \in Quorums /\ i \in voters /\ voters \subseteq Server
  BY <1>0, <1>1 DEF Quorums, HasMajority, BecomeLeader, ElectionTypeOK
<1>4. \A q \in voters : q # i => Granted(q, i, t)
  BY <1>1 DEF Granted
<1>5. \A q, e \in Server : \A u : Granted(q, e, u)' => Granted(q, e, u)
  <2> SUFFICES ASSUME NEW q \in Server, NEW e \in Server, NEW u, Granted(q, e, u)'
               PROVE  Granted(q, e, u)
    OBVIOUS
  <2>1. CASE \E f \in elected' : f.leader = e /\ f.term = u /\ q # e /\ q \in f.voters
    BY <2>1, <1>2, <1>4 DEF Granted
  <2>2. CASE \E r \in DOMAIN calls' : /\ r.type = "RequestVoteReply"
                                      /\ r.voteGranted
                                      /\ r.dst = q /\ r.src = e /\ r.term = u
    BY <2>2, <1>2 DEF Granted
  <2>3. CASE /\ state'[e] = Candidate /\ currentTerm'[e] = u
             /\ q # e /\ q \in votesReceived'[e]
    BY <2>3, <1>0, <1>1, <1>2 DEF Granted, ElectionTypeOK
  <2>. QED  BY <2>1, <2>2, <2>3 DEF Granted
<1>6. \A q \in Server : ~Granted(i, q, t)
  BY <1>0, <1>1 DEF GrantsBind
<1>7. \A e \in elected : e.term = t => e.leader = i
  <2> SUFFICES ASSUME NEW e \in elected, e.term = t, e.leader # i
               PROVE  FALSE
    OBVIOUS
  <2>1. /\ e.voters \in Quorums /\ e.leader \in Server
        /\ \A q \in Server : ~Granted(e.leader, q, t)
    BY <1>0 DEF ElectedAreBacked, ElectionTypeOK
  <2>2. PICK q \in Server : q \in voters /\ q \in e.voters
    BY <2>1, <1>3, QuorumsIntersect
  <2>3. q # e.leader
    BY <2>1, <2>2, <1>1, <1>4
  <2>4. Granted(q, e.leader, t)
    BY <2>2, <2>3 DEF Granted
  <2>5. q # i
    BY <2>1, <2>4, <1>6
  <2>6. Granted(q, i, t)
    BY <2>2, <2>5, <1>4
  <2>. QED  BY <2>1, <2>4, <2>6, <1>0, <1>1 DEF GrantsAreUnique
<1>8. ElectionTypeOK' /\ CampaignersVoteForThemselves'
  BY <1>0, <1>1, <1>2, <1>3 DEF ElectionTypeOK, CampaignersVoteForThemselves, Terms
<1>9. ElectionSafety'
  BY <1>0, <1>2, <1>7 DEF ElectionSafety
<1>10. CallsAreTyped'
  BY <1>0, <1>1, <1>2 DEF CallsAreTyped
<1>11. LeadersWereElected'
  <2>1. ASSUME NEW j \in Server, state'[j] = Leader
        PROVE  WasElected(j, currentTerm[j])'
    <3>1. CASE j = i
      <4>1. new \in elected' /\ new.leader = j /\ new.term = currentTerm'[j]
        BY <3>1, <1>2
      <4>. QED  BY <4>1 DEF WasElected
    <3>2. CASE j # i
      BY <2>1, <3>2, <1>0, <1>1, <1>2 DEF LeadersWereElected, WasElected, ElectionTypeOK
    <3>. QED  BY <3>1, <3>2
  <2>2. \A r \in DOMAIN calls' :
          /\ r.term <= currentTerm[r.src]
          /\ r.type \in {"SendAppendEntries", "AppendEntries"}
               => WasElected(r.src, r.term)'
    BY <1>0, <1>2 DEF LeadersWereElected, WasElected
  <2>. QED  BY <2>1, <2>2, <1>2 DEF LeadersWereElected, WasElected
<1>12. GrantsBind' /\ GrantsAreUnique'
  <2>1. \A j \in Server : state[j] = Follower => state'[j] = Follower
    BY <1>0, <1>1, <1>2 DEF ElectionTypeOK
  <2>. QED  BY <1>0, <1>2, <1>5, <2>1 DEF GrantsBind, GrantsAreUnique
<1>13. ElectedAreBacked'
  <2> SUFFICES ASSUME NEW e \in elected'
               PROVE  /\ e.voters \in Quorums
                      /\ e.leader \in e.voters
                      /\ e.term <= currentTerm'[e.leader]
                      /\ e.term = currentTerm'[e.leader]
                           => votedFor'[e.leader] = e.leader
                      /\ \A q \in Server : ~Granted(e.leader, q, e.term)'
    BY DEF ElectedAreBacked
  <2>1. CASE e \in elected
    BY <2>1, <1>0, <1>2, <1>5 DEF ElectedAreBacked, ElectionTypeOK
  <2>2. CASE e = new
    <3>1. e.voters = voters /\ e.leader = i /\ e.term = t
      BY <2>2
    <3>. QED  BY <3>1, <1>1, <1>2, <1>3, <1>5, <1>6 DEF Terms
  <2>. QED  BY <2>1, <2>2, <1>2
<1>. QED
  BY <1>8, <1>9, <1>10, <1>11, <1>12, <1>13 DEF ElectionInv

LEMMA RefuseStep ==
  ASSUME ElectionInv, NEW c \in DOMAIN calls, HandleRequestVote(c), ~GrantsVote(c)
  PROVE  ElectionInv'
<1> USE DEF Follower, Candidate, Leader
<1> DEFINE i == c.dst
<1>0. ElectionTypeOK /\ CallsAreTyped /\ LeadersWereElected
  BY DEF ElectionInv
<1>1. /\ i \in Server /\ c.src \in Server /\ i # c.src
      /\ c.term \in Terms /\ currentTerm[i] \in Terms /\ c.term <= currentTerm[c.src]
  BY <1>0 DEF CallsAreTyped, LeadersWereElected
<1>2. currentTerm'[i] \in Terms
  BY <1>0, <1>1 DEF HandleRequestVote, ElectionTypeOK
<1>3. OnlyHarmlessCallsAdded
  <2>1. DOMAIN calls' \subseteq DOMAIN calls \union
          {[type |-> "RequestVoteReply", src |-> c.src, dst |-> i, term |-> c.term,
            replyTerm |-> currentTerm'[i], voteGranted |-> GrantsVote(c)]}
    BY ReplyAdds DEF HandleRequestVote
  <2>. QED  BY <2>1, <1>1, <1>2 DEF OnlyHarmlessCallsAdded, Harmless
<1>4. CASE c.term > currentTerm[i]
  <2>1. BecomesFollower(i, c.term)
    BY <1>0, <1>1, <1>4
       DEF BecomesFollower, HandleRequestVote, VoteOnRecord, ElectionTypeOK, Terms
  <2>. QED  BY <2>1, <1>1, <1>3, FollowerStep
<1>5. CASE ~(c.term > currentTerm[i])
  <2>1. UNCHANGED <<electionVars, elected>>
    BY <1>0, <1>1, <1>5 DEF HandleRequestVote, VoteOnRecord, ElectionTypeOK, electionVars
  <2>. QED  BY <2>1, <1>3, QuietStep
<1>. QED  BY <1>4, <1>5

-----------------------------------------------------------------------------
(* The steps that only the last two lemmas on calls are needed for. *)

LEMMA StepDownOnReplyStep ==
  ASSUME ElectionInv, NEW c \in DOMAIN calls, StepDownOnReply(c)
  PROVE  ElectionInv'
<1>1. /\ c.src \in Server /\ c.replyTerm \in Terms
      /\ c.replyTerm > currentTerm[c.src]
      /\ currentTerm[c.src] \in Nat
  BY DEF ElectionInv, ElectionTypeOK, CallsAreTyped, StepDownOnReply
<1>2. BecomesFollower(c.src, c.replyTerm)
  BY <1>1 DEF BecomesFollower, BecomeFollower, StepDownOnReply, ElectionInv,
              ElectionTypeOK, Terms
<1>3. OnlyHarmlessCallsAdded
  BY ConsumeAdds DEF StepDownOnReply, OnlyHarmlessCallsAdded
<1>. QED  BY <1>1, <1>2, <1>3, FollowerStep

\* Whoever steps down for the entries of an elected node was not elected in
\* that term itself.
LEMMA StepsDownUnelected ==
  ASSUME ElectionInv, NEW c \in DOMAIN calls, c.type = "AppendEntries"
  PROVE  /\ c.src \in Server /\ c.dst \in Server /\ c.src # c.dst
         /\ c.term \in Terms /\ currentTerm[c.dst] \in Terms
         /\ c.term <= currentTerm[c.src]
         /\ ~WasElected(c.dst, c.term)
  BY DEF ElectionInv, CallsAreTyped, LeadersWereElected, WasElected, ElectionSafety

LEMMA FollowLeaderStep ==
  ASSUME ElectionInv, NEW c \in DOMAIN calls, FollowLeader(c), elected' = elected,
         NEW success \in BOOLEAN, NEW match, AppendReply(c, c.term, success, match)
  PROVE  ElectionInv'
<1> USE DEF Follower, Candidate, Leader
<1>1. /\ c.src \in Server /\ c.dst \in Server /\ c.src # c.dst
      /\ c.term \in Terms /\ currentTerm[c.dst] \in Terms
      /\ c.term <= currentTerm[c.src]
      /\ ~WasElected(c.dst, c.term)
      /\ c.term >= currentTerm[c.dst]
  BY StepsDownUnelected DEF FollowLeader
<1>2. OnlyHarmlessCallsAdded
  <2>1. DOMAIN calls' \subseteq DOMAIN calls \union
          {[type |-> "AppendEntriesReply", src |-> c.src, dst |-> c.dst,
            term |-> c.term, replyTerm |-> c.term, success |-> success,
            matchIndex |-> match, lastSent |-> LastSent(c)]}
    BY ReplyAdds DEF AppendReply
  <2>. QED  BY <2>1, <1>1 DEF OnlyHarmlessCallsAdded, Harmless
<1>3. CASE StepsDownFor(c)
  <2>1. BecomesFollower(c.dst, c.term)
    BY <1>1, <1>3 DEF BecomesFollower, BecomeFollower, FollowLeader, StepsDownFor,
                      ElectionInv, ElectionTypeOK, Terms
  <2>. QED  BY <2>1, <1>1, <1>2, FollowerStep
<1>4. CASE ~StepsDownFor(c)
  BY <1>2, <1>4, QuietStep DEF FollowLeader
<1>. QED  BY <1>3, <1>4

LEMMA RejectStaleStep ==
  ASSUME ElectionInv, NEW c \in DOMAIN calls, RejectStaleAppend(c)
  PROVE  ElectionInv'
<1>1. /\ c.src \in Server /\ c.dst \in Server /\ c.src # c.dst
      /\ c.term \in Terms /\ currentTerm[c.dst] \in Terms
      /\ c.term <= currentTerm[c.src]
  BY StepsDownUnelected DEF RejectStaleAppend
<1>2. DOMAIN calls' \subseteq DOMAIN calls \union
        {[type |-> "AppendEntriesReply", src |-> c.src, dst |-> c.dst,
          term |-> c.term, replyTerm |-> currentTerm[c.dst], success |-> FALSE,
          matchIndex |-> 0, lastSent |-> LastSent(c)]}
  BY ReplyAdds DEF RejectStaleAppend, AppendReply
<1>3. OnlyHarmlessCallsAdded
  BY <1>1, <1>2 DEF OnlyHarmlessCallsAdded, Harmless
<1>. QED  BY <1>3, QuietStep DEF RejectStaleAppend

LEMMA SendAppendEntriesStep ==
  ASSUME ElectionInv, NEW c \in DOMAIN calls, SendAppendEntries(c)
  PROVE  ElectionInv'
<1> DEFINE request ==
      [type |-> "AppendEntries", src |-> c.src, dst |-> c.dst,
       life |-> restarts[c.src], term |-> c.term,
       prevLogIndex |-> PrevLogIndex(c.src, c.dst),
       prevLogTerm |-> PrevLogTerm(c.src, PrevLogIndex(c.src, c.dst)),
       entries |-> EntriesToSend(c.src, c.dst),
       leaderCommit |-> c.leaderCommit]
<1>1. /\ c.src \in Server /\ c.dst \in Server /\ c.src # c.dst
      /\ c.term \in Terms /\ c.term <= currentTerm[c.src]
      /\ WasElected(c.src, c.term)
  BY DEF ElectionInv, CallsAreTyped, LeadersWereElected, SendAppendEntries
<1>2. DOMAIN calls' \subseteq DOMAIN calls \union {request}
  <2>1. DOMAIN BagRemove(calls, c) \subseteq DOMAIN calls
    BY BagRemoveDomain
  <2>2. DOMAIN calls' = DOMAIN BagRemove(calls, c) \union {request}
    BY BagAddDomain DEF SendAppendEntries
  <2>. QED  BY <2>1, <2>2
<1>3. OnlyHarmlessCallsAdded
  BY <1>1, <1>2 DEF OnlyHarmlessCallsAdded, Harmless, Replies
<1>. QED  BY <1>3, QuietStep DEF SendAppendEntries

\* A leader starts calls under the term it was elected in.
LEMMA LeaderCallsAreHarmless ==
  ASSUME ElectionInv, NEW i \in Server, state[i] = Leader,
         Start({SendAppendCall(i, j) : j \in Peers(i)})
  PROVE  OnlyHarmlessCallsAdded
<1>1. currentTerm[i] \in Terms /\ WasElected(i, currentTerm[i])
  BY DEF ElectionInv, CallsAreTyped, LeadersWereElected
<1>2. DOMAIN calls' \subseteq DOMAIN calls \union {SendAppendCall(i, j) : j \in Peers(i)}
  BY StartAdds
<1>. QED
  BY <1>1, <1>2 DEF OnlyHarmlessCallsAdded, Harmless, SendAppendCall, Peers, Replies, Terms

\* A restart clears no vote but that of CrashInHandler.
LEMMA RebootStep ==
  ASSUME ElectionInv, NEW i \in Server, NEW t, NEW callsLeft, Reboot(i, callsLeft),
         DOMAIN callsLeft \subseteq DOMAIN calls,
         t \in Terms, t >= currentTerm[i],
         currentTerm' = [currentTerm EXCEPT ![i] = t],
         \/ votedFor' = votedFor /\ t = currentTerm[i]
         \/ /\ votedFor' = [votedFor EXCEPT ![i] = Nil]
            /\ t > currentTerm[i] \/ (state[i] # Follower /\ ~WasElected(i, t))
  PROVE  ElectionInv'
<1>1. BecomesFollower(i, t)
  BY DEF BecomesFollower, Reboot, ElectionInv, ElectionTypeOK
<1>2. OnlyHarmlessCallsAdded
  BY DEF OnlyHarmlessCallsAdded, Reboot
<1>. QED  BY <1>1, <1>2, FollowerStep

LEMMA CrashStep ==
  ASSUME ElectionInv, NEW i \in Server, Crash(i) \/ CrashInSnapshot(i)
  PROVE  ElectionInv'
<1>1. /\ currentTerm[i] \in Terms /\ currentTerm[i] >= currentTerm[i]
      /\ currentTerm' = [currentTerm EXCEPT ![i] = currentTerm[i]]
      /\ votedFor' = votedFor
  BY DEF Crash, CrashInSnapshot, ElectionInv, CallsAreTyped, ElectionTypeOK, Terms
<1>2. Reboot(i, calls)
  BY DEF Crash, CrashInSnapshot
<1>. QED  BY <1>1, <1>2, RebootStep

LEMMA CrashInHandlerStep ==
  ASSUME ElectionInv, NEW c \in DOMAIN calls, CrashInHandler(c)
  PROVE  ElectionInv'
<1>1. /\ c.dst \in Server /\ c.term \in Terms /\ currentTerm[c.dst] \in Terms
  BY DEF ElectionInv, CallsAreTyped
<1>2. /\ c.term >= currentTerm[c.dst]
      /\ c.term > currentTerm[c.dst] \/ /\ state[c.dst] # Follower
                                        /\ ~WasElected(c.dst, c.term)
  BY <1>1, StepsDownUnelected DEF CrashInHandler, StepsDownFor, Terms
<1>3. DOMAIN BagRemove(calls, c) \subseteq DOMAIN calls
  BY BagRemoveDomain
<1>. QED  BY <1>1, <1>2, <1>3, RebootStep DEF CrashInHandler

-----------------------------------------------------------------------------
(* Every step keeps the invariant. *)

LEMMA CallStepKeeps ==
  ASSUME ElectionInv, CallStep
  PROVE  ElectionInv'
<1> PICK c \in DOMAIN calls :
      \/ HandleRequestVote(c)
      \/ StepDownOnReply(c)
      \/ DiscardReply(c)
      \/ CountVote(c)
      \/ BecomeLeader(c)
      \/ SendAppendEntries(c)
      \/ RejectStaleAppend(c)
      \/ RejectShortLog(c)
      \/ RejectMismatch(c)
      \/ AcceptEntries(c)
      \/ AdvanceOnSuccess(c)
      \/ BackOffOnFailure(c)
      \/ CrashInHandler(c)
      \/ Lose(c)
  BY DEF CallStep
<1>1. CASE HandleRequestVote(c)
  BY <1>1, GrantStep, RefuseStep
<1>2. CASE StepDownOnReply(c)
  BY <1>2, StepDownOnReplyStep
<1>3. CASE CountVote(c)
  BY <1>3, CountVoteStep
<1>4. CASE BecomeLeader(c)
  BY <1>4, BecomeLeaderStep
<1>5. CASE SendAppendEntries(c)
  BY <1>5, SendAppendEntriesStep
<1>6. CASE RejectStaleAppend(c)
  BY <1>6, RejectStaleStep
<1>7. CASE RejectShortLog(c)
  BY <1>7, FollowLeaderStep DEF RejectShortLog
<1>8. CASE RejectMismatch(c)
  BY <1>8, FollowLeaderStep DEF RejectMismatch
<1>9. CASE AcceptEntries(c)
  BY <1>9, FollowLeaderStep DEF AcceptEntries
<1>10. CASE DiscardReply(c) \/ AdvanceOnSuccess(c) \/ BackOffOnFailure(c) \/ Lose(c)
  <2>1. UNCHANGED <<electionVars, elected>> /\ Consume(c)
    BY <1>10 DEF DiscardReply, AdvanceOnSuccess, BackOffOnFailure, Lose
  <2>2. OnlyHarmlessCallsAdded
    BY <2>1, ConsumeAdds DEF OnlyHarmlessCallsAdded
  <2>. QED  BY <2>1, <2>2, QuietStep
<1>11. CASE CrashInHandler(c)
  BY <1>11, CrashInHandlerStep
<1>. QED
  BY <1>1, <1>2, <1>3, <1>4, <1>5, <1>6, <1>7, <1>8, <1>9, <1>10, <1>11

LEMMA NodeStepKeeps ==
  ASSUME ElectionInv, NodeStep
  PROVE  ElectionInv'
<1> PICK i \in Server :
      \/ StartElection(i)
      \/ BroadcastAppendEntries(i)
      \/ FetchCommitted(i)
      \/ ApplyEntry(i)
      \/ MaybeSnapshot(i)
      \/ TakeSnapshot(i)
      \/ Crash(i)
      \/ CrashInSnapshot(i)
  BY DEF NodeStep
<1>1. CASE StartElection(i)
  BY <1>1, StartElectionStep
<1>2. CASE BroadcastAppendEntries(i)
  BY <1>2, LeaderCallsAreHarmless, QuietStep DEF BroadcastAppendEntries
<1>3. CASE FetchCommitted(i) \/ ApplyEntry(i) \/ MaybeSnapshot(i) \/ TakeSnapshot(i)
  <2>1. UNCHANGED <<electionVars, elected, calls>>
    BY <1>3 DEF FetchCommitted, ApplyEntry, MaybeSnapshot, TakeSnapshot
  <2>. QED  BY <2>1, QuietStep DEF OnlyHarmlessCallsAdded
<1>4. CASE Crash(i) \/ CrashInSnapshot(i)
  BY <1>4, CrashStep
<1>. QED  BY <1>1, <1>2, <1>3, <1>4

LEMMA ClientStepKeeps ==
  ASSUME ElectionInv, ClientStep
  PROVE  ElectionInv'
<1> PICK cmd \in Command : \/ \E i \in Server : Propose(i, cmd)
                           \/ ProposeReturn(cmd)
                           \/ ProposeTimeout(cmd)
  BY DEF ClientStep
<1>1. CASE \E i \in Server : Propose(i, cmd)
  BY <1>1, LeaderCallsAreHarmless, QuietStep DEF Propose
<1>2. CASE ProposeReturn(cmd) \/ ProposeTimeout(cmd)
  <2>1. UNCHANGED <<electionVars, elected, calls>>
    BY <1>2 DEF ProposeReturn, ProposeTimeout
  <2>. QED  BY <2>1, QuietStep DEF OnlyHarmlessCallsAdded
<1>. QED  BY <1>1, <1>2

LEMMA InitElectionInv ==
  ASSUME Init
  PROVE  ElectionInv
<1> USE DEF Init, Follower, Candidate, Leader
<1>1. DOMAIN calls = {}
  BY DEF EmptyBag, SetToBag
<1>2. \A q, c \in Server : \A t : ~Granted(q, c, t)
  BY <1>1 DEF Granted
<1>3. ElectionTypeOK /\ CallsAreTyped
  BY <1>1, BoundAssumption DEF ElectionTypeOK, CallsAreTyped, Terms
<1>4. CampaignersVoteForThemselves /\ LeadersWereElected
  BY <1>1 DEF CampaignersVoteForThemselves, LeadersWereElected
<1>5. GrantsBind /\ GrantsAreUnique
  BY <1>2 DEF GrantsBind, GrantsAreUnique
<1>6. ElectedAreBacked /\ ElectionSafety
  BY DEF ElectedAreBacked, ElectionSafety
<1>. QED  BY <1>3, <1>4, <1>5, <1>6 DEF ElectionInv

-----------------------------------------------------------------------------

\* The election part of the state keeps the invariant of module RaftSafety in
\* every behaviour, with crashes, lost, delayed and reordered calls.
THEOREM ElectionInvariant == Spec => []ElectionInv
<1>1. ASSUME ElectionInv, [Next]_vars
      PROVE  ElectionInv'
  <2>1. CASE UNCHANGED vars
    <3>1. UNCHANGED <<electionVars, elected, calls>>
      BY <2>1 DEF vars
    <3>. QED  BY <1>1, <3>1, QuietStep DEF OnlyHarmlessCallsAdded
  <2>2. CASE Next
    BY <1>1, <2>2, CallStepKeeps, NodeStepKeeps, ClientStepKeeps DEF Next
  <2>. QED  BY <1>1, <2>1, <2>2
<1>. QED  BY <1>1, InitElectionInv, PTL DEF Spec

\* At most one node is ever elected in a term: HandleRequestVote, becomeFollower,
\* the reply handling of startElection and the recovery from the files together.
THEOREM ElectionIsSafe == Spec => []ElectionSafety
<1>1. ElectionInv => ElectionSafety
  BY DEF ElectionInv
<1>. QED  BY <1>1, ElectionInvariant, PTL

\* The variables of the election keep their types.
THEOREM ElectionIsTyped == Spec => []ElectionTypeOK
<1>1. ElectionInv => ElectionTypeOK
  BY DEF ElectionInv
<1>. QED  BY <1>1, ElectionInvariant, PTL

-----------------------------------------------------------------------------
(* Votes are kept. *)

VoteKept ==
  \A i \in Server :
    votedFor[i] \in Server \ {i} /\ currentTerm'[i] = currentTerm[i]
      => votedFor'[i] = votedFor[i]

\* A handler that clears the vote of node i changes its term, or finds it
\* campaigning, with its vote its own.
LEMMA ClearedVote ==
  ASSUME ElectionInv, NEW i \in Server, NEW t \in Nat,
         currentTerm' = [currentTerm EXCEPT ![i] = t],
         votedFor' = [votedFor EXCEPT ![i] = Nil],
         t # currentTerm[i] \/ state[i] # Follower
  PROVE  VoteKept
  BY DEF ElectionInv, ElectionTypeOK, CampaignersVoteForThemselves, VoteKept

LEMMA FollowLeaderKeepsVotes ==
  ASSUME ElectionInv, NEW c \in DOMAIN calls, FollowLeader(c)
  PROVE  VoteKept
<1>1. /\ c.dst \in Server /\ c.term \in Nat /\ currentTerm[c.dst] \in Nat
  BY DEF ElectionInv, CallsAreTyped, Terms
<1>2. CASE StepsDownFor(c)
  BY <1>1, <1>2, ClearedVote DEF FollowLeader, BecomeFollower, StepsDownFor
<1>3. CASE ~StepsDownFor(c)
  BY <1>3 DEF FollowLeader, electionVars, VoteKept
<1>. QED  BY <1>2, <1>3

LEMMA CallStepKeepsVotes ==
  ASSUME ElectionInv, CallStep
  PROVE  VoteKept
<1> PICK c \in DOMAIN calls :
      \/ HandleRequestVote(c)
      \/ StepDownOnReply(c)
      \/ DiscardReply(c)
      \/ CountVote(c)
      \/ BecomeLeader(c)
      \/ SendAppendEntries(c)
      \/ RejectStaleAppend(c)
      \/ RejectShortLog(c)
      \/ RejectMismatch(c)
      \/ AcceptEntries(c)
      \/ AdvanceOnSuccess(c)
      \/ BackOffOnFailure(c)
      \/ CrashInHandler(c)
      \/ Lose(c)
  BY DEF CallStep
<1>0. /\ c.src \in Server /\ c.dst \in Server /\ c.term \in Nat
      /\ currentTerm[c.src] \in Nat /\ currentTerm[c.dst] \in Nat
      /\ c.type \in Replies => c.replyTerm \in Nat
  BY DEF ElectionInv, CallsAreTyped, Terms
<1>1. CASE HandleRequestVote(c)
  <2>1. \A j \in Server \ {c.dst} : votedFor'[j] = votedFor[j]
    BY <1>1 DEF HandleRequestVote, ElectionInv, ElectionTypeOK
  <2>2. /\ currentTerm'[c.dst] = currentTerm[c.dst]
        /\ votedFor[c.dst] \in Server \ {c.dst}
        => votedFor'[c.dst] = votedFor[c.dst]
    BY <1>0, <1>1, NilAssumption
       DEF HandleRequestVote, GrantsVote, VoteOnRecord, ElectionInv, ElectionTypeOK
  <2>. QED  BY <2>1, <2>2 DEF VoteKept
<1>2. CASE StepDownOnReply(c)
  <2>1. /\ c.replyTerm \in Nat /\ c.replyTerm # currentTerm[c.src]
        /\ currentTerm' = [currentTerm EXCEPT ![c.src] = c.replyTerm]
        /\ votedFor' = [votedFor EXCEPT ![c.src] = Nil]
    BY <1>0, <1>2 DEF StepDownOnReply, BecomeFollower
  <2>. QED  BY <2>1, <1>0, ClearedVote
<1>3. CASE RejectShortLog(c) \/ RejectMismatch(c) \/ AcceptEntries(c)
  BY <1>3, FollowLeaderKeepsVotes DEF RejectShortLog, RejectMismatch, AcceptEntries
<1>4. CASE CrashInHandler(c)
  <2>1. /\ currentTerm' = [currentTerm EXCEPT ![c.dst] = c.term]
        /\ votedFor' = [votedFor EXCEPT ![c.dst] = Nil]
        /\ c.term # currentTerm[c.dst] \/ state[c.dst] # Follower
    BY <1>0, <1>4 DEF CrashInHandler, StepsDownFor
  <2>. QED  BY <2>1, <1>0, ClearedVote
<1>5. CASE \/ DiscardReply(c) \/ CountVote(c) \/ BecomeLeader(c)
           \/ SendAppendEntries(c) \/ RejectStaleAppend(c)
           \/ AdvanceOnSuccess(c) \/ BackOffOnFailure(c) \/ Lose(c)
  <2>1. votedFor' = votedFor
    BY <1>5 DEF DiscardReply, CountVote, BecomeLeader, SendAppendEntries,
                RejectStaleAppend, AdvanceOnSuccess, BackOffOnFailure, Lose, electionVars
  <2>. QED  BY <2>1 DEF VoteKept
<1>. QED  BY <1>1, <1>2, <1>3, <1>4, <1>5

LEMMA OtherStepKeepsVotes ==
  ASSUME ElectionInv, NodeStep \/ ClientStep
  PROVE  VoteKept
<1>1. CASE \E i \in Server : StartElection(i)
  BY <1>1 DEF StartElection, VoteKept, ElectionInv, ElectionTypeOK
<1>2. CASE ~ \E i \in Server : StartElection(i)
  <2>1. votedFor' = votedFor
    BY <1>2 DEF NodeStep, ClientStep, BroadcastAppendEntries, FetchCommitted, ApplyEntry,
                MaybeSnapshot, TakeSnapshot, Crash, CrashInSnapshot, Propose,
                ProposeReturn, ProposeTimeout, electionVars
  <2>. QED  BY <2>1 DEF VoteKept
<1>. QED  BY <1>1, <1>2

\* A vote for another node is kept as long as the term: no handler, no answer
\* and no crash takes it back.
THEOREM VotesAreKept == Spec => VoteIsKept
<1>1. ASSUME ElectionInv, [Next]_vars
      PROVE  [VoteKept]_vars
  BY <1>1, CallStepKeepsVotes, OtherStepKeepsVotes DEF Next
<1>. QED  BY <1>1, ElectionInvariant, PTL DEF Spec, VoteIsKept, VoteKept

-----------------------------------------------------------------------------
(* The append loop of HandleAppendEntries, for entries of any type and logs of *)
(* any length.                                                                *)

\* The logs the loop goes through exist: the first is the old log, each other
\* one is a turn of the loop away from the one before it.
AreTurns(after, L, s, entries) ==
  /\ DOMAIN after = 0..Len(entries)
  /\ after[0] = L
  /\ \A k \in 1..Len(entries) :
       after[k] = AppendOne(after[k - 1], s, entries[k])
  /\ AppendAll(L, s, entries) = after[Len(entries)]

LEMMA AppendAllTurns ==
  ASSUME NEW L, NEW s, NEW entries, Len(entries) \in Nat
  PROVE  \E after : AreTurns(after, L, s, entries)
<1> DEFINE Turns(f, n) ==
      f = [k \in 0..n |-> IF k = 0 THEN L
                          ELSE AppendOne(f[k - 1], s, entries[k])]
<1> DEFINE S == {n \in Nat : \E f : Turns(f, n)}
<1>1. 0 \in S
  <2>1. Turns([k \in 0..0 |-> L], 0)
    OBVIOUS
  <2>. QED  BY <2>1
<1>2. ASSUME NEW n \in Nat, n \in S
      PROVE  n + 1 \in S
  <2>1. PICK f : Turns(f, n)
    BY <1>2
  <2> HIDE DEF Turns
  <2> DEFINE next == AppendOne(f[n], s, entries[n + 1])
             g == [k \in 0..(n + 1) |-> IF k = n + 1 THEN next ELSE f[k]]
  <2> HIDE DEF next
  <2>2. g[0] = L
    BY <2>1 DEF Turns
  <2>3. \A k \in 1..n : g[k] = AppendOne(g[k - 1], s, entries[k])
    <3>1. \A k \in 1..n : /\ f[k] = AppendOne(f[k - 1], s, entries[k])
                          /\ k - 1 \in 0..n
      BY <2>1 DEF Turns
    <3>. QED  BY <3>1
  <2>4. g[n + 1] = AppendOne(g[n], s, entries[n + 1])
    BY DEF next
  <2> HIDE DEF g
  <2>5. \A k \in 0..(n + 1) :
          g[k] = IF k = 0 THEN L ELSE AppendOne(g[k - 1], s, entries[k])
    <3> TAKE k \in 0..(n + 1)
    <3>1. k = 0 \/ k \in 1..n \/ k = n + 1
      OBVIOUS
    <3>2. n + 1 - 1 = n
      OBVIOUS
    <3>. QED  BY <2>2, <2>3, <2>4, <3>1, <3>2
  <2>6. Turns(g, n + 1)
    BY <2>5 DEF Turns, g
  <2>. QED  BY <2>6
<1>3. PICK f : Turns(f, Len(entries))
  BY <1>1, <1>2, NatSetInduction
<1> DEFINE after == CHOOSE a : Turns(a, Len(entries))
<1>4. Turns(after, Len(entries))
  BY <1>3
<1>5. AppendAll(L, s, entries) = after[Len(entries)]
  BY DEF AppendAll
<1> HIDE DEF after
<1>6. AreTurns(after, L, s, entries)
  BY <1>4, <1>5 DEF AreTurns
<1>. QED  BY <1>6

-----------------------------------------------------------------------------
(* Types. *)

LEMMA PartIsSeq ==
  ASSUME NEW E, NEW L \in Seq(E), NEW m \in Int, NEW n \in Int,
         m >= 1, n <= Len(L)
  PROVE  SubSeq(L, m, n) \in Seq(E)
<1>1. \A p \in m..n : L[p] \in E
  OBVIOUS
<1>. QED  BY <1>1, SubSeqProperties

\* What a range of the log holds is a log.
LEMMA EntriesBetweenTyped ==
  ASSUME NEW E, NEW L \in Seq(E), NEW s \in Nat, NEW m \in Nat, NEW n \in Nat
  PROVE  EntriesBetween(L, s, m, n) \in Seq(E)
<1> DEFINE from == IF m - s < 1 THEN 1 ELSE m - s
           to == IF n - s > Len(L) THEN Len(L) ELSE n - s
<1>1. Len(L) \in Nat
  OBVIOUS
<1>2. from \in Int /\ to \in Int /\ from >= 1 /\ to <= Len(L)
  BY <1>1
<1> HIDE DEF from, to
<1>3. SubSeq(L, from, to) \in Seq(E)
  BY <1>2, PartIsSeq
<1>. QED  BY <1>3 DEF EntriesBetween, LogicalToPhysical, from, to

\* What is left of a log that is cut is a log.
LEMMA TruncateFromTyped ==
  ASSUME NEW E, NEW L \in Seq(E), NEW s \in Nat, NEW n \in Nat,
         HasLogEntry(L, s, n)
  PROVE  TruncateFrom(L, s, n) \in Seq(E)
<1>1. n - s - 1 \in Int /\ n - s - 1 <= Len(L)
  BY DEF HasLogEntry, LogicalToPhysical
<1>. QED  BY <1>1, PartIsSeq DEF TruncateFrom, LogicalToPhysical

LEMMA CompactToTyped ==
  ASSUME NEW E, NEW L \in Seq(E), NEW s \in Nat, NEW n \in Nat,
         HasLogEntry(L, s, n)
  PROVE  CompactTo(L, s, n) \in Seq(E)
<1>1. n - s + 1 \in Int /\ n - s + 1 >= 1 /\ Len(L) \in Int
  BY DEF HasLogEntry, LogicalToPhysical
<1>. QED  BY <1>1, PartIsSeq DEF CompactTo, LogicalToPhysical

LEMMA AppendOneTyped ==
  ASSUME NEW E, \A e \in E : e.index \in Nat,
         NEW L \in Seq(E), NEW s \in Nat, NEW entry \in E
  PROVE  AppendOne(L, s, entry) \in Seq(E)
<1> DEFINE physical == entry.index - s
<1>1. physical \in Int /\ Len(L) \in Nat
  OBVIOUS
<1>2. CASE entry.index <= s
  BY <1>2 DEF AppendOne
<1>3. CASE physical > Len(L)
  BY <1>3, AppendProperties DEF AppendOne, LogicalToPhysical
<1>4. CASE entry.index > s /\ physical <= Len(L)
  <2>1. SubSeq(L, 1, physical - 1) \in Seq(E)
    BY <1>1, <1>4, PartIsSeq
  <2>. QED  BY <2>1, <1>4, AppendProperties DEF AppendOne, LogicalToPhysical
<1>. QED  BY <1>1, <1>2, <1>3, <1>4

\* The append loop leaves a log.
LEMMA AppendAllTyped ==
  ASSUME NEW E, \A e \in E : e.index \in Nat,
         NEW L \in Seq(E), NEW s \in Nat, NEW entries \in Seq(E)
  PROVE  AppendAll(L, s, entries) \in Seq(E)
<1>1. Len(entries) \in Nat
  OBVIOUS
<1>2. PICK after : AreTurns(after, L, s, entries)
  BY <1>1, AppendAllTurns
<1> DEFINE S == {n \in Nat : n <= Len(entries) => after[n] \in Seq(E)}
<1>3. 0 \in S
  BY <1>2 DEF AreTurns
<1>4. ASSUME NEW n \in Nat, n \in S
      PROVE  n + 1 \in S
  <2> SUFFICES ASSUME n + 1 <= Len(entries) PROVE after[n + 1] \in Seq(E)
    OBVIOUS
  <2>1. after[n] \in Seq(E) /\ entries[n + 1] \in E
    BY <1>1, <1>4
  <2>2. after[n + 1] = AppendOne(after[n], s, entries[n + 1])
    BY <1>1, <1>2 DEF AreTurns
  <2>. QED  BY <2>1, <2>2, AppendOneTyped
<1>5. Len(entries) \in S
  BY <1>1, <1>3, <1>4, NatSetInduction
<1>. QED  BY <1>1, <1>2, <1>5 DEF AreTurns

-----------------------------------------------------------------------------
(* The bag of calls. *)

Positive(B) == \A c \in DOMAIN B : B[c] \in Nat \ {0}

LEMMA BagAddPositive ==
  ASSUME NEW B, NEW x, Positive(B)
  PROVE  Positive(BagAdd(B, x))
  BY DEF Positive, BagAdd

LEMMA BagRemovePositive ==
  ASSUME NEW B, NEW x, Positive(B)
  PROVE  Positive(BagRemove(B, x))
  BY DEF Positive, BagRemove

LEMMA BagSetPositive ==
  ASSUME NEW B, NEW S, Positive(B)
  PROVE  Positive(B (+) SetToBag(S))
  BY DEF Positive, (+), SetToBag

-----------------------------------------------------------------------------
(* The median of advanceCommitIndex. *)

\* A function into the natural numbers has a least and a greatest value on a
\* finite set.
LEMMA LeastValue ==
  ASSUME NEW T, T # {}, NEW f, \A j \in T : f[j] \in Nat
  PROVE  \E j \in T : \A k \in T : f[j] <= f[k]
<1> SUFFICES ASSUME \A j \in T : \E k \in T : f[k] < f[j]
             PROVE  FALSE
  OBVIOUS
<1> DEFINE S == {n \in Nat : \A j \in T : f[j] > n}
<1>1. 0 \in S
  OBVIOUS
<1>2. \A n \in Nat : n \in S => n + 1 \in S
  <2> SUFFICES ASSUME NEW n \in Nat, \A j \in T : f[j] > n, NEW j \in T, f[j] <= n + 1
               PROVE  FALSE
    OBVIOUS
  <2>1. PICK k \in T : f[k] < f[j]
    OBVIOUS
  <2>. QED  BY <2>1
<1>3. \A n \in Nat : n \in S
  BY <1>1, <1>2, NatSetInduction
<1>4. PICK j \in T : TRUE
  OBVIOUS
<1>. QED  BY <1>3, <1>4

LEMMA GreatestValue ==
  ASSUME NEW T, T # {}, IsFiniteSet(T), NEW f, \A j \in T : f[j] \in Nat
  PROVE  \E j \in T : \A k \in T : f[j] >= f[k]
<1> DEFINE Has(U) == U = {} \/ \E j \in U : \A k \in U : f[j] >= f[k]
           S == {n \in Nat : \A U \in SUBSET T : Cardinality(U) = n => Has(U)}
<1>1. 0 \in S
  <2>1. \A U \in SUBSET T : Cardinality(U) = 0 => U = {}
    BY FS_Subset, FS_EmptySet
  <2>. QED  BY <2>1
<1>2. ASSUME NEW n \in Nat, n \in S
      PROVE  n + 1 \in S
  <2> SUFFICES ASSUME NEW U \in SUBSET T, Cardinality(U) = n + 1, NEW x \in U
               PROVE  \E j \in U : \A k \in U : f[j] >= f[k]
    OBVIOUS
  <2>1. U \ {x} \in SUBSET T /\ Cardinality(U \ {x}) = n
    <3>1. IsFiniteSet(U)
      BY FS_Subset
    <3>2. Cardinality(U \ {x}) = IF x \in U THEN Cardinality(U) - 1 ELSE Cardinality(U)
      BY <3>1, FS_RemoveElement
    <3>. QED  BY <3>2
  <2>2. Has(U \ {x})
    BY <2>1, <1>2
  <2>3. CASE U \ {x} = {}
    BY <2>3
  <2>4. CASE U \ {x} # {}
    <3>1. PICK j \in U \ {x} : \A k \in U \ {x} : f[j] >= f[k]
      BY <2>2, <2>4
    <3>2. f[x] \in Nat /\ \A k \in U : f[k] \in Nat
      OBVIOUS
    <3>3. CASE f[x] >= f[j]
      BY <3>1, <3>2, <3>3
    <3>4. CASE f[x] < f[j]
      BY <3>1, <3>2, <3>4
    <3>. QED  BY <3>1, <3>2, <3>3, <3>4
  <2>. QED  BY <2>3, <2>4
<1>3. Cardinality(T) \in S
  BY <1>1, <1>2, NatSetInduction, FS_CardinalityType
<1>. QED  BY <1>3

\* The index a leader may commit is one that a majority has reached, the leader
\* counted with the end of its log.
LEMMA AgreedByMajority ==
  ASSUME NEW i \in Server, LastIndex(i) \in Nat, NEW match \in [Server -> Nat]
  PROVE  /\ AgreedIndex(i, match) \in Nat
         /\ HasMajority({j \in Server :
              (IF j = i THEN LastIndex(i) ELSE match[j]) >= AgreedIndex(i, match)})
<1> DEFINE at == [j \in Server |-> IF j = i THEN LastIndex(i) ELSE match[j]]
           Reached(n) == {j \in Server : at[j] >= n}
           T == {j \in Server : HasMajority(Reached(at[j]))}
           N == {n \in {at[j] : j \in Server} : HasMajority({j \in Server : at[j] >= n})}
<1>1. \A j \in Server : at[j] \in Nat
  OBVIOUS
<1>2. PICK low \in Server : \A k \in Server : at[low] <= at[k]
  BY <1>1, LeastValue
<1>3. low \in T
  <2>1. Reached(at[low]) = Server
    BY <1>1, <1>2
  <2>2. Cardinality(Server) \in Nat /\ Cardinality(Server) # 0
    BY ServerAssumption, FS_CardinalityType, FS_EmptySet
  <2>3. HasMajority(Server)
    BY <2>2 DEF HasMajority, Majority
  <2>. QED  BY <2>1, <2>3
<1>4. IsFiniteSet(T)
  BY ServerAssumption, FS_Subset
<1>5. PICK top \in T : \A k \in T : at[top] >= at[k]
  BY <1>1, <1>3, <1>4, GreatestValue
<1>6. at[top] \in N /\ \A n \in N : at[top] >= n
  BY <1>5
<1>7. Max(N) \in N
  BY <1>6 DEF Max
<1>8. AgreedIndex(i, match) = Max(N)
  BY DEF AgreedIndex
<1>9. /\ AgreedIndex(i, match) \in Nat
      /\ HasMajority({j \in Server : at[j] >= AgreedIndex(i, match)})
  BY <1>1, <1>7, <1>8
<1>10. {j \in Server : at[j] >= AgreedIndex(i, match)}
         = {j \in Server :
              (IF j = i THEN LastIndex(i) ELSE match[j]) >= AgreedIndex(i, match)}
  OBVIOUS
<1>. QED  BY <1>9, <1>10

-----------------------------------------------------------------------------
(* What the actions do to the typed parts of the state. *)

\* Only proposals that were made are pending; ApplyEntry and ProposeTimeout rely
\* on it, for they change the proposal of a command that they find in the map.
PendingIsTyped ==
  /\ DOMAIN pendingProposals = Server
  /\ \A i \in Server : \A n \in DOMAIN pendingProposals[i] :
       proposal[pendingProposals[i][n]] # Idle

\* The type invariant, strengthened to be inductive.
TypeInv == TypeOK /\ PendingIsTyped

\* Everything of TypeInv that does not concern elections.
RestIsTyped ==
  /\ LogTypeOK
  /\ ApplyTypeOK
  /\ ClientTypeOK
  /\ PendingIsTyped
  /\ CallTypeOK

LEMMA LogFrame ==
  ASSUME LogTypeOK, UNCHANGED <<logVars, commitIndex, leaderVars>>
  PROVE  LogTypeOK'
  BY DEF LogTypeOK, logVars, leaderVars

LEMMA ApplyFrame ==
  ASSUME ApplyTypeOK, UNCHANGED applyVars
  PROVE  ApplyTypeOK'
  BY DEF ApplyTypeOK, applyVars

LEMMA ClientFrame ==
  ASSUME ClientTypeOK, PendingIsTyped, UNCHANGED clientVars
  PROVE  ClientTypeOK' /\ PendingIsTyped'
  BY DEF ClientTypeOK, PendingIsTyped, clientVars

\* That a call names two nodes is part of the invariant of elections.
LEMMA CallsTyped ==
  ASSUME ElectionInv', CallTypeOK, Positive(calls'), restarts' = restarts,
         \A c \in DOMAIN calls' : c \in DOMAIN calls \/ c \in CallRecords
  PROVE  CallTypeOK'
  BY DEF ElectionInv, CallsAreTyped, CallTypeOK, Positive

LEMMA ConsumeTyped ==
  ASSUME ElectionInv', CallTypeOK, NEW c, Consume(c), restarts' = restarts
  PROVE  CallTypeOK'
<1>1. Positive(calls')
  BY BagRemovePositive DEF Consume, CallTypeOK, Positive
<1>. QED  BY <1>1, ConsumeAdds, CallsTyped

LEMMA ReplyTyped ==
  ASSUME ElectionInv', CallTypeOK, NEW c, NEW answer, Reply(c, answer),
         answer \in CallRecords, restarts' = restarts
  PROVE  CallTypeOK'
<1>1. Positive(calls)
  BY DEF CallTypeOK, Positive
<1>2. Positive(BagRemove(calls, c))
  BY <1>1, BagRemovePositive
<1>3. Positive(BagAdd(BagRemove(calls, c), answer))
  BY <1>2, BagAddPositive
<1>4. Positive(calls')
  BY <1>2, <1>3 DEF Reply
<1>5. DOMAIN calls' \subseteq DOMAIN calls \union {answer}
  BY ReplyAdds
<1>. QED  BY <1>4, <1>5, CallsTyped

LEMMA StartTyped ==
  ASSUME ElectionInv', CallTypeOK, NEW S, Start(S), S \subseteq CallRecords,
         restarts' = restarts
  PROVE  CallTypeOK'
<1>1. PICK started \in SUBSET S : calls' = calls (+) SetToBag(started)
  BY DEF Start
<1>2. Positive(calls')
  BY <1>1, BagSetPositive DEF CallTypeOK, Positive
<1>3. DOMAIN calls' \subseteq DOMAIN calls \union S
  BY StartAdds
<1>. QED  BY <1>2, <1>3, CallsTyped

\* The end of a log is a natural number, and so is its term.
LEMMA LastLogTyped ==
  ASSUME NEW entries \in Seq(LogEntries), NEW s \in Nat
  PROVE  LastLogIndex(entries, s) \in Nat /\ LastLogTerm(entries, s) \in Nat
<1>1. CASE entries # << >>
  <2>1. Len(entries) \in 1..Len(entries)
    BY <1>1
  <2>2. entries[Len(entries)] \in LogEntries
    BY <2>1, ElementOfSeq
  <2>. QED  BY <1>1, <2>2 DEF LastLogIndex, LastLogTerm, LogEntries
<1>. QED  BY <1>1 DEF LastLogIndex, LastLogTerm

LEMMA LastTyped ==
  ASSUME LogTypeOK, NEW i \in Server
  PROVE  LastIndex(i) \in Nat /\ LastTerm(i) \in Nat
  BY LastLogTyped DEF LogTypeOK, LastIndex, LastTerm

LEMMA EntryTyped ==
  ASSUME LogTypeOK, NEW i \in Server, NEW n, HasEntry(i, n)
  PROVE  Entry(i, n) \in LogEntries
  BY ElementOfSeq DEF LogTypeOK, HasEntry, HasLogEntry, Entry, GetLogEntry

LEMMA LastSentTyped ==
  ASSUME CallTypeOK, NEW c \in DOMAIN calls, c.type = "AppendEntries"
  PROVE  LastSent(c) \in Nat /\ c.entries \in Seq(LogEntries)
<1>1. c.entries \in Seq(LogEntries)
  BY DEF CallTypeOK, CallRecords
<1>2. CASE c.entries # << >>
  <2>1. Len(c.entries) \in 1..Len(c.entries)
    BY <1>1, <1>2
  <2>2. c.entries[Len(c.entries)] \in LogEntries
    BY <1>1, <2>1, ElementOfSeq
  <2>. QED  BY <1>1, <1>2, <2>2 DEF LastSent, LogEntries
<1>. QED  BY <1>1, <1>2 DEF LastSent

-----------------------------------------------------------------------------
(* The steps of RPC goroutines and handlers. *)

LEMMA CallTyped ==
  ASSUME CallTypeOK, NEW c \in DOMAIN calls
  PROVE  /\ c.src \in Server /\ c.dst \in Server /\ c.term \in Nat
         /\ c.type \in Replies => c.replyTerm \in Nat
  BY DEF CallTypeOK, CallRecords, Replies

LEMMA HandleRequestVoteTyped ==
  ASSUME TypeInv, ElectionInv', NEW c \in DOMAIN calls, HandleRequestVote(c)
  PROVE  RestIsTyped'
<1>1. UNCHANGED <<logVars, commitIndex, leaderVars, applyVars, clientVars, restarts>>
  BY DEF HandleRequestVote
<1>2. c.src \in Server /\ c.dst \in Server /\ c.term \in Nat /\ currentTerm'[c.dst] \in Nat
  BY CallTyped DEF TypeInv, TypeOK, ElectionInv, ElectionTypeOK
<1>3. GrantsVote(c) \in BOOLEAN
  BY DEF GrantsVote
<1> DEFINE answer == [type |-> "RequestVoteReply", src |-> c.src, dst |-> c.dst,
                      term |-> c.term, replyTerm |-> currentTerm'[c.dst],
                      voteGranted |-> GrantsVote(c)]
<1>4. answer \in CallRecords
  BY <1>2, <1>3 DEF CallRecords
<1>5. Reply(c, answer)
  BY DEF HandleRequestVote
<1>6. CallTypeOK'
  BY <1>1, <1>4, <1>5, ReplyTyped DEF TypeInv, TypeOK
<1>. QED
  BY <1>1, <1>6, LogFrame, ApplyFrame, ClientFrame DEF TypeInv, TypeOK, RestIsTyped

\* Steps that take a call and, beyond the election, change nothing.
LEMMA ConsumingStepTyped ==
  ASSUME TypeInv, ElectionInv', NEW c \in DOMAIN calls, Consume(c),
         UNCHANGED <<logVars, commitIndex, leaderVars, applyVars, clientVars, restarts>>
  PROVE  RestIsTyped'
  BY ConsumeTyped, LogFrame, ApplyFrame, ClientFrame DEF TypeInv, TypeOK, RestIsTyped

LEMMA BecomeLeaderTyped ==
  ASSUME TypeInv, ElectionInv', NEW c \in DOMAIN calls, BecomeLeader(c)
  PROVE  RestIsTyped'
<1> DEFINE i == c.src
           noop == [term |-> currentTerm[i], index |-> LastIndex(i) + 1, cmd |-> Nil]
<1>1. i \in Server /\ currentTerm[i] \in Nat /\ LastIndex(i) \in Nat
  BY CallTyped, LastTyped DEF TypeInv, TypeOK, ElectionTypeOK
<1>2. LogTypeOK'
  <2>1. noop \in LogEntries
    BY <1>1 DEF LogEntries
  <2>2. Append(log[i], noop) \in Seq(LogEntries)
    BY <2>1, <1>1, AppendProperties DEF TypeInv, TypeOK, LogTypeOK
  <2>3. log' = [log EXCEPT ![i] = Append(log[i], noop)]
    BY <1>1 DEF BecomeLeader
  <2>4. log' \in [Server -> Seq(LogEntries)]
    BY <2>2, <2>3 DEF TypeInv, TypeOK, LogTypeOK
  <2>5. /\ nextIndex' \in [Server -> [Server -> Nat]]
        /\ matchIndex' \in [Server -> [Server -> Nat]]
    <3> DEFINE next == [j \in Server |-> IF j = i THEN nextIndex[i][j] ELSE LastIndex(i) + 1]
               match == [j \in Server |-> IF j = i THEN matchIndex[i][j] ELSE 0]
    <3>1. /\ nextIndex' = [nextIndex EXCEPT ![i] = next]
          /\ matchIndex' = [matchIndex EXCEPT ![i] = match]
      BY DEF BecomeLeader
    <3>2. \A j \in Server : nextIndex[i][j] \in Nat /\ matchIndex[i][j] \in Nat
      BY <1>1 DEF TypeInv, TypeOK, LogTypeOK
    <3>3. next \in [Server -> Nat] /\ match \in [Server -> Nat]
      BY <1>1, <3>2
    <3> HIDE DEF next, match
    <3>. QED  BY <1>1, <3>1, <3>3 DEF TypeInv, TypeOK, LogTypeOK
  <2>. QED  BY <2>4, <2>5 DEF BecomeLeader, TypeInv, TypeOK, LogTypeOK
<1>3. Consume(c) /\ UNCHANGED <<applyVars, clientVars, restarts>>
  BY DEF BecomeLeader
<1>. QED
  BY <1>2, <1>3, ConsumeTyped, ApplyFrame, ClientFrame DEF TypeInv, TypeOK, RestIsTyped

LEMMA SendAppendEntriesTyped ==
  ASSUME TypeInv, ElectionInv', NEW c \in DOMAIN calls, SendAppendEntries(c)
  PROVE  RestIsTyped'
<1> DEFINE i == c.src
           j == c.dst
           prev == PrevLogIndex(i, j)
           request == [type |-> "AppendEntries", src |-> i, dst |-> j,
                       life |-> restarts[i], term |-> c.term,
                       prevLogIndex |-> prev, prevLogTerm |-> PrevLogTerm(i, prev),
                       entries |-> EntriesToSend(i, j),
                       leaderCommit |-> c.leaderCommit]
<1>1. /\ i \in Server /\ j \in Server /\ c.term \in Nat /\ c.leaderCommit \in Nat
      /\ restarts[i] \in Nat
  BY DEF SendAppendEntries, TypeInv, TypeOK, CallTypeOK, CallRecords
<1>2. nextIndex[i][j] \in Nat /\ snapshotIndex[i] \in Nat /\ snapshotTerm[i] \in Nat
      /\ log[i] \in Seq(LogEntries) /\ LastIndex(i) \in Nat
  BY <1>1, LastTyped DEF TypeInv, TypeOK, LogTypeOK
<1>3. prev \in Nat
  BY <1>2 DEF PrevLogIndex
<1>4. PrevLogTerm(i, prev) \in Nat
  BY <1>1, <1>2, EntryTyped DEF PrevLogTerm, LogEntries, TypeInv, TypeOK
<1>5. EntriesToSend(i, j) \in Seq(LogEntries)
  <2> DEFINE first == IF nextIndex[i][j] <= snapshotIndex[i]
                      THEN snapshotIndex[i] + 1 ELSE nextIndex[i][j]
  <2>1. first \in Nat
    BY <1>2
  <2> HIDE DEF first
  <2>2. EntriesBetween(log[i], snapshotIndex[i], first, LastIndex(i)) \in Seq(LogEntries)
    BY <1>2, <2>1, EntriesBetweenTyped
  <2>3. << >> \in Seq(LogEntries)
    OBVIOUS
  <2>. QED  BY <2>2, <2>3 DEF EntriesToSend, first
<1>6. request \in CallRecords
  BY <1>1, <1>3, <1>4, <1>5 DEF CallRecords
<1>7. UNCHANGED <<logVars, commitIndex, leaderVars, applyVars, clientVars, restarts>>
  BY DEF SendAppendEntries
<1>8. calls' = BagAdd(BagRemove(calls, c), request)
  BY DEF SendAppendEntries
<1> HIDE DEF request
<1>9. Positive(calls')
  <2>1. Positive(BagRemove(calls, c))
    BY BagRemovePositive DEF TypeInv, TypeOK, CallTypeOK, Positive
  <2>. QED  BY <1>8, <2>1, BagAddPositive
<1>10. DOMAIN calls' \subseteq DOMAIN calls \union {request}
  <2>1. DOMAIN BagRemove(calls, c) \subseteq DOMAIN calls
    BY BagRemoveDomain
  <2>2. DOMAIN calls' = DOMAIN BagRemove(calls, c) \union {request}
    BY <1>8, BagAddDomain
  <2>. QED  BY <2>1, <2>2
<1>11. CallTypeOK'
  BY <1>6, <1>7, <1>9, <1>10, CallsTyped DEF TypeInv, TypeOK
<1>. QED
  BY <1>7, <1>11, LogFrame, ApplyFrame, ClientFrame DEF TypeInv, TypeOK, RestIsTyped

\* The answers of HandleAppendEntries.
LEMMA AppendReplyTyped ==
  ASSUME TypeInv, ElectionInv', NEW c \in DOMAIN calls, c.type = "AppendEntries",
         NEW replyTerm \in Nat, NEW success \in BOOLEAN, NEW match \in Nat,
         AppendReply(c, replyTerm, success, match), restarts' = restarts
  PROVE  CallTypeOK'
<1> DEFINE answer == [type |-> "AppendEntriesReply", src |-> c.src, dst |-> c.dst,
                      term |-> c.term, replyTerm |-> replyTerm, success |-> success,
                      matchIndex |-> match, lastSent |-> LastSent(c)]
<1>1. c.src \in Server /\ c.dst \in Server /\ c.term \in Nat /\ LastSent(c) \in Nat
  BY CallTyped, LastSentTyped DEF TypeInv, TypeOK
<1>2. answer \in CallRecords
  BY <1>1 DEF CallRecords
<1>3. Reply(c, answer)
  BY DEF AppendReply
<1>. QED  BY <1>2, <1>3, ReplyTyped DEF TypeInv, TypeOK

LEMMA RejectTyped ==
  ASSUME TypeInv, ElectionInv', NEW c \in DOMAIN calls,
         RejectStaleAppend(c) \/ RejectShortLog(c)
  PROVE  RestIsTyped'
<1>1. /\ UNCHANGED <<logVars, commitIndex, leaderVars, applyVars, clientVars, restarts>>
      /\ c.type = "AppendEntries"
  BY DEF RejectStaleAppend, RejectShortLog, FollowLeader
<1>2. /\ c.dst \in Server /\ c.term \in Nat /\ currentTerm[c.dst] \in Nat
      /\ LastIndex(c.dst) \in Nat
  BY CallTyped, LastTyped DEF TypeInv, TypeOK, ElectionTypeOK
<1>3. CallTypeOK'
  BY <1>1, <1>2, AppendReplyTyped DEF RejectStaleAppend, RejectShortLog
<1>. QED
  BY <1>1, <1>3, LogFrame, ApplyFrame, ClientFrame DEF TypeInv, TypeOK, RestIsTyped

LEMMA RejectMismatchTyped ==
  ASSUME TypeInv, ElectionInv', NEW c \in DOMAIN calls, RejectMismatch(c)
  PROVE  RestIsTyped'
<1> DEFINE i == c.dst
<1>1. /\ UNCHANGED <<snapshotIndex, snapshotTerm, commitIndex, leaderVars, applyVars,
                     clientVars, restarts>>
      /\ c.type = "AppendEntries"
  BY DEF RejectMismatch, FollowLeader
<1>2. /\ i \in Server /\ c.term \in Nat /\ c.prevLogIndex \in Nat
      /\ snapshotIndex[i] \in Nat /\ log[i] \in Seq(LogEntries)
  BY <1>1 DEF TypeInv, TypeOK, CallTypeOK, CallRecords, LogTypeOK
<1>3. HasEntry(i, c.prevLogIndex)
        => TruncateFrom(log[i], snapshotIndex[i], c.prevLogIndex) \in Seq(LogEntries)
  BY <1>2, TruncateFromTyped DEF HasEntry
<1>4. log' \in [Server -> Seq(LogEntries)]
  BY <1>2, <1>3 DEF RejectMismatch, TypeInv, TypeOK, LogTypeOK
<1>5. LogTypeOK'
  BY <1>1, <1>4 DEF TypeInv, TypeOK, LogTypeOK, leaderVars
<1>6. LastLogIndex(log'[i], snapshotIndex[i]) \in Nat
  BY <1>2, <1>4, LastLogTyped
<1>7. CallTypeOK'
  BY <1>1, <1>2, <1>6, AppendReplyTyped DEF RejectMismatch
<1>. QED
  BY <1>1, <1>5, <1>7, ApplyFrame, ClientFrame DEF TypeInv, TypeOK, RestIsTyped

LEMMA AcceptEntriesTyped ==
  ASSUME TypeInv, ElectionInv', NEW c \in DOMAIN calls, AcceptEntries(c)
  PROVE  RestIsTyped'
<1> DEFINE i == c.dst
<1>1. /\ UNCHANGED <<snapshotIndex, snapshotTerm, leaderVars, applyVars, clientVars,
                     restarts>>
      /\ c.type = "AppendEntries"
  BY DEF AcceptEntries, FollowLeader
<1>2. /\ i \in Server /\ c.term \in Nat /\ c.leaderCommit \in Nat
      /\ c.entries \in Seq(LogEntries) /\ LastSent(c) \in Nat
      /\ snapshotIndex[i] \in Nat /\ commitIndex[i] \in Nat /\ log[i] \in Seq(LogEntries)
  BY <1>1, LastSentTyped DEF TypeInv, TypeOK, CallTypeOK, CallRecords, LogTypeOK
<1>3. AppendAll(log[i], snapshotIndex[i], c.entries) \in Seq(LogEntries)
  BY <1>2, AppendAllTyped DEF LogEntries
<1>4. log' \in [Server -> Seq(LogEntries)]
  BY <1>2, <1>3 DEF AcceptEntries, TypeInv, TypeOK, LogTypeOK
<1>5. LastLogIndex(log'[i], snapshotIndex[i]) \in Nat
  BY <1>2, <1>4, LastLogTyped
<1>6. FollowerCommit(i, c, log'[i]) \in Nat
  BY <1>2, <1>5 DEF FollowerCommit
<1>7. LogTypeOK'
  <2>1. commitIndex' \in [Server -> Nat]
    BY <1>2, <1>6 DEF AcceptEntries, TypeInv, TypeOK, LogTypeOK
  <2>. QED  BY <1>1, <1>4, <2>1 DEF TypeInv, TypeOK, LogTypeOK, leaderVars
<1>8. CallTypeOK'
  BY <1>1, <1>2, <1>5, AppendReplyTyped DEF AcceptEntries
<1>. QED
  BY <1>1, <1>7, <1>8, ApplyFrame, ClientFrame DEF TypeInv, TypeOK, RestIsTyped

\* One entry of the leader's tables changes.
LEMMA TableTyped ==
  ASSUME NEW f \in [Server -> [Server -> Nat]], NEW i \in Server, NEW j \in Server,
         NEW n \in Nat
  PROVE  [f EXCEPT ![i][j] = n] \in [Server -> [Server -> Nat]]
  OBVIOUS

LEMMA AdvanceOnSuccessTyped ==
  ASSUME TypeInv, ElectionInv', NEW c \in DOMAIN calls, AdvanceOnSuccess(c)
  PROVE  RestIsTyped'
<1> DEFINE i == c.src
           j == c.dst
<1>1. /\ Consume(c)
      /\ UNCHANGED <<log, snapshotIndex, snapshotTerm, applyVars, clientVars, restarts>>
      /\ c.type = "AppendEntriesReply"
  BY DEF AdvanceOnSuccess, ReplyCounts, logVars
<1>2. i \in Server /\ j \in Server /\ ReplicatedUpTo(c) \in Nat /\ LastIndex(i) \in Nat
  BY <1>1, LastTyped DEF TypeInv, TypeOK, CallTypeOK, CallRecords, ReplicatedUpTo
<1>3. nextIndex' \in [Server -> [Server -> Nat]] /\ matchIndex' \in [Server -> [Server -> Nat]]
  <2> DEFINE last == ReplicatedUpTo(c)
             advanced == last > matchIndex[i][j]
             m == IF advanced THEN last ELSE matchIndex[i][j]
             n == IF advanced THEN last + 1 ELSE nextIndex[i][j]
  <2>1. /\ matchIndex' = [matchIndex EXCEPT ![i][j] = m]
        /\ nextIndex' = [nextIndex EXCEPT ![i][j] = n]
    BY DEF AdvanceOnSuccess
  <2>2. nextIndex[i][j] \in Nat /\ matchIndex[i][j] \in Nat
    BY <1>2 DEF TypeInv, TypeOK, LogTypeOK
  <2>3. m \in Nat /\ n \in Nat
    BY <1>2, <2>2
  <2> HIDE DEF m, n
  <2>. QED  BY <1>2, <2>1, <2>3, TableTyped DEF TypeInv, TypeOK, LogTypeOK
<1>4. LeaderCommit(i, matchIndex'[i]) \in Nat
  <2>1. AgreedIndex(i, matchIndex'[i]) \in Nat
    BY <1>2, <1>3, AgreedByMajority
  <2>. QED  BY <1>2, <2>1 DEF LeaderCommit, TypeInv, TypeOK, LogTypeOK
<1>5. commitIndex' \in [Server -> Nat]
  BY <1>2, <1>4 DEF AdvanceOnSuccess, TypeInv, TypeOK, LogTypeOK
<1>6. LogTypeOK'
  BY <1>1, <1>3, <1>5 DEF TypeInv, TypeOK, LogTypeOK
<1>. QED
  BY <1>1, <1>6, ConsumeTyped, ApplyFrame, ClientFrame DEF TypeInv, TypeOK, RestIsTyped

LEMMA BackOffTyped ==
  ASSUME TypeInv, ElectionInv', NEW c \in DOMAIN calls, BackOffOnFailure(c)
  PROVE  RestIsTyped'
<1> DEFINE i == c.src
           j == c.dst
<1>1. /\ Consume(c)
      /\ UNCHANGED <<log, snapshotIndex, snapshotTerm, commitIndex, matchIndex, applyVars,
                     clientVars, restarts>>
      /\ c.type = "AppendEntriesReply"
  BY DEF BackOffOnFailure, ReplyCounts, logVars
<1>2. /\ i \in Server /\ j \in Server /\ c.matchIndex \in Nat
      /\ nextIndex[i][j] \in Nat /\ snapshotIndex[i] \in Nat
  <2>1. i \in Server /\ j \in Server /\ c.matchIndex \in Nat
    BY <1>1 DEF TypeInv, TypeOK, CallTypeOK, CallRecords
  <2>. QED  BY <2>1 DEF TypeInv, TypeOK, LogTypeOK
<1>3. HintedIndex(c) \in Nat
  BY <1>2 DEF HintedIndex
<1>4. nextIndex' \in [Server -> [Server -> Nat]]
  <2> DEFINE n == IF HintedIndex(c) <= snapshotIndex[i] THEN snapshotIndex[i] + 1
                                                        ELSE HintedIndex(c)
  <2>1. nextIndex' = [nextIndex EXCEPT ![i][j] = n]
    BY DEF BackOffOnFailure
  <2>2. n \in Nat
    BY <1>2, <1>3
  <2> HIDE DEF n
  <2>. QED  BY <1>2, <2>1, <2>2, TableTyped DEF TypeInv, TypeOK, LogTypeOK
<1>5. LogTypeOK'
  BY <1>1, <1>4 DEF TypeInv, TypeOK, LogTypeOK
<1>. QED
  BY <1>1, <1>5, ConsumeTyped, ApplyFrame, ClientFrame DEF TypeInv, TypeOK, RestIsTyped

-----------------------------------------------------------------------------
(* Crashes. *)

ProposalRecords ==
  [status : {"waiting", "notified", "done", "failed"}, node : Server,
   index : Nat, term : Nat]

LEMMA ProposalStatus ==
  ASSUME NEW p \in ProposalRecords,
         NEW status \in {"waiting", "notified", "done", "failed"}
  PROVE  /\ [p EXCEPT !.status = status] \in ProposalRecords
         /\ [p EXCEPT !.status = status] # Idle
  BY DEF ProposalRecords, Idle

LEMMA RebootTyped ==
  ASSUME TypeInv, ElectionInv', NEW i \in Server, NEW callsLeft, Reboot(i, callsLeft),
         Positive(callsLeft), DOMAIN callsLeft \subseteq DOMAIN calls,
         snapshotFile' \in [Server -> [index : Nat, data : Seq(Command)]]
  PROVE  RestIsTyped'
<1>1. restarts' \in [Server -> Nat]
  BY DEF Reboot, TypeInv, TypeOK, CallTypeOK
<1>2. DOMAIN calls' \subseteq DOMAIN calls /\ Positive(calls')
  BY DEF Reboot, Positive
<1>3. CallTypeOK'
  BY <1>1, <1>2 DEF ElectionInv, CallsAreTyped, TypeInv, TypeOK, CallTypeOK, Positive
<1>4. LogTypeOK'
  BY DEF Reboot, logVars, TypeInv, TypeOK, LogTypeOK
<1>5. ApplyTypeOK'
  <2>1. /\ lastApplied' \in [Server -> Nat]
        /\ applyPhase' \in [Server -> {"idle", "apply", "check", "snapshot"}]
        /\ applying' \in [Server -> Seq(LogEntries)]
        /\ \A j \in Server : applyPhase'[j] = "apply" <=> applying'[j] # << >>
    BY DEF Reboot, TypeInv, TypeOK, LogTypeOK, ApplyTypeOK
  <2>2. machine' \in [Server -> Seq(Command)]
    <3>1. snapshotFile'[i].data \in Seq(Command)
      OBVIOUS
    <3>. QED  BY <3>1 DEF Reboot, TypeInv, TypeOK, ApplyTypeOK
  <2>. QED  BY <2>1, <2>2 DEF ApplyTypeOK
<1>6. \A cmd \in Command :
        /\ proposal'[cmd] \in {Idle} \union ProposalRecords
        /\ proposal[cmd] # Idle => proposal'[cmd] # Idle
  <2> TAKE cmd \in Command
  <2>1. proposal[cmd] \in {Idle} \union ProposalRecords
    BY DEF TypeInv, TypeOK, ClientTypeOK, ProposalRecords
  <2>2. CASE /\ proposal[cmd].node = i
             /\ proposal[cmd].status \in {"waiting", "notified"}
    <3>1. proposal'[cmd] = [proposal[cmd] EXCEPT !.status = "failed"]
      BY <2>2 DEF Reboot
    <3>2. proposal[cmd] \in ProposalRecords
      BY <2>1, <2>2 DEF Idle
    <3>. QED  BY <3>1, <3>2, ProposalStatus
  <2>3. CASE ~(/\ proposal[cmd].node = i
               /\ proposal[cmd].status \in {"waiting", "notified"})
    BY <2>1, <2>3 DEF Reboot
  <2>. QED  BY <2>2, <2>3
<1>7. proposal' \in [Command -> {Idle} \union ProposalRecords]
  BY <1>6 DEF Reboot
<1>8. \A cmd \in Command : proposal[cmd] # Idle => proposal'[cmd] # Idle
  BY <1>6
<1>9. pendingProposals' = [pendingProposals EXCEPT ![i] = << >>]
  BY DEF Reboot
<1>10. ClientTypeOK' /\ PendingIsTyped'
  BY <1>7, <1>8, <1>9 DEF TypeInv, TypeOK, ClientTypeOK, PendingIsTyped, ProposalRecords
<1>. QED  BY <1>3, <1>4, <1>5, <1>10 DEF RestIsTyped

LEMMA CrashTyped ==
  ASSUME TypeInv, ElectionInv', NEW i \in Server, Crash(i) \/ CrashInSnapshot(i)
  PROVE  RestIsTyped'
<1>1. snapshotFile' \in [Server -> [index : Nat, data : Seq(Command)]]
  <2>1. NewSnapshot(i) \in [index : Nat, data : Seq(Command)]
    BY DEF NewSnapshot, TypeInv, TypeOK, ApplyTypeOK
  <2>. QED  BY <2>1 DEF Crash, CrashInSnapshot, TypeInv, TypeOK, ApplyTypeOK
<1>2. Reboot(i, calls) /\ Positive(calls)
  BY DEF Crash, CrashInSnapshot, TypeInv, TypeOK, CallTypeOK, Positive
<1>. QED  BY <1>1, <1>2, RebootTyped

LEMMA CrashInHandlerTyped ==
  ASSUME TypeInv, ElectionInv', NEW c \in DOMAIN calls, CrashInHandler(c)
  PROVE  RestIsTyped'
<1>1. c.dst \in Server /\ Reboot(c.dst, BagRemove(calls, c))
  BY CallTyped DEF CrashInHandler, TypeInv, TypeOK
<1>2. Positive(BagRemove(calls, c)) /\ DOMAIN BagRemove(calls, c) \subseteq DOMAIN calls
  BY BagRemovePositive, BagRemoveDomain DEF TypeInv, TypeOK, CallTypeOK, Positive
<1>3. snapshotFile' \in [Server -> [index : Nat, data : Seq(Command)]]
  BY DEF CrashInHandler, TypeInv, TypeOK, ApplyTypeOK
<1>. QED  BY <1>1, <1>2, <1>3, RebootTyped

-----------------------------------------------------------------------------
(* The steps of the nodes' own goroutines and of the clients. *)

LEMMA StartElectionTyped ==
  ASSUME TypeInv, ElectionInv', NEW i \in Server, StartElection(i)
  PROVE  RestIsTyped'
<1> DEFINE S == {RequestVoteCall(i, j, currentTerm[i] + 1) : j \in Peers(i)}
<1>1. /\ Start(S)
      /\ UNCHANGED <<logVars, commitIndex, leaderVars, applyVars, clientVars, restarts>>
  BY DEF StartElection
<1>2. /\ currentTerm[i] + 1 \in Nat /\ LastIndex(i) \in Nat /\ LastTerm(i) \in Nat
      /\ restarts[i] \in Nat
  BY LastTyped DEF TypeInv, TypeOK, ElectionTypeOK, CallTypeOK
<1>3. S \subseteq CallRecords
  BY <1>2 DEF RequestVoteCall, CallRecords, Peers
<1> HIDE DEF S
<1>4. CallTypeOK'
  BY <1>1, <1>3, StartTyped DEF TypeInv, TypeOK
<1>. QED
  BY <1>1, <1>4, LogFrame, ApplyFrame, ClientFrame DEF TypeInv, TypeOK, RestIsTyped

\* The goroutines of a broadcast.
LEMMA BroadcastTyped ==
  ASSUME TypeInv, ElectionInv', NEW i \in Server, restarts' = restarts,
         Start({SendAppendCall(i, j) : j \in Peers(i)})
  PROVE  CallTypeOK'
<1>1. currentTerm[i] \in Nat /\ commitIndex[i] \in Nat
  BY DEF TypeInv, TypeOK, ElectionTypeOK, LogTypeOK
<1>2. {SendAppendCall(i, j) : j \in Peers(i)} \subseteq CallRecords
  BY <1>1 DEF SendAppendCall, CallRecords, Peers
<1>. QED  BY <1>2, StartTyped DEF TypeInv, TypeOK

LEMMA BroadcastStepTyped ==
  ASSUME TypeInv, ElectionInv', NEW i \in Server, BroadcastAppendEntries(i)
  PROVE  RestIsTyped'
<1>1. CallTypeOK'
  BY BroadcastTyped DEF BroadcastAppendEntries
<1>. QED
  BY <1>1, LogFrame, ApplyFrame, ClientFrame
     DEF BroadcastAppendEntries, TypeInv, TypeOK, RestIsTyped

LEMMA CallsFrame ==
  ASSUME CallTypeOK, UNCHANGED <<calls, restarts>>
  PROVE  CallTypeOK'
  BY DEF CallTypeOK

LEMMA FetchTyped ==
  ASSUME TypeInv, NEW i \in Server, FetchCommitted(i)
  PROVE  RestIsTyped'
<1> DEFINE entries == EntriesBetween(log[i], snapshotIndex[i], lastApplied[i] + 1,
                                     commitIndex[i])
<1>1. entries \in Seq(LogEntries)
  <2>1. /\ log[i] \in Seq(LogEntries) /\ snapshotIndex[i] \in Nat
        /\ lastApplied[i] + 1 \in Nat /\ commitIndex[i] \in Nat
    BY DEF TypeInv, TypeOK, LogTypeOK, ApplyTypeOK
  <2>. QED  BY <2>1, EntriesBetweenTyped
<1>2. /\ applying' = [applying EXCEPT ![i] = entries]
      /\ applyPhase' = [applyPhase EXCEPT ![i] = "apply"]
      /\ entries # << >>
      /\ UNCHANGED <<logVars, commitIndex, leaderVars, lastApplied, machine,
                     snapshotFile, clientVars, calls, restarts>>
  BY DEF FetchCommitted
<1> HIDE DEF entries
<1>3. ApplyTypeOK'
  BY <1>1, <1>2 DEF TypeInv, TypeOK, ApplyTypeOK
<1>. QED
  BY <1>2, <1>3, LogFrame, ClientFrame, CallsFrame DEF TypeInv, TypeOK, RestIsTyped

\* A proposal that was made changes its status.
StatusChanges ==
  \/ proposal' = proposal
  \/ \E cmd \in Command, status \in {"waiting", "notified", "done", "failed"} :
       /\ proposal[cmd] # Idle
       /\ proposal' = [proposal EXCEPT ![cmd].status = status]

\* No map of pending proposals gains one.
NothingPendingAdded ==
  /\ DOMAIN pendingProposals' = Server
  /\ \A j \in Server :
       /\ DOMAIN pendingProposals'[j] \subseteq DOMAIN pendingProposals[j]
       /\ \A m \in DOMAIN pendingProposals'[j] :
            pendingProposals'[j][m] = pendingProposals[j][m]

LEMMA StatusTyped ==
  ASSUME TypeInv, StatusChanges
  PROVE  /\ proposal' \in [Command -> {Idle} \union ProposalRecords]
         /\ \A cmd \in Command : proposal[cmd] # Idle => proposal'[cmd] # Idle
<1>1. proposal \in [Command -> {Idle} \union ProposalRecords]
  BY DEF TypeInv, TypeOK, ClientTypeOK, ProposalRecords
<1>2. CASE proposal' = proposal
  BY <1>1, <1>2
<1>3. CASE proposal' # proposal
  <2>1. PICK cmd \in Command, status \in {"waiting", "notified", "done", "failed"} :
          /\ proposal[cmd] # Idle
          /\ proposal' = [proposal EXCEPT ![cmd].status = status]
    BY <1>3 DEF StatusChanges
  <2>2. proposal[cmd] \in ProposalRecords
    BY <1>1, <2>1
  <2>3. proposal' = [proposal EXCEPT ![cmd] = [proposal[cmd] EXCEPT !.status = status]]
    BY <2>1
  <2>. QED  BY <1>1, <2>2, <2>3, ProposalStatus
<1>. QED  BY <1>2, <1>3

LEMMA PendingTyped ==
  ASSUME TypeInv, StatusChanges, NothingPendingAdded
  PROVE  ClientTypeOK' /\ PendingIsTyped'
<1>1. ClientTypeOK'
  BY StatusTyped DEF NothingPendingAdded, TypeInv, TypeOK, ClientTypeOK, ProposalRecords
<1>2. PendingIsTyped'
  BY StatusTyped DEF NothingPendingAdded, TypeInv, TypeOK, ClientTypeOK, PendingIsTyped
<1>. QED  BY <1>1, <1>2

LEMMA WithoutPendingAddsNothing ==
  ASSUME TypeInv, NEW i \in Server, NEW n,
         pendingProposals' = [pendingProposals EXCEPT ![i] = WithoutPending(i, n)]
  PROVE  NothingPendingAdded
  BY DEF WithoutPending, TypeInv, PendingIsTyped, NothingPendingAdded

LEMMA TailIsEmpty ==
  ASSUME NEW E, NEW s \in Seq(E), s # << >>
  PROVE  Len(s) = 1 <=> Tail(s) = << >>
<1>1. Tail(s) \in Seq(E) /\ Len(Tail(s)) = Len(s) - 1 /\ Len(s) \in Nat
  BY HeadTailProperties
<1> DEFINE t == Tail(s)
<1>2. t \in Seq(E) /\ Len(t) = Len(s) - 1
  BY <1>1
<1> HIDE DEF t
<1>3. Len(t) = 0 <=> t = << >>
  BY <1>2, EmptySeq
<1>4. Len(s) = 1 <=> t = << >>
  BY <1>1, <1>2, <1>3
<1>. QED  BY <1>4 DEF t

LEMMA ApplyEntryTyped ==
  ASSUME TypeInv, NEW i \in Server, ApplyEntry(i)
  PROVE  RestIsTyped'
<1> DEFINE entry == Head(applying[i])
           cmd == pendingProposals[i][entry.index]
<1>1. /\ applying[i] \in Seq(LogEntries) /\ applying[i] # << >>
      /\ machine[i] \in Seq(Command)
  BY DEF ApplyEntry, TypeInv, TypeOK, ApplyTypeOK
<1>2. /\ entry \in LogEntries /\ Tail(applying[i]) \in Seq(LogEntries)
      /\ Len(Tail(applying[i])) = Len(applying[i]) - 1 /\ Len(applying[i]) \in Nat \ {0}
  BY <1>1, HeadTailProperties, EmptySeq
<1>3. Len(applying[i]) = 1 <=> Tail(applying[i]) = << >>
  BY <1>1, TailIsEmpty
<1>4. entry.index \in Nat /\ entry.cmd \in Command \union {Nil}
  BY <1>2 DEF LogEntries
<1> DEFINE newMachine == IF entry.cmd = Nil THEN machine[i] ELSE Append(machine[i], entry.cmd)
<1>5. newMachine \in Seq(Command)
  BY <1>1, <1>4, AppendProperties
<1>6. /\ machine' = [machine EXCEPT ![i] = newMachine]
      /\ lastApplied' = [lastApplied EXCEPT ![i] = entry.index]
      /\ applying' = [applying EXCEPT ![i] = Tail(applying[i])]
      /\ applyPhase' = [applyPhase EXCEPT ![i] =
                          IF Len(applying[i]) = 1 THEN "check" ELSE "apply"]
      /\ pendingProposals' = [pendingProposals EXCEPT ![i] = WithoutPending(i, entry.index)]
      /\ UNCHANGED <<logVars, commitIndex, leaderVars, snapshotFile, calls, restarts>>
  BY DEF ApplyEntry
<1>7. StatusChanges
  <2>1. CASE entry.index \in DOMAIN pendingProposals[i] /\ Answers(entry, cmd)
    <3>1. cmd \in Command /\ proposal[cmd] # Idle
      BY <2>1 DEF TypeInv, TypeOK, ClientTypeOK, PendingIsTyped
    <3>2. proposal' = [proposal EXCEPT ![cmd].status = "notified"]
      BY <2>1 DEF ApplyEntry
    <3>. QED  BY <3>1, <3>2 DEF StatusChanges
  <2>2. CASE ~(entry.index \in DOMAIN pendingProposals[i] /\ Answers(entry, cmd))
    BY <2>2 DEF ApplyEntry, StatusChanges
  <2>. QED  BY <2>1, <2>2
<1> HIDE DEF entry, newMachine
<1>8. ClientTypeOK' /\ PendingIsTyped'
  BY <1>6, <1>7, WithoutPendingAddsNothing, PendingTyped
<1>9. ApplyTypeOK'
  BY <1>2, <1>3, <1>4, <1>5, <1>6 DEF TypeInv, TypeOK, ApplyTypeOK
<1>. QED
  BY <1>6, <1>8, <1>9, LogFrame, CallsFrame DEF TypeInv, TypeOK, RestIsTyped

LEMMA MaybeSnapshotTyped ==
  ASSUME TypeInv, NEW i \in Server, MaybeSnapshot(i)
  PROVE  RestIsTyped'
<1>1. UNCHANGED <<logVars, commitIndex, leaderVars, clientVars, calls, restarts>>
  BY DEF MaybeSnapshot
<1>2. ApplyTypeOK'
  BY DEF MaybeSnapshot, TypeInv, TypeOK, ApplyTypeOK
<1>. QED
  BY <1>1, <1>2, LogFrame, ClientFrame, CallsFrame DEF TypeInv, TypeOK, RestIsTyped

LEMMA TakeSnapshotTyped ==
  ASSUME TypeInv, NEW i \in Server, TakeSnapshot(i)
  PROVE  RestIsTyped'
<1>1. /\ UNCHANGED <<commitIndex, leaderVars, clientVars, calls, restarts, lastApplied,
                     applying, machine>>
      /\ applyPhase[i] = "snapshot"
      /\ applyPhase' = [applyPhase EXCEPT ![i] = "idle"]
  BY DEF TakeSnapshot
<1>2. /\ lastApplied[i] \in Nat /\ snapshotIndex[i] \in Nat /\ log[i] \in Seq(LogEntries)
      /\ NewSnapshot(i) \in [index : Nat, data : Seq(Command)]
  BY DEF NewSnapshot, TypeInv, TypeOK, ApplyTypeOK, LogTypeOK
<1>3. /\ log' \in [Server -> Seq(LogEntries)]
      /\ snapshotIndex' \in [Server -> Nat]
      /\ snapshotTerm' \in [Server -> Nat]
      /\ snapshotFile' \in [Server -> [index : Nat, data : Seq(Command)]]
  <2>1. CASE CanCompact(i)
    <3>1. Entry(i, lastApplied[i]).term \in Nat
      BY <2>1, EntryTyped DEF CanCompact, LogEntries, TypeInv, TypeOK
    <3>2. CompactTo(log[i], snapshotIndex[i], lastApplied[i]) \in Seq(LogEntries)
      BY <1>2, <2>1, CompactToTyped DEF CanCompact, HasEntry
    <3> DEFINE term == Entry(i, lastApplied[i]).term
               left == CompactTo(log[i], snapshotIndex[i], lastApplied[i])
    <3>3. /\ snapshotFile' = [snapshotFile EXCEPT ![i] = NewSnapshot(i)]
          /\ snapshotIndex' = [snapshotIndex EXCEPT ![i] = lastApplied[i]]
          /\ snapshotTerm' = [snapshotTerm EXCEPT ![i] = term]
          /\ log' = [log EXCEPT ![i] = left]
      BY <2>1 DEF TakeSnapshot
    <3>4. term \in Nat /\ left \in Seq(LogEntries)
      BY <3>1, <3>2
    <3> HIDE DEF term, left
    <3>. QED  BY <1>2, <3>3, <3>4 DEF TypeInv, TypeOK, LogTypeOK, ApplyTypeOK
  <2>2. CASE ~CanCompact(i)
    BY <2>2 DEF TakeSnapshot, logVars, TypeInv, TypeOK, LogTypeOK, ApplyTypeOK
  <2>. QED  BY <2>1, <2>2
<1>4. LogTypeOK'
  BY <1>1, <1>3 DEF TypeInv, TypeOK, LogTypeOK, leaderVars
<1>5. ApplyTypeOK'
  BY <1>1, <1>3 DEF TypeInv, TypeOK, ApplyTypeOK
<1>. QED
  BY <1>1, <1>4, <1>5, ClientFrame, CallsFrame DEF TypeInv, TypeOK, RestIsTyped

LEMMA ProposeTyped ==
  ASSUME TypeInv, ElectionInv', NEW i \in Server, NEW cmd \in Command, Propose(i, cmd)
  PROVE  RestIsTyped'
<1> DEFINE index == LastIndex(i) + 1
           entry == [term |-> currentTerm[i], index |-> index, cmd |-> cmd]
           record == [status |-> "waiting", node |-> i, index |-> index,
                      term |-> currentTerm[i]]
<1>1. index \in Nat /\ currentTerm[i] \in Nat
  BY LastTyped DEF TypeInv, TypeOK, ElectionTypeOK
<1>2. /\ log' = [log EXCEPT ![i] = Append(log[i], entry)]
      /\ proposal' = [proposal EXCEPT ![cmd] = record]
      /\ pendingProposals' = [pendingProposals EXCEPT ![i] =
           [n \in DOMAIN pendingProposals[i] \union {index} |->
              IF n = index THEN cmd ELSE pendingProposals[i][n]]]
      /\ UNCHANGED <<snapshotIndex, snapshotTerm, commitIndex, leaderVars, applyVars,
                     restarts>>
      /\ Start({SendAppendCall(i, j) : j \in Peers(i)})
  BY DEF Propose
<1>3. entry \in LogEntries /\ record \in ProposalRecords /\ record # Idle
  BY <1>1 DEF LogEntries, ProposalRecords, Idle
<1> HIDE DEF index, entry, record
<1>4. LogTypeOK'
  <2>1. Append(log[i], entry) \in Seq(LogEntries)
    BY <1>3, AppendProperties DEF TypeInv, TypeOK, LogTypeOK
  <2>. QED  BY <1>2, <2>1 DEF TypeInv, TypeOK, LogTypeOK, leaderVars
<1>5. /\ proposal' \in [Command -> {Idle} \union ProposalRecords]
      /\ \A x \in Command : proposal[x] # Idle => proposal'[x] # Idle
      /\ proposal'[cmd] # Idle
  BY <1>2, <1>3 DEF TypeInv, TypeOK, ClientTypeOK, ProposalRecords
<1>6. \A j \in Server :
        /\ DOMAIN pendingProposals'[j] \subseteq DOMAIN pendingProposals[j] \union {index}
        /\ \A m \in DOMAIN pendingProposals'[j] :
             \/ pendingProposals'[j][m] = cmd
             \/ /\ m \in DOMAIN pendingProposals[j]
                /\ pendingProposals'[j][m] = pendingProposals[j][m]
  BY <1>2 DEF TypeInv, PendingIsTyped
<1>7. ClientTypeOK'
  BY <1>1, <1>5, <1>6 DEF TypeInv, TypeOK, ClientTypeOK, ProposalRecords
<1>8. PendingIsTyped'
  BY <1>2, <1>5, <1>6 DEF TypeInv, TypeOK, ClientTypeOK, PendingIsTyped
<1>9. CallTypeOK'
  BY <1>2, BroadcastTyped
<1>. QED
  BY <1>2, <1>4, <1>7, <1>8, <1>9, ApplyFrame DEF TypeInv, TypeOK, RestIsTyped

LEMMA AnswerTyped ==
  ASSUME TypeInv, NEW cmd \in Command, ProposeReturn(cmd) \/ ProposeTimeout(cmd)
  PROVE  RestIsTyped'
<1>1. UNCHANGED <<logVars, commitIndex, leaderVars, applyVars, calls, restarts>>
  BY DEF ProposeReturn, ProposeTimeout
<1>2. proposal[cmd] # Idle /\ proposal[cmd].node \in Server
  BY DEF ProposeReturn, ProposeTimeout, Idle, TypeInv, TypeOK, ClientTypeOK
<1>3. ClientTypeOK' /\ PendingIsTyped'
  <2>1. StatusChanges
    BY <1>2 DEF ProposeReturn, ProposeTimeout, StatusChanges
  <2>2. NothingPendingAdded
    BY <1>2, WithoutPendingAddsNothing
       DEF ProposeReturn, ProposeTimeout, NothingPendingAdded, TypeInv, PendingIsTyped
  <2>. QED  BY <2>1, <2>2, PendingTyped
<1>. QED
  BY <1>1, <1>3, LogFrame, ApplyFrame, CallsFrame DEF TypeInv, TypeOK, RestIsTyped

-----------------------------------------------------------------------------
(* Every step keeps the types. *)

LEMMA CallStepTyped ==
  ASSUME TypeInv, ElectionInv', CallStep
  PROVE  RestIsTyped'
<1> PICK c \in DOMAIN calls :
      \/ HandleRequestVote(c)
      \/ StepDownOnReply(c)
      \/ DiscardReply(c)
      \/ CountVote(c)
      \/ BecomeLeader(c)
      \/ SendAppendEntries(c)
      \/ RejectStaleAppend(c)
      \/ RejectShortLog(c)
      \/ RejectMismatch(c)
      \/ AcceptEntries(c)
      \/ AdvanceOnSuccess(c)
      \/ BackOffOnFailure(c)
      \/ CrashInHandler(c)
      \/ Lose(c)
  BY DEF CallStep
<1>1. CASE StepDownOnReply(c) \/ DiscardReply(c) \/ CountVote(c) \/ Lose(c)
  <2>1. /\ Consume(c)
        /\ UNCHANGED <<logVars, commitIndex, leaderVars, applyVars, clientVars, restarts>>
    BY <1>1 DEF StepDownOnReply, DiscardReply, CountVote, Lose
  <2>. QED  BY <2>1, ConsumingStepTyped
<1>. QED
  BY <1>1, HandleRequestVoteTyped, BecomeLeaderTyped, SendAppendEntriesTyped, RejectTyped,
     RejectMismatchTyped, AcceptEntriesTyped, AdvanceOnSuccessTyped, BackOffTyped,
     CrashInHandlerTyped

LEMMA NodeStepTyped ==
  ASSUME TypeInv, ElectionInv', NodeStep
  PROVE  RestIsTyped'
<1> PICK i \in Server :
      \/ StartElection(i)
      \/ BroadcastAppendEntries(i)
      \/ FetchCommitted(i)
      \/ ApplyEntry(i)
      \/ MaybeSnapshot(i)
      \/ TakeSnapshot(i)
      \/ Crash(i)
      \/ CrashInSnapshot(i)
  BY DEF NodeStep
<1>. QED
  BY StartElectionTyped, BroadcastStepTyped, FetchTyped, ApplyEntryTyped,
     MaybeSnapshotTyped, TakeSnapshotTyped, CrashTyped

LEMMA ClientStepTyped ==
  ASSUME TypeInv, ElectionInv', ClientStep
  PROVE  RestIsTyped'
  BY ProposeTyped, AnswerTyped DEF ClientStep

LEMMA StutterTyped ==
  ASSUME TypeInv, UNCHANGED vars
  PROVE  RestIsTyped'
  BY LogFrame, ApplyFrame, ClientFrame, CallsFrame
     DEF vars, TypeInv, TypeOK, RestIsTyped

LEMMA InitTyped ==
  ASSUME Init
  PROVE  TypeInv
<1> USE DEF Init, Follower, Candidate, Leader
<1>1. ElectionTypeOK
  BY InitElectionInv DEF ElectionInv
<1>2. << >> \in Seq(LogEntries) /\ << >> \in Seq(Command)
  OBVIOUS
<1>3. LogTypeOK /\ ApplyTypeOK
  BY <1>2 DEF LogTypeOK, ApplyTypeOK
<1>4. \A i \in Server : DOMAIN pendingProposals[i] = {}
  OBVIOUS
<1>5. ClientTypeOK /\ PendingIsTyped
  BY <1>4 DEF ClientTypeOK, PendingIsTyped
<1>6. CallTypeOK
  BY DEF CallTypeOK, EmptyBag, SetToBag
<1>. QED  BY <1>1, <1>3, <1>5, <1>6 DEF TypeInv, TypeOK

\* The strengthened type invariant is inductive next to that of elections, which
\* says that terms stay natural numbers and that no node calls itself.
THEOREM TypesAreKept == Spec => []TypeInv
<1>1. ASSUME TypeInv, ElectionInv', [Next]_vars
      PROVE  TypeInv'
  <2>1. RestIsTyped'
    BY <1>1, CallStepTyped, NodeStepTyped, ClientStepTyped, StutterTyped DEF Next
  <2>2. ElectionTypeOK'
    BY <1>1 DEF ElectionInv
  <2>. QED  BY <2>1, <2>2 DEF RestIsTyped, TypeInv, TypeOK
<1>. QED  BY <1>1, InitTyped, ElectionInvariant, PTL DEF Spec

\* Every variable keeps its type in every behaviour, with snapshots, crashes,
\* lost, delayed and reordered calls: AppendAll, EntriesBetween and CompactTo
\* always leave logs, and the median of advanceCommitIndex exists.
THEOREM RaftIsTyped == Spec => []TypeOK
<1>1. TypeInv => TypeOK
  BY DEF TypeInv
<1>. QED  BY <1>1, TypesAreKept, PTL

=============================================================================
