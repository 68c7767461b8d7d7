----------------------------- MODULE FailoverProofs -----------------------------
(***************************************************************************)
(* Proofs about what a cluster of coordinators recovers with.              *)
(* LeaderElection: with any number of coordinator instances there is at    *)
(* most one leader in a term, provided that the program around             *)
(* ElectionState drops answers to its earlier elections and that nobody    *)
(* calls become_follower within a term; under every network terms only     *)
(* rise, and nobody leads without the votes of a majority.                 *)
(* SessionWal: with any number of threads, appends and crashes, a replay   *)
(* reads every entry that was acknowledged and had a line for itself, no   *)
(* sequence number twice, and the numbers in order, outside two races.     *)
(***************************************************************************)
EXTENDS LeaderElection, SessionWal, FiniteSetTheorems, SequenceTheorems,
        WellFoundedInduction, TLAPS

(* The provers a leaf is given that names none of its own, tried in this order. *)
USE SMTT(30), ZenonT(30), Z3T(30), SMTT(40)

(* Two majorities, as record_vote computes them, share a node. *)
LEMMA MajoritiesMeet ==
  ASSUME NEW A \in SUBSET Nodes, NEW B \in SUBSET Nodes,
         Majority(A), Majority(B)
  PROVE  \E v \in Nodes : v \in A /\ v \in B
<1>1. IsFiniteSet(Nodes) /\ IsFiniteSet(A) /\ IsFiniteSet(B)
  BY ElectionAssumption, FS_Subset
<1>2. /\ Cardinality(Nodes) \in Nat
      /\ Cardinality(A) \in Nat
      /\ Cardinality(B) \in Nat
  BY <1>1, FS_CardinalityType
<1>3. Cardinality(A) + Cardinality(B) > Cardinality(Nodes)
  BY <1>2 DEF Majority
<1>4. A \cap B # {}
  BY <1>1, <1>3, FS_MajoritiesIntersect
<1> QED
  BY <1>4

(* A vote once given stays given: messages are only added. *)
LEMMA VotesStay ==
  ASSUME messages \subseteq messages',
         NEW v, NEW c, NEW term, Voted(v, c, term)
  PROVE  Voted(v, c, term)'
BY DEF Voted

(* Two leaders of one term were elected by majorities that share a voter,  *)
(* who voted once.                                                         *)
LEMMA VotesGiveSafety ==
  ASSUME ElectionTypeOK, OneVotePerTerm, LeadersWereElected
  PROVE  ElectionSafety
<1> SUFFICES ASSUME NEW p \in leaders, NEW q \in leaders, p[1] = q[1]
             PROVE  p[2] = q[2]
  BY DEF ElectionSafety
<1>1. p[1] \in Terms /\ p[2] \in Nodes /\ q[2] \in Nodes
  BY DEF ElectionTypeOK
<1>2. PICK A \in SUBSET Nodes :
        Majority(A) /\ \A v \in A : Voted(v, p[2], p[1])
  BY DEF LeadersWereElected
<1>3. PICK B \in SUBSET Nodes :
        Majority(B) /\ \A v \in B : Voted(v, q[2], q[1])
  BY DEF LeadersWereElected
<1>4. PICK v \in Nodes : v \in A /\ v \in B
  BY <1>2, <1>3, MajoritiesMeet
<1> QED
  BY <1>1, <1>2, <1>3, <1>4 DEF OneVotePerTerm

(* ElectionState::new establishes the invariant. *)
LEMMA ElectionInitEstablishes ==
  ASSUME ElectionInit
  PROVE  FreshInv
BY ElectionAssumption
DEF ElectionInit, FreshInv, ElectionTypeOK, Terms, NodeRole, VotesBind,
    OneVotePerTerm,
    Voted, CountedWereGiven, LeadersWereElected

(* A step that gives at most one new vote, by a node that is now bound to  *)
(* it and was not bound to another, keeps votes unique and binding.        *)
LEMMA NewVoteBinds ==
  ASSUME ElectionTypeOK, VotesBind, OneVotePerTerm, ElectionTypeOK',
         network' = network,
         NEW n \in Nodes, NEW c \in Nodes, NEW t \in Terms,
         \A v, d \in Nodes, term \in Terms : Voted(v, d, term)' =>
           Voted(v, d, term) \/ (v = n /\ d = c /\ term = t
                                 /\ current_term'[n] = t /\ voted_for'[n] = c),
         \A v \in Nodes : v # n =>
           current_term'[v] = current_term[v] /\ voted_for'[v] = voted_for[v],
         \/ current_term'[n] > current_term[n]
         \/ /\ current_term'[n] = current_term[n]
            /\ voted_for[n] # NoNode => voted_for'[n] = voted_for[n]
  PROVE  VotesBind' /\ OneVotePerTerm'
<1>0. /\ \A v \in Nodes : current_term[v] \in Nat /\ current_term'[v] \in Nat
      /\ \A v \in Nodes : voted_for[v] \in Nodes \cup {NoNode}
      /\ NoNode \notin Nodes
      /\ t \in Nat
  BY ElectionAssumption DEF ElectionTypeOK, Terms
<1>1. ASSUME NEW v \in Nodes, NEW d \in Nodes, NEW term \in Terms,
             Voted(v, d, term)
      PROVE  \/ current_term'[v] > term
             \/ current_term'[v] = term /\ voted_for'[v] = d
  <2>1. \/ current_term[v] > term
        \/ current_term[v] = term /\ voted_for[v] = d
    BY <1>1 DEF VotesBind
  <2>2. term \in Nat /\ d # NoNode
    BY ElectionAssumption DEF Terms
  <2>3. CASE v # n
    BY <2>1, <2>3
  <2>4. CASE v = n
    BY <2>1, <2>2, <2>4, <1>0
  <2> QED
    BY <2>3, <2>4
<1>2. ASSUME NEW v \in Nodes, NEW d \in Nodes, NEW term \in Terms,
             Voted(v, d, term)'
      PROVE  \/ current_term'[v] > term
             \/ current_term'[v] = term /\ voted_for'[v] = d
  BY <1>1, <1>2
<1>3. VotesBind'
  BY <1>2 DEF VotesBind, Terms
<1>4. ASSUME NEW v \in Nodes, NEW d \in Nodes, NEW e \in Nodes,
             NEW term \in Terms, Voted(v, d, term)', Voted(v, e, term)'
      PROVE  d = e
  <2>1. CASE Voted(v, d, term) /\ Voted(v, e, term)
    BY <2>1 DEF OneVotePerTerm
  <2>2. CASE ~Voted(v, d, term) \/ ~Voted(v, e, term)
    <3>1. current_term'[v] = term
      BY <2>2, <1>4
    <3>2. term \in Nat
      BY DEF Terms
    <3>3. voted_for'[v] = d /\ voted_for'[v] = e
      BY <1>2, <1>4, <3>1, <3>2
    <3> QED
      BY <3>3
  <2> QED
    BY <2>1, <2>2
<1> QED
  BY <1>3, <1>4 DEF OneVotePerTerm, Terms

(* The votes behind the leaders so far stay. *)
LEMMA ElectedStay ==
  ASSUME LeadersWereElected, messages \subseteq messages', NEW p \in leaders
  PROVE  \E votes \in SUBSET Nodes :
           Majority(votes) /\ \A v \in votes : Voted(v, p[2], p[1])'
<1>1. PICK votes \in SUBSET Nodes :
        Majority(votes) /\ \A v \in votes : Voted(v, p[2], p[1])
  BY DEF LeadersWereElected
<1>2. \A v \in votes : Voted(v, p[2], p[1])'
  BY <1>1, VotesStay
<1> QED
  BY <1>1, <1>2

(* become_candidate preserves the invariant: the vote a candidate gives    *)
(* itself is the only one it gives in its new term.                        *)
LEMMA CandidateStep ==
  ASSUME FreshInv, NEW n \in Nodes, BecomeCandidate(n)
  PROVE  FreshInv'
<1>0. PICK t : t = current_term[n] + 1
  OBVIOUS
<1> DEFINE m == [kind |-> "request", term |-> t, candidate |-> n]
<1>1. /\ t \in Terms /\ t > current_term[n]
      /\ current_term' = [current_term EXCEPT ![n] = t]
      /\ voted_for' = [voted_for EXCEPT ![n] = n]
      /\ votes_received' = [votes_received EXCEPT ![n] = {n}]
      /\ messages' = messages \cup {m}
      /\ network' = network
  BY <1>0, ElectionAssumption DEF FreshInv, ElectionTypeOK, Terms,
    BecomeCandidate
<1>2. \/ /\ role' = [role EXCEPT ![n] = "Leader"]
         /\ Majority({n})
         /\ leaders' = leaders \cup {<<t, n>>}
      \/ role' = [role EXCEPT ![n] = "Candidate"] /\ leaders' = leaders
  BY <1>0 DEF BecomeCandidate
<1>3. m \in VoteRequest
  BY <1>1 DEF VoteRequest
<1>4. ElectionTypeOK'
  <2>1. role' \in [Nodes -> NodeRole]
    BY <1>2 DEF FreshInv, ElectionTypeOK, NodeRole
  <2>2. leaders' \subseteq Terms \X Nodes
    BY <1>1, <1>2 DEF FreshInv, ElectionTypeOK
  <2>3. /\ current_term' \in [Nodes -> Terms]
        /\ voted_for' \in [Nodes -> Nodes \cup {NoNode}]
        /\ votes_received' \in [Nodes -> SUBSET Nodes]
    BY <1>1 DEF FreshInv, ElectionTypeOK
  <2>4. messages' \subseteq VoteRequest \cup VoteResponse
    BY <1>1, <1>3 DEF FreshInv, ElectionTypeOK
  <2> QED
    BY <1>1, <2>1, <2>2, <2>3, <2>4
    DEF FreshInv, ElectionTypeOK, Terms, VoteRequest, VoteResponse
<1>5. Voted(n, n, t)'
  <2>1. m \in messages'
    BY <1>1
  <2>2. m.kind = "request" /\ m.term = t /\ m.candidate = n
    OBVIOUS
  <2> HIDE DEF m
  <2> QED
    BY <2>1, <2>2 DEF Voted
<1>6. /\ current_term'[n] = t /\ voted_for'[n] = n /\ votes_received'[n] = {n}
      /\ \A v \in Nodes : v # n =>
           /\ current_term'[v] = current_term[v]
           /\ voted_for'[v] = voted_for[v]
           /\ votes_received'[v] = votes_received[v]
           /\ role'[v] = role[v]
  BY <1>1, <1>2 DEF FreshInv, ElectionTypeOK
<1>7. \A v, d \in Nodes, term \in Terms : Voted(v, d, term)' =>
        Voted(v, d, term) \/ (v = n /\ d = n /\ term = t)
  BY <1>1 DEF Voted
<1>8. VotesBind' /\ OneVotePerTerm'
  BY <1>1, <1>4, <1>6, <1>7, NewVoteBinds DEF FreshInv
<1>9. CountedWereGiven'
  <2> SUFFICES ASSUME NEW v \in Nodes, role'[v] = "Candidate",
                      NEW w \in votes_received'[v]
               PROVE  Voted(w, v, current_term[v])'
    BY DEF CountedWereGiven
  <2>1. CASE v = n
    BY <1>5, <1>6, <2>1
  <2>2. CASE v # n
    <3>1. Voted(w, v, current_term[v])
      BY <1>6, <2>2 DEF FreshInv, CountedWereGiven
    <3>2. current_term'[v] = current_term[v]
      BY <1>6, <2>2
    <3> QED
      BY <3>1, <3>2, <1>1 DEF Voted
  <2> QED
    BY <2>1, <2>2
<1>10. LeadersWereElected'
  <2> SUFFICES ASSUME NEW p \in leaders'
               PROVE  \E votes \in SUBSET Nodes :
                 Majority(votes) /\ \A v \in votes : Voted(v, p[2], p[1])'
    BY DEF LeadersWereElected, Majority
  <2>1. CASE p \in leaders
    BY <2>1, <1>1, ElectedStay DEF FreshInv
  <2>2. CASE p = <<t, n>> /\ Majority({n})
    BY <2>2, <1>5
  <2> QED
    BY <2>1, <2>2, <1>2
<1> QED
  BY <1>4, <1>8, <1>9, <1>10 DEF FreshInv

(* handle_vote_request preserves the invariant: a node grants a vote only  *)
(* in its own term, and only if it has not voted for another.              *)
LEMMA RequestStep ==
  ASSUME FreshInv, NEW n \in Nodes, NEW req \in messages,
         HandleVoteRequest(n, req)
  PROVE  FreshInv'
<1>1. /\ req.kind = "request" /\ req.term \in Terms /\ req.candidate \in Nodes
      /\ current_term[n] \in Terms
      /\ \A i \in Terms : i \in Nat
  BY ElectionAssumption
  DEF HandleVoteRequest, FreshInv, ElectionTypeOK, VoteRequest, VoteResponse,
    Terms
<1>2. PICK asked \in Terms : asked = req.term
  BY <1>1
<1>3. PICK old \in Terms : old = current_term[n]
  BY <1>1
<1> DEFINE newer == asked > old
           t == IF newer THEN asked ELSE old
<1>4. PICK grant \in BOOLEAN : grant = Grants(n, req, t)
  BY ZenonT(30) DEF Grants
<1>5. PICK c \in Nodes : c = req.candidate
  BY <1>1
<1>6. t \in Terms
  OBVIOUS
<1> DEFINE m == [kind |-> "response", voter |-> n, candidate |-> c,
                 asked |-> asked, term |-> t, granted |-> grant]
<1>7. /\ role' = [role EXCEPT ![n] = IF newer THEN "Follower" ELSE @]
      /\ current_term' = [current_term EXCEPT ![n] = t]
      /\ voted_for' = [voted_for EXCEPT
           ![n] = IF grant THEN c ELSE IF newer THEN NoNode ELSE @]
      /\ votes_received' = [votes_received EXCEPT ![n] = IF newer THEN {} ELSE @]
      /\ messages' = messages \cup {m}
      /\ leaders' = leaders
      /\ network' = network
  BY <1>2, <1>3, <1>4, <1>5 DEF HandleVoteRequest
<1>8. m \in VoteResponse
  BY <1>6 DEF VoteResponse
<1>9. m.kind = "response" /\ m.voter = n /\ m.candidate = c
      /\ m.asked = asked /\ m.granted = grant
  OBVIOUS
<1> HIDE DEF m
<1>10. ElectionTypeOK'
  <2>1. role' \in [Nodes -> NodeRole] /\ leaders' \subseteq Terms \X Nodes
    BY <1>7 DEF FreshInv, ElectionTypeOK, NodeRole
  <2>2. /\ current_term' \in [Nodes -> Terms]
        /\ voted_for' \in [Nodes -> Nodes \cup {NoNode}]
        /\ votes_received' \in [Nodes -> SUBSET Nodes]
    BY <1>7 DEF FreshInv, ElectionTypeOK
  <2>3. messages' \subseteq VoteRequest \cup VoteResponse
    BY <1>7, <1>8 DEF FreshInv, ElectionTypeOK
  <2> QED
    BY <1>7, <2>1, <2>2, <2>3
    DEF FreshInv, ElectionTypeOK, Terms, VoteRequest, VoteResponse
<1>11. /\ current_term'[n] = t
       /\ voted_for'[n] = IF grant THEN c ELSE IF newer THEN NoNode
                                          ELSE voted_for[n]
       /\ role'[n] = "Candidate" =>
            /\ role[n] = "Candidate" /\ ~newer
            /\ votes_received'[n] = votes_received[n]
       /\ network' = network
       /\ \A v \in Nodes : v # n =>
            /\ current_term'[v] = current_term[v]
            /\ voted_for'[v] = voted_for[v]
            /\ votes_received'[v] = votes_received[v]
            /\ role'[v] = role[v]
  BY <1>7 DEF FreshInv, ElectionTypeOK
<1>12. grant => asked = t
  <2>1. grant => asked >= t
    BY <1>2, <1>4, ZenonT(30) DEF Grants
  <2>2. asked \in Nat /\ old \in Nat
    BY <1>1
  <2> QED
    BY <2>1, <2>2
<1>13. \A v, d \in Nodes, term \in Terms : Voted(v, d, term)' =>
         Voted(v, d, term) \/ (v = n /\ d = c /\ term = t
                               /\ current_term'[n] = t /\ voted_for'[n] = c)
  <2>1. \A v, d \in Nodes, term \in Terms : Voted(v, d, term)' =>
          Voted(v, d, term) \/ (v = n /\ d = c /\ term = t /\ grant)
    BY <1>7, <1>9, <1>12 DEF Voted
  <2> QED
    BY <2>1, <1>11
<1>14. \/ current_term'[n] > current_term[n]
       \/ /\ current_term'[n] = current_term[n]
          /\ voted_for[n] # NoNode => voted_for'[n] = voted_for[n]
  <2>1. asked \in Nat /\ old \in Nat
    BY <1>1
  <2>2. CASE newer
    BY <2>1, <2>2, <1>3, <1>11
  <2>3. CASE ~newer
    <3>1. grant => voted_for[n] \in {NoNode, c}
      BY <2>3, <1>2, <1>3, <1>4, <1>5, ZenonT(30) DEF Grants
    <3> QED
      BY <2>3, <3>1, <1>3, <1>11
  <2> QED
    BY <2>2, <2>3
<1> HIDE DEF t
<1>15. VotesBind' /\ OneVotePerTerm'
  BY <1>6, <1>10, <1>11, <1>13, <1>14, NewVoteBinds DEF FreshInv
<1>16. CountedWereGiven'
  <2> SUFFICES ASSUME NEW v \in Nodes, role'[v] = "Candidate",
                      NEW w \in votes_received'[v]
               PROVE  Voted(w, v, current_term[v])'
    BY DEF CountedWereGiven
  <2>1. /\ role[v] = "Candidate" /\ w \in votes_received[v]
        /\ current_term'[v] = current_term[v]
    BY <1>11, <1>3 DEF t
  <2>2. Voted(w, v, current_term[v])
    BY <2>1 DEF FreshInv, CountedWereGiven
  <2> QED
    BY <2>1, <2>2, <1>7 DEF Voted
<1>17. LeadersWereElected'
  <2> SUFFICES ASSUME NEW p \in leaders'
               PROVE  \E votes \in SUBSET Nodes :
                 Majority(votes) /\ \A v \in votes : Voted(v, p[2], p[1])'
    BY ZenonT(30) DEF LeadersWereElected, Majority
  <2> QED
    BY <1>7, ElectedStay DEF FreshInv
<1> QED
  BY <1>10, <1>15, <1>16, <1>17 DEF FreshInv

(* handle_vote_response preserves the invariant, as long as the answer is  *)
(* one to a request of the node's present term.                            *)
LEMMA ResponseStep ==
  ASSUME FreshInv, network = "fresh", NEW n \in Nodes, NEW resp \in messages,
         HandleVoteResponse(n, resp)
  PROVE  FreshInv'
<1>1. /\ resp.kind = "response" /\ resp.candidate = n
      /\ resp.asked = current_term[n]
      /\ resp.term \in Terms /\ resp.voter \in Nodes
      /\ resp.granted \in BOOLEAN
      /\ current_term[n] \in Terms
      /\ \A i \in Terms : i \in Nat
      /\ messages' = messages /\ network' = network
  BY ElectionAssumption
  DEF HandleVoteResponse, FreshInv, ElectionTypeOK, VoteRequest, VoteResponse,
    Terms
<1>2. \A v, d, term : Voted(v, d, term)' <=> Voted(v, d, term)
  BY <1>1 DEF Voted
<1>3. CASE resp.term > current_term[n]
  <2>1. /\ role' = [role EXCEPT ![n] = "Follower"]
        /\ current_term' = [current_term EXCEPT ![n] = resp.term]
        /\ voted_for' = [voted_for EXCEPT ![n] = NoNode]
        /\ votes_received' = [votes_received EXCEPT ![n] = {}]
        /\ leaders' = leaders
    BY <1>3 DEF HandleVoteResponse, BecomeFollower
  <2>2. ElectionTypeOK'
    <3>1. role' \in [Nodes -> NodeRole]
      BY <2>1 DEF FreshInv, ElectionTypeOK, NodeRole
    <3>2. /\ current_term' \in [Nodes -> Terms]
          /\ voted_for' \in [Nodes -> Nodes \cup {NoNode}]
          /\ votes_received' \in [Nodes -> SUBSET Nodes]
      BY <1>1, <2>1 DEF FreshInv, ElectionTypeOK
    <3> QED
      BY <1>1, <2>1, <3>1, <3>2
      DEF FreshInv, ElectionTypeOK, Terms, VoteRequest, VoteResponse
  <2>3. /\ role'[n] = "Follower" /\ current_term'[n] = resp.term
        /\ \A v \in Nodes : v # n =>
             /\ current_term'[v] = current_term[v]
             /\ voted_for'[v] = voted_for[v]
             /\ votes_received'[v] = votes_received[v]
             /\ role'[v] = role[v]
    BY <2>1 DEF FreshInv, ElectionTypeOK
  <2>4. VotesBind' /\ OneVotePerTerm'
    BY <1>1, <1>2, <1>3, <2>2, <2>3, NewVoteBinds DEF FreshInv
  <2>5. CountedWereGiven'
    <3> SUFFICES ASSUME NEW v \in Nodes, role'[v] = "Candidate",
                        NEW w \in votes_received'[v]
                 PROVE  Voted(w, v, current_term[v])'
      BY DEF CountedWereGiven
    <3>1. /\ v # n /\ role[v] = "Candidate" /\ w \in votes_received[v]
          /\ current_term'[v] = current_term[v]
      BY <2>3
    <3>2. Voted(w, v, current_term[v])
      BY <3>1 DEF FreshInv, CountedWereGiven
    <3> QED
      BY <3>1, <3>2, <1>1 DEF Voted
  <2>6. LeadersWereElected'
    BY <1>2, <2>1 DEF FreshInv, LeadersWereElected, Majority
  <2> QED
    BY <2>2, <2>4, <2>5, <2>6 DEF FreshInv
<1>4. CASE ~(resp.term > current_term[n])
  <2>1. PICK voter \in Nodes : voter = resp.voter
    BY <1>1
  <2>2. PICK votes \in SUBSET Nodes :
          votes = IF resp.granted THEN votes_received[n] \cup {voter}
                                  ELSE votes_received[n] \ {voter}
    BY ZenonT(30) DEF FreshInv, ElectionTypeOK
  <2>3. /\ votes_received' = [votes_received EXCEPT ![n] = votes]
        /\ UNCHANGED <<current_term, voted_for>>
        /\ \/ /\ Majority(votes) /\ role[n] = "Candidate"
              /\ role' = [role EXCEPT ![n] = "Leader"]
              /\ leaders' = leaders \cup {<<current_term[n], n>>}
           \/ UNCHANGED <<role, leaders>>
    BY <1>4, <2>1, <2>2 DEF HandleVoteResponse, RecordVote
  <2>4. ElectionTypeOK'
    <3>1. role' \in [Nodes -> NodeRole]
      BY <2>3 DEF FreshInv, ElectionTypeOK, NodeRole
    <3>2. votes_received' \in [Nodes -> SUBSET Nodes]
      BY <2>3 DEF FreshInv, ElectionTypeOK
    <3>3. leaders' \subseteq Terms \X Nodes
      BY <1>1, <2>3 DEF FreshInv, ElectionTypeOK
    <3> QED
      BY <1>1, <2>3, <3>1, <3>2, <3>3
      DEF FreshInv, ElectionTypeOK, Terms, VoteRequest, VoteResponse
  <2>5. VotesBind' /\ OneVotePerTerm'
    BY <1>1, <1>2, <2>3 DEF FreshInv, VotesBind, OneVotePerTerm, Terms
  <2>6. resp.granted => Voted(voter, n, current_term[n])
    BY <1>1, <2>1 DEF Voted
  <2>7. role[n] = "Candidate" =>
          \A v \in votes : Voted(v, n, current_term[n])
    BY <2>2, <2>6 DEF FreshInv, CountedWereGiven
  <2>8. CountedWereGiven'
    <3> SUFFICES ASSUME NEW v \in Nodes, role'[v] = "Candidate",
                        NEW w \in votes_received'[v]
                 PROVE  Voted(w, v, current_term[v])'
      BY DEF CountedWereGiven
    <3>1. role[v] = "Candidate"
      BY <2>3 DEF FreshInv, ElectionTypeOK
    <3>2. CASE v = n
      <4>1. w \in votes
        BY <2>3, <3>2 DEF FreshInv, ElectionTypeOK
      <4> QED
        BY <4>1, <3>1, <3>2, <2>3, <2>7, <1>1 DEF Voted
    <3>3. CASE v # n
      <4>1. w \in votes_received[v]
        BY <2>3, <3>3 DEF FreshInv, ElectionTypeOK
      <4>2. Voted(w, v, current_term[v])
        BY <4>1, <3>1 DEF FreshInv, CountedWereGiven
      <4> QED
        BY <4>2, <2>3, <1>1 DEF Voted
    <3> QED
      BY <3>2, <3>3
  <2>9. LeadersWereElected'
    <3> SUFFICES ASSUME NEW p \in leaders'
                 PROVE  \E w \in SUBSET Nodes :
                   Majority(w) /\ \A v \in w : Voted(v, p[2], p[1])'
      BY DEF LeadersWereElected, Majority
    <3>1. CASE p \in leaders
      BY <3>1, <1>1, ElectedStay DEF FreshInv
    <3>2. CASE p \notin leaders
      <4>1. /\ p = <<current_term[n], n>> /\ Majority(votes)
            /\ role[n] = "Candidate"
        BY <3>2, <2>3
      <4> QED
        BY <4>1, <2>7, <1>2
    <3> QED
      BY <3>1, <3>2
  <2> QED
    BY <2>4, <2>5, <2>8, <2>9 DEF FreshInv
<1> QED
  BY <1>3, <1>4

(* Every step preserves the invariant of a network without late answers    *)
(* and without calls of become_follower within a term.                     *)
LEMMA FreshNextPreserves ==
  ASSUME FreshInv, network = "fresh", [ElectionNext]_electionVars
  PROVE  FreshInv'
<1>1. CASE \E n \in Nodes : BecomeCandidate(n)
  BY <1>1, CandidateStep
<1>2. CASE \E n \in Nodes, m \in messages : HandleVoteRequest(n, m)
  BY <1>2, RequestStep
<1>3. CASE \E n \in Nodes, m \in messages : HandleVoteResponse(n, m)
  BY <1>3, ResponseStep
<1>4. CASE \E n, leader \in Nodes : HearLeader(n, leader)
  BY <1>4 DEF HearLeader
<1>5. CASE UNCHANGED electionVars
  <2>1. \A v, d, term : Voted(v, d, term)' <=> Voted(v, d, term)
    BY <1>5 DEF electionVars, Voted
  <2>2. ElectionTypeOK'
    BY <1>5 DEF electionVars, FreshInv, ElectionTypeOK, Terms, VoteRequest,
    VoteResponse
  <2>3. VotesBind' /\ OneVotePerTerm'
    BY <1>5, <2>1 DEF electionVars, FreshInv, VotesBind, OneVotePerTerm, Terms
  <2>4. CountedWereGiven'
    BY <1>5, <2>1 DEF electionVars, FreshInv, CountedWereGiven, Voted
  <2>5. LeadersWereElected'
    BY <1>5, <2>1 DEF electionVars, FreshInv, LeadersWereElected, Majority
  <2> QED
    BY <2>2, <2>3, <2>4, <2>5 DEF FreshInv
<1> QED
  BY <1>1, <1>2, <1>3, <1>4, <1>5 DEF ElectionNext

(* The network does not change. *)
LEMMA NetworkFixed ==
  ASSUME [ElectionNext]_electionVars
  PROVE  network' = network
BY ZenonT(30) DEF ElectionNext, electionVars, BecomeCandidate, HandleVoteRequest,
    HandleVoteResponse,
       HearLeader

(* The inductive invariant of an election whose caller drops late answers  *)
(* and does not call become_follower within a term.                        *)
THEOREM ElectionInvariance == ElectionSpec => []ElectionInv
<1>1. ElectionInit => ElectionInv
  BY ElectionInitEstablishes DEF ElectionInv
<1>2. ElectionInv /\ [ElectionNext]_electionVars => ElectionInv'
  BY FreshNextPreserves, NetworkFixed DEF ElectionInv
<1> QED
  BY <1>1, <1>2, PTL DEF ElectionSpec

(* At most one instance becomes leader in a term, for every cluster size   *)
(* and every loss, delay, reordering and repetition of messages, under the *)
(* same two conditions.                                                    *)
THEOREM OneLeaderPerTerm == ElectionSpec => []FreshElectionSafety
<1>1. ElectionInv => FreshElectionSafety
  BY VotesGiveSafety DEF ElectionInv, FreshInv, FreshElectionSafety
<1> QED
  BY <1>1, ElectionInvariance, PTL

-----------------------------------------------------------------------------
(* Elections under every network. *)

(* The type invariant holds under every network, heartbeats included. *)
LEMMA ElectionTypeStep ==
  ASSUME ElectionTypeOK, [ElectionNext]_electionVars
  PROVE  ElectionTypeOK'
<1> USE DEF Terms
<1>1. network' = network /\ network \in Networks /\ MaxTerm[network] \in Nat
  BY NetworkFixed, ElectionAssumption DEF ElectionTypeOK
<1>2. ASSUME NEW n \in Nodes, BecomeCandidate(n)
      PROVE  ElectionTypeOK'
  <2> DEFINE t == current_term[n] + 1
             m == [kind |-> "request", term |-> t, candidate |-> n]
  <2>1. t \in Terms /\ m \in VoteRequest
    BY <1>1, <1>2 DEF BecomeCandidate, ElectionTypeOK, VoteRequest
  <2>2. messages' = messages \cup {m} /\ leaders' \subseteq leaders \cup {<<t, n>>}
    BY <1>2 DEF BecomeCandidate
  <2>3. /\ role' \in [Nodes -> NodeRole] /\ current_term' \in [Nodes -> Terms]
        /\ voted_for' \in [Nodes -> Nodes \cup {NoNode}]
        /\ votes_received' \in [Nodes -> SUBSET Nodes]
    BY <1>2, <2>1 DEF BecomeCandidate, ElectionTypeOK, NodeRole
  <2> QED
    BY <1>1, <2>1, <2>2, <2>3 DEF ElectionTypeOK, VoteRequest, VoteResponse
<1>3. ASSUME NEW n \in Nodes, NEW req \in messages, HandleVoteRequest(n, req)
      PROVE  ElectionTypeOK'
  <2>1. req.term \in Terms /\ req.candidate \in Nodes
    BY <1>3 DEF HandleVoteRequest, ElectionTypeOK, VoteRequest, VoteResponse
  <2> DEFINE newer == req.term > current_term[n]
             term == IF newer THEN req.term ELSE current_term[n]
             grant == Grants(n, req, term)
             m == [kind |-> "response", voter |-> n, candidate |-> req.candidate,
                   asked |-> req.term, term |-> term, granted |-> grant]
  <2>2. term \in Terms /\ grant \in BOOLEAN
    BY <2>1 DEF ElectionTypeOK, Grants
  <2>3. messages' = messages \cup {m} /\ leaders' = leaders
    BY <1>3 DEF HandleVoteRequest
  <2>4. /\ role' = [role EXCEPT ![n] = IF newer THEN "Follower" ELSE @]
        /\ current_term' = [current_term EXCEPT ![n] = term]
        /\ voted_for' = [voted_for EXCEPT
             ![n] = IF grant THEN req.candidate ELSE IF newer THEN NoNode ELSE @]
        /\ votes_received' = [votes_received EXCEPT ![n] = IF newer THEN {} ELSE @]
    BY <1>3 DEF HandleVoteRequest
  <2> HIDE DEF newer, term, grant
  <2>5. m \in VoteResponse
    BY <2>1, <2>2 DEF VoteResponse
  <2>6. /\ role' \in [Nodes -> NodeRole] /\ current_term' \in [Nodes -> Terms]
        /\ voted_for' \in [Nodes -> Nodes \cup {NoNode}]
        /\ votes_received' \in [Nodes -> SUBSET Nodes]
    BY <2>1, <2>2, <2>4 DEF ElectionTypeOK, NodeRole
  <2> HIDE DEF m
  <2> QED
    BY <1>1, <2>3, <2>5, <2>6 DEF ElectionTypeOK, VoteRequest, VoteResponse
<1>4. ASSUME NEW n \in Nodes, NEW t \in Terms, BecomeFollower(n, t),
             UNCHANGED <<network, messages, leaders>>
      PROVE  ElectionTypeOK'
  BY <1>1, <1>4 DEF BecomeFollower, ElectionTypeOK, NodeRole, VoteRequest, VoteResponse
<1>5. ASSUME NEW n \in Nodes, NEW resp \in messages, HandleVoteResponse(n, resp)
      PROVE  ElectionTypeOK'
  <2>1. resp.term \in Terms /\ resp.voter \in Nodes
    BY <1>5 DEF HandleVoteResponse, ElectionTypeOK, VoteRequest, VoteResponse
  <2>2. CASE resp.term > current_term[n]
    BY <1>4, <1>5, <2>1, <2>2 DEF HandleVoteResponse
  <2>3. CASE ~(resp.term > current_term[n])
    <3>1. /\ RecordVote(n, resp.voter, resp.granted)
          /\ UNCHANGED <<current_term, voted_for, messages>>
      BY <1>5, <2>3 DEF HandleVoteResponse
    <3>2. /\ votes_received' \in [Nodes -> SUBSET Nodes]
          /\ role' \in [Nodes -> NodeRole]
          /\ leaders' \subseteq leaders \cup {<<current_term[n], n>>}
      BY <2>1, <3>1 DEF RecordVote, ElectionTypeOK, NodeRole
    <3> QED
      BY <1>1, <3>1, <3>2 DEF ElectionTypeOK, VoteRequest, VoteResponse
  <2> QED
    BY <2>2, <2>3
<1>6. ASSUME NEW n \in Nodes, NEW leader \in Nodes, HearLeader(n, leader)
      PROVE  ElectionTypeOK'
  BY <1>4, <1>6 DEF HearLeader, ElectionTypeOK
<1>7. CASE UNCHANGED electionVars
  BY <1>7 DEF electionVars, ElectionTypeOK, VoteRequest, VoteResponse
<1> QED
  BY <1>2, <1>3, <1>5, <1>6, <1>7 DEF ElectionNext

(* Every call that changes a node's term raises it. *)
LEMMA TermsRise ==
  ASSUME ElectionTypeOK, [ElectionNext]_electionVars, NEW n \in Nodes
  PROVE  current_term'[n] >= current_term[n]
<1>1. /\ current_term \in [Nodes -> Nat]
  BY ElectionAssumption DEF ElectionTypeOK, Terms
<1>2. ASSUME NEW c \in Nodes, NEW t \in Nat, t >= current_term[c],
             current_term' = [current_term EXCEPT ![c] = t]
      PROVE  current_term'[n] >= current_term[n]
  BY <1>1, <1>2
<1>3. CASE \E c \in Nodes : BecomeCandidate(c)
  BY <1>1, <1>2, <1>3 DEF BecomeCandidate
<1>4. ASSUME NEW c \in Nodes, NEW req \in messages, HandleVoteRequest(c, req)
      PROVE  current_term'[n] >= current_term[n]
  <2>1. req.term \in Nat
    BY <1>4, ElectionAssumption
       DEF HandleVoteRequest, ElectionTypeOK, VoteRequest, VoteResponse, Terms
  <2> QED
    BY <1>1, <1>2, <1>4, <2>1 DEF HandleVoteRequest
<1>5. ASSUME NEW c \in Nodes, NEW resp \in messages, HandleVoteResponse(c, resp)
      PROVE  current_term'[n] >= current_term[n]
  <2>1. resp.term \in Nat
    BY <1>5, ElectionAssumption
       DEF HandleVoteResponse, ElectionTypeOK, VoteRequest, VoteResponse, Terms
  <2> QED
    BY <1>1, <1>2, <1>5, <2>1 DEF HandleVoteResponse, BecomeFollower
<1>6. ASSUME NEW c \in Nodes, NEW leader \in Nodes, HearLeader(c, leader)
      PROVE  current_term'[n] >= current_term[n]
  BY <1>1, <1>2, <1>6 DEF HearLeader, BecomeFollower
<1>7. CASE UNCHANGED electionVars
  BY <1>1, <1>7 DEF electionVars
<1> QED
  BY <1>3, <1>4, <1>5, <1>6, <1>7 DEF ElectionNext

(* Under every network a node's term never goes back, although             *)
(* become_follower takes whatever term it is given.                        *)
THEOREM TermsOnlyRise == ElectionSpec => TermsNeverGoBack
<1>1. ElectionInit => ElectionTypeOK
  BY ElectionInitEstablishes DEF FreshInv
<1>2. ElectionTypeOK /\ [ElectionNext]_electionVars => ElectionTypeOK'
  BY ElectionTypeStep
<1>3. ElectionTypeOK /\ [ElectionNext]_electionVars =>
        [\A n \in Nodes : current_term'[n] >= current_term[n]]_electionVars
  BY TermsRise
<1> QED
  BY <1>1, <1>2, <1>3, PTL DEF ElectionSpec, TermsNeverGoBack

(* An answer names a term no earlier than the one it was asked about. *)
AnswersFollow ==
  \A m \in messages : m.kind = "response" => m.asked <= m.term

(* Under every network, whatever a node counts was given to it, in its     *)
(* term or an earlier one.                                                 *)
CountedWereVoted ==
  \A n \in Nodes : \A v \in votes_received[n] :
    \E term \in 0 .. current_term[n] : Voted(v, n, term)

ElectedInv ==
  ElectionTypeOK /\ AnswersFollow /\ CountedWereVoted /\ ElectedByMajority

(* More votes are a majority too. *)
LEMMA MajorityGrows ==
  ASSUME NEW B \in SUBSET Nodes, NEW A \in SUBSET B, Majority(A)
  PROVE  Majority(B)
<1>1. IsFiniteSet(A) /\ IsFiniteSet(B) /\ Cardinality(A) <= Cardinality(B)
  BY ElectionAssumption, FS_Subset
<1>2. Cardinality(A) \in Nat /\ Cardinality(B) \in Nat /\ Cardinality(Nodes) \in Nat
  BY <1>1, ElectionAssumption, FS_CardinalityType
<1> QED
  BY <1>1, <1>2 DEF Majority

(* A step that only raises terms, adds messages and counts no new vote. *)
LEMMA CountedStay ==
  ASSUME ElectedInv, ElectionTypeOK', messages \subseteq messages', NEW n \in Nodes,
         current_term'[n] >= current_term[n],
         NEW v \in votes_received[n]
  PROVE  \E term \in 0 .. current_term'[n] : Voted(v, n, term)'
<1>1. PICK term \in 0 .. current_term[n] : Voted(v, n, term)
  BY DEF ElectedInv, CountedWereVoted
<1>2. current_term[n] \in Nat /\ current_term'[n] \in Nat
  BY ElectionAssumption DEF ElectedInv, ElectionTypeOK, Terms
<1>3. term \in 0 .. current_term'[n]
  BY <1>2
<1> QED
  BY <1>1, <1>3, VotesStay

(* Earlier leaders stay elected. *)
LEMMA EarlierElected ==
  ASSUME ElectedInv, messages \subseteq messages', NEW p \in leaders
  PROVE  Majority({v \in Nodes : \E term \in 0 .. p[1] : Voted(v, p[2], term)'})
<1> DEFINE A == {v \in Nodes : \E term \in 0 .. p[1] : Voted(v, p[2], term)}
           B == {v \in Nodes : \E term \in 0 .. p[1] : Voted(v, p[2], term)'}
<1>1. Majority(A)
  BY DEF ElectedInv, ElectedByMajority
<1>2. A \subseteq B
  BY VotesStay
<1>3. A \in SUBSET B /\ B \in SUBSET Nodes
  BY <1>2
<1> HIDE DEF A, B
<1>4. Majority(B)
  BY <1>1, <1>3, MajorityGrows
<1> QED
  BY <1>4 DEF B

(* A new leader counted its majority. *)
LEMMA NewElected ==
  ASSUME NEW n \in Nodes, NEW t \in Nat, NEW A \in SUBSET Nodes, Majority(A),
         \A v \in A : \E term \in 0 .. t : Voted(v, n, term)'
  PROVE  Majority({v \in Nodes : \E term \in 0 .. t : Voted(v, n, term)'})
<1> DEFINE B == {v \in Nodes : \E term \in 0 .. t : Voted(v, n, term)'}
<1>1. A \in SUBSET B /\ B \in SUBSET Nodes
  OBVIOUS
<1> HIDE DEF B
<1>2. Majority(B)
  BY <1>1, MajorityGrows
<1> QED
  BY <1>2 DEF B

(* Every step keeps the votes and the majorities, under every network. *)
LEMMA ElectedStep ==
  ASSUME ElectedInv, [ElectionNext]_electionVars
  PROVE  ElectedInv'
<1>1. /\ ElectionTypeOK' /\ ElectionTypeOK
      /\ \A n \in Nodes : current_term'[n] >= current_term[n]
      /\ \A n \in Nodes : current_term[n] \in Nat /\ current_term'[n] \in Nat
  <2>1. ElectionTypeOK' /\ ElectionTypeOK
    BY ElectionTypeStep DEF ElectedInv
  <2> QED
    BY <2>1, TermsRise, ElectionAssumption DEF ElectionTypeOK, Terms
<1>2. ASSUME messages \subseteq messages', leaders' = leaders
      PROVE  ElectedByMajority'
  BY <1>2, EarlierElected DEF ElectedByMajority
<1>3. ASSUME messages \subseteq messages',
             \A n \in Nodes : votes_received'[n] \subseteq votes_received[n]
      PROVE  CountedWereVoted'
  BY <1>1, <1>3, CountedStay DEF CountedWereVoted
<1>4. ASSUME messages \subseteq messages', NEW n \in Nodes, NEW t \in Nat,
             t = current_term'[n],
             \A c \in Nodes : c # n => votes_received'[c] = votes_received[c],
             \A v \in votes_received'[n] : \E term \in 0 .. t : Voted(v, n, term)',
             \/ leaders' = leaders
             \/ Majority(votes_received'[n]) /\ leaders' = leaders \cup {<<t, n>>}
      PROVE  CountedWereVoted' /\ ElectedByMajority'
  <2>1. CountedWereVoted'
    <3> SUFFICES ASSUME NEW c \in Nodes, NEW v \in votes_received'[c]
                 PROVE  \E term \in 0 .. current_term'[c] : Voted(v, c, term)'
      BY DEF CountedWereVoted
    <3>1. CASE c = n
      BY <1>4, <3>1
    <3>2. CASE c # n
      BY <1>1, <1>4, <3>2, CountedStay
    <3> QED
      BY <3>1, <3>2
  <2>2. CASE leaders' = leaders
    BY <1>2, <1>4, <2>1, <2>2
  <2>3. CASE Majority(votes_received'[n]) /\ leaders' = leaders \cup {<<t, n>>}
    <3>1. votes_received'[n] \in SUBSET Nodes
      BY <1>1 DEF ElectionTypeOK
    <3>2. Majority({v \in Nodes : \E term \in 0 .. t : Voted(v, n, term)'})
      BY <1>4, <2>3, <3>1, NewElected
    <3>3. ASSUME NEW p \in leaders'
          PROVE  Majority({v \in Nodes : \E term \in 0 .. p[1] : Voted(v, p[2], term)'})
      <4>1. p \in leaders \/ p = <<t, n>>
        BY <2>3
      <4>2. CASE p \in leaders
        BY <1>4, <4>2, EarlierElected
      <4>3. CASE p = <<t, n>>
        BY <3>2, <4>3
      <4> QED
        BY <4>1, <4>2, <4>3
    <3>4. ElectedByMajority'
      BY <3>3, ZenonT(30) DEF ElectedByMajority, Majority
    <3> QED
      BY <2>1, <3>4
  <2> QED
    BY <1>4, <2>2, <2>3
<1>5. ASSUME NEW n \in Nodes, BecomeCandidate(n)
      PROVE  ElectedInv'
  <2>1. PICK t \in Nat : t = current_term[n] + 1
    BY <1>1
  <2> DEFINE m == [kind |-> "request", term |-> t, candidate |-> n]
  <2>2. messages' = messages \cup {m}
    BY <1>5, <2>1 DEF BecomeCandidate
  <2>3. AnswersFollow'
    BY <2>2 DEF ElectedInv, AnswersFollow
  <2>4. Voted(n, n, t)' /\ t \in 0 .. t
    <3>1. m \in messages' /\ m.candidate = n /\ m.kind = "request" /\ m.term = t
      BY <2>2
    <3> QED
      BY <3>1 DEF Voted
  <2>5. /\ current_term'[n] = t /\ votes_received'[n] = {n}
        /\ \A c \in Nodes : c # n => votes_received'[c] = votes_received[c]
        /\ \/ leaders' = leaders
           \/ Majority({n}) /\ leaders' = leaders \cup {<<t, n>>}
    BY <1>1, <1>5, <2>1 DEF BecomeCandidate, ElectionTypeOK
  <2>6. messages \subseteq messages'
    BY <2>2
  <2>7. \A v \in votes_received'[n] : \E term \in 0 .. t : Voted(v, n, term)'
    BY <2>4, <2>5
  <2>8. CountedWereVoted' /\ ElectedByMajority'
    BY <1>4, <2>5, <2>6, <2>7
  <2> QED
    BY <1>1, <2>3, <2>8 DEF ElectedInv
<1>6. ASSUME NEW n \in Nodes, NEW req \in messages, HandleVoteRequest(n, req)
      PROVE  ElectedInv'
  <2>0. PICK t : t = IF req.term > current_term[n] THEN req.term ELSE current_term[n]
    OBVIOUS
  <2>1. PICK b, c :
          messages' = messages \cup
            {[kind |-> "response", voter |-> n, candidate |-> c,
              asked |-> req.term, term |-> t, granted |-> b]}
    <3>1. messages' = messages \cup
            {[kind |-> "response", voter |-> n, candidate |-> req.candidate,
              asked |-> req.term, term |-> t, granted |-> Grants(n, req, t)]}
      BY <1>6, <2>0 DEF HandleVoteRequest
    <3> QED
      BY <3>1, Zenon
  <2>2. req.term \in Nat
    BY <1>1, <1>6, ElectionAssumption
       DEF HandleVoteRequest, ElectionTypeOK, VoteRequest, VoteResponse, Terms
  <2>3. req.term <= t
    BY <1>1, <2>0, <2>2
  <2>4. AnswersFollow'
    BY <2>1, <2>3 DEF ElectedInv, AnswersFollow
  <2>5. /\ messages \subseteq messages' /\ leaders' = leaders
        /\ \A d \in Nodes : votes_received'[d] \subseteq votes_received[d]
    BY <1>1, <1>6, <2>1 DEF HandleVoteRequest, ElectionTypeOK
  <2> QED
    BY <1>1, <1>2, <1>3, <2>4, <2>5 DEF ElectedInv
<1>7. ASSUME NEW n \in Nodes, NEW t, BecomeFollower(n, t), UNCHANGED <<messages, leaders>>
      PROVE  ElectedInv'
  <2>1. \A d \in Nodes : votes_received'[d] \subseteq votes_received[d]
    BY <1>1, <1>7 DEF BecomeFollower, ElectionTypeOK
  <2> QED
    BY <1>1, <1>2, <1>3, <1>7, <2>1 DEF ElectedInv, AnswersFollow
<1>8. ASSUME NEW n \in Nodes, NEW resp \in messages, HandleVoteResponse(n, resp)
      PROVE  ElectedInv'
  <2>1. CASE resp.term > current_term[n]
    BY <1>7, <1>8, <2>1 DEF HandleVoteResponse
  <2>2. CASE ~(resp.term > current_term[n])
    <3>1. /\ RecordVote(n, resp.voter, resp.granted) /\ messages' = messages
          /\ current_term' = current_term /\ resp.candidate = n
          /\ resp.kind = "response"
      BY <1>8, <2>2 DEF HandleVoteResponse
    <3>2. /\ resp.asked \in Nat /\ resp.term \in Nat /\ resp.asked <= resp.term
          /\ resp.granted \in BOOLEAN
      BY <1>1, <3>1, ElectionAssumption
         DEF ElectedInv, AnswersFollow, ElectionTypeOK, VoteRequest, VoteResponse, Terms
    <3>3. PICK t \in Nat : t = current_term[n]
      BY <1>1
    <3>4. resp.asked \in 0 .. t
      BY <2>2, <3>2, <3>3
    <3>5. resp.granted => Voted(resp.voter, n, resp.asked)'
      BY <3>1 DEF Voted
    <3>6. /\ \A c \in Nodes : c # n => votes_received'[c] = votes_received[c]
          /\ \A v \in votes_received'[n] :
               v \in votes_received[n] \/ (v = resp.voter /\ resp.granted)
          /\ \/ leaders' = leaders
             \/ Majority(votes_received'[n]) /\ leaders' = leaders \cup {<<t, n>>}
      BY <1>1, <3>1, <3>3 DEF RecordVote, ElectionTypeOK
    <3>7. \A v \in votes_received'[n] : \E term \in 0 .. t : Voted(v, n, term)'
      <4> SUFFICES ASSUME NEW v \in votes_received'[n]
                   PROVE  \E term \in 0 .. t : Voted(v, n, term)'
        OBVIOUS
      <4>1. t = current_term'[n] /\ messages \subseteq messages'
        BY <3>1, <3>3
      <4>2. CASE v \in votes_received[n]
        BY <1>1, <4>1, <4>2, CountedStay
      <4>3. CASE v = resp.voter /\ resp.granted
        BY <3>4, <3>5, <4>3
      <4> QED
        BY <3>6, <4>2, <4>3
    <3>8. CountedWereVoted' /\ ElectedByMajority'
      BY <1>4, <3>1, <3>3, <3>6, <3>7
    <3> QED
      BY <1>1, <3>1, <3>8 DEF ElectedInv, AnswersFollow
  <2> QED
    BY <2>1, <2>2
<1>9. CASE \E n, leader \in Nodes : HearLeader(n, leader)
  BY <1>7, <1>9 DEF HearLeader
<1>10. CASE UNCHANGED electionVars
  BY <1>1, <1>2, <1>3, <1>10 DEF electionVars, ElectedInv, AnswersFollow
<1> QED
  BY <1>5, <1>6, <1>8, <1>9, <1>10 DEF ElectionNext

(* Whatever the network delivers, nobody leads without the votes of a      *)
(* majority; and where late answers are dropped and nobody steps down      *)
(* within a term, a term has one leader.                                   *)
THEOREM OneLeader == ElectionSpec => []OneLeaderByMajority
<1>1. ElectionInit => ElectedInv
  <2> SUFFICES ASSUME ElectionInit PROVE ElectedInv
    OBVIOUS
  <2>1. ElectionTypeOK
    BY ElectionInitEstablishes DEF FreshInv
  <2> QED
    BY <2>1 DEF ElectionInit, ElectedInv, AnswersFollow, CountedWereVoted, ElectedByMajority
<1>2. ElectedInv /\ [ElectionNext]_electionVars => ElectedInv'
  BY ElectedStep
<1>3. ElectedInv => ElectedByMajority
  BY DEF ElectedInv
<1> QED
  BY <1>1, <1>2, <1>3, OneLeaderPerTerm, PTL DEF ElectionSpec, OneLeaderByMajority

-----------------------------------------------------------------------------
(* The write-ahead log. *)

(* What the file is made of, and the state of a thread. *)
Item == [kind : {"entry", "newline", "fragment"}, n : Nat, seq : Nat]
Writing == [at : {"idle", "numbered", "written", "ended", "truncated"},
            entry : Item, alone : BOOLEAN]

(* An entry that starts a line, and one that has a line for itself. *)
Starts(f, i) ==
  /\ i \in 1 .. Len(f)
  /\ f[i].kind = "entry"
  /\ i = 1 \/ f[i - 1] = Newline
Whole(f, i) == Starts(f, i) /\ i < Len(f) /\ f[i + 1] = Newline

(* The second entry is numbered after the first, or they overlapped. *)
Apart(o, x, y) == x.seq < y.seq \/ (x.seq # y.seq /\ {x.n, y.n} \in o)

WalType ==
  /\ file \in Seq(Item)
  /\ synced \in 0 .. Len(file)
  /\ next_seq \in Nat
  /\ thread \in [Threads -> Writing]
  /\ \A t \in Threads : thread[t].at \in Appending => thread[t].entry.kind = "entry"
  /\ appends \in Nat

(* A replay reads the entry e; it has a line for itself; and that line is  *)
(* in the part of the file that was synced.                                *)
Read(f, e) == \E i \in ReadAll(f) : f[i] = e
Lined(f, e) == \E i \in 1 .. Len(f) : Whole(f, i) /\ f[i] = e
Durable(f, k, e) == \E i \in 1 .. Len(f) : Whole(f, i) /\ i < k /\ f[i] = e

(* What became of the entries that had a line for themselves. *)
KeptInv ==
  /\ \A e \in intact : Durable(file, synced, e)
  /\ \A t \in Threads : thread[t].alone =>
       /\ thread[t].at = "written" => Read(file, thread[t].entry)
       /\ thread[t].at = "ended" => Lined(file, thread[t].entry)

(* The numbers of the lines of a file.  An entry that starts a line may    *)
(* become the last one of the file, and be read, when a crash cuts off     *)
(* what follows it.                                                        *)
LinesInOrder(f, o) ==
  \A i, j \in 1 .. Len(f) : i < j /\ Whole(f, i) /\ Starts(f, j) => Apart(o, f[i], f[j])

(* The numbers of the lines that are read, of the appends that have yet to *)
(* write, and the next one.                                                *)
OrderInv ==
  /\ LinesInOrder(file, overlaps)
  /\ \A i \in ReadAll(file) : file[i].seq < next_seq
  /\ \A t \in Threads : thread[t].at = "numbered" =>
       /\ thread[t].entry.seq < next_seq
       /\ \A i \in ReadAll(file) : Apart(overlaps, file[i], thread[t].entry)
       /\ \A u \in Threads : thread[u].at = "numbered" /\ t # u =>
            /\ thread[t].entry.seq # thread[u].entry.seq
            /\ {thread[t].entry.n, thread[u].entry.n} \in overlaps
  /\ \A t \in Threads : thread[t].at = "truncated" =>
       file = <<>> /\ \A u \in Threads : u # t => thread[u].at = "idle"

WalInv == WalType /\ KeptInv /\ (~raced => OrderInv)

-----------------------------------------------------------------------------
(* What a replay reads, line by line. *)
LEMMA ReadLines ==
  ASSUME NEW f, NEW i
  PROVE  i \in ReadAll(f) <=> Starts(f, i) /\ (i = Len(f) \/ f[i + 1] = Newline)
BY DEF ReadAll, Starts

(* File g is file f, of n items, and item x after it: how their lines     *)
(* compare.                                                               *)
Grown(f, n, x, g) ==
  /\ g \in Seq(Item) /\ Len(g) = n + 1 /\ g[n + 1] = x
  /\ \A i \in 1 .. n : g[i] = f[i]
  /\ \A i : Starts(f, i) => Starts(g, i)
  /\ \A i : Starts(g, i) => Starts(f, i) \/ i = n + 1
  /\ \A i : Whole(f, i) => Whole(g, i)
  /\ \A i : Whole(g, i) => i \in ReadAll(f)
  /\ \A i \in ReadAll(g) : i \in ReadAll(f) \/ i = n + 1
  /\ x = Newline => \A i \in ReadAll(f) : Whole(g, i)
  /\ x.kind = "entry" /\ (f = <<>> \/ f[n] = Newline) => n + 1 \in ReadAll(g)
  /\ x.kind # "entry" => ~Starts(g, n + 1)

(* One more write. *)
LEMMA ReadAppend ==
  ASSUME NEW f \in Seq(Item), NEW x \in Item, NEW g, g = Append(f, x),
         NEW n \in Nat, n = Len(f)
  PROVE  Grown(f, n, x, g)
<1>1. n = Len(f)
  OBVIOUS
<1>2. /\ g \in Seq(Item) /\ Len(g) = n + 1 /\ g[n + 1] = x
      /\ \A i \in 1 .. n : g[i] = f[i]
  BY <1>1
<1>3. \A i : Starts(f, i) <=> /\ i \in 1 .. n /\ f[i].kind = "entry"
                              /\ i = 1 \/ f[i - 1] = Newline
  BY <1>1 DEF Starts
<1>4. \A i : Starts(g, i) <=> /\ i \in 1 .. (n + 1) /\ g[i].kind = "entry"
                              /\ i = 1 \/ g[i - 1] = Newline
  BY <1>2 DEF Starts
<1>5. \A i \in 1 .. n : Starts(f, i) <=> Starts(g, i)
  <2> SUFFICES ASSUME NEW i \in 1 .. n PROVE Starts(f, i) <=> Starts(g, i)
    OBVIOUS
  <2>1. CASE i = 1
    BY <1>2, <1>3, <1>4, <2>1
  <2>2. CASE i # 1
    <3>1. i - 1 \in 1 .. n /\ i \in 1 .. (n + 1)
      BY <2>2
    <3>2. g[i - 1] = f[i - 1] /\ g[i] = f[i]
      BY <1>2, <3>1
    <3> QED
      BY <1>3, <1>4, <3>1, <3>2
  <2> QED
    BY <2>1, <2>2
<1>6. \A i : Starts(g, i) => i \in 1 .. n \/ i = n + 1
  BY <1>4
<1>7. \A i : Starts(f, i) => i \in 1 .. n
  BY <1>3
<1>8. \A i : Whole(f, i) <=> Starts(f, i) /\ i < n /\ f[i + 1] = Newline
  BY <1>1 DEF Whole
<1>9. \A i : Whole(g, i) <=> Starts(g, i) /\ i < n + 1 /\ g[i + 1] = Newline
  BY <1>2 DEF Whole
<1>10. \A i : i \in ReadAll(f) <=> Starts(f, i) /\ (i = n \/ f[i + 1] = Newline)
  BY <1>1, ReadLines
<1>11. \A i : i \in ReadAll(g) <=> Starts(g, i) /\ (i = n + 1 \/ g[i + 1] = Newline)
  BY <1>2, ReadLines, ZenonT(30)
<1>12. ASSUME NEW i, Whole(f, i) PROVE Whole(g, i)
  <2>1. i \in 1 .. n /\ i < n /\ i + 1 \in 1 .. n
    BY <1>7, <1>8, <1>12
  <2> QED
    BY <1>2, <1>5, <1>8, <1>9, <1>12, <2>1
<1>13. ASSUME NEW i \in 1 .. n, Starts(g, i), g[i + 1] = Newline PROVE i \in ReadAll(f)
  <2>1. CASE i = n
    BY <1>5, <1>10, <1>13, <2>1
  <2>2. CASE i # n
    <3>1. i + 1 \in 1 .. n
      BY <2>2
    <3> QED
      BY <1>2, <1>5, <1>10, <1>13, <3>1
  <2> QED
    BY <2>1, <2>2
<1>14. ASSUME NEW i, Whole(g, i) PROVE i \in ReadAll(f)
  <2>1. Starts(g, i) /\ i < n + 1 /\ g[i + 1] = Newline
    BY <1>9, <1>14, ZenonT(30)
  <2>2. i \in 1 .. n
    BY <1>6, <2>1
  <2> QED
    BY <1>13, <2>1, <2>2
<1>15. ASSUME NEW i \in ReadAll(g) PROVE i \in ReadAll(f) \/ i = n + 1
  <2>1. Starts(g, i) /\ (i = n + 1 \/ g[i + 1] = Newline)
    BY <1>11, <1>15, ZenonT(30)
  <2> QED
    BY <1>6, <1>13, <2>1
<1>16. ASSUME NEW i \in ReadAll(f), x = Newline PROVE Whole(g, i)
  <2>1. Starts(f, i) /\ (i = n \/ f[i + 1] = Newline) /\ i \in 1 .. n
    BY <1>7, <1>10, <1>16
  <2>2. Starts(g, i)
    BY <1>5, <2>1
  <2>3. CASE i = n
    BY <1>2, <1>9, <1>16, <2>2, <2>3
  <2>4. CASE i # n
    <3>1. i + 1 \in 1 .. n /\ i < n + 1
      BY <2>1, <2>4
    <3> QED
      BY <1>2, <1>9, <2>1, <2>2, <2>4, <3>1
  <2> QED
    BY <2>3, <2>4
<1>17. ASSUME x.kind = "entry", f = <<>> \/ f[n] = Newline PROVE n + 1 \in ReadAll(g)
  <2>1. Starts(g, n + 1)
    <3>1. CASE f = <<>>
      <4>1. n = 0
        BY <1>1, <3>1
      <4> QED
        BY <1>2, <1>4, <1>17, <4>1
    <3>2. CASE f # <<>>
      <4>1. n # 0
        BY <1>1, <3>2, EmptySeq
      <4>2. n \in 1 .. n /\ n + 1 \in 1 .. (n + 1) /\ (n + 1) - 1 = n
        BY <4>1
      <4>3. g[(n + 1) - 1] = Newline
        BY <1>2, <1>17, <3>2, <4>2
      <4> QED
        BY <1>2, <1>4, <1>17, <4>2, <4>3
    <3> QED
      BY <3>1, <3>2
  <2> QED
    BY <1>11, <2>1
<1>18. x.kind # "entry" => ~Starts(g, n + 1)
  BY <1>2, <1>4
<1> QED
  BY <1>1, <1>2, <1>5, <1>6, <1>7, <1>12, <1>14, <1>15, <1>16, <1>17, <1>18 DEF Grown

(* Files that begin alike have the same lines there. *)
LEMMA ReadAlike ==
  ASSUME NEW f \in Seq(Item), NEW g \in Seq(Item), NEW k \in Nat,
         k <= Len(f), k <= Len(g), \A i \in 1 .. k : f[i] = g[i]
  PROVE  /\ \A i \in 1 .. k : Starts(f, i) <=> Starts(g, i)
         /\ \A i \in 1 .. k : i < k => (Whole(f, i) <=> Whole(g, i))
<1>1. PICK m \in Nat, n \in Nat : m = Len(f) /\ n = Len(g)
  OBVIOUS
<1>2. k <= m /\ k <= n
  BY <1>1
<1>3. \A i : Starts(f, i) <=> /\ i \in 1 .. m /\ f[i].kind = "entry"
                              /\ i = 1 \/ f[i - 1] = Newline
  BY <1>1 DEF Starts
<1>4. \A i : Starts(g, i) <=> /\ i \in 1 .. n /\ g[i].kind = "entry"
                              /\ i = 1 \/ g[i - 1] = Newline
  BY <1>1 DEF Starts
<1>5. ASSUME NEW i \in 1 .. k PROVE Starts(f, i) <=> Starts(g, i)
  <2>1. i \in 1 .. m /\ i \in 1 .. n
    BY <1>2
  <2>2. CASE i = 1
    BY <1>3, <1>4, <2>1, <2>2
  <2>3. CASE i # 1
    <3>1. i - 1 \in 1 .. k
      BY <2>3
    <3> QED
      BY <1>3, <1>4, <2>1, <3>1
  <2> QED
    BY <2>2, <2>3
<1>6. ASSUME NEW i \in 1 .. k, i < k PROVE Whole(f, i) <=> Whole(g, i)
  <2>1. i + 1 \in 1 .. k /\ i < m /\ i < n
    BY <1>2, <1>6
  <2> QED
    BY <1>1, <1>5, <2>1 DEF Whole
<1> QED
  BY <1>5, <1>6

(* What a crash of the machine leaves of a file. *)
Torn(f, h, k) ==
  /\ h \in Seq(Item) /\ k <= Len(h)
  /\ \A i : Starts(h, i) => Starts(f, i) /\ h[i] = f[i]
  /\ \A i : Whole(h, i) => Whole(f, i)
  /\ \A i : Whole(f, i) /\ i < k => Whole(h, i) /\ h[i] = f[i]

(* A prefix of the file, cut after a write or in the middle of one. *)
LEMMA TearIsTorn ==
  ASSUME NEW f \in Seq(Item), NEW s \in Nat, NEW k \in s .. Len(f), NEW h,
         \/ h = SubSeq(f, 1, k)
         \/ k < Len(f) /\ h = Append(SubSeq(f, 1, k), Fragment)
  PROVE  Torn(f, h, s)
<1>1. PICK n \in Nat : n = Len(f)
  OBVIOUS
<1>2. k \in Nat /\ k <= n /\ s <= k
  BY <1>1
<1>3. PICK g : g = SubSeq(f, 1, k)
  BY ZenonT(30)
<1>4. g \in Seq(Item) /\ Len(g) = k /\ \A i \in 1 .. k : g[i] = f[i]
  BY <1>1, <1>2, <1>3
<1>5. Fragment \in Item /\ Fragment # Newline /\ Fragment.kind # "entry"
  BY DEF Fragment, Newline, Item
<1>6. PICK m \in Nat : m = Len(h)
  BY <1>3, <1>4, <1>5
<1>7. /\ h \in Seq(Item) /\ k <= m /\ m <= k + 1
      /\ \A i \in 1 .. k : h[i] = f[i]
      /\ m = k + 1 => h[k + 1] = Fragment
  <2>1. CASE h = g
    BY <1>2, <1>4, <1>6, <2>1
  <2>2. CASE h = Append(g, Fragment)
    BY <1>2, <1>4, <1>5, <1>6, <2>2
  <2> QED
    BY <1>3, <2>1, <2>2
<1>8. /\ \A i \in 1 .. k : Starts(f, i) <=> Starts(h, i)
      /\ \A i \in 1 .. k : i < k => (Whole(f, i) <=> Whole(h, i))
  BY <1>1, <1>2, <1>6, <1>7, ReadAlike
<1>9. ASSUME NEW i, Starts(h, i) PROVE i \in 1 .. k
  <2>1. i \in 1 .. m /\ h[i].kind = "entry"
    BY <1>6, <1>9 DEF Starts
  <2>2. i # k + 1
    BY <1>5, <1>7, <2>1
  <2> QED
    BY <1>2, <1>7, <2>1, <2>2
<1>10. ASSUME NEW i, Whole(h, i) PROVE Whole(f, i)
  <2>1. i \in 1 .. k /\ i < m /\ h[i + 1] = Newline
    BY <1>6, <1>9, <1>10 DEF Whole
  <2>2. i + 1 # k + 1 \/ m # k + 1
    BY <1>5, <1>7, <2>1
  <2>3. i < k
    BY <1>2, <1>7, <2>1, <2>2
  <2> QED
    BY <1>8, <1>10, <2>1, <2>3
<1>11. ASSUME NEW i, Whole(f, i), i < s PROVE Whole(h, i) /\ h[i] = f[i]
  <2>1. i \in 1 .. n
    BY <1>1, <1>11 DEF Whole, Starts
  <2>2. i \in 1 .. k /\ i < k
    BY <1>2, <1>11, <2>1
  <2> QED
    BY <1>7, <1>8, <1>11, <2>2
<1>12. s <= m
  BY <1>2, <1>7
<1> QED
  BY <1>6, <1>7, <1>8, <1>9, <1>10, <1>11, <1>12 DEF Torn

-----------------------------------------------------------------------------
(* A set of natural numbers has a least element. *)
LEMMA LeastOf ==
  ASSUME NEW T \in SUBSET Nat, T # {}
  PROVE  \E n \in T : \A m \in T : n <= m
<1>1. PICK R : R = OpToRel(<, Nat)
  BY ZenonT(30)
<1>2. \E x \in T : \A y \in T : ~ (<<y, x>> \in R)
  BY <1>1, NatLessThanWellFounded, WFMin, ZenonT(30)
<1>3. \A x, y \in Nat : <<y, x>> \in R <=> y < x
  BY <1>1 DEF OpToRel
<1>4. PICK n \in T : \A m \in T : ~ (<<m, n>> \in R)
  BY <1>2
<1>5. ASSUME NEW m \in T PROVE n <= m
  <2>1. n \in Nat /\ m \in Nat
    OBVIOUS
  <2>2. ~ (m < n)
    BY <1>3, <1>4, <2>1, ZenonT(30)
  <2> QED
    BY <2>1, <2>2
<1> QED
  BY <1>5

(* The numbers of a file are bounded: else there is a least prefix whose   *)
(* numbers are not.                                                        *)
LEMMA NumbersAreBounded ==
  ASSUME NEW f \in Seq(Item)
  PROVE  \E b \in Nat : \A i \in 1 .. Len(f) : f[i].seq <= b
<1>1. PICK n \in Nat : n = Len(f)
  OBVIOUS
<1>2. ASSUME NEW i \in 1 .. n PROVE f[i].seq \in Nat
  <2>1. f[i] \in Item
    BY <1>1
  <2> QED
    BY <2>1 DEF Item
<1>3. PICK T : T = {k \in 0 .. n : ~ \E b \in Nat : \A i \in 1 .. k : f[i].seq <= b}
  BY ZenonT(30)
<1>4. T \in SUBSET Nat
  <2>1. \A k \in T : k \in 0 .. n
    BY <1>3, Zenon
  <2> QED
    BY <2>1
<1>5. T = {}
  <2>1. SUFFICES ASSUME T # {} PROVE FALSE
    OBVIOUS
  <2>2. PICK k \in T : \A m \in T : k <= m
    BY <1>4, <2>1, LeastOf
  <2>3. k \in 0 .. n /\ ~ \E b \in Nat : \A i \in 1 .. k : f[i].seq <= b
    BY <1>3
  <2>4. k # 0
    <3>1. CASE k = 0
      <4>1. \A i \in 1 .. k : f[i].seq <= 0
        BY <3>1
      <4> QED
        BY <2>3, <4>1
    <3> QED
      BY <3>1
  <2>5. k - 1 \in 0 .. n /\ ~ (k <= k - 1) /\ k \in 1 .. n
    BY <2>3, <2>4
  <2>6. k - 1 \notin T
    BY <2>2, <2>5
  <2>7. PICK b \in Nat : \A i \in 1 .. (k - 1) : f[i].seq <= b
    BY <1>3, <2>5, <2>6
  <2>8. PICK c \in Nat : c = f[k].seq
    BY <1>2, <2>5
  <2>9. b + c \in Nat /\ \A i \in 1 .. k : f[i].seq <= b + c
    <3>1. ASSUME NEW i \in 1 .. k PROVE f[i].seq <= b + c
      <4>1. PICK d \in Nat : d = f[i].seq
        BY <1>2, <2>5
      <4>2. i = k \/ i \in 1 .. (k - 1)
        BY <2>3
      <4>3. d <= b \/ d = c
        BY <2>7, <2>8, <4>1, <4>2
      <4> QED
        BY <4>1, <4>3
    <3> QED
      BY <3>1
  <2> QED
    BY <2>3, <2>9, ZenonT(30)
<1>6. n \in 0 .. n
  OBVIOUS
<1>7. n \notin T
  BY <1>5
<1> QED
  BY <1>1, <1>3, <1>6, <1>7

(* open: the next number is above every number that a replay sees. *)
LEMMA NextSeqIsAbove ==
  ASSUME NEW f \in Seq(Item)
  PROVE  NextSeq(f) \in Nat /\ \A i \in ReadAll(f) : f[i].seq < NextSeq(f)
<1>1. PICK S : S = {0} \cup {f[i].seq : i \in ReadAll(f)}
  BY ZenonT(30)
<1>2. \A i \in ReadAll(f) : i \in 1 .. Len(f) /\ f[i] \in Item
  BY DEF ReadAll
<1>3. S \in SUBSET Nat /\ 0 \in S
  BY <1>1, <1>2 DEF Item
<1>4. PICK b \in Nat : \A i \in 1 .. Len(f) : f[i].seq <= b
  BY NumbersAreBounded
<1>5. \A y \in S : y <= b
  BY <1>1, <1>2, <1>4
<1>6. PICK T : T = {c \in Nat : \A y \in S : y <= c}
  BY ZenonT(30)
<1>7. T \in SUBSET Nat /\ b \in T
  BY <1>5, <1>6
<1>8. PICK m \in T : \A c \in T : m <= c
  BY <1>7, LeastOf
<1>9. m \in Nat /\ \A y \in S : y <= m
  BY <1>6
<1>10. m \in S
  <2>1. SUFFICES ASSUME m \notin S PROVE FALSE
    OBVIOUS
  <2>2. m # 0
    BY <1>3, <2>1
  <2>3. m - 1 \in Nat /\ ~ (m <= m - 1)
    BY <1>9, <2>2
  <2>4. \A y \in S : y <= m - 1
    BY <1>3, <1>9, <2>1
  <2>5. m - 1 \in T
    BY <1>6, <2>3, <2>4
  <2> QED
    BY <1>8, <2>3, <2>5
<1>11. \A y \in S : m >= y
  BY <1>3, <1>9
<1>12. Max(S) \in S /\ \A y \in S : Max(S) >= y
  BY <1>10, <1>11 DEF Max
<1>13. PICK x \in Nat : x = Max(S)
  BY <1>3, <1>12, ZenonT(30)
<1>14. NextSeq(f) = x + 1
  BY <1>1, <1>13 DEF NextSeq
<1>15. ASSUME NEW i \in ReadAll(f) PROVE f[i].seq < x + 1
  <2>1. f[i].seq \in S /\ f[i].seq \in Nat
    BY <1>1, <1>3
  <2> QED
    BY <1>12, <1>13, <2>1
<1> QED
  BY <1>14, <1>15

-----------------------------------------------------------------------------
(* What a step of thread t leaves of the others: where they are and what   *)
(* they write.                                                             *)
Others(t) ==
  \A u \in Threads : u # t =>
    /\ thread'[u].at = thread[u].at /\ thread'[u].entry = thread[u].entry
    /\ thread'[u].alone => thread[u].alone

(* Whoever was in the middle of a line is not alone on it after the step.  *)
Disturbing(t) ==
  \A u \in Threads : u # t /\ thread'[u].at = "written" => ~thread'[u].alone

(* Thread t comes to be at `at`, with the entry e. *)
Becomes(t, at, e) ==
  /\ thread' \in [Threads -> Writing]
  /\ thread'[t].at = at /\ thread'[t].entry = e
  /\ Others(t)

(* A thread at rest. *)
LEMMA RestingIsTyped ==
  Resting \in Writing /\ Resting.at = "idle" /\ Resting.entry = Newline /\ Newline \in Item
BY DEF Resting, Writing, Newline, Item

(* append takes a number: the thread holds its entry, and has written     *)
(* nothing.                                                                *)
LEMMA TakeMoves ==
  ASSUME WalType, NEW t \in Threads, TakeSeq(t)
  PROVE  Becomes(t, "numbered", Entry(appends + 1, next_seq)) /\ ~thread'[t].alone
<1>1. PICK e : e = Entry(appends + 1, next_seq)
  OBVIOUS
<1>2. e \in Item
  BY <1>1 DEF WalType, Entry, Item
<1>3. PICK w : w = [at |-> "numbered", entry |-> e, alone |-> FALSE]
  BY ZenonT(30)
<1>4. w \in Writing /\ w.at = "numbered" /\ w.entry = e /\ ~w.alone
  BY <1>2, <1>3 DEF Writing
<1>5. thread' = [thread EXCEPT ![t] = w] /\ thread \in [Threads -> Writing]
  BY <1>1, <1>3 DEF TakeSeq, WalType
<1> QED
  BY <1>1, <1>4, <1>5 DEF Becomes, Others

(* The threads d after thread t wrote and went to `at`. *)
Disturbs(d, t, at) ==
  /\ d \in [Threads -> Writing]
  /\ d[t].at = at /\ d[t].entry = thread[t].entry /\ d[t].alone = EndsLine
  /\ \A u \in Threads : u # t =>
       /\ d[u].at = thread[u].at /\ d[u].entry = thread[u].entry
       /\ d[u].alone => thread[u].alone
       /\ d[u].at = "written" => ~d[u].alone

(* The threads after one of them wrote. *)
LEMMA DisturbedIs ==
  ASSUME WalType, NEW t \in Threads, NEW at \in {"idle", "written"}, NEW d, d = Disturbed(t, at)
  PROVE  Disturbs(d, t, at)
<1>1. thread \in [Threads -> Writing] /\ EndsLine \in BOOLEAN
  BY DEF WalType, EndsLine
<1>2. ASSUME NEW u \in Threads
      PROVE  /\ d[u] \in Writing
             /\ u = t => d[t].at = at /\ d[t].entry = thread[t].entry /\ d[t].alone = EndsLine
             /\ u # t => /\ d[u].at = thread[u].at /\ d[u].entry = thread[u].entry
                         /\ d[u].alone => thread[u].alone
                         /\ d[u].at = "written" => ~d[u].alone
  <2>1. PICK w \in Writing : w = thread[u]
    BY <1>1
  <2>2. d[u] = IF u = t THEN [w EXCEPT !.at = at, !.alone = EndsLine]
               ELSE IF w.at = "written" THEN [w EXCEPT !.alone = FALSE] ELSE w
    BY <2>1, ZenonT(30) DEF Disturbed
  <2>3. CASE u = t
    <3>1. PICK b \in BOOLEAN : b = EndsLine
      BY <1>1
    <3>2. d[u] = [w EXCEPT !.at = at, !.alone = b]
      BY <2>2, <2>3, <3>1
    <3> QED
      BY <2>1, <2>3, <3>1, <3>2, ZenonT(30) DEF Writing
  <2>4. CASE u # t /\ w.at = "written"
    BY <2>1, <2>2, <2>4, ZenonT(30) DEF Writing
  <2>5. CASE u # t /\ w.at # "written"
    BY <2>1, <2>2, <2>5 DEF Writing
  <2> QED
    BY <2>3, <2>4, <2>5, ZenonT(30)
<1>3. d = [u \in Threads |-> d[u]]
  BY DEF Disturbed
<1>4. d \in [Threads -> Writing]
  BY <1>2, <1>3
<1> QED
  BY <1>2, <1>4 DEF Disturbs

(* append writes the entry: it is alone on its line if it starts one, and  *)
(* nobody else is any more who is in the middle of a line.                 *)
LEMMA WriteMoves ==
  ASSUME WalType, NEW t \in Threads, WriteEntry(t)
  PROVE  /\ Becomes(t, "written", thread[t].entry) /\ Disturbing(t)
         /\ thread'[t].alone => EndsLine
<1>1. thread' = Disturbed(t, "written")
  BY ZenonT(30) DEF WriteEntry
<1>2. PICK d : d = Disturbed(t, "written")
  OBVIOUS
<1>0. Disturbs(d, t, "written")
  BY <1>2, DisturbedIs
<1>3. /\ d \in [Threads -> Writing]
      /\ d[t].at = "written" /\ d[t].entry = thread[t].entry /\ d[t].alone = EndsLine
      /\ \A u \in Threads : u # t =>
           /\ d[u].at = thread[u].at /\ d[u].entry = thread[u].entry
           /\ d[u].alone => thread[u].alone
           /\ d[u].at = "written" => ~d[u].alone
  BY <1>0 DEF Disturbs
<1>4. thread' = d
  BY <1>1, <1>2
<1> QED
  BY <1>3, <1>4 DEF Becomes, Others, Disturbing

(* append writes the newline. *)
LEMMA NewlineMoves ==
  ASSUME WalType, NEW t \in Threads, WriteNewline(t)
  PROVE  /\ Becomes(t, "ended", thread[t].entry)
         /\ thread'[t].alone => thread[t].alone
<1>1. PICK w \in Writing : w = thread[t]
  BY DEF WalType
<1>2. thread' = [thread EXCEPT ![t] = [w EXCEPT !.at = "ended"]]
  BY <1>1 DEF WriteNewline
<1>3. PICK x : x = [w EXCEPT !.at = "ended"]
  BY ZenonT(30)
<1>4. x \in Writing /\ x.at = "ended" /\ x.entry = w.entry /\ x.alone = w.alone
  BY <1>3 DEF Writing
<1>5. thread' = [thread EXCEPT ![t] = x] /\ thread \in [Threads -> Writing]
  BY <1>2, <1>3 DEF WalType
<1> QED
  BY <1>1, <1>4, <1>5 DEF Becomes, Others

(* append or truncate returns. *)
LEMMA RestMoves ==
  ASSUME WalType, NEW t \in Threads, thread' = [thread EXCEPT ![t] = Resting]
  PROVE  Becomes(t, "idle", Newline)
<1>1. thread \in [Threads -> Writing]
  BY DEF WalType
<1> QED
  BY <1>1, RestingIsTyped DEF Becomes, Others

(* The write of an entry fails in the middle. *)
LEMMA FragmentMoves ==
  ASSUME WalType, NEW t \in Threads, thread' = [Disturbed(t, "idle") EXCEPT ![t] = Resting]
  PROVE  Becomes(t, "idle", Newline) /\ Disturbing(t)
<1>1. PICK d : d = Disturbed(t, "idle")
  OBVIOUS
<1>0. Disturbs(d, t, "idle")
  BY <1>1, DisturbedIs
<1>2. /\ d \in [Threads -> Writing]
      /\ \A u \in Threads : u # t =>
           /\ d[u].at = thread[u].at /\ d[u].entry = thread[u].entry
           /\ d[u].alone => thread[u].alone
           /\ d[u].at = "written" => ~d[u].alone
  BY <1>0 DEF Disturbs
<1>3. thread' = [d EXCEPT ![t] = Resting]
  BY <1>1
<1> QED
  BY <1>2, <1>3, RestingIsTyped, ZenonT(30) DEF Becomes, Others, Disturbing

(* truncate empties the file: nobody has a line any more. *)
LEMMA TruncateMoves ==
  ASSUME WalType, NEW t \in Threads, TruncateFile(t)
  PROVE  Becomes(t, "truncated", Newline) /\ \A u \in Threads : ~thread'[u].alone
<1>1. PICK d : d = [u \in Threads |-> IF u = t THEN [Resting EXCEPT !.at = "truncated"]
                                      ELSE [thread[u] EXCEPT !.alone = FALSE]]
  BY ZenonT(30)
<1>2. thread' = d
  BY <1>1 DEF TruncateFile
<1>3. ASSUME NEW u \in Threads
      PROVE  /\ d[u] \in Writing /\ ~d[u].alone
             /\ u = t => d[t].at = "truncated" /\ d[t].entry = Newline
             /\ u # t => d[u].at = thread[u].at /\ d[u].entry = thread[u].entry
  <2>1. PICK w \in Writing : w = thread[u]
    BY DEF WalType
  <2>2. CASE u = t
    <3>1. d[u] = [Resting EXCEPT !.at = "truncated"]
      BY <1>1, <2>2
    <3> QED
      BY <2>2, <3>1, RestingIsTyped, ZenonT(30) DEF Resting, Writing
  <2>3. CASE u # t
    <3>1. d[u] = [w EXCEPT !.alone = FALSE]
      BY <1>1, <2>1, <2>3
    <3> QED
      BY <2>1, <2>3, <3>1, ZenonT(30) DEF Writing
  <2> QED
    BY <2>2, <2>3
<1>4. d = [u \in Threads |-> d[u]]
  BY <1>1
<1>5. d \in [Threads -> Writing]
  BY <1>3, <1>4
<1> QED
  BY <1>2, <1>3, <1>5 DEF Becomes, Others

(* The machine's crash, as the one file it leaves. *)
LEMMA MachineLeaves ==
  ASSUME WalType, CrashMachine
  PROVE  \E h \in Seq(Item) : Torn(file, h, synced) /\ Reopened(h) /\ synced' = Len(h)
<1>1. PICK kept \in synced .. Len(file) :
        \E f \in {SubSeq(file, 1, kept)} \cup
             {Append(SubSeq(file, 1, i), Fragment) :
                i \in {j \in {kept} : j < Len(file) /\ file[j + 1] # Newline}} :
          Reopened(f) /\ synced' = Len(f)
  BY DEF CrashMachine
<1>2. PICK f : /\ \/ f = SubSeq(file, 1, kept)
                  \/ kept < Len(file) /\ f = Append(SubSeq(file, 1, kept), Fragment)
               /\ Reopened(f) /\ synced' = Len(f)
  BY <1>1
<1>3. file \in Seq(Item) /\ synced \in Nat
  BY DEF WalType
<1>4. Torn(file, f, synced)
  BY <1>2, <1>3, TearIsTorn
<1> QED
  BY <1>2, <1>4 DEF Torn

(* An append's thread has an entry to write. *)
LEMMA EntriesStep ==
  ASSUME WalType, NEW t \in Threads, NEW at, NEW e, Becomes(t, at, e),
         at \in Appending => e.kind = "entry"
  PROVE  /\ thread' \in [Threads -> Writing]
         /\ \A u \in Threads : thread'[u].at \in Appending => thread'[u].entry.kind = "entry"
BY DEF WalType, Becomes, Others

(* Every step of wal.rs and every crash keep the types. *)
LEMMA WalTypeStep ==
  ASSUME WalType, [WalNext]_walVars
  PROVE  WalType'
<1> USE DEF Appending
<1>1. ASSUME NEW t \in Threads, TakeSeq(t) PROVE WalType'
  <2>1. Entry(appends + 1, next_seq).kind = "entry"
    BY DEF Entry
  <2>2. /\ thread' \in [Threads -> Writing]
        /\ \A u \in Threads : thread'[u].at \in Appending => thread'[u].entry.kind = "entry"
    BY <1>1, <2>1, TakeMoves, EntriesStep
  <2>3. UNCHANGED <<file, synced>> /\ next_seq' = next_seq + 1 /\ appends' = appends + 1
    BY <1>1 DEF TakeSeq
  <2> QED
    BY <2>2, <2>3 DEF WalType
<1>2. ASSUME NEW x \in Item, file' = Append(file, x), UNCHANGED <<synced, next_seq, appends>>
      PROVE  /\ file' \in Seq(Item) /\ synced' \in 0 .. Len(file')
             /\ next_seq' \in Nat /\ appends' \in Nat
  <2>1. PICK n \in Nat : n = Len(file) /\ synced \in 0 .. n
    BY DEF WalType
  <2>2. file' \in Seq(Item) /\ Len(file') = n + 1
    BY <1>2, <2>1 DEF WalType
  <2> QED
    BY <1>2, <2>1, <2>2 DEF WalType
<1>3. \A t \in Threads : thread[t].at \in Appending =>
        thread[t].entry \in Item /\ thread[t].entry.kind = "entry"
  <2>1. ASSUME NEW t \in Threads PROVE thread[t].entry \in Item
    <3>1. thread[t] \in Writing
      BY DEF WalType
    <3> QED
      BY <3>1 DEF Writing
  <2> QED
    BY <2>1 DEF WalType
<1>4. ASSUME NEW t \in Threads, WriteEntry(t) PROVE WalType'
  <2>1. thread[t].entry \in Item /\ thread[t].entry.kind = "entry"
    BY <1>3, <1>4 DEF WriteEntry
  <2>2. /\ thread' \in [Threads -> Writing]
        /\ \A u \in Threads : thread'[u].at \in Appending => thread'[u].entry.kind = "entry"
    BY <1>4, <2>1, WriteMoves, EntriesStep
  <2>3. file' = Append(file, thread[t].entry) /\ UNCHANGED <<synced, next_seq, appends>>
    BY <1>4 DEF WriteEntry
  <2> QED
    BY <1>2, <2>1, <2>2, <2>3 DEF WalType
<1>5. ASSUME NEW t \in Threads, WriteNewline(t) PROVE WalType'
  <2>1. thread[t].entry.kind = "entry"
    BY <1>3, <1>5 DEF WriteNewline
  <2>2. /\ thread' \in [Threads -> Writing]
        /\ \A u \in Threads : thread'[u].at \in Appending => thread'[u].entry.kind = "entry"
    BY <1>5, <2>1, NewlineMoves, EntriesStep
  <2>3. file' = Append(file, Newline) /\ UNCHANGED <<synced, next_seq, appends>>
    BY <1>5 DEF WriteNewline
  <2> QED
    BY <1>2, <2>2, <2>3, RestingIsTyped DEF WalType
<1>6. ASSUME NEW t \in Threads, Becomes(t, "idle", Newline)
      PROVE  /\ thread' \in [Threads -> Writing]
             /\ \A u \in Threads : thread'[u].at \in Appending => thread'[u].entry.kind = "entry"
  <2>1. "idle" \notin Appending
    OBVIOUS
  <2> QED
    BY <1>6, <2>1, EntriesStep
<1>7. ASSUME NEW t \in Threads, SyncData(t) PROVE WalType'
  <2>1. Becomes(t, "idle", Newline)
    BY <1>7, RestMoves, ZenonT(30) DEF SyncData
  <2>2. Len(file) \in 0 .. Len(file)
    BY LenProperties DEF WalType
  <2> QED
    BY <1>6, <1>7, <2>1, <2>2 DEF WalType, SyncData
<1>8. ASSUME NEW t \in Threads, FailAppend(t) PROVE WalType'
  <2>1. CASE file' = file /\ thread' = [thread EXCEPT ![t] = Resting]
    <3>1. Becomes(t, "idle", Newline)
      BY <2>1, RestMoves, ZenonT(30)
    <3> QED
      BY <1>6, <1>8, <2>1, <3>1 DEF WalType, FailAppend
  <2>2. CASE /\ file' = Append(file, Fragment)
             /\ thread' = [Disturbed(t, "idle") EXCEPT ![t] = Resting]
    <3>1. Becomes(t, "idle", Newline)
      BY <2>2, FragmentMoves
    <3>2. Fragment \in Item
      BY DEF Fragment, Item
    <3>3. UNCHANGED <<synced, next_seq, appends>>
      BY <1>8 DEF FailAppend
    <3> QED
      BY <1>2, <1>6, <2>2, <3>1, <3>2, <3>3 DEF WalType
  <2> QED
    BY <1>8, <2>1, <2>2 DEF FailAppend
<1>9. ASSUME NEW t \in Threads, TruncateFile(t) PROVE WalType'
  <2>1. "truncated" \notin Appending
    OBVIOUS
  <2>2. /\ thread' \in [Threads -> Writing]
        /\ \A u \in Threads : thread'[u].at \in Appending => thread'[u].entry.kind = "entry"
    BY <1>9, <2>1, TruncateMoves, EntriesStep
  <2>3. <<>> \in Seq(Item) /\ 0 \in 0 .. Len(<<>>)
    OBVIOUS
  <2> QED
    BY <1>9, <2>2, <2>3 DEF WalType, TruncateFile
<1>10. ASSUME NEW t \in Threads, ResetSeq(t) PROVE WalType'
  <2>1. Becomes(t, "idle", Newline)
    BY <1>10, RestMoves, ZenonT(30) DEF ResetSeq
  <2> QED
    BY <1>6, <1>10, <2>1 DEF WalType, ResetSeq
<1>11. ASSUME NEW h \in Seq(Item), Reopened(h), synced' \in 0 .. Len(h) PROVE WalType'
  <2>1. NextSeq(h) \in Nat
    BY NextSeqIsAbove
  <2>2. /\ thread' \in [Threads -> Writing]
        /\ \A u \in Threads : thread'[u].at = "idle"
    BY <1>11, RestingIsTyped DEF Reopened
  <2> QED
    BY <1>11, <2>1, <2>2 DEF WalType, Reopened
<1>12. CASE CrashProcess
  BY <1>11, <1>12 DEF CrashProcess, WalType
<1>13. CASE CrashMachine
  <2>1. PICK h \in Seq(Item) : Reopened(h) /\ synced' = Len(h)
    BY <1>13, MachineLeaves
  <2>2. Len(h) \in 0 .. Len(h)
    BY LenProperties
  <2> QED
    BY <1>11, <2>1, <2>2
<1>14. CASE UNCHANGED walVars
  BY <1>14 DEF walVars, WalType
<1> QED
  BY <1>1, <1>4, <1>5, <1>7, <1>8, <1>9, <1>10, <1>12, <1>13, <1>14 DEF WalNext

-----------------------------------------------------------------------------
(* A write leaves alone what is in the file, and a newline ends the line   *)
(* of an entry that was the last.                                          *)
LEMMA WriteKeeps ==
  ASSUME NEW f \in Seq(Item), NEW x \in Item, NEW g, g = Append(f, x)
  PROVE  /\ \A e : Lined(f, e) => Lined(g, e)
         /\ \A k, e : Durable(f, k, e) => Durable(g, k, e)
         /\ \A e : x = Newline /\ Read(f, e) => Lined(g, e)
         /\ \A e : Lined(g, e) => Read(g, e)
         /\ x.kind = "entry" /\ (f = <<>> \/ f[Len(f)] = Newline) => Read(g, x)
<1>1. PICK n \in Nat : n = Len(f)
  BY LenProperties
<1>0. Grown(f, n, x, g)
  BY <1>1, ReadAppend, ZenonT(30)
<1>2. /\ g \in Seq(Item) /\ Len(g) = n + 1 /\ g[n + 1] = x
      /\ \A i \in 1 .. n : g[i] = f[i]
      /\ \A i : Whole(f, i) => Whole(g, i)
      /\ x = Newline => \A i \in ReadAll(f) : Whole(g, i)
      /\ x.kind = "entry" /\ (f = <<>> \/ f[n] = Newline) => n + 1 \in ReadAll(g)
  BY <1>0 DEF Grown
<1>3. \A i \in 1 .. n : i \in 1 .. (n + 1)
  OBVIOUS
<1>4. \A i : Whole(f, i) => i \in 1 .. n
  BY <1>1 DEF Whole, Starts
<1>5. \A i \in ReadAll(f) : i \in 1 .. n
  BY <1>1 DEF ReadAll
<1>6. \A i : Whole(g, i) => i \in ReadAll(g)
  BY ReadLines, ZenonT(30) DEF Whole
<1>7. \A e : Lined(f, e) => Lined(g, e)
  BY <1>1, <1>2, <1>3, <1>4 DEF Lined
<1>8. \A k, e : Durable(f, k, e) => Durable(g, k, e)
  BY <1>1, <1>2, <1>3, <1>4 DEF Durable
<1>9. \A e : x = Newline /\ Read(f, e) => Lined(g, e)
  BY <1>2, <1>3, <1>5 DEF Read, Lined
<1>10. \A e : Lined(g, e) => Read(g, e)
  BY <1>6 DEF Read, Lined
<1>11. x.kind = "entry" /\ (f = <<>> \/ f[Len(f)] = Newline) => Read(g, x)
  BY <1>1, <1>2 DEF Read
<1> QED
  BY <1>7, <1>8, <1>9, <1>10, <1>11

(* Every step and every crash keep the lines that are intact: what is      *)
(* synced, and what an append under way has written.                       *)
LEMMA KeptStep ==
  ASSUME WalType, KeptInv, [WalNext]_walVars
  PROVE  KeptInv'
<1>1. file \in Seq(Item) /\ \A t \in Threads : thread[t].entry \in Item
  <2>1. ASSUME NEW t \in Threads PROVE thread[t].entry \in Item
    <3>1. thread[t] \in Writing
      BY DEF WalType
    <3> QED
      BY <3>1 DEF Writing
  <2> QED
    BY <2>1 DEF WalType
<1>2. ASSUME NEW t \in Threads, TakeSeq(t) PROVE KeptInv'
  <2>1. Becomes(t, "numbered", Entry(appends + 1, next_seq)) /\ ~thread'[t].alone
    BY <1>2, TakeMoves
  <2>2. UNCHANGED <<file, synced, intact>>
    BY <1>2 DEF TakeSeq
  <2> QED
    BY <2>1, <2>2, ZenonT(30) DEF KeptInv, Becomes, Others
<1>3. ASSUME NEW t \in Threads, WriteEntry(t) PROVE KeptInv'
  <2>1. /\ Becomes(t, "written", thread[t].entry) /\ Disturbing(t)
        /\ thread'[t].alone => EndsLine
    BY <1>3, WriteMoves
  <2>2. /\ file' = Append(file, thread[t].entry) /\ UNCHANGED <<synced, intact>>
        /\ thread[t].entry.kind = "entry"
    BY <1>3 DEF WriteEntry, WalType, Appending
  <2>3. /\ \A e : Lined(file, e) => Lined(file', e)
        /\ \A k, e : Durable(file, k, e) => Durable(file', k, e)
        /\ EndsLine => Read(file', thread[t].entry)
    <3>1. PICK x \in Item, g \in {file'} : x = thread[t].entry /\ g = Append(file, x)
      BY <1>1, <2>2
    <3>2. /\ \A e : Lined(file, e) => Lined(g, e)
          /\ \A k, e : Durable(file, k, e) => Durable(g, k, e)
          /\ x.kind = "entry" /\ (file = <<>> \/ file[Len(file)] = Newline) => Read(g, x)
      BY <1>1, <3>1, WriteKeeps, ZenonT(30)
    <3> QED
      BY <2>2, <3>1, <3>2 DEF EndsLine
  <2>4. \A e \in intact' : Durable(file', synced', e)
    BY <2>2, <2>3 DEF KeptInv
  <2>5. ASSUME NEW u \in Threads, thread'[u].alone
        PROVE  /\ thread'[u].at = "written" => Read(file', thread'[u].entry)
               /\ thread'[u].at = "ended" => Lined(file', thread'[u].entry)
    <3>1. CASE u = t
      BY <2>1, <2>3, <2>5, <3>1, ZenonT(30) DEF Becomes
    <3>2. CASE u # t
      BY <2>1, <2>3, <2>5, <3>2, ZenonT(30) DEF Becomes, Others, Disturbing, KeptInv
    <3> QED
      BY <3>1, <3>2
  <2> QED
    BY <2>4, <2>5, ZenonT(30) DEF KeptInv
<1>4. ASSUME NEW t \in Threads, WriteNewline(t) PROVE KeptInv'
  <2>1. Becomes(t, "ended", thread[t].entry) /\ (thread'[t].alone => thread[t].alone)
    BY <1>4, NewlineMoves
  <2>2. /\ file' = Append(file, Newline) /\ UNCHANGED <<synced, intact>>
        /\ thread[t].at = "written"
    BY <1>4 DEF WriteNewline
  <2>3. /\ \A e : Lined(file, e) => Lined(file', e)
        /\ \A k, e : Durable(file, k, e) => Durable(file', k, e)
        /\ \A e : Read(file, e) => Lined(file', e)
        /\ \A e : Lined(file', e) => Read(file', e)
    <3>1. PICK g \in {file'} : g = Append(file, Newline)
      BY <2>2
    <3>2. /\ \A e : Lined(file, e) => Lined(g, e)
          /\ \A k, e : Durable(file, k, e) => Durable(g, k, e)
          /\ \A e : Newline = Newline /\ Read(file, e) => Lined(g, e)
          /\ \A e : Lined(g, e) => Read(g, e)
      BY <1>1, <3>1, WriteKeeps, RestingIsTyped, ZenonT(30)
    <3> QED
      BY <3>1, <3>2, ZenonT(30)
  <2>4. \A e \in intact' : Durable(file', synced', e)
    BY <2>2, <2>3, ZenonT(30) DEF KeptInv
  <2>5. ASSUME NEW u \in Threads, thread'[u].alone
        PROVE  /\ thread'[u].at = "written" => Read(file', thread'[u].entry)
               /\ thread'[u].at = "ended" => Lined(file', thread'[u].entry)
    <3>1. CASE u = t
      BY <2>1, <2>2, <2>3, <2>5, <3>1, ZenonT(30) DEF Becomes, KeptInv
    <3>2. CASE u # t
      BY <2>1, <2>3, <2>5, <3>2, ZenonT(30) DEF Becomes, Others, KeptInv
    <3> QED
      BY <3>1, <3>2
  <2> QED
    BY <2>4, <2>5, ZenonT(30) DEF KeptInv
<1>5. ASSUME NEW t \in Threads, SyncData(t) PROVE KeptInv'
  <2>1. Becomes(t, "idle", Newline)
    BY <1>5, RestMoves, ZenonT(30) DEF SyncData
  <2>2. /\ file' = file /\ synced' = Len(file) /\ thread[t].at = "ended"
        /\ \A e \in intact' : e \in intact \/ (thread[t].alone /\ e = thread[t].entry)
    BY <1>5 DEF SyncData
  <2>3. PICK n \in Nat : n = Len(file) /\ synced \in 0 .. n
    BY DEF WalType
  <2>4. \A i : Whole(file, i) => i < n
    BY <2>3 DEF Whole
  <2>5. \A e : Durable(file, synced, e) \/ Lined(file, e) => Durable(file, n, e)
    BY <2>4 DEF Durable, Lined
  <2>6. \A e \in intact' : Durable(file', synced', e)
    BY <2>2, <2>3, <2>5 DEF KeptInv
  <2>7. \A u \in Threads : thread'[u].alone =>
          /\ thread'[u].at = "written" => Read(file', thread'[u].entry)
          /\ thread'[u].at = "ended" => Lined(file', thread'[u].entry)
    BY <2>1, <2>2, ZenonT(30) DEF KeptInv, Becomes, Others
  <2> QED
    BY <2>6, <2>7, ZenonT(30) DEF KeptInv
<1>6. ASSUME NEW t \in Threads, FailAppend(t) PROVE KeptInv'
  <2>1. UNCHANGED <<synced, intact>>
    BY <1>6 DEF FailAppend
  <2>2. CASE file' = file /\ thread' = [thread EXCEPT ![t] = Resting]
    <3>1. Becomes(t, "idle", Newline)
      BY <2>2, RestMoves, ZenonT(30)
    <3> QED
      BY <2>1, <2>2, <3>1 DEF KeptInv, Becomes, Others
  <2>3. CASE /\ file' = Append(file, Fragment)
             /\ thread' = [Disturbed(t, "idle") EXCEPT ![t] = Resting]
    <3>1. Becomes(t, "idle", Newline) /\ Disturbing(t)
      BY <2>3, FragmentMoves
    <3>2. Fragment \in Item
      BY DEF Fragment, Item
    <3>3. /\ \A e : Lined(file, e) => Lined(file', e)
          /\ \A k, e : Durable(file, k, e) => Durable(file', k, e)
      BY <1>1, <2>3, <3>2, WriteKeeps, ZenonT(30)
    <3>4. \A e \in intact' : Durable(file', synced', e)
      BY <2>1, <3>3 DEF KeptInv
    <3>5. \A u \in Threads : thread'[u].alone =>
            /\ thread'[u].at = "written" => Read(file', thread'[u].entry)
            /\ thread'[u].at = "ended" => Lined(file', thread'[u].entry)
      BY <3>1, <3>3, ZenonT(30) DEF KeptInv, Becomes, Others, Disturbing
    <3> QED
      BY <3>4, <3>5, ZenonT(30) DEF KeptInv
  <2> QED
    BY <1>6, <2>2, <2>3 DEF FailAppend
<1>7. ASSUME NEW t \in Threads, TruncateFile(t) PROVE KeptInv'
  <2>1. \A u \in Threads : ~thread'[u].alone
    BY <1>7, TruncateMoves
  <2>2. intact' = {}
    BY <1>7 DEF TruncateFile
  <2> QED
    BY <2>1, <2>2 DEF KeptInv
<1>8. ASSUME NEW t \in Threads, ResetSeq(t) PROVE KeptInv'
  <2>1. Becomes(t, "idle", Newline) /\ UNCHANGED <<file, synced, intact>>
    BY <1>8, RestMoves, ZenonT(30) DEF ResetSeq
  <2> QED
    BY <2>1, ZenonT(30) DEF KeptInv, Becomes, Others
<1>9. ASSUME NEW h \in Seq(Item), Reopened(h), \A e : Durable(file, synced, e) => Durable(h, synced', e)
      PROVE  KeptInv'
  <2>1. file' = h /\ intact' = intact /\ \A u \in Threads : thread'[u].at = "idle"
    BY <1>9, RestingIsTyped DEF Reopened
  <2> QED
    BY <1>9, <2>1, ZenonT(30) DEF KeptInv
<1>10. CASE CrashProcess
  BY <1>1, <1>9, <1>10 DEF CrashProcess
<1>11. CASE CrashMachine
  <2>1. PICK h \in Seq(Item) : Torn(file, h, synced) /\ Reopened(h) /\ synced' = Len(h)
    BY <1>11, MachineLeaves
  <2>2. PICK m \in Nat, n \in Nat : m = Len(h) /\ n = Len(file) /\ synced \in 0 .. n
    BY DEF WalType
  <2>3. ASSUME NEW e, Durable(file, synced, e) PROVE Durable(h, m, e)
    <3>1. PICK i \in 1 .. n : Whole(file, i) /\ i < synced /\ file[i] = e
      BY <2>2, <2>3 DEF Durable
    <3>2. Whole(h, i) /\ h[i] = e
      BY <2>1, <3>1 DEF Torn
    <3>3. i \in 1 .. m /\ i < m
      BY <2>2, <3>2 DEF Whole, Starts
    <3> QED
      BY <2>2, <3>2, <3>3 DEF Durable
  <2> QED
    BY <1>9, <2>1, <2>2, <2>3
<1>12. CASE UNCHANGED walVars
  BY <1>12 DEF walVars, KeptInv
<1> QED
  BY <1>2, <1>3, <1>4, <1>5, <1>6, <1>7, <1>8, <1>10, <1>11, <1>12 DEF WalNext

-----------------------------------------------------------------------------
(* A write leaves the lines in order, when its entry is apart from those   *)
(* that are read.                                                          *)
LEMMA WriteInOrder ==
  ASSUME NEW f \in Seq(Item), NEW x \in Item, NEW g, g = Append(f, x), NEW o,
         LinesInOrder(f, o),
         x.kind = "entry" => \A i \in ReadAll(f) : Apart(o, f[i], x)
  PROVE  LinesInOrder(g, o)
<1>1. PICK n \in Nat : n = Len(f)
  BY LenProperties
<1>0. Grown(f, n, x, g)
  BY <1>1, ReadAppend, ZenonT(30)
<1>2. /\ g \in Seq(Item) /\ Len(g) = n + 1 /\ g[n + 1] = x
      /\ \A i \in 1 .. n : g[i] = f[i]
      /\ \A i : Starts(g, i) => Starts(f, i) \/ i = n + 1
      /\ \A i : Whole(g, i) => i \in ReadAll(f)
      /\ x.kind # "entry" => ~Starts(g, n + 1)
  BY <1>0, ZenonT(30) DEF Grown
<1>3. SUFFICES ASSUME NEW i \in 1 .. (n + 1), NEW j \in 1 .. (n + 1),
                      i < j, Whole(g, i), Starts(g, j)
               PROVE  Apart(o, g[i], g[j])
  BY <1>2 DEF LinesInOrder
<1>4. i \in 1 .. n /\ g[i] = f[i]
  BY <1>2, <1>3
<1>5. i \in ReadAll(f)
  BY <1>2, <1>3
<1>6. CASE j = n + 1
  BY <1>2, <1>3, <1>4, <1>5, <1>6
<1>7. CASE j # n + 1
  <2>1. Starts(f, j) /\ j \in 1 .. n /\ g[j] = f[j]
    BY <1>2, <1>3, <1>7
  <2>2. i < n
    BY <1>3, <2>1
  <2>3. i # n
    BY <2>2
  <2>4. Starts(f, i) /\ (i = n \/ f[i + 1] = Newline)
    BY <1>1, <1>5, ReadLines
  <2>5. Whole(f, i)
    BY <1>1, <2>2, <2>3, <2>4 DEF Whole
  <2> QED
    BY <1>1, <1>3, <1>4, <2>1, <2>5 DEF LinesInOrder
<1> QED
  BY <1>6, <1>7, ZenonT(30)

(* A step of an append other than taking its number: whatever is read that *)
(* was not read before is its entry.                                       *)
LEMMA AppendInOrder ==
  ASSUME WalType, OrderInv, NEW t \in Threads, NEW at, NEW e, Becomes(t, at, e),
         thread[t].at \in Appending, at \notin {"numbered", "truncated"},
         LinesInOrder(file', overlaps), UNCHANGED <<overlaps, next_seq>>,
         \A i \in ReadAll(file') :
           \/ i \in ReadAll(file) /\ file'[i] = file[i]
           \/ thread[t].at = "numbered" /\ file'[i] = thread[t].entry
  PROVE  OrderInv'
<1>1. \A u \in Threads : thread'[u].at = "numbered" =>
        u # t /\ thread[u].at = "numbered" /\ thread'[u].entry = thread[u].entry
  BY DEF Becomes, Others
<1>2. \A i \in ReadAll(file') : file'[i].seq < next_seq'
  BY ZenonT(30) DEF OrderInv
<1>3. ASSUME NEW u \in Threads, thread'[u].at = "numbered"
      PROVE  /\ thread'[u].entry.seq < next_seq'
             /\ \A i \in ReadAll(file') : Apart(overlaps', file'[i], thread'[u].entry)
             /\ \A v \in Threads : thread'[v].at = "numbered" /\ u # v =>
                  /\ thread'[u].entry.seq # thread'[v].entry.seq
                  /\ {thread'[u].entry.n, thread'[v].entry.n} \in overlaps'
  <2>1. u # t /\ thread[u].at = "numbered" /\ thread'[u].entry = thread[u].entry
    BY <1>1, <1>3, ZenonT(30)
  <2>2. thread'[u].entry.seq < next_seq'
    BY <2>1, ZenonT(30) DEF OrderInv
  <2>3. ASSUME NEW i \in ReadAll(file')
        PROVE  Apart(overlaps', file'[i], thread'[u].entry)
    <3>1. CASE i \in ReadAll(file) /\ file'[i] = file[i]
      BY <2>1, <3>1, ZenonT(30) DEF OrderInv
    <3>2. CASE thread[t].at = "numbered" /\ file'[i] = thread[t].entry
      <4>1. /\ thread[t].entry.seq # thread[u].entry.seq
            /\ {thread[t].entry.n, thread[u].entry.n} \in overlaps
        BY <2>1, <3>2, ZenonT(30) DEF OrderInv
      <4> QED
        BY <2>1, <3>2, <4>1, ZenonT(30) DEF Apart
    <3> QED
      BY <3>1, <3>2
  <2>4. \A v \in Threads : thread'[v].at = "numbered" /\ u # v =>
          /\ thread'[u].entry.seq # thread'[v].entry.seq
          /\ {thread'[u].entry.n, thread'[v].entry.n} \in overlaps'
    BY <1>1, <2>1, ZenonT(30) DEF OrderInv
  <2> QED
    BY <2>2, <2>3, <2>4, ZenonT(30)
<1>4. \A u \in Threads : thread'[u].at # "truncated"
  BY ZenonT(30) DEF Becomes, Others, OrderInv, Appending
<1>5. LinesInOrder(file', overlaps')
  OBVIOUS
<1> QED
  BY <1>2, <1>3, <1>4, <1>5, ZenonT(30) DEF OrderInv

(* An empty file and no append under way. *)
LEMMA NothingInOrder ==
  ASSUME file' = <<>>, NEW t \in Threads, thread'[t].at # "numbered",
         \A u \in Threads : u # t => thread'[u].at = "idle"
  PROVE  OrderInv'
<1>1. Len(<<>>) = 0 /\ 1 .. 0 = {}
  OBVIOUS
<1>2. ReadAll(file') = {} /\ LinesInOrder(file', overlaps')
  BY <1>1 DEF ReadAll, LinesInOrder
<1> QED
  BY <1>2 DEF OrderInv

(* Every step and every crash keep the order of the numbers, or truncate   *)
(* raced an append.                                                        *)
LEMMA OrderStep ==
  ASSUME WalType, OrderInv \/ raced, [WalNext]_walVars
  PROVE  OrderInv' \/ raced'
<1>1. file \in Seq(Item) /\ \A t \in Threads : thread[t].entry \in Item
  <2>1. ASSUME NEW t \in Threads PROVE thread[t].entry \in Item
    <3>1. thread[t] \in Writing
      BY DEF WalType
    <3> QED
      BY <3>1 DEF Writing
  <2> QED
    BY <2>1 DEF WalType
<1>2. ASSUME NEW t \in Threads, TakeSeq(t), ~raced' PROVE OrderInv'
  <2>1. PICK e : e = Entry(appends + 1, next_seq)
    OBVIOUS
  <2>2. /\ Becomes(t, "numbered", e) /\ e.seq = next_seq /\ e.n = appends + 1
        /\ next_seq \in Nat /\ next_seq' = next_seq + 1 /\ file' = file
    BY <1>2, <2>1, TakeMoves, ZenonT(30) DEF TakeSeq, Entry, WalType
  <2>3. OrderInv /\ \A u \in Threads : thread[u].at # "truncated"
    BY <1>2, ZenonT(30) DEF TakeSeq
  <2>4. /\ overlaps \subseteq overlaps'
        /\ \A u \in Threads : thread[u].at = "numbered" =>
             {thread[u].entry.n, e.n} \in overlaps' /\ {e.n, thread[u].entry.n} \in overlaps'
    <3>1. overlaps' = overlaps \cup {{thread[u].entry.n, e.n} :
                        u \in {v \in Threads : thread[v].at \in Appending}}
      BY <1>2, <2>2 DEF TakeSeq
    <3>2. \A u \in Threads : thread[u].at = "numbered" => thread[u].at \in Appending
      BY DEF Appending
    <3>3. \A a, b : {a, b} = {b, a}
      OBVIOUS
    <3> QED
      BY <3>1, <3>2, <3>3
  <2>5. \A x, y : Apart(overlaps, x, y) => Apart(overlaps', x, y)
    BY <2>4 DEF Apart
  <2>6. LinesInOrder(file', overlaps')
    BY <2>2, <2>3, <2>5, ZenonT(30) DEF OrderInv, LinesInOrder
  <2>7. \A i \in ReadAll(file) : file[i].seq < next_seq /\ file[i].seq \in Nat
    <3>1. \A i \in ReadAll(file) : file[i] \in Item
      BY <1>1 DEF ReadAll
    <3> QED
      BY <2>3, <3>1, ZenonT(30) DEF OrderInv, Item
  <2>8. \A i \in ReadAll(file') : file'[i].seq < next_seq'
    BY <2>2, <2>7
  <2>9. \A u \in Threads : thread[u].at = "numbered" =>
          thread[u].entry.seq < next_seq /\ thread[u].entry.seq \in Nat
    BY <1>1, <2>3, ZenonT(30) DEF OrderInv, Item
  <2>10. ASSUME NEW u \in Threads, thread'[u].at = "numbered"
         PROVE  /\ thread'[u].entry.seq < next_seq'
                /\ \A i \in ReadAll(file') : Apart(overlaps', file'[i], thread'[u].entry)
                /\ \A v \in Threads : thread'[v].at = "numbered" /\ u # v =>
                     /\ thread'[u].entry.seq # thread'[v].entry.seq
                     /\ {thread'[u].entry.n, thread'[v].entry.n} \in overlaps'
    <3>1. CASE u = t
      <4>1. thread'[u].entry = e
        BY <2>2, <3>1 DEF Becomes
      <4>2. \A i \in ReadAll(file') : Apart(overlaps', file'[i], e)
        BY <2>2, <2>7 DEF Apart
      <4>3. ASSUME NEW v \in Threads, thread'[v].at = "numbered", u # v
            PROVE  e.seq # thread'[v].entry.seq /\ {e.n, thread'[v].entry.n} \in overlaps'
        <5>1. thread[v].at = "numbered" /\ thread'[v].entry = thread[v].entry
          BY <2>2, <3>1, <4>3, ZenonT(30) DEF Becomes, Others
        <5>2. {e.n, thread'[v].entry.n} \in overlaps'
          BY <2>4, <5>1
        <5>3. PICK k \in Nat : k = thread'[v].entry.seq /\ k < next_seq
          BY <2>9, <5>1
        <5>4. e.seq # k
          BY <2>2, <5>3
        <5> QED
          BY <5>2, <5>3, <5>4
      <4>4. e.seq < next_seq'
        BY <2>2
      <4> QED
        BY <4>1, <4>2, <4>3, <4>4
    <3>2. CASE u # t
      <4>1. thread[u].at = "numbered" /\ thread'[u].entry = thread[u].entry
        BY <2>2, <2>10, <3>2 DEF Becomes, Others
      <4>2. thread'[u].entry.seq < next_seq'
        BY <2>2, <2>9, <4>1
      <4>3. \A i \in ReadAll(file') : Apart(overlaps', file'[i], thread'[u].entry)
        BY <2>2, <2>3, <2>5, <4>1, ZenonT(30) DEF OrderInv
      <4>4. ASSUME NEW v \in Threads, thread'[v].at = "numbered", u # v
            PROVE  /\ thread'[u].entry.seq # thread'[v].entry.seq
                   /\ {thread'[u].entry.n, thread'[v].entry.n} \in overlaps'
        <5>1. CASE v = t
          <6>1. thread'[v].entry = e
            BY <2>2, <5>1 DEF Becomes
          <6> QED
            BY <2>2, <2>4, <2>9, <4>1, <6>1
        <5>2. CASE v # t
          <6>1. thread[v].at = "numbered" /\ thread'[v].entry = thread[v].entry
            BY <2>2, <4>4, <5>2 DEF Becomes, Others
          <6>2. /\ thread[u].entry.seq # thread[v].entry.seq
                /\ {thread[u].entry.n, thread[v].entry.n} \in overlaps
            BY <2>3, <4>1, <4>4, <6>1, ZenonT(30) DEF OrderInv
          <6> QED
            BY <2>4, <4>1, <6>1, <6>2
        <5> QED
          BY <5>1, <5>2
      <4> QED
        BY <4>2, <4>3, <4>4
    <3> QED
      BY <3>1, <3>2
  <2>11. \A u \in Threads : thread'[u].at # "truncated"
    BY <2>2, <2>3, ZenonT(30) DEF Becomes, Others
  <2> QED
    BY <2>6, <2>8, <2>10, <2>11, ZenonT(30) DEF OrderInv
<1>3. ASSUME NEW t \in Threads, WriteEntry(t), ~raced' PROVE OrderInv'
  <2>1. OrderInv /\ UNCHANGED <<overlaps, next_seq>> /\ thread[t].at = "numbered"
    BY <1>3 DEF WriteEntry
  <2>2. Becomes(t, "written", thread[t].entry)
    BY <1>3, WriteMoves
  <2>3. PICK x \in Item, g \in {file'} : x = thread[t].entry /\ g = Append(file, x)
    BY <1>1, <1>3 DEF WriteEntry
  <2>4. \A i \in ReadAll(file) : Apart(overlaps, file[i], x)
    BY <2>1, <2>3, ZenonT(30) DEF OrderInv
  <2>5. LinesInOrder(file, overlaps)
    BY <2>1, ZenonT(30) DEF OrderInv
  <2>6. LinesInOrder(g, overlaps)
    BY <1>1, <2>3, <2>4, <2>5, WriteInOrder, ZenonT(30)
  <2>7. \A i \in ReadAll(g) : (i \in ReadAll(file) /\ g[i] = file[i]) \/ g[i] = x
    <3>1. PICK n \in Nat : n = Len(file)
      BY <1>1, LenProperties
    <3>2. Grown(file, n, x, g)
      BY <1>1, <2>3, <3>1, ReadAppend, ZenonT(30)
    <3>3. \A i \in ReadAll(file) : i \in 1 .. n
      BY <3>1 DEF ReadAll
    <3> QED
      BY <3>2, <3>3 DEF Grown
  <2>8. thread[t].at \in Appending /\ "written" \notin {"numbered", "truncated"}
    BY <2>1 DEF Appending
  <2>9. /\ LinesInOrder(file', overlaps)
        /\ \A i \in ReadAll(file') :
             \/ i \in ReadAll(file) /\ file'[i] = file[i]
             \/ thread[t].at = "numbered" /\ file'[i] = thread[t].entry
    BY <2>1, <2>3, <2>6, <2>7, ZenonT(30)
  <2> QED
    BY <2>1, <2>2, <2>8, <2>9, AppendInOrder
<1>4. ASSUME NEW x \in {Newline, Fragment}, file' = Append(file, x), OrderInv
      PROVE  /\ LinesInOrder(file', overlaps)
             /\ \A i \in ReadAll(file') : i \in ReadAll(file) /\ file'[i] = file[i]
  <2>1. PICK g \in {file'} : g = Append(file, x)
    BY <1>4
  <2>2. x \in Item /\ x.kind # "entry"
    BY DEF Newline, Fragment, Item
  <2>3. LinesInOrder(file, overlaps)
    BY <1>4, ZenonT(30) DEF OrderInv
  <2>4. LinesInOrder(g, overlaps)
    BY <1>1, <2>1, <2>2, <2>3, WriteInOrder, ZenonT(30)
  <2>5. ASSUME NEW i \in ReadAll(g) PROVE i \in ReadAll(file) /\ g[i] = file[i]
    <3>1. PICK n \in Nat : n = Len(file)
      BY <1>1, LenProperties
    <3>2. Grown(file, n, x, g)
      BY <1>1, <2>1, <2>2, <3>1, ReadAppend, ZenonT(30)
    <3>3. Starts(g, i)
      BY ReadLines
    <3>4. i \in ReadAll(file)
      BY <2>2, <3>2, <3>3, ZenonT(30) DEF Grown
    <3>5. i \in 1 .. n
      BY <3>1, <3>4 DEF ReadAll
    <3> QED
      BY <3>2, <3>4, <3>5 DEF Grown
  <2> QED
    BY <2>1, <2>4, <2>5, ZenonT(30)
<1>5. ASSUME NEW t \in Threads, WriteNewline(t), ~raced' PROVE OrderInv'
  <2>1. /\ OrderInv /\ UNCHANGED <<overlaps, next_seq>>
        /\ thread[t].at = "written" /\ file' = Append(file, Newline)
    BY <1>5 DEF WriteNewline
  <2>2. Becomes(t, "ended", thread[t].entry)
    BY <1>5, NewlineMoves
  <2>3. /\ LinesInOrder(file', overlaps)
        /\ \A i \in ReadAll(file') : i \in ReadAll(file) /\ file'[i] = file[i]
    BY <1>4, <2>1, ZenonT(30)
  <2>4. thread[t].at \in Appending /\ "ended" \notin {"numbered", "truncated"}
    BY <2>1 DEF Appending
  <2> QED
    BY <2>1, <2>2, <2>3, <2>4, AppendInOrder, ZenonT(30)
<1>6. ASSUME NEW t \in Threads, OrderInv, UNCHANGED <<overlaps, next_seq>>,
             thread[t].at \in Appending, Becomes(t, "idle", Newline),
             file' = file \/ file' = Append(file, Fragment)
      PROVE  OrderInv'
  <2>1. /\ LinesInOrder(file', overlaps)
        /\ \A i \in ReadAll(file') : i \in ReadAll(file) /\ file'[i] = file[i]
    BY <1>4, <1>6, ZenonT(30) DEF OrderInv
  <2> QED
    BY <1>6, <2>1, AppendInOrder, ZenonT(30)
<1>7. ASSUME NEW t \in Threads, SyncData(t), ~raced' PROVE OrderInv'
  <2>1. Becomes(t, "idle", Newline)
    BY <1>7, RestMoves, ZenonT(30) DEF SyncData
  <2> QED
    BY <1>6, <1>7, <2>1 DEF SyncData, Appending
<1>8. ASSUME NEW t \in Threads, FailAppend(t), ~raced' PROVE OrderInv'
  <2>1. /\ OrderInv /\ UNCHANGED <<overlaps, next_seq>> /\ thread[t].at \in Appending
        /\ \/ file' = file /\ thread' = [thread EXCEPT ![t] = Resting]
           \/ /\ file' = Append(file, Fragment)
              /\ thread' = [Disturbed(t, "idle") EXCEPT ![t] = Resting]
    BY <1>8 DEF FailAppend, Appending
  <2>2. Becomes(t, "idle", Newline)
    BY <2>1, RestMoves, FragmentMoves
  <2> QED
    BY <1>6, <2>1, <2>2
<1>9. ASSUME NEW t \in Threads, TruncateFile(t), ~raced' PROVE OrderInv'
  <2>1. Becomes(t, "truncated", Newline)
    BY <1>9, TruncateMoves
  <2>2. /\ file' = <<>> /\ thread'[t].at = "truncated"
        /\ \A u \in Threads : u # t => thread'[u].at = "idle"
    BY <1>9, <2>1 DEF TruncateFile, Becomes, Others
  <2>3. \A u \in Threads : thread'[u].at = "truncated" => u = t
    BY <2>2
  <2> QED
    BY <2>2, <2>3, NothingInOrder
<1>10. ASSUME NEW t \in Threads, ResetSeq(t), ~raced' PROVE OrderInv'
  <2>1. Becomes(t, "idle", Newline)
    BY <1>10, RestMoves, ZenonT(30) DEF ResetSeq
  <2>2. OrderInv /\ thread[t].at = "truncated" /\ file' = file
    BY <1>10 DEF ResetSeq
  <2>3. /\ file' = <<>> /\ thread'[t].at = "idle"
        /\ \A u \in Threads : u # t => thread'[u].at = "idle"
    BY <2>1, <2>2, ZenonT(30) DEF OrderInv, Becomes, Others
  <2> QED
    BY <2>3, NothingInOrder
<1>11. ASSUME NEW h \in Seq(Item), Reopened(h), LinesInOrder(h, overlaps) PROVE OrderInv'
  <2>1. file' = h /\ next_seq' = NextSeq(h) /\ overlaps' = overlaps
    BY <1>11 DEF Reopened
  <2>2. \A u \in Threads : thread'[u].at = "idle"
    BY <1>11, RestingIsTyped DEF Reopened
  <2>3. \A i \in ReadAll(h) : h[i].seq < NextSeq(h)
    BY NextSeqIsAbove
  <2> QED
    BY <1>11, <2>1, <2>2, <2>3, ZenonT(30) DEF OrderInv
<1>12. ASSUME CrashProcess, ~raced' PROVE OrderInv'
  BY <1>1, <1>11, <1>12, ZenonT(30) DEF CrashProcess, Reopened, OrderInv
<1>13. ASSUME CrashMachine, ~raced' PROVE OrderInv'
  <2>1. PICK h \in Seq(Item) : Torn(file, h, synced) /\ Reopened(h)
    BY <1>13, MachineLeaves
  <2>2. LinesInOrder(file, overlaps)
    BY <1>13, <2>1, ZenonT(30) DEF Reopened, OrderInv
  <2>3. LinesInOrder(h, overlaps)
    <3>1. SUFFICES ASSUME NEW i \in 1 .. Len(h), NEW j \in 1 .. Len(h),
                          i < j, Whole(h, i), Starts(h, j)
                   PROVE  Apart(overlaps, h[i], h[j])
      BY DEF LinesInOrder
    <3>2. Starts(h, i)
      BY <3>1 DEF Whole
    <3>3. Whole(file, i) /\ Starts(file, i) /\ Starts(file, j) /\ h[i] = file[i] /\ h[j] = file[j]
      BY <2>1, <3>1, <3>2 DEF Torn
    <3>4. i \in 1 .. Len(file) /\ j \in 1 .. Len(file)
      BY <3>3, ZenonT(30) DEF Starts
    <3> QED
      BY <2>2, <3>1, <3>3, <3>4 DEF LinesInOrder
  <2> QED
    BY <1>11, <2>1, <2>3
<1>14. ASSUME UNCHANGED walVars, ~raced' PROVE OrderInv'
  BY <1>14, ZenonT(30) DEF walVars, OrderInv
<1> QED
  BY <1>2, <1>3, <1>5, <1>7, <1>8, <1>9, <1>10, <1>12, <1>13, <1>14 DEF WalNext

-----------------------------------------------------------------------------
(* What the invariant says of a replay. *)
LEMMA WalInvIsEnough ==
  ASSUME WalInv
  PROVE  ReplayIsSound
<1>1. \A i : Whole(file, i) => i \in ReadAll(file)
  BY ReadLines DEF Whole
<1>2. IntactSurvives
  BY <1>1, ZenonT(30) DEF WalInv, KeptInv, Durable, IntactSurvives, Replayed
<1>3. PICK n \in Nat : n = Len(file)
  <2>1. file \in Seq(Item)
    BY ZenonT(30) DEF WalInv, WalType
  <2> QED
    BY <2>1, LenProperties
<1>4. ASSUME ~raced, NEW i \in ReadAll(file), NEW j \in ReadAll(file), i < j
      PROVE  Apart(overlaps, file[i], file[j])
  <2>1. Starts(file, j) /\ Starts(file, i) /\ (i = n \/ file[i + 1] = Newline)
    BY <1>3, ReadLines
  <2>2. i \in 1 .. n /\ j \in 1 .. n
    BY <1>3, <2>1 DEF Starts
  <2>3. i < n /\ i # n
    BY <1>4, <2>2
  <2>4. Whole(file, i)
    BY <1>3, <2>1, <2>3 DEF Whole
  <2> QED
    BY <1>3, <1>4, <2>1, <2>2, <2>4, ZenonT(30) DEF WalInv, OrderInv, LinesInOrder
<1>5. OrderedUnlessOverlapped
  BY <1>4, ZenonT(30) DEF OrderedUnlessOverlapped, Apart
<1>6. UniqueUnlessRaced
  <2>1. SUFFICES ASSUME ~raced, NEW i \in ReadAll(file), NEW j \in ReadAll(file),
                        file[i].seq = file[j].seq
                 PROVE  i = j
    BY DEF UniqueUnlessRaced
  <2>2. i \in 1 .. n /\ j \in 1 .. n
    BY <1>3 DEF ReadAll
  <2>3. \A k \in 1 .. n : file[k].seq \in Nat
    <3>1. \A k \in 1 .. n : file[k] \in Item
      BY <1>3 DEF WalInv, WalType
    <3> QED
      BY <3>1 DEF Item
  <2>4. file[i].seq \in Nat /\ \A x, y : Apart(overlaps, x, y) => x.seq < y.seq \/ x.seq # y.seq
    BY <2>2, <2>3 DEF Apart
  <2>5. ~Apart(overlaps, file[i], file[j]) /\ ~Apart(overlaps, file[j], file[i])
    BY <2>1, <2>4
  <2>6. ~ (i < j) /\ ~ (j < i)
    BY <1>4, <2>1, <2>5
  <2> QED
    BY <2>2, <2>6
<1> QED
  BY <1>2, <1>5, <1>6 DEF ReplayIsSound

(* The log when it is first opened. *)
LEMMA WalStart ==
  ASSUME WalInit
  PROVE  WalInv
<1>1. <<>> \in Seq(Item) /\ Len(<<>>) = 0 /\ 1 .. 0 = {}
  OBVIOUS
<1>2. ReadAll(<<>>) = {} /\ LinesInOrder(<<>>, overlaps)
  BY <1>1 DEF ReadAll, LinesInOrder
<1>3. NextSeq(<<>>) \in Nat
  BY <1>1, NextSeqIsAbove, ZenonT(30)
<1>4. thread \in [Threads -> Writing] /\ \A t \in Threads : thread[t].at = "idle"
  BY RestingIsTyped DEF WalInit
<1>5. WalType
  BY <1>1, <1>3, <1>4 DEF WalInit, WalType, Appending
<1>6. KeptInv
  BY <1>4 DEF WalInit, KeptInv
<1>7. OrderInv
  BY <1>2, <1>4, ZenonT(30) DEF WalInit, OrderInv
<1> QED
  BY <1>5, <1>6, <1>7 DEF WalInv

(* wal.rs: whatever the appends, failures, truncations and crashes, and    *)
(* whatever their number, a replay sees every entry that was acknowledged  *)
(* and had a line for itself, no sequence number twice, and the numbers in *)
(* the order of the file, but for a truncate that raced an append and for  *)
(* appends that overlapped.                                                *)
THEOREM ReplaySafety == WalSpec => []ReplayIsSound
<1>1. WalInit => WalInv
  BY WalStart
<1>2. WalInv /\ [WalNext]_walVars => WalInv'
  <2>1. SUFFICES ASSUME WalInv, [WalNext]_walVars PROVE WalInv'
    OBVIOUS
  <2>2. WalType' /\ KeptInv'
    BY <2>1, WalTypeStep, KeptStep DEF WalInv
  <2>3. OrderInv' \/ raced'
    BY <2>1, OrderStep DEF WalInv
  <2> QED
    BY <2>2, <2>3 DEF WalInv
<1>3. WalInv => ReplayIsSound
  BY WalInvIsEnough
<1> QED
  BY <1>1, <1>2, <1>3, PTL DEF WalSpec
================================================================================
