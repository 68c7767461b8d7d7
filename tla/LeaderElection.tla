----------------------------- MODULE LeaderElection -----------------------------
(***************************************************************************)
(* Leader election among coordinator instances: leader_election.rs.        *)
(* ElectionState is a state machine without I/O.  The program around it,   *)
(* which the repository does not have yet, carries its VoteRequests and    *)
(* VoteResponses; it is modelled as a network that loses, delays, reorders *)
(* and duplicates them.  A VoteResponse does not say which request it      *)
(* answers; `asked`, the term of that request, is there for the network to *)
(* know whether the answer is late.  `leader_id` and `last_heartbeat` are  *)
(* only written by the code and left out, and so are the log positions of  *)
(* a VoteRequest, which nothing reads.                                     *)
(***************************************************************************)
EXTENDS Naturals, FiniteSets

CONSTANTS
  Nodes,        \* the coordinator instances; cluster_size is their number
  NoNode,       \* voted_for is None
  Networks,     \* what the program around ElectionState may do: "fresh" drops
                \* answers to requests of earlier terms, "late" delivers them,
                \* "heartbeat" is fresh and tells nodes of their leader
  MaxTerm,      \* bound: terms, in each network
  MaxElections  \* bound: candidacies, of all nodes and terms

ASSUME ElectionAssumption ==
  /\ IsFiniteSet(Nodes)
  /\ NoNode \notin Nodes
  /\ Networks \subseteq {"fresh", "late", "heartbeat"}
  /\ MaxTerm \in [Networks -> Nat]
  /\ MaxElections \in Nat

VARIABLES
  network,
  role,
  current_term,
  voted_for,
  votes_received,  \* the voters whose entry in votes_received is true
  messages,        \* every message ever sent
  leaders          \* who has been leader in which term

electionVars == <<network, role, current_term, voted_for, votes_received,
                  messages, leaders>>

NodeRole == {"Follower", "Candidate", "Leader"}

Terms == 0 .. MaxTerm[network]

VoteRequest == [kind : {"request"}, term : Terms, candidate : Nodes]

VoteResponse ==
  [kind : {"response"}, voter : Nodes, candidate : Nodes, asked : Terms,
   term : Terms, granted : BOOLEAN]

Majority(votes) == Cardinality(votes) >= Cardinality(Nodes) \div 2 + 1

ElectionInit ==
  /\ network \in Networks
  /\ role = [n \in Nodes |-> "Follower"]
  /\ current_term = [n \in Nodes |-> 0]
  /\ voted_for = [n \in Nodes |-> NoNode]
  /\ votes_received = [n \in Nodes |-> {}]
  /\ messages = {}
  /\ leaders = {}

-----------------------------------------------------------------------------
BecomeFollower(n, term) ==
  /\ role' = [role EXCEPT ![n] = "Follower"]
  /\ current_term' = [current_term EXCEPT ![n] = term]
  /\ voted_for' = [voted_for EXCEPT ![n] = NoNode]
  /\ votes_received' = [votes_received EXCEPT ![n] = {}]

(* become_candidate, and the VoteRequests that its caller sends.  A node   *)
(* alone in its cluster is its own majority.                               *)
BecomeCandidate(n) ==
  LET term == current_term[n] + 1
  IN /\ term <= MaxTerm[network]
     /\ Cardinality({m \in messages : m.kind = "request"}) < MaxElections
     /\ current_term' = [current_term EXCEPT ![n] = term]
     /\ voted_for' = [voted_for EXCEPT ![n] = n]
     /\ votes_received' = [votes_received EXCEPT ![n] = {n}]
     /\ messages' = messages \cup
          {[kind |-> "request", term |-> term, candidate |-> n]}
     /\ IF Majority({n})
        THEN /\ role' = [role EXCEPT ![n] = "Leader"]
             /\ leaders' = leaders \cup {<<term, n>>}
        ELSE /\ role' = [role EXCEPT ![n] = "Candidate"]
             /\ leaders' = leaders
     /\ UNCHANGED network

(* Mutant of Grants: a node votes for everyone who asks in its term. *)
GrantsAlways(n, req, term) == req.term >= term

(* The vote of a node whose term is now `term`. *)
Grants(n, req, term) ==
  /\ req.term >= term
  /\ req.term > current_term[n] \/ voted_for[n] \in {NoNode, req.candidate}

(* A request of a later term first makes the node a follower, with no vote *)
(* given in the new term.                                                  *)
HandleVoteRequest(n, req) ==
  LET newer == req.term > current_term[n]
      term == IF newer THEN req.term ELSE current_term[n]
      grant == Grants(n, req, term)
  IN /\ req.kind = "request"
     /\ req.candidate # n
     /\ role' = [role EXCEPT ![n] = IF newer THEN "Follower" ELSE @]
     /\ current_term' = [current_term EXCEPT ![n] = term]
     /\ voted_for' = [voted_for EXCEPT
          ![n] = IF grant THEN req.candidate ELSE IF newer THEN NoNode ELSE @]
     /\ votes_received' = [votes_received EXCEPT
          ![n] = IF newer THEN {} ELSE @]
     /\ messages' = messages \cup
          {[kind |-> "response", voter |-> n, candidate |-> req.candidate,
            asked |-> req.term, term |-> term, granted |-> grant]}
     /\ UNCHANGED <<network, leaders>>

(* A voter has one entry, which a later answer overwrites. *)
RecordVote(n, voter, granted) ==
  LET votes == IF granted THEN votes_received[n] \cup {voter}
                          ELSE votes_received[n] \ {voter}
  IN /\ votes_received' = [votes_received EXCEPT ![n] = votes]
     /\ IF Majority(votes) /\ role[n] = "Candidate"
        THEN /\ role' = [role EXCEPT ![n] = "Leader"]
             /\ leaders' = leaders \cup {<<current_term[n], n>>}
        ELSE UNCHANGED <<role, leaders>>

HandleVoteResponse(n, resp) ==
  /\ resp.kind = "response"
  /\ resp.candidate = n
  /\ network = "late" \/ resp.asked = current_term[n]
  /\ IF resp.term > current_term[n]
     THEN BecomeFollower(n, resp.term) /\ UNCHANGED <<messages, leaders>>
     ELSE /\ RecordVote(n, resp.voter, resp.granted)
          /\ UNCHANGED <<current_term, voted_for, messages>>
  /\ UNCHANGED network

(* The caller's use of become_follower(term, Some(leader)): a node hears   *)
(* from the leader of its own or a later term.                             *)
HearLeader(n, leader) ==
  /\ network = "heartbeat"
  /\ role[leader] = "Leader"
  /\ leader # n
  /\ current_term[leader] >= current_term[n]
  /\ BecomeFollower(n, current_term[leader])
  /\ UNCHANGED <<network, messages, leaders>>

ElectionNext ==
  \/ \E n \in Nodes : BecomeCandidate(n)
  \/ \E n \in Nodes, m \in messages : HandleVoteRequest(n, m)
  \/ \E n \in Nodes, m \in messages : HandleVoteResponse(n, m)
  \/ \E n, leader \in Nodes : HearLeader(n, leader)

ElectionSpec == ElectionInit /\ [][ElectionNext]_electionVars

-----------------------------------------------------------------------------
ElectionTypeOK ==
  /\ network \in Networks
  /\ role \in [Nodes -> NodeRole]
  /\ current_term \in [Nodes -> Terms]
  /\ voted_for \in [Nodes -> Nodes \cup {NoNode}]
  /\ votes_received \in [Nodes -> SUBSET Nodes]
  /\ messages \subseteq VoteRequest \cup VoteResponse
  /\ leaders \subseteq Terms \X Nodes

(* leader_election.rs:3 says that the instances elect *a* leader by terms: *)
(* no two of them become leader in the same term, however the requests and *)
(* the answers of overlapping elections are delayed or repeated.           *)
ElectionSafety ==
  \A p, q \in leaders : p[1] = q[1] => p[2] = q[2]

(* The vote that `v` gave to `c` in a term: to itself by asking for votes, *)
(* or by an answer that grants it.                                         *)
Voted(v, c, term) ==
  \E m \in messages :
    /\ m.candidate = c
    /\ \/ m.kind = "request" /\ m.term = term /\ v = c
       \/ m.kind = "response" /\ m.asked = term /\ m.voter = v /\ m.granted

(* Whatever the network delivers, and with heartbeats: nobody becomes      *)
(* leader without votes that a majority gave it, in this or earlier terms. *)
ElectedByMajority ==
  \A p \in leaders :
    Majority({v \in Nodes : \E term \in 0 .. p[1] : Voted(v, p[2], term)})

(* Terms never go back: become_follower is called with the term of a       *)
(* message, which only a comparison in each caller keeps from being old.   *)
TermsNeverGoBack ==
  [][\A n \in Nodes : current_term'[n] >= current_term[n]]_electionVars

(* A vote binds its voter: in that term it can vote for nobody else.       *)
VotesBind ==
  \A v, c \in Nodes, term \in Terms : Voted(v, c, term) =>
    \/ current_term[v] > term
    \/ current_term[v] = term /\ voted_for[v] = c

OneVotePerTerm ==
  \A v, c, d \in Nodes, term \in Terms :
    Voted(v, c, term) /\ Voted(v, d, term) => c = d

(* What a candidate counts, and what a leader was elected by, are votes of *)
(* its own term.                                                           *)
CountedWereGiven ==
  \A n \in Nodes : role[n] = "Candidate" =>
    \A v \in votes_received[n] : Voted(v, n, current_term[n])

LeadersWereElected ==
  \A p \in leaders :
    \E votes \in SUBSET Nodes :
      Majority(votes) /\ \A v \in votes : Voted(v, p[2], p[1])

FreshInv ==
  /\ ElectionTypeOK
  /\ VotesBind
  /\ OneVotePerTerm
  /\ CountedWereGiven
  /\ LeadersWereElected

(* The inductive invariant of elections whose late answers are dropped and *)
(* in which nobody calls become_follower within a term.                    *)
ElectionInv == network = "fresh" => FreshInv

(* In those elections no term has two leaders.                             *)
FreshElectionSafety == network = "fresh" => ElectionSafety

(* Both: what elections promise when late answers are dropped and nobody   *)
(* steps down within a term, and what they promise under any network.      *)
OneLeaderByMajority == FreshElectionSafety /\ ElectedByMajority
================================================================================
