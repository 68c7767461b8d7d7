--------------------------- MODULE QuorumCertificate ---------------------------
(***************************************************************************)
(* What threshold signing promises, whatever the scheme and the network:   *)
(* a party signs together with a set of parties it has chosen (its vote),  *)
(* once, and holds a signature (a certificate) only for a set that can     *)
(* sign and all of whose parties voted for exactly that set.               *)
(***************************************************************************)
CONSTANTS
  Voters,
  Quorums    \* the sets of parties that can sign

VARIABLES
  vote,     \* the set each party answered for; {} when it has not
  cert      \* the set each party holds a signature of; {} when it has none

CertInit ==
  /\ vote = [p \in Voters |-> {}]
  /\ cert = [p \in Voters |-> {}]

(* A party votes for whatever set it has seen, and never again. *)
Answer(p, V) ==
  /\ vote[p] = {}
  /\ vote' = [vote EXCEPT ![p] = V]
  /\ UNCHANGED cert

CertifiedBy(p) ==
  /\ vote[p] \in Quorums
  /\ \A q \in vote[p] : vote[q] = vote[p]

Certify(p) ==
  /\ cert[p] = {}
  /\ CertifiedBy(p)
  /\ cert' = [cert EXCEPT ![p] = vote[p]]
  /\ UNCHANGED vote

CertNext ==
  \E p \in Voters : Certify(p) \/ \E V \in SUBSET Voters : Answer(p, V)

CertSpec == CertInit /\ [][CertNext]_<<vote, cert>>
================================================================================
