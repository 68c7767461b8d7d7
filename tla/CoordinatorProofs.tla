-------------------------- MODULE CoordinatorProofs --------------------------
(***************************************************************************)
(* CoordinatorInv is an inductive invariant of Coordinator, for every set  *)
(* of signers, thresholds and windows and every bound.  The server         *)
(* implements the coordinator: every step of a connection thread is a call *)
(* of the coordinator or leaves it alone, so the coordinator's theorems    *)
(* hold of the server.                                                     *)
(***************************************************************************)
EXTENDS CoordinatorAudit, CoordinatorServer, TLAPS

(* The provers a leaf is given that names none of its own, tried in this order. *)
USE SMTT(30), ZenonT(30), Z3T(30), SMTT(40)

(* Appending a signer that is not in a list keeps its members distinct. *)
LEMMA DistinctAppend ==
  ASSUME NEW S, NEW list \in Seq(S), NEW x \in S,
         Distinct(list), ~Submitted(list, x)
  PROVE  /\ Append(list, x) \in Seq(S)
         /\ Distinct(Append(list, x))
         /\ Len(Append(list, x)) = Len(list) + 1
BY DEF Distinct, Submitted

(* Appending an entry to an audit list keeps the entries it had. *)
LEMMA AppendKeeps ==
  ASSUME NEW S, NEW list \in Seq(S), NEW x \in S
  PROVE  /\ Append(list, x) \in Seq(S)
         /\ Len(Append(list, x)) = Len(list) + 1
         /\ Append(list, x)[Len(list) + 1] = x
         /\ \A k \in 1 .. Len(list) : Append(list, x)[k] = list[k]
OBVIOUS

(* The initial state, with no sessions, satisfies the invariant. *)
LEMMA InitEstablishes == Init => CoordinatorInv
BY CoordinatorAssumption
   DEF Init, CoordinatorInv, TypeOK, Ids, PhaseEarned, SharesLogged,
       SignatureSettled

(* A call that rewrites one session and appends one audit entry to its log *)
(* keeps the invariant's parts about sessions, provided the new session    *)
(* earns its phase, keeps its threshold and window, and holds no share but *)
(* the ones it had and the one the entry is about.                         *)
LEMMA OneSessionStep ==
  ASSUME CoordinatorInv,
         NEW id \in Ids, NEW s \in CoordinatorSession, NEW e \in AuditEntry,
         sessions' = [sessions EXCEPT ![id] = s],
         audit' = [audit EXCEPT ![id] = Append(@, e)],
         clock' = clock, next_id' = next_id,
         signatures' \in SUBSET AggregatedSignature,
         EarnsPhase(s),
         ExpiresAt(s) = ExpiresAt(sessions[id]),
         \A i \in 1 .. Len(s.shares) :
           \/ /\ i \in 1 .. Len(sessions[id].shares)
              /\ s.shares[i] = sessions[id].shares[i]
           \/ /\ e.event = "ShareReceived"
              /\ e.signer = s.shares[i]
              /\ e.at <= ExpiresAt(s)
  PROVE  TypeOK' /\ PhaseEarned' /\ SharesLogged'
<1>1. TypeOK /\ PhaseEarned /\ SharesLogged
  BY DEF CoordinatorInv
<1>2. Ids' = Ids
  BY DEF Ids
<1>3. /\ audit[id] \in Seq(AuditEntry)
      /\ audit'[id] = Append(audit[id], e)
      /\ sessions'[id] = s
      /\ \A j \in Ids : j # id => /\ sessions'[j] = sessions[j]
                                  /\ audit'[j] = audit[j]
  BY <1>1 DEF TypeOK
<1>4. audit'[id] \in Seq(AuditEntry)
  BY <1>3, AppendKeeps
<1>5. TypeOK'
  <2>1. audit' \in [Ids -> Seq(AuditEntry)]
    BY <1>1, <1>3, <1>4 DEF TypeOK
  <2>2. sessions' \in [Ids -> CoordinatorSession]
    BY <1>1 DEF TypeOK
  <2> QED BY <1>1, <1>2, <2>1, <2>2 DEF TypeOK
<1>6. PhaseEarned'
  BY <1>1, <1>2, <1>3 DEF PhaseEarned
<1>7. SharesLogged'
  <2> SUFFICES ASSUME NEW j \in Ids, NEW i \in (1 .. Len(sessions[j].shares))'
               PROVE  ShareLoggedInWindow(j, sessions[j].shares[i])'
    BY <1>2 DEF SharesLogged
  <2>1. CASE j # id
    BY <1>1, <1>3, <2>1 DEF SharesLogged, ShareLoggedInWindow
  <2>2. CASE j = id
    <3>1. /\ Len(audit[id]) \in Nat
          /\ Len(audit'[id]) = Len(audit[id]) + 1
          /\ audit'[id][Len(audit[id]) + 1] = e
          /\ \A k \in 1 .. Len(audit[id]) : audit'[id][k] = audit[id][k]
      BY <1>3, AppendKeeps
    <3>2. CASE /\ i \in 1 .. Len(sessions[id].shares)
               /\ s.shares[i] = sessions[id].shares[i]
      <4>1. ShareLoggedInWindow(id, sessions[id].shares[i])
        BY <1>1, <3>2 DEF SharesLogged
      <4>2. PICK k \in 1 .. Len(audit[id]) :
              /\ audit[id][k].event = "ShareReceived"
              /\ audit[id][k].signer = s.shares[i]
              /\ audit[id][k].at <= ExpiresAt(s)
        BY <4>1, <3>2 DEF ShareLoggedInWindow
      <4>3. k \in 1 .. Len(audit'[id]) /\ audit'[id][k] = audit[id][k]
        BY <3>1
      <4>4. sessions'[id] = s
        BY <1>3
      <4>5. /\ audit'[id][k].event = "ShareReceived"
            /\ audit'[id][k].signer = sessions'[id].shares[i]
            /\ audit'[id][k].at <= ExpiresAt(sessions'[id])
        BY <4>2, <4>3, <4>4
      <4> QED BY <2>2, <4>3, <4>5 DEF ShareLoggedInWindow
    <3>3. CASE /\ e.event = "ShareReceived"
               /\ e.signer = s.shares[i]
               /\ e.at <= ExpiresAt(s)
      <4>1. Len(audit[id]) + 1 \in 1 .. Len(audit'[id])
        BY <3>1
      <4> QED BY <3>1, <3>3, <4>1, <1>3, <2>2 DEF ShareLoggedInWindow
    <3> QED BY <1>3, <2>2, <3>2, <3>3
  <2> QED BY <2>1, <2>2
<1> QED BY <1>5, <1>6, <1>7

(* A submission after the window only marks the session Expired. *)
LEMMA ExpireStep ==
  ASSUME CoordinatorInv, NEW id \in Ids, ExpireOnSubmission(id),
         UNCHANGED <<clock, next_id, signatures>>
  PROVE  CoordinatorInv'
<1> DEFINE s == [sessions[id] EXCEPT !.state = "Expired"]
           e == [event |-> "Expired", signer |-> NoSigner, at |-> clock]
<1>1. /\ TypeOK /\ PhaseEarned /\ SharesLogged /\ SignatureSettled
      /\ sessions[id] \in CoordinatorSession
  BY DEF CoordinatorInv, TypeOK
<1>2. s \in CoordinatorSession /\ e \in AuditEntry
  BY <1>1, ZenonT(30) DEF TypeOK, CoordinatorSession, SessionState, AuditEntry, AuditEvent
<1>3. /\ sessions' = [sessions EXCEPT ![id] = s]
      /\ audit' = [audit EXCEPT ![id] = Append(@, e)]
  BY DEF ExpireOnSubmission, Logged
<1>4. /\ s.shares = sessions[id].shares
      /\ s.commitments = sessions[id].commitments
      /\ s.threshold = sessions[id].threshold
      /\ s.state = "Expired"
      /\ ExpiresAt(s) = ExpiresAt(sessions[id])
  BY <1>1 DEF CoordinatorSession, ExpiresAt
<1>5. EarnsPhase(s)
  BY <1>1, <1>4 DEF PhaseEarned, EarnsPhase
<1>6. signatures' \in SUBSET AggregatedSignature
  BY <1>1 DEF TypeOK
<1> HIDE DEF s, e
<1>7. TypeOK' /\ PhaseEarned' /\ SharesLogged'
  BY <1>2, <1>3, <1>4, <1>5, <1>6, OneSessionStep, ZenonT(30)
<1>8. SignatureSettled'
  BY <1>1, <1>3, <1>4 DEF SignatureSettled, Ids, ThresholdMet, TypeOK
<1> QED BY <1>7, <1>8 DEF CoordinatorInv

(* An accepted commitment: the session was Pending, so it has no signature. *)
LEMMA CommitmentStep ==
  ASSUME CoordinatorInv, NEW id \in Ids, NEW signer \in Signers,
         sessions[id].state = "Pending",
         ~Submitted(sessions[id].commitments, signer),
         AcceptCommitment(id, signer),
         UNCHANGED <<clock, next_id, signatures>>
  PROVE  CoordinatorInv'
<1> DEFINE old == sessions[id]
           list == Append(old.commitments, signer)
           s == [old EXCEPT !.commitments = list,
                            !.state = IF Len(list) >= old.threshold
                                      THEN "CommitmentsCollected"
                                      ELSE old.state]
           e == [event |-> "CommitmentReceived", signer |-> signer,
                 at |-> clock]
<1>1. /\ TypeOK /\ PhaseEarned /\ SharesLogged /\ SignatureSettled
      /\ old \in CoordinatorSession
  BY DEF CoordinatorInv, TypeOK
<1>2. EarnsPhase(old) /\ old.commitments \in Seq(Signers)
  BY <1>1 DEF PhaseEarned, CoordinatorSession
<1>3. /\ list \in Seq(Signers) /\ Distinct(list)
      /\ Len(list) = Len(old.commitments) + 1
  BY <1>2, DistinctAppend DEF EarnsPhase
<1>4. /\ s.shares = old.shares
      /\ s.commitments = list
      /\ s.threshold = old.threshold
      /\ s.state = IF Len(list) >= old.threshold
                   THEN "CommitmentsCollected" ELSE "Pending"
      /\ ExpiresAt(s) = ExpiresAt(old)
  BY <1>1 DEF CoordinatorSession, ExpiresAt
<1>5. /\ sessions' = [sessions EXCEPT ![id] = s]
      /\ audit' = [audit EXCEPT ![id] = Append(@, e)]
  BY DEF AcceptCommitment, Logged
<1>6. s \in CoordinatorSession /\ e \in AuditEntry
  BY <1>1, <1>3, ZenonT(30)
     DEF TypeOK, CoordinatorSession, SessionState, AuditEntry, AuditEvent
<1>7. Len(list) \in Nat /\ old.threshold \in Nat
  BY <1>1, <1>3 DEF CoordinatorSession
<1> HIDE DEF s, e, list
<1>8. EarnsPhase(s)
  BY <1>2, <1>3, <1>4, <1>7 DEF EarnsPhase
<1>9. TypeOK' /\ PhaseEarned' /\ SharesLogged'
  <2>1. signatures' \in SUBSET AggregatedSignature
    BY <1>1 DEF TypeOK
  <2> QED BY <1>4, <1>5, <1>6, <1>8, <2>1, OneSessionStep, ZenonT(30)
<1>10. SignatureSettled'
  <2>1. \A sig \in signatures : sig.session # id
    BY <1>1 DEF SignatureSettled
  <2> QED BY <1>1, <1>5, <2>1 DEF SignatureSettled, Ids, TypeOK
<1> QED BY <1>9, <1>10 DEF CoordinatorInv

(* An accepted share: it is audited at a time inside the window, and the   *)
(* session has no signature because it is still open.                      *)
LEMMA ShareStep ==
  ASSUME CoordinatorInv, NEW id \in Ids, NEW signer \in Signers,
         sessions[id].state \in {"CommitmentsCollected", "Pending"},
         IsUnlocked(sessions[id], clock),
         ~Submitted(sessions[id].shares, signer),
         AcceptShare(id, signer),
         UNCHANGED <<clock, next_id, signatures>>
  PROVE  CoordinatorInv'
<1> DEFINE old == sessions[id]
           list == Append(old.shares, signer)
           s == [old EXCEPT !.shares = list]
           e == [event |-> "ShareReceived", signer |-> signer, at |-> clock]
<1>1. /\ TypeOK /\ PhaseEarned /\ SharesLogged /\ SignatureSettled
      /\ old \in CoordinatorSession
  BY DEF CoordinatorInv, TypeOK
<1>2. EarnsPhase(old) /\ old.shares \in Seq(Signers)
  BY <1>1 DEF PhaseEarned, CoordinatorSession
<1>3. /\ list \in Seq(Signers) /\ Distinct(list)
      /\ Len(list) = Len(old.shares) + 1
      /\ list[Len(old.shares) + 1] = signer
      /\ \A i \in 1 .. Len(old.shares) : list[i] = old.shares[i]
  BY <1>2, DistinctAppend, AppendKeeps DEF EarnsPhase
<1>4. /\ s.shares = list
      /\ s.commitments = old.commitments
      /\ s.threshold = old.threshold
      /\ s.state = old.state
      /\ ExpiresAt(s) = ExpiresAt(old)
  BY <1>1 DEF CoordinatorSession, ExpiresAt
<1>5. /\ sessions' = [sessions EXCEPT ![id] = s]
      /\ audit' = [audit EXCEPT ![id] = Append(@, e)]
  BY DEF AcceptShare, Logged
<1>6. s \in CoordinatorSession /\ e \in AuditEntry
  BY <1>1, <1>3, ZenonT(30)
     DEF TypeOK, CoordinatorSession, SessionState, AuditEntry, AuditEvent
<1>7. /\ e.event = "ShareReceived" /\ e.signer = signer
      /\ e.at <= ExpiresAt(s)
  BY <1>4 DEF IsUnlocked
<1> HIDE DEF s, e, list
<1>8. EarnsPhase(s)
  BY <1>2, <1>3, <1>4 DEF EarnsPhase
<1>9. \A i \in 1 .. Len(s.shares) :
        \/ /\ i \in 1 .. Len(old.shares)
           /\ s.shares[i] = old.shares[i]
        \/ /\ e.event = "ShareReceived"
           /\ e.signer = s.shares[i]
           /\ e.at <= ExpiresAt(s)
  <2>1. Len(old.shares) \in Nat
    BY <1>2
  <2>2. \A i \in 1 .. Len(list) :
          i \in 1 .. Len(old.shares) \/ i = Len(old.shares) + 1
    BY <1>3, <2>1
  <2> QED BY <1>3, <1>4, <1>7, <2>2
<1>10. TypeOK' /\ PhaseEarned' /\ SharesLogged'
  <2>1. signatures' \in SUBSET AggregatedSignature
    BY <1>1 DEF TypeOK
  <2> HIDE DEF old
  <2> QED BY <1>4, <1>5, <1>6, <1>8, <1>9, <2>1, OneSessionStep, ZenonT(30) DEF old
<1>11. SignatureSettled'
  <2>1. \A sig \in signatures : sig.session # id
    BY <1>1 DEF SignatureSettled
  <2> QED BY <1>1, <1>5, <2>1 DEF SignatureSettled, Ids, TypeOK
<1> QED BY <1>10, <1>11 DEF CoordinatorInv

(* `aggregate` adds the signature over the shares the session holds. *)
LEMMA AggregateStep ==
  ASSUME CoordinatorInv, NEW id \in Ids, Aggregate(id)
  PROVE  CoordinatorInv'
<1> DEFINE s == [sessions[id] EXCEPT !.state = "Completed"]
           e == [event |-> "Aggregated", signer |-> NoSigner, at |-> clock]
           new == [session |-> id, signers |-> sessions[id].shares]
<1>1. /\ TypeOK /\ PhaseEarned /\ SharesLogged /\ SignatureSettled
      /\ sessions[id] \in CoordinatorSession
      /\ next_id \in Nat
  BY DEF CoordinatorInv, TypeOK
<1>2. s \in CoordinatorSession /\ e \in AuditEntry
  BY <1>1, ZenonT(30) DEF TypeOK, CoordinatorSession, SessionState, AuditEntry, AuditEvent
<1>3. /\ sessions' = [sessions EXCEPT ![id] = s]
      /\ audit' = [audit EXCEPT ![id] = Append(@, e)]
      /\ signatures' = signatures \cup {new}
      /\ ThresholdMet(sessions[id])
      /\ clock' = clock /\ next_id' = next_id
  BY DEF Aggregate, Logged
<1>4. /\ s.shares = sessions[id].shares
      /\ s.commitments = sessions[id].commitments
      /\ s.threshold = sessions[id].threshold
      /\ s.state = "Completed"
      /\ ExpiresAt(s) = ExpiresAt(sessions[id])
      /\ new.session = id /\ new.signers = s.shares
  BY <1>1 DEF CoordinatorSession, ExpiresAt
<1>5. EarnsPhase(s)
  BY <1>1, <1>3, <1>4 DEF PhaseEarned, EarnsPhase, ThresholdMet
<1>6. signatures' \in SUBSET AggregatedSignature
  <2>1. new \in AggregatedSignature
    BY <1>1 DEF AggregatedSignature, CoordinatorSession, Ids
  <2> QED BY <1>1, <1>3, <2>1 DEF TypeOK
<1> HIDE DEF s, e, new
<1>7. TypeOK' /\ PhaseEarned' /\ SharesLogged'
  BY <1>2, <1>3, <1>4, <1>5, <1>6, OneSessionStep, ZenonT(30)
<1>8. SignatureSettled'
  BY <1>1, <1>3, <1>4 DEF SignatureSettled, Ids, ThresholdMet, TypeOK
<1> QED BY <1>7, <1>8 DEF CoordinatorInv

(* A new session takes a fresh id and holds nothing. *)
LEMMA CreateStep ==
  ASSUME CoordinatorInv, NEW t \in Thresholds, NEW w \in Windows,
         CreateSession(t, w)
  PROVE  CoordinatorInv'
<1> DEFINE s == [state |-> "Pending", threshold |-> t, window |-> w,
                 created_at |-> clock, commitments |-> <<>>, shares |-> <<>>]
           e == [event |-> "SessionCreated", signer |-> NoSigner, at |-> clock]
<1>1. TypeOK /\ PhaseEarned /\ SharesLogged /\ SignatureSettled
  BY DEF CoordinatorInv
<1>2. s \in CoordinatorSession /\ <<e>> \in Seq(AuditEntry)
  BY <1>1, CoordinatorAssumption
     DEF TypeOK, CoordinatorSession, SessionState, AuditEntry, AuditEvent
<1>3. /\ Ids' = 0 .. next_id
      /\ \A j \in Ids' : j \in Ids \/ j = next_id
      /\ \A j \in Ids : j \in Ids' /\ j # next_id
      /\ next_id \in Ids' /\ next_id' \in Nat
  BY <1>1 DEF Ids, CreateSession, TypeOK
<1>4. /\ sessions' = [j \in 0 .. next_id |->
                        IF j = next_id THEN s ELSE sessions[j]]
      /\ audit' = [j \in 0 .. next_id |->
                     IF j = next_id THEN <<e>> ELSE audit[j]]
      /\ clock' = clock /\ signatures' = signatures
  BY DEF CreateSession
<1>5. /\ sessions'[next_id] = s
      /\ \A j \in Ids : sessions'[j] = sessions[j] /\ audit'[j] = audit[j]
  BY <1>3, <1>4
<1>6. EarnsPhase(s) /\ s.shares = <<>>
  BY DEF EarnsPhase, Distinct
<1> HIDE DEF s, e
<1>7. TypeOK'
  BY <1>1, <1>2, <1>3, <1>4 DEF TypeOK
<1>8. PhaseEarned'
  BY <1>1, <1>3, <1>5, <1>6 DEF PhaseEarned
<1>9. SharesLogged'
  <2> SUFFICES ASSUME NEW j \in Ids',
                      NEW i \in (1 .. Len(sessions[j].shares))'
               PROVE  ShareLoggedInWindow(j, sessions[j].shares[i])'
    BY DEF SharesLogged
  <2>1. j \in Ids
    BY <1>3, <1>5, <1>6
  <2> QED BY <1>1, <1>5, <2>1 DEF SharesLogged, ShareLoggedInWindow
<1>10. SignatureSettled'
  BY <1>1, <1>3, <1>4, <1>5 DEF SignatureSettled
<1> QED BY <1>7, <1>8, <1>9, <1>10 DEF CoordinatorInv

(* A pass of the reaper marks Pending sessions, which have no signature. *)
LEMMA ReapStep ==
  ASSUME CoordinatorInv, Reap
  PROVE  CoordinatorInv'
<1> DEFINE e == [event |-> "Expired", signer |-> NoSigner, at |-> clock]
           s(j) == [sessions[j] EXCEPT !.state = "Expired"]
<1>1. TypeOK /\ PhaseEarned /\ SharesLogged /\ SignatureSettled
  BY DEF CoordinatorInv
<1>2. /\ Ids' = Ids /\ clock' = clock /\ next_id' = next_id
      /\ signatures' = signatures
  BY DEF Reap, Ids
<1>3. /\ sessions' = [j \in Ids |-> IF Stale(j) THEN s(j) ELSE sessions[j]]
      /\ audit' = [j \in Ids |->
                     IF Stale(j) THEN Append(audit[j], e) ELSE audit[j]]
  BY DEF Reap
<1>4. e \in AuditEntry
  BY <1>1 DEF TypeOK, AuditEntry, AuditEvent
<1> HIDE DEF e
<1>5. \A j \in Ids :
        /\ sessions'[j] \in CoordinatorSession
        /\ sessions'[j].shares = sessions[j].shares
        /\ sessions'[j].commitments = sessions[j].commitments
        /\ sessions'[j].threshold = sessions[j].threshold
        /\ sessions'[j].state = IF Stale(j) THEN "Expired"
                                ELSE sessions[j].state
        /\ ExpiresAt(sessions'[j]) = ExpiresAt(sessions[j])
  BY <1>1, <1>3, ZenonT(30) DEF TypeOK, CoordinatorSession, SessionState, ExpiresAt
<1>6. \A j \in Ids :
        /\ audit'[j] \in Seq(AuditEntry)
        /\ \A k \in 1 .. Len(audit[j]) :
             k \in 1 .. Len(audit'[j]) /\ audit'[j][k] = audit[j][k]
  <2> SUFFICES ASSUME NEW j \in Ids
               PROVE  /\ audit'[j] \in Seq(AuditEntry)
                      /\ \A k \in 1 .. Len(audit[j]) :
                           /\ k \in 1 .. Len(audit'[j])
                           /\ audit'[j][k] = audit[j][k]
    OBVIOUS
  <2>1. audit[j] \in Seq(AuditEntry)
    BY <1>1 DEF TypeOK
  <2>2. audit'[j] = audit[j] \/ audit'[j] = Append(audit[j], e)
    BY <1>3
  <2>3. /\ Append(audit[j], e) \in Seq(AuditEntry)
        /\ Len(Append(audit[j], e)) = Len(audit[j]) + 1
        /\ \A k \in 1 .. Len(audit[j]) : Append(audit[j], e)[k] = audit[j][k]
    BY <1>4, <2>1, AppendKeeps
  <2>4. Len(audit[j]) \in Nat
    BY <2>1
  <2>5. CASE audit'[j] = audit[j]
    BY <2>1, <2>5
  <2>6. CASE audit'[j] = Append(audit[j], e)
    <3> DEFINE longer == Append(audit[j], e)
    <3>1. \A k \in 1 .. Len(audit[j]) : k \in 1 .. Len(longer)
      BY <2>3, <2>4
    <3> HIDE DEF longer
    <3> QED BY <2>3, <2>6, <3>1 DEF longer
  <2> QED BY <2>2, <2>5, <2>6
<1>7. TypeOK'
  <2>1. sessions' \in [Ids -> CoordinatorSession]
    BY <1>3, <1>5
  <2>2. audit' \in [Ids -> Seq(AuditEntry)]
    BY <1>3, <1>6
  <2> QED BY <1>1, <1>2, <2>1, <2>2 DEF TypeOK
<1>8. PhaseEarned'
  <2> SUFFICES ASSUME NEW j \in Ids PROVE EarnsPhase(sessions[j])'
    BY <1>2 DEF PhaseEarned
  <2>1. EarnsPhase(sessions[j])
    BY <1>1 DEF PhaseEarned
  <2> QED BY <1>5, <2>1 DEF EarnsPhase, ThresholdMet
<1>9. SharesLogged'
  <2> SUFFICES ASSUME NEW j \in Ids,
                      NEW i \in (1 .. Len(sessions[j].shares))'
               PROVE  ShareLoggedInWindow(j, sessions[j].shares[i])'
    BY <1>2 DEF SharesLogged
  <2>1. ShareLoggedInWindow(j, sessions[j].shares[i])
    BY <1>1, <1>5 DEF SharesLogged
  <2> QED BY <1>5, <1>6, <2>1 DEF ShareLoggedInWindow
<1>10. SignatureSettled'
  BY <1>1, <1>2, <1>5 DEF SignatureSettled, ThresholdMet
<1> QED BY <1>7, <1>8, <1>9, <1>10 DEF CoordinatorInv

(* Every step of the coordinator, and every stuttering step, keeps the     *)
(* invariant.                                                              *)
LEMMA NextPreserves ==
  ASSUME CoordinatorInv, [Next]_vars
  PROVE  CoordinatorInv'
<1>1. ASSUME UNCHANGED <<next_id, sessions, audit, signatures>>,
             clock' \in Nat
      PROVE  CoordinatorInv'
  BY <1>1 DEF CoordinatorInv, TypeOK, Ids, PhaseEarned, SharesLogged,
              ShareLoggedInWindow, SignatureSettled
<1>2. CASE UNCHANGED vars
  BY <1>1, <1>2 DEF vars, CoordinatorInv, TypeOK
<1>3. CASE \E t \in Thresholds, w \in Windows : CreateSession(t, w)
  BY <1>3, CreateStep
<1>4. ASSUME NEW id \in 0 .. next_id, NEW signer \in Signers,
             SubmitCommitment(id, signer)
      PROVE  CoordinatorInv'
  <2>1. UNCHANGED <<clock, next_id, signatures>>
    BY <1>4 DEF SubmitCommitment
  <2>2. CASE /\ CommitmentVerdict(id, signer) = "Expired"
             /\ ExpireOnSubmission(id)
    <3>1. id \in Ids
      BY <2>2 DEF CommitmentVerdict
    <3> QED BY <2>1, <2>2, <3>1, ExpireStep
  <2>3. CASE /\ CommitmentVerdict(id, signer) = "Ok"
             /\ AcceptCommitment(id, signer)
    <3>1. /\ id \in Ids /\ sessions[id].state = "Pending"
          /\ ~Submitted(sessions[id].commitments, signer)
      BY <2>3 DEF CommitmentVerdict
    <3> QED BY <2>1, <2>3, <3>1, CommitmentStep
  <2>4. CASE UNCHANGED <<sessions, audit>>
    BY <1>1, <2>1, <2>4 DEF CoordinatorInv, TypeOK
  <2> QED BY <1>4, <2>2, <2>3, <2>4 DEF SubmitCommitment
<1>5. ASSUME NEW id \in 0 .. next_id, NEW signer \in Signers,
             SubmitShare(id, signer)
      PROVE  CoordinatorInv'
  <2>1. UNCHANGED <<clock, next_id, signatures>>
    BY <1>5 DEF SubmitShare
  <2>2. CASE /\ ShareVerdict(id, signer) = "Expired"
             /\ ExpireOnSubmission(id)
    <3>1. id \in Ids
      BY <2>2 DEF ShareVerdict
    <3> QED BY <2>1, <2>2, <3>1, ExpireStep
  <2>3. CASE /\ ShareVerdict(id, signer) = "Ok"
             /\ AcceptShare(id, signer)
    <3>1. /\ id \in Ids /\ IsUnlocked(sessions[id], clock)
          /\ sessions[id].state \in {"CommitmentsCollected", "Pending"}
          /\ ~Submitted(sessions[id].shares, signer)
      BY <2>3 DEF ShareVerdict
    <3> QED BY <2>1, <2>3, <3>1, ShareStep
  <2>4. CASE UNCHANGED <<sessions, audit>>
    BY <1>1, <2>1, <2>4 DEF CoordinatorInv, TypeOK
  <2> QED BY <1>5, <2>2, <2>3, <2>4 DEF SubmitShare
<1>6. CASE \E id \in Ids : Aggregate(id)
  BY <1>6, AggregateStep
<1>7. CASE Reap
  BY <1>7, ReapStep
<1>8. CASE Tick
  BY <1>1, <1>8 DEF Tick, CoordinatorInv, TypeOK
<1> QED BY <1>2, <1>3, <1>4, <1>5, <1>6, <1>7, <1>8 DEF Next

(* The invariant holds in every reachable state of the coordinator. *)
THEOREM CoordinatorInvariance == Spec => []CoordinatorInv
<1>1. Init => CoordinatorInv
  BY InitEstablishes
<1>2. CoordinatorInv /\ [Next]_vars => CoordinatorInv'
  BY NextPreserves
<1> QED BY <1>1, <1>2, PTL DEF Spec

(* Every variable of the coordinator keeps its type. *)
THEOREM TypeCorrect == Spec => []TypeOK
<1>1. CoordinatorInv => TypeOK
  BY DEF CoordinatorInv
<1> QED BY <1>1, CoordinatorInvariance, PTL

(* Every signature `aggregate` returns has T different contributors whose  *)
(* shares were received inside the unlock window.                          *)
THEOREM QuorumBacked == Spec => []SignatureBackedByQuorum
<1>1. CoordinatorInv => SignatureBackedByQuorum
  <2> SUFFICES ASSUME CoordinatorInv, NEW sig \in signatures
               PROVE  /\ Len(sig.signers) >= sessions[sig.session].threshold
                      /\ Distinct(sig.signers)
                      /\ \A i \in 1 .. Len(sig.signers) :
                           ShareLoggedInWindow(sig.session, sig.signers[i])
    BY DEF SignatureBackedByQuorum
  <2>1. /\ sig.session \in Ids
        /\ sig.signers = sessions[sig.session].shares
        /\ ThresholdMet(sessions[sig.session])
    BY DEF CoordinatorInv, SignatureSettled
  <2>2. Distinct(sig.signers)
    BY <2>1 DEF CoordinatorInv, PhaseEarned, EarnsPhase
  <2>3. \A i \in 1 .. Len(sig.signers) :
          ShareLoggedInWindow(sig.session, sig.signers[i])
    BY <2>1 DEF CoordinatorInv, SharesLogged
  <2> QED BY <2>1, <2>2, <2>3 DEF ThresholdMet
<1> QED BY <1>1, CoordinatorInvariance, PTL

(* Two signatures of one session have the same contributors, however often *)
(* `aggregate` is called and whatever is submitted between the calls.      *)
THEOREM ContributorsAgree == Spec => []OneContributorSet
<1>1. CoordinatorInv => OneContributorSet
  BY DEF CoordinatorInv, SignatureSettled, OneContributorSet
<1> QED BY <1>1, CoordinatorInvariance, PTL

(* Both, of every signature that was ever returned. *)
THEOREM SignaturesBacked == Spec => []SignaturesAreBacked
BY QuorumBacked, ContributorsAgree, PTL DEF SignaturesAreBacked

(* The phase a session reports is earned by distinct signers. *)
THEOREM PhasesEarned == Spec => []PhaseEarned
<1>1. CoordinatorInv => PhaseEarned
  BY DEF CoordinatorInv
<1> QED BY <1>1, CoordinatorInvariance, PTL

(* A closed session's commitments and shares never change, and it never    *)
(* reopens, whichever handler, aggregation or reaper pass comes next.      *)
THEOREM ClosedStaysFrozen == Spec => ClosedIsFrozen
<1> DEFINE Frozen == \A id \in Ids : Closed(sessions[id]) =>
                       /\ Closed(sessions'[id])
                       /\ sessions'[id].commitments = sessions[id].commitments
                       /\ sessions'[id].shares = sessions[id].shares
<1>1. CoordinatorInv /\ [Next]_vars => [Frozen]_vars
  <2> SUFFICES ASSUME CoordinatorInv, Next, NEW j \in Ids, Closed(sessions[j])
               PROVE  /\ Closed(sessions'[j])
                      /\ sessions'[j].commitments = sessions[j].commitments
                      /\ sessions'[j].shares = sessions[j].shares
    OBVIOUS
  <2>1. /\ next_id \in Nat /\ sessions \in [Ids -> CoordinatorSession]
        /\ sessions[j] \in CoordinatorSession
    BY DEF CoordinatorInv, TypeOK
  <2>2. CASE \E t \in Thresholds, w \in Windows : CreateSession(t, w)
    <3>1. sessions'[j] = sessions[j]
      BY <2>1, <2>2 DEF CreateSession, Ids
    <3> QED BY <3>1
  <2>3. ASSUME NEW id \in Ids, ExpireOnSubmission(id) \/ Aggregate(id)
        PROVE  /\ Closed(sessions'[j])
               /\ sessions'[j].commitments = sessions[j].commitments
               /\ sessions'[j].shares = sessions[j].shares
    <3>1. PICK st \in {"Expired", "Completed"} :
            sessions' = [sessions EXCEPT ![id].state = st]
      BY <2>3 DEF ExpireOnSubmission, Aggregate
    <3>2. \/ sessions'[j] = sessions[j]
          \/ sessions'[j] = [sessions[j] EXCEPT !.state = st]
      BY <2>1, <3>1
    <3> QED BY <2>1, <3>2 DEF Closed, CoordinatorSession
  <2>4. ASSUME NEW id \in 0 .. next_id, NEW signer \in Signers,
               SubmitCommitment(id, signer)
        PROVE  /\ Closed(sessions'[j])
               /\ sessions'[j].commitments = sessions[j].commitments
               /\ sessions'[j].shares = sessions[j].shares
    <3>1. CASE /\ CommitmentVerdict(id, signer) = "Expired"
               /\ ExpireOnSubmission(id)
      <4>1. id \in Ids
        BY <3>1 DEF CommitmentVerdict
      <4> QED BY <2>3, <3>1, <4>1
    <3>2. CASE /\ CommitmentVerdict(id, signer) = "Ok"
               /\ AcceptCommitment(id, signer)
      <4>1. sessions[id].state = "Pending"
        BY <3>2 DEF CommitmentVerdict
      <4>2. sessions'[j] = sessions[j]
        BY <2>1, <3>2, <4>1 DEF AcceptCommitment, Closed
      <4> QED BY <4>2
    <3> QED BY <2>4, <3>1, <3>2 DEF SubmitCommitment
  <2>5. ASSUME NEW id \in 0 .. next_id, NEW signer \in Signers,
               SubmitShare(id, signer)
        PROVE  /\ Closed(sessions'[j])
               /\ sessions'[j].commitments = sessions[j].commitments
               /\ sessions'[j].shares = sessions[j].shares
    <3>1. CASE /\ ShareVerdict(id, signer) = "Expired"
               /\ ExpireOnSubmission(id)
      <4>1. id \in Ids
        BY <3>1 DEF ShareVerdict
      <4> QED BY <2>3, <3>1, <4>1
    <3>2. CASE /\ ShareVerdict(id, signer) = "Ok"
               /\ AcceptShare(id, signer)
      <4>1. sessions[id].state \in {"CommitmentsCollected", "Pending"}
        BY <3>2 DEF ShareVerdict
      <4>2. sessions'[j] = sessions[j]
        BY <2>1, <3>2, <4>1 DEF AcceptShare, Closed
      <4> QED BY <4>2
    <3> QED BY <2>5, <3>1, <3>2 DEF SubmitShare
  <2>6. CASE Reap
    BY <2>1, <2>6 DEF Reap, Stale, Closed
  <2>7. CASE Tick
    BY <2>7 DEF Tick
  <2> QED BY <2>2, <2>3, <2>4, <2>5, <2>6, <2>7 DEF Next
<1> QED BY <1>1, CoordinatorInvariance, PTL DEF Spec, ClosedIsFrozen

-----------------------------------------------------------------------------
(* The audit log. *)

(* f lists what a log leaves of s0, one entry after the other. *)
IsReplay(f, s0, log) ==
  f = [k \in 0 .. Len(log) |-> IF k = 0 THEN s0 ELSE Replayed(f[k - 1], log[k])]

(* A log replays, and ends in s.  The recursive function of ReplayOf is    *)
(* some f with IsReplay, so that this says what it computes.               *)
ReplaysTo(s0, log, s) ==
  /\ \E f : IsReplay(f, s0, log)
  /\ \A f : IsReplay(f, s0, log) => f[Len(log)] = s

(* An empty log leaves what it starts from. *)
LEMMA ReplayEmpty ==
  ASSUME NEW s0 PROVE ReplaysTo(s0, <<>>, s0)
<1>1. IsReplay([k \in 0 .. 0 |-> s0], s0, <<>>)
  BY DEF IsReplay
<1>2. ASSUME NEW f, IsReplay(f, s0, <<>>) PROVE f[0] = s0
  BY <1>2 DEF IsReplay
<1> QED
  BY <1>1, <1>2 DEF ReplaysTo

(* One more entry is one more step of the replay. *)
LEMMA ReplayAppend ==
  ASSUME NEW s0, NEW s, NEW log \in Seq(AuditEntry), NEW e \in AuditEntry,
         ReplaysTo(s0, log, s)
  PROVE  ReplaysTo(s0, Append(log, e), Replayed(s, e))
<1> DEFINE n == Len(log)
           longer == Append(log, e)
<1>1. /\ n \in Nat /\ Len(longer) = n + 1 /\ longer[n + 1] = e
      /\ \A k \in 1 .. n : longer[k] = log[k]
  OBVIOUS
<1> HIDE DEF n, longer
<1>2. Len(log) = n
  BY DEF n
<1>3. PICK f : IsReplay(f, s0, log)
  BY DEF ReplaysTo
<1>4. IsReplay([k \in 0 .. n + 1 |-> IF k <= n THEN f[k] ELSE Replayed(f[n], e)], s0, longer)
  <2> DEFINE g == [k \in 0 .. n + 1 |-> IF k <= n THEN f[k] ELSE Replayed(f[n], e)]
  <2>1. ASSUME NEW k \in 0 .. n + 1
        PROVE  g[k] = IF k = 0 THEN s0 ELSE Replayed(g[k - 1], longer[k])
    <3>1. CASE k = 0
      BY <1>1, <1>2, <1>3, <3>1 DEF IsReplay
    <3>2. CASE k \in 1 .. n
      <4>1. f[k] = Replayed(f[k - 1], log[k])
        BY <1>1, <1>2, <1>3, <3>2 DEF IsReplay
      <4>2. g[k] = f[k] /\ g[k - 1] = f[k - 1] /\ k # 0
        BY <1>1, <3>2
      <4> QED
        BY <1>1, <3>2, <4>1, <4>2
    <3>3. CASE k = n + 1
      <4>1. g[k] = Replayed(f[n], e) /\ g[k - 1] = f[n] /\ k # 0
        BY <1>1, <3>3
      <4> QED
        BY <1>1, <3>3, <4>1
    <3> QED
      BY <1>1, <3>1, <3>2, <3>3
  <2> QED
    BY <1>1, <2>1 DEF IsReplay
<1>5. ASSUME NEW h, IsReplay(h, s0, longer) PROVE h[n + 1] = Replayed(s, e)
  <2> DEFINE g == [k \in 0 .. n |-> h[k]]
  <2>1. \A k \in 0 .. n + 1 : h[k] = IF k = 0 THEN s0 ELSE Replayed(h[k - 1], longer[k])
    BY <1>1, <1>5 DEF IsReplay
  <2>2. ASSUME NEW k \in 0 .. n
        PROVE  g[k] = IF k = 0 THEN s0 ELSE Replayed(g[k - 1], log[k])
    <3>1. CASE k = 0
      BY <1>1, <2>1, <3>1
    <3>2. CASE k # 0
      <4>1. k \in 1 .. n /\ k \in 0 .. n + 1 /\ k - 1 \in 0 .. n
        BY <1>1, <3>2
      <4>2. h[k] = Replayed(h[k - 1], longer[k])
        BY <2>1, <3>2, <4>1
      <4> QED
        BY <1>1, <3>2, <4>1, <4>2
    <3> QED
      BY <3>1, <3>2
  <2>3. IsReplay(g, s0, log)
    BY <1>2, <2>2 DEF IsReplay
  <2>4. g[n] = s
    <3> HIDE DEF g
    <3> QED BY <1>2, <2>3 DEF ReplaysTo
  <2>5. h[n + 1] = Replayed(h[n], longer[n + 1])
    BY <1>1, <2>1
  <2> QED
    BY <1>1, <2>4, <2>5
<1>6. QED
  BY <1>1, <1>4, <1>5 DEF ReplaysTo, longer

(* What ReplayOf computes. *)
LEMMA ReplayOfEnds ==
  ASSUME NEW id, NEW s, ReplaysTo(Blank(id), audit[id], s)
  PROVE  ReplayOf(id)[Len(audit[id])] = s
<1>1. IsReplay(ReplayOf(id), Blank(id), audit[id])
  BY ZenonT(30) DEF ReplaysTo, IsReplay, ReplayOf
<1> QED
  BY <1>1 DEF ReplaysTo

(* The session j, and its log, as the step leaves them: unchanged, or one  *)
(* entry further.                                                          *)
Advances(j) ==
  \/ sessions'[j] = sessions[j] /\ audit'[j] = audit[j]
  \/ \E e \in AuditEntry :
       audit'[j] = Append(audit[j], e) /\ sessions'[j] = Replayed(sessions[j], e)

(* A call that writes one entry and the session that the entry makes. *)
LEMMA OneEntry ==
  ASSUME CoordinatorInv, NEW j \in Ids, NEW id \in Ids,
         NEW event \in AuditEvent, NEW signer \in Signers \cup {NoSigner}, NEW s,
         audit' = Logged(id, event, signer),
         sessions' = [sessions EXCEPT ![id] = s],
         s = Replayed(sessions[id], [event |-> event, signer |-> signer, at |-> clock])
  PROVE  Advances(j)
<1> DEFINE e == [event |-> event, signer |-> signer, at |-> clock]
<1>1. e \in AuditEntry
  BY DEF CoordinatorInv, TypeOK, AuditEntry
<1>2. CASE j = id
  <2>1. audit'[j] = Append(audit[j], e) /\ sessions'[j] = Replayed(sessions[j], e)
    BY <1>2 DEF CoordinatorInv, TypeOK, Logged
  <2> QED
    BY <1>1, <2>1 DEF Advances
<1>3. CASE j # id
  BY <1>3 DEF CoordinatorInv, TypeOK, Logged, Advances
<1> QED
  BY <1>2, <1>3

(* Every step of the coordinator or the reaper advances every session. *)
LEMMA EverySessionAdvances ==
  ASSUME CoordinatorInv, Next, NEW j \in Ids
  PROVE  Advances(j)
<1>1. /\ next_id \in Nat /\ sessions \in [Ids -> CoordinatorSession]
      /\ audit \in [Ids -> Seq(AuditEntry)] /\ sessions[j] \in CoordinatorSession
      /\ clock \in Nat
  BY DEF CoordinatorInv, TypeOK
<1>2. CASE \E t \in Thresholds, w \in Windows : CreateSession(t, w)
  BY <1>1, <1>2 DEF CreateSession, Ids, Advances
<1>3. ASSUME NEW id \in Ids, ExpireOnSubmission(id) PROVE Advances(j)
  <2>1. Replayed(sessions[id], [event |-> "Expired", signer |-> NoSigner, at |-> clock])
          = [sessions[id] EXCEPT !.state = "Expired"]
    BY DEF Replayed
  <2>2. sessions' = [sessions EXCEPT ![id] = [sessions[id] EXCEPT !.state = "Expired"]]
    BY <1>1, <1>3 DEF ExpireOnSubmission
  <2> QED
    BY <1>3, <2>1, <2>2, OneEntry, ZenonT(30) DEF ExpireOnSubmission, AuditEvent
<1>4. ASSUME NEW id \in Ids, Aggregate(id) PROVE Advances(j)
  <2>1. Replayed(sessions[id], [event |-> "Aggregated", signer |-> NoSigner, at |-> clock])
          = [sessions[id] EXCEPT !.state = "Completed"]
    BY DEF Replayed
  <2>2. sessions' = [sessions EXCEPT ![id] = [sessions[id] EXCEPT !.state = "Completed"]]
    BY <1>1, <1>4 DEF Aggregate
  <2> QED
    BY <1>4, <2>1, <2>2, OneEntry, ZenonT(30) DEF Aggregate, AuditEvent
<1>5. ASSUME NEW id \in 0 .. next_id, NEW signer \in Signers, SubmitCommitment(id, signer)
      PROVE  Advances(j)
  <2>1. CASE CommitmentVerdict(id, signer) = "Expired" /\ ExpireOnSubmission(id)
    BY <1>3, <2>1 DEF CommitmentVerdict
  <2>2. CASE CommitmentVerdict(id, signer) = "Ok" /\ AcceptCommitment(id, signer)
    <3>1. id \in Ids
      BY <2>2 DEF CommitmentVerdict
    <3> DEFINE s == sessions[id]
               list == Append(s.commitments, signer)
               new == [s EXCEPT !.commitments = list,
                                !.state = IF Len(list) >= s.threshold
                                          THEN "CommitmentsCollected" ELSE s.state]
    <3>2. s \in CoordinatorSession /\ Len(list) = Len(s.commitments) + 1
      BY <1>1, <3>1 DEF CoordinatorSession
    <3>3. Replayed(s, [event |-> "CommitmentReceived", signer |-> signer, at |-> clock]) = new
      BY <3>2 DEF Replayed, CoordinatorSession
    <3>4. /\ sessions' = [sessions EXCEPT ![id] = new]
          /\ audit' = Logged(id, "CommitmentReceived", signer)
      BY <2>2 DEF AcceptCommitment
    <3> HIDE DEF new
    <3> QED
      BY <3>1, <3>3, <3>4, OneEntry, ZenonT(30) DEF AuditEvent
  <2>3. CASE UNCHANGED <<sessions, audit>>
    BY <2>3 DEF Advances
  <2> QED
    BY <1>5, <2>1, <2>2, <2>3 DEF SubmitCommitment
<1>6. ASSUME NEW id \in 0 .. next_id, NEW signer \in Signers, SubmitShare(id, signer)
      PROVE  Advances(j)
  <2>1. CASE ShareVerdict(id, signer) = "Expired" /\ ExpireOnSubmission(id)
    BY <1>3, <2>1 DEF ShareVerdict
  <2>2. CASE ShareVerdict(id, signer) = "Ok" /\ AcceptShare(id, signer)
    <3>1. id \in Ids
      BY <2>2 DEF ShareVerdict
    <3> DEFINE s == sessions[id]
               new == [s EXCEPT !.shares = Append(s.shares, signer)]
    <3>2. Replayed(s, [event |-> "ShareReceived", signer |-> signer, at |-> clock]) = new
      BY DEF Replayed
    <3>3. /\ sessions' = [sessions EXCEPT ![id] = new]
          /\ audit' = Logged(id, "ShareReceived", signer)
      BY <2>2 DEF AcceptShare
    <3> HIDE DEF new
    <3> QED
      BY <3>1, <3>2, <3>3, OneEntry, ZenonT(30) DEF AuditEvent
  <2>3. CASE UNCHANGED <<sessions, audit>>
    BY <2>3 DEF Advances
  <2> QED
    BY <1>6, <2>1, <2>2, <2>3 DEF SubmitShare
<1>7. CASE Reap
  <2> DEFINE e == [event |-> "Expired", signer |-> NoSigner, at |-> clock]
  <2>1. e \in AuditEntry
    BY <1>1 DEF AuditEntry, AuditEvent
  <2>2. Replayed(sessions[j], e) = [sessions[j] EXCEPT !.state = "Expired"]
    BY DEF Replayed
  <2>3. CASE Stale(j)
    <3>1. audit'[j] = Append(audit[j], e) /\ sessions'[j] = Replayed(sessions[j], e)
      BY <1>7, <2>2, <2>3 DEF Reap
    <3> QED
      BY <2>1, <3>1 DEF Advances
  <2>4. CASE ~Stale(j)
    BY <1>7, <2>4 DEF Reap, Advances
  <2> QED
    BY <2>3, <2>4
<1>8. CASE Tick
  BY <1>8 DEF Tick, Advances
<1> QED
  BY <1>2, <1>4, <1>5, <1>6, <1>7, <1>8 DEF Next

(* An entry touches neither the threshold nor the window. *)
LEMMA ReplayedKeeps ==
  ASSUME NEW s \in CoordinatorSession, NEW e \in AuditEntry
  PROVE  Replayed(s, e).threshold = s.threshold /\ Replayed(s, e).window = s.window
BY DEF Replayed, CoordinatorSession

(* The audit log of every session replays to the session. *)
ReplayInv == \A id \in Ids : ReplaysTo(Blank(id), audit[id], sessions[id])

(* Every step keeps it. *)
LEMMA ReplayStep ==
  ASSUME CoordinatorInv, CoordinatorInv', ReplayInv, [Next]_vars
  PROVE  ReplayInv'
<1>1. CASE UNCHANGED vars
  BY <1>1 DEF vars, ReplayInv, Ids, Blank
<1>2. ASSUME Next, NEW j \in Ids
      PROVE  ReplaysTo(Blank(j)', audit'[j], sessions'[j])
  <2>1. /\ sessions[j] \in CoordinatorSession /\ audit[j] \in Seq(AuditEntry)
        /\ ReplaysTo(Blank(j), audit[j], sessions[j])
    BY DEF CoordinatorInv, TypeOK, ReplayInv
  <2>2. CASE sessions'[j] = sessions[j] /\ audit'[j] = audit[j]
    <3>1. Blank(j)' = Blank(j)
      BY <2>2 DEF Blank
    <3> QED
      BY <2>1, <2>2, <3>1
  <2>3. ASSUME NEW e \in AuditEntry, audit'[j] = Append(audit[j], e),
               sessions'[j] = Replayed(sessions[j], e)
        PROVE  ReplaysTo(Blank(j)', audit'[j], sessions'[j])
    <3>1. Blank(j)' = Blank(j)
      BY <2>1, <2>3, ReplayedKeeps DEF Blank
    <3> QED
      BY <2>1, <2>3, <3>1, ReplayAppend
  <2> QED
    BY <1>2, <2>2, <2>3, EverySessionAdvances DEF Advances
<1>3. ASSUME NEW t \in Thresholds, NEW w \in Windows, CreateSession(t, w),
             NEW n, n = next_id
      PROVE  ReplaysTo(Blank(n)', audit'[n], sessions'[n])
  <2> DEFINE e == [event |-> "SessionCreated", signer |-> NoSigner, at |-> clock]
             new == [state |-> "Pending", threshold |-> t, window |-> w,
                     created_at |-> clock, commitments |-> <<>>, shares |-> <<>>]
             blank == [state |-> "Pending", threshold |-> t, window |-> w,
                       created_at |-> 0, commitments |-> <<>>, shares |-> <<>>]
  <2>1. n \in 0 .. next_id /\ e \in AuditEntry
    BY <1>3 DEF CoordinatorInv, TypeOK, AuditEntry, AuditEvent
  <2>2. sessions'[n] = new /\ audit'[n] = <<e>>
    BY <1>3, <2>1 DEF CreateSession
  <2>3. Blank(n)' = blank
    BY <2>2 DEF Blank
  <2>4. Replayed(blank, e) = new
    BY ZenonT(30) DEF Replayed
  <2>5. <<>> \in Seq(AuditEntry) /\ Append(<<>>, e) = <<e>>
    OBVIOUS
  <2> HIDE DEF e, new, blank
  <2>6. ReplaysTo(blank, <<e>>, new)
    BY <2>1, <2>4, <2>5, ReplayEmpty, ReplayAppend, ZenonT(30)
  <2> QED
    BY <2>2, <2>3, <2>6
<1>4. CASE Next
  <2> SUFFICES ASSUME NEW j \in Ids' PROVE ReplaysTo(Blank(j)', audit'[j], sessions'[j])
    BY DEF ReplayInv
  <2>1. CASE j \in Ids
    BY <1>2, <1>4, <2>1
  <2>2. CASE j \notin Ids
    <3>1. PICK t \in Thresholds, w \in Windows : CreateSession(t, w)
      BY <1>4, <2>2 DEF Next, Ids, SubmitCommitment, SubmitShare, Aggregate, Reap, Tick
    <3>2. j = next_id
      BY <2>2, <3>1 DEF CreateSession, Ids, CoordinatorInv, TypeOK
    <3> QED
      BY <1>3, <3>1, <3>2
  <2> QED
    BY <2>1, <2>2
<1> QED
  BY <1>1, <1>4

(* The audit log is complete: replayed in order, the entries of a session  *)
(* give back exactly the session, after every call and reaper pass.        *)
THEOREM AuditReplays == Spec => []AuditReplaysToSession
<1>1. Init => ReplayInv
  BY DEF Init, ReplayInv, Ids
<1>2. CoordinatorInv /\ CoordinatorInv' /\ ReplayInv /\ [Next]_vars => ReplayInv'
  BY ReplayStep
<1>3. ReplayInv => AuditReplaysToSession
  BY ReplayOfEnds DEF ReplayInv, AuditReplaysToSession
<1> QED
  BY <1>1, <1>2, <1>3, CoordinatorInvariance, PTL DEF Spec

-----------------------------------------------------------------------------
(* CoordinatorServer. *)

(* Requests about a session id stay requests as more sessions are created. *)
LEMMA RequestsGrow ==
  ASSUME next_id \in Nat, next_id' \in Nat, next_id' >= next_id
  PROVE  Requests \subseteq Requests'
<1>1. 0 .. next_id \subseteq 0 .. next_id'
  OBVIOUS
<1> QED BY <1>1 DEF Requests

(* A request has the fields its kind calls for. *)
LEMMA RequestFields ==
  ASSUME NEW r \in Requests
  PROVE  /\ r.op = "CreateSession" => r.threshold \in Thresholds
         /\ r.op \in {"Commitment", "Share"} =>
              r.id \in 0 .. next_id /\ r.signer \in Signers
BY DEF Requests

(* Taking the first message off a stream keeps the stream's type. *)
LEMMA HeadTail ==
  ASSUME NEW S, NEW q \in Seq(S), q # <<>>
  PROVE  Head(q) \in S /\ Tail(q) \in Seq(S)
OBVIOUS

(* The request at the head of a stream is well formed. *)
LEMMA HeadRequest ==
  ASSUME Streams, NEW k \in Conns, inbox[k] # <<>>
  PROVE  /\ Head(inbox[k]).request \in Requests
         /\ Head(inbox[k]).n \in Nat
<1>1. inbox[k] \in Seq([request : Requests, n : Nat])
  BY ZenonT(30) DEF Streams
<1>2. Head(inbox[k]) \in [request : Requests, n : Nat]
  BY <1>1, HeadTail, ZenonT(30)
<1> QED BY <1>2

(* Every step of the server is a step of the coordinator or leaves its     *)
(* variables unchanged.                                                    *)
LEMMA ServerStepRefines ==
  ASSUME ServerInv, [ServerNext]_all_vars
  PROVE  [Next]_vars
<1>1. CASE \/ UNCHANGED all_vars
           \/ \E k \in Conns, r \in Requests : Send(k, r)
           \/ \E k \in Conns : Receive(k) \/ TimeOut(k) \/ Close(k)
           \/ \E k \in Conns : HandleRegister(k) \/ HandleGetStatus(k)
  BY <1>1, ZenonT(30) DEF all_vars, vars, Send, Receive, TimeOut, Close, HandleRegister,
              HandleGetStatus
<1>2. CASE ReapLocked \/ (Tick /\ UNCHANGED server_vars)
  BY <1>2 DEF ReapLocked, Next
<1>3. ASSUME NEW k \in Conns, HandleCreateSession(k)
      PROVE  Next
  <2>1. Head(inbox[k]).request.threshold \in Thresholds
    BY <1>3, HeadRequest, RequestFields
       DEF HandleCreateSession, Handling, ServerInv
  <2> QED BY <1>3, <2>1 DEF HandleCreateSession, Next
<1>4. ASSUME NEW k \in Conns, HandleCommitment(k)
      PROVE  Next
  <2> DEFINE r == Head(inbox[k]).request
  <2>1. r.id \in 0 .. next_id /\ r.signer \in Signers
    BY <1>4, HeadRequest, RequestFields
       DEF HandleCommitment, Handling, ServerInv
  <2>2. SubmitCommitment(r.id, r.signer)
    BY <1>4 DEF HandleCommitment
  <2> QED BY <2>1, <2>2 DEF Next
<1>5. ASSUME NEW k \in Conns, HandleShare(k)
      PROVE  Next
  <2> DEFINE r == Head(inbox[k]).request
  <2>1. r.id \in 0 .. next_id /\ r.signer \in Signers
    BY <1>5, HeadRequest, RequestFields DEF HandleShare, Handling, ServerInv
  <2>2. SubmitShare(r.id, r.signer)
    BY <1>5 DEF HandleShare
  <2> QED BY <2>1, <2>2 DEF Next
<1>6. ASSUME NEW k \in Conns, HandleAggregate(k)
      PROVE  Next
  BY <1>6, ZenonT(30) DEF HandleAggregate, Aggregate, Next
<1> QED BY <1>1, <1>2, <1>3, <1>4, <1>5, <1>6 DEF ServerNext, Handle

(* Session ids are only ever added. *)
LEMMA NextIdGrows ==
  ASSUME CoordinatorInv, [Next]_vars
  PROVE  next_id \in Nat /\ next_id' \in Nat /\ next_id' >= next_id
<1>1. next_id \in Nat
  BY DEF CoordinatorInv, TypeOK
<1>2. next_id' = next_id \/ next_id' = next_id + 1
  BY DEF Next, vars, CreateSession, SubmitCommitment, SubmitShare, Aggregate,
         Reap, Tick
<1> QED BY <1>1, <1>2

Message == [request : Requests, n : Nat]

ClientRecord ==
  [call : Requests \cup {NoRequest}, n : Nat, timed : BOOLEAN,
   open : BOOLEAN, last : Requests \cup {NoRequest}, answer : AnswerMessage]

(* A list over a set is a list over any larger set. *)
LEMMA SeqWiden ==
  ASSUME NEW S, NEW T, S \subseteq T, NEW q \in Seq(S)
  PROVE  q \in Seq(T)
OBVIOUS

(* What is on the streams before a step has the types it needs after it. *)
LEMMA StreamsWiden ==
  ASSUME Streams, Requests \subseteq Requests'
  PROVE  /\ inbox \in [Conns -> Seq(Message')]
         /\ client \in [Conns -> ClientRecord']
         /\ Message \subseteq Message'
<1>1. Message \subseteq Message'
  BY DEF Message
<1>2. ClientRecord \subseteq ClientRecord'
  BY DEF ClientRecord, NoRequest, AnswerMessage
<1>3. /\ inbox \in [Conns -> Seq(Message)]
      /\ client \in [Conns -> ClientRecord]
  BY ZenonT(30) DEF Streams, Message, ClientRecord
<1>4. \A k \in Conns : inbox[k] \in Seq(Message')
  BY <1>1, <1>3, SeqWiden
<1>5. inbox = [k \in Conns |-> inbox[k]]
  BY <1>3
<1>6. client = [k \in Conns |-> client[k]]
      /\ \A k \in Conns : client[k] \in ClientRecord'
  BY <1>2, <1>3
<1>7. inbox \in [Conns -> Seq(Message')]
  BY <1>4, <1>5
<1>8. client \in [Conns -> ClientRecord']
  BY <1>6
<1> QED BY <1>1, <1>7, <1>8

(* The streams' types after a step, from those of the parts it changed. *)
LEMMA StreamsFrom ==
  ASSUME lock' \in Conns \cup {NoConn},
         thread' \in [Conns -> {"recv", "aggregate", "ended"}],
         inbox' \in [Conns -> Seq(Message')],
         outbox' \in [Conns -> Seq(AnswerMessage)],
         client' \in [Conns -> ClientRecord'],
         timeouts' \in Nat
  PROVE  Streams'
BY ZenonT(30) DEF Streams, Message, ClientRecord, AnswerMessage

(* An answer takes the request off its stream. *)
LEMMA AnswerStreams ==
  ASSUME Streams, Requests \subseteq Requests', NEW k \in Conns,
         NEW kind \in AnswerKind, inbox[k] # <<>>, Answer(k, kind),
         lock' \in Conns \cup {NoConn}
  PROVE  Streams'
<1>1. /\ inbox \in [Conns -> Seq(Message')]
      /\ client \in [Conns -> ClientRecord']
  BY StreamsWiden
<1>2. inbox' \in [Conns -> Seq(Message')]
  <2>1. Tail(inbox[k]) \in Seq(Message')
    BY <1>1, HeadTail
  <2> QED BY <1>1, <2>1 DEF Answer
<1>3. thread' \in [Conns -> {"recv", "aggregate", "ended"}]
  BY ZenonT(30) DEF Streams, Answer
<1>4. outbox' \in [Conns -> Seq(AnswerMessage)]
  <2> DEFINE m == [kind |-> kind, n |-> Head(inbox[k]).n]
  <2>1. m \in AnswerMessage
    BY HeadRequest DEF AnswerMessage
  <2>2. outbox[k] \in Seq(AnswerMessage)
    BY DEF Streams
  <2> HIDE DEF m
  <2>3. Append(outbox[k], m) \in Seq(AnswerMessage)
    BY <2>1, <2>2
  <2>4. \/ outbox' = outbox
        \/ outbox' = [outbox EXCEPT ![k] = Append(outbox[k], m)]
    BY DEF Answer, m
  <2> QED BY <2>3, <2>4, ZenonT(30) DEF Streams
<1>5. client' \in [Conns -> ClientRecord'] /\ timeouts' \in Nat
  BY <1>1 DEF Answer, Streams
<1> QED BY <1>2, <1>3, <1>4, <1>5, StreamsFrom

(* A client that starts a call, and one that is closed. *)
LEMMA ClientFlags ==
  ASSUME NEW R, NEW old \in [call : R, n : Nat, timed : BOOLEAN,
                             open : BOOLEAN, last : R, answer : AnswerMessage],
         NEW r \in R, NEW b \in BOOLEAN, NEW n \in Nat
  PROVE  /\ [old EXCEPT !.call = r, !.n = n, !.timed = b] \in
              [call : R, n : Nat, timed : BOOLEAN,
               open : BOOLEAN, last : R, answer : AnswerMessage]
         /\ [old EXCEPT !.open = b, !.call = r] \in
              [call : R, n : Nat, timed : BOOLEAN,
               open : BOOLEAN, last : R, answer : AnswerMessage]
BY ZenonT(30)

(* The client's own steps keep the types of the streams. *)
LEMMA ClientStreams ==
  ASSUME Streams, Requests \subseteq Requests', NEW k \in Conns,
         \/ \E r \in Requests : Send(k, r)
         \/ Receive(k)
         \/ TimeOut(k)
         \/ Close(k)
  PROVE  Streams'
<1>1. /\ inbox \in [Conns -> Seq(Message')]
      /\ client \in [Conns -> ClientRecord']
      /\ client[k] \in ClientRecord'
      /\ outbox \in [Conns -> Seq(AnswerMessage)]
      /\ timeouts \in Nat
  BY StreamsWiden, ZenonT(30) DEF Streams
<1>2. CASE \E r \in Requests : Send(k, r)
  <2>1. PICK r \in Requests : Send(k, r)
    BY <1>2
  <2> DEFINE m == [request |-> r, n |-> client[k].n + 1]
             c == [client[k] EXCEPT
                     !.call = r, !.n = client[k].n + 1,
                     !.timed = @ \/ r.op \in {"Commitment", "Share"}]
  <2>2. m \in Message'
    BY <1>1 DEF Message, ClientRecord
  <2>3. c \in ClientRecord'
    <3> DEFINE b == client[k].timed \/ r.op \in {"Commitment", "Share"}
    <3>1. b \in BOOLEAN
      OBVIOUS
    <3>2. r \in Requests' \cup {NoRequest'}
      OBVIOUS
    <3>3. client[k].n + 1 \in Nat
      BY <1>1 DEF ClientRecord
    <3> HIDE DEF b
    <3>4. [client[k] EXCEPT !.call = r, !.n = client[k].n + 1, !.timed = b]
            \in ClientRecord'
      BY <1>1, <3>1, <3>2, <3>3, ClientFlags, ZenonT(30) DEF ClientRecord, AnswerMessage
    <3> QED BY <3>4 DEF b
  <2>4. client' = [client EXCEPT ![k] = c]
    BY <2>1, ZenonT(30) DEF Send
  <2>5. inbox' = [inbox EXCEPT ![k] = Append(inbox[k], m)]
    BY <2>1, ZenonT(30) DEF Send
  <2> HIDE DEF m, c
  <2>6. Append(inbox[k], m) \in Seq(Message')
    BY <1>1, <2>2
  <2>7. inbox' \in [Conns -> Seq(Message')]
    BY <1>1, <2>5, <2>6
  <2>8. client' \in [Conns -> ClientRecord']
    BY <1>1, <2>3, <2>4
  <2> QED BY <1>1, <2>1, <2>7, <2>8, StreamsFrom, ZenonT(30) DEF Send, Streams
<1>3. CASE Receive(k)
  <2> DEFINE c == [client[k] EXCEPT !.call = NoRequest,
                                    !.last = client[k].call,
                                    !.answer = Head(outbox[k])]
  <2>1. outbox[k] \in Seq(AnswerMessage) /\ outbox[k] # <<>>
    BY <1>1, <1>3 DEF Receive
  <2>2. Head(outbox[k]) \in AnswerMessage
        /\ Tail(outbox[k]) \in Seq(AnswerMessage)
    BY <2>1, HeadTail
  <2>3. c \in ClientRecord'
    BY <1>1, <2>2, ZenonT(30) DEF ClientRecord, AnswerMessage, AnswerKind, NoRequest
  <2>4. client' = [client EXCEPT ![k] = c]
        /\ outbox' = [outbox EXCEPT ![k] = Tail(outbox[k])]
    BY <1>3, ZenonT(30) DEF Receive
  <2> HIDE DEF c
  <2>5. client' \in [Conns -> ClientRecord']
    BY <1>1, <2>3, <2>4
  <2>6. outbox' \in [Conns -> Seq(AnswerMessage)]
    BY <1>1, <2>2, <2>4
  <2> QED BY <1>1, <1>3, <2>5, <2>6, StreamsFrom DEF Receive, Streams
<1>4. CASE TimeOut(k)
  <2> DEFINE c == [client[k] EXCEPT
                     !.call = NoRequest,
                     !.last = client[k].call,
                     !.answer = [kind |-> "TimedOut", n |-> client[k].n]]
  <2>1. c \in ClientRecord'
    BY <1>1, ZenonT(30) DEF ClientRecord, AnswerMessage, AnswerKind, NoRequest
  <2>2. client' = [client EXCEPT ![k] = c]
    BY <1>4, ZenonT(30) DEF TimeOut
  <2> HIDE DEF c
  <2>3. client' \in [Conns -> ClientRecord']
    BY <1>1, <2>1, <2>2
  <2> QED BY <1>1, <1>4, <2>3, StreamsFrom DEF TimeOut, Streams
<1>5. CASE Close(k)
  <2> DEFINE c == [client[k] EXCEPT !.open = FALSE, !.call = NoRequest]
  <2>1. c \in ClientRecord'
    <3>1. NoRequest \in Requests' \cup {NoRequest'} /\ FALSE \in BOOLEAN
      BY DEF NoRequest
    <3> QED BY <1>1, <3>1, ClientFlags, ZenonT(30) DEF ClientRecord, AnswerMessage
  <2>2. client' = [client EXCEPT ![k] = c]
        /\ outbox' = [outbox EXCEPT ![k] = <<>>]
    BY <1>5, ZenonT(30) DEF Close
  <2> HIDE DEF c
  <2>3. client' \in [Conns -> ClientRecord']
    BY <1>1, <2>1, <2>2
  <2>4. outbox' \in [Conns -> Seq(AnswerMessage)]
    BY <1>1, <2>2
  <2> QED BY <1>1, <1>5, <2>3, <2>4, StreamsFrom DEF Close, Streams
<1> QED BY <1>2, <1>3, <1>4, <1>5

(* Every step keeps the types of the streams. *)
LEMMA StreamsStep ==
  ASSUME ServerInv, [ServerNext]_all_vars
  PROVE  Streams'
<1>1. Requests \subseteq Requests'
  BY ServerStepRefines, NextIdGrows, RequestsGrow DEF ServerInv
<1>2. Streams
  BY DEF ServerInv
<1>3. CASE UNCHANGED server_vars
  <2>1. /\ inbox' \in [Conns -> Seq(Message')]
        /\ client' \in [Conns -> ClientRecord']
    BY <1>1, <1>2, <1>3, StreamsWiden DEF server_vars
  <2> QED BY <1>2, <1>3, <2>1, StreamsFrom DEF server_vars, Streams
<1>4. CASE \E k \in Conns : \/ \E r \in Requests : Send(k, r)
                            \/ Receive(k) \/ TimeOut(k) \/ Close(k)
  BY <1>1, <1>2, <1>4, ClientStreams
<1>5. ASSUME NEW k \in Conns, Handle(k)
      PROVE  Streams'
  <2>1. ASSUME NEW kind \in AnswerKind, inbox[k] # <<>>, Answer(k, kind),
               lock' \in Conns \cup {NoConn}
        PROVE  Streams'
    BY <1>1, <1>2, <2>1, AnswerStreams
  <2>2. lock \in Conns \cup {NoConn} /\ NoConn \in Conns \cup {NoConn}
    BY <1>2 DEF Streams
  <2>3. CASE HandleRegister(k)
    BY <2>1, <2>2, <2>3 DEF HandleRegister, AnswerKind
  <2>4. CASE HandleCreateSession(k)
    BY <2>1, <2>2, <2>4 DEF HandleCreateSession, Handling, AnswerKind
  <2>5. CASE HandleCommitment(k)
    BY <2>1, <2>2, <2>5 DEF HandleCommitment, Handling, AnswerKind
  <2>6. CASE HandleShare(k)
    <3>1. CASE UNCHANGED lock /\ (Answer(k, "Error") \/ Answer(k, "Ack"))
      BY <2>1, <2>2, <2>6, <3>1 DEF HandleShare, Handling, AnswerKind
    <3>2. CASE /\ lock' = k
               /\ thread' = [thread EXCEPT ![k] = "aggregate"]
               /\ UNCHANGED <<inbox, outbox, client, timeouts>>
      <4>1. /\ inbox' \in [Conns -> Seq(Message')]
            /\ client' \in [Conns -> ClientRecord']
        BY <1>1, <1>2, <3>2, StreamsWiden
      <4> QED BY <1>2, <3>2, <4>1, StreamsFrom DEF Streams
    <3> QED BY <2>6, <3>1, <3>2 DEF HandleShare
  <2>7. CASE HandleAggregate(k)
    <3>1. inbox[k] # <<>>
      BY <2>7 DEF HandleAggregate, ServerInv, LockDiscipline
    <3> QED BY <2>1, <2>2, <2>7, <3>1 DEF HandleAggregate, AnswerKind
  <2>8. CASE HandleGetStatus(k)
    BY <2>1, <2>2, <2>8 DEF HandleGetStatus, Handling, AnswerKind
  <2> QED BY <1>5, <2>3, <2>4, <2>5, <2>6, <2>7, <2>8 DEF Handle
<1> QED BY <1>3, <1>4, <1>5 DEF ServerNext, ReapLocked, all_vars, server_vars

(* A message added at the end of a stream leaves its first one in place. *)
LEMMA HeadAppend ==
  ASSUME NEW S, NEW q \in Seq(S), NEW x \in S, q # <<>>
  PROVE  Append(q, x) # <<>> /\ Head(Append(q, x)) = Head(q)
OBVIOUS

(* Only the thread that holds the mutex takes its request off the stream,  *)
(* and it releases the mutex when it does.                                 *)
LEMMA HeldHeadStays ==
  ASSUME ServerInv, [ServerNext]_all_vars,
         NEW k \in Conns, lock = k, lock' = k
  PROVE  inbox[k] # <<>> /\ inbox'[k] # <<>>
         /\ Head(inbox'[k]) = Head(inbox[k])
<1>1. /\ inbox \in [Conns -> Seq(Message)] /\ inbox[k] # <<>>
      /\ thread[k] = "aggregate" /\ lock # NoConn
      /\ client \in [Conns -> ClientRecord]
  BY ServerAssumption, ZenonT(30)
     DEF ServerInv, Streams, LockDiscipline, Message, ClientRecord
<1>2. CASE inbox'[k] = inbox[k]
  BY <1>1, <1>2
<1>3. ASSUME NEW c \in Conns, NEW r \in Requests, Send(c, r)
      PROVE  inbox'[k] # <<>> /\ Head(inbox'[k]) = Head(inbox[k])
  <2> DEFINE m == [request |-> r, n |-> client[c].n + 1]
  <2>1. m \in Message
    BY <1>1 DEF Message, ClientRecord
  <2>2. inbox'[k] = inbox[k] \/ inbox'[k] = Append(inbox[k], m)
    BY <1>1, <1>3 DEF Send
  <2> HIDE DEF m
  <2>3. Append(inbox[k], m) # <<>> /\ Head(Append(inbox[k], m)) = Head(inbox[k])
    BY <1>1, <2>1, HeadAppend
  <2> QED BY <1>1, <2>2, <2>3
<1>4. ASSUME NEW c \in Conns, Handle(c)
      PROVE  inbox'[k] = inbox[k]
  <2>1. CASE c = k
    <3>1. thread[k] # "recv" /\ lock # NoConn
      BY <1>1
    <3> QED BY <1>4, <2>1, <3>1, ServerAssumption, ZenonT(30)
            DEF Handle, HandleRegister, HandleCreateSession, HandleCommitment,
                HandleShare, HandleAggregate, HandleGetStatus, Handling
  <2>2. CASE c # k
    BY <1>1, <1>4, <2>2, ZenonT(30)
       DEF Handle, HandleRegister, HandleCreateSession, HandleCommitment,
           HandleShare, HandleAggregate, HandleGetStatus, Answer
  <2> QED BY <2>1, <2>2
<1>5. CASE \/ \E c \in Conns : Receive(c) \/ TimeOut(c) \/ Close(c)
           \/ UNCHANGED server_vars
  BY <1>2, <1>5, ZenonT(30) DEF Receive, TimeOut, Close, server_vars
<1> QED BY <1>1, <1>3, <1>4, <1>5
        DEF ServerNext, all_vars, ReapLocked, server_vars

(* The mutex stays with the one thread that is about to aggregate. *)
LEMMA LockStep ==
  ASSUME ServerInv, [ServerNext]_all_vars
  PROVE  LockDiscipline'
<1>1. /\ LockDiscipline /\ Streams
      /\ thread \in [Conns -> {"recv", "aggregate", "ended"}]
  BY ZenonT(30) DEF ServerInv, Streams
<1>2. CASE UNCHANGED <<lock, thread>>
  BY <1>1, <1>2, HeldHeadStays DEF LockDiscipline
<1>3. ASSUME NEW k \in Conns, lock # k, lock' = lock, thread[k] # "aggregate",
             \E next \in {"recv", "ended"} :
               thread' = [thread EXCEPT ![k] = next]
      PROVE  LockDiscipline'
  BY <1>1, <1>3, HeldHeadStays DEF LockDiscipline
<1>4. ASSUME NEW k \in Conns, NEW kind, Answer(k, kind), thread[k] = "recv",
             lock' = lock
      PROVE  LockDiscipline'
  <2>1. lock # k
    BY <1>1, <1>4 DEF LockDiscipline
  <2> QED BY <1>3, <1>4, <2>1 DEF Answer
<1>5. ASSUME NEW k \in Conns, HandleShare(k)
      PROVE  LockDiscipline'
  <2>1. thread[k] = "recv" /\ lock = NoConn /\ inbox[k] # <<>>
        /\ Head(inbox[k]).request.op = "Share"
    BY <1>5 DEF HandleShare, Handling
  <2>2. CASE UNCHANGED lock /\ (Answer(k, "Error") \/ Answer(k, "Ack"))
    BY <1>4, <2>1, <2>2
  <2>3. CASE /\ lock' = k
             /\ thread' = [thread EXCEPT ![k] = "aggregate"]
             /\ UNCHANGED <<inbox, outbox, client, timeouts>>
    BY <1>1, <2>1, <2>3, ServerAssumption DEF LockDiscipline
  <2> QED BY <1>5, <2>2, <2>3 DEF HandleShare
<1>6. ASSUME NEW k \in Conns, HandleAggregate(k)
      PROVE  LockDiscipline'
  <2>1. lock = k /\ lock' = NoConn
    BY <1>1, <1>6 DEF HandleAggregate, LockDiscipline
  <2>2. PICK next \in {"recv", "ended"} :
          thread' = [thread EXCEPT ![k] = next]
    BY <1>6 DEF HandleAggregate, Answer
  <2> QED BY <1>1, <2>1, <2>2, ServerAssumption DEF LockDiscipline
<1>7. ASSUME NEW k \in Conns,
             \/ HandleRegister(k) \/ HandleCreateSession(k)
             \/ HandleCommitment(k) \/ HandleGetStatus(k)
      PROVE  LockDiscipline'
  BY <1>4, <1>7 DEF HandleRegister, HandleCreateSession, HandleCommitment,
                    HandleGetStatus, Handling
<1> QED BY <1>2, <1>5, <1>6, <1>7, ZenonT(30)
        DEF ServerNext, Handle, Send, Receive, TimeOut, Close, ReapLocked,
            all_vars, server_vars

(* What one more audit entry does to the record of aggregations. *)
LEMMA EntriesAppend ==
  ASSUME NEW id, audit[id] \in Seq(AuditEntry), NEW e \in AuditEntry,
         audit'[id] = Append(audit[id], e)
  PROVE  /\ e.event # "Aggregated" =>
              AggregatedEntries(id)' = AggregatedEntries(id)
         /\ AggregatedEntries(id)' \subseteq
              AggregatedEntries(id) \cup {Len(audit[id]) + 1}
<1>1. /\ Len(audit[id]) \in Nat
      /\ Len(audit'[id]) = Len(audit[id]) + 1
      /\ audit'[id][Len(audit[id]) + 1] = e
      /\ \A k \in 1 .. Len(audit[id]) : audit'[id][k] = audit[id][k]
  BY AppendKeeps
<1>2. \A i \in 1 .. Len(audit'[id]) :
        i \in 1 .. Len(audit[id]) \/ i = Len(audit[id]) + 1
  BY <1>1
<1>3. \A i \in 1 .. Len(audit[id]) : i \in 1 .. Len(audit'[id])
  BY <1>1
<1>4. ASSUME NEW i \in AggregatedEntries(id)'
      PROVE  i \in AggregatedEntries(id) \cup {Len(audit[id]) + 1}
  <2>1. i \in 1 .. Len(audit'[id]) /\ audit'[id][i].event = "Aggregated"
    BY <1>4 DEF AggregatedEntries
  <2> QED BY <1>1, <1>2, <2>1 DEF AggregatedEntries
<1>5. ASSUME NEW i \in AggregatedEntries(id)
      PROVE  i \in AggregatedEntries(id)'
  <2>1. i \in 1 .. Len(audit[id]) /\ audit[id][i].event = "Aggregated"
    BY <1>5 DEF AggregatedEntries
  <2>2. i \in 1 .. Len(audit'[id]) /\ audit'[id][i].event = "Aggregated"
    BY <1>1, <1>3, <2>1
  <2> QED BY <2>2 DEF AggregatedEntries
<1>6. ASSUME e.event # "Aggregated", NEW i \in AggregatedEntries(id)'
      PROVE  i \in AggregatedEntries(id)
  <2>1. audit'[id][i].event = "Aggregated"
    BY <1>6 DEF AggregatedEntries
  <2> QED BY <1>1, <1>4, <1>6, <2>1
<1> QED BY <1>4, <1>5, <1>6, ZenonT(30)

Taking(s) == s.state \in {"Pending", "CommitmentsCollected"}

(* A call made while the mutex is free, that rewrites one session and      *)
(* audits anything but an aggregation, keeps both statements about         *)
(* signing if it leaves the session's shares alone or the session short.   *)
LEMMA SigningOneSession ==
  ASSUME ServerInv, lock = NoConn,
         NEW id \in Ids, NEW s \in CoordinatorSession, NEW e \in AuditEntry,
         sessions' = [sessions EXCEPT ![id] = s],
         audit' = [audit EXCEPT ![id] = Append(@, e)],
         next_id' = next_id, signatures' = signatures,
         e.event # "Aggregated",
         s.threshold = sessions[id].threshold,
         Taking(sessions[id]) \/ s.shares = sessions[id].shares,
         Taking(s) =>
           /\ Taking(sessions[id])
           /\ \/ Len(s.shares) < Needed(s)
              \/ \E k \in Conns : lock' = k /\ Head(inbox'[k]).request.id = id
  PROVE  OpenIsShort' /\ SignedOnceByThreshold'
<1>1. /\ TypeOK /\ SignatureSettled /\ OpenIsShort /\ SignedOnceByThreshold
      /\ Ids' = Ids
  BY DEF ServerInv, CoordinatorInv, Ids
<1>2. /\ sessions'[id] = s
      /\ audit'[id] = Append(audit[id], e)
      /\ audit[id] \in Seq(AuditEntry)
      /\ \A j \in Ids : j # id => /\ sessions'[j] = sessions[j]
                                  /\ audit'[j] = audit[j]
  BY <1>1 DEF TypeOK
<1>3. \A j \in Ids : AggregatedEntries(j)' = AggregatedEntries(j)
  <2> TAKE j \in Ids
  <2>1. CASE j = id
    BY <1>2, <2>1, EntriesAppend
  <2>2. CASE j # id
    BY <1>2, <2>2 DEF AggregatedEntries
  <2> QED BY <2>1, <2>2
<1>4. OpenIsShort'
  <2> SUFFICES ASSUME NEW j \in Ids, Taking(sessions[j])'
               PROVE  /\ AggregatedEntries(j)' = {}
                      /\ \/ Len(sessions'[j].shares) < Needed(sessions'[j])
                         \/ \E k \in Conns : /\ lock' = k
                                            /\ Head(inbox'[k]).request.id = j
    BY <1>1 DEF OpenIsShort, Taking
  <2>1. Taking(sessions[j])
    BY <1>2
  <2>2. /\ AggregatedEntries(j) = {}
        /\ Len(sessions[j].shares) < Needed(sessions[j])
    BY <1>1, <2>1, ServerAssumption DEF OpenIsShort, Taking
  <2> QED BY <1>2, <1>3, <2>2
<1>5. SignedOnceByThreshold'
  <2> SUFFICES ASSUME NEW j \in Ids
               PROVE  /\ \A x, y \in AggregatedEntries(j)' : x = y
                      /\ \A sig \in signatures :
                           sig.session = j =>
                             Len(sig.signers) = Needed(sessions'[j])
    BY <1>1 DEF SignedOnceByThreshold
  <2>1. \A x, y \in AggregatedEntries(j)' : x = y
    BY <1>1, <1>3 DEF SignedOnceByThreshold
  <2>2. Needed(sessions'[j]) = Needed(sessions[j])
    BY <1>2 DEF Needed
  <2> QED BY <1>1, <2>1, <2>2 DEF SignedOnceByThreshold
<1> QED BY <1>4, <1>5

(* Steps that leave sessions, audit log and signatures alone. *)
LEMMA SigningUnchanged ==
  ASSUME ServerInv, [ServerNext]_all_vars,
         UNCHANGED <<next_id, sessions, audit, signatures, lock>>
  PROVE  OpenIsShort' /\ HeldIsReady' /\ SignedOnceByThreshold'
<1>1. /\ OpenIsShort /\ HeldIsReady /\ SignedOnceByThreshold /\ Ids' = Ids
      /\ \A j : AggregatedEntries(j)' = AggregatedEntries(j)
  BY DEF ServerInv, Ids, AggregatedEntries
<1>2. \A k \in Conns : lock = k => Head(inbox'[k]) = Head(inbox[k])
  BY HeldHeadStays
<1>3. OpenIsShort'
  BY <1>1, <1>2 DEF OpenIsShort
<1>4. HeldIsReady'
  BY <1>1, <1>2 DEF HeldIsReady
<1>5. SignedOnceByThreshold'
  BY <1>1 DEF SignedOnceByThreshold
<1> QED BY <1>3, <1>4, <1>5

(* HeldIsReady is about nothing when the mutex is free. *)
LEMMA FreeIsReady ==
  ASSUME lock' = NoConn
  PROVE  HeldIsReady'
BY ServerAssumption DEF HeldIsReady

(* A submission after the window, with the mutex free. *)
LEMMA ExpireSigning ==
  ASSUME ServerInv, lock = NoConn, NEW id \in Ids, ExpireOnSubmission(id),
         UNCHANGED <<clock, next_id, signatures>>
  PROVE  OpenIsShort' /\ SignedOnceByThreshold'
<1> DEFINE s == [sessions[id] EXCEPT !.state = "Expired"]
           e == [event |-> "Expired", signer |-> NoSigner, at |-> clock]
<1>1. /\ sessions[id] \in CoordinatorSession /\ clock \in Nat
      /\ sessions \in [Ids -> CoordinatorSession]
  BY DEF ServerInv, CoordinatorInv, TypeOK
<1>2. s \in CoordinatorSession /\ e \in AuditEntry /\ e.event # "Aggregated"
  BY <1>1, ZenonT(30) DEF CoordinatorSession, SessionState, AuditEntry, AuditEvent
<1>3. /\ sessions' = [sessions EXCEPT ![id] = s]
      /\ audit' = [audit EXCEPT ![id] = Append(@, e)]
  BY DEF ExpireOnSubmission, Logged
<1>4. s.shares = sessions[id].shares /\ s.threshold = sessions[id].threshold
      /\ ~Taking(s)
  BY <1>1 DEF CoordinatorSession, Taking
<1> HIDE DEF s, e
<1> QED BY <1>2, <1>3, <1>4, SigningOneSession, ZenonT(30)

(* Creating a session: it is short of its first share. *)
LEMMA CreateSigning ==
  ASSUME ServerInv, lock = NoConn, lock' = NoConn,
         NEW t \in Thresholds, NEW w \in Windows, CreateSession(t, w)
  PROVE  OpenIsShort' /\ SignedOnceByThreshold'
<1>1. /\ next_id \in Nat /\ OpenIsShort /\ SignedOnceByThreshold
      /\ SignatureSettled
  BY DEF ServerInv, CoordinatorInv, TypeOK
<1>0. PICK new \in Nat : new = next_id
  BY <1>1
<1>2. /\ \A j \in Ids' : j \in Ids \/ j = new
      /\ \A j \in Ids : j # new /\ j \in 0 .. new
      /\ new \in 0 .. new
  BY <1>0, <1>1 DEF Ids, CreateSession
<1>3. /\ \A j \in Ids : sessions'[j] = sessions[j] /\ audit'[j] = audit[j]
      /\ sessions'[new].shares = <<>>
      /\ sessions'[new].threshold = t
      /\ audit'[new] =
           <<[event |-> "SessionCreated", signer |-> NoSigner, at |-> clock]>>
      /\ signatures' = signatures
  BY <1>0, <1>2 DEF CreateSession
<1>4. \A j \in Ids : AggregatedEntries(j)' = AggregatedEntries(j)
  BY <1>3 DEF AggregatedEntries
<1>5. AggregatedEntries(new)' = {}
  BY <1>3 DEF AggregatedEntries
<1>6. Len(sessions'[new].shares) < Needed(sessions'[new])
  BY <1>3, CoordinatorAssumption DEF Needed
<1>7. OpenIsShort'
  <2> SUFFICES ASSUME NEW j \in Ids', Taking(sessions[j])'
               PROVE  /\ AggregatedEntries(j)' = {}
                      /\ Len(sessions'[j].shares) < Needed(sessions'[j])
    BY DEF OpenIsShort, Taking
  <2>1. CASE j = new
    BY <1>5, <1>6, <2>1
  <2>2. CASE j \in Ids
    <3>1. /\ AggregatedEntries(j) = {}
          /\ Len(sessions[j].shares) < Needed(sessions[j])
      BY <1>1, <1>3, <2>2, ServerAssumption DEF OpenIsShort, Taking
    <3> QED BY <1>3, <1>4, <2>2, <3>1
  <2> QED BY <1>2, <2>1, <2>2
<1>8. SignedOnceByThreshold'
  <2> SUFFICES ASSUME NEW j \in Ids'
               PROVE  /\ \A x, y \in AggregatedEntries(j)' : x = y
                      /\ \A sig \in signatures :
                           sig.session = j =>
                             Len(sig.signers) = Needed(sessions'[j])
    BY <1>3, ZenonT(30) DEF SignedOnceByThreshold
  <2>1. CASE j = new
    BY <1>1, <1>2, <1>5, <2>1 DEF SignatureSettled
  <2>2. CASE j \in Ids
    BY <1>1, <1>3, <1>4, <2>2, ZenonT(30) DEF SignedOnceByThreshold
  <2> QED BY <1>2, <2>1, <2>2
<1> QED BY <1>7, <1>8

(* The handler of a Commitment. *)
LEMMA CommitmentSigning ==
  ASSUME ServerInv, lock = NoConn, NEW id \in 0 .. next_id,
         NEW signer \in Signers, SubmitCommitment(id, signer), lock' = NoConn,
         [ServerNext]_all_vars
  PROVE  OpenIsShort' /\ SignedOnceByThreshold'
<1>1. UNCHANGED <<clock, next_id, signatures>>
  BY DEF SubmitCommitment
<1>2. CASE /\ CommitmentVerdict(id, signer) = "Expired"
           /\ ExpireOnSubmission(id)
  <2>1. id \in Ids
    BY <1>2 DEF CommitmentVerdict
  <2> QED BY <1>1, <1>2, <2>1, ExpireSigning
<1>3. CASE /\ CommitmentVerdict(id, signer) = "Ok"
           /\ AcceptCommitment(id, signer)
  <2> DEFINE old == sessions[id]
             list == Append(old.commitments, signer)
             s == [old EXCEPT !.commitments = list,
                              !.state = IF Len(list) >= old.threshold
                                        THEN "CommitmentsCollected"
                                        ELSE old.state]
             e == [event |-> "CommitmentReceived", signer |-> signer,
                   at |-> clock]
  <2>1. id \in Ids /\ old.state = "Pending"
    BY <1>3 DEF CommitmentVerdict
  <2>2. old \in CoordinatorSession /\ clock \in Nat /\ OpenIsShort
    BY <2>1 DEF ServerInv, CoordinatorInv, TypeOK
  <2>3. list \in Seq(Signers)
    BY <2>2 DEF CoordinatorSession
  <2>4. s \in CoordinatorSession /\ e \in AuditEntry /\ e.event # "Aggregated"
    BY <2>2, <2>3, ZenonT(30) DEF CoordinatorSession, SessionState, AuditEntry, AuditEvent
  <2>5. /\ sessions' = [sessions EXCEPT ![id] = s]
        /\ audit' = [audit EXCEPT ![id] = Append(@, e)]
    BY <1>3 DEF AcceptCommitment, Logged
  <2>6. s.shares = old.shares /\ s.threshold = old.threshold
    BY <2>2 DEF CoordinatorSession
  <2> HIDE DEF s, e, list
  <2>7. Taking(old) /\ Len(s.shares) < Needed(s)
    BY <2>1, <2>2, <2>6, ServerAssumption DEF OpenIsShort, Taking, Needed
  <2> QED BY <1>1, <2>1, <2>4, <2>5, <2>6, <2>7, SigningOneSession, ZenonT(30)
<1>4. CASE UNCHANGED <<sessions, audit>>
  BY <1>1, <1>4, SigningUnchanged
<1> QED BY <1>2, <1>3, <1>4 DEF SubmitCommitment

(* The handler of a Share: the share that reaches what the session needs   *)
(* takes the mutex on to `aggregate`.                                      *)
LEMMA ShareSigning ==
  ASSUME ServerInv, NEW k \in Conns, HandleShare(k), [ServerNext]_all_vars
  PROVE  OpenIsShort' /\ HeldIsReady' /\ SignedOnceByThreshold'
<1>1. PICK id, signer : id = Head(inbox[k]).request.id
                        /\ signer = Head(inbox[k]).request.signer
  BY ZenonT(30)
<1>2. /\ lock = NoConn /\ inbox[k] # <<>>
      /\ id \in 0 .. next_id /\ signer \in Signers
      /\ SubmitShare(id, signer)
      /\ UNCHANGED <<clock, next_id, signatures>>
  BY <1>1, HeadRequest, RequestFields, ZenonT(30)
     DEF HandleShare, Handling, ServerInv, SubmitShare
<1>3. CASE /\ ShareVerdict(id, signer) = "Expired"
           /\ ExpireOnSubmission(id)
  <2>1. id \in Ids /\ lock' = NoConn
    BY <1>1, <1>2, <1>3 DEF ShareVerdict, HandleShare
  <2> QED BY <1>2, <1>3, <2>1, ExpireSigning, FreeIsReady
<1>4. CASE /\ ShareVerdict(id, signer) \in Refusals
           /\ UNCHANGED <<sessions, audit>>
  <2>1. lock' = lock
    BY <1>1, <1>4 DEF HandleShare, Refusals
  <2> QED BY <1>2, <1>4, <2>1, SigningUnchanged
<1>5. CASE /\ ShareVerdict(id, signer) = "Ok"
           /\ AcceptShare(id, signer)
  <2> DEFINE old == sessions[id]
             list == Append(old.shares, signer)
             s == [old EXCEPT !.shares = list]
             e == [event |-> "ShareReceived", signer |-> signer, at |-> clock]
  <2>1. id \in Ids /\ Taking(old)
    BY <1>5 DEF ShareVerdict, Taking
  <2>2. old \in CoordinatorSession /\ clock \in Nat /\ OpenIsShort
        /\ sessions \in [Ids -> CoordinatorSession]
    BY <2>1 DEF ServerInv, CoordinatorInv, TypeOK
  <2>3. /\ list \in Seq(Signers) /\ Len(list) = Len(old.shares) + 1
        /\ Len(old.shares) \in Nat /\ old.threshold \in Nat
    BY <1>2, <2>2, AppendKeeps DEF CoordinatorSession
  <2>4. s \in CoordinatorSession /\ e \in AuditEntry /\ e.event # "Aggregated"
    BY <1>2, <2>2, <2>3, ZenonT(30)
       DEF CoordinatorSession, SessionState, AuditEntry, AuditEvent
  <2>5. /\ sessions' = [sessions EXCEPT ![id] = s]
        /\ audit' = [audit EXCEPT ![id] = Append(@, e)]
    BY <1>5 DEF AcceptShare, Logged
  <2>6. s.shares = list /\ s.threshold = old.threshold /\ s.state = old.state
    BY <2>2 DEF CoordinatorSession
  <2>7. Len(old.shares) < Needed(old)
    BY <1>2, <2>1, <2>2, ServerAssumption DEF OpenIsShort, Taking
  <2>8. Ids' = Ids /\ sessions'[id] = s
    BY <1>2, <2>1, <2>2, <2>5 DEF Ids
  <2> HIDE DEF s, e, list
  <2>9. CASE Len(old.shares) + 1 < old.threshold
    <3>1. lock' = NoConn
      BY <1>1, <1>2, <1>5, <2>9 DEF HandleShare
    <3>2. Len(s.shares) < Needed(s)
      BY <2>3, <2>6, <2>9 DEF Needed
    <3> QED BY <1>2, <2>1, <2>4, <2>5, <2>6, <3>1, <3>2, SigningOneSession,
               FreeIsReady, ZenonT(30)
  <2>10. CASE ~(Len(old.shares) + 1 < old.threshold)
    <3>1. lock' = k /\ inbox' = inbox
      BY <1>1, <1>5, <2>10, ZenonT(30) DEF HandleShare
    <3>2. Len(s.shares) = Needed(s)
      <4>1. Needed(s) = Needed(old)
        BY <2>6 DEF Needed
      <4>2. Len(old.shares) + 1 = Needed(old)
        BY <2>3, <2>7, <2>10 DEF Needed
      <4> QED BY <2>3, <2>6, <4>1, <4>2
    <3>3. OpenIsShort' /\ SignedOnceByThreshold'
      BY <1>1, <1>2, <2>1, <2>4, <2>5, <2>6, <3>1, SigningOneSession, ZenonT(30)
    <3>4. HeldIsReady'
      BY <1>1, <2>1, <2>6, <2>8, <3>1, <3>2, ZenonT(30) DEF HeldIsReady, Taking
    <3> QED BY <3>3, <3>4
  <2> QED BY <2>9, <2>10
<1> QED BY <1>2, <1>3, <1>4, <1>5 DEF SubmitShare

(* The aggregation: the session had not been signed, and has exactly the   *)
(* shares it needs.                                                        *)
LEMMA AggregateSigning ==
  ASSUME ServerInv, NEW k \in Conns, HandleAggregate(k)
  PROVE  OpenIsShort' /\ HeldIsReady' /\ SignedOnceByThreshold'
<1>1. PICK id : id = Head(inbox[k]).request.id
  OBVIOUS
<1>2. /\ lock = k /\ lock' = NoConn /\ Aggregate(id)
      /\ id \in Ids /\ Taking(sessions[id])
      /\ Len(sessions[id].shares) = Needed(sessions[id])
  BY <1>1 DEF HandleAggregate, ServerInv, LockDiscipline, HeldIsReady, Taking
<1>3. /\ TypeOK /\ SignatureSettled /\ OpenIsShort /\ SignedOnceByThreshold
      /\ Ids' = Ids /\ sessions[id] \in CoordinatorSession
  BY <1>2 DEF ServerInv, CoordinatorInv, Ids, Aggregate, TypeOK
<1> DEFINE e == [event |-> "Aggregated", signer |-> NoSigner, at |-> clock]
           new == [session |-> id, signers |-> sessions[id].shares]
<1>4. /\ sessions'[id].state = "Completed"
      /\ sessions'[id].threshold = sessions[id].threshold
      /\ audit[id] \in Seq(AuditEntry)
      /\ audit'[id] = Append(audit[id], e)
      /\ signatures' = signatures \cup {new}
      /\ \A j \in Ids : j # id => /\ sessions'[j] = sessions[j]
                                  /\ audit'[j] = audit[j]
  BY <1>2, <1>3 DEF Aggregate, Logged, TypeOK, CoordinatorSession
<1>5. e \in AuditEntry
  BY <1>3 DEF TypeOK, AuditEntry, AuditEvent
<1>6. new.session = id /\ Len(new.signers) = Needed(sessions[id])
  BY <1>2
<1> HIDE DEF e, new
<1>7. \A j \in Ids : j # id => AggregatedEntries(j)' = AggregatedEntries(j)
  BY <1>4 DEF AggregatedEntries
<1>8. AggregatedEntries(id)' \subseteq {Len(audit[id]) + 1}
  <2>1. AggregatedEntries(id) = {}
    BY <1>2, <1>3 DEF OpenIsShort, Taking
  <2> QED BY <1>4, <1>5, <2>1, EntriesAppend
<1>9. OpenIsShort'
  <2> SUFFICES ASSUME NEW j \in Ids, Taking(sessions[j])'
               PROVE  /\ AggregatedEntries(j)' = {}
                      /\ Len(sessions'[j].shares) < Needed(sessions'[j])
    BY <1>3 DEF OpenIsShort, Taking
  <2>1. j # id
    BY <1>4 DEF Taking
  <2>2. /\ AggregatedEntries(j) = {}
        /\ Len(sessions[j].shares) < Needed(sessions[j])
    BY <1>1, <1>2, <1>3, <1>4, <2>1, ZenonT(30) DEF OpenIsShort, Taking
  <2> QED BY <1>4, <1>7, <2>1, <2>2
<1>10. SignedOnceByThreshold'
  <2> SUFFICES ASSUME NEW j \in Ids
               PROVE  /\ \A x, y \in AggregatedEntries(j)' : x = y
                      /\ \A sig \in signatures' :
                           sig.session = j =>
                             Len(sig.signers) = Needed(sessions'[j])
    BY <1>3 DEF SignedOnceByThreshold
  <2>1. \A x, y \in AggregatedEntries(j)' : x = y
    BY <1>3, <1>7, <1>8 DEF SignedOnceByThreshold
  <2>2. Needed(sessions'[j]) = Needed(sessions[j])
    BY <1>4 DEF Needed
  <2> QED BY <1>3, <1>4, <1>6, <2>1, <2>2 DEF SignedOnceByThreshold
<1> QED BY <1>2, <1>9, <1>10, FreeIsReady

(* A pass of the reaper, with the mutex free. *)
LEMMA ReapSigning ==
  ASSUME ServerInv, ReapLocked
  PROVE  OpenIsShort' /\ HeldIsReady' /\ SignedOnceByThreshold'
<1>1. /\ lock = NoConn /\ lock' = NoConn /\ Reap
      /\ TypeOK /\ OpenIsShort /\ SignedOnceByThreshold /\ Ids' = Ids
      /\ signatures' = signatures
  BY DEF ServerInv, CoordinatorInv, ReapLocked, Reap, server_vars, Ids
<1> DEFINE e == [event |-> "Expired", signer |-> NoSigner, at |-> clock]
<1>2. e \in AuditEntry /\ e.event # "Aggregated"
  BY <1>1 DEF TypeOK, AuditEntry, AuditEvent
<1>3. \A j \in Ids :
        /\ sessions'[j].shares = sessions[j].shares
        /\ Needed(sessions'[j]) = Needed(sessions[j])
        /\ Taking(sessions'[j]) => Taking(sessions[j])
        /\ audit'[j] = audit[j] \/ audit'[j] = Append(audit[j], e)
        /\ audit[j] \in Seq(AuditEntry)
  BY <1>1 DEF Reap, TypeOK, CoordinatorSession, Needed, Taking
<1> HIDE DEF e
<1>4. \A j \in Ids : AggregatedEntries(j)' = AggregatedEntries(j)
  <2> TAKE j \in Ids
  <2>1. CASE audit'[j] = audit[j]
    BY <2>1 DEF AggregatedEntries
  <2>2. CASE audit'[j] = Append(audit[j], e)
    BY <1>2, <1>3, <2>2, EntriesAppend
  <2> QED BY <1>3, <2>1, <2>2
<1>5. OpenIsShort'
  BY <1>1, <1>3, <1>4, ServerAssumption DEF OpenIsShort, Taking
<1>6. SignedOnceByThreshold'
  BY <1>1, <1>3, <1>4 DEF SignedOnceByThreshold
<1> QED BY <1>1, <1>5, <1>6, FreeIsReady

(* Every step keeps the server's invariant. *)
LEMMA ServerNextPreserves ==
  ASSUME ServerInv, [ServerNext]_all_vars
  PROVE  ServerInv'
<1>1. CoordinatorInv'
  BY ServerStepRefines, NextPreserves DEF ServerInv
<1>2. Streams' /\ LockDiscipline'
  BY StreamsStep, LockStep
<1>3. OpenIsShort' /\ HeldIsReady' /\ SignedOnceByThreshold'
  <2>1. CASE \/ UNCHANGED all_vars
             \/ \E k \in Conns, r \in Requests : Send(k, r)
             \/ \E k \in Conns : Receive(k) \/ TimeOut(k) \/ Close(k)
             \/ \E k \in Conns : HandleRegister(k) \/ HandleGetStatus(k)
             \/ Tick /\ UNCHANGED server_vars
    BY <2>1, SigningUnchanged, ZenonT(30)
       DEF all_vars, vars, server_vars, Send, Receive, TimeOut, Close,
           HandleRegister, HandleGetStatus, Tick
  <2>2. ASSUME NEW k \in Conns, HandleCreateSession(k)
        PROVE  OpenIsShort' /\ HeldIsReady' /\ SignedOnceByThreshold'
    <3>1. /\ Head(inbox[k]).request.threshold \in Thresholds
          /\ lock = NoConn /\ lock' = NoConn
      BY <2>2, HeadRequest, RequestFields
         DEF HandleCreateSession, Handling, ServerInv
    <3> QED BY <2>2, <3>1, CreateSigning, FreeIsReady DEF HandleCreateSession
  <2>3. ASSUME NEW k \in Conns, HandleCommitment(k)
        PROVE  OpenIsShort' /\ HeldIsReady' /\ SignedOnceByThreshold'
    <3> DEFINE r == Head(inbox[k]).request
    <3>1. r.id \in 0 .. next_id /\ r.signer \in Signers
          /\ lock = NoConn /\ lock' = NoConn
      BY <2>3, HeadRequest, RequestFields, ZenonT(30)
         DEF HandleCommitment, Handling, ServerInv
    <3>2. SubmitCommitment(r.id, r.signer)
      BY <2>3 DEF HandleCommitment
    <3> HIDE DEF r
    <3> QED BY <3>1, <3>2, CommitmentSigning, FreeIsReady
  <2>4. CASE \E k \in Conns : HandleShare(k)
    BY <2>4, ShareSigning
  <2>5. CASE \E k \in Conns : HandleAggregate(k)
    BY <2>5, AggregateSigning
  <2>6. CASE ReapLocked
    BY <2>6, ReapSigning
  <2> QED BY <2>1, <2>2, <2>3, <2>4, <2>5, <2>6 DEF ServerNext, Handle
<1> QED BY <1>1, <1>2, <1>3 DEF ServerInv

(* The server starts in a state of the invariant. *)
LEMMA ServerInitEstablishes == ServerInit => ServerInv
<1> SUFFICES ASSUME ServerInit PROVE ServerInv
  OBVIOUS
<1>1. CoordinatorInv
  BY InitEstablishes DEF ServerInit
<1>2. FreshClient \in ClientRecord
  BY DEF FreshClient, ClientRecord, NoRequest, NoAnswer, AnswerMessage,
         AnswerKind
<1>3. Streams
  BY <1>2 DEF ServerInit, Streams, ClientRecord, AnswerMessage
<1>4. LockDiscipline /\ HeldIsReady
  BY ServerAssumption DEF ServerInit, LockDiscipline, HeldIsReady
<1>5. OpenIsShort /\ SignedOnceByThreshold
  BY DEF ServerInit, Init, OpenIsShort, SignedOnceByThreshold, Ids
<1> QED BY <1>1, <1>3, <1>4, <1>5 DEF ServerInv

(* The server's invariant holds in every reachable state. *)
THEOREM ServerInvariance == ServerSpec => []ServerInv
<1>1. ServerInit => ServerInv
  BY ServerInitEstablishes
<1>2. ServerInv /\ [ServerNext]_all_vars => ServerInv'
  BY ServerNextPreserves
<1> QED BY <1>1, <1>2, PTL DEF ServerSpec

(* The server implements the coordinator: its connection threads, clients, *)
(* timeouts and closed connections only ever call it.                      *)
THEOREM ServerImplementsCoordinator == ServerSpec => ImplementsCoordinator
<1>1. ServerInit => Init
  BY DEF ServerInit
<1>2. ServerInv /\ [ServerNext]_all_vars => [Next]_vars
  BY ServerStepRefines
<1> QED BY <1>1, <1>2, ServerInvariance, PTL
       DEF ServerSpec, Spec, ImplementsCoordinator

(* Through the server a session is signed at most once, and by exactly the *)
(* shares it needs.                                                        *)
THEOREM SignedOnce == ServerSpec => []SignedOnceByThreshold
<1>1. ServerInv => SignedOnceByThreshold
  BY DEF ServerInv
<1> QED BY <1>1, ServerInvariance, PTL

-----------------------------------------------------------------------------
(* What the clients are told. *)

(* One list goes on where the other stops. *)
GoesOnFrom(longer, list) ==
  Len(longer) >= Len(list) /\ \A i \in 1 .. Len(list) : longer[i] = list[i]

(* Whatever the coordinator does, a session keeps its threshold and every  *)
(* submission it has taken, in its place.                                  *)
LEMMA SubmissionsStay ==
  ASSUME CoordinatorInv, [Next]_vars, NEW id \in Ids
  PROVE  /\ id \in Ids'
         /\ Needed(sessions'[id]) = Needed(sessions[id])
         /\ GoesOnFrom(sessions'[id].commitments, sessions[id].commitments)
         /\ GoesOnFrom(sessions'[id].shares, sessions[id].shares)
<1>1. /\ sessions[id] \in CoordinatorSession
      /\ sessions[id].commitments \in Seq(Signers) /\ sessions[id].shares \in Seq(Signers)
  BY DEF CoordinatorInv, TypeOK, CoordinatorSession
<1>2. id \in Ids'
  BY NextIdGrows DEF Ids
<1>3. CASE sessions'[id] = sessions[id]
  BY <1>1, <1>2, <1>3 DEF GoesOnFrom
<1>4. ASSUME NEW e \in AuditEntry, sessions'[id] = Replayed(sessions[id], e)
      PROVE  /\ sessions'[id].threshold = sessions[id].threshold
             /\ \/ sessions'[id].commitments = sessions[id].commitments
                \/ /\ sessions'[id].commitments = Append(sessions[id].commitments, e.signer)
             /\ \/ sessions'[id].shares = sessions[id].shares
                \/ /\ sessions'[id].shares = Append(sessions[id].shares, e.signer)
  BY <1>1, <1>4, ZenonT(30) DEF Replayed, CoordinatorSession
<1>5. ASSUME NEW list \in Seq(Signers), NEW x
      PROVE  GoesOnFrom(list, list) /\ GoesOnFrom(Append(list, x), list)
  <2>1. Len(list) \in Nat /\ Len(Append(list, x)) = Len(list) + 1
        /\ \A i \in 1 .. Len(list) : Append(list, x)[i] = list[i]
    OBVIOUS
  <2> QED
    BY <2>1 DEF GoesOnFrom
<1>6. ASSUME NEW e \in AuditEntry, sessions'[id] = Replayed(sessions[id], e)
      PROVE  /\ Needed(sessions'[id]) = Needed(sessions[id])
             /\ GoesOnFrom(sessions'[id].commitments, sessions[id].commitments)
             /\ GoesOnFrom(sessions'[id].shares, sessions[id].shares)
  BY <1>1, <1>4, <1>5, <1>6, ZenonT(30) DEF Needed
<1>7. CASE Next
  BY <1>2, <1>3, <1>6, <1>7, EverySessionAdvances, ZenonT(30) DEF Advances
<1> QED
  BY <1>3, <1>7 DEF vars

(* What an answer of a kind says of a submission. *)
Truthful(r, kind) ==
  /\ r.op = "Commitment" =>
       \/ kind = "Error"
       \/ kind = "Ack" /\ r.id \in Ids /\ Submitted(sessions[r.id].commitments, r.signer)
  /\ r.op = "Share" =>
       \/ kind = "Error"
       \/ /\ kind \in {"Ack", "Signature"} /\ r.id \in Ids
          /\ \E i \in 1 .. Len(sessions[r.id].shares) :
               /\ sessions[r.id].shares[i] = r.signer
               /\ IF kind = "Ack" THEN i < Needed(sessions[r.id])
                                  ELSE i = Needed(sessions[r.id])

(* A true answer stays true. *)
LEMMA TruthStays ==
  ASSUME CoordinatorInv, [Next]_vars, NEW r, NEW kind, Truthful(r, kind)
  PROVE  Truthful(r, kind)'
<1>1. ASSUME r.op = "Commitment", kind # "Error"
      PROVE  kind = "Ack" /\ r.id \in Ids' /\ Submitted(sessions'[r.id].commitments, r.signer)
  <2>1. kind = "Ack" /\ r.id \in Ids /\ Submitted(sessions[r.id].commitments, r.signer)
    BY <1>1 DEF Truthful
  <2>2. sessions[r.id].commitments \in Seq(Signers)
    BY <2>1 DEF CoordinatorInv, TypeOK, CoordinatorSession
  <2>3. r.id \in Ids' /\ GoesOnFrom(sessions'[r.id].commitments, sessions[r.id].commitments)
    BY <2>1, SubmissionsStay
  <2>4. PICK i \in 1 .. Len(sessions[r.id].commitments) : sessions[r.id].commitments[i] = r.signer
    BY <2>1 DEF Submitted
  <2> QED
    BY <2>1, <2>2, <2>3, <2>4 DEF GoesOnFrom, Submitted
<1>2. ASSUME r.op = "Share", kind # "Error"
      PROVE  /\ kind \in {"Ack", "Signature"} /\ r.id \in Ids'
             /\ \E i \in 1 .. Len(sessions'[r.id].shares) :
                  /\ sessions'[r.id].shares[i] = r.signer
                  /\ IF kind = "Ack" THEN i < Needed(sessions'[r.id])
                                     ELSE i = Needed(sessions'[r.id])
  <2>1. /\ kind \in {"Ack", "Signature"} /\ r.id \in Ids
        /\ \E i \in 1 .. Len(sessions[r.id].shares) :
             /\ sessions[r.id].shares[i] = r.signer
             /\ IF kind = "Ack" THEN i < Needed(sessions[r.id])
                                ELSE i = Needed(sessions[r.id])
    BY <1>2 DEF Truthful
  <2>2. sessions[r.id].shares \in Seq(Signers)
    BY <2>1 DEF CoordinatorInv, TypeOK, CoordinatorSession
  <2>3. /\ r.id \in Ids' /\ GoesOnFrom(sessions'[r.id].shares, sessions[r.id].shares)
        /\ Needed(sessions'[r.id]) = Needed(sessions[r.id])
    BY <2>1, SubmissionsStay
  <2>4. PICK i \in 1 .. Len(sessions[r.id].shares) :
             /\ sessions[r.id].shares[i] = r.signer
             /\ IF kind = "Ack" THEN i < Needed(sessions[r.id])
                                ELSE i = Needed(sessions[r.id])
    BY <2>1
  <2>5. i \in 1 .. Len(sessions'[r.id].shares) /\ sessions'[r.id].shares[i] = r.signer
    BY <2>2, <2>3, <2>4 DEF GoesOnFrom
  <2> QED
    BY <2>1, <2>3, <2>4, <2>5
<1> QED
  BY <1>1, <1>2 DEF Truthful

(* The thread that holds the mutex has the share that completes.  *)
HeldShareCompletes ==
  \A k \in Conns : lock = k =>
    LET r == Head(inbox[k]).request
        s == sessions[r.id]
    IN s.shares[Needed(s)] = r.signer

(* A connection is idle, or carries its call's request, or carries a true  *)
(* answer to its call; and the answer its client took last is true.        *)
Exchange(k) ==
  /\ Truthful(client[k].last, client[k].answer.kind)
  /\ ~client[k].open => client[k].call = NoRequest
  /\ client[k].open /\ client[k].call = NoRequest =>
       inbox[k] = <<>> /\ outbox[k] = <<>>
  /\ client[k].call # NoRequest =>
       \/ /\ outbox[k] = <<>>
          /\ Len(inbox[k]) = 1 /\ inbox[k][1].request = client[k].call
       \/ /\ inbox[k] = <<>>
          /\ Len(outbox[k]) = 1 /\ Truthful(client[k].call, outbox[k][1].kind)

AnswerInv ==
  /\ HeldShareCompletes
  /\ timeouts = 0 => \A k \in Conns : Exchange(k)

(* A connection that a step leaves alone keeps its exchange. *)
LEMMA ExchangeStays ==
  ASSUME CoordinatorInv, [Next]_vars, NEW k \in Conns, Exchange(k),
         client'[k] = client[k], inbox'[k] = inbox[k], outbox'[k] = outbox[k]
  PROVE  Exchange(k)'
<1>1. PICK last, told, call, sent :
        /\ last = client[k].last /\ told = client[k].answer.kind
        /\ call = client[k].call /\ sent = outbox[k][1].kind
  OBVIOUS
<1>2. Truthful(last, told)'
  BY <1>1, TruthStays DEF Exchange
<1>3. Truthful(call, sent) => Truthful(call, sent)'
  BY TruthStays
<1>4. /\ Truthful(client[k].last, client[k].answer.kind)'
      /\ Truthful(client[k].call, outbox[k][1].kind) =>
           Truthful(client[k].call, outbox[k][1].kind)'
  BY <1>1, <1>2, <1>3, ZenonT(30) DEF Truthful
<1> QED
  BY <1>4 DEF Exchange, NoRequest

(* A stream that carries one message. *)
LEMMA OneMessage ==
  ASSUME NEW S, NEW q \in Seq(S), Len(q) = 1
  PROVE  q # <<>> /\ Head(q) = q[1] /\ Tail(q) = <<>>
<1>1. q # <<>>
  OBVIOUS
<1>2. Tail(q) \in Seq(S) /\ Len(Tail(q)) = 0
  BY <1>1
<1>3. \A t \in Seq(S) : Len(t) = 0 => t = <<>>
  OBVIOUS
<1>4. Tail(q) = <<>>
  BY <1>2, <1>3, ZenonT(30)
<1> QED
  BY <1>1, <1>4

(* The signer that a list of submissions ends in after one more. *)
LEMMA AppendedLast ==
  ASSUME NEW list \in Seq(Signers), NEW signer \in Signers, NEW longer,
         longer = Append(list, signer)
  PROVE  /\ Len(list) \in Nat /\ Len(longer) = Len(list) + 1
         /\ \E i \in 1 .. Len(longer) :
              i = Len(longer) /\ longer[i] = signer
OBVIOUS

(* A session needs at least one share. *)
LEMMA NeededPositive ==
  ASSUME NEW s, s.threshold \in Nat
  PROVE  Needed(s) \in Nat /\ Needed(s) >= 1
BY DEF Needed

(* A true answer to the request at the head of a stream. *)
LEMMA AnswerExchange ==
  ASSUME CoordinatorInv, [Next]_vars, Streams, NEW k \in Conns, Exchange(k),
         inbox[k] # <<>>, NEW r, r = Head(inbox[k]).request, NEW kind,
         Answer(k, kind), Truthful(r, kind)'
  PROVE  Exchange(k)'
<1>1. PICK last, told : last = client[k].last /\ told = client[k].answer.kind
  BY ZenonT(30)
<1>2. Truthful(last, told)'
  BY <1>1, TruthStays DEF Exchange
<1>3. client' = client
  BY DEF Answer
<1>4. Truthful(client[k].last, client[k].answer.kind)'
  BY <1>1, <1>2, <1>3, ZenonT(30) DEF Truthful
<1>5. inbox \in [Conns -> Seq(Message)] /\ inbox[k] \in Seq(Message)
      /\ outbox \in [Conns -> Seq(AnswerMessage)]
  BY ZenonT(30) DEF Streams, Message
<1>6. CASE client[k].call = NoRequest
  <2>1. ~client[k].open
    BY <1>6 DEF Exchange
  <2> QED
    BY <1>3, <1>4, <1>6, <2>1, ZenonT(30) DEF Exchange, NoRequest
<1>7. CASE client[k].call # NoRequest
  <2>1. /\ client[k].open /\ outbox[k] = <<>>
        /\ Len(inbox[k]) = 1 /\ inbox[k][1].request = client[k].call
    BY <1>7, ZenonT(30) DEF Exchange
  <2>2. Tail(inbox[k]) = <<>> /\ r = client[k].call
    BY <1>5, <2>1, OneMessage
  <2> DEFINE m == [kind |-> kind, n |-> Head(inbox[k]).n]
  <2>3. inbox'[k] = <<>> /\ outbox'[k] = Append(outbox[k], m)
    BY <1>5, <2>1, <2>2 DEF Answer
  <2>4. Len(outbox'[k]) = 1 /\ outbox'[k][1] = m
    BY <2>1, <2>3
  <2>5. Truthful(client[k].call, outbox[k][1].kind)'
    <3>1. client'[k].call = r
      BY <1>3, <2>2, ZenonT(30)
    <3>2. m.kind = kind
      BY ZenonT(30)
    <3> HIDE DEF m
    <3>3. outbox'[k][1].kind = kind
      BY <2>4, <3>2
    <3> QED
      BY <3>1, <3>3, ZenonT(30) DEF Truthful
  <2> QED
    BY <1>3, <1>4, <1>7, <2>1, <2>3, <2>4, <2>5, ZenonT(30) DEF Exchange, NoRequest
<1> QED
  BY <1>6, <1>7

(* The client's own steps, until a read times out. *)
LEMMA ClientExchange ==
  ASSUME CoordinatorInv, [Next]_vars, Streams, NEW k \in Conns, Exchange(k),
         (\E r \in Requests : Send(k, r)) \/ Receive(k) \/ Close(k)
  PROVE  Exchange(k)'
<1>1. PICK last, told, call, sent :
        /\ last = client[k].last /\ told = client[k].answer.kind
        /\ call = client[k].call /\ sent = Head(outbox[k]).kind
  OBVIOUS
<1>2. Truthful(last, told)'
  BY <1>1, TruthStays DEF Exchange
<1>3. /\ inbox \in [Conns -> Seq(Message)] /\ inbox[k] \in Seq(Message)
      /\ outbox \in [Conns -> Seq(AnswerMessage)] /\ outbox[k] \in Seq(AnswerMessage)
      /\ client \in [Conns -> ClientRecord] /\ client[k] \in ClientRecord
  BY ZenonT(30) DEF Streams, Message, ClientRecord
<1>4. CASE \E r \in Requests : Send(k, r)
  <2>1. PICK r \in Requests : Send(k, r)
    BY <1>4
  <2>2. /\ inbox[k] = <<>> /\ outbox[k] = <<>> /\ client[k].open
    BY <2>1, ZenonT(30) DEF Exchange, Send
  <2>3. /\ client'[k].call = r /\ client'[k].last = client[k].last
        /\ client'[k].answer = client[k].answer /\ client'[k].open
        /\ outbox'[k] = <<>>
    BY <1>3, <2>1, <2>2, ZenonT(30) DEF Send, ClientRecord
  <2> DEFINE m == [request |-> r, n |-> client[k].n + 1]
  <2>4. inbox'[k] = Append(inbox[k], m)
    BY <1>3, <2>1, ZenonT(30) DEF Send
  <2>5. Len(inbox'[k]) = 1 /\ inbox'[k][1] = m
    BY <2>2, <2>4
  <2>6. Truthful(client[k].last, client[k].answer.kind)'
    BY <1>1, <1>2, <2>3, ZenonT(30) DEF Truthful
  <2>7. r # NoRequest
    BY DEF Requests, NoRequest
  <2>8. m.request = r
    OBVIOUS
  <2> HIDE DEF m
  <2>9. /\ client'[k].open /\ client'[k].call # NoRequest /\ outbox'[k] = <<>>
        /\ Len(inbox'[k]) = 1 /\ inbox'[k][1].request = client'[k].call
    BY <2>3, <2>5, <2>7, <2>8
  <2> QED
    BY <2>6, <2>9, ZenonT(30) DEF Exchange
<1>5. CASE Receive(k)
  <2>1. /\ client[k].call # NoRequest /\ inbox[k] = <<>>
        /\ Len(outbox[k]) = 1 /\ Truthful(call, sent)
    BY <1>1, <1>3, <1>5 DEF Exchange, Receive
  <2>2. Truthful(call, sent)'
    BY <2>1, TruthStays
  <2>3. /\ client'[k].call = NoRequest /\ client'[k].last = call
        /\ client'[k].answer.kind = sent /\ client'[k].open = client[k].open
        /\ inbox'[k] = <<>>
    BY <1>1, <1>3, <1>5, <2>1 DEF Receive, ClientRecord
  <2>4. outbox'[k] = <<>>
    <3>1. Tail(outbox[k]) = <<>>
      BY <1>3, <2>1, OneMessage
    <3> QED
      BY <1>3, <1>5, <3>1 DEF Receive
  <2>5. Truthful(client[k].last, client[k].answer.kind)'
    BY <2>2, <2>3, ZenonT(30) DEF Truthful
  <2> QED
    BY <2>3, <2>4, <2>5, ZenonT(30) DEF Exchange, NoRequest
<1>6. CASE Close(k)
  <2>1. /\ client'[k].call = NoRequest /\ client'[k].last = client[k].last
        /\ client'[k].answer = client[k].answer /\ ~client'[k].open
    BY <1>3, <1>6 DEF Close, ClientRecord
  <2>2. Truthful(client[k].last, client[k].answer.kind)'
    BY <1>1, <1>2, <2>1, ZenonT(30) DEF Truthful
  <2> QED
    BY <2>1, <2>2, ZenonT(30) DEF Exchange, NoRequest
<1> QED
  BY <1>4, <1>5, <1>6

(* The handler of a submission, or the aggregation that ends it, tells its *)
(* client the truth.                                                       *)
LEMMA HandlerIsTruthful ==
  ASSUME ServerInv, HeldShareCompletes, [ServerNext]_all_vars,
         NEW k \in Conns, Handle(k), ~(HandleShare(k) /\ lock' = k)
  PROVE  \E r, kind : /\ inbox[k] # <<>> /\ r = Head(inbox[k]).request
                      /\ Answer(k, kind) /\ Truthful(r, kind)'
<1> SUFFICES ASSUME NEW r, r = Head(inbox[k]).request
             PROVE  inbox[k] # <<>> /\ \E kind : Answer(k, kind) /\ Truthful(r, kind)'
  OBVIOUS
<1>1. /\ inbox[k] # <<>> /\ r \in Requests /\ Streams
      /\ r.op \in {"Commitment", "Share"} =>
           r.id \in 0 .. next_id /\ r.signer \in Signers
  <2>1. inbox[k] # <<>>
    BY ZenonT(30) DEF Handle, HandleRegister, HandleCreateSession, HandleCommitment, HandleShare,
           HandleAggregate, HandleGetStatus, Handling, ServerInv, LockDiscipline
  <2>2. Streams
    BY DEF ServerInv
  <2> QED
    BY <2>1, <2>2, HeadRequest, RequestFields
<1>2. \A id \in Ids : /\ sessions[id] \in CoordinatorSession
                      /\ sessions[id].commitments \in Seq(Signers)
                      /\ sessions[id].shares \in Seq(Signers)
                      /\ sessions[id].threshold \in Nat
      /\ sessions \in [Ids -> CoordinatorSession]
  BY DEF ServerInv, CoordinatorInv, TypeOK, CoordinatorSession
<1>3. CASE HandleRegister(k) \/ HandleCreateSession(k) \/ HandleGetStatus(k)
  BY <1>1, <1>3, ZenonT(30) DEF HandleRegister, HandleCreateSession, HandleGetStatus, Handling, Truthful
<1>4. CASE HandleCommitment(k)
  <2>1. r.op = "Commitment" /\ SubmitCommitment(r.id, r.signer)
    BY <1>4 DEF HandleCommitment, Handling
  <2>2. CASE CommitmentVerdict(r.id, r.signer) # "Ok"
    <3>1. Answer(k, "Error")
      BY <1>4, <2>2 DEF HandleCommitment
    <3> QED
      BY <1>1, <3>1, ZenonT(30) DEF Truthful
  <2>3. CASE CommitmentVerdict(r.id, r.signer) = "Ok"
    <3>1. Answer(k, "Ack")
      BY <1>4, <2>3 DEF HandleCommitment
    <3>2. r.id \in Ids /\ AcceptCommitment(r.id, r.signer) /\ next_id' = next_id
      BY <2>1, <2>3 DEF SubmitCommitment, CommitmentVerdict, Refusals
    <3>3. sessions'[r.id].commitments = Append(sessions[r.id].commitments, r.signer)
      BY <1>2, <3>2, ZenonT(30) DEF AcceptCommitment, CoordinatorSession
    <3>4. Submitted(sessions'[r.id].commitments, r.signer)
      <4>1. sessions[r.id].commitments \in Seq(Signers) /\ r.signer \in Signers
        BY <1>1, <1>2, <2>1, <3>2
      <4>2. PICK list, longer : list = sessions[r.id].commitments
                                /\ longer = sessions'[r.id].commitments
        OBVIOUS
      <4>3. list \in Seq(Signers) /\ longer = Append(list, r.signer)
        BY <3>3, <4>1, <4>2, ZenonT(30)
      <4>4. \E i \in 1 .. Len(longer) : longer[i] = r.signer
        BY <4>1, <4>3, AppendedLast
      <4> QED
        BY <4>2, <4>4, ZenonT(30) DEF Submitted
    <3>5. r.id \in Ids'
      BY <3>2 DEF Ids
    <3>6. Truthful(r, "Ack")'
      BY <2>1, <3>4, <3>5, ZenonT(30) DEF Truthful
    <3> QED
      BY <1>1, <3>1, <3>6
  <2> QED
    BY <2>2, <2>3, ZenonT(30)
<1>5. CASE HandleShare(k)
  <2>1. r.op = "Share" /\ SubmitShare(r.id, r.signer)
    BY <1>5 DEF HandleShare, Handling
  <2>2. CASE ShareVerdict(r.id, r.signer) # "Ok"
    <3>1. Answer(k, "Error")
      BY <1>5, <2>2, ZenonT(30) DEF HandleShare
    <3> QED
      BY <1>1, <3>1, ZenonT(30) DEF Truthful
  <2>3. CASE ShareVerdict(r.id, r.signer) = "Ok"
    <3>1. Answer(k, "Ack") /\ Len(sessions[r.id].shares) + 1 < sessions[r.id].threshold
      BY <1>5, <2>3, ZenonT(30) DEF HandleShare
    <3>2. r.id \in Ids /\ AcceptShare(r.id, r.signer) /\ next_id' = next_id
      BY <2>1, <2>3, ZenonT(30) DEF SubmitShare, ShareVerdict, Refusals
    <3>3. /\ sessions'[r.id].shares = Append(sessions[r.id].shares, r.signer)
          /\ sessions'[r.id].threshold = sessions[r.id].threshold
      BY <1>2, <3>2, ZenonT(30) DEF AcceptShare, CoordinatorSession
    <3>4. /\ sessions[r.id].shares \in Seq(Signers) /\ r.signer \in Signers
          /\ sessions[r.id].threshold \in Nat
      BY <1>1, <1>2, <2>1, <3>2
    <3>5. PICK list, longer, needed : /\ list = sessions[r.id].shares
                                      /\ longer = sessions'[r.id].shares
                                      /\ needed = Needed(sessions'[r.id])
      OBVIOUS
    <3>6. \E i \in 1 .. Len(sessions'[r.id].shares) :
            sessions'[r.id].shares[i] = r.signer /\ i < Needed(sessions'[r.id])
      <4>1. list \in Seq(Signers) /\ longer = Append(list, r.signer)
        BY <3>3, <3>4, <3>5, ZenonT(30)
      <4>2. /\ Len(list) \in Nat /\ Len(longer) = Len(list) + 1
            /\ \E i \in 1 .. Len(longer) : i = Len(longer) /\ longer[i] = r.signer
        BY <3>4, <4>1, AppendedLast
      <4>3. Len(list) + 1 < needed
        <5>1. PICK threshold \in Nat : threshold = sessions[r.id].threshold
          BY <3>4
        <5>2. Len(list) + 1 < threshold
          BY <3>1, <3>5, <5>1
        <5>3. needed = IF threshold = 0 THEN 1 ELSE threshold
          BY <3>3, <3>5, <5>1, ZenonT(30) DEF Needed
        <5> QED
          BY <4>2, <5>2, <5>3
      <4> QED
        BY <3>5, <4>2, <4>3, ZenonT(30)
    <3>7. r.id \in Ids'
      BY <3>2 DEF Ids
    <3>8. Truthful(r, "Ack")'
      BY <2>1, <3>6, <3>7, ZenonT(30) DEF Truthful
    <3> QED
      BY <1>1, <3>1, <3>8
  <2> QED
    BY <2>2, <2>3, ZenonT(30)
<1>6. CASE HandleAggregate(k)
  <2>1. lock = k /\ Answer(k, "Signature")
    BY <1>6 DEF HandleAggregate, ServerInv, LockDiscipline
  <2>2. /\ r.op = "Share" /\ r.id \in Ids
        /\ Len(sessions[r.id].shares) = Needed(sessions[r.id])
        /\ sessions[r.id].shares[Needed(sessions[r.id])] = r.signer
    BY <2>1, ZenonT(30) DEF ServerInv, LockDiscipline, HeldIsReady, HeldShareCompletes
  <2>3. Needed(sessions[r.id]) \in Nat /\ Needed(sessions[r.id]) >= 1
    BY <1>2, <2>2, NeededPositive
  <2>4. Truthful(r, "Signature")
    <3>1. PICK i, list : i = Needed(sessions[r.id]) /\ list = sessions[r.id].shares
      OBVIOUS
    <3>2. i \in Nat /\ i >= 1 /\ Len(list) = i /\ list[i] = r.signer
      BY <2>2, <2>3, <3>1, ZenonT(30)
    <3>3. i \in 1 .. Len(list)
      BY <3>2
    <3> QED
      BY <2>2, <3>1, <3>2, <3>3, ZenonT(30) DEF Truthful
  <2>5. Truthful(r, "Signature")'
    BY <2>4, TruthStays, ServerStepRefines DEF ServerInv
  <2> QED
    BY <1>1, <2>1, <2>5
<1> QED
  BY <1>3, <1>4, <1>5, <1>6, ZenonT(30) DEF Handle

(* The thread that holds the mutex keeps the share that completes. *)
LEMMA HeldShareStep ==
  ASSUME ServerInv, HeldShareCompletes, [ServerNext]_all_vars
  PROVE  HeldShareCompletes'
<1> SUFFICES ASSUME NEW k \in Conns, lock' = k,
                    NEW r, r = Head(inbox'[k]).request
             PROVE  sessions'[r.id].shares[Needed(sessions'[r.id])] = r.signer
  BY DEF HeldShareCompletes
<1>1. CASE lock = k
  <2>1. r = Head(inbox[k]).request
    BY <1>1, HeldHeadStays
  <2>2. /\ r.id \in Ids /\ sessions[r.id].shares \in Seq(Signers)
        /\ sessions[r.id].threshold \in Nat
        /\ Len(sessions[r.id].shares) = Needed(sessions[r.id])
        /\ sessions[r.id].shares[Needed(sessions[r.id])] = r.signer
    BY <1>1, <2>1, ZenonT(30) DEF ServerInv, HeldIsReady, HeldShareCompletes,
                      CoordinatorInv, TypeOK, CoordinatorSession
  <2>3. /\ Needed(sessions'[r.id]) = Needed(sessions[r.id])
        /\ GoesOnFrom(sessions'[r.id].shares, sessions[r.id].shares)
    BY <2>2, SubmissionsStay, ServerStepRefines DEF ServerInv
  <2>4. Needed(sessions[r.id]) \in 1 .. Len(sessions[r.id].shares)
    <3>1. PICK n \in Nat : n = Needed(sessions[r.id]) /\ n >= 1
      BY <2>2, NeededPositive
    <3>2. n \in 1 .. n
      BY <3>1
    <3> QED
      BY <2>2, <3>1, <3>2
  <2> QED
    BY <2>2, <2>3, <2>4, ZenonT(30) DEF GoesOnFrom
<1>2. CASE lock # k
  <2>1. HandleShare(k)
    BY <1>2, ServerAssumption, ZenonT(30)
       DEF ServerNext, Handle, HandleRegister, HandleCreateSession, HandleCommitment,
           HandleShare, HandleAggregate, HandleGetStatus, Send, Receive, TimeOut, Close,
           ReapLocked, all_vars, server_vars
  <2>2. /\ r = Head(inbox[k]).request /\ inbox[k] # <<>> /\ lock = NoConn
        /\ ShareVerdict(r.id, r.signer) = "Ok" /\ SubmitShare(r.id, r.signer)
        /\ r.op = "Share"
    BY <1>2, <2>1 DEF HandleShare, Handling
  <2>3. r.id \in Ids /\ AcceptShare(r.id, r.signer) /\ Taking(sessions[r.id])
    BY <2>2 DEF SubmitShare, ShareVerdict, Refusals, Taking
  <2>4. /\ r.id \in 0 .. next_id /\ r.signer \in Signers
        /\ sessions \in [Ids -> CoordinatorSession]
        /\ sessions[r.id] \in CoordinatorSession
        /\ sessions[r.id].shares \in Seq(Signers)
    BY <2>2, <2>3, HeadRequest, RequestFields, ZenonT(30)
       DEF ServerInv, CoordinatorInv, TypeOK, CoordinatorSession
  <2>5. /\ sessions'[r.id].shares = Append(sessions[r.id].shares, r.signer)
    BY <2>3, <2>4, ZenonT(30) DEF AcceptShare, CoordinatorSession
  <2>6. HeldIsReady'
    BY <2>1, ShareSigning
  <2>7. Len(sessions'[r.id].shares) = Needed(sessions'[r.id])
    BY <2>6 DEF HeldIsReady
  <2> QED
    <3>1. PICK list, longer : list = sessions[r.id].shares
                              /\ longer = sessions'[r.id].shares
      OBVIOUS
    <3>2. list \in Seq(Signers) /\ longer = Append(list, r.signer)
      BY <2>4, <2>5, <3>1, ZenonT(30)
    <3>3. longer[Len(longer)] = r.signer
      BY <2>4, <3>2, AppendedLast
    <3> QED
      BY <2>7, <3>1, <3>3
<1> QED
  BY <1>1, <1>2

(* Every step keeps what is on the streams, and what was told, true. *)
LEMMA AnswerStep ==
  ASSUME ServerInv, AnswerInv, [ServerNext]_all_vars
  PROVE  AnswerInv'
<1>1. HeldShareCompletes'
  BY HeldShareStep DEF AnswerInv
<1>2. CoordinatorInv /\ Streams /\ [Next]_vars /\ HeldShareCompletes
  BY ServerStepRefines DEF ServerInv, AnswerInv
<1>3. ASSUME timeouts' = 0, NEW k \in Conns
      PROVE  Exchange(k)'
  <2>1. timeouts = 0 /\ ~\E c \in Conns : TimeOut(c)
    <3>1. timeouts \in Nat
      BY <1>2 DEF Streams
    <3>2. ASSUME NEW c \in Conns, TimeOut(c)
          PROVE  FALSE
      BY <1>3, <3>1, <3>2 DEF TimeOut
    <3>3. ASSUME NEW c \in Conns, Handle(c)
          PROVE  timeouts' = timeouts
      BY <3>3, ZenonT(30) DEF Handle, HandleRegister, HandleCreateSession, HandleCommitment,
                  HandleShare, HandleAggregate, HandleGetStatus, Answer
    <3> QED
      BY <1>3, <3>2, <3>3, ZenonT(30) DEF ServerNext, Send, Receive, Close, ReapLocked,
                              all_vars, server_vars
  <2>2. Exchange(k)
    BY <2>1 DEF AnswerInv
  <2>3. CASE UNCHANGED <<client, inbox, outbox>>
    BY <1>2, <2>2, <2>3, ExchangeStays, ZenonT(30)
  <2>4. ASSUME NEW c \in Conns, c # k,
               (\E r \in Requests : Send(c, r)) \/ Receive(c) \/ Close(c)
        PROVE  Exchange(k)'
    <3>1. client'[k] = client[k] /\ inbox'[k] = inbox[k] /\ outbox'[k] = outbox[k]
      BY <1>2, <2>4, ZenonT(30) DEF Send, Receive, Close, Streams
    <3> QED
      BY <1>2, <2>2, <3>1, ExchangeStays
  <2>5. CASE (\E r \in Requests : Send(k, r)) \/ Receive(k) \/ Close(k)
    BY <1>2, <2>2, <2>5, ClientExchange
  <2>6. ASSUME NEW c \in Conns, Handle(c), ~(HandleShare(c) /\ lock' = c)
        PROVE  Exchange(k)'
    <3>1. PICK r, kind : /\ inbox[c] # <<>> /\ r = Head(inbox[c]).request
                         /\ Answer(c, kind) /\ Truthful(r, kind)'
      BY <1>2, <2>6, HandlerIsTruthful
    <3>2. CASE c = k
      BY <1>2, <2>2, <3>1, <3>2, AnswerExchange
    <3>3. CASE c # k
      <4>1. client'[k] = client[k] /\ inbox'[k] = inbox[k] /\ outbox'[k] = outbox[k]
        BY <1>2, <3>1, <3>3 DEF Answer, Streams
      <4> QED
        BY <1>2, <2>2, <4>1, ExchangeStays
    <3> QED
      BY <3>2, <3>3
  <2>7. ASSUME NEW c \in Conns, HandleShare(c), lock' = c
        PROVE  UNCHANGED <<client, inbox, outbox>>
    BY <2>7, ServerAssumption DEF HandleShare, Handling
  <2>8. \/ UNCHANGED <<client, inbox, outbox>>
        \/ \E c \in Conns : (\E r \in Requests : Send(c, r)) \/ Receive(c) \/ Close(c)
        \/ \E c \in Conns : Handle(c)
    BY <2>1 DEF ServerNext, ReapLocked, all_vars, server_vars
  <2>9. ASSUME NEW c \in Conns, Handle(c)
        PROVE  Exchange(k)'
    <3>1. CASE HandleShare(c) /\ lock' = c
      BY <2>3, <2>7, <3>1
    <3> QED
      BY <2>6, <2>9, <3>1
  <2>10. ASSUME NEW c \in Conns,
                (\E r \in Requests : Send(c, r)) \/ Receive(c) \/ Close(c)
         PROVE  Exchange(k)'
    BY <2>4, <2>5, <2>10
  <2> QED
    BY <2>3, <2>8, <2>9, <2>10
<1> QED
  BY <1>1, <1>3 DEF AnswerInv

(* At the start the connections are idle and nothing has been told. *)
LEMMA AnswerInit == ServerInit => AnswerInv
<1> SUFFICES ASSUME ServerInit PROVE AnswerInv
  OBVIOUS
<1>1. HeldShareCompletes
  BY ServerAssumption DEF ServerInit, HeldShareCompletes
<1>2. ASSUME NEW k \in Conns PROVE Exchange(k)
  <2>1. client[k] = FreshClient /\ inbox[k] = <<>> /\ outbox[k] = <<>>
    BY DEF ServerInit
  <2>2. /\ client[k].call = NoRequest /\ client[k].last = NoRequest
        /\ client[k].open
    BY <2>1 DEF FreshClient
  <2>3. Truthful(NoRequest, client[k].answer.kind)
    BY DEF Truthful, NoRequest
  <2> QED
    BY <2>1, <2>2, <2>3 DEF Exchange
<1> QED
  BY <1>1, <1>2 DEF AnswerInv

(* True answers are what the two statements ask for: a signer is in the    *)
(* list once, so a share below the threshold is not the one at it.         *)
LEMMA AnswerInvSuffices ==
  ASSUME ServerInv, AnswerInv
  PROVE  AnswersAreTrue
<1> SUFFICES ASSUME timeouts = 0, NEW k \in Conns,
                    NEW r, r = client[k].last,
                    NEW told, told = client[k].answer.kind
             PROVE  /\ r.op = "Commitment" /\ told \notin {"Error", "TimedOut"} =>
                         r.id \in Ids /\ Submitted(sessions[r.id].commitments, r.signer)
                    /\ r.op = "Share" /\ told \in {"Ack", "Signature"} =>
                         r.id \in Ids /\ Submitted(sessions[r.id].shares, r.signer)
                    /\ r.op = "Share" /\ told # "Error" =>
                         (told = "Signature"
                           <=> /\ Len(sessions[r.id].shares) >= Needed(sessions[r.id])
                               /\ sessions[r.id].shares[Needed(sessions[r.id])] = r.signer)
  BY ZenonT(30) DEF AnswersAreTrue, ConfirmedUntilTimeout, SubmissionConfirmed, Confirmed,
         LastShareReturnsSignature
<1>1. Truthful(r, told)
  BY ZenonT(30) DEF AnswerInv, Exchange
<1>2. CASE r.op = "Commitment"
  BY <1>1, <1>2 DEF Truthful
<1>3. CASE r.op = "Share" /\ told # "Error"
  <2>1. /\ told \in {"Ack", "Signature"} /\ r.id \in Ids
        /\ \E i \in 1 .. Len(sessions[r.id].shares) :
             /\ sessions[r.id].shares[i] = r.signer
             /\ IF told = "Ack" THEN i < Needed(sessions[r.id])
                                ELSE i = Needed(sessions[r.id])
    BY <1>1, <1>3, ZenonT(30) DEF Truthful
  <2>2. PICK list, needed : list = sessions[r.id].shares /\ needed = Needed(sessions[r.id])
    OBVIOUS
  <2>3. PICK i \in 1 .. Len(list) : /\ list[i] = r.signer
                                    /\ IF told = "Ack" THEN i < needed ELSE i = needed
    BY <2>1, <2>2, ZenonT(30)
  <2>4. /\ list \in Seq(Signers) /\ sessions[r.id].threshold \in Nat
        /\ \A x, y \in 1 .. Len(list) : list[x] = list[y] => x = y
    <3>1. sessions[r.id] \in CoordinatorSession /\ EarnsPhase(sessions[r.id])
      BY <2>1 DEF ServerInv, CoordinatorInv, TypeOK, PhaseEarned
    <3>2. Distinct(list)
      BY <2>2, <3>1, ZenonT(30) DEF EarnsPhase
    <3>3. \A x, y \in 1 .. Len(list) : list[x] = list[y] => x = y
      BY <3>2 DEF Distinct
    <3> QED
      BY <2>2, <3>1, <3>3, CoordinatorAssumption, ZenonT(30) DEF CoordinatorSession
  <2>5. needed \in Nat /\ needed >= 1 /\ Len(list) \in Nat
    <3>1. needed \in Nat /\ needed >= 1
      BY <2>2, <2>4, NeededPositive, ZenonT(30)
    <3>2. Len(list) \in Nat
      BY <2>4
    <3> QED
      BY <3>1, <3>2
  <2>6. told = "Signature" <=> (Len(list) >= needed /\ list[needed] = r.signer)
    BY <2>1, <2>3, <2>4, <2>5
  <2>7. Submitted(list, r.signer)
    BY <2>3 DEF Submitted
  <2> QED
    BY <1>3, <2>1, <2>2, <2>6, <2>7, ZenonT(30)
<1> QED
  BY <1>2, <1>3, ZenonT(30)

(* Until a read times out, what a client is told is true: a submission     *)
(* reported accepted is in its session, and the signature goes to the call *)
(* whose share completed it, and to no other.                              *)
THEOREM TrueAnswers == ServerSpec => []AnswersAreTrue
<1>1. ServerInit => AnswerInv
  BY AnswerInit
<1>2. ServerInv /\ AnswerInv /\ [ServerNext]_all_vars => AnswerInv'
  BY AnswerStep
<1>3. ServerInv /\ AnswerInv => AnswersAreTrue
  BY AnswerInvSuffices
<1> QED
  BY <1>1, <1>2, <1>3, ServerInvariance, PTL DEF ServerSpec
================================================================================
