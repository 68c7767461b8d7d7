------------------------------ MODULE Coordinator ------------------------------
(***************************************************************************)
(* The signing-session coordinator: `Coordinator` in                       *)
(* confium-coordinator/src/coordinator/coordinator.rs, and the background  *)
(* `SessionReaper` of reaper.rs that shares it through Arc<Mutex<..>>.     *)
(* The mutex is held for a whole call, so each call is one action.  Shares *)
(* and commitments are abstracted to the signer that submitted them, the   *)
(* audit log to the entries of each session in order (`entries_for`), and  *)
(* Utc::now() to `clock`.                                                  *)
(***************************************************************************)
EXTENDS Naturals, Sequences, FiniteSets

CONSTANTS
  Signers,      \* signer ids; the coordinator never checks membership
  NoSigner,     \* the signer of an audit event that has none
  Thresholds,   \* the values of SessionRequest.threshold that are requested
  Windows,      \* the values of SessionRequest.unlock_window_minutes
  MaxSessions,  \* bound: sessions created
  MaxTime,      \* bound: the clock
  MaxAudit      \* bound: audit entries per session

ASSUME CoordinatorAssumption ==
  /\ NoSigner \notin Signers
  /\ Thresholds \subseteq Nat
  /\ Windows \subseteq Nat
  /\ MaxSessions \in Nat
  /\ MaxTime \in Nat
  /\ MaxAudit \in Nat

VARIABLES
  clock,       \* Utc::now()
  next_id,     \* Coordinator.next_id
  sessions,    \* Coordinator.sessions, a map from 0..next_id-1
  audit,       \* Coordinator.audit_log, by session
  signatures   \* every AggregatedSignature `aggregate` has returned

vars == <<clock, next_id, sessions, audit, signatures>>

Ids == 0 .. (next_id - 1)

SessionState ==
  {"Pending", "CommitmentsCollected", "Completed", "Expired", "Aborted"}

CoordinatorSession ==
  [state       : SessionState,
   threshold   : Nat,
   window      : Nat,
   created_at  : Nat,
   commitments : Seq(Signers),
   shares      : Seq(Signers)]

AuditEvent ==
  {"SessionCreated", "CommitmentReceived", "ShareReceived", "Aggregated",
   "Expired"}

AuditEntry ==
  [event : AuditEvent, signer : Signers \cup {NoSigner}, at : Nat]

AggregatedSignature == [session : Nat, signers : Seq(Signers)]

-----------------------------------------------------------------------------
(* CoordinatorSession: the unlock window is inclusive at its end. *)
ExpiresAt(s) == s.created_at + s.window

IsUnlocked(s, now) == now <= ExpiresAt(s)

(* AuditLog::append, of an event of session id by signer. *)
Logged(id, event, signer) ==
  [audit EXCEPT ![id] =
     Append(@, [event |-> event, signer |-> signer, at |-> clock])]

AuditRoom(id) == Len(audit[id]) < MaxAudit

Submitted(list, signer) == \E i \in 1 .. Len(list) : list[i] = signer

-----------------------------------------------------------------------------
Init ==
  /\ clock = 0
  /\ next_id = 0
  /\ sessions = [id \in {} |-> 0]
  /\ audit = [id \in {} |-> <<>>]
  /\ signatures = {}

(* create_session: no field of the request is validated. *)
CreateSession(t, w) ==
  /\ next_id < MaxSessions
  /\ next_id' = next_id + 1
  /\ sessions' = [id \in 0 .. next_id |->
       IF id = next_id
       THEN [state |-> "Pending", threshold |-> t, window |-> w,
             created_at |-> clock, commitments |-> <<>>, shares |-> <<>>]
       ELSE sessions[id]]
  /\ audit' = [id \in 0 .. next_id |->
       IF id = next_id
       THEN <<[event |-> "SessionCreated", signer |-> NoSigner, at |-> clock]>>
       ELSE audit[id]]
  /\ UNCHANGED <<clock, signatures>>

(* The verdict of submit_commitment, its checks in the code's order. *)
CommitmentVerdict(id, signer) ==
  CASE id \notin Ids -> "NotFound"
    [] id \in Ids /\ ~IsUnlocked(sessions[id], clock) -> "Expired"
    [] OTHER ->
         IF sessions[id].state # "Pending" THEN "InvalidState"
         ELSE IF Submitted(sessions[id].commitments, signer)
              THEN "DuplicateSubmission" ELSE "Ok"

(* Mutant of ShareVerdict: a signer may submit its share twice. *)
ShareVerdictRepeat(id, signer) ==
  CASE id \notin Ids -> "NotFound"
    [] id \in Ids /\ ~IsUnlocked(sessions[id], clock) -> "Expired"
    [] OTHER ->
         IF sessions[id].state \notin {"CommitmentsCollected", "Pending"}
         THEN "InvalidState" ELSE "Ok"

(* The verdict of submit_share: shares are also taken while Pending. *)
ShareVerdict(id, signer) ==
  CASE id \notin Ids -> "NotFound"
    [] id \in Ids /\ ~IsUnlocked(sessions[id], clock) -> "Expired"
    [] OTHER ->
         IF sessions[id].state \notin {"CommitmentsCollected", "Pending"}
         THEN "InvalidState"
         ELSE IF Submitted(sessions[id].shares, signer)
              THEN "DuplicateSubmission" ELSE "Ok"

Refusals == {"NotFound", "InvalidState", "DuplicateSubmission"}

(* A submission past the window marks the session, whatever its state. *)
ExpireOnSubmission(id) ==
  /\ AuditRoom(id)
  /\ sessions' = [sessions EXCEPT ![id].state = "Expired"]
  /\ audit' = Logged(id, "Expired", NoSigner)

AcceptCommitment(id, signer) ==
  LET s == sessions[id]
      list == Append(s.commitments, signer)
  IN /\ AuditRoom(id)
     /\ audit' = Logged(id, "CommitmentReceived", signer)
     /\ sessions' = [sessions EXCEPT ![id] =
          [s EXCEPT !.commitments = list,
                    !.state = IF Len(list) >= s.threshold
                              THEN "CommitmentsCollected" ELSE s.state]]

SubmitCommitment(id, signer) ==
  LET verdict == CommitmentVerdict(id, signer)
  IN /\ \/ verdict = "Expired" /\ ExpireOnSubmission(id)
        \/ verdict = "Ok" /\ AcceptCommitment(id, signer)
        \/ verdict \in Refusals /\ UNCHANGED <<sessions, audit>>
     /\ UNCHANGED <<clock, next_id, signatures>>

AcceptShare(id, signer) ==
  LET s == sessions[id]
  IN /\ AuditRoom(id)
     /\ audit' = Logged(id, "ShareReceived", signer)
     /\ sessions' = [sessions EXCEPT ![id] =
          [s EXCEPT !.shares = Append(s.shares, signer)]]

SubmitShare(id, signer) ==
  LET verdict == ShareVerdict(id, signer)
  IN /\ \/ verdict = "Expired" /\ ExpireOnSubmission(id)
        \/ verdict = "Ok" /\ AcceptShare(id, signer)
        \/ verdict \in Refusals /\ UNCHANGED <<sessions, audit>>
     /\ UNCHANGED <<clock, next_id, signatures>>

ThresholdMet(s) == Len(s.shares) >= s.threshold

(* Mutant of Aggregate: the shares are drained into the signature. *)
AggregateDrains(id) ==
  /\ id \in Ids
  /\ ThresholdMet(sessions[id])
  /\ AuditRoom(id)
  /\ sessions' = [sessions EXCEPT ![id].state = "Completed", ![id].shares = <<>>]
  /\ audit' = Logged(id, "Aggregated", NoSigner)
  /\ signatures' = signatures \cup
       {[session |-> id, signers |-> sessions[id].shares]}
  /\ UNCHANGED <<clock, next_id>>

(* Mutant of Aggregate: the completion is not audited. *)
AggregateUnaudited(id) ==
  /\ id \in Ids
  /\ ThresholdMet(sessions[id])
  /\ sessions' = [sessions EXCEPT ![id].state = "Completed"]
  /\ signatures' = signatures \cup
       {[session |-> id, signers |-> sessions[id].shares]}
  /\ UNCHANGED <<clock, next_id, audit>>

(* aggregate: neither the state nor the window is looked at.  A call that  *)
(* finds too few shares, or whose ThresholdSigner fails, changes nothing.  *)
Aggregate(id) ==
  /\ id \in Ids
  /\ ThresholdMet(sessions[id])
  /\ AuditRoom(id)
  /\ sessions' = [sessions EXCEPT ![id].state = "Completed"]
  /\ audit' = Logged(id, "Aggregated", NoSigner)
  /\ signatures' = signatures \cup
       {[session |-> id, signers |-> sessions[id].shares]}
  /\ UNCHANGED <<clock, next_id>>

(* reap_expired_sessions: one pass over the Pending sessions under the     *)
(* lock.  A session in CommitmentsCollected is not a candidate.            *)
Stale(id) ==
  sessions[id].state = "Pending" /\ ~IsUnlocked(sessions[id], clock)

(* Mutant of Reap: a pass audits the stale sessions but leaves their state. *)
ReapAuditsOnly ==
  /\ \E id \in Ids : Stale(id)
  /\ \A id \in Ids : Stale(id) => AuditRoom(id)
  /\ audit' = [id \in Ids |->
       IF Stale(id)
       THEN Append(audit[id],
                   [event |-> "Expired", signer |-> NoSigner, at |-> clock])
       ELSE audit[id]]
  /\ UNCHANGED <<clock, next_id, sessions, signatures>>

Reap ==
  /\ \E id \in Ids : Stale(id)
  /\ \A id \in Ids : Stale(id) => AuditRoom(id)
  /\ sessions' = [id \in Ids |->
       IF Stale(id) THEN [sessions[id] EXCEPT !.state = "Expired"]
       ELSE sessions[id]]
  /\ audit' = [id \in Ids |->
       IF Stale(id)
       THEN Append(audit[id],
                   [event |-> "Expired", signer |-> NoSigner, at |-> clock])
       ELSE audit[id]]
  /\ UNCHANGED <<clock, next_id, signatures>>

Tick ==
  /\ clock < MaxTime
  /\ clock' = clock + 1
  /\ UNCHANGED <<next_id, sessions, audit, signatures>>

Next ==
  \/ \E t \in Thresholds, w \in Windows : CreateSession(t, w)
  \/ \E id \in 0 .. next_id, signer \in Signers : SubmitCommitment(id, signer)
  \/ \E id \in 0 .. next_id, signer \in Signers : SubmitShare(id, signer)
  \/ \E id \in Ids : Aggregate(id)
  \/ Reap
  \/ Tick

Spec == Init /\ [][Next]_vars

(* The reaper thread scans in a loop until stopped, and time passes. *)
FairSpec == Spec /\ WF_vars(Reap) /\ WF_vars(Tick)

-----------------------------------------------------------------------------
(* Every variable keeps its type: the session table and the audit log stay *)
(* maps over exactly the ids that were handed out.                         *)
TypeOK ==
  /\ clock \in Nat
  /\ next_id \in Nat
  /\ sessions \in [Ids -> CoordinatorSession]
  /\ audit \in [Ids -> Seq(AuditEntry)]
  /\ signatures \in SUBSET AggregatedSignature

Distinct(list) ==
  \A i, j \in 1 .. Len(list) : list[i] = list[j] => i = j

(* The audit log shows entry k of session id to be signer's share, taken   *)
(* inside the unlock window.                                               *)
ShareLoggedInWindow(id, signer) ==
  \E k \in 1 .. Len(audit[id]) :
    /\ audit[id][k].event = "ShareReceived"
    /\ audit[id][k].signer = signer
    /\ audit[id][k].at <= ExpiresAt(sessions[id])

(* A signature returned by `aggregate` carries at least T contributing     *)
(* signers, all different, each of whose shares the audit log shows as     *)
(* received inside the unlock window of the session - although aggregate   *)
(* itself checks neither the window nor who submitted.                     *)
SignatureBackedByQuorum ==
  \A sig \in signatures :
    /\ Len(sig.signers) >= sessions[sig.session].threshold
    /\ Distinct(sig.signers)
    /\ \A i \in 1 .. Len(sig.signers) :
         ShareLoggedInWindow(sig.session, sig.signers[i])

(* `aggregate` may run again on a session that is Completed, or Expired by *)
(* a late submission; it then signs with the same contributors, because no *)
(* share is taken after the first signature.                               *)
OneContributorSet ==
  \A a, b \in signatures : a.session = b.session => a.signers = b.signers

(* Both: whatever `aggregate` returned is backed, and by one quorum. *)
SignaturesAreBacked == SignatureBackedByQuorum /\ OneContributorSet

EarnsPhase(s) ==
  /\ Distinct(s.commitments)
  /\ Distinct(s.shares)
  /\ s.state = "CommitmentsCollected" => Len(s.commitments) >= s.threshold
  /\ s.state = "Completed" => ThresholdMet(s)
  /\ s.state = "Pending" =>
       s.commitments = <<>> \/ Len(s.commitments) < s.threshold

(* The phase a session reports is earned: CommitmentsCollected needs T     *)
(* commitments, Completed needs T shares, and a Pending session that has   *)
(* commitments is short of T, all counted over different signers.          *)
PhaseEarned == \A id \in Ids : EarnsPhase(sessions[id])

(* Every share a session holds was audited when it was taken. *)
SharesLogged ==
  \A id \in Ids : \A i \in 1 .. Len(sessions[id].shares) :
    ShareLoggedInWindow(id, sessions[id].shares[i])

(* A signature was made from the shares its session still holds, and that  *)
(* session takes no more of them: it is Completed or was marked Expired by *)
(* a submission after its window.                                          *)
SignatureSettled ==
  \A sig \in signatures :
    /\ sig.session \in Ids
    /\ sig.signers = sessions[sig.session].shares
    /\ sessions[sig.session].state \in {"Completed", "Expired"}
    /\ ThresholdMet(sessions[sig.session])

(* The inductive invariant behind the three safety invariants above. *)
CoordinatorInv ==
  TypeOK /\ PhaseEarned /\ SharesLogged /\ SignatureSettled

Closed(s) == s.state \in {"Completed", "Expired", "Aborted"}

(* Once a session is closed its commitments and shares never change again, *)
(* and it never goes back to collecting them, whichever of the submission  *)
(* handlers, `aggregate` and the reaper runs next.                         *)
ClosedIsFrozen ==
  [][\A id \in Ids : Closed(sessions[id]) =>
       /\ Closed(sessions'[id])
       /\ sessions'[id].commitments = sessions[id].commitments
       /\ sessions'[id].shares = sessions[id].shares]_vars

(* A Pending session whose unlock window has elapsed is eventually closed, *)
(* by the reaper if by no one else.                                        *)
PendingIsReaped ==
  \A id \in 0 .. (MaxSessions - 1) :
    (id \in Ids /\ Stale(id)) ~> (id \in Ids /\ sessions[id].state # "Pending")

(* reaper.rs:3-4 says of a session whose unlock window elapses that it     *)
(* transitions to Expired; this is that sentence for every open session.   *)
EveryStaleSessionExpires ==
  \A id \in 0 .. (MaxSessions - 1) :
    (id \in Ids /\ ~Closed(sessions[id]) /\ ~IsUnlocked(sessions[id], clock))
      ~> (id \in Ids /\ Closed(sessions[id]))
================================================================================
