---------------------------- MODULE PrimitiveProofs ----------------------------
(***************************************************************************)
(* Proofs about what callers share.  DistributedLock: mutual exclusion of  *)
(* running leases, and fencing of late holders, for all holders, resources *)
(* and lease times.  BackpressureGate: the limit holds and the counter is  *)
(* exact for every number of threads and every limit.  RequestCoalescer    *)
(* and RoundCoordinator: waiters have entries, answers are filed in their  *)
(* round.                                                                  *)
(***************************************************************************)
EXTENDS
  DistributedLock, BackpressureGate, RequestCoalescer, RoundCoordinator,
  FiniteSetTheorems, TLAPS

(* The provers a leaf is given that names none of its own, tried in this order. *)
USE SMTT(30), ZenonT(30), Z3T(30), SMTT(40)

-----------------------------------------------------------------------------
(* DistributedLock. *)

(* Running claims exclude each other because the lease has one holder. *)
LEMMA LeasesExclude ==
  ASSUME ClaimsAreLeases
  PROVE  MutualExclusion
BY DEF ClaimsAreLeases, MutualExclusion

(* The invariant but for mutual exclusion, which follows from it. *)
Core == LockTypeOK /\ ClaimsAreLeases /\ TokensFollowGrants

(* DistributedLockManager::new establishes the invariant. *)
LEMMA LockInitEstablishes ==
  ASSUME LockInit
  PROVE  Core
BY LockAssumption
DEF LockInit, Core, LockTypeOK, ClaimsAreLeases, TokensFollowGrants, NoLease, NoClaim

(* try_acquire: the lease it replaces is nobody's, its own or has expired, *)
(* so that no other claim is running; the token is newer than all others.  *)
LEMMA AcquireStep ==
  ASSUME Core, NEW h \in Holders, NEW r \in Resources, NEW ttl \in Ttls,
         TryAcquire(h, r, ttl)
  PROVE  Core'
<1>0. LockTypeOK /\ ttl \in Nat
  BY LockAssumption DEF Core
<1>1. PICK token \in Nat : token = next_token
  BY <1>0 DEF LockTypeOK
<1>2. PICK grant \in Nat : grant = grants[r] + 1
  BY <1>0 DEF LockTypeOK
<1>3. PICK until \in Nat : until = clock + ttl
  BY <1>0 DEF LockTypeOK
<1> DEFINE lease == [holder |-> h, fencing_token |-> token, expires_at |-> until]
           own == [token |-> token, grant |-> grant, until |-> until]
<1>4. /\ next_token' = token + 1
      /\ leases' = [leases EXCEPT ![r] = lease]
      /\ grants' = [grants EXCEPT ![r] = grant]
      /\ claim' = [claim EXCEPT ![h][r] = own]
      /\ clock' = clock /\ written' = written
  BY <1>0, <1>1, <1>2, <1>3 DEF TryAcquire, LockTypeOK
<1>5. LockTypeOK'
  <2>1. lease \in [holder : Holders \cup {NoHolder}, fencing_token : Nat,
                   expires_at : Nat]
    OBVIOUS
  <2>2. own \in [token : Nat, grant : Nat, until : Nat]
    OBVIOUS
  <2> HIDE DEF lease, own
  <2>3. leases' \in [Resources ->
          [holder : Holders \cup {NoHolder}, fencing_token : Nat,
           expires_at : Nat]]
    BY <1>0, <1>4, <2>1 DEF LockTypeOK
  <2>4. claim' \in [Holders ->
          [Resources -> [token : Nat, grant : Nat, until : Nat]]]
    BY <1>0, <1>4, <2>2 DEF LockTypeOK
  <2> QED
    BY <1>0, <1>4, <2>3, <2>4 DEF LockTypeOK
<1>6. /\ leases'[r] = lease /\ claim'[h][r] = own
      /\ \A s \in Resources : s # r =>
           leases'[s] = leases[s] /\ grants'[s] = grants[s]
      /\ \A g \in Holders, s \in Resources : g # h \/ s # r =>
           claim'[g][s] = claim[g][s]
      /\ grants'[r] = grant
  BY <1>0, <1>4 DEF LockTypeOK
<1>7. ClaimsAreLeases'
  <2> SUFFICES ASSUME NEW g \in Holders, NEW s \in Resources
               PROVE  /\ claim'[g][s].until > clock' => leases'[s].holder = g
                      /\ leases'[s].holder = g =>
                           leases'[s].expires_at = claim'[g][s].until
    BY DEF ClaimsAreLeases
  <2>1. CASE s # r
    BY <2>1, <1>4, <1>6 DEF Core, ClaimsAreLeases
  <2>2. CASE s = r /\ g = h
    BY <2>2, <1>6
  <2>3. CASE s = r /\ g # h
    <3>1. claim[g][r].until \in Nat /\ leases[r].expires_at \in Nat /\ clock \in Nat
      BY <1>0 DEF LockTypeOK
    <3>2. ~(claim[g][r].until > clock)
      <4>1. CASE leases[r].holder \in {h, NoHolder}
        BY <4>1, <2>3, LockAssumption DEF Core, ClaimsAreLeases
      <4>2. CASE leases[r].expires_at <= clock
        BY <4>2, <3>1 DEF Core, ClaimsAreLeases
      <4> QED
        BY <4>1, <4>2 DEF TryAcquire, Free
    <3> QED
      BY <2>3, <3>2, <1>4, <1>6
  <2> QED
    BY <2>1, <2>2, <2>3
<1>8. TokensFollowGrants'
  <2> SUFFICES ASSUME NEW s \in Resources
      PROVE  /\ written'[s].token < next_token'
             /\ written'[s].grant <= grants'[s]
             /\ written'[s].token = 0 => written'[s].grant = 0
             /\ \A g \in Holders :
                  /\ claim'[g][s].token < next_token'
                  /\ claim'[g][s].grant <= grants'[s]
                  /\ claim'[g][s].token = 0 => claim'[g][s].grant = 0
                  /\ claim'[g][s].token >= written'[s].token =>
                       claim'[g][s].grant >= written'[s].grant
                  /\ \A f \in Holders :
                       claim'[g][s].token >= claim'[f][s].token =>
                         claim'[g][s].grant >= claim'[f][s].grant
    BY DEF TokensFollowGrants
  <2>1. /\ token > 0
        /\ written[s].token \in Nat /\ written[s].grant \in Nat
        /\ grants[s] \in Nat
        /\ \A g \in Holders :
             claim[g][s].token \in Nat /\ claim[g][s].grant \in Nat
    BY <1>0, <1>1 DEF LockTypeOK
  <2>2. /\ written[s].token < token
        /\ written[s].grant <= grants[s]
        /\ written[s].token = 0 => written[s].grant = 0
        /\ \A g \in Holders :
             /\ claim[g][s].token < token
             /\ claim[g][s].grant <= grants[s]
             /\ claim[g][s].token = 0 => claim[g][s].grant = 0
             /\ claim[g][s].token >= written[s].token =>
                  claim[g][s].grant >= written[s].grant
             /\ \A f \in Holders :
                  claim[g][s].token >= claim[f][s].token =>
                    claim[g][s].grant >= claim[f][s].grant
    BY <1>1 DEF Core, TokensFollowGrants
  <2>3. CASE s # r
    BY <2>1, <2>2, <2>3, <1>4, <1>6
  <2>4. CASE s = r
    <3>1. grants'[s] = grants[s] + 1 /\ grant = grants[s] + 1
      BY <2>4, <1>2, <1>6
    <3>2. /\ claim'[h][s].token = token /\ claim'[h][s].grant = grant
          /\ \A g \in Holders : g # h => claim'[g][s] = claim[g][s]
      BY <2>4, <1>6
    <3> QED
      BY <2>1, <2>2, <3>1, <3>2, <1>4
  <2> QED
    BY <2>3, <2>4
<1> QED
  BY <1>5, <1>7, <1>8 DEF Core

(* Tokens keep following grants when one holder's claim is dropped or      *)
(* changes only its expiry, and nothing else of the numbering changes.     *)
LEMMA TokensKept ==
  ASSUME Core, NEW h \in Holders, NEW r \in Resources,
         UNCHANGED <<next_token, grants, written>>,
         \A g \in Holders, s \in Resources : g # h \/ s # r =>
           claim'[g][s] = claim[g][s],
         \/ claim'[h][r] = NoClaim
         \/ /\ claim'[h][r].token = claim[h][r].token
            /\ claim'[h][r].grant = claim[h][r].grant
  PROVE  TokensFollowGrants'
<1> SUFFICES ASSUME NEW s \in Resources
    PROVE  /\ written'[s].token < next_token'
           /\ written'[s].grant <= grants'[s]
           /\ written'[s].token = 0 => written'[s].grant = 0
           /\ \A g \in Holders :
                /\ claim'[g][s].token < next_token'
                /\ claim'[g][s].grant <= grants'[s]
                /\ claim'[g][s].token = 0 => claim'[g][s].grant = 0
                /\ claim'[g][s].token >= written'[s].token =>
                     claim'[g][s].grant >= written'[s].grant
                /\ \A f \in Holders :
                     claim'[g][s].token >= claim'[f][s].token =>
                       claim'[g][s].grant >= claim'[f][s].grant
  BY DEF TokensFollowGrants
<1>1. /\ written[s].token \in Nat /\ written[s].grant \in Nat
      /\ grants[s] \in Nat /\ next_token \in Nat /\ next_token > 0
      /\ \A g \in Holders :
           claim[g][s].token \in Nat /\ claim[g][s].grant \in Nat
  BY DEF Core, LockTypeOK
<1>2. /\ written[s].token < next_token
      /\ written[s].grant <= grants[s]
      /\ written[s].token = 0 => written[s].grant = 0
      /\ \A g \in Holders :
           /\ claim[g][s].token < next_token
           /\ claim[g][s].grant <= grants[s]
           /\ claim[g][s].token = 0 => claim[g][s].grant = 0
           /\ claim[g][s].token >= written[s].token =>
                claim[g][s].grant >= written[s].grant
           /\ \A f \in Holders :
                claim[g][s].token >= claim[f][s].token =>
                  claim[g][s].grant >= claim[f][s].grant
  BY DEF Core, TokensFollowGrants
<1>3. \A g \in Holders :
        \/ /\ claim'[g][s].token = claim[g][s].token
           /\ claim'[g][s].grant = claim[g][s].grant
        \/ claim'[g][s].token = 0 /\ claim'[g][s].grant = 0
  BY DEF NoClaim
<1> QED
  BY <1>1, <1>2, <1>3

(* release preserves the invariant. *)
LEMMA ReleaseStep ==
  ASSUME Core, NEW h \in Holders, NEW r \in Resources, Release(h, r)
  PROVE  Core'
<1>0. LockTypeOK
  BY DEF Core
<1>1. LockTypeOK'
  BY <1>0 DEF Release, LockTypeOK, NoLease, NoClaim
<1>2. /\ leases'[r] = IF leases[r].holder = h THEN NoLease ELSE leases[r]
      /\ \A s \in Resources : s # r => leases'[s] = leases[s]
      /\ claim'[h][r] = NoClaim
      /\ \A g \in Holders, s \in Resources : g # h \/ s # r =>
           claim'[g][s] = claim[g][s]
      /\ clock' = clock
  BY <1>0 DEF Release, LockTypeOK
<1>3. ClaimsAreLeases'
  <2> SUFFICES ASSUME NEW g \in Holders, NEW s \in Resources
               PROVE  /\ claim'[g][s].until > clock' => leases'[s].holder = g
                      /\ leases'[s].holder = g =>
                           leases'[s].expires_at = claim'[g][s].until
    BY DEF ClaimsAreLeases
  <2>1. /\ claim[g][s].until > clock => leases[s].holder = g
        /\ leases[s].holder = g => leases[s].expires_at = claim[g][s].until
    BY DEF Core, ClaimsAreLeases
  <2>2. CASE s = r /\ g = h
    <3>1. claim'[g][s].until = 0 /\ clock' \in Nat
      BY <2>2, <1>0, <1>2 DEF NoClaim, LockTypeOK
    <3>2. leases'[s].holder # h
      BY <2>2, <1>2, LockAssumption DEF NoLease
    <3> QED
      BY <2>2, <3>1, <3>2
  <2>3. CASE s = r /\ g # h
    BY <2>1, <2>3, <1>2, LockAssumption DEF NoLease
  <2>4. CASE s # r
    BY <2>1, <2>4, <1>2
  <2> QED
    BY <2>2, <2>3, <2>4
<1>4. TokensFollowGrants'
  BY <1>2, TokensKept DEF Release
<1> QED
  BY <1>1, <1>3, <1>4 DEF Core

(* renew preserves the invariant: only the lease's holder moves its end.   *)
LEMMA RenewStep ==
  ASSUME Core, NEW h \in Holders, NEW r \in Resources, NEW ttl \in Ttls,
         Renew(h, r, ttl)
  PROVE  Core'
<1>0. LockTypeOK /\ ttl \in Nat
  BY LockAssumption DEF Core
<1>1. PICK until \in Nat : until = clock + ttl
  BY <1>0 DEF LockTypeOK
<1>2. /\ leases[r].holder = h
      /\ leases' = [leases EXCEPT ![r].expires_at = until]
      /\ claim' = [claim EXCEPT ![h][r].until = until]
      /\ UNCHANGED <<clock, next_token, grants, written>>
  BY <1>1 DEF Renew
<1>3. LockTypeOK'
  <2>1. leases' \in [Resources ->
          [holder : Holders \cup {NoHolder}, fencing_token : Nat,
           expires_at : Nat]]
    BY <1>0, <1>2, ZenonT(30) DEF LockTypeOK
  <2>2. claim' \in [Holders ->
          [Resources -> [token : Nat, grant : Nat, until : Nat]]]
    <3> DEFINE own == [claim[h][r] EXCEPT !.until = until]
    <3>1. own \in [token : Nat, grant : Nat, until : Nat]
      BY <1>0 DEF LockTypeOK
    <3>2. claim' = [claim EXCEPT ![h] = [claim[h] EXCEPT ![r] = own]]
      BY <1>0, <1>2 DEF LockTypeOK
    <3> HIDE DEF own
    <3> QED
      BY <1>0, <3>1, <3>2 DEF LockTypeOK
  <2> QED
    BY <1>0, <1>2, <2>1, <2>2 DEF LockTypeOK
<1>4. /\ leases'[r].expires_at = until /\ leases'[r].holder = h
      /\ \A s \in Resources : s # r => leases'[s] = leases[s]
      /\ claim'[h][r].until = until
      /\ claim'[h][r].token = claim[h][r].token
      /\ claim'[h][r].grant = claim[h][r].grant
      /\ \A g \in Holders, s \in Resources : g # h \/ s # r =>
           claim'[g][s] = claim[g][s]
  BY <1>0, <1>2 DEF LockTypeOK
<1>5. ClaimsAreLeases'
  BY <1>2, <1>4 DEF Core, ClaimsAreLeases
<1>6. TokensFollowGrants'
  BY <1>2, <1>4, TokensKept
<1> QED
  BY <1>3, <1>5, <1>6 DEF Core

(* purge_expired preserves the invariant: no running claim is purged.      *)
LEMMA PurgeStep ==
  ASSUME Core, PurgeExpired
  PROVE  Core'
<1>0. LockTypeOK
  BY DEF Core
<1>1. \A r \in Resources :
        leases'[r] = IF leases[r].expires_at > clock THEN leases[r] ELSE NoLease
  BY DEF PurgeExpired
<1>2. LockTypeOK'
  BY <1>0 DEF PurgeExpired, LockTypeOK, NoLease
<1>3. ClaimsAreLeases'
  <2> SUFFICES ASSUME NEW g \in Holders, NEW s \in Resources
               PROVE  /\ claim'[g][s].until > clock' => leases'[s].holder = g
                      /\ leases'[s].holder = g =>
                           leases'[s].expires_at = claim'[g][s].until
    BY DEF ClaimsAreLeases
  <2>1. /\ claim[g][s].until > clock => leases[s].holder = g
        /\ leases[s].holder = g => leases[s].expires_at = claim[g][s].until
        /\ claim' = claim /\ clock' = clock
    BY DEF Core, ClaimsAreLeases, PurgeExpired
  <2> QED
    BY <2>1, <1>1, LockAssumption DEF NoLease
<1>4. TokensFollowGrants'
  BY DEF Core, TokensFollowGrants, PurgeExpired
<1> QED
  BY <1>2, <1>3, <1>4 DEF Core

(* The store takes a write only of the newest token it has seen, or newer. *)
LEMMA WriteStep ==
  ASSUME Core, NEW h \in Holders, NEW r \in Resources, Write(h, r)
  PROVE  Core' /\ written'[r].grant >= written[r].grant
               /\ \A s \in Resources : s # r => written'[s] = written[s]
<1>0. LockTypeOK
  BY DEF Core
<1>1. /\ written'[r].token = claim[h][r].token
      /\ written'[r].grant = claim[h][r].grant
      /\ \A s \in Resources : s # r => written'[s] = written[s]
      /\ UNCHANGED <<clock, leases, next_token, grants, claim>>
  BY <1>0 DEF Write, LockTypeOK
<1>2. LockTypeOK'
  <2>1. claim[h][r].token \in Nat /\ claim[h][r].grant \in Nat
    BY <1>0 DEF LockTypeOK
  <2> QED
    BY <1>0, <2>1 DEF Write, LockTypeOK
<1>3. ClaimsAreLeases'
  BY <1>1 DEF Core, ClaimsAreLeases
<1>4. TokensFollowGrants'
  BY <1>1 DEF Core, TokensFollowGrants
<1>5. written'[r].grant >= written[r].grant
  BY <1>1 DEF Core, TokensFollowGrants, Write
<1> QED
  BY <1>1, <1>2, <1>3, <1>4, <1>5 DEF Core

(* Time only ends claims. *)
LEMMA TickStep ==
  ASSUME Core, Tick
  PROVE  Core'
<1>1. LockTypeOK'
  BY DEF Core, LockTypeOK, Tick
<1>2. ClaimsAreLeases'
  BY DEF Core, LockTypeOK, ClaimsAreLeases, Tick
<1>3. TokensFollowGrants'
  BY DEF Core, TokensFollowGrants, Tick
<1> QED
  BY <1>1, <1>2, <1>3 DEF Core

(* Every step of the lock manager and its clients preserves the invariant. *)
LEMMA LockNextPreserves ==
  ASSUME Core, [LockNext]_lockVars
  PROVE  Core'
<1>1. CASE UNCHANGED lockVars
  BY <1>1 DEF lockVars, Core, LockTypeOK, ClaimsAreLeases, TokensFollowGrants
<1> QED
  BY <1>1, AcquireStep, ReleaseStep, RenewStep, PurgeStep, WriteStep, TickStep
  DEF LockNext

(* The inductive invariant of the lock manager. *)
THEOREM LockInvariance == LockSpec => []LockInv
<1>1. LockInit => Core
  BY LockInitEstablishes
<1>2. Core /\ [LockNext]_lockVars => Core'
  BY LockNextPreserves
<1>3. Core => LockInv
  BY LeasesExclude DEF Core, LockInv
<1> QED
  BY <1>1, <1>2, <1>3, PTL DEF LockSpec

(* No two holders count on the same resource at the same time. *)
THEOREM LeasesAreExclusive == LockSpec => []MutualExclusion
<1>1. LockInv => MutualExclusion
  BY DEF LockInv
<1> QED
  BY <1>1, LockInvariance, PTL

(* A late holder's write is refused once a later holder has written. *)
THEOREM TokensFence == LockSpec => FencedWrites
<1>1. Core /\ [LockNext]_lockVars =>
        [\A r \in Resources : written'[r].grant >= written[r].grant]_lockVars
  <2> SUFFICES ASSUME Core, LockNext, NEW r \in Resources
               PROVE  written'[r].grant >= written[r].grant
    OBVIOUS
  <2>0. written[r].grant \in Nat
    BY DEF Core, LockTypeOK
  <2>1. CASE \E h \in Holders, s \in Resources : Write(h, s)
    BY <2>0, <2>1, WriteStep
  <2>2. CASE written' = written
    BY <2>0, <2>2
  <2> QED
    BY <2>1, <2>2 DEF LockNext, TryAcquire, Release, Renew, PurgeExpired, Tick
<1>2. LockInv => Core
  BY DEF LockInv, Core
<1> QED
  BY <1>1, <1>2, LockInvariance, PTL DEF LockSpec, FencedWrites

-----------------------------------------------------------------------------
(* BackpressureGate. *)

(* The threads that the counter of the gate stands for. *)
Counted == AtGate("inside") \cup AtGate("rejecting")

(* The sets of threads that are counted are finite. *)
LEMMA Finite ==
  /\ IsFiniteSet(Counted) /\ Cardinality(Counted) \in Nat
  /\ IsFiniteSet(AtGate("inside")) /\ Cardinality(AtGate("inside")) \in Nat
<1>1. Counted \subseteq Callers /\ AtGate("inside") \subseteq Callers
  BY DEF Counted, AtGate
<1> QED
  BY <1>1, GateAssumption, FS_Subset, FS_CardinalityType

(* A caller that moves from outside to inside or to rejecting is one more. *)
LEMMA Enter ==
  ASSUME GateTypeOK, NEW t \in Callers, caller[t] \notin {"inside", "rejecting"},
         NEW to \in {"inside", "rejecting"},
         caller' = [caller EXCEPT ![t] = to]
  PROVE  /\ Cardinality(Counted') = Cardinality(Counted) + 1
         /\ to = "inside" =>
              Cardinality(AtGate("inside")') = Cardinality(AtGate("inside")) + 1
         /\ to = "rejecting" => AtGate("inside")' = AtGate("inside")
<1>1. Counted' = Counted \cup {t} /\ t \notin Counted
  BY DEF Counted, AtGate, GateTypeOK
<1>2. Cardinality(Counted \cup {t}) = Cardinality(Counted) + 1
  BY <1>1, Finite, FS_AddElement, ZenonT(30)
<1>3. CASE to = "inside"
  <2>1. AtGate("inside")' = AtGate("inside") \cup {t} /\ t \notin AtGate("inside")
    BY <1>3 DEF AtGate, GateTypeOK
  <2>2. Cardinality(AtGate("inside") \cup {t}) = Cardinality(AtGate("inside")) + 1
    BY <2>1, Finite, FS_AddElement, ZenonT(30)
  <2> QED
    BY <1>1, <1>2, <1>3, <2>1, <2>2
<1>4. CASE to = "rejecting"
  <2>1. AtGate("inside")' = AtGate("inside")
    BY <1>4 DEF AtGate, GateTypeOK
  <2> QED
    BY <1>1, <1>2, <1>4, <2>1
<1> QED
  BY <1>3, <1>4

(* A counted caller that goes outside is one less. *)
LEMMA Leave ==
  ASSUME GateTypeOK, NEW t \in Callers, caller[t] \in {"inside", "rejecting"},
         caller' = [caller EXCEPT ![t] = "outside"]
  PROVE  /\ Cardinality(Counted') = Cardinality(Counted) - 1
         /\ Cardinality(Counted) > 0
         /\ Cardinality(AtGate("inside")') <= Cardinality(AtGate("inside"))
         /\ AtGate("inside")' \subseteq AtGate("inside")
<1>1. Counted' = Counted \ {t} /\ t \in Counted
  BY DEF Counted, AtGate, GateTypeOK
<1>2. Cardinality(Counted \ {t}) = Cardinality(Counted) - 1
  BY <1>1, Finite, FS_RemoveElement, ZenonT(30)
<1>3. IsFiniteSet(Counted \ {t}) /\ Cardinality(Counted \ {t}) \in Nat
  BY Finite, FS_Subset, FS_CardinalityType
<1>4. AtGate("inside")' \subseteq AtGate("inside")
  BY DEF AtGate, GateTypeOK
<1>5. Cardinality(AtGate("inside")') <= Cardinality(AtGate("inside"))
  BY <1>4, Finite, FS_Subset
<1> QED
  BY <1>1, <1>2, <1>3, <1>4, <1>5, Finite

(* The inductive invariant of the gate. *)
THEOREM GateInvariance == GateSpec => []GateInv
<1>1. GateInit => GateInv
  <2> SUFFICES ASSUME GateInit PROVE GateInv
    OBVIOUS
  <2>1. AtGate("inside") = {} /\ AtGate("inside") \cup AtGate("rejecting") = {}
    BY DEF GateInit, AtGate
  <2>2. Cardinality({}) = 0
    BY FS_EmptySet
  <2>3. GateTypeOK
    BY DEF GateInit, GateTypeOK
  <2>4. CounterExact
    BY <2>1, <2>2 DEF GateInit, CounterExact
  <2>5. WithinLimit
    BY <2>1, <2>2, <2>3, GateAssumption DEF WithinLimit, GateTypeOK
  <2> QED
    BY <2>1, <2>3, <2>4, <2>5 DEF GateInv
<1>2. GateInv /\ [GateNext]_gateVars => GateInv'
  <2> SUFFICES ASSUME GateInv, [GateNext]_gateVars
               PROVE  GateInv'
    OBVIOUS
  <2>0. /\ GateTypeOK /\ max_active_sessions \in Nat
        /\ active = Cardinality(Counted)
        /\ max_active_sessions > 0 =>
             Cardinality(AtGate("inside")) <= max_active_sessions
        /\ max_active_sessions = 0 => AtGate("inside") = {}
    BY GateAssumption
    DEF GateInv, GateTypeOK, CounterExact, WithinLimit, Counted
  <2>1. ASSUME NEW t \in Callers, AcquireUnlimited(t) PROVE GateInv'
    <3>1. AtGate("inside")' = AtGate("inside") /\ AtGate("rejecting")' = AtGate("rejecting")
      BY <2>1, <2>0 DEF AcquireUnlimited, AtGate, GateTypeOK
    <3>2. GateTypeOK'
      BY <2>1, <2>0 DEF AcquireUnlimited, GateTypeOK
    <3> QED
      BY <2>1, <3>1, <3>2
      DEF AcquireUnlimited, GateInv, CounterExact, WithinLimit
  <2>2. ASSUME NEW t \in Callers, FetchAdd(t) PROVE GateInv'
    <3>1. PICK to \in {"inside", "rejecting"} :
            /\ caller' = [caller EXCEPT ![t] = to]
            /\ to = "inside" => active < max_active_sessions
      <4>1. CASE active >= max_active_sessions
        <5>1. caller' = [caller EXCEPT ![t] = "rejecting"]
          BY <2>2, <4>1 DEF FetchAdd
        <5> QED
          BY <5>1
      <4>2. CASE ~(active >= max_active_sessions)
        <5>1. caller' = [caller EXCEPT ![t] = "inside"]
          BY <2>2, <4>2 DEF FetchAdd
        <5>2. active < max_active_sessions
          BY <4>2, <2>0 DEF GateTypeOK
        <5> QED
          BY <5>1, <5>2
      <4> QED
        BY <4>1, <4>2
    <3>2. /\ Cardinality(Counted') = Cardinality(Counted) + 1
          /\ to = "inside" =>
               Cardinality(AtGate("inside")') = Cardinality(AtGate("inside")) + 1
          /\ to = "rejecting" => AtGate("inside")' = AtGate("inside")
      <4>1. caller[t] \notin {"inside", "rejecting"}
        BY <2>2 DEF FetchAdd
      <4> QED
        BY <4>1, <3>1, <2>0, Enter, ZenonT(30)
    <3>3. Cardinality(AtGate("inside")) <= Cardinality(Counted)
      BY Finite, FS_Subset DEF Counted
    <3>5. GateTypeOK'
      BY <2>2, <2>0, <3>1 DEF FetchAdd, GateTypeOK
    <3>6. CounterExact'
      BY <2>2, <2>0, <3>2 DEF FetchAdd, CounterExact, Counted
    <3>7. Cardinality(AtGate("inside")') <= max_active_sessions'
      BY <2>2, <2>0, <3>1, <3>2, <3>3, Finite DEF FetchAdd
    <3> QED
      BY <2>2, <2>0, <3>5, <3>6, <3>7 DEF FetchAdd, GateInv, WithinLimit
  <2>3. ASSUME NEW t \in Callers, caller[t] \in {"inside", "rejecting"},
               caller' = [caller EXCEPT ![t] = "outside"],
               active' = active - 1,
               UNCHANGED max_active_sessions
        PROVE  GateInv'
    <3>1. /\ Cardinality(Counted') = Cardinality(Counted) - 1
          /\ Cardinality(Counted) > 0
          /\ Cardinality(AtGate("inside")') <= Cardinality(AtGate("inside"))
          /\ AtGate("inside")' \subseteq AtGate("inside")
      BY <2>3, <2>0, Leave, ZenonT(30)
    <3>2. GateTypeOK'
      BY <2>3, <2>0, <3>1, Finite DEF GateTypeOK
    <3>3. CounterExact'
      BY <2>3, <2>0, <3>1 DEF CounterExact, Counted
    <3>4. Cardinality(AtGate("inside")') \in Nat
      <4>1. AtGate("inside")' \subseteq Callers
        BY DEF AtGate
      <4> QED
        BY <4>1, GateAssumption, FS_Subset, FS_CardinalityType
    <3>5. WithinLimit'
      BY <2>3, <2>0, <3>1, <3>4, Finite DEF WithinLimit
    <3> QED
      BY <2>3, <2>0, <3>1, <3>2, <3>3, <3>5 DEF GateInv
  <2>4. ASSUME NEW t \in Callers, DropSlot(t), caller[t] = "unlimited"
        PROVE  GateInv'
    <3>1. AtGate("inside")' = AtGate("inside") /\ AtGate("rejecting")' = AtGate("rejecting")
      BY <2>4, <2>0 DEF DropSlot, AtGate, GateTypeOK
    <3>2. GateTypeOK'
      BY <2>4, <2>0 DEF DropSlot, GateTypeOK
    <3> QED
      BY <2>4, <3>1, <3>2 DEF DropSlot, GateInv, CounterExact, WithinLimit
  <2>5. CASE UNCHANGED gateVars
    BY <2>5 DEF gateVars, GateInv, GateTypeOK, CounterExact, WithinLimit, AtGate
  <2>6. ASSUME NEW t \in Callers, FetchSub(t) PROVE GateInv'
    BY <2>6, <2>3, ZenonT(30) DEF FetchSub
  <2>7. ASSUME NEW t \in Callers, DropSlot(t) PROVE GateInv'
    BY <2>7, <2>3, <2>4, ZenonT(30) DEF DropSlot
  <2> QED
    BY <2>1, <2>2, <2>5, <2>6, <2>7 DEF GateNext
<1> QED
  BY <1>1, <1>2, PTL DEF GateSpec

(* Never more than max_active_sessions sessions hold a slot, and the atomic *)
(* counter is exact at every moment: no slot is lost or freed twice.       *)
THEOREM LimitHolds == GateSpec => []LimitIsExact
<1>1. GateInv => LimitIsExact
  BY DEF GateInv, LimitIsExact
<1> QED
  BY <1>1, GateInvariance, PTL

-----------------------------------------------------------------------------
(* RequestCoalescer. *)

(* A key under way counts the requests inside and those that were dropped; *)
(* one that is not has neither.                                            *)
WaitersCounted(k) ==
  IF k \in Pending
  THEN /\ pending[k] \in [waiters : Nat, result : BOOLEAN]
       /\ pending[k].waiters = Cardinality(Inside(k)) + dropped[k]
       /\ pending[k].waiters > 0
  ELSE Inside(k) = {} /\ dropped[k] = 0

(* It was told to execute and has not answered. *)
Executes(r) == stage[r] = "executing"

(* The counts agree, and a key whose request executes has no answer yet    *)
(* and no second request executing it.                                     *)
CoalescerInv ==
  /\ stage \in [Askers -> {"outside", "executing", "waiting"}]
  /\ wanted \in [Askers -> RequestKeys]
  /\ dropped \in [RequestKeys -> Nat]
  /\ Pending \subseteq RequestKeys
  /\ \A k \in RequestKeys : WaitersCounted(k)
  /\ \A r \in Askers : Executes(r) => wanted[r] \in Pending /\ ~pending[wanted[r]].result
  /\ \A r, s \in Askers : Executes(r) /\ Executes(s) /\ wanted[r] = wanted[s] => r = s

(* The requests inside can be counted, and a request that is outside is    *)
(* none of them.                                                           *)
LEMMA InsideFinite ==
  /\ \A k \in RequestKeys : IsFiniteSet(Inside(k)) /\ Cardinality(Inside(k)) \in Nat
<1>1. ASSUME NEW k \in RequestKeys PROVE IsFiniteSet(Inside(k))
  <2>1. Inside(k) \subseteq Askers
    BY DEF Inside
  <2>2. QED
    BY <2>1, FS_Subset, CoalescerAssumption
<1>2. QED
  BY <1>1, FS_CardinalityType

(* A request that enters is counted. *)
LEMMA EntersCounted ==
  ASSUME CoalescerInv, NEW r \in Askers, NEW k \in RequestKeys,
         NEW place \in {"executing", "waiting"},
         stage[r] = "outside", Enters(r, k, place)
  PROVE  /\ Cardinality(Inside(k)') = Cardinality(Inside(k)) + 1
         /\ \A j \in RequestKeys : j # k => Inside(j)' = Inside(j)
         /\ stage' \in [Askers -> {"outside", "executing", "waiting"}]
         /\ wanted' \in [Askers -> RequestKeys]
<1>1. /\ stage' = [stage EXCEPT ![r] = place] /\ wanted' = [wanted EXCEPT ![r] = k]
      /\ stage \in [Askers -> {"outside", "executing", "waiting"}]
      /\ wanted \in [Askers -> RequestKeys]
  BY DEF Enters, CoalescerInv
<1>2. Inside(k)' = Inside(k) \cup {r} /\ r \notin Inside(k)
  BY <1>1 DEF Inside
<1>3. \A j \in RequestKeys : j # k => Inside(j)' = Inside(j)
  BY <1>1 DEF Inside
<1>4. Cardinality(Inside(k) \cup {r}) = Cardinality(Inside(k)) + 1
  BY <1>2, InsideFinite, FS_AddElement, ZenonT(30)
<1>5. QED
  BY <1>1, <1>2, <1>3, <1>4

(* One that leaves is counted no more. *)
LEMMA LeavesCounted ==
  ASSUME CoalescerInv, NEW r \in Askers, stage[r] # "outside", Leaves(r)
  PROVE  /\ Cardinality(Inside(wanted[r])') = Cardinality(Inside(wanted[r])) - 1
         /\ Cardinality(Inside(wanted[r])) > 0
         /\ \A j \in RequestKeys : j # wanted[r] => Inside(j)' = Inside(j)
         /\ stage' \in [Askers -> {"outside", "executing", "waiting"}]
         /\ Cardinality(Inside(wanted[r])) = 1 => Inside(wanted[r])' = {}
<1> DEFINE k == wanted[r]
<1>1. /\ stage' = [stage EXCEPT ![r] = "outside"] /\ wanted' = wanted
      /\ stage \in [Askers -> {"outside", "executing", "waiting"}]
      /\ wanted \in [Askers -> RequestKeys]
  BY DEF Leaves, CoalescerInv
<1>2. {s \in Askers : stage'[s] # "outside" /\ wanted'[s] = k} = Inside(k) \ {r} /\ r \in Inside(k)
  BY <1>1 DEF Inside
<1>3. \A j \in RequestKeys : j # k => Inside(j)' = Inside(j)
  BY <1>1 DEF Inside
<1>4. k \in RequestKeys /\ IsFiniteSet(Inside(k)) /\ Cardinality(Inside(k)) \in Nat
  BY <1>1, InsideFinite
<1>5. Cardinality(Inside(k) \ {r}) = Cardinality(Inside(k)) - 1
  BY <1>2, <1>4, FS_RemoveElement, ZenonT(30)
<1>6. Cardinality(Inside(k)) > 0
  BY <1>2, <1>4, FS_EmptySet
<1>7. Cardinality(Inside(k)) = 1 => Inside(k) \ {r} = {}
  <2>1. IsFiniteSet(Inside(k) \ {r})
    BY <1>2, <1>4, FS_RemoveElement
  <2>2. QED
    BY <1>5, <2>1, FS_EmptySet
<1>8. Inside(wanted[r])' = Inside(k) \ {r}
  BY <1>1, <1>2 DEF Inside
<1>9. QED
  BY <1>1, <1>3, <1>5, <1>6, <1>7, <1>8
(* Every call, and every request that is dropped, keep the invariant. *)
LEMMA CoalescerStep == CoalescerInv /\ [CoalescerNext]_coalescerVars => CoalescerInv'
<1> SUFFICES ASSUME CoalescerInv, [CoalescerNext]_coalescerVars PROVE CoalescerInv'
  OBVIOUS
<1> DEFINE Entry == [waiters : Nat, result : BOOLEAN]
<1>0. /\ stage \in [Askers -> {"outside", "executing", "waiting"}]
      /\ wanted \in [Askers -> RequestKeys]
      /\ dropped \in [RequestKeys -> Nat]
      /\ Pending \subseteq RequestKeys
      /\ \A k \in RequestKeys : Cardinality(Inside(k)) \in Nat
  BY InsideFinite DEF CoalescerInv
<1>1. ASSUME NEW r \in Askers, NEW k \in RequestKeys, BeginFirst(r, k) PROVE CoalescerInv'
  <2>1. /\ stage[r] = "outside" /\ k \notin Pending /\ dropped' = dropped
        /\ Pending' = Pending \cup {k}
        /\ pending'[k] = [waiters |-> 1, result |-> FALSE]
        /\ \A j \in Pending : pending'[j] = pending[j]
        /\ Enters(r, k, "executing")
    BY <1>1 DEF BeginFirst, Pending
  <2>2. /\ Cardinality(Inside(k)') = Cardinality(Inside(k)) + 1
        /\ \A j \in RequestKeys : j # k => Inside(j)' = Inside(j)
        /\ stage' \in [Askers -> {"outside", "executing", "waiting"}]
        /\ wanted' \in [Askers -> RequestKeys]
    BY <2>1, EntersCounted
  <2>3. Inside(k) = {} /\ dropped[k] = 0 /\ Cardinality(Inside(k)) = 0
    BY <2>1, FS_EmptySet, ZenonT(30) DEF CoalescerInv, WaitersCounted
  <2>4. pending'[k] \in Entry /\ pending'[k].waiters = 1 /\ ~pending'[k].result
    BY <2>1
  <2>5. WaitersCounted(k)'
    BY <2>1, <2>2, <2>3, <2>4 DEF WaitersCounted
  <2>6. \A j \in RequestKeys : j # k => WaitersCounted(j)'
    BY <2>1, <2>2 DEF WaitersCounted, CoalescerInv
  <2>7. /\ stage' = [stage EXCEPT ![r] = "executing"] /\ wanted' = [wanted EXCEPT ![r] = k]
        /\ \A s \in Askers : Executes(s) => wanted[s] # k
    BY <1>0, <2>1, <2>3 DEF Enters, Inside, Executes
  <2>8. \A s \in Askers : Executes(s)' => wanted'[s] \in Pending' /\ ~pending'[wanted'[s]].result
    BY <1>0, <2>1, <2>4, <2>7 DEF CoalescerInv, Executes
  <2>9. \A s, t \in Askers : Executes(s)' /\ Executes(t)' /\ wanted'[s] = wanted'[t] => s = t
    BY <1>0, <2>7 DEF CoalescerInv, Executes
  <2>10. QED
    BY <1>0, <2>1, <2>2, <2>5, <2>6, <2>8, <2>9 DEF CoalescerInv
<1>2. ASSUME NEW r \in Askers, NEW k \in RequestKeys, BeginJoins(r, k) PROVE CoalescerInv'
  <2>1. /\ stage[r] = "outside" /\ k \in Pending /\ dropped' = dropped
        /\ Pending' = Pending
        /\ pending'[k] = [pending[k] EXCEPT !.waiters = @ + 1]
        /\ \A j \in Pending : j # k => pending'[j] = pending[j]
        /\ Enters(r, k, "waiting")
    BY <1>2 DEF BeginJoins, Pending, Joined
  <2>2. /\ Cardinality(Inside(k)') = Cardinality(Inside(k)) + 1
        /\ \A j \in RequestKeys : j # k => Inside(j)' = Inside(j)
        /\ stage' \in [Askers -> {"outside", "executing", "waiting"}]
        /\ wanted' \in [Askers -> RequestKeys]
    BY <2>1, EntersCounted
  <2>3. pending[k] \in Entry /\ pending[k].waiters = Cardinality(Inside(k)) + dropped[k]
    BY <2>1 DEF CoalescerInv, WaitersCounted
  <2>4. /\ pending'[k] \in Entry /\ pending'[k].waiters = pending[k].waiters + 1
        /\ pending'[k].result = pending[k].result
    BY <2>1, <2>3
  <2>5. WaitersCounted(k)'
    <3>1. Cardinality(Inside(k)) \in Nat /\ dropped[k] \in Nat
      BY <1>0
    <3>2. pending'[k].waiters = Cardinality(Inside(k)') + dropped'[k] /\ pending'[k].waiters > 0
      BY <2>1, <2>2, <2>3, <2>4, <3>1
    <3>3. QED
      BY <2>1, <2>4, <3>2 DEF WaitersCounted
  <2>6. \A j \in RequestKeys : j # k => WaitersCounted(j)'
    BY <2>1, <2>2 DEF WaitersCounted, CoalescerInv
  <2>7. stage' = [stage EXCEPT ![r] = "waiting"] /\ wanted' = [wanted EXCEPT ![r] = k]
    BY <2>1 DEF Enters
  <2>8. \A s \in Askers : Executes(s)' => wanted'[s] \in Pending' /\ ~pending'[wanted'[s]].result
    BY <1>0, <2>1, <2>4, <2>7 DEF CoalescerInv, Executes
  <2>9. \A s, t \in Askers : Executes(s)' /\ Executes(t)' /\ wanted'[s] = wanted'[t] => s = t
    BY <1>0, <2>7 DEF CoalescerInv, Executes
  <2>10. QED
    BY <1>0, <2>1, <2>2, <2>5, <2>6, <2>8, <2>9 DEF CoalescerInv
<1>3. ASSUME NEW r \in Askers, Complete(r) PROVE CoalescerInv'
  <2> DEFINE k == wanted[r]
  <2>1. /\ stage[r] = "executing" /\ stage' = [stage EXCEPT ![r] = "waiting"]
        /\ wanted' = wanted /\ dropped' = dropped /\ Pending' = Pending /\ k \in Pending
        /\ pending'[k] = [pending[k] EXCEPT !.result = TRUE]
        /\ \A j \in Pending : j # k => pending'[j] = pending[j]
    BY <1>3, ZenonT(30) DEF Complete, Pending, CoalescerInv, Executes
  <2>2. pending[k] \in Entry
    BY <1>0, <2>1 DEF CoalescerInv, WaitersCounted
  <2>3. pending'[k] \in Entry /\ pending'[k].waiters = pending[k].waiters
    BY <2>1, <2>2, ZenonT(30)
  <2>4. \A j \in RequestKeys : Inside(j)' = Inside(j)
    BY <1>0, <2>1 DEF Inside
  <2>5. \A j \in RequestKeys : WaitersCounted(j)'
    BY <1>0, <2>1, <2>3, <2>4 DEF WaitersCounted, CoalescerInv
  <2>6. \A s \in Askers : Executes(s)' => wanted'[s] \in Pending' /\ ~pending'[wanted'[s]].result
    BY <1>0, <2>1 DEF CoalescerInv, Executes
  <2>7. \A s, t \in Askers : Executes(s)' /\ Executes(t)' /\ wanted'[s] = wanted'[t] => s = t
    BY <1>0, <2>1 DEF CoalescerInv, Executes
  <2>8. QED
    BY <1>0, <2>1, <2>5, <2>6, <2>7 DEF CoalescerInv
<1>4. ASSUME NEW r \in Askers, CollectResult(r) PROVE CoalescerInv'
  <2> DEFINE k == wanted[r]
             m == pending[k].waiters - 1
  <2>1. /\ stage[r] = "waiting" /\ k \in Pending /\ pending[k].result /\ dropped' = dropped
        /\ Leaves(r)
        /\ IF m = 0 THEN pending' = [j \in Pending \ {k} |-> pending[j]]
                    ELSE pending' = [pending EXCEPT ![k].waiters = @ - 1]
    BY <1>4 DEF CollectResult, LastWaiter
  <2>2. /\ Cardinality(Inside(k)') = Cardinality(Inside(k)) - 1
        /\ Cardinality(Inside(k)) > 0
        /\ \A j \in RequestKeys : j # k => Inside(j)' = Inside(j)
        /\ stage' \in [Askers -> {"outside", "executing", "waiting"}]
        /\ Cardinality(Inside(k)) = 1 => Inside(k)' = {}
        /\ stage' = [stage EXCEPT ![r] = "outside"] /\ wanted' = wanted
    BY <2>1, LeavesCounted, ZenonT(30) DEF Leaves
  <2>3. /\ k \in RequestKeys /\ pending[k] \in Entry
        /\ pending[k].waiters = Cardinality(Inside(k)) + dropped[k]
        /\ Cardinality(Inside(k)) \in Nat /\ dropped[k] \in Nat
    BY <1>0, <2>1 DEF CoalescerInv, WaitersCounted
  <2>4. \A s \in Askers : Executes(s)' => Executes(s) /\ s # r
    BY <1>0, <2>2 DEF Executes
  <2>5. \A s \in Askers : Executes(s) => wanted[s] # k
    BY <2>1 DEF CoalescerInv
  <2>6. CASE m = 0
    <3>1. /\ Pending' = Pending \ {k} /\ \A j \in Pending' : pending'[j] = pending[j]
      BY <2>1, <2>6 DEF Pending
    <3>2. dropped[k] = 0 /\ Cardinality(Inside(k)) = 1
      BY <2>2, <2>3, <2>6
    <3>3. \A j \in RequestKeys : WaitersCounted(j)'
      BY <2>1, <2>2, <2>3, <3>1, <3>2 DEF WaitersCounted, CoalescerInv
    <3>4. \A s \in Askers : Executes(s)' => wanted'[s] \in Pending' /\ ~pending'[wanted'[s]].result
      BY <2>2, <2>4, <2>5, <3>1 DEF CoalescerInv
    <3>5. QED
      BY <1>0, <2>1, <2>2, <2>4, <3>1, <3>3, <3>4 DEF CoalescerInv
  <2>7. CASE m # 0
    <3>1. /\ Pending' = Pending /\ \A j \in Pending : j # k => pending'[j] = pending[j]
          /\ pending'[k] = [pending[k] EXCEPT !.waiters = @ - 1]
      BY <2>1, <2>7 DEF Pending
    <3>2. pending[k].waiters \in Nat /\ pending[k].waiters > 1
      BY <2>2, <2>3, <2>7
    <3>3. pending'[k] \in Entry /\ pending'[k].waiters = pending[k].waiters - 1
      BY <2>3, <3>1, <3>2
    <3>4. WaitersCounted(k)'
      <4>1. /\ pending'[k].waiters = Cardinality(Inside(k)') + dropped'[k]
            /\ pending'[k].waiters > 0
        BY <2>1, <2>2, <2>3, <3>2, <3>3
      <4>2. QED
        BY <2>1, <2>2, <3>1, <3>3, <4>1 DEF WaitersCounted
    <3>5. \A j \in RequestKeys : j # k => WaitersCounted(j)'
      BY <2>1, <2>2, <3>1 DEF WaitersCounted, CoalescerInv
    <3>6. \A s \in Askers : Executes(s)' => wanted'[s] \in Pending' /\ ~pending'[wanted'[s]].result
      BY <2>2, <2>4, <2>5, <3>1 DEF CoalescerInv
    <3>7. k = wanted'[r]
      BY <2>2
    <3>8. QED
      BY <1>0, <2>1, <2>2, <2>4, <3>1, <3>4, <3>5, <3>6, <3>7 DEF CoalescerInv
  <2>8. QED
    BY <2>6, <2>7
<1>5. ASSUME NEW r \in Askers, Drop(r) PROVE CoalescerInv'
  <2> DEFINE k == wanted[r]
  <2>1. /\ stage[r] # "outside" /\ Leaves(r) /\ pending' = pending
        /\ dropped' = [dropped EXCEPT ![k] = @ + 1]
    BY <1>5 DEF Drop
  <2>2. /\ Cardinality(Inside(k)') = Cardinality(Inside(k)) - 1
        /\ Cardinality(Inside(k)) > 0
        /\ \A j \in RequestKeys : j # k => Inside(j)' = Inside(j)
        /\ stage' \in [Askers -> {"outside", "executing", "waiting"}]
        /\ stage' = [stage EXCEPT ![r] = "outside"] /\ wanted' = wanted
    BY <2>1, LeavesCounted, ZenonT(30) DEF Leaves
  <2>3. k \in RequestKeys /\ Cardinality(Inside(k)) \in Nat /\ dropped[k] \in Nat
    BY <1>0
  <2>4. k \in Pending
    <3>1. Inside(k) # {}
      BY <2>2, FS_EmptySet
    <3>2. QED
      BY <2>3, <3>1 DEF CoalescerInv, WaitersCounted
  <2>5. pending[k] \in Entry /\ pending[k].waiters = Cardinality(Inside(k)) + dropped[k]
        /\ pending[k].waiters > 0
    BY <2>3, <2>4 DEF CoalescerInv, WaitersCounted
  <2>6. dropped' \in [RequestKeys -> Nat] /\ dropped'[k] = dropped[k] + 1 /\ Pending' = Pending
    BY <1>0, <2>1, <2>3 DEF Pending
  <2>7. pending'[k].waiters = Cardinality(Inside(k)') + dropped'[k]
    BY <2>1, <2>2, <2>3, <2>5, <2>6
  <2>8. WaitersCounted(k)'
    BY <2>1, <2>2, <2>4, <2>5, <2>6, <2>7 DEF WaitersCounted
  <2>9. \A j \in RequestKeys : j # k => WaitersCounted(j)'
    BY <1>0, <2>1, <2>2, <2>6 DEF WaitersCounted, CoalescerInv
  <2>10. \A s \in Askers : Executes(s)' => Executes(s)
    BY <1>0, <2>2 DEF Executes
  <2>11. k = wanted'[r]
    BY <2>2
  <2>12. QED
    BY <1>0, <2>1, <2>2, <2>6, <2>8, <2>9, <2>10, <2>11 DEF CoalescerInv
<1>6. CASE UNCHANGED coalescerVars
  <2>1. pending' = pending /\ stage' = stage /\ wanted' = wanted /\ dropped' = dropped
    BY <1>6 DEF coalescerVars
  <2>2. Pending' = Pending /\ \A k \in RequestKeys : Inside(k)' = Inside(k)
    BY <2>1 DEF Pending, Inside
  <2>3. \A k \in RequestKeys : WaitersCounted(k)'
    BY <2>1, <2>2 DEF CoalescerInv, WaitersCounted
  <2>4. QED
    BY <2>1, <2>2, <2>3 DEF CoalescerInv, Executes
<1>7. QED
  BY <1>1, <1>2, <1>3, <1>4, <1>5, <1>6 DEF CoalescerNext

(* For any number of requests and keys, a request that waits is never left *)
(* behind and a key is under way only while a request for it is, or one    *)
(* was dropped.                                                            *)
THEOREM CoalescerSafe == CoalescerSpec => []WaitersMatchEntries
<1>1. CoalescerInit => CoalescerInv
  <2> SUFFICES ASSUME CoalescerInit PROVE CoalescerInv
    OBVIOUS
  <2>1. Pending = {} /\ \A k \in RequestKeys : Inside(k) = {} /\ dropped[k] = 0
    BY DEF CoalescerInit, Pending, Inside
  <2>2. \A k \in RequestKeys : WaitersCounted(k)
    BY <2>1 DEF WaitersCounted
  <2>3. wanted \in [Askers -> RequestKeys]
    BY CoalescerAssumption DEF CoalescerInit
  <2>4. QED
    BY <2>1, <2>2, <2>3 DEF CoalescerInit, CoalescerInv, Executes
<1>2. CoalescerInv => NobodyLeftBehind /\ StaleOnlyIfDropped
  <2> SUFFICES ASSUME CoalescerInv PROVE NobodyLeftBehind /\ StaleOnlyIfDropped
    OBVIOUS
  <2>1. ASSUME NEW r \in Askers, stage[r] # "outside" PROVE wanted[r] \in Pending
    <3>1. PICK k \in RequestKeys : k = wanted[r]
      BY DEF CoalescerInv
    <3>2. r \in Inside(k)
      BY <2>1, <3>1 DEF Inside
    <3>3. WaitersCounted(k)
      BY DEF CoalescerInv
    <3> QED
      BY <3>1, <3>2, <3>3 DEF WaitersCounted
  <2>2. NobodyLeftBehind
    BY <2>1 DEF NobodyLeftBehind, CoalescerInv, Executes, Inside
  <2>3. ASSUME NEW k \in Pending, Inside(k) = {} PROVE dropped[k] > 0
    <3>1. k \in RequestKeys /\ dropped[k] \in Nat /\ Cardinality(Inside(k)) = 0
      BY <2>3, FS_EmptySet DEF CoalescerInv
    <3>2. QED
      BY <3>1 DEF CoalescerInv, WaitersCounted
  <2>4. QED
    BY <2>2, <2>3 DEF StaleOnlyIfDropped
<1>3. QED
  BY <1>1, <1>2, CoalescerStep, PTL DEF CoalescerSpec, WaitersMatchEntries

-----------------------------------------------------------------------------
(* RoundCoordinator. *)

(* The answers that a party can send. *)
Answers == [signer : RoundSigners, for : 1 .. LastRound]

(* No answer comes late: those under way and those taken are to the        *)
(* current round, and none is both.                                        *)
NoneLate ==
  /\ \A h \in history : h.for = h.in
  /\ ~Terminal => /\ \A a \in under_way \cup round_data : a.for = round
                  /\ under_way \cap round_data = {}

(* No answer comes early, none is counted twice in a round, and with every *)
(* round awaiting all parties none comes late.                             *)
RoundInv ==
  /\ round_threshold \in Nat
  /\ round \in 1 .. LastRound + 2
  /\ forced \in BOOLEAN /\ repeats \in Nat
  /\ under_way \subseteq Answers /\ round_data \subseteq Answers
  /\ answered \in [RoundSigners -> SUBSET (1 .. LastRound)]
  /\ Terminal => round_data = {}
  /\ \A a \in under_way \cup round_data : a.for <= round /\ a.for \in answered[a.signer]
  /\ \A a, b \in round_data : a.signer = b.signer => a = b
  /\ \A h \in history : h.for <= h.in
  /\ OnTime => NoneLate

(* As many answers as parties, no two by the same, are from all of them. *)
LEMMA RoundAnswered ==
  ASSUME NEW data \in SUBSET Answers, \A a, b \in data : a.signer = b.signer => a = b,
         Cardinality(data) >= Cardinality(RoundSigners)
  PROVE  \A s \in RoundSigners : \E a \in data : a.signer = s
<1> DEFINE f == [a \in data |-> a.signer]
<1>1. f \in Injection(data, RoundSigners)
  BY DEF Injection, IsInjective, Answers
<1>2. IsFiniteSet(data) /\ Cardinality(data) <= Cardinality(RoundSigners)
      /\ (Cardinality(data) = Cardinality(RoundSigners) <=> f \in Surjection(data, RoundSigners))
  BY <1>1, RoundAssumption, FS_Injection
<1>3. Cardinality(data) \in Nat /\ Cardinality(RoundSigners) \in Nat
  BY <1>2, RoundAssumption, FS_CardinalityType
<1>4. f \in Surjection(data, RoundSigners)
  BY <1>2, <1>3
<1>5. QED
  BY <1>4, ZenonT(30) DEF Surjection

(* submit keeps the invariant, whatever of the answer stays under way. *)
LEMMA SubmitKeepsInv ==
  ASSUME RoundInv, NEW a \in under_way, Submit(a),
         under_way' \subseteq under_way, repeats' \in Nat,
         repeats' = 0 => repeats = 0 /\ a \notin under_way',
         UNCHANGED <<round_threshold, answered, forced>>
  PROVE  RoundInv'
<1>0. /\ round_threshold \in Nat /\ round \in 1 .. LastRound + 2 /\ LastRound \in Nat
      /\ under_way \subseteq Answers /\ round_data \subseteq Answers /\ a \in Answers
  BY RoundAssumption DEF RoundInv
<1>1. OnTime' => OnTime
  BY DEF OnTime
<1>2. CASE Terminal \/ HasResponded(a.signer)
  <2>1. UNCHANGED <<round, round_data, history>>
    BY <1>2 DEF Submit
  <2>2. OnTime' => NoneLate'
    BY <1>1, <2>1 DEF RoundInv, NoneLate, Terminal
  <2>3. QED
    BY <2>1, <2>2 DEF RoundInv, Terminal
<1>3. CASE ~Terminal /\ ~HasResponded(a.signer)
  <2> DEFINE data == round_data \cup {a}
  <2>1. /\ data \subseteq Answers
        /\ \A x, y \in data : x.signer = y.signer => x = y
        /\ \A x \in data : x.for <= round
    BY <1>0, <1>3 DEF RoundInv, HasResponded
  <2>2. OnTime' => \A x \in data : x.for = round
    BY <1>1, <1>3 DEF RoundInv, NoneLate
  <2>3. CASE EnoughResponses(data)
    <3>1. history' = history \cup Filed(data) /\ round' = round + 1 /\ round_data' = {}
      BY <1>3, <2>3, ZenonT(30) DEF Submit, Advance, DataOfNewRound
    <3>2. round' \in 1 .. LastRound + 2 /\ round' > round
      BY <1>0, <1>3, <3>1 DEF Terminal, RoundCompleted, RoundAborted
    <3>3. \A h \in history' : h.for <= h.in
      <4>1. \A h \in Filed(data) : h.for <= h.in
        BY <1>0, <2>1 DEF Filed
      <4>2. QED
        BY <3>1, <4>1 DEF RoundInv
    <3>4. \A x \in under_way' \cup round_data' : x.for <= round' /\ x.for \in answered'[x.signer]
      BY <1>0, <3>1, <3>2 DEF RoundInv, Answers
    <3>5. ASSUME OnTime' PROVE NoneLate'
      <4>1. \A h \in history' : h.for = h.in
        BY <1>1, <2>2, <3>1, <3>5 DEF RoundInv, NoneLate, Filed
      <4>2. Cardinality(data) >= Cardinality(RoundSigners)
        <5> DEFINE n == Cardinality(data)
                   m == Cardinality(RoundSigners)
        <5>1. n >= round_threshold /\ round_threshold >= m /\ m \in Nat
          BY <1>1, <2>3, <3>5, RoundAssumption, FS_CardinalityType DEF OnTime, EnoughResponses
        <5>2. n \in Nat
          <6> DEFINE f == [x \in data |-> x.signer]
          <6>1. f \in Injection(data, RoundSigners)
            BY <2>1 DEF Injection, IsInjective, Answers
          <6>2. QED
            BY <6>1, RoundAssumption, FS_Injection, FS_CardinalityType
        <5> HIDE DEF n, m
        <5>3. n >= m
          BY <1>0, <5>1, <5>2
        <5>4. QED
          BY <5>3 DEF n, m
      <4>3. \A s \in RoundSigners : \E x \in data : x.signer = s
        BY <2>1, <4>2, RoundAnswered
      <4>4. ASSUME NEW x \in under_way' PROVE FALSE
        <5>1. x \in under_way /\ x \in Answers /\ x.for = round /\ x \notin round_data /\ x # a
          BY <1>0, <1>1, <1>3, <3>5 DEF RoundInv, NoneLate, OnTime
        <5>2. PICK y \in data : y.signer = x.signer
          BY <4>3, <5>1 DEF Answers
        <5>3. y \in Answers /\ y.for = round
          BY <2>1, <2>2, <3>5
        <5>4. y = x
          BY <5>1, <5>2, <5>3 DEF Answers
        <5>5. QED
          BY <5>1, <5>4
      <4>5. QED
        BY <3>1, <4>1, <4>4, ZenonT(30) DEF NoneLate
    <3>6. QED
      BY <1>0, <3>1, <3>2, <3>3, <3>4, <3>5, ZenonT(30) DEF RoundInv
  <2>4. CASE ~EnoughResponses(data)
    <3>1. round_data' = data /\ UNCHANGED <<round, history>>
      BY <1>3, <2>4 DEF Submit
    <3>2. \A x \in under_way' \cup round_data' : x.for <= round' /\ x.for \in answered'[x.signer]
      BY <3>1 DEF RoundInv
    <3>3. ASSUME OnTime' PROVE NoneLate'
      BY <1>1, <1>3, <2>2, <3>1, <3>3 DEF RoundInv, NoneLate, Terminal, OnTime
    <3>4. ~Terminal'
      BY <1>3, <3>1 DEF Terminal
    <3>5. QED
      BY <1>0, <2>1, <3>1, <3>2, <3>3, <3>4 DEF RoundInv
  <2>5. QED
    BY <2>3, <2>4
<1>4. QED
  BY <1>2, <1>3
(* Every step keeps the invariant. *)
LEMMA RoundStep == RoundInv /\ [RoundNext]_roundVars => RoundInv'
<1> SUFFICES ASSUME RoundInv, [RoundNext]_roundVars PROVE RoundInv'
  OBVIOUS
<1>0. /\ round \in 1 .. LastRound + 2 /\ LastRound \in Nat /\ round_threshold \in Nat
      /\ under_way \subseteq Answers /\ round_data \subseteq Answers
      /\ answered \in [RoundSigners -> SUBSET (1 .. LastRound)]
      /\ repeats \in Nat
  BY RoundAssumption DEF RoundInv
<1>1. ASSUME NEW s \in RoundSigners, SendAnswer(s) PROVE RoundInv'
  <2> DEFINE a == [signer |-> s, for |-> round]
  <2>1. /\ ~Terminal /\ round \notin answered[s]
        /\ answered' = [answered EXCEPT ![s] = @ \cup {round}]
        /\ under_way' = under_way \cup {a}
        /\ UNCHANGED <<round_threshold, round, round_data, history, forced, repeats>>
    BY <1>1 DEF SendAnswer
  <2>2. round \in 1 .. LastRound
    BY <1>0, <2>1 DEF Terminal, RoundCompleted, RoundAborted
  <2>3. a \in Answers /\ a.for = round /\ a.signer = s
    BY <2>2 DEF Answers
  <2>4. answered' \in [RoundSigners -> SUBSET (1 .. LastRound)]
    BY <1>0, <2>1, <2>2
  <2>5. \A x \in under_way' \cup round_data' : x.for <= round' /\ x.for \in answered'[x.signer]
    <3>1. \A x \in under_way \cup round_data : x.signer \in RoundSigners
      BY <1>0 DEF Answers
    <3>2. \A t \in RoundSigners : answered[t] \subseteq answered'[t]
      BY <1>0, <2>1
    <3>3. \A x \in under_way \cup round_data : x.for <= round' /\ x.for \in answered'[x.signer]
      BY <2>1, <3>1, <3>2 DEF RoundInv
    <3>4. a.for <= round' /\ a.for \in answered'[a.signer]
      BY <1>0, <2>1, <2>2, <2>3
    <3> HIDE DEF a
    <3>5. QED
      BY <2>1, <3>3, <3>4
  <2>6. a \notin round_data
    BY <2>1, <2>3 DEF RoundInv
  <2>7. ASSUME OnTime' PROVE NoneLate'
    <3> HIDE DEF a
    <3>1. OnTime /\ NoneLate
      BY <2>1, <2>7 DEF OnTime, RoundInv
    <3>2. QED
      BY <2>1, <2>3, <2>6, <3>1 DEF NoneLate, Terminal
  <2>8. Terminal' => round_data' = {}
    BY <2>1 DEF Terminal
  <2> HIDE DEF a
  <2>9. QED
    BY <1>0, <2>1, <2>3, <2>4, <2>5, <2>7, <2>8 DEF RoundInv
<1>2. ASSUME NEW a \in under_way, Deliver(a) PROVE RoundInv'
  <2>1. /\ Submit(a) /\ under_way' = under_way \ {a}
        /\ UNCHANGED <<round_threshold, answered, forced, repeats>>
    BY <1>2 DEF Deliver
  <2>2. QED
    BY <1>0, <2>1, SubmitKeepsInv
<1>3. ASSUME NEW a \in under_way, DeliverRepeated(a) PROVE RoundInv'
  <2>1. /\ Submit(a) /\ repeats' = repeats + 1
        /\ UNCHANGED <<round_threshold, answered, under_way, forced>>
    BY <1>3 DEF DeliverRepeated
  <2>2. repeats' \in Nat /\ repeats' # 0
    BY <1>0, <2>1
  <2>3. QED
    BY <2>1, <2>2, SubmitKeepsInv
<1>4. CASE AbortRounds
  <2>1. /\ round' = LastRound + 2 /\ round_data' = {}
        /\ UNCHANGED <<round_threshold, history, answered, under_way, forced, repeats>>
    BY <1>4 DEF AbortRounds, RoundAborted
  <2>2. round' \in 1 .. LastRound + 2 /\ round <= round' /\ Terminal'
    BY <1>0, <2>1 DEF Terminal, RoundAborted
  <2>3. \A x \in under_way' \cup round_data' : x.for <= round' /\ x.for \in answered'[x.signer]
    BY <1>0, <2>1, <2>2 DEF RoundInv, Answers
  <2>4. OnTime' => NoneLate'
    BY <2>1, <2>2 DEF RoundInv, NoneLate, OnTime
  <2>5. QED
    BY <1>0, <2>1, <2>2, <2>3, <2>4 DEF RoundInv
<1>5. CASE ForceAdvance
  <2>1. /\ ~Terminal /\ history' = history \cup Filed(round_data)
        /\ round' = round + 1 /\ round_data' = {} /\ forced'
        /\ UNCHANGED <<round_threshold, answered, under_way, repeats>>
    BY <1>5 DEF ForceAdvance, Advance, DataOfNewRound
  <2>2. round' \in 1 .. LastRound + 2 /\ round <= round'
    BY <1>0, <2>1 DEF Terminal, RoundCompleted, RoundAborted
  <2>3. \A x \in under_way' \cup round_data' : x.for <= round' /\ x.for \in answered'[x.signer]
    BY <1>0, <2>1, <2>2 DEF RoundInv, Answers
  <2>4. \A h \in history' : h.for <= h.in
    BY <2>1 DEF RoundInv, Filed
  <2>5. ~OnTime' /\ forced' \in BOOLEAN
    BY <1>5 DEF OnTime, ForceAdvance
  <2>6. QED
    BY <1>0, <2>1, <2>2, <2>3, <2>4, <2>5 DEF RoundInv
<1>6. CASE UNCHANGED roundVars
  BY <1>6 DEF roundVars, RoundInv, NoneLate, OnTime, Terminal
<1>7. QED
  BY <1>1, <1>2, <1>3, <1>4, <1>5, <1>6 DEF RoundNext

(* For any number of parties and rounds, the answers on file for a round   *)
(* are answers to it, or to an earlier one where not all must answer, one  *)
(* comes twice or a round is forced on.                                    *)
THEOREM RoundsFiled == RoundSpec => []FiledInOwnRound
<1>1. RoundInit => RoundInv
  <2> SUFFICES ASSUME RoundInit PROVE RoundInv
    OBVIOUS
  <2>1. /\ round = 1 /\ 1 \in 1 .. LastRound + 2 /\ round_threshold \in Nat
        /\ round_data = {} /\ under_way = {} /\ history = {}
    BY RoundAssumption DEF RoundInit, Untouched
  <2>2. NoneLate
    BY <2>1 DEF NoneLate
  <2>3. answered \in [RoundSigners -> SUBSET (1 .. LastRound)]
    BY DEF RoundInit, Untouched
  <2>4. forced \in BOOLEAN /\ repeats \in Nat
    BY ZenonT(30) DEF RoundInit, Untouched
  <2>5. QED
    BY <2>1, <2>2, <2>3, <2>4 DEF RoundInv
<1>2. RoundInv => FiledInOwnRound
  <2> SUFFICES ASSUME RoundInv PROVE FiledInOwnRound
    OBVIOUS
  <2>1. ASSUME NEW h \in Filed(round_data) PROVE IF OnTime THEN h.for = h.in ELSE h.for <= h.in
    <3>1. PICK a \in round_data : h = [for |-> a.for, in |-> round]
      BY DEF Filed
    <3>2. h.for = a.for /\ h.in = round /\ ~Terminal
      BY <3>1 DEF RoundInv
    <3>3. QED
      BY <3>2 DEF RoundInv, NoneLate
  <2>2. QED
    BY <2>1 DEF FiledInOwnRound, RoundInv, NoneLate
<1>3. QED
  BY <1>1, <1>2, RoundStep, PTL DEF RoundSpec
================================================================================
