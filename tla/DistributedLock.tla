----------------------------- MODULE DistributedLock -----------------------------
(***************************************************************************)
(* The lock manager: distributed_lock.rs.  Leases expire by the clock; a   *)
(* holder may be slow and act on a lease that has passed to another, which *)
(* is what fencing tokens are for.  `claim` is what a holder knows of its  *)
(* lease, and `written` the newest write of a store that refuses tokens    *)
(* older than the last one it saw; the repository has no such store.       *)
(***************************************************************************)
EXTENDS Naturals

CONSTANTS
  Holders, NoHolder,
  Resources,
  Ttls,       \* the lease times that holders ask for
  MaxTime,    \* bound: the clock
  MaxTokens   \* bound: tokens handed out

ASSUME LockAssumption ==
  /\ NoHolder \notin Holders
  /\ Ttls \subseteq Nat
  /\ MaxTime \in Nat
  /\ MaxTokens \in Nat

VARIABLES
  clock,
  leases,      \* the lease of a resource; its holder is NoHolder if none
  next_token,
  grants,      \* per resource: how often it was granted
  claim,       \* per holder and resource: token, number of the grant, expiry
  written      \* per resource: token and grant of the last write taken

lockVars == <<clock, leases, next_token, grants, claim, written>>

NoLease == [holder |-> NoHolder, fencing_token |-> 0, expires_at |-> 0]
NoClaim == [token |-> 0, grant |-> 0, until |-> 0]

LockInit ==
  /\ clock = 0
  /\ leases = [r \in Resources |-> NoLease]
  /\ next_token = 1
  /\ grants = [r \in Resources |-> 0]
  /\ claim = [h \in Holders |-> [r \in Resources |-> NoClaim]]
  /\ written = [r \in Resources |-> [token |-> 0, grant |-> 0]]

-----------------------------------------------------------------------------
(* Mutant of Free: an expired lease, or any lease about to expire. *)
FreeEarly(h, r) ==
  leases[r].holder \in {h, NoHolder} \/ leases[r].expires_at <= clock + 1

(* try_acquire refuses only while another holder's lease is running. *)
Free(h, r) ==
  leases[r].holder \in {h, NoHolder} \/ leases[r].expires_at <= clock

(* Mutant of TryAcquire: tokens are numbered per lease, and start again    *)
(* when the lease is gone.                                                 *)
TryAcquireRestarts(h, r, ttl) ==
  LET token == leases[r].fencing_token + 1
  IN /\ Free(h, r)
     /\ next_token <= MaxTokens
     /\ next_token' = next_token + 1
     /\ leases' = [leases EXCEPT
          ![r] = [holder |-> h, fencing_token |-> token,
                  expires_at |-> clock + ttl]]
     /\ grants' = [grants EXCEPT ![r] = @ + 1]
     /\ claim' = [claim EXCEPT
          ![h][r] = [token |-> token, grant |-> grants[r] + 1,
                     until |-> clock + ttl]]
     /\ UNCHANGED <<clock, written>>

(* The holder gets a new token, also if the lease was already its own. *)
TryAcquire(h, r, ttl) ==
  /\ Free(h, r)
  /\ next_token <= MaxTokens
  /\ next_token' = next_token + 1
  /\ leases' = [leases EXCEPT
       ![r] = [holder |-> h, fencing_token |-> next_token,
               expires_at |-> clock + ttl]]
  /\ grants' = [grants EXCEPT ![r] = @ + 1]
  /\ claim' = [claim EXCEPT
       ![h][r] = [token |-> next_token, grant |-> grants[r] + 1,
                  until |-> clock + ttl]]
  /\ UNCHANGED <<clock, written>>

(* release compares names only; the caller gives up its claim either way. *)
Release(h, r) ==
  /\ leases' = [leases EXCEPT ![r] = IF @.holder = h THEN NoLease ELSE @]
  /\ claim' = [claim EXCEPT ![h][r] = NoClaim]
  /\ UNCHANGED <<clock, next_token, grants, written>>

(* renew also revives a lease that has expired and was not taken over. *)
Renew(h, r, ttl) ==
  /\ leases[r].holder = h
  /\ leases' = [leases EXCEPT ![r].expires_at = clock + ttl]
  /\ claim' = [claim EXCEPT ![h][r].until = clock + ttl]
  /\ UNCHANGED <<clock, next_token, grants, written>>

PurgeExpired ==
  /\ leases' = [r \in Resources |->
       IF leases[r].expires_at > clock THEN leases[r] ELSE NoLease]
  /\ UNCHANGED <<clock, next_token, grants, claim, written>>

(* A holder, however late, writes to the store with the token it has. *)
Write(h, r) ==
  /\ claim[h][r] # NoClaim
  /\ claim[h][r].token >= written[r].token
  /\ written' = [written EXCEPT
       ![r] = [token |-> claim[h][r].token, grant |-> claim[h][r].grant]]
  /\ UNCHANGED <<clock, leases, next_token, grants, claim>>

Tick ==
  /\ clock < MaxTime
  /\ clock' = clock + 1
  /\ UNCHANGED <<leases, next_token, grants, claim, written>>

LockNext ==
  \/ \E h \in Holders, r \in Resources, ttl \in Ttls : TryAcquire(h, r, ttl)
  \/ \E h \in Holders, r \in Resources : Release(h, r)
  \/ \E h \in Holders, r \in Resources, ttl \in Ttls : Renew(h, r, ttl)
  \/ PurgeExpired
  \/ \E h \in Holders, r \in Resources : Write(h, r)
  \/ Tick

LockSpec == LockInit /\ [][LockNext]_lockVars

-----------------------------------------------------------------------------
LockTypeOK ==
  /\ clock \in Nat
  /\ leases \in [Resources ->
       [holder : Holders \cup {NoHolder}, fencing_token : Nat,
        expires_at : Nat]]
  /\ next_token \in Nat \ {0}
  /\ grants \in [Resources -> Nat]
  /\ claim \in [Holders ->
       [Resources -> [token : Nat, grant : Nat, until : Nat]]]
  /\ written \in [Resources -> [token : Nat, grant : Nat]]

(* While a holder counts on its lease no other holder does, although       *)
(* leases expire, are purged, renewed, released and taken over around it.  *)
MutualExclusion ==
  \A r \in Resources : \A h, g \in Holders :
    claim[h][r].until > clock /\ claim[g][r].until > clock => h = g

(* Why: a running claim is the manager's lease, and the lease's holder     *)
(* knows it.                                                               *)
ClaimsAreLeases ==
  \A h \in Holders, r \in Resources :
    /\ claim[h][r].until > clock => leases[r].holder = h
    /\ leases[r].holder = h => leases[r].expires_at = claim[h][r].until

(* Tokens grow with the grants of a resource; 0 stands for none. *)
TokensFollowGrants ==
  \A r \in Resources :
    /\ written[r].token < next_token
    /\ written[r].grant <= grants[r]
    /\ written[r].token = 0 => written[r].grant = 0
    /\ \A h \in Holders :
         /\ claim[h][r].token < next_token
         /\ claim[h][r].grant <= grants[r]
         /\ claim[h][r].token = 0 => claim[h][r].grant = 0
         /\ claim[h][r].token >= written[r].token =>
              claim[h][r].grant >= written[r].grant
         /\ \A g \in Holders :
              claim[h][r].token >= claim[g][r].token =>
                claim[h][r].grant >= claim[g][r].grant

LockInv ==
  /\ LockTypeOK
  /\ ClaimsAreLeases
  /\ TokensFollowGrants
  /\ MutualExclusion

(* The tokens fence: once a write of some grant has been taken, none of an *)
(* earlier grant is, although the earlier holder may still write.          *)
FencedWrites ==
  [][\A r \in Resources : written'[r].grant >= written[r].grant]_lockVars
==================================================================================
