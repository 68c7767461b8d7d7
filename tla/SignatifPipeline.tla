------------------------------ MODULE SignatifPipeline ------------------------------
(***************************************************************************)
(* The verification pipeline of confium-signatif (pipeline.rs) with the    *)
(* bundle, artifact, revocation and coverage checks that it calls.  What   *)
(* an offline verifier holds changes under it: the graph, the algorithm    *)
(* registry, the cached CRLs and the time.  A verification changes         *)
(* nothing, so its outcome is a function of the state.                     *)
(***************************************************************************)
EXTENDS TrustGraph, FiniteSetsExt

CONSTANTS
  Artifacts,       \* the artifacts that are verified, with their soft inputs
  ValidFrom, ValidUntil,            \* of the bundle
  CrlLists,        \* the sets of authorities that a CRL may revoke
  CrlValidity,     \* from this_update to next_update
  GracePeriod,     \* DEFAULT_GRACE_PERIOD
  Window, Grace,   \* of a time attestation
  Algorithms,
  MaxNow, MaxCrls  \* bounds: time, CRLs held

VARIABLES
  now,
  crls,       \* the CRLs held: [revoked, this_update]
  registry    \* algorithm -> its status

pipelineVars == <<graphVars, now, crls, registry>>

PipelineInit ==
  /\ now = 0
  /\ crls = {}
  /\ registry = [a \in Algorithms |-> "active"]

-----------------------------------------------------------------------------
Tick ==
  /\ now < MaxNow
  /\ now' = now + 1
  /\ UNCHANGED <<graphVars, crls, registry>>

(* A new CRL, issued now. *)
HoldCrl(revoked) ==
  /\ Cardinality(crls) < MaxCrls
  /\ crls' = crls \cup {[revoked |-> revoked, this_update |-> now]}
  /\ UNCHANGED <<graphVars, now, registry>>

(* set_status allows every change. *)
SetStatus(a, status) ==
  /\ registry' = [registry EXCEPT ![a] = status]
  /\ UNCHANGED <<graphVars, now, crls>>

PipelineNext ==
  \/ Tick
  \/ \E revoked \in CrlLists : HoldCrl(revoked)
  \/ \E a \in Algorithms, s \in {"active", "deprecated", "retired"} : SetStatus(a, s)

-----------------------------------------------------------------------------
IsStale(crl) == now > crl.this_update + CrlValidity

(* No CRL announces a revocation ahead of its time. *)
Revokes(crl, id) == id \in crl.revoked

AuthorityStatus(id) ==
  IF \E crl \in crls : Revokes(crl, id) THEN "revoked"
  ELSE IF crls # {} /\ \A crl \in crls : IsStale(crl) THEN "grace"
  ELSE "good"

Ages == {now - crl.this_update : crl \in crls}

(* Of the oldest CRL held. *)
MaxCrlAge == IF crls = {} THEN 0 ELSE Max(Ages)

(* The attested time, or the newest of the blocks of dimension "time". *)
FreshnessSource(a) ==
  a.attested \cup
  (IF a.attested # {} THEN {}
   ELSE LET times == {b.timestamp : b \in {b \in Range(a.blocks) : b.dimension = "time"}}
        IN IF times = {} THEN {} ELSE {Max(times)})

Signers(a) == {b.signer : b \in Range(a.blocks)}

(* The bundle has roots and one of them signed it. *)
BundleVerifies == ValidFrom <= now /\ now <= ValidUntil

Accepts(a) == a.major <= 1

VerifySelf(a) ==
  /\ a.intact
  /\ \A b \in Range(a.blocks) : registry[b.algorithm] # "retired" /\ b.verifies

(* The hard checks in their order; the first that fails is the error. *)
HardFailure(a) ==
  CASE ~BundleVerifies -> "bundle_validity"
    [] ~Accepts(a) -> "format_version"
    [] ~VerifySelf(a) -> "signature_validity"
    [] \E id \in Signers(a) :
         \/ id \notin DOMAIN nodes
         \/ ~FindPaths(id).ok
         \/ FindPaths(id).paths = {} -> "chain_integrity"
    [] \E b \in Range(a.blocks) : ~b.conditions -> "scope_conditions"
    [] \E id \in Signers(a) : AuthorityStatus(id) = "revoked" -> "revocation"
    [] \E t \in FreshnessSource(a) : now - t > Window + Grace -> "time_freshness"
    [] OTHER -> "none"

Downgrades(a) ==
  {d \in {"deprecated", "transparency_missing", "time_anchor_absent",
          "crl_stale", "time_stale"} :
     CASE d = "deprecated" ->
            \E b \in Range(a.blocks) : registry[b.algorithm] = "deprecated"
       [] d = "transparency_missing" -> ~a.included
       [] d = "time_anchor_absent" -> ~a.time_anchored
       [] d = "crl_stale" -> MaxCrlAge > GracePeriod
       [] d = "time_stale" -> \E t \in FreshnessSource(a) : now - t > Window}

(* Mutant of Roots: one root for each path. *)
RootsOfPaths(a) ==
  UNION {{<<RootOf(id, path), path>> : path \in FindPaths(id).paths} : id \in Signers(a)}

Roots(a) ==
  UNION {{RootOf(id, path) : path \in FindPaths(id).paths} : id \in Signers(a)}

(* The reference ladder of coverage.rs. *)
Label(a) ==
  CASE HardFailure(a) # "none" -> "rejected"
    [] ~a.included -> "unverified"
    [] ~a.time_anchored -> "basic"
    [] \/ \A b \in Range(a.blocks) : b.dimension # "person"
       \/ "deprecated" \in Downgrades(a) -> "verified"
    [] Cardinality(Roots(a)) >= 2 -> "certified"
    [] OTHER -> "attested"

-----------------------------------------------------------------------------
(* The top grade stands on two distinct anchored roots, each above one of  *)
(* the signers by delegations alone, none of whom is revoked.              *)
CertifiedByTwoRoots ==
  \A a \in Artifacts :
    Label(a) = "certified" =>
      LET anchored == {id \in UNION {UpFrom(s) : s \in Signers(a)} :
             nodes[id].kind = "root" /\ nodes[id].public_key \in Anchors}
      IN /\ Cardinality(anchored) >= 2
         /\ \A s \in Signers(a), crl \in crls : s \notin crl.revoked

(* A verifier whose CRLs are all out of date has that on record, unless    *)
(* none of them is older than the grace period.                            *)
StaleCrlsRecorded ==
  \A a \in Artifacts :
    (\E id \in Signers(a) : AuthorityStatus(id) = "grace") =>
      \/ "crl_stale" \in Downgrades(a)
      \/ \A crl \in crls : now - crl.this_update <= GracePeriod

(* Both: a label says no more than the evidence does. *)
LabelsAreBacked == CertifiedByTwoRoots /\ StaleCrlsRecorded
======================================================================================
