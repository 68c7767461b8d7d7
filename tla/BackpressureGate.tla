---------------------------- MODULE BackpressureGate ----------------------------
(***************************************************************************)
(* The gate in front of session creation: backpressure.rs.  There is no    *)
(* lock; try_acquire adds one to an atomic counter, looks at what it was   *)
(* before, and takes the one back if the gate was full.  Callers are found *)
(* between the two.                                                        *)
(***************************************************************************)
EXTENDS Naturals, FiniteSets

CONSTANTS
  Callers,
  Limits     \* the values of max_active_sessions; 0 is unlimited

ASSUME GateAssumption ==
  /\ IsFiniteSet(Callers)
  /\ Limits \subseteq Nat

VARIABLES
  max_active_sessions,
  active,     \* the atomic counter
  caller      \* outside, rejecting (about to take its one back) or inside

gateVars == <<max_active_sessions, active, caller>>

AtGate(where) == {t \in Callers : caller[t] = where}

GateInit ==
  /\ max_active_sessions \in Limits
  /\ active = 0
  /\ caller = [t \in Callers |-> "outside"]

-----------------------------------------------------------------------------
(* With a limit of 0 the slot is not counted, neither here nor when it is  *)
(* dropped.                                                                *)
AcquireUnlimited(t) ==
  /\ max_active_sessions = 0
  /\ caller[t] = "outside"
  /\ caller' = [caller EXCEPT ![t] = "unlimited"]
  /\ UNCHANGED <<max_active_sessions, active>>

(* Mutant of FetchAdd: the check lets one too many in. *)
FetchAddOffByOne(t) ==
  /\ max_active_sessions > 0
  /\ caller[t] = "outside"
  /\ active' = active + 1
  /\ caller' = [caller EXCEPT
       ![t] = IF active > max_active_sessions THEN "rejecting" ELSE "inside"]
  /\ UNCHANGED max_active_sessions

(* fetch_add and the comparison with what it returned. *)
FetchAdd(t) ==
  /\ max_active_sessions > 0
  /\ caller[t] = "outside"
  /\ active' = active + 1
  /\ caller' = [caller EXCEPT
       ![t] = IF active >= max_active_sessions THEN "rejecting" ELSE "inside"]
  /\ UNCHANGED max_active_sessions

(* A rejected caller takes its one back and returns AtCapacity. *)
FetchSub(t) ==
  /\ caller[t] = "rejecting"
  /\ active' = active - 1
  /\ caller' = [caller EXCEPT ![t] = "outside"]
  /\ UNCHANGED max_active_sessions

(* ActiveSlot::drop. *)
DropSlot(t) ==
  /\ caller[t] \in {"inside", "unlimited"}
  /\ active' = IF caller[t] = "unlimited" THEN active ELSE active - 1
  /\ caller' = [caller EXCEPT ![t] = "outside"]
  /\ UNCHANGED max_active_sessions

GateNext ==
  \/ \E t \in Callers : AcquireUnlimited(t)
  \/ \E t \in Callers : FetchAdd(t)
  \/ \E t \in Callers : FetchSub(t)
  \/ \E t \in Callers : DropSlot(t)

GateSpec == GateInit /\ [][GateNext]_gateVars

-----------------------------------------------------------------------------
GateTypeOK ==
  /\ max_active_sessions \in Limits
  /\ active \in Nat
  /\ caller \in [Callers -> {"outside", "rejecting", "inside", "unlimited"}]

(* Never more sessions inside than the limit, although a caller adds its   *)
(* one before it knows whether it may.                                     *)
WithinLimit ==
  max_active_sessions > 0 => Cardinality(AtGate("inside")) <= max_active_sessions

(* The counter is exact: the threads inside and those about to take their  *)
(* one back.  It never goes below zero, and no slot is lost.               *)
CounterExact == active = Cardinality(AtGate("inside") \cup AtGate("rejecting"))

(* Both: the gate admits up to the limit and forgets no slot. *)
LimitIsExact == WithinLimit /\ CounterExact

GateInv ==
  /\ GateTypeOK
  /\ CounterExact
  /\ WithinLimit
  /\ max_active_sessions = 0 => AtGate("inside") = {}
================================================================================
