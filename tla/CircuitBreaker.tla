------------------------------ MODULE CircuitBreaker ------------------------------
(***************************************************************************)
(* The circuit breaker (circuit_breaker.rs): requesters that ask whether   *)
(* they may go on, make their request and record how it went.              *)
(* record_success looks at the state, lets go of its lock and takes it     *)
(* again to count; reset lets go of it before it clears the counters.      *)
(* Half open is never stored: it is how an open circuit looks once the     *)
(* timeout has passed since last_failure, which is all that is kept of the *)
(* clock.  A counter written under the lock races only with reset, which   *)
(* writes zero, so each call under the lock is one step.                   *)
(***************************************************************************)
EXTENDS Naturals

CONSTANTS
  Requesters,
  FailureThreshold, SuccessThreshold

ASSUME BreakerAssumption ==
  FailureThreshold \in Nat /\ SuccessThreshold \in Nat

VARIABLES
  circuit,         \* state: "closed" or "open"
  failure_count, success_count,
  elapsed,         \* the timeout has passed since last_failure
  request,         \* how far each requester is
  resetting,       \* the counters that reset has still to clear
  failures,        \* failures since the circuit closed or a success was counted
  probes,          \* successes counted since it opened
  carried          \* a success was counted when it had closed already

breakerVars == <<circuit, failure_count, success_count, elapsed, request,
                 resetting, failures, probes, carried>>

BreakerInit ==
  /\ circuit = "closed"
  /\ failure_count = 0 /\ success_count = 0
  /\ elapsed = FALSE
  /\ request = [r \in Requesters |-> "idle"]
  /\ resetting = {}
  /\ failures = 0 /\ probes = 0 /\ carried = FALSE

-----------------------------------------------------------------------------
Goes(r, place) == request' = [request EXCEPT ![r] = place]
CountersUnchanged ==
  UNCHANGED <<circuit, failure_count, success_count, resetting, failures, probes, carried>>

TimeoutPasses ==
  /\ circuit = "open"
  /\ elapsed' = TRUE
  /\ CountersUnchanged /\ UNCHANGED request

(* allow_request, answered with yes. *)
AllowRequest(r) ==
  /\ request[r] = "idle"
  /\ circuit = "closed" \/ elapsed
  /\ Goes(r, "running")
  /\ CountersUnchanged /\ UNCHANGED elapsed

(* record_success calls state, which reads what is stored ... *)
ReadState(r) ==
  /\ request[r] = "running"
  /\ Goes(r, circuit)
  /\ CountersUnchanged /\ UNCHANGED elapsed

OpenLooks == IF elapsed THEN "half_open" ELSE "still_open"

(* ... and, if that is open, the time of the last failure. *)
ReadLastFailure(r) ==
  /\ request[r] = "open"
  /\ Goes(r, OpenLooks)
  /\ CountersUnchanged /\ UNCHANGED elapsed

EnoughProbes(n) == n >= SuccessThreshold

(* Mutant of FailuresAfterClose: they are kept. *)
FailuresAfterCloseKept == failure_count

FailuresAfterClose == 0

(* The rest of record_success, whatever became of the state that was seen. *)
CountProbe(r) ==
  /\ request[r] \in {"half_open", "outdated"}
  /\ IF EnoughProbes(success_count + 1)
     THEN /\ circuit' = "closed"
          /\ failure_count' = FailuresAfterClose /\ failures' = 0
          /\ success_count' = 0 /\ carried' = FALSE
          /\ UNCHANGED probes
     ELSE /\ success_count' = success_count + 1
          /\ IF circuit = "open" THEN probes' = probes + 1 /\ UNCHANGED carried
                                 ELSE carried' = TRUE /\ UNCHANGED probes
          /\ UNCHANGED <<circuit, failure_count, failures>>
  /\ Goes(r, "idle")
  /\ UNCHANGED <<elapsed, resetting>>

CountSuccess(r) ==
  /\ request[r] = "closed"
  /\ failure_count' = 0 /\ failures' = 0
  /\ Goes(r, "idle")
  /\ UNCHANGED <<circuit, success_count, elapsed, resetting, probes, carried>>

IgnoreSuccess(r) ==
  /\ request[r] = "still_open"
  /\ Goes(r, "idle")
  /\ CountersUnchanged /\ UNCHANGED elapsed

(* last_failure is now; for an open circuit that is all. *)
RecordFailure(r) ==
  /\ request[r] = "running"
  /\ elapsed' = FALSE
  /\ request' = [s \in Requesters |->
       IF s = r THEN "idle" ELSE IF request[s] = "half_open" THEN "outdated" ELSE request[s]]
  /\ IF circuit = "closed"
     THEN /\ failure_count' = failure_count + 1
          /\ failures' = failures + 1
          /\ IF failure_count + 1 >= FailureThreshold
             THEN circuit' = "open" /\ probes' = 0
             ELSE UNCHANGED <<circuit, probes>>
     ELSE UNCHANGED <<circuit, failure_count, failures, probes>>
  /\ UNCHANGED <<success_count, resetting, carried>>

(* reset, called by one thread at a time, up to the release of the lock ... *)
Reset ==
  /\ resetting = {}
  /\ circuit' = "closed" /\ failures' = 0
  /\ resetting' = {"failures", "successes"}
  /\ UNCHANGED <<failure_count, success_count, elapsed, request, probes, carried>>

(* ... and its two stores. *)
ClearFailures ==
  /\ "failures" \in resetting
  /\ failure_count' = 0 /\ failures' = 0
  /\ resetting' = {"successes"}
  /\ UNCHANGED <<circuit, success_count, elapsed, request, probes, carried>>

ClearSuccesses ==
  /\ resetting = {"successes"}
  /\ success_count' = 0 /\ carried' = FALSE
  /\ resetting' = {}
  /\ UNCHANGED <<circuit, failure_count, elapsed, request, failures, probes>>

BreakerNext ==
  \/ TimeoutPasses
  \/ \E r \in Requesters :
       \/ AllowRequest(r) \/ ReadState(r) \/ ReadLastFailure(r)
       \/ CountProbe(r) \/ CountSuccess(r) \/ IgnoreSuccess(r)
       \/ RecordFailure(r)
  \/ Reset \/ ClearFailures \/ ClearSuccesses

BreakerSpec == BreakerInit /\ [][BreakerNext]_breakerVars

-----------------------------------------------------------------------------
(* The circuit opens only after FailureThreshold failures with no success  *)
(* counted between them, however the calls overlap, unless reset has       *)
(* closed it and has not cleared failure_count yet.                        *)
OpensByFailures ==
  [][circuit = "closed" /\ circuit' = "open" =>
       failures' >= FailureThreshold \/ "failures" \in resetting]_breakerVars

(* Requests close it only after SuccessThreshold successes were counted    *)
(* since it opened (not in a row: a failure between them takes none back), *)
(* unless success_count still holds one that was counted when the circuit  *)
(* had closed already, or one that reset has to clear.                     *)
ClosesBySuccesses ==
  [][circuit = "open" /\ circuit' = "closed" /\ resetting = resetting' =>
       \/ probes + 1 >= SuccessThreshold
       \/ carried
       \/ "successes" \in resetting]_breakerVars

(* A circuit that failed within the timeout is not closed by a request,    *)
(* except by a success that had seen it half open before that failure.     *)
ClosesAfterRest ==
  [][circuit = "open" /\ circuit' = "closed" /\ resetting = resetting' =>
       \/ elapsed
       \/ \E r \in Requesters : request[r] = "outdated" /\ request'[r] = "idle"]_breakerVars

(* Whichever way the circuit turns, it is due, but for the exceptions      *)
(* named with each of the three.                                           *)
TurnsWhenDue == OpensByFailures /\ ClosesBySuccesses /\ ClosesAfterRest
===================================================================================
