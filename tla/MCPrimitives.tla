------------------------------ MODULE MCPrimitives ------------------------------
(* Model checking of the coordinator's independent primitives.  They share *)
(* nothing, so a behaviour exercises one of them, chosen at the start; the *)
(* choices that another one makes at its start are then fixed.             *)
EXTENDS
  DistributedLock, BackpressureGate, SessionWal, LeaderElection, CircuitBreaker, Saga,
  RateLimiter, TLC

CONSTANT Exercised   \* the primitives that behaviours may exercise

VARIABLE primitive

Init ==
  /\ primitive \in Exercised
  /\ LockInit /\ GateInit /\ WalInit /\ ElectionInit /\ BreakerInit /\ SagaInit /\ LimiterInit
  /\ primitive # "gate" => max_active_sessions = Min(Limits)
  /\ primitive # "election" => network = "heartbeat"

Next ==
  \/ /\ primitive = "lock" /\ LockNext
     /\ UNCHANGED <<primitive, gateVars, walVars, electionVars, breakerVars,
                    sagaVars, limiterVars>>
  \/ /\ primitive = "gate" /\ GateNext
     /\ UNCHANGED <<primitive, lockVars, walVars, electionVars, breakerVars,
                    sagaVars, limiterVars>>
  \/ /\ primitive = "wal" /\ WalNext
     /\ UNCHANGED <<primitive, lockVars, gateVars, electionVars, breakerVars,
                    sagaVars, limiterVars>>
  \/ /\ primitive = "election" /\ ElectionNext
     /\ UNCHANGED <<primitive, lockVars, gateVars, walVars, breakerVars,
                    sagaVars, limiterVars>>
  \/ /\ primitive = "breaker" /\ BreakerNext
     /\ UNCHANGED <<primitive, lockVars, gateVars, walVars, electionVars,
                    sagaVars, limiterVars>>
  \/ /\ primitive = "saga" /\ SagaNext
     /\ UNCHANGED <<primitive, lockVars, gateVars, walVars, electionVars,
                    breakerVars, limiterVars>>
  \/ /\ primitive = "limiter" /\ LimiterNext
     /\ UNCHANGED <<primitive, lockVars, gateVars, walVars, electionVars,
                    breakerVars, sagaVars>>

Spec ==
  Init /\ [][Next]_<<primitive, lockVars, gateVars, walVars, electionVars, breakerVars,
                     sagaVars, limiterVars>>

(* Holders, threads and nodes are interchangeable among themselves. *)
Symmetry ==
  Permutations(Holders) \cup Permutations(Threads) \cup Permutations(Nodes)

(* Two terms are needed for an answer to be late, one for a heartbeat to   *)
(* let a node vote again.                                                  *)
TermBound == [net \in Networks |-> IF net = "heartbeat" THEN 1 ELSE 2]
================================================================================
