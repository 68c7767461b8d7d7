------------------------------ MODULE MCServerLive ------------------------------
(* Liveness of what the coordinator keeps going: the server's threads, the *)
(* rotation scheduler, the requests that wait for a coalesced result, the  *)
(* rounds of a signing protocol; and the daemon, whose property is one of  *)
(* safety.  A behaviour exercises one of them; the others have nothing to  *)
(* do: no request to answer, no next_run for the clock to reach, a         *)
(* protocol that was aborted.                                              *)
EXTENDS CoordinatorServer, RotationScheduler, RequestCoalescer, RoundCoordinator,
        Daemon

VARIABLE service

(* A call, both forms of shutdown, a notification that is answered all the *)
(* same, and a frame that is refused.                                      *)
Message(fault, method, id) == [fault |-> fault, method |-> method, id |-> id]
MCMessages ==
  {Message("none", "version", TRUE), Message("none", "shutdown", TRUE),
   Message("none", "shutdown", FALSE), Message("version", "version", FALSE),
   Message("oversized", "version", TRUE)}

LiveInit ==
  /\ service \in {"server", "scheduler", "coalescer", "rounds", "daemon"}
  /\ ServerInit /\ SchedulerInit /\ CoalescerInit /\ DaemonInit
  /\ service # "scheduler" => due
  /\ IF service = "rounds" THEN RoundInit ELSE Untouched(RoundAborted)
  /\ service # "rounds" => round_threshold = 0

LiveNext ==
  \/ /\ service = "server" /\ ServerNext
     /\ UNCHANGED <<service, schedulerVars, coalescerVars, roundVars, daemonVars>>
  \/ /\ service = "scheduler" /\ SchedulerNext
     /\ UNCHANGED <<service, all_vars, coalescerVars, roundVars, daemonVars>>
  \/ /\ service = "coalescer" /\ CoalescerNext
     /\ UNCHANGED <<service, all_vars, schedulerVars, roundVars, daemonVars>>
  \/ /\ service = "rounds" /\ RoundNext
     /\ UNCHANGED <<service, all_vars, schedulerVars, coalescerVars, daemonVars>>
  \/ /\ service = "daemon" /\ DaemonNext
     /\ UNCHANGED <<service, all_vars, schedulerVars, coalescerVars, roundVars>>

LiveSpec ==
  /\ LiveInit
  /\ [][LiveNext]_<<service, all_vars, schedulerVars, coalescerVars, roundVars,
                  daemonVars>>
  /\ ServerFairness
  /\ SchedulerFairness
  /\ CoalescerFairness
  /\ RoundFairness
=================================================================================
