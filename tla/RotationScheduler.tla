----------------------------- MODULE RotationScheduler -----------------------------
(***************************************************************************)
(* The share rotation scheduler (coordinator/scheduler.rs): the flag that  *)
(* start and stop write, the configuration that pause, resume and the      *)
(* loops share, and the thread that every start spawns.  Of the clock only *)
(* matters whether it has reached next_run.                                *)
(***************************************************************************)
EXTENDS Naturals, FiniteSets

CONSTANTS
  Loops,      \* the threads that start may spawn
  MaxCalls    \* bound: calls of start, stop, pause and resume

VARIABLES
  running,
  paused,
  due,        \* the clock has reached next_run
  loop,       \* per thread: where it is
  starting,   \* calls of start that have yet to spawn their thread
  late,       \* per thread: refreshes begun since running was last cleared, up to 2
  calls

schedulerVars == <<running, paused, due, loop, starting, late, calls>>

(* The first next_run is the caller's choice. *)
SchedulerInit ==
  /\ running = FALSE
  /\ paused = FALSE
  /\ due \in BOOLEAN
  /\ loop = [l \in Loops |-> "none"]
  /\ starting = 0
  /\ late = [l \in Loops |-> 0]
  /\ calls = 0

Called == calls < MaxCalls /\ calls' = calls + 1

-----------------------------------------------------------------------------
Start ==
  /\ Called
  /\ Cardinality({l \in Loops : loop[l] = "none"}) > starting
  /\ running' = TRUE
  /\ starting' = starting + 1
  /\ UNCHANGED <<paused, due, loop, late>>

Spawn ==
  /\ starting > 0
  /\ \E l \in Loops :
       loop[l] = "none" /\ loop' = [loop EXCEPT ![l] = "test"]
  /\ starting' = starting - 1
  /\ UNCHANGED <<running, paused, due, late, calls>>

Stop ==
  /\ Called
  /\ running' = FALSE
  /\ late' = [l \in Loops |-> 0]
  /\ UNCHANGED <<paused, due, loop, starting>>

Pause ==
  /\ Called
  /\ paused' = TRUE
  /\ UNCHANGED <<running, due, loop, starting, late>>

Resume ==
  /\ Called
  /\ paused' = FALSE
  /\ due' = FALSE
  /\ UNCHANGED <<running, loop, starting, late>>

ClockReachesNextRun ==
  /\ ~ due
  /\ due' = TRUE
  /\ UNCHANGED <<running, paused, loop, starting, late, calls>>

(* Mutant of GoesOn: the loop does not look at the flag again. *)
GoesOnAlways == TRUE

GoesOn == running

TestRunning(l) ==
  /\ loop[l] = "test"
  /\ loop' = [loop EXCEPT ![l] = IF GoesOn THEN "decide" ELSE "ended"]
  /\ UNCHANGED <<running, paused, due, starting, late, calls>>

(* should_run is decided under the lock and used after its release. *)
Decide(l) ==
  /\ loop[l] = "decide"
  /\ loop' = [loop EXCEPT ![l] = IF ~ paused /\ due THEN "call" ELSE "sleep"]
  /\ UNCHANGED <<running, paused, due, starting, late, calls>>

Refresh(l) ==
  /\ loop[l] = "call"
  /\ loop' = [loop EXCEPT ![l] = "refresh"]
  /\ late' = IF running \/ late[l] = 2 THEN late ELSE [late EXCEPT ![l] = @ + 1]
  /\ UNCHANGED <<running, paused, due, starting, calls>>

(* Whether the callback fails makes no difference. *)
AfterRefresh == {"sleep"}

Reschedule(l) ==
  /\ loop[l] = "refresh"
  /\ \E at \in AfterRefresh : loop' = [loop EXCEPT ![l] = at]
  /\ due' = FALSE
  /\ UNCHANGED <<running, paused, starting, late, calls>>

Sleep(l) ==
  /\ loop[l] = "sleep"
  /\ loop' = [loop EXCEPT ![l] = "test"]
  /\ UNCHANGED <<running, paused, due, starting, late, calls>>

LoopStep(l) == TestRunning(l) \/ Decide(l) \/ Refresh(l) \/ Reschedule(l) \/ Sleep(l)

SchedulerNext ==
  \/ Start \/ Spawn \/ Stop \/ Pause \/ Resume \/ ClockReachesNextRun
  \/ \E l \in Loops : LoopStep(l)

(* Threads are scheduled, callbacks return, and time passes. *)
SchedulerFairness ==
  /\ WF_schedulerVars(Spawn)
  /\ WF_schedulerVars(ClockReachesNextRun)
  /\ \A l \in Loops : WF_schedulerVars(LoopStep(l))

-----------------------------------------------------------------------------
Alive(l) == loop[l] \notin {"none", "ended"}

(* A thread that had passed its test when stop cleared the flag begins at  *)
(* most one more refresh, even when the flag was set and cleared again.    *)
OneRefreshAfterStop == \A l \in Loops : late[l] <= 1

(* Every thread ends once the scheduler stays stopped, those included that *)
(* an earlier stop failed to end because a start came before their test.   *)
StoppedLoopsEnd == <>[](~ running) => <>[](\A l \in Loops : ~ Alive(l))

(* A scheduler that stays started and not paused keeps on refreshing, even *)
(* when refreshes fail and whatever was called before.                     *)
KeepsRefreshing ==
  <>[](running /\ ~ paused) => []<>(\E l \in Loops : loop[l] = "refresh")

(* Both: the threads follow what start, stop, pause and resume last said. *)
LoopsFollowSchedule == StoppedLoopsEnd /\ KeepsRefreshing
====================================================================================
