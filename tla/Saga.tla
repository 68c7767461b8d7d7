---------------------------------- MODULE Saga ----------------------------------
(***************************************************************************)
(* The saga of a ceremony in several steps (saga.rs).  Its caller executes *)
(* it, retries it and compensates it in any order; the steps and the       *)
(* compensations are the caller's own, and any of them may fail.  A call   *)
(* borrows the saga exclusively, so it is one action.                      *)
(***************************************************************************)
EXTENDS Naturals

CONSTANT Steps     \* their number

ASSUME SagaAssumption == Steps \in Nat

VARIABLES
  saga_state,
  completed,       \* the steps marked completed: those whose effects remain
  failed,          \* the steps marked failed
  current_step,    \* the next step to execute, from 1
  undone,          \* some step was compensated
  resumed          \* and the saga was executed again after that

sagaVars == <<saga_state, completed, failed, current_step, undone, resumed>>

SagaInit ==
  /\ saga_state = "running"
  /\ completed = {} /\ failed = {}
  /\ current_step = 1
  /\ undone = FALSE /\ resumed = FALSE

-----------------------------------------------------------------------------
StepAfterFailure(n) == n

(* execute, from the current step up to the one that fails; n is one more  *)
(* than the last step for a call that succeeds.                            *)
Execute(n) ==
  /\ n \in current_step .. Steps + 1
  /\ completed' = completed \cup current_step .. n - 1
  /\ resumed' = (resumed \/ undone)
  /\ IF n <= Steps
     THEN /\ failed' = failed \cup {n}
          /\ saga_state' = "compensating"
          /\ current_step' = StepAfterFailure(n)
     ELSE /\ saga_state' = "completed"
          /\ current_step' = n
          /\ UNCHANGED failed
  /\ UNCHANGED undone

(* Mutant of UndoneBefore: they are compensated as they were executed. *)
UndoneBeforeForward(i) == {j \in completed : j < i}

(* The completed steps that are compensated before step i. *)
UndoneBefore(i) == {j \in completed : j > i}

(* compensate, all of them. *)
CompensateAll ==
  /\ completed' = {}
  /\ undone' = (undone \/ completed # {})
  /\ saga_state' = "compensated"
  /\ UNCHANGED <<failed, current_step, resumed>>

(* compensate, up to step i whose compensation fails. *)
CompensateUntil(i) ==
  /\ i \in completed
  /\ completed' = completed \ UndoneBefore(i)
  /\ undone' = (undone \/ UndoneBefore(i) # {})
  /\ saga_state' = "failed"
  /\ UNCHANGED <<failed, current_step, resumed>>

SagaNext ==
  \/ \E n \in 1 .. Steps + 1 : Execute(n)
  \/ CompensateAll
  \/ \E i \in 1 .. Steps : CompensateUntil(i)

SagaSpec == SagaInit /\ [][SagaNext]_sagaVars

-----------------------------------------------------------------------------
(* However often a saga is executed, retried after a failure and           *)
(* compensated, the effects that remain are those of its first steps:      *)
(* compensation runs backwards, also when it fails halfway and is tried    *)
(* again.  Only a saga that goes on after a compensation, which leaves     *)
(* current_step where it was, has later steps without the earlier ones.    *)
EffectsAreFirstSteps ==
  resumed \/ \E n \in 0 .. Steps : completed = 1 .. n

(* A saga that reports completed has taken every step, none skipped by the *)
(* retries, with the same exception; one that reports compensated has none *)
(* left, without exception.                                                *)
ReportsItsEffects ==
  /\ saga_state = "completed" => resumed \/ completed = 1 .. Steps
  /\ saga_state = "compensated" => completed = {}

(* Both: a saga can be compensated from where it stands, and its state can *)
(* be believed.                                                            *)
EffectsAreReported == EffectsAreFirstSteps /\ ReportsItsEffects
=================================================================================
