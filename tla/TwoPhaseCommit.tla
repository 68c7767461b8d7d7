----------------------------- MODULE TwoPhaseCommit -----------------------------
(***************************************************************************)
(* TwoPcCoordinator of privacy_and_dist_patterns.rs.  prepare and abort    *)
(* hold the participants' lock throughout; commit asks all_prepared, lets  *)
(* go of the lock and takes it again to write, so that another call may    *)
(* come in between.                                                        *)
(***************************************************************************)
CONSTANTS
  Participants,
  Committers     \* the threads that may call commit

VARIABLES
  participants,  \* the state of each participant
  global_state,
  committing,    \* commit calls that found every participant prepared
  overtaken,     \* those of them that an abort has come before (history)
  reversed       \* an abort was called on a committed transaction (history)

twoPcVars ==
  <<participants, global_state, committing, overtaken, reversed>>

TwoPcInit ==
  /\ participants = [p \in Participants |-> "init"]
  /\ global_state = "init"
  /\ committing = {}
  /\ overtaken = {}
  /\ reversed = FALSE

-----------------------------------------------------------------------------
(* Mutant of Preparable: a participant may prepare at any time. *)
PreparableAgain(p) == TRUE

Preparable(p) == participants[p] = "init"

Prepare(p) ==
  /\ Preparable(p)
  /\ participants' = [participants EXCEPT ![p] = "prepared"]
  /\ UNCHANGED <<global_state, committing, overtaken, reversed>>

AllPrepared == \A p \in Participants : participants[p] = "prepared"

(* commit, up to the end of the check. *)
BeginCommit(t) ==
  /\ t \notin committing
  /\ AllPrepared
  /\ committing' = committing \cup {t}
  /\ UNCHANGED <<participants, global_state, overtaken, reversed>>

(* commit writes whatever the states have become since the check. *)
Commits(p) == "committed"

FinishCommit(t) ==
  /\ t \in committing
  /\ participants' = [p \in Participants |-> Commits(p)]
  /\ global_state' = "committed"
  /\ committing' = committing \ {t}
  /\ overtaken' = overtaken \ {t}
  /\ reversed' = FALSE

(* abort spares the committed participants but records its outcome. *)
Abort ==
  LET done == \E p \in Participants : participants[p] = "committed"
  IN /\ participants' = [p \in Participants |->
          IF participants[p] = "committed" THEN "committed" ELSE "aborted"]
     /\ global_state' = "aborted"
     /\ overtaken' = IF done THEN overtaken ELSE committing
     /\ reversed' = (reversed \/ done)
     /\ UNCHANGED committing

TwoPcNext ==
  \/ \E p \in Participants : Prepare(p)
  \/ \E t \in Committers : BeginCommit(t) \/ FinishCommit(t)
  \/ Abort

-----------------------------------------------------------------------------
(* A transaction is never half committed: whatever order prepare, commit   *)
(* and abort are called in, and however their steps overlap, one committed *)
(* participant means that all are.                                         *)
AllOrNothing ==
  (\E p \in Participants : participants[p] = "committed") =>
    \A p \in Participants : participants[p] = "committed"

(* A decision is final, but for one case: commit found everyone prepared,  *)
(* an abort then came first, and commit makes the aborted participants     *)
(* committed.  No other interleaving changes a decided participant.        *)
DecidedOnce ==
  [][\A p \in Participants :
       participants[p] \in {"committed", "aborted"} =>
         \/ participants'[p] = participants[p]
         \/ \E t \in overtaken : t \notin committing']_twoPcVars

(* What global_state reports is what the participants did, unless abort    *)
(* was called on a committed transaction: it then reports an abort that    *)
(* has changed nobody.                                                     *)
ReportsOutcome ==
  global_state # "init" =>
    \A p \in Participants :
      participants[p] = IF reversed THEN "committed" ELSE global_state

(* Both: a transaction is decided for all, and reported as decided. *)
CommitIsAtomic == AllOrNothing /\ ReportsOutcome
================================================================================
