---------------------------- MODULE RoundCoordinator ----------------------------
(***************************************************************************)
(* The coordinator of a signing protocol in several rounds                 *)
(* (round_coordinator.rs), with signers who answer the round it is in, and *)
(* a network that delays their answers and may repeat them.  submit is not *)
(* told which round an answer is for.  A call borrows the coordinator      *)
(* exclusively, so it is one action.  An answer is its signer and the      *)
(* round it was made for.                                                  *)
(***************************************************************************)
EXTENDS Naturals, FiniteSets

CONSTANTS
  RoundSigners,      \* the parties
  RoundThresholds,   \* the thresholds a protocol may be started with
  LastRound,         \* 4 in the code, whose rounds are all alike
  MaxRepeats         \* bound: answers the network repeats

ASSUME RoundAssumption ==
  /\ IsFiniteSet(RoundSigners)
  /\ RoundThresholds \subseteq Nat
  /\ LastRound \in Nat \ {0}

VARIABLES
  round_threshold,
  round,        \* the SigningRound, numbered
  round_data,   \* the answers taken in this round
  history,      \* of those of the rounds before, the round made for and taken in
  answered,     \* per signer, the rounds it has answered
  under_way,    \* answers in the network
  forced,       \* force_advance was called
  repeats       \* how many answers the network repeated

roundVars == <<round_threshold, round, round_data, history, answered, under_way, forced, repeats>>

(* SigningRound: Round1 to the last one, then *)
RoundCompleted == LastRound + 1
RoundAborted == LastRound + 2

(* In the given round, with nothing answered. *)
Untouched(r) ==
  /\ round_threshold \in RoundThresholds
  /\ round = r
  /\ round_data = {} /\ history = {}
  /\ answered = [s \in RoundSigners |-> {}]
  /\ under_way = {}
  /\ forced = FALSE /\ repeats = 0

RoundInit == Untouched(1)

-----------------------------------------------------------------------------
(* SigningRound::is_terminal *)
Terminal == round \in {RoundCompleted, RoundAborted}

(* Mutant of DataOfNewRound: the answers are not cleared. *)
DataOfNewRoundKept(data) == data

(* RoundState::new *)
DataOfNewRound(data) == {}

Filed(data) == {[for |-> a.for, in |-> round] : a \in data}

(* The old round goes to the history. *)
Advance(data) ==
  /\ history' = history \cup Filed(data)
  /\ round' = round + 1
  /\ round_data' = DataOfNewRound(data)

(* A signer reads current_round and answers it, once. *)
SendAnswer(s) ==
  /\ ~Terminal /\ round \notin answered[s]
  /\ answered' = [answered EXCEPT ![s] = @ \cup {round}]
  /\ under_way' = under_way \cup {[signer |-> s, for |-> round]}
  /\ UNCHANGED <<round_threshold, round, round_data, history, forced, repeats>>

HasResponded(s) == \E a \in round_data : a.signer = s

(* Mutant of EnoughResponses: one is missing. *)
EnoughResponsesEarly(data) == Cardinality(data) + 1 >= round_threshold

EnoughResponses(data) == Cardinality(data) >= round_threshold

(* submit; a protocol that has ended and a second answer are refused. *)
Submit(a) ==
  IF Terminal \/ HasResponded(a.signer)
  THEN UNCHANGED <<round, round_data, history>>
  ELSE LET data == round_data \cup {a} IN
       IF EnoughResponses(data) THEN Advance(data)
       ELSE round_data' = data /\ UNCHANGED <<round, history>>

Deliver(a) ==
  /\ a \in under_way
  /\ Submit(a)
  /\ under_way' = under_way \ {a}
  /\ UNCHANGED <<round_threshold, answered, forced, repeats>>

DeliverRepeated(a) ==
  /\ a \in under_way /\ repeats < MaxRepeats
  /\ Submit(a)
  /\ repeats' = repeats + 1
  /\ UNCHANGED <<round_threshold, answered, under_way, forced>>

(* abort, which does not look at the round; its answers are dropped. *)
AbortRounds ==
  /\ round # RoundAborted
  /\ round' = RoundAborted /\ round_data' = {}
  /\ UNCHANGED <<round_threshold, history, answered, under_way, forced, repeats>>

ForceAdvance ==
  /\ ~Terminal
  /\ Advance(round_data)
  /\ forced' = TRUE
  /\ UNCHANGED <<round_threshold, answered, under_way, repeats>>

RoundNext ==
  \/ \E s \in RoundSigners : SendAnswer(s)
  \/ \E a \in under_way : Deliver(a) \/ DeliverRepeated(a)
  \/ AbortRounds \/ ForceAdvance

RoundSpec == RoundInit /\ [][RoundNext]_roundVars

(* The signers go on, and every answer arrives in the end. *)
RoundFairness ==
  /\ \A s \in RoundSigners : WF_roundVars(SendAnswer(s))
  /\ \A s \in RoundSigners, n \in 1 .. LastRound :
       WF_roundVars(Deliver([signer |-> s, for |-> n]))

-----------------------------------------------------------------------------
(* Every party must answer a round, none is forced on and no answer comes  *)
(* twice.                                                                  *)
OnTime ==
  round_threshold >= Cardinality(RoundSigners) /\ ~forced /\ repeats = 0

(* The answers on file for a round are answers to that round, if every     *)
(* party must answer before the round ends, nobody forces it on and none   *)
(* arrives twice.  In every other case an answer to an earlier round may   *)
(* be among them, never one to a later round: submit takes what comes as   *)
(* meant for the current round.                                            *)
FiledInOwnRound ==
  \A a \in history \cup Filed(round_data) :
    IF OnTime THEN a.for = a.in ELSE a.for <= a.in

(* The protocol comes to its end: an answer to an earlier round that takes *)
(* the place of its signer's answer to this one does not hold up the       *)
(* round.  A threshold that is more than the parties keeps it in round 1.  *)
ProtocolEnds ==
  <>(Terminal \/ round_threshold > Cardinality(RoundSigners))
=================================================================================
