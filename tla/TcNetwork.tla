------------------------------- MODULE TcNetwork -------------------------------
(***************************************************************************)
(* What every threshold session runs on: the framework's Session           *)
(* (confium-tc-core/src/session.rs), which calls its scheme once per round *)
(* with the messages that came in since the last one, and whoever carries  *)
(* the messages.  Under the "inprocess" driver (confium-tc/src/            *)
(* inprocess.rs) all parties move in step and every message arrives once.  *)
(* Under "network" the parties move as they like, and a message may be     *)
(* lost, come twice, come back to its sender or come spoiled; each such    *)
(* fault counts against MaxFaults.                                         *)
(***************************************************************************)
EXTENDS Integers, FiniteSetsExt

CONSTANTS
  N,           \* the parties are 1..N, their indices in the key's roster
  Threshold,
  Schemes,     \* among "FROST", "GG18" and "CMP20"
  Drivers,     \* among "inprocess" and "network"
  MaxFaults

ASSUME TcAssumption ==
  /\ N \in Nat \ {0}
  /\ Threshold \in 1..N
  /\ MaxFaults \in Nat

VARIABLES
  scheme,
  driver,
  faults

netVars == <<scheme, driver, faults>>

Parties == 1..N

(* A bag of parties: how often each one's message, commitment or           *)
(* polynomial is counted.                                                  *)
Nobody == [q \in Parties |-> 0]
Just(p) == [Nobody EXCEPT ![p] = 1]
Support(bag) == {q \in Parties : bag[q] > 0}
Plus(a, b) == [q \in Parties |-> a[q] + b[q]]
Size(bag) == MapThenSumSet(LAMBDA q : bag[q], Parties)
OneEach(S) == [q \in Parties |-> IF q \in S THEN 1 ELSE 0]

NetInit ==
  /\ scheme \in Schemes
  /\ driver \in Drivers
  /\ faults = 0

Budget == MaxFaults - faults

(* How many faults turn the copies in flight into the copies delivered. *)
Distance(flight, copies) ==
  MapThenSumSet(LAMBDA q : IF copies[q] > flight[q] THEN copies[q] - flight[q]
                                                    ELSE flight[q] - copies[q],
                Parties)

(* What may be delivered of the messages in flight: nothing comes from a   *)
(* party that posted none.                                                 *)
Arrivals(flight, posted, budget) ==
  IF driver = "inprocess" \/ budget = 0
  THEN {flight}
  ELSE {copies \in [Parties -> 0..2] :
          /\ Support(copies) \subseteq posted
          /\ Distance(flight, copies) <= budget}

(* Whose messages come spoiled. *)
Spoils(copies, budget) ==
  IF driver = "inprocess" THEN {{}}
  ELSE {B \in SUBSET Support(copies) : Cardinality(B) <= budget}

-----------------------------------------------------------------------------
(* Session::round_step.  The number goes up before the scheme runs, and    *)
(* stays up when the scheme returns an error.                              *)
RoundStep(s, outcome) == [s EXCEPT !.round = @ + 1, !.status = outcome]

(* A complete session refuses another step. *)
Steppable(s) == s.status \in {"running", "failed"}

(* step_rounds: in process, nobody starts a round before everyone has      *)
(* finished the one before, and an error ends the run.                     *)
InStep(sessions, members, p) ==
  driver = "inprocess" =>
    \A q \in members : /\ sessions[q].round >= sessions[p].round
                       /\ sessions[q].status # "failed"
================================================================================
