------------------------------ MODULE DkgSession ------------------------------
(***************************************************************************)
(* Distributed key generation: confium-tc-frost-ed25519/src/dkg.rs,        *)
(* confium-tc-gg18/src/keygen.rs and confium-tc-cmp20/src/keygen.rs.  Every *)
(* party deals a random polynomial: a commitment list to all and one       *)
(* evaluation to each.  A party's share is a sum of evaluations at its     *)
(* index and its public key a sum of first commitments; both are modelled  *)
(* by the bag of the dealers they sum over.  Polynomials being random, a   *)
(* share lies on the polynomial of the key exactly when the two bags are   *)
(* equal.                                                                  *)
(***************************************************************************)
EXTENDS TcNetwork

VARIABLES
  dealt,    \* how often each party has sent out its deal
  dkg       \* the parties' sessions

dkgVars == <<dealt, dkg>>

(* seen and frags are the commitment lists and the evaluations that came   *)
(* in with the last call.                                                  *)
NewDkg == [round |-> 0, status |-> "running",
           seen |-> Nobody, frags |-> Nobody, spoiled |-> {},
           share |-> Nobody, key |-> Nobody]

DkgInit ==
  /\ dealt = Nobody
  /\ dkg = [p \in Parties |-> NewDkg]

DkgComplete(p) == dkg[p].status = "complete"

Keep(s, seen, frags, spoiled) ==
  [s EXCEPT !.seen = seen, !.frags = frags, !.spoiled = spoiled]

Finish(s, share, key) ==
  [RoundStep(s, "complete") EXCEPT !.share = share, !.key = key]

-----------------------------------------------------------------------------
(* The dealers FROST leaves out: their evaluation fails its check, or came *)
(* without commitments to check it against.                                *)
Byzantine(s) ==
  {q \in Support(s.frags) : s.seen[q] = 0 \/ q \in s.spoiled}

(* Their evaluations, each copy that came. *)
Rejected(s) == UNION {{q} \X (1 .. s.frags[q]) : q \in Byzantine(s)}

(* The code's saturating subtraction: a result below zero, like zero, is   *)
(* below Threshold.  Every rejected evaluation is subtracted.              *)
Contributing(s) ==
  (Cardinality(Support(s.seen)) + 1) - Cardinality(Rejected(s))

(* Mutant of KeyDealers: a dealer left out of the share stays in the key. *)
KeyDealersAll(s) == Support(s.seen)

(* The sum of first commitments runs over every commitment list that came, *)
(* whether or not the evaluation did.                                      *)
KeyDealers(s) == Support(s.seen) \ Byzantine(s)

(* DkgSession::round2: one's own deal, every evaluation not left out, and  *)
(* the first commitments.                                                  *)
FrostRound2(p, s) ==
  IF Contributing(s) < Threshold
  THEN RoundStep(s, "failed")
  ELSE Finish(s,
              Plus(Just(p), [q \in Parties |-> IF q \in Byzantine(s) THEN 0 ELSE s.frags[q]]),
              Plus(Just(p), OneEach(KeyDealers(s))))

(* round2_assemble and the second half of round1_deal_and_assemble: the    *)
(* party's own deal is added to what came; an evaluation that fails its    *)
(* check or has no commitments is an error.                                *)
Assemble(p, s, evaluations, commitments) ==
  IF \/ ~(Support(evaluations) \subseteq Support(commitments))
     \/ s.spoiled # {}
     \/ Cardinality(Support(evaluations)) < Threshold
  THEN RoundStep(s, "failed")
  ELSE Finish(s, evaluations, commitments)

(* Our own commitments are only added when no copy of them came back. *)
WithOwn(p, seen) == IF seen[p] = 0 THEN Plus(seen, Just(p)) ELSE seen

Gg18Round2Assemble(p, s) ==
  Assemble(p, s, Plus(s.frags, Just(p)), WithOwn(p, s.seen))

Cmp20Assemble(p, s) ==
  Assemble(p, s, Plus(s.frags, Just(p)), WithOwn(p, s.seen))

-----------------------------------------------------------------------------
(* The deals on their way to p: in process, those of the round before;     *)
(* otherwise all that p has not yet been given.                            *)
InFlight(p, given) ==
  [q \in Parties |->
     IF q = p \/ (driver = "inprocess" /\ dkg[p].round = 0) \/ dealt[q] < given[q]
     THEN 0
     ELSE dealt[q] - given[q]]

(* One call of p's session with what has come in. *)
Receive(p, Assembled(_, _)) ==
  \E seen \in Arrivals(InFlight(p, dkg[p].seen), Support(dealt), Budget) :
  \E frags \in Arrivals(InFlight(p, dkg[p].frags), Support(dealt) \ {p},
                        Budget - Distance(InFlight(p, dkg[p].seen), seen)) :
    LET cost == Distance(InFlight(p, dkg[p].seen), seen)
                  + Distance(InFlight(p, dkg[p].frags), frags)
    IN \E spoiled \in Spoils(frags, Budget - cost) :
         /\ faults' = faults + cost + Cardinality(spoiled)
         /\ dkg' = [dkg EXCEPT
                      ![p] = Assembled(p, Keep(dkg[p], seen, frags, spoiled))]

CanStep(p) == Steppable(dkg[p]) /\ InStep(dkg, Parties, p)

(* round1 of FROST and round1_deal of GG18: send the deal, whatever came. *)
FrostRound1(p) ==
  /\ scheme = "FROST"
  /\ CanStep(p)
  /\ dkg[p].round = 0
  /\ dealt' = [dealt EXCEPT ![p] = 1]
  /\ dkg' = [dkg EXCEPT ![p] = RoundStep(dkg[p], "running")]
  /\ UNCHANGED netVars

Gg18Round1Deal(p) ==
  /\ scheme = "GG18"
  /\ CanStep(p)
  /\ dkg[p].round = 0
  /\ dealt' = [dealt EXCEPT ![p] = 1]
  /\ dkg' = [dkg EXCEPT ![p] = RoundStep(dkg[p], "running")]
  /\ UNCHANGED netVars

FrostDkgRound(p) ==
  /\ scheme = "FROST"
  /\ CanStep(p)
  /\ dkg[p].round = 1
  /\ Receive(p, FrostRound2)
  /\ UNCHANGED <<scheme, driver, dealt>>

Gg18DkgRound(p) ==
  /\ scheme = "GG18"
  /\ CanStep(p)
  /\ dkg[p].round = 1
  /\ Receive(p, Gg18Round2Assemble)
  /\ UNCHANGED <<scheme, driver, dealt>>

(* round1_deal_and_assemble serves the first two calls.  With nothing come *)
(* in it sends the deal; otherwise it assembles, and the deal it has just  *)
(* built goes nowhere.                                                     *)
Cmp20DealRound(p) ==
  /\ scheme = "CMP20"
  /\ CanStep(p)
  /\ dkg[p].round \in {0, 1}
  /\ driver = "inprocess" => InFlight(p, dkg[p].seen) = Nobody
  /\ dealt' = [dealt EXCEPT ![p] = @ + 1]
  /\ dkg' = [dkg EXCEPT
               ![p] = RoundStep(Keep(dkg[p], Nobody, Nobody, {}), "running")]
  /\ UNCHANGED netVars

Cmp20AssembleRound(p) ==
  /\ scheme = "CMP20"
  /\ CanStep(p)
  /\ dkg[p].round \in {0, 1}
  /\ Receive(p, Cmp20Assemble)
  /\ Support(dkg'[p].seen) \cup Support(dkg'[p].frags) # {}
  /\ UNCHANGED <<scheme, driver, dealt>>

(* Any later call is answered with RoundOverflow, whatever its number. *)
DkgOverflow(p) ==
  /\ CanStep(p)
  /\ dkg[p].round = 2
  /\ dkg' = [dkg EXCEPT ![p].status = "failed"]
  /\ UNCHANGED <<netVars, dealt>>

DkgStep(p) ==
  \/ FrostRound1(p)
  \/ FrostDkgRound(p)
  \/ Gg18Round1Deal(p)
  \/ Gg18DkgRound(p)
  \/ Cmp20DealRound(p)
  \/ Cmp20AssembleRound(p)
  \/ DkgOverflow(p)

-----------------------------------------------------------------------------
(* The session has ended and its record is still there. *)
Fresh(p) == DkgComplete(p) /\ dkg[p].round > 0

(* A party's share lies on its public key whenever each of the other       *)
(* dealers' commitments and evaluation came both once or not at all, and   *)
(* no commitments of its own came back.  (One without the other, or a      *)
(* second copy of either, goes unnoticed by all three schemes.)            *)
ShareOnKey ==
  \A p \in Parties :
    /\ Fresh(p)
    /\ dkg[p].seen = dkg[p].frags
    /\ \A q \in Parties : dkg[p].seen[q] <= 1
    => dkg[p].share = dkg[p].key

(* The key of a complete session sums over at least Threshold dealers, the *)
(* party itself included; FROST, which only approximates that number,      *)
(* needs its own broadcast not to have come back.                          *)
KeyFromThreshold ==
  \A p \in Parties :
    Fresh(p) /\ (scheme = "FROST" => dkg[p].seen[p] = 0)
      => Cardinality(Support(dkg[p].key)) >= Threshold

Broadcasts(p) == Support(dkg[p].seen) \cup {p}

(* FROST parties that saw the same commitment lists, and rejected the same *)
(* dealers, compute the same key, whichever evaluations they are missing.  *)
(* (Without a complaint round, a dealer that one of them alone rejects     *)
(* leaves them with different keys.)                                       *)
SameBroadcastsSameKey ==
  \A p, q \in Parties :
    /\ scheme = "FROST"
    /\ Fresh(p) /\ Fresh(q)
    /\ dkg[p].seen[p] = 0 /\ dkg[q].seen[q] = 0
    /\ Broadcasts(p) = Broadcasts(q)
    /\ Byzantine(dkg[p]) = Byzantine(dkg[q])
    => dkg[p].key = dkg[q].key

(* Together: what a completed key generation leaves behind fits. *)
KeysMatchShares == ShareOnKey /\ KeyFromThreshold /\ SameBroadcastsSameKey
================================================================================
