---------------------------- MODULE ThresholdProofs ----------------------------
(***************************************************************************)
(* Proofs about SignSession: whatever the scheme, the number of parties,   *)
(* the threshold and the number of faults, a signature is a certificate of *)
(* QuorumCertificate, no nonce goes into two different signatures, what a  *)
(* session reports is true, and the key that DKG made fits its shares.     *)
(***************************************************************************)
EXTENDS SignSession, FiniteSetTheorems, TLAPS

(* The provers a leaf is given that names none of its own, tried in this order. *)
USE SMTT(30), ZenonT(30), Z3T(30), SMTT(40)

(* Only the session of p moves. *)
Moves(p) == \A q \in Parties : q # p => ss'[q] = ss[q]

(* The session of p takes a step that neither answers nor completes. *)
Quiet(p) ==
  /\ ss'[p].answered = ss[p].answered
  /\ ss[p].answered => ss'[p].view = ss[p].view
  /\ ss'[p].round >= ss[p].round
  /\ ss'[p].status # "complete"

(* The session of p answers over a view that holds p. *)
Answering(p) ==
  /\ ~ss[p].answered
  /\ ss'[p].answered
  /\ p \in View(p)'
  /\ ss'[p].round >= (IF scheme = "FROST" THEN 2 ELSE 3)
  /\ ss'[p].status # "complete"

(* The session of p completes with a signature that verifies. *)
Completing(p) ==
  /\ ss[p].answered
  /\ ss'[p].answered
  /\ ss'[p].view = ss[p].view
  /\ ss'[p].round >= ss[p].round
  /\ ss'[p].status = "complete"
  /\ Interpolates(p, ss[p].view)

(* What one call of a signing session may do to it. *)
SignEffect(p) ==
  /\ SignTypeOK'
  /\ UNCHANGED <<scheme, signers>>
  /\ p \in signers
  /\ ss[p].status # "complete"
  /\ Moves(p)
  /\ Quiet(p) \/ Answering(p) \/ Completing(p)

(* What a transport delivers is a bag of parties. *)
LEMMA ArrivalsType ==
  ASSUME NEW flight \in [Parties -> Nat], NEW posted, NEW budget,
         NEW copies \in Arrivals(flight, posted, budget)
  PROVE  copies \in [Parties -> Nat]
BY DEF Arrivals

(* The messages that come in for a call are a bag of parties. *)
LEMMA IncomingType ==
  ASSUME NEW p \in Parties, NEW r, NEW own, NEW copies \in Incoming(p, r, own)
  PROVE  copies \in [Parties -> Nat]
<1>1. OneEach(Posted(r) \ {p}) \in [Parties -> Nat]
  BY DEF OneEach
<1> QED
  BY <1>1, ArrivalsType DEF Incoming

(* Adding oneself to what came in gives a bag that holds oneself. *)
LEMMA PlusJust ==
  ASSUME NEW p \in Parties, NEW copies \in [Parties -> Nat]
  PROVE  /\ Plus(copies, Just(p)) \in [Parties -> Nat]
         /\ p \in Support(Plus(copies, Just(p)))
<1>1. Just(p) \in [Parties -> Nat] /\ Just(p)[p] = 1
  BY DEF Just, Nobody
<1> QED
  BY <1>1 DEF Plus, Support

(* A record update on one party leaves the sessions well typed. *)
LEMMA UpdateType ==
  ASSUME SignTypeOK, NEW p \in Parties, UNCHANGED signers,
         NEW s \in SignRecord, ss' = [ss EXCEPT ![p] = s]
  PROVE  SignTypeOK' /\ Moves(p) /\ ss'[p] = s
BY DEF SignTypeOK, Moves

(* A call moves the round number on and keeps the rest of the record. *)
LEMMA RoundStepEffect ==
  ASSUME NEW s \in SignRecord,
         NEW outcome \in {"running", "failed", "complete", "panicked"}
  PROVE  /\ RoundStep(s, outcome) \in SignRecord
         /\ RoundStep(s, outcome).round = s.round + 1
         /\ RoundStep(s, outcome).status = outcome
         /\ RoundStep(s, outcome).view = s.view
         /\ RoundStep(s, outcome).answered = s.answered
<1>1. s.round \in Nat
  BY DEF SignRecord
<1> DEFINE t == [s EXCEPT !.round = s.round + 1]
<1>2. RoundStep(s, outcome) = [t EXCEPT !.status = outcome]
  BY DEF RoundStep
<1>3. /\ t \in SignRecord /\ t.round = s.round + 1
      /\ t.view = s.view /\ t.answered = s.answered
  BY <1>1 DEF SignRecord
<1> HIDE DEF t
<1>4. /\ [t EXCEPT !.status = outcome] \in SignRecord
      /\ [t EXCEPT !.status = outcome].status = outcome
      /\ [t EXCEPT !.status = outcome].round = t.round
      /\ [t EXCEPT !.status = outcome].view = t.view
      /\ [t EXCEPT !.status = outcome].answered = t.answered
  BY <1>3 DEF SignRecord
<1> QED
  BY <1>2, <1>3, <1>4

(* A call that leaves the record rec behind has one of the three effects,  *)
(* if rec answers only in its round and completes only when it verifies.   *)
LEMMA CallEffect ==
  ASSUME SignInv, NEW p \in Parties, CanSign(p), UNCHANGED <<scheme, signers>>,
         NEW rec \in SignRecord, ss' = [ss EXCEPT ![p] = rec],
         rec.round >= ss[p].round,
         \/ /\ rec.answered = ss[p].answered
            /\ ss[p].answered => rec.view = ss[p].view
            /\ rec.status = "complete" =>
                 ss[p].answered /\ Interpolates(p, ss[p].view)
         \/ /\ ~ss[p].answered
            /\ rec.answered => p \in Support(rec.view)
            /\ rec.answered => rec.round >= (IF scheme = "FROST" THEN 2 ELSE 3)
            /\ rec.status # "complete"
  PROVE  SignEffect(p)
<1>1. SignTypeOK
  BY DEF SignInv
<1>2. SignTypeOK' /\ Moves(p) /\ ss'[p] = rec
  BY <1>1, UpdateType, ZenonT(30)
<1>3. /\ p \in signers /\ ss[p].status # "complete"
  BY DEF CanSign, Steppable
<1>4. rec.answered \in BOOLEAN /\ ss[p].answered \in BOOLEAN
  BY <1>1 DEF SignTypeOK, SignRecord
<1>5. View(p)' = Support(rec.view)
  BY <1>2 DEF View, Support
<1>6. Quiet(p) \/ Answering(p) \/ Completing(p)
  BY <1>2, <1>4, <1>5 DEF Quiet, Answering, Completing
<1> QED
  BY <1>2, <1>3, <1>6 DEF SignEffect

(* A call that only moves the round number and the status. *)
LEMMA RoundEffect ==
  ASSUME SignInv, NEW p \in Parties, CanSign(p), UNCHANGED <<scheme, signers>>,
         NEW outcome \in {"running", "failed", "complete", "panicked"},
         outcome = "complete" => ss[p].answered /\ Interpolates(p, ss[p].view),
         ss' = [ss EXCEPT ![p] = RoundStep(ss[p], outcome)]
  PROVE  SignEffect(p)
<1>1. ss[p] \in SignRecord /\ ss[p].round \in Nat
  BY DEF SignInv, SignTypeOK, SignRecord
<1>2. /\ RoundStep(ss[p], outcome) \in SignRecord
      /\ RoundStep(ss[p], outcome).round >= ss[p].round
      /\ RoundStep(ss[p], outcome).status = outcome
      /\ RoundStep(ss[p], outcome).view = ss[p].view
      /\ RoundStep(ss[p], outcome).answered = ss[p].answered
  BY <1>1, RoundStepEffect
<1> QED
  BY <1>2, CallEffect, ZenonT(30)

(* The nonce round. *)
LEMMA Round1Effect ==
  ASSUME SignInv, NEW p \in Parties, Round1Commit(p)
  PROVE  SignEffect(p)
<1>1. /\ CanSign(p) /\ UNCHANGED <<scheme, signers>>
      /\ ss' = [ss EXCEPT ![p] = RoundStep(ss[p], "running")]
  BY DEF Round1Commit, netVars
<1> QED
  BY <1>1, RoundEffect, ZenonT(30)

(* A call past the last round. *)
LEMMA OverflowEffect ==
  ASSUME SignInv, NEW p \in Parties, SignOverflow(p)
  PROVE  SignEffect(p)
<1>1. /\ CanSign(p) /\ UNCHANGED <<scheme, signers>>
      /\ ss' = [ss EXCEPT ![p] = [ss[p] EXCEPT !.status = "failed"]]
  BY DEF SignOverflow, netVars
<1>2. ss[p] \in SignRecord /\ ss[p].round \in Nat
  BY DEF SignInv, SignTypeOK, SignRecord
<1> DEFINE rec == [ss[p] EXCEPT !.status = "failed"]
<1>3. /\ rec \in SignRecord /\ rec.round >= ss[p].round /\ rec.status = "failed"
      /\ rec.answered = ss[p].answered /\ rec.view = ss[p].view
  BY <1>2 DEF SignRecord
<1> HIDE DEF rec
<1> QED
  BY <1>1, <1>3, CallEffect, ZenonT(30) DEF rec

(* The FROST round that answers. *)
LEMMA FrostRound2Effect ==
  ASSUME SignInv, NEW p \in Parties, FrostSignRound2(p)
  PROVE  SignEffect(p)
<1>1. CanSign(p) /\ UNCHANGED <<scheme, signers>> /\ scheme = "FROST" /\ ss[p].round = 1
  BY DEF FrostSignRound2
<1>2. PICK commits \in Incoming(p, "nonce", TRUE) :
        ss' = [ss EXCEPT
                 ![p] = [RoundStep(ss[p], IF Size(Plus(commits, Just(p))) >= Threshold
                                          THEN "running" ELSE "failed")
                           EXCEPT !.view = Plus(commits, Just(p)),
                                  !.answered = (Size(Plus(commits, Just(p))) >= Threshold)]]
  BY ZenonT(30) DEF FrostSignRound2
<1> DEFINE view == Plus(commits, Just(p))
           enough == Size(view) >= Threshold
           outcome == IF enough THEN "running" ELSE "failed"
           step == RoundStep(ss[p], outcome)
           rec == [step EXCEPT !.view = view, !.answered = enough]
<1>3. commits \in [Parties -> Nat]
  BY IncomingType, ZenonT(30)
<1>4. view \in [Parties -> Nat] /\ p \in Support(view)
  BY <1>3, PlusJust
<1>5. ss[p] \in SignRecord
  BY DEF SignInv, SignTypeOK
<1>6. outcome \in {"running", "failed", "complete", "panicked"} /\ outcome # "complete"
  OBVIOUS
<1>7. enough \in BOOLEAN
  OBVIOUS
<1>8. ss' = [ss EXCEPT ![p] = rec]
  BY <1>2
<1> HIDE DEF view, enough, outcome
<1>9. step \in SignRecord /\ step.round = 2 /\ step.status = outcome
  BY <1>1, <1>5, <1>6, RoundStepEffect
<1> HIDE DEF step
<1>10. /\ rec \in SignRecord /\ rec.round = 2 /\ rec.status = outcome
       /\ rec.view = view /\ rec.answered = enough
  BY <1>4, <1>7, <1>9, ZenonT(30) DEF SignRecord
<1>11. ~ss[p].answered
  BY <1>1 DEF SignInv
<1> HIDE DEF rec
<1>12. /\ rec.round >= ss[p].round /\ rec.status # "complete"
       /\ rec.round >= (IF scheme = "FROST" THEN 2 ELSE 3)
       /\ p \in Support(rec.view)
  BY <1>1, <1>4, <1>6, <1>10
<1> QED
  BY <1>1, <1>8, <1>10, <1>11, <1>12, CallEffect, ZenonT(30)

(* The GG18 and CMP20 round that reveals the nonce. *)
LEMMA Round2Effect ==
  ASSUME SignInv, NEW p \in Parties, Round2Reveal(p)
  PROVE  SignEffect(p)
<1>1. CanSign(p) /\ UNCHANGED <<scheme, signers>>
  BY DEF Round2Reveal
<1>2. PICK points \in Incoming(p, "nonce", FALSE) :
        ss' = [ss EXCEPT
                 ![p] = [RoundStep(ss[p], "running") EXCEPT !.points = Support(points)]]
  BY ZenonT(30) DEF Round2Reveal
<1> DEFINE step == RoundStep(ss[p], "running")
           rec == [step EXCEPT !.points = Support(points)]
<1>3. ss[p] \in SignRecord /\ ss[p].round \in Nat
  BY DEF SignInv, SignTypeOK, SignRecord
<1>4. /\ step \in SignRecord /\ step.round >= ss[p].round /\ step.status = "running"
      /\ step.view = ss[p].view /\ step.answered = ss[p].answered
  BY <1>3, RoundStepEffect
<1>5. ss' = [ss EXCEPT ![p] = rec]
  BY <1>2
<1>6. Support(points) \in SUBSET Parties
  BY DEF Support
<1> HIDE DEF step
<1>7. /\ rec \in SignRecord /\ rec.round >= ss[p].round /\ rec.status = "running"
      /\ rec.view = ss[p].view /\ rec.answered = ss[p].answered
  BY <1>4, <1>6 DEF SignRecord
<1> HIDE DEF rec
<1> QED
  BY <1>1, <1>5, <1>7, CallEffect, ZenonT(30)

(* The GG18 and CMP20 round that answers. *)
LEMMA Round3Effect ==
  ASSUME SignInv, NEW p \in Parties, Round3Partial(p), scheme # "FROST"
  PROVE  SignEffect(p)
<1>1. CanSign(p) /\ UNCHANGED <<scheme, signers>> /\ ss[p].round = 2
  BY DEF Round3Partial
<1>2. PICK reveals \in Incoming(p, "reveal", FALSE) :
        ss' = [ss EXCEPT
                 ![p] = [RoundStep(ss[p], IF Support(reveals) \subseteq ss[p].points
                                          THEN "running" ELSE "failed")
                           EXCEPT !.view = IF Support(reveals) \subseteq ss[p].points
                                           THEN Plus(reveals, Just(p)) ELSE Nobody,
                                  !.answered = (Support(reveals) \subseteq ss[p].points),
                                  !.points = {}]]
  BY ZenonT(30) DEF Round3Partial
<1> DEFINE known == Support(reveals) \subseteq ss[p].points
           view == IF known THEN Plus(reveals, Just(p)) ELSE Nobody
           outcome == IF known THEN "running" ELSE "failed"
           step == RoundStep(ss[p], outcome)
           rec == [step EXCEPT !.view = view, !.answered = known, !.points = {}]
<1>3. reveals \in [Parties -> Nat]
  BY IncomingType, ZenonT(30)
<1>4. /\ Plus(reveals, Just(p)) \in [Parties -> Nat]
      /\ p \in Support(Plus(reveals, Just(p)))
  BY <1>3, PlusJust
<1>a. Nobody \in [Parties -> Nat]
  BY DEF Nobody
<1>b. view \in [Parties -> Nat] /\ (known => p \in Support(view))
  BY <1>4, <1>a
<1>5. ss[p] \in SignRecord
  BY DEF SignInv, SignTypeOK
<1>6. outcome \in {"running", "failed", "complete", "panicked"} /\ outcome # "complete"
  OBVIOUS
<1>7. known \in BOOLEAN
  OBVIOUS
<1>8. ss' = [ss EXCEPT ![p] = rec]
  BY <1>2
<1> HIDE DEF view, known, outcome
<1>9. step \in SignRecord /\ step.round = 3 /\ step.status = outcome
  BY <1>1, <1>5, <1>6, RoundStepEffect
<1> HIDE DEF step
<1> DEFINE half == [step EXCEPT !.view = view, !.answered = known]
<1>c. /\ half \in SignRecord /\ half.round = 3 /\ half.status = outcome
      /\ half.view = view /\ half.answered = known
  BY <1>b, <1>7, <1>9, ZenonT(30) DEF SignRecord
<1>d. rec = [half EXCEPT !.points = {}]
  OBVIOUS
<1> HIDE DEF half, rec
<1>10. /\ rec \in SignRecord /\ rec.round = 3 /\ rec.status = outcome
       /\ rec.view = view /\ rec.answered = known
  BY <1>c, <1>d DEF SignRecord
<1>11. ~ss[p].answered
  BY <1>1 DEF SignInv
<1>12. /\ rec.round >= ss[p].round /\ rec.status # "complete"
       /\ rec.round >= (IF scheme = "FROST" THEN 2 ELSE 3)
       /\ rec.answered => p \in Support(rec.view)
  BY <1>1, <1>b, <1>6, <1>10
<1> QED
  BY <1>1, <1>8, <1>10, <1>11, <1>12, CallEffect, ZenonT(30)

(* The last round of FROST. *)
LEMMA FrostRound3Effect ==
  ASSUME SignInv, NEW p \in Parties, FrostSignRound3(p)
  PROVE  SignEffect(p)
<1>1. CanSign(p) /\ UNCHANGED <<scheme, signers>>
  BY DEF FrostSignRound3
<1>2. PICK responses, spoiled :
        ss' = [ss EXCEPT
                 ![p] = RoundStep(ss[p],
                          IF ss[p].answered
                          THEN FrostRound3Outcome(p, Plus(responses, Just(p)), spoiled)
                          ELSE "failed")]
  BY ZenonT(30) DEF FrostSignRound3
<1> DEFINE result == FrostRound3Outcome(p, Plus(responses, Just(p)), spoiled)
           outcome == IF ss[p].answered THEN result ELSE "failed"
<1>3. /\ result \in {"running", "failed", "complete", "panicked"}
      /\ result = "complete" => Interpolates(p, ss[p].view)
  BY DEF FrostRound3Outcome, Verifies
<1> HIDE DEF result
<1>4. /\ outcome \in {"running", "failed", "complete", "panicked"}
      /\ outcome = "complete" => ss[p].answered /\ Interpolates(p, ss[p].view)
  BY <1>3
<1>5. ss' = [ss EXCEPT ![p] = RoundStep(ss[p], outcome)]
  BY <1>2 DEF result
<1> HIDE DEF outcome
<1> QED
  BY <1>1, <1>4, <1>5, RoundEffect, ZenonT(30)

(* The last round of GG18. *)
LEMMA Gg18Round4Effect ==
  ASSUME SignInv, NEW p \in Parties, Gg18Round4Combine(p)
  PROVE  SignEffect(p)
<1>1. CanSign(p) /\ UNCHANGED <<scheme, signers>>
  BY DEF Gg18Round4Combine
<1>2. PICK partials, spoiled :
        ss' = [ss EXCEPT
                 ![p] = RoundStep(ss[p],
                          IF ss[p].answered /\ Verifies(p, Plus(partials, Just(p)), spoiled)
                          THEN "complete" ELSE "failed")]
  BY ZenonT(30) DEF Gg18Round4Combine
<1> DEFINE valid == ss[p].answered /\ Verifies(p, Plus(partials, Just(p)), spoiled)
           outcome == IF valid THEN "complete" ELSE "failed"
<1>3. /\ outcome \in {"running", "failed", "complete", "panicked"}
      /\ outcome = "complete" => ss[p].answered /\ Interpolates(p, ss[p].view)
  BY DEF Verifies
<1>4. ss' = [ss EXCEPT ![p] = RoundStep(ss[p], outcome)]
  BY <1>2
<1> HIDE DEF outcome
<1> QED
  BY <1>1, <1>3, <1>4, RoundEffect, ZenonT(30)

(* The last round of CMP20. *)
LEMMA Cmp20Round4Effect ==
  ASSUME SignInv, NEW p \in Parties, Cmp20Round4Combine(p)
  PROVE  SignEffect(p)
<1>1. CanSign(p) /\ UNCHANGED <<scheme, signers>>
  BY DEF Cmp20Round4Combine
<1>2. PICK partials, spoiled :
        ss' = [ss EXCEPT
                 ![p] = [RoundStep(ss[p],
                           IF ss[p].answered /\ Verifies(p, Plus(partials, Just(p)), spoiled)
                           THEN "complete" ELSE "failed")
                         EXCEPT !.blamed =
                           IF \/ ss[p].answered /\ Verifies(p, Plus(partials, Just(p)), spoiled)
                              \/ ~ss[p].answered
                           THEN {}
                           ELSE IdentifyByzantine(p, Plus(partials, Just(p)), spoiled)]]
  BY ZenonT(30) DEF Cmp20Round4Combine
<1> DEFINE valid == ss[p].answered /\ Verifies(p, Plus(partials, Just(p)), spoiled)
           outcome == IF valid THEN "complete" ELSE "failed"
           blamed == IF valid \/ ~ss[p].answered THEN {}
                     ELSE IdentifyByzantine(p, Plus(partials, Just(p)), spoiled)
           step == RoundStep(ss[p], outcome)
           rec == [step EXCEPT !.blamed = blamed]
<1>3. /\ outcome \in {"running", "failed", "complete", "panicked"}
      /\ outcome = "complete" => ss[p].answered /\ Interpolates(p, ss[p].view)
  BY DEF Verifies
<1>4. ss' = [ss EXCEPT ![p] = rec]
  BY <1>2
<1>5. blamed \in SUBSET Parties
  BY DEF IdentifyByzantine, Support
<1>6. ss[p] \in SignRecord /\ ss[p].round \in Nat
  BY DEF SignInv, SignTypeOK, SignRecord
<1> HIDE DEF outcome, blamed
<1>7. /\ step \in SignRecord /\ step.round >= ss[p].round /\ step.status = outcome
      /\ step.view = ss[p].view /\ step.answered = ss[p].answered
  BY <1>3, <1>6, RoundStepEffect
<1> HIDE DEF step
<1>8. /\ rec \in SignRecord /\ rec.round >= ss[p].round /\ rec.status = outcome
      /\ rec.view = ss[p].view /\ rec.answered = ss[p].answered
  BY <1>5, <1>7 DEF SignRecord
<1> HIDE DEF rec
<1> QED
  BY <1>1, <1>3, <1>4, <1>8, CallEffect, ZenonT(30)

(* Every step of signing has one of the three effects. *)
LEMMA StepEffect ==
  ASSUME SignInv, NEW p \in Parties, SignStep(p)
  PROVE  SignEffect(p)
BY Round1Effect, OverflowEffect, FrostRound2Effect, FrostRound3Effect,
   Round2Effect, Round3Effect, Gg18Round4Effect, Cmp20Round4Effect
   DEF SignStep, Gg18Round2Reveal, Cmp20Round2Reveal,
       Gg18Round3Partial, Cmp20Round3Partial

(* The effects preserve the invariant: a view once answered for is never   *)
(* changed, so that a signature stays certified.                           *)
LEMMA EffectPreserves ==
  ASSUME SignInv, NEW p \in Parties, SignEffect(p)
  PROVE  SignInv'
<1>1. SignTypeOK' /\ UNCHANGED <<scheme, signers>> /\ p \in signers /\ Moves(p)
  BY DEF SignEffect
<1>2. \A q \in Parties : q # p => ss'[q] = ss[q] /\ View(q)' = View(q)
  BY <1>1 DEF Moves, View, Support
<1>a. \A q \in Parties : /\ ss[q].answered \in BOOLEAN /\ ss'[q].answered \in BOOLEAN
                         /\ ss[q].round \in Nat /\ ss'[q].round \in Nat
  BY <1>1 DEF SignInv, SignTypeOK, SignRecord
<1>3. \A q \in Parties : ss[q].answered =>
        /\ ss'[q].answered /\ ss'[q].view = ss[q].view /\ View(q)' = View(q)
        /\ ss'[q].round >= ss[q].round
  <2>1. ss[p].answered => /\ ss'[p].answered /\ ss'[p].view = ss[p].view
                          /\ ss'[p].round >= ss[p].round
    BY ZenonT(30) DEF SignEffect, Quiet, Answering, Completing
  <2>2. ss[p].answered => View(p)' = View(p)
    BY <2>1 DEF View, Support
  <2> QED
    BY <1>2, <1>a, <2>1, <2>2
<1>4. \A q \in Parties :
        q \notin signers' => ~ss'[q].answered /\ ss'[q].status = "running"
  BY <1>1, <1>2 DEF SignInv
<1>5. \A q \in Parties : ss'[q].answered =>
        /\ ss'[q].round >= (IF scheme' = "FROST" THEN 2 ELSE 3)
        /\ q \in View(q)'
  <2>1. ASSUME ss'[p].answered
        PROVE  ss'[p].round >= (IF scheme = "FROST" THEN 2 ELSE 3) /\ p \in View(p)'
    <3>1. CASE ss[p].answered
      <4>1. /\ ss[p].round >= (IF scheme = "FROST" THEN 2 ELSE 3)
            /\ p \in View(p)
        BY <3>1 DEF SignInv
      <4> QED
        BY <1>3, <1>a, <3>1, <4>1
    <3>2. CASE ~ss[p].answered
      <4>1. Answering(p)
        BY <2>1, <3>2, ZenonT(30) DEF SignEffect, Quiet, Completing
      <4> QED
        BY <4>1 DEF Answering
    <3> QED
      BY <3>1, <3>2
  <2> QED
    BY <1>1, <1>2, <2>1 DEF SignInv
<1>6. ASSUME NEW q \in Parties, ss'[q].status = "complete"
      PROVE  /\ ss'[q].answered
             /\ Cardinality(View(q)') >= Threshold
             /\ \A r \in View(q)' : ss'[r].answered /\ ss'[r].view = ss'[q].view
  <2>1. /\ ss[q].answered
        /\ Cardinality(View(q)) >= Threshold
        /\ \A r \in View(q) : ss[r].answered /\ ss[r].view = ss[q].view
    <3>1. CASE q = p
      <4>1. Completing(p)
        BY <1>6, <3>1 DEF SignEffect, Quiet, Answering
      <4> QED
        BY <3>1, <4>1 DEF Completing, Interpolates, EnoughShares, View
    <3>2. CASE q # p
      BY <1>2, <1>6, <3>2 DEF SignInv
    <3> QED
      BY <3>1, <3>2
  <2>2. View(q) \subseteq Parties
    BY DEF View, Support
  <2> QED
    BY <1>3, <2>1, <2>2
<1> QED
  BY <1>1, <1>4, <1>5, <1>6 DEF SignInv

(* Initially, and when signing opens, nobody has answered. *)
LEMMA InitSignInv == TcInit => SignInv
<1> SUFFICES ASSUME TcInit PROVE SignInv
  OBVIOUS
<1>1. NewSign \in SignRecord /\ ~NewSign.answered /\ NewSign.status = "running"
  BY DEF NewSign, SignRecord, Nobody
<1>2. signers = {} /\ \A p \in Parties : ss[p] = NewSign
  BY DEF TcInit, SignInit
<1>3. SignTypeOK
  BY <1>1, <1>2 DEF TcInit, SignInit, SignTypeOK
<1> QED
  BY <1>1, <1>2, <1>3 DEF SignInv

(* Every step preserves the invariant. *)
LEMMA NextSignInv == SignInv /\ [TcNext]_tcVars => SignInv'
<1> SUFFICES ASSUME SignInv, [TcNext]_tcVars PROVE SignInv'
  OBVIOUS
<1>1. CASE UNCHANGED <<scheme, signers, ss>>
  BY <1>1 DEF SignInv, SignTypeOK, View, Support
<1>2. ASSUME NEW p \in Parties, KeyGeneration(p)
      PROVE  SignInv'
  <2>1. UNCHANGED <<scheme, signers, ss>>
    BY <1>2 DEF KeyGeneration, signVars, DkgStep, FrostRound1, FrostDkgRound,
        Gg18Round1Deal, Gg18DkgRound, Cmp20DealRound, Cmp20AssembleRound,
        DkgOverflow, netVars
  <2> QED
    BY <1>1, <2>1
<1>3. ASSUME NEW p \in Parties, SignStep(p)
      PROVE  SignInv'
  BY <1>3, StepEffect, EffectPreserves
<1>4. ASSUME NEW S \in SUBSET Parties, OpenSigning(S)
      PROVE  SignInv'
  <2>1. signers = {} /\ signers' = S /\ UNCHANGED <<scheme, ss>>
    BY <1>4, ZenonT(30) DEF OpenSigning, netVars
  <2>2. \A p \in Parties : ~ss[p].answered /\ ss[p].status = "running" /\ View(p)' = View(p)
    BY <2>1, ZenonT(30) DEF SignInv, View, Support
  <2> QED
    BY <2>1, <2>2 DEF SignInv, SignTypeOK
<1>5. CASE UNCHANGED tcVars
  BY <1>1, <1>5 DEF tcVars, netVars, signVars
<1> QED
  BY <1>2, <1>3, <1>4, <1>5 DEF TcNext

(* The invariant of signing holds throughout, for every number of parties, *)
(* threshold, scheme and number of faults.                                 *)
THEOREM SignInvHolds == TcSpec => []SignInv
BY InitSignInv, NextSignInv, PTL DEF TcSpec

(* No nonce goes into two different signatures: parties that hold a        *)
(* signature and share a signer signed with the same set.                  *)
THEOREM NonceUsedOnce == TcSpec => []OneSignaturePerNonce
<1>1. SignInv => OneSignaturePerNonce
  <2> SUFFICES ASSUME SignInv, NEW p \in Parties, NEW q \in Parties,
                      Signed(p), Signed(q), NEW r \in View(p) \cap View(q)
               PROVE  ss[p].view = ss[q].view
    BY DEF OneSignaturePerNonce
  <2>1. ss[p].status = "complete" /\ ss[q].status = "complete"
    BY DEF Signed
  <2>2. ss[r].view = ss[p].view /\ ss[r].view = ss[q].view
    BY <2>1 DEF SignInv
  <2> QED
    BY <2>2
<1> QED
  BY <1>1, SignInvHolds, PTL

(* What Votes and Certs are after a step in which only p moves. *)
LEMMA VotesMove ==
  ASSUME SignInv, NEW p \in Parties, SignEffect(p)
  PROVE  /\ Votes' = [Votes EXCEPT ![p] = IF ss'[p].answered THEN View(p)' ELSE {}]
         /\ Certs' = [Certs EXCEPT
                        ![p] = IF ss'[p].status = "complete" THEN View(p)' ELSE {}]
         /\ Certs[p] = {}
<1>1. /\ UNCHANGED signers /\ p \in signers
      /\ \A q \in Parties : q # p => ss'[q] = ss[q] /\ View(q)' = View(q)
      /\ ss[p].status # "complete"
  BY DEF SignEffect, Moves, View, Support
<1>2. Votes' = [Votes EXCEPT ![p] = IF ss'[p].answered THEN View(p)' ELSE {}]
  BY <1>1, ZenonT(30) DEF Votes
<1>3. Certs' = [Certs EXCEPT
                  ![p] = IF ss'[p].status = "complete" THEN View(p)' ELSE {}]
  BY <1>1, ZenonT(30) DEF Certs, Signed
<1>4. Certs[p] = {}
  BY <1>1 DEF Certs, Signed
<1> QED
  BY <1>2, <1>3, <1>4

(* A call of a signing session is an answer, a certificate or nothing. *)
LEMMA EffectRefines ==
  ASSUME SignInv, NEW p \in Parties, SignEffect(p)
  PROVE  Certificate!CertNext \/ UNCHANGED <<Votes, Certs>>
<1>1. /\ Votes' = [Votes EXCEPT ![p] = IF ss'[p].answered THEN View(p)' ELSE {}]
      /\ Certs' = [Certs EXCEPT
                     ![p] = IF ss'[p].status = "complete" THEN View(p)' ELSE {}]
      /\ Certs[p] = {}
  BY VotesMove
<1>a. /\ Votes[p] = (IF ss[p].answered THEN View(p) ELSE {})
      /\ Votes \in [Parties -> SUBSET Parties] /\ Certs \in [Parties -> SUBSET Parties]
  BY DEF Votes, Certs, View, Support
<1>2. CASE Quiet(p)
  <2>1. ss[p].answered => View(p)' = View(p)
    BY <1>2 DEF Quiet, View, Support
  <2>2. Votes' = Votes
    BY <1>1, <1>2, <1>a, <2>1 DEF Quiet
  <2>3. Certs' = Certs
    BY <1>1, <1>2, <1>a DEF Quiet
  <2> QED
    BY <2>2, <2>3
<1>3. CASE Answering(p)
  <2>1. Votes[p] = {} /\ View(p)' \in SUBSET Parties
    BY <1>3, <1>a DEF Answering, View, Support
  <2>2. Votes' = [Votes EXCEPT ![p] = View(p)']
    BY <1>1, <1>3 DEF Answering
  <2>3. Certs' = Certs
    BY <1>1, <1>3, <1>a DEF Answering
  <2>4. Certificate!Answer(p, View(p)')
    BY <2>1, <2>2, <2>3 DEF Certificate!Answer
  <2> QED
    BY <2>1, <2>4 DEF Certificate!CertNext
<1>4. CASE Completing(p)
  <2>1. View(p)' = View(p) /\ Votes[p] = View(p)
    BY <1>4, <1>a DEF Completing, View, Support
  <2>2. Votes' = Votes
    BY <1>1, <1>4, <1>a, <2>1 DEF Completing
  <2>3. Certs' = [Certs EXCEPT ![p] = Votes[p]]
    BY <1>1, <1>4, <2>1 DEF Completing
  <2>4. /\ Cardinality(View(p)) >= Threshold
        /\ \A q \in View(p) : ss[q].answered /\ ss[q].view = ss[p].view
    BY <1>4 DEF Completing, Interpolates, EnoughShares, View
  <2>5. \A q \in View(p) : Votes[q] = View(p)
    BY <2>4 DEF Votes, View, Support
  <2>6. View(p) \in Coalitions
    BY <2>4 DEF Coalitions, View, Support
  <2>7. Certificate!CertifiedBy(p)
    BY <2>1, <2>5, <2>6 DEF Certificate!CertifiedBy
  <2>8. Certificate!Certify(p)
    BY <1>1, <2>2, <2>3, <2>7, ZenonT(30) DEF Certificate!Certify
  <2> QED
    BY <2>8 DEF Certificate!CertNext
<1> QED
  BY <1>2, <1>3, <1>4 DEF SignEffect

(* A step of the sessions is a step of the abstract certificate, or none. *)
LEMMA StepRefines ==
  SignInv /\ [TcNext]_tcVars => [Certificate!CertNext]_<<Votes, Certs>>
<1> SUFFICES ASSUME SignInv, [TcNext]_tcVars
             PROVE  Certificate!CertNext \/ UNCHANGED <<Votes, Certs>>
  OBVIOUS
<1>1. ASSUME UNCHANGED <<signers, ss>> PROVE UNCHANGED <<Votes, Certs>>
  BY <1>1 DEF Votes, Certs, Signed, View, Support
<1>2. ASSUME NEW p \in Parties, KeyGeneration(p)
      PROVE  UNCHANGED <<Votes, Certs>>
  <2>1. UNCHANGED <<signers, ss>>
    BY <1>2 DEF KeyGeneration, signVars
  <2> QED
    BY <1>1, <2>1
<1>3. ASSUME NEW p \in Parties, SignStep(p)
      PROVE  Certificate!CertNext \/ UNCHANGED <<Votes, Certs>>
  BY <1>3, StepEffect, EffectRefines
<1>4. ASSUME NEW S \in SUBSET Parties, OpenSigning(S)
      PROVE  UNCHANGED <<Votes, Certs>>
  <2>1. signers = {} /\ UNCHANGED ss
    BY <1>4, ZenonT(30) DEF OpenSigning
  <2>2. \A p \in Parties : ss[p].status = "running" /\ View(p)' = View(p)
    BY <2>1, ZenonT(30) DEF SignInv, View, Support
  <2> QED
    BY <2>1, <2>2 DEF Votes, Certs, Signed
<1>5. CASE UNCHANGED tcVars
  BY <1>1, <1>5 DEF tcVars, signVars
<1> QED
  BY <1>2, <1>3, <1>4, <1>5 DEF TcNext

(* Threshold signing implements QuorumCertificate: over any network and    *)
(* with any faults, whoever holds a signature signed it with Threshold     *)
(* parties that had all answered for that very set.                        *)
THEOREM SigningImplementsCertificate == TcSpec => ImplementsCertificate
<1>1. TcInit => Certificate!CertInit
  <2> SUFFICES ASSUME TcInit PROVE Certificate!CertInit
    OBVIOUS
  <2>1. signers = {} /\ \A p \in Parties : ss[p] = NewSign
    BY DEF TcInit, SignInit
  <2>2. Votes = [p \in Parties |-> {}] /\ Certs = [p \in Parties |-> {}]
    BY <2>1 DEF Votes, Certs, Signed, NewSign
  <2> QED
    BY <2>2 DEF Certificate!CertInit
<1> QED
  BY <1>1, StepRefines, SignInvHolds, PTL
     DEF TcSpec, ImplementsCertificate, Certificate!CertSpec

-----------------------------------------------------------------------------
(* What a signing session reports. *)

(* What one call of a signing session may report. *)
Reports(p) ==
  /\ \/ ss'[p].blamed \in {ss[p].blamed, {}}
     \/ ss[p].answered /\ ss'[p].blamed \cap View(p) = {}
  /\ ss'[p].status = "panicked" =>
       ss[p].answered /\ \E q \in signers : ss[q].answered /\ q \notin View(p)

(* A culprit is named, and a panic happens, only after an answer; the      *)
(* culprit is outside the view, and so is whoever caused the panic.        *)
ReportInv ==
  \A p \in Parties :
    /\ ss[p].blamed # {} => ss[p].answered
    /\ ss[p].blamed \cap View(p) = {}
    /\ ss[p].status = "panicked" =>
         ss[p].answered /\ \E q \in signers : ss[q].answered /\ q \notin View(p)

(* A call names nobody by moving the round number on. *)
LEMMA RoundStepReports ==
  ASSUME NEW s \in SignRecord,
         NEW outcome \in {"running", "failed", "complete", "panicked"}
  PROVE  /\ RoundStep(s, outcome) \in SignRecord
         /\ RoundStep(s, outcome).status = outcome
         /\ RoundStep(s, outcome).blamed = s.blamed
<1>1. s.round \in Nat
  BY DEF SignRecord
<1>2. PICK t : t = [s EXCEPT !.round = s.round + 1]
  BY ZenonT(30)
<1>3. t \in SignRecord /\ t.blamed = s.blamed
  BY <1>1, <1>2 DEF SignRecord
<1>4. RoundStep(s, outcome) = [t EXCEPT !.status = outcome]
  BY <1>2 DEF RoundStep
<1>5. [t EXCEPT !.status = outcome].blamed = t.blamed
  BY <1>3 DEF SignRecord
<1> QED
  BY <1>3, <1>4, <1>5, RoundStepEffect

(* The calls that can neither name a culprit nor panic. *)
LEMMA QuietReports ==
  ASSUME SignInv, NEW p \in Parties,
         \/ Round1Commit(p) \/ SignOverflow(p) \/ FrostSignRound2(p)
         \/ Round2Reveal(p) \/ Round3Partial(p) \/ Gg18Round4Combine(p)
  PROVE  Reports(p)
<1>1. /\ ss \in [Parties -> SignRecord] /\ ss[p] \in SignRecord
  BY DEF SignInv, SignTypeOK
<1>2. ASSUME NEW outcome \in {"running", "failed", "complete"},
             ss' = [ss EXCEPT ![p] = RoundStep(ss[p], outcome)]
      PROVE  Reports(p)
  <2>1. ss'[p] = RoundStep(ss[p], outcome)
    BY <1>1, <1>2
  <2>2. ss'[p].blamed = ss[p].blamed /\ ss'[p].status = outcome
    BY <1>1, <2>1, RoundStepReports
  <2> QED
    BY <2>2 DEF Reports
<1>3. CASE Round1Commit(p)
  BY <1>2, <1>3 DEF Round1Commit
<1>4. CASE SignOverflow(p)
  <2>1. ss'[p] = [ss[p] EXCEPT !.status = "failed"]
    BY <1>1, <1>4 DEF SignOverflow
  <2>2. ss'[p].blamed = ss[p].blamed /\ ss'[p].status = "failed"
    BY <1>1, <2>1 DEF SignRecord
  <2> QED
    BY <2>2 DEF Reports
<1>5. CASE FrostSignRound2(p)
  <2>1. PICK commits :
          ss' = [ss EXCEPT
                   ![p] = [RoundStep(ss[p], IF Size(Plus(commits, Just(p))) >= Threshold
                                            THEN "running" ELSE "failed")
                             EXCEPT !.view = Plus(commits, Just(p)),
                                    !.answered = (Size(Plus(commits, Just(p))) >= Threshold)]]
    BY <1>5, ZenonT(30) DEF FrostSignRound2
  <2>2. PICK outcome : outcome = IF Size(Plus(commits, Just(p))) >= Threshold
                                 THEN "running" ELSE "failed"
    OBVIOUS
  <2>3. PICK step : step = RoundStep(ss[p], outcome)
    OBVIOUS
  <2>4. /\ step \in SignRecord /\ step.status = outcome /\ step.blamed = ss[p].blamed
        /\ outcome # "panicked"
    BY <1>1, <2>2, <2>3, RoundStepReports
  <2>5. ss'[p] = [step EXCEPT !.view = Plus(commits, Just(p)),
                              !.answered = (Size(Plus(commits, Just(p))) >= Threshold)]
    BY <1>1, <2>1, <2>2, <2>3
  <2>6. ss'[p].blamed = ss[p].blamed /\ ss'[p].status = outcome
    BY <2>4, <2>5 DEF SignRecord
  <2> QED
    BY <2>4, <2>6 DEF Reports
<1>6. CASE Round2Reveal(p)
  <2>1. PICK points : ss' = [ss EXCEPT ![p] = [RoundStep(ss[p], "running")
                                                 EXCEPT !.points = points]]
    BY <1>6, ZenonT(30) DEF Round2Reveal
  <2>2. PICK step : step = RoundStep(ss[p], "running")
    OBVIOUS
  <2>3. step \in SignRecord /\ step.status = "running" /\ step.blamed = ss[p].blamed
    BY <1>1, <2>2, RoundStepReports
  <2>4. ss'[p] = [step EXCEPT !.points = points]
    BY <1>1, <2>1, <2>2
  <2>5. ss'[p].blamed = ss[p].blamed /\ ss'[p].status = "running"
    BY <2>3, <2>4 DEF SignRecord
  <2> QED
    BY <2>5 DEF Reports
<1>7. CASE Round3Partial(p)
  <2>1. PICK reveals :
          ss' = [ss EXCEPT
                   ![p] = [RoundStep(ss[p], IF Support(reveals) \subseteq ss[p].points
                                            THEN "running" ELSE "failed")
                             EXCEPT !.view = IF Support(reveals) \subseteq ss[p].points
                                             THEN Plus(reveals, Just(p)) ELSE Nobody,
                                    !.answered = (Support(reveals) \subseteq ss[p].points),
                                    !.points = {}]]
    BY <1>7, ZenonT(30) DEF Round3Partial
  <2>2. PICK outcome : outcome = IF Support(reveals) \subseteq ss[p].points
                                 THEN "running" ELSE "failed"
    OBVIOUS
  <2>3. PICK step : step = RoundStep(ss[p], outcome)
    OBVIOUS
  <2>4. /\ step \in SignRecord /\ step.status = outcome /\ step.blamed = ss[p].blamed
        /\ outcome # "panicked"
    BY <1>1, <2>2, <2>3, RoundStepReports
  <2>5. ss'[p] = [step EXCEPT !.view = IF Support(reveals) \subseteq ss[p].points
                                       THEN Plus(reveals, Just(p)) ELSE Nobody,
                              !.answered = (Support(reveals) \subseteq ss[p].points),
                              !.points = {}]
    BY <1>1, <2>1, <2>2, <2>3
  <2>6. ss'[p].blamed = ss[p].blamed /\ ss'[p].status = outcome
    BY <2>4, <2>5 DEF SignRecord
  <2> QED
    BY <2>4, <2>6 DEF Reports
<1>8. CASE Gg18Round4Combine(p)
  <2>1. PICK outcome \in {"complete", "failed"} :
          ss' = [ss EXCEPT ![p] = RoundStep(ss[p], outcome)]
    BY <1>8, ZenonT(30) DEF Gg18Round4Combine
  <2> QED
    BY <1>2, <2>1, ZenonT(30)
<1> QED
  BY <1>3, <1>4, <1>5, <1>6, <1>7, <1>8

(* What comes in was posted. *)
LEMMA IncomingPosted ==
  ASSUME NEW p \in Parties, NEW r, NEW own, NEW copies \in Incoming(p, r, own)
  PROVE  Support(copies) \subseteq Posted(r)
<1>1. Support(OneEach(Posted(r) \ {p})) \subseteq Posted(r)
  BY DEF Support, OneEach
<1> QED
  BY <1>1 DEF Incoming, Arrivals

(* FROST panics over an answer whose commitment never came. *)
LEMMA FrostReports ==
  ASSUME SignInv, NEW p \in Parties, FrostSignRound3(p)
  PROVE  Reports(p)
<1>1. /\ ss \in [Parties -> SignRecord] /\ ss[p] \in SignRecord
  BY DEF SignInv, SignTypeOK
<1>2. PICK responses \in Incoming(p, "answer", TRUE) : \E spoiled :
        ss' = [ss EXCEPT
                 ![p] = RoundStep(ss[p],
                          IF ss[p].answered
                          THEN FrostRound3Outcome(p, Plus(responses, Just(p)), spoiled)
                          ELSE "failed")]
  BY ZenonT(30) DEF FrostSignRound3
<1>3. PICK spoiled :
        ss' = [ss EXCEPT
                 ![p] = RoundStep(ss[p],
                          IF ss[p].answered
                          THEN FrostRound3Outcome(p, Plus(responses, Just(p)), spoiled)
                          ELSE "failed")]
  BY <1>2, ZenonT(30)
<1>4. PICK outcome : outcome = IF ss[p].answered
                               THEN FrostRound3Outcome(p, Plus(responses, Just(p)), spoiled)
                               ELSE "failed"
  OBVIOUS
<1>5. outcome \in {"running", "failed", "complete", "panicked"}
  BY <1>4 DEF FrostRound3Outcome
<1>6. ss'[p] = RoundStep(ss[p], outcome)
  BY <1>1, <1>3, <1>4
<1>7. ss'[p].blamed = ss[p].blamed /\ ss'[p].status = outcome
  BY <1>1, <1>5, <1>6, RoundStepReports
<1>8. ASSUME outcome = "panicked"
      PROVE  ss[p].answered /\ \E q \in signers : ss[q].answered /\ q \notin View(p)
  <2>1. ss[p].answered
    BY <1>4, <1>8
  <2>2. ~(Support(Plus(responses, Just(p))) \subseteq View(p))
    BY <1>4, <1>8, <2>1 DEF FrostRound3Outcome, View
  <2>3. PICK q \in Support(Plus(responses, Just(p))) : q \notin View(p)
    BY <2>2
  <2>4. p \in View(p)
    BY <2>1 DEF SignInv
  <2>5. q \in Parties /\ q # p /\ Plus(responses, Just(p))[q] > 0
    BY <2>3, <2>4 DEF Support
  <2>6. responses \in [Parties -> Nat]
    BY IncomingType, ZenonT(30)
  <2>7. Just(p)[q] = 0
    BY <2>5 DEF Just, Nobody
  <2>8. q \in Support(responses)
    BY <2>5, <2>6, <2>7 DEF Plus, Support
  <2>9. q \in Posted("answer")
    BY <2>8, IncomingPosted, ZenonT(30)
  <2>10. q \in signers /\ ss[q].answered
    BY <2>9 DEF Posted
  <2> QED
    BY <2>1, <2>3, <2>10
<1> QED
  BY <1>7, <1>8 DEF Reports

(* The search of CMP20 finds only who is not in the view. *)
LEMMA OutsidersFound ==
  ASSUME SignInv, NEW p \in Parties, NEW answers \in [Parties -> Nat], NEW spoiled
  PROVE  IdentifyByzantine(p, answers, spoiled) \cap View(p) = {}
<1> SUFFICES ASSUME NEW q \in IdentifyByzantine(p, answers, spoiled), q \in View(p)
             PROVE  FALSE
  OBVIOUS
<1>1. q \in Parties /\ [answers EXCEPT ![q] = 0] = ss[p].view
  BY DEF IdentifyByzantine, Verifies, Support
<1>2. ss[p].view[q] = 0
  BY <1>1, ZenonT(30)
<1>3. ss[p].view[q] > 0
  BY DEF View, Support
<1> QED
  BY <1>2, <1>3

(* CMP20 names a culprit only when its own partial is among those summed. *)
LEMMA Cmp20Reports ==
  ASSUME SignInv, NEW p \in Parties, Cmp20Round4Combine(p)
  PROVE  Reports(p)
<1>1. /\ ss \in [Parties -> SignRecord] /\ ss[p] \in SignRecord
  BY DEF SignInv, SignTypeOK
<1>2. PICK partials \in Incoming(p, "answer", TRUE) : \E spoiled :
        ss' = [ss EXCEPT
                 ![p] = [RoundStep(ss[p],
                           IF ss[p].answered /\ Verifies(p, Plus(partials, Just(p)), spoiled)
                           THEN "complete" ELSE "failed")
                         EXCEPT !.blamed =
                           IF \/ ss[p].answered /\ Verifies(p, Plus(partials, Just(p)), spoiled)
                              \/ ~ss[p].answered
                           THEN {}
                           ELSE IdentifyByzantine(p, Plus(partials, Just(p)), spoiled)]]
  BY ZenonT(30) DEF Cmp20Round4Combine
<1>a. PICK spoiled :
        ss' = [ss EXCEPT
                 ![p] = [RoundStep(ss[p],
                           IF ss[p].answered /\ Verifies(p, Plus(partials, Just(p)), spoiled)
                           THEN "complete" ELSE "failed")
                         EXCEPT !.blamed =
                           IF \/ ss[p].answered /\ Verifies(p, Plus(partials, Just(p)), spoiled)
                              \/ ~ss[p].answered
                           THEN {}
                           ELSE IdentifyByzantine(p, Plus(partials, Just(p)), spoiled)]]
  BY <1>2, ZenonT(30)
<1>b. PICK outcome :
        outcome = IF ss[p].answered /\ Verifies(p, Plus(partials, Just(p)), spoiled)
                  THEN "complete" ELSE "failed"
  OBVIOUS
<1>c. PICK blamed :
        blamed = IF \/ ss[p].answered /\ Verifies(p, Plus(partials, Just(p)), spoiled)
                    \/ ~ss[p].answered
                 THEN {}
                 ELSE IdentifyByzantine(p, Plus(partials, Just(p)), spoiled)
  BY ZenonT(30)
<1>3. /\ outcome \in {"complete", "failed"}
      /\ ss' = [ss EXCEPT ![p] = [RoundStep(ss[p], outcome) EXCEPT !.blamed = blamed]]
      /\ \/ blamed = {}
         \/ /\ ss[p].answered
            /\ blamed = IdentifyByzantine(p, Plus(partials, Just(p)), spoiled)
  BY <1>a, <1>b, <1>c
<1>4. PICK step : step = RoundStep(ss[p], outcome)
  OBVIOUS
<1>5. step \in SignRecord /\ step.status = outcome
  BY <1>1, <1>3, <1>4, RoundStepReports
<1>6. ss'[p] = [step EXCEPT !.blamed = blamed]
  BY <1>1, <1>3, <1>4
<1>7. ss'[p].blamed = blamed /\ ss'[p].status = outcome
  BY <1>5, <1>6 DEF SignRecord
<1>8. Plus(partials, Just(p)) \in [Parties -> Nat]
  BY IncomingType, PlusJust, ZenonT(30)
<1>9. blamed \cap View(p) = {}
  BY <1>3, <1>8, OutsidersFound
<1> QED
  BY <1>3, <1>7, <1>9 DEF Reports

(* Every call of a signing session reports as it should. *)
LEMMA StepReports ==
  ASSUME SignInv, NEW p \in Parties, SignStep(p)
  PROVE  Reports(p)
BY QuietReports, FrostReports, Cmp20Reports
   DEF SignStep, Gg18Round2Reveal, Cmp20Round2Reveal,
       Gg18Round3Partial, Cmp20Round3Partial

(* A report stays right: what was answered over is never changed. *)
LEMMA ReportsStay ==
  ASSUME SignInv, ReportInv, NEW p \in Parties, SignEffect(p), Reports(p)
  PROVE  ReportInv'
<1>1. SignTypeOK' /\ UNCHANGED signers /\ signers \subseteq Parties /\ Moves(p)
  BY DEF SignEffect, SignInv, SignTypeOK
<1>2. \A q \in Parties : q # p => ss'[q] = ss[q] /\ View(q)' = View(q)
  BY <1>1 DEF Moves, View, Support
<1>3. /\ ss[p].answered \in BOOLEAN /\ ss'[p].answered \in BOOLEAN
      /\ ss[p].answered => ss'[p].answered /\ ss'[p].view = ss[p].view
  BY <1>1 DEF SignInv, SignTypeOK, SignRecord, SignEffect, Quiet, Answering, Completing
<1>4. ss[p].answered => View(p)' = View(p)
  BY <1>3 DEF View, Support
<1>5. \A q \in Parties : ss[q].answered => ss'[q].answered
  BY <1>2, <1>3
<1>6. ss'[p].blamed # {} => ss'[p].answered /\ ss'[p].blamed \cap View(p)' = {}
  BY <1>3, <1>4 DEF Reports, ReportInv
<1>7. ss'[p].status = "panicked" =>
        ss'[p].answered /\ \E q \in signers : ss'[q].answered /\ q \notin View(p)'
  BY <1>1, <1>3, <1>4, <1>5 DEF Reports
<1>8. ASSUME NEW q \in Parties, q # p, ss'[q].status = "panicked"
      PROVE  ss'[q].answered /\ \E r \in signers : ss'[r].answered /\ r \notin View(q)'
  BY <1>1, <1>2, <1>5, <1>8 DEF ReportInv
<1>9. ASSUME NEW q \in Parties, q # p
      PROVE  (ss'[q].blamed # {} => ss'[q].answered) /\ ss'[q].blamed \cap View(q)' = {}
  BY <1>2, <1>9 DEF ReportInv
<1> QED
  BY <1>1, <1>6, <1>7, <1>8, <1>9 DEF ReportInv

(* Every step preserves it. *)
LEMMA NextReportInv == SignInv /\ ReportInv /\ [TcNext]_tcVars => ReportInv'
<1> SUFFICES ASSUME SignInv, ReportInv, [TcNext]_tcVars PROVE ReportInv'
  OBVIOUS
<1>1. CASE UNCHANGED <<signers, ss>>
  BY <1>1 DEF ReportInv, View, Support
<1>2. ASSUME NEW p \in Parties, KeyGeneration(p)
      PROVE  ReportInv'
  BY <1>1, <1>2 DEF KeyGeneration, signVars
<1>3. ASSUME NEW p \in Parties, SignStep(p)
      PROVE  ReportInv'
  BY <1>3, StepEffect, StepReports, ReportsStay
<1>4. ASSUME NEW S \in SUBSET Parties, OpenSigning(S)
      PROVE  ReportInv'
  <2>1. signers = {} /\ UNCHANGED ss
    BY <1>4, ZenonT(30) DEF OpenSigning
  <2>2. \A p \in Parties : ss[p].status = "running" /\ View(p)' = View(p)
    BY <2>1, ZenonT(30) DEF SignInv, View, Support
  <2> QED
    BY <2>1, <2>2 DEF ReportInv
<1>5. CASE UNCHANGED tcVars
  BY <1>1, <1>5 DEF tcVars, signVars
<1> QED
  BY <1>2, <1>3, <1>4, <1>5 DEF TcNext

(* What a signing session returns can be relied on, for every number of    *)
(* parties, threshold and number of faults: no nonce goes into two         *)
(* signatures, the identifiable abort of CMP20 never names a member of the *)
(* view, and FROST panics only over an answer whose commitment never came. *)
THEOREM SigningSound == TcSpec => []SigningIsSound
<1>1. TcInit => ReportInv
  <2> SUFFICES ASSUME TcInit PROVE ReportInv
    OBVIOUS
  <2>1. \A p \in Parties : ss[p].blamed = {} /\ ss[p].status = "running"
    BY DEF TcInit, SignInit, NewSign
  <2> QED
    BY <2>1 DEF ReportInv
<1>2. ReportInv => OnlyOutsidersIdentified /\ PanicNeedsMissedCommitment
  BY DEF ReportInv, OnlyOutsidersIdentified, PanicNeedsMissedCommitment
<1> QED
  BY <1>1, <1>2, NextReportInv, SignInvHolds, NonceUsedOnce, PTL DEF TcSpec, SigningIsSound

-----------------------------------------------------------------------------
(* Key generation. *)

(* The bags that a session of party p sums over at its end. *)
FrostShare(p, s) ==
  Plus(Just(p), [q \in Parties |-> IF q \in Byzantine(s) THEN 0 ELSE s.frags[q]])
FrostKey(p, s) == Plus(Just(p), OneEach(KeyDealers(s)))

(* The state of one party's key generation. *)
DkgRecord ==
  [round : Nat, status : {"running", "failed", "complete"},
   seen : [Parties -> Nat], frags : [Parties -> Nat], spoiled : SUBSET Parties,
   share : [Parties -> Nat], key : [Parties -> Nat]]

(* How the share and the key of a session that completed came about. *)
Assembled(p, s) ==
  /\ s.frags[p] = 0
  /\ scheme = "FROST" => /\ s.share = FrostShare(p, s)
                         /\ s.key = FrostKey(p, s)
                         /\ Contributing(s) >= Threshold
  /\ scheme # "FROST" => /\ s.share = Plus(s.frags, Just(p))
                         /\ s.key = WithOwn(p, s.seen)
                         /\ Support(s.share) \subseteq Support(s.key)
                         /\ Cardinality(Support(s.share)) >= Threshold

(* Every fresh key was assembled from what its session received. *)
DkgInv ==
  /\ dealt \in [Parties -> Nat]
  /\ dkg \in [Parties -> DkgRecord]
  /\ \A p \in Parties : Fresh(p) => Assembled(p, dkg[p])

-----------------------------------------------------------------------------
(* What is in flight for a party is a bag without its own deal. *)
LEMMA InFlightType ==
  ASSUME DkgInv, NEW p \in Parties, NEW given \in [Parties -> Nat]
  PROVE  InFlight(p, given) \in [Parties -> Nat] /\ InFlight(p, given)[p] = 0
<1>1. ASSUME NEW q \in Parties, ~(dealt[q] < given[q])
      PROVE  dealt[q] - given[q] \in Nat
  <2>1. PICK d, g \in Nat : d = dealt[q] /\ g = given[q]
    BY DEF DkgInv
  <2> QED
    BY <1>1, <2>1
<1> QED
  BY <1>1 DEF InFlight

(* The messages of one call. *)
LEMMA ReceivedTypes ==
  ASSUME DkgInv, NEW p \in Parties, NEW b1, NEW b2,
         NEW seen \in Arrivals(InFlight(p, dkg[p].seen), Support(dealt), b1),
         NEW frags \in Arrivals(InFlight(p, dkg[p].frags), Support(dealt) \ {p}, b2)
  PROVE  /\ seen \in [Parties -> Nat] /\ frags \in [Parties -> Nat]
         /\ frags[p] = 0
<1>1. dkg[p].seen \in [Parties -> Nat] /\ dkg[p].frags \in [Parties -> Nat]
  BY DEF DkgInv, DkgRecord
<1>2. seen \in [Parties -> Nat]
  BY <1>1, InFlightType, ArrivalsType
<1>3. PICK flight : flight = InFlight(p, dkg[p].frags)
  OBVIOUS
<1>4. flight \in [Parties -> Nat] /\ flight[p] = 0
  BY <1>1, <1>3, InFlightType
<1>5. frags \in [Parties -> Nat]
  BY <1>3, <1>4, ArrivalsType
<1>6. CASE frags = flight
  BY <1>4, <1>6, <1>2
<1>7. CASE Support(frags) \subseteq Support(dealt) \ {p}
  <2>1. ~(frags[p] > 0)
    BY <1>7 DEF Support
  <2> QED
    BY <1>2, <1>5, <2>1
<1> QED
  BY <1>3, <1>6, <1>7 DEF Arrivals

(* The spoiled messages are of parties. *)
LEMMA SpoilsType ==
  ASSUME NEW copies, NEW budget, NEW spoiled \in Spoils(copies, budget)
  PROVE  spoiled \in SUBSET Parties
BY DEF Spoils, Support

(* A session with what came in kept, and its record moved on or finished. *)
LEMMA KeepType ==
  ASSUME NEW s \in DkgRecord, NEW seen \in [Parties -> Nat],
         NEW frags \in [Parties -> Nat], NEW spoiled \in SUBSET Parties
  PROVE  /\ Keep(s, seen, frags, spoiled) \in DkgRecord
         /\ Keep(s, seen, frags, spoiled).seen = seen
         /\ Keep(s, seen, frags, spoiled).frags = frags
         /\ Keep(s, seen, frags, spoiled).spoiled = spoiled
BY ZenonT(30) DEF Keep, DkgRecord

(* A session that goes on to its next round keeps what it received. *)
LEMMA StepType ==
  ASSUME NEW s \in DkgRecord, NEW outcome \in {"running", "failed", "complete"}
  PROVE  /\ RoundStep(s, outcome) \in DkgRecord
         /\ RoundStep(s, outcome).status = outcome
         /\ RoundStep(s, outcome).seen = s.seen
         /\ RoundStep(s, outcome).frags = s.frags
         /\ RoundStep(s, outcome).spoiled = s.spoiled
<1>1. s.round \in Nat
  BY DEF DkgRecord
<1>2. PICK t : t = [s EXCEPT !.round = s.round + 1]
  BY ZenonT(30)
<1>3. t \in DkgRecord /\ t.seen = s.seen /\ t.frags = s.frags /\ t.spoiled = s.spoiled
  BY <1>1, <1>2 DEF DkgRecord
<1>4. RoundStep(s, outcome) = [t EXCEPT !.status = outcome]
  BY <1>2 DEF RoundStep
<1>5. PICK u : u = [t EXCEPT !.status = outcome]
  BY ZenonT(30)
<1>6. /\ u \in DkgRecord /\ u.status = outcome
      /\ u.seen = t.seen /\ u.frags = t.frags /\ u.spoiled = t.spoiled
  BY <1>3, <1>5 DEF DkgRecord
<1> QED
  BY <1>3, <1>4, <1>5, <1>6

(* A session that finishes has the share and the key it finished with. *)
LEMMA FinishType ==
  ASSUME NEW s \in DkgRecord, NEW share \in [Parties -> Nat], NEW key \in [Parties -> Nat]
  PROVE  /\ Finish(s, share, key) \in DkgRecord
         /\ Finish(s, share, key).seen = s.seen
         /\ Finish(s, share, key).frags = s.frags
         /\ Finish(s, share, key).spoiled = s.spoiled
         /\ Finish(s, share, key).share = share
         /\ Finish(s, share, key).key = key
<1>1. PICK t : t = RoundStep(s, "complete")
  OBVIOUS
<1>2. t \in DkgRecord /\ t.seen = s.seen /\ t.frags = s.frags /\ t.spoiled = s.spoiled
  BY <1>1, StepType
<1>3. Finish(s, share, key) = [t EXCEPT !.share = share, !.key = key]
  BY <1>1 DEF Finish
<1> QED
  BY <1>2, <1>3, ZenonT(30) DEF DkgRecord

(* The bags of a session are bags. *)
LEMMA BagTypes ==
  ASSUME NEW p \in Parties, NEW s \in DkgRecord
  PROVE  /\ FrostShare(p, s) \in [Parties -> Nat]
         /\ FrostKey(p, s) \in [Parties -> Nat]
         /\ Plus(s.frags, Just(p)) \in [Parties -> Nat]
         /\ WithOwn(p, s.seen) \in [Parties -> Nat]
<1>1. Just(p) \in [Parties -> Nat]
  BY DEF Just, Nobody
<1>2. s.frags \in [Parties -> Nat] /\ s.seen \in [Parties -> Nat]
  BY DEF DkgRecord
<1>3. \A a, b \in [Parties -> Nat] : Plus(a, b) \in [Parties -> Nat]
  BY DEF Plus
<1>4. OneEach(KeyDealers(s)) \in [Parties -> Nat]
  BY DEF OneEach
<1>5. [q \in Parties |-> IF q \in Byzantine(s) THEN 0 ELSE s.frags[q]] \in [Parties -> Nat]
  BY <1>2
<1> QED
  BY <1>1, <1>2, <1>3, <1>4, <1>5 DEF FrostShare, FrostKey, WithOwn

(* What the end of a key generation looks at is what came in. *)
LEMMA SameMessages ==
  ASSUME NEW p, NEW s, NEW t,
         s.seen = t.seen, s.frags = t.frags, s.spoiled = t.spoiled
  PROVE  /\ Byzantine(s) = Byzantine(t) /\ Contributing(s) = Contributing(t)
         /\ FrostShare(p, s) = FrostShare(p, t) /\ FrostKey(p, s) = FrostKey(p, t)
<1>1. Byzantine(s) = Byzantine(t)
  BY DEF Byzantine
<1>2. Contributing(s) = Contributing(t)
  BY <1>1 DEF Contributing, Rejected
<1> QED
  BY <1>1, <1>2 DEF FrostShare, FrostKey, KeyDealers

(* DkgSession::round2. *)
LEMMA FrostAssembles ==
  ASSUME NEW p \in Parties, NEW s \in DkgRecord, s.frags[p] = 0, scheme = "FROST",
         Contributing(s) \in Int
  PROVE  /\ FrostRound2(p, s) \in DkgRecord
         /\ FrostRound2(p, s).status = "complete" => Assembled(p, FrostRound2(p, s))
<1>1. CASE Contributing(s) < Threshold
  <2>1. FrostRound2(p, s) = RoundStep(s, "failed")
    BY <1>1 DEF FrostRound2
  <2> QED
    BY <2>1, StepType
<1>2. CASE ~(Contributing(s) < Threshold)
  <2>0. PICK share, key : share = FrostShare(p, s) /\ key = FrostKey(p, s)
    OBVIOUS
  <2>1. PICK t : t = Finish(s, share, key)
    OBVIOUS
  <2>2. FrostRound2(p, s) = t
    BY <1>2, <2>0, <2>1 DEF FrostRound2, FrostShare, FrostKey
  <2>3. /\ t \in DkgRecord /\ t.seen = s.seen /\ t.frags = s.frags /\ t.spoiled = s.spoiled
        /\ t.share = FrostShare(p, s) /\ t.key = FrostKey(p, s)
    <3>1. share \in [Parties -> Nat] /\ key \in [Parties -> Nat]
      BY <2>0, BagTypes
    <3>2. /\ t \in DkgRecord /\ t.seen = s.seen /\ t.frags = s.frags /\ t.spoiled = s.spoiled
          /\ t.share = share /\ t.key = key
      BY <2>1, <3>1, FinishType
    <3> QED
      BY <2>0, <3>2
  <2>4. Contributing(s) >= Threshold
    BY <1>2, TcAssumption
  <2>5. /\ t.share = FrostShare(p, t) /\ t.key = FrostKey(p, t)
        /\ Contributing(t) >= Threshold
    BY <2>3, <2>4, SameMessages
  <2> QED
    BY <2>2, <2>3, <2>5 DEF Assembled
<1> QED
  BY <1>1, <1>2

(* round2_assemble and the second half of round1_deal_and_assemble. *)
LEMMA OthersAssemble ==
  ASSUME NEW p \in Parties, NEW s \in DkgRecord, s.frags[p] = 0, scheme # "FROST",
         NEW t, t = Assemble(p, s, Plus(s.frags, Just(p)), WithOwn(p, s.seen))
  PROVE  /\ t \in DkgRecord /\ (t.status = "complete" => Assembled(p, t))
<1>1. PICK evaluations, commitments :
        evaluations = Plus(s.frags, Just(p)) /\ commitments = WithOwn(p, s.seen)
  OBVIOUS
<1>2. evaluations \in [Parties -> Nat] /\ commitments \in [Parties -> Nat]
  BY <1>1, BagTypes
<1>3. t = Assemble(p, s, evaluations, commitments)
  BY <1>1
<1>4. CASE t = RoundStep(s, "failed")
  BY <1>4, StepType
<1>5. CASE /\ t = Finish(s, evaluations, commitments)
           /\ Support(evaluations) \subseteq Support(commitments)
           /\ ~(Cardinality(Support(evaluations)) < Threshold)
  <2>1. /\ t \in DkgRecord /\ t.seen = s.seen /\ t.frags = s.frags
        /\ t.share = evaluations /\ t.key = commitments
    BY <1>2, <1>5, FinishType
  <2>2. IsFiniteSet(Support(evaluations))
    <3>1. IsFiniteSet(Parties)
      BY TcAssumption, FS_Interval DEF Parties
    <3> QED
      BY <3>1, FS_Subset DEF Support
  <2>3. PICK n \in Nat : n = Cardinality(Support(evaluations))
    BY <2>2, FS_CardinalityType
  <2>4. n >= Threshold
    BY <1>5, <2>3, TcAssumption
  <2> QED
    BY <1>1, <1>5, <2>1, <2>3, <2>4 DEF Assembled
<1> QED
  BY <1>3, <1>4, <1>5 DEF Assemble

(* Every dealer that FROST leaves out has an evaluation that is rejected. *)
LEMMA RejectedCount ==
  ASSUME NEW s \in DkgRecord
  PROVE  /\ IsFiniteSet(Support(s.seen)) /\ IsFiniteSet(Byzantine(s))
         /\ Cardinality(Support(s.seen)) \in Nat /\ Cardinality(Byzantine(s)) \in Nat
         /\ Cardinality(Rejected(s)) \in Nat /\ Contributing(s) \in Int
         /\ Cardinality(Byzantine(s)) <= Cardinality(Rejected(s))
<1>1. IsFiniteSet(Parties)
  BY TcAssumption, FS_Interval DEF Parties
<1>2. Support(s.seen) \in SUBSET Parties /\ Byzantine(s) \in SUBSET Parties
  BY DEF Support, Byzantine
<1>3. IsFiniteSet(Support(s.seen)) /\ IsFiniteSet(Byzantine(s))
  BY <1>1, <1>2, FS_Subset
<1>4. PICK B : B = Byzantine(s)
  OBVIOUS
<1>5. \A q \in B : s.frags[q] \in Nat /\ s.frags[q] >= 1
  <2>1. s.frags \in [Parties -> Nat]
    BY DEF DkgRecord
  <2> QED
    BY <1>4, <2>1 DEF Byzantine, Support
<1>6. PICK f : f = [q \in B |-> {q} \X (1 .. s.frags[q])]
  BY ZenonT(30)
<1>7. PICK F : F = {{q} \X (1 .. s.frags[q]) : q \in B}
  BY ZenonT(30)
<1>8. f \in Surjection(B, F)
  BY <1>6, <1>7, ZenonT(30) DEF Surjection
<1>9. IsFiniteSet(F)
  BY <1>3, <1>4, <1>8, FS_Surjection
<1>10. \A T \in F : IsFiniteSet(T)
  <2> SUFFICES ASSUME NEW q \in B
               PROVE  IsFiniteSet({q} \X (1 .. s.frags[q]))
    BY <1>7
  <2>1. IsFiniteSet({q})
    BY FS_Singleton, ZenonT(30)
  <2>2. IsFiniteSet(1 .. s.frags[q])
    BY <1>5, FS_Interval
  <2> QED
    BY <2>1, <2>2, FS_Product, ZenonT(30)
<1>11. IsFiniteSet(UNION F)
  BY <1>9, <1>10, FS_UNION
<1>12. Rejected(s) = UNION F
  BY <1>4, <1>7 DEF Rejected
<1>13. PICK g : g = [q \in B |-> <<q, 1>>]
  BY ZenonT(30)
<1>14. g \in Injection(B, UNION F)
  <2>1. ASSUME NEW q \in B PROVE <<q, 1>> \in UNION F
    <3>1. 1 \in 1 .. s.frags[q]
      BY <1>5
    <3>2. <<q, 1>> \in {q} \X (1 .. s.frags[q])
      BY <3>1
    <3>3. {q} \X (1 .. s.frags[q]) \in F
      BY <1>7
    <3> QED
      BY <3>2, <3>3
  <2>2. \A q, r \in B : <<q, 1>> = <<r, 1>> => q = r
    OBVIOUS
  <2> QED
    BY <1>13, <2>1, <2>2 DEF Injection, IsInjective
<1>15. Cardinality(B) <= Cardinality(UNION F)
  BY <1>11, <1>14, FS_Injection
<1>16. /\ Cardinality(Support(s.seen)) \in Nat /\ Cardinality(Byzantine(s)) \in Nat
       /\ Cardinality(Rejected(s)) \in Nat
  BY <1>3, <1>11, <1>12, FS_CardinalityType
<1>17. Contributing(s) \in Int
  BY <1>16 DEF Contributing
<1> QED
  BY <1>3, <1>4, <1>12, <1>15, <1>16, <1>17

-----------------------------------------------------------------------------
(* The session of p changes to t, the others stay. *)
LEMMA DkgMoves ==
  ASSUME DkgInv, NEW p \in Parties, NEW t \in DkgRecord,
         t.status = "complete" => Assembled(p, t),
         dkg' = [dkg EXCEPT ![p] = t], scheme' = scheme, dealt' \in [Parties -> Nat]
  PROVE  DkgInv'
<1>1. /\ dkg' \in [Parties -> DkgRecord] /\ dkg'[p] = t
      /\ \A q \in Parties : q # p => dkg'[q] = dkg[q]
  BY DEF DkgInv
<1>2. ASSUME NEW q \in Parties, Fresh(q)'
      PROVE  Assembled(q, dkg[q])'
  <2>1. PICK s : s = dkg'[q]
    OBVIOUS
  <2>2. s.status = "complete" /\ s.round > 0
    BY <1>2, <2>1 DEF Fresh, DkgComplete
  <2>3. Assembled(q, s)
    <3>1. CASE q = p
      BY <1>1, <2>1, <2>2, <3>1
    <3>2. CASE q # p
      <4>1. s = dkg[q]
        BY <1>1, <2>1, <3>2
      <4> QED
        BY <2>2, <4>1 DEF DkgInv, Fresh, DkgComplete
    <3> QED
      BY <3>1, <3>2
  <2>4. (scheme = "FROST" <=> scheme' = "FROST")
    OBVIOUS
  <2> QED
    BY <2>1, <2>3, <2>4 DEF Assembled
<1> QED
  BY <1>1, <1>2 DEF DkgInv

(* Every call of a key generation session keeps the invariant. *)
LEMMA DkgCallKeeps ==
  ASSUME DkgInv, NEW p \in Parties, DkgStep(p)
  PROVE  DkgInv'
<1>1. dkg[p] \in DkgRecord /\ dealt \in [Parties -> Nat] /\ dkg \in [Parties -> DkgRecord]
  BY DEF DkgInv
<1>2. \A n \in Nat : [dealt EXCEPT ![p] = n] \in [Parties -> Nat]
  BY <1>1
<1>3. CASE FrostRound1(p) \/ Gg18Round1Deal(p)
  <2>1. /\ dkg' = [dkg EXCEPT ![p] = RoundStep(dkg[p], "running")]
        /\ dealt' = [dealt EXCEPT ![p] = 1] /\ scheme' = scheme
    BY <1>3 DEF FrostRound1, Gg18Round1Deal, netVars
  <2>2. PICK t : t = RoundStep(dkg[p], "running")
    OBVIOUS
  <2>3. t \in DkgRecord /\ t.status = "running"
    BY <1>1, <2>2, StepType
  <2> QED
    BY <1>2, <2>1, <2>2, <2>3, DkgMoves, ZenonT(30)
<1>4. CASE Cmp20DealRound(p)
  <2>1. PICK s : s = Keep(dkg[p], Nobody, Nobody, {})
    OBVIOUS
  <2>2. s \in DkgRecord
    <3>1. Nobody \in [Parties -> Nat] /\ {} \in SUBSET Parties
      BY DEF Nobody
    <3> QED
      BY <1>1, <2>1, <3>1, KeepType
  <2>3. PICK t : t = RoundStep(s, "running")
    OBVIOUS
  <2>4. t \in DkgRecord /\ t.status = "running"
    BY <2>2, <2>3, StepType
  <2>5. dealt' \in [Parties -> Nat]
    BY <1>1, <1>4 DEF Cmp20DealRound
  <2>6. dkg' = [dkg EXCEPT ![p] = t] /\ scheme' = scheme
    BY <1>4, <2>1, <2>3 DEF Cmp20DealRound, netVars
  <2> QED
    BY <2>4, <2>5, <2>6, DkgMoves, ZenonT(30)
<1>5. CASE DkgOverflow(p)
  <2>1. PICK t : t = [dkg[p] EXCEPT !.status = "failed"]
    BY ZenonT(30)
  <2>2. t \in DkgRecord /\ t.status = "failed"
    BY <1>1, <2>1, ZenonT(30) DEF DkgRecord
  <2>3. dkg' = [dkg EXCEPT ![p] = t] /\ scheme' = scheme /\ dealt' = dealt
    BY <1>5, <2>1 DEF DkgOverflow, netVars
  <2> QED
    BY <1>1, <2>2, <2>3, DkgMoves, ZenonT(30)
<1>6. CASE FrostDkgRound(p)
  <2>a. PICK seen \in Arrivals(InFlight(p, dkg[p].seen), Support(dealt), Budget) :
          \E frags \in Arrivals(InFlight(p, dkg[p].frags), Support(dealt) \ {p},
                                Budget - Distance(InFlight(p, dkg[p].seen), seen)) :
          \E spoiled \in Spoils(frags, Budget - (Distance(InFlight(p, dkg[p].seen), seen)
                                           + Distance(InFlight(p, dkg[p].frags), frags))) :
            dkg' = [dkg EXCEPT ![p] = FrostRound2(p, Keep(dkg[p], seen, frags, spoiled))]
    BY <1>6, ZenonT(30) DEF FrostDkgRound, Receive
  <2>b. PICK frags \in Arrivals(InFlight(p, dkg[p].frags), Support(dealt) \ {p},
                                Budget - Distance(InFlight(p, dkg[p].seen), seen)) :
          \E spoiled \in Spoils(frags, Budget - (Distance(InFlight(p, dkg[p].seen), seen)
                                           + Distance(InFlight(p, dkg[p].frags), frags))) :
            dkg' = [dkg EXCEPT ![p] = FrostRound2(p, Keep(dkg[p], seen, frags, spoiled))]
    BY <2>a, ZenonT(30)
  <2>1. PICK spoiled \in Spoils(frags, Budget - (Distance(InFlight(p, dkg[p].seen), seen)
                                         + Distance(InFlight(p, dkg[p].frags), frags))) :
          dkg' = [dkg EXCEPT ![p] = FrostRound2(p, Keep(dkg[p], seen, frags, spoiled))]
    BY <2>b, ZenonT(30)
  <2>2. /\ seen \in [Parties -> Nat] /\ frags \in [Parties -> Nat] /\ frags[p] = 0
        /\ spoiled \in SUBSET Parties
    <3>1. PICK b2 : b2 = Budget - Distance(InFlight(p, dkg[p].seen), seen)
      OBVIOUS
    <3>2. frags \in Arrivals(InFlight(p, dkg[p].frags), Support(dealt) \ {p}, b2)
      BY <3>1
    <3>3. seen \in [Parties -> Nat] /\ frags \in [Parties -> Nat] /\ frags[p] = 0
      BY <3>2, ReceivedTypes, ZenonT(30)
    <3> QED
      BY <3>3, SpoilsType
  <2>3. PICK s : s = Keep(dkg[p], seen, frags, spoiled)
    OBVIOUS
  <2>4. s \in DkgRecord /\ s.frags[p] = 0 /\ Contributing(s) \in Int
    <3>1. dkg[p] \in DkgRecord
      BY <1>1
    <3>2. s \in DkgRecord /\ s.frags = frags
      BY <2>2, <2>3, <3>1, KeepType
    <3>3. Contributing(s) \in Int
      BY <3>2, RejectedCount
    <3> QED
      BY <2>2, <3>2, <3>3
  <2>5. PICK t : t = FrostRound2(p, s)
    OBVIOUS
  <2>6. scheme = "FROST" /\ scheme' = scheme /\ dealt' = dealt
    BY <1>6 DEF FrostDkgRound
  <2>7. t \in DkgRecord /\ (t.status = "complete" => Assembled(p, t))
    BY <2>4, <2>5, <2>6, FrostAssembles
  <2> QED
    BY <1>1, <2>1, <2>3, <2>5, <2>6, <2>7, DkgMoves, ZenonT(30)
<1>7. CASE Gg18DkgRound(p) \/ Cmp20AssembleRound(p)
  <2>a. PICK seen \in Arrivals(InFlight(p, dkg[p].seen), Support(dealt), Budget) :
          \E frags \in Arrivals(InFlight(p, dkg[p].frags), Support(dealt) \ {p},
                                Budget - Distance(InFlight(p, dkg[p].seen), seen)) :
          \E spoiled \in Spoils(frags, Budget - (Distance(InFlight(p, dkg[p].seen), seen)
                                           + Distance(InFlight(p, dkg[p].frags), frags))) :
            dkg' = [dkg EXCEPT ![p] = Gg18Round2Assemble(p, Keep(dkg[p], seen, frags, spoiled))]
    BY <1>7, ZenonT(30) DEF Gg18DkgRound, Cmp20AssembleRound, Receive,
             Gg18Round2Assemble, Cmp20Assemble
  <2>b. PICK frags \in Arrivals(InFlight(p, dkg[p].frags), Support(dealt) \ {p},
                                Budget - Distance(InFlight(p, dkg[p].seen), seen)) :
          \E spoiled \in Spoils(frags, Budget - (Distance(InFlight(p, dkg[p].seen), seen)
                                           + Distance(InFlight(p, dkg[p].frags), frags))) :
            dkg' = [dkg EXCEPT ![p] = Gg18Round2Assemble(p, Keep(dkg[p], seen, frags, spoiled))]
    BY <2>a, ZenonT(30)
  <2>1. PICK spoiled \in Spoils(frags, Budget - (Distance(InFlight(p, dkg[p].seen), seen)
                                         + Distance(InFlight(p, dkg[p].frags), frags))) :
          dkg' = [dkg EXCEPT ![p] = Gg18Round2Assemble(p, Keep(dkg[p], seen, frags, spoiled))]
    BY <2>b, ZenonT(30)
  <2>2. /\ seen \in [Parties -> Nat] /\ frags \in [Parties -> Nat] /\ frags[p] = 0
        /\ spoiled \in SUBSET Parties
    <3>1. PICK b2 : b2 = Budget - Distance(InFlight(p, dkg[p].seen), seen)
      OBVIOUS
    <3>2. frags \in Arrivals(InFlight(p, dkg[p].frags), Support(dealt) \ {p}, b2)
      BY <3>1
    <3>3. seen \in [Parties -> Nat] /\ frags \in [Parties -> Nat] /\ frags[p] = 0
      BY <3>2, ReceivedTypes, ZenonT(30)
    <3> QED
      BY <3>3, SpoilsType
  <2>b1. PICK s : s = Keep(dkg[p], seen, frags, spoiled)
    OBVIOUS
  <2>3. s \in DkgRecord /\ s.frags[p] = 0
    BY <1>1, <2>b1, <2>2, KeepType
  <2>4. PICK t : t = Assemble(p, s, Plus(s.frags, Just(p)), WithOwn(p, s.seen))
    OBVIOUS
  <2>5. scheme # "FROST" /\ scheme' = scheme /\ dealt' = dealt
    BY <1>7 DEF Gg18DkgRound, Cmp20AssembleRound
  <2>6. t \in DkgRecord /\ (t.status = "complete" => Assembled(p, t))
    BY <2>3, <2>4, <2>5, OthersAssemble, ZenonT(30)
  <2> QED
    BY <1>1, <2>1, <2>b1, <2>4, <2>5, <2>6, DkgMoves, ZenonT(30) DEF Gg18Round2Assemble
<1> QED
  BY <1>3, <1>4, <1>5, <1>6, <1>7 DEF DkgStep

(* Nothing else touches a session that has ended, but to drop it. *)
LEMMA NextDkgInv == DkgInv /\ [TcNext]_tcVars => DkgInv'
<1> SUFFICES ASSUME DkgInv, [TcNext]_tcVars PROVE DkgInv'
  OBVIOUS
<1>1. CASE UNCHANGED <<scheme, dealt, dkg>>
  <2>1. \A p \in Parties : Fresh(p)' = Fresh(p)
    BY <1>1 DEF Fresh, DkgComplete
  <2>2. \A p \in Parties : Assembled(p, dkg[p]) => Assembled(p, dkg[p])'
    BY <1>1 DEF Assembled
  <2> QED
    BY <1>1, <2>1, <2>2 DEF DkgInv
<1>2. ASSUME NEW p \in Parties, KeyGeneration(p)
      PROVE  DkgInv'
  BY <1>2, DkgCallKeeps DEF KeyGeneration
<1>3. ASSUME NEW p \in Parties, SignStep(p)
      PROVE  DkgInv'
  <2>1. UNCHANGED <<scheme, dealt, dkg>>
    BY <1>3, ZenonT(30) DEF SignStep, Round1Commit, FrostSignRound2, FrostSignRound3,
        Gg18Round2Reveal, Gg18Round3Partial, Gg18Round4Combine, Cmp20Round2Reveal,
        Cmp20Round3Partial, Cmp20Round4Combine, Round2Reveal, Round3Partial,
        SignOverflow, netVars, dkgVars
  <2> QED
    BY <1>1, <2>1
<1>4. ASSUME NEW S \in SUBSET Parties, OpenSigning(S)
      PROVE  DkgInv'
  <2>1. /\ dealt' = Nobody
        /\ dkg' = [p \in Parties |->
             IF p \in S
             THEN [NewDkg EXCEPT !.status = "complete",
                                 !.share = dkg[p].share, !.key = dkg[p].key]
             ELSE NewDkg]
    BY <1>4, ZenonT(30) DEF OpenSigning
  <2>2. Nobody \in [Parties -> Nat]
    BY DEF Nobody
  <2>3. NewDkg \in DkgRecord /\ NewDkg.round = 0
    BY <2>2 DEF NewDkg, DkgRecord
  <2>4. ASSUME NEW p \in Parties
        PROVE  dkg'[p] \in DkgRecord /\ dkg'[p].round = 0
    <3>1. dkg[p].share \in [Parties -> Nat] /\ dkg[p].key \in [Parties -> Nat]
      BY DEF DkgInv, DkgRecord
    <3>2. PICK t : t = [NewDkg EXCEPT !.status = "complete",
                                      !.share = dkg[p].share, !.key = dkg[p].key]
      OBVIOUS
    <3>3. t \in DkgRecord /\ t.round = 0
      BY <2>3, <3>1, <3>2, ZenonT(30) DEF DkgRecord
    <3> QED
      BY <2>1, <2>3, <3>2, <3>3, ZenonT(30)
  <2>5. dkg' \in [Parties -> DkgRecord]
    BY <2>1, <2>4, ZenonT(30)
  <2>6. \A p \in Parties : ~Fresh(p)'
    BY <2>4 DEF Fresh
  <2> QED
    BY <2>1, <2>2, <2>5, <2>6, ZenonT(30) DEF DkgInv
<1>5. CASE UNCHANGED tcVars
  BY <1>1, <1>5 DEF tcVars, netVars, dkgVars
<1> QED
  BY <1>2, <1>3, <1>4, <1>5 DEF TcNext

(* Before the first call nothing has ended. *)
LEMMA InitDkgInv == TcInit => DkgInv
<1> SUFFICES ASSUME TcInit PROVE DkgInv
  OBVIOUS
<1>1. Nobody \in [Parties -> Nat]
  BY DEF Nobody
<1>2. NewDkg \in DkgRecord /\ NewDkg.round = 0
  BY <1>1 DEF NewDkg, DkgRecord
<1>3. dealt = Nobody /\ dkg = [p \in Parties |-> NewDkg]
  BY DEF TcInit, DkgInit
<1> QED
  BY <1>1, <1>2, <1>3 DEF DkgInv, Fresh

-----------------------------------------------------------------------------
(* Both came once or not at all: the share sums over the dealers of the key. *)
LEMMA SameOnKey ==
  ASSUME NEW p \in Parties, NEW s \in DkgRecord, Assembled(p, s),
         s.seen = s.frags, \A q \in Parties : s.seen[q] <= 1
  PROVE  s.share = s.key
<1>1. s.seen \in [Parties -> Nat] /\ s.frags \in [Parties -> Nat] /\ s.frags[p] = 0
  BY DEF DkgRecord, Assembled
<1>2. CASE scheme = "FROST"
  <2>1. ASSUME NEW q \in Parties
        PROVE  (IF q \in Byzantine(s) THEN 0 ELSE s.frags[q]) = OneEach(KeyDealers(s))[q]
    <3>1. PICK n \in Nat : n = s.frags[q]
      BY <1>1
    <3>2. n <= 1 /\ n = s.seen[q]
      BY <3>1
    <3>3. q \in Support(s.seen) <=> n > 0
      BY <3>2 DEF Support
    <3> QED
      BY <3>1, <3>2, <3>3 DEF OneEach, KeyDealers
  <2>2. [q \in Parties |-> IF q \in Byzantine(s) THEN 0 ELSE s.frags[q]]
          = OneEach(KeyDealers(s))
    BY <2>1 DEF OneEach
  <2> QED
    BY <1>2, <2>2 DEF Assembled, FrostShare, FrostKey
<1>3. CASE scheme # "FROST"
  BY <1>1, <1>3 DEF Assembled, WithOwn
<1> QED
  BY <1>2, <1>3

(* The dealers of a FROST key, when no own broadcast came back. *)
LEMMA FrostDealers ==
  ASSUME NEW p \in Parties, NEW s \in DkgRecord, Assembled(p, s), scheme = "FROST",
         s.seen[p] = 0
  PROVE  /\ p \notin Support(s.seen) /\ p \notin Byzantine(s)
         /\ s.key = OneEach((Support(s.seen) \cup {p}) \ Byzantine(s))
         /\ Support(s.key) = (Support(s.seen) \ Byzantine(s)) \cup {p}
<1>1. /\ s.seen \in [Parties -> Nat] /\ s.frags \in [Parties -> Nat] /\ s.frags[p] = 0
      /\ s.key = FrostKey(p, s)
  BY DEF DkgRecord, Assembled
<1>2. p \notin Support(s.seen) /\ p \notin Byzantine(s)
  BY <1>1 DEF Support, Byzantine
<1>3. PICK B, D : B = Byzantine(s) /\ D = Support(s.seen)
  OBVIOUS
<1>4. s.key = Plus(Just(p), OneEach(D \ B))
  BY <1>1, <1>3 DEF FrostKey, KeyDealers
<1>5. Plus(Just(p), OneEach(D \ B)) = OneEach((D \cup {p}) \ B)
  <2>1. ASSUME NEW q \in Parties
        PROVE  Just(p)[q] + OneEach(D \ B)[q] = OneEach((D \cup {p}) \ B)[q]
    <3>1. CASE q = p
      BY <1>2, <1>3, <3>1 DEF Just, Nobody, OneEach
    <3>2. CASE q # p
      BY <3>2 DEF Just, Nobody, OneEach
    <3> QED
      BY <3>1, <3>2
  <2> QED
    BY <2>1 DEF Plus, OneEach
<1>6. s.key = OneEach((D \cup {p}) \ B)
  BY <1>4, <1>5
<1>7. \A S \in SUBSET Parties : Support(OneEach(S)) = S
  BY DEF Support, OneEach
<1>8. (D \cup {p}) \ B \in SUBSET Parties
  BY <1>3 DEF Support
<1>9. Support(s.key) = (D \cup {p}) \ B
  BY <1>6, <1>7, <1>8
<1> QED
  BY <1>2, <1>3, <1>6, <1>9

(* A key sums over Threshold dealers. *)
LEMMA EnoughDealers ==
  ASSUME NEW p \in Parties, NEW s \in DkgRecord, Assembled(p, s),
         scheme = "FROST" => s.seen[p] = 0
  PROVE  Cardinality(Support(s.key)) >= Threshold
<1>0. IsFiniteSet(Parties) /\ Threshold \in Nat
  BY TcAssumption, FS_Interval DEF Parties
<1>1. CASE scheme # "FROST"
  <2>1. Support(s.share) \subseteq Support(s.key) /\ Cardinality(Support(s.share)) >= Threshold
    BY <1>1 DEF Assembled
  <2>2. IsFiniteSet(Support(s.key))
    BY <1>0, FS_Subset DEF Support
  <2>3. /\ Cardinality(Support(s.share)) <= Cardinality(Support(s.key))
        /\ IsFiniteSet(Support(s.share))
    BY <2>1, <2>2, FS_Subset
  <2>4. Cardinality(Support(s.share)) \in Nat /\ Cardinality(Support(s.key)) \in Nat
    BY <2>2, <2>3, FS_CardinalityType
  <2> QED
    BY <1>0, <2>1, <2>3, <2>4
<1>2. CASE scheme = "FROST"
  <2>1. PICK B, D : B = Byzantine(s) /\ D = Support(s.seen)
    OBVIOUS
  <2>2. p \notin D /\ Support(s.key) = (D \ B) \cup {p}
    BY <1>2, <2>1, FrostDealers, ZenonT(30)
  <2>3. /\ IsFiniteSet(D) /\ IsFiniteSet(B) /\ Cardinality(D) \in Nat
        /\ Cardinality(B) \in Nat /\ Cardinality(Rejected(s)) \in Nat
        /\ Cardinality(B) <= Cardinality(Rejected(s))
    BY <2>1, RejectedCount
  <2>4. IsFiniteSet(D \ B) /\ Cardinality(D \ B) = Cardinality(D) - Cardinality(D \cap B)
    BY <2>3, FS_Difference, ZenonT(30)
  <2>5. Cardinality((D \ B) \cup {p}) = Cardinality(D \ B) + 1
    BY <2>2, <2>4, FS_AddElement, ZenonT(30)
  <2>6. IsFiniteSet(D \cap B) /\ Cardinality(D \cap B) <= Cardinality(B)
    BY <2>3, FS_Subset
  <2>7. Cardinality(D \cap B) \in Nat
    BY <2>6, FS_CardinalityType
  <2>8. (Cardinality(D) + 1) - Cardinality(Rejected(s)) >= Threshold
    BY <1>2, <2>1 DEF Assembled, Contributing
  <2>9. PICK d, b, i, x \in Nat : /\ d = Cardinality(D) /\ b = Cardinality(B)
                                  /\ i = Cardinality(D \cap B) /\ x = Cardinality(Rejected(s))
    BY <2>3, <2>7
  <2>10. Cardinality((D \ B) \cup {p}) = (d - i) + 1 /\ i <= b /\ b <= x /\ (d + 1) - x >= Threshold
    BY <2>3, <2>4, <2>5, <2>6, <2>8, <2>9
  <2>11. (d - i) + 1 >= Threshold
    BY <1>0, <2>10
  <2> QED
    BY <2>2, <2>10, <2>11
<1> QED
  BY <1>1, <1>2

(* What a completed key generation leaves behind fits, for every number of *)
(* parties, threshold and number of faults: the share lies on the key when *)
(* both messages of each dealer came once or not at all, the key sums over *)
(* Threshold dealers, and FROST parties that saw and rejected the same     *)
(* dealers have the same key.                                              *)
THEOREM KeysFit == TcSpec => []KeysMatchShares
<1>1. DkgInv => KeysMatchShares
  <2> SUFFICES ASSUME DkgInv PROVE KeysMatchShares
    OBVIOUS
  <2>1. \A p \in Parties : dkg[p] \in DkgRecord /\ (Fresh(p) => Assembled(p, dkg[p]))
    BY DEF DkgInv
  <2>2. ShareOnKey
    BY <2>1, SameOnKey DEF ShareOnKey
  <2>3. KeyFromThreshold
    BY <2>1, EnoughDealers DEF KeyFromThreshold
  <2>4. SameBroadcastsSameKey
    <3> SUFFICES ASSUME NEW p \in Parties, NEW q \in Parties, scheme = "FROST",
                        Fresh(p), Fresh(q), dkg[p].seen[p] = 0, dkg[q].seen[q] = 0,
                        Broadcasts(p) = Broadcasts(q),
                        Byzantine(dkg[p]) = Byzantine(dkg[q])
                 PROVE  dkg[p].key = dkg[q].key
      BY DEF SameBroadcastsSameKey
    <3>1. dkg[p].key = OneEach((Support(dkg[p].seen) \cup {p}) \ Byzantine(dkg[p]))
      BY <2>1, FrostDealers
    <3>2. dkg[q].key = OneEach((Support(dkg[q].seen) \cup {q}) \ Byzantine(dkg[q]))
      BY <2>1, FrostDealers
    <3> QED
      BY <3>1, <3>2 DEF Broadcasts
  <2> QED
    BY <2>2, <2>3, <2>4 DEF KeysMatchShares
<1> QED
  BY <1>1, InitDkgInv, NextDkgInv, PTL DEF TcSpec
================================================================================
