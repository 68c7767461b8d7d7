------------------------------ MODULE SignSession ------------------------------
(***************************************************************************)
(* Threshold signing with the shares that a key generation left behind:    *)
(* confium-tc-frost-ed25519/src/sign.rs, confium-tc-gg18/src/sign.rs and   *)
(* confium-tc-cmp20/src/sign.rs.  A party's view is the bag of the parties *)
(* whose nonces it has summed.  Nonces being random, a signature verifies  *)
(* exactly when each of at least Threshold parties has answered once, over *)
(* the verifier's own view, with a share that lies on the verifier's key.  *)
(***************************************************************************)
EXTENDS DkgSession

VARIABLES
  signers,   \* the parties that have opened a signing session; {} before
  ss         \* their sessions

signVars == <<signers, ss>>
tcVars == <<netVars, dkgVars, signVars>>

NewSign == [round |-> 0, status |-> "running",
            points |-> {}, view |-> Nobody, answered |-> FALSE, blamed |-> {}]

SignInit ==
  /\ signers = {}
  /\ ss = [p \in Parties |-> NewSign]

(* run_sign takes at least Threshold shares of a key generation that went  *)
(* through for everyone; over a network any parties that hold a share may  *)
(* open a session on the key's roster.  Of the key generation they keep    *)
(* the result blob, and everyone drops the session.                        *)
OpenSigning(S) ==
  /\ signers = {}
  /\ S # {}
  /\ \A p \in S : DkgComplete(p)
  /\ driver = "inprocess" => /\ Cardinality(S) >= Threshold
                             /\ \A p \in Parties : DkgComplete(p)
  /\ signers' = S
  /\ dkg' = [p \in Parties |->
               IF p \in S
               THEN [NewDkg EXCEPT !.status = "complete",
                                   !.share = dkg[p].share, !.key = dkg[p].key]
               ELSE NewDkg]
  /\ dealt' = Nobody
  /\ UNCHANGED <<netVars, ss>>

(* A FROST session numbers its party by its place in the session's roster. *)
(* run_sign makes that roster of the shares it is given, so a party keeps  *)
(* the index its share was dealt for only when no party before it is left  *)
(* out.  GG18 and CMP20 shares carry their index.                          *)
Aligned ==
  \/ scheme # "FROST"
  \/ driver = "network"
  \/ Threshold = 1
  \/ signers = 1..Cardinality(signers)

-----------------------------------------------------------------------------
CanSign(p) ==
  /\ p \in signers
  /\ Steppable(ss[p])
  /\ InStep(ss, signers, p)

(* The parties whose message of round r is out. *)
Posted(r) ==
  {q \in signers :
     \/ r = "nonce" /\ ss[q].round >= 1
     \/ r = "reveal" /\ ss[q].round >= 2
     \/ r = "answer" /\ ss[q].answered}

Incoming(p, r, own) ==
  Arrivals(OneEach(Posted(r) \ {p}),
           IF own THEN Posted(r) ELSE Posted(r) \ {p}, Budget)

Spend(p, r, copies, spoiled) ==
  faults' = faults + Distance(OneEach(Posted(r) \ {p}), copies)
                   + Cardinality(spoiled)

(* round1 of FROST, round1_commit of the others: the nonce commitment. *)
Round1Commit(p) ==
  /\ CanSign(p)
  /\ ss[p].round = 0
  /\ ss' = [ss EXCEPT ![p] = RoundStep(ss[p], "running")]
  /\ UNCHANGED <<netVars, dkgVars, signers>>

(* FROST round2: our own commitment joins those that came, a returned copy *)
(* of it included, and Threshold is held against the length of the list.   *)
FrostSignRound2(p) ==
  /\ scheme = "FROST"
  /\ CanSign(p)
  /\ ss[p].round = 1
  /\ \E commits \in Incoming(p, "nonce", TRUE) :
       LET view == Plus(commits, Just(p))
           enough == Size(view) >= Threshold
       IN /\ ss' = [ss EXCEPT
                      ![p] = [RoundStep(ss[p], IF enough THEN "running" ELSE "failed")
                                EXCEPT !.view = view, !.answered = enough]]
          /\ Spend(p, "nonce", commits, {})
  /\ UNCHANGED <<scheme, driver, dkgVars, signers>>

(* round2_reveal: remember whose nonce points came; our own is skipped. *)
Round2Reveal(p) ==
  /\ CanSign(p)
  /\ ss[p].round = 1
  /\ \E points \in Incoming(p, "nonce", FALSE) :
       /\ ss' = [ss EXCEPT
                   ![p] = [RoundStep(ss[p], "running") EXCEPT !.points = Support(points)]]
       /\ Spend(p, "nonce", points, {})
  /\ UNCHANGED <<scheme, driver, dkgVars, signers>>

(* round3_partial: the parties whose reveals came, a second copy counted   *)
(* again; a reveal whose nonce point never came is an error.  The points   *)
(* are not read after this round.                                          *)
Round3Partial(p) ==
  /\ CanSign(p)
  /\ ss[p].round = 2
  /\ \E reveals \in Incoming(p, "reveal", FALSE) :
       LET known == Support(reveals) \subseteq ss[p].points
       IN /\ ss' = [ss EXCEPT
                      ![p] = [RoundStep(ss[p], IF known THEN "running" ELSE "failed")
                                EXCEPT !.view = IF known THEN Plus(reveals, Just(p))
                                                         ELSE Nobody,
                                       !.answered = known,
                                       !.points = {}]]
          /\ Spend(p, "reveal", reveals, {})
  /\ UNCHANGED <<scheme, driver, dkgVars, signers>>

Gg18Round2Reveal(p) == scheme = "GG18" /\ Round2Reveal(p)
Cmp20Round2Reveal(p) == scheme = "CMP20" /\ Round2Reveal(p)
Gg18Round3Partial(p) == scheme = "GG18" /\ Round3Partial(p)
Cmp20Round3Partial(p) == scheme = "CMP20" /\ Round3Partial(p)

-----------------------------------------------------------------------------
(* Mutant of EnoughShares: one share too many is asked for. *)
MoreShares(V) == Cardinality(Support(V)) > Threshold

(* A polynomial of degree Threshold - 1 takes Threshold points. *)
EnoughShares(V) == Cardinality(Support(V)) >= Threshold

(* The shares of V's parties, each answering once over V, interpolate to   *)
(* the key of p.  FROST answers also bind the key they were computed for.  *)
Interpolates(p, V) ==
  /\ EnoughShares(V)
  /\ Aligned
  /\ \A q \in Support(V) :
       /\ V[q] = 1
       /\ ss[q].answered
       /\ ss[q].view = V
       /\ dkg[q].share = dkg[p].key
       /\ scheme = "FROST" => dkg[q].key = dkg[p].key

(* Mutant of Verifies: the aggregate is not verified before it is returned. *)
VerifiesUnchecked(p, answers, spoiled) ==
  Support(ss[p].view) \subseteq Support(answers)

(* The final check of the aggregate against the key. *)
Verifies(p, answers, spoiled) ==
  /\ answers = ss[p].view
  /\ spoiled = {}
  /\ Interpolates(p, ss[p].view)

(* identify_byzantine: whose answers, left out, let the rest verify. *)
IdentifyByzantine(p, answers, spoiled) ==
  {q \in Support(answers) :
     Verifies(p, [answers EXCEPT ![q] = 0], spoiled \ {q})}

(* FROST round3.  Everyone in the view must have answered.  When the       *)
(* aggregate fails, the search for the culprit expects a commitment for    *)
(* every answer and panics where there is none.                            *)
FrostRound3Outcome(p, answers, spoiled) ==
  IF ~(Support(ss[p].view) \subseteq Support(answers)) THEN "failed"
  ELSE IF Verifies(p, answers, spoiled) THEN "complete"
  ELSE IF Support(answers) \subseteq Support(ss[p].view) THEN "failed"
  ELSE "panicked"

FrostSignRound3(p) ==
  /\ scheme = "FROST"
  /\ CanSign(p)
  /\ ss[p].round = 2
  /\ \E responses \in Incoming(p, "answer", TRUE) :
     \E spoiled \in
       Spoils(responses, Budget - Distance(OneEach(Posted("answer") \ {p}), responses)) :
       LET answers == Plus(responses, Just(p))
           outcome == IF ss[p].answered THEN FrostRound3Outcome(p, answers, spoiled)
                                        ELSE "failed"
       IN /\ ss' = [ss EXCEPT ![p] = RoundStep(ss[p], outcome)]
          /\ Spend(p, "answer", responses, spoiled)
  /\ UNCHANGED <<scheme, driver, dkgVars, signers>>

(* GG18 round4_combine; our own partial coming back is skipped. *)
Gg18Round4Combine(p) ==
  /\ scheme = "GG18"
  /\ CanSign(p)
  /\ ss[p].round = 3
  /\ \E partials \in Incoming(p, "answer", FALSE) :
     \E spoiled \in
       Spoils(partials, Budget - Distance(OneEach(Posted("answer") \ {p}), partials)) :
       LET valid == /\ ss[p].answered
                    /\ Verifies(p, Plus(partials, Just(p)), spoiled)
       IN /\ ss' = [ss EXCEPT
                      ![p] = RoundStep(ss[p], IF valid THEN "complete" ELSE "failed")]
          /\ Spend(p, "answer", partials, spoiled)
  /\ UNCHANGED <<scheme, driver, dkgVars, signers>>

(* CMP20 round4_combine: a returned copy of our own partial is counted,    *)
(* and a failed check goes looking for the culprit.                        *)
Cmp20Round4Combine(p) ==
  /\ scheme = "CMP20"
  /\ CanSign(p)
  /\ ss[p].round = 3
  /\ \E partials \in Incoming(p, "answer", TRUE) :
     \E spoiled \in
       Spoils(partials, Budget - Distance(OneEach(Posted("answer") \ {p}), partials)) :
       LET answers == Plus(partials, Just(p))
           valid == ss[p].answered /\ Verifies(p, answers, spoiled)
       IN /\ ss' = [ss EXCEPT
                      ![p] = [RoundStep(ss[p], IF valid THEN "complete" ELSE "failed")
                                EXCEPT !.blamed =
                                  IF valid \/ ~ss[p].answered THEN {}
                                  ELSE IdentifyByzantine(p, answers, spoiled)]]
          /\ Spend(p, "answer", partials, spoiled)
  /\ UNCHANGED <<scheme, driver, dkgVars, signers>>

LastRound == IF scheme = "FROST" THEN 3 ELSE 4

(* Any later call is answered with RoundOverflow, whatever its number. *)
SignOverflow(p) ==
  /\ CanSign(p)
  /\ ss[p].round = LastRound
  /\ ss' = [ss EXCEPT ![p].status = "failed"]
  /\ UNCHANGED <<netVars, dkgVars, signers>>

SignStep(p) ==
  \/ Round1Commit(p)
  \/ FrostSignRound2(p)
  \/ FrostSignRound3(p)
  \/ Gg18Round2Reveal(p)
  \/ Gg18Round3Partial(p)
  \/ Gg18Round4Combine(p)
  \/ Cmp20Round2Reveal(p)
  \/ Cmp20Round3Partial(p)
  \/ Cmp20Round4Combine(p)
  \/ SignOverflow(p)

-----------------------------------------------------------------------------
TcInit == NetInit /\ DkgInit /\ SignInit

(* Signing starts when nobody steps a key generation session any more. *)
KeyGeneration(p) == signers = {} /\ DkgStep(p) /\ UNCHANGED signVars

TcNext ==
  \/ \E p \in Parties : KeyGeneration(p) \/ SignStep(p)
  \/ \E S \in SUBSET Parties : OpenSigning(S)

TcSpec == TcInit /\ [][TcNext]_tcVars

(* drive_to_completion: in process one loop calls the sessions until they  *)
(* are done.                                                               *)
Drive ==
  /\ driver = "inprocess"
  /\ \E p \in Parties : KeyGeneration(p) \/ SignStep(p)

TcFairSpec == TcSpec /\ WF_tcVars(Drive)

-----------------------------------------------------------------------------
View(p) == Support(ss[p].view)
Signed(p) == p \in signers /\ ss[p].status = "complete"

SignRecord ==
  [round : Nat, status : {"running", "failed", "complete", "panicked"},
   points : SUBSET Parties, view : [Parties -> Nat],
   answered : BOOLEAN, blamed : SUBSET Parties]

SignTypeOK ==
  /\ signers \subseteq Parties
  /\ ss \in [Parties -> SignRecord]

(* What the steps of signing preserve.  An answer is given once, in its    *)
(* round, over a view that holds the party itself; and a party that holds  *)
(* a signature signed with at least Threshold parties, each of which has   *)
(* answered over the very same view.                                       *)
SignInv ==
  /\ SignTypeOK
  /\ \A p \in Parties :
       /\ p \notin signers => ~ss[p].answered /\ ss[p].status = "running"
       /\ ss[p].answered => /\ ss[p].round >= (IF scheme = "FROST" THEN 2 ELSE 3)
                            /\ p \in View(p)
       /\ ss[p].status = "complete" =>
            /\ ss[p].answered
            /\ Cardinality(View(p)) >= Threshold
            /\ \A q \in View(p) : ss[q].answered /\ ss[q].view = ss[p].view

(* The promise of QuorumCertificate, kept by the three schemes over any    *)
(* network: an answer is a vote for the view it was computed over, a       *)
(* verified signature is a certificate.                                    *)
Coalitions == {S \in SUBSET Parties : Cardinality(S) >= Threshold}
Votes == [p \in Parties |-> IF ss[p].answered THEN View(p) ELSE {}]
Certs == [p \in Parties |-> IF Signed(p) THEN View(p) ELSE {}]

Certificate == INSTANCE QuorumCertificate WITH
  Voters <- Parties, Quorums <- Coalitions, vote <- Votes, cert <- Certs

ImplementsCertificate == Certificate!CertSpec

(* Two parties that each hold a signature, and whose signing sets share a  *)
(* party, hold a signature of the same set: nobody's nonce goes into two   *)
(* different signatures.                                                   *)
OneSignaturePerNonce ==
  \A p, q \in Parties :
    Signed(p) /\ Signed(q) /\ View(p) \cap View(q) # {} => ss[p].view = ss[q].view

(* A session that has returned an error never completes: the round number  *)
(* has moved past the round that failed.  The two-call key generation of   *)
(* CMP20 is the exception.                                                 *)
FailureIsFinal ==
  [][\A p \in Parties :
       /\ ss[p].status = "failed" => ~Signed(p)'
       /\ dkg[p].status = "failed" /\ scheme # "CMP20" => ~DkgComplete(p)']_tcVars

(* The identifiable abort of CMP20 only ever names a party outside the     *)
(* view, one that signed with another set; never a member of the view      *)
(* whose partial came spoiled.                                             *)
OnlyOutsidersIdentified ==
  \A p \in Parties : ss[p].blamed \cap View(p) = {}

(* A FROST session panics only over an answer from a party whose           *)
(* commitment it never got, never over a spoiled or repeated answer.       *)
PanicNeedsMissedCommitment ==
  \A p \in Parties :
    ss[p].status = "panicked" =>
      \E q \in signers : ss[q].answered /\ q \notin View(p)

(* Together: what a signing session returns can be relied on, whether it   *)
(* is a signature, the name of a culprit or a panic.                       *)
SigningIsSound ==
  OneSignaturePerNonce /\ OnlyOutsidersIdentified /\ PanicNeedsMissedCommitment

(* Driven in process, a key generation ends with a share for everyone, and *)
(* every coalition whose roster keeps the parties' indices then signs.     *)
InprocessCompletes ==
  /\ driver = "inprocess" => <>(signers # {} \/ \A p \in Parties : DkgComplete(p))
  /\ (driver = "inprocess" /\ signers # {} /\ Aligned)
       ~> (\A p \in signers : Signed(p))

(* Key generation promises that any Threshold of the shares sign.  Driven  *)
(* in process, where nothing is lost, no signing session fails.            *)
AnyCoalitionSigns ==
  driver = "inprocess" => \A p \in signers : ss[p].status # "failed"
================================================================================
