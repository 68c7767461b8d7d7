------------------------------ MODULE RevocationIndex ------------------------------
(* The propagation index of confium-signatif (revocation.rs): artifacts,   *)
(* the authority states they are bound to, and their marks.                *)
EXTENDS Naturals, Sequences, Functions

CONSTANTS
  Bound, States,
  MaxBindings, MaxRevocations   \* bounds: bindings, revocations of one state

VARIABLES
  bindings,         \* [artifact, states], in the order recorded
  marks,            \* artifact -> "marked" or "cleared", for those ever marked
  revoked_states,   \* how often each state is in the list, whose order nothing
                    \* reads
  overlooked        \* artifacts bound to a state that was revoked already, or
                    \* cleared while another of their states was revoked

indexVars == <<bindings, marks, revoked_states, overlooked>>

IndexInit ==
  /\ bindings = <<>>
  /\ marks = <<>>
  /\ revoked_states = [f \in States |-> 0]
  /\ overlooked = {}

Revoked == {f \in States : revoked_states[f] > 0}
BoundTo(f) == {b.artifact : b \in {b \in Range(bindings) : f \in b.states}}
Causes(a) == Revoked \cap (UNION {b.states : b \in {b \in Range(bindings) : b.artifact = a}})

Mark(artifacts, mark) ==
  marks' = [a \in DOMAIN marks \cup artifacts |-> IF a \in artifacts THEN mark ELSE marks[a]]

Bind(a, states) ==
  /\ Len(bindings) < MaxBindings
  /\ bindings' = Append(bindings, [artifact |-> a, states |-> states])
  /\ overlooked' = overlooked \cup (IF states \cap Revoked # {} THEN {a} ELSE {})
  /\ UNCHANGED <<marks, revoked_states>>

RevokeState(f) ==
  /\ revoked_states[f] < MaxRevocations
  /\ revoked_states' = [revoked_states EXCEPT ![f] = @ + 1]
  /\ Mark(BoundTo(f), "marked")
  /\ overlooked' = overlooked \ BoundTo(f)
  /\ UNCHANGED bindings

(* Mutant of Retained: one of the revocations is taken back. *)
RetainedRest(f) == IF revoked_states[f] = 0 THEN 0 ELSE revoked_states[f] - 1

(* retain drops every entry of the state. *)
Retained(f) == 0

Corrected(f) == BoundTo(f)

CorrectState(f) ==
  /\ revoked_states' = [revoked_states EXCEPT ![f] = Retained(f)]
  /\ Mark(Corrected(f), "cleared")
  /\ overlooked' = {a \in overlooked \cup BoundTo(f) : Causes(a) \ {f} # {}}
  /\ UNCHANGED bindings

IndexNext ==
  \/ \E a \in Bound : \E states \in SUBSET States \ {{}} : Bind(a, states)
  \/ \E f \in States : RevokeState(f) \/ CorrectState(f)

IndexSpec == IndexInit /\ [][IndexNext]_indexVars

-----------------------------------------------------------------------------
(* An artifact that is bound to a revoked state is marked, unless it was   *)
(* bound after the revocation, or another of its states was corrected      *)
(* after it: the correction clears the mark whatever else is revoked.      *)
MarkedUnlessOverlooked ==
  \A a \in Bound \ overlooked :
    Causes(a) # {} => a \in DOMAIN marks /\ marks[a] = "marked"

(* Marking is reversible: a mark has a revocation in force as its cause,   *)
(* so that correcting every revocation leaves no artifact marked.          *)
MarkHasCause ==
  \A a \in DOMAIN marks : marks[a] = "marked" => Causes(a) # {}

(* Both: the marks are those of the revocations in force. *)
MarksFollowRevocations == MarkedUnlessOverlooked /\ MarkHasCause
====================================================================================
