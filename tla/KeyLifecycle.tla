------------------------------- MODULE KeyLifecycle -------------------------------
(***************************************************************************)
(* The key lifecycle manager (key_mgmt_and_protocols.rs): actors that      *)
(* change keys under one lock and write what they did to the audit log     *)
(* under another, the first one released in between.                       *)
(***************************************************************************)
EXTENDS Naturals, Sequences, FiniteSetsExt

CONSTANTS
  Keys,
  Actors,
  MaxChanges   \* bound: changes of a key

ASSUME KeyAssumption == "none" \notin Keys /\ IsFiniteSet(Actors)

VARIABLES
  keys,        \* per key that exists: its state and its version
  audit_log,   \* the key and the action of every entry
  turn,        \* per actor: the key and the action it has to write, or none
  changes,     \* how often a key was changed
  contended   \* the keys changed while another change was not yet written

keyVars == <<keys, audit_log, turn, changes, contended>>

None == [key |-> "none", action |-> "none"]

KeyInit ==
  /\ keys = <<>>
  /\ audit_log = <<>>
  /\ turn = [a \in Actors |-> None]
  /\ changes = 0
  /\ contended = {}

(* The state that an action leaves its key in. *)
StateAfter ==
  [generate |-> "generated", activate |-> "active", suspend |-> "suspended",
   archive |-> "archived", destroy |-> "destroyed",
   rotate_start |-> "rotating", rotate_complete |-> "active"]

-----------------------------------------------------------------------------
(* generate writes its entry with the keys still locked. *)
Generate(k) ==
  /\ k \notin DOMAIN keys
  /\ keys' = [j \in DOMAIN keys \cup {k} |->
       IF j = k THEN [state |-> "generated", version |-> 1] ELSE keys[j]]
  /\ audit_log' = Append(audit_log, [key |-> k, action |-> "generate"])
  /\ UNCHANGED <<turn, changes, contended>>

(* activate, suspend and archive take a key from any state. *)
Allowed(k, action) ==
  /\ action = "rotate_start" => keys[k].state = "active"
  /\ action = "destroy" => keys[k].state # "destroyed"

Contended(a, k) ==
  IF \E b \in Actors \ {a} : turn[b].key = k THEN contended \cup {k} ELSE contended

(* A call that changes a key, up to the release of the lock on the keys. *)
Change(a, k, action) ==
  /\ turn[a] = None
  /\ k \in DOMAIN keys
  /\ Allowed(k, action)
  /\ changes < MaxChanges
  /\ keys' = [keys EXCEPT ![k].state = StateAfter[action]]
  /\ turn' = [turn EXCEPT ![a] = [key |-> k, action |-> action]]
  /\ changes' = changes + 1
  /\ contended' = Contended(a, k)
  /\ UNCHANGED audit_log

(* rotate completes once its first entry is written. *)
WrittenBefore(a) == turn[a].action = "rotating"

(* Mutant of Completed: the state is not put back. *)
CompletedStill(key) == [key EXCEPT !.version = @ + 1]

Completed(key) == [state |-> "active", version |-> key.version + 1]

(* The second half of rotate, whatever became of the key in between. *)
CompleteRotation(a) ==
  LET k == turn[a].key
  IN /\ WrittenBefore(a)
     /\ keys' = [keys EXCEPT ![k] = Completed(@)]
     /\ turn' = [turn EXCEPT ![a].action = "rotate_complete"]
     /\ contended' = Contended(a, k)
     /\ UNCHANGED <<audit_log, changes>>

Audit(a) ==
  /\ turn[a].action \in DOMAIN StateAfter
  /\ audit_log' = Append(audit_log, turn[a])
  /\ turn' = [turn EXCEPT ![a] =
       IF turn[a].action = "rotate_start" THEN [@ EXCEPT !.action = "rotating"] ELSE None]
  /\ UNCHANGED <<keys, changes, contended>>

KeyNext ==
  \/ \E k \in Keys : Generate(k)
  \/ \E a \in Actors :
       \/ CompleteRotation(a) \/ Audit(a)
       \/ \E k \in Keys : \E action \in
            {"activate", "suspend", "archive", "destroy", "rotate_start"} : Change(a, k, action)

-----------------------------------------------------------------------------
EntriesOf(k) == {i \in DOMAIN audit_log : audit_log[i].key = k}
Quiet(k) == \A a \in Actors : turn[a].key # k

(* The audit log accounts for the keys: once every call on a key has       *)
(* returned, the last entry about it names the state it is in, unless two  *)
(* calls on it overlapped.                                                 *)
LastEntryTellsState ==
  \A k \in DOMAIN keys :
    Quiet(k) /\ k \notin contended =>
      keys[k].state = StateAfter[audit_log[Max(EntriesOf(k))].action]

(* No key is left in Rotating: a key is in that state only while the       *)
(* rotation that put it there is under way, whatever the other callers do. *)
RotatingWhileRotated ==
  \A k \in DOMAIN keys :
    keys[k].state = "rotating" =>
      \E a \in Actors : turn[a].key = k /\ turn[a].action \in {"rotate_start", "rotating"}

Written(k, action) == {i \in EntriesOf(k) : audit_log[i].action = action}
Underway(k, action) == {a \in Actors : turn[a] = [key |-> k, action |-> action]}

(* A version is a completed rotation: the version of a key is one more     *)
(* than the completions in the log and those still to be written, and      *)
(* every completion has its start before it.                               *)
VersionsAreRotations ==
  \A k \in DOMAIN keys :
    /\ keys[k].version = 1 + Cardinality(Written(k, "rotate_complete"))
                           + Cardinality(Underway(k, "rotate_complete"))
    /\ Cardinality(Written(k, "rotate_start"))
         = keys[k].version - 1 + Cardinality(Underway(k, "rotating"))

(* Together: the log and the keys tell the same story. *)
LogTellsKeys ==
  LastEntryTellsState /\ RotatingWhileRotated /\ VersionsAreRotations
====================================================================================
