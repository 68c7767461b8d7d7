---------------------------- MODULE ComponentProofs ----------------------------
(***************************************************************************)
(* Invariants of components that share nothing with the coordinator,       *)
(* proved for every value of their constants: the two-phase commit, the    *)
(* rotation scheduler, the key lifecycle, the revocation index and the     *)
(* snapshot store.                                                         *)
(***************************************************************************)
EXTENDS
  TwoPhaseCommit, RotationScheduler, KeyLifecycle, RevocationIndex,
  SnapshotStore, FiniteSetTheorems, SequenceTheorems, TLAPS

(* The provers a leaf is given that names none of its own, tried in this order. *)
USE SMTT(30), ZenonT(30), Z3T(30), SMTT(40)

-----------------------------------------------------------------------------
(* Two-phase commit. *)

TwoPcSpec == TwoPcInit /\ [][TwoPcNext]_twoPcVars

(* What the interleavings of commit and abort keep: besides the two        *)
(* invariants, an aborted participant means that every commit under way    *)
(* was overtaken by the abort.                                             *)
TwoPcInv ==
  /\ participants \in
       [Participants -> {"init", "prepared", "committed", "aborted"}]
  /\ reversed \in BOOLEAN
  /\ global_state \in {"init", "committed", "aborted"}
  /\ reversed => global_state # "init"
  /\ AllOrNothing
  /\ ReportsOutcome
  /\ (\E p \in Participants : participants[p] = "aborted") => committing \subseteq overtaken

(* Every call of the two-phase commit keeps the invariant. *)
LEMMA TwoPcStep == TwoPcInv /\ [TwoPcNext]_twoPcVars => TwoPcInv'
<1> SUFFICES ASSUME TwoPcInv, [TwoPcNext]_twoPcVars PROVE TwoPcInv'
  OBVIOUS
<1> USE DEF TwoPcInv, AllOrNothing, ReportsOutcome
<1>1. ASSUME NEW p \in Participants, Prepare(p) PROVE TwoPcInv'
  BY <1>1 DEF Prepare, Preparable
<1>2. ASSUME NEW t \in Committers, BeginCommit(t) PROVE TwoPcInv'
  BY <1>2 DEF BeginCommit, AllPrepared
<1>3. ASSUME NEW t \in Committers, FinishCommit(t) PROVE TwoPcInv'
  BY <1>3, ZenonT(30) DEF FinishCommit, Commits
<1>4. CASE Abort
  BY <1>4, ZenonT(30) DEF Abort
<1>5. CASE UNCHANGED twoPcVars
  BY <1>5 DEF twoPcVars
<1>6. QED
  BY <1>1, <1>2, <1>3, <1>4, <1>5 DEF TwoPcNext

(* The two-phase commit is never half committed and its global state tells *)
(* what the participants did, unless it was reversed.                      *)
THEOREM TwoPcSafety == TwoPcSpec => []CommitIsAtomic
<1>1. TwoPcInit => TwoPcInv
  BY ZenonT(30) DEF TwoPcInit, TwoPcInv, AllOrNothing, ReportsOutcome
<1>2. TwoPcInv => CommitIsAtomic
  BY DEF TwoPcInv, CommitIsAtomic
<1>3. QED
  BY <1>1, <1>2, TwoPcStep, PTL DEF TwoPcSpec

(* A decided participant changes only when a commit that was overtaken by  *)
(* an abort goes through.                                                  *)
THEOREM TwoPcDecidedOnce == TwoPcSpec => DecidedOnce
<1> DEFINE Kept ==
      \A p \in Participants :
        participants[p] \in {"committed", "aborted"} =>
          \/ participants'[p] = participants[p]
          \/ \E t \in overtaken : t \notin committing'
<1>1. TwoPcInit => TwoPcInv
  BY ZenonT(30) DEF TwoPcInit, TwoPcInv, AllOrNothing, ReportsOutcome
<1>2. TwoPcInv /\ [TwoPcNext]_twoPcVars => [Kept]_twoPcVars
  <2> SUFFICES ASSUME TwoPcInv, TwoPcNext, NEW p \in Participants,
                      participants[p] \in {"committed", "aborted"}
               PROVE  \/ participants'[p] = participants[p]
                      \/ \E t \in overtaken : t \notin committing'
    OBVIOUS
  <2>1. ASSUME NEW q \in Participants, Prepare(q)
        PROVE participants'[p] = participants[p]
    BY <2>1 DEF TwoPcInv, Prepare, Preparable
  <2>2. ASSUME NEW t \in Committers, BeginCommit(t)
        PROVE participants'[p] = participants[p]
    BY <2>2 DEF BeginCommit
  <2>3. ASSUME NEW t \in Committers, FinishCommit(t)
        PROVE  \/ participants'[p] = participants[p]
               \/ \E u \in overtaken : u \notin committing'
    BY <2>3 DEF TwoPcInv, FinishCommit, Commits
  <2>4. ASSUME Abort PROVE participants'[p] = participants[p]
    BY <2>4 DEF TwoPcInv, Abort
  <2>5. QED
    BY <2>1, <2>2, <2>3, <2>4 DEF TwoPcNext
<1>3. TwoPcSpec => []TwoPcInv
  BY <1>1, TwoPcStep, PTL DEF TwoPcSpec
<1>4. QED
  BY <1>2, <1>3, PTL DEF TwoPcSpec, DecidedOnce

-----------------------------------------------------------------------------
(* Rotation scheduler. *)

SchedulerSpec == SchedulerInit /\ [][SchedulerNext]_schedulerVars

(* A thread that has refreshed after the flag was cleared has still to      *)
(* pass its test, and cannot.                                              *)
SchedulerInv ==
  /\ running \in BOOLEAN
  /\ late \in [Loops -> {0, 1}]
  /\ loop \in [Loops -> {"none", "test", "decide", "call", "refresh", "sleep", "ended"}]
  /\ \A l \in Loops : ~ running /\ late[l] = 1 => loop[l] \notin {"decide", "call"}

(* A thread that had passed its test when stop cleared the flag begins at  *)
(* most one more refresh, for any number of threads and calls.             *)
THEOREM SchedulerSafety == SchedulerSpec => []OneRefreshAfterStop
<1>1. SchedulerInit => SchedulerInv
  BY ZenonT(30) DEF SchedulerInit, SchedulerInv
<1>2. SchedulerInv /\ [SchedulerNext]_schedulerVars => SchedulerInv'
  <2> SUFFICES ASSUME SchedulerInv, [SchedulerNext]_schedulerVars
               PROVE  SchedulerInv'
    OBVIOUS
  <2> USE DEF SchedulerInv
  <2>1. ASSUME Start \/ Pause \/ Resume \/ ClockReachesNextRun PROVE SchedulerInv'
    BY <2>1, ZenonT(30) DEF Start, Pause, Resume, ClockReachesNextRun
  <2>2. CASE Spawn
    <3>1. PICK l \in Loops : loop[l] = "none" /\ loop' = [loop EXCEPT ![l] = "test"]
      BY <2>2, ZenonT(30) DEF Spawn
    <3>2. running' = running /\ late' = late
      BY <2>2 DEF Spawn
    <3>3. QED
      BY <3>1, <3>2
  <2>3. CASE Stop
    <3>1. running' = FALSE /\ loop' = loop /\ late' = [l \in Loops |-> 0]
      BY <2>3 DEF Stop
    <3>2. late' \in [Loops -> {0, 1}] /\ \A l \in Loops : late'[l] # 1
      BY <3>1
    <3>3. QED
      BY <3>1, <3>2, ZenonT(30)
  <2>4. ASSUME NEW l \in Loops, TestRunning(l) PROVE SchedulerInv'
    BY <2>4 DEF TestRunning, GoesOn
  <2>5. ASSUME NEW l \in Loops, Decide(l) PROVE SchedulerInv'
    BY <2>5 DEF Decide
  <2>6. ASSUME NEW l \in Loops, Refresh(l) PROVE SchedulerInv'
    <3>1. CASE running
      BY <2>6, <3>1 DEF Refresh
    <3>2. CASE ~ running
      <4>1. late[l] = 0
        BY <2>6, <3>2 DEF Refresh
      <4>2. late' = [late EXCEPT ![l] = 1]
        BY <2>6, <3>2, <4>1 DEF Refresh
      <4>3. QED
        BY <2>6, <3>2, <4>2 DEF Refresh
    <3>3. QED
      BY <3>1, <3>2
  <2>7. ASSUME NEW l \in Loops, Reschedule(l) \/ Sleep(l) PROVE SchedulerInv'
    BY <2>7 DEF Reschedule, Sleep, AfterRefresh
  <2>8. CASE UNCHANGED schedulerVars
    BY <2>8 DEF schedulerVars
  <2>9. QED
    BY <2>1, <2>4, <2>5, <2>6, <2>7, <2>8, <2>2, <2>3 DEF SchedulerNext, LoopStep
<1>3. SchedulerInv => OneRefreshAfterStop
  <2> SUFFICES ASSUME SchedulerInv, NEW l \in Loops PROVE late[l] <= 1
    BY DEF OneRefreshAfterStop
  <2>1. late[l] \in {0, 1}
    BY DEF SchedulerInv
  <2>2. QED
    BY <2>1
<1>4. QED
  BY <1>1, <1>2, <1>3, PTL DEF SchedulerSpec

-----------------------------------------------------------------------------
(* Key lifecycle. *)

KeySpec == KeyInit /\ [][KeyNext]_keyVars

(* The states of a key, the records of the model, and what a call may be. *)
KeyStates == {"generated", "active", "suspended", "archived", "destroyed", "rotating"}
Key == [state : KeyStates, version : Nat]
Turn == [key : Keys, action : {"activate", "suspend", "archive", "destroy",
                               "rotate_start", "rotating", "rotate_complete"}]
Calls == {"activate", "suspend", "archive", "destroy", "rotate_start"}
Entry == [key : Keys, action : DOMAIN StateAfter]

(* The types; a call is on a key that exists, and so is an entry. *)
KeyType ==
  /\ DOMAIN keys \subseteq Keys
  /\ keys \in [DOMAIN keys -> Key]
  /\ turn \in [Actors -> Turn \cup {None}]
  /\ \A a \in Actors : turn[a] # None => turn[a].key \in DOMAIN keys
  /\ audit_log \in Seq(Entry)
  /\ \A i \in DOMAIN audit_log : audit_log[i].key \in DOMAIN keys

(* The last entry about a key names the state it is in. *)
Told(k) ==
  \E i \in EntriesOf(k) :
    /\ \A j \in EntriesOf(k) : j <= i
    /\ keys[k].state = StateAfter[audit_log[i].action]

(* One call at most is on the key; until that call has written its entry   *)
(* the key is in the state of its action.                                  *)
Telling(k) ==
  /\ \A a, b \in Actors : turn[a].key = k /\ turn[b].key = k => a = b
  /\ \A a \in Actors : turn[a].key = k /\ turn[a].action \in DOMAIN StateAfter
       => keys[k].state = StateAfter[turn[a].action]
  /\ Quiet(k) => Told(k)

(* So it is for every key that was never contended. *)
TellingInv == \A k \in DOMAIN keys \ contended : Telling(k)

-----------------------------------------------------------------------------
(* What each action does to the keys, to the calls and to the log. *)

(* Generation adds a key that no call and no entry is about. *)
Generated(k) ==
  /\ k \notin DOMAIN keys
  /\ DOMAIN keys' = DOMAIN keys \cup {k}
  /\ keys' = [j \in DOMAIN keys' |-> keys'[j]]
  /\ \A j \in DOMAIN keys : keys'[j] = keys[j]
  /\ keys'[k] = [state |-> "generated", version |-> 1]
  /\ audit_log' = Append(audit_log, [key |-> k, action |-> "generate"])
  /\ turn' = turn /\ contended' = contended
  /\ [key |-> k, action |-> "generate"] \in Entry
  /\ keys'[k] \in Key

(* That is what generate does. *)
LEMMA GenerateMoves ==
  ASSUME KeyType, NEW k \in Keys, Generate(k) PROVE Generated(k)
BY DEF Generated, KeyType, Generate, Entry, Key, KeyStates, StateAfter

(* A change sets the state of its key, and its entry is still to come. *)
Changed(a, k, action) ==
  /\ k \in DOMAIN keys
  /\ DOMAIN keys' = DOMAIN keys
  /\ keys' = [j \in DOMAIN keys' |-> keys'[j]]
  /\ \A j \in DOMAIN keys : j # k => keys'[j] = keys[j]
  /\ keys'[k] \in Key
  /\ keys'[k].state = StateAfter[action]
  /\ keys'[k].version = keys[k].version
  /\ turn[a] = None
  /\ turn' = [turn EXCEPT ![a] = [key |-> k, action |-> action]]
  /\ [key |-> k, action |-> action] \in Turn
  /\ audit_log' = audit_log
  /\ contended' = Contended(a, k)

(* That is what activate, suspend, archive, destroy and rotate do first. *)
LEMMA ChangeMoves ==
  ASSUME KeyType, NEW a \in Actors, NEW k \in Keys, NEW action \in Calls,
         Change(a, k, action)
  PROVE  Changed(a, k, action)
<1>1. k \in DOMAIN keys /\ keys[k] \in Key
  BY DEF Change, KeyType
<1>2. StateAfter[action] \in KeyStates
  BY DEF StateAfter, KeyStates, Calls
<1>3. keys' = [keys EXCEPT ![k] = [keys[k] EXCEPT !.state = StateAfter[action]]]
  BY DEF Change
<1>4. PICK r : r = [keys[k] EXCEPT !.state = StateAfter[action]]
  BY ZenonT(30)
<1>5. r \in Key /\ r.state = StateAfter[action] /\ r.version = keys[k].version
  BY <1>1, <1>2, <1>4 DEF Key
<1>6. keys' = [keys EXCEPT ![k] = r]
  BY <1>3, <1>4
<1>7. [key |-> k, action |-> action] \in Turn
  BY DEF Turn, Calls
<1> QED
  BY <1>1, <1>5, <1>6, <1>7, ZenonT(30) DEF Change, KeyType, Changed

(* The completion of a rotation: the next version, active again. *)
LEMMA CompleteMoves ==
  ASSUME KeyType, NEW a \in Actors, CompleteRotation(a)
  PROVE  \E k \in DOMAIN keys :
         /\ turn[a] = [key |-> k, action |-> "rotating"]
         /\ DOMAIN keys' = DOMAIN keys
         /\ keys' = [j \in DOMAIN keys' |-> keys'[j]]
         /\ \A j \in DOMAIN keys : j # k => keys'[j] = keys[j]
         /\ keys'[k] = [state |-> "active", version |-> keys[k].version + 1]
         /\ keys'[k] \in Key
         /\ turn' = [turn EXCEPT ![a] = [key |-> k, action |-> "rotate_complete"]]
         /\ [key |-> k, action |-> "rotate_complete"] \in Turn
         /\ audit_log' = audit_log
         /\ contended' = Contended(a, k)
<1>1. turn[a].action = "rotating" /\ turn[a] # None
  BY DEF CompleteRotation, WrittenBefore, None
<1>2. PICK k \in DOMAIN keys : k = turn[a].key
  BY <1>1 DEF KeyType
<1>3. turn[a] \in Turn
  BY <1>1 DEF KeyType
<1>4. turn[a] = [key |-> k, action |-> "rotating"]
  BY <1>1, <1>2, <1>3 DEF Turn
<1>5. turn' = [turn EXCEPT ![a] = [turn[a] EXCEPT !.action = "rotate_complete"]]
  BY DEF CompleteRotation
<1>6. [turn[a] EXCEPT !.action = "rotate_complete"] = [key |-> k, action |-> "rotate_complete"]
  BY <1>4
<1>7. turn' = [turn EXCEPT ![a] = [key |-> k, action |-> "rotate_complete"]]
  BY <1>5, <1>6, ZenonT(30)
<1>8. k \in Keys /\ keys[k] \in Key
  BY DEF KeyType
<1>9. [key |-> k, action |-> "rotate_complete"] \in Turn
  BY <1>8 DEF Turn
<1>10. keys[k].version + 1 \in Nat
  BY <1>8 DEF Key
<1>11. [state |-> "active", version |-> keys[k].version + 1] \in Key
  BY <1>10 DEF Key, KeyStates
<1>12. keys' = [keys EXCEPT ![k] = [state |-> "active", version |-> keys[k].version + 1]]
  BY <1>2 DEF CompleteRotation, Completed
<1>13. /\ DOMAIN keys' = DOMAIN keys
       /\ keys' = [j \in DOMAIN keys' |-> keys'[j]]
       /\ \A j \in DOMAIN keys : j # k => keys'[j] = keys[j]
       /\ keys'[k] = [state |-> "active", version |-> keys[k].version + 1]
  BY <1>12, ZenonT(30) DEF KeyType
<1>14. audit_log' = audit_log /\ contended' = Contended(a, k)
  BY <1>2 DEF CompleteRotation
<1> QED
  BY <1>4, <1>7, <1>9, <1>11, <1>13, <1>14, ZenonT(30)

(* An entry: the call is over, or is a rotation that has to complete. *)
LEMMA AuditMoves ==
  ASSUME KeyType, NEW a \in Actors, Audit(a)
  PROVE  \E k \in DOMAIN keys, action \in DOMAIN StateAfter :
         /\ turn[a] = [key |-> k, action |-> action]
         /\ [key |-> k, action |-> action] \in Entry
         /\ audit_log' = Append(audit_log, [key |-> k, action |-> action])
         /\ \/ /\ action = "rotate_start"
               /\ turn' = [turn EXCEPT ![a] = [key |-> k, action |-> "rotating"]]
               /\ [key |-> k, action |-> "rotating"] \in Turn
            \/ /\ action # "rotate_start"
               /\ turn' = [turn EXCEPT ![a] = None]
         /\ keys' = keys /\ contended' = contended
<1>1. turn[a].action \in DOMAIN StateAfter /\ turn[a] # None
  BY DEF Audit, None, StateAfter
<1>2. PICK k \in DOMAIN keys : k = turn[a].key
  BY <1>1 DEF KeyType
<1>3. PICK action \in DOMAIN StateAfter : action = turn[a].action
  BY <1>1
<1>4. turn[a] \in Turn
  BY <1>1 DEF KeyType
<1>5. turn[a] = [key |-> k, action |-> action]
  BY <1>2, <1>3, <1>4 DEF Turn
<1>6. [key |-> k, action |-> action] \in Entry
  BY DEF Entry, KeyType
<1>7. [turn[a] EXCEPT !.action = "rotating"] = [key |-> k, action |-> "rotating"]
  BY <1>5
<1>8. [key |-> k, action |-> "rotating"] \in Turn
  BY DEF Turn, KeyType
<1>9. turn' = [turn EXCEPT ![a] =
        IF action = "rotate_start" THEN [key |-> k, action |-> "rotating"] ELSE None]
  BY <1>3, <1>7, ZenonT(30) DEF Audit
<1>10. audit_log' = Append(audit_log, [key |-> k, action |-> action])
  BY <1>5 DEF Audit
<1>11. keys' = keys /\ contended' = contended
  BY DEF Audit
<1> QED
  BY <1>5, <1>6, <1>8, <1>9, <1>10, <1>11, ZenonT(30)

-----------------------------------------------------------------------------
(* The log with one more entry. *)
LEMMA LogGrows ==
  ASSUME NEW log \in Seq(Entry), NEW e \in Entry, NEW new, new = Append(log, e)
  PROVE  /\ new \in Seq(Entry)
         /\ Len(log) \in Nat
         /\ DOMAIN log = 1 .. Len(log)
         /\ DOMAIN new = DOMAIN log \cup {Len(log) + 1}
         /\ Len(log) + 1 \notin DOMAIN log
         /\ \A i \in DOMAIN log : new[i] = log[i] /\ i <= Len(log) + 1
         /\ new[Len(log) + 1] = e
<1>1. PICK n \in Nat : n = Len(log)
  OBVIOUS
<1>2. /\ new \in Seq(Entry) /\ Len(new) = n + 1
      /\ \A i \in 1 .. n : new[i] = log[i]
      /\ new[n + 1] = e
      /\ DOMAIN new = 1 .. (n + 1) /\ DOMAIN log = 1 .. n
  BY <1>1
<1> QED
  BY <1>1, <1>2

(* Every step keeps the types. *)
LEMMA KeyTypeStep ==
  ASSUME KeyType, [KeyNext]_keyVars PROVE KeyType'
<1>1. ASSUME NEW k \in Keys, Generate(k) PROVE KeyType'
  <2>0. Generated(k)
    BY <1>1, GenerateMoves
  <2>1. PICK e \in Entry : e = [key |-> k, action |-> "generate"]
    BY <2>0 DEF Generated
  <2>2. /\ audit_log' = Append(audit_log, e) /\ turn' = turn
        /\ DOMAIN keys' = DOMAIN keys \cup {k}
        /\ keys' = [j \in DOMAIN keys' |-> keys'[j]]
        /\ \A j \in DOMAIN keys : keys'[j] = keys[j]
        /\ keys'[k] \in Key
    BY <2>0, <2>1 DEF Generated
  <2>3. keys' \in [DOMAIN keys' -> Key]
    BY <2>2 DEF KeyType
  <2>4. /\ audit_log' \in Seq(Entry)
        /\ \A i \in DOMAIN audit_log' : audit_log'[i].key \in DOMAIN keys'
    BY <2>1, <2>2, LogGrows DEF KeyType
  <2> QED
    BY <2>2, <2>3, <2>4 DEF KeyType
<1>2. ASSUME NEW a \in Actors, CompleteRotation(a) PROVE KeyType'
  <2>1. PICK k \in DOMAIN keys :
          /\ DOMAIN keys' = DOMAIN keys
          /\ keys' = [j \in DOMAIN keys' |-> keys'[j]]
          /\ \A j \in DOMAIN keys : j # k => keys'[j] = keys[j]
          /\ keys'[k] \in Key
          /\ turn' = [turn EXCEPT ![a] = [key |-> k, action |-> "rotate_complete"]]
          /\ [key |-> k, action |-> "rotate_complete"] \in Turn
          /\ audit_log' = audit_log
    BY <1>2, CompleteMoves, ZenonT(30)
  <2>2. keys' \in [DOMAIN keys' -> Key]
    BY <2>1 DEF KeyType
  <2> QED
    BY <2>1, <2>2 DEF KeyType
<1>3. ASSUME NEW a \in Actors, Audit(a) PROVE KeyType'
  <2>1. PICK k \in DOMAIN keys, action \in DOMAIN StateAfter :
          /\ [key |-> k, action |-> action] \in Entry
          /\ audit_log' = Append(audit_log, [key |-> k, action |-> action])
          /\ \/ /\ turn' = [turn EXCEPT ![a] = [key |-> k, action |-> "rotating"]]
                /\ [key |-> k, action |-> "rotating"] \in Turn
             \/ turn' = [turn EXCEPT ![a] = None]
          /\ keys' = keys
    BY <1>3, AuditMoves, ZenonT(30)
  <2>2. PICK e \in Entry : e = [key |-> k, action |-> action]
    BY <2>1
  <2>3. e.key = k
    BY <2>2
  <2>4. /\ audit_log' \in Seq(Entry)
        /\ \A i \in DOMAIN audit_log' : audit_log'[i].key \in DOMAIN keys'
    BY <2>1, <2>2, <2>3, LogGrows DEF KeyType
  <2>5. PICK next \in Turn \cup {None} :
          turn' = [turn EXCEPT ![a] = next] /\ (next # None => next.key = k)
    BY <2>1
  <2>6. /\ turn' \in [Actors -> Turn \cup {None}]
        /\ \A b \in Actors : turn'[b] # None => turn'[b].key \in DOMAIN keys
    BY <2>5 DEF KeyType
  <2> QED
    BY <2>1, <2>4, <2>6 DEF KeyType
<1>4. ASSUME NEW a \in Actors, NEW k \in Keys,
             NEW action \in Calls,
             Change(a, k, action)
      PROVE  KeyType'
  <2>0. Changed(a, k, action)
    BY <1>4, ChangeMoves
  <2>1. /\ k \in DOMAIN keys
        /\ DOMAIN keys' = DOMAIN keys
        /\ keys' = [j \in DOMAIN keys' |-> keys'[j]]
        /\ \A j \in DOMAIN keys : j # k => keys'[j] = keys[j]
        /\ keys'[k] \in Key
        /\ turn' = [turn EXCEPT ![a] = [key |-> k, action |-> action]]
        /\ [key |-> k, action |-> action] \in Turn
        /\ audit_log' = audit_log
    BY <2>0 DEF Changed
  <2>2. keys' \in [DOMAIN keys' -> Key]
    BY <2>1 DEF KeyType
  <2> QED
    BY <2>1, <2>2 DEF KeyType
<1>5. CASE UNCHANGED keyVars
  BY <1>5 DEF keyVars, KeyType
<1> QED
  BY <1>1, <1>2, <1>3, <1>4, <1>5 DEF KeyNext, Calls

(* Every step keeps a rotating key with a rotation of it. *)
LEMMA RotatingStep ==
  ASSUME KeyType, RotatingWhileRotated, [KeyNext]_keyVars PROVE RotatingWhileRotated'
<1> DEFINE By(k, a) == turn[a].key = k /\ turn[a].action \in {"rotate_start", "rotating"}
<1>0. /\ turn \in [Actors -> Turn \cup {None}]
      /\ \A k \in DOMAIN keys : keys[k].state = "rotating" => \E a \in Actors : By(k, a)
  BY DEF KeyType, RotatingWhileRotated
<1>1. ASSUME NEW k \in Keys, Generate(k) PROVE RotatingWhileRotated'
  <2>0. Generated(k)
    BY <1>1, GenerateMoves
  <2>1. /\ DOMAIN keys' = DOMAIN keys \cup {k}
        /\ \A j \in DOMAIN keys : keys'[j] = keys[j]
        /\ keys'[k] = [state |-> "generated", version |-> 1]
        /\ turn' = turn
    BY <2>0 DEF Generated
  <2>2. ASSUME NEW j \in DOMAIN keys', keys'[j].state = "rotating"
        PROVE  j \in DOMAIN keys /\ keys[j].state = "rotating"
    BY <2>1, <2>2
  <2> QED
    BY <1>0, <2>1, <2>2 DEF RotatingWhileRotated
<1>2. ASSUME NEW a \in Actors, CompleteRotation(a) PROVE RotatingWhileRotated'
  <2>1. PICK k \in DOMAIN keys :
          /\ turn[a] = [key |-> k, action |-> "rotating"]
          /\ DOMAIN keys' = DOMAIN keys
          /\ \A j \in DOMAIN keys : j # k => keys'[j] = keys[j]
          /\ keys'[k] = [state |-> "active", version |-> keys[k].version + 1]
          /\ turn' = [turn EXCEPT ![a] = [key |-> k, action |-> "rotate_complete"]]
    BY <1>2, CompleteMoves, ZenonT(30)
  <2>2. ASSUME NEW j \in DOMAIN keys', keys'[j].state = "rotating"
        PROVE  \E b \in Actors : By(j, b)'
    <3>1. j # k /\ keys[j].state = "rotating"
      BY <2>1, <2>2
    <3>2. PICK b \in Actors : By(j, b)
      BY <1>0, <2>1, <3>1
    <3>3. b # a
      BY <2>1, <3>1, <3>2
    <3> QED
      BY <1>0, <2>1, <3>2, <3>3
  <2> QED
    BY <2>2 DEF RotatingWhileRotated
<1>3. ASSUME NEW a \in Actors, Audit(a) PROVE RotatingWhileRotated'
  <2>1. PICK k \in DOMAIN keys, action \in DOMAIN StateAfter :
          /\ turn[a] = [key |-> k, action |-> action]
          /\ \/ /\ action = "rotate_start"
                /\ turn' = [turn EXCEPT ![a] = [key |-> k, action |-> "rotating"]]
             \/ /\ action # "rotate_start"
                /\ turn' = [turn EXCEPT ![a] = None]
          /\ keys' = keys
    BY <1>3, AuditMoves, ZenonT(30)
  <2>2. ASSUME NEW j \in DOMAIN keys, NEW b \in Actors, By(j, b) PROVE By(j, b)'
    <3>1. CASE b # a
      BY <1>0, <2>1, <2>2, <3>1
    <3>2. CASE b = a
      <4>1. action = "rotate_start" /\ j = k
        BY <2>1, <2>2, <3>2 DEF StateAfter
      <4> QED
        BY <1>0, <2>1, <3>2, <4>1
    <3> QED
      BY <3>1, <3>2
  <2> QED
    BY <1>0, <2>1, <2>2 DEF RotatingWhileRotated
<1>4. ASSUME NEW a \in Actors, NEW k \in Keys,
             NEW action \in Calls,
             Change(a, k, action)
      PROVE  RotatingWhileRotated'
  <2>0. Changed(a, k, action)
    BY <1>4, ChangeMoves
  <2>1. /\ DOMAIN keys' = DOMAIN keys
        /\ \A j \in DOMAIN keys : j # k => keys'[j] = keys[j]
        /\ keys'[k].state = StateAfter[action]
        /\ turn[a] = None
        /\ turn' = [turn EXCEPT ![a] = [key |-> k, action |-> action]]
    BY <2>0 DEF Changed
  <2>2. StateAfter[action] = "rotating" => action = "rotate_start"
    BY DEF StateAfter, Calls
  <2>3. ASSUME NEW j \in DOMAIN keys', keys'[j].state = "rotating"
        PROVE  \E b \in Actors : By(j, b)'
    <3>1. CASE j = k
      <4>1. By(k, a)'
        BY <1>0, <2>1, <2>2, <2>3, <3>1
      <4> QED
        BY <3>1, <4>1
    <3>2. CASE j # k
      <4>1. PICK b \in Actors : By(j, b)
        BY <1>0, <2>1, <2>3, <3>2
      <4>2. b # a
        BY <2>1, <4>1 DEF None
      <4> QED
        BY <1>0, <2>1, <4>1, <4>2
    <3> QED
      BY <3>1, <3>2
  <2> QED
    BY <2>3 DEF RotatingWhileRotated
<1>5. CASE UNCHANGED keyVars
  BY <1>5 DEF keyVars, RotatingWhileRotated
<1> QED
  BY <1>1, <1>2, <1>3, <1>4, <1>5 DEF KeyNext, Calls

-----------------------------------------------------------------------------
(* The entries about a key after one more entry. *)
LEMMA EntriesGrow ==
  ASSUME KeyType, NEW e \in Entry, audit_log' = Append(audit_log, e), NEW k
  PROVE  /\ e.key # k => EntriesOf(k)' = EntriesOf(k)
         /\ e.key = k => EntriesOf(k)' = EntriesOf(k) \cup {Len(audit_log) + 1}
         /\ \A i \in EntriesOf(k) : audit_log'[i] = audit_log[i] /\ i <= Len(audit_log) + 1
         /\ audit_log'[Len(audit_log) + 1] = e
         /\ Len(audit_log) + 1 \in Nat \ DOMAIN audit_log
<1>1. PICK n : n = Len(audit_log) + 1
  OBVIOUS
<1>2. /\ n \in Nat
      /\ DOMAIN audit_log' = DOMAIN audit_log \cup {n}
      /\ n \notin DOMAIN audit_log
      /\ \A i \in DOMAIN audit_log : audit_log'[i] = audit_log[i] /\ i <= n
      /\ audit_log'[n] = e
  BY <1>1, LogGrows DEF KeyType
<1> QED
  BY <1>1, <1>2 DEF EntriesOf

(* A key that a step leaves alone is told about as before. *)
LEMMA TellingKept ==
  ASSUME NEW j, Telling(j), keys'[j] = keys[j],
         \A a \in Actors : turn'[a].key = j \/ turn[a].key = j => turn'[a] = turn[a],
         EntriesOf(j)' = EntriesOf(j),
         \A i \in EntriesOf(j) : audit_log'[i] = audit_log[i]
  PROVE  Telling(j)'
<1>1. Told(j) => Told(j)'
  BY DEF Told
<1>2. Quiet(j)' => Quiet(j)
  BY DEF Quiet
<1>3. \A a \in Actors : turn'[a].key = j => turn[a].key = j /\ turn'[a] = turn[a]
  OBVIOUS
<1>4. (\A a, b \in Actors : turn[a].key = j /\ turn[b].key = j => a = b)'
  BY <1>3 DEF Telling
<1>5. (\A a \in Actors : turn[a].key = j /\ turn[a].action \in DOMAIN StateAfter
         => keys[j].state = StateAfter[turn[a].action])'
  BY <1>3 DEF Telling
<1> QED
  BY <1>1, <1>2, <1>4, <1>5 DEF Telling

(* A key that a call has just taken is told about: it is contended, or the *)
(* call is alone.                                                          *)
LEMMA TellingTaken ==
  ASSUME KeyType, NEW a \in Actors, NEW k, NEW action, contended' = Contended(a, k),
         turn' = [turn EXCEPT ![a] = [key |-> k, action |-> action]],
         keys'[k].state = StateAfter[action], k \notin contended'
  PROVE  Telling(k)'
<1>1. \A b \in Actors \ {a} : turn[b].key # k
  BY DEF Contended
<1>2. \A b \in Actors : turn'[b].key = k <=> b = a
  BY <1>1 DEF KeyType
<1>3. turn'[a].action = action
  BY DEF KeyType
<1> QED
  BY <1>2, <1>3 DEF Telling, Quiet

(* Every step keeps the keys told about. *)
LEMMA TellingStep ==
  ASSUME KeyType, TellingInv, [KeyNext]_keyVars PROVE TellingInv'
<1>0. /\ turn \in [Actors -> Turn \cup {None}]
      /\ \A a \in Actors : turn[a].key \in DOMAIN keys \/ turn[a].key \notin Keys
      /\ DOMAIN keys \subseteq Keys
      /\ None.key \notin Keys
  BY KeyAssumption DEF KeyType, None
<1>1. ASSUME NEW k \in Keys, Generate(k) PROVE TellingInv'
  <2>0. Generated(k)
    BY <1>1, GenerateMoves
  <2>1. PICK e \in Entry : e = [key |-> k, action |-> "generate"]
    BY <2>0 DEF Generated
  <2>2. /\ k \notin DOMAIN keys
        /\ DOMAIN keys' = DOMAIN keys \cup {k}
        /\ \A j \in DOMAIN keys : keys'[j] = keys[j]
        /\ keys'[k].state = "generated"
        /\ audit_log' = Append(audit_log, e)
        /\ turn' = turn /\ contended' = contended
    BY <2>0, <2>1 DEF Generated
  <2>3. e.key = k /\ StateAfter[e.action] = "generated"
    BY <2>1 DEF StateAfter
  <2>4. ASSUME NEW j \in DOMAIN keys \ contended PROVE Telling(j)'
    <3>1. e.key # j
      BY <2>2, <2>3
    <3>2. EntriesOf(j)' = EntriesOf(j) /\ \A i \in EntriesOf(j) : audit_log'[i] = audit_log[i]
      BY <2>2, <3>1, EntriesGrow, ZenonT(30)
    <3> QED
      BY <2>2, <3>2, TellingKept, ZenonT(30) DEF TellingInv
  <2>5. Telling(k)'
    <3>1. \A a \in Actors : turn'[a].key # k
      BY <1>0, <2>2
    <3>2. PICK n \in Nat : n = Len(audit_log) + 1
      BY <2>2, EntriesGrow
    <3>3. /\ EntriesOf(k)' = EntriesOf(k) \cup {n}
          /\ \A i \in EntriesOf(k) : i <= n
          /\ audit_log'[n] = e
      BY <2>2, <2>3, <3>2, EntriesGrow
    <3>4. /\ n \in EntriesOf(k)' /\ \A i \in EntriesOf(k)' : i <= n
          /\ keys'[k].state = StateAfter[audit_log'[n].action]
      BY <2>2, <2>3, <3>3
    <3>5. Told(k)'
      BY <3>4 DEF Told
    <3> QED
      BY <3>1, <3>5 DEF Telling
  <2> QED
    BY <2>2, <2>4, <2>5 DEF TellingInv
<1>2. ASSUME NEW a \in Actors, CompleteRotation(a) PROVE TellingInv'
  <2>1. PICK k \in DOMAIN keys :
          /\ turn[a] = [key |-> k, action |-> "rotating"]
          /\ DOMAIN keys' = DOMAIN keys
          /\ \A j \in DOMAIN keys : j # k => keys'[j] = keys[j]
          /\ keys'[k] = [state |-> "active", version |-> keys[k].version + 1]
          /\ turn' = [turn EXCEPT ![a] = [key |-> k, action |-> "rotate_complete"]]
          /\ audit_log' = audit_log
          /\ contended' = Contended(a, k)
    BY <1>2, CompleteMoves, ZenonT(30)
  <2>2. ASSUME NEW j \in DOMAIN keys \ contended', j # k PROVE Telling(j)'
    <3>1. j \notin contended
      BY <2>1 DEF Contended
    <3>2. turn[a].key # j /\ turn'[a].key # j
      BY <1>0, <2>1, <2>2
    <3>3. \A b \in Actors : turn'[b].key = j \/ turn[b].key = j => turn'[b] = turn[b]
      BY <1>0, <2>1, <3>2
    <3>4. EntriesOf(j)' = EntriesOf(j) /\ keys'[j] = keys[j]
      BY <2>1, <2>2 DEF EntriesOf
    <3> QED
      BY <2>1, <3>1, <3>3, <3>4, TellingKept DEF TellingInv
  <2>3. ASSUME k \notin contended' PROVE Telling(k)'
    <3>1. keys'[k].state = StateAfter["rotate_complete"]
      BY <2>1 DEF StateAfter
    <3> QED
      BY <2>1, <2>3, <3>1, TellingTaken, ZenonT(30)
  <2> QED
    BY <2>1, <2>2, <2>3 DEF TellingInv
<1>3. ASSUME NEW a \in Actors, Audit(a) PROVE TellingInv'
  <2>1. PICK k \in DOMAIN keys, action \in DOMAIN StateAfter :
          /\ turn[a] = [key |-> k, action |-> action]
          /\ [key |-> k, action |-> action] \in Entry
          /\ audit_log' = Append(audit_log, [key |-> k, action |-> action])
          /\ \/ turn' = [turn EXCEPT ![a] = [key |-> k, action |-> "rotating"]]
             \/ turn' = [turn EXCEPT ![a] = None]
          /\ keys' = keys /\ contended' = contended
    BY <1>3, AuditMoves, ZenonT(30)
  <2>2. PICK e \in Entry : e = [key |-> k, action |-> action]
    BY <2>1
  <2>3. e.key = k /\ e.action = action /\ audit_log' = Append(audit_log, e)
    BY <2>1, <2>2
  <2>4. ASSUME NEW j \in DOMAIN keys \ contended, j # k PROVE Telling(j)'
    <3>1. EntriesOf(j)' = EntriesOf(j) /\ \A i \in EntriesOf(j) : audit_log'[i] = audit_log[i]
      BY <2>3, <2>4, EntriesGrow, ZenonT(30)
    <3>2. turn[a].key # j /\ turn'[a].key # j
      BY <1>0, <2>1, <2>4
    <3>3. \A b \in Actors : turn'[b].key = j \/ turn[b].key = j => turn'[b] = turn[b]
      BY <1>0, <2>1, <3>2
    <3> QED
      BY <2>1, <3>1, <3>3, TellingKept, ZenonT(30) DEF TellingInv
  <2>5. ASSUME k \notin contended PROVE Telling(k)'
    <3>1. Telling(k)
      BY <2>5 DEF TellingInv
    <3>2. keys'[k].state = StateAfter[e.action]
      BY <2>1, <2>3, <3>1 DEF Telling
    <3>3. PICK n \in Nat : n = Len(audit_log) + 1
      BY <2>3, EntriesGrow
    <3>4. /\ EntriesOf(k)' = EntriesOf(k) \cup {n}
          /\ \A i \in EntriesOf(k) : i <= n
          /\ audit_log'[n] = e
      BY <2>3, <3>3, EntriesGrow
    <3>5. Told(k)'
      BY <3>2, <3>4 DEF Told
    <3>6. \A b \in Actors : turn'[b].key = k => b = a /\ turn'[b].action \notin DOMAIN StateAfter
      <4>1. \A b \in Actors : b # a => turn'[b] = turn[b] /\ turn[b].key # k
        BY <1>0, <2>1, <3>1 DEF Telling
      <4>2. turn'[a].key = k => turn'[a].action = "rotating"
        BY <1>0, <2>1
      <4>3. "rotating" \notin DOMAIN StateAfter
        BY DEF StateAfter
      <4> QED
        BY <4>1, <4>2, <4>3
    <3> QED
      BY <3>5, <3>6 DEF Telling
  <2> QED
    BY <2>1, <2>4, <2>5 DEF TellingInv
<1>4. ASSUME NEW a \in Actors, NEW k \in Keys, NEW action \in Calls, Change(a, k, action)
      PROVE  TellingInv'
  <2>0. Changed(a, k, action)
    BY <1>4, ChangeMoves
  <2>1. /\ k \in DOMAIN keys
        /\ DOMAIN keys' = DOMAIN keys
        /\ \A j \in DOMAIN keys : j # k => keys'[j] = keys[j]
        /\ keys'[k].state = StateAfter[action]
        /\ turn[a] = None
        /\ turn' = [turn EXCEPT ![a] = [key |-> k, action |-> action]]
        /\ audit_log' = audit_log
        /\ contended' = Contended(a, k)
    BY <2>0 DEF Changed
  <2>2. ASSUME NEW j \in DOMAIN keys \ contended', j # k PROVE Telling(j)'
    <3>1. j \notin contended
      BY <2>1 DEF Contended
    <3>2. turn[a].key # j /\ turn'[a].key # j
      BY <1>0, <2>1, <2>2
    <3>3. \A b \in Actors : turn'[b].key = j \/ turn[b].key = j => turn'[b] = turn[b]
      BY <1>0, <2>1, <3>2
    <3>4. EntriesOf(j)' = EntriesOf(j) /\ keys'[j] = keys[j]
      BY <2>1, <2>2 DEF EntriesOf
    <3> QED
      BY <2>1, <3>1, <3>3, <3>4, TellingKept DEF TellingInv
  <2>3. ASSUME k \notin contended' PROVE Telling(k)'
    BY <2>1, <2>3, TellingTaken, ZenonT(30)
  <2> QED
    BY <2>1, <2>2, <2>3 DEF TellingInv
<1>5. CASE UNCHANGED keyVars
  BY <1>5 DEF keyVars, TellingInv, Telling, Told, Quiet, EntriesOf
<1> QED
  BY <1>1, <1>2, <1>3, <1>4, <1>5 DEF KeyNext, Calls

-----------------------------------------------------------------------------
(* How many entries about a key have an action, and how many calls. *)
Entered(k, x) == Cardinality(Written(k, x))
Calling(k, x) == Cardinality(Underway(k, x))

VersionsOf(k) ==
  /\ keys[k].version = 1 + Entered(k, "rotate_complete") + Calling(k, "rotate_complete")
  /\ Entered(k, "rotate_start") = keys[k].version - 1 + Calling(k, "rotating")

(* They are numbers. *)
LEMMA CountsAreNat ==
  ASSUME KeyType, NEW k, NEW x
  PROVE  /\ IsFiniteSet(Written(k, x)) /\ Entered(k, x) \in Nat
         /\ IsFiniteSet(Underway(k, x)) /\ Calling(k, x) \in Nat
<1>1. PICK n \in Nat : DOMAIN audit_log = 1 .. n
  BY DEF KeyType
<1>2. IsFiniteSet(1 .. n)
  BY FS_Interval
<1>3. Written(k, x) \subseteq 1 .. n /\ Underway(k, x) \subseteq Actors
  BY <1>1 DEF Written, EntriesOf, Underway
<1>4. IsFiniteSet(Written(k, x)) /\ IsFiniteSet(Underway(k, x))
  BY <1>2, <1>3, FS_Subset, KeyAssumption
<1> QED
  BY <1>4, FS_CardinalityType DEF Entered, Calling

(* One more entry. *)
LEMMA EnteredGrows ==
  ASSUME KeyType, NEW e \in Entry, audit_log' = Append(audit_log, e), NEW k, NEW x
  PROVE  /\ e.key = k /\ e.action = x => Entered(k, x)' = Entered(k, x) + 1
         /\ e.key # k \/ e.action # x => Entered(k, x)' = Entered(k, x)
<1>1. PICK n \in Nat : n = Len(audit_log) + 1
  BY EntriesGrow
<1>2. /\ e.key # k => EntriesOf(k)' = EntriesOf(k)
      /\ e.key = k => EntriesOf(k)' = EntriesOf(k) \cup {n}
      /\ \A i \in EntriesOf(k) : audit_log'[i] = audit_log[i]
      /\ audit_log'[n] = e
      /\ n \notin DOMAIN audit_log
  BY <1>1, EntriesGrow, ZenonT(30)
<1>3. n \notin Written(k, x)
  BY <1>2 DEF Written, EntriesOf
<1>4. CASE e.key = k /\ e.action = x
  <2>1. Written(k, x)' = Written(k, x) \cup {n}
    BY <1>2, <1>4, ZenonT(30) DEF Written
  <2>2. Cardinality(Written(k, x) \cup {n}) = Cardinality(Written(k, x)) + 1
    BY <1>3, CountsAreNat, FS_AddElement, ZenonT(30)
  <2> QED
    BY <1>4, <2>1, <2>2 DEF Entered
<1>5. CASE e.key # k \/ e.action # x
  <2>1. Written(k, x)' = Written(k, x)
    BY <1>2, <1>5, ZenonT(30) DEF Written
  <2> QED
    BY <1>5, <2>1 DEF Entered
<1> QED
  BY <1>4, <1>5

(* An actor that goes from one thing to another. *)
On(t, k, x) == t = [key |-> k, action |-> x]

Moved(a, t, k, x) ==
  /\ ~On(turn[a], k, x) /\ On(t, k, x) => Calling(k, x)' = Calling(k, x) + 1
  /\ On(turn[a], k, x) /\ ~On(t, k, x) => Calling(k, x)' = Calling(k, x) - 1
  /\ ~On(turn[a], k, x) /\ ~On(t, k, x) => Calling(k, x)' = Calling(k, x)

(* The number of calls follows what one actor does. *)
LEMMA CallingMoves ==
  ASSUME KeyType, NEW a \in Actors, NEW t, turn' = [turn EXCEPT ![a] = t], NEW k, NEW x
  PROVE  Moved(a, t, k, x)
<1> DEFINE r == [key |-> k, action |-> x]
<1>0. \A u : On(u, k, x) <=> u = r
  BY DEF On
<1> HIDE DEF r
<1>1. /\ Underway(k, x) = {b \in Actors : turn[b] = r}
      /\ Underway(k, x)' = {b \in Actors : turn'[b] = r}
  BY DEF Underway, r
<1>2. turn'[a] = t /\ \A b \in Actors : b # a => turn'[b] = turn[b]
  BY DEF KeyType
<1>3. CASE turn[a] # r /\ t = r
  <2>1. Underway(k, x)' = Underway(k, x) \cup {a} /\ a \notin Underway(k, x)
    BY <1>1, <1>2, <1>3
  <2>2. Cardinality(Underway(k, x) \cup {a}) = Cardinality(Underway(k, x)) + 1
    BY <2>1, CountsAreNat, FS_AddElement, ZenonT(30)
  <2> QED
    BY <1>0, <1>3, <2>1, <2>2 DEF Calling, Moved
<1>4. CASE turn[a] = r /\ t # r
  <2>1. Underway(k, x)' = Underway(k, x) \ {a} /\ a \in Underway(k, x)
    BY <1>1, <1>2, <1>4
  <2>2. Cardinality(Underway(k, x) \ {a}) = Cardinality(Underway(k, x)) - 1
    BY <2>1, CountsAreNat, FS_RemoveElement, ZenonT(30)
  <2> QED
    BY <1>0, <1>4, <2>1, <2>2 DEF Calling, Moved
<1>5. CASE turn[a] # r /\ t # r
  <2>1. Underway(k, x)' = Underway(k, x)
    BY <1>1, <1>2, <1>5
  <2> QED
    BY <1>0, <1>5, <2>1 DEF Calling, Moved
<1> QED
  BY <1>0, <1>3, <1>4, <1>5 DEF Moved

(* A key that a step leaves alone. *)
LEMMA VersionsKept ==
  ASSUME NEW j, VersionsOf(j), keys'[j].version = keys[j].version,
         Entered(j, "rotate_complete")' = Entered(j, "rotate_complete"),
         Entered(j, "rotate_start")' = Entered(j, "rotate_start"),
         Calling(j, "rotate_complete")' = Calling(j, "rotate_complete"),
         Calling(j, "rotating")' = Calling(j, "rotating")
  PROVE  VersionsOf(j)'
BY DEF VersionsOf

(* Every step keeps the versions and the rotations in step. *)
LEMMA VersionStep ==
  ASSUME KeyType, \A k \in DOMAIN keys : VersionsOf(k), [KeyNext]_keyVars
  PROVE  \A k \in DOMAIN keys' : VersionsOf(k)'
<1>0. /\ \A a \in Actors : turn[a].key \in DOMAIN keys \/ turn[a].key \notin Keys
      /\ DOMAIN keys \subseteq Keys
      /\ None.key \notin Keys
  BY KeyAssumption DEF KeyType, None
<1>1. ASSUME NEW k \in Keys, Generate(k), NEW j \in DOMAIN keys' PROVE VersionsOf(j)'
  <2>0. Generated(k)
    BY <1>1, GenerateMoves
  <2>1. PICK e \in Entry : e = [key |-> k, action |-> "generate"]
    BY <2>0 DEF Generated
  <2>2. /\ k \notin DOMAIN keys
        /\ DOMAIN keys' = DOMAIN keys \cup {k}
        /\ \A i \in DOMAIN keys : keys'[i] = keys[i]
        /\ keys'[k].version = 1
        /\ audit_log' = Append(audit_log, e)
        /\ turn' = turn
    BY <2>0, <2>1 DEF Generated
  <2>3. e.action = "generate"
    BY <2>1
  <2>4. /\ Entered(j, "rotate_complete")' = Entered(j, "rotate_complete")
        /\ Entered(j, "rotate_start")' = Entered(j, "rotate_start")
    BY <2>2, <2>3, EnteredGrows
  <2>5. \A x : Calling(j, x)' = Calling(j, x)
    BY <2>2 DEF Calling, Underway
  <2>6. CASE j # k
    BY <2>2, <2>4, <2>5, <2>6, VersionsKept
  <2>7. CASE j = k
    <3>1. ASSUME NEW x PROVE Written(k, x) = {} /\ Underway(k, x) = {}
      <4>1. Written(k, x) = {}
        BY <2>2 DEF Written, EntriesOf, KeyType
      <4>2. \A a \in Actors : turn[a].key # k
        BY <1>0, <2>2
      <4> QED
        BY <4>1, <4>2 DEF Underway
    <3>2. \A x : Entered(k, x) = 0 /\ Calling(k, x) = 0
      BY <3>1, FS_EmptySet DEF Entered, Calling
    <3> QED
      BY <2>2, <2>4, <2>5, <2>7, <3>2 DEF VersionsOf
  <2> QED
    BY <2>6, <2>7
<1>2. ASSUME NEW a \in Actors, CompleteRotation(a), NEW j \in DOMAIN keys' PROVE VersionsOf(j)'
  <2>1. PICK k \in DOMAIN keys :
          /\ turn[a] = [key |-> k, action |-> "rotating"]
          /\ DOMAIN keys' = DOMAIN keys
          /\ \A i \in DOMAIN keys : i # k => keys'[i] = keys[i]
          /\ keys'[k] = [state |-> "active", version |-> keys[k].version + 1]
          /\ turn' = [turn EXCEPT ![a] = [key |-> k, action |-> "rotate_complete"]]
          /\ audit_log' = audit_log
    BY <1>2, CompleteMoves, ZenonT(30)
  <2>2. PICK t : t = [key |-> k, action |-> "rotate_complete"]
    BY ZenonT(30)
  <2>3. turn' = [turn EXCEPT ![a] = t]
    BY <2>1, <2>2
  <2>4. \A x :
           /\ On(turn[a], j, x) <=> j = k /\ x = "rotating"
           /\ On(t, j, x) <=> j = k /\ x = "rotate_complete"
    BY <2>1, <2>2 DEF On
  <2>5. Moved(a, t, j, "rotate_complete") /\ Moved(a, t, j, "rotating")
    BY <2>3, CallingMoves, ZenonT(30)
  <2>6. \A x : Entered(j, x)' = Entered(j, x)
    BY <2>1 DEF Entered, Written, EntriesOf
  <2>7. CASE j # k
    <3>1. /\ Calling(j, "rotate_complete")' = Calling(j, "rotate_complete")
          /\ Calling(j, "rotating")' = Calling(j, "rotating")
      BY <2>7, <2>3, <2>4, <2>5 DEF Moved
    <3> QED
      BY <2>1, <2>6, <2>7, <3>1, VersionsKept
  <2>8. CASE j = k
    <3>1. Calling(k, "rotate_complete")' = Calling(k, "rotate_complete") + 1
      BY <2>8, <2>3, <2>4, <2>5 DEF Moved
    <3>2. Calling(k, "rotating")' = Calling(k, "rotating") - 1
      BY <2>8, <2>3, <2>4, <2>5 DEF Moved
    <3>3. PICK v, c, s, d, g \in Nat :
            /\ v = keys[k].version
            /\ c = Entered(k, "rotate_complete") /\ s = Entered(k, "rotate_start")
            /\ d = Calling(k, "rotate_complete") /\ g = Calling(k, "rotating")
      BY CountsAreNat DEF KeyType, Key
    <3>4. v = 1 + c + d /\ s = v - 1 + g /\ keys'[k].version = v + 1
      BY <2>1, <3>3 DEF VersionsOf
    <3> QED
      BY <2>6, <2>8, <3>1, <3>2, <3>3, <3>4 DEF VersionsOf
  <2> QED
    BY <2>7, <2>8
<1>3. ASSUME NEW a \in Actors, Audit(a), NEW j \in DOMAIN keys' PROVE VersionsOf(j)'
  <2>1. PICK k \in DOMAIN keys, action \in DOMAIN StateAfter :
          /\ turn[a] = [key |-> k, action |-> action]
          /\ [key |-> k, action |-> action] \in Entry
          /\ audit_log' = Append(audit_log, [key |-> k, action |-> action])
          /\ \/ /\ action = "rotate_start"
                /\ turn' = [turn EXCEPT ![a] = [key |-> k, action |-> "rotating"]]
             \/ /\ action # "rotate_start"
                /\ turn' = [turn EXCEPT ![a] = None]
          /\ keys' = keys
    BY <1>3, AuditMoves, ZenonT(30)
  <2>2. PICK e \in Entry : e = [key |-> k, action |-> action]
    BY <2>1
  <2>3. e.key = k /\ e.action = action /\ audit_log' = Append(audit_log, e)
    BY <2>1, <2>2
  <2>4. PICK t : /\ turn' = [turn EXCEPT ![a] = t]
                 /\ action = "rotate_start" => t = [key |-> k, action |-> "rotating"]
                 /\ action # "rotate_start" => t = None
    BY <2>1, ZenonT(30)
  <2>5. \A x :
          /\ On(turn[a], j, x) <=> j = k /\ x = action
          /\ On(t, j, x) <=> j = k /\ x = "rotating" /\ action = "rotate_start"
    BY <1>0, <2>1, <2>4 DEF On, None
  <2>6. action # "rotating"
    BY DEF StateAfter
  <2>7. Moved(a, t, j, "rotate_complete") /\ Moved(a, t, j, "rotating")
    BY <2>4, CallingMoves, ZenonT(30)
  <2>8. CASE j # k \/ action \notin {"rotate_start", "rotate_complete"}
    <3>1. /\ Entered(j, "rotate_complete")' = Entered(j, "rotate_complete")
          /\ Entered(j, "rotate_start")' = Entered(j, "rotate_start")
      BY <2>3, <2>8, EnteredGrows
    <3>2. /\ Calling(j, "rotate_complete")' = Calling(j, "rotate_complete")
          /\ Calling(j, "rotating")' = Calling(j, "rotating")
      BY <2>5, <2>8, <2>6, <2>7 DEF Moved
    <3> QED
      BY <2>1, <3>1, <3>2, VersionsKept
  <2>9. PICK v, c, s, d, g \in Nat :
          /\ v = keys[k].version
          /\ c = Entered(k, "rotate_complete") /\ s = Entered(k, "rotate_start")
          /\ d = Calling(k, "rotate_complete") /\ g = Calling(k, "rotating")
    BY CountsAreNat DEF KeyType, Key
  <2>10. v = 1 + c + d /\ s = v - 1 + g /\ keys'[k].version = v
    BY <2>1, <2>9 DEF VersionsOf
  <2>11. CASE j = k /\ action = "rotate_start"
    <3>1. Entered(k, "rotate_complete")' = c /\ Entered(k, "rotate_start")' = s + 1
      BY <2>3, <2>9, <2>11, EnteredGrows
    <3>2. Calling(k, "rotate_complete")' = d
      BY <2>5, <2>9, <2>11, <2>7 DEF Moved
    <3>3. Calling(k, "rotating")' = g + 1
      BY <2>5, <2>9, <2>11, <2>7 DEF Moved
    <3> QED
      BY <2>10, <2>11, <3>1, <3>2, <3>3 DEF VersionsOf
  <2>12. CASE j = k /\ action = "rotate_complete"
    <3>1. Entered(k, "rotate_complete")' = c + 1 /\ Entered(k, "rotate_start")' = s
      BY <2>3, <2>9, <2>12, EnteredGrows, ZenonT(30)
    <3>2. Calling(k, "rotate_complete")' = d - 1
      BY <2>5, <2>9, <2>12, <2>7, ZenonT(30) DEF Moved
    <3>3. Calling(k, "rotating")' = g
      BY <2>5, <2>9, <2>12, <2>7 DEF Moved
    <3> QED
      BY <2>10, <2>12, <3>1, <3>2, <3>3 DEF VersionsOf
  <2> QED
    BY <2>8, <2>11, <2>12
<1>4. ASSUME NEW a \in Actors, NEW k \in Keys, NEW action \in Calls, Change(a, k, action),
             NEW j \in DOMAIN keys'
      PROVE  VersionsOf(j)'
  <2>0. Changed(a, k, action)
    BY <1>4, ChangeMoves
  <2>1. /\ k \in DOMAIN keys
        /\ DOMAIN keys' = DOMAIN keys
        /\ \A i \in DOMAIN keys : i # k => keys'[i] = keys[i]
        /\ keys'[k].version = keys[k].version
        /\ turn[a] = None
        /\ turn' = [turn EXCEPT ![a] = [key |-> k, action |-> action]]
        /\ audit_log' = audit_log
    BY <2>0 DEF Changed
  <2>2. \A x : Entered(j, x)' = Entered(j, x)
    BY <2>1 DEF Entered, Written, EntriesOf
  <2>3. action \notin {"rotating", "rotate_complete"}
    BY DEF Calls
  <2>4. PICK t : t = [key |-> k, action |-> action]
    BY ZenonT(30)
  <2>5. turn' = [turn EXCEPT ![a] = t]
    BY <2>1, <2>4
  <2>6. \A x : ~On(turn[a], j, x) /\ (On(t, j, x) => x = action)
    BY <1>0, <2>1, <2>4 DEF On, None
  <2>7. Moved(a, t, j, "rotate_complete") /\ Moved(a, t, j, "rotating")
    BY <2>5, CallingMoves, ZenonT(30)
  <2>8. /\ Calling(j, "rotate_complete")' = Calling(j, "rotate_complete")
        /\ Calling(j, "rotating")' = Calling(j, "rotating")
    BY <2>3, <2>6, <2>7 DEF Moved
  <2> QED
    BY <2>1, <2>2, <2>8, VersionsKept
<1>5. CASE UNCHANGED keyVars
  BY <1>5, ZenonT(30) DEF keyVars, VersionsOf, Entered, Calling, Written, Underway, EntriesOf
<1> QED
  BY <1>1, <1>2, <1>3, <1>4, <1>5 DEF KeyNext, Calls

-----------------------------------------------------------------------------
(* The inductive invariant. *)
KeyInv ==
  KeyType /\ RotatingWhileRotated /\ TellingInv /\ \A k \in DOMAIN keys : VersionsOf(k)

(* At the start there are no keys. *)
LEMMA KeyStart == KeyInit => KeyInv
<1> SUFFICES ASSUME KeyInit PROVE KeyInv
  OBVIOUS
<1>1. keys = <<>> /\ DOMAIN keys = {} /\ audit_log = <<>> /\ DOMAIN audit_log = {}
  BY DEF KeyInit
<1>2. turn = [a \in Actors |-> None]
  BY DEF KeyInit
<1>3. keys \in [DOMAIN keys -> Key]
  BY <1>1
<1>4. audit_log \in Seq(Entry)
  BY <1>1
<1> QED
  BY <1>1, <1>2, <1>3, <1>4 DEF KeyInv, KeyType, RotatingWhileRotated, TellingInv

(* What the invariant says of the log and the keys. *)
LEMMA KeyTells == KeyInv => LogTellsKeys
<1> SUFFICES ASSUME KeyInv PROVE LogTellsKeys
  OBVIOUS
<1>1. ASSUME NEW k \in DOMAIN keys, Quiet(k), k \notin contended
      PROVE  keys[k].state = StateAfter[audit_log[Max(EntriesOf(k))].action]
  <2>1. PICK i \in EntriesOf(k) :
          /\ \A j \in EntriesOf(k) : j <= i
          /\ keys[k].state = StateAfter[audit_log[i].action]
    BY <1>1, ZenonT(30) DEF KeyInv, TellingInv, Telling, Told
  <2>2. EntriesOf(k) \subseteq Nat
    BY DEF EntriesOf, KeyInv, KeyType
  <2>3. Max(EntriesOf(k)) = i
    <3>1. \A j \in EntriesOf(k) : i >= j
      BY <2>1, <2>2
    <3>2. /\ Max(EntriesOf(k)) \in EntriesOf(k)
          /\ \A j \in EntriesOf(k) : Max(EntriesOf(k)) >= j
      BY <2>1, <3>1 DEF Max
    <3> QED
      BY <2>2, <3>1, <3>2
  <2> QED
    BY <2>1, <2>3
<1>2. VersionsAreRotations
  BY DEF KeyInv, VersionsOf, VersionsAreRotations, Entered, Calling
<1> QED
  BY <1>1, <1>2 DEF KeyInv, LogTellsKeys, LastEntryTellsState

(* The audit log tells what became of the keys, for any number of keys,    *)
(* actors and calls: the last entry about a key at rest names its state,   *)
(* unless calls on it overlapped; no key is left in Rotating; and every    *)
(* version is a rotation whose start and completion are in the log.        *)
THEOREM KeySafety == KeySpec => []LogTellsKeys
<1>1. KeyInv /\ [KeyNext]_keyVars => KeyInv'
  BY KeyTypeStep, RotatingStep, TellingStep, VersionStep DEF KeyInv
<1> QED
  BY <1>1, KeyStart, KeyTells, PTL DEF KeySpec

-----------------------------------------------------------------------------
(* The revocation index. *)

(* A binding recorded, and the types of the index. *)
IndexTypes ==
  /\ bindings \in Seq([artifact : Bound, states : SUBSET States])
  /\ revoked_states \in [States -> Nat]
  /\ marks = [a \in DOMAIN marks |-> marks[a]]

IndexInv == IndexTypes /\ MarksFollowRevocations

(* The artifacts of a state, and the states of an artifact, in a set of    *)
(* bindings.                                                               *)
LEMMA BindingSets ==
  ASSUME NEW B, NEW a, NEW f
  PROVE  /\ a \in {b.artifact : b \in {b \in B : f \in b.states}}
              <=> \E b \in B : b.artifact = a /\ f \in b.states
         /\ f \in UNION {b.states : b \in {b \in B : b.artifact = a}}
              <=> \E b \in B : b.artifact = a /\ f \in b.states
<1>1. a \in {b.artifact : b \in {b \in B : f \in b.states}}
        <=> \E b \in B : b.artifact = a /\ f \in b.states
  OBVIOUS
<1>2. f \in UNION {b.states : b \in {b \in B : b.artifact = a}}
        <=> \E b \in B : b.artifact = a /\ f \in b.states
  BY Zenon
<1> QED
  BY <1>1, <1>2

(* The causes of an artifact's mark, before and after a step. *)
LEMMA CausesOf ==
  ASSUME NEW a, NEW f
  PROVE  /\ f \in Causes(a) <=>
              f \in Revoked /\ \E b \in Range(bindings) : b.artifact = a /\ f \in b.states
         /\ f \in Causes(a)' <=>
              f \in Revoked' /\ \E b \in Range(bindings') : b.artifact = a /\ f \in b.states
         /\ a \in BoundTo(f) <=>
              \E b \in Range(bindings) : b.artifact = a /\ f \in b.states
<1>1. f \in Causes(a) <=>
        f \in Revoked /\ f \in UNION {b.states : b \in {b \in Range(bindings) : b.artifact = a}}
  BY DEF Causes
<1>2. f \in Causes(a)' <=>
        f \in Revoked' /\ f \in UNION {b.states : b \in {b \in Range(bindings') : b.artifact = a}}
  BY DEF Causes
<1>3. PICK B, C : B = Range(bindings) /\ C = Range(bindings')
  OBVIOUS
<1>4. a \in BoundTo(f) <=> \E b \in B : b.artifact = a /\ f \in b.states
  BY <1>3, BindingSets DEF BoundTo
<1>5. /\ f \in UNION {b.states : b \in {b \in B : b.artifact = a}}
           <=> \E b \in B : b.artifact = a /\ f \in b.states
      /\ f \in UNION {b.states : b \in {b \in C : b.artifact = a}}
           <=> \E b \in C : b.artifact = a /\ f \in b.states
  BY BindingSets
<1> QED
  BY <1>1, <1>2, <1>3, <1>4, <1>5, Zenon

(* The marks after a call. *)
LEMMA MarkSets ==
  ASSUME NEW A, NEW mark, Mark(A, mark)
  PROVE  /\ marks' = [a \in DOMAIN marks' |-> marks'[a]]
         /\ \A a \in A : a \in DOMAIN marks' /\ marks'[a] = mark
         /\ \A a : a \notin A =>
              /\ a \in DOMAIN marks' <=> a \in DOMAIN marks
              /\ a \in DOMAIN marks => marks'[a] = marks[a]
BY DEF Mark

(* Every call of the index keeps its invariant. *)
LEMMA IndexStep ==
  ASSUME IndexInv, [IndexNext]_indexVars
  PROVE  IndexInv'
<1>1. ASSUME NEW a \in Bound, NEW states \in SUBSET States, Bind(a, states)
      PROVE  IndexInv'
  <2> DEFINE b == [artifact |-> a, states |-> states]
  <2>1. /\ bindings' = Append(bindings, b) /\ b \in [artifact : Bound, states : SUBSET States]
        /\ marks' = marks /\ revoked_states' = revoked_states /\ Revoked' = Revoked
    BY <1>1 DEF Bind, Revoked
  <2>2. Range(bindings') = Range(bindings) \cup {b}
    BY <2>1 DEF IndexInv, IndexTypes, Range
  <2>3. ASSUME NEW c, NEW f
        PROVE  f \in Causes(c)' <=> f \in Causes(c) \/ (c = a /\ f \in states \cap Revoked)
    BY <2>1, <2>2, CausesOf
  <2>4. \A c : Causes(c) \subseteq Causes(c)'
    BY <2>3
  <2>5. \A c : c # a \/ states \cap Revoked = {} => Causes(c)' \subseteq Causes(c)
    BY <2>3
  <2>6. IndexTypes'
    BY <2>1 DEF IndexInv, IndexTypes
  <2>7. MarkHasCause'
    BY <2>1, <2>4 DEF IndexInv, MarksFollowRevocations, MarkHasCause
  <2>8. MarkedUnlessOverlooked'
    BY <1>1, <2>1, <2>4, <2>5, ZenonT(30) DEF IndexInv, MarksFollowRevocations, MarkedUnlessOverlooked, Bind
  <2> QED
    BY <2>6, <2>7, <2>8 DEF IndexInv, MarksFollowRevocations
<1>2. ASSUME NEW f \in States, RevokeState(f)
      PROVE  IndexInv'
  <2>1. /\ bindings' = bindings /\ Mark(BoundTo(f), "marked")
        /\ revoked_states' \in [States -> Nat] /\ Revoked' = Revoked \cup {f}
        /\ overlooked' = overlooked \ BoundTo(f)
    BY <1>2 DEF RevokeState, Revoked, IndexInv, IndexTypes
  <2>2. ASSUME NEW c, NEW g
        PROVE  g \in Causes(c)' <=> g \in Causes(c) \/ (g = f /\ c \in BoundTo(f))
    BY <2>1, CausesOf
  <2>3. /\ \A c : c \in BoundTo(f) => Causes(c)' # {}
        /\ \A c : c \notin BoundTo(f) => (Causes(c)' # {} <=> Causes(c) # {})
    BY <2>2
  <2>4. IndexTypes'
    BY <2>1, MarkSets DEF IndexInv, IndexTypes
  <2>5. MarkHasCause'
    BY <2>1, <2>3, MarkSets DEF IndexInv, MarksFollowRevocations, MarkHasCause
  <2>6. MarkedUnlessOverlooked'
    BY <2>1, <2>3, MarkSets DEF IndexInv, MarksFollowRevocations, MarkedUnlessOverlooked
  <2> QED
    BY <2>4, <2>5, <2>6 DEF IndexInv, MarksFollowRevocations
<1>3. ASSUME NEW f \in States, CorrectState(f)
      PROVE  IndexInv'
  <2>1. /\ bindings' = bindings /\ Mark(BoundTo(f), "cleared")
        /\ revoked_states' \in [States -> Nat] /\ Revoked' = Revoked \ {f}
        /\ overlooked' = {a \in overlooked \cup BoundTo(f) : Causes(a) \ {f} # {}}
    BY <1>3 DEF CorrectState, Corrected, Retained, Revoked, IndexInv, IndexTypes
  <2>2. ASSUME NEW c, NEW g
        PROVE  g \in Causes(c)' <=> g \in Causes(c) \ {f}
    BY <2>1, CausesOf
  <2>3. \A c : c \notin BoundTo(f) => f \notin Causes(c)
    BY CausesOf
  <2>4. IndexTypes'
    BY <2>1, MarkSets DEF IndexInv, IndexTypes
  <2>5. MarkHasCause'
    BY <2>1, <2>2, <2>3, MarkSets DEF IndexInv, MarksFollowRevocations, MarkHasCause
  <2>6. MarkedUnlessOverlooked'
    BY <2>1, <2>2, <2>3, MarkSets
       DEF IndexInv, MarksFollowRevocations, MarkedUnlessOverlooked
  <2> QED
    BY <2>4, <2>5, <2>6 DEF IndexInv, MarksFollowRevocations
<1>4. CASE UNCHANGED indexVars
  BY <1>4 DEF indexVars, IndexInv, IndexTypes, MarksFollowRevocations, MarkHasCause,
              MarkedUnlessOverlooked, Causes, Revoked
<1> QED
  BY <1>1, <1>2, <1>3, <1>4 DEF IndexNext

(* The marks are those of the revocations in force: an artifact bound to a *)
(* revoked state is marked unless it was overlooked, and a mark has a      *)
(* revocation as its cause.                                                *)
THEOREM IndexSafety == IndexSpec => []MarksFollowRevocations
<1>1. IndexInit => IndexInv
  <2> SUFFICES ASSUME IndexInit PROVE IndexInv
    OBVIOUS
  <2>1. bindings = <<>> /\ marks = <<>> /\ DOMAIN marks = {} /\ Range(bindings) = {}
    BY DEF IndexInit, Range
  <2>2. \A a : Causes(a) = {}
    BY <2>1 DEF Causes
  <2> QED
    BY <2>1, <2>2 DEF IndexInit, IndexInv, IndexTypes, MarksFollowRevocations,
                      MarkHasCause, MarkedUnlessOverlooked
<1>2. IndexInv /\ [IndexNext]_indexVars => IndexInv'
  BY IndexStep
<1>3. IndexInv => MarksFollowRevocations
  BY DEF IndexInv
<1> QED
  BY <1>1, <1>2, <1>3, PTL DEF IndexSpec

-----------------------------------------------------------------------------
(* The snapshot store. *)

CallerState ==
  [at : {"idle", "numbering", "saving", "checking", "current"}, v : Nat,
   old : Nat, read : Nat, torn : BOOLEAN]

Saving == \E d \in Clients : caller[d].at = "saving"

(* The version after the last one that has been replaced and saved. *)
Top == IF Saving THEN version - 1 ELSE version

(* One holder of each lock. *)
OneHolder ==
  /\ \A c, d \in Clients : HoldsCurrent(c) /\ HoldsCurrent(d) => c = d
  /\ \A c, d \in Clients : HoldsSnapshots(c) /\ HoldsSnapshots(d) => c = d

(* What a call in progress knows is so. *)
CallsKnow ==
  \A c \in Clients :
    /\ caller[c].at = "saving" =>
         caller[c].v + 1 = version /\ caller[c].old = caller[c].v
    /\ caller[c].at = "checking" => caller[c].v <= version
    /\ caller[c].at = "current" =>
         caller[c].v = version \/ (caller[c].v + 1 = version /\ Saving)

(* The snapshots are a run of versions, up to the last one saved. *)
IsRun(q, top) ==
  /\ q \in Seq([data : Nat, version : Nat])
  /\ Len(q) <= top
  /\ \A i \in 1 .. Len(q) :
       q[i].data = q[i].version /\ q[i].version + Len(q) + 1 = top + i

SnapshotInv ==
  /\ version \in Nat /\ current = version
  /\ caller \in [Clients -> CallerState]
  /\ OneHolder
  /\ CallsKnow
  /\ IsRun(snapshots, Top)
  /\ ReadsItsVersion

(* What a run holds, element by element. *)
LEMMA RunElement ==
  ASSUME NEW top \in Nat, NEW q, IsRun(q, top), NEW i \in 1 .. Len(q)
  PROVE  /\ Len(q) \in Nat
         /\ q[i].version \in Nat /\ q[i].data = q[i].version
         /\ q[i].version + Len(q) + 1 = top + i
<1>1. q \in Seq([data : Nat, version : Nat])
  BY DEF IsRun
<1>2. q[i] \in [data : Nat, version : Nat]
  BY <1>1, ElementOfSeq, ZenonT(30)
<1>3. Len(q) \in Nat
  BY <1>1, LenProperties
<1> QED
  BY <1>2, <1>3 DEF IsRun

(* The next version saved. *)
LEMMA RunAppend ==
  ASSUME NEW top \in Nat, NEW q, IsRun(q, top)
  PROVE  IsRun(Append(q, [data |-> top, version |-> top]), top + 1)
<1> DEFINE s == [data |-> top, version |-> top]
<1>1. q \in Seq([data : Nat, version : Nat]) /\ s \in [data : Nat, version : Nat]
  BY DEF IsRun
<1>2. /\ Append(q, s) \in Seq([data : Nat, version : Nat])
      /\ Len(q) \in Nat /\ Len(Append(q, s)) = Len(q) + 1
      /\ Append(q, s)[Len(q) + 1] = s
      /\ \A i \in 1 .. Len(q) : Append(q, s)[i] = q[i]
  BY <1>1
<1>3. ASSUME NEW i \in 1 .. Len(Append(q, s))
      PROVE  /\ Append(q, s)[i].data = Append(q, s)[i].version
             /\ Append(q, s)[i].version + (Len(q) + 1) + 1 = (top + 1) + i
  <2>1. CASE i = Len(q) + 1
    BY <1>2, <2>1
  <2>2. CASE i \in 1 .. Len(q)
    <3>1. PICK e, n : e = q[i] /\ n = Len(q)
      BY ZenonT(30)
    <3>2. e.version \in Nat /\ e.data = e.version /\ e.version + n + 1 = top + i
      BY <2>2, <3>1, RunElement
    <3>3. Append(q, s)[i] = e /\ n \in Nat
      BY <1>2, <2>2, <3>1
    <3>4. e.version + (n + 1) + 1 = (top + 1) + i
      <4>1. PICK w \in Nat : w = e.version
        BY <3>2
      <4>2. w + n + 1 = top + i /\ n \in Nat /\ i \in Nat
        BY <2>2, <3>2, <3>3, <4>1
      <4>3. w + (n + 1) + 1 = (top + 1) + i
        BY <4>2
      <4> QED
        BY <4>1, <4>3
    <3> QED
      BY <3>1, <3>2, <3>3, <3>4
  <2> QED
    BY <1>2, <2>1, <2>2
<1>4. PICK p : p = Append(q, s)
  BY ZenonT(30)
<1>5. /\ p \in Seq([data : Nat, version : Nat]) /\ Len(p) = Len(q) + 1
      /\ Len(q) <= top /\ Len(q) \in Nat
      /\ \A i \in 1 .. Len(p) :
           p[i].data = p[i].version /\ p[i].version + Len(p) + 1 = (top + 1) + i
  BY <1>2, <1>3, <1>4, ZenonT(30) DEF IsRun
<1>6. IsRun(p, top + 1)
  BY <1>5 DEF IsRun
<1> QED
  BY <1>4, <1>6

(* The last of them kept. *)
LEMMA RunPrune ==
  ASSUME NEW top \in Nat, NEW q, IsRun(q, top), NEW max \in Nat, Len(q) > max
  PROVE  IsRun(SubSeq(q, Len(q) - max + 1, Len(q)), top)
<1>1. q \in Seq([data : Nat, version : Nat]) /\ Len(q) \in Nat /\ Len(q) <= top
  BY LenProperties DEF IsRun
<1>2. PICK n \in Nat : n = Len(q)
  BY <1>1
<1>3. PICK m \in 1 .. n + 1 : m = n - max + 1
  <2>1. n > max
    BY <1>2
  <2>2. n - max + 1 \in 1 .. n + 1
    BY <2>1
  <2> QED
    BY <2>2
<1>4. PICK p : p = SubSeq(q, m, n)
  BY ZenonT(30)
<1>5. /\ p \in Seq([data : Nat, version : Nat]) /\ Len(p) = max
      /\ \A i \in 1 .. max : p[i] = q[m + i - 1]
  <2>1. m \in 1 .. Len(q) + 1 /\ n \in m - 1 .. Len(q) /\ n - m + 1 = max
    BY <1>2, <1>3
  <2>2. p \in Seq([data : Nat, version : Nat])
        /\ Len(p) = (IF m <= n THEN n - m + 1 ELSE 0)
        /\ \A i \in 1 .. n - m + 1 : p[i] = q[m + i - 1]
    <3>1. \A i \in m .. n : i \in 1 .. Len(q)
      BY <1>2, <1>3
    <3>2. \A i \in m .. n : q[i] \in [data : Nat, version : Nat]
      BY <1>1, <3>1, ElementOfSeq, ZenonT(30)
    <3>3. m \in Int /\ n \in Int
      BY <1>3
    <3> QED
      BY <1>4, <3>2, <3>3, SubSeqProperties
  <2>3. (IF m <= n THEN n - m + 1 ELSE 0) = max
    BY <1>3
  <2> QED
    BY <2>1, <2>2, <2>3
<1>6. ASSUME NEW i \in 1 .. max
      PROVE  p[i].data = p[i].version /\ p[i].version + max + 1 = top + i
  <2>1. PICK j \in 1 .. n : j = m + i - 1
    <3>1. n > max
      BY <1>2
    <3>2. m + i - 1 \in 1 .. n
      BY <1>3, <3>1
    <3> QED
      BY <3>2
  <2>2. PICK e : e = q[j]
    OBVIOUS
  <2>3. e.version \in Nat /\ e.data = e.version /\ e.version + n + 1 = top + j
    <3>1. j \in 1 .. Len(q)
      BY <1>2, <2>1
    <3> QED
      BY <1>2, <2>2, <3>1, RunElement
  <2>4. p[i] = e
    BY <1>5, <2>1, <2>2
  <2>5. e.version + max + 1 = top + i
    BY <1>3, <2>1, <2>3
  <2> QED
    BY <2>3, <2>4, <2>5
<1>7. IsRun(p, top)
  <2>1. max <= top
    BY <1>1
  <2> QED
    BY <1>5, <1>6, <2>1 DEF IsRun
<1> QED
  BY <1>2, <1>3, <1>4, <1>7

(* The snapshot found for a version that has been saved is its own. *)
LEMMA RunNewest ==
  ASSUME NEW top \in Nat, IsRun(snapshots, top), NEW v \in Nat, v < top
  PROVE  NewestUpTo(v) \in {v, NoData}
<1> DEFINE old == {s \in Range(snapshots) : s.version <= v}
<1>1. /\ snapshots \in Seq([data : Nat, version : Nat]) /\ Len(snapshots) \in Nat
      /\ DOMAIN snapshots = 1 .. Len(snapshots)
  BY LenProperties DEF IsRun
<1>2. ASSUME NEW s \in Range(snapshots)
      PROVE  /\ s.version \in Nat /\ s.data = s.version
             /\ \E i \in 1 .. Len(snapshots) : snapshots[i] = s
  <2>1. PICK i \in 1 .. Len(snapshots) : snapshots[i] = s
    BY <1>1 DEF Range
  <2>2. snapshots[i].version \in Nat /\ snapshots[i].data = snapshots[i].version
    BY RunElement
  <2> QED
    BY <2>1, <2>2
<1>3. ASSUME NEW s \in old
      PROVE  \E t \in old : t.version = v
  <2>1. PICK i \in 1 .. Len(snapshots) : snapshots[i] = s
    BY <1>2
  <2>2. PICK w, n : w = s.version /\ n = Len(snapshots)
    OBVIOUS
  <2>3. w \in Nat /\ w <= v /\ n \in Nat /\ w + n + 1 = top + i
    BY <2>1, <2>2, RunElement
  <2>4. PICK j \in 1 .. n : j = i + (v - w)
    BY <2>1, <2>2, <2>3
  <2>5. PICK e : e = snapshots[j]
    OBVIOUS
  <2>6. e.version \in Nat /\ e.version + n + 1 = top + j /\ e \in Range(snapshots)
    <3>1. j \in 1 .. Len(snapshots)
      BY <2>2, <2>4
    <3> QED
      BY <1>1, <2>2, <2>5, <3>1, RunElement, ZenonT(30) DEF Range
  <2>7. e.version = v
    BY <2>3, <2>4, <2>6
  <2> QED
    BY <2>6, <2>7
<1>4. CASE old = {}
  BY <1>4 DEF NewestUpTo
<1>5. CASE old # {}
  <2>1. PICK t \in old : t.version = v
    BY <1>3, <1>5
  <2>2. \A s \in old : s.version <= t.version
    BY <2>1
  <2>3. PICK s \in old : /\ s = CHOOSE x \in old : \A u \in old : u.version <= x.version
                         /\ \A u \in old : u.version <= s.version
    BY <2>2, Zenon
  <2>4. s.version = v
    BY <1>2, <2>1, <2>3
  <2>5. NewestUpTo(v) = s.data
    BY <1>5, <2>3 DEF NewestUpTo
  <2> QED
    BY <1>2, <2>3, <2>4, <2>5
<1> QED
  BY <1>4, <1>5

(* The versions below Top are the ones replaced and saved. *)
LEMMA TopNat ==
  ASSUME SnapshotInv
  PROVE  Top \in Nat /\ Top <= version
<1>1. Saving => version >= 1
  <2> SUFFICES ASSUME NEW d \in Clients, caller[d].at = "saving"
               PROVE  version >= 1
    BY DEF Saving
  <2>1. PICK v \in Nat : v = caller[d].v
    BY DEF SnapshotInv, CallerState
  <2>2. v + 1 = version /\ version \in Nat
    BY <2>1 DEF SnapshotInv, CallsKnow
  <2> QED
    BY <2>2
<1> QED
  BY <1>1 DEF Top, SnapshotInv

(* Whatever is found is a number. *)
LEMMA NewestNat ==
  ASSUME SnapshotInv, NEW v \in Nat
  PROVE  NewestUpTo(v) \in Nat
<1> DEFINE old == {s \in Range(snapshots) : s.version <= v}
<1>1. PICK top \in Nat : IsRun(snapshots, top)
  BY TopNat DEF SnapshotInv
<1>2. CASE old = {}
  BY <1>2, SnapshotAssumption DEF NewestUpTo, NoData
<1>3. CASE old # {}
  <2>1. CASE v < top
    BY <1>1, <2>1, RunNewest, SnapshotAssumption DEF NoData
  <2>2. CASE ~(v < top)
    <3>1. Len(snapshots) \in Nat /\ DOMAIN snapshots = 1 .. Len(snapshots)
      BY <1>1, LenProperties DEF IsRun
    <3>2. PICK n \in Nat : n = Len(snapshots)
      BY <3>1, ZenonT(30)
    <3>3. \A s \in old : \E i \in 1 .. n : snapshots[i] = s
      BY <3>1, <3>2 DEF Range
    <3>4. n \in 1 .. n
      BY <1>3, <3>3
    <3>5. PICK e : e = snapshots[n]
      OBVIOUS
    <3>6. e \in Range(snapshots) /\ e.version \in Nat /\ e.data \in Nat /\ e.version + n + 1 = top + n
      <4>1. n \in 1 .. Len(snapshots)
        BY <3>2, <3>4
      <4>2. e \in Range(snapshots)
        BY <3>1, <3>5, <4>1 DEF Range
      <4>3. e.version \in Nat /\ e.data = e.version
            /\ e.version + Len(snapshots) + 1 = top + n
        BY <1>1, <3>5, <4>1, RunElement
      <4> QED
        BY <3>2, <4>2, <4>3
    <3>7. e.version < top /\ e \in old
      BY <1>1, <2>2, <3>6
    <3>8. ASSUME NEW s \in old
          PROVE  s.version <= e.version /\ s.data \in Nat
      <4>1. PICK i \in 1 .. n : snapshots[i] = s
        BY <3>3
      <4>2. s.version \in Nat /\ s.data = s.version /\ s.version + n + 1 = top + i
        BY <1>1, <3>2, <4>1, RunElement
      <4>3. PICK w, x \in Nat : w = s.version /\ x = e.version
        BY <3>6, <4>2
      <4>4. w <= x
        BY <3>6, <4>2, <4>3
      <4> QED
        BY <4>2, <4>3, <4>4
    <3>9. PICK s \in old : s = CHOOSE x \in old : \A u \in old : u.version <= x.version
      BY <3>7, <3>8, Zenon
    <3> QED
      BY <1>3, <3>8, <3>9 DEF NewestUpTo
  <2> QED
    BY <2>1, <2>2
<1> QED
  BY <1>2, <1>3

(* A client with nothing under way. *)
LEMMA IdleCaller ==
  /\ IdleClient \in CallerState /\ IdleClient.at = "idle"
  /\ IdleClient.read = NoData /\ NoData \in Nat
BY SnapshotAssumption DEF IdleClient, CallerState, NoData

(* write takes current: the others are as they were. *)
LEMMA BeginWriteKeeps ==
  ASSUME SnapshotInv, NEW c \in Clients, BeginWrite(c)
  PROVE  SnapshotInv'
<1> USE SnapshotAssumption
<1>1. caller \in [Clients -> CallerState] /\ version \in Nat /\ current = version
  BY DEF SnapshotInv
<1>2. /\ caller' \in [Clients -> CallerState]
      /\ caller'[c].at = "numbering" /\ caller[c].at = "idle"
      /\ \A d \in Clients : d # c => caller'[d] = caller[d]
  BY <1>1, IdleCaller DEF BeginWrite, CallerState
<1>3. OneHolder'
  BY <1>2 DEF BeginWrite, SnapshotInv, OneHolder, HoldsCurrent, HoldsSnapshots, CurrentFree
<1>4. Saving' <=> Saving
  BY <1>2 DEF Saving
<1>5. CallsKnow'
  BY <1>2, <1>4 DEF BeginWrite, SnapshotInv, CallsKnow
<1>6. IsRun(snapshots, Top)'
  BY <1>4 DEF BeginWrite, SnapshotInv, IsRun, Top
<1>7. ReadsItsVersion'
  BY <1>2 DEF SnapshotInv, ReadsItsVersion
<1> QED
  BY <1>1, <1>2, <1>3, <1>5, <1>6, <1>7 DEF SnapshotInv, BeginWrite

(* write numbers its version: nobody else was saving. *)
LEMMA NumberKeeps ==
  ASSUME SnapshotInv, NEW c \in Clients, Number(c)
  PROVE  SnapshotInv'
<1>1. caller \in [Clients -> CallerState] /\ version \in Nat /\ current = version
  BY DEF SnapshotInv
<1>2. /\ caller' \in [Clients -> CallerState]
      /\ caller'[c].at = "saving" /\ caller[c].at = "numbering"
      /\ caller'[c].v = version /\ caller'[c].old = version
      /\ \A d \in Clients : d # c => caller'[d] = caller[d]
  BY <1>1, ZenonT(30) DEF Number, CallerState
<1>3. OneHolder'
  BY <1>2 DEF SnapshotInv, OneHolder, HoldsCurrent, HoldsSnapshots
<1>4. Saving' /\ ~Saving
  BY <1>2 DEF Saving, SnapshotInv, OneHolder, HoldsCurrent
<1>5. CallsKnow'
  <2>1. \A d \in Clients : d # c => ~(caller'[d].at = "saving")
    BY <1>2, <1>4 DEF Saving
  <2>2. version' = version + 1
    BY DEF Number
  <2>3. ASSUME NEW d \in Clients, d # c
        PROVE  /\ caller'[d].at = "checking" => caller'[d].v <= version'
               /\ caller'[d].at = "current" => caller'[d].v + 1 = version'
    <3>1. PICK v \in Nat : v = caller[d].v /\ v = caller'[d].v
      BY <1>1, <1>2, <2>3 DEF CallerState
    <3>2. caller[d].at = "checking" => v <= version
      BY <3>1, ZenonT(30) DEF SnapshotInv, CallsKnow
    <3>3. caller[d].at = "current" => v = version
      BY <1>4, <3>1, ZenonT(30) DEF SnapshotInv, CallsKnow
    <3> QED
      BY <1>1, <1>2, <2>2, <2>3, <3>1, <3>2, <3>3
  <2> QED
    BY <1>2, <1>4, <2>1, <2>2, <2>3 DEF CallsKnow
<1>6. IsRun(snapshots, Top)'
  <2>1. Top' = Top
    BY <1>1, <1>4 DEF Top, Number
  <2> QED
    BY <2>1 DEF Number, SnapshotInv, IsRun
<1>7. ReadsItsVersion'
  BY <1>2 DEF SnapshotInv, ReadsItsVersion
<1>8. version' \in Nat /\ current' = version'
  BY <1>1 DEF Number
<1> QED
  BY <1>2, <1>3, <1>5, <1>6, <1>7, <1>8 DEF SnapshotInv

(* write saves what it replaced: the run grows by one. *)
LEMMA SaveKeeps ==
  ASSUME SnapshotInv, NEW c \in Clients, Save(c)
  PROVE  SnapshotInv'
<1> USE SnapshotAssumption
<1>1. caller \in [Clients -> CallerState] /\ version \in Nat /\ current = version
  BY DEF SnapshotInv
<1>2. /\ caller' \in [Clients -> CallerState]
      /\ caller'[c].at = "idle" /\ caller[c].at = "saving"
      /\ caller'[c].read = NoData
      /\ \A d \in Clients : d # c => caller'[d] = caller[d]
  BY <1>1, IdleCaller DEF Save
<1>3. OneHolder'
  BY <1>2 DEF SnapshotInv, OneHolder, HoldsCurrent, HoldsSnapshots
<1>4. Saving /\ ~Saving'
  BY <1>2 DEF Saving, SnapshotInv, OneHolder, HoldsCurrent
<1>5. CallsKnow'
  BY <1>2, <1>4 DEF Save, SnapshotsFree, HoldsSnapshots, CallsKnow, Saving
<1>6. IsRun(snapshots, Top)'
  <2>1. PICK v \in Nat : v = caller[c].v
    BY <1>1 DEF CallerState
  <2>2. v + 1 = version /\ caller[c].old = v
    BY <1>2, <2>1 DEF SnapshotInv, CallsKnow
  <2>3. Top = v /\ Top' = v + 1
    BY <1>1, <1>4, <2>2 DEF Top, Save
  <2>4. IsRun(snapshots, v)
    BY <2>3 DEF SnapshotInv
  <2>5. PICK q : q = Append(snapshots, [data |-> v, version |-> v])
    BY ZenonT(30)
  <2>6. IsRun(q, v + 1)
    BY <2>4, <2>5, RunAppend
  <2>7. snapshots' = q
    BY <2>1, <2>2, <2>5 DEF Save, Replaced
  <2> QED
    BY <2>3, <2>6, <2>7 DEF IsRun
<1>7. ReadsItsVersion'
  BY <1>2 DEF SnapshotInv, ReadsItsVersion
<1>8. version' \in Nat /\ current' = version'
  BY <1>1 DEF Save
<1> QED
  BY <1>2, <1>3, <1>5, <1>6, <1>7, <1>8 DEF SnapshotInv

(* read_at_version takes the snapshots. *)
LEMMA BeginReadKeeps ==
  ASSUME SnapshotInv, NEW c \in Clients, NEW v \in 0 .. MaxVersions, BeginRead(c, v)
  PROVE  SnapshotInv'
<1> USE SnapshotAssumption
<1>1. caller \in [Clients -> CallerState] /\ version \in Nat /\ current = version
  BY DEF SnapshotInv
<1>2. /\ caller' \in [Clients -> CallerState]
      /\ caller'[c].at = "checking" /\ caller[c].at = "idle"
      /\ caller'[c].v = v
      /\ \A d \in Clients : d # c => caller'[d] = caller[d]
  <2>1. PICK new : new = [IdleClient EXCEPT !.at = "checking", !.v = v]
    OBVIOUS
  <2>2. new \in CallerState /\ new.at = "checking" /\ new.v = v
    <3>1. v \in Nat
      OBVIOUS
    <3> QED
      BY <2>1, <3>1, IdleCaller, ZenonT(30) DEF CallerState
  <2>3. caller' = [caller EXCEPT ![c] = new] /\ caller[c].at = "idle"
    BY <2>1 DEF BeginRead
  <2> QED
    BY <1>1, <2>2, <2>3
<1>3. OneHolder'
  BY <1>2 DEF BeginRead, SnapshotInv, OneHolder, HoldsCurrent, HoldsSnapshots, SnapshotsFree
<1>4. Saving' <=> Saving
  BY <1>2 DEF Saving
<1>5. CallsKnow'
  BY <1>2, <1>4 DEF BeginRead, SnapshotInv, CallsKnow
<1>6. IsRun(snapshots, Top)'
  BY <1>4 DEF BeginRead, SnapshotInv, IsRun, Top
<1>7. ReadsItsVersion'
  BY <1>2 DEF SnapshotInv, ReadsItsVersion
<1>8. version' \in Nat /\ current' = version'
  BY <1>1 DEF BeginRead
<1> QED
  BY <1>2, <1>3, <1>5, <1>6, <1>7, <1>8 DEF SnapshotInv

(* It compares, and waits for current or reads from the run. *)
LEMMA CompareKeeps ==
  ASSUME SnapshotInv, NEW c \in Clients, Compare(c)
  PROVE  SnapshotInv'
<1> USE SnapshotAssumption
<1>1. /\ caller \in [Clients -> CallerState] /\ version \in Nat /\ current = version
      /\ version' = version /\ current' = current /\ snapshots' = snapshots
  BY DEF SnapshotInv, Compare
<1>2. PICK v \in Nat : v = caller[c].v
  BY <1>1 DEF CallerState
<1>3. caller[c].at = "checking" /\ v <= version
  BY <1>2 DEF Compare, SnapshotInv, CallsKnow
<1>a. CASE IsCurrent(v)
  <2>1. /\ caller' \in [Clients -> CallerState]
        /\ caller'[c].at = "current" /\ caller'[c].v = v
        /\ \A d \in Clients : d # c => caller'[d] = caller[d]
    BY <1>1, <1>2, <1>a DEF Compare, CallerState
  <2>2. v = version
    BY <1>1, <1>3, <1>a DEF IsCurrent
  <2>3. Saving' <=> Saving
    BY <1>3, <2>1 DEF Saving
  <2>4. OneHolder'
    BY <1>3, <2>1 DEF SnapshotInv, OneHolder, HoldsCurrent, HoldsSnapshots
  <2>5. CallsKnow'
    BY <1>1, <2>1, <2>2, <2>3 DEF SnapshotInv, CallsKnow
  <2>6. IsRun(snapshots, Top)'
    BY <1>1, <2>3, ZenonT(30) DEF SnapshotInv, IsRun, Top
  <2>7. ReadsItsVersion'
    BY <2>1 DEF SnapshotInv, ReadsItsVersion
  <2> QED
    BY <1>1, <2>1, <2>4, <2>5, <2>6, <2>7 DEF SnapshotInv
<1>b. CASE ~IsCurrent(v)
  <2>0. PICK found, torn : /\ found = NewestUpTo(v)
                           /\ torn = \E d \in Clients : caller[d].at = "saving" /\ caller[d].v = v
    BY ZenonT(30)
  <2>1. v < version
    BY <1>1, <1>b DEF IsCurrent
  <2>2. found \in {v, NoData} \/ torn
    <3>1. CASE v < Top
      BY <1>2, <2>0, <3>1, TopNat, RunNewest DEF SnapshotInv
    <3>2. CASE ~(v < Top)
      <4>1. Saving /\ v = version - 1
        BY <1>1, <2>1, <3>2 DEF Top
      <4>2. PICK d \in Clients : caller[d].at = "saving"
        BY <4>1 DEF Saving
      <4>3. PICK w \in Nat : w = caller[d].v /\ w + 1 = version
        BY <1>1, <4>2 DEF SnapshotInv, CallsKnow, CallerState
      <4>4. w = v
        BY <1>1, <4>1, <4>3
      <4> QED
        BY <2>0, <4>2, <4>3, <4>4, ZenonT(30)
    <3> QED
      BY <3>1, <3>2
  <2>3. found \in Nat /\ torn \in BOOLEAN
    <3>1. found \in Nat
      BY <2>0, NewestNat
    <3> QED
      BY <2>0, <3>1
  <2>4. /\ caller' \in [Clients -> CallerState]
        /\ caller'[c].at = "idle" /\ caller'[c].v = v
        /\ caller'[c].read = found /\ caller'[c].torn = torn
        /\ \A d \in Clients : d # c => caller'[d] = caller[d]
    <3>1. PICK done : done = [IdleClient EXCEPT !.v = v, !.read = found, !.torn = torn]
      OBVIOUS
    <3>2. /\ done \in CallerState
          /\ done.at = "idle" /\ done.v = v /\ done.read = found /\ done.torn = torn
      BY <2>3, <3>1, IdleCaller, ZenonT(30) DEF CallerState
    <3>3. caller' = [caller EXCEPT ![c] = done]
      BY <1>2, <1>b, <2>0, <3>1 DEF Compare
    <3> QED
      BY <1>1, <3>2, <3>3
  <2>5. Saving' <=> Saving
    BY <1>3, <2>4 DEF Saving
  <2>6. OneHolder'
    BY <2>4 DEF SnapshotInv, OneHolder, HoldsCurrent, HoldsSnapshots
  <2>7. CallsKnow'
    BY <1>1, <2>4, <2>5 DEF SnapshotInv, CallsKnow
  <2>8. IsRun(snapshots, Top)'
    BY <1>1, <2>5 DEF SnapshotInv, IsRun, Top
  <2>9. ReadsItsVersion'
    BY <2>2, <2>4 DEF SnapshotInv, ReadsItsVersion
  <2> QED
    BY <1>1, <2>4, <2>6, <2>7, <2>8, <2>9 DEF SnapshotInv
<1> QED
  BY <1>a, <1>b

(* It reads current: no write can have been numbered and saved since. *)
LEMMA ReadLatestKeeps ==
  ASSUME SnapshotInv, NEW c \in Clients, ReadLatest(c)
  PROVE  SnapshotInv'
<1> USE SnapshotAssumption
<1>1. caller \in [Clients -> CallerState] /\ version \in Nat /\ current = version
  BY DEF SnapshotInv
<1>2. PICK v \in Nat : v = caller[c].v
  BY <1>1 DEF CallerState
<1>3. v = version
  BY <1>2 DEF ReadLatest, SnapshotInv, CallsKnow, Saving, CurrentFree, HoldsCurrent
<1>4. /\ caller' \in [Clients -> CallerState]
      /\ caller'[c].at = "idle" /\ caller[c].at = "current"
      /\ caller'[c].v = v /\ caller'[c].read = v
      /\ \A d \in Clients : d # c => caller'[d] = caller[d]
  BY <1>1, <1>2, <1>3, IdleCaller, ZenonT(30) DEF ReadLatest, CallerState
<1>5. OneHolder'
  BY <1>4 DEF SnapshotInv, OneHolder, HoldsCurrent, HoldsSnapshots
<1>6. Saving' <=> Saving
  BY <1>4 DEF Saving
<1>7. CallsKnow'
  BY <1>4, <1>6 DEF ReadLatest, SnapshotInv, CallsKnow
<1>8. IsRun(snapshots, Top)'
  BY <1>6 DEF ReadLatest, SnapshotInv, IsRun, Top
<1>9. ReadsItsVersion'
  BY <1>4 DEF SnapshotInv, ReadsItsVersion
<1>10. version' \in Nat /\ current' = version'
  BY <1>1 DEF ReadLatest
<1> QED
  BY <1>4, <1>5, <1>7, <1>8, <1>9, <1>10 DEF SnapshotInv

(* prune_older_than leaves the end of the run. *)
LEMMA PruneKeeps ==
  ASSUME SnapshotInv, NEW c \in Clients, NEW max \in 0 .. MaxVersions, Prune(c, max)
  PROVE  SnapshotInv'
<1>1. version' = version /\ current' = current /\ caller' = caller
  BY DEF Prune
<1>2. OneHolder' /\ CallsKnow' /\ ReadsItsVersion' /\ Top' = Top
  BY <1>1 DEF SnapshotInv, OneHolder, HoldsCurrent, HoldsSnapshots, CallsKnow,
              ReadsItsVersion, Top, Saving
<1>3. PICK q : q = SubSeq(snapshots, Len(snapshots) - max + 1, Len(snapshots))
  BY ZenonT(30)
<1>4. IsRun(q, Top)
  <2>1. max \in Nat /\ Len(snapshots) > max /\ IsRun(snapshots, Top) /\ Top \in Nat
    BY SnapshotAssumption, TopNat DEF Prune, SnapshotInv
  <2> QED
    BY <1>3, <2>1, RunPrune
<1>5. IsRun(snapshots, Top)'
  BY <1>2, <1>3, <1>4, ZenonT(30) DEF Prune, IsRun
<1> QED
  BY <1>1, <1>2, <1>5 DEF SnapshotInv

(* Every step of the store keeps the invariant. *)
LEMMA SnapshotStep ==
  ASSUME SnapshotInv, [SnapshotNext]_snapshotVars
  PROVE  SnapshotInv'
<1>1. CASE UNCHANGED snapshotVars
  <2>1. /\ snapshots' = snapshots /\ current' = current
        /\ version' = version /\ caller' = caller
    BY <1>1 DEF snapshotVars
  <2>2. OneHolder' /\ CallsKnow' /\ ReadsItsVersion' /\ Top' = Top
    BY <2>1 DEF SnapshotInv, OneHolder, HoldsCurrent, HoldsSnapshots, CallsKnow,
                ReadsItsVersion, Top, Saving
  <2>3. IsRun(snapshots, Top)'
    BY <2>1, <2>2 DEF SnapshotInv, IsRun
  <2> QED
    BY <2>1, <2>2, <2>3 DEF SnapshotInv
<1>2. CASE SnapshotNext
  <2> SUFFICES ASSUME NEW c \in Clients,
        \/ BeginWrite(c) \/ Number(c) \/ Save(c)
        \/ \E v \in 0 .. MaxVersions : BeginRead(c, v)
        \/ Compare(c) \/ ReadLatest(c)
        \/ \E max \in 0 .. MaxVersions : Prune(c, max)
      PROVE  SnapshotInv'
    BY <1>2 DEF SnapshotNext
  <2> QED
    BY BeginWriteKeeps, NumberKeeps, SaveKeeps, BeginReadKeeps, CompareKeeps,
       ReadLatestKeeps, PruneKeeps, Zenon
<1> QED
  BY <1>1, <1>2

(* A new store has it. *)
LEMMA SnapshotStart ==
  ASSUME SnapshotInit
  PROVE  SnapshotInv
<1>1. \A c \in Clients : caller[c] = IdleClient
  BY DEF SnapshotInit
<1>2. ~Saving /\ OneHolder /\ CallsKnow /\ ReadsItsVersion
  BY <1>1, IdleCaller DEF Saving, OneHolder, HoldsCurrent, HoldsSnapshots, CallsKnow, ReadsItsVersion
<1>3. IsRun(snapshots, Top)
  BY <1>2 DEF SnapshotInit, IsRun, Top
<1> QED
  BY <1>2, <1>3, IdleCaller DEF SnapshotInit, SnapshotInv

(* When everyone under way waits, it is a writer and a reader of its version. *)
LEMMA SnapshotDeadlocks ==
  ASSUME SnapshotInv
  PROVE  DeadlockNeedsNewest
<1> SUFFICES ASSUME Busy # {}, \A c \in Busy : Blocked(c)
    PROVE  /\ \E c \in Busy : caller[c].at = "saving"
           /\ \E c \in Busy : caller[c].at = "current" /\ caller[c].v >= version - 1
  BY DEF DeadlockNeedsNewest
<1>1. \E c \in Busy : caller[c].at = "saving"
  BY DEF Busy, Blocked, CurrentFree, HoldsCurrent
<1>2. PICK d \in Busy : caller[d].at = "current"
  BY <1>1 DEF Busy, Blocked, SnapshotsFree, HoldsSnapshots
<1>3. PICK v \in Nat : v = caller[d].v
  BY <1>2 DEF SnapshotInv, CallerState, Busy
<1>4. v = version \/ v + 1 = version
  BY <1>2, <1>3 DEF SnapshotInv, CallsKnow, Busy
<1>5. v >= version - 1
  BY <1>4 DEF SnapshotInv
<1> QED
  BY <1>1, <1>2, <1>3, <1>5

(* read_at_version gives the data of the version asked for or none, but   *)
(* for a read caught between a write's count and its save; and write and  *)
(* read_at_version, that take their locks in opposite orders, wait for    *)
(* each other only over the newest version or the one being replaced.     *)
THEOREM SnapshotSafety == SnapshotSpec => []ReadsAreVersions
<1>1. SnapshotInit => SnapshotInv
  BY SnapshotStart
<1>2. SnapshotInv /\ [SnapshotNext]_snapshotVars => SnapshotInv'
  BY SnapshotStep
<1>3. SnapshotInv => ReadsAreVersions
  BY SnapshotDeadlocks DEF SnapshotInv, ReadsAreVersions
<1> QED
  BY <1>1, <1>2, <1>3, PTL DEF SnapshotSpec
================================================================================
