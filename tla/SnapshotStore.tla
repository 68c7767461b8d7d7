------------------------------ MODULE SnapshotStore ------------------------------
(***************************************************************************)
(* SnapshotStore of privacy_and_dist_patterns.rs: the current value, its   *)
(* version and the older values, each under a lock of its own.  write      *)
(* holds `current` while it takes the other two; read_at_version holds     *)
(* `snapshots` while it takes the other two.  The data that a write brings *)
(* is named by the version that the write makes.                           *)
(***************************************************************************)
EXTENDS Naturals, Sequences, Functions

CONSTANTS
  Clients,
  MaxVersions   \* bound: writes

ASSUME SnapshotAssumption == MaxVersions \in Nat

VARIABLES
  snapshots,    \* the older values with their versions, oldest first
  current,      \* the data of the newest version
  version,
  caller        \* per client: where its call is, its arguments, its result

snapshotVars == <<snapshots, current, version, caller>>

NoData == MaxVersions + 1

(* A writer is "numbering" (has current) or "saving" (wants snapshots), a  *)
(* reader "checking" (has snapshots) or "current" (wants current).  The    *)
(* version v is the one that a writer replaces or a reader asks for; old   *)
(* is the data replaced and read the data returned.  torn: when the read   *)
(* looked, a writer was about to save the snapshot it looked for.          *)
IdleClient ==
  [at |-> "idle", v |-> 0, old |-> NoData, read |-> NoData, torn |-> FALSE]

SnapshotInit ==
  /\ snapshots = <<>>
  /\ current = 0
  /\ version = 0
  /\ caller = [c \in Clients |-> IdleClient]

-----------------------------------------------------------------------------
HoldsCurrent(c) == caller[c].at \in {"numbering", "saving"}
HoldsSnapshots(c) == caller[c].at \in {"checking", "current"}

CurrentFree == \A c \in Clients : ~HoldsCurrent(c)
SnapshotsFree == \A c \in Clients : ~HoldsSnapshots(c)

(* write takes the lock on current. *)
BeginWrite(c) ==
  /\ caller[c].at = "idle"
  /\ version < MaxVersions
  /\ CurrentFree
  /\ caller' = [caller EXCEPT ![c] = [IdleClient EXCEPT !.at = "numbering"]]
  /\ UNCHANGED <<snapshots, current, version>>

(* It takes the next version number (the lock on the version is let go at *)
(* once) and writes the data, keeping what the snapshot needs.             *)
Number(c) ==
  /\ caller[c].at = "numbering"
  /\ version' = version + 1
  /\ current' = version + 1
  /\ caller' = [caller EXCEPT ![c].at = "saving", ![c].v = version,
                               ![c].old = current]
  /\ UNCHANGED snapshots

(* Mutant of Replaced: the data is cloned after it was overwritten. *)
ReplacedLate(c) == [data |-> current, version |-> caller[c].v]

Replaced(c) == [data |-> caller[c].old, version |-> caller[c].v]

Save(c) ==
  /\ caller[c].at = "saving"
  /\ SnapshotsFree
  /\ snapshots' = Append(snapshots, Replaced(c))
  /\ caller' = [caller EXCEPT ![c] = IdleClient]
  /\ UNCHANGED <<current, version>>

(* read_at_version, of a version that exists, takes the lock on snapshots. *)
BeginRead(c, v) ==
  /\ caller[c].at = "idle"
  /\ v <= version
  /\ SnapshotsFree
  /\ caller' = [caller EXCEPT
       ![c] = [IdleClient EXCEPT !.at = "checking", !.v = v]]
  /\ UNCHANGED <<snapshots, current, version>>

(* The newest snapshot that is not newer than v, if there is one. *)
NewestUpTo(v) ==
  LET old == {s \in Range(snapshots) : s.version <= v}
  IN IF old = {} THEN NoData
     ELSE (CHOOSE s \in old : \A t \in old : t.version <= s.version).data

IsCurrent(v) == v >= version

(* It compares with the version, and goes on to wait for current, or reads *)
(* from the snapshots and returns.                                         *)
Compare(c) ==
  LET v == caller[c].v
  IN /\ caller[c].at = "checking"
     /\ IF IsCurrent(v)
        THEN caller' = [caller EXCEPT ![c].at = "current"]
        ELSE caller' = [caller EXCEPT
               ![c] = [IdleClient EXCEPT
                         !.v = v, !.read = NewestUpTo(v),
                         !.torn = \E d \in Clients :
                           caller[d].at = "saving" /\ caller[d].v = v]]
     /\ UNCHANGED <<snapshots, current, version>>

ReadLatest(c) ==
  /\ caller[c].at = "current"
  /\ CurrentFree
  /\ caller' = [caller EXCEPT
       ![c] = [IdleClient EXCEPT !.v = caller[c].v, !.read = current]]
  /\ UNCHANGED <<snapshots, current, version>>

(* prune_older_than keeps the last `max` snapshots. *)
Prune(c, max) ==
  /\ caller[c].at = "idle"
  /\ SnapshotsFree
  /\ Len(snapshots) > max
  /\ snapshots' = SubSeq(snapshots, Len(snapshots) - max + 1, Len(snapshots))
  /\ UNCHANGED <<current, version, caller>>

SnapshotNext ==
  \E c \in Clients :
    \/ BeginWrite(c) \/ Number(c) \/ Save(c)
    \/ \E v \in 0 .. MaxVersions : BeginRead(c, v)
    \/ Compare(c) \/ ReadLatest(c)
    \/ \E max \in 0 .. MaxVersions : Prune(c, max)

SnapshotSpec == SnapshotInit /\ [][SnapshotNext]_snapshotVars

-----------------------------------------------------------------------------
(* A read returns the data of the version it asks for, or none because it  *)
(* was pruned: never another version's.  The exception is a read of the    *)
(* version just replaced, while the writer has counted the new version but *)
(* not yet saved the old one: it returns an older version, or none.        *)
ReadsItsVersion ==
  \A c \in Clients :
    caller[c].at = "idle" =>
      caller[c].read \in {caller[c].v, NoData} \/ caller[c].torn

Busy == {c \in Clients : caller[c].at # "idle"}

Blocked(c) ==
  \/ caller[c].at = "saving" /\ ~SnapshotsFree
  \/ caller[c].at = "current" /\ ~CurrentFree

(* The two lock orders meet in one way only: a deadlock has a writer with  *)
(* current and a reader that asked for the newest version, or the one that *)
(* the writer is replacing.  Reads of older versions never block a write.  *)
DeadlockNeedsNewest ==
  Busy # {} /\ (\A c \in Busy : Blocked(c)) =>
    /\ \E c \in Busy : caller[c].at = "saving"
    /\ \E c \in Busy : caller[c].at = "current" /\ caller[c].v >= version - 1

(* Both: a read gets its version, and waits for ever in one case only. *)
ReadsAreVersions == ReadsItsVersion /\ DeadlockNeedsNewest
==================================================================================
