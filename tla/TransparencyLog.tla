---------------------------- MODULE TransparencyLog ----------------------------
(***************************************************************************)
(* The transparency log: the HTTP handlers and the anchor loop of          *)
(* confium-log-server over its SQLite table and its in-memory Merkle tree, *)
(* and the polling cycle of confium-log-monitor that follows it.           *)
(*                                                                         *)
(* An append takes the database lock once and the tree lock three times,   *)
(* so it is four steps that interleave with the other requests.  A server  *)
(* crash loses the tree and the requests under way; what SQLite committed  *)
(* stays.  Requests that are refused before the database (a bad hash, an   *)
(* unknown artifact type) and every append_certificate request change      *)
(* nothing and are left out.                                               *)
(***************************************************************************)
EXTENDS MerkleTree

CONSTANTS
  Handlers,     \* the worker threads that may run an append request
  Loads         \* what a behaviour consists of, a set of records: the handlers
                \* that run requests, and bounds on the entries, the restarts
                \* of the server, the faults of the monitor and its requests,
                \* and the anchor cycles

VARIABLES
  load,         \* the element of Loads of this behaviour
  db,           \* the entries table: artifacts in order of their rowid
  tree,         \* MerkleState.tree
  at,           \* where each handler is in append_hash
  request,      \* the artifact, sequence and root each handler holds
  answer,       \* the last answer each handler gave
  snapshot,     \* the head an anchor cycle holds, a sequence of at most one
  ots_proofs,   \* the anchored heads, a set of [tree_size, root]
  monitor,      \* the monitor: where it is, the head it fetched, its store
  overlapped,   \* history: two append requests were under way at once
  torn,         \* history: the monitor stopped inside put_head
  restarts, faults, anchors

logVars == <<load, db, tree, at, request, answer, snapshot, ots_proofs, monitor,
             overlapped, torn, restarts, faults, anchors>>
serverVars == <<db, tree, at, request, answer, overlapped>>
anchorVars == <<snapshot, ots_proofs, anchors>>
monitorVars == <<monitor, torn, faults>>

CurrentHead == [tree_size |-> Len(tree.entries), root |-> tree.cached_root]

NoRequest == [artifact |-> 0, sequence |-> 0, root |-> ZeroHash]
NoAnswer == [artifact |-> 0, sequence |-> 0, tree_size |-> 0, root |-> ZeroHash]
NoHead == [tree_size |-> 0, root |-> ZeroHash]
NoRoot == <<"">>

(* The monitor between two cycles: only its store remains. *)
Idle == [monitor EXCEPT !.at = "idle", !.head = NoHead]

LogInit ==
  /\ load \in Loads
  /\ db = <<>>
  /\ tree = EmptyTree
  /\ at = [h \in Handlers |-> "idle"]
  /\ request = [h \in Handlers |-> NoRequest]
  /\ answer = [h \in Handlers |-> NoAnswer]
  /\ snapshot = <<>>
  /\ ots_proofs = {}
  /\ monitor = [at |-> "idle", head |-> NoHead,
                last_size |-> 0, last_root |-> NoRoot]
  /\ overlapped = FALSE
  /\ torn = FALSE
  /\ restarts = 0 /\ faults = 0 /\ anchors = 0

-----------------------------------------------------------------------------
(* Database::append answers the rowid less one. *)
Sequence(rowid) == rowid - 1

(* append_hash: the row is inserted under the database lock. *)
InsertEntry(h) ==
  /\ h \in load.handlers /\ at[h] = "idle"
  /\ Len(db) < load.entries
  /\ db' = Append(db, Len(db) + 1)
  /\ at' = [at EXCEPT ![h] = "inserted"]
  /\ request' = [request EXCEPT ![h] =
       [NoRequest EXCEPT !.artifact = Len(db) + 1,
                         !.sequence = Sequence(Len(db) + 1)]]
  /\ overlapped' = (overlapped \/ \E g \in Handlers : at[g] # "idle")
  /\ UNCHANGED <<load, tree, answer, restarts, anchorVars, monitorVars>>

(* Mutant of AppendLeaf: a leaf that is not the next one is dropped. *)
AppendLeafInOrder(h) ==
  /\ at[h] = "inserted"
  /\ tree' = IF request[h].sequence # Len(tree.entries) THEN tree
             ELSE AppendEntry(tree, [sequence |-> 0, artifact |-> request[h].artifact])
  /\ at' = [at EXCEPT ![h] = "appended"]
  /\ UNCHANGED <<load, db, request, answer, overlapped, restarts, anchorVars,
                 monitorVars>>

(* The leaf is appended under the tree lock, without a sequence. *)
AppendLeaf(h) ==
  /\ at[h] = "inserted"
  /\ tree' = AppendEntry(tree, [sequence |-> 0, artifact |-> request[h].artifact])
  /\ at' = [at EXCEPT ![h] = "appended"]
  /\ UNCHANGED <<load, db, request, answer, overlapped, restarts, anchorVars,
                 monitorVars>>

(* The root is read under the tree lock, taken anew. *)
ReadRoot(h) ==
  /\ at[h] = "appended"
  /\ request' = [request EXCEPT ![h].root = tree.cached_root]
  /\ at' = [at EXCEPT ![h] = "rooted"]
  /\ UNCHANGED <<load, db, tree, answer, overlapped, restarts, anchorVars,
                 monitorVars>>

(* The size is read under the tree lock, taken anew, and the answer sent. *)
ReadSize(h) ==
  /\ at[h] = "rooted"
  /\ answer' = [answer EXCEPT ![h] =
       [artifact |-> request[h].artifact, sequence |-> request[h].sequence,
        tree_size |-> Len(tree.entries), root |-> request[h].root]]
  /\ request' = [request EXCEPT ![h] = NoRequest]
  /\ at' = [at EXCEPT ![h] = "idle"]
  /\ UNCHANGED <<load, db, tree, overlapped, restarts, anchorVars, monitorVars>>

(* all_entries_for_rebuild numbers the rows by their place. *)
RebuildRows(rows) ==
  [i \in DOMAIN rows |-> [sequence |-> i - 1, artifact |-> rows[i]]]

(* MerkleState::from_db *)
FromDb(rows) == FoldLeft(AppendEntry, EmptyTree, RebuildRows(rows))

(* The server stops anywhere and main builds its state from the database. *)
Restart ==
  /\ restarts < load.restarts
  /\ restarts' = restarts + 1
  /\ tree' = FromDb(db)
  /\ at' = [h \in Handlers |-> "idle"]
  /\ request' = [h \in Handlers |-> NoRequest]
  /\ snapshot' = <<>>
  /\ UNCHANGED <<load, db, answer, overlapped, ots_proofs, anchors, monitorVars>>

-----------------------------------------------------------------------------
(* anchor_once: the head is read under one lock, the proof stored later. *)
TakeSnapshot ==
  /\ snapshot = <<>> /\ anchors < load.anchors
  /\ snapshot' = <<CurrentHead>>
  /\ anchors' = anchors + 1
  /\ UNCHANGED <<load, ots_proofs, restarts, serverVars, monitorVars>>

StoredHead(head) == head

(* store_ots_proof: INSERT OR REPLACE by tree size. *)
StoreOtsProof ==
  /\ snapshot # <<>>
  /\ LET head == StoredHead(snapshot[1])
     IN ots_proofs' = {p \in ots_proofs : p.tree_size # head.tree_size} \cup {head}
  /\ snapshot' = <<>>
  /\ UNCHANGED <<load, anchors, restarts, serverVars, monitorVars>>

-----------------------------------------------------------------------------
(* run_cycle: the head is fetched and compared with the stored size. *)
FetchHead ==
  /\ monitor.at = "idle"
  /\ monitor' = IF CurrentHead.tree_size <= monitor.last_size THEN monitor
                ELSE [monitor EXCEPT
                        !.head = CurrentHead,
                        !.at = IF monitor.last_size > 0 THEN "fetched" ELSE "verified"]
  /\ UNCHANGED <<load, torn, faults, restarts, serverVars, anchorVars>>

(* verify_consistency of the monitor *)
Consistent(m, new_size, new_root, proof) ==
  /\ new_size = m.head.tree_size
  /\ new_root = m.head.root
  /\ proof # <<>>
  /\ m.last_size \in PowersOfTwo(m.last_size) => proof[1] = m.last_root

(* The proof is fetched, from the tree as it is by now, and verified; a    *)
(* refused proof ends the cycle.  So does the error the server answers an  *)
(* old size beyond its tree with.                                          *)
FetchConsistency ==
  /\ monitor.at = "fetched"
  /\ LET ok == /\ monitor.last_size <= Len(tree.entries)
               /\ Consistent(monitor, Len(tree.entries), tree.cached_root,
                             ConsistencyProof(tree, monitor.last_size))
     IN monitor' = IF ok THEN [monitor EXCEPT !.at = "verified"] ELSE Idle
  /\ UNCHANGED <<load, torn, faults, restarts, serverVars, anchorVars>>

(* put_head, undisturbed *)
PutHead ==
  /\ monitor.at = "verified"
  /\ monitor' = [Idle EXCEPT !.last_size = monitor.head.tree_size,
                             !.last_root = monitor.head.root]
  /\ UNCHANGED <<load, torn, faults, restarts, serverVars, anchorVars>>

(* The monitor stops, or an insert fails, when the size is stored and the  *)
(* root is not.                                                            *)
PutHeadTorn ==
  /\ monitor.at = "verified" /\ faults < load.faults
  /\ faults' = faults + 1
  /\ torn' = TRUE
  /\ monitor' = [Idle EXCEPT !.last_size = monitor.head.tree_size]
  /\ UNCHANGED <<load, restarts, serverVars, anchorVars>>

(* A request of the monitor fails or the monitor restarts: the cycle ends. *)
CycleFails ==
  /\ monitor.at # "idle" /\ faults < load.faults
  /\ faults' = faults + 1
  /\ monitor' = Idle
  /\ UNCHANGED <<load, torn, restarts, serverVars, anchorVars>>

-----------------------------------------------------------------------------
Handle(h) == InsertEntry(h) \/ AppendLeaf(h) \/ ReadRoot(h) \/ ReadSize(h)
AnchorOnce == TakeSnapshot \/ StoreOtsProof
RunCycle == FetchHead \/ FetchConsistency \/ PutHead

LogNext ==
  \/ \E h \in Handlers : Handle(h)
  \/ Restart
  \/ AnchorOnce
  \/ RunCycle
  \/ PutHeadTorn
  \/ CycleFails

LogSpec == LogInit /\ [][LogNext]_logVars

-----------------------------------------------------------------------------
Sizes == 0 .. Len(tree.entries)
Prefix(size) == SubSeq(tree.entries, 1, size)

(* The levels append keeps one path at a time are those a rebuild from all *)
(* the leaves gives, and the cached root is the RFC 6962 hash of the       *)
(* entries, in every tree the server reaches, also through restarts.       *)
TreeIsReference ==
  /\ tree.cached_root = MerkleTreeHash(tree.entries)
  /\ tree.entries # <<>> =>
       tree.levels = RebuildLevels([i \in DOMAIN tree.entries |-> HashLeaf(tree.entries[i])])

(* The proof the server gives for a sequence verifies for the entry at     *)
(* that sequence and for no other entry, for trees of any shape: the       *)
(* positions without a sibling included.                                   *)
InclusionProofsVerify ==
  \A i, j \in DOMAIN tree.entries :
    VerifyInclusion(tree.entries[j], InclusionProof(tree, i - 1), tree.cached_root)
      <=> i = j

(* The root of every earlier size, read out of cached subtrees, is the     *)
(* hash of that prefix of the entries, and verify_consistency accepts the  *)
(* root of the prefix it is asked about and of no other prefix.            *)
OldRootsRecomputed ==
  \A old \in Sizes :
    /\ RootAtSize(tree, old) = MerkleTreeHash(Prefix(old))
    /\ \A other \in Sizes :
         VerifyConsistency(tree, MerkleTreeHash(Prefix(other)), tree.cached_root,
                           old, Len(tree.entries))
           <=> old = 0 \/ old = other

(* From a power of two, the consistency proof the server gives leads from  *)
(* the old root to the new one, combined to the right in order.            *)
ProofExtendsPowerOfTwo ==
  \A old \in PowersOfTwo(Len(tree.entries)) :
    FoldLeft(HashInternal, RootAtSize(tree, old), ConsistencyProof(tree, old))
      = tree.cached_root

(* The tree and the database hold the same artifacts, each once, but for   *)
(* those whose append is between its two locks: no interleaving and no     *)
(* restart loses or doubles a leaf.                                        *)
TreeCoversDb ==
  LET waiting == {request[h].artifact : h \in {g \in Handlers : at[g] = "inserted"}}
      leaves == {tree.entries[i].artifact : i \in DOMAIN tree.entries}
  IN /\ leaves \cap waiting = {}
     /\ leaves \cup waiting = ToSet(db)
     /\ Len(tree.entries) + Cardinality(waiting) = Len(db)

(* A restart rebuilds the tree the server had: every head it published     *)
(* stays the root of a prefix of the log.                                  *)
RebuildReproducesTree == IsPrefix(tree.entries, FromDb(db).entries)

(* While append requests come one at a time, a restart reproduces the tree *)
(* and each client's answer names the place its artifact has in the tree,  *)
(* with a size and a root that belong together, now and after restarts.    *)
SerialAppendsAreStable ==
  overlapped \/
  /\ RebuildReproducesTree
  /\ \A h \in Handlers : answer[h] # NoAnswer =>
       /\ answer[h].sequence < Len(tree.entries)
       /\ tree.entries[answer[h].sequence + 1].artifact = answer[h].artifact
       /\ RootAtSize(tree, answer[h].tree_size) = answer[h].root

(* The heads a third party holds, anchored ones and the one the monitor    *)
(* stored, are roots of prefixes of the log whatever appends, snapshots    *)
(* and polls interleaved, unless the server restarted after appends        *)
(* overlapped, or the monitor stopped inside put_head.                     *)
HeldHeadsAreGenuine ==
  (overlapped /\ restarts > 0) \/
  /\ \A p \in ots_proofs : RootAtSize(tree, p.tree_size) = p.root
  /\ torn \/ monitor.last_size = 0
          \/ RootAtSize(tree, monitor.last_size) = monitor.last_root

(* The monitor accepts the growth of an honest log from every size that is *)
(* not a power of two.  From a power of two it never does: its check wants *)
(* the old root as the first hash of the proof, which the server's proof   *)
(* leaves out, so a monitor that stored such a size stays there.           *)
HonestGrowthAccepted ==
  \A old \in Sizes \ {0, Len(tree.entries)} :
    Consistent([head |-> CurrentHead, last_size |-> old,
                last_root |-> MerkleTreeHash(Prefix(old))],
               Len(tree.entries), tree.cached_root, ConsistencyProof(tree, old))
      <=> old \notin PowersOfTwo(old)

(* Together: the tree, its proofs and its old roots are those of the       *)
(* entries.                                                                *)
ProofsMatchEntries ==
  /\ TreeIsReference
  /\ InclusionProofsVerify
  /\ OldRootsRecomputed
  /\ ProofExtendsPowerOfTwo

(* Together: the server, its clients, the anchors and the monitor agree    *)
(* about the log, outside the races named with each.                       *)
HeadsStayGenuine ==
  /\ TreeCoversDb
  /\ SerialAppendsAreStable
  /\ HeldHeadsAreGenuine
  /\ HonestGrowthAccepted
================================================================================
