------------------------------ MODULE FilesystemStore ------------------------------
(***************************************************************************)
(* The filesystem key store (confium-store, backends/filesystem.rs).  The  *)
(* instances that processes open on one root share nothing but the files.  *)
(* A leaf name is its sequence of dot-separated parts.  A directory maps   *)
(* names to files; a file that is renamed stays open to whoever writes it. *)
(***************************************************************************)
EXTENDS Naturals, Sequences, Functions

CONSTANTS
  Processes,
  Secrets,      \* key ids of the private compartment
  Identities,   \* identities of the public compartment
  MaxPuts,      \* bound: puts
  MaxCuts       \* bound: crashes in the middle of a put

(* The last part of a leaf name, its extension. *)
Extension(leaf) == leaf[Len(leaf)]

(* A leaf name has a part, and none looks like a temp file.  The store     *)
(* refuses the empty name; it does not refuse `.<leaf>.tmp`, which a put   *)
(* of <leaf> would replace and remove.                                     *)
ASSUME StoreAssumption ==
  /\ Secrets \subseteq Seq(STRING) /\ Identities \subseteq Seq(STRING)
  /\ \A id \in Secrets \cup Identities :
       id # <<>> /\ ~(Head(id) = "" /\ Extension(id) = "tmp")
  /\ MaxPuts \in Nat /\ MaxCuts \in Nat

VARIABLES
  dir,       \* name -> file
  content,   \* file -> the number of the put that wrote it, or Torn
  store,     \* per process: the call it is in
  puts,
  cuts,
  unsettled, \* entries whose last put crashed, overlapped another or was
             \* followed by a put of another entry to one of their files
  crossed    \* entries with a temp file that two puts may have shared

storeVars == <<dir, content, store, puts, cuts, unsettled, crossed>>

Private(id) == [sub |-> "private", leaf |-> id]
Public(id) == [sub |-> "public", leaf |-> id]
Entries == {Private(id) : id \in Secrets} \cup {Public(id) : id \in Identities}

SigPath(e) == [e EXCEPT !.leaf = Append(@, "sig")]

(* The files of an entry, in the order in which a put writes them. *)
Paths(e) == IF e.sub = "private" THEN <<e>> ELSE <<e, SigPath(e)>>

(* The same entry, or one named like the signature file of the other. *)
Share(e, f) ==
  \/ e = f
  \/ e.sub = "public" /\ f.sub = "public" /\ Append(e.leaf, "sig") = f.leaf
  \/ e.sub = "public" /\ f.sub = "public" /\ Append(f.leaf, "sig") = e.leaf

(* Mutant of Staged: the target itself is written. *)
StagedInPlace(path) == path

(* The sibling temp file `.<leaf>.tmp`, the same for every process. *)
Staged(path) == [path EXCEPT !.leaf = <<"">> \o @ \o <<"tmp">>]

Torn == 0   \* created or truncated, and not yet written

(* at: "idle", "stage", "fill" (the temp file is open as fd), "rename",    *)
(* "sig" (get_public has read the key) or "got" (and the signature).       *)
(* undisturbed: no put shared a file with this call so far.                *)
NoCall ==
  [at |-> "idle", entry |-> {}, todo |-> <<>>, put |-> 0, fd |-> 0,
   undisturbed |-> TRUE, key |-> 0, sig |-> 0]

StoreInit ==
  /\ dir = <<>>
  /\ content = <<>>
  /\ store = [p \in Processes |-> NoCall]
  /\ puts = 0
  /\ cuts = 0
  /\ unsettled = {}
  /\ crossed = {}

-----------------------------------------------------------------------------
Available(p) == store[p].at \in {"idle", "got"}

Putting(e) ==
  {p \in Processes : /\ store[p].at \in {"stage", "fill", "rename"}
                     /\ Share(store[p].entry, e)}

(* put_secret and put_public start with the first of their atomic writes. *)
Put(p, e) ==
  /\ Available(p)
  /\ puts < MaxPuts
  /\ puts' = puts + 1
  /\ store' = [q \in Processes |->
       IF q = p
       THEN [NoCall EXCEPT !.at = "stage", !.entry = e, !.todo = Paths(e),
                            !.put = puts + 1, !.undisturbed = Putting(e) = {}]
       ELSE IF Available(q) \/ ~Share(store[q].entry, e) THEN store[q]
       ELSE [store[q] EXCEPT !.undisturbed = FALSE]]
  /\ LET sharing == {f \in Entries : Share(e, f)}
     IN /\ unsettled' = unsettled \cup
             (IF Putting(e) = {} THEN sharing \ {e} ELSE sharing)
        /\ crossed' = crossed \cup (IF Putting(e) = {} THEN {} ELSE sharing)
  /\ UNCHANGED <<dir, content, cuts>>

(* fs::write opens the temp file, creating or truncating it, ... *)
Stage(p) ==
  LET tmp == Staged(Head(store[p].todo))
      exists == tmp \in DOMAIN dir
      fd == IF exists THEN dir[tmp] ELSE Len(content) + 1
  IN /\ store[p].at = "stage"
     /\ content' = IF exists THEN [content EXCEPT ![fd] = Torn]
                   ELSE Append(content, Torn)
     /\ dir' = [n \in DOMAIN dir \cup {tmp} |-> IF n = tmp THEN fd ELSE dir[n]]
     /\ store' = [store EXCEPT ![p].at = "fill", ![p].fd = fd]
     /\ UNCHANGED <<puts, cuts, unsettled, crossed>>

(* ... and writes it. *)
Fill(p) ==
  /\ store[p].at = "fill"
  /\ content' = [content EXCEPT ![store[p].fd] = store[p].put]
  /\ store' = [store EXCEPT ![p].at = "rename", ![p].fd = 0]
  /\ UNCHANGED <<dir, puts, cuts, unsettled, crossed>>

(* The rename, after which the next file is staged or the put returns; it  *)
(* fails, and so does the put, if the temp file is no longer there.        *)
Rename(p) ==
  LET path == Head(store[p].todo)
      tmp == Staged(path)
      e == store[p].entry
      done == IF Len(store[p].todo) = 1 /\ store[p].undisturbed THEN {e} ELSE {}
  IN /\ store[p].at = "rename"
     /\ \/ /\ tmp \notin DOMAIN dir
           /\ store' = [store EXCEPT ![p] = NoCall]
           /\ UNCHANGED <<dir, unsettled, crossed>>
        \/ /\ tmp \in DOMAIN dir
           /\ dir' = [n \in (DOMAIN dir \ {tmp}) \cup {path} |->
                        IF n = path THEN dir[tmp] ELSE dir[n]]
           /\ store' = [store EXCEPT ![p] =
                IF Len(@.todo) = 1 THEN NoCall
                ELSE [store[p] EXCEPT !.at = "stage", !.todo = Tail(@)]]
           /\ unsettled' = unsettled \ done
           /\ crossed' = crossed \ done
     /\ UNCHANGED <<content, puts, cuts>>

(* The process dies in a put; the files stay as they are. *)
Crash(p) ==
  /\ store[p].at \in {"stage", "fill", "rename"}
  /\ cuts < MaxCuts
  /\ cuts' = cuts + 1
  /\ unsettled' = unsettled \cup {store[p].entry}
  /\ store' = [store EXCEPT ![p] = NoCall]
  /\ UNCHANGED <<dir, content, puts, crossed>>

(* get_public reads the key file, then the signature file; it returns an   *)
(* error, which is as if it had not been called, when one is missing.      *)
GetKey(p, e) ==
  /\ Available(p)
  /\ e \in DOMAIN dir
  /\ store' = [store EXCEPT ![p] =
       [NoCall EXCEPT !.at = "sig", !.entry = e, !.key = content[dir[e]],
          !.undisturbed = Putting(e) = {} /\ e \notin unsettled]]
  /\ UNCHANGED <<dir, content, puts, cuts, unsettled, crossed>>

GetSig(p) ==
  LET path == SigPath(store[p].entry)
  IN /\ store[p].at = "sig"
     /\ store' = [store EXCEPT ![p] =
          IF path \notin DOMAIN dir THEN NoCall
          ELSE [@ EXCEPT !.at = "got", !.sig = content[dir[path]]]]
     /\ UNCHANGED <<dir, content, puts, cuts, unsettled, crossed>>

(* What enumerate yields: of the public compartment, no `.sig` file. *)
Listed == {n \in DOMAIN dir : n.sub = "public" => Extension(n.leaf) # "sig"}

StoreNext ==
  \E p \in Processes :
    \/ \E e \in Entries : Put(p, e)
    \/ Stage(p) \/ Fill(p) \/ Rename(p) \/ Crash(p)
    \/ \E id \in Identities : GetKey(p, Public(id))
    \/ GetSig(p)

StoreSpec == StoreInit /\ [][StoreNext]_storeVars

-----------------------------------------------------------------------------
(* atomic_write: a key or signature file is never there half-written, even *)
(* after a crash, unless two puts staged it in the one temp file.          *)
WholeUnlessCrossed ==
  \A e \in Entries \ crossed :
    \A path \in Range(Paths(e)) \cap DOMAIN dir : content[dir[path]] # Torn

(* put_public and get_public take two steps each.  The signature that is   *)
(* returned with a key is the one that was put with it, unless a put of    *)
(* the identity was under way, had crashed or overlapped another one, or a *)
(* put of "<identity>.sig" has replaced the signature.                     *)
PairUnlessDisturbed ==
  \A p \in Processes :
    store[p].at = "got" /\ store[p].undisturbed => store[p].key = store[p].sig

(* enumerate yields the entries that were put, but never an identity that  *)
(* ends in ".sig"; it also yields the temp file of a put that is under way *)
(* or has crashed, which is not an entry.                                  *)
ListsEntries ==
  /\ \A n \in Listed :
       \/ n \in Entries
       \/ \E e \in Entries :
            /\ n \in {Staged(path) : path \in Range(Paths(e))}
            /\ e \in unsettled \/ Putting(e) # {}
  /\ \A e \in Entries \ unsettled :
       e \in DOMAIN dir /\ Putting(e) = {} => e \in Listed \/ Extension(e.leaf) = "sig"

(* Together: what is read from the store is what was put there. *)
FilesAreWhole == WholeUnlessCrossed /\ PairUnlessDisturbed /\ ListsEntries
====================================================================================
