------------------------------ MODULE TrustGraph ------------------------------
(***************************************************************************)
(* The trust graph of confium-signatif (graph.rs) with the scope lattice   *)
(* of scope.rs: authorities, the delegations between them, and the search  *)
(* for the paths that lead from a signer to an anchored root.              *)
(***************************************************************************)
EXTENDS Naturals, SequencesExt

CONSTANTS
  NodesFor,         \* authority -> the nodes that may be added for it
  Anchors,          \* the aggregate keys of the roots in the bundle
  Words,            \* the values of a scope dimension
  MaxDelegations    \* bound: delegations

Authorities == DOMAIN NodesFor

VARIABLES
  nodes,   \* authority -> [kind, public_key, scope], for those added so far
  edges    \* the delegations, in the order in which they were added

graphVars == <<nodes, edges>>

GraphInit == nodes = <<>> /\ edges = <<>>

-----------------------------------------------------------------------------
(* A scope value permits the words in `of`; a wildcard permits all. *)
Wildcard == [kind |-> "wildcard", of |-> Words]
OneOf(words) == [kind |-> "set", of |-> words]
Single(word) == [kind |-> "single", of |-> {word}]

NarrowsValue(child, parent) ==
  \/ parent.kind = "wildcard"
  \/ child.kind = "single" /\ child.of \subseteq parent.of
  \/ child.kind = "set" /\ parent.kind = "set" /\ child.of \subseteq parent.of

(* Every scope has the named dimensions, of which "domain" stands for all; *)
(* an extension dimension may be absent, and is then not compared.         *)
Widened(child, parent) ==
  {d \in DOMAIN child \cap DOMAIN parent : ~NarrowsValue(child[d], parent[d])}

(* A delegation carries the parent's signature over the binding of the     *)
(* child, which covers all that the node has; a binding that has changed   *)
(* since, or another key of the parent's, does not verify.                 *)
Verifies(edge) ==
  edge.signature = [key |-> nodes[edge.parent].public_key,
                    over |-> nodes[edge.child]]

(* Mutant of ParentsOf: only the first delegation to a child counts. *)
ParentsOfOne(es, id) ==
  {i \in DOMAIN es : es[i].child = id /\ \A j \in 1 .. i - 1 : es[j].child # id}

ParentsOf(es, id) == {i \in DOMAIN es : es[i].child = id}

-----------------------------------------------------------------------------
(* A node met again is fine when its visit is over, a cycle when not. *)
Revisit(mark) == mark = "black"

(* visit, in depth-first order; it returns its verdict and the marks. *)
RECURSIVE Visit(_, _, _)
RECURSIVE VisitAll(_, _, _)
Visit(es, id, marks) ==
  IF id \in DOMAIN marks THEN [ok |-> Revisit(marks[id]), marks |-> marks]
  ELSE LET grey == [n \in DOMAIN marks \cup {id} |->
                      IF n = id THEN "grey" ELSE marks[n]]
           parents == {es[i].parent : i \in ParentsOf(es, id)}
           above == VisitAll(es, parents, grey)
       IN [ok |-> above.ok, marks |-> [above.marks EXCEPT ![id] = "black"]]

VisitAll(es, ids, marks) ==
  IF ids = {} THEN [ok |-> TRUE, marks |-> marks]
  ELSE LET id == CHOOSE i \in ids : TRUE
           first == Visit(es, id, marks)
       IN IF first.ok THEN VisitAll(es, ids \ {id}, first.marks) ELSE first

IsAcyclic(es) == VisitAll(es, DOMAIN nodes, <<>>).ok

AddNode(id, node) ==
  /\ nodes' = [n \in DOMAIN nodes \cup {id} |-> IF n = id THEN node ELSE nodes[n]]
  /\ UNCHANGED edges

(* A delegation signed for the child as it is, which is kept when it does  *)
(* not close a cycle.                                                      *)
AddDelegation(parent, child) ==
  LET edge == [parent |-> parent, child |-> child,
               signature |-> [key |-> nodes[parent].public_key,
                              over |-> nodes[child]]]
  IN /\ Len(edges) < MaxDelegations
     /\ IsAcyclic(Append(edges, edge))
     /\ edges' = Append(edges, edge)
     /\ UNCHANGED nodes

GraphNext ==
  \/ \E id \in Authorities : \E node \in NodesFor[id] : AddNode(id, node)
  \/ \E parent, child \in DOMAIN nodes : AddDelegation(parent, child)

-----------------------------------------------------------------------------
(* The checks on one link of a path. *)
LinkFails(edge) ==
  \/ ~Verifies(edge)
  \/ Widened(nodes[edge.child].scope, nodes[edge.parent].scope) # {}

(* walk: the paths from an authority up to the roots, as sequences of      *)
(* delegations; an error on any link that it comes to ends the search.     *)
RECURSIVE Walk(_, _)
Walk(id, prefix) ==
  IF nodes[id].kind = "root"
  THEN [ok |-> TRUE,
        paths |-> IF nodes[id].public_key \in Anchors THEN {prefix} ELSE {}]
  ELSE LET up == ParentsOf(edges, id)
           fails == \E i \in up : LinkFails(edges[i])
           above == {Walk(edges[i].parent, Append(prefix, i)) : i \in up}
       IN IF fails \/ \E r \in above : ~r.ok
          THEN [ok |-> FALSE, paths |-> {}]
          ELSE [ok |-> TRUE, paths |-> UNION {r.paths : r \in above}]

FindPaths(signer) == Walk(signer, <<>>)

RootOf(signer, path) ==
  IF path = <<>> THEN signer ELSE edges[path[Len(path)]].parent

(* The authorities on a path, the signer first. *)
OnPath(signer, path) == {signer} \cup {edges[i].parent : i \in Range(path)}

-----------------------------------------------------------------------------
(* The authorities that at most n delegations lead up to from ids. *)
RECURSIVE Climbed(_, _)
Climbed(ids, n) ==
  IF n = 0 THEN ids
  ELSE Climbed(ids \cup {edges[i].parent : i \in {i \in DOMAIN edges : edges[i].child \in ids}},
               n - 1)

(* An authority and those above it. *)
UpFrom(id) == Climbed({id}, Len(edges))

(* The marking in is_acyclic decides what it should: add_delegation keeps  *)
(* a delegation unless it is of an authority to itself or to one above it. *)
DecidesCycles ==
  \A parent \in DOMAIN nodes :
    LET above == UpFrom(parent)
    IN \A child \in DOMAIN nodes :
         IsAcyclic(Append(edges, [parent |-> parent, child |-> child]))
           <=> child \notin above

(* The ways up from a signer: delegations that follow one another and do   *)
(* not go on above a root.                                                 *)
Climbs(signer) ==
  {path \in UNION {[1 .. n -> DOMAIN edges] : n \in 0 .. Len(edges)} :
     \A k \in 1 .. Len(path) :
       /\ edges[path[k]].child = IF k = 1 THEN signer ELSE edges[path[k - 1]].parent
       /\ nodes[edges[path[k]].child].kind # "root"}

(* find_paths returns every way up that ends in an anchored root, and      *)
(* nothing else; or an error, exactly when some delegation on a way up,    *)
(* even one that leads to no root, is not verified or widens a scope.      *)
FindsEveryPath ==
  \A signer \in DOMAIN nodes :
    LET climbs == Climbs(signer)
        fails == \E path \in climbs : \E i \in Range(path) : LinkFails(edges[i])
        anchored == {path \in climbs :
                       /\ nodes[RootOf(signer, path)].kind = "root"
                       /\ nodes[RootOf(signer, path)].public_key \in Anchors}
    IN FindPaths(signer) = [ok |-> ~fails, paths |-> IF fails THEN {} ELSE anchored]

(* The scope of a signer is the narrowest on each of its paths: what it    *)
(* permits in a dimension, every authority up to the root permits.  In an  *)
(* extension dimension this needs every authority on the path to have it:  *)
(* one that leaves it out in the middle lets the next one widen it.        *)
NarrowsToRoot ==
  \A signer \in DOMAIN nodes : \A path \in FindPaths(signer).paths :
    LET scopes == {nodes[id].scope : id \in OnPath(signer, path)}
        signers == nodes[signer].scope
    IN \A d \in DOMAIN signers :
         (\A scope \in scopes : d \in DOMAIN scope) =>
           \A scope \in scopes : signers[d].of \subseteq scope[d].of

(* Together: the graph stays acyclic and is searched completely. *)
PathsAreRight == DecidesCycles /\ FindsEveryPath /\ NarrowsToRoot
==================================================================================
