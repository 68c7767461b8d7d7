------------------------------ MODULE MCComponents ------------------------------
(* Model checking of components that share nothing: a behaviour exercises  *)
(* one of them, chosen at the start.  They come in three groups: the       *)
(* evidence (the transparency log, the trust graph and the pipeline on top *)
(* of it), the managers of the threshold key crate, and storage, transport *)
(* and the revocation index.                                               *)
EXTENDS MCTransparencyLog, SignatifPipeline, RevocationIndex,
        TwoPhaseCommit, SnapshotStore, WalStreamer, KeyLifecycle,
        FilesystemStore, InprocTransport, TcpTransport

VARIABLE component

(* Identities that share a directory, one of them with the name of another *)
(* one's signature file.                                                   *)
MCSecrets == {<<"k">>}
MCIdentities == {<<"alice", "com">>, <<"alice", "org">>, <<"alice", "com", "sig">>}

-----------------------------------------------------------------------------
(* The authorities of the graph: two forms of a signer, of a delegate and  *)
(* of a root, of which the second root is not anchored.                    *)
Named(d) == [domain |-> d]
Extended(d, x) == [domain |-> d, region |-> x]
Node(kind, key, scope) == [kind |-> kind, public_key |-> key, scope |-> scope]

MCNodesFor ==
  [s |-> {Node("end", 1, Named(Single("a"))),
          Node("end", 1, Extended(OneOf({"a", "b"}), Single("b")))},
   m |-> {Node("delegated", 2, Named(OneOf({"a", "b"}))),
          Node("delegated", 2, Extended(Wildcard, Single("a")))},
   r |-> {Node("root", 3, Extended(Wildcard, OneOf({"a"}))),
          Node("root", 4, Named(Wildcard))},
   q |-> {}]

(* The graphs under the pipeline: one root, two roots, two paths to one.   *)
PipelineNodes ==
  [s |-> Node("end", 1, Named(Single("a"))),
   m |-> Node("delegated", 2, Named(OneOf({"a", "b"}))),
   r |-> Node("root", 3, Named(Wildcard)),
   q |-> Node("root", 5, Named(Wildcard))]
Edge(c, p) ==
  [parent |-> p, child |-> c,
   signature |-> [key |-> PipelineNodes[p].public_key, over |-> PipelineNodes[c]]]
PipelineEdges ==
  {<<Edge("s", "m"), Edge("m", "r")>>, <<Edge("s", "r"), Edge("s", "q")>>,
   <<Edge("s", "m"), Edge("m", "r"), Edge("s", "r")>>}

Block(dimension, timestamp) ==
  [signer |-> "s", algorithm |-> "ed25519", dimension |-> dimension,
   timestamp |-> timestamp, verifies |-> TRUE, conditions |-> TRUE]
Artifact(blocks, attested, included, anchored) ==
  [major |-> 1, intact |-> TRUE, blocks |-> blocks, attested |-> attested,
   included |-> included, time_anchored |-> anchored]
Plain == Artifact(<<Block("data", 0)>>, {}, TRUE, FALSE)

MCArtifacts ==
  {Artifact(<<Block("person", 0)>>, {}, TRUE, TRUE),
   Artifact(<<Block("person", 0), Block("time", 1)>>, {}, TRUE, TRUE),
   Artifact(<<Block("data", 0)>>, {1}, TRUE, TRUE),
   Artifact(<<Block("time", 0), Block("time", 1)>>, {}, FALSE, TRUE),
   Plain,
   [Plain EXCEPT !.intact = FALSE],
   [Plain EXCEPT !.major = 2],
   [Plain EXCEPT !.blocks = <<[Block("data", 0) EXCEPT !.conditions = FALSE]>>],
   [Plain EXCEPT !.blocks = <<[Block("data", 0) EXCEPT !.signer = "x"]>>]}

-----------------------------------------------------------------------------
evidenceVars == <<logVars, pipelineVars>>
managerVars == <<twoPcVars, snapshotVars, streamVars, keyVars>>
storageVars == <<storeVars, inprocVars, tcpVars, indexVars>>

Init ==
  /\ component \in {"log", "graph", "pipeline", "commit", "snapshot", "stream",
                    "keys", "store", "inproc", "tcp", "index"}
  /\ LogInit /\ PipelineInit
  /\ component # "log" => load = CHOOSE l \in Loads : TRUE
  /\ IF component = "pipeline"
     THEN nodes = PipelineNodes /\ edges \in PipelineEdges
     ELSE GraphInit
  /\ TwoPcInit /\ SnapshotInit /\ StreamInit /\ KeyInit
  /\ StoreInit /\ InprocInit /\ TcpInit /\ IndexInit

EvidenceNext ==
  \/ component = "log" /\ LogNext /\ UNCHANGED pipelineVars
  \/ component = "graph" /\ GraphNext /\ UNCHANGED <<logVars, now, crls, registry>>
  \/ component = "pipeline" /\ PipelineNext /\ UNCHANGED logVars

ManagerNext ==
  \/ /\ component = "commit" /\ TwoPcNext
     /\ UNCHANGED <<snapshotVars, streamVars, keyVars>>
  \/ /\ component = "snapshot" /\ SnapshotNext
     /\ UNCHANGED <<twoPcVars, streamVars, keyVars>>
  \/ /\ component = "stream" /\ StreamNext
     /\ UNCHANGED <<twoPcVars, snapshotVars, keyVars>>
  \/ /\ component = "keys" /\ KeyNext
     /\ UNCHANGED <<twoPcVars, snapshotVars, streamVars>>

StorageNext ==
  \/ /\ component = "store" /\ StoreNext
     /\ UNCHANGED <<inprocVars, tcpVars, indexVars>>
  \/ /\ component = "inproc" /\ InprocNext
     /\ UNCHANGED <<storeVars, tcpVars, indexVars>>
  \/ /\ component = "tcp" /\ TcpNext
     /\ UNCHANGED <<storeVars, inprocVars, indexVars>>
  \/ /\ component = "index" /\ IndexNext
     /\ UNCHANGED <<storeVars, inprocVars, tcpVars>>

Next ==
  \/ EvidenceNext /\ UNCHANGED <<component, managerVars, storageVars>>
  \/ ManagerNext /\ UNCHANGED <<component, evidenceVars, storageVars>>
  \/ StorageNext /\ UNCHANGED <<component, evidenceVars, managerVars>>

Spec == Init /\ [][Next]_<<component, evidenceVars, managerVars, storageVars>>
=================================================================================
