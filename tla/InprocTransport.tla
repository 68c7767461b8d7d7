------------------------------ MODULE InprocTransport ------------------------------
(***************************************************************************)
(* The in-process transport of confium-net (transports/inproc.rs), under   *)
(* one channel name: the process-wide table of listeners, the rendezvous   *)
(* of a connector with a listener, and the connection that comes of it, a  *)
(* pair of channels of messages.  A connection has the name of its         *)
(* connector, and its two sides are "connector" and "peer".                *)
(***************************************************************************)
EXTENDS Naturals, Sequences, FiniteSetsExt

CONSTANTS
  Listeners, NoListener,
  Connectors,
  MaxBytes      \* bound: bytes sent, over all the streams

ASSUME NoListenerAssumption == NoListener \notin Listeners

Sides == {"connector", "peer"}
Other(s) == CHOOSE t \in Sides : t # s
(* A stream of bytes, by the side that writes it. *)
Directions == Connectors \X Sides

VARIABLES
  table,      \* the listener whose sender is registered, or NoListener
  listener,   \* "new", "live" or "dropped"
  handshakes, \* per listener: the connectors that it has yet to accept
  dialed,     \* per connector: the listener it found in the table
  side,       \* per side of a connection: "none", "open" or "closed"
  queue,      \* per stream: the messages in its channel
  pending,    \* per stream: the rest of the message being read
  sent,       \* per stream: bytes sent
  received    \* per stream: the bytes that recv returned

inprocVars ==
  <<table, listener, handshakes, dialed, side, queue, pending, sent, received>>
channelVars == <<queue, pending, sent, received>>

InprocInit ==
  /\ table = NoListener
  /\ listener = [l \in Listeners |-> "new"]
  /\ handshakes = [l \in Listeners |-> <<>>]
  /\ dialed = [c \in Connectors |-> NoListener]
  /\ side = [e \in Directions |-> "none"]
  /\ queue = [e \in Directions |-> <<>>]
  /\ pending = [e \in Directions |-> <<>>]
  /\ sent = [e \in Directions |-> 0]
  /\ received = [e \in Directions |-> <<>>]

-----------------------------------------------------------------------------
NameFree == table = NoListener

Listen(l) ==
  /\ listener[l] = "new"
  /\ NameFree
  /\ table' = l
  /\ listener' = [listener EXCEPT ![l] = "live"]
  /\ UNCHANGED <<handshakes, dialed, side, channelVars>>

(* Mutant of Unregistered: the sender stays in the table. *)
UnregisteredNot == table

(* connect takes the sender out of the table. *)
Unregistered == NoListener

(* connect, up to the release of the table. *)
Dial(c) ==
  /\ dialed[c] = NoListener
  /\ table # NoListener
  /\ dialed' = [dialed EXCEPT ![c] = table]
  /\ table' = Unregistered
  /\ UNCHANGED <<listener, handshakes, side, channelVars>>

(* The rest of connect: the handshake is sent, or fails because the        *)
(* listener was dropped in the meantime.                                   *)
Handshake(c) ==
  LET l == dialed[c]
  IN /\ l # NoListener
     /\ side[<<c, "connector">>] = "none"
     /\ IF listener[l] = "live"
        THEN /\ handshakes' = [handshakes EXCEPT ![l] = Append(@, c)]
             /\ side' = [side EXCEPT ![<<c, "connector">>] = "open"]
        ELSE /\ side' = [side EXCEPT ![<<c, "connector">>] = "closed"]
             /\ UNCHANGED handshakes
     /\ UNCHANGED <<table, listener, dialed, channelVars>>

Accept(l) ==
  /\ listener[l] = "live"
  /\ handshakes[l] # <<>>
  /\ side' = [side EXCEPT ![<<Head(handshakes[l]), "peer">>] = "open"]
  /\ handshakes' = [handshakes EXCEPT ![l] = Tail(@)]
  /\ UNCHANGED <<table, listener, dialed, channelVars>>

(* Dropping a listener removes the name, whoever registered it. *)
TableAfterDrop(l) == NoListener

(* The handshakes, and the channels in them, go with it. *)
DropListener(l) ==
  /\ listener[l] = "live"
  /\ listener' = [listener EXCEPT ![l] = "dropped"]
  /\ table' = TableAfterDrop(l)
  /\ handshakes' = [handshakes EXCEPT ![l] = <<>>]
  /\ side' = [e \in Directions |->
       IF e[2] = "peer" /\ e[1] \in Range(handshakes[l]) THEN "closed" ELSE side[e]]
  /\ UNCHANGED <<dialed, channelVars>>

(* send of n bytes in one message; an error unless the other side, or the  *)
(* handshake that carries its end of the channel, is there.                *)
SendBytes(e, n) ==
  /\ side[e] = "open"
  /\ side[<<e[1], Other(e[2])>>] # "closed"
  /\ FoldFunction(+, n, sent) <= MaxBytes
  /\ queue' = [queue EXCEPT ![e] = Append(@, [i \in 1 .. n |-> sent[e] + i])]
  /\ sent' = [sent EXCEPT ![e] = @ + n]
  /\ UNCHANGED <<table, listener, handshakes, dialed, side, pending, received>>

(* Mutant of Undrained: what does not fit in the buffer is dropped. *)
UndrainedNone(msg, n) == <<>>

(* The rest of the message is kept for the next recv. *)
Undrained(msg, n) == SubSeq(msg, n + 1, Len(msg))

(* recv, into a buffer of size len, on the side that reads stream e.  It   *)
(* waits while the channel is empty and the writer is there, and returns   *)
(* an error when the writer is gone and the channel is empty.              *)
RecvBytes(e, len) ==
  LET msg == IF pending[e] # <<>> THEN pending[e] ELSE Head(queue[e])
      n == Min({Len(msg), len})
  IN /\ side[<<e[1], Other(e[2])>>] = "open"
     /\ pending[e] # <<>> \/ queue[e] # <<>>
     /\ queue' = [queue EXCEPT ![e] = IF pending[e] # <<>> THEN @ ELSE Tail(@)]
     /\ pending' = [pending EXCEPT ![e] = Undrained(msg, n)]
     /\ received' = [received EXCEPT ![e] = @ \o SubSeq(msg, 1, n)]
     /\ UNCHANGED <<table, listener, handshakes, dialed, side, sent>>

(* close drops both channel ends: what the side had not read is lost. *)
CloseSide(e) ==
  LET from == <<e[1], Other(e[2])>>
  IN /\ side[e] = "open"
     /\ side' = [side EXCEPT ![e] = "closed"]
     /\ queue' = [queue EXCEPT ![from] = <<>>]
     /\ pending' = [pending EXCEPT ![from] = <<>>]
     /\ UNCHANGED <<table, listener, handshakes, dialed, sent, received>>

InprocNext ==
  \/ \E l \in Listeners : Listen(l) \/ Accept(l) \/ DropListener(l)
  \/ \E c \in Connectors : Dial(c) \/ Handshake(c)
  \/ \E e \in Directions :
       CloseSide(e) \/ \E n \in 1 .. 2 : SendBytes(e, n) \/ RecvBytes(e, n)

-----------------------------------------------------------------------------
Stream == INSTANCE ByteStream WITH Streams <- Directions

(* A connection is a pair of ordered streams of bytes: whatever the sizes  *)
(* of the messages and of the buffers they are read into, recv returns the *)
(* bytes that were sent, in order, with none missing in between.           *)
ImplementsStream == Stream!Init /\ [][Stream!Next]_<<sent, received>>

(* The bytes in the messages of a channel, in order. *)
InChannel(q) ==
  LET upTo[i \in 1 .. Len(q)] == IF i = 1 THEN q[i] ELSE upTo[i - 1] \o q[i]
  IN  IF Len(q) = 0 THEN <<>> ELSE upTo[Len(q)]

(* While both sides are open nothing is lost: what was sent is what was    *)
(* returned, the rest of the current message and the channel.              *)
NothingLost ==
  \A e \in Directions :
    (\A s \in Sides : side[<<e[1], s>>] # "closed") =>
      received[e] \o pending[e] \o InChannel(queue[e]) = [i \in 1 .. sent[e] |-> i]

(* A listener meets one connector: no two connectors get the sender of the *)
(* same listener out of the table.                                         *)
OneConnectorEach ==
  \A c, d \in Connectors : dialed[c] = dialed[d] /\ c # d => dialed[c] = NoListener

(* A listener can be reached until it is dropped or someone has connected  *)
(* to it, unless the drop of another listener has removed its name.        *)
ReachableUnlessDropped ==
  \A l \in Listeners :
    listener[l] = "live" =>
      \/ table = l
      \/ \E c \in Connectors : dialed[c] = l
      \/ \E k \in Listeners : listener[k] = "dropped"

(* The sender in the table always has its listener: a name that is found   *)
(* leads to an error only if the listener is dropped during the connect.   *)
TableHasLiveListener == table # NoListener => listener[table] = "live"

(* Together: a name leads to its listener, one connector gets it, and what *)
(* they then send is all there.                                            *)
RendezvousIsSound ==
  /\ OneConnectorEach
  /\ TableHasLiveListener
  /\ ReachableUnlessDropped
  /\ NothingLost
====================================================================================
