------------------------------ MODULE ByteStream ------------------------------
(* What a connection of confium-net promises: reliable, ordered streams of *)
(* bytes.  The bytes written to a stream are numbered from 1.              *)
EXTENDS Naturals, Sequences

CONSTANT Streams

VARIABLES
  sent,       \* bytes written so far, per stream
  received    \* the bytes read so far, per stream

Init ==
  /\ sent = [s \in Streams |-> 0]
  /\ received = [s \in Streams |-> <<>>]

Write(s) ==
  /\ sent' = [sent EXCEPT ![s] = sent'[s]]
  /\ sent'[s] >= sent[s]
  /\ UNCHANGED received

(* The next bytes, in order, of those that have been written. *)
Read(s) ==
  /\ \E n \in Len(received[s]) .. sent[s] :
       received' = [received EXCEPT ![s] = [i \in 1 .. n |-> i]]
  /\ UNCHANGED sent

Next == \E s \in Streams : Write(s) \/ Read(s)

Spec == Init /\ [][Next]_<<sent, received>>
===============================================================================
