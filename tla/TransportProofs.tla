---------------------------- MODULE TransportProofs ----------------------------
(***************************************************************************)
(* The transports.  The in-process one, for any number of listeners,       *)
(* connectors and bytes: the rendezvous pairs a listener with one          *)
(* connector, no byte is lost or reordered, and a connection implements    *)
(* the ordered byte stream.  The TCP one, for any lengths: one recv        *)
(* returns one send, until a frame above the limit was sent.               *)
(***************************************************************************)
EXTENDS InprocTransport, TcpTransport, SequenceTheorems, WellFoundedInduction,
        TLAPS

(* The provers a leaf is given that names none of its own, tried in this order. *)
USE SMTT(30), ZenonT(30), Z3T(30), SMTT(40)

InprocSpec == InprocInit /\ [][InprocNext]_inprocVars

-----------------------------------------------------------------------------
(* The rendezvous. *)

InprocType ==
  /\ table \in Listeners \cup {NoListener}
  /\ listener \in [Listeners -> {"new", "live", "dropped"}]
  /\ dialed \in [Connectors -> Listeners \cup {NoListener}]
  /\ handshakes \in [Listeners -> Seq(Connectors)]
  /\ side \in [Directions -> {"none", "open", "closed"}]

(* A registered listener is alive and was not found by anyone yet, and a   *)
(* listener that was found had registered.                                 *)
DialInv ==
  /\ TableHasLiveListener
  /\ OneConnectorEach
  /\ \A c \in Connectors :
       dialed[c] # NoListener => dialed[c] # table /\ listener[dialed[c]] # "new"

(* A handshake in a listener's channel is the one of its connector. *)
Waiting(l, c) ==
  /\ handshakes[l] = <<c>>
  /\ dialed[c] = l
  /\ side[<<c, "connector">>] # "none"
  /\ side[<<c, "peer">>] = "none"

HandshakeInv ==
  /\ \A l \in Listeners : handshakes[l] # <<>> => \E c \in Connectors : Waiting(l, c)
  /\ \A c \in Connectors : side[<<c, "connector">>] = "none" => side[<<c, "peer">>] = "none"

RendezvousInv == InprocType /\ DialInv /\ HandshakeInv

(* The other side of a side. *)
LEMMA OtherSide == Other("connector") = "peer" /\ Other("peer") = "connector"
BY DEF Other, Sides

(* Every step keeps the types. *)
LEMMA TypeStep == InprocType /\ [InprocNext]_inprocVars => InprocType'
<1> SUFFICES ASSUME InprocType, [InprocNext]_inprocVars PROVE InprocType'
  OBVIOUS
<1> USE DEF InprocType
<1>1. ASSUME NEW l \in Listeners, Listen(l) PROVE InprocType'
  BY <1>1 DEF Listen
<1>2. ASSUME NEW l \in Listeners, Accept(l) PROVE InprocType'
  <2>1. Tail(handshakes[l]) \in Seq(Connectors)
    BY <1>2 DEF Accept
  <2>2. handshakes' \in [Listeners -> Seq(Connectors)]
    BY <1>2, <2>1 DEF Accept
  <2>3. QED
    BY <1>2, <2>2, ZenonT(30) DEF Accept
<1>3. ASSUME NEW l \in Listeners, DropListener(l) PROVE InprocType'
  BY <1>3 DEF DropListener, TableAfterDrop
<1>4. ASSUME NEW c \in Connectors, Dial(c) PROVE InprocType'
  BY <1>4 DEF Dial, Unregistered
<1>5. ASSUME NEW c \in Connectors, Handshake(c) PROVE InprocType'
  <2>1. CASE /\ dialed[c] \in Listeners
             /\ handshakes' = [handshakes EXCEPT ![dialed[c]] = Append(@, c)]
    <3>1. Append(handshakes[dialed[c]], c) \in Seq(Connectors)
      BY <2>1
    <3>2. handshakes' \in [Listeners -> Seq(Connectors)]
      BY <2>1, <3>1
    <3>3. QED
      BY <1>5, <3>2, ZenonT(30) DEF Handshake
  <2>2. CASE handshakes' = handshakes
    BY <1>5, <2>2, ZenonT(30) DEF Handshake
  <2>3. QED
    BY <1>5, <2>1, <2>2 DEF Handshake
<1>6. ASSUME NEW e \in Directions, CloseSide(e) PROVE InprocType'
  BY <1>6 DEF CloseSide
<1>7. ASSUME NEW e \in Directions, NEW n \in 1 .. 2, SendBytes(e, n) \/ RecvBytes(e, n)
      PROVE InprocType'
  BY <1>7, ZenonT(30) DEF SendBytes, RecvBytes
<1>8. CASE UNCHANGED inprocVars
  BY <1>8 DEF inprocVars
<1>9. QED
  BY <1>1, <1>2, <1>3, <1>4, <1>5, <1>6, <1>7, <1>8 DEF InprocNext

(* Every step keeps the table and the listeners that were found in step. *)
LEMMA DialStep == InprocType /\ DialInv /\ [InprocNext]_inprocVars => DialInv'
<1> SUFFICES ASSUME InprocType, DialInv, [InprocNext]_inprocVars PROVE DialInv'
  OBVIOUS
<1> USE NoListenerAssumption
        DEF InprocType, DialInv, TableHasLiveListener, OneConnectorEach
<1>1. ASSUME NEW l \in Listeners, Listen(l) PROVE DialInv'
  BY <1>1 DEF Listen, NameFree
<1>2. ASSUME NEW l \in Listeners, DropListener(l) PROVE DialInv'
  BY <1>2 DEF DropListener, TableAfterDrop
<1>3. ASSUME NEW c \in Connectors, Dial(c) PROVE DialInv'
  BY <1>3 DEF Dial, Unregistered
<1>4. CASE UNCHANGED <<table, listener, dialed>>
  BY <1>4
<1>5. ASSUME \/ \E l \in Listeners : Accept(l)
             \/ \E c \in Connectors : Handshake(c)
             \/ \E e \in Directions :
                  CloseSide(e) \/ \E n \in 1 .. 2 : SendBytes(e, n) \/ RecvBytes(e, n)
      PROVE UNCHANGED <<table, listener, dialed>>
  BY <1>5, ZenonT(30) DEF Accept, Handshake, CloseSide, SendBytes, RecvBytes
<1>6. QED
  BY <1>1, <1>2, <1>3, <1>4, <1>5 DEF InprocNext, inprocVars

(* Every step keeps the handshakes with their connectors. *)
LEMMA HandshakeStep == RendezvousInv /\ [InprocNext]_inprocVars => HandshakeInv'
<1> SUFFICES ASSUME RendezvousInv, [InprocNext]_inprocVars PROVE HandshakeInv'
  OBVIOUS
<1>0. \A c \in Connectors : <<c, "connector">> \in Directions /\ <<c, "peer">> \in Directions
  BY DEF Directions, Sides
<1> USE DEF RendezvousInv, InprocType, DialInv, OneConnectorEach, HandshakeInv, Waiting
<1>1. ASSUME NEW l \in Listeners, Accept(l) PROVE HandshakeInv'
  <2>1. PICK c \in Connectors : Waiting(l, c)
    BY <1>1 DEF Accept
  <2>2. /\ Head(handshakes[l]) = c
        /\ Tail(handshakes[l]) = <<>>
    BY <2>1
  <2>3. /\ handshakes' = [handshakes EXCEPT ![l] = <<>>]
        /\ side' = [side EXCEPT ![<<c, "peer">>] = "open"]
        /\ dialed' = dialed
    BY <1>1, <2>2, ZenonT(30) DEF Accept
  <2>4. ASSUME NEW m \in Listeners, handshakes'[m] # <<>>
        PROVE \E d \in Connectors : Waiting(m, d)'
    <3>1. m # l /\ handshakes[m] # <<>>
      BY <2>3, <2>4
    <3>2. PICK d \in Connectors : Waiting(m, d)
      BY <3>1
    <3>3. d # c
      BY <2>1, <3>1, <3>2
    <3>4. Waiting(m, d)'
      BY <1>0, <2>3, <3>1, <3>2, <3>3
    <3>5. QED
      BY <3>4, ZenonT(30)
  <2>5. QED
    BY <1>0, <2>1, <2>3, <2>4, ZenonT(30)
<1>2. ASSUME NEW l \in Listeners, DropListener(l) PROVE HandshakeInv'
  <2>1. /\ handshakes' = [handshakes EXCEPT ![l] = <<>>]
        /\ dialed' = dialed
        /\ \A c \in Connectors : side'[<<c, "connector">>] = side[<<c, "connector">>]
        /\ \A c \in Connectors :
             side'[<<c, "peer">>] =
               IF c \in Range(handshakes[l]) THEN "closed" ELSE side[<<c, "peer">>]
    BY <1>0, <1>2, ZenonT(30) DEF DropListener
  <2>2. ASSUME NEW c \in Connectors, c \in Range(handshakes[l])
        PROVE dialed[c] = l /\ side[<<c, "connector">>] # "none"
    <3>1. handshakes[l] # <<>>
      BY <2>2 DEF Range
    <3>2. PICK d \in Connectors : Waiting(l, d)
      BY <3>1, ZenonT(30)
    <3>3. c = d
      BY <2>2, <3>2 DEF Range
    <3>4. QED
      BY <3>2, <3>3
  <2>3. ASSUME NEW m \in Listeners, handshakes'[m] # <<>>
        PROVE \E d \in Connectors : Waiting(m, d)'
    <3>1. m # l /\ handshakes[m] # <<>>
      BY <2>1, <2>3
    <3>2. PICK d \in Connectors : Waiting(m, d)
      BY <3>1, ZenonT(30)
    <3>3. d \notin Range(handshakes[l])
      BY <2>2, <3>1, <3>2
    <3>4. Waiting(m, d)'
      BY <2>1, <3>1, <3>2, <3>3
    <3>5. QED
      BY <3>4, ZenonT(30)
  <2>4. \A c \in Connectors :
          side'[<<c, "connector">>] = "none" => side'[<<c, "peer">>] = "none"
    BY <2>1, <2>2
  <2>5. QED
    BY <2>3, <2>4, ZenonT(30)
<1>3. ASSUME NEW c \in Connectors, Handshake(c) PROVE HandshakeInv'
  <2> DEFINE l == dialed[c]
  <2>1. l \in Listeners /\ side[<<c, "connector">>] = "none" /\ dialed' = dialed
    BY <1>3, NoListenerAssumption DEF Handshake
  <2>2. handshakes[l] = <<>>
    <3> SUFFICES ASSUME handshakes[l] # <<>> PROVE FALSE
      OBVIOUS
    <3>1. PICK d \in Connectors : Waiting(l, d)
      BY <2>1, ZenonT(30)
    <3>2. d = c
      BY <2>1, <3>1, NoListenerAssumption
    <3>3. QED
      BY <2>1, <3>1, <3>2
  <2>3. PICK at \in {"open", "closed"} : side' = [side EXCEPT ![<<c, "connector">>] = at]
    BY <1>3 DEF Handshake
  <2>4. /\ side'[<<c, "connector">>] # "none"
        /\ \A d \in Connectors : side'[<<d, "peer">>] = side[<<d, "peer">>]
        /\ \A d \in Connectors \ {c} : side'[<<d, "connector">>] = side[<<d, "connector">>]
    <3>1. PICK k : k = <<c, "connector">>
      BY ZenonT(30)
    <3>2. side'[k] = at /\ \A e \in DOMAIN side : e # k => side'[e] = side[e]
      BY <1>0, <2>3, <3>1, ZenonT(30)
    <3>3. \A d \in Connectors : <<d, "peer">> # k /\ (d # c => <<d, "connector">> # k)
      BY <3>1
    <3>4. \A d \in Connectors : <<d, "peer">> \in DOMAIN side /\ <<d, "connector">> \in DOMAIN side
      BY <1>0, ZenonT(30)
    <3> QED
      BY <3>1, <3>2, <3>3, <3>4, ZenonT(30)
  <2>5. \A m \in Listeners \ {l} : handshakes'[m] = handshakes[m]
    BY <1>3 DEF Handshake
  <2>6. handshakes'[l] = <<>> \/ handshakes'[l] = <<c>>
    BY <1>3, <2>1, <2>2 DEF Handshake
  <2>7. side'[<<c, "peer">>] = "none"
    BY <2>1, <2>4
  <2>8. ASSUME NEW m \in Listeners, handshakes'[m] # <<>>
        PROVE \E d \in Connectors : Waiting(m, d)'
    <3>1. CASE m = l
      <4>1. Waiting(m, c)'
        BY <2>1, <2>4, <2>6, <2>8, <2>7, <3>1
      <4>2. QED
        BY <4>1, ZenonT(30)
    <3>2. CASE m # l
      <4>1. PICK d \in Connectors : Waiting(m, d)
        BY <2>5, <2>8, <3>2, ZenonT(30)
      <4>2. d # c
        BY <3>2, <4>1
      <4>3. Waiting(m, d)'
        BY <2>1, <2>4, <2>5, <3>2, <4>1, <4>2
      <4>4. QED
        BY <4>3, ZenonT(30)
    <3>3. QED
      BY <3>1, <3>2, ZenonT(30)
  <2>9. \A d \in Connectors :
          side'[<<d, "connector">>] = "none" => side'[<<d, "peer">>] = "none"
    BY <2>4, ZenonT(30)
  <2>10. QED
    BY <2>8, <2>9, ZenonT(30)
<1>4. ASSUME NEW e \in Directions, CloseSide(e) PROVE HandshakeInv'
  <2>1. /\ side[e] = "open"
        /\ side' = [side EXCEPT ![e] = "closed"]
        /\ handshakes' = handshakes
        /\ dialed' = dialed
    BY <1>4 DEF CloseSide
  <2>2. \A d \in Directions :
          /\ side[d] = "none" => side'[d] = "none"
          /\ side[d] # "none" => side'[d] # "none"
    BY <2>1
  <2>3. ASSUME NEW m \in Listeners, handshakes'[m] # <<>>
        PROVE \E d \in Connectors : Waiting(m, d)'
    <3>1. PICK d \in Connectors : Waiting(m, d)
      BY <2>1, <2>3, ZenonT(30)
    <3>2. Waiting(m, d)'
      BY <1>0, <2>1, <2>2, <3>1, ZenonT(30)
    <3>3. QED
      BY <3>2, ZenonT(30)
  <2>4. QED
    BY <1>0, <2>2, <2>3, ZenonT(30)
<1>5. CASE /\ UNCHANGED <<handshakes, side>>
           /\ \A c \in Connectors : dialed'[c] # dialed[c] => dialed[c] = NoListener
  <2>1. ASSUME NEW m \in Listeners, handshakes'[m] # <<>>
        PROVE \E d \in Connectors : Waiting(m, d)'
    <3>1. PICK d \in Connectors : Waiting(m, d)
      BY <1>5, <2>1, ZenonT(30)
    <3>2. Waiting(m, d)'
      BY <1>5, <3>1, NoListenerAssumption
    <3>3. QED
      BY <3>2, ZenonT(30)
  <2>2. QED
    BY <1>5, <2>1, ZenonT(30)
<1>6. ASSUME \/ \E l \in Listeners : Listen(l)
             \/ \E c \in Connectors : Dial(c)
             \/ \E e \in Directions, n \in 1 .. 2 : SendBytes(e, n) \/ RecvBytes(e, n)
             \/ UNCHANGED inprocVars
      PROVE  /\ UNCHANGED <<handshakes, side>>
             /\ \A c \in Connectors : dialed'[c] # dialed[c] => dialed[c] = NoListener
  <2>1. ASSUME NEW c \in Connectors, Dial(c)
        PROVE  /\ UNCHANGED <<handshakes, side>>
               /\ \A d \in Connectors : dialed'[d] # dialed[d] => dialed[d] = NoListener
    BY <2>1 DEF Dial
  <2>2. QED
    BY <1>6, <2>1, ZenonT(30) DEF Listen, SendBytes, RecvBytes, inprocVars
<1>7. QED
  BY <1>1, <1>2, <1>3, <1>4, <1>5, <1>6, ZenonT(30) DEF InprocNext

(* The rendezvous keeps its invariant. *)
LEMMA RendezvousHolds == InprocSpec => []RendezvousInv
<1>1. InprocInit => RendezvousInv
  BY DEF InprocInit, RendezvousInv, InprocType, DialInv, HandshakeInv,
         TableHasLiveListener, OneConnectorEach, Directions, Sides
<1>2. QED
  BY <1>1, TypeStep, DialStep, HandshakeStep, PTL DEF InprocSpec, RendezvousInv

-----------------------------------------------------------------------------
(* The bytes. *)

(* The n bytes after the first b. *)
Run(b, n) == [i \in 1 .. n |-> b + i]

(* A sequence whose bytes count on from b is a run. *)
LEMMA CountsOnIsRun ==
  ASSUME NEW q \in Seq(Nat), NEW b \in Nat, \A i \in 1 .. Len(q) : q[i] = b + i
  PROVE  q = Run(b, Len(q))
<1>1. q = [i \in 1 .. Len(q) |-> q[i]]
  OBVIOUS
<1>2. QED
  BY <1>1 DEF Run

(* A message: consecutive bytes, one at least. *)
Message(m) ==
  /\ m \in Seq(Nat)
  /\ m # <<>>
  /\ m[1] \in Nat \ {0}
  /\ m = Run(m[1] - 1, Len(m))

EndOf(m) == m[1] - 1 + Len(m)

(* What was returned is a prefix of what was sent. *)
Ordered(r, s) == s \in Nat /\ r \in Seq(Nat) /\ Len(r) <= s /\ r = Run(0, Len(r))

(* The rest of the current message goes on where recv stopped, and the     *)
(* messages in the channel go on from there, one after the other, up to    *)
(* the last byte sent.                                                     *)
Flow(r, p, q, s) ==
  /\ p \in Seq(Nat)
  /\ p = Run(Len(r), Len(p))
  /\ Len(r) + Len(p) <= s
  /\ q \in Seq(Seq(Nat))
  /\ \A i \in 1 .. Len(q) : Message(q[i]) /\ EndOf(q[i]) <= s
  /\ \A i \in 1 .. Len(q) - 1 : q[i + 1][1] = EndOf(q[i]) + 1
  /\ IF q = <<>> THEN Len(r) + Len(p) = s
     ELSE q[1][1] = Len(r) + Len(p) + 1 /\ EndOf(q[Len(q)]) = s

(* What a run of bytes is. *)
LEMMA RunIsMessage ==
  ASSUME NEW b \in Nat, NEW n \in Nat
  PROVE  /\ Run(b, n) \in Seq(Nat)
         /\ Len(Run(b, n)) = n
         /\ \A i \in 1 .. n : Run(b, n)[i] = b + i
BY DEF Run

(* Where a message ends. *)
LEMMA EndIsNat ==
  ASSUME NEW m, Message(m)
  PROVE  EndOf(m) \in Nat /\ m[1] \in Nat /\ Len(m) \in Nat
BY DEF Message, EndOf

(* send of a message puts it after the bytes that were sent before. *)
LEMMA FlowSend ==
  ASSUME NEW r, NEW p, NEW q, NEW s, NEW n \in Nat \ {0},
         Ordered(r, s), Flow(r, p, q, s)
  PROVE  Ordered(r, s + n) /\ Flow(r, p, Append(q, Run(s, n)), s + n)
<1> DEFINE m == Run(s, n)
           t == Append(q, m)
<1>0. s \in Nat /\ r \in Seq(Nat) /\ p \in Seq(Nat) /\ q \in Seq(Seq(Nat))
  BY DEF Ordered, Flow
<1>1. m \in Seq(Nat) /\ Len(m) = n /\ m[1] = s + 1
  <2>1. n \in Nat /\ 1 \in 1 .. n
    OBVIOUS
  <2>2. QED
    BY <1>0, <2>1, RunIsMessage, ZenonT(30)
<1>2. Message(m) /\ EndOf(m) = s + n
  <2>1. m[1] - 1 = s
    BY <1>0, <1>1
  <2>2. QED
    BY <1>0, <1>1, <2>1 DEF Message, EndOf
<1> HIDE DEF m
<1>3. /\ t \in Seq(Seq(Nat))
      /\ Len(t) = Len(q) + 1
      /\ t # <<>>
      /\ t[Len(q) + 1] = m
      /\ \A i \in 1 .. Len(q) : t[i] = q[i]
  <2> DEFINE S == Seq(Nat)
  <2>1. q \in Seq(S) /\ m \in S
    BY <1>0, <1>1
  <2> HIDE DEF S
  <2>2. /\ t \in Seq(S)
        /\ t # <<>>
        /\ Len(t) = Len(q) + 1
        /\ \A i \in 1 .. Len(q) : t[i] = q[i]
        /\ t[Len(q) + 1] = m
    BY <2>1, AppendProperties
  <2>3. QED
    BY <2>2 DEF S
<1> HIDE DEF t
<1>4. ASSUME NEW i \in 1 .. Len(t) PROVE Message(t[i]) /\ EndOf(t[i]) <= s + n
  <2>1. CASE i \in 1 .. Len(q)
    <3>1. t[i] = q[i] /\ Message(q[i]) /\ EndOf(q[i]) <= s
      BY <1>3, <2>1, ZenonT(30) DEF Flow
    <3>2. EndOf(q[i]) \in Nat
      BY <3>1, EndIsNat
    <3>3. EndOf(q[i]) <= s + n
      BY <1>0, <3>1, <3>2
    <3>4. QED
      BY <3>1, <3>3
  <2>2. CASE i = Len(q) + 1
    BY <1>0, <1>2, <1>3, <2>2
  <2>3. i \in 1 .. Len(q) \/ i = Len(q) + 1
    BY <1>0, <1>3
  <2>4. QED
    BY <2>1, <2>2, <2>3
<1>5. \A i \in 1 .. Len(t) : Message(t[i]) /\ EndOf(t[i]) <= s + n
  BY <1>4
<1>6. \A i \in 1 .. Len(t) - 1 : t[i + 1][1] = EndOf(t[i]) + 1
  <2> SUFFICES ASSUME NEW i \in 1 .. Len(q) PROVE t[i + 1][1] = EndOf(t[i]) + 1
    BY <1>0, <1>3
  <2>1. CASE i = Len(q)
    <3>1. q # <<>> /\ EndOf(q[i]) = s
      BY <1>0, <2>1 DEF Flow
    <3>2. QED
      BY <1>0, <1>1, <1>3, <2>1, <3>1
  <2>2. CASE i # Len(q)
    <3>1. i \in 1 .. Len(q) - 1 /\ i + 1 \in 1 .. Len(q)
      BY <1>0, <2>2
    <3>2. QED
      BY <1>3, <3>1, ZenonT(30) DEF Flow
  <2>3. QED
    BY <2>1, <2>2
<1>7. t[1][1] = Len(r) + Len(p) + 1
  <2>1. CASE q = <<>>
    <3>1. Len(q) = 0 /\ Len(r) + Len(p) = s
      BY <2>1 DEF Flow
    <3>2. t[1] = m
      BY <1>3, <3>1
    <3>3. QED
      BY <1>1, <3>1, <3>2
  <2>2. CASE q # <<>>
    <3>1. 1 \in 1 .. Len(q)
      BY <1>0, <2>2
    <3>2. QED
      BY <1>3, <2>2, <3>1 DEF Flow
  <2>3. QED
    BY <2>1, <2>2
<1>8. EndOf(t[Len(t)]) = s + n
  BY <1>2, <1>3
<1>9. Len(r) + Len(p) <= s + n /\ p = Run(Len(r), Len(p))
  BY <1>0 DEF Flow
<1>10. Flow(r, p, t, s + n)
  BY <1>0, <1>3, <1>5, <1>6, <1>7, <1>8, <1>9 DEF Flow
<1>11. Ordered(r, s + n)
  BY <1>0 DEF Ordered
<1>12. QED
  BY <1>10, <1>11 DEF t, m

(* recv with nothing left of the current message takes the next one. *)
LEMMA FlowNext ==
  ASSUME NEW r, NEW q, NEW s, Ordered(r, s), Flow(r, <<>>, q, s), q # <<>>
  PROVE  Flow(r, Head(q), Tail(q), s) /\ Head(q) # <<>>
<1> DEFINE m == Head(q)
           t == Tail(q)
<1>0. s \in Nat /\ r \in Seq(Nat) /\ q \in Seq(Seq(Nat)) /\ Len(q) \in Nat \ {0}
  BY DEF Ordered, Flow
<1>1. /\ m = q[1]
      /\ t \in Seq(Seq(Nat))
      /\ Len(t) = Len(q) - 1
      /\ \A i \in 1 .. Len(t) : t[i] = q[i + 1]
  BY <1>0
<1> HIDE DEF m, t
<1>2. Message(m) /\ m[1] = Len(r) + 1 /\ EndOf(m) <= s
  BY <1>0, <1>1 DEF Flow
<1>3. m \in Seq(Nat) /\ m = Run(Len(r), Len(m)) /\ EndOf(m) = Len(r) + Len(m)
  <2>1. m[1] - 1 = Len(r)
    BY <1>0, <1>2
  <2>2. QED
    BY <1>2, <2>1 DEF Message, EndOf
<1>4. \A i \in 1 .. Len(t) : Message(t[i]) /\ EndOf(t[i]) <= s
  <2> SUFFICES ASSUME NEW i \in 1 .. Len(t) PROVE Message(t[i]) /\ EndOf(t[i]) <= s
    OBVIOUS
  <2>1. t[i] = q[i + 1] /\ i + 1 \in 1 .. Len(q)
    BY <1>0, <1>1
  <2>2. QED
    BY <2>1 DEF Flow
<1>5. \A i \in 1 .. Len(t) - 1 : t[i + 1][1] = EndOf(t[i]) + 1
  <2> SUFFICES ASSUME NEW i \in 1 .. Len(t) - 1 PROVE t[i + 1][1] = EndOf(t[i]) + 1
    OBVIOUS
  <2>1. i \in 1 .. Len(t) /\ i + 1 \in 1 .. Len(t)
    BY <1>0, <1>1
  <2>2. i + 1 \in 1 .. Len(q) - 1 /\ t[i] = q[i + 1] /\ t[i + 1] = q[(i + 1) + 1]
    BY <1>0, <1>1, <2>1
  <2>3. QED
    BY <2>2 DEF Flow
<1>6. t = <<>> => Len(r) + Len(m) = s
  <2> SUFFICES ASSUME t = <<>> PROVE Len(r) + Len(m) = s
    OBVIOUS
  <2>1. Len(q) = 1
    BY <1>0, <1>1
  <2>2. QED
    BY <1>1, <1>3, <2>1 DEF Flow
<1>7. t # <<>> => t[1][1] = Len(r) + Len(m) + 1 /\ EndOf(t[Len(t)]) = s
  <2> SUFFICES ASSUME t # <<>> PROVE t[1][1] = Len(r) + Len(m) + 1 /\ EndOf(t[Len(t)]) = s
    OBVIOUS
  <2>1. Len(t) \in Nat \ {0}
    BY <1>1, EmptySeq, ZenonT(30)
  <2>2. 1 \in 1 .. Len(t) /\ Len(t) \in 1 .. Len(t) /\ Len(t) + 1 = Len(q)
    BY <1>0, <1>1, <2>1
  <2>3. 1 \in 1 .. Len(q) - 1 /\ t[1] = q[1 + 1] /\ t[Len(t)] = q[Len(q)]
    BY <1>1, <2>2
  <2>4. t[1][1] = EndOf(m) + 1
    BY <1>1, <2>3 DEF Flow
  <2>5. QED
    BY <1>0, <1>3, <2>3, <2>4 DEF Flow
<1>8. Len(r) + Len(m) <= s
  BY <1>2, <1>3
<1>9. Flow(r, m, t, s)
  BY <1>1, <1>3, <1>4, <1>5, <1>6, <1>7, <1>8 DEF Flow
<1>10. QED
  BY <1>2, <1>9 DEF m, t, Message

(* recv of n bytes of the current message returns the next n bytes and     *)
(* keeps the rest.                                                         *)
LEMMA FlowRecv ==
  ASSUME NEW r, NEW p, NEW q, NEW s, Ordered(r, s), Flow(r, p, q, s), NEW n \in 1 .. Len(p)
  PROVE  LET taken == r \o SubSeq(p, 1, n)
         IN /\ taken = Run(0, Len(r) + n)
            /\ Len(r) + n \in Len(r) .. s
            /\ Ordered(taken, s)
            /\ Flow(taken, SubSeq(p, n + 1, Len(p)), q, s)
<1> DEFINE taken == r \o SubSeq(p, 1, n)
           rest == SubSeq(p, n + 1, Len(p))
<1>0. /\ s \in Nat /\ r \in Seq(Nat) /\ p \in Seq(Nat) /\ n \in Nat
      /\ Len(p) \in Nat /\ Len(r) \in Nat
  BY DEF Ordered, Flow
<1>1. /\ \A i \in 1 .. Len(r) : r[i] = i
      /\ \A i \in 1 .. Len(p) : p[i] = Len(r) + i
  BY <1>0 DEF Ordered, Flow, Run
<1>2. /\ SubSeq(p, 1, n) \in Seq(Nat)
      /\ Len(SubSeq(p, 1, n)) = n
      /\ \A i \in 1 .. n : SubSeq(p, 1, n)[i] = p[i]
  BY <1>0
<1>3. /\ rest \in Seq(Nat)
      /\ Len(rest) = Len(p) - n
      /\ \A i \in 1 .. Len(p) - n : rest[i] = p[n + i]
  BY <1>0
<1>4. /\ taken \in Seq(Nat)
      /\ Len(taken) = Len(r) + n
      /\ \A i \in 1 .. Len(r) + n : taken[i] = i
  <2>1. taken \in Seq(Nat) /\ Len(taken) = Len(r) + n
    BY <1>0, <1>2
  <2>2. ASSUME NEW i \in 1 .. Len(r) + n PROVE taken[i] = i
    <3>1. CASE i <= Len(r)
      BY <1>0, <1>1, <1>2, <3>1
    <3>2. CASE i > Len(r)
      <4>1. i - Len(r) \in 1 .. n /\ i - Len(r) \in 1 .. Len(p)
        BY <1>0, <3>2
      <4>2. taken[i] = SubSeq(p, 1, n)[i - Len(r)]
        BY <1>0, <1>2, <3>2
      <4>3. QED
        BY <1>0, <1>1, <1>2, <4>1, <4>2
    <3>3. QED
      BY <1>0, <3>1, <3>2
  <2>3. QED
    BY <2>1, <2>2
<1> HIDE DEF taken, rest
<1>5. taken = Run(0, Len(r) + n)
  BY <1>0, <1>4 DEF Run
<1>6. rest = Run(Len(taken), Len(rest))
  <2>1. \A i \in 1 .. Len(rest) : rest[i] = Len(taken) + i
    <3> SUFFICES ASSUME NEW i \in 1 .. Len(p) - n PROVE rest[i] = Len(r) + n + i
      BY <1>3, <1>4
    <3>1. n + i \in 1 .. Len(p)
      BY <1>0
    <3>2. rest[i] = p[n + i] /\ p[n + i] = Len(r) + (n + i)
      BY <1>1, <1>3, <3>1
    <3>3. Len(r) + (n + i) = Len(r) + n + i
      BY <1>0
    <3>4. QED
      BY <3>2, <3>3
  <2>2. rest \in Seq(Nat) /\ Len(taken) \in Nat
    BY <1>0, <1>3, <1>4
  <2>3. QED
    BY <2>1, <2>2, CountsOnIsRun
<1>7. Len(taken) + Len(rest) = Len(r) + Len(p) /\ Len(r) + Len(p) <= s
  BY <1>0, <1>3, <1>4 DEF Flow
<1>8. Len(r) + n \in Len(r) .. s
  BY <1>0, <1>7
<1>9. Ordered(taken, s)
  BY <1>0, <1>4, <1>5, <1>8 DEF Ordered
<1>10. Flow(taken, rest, q, s)
  BY <1>3, <1>6, <1>7, ZenonT(30) DEF Flow
<1>11. QED
  BY <1>5, <1>8, <1>9, <1>10 DEF taken, rest

-----------------------------------------------------------------------------
(* The side that reads a stream. *)
ReaderOf(e) == <<e[1], Other(e[2])>>

StreamType ==
  /\ queue \in [Directions -> Seq(Seq(Nat))]
  /\ pending \in [Directions -> Seq(Nat)]
  /\ sent \in [Directions -> Nat]
  /\ received \in [Directions -> Seq(Nat)]

StreamInv ==
  /\ StreamType
  /\ \A e \in Directions : Ordered(received[e], sent[e])
  /\ \A e \in Directions :
       side[ReaderOf(e)] # "closed" => Flow(received[e], pending[e], queue[e], sent[e])

(* The reader of the stream that a side reads from is that side. *)
LEMMA ReaderTwice ==
  ASSUME NEW e \in Directions
  PROVE  ReaderOf(e) \in Directions /\ ReaderOf(ReaderOf(e)) = e
<1>1. PICK c \in Connectors, s \in Sides : e = <<c, s>>
  BY DEF Directions
<1>2. CASE s = "connector"
  BY <1>1, <1>2, OtherSide DEF ReaderOf, Directions, Sides
<1>3. CASE s = "peer"
  BY <1>1, <1>3, OtherSide DEF ReaderOf, Directions, Sides
<1>4. QED
  BY <1>2, <1>3 DEF Sides

(* A side that is closed stays closed: an accepted handshake is not one    *)
(* whose connection was dropped before.                                    *)
LEMMA ClosedForGood ==
  ASSUME RendezvousInv, [InprocNext]_inprocVars,
         NEW e \in Directions, side[e] = "closed"
  PROVE  side'[e] = "closed"
<1> USE DEF RendezvousInv, InprocType
<1>1. ASSUME NEW l \in Listeners, Accept(l) PROVE side'[e] = "closed"
  <2>1. PICK c \in Connectors : Waiting(l, c)
    BY <1>1 DEF Accept, HandshakeInv
  <2>2. handshakes[l] = <<c>> /\ side[<<c, "peer">>] = "none"
    BY <2>1 DEF Waiting
  <2>3. Head(handshakes[l]) = c
    BY <2>2
  <2>4. e # <<c, "peer">>
    BY <2>2, ZenonT(30)
  <2>5. Head(handshakes[l]) = c /\ e # <<c, "peer">>
    BY <2>3, <2>4
  <2>6. side' = [side EXCEPT ![<<c, "peer">>] = "open"]
    BY <1>1, <2>5, ZenonT(30) DEF Accept
  <2>7. QED
    BY <2>6, <2>5
<1>2. ASSUME NEW l \in Listeners, DropListener(l) PROVE side'[e] = "closed"
  BY <1>2 DEF DropListener
<1>3. ASSUME NEW c \in Connectors, Handshake(c) PROVE side'[e] = "closed"
  <2>1. e # <<c, "connector">>
    BY <1>3, ZenonT(30) DEF Handshake
  <2>2. QED
    BY <1>3, <2>1 DEF Handshake
<1>4. ASSUME NEW d \in Directions, CloseSide(d) PROVE side'[e] = "closed"
  BY <1>4 DEF CloseSide
<1>5. ASSUME \/ \E l \in Listeners : Listen(l)
             \/ \E c \in Connectors : Dial(c)
             \/ \E d \in Directions, n \in 1 .. 2 : SendBytes(d, n) \/ RecvBytes(d, n)
             \/ UNCHANGED inprocVars
      PROVE side'[e] = "closed"
  BY <1>5, ZenonT(30) DEF Listen, Dial, SendBytes, RecvBytes, inprocVars
<1>6. QED
  BY <1>1, <1>2, <1>3, <1>4, <1>5 DEF InprocNext

(* A step that changes one stream, and closes no side, keeps the others.   *)
LEMMA OneStream ==
  ASSUME StreamInv, UNCHANGED side, StreamType', NEW e \in Directions,
         Ordered(received'[e], sent'[e]),
         Flow(received'[e], pending'[e], queue'[e], sent'[e]),
         \A d \in Directions \ {e} :
           /\ received'[d] = received[d] /\ sent'[d] = sent[d]
           /\ pending'[d] = pending[d] /\ queue'[d] = queue[d]
  PROVE  StreamInv'
BY DEF StreamInv, ReaderOf

(* send appends to its stream. *)
LEMMA SendStep ==
  ASSUME StreamInv, NEW e \in Directions, NEW n \in 1 .. 2, SendBytes(e, n)
  PROVE  StreamInv' /\ Stream!Write(e)
<1> DEFINE q == Append(queue[e], Run(sent[e], n))
<1>1. Ordered(received[e], sent[e]) /\ Flow(received[e], pending[e], queue[e], sent[e])
  BY ZenonT(30) DEF StreamInv, SendBytes, ReaderOf
<1>2. n \in Nat \ {0} /\ sent[e] \in Nat
  BY DEF StreamInv, StreamType
<1>3. Ordered(received[e], sent[e] + n) /\ Flow(received[e], pending[e], q, sent[e] + n)
  BY <1>1, <1>2, FlowSend
<1>4. q \in Seq(Seq(Nat))
  BY <1>3 DEF Flow
<1>5. /\ queue' = [queue EXCEPT ![e] = q]
      /\ sent' = [sent EXCEPT ![e] = sent[e] + n]
      /\ pending' = pending /\ received' = received /\ side' = side
  BY ZenonT(30) DEF SendBytes, Run
<1> HIDE DEF q
<1>6. StreamType'
  BY <1>2, <1>4, <1>5 DEF StreamInv, StreamType
<1>7. queue'[e] = q /\ sent'[e] = sent[e] + n
  BY <1>5 DEF StreamInv, StreamType
<1>8. \A d \in Directions \ {e} : sent'[d] = sent[d] /\ queue'[d] = queue[d]
  BY <1>5 DEF StreamInv, StreamType
<1>9. StreamInv'
  BY <1>3, <1>5, <1>6, <1>7, <1>8, OneStream
<1>10. sent' = [sent EXCEPT ![e] = sent'[e]]
  BY <1>5, <1>7, ZenonT(30)
<1>11. sent'[e] >= sent[e]
  BY <1>2, <1>7
<1>12. Stream!Write(e)
  BY <1>5, <1>10, <1>11 DEF Stream!Write
<1>13. QED
  BY <1>9, <1>12

(* The smaller of two lengths. *)
LEMMA MinOfTwo ==
  ASSUME NEW a \in Nat, NEW b \in Nat
  PROVE  /\ Min({a, b}) \in {a, b}
         /\ Min({a, b}) <= a
         /\ Min({a, b}) <= b
<1>1. \E x \in {a, b} : \A y \in {a, b} : x <= y
  <2>1. CASE a <= b
    BY <2>1
  <2>2. CASE b <= a
    BY <2>2
  <2>3. QED
    BY <2>1, <2>2
<1>2. Min({a, b}) \in {a, b} /\ \A y \in {a, b} : Min({a, b}) <= y
  BY <1>1 DEF Min
<1>3. QED
  BY <1>2

(* recv reads from its stream the bytes that come next. *)
LEMMA RecvStep ==
  ASSUME StreamInv, NEW e \in Directions, NEW len \in 1 .. 2, RecvBytes(e, len)
  PROVE  StreamInv' /\ Stream!Read(e)
<1> DEFINE msg == IF pending[e] # <<>> THEN pending[e] ELSE Head(queue[e])
           rest == IF pending[e] # <<>> THEN queue[e] ELSE Tail(queue[e])
           n == Min({Len(msg), len})
           taken == received[e] \o SubSeq(msg, 1, n)
           left == SubSeq(msg, n + 1, Len(msg))
<1>1. Ordered(received[e], sent[e]) /\ Flow(received[e], pending[e], queue[e], sent[e])
  BY DEF StreamInv, RecvBytes, ReaderOf
<1>2. Flow(received[e], msg, rest, sent[e]) /\ msg # <<>>
  <2>1. CASE pending[e] # <<>>
    BY <1>1, <2>1
  <2>2. CASE pending[e] = <<>>
    <3>1. queue[e] # <<>> /\ Flow(received[e], <<>>, queue[e], sent[e])
      BY <1>1, <2>2 DEF RecvBytes
    <3>2. QED
      BY <1>1, <2>2, <3>1, FlowNext
  <2>3. QED
    BY <2>1, <2>2
<1>3. /\ queue' = [queue EXCEPT ![e] = rest]
      /\ pending' = [pending EXCEPT ![e] = left]
      /\ received' = [received EXCEPT ![e] = taken]
      /\ sent' = sent /\ side' = side
  BY DEF RecvBytes, Undrained
<1> HIDE DEF msg, rest
<1>4. msg \in Seq(Nat) /\ Len(msg) \in Nat \ {0}
  BY <1>2, EmptySeq DEF Flow
<1>5. n \in 1 .. Len(msg)
  <2>1. len \in Nat /\ len >= 1
    OBVIOUS
  <2>2. n \in {Len(msg), len} /\ n <= Len(msg)
    BY <1>4, <2>1, MinOfTwo
  <2> HIDE DEF n
  <2>3. QED
    BY <1>4, <2>1, <2>2
<1> HIDE DEF n
<1>6. /\ taken = Run(0, Len(received[e]) + n)
      /\ Len(received[e]) + n \in Len(received[e]) .. sent[e]
      /\ Ordered(taken, sent[e])
      /\ Flow(taken, left, rest, sent[e])
  BY <1>1, <1>2, <1>5, FlowRecv, ZenonT(30)
<1> HIDE DEF taken, left
<1>7. taken \in Seq(Nat) /\ left \in Seq(Nat) /\ rest \in Seq(Seq(Nat))
  BY <1>6 DEF Ordered, Flow
<1>8. StreamType'
  BY <1>3, <1>7 DEF StreamInv, StreamType
<1>9. queue'[e] = rest /\ pending'[e] = left /\ received'[e] = taken
  BY <1>3 DEF StreamInv, StreamType
<1>10. \A d \in Directions \ {e} :
         queue'[d] = queue[d] /\ pending'[d] = pending[d] /\ received'[d] = received[d]
  BY <1>3 DEF StreamInv, StreamType
<1>11. StreamInv'
  BY <1>3, <1>6, <1>8, <1>9, <1>10, OneStream
<1>12. Stream!Read(e)
  BY <1>3, <1>6 DEF Stream!Read, Run
<1>13. QED
  BY <1>11, <1>12

(* Every other step leaves the bytes that were sent and returned alone. *)
LEMMA QuietStep ==
  ASSUME RendezvousInv, StreamInv, [InprocNext]_inprocVars,
         ~ \E e \in Directions, n \in 1 .. 2 : SendBytes(e, n) \/ RecvBytes(e, n)
  PROVE  StreamInv' /\ UNCHANGED <<sent, received>>
<1>1. ASSUME NEW e \in Directions, CloseSide(e) PROVE StreamInv' /\ UNCHANGED <<sent, received>>
  <2> DEFINE from == ReaderOf(e)
  <2>1. from \in Directions /\ ReaderOf(from) = e
    BY ReaderTwice
  <2>2. /\ queue' = [queue EXCEPT ![from] = <<>>]
        /\ pending' = [pending EXCEPT ![from] = <<>>]
        /\ UNCHANGED <<sent, received>>
        /\ side' = [side EXCEPT ![e] = "closed"]
    BY <1>1 DEF CloseSide, ReaderOf
  <2> HIDE DEF from
  <2>3. <<>> \in Seq(Nat) /\ <<>> \in Seq(Seq(Nat))
    OBVIOUS
  <2>4. StreamType'
    BY <2>2, <2>3, ZenonT(30) DEF StreamInv, StreamType
  <2>5. side'[e] = "closed"
    BY <2>2 DEF RendezvousInv, InprocType
  <2>6. ASSUME NEW d \in Directions, side'[ReaderOf(d)] # "closed"
        PROVE Flow(received[d], pending'[d], queue'[d], sent[d])
    <3>1. d # from
      BY <2>1, <2>5, <2>6
    <3>2. side[ReaderOf(d)] # "closed"
      BY <2>6, ReaderTwice, ClosedForGood
    <3>3. pending'[d] = pending[d] /\ queue'[d] = queue[d]
      BY <2>2, <3>1 DEF StreamInv, StreamType
    <3>4. QED
      BY <3>2, <3>3 DEF StreamInv
  <2>7. QED
    BY <2>2, <2>4, <2>6 DEF StreamInv, ReaderOf
<1>2. CASE UNCHANGED channelVars
  <2>1. ASSUME NEW d \in Directions, side'[ReaderOf(d)] # "closed"
        PROVE side[ReaderOf(d)] # "closed"
    BY <2>1, ReaderTwice, ClosedForGood
  <2>2. QED
    BY <1>2, <2>1 DEF channelVars, StreamInv, StreamType, ReaderOf
<1>3. ASSUME \/ \E l \in Listeners : Listen(l) \/ Accept(l) \/ DropListener(l)
             \/ \E c \in Connectors : Dial(c) \/ Handshake(c)
             \/ UNCHANGED inprocVars
      PROVE UNCHANGED channelVars
  BY <1>3, ZenonT(30) DEF Listen, Accept, DropListener, Dial, Handshake, inprocVars, channelVars
<1>4. QED
  BY <1>1, <1>2, <1>3 DEF InprocNext

(* At the start nothing was sent. *)
LEMMA StreamStart == InprocInit => StreamInv /\ Stream!Init
<1> SUFFICES ASSUME InprocInit PROVE StreamInv /\ Stream!Init
  OBVIOUS
<1>1. StreamType /\ Stream!Init
  BY DEF InprocInit, StreamType, Stream!Init
<1>2. ASSUME NEW e \in Directions
      PROVE Ordered(received[e], sent[e]) /\ Flow(received[e], pending[e], queue[e], sent[e])
  <2>1. received[e] = <<>> /\ pending[e] = <<>> /\ queue[e] = <<>> /\ sent[e] = 0
    BY DEF InprocInit
  <2>2. Run(0, 0) = <<>>
    BY DEF Run
  <2>3. QED
    BY <2>1, <2>2 DEF Ordered, Flow
<1>3. QED
  BY <1>1, <1>2 DEF StreamInv

(* A connection implements the ordered byte stream: whatever the sizes of  *)
(* the messages and of the buffers, however many bytes are sent, and       *)
(* whenever a side closes or a listener is dropped, recv returns the bytes *)
(* that were sent, in order, with none missing in between.                 *)
THEOREM TransportImplementsStream == InprocSpec => ImplementsStream
<1>1. RendezvousInv /\ StreamInv /\ [InprocNext]_inprocVars
        => StreamInv' /\ [Stream!Next]_<<sent, received>>
  BY SendStep, RecvStep, QuietStep DEF Stream!Next
<1>2. QED
  BY <1>1, StreamStart, RendezvousHolds, PTL DEF InprocSpec, ImplementsStream

-----------------------------------------------------------------------------
(* Nothing is lost. *)

(* A set of numbers has a least one. *)
LEMMA LeastOf ==
  ASSUME NEW T \in SUBSET Nat, T # {}
  PROVE  \E n \in T : \A m \in T : n <= m
<1>1. PICK R : R = OpToRel(<, Nat)
  BY ZenonT(30)
<1>2. \E x \in T : \A y \in T : ~ (<<y, x>> \in R)
  BY <1>1, NatLessThanWellFounded, WFMin, ZenonT(30)
<1>3. \A x, y \in Nat : <<y, x>> \in R <=> y < x
  BY <1>1 DEF OpToRel
<1>4. PICK n \in T : \A m \in T : ~ (<<m, n>> \in R)
  BY <1>2
<1>5. ASSUME NEW m \in T PROVE n <= m
  <2>1. n \in Nat /\ m \in Nat
    OBVIOUS
  <2>2. ~ (m < n)
    BY <1>3, <1>4, <2>1, ZenonT(30)
  <2> QED
    BY <2>1, <2>2
<1> QED
  BY <1>5

(* A run that another one goes on from. *)
LEMMA RunOn ==
  ASSUME NEW b \in Nat, NEW m \in Nat, NEW k \in Nat
  PROVE  Run(b, m) \o Run(b + m, k) = Run(b, m + k)
<1>1. PICK s : s = Run(b, m)
  OBVIOUS
<1>2. PICK c \in Nat : c = b + m
  OBVIOUS
<1>3. PICK t : t = Run(c, k)
  OBVIOUS
<1>4. /\ s \in Seq(Nat) /\ Len(s) = m /\ \A i \in 1 .. m : s[i] = b + i
      /\ t \in Seq(Nat) /\ Len(t) = k /\ \A i \in 1 .. k : t[i] = c + i
  BY <1>1, <1>3, RunIsMessage, ZenonT(30)
<1>5. PICK u : u = s \o t
  BY ZenonT(30)
<1>6. u \in Seq(Nat) /\ Len(u) = m + k
  BY <1>4, <1>5
<1>7. ASSUME NEW i \in 1 .. m + k PROVE u[i] = b + i
  <2>1. CASE i <= m
    BY <1>4, <1>5, <2>1
  <2>2. CASE i > m
    <3>1. i - m \in 1 .. k
      BY <2>2
    <3>2. t[i - m] = c + (i - m)
      BY <1>4, <3>1
    <3>3. /\ s \in Seq(Nat) /\ t \in Seq(Nat)
          /\ i \in 1 .. Len(s) + Len(t) /\ i > Len(s)
      BY <1>4, <2>2
    <3>4. (s \o t)[i] = t[i - Len(s)]
      BY <3>3
    <3>5. u[i] = t[i - m]
      BY <1>4, <1>5, <3>4
    <3> QED
      BY <1>2, <2>2, <3>2, <3>5
  <2> QED
    BY <2>1, <2>2
<1>8. u = Run(b, Len(u))
  BY <1>7, <1>6, CountsOnIsRun
<1> QED
  BY <1>1, <1>2, <1>3, <1>5, <1>8, <1>6, ZenonT(30)

(* The messages of a channel, one after the other. *)
Chain(q, b) ==
  /\ q \in Seq(Seq(Nat)) /\ q # <<>>
  /\ \A i \in 1 .. Len(q) : Message(q[i])
  /\ \A i \in 1 .. Len(q) - 1 : q[i + 1][1] = EndOf(q[i]) + 1
  /\ q[1][1] = b + 1

(* What InChannel computes, and its value at each message. *)
Flat(q, f) == [i \in 1 .. Len(q) |-> IF i = 1 THEN q[i] ELSE f[i - 1] \o q[i]]

(* InChannel is the last value of a solution of that equation. *)
LEMMA FlattenIsFlat ==
  ASSUME NEW q, Len(q) # 0, NEW g, g = Flat(q, g)
  PROVE  \E f : f = Flat(q, f) /\ InChannel(q) = f[Len(q)]
<1>1. PICK f : f = CHOOSE h : h = [i \in 1 .. Len(q) |-> IF i = 1 THEN q[i] ELSE h[i - 1] \o q[i]]
  BY ZenonT(30)
<1>2. InChannel(q) = f[Len(q)]
  BY <1>1 DEF InChannel
<1>3. f = [i \in 1 .. Len(q) |-> IF i = 1 THEN q[i] ELSE f[i - 1] \o q[i]]
  BY <1>1, ZenonT(30) DEF Flat
<1> QED
  BY <1>2, <1>3, ZenonT(30) DEF Flat

(* Each value is what was sent from b up to the end of that message. *)
LEMMA FlattenChain ==
  ASSUME NEW q, NEW b \in Nat, Chain(q, b)
  PROVE  /\ EndOf(q[Len(q)]) - b \in Nat
         /\ InChannel(q) = Run(b, EndOf(q[Len(q)]) - b)
<1>1. PICK n \in Nat \ {0} : n = Len(q)
  BY EmptySeq DEF Chain
<1>2. \A i \in 1 .. n : /\ Message(q[i]) /\ EndOf(q[i]) \in Nat
                       /\ q[i][1] \in Nat /\ Len(q[i]) \in Nat
  BY <1>1, EndIsNat DEF Chain
<1> DEFINE End == [i \in 1 .. n |-> EndOf(q[i])]
<1>3. /\ \A i \in 1 .. n : End[i] \in Nat /\ End[i] = EndOf(q[i])
      /\ \A i \in 1 .. n : i # 1 => i - 1 \in 1 .. n
  BY <1>2
<1> HIDE DEF End
<1>4. \A i \in 1 .. n : q[i] = Run(q[i][1] - 1, Len(q[i])) /\ End[i] = q[i][1] - 1 + Len(q[i])
  BY <1>2, <1>3 DEF Message, EndOf
<1>5. ASSUME NEW i \in 1 .. n, i # 1 PROVE q[i][1] - 1 = End[i - 1]
  <2>1. PICK j \in 1 .. n : j = i - 1 /\ i = j + 1 /\ j \in 1 .. n - 1
    BY <1>3, <1>5
  <2>2. q[j + 1][1] = EndOf(q[j]) + 1
    BY <1>1, <2>1 DEF Chain
  <2>3. q[i][1] = End[j] + 1 /\ End[j] \in Nat
    BY <1>3, <2>1, <2>2, ZenonT(30)
  <2> QED
    BY <2>1, <2>3
<1>6. q[1][1] - 1 = b
  BY DEF Chain
(* All the ends are beyond b. *)
<1>7. \A i \in 1 .. n : b <= End[i]
  <2> SUFFICES ASSUME \E i \in 1 .. n : ~(b <= End[i]) PROVE FALSE
    OBVIOUS
  <2>1. PICK T : T = {i \in 1 .. n : ~(b <= End[i])}
    BY ZenonT(30)
  <2>2. T \in SUBSET Nat /\ T # {}
    BY <2>1
  <2>3. PICK i \in T : \A m \in T : i <= m
    BY <2>2, LeastOf
  <2>4. i \in 1 .. n /\ i # 1
    BY <1>2, <1>3, <1>4, <1>6, <2>1
  <2>5. PICK j \in 1 .. n : j = i - 1
    BY <1>3, <2>4
  <2>6. j \notin T
    BY <2>3, <2>5, <2>4
  <2>7. b <= End[j]
    BY <2>1, <2>6
  <2>8. End[i] = End[j] + Len(q[i])
    BY <1>4, <1>5, <2>4, <2>5
  <2>9. b <= End[i]
    BY <1>2, <1>3, <2>4, <2>7, <2>8
  <2> QED
    BY <2>1, <2>9
<1> DEFINE g == [i \in 1 .. n |-> Run(b, End[i] - b)]
<1>8. \A i \in 1 .. n : i # 1 => Run(b, End[i - 1] - b) \o q[i] = Run(b, End[i] - b)
  <2> SUFFICES ASSUME NEW i \in 1 .. n, i # 1
               PROVE  Run(b, End[i - 1] - b) \o q[i] = Run(b, End[i] - b)
    BY ZenonT(30)
  <2>1. PICK e, l \in Nat : e = End[i - 1] /\ l = Len(q[i])
    BY <1>2, <1>3
  <2>2. PICK m \in Nat : m = e - b
    BY <1>3, <1>7, <2>1
  <2>3. q[i] = Run(b + m, l)
    BY <1>4, <1>5, <2>1, <2>2
  <2>4. End[i] = e + l
    BY <1>4, <1>5, <2>1
  <2>5. End[i] - b = m + l
    BY <2>2, <2>4
  <2>6. Run(b, m) \o Run(b + m, l) = Run(b, m + l)
    BY RunOn, ZenonT(30)
  <2> QED
    BY <2>1, <2>2, <2>3, <2>5, <2>6, ZenonT(30)
<1>9. Run(b, End[1] - b) = q[1]
  <2>1. PICK l \in Nat : l = Len(q[1])
    BY <1>2
  <2>2. End[1] - b = l /\ q[1] = Run(b, l)
    BY <1>4, <1>6, <2>1
  <2> QED
    BY <2>2
<1>10. g = Flat(q, g)
  BY <1>1, <1>3, <1>8, <1>9, ZenonT(30) DEF Flat
<1>11. PICK f : f = Flat(q, f) /\ InChannel(q) = f[n]
  BY <1>1, <1>10, FlattenIsFlat
(* The equation has one solution. *)
<1>12. \A i \in 1 .. n : f[i] = g[i]
  <2> SUFFICES ASSUME \E i \in 1 .. n : f[i] # g[i] PROVE FALSE
    OBVIOUS
  <2>1. PICK T : T = {i \in 1 .. n : f[i] # g[i]}
    BY ZenonT(30)
  <2>2. T \in SUBSET Nat /\ T # {}
    BY <2>1
  <2>3. PICK i \in T : \A m \in T : i <= m
    BY <2>2, LeastOf
  <2>4. /\ i \in 1 .. n
        /\ f[i] = IF i = 1 THEN q[i] ELSE f[i - 1] \o q[i]
        /\ g[i] = IF i = 1 THEN q[i] ELSE g[i - 1] \o q[i]
    BY <1>1, <1>10, <1>11, <2>1, ZenonT(30) DEF Flat
  <2> HIDE DEF g
  <2>5. i # 1
    BY <2>1, <2>4
  <2>6. PICK j \in 1 .. n : j = i - 1
    BY <1>3, <2>4, <2>5
  <2>7. j \notin T
    BY <2>3, <2>4, <2>6
  <2>8. f[j] = g[j]
    BY <2>1, <2>7
  <2> QED
    BY <2>1, <2>4, <2>5, <2>6, <2>8, ZenonT(30)
<1>13. n \in 1 .. n /\ End[n] - b \in Nat
  BY <1>3, <1>7
<1> QED
  BY <1>1, <1>3, <1>11, <1>12, <1>13

(* While neither side has closed, what was sent is what was returned, the  *)
(* rest of the current message and the messages in the channel.            *)
LEMMA FlowIsWhole ==
  ASSUME NEW r, NEW p, NEW q, NEW s, Ordered(r, s), Flow(r, p, q, s)
  PROVE  r \o p \o InChannel(q) = [i \in 1 .. s |-> i]
<1>1. PICK l, m \in Nat : l = Len(r) /\ m = Len(p)
  BY DEF Ordered, Flow
<1>2. s \in Nat /\ r = Run(0, l) /\ p = Run(l, m) /\ q \in Seq(Seq(Nat))
  BY <1>1 DEF Ordered, Flow
<1>3. r \o p = Run(0, l + m)
  <2>1. Run(0, l) \o Run(0 + l, m) = Run(0, l + m)
    BY RunOn, ZenonT(30)
  <2> QED
    BY <1>2, <2>1
<1>4. PICK b \in Nat : b = l + m
  OBVIOUS
<1>5. Run(0, b) \o InChannel(q) = Run(0, s)
  <2>1. CASE q = <<>>
    <3>1. InChannel(q) = <<>>
      BY <2>1 DEF InChannel
    <3>2. s = b
      BY <1>1, <1>4, <2>1 DEF Flow
    <3>3. Run(0, b) \in Seq(Nat)
      BY RunIsMessage
    <3>4. Run(0, b) \o <<>> = Run(0, b)
      BY <3>3
    <3> QED
      BY <3>1, <3>2, <3>4
  <2>2. CASE q # <<>>
    <3>1. Chain(q, b) /\ EndOf(q[Len(q)]) = s
      BY <1>1, <1>4, <2>2 DEF Flow, Chain
    <3>2. s - b \in Nat /\ InChannel(q) = Run(b, s - b)
      BY <3>1, FlattenChain
    <3>3. PICK k \in Nat : k = s - b
      BY <3>2
    <3>4. Run(0, b) \o Run(0 + b, k) = Run(0, b + k)
      BY RunOn, ZenonT(30)
    <3>5. 0 + b = b /\ b + k = s
      BY <1>2, <3>3
    <3> QED
      BY <3>2, <3>3, <3>4, <3>5
  <2> QED
    BY <2>1, <2>2
<1>6. Run(0, s) = [i \in 1 .. s |-> i]
  BY <1>2 DEF Run
<1> QED
  BY <1>3, <1>4, <1>5, <1>6, ZenonT(30)

(* A listener can be reached, or was found, or a listener was dropped. *)
LEMMA ReachableStep ==
  ASSUME RendezvousInv, ReachableUnlessDropped, [InprocNext]_inprocVars
  PROVE  ReachableUnlessDropped'
<1> USE NoListenerAssumption DEF RendezvousInv, InprocType, ReachableUnlessDropped
<1>1. ASSUME NEW l \in Listeners, Listen(l) PROVE ReachableUnlessDropped'
  BY <1>1, ZenonT(30) DEF Listen, NameFree
<1>2. ASSUME NEW l \in Listeners, DropListener(l) PROVE ReachableUnlessDropped'
  <2>1. listener'[l] = "dropped"
    BY <1>2 DEF DropListener
  <2> QED
    BY <2>1
<1>3. ASSUME NEW c \in Connectors, Dial(c) PROVE ReachableUnlessDropped'
  <2>1. /\ dialed'[c] = table /\ dialed[c] = NoListener
        /\ \A d \in Connectors : d # c => dialed'[d] = dialed[d]
        /\ listener' = listener
    BY <1>3 DEF Dial
  <2> QED
    BY <2>1, ZenonT(30)
<1>4. CASE UNCHANGED <<table, listener, dialed>>
  BY <1>4
<1>5. ASSUME \/ \E l \in Listeners : Accept(l)
             \/ \E c \in Connectors : Handshake(c)
             \/ \E e \in Directions :
                  CloseSide(e) \/ \E n \in 1 .. 2 : SendBytes(e, n) \/ RecvBytes(e, n)
      PROVE UNCHANGED <<table, listener, dialed>>
  BY <1>5, ZenonT(30) DEF Accept, Handshake, CloseSide, SendBytes, RecvBytes
<1> QED
  BY <1>1, <1>2, <1>3, <1>4, <1>5 DEF InprocNext, inprocVars

(* The rendezvous is sound for any number of listeners, connectors and     *)
(* bytes: a name that is found leads to its listener, one connector gets   *)
(* it, a listener can be found until it was or one was dropped, and while  *)
(* both sides of a connection are open nothing that was sent is lost.      *)
THEOREM RendezvousSafety == InprocSpec => []RendezvousIsSound
<1>1. InprocInit => StreamInv /\ ReachableUnlessDropped
  BY StreamStart DEF InprocInit, ReachableUnlessDropped
<1>2. RendezvousInv /\ StreamInv /\ [InprocNext]_inprocVars => StreamInv'
  BY SendStep, RecvStep, QuietStep
<1>3. RendezvousInv /\ StreamInv /\ ReachableUnlessDropped => RendezvousIsSound
  <2> SUFFICES ASSUME RendezvousInv, StreamInv, ReachableUnlessDropped PROVE RendezvousIsSound
    OBVIOUS
  <2>1. ASSUME NEW e \in Directions, \A s \in Sides : side[<<e[1], s>>] # "closed"
        PROVE  received[e] \o pending[e] \o InChannel(queue[e]) = [i \in 1 .. sent[e] |-> i]
    <3>1. side[ReaderOf(e)] # "closed"
      <4>1. Other(e[2]) \in Sides
        BY OtherSide DEF Directions, Sides
      <4> QED
        BY <2>1, <4>1 DEF ReaderOf
    <3>2. Ordered(received[e], sent[e]) /\ Flow(received[e], pending[e], queue[e], sent[e])
      BY <3>1 DEF StreamInv
    <3> QED
      BY <3>2, FlowIsWhole, ZenonT(30)
  <2>2. NothingLost
    BY <2>1, ZenonT(30) DEF NothingLost
  <2> QED
    BY <2>2 DEF RendezvousIsSound, RendezvousInv, DialInv
<1> QED
  BY <1>1, <1>2, <1>3, ReachableStep, RendezvousHolds, PTL DEF InprocSpec

-----------------------------------------------------------------------------
(* Frames over a stream: TcpTransport. *)

(* A byte of one of the frames, and the byte that follows a byte. *)
Position == Nat \X Nat
Valid(fr, p) == p[1] \in 1 .. Len(fr) /\ p[2] \in 1 .. (PrefixLen + fr[p[1]])
After(fr, p) ==
  IF p[2] < PrefixLen + fr[p[1]] THEN <<p[1], p[2] + 1>> ELSE <<p[1] + 1, 1>>

(* The bytes s follow one another, the first of them is a; the byte that   *)
(* would come next.                                                        *)
Follow(fr, a, s) ==
  \A i \in 1 .. Len(s) : s[i] = IF i = 1 THEN a ELSE After(fr, s[i - 1])
NextByte(fr, a, s) == IF s = <<>> THEN a ELSE After(fr, s[Len(s)])
NextIs(fr, a, s, b) == NextByte(fr, a, s) = b

Bytes(fr, s) == s \in Seq(Position) /\ \A i \in 1 .. Len(s) : Valid(fr, s[i])

Receiving ==
  [at : {"idle", "prefix", "payload", "closed"}, size : Nat, len : Nat,
   bytes : Seq(Position)]
Filled == [size : Nat, bytes : Seq(Position)]

TcpType ==
  /\ frames \in Seq(Nat)
  /\ Bytes(frames, unwritten) /\ Bytes(frames, wire) /\ Bytes(frames, reader.bytes)
  /\ writer \in {"open", "closed"}
  /\ writer = "closed" => unwritten = <<>>
  /\ reader \in Receiving
  /\ reader.at \in {"idle", "closed"} => reader.bytes = <<>>
  /\ reader.at = "prefix" => Len(reader.bytes) <= PrefixLen
  /\ reader.at = "payload" => PrefixLen <= Len(reader.bytes)
  /\ returned \in Seq(Filled)

Clean(fr, n) == \A f \in DOMAIN fr : f <= n => ~TooLong(fr[f])

(* recv is in step with send: it has the first bytes of the frame after    *)
(* those that it returned, and what is to come follows them.               *)
Due(fr, n, k) == IF k = 0 THEN <<n + 1, 1>> ELSE After(fr, <<n + 1, k>>)

InStepAt(n, k) ==
  /\ \A i \in 1 .. k : reader.bytes[i] = <<n + 1, i>>
  /\ k # 0 => n + 1 \in 1 .. Len(frames) /\ k <= PrefixLen + frames[n + 1]
  /\ reader.at = "payload" => reader.len = frames[n + 1]
  /\ Follow(frames, Due(frames, n, k), wire \o unwritten)
  /\ writer = "open" =>
       NextByte(frames, Due(frames, n, k), wire \o unwritten) = <<Len(frames) + 1, 1>>

Refused(n) == n + 1 \in 1 .. Len(frames) /\ TooLong(frames[n + 1])

(* The stream has ended and nothing is left of it. *)
Ended ==
  writer = "closed" /\ wire = <<>> /\ reader.bytes = <<>> /\ reader.at # "payload"

(* Where recv is: in step, or past the point from where it need not be. *)
Place(n) ==
  \/ reader.at = "closed" \/ Ended
  \/ Refused(n) \/ InStepAt(n, Len(reader.bytes))

StepInv == Clean(frames, Len(returned)) => Place(Len(returned))

TcpInv == TcpType /\ StepInv /\ InStepUntilRefusal

-----------------------------------------------------------------------------
(* One more frame changes nothing about the bytes of the earlier ones. *)
LEMMA FramesGrow ==
  ASSUME NEW fr \in Seq(Nat), NEW len \in Nat, NEW g, g = Append(fr, len)
  PROVE  /\ g \in Seq(Nat) /\ Len(g) = Len(fr) + 1 /\ g[Len(fr) + 1] = len
         /\ \A i \in 1 .. Len(fr) : g[i] = fr[i]
         /\ \A p \in Position : Valid(fr, p) => Valid(g, p) /\ After(g, p) = After(fr, p)
         /\ \A s : Bytes(fr, s) => Bytes(g, s)
<1>1. PICK n \in Nat : n = Len(fr)
  OBVIOUS
<1>2. g \in Seq(Nat) /\ Len(g) = n + 1 /\ g[n + 1] = len /\ \A i \in 1 .. n : g[i] = fr[i]
  BY <1>1
<1>3. ASSUME NEW p \in Position, Valid(fr, p) PROVE Valid(g, p) /\ After(g, p) = After(fr, p)
  <2>1. p[1] \in 1 .. n /\ p[1] \in 1 .. (n + 1) /\ p[2] \in 1 .. (PrefixLen + fr[p[1]])
    BY <1>1, <1>3 DEF Valid, Position
  <2>2. g[p[1]] = fr[p[1]]
    BY <1>2, <2>1
  <2> QED
    BY <1>2, <2>1, <2>2 DEF Valid, After
<1>4. ASSUME NEW s, Bytes(fr, s) PROVE Bytes(g, s)
  <2>1. \A i \in 1 .. Len(s) : s[i] \in Position /\ Valid(fr, s[i])
    BY <1>4 DEF Bytes
  <2> QED
    BY <1>3, <1>4, <2>1 DEF Bytes
<1> QED
  BY <1>1, <1>2, <1>3, <1>4

(* What is read leaves the rest. *)
LEMMA FollowTail ==
  ASSUME NEW fr, NEW a, NEW s \in Seq(Position), s # <<>>, Follow(fr, a, s)
  PROVE  /\ s[1] = a /\ Tail(s) \in Seq(Position)
         /\ Follow(fr, After(fr, a), Tail(s))
         /\ NextByte(fr, After(fr, a), Tail(s)) = NextByte(fr, a, s)
<1>1. PICK n \in Nat : n = Len(s) /\ n # 0
  BY EmptySeq
<1>2. PICK t : t = Tail(s)
  BY ZenonT(30)
<1>3. t \in Seq(Position) /\ Len(t) = n - 1 /\ \A i \in 1 .. (n - 1) : t[i] = s[i + 1]
  BY <1>1, <1>2
<1>4. \A i \in 1 .. n : s[i] = IF i = 1 THEN a ELSE After(fr, s[i - 1])
  BY <1>1 DEF Follow
<1>5. s[1] = a
  BY <1>1, <1>4
<1>6. ASSUME NEW i \in 1 .. (n - 1)
      PROVE  t[i] = IF i = 1 THEN After(fr, a) ELSE After(fr, t[i - 1])
  <2>1. i + 1 \in 1 .. n /\ i + 1 # 1 /\ (i + 1) - 1 = i
    BY <1>1
  <2>2. t[i] = After(fr, s[i])
    BY <1>3, <1>4, <2>1
  <2>3. i # 1 => i - 1 \in 1 .. (n - 1) /\ (i - 1) + 1 = i
    BY <1>1
  <2> QED
    BY <1>3, <1>5, <2>2, <2>3
<1>7. Follow(fr, After(fr, a), t)
  BY <1>3, <1>6 DEF Follow
<1>8. NextByte(fr, After(fr, a), t) = NextByte(fr, a, s)
  <2>1. CASE n = 1
    <3>1. t = <<>>
      BY <1>3, <2>1, EmptySeq
    <3> QED
      BY <1>1, <1>5, <2>1, <3>1 DEF NextByte
  <2>2. CASE n # 1
    <3>1. n - 1 \in 1 .. (n - 1) /\ (n - 1) + 1 = n /\ Len(t) # 0
      BY <1>1, <1>3, <2>2
    <3>2. t # <<>> /\ t[Len(t)] = s[n]
      BY <1>3, <3>1
    <3> QED
      BY <1>1, <3>2 DEF NextByte
  <2> QED
    BY <2>1, <2>2
<1> QED
  BY <1>2, <1>3, <1>5, <1>7, <1>8

(* A beginning of bytes that follow one another. *)
LEMMA FollowCut ==
  ASSUME NEW fr, NEW a, NEW s \in Seq(Position), NEW k \in 0 .. Len(s), Follow(fr, a, s)
  PROVE  Follow(fr, a, SubSeq(s, 1, k))
<1>1. PICK n \in Nat : n = Len(s)
  OBVIOUS
<1>2. PICK t : t = SubSeq(s, 1, k)
  BY ZenonT(30)
<1>3. Len(t) = k /\ \A i \in 1 .. k : t[i] = s[i]
  BY <1>1, <1>2
<1>4. ASSUME NEW i \in 1 .. k PROVE t[i] = IF i = 1 THEN a ELSE After(fr, t[i - 1])
  <2>1. i \in 1 .. n /\ (i # 1 => i - 1 \in 1 .. k)
    BY <1>1
  <2> QED
    BY <1>1, <1>3, <2>1 DEF Follow
<1> QED
  BY <1>2, <1>3, <1>4 DEF Follow

(* Bytes that go on where others end. *)
LEMMA FollowOn ==
  ASSUME NEW fr, NEW a, NEW s \in Seq(Position), NEW t \in Seq(Position),
         Follow(fr, a, s), Follow(fr, NextByte(fr, a, s), t)
  PROVE  /\ Follow(fr, a, s \o t)
         /\ NextByte(fr, a, s \o t) = NextByte(fr, NextByte(fr, a, s), t)
<1>1. PICK m \in Nat, n \in Nat : m = Len(s) /\ n = Len(t)
  OBVIOUS
<1>2. PICK r : r = s \o t
  BY ZenonT(30)
<1>3. /\ r \in Seq(Position) /\ Len(r) = m + n
      /\ \A i \in 1 .. m : r[i] = s[i]
      /\ \A i \in 1 .. n : r[m + i] = t[i]
  BY <1>1, <1>2
<1>4. PICK b : b = NextByte(fr, a, s)
  OBVIOUS
<1>5. \A i \in 1 .. m : s[i] = IF i = 1 THEN a ELSE After(fr, s[i - 1])
  BY <1>1 DEF Follow
<1>6. \A i \in 1 .. n : t[i] = IF i = 1 THEN b ELSE After(fr, t[i - 1])
  BY <1>1, <1>4 DEF Follow
<1>7. b = IF m = 0 THEN a ELSE After(fr, s[m])
  BY <1>1, <1>4, EmptySeq DEF NextByte
<1>8. ASSUME NEW i \in 1 .. (m + n) PROVE r[i] = IF i = 1 THEN a ELSE After(fr, r[i - 1])
  <2>1. CASE i <= m
    <3>1. i \in 1 .. m /\ (i # 1 => i - 1 \in 1 .. m)
      BY <1>1, <2>1
    <3> QED
      BY <1>3, <1>5, <3>1
  <2>2. CASE ~ (i <= m)
    <3>1. PICK j \in 1 .. n : i = m + j
      <4>1. i - m \in 1 .. n /\ i = m + (i - m)
        BY <1>1, <2>2
      <4> QED
        BY <4>1
    <3>2. r[i] = t[j]
      BY <1>3, <3>1
    <3>3. CASE j = 1
      <4>1. CASE m = 0
        BY <1>1, <1>6, <1>7, <3>1, <3>2, <3>3, <4>1
      <4>2. CASE m # 0
        <5>1. i # 1 /\ i - 1 = m /\ m \in 1 .. m
          BY <1>1, <3>1, <3>3, <4>2
        <5>2. r[i - 1] = s[m]
          BY <1>3, <5>1
        <5> QED
          BY <1>6, <1>7, <3>2, <3>3, <4>2, <5>1, <5>2
      <4> QED
        BY <4>1, <4>2
    <3>4. CASE j # 1
      <4>1. i # 1 /\ j - 1 \in 1 .. n /\ i - 1 = m + (j - 1)
        BY <1>1, <3>1, <3>4
      <4>2. r[i - 1] = t[j - 1]
        BY <1>3, <4>1
      <4> QED
        BY <1>6, <3>2, <3>4, <4>1, <4>2
    <3> QED
      BY <3>3, <3>4
  <2> QED
    BY <2>1, <2>2
<1>9. Follow(fr, a, r)
  BY <1>3, <1>8 DEF Follow
<1>10. NextByte(fr, a, r) = NextByte(fr, b, t)
  <2>1. CASE n = 0
    <3>1. t = <<>> /\ r = s
      BY <1>1, <1>2, <2>1, EmptySeq, ConcatEmptySeq, ZenonT(30)
    <3> QED
      BY <1>4, <3>1 DEF NextByte
  <2>2. CASE n # 0
    <3>1. t # <<>> /\ r # <<>> /\ n \in 1 .. n
      BY <1>1, <1>3, <2>2
    <3>2. r[Len(r)] = t[Len(t)]
      BY <1>1, <1>3, <3>1
    <3> QED
      BY <3>1, <3>2 DEF NextByte
  <2> QED
    BY <2>1, <2>2
<1> QED
  BY <1>2, <1>4, <1>9, <1>10

(* The bytes of one frame. *)
LEMMA FrameFollows ==
  ASSUME NEW fr \in Seq(Nat), NEW m \in 1 .. Len(fr), NEW w,
         w = [i \in 1 .. (PrefixLen + fr[m]) |-> <<m, i>>]
  PROVE  /\ Bytes(fr, w) /\ Follow(fr, <<m, 1>>, w)
         /\ NextByte(fr, <<m, 1>>, w) = <<m + 1, 1>>
<1>1. PICK k \in Nat : k = PrefixLen + fr[m] /\ k # 0
  BY TcpAssumption
<1>2. m \in Nat
  OBVIOUS
<1>3. w = [i \in 1 .. k |-> <<m, i>>]
  BY <1>1
<1>4. \A i \in 1 .. k : <<m, i>> \in Position
  BY <1>2 DEF Position
<1>5. w \in Seq(Position) /\ Len(w) = k /\ \A i \in 1 .. k : w[i] = <<m, i>>
  <2>1. w \in [1 .. k -> Position] /\ DOMAIN w = 1 .. k /\ \A i \in 1 .. k : w[i] = <<m, i>>
    BY <1>3, <1>4, Zenon
  <2>2. w \in Seq(Position)
    <3>1. w \in UNION {[1 .. n -> Position] : n \in Nat}
      BY <1>1, <2>1, Zenon
    <3> QED
      BY <3>1, SeqDef, Zenon
  <2>3. PICK n \in Nat : n = Len(w) /\ DOMAIN w = 1 .. n
    BY <2>2, LenProperties, ZenonT(30)
  <2>4. 1 .. n = 1 .. k
    BY <2>1, <2>3, ZenonT(30)
  <2>5. n = k
    BY <1>1, <2>4
  <2> QED
    BY <2>1, <2>2, <2>3, <2>5, ZenonT(30)
<1>6. Bytes(fr, w)
  BY <1>1, <1>5 DEF Bytes, Valid
<1>7. ASSUME NEW i \in 1 .. k PROVE w[i] = IF i = 1 THEN <<m, 1>> ELSE After(fr, w[i - 1])
  <2>1. CASE i = 1
    BY <1>5, <2>1, ZenonT(30)
  <2>2. CASE i # 1
    <3>1. i - 1 \in 1 .. k /\ i - 1 < k /\ (i - 1) + 1 = i
      BY <2>2
    <3>2. After(fr, <<m, i - 1>>) = <<m, (i - 1) + 1>>
      BY <1>1, <3>1 DEF After
    <3> QED
      BY <1>5, <2>2, <3>1, <3>2, ZenonT(30)
  <2> QED
    BY <2>1, <2>2
<1>8. Follow(fr, <<m, 1>>, w)
  BY <1>5, <1>7, ZenonT(30) DEF Follow
<1>9. w # <<>> /\ k \in 1 .. k
  BY <1>1, <1>5
<1>10. After(fr, <<m, k>>) = <<m + 1, 1>>
  BY <1>1 DEF After
<1> QED
  BY <1>5, <1>6, <1>8, <1>9, <1>10, ZenonT(30) DEF NextByte

-----------------------------------------------------------------------------
(* Bytes that are moved one by one, or cut. *)
LEMMA BytesMove ==
  ASSUME NEW fr, NEW s, Bytes(fr, s)
  PROVE  /\ s # <<>> => /\ Head(s) = s[1] /\ Head(s) \in Position /\ Valid(fr, Head(s))
                        /\ Bytes(fr, Tail(s))
         /\ \A p \in Position : Valid(fr, p) => Bytes(fr, Append(s, p))
         /\ \A k \in 0 .. Len(s) : Bytes(fr, SubSeq(s, 1, k))
         /\ Bytes(fr, <<>>)
<1>1. PICK n \in Nat : n = Len(s) /\ s \in Seq(Position) /\ (s # <<>> => n # 0)
  BY EmptySeq DEF Bytes
<1>2. \A i \in 1 .. n : s[i] \in Position /\ Valid(fr, s[i])
  BY <1>1 DEF Bytes
<1>3. ASSUME s # <<>>
      PROVE  Head(s) = s[1] /\ Head(s) \in Position /\ Valid(fr, Head(s)) /\ Bytes(fr, Tail(s))
  <2>1. 1 \in 1 .. n /\ Head(s) = s[1]
    BY <1>1, <1>3
  <2>2. /\ Tail(s) \in Seq(Position) /\ Len(Tail(s)) = n - 1
        /\ \A i \in 1 .. (n - 1) : Tail(s)[i] = s[i + 1] /\ i + 1 \in 1 .. n
    BY <1>1, <1>3
  <2> QED
    BY <1>2, <2>1, <2>2 DEF Bytes
<1>4. ASSUME NEW p \in Position, Valid(fr, p) PROVE Bytes(fr, Append(s, p))
  <2>1. PICK t : t = Append(s, p)
    BY ZenonT(30)
  <2>2. /\ t \in Seq(Position) /\ Len(t) = n + 1
        /\ t[n + 1] = p /\ \A i \in 1 .. n : t[i] = s[i]
    BY <1>1, <2>1
  <2>3. \A i \in 1 .. (n + 1) : i \in 1 .. n \/ i = n + 1
    OBVIOUS
  <2> QED
    BY <1>2, <1>4, <2>1, <2>2, <2>3 DEF Bytes
<1>5. ASSUME NEW k \in 0 .. n PROVE Bytes(fr, SubSeq(s, 1, k))
  <2>1. PICK t : t = SubSeq(s, 1, k)
    BY ZenonT(30)
  <2>2. t \in Seq(Position) /\ Len(t) = k /\ \A i \in 1 .. k : t[i] = s[i] /\ i \in 1 .. n
    BY <1>1, <2>1
  <2> QED
    BY <1>2, <2>1, <2>2 DEF Bytes
<1>6. Bytes(fr, <<>>)
  BY EmptySeq DEF Bytes
<1> QED
  BY <1>1, <1>3, <1>4, <1>5, <1>6

(* A recv at rest, one that starts and a stream that the reader closed. *)
LEMMA NoRecvIsTyped ==
  /\ NoRecv \in Receiving /\ NoRecv.at = "idle" /\ NoRecv.bytes = <<>>
  /\ \A size \in Nat : LET r == [NoRecv EXCEPT !.at = "prefix", !.size = size]
                       IN r \in Receiving /\ r.at = "prefix" /\ r.bytes = <<>>
  /\ LET r == [NoRecv EXCEPT !.at = "closed"]
     IN r \in Receiving /\ r.at = "closed" /\ r.bytes = <<>>
BY EmptySeq, ZenonT(30) DEF NoRecv, Receiving

(* ReadByte and DecodePrefix change one thing about the recv. *)
LEMMA ReaderMoves ==
  ASSUME TcpType
  PROVE  /\ \A p \in Position :
              LET r == [reader EXCEPT !.bytes = Append(@, p)]
              IN /\ r \in Receiving /\ r.at = reader.at /\ r.len = reader.len
                 /\ r.size = reader.size /\ r.bytes = Append(reader.bytes, p)
         /\ \A len \in Nat :
              LET r == [reader EXCEPT !.at = "payload", !.len = len]
              IN /\ r \in Receiving /\ r.at = "payload" /\ r.len = len
                 /\ r.size = reader.size /\ r.bytes = reader.bytes
<1>1. reader \in Receiving /\ reader.bytes \in Seq(Position)
  BY DEF TcpType, Bytes
<1>2. ASSUME NEW p \in Position
      PROVE  LET r == [reader EXCEPT !.bytes = Append(@, p)]
             IN /\ r \in Receiving /\ r.at = reader.at /\ r.len = reader.len
                /\ r.size = reader.size /\ r.bytes = Append(reader.bytes, p)
  <2>1. Append(reader.bytes, p) \in Seq(Position)
    BY <1>1, AppendProperties
  <2>2. PICK b \in Seq(Position) : b = Append(reader.bytes, p)
    BY <2>1, ZenonT(30)
  <2> QED
    BY <1>1, <2>2, ZenonT(30) DEF Receiving
<1> QED
  BY <1>1, <1>2, ZenonT(30) DEF Receiving

(* The length of a prefix is a number, in step or not. *)
LEMMA DecodesNat ==
  ASSUME TcpType, reader.at = "prefix", Len(reader.bytes) = PrefixLen,
         NEW len \in Decodes(reader.bytes)
  PROVE  len \in Nat
<1>1. PICK b : b = reader.bytes
  OBVIOUS
<1>2. b \in Seq(Position) /\ 1 \in 1 .. Len(b) /\ frames \in Seq(Nat)
  BY <1>1, TcpAssumption DEF TcpType, Bytes
<1>3. b[1] \in Position /\ Valid(frames, b[1])
  BY <1>1, <1>2 DEF TcpType, Bytes
<1>4. b[1][1] \in 1 .. Len(frames)
  BY <1>3 DEF Valid
<1>5. frames[b[1][1]] \in Nat
  BY <1>2, <1>4
<1>6. len = frames[b[1][1]] \/ len \in 0 .. (MAX_FRAME_LEN + 1)
  BY <1>1 DEF Decodes
<1> QED
  BY <1>5, <1>6, TcpAssumption

(* What FillBuffer hands out is a part of the payload that was read. *)
LEMMA FilledIsTyped ==
  ASSUME TcpType, reader.at = "payload", Len(reader.bytes) = PrefixLen + reader.len,
         NEW m, m = Min({reader.len, reader.size})
  PROVE  /\ m \in Nat /\ m <= reader.len
         /\ SubSeq(reader.bytes, PrefixLen + 1, PrefixLen + m) \in Seq(Position)
         /\ Len(SubSeq(reader.bytes, PrefixLen + 1, PrefixLen + m)) = m
         /\ \A i \in 1 .. m :
              SubSeq(reader.bytes, PrefixLen + 1, PrefixLen + m)[i] = reader.bytes[PrefixLen + i]
<1>1. PICK b : b = reader.bytes
  OBVIOUS
<1>2. PICK l \in Nat, z \in Nat : l = reader.len /\ z = reader.size
  BY DEF TcpType, Receiving
<1>3. m \in Nat /\ m <= l
  BY <1>2, MinOfTwo
<1>4. PICK q \in Nat : q = PrefixLen
  BY TcpAssumption
<1>5. b \in Seq(Position) /\ Len(b) = q + l
  BY <1>1, <1>2, <1>4 DEF TcpType, Bytes
<1>6. PICK u \in Int, v \in Int : u = q + 1 /\ v = q + m
  BY <1>3
<1>7. \A i \in u .. v : b[i] \in Position
  BY <1>3, <1>5, <1>6
<1>8. /\ SubSeq(b, u, v) \in Seq(Position)
      /\ Len(SubSeq(b, u, v)) = IF u <= v THEN v - u + 1 ELSE 0
      /\ \A i \in 1 .. v - u + 1 : SubSeq(b, u, v)[i] = b[u + i - 1]
  BY <1>7, SubSeqProperties
<1>9. Len(SubSeq(b, u, v)) = m
  BY <1>3, <1>6, <1>8
<1>10. \A i \in 1 .. m : SubSeq(b, u, v)[i] = b[q + i]
  <2>1. \A i \in 1 .. m : i \in 1 .. v - u + 1 /\ u + i - 1 = q + i
    BY <1>3, <1>6
  <2> QED
    BY <1>8, <2>1, ZenonT(30)
<1> QED
  BY <1>1, <1>2, <1>3, <1>4, <1>6, <1>8, <1>9, <1>10, ZenonT(30)

(* Every step of send, recv and the stream keeps the types. *)
LEMMA TcpTypeStep ==
  ASSUME TcpType, [TcpNext]_tcpVars
  PROVE  TcpType'
<1>1. /\ Bytes(frames, unwritten) /\ Bytes(frames, wire) /\ Bytes(frames, reader.bytes)
      /\ frames \in Seq(Nat) /\ Bytes(frames, <<>>)
  BY BytesMove, ZenonT(30) DEF TcpType
<1>2. ASSUME NEW len \in Payloads, StartFrame(len) PROVE TcpType'
  <2>1. PICK g \in {frames'} : g = Append(frames, len)
    BY <1>2 DEF StartFrame
  <2>2. len \in Nat
    BY TcpAssumption
  <2>3. /\ g \in Seq(Nat) /\ Len(g) = Len(frames) + 1 /\ g[Len(frames) + 1] = len
        /\ \A s : Bytes(frames, s) => Bytes(g, s)
    BY <1>1, <2>1, <2>2, FramesGrow, ZenonT(30)
  <2>4. PICK m \in 1 .. Len(g) : m = Len(frames) + 1
    BY <1>1, <2>3
  <2>5. unwritten' = [i \in 1 .. (PrefixLen + g[m]) |-> <<m, i>>]
    BY <1>2, <2>3, <2>4 DEF StartFrame
  <2>6. Bytes(g, unwritten')
    BY <2>3, <2>5, FrameFollows, ZenonT(30)
  <2>7. Bytes(frames', wire') /\ Bytes(frames', reader'.bytes)
    BY <1>1, <1>2, <2>1, <2>3 DEF StartFrame
  <2> QED
    BY <1>2, <2>1, <2>3, <2>6, <2>7 DEF TcpType, StartFrame
<1>3. CASE WriteByte
  <2>1. unwritten # <<>> /\ UNCHANGED <<frames, writer, reader, returned>>
    BY <1>3 DEF WriteByte
  <2>2. Bytes(frames', unwritten') /\ Bytes(frames', wire')
    <3>1. /\ Bytes(frames, Tail(unwritten)) /\ Head(unwritten) \in Position
          /\ Valid(frames, Head(unwritten))
      BY <1>1, <2>1, BytesMove
    <3>2. Bytes(frames, Append(wire, Head(unwritten)))
      BY <1>1, <3>1, BytesMove, ZenonT(30)
    <3> QED
      BY <1>1, <1>3, <2>1, <3>1, <3>2, ZenonT(30) DEF WriteByte
  <2> QED
    BY <2>1, <2>2 DEF TcpType
<1>4. CASE CloseWriter
  BY <1>1, <1>4 DEF CloseWriter, TcpType
<1>5. CASE Reset
  <2>1. Bytes(frames, wire')
    BY <1>1, <1>5, BytesMove, ZenonT(30) DEF Reset
  <2> QED
    BY <1>1, <1>5, <2>1 DEF Reset, TcpType
<1>6. ASSUME reader' \in Receiving, reader'.bytes = <<>>, reader'.at # "payload",
             UNCHANGED <<frames, unwritten, writer>>, wire' \in {wire, <<>>},
             returned' \in Seq(Filled)
      PROVE  TcpType'
  <2>1. Len(<<>>) = 0 /\ 0 <= PrefixLen
    BY TcpAssumption
  <2>2. Bytes(frames', wire') /\ Bytes(frames', reader'.bytes) /\ Bytes(frames', unwritten')
    BY <1>1, <1>6
  <2> QED
    BY <1>6, <2>1, <2>2 DEF TcpType
<1>7. ASSUME NEW size \in Buffers, StartRecv(size) PROVE TcpType'
  <2>1. size \in Nat
    BY TcpAssumption
  <2>2. reader' \in Receiving /\ reader'.bytes = <<>> /\ reader'.at = "prefix"
    BY <1>7, <2>1, NoRecvIsTyped, ZenonT(30) DEF StartRecv
  <2> QED
    BY <1>6, <1>7, <2>2 DEF StartRecv, TcpType
<1>8. CASE ReadByte
  <2>1. wire # <<>> /\ UNCHANGED <<frames, unwritten, writer, returned>>
    BY <1>8 DEF ReadByte
  <2>2. /\ Bytes(frames, Tail(wire)) /\ Head(wire) \in Position /\ Valid(frames, Head(wire))
    BY <1>1, <2>1, BytesMove
  <2>3. /\ reader' \in Receiving /\ reader'.at = reader.at /\ reader'.len = reader.len
        /\ reader'.bytes = Append(reader.bytes, Head(wire))
    BY <1>8, <2>2, ReaderMoves, ZenonT(30) DEF ReadByte
  <2>4. Bytes(frames, reader'.bytes)
    BY <1>1, <2>2, <2>3, BytesMove, ZenonT(30)
  <2>5. PICK k \in Nat : k = Len(reader.bytes) /\ Len(reader'.bytes) = k + 1
    <3>1. reader.bytes \in Seq(Position)
      BY <1>1 DEF Bytes
    <3>2. Len(reader.bytes) \in Nat /\ Len(reader'.bytes) = Len(reader.bytes) + 1
      BY <2>2, <2>3, <3>1, AppendProperties, LenProperties
    <3> QED
      BY <3>2
  <2>6. PICK q \in Nat : q = PrefixLen
    BY TcpAssumption
  <2>7. /\ reader.at = "prefix" => k < q
        /\ reader.at = "payload" => q <= k
        /\ reader.at \in {"prefix", "payload"}
    BY <1>8, <2>5, <2>6 DEF ReadByte, Wanted, TcpType
  <2>8. /\ reader'.at = "prefix" => Len(reader'.bytes) <= PrefixLen
        /\ reader'.at = "payload" => PrefixLen <= Len(reader'.bytes)
    BY <2>3, <2>5, <2>6, <2>7
  <2>9. wire' = Tail(wire)
    BY <1>8 DEF ReadByte
  <2> QED
    BY <2>1, <2>2, <2>3, <2>4, <2>7, <2>8, <2>9 DEF TcpType
<1>9. CASE DecodePrefix
  <2>1. PICK len \in Decodes(reader.bytes) :
          reader' = IF TooLong(len) THEN NoRecv
                    ELSE [reader EXCEPT !.at = "payload", !.len = len]
    BY <1>9, ZenonT(30) DEF DecodePrefix
  <2>2. /\ Len(reader.bytes) = PrefixLen /\ reader.at = "prefix"
        /\ UNCHANGED <<frames, unwritten, wire, writer, returned>>
    BY <1>9 DEF DecodePrefix
  <2>3. len \in Nat
    BY <2>2, DecodesNat
  <2>4. CASE TooLong(len)
    <3>1. reader' \in Receiving /\ reader'.bytes = <<>> /\ reader'.at = "idle"
      BY <2>1, <2>4, NoRecvIsTyped, ZenonT(30)
    <3> QED
      BY <1>6, <2>2, <3>1 DEF TcpType
  <2>5. CASE ~TooLong(len)
    <3>1. reader' \in Receiving /\ reader'.bytes = reader.bytes /\ reader'.at = "payload"
      BY <2>1, <2>3, <2>5, ReaderMoves, ZenonT(30)
    <3>2. PrefixLen <= Len(reader'.bytes)
      BY <2>2, <3>1, TcpAssumption
    <3> QED
      BY <2>2, <3>1, <3>2 DEF TcpType
  <2> QED
    BY <2>4, <2>5
<1>10. CASE FillBuffer
  <2>1. /\ reader.at = "payload" /\ Len(reader.bytes) = PrefixLen + reader.len
        /\ reader' = NoRecv /\ UNCHANGED <<frames, unwritten, wire, writer>>
    BY <1>10 DEF FillBuffer, Wanted, Extent
  <2>2. PICK m : m = Min({reader.len, reader.size})
    OBVIOUS
  <2>3. PICK x : x = SubSeq(reader.bytes, PrefixLen + 1, PrefixLen + m)
    BY ZenonT(30)
  <2>4. x \in Seq(Position) /\ reader.size \in Nat
    BY <2>1, <2>2, <2>3, FilledIsTyped, ZenonT(30) DEF TcpType, Receiving
  <2>5. PICK z \in Filled : z = [size |-> reader.size, bytes |-> x]
    BY <2>4, ZenonT(30) DEF Filled
  <2>6. returned' = Append(returned, z)
    BY <1>10, <2>2, <2>3, <2>5 DEF FillBuffer
  <2>7. returned' \in Seq(Filled)
    BY <2>6, AppendProperties DEF TcpType
  <2> QED
    BY <1>6, <2>1, <2>7, NoRecvIsTyped, ZenonT(30)
<1>11. CASE EndOfStream
  BY <1>6, <1>11, NoRecvIsTyped, ZenonT(30) DEF EndOfStream, TcpType
<1>12. CASE CloseReader
  <2>1. reader' \in Receiving /\ reader'.bytes = <<>> /\ reader'.at = "closed"
    BY <1>12, NoRecvIsTyped, ZenonT(30) DEF CloseReader
  <2> QED
    BY <1>6, <1>12, <2>1 DEF CloseReader, TcpType
<1>13. CASE UNCHANGED tcpVars
  BY <1>13 DEF tcpVars, TcpType
<1> QED
  BY <1>2, <1>3, <1>4, <1>5, <1>7, <1>8, <1>9, <1>10, <1>11, <1>12, <1>13 DEF TcpNext

-----------------------------------------------------------------------------
(* One more frame changes nothing about the bytes that follow one another. *)
LEMMA FollowGrows ==
  ASSUME NEW fr \in Seq(Nat), NEW len \in Nat, NEW g, NEW s, NEW a, NEW b,
         g = Append(fr, len), Bytes(fr, s), Follow(fr, a, s), NextIs(fr, a, s, b)
  PROVE  Follow(g, a, s) /\ NextIs(g, a, s, b)
<1>1. PICK n \in Nat : n = Len(s) /\ (s # <<>> => n \in 1 .. n)
  BY EmptySeq DEF Bytes
<1>2. \A i \in 1 .. n : s[i] \in Position /\ Valid(fr, s[i])
  BY <1>1 DEF Bytes
<1>3. \A i \in 1 .. n : After(g, s[i]) = After(fr, s[i])
  BY <1>2, FramesGrow, ZenonT(30)
<1>4. \A i \in 1 .. n : i # 1 => i - 1 \in 1 .. n
  OBVIOUS
<1>5. Follow(g, a, s)
  BY <1>1, <1>3, <1>4, ZenonT(30) DEF Follow
<1>6. NextIs(g, a, s, b)
  BY <1>1, <1>3 DEF NextByte, NextIs
<1> QED
  BY <1>5, <1>6

(* The bytes of two sequences, one after the other. *)
LEMMA ConcatBytes ==
  ASSUME NEW s \in Seq(Position), NEW t \in Seq(Position), NEW r, r = s \o t,
         NEW a \in Nat, NEW b \in Nat, a = Len(s), b = Len(t)
  PROVE  /\ r \in Seq(Position) /\ Len(r) = a + b
         /\ \A i \in 1 .. a : r[i] = s[i]
         /\ \A i \in 1 .. b : r[a + i] = t[i]
OBVIOUS

(* write_all moves a byte from what is unwritten to the wire, and recv one *)
(* from the wire; a reset cuts what is unwritten and an end of the wire.   *)
LEMMA StreamMoves ==
  ASSUME NEW w \in Seq(Position), NEW u \in Seq(Position)
  PROVE  /\ u # <<>> => Append(w, Head(u)) \o Tail(u) = w \o u
         /\ w # <<>> => /\ w \o u # <<>> /\ Head(w) = (w \o u)[1]
                        /\ Tail(w) \o u = Tail(w \o u)
         /\ \A k \in 0 .. Len(w) : k \in 0 .. Len(w \o u) /\ SubSeq(w, 1, k) \o <<>> = SubSeq(w \o u, 1, k)
<1>1. PICK m \in Nat, n \in Nat :
        m = Len(w) /\ n = Len(u) /\ (w # <<>> => m # 0) /\ (u # <<>> => n # 0)
  BY EmptySeq
<1>2. PICK s : s = w \o u
  BY ZenonT(30)
<1>3. /\ s \in Seq(Position) /\ Len(s) = m + n
      /\ \A i \in 1 .. m : s[i] = w[i]
      /\ \A i \in 1 .. n : s[m + i] = u[i]
  BY <1>1, <1>2
<1>4. ASSUME u # <<>> PROVE Append(w, Head(u)) \o Tail(u) = s
  <2>1. PICK v, t : v = Append(w, Head(u)) /\ t = Tail(u)
    BY ZenonT(30)
  <2>2. /\ v \in Seq(Position) /\ Len(v) = m + 1 /\ v[m + 1] = u[1]
        /\ \A i \in 1 .. m : v[i] = w[i]
    BY <1>1, <1>4, <2>1
  <2>3. /\ t \in Seq(Position) /\ Len(t) = n - 1
        /\ \A i \in 1 .. (n - 1) : t[i] = u[i + 1]
    BY <1>1, <1>4, <2>1
  <2>4. PICK r : r = v \o t
    BY ZenonT(30)
  <2>5. /\ r \in Seq(Position) /\ Len(r) = m + n
        /\ \A i \in 1 .. (m + 1) : r[i] = v[i]
        /\ \A i \in 1 .. (n - 1) : r[(m + 1) + i] = t[i]
    <3>1. PICK a \in Nat, b \in Nat : a = m + 1 /\ b = n - 1
      BY <1>1, <1>4
    <3>4. /\ a = Len(v) /\ b = Len(t) /\ r = v \o t
          /\ v \in Seq(Position) /\ t \in Seq(Position)
      BY <2>2, <2>3, <2>4, <3>1
    <3>2. /\ r \in Seq(Position) /\ Len(r) = a + b
          /\ \A i \in 1 .. a : r[i] = v[i]
          /\ \A i \in 1 .. b : r[a + i] = t[i]
      BY <3>4, ConcatBytes
    <3>3. a + b = m + n
      BY <3>1
    <3> QED
      BY <3>1, <3>2, <3>3
  <2>6. ASSUME NEW i \in 1 .. (m + n) PROVE r[i] = s[i]
    <3>1. CASE i <= m
      BY <1>3, <2>2, <2>5, <3>1
    <3>2. CASE i = m + 1
      <4>1. 1 \in 1 .. n /\ i \in 1 .. (m + 1)
        BY <1>1, <1>4, <3>2
      <4> QED
        BY <1>3, <2>2, <2>5, <3>2, <4>1
    <3>3. CASE i > m + 1
      <4>1. PICK j \in 1 .. (n - 1) : i = (m + 1) + j
        <5>1. i - (m + 1) \in 1 .. (n - 1) /\ i = (m + 1) + (i - (m + 1))
          BY <1>1, <3>3
        <5> QED
          BY <5>1
      <4>2. j + 1 \in 1 .. n /\ i = m + (j + 1)
        BY <1>1, <4>1
      <4>3. r[(m + 1) + j] = t[j] /\ s[m + (j + 1)] = u[j + 1] /\ t[j] = u[j + 1]
        BY <1>3, <2>3, <2>5, <4>2, ZenonT(30)
      <4> QED
        BY <4>1, <4>2, <4>3
    <3> QED
      BY <3>1, <3>2, <3>3
  <2> QED
    BY <1>3, <2>1, <2>4, <2>5, <2>6, SeqEqual, ZenonT(30)
<1>5. ASSUME w # <<>>
      PROVE  s # <<>> /\ Head(w) = s[1] /\ Tail(w) \o u = Tail(s)
  <2>1. s # <<>> /\ 1 \in 1 .. m /\ Head(w) = w[1]
    BY <1>1, <1>3, <1>5
  <2>2. PICK v, t : v = Tail(w) /\ t = Tail(s)
    BY ZenonT(30)
  <2>3. v \in Seq(Position) /\ Len(v) = m - 1 /\ \A i \in 1 .. (m - 1) : v[i] = w[i + 1]
    BY <1>1, <1>5, <2>2
  <2>4. /\ t \in Seq(Position) /\ Len(t) = (m + n) - 1
        /\ \A i \in 1 .. ((m + n) - 1) : t[i] = s[i + 1]
    BY <1>3, <2>1, <2>2
  <2>5. PICK r : r = v \o u
    BY ZenonT(30)
  <2>6. /\ r \in Seq(Position) /\ Len(r) = (m + n) - 1
        /\ \A i \in 1 .. (m - 1) : r[i] = v[i]
        /\ \A i \in 1 .. n : r[(m - 1) + i] = u[i]
    <3>1. PICK a \in Nat : a = m - 1
      BY <1>1, <1>5
    <3>2. /\ r \in Seq(Position) /\ Len(r) = a + n
          /\ \A i \in 1 .. a : r[i] = v[i]
          /\ \A i \in 1 .. n : r[a + i] = u[i]
      <4>1. v \in Seq(Position) /\ a = Len(v) /\ n = Len(u)
        BY <1>1, <2>3, <3>1
      <4> QED
        BY <2>5, <4>1, ConcatBytes
    <3>3. a + n = (m + n) - 1
      BY <3>1
    <3> QED
      BY <3>1, <3>2, <3>3
  <2>7. ASSUME NEW i \in 1 .. ((m + n) - 1) PROVE r[i] = t[i]
    <3>1. CASE i <= m - 1
      BY <1>1, <1>3, <2>1, <2>3, <2>4, <2>6, <3>1
    <3>2. CASE i > m - 1
      <4>1. PICK j \in 1 .. n : i = (m - 1) + j
        <5>1. i - (m - 1) \in 1 .. n /\ i = (m - 1) + (i - (m - 1))
          BY <1>1, <3>2
        <5> QED
          BY <5>1
      <4>2. i + 1 = m + j
        BY <1>1, <4>1
      <4> QED
        BY <1>3, <2>4, <2>6, <4>1, <4>2, ZenonT(30)
    <3> QED
      BY <3>1, <3>2
  <2>8. r = t
    BY <2>4, <2>6, <2>7, SeqEqual
  <2> QED
    BY <1>3, <2>1, <2>2, <2>5, <2>8, ZenonT(30)
<1>6. ASSUME NEW k \in 0 .. m
      PROVE  k \in 0 .. Len(s) /\ SubSeq(w, 1, k) \o <<>> = SubSeq(s, 1, k)
  <2>1. k \in 0 .. (m + n)
    OBVIOUS
  <2>2. PICK x, y : x = SubSeq(w, 1, k) /\ y = SubSeq(s, 1, k)
    BY ZenonT(30)
  <2>3. x \in Seq(Position) /\ Len(x) = k /\ \A i \in 1 .. k : x[i] = w[i]
    BY <1>1, <2>2
  <2>4. y \in Seq(Position) /\ Len(y) = k /\ \A i \in 1 .. k : y[i] = s[i]
    BY <1>3, <2>1, <2>2
  <2>5. \A i \in 1 .. k : i \in 1 .. m
    OBVIOUS
  <2>6. x = y
    BY <1>3, <2>3, <2>4, <2>5, SeqEqual
  <2> QED
    BY <1>3, <2>1, <2>2, <2>3, <2>6, ConcatEmptySeq
<1> QED
  BY <1>1, <1>2, <1>4, <1>5, <1>6, ZenonT(30)

(* A frame that is sent goes to the end of what is to come. *)
LEMMA SendInStep ==
  ASSUME TcpType, NEW n \in Nat, Place(n), NEW len \in Payloads, StartFrame(len)
  PROVE  Place(n)'
<1>1. PICK g \in {frames'} : g = Append(frames, len)
  BY DEF StartFrame
<1>2. len \in Nat /\ frames \in Seq(Nat)
  BY TcpAssumption DEF TcpType
<1>3. /\ g \in Seq(Nat) /\ Len(g) = Len(frames) + 1 /\ g[Len(frames) + 1] = len
      /\ \A i \in 1 .. Len(frames) : g[i] = frames[i]
      /\ \A p \in Position : Valid(frames, p) => After(g, p) = After(frames, p)
      /\ \A s : Bytes(frames, s) => Bytes(g, s)
  BY <1>1, <1>2, FramesGrow, ZenonT(30)
<1>4. UNCHANGED <<wire, writer, reader, returned>> /\ unwritten = <<>> /\ writer = "open"
  BY DEF StartFrame
<1>5. PICK l \in Nat : l = Len(frames)
  BY <1>2
<1>6. CASE Refused(n)
  BY <1>1, <1>3, <1>5, <1>6 DEF Refused, Place
<1>7. CASE InStepAt(n, Len(reader.bytes)) /\ reader.at # "closed"
  <2>1. PICK k \in Nat : k = Len(reader.bytes)
    <3>1. reader.bytes \in Seq(Position)
      BY DEF TcpType, Bytes
    <3> QED
      BY <3>1, LenProperties
  <2>2. InStepAt(n, k)
    BY <1>7, <2>1
  <2>3. reader.at = "payload" => k # 0
    BY <2>1, TcpAssumption DEF TcpType
  <2>4. k # 0 => n + 1 \in 1 .. l /\ g[n + 1] = frames[n + 1] /\ frames[n + 1] \in Nat
    <3>1. k # 0 => n + 1 \in 1 .. l
      BY <1>5, <2>2 DEF InStepAt
    <3>2. \A i \in 1 .. l : g[i] = frames[i] /\ frames[i] \in Nat
      BY <1>2, <1>3, <1>5
    <3> QED
      BY <3>1, <3>2
  <2>5. Due(g, n, k) = Due(frames, n, k)
    <3>1. CASE k = 0
      BY <3>1 DEF Due
    <3>2. CASE k # 0
      <4>1. PICK p : p = <<n + 1, k>>
        BY ZenonT(30)
      <4>2. p \in Position /\ p[1] = n + 1 /\ p[2] = k
        BY <4>1 DEF Position
      <4>3. k <= PrefixLen + frames[n + 1]
        BY <2>2, <3>2 DEF InStepAt
      <4>4. k \in 1 .. (PrefixLen + frames[n + 1])
        BY <2>4, <3>2, <4>3, TcpAssumption
      <4>5. Valid(frames, p)
        BY <1>5, <2>4, <3>2, <4>2, <4>4 DEF Valid
      <4>6. After(g, p) = After(frames, p)
        BY <1>3, <4>2, <4>5
      <4> QED
        BY <3>2, <4>1, <4>6 DEF Due
    <3> QED
      BY <3>1, <3>2
  <2>6. PICK a : a = Due(frames, n, k)
    OBVIOUS
  <2>7. wire \o unwritten = wire /\ wire \in Seq(Position) /\ Bytes(frames, wire)
    BY <1>4, ConcatEmptySeq DEF TcpType, Bytes
  <2>8. Follow(frames, a, wire) /\ NextByte(frames, a, wire) = <<l + 1, 1>>
    BY <1>4, <1>5, <2>2, <2>6, <2>7 DEF InStepAt
  <2>9. Follow(g, a, wire) /\ NextByte(g, a, wire) = <<l + 1, 1>>
    <3>1. PICK b : b = <<l + 1, 1>>
      BY ZenonT(30)
    <3>2. NextIs(frames, a, wire, b)
      BY <2>8, <3>1 DEF NextIs
    <3>3. Follow(g, a, wire) /\ NextIs(g, a, wire, b)
      BY <1>1, <1>2, <2>7, <2>8, <3>2, FollowGrows, ZenonT(30)
    <3> QED
      BY <3>1, <3>3 DEF NextIs
  <2>10. PICK m \in 1 .. Len(g) : m = l + 1
    BY <1>3, <1>5
  <2>11. PICK w \in {unwritten'} : w = [i \in 1 .. (PrefixLen + g[m]) |-> <<m, i>>]
    BY <1>3, <1>5, <2>10 DEF StartFrame
  <2>12. Bytes(g, w) /\ Follow(g, <<m, 1>>, w) /\ NextByte(g, <<m, 1>>, w) = <<m + 1, 1>>
    BY <1>3, <2>11, FrameFollows, ZenonT(30)
  <2>13. w \in Seq(Position) /\ Follow(g, NextByte(g, a, wire), w)
    BY <2>9, <2>10, <2>12 DEF Bytes
  <2>14. /\ Follow(g, a, wire \o w)
         /\ NextByte(g, a, wire \o w) = <<m + 1, 1>>
    <3>1. /\ Follow(g, a, wire \o w)
          /\ NextByte(g, a, wire \o w) = NextByte(g, NextByte(g, a, wire), w)
      BY <2>7, <2>9, <2>13, FollowOn
    <3>2. NextByte(g, a, wire) = <<m, 1>>
      BY <2>9, <2>10
    <3> QED
      BY <2>12, <3>1, <3>2
  <2>15. m = Len(g)
    BY <1>3, <1>5, <2>10
  <2>16. /\ Follow(frames', Due(frames', n, k), wire' \o unwritten')
         /\ NextByte(frames', Due(frames', n, k), wire' \o unwritten') = <<Len(frames') + 1, 1>>
    BY <1>1, <1>4, <2>5, <2>6, <2>11, <2>14, <2>15, ZenonT(30)
  <2>17. /\ k # 0 => n + 1 \in 1 .. Len(frames') /\ k <= PrefixLen + frames'[n + 1]
         /\ reader'.at = "payload" => reader'.len = frames'[n + 1]
    <3>1. n + 1 \in 1 .. l => n + 1 \in 1 .. (l + 1)
      OBVIOUS
    <3> QED
      BY <1>1, <1>3, <1>4, <1>5, <2>2, <2>3, <2>4, <3>1, ZenonT(30) DEF InStepAt
  <2>18. InStepAt(n, k)'
    BY <1>4, <2>2, <2>16, <2>17, ZenonT(30) DEF InStepAt
  <2> QED
    BY <1>4, <2>1, <2>18 DEF Place
<1>8. CASE Ended
  BY <1>4, <1>8 DEF Ended
<1> QED
  BY <1>4, <1>6, <1>7, <1>8 DEF Place

(* The stream: what is to come stays what it is, or its end is lost. *)
LEMMA StreamInStep ==
  ASSUME TcpType, NEW n \in Nat, Place(n), WriteByte \/ CloseWriter \/ Reset
  PROVE  Place(n)'
<1>1. UNCHANGED <<frames, reader, returned>>
  BY DEF WriteByte, CloseWriter, Reset
<1>2. PICK k \in Nat : k = Len(reader.bytes) /\ k = Len(reader'.bytes)
  BY <1>1 DEF TcpType, Bytes
<1>3. wire \in Seq(Position) /\ unwritten \in Seq(Position)
  BY DEF TcpType, Bytes
<1>4. CASE reader.at = "closed"
  BY <1>1, <1>4 DEF Place
<1>5. CASE Refused(n)
  BY <1>1, <1>5 DEF Place, Refused
<1>6. CASE Ended
  <2>1. writer = "closed" /\ unwritten = <<>>
    BY <1>6 DEF Ended, TcpType
  <2> QED
    BY <2>1 DEF WriteByte, CloseWriter, Reset
<1>7. CASE InStepAt(n, k) /\ reader.at # "closed"
  <2>1. PICK a : a = Due(frames, n, k)
    OBVIOUS
  <2>2. CASE WriteByte
    <3>1. wire' \o unwritten' = wire \o unwritten /\ writer' = writer
      BY <1>3, <1>7, <2>2, StreamMoves, ZenonT(30) DEF WriteByte
    <3>2. InStepAt(n, k)'
      BY <1>1, <1>7, <3>1 DEF InStepAt
    <3> QED
      BY <1>2, <3>2 DEF Place
  <2>3. CASE CloseWriter
    <3>1. InStepAt(n, k)'
      BY <1>1, <1>7, <2>3, ZenonT(30) DEF InStepAt, CloseWriter
    <3> QED
      BY <1>2, <3>1 DEF Place
  <2>4. CASE Reset
    <3>1. PICK j \in 0 .. Len(wire) : wire' = SubSeq(wire, 1, j)
      BY <2>4 DEF Reset
    <3>2. unwritten' = <<>> /\ writer' = "closed"
      BY <2>4 DEF Reset
    <3>3. PICK s : s = wire \o unwritten
      BY ZenonT(30)
    <3>4. s \in Seq(Position) /\ j \in 0 .. Len(s) /\ wire' \o unwritten' = SubSeq(s, 1, j)
      BY <1>3, <3>1, <3>2, <3>3, StreamMoves, ConcatProperties
    <3>5. Follow(frames, a, s)
      BY <1>7, <2>1, <3>3 DEF InStepAt
    <3>6. Follow(frames, a, SubSeq(s, 1, j))
      BY <3>4, <3>5, FollowCut
    <3>7. Follow(frames', Due(frames', n, k), wire' \o unwritten')
      BY <1>1, <2>1, <3>4, <3>6
    <3>8. InStepAt(n, k)'
      BY <1>1, <1>7, <3>2, <3>7 DEF InStepAt
    <3> QED
      BY <1>2, <3>8 DEF Place
  <2> QED
    BY <2>2, <2>3, <2>4
<1> QED
  BY <1>2, <1>4, <1>5, <1>6, <1>7 DEF Place

(* recv takes the byte that is due. *)
LEMMA ReadInStep ==
  ASSUME TcpType, NEW n \in Nat, Place(n), ReadByte
  PROVE  Place(n)'
<1>1. /\ UNCHANGED <<frames, unwritten, writer, returned>> /\ wire # <<>>
      /\ wire' = Tail(wire) /\ reader.at \in {"prefix", "payload"}
  BY DEF ReadByte
<1>2. CASE Refused(n)
  BY <1>1, <1>2 DEF Place, Refused
<1>3. CASE InStepAt(n, Len(reader.bytes))
  <2>1. PICK k \in Nat : k = Len(reader.bytes)
    BY DEF TcpType, Bytes
  <2>2. InStepAt(n, k)
    BY <1>3, <2>1
  <2>3. PICK q \in Nat : q = PrefixLen /\ q # 0
    BY TcpAssumption
  <2>4. PICK h \in Position : h = Head(wire) /\ Valid(frames, h)
    BY <1>1, BytesMove, ZenonT(30) DEF TcpType
  <2>5. /\ reader'.at = reader.at /\ reader'.len = reader.len
        /\ reader'.bytes = Append(reader.bytes, h)
    BY <2>4, ReaderMoves, ZenonT(30) DEF ReadByte
  <2>6. reader.bytes \in Seq(Position)
    BY DEF TcpType, Bytes
  <2>7. /\ Len(reader'.bytes) = k + 1 /\ reader'.bytes[k + 1] = h
        /\ \A i \in 1 .. k : reader'.bytes[i] = reader.bytes[i]
    BY <2>1, <2>5, <2>6, AppendProperties
  <2>8. Due(frames, n, k) = <<n + 1, k + 1>>
    <3>1. CASE k = 0
      BY <3>1 DEF Due
    <3>2. CASE k # 0
      <4>1. PICK l \in Nat : l = frames[n + 1]
        <5>1. frames \in Seq(Nat) /\ n + 1 \in 1 .. Len(frames)
          BY <2>2, <3>2 DEF InStepAt, TcpType
        <5> QED
          BY <5>1, ElementOfSeq
      <4>2. k < q + l
        <5>1. CASE reader.at = "prefix"
          <6>1. k < q
            BY <2>1, <2>3, <5>1 DEF ReadByte, Wanted
          <6> QED
            BY <6>1
        <5>2. CASE reader.at = "payload"
          <6>1. reader.len = l
            BY <2>2, <4>1, <5>2 DEF InStepAt
          <6> QED
            BY <2>1, <2>3, <5>2, <6>1 DEF ReadByte, Wanted, Extent
        <5> QED
          BY <1>1, <5>1, <5>2
      <4> QED
        BY <2>3, <3>2, <4>1, <4>2 DEF Due, After
    <3> QED
      BY <3>1, <3>2
  <2>9. PICK s, a : s = wire \o unwritten /\ a = <<n + 1, k + 1>>
    BY ZenonT(30)
  <2>10. wire \in Seq(Position) /\ unwritten \in Seq(Position)
    BY DEF TcpType, Bytes
  <2>11. s \in Seq(Position) /\ s # <<>> /\ h = s[1] /\ wire' \o unwritten' = Tail(s)
    BY <1>1, <2>4, <2>9, <2>10, StreamMoves, ConcatProperties, ZenonT(30)
  <2>12. Follow(frames, a, s)
    BY <2>2, <2>8, <2>9 DEF InStepAt
  <2>13. /\ h = a
         /\ Follow(frames, After(frames, a), Tail(s))
         /\ NextByte(frames, After(frames, a), Tail(s)) = NextByte(frames, a, s)
    BY <2>11, <2>12, FollowTail
  <2>14. k + 1 # 0 /\ Due(frames, n, k + 1) = After(frames, a)
    BY <2>9 DEF Due
  <2>15. n + 1 \in 1 .. Len(frames) /\ k + 1 <= PrefixLen + frames[n + 1]
    <3>1. h[1] = n + 1 /\ h[2] = k + 1
      BY <2>9, <2>13
    <3> QED
      BY <2>4, <3>1 DEF Valid
  <2>16. Follow(frames', Due(frames', n, k + 1), wire' \o unwritten')
    BY <1>1, <2>11, <2>13, <2>14, ZenonT(30)
  <2>17. writer' = "open" =>
           NextByte(frames', Due(frames', n, k + 1), wire' \o unwritten') = <<Len(frames') + 1, 1>>
    <3>1. writer = "open" => NextByte(frames, a, s) = <<Len(frames) + 1, 1>>
      BY <2>2, <2>8, <2>9 DEF InStepAt
    <3> QED
      BY <1>1, <2>11, <2>13, <2>14, <3>1, ZenonT(30)
  <2>18. \A i \in 1 .. (k + 1) : reader'.bytes[i] = <<n + 1, i>>
    <3>1. \A i \in 1 .. (k + 1) : i \in 1 .. k \/ i = k + 1
      OBVIOUS
    <3> QED
      BY <2>2, <2>7, <2>9, <2>13, <3>1 DEF InStepAt
  <2>19. InStepAt(n, k + 1)'
    BY <1>1, <2>2, <2>5, <2>15, <2>16, <2>17, <2>18, ZenonT(30) DEF InStepAt
  <2> QED
    BY <2>7, <2>19 DEF Place
<1> QED
  BY <1>1, <1>2, <1>3, ZenonT(30) DEF Place, Ended

(* recv decodes the length of the frame that is due, and refuses it if it  *)
(* is too long.                                                            *)
LEMMA DecodeInStep ==
  ASSUME TcpType, NEW n \in Nat, Place(n), DecodePrefix
  PROVE  Place(n)'
<1>1. /\ UNCHANGED <<frames, unwritten, wire, writer, returned>>
      /\ reader.at = "prefix" /\ Len(reader.bytes) = PrefixLen
  BY DEF DecodePrefix
<1>2. reader.bytes # <<>>
  BY <1>1, EmptySeq, TcpAssumption
<1>3. CASE Refused(n)
  BY <1>1, <1>3 DEF Place, Refused
<1>4. CASE InStepAt(n, PrefixLen)
  <2>1. PICK q \in Nat : q = PrefixLen /\ q # 0
    BY TcpAssumption
  <2>2. PICK b \in Seq(Position) : b = reader.bytes /\ Len(b) = q
    BY <1>1, <2>1 DEF TcpType, Bytes
  <2>3. \A i \in 1 .. q : b[i] = <<n + 1, i>>
    BY <1>4, <2>1, <2>2 DEF InStepAt
  <2>4. b[1][1] = n + 1
    BY <2>1, <2>3
  <2>5. b = [i \in 1 .. q |-> <<n + 1, i>>]
    <3>1. b = [i \in 1 .. q |-> b[i]]
      BY <2>2
    <3> QED
      BY <2>3, <3>1
  <2>6. Decodes(b) = {frames[n + 1]}
    BY <2>1, <2>4, <2>5 DEF Decodes
  <2>7. n + 1 \in 1 .. Len(frames)
    BY <1>4, <2>1 DEF InStepAt
  <2>8. PICK len \in Nat : len = frames[n + 1]
    BY <2>7 DEF TcpType
  <2>9. reader' = IF TooLong(len) THEN NoRecv ELSE [reader EXCEPT !.at = "payload", !.len = len]
    BY <2>2, <2>6, <2>8, ZenonT(30) DEF DecodePrefix
  <2>10. CASE TooLong(len)
    BY <1>1, <2>7, <2>8, <2>10 DEF Place, Refused
  <2>11. CASE ~TooLong(len)
    <3>1. reader'.at = "payload" /\ reader'.len = len /\ reader'.bytes = reader.bytes
      BY <2>8, <2>9, <2>11, ReaderMoves, ZenonT(30)
    <3>2. InStepAt(n, PrefixLen)'
      BY <1>1, <1>4, <2>8, <3>1 DEF InStepAt
    <3> QED
      BY <1>1, <3>1, <3>2 DEF Place
  <2> QED
    BY <2>10, <2>11
<1> QED
  BY <1>1, <1>2, <1>3, <1>4, ZenonT(30) DEF Place, Ended

(* recv returns, and the next frame is due. *)
LEMMA FillInStep ==
  ASSUME TcpType, NEW n \in Nat, Place(n), ~Refused(n), FillBuffer
  PROVE  /\ Place(n + 1)'
         /\ InStepAt(n, PrefixLen + reader.len) /\ reader.len = frames[n + 1]
         /\ n + 1 \in 1 .. Len(frames)
<1>1. /\ UNCHANGED <<frames, unwritten, wire, writer>> /\ reader' = NoRecv
      /\ reader.at = "payload" /\ Len(reader.bytes) = PrefixLen + reader.len
  BY DEF FillBuffer, Wanted, Extent
<1>2. InStepAt(n, PrefixLen + reader.len)
  BY <1>1 DEF Place, Ended
<1>3. PICK l \in Nat, q \in Nat : l = reader.len /\ q = PrefixLen /\ q # 0
  BY TcpAssumption DEF TcpType, Receiving
<1>4. q + l # 0
  BY <1>3
<1>5. l = frames[n + 1] /\ n + 1 \in 1 .. Len(frames)
  BY <1>1, <1>2, <1>3, <1>4 DEF InStepAt
<1>6. Due(frames, n, q + l) = <<(n + 1) + 1, 1>>
  BY <1>3, <1>4, <1>5 DEF Due, After
<1>7. Due(frames, n + 1, 0) = <<(n + 1) + 1, 1>>
  BY DEF Due
<1>8. /\ Follow(frames, Due(frames, n + 1, 0), wire \o unwritten)
      /\ writer = "open" =>
           NextByte(frames, Due(frames, n + 1, 0), wire \o unwritten) = <<Len(frames) + 1, 1>>
  BY <1>2, <1>3, <1>6, <1>7 DEF InStepAt
<1>9. reader'.bytes = <<>> /\ reader'.at = "idle" /\ Len(reader'.bytes) = 0
  BY <1>1, NoRecvIsTyped, ZenonT(30)
<1>10. InStepAt(n + 1, 0)'
  <2>1. \A i \in 1 .. 0 : FALSE
    OBVIOUS
  <2>2. reader'.at # "payload"
    BY <1>9
  <2> QED
    BY <1>1, <1>8, <2>1, <2>2 DEF InStepAt
<1> QED
  BY <1>2, <1>3, <1>5, <1>9, <1>10 DEF Place

(* Every step keeps recv in its place. *)
LEMMA PlaceStep ==
  ASSUME TcpType, StepInv, [TcpNext]_tcpVars
  PROVE  StepInv'
<1>1. PICK n \in Nat : n = Len(returned)
  BY DEF TcpType
<1>2. ASSUME returned' = returned, Clean(frames', n) => Clean(frames, n), Place(n) => Place(n)'
      PROVE  StepInv'
  BY <1>1, <1>2 DEF StepInv
<1>3. ASSUME NEW len \in Payloads, StartFrame(len) PROVE StepInv'
  <2>1. Place(n) => Place(n)'
    BY <1>3, SendInStep
  <2>2. PICK g \in {frames'} : g = Append(frames, len)
    BY <1>3 DEF StartFrame
  <2>3. len \in Nat /\ frames \in Seq(Nat)
    BY TcpAssumption DEF TcpType
  <2>4. /\ DOMAIN frames = 1 .. Len(frames) /\ DOMAIN g = 1 .. (Len(frames) + 1)
        /\ \A i \in 1 .. Len(frames) : g[i] = frames[i] /\ i \in 1 .. (Len(frames) + 1)
    BY <2>2, <2>3
  <2>5. Clean(g, n) => Clean(frames, n)
    BY <2>4 DEF Clean
  <2>6. returned' = returned
    BY <1>3 DEF StartFrame
  <2> QED
    BY <1>2, <2>1, <2>2, <2>5, <2>6, ZenonT(30)
<1>4. CASE WriteByte \/ CloseWriter \/ Reset
  <2>1. Place(n) => Place(n)'
    BY <1>4, StreamInStep
  <2> QED
    BY <1>2, <1>4, <2>1 DEF WriteByte, CloseWriter, Reset
<1>5. ASSUME NEW size \in Buffers, StartRecv(size) PROVE StepInv'
  <2>1. reader'.at = "prefix" /\ reader'.bytes = <<>>
    BY <1>5, NoRecvIsTyped, TcpAssumption, ZenonT(30) DEF StartRecv
  <2>2. reader.at = "idle" /\ reader.bytes = <<>> /\ UNCHANGED <<frames, unwritten, wire, writer, returned>>
    BY <1>5 DEF StartRecv, TcpType
  <2>3. Place(n) => Place(n)'
    BY <2>1, <2>2, ZenonT(30) DEF Place, Ended, Refused, InStepAt
  <2> QED
    BY <1>2, <2>2, <2>3
<1>6. CASE ReadByte
  <2>1. Place(n) => Place(n)'
    BY <1>6, ReadInStep
  <2> QED
    BY <1>2, <1>6, <2>1 DEF ReadByte
<1>7. CASE DecodePrefix
  <2>1. Place(n) => Place(n)'
    BY <1>7, DecodeInStep
  <2> QED
    BY <1>2, <1>7, <2>1 DEF DecodePrefix
<1>8. CASE FillBuffer
  <2>1. frames' = frames /\ Len(returned') = n + 1
    <3>1. PICK x : frames' = frames /\ returned' = Append(returned, x)
      BY <1>8, ZenonT(30) DEF FillBuffer
    <3>2. returned \in Seq(Filled)
      BY DEF TcpType
    <3> QED
      BY <1>1, <3>1, <3>2
  <2>2. SUFFICES ASSUME Clean(frames, n + 1) PROVE Place(n + 1)'
    BY <2>1 DEF StepInv
  <2>3. frames \in Seq(Nat) /\ DOMAIN frames = 1 .. Len(frames)
    BY DEF TcpType
  <2>4. Clean(frames, n)
    BY <2>2, <2>3 DEF Clean
  <2>5. ~Refused(n)
    BY <2>2, <2>3 DEF Clean, Refused
  <2> QED
    BY <1>1, <1>8, <2>4, <2>5, FillInStep DEF StepInv
<1>9. CASE EndOfStream
  <2>1. reader'.at = "idle" /\ reader'.bytes = <<>> /\ wire' = <<>> /\ writer' = "closed"
    BY <1>9, NoRecvIsTyped, ZenonT(30) DEF EndOfStream
  <2>2. Place(n)' /\ UNCHANGED <<frames, returned>>
    BY <1>9, <2>1 DEF Place, Ended, EndOfStream
  <2> QED
    BY <1>2, <2>2
<1>10. CASE CloseReader
  <2>1. reader'.at = "closed" /\ UNCHANGED <<frames, returned>>
    BY <1>10, NoRecvIsTyped, ZenonT(30) DEF CloseReader
  <2>2. Place(n)'
    BY <2>1 DEF Place
  <2> QED
    BY <1>2, <2>1, <2>2
<1>11. CASE UNCHANGED tcpVars
  BY <1>11, ZenonT(30) DEF tcpVars, StepInv, Clean, Place, Ended, Refused, InStepAt
<1> QED
  BY <1>3, <1>4, <1>5, <1>6, <1>7, <1>8, <1>9, <1>10, <1>11 DEF TcpNext

(* What recv fills its buffer with is what send was given, and it stays.   *)
LEMMA ReturnedStep ==
  ASSUME TcpType, StepInv, InStepUntilRefusal, [TcpNext]_tcpVars
  PROVE  InStepUntilRefusal'
<1>1. frames \in Seq(Nat) /\ DOMAIN frames = 1 .. Len(frames)
  BY DEF TcpType
<1>2. ASSUME UNCHANGED <<frames, returned>> PROVE InStepUntilRefusal'
  BY <1>2, ZenonT(30) DEF InStepUntilRefusal, Payload
<1>3. ASSUME NEW len \in Payloads, StartFrame(len) PROVE InStepUntilRefusal'
  <2>1. returned' = returned
    BY <1>3 DEF StartFrame
  <2>2. PICK g \in {frames'} : g = Append(frames, len)
    BY <1>3 DEF StartFrame
  <2>3. len \in Nat
    BY TcpAssumption
  <2>4. PICK l \in Nat : l = Len(frames)
    BY <1>1, LenProperties, ZenonT(30)
  <2>5. /\ DOMAIN g = 1 .. (l + 1) /\ Len(g) = l + 1
        /\ \A i \in 1 .. l : g[i] = frames[i] /\ i \in 1 .. (l + 1)
    BY <1>1, <2>2, <2>3, <2>4
  <2>6. SUFFICES ASSUME NEW n \in DOMAIN returned,
                        \A f \in DOMAIN g : f <= n => ~TooLong(g[f])
                 PROVE  /\ n <= Len(g)
                        /\ returned[n].bytes
                             = SubSeq([i \in 1 .. g[n] |-> <<n, PrefixLen + i>>], 1,
                                      Min({g[n], returned[n].size}))
    BY <2>1, <2>2, ZenonT(30) DEF InStepUntilRefusal, Payload
  <2>7. \A f \in DOMAIN frames : f <= n => ~TooLong(frames[f])
    BY <1>1, <2>4, <2>5, <2>6
  <2>8. /\ n <= l
        /\ returned[n].bytes
             = SubSeq([i \in 1 .. frames[n] |-> <<n, PrefixLen + i>>], 1,
                      Min({frames[n], returned[n].size}))
    BY <2>4, <2>7, ZenonT(30) DEF InStepUntilRefusal, Payload
  <2>9. n \in 1 .. l
    BY <2>8 DEF TcpType
  <2>10. g[n] = frames[n] /\ n <= l + 1
    BY <2>5, <2>8, <2>9
  <2> QED
    BY <2>5, <2>8, <2>10
<1>4. CASE FillBuffer
  <2>1. PICK n \in Nat : n = Len(returned) /\ returned \in Seq(Filled)
    BY DEF TcpType
  <2>2. PICK l \in Nat, z \in Nat, q \in Nat : l = reader.len /\ z = reader.size /\ q = PrefixLen
    BY TcpAssumption DEF TcpType, Receiving
  <2>3. PICK m : m = Min({l, z})
    OBVIOUS
  <2>4. PICK x : x = SubSeq(reader.bytes, q + 1, q + m)
    BY ZenonT(30)
  <2>5. reader.at = "payload" /\ Len(reader.bytes) = q + l /\ frames' = frames
    BY <1>4, <2>2 DEF FillBuffer, Wanted, Extent
  <2>6. /\ m \in Nat /\ m <= l /\ x \in Seq(Position) /\ Len(x) = m
        /\ \A i \in 1 .. m : x[i] = reader.bytes[q + i]
    BY <2>2, <2>3, <2>4, <2>5, FilledIsTyped, ZenonT(30)
  <2>7. PICK r \in Filled : r = [size |-> z, bytes |-> x]
    BY <2>6, ZenonT(30) DEF Filled
  <2>8. returned' = Append(returned, r)
    BY <1>4, <2>2, <2>3, <2>4, <2>7 DEF FillBuffer
  <2>9. /\ DOMAIN returned' = 1 .. (n + 1) /\ DOMAIN returned = 1 .. n
        /\ returned'[n + 1] = r /\ \A i \in 1 .. n : returned'[i] = returned[i]
    BY <2>1, <2>8
  <2>10. ASSUME NEW k \in 1 .. (n + 1), \A f \in DOMAIN frames : f <= k => ~TooLong(frames[f])
         PROVE  /\ k <= Len(frames)
                /\ returned'[k].bytes = SubSeq(Payload(k), 1, Min({frames[k], returned'[k].size}))
    <3>1. CASE k \in 1 .. n
      BY <2>9, <2>10, <3>1, ZenonT(30) DEF InStepUntilRefusal
    <3>2. CASE k = n + 1
      <4>1. Clean(frames, n)
        BY <1>1, <2>10, <3>2 DEF Clean
      <4>2. Place(n)
        BY <2>1, <4>1 DEF StepInv
      <4>3. ~Refused(n)
        BY <1>1, <2>10, <3>2 DEF Refused
      <4>4. InStepAt(n, q + l) /\ l = frames[k] /\ k \in 1 .. Len(frames)
        BY <1>4, <2>2, <3>2, <4>2, <4>3, FillInStep
      <4>5. \A i \in 1 .. m : x[i] = <<k, q + i>>
        <5>1. \A i \in 1 .. m : q + i \in 1 .. (q + l)
          BY <2>6
        <5> QED
          BY <2>6, <3>2, <4>4, <5>1, ZenonT(30) DEF InStepAt
      <4>6. PICK y : y = [i \in 1 .. l |-> <<k, q + i>>]
        BY ZenonT(30)
      <4>7. y \in Seq(Position) /\ Len(y) = l /\ \A i \in 1 .. l : y[i] = <<k, q + i>>
        <5>1. \A i \in 1 .. l : <<k, q + i>> \in Position
          BY DEF Position
        <5>2. /\ y \in [1 .. l -> Position] /\ DOMAIN y = 1 .. l
              /\ \A i \in 1 .. l : y[i] = <<k, q + i>>
          BY <4>6, <5>1, Zenon
        <5>3. y \in UNION {[1 .. a -> Position] : a \in Nat}
          BY <5>2, Zenon
        <5>4. y \in Seq(Position)
          BY <5>3, SeqDef, Zenon
        <5>5. PICK a \in Nat : a = Len(y) /\ DOMAIN y = 1 .. a
          BY <5>4, LenProperties
        <5>6. 1 .. a = 1 .. l
          BY <5>2, <5>5
        <5>7. a = l
          BY <5>6
        <5> QED
          BY <5>2, <5>4, <5>5, <5>7
      <4>8. PICK w : w = SubSeq(y, 1, m)
        BY ZenonT(30)
      <4>9. w \in Seq(Position) /\ Len(w) = m /\ \A i \in 1 .. m : w[i] = <<k, q + i>>
        BY <2>6, <4>7, <4>8
      <4>10. x = w
        BY <2>6, <4>5, <4>9, SeqEqual, ZenonT(30)
      <4>11. Payload(k) = y /\ returned'[k].size = z /\ returned'[k].bytes = x
        BY <2>2, <2>7, <2>9, <3>2, <4>4, <4>6 DEF Payload
      <4>12. k <= Len(frames)
        BY <1>1, <4>4, LenProperties
      <4>13. Min({frames[k], returned'[k].size}) = m
        BY <2>3, <4>4, <4>11, Zenon
      <4>14. returned'[k].bytes = SubSeq(Payload(k), 1, Min({frames[k], returned'[k].size}))
        BY <4>8, <4>10, <4>11, <4>13, Zenon
      <4> QED
        BY <4>12, <4>14, Zenon
    <3>3. k \in 1 .. n \/ k = n + 1
      OBVIOUS
    <3> QED
      BY <3>1, <3>2, <3>3, Zenon
  <2> QED
    BY <2>5, <2>9, <2>10, ZenonT(30) DEF InStepUntilRefusal, Payload
<1>5. CASE WriteByte \/ CloseWriter \/ Reset
  BY <1>2, <1>5 DEF WriteByte, CloseWriter, Reset
<1>6. ASSUME NEW size \in Buffers, StartRecv(size) PROVE InStepUntilRefusal'
  BY <1>2, <1>6 DEF StartRecv
<1>7. CASE ReadByte \/ DecodePrefix \/ EndOfStream \/ CloseReader
  BY <1>2, <1>7, ZenonT(30) DEF ReadByte, DecodePrefix, EndOfStream, CloseReader
<1>8. CASE UNCHANGED tcpVars
  BY <1>2, <1>8 DEF tcpVars
<1> QED
  BY <1>3, <1>4, <1>5, <1>6, <1>7, <1>8 DEF TcpNext

(* Before anything is sent. *)
LEMMA TcpStart ==
  ASSUME TcpInit
  PROVE  TcpInv
<1>1. <<>> \in Seq(Nat) /\ <<>> \in Seq(Position) /\ <<>> \in Seq(Filled)
  BY EmptySeq
<1>2. Len(<<>>) = 0 /\ 1 .. 0 = {} /\ DOMAIN <<>> = {}
  OBVIOUS
<1>3. Bytes(frames, <<>>)
  BY <1>1, <1>2 DEF Bytes
<1>4. TcpType
  BY <1>1, <1>3, NoRecvIsTyped, ZenonT(30) DEF TcpInit, TcpType
<1>5. <<>> \o <<>> = <<>>
  BY <1>1, ConcatEmptySeq
<1>6. InStepAt(0, 0)
  BY <1>2, <1>5, NoRecvIsTyped, ZenonT(30) DEF TcpInit, InStepAt, Follow, NextByte, Due
<1>7. StepInv
  BY <1>2, <1>6, NoRecvIsTyped, ZenonT(30) DEF TcpInit, StepInv, Place
<1>8. InStepUntilRefusal
  BY <1>2 DEF TcpInit, InStepUntilRefusal
<1> QED
  BY <1>4, <1>7, <1>8 DEF TcpInv

(* confium-net-tcp: whatever the lengths of the payloads and the sizes of  *)
(* the buffers, however the bytes arrive and wherever the stream ends, the *)
(* n-th buffer that recv fills holds the n-th payload, cut to its size,    *)
(* until a frame above MAX_FRAME_LEN was sent.                             *)
THEOREM FramingSafety == TcpSpec => []InStepUntilRefusal
<1>1. TcpInit => TcpInv
  BY TcpStart
<1>2. TcpInv /\ [TcpNext]_tcpVars => TcpInv'
  BY TcpTypeStep, PlaceStep, ReturnedStep DEF TcpInv
<1>3. TcpInv => InStepUntilRefusal
  BY DEF TcpInv
<1> QED
  BY <1>1, <1>2, <1>3, PTL DEF TcpSpec
================================================================================
