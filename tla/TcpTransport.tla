------------------------------- MODULE TcpTransport -------------------------------
(***************************************************************************)
(* One direction of a TCP transport (confium-net-tcp, transport.rs): the   *)
(* frames that send writes, the bytes on the wire, and the recv that takes *)
(* a frame out of them byte by byte.  The writer may close or die at any   *)
(* moment.  A byte of the wire has the number of its frame and its place   *)
(* in it, the length prefix first.                                         *)
(***************************************************************************)
EXTENDS Naturals, Sequences, FiniteSetsExt

CONSTANTS
  PrefixLen,      \* bytes of the length prefix (4 in the code)
  MAX_FRAME_LEN,
  Payloads,       \* the lengths that send is called with
  Buffers,        \* the sizes of the buffers that recv is called with
  MaxFrames       \* bound: frames sent

ASSUME TcpAssumption ==
  /\ PrefixLen \in Nat \ {0} /\ MAX_FRAME_LEN \in Nat /\ MaxFrames \in Nat
  /\ Payloads \subseteq Nat /\ Buffers \subseteq Nat

VARIABLES
  frames,     \* the lengths of the payloads sent, in order
  unwritten,  \* the bytes of the last frame that write_all has yet to write
  wire,       \* the bytes written and not yet read
  writer,     \* "open" or "closed"
  reader,     \* recv: what it is doing, the size of its buffer, what it has read
  returned    \* the buffers that recv filled: size and bytes

tcpVars == <<frames, unwritten, wire, writer, reader, returned>>

NoRecv == [at |-> "idle", size |-> 0, len |-> 0, bytes |-> <<>>]

TcpInit ==
  /\ frames = <<>>
  /\ unwritten = <<>>
  /\ wire = <<>>
  /\ writer = "open"
  /\ reader = NoRecv
  /\ returned = <<>>

-----------------------------------------------------------------------------
(* Nothing here compares the length with MAX_FRAME_LEN. *)
StartFrame(len) ==
  /\ writer = "open"
  /\ unwritten = <<>>
  /\ Len(frames) < MaxFrames
  /\ frames' = Append(frames, len)
  /\ unwritten' = [i \in 1 .. PrefixLen + len |-> <<Len(frames) + 1, i>>]
  /\ UNCHANGED <<wire, writer, reader, returned>>

(* write_all puts the next byte on the wire, or fails when the peer has    *)
(* closed the stream.                                                      *)
WriteByte ==
  /\ unwritten # <<>>
  /\ IF reader.at = "closed"
     THEN unwritten' = <<>> /\ UNCHANGED wire
     ELSE wire' = Append(wire, Head(unwritten)) /\ unwritten' = Tail(unwritten)
  /\ UNCHANGED <<frames, writer, reader, returned>>

CloseWriter ==
  /\ writer = "open"
  /\ unwritten = <<>>
  /\ writer' = "closed"
  /\ UNCHANGED <<frames, unwritten, wire, reader, returned>>

(* The writer's process dies, or the connection is reset: the end of what  *)
(* was written may be lost with it.                                        *)
Reset ==
  /\ writer = "open"
  /\ writer' = "closed"
  /\ unwritten' = <<>>
  /\ \E n \in 0 .. Len(wire) : wire' = SubSeq(wire, 1, n)
  /\ UNCHANGED <<frames, reader, returned>>

StartRecv(size) ==
  /\ reader.at = "idle"
  /\ reader' = [NoRecv EXCEPT !.at = "prefix", !.size = size]
  /\ UNCHANGED <<frames, unwritten, wire, writer, returned>>

(* Mutant of Extent: what does not fit in the buffer is left on the wire. *)
ExtentBuffer(len, size) == Min({len, size})

(* The bytes of a payload that read_frame reads or drains. *)
Extent(len, size) == len

Wanted ==
  IF reader.at = "prefix"
  THEN PrefixLen
  ELSE PrefixLen + Extent(reader.len, reader.size)

ReadByte ==
  /\ reader.at \in {"prefix", "payload"}
  /\ Len(reader.bytes) < Wanted
  /\ wire # <<>>
  /\ wire' = Tail(wire)
  /\ reader' = [reader EXCEPT !.bytes = Append(@, Head(wire))]
  /\ UNCHANGED <<frames, unwritten, writer, returned>>

(* The length that a prefix gives: its frame's, or any at all when the     *)
(* bytes are not the prefix of a frame.                                    *)
Decodes(prefix) ==
  LET f == prefix[1][1]
  IN IF prefix = [i \in 1 .. PrefixLen |-> <<f, i>>]
     THEN {frames[f]}
     ELSE 0 .. MAX_FRAME_LEN + 1

TooLong(len) == len > MAX_FRAME_LEN

(* A frame that is too long makes recv fail, with the payload unread. *)
DecodePrefix ==
  /\ reader.at = "prefix"
  /\ Len(reader.bytes) = PrefixLen
  /\ \E len \in Decodes(reader.bytes) :
       reader' = IF TooLong(len)
                 THEN NoRecv
                 ELSE [reader EXCEPT !.at = "payload", !.len = len]
  /\ UNCHANGED <<frames, unwritten, wire, writer, returned>>

FillBuffer ==
  /\ reader.at = "payload"
  /\ Len(reader.bytes) = Wanted
  /\ returned' = Append(returned,
       [size |-> reader.size,
        bytes |-> SubSeq(reader.bytes, PrefixLen + 1,
                         PrefixLen + Min({reader.len, reader.size}))])
  /\ reader' = NoRecv
  /\ UNCHANGED <<frames, unwritten, wire, writer>>

(* The end of the stream, between two frames or inside one: recv fails. *)
EndOfStream ==
  /\ reader.at \in {"prefix", "payload"}
  /\ Len(reader.bytes) < Wanted
  /\ wire = <<>>
  /\ writer = "closed"
  /\ reader' = NoRecv
  /\ UNCHANGED <<frames, unwritten, wire, writer, returned>>

CloseReader ==
  /\ reader.at = "idle"
  /\ reader' = [NoRecv EXCEPT !.at = "closed"]
  /\ wire' = <<>>
  /\ UNCHANGED <<frames, unwritten, writer, returned>>

TcpNext ==
  \/ \E len \in Payloads : StartFrame(len)
  \/ WriteByte \/ CloseWriter \/ Reset
  \/ \E size \in Buffers : StartRecv(size)
  \/ ReadByte \/ DecodePrefix \/ FillBuffer \/ EndOfStream \/ CloseReader

TcpSpec == TcpInit /\ [][TcpNext]_tcpVars

-----------------------------------------------------------------------------
Payload(f) == [i \in 1 .. frames[f] |-> <<f, PrefixLen + i>>]

(* One recv returns one send: the n-th buffer that recv fills holds the    *)
(* n-th payload, as far as the buffer is large enough, wherever the stream *)
(* ended.  Only a frame above the limit, which the writer does not refuse  *)
(* and the reader gives up on with its payload unread, can put the two out *)
(* of step, and then only for what comes after it.                         *)
InStepUntilRefusal ==
  \A n \in DOMAIN returned :
    (\A f \in DOMAIN frames : f <= n => ~ TooLong(frames[f])) =>
      /\ n <= Len(frames)
      /\ returned[n].bytes
           = SubSeq(Payload(n), 1, Min({frames[n], returned[n].size}))
====================================================================================
