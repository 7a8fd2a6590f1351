------------------------------ MODULE DirectMQ ------------------------------
(***************************************************************************)
(* The DirectMQ transport: DirectMQClients, which connect, disconnect and  *)
(* are moved from one owner to another, and DirectMQProtocol's frames,     *)
(* which a receiver parses from what has arrived so far.  The receiver and *)
(* the wire are external: the wire delivers byte by byte, and a peer may   *)
(* send what is no frame at all.                                           *)
(*                                                                         *)
(* A byte has Base values, a length Width bytes.  The client is the code's *)
(* as it stands: it does no I/O, so connecting never fails.                *)
(***************************************************************************)
EXTENDS Integers, Sequences, SequencesExt, FiniteSets

CONSTANTS
  Clients,        \* client objects
  Base, Width,    \* 256 and 4 in the code
  MaxPayload,     \* kMaxPayloadSize: Width + MaxPayload is below the modulus
  MaxConnects,    \* bound: connections made
  MaxMessages     \* bound: messages sent

VARIABLES
  connection,     \* connection[c]: the connection of client c, 0 for none
  connects,       \* connections made so far
  live,           \* connections not closed
  onWire,         \* bytes on the way
  arrived,        \* the receiver's buffer
  unreceived,     \* payloads sent and not received
  messages,       \* messages sent so far
  noise           \* whether the peer has sent what is no frame

mqVars == <<connection, connects, live, onWire, arrived, unreceived, messages, noise>>

Bytes == 0..(Base - 1)

(* The values that n bytes have. *)
Values[n \in 0..Width] == IF n = 0 THEN 1 ELSE Values[n - 1] * Base
Modulus == Values[Width]

Init ==
  /\ connection = [c \in Clients |-> 0]
  /\ connects = 0 /\ live = {}
  /\ onWire = <<>> /\ arrived = <<>> /\ unreceived = <<>>
  /\ messages = 0 /\ noise = FALSE

(***************************************************************************)
(* DirectMQClient.                                                         *)
(***************************************************************************)

(* connect does nothing for a client that is connected. *)
Connect(c) ==
  /\ connection[c] = 0 /\ connects < MaxConnects
  /\ connects' = connects + 1
  /\ live' = live \cup {connects'}
  /\ connection' = [connection EXCEPT ![c] = connects']
  /\ UNCHANGED <<onWire, arrived, unreceived, messages, noise>>

(* disconnect and the destructor. *)
Disconnect(c) ==
  /\ live' = live \ {connection[c]}
  /\ connection' = [connection EXCEPT ![c] = 0]
  /\ UNCHANGED <<connects, onWire, arrived, unreceived, messages, noise>>

(* Mutated: the connection of the target is overwritten. *)
MoveOver(c, d) ==
  /\ c # d
  /\ connection' = [connection EXCEPT ![c] = connection[d], ![d] = 0]
  /\ UNCHANGED <<connects, live, onWire, arrived, unreceived, messages, noise>>

(* c = std::move(d), and the construction of c by it. *)
Move(c, d) ==
  /\ c # d
  /\ live' = live \ {connection[c]}
  /\ connection' = [connection EXCEPT ![c] = connection[d], ![d] = 0]
  /\ UNCHANGED <<connects, onWire, arrived, unreceived, messages, noise>>

(***************************************************************************)
(* DirectMQProtocol.                                                       *)
(***************************************************************************)

BigEndian(value) ==
  LET shifted[n \in 0..Width] == IF n = 0 THEN value ELSE shifted[n - 1] \div Base
  IN  [i \in 1..Width |-> shifted[Width - i] % Base]

ReadBE(buf) ==
  LET read[n \in 0..Width] == IF n = 0 THEN 0 ELSE read[n - 1] * Base + buf[n]
  IN  read[Width]

FrameMessage(payload) == BigEndian(Len(payload)) \o payload

(* Mutated: any length is taken. *)
AnyLength(length) == length < Modulus

Acceptable(length) == length <= MaxPayload

(* Whether parseFrame finds a frame; 4 + length has the width of length. *)
Parses(buf) ==
  /\ Len(buf) >= Width
  /\ Acceptable(ReadBE(buf))
  /\ Len(buf) >= (Width + ReadBE(buf)) % Modulus

Payload(buf) == SubSeq(buf, Width + 1, Width + ReadBE(buf))

Payloads == UNION {[1..n -> Bytes] : n \in 0..MaxPayload}

(* sendMessage; frameMessage refuses a longer payload.  The code builds    *)
(* the frame and leaves SSL_write to a later version: that the frame gets  *)
(* on the wire is external.                                                *)
SendMessage(c, payload) ==
  /\ connection[c] # 0
  /\ messages < MaxMessages /\ messages' = messages + 1
  /\ onWire' = onWire \o FrameMessage(payload)
  /\ unreceived' = Append(unreceived, payload)
  /\ UNCHANGED <<connection, connects, live, arrived, noise>>

Arrive ==
  /\ onWire # <<>>
  /\ arrived' = Append(arrived, Head(onWire))
  /\ onWire' = Tail(onWire)
  /\ UNCHANGED <<connection, connects, live, unreceived, messages, noise>>

Noise(bytes) ==
  /\ unreceived = <<>> /\ ~noise /\ noise' = TRUE
  /\ arrived' = bytes
  /\ UNCHANGED <<connection, connects, live, onWire, unreceived, messages>>

(* The receiver takes the frame out of its buffer. *)
Receive ==
  /\ Parses(arrived) /\ ~noise
  /\ arrived' = SubSeq(arrived, Width + Len(Payload(arrived)) + 1, Len(arrived))
  /\ unreceived' = Tail(unreceived)
  /\ UNCHANGED <<connection, connects, live, onWire, messages, noise>>

Next ==
  \/ \E c \in Clients :
       \/ Connect(c) \/ Disconnect(c)
       \/ \E d \in Clients : Move(c, d)
       \/ \E payload \in Payloads : SendMessage(c, payload)
  \/ Arrive
  \/ Receive
  \/ \E bytes \in [1..(Width + MaxPayload) -> Bytes] : Noise(bytes)

Spec == Init /\ [][Next]_mqVars

-----------------------------------------------------------------------------
(* However clients are moved around, a connection that is not closed has   *)
(* exactly one owner, and a client that has a connection can use it.       *)
OneOwner ==
  /\ live = {connection[c] : c \in Clients} \ {0}
  /\ \A c, d \in Clients : connection[c] = connection[d] /\ c # d => connection[c] = 0

(* A frame is found when all of it has arrived and not earlier, and it has *)
(* the payload that was sent; and what the parser takes for a frame, in    *)
(* whatever bytes, lies within the buffer.                                 *)
FramesArriveWhole ==
  /\ Parses(arrived) => Len(arrived) >= Width + ReadBE(arrived)
  /\ ~noise =>
       (Parses(arrived) <=>
         /\ unreceived # <<>>
         /\ IsPrefix(FrameMessage(Head(unreceived)), arrived))
  /\ ~noise /\ Parses(arrived) => Payload(arrived) = Head(unreceived)

(* The transport as a whole, its connections (DirectMQClient's moves and   *)
(* its destructor) and its frames (parseFrame).                            *)
TransportIsSound == OneOwner /\ FramesArriveWhole
=============================================================================
