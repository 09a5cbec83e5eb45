---------------------------- MODULE PacketStream ----------------------------
(***************************************************************************)
(* One direction of a cluster connection, bytes included: SendPacket       *)
(* encodes a packet, sendInLoop writes it to the socket or appends it to   *)
(* outputBuffer_, HandleWrite writes the buffer out piece by piece,        *)
(* HandleRead turns what arrived into NetworkRecv messages, and the        *)
(* ClusterGatewayActor puts them together again and decodes.  Connected    *)
(* comes before them; on a connection that the receiver dialed it may come *)
(* once more at any time (ConnectedOnce of ClusterTransport), and empties  *)
(* the buffer.  The handshake that each answers goes the other way.        *)
(*                                                                         *)
(* Composes Buffer (the sender's outputBuffer_) and Codec.  The socket is  *)
(* one queue of at most Room bytes from the sender to the receiver.  The   *)
(* steps of the loops are those of module Reactor, taken whole.            *)
(***************************************************************************)
EXTENDS Buffer, Codec

CONSTANTS
  Packets,     \* what actors send
  MaxSent,     \* bound on the packets of a behaviour
  Room,        \* bytes the socket holds
  MaxMail,     \* bound on the messages that wait for the gateway
  RecvSize     \* NET_BUFF_SIZE

ASSUME StreamAssumption ==
  /\ Byte = CodecByte
  /\ \A p \in Packets :             \* a session is a uint32_t; less than 4 GB of packet
       p \in AnyPacket /\ p.sessionId < Limit32 /\ Len(Encode(p)) < Limit32
  /\ MaxSent \in Nat /\ Room \in Nat \ {0} /\ MaxMail \in Nat \ {0} /\ RecvSize \in Nat \ {0}

VARIABLES
  kernel,                  \* bytes in the socket
  link,                    \* the receiver's connection: up, removing, down
  mailbox,                 \* the gateway's: the data of its messages
  again,                   \* a second Connected: never, due, told
  pc,                      \* the gateway: idle, decode
  recvBuffer,              \* recvBuffers_[fd]
  sent, lost,              \* history: packets on their way, packets Send refused
  delivered, broken        \* history: packets decoded; an error, or bytes thrown away

gatewayVars == <<pc, recvBuffer, delivered, broken>>
sentVars == <<sent, lost>>
streamVars == <<bufferVars, kernel, link, mailbox, again, gatewayVars, sentVars>>

Connected == <<>>          \* its data is empty; that of a NetworkRecv is not

StreamInit ==
  /\ BufferInit
  /\ kernel = <<>> /\ link = "up"
  /\ mailbox = <<Connected>> /\ again \in {"never", "due"}
  /\ pc = "idle" /\ recvBuffer = <<>>
  /\ sent = <<>> /\ lost = <<>> /\ delivered = <<>> /\ broken = FALSE

Prefix(s, n) == SubSeq(s, 1, n)
Suffix(s, n) == SubSeq(s, n + 1, Len(s))
Least(m, n) == IF m < n THEN m ELSE n

\* How much sendInLoop writes at once.
Direct(s) == IF Empty THEN Least(Len(s), Room - Len(kernel)) ELSE 0

\* The cast of the size (below 2^32) to an int; Send refuses what is not positive.
ToInt(n) == IF 2 * n < Limit32 THEN n ELSE n - Limit32
Carried(p) == ToInt(Len(Encode(p))) > 0

CanSend == link = "up" /\ Len(sent) + Len(lost) < MaxSent

\* SendPacket and the sendInLoop of its bytes.
SendPacket(p) ==
  /\ CanSend /\ Carried(p)
  /\ sent' = Append(sent, p) /\ UNCHANGED lost
  /\ LET bytes == Encode(p)
         n == Direct(bytes)
     IN /\ kernel' = kernel \o Prefix(bytes, n)
        /\ IF n < Len(bytes) THEN BufferAppend(Suffix(bytes, n)) ELSE UNCHANGED bufferVars
  /\ UNCHANGED <<link, mailbox, again, gatewayVars>>

\* SendPacket of a packet of 2 GB or more: it returns true as well.
RefusePacket(p) ==
  /\ CanSend /\ ~Carried(p)
  /\ lost' = Append(lost, p)
  /\ UNCHANGED <<bufferVars, kernel, link, mailbox, again, gatewayVars, sent>>

\* HandleWrite: one write, as much as the socket takes, and its Retrieve.
HandleWrite ==
  /\ link = "up"
  /\ LET n == Least(ReadableBytes, Room - Len(kernel))
     IN kernel' = kernel \o Prefix(Contents, n) /\ Retrieve(n)
  /\ UNCHANGED <<link, mailbox, again, gatewayVars, sentVars>>

\* HandleRead: one recv and its SendByFd.
HandleRead ==
  /\ link # "down" /\ kernel # <<>> /\ Len(mailbox) < MaxMail
  /\ LET n == Least(RecvSize, Len(kernel))
     IN mailbox' = Append(mailbox, Prefix(kernel, n)) /\ kernel' = Suffix(kernel, n)
  /\ UNCHANGED <<bufferVars, link, again, gatewayVars, sentVars>>

\* CheckConnecting of ClusterTransport: the thread that dialed finds connecting_ false.
ConnectedAgain ==
  /\ again = "due" /\ Len(mailbox) < MaxMail
  /\ again' = "told" /\ mailbox' = Append(mailbox, Connected)
  /\ UNCHANGED <<bufferVars, kernel, link, gatewayVars, sentVars>>

\* The task of RemoveConnection: the socket is closed.
RunRemove ==
  /\ link = "removing" /\ link' = "down"
  /\ kernel' = <<>>
  /\ UNCHANGED <<bufferVars, mailbox, again, gatewayVars, sentVars>>

-----------------------------------------------------------------------------
(* ClusterGatewayActor.                                                    *)

\* Connected: part of a packet that waits for its rest is lost.
GatewayConnected ==
  /\ pc = "idle" /\ mailbox # <<>> /\ Head(mailbox) = Connected
  /\ recvBuffer' = <<>> /\ mailbox' = Tail(mailbox)
  /\ broken' = (broken \/ recvBuffer # <<>>)
  /\ UNCHANGED <<bufferVars, kernel, link, again, sentVars, pc, delivered>>

\* A NetworkRecv message; after an error a new buffer is made for the fd.
NetworkRecv ==
  /\ pc = "idle" /\ mailbox # <<>> /\ Head(mailbox) # Connected
  /\ recvBuffer' = recvBuffer \o Head(mailbox) /\ mailbox' = Tail(mailbox)
  /\ pc' = "decode"
  /\ UNCHANGED <<bufferVars, kernel, link, again, sentVars, delivered, broken>>

BadAfterDecode == "idle"            \* mutant: one packet for each message
AfterDecode == "decode"             \* the loop goes on

Unread(n) == Suffix(recvBuffer, n)  \* buf.erase(0, consumed)

DecodePacket ==
  /\ pc = "decode"
  /\ \E d \in {Decode(recvBuffer)} :
       /\ d.status = "packet"
       /\ delivered' = Append(delivered, d.packet)
       /\ recvBuffer' = Unread(d.consumed)
  /\ pc' = AfterDecode
  /\ UNCHANGED <<bufferVars, kernel, link, mailbox, again, sentVars, broken>>

DecodeMore ==
  /\ pc = "decode" /\ Decode(recvBuffer) = More
  /\ pc' = "idle"
  /\ UNCHANGED <<bufferVars, kernel, link, mailbox, again, sentVars, recvBuffer, delivered, broken>>

DecodeError ==
  /\ pc = "decode" /\ Decode(recvBuffer) = Error
  /\ recvBuffer' = <<>> /\ broken' = TRUE
  /\ link' = IF link = "up" THEN "removing" ELSE link
  /\ pc' = "idle"
  /\ UNCHANGED <<bufferVars, kernel, mailbox, again, sentVars, delivered>>

-----------------------------------------------------------------------------
Gateway == GatewayConnected \/ NetworkRecv \/ DecodePacket \/ DecodeMore \/ DecodeError
StreamNext ==
  \/ \E p \in Packets : SendPacket(p) \/ RefusePacket(p)
  \/ HandleWrite \/ HandleRead \/ ConnectedAgain \/ RunRemove \/ Gateway

StreamSpec == StreamInit /\ [][StreamNext]_streamVars

\* The loops and the gateway run; what actors send is their choice.
FairStreamSpec ==
  /\ StreamSpec
  /\ WF_streamVars(HandleWrite) /\ WF_streamVars(HandleRead)
  /\ WF_streamVars(RunRemove) /\ WF_streamVars(Gateway)

-----------------------------------------------------------------------------
\* Its names have lengths of 16 bits and its body one that Decode takes.
WellFormed(p) ==
  /\ \A i \in 1..4 : Len(p.names[i]) < Limit16
  /\ Len(Encode(p)) - 4 <= MaxBody

\* Partial writes, the buffer, TCP's cutting and joining and the decoding loop add up to
\* a channel of packets; a name that is too long damages its own packet at most, and what
\* Send refuses harms no other.  Only a second Connected ends the promise on its own.
Channel == INSTANCE PacketChannel WITH
             Intact <- WellFormed, racing <- (again # "never")
ImplementsPacketChannel == Channel!Spec

\* No packet waits for ever in a buffer on the way ("permanently stuck", Decode's
\* comments call it): again and again all on their way are decoded, or the connection
\* ends with an error, or a second Connected threw part of a packet away.
NothingStuck == []<>(Len(delivered) = Len(sent) \/ broken)
=============================================================================
