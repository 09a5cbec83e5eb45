----------------------- MODULE ClusterTransport_proofs -----------------------
(***************************************************************************)
(* Theorems about ClusterTransport for any number of nodes, descriptors,   *)
(* connections, calls and broken messages.                                 *)
(***************************************************************************)
EXTENDS ClusterTransport, TLAPS, SequenceTheorems

USE TransportAssumption

-----------------------------------------------------------------------------
(* Type correctness.  What a connection sends is reported under its peer:  *)
(* every connection the program refers to has one.                         *)

Used(c) == c # None => side[c] # "unused"

PeersKnown ==
  /\ \A c \in Conns : side[c] # "unused" => peer[c] \in Nodes
  /\ \A f \in Fds : Used(mapConn[f]) /\ Used(mapConnRaw[f])
  /\ main.at # "idle" => Used(main.conn)

TypeInv == TypeOK /\ PeersKnown

LEMMA InitTyped == Init => TypeInv
<1> SUFFICES ASSUME Init PROVE TypeInv
  OBVIOUS
<1>1. NetTyped
  BY DEF Init, NetTyped, Input
<1>2. LoopTyped
  BY DEF Init, LoopTyped
<1>3. GatewayTyped
  BY DEF Init, GatewayTyped, Idle
<1>4. ThreadsTyped
  BY DEF Init, ThreadsTyped, Idle
<1>5. PeersKnown
  BY DEF Init, PeersKnown, Used, Idle
<1> QED
  BY <1>1, <1>2, <1>3, <1>4, <1>5 DEF TypeInv, TypeOK

\* The record a descriptor number leads to is a connection.
LEMMA ConnectionTyped ==
  ASSUME TypeInv, NEW f \in Fds
  PROVE  /\ GetConnection(f) \in Conns \cup {None}
         /\ GetConnection(f) # None => peer[GetConnection(f)] \in Nodes
BY DEF TypeInv, TypeOK, LoopTyped, PeersKnown, Used, GetConnection

LEMMA Arrived ==
  ASSUME TypeInv, NEW c \in Conns, NEW queue \in Seq(Input), Arrives(c, queue),
         mood' \in [Conns -> {"new", "greeted", "closed", "reset"}], bad' \in [Conns -> 0..Garbage]
  PROVE  NetTyped'
BY DEF Arrives, TypeInv, TypeOK, NetTyped

\* The other nodes.
LEMMA PeersTyped ==
  ASSUME TypeInv, Peers \/ Answers
  PROVE  TypeInv'
<1>1. NetTyped'
  <2>1. ASSUME NEW c \in Conns, PeerGreets(c) \/ PeerEnds(c) \/ PeerBreaks(c) PROVE NetTyped'
    <3>1. /\ inbox[c] \in Seq(Input) /\ "handshake" \in Input /\ "fin" \in Input /\ "rst" \in Input
          /\ "garbage" \in Input
      BY DEF TypeInv, TypeOK, NetTyped, Input
    <3>2. /\ Append(inbox[c], "handshake") \in Seq(Input) /\ Append(inbox[c], "fin") \in Seq(Input)
          /\ Append(inbox[c], "garbage") \in Seq(Input) /\ <<"rst">> \in Seq(Input)
      BY <3>1, AppendProperties
    <3>3. mood' \in [Conns -> {"new", "greeted", "closed", "reset"}]
      BY <2>1 DEF PeerGreets, PeerEnds, PeerBreaks, Becomes, TypeInv, TypeOK, NetTyped
    <3>4. bad' \in [Conns -> 0..Garbage]
      BY <2>1 DEF PeerGreets, PeerEnds, PeerBreaks, Becomes, TypeInv, TypeOK, NetTyped
    <3> QED
      BY <2>1, <3>2, <3>3, <3>4, Arrived DEF PeerGreets, PeerEnds, PeerBreaks
  <2>3. ASSUME Answers PROVE NetTyped'
    BY <2>3 DEF Answers, Answer, TypeInv, TypeOK, NetTyped
  <2> QED
    BY <2>1, <2>3 DEF Peers
<1>2. UNCHANGED <<peer, side, socket, loopVars, gwVars, threadVars, strayed>>
  BY DEF Peers, Answers, Answer, PeerGreets, PeerEnds, PeerBreaks, Arrives
<1>3. LoopTyped' /\ GatewayTyped' /\ ThreadsTyped' /\ PeersKnown'
  BY <1>2 DEF TypeInv, TypeOK, LoopTyped, GatewayTyped, ThreadsTyped, PeersKnown, Used,
              loopVars, gwVars, threadVars
<1> QED
  BY <1>1, <1>3 DEF TypeInv, TypeOK

LEMMA AcceptTyped ==
  ASSUME TypeInv, NEW n \in Nodes, HandleAccept(n)
  PROVE  TypeInv'
<1> PICK c \in Conns, f \in Fds : HandleAccept(n)!(c, f)
  BY DEF HandleAccept
<1>1. NetTyped'
  BY DEF TypeInv, TypeOK, NetTyped
<1>2. LoopTyped'
  BY DEF TypeInv, TypeOK, LoopTyped
<1>3. GatewayTyped'
  <2>1. Tell("Connected", f, None) \in Mail
    BY DEF Tell, Mail
  <2> QED
    BY <2>1 DEF TypeInv, TypeOK, GatewayTyped
<1>4. ThreadsTyped'
  <2>1. told' \in [Conns -> Nat]
    BY DEF TypeInv, TypeOK, ThreadsTyped
  <2> QED
    BY <2>1 DEF TypeInv, TypeOK, ThreadsTyped
<1>5. PeersKnown'
  BY DEF TypeInv, TypeOK, NetTyped, LoopTyped, ThreadsTyped, PeersKnown, Used, Next1, Idle
<1> QED
  BY <1>1, <1>2, <1>3, <1>4, <1>5 DEF TypeInv, TypeOK

\* What a reference leads to outlasts every step that touches neither table nor peers.
LEMMA PeersKnownKept ==
  ASSUME TypeInv, UNCHANGED <<peer, side>>,
         \A f \in Fds : mapConn'[f] \in {mapConn[f], None} /\ mapConnRaw'[f] \in {mapConnRaw[f], None},
         main' \in {main, Idle}
  PROVE  PeersKnown'
<1>1. \A c \in Conns : side'[c] # "unused" => peer'[c] \in Nodes
  BY DEF TypeInv, PeersKnown
<1>2. \A f \in Fds : Used(mapConn[f])' /\ Used(mapConnRaw[f])'
  <2> SUFFICES ASSUME NEW f \in Fds PROVE Used(mapConn[f])' /\ Used(mapConnRaw[f])'
    OBVIOUS
  <2>1. mapConn'[f] \in {mapConn[f], None} /\ mapConnRaw'[f] \in {mapConnRaw[f], None}
    OBVIOUS
  <2>2. Used(mapConn[f]) /\ Used(mapConnRaw[f])
    BY DEF TypeInv, PeersKnown
  <2> QED
    BY <2>1, <2>2 DEF Used
<1>3. main'.at # "idle" => Used(main.conn)'
  BY DEF TypeInv, PeersKnown, Used, Idle
<1> QED
  BY <1>1, <1>2, <1>3 DEF PeersKnown

LEMMA ConnectTyped ==
  ASSUME TypeInv, NEW f \in Fds, NoConnection(f) \/ ConnectSucceeds(f) \/ ConnectFails(f)
  PROVE  TypeInv'
<1>1. GetConnection(f) \in Conns \cup {None}
  BY ConnectionTyped
<1>2. /\ Tell("Connected", f, None) \in Mail /\ Tell("Disconnected", f, None) \in Mail
      /\ Remove(f, None) \in Task
  BY DEF Tell, Mail, Remove, Task
<1>3. NetTyped'
  <2>1. edge' \in [Conns -> BOOLEAN]
    BY <1>1 DEF NoConnection, ConnectSucceeds, ConnectFails, Seen, TypeInv, TypeOK, NetTyped
  <2> QED
    BY <2>1 DEF NoConnection, ConnectSucceeds, ConnectFails, TypeInv, TypeOK, NetTyped
<1>4. LoopTyped'
  <2>1. tasks \in Seq(Task) /\ Append(tasks, Remove(f, None)) \in Seq(Task)
    BY <1>2, AppendProperties DEF TypeInv, TypeOK, LoopTyped
  <2>2. tasks' \in Seq(Task)
    BY <2>1 DEF NoConnection, ConnectSucceeds, ConnectFails
  <2>3. connecting' \in [Conns -> BOOLEAN]
    BY DEF NoConnection, ConnectSucceeds, ConnectFails, TypeInv, TypeOK, LoopTyped
  <2>4. /\ watched' \in [Fds -> Conns \cup {None}] /\ socket' \in [Fds -> Conns \cup {None}]
        /\ mapConn' = mapConn /\ mapConnRaw' = mapConnRaw
    BY DEF NoConnection, ConnectSucceeds, ConnectFails, TypeInv, TypeOK, LoopTyped
  <2> QED
    BY <2>2, <2>3, <2>4 DEF TypeInv, TypeOK, LoopTyped
<1>5. GatewayTyped'
  <2>1. /\ mailbox \in Seq(Mail) /\ Append(mailbox, Tell("Connected", f, None)) \in Seq(Mail)
        /\ Append(mailbox, Tell("Disconnected", f, None)) \in Seq(Mail)
    BY <1>2, AppendProperties DEF TypeInv, TypeOK, GatewayTyped
  <2>2. mailbox' \in Seq(Mail)
    BY <2>1 DEF NoConnection, ConnectSucceeds, ConnectFails, gwVars
  <2>3. UNCHANGED <<gw, nodeToFd, fdToNode, known>>
    BY DEF NoConnection, ConnectSucceeds, ConnectFails, gwVars
  <2> QED
    BY <2>2, <2>3 DEF TypeInv, TypeOK, GatewayTyped
<1>6. ThreadsTyped'
  <2>1. told' \in [Conns -> Nat]
    BY <1>1 DEF NoConnection, ConnectSucceeds, ConnectFails, TypeInv, TypeOK, ThreadsTyped, threadVars
  <2> QED
    BY <2>1 DEF NoConnection, ConnectSucceeds, ConnectFails, TypeInv, TypeOK, ThreadsTyped, threadVars
<1>7. PeersKnown'
  BY PeersKnownKept DEF NoConnection, ConnectSucceeds, ConnectFails, threadVars
<1> QED
  BY <1>3, <1>4, <1>5, <1>6, <1>7 DEF TypeInv, TypeOK

LEMMA ReadTyped ==
  ASSUME TypeInv, NEW f \in Fds, HandleRead(f)
  PROVE  TypeInv'
<1> DEFINE c == GetConnection(f)
<1>1. c \in Conns /\ peer[c] \in Nodes
  BY ConnectionTyped DEF HandleRead
<1>2. Messages(f, c) \in Seq(Mail)
  <2>1. inbox[c] \in Seq(Input) /\ Len(inbox[c]) \in Nat
    <3>1. inbox \in [Conns -> Seq(Input)]
      BY DEF TypeInv, TypeOK, NetTyped
    <3> HIDE DEF c
    <3>2. inbox[c] \in Seq(Input)
      BY <1>1, <3>1
    <3> QED
      BY <3>2, LenProperties
  <2>2. \A i \in 1..Len(inbox[c]) : inbox[c][i] \in Input
    BY <2>1, ElementOfSeq
  <2>3. \A i \in 1..Len(inbox[c]) : Tell("NetworkRecv", f, <<inbox[c][i], peer[c], c>>) \in Mail
    BY <1>1, <2>2 DEF Tell, Mail
  <2>4. ASSUME NEW k \in Nat, k <= Len(inbox[c])
        PROVE  [i \in 1..k |-> Tell("NetworkRecv", f, <<inbox[c][i], peer[c], c>>)] \in Seq(Mail)
    <3> DEFINE g == [i \in 1..k |-> Tell("NetworkRecv", f, <<inbox[c][i], peer[c], c>>)]
    <3>1. \A i \in 1..k : i \in 1..Len(inbox[c])
      BY <2>1, <2>4
    <3>2. g \in [1..k -> Mail]
      BY <2>3, <3>1
    <3> HIDE DEF g
    <3>3. g \in Seq(Mail)
      BY <3>2
    <3> QED
      BY <3>3 DEF g
  <2>5. CASE Has(c, "fin") \/ Has(c, "rst")
    <3>1. Len(inbox[c]) - 1 \in Nat
      BY <2>1, <2>5, EmptySeq DEF Has
    <3> QED
      BY <2>1, <2>4, <2>5, <3>1 DEF Messages
  <2>6. CASE ~(Has(c, "fin") \/ Has(c, "rst"))
    BY <2>1, <2>4, <2>6 DEF Messages
  <2> QED
    BY <2>5, <2>6
<1>3. /\ AtEnd(f) \in Seq(Mail) /\ <<>> \in Seq(Mail) /\ Remove(f, None) \in Task
  BY DEF AtEnd, Tell, Mail, Remove, Task
<1>4. NetTyped'
  <2>1. inbox' \in [Conns -> Seq(Input)]
    BY <1>1, EmptySeq DEF HandleRead, TypeInv, TypeOK, NetTyped
  <2>2. edge' \in [Conns -> BOOLEAN]
    BY DEF HandleRead, Seen, TypeInv, TypeOK, NetTyped
  <2> QED
    BY <2>1, <2>2 DEF HandleRead, TypeInv, TypeOK, NetTyped
<1>5. LoopTyped'
  BY <1>3, AppendProperties DEF HandleRead, TypeInv, TypeOK, LoopTyped
<1>6. GatewayTyped'
  <2>1. mailbox \o Messages(f, c) \in Seq(Mail)
    BY <1>2, ConcatProperties DEF TypeInv, TypeOK, GatewayTyped
  <2>2. mailbox' \in Seq(Mail)
    BY <1>3, <2>1, ConcatProperties DEF HandleRead
  <2> QED
    BY <2>2 DEF HandleRead, TypeInv, TypeOK, GatewayTyped
<1>7. ThreadsTyped'
  BY DEF HandleRead, TypeInv, TypeOK, ThreadsTyped, threadVars
<1>8. PeersKnown'
  BY PeersKnownKept DEF HandleRead, threadVars
<1> QED
  BY <1>4, <1>5, <1>6, <1>7, <1>8 DEF TypeInv, TypeOK

LEMMA TasksTyped ==
  ASSUME TypeInv, RunRemove \/ RunSend \/ RunAddEvent
  PROVE  TypeInv'
<1>1. /\ tasks \in Seq(Task) /\ tasks # <<>> /\ tasks' = Tail(tasks) /\ UNCHANGED <<connecting, gwVars>>
      /\ UNCHANGED <<peer, side, threadVars>>
  BY DEF RunRemove, RunSend, RunAddEvent, Runs, TypeInv, TypeOK, LoopTyped, netVars
<1>2. Head(tasks) \in Task /\ Tail(tasks) \in Seq(Task)
  BY <1>1, HeadTailProperties
<1>3. Head(tasks).fd \in Fds
  BY <1>2 DEF Task
<1>4. NetTyped'
  <2>1. edge' \in [Conns -> BOOLEAN]
    BY <1>3 DEF RunRemove, RunSend, RunAddEvent, TypeInv, TypeOK, NetTyped, netVars
  <2> QED
    BY <2>1 DEF RunRemove, RunSend, RunAddEvent, TypeInv, TypeOK, NetTyped, netVars
<1>5. LoopTyped'
  <2>1. watched' \in [Fds -> Conns \cup {None}] /\ socket' \in [Fds -> Conns \cup {None}]
    BY <1>3 DEF RunRemove, RunSend, RunAddEvent, TypeInv, TypeOK, LoopTyped
  <2>2. mapConn' \in [Fds -> Conns \cup {None}] /\ mapConnRaw' \in [Fds -> Conns \cup {None}]
    BY <1>3 DEF RunRemove, RunSend, RunAddEvent, TypeInv, TypeOK, LoopTyped
  <2> QED
    BY <1>1, <1>2, <2>1, <2>2 DEF TypeInv, TypeOK, LoopTyped
<1>6. GatewayTyped' /\ ThreadsTyped'
  <2>1. strayed' \in BOOLEAN
    BY DEF RunRemove, RunSend, RunAddEvent, TypeInv, TypeOK, ThreadsTyped
  <2> QED
    BY <1>1, <2>1 DEF TypeInv, TypeOK, GatewayTyped, ThreadsTyped, gwVars, threadVars
<1>7. PeersKnown'
  <2>1. \A f \in Fds : mapConn'[f] \in {mapConn[f], None} /\ mapConnRaw'[f] \in {mapConnRaw[f], None}
    BY DEF RunRemove, RunSend, RunAddEvent, TypeInv, TypeOK, LoopTyped
  <2> QED
    BY <1>1, <2>1, PeersKnownKept DEF threadVars
<1> QED
  BY <1>4, <1>5, <1>6, <1>7 DEF TypeInv, TypeOK

\* What the gateway takes out of its mailbox.
LEMMA HeardTyped ==
  ASSUME TypeInv, NEW type \in {"Connected", "Disconnected", "NetworkRecv"}, Heard(type)
  PROVE  /\ Head(mailbox) \in Mail /\ mailbox' \in Seq(Mail)
         /\ type # "Connected" => Head(mailbox).fd \in Fds
         /\ type = "Connected" => Head(mailbox).fd \in Fds \cup {None}
         /\ type = "NetworkRecv" => Head(mailbox).what[2] \in Nodes /\ Head(mailbox).what[3] \in Conns
<1>1. mailbox \in Seq(Mail) /\ mailbox # <<>>
  BY DEF Heard, TypeInv, TypeOK, GatewayTyped
<1>2. Head(mailbox) \in Mail /\ Tail(mailbox) \in Seq(Mail)
  BY <1>1, HeadTailProperties
<1> QED
  BY <1>2 DEF Heard, Mail

LEMMA GatewayStepTyped ==
  ASSUME TypeInv, Gateway
  PROVE  TypeInv'
<1>1. UNCHANGED <<netVars, socket, watched, mapConn, mapConnRaw, connecting, threadVars, strayed>>
  BY DEF Gateway, GatewayConnected, GatewayHandshake, GatewayDisconnected, GatewayNodes, loopVars
<1>2. NetTyped' /\ ThreadsTyped'
  BY <1>1 DEF TypeInv, TypeOK, NetTyped, ThreadsTyped, netVars, threadVars
<1>3. PeersKnown'
  BY <1>1, PeersKnownKept DEF netVars, threadVars
<1>4. LoopTyped'
  <2>1. tasks' \in Seq(Task)
    <3>1. CASE GatewayConnected
      <4> DEFINE f == Head(mailbox).fd
      <4>1. CASE f # None /\ GetConnection(f) # None
        <5>1. f \in Fds /\ GetConnection(f) \in Conns
          BY <3>1, <4>1, HeardTyped, ConnectionTyped DEF GatewayConnected
        <5>2. Send(f, GetConnection(f), None) \in Task
          BY <5>1 DEF Send, Task
        <5> QED
          BY <3>1, <4>1, <5>2, AppendProperties DEF GatewayConnected, TypeInv, TypeOK, LoopTyped
      <4>2. CASE ~(f # None /\ GetConnection(f) # None)
        BY <3>1, <4>2 DEF GatewayConnected, TypeInv, TypeOK, LoopTyped
      <4> QED
        BY <4>1, <4>2
    <3>2. CASE GatewayNodes
      <4>1. gw.close # None => Remove(gw.fd, gw.close) \in Task
        BY <3>2 DEF GatewayNodes, TypeInv, TypeOK, GatewayTyped, Idle, Remove, Task
      <4> QED
        BY <3>2, <4>1, AppendProperties DEF GatewayNodes, TypeInv, TypeOK, LoopTyped
    <3>3. CASE GatewayHandshake \/ GatewayDisconnected
      BY <3>3 DEF GatewayHandshake, GatewayDisconnected, TypeInv, TypeOK, LoopTyped, loopVars
    <3> QED
      BY <3>1, <3>2, <3>3 DEF Gateway
  <2> QED
    BY <1>1, <2>1 DEF TypeInv, TypeOK, LoopTyped
<1>5. GatewayTyped'
  <2>1. CASE GatewayConnected
    BY <2>1, HeardTyped DEF GatewayConnected, TypeInv, TypeOK, GatewayTyped
  <2>2. CASE GatewayHandshake
    <3> DEFINE f == Head(mailbox).fd
               n == Head(mailbox).what[2]
    <3>1. f \in Fds /\ n \in Nodes /\ mailbox' \in Seq(Mail)
      BY <2>2, HeardTyped DEF GatewayHandshake
    <3>2. WithoutOld(n, f) \in [Fds -> Nodes \cup {None}]
      BY <3>1 DEF WithoutOld, TypeInv, TypeOK, GatewayTyped
    <3>3. /\ fdToNode' = [WithoutOld(n, f) EXCEPT ![f] = n] /\ nodeToFd' = [nodeToFd EXCEPT ![n] = f]
          /\ gw' = [at |-> "nodes", fd |-> f, node |-> n, state |-> "alive", close |-> None]
          /\ known' = known
      BY <2>2 DEF GatewayHandshake
    <3> HIDE DEF f, n
    <3> QED
      BY <3>1, <3>2, <3>3 DEF TypeInv, TypeOK, GatewayTyped
  <2>3. CASE GatewayDisconnected
    <3> DEFINE f == Head(mailbox).fd
               n == fdToNode[f]
               node == IF Active(n, f) THEN n ELSE None
               close == IF Head(mailbox).type = "NetworkRecv" THEN Head(mailbox).what[3] ELSE None
    <3>1. f \in Fds /\ mailbox' \in Seq(Mail)
      BY <2>3, HeardTyped DEF GatewayDisconnected
    <3>2. n \in Nodes \cup {None} /\ node \in Nodes \cup {None}
      BY <3>1 DEF TypeInv, TypeOK, GatewayTyped
    <3>4. close \in Conns \cup {None}
      <4>1. CASE Heard("NetworkRecv")
        <5>1. Head(mailbox).what[3] \in Conns
          BY <4>1, HeardTyped
        <5> QED
          BY <5>1
      <4>2. CASE Heard("Disconnected")
        <5>1. Head(mailbox).type = "Disconnected"
          BY <4>2 DEF Heard
        <5> QED
          BY <5>1
      <4> QED
        BY <2>3, <4>1, <4>2 DEF GatewayDisconnected
    <3>3. /\ fdToNode' = [fdToNode EXCEPT ![f] = None]
          /\ nodeToFd' = IF Active(n, f) THEN [nodeToFd EXCEPT ![n] = None] ELSE nodeToFd
          /\ gw' = [at |-> "nodes", fd |-> f, node |-> node, state |-> "down", close |-> close]
          /\ known' = known
      BY <2>3 DEF GatewayDisconnected
    <3> HIDE DEF f, n, node, close
    <3> QED
      BY <3>1, <3>2, <3>3, <3>4 DEF TypeInv, TypeOK, GatewayTyped
  <2>4. CASE GatewayNodes
    <3>1. gw.state \in {"alive", "down"}
      BY <2>4 DEF GatewayNodes, TypeInv, TypeOK, GatewayTyped, Idle
    <3>2. Marked \in [Nodes -> {"unknown", "down", "alive"}]
      BY <3>1 DEF Marked, TypeInv, TypeOK, GatewayTyped
    <3> QED
      BY <2>4, <3>2 DEF GatewayNodes, TypeInv, TypeOK, GatewayTyped
  <2> QED
    BY <2>1, <2>2, <2>3, <2>4 DEF Gateway
<1> QED
  BY <1>2, <1>3, <1>4, <1>5 DEF TypeInv, TypeOK

LEMMA FdOfTyped ==
  ASSUME NEW c \in Conns
  PROVE  /\ FdOf(c) \in Fds \cup {None}
         /\ Open(c) => FdOf(c) \in Fds /\ socket[FdOf(c)] = c
BY DEF FdOf, Open

LEMMA DialTyped ==
  ASSUME TypeInv, NEW n \in Nodes, Dial(n)
  PROVE  TypeInv'
<1> PICK c \in Conns, f \in Fds : Dial(n)!(c, f)
  BY DEF Dial
<1>1. NetTyped'
  BY DEF TypeInv, TypeOK, NetTyped
<1>2. LoopTyped'
  <2>1. tasks \in Seq(Task) /\ AddEvent(f) \in Task
    BY DEF AddEvent, Task, TypeInv, TypeOK, LoopTyped
  <2>2. tasks' \in Seq(Task)
    BY <2>1, AppendProperties
  <2> QED
    BY <2>2 DEF TypeInv, TypeOK, LoopTyped
<1>3. GatewayTyped'
  BY DEF TypeInv, TypeOK, GatewayTyped, gwVars
<1>4. ThreadsTyped'
  BY DEF TypeInv, TypeOK, ThreadsTyped
<1>5. PeersKnown'
  <2>1. /\ side' = [side EXCEPT ![c] = "dialed"] /\ peer' = [peer EXCEPT ![c] = n]
        /\ main' = [at |-> "raw", conn |-> c, node |-> n]
        /\ UNCHANGED <<mapConn, mapConnRaw>>
    OBVIOUS
  <2>2. \A d \in Conns : side[d] # "unused" => side'[d] # "unused"
    BY <2>1 DEF TypeInv, TypeOK, NetTyped
  <2>3. \A d \in Conns : side'[d] # "unused" => peer'[d] \in Nodes
    BY <2>1 DEF TypeInv, TypeOK, NetTyped, PeersKnown
  <2>4. \A g \in Fds : Used(mapConn[g])' /\ Used(mapConnRaw[g])'
    BY <2>1, <2>2 DEF TypeInv, TypeOK, LoopTyped, PeersKnown, Used
  <2>5. Used(main.conn)'
    BY <2>1 DEF TypeInv, TypeOK, NetTyped, Used
  <2> QED
    BY <2>3, <2>4, <2>5 DEF PeersKnown
<1> QED
  BY <1>1, <1>2, <1>3, <1>4, <1>5 DEF TypeInv, TypeOK

LEMMA MainTyped ==
  ASSUME TypeInv, AddConnectionRaw \/ CheckConnecting \/ SetKnown
  PROVE  TypeInv'
<1>1. /\ main.conn \in Conns /\ main.node \in Nodes /\ side[main.conn] # "unused"
      /\ main \in [at : {"raw", "check", "known"}, conn : Conns, node : Nodes]
  BY DEF AddConnectionRaw, CheckConnecting, SetKnown, TypeInv, TypeOK, ThreadsTyped, PeersKnown,
         Used, Idle
<1>2. UNCHANGED <<peer, side, link, mood, bad, inbox, edge, socket, watched, mapConn, connecting,
                  tasks>>
  BY DEF AddConnectionRaw, CheckConnecting, SetKnown, netVars, loopVars
<1>3. NetTyped'
  BY <1>2 DEF TypeInv, TypeOK, NetTyped
<1>4. \/ UNCHANGED mapConnRaw
      \/ mapConnRaw' = [mapConnRaw EXCEPT ![FdOf(main.conn)] = IF @ = None THEN main.conn ELSE @]
  BY DEF AddConnectionRaw, CheckConnecting, SetKnown, loopVars
<1>5. \A f \in Fds : mapConnRaw'[f] \in {mapConnRaw[f], main.conn}
  BY <1>4 DEF TypeInv, TypeOK, LoopTyped
<1>6. LoopTyped'
  <2>1. mapConnRaw' \in [Fds -> Conns \cup {None}]
    BY <1>1, <1>4 DEF TypeInv, TypeOK, LoopTyped
  <2> QED
    BY <1>2, <2>1 DEF TypeInv, TypeOK, LoopTyped
<1>7. GatewayTyped'
  <2>1. Tell("Connected", FdOf(main.conn), None) \in Mail
    BY <1>1, FdOfTyped DEF Tell, Mail
  <2>2. mailbox' \in Seq(Mail)
    <3>1. mailbox \in Seq(Mail) /\ Append(mailbox, Tell("Connected", FdOf(main.conn), None)) \in Seq(Mail)
      BY <2>1, AppendProperties DEF TypeInv, TypeOK, GatewayTyped
    <3> QED
      BY <3>1 DEF AddConnectionRaw, CheckConnecting, SetKnown, gwVars
  <2>3. known' \in [Nodes -> {"unknown", "down", "alive"}]
    BY <1>1 DEF AddConnectionRaw, CheckConnecting, SetKnown, TypeInv, TypeOK, GatewayTyped, gwVars
  <2>4. UNCHANGED <<gw, nodeToFd, fdToNode>>
    BY DEF AddConnectionRaw, CheckConnecting, SetKnown, gwVars
  <2> QED
    BY <2>2, <2>3, <2>4 DEF TypeInv, TypeOK, GatewayTyped
<1>8. ThreadsTyped'
  <2>1. told' \in [Conns -> Nat]
    BY <1>1 DEF AddConnectionRaw, CheckConnecting, SetKnown, TypeInv, TypeOK, ThreadsTyped
  <2>2. main' \in {Idle} \cup [at : {"raw", "check", "known"}, conn : Conns, node : Nodes]
    BY <1>1 DEF AddConnectionRaw, CheckConnecting, SetKnown
  <2>3. UNCHANGED <<sender, calls, strayed>>
    BY DEF AddConnectionRaw, CheckConnecting, SetKnown
  <2> QED
    BY <2>1, <2>2, <2>3 DEF TypeInv, TypeOK, ThreadsTyped
<1>9. PeersKnown'
  <2>1. \A f \in Fds : Used(mapConn[f])' /\ Used(mapConnRaw[f])'
    BY <1>1, <1>2, <1>5 DEF TypeInv, PeersKnown, Used
  <2>2. main'.at # "idle" => main'.conn = main.conn
    BY <1>1 DEF AddConnectionRaw, CheckConnecting, SetKnown, Idle
  <2> QED
    BY <1>1, <1>2, <2>1, <2>2 DEF TypeInv, PeersKnown, Used
<1> QED
  BY <1>3, <1>6, <1>7, <1>8, <1>9 DEF TypeInv, TypeOK

LEMMA SenderTyped ==
  ASSUME TypeInv, Sender
  PROVE  TypeInv'
<1>1. UNCHANGED <<netVars, watched, mapConn, mapConnRaw, connecting, gwVars, main, told, strayed>>
  BY DEF Sender, GetFdByNodeId, HoldConnection, SendQueued, loopVars
<1>2. NetTyped' /\ GatewayTyped'
  BY <1>1 DEF TypeInv, TypeOK, NetTyped, GatewayTyped, netVars, gwVars
<1>3. PeersKnown'
  BY <1>1, PeersKnownKept DEF netVars
<1>4. LoopTyped' /\ ThreadsTyped'
  <2>1. ASSUME NEW n \in Nodes, GetFdByNodeId(n) PROVE LoopTyped' /\ ThreadsTyped'
    BY <2>1 DEF GetFdByNodeId, loopVars, TypeInv, TypeOK, GatewayTyped, LoopTyped, ThreadsTyped
  <2>2. CASE HoldConnection
    <3>1. sender.fd \in Fds /\ sender.node \in Nodes
      BY <2>2 DEF HoldConnection, TypeInv, TypeOK, ThreadsTyped, Idle
    <3>2. GetConnection(sender.fd) \in Conns \cup {None}
      BY <3>1, ConnectionTyped
    <3> QED
      BY <2>2, <3>1, <3>2 DEF HoldConnection, loopVars, TypeInv, TypeOK, LoopTyped, ThreadsTyped
  <2>3. CASE SendQueued
    <3> DEFINE c == sender.conn
    <3>1. c \in Conns /\ sender.node \in Nodes
      BY <2>3 DEF SendQueued, TypeInv, TypeOK, ThreadsTyped, Idle
    <3>2. tasks' \in Seq(Task)
      <4>1. CASE Open(c)
        <5>1. Send(FdOf(c), c, sender.node) \in Task
          BY <3>1, <4>1, FdOfTyped DEF Send, Task
        <5> QED
          BY <2>3, <4>1, <5>1, AppendProperties DEF SendQueued, TypeInv, TypeOK, LoopTyped
      <4>2. CASE ~Open(c)
        BY <2>3, <4>2 DEF SendQueued, TypeInv, TypeOK, LoopTyped
      <4> QED
        BY <4>1, <4>2
    <3>3. socket' \in [Fds -> Conns \cup {None}]
      BY <2>3 DEF SendQueued, TypeInv, TypeOK, LoopTyped
    <3>4. LoopTyped'
      BY <1>1, <3>2, <3>3 DEF TypeInv, TypeOK, LoopTyped
    <3>5. ThreadsTyped'
      BY <2>3 DEF SendQueued, TypeInv, TypeOK, ThreadsTyped
    <3> QED
      BY <3>4, <3>5
  <2> QED
    BY <2>1, <2>2, <2>3 DEF Sender
<1> QED
  BY <1>2, <1>3, <1>4 DEF TypeInv, TypeOK

LEMMA NextTyped == TypeInv /\ [Next]_vars => TypeInv'
<1> SUFFICES ASSUME TypeInv, [Next]_vars PROVE TypeInv'
  OBVIOUS
<1>1. CASE Peers \/ Answers
  BY <1>1, PeersTyped
<1>2. CASE Loop
  BY <1>2, AcceptTyped, ConnectTyped, ReadTyped, TasksTyped DEF Loop, LoopWork
<1>3. CASE Gateway
  BY <1>3, GatewayStepTyped
<1>4. CASE Main
  BY <1>4, DialTyped, MainTyped DEF Main
<1>5. CASE Sender
  BY <1>5, SenderTyped
<1>6. CASE UNCHANGED vars
  BY <1>6 DEF vars, netVars, loopVars, gwVars, threadVars, TypeInv, TypeOK, NetTyped, LoopTyped,
              GatewayTyped, ThreadsTyped, PeersKnown, Used
<1> QED
  BY <1>1, <1>2, <1>3, <1>4, <1>5, <1>6 DEF Next

\* Every step of the loop, the gateway, the threads and the peers keeps its types; what is
\* reported and what is sent always has a node and a number.
THEOREM ClusterTransport_TypeOK == Spec => []TypeOK
<1>1. Spec => []TypeInv
  BY InitTyped, NextTyped, PTL DEF Spec
<1> QED
  BY <1>1, PTL DEF TypeInv

-----------------------------------------------------------------------------
(* Who is alive.  The list of nodes is updated under another lock than the *)
(* maps; what the gateway is about to write there fits what it has just    *)
(* written to the maps, because nobody else writes to them.                *)

AliveInv ==
  /\ \A n \in Nodes :
       known[n] = "alive" =>
         nodeToFd[n] # None \/ (gw.at = "nodes" /\ gw.node = n /\ gw.state = "down")
  /\ gw.at = "nodes" /\ gw.state = "alive" => gw.node \in Nodes /\ nodeToFd[gw.node] # None

LEMMA InitAlive == Init => AliveInv
BY DEF Init, AliveInv, Idle

LEMMA GatewayAlive ==
  ASSUME TypeInv, AliveInv, Gateway
  PROVE  AliveInv'
<1> USE DEF TypeInv, TypeOK, GatewayTyped
<1>1. CASE GatewayConnected
  BY <1>1 DEF GatewayConnected, AliveInv
<1>2. CASE GatewayHandshake
  <2> DEFINE f == Head(mailbox).fd
             n == Head(mailbox).what[2]
  <2>1. f \in Fds /\ n \in Nodes
    BY <1>2, HeardTyped DEF GatewayHandshake
  <2>2. /\ nodeToFd' = [nodeToFd EXCEPT ![n] = f] /\ known' = known /\ gw = Idle
        /\ gw' = [at |-> "nodes", fd |-> f, node |-> n, state |-> "alive", close |-> None]
    BY <1>2 DEF GatewayHandshake, Heard
  <2> HIDE DEF f, n
  <2> QED
    BY <2>1, <2>2 DEF AliveInv, Idle
<1>3. CASE GatewayDisconnected
  <2> DEFINE f == Head(mailbox).fd
             n == fdToNode[f]
             node == IF Active(n, f) THEN n ELSE None
             close == IF Head(mailbox).type = "NetworkRecv" THEN Head(mailbox).what[3] ELSE None
  <2>1. f \in Fds
    BY <1>3, HeardTyped DEF GatewayDisconnected
  <2>2. n \in Nodes \cup {None}
    BY <2>1
  <2>3. /\ nodeToFd' = IF Active(n, f) THEN [nodeToFd EXCEPT ![n] = None] ELSE nodeToFd
        /\ gw' = [at |-> "nodes", fd |-> f, node |-> node, state |-> "down", close |-> close]
        /\ known' = known /\ gw = Idle
    BY <1>3 DEF GatewayDisconnected, Heard
  <2>4. CASE Active(n, f)
    <3>1. n \in Nodes /\ node = n
      BY <2>2, <2>4 DEF Active
    <3> HIDE DEF f, n, node, close
    <3> QED
      BY <2>3, <2>4, <3>1 DEF AliveInv, Idle
  <2>5. CASE ~Active(n, f)
    <3>1. nodeToFd' = nodeToFd /\ gw'.state = "down"
      BY <2>3, <2>5
    <3> HIDE DEF f, n, node, close
    <3> QED
      BY <2>3, <3>1 DEF AliveInv, Idle
  <2> QED
    BY <2>4, <2>5
<1>4. CASE GatewayNodes
  <2>1. \A n \in Nodes : known'[n] = IF n = gw.node /\ known[n] # "unknown" THEN gw.state ELSE known[n]
    BY <1>4 DEF GatewayNodes, Marked
  <2>2. gw.at = "nodes" /\ gw.state \in {"alive", "down"} /\ nodeToFd' = nodeToFd /\ gw' = Idle
    BY <1>4 DEF GatewayNodes, Idle
  <2> QED
    BY <2>1, <2>2 DEF AliveInv, Idle
<1> QED
  BY <1>1, <1>2, <1>3, <1>4 DEF Gateway

LEMMA NextAlive == TypeInv /\ AliveInv /\ [Next]_vars => AliveInv'
<1> SUFFICES ASSUME TypeInv, AliveInv, [Next]_vars PROVE AliveInv'
  OBVIOUS
<1>1. CASE Gateway
  BY <1>1, GatewayAlive
<1>2. CASE SetKnown
  <2>1. main.node \in Nodes
    BY <1>2 DEF SetKnown, TypeInv, TypeOK, ThreadsTyped, Idle
  <2> QED
    BY <1>2, <2>1 DEF SetKnown, AliveInv, TypeInv, TypeOK, GatewayTyped
<1>3. ASSUME UNCHANGED <<gw, nodeToFd, known>> PROVE AliveInv'
  BY <1>3 DEF AliveInv
<1>4. ASSUME Peers \/ Answers PROVE UNCHANGED <<gw, nodeToFd, known>>
  BY <1>4 DEF Peers, Answers, Answer, PeerGreets, PeerEnds, PeerBreaks, Arrives, gwVars
<1>5. ASSUME Loop PROVE UNCHANGED <<gw, nodeToFd, known>>
  BY <1>5 DEF Loop, LoopWork, HandleAccept, NoConnection, ConnectSucceeds, ConnectFails, HandleRead,
              RunRemove, RunSend, RunAddEvent, gwVars
<1>6. ASSUME Main, ~SetKnown PROVE UNCHANGED <<gw, nodeToFd, known>>
  BY <1>6 DEF Main, Dial, AddConnectionRaw, CheckConnecting, gwVars
<1>7. ASSUME Sender PROVE UNCHANGED <<gw, nodeToFd, known>>
  BY <1>7 DEF Sender, GetFdByNodeId, HoldConnection, SendQueued, gwVars
<1>8. ASSUME UNCHANGED vars PROVE UNCHANGED <<gw, nodeToFd, known>>
  BY <1>8 DEF vars, gwVars
<1> QED
  BY <1>1, <1>2, <1>3, <1>4, <1>5, <1>6, <1>7, <1>8 DEF Next

\* A node on the list is alive only while a descriptor stands for it, once the gateway is
\* done with its message: a disconnection of the node's only fd always reaches the list.
THEOREM ClusterTransport_AliveIsMapped == Spec => []AliveIsMapped
<1>1. Spec => [](TypeInv /\ AliveInv)
  BY InitTyped, NextTyped, InitAlive, NextAlive, PTL DEF Spec
<1>2. AliveInv => AliveIsMapped
  BY DEF AliveInv, AliveIsMapped, Idle
<1> QED
  BY <1>1, <1>2, PTL

-----------------------------------------------------------------------------
(* The maps.  A handshake on a number that another node still occupies     *)
(* would leave that node's entry behind.  It does not happen because news  *)
(* of a number comes in order: between the messages of two connections     *)
(* that had the number, the mailbox holds the end of the first, or its     *)
(* garbage.                                                                *)

Says(m, f, n) == m.type = "NetworkRecv" /\ m.fd = f /\ m.what[2] = n
Greets(m, f, n) == Says(m, f, n) /\ m.what[1] = "handshake"
GreetsFrom(m, f, n, c) == Greets(m, f, n) /\ m.what[3] = c
Breaks(m, f) == m.type = "NetworkRecv" /\ m.fd = f /\ m.what[1] = "garbage"
BreaksFrom(m, f, c) == Breaks(m, f) /\ m.what[3] = c
Lost(m, f) == m.type = "Disconnected" /\ m.fd = f
Ends(m, f) == Breaks(m, f) \/ Lost(m, f)

\* Once the gateway has read what is in front of the j-th message, f is n's.
Owns(n, f, j) ==
  \/ nodeToFd[n] = f /\ \A k \in 1..(j - 1) : ~Ends(mailbox[k], f)
  \/ \E i \in 1..(j - 1) : /\ Greets(mailbox[i], f, n)
                           /\ \A k \in (i + 1)..(j - 1) : ~Ends(mailbox[k], f)

\* ... and when it has read all there is.
WillOwn(n, f) == Owns(n, f, Len(mailbox) + 1)

\* A message of a connection never meets its number in other hands.
InOrder ==
  \A f \in Fds, n \in Nodes, o \in Nodes : \A j \in DOMAIN mailbox :
    Owns(n, f, j) /\ Says(mailbox[j], f, o) => o = n

Queued(t) == t \in Range(tasks)

\* The gateway has decided that c, which had the number f, must go.
Removing(f, c) == (gw.at = "nodes" /\ gw.fd = f /\ gw.close = c) \/ Queued(Remove(f, c))

\* f's connection, with node n: its end has not been reported, and nobody has asked for it.
Serves(f, n) ==
  LET c == GetConnection(f)
  IN /\ c # None /\ peer[c] = n /\ ~connecting[c]
     /\ ~Queued(Remove(f, None)) /\ ~Removing(f, c)

\* Whoever is to be mapped is served, and has said nothing wrong before.
GreetsServed ==
  \A f \in Fds, n \in Nodes, c \in Conns : \A i \in DOMAIN mailbox :
    GreetsFrom(mailbox[i], f, n, c) /\ (\A k \in DOMAIN mailbox : k > i => ~Lost(mailbox[k], f)) =>
      /\ GetConnection(f) = c /\ Serves(f, n)
      /\ \A k \in DOMAIN mailbox : k < i => ~BreaksFrom(mailbox[k], f, c)

\* Whoever is mapped is served.
MappedServed ==
  \A f \in Fds, n \in Nodes :
    nodeToFd[n] = f /\ (\A k \in DOMAIN mailbox : ~Lost(mailbox[k], f)) => Serves(f, n)

Core == Matching /\ InOrder /\ GreetsServed /\ MappedServed

\* What follows holds even when a removal has strayed.  A number in the tables is that of
\* the connection's socket, or is about to be removed.
NumbersHold ==
  /\ \A f \in Fds : GetConnection(f) # None => socket[f] = GetConnection(f) \/ Queued(Remove(f, None))
  /\ \A f \in Fds : mapConnRaw[f] # None => side[mapConnRaw[f]] = "dialed"
  /\ main.at # "idle" => side[main.conn] = "dialed"

\* A peer greets first or never.
GreetsFirst ==
  \A c \in Conns : \A i \in DOMAIN inbox[c] :
    /\ mood[c] = "new" /\ bad[c] = 0 => FALSE
    /\ inbox[c][i] = "handshake" => i = 1
    /\ inbox[c][i] = "garbage" => bad[c] # 0

\* Who has broken the protocol does not greet any more.
Silent ==
  \A f \in Fds, c \in Conns :
    Removing(f, c) \/ (\E i \in DOMAIN mailbox : BreaksFrom(mailbox[i], f, c)) =>
      bad[c] # 0 /\ \A i \in DOMAIN inbox[c] : inbox[c][i] # "handshake"

MapsInv == NumbersHold /\ GreetsFirst /\ Silent /\ (strayed \/ Core)

-----------------------------------------------------------------------------
(* Queues: what an append adds and a removal at the front takes away.      *)

LEMMA Concatenated ==
  ASSUME NEW S, NEW s \in Seq(S), NEW t \in Seq(S)
  PROVE  /\ s \o t \in Seq(S) /\ Len(s \o t) = Len(s) + Len(t) /\ Len(s) \in Nat /\ Len(t) \in Nat
         /\ DOMAIN (s \o t) = 1..(Len(s) + Len(t))
         /\ \A i \in 1..Len(s) : (s \o t)[i] = s[i]
         /\ \A i \in 1..Len(t) : (s \o t)[Len(s) + i] = t[i]
<1>1. /\ s \o t \in Seq(S) /\ Len(s \o t) = Len(s) + Len(t) /\ Len(s) \in Nat /\ Len(t) \in Nat
      /\ \A i \in 1..(Len(s) + Len(t)) : (s \o t)[i] = IF i <= Len(s) THEN s[i] ELSE t[i - Len(s)]
  BY ConcatProperties, LenProperties
<1>2. \A i \in 1..Len(s) : i \in 1..(Len(s) + Len(t)) /\ i <= Len(s)
  BY <1>1
<1>3. \A i \in 1..Len(t) : /\ Len(s) + i \in 1..(Len(s) + Len(t)) /\ ~(Len(s) + i <= Len(s))
                          /\ (Len(s) + i) - Len(s) = i
  BY <1>1
<1>4. DOMAIN (s \o t) = 1..(Len(s) + Len(t))
  BY <1>1, LenProperties
<1> QED
  BY <1>1, <1>2, <1>3, <1>4

LEMMA AppendToTasks ==
  ASSUME NEW T, NEW s \in Seq(T), NEW t \in T
  PROVE  \A u : u \in Range(Append(s, t)) <=> u \in Range(s) \/ u = t
<1>1. /\ Len(s) \in Nat /\ DOMAIN s = 1..Len(s) /\ DOMAIN Append(s, t) = 1..(Len(s) + 1)
      /\ Append(s, t)[Len(s) + 1] = t /\ \A i \in 1..Len(s) : Append(s, t)[i] = s[i]
  BY AppendProperties, LenProperties
<1>2. ASSUME NEW u, u \in Range(s) PROVE u \in Range(Append(s, t))
  <2>1. PICK i \in 1..Len(s) : s[i] = u
    BY <1>1, <1>2 DEF Range
  <2>2. i \in DOMAIN Append(s, t) /\ Append(s, t)[i] = u
    BY <1>1, <2>1
  <2> QED
    BY <2>2 DEF Range
<1>3. t \in Range(Append(s, t))
  <2>1. Len(s) + 1 \in DOMAIN Append(s, t)
    BY <1>1
  <2> QED
    BY <1>1, <2>1 DEF Range
<1>4. ASSUME NEW u, u \in Range(Append(s, t)), u # t PROVE u \in Range(s)
  <2>1. PICK i \in 1..(Len(s) + 1) : Append(s, t)[i] = u
    BY <1>1, <1>4 DEF Range
  <2>2. i \in 1..Len(s) /\ s[i] = u
    BY <1>1, <1>4, <2>1
  <2> QED
    BY <1>1, <2>2 DEF Range
<1> QED
  BY <1>2, <1>3, <1>4

LEMMA TailOfTasks ==
  ASSUME NEW T, NEW s \in Seq(T), s # <<>>
  PROVE  /\ \A u : u \in Range(Tail(s)) => u \in Range(s)
         /\ \A u : u \in Range(s) => u \in Range(Tail(s)) \/ u = Head(s)
         /\ Head(s) \in Range(s)
<1>1. /\ Len(s) \in Nat \ {0} /\ DOMAIN s = 1..Len(s) /\ DOMAIN Tail(s) = 1..(Len(s) - 1)
      /\ Head(s) = s[1] /\ \A i \in 1..(Len(s) - 1) : Tail(s)[i] = s[i + 1]
  BY EmptySeq, HeadTailProperties, LenProperties
<1>2. ASSUME NEW i \in 1..(Len(s) - 1) PROVE i + 1 \in 1..Len(s)
  BY <1>1
<1>3. ASSUME NEW u, u \in Range(Tail(s)) PROVE u \in Range(s)
  <2>1. PICK i \in 1..(Len(s) - 1) : Tail(s)[i] = u
    BY <1>1, <1>3 DEF Range
  <2> QED
    BY <1>1, <1>2, <2>1 DEF Range
<1>4. ASSUME NEW u, u \in Range(s), u # Head(s) PROVE u \in Range(Tail(s))
  <2>1. PICK i \in 1..Len(s) : s[i] = u
    BY <1>1, <1>4 DEF Range
  <2>2. i - 1 \in 1..(Len(s) - 1) /\ (i - 1) + 1 = i
    BY <1>1, <1>4, <2>1
  <2>3. Tail(s)[i - 1] = u
    BY <1>1, <2>1, <2>2
  <2> QED
    BY <1>1, <2>2, <2>3 DEF Range
<1>5. Head(s) \in Range(s)
  BY <1>1 DEF Range
<1> QED
  BY <1>3, <1>4, <1>5

-----------------------------------------------------------------------------
(* Who will own a number, as the mailbox grows at its end or loses its     *)
(* front.                                                                  *)

Size == Len(mailbox)

\* The mailbox keeps what it has.
Grows ==
  /\ Size \in Nat /\ Size' \in Nat /\ Size <= Size'
  /\ DOMAIN mailbox = 1..Size /\ DOMAIN mailbox' = 1..Size'
  /\ \A i \in 1..Size : mailbox'[i] = mailbox[i]

LEMMA OwnsKept ==
  ASSUME Grows, UNCHANGED nodeToFd, NEW n, NEW f, NEW j \in 1..(Size + 1)
  PROVE  Owns(n, f, j)' <=> Owns(n, f, j)
<1>1. \A k \in 1..(j - 1) : mailbox'[k] = mailbox[k]
  BY DEF Grows
<1>2. \A i \in 1..(j - 1) : \A k \in (i + 1)..(j - 1) : mailbox'[k] = mailbox[k]
  BY DEF Grows
<1> QED
  BY <1>1, <1>2 DEF Owns, Ends, Lost, Breaks, Greets, Says

LEMMA OwnsLater ==
  ASSUME Grows, UNCHANGED nodeToFd, NEW n, NEW f, NEW j \in (Size + 1)..(Size' + 1), Owns(n, f, j)'
  PROVE  WillOwn(n, f) \/ \E i \in (Size + 1)..(j - 1) : Greets(mailbox'[i], f, n)
<1>1. CASE nodeToFd'[n] = f /\ \A k \in 1..(j - 1) : ~Ends(mailbox'[k], f)
  <2>1. \A k \in 1..Size : mailbox'[k] = mailbox[k] /\ k \in 1..(j - 1)
    BY DEF Grows
  <2>2. \A k \in 1..Size : ~Ends(mailbox[k], f)
    BY <1>1, <2>1
  <2>3. (Size + 1) - 1 = Size
    BY DEF Grows
  <2> QED
    BY <1>1, <2>2, <2>3 DEF WillOwn, Owns, Size
<1>2. ASSUME NEW i \in 1..(j - 1), Greets(mailbox'[i], f, n),
             \A k \in (i + 1)..(j - 1) : ~Ends(mailbox'[k], f)
      PROVE  WillOwn(n, f) \/ \E l \in (Size + 1)..(j - 1) : Greets(mailbox'[l], f, n)
  <2>1. CASE i \in (Size + 1)..(j - 1)
    BY <1>2, <2>1
  <2>2. CASE i \in 1..Size
    <3>1. \A k \in (i + 1)..Size : mailbox'[k] = mailbox[k] /\ k \in (i + 1)..(j - 1)
      BY <2>2 DEF Grows
    <3>2. Greets(mailbox[i], f, n)
      BY <1>2, <2>2 DEF Grows
    <3>3. \A k \in (i + 1)..Size : ~Ends(mailbox[k], f)
      BY <1>2, <3>1
    <3>4. (Size + 1) - 1 = Size
      BY DEF Grows
    <3> QED
      BY <2>2, <3>2, <3>3, <3>4 DEF WillOwn, Owns, Size
  <2> QED
    BY <2>1, <2>2 DEF Grows
<1>3. \/ nodeToFd'[n] = f /\ \A k \in 1..(j - 1) : ~Ends(mailbox'[k], f)
      \/ \E i \in 1..(j - 1) : /\ Greets(mailbox'[i], f, n)
                               /\ \A k \in (i + 1)..(j - 1) : ~Ends(mailbox'[k], f)
  BY DEF Owns, Ends, Lost, Breaks, Greets, Says
<1> QED
  BY <1>1, <1>2, <1>3

\* All that is new is about f, and from p.
NewsFrom(f, p) ==
  /\ Grows
  /\ \A i \in (Size + 1)..Size' : \A g \in Fds, o \in Nodes :
       Says(mailbox'[i], g, o) => g = f /\ o = p /\ \A n \in Nodes : WillOwn(n, f) => n = p

LEMMA InOrderGrows ==
  ASSUME InOrder, UNCHANGED nodeToFd, NEW f, NEW p, NewsFrom(f, p)
  PROVE  InOrder'
<1> SUFFICES ASSUME NEW g \in Fds, NEW n \in Nodes, NEW o \in Nodes, NEW j \in 1..Size',
                    Owns(n, g, j)', Says(mailbox'[j], g, o)
             PROVE  o = n
  BY DEF InOrder, Says, NewsFrom, Grows
<1>1. CASE j \in 1..Size
  <2>1. Owns(n, g, j) /\ mailbox'[j] = mailbox[j] /\ j \in DOMAIN mailbox
    BY <1>1, OwnsKept DEF NewsFrom, Grows
  <2> QED
    BY <2>1 DEF InOrder
<1>2. CASE j \in (Size + 1)..Size'
  <2>1. g = f /\ o = p /\ \A m \in Nodes : WillOwn(m, f) => m = p
    BY <1>2 DEF NewsFrom
  <2>2. WillOwn(n, g) \/ \E i \in (Size + 1)..(j - 1) : Greets(mailbox'[i], g, n)
    <3>1. j \in (Size + 1)..(Size' + 1)
      BY <1>2 DEF NewsFrom, Grows
    <3> QED
      BY <3>1, OwnsLater DEF NewsFrom
  <2>3. ASSUME NEW i \in (Size + 1)..(j - 1), Greets(mailbox'[i], g, n) PROVE n = p
    <3>1. i \in (Size + 1)..Size'
      BY <1>2 DEF NewsFrom, Grows
    <3> QED
      BY <2>3, <3>1 DEF NewsFrom, Greets
  <2> QED
    BY <2>1, <2>2, <2>3
<1> QED
  BY <1>1, <1>2 DEF NewsFrom, Grows

LEMMA WillOwnGrows ==
  ASSUME UNCHANGED nodeToFd, NEW f, NEW p, NewsFrom(f, p),
         NEW n \in Nodes, NEW g \in Fds
  PROVE  WillOwn(n, g)' =>
           \/ WillOwn(n, g)
           \/ g = f /\ n = p /\ \E i \in (Size + 1)..Size' : Greets(mailbox'[i], g, n)
<1>1. Grows
  BY DEF NewsFrom
<1>2. PICK j : j = Size' + 1
  OBVIOUS
<1>3. j \in (Size + 1)..(Size' + 1) /\ j - 1 = Size'
  BY <1>1, <1>2 DEF Grows, Size
<1> HAVE WillOwn(n, g)'
<1>4. Owns(n, g, j)'
  BY <1>2 DEF WillOwn, Owns, Size
<1>5. WillOwn(n, g) \/ \E i \in (Size + 1)..Size' : Greets(mailbox'[i], g, n)
  BY <1>1, <1>3, <1>4, OwnsLater
<1> QED
  BY <1>5 DEF NewsFrom, Greets

\* The mailbox loses its first message.
Pops ==
  /\ Size \in Nat \ {0} /\ Size' = Size - 1
  /\ DOMAIN mailbox = 1..Size /\ DOMAIN mailbox' = 1..(Size - 1)
  /\ \A i \in 1..(Size - 1) : mailbox'[i] = mailbox[i + 1]
  /\ Head(mailbox) = mailbox[1]

\* What the maps say afterwards they said before, or the first message does.
Explained ==
  \A n \in Nodes, f \in Fds :
    nodeToFd'[n] = f =>
      \/ nodeToFd[n] = f /\ ~Ends(Head(mailbox), f)
      \/ Greets(Head(mailbox), f, n)

LEMMA OwnsAfterPop ==
  ASSUME Pops, Explained, NEW n \in Nodes, NEW f \in Fds, NEW j \in 1..Size, Owns(n, f, j)'
  PROVE  Owns(n, f, j + 1)
<1>0. Size \in Nat \ {0} /\ j \in Nat /\ (j + 1) - 1 = j
  BY DEF Pops
<1>1. ASSUME NEW k \in 2..j PROVE k - 1 \in 1..(j - 1) /\ mailbox'[k - 1] = mailbox[k]
  <2>1. k - 1 \in 1..(j - 1) /\ k - 1 \in 1..(Size - 1) /\ (k - 1) + 1 = k
    BY <1>0
  <2> QED
    BY <2>1 DEF Pops
<1>2. CASE nodeToFd'[n] = f /\ \A k \in 1..(j - 1) : ~Ends(mailbox'[k], f)
  <2>1. \A k \in 2..j : ~Ends(mailbox[k], f)
    BY <1>1, <1>2
  <2>2. CASE nodeToFd[n] = f /\ ~Ends(Head(mailbox), f)
    <3>1. \A k \in 1..j : ~Ends(mailbox[k], f)
      BY <1>0, <2>1, <2>2 DEF Pops
    <3> QED
      BY <1>0, <2>2, <3>1 DEF Owns
  <2>3. CASE Greets(Head(mailbox), f, n)
    <3>1. 1 \in 1..j /\ Greets(mailbox[1], f, n) /\ 1 + 1 = 2
      BY <1>0, <2>3 DEF Pops
    <3>2. \A k \in (1 + 1)..j : ~Ends(mailbox[k], f)
      BY <2>1, <3>1
    <3>3. \E i \in 1..j : Greets(mailbox[i], f, n) /\ \A k \in (i + 1)..j : ~Ends(mailbox[k], f)
      BY <3>1, <3>2
    <3> QED
      BY <1>0, <3>3 DEF Owns
  <2> QED
    BY <1>2, <2>2, <2>3 DEF Explained
<1>3. ASSUME NEW i \in 1..(j - 1), Greets(mailbox'[i], f, n),
             \A k \in (i + 1)..(j - 1) : ~Ends(mailbox'[k], f)
      PROVE  Owns(n, f, j + 1)
  <2>1. i + 1 \in 2..j /\ (i + 1) - 1 = i
    BY <1>0
  <2>2. Greets(mailbox[i + 1], f, n)
    BY <1>1, <1>3, <2>1
  <2>3. ASSUME NEW k \in ((i + 1) + 1)..j PROVE ~Ends(mailbox[k], f)
    <3>1. k \in 2..j /\ k - 1 \in (i + 1)..(j - 1)
      BY <1>0, <2>1
    <3> QED
      BY <1>1, <1>3, <3>1
  <2>4. i + 1 \in 1..j
    BY <2>1
  <2> QED
    BY <1>0, <2>2, <2>3, <2>4 DEF Owns
<1>4. \/ nodeToFd'[n] = f /\ \A k \in 1..(j - 1) : ~Ends(mailbox'[k], f)
      \/ \E i \in 1..(j - 1) : /\ Greets(mailbox'[i], f, n)
                               /\ \A k \in (i + 1)..(j - 1) : ~Ends(mailbox'[k], f)
  BY DEF Owns, Ends, Lost, Breaks, Greets, Says
<1> QED
  BY <1>2, <1>3, <1>4

LEMMA InOrderPops ==
  ASSUME InOrder, Pops, Explained
  PROVE  InOrder'
<1> SUFFICES ASSUME NEW f \in Fds, NEW n \in Nodes, NEW o \in Nodes, NEW j \in 1..(Size - 1),
                    Owns(n, f, j)', Says(mailbox'[j], f, o)
             PROVE  o = n
  BY DEF InOrder, Says, Pops
<1>1. j \in 1..Size /\ j + 1 \in DOMAIN mailbox /\ mailbox'[j] = mailbox[j + 1]
  BY DEF Pops
<1>2. Owns(n, f, j + 1)
  BY <1>1, OwnsAfterPop
<1> QED
  BY <1>1, <1>2 DEF InOrder

-----------------------------------------------------------------------------
(* Tasks, and the numbers of connections.                                  *)
LEMMA TaskAppended ==
  ASSUME TypeInv, NEW t \in Task, tasks' = Append(tasks, t)
  PROVE  \A u : Queued(u)' <=> Queued(u) \/ u = t
<1>1. tasks \in Seq(Task)
  BY DEF TypeInv, TypeOK, LoopTyped
<1>2. \A u : u \in Range(Append(tasks, t)) <=> u \in Range(tasks) \/ u = t
  BY <1>1, AppendToTasks
<1> QED
  BY <1>2 DEF Queued

LEMMA TaskRun ==
  ASSUME TypeInv, NEW op, Runs(op)
  PROVE  /\ \A u : Queued(u)' => Queued(u)
         /\ \A u : Queued(u) => Queued(u)' \/ u = Head(tasks)
         /\ Head(tasks) \in Task /\ Head(tasks).op = op /\ Queued(Head(tasks))
<1>1. tasks \in Seq(Task) /\ tasks # <<>> /\ tasks' = Tail(tasks) /\ Head(tasks).op = op
  BY DEF Runs, TypeInv, TypeOK, LoopTyped
<1>2. Head(tasks) \in Task
  BY <1>1, HeadTailProperties
<1>3. /\ \A u : u \in Range(Tail(tasks)) => u \in Range(tasks)
      /\ \A u : u \in Range(tasks) => u \in Range(Tail(tasks)) \/ u = Head(tasks)
      /\ Head(tasks) \in Range(tasks)
  BY <1>1, TailOfTasks
<1> QED
  BY <1>1, <1>2, <1>3 DEF Queued

\* Tasks tell a removal from all others.
LEMMA TasksDiffer ==
  ASSUME NEW f, NEW g, NEW a, NEW b, NEW c, NEW n
  PROVE  /\ Remove(f, a) # Send(g, c, n) /\ Remove(f, a) # AddEvent(g)
         /\ Remove(f, a) = Remove(g, b) => f = g /\ a = b
         /\ Remove(f, a).op = "remove" /\ Remove(f, a).fd = f /\ Remove(f, a).cause = a
<1>1. /\ Remove(f, a).op = "remove" /\ Send(g, c, n).op = "send" /\ AddEvent(g).op = "add"
      /\ Remove(f, a).fd = f /\ Remove(f, a).cause = a
      /\ Remove(g, b).fd = g /\ Remove(g, b).cause = b
  BY DEF Remove, Send, AddEvent
<1> QED
  BY <1>1

\* No removal the loop queued is lost in this step.
LoopKeeps == \A f \in Fds : Queued(Remove(f, None)) => Queued(Remove(f, None))'

LEMMA NumbersKept ==
  ASSUME NumbersHold, UNCHANGED <<socket, mapConn, mapConnRaw, side>>, LoopKeeps,
         main'.at # "idle" => main.at # "idle" /\ main'.conn = main.conn
  PROVE  NumbersHold'
<1>1. \A f \in Fds : GetConnection(f)' = GetConnection(f)
  BY DEF GetConnection
<1>2. \A f \in Fds : GetConnection(f)' # None
                       => socket'[f] = GetConnection(f)' \/ Queued(Remove(f, None))'
  BY <1>1 DEF NumbersHold, LoopKeeps
<1> QED
  BY <1>2 DEF NumbersHold

LEMMA NumbersAccept ==
  ASSUME TypeInv, NumbersHold, NEW n \in Nodes, HandleAccept(n)
  PROVE  NumbersHold'
<1> PICK c \in Conns, f \in Fds : HandleAccept(n)!(c, f)
  BY DEF HandleAccept
<1> USE DEF TypeInv, TypeOK, NetTyped, LoopTyped, PeersKnown, Used
<1>1. \A d \in Conns : side[d] = "dialed" => side'[d] = "dialed"
  BY DEF Next1
<1>2. LoopKeeps
  BY DEF LoopKeeps, Queued
<1>3. ASSUME NEW g \in Fds, GetConnection(g)' # None
      PROVE  socket'[g] = GetConnection(g)' \/ Queued(Remove(g, None))'
  <2>1. CASE g # f
    <3>1. GetConnection(g)' = GetConnection(g) /\ socket'[g] = socket[g]
      BY <2>1 DEF GetConnection
    <3> QED
      BY <1>2, <1>3, <3>1 DEF NumbersHold, LoopKeeps
  <2>2. CASE g = f
    <3>1. CASE mapConn[f] = None
      BY <2>2, <3>1 DEF GetConnection
    <3>2. CASE mapConn[f] # None
      <4>1. GetConnection(f) # None /\ socket[f] # GetConnection(f)
        BY <3>2 DEF GetConnection, Free
      <4> QED
        BY <1>2, <2>2, <4>1 DEF NumbersHold, LoopKeeps
    <3> QED
      BY <3>1, <3>2
  <2> QED
    BY <2>1, <2>2
<1>4. \A g \in Fds : mapConnRaw'[g] # None => side'[mapConnRaw'[g]] = "dialed"
  BY <1>1 DEF NumbersHold
<1>5. main'.at # "idle" => side'[main'.conn] = "dialed"
  BY <1>1 DEF NumbersHold, ThreadsTyped, Idle
<1> QED
  BY <1>3, <1>4, <1>5 DEF NumbersHold

LEMMA NumbersDial ==
  ASSUME TypeInv, NumbersHold, NEW n \in Nodes, Dial(n)
  PROVE  NumbersHold'
<1> PICK c \in Conns, f \in Fds : Dial(n)!(c, f)
  BY DEF Dial
<1> USE DEF TypeInv, TypeOK, NetTyped, LoopTyped, PeersKnown, Used
<1>1. \A d \in Conns : side[d] = "dialed" => side'[d] = "dialed"
  OBVIOUS
<1>2. LoopKeeps
  <2>1. AddEvent(f) \in Task
    BY DEF AddEvent, Task
  <2> QED
    BY <2>1, TaskAppended DEF LoopKeeps
<1>3. ASSUME NEW g \in Fds, GetConnection(g)' # None
      PROVE  socket'[g] = GetConnection(g)' \/ Queued(Remove(g, None))'
  <2>1. GetConnection(g)' = GetConnection(g)
    BY DEF GetConnection
  <2>2. socket[g] # None => socket'[g] = socket[g]
    BY DEF Free
  <2>3. socket[g] = GetConnection(g) \/ Queued(Remove(g, None))
    BY <1>3, <2>1 DEF NumbersHold
  <2> QED
    BY <1>2, <1>3, <2>1, <2>2, <2>3 DEF LoopKeeps
<1>4. \A g \in Fds : mapConnRaw'[g] # None => side'[mapConnRaw'[g]] = "dialed"
  BY <1>1 DEF NumbersHold
<1>5. side'[main'.conn] = "dialed"
  OBVIOUS
<1> QED
  BY <1>3, <1>4, <1>5 DEF NumbersHold

LEMMA NumbersFails ==
  ASSUME TypeInv, NumbersHold, NEW f \in Fds, ConnectFails(f)
  PROVE  NumbersHold'
<1>1. /\ tasks' = Append(tasks, Remove(f, None)) /\ Remove(f, None) \in Task
      /\ socket' = [socket EXCEPT ![f] = None] /\ UNCHANGED <<mapConn, mapConnRaw, side, main>>
  BY DEF ConnectFails, Remove, Task, threadVars
<1>2. \A u : Queued(u)' <=> Queued(u) \/ u = Remove(f, None)
  BY <1>1, TaskAppended
<1>3. \A g \in Fds : GetConnection(g)' = GetConnection(g)
  BY <1>1 DEF GetConnection
<1>4. \A g \in Fds : g # f => socket'[g] = socket[g]
  BY <1>1 DEF TypeInv, TypeOK, LoopTyped
<1>5. \A g \in Fds : GetConnection(g)' # None
                       => socket'[g] = GetConnection(g)' \/ Queued(Remove(g, None))'
  BY <1>2, <1>3, <1>4 DEF NumbersHold
<1> QED
  BY <1>1, <1>5 DEF NumbersHold

LEMMA NumbersRemove ==
  ASSUME TypeInv, NumbersHold, RunRemove
  PROVE  NumbersHold'
<1>1. Head(tasks) \in Task /\ \A u : Queued(u) => Queued(u)' \/ u = Head(tasks)
  BY TaskRun DEF RunRemove
<1>2. PICK f \in Fds : f = Head(tasks).fd
  BY <1>1 DEF Task
<1>3. ASSUME NEW g \in Fds, g # f
      PROVE  GetConnection(g)' = GetConnection(g) /\ socket'[g] = socket[g]
             /\ (Queued(Remove(g, None)) => Queued(Remove(g, None))')
  <2>1. Remove(g, None) # Head(tasks)
    <3>1. Remove(g, None).fd = g
      BY TasksDiffer
    <3> QED
      BY <1>2, <1>3, <3>1
  <2>2. mapConn'[g] = mapConn[g] /\ mapConnRaw'[g] = mapConnRaw[g] /\ socket'[g] = socket[g]
    BY <1>2, <1>3 DEF RunRemove, TypeInv, TypeOK, LoopTyped
  <2> QED
    BY <1>1, <2>1, <2>2 DEF GetConnection
<1>4. GetConnection(f)' = None
  BY <1>2 DEF RunRemove, GetConnection, TypeInv, TypeOK, LoopTyped
<1>5. \A g \in Fds : GetConnection(g)' # None
                       => socket'[g] = GetConnection(g)' \/ Queued(Remove(g, None))'
  BY <1>3, <1>4 DEF NumbersHold
<1>6. \A g \in Fds : mapConnRaw'[g] # None => side'[mapConnRaw'[g]] = "dialed"
  BY DEF RunRemove, NumbersHold, TypeInv, TypeOK, LoopTyped, netVars
<1> QED
  BY <1>5, <1>6 DEF RunRemove, NumbersHold, netVars, threadVars

LEMMA NumbersRaw ==
  ASSUME TypeInv, NumbersHold, AddConnectionRaw
  PROVE  /\ NumbersHold'
         /\ \A g \in Fds : GetConnection(g) # None => GetConnection(g)' = GetConnection(g)
<1> DEFINE c == main.conn
<1>1. c \in Conns /\ side[c] = "dialed"
  BY DEF AddConnectionRaw, NumbersHold, TypeInv, TypeOK, ThreadsTyped, Idle
<1>2. UNCHANGED <<socket, mapConn, tasks, side>> /\ main' = [main EXCEPT !.at = "check"]
      /\ mapConnRaw' = [mapConnRaw EXCEPT ![FdOf(c)] = IF @ = None THEN c ELSE @]
  BY DEF AddConnectionRaw, netVars
<1>3. \A g \in Fds : mapConnRaw'[g] = mapConnRaw[g]
                     \/ (mapConnRaw[g] = None /\ mapConnRaw'[g] = c /\ socket[g] = c)
  <2>1. \A g \in Fds : g = FdOf(c) => socket[g] = c
    BY FdOfTyped, <1>1 DEF FdOf
  <2> QED
    BY <1>2, <2>1 DEF TypeInv, TypeOK, LoopTyped
<1>4. \A g \in Fds : GetConnection(g) # None => GetConnection(g)' = GetConnection(g)
  BY <1>2, <1>3 DEF GetConnection
<1>5. LoopKeeps
  BY <1>2 DEF LoopKeeps, Queued
<1>6. ASSUME NEW g \in Fds, GetConnection(g)' # None
      PROVE  socket'[g] = GetConnection(g)' \/ Queued(Remove(g, None))'
  <2>1. CASE GetConnection(g) # None
    BY <1>2, <1>4, <1>5, <2>1 DEF NumbersHold, LoopKeeps
  <2>2. CASE GetConnection(g) = None
    <3>1. mapConn[g] = None /\ mapConnRaw[g] = None
      BY <2>2 DEF GetConnection
    <3>2. GetConnection(g)' = mapConnRaw'[g]
      BY <1>2, <3>1 DEF GetConnection
    <3> QED
      BY <1>2, <1>3, <1>6, <3>1, <3>2
  <2> QED
    BY <2>1, <2>2
<1>7. \A g \in Fds : mapConnRaw'[g] # None => side'[mapConnRaw'[g]] = "dialed"
  BY <1>1, <1>2, <1>3 DEF NumbersHold
<1>8. side'[main'.conn] = "dialed"
  BY <1>1, <1>2 DEF AddConnectionRaw, TypeInv, TypeOK, ThreadsTyped, Idle
<1> QED
  BY <1>4, <1>6, <1>7, <1>8 DEF NumbersHold

LEMMA NumbersSent ==
  ASSUME TypeInv, NumbersHold, SendQueued
  PROVE  NumbersHold' /\ \A u : Queued(u) => Queued(u)'
<1> DEFINE c == sender.conn
<1>1. c \in Conns /\ sender.node \in Nodes
  BY DEF SendQueued, TypeInv, TypeOK, ThreadsTyped, Idle
<1>2. \A u : Queued(u) => Queued(u)'
  <2>1. CASE Open(c)
    <3>1. Send(FdOf(c), c, sender.node) \in Task
      BY <1>1, <2>1, FdOfTyped DEF Send, Task
    <3>2. tasks' = Append(tasks, Send(FdOf(c), c, sender.node))
      BY <2>1 DEF SendQueued
    <3> QED
      BY <3>1, <3>2, TaskAppended
  <2>2. CASE ~Open(c)
    BY <2>2 DEF SendQueued, Queued
  <2> QED
    BY <2>1, <2>2
<1>3. /\ UNCHANGED <<mapConn, mapConnRaw, side, main>>
      /\ \A g \in Fds : socket'[g] = socket[g]
                        \/ (socket[g] = c /\ side[c] = "accepted" /\ c \notin Range(mapConn))
  BY DEF SendQueued, netVars, TypeInv, TypeOK, LoopTyped
<1>4. ASSUME NEW g \in Fds, GetConnection(g)' # None
      PROVE  socket'[g] = GetConnection(g)' \/ Queued(Remove(g, None))'
  <2>1. GetConnection(g)' = GetConnection(g)
    BY <1>3 DEF GetConnection
  <2>2. CASE socket'[g] = socket[g]
    BY <1>2, <1>4, <2>1, <2>2 DEF NumbersHold
  <2>3. CASE socket[g] = c /\ side[c] = "accepted" /\ c \notin Range(mapConn)
    <3>1. mapConn[g] \in Range(mapConn)
      BY DEF Range, TypeInv, TypeOK, LoopTyped
    <3>2. GetConnection(g) # c
      BY <2>3, <3>1, <1>4, <2>1 DEF GetConnection, NumbersHold
    <3> QED
      BY <1>2, <1>4, <2>1, <2>3, <3>2 DEF NumbersHold
  <2> QED
    BY <1>3, <2>2, <2>3
<1> QED
  BY <1>2, <1>3, <1>4 DEF NumbersHold

\* What the loop queued stays queued, except that it runs.
LEMMA TasksKept ==
  ASSUME TypeInv, Next, ~RunRemove
  PROVE  LoopKeeps
<1> SUFFICES \A f \in Fds : Queued(Remove(f, None)) => Queued(Remove(f, None))'
  BY DEF LoopKeeps
<1>1. CASE UNCHANGED tasks
  BY <1>1 DEF Queued
<1>2. ASSUME NEW t \in Task, tasks' = Append(tasks, t)
      PROVE  \A u : Queued(u) => Queued(u)'
  BY <1>2, TaskAppended
<1>3. ASSUME NEW op \in {"send", "add"}, Runs(op)
      PROVE  \A f \in Fds : Queued(Remove(f, None)) => Queued(Remove(f, None))'
  <2>1. Head(tasks).op = op /\ \A u : Queued(u) => Queued(u)' \/ u = Head(tasks)
    BY <1>3, TaskRun
  <2>2. \A f \in Fds : Remove(f, None) # Head(tasks)
    BY <2>1, TasksDiffer
  <2> QED
    BY <2>1, <2>2
<1>4. ASSUME Peers \/ Answers PROVE UNCHANGED tasks
  BY <1>4 DEF Peers, Answers, Answer, PeerGreets, PeerEnds, PeerBreaks, Arrives, loopVars
<1>5. ASSUME Loop
      PROVE  \/ UNCHANGED tasks \/ Runs("send") \/ Runs("add")
             \/ \E f \in Fds : tasks' = Append(tasks, Remove(f, None))
  BY <1>5 DEF Loop, LoopWork, HandleAccept, NoConnection, ConnectSucceeds, ConnectFails, HandleRead,
              RunSend, RunAddEvent
<1>6. \A f \in Fds : Remove(f, None) \in Task /\ AddEvent(f) \in Task
  BY DEF Remove, AddEvent, Task
<1>7. ASSUME Gateway PROVE UNCHANGED tasks \/ \E t \in Task : tasks' = Append(tasks, t)
  <2>1. CASE GatewayConnected
    <3> DEFINE f == Head(mailbox).fd
    <3>1. CASE f # None /\ GetConnection(f) # None
      <4>1. f \in Fds /\ GetConnection(f) \in Conns
        BY <2>1, <3>1, HeardTyped, ConnectionTyped DEF GatewayConnected
      <4>2. Send(f, GetConnection(f), None) \in Task
        BY <4>1 DEF Send, Task
      <4> QED
        BY <2>1, <3>1, <4>2 DEF GatewayConnected
    <3>2. CASE ~(f # None /\ GetConnection(f) # None)
      BY <2>1, <3>2 DEF GatewayConnected
    <3> QED
      BY <3>1, <3>2
  <2>2. CASE GatewayNodes
    <3>1. gw.close # None => Remove(gw.fd, gw.close) \in Task
      BY <2>2 DEF GatewayNodes, TypeInv, TypeOK, GatewayTyped, Idle, Remove, Task
    <3> QED
      BY <2>2, <3>1 DEF GatewayNodes
  <2> QED
    BY <1>7, <2>1, <2>2 DEF Gateway, GatewayHandshake, GatewayDisconnected, loopVars
<1>8. ASSUME Main PROVE UNCHANGED tasks \/ \E f \in Fds : tasks' = Append(tasks, AddEvent(f))
  BY <1>8 DEF Main, Dial, AddConnectionRaw, CheckConnecting, SetKnown, loopVars
<1>9. ASSUME Sender PROVE UNCHANGED tasks \/ \E t \in Task : tasks' = Append(tasks, t)
  <2>1. CASE SendQueued
    <3>1. sender.conn \in Conns /\ sender.node \in Nodes
      BY <2>1 DEF SendQueued, TypeInv, TypeOK, ThreadsTyped, Idle
    <3>2. Open(sender.conn) => Send(FdOf(sender.conn), sender.conn, sender.node) \in Task
      BY <3>1, FdOfTyped DEF Send, Task
    <3> QED
      BY <2>1, <3>2 DEF SendQueued
  <2> QED
    BY <1>9, <2>1 DEF Sender, GetFdByNodeId, HoldConnection, loopVars
<1> QED
  BY <1>1, <1>2, <1>3, <1>4, <1>5, <1>6, <1>7, <1>8, <1>9 DEF Next

LEMMA NumbersNext ==
  ASSUME TypeInv, NumbersHold, Next
  PROVE  NumbersHold'
<1>1. CASE RunRemove
  BY <1>1, NumbersRemove
<1>2. CASE AddConnectionRaw
  BY <1>2, NumbersRaw
<1>3. CASE SendQueued
  BY <1>3, NumbersSent
<1>4. CASE \E n \in Nodes : HandleAccept(n) \/ Dial(n)
  BY <1>4, NumbersAccept, NumbersDial
<1>5. CASE \E f \in Fds : ConnectFails(f)
  BY <1>5, NumbersFails
<1> SUFFICES ASSUME ~RunRemove, ~AddConnectionRaw, ~SendQueued,
                    ~(\E n \in Nodes : HandleAccept(n) \/ Dial(n)),
                    ~(\E f \in Fds : ConnectFails(f))
             PROVE  NumbersHold'
  BY <1>1, <1>2, <1>3, <1>4, <1>5
<1>6. LoopKeeps
  BY TasksKept
<1>7. UNCHANGED <<socket, mapConn, mapConnRaw, side>>
  <2>1. ASSUME Peers \/ Answers PROVE UNCHANGED <<socket, mapConn, mapConnRaw, side>>
    BY <2>1 DEF Peers, Answers, Answer, PeerGreets, PeerEnds, PeerBreaks, Arrives, loopVars
  <2>2. ASSUME Loop PROVE UNCHANGED <<socket, mapConn, mapConnRaw, side>>
    BY <2>2 DEF Loop, LoopWork, NoConnection, ConnectSucceeds, HandleRead, RunSend, RunAddEvent, netVars
  <2>3. ASSUME Gateway PROVE UNCHANGED <<socket, mapConn, mapConnRaw, side>>
    BY <2>3 DEF Gateway, GatewayConnected, GatewayHandshake, GatewayDisconnected, GatewayNodes,
                loopVars, netVars
  <2>4. ASSUME Main \/ Sender PROVE UNCHANGED <<socket, mapConn, mapConnRaw, side>>
    BY <2>4 DEF Main, CheckConnecting, SetKnown, Sender, GetFdByNodeId, HoldConnection, loopVars, netVars
  <2> QED
    BY <2>1, <2>2, <2>3, <2>4 DEF Next
<1>8. main' = main \/ (main'.conn = main.conn /\ main.at # "idle") \/ main' = Idle
  <2>1. ASSUME CheckConnecting PROVE main'.conn = main.conn /\ main.at # "idle"
    BY <2>1 DEF CheckConnecting, TypeInv, TypeOK, ThreadsTyped, Idle
  <2>2. ASSUME ~CheckConnecting PROVE main' = main \/ main' = Idle
    BY <2>2 DEF Next, Peers, Answers, Answer, PeerGreets, PeerEnds, PeerBreaks, Arrives, Loop, LoopWork,
                NoConnection, ConnectSucceeds, HandleRead, RunSend, RunAddEvent, Gateway,
                GatewayConnected, GatewayHandshake, GatewayDisconnected, GatewayNodes, Main, SetKnown,
                Sender, GetFdByNodeId, HoldConnection, threadVars
  <2> QED
    BY <2>1, <2>2
<1>9. main'.at # "idle" => main.at # "idle" /\ main'.conn = main.conn
  BY <1>8 DEF Idle
<1> QED
  BY <1>6, <1>7, <1>9, NumbersKept

-----------------------------------------------------------------------------
(* The step of one action, apart from what it means for the core: who is   *)
(* heard, which removals are asked for, which connections keep their place.*)

\* f's connection keeps its place.
Holds(f) ==
  \A n \in Nodes : Serves(f, n) => Serves(f, n)' /\ GetConnection(f)' = GetConnection(f)

\* Nothing new comes from a peer.
NothingSaid ==
  Grows /\ \A i \in (Size + 1)..Size' : mailbox'[i].type # "NetworkRecv"

\* The gateway decides on no removal.
NothingAsked == \A f \in Fds, c \in Conns : Removing(f, c)' => Removing(f, c)

\* Who has broken the protocol, and the gateway has heard or will hear of it.
HeardBad(f, c) ==
  Removing(f, c) \/ \E i \in DOMAIN mailbox : BreaksFrom(mailbox[i], f, c)

NoNewBad == \A f \in Fds, c \in Conns : HeardBad(f, c)' => HeardBad(f, c)

\* A step in which the gateway reads nothing, and the loop reads nothing.
Calm ==
  /\ NothingSaid /\ NothingAsked
  /\ UNCHANGED <<nodeToFd, fdToNode>>
  /\ strayed' \/ \A f \in Fds : Holds(f)

LEMMA SameMail ==
  ASSUME TypeInv, UNCHANGED mailbox
  PROVE  NothingSaid
<1>1. Size \in Nat /\ Size' = Size /\ DOMAIN mailbox = 1..Size
  BY DEF TypeInv, TypeOK, GatewayTyped, Size
<1>2. Size <= Size' /\ (Size + 1)..Size' = {}
  BY <1>1
<1> QED
  BY <1>1, <1>2 DEF NothingSaid, Grows

LEMMA OneMore ==
  ASSUME TypeInv, NEW m \in Mail, mailbox' = Append(mailbox, m), m.type # "NetworkRecv"
  PROVE  NothingSaid
<1>1. /\ Size \in Nat /\ DOMAIN mailbox = 1..Size /\ Size' = Size + 1 /\ DOMAIN mailbox' = 1..(Size + 1)
      /\ \A i \in 1..Size : mailbox'[i] = mailbox[i]
      /\ mailbox'[Size + 1] = m
  <2>1. mailbox \in Seq(Mail)
    BY DEF TypeInv, TypeOK, GatewayTyped
  <2> QED
    BY <2>1, AppendProperties, LenProperties DEF Size
<1>2. Size <= Size' /\ (Size + 1)..Size' = {Size + 1}
  BY <1>1
<1> QED
  BY <1>1, <1>2 DEF NothingSaid, Grows

\* What a peer said was there before.
LEMMA SaidBefore ==
  ASSUME NothingSaid, NEW i \in DOMAIN mailbox', mailbox'[i].type = "NetworkRecv"
  PROVE  i \in DOMAIN mailbox /\ mailbox'[i] = mailbox[i]
<1>1. i \in 1..Size \/ i \in (Size + 1)..Size'
  BY DEF NothingSaid, Grows
<1> QED
  BY <1>1 DEF NothingSaid, Grows

LEMMA KeptMail ==
  ASSUME Grows, NEW i \in DOMAIN mailbox
  PROVE  i \in DOMAIN mailbox' /\ mailbox'[i] = mailbox[i]
BY DEF Grows

LEMMA CalmHeard ==
  ASSUME NothingSaid, NothingAsked
  PROVE  NoNewBad
<1> SUFFICES ASSUME NEW f \in Fds, NEW c \in Conns, HeardBad(f, c)' PROVE HeardBad(f, c)
  BY DEF NoNewBad
<1>1. CASE Removing(f, c)'
  BY <1>1 DEF NothingAsked, HeardBad
<1>2. ASSUME NEW i \in DOMAIN mailbox', BreaksFrom(mailbox'[i], f, c) PROVE HeardBad(f, c)
  <2>1. i \in DOMAIN mailbox /\ mailbox'[i] = mailbox[i]
    BY <1>2, SaidBefore DEF BreaksFrom, Breaks
  <2> QED
    BY <1>2, <2>1 DEF HeardBad
<1>3. Removing(f, c)' \/ \E i \in DOMAIN mailbox' : BreaksFrom(mailbox'[i], f, c)
  BY DEF HeardBad, BreaksFrom, Breaks
<1> QED
  BY <1>1, <1>2, <1>3

LEMMA CalmCore ==
  ASSUME TypeInv, Core, Calm, ~strayed'
  PROVE  Core'
<1>1. Grows /\ NothingSaid /\ UNCHANGED <<nodeToFd, fdToNode>> /\ \A f \in Fds : Holds(f)
  BY DEF Calm, NothingSaid
<1>2. Matching'
  BY <1>1 DEF Core, Matching
<1>3. ASSUME NEW f, NEW p PROVE NewsFrom(f, p)
  BY <1>1 DEF NewsFrom, NothingSaid, Says
<1>4. InOrder'
  BY <1>1, <1>3, InOrderGrows DEF Core
<1>5. GreetsServed'
  <2> SUFFICES ASSUME NEW f \in Fds, NEW n \in Nodes, NEW c \in Conns, NEW i \in DOMAIN mailbox',
                      GreetsFrom(mailbox'[i], f, n, c),
                      \A k \in DOMAIN mailbox' : k > i => ~Lost(mailbox'[k], f)
               PROVE  /\ GetConnection(f)' = c /\ Serves(f, n)'
                      /\ \A k \in DOMAIN mailbox' : k < i => ~BreaksFrom(mailbox'[k], f, c)
    BY DEF GreetsServed, GreetsFrom, Greets, Says, Lost, BreaksFrom, Breaks
  <2>1. i \in DOMAIN mailbox /\ mailbox'[i] = mailbox[i]
    BY <1>1, SaidBefore DEF GreetsFrom, Greets, Says
  <2>2. \A k \in DOMAIN mailbox : k > i => ~Lost(mailbox[k], f)
    BY <1>1, KeptMail DEF Lost
  <2>3. /\ GetConnection(f) = c /\ Serves(f, n)
        /\ \A k \in DOMAIN mailbox : k < i => ~BreaksFrom(mailbox[k], f, c)
    BY <2>1, <2>2 DEF Core, GreetsServed
  <2>4. Serves(f, n)' /\ GetConnection(f)' = c
    BY <1>1, <2>3 DEF Holds
  <2>5. ASSUME NEW k \in DOMAIN mailbox', k < i, BreaksFrom(mailbox'[k], f, c) PROVE FALSE
    <3>1. k \in DOMAIN mailbox /\ mailbox'[k] = mailbox[k]
      BY <1>1, <2>5, SaidBefore DEF BreaksFrom, Breaks
    <3> QED
      BY <2>3, <2>5, <3>1
  <2> QED
    BY <2>4, <2>5
<1>6. MappedServed'
  <2> SUFFICES ASSUME NEW f \in Fds, NEW n \in Nodes, nodeToFd'[n] = f,
                      \A k \in DOMAIN mailbox' : ~Lost(mailbox'[k], f)
               PROVE  Serves(f, n)'
    BY DEF MappedServed, Lost
  <2>1. \A k \in DOMAIN mailbox : ~Lost(mailbox[k], f)
    BY <1>1, KeptMail DEF Lost
  <2>2. Serves(f, n)
    BY <1>1, <2>1 DEF Core, MappedServed
  <2> QED
    BY <1>1, <2>2 DEF Holds
<1> QED
  BY <1>2, <1>4, <1>5, <1>6 DEF Core

\* No removal joins the tasks.
NoRemovals ==
  \A f \in Fds, a \in Conns \cup {None} : Queued(Remove(f, a))' => Queued(Remove(f, a))

LEMMA SameTasks == UNCHANGED tasks => NoRemovals
BY DEF NoRemovals, Queued

LEMMA OneMoreTask ==
  ASSUME TypeInv, NEW t \in Task, t.op # "remove", tasks' = Append(tasks, t)
  PROVE  NoRemovals
<1>1. \A u : Queued(u)' <=> Queued(u) \/ u = t
  BY TaskAppended
<1>2. \A f \in Fds, a \in Conns \cup {None} : Remove(f, a) # t
  BY DEF Remove
<1> QED
  BY <1>1, <1>2 DEF NoRemovals

LEMMA OneTaskRun ==
  ASSUME TypeInv, NEW op, Runs(op)
  PROVE  NoRemovals
<1>1. \A u : Queued(u)' => Queued(u)
  BY TaskRun
<1> QED
  BY <1>1 DEF NoRemovals

LEMMA NotAsked ==
  ASSUME UNCHANGED gw, NoRemovals
  PROVE  NothingAsked
BY DEF NothingAsked, Removing, NoRemovals

\* The connection a number leads to stays, and so does what is said of it.
Stays(f) ==
  \A c \in Conns :
    c = GetConnection(f) =>
      /\ GetConnection(f)' = c /\ peer'[c] = peer[c] /\ (connecting'[c] => connecting[c])

LEMMA StaysHolds ==
  ASSUME TypeInv, NEW f \in Fds, Stays(f) \/ ~(\E n \in Nodes : Serves(f, n)),
         Queued(Remove(f, None))' => Queued(Remove(f, None)), NothingAsked
  PROVE  Holds(f)
<1> SUFFICES ASSUME NEW n \in Nodes, Serves(f, n)
             PROVE  Serves(f, n)' /\ GetConnection(f)' = GetConnection(f)
  BY DEF Holds
<1> PICK c : c = GetConnection(f)
  OBVIOUS
<1>1. /\ c # None /\ peer[c] = n /\ ~connecting[c]
      /\ ~Queued(Remove(f, None)) /\ ~Removing(f, c)
  BY DEF Serves
<1>2. c \in Conns
  BY <1>1, ConnectionTyped
<1>3. GetConnection(f)' = c /\ peer'[c] = peer[c] /\ ~connecting'[c]
  BY <1>1, <1>2 DEF Stays
<1>4. ~Queued(Remove(f, None))' /\ ~Removing(f, c)'
  BY <1>1, <1>2 DEF NothingAsked
<1> QED
  BY <1>1, <1>3, <1>4 DEF Serves, Removing, Queued

LEMMA StaysCalm ==
  ASSUME TypeInv, NoRemovals, NothingSaid, UNCHANGED <<gw, nodeToFd, fdToNode>>,
         \A f \in Fds : Stays(f) \/ ~(\E n \in Nodes : Serves(f, n))
  PROVE  Calm
<1>1. NothingAsked
  BY NotAsked
<1>2. \A f \in Fds : Queued(Remove(f, None))' => Queued(Remove(f, None))
  BY DEF NoRemovals
<1>3. \A f \in Fds : Holds(f)
  BY <1>1, <1>2, StaysHolds
<1> QED
  BY <1>1, <1>3 DEF Calm

\* The connection of a number that serves is used.
LEMMA ServesUsed ==
  ASSUME TypeInv, NumbersHold, NEW f \in Fds, NEW n \in Nodes, Serves(f, n)
  PROVE  /\ GetConnection(f) \in Conns /\ side[GetConnection(f)] # "unused"
         /\ socket[f] = GetConnection(f) /\ ~connecting[GetConnection(f)]
<1>1. GetConnection(f) # None /\ ~connecting[GetConnection(f)] /\ ~Queued(Remove(f, None))
  BY DEF Serves
<1>2. GetConnection(f) \in Conns
  BY <1>1, ConnectionTyped
<1>3. side[GetConnection(f)] # "unused"
  BY <1>1 DEF GetConnection, TypeInv, PeersKnown, Used
<1> QED
  BY <1>1, <1>2, <1>3 DEF NumbersHold

-----------------------------------------------------------------------------
(* The steps in which nobody is heard.                                     *)

LEMMA PeersCalm ==
  ASSUME TypeInv, Peers \/ Answers
  PROVE  Calm
<1>1. UNCHANGED <<peer, mailbox, tasks, mapConn, mapConnRaw, connecting, gw, nodeToFd, fdToNode>>
  BY DEF Peers, Answers, Answer, PeerGreets, PeerEnds, PeerBreaks, Arrives, loopVars, gwVars
<1>2. \A f \in Fds : Stays(f)
  BY <1>1 DEF Stays, GetConnection
<1> QED
  BY <1>1, <1>2, SameMail, SameTasks, StaysCalm

LEMMA AcceptCalm ==
  ASSUME TypeInv, NumbersHold, NEW n \in Nodes, HandleAccept(n)
  PROVE  Calm
<1> PICK c \in Conns, f \in Fds : HandleAccept(n)!(c, f)
  BY DEF HandleAccept
<1>1. NothingSaid
  <2>1. Tell("Connected", f, None) \in Mail /\ Tell("Connected", f, None).type # "NetworkRecv"
    BY DEF Tell, Mail
  <2> QED
    BY <2>1, OneMore
<1>2. ASSUME NEW g \in Fds, NEW m \in Nodes, Serves(g, m) PROVE Stays(g)
  <2>1. /\ GetConnection(g) \in Conns /\ side[GetConnection(g)] # "unused"
        /\ socket[g] = GetConnection(g)
    BY <1>2, ServesUsed
  <2>2. g # f /\ GetConnection(g) # c
    BY <2>1 DEF Free, Next1
  <2>3. GetConnection(g)' = GetConnection(g)
    BY <2>2 DEF GetConnection
  <2>4. peer'[GetConnection(g)] = peer[GetConnection(g)]
    BY <2>1, <2>2 DEF TypeInv, TypeOK, NetTyped
  <2> QED
    BY <2>3, <2>4 DEF Stays
<1>3. UNCHANGED <<tasks, nodeToFd, fdToNode, gw>>
  OBVIOUS
<1> QED
  BY <1>1, <1>2, <1>3, SameTasks, StaysCalm

LEMMA ConnectCalm ==
  ASSUME TypeInv, NEW f \in Fds, NoConnection(f) \/ ConnectSucceeds(f) \/ ConnectFails(f)
  PROVE  Calm
<1>1. NothingSaid
  <2>1. /\ Tell("Connected", f, None) \in Mail /\ Tell("Connected", f, None).type # "NetworkRecv"
        /\ Tell("Disconnected", f, None) \in Mail /\ Tell("Disconnected", f, None).type # "NetworkRecv"
    BY DEF Tell, Mail
  <2>2. UNCHANGED mailbox \/ \E m \in Mail : m.type # "NetworkRecv" /\ mailbox' = Append(mailbox, m)
    BY <2>1 DEF NoConnection, ConnectSucceeds, ConnectFails, gwVars
  <2> QED
    BY <2>2, SameMail, OneMore
<1>2. UNCHANGED <<nodeToFd, fdToNode, gw, peer, mapConn, mapConnRaw>>
  BY DEF NoConnection, ConnectSucceeds, ConnectFails, gwVars
<1>3. \A c \in Conns : connecting'[c] => connecting[c]
  BY DEF NoConnection, ConnectSucceeds, ConnectFails, TypeInv, TypeOK, LoopTyped
<1>4. \A g \in Fds : Stays(g)
  BY <1>2, <1>3 DEF Stays, GetConnection
<1>5. CASE NoConnection(f) \/ ConnectSucceeds(f)
  <2>1. UNCHANGED tasks
    BY <1>5 DEF NoConnection, ConnectSucceeds
  <2> QED
    BY <1>1, <1>2, <1>4, <2>1, SameTasks, StaysCalm
<1>6. CASE ConnectFails(f)
  <2>1. Remove(f, None) \in Task /\ tasks' = Append(tasks, Remove(f, None))
    BY <1>6 DEF ConnectFails, Remove, Task
  <2>2. \A u : Queued(u)' <=> Queued(u) \/ u = Remove(f, None)
    BY <2>1, TaskAppended
  <2>3. NothingAsked
    <3>1. \A g \in Fds, c \in Conns : Remove(g, c) # Remove(f, None)
      BY TransportAssumption, TasksDiffer
    <3> QED
      BY <1>2, <2>2, <3>1 DEF NothingAsked, Removing
  <2>4. ASSUME NEW g \in Fds PROVE Holds(g)
    <3>1. CASE g # f
      <4>1. Queued(Remove(g, None))' => Queued(Remove(g, None))
        BY <2>2, <3>1, TasksDiffer
      <4> QED
        BY <1>4, <2>3, <4>1, StaysHolds
    <3>2. CASE g = f
      BY <1>6, <3>2 DEF ConnectFails, Holds, Serves
    <3> QED
      BY <3>1, <3>2
  <2> QED
    BY <1>1, <1>2, <2>3, <2>4 DEF Calm
<1> QED
  BY <1>5, <1>6

\* A removal hits a connection that serves only when it has strayed.
LEMMA TasksCalm ==
  ASSUME TypeInv, RunRemove \/ RunSend \/ RunAddEvent
  PROVE  Calm
<1>1. UNCHANGED <<mailbox, nodeToFd, fdToNode, gw, peer, connecting>>
  BY DEF RunRemove, RunSend, RunAddEvent, netVars, gwVars
<1>2. NoRemovals
  BY OneTaskRun DEF RunRemove, RunSend, RunAddEvent
<1>3. CASE RunSend \/ RunAddEvent
  <2>1. UNCHANGED <<mapConn, mapConnRaw>>
    BY <1>3 DEF RunSend, RunAddEvent
  <2>2. \A f \in Fds : Stays(f)
    BY <1>1, <2>1 DEF Stays, GetConnection
  <2> QED
    BY <1>1, <1>2, <2>2, SameMail, StaysCalm
<1>4. CASE RunRemove
  <2>1. Head(tasks) \in Task /\ Head(tasks).op = "remove" /\ Queued(Head(tasks))
    BY <1>4, TaskRun DEF RunRemove
  <2>2. PICK f \in Fds, a \in Conns \cup {None} :
          f = Head(tasks).fd /\ a = Head(tasks).cause /\ Head(tasks) = Remove(f, a)
    BY <2>1 DEF Task, Remove
  <2>3. NothingAsked
    BY <1>1, <1>2, NotAsked
  <2>4. ASSUME NEW g \in Fds, g # f PROVE Holds(g)
    <3>1. mapConn'[g] = mapConn[g] /\ mapConnRaw'[g] = mapConnRaw[g]
      BY <1>4, <2>2, <2>4 DEF RunRemove, TypeInv, TypeOK, LoopTyped
    <3>2. Stays(g)
      BY <1>1, <3>1 DEF Stays, GetConnection
    <3>3. Queued(Remove(g, None))' => Queued(Remove(g, None))
      BY <1>2 DEF NoRemovals
    <3> QED
      BY <2>3, <3>2, <3>3, StaysHolds
  <2>5. strayed' \/ Holds(f)
    <3>1. CASE a = None
      BY <2>1, <2>2, <3>1 DEF Holds, Serves
    <3>2. CASE a # None /\ GetConnection(f) = a
      BY <2>1, <2>2, <3>2 DEF Holds, Serves, Removing
    <3>3. CASE a # None /\ GetConnection(f) = None
      BY <3>3 DEF Holds, Serves
    <3>4. CASE a # None /\ GetConnection(f) \notin {None, a}
      BY <1>4, <2>2, <3>4 DEF RunRemove
    <3> QED
      BY <3>1, <3>2, <3>3, <3>4
  <2> QED
    BY <1>1, <2>3, <2>4, <2>5, SameMail DEF Calm
<1> QED
  BY <1>3, <1>4

LEMMA MainCalm ==
  ASSUME TypeInv, NumbersHold, Main
  PROVE  Calm
<1>1. ASSUME NEW n \in Nodes, Dial(n) PROVE Calm
  <2> PICK c \in Conns, f \in Fds : Dial(n)!(c, f)
    BY <1>1 DEF Dial
  <2>1. NoRemovals
    <3>1. AddEvent(f) \in Task /\ AddEvent(f).op # "remove"
      BY DEF AddEvent, Task
    <3> QED
      BY <3>1, OneMoreTask
  <2>2. ASSUME NEW g \in Fds, NEW m \in Nodes, Serves(g, m) PROVE Stays(g)
    <3>1. GetConnection(g) \in Conns /\ side[GetConnection(g)] # "unused"
      BY <2>2, ServesUsed
    <3>2. GetConnection(g) # c
      BY <3>1 DEF Next1
    <3>3. GetConnection(g)' = GetConnection(g)
      BY DEF GetConnection
    <3>4. /\ peer'[GetConnection(g)] = peer[GetConnection(g)]
          /\ connecting'[GetConnection(g)] = connecting[GetConnection(g)]
      BY <3>1, <3>2 DEF TypeInv, TypeOK, NetTyped, LoopTyped
    <3> QED
      BY <3>3, <3>4 DEF Stays
  <2>3. UNCHANGED <<mailbox, nodeToFd, fdToNode, gw>>
    BY DEF gwVars
  <2> QED
    BY <2>1, <2>2, <2>3, SameMail, StaysCalm
<1>2. CASE AddConnectionRaw
  <2>1. UNCHANGED <<mailbox, nodeToFd, fdToNode, gw, tasks, peer, connecting>>
    BY <1>2 DEF AddConnectionRaw, gwVars, netVars
  <2>2. \A g \in Fds : Stays(g) \/ ~(\E n \in Nodes : Serves(g, n))
    BY <1>2, <2>1, NumbersRaw DEF Stays, Serves
  <2> QED
    BY <2>1, <2>2, SameMail, SameTasks, StaysCalm
<1>3. CASE CheckConnecting \/ SetKnown
  <2>1. UNCHANGED <<nodeToFd, fdToNode, gw, tasks, peer, connecting, mapConn, mapConnRaw>>
    BY <1>3 DEF CheckConnecting, SetKnown, netVars, loopVars
  <2>2. NothingSaid
    <3>1. ASSUME CheckConnecting
          PROVE  /\ Tell("Connected", FdOf(main.conn), None) \in Mail
                 /\ Tell("Connected", FdOf(main.conn), None).type # "NetworkRecv"
      <4>1. main.conn \in Conns
        BY <3>1 DEF CheckConnecting, TypeInv, TypeOK, ThreadsTyped, Idle
      <4> QED
        BY <4>1, FdOfTyped DEF Tell, Mail
    <3>2. UNCHANGED mailbox \/ \E m \in Mail : m.type # "NetworkRecv" /\ mailbox' = Append(mailbox, m)
      BY <1>3, <3>1 DEF CheckConnecting, SetKnown
    <3> QED
      BY <3>2, SameMail, OneMore
  <2>3. \A g \in Fds : Stays(g)
    BY <2>1 DEF Stays, GetConnection
  <2> QED
    BY <2>1, <2>2, <2>3, SameTasks, StaysCalm
<1> QED
  BY <1>1, <1>2, <1>3 DEF Main

LEMMA SenderCalm ==
  ASSUME TypeInv, Sender
  PROVE  Calm
<1>1. UNCHANGED <<mailbox, nodeToFd, fdToNode, gw, peer, connecting, mapConn, mapConnRaw>>
  BY DEF Sender, GetFdByNodeId, HoldConnection, SendQueued, netVars, loopVars, gwVars
<1>2. NoRemovals
  <2>1. CASE SendQueued
    <3>1. sender.conn \in Conns /\ sender.node \in Nodes
      BY <2>1 DEF SendQueued, TypeInv, TypeOK, ThreadsTyped, Idle
    <3>2. CASE Open(sender.conn)
      <4> DEFINE t == Send(FdOf(sender.conn), sender.conn, sender.node)
      <4>1. t \in Task /\ t.op # "remove"
        BY <3>1, <3>2, FdOfTyped DEF Send, Task
      <4>2. tasks' = Append(tasks, t)
        BY <2>1, <3>2 DEF SendQueued
      <4>3. \E u \in Task : u.op # "remove" /\ tasks' = Append(tasks, u)
        BY <4>1, <4>2
      <4> QED
        BY <4>3, OneMoreTask
    <3>3. CASE ~Open(sender.conn)
      BY <2>1, <3>3, SameTasks DEF SendQueued
    <3> QED
      BY <3>2, <3>3
  <2>2. CASE ~SendQueued
    <3>1. UNCHANGED tasks
      BY <2>2 DEF Sender, GetFdByNodeId, HoldConnection, loopVars
    <3> QED
      BY <3>1, SameTasks
  <2> QED
    BY <2>1, <2>2
<1>3. \A g \in Fds : Stays(g)
  BY <1>1 DEF Stays, GetConnection
<1> QED
  BY <1>1, <1>2, <1>3, SameMail, StaysCalm

-----------------------------------------------------------------------------
(* HandleRead: a peer is heard.                                            *)

\* The messages of one HandleRead, in front of the Disconnected.
Heard1(f, c, k) ==
  /\ Messages(f, c)[k].type = "NetworkRecv" /\ Messages(f, c)[k].fd = f
  /\ Messages(f, c)[k].what[1] = inbox[c][k] /\ Messages(f, c)[k].what[2] = peer[c]
  /\ Messages(f, c)[k].what[3] = c

LEMMA MessagesAre ==
  ASSUME TypeInv, NEW f \in Fds, NEW c \in Conns, peer[c] \in Nodes
  PROVE  /\ Messages(f, c) \in Seq(Mail) /\ Len(Messages(f, c)) \in Nat
         /\ Len(Messages(f, c)) <= Len(inbox[c])
         /\ (inbox[c] = <<>> => Messages(f, c) = <<>>)
         /\ \A k \in 1..Len(Messages(f, c)) : Heard1(f, c, k)
<1> DEFINE last == IF Has(c, "fin") \/ Has(c, "rst") THEN 1 ELSE 0
           size == Len(inbox[c]) - last
           word(i) == Tell("NetworkRecv", f, <<inbox[c][i], peer[c], c>>)
<1>1. inbox[c] \in Seq(Input) /\ Len(inbox[c]) \in Nat
  BY DEF TypeInv, TypeOK, NetTyped
<1>2. size \in Nat /\ size <= Len(inbox[c]) /\ (inbox[c] = <<>> => size = 0)
  <2>1. last = 0 \/ (last = 1 /\ inbox[c] # <<>>)
    BY DEF Has
  <2>2. inbox[c] = <<>> <=> Len(inbox[c]) = 0
    BY <1>1, EmptySeq
  <2> HIDE DEF last
  <2> QED
    BY <1>1, <2>1, <2>2
<1>4. Messages(f, c) = [i \in 1..size |-> word(i)]
  BY DEF Messages
<1> HIDE DEF size
<1>3. \A i \in 1..size : word(i) \in Mail
  <2>1. \A i \in 1..size : i \in 1..Len(inbox[c])
    BY <1>1, <1>2
  <2>2. \A i \in 1..Len(inbox[c]) : inbox[c][i] \in Input
    BY <1>1, ElementOfSeq
  <2> QED
    BY <2>1, <2>2 DEF Tell, Mail
<1>5. Messages(f, c) \in [1..size -> Mail]
  BY <1>3, <1>4
<1>6. Messages(f, c) \in Seq(Mail) /\ Len(Messages(f, c)) = size
  BY <1>2, <1>5
<1>7. \A k \in 1..size : Heard1(f, c, k)
  BY <1>4 DEF Heard1, Tell
<1>8. inbox[c] = <<>> => Messages(f, c) = <<>>
  BY <1>2, <1>6, EmptySeq
<1> QED
  BY <1>2, <1>6, <1>7, <1>8

\* How the mailbox grows.
LEMMA ReadGrows ==
  ASSUME TypeInv, NEW f \in Fds, HandleRead(f), NEW c, c = GetConnection(f)
  PROVE  /\ Grows /\ c \in Conns /\ peer[c] \in Nodes
         /\ \A i \in (Size + 1)..Size' :
              \/ i - Size \in 1..Len(Messages(f, c)) /\ mailbox'[i] = Messages(f, c)[i - Size]
              \/ i = Size' /\ Has(c, "fin") /\ mailbox'[i] = Tell("Disconnected", f, None)
         /\ Has(c, "fin") => Size' > Size /\ mailbox'[Size'] = Tell("Disconnected", f, None)
         /\ ~Has(c, "fin") => Size' = Size + Len(Messages(f, c))
<1>1. c \in Conns /\ peer[c] \in Nodes
  BY ConnectionTyped DEF HandleRead
<1> DEFINE news == Messages(f, c)
           middle == mailbox \o news
           end == IF Has(c, "fin") THEN AtEnd(f) ELSE <<>>
<1>2. mailbox \in Seq(Mail) /\ news \in Seq(Mail)
  BY <1>1, MessagesAre DEF TypeInv, TypeOK, GatewayTyped
<1>3. /\ middle \in Seq(Mail) /\ Len(middle) = Len(mailbox) + Len(news)
      /\ Len(mailbox) \in Nat /\ Len(news) \in Nat /\ DOMAIN mailbox = 1..Len(mailbox)
      /\ \A i \in 1..Len(mailbox) : middle[i] = mailbox[i]
      /\ \A i \in 1..Len(news) : middle[Len(mailbox) + i] = news[i]
  <2> HIDE DEF news
  <2> QED
    BY <1>2, Concatenated, LenProperties
<1>4. end \in Seq(Mail) /\ Len(end) = (IF Has(c, "fin") THEN 1 ELSE 0)
      /\ (Has(c, "fin") => end[1] = Tell("Disconnected", f, None))
  <2>1. Tell("Disconnected", f, None) \in Mail
    BY DEF Tell, Mail
  <2>2. /\ AtEnd(f) \in Seq(Mail) /\ Len(AtEnd(f)) = 1
        /\ AtEnd(f)[1] = Tell("Disconnected", f, None)
    BY <2>1 DEF AtEnd
  <2>3. <<>> \in Seq(Mail) /\ Len(<<>>) = 0
    OBVIOUS
  <2>4. CASE Has(c, "fin")
    BY <2>2, <2>4
  <2>5. CASE ~Has(c, "fin")
    BY <2>3, <2>5
  <2> QED
    BY <2>4, <2>5
<1>5. mailbox' = middle \o end
  BY DEF HandleRead
<1>6. /\ Len(mailbox') = Len(middle) + Len(end) /\ DOMAIN mailbox' = 1..(Len(middle) + Len(end))
      /\ Len(middle) \in Nat
      /\ \A i \in 1..Len(middle) : mailbox'[i] = middle[i]
      /\ \A i \in 1..Len(end) : mailbox'[Len(middle) + i] = end[i]
  <2> HIDE DEF middle, end
  <2>0. middle \in Seq(Mail) /\ end \in Seq(Mail)
    BY <1>3, <1>4
  <2>1. /\ Len(middle \o end) = Len(middle) + Len(end) /\ Len(middle) \in Nat
        /\ DOMAIN (middle \o end) = 1..(Len(middle) + Len(end))
        /\ \A i \in 1..Len(middle) : (middle \o end)[i] = middle[i]
        /\ \A i \in 1..Len(end) : (middle \o end)[Len(middle) + i] = end[i]
    BY <2>0, Concatenated
  <2> QED
    BY <1>5, <2>1
<1> HIDE DEF news, middle, end
<1>7. Grows
  <2>1. \A i \in 1..Len(mailbox) : i \in 1..Len(middle)
    BY <1>3
  <2>2. \A i \in 1..Len(mailbox) : mailbox'[i] = mailbox[i]
    BY <1>3, <1>6, <2>1
  <2>3. Len(mailbox') \in Nat /\ Len(mailbox) <= Len(mailbox')
    BY <1>3, <1>4, <1>6
  <2> QED
    BY <1>3, <1>6, <2>2, <2>3 DEF Grows, Size
<1>8. Size = Len(mailbox) /\ Size' = Len(mailbox')
  BY DEF Size
<1>9. ASSUME NEW i \in (Len(mailbox) + 1)..Len(mailbox')
      PROVE  \/ i - Len(mailbox) \in 1..Len(news) /\ mailbox'[i] = news[i - Len(mailbox)]
             \/ i = Len(mailbox') /\ Has(c, "fin") /\ mailbox'[i] = Tell("Disconnected", f, None)
  <2>1. CASE i <= Len(middle)
    <3>1. i \in 1..Len(middle) /\ i - Len(mailbox) \in 1..Len(news)
          /\ Len(mailbox) + (i - Len(mailbox)) = i
      BY <1>3, <1>9, <2>1
    <3>2. middle[i] = news[i - Len(mailbox)]
      BY <1>3, <3>1
    <3> QED
      BY <1>6, <3>1, <3>2
  <2>2. CASE ~(i <= Len(middle))
    <3>1. Has(c, "fin") /\ i = Len(middle) + 1 /\ i = Len(mailbox')
      BY <1>3, <1>4, <1>6, <1>9, <2>2
    <3>2. 1 \in 1..Len(end)
      BY <1>4, <3>1
    <3> QED
      BY <1>4, <1>6, <3>1, <3>2
  <2> QED
    BY <2>1, <2>2
<1>10. Has(c, "fin") => /\ Len(mailbox') > Len(mailbox)
                        /\ mailbox'[Len(mailbox')] = Tell("Disconnected", f, None)
  <2> SUFFICES ASSUME Has(c, "fin")
               PROVE  /\ Len(mailbox') > Len(mailbox)
                      /\ mailbox'[Len(mailbox')] = Tell("Disconnected", f, None)
    OBVIOUS
  <2>1. Len(end) = 1 /\ 1 \in 1..Len(end) /\ Len(mailbox') = Len(middle) + 1
    BY <1>4, <1>6
  <2> QED
    BY <1>3, <1>4, <1>6, <2>1
<1>11. ~Has(c, "fin") => Len(mailbox') = Len(mailbox) + Len(news)
  BY <1>3, <1>4, <1>6
<1> QED
  BY <1>1, <1>7, <1>8, <1>9, <1>10, <1>11 DEF news

\* Who will be mapped is served.
LEMMA OwnersServed ==
  ASSUME Core, mailbox \in Seq(Mail), NEW n \in Nodes, NEW f \in Fds, WillOwn(n, f)
  PROVE  Serves(f, n)
<1>1. (Len(mailbox) + 1) - 1 = Len(mailbox) /\ DOMAIN mailbox = 1..Len(mailbox) /\ Len(mailbox) \in Nat
  BY LenProperties
<1>2. CASE nodeToFd[n] = f /\ \A k \in 1..Len(mailbox) : ~Ends(mailbox[k], f)
  BY <1>1, <1>2 DEF Core, MappedServed, Ends
<1>3. ASSUME NEW i \in 1..Len(mailbox), Greets(mailbox[i], f, n),
             \A k \in (i + 1)..Len(mailbox) : ~Ends(mailbox[k], f)
      PROVE  Serves(f, n)
  <2>1. PICK c \in Conns : GreetsFrom(mailbox[i], f, n, c)
    <3>1. mailbox[i] \in Mail
      BY <1>1
    <3>2. mailbox[i].what[3] \in Conns
      BY <1>3, <3>1 DEF Greets, Says, Mail
    <3> QED
      BY <1>3, <3>2 DEF GreetsFrom
  <2>2. \A k \in DOMAIN mailbox : k > i => ~Lost(mailbox[k], f)
    BY <1>1, <1>3 DEF Ends
  <2> QED
    BY <1>1, <2>1, <2>2 DEF Core, GreetsServed
<1> QED
  BY <1>1, <1>2, <1>3 DEF WillOwn, Owns

\* What a HandleRead leaves as it is, and the removal it asks for.
LEMMA ReadHolds ==
  ASSUME TypeInv, NEW f \in Fds, HandleRead(f)
  PROVE  /\ NothingAsked
         /\ \A g \in Fds : g # f \/ ~Has(GetConnection(f), "fin") => Holds(g)
<1>1. UNCHANGED <<peer, mapConn, mapConnRaw, connecting, gw>>
  BY DEF HandleRead
<1>2. \A g \in Fds : Stays(g)
  BY <1>1 DEF Stays, GetConnection
<1>3. CASE Has(GetConnection(f), "fin")
  <2>1. Remove(f, None) \in Task /\ tasks' = Append(tasks, Remove(f, None))
    BY <1>3 DEF HandleRead, Remove, Task
  <2>2. \A u : Queued(u)' <=> Queued(u) \/ u = Remove(f, None)
    BY <2>1, TaskAppended
  <2>3. NothingAsked
    <3>1. \A g \in Fds, c \in Conns : Remove(g, c) # Remove(f, None)
      BY TransportAssumption, TasksDiffer
    <3> QED
      BY <1>1, <2>2, <3>1 DEF NothingAsked, Removing
  <2>4. ASSUME NEW g \in Fds, g # f PROVE Holds(g)
    <3>1. Queued(Remove(g, None))' => Queued(Remove(g, None))
      BY <2>2, <2>4, TasksDiffer
    <3> QED
      BY <1>2, <2>3, <3>1, StaysHolds
  <2> QED
    BY <1>3, <2>3, <2>4
<1>4. CASE ~Has(GetConnection(f), "fin")
  <2>1. NoRemovals
    <3>1. UNCHANGED tasks
      BY <1>4 DEF HandleRead
    <3> QED
      BY <3>1, SameTasks
  <2>2. NothingAsked
    BY <1>1, <2>1, NotAsked
  <2>3. \A g \in Fds : Queued(Remove(g, None))' => Queued(Remove(g, None))
    BY <2>1 DEF NoRemovals
  <2> QED
    BY <1>2, <2>2, <2>3, StaysHolds
<1> QED
  BY <1>3, <1>4

\* What a HandleRead adds to the mailbox: what its connection sent, and perhaps its end.
LEMMA ReadNews ==
  ASSUME TypeInv, NEW f \in Fds, HandleRead(f), NEW c, c = GetConnection(f)
  PROVE  /\ Grows /\ c \in Conns /\ peer[c] \in Nodes
         /\ \A i \in (Size + 1)..Size' :
              mailbox'[i].type = "NetworkRecv" =>
                /\ mailbox'[i].fd = f /\ mailbox'[i].what[2] = peer[c] /\ mailbox'[i].what[3] = c
                /\ i - Size \in DOMAIN inbox[c] /\ mailbox'[i].what[1] = inbox[c][i - Size]
         /\ Has(c, "fin") => Size' > Size /\ Lost(mailbox'[Size'], f)
<1>1. /\ Grows /\ c \in Conns /\ peer[c] \in Nodes
      /\ \A i \in (Size + 1)..Size' :
           \/ i - Size \in 1..Len(Messages(f, c)) /\ mailbox'[i] = Messages(f, c)[i - Size]
           \/ i = Size' /\ Has(c, "fin") /\ mailbox'[i] = Tell("Disconnected", f, None)
      /\ Has(c, "fin") => Size' > Size /\ mailbox'[Size'] = Tell("Disconnected", f, None)
  BY ReadGrows
<1>2. /\ Messages(f, c) \in Seq(Mail) /\ Len(Messages(f, c)) \in Nat
      /\ Len(Messages(f, c)) <= Len(inbox[c])
      /\ \A k \in 1..Len(Messages(f, c)) : Heard1(f, c, k)
  BY <1>1, MessagesAre
<1>3. Len(inbox[c]) \in Nat /\ DOMAIN inbox[c] = 1..Len(inbox[c])
  BY <1>1 DEF TypeInv, TypeOK, NetTyped
<1>4. ASSUME NEW i \in (Size + 1)..Size', mailbox'[i].type = "NetworkRecv"
      PROVE  /\ mailbox'[i].fd = f /\ mailbox'[i].what[2] = peer[c] /\ mailbox'[i].what[3] = c
             /\ i - Size \in DOMAIN inbox[c] /\ mailbox'[i].what[1] = inbox[c][i - Size]
  <2>1. i - Size \in 1..Len(Messages(f, c)) /\ mailbox'[i] = Messages(f, c)[i - Size]
    BY <1>1, <1>4 DEF Tell
  <2>2. i - Size \in DOMAIN inbox[c]
    BY <1>2, <1>3, <2>1
  <2> QED
    BY <1>2, <2>1, <2>2 DEF Heard1
<1>5. Has(c, "fin") => Size' > Size /\ Lost(mailbox'[Size'], f)
  BY <1>1 DEF Lost, Tell
<1> QED
  BY <1>1, <1>4, <1>5

LEMMA ReadCore ==
  ASSUME TypeInv, GreetsFirst, Silent, Core, NEW f \in Fds, HandleRead(f)
  PROVE  Core'
<1> PICK c : c = GetConnection(f)
  OBVIOUS
<1> PICK p : p = peer[c]
  OBVIOUS
<1>1. /\ Grows /\ c \in Conns /\ p \in Nodes
      /\ \A i \in (Size + 1)..Size' :
           mailbox'[i].type = "NetworkRecv" =>
             /\ mailbox'[i].fd = f /\ mailbox'[i].what[2] = p /\ mailbox'[i].what[3] = c
             /\ i - Size \in DOMAIN inbox[c] /\ mailbox'[i].what[1] = inbox[c][i - Size]
      /\ Has(c, "fin") => Size' > Size /\ Lost(mailbox'[Size'], f)
  BY ReadNews
<1>2. \A g \in Fds : g # f \/ ~Has(c, "fin") => Holds(g)
  BY ReadHolds
<1>3. /\ UNCHANGED <<nodeToFd, fdToNode, peer, mapConn, mapConnRaw, connecting, gw>>
      /\ ~connecting[c] /\ c # None /\ ~Queued(Remove(f, None))
  BY DEF HandleRead, Fires, Queued
<1>4. Matching'
  BY <1>3 DEF Core, Matching
<1>5. \A n \in Nodes : WillOwn(n, f) => n = p
  <2>1. mailbox \in Seq(Mail)
    BY DEF TypeInv, TypeOK, GatewayTyped
  <2> QED
    BY <2>1, OwnersServed DEF Serves
<1>6. NewsFrom(f, p)
  BY <1>1, <1>5 DEF NewsFrom, Says
<1>7. InOrder'
  BY <1>3, <1>6, InOrderGrows DEF Core
\* A Disconnected behind i, or none at all, leaves f out.
<1>8. ASSUME Has(c, "fin") PROVE \E k \in DOMAIN mailbox' : k > Size /\ k = Size' /\ Lost(mailbox'[k], f)
  BY <1>1, <1>8 DEF Grows
<1>9. GreetsServed'
  <2> SUFFICES ASSUME NEW g \in Fds, NEW n \in Nodes, NEW d \in Conns, NEW i \in DOMAIN mailbox',
                      GreetsFrom(mailbox'[i], g, n, d),
                      \A k \in DOMAIN mailbox' : k > i => ~Lost(mailbox'[k], g)
               PROVE  /\ GetConnection(g)' = d /\ Serves(g, n)'
                      /\ \A k \in DOMAIN mailbox' : k < i => ~BreaksFrom(mailbox'[k], g, d)
    BY DEF GreetsServed, GreetsFrom, Greets, Says, Lost, BreaksFrom, Breaks
  <2>1. i \in 1..Size' /\ Size' \in Nat /\ Size \in Nat /\ mailbox'[i].type = "NetworkRecv"
    BY <1>1 DEF Grows, GreetsFrom, Greets, Says
  <2>2. g # f \/ ~Has(c, "fin")
    <3>1. ASSUME Has(c, "fin"), g = f PROVE i = Size'
      BY <1>8, <2>1, <3>1
    <3>2. ASSUME Has(c, "fin") PROVE mailbox'[Size'].type = "Disconnected"
      BY <1>1, <3>2 DEF Lost
    <3> QED
      BY <2>1, <3>1, <3>2
  <2>3. CASE i \in 1..Size
    <3>1. i \in DOMAIN mailbox /\ mailbox'[i] = mailbox[i]
      BY <1>1, <2>3 DEF Grows
    <3>2. \A k \in DOMAIN mailbox : k > i => ~Lost(mailbox[k], g)
      BY <1>1, KeptMail DEF Lost
    <3>3. /\ GetConnection(g) = d /\ Serves(g, n)
          /\ \A k \in DOMAIN mailbox : k < i => ~BreaksFrom(mailbox[k], g, d)
      BY <3>1, <3>2 DEF Core, GreetsServed
    <3>4. Serves(g, n)' /\ GetConnection(g)' = d
      BY <1>2, <2>2, <3>3 DEF Holds
    <3>5. \A k \in DOMAIN mailbox' : k < i => k \in DOMAIN mailbox /\ mailbox'[k] = mailbox[k]
      BY <1>1, <2>3 DEF Grows
    <3> QED
      BY <3>3, <3>4, <3>5
  <2>4. CASE i \in (Size + 1)..Size'
    <3>1. /\ g = f /\ n = p /\ d = c /\ i - Size \in DOMAIN inbox[c]
          /\ inbox[c][i - Size] = "handshake"
      BY <1>1, <2>1, <2>4 DEF GreetsFrom, Greets, Says
    <3>2. i = Size + 1
      BY <1>1, <2>1, <3>1 DEF GreetsFirst
    <3>3. ~Removing(f, c) /\ \A k \in DOMAIN mailbox : ~BreaksFrom(mailbox[k], f, c)
      BY <1>1, <3>1 DEF Silent
    <3>4. Serves(f, p)
      BY <1>3, <3>3 DEF Serves
    <3>5. Serves(f, p)' /\ GetConnection(f)' = c
      BY <1>1, <1>2, <2>2, <3>1, <3>4 DEF Holds
    <3>6. \A k \in DOMAIN mailbox' : k < i => k \in DOMAIN mailbox /\ mailbox'[k] = mailbox[k]
      BY <1>1, <2>1, <3>2 DEF Grows
    <3> QED
      BY <3>1, <3>3, <3>5, <3>6
  <2> QED
    BY <2>1, <2>3, <2>4
<1>10. MappedServed'
  <2> SUFFICES ASSUME NEW g \in Fds, NEW n \in Nodes, nodeToFd'[n] = g,
                      \A k \in DOMAIN mailbox' : ~Lost(mailbox'[k], g)
               PROVE  Serves(g, n)'
    BY DEF MappedServed, Lost
  <2>1. g # f \/ ~Has(c, "fin")
    BY <1>8
  <2>2. \A k \in DOMAIN mailbox : ~Lost(mailbox[k], g)
    BY <1>1, KeptMail DEF Lost
  <2>3. Serves(g, n)
    BY <1>3, <2>2 DEF Core, MappedServed
  <2> QED
    BY <1>2, <2>1, <2>3 DEF Holds
<1> QED
  BY <1>4, <1>7, <1>9, <1>10 DEF Core

-----------------------------------------------------------------------------
(* The gateway takes the first message.                                    *)

LEMMA HeardPops ==
  ASSUME TypeInv, NEW type, Heard(type)
  PROVE  Pops /\ mailbox[1] \in Mail /\ mailbox[1].type = type /\ gw.at = "idle"
<1>1. /\ mailbox \in Seq(Mail) /\ mailbox # <<>> /\ mailbox' = Tail(mailbox) /\ gw = Idle
      /\ Head(mailbox).type = type
  BY DEF Heard, TypeInv, TypeOK, GatewayTyped
<1>2. /\ Size \in Nat \ {0} /\ DOMAIN mailbox = 1..Size /\ Head(mailbox) = mailbox[1]
      /\ mailbox[1] \in Mail
  BY <1>1, HeadTailProperties, LenProperties, EmptySeq DEF Size
<1>3. /\ Tail(mailbox) \in Seq(Mail) /\ Len(Tail(mailbox)) = Size - 1
      /\ \A i \in 1..(Size - 1) : Tail(mailbox)[i] = mailbox[i + 1]
  BY <1>1, HeadTailProperties DEF Size
<1>4. Size' = Size - 1 /\ DOMAIN mailbox' = 1..(Size - 1)
  BY <1>1, <1>3, LenProperties DEF Size
<1> QED
  BY <1>1, <1>2, <1>3, <1>4 DEF Pops, Idle

LEMMA NextMail ==
  ASSUME Pops, NEW i \in DOMAIN mailbox'
  PROVE  mailbox'[i] = mailbox[i + 1] /\ i + 1 \in DOMAIN mailbox /\ i + 1 > 1 /\ i \in Nat
BY DEF Pops

\* What the gateway decides on is said in the message.
Decides ==
  \A f \in Fds, c \in Conns : Removing(f, c)' => Removing(f, c) \/ BreaksFrom(mailbox[1], f, c)

LEMMA PopsHeard ==
  ASSUME Pops, Decides
  PROVE  NoNewBad
<1> SUFFICES ASSUME NEW f \in Fds, NEW c \in Conns, HeardBad(f, c)' PROVE HeardBad(f, c)
  BY DEF NoNewBad
<1>1. CASE Removing(f, c)'
  <2>1. 1 \in DOMAIN mailbox
    BY DEF Pops
  <2> QED
    BY <1>1, <2>1 DEF Decides, HeardBad
<1>2. ASSUME NEW i \in DOMAIN mailbox', BreaksFrom(mailbox'[i], f, c) PROVE HeardBad(f, c)
  BY <1>2, NextMail DEF HeardBad
<1>3. Removing(f, c)' \/ \E i \in DOMAIN mailbox' : BreaksFrom(mailbox'[i], f, c)
  BY DEF HeardBad, BreaksFrom, Breaks
<1> QED
  BY <1>1, <1>2, <1>3

LEMMA PopsCore ==
  ASSUME TypeInv, Core, Pops, Explained, Decides, Matching', NoRemovals,
         UNCHANGED <<peer, mapConn, mapConnRaw, connecting>>
  PROVE  Core'
<1>1. InOrder'
  BY InOrderPops DEF Core
<1>2. ASSUME NEW f \in Fds, NEW n \in Nodes, NEW c \in Conns,
             c = GetConnection(f), Serves(f, n), ~BreaksFrom(mailbox[1], f, c)
      PROVE  Serves(f, n)' /\ GetConnection(f)' = c
  <2>1. /\ c # None /\ peer[c] = n /\ ~connecting[c]
        /\ ~Queued(Remove(f, None)) /\ ~Removing(f, c)
    BY <1>2 DEF Serves
  <2>2. ~Queued(Remove(f, None))' /\ ~Removing(f, c)'
    BY <1>2, <2>1 DEF NoRemovals, Decides
  <2>3. GetConnection(f)' = c
    BY <1>2 DEF GetConnection
  <2> QED
    BY <2>1, <2>2, <2>3 DEF Serves, Removing, Queued
<1>3. GreetsServed'
  <2> SUFFICES ASSUME NEW f \in Fds, NEW n \in Nodes, NEW c \in Conns, NEW i \in DOMAIN mailbox',
                      GreetsFrom(mailbox'[i], f, n, c),
                      \A k \in DOMAIN mailbox' : k > i => ~Lost(mailbox'[k], f)
               PROVE  /\ GetConnection(f)' = c /\ Serves(f, n)'
                      /\ \A k \in DOMAIN mailbox' : k < i => ~BreaksFrom(mailbox'[k], f, c)
    BY DEF GreetsServed, GreetsFrom, Greets, Says, Lost, BreaksFrom, Breaks
  <2>1. mailbox'[i] = mailbox[i + 1] /\ i + 1 \in DOMAIN mailbox /\ i + 1 > 1 /\ i \in Nat
    BY NextMail
  <2>2. ASSUME NEW k \in DOMAIN mailbox, k > i + 1 PROVE ~Lost(mailbox[k], f)
    <3>1. k - 1 \in DOMAIN mailbox' /\ k - 1 > i /\ (k - 1) + 1 = k
      BY <2>1, <2>2 DEF Pops
    <3>2. mailbox'[k - 1] = mailbox[k]
      BY <3>1, NextMail
    <3> QED
      BY <3>1, <3>2
  <2>3. /\ GetConnection(f) = c /\ Serves(f, n)
        /\ \A k \in DOMAIN mailbox : k < i + 1 => ~BreaksFrom(mailbox[k], f, c)
    BY <2>1, <2>2 DEF Core, GreetsServed
  <2>4. ~BreaksFrom(mailbox[1], f, c)
    <3>1. 1 \in DOMAIN mailbox /\ 1 < i + 1
      BY <2>1 DEF Pops
    <3> QED
      BY <2>3, <3>1
  <2>5. ASSUME NEW k \in DOMAIN mailbox', k < i PROVE ~BreaksFrom(mailbox'[k], f, c)
    <3>1. mailbox'[k] = mailbox[k + 1] /\ k + 1 \in DOMAIN mailbox /\ k \in Nat
      BY NextMail
    <3>2. k + 1 < i + 1
      BY <2>1, <2>5, <3>1
    <3> QED
      BY <2>3, <3>1, <3>2
  <2> QED
    BY <1>2, <2>3, <2>4, <2>5
<1>4. MappedServed'
  <2> SUFFICES ASSUME NEW f \in Fds, NEW n \in Nodes, nodeToFd'[n] = f,
                      \A k \in DOMAIN mailbox' : ~Lost(mailbox'[k], f)
               PROVE  Serves(f, n)'
    BY DEF MappedServed, Lost
  <2>1. ASSUME NEW k \in DOMAIN mailbox, k > 1 PROVE ~Lost(mailbox[k], f)
    <3>1. k - 1 \in DOMAIN mailbox' /\ (k - 1) + 1 = k
      BY <2>1 DEF Pops
    <3>2. mailbox'[k - 1] = mailbox[k]
      BY <3>1, NextMail
    <3> QED
      BY <3>1, <3>2
  <2>2. 1 \in DOMAIN mailbox /\ Head(mailbox) = mailbox[1] /\ \A k \in DOMAIN mailbox : k = 1 \/ k > 1
    BY DEF Pops
  <2>3. Serves(f, n) /\ ~Breaks(mailbox[1], f)
    <3>1. CASE nodeToFd[n] = f /\ ~Ends(Head(mailbox), f)
      BY <2>1, <2>2, <3>1 DEF Core, MappedServed, Ends
    <3>2. CASE Greets(Head(mailbox), f, n)
      <4>1. PICK c \in Conns : GreetsFrom(mailbox[1], f, n, c)
        <5>1. mailbox[1] \in Mail
          BY <2>2 DEF TypeInv, TypeOK, GatewayTyped
        <5>2. mailbox[1].what[3] \in Conns
          BY <2>2, <3>2, <5>1 DEF Greets, Says, Mail
        <5> QED
          BY <2>2, <3>2, <5>2 DEF GreetsFrom
      <4>2. Serves(f, n)
        BY <2>1, <2>2, <4>1 DEF Core, GreetsServed
      <4> QED
        BY <4>1, <4>2 DEF GreetsFrom, Greets, Breaks
    <3> QED
      BY <3>1, <3>2 DEF Explained
  <2>4. GetConnection(f) \in Conns
    BY <2>3, ConnectionTyped DEF Serves
  <2> QED
    BY <1>2, <2>3, <2>4 DEF BreaksFrom
<1> QED
  BY <1>1, <1>3, <1>4 DEF Core

\* Three of the gateway's four steps take a message; only garbage makes it decide on a removal.
LEMMA GatewayPops ==
  ASSUME TypeInv, GatewayConnected \/ GatewayHandshake \/ GatewayDisconnected
  PROVE  /\ Pops /\ Decides /\ NoRemovals
         /\ UNCHANGED <<peer, bad, inbox, mapConn, mapConnRaw, connecting, strayed>>
<1>1. UNCHANGED <<peer, bad, inbox, mapConn, mapConnRaw, connecting, strayed>>
  BY DEF GatewayConnected, GatewayHandshake, GatewayDisconnected, netVars, loopVars
<1>2. \/ Heard("Connected") /\ gw' = gw
      \/ Heard("NetworkRecv") /\ gw'.close = None
      \/ Heard("Disconnected") /\ gw'.close = None
      \/ /\ Heard("NetworkRecv") /\ Head(mailbox).what[1] = "garbage"
         /\ gw'.fd = Head(mailbox).fd /\ gw'.close = Head(mailbox).what[3]
  <2>1. CASE GatewayConnected
    BY <2>1 DEF GatewayConnected
  <2>2. CASE GatewayHandshake
    BY <2>2 DEF GatewayHandshake
  <2>3. CASE GatewayDisconnected
    <3>1. /\ gw'.fd = Head(mailbox).fd
          /\ gw'.close = IF Head(mailbox).type = "NetworkRecv" THEN Head(mailbox).what[3] ELSE None
      BY <2>3 DEF GatewayDisconnected
    <3>2. CASE Heard("Disconnected")
      <4>1. Head(mailbox).type # "NetworkRecv"
        BY <3>2 DEF Heard
      <4> QED
        BY <3>1, <3>2, <4>1
    <3>3. CASE Heard("NetworkRecv") /\ Head(mailbox).what[1] = "garbage"
      <4>1. Head(mailbox).type = "NetworkRecv"
        BY <3>3 DEF Heard
      <4> QED
        BY <3>1, <3>3, <4>1
    <3> QED
      BY <2>3, <3>2, <3>3 DEF GatewayDisconnected
  <2> QED
    BY <2>1, <2>2, <2>3
<1>3. Pops /\ mailbox[1] \in Mail /\ gw.at = "idle" /\ Head(mailbox) = mailbox[1]
  BY <1>2, HeardPops DEF Pops
<1>4. NoRemovals
  <2>1. CASE UNCHANGED tasks
    BY <2>1, SameTasks
  <2>2. CASE ~UNCHANGED tasks
    <3>1. GatewayConnected
      BY <2>2 DEF GatewayHandshake, GatewayDisconnected, loopVars
    <3>2. Heard("Connected")
      BY <3>1 DEF GatewayConnected
    <3>3. mailbox[1].type = "Connected"
      BY <3>2, HeardPops
    <3>4. PICK f \in Fds : f = Head(mailbox).fd /\ GetConnection(f) # None
      BY <1>3, <2>2, <3>1, <3>3 DEF GatewayConnected, Mail
    <3>5. tasks' = Append(tasks, Send(f, GetConnection(f), None))
      BY <2>2, <3>1, <3>4 DEF GatewayConnected
    <3>6. Send(f, GetConnection(f), None) \in Task /\ Send(f, GetConnection(f), None).op # "remove"
      BY <3>4, ConnectionTyped DEF Send, Task
    <3> QED
      BY <3>5, <3>6, OneMoreTask
  <2> QED
    BY <2>1, <2>2
<1>5. Decides
  <2> SUFFICES ASSUME NEW f \in Fds, NEW c \in Conns, Removing(f, c)'
               PROVE  Removing(f, c) \/ BreaksFrom(mailbox[1], f, c)
    BY DEF Decides
  <2>1. CASE Queued(Remove(f, c))'
    BY <1>4, <2>1 DEF NoRemovals, Removing
  <2>2. CASE gw'.at = "nodes" /\ gw'.fd = f /\ gw'.close = c
    <3>1. c # None
      BY TransportAssumption
    <3>2. /\ Heard("NetworkRecv") /\ Head(mailbox).what[1] = "garbage"
          /\ gw'.fd = Head(mailbox).fd /\ gw'.close = Head(mailbox).what[3]
      BY <1>2, <1>3, <2>2, <3>1
    <3> QED
      BY <1>3, <2>2, <3>2, HeardPops DEF BreaksFrom, Breaks
  <2>3. Removing(f, c)' <=> (gw'.at = "nodes" /\ gw'.fd = f /\ gw'.close = c) \/ Queued(Remove(f, c))'
    BY DEF Removing
  <2> QED
    BY <2>1, <2>2, <2>3
<1> QED
  BY <1>1, <1>3, <1>4, <1>5

LEMMA ConnectedCore ==
  ASSUME TypeInv, Core, GatewayConnected
  PROVE  Core'
<1>1. /\ Pops /\ Decides /\ NoRemovals /\ UNCHANGED <<peer, mapConn, mapConnRaw, connecting>>
  BY GatewayPops
<1>2. UNCHANGED <<nodeToFd, fdToNode>> /\ Heard("Connected")
  BY DEF GatewayConnected
<1>3. Explained
  <2>1. Head(mailbox).type = "Connected"
    BY <1>2 DEF Heard
  <2> QED
    BY <1>2, <2>1 DEF Explained, Ends, Lost, Breaks
<1>4. Matching'
  BY <1>2 DEF Core, Matching
<1> QED
  BY <1>1, <1>3, <1>4, PopsCore

\* The maps are changed for a number that no other node owns.
LEMMA HandshakeCore ==
  ASSUME TypeInv, Core, GatewayHandshake
  PROVE  Core'
<1>1. /\ Pops /\ Decides /\ NoRemovals /\ UNCHANGED <<peer, mapConn, mapConnRaw, connecting>>
  BY GatewayPops
<1>2. /\ Heard("NetworkRecv") /\ Head(mailbox).what[1] = "handshake"
      /\ mailbox[1] \in Mail /\ mailbox[1].type = "NetworkRecv"
  BY HeardPops DEF GatewayHandshake
<1>3. PICK f \in Fds, n \in Nodes : f = mailbox[1].fd /\ n = mailbox[1].what[2]
  BY <1>2 DEF Mail
<1>4. /\ fdToNode' = [WithoutOld(n, f) EXCEPT ![f] = n]
      /\ nodeToFd' = [nodeToFd EXCEPT ![n] = f]
      /\ Greets(Head(mailbox), f, n)
  BY <1>1, <1>2, <1>3 DEF GatewayHandshake, Pops, Greets, Says
<1>5. /\ nodeToFd \in [Nodes -> Fds \cup {None}] /\ fdToNode \in [Fds -> Nodes \cup {None}]
      /\ None \notin Nodes /\ None \notin Fds
  BY TransportAssumption DEF TypeInv, TypeOK, GatewayTyped
<1>6. WithoutOld(n, f) \in [Fds -> Nodes \cup {None}]
  BY <1>5 DEF WithoutOld
<1>7. \A m \in Nodes : nodeToFd[m] = f => m = n
  <2> SUFFICES ASSUME NEW m \in Nodes, nodeToFd[m] = f PROVE m = n
    OBVIOUS
  <2>1. 1..(1 - 1) = {} /\ 1 \in DOMAIN mailbox
    BY <1>1 DEF Pops
  <2>2. Owns(m, f, 1)
    BY <2>1 DEF Owns
  <2>3. Says(mailbox[1], f, n)
    BY <1>2, <1>3 DEF Says
  <2> QED
    BY <2>1, <2>2, <2>3 DEF Core, InOrder
<1>8. Matching'
  <2>1. ASSUME NEW m \in Nodes, nodeToFd'[m] # None PROVE fdToNode'[nodeToFd'[m]] = m
    <3>1. CASE m = n
      BY <1>4, <1>5, <1>6, <3>1
    <3>2. CASE m # n
      <4>1. nodeToFd'[m] = nodeToFd[m] /\ nodeToFd[m] \in Fds /\ nodeToFd[m] # f
        BY <1>4, <1>5, <1>7, <2>1, <3>2
      <4>2. fdToNode[nodeToFd[m]] = m
        BY <2>1, <4>1 DEF Core, Matching
      <4>3. nodeToFd[n] # nodeToFd[m]
        BY <2>1, <3>2, <4>1, <4>2 DEF Core, Matching
      <4>4. WithoutOld(n, f)[nodeToFd[m]] = m
        BY <1>5, <4>1, <4>2, <4>3 DEF WithoutOld
      <4> QED
        BY <1>4, <1>6, <4>1, <4>4
    <3> QED
      BY <3>1, <3>2
  <2>2. ASSUME NEW g \in Fds, fdToNode'[g] # None PROVE nodeToFd'[fdToNode'[g]] = g
    <3>1. CASE g = f
      BY <1>4, <1>5, <1>6, <3>1
    <3>2. CASE g # f
      <4>1. fdToNode'[g] = WithoutOld(n, f)[g]
        BY <1>4, <1>6, <3>2
      <4>2. fdToNode'[g] = fdToNode[g] /\ nodeToFd[n] # g
        BY <1>5, <2>2, <3>2, <4>1 DEF WithoutOld
      <4>3. fdToNode[g] \in Nodes /\ nodeToFd[fdToNode[g]] = g
        BY <1>5, <2>2, <4>2 DEF Core, Matching
      <4> QED
        BY <1>4, <1>5, <4>2, <4>3
    <3> QED
      BY <3>1, <3>2
  <2> QED
    BY <2>1, <2>2 DEF Matching
<1>9. Explained
  <2> SUFFICES ASSUME NEW m \in Nodes, NEW g \in Fds, nodeToFd'[m] = g
               PROVE  \/ nodeToFd[m] = g /\ ~Ends(Head(mailbox), g)
                      \/ Greets(Head(mailbox), g, m)
    BY DEF Explained
  <2>1. ~Ends(Head(mailbox), g)
    BY <1>4 DEF Greets, Says, Ends, Lost, Breaks
  <2>2. m = n => g = f
    BY <1>4, <1>5
  <2>3. m # n => nodeToFd[m] = g
    BY <1>4, <1>5
  <2> QED
    BY <1>4, <2>1, <2>2, <2>3
<1> QED
  BY <1>1, <1>8, <1>9, PopsCore

LEMMA DisconnectedCore ==
  ASSUME TypeInv, Core, GatewayDisconnected
  PROVE  Core'
<1>1. /\ Pops /\ Decides /\ NoRemovals /\ UNCHANGED <<peer, mapConn, mapConnRaw, connecting>>
  BY GatewayPops
<1>2. /\ mailbox[1] \in Mail
      /\ \/ Heard("Disconnected")
         \/ Heard("NetworkRecv") /\ Head(mailbox).what[1] = "garbage"
  BY HeardPops DEF GatewayDisconnected
<1>3. /\ mailbox[1] = Head(mailbox)
      /\ \/ mailbox[1].type = "Disconnected"
         \/ mailbox[1].type = "NetworkRecv" /\ mailbox[1].what[1] = "garbage"
  BY <1>1, <1>2, HeardPops DEF Pops
<1>4. PICK f \in Fds : f = mailbox[1].fd
  BY <1>2, <1>3 DEF Mail
<1>5. PICK n : n = fdToNode[f]
  OBVIOUS
<1>6. /\ fdToNode' = [fdToNode EXCEPT ![f] = None]
      /\ nodeToFd' = IF Active(n, f) THEN [nodeToFd EXCEPT ![n] = None] ELSE nodeToFd
  BY <1>3, <1>4, <1>5 DEF GatewayDisconnected
<1>7. /\ nodeToFd \in [Nodes -> Fds \cup {None}] /\ fdToNode \in [Fds -> Nodes \cup {None}]
      /\ None \notin Nodes /\ None \notin Fds
  BY TransportAssumption DEF TypeInv, TypeOK, GatewayTyped
<1>8. n # None => n \in Nodes /\ Active(n, f)
  BY <1>5, <1>7 DEF Core, Matching, Active
<1>9. ASSUME NEW m \in Nodes, nodeToFd'[m] # None
      PROVE  nodeToFd[m] = nodeToFd'[m] /\ nodeToFd[m] # f
  <2>1. CASE n = None
    <3>1. nodeToFd' = nodeToFd
      BY <1>6, <2>1 DEF Active
    <3>2. nodeToFd[m] = f => fdToNode[f] = m
      BY <1>7 DEF Core, Matching
    <3> QED
      BY <1>5, <1>7, <2>1, <3>1, <3>2
  <2>2. CASE n # None
    <3>1. nodeToFd' = [nodeToFd EXCEPT ![n] = None] /\ n \in Nodes
      BY <1>6, <1>8, <2>2
    <3>2. m # n /\ nodeToFd'[m] = nodeToFd[m]
      BY <1>7, <1>9, <3>1
    <3>3. nodeToFd[m] = f => fdToNode[f] = m
      BY <1>7 DEF Core, Matching
    <3> QED
      BY <1>5, <3>2, <3>3
  <2> QED
    BY <2>1, <2>2
<1>10. Matching'
  <2>1. ASSUME NEW m \in Nodes, nodeToFd'[m] # None PROVE fdToNode'[nodeToFd'[m]] = m
    <3>1. nodeToFd[m] = nodeToFd'[m] /\ nodeToFd[m] # f /\ nodeToFd[m] \in Fds
      BY <1>7, <1>9, <2>1
    <3>2. fdToNode[nodeToFd[m]] = m
      BY <2>1, <3>1 DEF Core, Matching
    <3> QED
      BY <1>6, <1>7, <3>1, <3>2
  <2>2. ASSUME NEW g \in Fds, fdToNode'[g] # None PROVE nodeToFd'[fdToNode'[g]] = g
    <3>1. g # f /\ fdToNode'[g] = fdToNode[g]
      BY <1>6, <1>7, <2>2
    <3>2. fdToNode[g] \in Nodes /\ nodeToFd[fdToNode[g]] = g
      BY <1>7, <2>2, <3>1 DEF Core, Matching
    <3>3. Active(n, f) => fdToNode[g] # n
      BY <3>1, <3>2 DEF Active
    <3>4. nodeToFd'[fdToNode[g]] = nodeToFd[fdToNode[g]]
      BY <1>6, <1>7, <3>2, <3>3
    <3> QED
      BY <3>1, <3>2, <3>4
  <2> QED
    BY <2>1, <2>2 DEF Matching
<1>11. Explained
  <2> SUFFICES ASSUME NEW m \in Nodes, NEW g \in Fds, nodeToFd'[m] = g
               PROVE  nodeToFd[m] = g /\ ~Ends(Head(mailbox), g)
    BY DEF Explained
  <2>1. nodeToFd[m] = g /\ g # f
    BY <1>7, <1>9
  <2>2. ~Ends(mailbox[1], g)
    BY <1>4, <2>1 DEF Ends, Lost, Breaks
  <2> QED
    BY <1>3, <2>1, <2>2
<1> QED
  BY <1>1, <1>10, <1>11, PopsCore

\* The removal takes the place of the intention.
LEMMA NodesCalm ==
  ASSUME TypeInv, GatewayNodes
  PROVE  Calm
<1>1. /\ UNCHANGED <<peer, mapConn, mapConnRaw, connecting, mailbox, nodeToFd, fdToNode>>
      /\ gw.at = "nodes" /\ gw' = Idle /\ gw'.at # "nodes"
      /\ tasks' = IF gw.close # None THEN Append(tasks, Remove(gw.fd, gw.close)) ELSE tasks
  BY DEF GatewayNodes, netVars, Idle
<1>2. gw.close # None => Remove(gw.fd, gw.close) \in Task
  BY <1>1 DEF TypeInv, TypeOK, GatewayTyped, Idle, Remove, Task
<1>3. \A u : Queued(u)' => Queued(u) \/ (gw.close # None /\ u = Remove(gw.fd, gw.close))
  <2>1. CASE gw.close # None
    BY <1>1, <1>2, <2>1, TaskAppended
  <2>2. CASE gw.close = None
    BY <1>1, <2>2 DEF Queued
  <2> QED
    BY <2>1, <2>2
<1>4. NothingAsked
  <2> SUFFICES ASSUME NEW f \in Fds, NEW c \in Conns, Removing(f, c)' PROVE Removing(f, c)
    BY DEF NothingAsked
  <2>1. Queued(Remove(f, c))'
    BY <1>1 DEF Removing
  <2>2. CASE Queued(Remove(f, c))
    BY <2>2 DEF Removing
  <2>3. CASE Remove(f, c) = Remove(gw.fd, gw.close)
    <3>1. f = gw.fd /\ c = gw.close
      BY <2>3, TasksDiffer
    <3> QED
      BY <1>1, <3>1 DEF Removing
  <2> QED
    BY <1>3, <2>1, <2>2, <2>3
<1>5. ASSUME NEW f \in Fds PROVE Queued(Remove(f, None))' => Queued(Remove(f, None))
  <2>1. Remove(f, None).cause = None /\ Remove(gw.fd, gw.close).cause = gw.close
    BY TasksDiffer
  <2> QED
    BY <1>3, <2>1
<1>6. \A f \in Fds : Stays(f)
  BY <1>1 DEF Stays, GetConnection
<1>7. \A f \in Fds : Holds(f)
  BY <1>4, <1>5, <1>6, StaysHolds
<1> QED
  BY <1>1, <1>4, <1>7, SameMail DEF Calm

-----------------------------------------------------------------------------
(* What a peer says.                                                       *)

GreetsFirstOf(queue, m, b) ==
  \A i \in DOMAIN queue :
    /\ m = "new" /\ b = 0 => FALSE
    /\ queue[i] = "handshake" => i = 1
    /\ queue[i] = "garbage" => b # 0

LEMMA GreetsFirstArrives ==
  ASSUME TypeInv, GreetsFirst, NEW c \in Conns, NEW queue, Arrives(c, queue),
         \A d \in Conns : d # c => mood'[d] = mood[d] /\ bad'[d] = bad[d],
         GreetsFirstOf(queue, mood'[c], bad'[c])
  PROVE  GreetsFirst'
<1>1. inbox'[c] = queue /\ \A d \in Conns : d # c => inbox'[d] = inbox[d]
  BY DEF Arrives, TypeInv, TypeOK, NetTyped
<1> QED
  BY <1>1 DEF GreetsFirst, GreetsFirstOf

\* A step of a peer: a word at the end of the queue, or a reset in its place.
LEMMA PeerSays ==
  ASSUME TypeInv, NEW c \in Conns, PeerGreets(c) \/ PeerEnds(c) \/ PeerBreaks(c)
  PROVE  /\ \A d \in Conns : d # c => mood'[d] = mood[d] /\ bad'[d] = bad[d]
         /\ \/ /\ mood[c] = "new" /\ bad[c] = 0 /\ mood'[c] = "greeted"
               /\ Arrives(c, Append(inbox[c], "handshake"))
            \/ /\ mood'[c] = "closed" /\ bad'[c] = bad[c]
               /\ Arrives(c, Append(inbox[c], "fin"))
            \/ mood'[c] = "reset" /\ bad'[c] = bad[c] /\ Arrives(c, <<"rst">>)
            \/ bad'[c] # 0 /\ Arrives(c, Append(inbox[c], "garbage"))
<1>1. mood \in [Conns -> {"new", "greeted", "closed", "reset"}] /\ bad \in [Conns -> 0..Garbage]
  BY DEF TypeInv, TypeOK, NetTyped
<1>2. CASE PeerGreets(c)
  BY <1>1, <1>2 DEF PeerGreets, Becomes
<1>3. CASE PeerEnds(c)
  BY <1>1, <1>3 DEF PeerEnds, Becomes
<1>4. CASE PeerBreaks(c)
  <2>1. bad'[c] = bad[c] + 1 /\ bad[c] \in Nat
    BY <1>1, <1>4 DEF PeerBreaks
  <2> QED
    BY <1>1, <1>4, <2>1 DEF PeerBreaks
<1> QED
  BY <1>2, <1>3, <1>4

LEMMA WordAdded ==
  ASSUME TypeInv, NEW c \in Conns, NEW word \in Input
  PROVE  /\ inbox[c] \in Seq(Input) /\ Len(inbox[c]) \in Nat /\ DOMAIN inbox[c] = 1..Len(inbox[c])
         /\ DOMAIN Append(inbox[c], word) = 1..(Len(inbox[c]) + 1)
         /\ Append(inbox[c], word)[Len(inbox[c]) + 1] = word
         /\ \A i \in 1..Len(inbox[c]) : Append(inbox[c], word)[i] = inbox[c][i]
<1>1. inbox[c] \in Seq(Input)
  BY DEF TypeInv, TypeOK, NetTyped
<1> QED
  BY <1>1, AppendProperties, LenProperties

LEMMA PeerGreetsFirst ==
  ASSUME TypeInv, GreetsFirst, NEW c \in Conns, PeerGreets(c) \/ PeerEnds(c) \/ PeerBreaks(c)
  PROVE  GreetsFirst'
<1>1. /\ \A d \in Conns : d # c => mood'[d] = mood[d] /\ bad'[d] = bad[d]
      /\ \/ /\ mood[c] = "new" /\ bad[c] = 0 /\ mood'[c] = "greeted"
            /\ Arrives(c, Append(inbox[c], "handshake"))
         \/ /\ mood'[c] = "closed" /\ bad'[c] = bad[c]
            /\ Arrives(c, Append(inbox[c], "fin"))
         \/ mood'[c] = "reset" /\ bad'[c] = bad[c] /\ Arrives(c, <<"rst">>)
         \/ bad'[c] # 0 /\ Arrives(c, Append(inbox[c], "garbage"))
  BY PeerSays
<1>2. /\ "handshake" \in Input /\ "fin" \in Input /\ "garbage" \in Input
      /\ \A i \in DOMAIN inbox[c] : /\ inbox[c][i] = "handshake" => i = 1
                                    /\ inbox[c][i] = "garbage" => bad[c] # 0
  BY DEF Input, GreetsFirst
<1>3. CASE mood[c] = "new" /\ bad[c] = 0 /\ mood'[c] = "greeted"
           /\ Arrives(c, Append(inbox[c], "handshake"))
  <2>1. DOMAIN inbox[c] = {}
    BY <1>3 DEF GreetsFirst
  <2>2. Len(inbox[c]) = 0
    BY <1>2, <2>1, WordAdded
  <2>3. /\ DOMAIN Append(inbox[c], "handshake") = 1..1
        /\ Append(inbox[c], "handshake")[1] = "handshake"
    BY <1>2, <2>2, WordAdded
  <2>4. GreetsFirstOf(Append(inbox[c], "handshake"), mood'[c], bad'[c])
    BY <1>3, <2>3 DEF GreetsFirstOf
  <2> QED
    BY <1>1, <1>3, <2>4, GreetsFirstArrives
<1>4. CASE mood'[c] = "closed" /\ bad'[c] = bad[c] /\ Arrives(c, Append(inbox[c], "fin"))
  <2>1. GreetsFirstOf(Append(inbox[c], "fin"), mood'[c], bad'[c])
    BY <1>2, <1>4, WordAdded DEF GreetsFirstOf
  <2> QED
    BY <1>1, <1>4, <2>1, GreetsFirstArrives
<1>5. CASE mood'[c] = "reset" /\ bad'[c] = bad[c] /\ Arrives(c, <<"rst">>)
  <2>1. GreetsFirstOf(<<"rst">>, mood'[c], bad'[c])
    BY <1>5 DEF GreetsFirstOf
  <2> QED
    BY <1>1, <1>5, <2>1, GreetsFirstArrives
<1>6. CASE bad'[c] # 0 /\ Arrives(c, Append(inbox[c], "garbage"))
  <2>1. GreetsFirstOf(Append(inbox[c], "garbage"), mood'[c], bad'[c])
    BY <1>2, <1>6, WordAdded DEF GreetsFirstOf
  <2> QED
    BY <1>1, <1>6, <2>1, GreetsFirstArrives
<1> QED
  BY <1>1, <1>3, <1>4, <1>5, <1>6

\* Only peers and HandleRead touch what connections hold.
LEMMA WhoTouches ==
  ASSUME Next
  PROVE  \/ Peers
         \/ \E f \in Fds : HandleRead(f)
         \/ UNCHANGED <<inbox, mood, bad>>
<1>1. ASSUME Answers PROVE UNCHANGED <<inbox, mood, bad>>
  BY <1>1 DEF Answers, Answer
<1>2. ASSUME Loop PROVE UNCHANGED <<inbox, mood, bad>> \/ \E f \in Fds : HandleRead(f)
  BY <1>2 DEF Loop, LoopWork, HandleAccept, NoConnection, ConnectSucceeds, ConnectFails,
              RunRemove, RunSend, RunAddEvent, netVars
<1>3. ASSUME Gateway \/ Main \/ Sender PROVE UNCHANGED <<inbox, mood, bad>>
  BY <1>3 DEF Gateway, GatewayConnected, GatewayHandshake, GatewayDisconnected, GatewayNodes, netVars,
              Main, Dial, AddConnectionRaw, CheckConnecting, SetKnown, Sender, GetFdByNodeId,
              HoldConnection, SendQueued
<1> QED
  BY <1>1, <1>2, <1>3 DEF Next

LEMMA ReadEmpties ==
  ASSUME TypeInv, NEW f \in Fds, HandleRead(f)
  PROVE  /\ mood' = mood /\ bad' = bad /\ DOMAIN inbox'[GetConnection(f)] = {}
         /\ \A c \in Conns : inbox'[c] = inbox[c] \/ DOMAIN inbox'[c] = {}
<1>1. mood' = mood /\ bad' = bad /\ inbox' = [inbox EXCEPT ![GetConnection(f)] = <<>>]
  BY DEF HandleRead
<1>2. DOMAIN <<>> = {}
  OBVIOUS
<1>3. GetConnection(f) \in Conns
  BY ConnectionTyped DEF HandleRead
<1> QED
  BY <1>1, <1>2, <1>3 DEF TypeInv, TypeOK, NetTyped

LEMMA NextGreetsFirst ==
  ASSUME TypeInv, GreetsFirst, Next
  PROVE  GreetsFirst'
<1>1. CASE Peers
  BY <1>1, PeerGreetsFirst DEF Peers
<1>2. ASSUME NEW f \in Fds, HandleRead(f) PROVE GreetsFirst'
  BY <1>2, ReadEmpties DEF GreetsFirst
<1>3. CASE UNCHANGED <<inbox, mood, bad>>
  BY <1>3 DEF GreetsFirst
<1> QED
  BY <1>1, <1>2, <1>3, WhoTouches

-----------------------------------------------------------------------------
(* Who has broken the protocol stays silent.                               *)

SilentOf(c) == bad[c] # 0 /\ \A i \in DOMAIN inbox[c] : inbox[c][i] # "handshake"

LEMMA SilentIs == Silent <=> \A f \in Fds, c \in Conns : HeardBad(f, c) => SilentOf(c)
BY DEF Silent, HeardBad, SilentOf

LEMMA SilentIsNext ==
  ASSUME \A f \in Fds, c \in Conns : HeardBad(f, c)' => SilentOf(c)'
  PROVE  Silent'
BY DEF Silent, HeardBad, SilentOf, Removing, BreaksFrom, Breaks

LEMMA PeerSilent ==
  ASSUME TypeInv, NEW c \in Conns, PeerGreets(c) \/ PeerEnds(c) \/ PeerBreaks(c),
         NEW d \in Conns, SilentOf(d)
  PROVE  SilentOf(d)'
<1>1. /\ \A e \in Conns : e # c => mood'[e] = mood[e] /\ bad'[e] = bad[e]
      /\ \/ /\ mood[c] = "new" /\ bad[c] = 0 /\ mood'[c] = "greeted"
            /\ Arrives(c, Append(inbox[c], "handshake"))
         \/ /\ mood'[c] = "closed" /\ bad'[c] = bad[c]
            /\ Arrives(c, Append(inbox[c], "fin"))
         \/ mood'[c] = "reset" /\ bad'[c] = bad[c] /\ Arrives(c, <<"rst">>)
         \/ bad'[c] # 0 /\ Arrives(c, Append(inbox[c], "garbage"))
  BY PeerSays
<1>2. \A queue : Arrives(c, queue) =>
        inbox'[c] = queue /\ \A e \in Conns : e # c => inbox'[e] = inbox[e]
  BY DEF Arrives, TypeInv, TypeOK, NetTyped
<1>3. CASE d # c
  BY <1>1, <1>2, <1>3 DEF SilentOf
<1>4. CASE d = c
  <2>1. "fin" \in Input /\ "garbage" \in Input
    BY DEF Input
  <2>2. bad[c] # 0 /\ \A i \in DOMAIN inbox[c] : inbox[c][i] # "handshake"
    BY <1>4 DEF SilentOf
  <2>3. ASSUME NEW word \in {"fin", "garbage"}, NEW i \in DOMAIN Append(inbox[c], word)
        PROVE  Append(inbox[c], word)[i] # "handshake"
    BY <2>1, <2>2, <2>3, WordAdded
  <2>4. DOMAIN <<"rst">> = {1} /\ <<"rst">>[1] = "rst"
    OBVIOUS
  <2>5. bad'[c] # 0
    BY <1>1, <2>2
  <2>6. \A i \in DOMAIN inbox'[c] : inbox'[c][i] # "handshake"
    BY <1>1, <1>2, <2>2, <2>3, <2>4
  <2> QED
    BY <1>4, <2>5, <2>6 DEF SilentOf
<1> QED
  BY <1>3, <1>4

LEMMA ReadSilent ==
  ASSUME TypeInv, GreetsFirst, Silent, NEW f \in Fds, HandleRead(f)
  PROVE  Silent'
<1> PICK c : c = GetConnection(f)
  OBVIOUS
<1>1. /\ Grows
      /\ \A i \in (Size + 1)..Size' :
           mailbox'[i].type = "NetworkRecv" =>
             /\ mailbox'[i].what[3] = c
             /\ i - Size \in DOMAIN inbox[c] /\ mailbox'[i].what[1] = inbox[c][i - Size]
      /\ c \in Conns
  BY ReadNews
<1>2. /\ mood' = mood /\ bad' = bad /\ DOMAIN inbox'[c] = {}
      /\ \A d \in Conns : inbox'[d] = inbox[d] \/ DOMAIN inbox'[d] = {}
  BY ReadEmpties
<1>3. ASSUME NEW g \in Fds, NEW d \in Conns, HeardBad(g, d)' PROVE SilentOf(d)'
  <2>1. CASE HeardBad(g, d)
    <3>1. SilentOf(d)
      BY <2>1, SilentIs
    <3> QED
      BY <1>2, <3>1 DEF SilentOf
  <2>2. CASE ~HeardBad(g, d)
    <3>1. ~Removing(g, d)'
      BY <2>2, ReadHolds DEF NothingAsked, HeardBad
    <3>2. PICK i \in DOMAIN mailbox' : BreaksFrom(mailbox'[i], g, d)
      BY <1>3, <3>1 DEF HeardBad, BreaksFrom, Breaks
    <3>3. i \in (Size + 1)..Size'
      <4>1. CASE i \in DOMAIN mailbox
        BY <1>1, <2>2, <3>2, <4>1, KeptMail DEF HeardBad
      <4> QED
        BY <1>1, <4>1 DEF Grows
    <3>4. d = c /\ i - Size \in DOMAIN inbox[c] /\ inbox[c][i - Size] = "garbage"
      BY <1>1, <3>2, <3>3 DEF BreaksFrom, Breaks
    <3>5. bad[c] # 0
      BY <1>1, <3>4 DEF GreetsFirst
    <3> QED
      BY <1>2, <3>4, <3>5 DEF SilentOf
  <2> QED
    BY <2>1, <2>2
<1> QED
  BY <1>3, SilentIsNext

\* Every step is calm, or a message of the gateway, or a HandleRead.
LEMMA StepIs ==
  ASSUME TypeInv, NumbersHold, Next
  PROVE  \/ Calm
         \/ GatewayConnected \/ GatewayHandshake \/ GatewayDisconnected
         \/ \E f \in Fds : HandleRead(f)
<1>1. CASE Peers \/ Answers
  BY <1>1, PeersCalm
<1>2. CASE Loop
  BY <1>2, AcceptCalm, ConnectCalm, TasksCalm DEF Loop, LoopWork
<1>3. CASE Gateway
  BY <1>3, NodesCalm DEF Gateway
<1>4. CASE Main
  BY <1>4, MainCalm
<1>5. CASE Sender
  BY <1>5, SenderCalm
<1> QED
  BY <1>1, <1>2, <1>3, <1>4, <1>5 DEF Next

LEMMA NextSilent ==
  ASSUME TypeInv, NumbersHold, GreetsFirst, Silent, Next
  PROVE  Silent'
<1>1. ASSUME NEW f \in Fds, HandleRead(f) PROVE Silent'
  BY <1>1, ReadSilent
<1>2. CASE ~(\E f \in Fds : HandleRead(f))
  <2>1. NoNewBad
    <3>1. CASE Calm
      BY <3>1, CalmHeard DEF Calm
    <3>2. CASE GatewayConnected \/ GatewayHandshake \/ GatewayDisconnected
      BY <3>2, GatewayPops, PopsHeard
    <3> QED
      BY <1>2, <3>1, <3>2, StepIs
  <2>2. \A f \in Fds, c \in Conns : HeardBad(f, c)' => SilentOf(c)
    BY <2>1, SilentIs DEF NoNewBad
  <2>3. ASSUME NEW c \in Conns, SilentOf(c) PROVE SilentOf(c)'
    <3>1. CASE Peers
      BY <2>3, <3>1, PeerSilent DEF Peers
    <3>2. CASE UNCHANGED <<inbox, mood, bad>>
      BY <2>3, <3>2 DEF SilentOf
    <3> QED
      BY <1>2, <3>1, <3>2, WhoTouches
  <2> QED
    BY <2>2, <2>3, SilentIsNext
<1> QED
  BY <1>1, <1>2

-----------------------------------------------------------------------------
(* The invariant.                                                          *)

LEMMA InitMaps == Init => MapsInv
<1> SUFFICES ASSUME Init PROVE MapsInv
  OBVIOUS
<1>1. /\ mailbox = <<>> /\ tasks = <<>> /\ gw.at = "idle" /\ main.at = "idle"
      /\ nodeToFd = [n \in Nodes |-> None] /\ fdToNode = [f \in Fds |-> None]
      /\ inbox = [c \in Conns |-> <<>>]
      /\ \A f \in Fds : mapConnRaw[f] = None /\ GetConnection(f) = None
  BY DEF Init, Idle, GetConnection
<1>2. DOMAIN mailbox = {} /\ (\A c \in Conns : DOMAIN inbox[c] = {}) /\ \A u : ~Queued(u)
  BY <1>1 DEF Queued, Range
<1>3. \A n \in Nodes : nodeToFd[n] \notin Fds
  BY <1>1, TransportAssumption
<1>4. Matching
  BY <1>1 DEF Matching
<1>5. InOrder /\ GreetsServed /\ MappedServed
  BY <1>2, <1>3 DEF InOrder, GreetsServed, MappedServed
<1>6. NumbersHold
  BY <1>1 DEF NumbersHold
<1>7. GreetsFirst
  BY <1>2 DEF GreetsFirst
<1>8. Silent
  BY <1>1, <1>2 DEF Silent, Removing
<1> QED
  BY <1>4, <1>5, <1>6, <1>7, <1>8 DEF MapsInv, Core

\* A removal that has strayed is not undone.
LEMMA StrayedStays ==
  ASSUME Next, strayed
  PROVE  strayed'
BY DEF Next, Peers, PeerGreets, PeerEnds, PeerBreaks, Arrives, Answers, Answer, Loop, LoopWork,
       HandleAccept, NoConnection, ConnectSucceeds, ConnectFails, HandleRead, RunRemove, RunSend,
       RunAddEvent, Gateway, GatewayConnected, GatewayHandshake, GatewayDisconnected, GatewayNodes,
       Main, Dial, AddConnectionRaw, CheckConnecting, SetKnown, Sender, GetFdByNodeId,
       HoldConnection, SendQueued

LEMMA NextCore ==
  ASSUME TypeInv, NumbersHold, GreetsFirst, Silent, strayed \/ Core, Next
  PROVE  strayed' \/ Core'
<1>1. CASE strayed
  BY <1>1, StrayedStays
<1>2. CASE Core
  <2>1. CASE Calm
    BY <1>2, <2>1, CalmCore
  <2>2. CASE GatewayConnected \/ GatewayHandshake \/ GatewayDisconnected
    BY <1>2, <2>2, ConnectedCore, HandshakeCore, DisconnectedCore
  <2>3. ASSUME NEW f \in Fds, HandleRead(f) PROVE Core'
    BY <1>2, <2>3, ReadCore
  <2> QED
    BY <2>1, <2>2, <2>3, StepIs
<1> QED
  BY <1>1, <1>2

LEMMA NextMaps == TypeInv /\ MapsInv /\ [Next]_vars => MapsInv'
<1> SUFFICES ASSUME TypeInv, MapsInv, [Next]_vars PROVE MapsInv'
  OBVIOUS
<1>0. NumbersHold /\ GreetsFirst /\ Silent /\ (strayed \/ Core)
  BY DEF MapsInv
<1>1. CASE Next
  BY <1>0, <1>1, NextCore, NumbersNext, NextGreetsFirst, NextSilent DEF MapsInv
<1>2. CASE UNCHANGED vars
  <2>1. /\ UNCHANGED <<peer, side, mood, bad, inbox, socket, mapConn, mapConnRaw, connecting>>
        /\ UNCHANGED <<tasks, mailbox, gw, nodeToFd, fdToNode, main, strayed>>
    BY <1>2 DEF vars, netVars, loopVars, gwVars, threadVars
  <2>2. Calm
    <3>1. \A f \in Fds : Stays(f)
      BY <2>1 DEF Stays, GetConnection
    <3> QED
      BY <2>1, <3>1, SameMail, SameTasks, StaysCalm
  <2>3. strayed' \/ Core'
    BY <1>0, <2>1, <2>2, CalmCore
  <2>4. NumbersHold'
    <3>1. LoopKeeps
      BY <2>1 DEF LoopKeeps, Queued
    <3> QED
      BY <1>0, <2>1, <3>1, NumbersKept
  <2>5. GreetsFirst'
    BY <1>0, <2>1 DEF GreetsFirst
  <2>6. Silent'
    <3>1. NoNewBad
      BY <2>2, CalmHeard DEF Calm
    <3>2. \A c \in Conns : SilentOf(c) => SilentOf(c)'
      BY <2>1 DEF SilentOf
    <3>3. \A f \in Fds, c \in Conns : HeardBad(f, c)' => SilentOf(c)'
      BY <1>0, <3>1, <3>2, SilentIs DEF NoNewBad
    <3> QED
      BY <3>3, SilentIsNext
  <2> QED
    BY <2>3, <2>4, <2>5, <2>6 DEF MapsInv
<1> QED
  BY <1>1, <1>2

LEMMA MapsAlways == Spec => [](TypeInv /\ MapsInv)
<1>1. Init => TypeInv /\ MapsInv
  BY InitTyped, InitMaps
<1>2. TypeInv /\ MapsInv /\ [Next]_vars => (TypeInv /\ MapsInv)'
  BY NextTyped, NextMaps
<1> QED
  BY <1>1, <1>2, PTL DEF Spec

\* RegisterNodeFd and OnNodeDisconnected keep nodeToFd_ and fdToNode_ inverse to each other,
\* for any number of nodes, descriptors and connections and any amount of garbage, in whatever
\* order handshakes, disconnections and protocol errors come, until a removal the gateway
\* asked for hits another connection than the one that broke the protocol.  (From then on TLC
\* finds a counterexample: README, section 4.)
THEOREM ClusterTransport_MapsAgree == Spec => []MapsAgree
<1>1. MapsInv => MapsAgree
  BY DEF MapsInv, Core, MapsAgree
<1> QED
  BY <1>1, MapsAlways, PTL

\* Until then, too, a node's number in nodeToFd_ leads to a connection with that very node as
\* long as the mailbox holds no Disconnected for it: a number that is used again is never
\* taken for the node that had it before.
THEOREM ClusterTransport_MappedIsServed == Spec => []MappedIsServed
<1>1. TypeInv /\ MapsInv => MappedIsServed
  <2> SUFFICES ASSUME TypeInv, Core, NEW n \in Nodes, NEW f, f = nodeToFd[n], f # None, ~Noticed(f)
               PROVE  Serves(f, n)
    BY DEF MapsInv, MappedIsServed, Serves
  <2>1. f \in Fds
    BY DEF TypeInv, TypeOK, GatewayTyped
  <2>2. \A k \in DOMAIN mailbox : ~Lost(mailbox[k], f)
    BY DEF Noticed, Lost
  <2> QED
    BY <2>1, <2>2 DEF Core, MappedServed
<1> QED
  BY <1>1, MapsAlways, PTL
=============================================================================
