-------------------------- MODULE ClusterTransport --------------------------
(***************************************************************************)
(* The cluster transport of one node: TcpClusterTransport with its gateway *)
(* actor, the EventLoop it runs on, the descriptors of the process, and    *)
(* the nodes on the other side.  Accepted connections are held by mapConn_ *)
(* and close their descriptor when destroyed; Connectors stand in          *)
(* mapConnRaw_ and keep theirs as long as the transport lives, unless      *)
(* connect fails.  Everything between the loop, the gateway and the        *)
(* senders goes by descriptor, and a closed descriptor's number is used    *)
(* again.                                                                  *)
(*                                                                         *)
(* A message of a peer arrives whole (module PacketStream).  A callback of *)
(* the loop is one step: nobody else touches what it reads.  Callbacks and *)
(* tasks are not grouped into rounds of epoll_wait and runPendingTasks:    *)
(* those of different descriptors commute, and for one descriptor the      *)
(* order is that of the code (see Fires).                                  *)
(*                                                                         *)
(* Left out: pendingNodeId_, which only GetNodeIdByFd reads and nobody     *)
(* calls that; fdToActor_, which gives every descriptor here to the        *)
(* gateway; recvBuffers_, empty between two of these whole messages.       *)
(***************************************************************************)
EXTENDS Naturals, Sequences, FiniteSets, Functions

CONSTANTS
  Nodes,       \* the other nodes
  Fds,         \* numbers the kernel gives to sockets: Nat
  Conns,       \* connections of a behaviour: Nat, used in their order
  Dialed,      \* nodes ConnectToNode is called for
  Faults,      \* what peers may do: "fin", "rst", "refuse"
  Garbage,     \* how often Decode may refuse what comes on a connection
  MaxEvents,   \* bound on faults, garbage, ConnectToNode and SendPacket, taken together
  None

ASSUME TransportAssumption ==
  /\ Fds \subseteq Nat /\ Conns \subseteq Nat /\ IsFiniteSet(Conns)
  /\ Dialed \subseteq Nodes
  /\ Faults \subseteq {"fin", "rst", "refuse"} /\ Garbage \in Nat /\ MaxEvents \in Nat
  /\ None \notin Nodes \cup Fds \cup Conns

VARIABLES
  \* the network and the kernel
  peer,                  \* the node at the other end of a connection
  side,                  \* unused, accepted, dialed
  link,                  \* of a dialed one: syn, refused, up
  mood,                  \* what the peer has done: new, greeted, closed, reset
  bad,                   \* how much garbage it has sent
  inbox,                 \* what it sent and was not yet received
  edge,                  \* epoll has something to report
  socket,                \* number -> connection
  watched,               \* number -> connection whose socket epoll watches
  \* the loop
  mapConn, mapConnRaw, connecting,
  tasks,                 \* pendingTasks_ and what runPendingTasks took from it
  \* the gateway actor and the transport
  mailbox, gw,
  nodeToFd, fdToNode, known,
  \* threads
  main,                  \* the thread in ConnectToNode
  sender, calls,         \* a worker in SendPacket; calls of the application
  \* history
  told,                  \* how often Connected was reported
  strayed                \* a removal the gateway asked for hit a later connection

netVars == <<peer, side, link, mood, bad, inbox, edge>>
loopVars == <<watched, mapConn, mapConnRaw, connecting, tasks>>
gwVars == <<mailbox, gw, nodeToFd, fdToNode, known>>
threadVars == <<main, sender, calls, told>>
vars == <<netVars, socket, loopVars, gwVars, threadVars, strayed>>

Idle == [at |-> "idle"]

Init ==
  /\ peer = [c \in Conns |-> None] /\ side = [c \in Conns |-> "unused"]
  /\ link = [c \in Conns |-> "up"]
  /\ mood = [c \in Conns |-> "new"] /\ bad = [c \in Conns |-> 0]
  /\ inbox = [c \in Conns |-> <<>>] /\ edge = [c \in Conns |-> FALSE]
  /\ socket = [f \in Fds |-> None] /\ watched = [f \in Fds |-> None]
  /\ mapConn = [f \in Fds |-> None] /\ mapConnRaw = [f \in Fds |-> None]
  /\ connecting = [c \in Conns |-> FALSE]
  /\ tasks = <<>>
  /\ mailbox = <<>> /\ gw = Idle
  /\ nodeToFd = [n \in Nodes |-> None] /\ fdToNode = [f \in Fds |-> None]
  /\ known = [n \in Nodes |-> "unknown"]
  /\ main = Idle /\ sender = Idle /\ calls = 0
  /\ told = [c \in Conns |-> 0] /\ strayed = FALSE

Next1(c) == side[c] = "unused" /\ \A d \in Conns : d < c => side[d] # "unused"
\* The kernel gives the lowest number that is free.
Free(f) == socket[f] = None /\ \A g \in Fds : g < f => socket[g] # None
Open(c) == \E f \in Fds : socket[f] = c          \* we have not closed it

\* GetConnection: mapConn_ first, then mapConnRaw_.
GetConnection(f) == IF mapConn[f] # None THEN mapConn[f] ELSE mapConnRaw[f]

-----------------------------------------------------------------------------
(* The other nodes and the network.                                        *)

\* The calls so far, and what went wrong on the connections.
Events ==
  calls + Cardinality({c \in Conns : mood[c] \in {"closed", "reset"} \/ link[c] = "refused"})
        + Cardinality({cb \in Conns \X (1..Garbage) : cb[2] <= bad[cb[1]]})
MoreEvents == Events < MaxEvents

Answer(c, how) ==
  /\ side[c] = "dialed" /\ link[c] = "syn"
  /\ link' = [link EXCEPT ![c] = how] /\ edge' = [edge EXCEPT ![c] = TRUE]
  /\ UNCHANGED <<peer, side, mood, bad, inbox, socket, loopVars, gwVars, threadVars, strayed>>

Arrives(c, queue) ==
  /\ side[c] # "unused" /\ link[c] = "up"
  /\ inbox' = [inbox EXCEPT ![c] = queue] /\ edge' = [edge EXCEPT ![c] = TRUE]
  /\ UNCHANGED <<peer, side, link, socket, loopVars, gwVars, threadVars, strayed>>

Becomes(c, m) == mood' = [mood EXCEPT ![c] = m] /\ UNCHANGED bad

\* A node sees the connection established.  Its gateway sends the handshake at Connected and
\* maps the connection, for packets to go out on it, only later, when ours has arrived.
PeerGreets(c) ==
  /\ mood[c] = "new" /\ bad[c] = 0
  /\ Arrives(c, Append(inbox[c], "handshake")) /\ Becomes(c, "greeted")

\* It ends the connection: a FIN follows what it sent; a reset takes its place.
PeerEnds(c) ==
  /\ MoreEvents
  /\ mood[c] \in {"new", "greeted"}
  /\ \/ "fin" \in Faults /\ Arrives(c, Append(inbox[c], "fin")) /\ Becomes(c, "closed")
     \/ "rst" \in Faults /\ Arrives(c, <<"rst">>) /\ Becomes(c, "reset")

\* It sends what Decode refuses: a packet above the limit comes piece by piece, and each can
\* be refused anew (recvBuffers_ was erased).  Before any handshake it is not a node.
PeerBreaks(c) ==
  /\ MoreEvents
  /\ mood[c] \in {"new", "greeted"} /\ bad[c] < Garbage
  /\ Arrives(c, Append(inbox[c], "garbage"))
  /\ bad' = [bad EXCEPT ![c] = @ + 1] /\ UNCHANGED mood

-----------------------------------------------------------------------------
(* The loop: run, one callback or task at a time.                          *)

Tell(type, f, what) == [type |-> type, fd |-> f, what |-> what]
Send(f, c, n) == [op |-> "send", fd |-> f, conn |-> c, node |-> n]
\* cause: None for the loop's own removals; of one the gateway asks for (history) the
\* connection that broke the protocol.
Remove(f, cause) == [op |-> "remove", fd |-> f, cause |-> cause]
AddEvent(f) == [op |-> "add", fd |-> f]

\* HandleAccept for one connection, from n: its AddEvent runs at once.
HandleAccept(n) ==
  \E c \in Conns, f \in Fds :
    /\ Next1(c) /\ Free(f)
    /\ side' = [side EXCEPT ![c] = "accepted"] /\ peer' = [peer EXCEPT ![c] = n]
    /\ socket' = [socket EXCEPT ![f] = c]
    /\ mapConn' = [mapConn EXCEPT ![f] = IF @ = None THEN c ELSE @]
    /\ watched' = [watched EXCEPT ![f] = c]
    /\ mailbox' = Append(mailbox, Tell("Connected", f, None))
    /\ told' = [told EXCEPT ![c] = @ + 1]
    /\ UNCHANGED <<link, mood, bad, inbox, edge, mapConnRaw, connecting, tasks, gw, nodeToFd,
                   fdToNode, known, main, sender, calls, strayed>>

\* The callback of a number.  When a callback queued its removal, that runs before the
\* next epoll_wait, which alone could report the number again.
Fires(f) ==
  /\ watched[f] # None /\ edge[watched[f]] /\ Remove(f, None) \notin Range(tasks)

Seen(f) == edge' = [edge EXCEPT ![watched[f]] = FALSE]

\* The callback finds no connection: the event is gone.
NoConnection(f) ==
  /\ Fires(f) /\ GetConnection(f) = None /\ Seen(f)
  /\ UNCHANGED <<peer, side, link, mood, bad, inbox, socket, watched, mapConn, mapConnRaw,
                 connecting, tasks, gwVars, threadVars, strayed>>

Has(c, m) == inbox[c] # <<>> /\ inbox[c][Len(inbox[c])] = m

\* Connector::HandleWrite while connecting_: EPOLL_CTL_MOD reports again what is there.
ConnectSucceeds(f) ==
  LET c == GetConnection(f)
  IN /\ Fires(f) /\ c # None /\ connecting[c] /\ link[c] = "up" /\ ~Has(c, "rst")
     /\ connecting' = [connecting EXCEPT ![c] = FALSE]
     /\ edge' = [edge EXCEPT ![c] = inbox[c] # <<>>]
     /\ mailbox' = Append(mailbox, Tell("Connected", f, None))
     /\ told' = [told EXCEPT ![c] = @ + 1]
     /\ UNCHANGED <<peer, side, link, mood, bad, inbox, socket, watched, mapConn, mapConnRaw,
                    tasks, gw, nodeToFd, fdToNode, known, main, sender, calls, strayed>>

\* SO_ERROR tells of a refusal, and of a reset that came in the meantime.
ConnectFails(f) ==
  LET c == GetConnection(f)
  IN /\ Fires(f) /\ c # None /\ connecting[c] /\ (link[c] = "refused" \/ Has(c, "rst"))
     /\ connecting' = [connecting EXCEPT ![c] = FALSE]
     /\ mailbox' = Append(mailbox, Tell("Disconnected", f, None))
     /\ tasks' = Append(tasks, Remove(f, None)) /\ Seen(f)
     /\ watched' = [watched EXCEPT ![f] = None] /\ socket' = [socket EXCEPT ![f] = None]
     /\ UNCHANGED <<peer, side, link, mood, bad, inbox, mapConn, mapConnRaw, gw, nodeToFd,
                    fdToNode, known, threadVars, strayed>>

\* One for each thing received before the end of the stream, if that is there: the thing, the
\* node it names, and (history) the connection it came on.
Messages(f, c) ==
  [i \in 1..(Len(inbox[c]) - (IF Has(c, "fin") \/ Has(c, "rst") THEN 1 ELSE 0)) |->
     Tell("NetworkRecv", f, <<inbox[c][i], peer[c], c>>)]

BadAtEnd(f) == <<>>                 \* mutant: the peer's FIN is not reported
AtEnd(f) == <<Tell("Disconnected", f, None)>>

\* HandleRead: all that is there, in a message each.  After a FIN Disconnected and
\* RemoveConnection; a reset is logged.
HandleRead(f) ==
  LET c == GetConnection(f)
      fin == Has(c, "fin")
  IN /\ Fires(f) /\ c # None /\ ~connecting[c]
     /\ inbox' = [inbox EXCEPT ![c] = <<>>]
     /\ mailbox' = mailbox \o Messages(f, c) \o (IF fin THEN AtEnd(f) ELSE <<>>)
     /\ tasks' = IF fin THEN Append(tasks, Remove(f, None)) ELSE tasks
     /\ Seen(f)
     /\ UNCHANGED <<peer, side, link, mood, bad, socket, watched, mapConn, mapConnRaw, connecting,
                    gw, nodeToFd, fdToNode, known, threadVars, strayed>>

Runs(op) == tasks # <<>> /\ Head(tasks).op = op /\ tasks' = Tail(tasks)

\* A Connection is destroyed, and its socket closed, with its last reference.
Held(c) == sender.at = "conn" /\ sender.conn = c

\* The lambda has a number, and removes whatever connection it finds there.
RunRemove ==
  LET f == Head(tasks).fd
  IN /\ Runs("remove")
     /\ watched' = [watched EXCEPT ![f] = None]
     /\ mapConn' = [mapConn EXCEPT ![f] = None] /\ mapConnRaw' = [mapConnRaw EXCEPT ![f] = None]
     /\ socket' = IF mapConn[f] # None /\ ~Held(mapConn[f])
                  THEN [socket EXCEPT ![f] = None] ELSE socket
     /\ strayed' = (strayed \/ (Head(tasks).cause # None
                                 /\ GetConnection(f) \notin {None, Head(tasks).cause}))
     /\ UNCHANGED <<netVars, connecting, gwVars, threadVars>>

\* The send of another thread: it looks its connection up and writes.
RunSend ==
  /\ Runs("send")
  /\ UNCHANGED <<netVars, socket, watched, mapConn, mapConnRaw, connecting, gwVars, threadVars,
                 strayed>>

RunAddEvent ==
  LET f == Head(tasks).fd
      c == socket[f]
  IN /\ Runs("add")
     /\ watched' = [watched EXCEPT ![f] = c]
     /\ edge' = [edge EXCEPT ![c] = link[c] # "syn"]
     /\ UNCHANGED <<peer, side, link, mood, bad, inbox, socket, mapConn, mapConnRaw, connecting,
                    gwVars, threadVars, strayed>>

-----------------------------------------------------------------------------
(* The gateway actor: one message at a time, in sections of one lock each. *)

Heard(type) == gw = Idle /\ mailbox # <<>> /\ Head(mailbox).type = type /\ mailbox' = Tail(mailbox)

\* Connected: sendHandshake.
GatewayConnected ==
  /\ Heard("Connected")
  /\ LET f == Head(mailbox).fd
     IN tasks' = IF f # None /\ GetConnection(f) # None
                 THEN Append(tasks, Send(f, GetConnection(f), None)) ELSE tasks
  /\ UNCHANGED <<netVars, socket, watched, mapConn, mapConnRaw, connecting,
                 gw, nodeToFd, fdToNode, known, threadVars, strayed>>

BadWithoutOld(n, f) == fdToNode     \* mutant: the old fd keeps its entry
\* RegisterNodeFd drops the entry of the fd the node had before.
WithoutOld(n, f) ==
  IF nodeToFd[n] \notin {None, f} THEN [fdToNode EXCEPT ![nodeToFd[n]] = None] ELSE fdToNode

\* A handshake: RegisterNodeFd under connLock_.
GatewayHandshake ==
  /\ Heard("NetworkRecv") /\ Head(mailbox).what[1] = "handshake"
  /\ LET f == Head(mailbox).fd
         n == Head(mailbox).what[2]
     IN /\ fdToNode' = [WithoutOld(n, f) EXCEPT ![f] = n]
        /\ nodeToFd' = [nodeToFd EXCEPT ![n] = f]
        /\ gw' = [at |-> "nodes", fd |-> f, node |-> n, state |-> "alive", close |-> None]
  /\ UNCHANGED <<netVars, socket, loopVars, known, threadVars, strayed>>

Active(n, f) == n # None /\ nodeToFd[n] = f

\* OnNodeDisconnected under connLock_, for Disconnected and for a protocol error.
GatewayDisconnected ==
  /\ \/ Heard("Disconnected")
     \/ Heard("NetworkRecv") /\ Head(mailbox).what[1] = "garbage"
  /\ LET f == Head(mailbox).fd
         n == fdToNode[f]
     IN /\ fdToNode' = [fdToNode EXCEPT ![f] = None]
        /\ nodeToFd' = IF Active(n, f) THEN [nodeToFd EXCEPT ![n] = None] ELSE nodeToFd
        /\ gw' = [at |-> "nodes", fd |-> f, node |-> IF Active(n, f) THEN n ELSE None,
                  state |-> "down",
                  close |-> IF Head(mailbox).type = "NetworkRecv" THEN Head(mailbox).what[3] ELSE None]
  /\ UNCHANGED <<netVars, socket, loopVars, known, threadVars, strayed>>

BadMarked ==                        \* mutant: alive = false is forgotten
  [n \in Nodes |-> IF n = gw.node /\ known[n] # "unknown" THEN "alive" ELSE known[n]]
\* alive of the gateway's node, if ConnectToNode has put it on the list.
Marked ==
  [n \in Nodes |-> IF n = gw.node /\ known[n] # "unknown" THEN gw.state ELSE known[n]]

\* Both go on under nodesLock_; a protocol error ends with RemoveConnection of the number
\* it came on, whoever has that by now.
GatewayNodes ==
  /\ gw.at = "nodes"
  /\ known' = Marked
  /\ tasks' = IF gw.close # None THEN Append(tasks, Remove(gw.fd, gw.close)) ELSE tasks
  /\ gw' = Idle
  /\ UNCHANGED <<netVars, socket, watched, mapConn, mapConnRaw, connecting,
                 mailbox, nodeToFd, fdToNode, threadVars, strayed>>

-----------------------------------------------------------------------------
(* ConnectToNode, by a thread of the application.                          *)

FdOf(c) == IF Open(c) THEN CHOOSE f \in Fds : socket[f] = c ELSE None

\* The socket, connect() in progress, AddEvent.
Dial(n) ==
  \E c \in Conns, f \in Fds :
    /\ main = Idle /\ MoreEvents /\ calls' = calls + 1
    /\ n \in Dialed /\ Next1(c) /\ Free(f)
    /\ side' = [side EXCEPT ![c] = "dialed"] /\ peer' = [peer EXCEPT ![c] = n]
    /\ link' = [link EXCEPT ![c] = "syn"] /\ connecting' = [connecting EXCEPT ![c] = TRUE]
    /\ socket' = [socket EXCEPT ![f] = c]
    /\ tasks' = Append(tasks, AddEvent(f))
    /\ main' = [at |-> "raw", conn |-> c, node |-> n]
    /\ UNCHANGED <<mood, bad, inbox, edge, watched, mapConn, mapConnRaw, gwVars, sender, told,
                   strayed>>

AddConnectionRaw ==
  /\ main.at = "raw" /\ main' = [main EXCEPT !.at = "check"]
  /\ mapConnRaw' = [mapConnRaw EXCEPT ![FdOf(main.conn)] = IF @ = None THEN main.conn ELSE @]
  /\ UNCHANGED <<netVars, socket, watched, mapConn, connecting, tasks, gwVars, sender, calls,
                 told, strayed>>

\* "Connected at once", says the code when connecting_ is not set (any more).
CheckConnecting ==
  LET c == main.conn
  IN /\ main.at = "check" /\ main' = [main EXCEPT !.at = "known"]
     /\ IF connecting[c] THEN UNCHANGED <<mailbox, told>>
        ELSE /\ mailbox' = Append(mailbox, Tell("Connected", FdOf(c), None))
             /\ told' = [told EXCEPT ![c] = @ + 1]
     /\ UNCHANGED <<netVars, socket, loopVars, gw, nodeToFd, fdToNode, known, sender, calls,
                    strayed>>

\* known is the alive of the first entry with this id.  Dialing a node again appends another
\* entry that nobody changes: both updates stop at the first they find.
SetKnown ==
  /\ main.at = "known" /\ main' = Idle
  /\ known' = [known EXCEPT ![main.node] = IF @ = "unknown" THEN "down" ELSE @]
  /\ UNCHANGED <<netVars, socket, loopVars, mailbox, gw, nodeToFd, fdToNode, sender, calls,
                 told, strayed>>

-----------------------------------------------------------------------------
(* SendPacket, by a worker.                                                *)

GetFdByNodeId(n) ==
  /\ sender = Idle /\ MoreEvents /\ calls' = calls + 1
  /\ nodeToFd[n] # None
  /\ sender' = [at |-> "fd", node |-> n, fd |-> nodeToFd[n]]
  /\ UNCHANGED <<netVars, socket, loopVars, gwVars, main, told, strayed>>

HoldConnection ==
  /\ sender.at = "fd"
  /\ LET c == GetConnection(sender.fd)
     IN sender' = IF c = None THEN Idle ELSE [at |-> "conn", node |-> sender.node, conn |-> c]
  /\ UNCHANGED <<netVars, socket, loopVars, gwVars, main, calls, told, strayed>>

\* Send queues the bytes for the number of its connection; the reference is given back.
SendQueued ==
  LET c == sender.conn
  IN /\ sender.at = "conn" /\ sender' = Idle
     /\ tasks' = IF Open(c) THEN Append(tasks, Send(FdOf(c), c, sender.node)) ELSE tasks
     /\ socket' = IF side[c] = "accepted" /\ c \notin Range(mapConn)
                  THEN [f \in Fds |-> IF socket[f] = c THEN None ELSE socket[f]] ELSE socket
     /\ UNCHANGED <<netVars, watched, mapConn, mapConnRaw, connecting, gwVars, main, calls, told,
                    strayed>>

-----------------------------------------------------------------------------
Peers == \E c \in Conns : PeerGreets(c) \/ PeerEnds(c) \/ PeerBreaks(c)
Answers == \E c \in Conns : Answer(c, "up") \/ ("refuse" \in Faults /\ MoreEvents /\ Answer(c, "refused"))
LoopWork ==
  \/ RunRemove \/ RunSend \/ RunAddEvent
  \/ \E f \in Fds : NoConnection(f) \/ ConnectSucceeds(f) \/ ConnectFails(f) \/ HandleRead(f)
Loop == LoopWork \/ \E n \in Nodes : HandleAccept(n)
Gateway ==
  GatewayConnected \/ GatewayHandshake \/ GatewayDisconnected \/ GatewayNodes
Main == (\E n \in Nodes : Dial(n)) \/ AddConnectionRaw \/ CheckConnecting \/ SetKnown
Sender == (\E n \in Nodes : GetFdByNodeId(n)) \/ HoldConnection \/ SendQueued

Next == Peers \/ Answers \/ Loop \/ Gateway \/ Main \/ Sender
Spec == Init /\ [][Next]_vars

\* The threads run and connect() gets an answer; what peers do and what is dialed or sent is
\* their choice.
FairSpec ==
  /\ Spec /\ WF_vars(Answers) /\ WF_vars(LoopWork) /\ WF_vars(Gateway)
  /\ WF_vars(AddConnectionRaw \/ CheckConnecting \/ SetKnown)
  /\ WF_vars(HoldConnection \/ SendQueued)

-----------------------------------------------------------------------------
Input == {"handshake", "garbage", "fin", "rst"}

Mail ==
  [type : {"Connected"}, fd : Fds \cup {None}, what : {None}]
  \cup [type : {"Disconnected"}, fd : Fds, what : {None}]
  \cup [type : {"NetworkRecv"}, fd : Fds, what : Input \X Nodes \X Conns]

Task ==
  [op : {"send"}, fd : Fds, conn : Conns, node : Nodes \cup {None}]
  \cup [op : {"remove"}, fd : Fds, cause : Conns \cup {None}] \cup [op : {"add"}, fd : Fds]

NetTyped ==
  /\ peer \in [Conns -> Nodes \cup {None}] /\ side \in [Conns -> {"unused", "accepted", "dialed"}]
  /\ link \in [Conns -> {"syn", "refused", "up"}]
  /\ mood \in [Conns -> {"new", "greeted", "closed", "reset"}] /\ bad \in [Conns -> 0..Garbage]
  /\ inbox \in [Conns -> Seq(Input)] /\ edge \in [Conns -> BOOLEAN]

LoopTyped ==
  /\ socket \in [Fds -> Conns \cup {None}] /\ watched \in [Fds -> Conns \cup {None}]
  /\ mapConn \in [Fds -> Conns \cup {None}] /\ mapConnRaw \in [Fds -> Conns \cup {None}]
  /\ connecting \in [Conns -> BOOLEAN] /\ tasks \in Seq(Task)

GatewayTyped ==
  /\ mailbox \in Seq(Mail)
  /\ gw \in {Idle} \cup [at : {"nodes"}, fd : Fds, node : Nodes \cup {None},
                         state : {"alive", "down"}, close : Conns \cup {None}]
  /\ nodeToFd \in [Nodes -> Fds \cup {None}] /\ fdToNode \in [Fds -> Nodes \cup {None}]
  /\ known \in [Nodes -> {"unknown", "down", "alive"}]

ThreadsTyped ==
  /\ main \in {Idle} \cup [at : {"raw", "check", "known"}, conn : Conns, node : Nodes]
  /\ sender \in {Idle} \cup [at : {"fd"}, node : Nodes, fd : Fds]
               \cup [at : {"conn"}, node : Nodes, conn : Conns]
  /\ calls \in Nat /\ told \in [Conns -> Nat] /\ strayed \in BOOLEAN

TypeOK == NetTyped /\ LoopTyped /\ GatewayTyped /\ ThreadsTyped

Matching ==
  /\ \A n \in Nodes : nodeToFd[n] # None => fdToNode[nodeToFd[n]] = n
  /\ \A f \in Fds : fdToNode[f] # None => nodeToFd[fdToNode[f]] = f

\* nodeToFd_ and fdToNode_ are inverse to each other, whatever the order of handshakes,
\* protocol errors and disconnections on several connections of a node, as long as no removal
\* the gateway asked for has strayed (README, section 4, item 9).
MapsAgree == strayed \/ Matching

Noticed(f) == \E i \in DOMAIN mailbox : mailbox[i].type = "Disconnected" /\ mailbox[i].fd = f

\* A number in the maps stands for a connection the loop serves, and with that very node,
\* or the gateway has still to read that it is gone: numbers are used again, but news of
\* the old connection comes before news of the new one.  As long as no removal has strayed.
MappedIsServed ==
  strayed
  \/ \A n \in Nodes :
       LET f == nodeToFd[n]
       IN f # None => Noticed(f) \/ (GetConnection(f) # None /\ peer[GetConnection(f)] = n)

\* Outside the gateway's sections a node called alive can be sent to.
AliveIsMapped == gw = Idle => \A n \in Nodes : known[n] = "alive" => nodeToFd[n] # None

\* No node stays mapped to a connection that is gone, or that the node has closed: the
\* loop notices the FIN, and the gateway is told; unless a removal strays.
ClosedIsForgotten ==
  []<>(strayed \/ \A n \in Nodes :
        nodeToFd[n] # None =>
          \E c \in Conns : GetConnection(nodeToFd[n]) = c /\ peer[c] = n /\ mood[c] # "closed")

-----------------------------------------------------------------------------
(* What the code does not keep.  The comments say where it is expected;    *)
(* the README tells which constants show each of them fail.                *)

\* The removal the gateway asks for destroys the connection that broke the protocol.
RemovalsHit == ~strayed

\* A packet for a node is written only on connections with that node.
PacketsReachTheirNode ==
  tasks # <<>> /\ Head(tasks).op = "send" /\ Head(tasks).node # None
    => LET c == GetConnection(Head(tasks).fd) IN c # None => peer[c] = Head(tasks).node

\* Every connect() that is answered is reported to the gateway, as it ended.
DialIsReported ==
  \A c \in Conns :
    (connecting[c] /\ link[c] # "syn") ~> ~connecting[c]

\* Connected is reported once for a connection.
ConnectedOnce == \A c \in Conns : told[c] <= 1

\* Quiet: the gateway has nothing to do and the loop has reported all there is.
Quiet ==
  /\ gw = Idle /\ mailbox = <<>> /\ tasks = <<>> /\ main = Idle
  /\ \A c \in Conns : inbox[c] = <<>>

\* A node that has shaken hands on a connection which is still served can be sent to.
ConnectedIsReachable ==
  Quiet => \A c \in Conns :
             mood[c] = "greeted" /\ c \in Range(mapConn) \cup Range(mapConnRaw) /\ ~connecting[c]
               => nodeToFd[peer[c]] # None
=============================================================================
