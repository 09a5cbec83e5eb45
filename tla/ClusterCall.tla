----------------------------- MODULE ClusterCall ------------------------------
(***************************************************************************)
(* Calls between actors of different nodes: ClusterCall, calls through a   *)
(* local ClusterProxy, RespondRemote, and their way through SendToRemote,  *)
(* the transports and the receiving gateway to an actor that is found by   *)
(* name.  A request names its caller by node, name and session; nothing    *)
(* else ties the answer to the call.                                       *)
(*                                                                         *)
(* The network loses packets, one that is lost being never received, and   *)
(* reorders them: ClusterTransport shows how a packet is lost with its     *)
(* connection and how the connection with a node changes.                  *)
(* The actors are those of CoroutineCall; a call with its timer, a resume  *)
(* with its await_resume and the firing of a timer are one step each here. *)
(***************************************************************************)
EXTENDS Naturals, Sequences

CONSTANTS
  Nodes, Actors,
  Home,         \* the node of each actor
  Names,
  AtStart,      \* the names a node registers when it starts
  Moving,       \* those that change hands later
  Callable,     \* the actors that are called by name, by node and name
  None,         \* no node, no name, no actor
  Transports,   \* how many transports_ a node has
  MaxRequests,  \* bound on messages from outside
  MaxCalls,     \* bound on calls and sleeps
  MaxReplies,   \* bound on RespondRemote
  MaxNamings,   \* bound on RegisterName and UnregisterName after the start
  MaxRestarts   \* bound on restarts of a node

ASSUME ClusterCallAssumption ==
  /\ Home \in [Actors -> Nodes]
  /\ None \notin Nodes \cup Names \cup Actors
  /\ AtStart \in [Actors -> Names \cup {None}]
  /\ Moving \subseteq Names /\ Callable \subseteq Nodes \X Names
  /\ \A a, b \in Actors : Home[a] = Home[b] /\ AtStart[a] = AtStart[b] /\ a # b
                            => AtStart[a] = None
  /\ Transports \in Nat \ {0}
  /\ MaxRequests \in Nat /\ MaxCalls \in Nat /\ MaxReplies \in Nat
  /\ MaxNamings \in Nat /\ MaxRestarts \in Nat

Calls == 1..MaxCalls
Sessions == 1..MaxCalls

\* node, name: sourceNodeId and sourceActorName, empty (None) in a message of the own node.
\* call is history: the call a request or an answer belongs to, 0 for none.
Msgs == [session : {0} \cup Sessions, isResponse : BOOLEAN, ok : BOOLEAN,
         node : Nodes \cup {None}, name : Names \cup {None}, call : {0} \cup Calls]
NoMsg == [session |-> 0, isResponse |-> FALSE, ok |-> TRUE, node |-> None, name |-> None,
          call |-> 0]
\* via: the transport that took it; nr tells packets that are equal otherwise apart.
Packets == [target : Nodes, to : Names \cup {None}, node : Nodes, name : Names \cup {None},
            session : {0} \cup Sessions, isResponse : BOOLEAN, call : {0} \cup Calls,
            nr : Nat, via : 1..Transports]
Waits == [session : Sessions, call : Calls, kind : {"call", "sleep"}, timed : BOOLEAN,
          request : Msgs]
Timers == [session : Sessions, call : Calls, ok : BOOLEAN]
Forwards == [from : Actors, ref : Nodes \X Names, session : Sessions, call : Calls]

VARIABLES
  nameToActor, actorToName,   \* of every node
  mailbox,
  body,         \* the actors in a coroutine
  request,      \* the message whose coroutine runs
  nextSession,  \* nextSessionId_
  waitMap,      \* with the suspended coroutine of each session
  timer,        \* the timers of an actor that have not fired
  atProxy,      \* messages in the mailboxes of ClusterProxy actors
  wire,         \* the packets on their way
  asked,        \* history: who made a call, None when its process is gone, and its session
  handled,      \* history: how often the request of a call was taken up
  requests, calls, replies, namings, restarts

nameVars  == <<nameToActor, actorToName>>
runVars   == <<body, request, nextSession, waitMap>>
netVars   == <<atProxy, wire>>
history   == <<asked, handled>>
budgets   == <<requests, calls, replies, namings, restarts>>
vars == <<nameVars, mailbox, runVars, timer, netVars, history, budgets>>

NamedAtStart(n, name) ==
  IF \E a \in Actors : Home[a] = n /\ AtStart[a] = name
    THEN CHOOSE a \in Actors : Home[a] = n /\ AtStart[a] = name ELSE None

Init ==
  /\ nameToActor = [n \in Nodes |-> [name \in Names |-> NamedAtStart(n, name)]]
  /\ actorToName = AtStart
  /\ mailbox = [a \in Actors |-> <<>>]
  /\ body = {} /\ request = [a \in Actors |-> NoMsg]
  /\ nextSession = [a \in Actors |-> 1] /\ waitMap = [a \in Actors |-> {}]
  /\ timer = [a \in Actors |-> {}]
  /\ atProxy = {} /\ wire = {}
  /\ asked = [c \in Calls |-> [by |-> None, session |-> 0]] /\ handled = [c \in Calls |-> 0]
  /\ requests = 0 /\ calls = 0 /\ replies = 0 /\ namings = 0 /\ restarts = 0

Deliver(a, m) == mailbox' = [mailbox EXCEPT ![a] = Append(@, m)]

-----------------------------------------------------------------------------
(* From an actor to the network.                                           *)

\* What SendToRemote makes of a message, when transport t is the first that has a connection
\* to the node; 0: none has.
BadCopies(p, t) ==               \* mutant: it goes on with the other transports
  IF t = 0 THEN {} ELSE {[p EXCEPT !.via = v] : v \in t..Transports}
Copies(p, t) == IF t = 0 THEN {} ELSE {[p EXCEPT !.via = t]}

SendToRemote(p) == \E t \in 0..Transports : wire' = wire \cup Copies(p, t)

\* The packet of actor a, with its name for the way back.
Packet(a, node, name, session, isResponse, call, nr) ==
  [target |-> node, to |-> name, node |-> Home[a], name |-> actorToName[a],
   session |-> session, isResponse |-> isResponse, call |-> call, nr |-> nr, via |-> 1]

\* ClusterProxy::OnCoroutineMessage: a message is forwarded with the name its sender
\* has by now, on the proxy's own transport, if that has a connection.
Forward(f) ==
  /\ f \in atProxy
  /\ atProxy' = atProxy \ {f}
  /\ \E p \in {Packet(f.from, f.ref[1], f.ref[2], f.session, FALSE, f.call, 0)} :
       wire' \in {wire, wire \cup {p}}
  /\ UNCHANGED <<nameVars, mailbox, runVars, timer, history, budgets>>

\* handleDecodedPacket and ClusterReceiver: the actor that has the name now gets the message.
Receive(p) ==
  /\ p \in wire
  /\ wire' = wire \ {p}
  /\ IF p.to # None /\ nameToActor[p.target][p.to] # None
       THEN Deliver(nameToActor[p.target][p.to],
                    [session |-> p.session, isResponse |-> p.isResponse, ok |-> TRUE,
                     node |-> p.node, name |-> p.name, call |-> p.call])
       ELSE UNCHANGED mailbox
  /\ UNCHANGED <<nameVars, runVars, timer, atProxy, history, budgets>>

-----------------------------------------------------------------------------
(* OnMessage.                                                              *)

IsAnswer(m) == m.isResponse /\ m.session > 0
Handles(a) == a \notin body /\ mailbox[a] # <<>>
Taken(a) == mailbox' = [mailbox EXCEPT ![a] = Tail(@)]

StartCoroutine(a) ==
  /\ Handles(a) /\ ~IsAnswer(Head(mailbox[a]))
  /\ body' = body \cup {a} /\ Taken(a)
  /\ LET m == Head(mailbox[a]) IN
     /\ request' = [request EXCEPT ![a] = m]
     /\ handled' = IF m.call \in Calls THEN [handled EXCEPT ![m.call] = @ + 1] ELSE handled
  /\ UNCHANGED <<nameVars, nextSession, waitMap, timer, netVars, asked, budgets>>

\* ResumeWaiting, and await_resume: an answer without an error cancels the timer of a call.
ResumeWaiting(a) ==
  /\ Handles(a) /\ Taken(a) /\ body' = body \cup {a}
  /\ LET m == Head(mailbox[a]) IN
     \E w \in waitMap[a] :
       /\ IsAnswer(m) /\ w.session = m.session
       /\ waitMap' = [waitMap EXCEPT ![a] = @ \ {w}]
       /\ request' = [request EXCEPT ![a] = w.request]
       /\ timer' = IF w.kind = "call" /\ m.ok
                   THEN [timer EXCEPT ![a] = {t \in @ : t.session # w.session}] ELSE timer
  /\ UNCHANGED <<nameVars, nextSession, netVars, history, budgets>>

\* A late or orphan response.
DropResponse(a) ==
  /\ Handles(a) /\ Taken(a)
  /\ LET m == Head(mailbox[a]) IN IsAnswer(m) /\ \A w \in waitMap[a] : w.session # m.session
  /\ UNCHANGED <<nameVars, runVars, timer, netVars, history, budgets>>

-----------------------------------------------------------------------------
(* What a coroutine may do.                                                *)

AllocSession(s) == s + 1      \* nextSessionId_++

BadNeedsTimer(timed, a) == timed /\ actorToName[a] # None  \* mutant: with a name only
NeedsTimer(timed, a) == timed       \* timeoutMs > 0

\* await_suspend: AllocSession, StoreWaiting, SetTimeout; the coroutine is suspended.
Suspend(a, kind, timed) ==
  LET s == nextSession[a]  c == calls + 1
  IN /\ a \in body /\ calls < MaxCalls
     /\ calls' = c
     /\ nextSession' = [nextSession EXCEPT ![a] = AllocSession(s)]
     /\ waitMap' = [waitMap EXCEPT ![a] = @ \cup
          {[session |-> s, call |-> c, kind |-> kind, timed |-> timed,
            request |-> request[a]]}]
     /\ timer' = IF NeedsTimer(timed, a)
                 THEN [timer EXCEPT ![a] = @ \cup
                         {[session |-> s, call |-> c, ok |-> kind = "sleep"]}]
                 ELSE timer
     /\ asked' = [asked EXCEPT ![c] = [by |-> a, session |-> s]]
     /\ body' = body \ {a} /\ request' = [request EXCEPT ![a] = NoMsg]
     /\ UNCHANGED <<nameVars, mailbox, handled, requests, replies, namings, restarts>>

\* co_await ClusterCall.  A node has no connection with itself.
ClusterCall(a, ref, timed) ==
  /\ ref[1] # Home[a] /\ Suspend(a, "call", timed)
  /\ SendToRemote(Packet(a, ref[1], ref[2], nextSession[a], FALSE, calls + 1, 0))
  /\ UNCHANGED atProxy

\* co_await Call of a ClusterProxy.
ProxyCall(a, ref, timed) ==
  /\ ref[1] # Home[a] /\ Suspend(a, "call", timed)
  /\ atProxy' = atProxy \cup
       {[from |-> a, ref |-> ref, session |-> nextSession[a], call |-> calls + 1]}
  /\ UNCHANGED wire

Sleep(a) == Suspend(a, "sleep", TRUE) /\ UNCHANGED netVars

BadReplySession(a) == nextSession[a]      \* mutant: a session of the answering actor
ReplySession(a) == request[a].session

\* RespondRemote, any number of times, to a message of another node.
RespondRemote(a) ==
  /\ a \in body /\ replies < MaxReplies /\ request[a].node # None
  /\ replies' = replies + 1
  /\ SendToRemote(Packet(a, request[a].node, request[a].name, ReplySession(a), TRUE,
                         request[a].call, replies + 1))
  /\ UNCHANGED <<nameVars, mailbox, runVars, timer, atProxy, history, requests, calls,
                 namings, restarts>>

Finish(a) ==
  /\ a \in body
  /\ body' = body \ {a} /\ request' = [request EXCEPT ![a] = NoMsg]
  /\ UNCHANGED <<nameVars, mailbox, nextSession, waitMap, timer, netVars, history, budgets>>

-----------------------------------------------------------------------------
(* The timer thread, other senders, names, and the end of a process.       *)

\* The timeout of a call carries an error, the wakeup of a sleep does not.
Timeout(a) ==
  /\ \E t \in timer[a] :
       /\ timer' = [timer EXCEPT ![a] = @ \ {t}]
       /\ Deliver(a, [NoMsg EXCEPT !.session = t.session, !.isResponse = TRUE, !.ok = t.ok,
                                   !.call = t.call])
  /\ UNCHANGED <<nameVars, runVars, netVars, history, budgets>>

ExternalSend(a) ==
  /\ requests < MaxRequests
  /\ requests' = requests + 1
  /\ Deliver(a, NoMsg)
  /\ UNCHANGED <<nameVars, runVars, timer, netVars, history, calls, replies, namings,
                 restarts>>

\* A name may be taken over; the reverse entry of the former holder goes.
RegisterName(name, a) ==
  LET n == Home[a]  old == nameToActor[n][name]
  IN /\ namings < MaxNamings
     /\ namings' = namings + 1
     /\ nameToActor' = [nameToActor EXCEPT ![n][name] = a]
     /\ actorToName' = [b \in Actors |-> IF b = a THEN name
                                         ELSE IF b = old THEN None ELSE actorToName[b]]
     /\ UNCHANGED <<mailbox, runVars, timer, netVars, history, requests, calls, replies,
                    restarts>>

UnregisterName(n, name) ==
  LET old == nameToActor[n][name]
  IN /\ namings < MaxNamings /\ old # None
     /\ namings' = namings + 1
     /\ nameToActor' = [nameToActor EXCEPT ![n][name] = None]
     /\ actorToName' = [actorToName EXCEPT ![old] = None]
     /\ UNCHANGED <<mailbox, runVars, timer, netVars, history, requests, calls, replies,
                    restarts>>

\* The process ends and starts again.  What was on its way to it is lost, what it sent is not.
Restart(n) ==
  LET Fresh(f, x) == [a \in Actors |-> IF Home[a] = n THEN x ELSE f[a]]
  IN /\ restarts < MaxRestarts
     /\ restarts' = restarts + 1
     /\ nameToActor' = [nameToActor EXCEPT ![n] = [name \in Names |-> NamedAtStart(n, name)]]
     /\ actorToName' = [a \in Actors |-> IF Home[a] = n THEN AtStart[a] ELSE actorToName[a]]
     /\ mailbox' = Fresh(mailbox, <<>>)
     /\ body' = {a \in body : Home[a] # n} /\ request' = Fresh(request, NoMsg)
     /\ nextSession' = Fresh(nextSession, 1) /\ waitMap' = Fresh(waitMap, {})
     /\ timer' = Fresh(timer, {})
     /\ atProxy' = {f \in atProxy : Home[f.from] # n}
     /\ wire' = {p \in wire : p.target # n}
     /\ asked' = [c \in Calls |-> IF asked[c].by # None /\ Home[asked[c].by] = n
                                  THEN [asked[c] EXCEPT !.by = None] ELSE asked[c]]
     /\ UNCHANGED <<handled, requests, calls, replies, namings>>

-----------------------------------------------------------------------------
OnMessage(a) == StartCoroutine(a) \/ ResumeWaiting(a) \/ DropResponse(a)
Body(a) ==
  \/ \E ref \in Callable, timed \in BOOLEAN : ClusterCall(a, ref, timed) \/ ProxyCall(a, ref, timed)
  \/ Sleep(a) \/ RespondRemote(a) \/ Finish(a)
Naming ==
  \E name \in Moving : \/ \E a \in Actors : RegisterName(name, a)
                       \/ \E n \in Nodes : UnregisterName(n, name)

Next ==
  \/ \E a \in Actors : OnMessage(a) \/ Body(a) \/ Timeout(a) \/ ExternalSend(a)
  \/ \E f \in atProxy : Forward(f)
  \/ \E p \in wire : Receive(p)
  \/ Naming \/ \E n \in Nodes : Restart(n)

Spec == Init /\ [][Next]_vars

-----------------------------------------------------------------------------
(* Properties.                                                             *)

TypeOK ==
  /\ nameToActor \in [Nodes -> [Names -> Actors \cup {None}]]
  /\ actorToName \in [Actors -> Names \cup {None}]
  /\ mailbox \in [Actors -> Seq(Msgs)]
  /\ body \subseteq Actors /\ request \in [Actors -> Msgs]
  /\ calls \in 0..MaxCalls /\ nextSession \in [Actors -> 1..(calls + 1)]
  /\ waitMap \in [Actors -> SUBSET Waits] /\ timer \in [Actors -> SUBSET Timers]
  /\ atProxy \subseteq Forwards /\ wire \subseteq Packets
  /\ asked \in [Calls -> [by : Actors \cup {None}, session : {0} \cup Sessions]]
  /\ handled \in [Calls -> Nat]
  /\ requests \in Nat /\ replies \in Nat /\ namings \in Nat /\ restarts \in Nat

Queue(a) == {mailbox[a][i] : i \in DOMAIN mailbox[a]}

\* Calls to other nodes, calls through a proxy and sleeps of one actor share sessions and
\* waitMap_ without disturbing each other: an answer that is going to resume a coroutine
\* belongs to what the coroutine waits for, or was asked for by another caller, a former
\* holder of the name or the process before its restart; never by this actor itself.
NoInterference ==
  \A a \in Actors : \A m \in Queue(a), w \in waitMap[a] :
    IsAnswer(m) /\ m.session = w.session => m.call = w.call \/ asked[m.call].by # a

\* A request is taken up at most once, whatever is lost, retried on another transport,
\* restarted or renamed.
HandledOnce == \A c \in Calls : handled[c] <= 1

\* A coroutine that waits with a timeout is never stranded, whatever becomes of its packets,
\* of its name and of the other node, and whosever answers arrive: its timer still runs, or
\* something that resumes it is in the mailbox.
NeverStranded ==
  \A a \in Actors : \A w \in waitMap[a] :
    w.timed => \/ \E t \in timer[a] : t.session = w.session
               \/ \E m \in Queue(a) : IsAnswer(m) /\ m.session = w.session

-----------------------------------------------------------------------------
(* What the code does not keep; the README tells which constants show it.  *)

\* Actors may use the same sessions and are not confused, because the target name leads
\* to different mailboxes: an answer resumes the coroutine that asked for it.
AnswersTheAsker ==
  \A a \in Actors : \A m \in Queue(a), w \in waitMap[a] :
    IsAnswer(m) /\ m.session = w.session => m.call = w.call

\* A packet still has the data of its message, which SendToRemote moves into the packet
\* it builds for the first transport.
DataArrives == \A p \in wire : p.via = 1
=============================================================================
