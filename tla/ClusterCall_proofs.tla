--------------------------- MODULE ClusterCall_proofs --------------------------
(***************************************************************************)
(* Theorems about ClusterCall for any nodes, actors, names and bounds.     *)
(***************************************************************************)
EXTENDS ClusterCall, TLAPS

USE ClusterCallAssumption

-----------------------------------------------------------------------------
(* The mailboxes as sets.                                                  *)

LEMMA Delivered ==
  ASSUME mailbox \in [Actors -> Seq(Msgs)], NEW a \in Actors, NEW m \in Msgs, Deliver(a, m)
  PROVE  /\ mailbox' \in [Actors -> Seq(Msgs)]
         /\ mailbox' = [mailbox EXCEPT ![a] = Append(mailbox[a], m)]
         /\ \A b \in Actors : Queue(b)' = IF b = a THEN Queue(a) \cup {m} ELSE Queue(b)
<1>1. mailbox[a] \in Seq(Msgs) /\ Append(mailbox[a], m) \in Seq(Msgs)
  OBVIOUS
<1>2. mailbox' = [mailbox EXCEPT ![a] = Append(mailbox[a], m)]
  BY DEF Deliver
<1>3. Queue(a)' = Queue(a) \cup {m}
  <2>1. /\ Len(Append(mailbox[a], m)) = Len(mailbox[a]) + 1
        /\ \A i \in 1..Len(mailbox[a]) : Append(mailbox[a], m)[i] = mailbox[a][i]
        /\ Append(mailbox[a], m)[Len(mailbox[a]) + 1] = m
    BY <1>1
  <2>2. DOMAIN mailbox[a] = 1..Len(mailbox[a]) /\ Len(mailbox[a]) \in Nat
    BY <1>1
  <2>3. DOMAIN mailbox'[a] = 1..(Len(mailbox[a]) + 1)
    BY <1>1, <1>2, <2>1
  <2>4. \A i \in DOMAIN mailbox[a] : i \in DOMAIN mailbox'[a] /\ mailbox'[a][i] = mailbox[a][i]
    BY <1>2, <2>1, <2>2, <2>3
  <2>5. Len(mailbox[a]) + 1 \in DOMAIN mailbox'[a] /\ mailbox'[a][Len(mailbox[a]) + 1] = m
    BY <1>2, <2>1, <2>2, <2>3
  <2>6. \A i \in DOMAIN mailbox'[a] : i \in DOMAIN mailbox[a] \/ i = Len(mailbox[a]) + 1
    BY <2>2, <2>3
  <2>7. Queue(a) \cup {m} \subseteq Queue(a)'
    BY <2>4, <2>5 DEF Queue
  <2>8. Queue(a)' \subseteq Queue(a) \cup {m}
    BY <2>4, <2>5, <2>6 DEF Queue
  <2> QED
    BY <2>7, <2>8
<1>4. \A b \in Actors \ {a} : Queue(b)' = Queue(b)
  BY <1>2 DEF Queue
<1> QED
  BY <1>1, <1>2, <1>3, <1>4

LEMMA TakenFrom ==
  ASSUME mailbox \in [Actors -> Seq(Msgs)], NEW a \in Actors, mailbox[a] # <<>>, Taken(a)
  PROVE  /\ mailbox' \in [Actors -> Seq(Msgs)]
         /\ Head(mailbox[a]) \in Msgs /\ Head(mailbox[a]) = mailbox[a][1]
         /\ Queue(a) = Queue(a)' \cup {Head(mailbox[a])}
         /\ \A b \in Actors \ {a} : mailbox'[b] = mailbox[b] /\ Queue(b)' = Queue(b)
         /\ DOMAIN mailbox'[a] = 1..(Len(mailbox[a]) - 1) /\ Len(mailbox[a]) \in Nat \ {0}
         /\ \A i \in DOMAIN mailbox'[a] : mailbox'[a][i] = mailbox[a][i + 1]
<1>1. mailbox[a] \in Seq(Msgs) /\ Tail(mailbox[a]) \in Seq(Msgs) /\ Head(mailbox[a]) \in Msgs
  OBVIOUS
<1>2. mailbox' = [mailbox EXCEPT ![a] = Tail(mailbox[a])]
  BY DEF Taken
<1>3. /\ DOMAIN mailbox[a] = 1..Len(mailbox[a]) /\ Len(mailbox[a]) \in Nat \ {0}
      /\ DOMAIN Tail(mailbox[a]) = 1..(Len(mailbox[a]) - 1)
      /\ \A i \in 1..(Len(mailbox[a]) - 1) : Tail(mailbox[a])[i] = mailbox[a][i + 1]
      /\ Head(mailbox[a]) = mailbox[a][1]
  BY <1>1
<1>4. Queue(a) = Queue(a)' \cup {Head(mailbox[a])}
  <2>1. \A i \in DOMAIN mailbox[a] : i = 1 \/ (i - 1 \in DOMAIN mailbox'[a]
                                               /\ mailbox'[a][i - 1] = mailbox[a][i])
    BY <1>2, <1>3
  <2>2. \A i \in DOMAIN mailbox'[a] :
          i + 1 \in DOMAIN mailbox[a] /\ mailbox'[a][i] = mailbox[a][i + 1]
    BY <1>2, <1>3
  <2>3. 1 \in DOMAIN mailbox[a]
    BY <1>3
  <2>4. Queue(a) \subseteq Queue(a)' \cup {Head(mailbox[a])}
    BY <1>3, <2>1 DEF Queue
  <2>5. Queue(a)' \cup {Head(mailbox[a])} \subseteq Queue(a)
    BY <1>3, <2>2, <2>3 DEF Queue
  <2> QED
    BY <2>4, <2>5
<1>5. \A b \in Actors \ {a} : mailbox'[b] = mailbox[b] /\ Queue(b)' = Queue(b)
  BY <1>2 DEF Queue
<1> QED
  BY <1>1, <1>2, <1>3, <1>4, <1>5

-----------------------------------------------------------------------------
(* Type correctness.                                                       *)

LEMMA NamedTyped == ASSUME NEW n, NEW name PROVE NamedAtStart(n, name) \in Actors \cup {None}
BY DEF NamedAtStart

LEMMA NoMsgTyped == NoMsg \in Msgs
BY DEF Msgs, NoMsg

LEMMA PacketTyped ==
  ASSUME TypeOK, NEW a \in Actors, NEW node \in Nodes, NEW name \in Names \cup {None},
         NEW session \in {0} \cup Sessions, NEW isResponse \in BOOLEAN,
         NEW call \in {0} \cup Calls, NEW nr \in Nat
  PROVE  Packet(a, node, name, session, isResponse, call, nr) \in Packets
BY DEF TypeOK, Packet, Packets

\* What SendToRemote puts on the wire: the packet, or nothing.
LEMMA Sent ==
  ASSUME TypeOK, NEW p \in Packets, SendToRemote(p)
  PROVE  /\ wire' \subseteq Packets
         /\ \/ wire' = wire
            \/ \E v \in 1..Transports : wire' = wire \cup {[p EXCEPT !.via = v]}
<1>1. PICK t \in 0..Transports : wire' = wire \cup Copies(p, t)
  BY DEF SendToRemote
<1>2. CASE t = 0
  BY <1>1, <1>2 DEF Copies, TypeOK
<1>3. CASE t # 0
  <2>1. t \in 1..Transports /\ wire' = wire \cup {[p EXCEPT !.via = t]}
    BY <1>1, <1>3 DEF Copies
  <2>2. [p EXCEPT !.via = t] \in Packets
    BY <2>1 DEF Packets
  <2> QED
    BY <2>1, <2>2 DEF TypeOK
<1> QED
  BY <1>2, <1>3

LEMMA InitTyped == Init => TypeOK
<1> SUFFICES ASSUME Init PROVE TypeOK
  OBVIOUS
<1>1. nameToActor \in [Nodes -> [Names -> Actors \cup {None}]]
  BY NamedTyped DEF Init
<1>2. mailbox \in [Actors -> Seq(Msgs)]
  BY DEF Init
<1>3. request \in [Actors -> Msgs]
  BY NoMsgTyped DEF Init
<1> QED
  BY <1>1, <1>2, <1>3 DEF Init, TypeOK

LEMMA NetTyped ==
  ASSUME TypeOK, (\E f \in atProxy : Forward(f)) \/ (\E p \in wire : Receive(p))
  PROVE  TypeOK'
<1>1. ASSUME NEW f \in atProxy, Forward(f) PROVE TypeOK'
  <2>1. Packet(f.from, f.ref[1], f.ref[2], f.session, FALSE, f.call, 0) \in Packets
    BY PacketTyped DEF TypeOK, Forwards
  <2>2. wire' \subseteq Packets
    BY <1>1, <2>1 DEF Forward, TypeOK
  <2> QED
    BY <1>1, <2>2 DEF Forward, TypeOK, nameVars, runVars, history, budgets
<1>2. ASSUME NEW p \in wire, Receive(p) PROVE TypeOK'
  <2> DEFINE m == [session |-> p.session, isResponse |-> p.isResponse, ok |-> TRUE,
                   node |-> p.node, name |-> p.name, call |-> p.call]
  <2>1. m \in Msgs /\ p \in Packets
    BY DEF TypeOK, Packets, Msgs
  <2>2. mailbox' \in [Actors -> Seq(Msgs)]
    <3>1. CASE p.to # None /\ nameToActor[p.target][p.to] # None
      <4>1. nameToActor[p.target][p.to] \in Actors
        BY <2>1, <3>1 DEF TypeOK, Packets
      <4> QED
        BY <1>2, <2>1, <3>1, <4>1, Delivered DEF Receive, TypeOK
    <3>2. CASE ~(p.to # None /\ nameToActor[p.target][p.to] # None)
      BY <1>2, <3>2 DEF Receive, TypeOK
    <3> QED
      BY <3>1, <3>2
  <2> QED
    BY <1>2, <2>2 DEF Receive, TypeOK, nameVars, runVars, history, budgets
<1> QED
  BY <1>1, <1>2

LEMMA OnMessageTyped ==
  ASSUME TypeOK, NEW a \in Actors, OnMessage(a)
  PROVE  TypeOK'
<1>1. mailbox[a] # <<>> /\ Taken(a)
  BY DEF OnMessage, StartCoroutine, ResumeWaiting, DropResponse, Handles
<1>2. mailbox' \in [Actors -> Seq(Msgs)] /\ Head(mailbox[a]) \in Msgs
  BY <1>1, TakenFrom DEF TypeOK
<1>3. CASE StartCoroutine(a)
  <2>1. \/ handled' = handled
        \/ \E c \in Calls : handled' = [handled EXCEPT ![c] = @ + 1]
    BY <1>3 DEF StartCoroutine
  <2>2. handled' \in [Calls -> Nat]
    <3>1. handled \in [Calls -> Nat]
      BY DEF TypeOK
    <3>2. ASSUME NEW c \in Calls PROVE [handled EXCEPT ![c] = @ + 1] \in [Calls -> Nat]
      BY <3>1
    <3> QED
      BY <2>1, <3>1, <3>2
  <2>3. request' \in [Actors -> Msgs] /\ body' \subseteq Actors
    BY <1>2, <1>3 DEF StartCoroutine, TypeOK
  <2> QED
    BY <1>2, <1>3, <2>2, <2>3 DEF StartCoroutine, TypeOK, nameVars, netVars, budgets
<1>4. CASE ResumeWaiting(a)
  <2>1. request' \in [Actors -> Msgs] /\ waitMap' \in [Actors -> SUBSET Waits]
        /\ timer' \in [Actors -> SUBSET Timers]
    BY <1>4 DEF ResumeWaiting, TypeOK, Waits
  <2> QED
    BY <1>2, <1>4, <2>1 DEF ResumeWaiting, TypeOK, nameVars, netVars, history, budgets
<1>5. CASE DropResponse(a)
  BY <1>2, <1>5 DEF DropResponse, TypeOK, nameVars, runVars, netVars, history, budgets
<1> QED
  BY <1>3, <1>4, <1>5 DEF OnMessage

\* A session to come is in range: each costs a call.
LEMMA SuspendTyped ==
  ASSUME TypeOK, NEW a \in Actors, NEW kind \in {"call", "sleep"}, NEW timed \in BOOLEAN,
         Suspend(a, kind, timed)
  PROVE  /\ nextSession[a] \in Sessions /\ calls + 1 \in Calls
         /\ atProxy' \subseteq Forwards /\ wire' \subseteq Packets => TypeOK'
<1>1. nextSession[a] \in Sessions /\ calls + 1 \in Calls
  BY DEF Suspend, TypeOK, Sessions, Calls
<1>2. calls' \in 0..MaxCalls /\ nextSession' \in [Actors -> 1..(calls' + 1)]
  BY <1>1 DEF Suspend, TypeOK, AllocSession
<1>3. waitMap' \in [Actors -> SUBSET Waits] /\ timer' \in [Actors -> SUBSET Timers]
  <2>1. [session |-> nextSession[a], call |-> calls + 1, kind |-> kind, timed |-> timed,
         request |-> request[a]] \in Waits
    BY <1>1 DEF TypeOK, Waits
  <2>2. [session |-> nextSession[a], call |-> calls + 1, ok |-> kind = "sleep"] \in Timers
    BY <1>1 DEF Timers
  <2>3. waitMap' \in [Actors -> SUBSET Waits]
    BY <2>1 DEF Suspend, TypeOK
  <2>4. timer' \in [Actors -> SUBSET Timers]
    BY <2>2 DEF Suspend, TypeOK
  <2> QED
    BY <2>3, <2>4
<1>4. asked' \in [Calls -> [by : Actors \cup {None}, session : {0} \cup Sessions]]
  BY <1>1 DEF Suspend, TypeOK
<1>5. request' \in [Actors -> Msgs] /\ body' \subseteq Actors
  BY NoMsgTyped DEF Suspend, TypeOK
<1> QED
  BY <1>1, <1>2, <1>3, <1>4, <1>5 DEF Suspend, TypeOK, nameVars

LEMMA BodyTyped ==
  ASSUME TypeOK, NEW a \in Actors, Body(a)
  PROVE  TypeOK'
<1>1. ASSUME NEW ref \in Callable, NEW timed \in BOOLEAN, ClusterCall(a, ref, timed)
      PROVE  TypeOK'
  <2>1. Suspend(a, "call", timed) /\ UNCHANGED atProxy
    BY <1>1 DEF ClusterCall
  <2>2. Packet(a, ref[1], ref[2], nextSession[a], FALSE, calls + 1, 0) \in Packets
    BY <2>1, SuspendTyped, PacketTyped
  <2>3. wire' \subseteq Packets /\ atProxy' \subseteq Forwards
    BY <1>1, <2>1, <2>2, Sent DEF ClusterCall, TypeOK
  <2> QED
    BY <2>1, <2>3, SuspendTyped
<1>2. ASSUME NEW ref \in Callable, NEW timed \in BOOLEAN, ProxyCall(a, ref, timed)
      PROVE  TypeOK'
  <2>1. Suspend(a, "call", timed) /\ UNCHANGED wire
    BY <1>2 DEF ProxyCall
  <2>2. atProxy' \subseteq Forwards
    BY <1>2, <2>1, SuspendTyped DEF ProxyCall, TypeOK, Forwards
  <2>3. wire' \subseteq Packets
    BY <2>1 DEF TypeOK
  <2> QED
    BY <2>1, <2>2, <2>3, SuspendTyped
<1>3. CASE Sleep(a)
  BY <1>3, SuspendTyped DEF Sleep, TypeOK, netVars
<1>4. CASE RespondRemote(a)
  <2>1. Packet(a, request[a].node, request[a].name, ReplySession(a), TRUE, request[a].call,
               replies + 1) \in Packets
    <3>1. /\ request[a].node \in Nodes /\ request[a].name \in Names \cup {None}
          /\ ReplySession(a) \in {0} \cup Sessions /\ request[a].call \in {0} \cup Calls
          /\ replies + 1 \in Nat
      BY <1>4 DEF RespondRemote, ReplySession, TypeOK, Msgs
    <3> QED
      BY <3>1, PacketTyped
  <2>2. wire' \subseteq Packets
    BY <1>4, <2>1, Sent DEF RespondRemote
  <2>3. /\ replies' = replies + 1
        /\ UNCHANGED <<nameToActor, actorToName, mailbox, body, request, nextSession, waitMap,
                       timer, atProxy, asked, handled, requests, calls, namings, restarts>>
    BY <1>4 DEF RespondRemote, nameVars, runVars, history
  <2> QED
    BY <2>2, <2>3 DEF TypeOK
<1>5. CASE Finish(a)
  BY <1>5, NoMsgTyped DEF Finish, TypeOK, nameVars, netVars, history, budgets
<1> QED
  BY <1>1, <1>2, <1>3, <1>4, <1>5 DEF Body

LEMMA OutsideTyped ==
  ASSUME TypeOK, NEW a \in Actors, Timeout(a) \/ ExternalSend(a)
  PROVE  TypeOK'
<1>1. CASE Timeout(a)
  <2>1. PICK t \in timer[a] :
          /\ timer' = [timer EXCEPT ![a] = @ \ {t}]
          /\ Deliver(a, [NoMsg EXCEPT !.session = t.session, !.isResponse = TRUE, !.ok = t.ok,
                                      !.call = t.call])
    BY <1>1 DEF Timeout
  <2>2. [NoMsg EXCEPT !.session = t.session, !.isResponse = TRUE, !.ok = t.ok, !.call = t.call]
          \in Msgs
    <3>1. t \in Timers
      BY DEF TypeOK
    <3> QED
      BY <3>1 DEF Timers, NoMsg, Msgs
  <2>3. mailbox' \in [Actors -> Seq(Msgs)] /\ timer' \in [Actors -> SUBSET Timers]
    BY <2>1, <2>2, Delivered DEF TypeOK
  <2> QED
    BY <1>1, <2>3 DEF Timeout, TypeOK, nameVars, runVars, netVars, history, budgets
<1>2. CASE ExternalSend(a)
  <2>1. mailbox' \in [Actors -> Seq(Msgs)]
    BY <1>2, NoMsgTyped, Delivered DEF ExternalSend, TypeOK
  <2> QED
    BY <1>2, <2>1 DEF ExternalSend, TypeOK, nameVars, runVars, netVars, history
<1> QED
  BY <1>1, <1>2

LEMMA NamingTyped ==
  ASSUME TypeOK, Naming
  PROVE  TypeOK'
<1>1. ASSUME NEW name \in Moving, NEW a \in Actors, RegisterName(name, a) PROVE TypeOK'
  <2>1. nameToActor' \in [Nodes -> [Names -> Actors \cup {None}]]
    BY <1>1 DEF RegisterName, TypeOK
  <2>2. actorToName' \in [Actors -> Names \cup {None}]
    BY <1>1 DEF RegisterName, TypeOK
  <2> QED
    BY <1>1, <2>1, <2>2 DEF RegisterName, TypeOK, runVars, netVars, history
<1>2. ASSUME NEW name \in Moving, NEW n \in Nodes, UnregisterName(n, name) PROVE TypeOK'
  <2>1. nameToActor' \in [Nodes -> [Names -> Actors \cup {None}]]
    BY <1>2 DEF UnregisterName, TypeOK
  <2>2. actorToName' \in [Actors -> Names \cup {None}]
    BY <1>2 DEF UnregisterName, TypeOK
  <2> QED
    BY <1>2, <2>1, <2>2 DEF UnregisterName, TypeOK, runVars, netVars, history
<1> QED
  BY <1>1, <1>2 DEF Naming

LEMMA RestartTyped ==
  ASSUME TypeOK, NEW n \in Nodes, Restart(n)
  PROVE  TypeOK'
<1>1. nameToActor' \in [Nodes -> [Names -> Actors \cup {None}]]
  BY NamedTyped DEF Restart, TypeOK
<1>2. actorToName' \in [Actors -> Names \cup {None}]
  BY DEF Restart, TypeOK
<1>3. mailbox' \in [Actors -> Seq(Msgs)]
  BY DEF Restart, TypeOK
<1>4. request' \in [Actors -> Msgs]
  BY NoMsgTyped DEF Restart, TypeOK
<1>5. nextSession' \in [Actors -> 1..(calls' + 1)]
  BY DEF Restart, TypeOK
<1>6. waitMap' \in [Actors -> SUBSET Waits] /\ timer' \in [Actors -> SUBSET Timers]
  BY DEF Restart, TypeOK
<1>7. asked' \in [Calls -> [by : Actors \cup {None}, session : {0} \cup Sessions]]
  <2>1. \A c \in Calls : [asked[c] EXCEPT !.by = None]
                            \in [by : Actors \cup {None}, session : {0} \cup Sessions]
    <3> SUFFICES ASSUME NEW c \in Calls
                 PROVE  [asked[c] EXCEPT !.by = None]
                          \in [by : Actors \cup {None}, session : {0} \cup Sessions]
      OBVIOUS
    <3>1. asked[c] \in [by : Actors \cup {None}, session : {0} \cup Sessions]
      BY DEF TypeOK
    <3> QED
      BY <3>1
  <2> QED
    BY <2>1 DEF Restart, TypeOK
<1>8. /\ body' \subseteq body /\ atProxy' \subseteq atProxy /\ wire' \subseteq wire
      /\ UNCHANGED <<calls, handled, requests, replies, namings>> /\ restarts' = restarts + 1
  BY DEF Restart
<1> QED
  BY <1>1, <1>2, <1>3, <1>4, <1>5, <1>6, <1>7, <1>8 DEF TypeOK

LEMMA NextTyped == TypeOK /\ [Next]_vars => TypeOK'
<1> SUFFICES ASSUME TypeOK, [Next]_vars PROVE TypeOK'
  OBVIOUS
<1>1. CASE Next
  BY <1>1, NetTyped, OnMessageTyped, BodyTyped, OutsideTyped, NamingTyped, RestartTyped DEF Next
<1>2. CASE UNCHANGED vars
  BY <1>2 DEF TypeOK, vars, nameVars, runVars, netVars, history, budgets
<1> QED
  BY <1>1, <1>2

\* Names, mailboxes, sessions, packets and the records of calls keep their types, for any
\* nodes, actors and bounds.
THEOREM ClusterCall_TypeOK == Spec => []TypeOK
<1> QED
  BY InitTyped, NextTyped, PTL DEF Spec

-----------------------------------------------------------------------------
(* Sessions.  Whatever carries the number of a call carries its session:   *)
(* requests, answers, suspended coroutines, timers.                        *)

Fits(x) == x.call <= calls /\ x.session = (IF x.call = 0 THEN 0 ELSE asked[x.call].session)

CarryInv ==
  /\ \A a \in Actors : Fits(request[a])
  /\ \A a \in Actors : \A m \in Queue(a) : Fits(m)
  /\ \A a \in Actors : \A w \in waitMap[a] : Fits(w) /\ Fits(w.request)
  /\ \A a \in Actors : \A t \in timer[a] : Fits(t)
  /\ \A f \in atProxy : Fits(f)
  /\ \A p \in wire : Fits(p)

\* An actor asks for each call with a session of its own, and waits for it once.
AskInv ==
  /\ \A c \in Calls : c > calls => asked[c].by = None
  /\ \A c \in Calls : c <= calls => asked[c].session # 0
  /\ \A c \in Calls : asked[c].by # None => asked[c].session < nextSession[asked[c].by]
  /\ \A c, d \in Calls : asked[c].by # None /\ asked[c] = asked[d] => c = d
  /\ \A a \in Actors : \A w \in waitMap[a] : asked[w.call].by = a
  /\ \A a \in Actors : \A v, w \in waitMap[a] : v.call = w.call => v = w

SessionInv == TypeOK /\ CarryInv /\ AskInv

\* A coroutine waits for one thing, and each session for one coroutine.
LEMMA OneWait ==
  ASSUME SessionInv, NEW a \in Actors, NEW v \in waitMap[a], NEW w \in waitMap[a],
         v.session = w.session
  PROVE  v = w
<1>1. v \in Waits /\ w \in Waits
  BY DEF SessionInv, TypeOK
<1>2. v.call \in Calls /\ w.call \in Calls /\ v.call # 0 /\ w.call # 0
  BY <1>1 DEF Waits, Calls
<1>3. asked[v.call].session = v.session /\ asked[w.call].session = w.session
  BY <1>2 DEF SessionInv, CarryInv, Fits
<1>4. asked[v.call].by = a /\ asked[w.call].by = a /\ a # None
  BY DEF SessionInv, AskInv
<1>5. asked[v.call] = asked[w.call]
  <2>1. asked[v.call] \in [by : Actors \cup {None}, session : {0} \cup Sessions]
        /\ asked[w.call] \in [by : Actors \cup {None}, session : {0} \cup Sessions]
    BY <1>2 DEF SessionInv, TypeOK
  <2> QED
    BY <1>3, <1>4, <2>1
<1>6. v.call = w.call
  BY <1>2, <1>4, <1>5 DEF SessionInv, AskInv
<1> QED
  BY <1>6 DEF SessionInv, AskInv

\* Calls already made keep their sessions.
Made ==
  /\ calls <= calls'
  /\ \A c \in Calls : c <= calls => asked'[c].session = asked[c].session

LEMMA StillFits ==
  ASSUME SessionInv, TypeOK', Made, NEW x, x.call \in {0} \cup Calls, Fits(x)
  PROVE  Fits(x)'
<1>1. calls \in Nat /\ calls' \in Nat /\ x.call \in Nat
  BY DEF SessionInv, TypeOK, Calls
<1> QED
  BY <1>1 DEF Fits, Made

LEMMA Unmade == ASSUME TypeOK, UNCHANGED <<calls, asked>> PROVE Made
BY DEF Made, TypeOK

\* A step keeps CarryInv when what it adds fits.
LEMMA CarryKept ==
  ASSUME SessionInv, TypeOK', Made,
         \A a \in Actors : request'[a] = request[a] \/ Fits(request[a])',
         \A a \in Actors : \A m \in Queue(a)' : m \in Queue(a) \/ Fits(m)',
         \A a \in Actors : \A w \in waitMap'[a] :
           w \in waitMap[a] \/ (Fits(w)' /\ Fits(w.request)'),
         \A a \in Actors : \A t \in timer'[a] : t \in timer[a] \/ Fits(t)',
         \A f \in atProxy' : f \in atProxy \/ Fits(f)',
         \A p \in wire' : p \in wire \/ Fits(p)'
  PROVE  CarryInv'
<1>1. ASSUME NEW a \in Actors PROVE Fits(request[a])'
  <2>1. request[a] \in Msgs /\ Fits(request[a])
    BY DEF SessionInv, TypeOK, CarryInv
  <2>2. request[a].call \in {0} \cup Calls
    BY <2>1 DEF Msgs
  <2>3. CASE request'[a] = request[a]
    <3> DEFINE x == request[a]
    <3>1. \A y : y = x => y.call \in {0} \cup Calls /\ Fits(y)
      BY <2>1, <2>2
    <3> HIDE DEF x
    <3>2. \A y : y = x => Fits(y)'
      BY <3>1, StillFits
    <3> QED
      BY <2>3, <3>2 DEF x
  <2> QED
    BY <2>3
<1>2. ASSUME NEW a \in Actors, NEW m \in Queue(a)' PROVE Fits(m)'
  <2>1. CASE m \in Queue(a)
    <3>1. m \in Msgs
      BY <2>1 DEF SessionInv, TypeOK, Queue
    <3> QED
      BY <2>1, <3>1, StillFits DEF SessionInv, CarryInv, Msgs
  <2> QED
    BY <2>1
<1>3. ASSUME NEW a \in Actors, NEW w \in waitMap'[a] PROVE Fits(w)' /\ Fits(w.request)'
  <2>1. CASE w \in waitMap[a]
    <3>1. w \in Waits /\ Fits(w) /\ Fits(w.request)
      BY <2>1 DEF SessionInv, TypeOK, CarryInv
    <3>2. w.call \in {0} \cup Calls /\ w.request.call \in {0} \cup Calls
      BY <3>1 DEF Waits, Msgs
    <3> QED
      BY <3>1, <3>2, StillFits
  <2> QED
    BY <2>1
<1>4. ASSUME NEW a \in Actors, NEW t \in timer'[a] PROVE Fits(t)'
  <2>1. CASE t \in timer[a]
    <3>1. t \in Timers /\ Fits(t)
      BY <2>1 DEF SessionInv, TypeOK, CarryInv
    <3> QED
      BY <3>1, StillFits DEF Timers
  <2> QED
    BY <2>1
<1>5. ASSUME NEW f \in atProxy' PROVE Fits(f)'
  BY StillFits DEF SessionInv, TypeOK, CarryInv, Forwards
<1>6. ASSUME NEW p \in wire' PROVE Fits(p)'
  BY StillFits DEF SessionInv, TypeOK, CarryInv, Packets
<1> QED
  BY <1>1, <1>2, <1>3, <1>4, <1>5, <1>6 DEF CarryInv

\* AskInv outlasts a step in which no call is made and no coroutine is suspended.
LEMMA AskKept ==
  ASSUME SessionInv, TypeOK', UNCHANGED <<calls, asked, nextSession>>,
         \A a \in Actors : waitMap'[a] \subseteq waitMap[a]
  PROVE  AskInv'
BY DEF SessionInv, AskInv

LEMMA InitSession == Init => SessionInv
<1> SUFFICES ASSUME Init PROVE SessionInv
  OBVIOUS
<1>1. TypeOK
  BY InitTyped
<1>2. CarryInv
  <2>1. \A a \in Actors : Queue(a) = {}
    BY DEF Init, Queue
  <2> QED
    BY <2>1 DEF Init, CarryInv, Fits, NoMsg
<1>3. AskInv
  BY DEF Init, AskInv, Calls
<1> QED
  BY <1>1, <1>2, <1>3 DEF SessionInv

LEMMA NetSession ==
  ASSUME SessionInv, (\E f \in atProxy : Forward(f)) \/ (\E p \in wire : Receive(p))
  PROVE  SessionInv'
<1>0. TypeOK /\ TypeOK'
  BY NetTyped DEF SessionInv
<1>1. /\ UNCHANGED <<calls, asked, nextSession, request, waitMap, timer>>
      /\ Made /\ AskInv'
  <2>1. UNCHANGED <<calls, asked, nextSession, request, waitMap, timer>>
    BY DEF Forward, Receive, runVars, history, budgets
  <2> QED
    BY <1>0, <2>1, Unmade, AskKept
<1>2. ASSUME NEW f \in atProxy, Forward(f) PROVE CarryInv'
  <2> PICK p \in {Packet(f.from, f.ref[1], f.ref[2], f.session, FALSE, f.call, 0)} :
             wire' \in {wire, wire \cup {p}}
    BY <1>2 DEF Forward
  <2>0. atProxy' = atProxy \ {f} /\ mailbox' = mailbox
    BY <1>2 DEF Forward
  <2>1. /\ \A g \in atProxy' : g \in atProxy
        /\ \A q \in wire' : q \in wire \/ q = p
        /\ \A a \in Actors : Queue(a)' = Queue(a)
    BY <2>0 DEF Queue
  <2>2. Fits(p)'
    <3>1. p.call = f.call /\ p.session = f.session
      BY DEF Packet
    <3>2. Fits(f)
      BY DEF SessionInv, CarryInv
    <3> QED
      BY <1>1, <3>1, <3>2 DEF Fits
  <2> QED
    BY <1>0, <1>1, <2>1, <2>2, CarryKept
<1>3. ASSUME NEW p \in wire, Receive(p) PROVE CarryInv'
  <2> DEFINE m == [session |-> p.session, isResponse |-> p.isResponse, ok |-> TRUE,
                   node |-> p.node, name |-> p.name, call |-> p.call]
  <2>1. Fits(m)'
    <3>1. Fits(p)
      BY DEF SessionInv, CarryInv
    <3> QED
      BY <1>1, <3>1 DEF Fits
  <2>2. \A a \in Actors : \A x \in Queue(a)' : x \in Queue(a) \/ x = m
    <3>1. m \in Msgs /\ p \in Packets
      BY <1>0 DEF TypeOK, Packets, Msgs
    <3>2. CASE p.to # None /\ nameToActor[p.target][p.to] # None
      <4>1. nameToActor[p.target][p.to] \in Actors
        BY <1>0, <3>1, <3>2 DEF TypeOK, Packets
      <4>2. Deliver(nameToActor[p.target][p.to], m)
        BY <1>3, <3>2 DEF Receive
      <4>3. PICK a \in Actors, x \in Msgs : x = m /\ Deliver(a, x)
        BY <3>1, <4>1, <4>2
      <4>4. \A b \in Actors : Queue(b)' = IF b = a THEN Queue(a) \cup {x} ELSE Queue(b)
        BY <1>0, <4>3, Delivered DEF TypeOK
      <4> QED
        BY <4>3, <4>4
    <3>3. CASE ~(p.to # None /\ nameToActor[p.target][p.to] # None)
      BY <1>3, <3>3 DEF Receive, Queue
    <3> QED
      BY <3>2, <3>3
  <2>3. wire' \subseteq wire /\ atProxy' = atProxy
    BY <1>3 DEF Receive
  <2> QED
    BY <1>0, <1>1, <2>1, <2>2, <2>3, CarryKept
<1> QED
  BY <1>0, <1>1, <1>2, <1>3 DEF SessionInv

LEMMA OnMessageSession ==
  ASSUME SessionInv, NEW a \in Actors, OnMessage(a)
  PROVE  SessionInv'
<1>0. TypeOK /\ TypeOK'
  BY OnMessageTyped DEF SessionInv
<1>1. /\ UNCHANGED <<calls, asked, nextSession, atProxy, wire>>
      /\ \A b \in Actors : waitMap'[b] \subseteq waitMap[b] /\ timer'[b] \subseteq timer[b]
  <2>1. CASE StartCoroutine(a)
    BY <2>1 DEF StartCoroutine, netVars, budgets
  <2>2. CASE ResumeWaiting(a)
    <3>1. UNCHANGED <<calls, asked, nextSession, atProxy, wire>>
      BY <2>2 DEF ResumeWaiting, netVars, history, budgets
    <3>2. PICK w \in waitMap[a] :
            /\ waitMap' = [waitMap EXCEPT ![a] = waitMap[a] \ {w}]
            /\ \/ timer' = timer
               \/ timer' = [timer EXCEPT ![a] = {t \in timer[a] : t.session # w.session}]
      BY <2>2 DEF ResumeWaiting
    <3>3. \A b \in Actors : waitMap'[b] \subseteq waitMap[b]
      BY <1>0, <3>2 DEF TypeOK
    <3>4. ASSUME timer' = [timer EXCEPT ![a] = {t \in timer[a] : t.session # w.session}]
          PROVE  \A b \in Actors : timer'[b] \subseteq timer[b]
      BY <1>0, <3>4 DEF TypeOK
    <3> QED
      BY <3>1, <3>2, <3>3, <3>4
  <2>3. CASE DropResponse(a)
    BY <2>3 DEF DropResponse, runVars, netVars, history, budgets
  <2> QED
    BY <2>1, <2>2, <2>3 DEF OnMessage
<1>2. Made /\ AskInv'
  BY <1>0, <1>1, Unmade, AskKept
<1>3. mailbox[a] # <<>> /\ Taken(a)
  BY DEF OnMessage, StartCoroutine, ResumeWaiting, DropResponse, Handles
<1>4. /\ \A b \in Actors : Queue(b)' \subseteq Queue(b)
      /\ Head(mailbox[a]) \in Queue(a) /\ Head(mailbox[a]) \in Msgs
  <2>1. mailbox \in [Actors -> Seq(Msgs)]
    BY <1>0 DEF TypeOK
  <2>2. /\ Head(mailbox[a]) \in Msgs /\ Queue(a) = Queue(a)' \cup {Head(mailbox[a])}
        /\ \A b \in Actors \ {a} : Queue(b)' = Queue(b)
    BY <1>3, <2>1, TakenFrom
  <2> QED
    BY <2>2
<1>5. ASSUME NEW b \in Actors PROVE request'[b] = request[b] \/ Fits(request[b])'
  <2>1. CASE StartCoroutine(a)
    <3>1. request' = [request EXCEPT ![a] = Head(mailbox[a])]
      BY <2>1 DEF StartCoroutine
    <3>2. Fits(Head(mailbox[a]))
      BY <1>4 DEF SessionInv, CarryInv
    <3>3. b = a => request'[b] = Head(mailbox[a])
      BY <1>0, <3>1 DEF TypeOK
    <3>4. b # a => request'[b] = request[b]
      BY <1>0, <3>1 DEF TypeOK
    <3> QED
      BY <1>1, <3>2, <3>3, <3>4 DEF Fits
  <2>2. CASE ResumeWaiting(a)
    <3>1. PICK w \in waitMap[a] : request' = [request EXCEPT ![a] = w.request]
      BY <2>2 DEF ResumeWaiting
    <3>2. Fits(w.request)
      BY DEF SessionInv, CarryInv
    <3>3. b = a => request'[b] = w.request
      BY <1>0, <3>1 DEF TypeOK
    <3>4. b # a => request'[b] = request[b]
      BY <1>0, <3>1 DEF TypeOK
    <3> QED
      BY <1>1, <3>2, <3>3, <3>4 DEF Fits
  <2>3. CASE DropResponse(a)
    BY <2>3 DEF DropResponse, runVars
  <2> QED
    BY <2>1, <2>2, <2>3 DEF OnMessage
<1>6. CarryInv'
  BY <1>0, <1>1, <1>2, <1>4, <1>5, CarryKept
<1> QED
  BY <1>0, <1>2, <1>6 DEF SessionInv

\* A new call: its number and its session are fresh.
LEMMA SuspendSession ==
  ASSUME SessionInv, TypeOK', NEW a \in Actors, NEW kind \in {"call", "sleep"},
         NEW timed \in BOOLEAN, Suspend(a, kind, timed),
         \A f \in atProxy' : f \in atProxy \/ (f.call = calls + 1 /\ f.session = nextSession[a]),
         \A p \in wire' : p \in wire \/ (p.call = calls + 1 /\ p.session = nextSession[a])
  PROVE  SessionInv'
<1> DEFINE s == nextSession[a]
           c == calls + 1
<1>0. TypeOK /\ s \in Sessions /\ c \in Calls
  BY SuspendTyped DEF SessionInv
<1>1. calls \in Nat /\ calls' = c /\ c # 0 /\ s # 0
  BY <1>0 DEF Suspend, TypeOK, Sessions
<1>2. asked' = [asked EXCEPT ![c] = [by |-> a, session |-> s]]
  BY DEF Suspend
<1>3. /\ asked'[c] = [by |-> a, session |-> s]
      /\ \A d \in Calls \ {c} : asked'[d] = asked[d]
  BY <1>0, <1>2 DEF TypeOK
<1>4. \A d \in Calls : d <= calls => d # c
  BY <1>0, <1>1 DEF Calls
<1>5. Made
  BY <1>1, <1>3, <1>4 DEF Made
<1>6. ASSUME NEW x, x.call = c, x.session = s PROVE Fits(x)'
  BY <1>0, <1>1, <1>3, <1>6 DEF Fits
<1>7. PICK w : /\ w = [session |-> s, call |-> c, kind |-> kind, timed |-> timed,
                       request |-> request[a]]
               /\ waitMap' = [waitMap EXCEPT ![a] = @ \cup {w}]
  BY DEF Suspend
<1>8. ASSUME NEW b \in Actors
      PROVE  \A v \in waitMap'[b] : v \in waitMap[b] \/ (b = a /\ v = w)
  BY <1>0, <1>7 DEF TypeOK
<1>9. w.request \in Msgs /\ Fits(w.request)
  BY <1>0, <1>7 DEF SessionInv, CarryInv, TypeOK
<1>10. CarryInv'
  <2>1. \A b \in Actors : request'[b] = request[b] \/ Fits(request[b])'
    <3> SUFFICES ASSUME NEW b \in Actors PROVE request'[b] = request[b] \/ Fits(request[b])'
      OBVIOUS
    <3>1. request'[b] = request[b] \/ request'[b] = NoMsg
      BY <1>0 DEF Suspend, TypeOK
    <3>2. request'[b] = NoMsg => Fits(request[b])'
      BY <1>1 DEF NoMsg, Fits
    <3> QED
      BY <3>1, <3>2
  <2>2. \A b \in Actors : Queue(b)' = Queue(b)
    BY DEF Suspend, Queue
  <2>3. \A b \in Actors : \A v \in waitMap'[b] :
          v \in waitMap[b] \/ (Fits(v)' /\ Fits(v.request)')
    <3>1. Fits(w)' /\ Fits(w.request)'
      <4>1. w.call = c /\ w.session = s
        BY <1>7
      <4>2. w.request.call \in {0} \cup Calls
        BY <1>9 DEF Msgs
      <4> QED
        BY <1>5, <1>6, <1>9, <4>1, <4>2, StillFits
    <3> QED
      BY <1>8, <3>1
  <2>4. \A b \in Actors : \A t \in timer'[b] : t \in timer[b] \/ Fits(t)'
    <3> SUFFICES ASSUME NEW b \in Actors, NEW t \in timer'[b], t \notin timer[b]
                 PROVE  Fits(t)'
      OBVIOUS
    <3>1. t.call = c /\ t.session = s
      BY <1>0 DEF Suspend, TypeOK
    <3> QED
      BY <1>6, <3>1
  <2>5. /\ \A f \in atProxy' : f \in atProxy \/ Fits(f)'
        /\ \A p \in wire' : p \in wire \/ Fits(p)'
    BY <1>6
  <2> QED
    BY <1>5, <2>1, <2>2, <2>3, <2>4, <2>5, CarryKept
<1>11. nextSession'[a] = s + 1 /\ \A b \in Actors \ {a} : nextSession'[b] = nextSession[b]
  BY <1>0 DEF Suspend, AllocSession, TypeOK
<1>12. \A d \in Calls : asked[d].by = a => asked[d].session < s
  BY DEF SessionInv, AskInv
<1>13. \A b \in Actors : \A v \in waitMap[b] : v.call \in Calls /\ v.call # c
  <2> SUFFICES ASSUME NEW b \in Actors, NEW v \in waitMap[b] PROVE v.call \in Calls /\ v.call # c
    OBVIOUS
  <2>1. v \in Waits /\ v.call <= calls
    BY DEF SessionInv, TypeOK, CarryInv, Fits
  <2> QED
    BY <1>1, <2>1 DEF Waits, Calls
<1>14. AskInv'
  <2>1. \A d \in Calls : d > calls' => asked'[d].by = None
    <3>1. \A d \in Calls : d > calls' => d > calls /\ d # c
      BY <1>1 DEF Calls
    <3> QED
      BY <1>3, <3>1 DEF SessionInv, AskInv
  <2>2. \A d \in Calls : d <= calls' => asked'[d].session # 0
    <3>1. \A d \in Calls : d <= calls' => d <= calls \/ d = c
      BY <1>1 DEF Calls
    <3> QED
      BY <1>1, <1>3, <1>4, <3>1 DEF SessionInv, AskInv
  <2>3. \A d \in Calls : asked'[d].by # None => asked'[d].session < nextSession'[asked'[d].by]
    <3> SUFFICES ASSUME NEW d \in Calls, asked'[d].by # None
                 PROVE  asked'[d].session < nextSession'[asked'[d].by]
      OBVIOUS
    <3>1. CASE d = c
      BY <1>0, <1>3, <1>11, <3>1 DEF Sessions
    <3>2. CASE d # c
      <4>0. asked'[d] = asked[d]
        BY <1>3, <3>2
      <4>1. /\ asked'[d] = asked[d] /\ asked[d].by \in Actors
            /\ asked[d].session \in {0} \cup Sessions
        <5>1. asked[d] \in [by : Actors \cup {None}, session : {0} \cup Sessions]
          BY <1>0 DEF TypeOK
        <5> QED
          BY <4>0, <5>1
      <4>2. asked[d].session < nextSession[asked[d].by]
        BY <4>1 DEF SessionInv, AskInv
      <4>3. asked[d].by = a => asked[d].session < s + 1
        BY <1>0, <1>12, <4>1 DEF Sessions
      <4> QED
        BY <1>11, <4>1, <4>2, <4>3
    <3> QED
      BY <3>1, <3>2
  <2>4. \A d, e \in Calls : asked'[d].by # None /\ asked'[d] = asked'[e] => d = e
    <3>1. \A d \in Calls \ {c} : asked'[d] # asked'[c]
      <4> SUFFICES ASSUME NEW d \in Calls \ {c}, asked[d] = [by |-> a, session |-> s] PROVE FALSE
        BY <1>3
      <4>1. s < s
        BY <1>12
      <4> QED
        BY <1>0, <4>1 DEF Sessions
    <3> QED
      BY <1>3, <3>1 DEF SessionInv, AskInv
  <2>5. \A b \in Actors : \A v \in waitMap'[b] : asked'[v.call].by = b
    BY <1>3, <1>7, <1>8, <1>13 DEF SessionInv, AskInv
  <2>6. \A b \in Actors : \A u, v \in waitMap'[b] : u.call = v.call => u = v
    <3>1. w.call = c
      BY <1>7
    <3> QED
      BY <1>8, <1>13, <3>1 DEF SessionInv, AskInv
  <2> QED
    BY <2>1, <2>2, <2>3, <2>4, <2>5, <2>6 DEF AskInv
<1> QED
  BY <1>10, <1>14 DEF SessionInv

\* A packet carries what it was built with, whichever transport takes it.
LEMMA Carried ==
  ASSUME TypeOK, NEW q \in Packets, SendToRemote(q)
  PROVE  \A p \in wire' : \/ p \in wire
                          \/ /\ p.call = q.call /\ p.session = q.session
                             /\ p.isResponse = q.isResponse
<1>1. \A v : /\ [q EXCEPT !.via = v].call = q.call /\ [q EXCEPT !.via = v].session = q.session
            /\ [q EXCEPT !.via = v].isResponse = q.isResponse
  BY DEF Packets
<1>2. CASE wire' = wire
  BY <1>2
<1>3. CASE \E v \in 1..Transports : wire' = wire \cup {[q EXCEPT !.via = v]}
  BY <1>1, <1>3
<1> QED
  BY <1>2, <1>3, Sent

LEMMA BodySession ==
  ASSUME SessionInv, NEW a \in Actors, Body(a)
  PROVE  SessionInv'
<1>0. TypeOK /\ TypeOK'
  BY BodyTyped DEF SessionInv
<1>1. ASSUME NEW ref \in Callable, NEW timed \in BOOLEAN, ClusterCall(a, ref, timed)
      PROVE  SessionInv'
  <2>1. Suspend(a, "call", timed) /\ UNCHANGED atProxy
    BY <1>1 DEF ClusterCall
  <2>2. Packet(a, ref[1], ref[2], nextSession[a], FALSE, calls + 1, 0) \in Packets
    BY <1>0, <2>1, SuspendTyped, PacketTyped
  <2>3. PICK q \in Packets : q = Packet(a, ref[1], ref[2], nextSession[a], FALSE, calls + 1, 0)
    BY <2>2
  <2>4. SendToRemote(q) /\ q.call = calls + 1 /\ q.session = nextSession[a]
    BY <1>1, <2>3 DEF ClusterCall, Packet
  <2>5. \A p \in wire' : p \in wire \/ (p.call = calls + 1 /\ p.session = nextSession[a])
    BY <1>0, <2>4, Carried
  <2> QED
    BY <1>0, <2>1, <2>5, SuspendSession
<1>2. ASSUME NEW ref \in Callable, NEW timed \in BOOLEAN, ProxyCall(a, ref, timed)
      PROVE  SessionInv'
  <2>1. Suspend(a, "call", timed) /\ UNCHANGED wire
    BY <1>2 DEF ProxyCall
  <2>2. \A f \in atProxy' : f \in atProxy \/ (f.call = calls + 1 /\ f.session = nextSession[a])
    BY <1>2 DEF ProxyCall
  <2> QED
    BY <1>0, <2>1, <2>2, SuspendSession
<1>3. CASE Sleep(a)
  BY <1>0, <1>3, SuspendSession DEF Sleep, netVars
<1>4. CASE RespondRemote(a)
  <2>1. /\ UNCHANGED <<calls, asked, nextSession, request, waitMap, timer, mailbox, atProxy>>
    BY <1>4 DEF RespondRemote, runVars, history
  <2>2. Made /\ AskInv'
    BY <1>0, <2>1, Unmade, AskKept
  <2> DEFINE m == request[a]
  <2>3. Fits(m) /\ m \in Msgs
    BY <1>0 DEF SessionInv, CarryInv, TypeOK
  <2>4. Packet(a, m.node, m.name, m.session, TRUE, m.call, replies + 1) \in Packets
    <3>1. /\ m.node \in Nodes /\ m.name \in Names \cup {None} /\ m.session \in {0} \cup Sessions
          /\ m.call \in {0} \cup Calls /\ replies + 1 \in Nat
      BY <1>0, <1>4, <2>3 DEF RespondRemote, TypeOK, Msgs
    <3> QED
      BY <1>0, <3>1, PacketTyped
  <2>5. \A p \in wire' : p \in wire \/ (p.call = m.call /\ p.session = m.session)
    <3>1. PICK q \in Packets : q = Packet(a, m.node, m.name, m.session, TRUE, m.call, replies + 1)
      BY <2>4
    <3>2. SendToRemote(q) /\ q.call = m.call /\ q.session = m.session
      BY <1>4, <3>1 DEF RespondRemote, ReplySession, Packet
    <3> QED
      BY <1>0, <3>2, Carried
  <2>6. \A p \in wire' : p \in wire \/ Fits(p)'
    <3>1. \A p : p.call = m.call /\ p.session = m.session => Fits(p)'
      BY <2>1, <2>3 DEF Fits
    <3> QED
      BY <2>5, <3>1
  <2>7. \A b \in Actors : Queue(b)' = Queue(b)
    BY <2>1 DEF Queue
  <2>8. CarryInv'
    BY <1>0, <2>1, <2>2, <2>6, <2>7, CarryKept
  <2> QED
    BY <1>0, <2>2, <2>8 DEF SessionInv
<1>5. CASE Finish(a)
  <2>1. /\ UNCHANGED <<calls, asked, nextSession, waitMap, timer, mailbox, atProxy, wire>>
        /\ request' = [request EXCEPT ![a] = NoMsg]
    BY <1>5 DEF Finish, netVars, history, budgets
  <2>2. Made /\ AskInv'
    BY <1>0, <2>1, Unmade, AskKept
  <2>3. \A b \in Actors : request'[b] = request[b] \/ Fits(request[b])'
    <3> SUFFICES ASSUME NEW b \in Actors PROVE request'[b] = request[b] \/ Fits(request[b])'
      OBVIOUS
    <3>1. request'[b] = request[b] \/ request'[b] = NoMsg
      BY <1>0, <2>1 DEF TypeOK
    <3>2. request'[b] = NoMsg => Fits(request[b])'
      BY <1>0, <2>1 DEF NoMsg, Fits, TypeOK
    <3> QED
      BY <3>1, <3>2
  <2>4. \A b \in Actors : Queue(b)' = Queue(b)
    BY <2>1 DEF Queue
  <2>5. CarryInv'
    BY <1>0, <2>1, <2>2, <2>3, <2>4, CarryKept
  <2> QED
    BY <1>0, <2>2, <2>5 DEF SessionInv
<1> QED
  BY <1>1, <1>2, <1>3, <1>4, <1>5 DEF Body

\* Timers fire and messages come from outside.
LEMMA OutsideSession ==
  ASSUME SessionInv, NEW a \in Actors, Timeout(a) \/ ExternalSend(a)
  PROVE  SessionInv'
<1>0. TypeOK /\ TypeOK'
  BY OutsideTyped DEF SessionInv
<1>1. /\ UNCHANGED <<calls, asked, nextSession, request, waitMap, atProxy, wire>>
      /\ Made /\ AskInv'
  <2>1. UNCHANGED <<calls, asked, nextSession, request, waitMap, atProxy, wire>>
    BY DEF Timeout, ExternalSend, runVars, netVars, history, budgets
  <2> QED
    BY <1>0, <2>1, Unmade, AskKept
<1>2. PICK m \in Msgs : Deliver(a, m) /\ Fits(m)
  <2>1. CASE ExternalSend(a)
    <3>1. NoMsg.call = 0 /\ NoMsg.session = 0 /\ calls \in Nat
      BY <1>0 DEF NoMsg, TypeOK
    <3>2. Fits(NoMsg)
      BY <3>1 DEF Fits
    <3> QED
      BY <2>1, <3>2, NoMsgTyped DEF ExternalSend
  <2>2. CASE Timeout(a)
    <3>1. PICK t \in timer[a] :
            Deliver(a, [NoMsg EXCEPT !.session = t.session, !.isResponse = TRUE, !.ok = t.ok,
                                     !.call = t.call])
      BY <2>2 DEF Timeout
    <3>2. PICK m : m = [NoMsg EXCEPT !.session = t.session, !.isResponse = TRUE, !.ok = t.ok,
                                     !.call = t.call]
      OBVIOUS
    <3>3. t \in Timers /\ Fits(t)
      BY <1>0 DEF TypeOK, SessionInv, CarryInv
    <3>4. m \in Msgs /\ m.call = t.call /\ m.session = t.session
      BY <3>2, <3>3 DEF Timers, NoMsg, Msgs
    <3> QED
      BY <3>1, <3>2, <3>3, <3>4 DEF Fits
  <2> QED
    BY <2>1, <2>2
<1>3. \A b \in Actors : \A x \in Queue(b)' : x \in Queue(b) \/ Fits(x)'
  <2>1. \A b \in Actors : Queue(b)' = IF b = a THEN Queue(a) \cup {m} ELSE Queue(b)
    BY <1>0, <1>2, Delivered DEF TypeOK
  <2>2. Fits(m)'
    BY <1>1, <1>2 DEF Fits
  <2> QED
    BY <2>1, <2>2
<1>4. \A b \in Actors : timer'[b] \subseteq timer[b]
  <2>1. CASE ExternalSend(a)
    BY <2>1 DEF ExternalSend
  <2>2. CASE Timeout(a)
    <3>1. PICK t \in timer[a] : timer' = [timer EXCEPT ![a] = timer[a] \ {t}]
      BY <2>2 DEF Timeout
    <3> QED
      BY <1>0, <3>1 DEF TypeOK
  <2> QED
    BY <2>1, <2>2
<1>5. CarryInv'
  BY <1>0, <1>1, <1>3, <1>4, CarryKept
<1> QED
  BY <1>0, <1>1, <1>5 DEF SessionInv

LEMMA NamingSession ==
  ASSUME SessionInv, Naming
  PROVE  SessionInv'
<1>0. TypeOK /\ TypeOK'
  BY NamingTyped DEF SessionInv
<1>1. UNCHANGED <<calls, asked, nextSession, request, waitMap, timer, atProxy, wire, mailbox>>
  BY DEF Naming, RegisterName, UnregisterName, runVars, netVars, history
<1>2. Made /\ AskInv'
  BY <1>0, <1>1, Unmade, AskKept
<1>3. \A b \in Actors : Queue(b)' = Queue(b)
  BY <1>1 DEF Queue
<1>4. CarryInv'
  BY <1>0, <1>1, <1>2, <1>3, CarryKept
<1> QED
  BY <1>0, <1>2, <1>4 DEF SessionInv

\* The end of a process takes its actors' coroutines with it; their calls are nobody's.
LEMMA RestartSession ==
  ASSUME SessionInv, NEW n \in Nodes, Restart(n)
  PROVE  SessionInv'
<1>0. TypeOK /\ TypeOK'
  BY RestartTyped DEF SessionInv
<1>1. /\ calls' = calls
      /\ \A c \in Calls : /\ asked'[c].session = asked[c].session
                          /\ asked'[c].by \in {asked[c].by, None}
                          /\ asked'[c].by # None => asked'[c] = asked[c]
                                                    /\ Home[asked[c].by] # n
  <2>1. calls' = calls
    BY DEF Restart
  <2>2. ASSUME NEW c \in Calls
        PROVE  /\ asked'[c].session = asked[c].session
               /\ asked'[c].by \in {asked[c].by, None}
               /\ asked'[c].by # None => asked'[c] = asked[c] /\ Home[asked[c].by] # n
    <3>1. asked[c] \in [by : Actors \cup {None}, session : {0} \cup Sessions]
      BY <1>0 DEF TypeOK
    <3>2. asked'[c] = IF asked[c].by # None /\ Home[asked[c].by] = n
                      THEN [asked[c] EXCEPT !.by = None] ELSE asked[c]
      BY DEF Restart
    <3>3. CASE asked[c].by # None /\ Home[asked[c].by] = n
      BY <3>1, <3>2, <3>3
    <3>4. CASE ~(asked[c].by # None /\ Home[asked[c].by] = n)
      BY <3>2, <3>4
    <3> QED
      BY <3>3, <3>4
  <2> QED
    BY <2>1, <2>2
<1>2. Made
  BY <1>0, <1>1 DEF Made, TypeOK
<1>3. \A a \in Actors :
        /\ request'[a] \in {request[a], NoMsg} /\ mailbox'[a] \in {mailbox[a], <<>>}
        /\ waitMap'[a] \subseteq waitMap[a] /\ timer'[a] \subseteq timer[a]
        /\ Home[a] = n => waitMap'[a] = {}
        /\ Home[a] # n => nextSession'[a] = nextSession[a]
  BY DEF Restart
<1>4. CarryInv'
  <2>1. \A a \in Actors : request'[a] = request[a] \/ Fits(request[a])'
    <3>1. \A a \in Actors : request'[a] = NoMsg => Fits(request[a])'
      BY <1>0, <1>1 DEF NoMsg, Fits, TypeOK
    <3> QED
      BY <1>3, <3>1
  <2>2. \A a \in Actors : \A m \in Queue(a)' : m \in Queue(a)
    BY <1>3 DEF Queue
  <2>3. atProxy' \subseteq atProxy /\ wire' \subseteq wire
    BY DEF Restart
  <2> QED
    BY <1>0, <1>2, <1>3, <2>1, <2>2, <2>3, CarryKept
<1>5. AskInv'
  <2>1. \A c \in Calls : c > calls' => asked'[c].by = None
    BY <1>1 DEF SessionInv, AskInv
  <2>2. \A c \in Calls : c <= calls' => asked'[c].session # 0
    BY <1>1 DEF SessionInv, AskInv
  <2>3. \A c \in Calls : asked'[c].by # None => asked'[c].session < nextSession'[asked'[c].by]
    <3> SUFFICES ASSUME NEW c \in Calls, asked'[c].by # None
                 PROVE  asked'[c].session < nextSession'[asked'[c].by]
      OBVIOUS
    <3>1. asked'[c] = asked[c] /\ Home[asked[c].by] # n /\ asked[c].by \in Actors
      BY <1>0, <1>1 DEF TypeOK
    <3> QED
      BY <1>3, <3>1 DEF SessionInv, AskInv
  <2>4. \A c, d \in Calls : asked'[c].by # None /\ asked'[c] = asked'[d] => c = d
    BY <1>1 DEF SessionInv, AskInv
  <2>5. \A a \in Actors : \A w \in waitMap'[a] : asked'[w.call].by = a
    <3> SUFFICES ASSUME NEW a \in Actors, NEW w \in waitMap'[a] PROVE asked'[w.call].by = a
      OBVIOUS
    <3>1. w \in waitMap[a] /\ Home[a] # n
      BY <1>3
    <3>2. w.call \in Calls /\ asked[w.call].by = a
      BY <1>0, <3>1 DEF SessionInv, AskInv, TypeOK, Waits
    <3> QED
      BY <3>1, <3>2 DEF Restart
  <2>6. \A a \in Actors : \A v, w \in waitMap'[a] : v.call = w.call => v = w
    BY <1>3 DEF SessionInv, AskInv
  <2> QED
    BY <2>1, <2>2, <2>3, <2>4, <2>5, <2>6 DEF AskInv
<1> QED
  BY <1>0, <1>4, <1>5 DEF SessionInv

LEMMA NextSession == SessionInv /\ [Next]_vars => SessionInv'
<1> SUFFICES ASSUME SessionInv, [Next]_vars PROVE SessionInv'
  OBVIOUS
<1>1. CASE Next
  BY <1>1, NetSession, OnMessageSession, BodySession, OutsideSession, NamingSession,
     RestartSession DEF Next
<1>2. CASE UNCHANGED vars
  <2>1. UNCHANGED <<calls, asked, nextSession, request, waitMap, timer, atProxy, wire, mailbox>>
    BY <1>2 DEF vars, runVars, netVars, history, budgets
  <2>2. TypeOK /\ TypeOK'
    BY <1>2, NextTyped DEF SessionInv
  <2>3. Made /\ AskInv'
    BY <2>1, <2>2, Unmade, AskKept
  <2>4. \A b \in Actors : Queue(b)' = Queue(b)
    BY <2>1 DEF Queue
  <2>5. CarryInv'
    BY <2>1, <2>2, <2>3, <2>4, CarryKept
  <2> QED
    BY <2>2, <2>3, <2>5 DEF SessionInv
<1> QED
  BY <1>1, <1>2

LEMMA SessionsHold == Spec => []SessionInv
<1> QED
  BY InitSession, NextSession, PTL DEF Spec

\* Calls to other nodes, calls through a proxy and sleeps of one actor do not disturb each
\* other: an answer that resumes a coroutine belongs to its call or was asked for by another
\* caller, whatever the bounds, the restarts and the changes of names.
THEOREM ClusterCall_NoInterference == Spec => []NoInterference
<1>1. SessionInv => NoInterference
  <2> SUFFICES ASSUME SessionInv, NEW a \in Actors, NEW m \in Queue(a), NEW w \in waitMap[a],
                      IsAnswer(m), m.session = w.session, asked[m.call].by = a
               PROVE  m.call = w.call
    BY DEF NoInterference
  <2>1. m \in Msgs /\ w \in Waits /\ Fits(m) /\ Fits(w)
    BY DEF SessionInv, TypeOK, CarryInv, Queue
  <2>2. m.call \in Calls /\ m.session = asked[m.call].session
    BY <2>1 DEF Msgs, Fits, IsAnswer, Sessions
  <2>3. w.call \in Calls /\ w.session = asked[w.call].session /\ asked[w.call].by = a
    <3>1. w.call \in Calls /\ w.call # 0
      BY <2>1 DEF Waits, Calls
    <3> QED
      BY <2>1, <3>1 DEF SessionInv, AskInv, Fits
  <2>4. /\ asked[m.call] \in [by : Actors \cup {None}, session : {0} \cup Sessions]
        /\ asked[w.call] \in [by : Actors \cup {None}, session : {0} \cup Sessions]
    BY <2>2, <2>3 DEF SessionInv, TypeOK
  <2>5. asked[m.call] = asked[w.call]
    <3>1. asked[m.call].by = asked[w.call].by /\ asked[m.call].session = asked[w.call].session
      BY <2>2, <2>3
    <3>2. \A x, y \in [by : Actors \cup {None}, session : {0} \cup Sessions] :
            x.by = y.by /\ x.session = y.session => x = y
      OBVIOUS
    <3> QED
      BY <2>4, <3>1, <3>2
  <2>6. asked[m.call].by # None
    BY ClusterCallAssumption DEF ClusterCallAssumption
  <2> QED
    BY <2>2, <2>3, <2>5, <2>6 DEF SessionInv, AskInv
<1> QED
  BY <1>1, SessionsHold, PTL

-----------------------------------------------------------------------------
(* Coroutines that wait with a timeout.                                    *)

StrandInv == SessionInv /\ NeverStranded

Resumes(x, w) == IsAnswer(x) /\ x.session = w.session

\* It is enough that a step takes from a coroutine that goes on waiting neither its timer
\* nor an answer for it.
LEMMA StrandKept ==
  ASSUME NeverStranded,
         \A a \in Actors : \A w \in waitMap'[a] : w.timed =>
           \/ \E t \in timer'[a] : t.session = w.session
           \/ /\ w \in waitMap[a]
              /\ \A t \in timer[a] : t.session = w.session =>
                   t \in timer'[a] \/ \E m \in Queue(a)' : Resumes(m, w)
              /\ \A m \in Queue(a) : Resumes(m, w) => m \in Queue(a)'
  PROVE  NeverStranded'
<1> SUFFICES ASSUME NEW a \in Actors, NEW w \in waitMap'[a], w.timed,
                    ~ \E t \in timer'[a] : t.session = w.session
             PROVE  \E m \in Queue(a)' : Resumes(m, w)
  BY DEF NeverStranded, Resumes, IsAnswer
<1>1. /\ w \in waitMap[a]
      /\ \A t \in timer[a] : t.session = w.session =>
           t \in timer'[a] \/ \E m \in Queue(a)' : Resumes(m, w)
      /\ \A m \in Queue(a) : Resumes(m, w) => m \in Queue(a)'
  OBVIOUS
<1>2. CASE \E t \in timer[a] : t.session = w.session
  BY <1>1, <1>2
<1>3. CASE \E m \in Queue(a) : Resumes(m, w)
  BY <1>1, <1>3
<1> QED
  BY <1>1, <1>2, <1>3 DEF NeverStranded, Resumes

\* Steps that leave coroutines and timers alone and take nothing from a mailbox.
LEMMA StrandGrows ==
  ASSUME NeverStranded, \A a \in Actors : waitMap'[a] = waitMap[a] /\ timer'[a] = timer[a],
         \A a \in Actors : Queue(a) \subseteq Queue(a)'
  PROVE  NeverStranded'
BY StrandKept

LEMMA NetStrand ==
  ASSUME StrandInv, (\E f \in atProxy : Forward(f)) \/ (\E p \in wire : Receive(p))
  PROVE  NeverStranded'
<1>1. UNCHANGED <<waitMap, timer>>
  BY DEF Forward, Receive, runVars
<1>2. \A a \in Actors : Queue(a) \subseteq Queue(a)'
  <2>1. CASE mailbox' = mailbox
    BY <2>1 DEF Queue
  <2>2. CASE \E a \in Actors, m \in Msgs : Deliver(a, m)
    BY <2>2, Delivered DEF StrandInv, SessionInv, TypeOK
  <2>3. ASSUME NEW p \in wire, Receive(p)
        PROVE  mailbox' = mailbox \/ \E a \in Actors, m \in Msgs : Deliver(a, m)
    <3> DEFINE m == [session |-> p.session, isResponse |-> p.isResponse, ok |-> TRUE,
                     node |-> p.node, name |-> p.name, call |-> p.call]
    <3>1. p \in Packets
      BY DEF StrandInv, SessionInv, TypeOK
    <3>2. m \in Msgs
      BY <3>1 DEF Packets, Msgs
    <3>3. CASE p.to # None /\ nameToActor[p.target][p.to] # None
      <4>1. nameToActor[p.target][p.to] \in Actors
        BY <3>1, <3>3 DEF StrandInv, SessionInv, TypeOK, Packets
      <4>2. Deliver(nameToActor[p.target][p.to], m)
        BY <2>3, <3>3 DEF Receive
      <4> QED
        BY <3>2, <4>1, <4>2
    <3>4. CASE ~(p.to # None /\ nameToActor[p.target][p.to] # None)
      BY <2>3, <3>4 DEF Receive
    <3> QED
      BY <3>3, <3>4
  <2>4. (\E f \in atProxy : Forward(f)) => mailbox' = mailbox
    BY DEF Forward
  <2> QED
    BY <2>1, <2>2, <2>3, <2>4
<1> QED
  BY <1>1, <1>2, StrandGrows DEF StrandInv

\* What OnMessage takes resumes no coroutine that goes on waiting.
LEMMA OnMessageStrand ==
  ASSUME StrandInv, NEW a \in Actors, OnMessage(a)
  PROVE  NeverStranded'
<1> DEFINE h == Head(mailbox[a])
<1>0. TypeOK /\ mailbox[a] # <<>> /\ Taken(a)
  BY DEF StrandInv, SessionInv, OnMessage, StartCoroutine, ResumeWaiting, DropResponse, Handles
<1>1. /\ Queue(a) = Queue(a)' \cup {h}
      /\ \A b \in Actors \ {a} : Queue(b)' = Queue(b)
  BY <1>0, TakenFrom DEF TypeOK
<1>2. CASE StartCoroutine(a)
  <2>1. UNCHANGED <<waitMap, timer>> /\ ~IsAnswer(h)
    BY <1>2 DEF StartCoroutine
  <2>2. \A b \in Actors : \A m \in Queue(b) : IsAnswer(m) => m \in Queue(b)'
    BY <1>1, <2>1
  <2> HIDE DEF h
  <2> QED
    BY <2>1, <2>2, StrandKept DEF StrandInv, Resumes
<1>3. CASE ResumeWaiting(a)
  <2>1. PICK w \in waitMap[a] :
          /\ w.session = h.session
          /\ waitMap' = [waitMap EXCEPT ![a] = waitMap[a] \ {w}]
          /\ timer' = IF w.kind = "call" /\ h.ok
                      THEN [timer EXCEPT ![a] = {t \in timer[a] : t.session # w.session}]
                      ELSE timer
    BY <1>3 DEF ResumeWaiting
  <2> HIDE DEF h
  <2>2. ASSUME NEW v \in waitMap'[a]
        PROVE  v \in waitMap[a] /\ v.session # w.session
    <3>1. v \in waitMap[a] /\ v # w
      BY <1>0, <2>1 DEF TypeOK
    <3> QED
      BY <3>1, OneWait DEF StrandInv
  <2>3. \A t \in timer[a] : t.session # w.session => t \in timer'[a]
    BY <1>0, <2>1 DEF TypeOK
  <2>4. \A b \in Actors \ {a} : waitMap'[b] = waitMap[b] /\ timer'[b] = timer[b]
    BY <1>0, <2>1 DEF TypeOK
  <2>5. \A m \in Queue(a) : m.session # w.session => m \in Queue(a)'
    BY <1>1, <2>1
  <2>6. ASSUME NEW b \in Actors, NEW v \in waitMap'[b]
        PROVE  /\ v \in waitMap[b]
               /\ \A t \in timer[b] : t.session = v.session => t \in timer'[b]
               /\ \A m \in Queue(b) : m.session = v.session => m \in Queue(b)'
    <3>1. CASE b = a
      BY <2>2, <2>3, <2>5, <3>1
    <3>2. CASE b # a
      BY <1>1, <2>4, <3>2
    <3> QED
      BY <3>1, <3>2
  <2> QED
    BY <2>6, StrandKept DEF StrandInv, Resumes
<1>4. CASE DropResponse(a)
  <2>1. UNCHANGED <<waitMap, timer>> /\ \A w \in waitMap[a] : w.session # h.session
    BY <1>4 DEF DropResponse, runVars
  <2> HIDE DEF h
  <2>2. \A b \in Actors : \A w \in waitMap[b] : \A m \in Queue(b) :
          m.session = w.session => m \in Queue(b)'
    BY <1>1, <2>1
  <2> QED
    BY <2>1, <2>2, StrandKept DEF StrandInv, Resumes
<1> QED
  BY <1>2, <1>3, <1>4 DEF OnMessage

\* A coroutine that is suspended with a timeout has its timer.
LEMMA SuspendStrand ==
  ASSUME StrandInv, NEW a \in Actors, NEW kind, NEW timed \in BOOLEAN, Suspend(a, kind, timed)
  PROVE  NeverStranded'
<1>0. TypeOK
  BY DEF StrandInv, SessionInv
<1>1. PICK w, t :
        /\ w = [session |-> nextSession[a], call |-> calls + 1, kind |-> kind, timed |-> timed,
                request |-> request[a]]
        /\ t = [session |-> nextSession[a], call |-> calls + 1, ok |-> kind = "sleep"]
        /\ waitMap' = [waitMap EXCEPT ![a] = waitMap[a] \cup {w}]
        /\ timer' = IF timed THEN [timer EXCEPT ![a] = timer[a] \cup {t}] ELSE timer
  BY DEF Suspend, NeedsTimer
<1>2. w.session = t.session /\ w.timed = timed
  BY <1>1
<1>3. \A b \in Actors : timer[b] \subseteq timer'[b] /\ Queue(b)' = Queue(b)
  BY <1>0, <1>1 DEF Suspend, Queue, TypeOK
<1>4. \A b \in Actors : \A v \in waitMap'[b] : v \in waitMap[b] \/ (b = a /\ v = w)
  BY <1>0, <1>1 DEF TypeOK
<1>5. timed => t \in timer'[a]
  BY <1>0, <1>1 DEF TypeOK
<1>6. ASSUME NEW b \in Actors, NEW v \in waitMap'[b], v.timed, v \notin waitMap[b]
      PROVE  \E u \in timer'[b] : u.session = v.session
  BY <1>2, <1>4, <1>5, <1>6
<1> QED
  BY <1>3, <1>6, StrandKept DEF StrandInv

LEMMA BodyStrand ==
  ASSUME StrandInv, NEW a \in Actors, Body(a)
  PROVE  NeverStranded'
<1>1. CASE \E kind \in {"call", "sleep"}, timed \in BOOLEAN : Suspend(a, kind, timed)
  BY <1>1, SuspendStrand
<1>2. CASE UNCHANGED <<waitMap, timer, mailbox>>
  <2>1. \A b \in Actors : Queue(b)' = Queue(b)
    BY <1>2 DEF Queue
  <2> QED
    BY <1>2, <2>1, StrandGrows DEF StrandInv
<1>3. \/ \E kind \in {"call", "sleep"}, timed \in BOOLEAN : Suspend(a, kind, timed)
      \/ UNCHANGED <<waitMap, timer, mailbox>>
  BY DEF Body, ClusterCall, ProxyCall, Sleep, RespondRemote, Finish, runVars
<1> QED
  BY <1>1, <1>2, <1>3

LEMMA OutsideStrand ==
  ASSUME StrandInv, NEW a \in Actors, Timeout(a) \/ ExternalSend(a)
  PROVE  NeverStranded'
<1>0. TypeOK
  BY DEF StrandInv, SessionInv
<1>1. CASE ExternalSend(a)
  <2>1. UNCHANGED <<waitMap, timer>> /\ Deliver(a, NoMsg)
    BY <1>1 DEF ExternalSend, runVars
  <2>2. \A b \in Actors : Queue(b) \subseteq Queue(b)'
    BY <1>0, <2>1, NoMsgTyped, Delivered DEF TypeOK
  <2> QED
    BY <2>1, <2>2, StrandGrows DEF StrandInv
<1>2. CASE Timeout(a)
  <2>1. PICK t, m :
          /\ t \in timer[a]
          /\ timer' = [timer EXCEPT ![a] = timer[a] \ {t}] /\ Deliver(a, m)
          /\ m = [NoMsg EXCEPT !.session = t.session, !.isResponse = TRUE, !.ok = t.ok,
                               !.call = t.call]
    BY <1>2 DEF Timeout
  <2>2. t \in Timers
    BY <1>0, <2>1 DEF TypeOK
  <2>3. m \in Msgs /\ m.isResponse /\ m.session = t.session
    BY <2>1, <2>2 DEF Timers, NoMsg, Msgs
  <2>4. IsAnswer(m)
    BY <2>2, <2>3 DEF IsAnswer, Timers, Sessions
  <2>5. \A b \in Actors : Queue(b)' = IF b = a THEN Queue(a) \cup {m} ELSE Queue(b)
    <3>1. mailbox \in [Actors -> Seq(Msgs)]
      BY <1>0 DEF TypeOK
    <3> QED
      BY <2>1, <2>3, <3>1, Delivered
  <2>6. /\ waitMap' = waitMap
        /\ \A b \in Actors : \A u \in timer[b] : u \in timer'[b] \/ (b = a /\ u = t)
    BY <1>0, <1>2, <2>1 DEF Timeout, runVars, TypeOK
  <2>7. ASSUME NEW b \in Actors, NEW v \in waitMap'[b], NEW u \in timer[b],
               u.session = v.session, u \notin timer'[b]
        PROVE  \E x \in Queue(b)' : Resumes(x, v)
    BY <2>3, <2>4, <2>5, <2>6, <2>7 DEF Resumes
  <2> QED
    BY <2>5, <2>6, <2>7, StrandKept DEF StrandInv
<1> QED
  BY <1>1, <1>2

LEMMA RestartStrand ==
  ASSUME StrandInv, NEW n \in Nodes, Restart(n)
  PROVE  NeverStranded'
<1>1. \A a \in Actors :
        \/ waitMap'[a] = {}
        \/ waitMap'[a] = waitMap[a] /\ timer'[a] = timer[a] /\ mailbox'[a] = mailbox[a]
  BY DEF Restart
<1>2. \A a \in Actors : mailbox'[a] = mailbox[a] => Queue(a)' = Queue(a)
  BY DEF Queue
<1> QED
  BY <1>1, <1>2, StrandKept DEF StrandInv

LEMMA NextStrand == StrandInv /\ [Next]_vars => StrandInv'
<1> SUFFICES ASSUME StrandInv, [Next]_vars PROVE StrandInv'
  OBVIOUS
<1>1. SessionInv'
  BY NextSession DEF StrandInv
<1>2. CASE Naming \/ UNCHANGED vars
  <2>1. UNCHANGED <<waitMap, timer, mailbox>>
    BY <1>2 DEF Naming, RegisterName, UnregisterName, runVars, vars
  <2>2. \A b \in Actors : Queue(b)' = Queue(b)
    BY <2>1 DEF Queue
  <2> QED
    BY <1>1, <2>1, <2>2, StrandGrows DEF StrandInv
<1>3. CASE Next /\ ~Naming
  BY <1>1, <1>3, NetStrand, OnMessageStrand, BodyStrand, OutsideStrand, RestartStrand
     DEF Next, StrandInv
<1> QED
  BY <1>2, <1>3

\* A coroutine that waits with a timeout is never stranded: until it is resumed its timer
\* runs or an answer for it is in the mailbox, whatever the network, the other nodes and
\* the names do.
THEOREM ClusterCall_NeverStranded == Spec => []NeverStranded
<1>1. Init => StrandInv
  BY InitSession DEF Init, StrandInv, NeverStranded
<1>2. StrandInv => NeverStranded
  BY DEF StrandInv
<1> QED
  BY <1>1, <1>2, NextStrand, PTL DEF Spec

-----------------------------------------------------------------------------
(* Requests.  That of a call is at one place at most, and at none once it  *)
(* was taken up.                                                           *)

IsRequest(x) == ~x.isResponse /\ x.call # 0

InBox(c, a, i) ==
  i \in DOMAIN mailbox[a] /\ IsRequest(mailbox[a][i]) /\ mailbox[a][i].call = c

InQueue(c) == \E a \in Actors : \E i \in DOMAIN mailbox[a] : InBox(c, a, i)
OnWire(c) == \E p \in wire : IsRequest(p) /\ p.call = c
AtProxy(c) == \E f \in atProxy : f.call = c

OneBox(c) ==
  \A a, b \in Actors : \A i \in DOMAIN mailbox[a], j \in DOMAIN mailbox[b] :
    InBox(c, a, i) /\ InBox(c, b, j) => a = b /\ i = j
OnePacket(c) ==
  \A p, q \in wire : IsRequest(p) /\ IsRequest(q) /\ p.call = c /\ q.call = c => p = q
OneForward(c) == \A f, g \in atProxy : f.call = c /\ g.call = c => f = g

Once(c) ==
  /\ handled[c] <= 1
  /\ handled[c] # 0 => ~InQueue(c) /\ ~OnWire(c) /\ ~AtProxy(c)
  /\ InQueue(c) => ~OnWire(c) /\ ~AtProxy(c)
  /\ OnWire(c) => ~AtProxy(c)
  /\ OneBox(c) /\ OnePacket(c) /\ OneForward(c)

PlaceInv == SessionInv /\ \A c \in Calls : Once(c) /\ (c > calls => handled[c] = 0)

\* Mailboxes: after a delivery, after OnMessage has taken the first message, after a restart.
LEMMA BoxDelivered ==
  ASSUME TypeOK, NEW a \in Actors, NEW m \in Msgs, Deliver(a, m), NEW c, OneBox(c),
         IsRequest(m) /\ m.call = c => ~InQueue(c)
  PROVE  /\ OneBox(c)'
         /\ InQueue(c)' => InQueue(c) \/ (IsRequest(m) /\ m.call = c)
<1> DEFINE l == Len(mailbox[a]) + 1
<1>1. mailbox' = [mailbox EXCEPT ![a] = Append(mailbox[a], m)] /\ mailbox[a] \in Seq(Msgs)
  BY Delivered DEF TypeOK
<1>2. mailbox'[a] = Append(mailbox[a], m) /\ \A b \in Actors \ {a} : mailbox'[b] = mailbox[b]
  BY <1>1 DEF TypeOK
<1>3. /\ DOMAIN mailbox'[a] = DOMAIN mailbox[a] \cup {l} /\ l \notin DOMAIN mailbox[a]
      /\ \A i \in DOMAIN mailbox[a] : mailbox'[a][i] = mailbox[a][i]
      /\ mailbox'[a][l] = m
  BY <1>1, <1>2
<1> HIDE DEF l
<1>4. ASSUME NEW b \in Actors, NEW i, InBox(c, b, i)'
      PROVE  InBox(c, b, i) \/ (b = a /\ i = l /\ IsRequest(m) /\ m.call = c)
  BY <1>2, <1>3, <1>4 DEF InBox, IsRequest
<1>5. \A b \in Actors : \A i : InBox(c, b, i) => InQueue(c)
  BY DEF InBox, InQueue
<1>6. InQueue(c)' => InQueue(c) \/ (IsRequest(m) /\ m.call = c)
  BY <1>4, <1>5 DEF InQueue
<1>7. OneBox(c)'
  <2> SUFFICES ASSUME NEW b \in Actors, NEW d \in Actors, NEW i, NEW j,
                      InBox(c, b, i)', InBox(c, d, j)'
               PROVE  b = d /\ i = j
    BY DEF OneBox
  <2> QED
    BY <1>4, <1>5 DEF OneBox, InBox
<1> QED
  BY <1>6, <1>7

LEMMA BoxTaken ==
  ASSUME TypeOK, NEW a \in Actors, mailbox[a] # <<>>, Taken(a), NEW c, OneBox(c)
  PROVE  /\ OneBox(c)' /\ (InQueue(c)' => InQueue(c))
         /\ IsRequest(Head(mailbox[a])) /\ Head(mailbox[a]).call = c => InQueue(c) /\ ~InQueue(c)'
<1>1. /\ Head(mailbox[a]) = mailbox[a][1]
      /\ \A b \in Actors \ {a} : mailbox'[b] = mailbox[b]
      /\ DOMAIN mailbox'[a] = 1..(Len(mailbox[a]) - 1) /\ Len(mailbox[a]) \in Nat \ {0}
      /\ \A i \in DOMAIN mailbox'[a] : mailbox'[a][i] = mailbox[a][i + 1]
  BY TakenFrom DEF TypeOK
<1>2. DOMAIN mailbox[a] = 1..Len(mailbox[a])
  BY DEF TypeOK
<1>3. ASSUME NEW b \in Actors, NEW i, InBox(c, b, i)'
      PROVE  \/ b # a /\ InBox(c, b, i)
             \/ b = a /\ i \in 1..(Len(mailbox[a]) - 1) /\ InBox(c, a, i + 1)
  <2>1. CASE b = a
    <3>1. i \in 1..(Len(mailbox[a]) - 1) /\ i + 1 \in DOMAIN mailbox[a]
      BY <1>1, <1>2, <1>3, <2>1 DEF InBox
    <3> QED
      BY <1>1, <1>3, <2>1, <3>1 DEF InBox, IsRequest
  <2>2. CASE b # a
    BY <1>1, <1>3, <2>2 DEF InBox, IsRequest
  <2> QED
    BY <2>1, <2>2
<1>4. \A b \in Actors : \A i : InBox(c, b, i) => InQueue(c) /\ i \in DOMAIN mailbox[b]
  BY DEF InBox, InQueue
<1>5. InQueue(c)' => InQueue(c)
  BY <1>3, <1>4 DEF InQueue
<1>6. \A b, d \in Actors : \A i, j : InBox(c, b, i) /\ InBox(c, d, j) => b = d /\ i = j
  BY <1>4 DEF OneBox
<1>7. OneBox(c)'
  <2> SUFFICES ASSUME NEW b \in Actors, NEW d \in Actors, NEW i, NEW j,
                      InBox(c, b, i)', InBox(c, d, j)'
               PROVE  b = d /\ i = j
    BY DEF OneBox
  <2>1. CASE b # a /\ d # a
    BY <1>3, <1>6, <2>1
  <2>2. CASE b = a /\ d = a
    <3>1. i \in Nat /\ j \in Nat /\ i + 1 = j + 1
      BY <1>3, <1>6, <2>2
    <3> QED
      BY <2>2, <3>1
  <2>3. CASE (b = a) # (d = a)
    BY <1>3, <1>6, <2>3
  <2> QED
    BY <2>1, <2>2, <2>3
<1>8. ASSUME IsRequest(Head(mailbox[a])), Head(mailbox[a]).call = c
      PROVE  InQueue(c) /\ ~InQueue(c)'
  <2>1. 1 \in DOMAIN mailbox[a]
    BY <1>1, <1>2
  <2>2. InBox(c, a, 1)
    BY <1>1, <1>8, <2>1 DEF InBox
  <2>3. ASSUME NEW b \in Actors, NEW i, InBox(c, b, i)' PROVE FALSE
    <3>1. b = a /\ i \in 1..(Len(mailbox[a]) - 1) /\ i + 1 = 1
      BY <1>3, <1>6, <2>2, <2>3
    <3> QED
      BY <1>1, <3>1
  <2> QED
    BY <1>4, <2>2, <2>3 DEF InQueue
<1> QED
  BY <1>5, <1>7, <1>8

LEMMA BoxLess ==
  ASSUME NEW c, OneBox(c),
         \A a \in Actors : mailbox'[a] = mailbox[a] \/ mailbox'[a] = <<>>
  PROVE  OneBox(c)' /\ (InQueue(c)' => InQueue(c))
<1>1. \A a \in Actors : \A i : InBox(c, a, i)' => InBox(c, a, i)
  BY DEF InBox, IsRequest
<1> QED
  BY <1>1 DEF OneBox, InQueue, InBox

\* A call keeps to one place when it gets no new place.
LEMMA OnceKept ==
  ASSUME NEW c, Once(c), handled'[c] = handled[c], OneBox(c)', InQueue(c)' => InQueue(c),
         \A p \in wire' : p \in wire \/ ~IsRequest(p) \/ p.call # c,
         \A f \in atProxy' : f \in atProxy \/ f.call # c
  PROVE  Once(c)'
<1>1. OnWire(c)' => OnWire(c)
  BY DEF OnWire, IsRequest
<1>2. AtProxy(c)' => AtProxy(c)
  BY DEF AtProxy
<1>3. OnePacket(c)' /\ OneForward(c)'
  BY DEF Once, OnePacket, OneForward, IsRequest
<1> QED
  BY <1>1, <1>2, <1>3 DEF Once

\* A call not yet made has no place.
LEMMA Nowhere ==
  ASSUME SessionInv, NEW c \in Calls, c > calls
  PROVE  ~InQueue(c) /\ ~OnWire(c) /\ ~AtProxy(c)
<1>1. calls \in Nat /\ ~(c <= calls)
  BY DEF SessionInv, TypeOK, Calls
<1>2. ~InQueue(c)
  BY <1>1 DEF SessionInv, CarryInv, InQueue, InBox, Queue, Fits
<1>3. ~OnWire(c) /\ ~AtProxy(c)
  BY <1>1 DEF SessionInv, CarryInv, OnWire, AtProxy, Fits
<1> QED
  BY <1>2, <1>3


\* Steps that move no request.
LEMMA PlaceQuiet ==
  ASSUME PlaceInv, SessionInv', UNCHANGED <<calls, handled>>,
         \A c \in Calls : OneBox(c)' /\ (InQueue(c)' => InQueue(c)),
         \A p \in wire' : p \in wire \/ ~IsRequest(p),
         \A f \in atProxy' : f \in atProxy
  PROVE  PlaceInv'
<1> SUFFICES ASSUME NEW c \in Calls PROVE Once(c)' /\ (c > calls' => handled'[c] = 0)
  BY DEF PlaceInv
<1>1. Once(c)'
  BY OnceKept DEF PlaceInv
<1> QED
  BY <1>1 DEF PlaceInv

LEMMA InitPlace == Init => PlaceInv
<1> SUFFICES ASSUME Init, NEW c \in Calls PROVE Once(c) /\ handled[c] = 0
  BY InitSession DEF PlaceInv
<1>1. handled[c] = 0 /\ wire = {} /\ atProxy = {}
  BY DEF Init
<1>2. \A a \in Actors : DOMAIN mailbox[a] = {}
  BY DEF Init
<1> QED
  BY <1>1, <1>2 DEF Once, InQueue, OnWire, AtProxy, OneBox, OnePacket, OneForward

LEMMA ForwardPlace ==
  ASSUME PlaceInv, NEW f \in atProxy, Forward(f)
  PROVE  PlaceInv'
<1>1. SessionInv'
  BY NetSession DEF PlaceInv
<1>2. PICK p : /\ p = Packet(f.from, f.ref[1], f.ref[2], f.session, FALSE, f.call, 0)
               /\ wire' = wire \/ wire' = wire \cup {p}
  BY DEF Forward
<1>3. p.call = f.call
  BY <1>2 DEF Packet
<1>4. atProxy' = atProxy \ {f} /\ UNCHANGED <<mailbox, handled, calls>>
  BY DEF Forward, history, budgets
<1>5. \A q \in wire' : q \in wire \/ q = p
  BY <1>2
<1> SUFFICES ASSUME NEW c \in Calls PROVE Once(c)' /\ (c > calls' => handled'[c] = 0)
  BY <1>1 DEF PlaceInv
<1>6. OneBox(c)' /\ (InQueue(c)' => InQueue(c)) /\ Once(c)
  BY <1>4, BoxLess DEF PlaceInv, Once
<1>7. CASE c # f.call
  BY <1>3, <1>4, <1>5, <1>6, <1>7, OnceKept DEF PlaceInv
<1>8. CASE c = f.call
  <2>1. AtProxy(c) /\ handled[c] = 0 /\ ~InQueue(c) /\ ~OnWire(c)
    BY <1>6, <1>8 DEF Once, AtProxy
  <2>2. ~AtProxy(c)' /\ OneForward(c)'
    BY <1>4, <1>6, <1>8 DEF Once, OneForward, AtProxy
  <2>3. OnePacket(c)'
    BY <1>5, <2>1 DEF OnWire, OnePacket, IsRequest
  <2>4. ~InQueue(c)' /\ handled'[c] = 0
    BY <1>4, <1>6, <2>1
  <2> QED
    BY <1>6, <2>2, <2>3, <2>4 DEF Once
<1> QED
  BY <1>7, <1>8

LEMMA ReceivePlace ==
  ASSUME PlaceInv, NEW p \in wire, Receive(p)
  PROVE  PlaceInv'
<1>0. SessionInv' /\ TypeOK
  BY NetSession DEF PlaceInv, SessionInv
<1>1. wire' = wire \ {p} /\ UNCHANGED <<atProxy, handled, calls>>
  BY DEF Receive, history, budgets
<1>2. \/ mailbox' = mailbox
      \/ \E a \in Actors, m \in Msgs :
           Deliver(a, m) /\ m.isResponse = p.isResponse /\ m.call = p.call
  <2> DEFINE m == [session |-> p.session, isResponse |-> p.isResponse, ok |-> TRUE,
                   node |-> p.node, name |-> p.name, call |-> p.call]
  <2>1. p \in Packets
    BY <1>0 DEF TypeOK
  <2>2. m \in Msgs
    BY <2>1 DEF Packets, Msgs
  <2>3. CASE p.to # None /\ nameToActor[p.target][p.to] # None
    <3>1. nameToActor[p.target][p.to] \in Actors
      BY <1>0, <2>1, <2>3 DEF TypeOK, Packets
    <3>2. Deliver(nameToActor[p.target][p.to], m)
      BY <2>3 DEF Receive
    <3> QED
      BY <2>2, <3>1, <3>2
  <2>4. CASE ~(p.to # None /\ nameToActor[p.target][p.to] # None)
    BY <2>4 DEF Receive
  <2> QED
    BY <2>3, <2>4
<1>3. CASE mailbox' = mailbox
  <2>1. \A c \in Calls : OneBox(c)' /\ (InQueue(c)' => InQueue(c))
    BY <1>3, BoxLess DEF PlaceInv, Once
  <2> QED
    BY <1>0, <1>1, <2>1, PlaceQuiet
<1>4. ASSUME NEW a \in Actors, NEW m \in Msgs, Deliver(a, m),
             m.isResponse = p.isResponse, m.call = p.call
      PROVE  PlaceInv'
  <2> SUFFICES ASSUME NEW c \in Calls PROVE Once(c)' /\ (c > calls' => handled'[c] = 0)
    BY <1>0 DEF PlaceInv
  <2>1. Once(c) /\ OneBox(c) /\ (c > calls' => handled'[c] = 0)
    BY <1>1 DEF PlaceInv, Once
  <2>2. IsRequest(m) /\ m.call = c => OnWire(c) /\ ~InQueue(c)
    BY <1>4, <2>1 DEF Once, OnWire, IsRequest
  <2>3. OneBox(c)' /\ (InQueue(c)' => InQueue(c) \/ (IsRequest(m) /\ m.call = c))
    BY <1>0, <1>4, <2>1, <2>2, BoxDelivered
  <2>4. CASE ~(IsRequest(m) /\ m.call = c)
    BY <1>1, <2>1, <2>3, <2>4, OnceKept
  <2>5. CASE IsRequest(m) /\ m.call = c
    <3>1. handled[c] = 0 /\ ~AtProxy(c)
      BY <2>1, <2>2, <2>5 DEF Once
    <3>2. ~OnWire(c)' /\ OnePacket(c)'
      BY <1>1, <1>4, <2>1, <2>5 DEF Once, OnePacket, OnWire, IsRequest
    <3>3. handled'[c] = 0 /\ ~AtProxy(c)' /\ OneForward(c)'
      BY <1>1, <2>1, <3>1 DEF Once, AtProxy, OneForward
    <3> QED
      BY <2>1, <2>3, <3>2, <3>3 DEF Once
  <2> QED
    BY <2>4, <2>5
<1> QED
  BY <1>2, <1>3, <1>4

\* OnMessage takes the request of a call up, or something that is no request.
LEMMA OnMessagePlace ==
  ASSUME PlaceInv, NEW a \in Actors, OnMessage(a)
  PROVE  PlaceInv'
<1> DEFINE h == Head(mailbox[a])
<1>0. TypeOK /\ SessionInv /\ SessionInv'
  BY OnMessageSession DEF PlaceInv, SessionInv
<1>1. mailbox[a] # <<>> /\ Taken(a)
  BY DEF OnMessage, StartCoroutine, ResumeWaiting, DropResponse, Handles
<1>2. ASSUME NEW c \in Calls
      PROVE  /\ OneBox(c)' /\ (InQueue(c)' => InQueue(c))
             /\ IsRequest(h) /\ h.call = c => InQueue(c) /\ ~InQueue(c)'
  BY <1>0, <1>1, BoxTaken DEF PlaceInv, Once
<1>3. UNCHANGED <<wire, atProxy, calls>>
  BY DEF OnMessage, StartCoroutine, ResumeWaiting, DropResponse, netVars, budgets
<1>4. CASE handled' = handled
  BY <1>0, <1>2, <1>3, <1>4, PlaceQuiet
<1>5. CASE StartCoroutine(a) /\ h.call \in Calls
  <2>1. handled' = [handled EXCEPT ![h.call] = @ + 1] /\ ~IsAnswer(h)
    BY <1>5 DEF StartCoroutine
  <2>2. h \in Queue(a) /\ h \in Msgs
    BY <1>0, <1>1, TakenFrom DEF TypeOK
  <2>3. IsRequest(h)
    <3>1. h.call # 0 /\ h.call <= calls /\ h.session = asked[h.call].session
      BY <1>0, <1>5, <2>2 DEF SessionInv, CarryInv, Fits, Calls
    <3>2. h.session # 0 /\ h.session \in {0} \cup Sessions
      BY <1>0, <1>5, <2>2, <3>1 DEF SessionInv, AskInv, Msgs
    <3>3. ~h.isResponse
      BY <2>1, <3>2 DEF IsAnswer, Sessions
    <3> QED
      BY <3>1, <3>3 DEF IsRequest
  <2> SUFFICES ASSUME NEW c \in Calls PROVE Once(c)' /\ (c > calls' => handled'[c] = 0)
    BY <1>0 DEF PlaceInv
  <2>4. Once(c) /\ (c > calls' => handled[c] = 0)
    BY <1>3 DEF PlaceInv
  <2>5. CASE c # h.call
    <3>1. handled'[c] = handled[c]
      BY <1>0, <2>1, <2>5 DEF TypeOK
    <3> QED
      BY <1>2, <1>3, <2>4, <3>1, OnceKept
  <2>6. CASE c = h.call
    <3>1. InQueue(c) /\ ~InQueue(c)' /\ OneBox(c)'
      BY <1>2, <2>3, <2>6
    <3>2. handled[c] = 0 /\ ~OnWire(c) /\ ~AtProxy(c)
      BY <2>4, <3>1 DEF Once
    <3>3. handled'[c] = 1
      BY <1>0, <2>1, <2>6, <3>2 DEF TypeOK
    <3>4. ~OnWire(c)' /\ ~AtProxy(c)' /\ OnePacket(c)' /\ OneForward(c)'
      BY <1>3, <2>4, <3>2 DEF Once, OnWire, AtProxy, OnePacket, OneForward
    <3>5. ~(c > calls')
      <4>1. c <= calls
        BY <1>0, <2>2, <2>6 DEF SessionInv, CarryInv, Fits, Calls
      <4>2. c \in Nat /\ calls \in Nat
        BY <1>0 DEF Calls, TypeOK
      <4> QED
        BY <1>3, <4>1, <4>2
    <3> QED
      BY <3>1, <3>3, <3>4, <3>5 DEF Once
  <2> QED
    BY <2>5, <2>6
<1> QED
  BY <1>4, <1>5 DEF OnMessage, StartCoroutine, ResumeWaiting, DropResponse, history

\* The request of a new call gets one place: none, the wire or the mailbox of the proxy.
LEMMA SuspendPlace ==
  ASSUME PlaceInv, SessionInv', NEW a \in Actors, NEW kind, NEW timed, Suspend(a, kind, timed),
         NEW x, NEW y, x.call = calls + 1, y.call = calls + 1,
         \/ UNCHANGED <<atProxy, wire>>
         \/ atProxy' = atProxy /\ wire' = wire \cup {x}
         \/ wire' = wire /\ atProxy' = atProxy \cup {y}
  PROVE  PlaceInv'
<1> SUFFICES ASSUME NEW c \in Calls PROVE Once(c)' /\ (c > calls' => handled'[c] = 0)
  BY DEF PlaceInv
<1>1. UNCHANGED <<mailbox, handled>> /\ calls' = calls + 1 /\ calls \in Nat /\ c \in Nat
  BY DEF Suspend, PlaceInv, SessionInv, TypeOK, Calls
<1>2. Once(c) /\ (c > calls => handled[c] = 0)
  BY DEF PlaceInv
<1>3. c > calls' => handled'[c] = 0
  BY <1>1, <1>2
<1>4. OneBox(c)' /\ (InQueue(c)' => InQueue(c))
  BY <1>1, <1>2, BoxLess DEF Once
<1>5. CASE c # calls + 1
  BY <1>1, <1>2, <1>3, <1>4, <1>5, OnceKept
<1>6. CASE c = calls + 1
  <2>1. ~InQueue(c) /\ ~OnWire(c) /\ ~AtProxy(c) /\ handled[c] = 0
    BY <1>1, <1>2, <1>6, Nowhere DEF PlaceInv
  <2>2. OnePacket(c)' /\ OneForward(c)' /\ ~(OnWire(c)' /\ AtProxy(c)')
    BY <2>1 DEF OnWire, AtProxy, OnePacket, OneForward, IsRequest
  <2> QED
    BY <1>1, <1>3, <1>4, <2>1, <2>2 DEF Once
<1> QED
  BY <1>5, <1>6

LEMMA BodyPlace ==
  ASSUME PlaceInv, NEW a \in Actors, Body(a)
  PROVE  PlaceInv'
<1>0. TypeOK /\ SessionInv'
  BY BodySession DEF PlaceInv, SessionInv
<1>1. ASSUME NEW ref \in Callable, NEW timed \in BOOLEAN, ClusterCall(a, ref, timed)
      PROVE  PlaceInv'
  <2>1. Suspend(a, "call", timed) /\ atProxy' = atProxy
    BY <1>1 DEF ClusterCall
  <2>2. PICK q \in Packets : q = Packet(a, ref[1], ref[2], nextSession[a], FALSE, calls + 1, 0)
    BY <1>0, <2>1, SuspendTyped, PacketTyped
  <2>3. SendToRemote(q) /\ q.call = calls + 1
    BY <1>1, <2>2 DEF ClusterCall, Packet
  <2>4. wire' = wire \/ \E v \in 1..Transports : wire' = wire \cup {[q EXCEPT !.via = v]}
    BY <1>0, <2>3, Sent
  <2>5. \A v : [q EXCEPT !.via = v].call = calls + 1
    BY <2>3 DEF Packets
  <2>6. wire' = wire \/ \E x : x.call = calls + 1 /\ wire' = wire \cup {x}
    BY <2>4, <2>5
  <2> QED
    BY <1>0, <2>1, <2>3, <2>6, SuspendPlace
<1>2. ASSUME NEW ref \in Callable, NEW timed \in BOOLEAN, ProxyCall(a, ref, timed)
      PROVE  PlaceInv'
  <2>1. Suspend(a, "call", timed) /\ wire' = wire
    BY <1>2 DEF ProxyCall
  <2>2. PICK y : y.call = calls + 1 /\ atProxy' = atProxy \cup {y}
    BY <1>2 DEF ProxyCall
  <2> QED
    BY <1>0, <2>1, <2>2, SuspendPlace
<1>3. CASE Sleep(a)
  <2>1. Suspend(a, "sleep", TRUE) /\ UNCHANGED <<atProxy, wire>>
    BY <1>3 DEF Sleep, netVars
  <2>2. PICK x : x.call = calls + 1
    <3> DEFINE r == [call |-> calls + 1]
    <3>1. r.call = calls + 1
      OBVIOUS
    <3> QED
      BY <3>1
  <2> QED
    BY <1>0, <2>1, <2>2, SuspendPlace
<1>4. CASE RespondRemote(a)
  <2>1. UNCHANGED <<calls, handled, mailbox, atProxy>>
    BY <1>4 DEF RespondRemote, history
  <2> DEFINE m == request[a]
  <2>2. m \in Msgs /\ m.node \in Nodes
    BY <1>0, <1>4 DEF RespondRemote, TypeOK, Msgs
  <2>3. Packet(a, m.node, m.name, m.session, TRUE, m.call, replies + 1) \in Packets
    <3>1. /\ m.name \in Names \cup {None} /\ m.session \in {0} \cup Sessions
          /\ m.call \in {0} \cup Calls /\ replies + 1 \in Nat
      BY <1>0, <2>2 DEF TypeOK, Msgs
    <3> QED
      BY <1>0, <2>2, <3>1, PacketTyped
  <2>4. PICK q \in Packets : q = Packet(a, m.node, m.name, m.session, TRUE, m.call, replies + 1)
    BY <2>3
  <2>5. SendToRemote(q) /\ q.isResponse
    BY <1>4, <2>4 DEF RespondRemote, ReplySession, Packet
  <2>6. \A p \in wire' : p \in wire \/ ~IsRequest(p)
    BY <1>0, <2>5, Carried DEF IsRequest
  <2>7. \A c \in Calls : OneBox(c)' /\ (InQueue(c)' => InQueue(c))
    BY <2>1, BoxLess DEF PlaceInv, Once
  <2> QED
    BY <1>0, <2>1, <2>6, <2>7, PlaceQuiet
<1>5. CASE Finish(a)
  <2>1. UNCHANGED <<calls, handled, mailbox, atProxy, wire>>
    BY <1>5 DEF Finish, netVars, history, budgets
  <2>2. \A c \in Calls : OneBox(c)' /\ (InQueue(c)' => InQueue(c))
    BY <2>1, BoxLess DEF PlaceInv, Once
  <2> QED
    BY <1>0, <2>1, <2>2, PlaceQuiet
<1> QED
  BY <1>1, <1>2, <1>3, <1>4, <1>5 DEF Body

\* What timers and outsiders send is no request of a call.
LEMMA OutsidePlace ==
  ASSUME PlaceInv, NEW a \in Actors, Timeout(a) \/ ExternalSend(a)
  PROVE  PlaceInv'
<1>0. TypeOK /\ SessionInv'
  BY OutsideSession DEF PlaceInv, SessionInv
<1>1. UNCHANGED <<wire, atProxy, handled, calls>>
  BY DEF Timeout, ExternalSend, netVars, history, budgets
<1>2. PICK m \in Msgs : Deliver(a, m) /\ ~IsRequest(m)
  <2>1. CASE ExternalSend(a)
    BY <2>1, NoMsgTyped DEF ExternalSend, NoMsg, IsRequest
  <2>2. CASE Timeout(a)
    <3>1. PICK t, m :
            /\ t \in timer[a]
            /\ Deliver(a, m)
            /\ m = [NoMsg EXCEPT !.session = t.session, !.isResponse = TRUE, !.ok = t.ok,
                                 !.call = t.call]
      BY <2>2 DEF Timeout
    <3>2. t \in Timers
      BY <1>0, <3>1 DEF TypeOK
    <3>3. m \in Msgs /\ m.isResponse
      BY <3>1, <3>2 DEF Timers, NoMsg, Msgs
    <3> QED
      BY <3>1, <3>3 DEF IsRequest
  <2> QED
    BY <2>1, <2>2
<1>3. \A c \in Calls : OneBox(c)' /\ (InQueue(c)' => InQueue(c))
  BY <1>0, <1>2, BoxDelivered DEF PlaceInv, Once
<1> QED
  BY <1>0, <1>1, <1>3, PlaceQuiet

LEMMA NextPlace == PlaceInv /\ [Next]_vars => PlaceInv'
<1> SUFFICES ASSUME PlaceInv, [Next]_vars PROVE PlaceInv'
  OBVIOUS
<1>0. SessionInv'
  BY NextSession DEF PlaceInv
<1>1. CASE Naming \/ (\E n \in Nodes : Restart(n)) \/ UNCHANGED vars
  <2>1. /\ UNCHANGED <<handled, calls>>
        /\ \A f \in atProxy' : f \in atProxy
        /\ \A p \in wire' : p \in wire
        /\ \A a \in Actors : mailbox'[a] = mailbox[a] \/ mailbox'[a] = <<>>
    <3>1. CASE Naming \/ UNCHANGED vars
      BY <3>1 DEF Naming, RegisterName, UnregisterName, vars, netVars, history, budgets
    <3>2. CASE \E n \in Nodes : Restart(n)
      BY <3>2 DEF Restart
    <3> QED
      BY <1>1, <3>1, <3>2
  <2>2. \A c \in Calls : OneBox(c)' /\ (InQueue(c)' => InQueue(c))
    BY <2>1, BoxLess DEF PlaceInv, Once
  <2> QED
    BY <1>0, <2>1, <2>2, PlaceQuiet
<1>2. CASE Next /\ ~Naming /\ ~ \E n \in Nodes : Restart(n)
  BY <1>2, ForwardPlace, ReceivePlace, OnMessagePlace, BodyPlace, OutsidePlace DEF Next
<1> QED
  BY <1>1, <1>2

\* The request of a call is taken up at most once: no transport, proxy, name or restart makes
\* a second one of it.
THEOREM ClusterCall_HandledOnce == Spec => []HandledOnce
<1>1. PlaceInv => HandledOnce
  BY DEF PlaceInv, Once, HandledOnce
<1> QED
  BY <1>1, InitPlace, NextPlace, PTL DEF Spec
=============================================================================
