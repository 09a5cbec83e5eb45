------------------------ MODULE CoroutineCall_proofs -------------------------
(***************************************************************************)
(* Proofs about CoroutineCall for any number of actors, calls and          *)
(* messages: responses reach the coroutine that asked, a coroutine is      *)
(* resumed once, and one that waits with a timeout is never stranded.      *)
(***************************************************************************)
EXTENDS CoroutineCall, TLAPS

USE DEF StopWaiting, Taken, AllocSession, NeedsTimer, ReplySession

-----------------------------------------------------------------------------
(* Mailboxes.                                                              *)

\* A message that is delivered is the only one added, and reaches a registered actor.
LEMMA DeliverQueue ==
  ASSUME mailbox \in [Actors -> Seq(Msgs)], NEW to, NEW m \in Msgs, Deliver(to, m)
  PROVE  /\ mailbox' \in [Actors -> Seq(Msgs)]
         /\ \A b \in Actors : Queue(b)' \subseteq Queue(b) \cup (IF b = to THEN {m} ELSE {})
         /\ \A b \in Actors : Queue(b) \subseteq Queue(b)'
         /\ to \in Actors /\ status[to] = "registered" => m \in Queue(to)'
<1>1. CASE to \in Actors /\ status[to] = "registered"
  <2>1. mailbox' = [mailbox EXCEPT ![to] = Append(mailbox[to], m)]
    BY <1>1 DEF Deliver
  <2>2. Append(mailbox[to], m) \in Seq(Msgs)
    BY <1>1
  <2>3. \A b \in Actors \ {to} : mailbox'[b] = mailbox[b]
    BY <2>1
  <2>4. mailbox'[to] = Append(mailbox[to], m)
    BY <1>1, <2>1
  <2>5. {Append(mailbox[to], m)[i] : i \in 1..Len(Append(mailbox[to], m))} =
          {mailbox[to][i] : i \in 1..Len(mailbox[to])} \cup {m}
    BY <1>1
  <2>6. Queue(to)' = Queue(to) \cup {m}
    BY <2>4, <2>5 DEF Queue
  <2> QED BY <1>1, <2>1, <2>2, <2>3, <2>6 DEF Queue
<1>2. CASE ~(to \in Actors /\ status[to] = "registered")
  BY <1>2 DEF Deliver, Queue
<1> QED BY <1>1, <1>2

\* The elements of a sequence are its head and those of its tail.
LEMMA HeadAndTail ==
  ASSUME NEW S, NEW q \in Seq(S), q # <<>>
  PROVE  {q[i] : i \in 1..Len(q)} = {Head(q)} \cup {Tail(q)[i] : i \in 1..Len(Tail(q))}
  OBVIOUS

\* Taking the front of a mailbox removes at most that message.
LEMMA PopQueue ==
  ASSUME mailbox \in [Actors -> Seq(Msgs)], NEW a \in Actors, mailbox[a] # <<>>,
         mailbox' = [mailbox EXCEPT ![a] = Tail(mailbox[a])]
  PROVE  /\ mailbox' \in [Actors -> Seq(Msgs)]
         /\ Head(mailbox[a]) \in Msgs /\ Head(mailbox[a]) \in Queue(a)
         /\ Queue(a) = {Head(mailbox[a])} \cup Queue(a)'
         /\ \A b \in Actors \ {a} : Queue(b)' = Queue(b)
<1>1. Tail(mailbox[a]) \in Seq(Msgs) /\ Head(mailbox[a]) \in Msgs
  OBVIOUS
<1>2. \A b \in Actors \ {a} : mailbox'[b] = mailbox[b]
  OBVIOUS
<1>3. mailbox'[a] = Tail(mailbox[a])
  OBVIOUS
<1>4. {mailbox[a][i] : i \in 1..Len(mailbox[a])} =
        {Head(mailbox[a])} \cup {Tail(mailbox[a])[i] : i \in 1..Len(Tail(mailbox[a]))}
  BY HeadAndTail
<1>5. Queue(a) = {Head(mailbox[a])} \cup Queue(a)'
  BY <1>3, <1>4 DEF Queue
<1> QED BY <1>1, <1>2, <1>5 DEF Queue

\* The messages of a mailbox are messages.
LEMMA QueueMsgs ==
  ASSUME mailbox \in [Actors -> Seq(Msgs)], NEW a \in Actors
  PROVE  Queue(a) \subseteq Msgs
  BY DEF Queue

-----------------------------------------------------------------------------
(* Type correctness.                                                       *)

\* The initial state is well typed.
LEMMA TypeInit == Init => TypeOK
<1> SUFFICES ASSUME Init PROVE TypeOK
  OBVIOUS
<1> USE CallAssumption
<1>1. NoMsg \in Msgs /\ NoFrame \in Frames
  BY DEF NoMsg, Plain, NoFrame, Msgs, Frames
<1>2. /\ status \in [Actors -> {"registered", "unregistered", "released"}]
      /\ pc \in [Actors -> {"idle", "body", "arm", "resume"}]
      /\ \A a \in Actors : pc[a] = "idle"
  BY DEF Init
<1>3. mailbox \in [Actors -> Seq(Msgs)]
  BY DEF Init
<1>4. request \in [Actors -> Msgs] /\ session \in [Actors -> 0..MaxCalls]
  BY <1>1 DEF Init
<1>5. /\ calls \in 0..MaxCalls /\ nextSession \in [Actors -> 1..(calls + 1)]
      /\ requests \in Nat /\ replies \in Nat
  BY DEF Init
<1>6. waitMap \in [Actors -> SUBSET Sessions] /\ responseMap \in [Actors -> SUBSET Sessions]
  BY DEF Init
<1>7. /\ frame \in [Actors -> [Sessions -> Frames]]
      /\ response \in [Actors -> [Sessions -> Msgs]]
  BY <1>1 DEF Init, PerSession
<1>8. /\ timer \in [Actors -> [Sessions -> {"none", "armed", "collected", "fired", "cancelled"}]]
      /\ resumed \in [Actors -> [Sessions -> Nat]]
  BY DEF Init, PerSession
<1> QED BY <1>2, <1>3, <1>4, <1>5, <1>6, <1>7, <1>8 DEF TypeOK

\* Taking an element from the set of one actor keeps the type of the sets.
LEMMA RemoveTyped ==
  ASSUME NEW S, NEW f \in [Actors -> SUBSET S], NEW a \in Actors, NEW x
  PROVE  [f EXCEPT ![a] = f[a] \ {x}] \in [Actors -> SUBSET S]
  OBVIOUS

\* Changing one session's value of one actor keeps the type of the values.
LEMMA UpdateTyped ==
  ASSUME NEW T, NEW f \in [Actors -> [Sessions -> T]], NEW a \in Actors, NEW s \in Sessions,
         NEW x \in T
  PROVE  [f EXCEPT ![a][s] = x] \in [Actors -> [Sessions -> T]]
  OBVIOUS

\* OnMessage and await_resume keep the types.
LEMMA TypeMessage ==
  ASSUME TypeOK, NEW a \in Actors, OnMessage(a) \/ AwaitResume(a)
  PROVE  TypeOK'
<1> USE DEF TypeOK, waitVars, mapVars, budgetVars, actorVars
<1>1. CASE StartCoroutine(a)
  <2>1. mailbox' \in [Actors -> Seq(Msgs)] /\ Head(mailbox[a]) \in Msgs
    BY <1>1, PopQueue DEF StartCoroutine, Handles
  <2> QED BY <1>1, <2>1 DEF StartCoroutine
<1>2. CASE ResumeWaiting(a)
  <2> DEFINE s == Head(mailbox[a]).session
  <2>1. mailbox' \in [Actors -> Seq(Msgs)] /\ Head(mailbox[a]) \in Msgs
    BY <1>2, PopQueue DEF ResumeWaiting, Handles
  <2>2. s \in Sessions
    BY <1>2 DEF ResumeWaiting
  <2>3. frame[a][s].request \in Msgs
    BY <2>2 DEF Frames
  <2>4. /\ waitMap' \in [Actors -> SUBSET Sessions] /\ responseMap' \in [Actors -> SUBSET Sessions]
        /\ request' \in [Actors -> Msgs]
    BY <1>2, <2>2, <2>3 DEF ResumeWaiting
  <2>5. /\ response' \in [Actors -> [Sessions -> Msgs]] /\ resumed' \in [Actors -> [Sessions -> Nat]]
    <3>1. /\ response' = [response EXCEPT ![a][s] = Head(mailbox[a])]
          /\ resumed' = [resumed EXCEPT ![a][s] = resumed[a][s] + 1]
      BY <1>2 DEF ResumeWaiting
    <3>2. response \in [Actors -> [Sessions -> Msgs]] /\ resumed \in [Actors -> [Sessions -> Nat]]
      OBVIOUS
    <3> HIDE DEF TypeOK, s
    <3> QED BY <2>1, <2>2, <3>1, <3>2
  <2>6. /\ session' \in [Actors -> 0..MaxCalls] /\ pc' \in [Actors -> {"idle", "body", "arm", "resume"}]
        /\ \A b \in Actors : pc'[b] \in {"arm", "resume"} => session'[b] \in Sessions
    BY <1>2, <2>2 DEF ResumeWaiting, Sessions
  <2> QED BY <1>2, <2>1, <2>4, <2>5, <2>6 DEF ResumeWaiting
<1>3. CASE DropResponse(a)
  <2>1. mailbox' \in [Actors -> Seq(Msgs)]
    BY <1>3, PopQueue DEF DropResponse, Handles
  <2> QED BY <1>3, <2>1 DEF DropResponse
<1>4. CASE AwaitResume(a)
  <2> DEFINE s == session[a]
  <2>4. s \in Sessions
    BY <1>4 DEF AwaitResume
  <2>5. \/ responseMap' = [responseMap EXCEPT ![a] = responseMap[a] \ {s}]
        \/ responseMap' = responseMap
    BY <1>4 DEF AwaitResume
  <2>6. timer' = timer \/ timer' = [timer EXCEPT ![a][s] = "cancelled"]
    BY <1>4, <2>4 DEF AwaitResume, AfterAnswer
  <2> HIDE DEF s
  <2>1. responseMap' \in [Actors -> SUBSET Sessions]
    <3>1. responseMap \in [Actors -> SUBSET Sessions]
      OBVIOUS
    <3>2. [responseMap EXCEPT ![a] = responseMap[a] \ {s}] \in [Actors -> SUBSET Sessions]
      BY <3>1, RemoveTyped
    <3> HIDE DEF TypeOK
    <3> QED BY <2>5, <3>1, <3>2
  <2>2. timer' \in [Actors -> [Sessions -> {"none", "armed", "collected", "fired", "cancelled"}]]
    <3>1. timer \in [Actors -> [Sessions -> {"none", "armed", "collected", "fired", "cancelled"}]]
      OBVIOUS
    <3>2. [timer EXCEPT ![a][s] = "cancelled"]
            \in [Actors -> [Sessions -> {"none", "armed", "collected", "fired", "cancelled"}]]
      BY <2>4, <3>1, UpdateTyped
    <3> HIDE DEF TypeOK
    <3> QED BY <2>6, <3>1, <3>2
  <2> USE DEF s
  <2>3. /\ pc' \in [Actors -> {"idle", "body", "arm", "resume"}] /\ session' \in [Actors -> 0..MaxCalls]
        /\ \A b \in Actors : pc'[b] \in {"arm", "resume"} => session'[b] \in Sessions
    BY <1>4, CallAssumption DEF AwaitResume
  <2> QED BY <1>4, <2>1, <2>2, <2>3 DEF AwaitResume
<1> QED BY <1>1, <1>2, <1>3, <1>4 DEF OnMessage

\* Storing the suspended coroutine keeps the types.
LEMMA TypeSuspend ==
  ASSUME TypeOK, NEW a \in Actors, NEW kind \in {"call", "sleep"},
         NEW to \in Actors \cup {System}, NEW timed \in BOOLEAN, Suspend(a, kind, to, timed)
  PROVE  /\ nextSession[a] \in Sessions
         /\ calls' \in 0..MaxCalls /\ nextSession' \in [Actors -> 1..(calls' + 1)]
         /\ waitMap' \in [Actors -> SUBSET Sessions]
         /\ frame' \in [Actors -> [Sessions -> Frames]]
         /\ session' \in [Actors -> 0..MaxCalls] /\ session'[a] \in Sessions
<1> USE CallAssumption DEF TypeOK, Suspend
<1>1. nextSession[a] \in Sessions
  BY DEF Sessions
<1>2. [request |-> request[a], kind |-> kind, target |-> to, timed |-> timed] \in Frames
  BY DEF Frames
<1>3. frame' \in [Actors -> [Sessions -> Frames]]
  BY <1>1, <1>2
<1>4. calls' \in 0..MaxCalls /\ nextSession' \in [Actors -> 1..(calls' + 1)]
  <2>1. calls' = calls + 1 /\ calls < MaxCalls /\ calls \in Nat /\ MaxCalls \in Nat
    OBVIOUS
  <2>2. /\ nextSession' = [nextSession EXCEPT ![a] = nextSession[a] + 1]
        /\ nextSession \in [Actors -> 1..(calls + 1)]
    OBVIOUS
  <2>3. nextSession[a] + 1 \in 1..(calls' + 1) /\ 1..(calls + 1) \subseteq 1..(calls' + 1)
    BY <2>1, <2>2
  <2> HIDE DEF TypeOK, Suspend
  <2> QED BY <2>1, <2>2, <2>3
<1>5. session' = [session EXCEPT ![a] = nextSession[a]] /\ session \in [Actors -> 0..MaxCalls]
  OBVIOUS
<1>6. waitMap' = [waitMap EXCEPT ![a] = waitMap[a] \cup {nextSession[a]}]
      /\ waitMap \in [Actors -> SUBSET Sessions]
  OBVIOUS
<1> HIDE DEF TypeOK, Suspend
<1>7. waitMap' \in [Actors -> SUBSET Sessions]
  BY <1>1, <1>6
<1>8. session' \in [Actors -> 0..MaxCalls] /\ session'[a] \in Sessions
  BY <1>1, <1>5 DEF Sessions
<1> QED BY <1>1, <1>3, <1>4, <1>7, <1>8

\* What a coroutine does between suspensions keeps the types.
LEMMA TypeBody ==
  ASSUME TypeOK, NEW a \in Actors, Body(a) \/ Arm(a)
  PROVE  TypeOK'
<1> USE DEF TypeOK, waitVars, mapVars, budgetVars, actorVars
<1>1. ASSUME NEW to \in Actors, NEW timed \in BOOLEAN, CallSend(a, to, timed) PROVE TypeOK'
  <2>1. /\ nextSession[a] \in Sessions
        /\ calls' \in 0..MaxCalls /\ nextSession' \in [Actors -> 1..(calls' + 1)]
        /\ waitMap' \in [Actors -> SUBSET Sessions]
        /\ frame' \in [Actors -> [Sessions -> Frames]]
        /\ session' \in [Actors -> 0..MaxCalls] /\ session'[a] \in Sessions
    BY ZenonT(40), <1>1, TypeSuspend DEF CallSend
  <2>2. [from |-> a, session |-> nextSession[a], isResponse |-> FALSE, ok |-> TRUE] \in Msgs
    BY <2>1 DEF Msgs, Sessions
  <2>3. mailbox' \in [Actors -> Seq(Msgs)]
    BY <1>1, <2>2, DeliverQueue DEF CallSend
  <2>4. /\ pc' \in [Actors -> {"idle", "body", "arm", "resume"}]
        /\ \A b \in Actors : pc'[b] \in {"arm", "resume"} => session'[b] \in Sessions
    BY SMTT(30), <1>1, <2>1 DEF CallSend, Suspend
  <2> QED BY <1>1, <2>1, <2>3, <2>4 DEF CallSend, Suspend
<1>2. CASE SleepStart(a)
  <2>1. /\ nextSession[a] \in Sessions
        /\ calls' \in 0..MaxCalls /\ nextSession' \in [Actors -> 1..(calls' + 1)]
        /\ waitMap' \in [Actors -> SUBSET Sessions]
        /\ frame' \in [Actors -> [Sessions -> Frames]]
        /\ session' \in [Actors -> 0..MaxCalls] /\ session'[a] \in Sessions
    BY <1>2, TypeSuspend DEF SleepStart
  <2>2. /\ pc' \in [Actors -> {"idle", "body", "arm", "resume"}]
        /\ \A b \in Actors : pc'[b] \in {"arm", "resume"} => session'[b] \in Sessions
    BY SMTT(30), <1>2, <2>1 DEF SleepStart, Suspend
  <2> QED BY <1>2, <2>1, <2>2 DEF SleepStart, Suspend
<1>3. CASE Arm(a)
  <2>1. timer' \in [Actors -> [Sessions -> {"none", "armed", "collected", "fired", "cancelled"}]]
    BY <1>3 DEF Arm
  <2>2. NoMsg \in Msgs
    BY CallAssumption DEF NoMsg, Plain, Msgs
  <2> QED BY <1>3, <2>1, <2>2, CallAssumption DEF Arm
<1>4. ASSUME NEW ok \in BOOLEAN, RespondToCall(a, ok) PROVE TypeOK'
  <2>1. [from |-> a, session |-> request[a].session, isResponse |-> TRUE, ok |-> ok] \in Msgs
    BY DEF Msgs
  <2>2. mailbox' \in [Actors -> Seq(Msgs)]
    BY <1>4, <2>1, DeliverQueue DEF RespondToCall
  <2> QED BY <1>4, <2>2 DEF RespondToCall
<1>5. ASSUME NEW to \in Actors, SendToActor(a, to) PROVE TypeOK'
  <2>1. Plain(a) \in Msgs
    BY CallAssumption DEF Plain, Msgs
  <2>2. mailbox' \in [Actors -> Seq(Msgs)]
    BY <1>5, <2>1, DeliverQueue DEF SendToActor
  <2>3. calls' \in 0..MaxCalls /\ nextSession' \in [Actors -> 1..(calls' + 1)]
    BY <1>5, CallAssumption DEF SendToActor
  <2> QED BY <1>5, <2>2, <2>3 DEF SendToActor
<1>6. CASE Finish(a)
  <2>1. NoMsg \in Msgs
    BY CallAssumption DEF NoMsg, Plain, Msgs
  <2> QED BY <1>6, <2>1 DEF Finish
<1> QED BY <1>1, <1>2, <1>3, <1>4, <1>5, <1>6 DEF Body

\* Timers, senders from outside and the end of an actor keep the types.
LEMMA TypeOthers ==
  ASSUME TypeOK, NEW a \in Actors,
         TimerStep(a) \/ ExternalSend(a) \/ UnregisterActor(a) \/ Release(a)
  PROVE  TypeOK'
<1> USE DEF TypeOK, waitVars, mapVars, budgetVars, actorVars
<1>1. ASSUME NEW s \in Sessions, TimerCollect(a, s) PROVE TypeOK'
  BY <1>1 DEF TimerCollect
<1>2. ASSUME NEW s \in Sessions, TimerSend(a, s) PROVE TypeOK'
  <2>1. Timeout(a, s) \in Msgs
    BY CallAssumption DEF Timeout, Msgs, Sessions
  <2>2. mailbox' \in [Actors -> Seq(Msgs)]
    BY <1>2, <2>1, DeliverQueue DEF TimerSend
  <2> QED BY <1>2, <2>2 DEF TimerSend
<1>3. CASE ExternalSend(a)
  <2>1. NoMsg \in Msgs
    BY CallAssumption DEF NoMsg, Plain, Msgs
  <2>2. mailbox' \in [Actors -> Seq(Msgs)]
    BY <1>3, <2>1, DeliverQueue DEF ExternalSend
  <2> QED BY <1>3, <2>2 DEF ExternalSend
<1>4. CASE UnregisterActor(a)
  BY <1>4 DEF UnregisterActor
<1>5. CASE Release(a)
  <2>1. mailbox' \in [Actors -> Seq(Msgs)]
    BY <1>5 DEF Release
  <2> QED BY <1>5, <2>1 DEF Release
<1> QED BY <1>1, <1>2, <1>3, <1>4, <1>5 DEF TimerStep

\* Every step keeps the types.
LEMMA TypeNext == TypeOK /\ [Next]_vars => TypeOK'
<1>1. ASSUME TypeOK, UNCHANGED vars PROVE TypeOK'
  BY <1>1 DEF TypeOK, vars
<1> QED BY <1>1, TypeMessage, TypeBody, TypeOthers DEF Next

\* Type correctness of the call mechanism.
THEOREM TypeCorrect == Spec => []TypeOK
  BY TypeInit, TypeNext, PTL DEF Spec

-----------------------------------------------------------------------------
(* Sessions.                                                               *)

Past(a, s) == s < nextSession[a]

\* A session that was not handed out is in none of the maps; await_suspend and
\* await_resume work on one that was.
FreshInv ==
  \A a \in Actors, s \in Sessions : ~Past(a, s) =>
    s \notin waitMap[a] /\ s \notin responseMap[a] /\ resumed[a][s] = 0 /\ timer[a][s] = "none"

PlaceInv ==
  \A a \in Actors :
    /\ pc[a] = "arm" => session[a] \in waitMap[a] /\ timer[a][session[a]] = "none"
    /\ pc[a] = "resume" => session[a] \in responseMap[a] /\ session[a] \notin waitMap[a]

\* Only the timed waits have timers.
TimerInv ==
  \A a \in Actors, s \in Sessions : timer[a][s] # "none" => Past(a, s) /\ frame[a][s].timed

SessionInv == TypeOK /\ FreshInv /\ PlaceInv /\ TimerInv /\ ResumedOnce

\* A step of the coroutine's body that suspends it.
Suspends(a) ==
  SleepStart(a) \/ \E to \in Actors, timed \in BOOLEAN : CallSend(a, to, timed)

\* Suspending takes the next session, and only that of this actor.
LEMMA SuspendSession ==
  ASSUME TypeOK, NEW a \in Actors, Suspends(a)
  PROVE  /\ nextSession[a] \in Sessions
         /\ nextSession' = [nextSession EXCEPT ![a] = nextSession[a] + 1]
         /\ waitMap' = [waitMap EXCEPT ![a] = waitMap[a] \cup {nextSession[a]}]
         /\ session' = [session EXCEPT ![a] = nextSession[a]]
         /\ pc[a] = "body" /\ pc' = [pc EXCEPT ![a] = "arm"]
         /\ \A b \in Actors, s \in Sessions :
              ~(b = a /\ s = nextSession[a]) => frame'[b][s] = frame[b][s]
         /\ frame'[a][nextSession[a]].request = request[a]
         /\ UNCHANGED <<status, request, responseMap, response, timer, resumed>>
<1>1. nextSession[a] \in Sessions
  BY CallAssumption DEF Suspends, SleepStart, CallSend, Suspend, TypeOK, Sessions
<1>2. PICK kind, to, timed : Suspend(a, kind, to, timed)
  BY DEF Suspends, SleepStart, CallSend
<1>3. /\ \A b \in Actors, s \in Sessions :
           ~(b = a /\ s = nextSession[a]) => frame'[b][s] = frame[b][s]
      /\ frame'[a][nextSession[a]].request = request[a]
  BY <1>1, <1>2 DEF Suspend, TypeOK
<1>4. pc' = [pc EXCEPT ![a] = "arm"] /\ UNCHANGED <<status, request, responseMap, response, timer>>
  BY DEF Suspends, SleepStart, CallSend, mapVars
<1> QED BY <1>1, <1>2, <1>3, <1>4 DEF Suspend

\* The other steps hand out no session and leave the stored frames alone.
LEMMA SessionFrame ==
  ASSUME TypeOK, [Next]_vars, \A a \in Actors : ~Suspends(a)
  PROVE  nextSession' = nextSession /\ frame' = frame
  BY ZenonT(40) DEF Next, OnMessage, StartCoroutine, ResumeWaiting, DropResponse, AwaitResume, Body, Arm,
     RespondToCall, SendToActor, Finish, TimerStep, TimerCollect, TimerSend, ExternalSend,
     UnregisterActor, Release, vars, waitVars, Suspends

\* What is known of a session that was handed out stays so.
LEMMA FrameKept ==
  ASSUME TypeOK, [Next]_vars, NEW a \in Actors, NEW s \in Sessions, Past(a, s)
  PROVE  Past(a, s)' /\ frame'[a][s] = frame[a][s]
<1>1. CASE \A b \in Actors : ~Suspends(b)
  BY <1>1, SessionFrame DEF Past
<1>2. ASSUME NEW b \in Actors, Suspends(b) PROVE Past(a, s)' /\ frame'[a][s] = frame[a][s]
  <2>1. nextSession[b] \in Nat /\ nextSession[a] \in Nat /\ s \in Nat
    BY DEF TypeOK, Sessions
  <2>2. ~(a = b /\ s = nextSession[b])
    BY <2>1 DEF Past
  <2> QED BY SMTT(30), <1>2, <2>1, <2>2, SuspendSession DEF Past, TypeOK
<1> QED BY <1>1, <1>2

\* The timers of the sessions change only as the timer thread and the awaiters do it.
LEMMA SessionNext ==
  ASSUME SessionInv, [Next]_vars
  PROVE  SessionInv'
<1> USE DEF SessionInv
<1>1. TypeOK'
  BY TypeNext
<1>2. ASSUME NEW a \in Actors, Suspends(a)
      PROVE  FreshInv' /\ PlaceInv' /\ TimerInv' /\ ResumedOnce'
  <2> DEFINE n == nextSession[a]
  <2>1. /\ n \in Sessions /\ nextSession' = [nextSession EXCEPT ![a] = n + 1]
        /\ waitMap' = [waitMap EXCEPT ![a] = waitMap[a] \cup {n}]
        /\ session' = [session EXCEPT ![a] = n]
        /\ pc' = [pc EXCEPT ![a] = "arm"]
        /\ \A b \in Actors, s \in Sessions : ~(b = a /\ s = n) => frame'[b][s] = frame[b][s]
        /\ UNCHANGED <<responseMap, timer, resumed>>
    BY <1>2, SuspendSession
  <2>2. ~Past(a, n) /\ \A b \in Actors, s \in Sessions : Past(b, s)' <=> (Past(b, s) \/ (b = a /\ s = n))
    BY <2>1 DEF Past, TypeOK, Sessions
  <2>3. n \notin waitMap[a] /\ n \notin responseMap[a] /\ resumed[a][n] = 0 /\ timer[a][n] = "none"
    BY <2>1, <2>2 DEF FreshInv
  <2> HIDE DEF n
  <2>4. FreshInv'
    BY <2>1, <2>2 DEF FreshInv, TypeOK
  <2>5. PlaceInv'
    BY <2>1, <2>2, <2>3 DEF PlaceInv, TypeOK
  <2>6. TimerInv'
    BY <2>1, <2>2, <2>3 DEF TimerInv, TypeOK
  <2>7. ResumedOnce'
    BY <2>1, <2>2, <2>3 DEF ResumedOnce, TypeOK
  <2> QED BY <2>4, <2>5, <2>6, <2>7
<1>3. ASSUME NEW a \in Actors, ResumeWaiting(a)
      PROVE  FreshInv' /\ PlaceInv' /\ TimerInv' /\ ResumedOnce'
  <2> DEFINE s == Head(mailbox[a]).session
  <2>1. /\ s \in waitMap[a] /\ s \in Sessions /\ pc[a] = "idle"
        /\ waitMap' = [waitMap EXCEPT ![a] = waitMap[a] \ {s}]
        /\ responseMap' = [responseMap EXCEPT ![a] = responseMap[a] \cup {s}]
        /\ resumed' = [resumed EXCEPT ![a][s] = resumed[a][s] + 1]
        /\ session' = [session EXCEPT ![a] = s] /\ pc' = [pc EXCEPT ![a] = "resume"]
        /\ nextSession' = nextSession /\ frame' = frame /\ timer' = timer
    BY <1>3 DEF ResumeWaiting, Handles, TypeOK
  <2>2. Past(a, s) /\ resumed[a][s] = 0
    BY <2>1 DEF FreshInv, ResumedOnce
  <2> HIDE DEF s
  <2>3. \A b \in Actors, u \in Sessions :
          resumed'[b][u] = IF b = a /\ u = s THEN 1 ELSE resumed[b][u]
    BY <2>1, <2>2 DEF TypeOK
  <2>4. FreshInv'
    BY <2>1, <2>2, <2>3 DEF FreshInv, Past, TypeOK
  <2>5. PlaceInv'
    BY <2>1 DEF PlaceInv, TypeOK
  <2>6. TimerInv'
    BY <2>1 DEF TimerInv, Past
  <2>7. ResumedOnce'
    BY <2>1, <2>3 DEF ResumedOnce, TypeOK
  <2> QED BY <2>4, <2>5, <2>6, <2>7
<1>4. ASSUME NEW a \in Actors, AwaitResume(a) \/ Arm(a) \/ Release(a)
      PROVE  FreshInv' /\ PlaceInv' /\ TimerInv' /\ ResumedOnce'
  <2>1. /\ nextSession' = nextSession /\ frame' = frame /\ resumed' = resumed
        /\ pc[a] \in {"arm", "resume"} => session[a] \in Sessions
        /\ \A b \in Actors : pc'[b] = pc[b] \/ (b = a /\ pc'[b] \in {"idle", "body"})
        /\ \A b \in Actors \ {a} : session'[b] = session[b]
    BY <1>4 DEF AwaitResume, Arm, Release, waitVars, actorVars, TypeOK
  <2>2. /\ \A b \in Actors : waitMap'[b] \subseteq waitMap[b] /\ responseMap'[b] \subseteq responseMap[b]
        /\ \A b \in Actors \ {a} : waitMap'[b] = waitMap[b] /\ responseMap'[b] = responseMap[b]
    <3>1. \/ waitMap' = waitMap
          \/ waitMap' = [waitMap EXCEPT ![a] = {}]
      BY <1>4 DEF AwaitResume, Arm, Release, waitVars
    <3>2. \/ responseMap' = responseMap
          \/ responseMap' = [responseMap EXCEPT ![a] = {}]
          \/ responseMap' = [responseMap EXCEPT ![a] = responseMap[a] \ {session[a]}]
      BY <1>4 DEF AwaitResume, Arm, Release, mapVars
    <3>3. waitMap \in [Actors -> SUBSET Sessions] /\ responseMap \in [Actors -> SUBSET Sessions]
      BY DEF TypeOK
    <3> QED BY <3>1, <3>2, <3>3
  <2>3. \A b \in Actors, s \in Sessions :
          \/ timer'[b][s] = timer[b][s]
          \/ b = a /\ timer[b][s] # "none" /\ timer'[b][s] = "cancelled"
          \/ b = a /\ pc[a] = "arm" /\ s = session[a] /\ frame[a][s].timed
    BY <1>4 DEF AwaitResume, AfterAnswer, Arm, Release, TypeOK
  <2>4. pc'[a] \in {"idle", "body"}
    BY <1>4 DEF AwaitResume, Arm, Release, actorVars, TypeOK
  <2>5. pc[a] = "arm" => Past(a, session[a])
    BY <2>1 DEF PlaceInv, FreshInv
  <2>6. FreshInv' /\ TimerInv'
    BY <2>1, <2>2, <2>3, <2>5 DEF FreshInv, TimerInv, Past
  <2>7. PlaceInv'
    <3>1. \A b \in Actors \ {a} : pc[b] \in {"arm", "resume"} =>
            session[b] \in Sessions /\ timer'[b][session[b]] = timer[b][session[b]]
      BY <2>3 DEF TypeOK
    <3> QED BY <2>1, <2>2, <2>4, <3>1 DEF PlaceInv
  <2>8. ResumedOnce'
    BY <2>1, <2>2 DEF ResumedOnce
  <2> QED BY <2>6, <2>7, <2>8
<1>5. ASSUME NEW a \in Actors, TimerStep(a)
      PROVE  FreshInv' /\ PlaceInv' /\ TimerInv' /\ ResumedOnce'
  <2>1. UNCHANGED <<nextSession, frame, resumed, waitMap, responseMap, pc, session>>
    BY <1>5 DEF TimerStep, TimerCollect, TimerSend, waitVars, mapVars, actorVars
  <2>2. \A b \in Actors, s \in Sessions :
          timer'[b][s] = timer[b][s] \/ (timer[b][s] # "none" /\ timer'[b][s] # "none")
    <3>1. PICK u \in Sessions, x \in {"collected", "fired"} :
            timer[a][u] # "none" /\ timer' = [timer EXCEPT ![a][u] = x]
      BY <1>5 DEF TimerStep, TimerCollect, TimerSend
    <3> QED BY <3>1 DEF TypeOK
  <2> QED BY <2>1, <2>2 DEF FreshInv, PlaceInv, TimerInv, ResumedOnce, Past, TypeOK
<1>6. ASSUME NEW a \in Actors,
             \/ StartCoroutine(a) \/ DropResponse(a) \/ Finish(a)
             \/ ExternalSend(a) \/ UnregisterActor(a)
             \/ \E to \in Actors : SendToActor(a, to)
             \/ \E ok \in BOOLEAN : RespondToCall(a, ok)
      PROVE  FreshInv' /\ PlaceInv' /\ TimerInv' /\ ResumedOnce'
  <2>1. UNCHANGED <<nextSession, frame, resumed, waitMap, responseMap, timer, session>>
    BY <1>6 DEF StartCoroutine, DropResponse, Finish, ExternalSend, UnregisterActor, SendToActor,
       RespondToCall, waitVars, mapVars, actorVars
  <2>2. \A b \in Actors : pc'[b] = pc[b] \/ pc'[b] \in {"idle", "body"}
    BY <1>6 DEF StartCoroutine, DropResponse, Finish, ExternalSend, UnregisterActor, SendToActor,
       RespondToCall, actorVars, TypeOK
  <2> QED BY <2>1, <2>2 DEF FreshInv, PlaceInv, TimerInv, ResumedOnce, Past
<1>7. CASE UNCHANGED vars
  BY <1>1, <1>7 DEF vars, FreshInv, PlaceInv, TimerInv, ResumedOnce, Past
<1> QED BY <1>1, <1>2, <1>3, <1>4, <1>5, <1>6, <1>7 DEF Next, OnMessage, Body, Suspends

\* The sessions' inductive invariant holds in every reachable state.
THEOREM SessionCorrect == Spec => []SessionInv
<1>1. Init => SessionInv
  BY TypeInit DEF Init, SessionInv, FreshInv, PlaceInv, TimerInv, ResumedOnce, PerSession
<1> QED BY <1>1, SessionNext, PTL DEF Spec

\* For any number of actors and calls, a suspended coroutine is resumed once.
THEOREM ResumedOnceCorrect == Spec => []ResumedOnce
  BY SessionCorrect, PTL DEF SessionInv

-----------------------------------------------------------------------------
(* Requests and responses.                                                 *)

\* The caller of a request with a session waits, or waited, for its receiver.
Request(a, m) ==
  m.session > 0 =>
    /\ ~m.isResponse /\ m.from \in Actors /\ Past(m.from, m.session)
    /\ frame[m.from][m.session].kind = "call" /\ frame[m.from][m.session].target = a

AskInv ==
  \A a \in Actors :
    /\ \A m \in Queue(a) : ~m.isResponse => Request(a, m)
    /\ Request(a, request[a])
    /\ \A s \in Sessions : Request(a, frame[a][s].request)

\* A timeout or wakeup in a mailbox, or taken from one, came from a timer that fired.
FiredInv ==
  \A a \in Actors :
    /\ \A m \in Queue(a) : IsAnswer(m) /\ m.from = System => timer[a][m.session] = "fired"
    /\ \A s \in responseMap[a] : response[a][s].from = System => timer[a][s] = "fired"

MatchInv == SessionInv /\ AskInv /\ FiredInv /\ ResponsesMatch

\* What a step may put into the mailbox of b: a message without a session, a response
\* to the request being handled, a request of a new session, a timeout or wakeup.
New(b, m) ==
  \/ m.session = 0
  \/ \E a \in Actors : /\ b = request[a].from /\ m.isResponse
                      /\ m.from = a /\ m.session = request[a].session
  \/ \E a \in Actors : /\ ~m.isResponse /\ m.from = a /\ m.session = nextSession[a]
                      /\ Past(a, m.session)'
                      /\ frame'[a][m.session].kind = "call" /\ frame'[a][m.session].target = b
  \/ /\ m.session \in Sessions /\ m = Timeout(b, m.session)
     /\ timer[b][m.session] = "collected" /\ timer'[b][m.session] = "fired"

\* The messages of a mailbox were there before, or are one of these.
LEMMA QueueStep ==
  ASSUME TypeOK, [Next]_vars, NEW b \in Actors, NEW m \in Queue(b)'
  PROVE  m \in Msgs /\ (m \in Queue(b) \/ New(b, m))
<1>1. mailbox \in [Actors -> Seq(Msgs)] /\ TypeOK'
  BY TypeNext DEF TypeOK
<1>2. m \in Msgs
  BY SMTT(30), <1>1, QueueMsgs DEF TypeOK, Queue
<1>3. ASSUME NEW a \in Actors, NEW to \in Actors, NEW timed \in BOOLEAN, CallSend(a, to, timed)
      PROVE  m \in Queue(b) \/ New(b, m)
  <2> DEFINE n == [from |-> a, session |-> nextSession[a], isResponse |-> FALSE, ok |-> TRUE]
  <2>1. nextSession[a] \in Sessions /\ nextSession[a] < nextSession'[a]
    <3>1. Suspends(a)
      BY <1>3 DEF Suspends
    <3>2. nextSession[a] \in Sessions /\ nextSession' = [nextSession EXCEPT ![a] = nextSession[a] + 1]
      BY <3>1, SuspendSession
    <3>3. DOMAIN nextSession = Actors
      BY DEF TypeOK
    <3> QED BY <3>2, <3>3, CallAssumption DEF Sessions
  <2>2. n \in Msgs
    BY <2>1 DEF Msgs, Sessions
  <2>3. m \in Queue(b) \/ (b = to /\ m = n)
    BY <1>1, <1>3, <2>2, DeliverQueue DEF CallSend
  <2>4. frame'[a][nextSession[a]].kind = "call" /\ frame'[a][nextSession[a]].target = to
    BY <1>3, <2>1 DEF CallSend, Suspend, TypeOK
  <2> QED BY <2>1, <2>3, <2>4 DEF New, Past
<1>4. ASSUME NEW a \in Actors, NEW ok \in BOOLEAN, RespondToCall(a, ok)
      PROVE  m \in Queue(b) \/ New(b, m)
  <2> DEFINE n == [from |-> a, session |-> request[a].session, isResponse |-> TRUE, ok |-> ok]
  <2>1. n \in Msgs
    BY DEF Msgs, TypeOK
  <2>2. m \in Queue(b) \/ (b = request[a].from /\ m = n)
    BY <1>1, <1>4, <2>1, DeliverQueue DEF RespondToCall
  <2> QED BY <2>2 DEF New
<1>5. ASSUME NEW a \in Actors,
             ExternalSend(a) \/ \E to \in Actors : SendToActor(a, to)
      PROVE  m \in Queue(b) \/ New(b, m)
  <2>1. NoMsg \in Msgs /\ Plain(a) \in Msgs
    BY CallAssumption DEF NoMsg, Plain, Msgs
  <2>2. m \in Queue(b) \/ m = NoMsg \/ m = Plain(a)
    BY <1>1, <1>5, <2>1, DeliverQueue DEF ExternalSend, SendToActor
  <2> QED BY <2>2 DEF New, NoMsg, Plain
<1>6. ASSUME NEW a \in Actors, NEW s \in Sessions, TimerSend(a, s)
      PROVE  m \in Queue(b) \/ New(b, m)
  <2>1. Timeout(a, s) \in Msgs /\ Timeout(a, s).session = s
    BY CallAssumption DEF Timeout, Msgs, Sessions
  <2>2. m \in Queue(b) \/ (b = a /\ m = Timeout(a, s))
    BY <1>1, <1>6, <2>1, DeliverQueue DEF TimerSend
  <2>3. timer[a][s] = "collected" /\ timer'[a][s] = "fired"
    BY <1>6 DEF TimerSend, TypeOK
  <2> QED BY <2>1, <2>2, <2>3 DEF New
<1>7. ASSUME NEW a \in Actors, OnMessage(a) PROVE m \in Queue(b)
  <2>1. mailbox[a] # <<>> /\ mailbox' = [mailbox EXCEPT ![a] = Tail(mailbox[a])]
    BY <1>7 DEF OnMessage, StartCoroutine, ResumeWaiting, DropResponse, Handles
  <2> QED BY <1>1, <2>1, PopQueue
<1>8. ASSUME NEW a \in Actors, Release(a) PROVE m \in Queue(b)
  BY <1>1, <1>8 DEF Release, Queue
<1>9. CASE mailbox' = mailbox
  BY <1>2, <1>9 DEF Queue
<1> QED BY <1>2, <1>3, <1>4, <1>5, <1>6, <1>7, <1>8, <1>9
        DEF Next, AwaitResume, Body, Arm, SleepStart, Finish, TimerStep, TimerCollect,
            UnregisterActor, vars

\* A response in responseMap_ was there before, or was just taken from the mailbox.
LEMMA ResponseStep ==
  ASSUME TypeOK, [Next]_vars, NEW a \in Actors, NEW s \in responseMap'[a]
  PROVE  \/ s \in responseMap[a] /\ response'[a][s] = response[a][s]
         \/ response'[a][s] \in Queue(a) /\ IsAnswer(response'[a][s]) /\ response'[a][s].session = s
<1>0. responseMap \in [Actors -> SUBSET Sessions] /\ TypeOK' /\ s \in Sessions
  BY TypeNext DEF TypeOK
<1>1. ASSUME NEW b \in Actors, ResumeWaiting(b)
      PROVE  \/ s \in responseMap[a] /\ response'[a][s] = response[a][s]
             \/ response'[a][s] \in Queue(a) /\ IsAnswer(response'[a][s]) /\ response'[a][s].session = s
  <2> DEFINE m == Head(mailbox[b])
  <2>1. m \in Queue(b) /\ IsAnswer(m) /\ m.session \in Sessions
    BY <1>1, PopQueue DEF ResumeWaiting, Handles, TypeOK
  <2>2. /\ responseMap' = [responseMap EXCEPT ![b] = responseMap[b] \cup {m.session}]
        /\ response' = [response EXCEPT ![b][m.session] = m]
    BY <1>1 DEF ResumeWaiting
  <2> HIDE DEF m
  <2>3. CASE a = b /\ s = m.session
    <3>1. response'[a][s] = m
      <4>1. response \in [Actors -> [Sessions -> Msgs]]
        BY DEF TypeOK
      <4> QED BY <1>0, <2>2, <2>3, <4>1
    <3> QED BY <2>1, <2>3, <3>1
  <2>4. CASE ~(a = b /\ s = m.session)
    <3>1. response \in [Actors -> [Sessions -> Msgs]]
      BY DEF TypeOK
    <3>2. response'[a][s] = response[a][s]
      BY <1>0, <2>1, <2>2, <2>4, <3>1
    <3>3. s \in responseMap[a]
      BY <1>0, <2>1, <2>2, <2>4
    <3> QED BY <3>2, <3>3
  <2> QED BY <2>3, <2>4
<1>2. ASSUME NEW b \in Actors, AwaitResume(b) \/ Release(b)
      PROVE  s \in responseMap[a] /\ response'[a][s] = response[a][s]
  <2>1. \/ responseMap' = responseMap
        \/ responseMap' = [responseMap EXCEPT ![b] = {}]
        \/ responseMap' = [responseMap EXCEPT ![b] = responseMap[b] \ {session[b]}]
    BY <1>2 DEF AwaitResume, Release
  <2>2. response' = response
    BY <1>2 DEF AwaitResume, Release
  <2> QED BY <1>0, <2>1, <2>2
<1>3. CASE responseMap' = responseMap /\ response' = response
  BY <1>3
<1> QED BY <1>1, <1>2, <1>3
        DEF Next, OnMessage, StartCoroutine, DropResponse, Body, Arm, SleepStart, CallSend,
            RespondToCall, SendToActor, Finish, TimerStep, TimerCollect, TimerSend, ExternalSend,
            UnregisterActor, vars, mapVars

\* The request being handled is the one before, none, one from the mailbox, or that of
\* the coroutine resumed; a stored one is the one before or that being handled.
LEMMA RequestStep ==
  ASSUME TypeOK, [Next]_vars, NEW a \in Actors
  PROVE  /\ \/ request'[a] \in {request[a], NoMsg}
            \/ request'[a] \in Queue(a) /\ ~IsAnswer(request'[a])
            \/ \E s \in Sessions : request'[a] = frame[a][s].request
         /\ \A s \in Sessions : frame'[a][s].request \in {frame[a][s].request, request[a]}
<1>1. \A s \in Sessions : frame'[a][s].request \in {frame[a][s].request, request[a]}
  <2>1. ASSUME NEW b \in Actors, Suspends(b), NEW s \in Sessions
        PROVE  frame'[a][s].request \in {frame[a][s].request, request[a]}
    BY <2>1, SuspendSession
  <2> QED BY <2>1, SessionFrame
<1>2. \/ request'[a] \in {request[a], NoMsg}
      \/ request'[a] \in Queue(a) /\ ~IsAnswer(request'[a])
      \/ \E s \in Sessions : request'[a] = frame[a][s].request
  <2>0. request \in [Actors -> Msgs] /\ mailbox \in [Actors -> Seq(Msgs)] /\ waitMap \in [Actors -> SUBSET Sessions]
    BY DEF TypeOK
  <2>1. ASSUME NEW b \in Actors, StartCoroutine(b)
        PROVE  request'[a] = request[a] \/ (request'[a] \in Queue(a) /\ ~IsAnswer(request'[a]))
    <3>1. Head(mailbox[b]) \in Queue(b)
      BY <2>0, <2>1, PopQueue DEF StartCoroutine, Handles
    <3> QED BY <2>0, <2>1, <3>1 DEF StartCoroutine
  <2>2. ASSUME NEW b \in Actors, ResumeWaiting(b)
        PROVE  request'[a] = request[a] \/ \E s \in Sessions : request'[a] = frame[a][s].request
    <3>1. Head(mailbox[b]).session \in Sessions
      BY <2>0, <2>2 DEF ResumeWaiting
    <3> QED BY <2>0, <2>2, <3>1 DEF ResumeWaiting
  <2>3. ASSUME NEW b \in Actors, Arm(b) \/ Finish(b)
        PROVE  request'[a] \in {request[a], NoMsg}
    BY <2>0, <2>3 DEF Arm, Finish
  <2>4. CASE request' = request
    BY <2>4
  <2> QED BY <2>1, <2>2, <2>3, <2>4
          DEF Next, OnMessage, DropResponse, AwaitResume, Body, SleepStart, CallSend, RespondToCall,
              SendToActor, TimerStep, TimerCollect, TimerSend, ExternalSend, UnregisterActor,
              Release, vars, actorVars
<1> QED BY <1>1, <1>2

\* What a message was the request or the answer of, it remains.
LEMMA MatchKept ==
  ASSUME TypeOK, [Next]_vars, NEW a \in Actors, NEW m \in Msgs
  PROVE  /\ Request(a, m) => Request(a, m)'
         /\ IsAnswer(m) /\ Answers(a, m) => Answers(a, m)'
<1>1. m.session > 0 => m.session \in Sessions
  BY CallAssumption DEF Msgs, Sessions
<1>2. \A b \in Actors : m.session > 0 /\ Past(b, m.session) =>
        Past(b, m.session)' /\ frame'[b][m.session] = frame[b][m.session]
  BY <1>1, FrameKept
<1> QED BY <1>2 DEF Request, Answers, IsAnswer, Past

\* A timer that fired stays fired.
LEMMA FiredKept ==
  ASSUME SessionInv, [Next]_vars, NEW a \in Actors, NEW s \in Sessions, timer[a][s] = "fired"
  PROVE  timer'[a][s] = "fired"
<1>0. /\ timer \in [Actors -> [Sessions -> {"none", "armed", "collected", "fired", "cancelled"}]]
      /\ \A b \in Actors : pc[b] \in {"arm", "resume"} => session[b] \in Sessions
  BY DEF SessionInv, TypeOK
<1>1. ASSUME NEW b \in Actors, Arm(b) PROVE timer'[a][s] = "fired"
  <2>1. timer[b][session[b]] = "none"
    BY <1>1 DEF Arm, SessionInv, PlaceInv
  <2> QED BY <1>0, <1>1, <2>1 DEF Arm
<1>2. ASSUME NEW b \in Actors, AwaitResume(b) PROVE timer'[a][s] = "fired"
  BY <1>0, <1>2 DEF AwaitResume, AfterAnswer
<1>3. ASSUME NEW b \in Actors, TimerStep(b) PROVE timer'[a][s] = "fired"
  BY <1>0, <1>3 DEF TimerStep, TimerCollect, TimerSend
<1>4. CASE timer' = timer
  BY <1>4
<1> QED BY <1>1, <1>2, <1>3, <1>4
        DEF Next, OnMessage, StartCoroutine, ResumeWaiting, DropResponse, Body, SleepStart,
            CallSend, RespondToCall, SendToActor, Finish, ExternalSend, UnregisterActor, Release,
            vars

\* Requests stay the requests of their callers.
LEMMA AskNext ==
  ASSUME MatchInv, [Next]_vars
  PROVE  AskInv'
<1>0. TypeOK /\ SessionInv /\ TypeOK'
  BY TypeNext DEF MatchInv, SessionInv
<1>1. ASSUME NEW a \in Actors, NEW m \in Queue(a)', ~m.isResponse PROVE Request(a, m)'
  <2>1. m \in Msgs /\ (m \in Queue(a) \/ New(a, m))
    BY <1>0, QueueStep
  <2>2. CASE m \in Queue(a)
    BY <1>0, <1>1, <2>1, <2>2, MatchKept DEF MatchInv, AskInv
  <2>3. CASE New(a, m)
    BY <1>1, <2>3 DEF New, Request, Timeout
  <2> QED BY <2>1, <2>2, <2>3
<1>2. ASSUME NEW a \in Actors PROVE Request(a, request[a])' /\ request[a] \in Msgs
  <2>1. request[a] \in Msgs /\ request'[a] \in Msgs
    BY <1>0 DEF TypeOK
  <2>2. Request(a, request'[a])
    <3>1. Request(a, request[a]) /\ \A s \in Sessions : Request(a, frame[a][s].request)
      BY DEF MatchInv, AskInv
    <3>2. Request(a, NoMsg)
      BY DEF Request, NoMsg, Plain
    <3>3. request'[a] \in Queue(a) /\ ~IsAnswer(request'[a]) => Request(a, request'[a])
      <4>1. request'[a] \in Queue(a) /\ ~request'[a].isResponse => Request(a, request'[a])
        BY DEF MatchInv, AskInv
      <4> QED BY <4>1 DEF IsAnswer, Request
    <3> QED BY <1>0, <3>1, <3>2, <3>3, RequestStep
  <2>3. ASSUME NEW m \in Msgs, Request(a, m) PROVE Request(a, m)'
    BY <1>0, <2>3, MatchKept
  <2> QED BY <2>1, <2>2, <2>3 DEF Request
<1>3. ASSUME NEW a \in Actors, NEW s \in Sessions PROVE Request(a, frame[a][s].request)'
  <2>1. frame'[a][s].request \in Msgs
    BY <1>0 DEF TypeOK, Frames
  <2>2. Request(a, frame'[a][s].request)
    <3>1. Request(a, request[a]) /\ Request(a, frame[a][s].request)
      BY DEF MatchInv, AskInv
    <3> QED BY <1>0, <3>1, RequestStep
  <2>3. ASSUME NEW m \in Msgs, Request(a, m) PROVE Request(a, m)'
    BY <1>0, <2>3, MatchKept
  <2> QED BY <2>1, <2>2, <2>3 DEF Request
<1> QED BY <1>1, <1>2, <1>3 DEF AskInv

\* A message that is sent as an answer is one.
LEMMA NewAnswers ==
  ASSUME MatchInv, [Next]_vars, NEW a \in Actors, NEW m \in Msgs, New(a, m), IsAnswer(m)
  PROVE  Answers(a, m) /\ (m.from = System => timer'[a][m.session] = "fired")
<1>1. CASE \E b \in Actors : /\ a = request[b].from /\ m.isResponse
                            /\ m.from = b /\ m.session = request[b].session
  <2>1. PICK b \in Actors : a = request[b].from /\ m.from = b /\ m.session = request[b].session
    BY <1>1
  <2>2. Request(b, request[b]) /\ m.session > 0
    BY DEF MatchInv, AskInv, IsAnswer
  <2>3. /\ m.session < nextSession[a] /\ frame[a][m.session].kind = "call"
        /\ frame[a][m.session].target = b
    BY <2>1, <2>2 DEF Request, Past
  <2>4. m.from # System
    BY <2>1, CallAssumption
  <2> QED BY <2>1, <2>3, <2>4 DEF Answers
<1>2. CASE /\ m.session \in Sessions /\ m = Timeout(a, m.session)
           /\ timer[a][m.session] = "collected" /\ timer'[a][m.session] = "fired"
  <2>1. Past(a, m.session) /\ frame[a][m.session].timed
    BY <1>2 DEF MatchInv, SessionInv, TimerInv
  <2>2. m.from = System /\ (m.ok <=> frame[a][m.session].kind = "sleep")
    <3>1. \A s : Timeout(a, s).from = System
      BY DEF Timeout
    <3>2. \A s : Timeout(a, s).ok = (frame[a][s].kind = "sleep")
      BY DEF Timeout
    <3> QED BY <1>2, <3>1, <3>2
  <2> QED BY <1>2, <2>1, <2>2 DEF Answers, Past
<1> QED BY <1>1, <1>2 DEF New, IsAnswer

\* Answers stay those of their receivers' calls, and timeouts those of fired timers.
LEMMA AnswerNext ==
  ASSUME MatchInv, [Next]_vars
  PROVE  ResponsesMatch' /\ FiredInv'
<1>0. TypeOK /\ SessionInv /\ TypeOK' /\ mailbox \in [Actors -> Seq(Msgs)]
  BY TypeNext DEF MatchInv, SessionInv, TypeOK
<1>1. ASSUME NEW a \in Actors, NEW m \in Queue(a), IsAnswer(m)
      PROVE  m \in Msgs /\ Answers(a, m)' /\ (m.from = System => timer'[a][m.session] = "fired")
  <2>1. m \in Msgs
    BY <1>0, QueueMsgs
  <2>2. m.session \in Sessions
    BY <1>1, <2>1, CallAssumption DEF Msgs, Sessions, IsAnswer
  <2>3. Answers(a, m) /\ (m.from = System => timer[a][m.session] = "fired")
    BY <1>1 DEF MatchInv, ResponsesMatch, FiredInv
  <2> QED BY <1>0, <1>1, <2>1, <2>2, <2>3, MatchKept, FiredKept
<1>2. ASSUME NEW a \in Actors, NEW m \in Queue(a)', IsAnswer(m)
      PROVE  Answers(a, m)' /\ (m.from = System => timer'[a][m.session] = "fired")
  <2>1. m \in Msgs /\ (m \in Queue(a) \/ New(a, m))
    BY <1>0, QueueStep
  <2> QED BY <1>0, <1>1, <1>2, <2>1, NewAnswers, MatchKept
<1>3. ASSUME NEW a \in Actors, NEW s \in responseMap'[a]
      PROVE  /\ response'[a][s].session = s /\ Answers(a, response[a][s])'
             /\ response'[a][s].from = System => timer'[a][s] = "fired"
  <2> DEFINE m == response'[a][s]
  <2>0. s \in Sessions /\ m \in Msgs
    BY <1>0 DEF TypeOK
  <2>1. CASE s \in responseMap[a] /\ m = response[a][s]
    <3>1. response[a][s].session = s /\ Answers(a, response[a][s])
      BY <2>1 DEF MatchInv, ResponsesMatch
    <3>2. response[a][s].from = System => timer'[a][s] = "fired"
      BY <1>0, <2>0, <2>1, FiredKept DEF MatchInv, FiredInv
    <3>3. Past(a, s)
      BY <3>1 DEF Answers, Past
    <3>4. Past(a, s)' /\ frame'[a][s] = frame[a][s]
      BY <1>0, <2>0, <3>3, FrameKept
    <3> QED BY <2>1, <3>1, <3>2, <3>4 DEF Answers, Past
  <2>2. CASE m \in Queue(a) /\ IsAnswer(m) /\ m.session = s
    <3>1. \A n \in Queue(a) : IsAnswer(n) =>
            Answers(a, n)' /\ (n.from = System => timer'[a][n.session] = "fired")
      BY <1>1
    <3> QED BY <2>2, <3>1 DEF Answers
  <2> QED BY <1>0, <2>1, <2>2, ResponseStep
<1> QED BY <1>2, <1>3 DEF ResponsesMatch, FiredInv

\* Nothing is asked or answered in the initial state.
LEMMA MatchInit == Init => MatchInv
<1> SUFFICES ASSUME Init PROVE MatchInv
  OBVIOUS
<1>1. SessionInv
  BY TypeInit DEF Init, SessionInv, FreshInv, PlaceInv, TimerInv, ResumedOnce, PerSession
<1>2. \A a \in Actors : Queue(a) = {} /\ responseMap[a] = {}
  <2> SUFFICES ASSUME NEW a \in Actors PROVE Queue(a) = {} /\ responseMap[a] = {}
    OBVIOUS
  <2>1. mailbox[a] = <<>> /\ responseMap[a] = {}
    BY DEF Init
  <2>2. Len(mailbox[a]) = 0
    BY <2>1
  <2>3. 1..Len(mailbox[a]) = {}
    BY <2>2
  <2> QED BY <2>1, <2>3 DEF Queue
<1>3. \A a \in Actors : Request(a, request[a]) /\ \A s \in Sessions : Request(a, frame[a][s].request)
  <2> SUFFICES ASSUME NEW a \in Actors, NEW s \in Sessions \cup {0}
               PROVE  Request(a, request[a]) /\ (s \in Sessions => Request(a, frame[a][s].request))
    OBVIOUS
  <2>1. NoMsg.session = 0 /\ NoFrame.request = NoMsg
    BY DEF NoMsg, Plain, NoFrame
  <2>2. request[a] = NoMsg /\ (s \in Sessions => frame[a][s] = NoFrame)
    BY DEF Init, PerSession
  <2>3. request[a].session = 0 /\ (s \in Sessions => frame[a][s].request.session = 0)
    BY <2>1, <2>2
  <2>4. \A m : m.session = 0 => Request(a, m)
    BY DEF Request
  <2> QED BY <2>3, <2>4
<1> QED BY <1>1, <1>2, <1>3 DEF MatchInv, AskInv, FiredInv, ResponsesMatch

\* The invariant of requests and responses holds in every reachable state.
THEOREM MatchCorrect == Spec => []MatchInv
<1>1. MatchInv /\ [Next]_vars => MatchInv'
  BY SessionNext, AskNext, AnswerNext DEF MatchInv
<1> QED BY <1>1, MatchInit, PTL DEF Spec

\* For any number of actors, calls and messages, a response reaches only the coroutine
\* that asked, from the actor it asked or from its own timer.
THEOREM ResponsesMatchCorrect == Spec => []ResponsesMatch
  BY MatchCorrect, PTL DEF MatchInv

-----------------------------------------------------------------------------
(* Timers and waits.                                                       *)

WaitInv == MatchInv /\ NeverStranded /\ NoLeftoverTimer /\ CallResponseTaken

\* An answer leaves the mailbox of a registered actor only when its wait ends.
LEMMA AnswerKept ==
  ASSUME TypeOK, [Next]_vars, NEW a \in Actors, NEW m \in Queue(a), IsAnswer(m),
         status'[a] = "registered", m.session \in waitMap'[a]
  PROVE  m \in Queue(a)'
<1>0. /\ mailbox \in [Actors -> Seq(Msgs)] /\ request \in [Actors -> Msgs]
      /\ waitMap \in [Actors -> SUBSET Sessions]
      /\ status \in [Actors -> {"registered", "unregistered", "released"}]
  BY DEF TypeOK
<1>1. ASSUME NEW b \in Actors, OnMessage(b) PROVE m \in Queue(a)'
  <2>1. mailbox[b] # <<>> /\ mailbox' = [mailbox EXCEPT ![b] = Tail(mailbox[b])]
    BY <1>1 DEF OnMessage, StartCoroutine, ResumeWaiting, DropResponse, Handles
  <2>2. /\ Queue(b) = {Head(mailbox[b])} \cup Queue(b)'
        /\ \A c \in Actors \ {b} : Queue(c)' = Queue(c)
    BY <1>0, <2>1, PopQueue
  <2>3. a = b => m # Head(mailbox[b])
    BY <1>0, <1>1 DEF OnMessage, StartCoroutine, ResumeWaiting, DropResponse, waitVars
  <2> QED BY <2>2, <2>3
<1>2. ASSUME NEW b \in Actors, NEW to, NEW n \in Msgs, Deliver(to, n) PROVE m \in Queue(a)'
  BY <1>0, <1>2, DeliverQueue
<1>3. ASSUME NEW b \in Actors, NEW to \in Actors, NEW timed \in BOOLEAN, CallSend(b, to, timed)
      PROVE  m \in Queue(a)'
  <2>1. nextSession[b] \in Sessions
    BY <1>3, SuspendSession DEF Suspends
  <2>2. [from |-> b, session |-> nextSession[b], isResponse |-> FALSE, ok |-> TRUE] \in Msgs
    BY <2>1 DEF Msgs, Sessions
  <2> QED BY <1>2, <1>3, <2>2 DEF CallSend
<1>4. ASSUME NEW b \in Actors, NEW ok \in BOOLEAN, RespondToCall(b, ok) PROVE m \in Queue(a)'
  <2>1. [from |-> b, session |-> request[b].session, isResponse |-> TRUE, ok |-> ok] \in Msgs
    BY <1>0 DEF Msgs
  <2> QED BY <1>2, <1>4, <2>1 DEF RespondToCall
<1>5. ASSUME NEW b \in Actors, ExternalSend(b) \/ \E to \in Actors : SendToActor(b, to)
      PROVE  m \in Queue(a)'
  <2>1. NoMsg \in Msgs /\ Plain(b) \in Msgs
    BY CallAssumption DEF NoMsg, Plain, Msgs
  <2> QED BY <1>2, <1>5, <2>1 DEF ExternalSend, SendToActor
<1>6. ASSUME NEW b \in Actors, NEW s \in Sessions, TimerSend(b, s) PROVE m \in Queue(a)'
  <2>1. Timeout(b, s) \in Msgs
    BY CallAssumption DEF Timeout, Msgs, Sessions
  <2> QED BY <1>2, <1>6, <2>1 DEF TimerSend
<1>7. ASSUME NEW b \in Actors, Release(b) PROVE m \in Queue(a)'
  <2>1. a # b
    BY <1>0, <1>7 DEF Release
  <2> QED BY <1>0, <1>7, <2>1 DEF Release, Queue
<1>8. CASE mailbox' = mailbox
  BY <1>8 DEF Queue
<1> QED BY <1>1, <1>3, <1>4, <1>5, <1>6, <1>7, <1>8
        DEF Next, AwaitResume, Body, Arm, SleepStart, Finish, TimerStep, TimerCollect,
            UnregisterActor, vars

\* An actor is never registered again.
LEMMA StatusStep ==
  ASSUME TypeOK, [Next]_vars, NEW a \in Actors, status'[a] = "registered"
  PROVE  status[a] = "registered"
  BY ZenonT(40) DEF TypeOK, Next, OnMessage, StartCoroutine, ResumeWaiting, DropResponse, AwaitResume, Body,
     SleepStart, CallSend, RespondToCall, SendToActor, Finish, Arm, TimerStep, TimerCollect,
     TimerSend, ExternalSend, UnregisterActor, Release, vars

\* A sleep that was resumed has had its timer fire: nobody else answers it.
LEMMA SleepFired ==
  ASSUME MatchInv, NEW a \in Actors, pc[a] = "resume", frame[a][session[a]].kind = "sleep"
  PROVE  timer[a][session[a]] = "fired"
<1>1. session[a] \in responseMap[a]
  BY DEF MatchInv, SessionInv, PlaceInv
<1>2. /\ response[a][session[a]].session = session[a]
      /\ Answers(a, response[a][session[a]])
  BY <1>1 DEF MatchInv, ResponsesMatch
<1>3. response[a][session[a]].from = System
  BY <1>2 DEF Answers
<1> QED BY <1>1, <1>3 DEF MatchInv, FiredInv

\* What a wait needs to end is there after every step.
LEMMA StrandedNext ==
  ASSUME WaitInv, [Next]_vars
  PROVE  NeverStranded'
<1>0. SessionInv /\ TypeOK /\ TypeOK'
  BY TypeNext DEF WaitInv, MatchInv, SessionInv
<1> SUFFICES ASSUME NEW a \in Actors, NEW s \in waitMap'[a], frame'[a][s].timed,
                    status'[a] = "registered", ~(pc'[a] = "arm" /\ session'[a] = s)
             PROVE  \/ timer'[a][s] \in {"armed", "collected"}
                    \/ \E m \in Queue(a)' : IsAnswer(m) /\ m.session = s
  BY DEF NeverStranded
<1> DEFINE Ends == \/ timer'[a][s] \in {"armed", "collected"}
                   \/ \E m \in Queue(a)' : IsAnswer(m) /\ m.session = s
<1>1. s \in Sessions /\ status[a] = "registered"
  BY <1>0, StatusStep DEF TypeOK
<1>2. \A m \in Queue(a) : IsAnswer(m) /\ m.session = s => m \in Queue(a)'
  BY <1>0, AnswerKept
<1>3. ASSUME s \in waitMap[a], frame[a][s].timed, ~(pc[a] = "arm" /\ session[a] = s),
             timer'[a][s] = timer[a][s] \/ timer'[a][s] \in {"armed", "collected"}
      PROVE  Ends
  BY <1>1, <1>2, <1>3 DEF WaitInv, NeverStranded
<1>4. ASSUME NEW b \in Actors, Suspends(b) PROVE Ends
  <2>1. /\ waitMap' = [waitMap EXCEPT ![b] = waitMap[b] \cup {nextSession[b]}]
        /\ session' = [session EXCEPT ![b] = nextSession[b]]
        /\ pc[b] = "body" /\ pc' = [pc EXCEPT ![b] = "arm"]
        /\ \A c \in Actors, u \in Sessions :
             ~(c = b /\ u = nextSession[b]) => frame'[c][u] = frame[c][u]
        /\ timer' = timer
    BY <1>0, <1>4, SuspendSession
  <2>2. ~(a = b /\ s = nextSession[b])
    BY <1>0, <2>1 DEF TypeOK
  <2>3. s \in waitMap[a] /\ frame[a][s].timed /\ ~(pc[a] = "arm" /\ session[a] = s)
    <3>1. /\ waitMap \in [Actors -> SUBSET Sessions] /\ session \in [Actors -> 0..MaxCalls]
          /\ pc \in [Actors -> {"idle", "body", "arm", "resume"}]
      BY <1>0 DEF TypeOK
    <3>2. s \in waitMap[a]
      BY <2>1, <2>2, <3>1
    <3>3. frame[a][s].timed
      BY <1>1, <2>1, <2>2
    <3>4. ~(pc[a] = "arm" /\ session[a] = s)
      BY <2>1, <3>1
    <3> QED BY <3>2, <3>3, <3>4
  <2> QED BY <1>3, <2>1, <2>3
<1>5. ASSUME NEW b \in Actors, Arm(b) PROVE Ends
  <2>1. /\ UNCHANGED <<waitMap, frame>> /\ pc[b] = "arm"
        /\ timer' = [timer EXCEPT ![b][session[b]] = "armed"]
             \/ (timer' = timer /\ ~frame[b][session[b]].timed)
        /\ \A c \in Actors \ {b} : pc'[c] = pc[c] /\ session'[c] = session[c]
    <3>1. /\ session \in [Actors -> 0..MaxCalls]
          /\ pc \in [Actors -> {"idle", "body", "arm", "resume"}]
      BY <1>0 DEF TypeOK
    <3>2. \A c \in Actors \ {b} : pc'[c] = pc[c] /\ session'[c] = session[c]
      BY <1>5, <3>1 DEF Arm
    <3> QED BY <1>5, <3>2 DEF Arm, waitVars
  <2>2. CASE a = b /\ s = session[b]
    BY SMTT(30), <1>0, <1>1, <2>1, <2>2 DEF TypeOK
  <2>3. CASE ~(a = b /\ s = session[b])
    <3>1. timer \in [Actors -> [Sessions -> {"none", "armed", "collected", "fired", "cancelled"}]]
      BY <1>0 DEF TypeOK
    <3>2. timer'[a][s] = timer[a][s]
      BY <1>1, <2>1, <2>3, <3>1
    <3> QED BY <1>3, <2>1, <2>3, <3>2
  <2> QED BY <2>2, <2>3
<1>6. ASSUME NEW b \in Actors, AwaitResume(b) PROVE Ends
  <2>1. /\ UNCHANGED <<waitMap, frame>> /\ pc[b] = "resume"
        /\ \A c \in Actors : pc[c] = "arm" => pc'[c] = "arm" /\ session'[c] = session[c]
    BY <1>0, <1>6 DEF AwaitResume, waitVars, TypeOK
  <2>2. ~(a = b /\ s = session[b])
    BY <1>0, <2>1 DEF SessionInv, PlaceInv
  <2>3. timer'[a][s] = timer[a][s]
    <3>1. timer \in [Actors -> [Sessions -> {"none", "armed", "collected", "fired", "cancelled"}]]
      BY <1>0 DEF TypeOK
    <3>2. timer' = timer \/ timer' = [timer EXCEPT ![b][session[b]] = AfterAnswer(b, session[b])]
      BY <1>6 DEF AwaitResume
    <3> QED BY <1>1, <2>2, <3>1, <3>2
  <2> QED BY <1>3, <2>1, <2>3
<1>7. ASSUME NEW b \in Actors, NEW u \in Sessions, TimerSend(b, u) PROVE Ends
  <2>1. /\ UNCHANGED <<waitMap, frame, pc, session>>
        /\ timer' = [timer EXCEPT ![b][u] = "fired"] /\ Deliver(b, Timeout(b, u))
    BY <1>7 DEF TimerSend, waitVars, actorVars
  <2>2. CASE a = b /\ s = u
    <3>1. Timeout(b, u) \in Msgs /\ IsAnswer(Timeout(b, u)) /\ Timeout(b, u).session = u
      BY CallAssumption DEF Timeout, Msgs, Sessions, IsAnswer
    <3>2. Timeout(b, u) \in Queue(a)'
      BY <1>0, <1>1, <2>1, <2>2, <3>1, DeliverQueue DEF TypeOK
    <3> QED BY <2>2, <3>1, <3>2
  <2>3. CASE ~(a = b /\ s = u)
    <3>1. timer \in [Actors -> [Sessions -> {"none", "armed", "collected", "fired", "cancelled"}]]
      BY <1>0 DEF TypeOK
    <3>2. timer'[a][s] = timer[a][s]
      BY <1>1, <2>1, <2>3, <3>1
    <3> QED BY <1>3, <2>1, <3>2
  <2> QED BY <2>2, <2>3
<1>8. ASSUME NEW b \in Actors, NEW u \in Sessions, TimerCollect(b, u) PROVE Ends
  <2>1. /\ UNCHANGED <<waitMap, frame, pc, session>>
        /\ timer' = [timer EXCEPT ![b][u] = "collected"]
    BY <1>8 DEF TimerCollect, waitVars, actorVars
  <2>2. timer'[a][s] = timer[a][s] \/ timer'[a][s] = "collected"
    BY <1>0, <1>1, <2>1 DEF TypeOK
  <2> QED BY <1>3, <2>1, <2>2
<1>9. ASSUME NEW b \in Actors, ResumeWaiting(b) \/ Release(b) PROVE Ends
  <2>0. /\ waitMap \in [Actors -> SUBSET Sessions] /\ session \in [Actors -> 0..MaxCalls]
        /\ pc \in [Actors -> {"idle", "body", "arm", "resume"}]
    BY <1>0 DEF TypeOK
  <2>1. /\ UNCHANGED <<frame, timer>> /\ pc[b] # "arm"
        /\ \A c \in Actors : waitMap'[c] \subseteq waitMap[c]
        /\ \A c \in Actors \ {b} : pc'[c] = pc[c] /\ session'[c] = session[c]
    <3>1. CASE ResumeWaiting(b)
      BY <2>0, <3>1 DEF ResumeWaiting, Handles, StopWaiting
    <3>2. CASE Release(b)
      BY <2>0, <3>2 DEF Release, actorVars
    <3> QED BY <1>9, <3>1, <3>2
  <2> QED BY <1>3, <2>1
<1>10. ASSUME NEW b \in Actors,
              \/ StartCoroutine(b) \/ DropResponse(b) \/ Finish(b)
              \/ ExternalSend(b) \/ UnregisterActor(b)
              \/ \E to \in Actors : SendToActor(b, to)
              \/ \E ok \in BOOLEAN : RespondToCall(b, ok)
       PROVE  Ends
  <2>1. /\ UNCHANGED <<waitMap, frame, timer, session>>
        /\ \A c \in Actors : pc[c] = "arm" => pc'[c] = "arm"
    BY <1>0, <1>10 DEF StartCoroutine, DropResponse, Finish, ExternalSend, UnregisterActor,
       SendToActor, RespondToCall, Handles, waitVars, actorVars, TypeOK
  <2> QED BY <1>3, <2>1
<1>11. CASE UNCHANGED vars
  <2>1. UNCHANGED <<waitMap, frame, timer, session, pc>>
    BY <1>11 DEF vars
  <2> QED BY <1>3, <2>1
<1> QED BY <1>4, <1>5, <1>6, <1>7, <1>8, <1>9, <1>10, <1>11
        DEF Next, OnMessage, Body, Suspends, TimerStep

\* Cancelling the timer of an answered call, and taking its response, come with it.
LEMMA LeftoverNext ==
  ASSUME WaitInv, [Next]_vars
  PROVE  NoLeftoverTimer' /\ CallResponseTaken'
<1>0. MatchInv /\ SessionInv /\ TypeOK /\ TypeOK' /\ NoLeftoverTimer /\ CallResponseTaken
  BY TypeNext DEF WaitInv, MatchInv, SessionInv
<1>1. \A a \in Actors : status'[a] = "registered" => status[a] = "registered"
  BY <1>0, StatusStep
<1>2. ASSUME NEW b \in Actors, Suspends(b) PROVE NoLeftoverTimer' /\ CallResponseTaken'
  <2>1. /\ nextSession[b] \in Sessions
        /\ waitMap' = [waitMap EXCEPT ![b] = waitMap[b] \cup {nextSession[b]}]
        /\ pc[b] = "body" /\ pc' = [pc EXCEPT ![b] = "arm"]
        /\ session' = [session EXCEPT ![b] = nextSession[b]]
        /\ \A c \in Actors, u \in Sessions :
             ~(c = b /\ u = nextSession[b]) => frame'[c][u] = frame[c][u]
        /\ UNCHANGED <<responseMap, response, timer>>
    BY <1>0, <1>2, SuspendSession
  <2>2. \A c \in Actors : pc[c] = "resume" => pc'[c] = "resume" /\ session'[c] = session[c]
    BY <1>0, <2>1 DEF TypeOK
  <2>3. \A c \in Actors : waitMap[c] \subseteq waitMap'[c]
    BY <1>0, <2>1 DEF TypeOK
  <2>4. nextSession[b] \notin responseMap[b]
    BY <1>0, <2>1 DEF SessionInv, FreshInv, Past, TypeOK
  <2>5. \A c \in Actors : \A u \in responseMap[c] : u \in Sessions /\ frame'[c][u] = frame[c][u]
    BY <1>0, <2>1, <2>4 DEF TypeOK
  <2>6. NoLeftoverTimer'
    BY <1>0, <1>1, <2>1, <2>2, <2>3 DEF NoLeftoverTimer
  <2>7. CallResponseTaken'
    BY <1>0, <2>1, <2>2, <2>5 DEF CallResponseTaken
  <2> QED BY <2>6, <2>7
<1>3. ASSUME NEW b \in Actors, ResumeWaiting(b) PROVE NoLeftoverTimer' /\ CallResponseTaken'
  <2> DEFINE m == Head(mailbox[b])
  <2>1. /\ m.session \in Sessions /\ m \in Msgs /\ pc[b] = "idle" /\ pc' = [pc EXCEPT ![b] = "resume"]
        /\ session' = [session EXCEPT ![b] = m.session]
        /\ waitMap' = [waitMap EXCEPT ![b] = waitMap[b] \ {m.session}]
        /\ responseMap' = [responseMap EXCEPT ![b] = responseMap[b] \cup {m.session}]
        /\ response' = [response EXCEPT ![b][m.session] = m]
        /\ UNCHANGED <<timer, frame, status>>
    BY <1>0, <1>3, PopQueue DEF ResumeWaiting, Handles, TypeOK
  <2> HIDE DEF m
  <2>2. \A c \in Actors, u \in Sessions :
          ~(c = b /\ u = m.session) =>
            response'[c][u] = response[c][u] /\ (u \in waitMap[c] => u \in waitMap'[c])
    <3>1. response \in [Actors -> [Sessions -> Msgs]] /\ waitMap \in [Actors -> SUBSET Sessions]
      BY <1>0 DEF TypeOK
    <3> QED BY <2>1, <3>1
  <2>3. /\ \A c \in Actors \ {b} : pc'[c] = pc[c] /\ session'[c] = session[c]
        /\ pc'[b] = "resume" /\ session'[b] = m.session
        /\ \A c \in Actors \ {b} : responseMap'[c] = responseMap[c]
        /\ responseMap'[b] = responseMap[b] \cup {m.session}
    BY <1>0, <2>1 DEF TypeOK
  <2>4. NoLeftoverTimer'
    BY <1>0, <2>1, <2>2, <2>3 DEF NoLeftoverTimer
  <2>5. CallResponseTaken'
    BY <1>0, <2>1, <2>3 DEF CallResponseTaken
  <2> QED BY <2>4, <2>5
<1>4. ASSUME NEW b \in Actors, AwaitResume(b) PROVE NoLeftoverTimer' /\ CallResponseTaken'
  <2> DEFINE s == session[b]
  <2>1. /\ pc[b] = "resume" /\ pc' = [pc EXCEPT ![b] = "body"] /\ s \in Sessions
        /\ session' = [session EXCEPT ![b] = 0]
        /\ UNCHANGED <<waitMap, response, frame, status>>
        /\ \/ /\ frame[b][s].kind = "call"
              /\ responseMap' = [responseMap EXCEPT ![b] = responseMap[b] \ {s}]
              /\ timer' = [timer EXCEPT ![b][s] = AfterAnswer(b, s)]
           \/ frame[b][s].kind = "sleep" /\ UNCHANGED <<responseMap, timer>>
    BY <1>0, <1>4 DEF AwaitResume, waitVars, TypeOK
  <2>2. frame[b][s].kind = "sleep" => timer[b][s] = "fired"
    BY <1>0, <2>1, SleepFired
  <2> HIDE DEF s
  <2>3. \A c \in Actors \ {b} : pc'[c] = pc[c] /\ session'[c] = session[c]
    BY <1>0, <2>1 DEF TypeOK
  <2>4. /\ timer'[b][s] = "armed" => ~response[b][s].ok
        /\ \A c \in Actors, u \in Sessions : ~(c = b /\ u = s) => timer'[c][u] = timer[c][u]
    <3>1. timer \in [Actors -> [Sessions -> {"none", "armed", "collected", "fired", "cancelled"}]]
      BY <1>0 DEF TypeOK
    <3>2. AfterAnswer(b, s) = "armed" => ~response[b][s].ok
      BY <3>1 DEF AfterAnswer
    <3>3. timer' = timer \/ timer' = [timer EXCEPT ![b][s] = AfterAnswer(b, s)]
      BY <2>1
    <3>4. timer'[b][s] = AfterAnswer(b, s) \/ timer'[b][s] = "fired"
      BY <2>1, <2>2, <3>1
    <3> HIDE DEF AfterAnswer
    <3> QED BY <2>1, <3>1, <3>2, <3>3, <3>4
  <2>5. /\ \A c \in Actors : responseMap'[c] \subseteq responseMap[c]
        /\ frame[b][s].kind = "call" => s \notin responseMap'[b]
    <3>1. responseMap \in [Actors -> SUBSET Sessions]
      BY <1>0 DEF TypeOK
    <3>2. \/ responseMap' = [responseMap EXCEPT ![b] = responseMap[b] \ {s}]
          \/ responseMap' = responseMap /\ frame[b][s].kind = "sleep"
      BY <2>1
    <3> QED BY <3>1, <3>2
  <2>6. s = session[b]
    BY DEF s
  <2>7. NoLeftoverTimer'
    BY <1>0, <2>1, <2>3, <2>4, <2>6 DEF NoLeftoverTimer
  <2>8. CallResponseTaken'
    BY <1>0, <2>1, <2>3, <2>5, <2>6 DEF CallResponseTaken
  <2> QED BY <2>7, <2>8
<1>5. ASSUME NEW b \in Actors, Arm(b) PROVE NoLeftoverTimer' /\ CallResponseTaken'
  <2>1. /\ pc[b] = "arm" /\ session[b] \in waitMap[b] /\ session[b] \in Sessions
        /\ UNCHANGED <<waitMap, responseMap, response, frame, status>>
        /\ \A c \in Actors : pc[c] = "resume" => pc'[c] = "resume" /\ session'[c] = session[c]
    BY <1>0, <1>5 DEF Arm, waitVars, mapVars, SessionInv, PlaceInv, TypeOK
  <2>2. \A c \in Actors, u \in Sessions :
          ~(c = b /\ u = session[b]) => timer'[c][u] = timer[c][u]
    BY <1>0, <1>5 DEF Arm, TypeOK
  <2> QED BY <1>0, <2>1, <2>2 DEF NoLeftoverTimer, CallResponseTaken
<1>6. ASSUME NEW b \in Actors, TimerStep(b) PROVE NoLeftoverTimer' /\ CallResponseTaken'
  <2>1. UNCHANGED <<waitMap, responseMap, response, frame, status, pc, session>>
    BY <1>6 DEF TimerStep, TimerCollect, TimerSend, waitVars, mapVars, actorVars
  <2>2. \A c \in Actors, u \in Sessions : timer'[c][u] = "armed" => timer[c][u] = "armed"
    <3>1. PICK u \in Sessions, x \in {"collected", "fired"} : timer' = [timer EXCEPT ![b][u] = x]
      BY <1>6 DEF TimerStep, TimerCollect, TimerSend
    <3> QED BY <1>0, <3>1 DEF TypeOK
  <2> QED BY <1>0, <2>1, <2>2 DEF NoLeftoverTimer, CallResponseTaken
<1>7. ASSUME NEW b \in Actors, Release(b) PROVE NoLeftoverTimer' /\ CallResponseTaken'
  <2>1. /\ status' = [status EXCEPT ![b] = "released"]
        /\ waitMap' = [waitMap EXCEPT ![b] = {}]
        /\ responseMap' = [responseMap EXCEPT ![b] = {}]
        /\ UNCHANGED <<response, frame, timer, pc, session>>
    BY <1>7 DEF Release, actorVars
  <2>2. /\ status'[b] = "released" /\ responseMap'[b] = {}
        /\ \A c \in Actors \ {b} : waitMap'[c] = waitMap[c] /\ responseMap'[c] = responseMap[c]
    BY <1>0, <2>1 DEF TypeOK
  <2> QED BY <1>0, <1>1, <2>1, <2>2 DEF NoLeftoverTimer, CallResponseTaken
<1>8. ASSUME NEW b \in Actors,
             \/ StartCoroutine(b) \/ DropResponse(b) \/ Finish(b)
             \/ ExternalSend(b) \/ UnregisterActor(b)
             \/ \E to \in Actors : SendToActor(b, to)
             \/ \E ok \in BOOLEAN : RespondToCall(b, ok)
      PROVE  NoLeftoverTimer' /\ CallResponseTaken'
  <2>1. /\ UNCHANGED <<waitMap, responseMap, response, frame, timer, session>>
        /\ \A c \in Actors : pc[c] = "resume" => pc'[c] = "resume"
    BY <1>0, <1>8 DEF StartCoroutine, DropResponse, Finish, ExternalSend, UnregisterActor,
       SendToActor, RespondToCall, Handles, waitVars, mapVars, actorVars, TypeOK
  <2> QED BY <1>0, <1>1, <2>1 DEF NoLeftoverTimer, CallResponseTaken
<1>9. CASE UNCHANGED vars
  BY <1>0, <1>9 DEF vars, NoLeftoverTimer, CallResponseTaken
<1> QED BY <1>2, <1>3, <1>4, <1>5, <1>6, <1>7, <1>8, <1>9
        DEF Next, OnMessage, Body, Suspends

\* The invariant of waits, responses and timers holds in every reachable state.
THEOREM WaitCorrect == Spec => []WaitInv
<1>1. Init => WaitInv
  <2> SUFFICES ASSUME Init PROVE WaitInv
    OBVIOUS
  <2>1. MatchInv
    BY MatchInit
  <2>2. \A a \in Actors : waitMap[a] = {} /\ responseMap[a] = {} /\ \A s \in Sessions : timer[a][s] = "none"
    BY DEF Init, PerSession
  <2> QED BY <2>1, <2>2 DEF WaitInv, NeverStranded, NoLeftoverTimer, CallResponseTaken
<1>2. WaitInv /\ [Next]_vars => WaitInv'
  BY SessionNext, AskNext, AnswerNext, StrandedNext, LeftoverNext DEF WaitInv, MatchInv
<1> QED BY <1>1, <1>2, PTL DEF Spec

\* For any number of actors, calls and messages, a coroutine that waits with a timeout
\* has what it takes to go on: a timer that runs or an answer in the mailbox.
THEOREM NeverStrandedCorrect == Spec => []NeverStranded
  BY WaitCorrect, PTL DEF WaitInv

\* For any number of actors and calls, a call that was answered leaves no timer behind.
THEOREM NoLeftoverTimerCorrect == Spec => []NoLeftoverTimer
  BY WaitCorrect, PTL DEF WaitInv

\* For any number of actors and calls, await_resume takes the response of its call.
THEOREM CallResponseTakenCorrect == Spec => []CallResponseTaken
  BY WaitCorrect, PTL DEF WaitInv
=============================================================================
