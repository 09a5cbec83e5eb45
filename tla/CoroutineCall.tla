--------------------------- MODULE CoroutineCall ----------------------------
(***************************************************************************)
(* Actor::Call, Sleep and RespondToCall: sessions, waitMap_, responseMap_, *)
(* the timers that end a call, and what OnMessage does with a response.    *)
(*                                                                         *)
(* An actor handles one message at a time from a FIFO mailbox: SerialActors*)
(* promises that and ActorScheduler implements it.  Between two steps of a *)
(* handler every other actor and the timer thread may move.  Which calls a *)
(* handler makes is the application's choice.                              *)
(***************************************************************************)
EXTENDS Naturals, Sequences

CONSTANTS
  Actors,
  Mortal,       \* those that may be unregistered
  System,       \* sourceId of messages that come from no actor
  MaxCalls,     \* bound on the calls, sleeps and plain messages of handlers
  MaxRequests,  \* bound on messages from outside
  MaxReplies    \* bound on RespondToCall

ASSUME CallAssumption ==
  /\ Mortal \subseteq Actors /\ System \notin Actors
  /\ MaxCalls \in Nat /\ MaxRequests \in Nat
  /\ MaxReplies \in Nat

Sessions == 1..MaxCalls
\* session 0: the message is not part of a call.  ok: error = CallError::Ok.
Msgs == [from : Actors \cup {System}, session : 0..MaxCalls, isResponse : BOOLEAN,
         ok : BOOLEAN]
Plain(from) == [from |-> from, session |-> 0, isResponse |-> FALSE, ok |-> TRUE]
NoMsg == Plain(System)
Frames == [request : Msgs, kind : {"call", "sleep"}, target : Actors \cup {System},
           timed : BOOLEAN]

VARIABLES
  status,       \* registered, unregistered (a worker still has it), released
  mailbox,
  pc,           \* idle, body, arm (in await_suspend), resume (in await_resume)
  request,      \* the message whose coroutine runs
  session,      \* the session await_suspend or await_resume works on
  nextSession,  \* nextSessionId_
  waitMap,      \* its keys
  frame,        \* the suspended coroutine of each session
  responseMap,  \* its keys
  response,     \* its values
  timer,        \* the timer of each session
  resumed,      \* how often each session was resumed
  requests, replies, calls

actorVars == <<pc, request, session>>
waitVars  == <<nextSession, waitMap, frame, resumed, calls>>
mapVars   == <<responseMap, response>>
budgetVars == <<requests, replies>>
vars == <<status, mailbox, pc, request, session, nextSession, waitMap, frame, responseMap,
          response, timer, resumed, requests, replies, calls>>

PerSession(x) == [a \in Actors |-> [s \in Sessions |-> x]]
NoFrame == [request |-> NoMsg, kind |-> "sleep", target |-> System, timed |-> FALSE]

Init ==
  /\ status = [a \in Actors |-> "registered"]
  /\ mailbox = [a \in Actors |-> <<>>]
  /\ pc = [a \in Actors |-> "idle"]
  /\ request = [a \in Actors |-> NoMsg] /\ session = [a \in Actors |-> 0]
  /\ nextSession = [a \in Actors |-> 1]
  /\ waitMap = [a \in Actors |-> {}] /\ frame = PerSession(NoFrame)
  /\ responseMap = [a \in Actors |-> {}] /\ response = PerSession(NoMsg)
  /\ timer = PerSession("none") /\ resumed = PerSession(0)
  /\ requests = 0 /\ replies = 0 /\ calls = 0

\* ActorSystem::Send: a message to an id that is not in actors_ is dropped.
Deliver(to, m) ==
  mailbox' = IF to \in Actors /\ status[to] = "registered"
             THEN [mailbox EXCEPT ![to] = Append(@, m)] ELSE mailbox

-----------------------------------------------------------------------------
(* OnMessage.                                                              *)

Handles(a) == pc[a] = "idle" /\ status[a] # "released" /\ mailbox[a] # <<>>
IsAnswer(m) == m.isResponse /\ m.session > 0

\* A message that is no response, or one without a session, starts a coroutine.
StartCoroutine(a) ==
  /\ Handles(a) /\ ~IsAnswer(Head(mailbox[a]))
  /\ request' = [request EXCEPT ![a] = Head(mailbox[a])]
  /\ mailbox' = [mailbox EXCEPT ![a] = Tail(@)]
  /\ pc' = [pc EXCEPT ![a] = "body"]
  /\ UNCHANGED <<status, session, waitVars, mapVars, timer, budgetVars>>

BadLeaveWaiting(a, s) == waitMap[a]    \* mutant: the entry is not erased
StopWaiting(a, s) == waitMap[a] \ {s}  \* waitMap_.erase(it)

\* ResumeWaiting: store the response, then run the coroutine from co_await on.
ResumeWaiting(a) ==
  /\ Handles(a)
  /\ LET m == Head(mailbox[a])  s == m.session
     IN /\ IsAnswer(m) /\ s \in waitMap[a]
        /\ waitMap' = [waitMap EXCEPT ![a] = StopWaiting(a, s)]
        /\ responseMap' = [responseMap EXCEPT ![a] = @ \cup {s}]
        /\ response' = [response EXCEPT ![a][s] = m]
        /\ resumed' = [resumed EXCEPT ![a][s] = @ + 1]
        /\ request' = [request EXCEPT ![a] = frame[a][s].request]
        /\ session' = [session EXCEPT ![a] = s]
  /\ mailbox' = [mailbox EXCEPT ![a] = Tail(@)]
  /\ pc' = [pc EXCEPT ![a] = "resume"]
  /\ UNCHANGED <<status, nextSession, frame, timer, budgetVars, calls>>

\* A late or orphan response.
DropResponse(a) ==
  /\ Handles(a)
  /\ LET m == Head(mailbox[a]) IN IsAnswer(m) /\ m.session \notin waitMap[a]
  /\ mailbox' = [mailbox EXCEPT ![a] = Tail(@)]
  /\ UNCHANGED <<status, actorVars, waitVars, mapVars, timer, budgetVars>>

BadKept(a, s) == responseMap[a]        \* mutant: the response is copied, not taken
Taken(a, s) == responseMap[a] \ {s}    \* responseMap_.erase(it)

BadAfterAnswer(a, s) == timer[a][s]    \* mutant: the timer is left running
\* CancelTimer reaches a timer that timerLoop has not yet collected.
AfterAnswer(a, s) ==
  IF response[a][s].ok /\ timer[a][s] = "armed" THEN "cancelled" ELSE timer[a][s]

AwaitResume(a) ==
  /\ pc[a] = "resume"
  /\ LET s == session[a] IN
     \/ /\ frame[a][s].kind = "call"
        /\ responseMap' = [responseMap EXCEPT ![a] = Taken(a, s)]
        /\ timer' = [timer EXCEPT ![a][s] = AfterAnswer(a, s)]
     \/ /\ frame[a][s].kind = "sleep"           \* SleepAwaiter takes nothing
        /\ UNCHANGED <<responseMap, timer>>
  /\ pc' = [pc EXCEPT ![a] = "body"]
  /\ session' = [session EXCEPT ![a] = 0]
  /\ UNCHANGED <<status, mailbox, request, waitVars, response, budgetVars>>

-----------------------------------------------------------------------------
(* What a coroutine may do between two suspensions.                        *)

AllocSession(s) == s + 1         \* nextSessionId_++

\* await_suspend, the part common to Call and Sleep: AllocSession, StoreWaiting.
Suspend(a, kind, to, timed) ==
  LET s == nextSession[a]
  IN /\ pc[a] = "body" /\ calls < MaxCalls
     /\ calls' = calls + 1
     /\ nextSession' = [nextSession EXCEPT ![a] = AllocSession(s)]
     /\ waitMap' = [waitMap EXCEPT ![a] = @ \cup {s}]
     /\ frame' = [frame EXCEPT ![a][s] =
                    [request |-> request[a], kind |-> kind, target |-> to,
                     timed |-> timed]]
     /\ session' = [session EXCEPT ![a] = s]
     /\ UNCHANGED resumed

\* CallAwaiter::await_suspend up to its SendToActor.
CallSend(a, to, timed) ==
  /\ Suspend(a, "call", to, timed)
  /\ Deliver(to, [from |-> a, session |-> nextSession[a], isResponse |-> FALSE,
                  ok |-> TRUE])
  /\ pc' = [pc EXCEPT ![a] = "arm"]
  /\ UNCHANGED <<status, request, mapVars, timer, budgetVars>>

\* SleepAwaiter::await_suspend; Sleep of nothing does not suspend.
SleepStart(a) ==
  /\ Suspend(a, "sleep", System, TRUE)
  /\ pc' = [pc EXCEPT ![a] = "arm"]
  /\ UNCHANGED <<status, mailbox, request, mapVars, timer, budgetVars>>

BadNeedsTimer(a, s) ==              \* mutant: no timer when the target answers
  frame[a][s].timed /\ frame[a][s].target = System
NeedsTimer(a, s) == frame[a][s].timed   \* timeoutMs > 0

\* SetTimeout, after which the handler returns and the coroutine is suspended.
Arm(a) ==
  /\ pc[a] = "arm"
  /\ LET s == session[a]
     IN timer' = IF NeedsTimer(a, s) THEN [timer EXCEPT ![a][s] = "armed"] ELSE timer
  /\ pc' = [pc EXCEPT ![a] = "idle"]
  /\ session' = [session EXCEPT ![a] = 0] /\ request' = [request EXCEPT ![a] = NoMsg]
  /\ UNCHANGED <<status, mailbox, waitVars, mapVars, budgetVars>>

BadReplySession(a) == nextSession[a] - 1   \* mutant: the session of the replier
ReplySession(a) == request[a].session

\* RespondToCall, at any time and any number of times; ok is the handler's verdict.
RespondToCall(a, ok) ==
  /\ pc[a] = "body" /\ replies < MaxReplies
  /\ Deliver(request[a].from, [from |-> a, session |-> ReplySession(a),
                               isResponse |-> TRUE, ok |-> ok])
  /\ replies' = replies + 1
  /\ UNCHANGED <<status, actorVars, waitVars, mapVars, timer, requests>>

\* SendToActor outside a call, with a new message as every caller in the repository passes; a message that
\* was received and is handed on would keep its sessionId and isResponse.
SendToActor(a, to) ==
  /\ pc[a] = "body" /\ calls < MaxCalls
  /\ Deliver(to, Plain(a))
  /\ calls' = calls + 1
  /\ UNCHANGED <<status, actorVars, nextSession, waitMap, frame, resumed, mapVars, timer,
                 budgetVars>>

\* The coroutine ends, also when it throws: unhandled_exception swallows it.
Finish(a) ==
  /\ pc[a] = "body"
  /\ pc' = [pc EXCEPT ![a] = "idle"] /\ request' = [request EXCEPT ![a] = NoMsg]
  /\ UNCHANGED <<status, mailbox, session, waitVars, mapVars, timer, budgetVars>>

-----------------------------------------------------------------------------
(* The rest of the system: senders that are no actors, the timer thread,   *)
(* and the end of an actor.                                                *)

ExternalSend(a) ==
  /\ requests < MaxRequests
  /\ Deliver(a, NoMsg)
  /\ requests' = requests + 1
  /\ UNCHANGED <<status, actorVars, waitVars, mapVars, timer, replies>>

TimerCollect(a, s) ==
  /\ timer[a][s] = "armed"
  /\ timer' = [timer EXCEPT ![a][s] = "collected"]
  /\ UNCHANGED <<status, mailbox, actorVars, waitVars, mapVars, budgetVars>>

\* The timeout message of a call carries an error, the wakeup of a sleep does not.
Timeout(a, s) == [from |-> System, session |-> s, isResponse |-> TRUE,
                  ok |-> frame[a][s].kind = "sleep"]
TimerSend(a, s) ==
  /\ timer[a][s] = "collected"
  /\ timer' = [timer EXCEPT ![a][s] = "fired"]
  /\ Deliver(a, Timeout(a, s))
  /\ UNCHANGED <<status, actorVars, waitVars, mapVars, budgetVars>>

UnregisterActor(a) ==
  /\ a \in Mortal /\ status[a] = "registered"
  /\ status' = [status EXCEPT ![a] = "unregistered"]
  /\ UNCHANGED <<mailbox, actorVars, waitVars, mapVars, timer, budgetVars>>

\* ~Actor, when the last worker has let go of it: DestroyAllCoroutines.
Release(a) ==
  /\ status[a] = "unregistered" /\ pc[a] = "idle"
  /\ status' = [status EXCEPT ![a] = "released"]
  /\ mailbox' = [mailbox EXCEPT ![a] = <<>>]
  /\ waitMap' = [waitMap EXCEPT ![a] = {}]
  /\ responseMap' = [responseMap EXCEPT ![a] = {}]
  /\ UNCHANGED <<actorVars, nextSession, frame, response, timer, resumed, budgetVars,
                 calls>>

-----------------------------------------------------------------------------
OnMessage(a) == StartCoroutine(a) \/ ResumeWaiting(a) \/ DropResponse(a)
Body(a) ==
  \/ SleepStart(a) \/ Finish(a)
  \/ \E to \in Actors : SendToActor(a, to) \/ \E timed \in BOOLEAN : CallSend(a, to, timed)
  \/ \E ok \in BOOLEAN : RespondToCall(a, ok)
TimerStep(a) == \E s \in Sessions : TimerCollect(a, s) \/ TimerSend(a, s)

Next ==
  \E a \in Actors :
    \/ OnMessage(a) \/ AwaitResume(a) \/ Body(a) \/ Arm(a)
    \/ TimerStep(a) \/ ExternalSend(a) \/ UnregisterActor(a) \/ Release(a)

Spec == Init /\ [][Next]_vars

\* Handlers run and end, timers expire, an unregistered actor is let go.
Fairness ==
  \A a \in Actors :
    /\ WF_vars(OnMessage(a) \/ AwaitResume(a) \/ Arm(a) \/ Finish(a))
    /\ WF_vars(Release(a))
    /\ \A s \in Sessions : WF_vars(TimerCollect(a, s) \/ TimerSend(a, s))

FairSpec == Spec /\ Fairness

-----------------------------------------------------------------------------
(* Properties.                                                             *)

TypeOK ==
  /\ status \in [Actors -> {"registered", "unregistered", "released"}]
  /\ mailbox \in [Actors -> Seq(Msgs)]
  /\ pc \in [Actors -> {"idle", "body", "arm", "resume"}]
  /\ request \in [Actors -> Msgs] /\ session \in [Actors -> 0..MaxCalls]
  /\ calls \in 0..MaxCalls /\ nextSession \in [Actors -> 1..(calls + 1)]
  /\ waitMap \in [Actors -> SUBSET Sessions]
  /\ frame \in [Actors -> [Sessions -> Frames]]
  /\ responseMap \in [Actors -> SUBSET Sessions]
  /\ response \in [Actors -> [Sessions -> Msgs]]
  /\ timer \in [Actors -> [Sessions ->
                  {"none", "armed", "collected", "fired", "cancelled"}]]
  /\ resumed \in [Actors -> [Sessions -> Nat]]
  /\ requests \in Nat /\ replies \in Nat
  /\ \A a \in Actors : pc[a] \in {"arm", "resume"} => session[a] \in Sessions

Queue(a) == {mailbox[a][i] : i \in 1..Len(mailbox[a])}

\* A response with a session is only ever the answer to a call its receiver made,
\* from the actor that was called, or that call's own timeout or wakeup.
Answers(a, m) ==
  LET f == frame[a][m.session]
  IN /\ m.session < nextSession[a]
     /\ m.from = System => f.timed /\ (m.ok <=> f.kind = "sleep")
     /\ m.from # System => f.kind = "call" /\ m.from = f.target
ResponsesMatch ==
  \A a \in Actors :
    /\ \A m \in Queue(a) : IsAnswer(m) => Answers(a, m)
    /\ \A s \in responseMap[a] : response[a][s].session = s /\ Answers(a, response[a][s])

\* However response, second response and timeout race, a suspended coroutine is
\* resumed once (resuming a finished frame would be undefined behaviour).
ResumedOnce ==
  \A a \in Actors, s \in Sessions :
    resumed[a][s] <= 1 /\ (s \in waitMap[a] => resumed[a][s] = 0)

\* A coroutine that waits with a timeout is never stranded: its timer still runs or
\* the timeout message is already in the mailbox.
NeverStranded ==
  \A a \in Actors : \A s \in waitMap[a] :
    (frame[a][s].timed /\ status[a] = "registered" /\ ~(pc[a] = "arm" /\ session[a] = s))
      => \/ timer[a][s] \in {"armed", "collected"}
         \/ \E m \in Queue(a) : IsAnswer(m) /\ m.session = s

\* No timer of a call is left behind once its answer arrived without an error.
NoLeftoverTimer ==
  \A a \in Actors, s \in Sessions :
    (timer[a][s] = "armed" /\ status[a] = "registered")
      => \/ s \in waitMap[a]
         \/ pc[a] = "resume" /\ session[a] = s
         \/ ~response[a][s].ok

\* A response does not outlive the await_resume of its call.
CallResponseTaken ==
  \A a \in Actors : \A s \in responseMap[a] :
    frame[a][s].kind = "call" => pc[a] = "resume" /\ session[a] = s

\* responseMap_ holds a response only until await_resume takes it out, as its
\* comment says; between two messages it is empty.
ResponsesAreTaken == \A a \in Actors : pc[a] = "idle" => responseMap[a] = {}

\* A timed call or a sleep ends, whatever the other side does: the target may be
\* gone, never answer, or call back.
WaitEnds ==
  \A a \in Actors, s \in Sessions :
    (s \in waitMap[a] /\ frame[a][s].timed) ~> (s \notin waitMap[a])
=============================================================================
