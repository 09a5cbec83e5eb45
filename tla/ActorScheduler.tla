--------------------------- MODULE ActorScheduler ---------------------------
(***************************************************************************)
(* The scheduling core of net_actor: ActorSystem::Send, Actor::PushMessage *)
(* and ProcessOne, ActorSystem::workerLoop, Start, Stop, RegisterActor and *)
(* the part of UnregisterActor that drops an actor from actors_.           *)
(*                                                                         *)
(* Every access to a spin-locked queue, to actors_ or to an atomic is one  *)
(* step, so all interleavings of senders, workers and the stopping thread  *)
(* between two such accesses are behaviours of the model.  A message is    *)
(* its number in sending order and its priority flag.                      *)
(***************************************************************************)
EXTENDS Naturals, Sequences

CONSTANTS
  Actors,        \* the actor ids that nextActorId_ can hand out
  Workers,       \* the threads of workers_
  Senders,       \* other threads that call Send: the epoll loops, the timer
  Main,          \* the thread that calls Start and Stop
  None,          \* no actor
  MaxBatch,      \* messages per scheduling of an actor (64 in the code)
  MaxRounds,     \* maxDrainRounds of Stop (3 in the code)
  MaxSends,      \* bound on the messages sent in a behaviour
  DrainUnregister \* whether UnregisterActor may be called while Stop drains

ASSUME SchedulerAssumption ==
  /\ None \notin Actors
  /\ Main \notin Workers \cup Senders
  /\ Workers \cap Senders = {}
  /\ MaxBatch \in Nat \ {0} /\ MaxRounds \in Nat \ {0} /\ MaxSends \in Nat
  /\ DrainUnregister \in BOOLEAN

Threads == Workers \cup Senders \cup {Main}
Msgs    == (1..MaxSends) \X BOOLEAN      \* <<number, msg.priority>>
NoMsg   == <<0, FALSE>>
IdleCall == [at |-> "idle", to |-> None, msg |-> NoMsg]

VARIABLES
  actors,           \* the keys of actors_
  used,             \* ids handed out so far
  priorityMailbox,  \* per actor
  normalMailbox,
  scheduled,        \* Actor::scheduled_
  readyQueue,
  running,          \* running_
  pc,               \* where each thread's own loop stands
  cur,              \* the actor that loop works on
  inHand,           \* the message popped by ProcessOne, while OnMessage runs
  count,            \* processed of workerLoop, drained of Stop
  call,             \* a Send in progress in each thread
  sent,             \* messages sent so far
  drain,            \* actorList of Stop: raw pointers still to visit
  round, anyProcessed,
  owed,             \* history: messages in some mailbox when Stop has joined the workers
  load              \* history: per actor, how many waited then or came to its mailbox since

sysVars  == <<actors, used, running>>
boxVars  == <<priorityMailbox, normalMailbox>>
stopVars == <<drain, round, anyProcessed, owed, load>>
loopVars == <<pc, cur, inHand, count>>
vars == <<actors, used, priorityMailbox, normalMailbox, scheduled, readyQueue,
          running, pc, cur, inHand, count, call, sent, drain, round,
          anyProcessed, owed, load>>

Elems(q) == {q[i] : i \in 1..Len(q)}
Mailbox(a) == Elems(priorityMailbox[a]) \cup Elems(normalMailbox[a])
Waiting(a) == Len(priorityMailbox[a]) + Len(normalMailbox[a])

Goto(t, label) == pc' = [pc EXCEPT ![t] = label]

Init ==
  /\ actors = {} /\ used = {}
  /\ priorityMailbox = [a \in Actors |-> <<>>]
  /\ normalMailbox = [a \in Actors |-> <<>>]
  /\ scheduled = [a \in Actors |-> FALSE]
  /\ readyQueue = <<>>
  /\ running = FALSE
  /\ pc = [t \in Threads |-> "off"]
  /\ cur = [t \in Threads |-> None]
  /\ inHand = [t \in Threads |-> NoMsg]
  /\ count = [t \in Threads |-> 0]
  /\ call = [t \in Threads |-> IdleCall]
  /\ sent = 0
  /\ drain = {} /\ round = 0 /\ anyProcessed = FALSE /\ owed = {}
  /\ load = [a \in Actors |-> 0]

-----------------------------------------------------------------------------
(* Actors come and go.                                                     *)

\* Labels at which Stop holds the raw pointers of actorList.
DrainLabels == {"drainNext", "drainP", "drainN", "popP", "popN", "handling"}
\* From the joining of the workers on.
DrainPhase == DrainLabels \cup {"collect", "stopped"}

RegisterActor(a) ==
  /\ a \notin used
  /\ used' = used \cup {a} /\ actors' = actors \cup {a}
  /\ UNCHANGED <<boxVars, scheduled, readyQueue, running, loopVars, call, sent,
                 stopVars>>

UnregisterActor(a) ==
  /\ a \in actors
  /\ DrainUnregister \/ pc[Main] \notin DrainLabels
  /\ actors' = actors \ {a}
  /\ UNCHANGED <<used, boxVars, scheduled, readyQueue, running, loopVars, call,
                 sent, stopVars>>

-----------------------------------------------------------------------------
(* ActorSystem::Send, by a sender thread or by a handler on its thread.    *)

MaySend(t) == t \in Senders \/ pc[t] = "handling"

\* The lookup under actorsLock_; an unknown id returns with nothing changed.
SendFind(t, a, prio) ==
  /\ MaySend(t) /\ call[t].at = "idle"
  /\ sent < MaxSends
  /\ a \in actors
  /\ sent' = sent + 1
  /\ call' = [call EXCEPT ![t] =
                [at |-> "found", to |-> a, msg |-> <<sent + 1, prio>>]]
  /\ UNCHANGED <<sysVars, boxVars, scheduled, readyQueue, loopVars, stopVars>>

\* SpinLockQueue::push.
BadPush(q, m) == <<m>> \o q        \* mutant: the newest first
PushBack(q, m) == Append(q, m)

PushMessage(t) ==
  /\ call[t].at = "found"
  /\ LET a == call[t].to  m == call[t].msg
     IN IF m[2]
        THEN /\ priorityMailbox' = [priorityMailbox EXCEPT ![a] = PushBack(@, m)]
             /\ UNCHANGED normalMailbox
        ELSE /\ normalMailbox' = [normalMailbox EXCEPT ![a] = PushBack(@, m)]
             /\ UNCHANGED priorityMailbox
  /\ call' = [call EXCEPT ![t].at = "pushed"]
  /\ load' = IF pc[Main] \in DrainPhase THEN [load EXCEPT ![call[t].to] = @ + 1] ELSE load
  /\ UNCHANGED <<sysVars, scheduled, readyQueue, loopVars, sent, drain, round,
                 anyProcessed, owed>>

\* scheduled_.compare_exchange_strong(false, true) succeeds.
BadClaim(a) == a \in Actors        \* mutant: the result of the exchange is ignored
Unclaimed(a) == ~scheduled[a]

SendSchedule(t) ==
  /\ call[t].at = "pushed"
  /\ scheduled' = [scheduled EXCEPT ![call[t].to] = TRUE]
  /\ call' = [call EXCEPT ![t] =
                IF Unclaimed(call[t].to) THEN [@ EXCEPT !.at = "won"] ELSE IdleCall]
  /\ UNCHANGED <<sysVars, boxVars, readyQueue, loopVars, sent, stopVars>>

SendEnqueue(t) ==
  /\ call[t].at = "won"
  /\ readyQueue' = Append(readyQueue, call[t].to)
  /\ call' = [call EXCEPT ![t] = IdleCall]
  /\ UNCHANGED <<sysVars, boxVars, scheduled, loopVars, sent, stopVars>>

-----------------------------------------------------------------------------
(* Actor::ProcessOne, in a worker or in the draining thread.  popP and popN*)
(* are the two pops; OnMessage runs from "handling" until it returns or    *)
(* throws.                                                                 *)

ProcessOnePriority(t) ==
  /\ pc[t] = "popP"
  /\ LET a == cur[t] IN
     \/ /\ priorityMailbox[a] = <<>>
        /\ Goto(t, "popN")
        /\ UNCHANGED <<priorityMailbox, inHand>>
     \/ /\ priorityMailbox[a] # <<>>
        /\ inHand' = [inHand EXCEPT ![t] = Head(priorityMailbox[a])]
        /\ priorityMailbox' = [priorityMailbox EXCEPT ![a] = Tail(@)]
        /\ Goto(t, "handling")
  /\ UNCHANGED <<sysVars, normalMailbox, scheduled, readyQueue, cur, count, call,
                 sent, stopVars>>

\* Where the caller continues when ProcessOne returns or OnMessage throws.
BadAfterEmpty(t) ==             \* mutant: the worker forgets to release the actor
  IF t = Main THEN "drainP" ELSE "loop"
AfterEmpty(t) == IF t = Main THEN "drainP" ELSE "emptyP"
AfterReturn(t) ==
  IF t = Main THEN "drainP" ELSE IF count[t] + 1 < MaxBatch THEN "popP" ELSE "emptyP"

ProcessOneNormal(t) ==
  /\ pc[t] = "popN"
  /\ LET a == cur[t] IN
     \/ /\ normalMailbox[a] = <<>>
        /\ Goto(t, AfterEmpty(t))
        /\ UNCHANGED <<normalMailbox, inHand>>
     \/ /\ normalMailbox[a] # <<>>
        /\ inHand' = [inHand EXCEPT ![t] = Head(normalMailbox[a])]
        /\ normalMailbox' = [normalMailbox EXCEPT ![a] = Tail(@)]
        /\ Goto(t, "handling")
  /\ UNCHANGED <<sysVars, priorityMailbox, scheduled, readyQueue, cur, count, call,
                 sent, stopVars>>

HandlerReturn(t) ==
  /\ pc[t] = "handling" /\ call[t].at = "idle"
  /\ Goto(t, AfterReturn(t))
  /\ count' = [count EXCEPT ![t] = @ + 1]
  /\ inHand' = [inHand EXCEPT ![t] = NoMsg]
  /\ anyProcessed' = (anyProcessed \/ t = Main)
  /\ UNCHANGED <<sysVars, boxVars, scheduled, readyQueue, cur, call, sent, drain,
                 round, owed, load>>

\* The message is lost, the batch ends; Stop's loop goes on.
HandlerThrow(t) ==
  /\ pc[t] = "handling" /\ call[t].at = "idle"
  /\ Goto(t, AfterEmpty(t))
  /\ count' = [count EXCEPT ![t] = @ + 1]
  /\ inHand' = [inHand EXCEPT ![t] = NoMsg]
  /\ anyProcessed' = (anyProcessed \/ t = Main)
  /\ UNCHANGED <<sysVars, boxVars, scheduled, readyQueue, cur, call, sent, drain,
                 round, owed, load>>

-----------------------------------------------------------------------------
(* workerLoop.  An empty readyQueue makes the worker wait at most 10 ms and*)
(* look again, so notify_one carries no state.                             *)

WorkerTest(w) ==
  /\ pc[w] = "loop" /\ running
  /\ Goto(w, "pop")
  /\ UNCHANGED <<sysVars, boxVars, scheduled, readyQueue, cur, inHand, count, call,
                 sent, stopVars>>

WorkerPop(w) ==
  /\ pc[w] = "pop"
  /\ readyQueue # <<>>
  /\ cur' = [cur EXCEPT ![w] = Head(readyQueue)]
  /\ readyQueue' = Tail(readyQueue)
  /\ Goto(w, "lookup")
  /\ UNCHANGED <<sysVars, boxVars, scheduled, inHand, count, call, sent, stopVars>>

WorkerWait(w) ==
  /\ pc[w] = "pop" /\ readyQueue = <<>>
  /\ Goto(w, "loop")
  /\ UNCHANGED <<sysVars, boxVars, scheduled, readyQueue, cur, inHand, count, call,
                 sent, stopVars>>

BadExit(w) ==                   \* mutant: the wait has no timeout and needs an entry
  /\ pc[w] = "loop" /\ ~running /\ readyQueue # <<>>
  /\ Goto(w, "exited")
  /\ UNCHANGED <<sysVars, boxVars, scheduled, readyQueue, cur, inHand, count, call,
                 sent, stopVars>>

WorkerExit(w) ==
  /\ pc[w] = "loop" /\ ~running
  /\ Goto(w, "exited")
  /\ UNCHANGED <<sysVars, boxVars, scheduled, readyQueue, cur, inHand, count, call,
                 sent, stopVars>>

\* actors_.find: an unregistered id goes back to the top of the loop.
WorkerLookup(w) ==
  /\ pc[w] = "lookup"
  /\ \/ /\ cur[w] \in actors
        /\ Goto(w, "popP")
        /\ count' = [count EXCEPT ![w] = 0]
        /\ UNCHANGED cur
     \/ /\ cur[w] \notin actors
        /\ Goto(w, "loop")
        /\ cur' = [cur EXCEPT ![w] = None]
        /\ UNCHANGED count
  /\ UNCHANGED <<sysVars, boxVars, scheduled, readyQueue, inHand, call, sent,
                 stopVars>>

\* IsMailboxEmpty takes the two queue locks one after the other.
WorkerCheck(w) ==
  /\ \/ /\ pc[w] = "emptyP"
        /\ Goto(w, IF priorityMailbox[cur[w]] = <<>> THEN "emptyN" ELSE "requeue")
     \/ /\ pc[w] = "emptyN"
        /\ Goto(w, IF normalMailbox[cur[w]] = <<>> THEN "unschedule" ELSE "requeue")
  /\ UNCHANGED <<sysVars, boxVars, scheduled, readyQueue, cur, inHand, count, call,
                 sent, stopVars>>

WorkerRequeue(w) ==
  /\ pc[w] = "requeue"
  /\ readyQueue' = Append(readyQueue, cur[w])
  /\ cur' = [cur EXCEPT ![w] = None]
  /\ Goto(w, "loop")
  /\ UNCHANGED <<sysVars, boxVars, scheduled, inHand, count, call, sent, stopVars>>

BadUnschedule(w) ==             \* mutant: no double check after the store
  /\ pc[w] = "unschedule"
  /\ scheduled' = [scheduled EXCEPT ![cur[w]] = FALSE]
  /\ cur' = [cur EXCEPT ![w] = None]
  /\ Goto(w, "loop")
  /\ UNCHANGED <<sysVars, boxVars, readyQueue, inHand, count, call, sent, stopVars>>

WorkerUnschedule(w) ==
  /\ pc[w] = "unschedule"
  /\ scheduled' = [scheduled EXCEPT ![cur[w]] = FALSE]
  /\ Goto(w, "recheckP")
  /\ UNCHANGED <<sysVars, boxVars, readyQueue, cur, inHand, count, call, sent,
                 stopVars>>

\* The double check after clearing scheduled_, then its compare_exchange.
WorkerRecheck(w) ==
  /\ \/ /\ pc[w] = "recheckP"
        /\ Goto(w, IF priorityMailbox[cur[w]] = <<>> THEN "recheckN" ELSE "recas")
        /\ UNCHANGED cur
     \/ /\ pc[w] = "recheckN"
        /\ normalMailbox[cur[w]] # <<>>
        /\ Goto(w, "recas")
        /\ UNCHANGED cur
     \/ /\ pc[w] = "recheckN"
        /\ normalMailbox[cur[w]] = <<>>
        /\ Goto(w, "loop")
        /\ cur' = [cur EXCEPT ![w] = None]
  /\ UNCHANGED <<sysVars, boxVars, scheduled, readyQueue, inHand, count, call, sent,
                 stopVars>>

WorkerReschedule(w) ==
  /\ pc[w] = "recas"
  /\ scheduled' = [scheduled EXCEPT ![cur[w]] = TRUE]
  /\ \/ /\ scheduled[cur[w]]
        /\ Goto(w, "loop")
        /\ cur' = [cur EXCEPT ![w] = None]
     \/ /\ ~scheduled[cur[w]]
        /\ Goto(w, "requeue")
        /\ UNCHANGED cur
  /\ UNCHANGED <<sysVars, boxVars, readyQueue, inHand, count, call, sent, stopVars>>

-----------------------------------------------------------------------------
(* Start and Stop, on the main thread.                                     *)

Start ==
  /\ pc[Main] = "off"
  /\ running' = TRUE
  /\ pc' = [t \in Threads |->
              IF t = Main THEN "running" ELSE IF t \in Workers THEN "loop" ELSE pc[t]]
  /\ UNCHANGED <<actors, used, boxVars, scheduled, readyQueue, cur, inHand, count,
                 call, sent, stopVars>>

StopBegin ==
  /\ pc[Main] = "running"
  /\ running' = FALSE
  /\ Goto(Main, "joining")
  /\ UNCHANGED <<actors, used, boxVars, scheduled, readyQueue, cur, inHand, count,
                 call, sent, stopVars>>

StopJoin ==
  /\ pc[Main] = "joining"
  /\ \A w \in Workers : pc[w] = "exited"
  /\ Goto(Main, "collect")
  /\ owed' = UNION {Mailbox(a) : a \in actors}
  /\ load' = [a \in Actors |-> Waiting(a)]
  /\ UNCHANGED <<sysVars, boxVars, scheduled, readyQueue, cur, inHand, count, call,
                 sent, drain, round, anyProcessed>>

\* A drain round copies the raw actor pointers under actorsLock_.
DrainCollect ==
  /\ pc[Main] = "collect"
  /\ round' = round + 1
  /\ drain' = actors
  /\ anyProcessed' = FALSE
  /\ Goto(Main, "drainNext")
  /\ UNCHANGED <<sysVars, boxVars, scheduled, readyQueue, cur, inHand, count, call,
                 sent, owed, load>>

\* for (round < maxDrainRounds), if (!anyProcessed) break
BadMoreRounds == FALSE          \* mutant: a single round
MoreRounds == anyProcessed /\ round < MaxRounds

\* The for loop over actorList, and the end of a round.
DrainNext ==
  /\ pc[Main] = "drainNext"
  /\ \/ \E a \in drain :
          /\ drain' = drain \ {a}
          /\ cur' = [cur EXCEPT ![Main] = a]
          /\ count' = [count EXCEPT ![Main] = 0]
          /\ Goto(Main, "drainP")
     \/ /\ drain = {}
        /\ Goto(Main, IF MoreRounds THEN "collect" ELSE "stopped")
        /\ UNCHANGED <<drain, cur, count>>
  /\ UNCHANGED <<sysVars, boxVars, scheduled, readyQueue, inHand, call, sent, round,
                 anyProcessed, owed, load>>

\* while (!IsMailboxEmpty() && drained < 64)
DrainCheck ==
  LET leave == Goto(Main, "drainNext") /\ cur' = [cur EXCEPT ![Main] = None]
      again == Goto(Main, "popP") /\ UNCHANGED cur
      more  == IF count[Main] < MaxBatch THEN again ELSE leave
  IN /\ \/ /\ pc[Main] = "drainP"
           /\ IF priorityMailbox[cur[Main]] # <<>>
              THEN more
              ELSE Goto(Main, "drainN") /\ UNCHANGED cur
        \/ /\ pc[Main] = "drainN"
           /\ IF normalMailbox[cur[Main]] # <<>> THEN more ELSE leave
     /\ UNCHANGED <<sysVars, boxVars, scheduled, readyQueue, inHand, count, call, sent,
                    stopVars>>

-----------------------------------------------------------------------------
SendStep(t) ==
  \/ PushMessage(t) \/ SendSchedule(t) \/ SendEnqueue(t)
  \/ \E a \in Actors, prio \in BOOLEAN : SendFind(t, a, prio)

ProcessStep(t) ==
  \/ ProcessOnePriority(t) \/ ProcessOneNormal(t)
  \/ HandlerReturn(t) \/ HandlerThrow(t)

WorkerStep(w) ==
  \/ WorkerTest(w) \/ WorkerPop(w) \/ WorkerWait(w) \/ WorkerExit(w)
  \/ WorkerLookup(w) \/ WorkerCheck(w)
  \/ WorkerRequeue(w) \/ WorkerUnschedule(w) \/ WorkerRecheck(w)
  \/ WorkerReschedule(w)

StopStep == StopBegin \/ StopJoin \/ DrainCollect \/ DrainNext \/ DrainCheck

Next ==
  \/ \E a \in Actors : RegisterActor(a) \/ UnregisterActor(a)
  \/ \E t \in Threads : SendStep(t) \/ ProcessStep(t)
  \/ \E w \in Workers : WorkerStep(w)
  \/ Start \/ StopStep

Spec == Init /\ [][Next]_vars

\* The scheduler's threads keep running and handlers return; the application's
\* calls (registering, sending, stopping) need not happen.
Fairness ==
  /\ \A t \in Threads :
       /\ WF_vars(PushMessage(t) \/ SendSchedule(t) \/ SendEnqueue(t))
       /\ WF_vars(ProcessOnePriority(t) \/ ProcessOneNormal(t))
       /\ WF_vars(HandlerReturn(t) \/ HandlerThrow(t))
  /\ \A w \in Workers : WF_vars(WorkerStep(w))
  /\ WF_vars(StopJoin \/ DrainCollect \/ DrainNext \/ DrainCheck)

FairSpec == Spec /\ Fairness

-----------------------------------------------------------------------------
(* Properties.                                                             *)

Labels == {"off", "loop", "pop", "lookup", "popP", "popN", "handling", "emptyP", "emptyN",
           "requeue", "unschedule", "recheckP", "recheckN", "recas", "exited"}
MainLabels == {"off", "running", "joining", "collect", "drainNext", "drainP",
               "drainN", "popP", "popN", "handling", "stopped"}

\* The labels at which a worker owns its actor: it took the id from readyQueue
\* and has not yet given it back or cleared scheduled_.
HoldLabels == {"lookup", "popP", "popN", "handling", "emptyP", "emptyN",
               "requeue", "unschedule"}
RecheckLabels == {"recheckP", "recheckN", "recas"}

SystemOK ==
  /\ actors \subseteq used /\ used \subseteq Actors
  /\ scheduled \in [Actors -> BOOLEAN]
  /\ readyQueue \in Seq(Actors)
  /\ running \in BOOLEAN
BoxOK ==
  /\ priorityMailbox \in [Actors -> Seq(Msgs)]
  /\ normalMailbox \in [Actors -> Seq(Msgs)]
LoopOK ==
  /\ pc \in [Threads -> Labels \cup MainLabels]
  /\ cur \in [Threads -> Actors \cup {None}]
  /\ pc[Main] \in MainLabels
  /\ pc[Main] \in {"drainP", "drainN", "popP", "popN", "handling"} => cur[Main] \in Actors
  /\ \A s \in Senders : pc[s] = "off"
  /\ \A w \in Workers :
       pc[w] \in Labels /\ (pc[w] \in HoldLabels \cup RecheckLabels => cur[w] \in Actors)
HandOK ==
  /\ inHand \in [Threads -> Msgs \cup {NoMsg}]
  /\ count \in [Threads -> Nat]
CallOK ==
  /\ sent \in 0..MaxSends
  /\ call \in [Threads -> [at : {"idle", "found", "pushed", "won"},
                           to : Actors \cup {None}, msg : Msgs \cup {NoMsg}]]
  /\ \A t \in Threads : call[t].at # "idle" => call[t].to \in Actors /\ call[t].msg \in Msgs
StopOK ==
  /\ drain \subseteq Actors /\ owed \subseteq Msgs
  /\ round \in Nat /\ anyProcessed \in BOOLEAN /\ load \in [Actors -> Nat]

\* Every variable keeps its type; a worker between taking and releasing an actor
\* has one, and a Send in progress has a target.
TypeOK == SystemOK /\ BoxOK /\ LoopOK /\ HandOK /\ CallOK /\ StopOK

Processing(t, a) == pc[t] \in {"popP", "popN", "handling"} /\ cur[t] = a

\* An actor's messages are handled serially: no two threads, the draining one
\* included, are inside ProcessOne of the same actor (scheduled_ and the order of
\* join and drain).
SerialProcessing ==
  \A a \in Actors : \A t, u \in Threads :
    Processing(t, a) /\ Processing(u, a) => t = u

\* The permission to schedule a: an entry of readyQueue, the worker that took
\* it, or the Send that won the compare_exchange and has still to enqueue it.
Queued(a) == a \in Elems(readyQueue)
Held(w, a) == pc[w] \in HoldLabels /\ cur[w] = a
Won(t, a) == call[t].at = "won" /\ call[t].to = a
Pushed(t, a) == call[t].at = "pushed" /\ call[t].to = a
Rechecks(w, a, L) == pc[w] \in L /\ cur[w] = a
HasToken(a) ==
  Queued(a) \/ (\E w \in Workers : Held(w, a)) \/ (\E t \in Threads : Won(t, a))

\* No lost wakeup: while an actor is registered, a message in its mailbox is
\* always accounted for by somebody who will look at it: the token, a Send that
\* has still to try scheduled_, or a worker whose double check is ahead.
NoLostWakeup ==
  \A a \in actors :
    priorityMailbox[a] # <<>> \/ normalMailbox[a] # <<>> =>
      \/ HasToken(a)
      \/ \E t \in Threads : Pushed(t, a)
      \/ \E w \in Workers : Rechecks(w, a, RecheckLabels)

\* Stop gives every message that was in an actor's mailbox when the workers had been
\* joined to its handler, if these and the messages that came to the same mailbox since
\* are no more than the drain's budget for one actor (3 rounds of 64), however many wait
\* for others.
StopDrains ==
  pc[Main] = "stopped" =>
    \A a \in actors : load[a] <= MaxRounds * MaxBatch => Mailbox(a) \cap owed = {}

\* The memory of an actor is released when actors_ and every shared_ptr copy are
\* gone; the pointers of Stop's actorList do not count.
Alive(a) ==
  \/ a \in actors
  \/ \E w \in Workers : pc[w] \in (HoldLabels \ {"lookup"}) \cup RecheckLabels /\ cur[w] = a
  \/ \E t \in Threads : call[t].at # "idle" /\ call[t].to = a

\* No thread uses an actor after its memory was released, the promise of the
\* comment on actors_ ("shared_ptr ... avoids UAF through raw pointers").
NoUseAfterFree ==
  pc[Main] \in {"drainP", "drainN", "popP", "popN", "handling"} => Alive(cur[Main])

\* The serial actors that the threads implement: an actor is busy with the
\* message some thread has in hand for it.
BusyWith(a) ==
  LET T == {t \in Threads : pc[t] = "handling" /\ cur[t] = a}
  IN IF T = {} THEN NoMsg ELSE inHand[CHOOSE t \in T : TRUE]
Abstract == INSTANCE SerialActors
              WITH priority <- priorityMailbox, normal <- normalMailbox,
                   busy <- [a \in Actors |-> BusyWith(a)]

\* The threads implement one serial actor per id with two FIFO mailboxes.
ImplementsSerialActors == Abstract!Spec

\* A message waiting at a registered actor is handled, unless the actor goes or
\* the system is stopped first.
Unhandled(i) == \E a \in actors : \E m \in Mailbox(a) : m[1] = i
MessagesHandled ==
  \A i \in 1..MaxSends : (Unhandled(i) /\ running) ~> (~Unhandled(i) \/ ~running)

\* Stop returns: the workers see running_ and are joined, the drain is bounded.
StopTerminates == (pc[Main] = "joining") ~> (pc[Main] = "stopped")
=============================================================================
