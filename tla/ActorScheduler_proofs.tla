----------------------- MODULE ActorScheduler_proofs ------------------------
(***************************************************************************)
(* Proofs about ActorScheduler for any number of actors, workers, senders  *)
(* and messages and any batch size: type correctness, serial processing,   *)
(* the absence of lost wakeups, the refinement of SerialActors, and that   *)
(* the drain of Stop handles what it owes.                                 *)
(***************************************************************************)
EXTENDS ActorScheduler, Integers, TLAPS

USE DEF PushBack, Unclaimed, MoreRounds   \* names for the code's small tests

-----------------------------------------------------------------------------
(* Queues without duplicates.                                              *)

Distinct(q) == \A i, j \in 1..Len(q) : q[i] = q[j] => i = j

\* Appending adds the new element to the elements of a queue.
LEMMA ElemsAppend ==
  ASSUME NEW S, NEW q \in Seq(S), NEW x \in S
  PROVE  Elems(Append(q, x)) = Elems(q) \cup {x}
  BY DEF Elems

\* Popping a queue removes its head.
LEMMA ElemsTail ==
  ASSUME NEW S, NEW q \in Seq(S), q # <<>>
  PROVE  Elems(q) = {Head(q)} \cup Elems(Tail(q))
  BY DEF Elems

\* Pushing an element that is not queued keeps the queue free of duplicates.
LEMMA DistinctAppend ==
  ASSUME NEW S, NEW q \in Seq(S), NEW x \in S, Distinct(q), x \notin Elems(q)
  PROVE  Distinct(Append(q, x))
  BY DEF Elems, Distinct

\* Popping a queue without duplicates leaves none, and the head is gone.
LEMMA DistinctTail ==
  ASSUME NEW S, NEW q \in Seq(S), q # <<>>, Distinct(q)
  PROVE  Distinct(Tail(q)) /\ Head(q) \notin Elems(Tail(q))
  BY DEF Elems, Distinct

-----------------------------------------------------------------------------
(* Type correctness.                                                       *)

\* The initial state is well typed.
LEMMA TypeInit == Init => TypeOK
<1> SUFFICES ASSUME Init PROVE TypeOK
  OBVIOUS
<1>1. SystemOK
  <2>1. readyQueue \in Seq(Actors) /\ actors \subseteq used /\ used \subseteq Actors
    BY DEF Init
  <2>2. scheduled \in [Actors -> BOOLEAN] /\ running \in BOOLEAN
    BY DEF Init
  <2> QED BY <2>1, <2>2 DEF SystemOK
<1>5. StopOK
  <2>1. drain \subseteq Actors /\ owed \subseteq Msgs /\ round \in Nat
    BY DEF Init
  <2>2. anyProcessed \in BOOLEAN /\ load \in [Actors -> Nat]
    BY DEF Init
  <2> QED BY <2>1, <2>2 DEF StopOK
<1>4. BoxOK /\ HandOK
  BY DEF Init, BoxOK, HandOK
<1>2. LoopOK
  BY SchedulerAssumption DEF Init, LoopOK, Threads, Labels, MainLabels, HoldLabels, RecheckLabels
<1>3. CallOK
  BY SchedulerAssumption DEF Init, CallOK, IdleCall
<1> QED BY <1>1, <1>2, <1>3, <1>4, <1>5 DEF TypeOK

\* Every step of a Send keeps the types.
LEMMA TypeSend ==
  ASSUME TypeOK, NEW t \in Threads, SendStep(t)
  PROVE  TypeOK'
<1> USE SchedulerAssumption DEF TypeOK
<1>1. LoopOK' /\ HandOK'
  BY DEF SendStep, PushMessage, SendSchedule, SendEnqueue, SendFind, LoopOK, HandOK, loopVars
<1>2. StopOK'
  <2>1. CASE PushMessage(t)
    <3>1. load' = load \/ load' = [load EXCEPT ![call[t].to] = @ + 1]
      BY <2>1 DEF PushMessage
    <3>2. load' \in [Actors -> Nat]
      BY <3>1 DEF StopOK
    <3> QED BY <2>1, <3>2 DEF PushMessage, StopOK
  <2> QED BY <2>1 DEF SendStep, SendSchedule, SendEnqueue, SendFind, StopOK, stopVars
<1>3. CASE PushMessage(t)
  <2>1. call[t].to \in Actors /\ call[t].msg \in Msgs
    BY <1>3 DEF PushMessage, CallOK
  <2>2. BoxOK'
    <3>1. /\ Append(priorityMailbox[call[t].to], call[t].msg) \in Seq(Msgs)
          /\ Append(normalMailbox[call[t].to], call[t].msg) \in Seq(Msgs)
      BY <2>1 DEF BoxOK
    <3> QED BY <1>3, <2>1, <3>1 DEF PushMessage, BoxOK
  <2>3. SystemOK' /\ CallOK'
    BY <1>3 DEF PushMessage, SystemOK, CallOK, sysVars
  <2> QED BY <1>1, <1>2, <2>2, <2>3
<1>4. CASE SendSchedule(t)
  BY ZenonT(40), <1>1, <1>2, <1>4 DEF SendSchedule, IdleCall, SystemOK, BoxOK, CallOK, sysVars, boxVars
<1>5. CASE SendEnqueue(t)
  BY <1>1, <1>2, <1>5 DEF SendEnqueue, IdleCall, SystemOK, BoxOK, CallOK, sysVars, boxVars
<1>6. ASSUME NEW a \in Actors, NEW prio \in BOOLEAN, SendFind(t, a, prio)
      PROVE  TypeOK'
  <2>1. <<sent + 1, prio>> \in Msgs /\ sent + 1 \in 0..MaxSends
    BY <1>6 DEF SendFind, Msgs, CallOK
  <2> QED BY <1>1, <1>2, <1>6, <2>1 DEF SendFind, SystemOK, BoxOK, CallOK, sysVars, boxVars
<1> QED BY <1>3, <1>4, <1>5, <1>6 DEF SendStep

\* Every step of ProcessOne keeps the types.
LEMMA TypeProcess ==
  ASSUME TypeOK, NEW t \in Threads, ProcessStep(t)
  PROVE  TypeOK'
<1> USE SchedulerAssumption DEF TypeOK
<1>1. t \in Workers \cup {Main} /\ cur[t] \in Actors
  BY DEF ProcessStep, ProcessOnePriority, ProcessOneNormal, HandlerReturn, HandlerThrow,
         Threads, HoldLabels, LoopOK
<1>2. SystemOK' /\ CallOK'
  BY DEF ProcessStep, ProcessOnePriority, ProcessOneNormal, HandlerReturn, HandlerThrow,
         SystemOK, CallOK, sysVars
<1>3. StopOK'
  BY DEF ProcessStep, ProcessOnePriority, ProcessOneNormal, HandlerReturn, HandlerThrow,
         StopOK, stopVars
<1>4. BoxOK'
  <2>1. priorityMailbox[cur[t]] # <<>> => Tail(priorityMailbox[cur[t]]) \in Seq(Msgs)
    BY <1>1 DEF BoxOK
  <2>2. normalMailbox[cur[t]] # <<>> => Tail(normalMailbox[cur[t]]) \in Seq(Msgs)
    BY <1>1 DEF BoxOK
  <2>3. CASE ProcessOnePriority(t)
    BY <1>1, <2>1, <2>3 DEF ProcessOnePriority, BoxOK
  <2>4. CASE ProcessOneNormal(t)
    BY <1>1, <2>2, <2>4 DEF ProcessOneNormal, BoxOK
  <2> QED BY <2>3, <2>4 DEF ProcessStep, HandlerReturn, HandlerThrow, BoxOK, boxVars
<1>5. HandOK'
  <2>1. priorityMailbox[cur[t]] # <<>> => Head(priorityMailbox[cur[t]]) \in Msgs
    BY <1>1 DEF BoxOK
  <2>2. normalMailbox[cur[t]] # <<>> => Head(normalMailbox[cur[t]]) \in Msgs
    BY <1>1 DEF BoxOK
  <2> QED BY SMTT(30), <2>1, <2>2 DEF ProcessStep, ProcessOnePriority, ProcessOneNormal,
                            HandlerReturn, HandlerThrow, HandOK
<1>6. LoopOK'
  <2>1. /\ cur' = cur
        /\ \E l \in {"popP", "popN", "handling", "drainP", "emptyP"} :
             pc' = [pc EXCEPT ![t] = l] /\ (t = Main => l # "emptyP") /\ (t # Main => l # "drainP")
    BY DEF ProcessStep, ProcessOnePriority, ProcessOneNormal, HandlerReturn, HandlerThrow,
           Goto, AfterEmpty, AfterReturn
  <2> QED BY <1>1, <2>1 DEF LoopOK, Labels, MainLabels, HoldLabels, RecheckLabels
<1> QED BY <1>2, <1>3, <1>4, <1>5, <1>6

\* Every step of workerLoop keeps the types.
LEMMA TypeWorker ==
  ASSUME TypeOK, NEW w \in Workers, WorkerStep(w)
  PROVE  TypeOK'
<1> USE SchedulerAssumption DEF TypeOK
<1>1. BoxOK' /\ CallOK' /\ StopOK'
  BY DEF WorkerStep, WorkerTest, WorkerPop, WorkerWait, WorkerExit, WorkerLookup, WorkerCheck, WorkerRequeue,
         WorkerUnschedule, WorkerRecheck, WorkerReschedule, BoxOK, CallOK, StopOK, boxVars,
         stopVars
<1>2. HandOK'
  BY DEF WorkerStep, WorkerTest, WorkerPop, WorkerWait, WorkerExit, WorkerLookup, WorkerCheck, WorkerRequeue,
         WorkerUnschedule, WorkerRecheck, WorkerReschedule, HandOK
<1>3. SystemOK'
  <2>1. CASE WorkerPop(w)
    <3>1. Tail(readyQueue) \in Seq(Actors)
      BY <2>1 DEF WorkerPop, SystemOK
    <3> QED BY <2>1, <3>1 DEF WorkerPop, SystemOK, sysVars
  <2>2. CASE WorkerRequeue(w)
    <3>1. Append(readyQueue, cur[w]) \in Seq(Actors)
      BY <2>2 DEF WorkerRequeue, SystemOK, LoopOK, HoldLabels
    <3> QED BY <2>2, <3>1 DEF WorkerRequeue, SystemOK, sysVars
  <2>3. CASE WorkerUnschedule(w) \/ WorkerReschedule(w)
    BY <2>3 DEF WorkerUnschedule, WorkerReschedule, SystemOK, sysVars
  <2> QED BY <2>1, <2>2, <2>3 DEF WorkerStep, WorkerTest, WorkerWait, WorkerExit, WorkerLookup,
                                  WorkerCheck, WorkerRecheck, SystemOK, sysVars
<1>4. LoopOK'
  <2> USE DEF Goto, LoopOK, Labels, HoldLabels, RecheckLabels, Threads
  <2>1. /\ cur' \in [Threads -> Actors \cup {None}]
        /\ pc' \in [Threads -> Labels \cup MainLabels]
        /\ \A t \in Threads \ {w} : pc'[t] = pc[t] /\ cur'[t] = cur[t]
        /\ pc'[w] \in Labels
        /\ pc'[w] \in HoldLabels \cup RecheckLabels => cur'[w] \in Actors
    <3>1. CASE WorkerPop(w)
      <4>1. Head(readyQueue) \in Actors
        BY <3>1 DEF WorkerPop, SystemOK
      <4> QED BY <3>1, <4>1 DEF WorkerPop
    <3>2. CASE WorkerTest(w) \/ WorkerWait(w) \/ WorkerExit(w) \/ WorkerRequeue(w)
      BY <3>2 DEF WorkerTest, WorkerWait, WorkerExit, WorkerRequeue
    <3>3. CASE WorkerLookup(w)
      BY <3>3 DEF WorkerLookup
    <3>4. CASE WorkerCheck(w)
      BY <3>4 DEF WorkerCheck
    <3>5. CASE WorkerUnschedule(w)
      BY <3>5 DEF WorkerUnschedule
    <3>6. CASE WorkerRecheck(w)
      BY <3>6 DEF WorkerRecheck
    <3>7. CASE WorkerReschedule(w)
      BY <3>7 DEF WorkerReschedule
    <3> QED BY <3>1, <3>2, <3>3, <3>4, <3>5, <3>6, <3>7 DEF WorkerStep
  <2>2. w # Main /\ w \notin Senders
    OBVIOUS
  <2> QED BY <2>1, <2>2
<1> QED BY <1>1, <1>2, <1>3, <1>4

\* Start and every step of Stop keep the types.
LEMMA TypeStop ==
  ASSUME TypeOK, Start \/ StopStep
  PROVE  TypeOK'
<1> USE SchedulerAssumption DEF TypeOK
<1>1. SystemOK' /\ BoxOK' /\ CallOK'
  BY DEF StopStep, Start, StopBegin, StopJoin, DrainCollect, DrainNext, DrainCheck,
         SystemOK, BoxOK, CallOK, sysVars, boxVars
<1>2. HandOK'
  BY DEF StopStep, Start, StopBegin, StopJoin, DrainCollect, DrainNext, DrainCheck, HandOK
<1>3. StopOK'
  <2>1. CASE StopJoin
    <3>1. load' \in [Actors -> Nat]
      BY <2>1 DEF StopJoin, BoxOK, Waiting
    <3>2. owed' \subseteq Msgs
      BY <2>1 DEF StopJoin, SystemOK, BoxOK, Mailbox, Elems
    <3> QED BY <2>1, <3>1, <3>2 DEF StopJoin, StopOK
  <2>2. CASE DrainCollect
    <3>1. round' \in Nat
      BY <2>2 DEF DrainCollect, StopOK
    <3>2. drain' \subseteq Actors
      BY <2>2 DEF DrainCollect, SystemOK
    <3>3. anyProcessed' \in BOOLEAN
      BY <2>2 DEF DrainCollect
    <3> QED BY <2>2, <3>1, <3>2, <3>3 DEF DrainCollect, StopOK
  <2>3. CASE DrainNext
    BY <2>3 DEF DrainNext, StopOK
  <2> QED BY <2>1, <2>2, <2>3 DEF StopStep, Start, StopBegin, DrainCheck, StopOK, stopVars
<1>4. LoopOK'
  <2>1. CASE Start
    BY <2>1 DEF Start, LoopOK, Threads, Labels, MainLabels, HoldLabels, RecheckLabels
  <2>2. CASE StopStep
    <3> USE DEF Goto, LoopOK, MainLabels, Threads
    <3>1. /\ cur' \in [Threads -> Actors \cup {None}]
          /\ \A t \in Threads \ {Main} : cur'[t] = cur[t]
          /\ \E l \in MainLabels :
               /\ pc' = [pc EXCEPT ![Main] = l]
               /\ l \in {"drainP", "drainN", "popP", "popN", "handling"} => cur'[Main] \in Actors
      <4>1. CASE StopBegin \/ StopJoin \/ DrainCollect
        BY <4>1 DEF StopBegin, StopJoin, DrainCollect
      <4>2. CASE DrainNext
        BY <4>2 DEF DrainNext, StopOK
      <4>3. CASE DrainCheck /\ pc[Main] = "drainP"
        BY <4>3 DEF DrainCheck
      <4>4. CASE DrainCheck /\ pc[Main] = "drainN"
        BY <4>4 DEF DrainCheck
      <4> QED BY <2>2, <4>1, <4>2, <4>3, <4>4 DEF StopStep, DrainCheck
    <3> QED BY <3>1
  <2> QED BY <2>1, <2>2
<1> QED BY <1>1, <1>2, <1>3, <1>4

\* Every step keeps the types.
LEMMA TypeNext == TypeOK /\ [Next]_vars => TypeOK'
<1> SUFFICES ASSUME TypeOK, [Next]_vars PROVE TypeOK'
  OBVIOUS
<1>1. ASSUME NEW a \in Actors, RegisterActor(a) \/ UnregisterActor(a) PROVE TypeOK'
  BY <1>1 DEF TypeOK, SystemOK, BoxOK, LoopOK, HandOK, CallOK, StopOK, RegisterActor,
              UnregisterActor, boxVars, stopVars, loopVars
<1>2. CASE UNCHANGED vars
  BY <1>2 DEF TypeOK, SystemOK, BoxOK, LoopOK, HandOK, CallOK, StopOK, vars
<1> QED BY <1>1, <1>2, TypeSend, TypeProcess, TypeWorker, TypeStop DEF Next

\* Type correctness of the scheduler.
THEOREM TypeCorrect == Spec => []TypeOK
  BY TypeInit, TypeNext, PTL DEF Spec

-----------------------------------------------------------------------------
(* The inductive invariant.  An actor's permission to be scheduled (its    *)
(* token) is in one place only, scheduled_ tells whether it is anywhere,   *)
(* and a message whose actor has no token will still be looked at.         *)

\* The token of an actor is never in two places, and scheduled_ is set while it
\* is anywhere; for a registered actor scheduled_ is set only then.
TokenInv ==
  /\ Distinct(readyQueue)
  /\ \A a \in Actors :
       /\ \A v, w \in Workers : Held(v, a) /\ Held(w, a) => v = w
       /\ \A t, u \in Threads : Won(t, a) /\ Won(u, a) => t = u
       /\ \A w \in Workers : Held(w, a) => ~Queued(a)
       /\ \A t \in Threads : Won(t, a) => ~Queued(a)
       /\ \A t \in Threads, w \in Workers : ~(Won(t, a) /\ Held(w, a))
       /\ HasToken(a) => scheduled[a]
       /\ a \in actors /\ scheduled[a] => HasToken(a)

\* An id that has not been handed out yet has never been scheduled or sent to.
FreshInv ==
  \A a \in Actors \ used :
    /\ ~scheduled[a] /\ priorityMailbox[a] = <<>> /\ normalMailbox[a] = <<>>
    /\ \A t \in Threads : call[t].at # "idle" => call[t].to # a
    /\ \A w \in Workers : ~Rechecks(w, a, RecheckLabels)

\* A mailbox that is not empty is looked at again: scheduled_ is set, a Send has
\* still to try it, or a worker's double check of that mailbox is ahead.
WakeOf(a) ==
  /\ priorityMailbox[a] # <<>> =>
       \/ scheduled[a] \/ \E t \in Threads : Pushed(t, a)
       \/ \E w \in Workers : Rechecks(w, a, {"recheckP", "recas"})
  /\ normalMailbox[a] # <<>> =>
       \/ scheduled[a] \/ \E t \in Threads : Pushed(t, a)
       \/ \E w \in Workers : Rechecks(w, a, RecheckLabels)
WakeInv == \A a \in actors : WakeOf(a)

\* Workers run only between Start and the joins of Stop.
JoinInv ==
  /\ pc[Main] = "off" => \A w \in Workers : pc[w] = "off"
  /\ pc[Main] \notin {"off", "running", "joining"} => \A w \in Workers : pc[w] = "exited"

IInv == TypeOK /\ TokenInv /\ FreshInv /\ WakeInv /\ JoinInv

\* The token invariant depends only on the four predicates it is stated with.
LEMMA TokenFrame ==
  ASSUME TokenInv, readyQueue' = readyQueue, scheduled' = scheduled, actors' \subseteq actors,
         \A a \in Actors, w \in Workers : Held(w, a)' <=> Held(w, a),
         \A a \in Actors, t \in Threads : Won(t, a)' <=> Won(t, a)
  PROVE  TokenInv'
<1>1. \A a \in Actors : Queued(a)' <=> Queued(a)
  BY DEF Queued, Elems
<1>2. Distinct(readyQueue)'
  BY DEF TokenInv, Distinct
<1>3. \A a \in Actors : HasToken(a)' <=> HasToken(a)
  BY <1>1 DEF HasToken
<1> QED BY <1>1, <1>2, <1>3 DEF TokenInv

\* Send keeps the token in one place: it creates one only by winning scheduled_.
LEMMA TokenSend ==
  ASSUME TypeOK, TokenInv, NEW t \in Threads, SendStep(t)
  PROVE  TokenInv'
<1>1. \A a \in Actors, w \in Workers : Held(w, a)' <=> Held(w, a)
  BY DEF SendStep, PushMessage, SendSchedule, SendEnqueue, SendFind, loopVars, Held
<1>2. actors' = actors
  BY DEF SendStep, PushMessage, SendSchedule, SendEnqueue, SendFind, sysVars
<1>3. CASE PushMessage(t) \/ \E a \in Actors, prio \in BOOLEAN : SendFind(t, a, prio)
  <2>1. \A a \in Actors, u \in Threads : Won(u, a)' <=> Won(u, a)
    BY <1>3 DEF PushMessage, SendFind, Won, TypeOK, CallOK
  <2> QED BY <1>1, <1>2, <1>3, <2>1, TokenFrame DEF PushMessage, SendFind
<1>4. CASE SendSchedule(t)
  <2> DEFINE b == call[t].to
  <2>1. b \in Actors
    BY <1>4 DEF SendSchedule, TypeOK, CallOK
  <2>2. \A a \in Actors, u \in Threads :
          Won(u, a)' <=> Won(u, a) \/ (u = t /\ a = b /\ ~scheduled[b])
    BY <1>4 DEF SendSchedule, Won, IdleCall, TypeOK, CallOK
  <2>3. readyQueue' = readyQueue /\ \A a \in Actors : Queued(a)' <=> Queued(a)
    BY <1>4 DEF SendSchedule, Queued, Elems
  <2>4. \A a \in Actors : scheduled'[a] <=> scheduled[a] \/ a = b
    BY <1>4, <2>1 DEF SendSchedule, TypeOK, SystemOK
  <2>5. \A a \in Actors : HasToken(a)' <=> HasToken(a) \/ (a = b /\ ~scheduled[b])
    BY <1>1, <2>2, <2>3 DEF HasToken
  <2>6. Distinct(readyQueue)'
    BY <2>3 DEF TokenInv, Distinct
  <2>7. ~scheduled[b] => /\ ~Queued(b)
                         /\ \A w \in Workers : ~Held(w, b)
                         /\ \A u \in Threads : ~Won(u, b)
    BY <2>1 DEF TokenInv, HasToken
  <2> HIDE DEF b
  <2> QED BY <1>1, <1>2, <2>1, <2>2, <2>3, <2>4, <2>5, <2>6, <2>7 DEF TokenInv
<1>5. CASE SendEnqueue(t)
  <2> DEFINE b == call[t].to
  <2>1. b \in Actors /\ Won(t, b)
    BY <1>5 DEF SendEnqueue, Won, TypeOK, CallOK
  <2>2. \A a \in Actors, u \in Threads : Won(u, a)' <=> Won(u, a) /\ u # t
    BY <1>5 DEF SendEnqueue, Won, IdleCall, TypeOK, CallOK
  <2>3. readyQueue' = Append(readyQueue, b) /\ scheduled' = scheduled
    BY <1>5 DEF SendEnqueue
  <2>4. \A a \in Actors : Queued(a)' <=> Queued(a) \/ a = b
    BY <2>1, <2>3, ElemsAppend DEF Queued, TypeOK, SystemOK
  <2>5. Distinct(readyQueue)'
    <3>1. b \notin Elems(readyQueue) /\ Distinct(readyQueue)
      BY <2>1 DEF TokenInv, Queued
    <3>2. Distinct(Append(readyQueue, b))
      BY <2>1, <3>1, DistinctAppend DEF TypeOK, SystemOK
    <3> QED BY <2>3, <3>2 DEF Distinct
  <2>6. \A a \in Actors, u \in Threads : Won(u, a) /\ u = t => a = b
    BY DEF Won
  <2> HIDE DEF b
  <2>7. \A a \in Actors : HasToken(a)' <=> HasToken(a)
    BY <1>1, <2>1, <2>2, <2>4, <2>6 DEF HasToken
  <2> QED BY <1>1, <1>2, <2>1, <2>2, <2>3, <2>4, <2>5, <2>6, <2>7 DEF TokenInv
<1> QED BY <1>3, <1>4, <1>5 DEF SendStep

\* ProcessOne leaves the token with the worker that runs it.
LEMMA TokenProcess ==
  ASSUME TypeOK, TokenInv, NEW t \in Threads, ProcessStep(t)
  PROVE  TokenInv'
<1>1. /\ cur' = cur
      /\ \E l \in {"popP", "popN", "handling", "drainP", "emptyP"} :
           pc' = [pc EXCEPT ![t] = l] /\ (t # Main => l # "drainP")
  BY DEF ProcessStep, ProcessOnePriority, ProcessOneNormal, HandlerReturn, HandlerThrow,
         Goto, AfterEmpty, AfterReturn
<1>2. pc[t] \in HoldLabels
  BY DEF ProcessStep, ProcessOnePriority, ProcessOneNormal, HandlerReturn, HandlerThrow, HoldLabels
<1>3. \A a \in Actors, w \in Workers : Held(w, a)' <=> Held(w, a)
  BY <1>1, <1>2, SchedulerAssumption DEF Held, HoldLabels, TypeOK, LoopOK, Threads
<1>4. /\ call' = call /\ readyQueue' = readyQueue /\ scheduled' = scheduled
      /\ actors' = actors
  BY DEF ProcessStep, ProcessOnePriority, ProcessOneNormal, HandlerReturn, HandlerThrow, sysVars
<1>5. \A a \in Actors, u \in Threads : Won(u, a)' <=> Won(u, a)
  BY <1>4 DEF Won
<1> QED BY <1>3, <1>4, <1>5, TokenFrame

\* workerLoop takes the token from the queue, gives it back there, or destroys it
\* together with scheduled_.
LEMMA TokenWorker ==
  ASSUME TypeOK, TokenInv, NEW w \in Workers, WorkerStep(w)
  PROVE  TokenInv'
<1> DEFINE b == cur[w]
<1>1. actors' = actors /\ call' = call /\ \A a \in Actors, u \in Threads : Won(u, a)' <=> Won(u, a)
  BY DEF WorkerStep, WorkerTest, WorkerPop, WorkerWait, WorkerExit, WorkerLookup, WorkerCheck, WorkerRequeue,
         WorkerUnschedule, WorkerRecheck, WorkerReschedule, sysVars, Won
<1>2. w \in Threads
  BY DEF Threads
<1>3. CASE WorkerPop(w)
  <2> DEFINE h == Head(readyQueue)
  <2>1. h \in Actors /\ Queued(h) /\ readyQueue' = Tail(readyQueue) /\ scheduled' = scheduled
    BY <1>3 DEF WorkerPop, TypeOK, SystemOK, Queued, Elems
  <2>2. \A a \in Actors : Queued(a)' <=> Queued(a) /\ a # h
    <3>1. Elems(readyQueue) = {h} \cup Elems(Tail(readyQueue)) /\ h \notin Elems(Tail(readyQueue))
      BY <1>3, ElemsTail, DistinctTail DEF WorkerPop, TypeOK, SystemOK, TokenInv
    <3> QED BY <2>1, <3>1 DEF Queued
  <2>3. Distinct(readyQueue)'
    <3>1. Distinct(Tail(readyQueue))
      BY <1>3, DistinctTail DEF WorkerPop, TypeOK, SystemOK, TokenInv
    <3> QED BY <2>1, <3>1 DEF Distinct
  <2>4. \A a \in Actors, v \in Workers : Held(v, a)' <=> Held(v, a) \/ (v = w /\ a = h)
    BY <1>2, <1>3 DEF WorkerPop, Goto, Held, HoldLabels, TypeOK, LoopOK, Threads
  <2> HIDE DEF h
  <2>5. \A a \in Actors : HasToken(a)' <=> HasToken(a)
    BY <1>1, <2>1, <2>2, <2>4 DEF HasToken
  <2> QED BY <1>1, <2>1, <2>2, <2>3, <2>4, <2>5 DEF TokenInv
<1>4. CASE WorkerTest(w) \/ WorkerWait(w) \/ WorkerExit(w) \/ WorkerCheck(w) \/ WorkerRecheck(w)
  <2>1. \A a \in Actors, v \in Workers : Held(v, a)' <=> Held(v, a)
    <3>1. CASE WorkerTest(w) \/ WorkerWait(w) \/ WorkerExit(w)
      BY <1>2, <3>1 DEF WorkerTest, WorkerWait, WorkerExit, Goto, Held, HoldLabels, TypeOK, LoopOK,
                        Threads
    <3>2. CASE WorkerCheck(w)
      BY <1>2, <3>2 DEF WorkerCheck, Goto, Held, HoldLabels, TypeOK, LoopOK, Threads
    <3>3. CASE WorkerRecheck(w)
      BY <1>2, <3>3 DEF WorkerRecheck, Goto, Held, HoldLabels, TypeOK, LoopOK, Threads
    <3> QED BY <1>4, <3>1, <3>2, <3>3
  <2> QED BY <1>1, <1>4, <2>1, TokenFrame DEF WorkerTest, WorkerWait, WorkerExit, WorkerCheck,
                                              WorkerRecheck
<1>5. CASE WorkerLookup(w)
  <2>1. readyQueue' = readyQueue /\ scheduled' = scheduled /\ Held(w, b)
    BY <1>5 DEF WorkerLookup, Held, HoldLabels
  <2>2. Distinct(readyQueue)' /\ \A a \in Actors : Queued(a)' <=> Queued(a)
    BY <2>1 DEF Queued, Elems, TokenInv, Distinct
  <2>3. \A a \in Actors, v \in Workers :
          Held(v, a)' <=> Held(v, a) /\ ~(v = w /\ b \notin actors)
    BY <1>2, <1>5 DEF WorkerLookup, Goto, Held, HoldLabels, TypeOK, LoopOK, Threads
  <2>4. \A a \in Actors : Held(w, a) => a = b
    BY DEF Held
  <2> HIDE DEF b
  <2>5. \A a \in Actors : HasToken(a)' => HasToken(a)
    BY <1>1, <2>2, <2>3 DEF HasToken
  <2>6. \A a \in Actors : a \in actors /\ HasToken(a) => HasToken(a)'
    BY <1>1, <2>2, <2>3, <2>4 DEF HasToken
  <2> QED BY <1>1, <2>1, <2>2, <2>3, <2>5, <2>6 DEF TokenInv
<1>6. CASE WorkerRequeue(w)
  <2>1. b \in Actors /\ Held(w, b) /\ scheduled' = scheduled /\ readyQueue' = Append(readyQueue, b)
    BY <1>6 DEF WorkerRequeue, Held, HoldLabels, TypeOK, LoopOK
  <2>2. \A a \in Actors : Queued(a)' <=> Queued(a) \/ a = b
    BY <2>1, ElemsAppend DEF Queued, TypeOK, SystemOK
  <2>3. Distinct(readyQueue)'
    <3>1. b \notin Elems(readyQueue) /\ Distinct(readyQueue)
      BY <2>1 DEF TokenInv, Queued
    <3>2. Distinct(Append(readyQueue, b))
      BY <2>1, <3>1, DistinctAppend DEF TypeOK, SystemOK
    <3> QED BY <2>1, <3>2 DEF Distinct
  <2>4. \A a \in Actors, v \in Workers : Held(v, a)' <=> Held(v, a) /\ v # w
    BY <1>2, <1>6 DEF WorkerRequeue, Goto, Held, HoldLabels, TypeOK, LoopOK, Threads
  <2>5. \A a \in Actors : Held(w, a) => a = b
    BY DEF Held
  <2> HIDE DEF b
  <2>6. \A a \in Actors : HasToken(a)' <=> HasToken(a)
    BY <1>1, <2>1, <2>2, <2>4, <2>5 DEF HasToken
  <2> QED BY <1>1, <2>1, <2>2, <2>3, <2>4, <2>5, <2>6 DEF TokenInv
<1>7. CASE WorkerUnschedule(w)
  <2>1. b \in Actors /\ Held(w, b) /\ readyQueue' = readyQueue
    BY <1>7 DEF WorkerUnschedule, Held, HoldLabels, TypeOK, LoopOK
  <2>2. Distinct(readyQueue)' /\ \A a \in Actors : Queued(a)' <=> Queued(a)
    BY <2>1 DEF Queued, Elems, TokenInv, Distinct
  <2>3. \A a \in Actors : scheduled'[a] <=> scheduled[a] /\ a # b
    BY <1>7, <2>1 DEF WorkerUnschedule, TypeOK, SystemOK
  <2>4. \A a \in Actors, v \in Workers : Held(v, a)' <=> Held(v, a) /\ v # w
    BY <1>2, <1>7 DEF WorkerUnschedule, Goto, Held, HoldLabels, TypeOK, LoopOK, Threads
  <2>5. \A a \in Actors : Held(w, a) => a = b
    BY DEF Held
  <2> HIDE DEF b
  <2>6. ~Queued(b) /\ (\A v \in Workers : Held(v, b) => v = w) /\ \A u \in Threads : ~Won(u, b)
    BY <2>1 DEF TokenInv
  <2>7. \A a \in Actors : HasToken(a)' <=> HasToken(a) /\ a # b
    BY <1>1, <2>1, <2>2, <2>4, <2>5, <2>6 DEF HasToken
  <2> QED BY <1>1, <2>1, <2>2, <2>3, <2>4, <2>5, <2>7 DEF TokenInv
<1>8. CASE WorkerReschedule(w)
  <2>1. b \in Actors /\ readyQueue' = readyQueue
    BY <1>8 DEF WorkerReschedule, RecheckLabels, TypeOK, LoopOK
  <2>2. Distinct(readyQueue)' /\ \A a \in Actors : Queued(a)' <=> Queued(a)
    BY <2>1 DEF Queued, Elems, TokenInv, Distinct
  <2>3. \A a \in Actors : scheduled'[a] <=> scheduled[a] \/ a = b
    BY <1>8, <2>1 DEF WorkerReschedule, TypeOK, SystemOK
  <2>4. \A a \in Actors, v \in Workers :
          Held(v, a)' <=> Held(v, a) \/ (v = w /\ a = b /\ ~scheduled[b])
    BY <1>2, <1>8 DEF WorkerReschedule, Goto, Held, HoldLabels, TypeOK, LoopOK, Threads
  <2>5. ~scheduled[b] => /\ ~Queued(b)
                         /\ \A v \in Workers : ~Held(v, b)
                         /\ \A u \in Threads : ~Won(u, b)
    BY <2>1 DEF TokenInv, HasToken
  <2> HIDE DEF b
  <2>6. \A a \in Actors : HasToken(a)' <=> HasToken(a) \/ (a = b /\ ~scheduled[b])
    BY <1>1, <2>2, <2>4 DEF HasToken
  <2> QED BY <1>1, <2>1, <2>2, <2>3, <2>4, <2>5, <2>6 DEF TokenInv
<1> QED BY <1>3, <1>4, <1>5, <1>6, <1>7, <1>8 DEF WorkerStep

\* Start and Stop move no token.
LEMMA TokenStop ==
  ASSUME TypeOK, TokenInv, JoinInv, Start \/ StopStep
  PROVE  TokenInv'
<1>1. \A a \in Actors, w \in Workers : Held(w, a)' <=> Held(w, a)
  <2>1. CASE Start
    BY <2>1 DEF Start, JoinInv, Held, HoldLabels, Threads
  <2>2. CASE StopStep
    <3>1. \A w \in Workers : pc'[w] = pc[w] /\ cur'[w] = cur[w]
      BY <2>2, SchedulerAssumption DEF StopStep, StopBegin, StopJoin, DrainCollect, DrainNext,
         DrainCheck, Goto, TypeOK, LoopOK, Threads
    <3> QED BY <3>1 DEF Held
  <2> QED BY <2>1, <2>2
<1>2. /\ call' = call /\ readyQueue' = readyQueue /\ scheduled' = scheduled
      /\ actors' = actors
  BY DEF Start, StopStep, StopBegin, StopJoin, DrainCollect, DrainNext, DrainCheck, sysVars
<1>3. \A a \in Actors, t \in Threads : Won(t, a)' <=> Won(t, a)
  BY <1>2 DEF Won
<1> QED BY <1>1, <1>2, <1>3, TokenFrame

\* Steps that leave mailboxes, scheduled_ and the Sends and double checks in
\* progress alone keep the wake-up invariant.
LEMMA WakeFrame ==
  ASSUME WakeInv, scheduled' = scheduled, actors' \subseteq actors, actors \subseteq Actors,
         \A a \in Actors : /\ priorityMailbox'[a] # <<>> => priorityMailbox[a] # <<>>
                           /\ normalMailbox'[a] # <<>> => normalMailbox[a] # <<>>,
         \A a \in Actors, t \in Threads : Pushed(t, a) => Pushed(t, a)',
         \A w \in Workers : pc[w] \in RecheckLabels => pc'[w] = pc[w] /\ cur'[w] = cur[w]
  PROVE  WakeInv'
<1>1. \A a \in Actors, w \in Workers :
        /\ Rechecks(w, a, {"recheckP", "recas"}) => Rechecks(w, a, {"recheckP", "recas"})'
        /\ Rechecks(w, a, RecheckLabels) => Rechecks(w, a, RecheckLabels)'
  BY DEF Rechecks, RecheckLabels
<1> SUFFICES ASSUME NEW a \in Actors, a \in actors
             PROVE  WakeOf(a) => WakeOf(a)'
  BY DEF WakeInv
<1> QED BY <1>1 DEF WakeOf

\* A Send that puts a message into a mailbox has still to try scheduled_, and
\* when it gives up scheduled_ is set.
LEMMA WakeSend ==
  ASSUME TypeOK, WakeInv, NEW t \in Threads, SendStep(t)
  PROVE  WakeInv'
<1>1. /\ pc' = pc /\ cur' = cur /\ actors' = actors /\ actors \subseteq Actors
      /\ \A a \in Actors, w \in Workers :
           /\ Rechecks(w, a, {"recheckP", "recas"})' <=> Rechecks(w, a, {"recheckP", "recas"})
           /\ Rechecks(w, a, RecheckLabels)' <=> Rechecks(w, a, RecheckLabels)
  BY DEF SendStep, PushMessage, SendSchedule, SendEnqueue, SendFind, loopVars, sysVars,
         Rechecks, TypeOK, SystemOK
<1>2. CASE SendEnqueue(t) \/ \E a \in Actors, prio \in BOOLEAN : SendFind(t, a, prio)
  <2>1. \A a \in Actors, u \in Threads : Pushed(u, a)' <=> Pushed(u, a)
    BY <1>2 DEF SendEnqueue, SendFind, IdleCall, Pushed, TypeOK, CallOK
  <2> QED BY <1>1, <1>2, <2>1, WakeFrame DEF SendEnqueue, SendFind, boxVars
<1>3. CASE PushMessage(t)
  <2>0. PICK b \in Actors : b = call[t].to
    BY <1>3 DEF PushMessage, TypeOK, CallOK
  <2>1. /\ scheduled' = scheduled /\ Pushed(t, b)'
        /\ \A a \in Actors, u \in Threads : Pushed(u, a) => Pushed(u, a)'
    BY <1>3, <2>0 DEF PushMessage, Pushed, TypeOK, CallOK
  <2>2. \A a \in Actors : a # b => /\ priorityMailbox'[a] = priorityMailbox[a]
                                   /\ normalMailbox'[a] = normalMailbox[a]
    BY <1>3, <2>0 DEF PushMessage, TypeOK, BoxOK
  <2>3. ASSUME NEW a \in actors PROVE WakeOf(a)'
    <3>1. CASE a = b
      BY <1>1, <2>1, <3>1 DEF WakeOf
    <3>2. CASE a # b
      BY <1>1, <2>1, <2>2, <3>2 DEF WakeInv, WakeOf
    <3> QED BY <3>1, <3>2
  <2> QED BY <1>1, <2>3 DEF WakeInv
<1>4. CASE SendSchedule(t)
  <2> DEFINE b == call[t].to
  <2>1. \A a \in Actors, u \in Threads : Pushed(u, a) /\ a # b => Pushed(u, a)'
    BY <1>4 DEF SendSchedule, Pushed, TypeOK, CallOK
  <2>2. \A a \in Actors : (a = b \/ scheduled[a]) => scheduled'[a]
    BY <1>4 DEF SendSchedule, TypeOK, SystemOK
  <2>3. priorityMailbox' = priorityMailbox /\ normalMailbox' = normalMailbox
    BY <1>4 DEF SendSchedule, boxVars
  <2> HIDE DEF b
  <2> QED BY <1>1, <2>1, <2>2, <2>3 DEF WakeInv, WakeOf
<1> QED BY <1>2, <1>3, <1>4 DEF SendStep

\* ProcessOne only takes messages out.
LEMMA WakeProcess ==
  ASSUME TypeOK, WakeInv, NEW t \in Threads, ProcessStep(t)
  PROVE  WakeInv'
<1>1. /\ scheduled' = scheduled /\ actors' = actors /\ actors \subseteq Actors
      /\ \A a \in Actors, u \in Threads : Pushed(u, a) => Pushed(u, a)'
  BY DEF ProcessStep, ProcessOnePriority, ProcessOneNormal, HandlerReturn, HandlerThrow,
         sysVars, Pushed, TypeOK, SystemOK
<1>2. \A w \in Workers : pc[w] \in RecheckLabels => pc'[w] = pc[w] /\ cur'[w] = cur[w]
  BY DEF ProcessStep, ProcessOnePriority, ProcessOneNormal, HandlerReturn, HandlerThrow,
         Goto, RecheckLabels, TypeOK, LoopOK, Threads
<1>3. \A a \in Actors : /\ priorityMailbox'[a] # <<>> => priorityMailbox[a] # <<>>
                        /\ normalMailbox'[a] # <<>> => normalMailbox[a] # <<>>
  BY DEF ProcessStep, ProcessOnePriority, ProcessOneNormal, HandlerReturn, HandlerThrow,
         boxVars, TypeOK, BoxOK
<1> QED BY <1>1, <1>2, <1>3, WakeFrame

\* A worker that clears scheduled_ looks at both mailboxes again.
LEMMA WakeWorker ==
  ASSUME TypeOK, WakeInv, NEW w \in Workers, WorkerStep(w)
  PROVE  WakeInv'
<1> DEFINE b == cur[w]
<1> DEFINE P == {"recheckP", "recas"}
<1>1. /\ priorityMailbox' = priorityMailbox /\ normalMailbox' = normalMailbox
      /\ actors' = actors /\ actors \subseteq Actors /\ w \in Threads
      /\ \A a \in Actors, t \in Threads : Pushed(t, a)' <=> Pushed(t, a)
  BY DEF WorkerStep, WorkerTest, WorkerPop, WorkerWait, WorkerExit, WorkerLookup, WorkerCheck, WorkerRequeue,
         WorkerUnschedule, WorkerRecheck, WorkerReschedule, boxVars, sysVars, Pushed,
         TypeOK, SystemOK, Threads
<1>2. CASE \/ WorkerTest(w) \/ WorkerPop(w) \/ WorkerWait(w) \/ WorkerExit(w)
           \/ WorkerLookup(w) \/ WorkerCheck(w) \/ WorkerRequeue(w)
  <2>1. scheduled' = scheduled
    BY <1>2 DEF WorkerTest, WorkerPop, WorkerWait, WorkerExit, WorkerLookup, WorkerCheck, WorkerRequeue
  <2>2. \A v \in Workers : pc[v] \in RecheckLabels => pc'[v] = pc[v] /\ cur'[v] = cur[v]
    BY <1>2 DEF WorkerTest, WorkerPop, WorkerWait, WorkerExit, WorkerLookup, WorkerCheck, WorkerRequeue, Goto,
                RecheckLabels, TypeOK, LoopOK, Threads
  <2> QED BY <1>1, <2>1, <2>2, WakeFrame
<1>3. CASE WorkerUnschedule(w)
  <2>0. PICK c \in Actors : c = b
    BY <1>3 DEF WorkerUnschedule, HoldLabels, TypeOK, LoopOK
  <2>1. \A a \in Actors, v \in Workers :
          /\ Rechecks(v, a, P) => Rechecks(v, a, P)'
          /\ Rechecks(v, a, RecheckLabels) => Rechecks(v, a, RecheckLabels)'
    BY <1>1, <1>3 DEF WorkerUnschedule, Goto, Rechecks, RecheckLabels, TypeOK, LoopOK, Threads
  <2>2. Rechecks(w, c, P)' /\ Rechecks(w, c, RecheckLabels)'
    BY <1>1, <1>3, <2>0 DEF WorkerUnschedule, Goto, Rechecks, RecheckLabels, TypeOK, LoopOK
  <2>3. \A a \in Actors : a # c /\ scheduled[a] => scheduled'[a]
    BY <1>3, <2>0 DEF WorkerUnschedule, TypeOK, SystemOK
  <2>4. ASSUME NEW a \in actors PROVE WakeOf(a)'
    <3>1. CASE a = c
      BY <2>2, <3>1 DEF WakeOf
    <3>2. CASE a # c
      BY <1>1, <2>1, <2>3, <3>2 DEF WakeInv, WakeOf
    <3> QED BY <3>1, <3>2
  <2> QED BY <1>1, <2>4 DEF WakeInv
<1>4. CASE WorkerRecheck(w)
  <2>1. \A a \in Actors, v \in Workers :
          /\ Rechecks(v, a, P) /\ priorityMailbox[a] # <<>> => Rechecks(v, a, P)'
          /\ Rechecks(v, a, RecheckLabels) /\ normalMailbox[a] # <<>>
               => Rechecks(v, a, RecheckLabels)'
    BY <1>1, <1>4 DEF WorkerRecheck, Goto, Rechecks, RecheckLabels, TypeOK, LoopOK, Threads
  <2>2. scheduled' = scheduled
    BY <1>4 DEF WorkerRecheck
  <2> QED BY <1>1, <2>1, <2>2 DEF WakeInv, WakeOf
<1>5. CASE WorkerReschedule(w)
  <2>1. \A a \in Actors, v \in Workers :
          /\ Rechecks(v, a, P) /\ a # b => Rechecks(v, a, P)'
          /\ Rechecks(v, a, RecheckLabels) /\ a # b => Rechecks(v, a, RecheckLabels)'
    BY <1>1, <1>5 DEF WorkerReschedule, Goto, Rechecks, RecheckLabels, TypeOK, LoopOK, Threads
  <2>2. \A a \in Actors : (a = b \/ scheduled[a]) => scheduled'[a]
    BY <1>5 DEF WorkerReschedule, TypeOK, SystemOK
  <2> HIDE DEF b
  <2> QED BY <1>1, <2>1, <2>2 DEF WakeInv, WakeOf
<1> QED BY <1>2, <1>3, <1>4, <1>5 DEF WorkerStep

\* Start and Stop touch no worker that double-checks a mailbox.
LEMMA WakeStop ==
  ASSUME TypeOK, WakeInv, JoinInv, Start \/ StopStep
  PROVE  WakeInv'
<1>1. /\ scheduled' = scheduled /\ actors' = actors /\ actors \subseteq Actors
      /\ priorityMailbox' = priorityMailbox /\ normalMailbox' = normalMailbox
      /\ \A a \in Actors, u \in Threads : Pushed(u, a) => Pushed(u, a)'
  BY DEF Start, StopStep, StopBegin, StopJoin, DrainCollect, DrainNext, DrainCheck, sysVars,
         boxVars, Pushed, TypeOK, SystemOK
<1>2. \A w \in Workers : pc[w] \in RecheckLabels => pc'[w] = pc[w] /\ cur'[w] = cur[w]
  BY SchedulerAssumption DEF Start, StopStep, StopBegin, StopJoin, DrainCollect, DrainNext,
     DrainCheck, Goto, TypeOK, LoopOK, JoinInv, RecheckLabels, Threads
<1> QED BY <1>1, <1>2, WakeFrame

\* Nobody touches an id that has not been handed out.
LEMMA FreshNext ==
  ASSUME TypeOK, TokenInv, FreshInv, JoinInv, Next
  PROVE  FreshInv'
<1> SUFFICES ASSUME NEW a \in Actors, a \notin used'
             PROVE  /\ ~scheduled'[a] /\ priorityMailbox'[a] = <<>> /\ normalMailbox'[a] = <<>>
                    /\ \A t \in Threads : call'[t].at # "idle" => call'[t].to # a
                    /\ \A w \in Workers : ~Rechecks(w, a, RecheckLabels)'
  BY DEF FreshInv
<1> DEFINE Fresh == /\ ~scheduled[a] /\ priorityMailbox[a] = <<>> /\ normalMailbox[a] = <<>>
                    /\ \A t \in Threads : call[t].at # "idle" => call[t].to # a
                    /\ \A w \in Workers : ~Rechecks(w, a, RecheckLabels)
<1>1. CASE \E b \in Actors : RegisterActor(b) \/ UnregisterActor(b)
  <2>1. Fresh
    BY <1>1 DEF RegisterActor, UnregisterActor, FreshInv
  <2> QED BY <1>1, <2>1 DEF RegisterActor, UnregisterActor, boxVars, loopVars, Rechecks
<1>2. ASSUME ~\E b \in Actors : RegisterActor(b) \/ UnregisterActor(b)
      PROVE  used' = used /\ actors' = actors /\ Fresh /\ a \notin actors
  <2>1. used' = used /\ actors' = actors
    BY <1>2 DEF Next, SendStep, PushMessage, SendSchedule, SendEnqueue, SendFind, ProcessStep,
       ProcessOnePriority, ProcessOneNormal, HandlerReturn, HandlerThrow, WorkerStep, WorkerTest,
       WorkerPop, WorkerWait, WorkerExit, WorkerLookup, WorkerCheck, WorkerRequeue, WorkerUnschedule, WorkerRecheck,
       WorkerReschedule, Start, StopStep, StopBegin, StopJoin, DrainCollect, DrainNext,
       DrainCheck, sysVars
  <2> QED BY <2>1 DEF FreshInv, TypeOK, SystemOK
<1>3. CASE \E t \in Threads : SendStep(t)
  <2> PICK t \in Threads : SendStep(t)
    BY <1>3
  <2>0. Fresh /\ a \notin actors
    <3>1. used' = used /\ actors' = actors
      BY DEF SendStep, PushMessage, SendSchedule, SendEnqueue, SendFind, sysVars
    <3> QED BY <3>1 DEF FreshInv, TypeOK, SystemOK
  <2>1. pc' = pc /\ cur' = cur
    BY DEF SendStep, PushMessage, SendSchedule, SendEnqueue, SendFind, loopVars
  <2>2. ~scheduled'[a]
    BY <2>0 DEF SendStep, PushMessage, SendSchedule, SendEnqueue, SendFind, TypeOK, SystemOK
  <2>3. priorityMailbox'[a] = <<>> /\ normalMailbox'[a] = <<>>
    BY <2>0 DEF SendStep, PushMessage, SendSchedule, SendEnqueue, SendFind, boxVars, TypeOK, BoxOK
  <2>4. \A u \in Threads : call'[u].at # "idle" => call'[u].to # a
    BY <2>0 DEF SendStep, PushMessage, SendSchedule, SendEnqueue, SendFind, IdleCall, TypeOK, CallOK
  <2> QED BY <2>0, <2>1, <2>2, <2>3, <2>4 DEF Rechecks
<1>4. CASE \E t \in Threads : ProcessStep(t)
  <2> PICK t \in Threads : ProcessStep(t)
    BY <1>4
  <2>0. Fresh
    BY DEF ProcessStep, ProcessOnePriority, ProcessOneNormal, HandlerReturn, HandlerThrow,
       sysVars, FreshInv
  <2>1. call' = call /\ scheduled' = scheduled
    BY DEF ProcessStep, ProcessOnePriority, ProcessOneNormal, HandlerReturn, HandlerThrow
  <2>2. priorityMailbox'[a] = <<>> /\ normalMailbox'[a] = <<>>
    BY <2>0 DEF ProcessStep, ProcessOnePriority, ProcessOneNormal, HandlerReturn, HandlerThrow,
       boxVars, TypeOK, BoxOK
  <2>3. \A w \in Workers : ~Rechecks(w, a, RecheckLabels)'
    BY <2>0 DEF ProcessStep, ProcessOnePriority, ProcessOneNormal, HandlerReturn, HandlerThrow,
       Goto, AfterEmpty, AfterReturn, Rechecks, RecheckLabels, TypeOK, LoopOK, Threads
  <2> QED BY <2>0, <2>1, <2>2, <2>3
<1>5. CASE \E w \in Workers : WorkerStep(w)
  <2> PICK w \in Workers : WorkerStep(w)
    BY <1>5
  <2>0. Fresh /\ call' = call /\ priorityMailbox' = priorityMailbox /\ normalMailbox' = normalMailbox
    BY DEF WorkerStep, WorkerTest, WorkerPop, WorkerWait, WorkerExit, WorkerLookup, WorkerCheck, WorkerRequeue,
       WorkerUnschedule, WorkerRecheck, WorkerReschedule, sysVars, boxVars, FreshInv
  <2>1. ~Held(w, a) /\ ~Rechecks(w, a, RecheckLabels)
    BY <2>0 DEF TokenInv, HasToken
  <2>2. ~scheduled'[a]
    BY <2>0, <2>1 DEF WorkerStep, WorkerTest, WorkerPop, WorkerWait, WorkerExit, WorkerLookup, WorkerCheck,
       WorkerRequeue, WorkerUnschedule, WorkerRecheck, WorkerReschedule, TypeOK, SystemOK,
       Rechecks, RecheckLabels
  <2>3. \A v \in Workers : ~Rechecks(v, a, RecheckLabels)'
    BY <2>0, <2>1 DEF WorkerStep, WorkerTest, WorkerPop, WorkerWait, WorkerExit, WorkerLookup, WorkerCheck,
       WorkerRequeue, WorkerUnschedule, WorkerRecheck, WorkerReschedule, TypeOK, LoopOK,
       Goto, Held, HoldLabels, Rechecks, RecheckLabels, Threads
  <2> QED BY <2>0, <2>2, <2>3
<1>6. CASE Start \/ StopStep
  <2>0. Fresh
    BY <1>6 DEF Start, StopStep, StopBegin, StopJoin, DrainCollect, DrainNext, DrainCheck,
       sysVars, FreshInv
  <2>1. /\ call' = call /\ scheduled' = scheduled
        /\ priorityMailbox' = priorityMailbox /\ normalMailbox' = normalMailbox
    BY <1>6 DEF Start, StopStep, StopBegin, StopJoin, DrainCollect, DrainNext, DrainCheck, boxVars
  <2>2. \A w \in Workers : ~Rechecks(w, a, RecheckLabels)'
    BY <1>6, <2>0, SchedulerAssumption DEF Start, StopStep, StopBegin, StopJoin, DrainCollect,
       DrainNext, DrainCheck, Goto, Rechecks, RecheckLabels, TypeOK, LoopOK, Threads
  <2> QED BY <2>0, <2>1, <2>2
<1> QED BY <1>1, <1>3, <1>4, <1>5, <1>6 DEF Next

\* Workers stay off before Start and exited after the joins.
LEMMA JoinNext ==
  ASSUME TypeOK, JoinInv, Next
  PROVE  JoinInv'
<1> USE SchedulerAssumption
<1>1. CASE \E a \in Actors : RegisterActor(a) \/ UnregisterActor(a)
  BY <1>1 DEF RegisterActor, UnregisterActor, loopVars, JoinInv
<1>2. ASSUME NEW t \in Threads, SendStep(t) PROVE JoinInv'
  BY <1>2 DEF SendStep, PushMessage, SendSchedule, SendEnqueue, SendFind, loopVars, JoinInv
<1>3. ASSUME NEW t \in Threads, ProcessStep(t) PROVE JoinInv'
  BY <1>3 DEF ProcessStep, ProcessOnePriority, ProcessOneNormal, HandlerReturn, HandlerThrow,
     Goto, AfterEmpty, AfterReturn, JoinInv, TypeOK, LoopOK, Threads
<1>4. ASSUME NEW w \in Workers, WorkerStep(w) PROVE JoinInv'
  BY <1>4 DEF WorkerStep, WorkerTest, WorkerPop, WorkerWait, WorkerExit, WorkerLookup, WorkerCheck, WorkerRequeue,
     WorkerUnschedule, WorkerRecheck, WorkerReschedule, Goto, JoinInv, TypeOK, LoopOK, Threads
<1>5. CASE Start \/ StopStep
  BY <1>5 DEF Start, StopStep, StopBegin, StopJoin, DrainCollect, DrainNext, DrainCheck, Goto,
     JoinInv, TypeOK, LoopOK, Threads
<1> QED BY <1>1, <1>2, <1>3, <1>4, <1>5 DEF Next

\* The invariant holds initially.
LEMMA InvInit == Init => IInv
<1> SUFFICES ASSUME Init PROVE IInv
  OBVIOUS
<1>1. TypeOK
  BY TypeInit
<1>2. /\ \A a \in Actors : ~scheduled[a] /\ ~Queued(a)
      /\ \A a \in Actors, w \in Workers : ~Held(w, a) /\ ~Rechecks(w, a, RecheckLabels)
      /\ \A a \in Actors, t \in Threads : ~Won(t, a)
  BY DEF Init, Queued, Elems, Held, HoldLabels, Rechecks, RecheckLabels, Won, IdleCall, Threads
<1>3. Distinct(readyQueue)
  BY DEF Init, Distinct
<1>4. TokenInv
  BY <1>2, <1>3 DEF TokenInv, HasToken
<1>5. FreshInv
  BY <1>2 DEF Init, FreshInv, IdleCall
<1>6. WakeInv /\ JoinInv
  BY DEF Init, WakeInv, JoinInv, Threads
<1> QED BY <1>1, <1>4, <1>5, <1>6 DEF IInv

\* Registering or unregistering an actor keeps the token and wake-up invariants.
LEMMA RegisterInv ==
  ASSUME IInv, NEW b \in Actors, RegisterActor(b) \/ UnregisterActor(b)
  PROVE  TokenInv' /\ WakeInv'
<1> USE DEF IInv
<1>1. /\ call' = call /\ readyQueue' = readyQueue /\ scheduled' = scheduled
      /\ priorityMailbox' = priorityMailbox /\ normalMailbox' = normalMailbox
      /\ pc' = pc /\ cur' = cur
  BY DEF RegisterActor, UnregisterActor, boxVars, loopVars
<1>2. /\ \A a \in Actors, w \in Workers : Held(w, a)' <=> Held(w, a)
      /\ \A a \in Actors, t \in Threads : (Won(t, a)' <=> Won(t, a)) /\ (Pushed(t, a)' <=> Pushed(t, a))
      /\ \A a \in Actors : Queued(a)' <=> Queued(a)
  BY <1>1 DEF Held, Won, Pushed, Queued, Elems
<1>3. CASE UnregisterActor(b)
  BY <1>1, <1>2, <1>3, TokenFrame, WakeFrame DEF UnregisterActor, TypeOK, SystemOK
<1>4. CASE RegisterActor(b)
  <2>1. actors' = actors \cup {b} /\ actors \subseteq Actors /\ b \notin used
    BY <1>4 DEF RegisterActor, TypeOK, SystemOK
  <2>2. ~scheduled[b] /\ priorityMailbox[b] = <<>> /\ normalMailbox[b] = <<>>
    BY <2>1 DEF FreshInv
  <2>3. TokenInv'
    <3>1. \A a \in Actors : HasToken(a)' <=> HasToken(a)
      BY <1>2 DEF HasToken
    <3>2. Distinct(readyQueue)'
      BY <1>1 DEF TokenInv, Distinct
    <3> QED BY <1>1, <1>2, <2>1, <2>2, <3>1, <3>2 DEF TokenInv
  <2>4. WakeInv'
    <3>1. \A a \in Actors : WakeOf(a) => WakeOf(a)'
      BY <1>1 DEF WakeOf, Pushed, Rechecks
    <3>2. WakeOf(b)
      BY <2>2 DEF WakeOf
    <3> QED BY <2>1, <3>1, <3>2 DEF WakeInv
  <2> QED BY <2>3, <2>4
<1> QED BY <1>3, <1>4

\* Every step keeps the invariant.
LEMMA InvNext == IInv /\ [Next]_vars => IInv'
<1> SUFFICES ASSUME IInv, [Next]_vars PROVE IInv'
  OBVIOUS
<1>1. CASE UNCHANGED vars
  <2>1. TypeOK'
    BY <1>1, TypeNext DEF IInv
  <2>2. /\ TokenInv' = TokenInv /\ FreshInv' = FreshInv /\ WakeInv' = WakeInv
        /\ JoinInv' = JoinInv
    BY <1>1 DEF vars, TokenInv, FreshInv, WakeInv, WakeOf, JoinInv, Distinct, HasToken, Queued,
       Held, Won, Pushed, Rechecks, Elems
  <2> QED BY <2>1, <2>2 DEF IInv
<1>2. CASE Next
  <2>1. TypeOK' /\ FreshInv' /\ JoinInv'
    BY <1>2, TypeNext, FreshNext, JoinNext DEF IInv
  <2>2. TokenInv' /\ WakeInv'
    BY <1>2, RegisterInv, TokenSend, TokenProcess, TokenWorker, TokenStop, WakeSend,
       WakeProcess, WakeWorker, WakeStop DEF Next, IInv
  <2> QED BY <2>1, <2>2 DEF IInv
<1> QED BY <1>1, <1>2

\* The scheduler's inductive invariant holds in every reachable state.
THEOREM InvCorrect == Spec => []IInv
  BY InvInit, InvNext, PTL DEF Spec

\* For any number of workers and senders, no two threads are inside ProcessOne of
\* one actor, the thread that drains in Stop included.
THEOREM SerialCorrect == Spec => []SerialProcessing
<1>1. IInv => SerialProcessing
  <2> SUFFICES ASSUME IInv, NEW a \in Actors, NEW t \in Threads, NEW u \in Threads,
                      Processing(t, a), Processing(u, a)
               PROVE  t = u
    BY DEF SerialProcessing
  <2>1. t \notin Senders /\ u \notin Senders
    BY DEF Processing, IInv, TypeOK, LoopOK
  <2>2. CASE t \in Workers /\ u \in Workers
    BY <2>2 DEF IInv, TokenInv, Held, HoldLabels, Processing
  <2>3. CASE t = Main \/ u = Main
    BY <2>1, <2>3 DEF IInv, JoinInv, Processing, Threads
  <2> QED BY <2>1, <2>2, <2>3 DEF Threads
<1> QED BY <1>1, InvCorrect, PTL

\* For any number of threads and messages, no message of a registered actor is
\* left without somebody who will look at the mailbox.
THEOREM WakeupCorrect == Spec => []NoLostWakeup
<1>1. IInv => NoLostWakeup
  <2> SUFFICES ASSUME IInv, NEW a \in Actors, a \in actors,
                      priorityMailbox[a] # <<>> \/ normalMailbox[a] # <<>>
               PROVE  \/ HasToken(a) \/ \E t \in Threads : Pushed(t, a)
                      \/ \E w \in Workers : Rechecks(w, a, RecheckLabels)
    BY DEF NoLostWakeup, IInv, TypeOK, SystemOK
  <2>1. \A w \in Workers :
          Rechecks(w, a, {"recheckP", "recas"}) => Rechecks(w, a, RecheckLabels)
    BY DEF Rechecks, RecheckLabels
  <2> QED BY <2>1 DEF IInv, WakeInv, WakeOf, TokenInv
<1> QED BY <1>1, InvCorrect, PTL

-----------------------------------------------------------------------------
(* The threads implement SerialActors: under the mapping that keeps the    *)
(* mailboxes and takes the message in hand for busy, every step is a step  *)
(* of one serial actor or a stutter.                                       *)

Handles(t, a) == pc[t] = "handling" /\ cur[t] = a

\* A thread inside OnMessage has a message in hand, and an actor.
HandInv == \A t \in Threads : pc[t] = "handling" => inHand[t] \in Msgs /\ cur[t] \in Actors

RInv == IInv /\ SerialProcessing /\ HandInv

\* The value that stands for no message is not one.
LEMMA NoMsgIsNone == NoMsg \notin Msgs
  BY DEF NoMsg, Msgs

\* The invariant of the refinement holds initially.
LEMMA HandInit == Init => HandInv
  BY DEF Init, HandInv

\* A message is in hand exactly while OnMessage runs.
LEMMA HandNext ==
  ASSUME TypeOK, HandInv, [Next]_vars
  PROVE  HandInv'
<1>1. ASSUME NEW t \in Threads, ProcessOnePriority(t) PROVE HandInv'
  <2>1. cur[t] \in Actors
    BY <1>1 DEF ProcessOnePriority, TypeOK, LoopOK, Threads, HoldLabels
  <2>2. priorityMailbox[cur[t]] # <<>> => Head(priorityMailbox[cur[t]]) \in Msgs
    BY <2>1 DEF TypeOK, BoxOK
  <2> QED BY <1>1, <2>1, <2>2 DEF ProcessOnePriority, Goto, HandInv, TypeOK, LoopOK, HandOK
<1>2. ASSUME NEW t \in Threads, ProcessOneNormal(t) PROVE HandInv'
  <2>1. cur[t] \in Actors
    BY <1>2 DEF ProcessOneNormal, TypeOK, LoopOK, Threads, HoldLabels
  <2>2. normalMailbox[cur[t]] # <<>> => Head(normalMailbox[cur[t]]) \in Msgs
    BY <2>1 DEF TypeOK, BoxOK
  <2> QED BY <1>2, <2>1, <2>2
          DEF ProcessOneNormal, Goto, AfterEmpty, HandInv, TypeOK, LoopOK, HandOK
<1>3. ASSUME NEW t \in Threads, HandlerReturn(t) \/ HandlerThrow(t) PROVE HandInv'
  BY <1>3 DEF HandlerReturn, HandlerThrow, Goto, AfterEmpty, AfterReturn, HandInv, TypeOK,
              LoopOK, HandOK
<1>4. ASSUME NEW t \in Threads, SendStep(t) PROVE HandInv'
  BY <1>4 DEF SendStep, PushMessage, SendSchedule, SendEnqueue, SendFind, loopVars, HandInv
<1>5. ASSUME NEW w \in Workers, WorkerStep(w) PROVE HandInv'
  BY <1>5 DEF WorkerStep, WorkerTest, WorkerPop, WorkerWait, WorkerExit, WorkerLookup, WorkerCheck, WorkerRequeue,
              WorkerUnschedule, WorkerRecheck, WorkerReschedule, Goto, HandInv, TypeOK,
              LoopOK, Threads
<1>6. CASE Start
  BY <1>6 DEF Start, HandInv
<1>7. CASE StopStep
  BY <1>7, SchedulerAssumption
     DEF StopStep, StopBegin, StopJoin, DrainCollect, DrainNext, DrainCheck, Goto, HandInv,
         TypeOK, LoopOK, Threads
<1>8. ASSUME NEW a \in Actors, RegisterActor(a) \/ UnregisterActor(a) PROVE HandInv'
  BY <1>8 DEF RegisterActor, UnregisterActor, loopVars, HandInv
<1>9. CASE UNCHANGED vars
  BY <1>9 DEF vars, HandInv
<1> QED BY <1>1, <1>2, <1>3, <1>4, <1>5, <1>6, <1>7, <1>8, <1>9 DEF Next, ProcessStep

\* The invariant of the refinement holds in every reachable state.
THEOREM RInvCorrect == Spec => []RInv
<1>1. Spec => []HandInv
  BY HandInit, HandNext, TypeCorrect, PTL DEF Spec
<1> QED BY <1>1, InvCorrect, SerialCorrect, PTL DEF RInv

-----------------------------------------------------------------------------
(* The value of BusyWith.                                                  *)

\* A thread in OnMessage determines the message its actor is busy with.
LEMMA BusyIs ==
  ASSUME SerialProcessing, NEW a \in Actors, NEW t \in Threads, Handles(t, a)
  PROVE  BusyWith(a) = inHand[t]
<1>1. {u \in Threads : pc[u] = "handling" /\ cur[u] = a} = {t}
  BY DEF SerialProcessing, Processing, Handles
<1> QED BY <1>1 DEF BusyWith

\* An actor that no thread handles is not busy.
LEMMA BusyNone ==
  ASSUME NEW a, \A t \in Threads : ~Handles(t, a)
  PROVE  BusyWith(a) = NoMsg
  BY DEF BusyWith, Handles

\* What an actor is busy with changes only with the threads that handle it.
LEMMA BusyFrame ==
  ASSUME NEW a, \A t \in Threads : Handles(t, a)' <=> Handles(t, a),
         \A t \in Threads : Handles(t, a) => inHand'[t] = inHand[t]
  PROVE  BusyWith(a)' = BusyWith(a)
<1> DEFINE T == {t \in Threads : pc[t] = "handling" /\ cur[t] = a}
<1>1. T' = T
  BY DEF Handles
<1>2. \A t \in T : inHand'[t] = inHand[t]
  BY DEF Handles
<1>3. T # {} => (CHOOSE t \in T : TRUE) \in T
  OBVIOUS
<1> QED BY <1>1, <1>2, <1>3 DEF BusyWith

\* The same of the next state.
LEMMA BusyIsNext ==
  ASSUME SerialProcessing', NEW a \in Actors, NEW t \in Threads, Handles(t, a)'
  PROVE  BusyWith(a)' = inHand'[t]
<1>1. {u \in Threads : pc'[u] = "handling" /\ cur'[u] = a} = {t}
  BY DEF SerialProcessing, Processing, Handles
<1> QED BY <1>1 DEF BusyWith

\* The same of an actor that no thread handles in the next state.
LEMMA BusyNoneNext ==
  ASSUME NEW a, \A t \in Threads : ~Handles(t, a)'
  PROVE  BusyWith(a)' = NoMsg
  BY DEF BusyWith, Handles

-----------------------------------------------------------------------------
(* Each step implements a step of SerialActors or stutters.                *)

\* A step that touches no mailbox and no message in hand is a stutter.
LEMMA Stutter ==
  ASSUME UNCHANGED boxVars,
         \A a \in Actors, t \in Threads : Handles(t, a)' <=> Handles(t, a),
         \A a \in Actors, t \in Threads : Handles(t, a) => inHand'[t] = inHand[t]
  PROVE  UNCHANGED Abstract!vars
  BY BusyFrame DEF boxVars, Abstract!vars

\* Pushing into a mailbox delivers the message.
LEMMA PushDelivers ==
  ASSUME TypeOK, NEW t \in Threads, PushMessage(t)
  PROVE  Abstract!Next
<1> DEFINE a == call[t].to
           m == call[t].msg
<1>1. a \in Actors /\ m \in Msgs
  BY DEF PushMessage, TypeOK, CallOK
<1>2. \A b \in Actors : BusyWith(b)' = BusyWith(b)
  BY BusyFrame DEF PushMessage, loopVars, Handles
<1>3. Abstract!Deliver(a, m)
  <2>1. CASE m[2]
    BY <1>2, <2>1 DEF PushMessage, PushBack, Abstract!Deliver
  <2>2. CASE ~m[2]
    BY <1>2, <2>2 DEF PushMessage, PushBack, Abstract!Deliver
  <2> QED BY <2>1, <2>2
<1> QED BY <1>1, <1>3 DEF Abstract!Next

\* An actor that a thread is about to pop from is handled by no thread.
LEMMA FreeAtPop ==
  ASSUME SerialProcessing, NEW t \in Threads, pc[t] \in {"popP", "popN"}, cur[t] \in Actors
  PROVE  BusyWith(cur[t]) = NoMsg
<1>1. \A u \in Threads : ~Handles(u, cur[t])
  BY DEF SerialProcessing, Processing, Handles
<1> QED BY <1>1, BusyNone

\* A pop makes its actor busy with the message popped, and no other actor.
LEMMA PopBusy ==
  ASSUME TypeOK, SerialProcessing', NEW t \in Threads, NEW m, cur[t] \in Actors,
         pc[t] # "handling", cur' = cur, pc' = [pc EXCEPT ![t] = "handling"],
         inHand' = [inHand EXCEPT ![t] = m]
  PROVE  /\ BusyWith(cur[t])' = m
         /\ \A b \in Actors \ {cur[t]} : BusyWith(b)' = BusyWith(b)
<1>1. pc \in [Threads -> Labels \cup MainLabels] /\ inHand \in [Threads -> Msgs \cup {NoMsg}]
  BY DEF TypeOK, LoopOK, HandOK
<1>2. Handles(t, cur[t])' /\ inHand'[t] = m
  BY <1>1 DEF Handles
<1>3. BusyWith(cur[t])' = m
  BY <1>2, BusyIsNext
<1>4. ASSUME NEW b \in Actors \ {cur[t]} PROVE BusyWith(b)' = BusyWith(b)
  <2>1. \A u \in Threads : Handles(u, b)' <=> Handles(u, b)
    BY <1>1 DEF Handles
  <2>2. \A u \in Threads : Handles(u, b) => inHand'[u] = inHand[u]
    BY <1>1 DEF Handles
  <2> QED BY <2>1, <2>2, BusyFrame
<1> QED BY <1>3, <1>4

\* A pop begins the message at the front, or finds the mailbox empty.
LEMMA PopBegins ==
  ASSUME RInv, SerialProcessing', NEW t \in Threads,
         ProcessOnePriority(t) \/ ProcessOneNormal(t)
  PROVE  Abstract!Next \/ UNCHANGED Abstract!vars
<1> DEFINE a == cur[t]
<1>1. TypeOK /\ SerialProcessing
  BY DEF RInv, IInv
<1>2. /\ a \in Actors /\ pc[t] \in {"popP", "popN"} /\ cur' = cur
      /\ pc \in [Threads -> Labels \cup MainLabels]
  BY <1>1 DEF ProcessOnePriority, ProcessOneNormal, TypeOK, LoopOK, Threads, HoldLabels
<1>3. BusyWith(a) = NoMsg
  BY <1>1, <1>2, FreeAtPop
<1>4. CASE ProcessOnePriority(t) /\ priorityMailbox[a] # <<>>
  <2>1. /\ BusyWith(a)' = Head(priorityMailbox[a])
        /\ \A b \in Actors \ {a} : BusyWith(b)' = BusyWith(b)
    BY <1>1, <1>2, <1>4, PopBusy DEF ProcessOnePriority, Goto
  <2>2. Abstract!Begin(a)
    BY <1>2, <1>3, <1>4, <2>1 DEF ProcessOnePriority, Abstract!Begin
  <2> QED BY <1>2, <2>2 DEF Abstract!Next
<1>5. CASE ProcessOneNormal(t) /\ normalMailbox[a] # <<>>
  <2>1. /\ BusyWith(a)' = Head(normalMailbox[a])
        /\ \A b \in Actors \ {a} : BusyWith(b)' = BusyWith(b)
    BY <1>1, <1>2, <1>5, PopBusy DEF ProcessOneNormal, Goto
  <2>2. Abstract!Begin(a)
    BY <1>2, <1>3, <1>5, <2>1 DEF ProcessOneNormal, Abstract!Begin
  <2> QED BY <1>2, <2>2 DEF Abstract!Next
<1>6. CASE \/ ProcessOnePriority(t) /\ priorityMailbox[a] = <<>>
           \/ ProcessOneNormal(t) /\ normalMailbox[a] = <<>>
  <2>1. /\ UNCHANGED boxVars /\ inHand' = inHand
        /\ \E l \in {"popN", "drainP", "emptyP"} : pc' = [pc EXCEPT ![t] = l]
    BY <1>6 DEF ProcessOnePriority, ProcessOneNormal, Goto, AfterEmpty, boxVars
  <2>2. \A b \in Actors, u \in Threads : Handles(u, b)' <=> Handles(u, b)
    BY <1>2, <2>1 DEF Handles
  <2> QED BY <2>1, <2>2, Stutter
<1> QED BY <1>4, <1>5, <1>6 DEF ProcessOnePriority, ProcessOneNormal

\* When OnMessage returns or throws, the actor has finished its message.
LEMMA ReturnFinishes ==
  ASSUME RInv, SerialProcessing', NEW t \in Threads, HandlerReturn(t) \/ HandlerThrow(t)
  PROVE  Abstract!Next
<1> DEFINE a == cur[t]
<1>1. TypeOK /\ SerialProcessing /\ a \in Actors /\ inHand[t] \in Msgs /\ Handles(t, a)
  BY DEF RInv, IInv, HandInv, Handles, HandlerReturn, HandlerThrow
<1>2. /\ pc \in [Threads -> Labels \cup MainLabels]
      /\ inHand \in [Threads -> Msgs \cup {NoMsg}]
  BY <1>1 DEF TypeOK, LoopOK, HandOK
<1>3. /\ UNCHANGED boxVars /\ cur' = cur /\ inHand' = [inHand EXCEPT ![t] = NoMsg]
      /\ \E l \in {"popP", "drainP", "emptyP"} : pc' = [pc EXCEPT ![t] = l]
  BY DEF HandlerReturn, HandlerThrow, Goto, AfterEmpty, AfterReturn
<1>4. BusyWith(a) # NoMsg
  BY <1>1, BusyIs, NoMsgIsNone
<1>5. BusyWith(a)' = NoMsg
  <2>1. \A u \in Threads : Handles(u, a) => u = t
    BY <1>1 DEF SerialProcessing, Processing, Handles
  <2>2. \A u \in Threads : ~Handles(u, a)'
    BY <1>2, <1>3, <2>1 DEF Handles
  <2> QED BY <2>2, BusyNoneNext
<1>6. ASSUME NEW b \in Actors \ {a} PROVE BusyWith(b)' = BusyWith(b)
  <2>1. \A u \in Threads : Handles(u, b)' <=> Handles(u, b)
    BY <1>2, <1>3 DEF Handles
  <2>2. \A u \in Threads : Handles(u, b) => inHand'[u] = inHand[u]
    BY <1>2, <1>3 DEF Handles
  <2> QED BY <2>1, <2>2, BusyFrame
<1>7. Abstract!Finish(a)
  BY <1>1, <1>3, <1>4, <1>5, <1>6 DEF Abstract!Finish, boxVars
<1> QED BY <1>1, <1>7 DEF Abstract!Next

\* No other step is visible to the serial actors.
LEMMA OthersStutter ==
  ASSUME RInv,
         \/ \E t \in Threads :
               \/ SendSchedule(t) \/ SendEnqueue(t)
               \/ \E a \in Actors, prio \in BOOLEAN : SendFind(t, a, prio)
         \/ \E w \in Workers : WorkerStep(w)
         \/ \E a \in Actors : RegisterActor(a) \/ UnregisterActor(a)
         \/ Start \/ StopStep \/ UNCHANGED vars
  PROVE  UNCHANGED Abstract!vars
<1> USE DEF Handles
<1>1. /\ UNCHANGED boxVars /\ inHand' = inHand
  BY DEF SendSchedule, SendEnqueue, SendFind, WorkerStep, WorkerTest, WorkerPop, WorkerWait, WorkerExit, WorkerLookup,
         WorkerCheck, WorkerRequeue, WorkerUnschedule, WorkerRecheck, WorkerReschedule,
         RegisterActor, UnregisterActor, Start, StopStep, StopBegin, StopJoin, DrainCollect,
         DrainNext, DrainCheck, vars, boxVars, loopVars
<1>2. TypeOK /\ JoinInv
  BY DEF RInv, IInv
<1>3. \A b \in Actors, u \in Threads : Handles(u, b)' <=> Handles(u, b)
  <2>1. CASE \E w \in Workers : WorkerStep(w)
    BY <1>2, <2>1 DEF WorkerStep, WorkerTest, WorkerPop, WorkerWait, WorkerExit, WorkerLookup, WorkerCheck, WorkerRequeue,
       WorkerUnschedule, WorkerRecheck, WorkerReschedule, Goto, TypeOK, LoopOK, Threads
  <2>2. CASE StopStep
    <3>1. ~(pc[Main] = "handling") /\ \A u \in Threads \ {Main} : cur'[u] = cur[u]
      BY <1>2, <2>2, SchedulerAssumption DEF StopStep, StopBegin, StopJoin, DrainCollect,
         DrainNext, DrainCheck, TypeOK, LoopOK, Threads
    <3>2. \E l \in MainLabels \ {"handling"} : pc' = [pc EXCEPT ![Main] = l]
      BY <2>2 DEF StopStep, StopBegin, StopJoin, DrainCollect, DrainNext, DrainCheck, Goto,
         MainLabels
    <3> QED BY <1>2, <3>1, <3>2 DEF TypeOK, LoopOK, Threads
  <2>3. CASE Start
    <3>1. \A u \in Threads : pc[u] = "off"
      BY <1>2, <2>3 DEF Start, JoinInv, TypeOK, LoopOK, Threads
    <3>2. \A u \in Threads : pc'[u] # "handling"
      BY <2>3, <3>1 DEF Start
    <3> QED BY <3>1, <3>2
  <2>4. CASE \/ \E t \in Threads :
                  \/ SendSchedule(t) \/ SendEnqueue(t)
                  \/ \E a \in Actors, prio \in BOOLEAN : SendFind(t, a, prio)
             \/ \E a \in Actors : RegisterActor(a) \/ UnregisterActor(a)
             \/ UNCHANGED vars
    <3>1. pc' = pc /\ cur' = cur
      BY <2>4 DEF SendSchedule, SendEnqueue, SendFind, RegisterActor, UnregisterActor, vars,
         loopVars
    <3> QED BY <3>1
  <2> QED BY <2>1, <2>2, <2>3, <2>4
<1> QED BY <1>1, <1>3, Stutter

\* Initially no actor has a message and none is busy.
LEMMA RefineInit == Init => Abstract!Init
<1> SUFFICES ASSUME Init PROVE Abstract!Init
  OBVIOUS
<1>1. \A a \in Actors : BusyWith(a) = NoMsg
  BY BusyNone DEF Init, Handles
<1> QED BY <1>1 DEF Init, Abstract!Init

\* Every step of the threads is a step of the serial actors or a stutter.
LEMMA RefineNext ==
  ASSUME RInv, RInv', [Next]_vars
  PROVE  [Abstract!Next]_(Abstract!vars)
<1>1. TypeOK /\ SerialProcessing'
  BY DEF RInv, IInv
<1> QED BY <1>1, PushDelivers, PopBegins, ReturnFinishes, OthersStutter
        DEF Next, SendStep, ProcessStep

\* For any sets of actors, workers and senders, the scheduler implements one serial
\* actor per id with two FIFO mailboxes.
THEOREM Refinement == Spec => ImplementsSerialActors
  BY RefineInit, RefineNext, RInvCorrect, PTL DEF Spec, ImplementsSerialActors, Abstract!Spec

-----------------------------------------------------------------------------
(* Where the messages are.  Each has a number of its own and is in one     *)
(* place: on its way to a mailbox, in it, or gone.                         *)

\* The messages of Sends that have found their actor and not pushed yet.
Found == {call[t].msg : t \in {u \in Threads : call[u].at = "found"}}

\* A number is given to one message only, and a message is in one place.
CallNumbers ==
  \A t \in Threads : call[t].at = "found" =>
    /\ call[t].msg[1] \in 1..sent
    /\ \A u \in Threads : call[u].at = "found" /\ call[u].msg[1] = call[t].msg[1] => t = u
BoxNumbers(a) ==
  /\ \A m \in Mailbox(a) :
       /\ m[1] \in 1..sent
       /\ \A x \in Mailbox(a) : x[1] = m[1] => x = m
       /\ \A x \in Found : x[1] # m[1]
  /\ Distinct(priorityMailbox[a]) /\ Distinct(normalMailbox[a])
  /\ Elems(priorityMailbox[a]) \cap Elems(normalMailbox[a]) = {}
NumberInv == CallNumbers /\ \A a \in Actors : BoxNumbers(a)

\* Initially no message has a number.
LEMMA NumberInit == Init => NumberInv
<1> SUFFICES ASSUME Init PROVE NumberInv
  OBVIOUS
<1>1. CallNumbers
  BY DEF Init, IdleCall, CallNumbers
<1>2. ASSUME NEW a \in Actors PROVE BoxNumbers(a)
  <2>1. priorityMailbox[a] = <<>> /\ normalMailbox[a] = <<>>
    BY DEF Init
  <2>2. Elems(priorityMailbox[a]) = {} /\ Elems(normalMailbox[a]) = {}
    BY <2>1 DEF Elems
  <2> QED BY <2>1, <2>2 DEF BoxNumbers, Mailbox, Distinct
<1> QED BY <1>1, <1>2 DEF NumberInv

\* A step that only takes messages out of mailboxes, or ends or goes on with a Send.
LEMMA NumberFrame ==
  ASSUME NumberInv, sent' = sent,
         \A t \in Threads : call'[t].at = "found" =>
           call[t].at = "found" /\ call'[t].msg = call[t].msg,
         \A a \in Actors : /\ Elems(priorityMailbox'[a]) \subseteq Elems(priorityMailbox[a])
                           /\ Elems(normalMailbox'[a]) \subseteq Elems(normalMailbox[a])
                           /\ Distinct(priorityMailbox'[a]) /\ Distinct(normalMailbox'[a])
  PROVE  NumberInv'
<1>1. CallNumbers'
  BY DEF NumberInv, CallNumbers
<1>2. Found' \subseteq Found
  BY DEF Found
<1>3. ASSUME NEW a \in Actors PROVE BoxNumbers(a)'
  <2>1. Mailbox(a)' \subseteq Mailbox(a)
    BY DEF Mailbox
  <2>2. (Elems(priorityMailbox[a]) \cap Elems(normalMailbox[a]))' = {}
    BY DEF NumberInv, BoxNumbers, Elems
  <2>3. Distinct(priorityMailbox[a])' /\ Distinct(normalMailbox[a])'
    BY DEF Distinct
  <2> QED BY <1>2, <2>1, <2>2, <2>3 DEF NumberInv, BoxNumbers
<1> QED BY <1>1, <1>3 DEF NumberInv

\* Send gives its message a number that no other message has.
LEMMA NumberFind ==
  ASSUME TypeOK, NumberInv, NEW t \in Threads, NEW b \in Actors, NEW prio \in BOOLEAN,
         SendFind(t, b, prio)
  PROVE  NumberInv' /\ sent' = sent + 1 /\ Found' \subseteq Found \cup {<<sent + 1, prio>>}
                    /\ UNCHANGED boxVars
<1>1. /\ sent \in Nat /\ sent' = sent + 1 /\ UNCHANGED boxVars
      /\ call[t].at = "idle" /\ call'[t].at = "found" /\ call'[t].msg = <<sent + 1, prio>>
      /\ \A u \in Threads \ {t} : call'[u] = call[u]
  BY DEF SendFind, TypeOK, CallOK
<1>2. CallNumbers'
  BY <1>1 DEF NumberInv, CallNumbers
<1>3. Found' \subseteq Found \cup {<<sent + 1, prio>>}
  <2> SUFFICES ASSUME NEW u \in Threads, call'[u].at = "found"
               PROVE  call'[u].msg \in Found \cup {<<sent + 1, prio>>}
    BY DEF Found
  <2> QED BY <1>1 DEF Found
<1>4. ASSUME NEW a \in Actors PROVE BoxNumbers(a)'
  <2>1. Mailbox(a)' = Mailbox(a) /\ BoxNumbers(a)
    BY <1>1 DEF Mailbox, Elems, boxVars, NumberInv
  <2>2. \A m \in Mailbox(a), x \in Found' : x[1] # m[1]
    BY <1>1, <1>3, <2>1 DEF BoxNumbers
  <2>3. \A m \in Mailbox(a) : m[1] \in 1..(sent + 1)
    BY <1>1, <2>1 DEF BoxNumbers
  <2>4. Distinct(priorityMailbox[a])' /\ Distinct(normalMailbox[a])'
    BY <1>1, <2>1 DEF BoxNumbers, Distinct, boxVars
  <2>5. (Elems(priorityMailbox[a]) \cap Elems(normalMailbox[a]))' = {}
    BY <1>1, <2>1 DEF BoxNumbers, boxVars
  <2> QED BY <1>1, <2>1, <2>2, <2>3, <2>4, <2>5 DEF BoxNumbers
<1> QED BY <1>1, <1>2, <1>3, <1>4 DEF NumberInv

\* What PushMessage does to the mailboxes and to the messages on their way.
LEMMA Pushes ==
  ASSUME TypeOK, NumberInv, NEW t \in Threads, PushMessage(t)
  PROVE  /\ call[t].msg \in Found /\ call[t].msg \notin Found' /\ Found' \subseteq Found
         /\ call[t].to \in Actors /\ sent' = sent
         /\ \A a \in Actors \ {call[t].to} :
              priorityMailbox'[a] = priorityMailbox[a] /\ normalMailbox'[a] = normalMailbox[a]
         /\ \E p, n \in SUBSET {call[t].msg} :
              /\ p = {} \/ n = {}
              /\ Elems(priorityMailbox'[call[t].to]) = Elems(priorityMailbox[call[t].to]) \cup p
              /\ Elems(normalMailbox'[call[t].to]) = Elems(normalMailbox[call[t].to]) \cup n
         /\ Distinct(priorityMailbox'[call[t].to]) /\ Distinct(normalMailbox'[call[t].to])
<1> DEFINE m == call[t].msg
<1> DEFINE b == call[t].to
<1>1. /\ call[t].at = "found" /\ b \in Actors /\ m \in Msgs /\ sent' = sent
      /\ call'[t].at = "pushed"
      /\ \A u \in Threads \ {t} : call'[u] = call[u]
  BY DEF PushMessage, TypeOK, CallOK
<1>2. m \in Found /\ Found' \subseteq Found
  BY <1>1 DEF Found
<1>3. m \notin Found'
  BY <1>1 DEF Found, NumberInv, CallNumbers
<1>4. /\ priorityMailbox[b] \in Seq(Msgs) /\ normalMailbox[b] \in Seq(Msgs)
      /\ m \notin Elems(priorityMailbox[b]) /\ m \notin Elems(normalMailbox[b])
      /\ Distinct(priorityMailbox[b]) /\ Distinct(normalMailbox[b])
  BY <1>1, <1>2 DEF TypeOK, BoxOK, NumberInv, BoxNumbers, Mailbox
<1>5. /\ \A a \in Actors \ {b} :
           priorityMailbox'[a] = priorityMailbox[a] /\ normalMailbox'[a] = normalMailbox[a]
      /\ \/ priorityMailbox'[b] = Append(priorityMailbox[b], m) /\ normalMailbox'[b] = normalMailbox[b]
         \/ normalMailbox'[b] = Append(normalMailbox[b], m) /\ priorityMailbox'[b] = priorityMailbox[b]
  <2>1. CASE m[2]
    <3>1. /\ priorityMailbox' = [priorityMailbox EXCEPT ![b] = Append(@, m)]
          /\ normalMailbox' = normalMailbox
      BY <2>1 DEF PushMessage
    <3> HIDE DEF m, b
    <3> QED BY <1>1, <3>1 DEF TypeOK, BoxOK
  <2>2. CASE ~m[2]
    <3>1. /\ normalMailbox' = [normalMailbox EXCEPT ![b] = Append(@, m)]
          /\ priorityMailbox' = priorityMailbox
      BY <2>2 DEF PushMessage
    <3> HIDE DEF m, b
    <3> QED BY <1>1, <3>1 DEF TypeOK, BoxOK
  <2> QED BY <2>1, <2>2
<1>6. \A q \in Seq(Msgs) : m \notin Elems(q) /\ Distinct(q) =>
        Elems(Append(q, m)) = Elems(q) \cup {m} /\ Distinct(Append(q, m))
  BY <1>1, ElemsAppend, DistinctAppend
<1>7. CASE priorityMailbox'[b] = Append(priorityMailbox[b], m) /\ normalMailbox'[b] = normalMailbox[b]
  <2>1. /\ Elems(priorityMailbox'[b]) = Elems(priorityMailbox[b]) \cup {m}
        /\ Elems(normalMailbox'[b]) = Elems(normalMailbox[b]) \cup {}
        /\ Distinct(priorityMailbox'[b]) /\ Distinct(normalMailbox'[b])
    BY <1>4, <1>6, <1>7
  <2>2. \E p, n \in SUBSET {m} :
              /\ p = {} \/ n = {}
              /\ Elems(priorityMailbox'[b]) = Elems(priorityMailbox[b]) \cup p
              /\ Elems(normalMailbox'[b]) = Elems(normalMailbox[b]) \cup n
    BY <2>1
  <2> QED BY <1>1, <1>2, <1>3, <1>5, <2>1, <2>2
<1>8. CASE normalMailbox'[b] = Append(normalMailbox[b], m) /\ priorityMailbox'[b] = priorityMailbox[b]
  <2>1. /\ Elems(priorityMailbox'[b]) = Elems(priorityMailbox[b]) \cup {}
        /\ Elems(normalMailbox'[b]) = Elems(normalMailbox[b]) \cup {m}
        /\ Distinct(priorityMailbox'[b]) /\ Distinct(normalMailbox'[b])
    BY <1>4, <1>6, <1>8
  <2>2. \E p, n \in SUBSET {m} :
              /\ p = {} \/ n = {}
              /\ Elems(priorityMailbox'[b]) = Elems(priorityMailbox[b]) \cup p
              /\ Elems(normalMailbox'[b]) = Elems(normalMailbox[b]) \cup n
    BY <2>1
  <2> QED BY <1>1, <1>2, <1>3, <1>5, <2>1, <2>2
<1> QED BY <1>5, <1>7, <1>8

\* A push puts a message where it was not, with its number.
LEMMA NumberPush ==
  ASSUME TypeOK, NumberInv, NEW t \in Threads, PushMessage(t)
  PROVE  NumberInv'
<1> DEFINE m == call[t].msg
<1> DEFINE b == call[t].to
<1>1. /\ m \in Found /\ m \notin Found' /\ Found' \subseteq Found /\ sent' = sent
      /\ \A a \in Actors \ {b} :
           priorityMailbox'[a] = priorityMailbox[a] /\ normalMailbox'[a] = normalMailbox[a]
      /\ Distinct(priorityMailbox'[b]) /\ Distinct(normalMailbox'[b])
  BY Pushes
<1>2. CallNumbers'
  BY DEF PushMessage, TypeOK, CallOK, NumberInv, CallNumbers
<1>3. /\ m[1] \in 1..sent
      /\ \A x \in Found' : x[1] # m[1]
  BY DEF PushMessage, TypeOK, CallOK, NumberInv, CallNumbers, Found
<1>4. ASSUME NEW a \in Actors PROVE BoxNumbers(a)'
  <2>0. BoxNumbers(a)
    BY DEF NumberInv
  <2>1. CASE a # b
    <3>1. Mailbox(a)' = Mailbox(a)
      BY <1>1, <2>1 DEF Mailbox, Elems
    <3>2. priorityMailbox'[a] = priorityMailbox[a] /\ normalMailbox'[a] = normalMailbox[a]
      BY <1>1, <2>1
    <3>3. Distinct(priorityMailbox[a])' /\ Distinct(normalMailbox[a])'
      BY <2>0, <3>2 DEF BoxNumbers, Distinct
    <3>4. (Elems(priorityMailbox[a]) \cap Elems(normalMailbox[a]))' = {}
      BY <2>0, <3>2 DEF BoxNumbers
    <3> QED BY <1>1, <2>0, <3>1, <3>3, <3>4 DEF BoxNumbers
  <2>2. CASE a = b
    <3>1. PICK p, n \in SUBSET {m} :
              /\ p = {} \/ n = {}
              /\ Elems(priorityMailbox'[a]) = Elems(priorityMailbox[a]) \cup p
              /\ Elems(normalMailbox'[a]) = Elems(normalMailbox[a]) \cup n
      BY <2>2, Pushes
    <3>2. Mailbox(a)' \subseteq Mailbox(a) \cup {m}
      BY <3>1 DEF Mailbox
    <3>3. m \notin Mailbox(a) /\ \A x \in Mailbox(a) : x[1] # m[1]
      BY <1>1, <2>0 DEF BoxNumbers
    <3>4. (Elems(priorityMailbox[a]) \cap Elems(normalMailbox[a]))' = {}
      BY <2>0, <3>1, <3>3 DEF BoxNumbers, Mailbox
    <3>5. Distinct(priorityMailbox[a])' /\ Distinct(normalMailbox[a])'
      BY <1>1, <2>2 DEF Distinct
    <3> HIDE DEF m
    <3>6. ASSUME NEW x \in Mailbox(a)'
          PROVE  /\ x[1] \in 1..sent'
                 /\ \A y \in Mailbox(a)' : y[1] = x[1] => y = x
                 /\ \A y \in Found' : y[1] # x[1]
      BY <1>1, <1>3, <2>0, <3>2, <3>3 DEF BoxNumbers
    <3> QED BY <3>4, <3>5, <3>6 DEF BoxNumbers
  <2> QED BY <2>1, <2>2
<1> QED BY <1>2, <1>4 DEF NumberInv

\* A step of ProcessOne only takes messages out of mailboxes, and a pop takes one out.
LEMMA Pops ==
  ASSUME TypeOK, NumberInv, NEW t \in Threads, ProcessStep(t)
  PROVE  /\ call' = call /\ sent' = sent /\ cur[t] \in Actors
         /\ \A a \in Actors :
              /\ Elems(priorityMailbox'[a]) \subseteq Elems(priorityMailbox[a])
              /\ Elems(normalMailbox'[a]) \subseteq Elems(normalMailbox[a])
              /\ Distinct(priorityMailbox'[a]) /\ Distinct(normalMailbox'[a])
         /\ pc[t] # "handling" /\ pc'[t] = "handling" =>
              \E h \in Mailbox(cur[t]) :
                /\ h \notin Elems(priorityMailbox'[cur[t]])
                /\ h \notin Elems(normalMailbox'[cur[t]])
<1>1. call' = call /\ sent' = sent
  BY DEF ProcessStep, ProcessOnePriority, ProcessOneNormal, HandlerReturn, HandlerThrow
<1>2. cur[t] \in Actors /\ pc[t] \in {"popP", "popN", "handling"}
  BY DEF ProcessStep, ProcessOnePriority, ProcessOneNormal, HandlerReturn, HandlerThrow,
         TypeOK, LoopOK, Threads, HoldLabels
<1>3. \A a \in Actors :
         /\ priorityMailbox[a] \in Seq(Msgs) /\ normalMailbox[a] \in Seq(Msgs)
         /\ Distinct(priorityMailbox[a]) /\ Distinct(normalMailbox[a])
         /\ Elems(priorityMailbox[a]) \cap Elems(normalMailbox[a]) = {}
  BY DEF TypeOK, BoxOK, NumberInv, BoxNumbers
<1>4. \A q \in Seq(Msgs) : q # <<>> /\ Distinct(q) =>
        /\ Elems(q) = {Head(q)} \cup Elems(Tail(q))
        /\ Distinct(Tail(q)) /\ Head(q) \notin Elems(Tail(q))
  BY ElemsTail, DistinctTail
<1>5. CASE ProcessOnePriority(t)
  <2> DEFINE q == priorityMailbox[cur[t]]
  <2>1. CASE q = <<>>
    <3>1. priorityMailbox' = priorityMailbox /\ normalMailbox' = normalMailbox /\ pc'[t] # "handling"
      BY <1>5, <2>1 DEF ProcessOnePriority, Goto, TypeOK, LoopOK
    <3> QED BY <1>1, <1>2, <1>3, <3>1
  <2>2. CASE q # <<>>
    <3>1. /\ priorityMailbox'[cur[t]] = Tail(q) /\ normalMailbox' = normalMailbox
          /\ \A a \in Actors \ {cur[t]} : priorityMailbox'[a] = priorityMailbox[a]
      BY <1>2, <1>5, <2>2 DEF ProcessOnePriority, TypeOK, BoxOK
    <3>2. /\ Elems(q) = {Head(q)} \cup Elems(Tail(q))
          /\ Distinct(Tail(q)) /\ Head(q) \notin Elems(Tail(q))
      BY <1>2, <1>3, <1>4, <2>2
    <3>3. Head(q) \in Mailbox(cur[t]) /\ Head(q) \notin Elems(normalMailbox[cur[t]])
      BY <1>2, <1>3, <3>2 DEF Mailbox
    <3> HIDE DEF q
    <3> QED BY <1>1, <1>2, <1>3, <3>1, <3>2, <3>3 DEF q
  <2> QED BY <2>1, <2>2
<1>6. CASE ProcessOneNormal(t)
  <2> DEFINE q == normalMailbox[cur[t]]
  <2>1. CASE q = <<>>
    <3>1. priorityMailbox' = priorityMailbox /\ normalMailbox' = normalMailbox /\ pc'[t] # "handling"
      BY <1>6, <2>1 DEF ProcessOneNormal, Goto, AfterEmpty, TypeOK, LoopOK
    <3> QED BY <1>1, <1>2, <1>3, <3>1
  <2>2. CASE q # <<>>
    <3>1. /\ normalMailbox'[cur[t]] = Tail(q) /\ priorityMailbox' = priorityMailbox
          /\ \A a \in Actors \ {cur[t]} : normalMailbox'[a] = normalMailbox[a]
      BY <1>2, <1>6, <2>2 DEF ProcessOneNormal, TypeOK, BoxOK
    <3>2. /\ Elems(q) = {Head(q)} \cup Elems(Tail(q))
          /\ Distinct(Tail(q)) /\ Head(q) \notin Elems(Tail(q))
      BY <1>2, <1>3, <1>4, <2>2
    <3>3. Head(q) \in Mailbox(cur[t]) /\ Head(q) \notin Elems(priorityMailbox[cur[t]])
      BY <1>2, <1>3, <3>2 DEF Mailbox
    <3> HIDE DEF q
    <3> QED BY <1>1, <1>2, <1>3, <3>1, <3>2, <3>3 DEF q
  <2> QED BY <2>1, <2>2
<1>7. CASE HandlerReturn(t) \/ HandlerThrow(t)
  <2>1. priorityMailbox' = priorityMailbox /\ normalMailbox' = normalMailbox /\ pc[t] = "handling"
    BY <1>7 DEF HandlerReturn, HandlerThrow, boxVars
  <2> QED BY <1>1, <1>2, <1>3, <2>1
<1> QED BY <1>5, <1>6, <1>7 DEF ProcessStep

\* A step that sends nothing and moves no message keeps the numbers.
LEMMA NumberIdle ==
  ASSUME NumberInv, UNCHANGED boxVars, sent' = sent,
         \A t \in Threads : call'[t].at = "found" =>
           call[t].at = "found" /\ call'[t].msg = call[t].msg
  PROVE  NumberInv' /\ Found' \subseteq Found
<1>1. priorityMailbox' = priorityMailbox /\ normalMailbox' = normalMailbox
  BY DEF boxVars
<1>2. \A a \in Actors : Distinct(priorityMailbox[a]) /\ Distinct(normalMailbox[a])
  BY DEF NumberInv, BoxNumbers
<1>3. NumberInv'
  BY <1>1, <1>2, NumberFrame
<1>4. Found' \subseteq Found
  BY DEF Found
<1> QED BY <1>3, <1>4

\* The steps that take part in neither sending nor processing.
OtherStep ==
  \/ \E a \in Actors : RegisterActor(a) \/ UnregisterActor(a)
  \/ \E t \in Threads : SendSchedule(t) \/ SendEnqueue(t)
  \/ \E w \in Workers : WorkerStep(w)
  \/ Start \/ StopStep \/ UNCHANGED vars

\* The steps of neither kind move no message and find no actor to send to.
LEMMA OtherIdle ==
  ASSUME TypeOK, OtherStep
  PROVE  /\ UNCHANGED boxVars /\ sent' = sent
         /\ \A t \in Threads : call'[t].at = "found" =>
              call[t].at = "found" /\ call'[t].msg = call[t].msg
<1>1. CASE \E a \in Actors : RegisterActor(a) \/ UnregisterActor(a)
  BY <1>1 DEF RegisterActor, UnregisterActor, boxVars
<1>2. CASE \E t \in Threads : SendSchedule(t) \/ SendEnqueue(t)
  BY <1>2 DEF SendSchedule, SendEnqueue, boxVars, IdleCall, TypeOK, CallOK
<1>3. CASE \E w \in Workers : WorkerStep(w)
  BY <1>3 DEF WorkerStep, WorkerTest, WorkerPop, WorkerWait, WorkerExit, WorkerLookup,
         WorkerCheck, WorkerRequeue, WorkerUnschedule, WorkerRecheck, WorkerReschedule, boxVars
<1>4. CASE Start \/ StopStep
  BY <1>4 DEF Start, StopStep, StopBegin, StopJoin, DrainCollect, DrainNext, DrainCheck, boxVars
<1>5. CASE UNCHANGED vars
  BY <1>5 DEF vars, boxVars
<1> QED BY <1>1, <1>2, <1>3, <1>4, <1>5 DEF OtherStep

\* The steps of the scheduler, as the drain sees them.
LEMMA StepKinds ==
  ASSUME [Next]_vars
  PROVE  \/ \E t \in Threads, b \in Actors, prio \in BOOLEAN : SendFind(t, b, prio)
         \/ \E t \in Threads : PushMessage(t) \/ ProcessStep(t)
         \/ OtherStep
  BY DEF Next, SendStep, OtherStep

\* Every step keeps the numbers; a message that is on its way and was not before has
\* the newest number.
LEMMA NumberNext ==
  ASSUME TypeOK, NumberInv, [Next]_vars
  PROVE  /\ NumberInv' /\ sent \in Nat /\ sent' \in Nat /\ sent <= sent'
         /\ \A x \in Found' : x \in Found \/ x[1] = sent + 1
<1>0. sent \in Nat
  BY DEF TypeOK, CallOK
<1>1. ASSUME NEW t \in Threads, NEW b \in Actors, NEW prio \in BOOLEAN, SendFind(t, b, prio)
      PROVE  /\ NumberInv' /\ sent' \in Nat /\ sent <= sent'
             /\ \A x \in Found' : x \in Found \/ x[1] = sent + 1
  BY <1>0, <1>1, NumberFind
<1>2. ASSUME NEW t \in Threads, PushMessage(t)
      PROVE  /\ NumberInv' /\ sent' = sent /\ Found' \subseteq Found
  BY <1>2, NumberPush, Pushes
<1>3. ASSUME NEW t \in Threads, ProcessStep(t)
      PROVE  /\ NumberInv' /\ sent' = sent /\ Found' \subseteq Found
  BY <1>3, Pops, NumberFrame DEF Found
<1>4. CASE OtherStep
  BY <1>0, <1>4, OtherIdle, NumberIdle
<1>5. ASSUME NumberInv', sent' = sent, Found' \subseteq Found
      PROVE  /\ NumberInv' /\ sent' \in Nat /\ sent <= sent'
             /\ \A x \in Found' : x \in Found \/ x[1] = sent + 1
  BY <1>0, <1>5
<1> QED BY <1>0, <1>1, <1>2, <1>3, <1>4, <1>5, StepKinds

\* What is in a mailbox after a step was there before, or was on its way.
LEMMA BoxSource ==
  ASSUME TypeOK, NumberInv, [Next]_vars, NEW a \in Actors
  PROVE  /\ Elems(priorityMailbox'[a]) \subseteq Elems(priorityMailbox[a]) \cup Found
         /\ Elems(normalMailbox'[a]) \subseteq Elems(normalMailbox[a]) \cup Found
         /\ Mailbox(a)' \subseteq Mailbox(a) \cup Found
<1> DEFINE Goal == /\ Elems(priorityMailbox'[a]) \subseteq Elems(priorityMailbox[a]) \cup Found
                   /\ Elems(normalMailbox'[a]) \subseteq Elems(normalMailbox[a]) \cup Found
<1>1. ASSUME UNCHANGED boxVars PROVE Goal
  BY <1>1 DEF boxVars
<1>2. ASSUME NEW t \in Threads, NEW b \in Actors, NEW prio \in BOOLEAN, SendFind(t, b, prio)
      PROVE  Goal
  BY <1>1, <1>2 DEF SendFind
<1>3. ASSUME NEW t \in Threads, PushMessage(t) PROVE Goal
  <2>1. call[t].msg \in Found
    BY <1>3, Pushes
  <2>2. CASE a # call[t].to
    BY <1>3, <2>2, Pushes
  <2>3. CASE a = call[t].to
    <3>1. PICK p, n \in SUBSET {call[t].msg} :
              /\ Elems(priorityMailbox'[a]) = Elems(priorityMailbox[a]) \cup p
              /\ Elems(normalMailbox'[a]) = Elems(normalMailbox[a]) \cup n
      BY <1>3, <2>3, Pushes
    <3> QED BY <2>1, <3>1
  <2> QED BY <2>2, <2>3
<1>4. ASSUME NEW t \in Threads, ProcessStep(t) PROVE Goal
  BY <1>4, Pops
<1>5. ASSUME OtherStep PROVE Goal
  BY <1>1, <1>5, OtherIdle
<1>6. Goal
  BY <1>2, <1>3, <1>4, <1>5, StepKinds
<1>7. /\ Mailbox(a) = Elems(priorityMailbox[a]) \cup Elems(normalMailbox[a])
      /\ Mailbox(a)' = Elems(priorityMailbox'[a]) \cup Elems(normalMailbox'[a])
  BY DEF Mailbox
<1>8. Mailbox(a)' \subseteq Mailbox(a) \cup Found
  BY <1>6, <1>7
<1> QED BY <1>6, <1>8

-----------------------------------------------------------------------------
(* How many messages an actor has taken from its mailboxes since the       *)
(* workers were joined.                                                    *)

\* Of the messages that waited at a then or came to it since, those that are gone.
Done(a) == load[a] - Waiting(a)

\* Pushing makes a queue one longer and popping one shorter.
LEMMA LenChanges ==
  ASSUME NEW q \in Seq(Msgs)
  PROVE  /\ Len(q) \in Nat
         /\ \A m \in Msgs : Len(Append(q, m)) = Len(q) + 1
         /\ q # <<>> => Len(Tail(q)) = Len(q) - 1
  OBVIOUS

\* Waiting messages are counted by an integer.
LEMMA WaitingInt ==
  ASSUME TypeOK, NEW a \in Actors
  PROVE  Waiting(a) \in Nat /\ load[a] \in Nat /\ Done(a) \in Int
<1>1. Waiting(a) \in Nat /\ load[a] \in Nat
  BY DEF TypeOK, BoxOK, StopOK, Waiting
<1> QED BY <1>1 DEF Done

\* A push makes one more message wait at the target.
LEMMA PushWaits ==
  ASSUME TypeOK, NEW t \in Threads, PushMessage(t), NEW a \in Actors
  PROVE  Waiting(a)' = Waiting(a) + (IF a = call[t].to THEN 1 ELSE 0)
<1> DEFINE m == call[t].msg
<1> DEFINE b == call[t].to
<1>1. b \in Actors /\ m \in Msgs
  BY DEF PushMessage, TypeOK, CallOK
<1>2. priorityMailbox[a] \in Seq(Msgs) /\ normalMailbox[a] \in Seq(Msgs)
  BY DEF TypeOK, BoxOK
<1>3. PICK i \in Nat, j \in Nat :
        /\ Len(priorityMailbox[a]) = i /\ Len(Append(priorityMailbox[a], m)) = i + 1
        /\ Len(normalMailbox[a]) = j /\ Len(Append(normalMailbox[a], m)) = j + 1
  BY <1>1, <1>2, LenChanges
<1>4. Waiting(a) = i + j
  BY <1>3 DEF Waiting
<1>5. CASE m[2]
  <2>1. /\ priorityMailbox' = [priorityMailbox EXCEPT ![b] = Append(@, m)]
        /\ normalMailbox' = normalMailbox
    BY <1>5 DEF PushMessage
  <2> HIDE DEF m, b
  <2>2. priorityMailbox'[a] = IF a = b THEN Append(priorityMailbox[a], m) ELSE priorityMailbox[a]
    BY <1>1, <2>1 DEF TypeOK, BoxOK
  <2>3. Len(normalMailbox'[a]) = j
    BY <1>3, <2>1
  <2>4. ASSUME a = b PROVE Len(priorityMailbox'[a]) = i + 1
    BY Zenon, <1>3, <2>2, <2>4
  <2>5. ASSUME a # b PROVE Len(priorityMailbox'[a]) = i
    BY Zenon, <1>3, <2>2, <2>5
  <2>6. Len(priorityMailbox'[a]) = (IF a = b THEN i + 1 ELSE i) /\ Len(normalMailbox'[a]) = j
    BY <2>3, <2>4, <2>5
  <2>7. Waiting(a)' = (IF a = b THEN i + 1 ELSE i) + j
    BY <2>6 DEF Waiting
  <2> QED BY <1>4, <2>7 DEF b
<1>6. CASE ~m[2]
  <2>1. /\ normalMailbox' = [normalMailbox EXCEPT ![b] = Append(@, m)]
        /\ priorityMailbox' = priorityMailbox
    BY <1>6 DEF PushMessage
  <2> HIDE DEF m, b
  <2>2. normalMailbox'[a] = IF a = b THEN Append(normalMailbox[a], m) ELSE normalMailbox[a]
    BY <1>1, <2>1 DEF TypeOK, BoxOK
  <2>3. Len(priorityMailbox'[a]) = i
    BY <1>3, <2>1
  <2>4. ASSUME a = b PROVE Len(normalMailbox'[a]) = j + 1
    BY Zenon, <1>3, <2>2, <2>4
  <2>5. ASSUME a # b PROVE Len(normalMailbox'[a]) = j
    BY Zenon, <1>3, <2>2, <2>5
  <2>6. Len(normalMailbox'[a]) = (IF a = b THEN j + 1 ELSE j) /\ Len(priorityMailbox'[a]) = i
    BY <2>3, <2>4, <2>5
  <2>7. Waiting(a)' = i + (IF a = b THEN j + 1 ELSE j)
    BY <2>6 DEF Waiting
  <2> QED BY <1>4, <2>7 DEF b
<1> QED BY <1>5, <1>6

\* A step of ProcessOne takes one message from its actor if it begins to handle one, and
\* nothing otherwise.
LEMMA PopWaits ==
  ASSUME TypeOK, NEW t \in Threads, ProcessStep(t), NEW a \in Actors
  PROVE  Waiting(a)' = Waiting(a)
           - (IF a = cur[t] /\ pc[t] # "handling" /\ pc'[t] = "handling" THEN 1 ELSE 0)
<1>1. /\ cur[t] \in Actors
      /\ priorityMailbox[a] \in Seq(Msgs) /\ normalMailbox[a] \in Seq(Msgs)
  BY DEF ProcessStep, ProcessOnePriority, ProcessOneNormal, HandlerReturn, HandlerThrow,
         TypeOK, LoopOK, BoxOK, Threads, HoldLabels
<1>2. PICK i \in Nat, j \in Nat :
        /\ Len(priorityMailbox[a]) = i /\ Len(normalMailbox[a]) = j
        /\ priorityMailbox[a] # <<>> => Len(Tail(priorityMailbox[a])) = i - 1
        /\ normalMailbox[a] # <<>> => Len(Tail(normalMailbox[a])) = j - 1
  BY <1>1, LenChanges
<1>3. Waiting(a) = i + j
  BY <1>2 DEF Waiting
<1>4. CASE ProcessOnePriority(t)
  <2>1. CASE priorityMailbox[cur[t]] = <<>>
    <3>1. priorityMailbox' = priorityMailbox /\ normalMailbox' = normalMailbox /\ pc'[t] # "handling"
      BY <1>4, <2>1 DEF ProcessOnePriority, Goto, TypeOK, LoopOK
    <3>2. Waiting(a)' = Waiting(a)
      BY <3>1 DEF Waiting
    <3> QED BY <1>3, <3>1, <3>2
  <2>2. CASE priorityMailbox[cur[t]] # <<>>
    <3>1. /\ priorityMailbox'[a] = IF a = cur[t] THEN Tail(priorityMailbox[a]) ELSE priorityMailbox[a]
          /\ normalMailbox' = normalMailbox
          /\ pc[t] # "handling" /\ pc'[t] = "handling"
      BY <1>1, <1>4, <2>2 DEF ProcessOnePriority, Goto, TypeOK, BoxOK, LoopOK
    <3>2. Waiting(a)' = (IF a = cur[t] THEN i - 1 ELSE i) + j
      BY <1>2, <2>2, <3>1 DEF Waiting
    <3> QED BY <1>3, <3>1, <3>2
  <2> QED BY <2>1, <2>2
<1>5. CASE ProcessOneNormal(t)
  <2>1. CASE normalMailbox[cur[t]] = <<>>
    <3>1. priorityMailbox' = priorityMailbox /\ normalMailbox' = normalMailbox /\ pc'[t] # "handling"
      BY <1>5, <2>1 DEF ProcessOneNormal, Goto, AfterEmpty, TypeOK, LoopOK
    <3>2. Waiting(a)' = Waiting(a)
      BY <3>1 DEF Waiting
    <3> QED BY <1>3, <3>1, <3>2
  <2>2. CASE normalMailbox[cur[t]] # <<>>
    <3>1. /\ normalMailbox'[a] = IF a = cur[t] THEN Tail(normalMailbox[a]) ELSE normalMailbox[a]
          /\ priorityMailbox' = priorityMailbox
          /\ pc[t] # "handling" /\ pc'[t] = "handling"
      BY <1>1, <1>5, <2>2 DEF ProcessOneNormal, Goto, TypeOK, BoxOK, LoopOK
    <3>2. Waiting(a)' = i + (IF a = cur[t] THEN j - 1 ELSE j)
      BY <1>2, <2>2, <3>1 DEF Waiting
    <3> QED BY <1>3, <3>1, <3>2
  <2> QED BY <2>1, <2>2
<1>6. CASE HandlerReturn(t) \/ HandlerThrow(t)
  <2>1. priorityMailbox' = priorityMailbox /\ normalMailbox' = normalMailbox /\ pc[t] = "handling"
    BY <1>6 DEF HandlerReturn, HandlerThrow, boxVars
  <2>2. Waiting(a)' = Waiting(a)
    BY <2>1 DEF Waiting
  <2> QED BY <1>3, <2>1, <2>2
<1> QED BY <1>4, <1>5, <1>6 DEF ProcessStep

\* While Stop drains, only a push adds to the load of an actor.
LEMMA LoadKept ==
  ASSUME TypeOK, pc[Main] \in DrainPhase, [Next]_vars, ~\E t \in Threads : PushMessage(t)
  PROVE  load' = load
  BY DEF DrainPhase, DrainLabels, Next, RegisterActor, UnregisterActor, SendStep, SendSchedule,
     SendEnqueue, SendFind, ProcessStep, ProcessOnePriority, ProcessOneNormal, HandlerReturn,
     HandlerThrow, WorkerStep, WorkerTest, WorkerPop, WorkerWait, WorkerExit, WorkerLookup,
     WorkerCheck, WorkerRequeue, WorkerUnschedule, WorkerRecheck, WorkerReschedule, Start, StopStep,
     StopBegin, StopJoin, DrainCollect, DrainNext, DrainCheck, stopVars, vars

\* While Stop drains, what an actor has taken never goes down.
LEMMA DoneGrows ==
  ASSUME TypeOK, TypeOK', pc[Main] \in DrainPhase, [Next]_vars, NEW a \in Actors
  PROVE  Done(a) \in Int /\ Done(a)' \in Int /\ Done(a) <= Done(a)'
<1>1. Waiting(a) \in Nat /\ load[a] \in Nat /\ Done(a) \in Int
  BY WaitingInt
<1>2. Waiting(a)' \in Nat /\ load'[a] \in Nat /\ Done(a)' \in Int
  <2>1. Waiting(a)' \in Nat /\ load'[a] \in Nat
    BY DEF TypeOK, BoxOK, StopOK, Waiting
  <2> QED BY <2>1 DEF Done
<1>3. ASSUME Waiting(a)' <= Waiting(a), load' = load PROVE Done(a) <= Done(a)'
  BY <1>1, <1>2, <1>3 DEF Done
<1>4. ASSUME NEW t \in Threads, PushMessage(t) PROVE Done(a) <= Done(a)'
  <2>1. load'[a] = load[a] + (IF a = call[t].to THEN 1 ELSE 0)
    BY <1>1, <1>4 DEF PushMessage, TypeOK, StopOK
  <2>2. Waiting(a)' = Waiting(a) + (IF a = call[t].to THEN 1 ELSE 0)
    BY <1>4, PushWaits
  <2> QED BY <1>1, <1>2, <2>1, <2>2 DEF Done
<1>5. ASSUME ~\E t \in Threads : PushMessage(t) PROVE Done(a) <= Done(a)'
  <2>1. load' = load
    BY <1>5, LoadKept
  <2>2. ASSUME NEW t \in Threads, ProcessStep(t) PROVE Waiting(a)' <= Waiting(a)
    BY <1>1, <1>2, <2>2, PopWaits
  <2>3. ASSUME UNCHANGED boxVars PROVE Waiting(a)' <= Waiting(a)
    <3>1. Waiting(a)' = Waiting(a)
      BY <2>3 DEF Waiting, boxVars
    <3> QED BY <1>1, <3>1
  <2>4. ASSUME OtherStep PROVE Waiting(a)' <= Waiting(a)
    BY <2>3, <2>4, OtherIdle
  <2>5. ASSUME NEW t \in Threads, NEW b \in Actors, NEW prio \in BOOLEAN, SendFind(t, b, prio)
        PROVE  Waiting(a)' <= Waiting(a)
    BY <2>3, <2>5 DEF SendFind
  <2>6. Waiting(a)' <= Waiting(a)
    BY <1>5, <2>2, <2>4, <2>5, StepKinds
  <2> QED BY <1>3, <2>1, <2>6
<1> QED BY <1>1, <1>2, <1>4, <1>5

\* A message the drain takes from a's mailbox counts.
LEMMA PopCounts ==
  ASSUME TypeOK, TypeOK', pc[Main] \in DrainPhase, NEW t \in Threads, ProcessStep(t),
         pc[t] # "handling", pc'[t] = "handling", NEW a \in Actors, cur[t] = a
  PROVE  Done(a) + 1 <= Done(a)'
<1>1. Waiting(a) \in Nat /\ load[a] \in Nat
  BY WaitingInt
<1>2. Waiting(a)' = Waiting(a) - 1
  BY PopWaits
<1>3. load' = load
  BY DEF ProcessStep, ProcessOnePriority, ProcessOneNormal, HandlerReturn, HandlerThrow, stopVars
<1> QED BY <1>1, <1>2, <1>3 DEF Done

-----------------------------------------------------------------------------
(* The drain of Stop.  An actor that still owes a message has taken from   *)
(* its mailboxes at least what the visits so far allowed: its quota.       *)

\* Labels at which an actor of the round is visited.
VisitLabels == DrainLabels \ {"drainNext"}
Visiting(a) == pc[Main] \in VisitLabels /\ cur[Main] = a
\* A message that waited when the workers had been joined is still there.
Owing(a) == Mailbox(a) \cap owed # {}
\* The messages that r rounds may take from one actor.
Budget(r) == r * MaxBatch
\* Messages taken in the visit that is going on.
Taken == count[Main] + (IF pc[Main] = "handling" THEN 1 ELSE 0)
\* What the visits so far have taken from an actor that still owes a message: a full
\* batch in each round that is over for it, and the messages of this visit.
Quota(a) ==
  IF pc[Main] = "stopped" THEN Budget(MaxRounds)
  ELSE IF pc[Main] = "collect" THEN Budget(round)
  ELSE IF Visiting(a) THEN Budget(round - 1) + Taken
  ELSE IF a \in drain THEN Budget(round - 1)
  ELSE Budget(round)

\* The rounds are counted from one.
RoundInv ==
  /\ pc[Main] \notin DrainPhase => round = 0
  /\ pc[Main] \in DrainLabels => round >= 1
\* What is owed was sent before the drain, so no Send is about to deliver it; the check
\* of the normal mailbox finds the priority mailbox without owed messages.
OwedInv ==
  pc[Main] \in DrainPhase =>
    /\ \A m \in owed : m[1] \in 1..sent /\ m \notin Found
    /\ pc[Main] = "drainN" => Elems(priorityMailbox[cur[Main]]) \cap owed = {}
\* An actor that owes a message has had its quota.
QuotaInv ==
  pc[Main] \in DrainPhase => \A a \in actors : Owing(a) => Quota(a) <= Done(a)
\* A visit that leaves an owed message behind has set anyProcessed: there is a next
\* round unless the rounds are used up.
ProgressInv ==
  pc[Main] \in DrainLabels =>
    /\ pc[Main] \in VisitLabels /\ count[Main] > 0 => anyProcessed
    /\ \A a \in actors \ drain : Owing(a) /\ ~Visiting(a) => anyProcessed
\* The inductive invariant of the drain.
DrainInv == NumberInv /\ RoundInv /\ OwedInv /\ QuotaInv /\ ProgressInv

\* A round adds one batch to the budget.
LEMMA BudgetStep ==
  ASSUME NEW r \in Nat
  PROVE  Budget(r) \in Nat /\ Budget(r + 1) = Budget(r) + MaxBatch
  BY SchedulerAssumption DEF Budget

\* More rounds are a larger budget.
LEMMA BudgetMono ==
  ASSUME NEW r \in Nat, NEW s \in Nat, r <= s
  PROVE  Budget(r) <= Budget(s)
<1>1. PICK d \in Nat : s = r + d
  <2>1. s - r \in Nat /\ s = r + (s - r)
    OBVIOUS
  <2> QED BY <2>1
<1>2. s * MaxBatch = r * MaxBatch + d * MaxBatch /\ d * MaxBatch \in Nat /\ r * MaxBatch \in Nat
  BY <1>1, SchedulerAssumption
<1> QED BY <1>2 DEF Budget

\* A step that Stop's thread does not take part in.
Quiet ==
  /\ UNCHANGED <<drain, round, anyProcessed, owed>>
  /\ pc'[Main] = pc[Main] /\ cur'[Main] = cur[Main] /\ count'[Main] = count[Main]

\* Once Stop has joined the workers, only its own thread processes messages.
LEMMA DrainSteps ==
  ASSUME IInv, pc[Main] \in DrainPhase, [Next]_vars
  PROVE  Quiet \/ ProcessStep(Main) \/ DrainCollect \/ DrainNext \/ DrainCheck
<1> USE SchedulerAssumption DEF DrainPhase, DrainLabels
<1>1. TypeOK /\ \A w \in Workers : pc[w] = "exited"
  BY DEF IInv, JoinInv
<1>2. CASE \E a \in Actors : RegisterActor(a) \/ UnregisterActor(a)
  BY <1>2 DEF RegisterActor, UnregisterActor, Quiet, stopVars, loopVars
<1>3. CASE \E t \in Threads : SendStep(t)
  BY <1>3 DEF SendStep, PushMessage, SendSchedule, SendEnqueue, SendFind, Quiet, stopVars, loopVars
<1>4. ASSUME NEW t \in Threads, ProcessStep(t) PROVE t = Main
  BY <1>1, <1>4 DEF ProcessStep, ProcessOnePriority, ProcessOneNormal, HandlerReturn, HandlerThrow,
     TypeOK, LoopOK, Threads
<1>5. ~ \E w \in Workers : WorkerStep(w)
  BY <1>1 DEF WorkerStep, WorkerTest, WorkerPop, WorkerWait, WorkerExit, WorkerLookup,
         WorkerCheck, WorkerRequeue, WorkerUnschedule, WorkerRecheck, WorkerReschedule
<1>6. ~Start /\ ~StopBegin /\ ~StopJoin
  BY DEF Start, StopBegin, StopJoin
<1>7. CASE UNCHANGED vars
  BY <1>7 DEF vars, Quiet
<1> QED BY <1>2, <1>3, <1>4, <1>5, <1>6, <1>7 DEF Next, StopStep

\* While Stop drains, no message becomes owed and none comes back to a mailbox.
LEMMA OwingKept ==
  ASSUME IInv, DrainInv, pc[Main] \in DrainPhase, [Next]_vars
  PROVE  /\ owed' = owed
         /\ \A m \in owed' : m[1] \in 1..sent' /\ m \notin Found'
         /\ \A a \in Actors : (Elems(priorityMailbox[a]) \cap owed = {})
                                => (Elems(priorityMailbox[a]) \cap owed)' = {}
         /\ \A a \in actors' : Owing(a)' => a \in actors /\ Owing(a)
<1>1. TypeOK /\ FreshInv /\ NumberInv
  BY DEF IInv, DrainInv
<1>2. owed' = owed
  BY DrainSteps DEF Quiet, ProcessStep, ProcessOnePriority, ProcessOneNormal, HandlerReturn,
     HandlerThrow, DrainCollect, DrainNext, DrainCheck, stopVars
<1>3. \A m \in owed : m[1] \in 1..sent /\ m \notin Found
  BY DEF DrainInv, OwedInv
<1>4. /\ sent \in Nat /\ sent' \in Nat /\ sent <= sent'
      /\ \A x \in Found' : x \in Found \/ x[1] = sent + 1
  BY <1>1, NumberNext
<1>5. \A m \in owed' : m[1] \in 1..sent' /\ m \notin Found'
  BY <1>2, <1>3, <1>4
<1>6. \A a \in Actors : (Elems(priorityMailbox[a]) \cap owed = {})
                          => (Elems(priorityMailbox[a]) \cap owed)' = {}
  <2>1. \A a \in Actors : Elems(priorityMailbox'[a]) \subseteq Elems(priorityMailbox[a]) \cup Found
    BY <1>1, BoxSource
  <2> QED BY <1>2, <1>3, <2>1
<1>7. ASSUME NEW a \in actors', Owing(a)' PROVE a \in actors /\ Owing(a)
  <2>1. a \in Actors
    BY <1>1, TypeNext DEF TypeOK, SystemOK
  <2>2. Mailbox(a)' \subseteq Mailbox(a) \cup Found
    BY <1>1, <2>1, BoxSource
  <2>3. Owing(a)
    BY <1>2, <1>3, <1>7, <2>2 DEF Owing
  <2>4. a \in used
    BY <1>1, <2>1, <2>3 DEF FreshInv, Owing, Mailbox, Elems
  <2>5. actors' \subseteq actors \cup (Actors \ used)
    BY DEF Next, RegisterActor, UnregisterActor, SendStep, PushMessage, SendSchedule, SendEnqueue,
       SendFind, ProcessStep, ProcessOnePriority, ProcessOneNormal, HandlerReturn, HandlerThrow,
       WorkerStep, WorkerTest, WorkerPop, WorkerWait, WorkerExit, WorkerLookup, WorkerCheck, WorkerRequeue,
       WorkerUnschedule, WorkerRecheck, WorkerReschedule, Start, StopStep, StopBegin, StopJoin,
       DrainCollect, DrainNext, DrainCheck, sysVars, vars
  <2> QED BY <2>3, <2>4, <2>5
<1> QED BY <1>2, <1>5, <1>6, <1>7

\* Before Stop nothing is owed.
LEMMA DrainInit == Init => DrainInv
<1> SUFFICES ASSUME Init PROVE DrainInv
  OBVIOUS
<1>1. pc[Main] = "off" /\ round = 0
  BY DEF Init, Threads
<1> QED BY <1>1, NumberInit
        DEF DrainInv, RoundInv, OwedInv, QuotaInv, ProgressInv, DrainPhase, DrainLabels

\* Before the drain: the messages owed are those in the mailboxes when it begins.
LEMMA DrainBegins ==
  ASSUME IInv, DrainInv, pc[Main] \notin DrainPhase, [Next]_vars
  PROVE  DrainInv'
<1> USE SchedulerAssumption
<1>1. TypeOK /\ NumberInv /\ round = 0
  BY DEF IInv, DrainInv, RoundInv
<1>2. NumberInv'
  BY <1>1, NumberNext
<1>3. ASSUME pc'[Main] \notin DrainPhase, round' = round PROVE DrainInv'
  BY <1>1, <1>2, <1>3 DEF DrainInv, RoundInv, OwedInv, QuotaInv, ProgressInv, DrainPhase
<1>4. CASE StopJoin
  <2>0. call' = call /\ sent' = sent /\ round' = round
    BY <1>4 DEF StopJoin, stopVars
  <2>1. /\ pc'[Main] = "collect" /\ round' = 0 /\ sent' = sent /\ Found' = Found
        /\ actors' = actors /\ owed' = UNION {Mailbox(a) : a \in actors} /\ actors \subseteq Actors
    BY <1>1, <1>4, <2>0 DEF StopJoin, Goto, TypeOK, SystemOK, LoopOK, Threads, Found, sysVars
  <2>2. \A m \in owed' : m[1] \in 1..sent /\ m \notin Found
    BY <1>1, <2>1 DEF NumberInv, BoxNumbers
  <2>3. \A a \in actors : Quota(a)' = 0 /\ 0 <= Done(a)'
    <3>1. Budget(0) = 0
      BY DEF Budget
    <3>2. \A a \in actors : Quota(a)' = 0
      BY <2>1, <3>1 DEF Quota, Budget
    <3>3. ASSUME NEW a \in actors PROVE Done(a)' = 0
      <4>1. a \in Actors /\ Waiting(a)' = Waiting(a) /\ load' = [b \in Actors |-> Waiting(b)]
        BY <1>4, <2>1 DEF StopJoin, Waiting, boxVars
      <4>2. Waiting(a) \in Nat
        BY <1>1, <4>1, WaitingInt
      <4> QED BY <4>1, <4>2 DEF Done
    <3> QED BY <3>2, <3>3
  <2> QED BY <1>2, <2>1, <2>2, <2>3 DEF DrainInv, RoundInv, OwedInv, QuotaInv, ProgressInv, DrainLabels, DrainPhase
<1>5. CASE ~StopJoin
  <2>1. ~ProcessStep(Main) /\ ~DrainCollect /\ ~DrainNext /\ ~DrainCheck
    BY DEF ProcessStep, ProcessOnePriority, ProcessOneNormal, HandlerReturn, HandlerThrow,
       DrainCollect, DrainNext, DrainCheck, DrainPhase, DrainLabels
  <2>2. round' = round
    BY <1>5, <2>1 DEF Next, RegisterActor, UnregisterActor, SendStep, PushMessage, SendSchedule, SendEnqueue,
       SendFind, ProcessStep, ProcessOnePriority, ProcessOneNormal, HandlerReturn, HandlerThrow,
       WorkerStep, WorkerTest, WorkerPop, WorkerWait, WorkerExit, WorkerLookup, WorkerCheck, WorkerRequeue,
       WorkerUnschedule, WorkerRecheck, WorkerReschedule, Start, StopStep, StopBegin, stopVars, vars
  <2>3. pc'[Main] \notin DrainPhase
    <3>1. CASE Start \/ StopBegin
      BY <1>1, <3>1 DEF Start, StopBegin, Goto, TypeOK, LoopOK, DrainPhase, DrainLabels, Threads
    <3>2. CASE \E t \in Threads \ {Main} : ProcessStep(t)
      BY <1>1, <3>2 DEF ProcessStep, ProcessOnePriority, ProcessOneNormal, HandlerReturn, HandlerThrow,
         Goto, TypeOK, LoopOK, Threads
    <3>3. CASE \E w \in Workers : WorkerStep(w)
      BY <1>1, <3>3 DEF WorkerStep, WorkerTest, WorkerPop, WorkerWait, WorkerExit, WorkerLookup, WorkerCheck, WorkerRequeue,
         WorkerUnschedule, WorkerRecheck, WorkerReschedule, Goto, TypeOK, LoopOK, Threads
    <3>4. CASE \/ UNCHANGED vars \/ \E a \in Actors : RegisterActor(a) \/ UnregisterActor(a)
               \/ \E t \in Threads : SendStep(t)
      BY <3>4 DEF vars, RegisterActor, UnregisterActor, SendStep, PushMessage, SendSchedule, SendEnqueue,
         SendFind, loopVars
    <3> QED BY <1>5, <2>1, <3>1, <3>2, <3>3, <3>4 DEF Next, StopStep
  <2> QED BY <1>3, <2>2, <2>3
<1> QED BY <1>4, <1>5

\* A quota is an integer, before and after a step.
LEMMA QuotaInt ==
  ASSUME TypeOK, TypeOK', NEW a
  PROVE  Quota(a) \in Int /\ Quota(a)' \in Int
<1>1. /\ round \in Nat /\ count[Main] \in Nat /\ round' \in Nat /\ count'[Main] \in Nat
      /\ MaxBatch \in Nat /\ MaxRounds \in Nat
  BY SchedulerAssumption DEF TypeOK, HandOK, StopOK, Threads
<1>2. \A r \in Int : Budget(r) \in Int
  BY <1>1 DEF Budget
<1>3. Taken \in Int /\ Taken' \in Int
  BY <1>1 DEF Taken
<1>4. /\ Budget(MaxRounds) \in Int /\ Budget(round) \in Int /\ Budget(round - 1) \in Int
      /\ Budget(MaxRounds)' \in Int /\ Budget(round)' \in Int /\ Budget(round - 1)' \in Int
  BY <1>1, <1>2 DEF Budget
<1> QED BY <1>3, <1>4 DEF Quota

\* What a step of the drain has to show of the actors still owing messages.
LEMMA QuotaFrame ==
  ASSUME IInv, DrainInv, pc[Main] \in DrainPhase, [Next]_vars,
         \A a \in actors : Owing(a) /\ Owing(a)' => Quota(a)' <= Quota(a)
                             \/ (Quota(a)' <= Quota(a) + 1 /\ Done(a) + 1 <= Done(a)')
  PROVE  QuotaInv'
<1> SUFFICES ASSUME NEW a \in actors', Owing(a)' PROVE Quota(a)' <= Done(a)'
  BY DEF QuotaInv
<1>1. a \in actors /\ Owing(a) /\ a \in Actors
  BY OwingKept DEF IInv, TypeOK, SystemOK
<1>2. Quota(a) <= Done(a)
  BY <1>1 DEF DrainInv, QuotaInv
<1>3. Done(a) \in Int /\ Done(a)' \in Int /\ Done(a) <= Done(a)'
  BY <1>1, DoneGrows, TypeNext DEF IInv
<1>4. Quota(a) \in Int /\ Quota(a)' \in Int
  BY QuotaInt, TypeNext DEF IInv
<1> QED BY <1>1, <1>2, <1>3, <1>4

\* The facts every step of the drain starts from.
LEMMA DrainFacts ==
  ASSUME IInv, DrainInv, pc[Main] \in DrainPhase, [Next]_vars
  PROVE  /\ round \in Nat /\ count[Main] \in Nat /\ MaxBatch \in Nat \ {0} /\ MaxRounds \in Nat \ {0}
         /\ drain \subseteq Actors /\ actors \subseteq Actors /\ anyProcessed \in BOOLEAN
         /\ pc[Main] \in VisitLabels => cur[Main] \in Actors
         /\ pc[Main] \in DrainLabels => round - 1 \in Nat /\ Budget(round) = Budget(round - 1) + MaxBatch
         /\ \A r \in Int : Budget(r) \in Int
         /\ Main \in Threads
         /\ pc \in [Threads -> Labels \cup MainLabels]
         /\ cur \in [Threads -> Actors \cup {None}]
         /\ count \in [Threads -> Nat]
<1>1. /\ round \in Nat /\ count[Main] \in Nat /\ MaxBatch \in Nat \ {0} /\ MaxRounds \in Nat \ {0}
      /\ Main \in Threads /\ anyProcessed \in BOOLEAN
      /\ drain \subseteq Actors /\ actors \subseteq Actors
      /\ pc[Main] \in VisitLabels => cur[Main] \in Actors
  BY SchedulerAssumption DEF IInv, TypeOK, LoopOK, HandOK, StopOK, SystemOK, Threads, VisitLabels, DrainLabels
<1>2. /\ pc \in [Threads -> Labels \cup MainLabels]
      /\ cur \in [Threads -> Actors \cup {None}]
      /\ count \in [Threads -> Nat]
  BY DEF IInv, TypeOK, LoopOK, HandOK
<1>3. pc[Main] \in DrainLabels => round - 1 \in Nat /\ Budget(round) = Budget(round - 1) + MaxBatch
  <2>1. ASSUME pc[Main] \in DrainLabels PROVE round - 1 \in Nat
    BY <1>1, <2>1 DEF DrainInv, RoundInv
  <2>2. ASSUME round - 1 \in Nat PROVE Budget((round - 1) + 1) = Budget(round - 1) + MaxBatch
    BY <2>2, BudgetStep
  <2>3. (round - 1) + 1 = round
    BY <1>1
  <2> QED BY <2>1, <2>2, <2>3
<1>4. \A r \in Int : Budget(r) \in Int
  BY <1>1 DEF Budget
<1> QED BY <1>1, <1>2, <1>3, <1>4

\* A step of another thread, or of a Send of the draining one, keeps the invariant.
LEMMA DrainQuiet ==
  ASSUME IInv, DrainInv, pc[Main] \in DrainPhase, [Next]_vars, Quiet
  PROVE  DrainInv'
<1>1. NumberInv'
  BY NumberNext DEF IInv, DrainInv
<1>2. RoundInv'
  BY DEF Quiet, DrainInv, RoundInv
<1>3. OwedInv'
  <2>1. \A m \in owed' : m[1] \in 1..sent' /\ m \notin Found'
    BY OwingKept
  <2>2. pc'[Main] = "drainN" => (Elems(priorityMailbox[cur[Main]]) \cap owed)' = {}
    <3>1. pc'[Main] = "drainN" => cur[Main] \in Actors /\ Elems(priorityMailbox[cur[Main]]) \cap owed = {}
      BY DrainFacts DEF Quiet, DrainInv, OwedInv, VisitLabels, DrainLabels
    <3>2. pc'[Main] = "drainN" => Elems(priorityMailbox'[cur[Main]]) \cap owed' = {}
      BY <3>1, OwingKept
    <3> QED BY <3>2 DEF Quiet
  <2> QED BY <2>1, <2>2 DEF OwedInv
<1>4. QuotaInv'
  <2>1. \A a \in actors : Quota(a)' = Quota(a)
    BY DEF Quiet, Quota, Visiting, Taken, Budget
  <2>2. \A a \in actors : Quota(a)' <= Quota(a)
    BY <2>1, QuotaInt, TypeNext DEF IInv
  <2> QED BY <2>2, QuotaFrame
<1>5. ProgressInv'
  <2>1. \A a \in actors' : Owing(a)' => a \in actors /\ Owing(a)
    BY OwingKept
  <2>2. \A a \in actors' : Visiting(a)' <=> Visiting(a)
    BY DEF Quiet, Visiting
  <2> QED BY <2>1, <2>2 DEF Quiet, DrainInv, ProgressInv
<1> QED BY <1>1, <1>2, <1>3, <1>4, <1>5 DEF DrainInv

\* A step of ProcessOne in the draining thread: a message handled counts for the actor
\* that is visited.
LEMMA DrainProcess ==
  ASSUME IInv, DrainInv, pc[Main] \in DrainPhase, [Next]_vars, ProcessStep(Main)
  PROVE  DrainInv'
<1>1. NumberInv'
  BY NumberNext DEF IInv, DrainInv
<1>2. /\ cur' = cur /\ drain' = drain /\ round' = round /\ actors' = actors
      /\ pc[Main] \in {"popP", "popN", "handling"} /\ pc'[Main] \in {"popN", "drainP", "handling"}
      /\ IF pc[Main] = "handling"
         THEN pc'[Main] = "drainP" /\ count'[Main] = count[Main] + 1 /\ anyProcessed' = TRUE
         ELSE count' = count /\ anyProcessed' = anyProcessed
  BY DrainFacts DEF ProcessStep, ProcessOnePriority, ProcessOneNormal, HandlerReturn, HandlerThrow,
     Goto, AfterEmpty, AfterReturn, stopVars, sysVars
<1>3. RoundInv'
  BY <1>2 DEF DrainInv, RoundInv, DrainPhase, DrainLabels
<1>4. OwedInv'
  BY <1>2, OwingKept DEF OwedInv
<1>5. QuotaInv'
  <2> DEFINE pops == pc[Main] # "handling" /\ pc'[Main] = "handling"
  <2>1. ASSUME NEW b \in actors, b # cur[Main] PROVE Quota(b)' = Quota(b)
    BY <1>2, <2>1 DEF Quota, Visiting, Budget
  <2>2. ASSUME NEW b \in actors, b = cur[Main]
        PROVE  Quota(b)' = Quota(b) + (IF pops THEN 1 ELSE 0)
    <3>1. Visiting(b) /\ Visiting(b)'
      BY <1>2, <2>2 DEF Visiting, VisitLabels, DrainLabels
    <3>2. Quota(b) = Budget(round - 1) + Taken /\ Quota(b)' = Budget(round - 1) + Taken'
      BY <1>2, <3>1 DEF Quota, Budget
    <3>3. Taken' = Taken + (IF pops THEN 1 ELSE 0)
      BY <1>2, DrainFacts DEF Taken
    <3>4. Budget(round - 1) \in Int /\ Taken \in Int
      BY DrainFacts DEF Taken
    <3> QED BY <3>2, <3>3, <3>4
  <2>3. ASSUME NEW b \in actors, b = cur[Main], pops PROVE Done(b) + 1 <= Done(b)'
    BY <2>3, DrainFacts, PopCounts, TypeNext DEF IInv
  <2>4. \A b \in actors : Quota(b) \in Int /\ Quota(b)' \in Int
    BY QuotaInt, TypeNext DEF IInv
  <2> QED BY <2>1, <2>2, <2>3, <2>4, QuotaFrame
<1>6. ProgressInv'
  <2>1. \A b \in actors' : Owing(b)' => b \in actors /\ Owing(b)
    BY OwingKept
  <2>2. \A b \in actors' : Visiting(b)' <=> Visiting(b)
    BY <1>2 DEF Visiting, VisitLabels, DrainLabels
  <2> QED BY <1>2, <2>1, <2>2 DEF DrainInv, ProgressInv, VisitLabels, DrainLabels
<1> QED BY <1>1, <1>3, <1>4, <1>5, <1>6 DEF DrainInv

\* A new round: each actor's quota is what the rounds before have earned.
LEMMA DrainRound ==
  ASSUME IInv, DrainInv, pc[Main] \in DrainPhase, [Next]_vars, DrainCollect
  PROVE  DrainInv'
<1>1. NumberInv'
  BY NumberNext DEF IInv, DrainInv
<1>2. /\ pc[Main] = "collect" /\ pc'[Main] = "drainNext" /\ round' = round + 1 /\ drain' = actors
      /\ actors' = actors
  BY DrainFacts DEF DrainCollect, Goto, sysVars
<1>3. RoundInv'
  BY <1>2, DrainFacts DEF RoundInv, DrainPhase, DrainLabels
<1>4. OwedInv'
  BY <1>2, OwingKept DEF OwedInv
<1>5. QuotaInv'
  <2>1. \A b \in actors : Quota(b)' = Budget(round) /\ Quota(b) = Budget(round)
    BY <1>2, DrainFacts DEF Quota, Visiting, VisitLabels, Budget
  <2>2. \A b \in actors : Quota(b)' <= Quota(b)
    BY <2>1, DrainFacts
  <2> QED BY <2>2, QuotaFrame
<1>6. ProgressInv'
  BY <1>2 DEF ProgressInv, VisitLabels
<1> QED BY <1>1, <1>3, <1>4, <1>5, <1>6 DEF DrainInv

\* Going to the next actor of the round, or ending the round.
LEMMA DrainMoves ==
  ASSUME IInv, DrainInv, pc[Main] \in DrainPhase, [Next]_vars, DrainNext
  PROVE  DrainInv'
<1>1. NumberInv'
  BY NumberNext DEF IInv, DrainInv
<1>2. /\ pc[Main] = "drainNext" /\ round' = round /\ actors' = actors /\ anyProcessed' = anyProcessed
      /\ pc'[Main] \in {"drainP", "collect", "stopped"}
  BY DrainFacts DEF DrainNext, Goto, sysVars
<1>3. RoundInv'
  BY <1>2 DEF DrainInv, RoundInv, DrainPhase, DrainLabels
<1>4. OwedInv'
  BY <1>2, OwingKept DEF OwedInv
<1>5. \A b \in actors : ~Visiting(b)
  BY <1>2 DEF Visiting, VisitLabels
<1>6. \A b \in actors : Quota(b) = IF b \in drain THEN Budget(round - 1) ELSE Budget(round)
  BY <1>2, <1>5 DEF Quota
<1>7. ASSUME NEW a \in drain, drain' = drain \ {a}, cur'[Main] = a, count'[Main] = 0,
             pc'[Main] = "drainP"
      PROVE  QuotaInv' /\ ProgressInv'
  <2>1. \A b \in actors : Visiting(b)' <=> b = a
    BY <1>7 DEF Visiting, VisitLabels, DrainLabels
  <2>2. Taken' = 0 /\ Budget(round - 1) \in Int /\ Budget(round) \in Int
    BY <1>7, DrainFacts DEF Taken
  <2>3. \A b \in actors : Quota(b)' = Quota(b)
    BY <1>2, <1>6, <1>7, <2>1, <2>2 DEF Quota, Budget
  <2>4. QuotaInv'
    BY <1>6, <2>2, <2>3, QuotaFrame
  <2>5. \A b \in actors' : Owing(b)' => b \in actors /\ Owing(b)
    BY OwingKept
  <2>6. ProgressInv'
    BY <1>2, <1>5, <1>7, <2>1, <2>5 DEF DrainInv, ProgressInv, DrainLabels
  <2> QED BY <2>4, <2>6
<1>8. ASSUME drain = {}, pc'[Main] = IF MoreRounds THEN "collect" ELSE "stopped"
      PROVE  QuotaInv' /\ ProgressInv'
  <2>1. \A b \in actors : Quota(b) = Budget(round)
    BY <1>6, <1>8
  <2>2. ASSUME NEW b \in actors, Owing(b) PROVE Quota(b)' <= Quota(b)
    <3>1. anyProcessed
      BY <1>2, <1>5, <1>8, <2>2 DEF DrainInv, ProgressInv, DrainLabels
    <3>2. CASE pc'[Main] = "collect"
      BY <1>2, <2>1, <3>2, DrainFacts DEF Quota, Budget
    <3>3. CASE pc'[Main] = "stopped"
      <4>1. MaxRounds <= round
        BY <1>8, <3>1, <3>3, DrainFacts
      <4>2. Budget(MaxRounds) <= Budget(round)
        BY <4>1, DrainFacts, BudgetMono
      <4>3. Quota(b)' = Budget(MaxRounds)
        BY <3>3 DEF Quota, Budget
      <4> QED BY <2>1, <4>2, <4>3
    <3> QED BY <1>8, <3>2, <3>3
  <2>3. QuotaInv'
    BY <2>2, QuotaFrame
  <2>4. ProgressInv'
    BY <1>8 DEF ProgressInv, DrainLabels
  <2> QED BY <2>3, <2>4
<1>9. QuotaInv' /\ ProgressInv'
  BY <1>7, <1>8, DrainFacts DEF DrainNext, Goto
<1> QED BY <1>1, <1>3, <1>4, <1>9 DEF DrainInv

\* The visit of an actor goes on, or ends with its owed messages handled or its batch full.
LEMMA DrainLooks ==
  ASSUME IInv, DrainInv, pc[Main] \in DrainPhase, [Next]_vars, DrainCheck
  PROVE  DrainInv'
<1> DEFINE a == cur[Main]
<1>1. NumberInv'
  BY NumberNext DEF IInv, DrainInv
<1>2. /\ pc[Main] \in {"drainP", "drainN"} /\ pc'[Main] \in {"popP", "drainN", "drainNext"}
      /\ round' = round /\ actors' = actors /\ drain' = drain /\ anyProcessed' = anyProcessed
      /\ count' = count /\ priorityMailbox' = priorityMailbox
      /\ pc'[Main] # "drainNext" => cur' = cur
      /\ pc'[Main] = "drainN" => pc[Main] = "drainP" /\ priorityMailbox[a] = <<>>
      /\ pc'[Main] = "drainNext" => \/ ~(count[Main] < MaxBatch)
                                    \/ pc[Main] = "drainN" /\ normalMailbox[a] = <<>>
  BY DrainFacts DEF DrainCheck, Goto, stopVars, sysVars, boxVars
<1>3. RoundInv'
  BY <1>2 DEF DrainInv, RoundInv, DrainPhase, DrainLabels
<1>4. OwedInv'
  <2>1. pc'[Main] = "drainN" => (Elems(priorityMailbox[cur[Main]]) \cap owed)' = {}
    BY <1>2 DEF Elems
  <2> QED BY <2>1, OwingKept DEF OwedInv
<1>5. \A b \in actors : Visiting(b) <=> b = a
  BY <1>2 DEF Visiting, VisitLabels, DrainLabels
<1>6. CASE pc'[Main] # "drainNext"
  <2>1. \A b \in actors : Visiting(b)' <=> b = a
    BY <1>2, <1>6 DEF Visiting, VisitLabels, DrainLabels
  <2>2. \A b \in actors : Quota(b)' = Quota(b)
    BY <1>2, <1>5, <1>6, <2>1 DEF Quota, Taken, Budget
  <2>3. QuotaInv'
    BY <2>2, QuotaInt, TypeNext, QuotaFrame DEF IInv
  <2>4. \A b \in actors' : Owing(b)' => b \in actors /\ Owing(b)
    BY OwingKept
  <2>5. ProgressInv'
    BY <1>2, <1>5, <2>1, <2>4 DEF DrainInv, ProgressInv, VisitLabels, DrainLabels
  <2> QED BY <1>1, <1>3, <1>4, <2>3, <2>5 DEF DrainInv
<1>7. CASE pc'[Main] = "drainNext"
  <2>1. ASSUME NEW b \in actors, b = cur[Main], Owing(b) PROVE ~(count[Main] < MaxBatch)
    <3>1. SUFFICES ASSUME pc[Main] = "drainN", normalMailbox[b] = <<>> PROVE FALSE
      BY <1>2, <1>7, <2>1
    <3>2. Elems(normalMailbox[b]) = {} /\ Elems(priorityMailbox[b]) \cap owed = {}
      BY <2>1, <3>1 DEF DrainInv, OwedInv, DrainPhase, DrainLabels, Elems
    <3> QED BY <2>1, <3>2 DEF Owing, Mailbox
  <2>2. \A b \in actors : Quota(b)' = IF b \in drain THEN Budget(round - 1) ELSE Budget(round)
    BY <1>2, <1>7 DEF Quota, Visiting, VisitLabels, Budget
  <2>3. ASSUME NEW b \in actors, Owing(b) PROVE Quota(b)' <= Quota(b)
    <3>1. /\ Budget(round) = Budget(round - 1) + MaxBatch /\ Budget(round - 1) \in Int
          /\ MaxBatch \in Nat /\ count[Main] \in Nat
      <4>1. round - 1 \in Nat /\ Budget(round) = Budget(round - 1) + MaxBatch
        BY <1>2, DrainFacts DEF DrainLabels
      <4>2. Budget(round - 1) \in Int
        BY <4>1, BudgetStep
      <4> QED BY <4>1, <4>2, DrainFacts
    <3>2. CASE b = cur[Main]
      <4>1. Quota(b) = Budget(round - 1) + count[Main]
        BY <1>2, <1>5, <3>1, <3>2 DEF Quota, Taken
      <4>2. ~(count[Main] < MaxBatch)
        BY <2>1, <2>3, <3>2
      <4> QED BY <2>2, <3>1, <4>1, <4>2
    <3>3. CASE b # cur[Main]
      <4>1. Quota(b) = IF b \in drain THEN Budget(round - 1) ELSE Budget(round)
        BY <1>2, <1>5, <3>3 DEF Quota
      <4> QED BY <2>2, <3>1, <4>1
    <3> QED BY <3>2, <3>3
  <2>4. QuotaInv'
    BY <2>3, QuotaFrame
  <2>5. \A b \in actors' : Owing(b)' => b \in actors /\ Owing(b)
    BY OwingKept
  <2>6. ASSUME NEW b \in actors \ drain, Owing(b) PROVE anyProcessed
    <3>1. CASE b = cur[Main]
      <4>1. count[Main] > 0
        BY <2>1, <2>6, <3>1, DrainFacts
      <4>2. pc[Main] \in VisitLabels /\ pc[Main] \in DrainLabels
        BY <1>2 DEF VisitLabels, DrainLabels
      <4> QED BY <4>1, <4>2 DEF DrainInv, ProgressInv
    <3>2. CASE b # cur[Main]
      BY <1>2, <1>5, <2>6, <3>2 DEF DrainInv, ProgressInv, DrainLabels
    <3> QED BY <3>1, <3>2
  <2>7. ProgressInv'
    BY <1>2, <1>7, <2>5, <2>6 DEF ProgressInv, VisitLabels
  <2> QED BY <1>1, <1>3, <1>4, <2>4, <2>7 DEF DrainInv
<1> QED BY <1>6, <1>7

\* Every step keeps the invariant of the drain.
LEMMA DrainStep ==
  ASSUME IInv, DrainInv, [Next]_vars
  PROVE  DrainInv'
  BY DrainBegins, DrainSteps, DrainQuiet, DrainProcess, DrainRound, DrainMoves, DrainLooks

\* The invariant of the drain holds in every reachable state.
THEOREM DrainInvCorrect == Spec => []DrainInv
  BY DrainInit, DrainStep, InvCorrect, PTL DEF Spec

\* For any number of actors and threads, any batch size and any number of rounds, Stop
\* gives every message that waited when the workers had been joined to its handler, unless
\* more waited at that actor or came to it during the drain than the rounds can take from it.
THEOREM DrainCorrect == Spec => []StopDrains
<1>1. IInv /\ DrainInv => StopDrains
  <2> SUFFICES ASSUME IInv, DrainInv, pc[Main] = "stopped",
                      NEW a \in actors, load[a] <= MaxRounds * MaxBatch,
                      NEW m \in Mailbox(a) \cap owed
               PROVE  FALSE
    BY DEF StopDrains
  <2>1. a \in Actors
    BY DEF IInv, TypeOK, SystemOK
  <2>2. Budget(MaxRounds) <= load[a] - Waiting(a)
    BY DEF DrainInv, QuotaInv, Owing, Quota, DrainPhase, Done
  <2>3. Waiting(a) # 0
    <3>1. priorityMailbox[a] \in Seq(Msgs) /\ normalMailbox[a] \in Seq(Msgs)
      BY <2>1 DEF IInv, TypeOK, BoxOK
    <3>2. PICK i \in Nat, j \in Nat : Len(priorityMailbox[a]) = i /\ Len(normalMailbox[a]) = j
      BY <3>1, LenChanges
    <3>3. i # 0 \/ j # 0
      BY <3>2 DEF Mailbox, Elems
    <3>4. Waiting(a) = i + j
      BY <3>2 DEF Waiting
    <3> QED BY <3>3, <3>4
  <2>4. Waiting(a) \in Nat /\ load[a] \in Nat
    BY <2>1, WaitingInt DEF IInv
  <2> QED BY <2>2, <2>3, <2>4, SchedulerAssumption DEF Budget
<1> QED BY <1>1, InvCorrect, DrainInvCorrect, PTL
=============================================================================
