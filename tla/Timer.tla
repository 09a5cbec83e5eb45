------------------------------- MODULE Timer --------------------------------
(***************************************************************************)
(* TimerManager: addTimer and CancelTimer called from any thread, timerLoop*)
(* on the timer thread, Start and Stop on the main one.  timerMutex_ is    *)
(* held by the timer thread exactly while pc is in Locked; every critical  *)
(* section of another thread is one step.  The condition variable keeps no *)
(* memory: a notification reaches the timer thread only while it waits.    *)
(***************************************************************************)
EXTENDS Naturals, Sequences, FiniteSets

CONSTANTS
  Timers,      \* the ids nextTimerId_ hands out
  Delays,      \* delayMs of SetTimeout
  Intervals,   \* intervalMs of SetInterval; those that are not positive are refused
  IdleWait,    \* the wait with an empty heap (100 ms in the code)
  MaxTime      \* bound on the clock

ASSUME TimerAssumption ==
  /\ Delays \subseteq Nat /\ Intervals \subseteq Nat
  /\ IdleWait \in Nat \ {0} /\ MaxTime \in Nat

VARIABLES
  now,          \* steady_clock in ms
  stage,        \* how far addTimer got for each id
  first,        \* expireTimeMs as addTimer computed it
  expire, interval, cancelled,    \* the fields of TimerEntry
  heap, timerMap,
  running, main,
  pc,           \* the timer thread
  idle,         \* which of the two waits
  nextExpire,   \* the expiry waited for
  span,         \* the duration given to wait_for
  deadline,     \* when that wait times out
  signal,       \* notified since the wait began
  toFire,
  delivered     \* messages sent to the actor, per timer

entryVars == <<stage, first, expire, interval, cancelled>>
storeVars == <<heap, timerMap>>
waitVars  == <<idle, nextExpire, span, deadline>>
vars == <<now, stage, first, expire, interval, cancelled, heap, timerMap, running, main,
          pc, idle, nextExpire, span, deadline, signal, toFire, delivered>>

Init ==
  /\ now = 0
  /\ stage = [t \in Timers |-> "free"]
  /\ first = [t \in Timers |-> 0] /\ expire = [t \in Timers |-> 0]
  /\ interval = [t \in Timers |-> 0] /\ cancelled = [t \in Timers |-> FALSE]
  /\ heap = {} /\ timerMap = {}
  /\ running = FALSE /\ main = "init"
  /\ pc = "off" /\ idle = TRUE /\ nextExpire = 0 /\ span = 0 /\ deadline = 0 /\ signal = FALSE
  /\ toFire = <<>>
  /\ delivered = [t \in Timers |-> 0]

Locked == {"holding", "enter", "block", "collect"}
LockFree == pc \notin Locked

\* heap_.top() is one of these: priority_queue breaks ties arbitrarily.
Tops == {t \in heap : \A u \in heap : expire[t] <= expire[u]}
BadDue(t) == expire[t] <= now + 1      \* mutant: fires one millisecond early
Due(t) == expire[t] <= now
TopDue == \E t \in Tops : Due(t)

Tick ==
  /\ now < MaxTime
  /\ now' = now + 1
  /\ UNCHANGED <<entryVars, storeVars, running, main, pc, waitVars, signal, toFire,
                 delivered>>

-----------------------------------------------------------------------------
(* addTimer: id and expiry, insertion, notification.  An entry still in the*)
(* making is nobody else's.                                                *)

MakeEntry(t, delay, every) ==
  /\ stage[t] = "free"
  /\ stage' = [stage EXCEPT ![t] = "made"]
  /\ first' = [first EXCEPT ![t] = now + delay]
  /\ expire' = [expire EXCEPT ![t] = now + delay]
  /\ interval' = [interval EXCEPT ![t] = every]
  /\ UNCHANGED <<now, cancelled, storeVars, running, main, pc, waitVars, signal, toFire,
                 delivered>>

SetTimeout(t) == \E delay \in Delays : MakeEntry(t, delay, 0)
SetInterval(t) == \E every \in Intervals : every > 0 /\ MakeEntry(t, every, every)

InsertEntry(t) ==
  /\ stage[t] = "made" /\ LockFree
  /\ heap' = heap \cup {t} /\ timerMap' = timerMap \cup {t}
  /\ stage' = [stage EXCEPT ![t] = "inserted"]
  /\ UNCHANGED <<now, first, expire, interval, cancelled, running, main, pc, waitVars,
                 signal, toFire, delivered>>

NotifyOne(t) ==
  /\ stage[t] = "inserted"
  /\ stage' = [stage EXCEPT ![t] = "set"]
  /\ signal' = (signal \/ pc = "wait")
  /\ UNCHANGED <<now, first, expire, interval, cancelled, storeVars, running, main, pc,
                 waitVars, toFire, delivered>>

\* The caller has the id once addTimer returned; an id that is no longer in
\* timerMap_ is ignored.
CancelTimer(t) ==
  /\ stage[t] = "set" /\ LockFree
  /\ t \in timerMap
  /\ cancelled' = [cancelled EXCEPT ![t] = TRUE]
  /\ timerMap' = timerMap \ {t}
  /\ UNCHANGED <<now, stage, first, expire, interval, heap, running, main, pc, waitVars,
                 signal, toFire, delivered>>

-----------------------------------------------------------------------------
(* timerLoop.                                                              *)

Step(from, to) == pc = from /\ pc' = to
\* The next turn of the loop: the locals of this one are gone.
NextTurn(from) ==
  Step(from, "top") /\ idle' = TRUE /\ nextExpire' = 0 /\ span' = 0 /\ deadline' = 0

LoopTop ==
  /\ Step("top", IF running THEN "holding" ELSE "done")
  /\ UNCHANGED <<now, entryVars, storeVars, running, main, waitVars, signal, toFire,
                 delivered>>

Look ==
  /\ \/ /\ heap = {}
        /\ Step("holding", "enter")
        /\ idle' = TRUE /\ span' = IdleWait /\ UNCHANGED nextExpire
     \/ /\ heap # {} /\ ~TopDue
        /\ Step("holding", "enter")
        /\ idle' = FALSE
        /\ \E t \in Tops : nextExpire' = expire[t] /\ span' = expire[t] - now
     \/ /\ heap # {} /\ TopDue
        /\ Step("holding", "collect")
        /\ UNCHANGED <<idle, nextExpire, span>>
  /\ UNCHANGED <<now, entryVars, storeVars, running, main, deadline, signal, toFire,
                 delivered>>

\* The predicate given to wait_for.
Wakeful == ~running \/ IF idle THEN heap # {} ELSE TopDue

\* wait_for evaluates it before it blocks.  Stop does not take the mutex, so its
\* notification may fall between the two steps and is then lost.
EnterWait ==
  /\ \/ Wakeful /\ NextTurn("enter")
     \/ ~Wakeful /\ Step("enter", "block") /\ UNCHANGED waitVars
  /\ UNCHANGED <<now, entryVars, storeVars, running, main, signal, toFire, delivered>>

Earliest(x, y) == IF x < y THEN x ELSE y

\* A wait that would outlast MaxTime ends with it.
BlockInWait ==
  /\ Step("block", "wait")
  /\ deadline' = Earliest(now + span, MaxTime) /\ span' = 0
  /\ UNCHANGED <<now, entryVars, storeVars, running, main, idle, nextExpire, signal,
                 toFire, delivered>>

\* Woken by a notification or spuriously, the thread looks at the predicate and
\* nothing else.
WakeUp ==
  /\ Wakeful
  /\ NextTurn("wait")
  /\ signal' = FALSE
  /\ UNCHANGED <<now, entryVars, storeVars, running, main, toFire, delivered>>

WaitAgain ==
  /\ pc = "wait" /\ signal /\ ~Wakeful
  /\ signal' = FALSE
  /\ UNCHANGED <<now, entryVars, storeVars, running, main, pc, waitVars, toFire, delivered>>

BadTimeOut ==                   \* mutant: wait instead of wait_for
  /\ now >= deadline /\ signal
  /\ NextTurn("wait")
  /\ signal' = FALSE
  /\ UNCHANGED <<now, entryVars, storeVars, running, main, toFire, delivered>>

TimeOut ==
  /\ now >= deadline
  /\ NextTurn("wait")
  /\ signal' = FALSE
  /\ UNCHANGED <<now, entryVars, storeVars, running, main, toFire, delivered>>

BadForget(t) == timerMap        \* mutant: the fired timer stays in timerMap_
Forget(t) == timerMap \ {t}     \* timerMap_.erase(entry->timerId)

BadSkipped(t) == FALSE          \* mutant: the mark is not looked at
Skipped(t) == cancelled[t]

\* One turn of the collecting loop: a cancelled entry is dropped, an interval
\* timer goes back into the heap, a one-shot timer leaves timerMap_.
Collect ==
  /\ pc = "collect"
  /\ \/ /\ ~TopDue
        /\ Step("collect", "fire")
        /\ UNCHANGED <<expire, storeVars, toFire>>
     \/ \E t \in Tops :
          /\ Due(t)
          /\ pc' = pc
          /\ IF Skipped(t)
             THEN heap' = heap \ {t} /\ UNCHANGED <<expire, timerMap, toFire>>
             ELSE /\ toFire' = Append(toFire, t)
                  /\ \/ /\ interval[t] > 0
                        /\ expire' = [expire EXCEPT ![t] = now + interval[t]]
                        /\ UNCHANGED storeVars
                     \/ /\ interval[t] = 0
                        /\ heap' = heap \ {t} /\ timerMap' = Forget(t)
                        /\ UNCHANGED expire
  /\ UNCHANGED <<now, stage, first, interval, cancelled, running, main, waitVars, signal,
                 delivered>>

\* The sends, outside the lock; running_ is read again before each.
Fire ==
  /\ \/ /\ toFire = <<>>
        /\ Step("fire", "top")
        /\ UNCHANGED toFire
     \/ /\ toFire # <<>> /\ running
        /\ Step("fire", "send")
        /\ UNCHANGED toFire
     \/ /\ toFire # <<>> /\ ~running
        /\ pc = "fire" /\ pc' = pc
        /\ toFire' = Tail(toFire)
  /\ UNCHANGED <<now, entryVars, storeVars, running, main, waitVars, signal, delivered>>

Send ==
  /\ Step("send", "fire")
  /\ delivered' = [delivered EXCEPT ![Head(toFire)] = @ + 1]
  /\ toFire' = Tail(toFire)
  /\ UNCHANGED <<now, entryVars, storeVars, running, main, waitVars, signal>>

-----------------------------------------------------------------------------
(* Start and Stop.                                                         *)

Start ==
  /\ main = "init"
  /\ running' = TRUE /\ main' = "up" /\ pc' = "top"
  /\ UNCHANGED <<now, entryVars, storeVars, waitVars, signal, toFire, delivered>>

\* running_.exchange(false): a Stop that finds it false returns at once.
StopExchange ==
  /\ main = "up"
  /\ running' = FALSE /\ main' = "exchanged"
  /\ UNCHANGED <<now, entryVars, storeVars, pc, waitVars, signal, toFire, delivered>>

StopNotify ==
  /\ main = "exchanged"
  /\ signal' = (signal \/ pc = "wait")
  /\ main' = "joining"
  /\ UNCHANGED <<now, entryVars, storeVars, running, pc, waitVars, toFire, delivered>>

BadStopJoin ==                  \* mutant: the thread is not joined
  /\ main = "joining" /\ LockFree
  /\ heap' = {} /\ timerMap' = {} /\ main' = "down"
  /\ UNCHANGED <<now, entryVars, running, pc, waitVars, signal, toFire, delivered>>

StopJoin ==
  /\ main = "joining" /\ pc = "done"
  /\ heap' = {} /\ timerMap' = {} /\ main' = "down"
  /\ UNCHANGED <<now, entryVars, running, pc, waitVars, signal, toFire, delivered>>

-----------------------------------------------------------------------------
AddStep == \E t \in Timers : InsertEntry(t) \/ NotifyOne(t)
LoopStep == LoopTop \/ Look \/ EnterWait \/ BlockInWait \/ WaitAgain \/ TimeOut
              \/ Collect \/ Fire \/ Send
StopStep == StopNotify \/ StopJoin

Next ==
  \/ Tick \/ AddStep \/ LoopStep \/ WakeUp \/ StopStep \/ Start \/ StopExchange
  \/ \E t \in Timers : SetTimeout(t) \/ SetInterval(t) \/ CancelTimer(t)

Spec == Init /\ [][Next]_vars

\* Time passes, the timer thread runs, a call that began is finished, and a
\* waiter that was notified wakes up.
Fairness ==
  /\ WF_vars(Tick) /\ WF_vars(StopStep) /\ WF_vars(LoopStep)
  /\ WF_vars(signal /\ WakeUp)
  /\ \A t \in Timers : WF_vars(InsertEntry(t) \/ NotifyOne(t))

FairSpec == Spec /\ Fairness

-----------------------------------------------------------------------------
(* Properties.                                                             *)

\* How many messages of t wait in toFire.
Places(q, t) == {i \in 1..Len(q) : q[i] = t}
Collected(t) == Cardinality(Places(toFire, t))

TypeOK ==
  /\ now \in 0..MaxTime
  /\ stage \in [Timers -> {"free", "made", "inserted", "set"}]
  /\ first \in [Timers -> Nat] /\ expire \in [Timers -> Nat]
  /\ interval \in [Timers -> Nat] /\ cancelled \in [Timers -> BOOLEAN]
  /\ heap \subseteq Timers /\ timerMap \subseteq Timers
  /\ running \in BOOLEAN /\ main \in {"init", "up", "exchanged", "joining", "down"}
  /\ pc \in {"off", "top", "wait", "fire", "send", "done"} \cup Locked
  /\ idle \in BOOLEAN /\ nextExpire \in Nat /\ span \in Nat /\ deadline \in Nat /\ signal \in BOOLEAN
  /\ toFire \in Seq(Timers) /\ delivered \in [Timers -> Nat]
  /\ pc = "send" => toFire # <<>>

\* timerMap_ and heap_ hold the same live timers: an entry of the heap that is
\* not in the map is one that was cancelled, so GetActiveTimerCount counts right
\* and no fired timer can be cancelled later.
MapMatchesHeap == timerMap = {t \in heap : ~cancelled[t]}

\* A timer is never early: a timeout is delivered once, after its delay, and the
\* k-th message of an interval timer comes at least k intervals after SetInterval.
NeverEarly ==
  \A t \in Timers :
    LET k == delivered[t] + Collected(t)
    IN /\ k > 0 => first[t] + (k - 1) * interval[t] <= now
       /\ interval[t] = 0 => k <= 1

\* Once CancelTimer has returned, at most the messages collected before it are
\* still delivered; no later expiry produces one.
CancelIsFinal ==
  [][\A t \in Timers :
       cancelled[t] => delivered'[t] + Collected(t)' <= delivered[t] + Collected(t)]_vars

\* No message leaves once Stop has returned ("phase 1 stops the timer thread and
\* keeps new timed messages out").
QuietAfterStop ==
  [][main = "down" => delivered' = delivered]_vars

\* Every timer that is set fires, unless it is cancelled or the manager stopped.
SetTimerFires ==
  \A t \in Timers :
    (stage[t] = "set" /\ running /\ expire[t] <= MaxTime)
      ~> (delivered[t] > 0 \/ cancelled[t] \/ ~running)

\* Stop returns although its notification can be lost: the wait it missed times
\* out at the latest when the nearest timer expires.
StopReturns == (main = "exchanged") ~> (main = "down")

\* While the thread sleeps to an expiry with no notification pending, that expiry
\* is the nearest one: what addTimer's notify_one is said to see to.
SleepsToNearest ==
  pc = "wait" /\ ~idle /\ ~signal =>
    \A t \in heap : stage[t] = "set" => nextExpire <= expire[t]
=============================================================================
