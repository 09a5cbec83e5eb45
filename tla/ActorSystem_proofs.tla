------------------------- MODULE ActorSystem_proofs --------------------------
(***************************************************************************)
(* Proofs about the two parts of ActorSystem besides its scheduler.        *)
(*                                                                         *)
(* Timer, for any number of timers, any delays and intervals and any length*)
(* of time: the map and the heap agree, no timer is early, cancelling is   *)
(* final, and nothing is sent once Stop has returned.                      *)
(*                                                                         *)
(* ActorRegistry, for any number of actors, names and threads: the two name*)
(* maps agree, and a link is answered by ActorDown exactly when it was in  *)
(* place as its target began to unregister.                                *)
(***************************************************************************)
EXTENDS Timer, ActorRegistry, FiniteSetTheorems, TLAPS

USE DEF Due, Forget, Skipped, LockFree, Step   \* names for the code's small tests

-----------------------------------------------------------------------------
(* Counting the messages of a timer in toFire.                             *)

\* A timer has finitely many places in a sequence.
LEMMA PlacesFinite ==
  ASSUME NEW q \in Seq(Timers), NEW t
  PROVE  IsFiniteSet(Places(q, t)) /\ Cardinality(Places(q, t)) \in Nat
<1>1. IsFiniteSet(1..Len(q))
  BY FS_Interval
<1>2. Places(q, t) \in SUBSET (1..Len(q))
  BY DEF Places
<1> QED BY <1>1, <1>2, FS_Subset, FS_CardinalityType

\* Appending a timer adds one to its own count and nothing to any other.
LEMMA PlacesAppend ==
  ASSUME NEW q \in Seq(Timers), NEW u \in Timers, NEW t
  PROVE  Cardinality(Places(Append(q, u), t)) =
           Cardinality(Places(q, t)) + (IF u = t THEN 1 ELSE 0)
<1>1. CASE u = t
  <2>1. Places(Append(q, u), t) = Places(q, t) \cup {Len(q) + 1}
    BY <1>1 DEF Places
  <2>2. Len(q) + 1 \notin Places(q, t)
    BY DEF Places
  <2> QED BY <1>1, <2>1, <2>2, PlacesFinite, FS_AddElement
<1>2. CASE u # t
  <2>1. Places(Append(q, u), t) = Places(q, t)
    BY <1>2 DEF Places
  <2> QED BY <1>2, <2>1, PlacesFinite
<1> QED BY <1>1, <1>2

\* Removing the head takes one from its own count and nothing from any other.
LEMMA PlacesTail ==
  ASSUME NEW q \in Seq(Timers), q # <<>>, NEW t
  PROVE  Cardinality(Places(q, t)) =
           Cardinality(Places(Tail(q), t)) + (IF Head(q) = t THEN 1 ELSE 0)
<1> DEFINE P == Places(Tail(q), t)
           R == Places(q, t) \ {1}
           f == [i \in P |-> i + 1]
<1>1. Tail(q) \in Seq(Timers) /\ IsFiniteSet(P)
  <2>1. Tail(q) \in Seq(Timers)
    OBVIOUS
  <2> QED BY <2>1, PlacesFinite
<1>2. f \in [P -> R]
  BY DEF Places
<1>3. \A i, j \in P : f[i] = f[j] => i = j
  BY DEF Places
<1>4. \A r \in R : \E i \in P : f[i] = r
  <2> SUFFICES ASSUME NEW r \in R PROVE r - 1 \in P /\ f[r - 1] = r
    OBVIOUS
  <2> QED BY DEF Places
<1>5. f \in Bijection(P, R)
  BY <1>2, <1>3, <1>4 DEF Bijection, Injection, Surjection, IsInjective
<1>6. ExistsBijection(P, R)
  BY <1>5 DEF ExistsBijection
<1>7. Cardinality(R) = Cardinality(P)
  BY <1>1, <1>6, FS_Bijection
<1>8. IsFiniteSet(Places(q, t)) /\ Cardinality(Places(q, t)) \in Nat
  BY PlacesFinite
<1>9. 1 \in Places(q, t) <=> Head(q) = t
  BY DEF Places
<1>10. Cardinality(R) = IF 1 \in Places(q, t) THEN Cardinality(Places(q, t)) - 1
                        ELSE Cardinality(Places(q, t))
  BY <1>8, FS_RemoveElement
<1> QED BY <1>7, <1>8, <1>9, <1>10

-----------------------------------------------------------------------------
(* Type correctness.                                                       *)

\* The initial state is well typed.
LEMMA TypeInit == Init => TypeOK
<1> SUFFICES ASSUME Init PROVE TypeOK
  OBVIOUS
<1>1. now \in 0..MaxTime /\ toFire \in Seq(Timers) /\ pc = "off"
  BY TimerAssumption DEF Init
<1>2. /\ stage \in [Timers -> {"free", "made", "inserted", "set"}]
      /\ first \in [Timers -> Nat] /\ expire \in [Timers -> Nat]
      /\ interval \in [Timers -> Nat] /\ delivered \in [Timers -> Nat]
      /\ cancelled \in [Timers -> BOOLEAN]
  BY DEF Init
<1>3. /\ running \in BOOLEAN /\ idle \in BOOLEAN /\ signal \in BOOLEAN
      /\ main = "init" /\ nextExpire = 0 /\ span = 0 /\ deadline = 0
      /\ heap = {} /\ timerMap = {}
  BY DEF Init
<1> QED BY <1>1, <1>2, <1>3 DEF TypeOK

\* addTimer, CancelTimer, Start, Stop and the clock keep the types.
LEMMA TypeCalls ==
  ASSUME TypeOK,
         \/ Tick \/ Start \/ StopExchange \/ StopStep \/ AddStep \/ UNCHANGED vars
         \/ \E t \in Timers : SetTimeout(t) \/ SetInterval(t) \/ CancelTimer(t)
  PROVE  TypeOK'
<1> USE TimerAssumption DEF TypeOK, entryVars, storeVars, waitVars, Locked
<1>1. CASE Tick
  BY <1>1 DEF Tick
<1>5. CASE Start \/ StopExchange
  BY <1>5 DEF Start, StopExchange
<1>6. CASE StopStep
  <2>1. signal' \in BOOLEAN
    BY <1>6 DEF StopStep, StopNotify, StopJoin
  <2> QED BY <1>6, <2>1 DEF StopStep, StopNotify, StopJoin
<1>2. ASSUME NEW t \in Timers, InsertEntry(t) \/ NotifyOne(t) \/ CancelTimer(t) PROVE TypeOK'
  <2>1. /\ stage' \in [Timers -> {"free", "made", "inserted", "set"}]
        /\ cancelled' \in [Timers -> BOOLEAN]
        /\ heap' \subseteq Timers /\ timerMap' \subseteq Timers /\ signal' \in BOOLEAN
    <3>1. CASE InsertEntry(t)
      BY <3>1 DEF InsertEntry
    <3>2. CASE NotifyOne(t)
      BY <3>2 DEF NotifyOne
    <3>3. CASE CancelTimer(t)
      BY <3>3 DEF CancelTimer
    <3> QED BY <1>2, <3>1, <3>2, <3>3
  <2>2. UNCHANGED <<now, first, expire, interval, running, main, pc, waitVars, toFire, delivered>>
    BY <1>2 DEF InsertEntry, NotifyOne, CancelTimer
  <2> QED BY <2>1, <2>2
<1>3. ASSUME NEW t \in Timers, NEW delay \in Nat, NEW every \in Nat, MakeEntry(t, delay, every)
      PROVE  TypeOK'
  <2>1. now + delay \in Nat
    OBVIOUS
  <2>2. /\ first' \in [Timers -> Nat] /\ expire' \in [Timers -> Nat]
        /\ interval' \in [Timers -> Nat]
        /\ stage' \in [Timers -> {"free", "made", "inserted", "set"}]
    <3>1. /\ first' = [first EXCEPT ![t] = now + delay]
          /\ expire' = [expire EXCEPT ![t] = now + delay]
          /\ interval' = [interval EXCEPT ![t] = every]
          /\ stage' = [stage EXCEPT ![t] = "made"]
      BY <1>3 DEF MakeEntry
    <3> QED BY <2>1, <3>1
  <2>3. UNCHANGED <<now, cancelled, storeVars, running, main, pc, waitVars, signal, toFire,
                    delivered>>
    BY <1>3 DEF MakeEntry
  <2> QED BY <2>2, <2>3
<1>4. CASE UNCHANGED vars
  BY <1>4 DEF vars
<1> QED BY <1>1, <1>2, <1>3, <1>4, <1>5, <1>6 DEF AddStep, SetTimeout, SetInterval

\* Every step of timerLoop keeps the types.
LEMMA TypeLoop ==
  ASSUME TypeOK, LoopStep \/ WakeUp
  PROVE  TypeOK'
<1> USE TimerAssumption DEF TypeOK, entryVars, storeVars, waitVars, Locked
<1>1. CASE LoopTop \/ WaitAgain
  BY <1>1 DEF LoopTop, WaitAgain
<1>7. CASE EnterWait \/ WakeUp \/ TimeOut
  <2>1. idle' \in BOOLEAN /\ signal' \in BOOLEAN
    BY <1>7 DEF EnterWait, WakeUp, TimeOut, NextTurn
  <2>2. nextExpire' \in Nat /\ span' \in Nat /\ deadline' \in Nat
    BY <1>7 DEF EnterWait, WakeUp, TimeOut, NextTurn
  <2>3. pc' \in {"top", "block"}
    BY <1>7 DEF EnterWait, WakeUp, TimeOut, NextTurn
  <2> QED BY <1>7, <2>1, <2>2, <2>3 DEF EnterWait, WakeUp, TimeOut
<1>2. CASE BlockInWait
  BY <1>2 DEF BlockInWait, Earliest
<1>3. CASE Look
  <2>1. \A t \in Tops : ~Due(t) => expire[t] \in Nat /\ expire[t] - now \in Nat
    BY DEF Tops
  <2>2. nextExpire' \in Nat /\ span' \in Nat /\ idle' \in BOOLEAN
    BY <1>3, <2>1 DEF Look, TopDue
  <2> QED BY <1>3, <2>2 DEF Look
<1>4. CASE Collect
  <2>1. \A t \in Tops : t \in Timers /\ Append(toFire, t) \in Seq(Timers)
    BY DEF Tops
  <2>2. toFire' \in Seq(Timers)
    BY <1>4, <2>1 DEF Collect
  <2>5. \A t \in Tops : t \in Timers /\ now + interval[t] \in Nat
    BY SMTT(30) DEF Tops
  <2>4. expire' \in [Timers -> Nat]
    BY ZenonT(40), <1>4, <2>5 DEF Collect
  <2>3. heap' \subseteq Timers /\ timerMap' \subseteq Timers /\ pc' \in {"collect", "fire"}
    BY <1>4 DEF Collect
  <2> QED BY <1>4, <2>2, <2>3, <2>4 DEF Collect
<1>5. CASE Fire
  <2>1. toFire # <<>> => Tail(toFire) \in Seq(Timers)
    OBVIOUS
  <2>2. toFire' \in Seq(Timers) /\ (pc' = "send" => toFire' # <<>>)
    BY <1>5, <2>1 DEF Fire
  <2> QED BY <1>5, <2>2 DEF Fire
<1>6. CASE Send
  <2>1. Tail(toFire) \in Seq(Timers) /\ Head(toFire) \in Timers
    BY <1>6 DEF Send
  <2>2. delivered' \in [Timers -> Nat]
    BY SMTT(30), <1>6, <2>1 DEF Send
  <2> QED BY <1>6, <2>1, <2>2 DEF Send
<1> QED BY <1>1, <1>2, <1>3, <1>4, <1>5, <1>6, <1>7 DEF LoopStep

\* Every step keeps the types.
LEMMA TypeNext == TypeOK /\ [Next]_vars => TypeOK'
  BY TypeCalls, TypeLoop DEF Next

\* Type correctness of the timer manager.
THEOREM TypeCorrect == Spec => []TypeOK
  BY TypeInit, TypeNext, PTL DEF Spec

-----------------------------------------------------------------------------
(* The map and the heap.                                                   *)

\* Only a timer that addTimer has returned can be cancelled, and only one that it
\* has inserted is in the heap.
StageInv ==
  \A t \in Timers :
    /\ cancelled[t] => stage[t] = "set"
    /\ t \in heap => stage[t] \in {"inserted", "set"}

StoreInv == TypeOK /\ StageInv /\ MapMatchesHeap

\* Every step keeps the map and the heap in agreement.
LEMMA StoreNext ==
  ASSUME StoreInv, [Next]_vars
  PROVE  StoreInv'
<1> USE DEF StoreInv, StageInv, MapMatchesHeap
<1>1. TypeOK'
  BY TypeNext
<1>2. StageInv' /\ MapMatchesHeap'
  <2> USE DEF TypeOK
  <2>1. ASSUME NEW t \in Timers, InsertEntry(t) \/ NotifyOne(t) \/ CancelTimer(t)
        PROVE  StageInv' /\ MapMatchesHeap'
    BY ZenonT(40), <2>1 DEF InsertEntry, NotifyOne, CancelTimer, storeVars
  <2>2. ASSUME NEW t \in Timers, NEW delay, NEW every, MakeEntry(t, delay, every)
        PROVE  StageInv' /\ MapMatchesHeap'
    BY <2>2 DEF MakeEntry, storeVars
  <2>3. CASE Collect
    BY <2>3 DEF Collect, storeVars, Tops
  <2>4. CASE StopJoin
    BY <2>4 DEF StopJoin, entryVars
  <2>5. CASE UNCHANGED <<entryVars, storeVars>>
    BY <2>5 DEF entryVars, storeVars
  <2> QED BY <2>1, <2>2, <2>3, <2>4, <2>5
          DEF Next, AddStep, LoopStep, StopStep, SetTimeout, SetInterval, Tick, LoopTop, Look,
              EnterWait, BlockInWait, WaitAgain, TimeOut, WakeUp, Fire, Send, StopNotify, Start,
              StopExchange, vars, entryVars, storeVars
<1> QED BY <1>1, <1>2

\* The invariant of the map and the heap holds in every reachable state.
THEOREM StoreCorrect == Spec => []StoreInv
<1>1. Init => StoreInv
  BY TypeInit DEF Init, StoreInv, StageInv, MapMatchesHeap
<1> QED BY <1>1, StoreNext, PTL DEF Spec

\* For any number of timers, timerMap_ holds exactly the uncancelled entries of heap_.
THEOREM MapCorrect == Spec => []MapMatchesHeap
  BY StoreCorrect, PTL DEF StoreInv

-----------------------------------------------------------------------------
(* Cancelling.                                                             *)

\* The messages of t sent or collected so far.
Made(t) == delivered[t] + Collected(t)

\* timerLoop takes t out of the heap's top to fire it.
Takes(t) == t \in Tops /\ Due(t) /\ ~cancelled[t] /\ toFire' = Append(toFire, t)

\* Only a collecting step that takes t makes a message of t.
LEMMA MadeStep ==
  ASSUME TypeOK, [Next]_vars, NEW t \in Timers
  PROVE  /\ Made(t) \in Nat /\ Made(t)' \in Nat
         /\ Made(t)' <= Made(t) \/ (Collect /\ Takes(t) /\ Made(t)' = Made(t) + 1)
<1> USE DEF TypeOK, Collected, Made
<1>1. delivered[t] \in Nat /\ Cardinality(Places(toFire, t)) \in Nat
  BY PlacesFinite
<1>2. CASE Collect /\ toFire' # toFire
  <2>1. PICK u \in Tops : u \in Timers /\ Due(u) /\ ~cancelled[u] /\ toFire' = Append(toFire, u)
    BY <1>2 DEF Collect, Tops
  <2>2. Cardinality(Places(Append(toFire, u), t)) =
          Cardinality(Places(toFire, t)) + (IF u = t THEN 1 ELSE 0)
    BY <2>1, PlacesAppend
  <2>3. delivered' = delivered
    BY <1>2 DEF Collect
  <2>4. Made(t)' = Made(t) + (IF u = t THEN 1 ELSE 0)
    BY <1>1, <2>1, <2>2, <2>3
  <2>5. u = t => Takes(t)
    BY <2>1 DEF Takes
  <2> QED BY SMTT(30), <1>1, <1>2, <2>4, <2>5
<1>3. CASE Fire /\ toFire' # toFire
  <2>1. toFire # <<>> /\ toFire' = Tail(toFire) /\ delivered' = delivered
    BY <1>3 DEF Fire
  <2>2. Tail(toFire) \in Seq(Timers)
    BY <2>1
  <2>3. Cardinality(Places(Tail(toFire), t)) \in Nat
    BY <2>2, PlacesFinite
  <2>4. Cardinality(Places(toFire, t)) =
          Cardinality(Places(Tail(toFire), t)) + (IF Head(toFire) = t THEN 1 ELSE 0)
    BY <2>1, PlacesTail
  <2>5. Cardinality(Places(Tail(toFire), t)) <= Cardinality(Places(toFire, t))
    BY <1>1, <2>3, <2>4
  <2>6. delivered'[t] = delivered[t] /\ toFire' = Tail(toFire)
    BY <2>1
  <2> QED BY <1>1, <2>3, <2>5, <2>6
<1>4. CASE Send
  <2>1. /\ toFire # <<>> /\ Head(toFire) \in Timers
        /\ Tail(toFire) \in Seq(Timers)
    BY <1>4 DEF Send
  <2>2. Cardinality(Places(Tail(toFire), t)) \in Nat
    BY <2>1, PlacesFinite
  <2>3. Cardinality(Places(toFire, t)) =
          Cardinality(Places(Tail(toFire), t)) + (IF Head(toFire) = t THEN 1 ELSE 0)
    BY <2>1, PlacesTail
  <2>4. delivered'[t] = delivered[t] + (IF Head(toFire) = t THEN 1 ELSE 0)
    BY SMTT(30), <1>1, <1>4, <2>1 DEF Send
  <2>5. toFire' = Tail(toFire)
    BY <1>4 DEF Send
  <2> QED BY SMTT(30), <1>1, <2>2, <2>3, <2>4, <2>5
<1>5. CASE UNCHANGED <<toFire, delivered>>
  BY SMTT(30), <1>1, <1>5
<1>6. (Collect \/ Fire) => delivered' = delivered
  BY DEF Collect, Fire
<1> QED BY <1>2, <1>3, <1>4, <1>5, <1>6
        DEF Next, AddStep, LoopStep, StopStep, SetTimeout, SetInterval, MakeEntry, InsertEntry,
            NotifyOne, CancelTimer, Tick, LoopTop, Look, EnterWait, BlockInWait, WaitAgain,
            TimeOut, WakeUp, StopNotify, StopJoin, Start, StopExchange, vars

\* For any number of timers, CancelTimer is final up to what was collected before it.
THEOREM CancelCorrect == Spec => CancelIsFinal
<1>1. ASSUME TypeOK, [Next]_vars
      PROVE  [\A t \in Timers :
                cancelled[t] => delivered'[t] + Collected(t)' <= delivered[t] + Collected(t)]_vars
  BY <1>1, MadeStep DEF Made, Takes
<1> QED BY <1>1, TypeCorrect, PTL DEF Spec, CancelIsFinal

-----------------------------------------------------------------------------
(* Expiry.                                                                 *)

\* Products with a natural number grow with the other factor.
LEMMA Times ==
  ASSUME NEW x \in Nat, NEW y \in Nat, NEW i \in Nat
  PROVE  /\ x * i \in Nat /\ (x + 1) * i = x * i + i
         /\ x <= y => x * i <= y * i
  OBVIOUS

\* A timer that can still fire does so no earlier than its messages made so far
\* allow, and a one-shot timer that can still fire has made none.
ExpiryInv ==
  \A t \in Timers :
    /\ stage[t] = "free" => Made(t) = 0
    /\ stage[t] = "made" \/ t \in heap =>
         /\ first[t] + Made(t) * interval[t] <= expire[t]
         /\ interval[t] = 0 => Made(t) = 0

EarlyInv == StoreInv /\ ExpiryInv /\ NeverEarly

\* Every step keeps the expiries far enough away.
LEMMA EarlyNext ==
  ASSUME EarlyInv, [Next]_vars
  PROVE  EarlyInv'
<1> USE DEF EarlyInv, StoreInv
<1>1. StoreInv'
  BY StoreNext
<1>2. ASSUME NEW t \in Timers
      PROVE  /\ stage'[t] = "free" => Made(t)' = 0
             /\ stage'[t] = "made" \/ t \in heap' =>
                  /\ first'[t] + Made(t)' * interval'[t] <= expire'[t]
                  /\ interval'[t] = 0 => Made(t)' = 0
             /\ Made(t)' > 0 => first'[t] + (Made(t)' - 1) * interval'[t] <= now'
             /\ interval'[t] = 0 => Made(t)' <= 1
  <2> DEFINE k == Made(t)
             l == Made(t)'
  <2>1. /\ k \in Nat /\ l \in Nat
        /\ l <= k \/ (Collect /\ Takes(t) /\ l = k + 1)
    BY MadeStep
  <2>2. /\ now \in Nat /\ now' \in Nat /\ now <= now'
        /\ first[t] \in Nat /\ interval[t] \in Nat /\ expire[t] \in Nat
    <3>1. now' = now \/ now' = now + 1
      BY DEF Next, AddStep, LoopStep, StopStep, SetTimeout, SetInterval, MakeEntry, InsertEntry,
         NotifyOne, CancelTimer, Tick, LoopTop, Look, EnterWait, BlockInWait, WaitAgain, Collect,
         Fire, Send, TimeOut, WakeUp, StopNotify, StopJoin, Start, StopExchange, vars, entryVars
    <3> QED BY <3>1 DEF TypeOK
  <2>3. /\ stage[t] = "free" => k = 0
        /\ stage[t] = "made" \/ t \in heap =>
             first[t] + k * interval[t] <= expire[t] /\ (interval[t] = 0 => k = 0)
        /\ k > 0 => first[t] + (k - 1) * interval[t] <= now
        /\ interval[t] = 0 => k <= 1
    BY DEF ExpiryInv, NeverEarly, Made
  <2> HIDE DEF k, l
  <2>4. CASE Collect /\ Takes(t) /\ l = k + 1
    <3>1. t \in heap /\ expire[t] <= now
      BY <2>4 DEF Takes, Tops
    <3>2. /\ now' = now /\ first' = first /\ interval' = interval /\ stage' = stage
          /\ stage[t] \in {"inserted", "set"}
      BY <2>4, <3>1 DEF Collect, StageInv
    <3>3. first[t] + k * interval[t] <= now
      BY <2>1, <2>2, <2>3, <3>1, Times
    <3>4. t \in heap' => interval[t] > 0 /\ expire'[t] = now + interval[t]
      BY <2>2, <2>4 DEF Collect, Takes, TypeOK
    <3>5. k * interval[t] \in Nat /\ (k + 1) * interval[t] = k * interval[t] + interval[t]
      BY <2>1, <2>2, Times
    <3>6. interval[t] = 0 => l = 1
      BY <2>1, <2>3, <2>4, <3>1
    <3>7. (l - 1) * interval[t] = k * interval[t]
      BY <2>1, <2>4
    <3> QED BY <2>1, <2>2, <2>4, <3>2, <3>3, <3>4, <3>5, <3>6, <3>7 DEF l
  <2>5. CASE l <= k /\ \E delay \in Nat, every \in Nat : MakeEntry(t, delay, every)
    <3>1. stage[t] = "free" /\ stage'[t] = "made" /\ first'[t] = expire'[t]
      BY <2>5 DEF MakeEntry, TypeOK
    <3>2. l = 0 /\ first'[t] \in Nat /\ interval'[t] \in Nat
      BY <1>1, <2>1, <2>3, <2>5, <3>1 DEF TypeOK
    <3>3. l * interval'[t] = 0
      BY <3>2
    <3> QED BY <3>1, <3>2, <3>3 DEF l
  <2>6. CASE l <= k /\ ~\E delay \in Nat, every \in Nat : MakeEntry(t, delay, every)
    <3>1. /\ first'[t] = first[t] /\ interval'[t] = interval[t]
          /\ stage'[t] = "free" => stage[t] = "free"
          /\ stage'[t] = "made" \/ t \in heap' => stage[t] = "made" \/ t \in heap
          /\ expire[t] <= expire'[t]
      <4>1. CASE Collect
        <5>1. expire' = expire \/ \E u \in Timers : expire[u] <= now
                                     /\ expire' = [expire EXCEPT ![u] = now + interval[u]]
          BY <4>1 DEF Collect, TypeOK, Tops
        <5>2. expire \in [Timers -> Nat] /\ interval \in [Timers -> Nat]
          BY DEF TypeOK
        <5>3. expire[t] <= expire'[t]
          BY <2>2, <5>1, <5>2
        <5>4. stage' = stage /\ first' = first /\ interval' = interval
          BY <4>1 DEF Collect
        <5>5. heap' \subseteq heap
          BY <4>1 DEF Collect, storeVars
        <5> QED BY <5>3, <5>4, <5>5
      <4>2. ASSUME NEW u \in Timers, NEW delay \in Nat, NEW every \in Nat, u # t,
                   MakeEntry(u, delay, every)
            PROVE  /\ first'[t] = first[t] /\ interval'[t] = interval[t] /\ stage'[t] = stage[t]
                   /\ heap' = heap /\ expire'[t] = expire[t]
        BY <4>2 DEF MakeEntry, TypeOK, storeVars
      <4>3. ASSUME NEW u \in Timers, InsertEntry(u) \/ NotifyOne(u) \/ CancelTimer(u)
            PROVE  /\ first' = first /\ interval' = interval /\ expire' = expire
                   /\ stage'[t] = "free" => stage[t] = "free"
                   /\ stage'[t] = "made" \/ t \in heap' => stage[t] = "made" \/ t \in heap
        BY <4>3 DEF InsertEntry, NotifyOne, CancelTimer, storeVars, TypeOK
      <4>4. CASE StopJoin
        BY <2>2, <4>4 DEF StopJoin, entryVars
      <4>5. CASE UNCHANGED <<entryVars, storeVars>>
        BY <2>2, <4>5 DEF entryVars, storeVars
      <4> QED BY <2>2, <2>6, <4>1, <4>2, <4>3, <4>4, <4>5, TimerAssumption
              DEF Next, AddStep, LoopStep, StopStep, SetTimeout, SetInterval, Tick, LoopTop,
                  Look, EnterWait, BlockInWait, WaitAgain, TimeOut, WakeUp, Fire, Send,
                  StopNotify, Start, StopExchange, vars, entryVars, storeVars
    <3>2. l * interval[t] \in Nat /\ k * interval[t] \in Nat
          /\ l * interval[t] <= k * interval[t]
      BY <2>1, <2>2, <2>6, Times
    <3>3. l > 0 => /\ (l - 1) * interval[t] \in Nat /\ (k - 1) * interval[t] \in Nat
                   /\ (l - 1) * interval[t] <= (k - 1) * interval[t]
      <4> SUFFICES ASSUME l > 0
                   PROVE  /\ (l - 1) * interval[t] \in Nat /\ (k - 1) * interval[t] \in Nat
                          /\ (l - 1) * interval[t] <= (k - 1) * interval[t]
        OBVIOUS
      <4>1. l - 1 \in Nat /\ k - 1 \in Nat /\ l - 1 <= k - 1
        BY <2>1, <2>6
      <4> QED BY <2>2, <4>1, Times
    <3>4. expire'[t] \in Nat
      BY <1>1 DEF TypeOK
    <3>5. stage'[t] = "made" \/ t \in heap' =>
            first[t] + l * interval[t] <= expire'[t] /\ (interval[t] = 0 => l = 0)
      BY <2>1, <2>2, <2>3, <2>6, <3>1, <3>2, <3>4
    <3>6. l > 0 => first[t] + (l - 1) * interval[t] <= now'
      BY <2>1, <2>2, <2>3, <2>6, <3>3
    <3>7. (stage'[t] = "free" => l = 0) /\ (interval[t] = 0 => l <= 1)
      BY <2>1, <2>3, <2>6, <3>1
    <3> QED BY <3>1, <3>5, <3>6, <3>7 DEF l
  <2> QED BY <2>1, <2>4, <2>5, <2>6
<1> QED BY <1>1, <1>2 DEF ExpiryInv, NeverEarly, Made

\* For any timers, delays, intervals and length of time, no message of a timer is
\* early and a one-shot timer sends at most one.
THEOREM NeverEarlyCorrect == Spec => []NeverEarly
<1>1. ASSUME Init PROVE EarlyInv
  <2>1. StoreInv
    BY <1>1, TypeInit DEF Init, StoreInv, StageInv, MapMatchesHeap
  <2>2. \A t \in Timers : Made(t) = 0
    <3>1. \A t : Places(<<>>, t) = {}
      BY DEF Places
    <3> QED BY <1>1, <3>1, FS_EmptySet DEF Init, Made, Collected
  <2> QED BY <1>1, <2>1, <2>2 DEF Init, EarlyInv, ExpiryInv, NeverEarly, Made
<1> QED BY <1>1, EarlyNext, PTL DEF Spec, EarlyInv

-----------------------------------------------------------------------------
(* Stopping.                                                               *)

\* The timer thread has not begun before Start, and has ended once Stop joined it.
JoinInv == (main = "init" => pc = "off") /\ (main = "down" => pc = "done")

\* For any number of timers, nothing is sent once Stop has returned.
THEOREM QuietCorrect == Spec => QuietAfterStop
<1>1. Init => JoinInv
  BY DEF Init, JoinInv
<1>2. ASSUME JoinInv, [Next]_vars PROVE JoinInv'
  BY <1>2 DEF JoinInv, Next, AddStep, LoopStep, StopStep, SetTimeout, SetInterval, MakeEntry,
     InsertEntry, NotifyOne, CancelTimer, Tick, LoopTop, Look, EnterWait, BlockInWait,
     WaitAgain, TimeOut, WakeUp, Collect, Fire, Send, NextTurn, StopNotify, StopJoin, Start,
     StopExchange, vars
<1>3. ASSUME JoinInv, [Next]_vars PROVE [main = "down" => delivered' = delivered]_vars
  BY <1>3 DEF JoinInv, Next, AddStep, LoopStep, StopStep, SetTimeout, SetInterval, MakeEntry,
     InsertEntry, NotifyOne, CancelTimer, Tick, LoopTop, Look, EnterWait, BlockInWait,
     WaitAgain, TimeOut, WakeUp, Collect, Fire, Send, StopNotify, StopJoin, Start,
     StopExchange, vars
<1> QED BY <1>1, <1>2, <1>3, PTL DEF Spec, QuietAfterStop

-----------------------------------------------------------------------------
(* ActorRegistry.                                                          *)

USE DEF Released, Unlinked, Without, Free, Goto   \* names for the code's small updates

\* One step of thread p inside an operation it has begun.
Continue(p) ==
  LinkInsert(p) \/ NotifyWatcher(p) \/ ForgetName(p) \/ ForgetLinks(p) \/ EraseActor(p)

-----------------------------------------------------------------------------
(* Type correctness.                                                       *)

OpType == [at : {"idle", "link", "notify", "names", "links", "erase"},
           actor : Actors \cup {NoActor}, watchers : SUBSET Actors]

\* The initial state is well typed.
LEMMA RegistryTypeInit == RegistryInit => RegistryTypeOK
  BY RegistryAssumption DEF RegistryInit, RegistryTypeOK, Idle

\* Steps inside LinkActor and UnregisterActor keep the types.
LEMMA TypeContinue ==
  ASSUME RegistryTypeOK, NEW p \in Threads, Continue(p)
  PROVE  RegistryTypeOK'
<1> USE RegistryAssumption DEF nameVars, ghosts
<1>1. CASE LinkInsert(p)
  BY <1>1 DEF LinkInsert, RegistryTypeOK, Idle
<1>2. CASE NotifyWatcher(p)
  <2>1. /\ op' \in [Threads -> OpType] /\ \A q \in Threads : op'[q].at # "idle" => op'[q].actor \in Actors
    BY <1>2 DEF NotifyWatcher, RegistryTypeOK, OpType
  <2>2. downs' \subseteq Actors \X Actors
    BY <1>2 DEF NotifyWatcher, RegistryTypeOK
  <2> QED BY <1>2, <2>1, <2>2 DEF NotifyWatcher, RegistryTypeOK, OpType
<1>3. CASE ForgetName(p)
  <2>1. /\ op' \in [Threads -> OpType] /\ \A q \in Threads : op'[q].at # "idle" => op'[q].actor \in Actors
    BY <1>3 DEF ForgetName, RegistryTypeOK, OpType
  <2>2. /\ nameToActor' \in [Names -> Actors \cup {NoActor}]
        /\ actorToName' \in [Actors -> Names \cup {NoName}]
    BY <1>3 DEF ForgetName, RegistryTypeOK
  <2> QED BY <1>3, <2>1, <2>2 DEF ForgetName, RegistryTypeOK, OpType
<1>4. CASE ForgetLinks(p)
  <2>1. /\ op' \in [Threads -> OpType] /\ \A q \in Threads : op'[q].at # "idle" => op'[q].actor \in Actors
    BY <1>4 DEF ForgetLinks, RegistryTypeOK, OpType
  <2> QED BY <1>4, <2>1 DEF ForgetLinks, RegistryTypeOK, OpType
<1>5. CASE EraseActor(p)
  BY <1>5 DEF EraseActor, RegistryTypeOK, Idle
<1> QED BY <1>1, <1>2, <1>3, <1>4, <1>5 DEF Continue

\* The operations on names keep the types.
LEMMA TypeNames ==
  ASSUME RegistryTypeOK, NEW p \in Threads, NEW n \in Names,
         UnregisterName(p, n) \/ \E a \in Actors : RegisterName(p, n, a)
  PROVE  RegistryTypeOK'
<1>1. Released(n) \in [Actors -> Names \cup {NoName}]
  BY DEF RegistryTypeOK
<1>2. \A a \in Actors : [Released(n) EXCEPT ![a] = n] \in [Actors -> Names \cup {NoName}]
  BY <1>1
<1>3. /\ nameToActor' \in [Names -> Actors \cup {NoActor}]
      /\ actorToName' \in [Actors -> Names \cup {NoName}]
  <2> HIDE DEF Released
  <2> QED BY <1>1, <1>2 DEF UnregisterName, RegisterName, RegistryTypeOK
<1> QED BY <1>3 DEF UnregisterName, RegisterName, RegistryTypeOK, ghosts

\* The other operations, and Stop, keep the types.
LEMMA TypeOthers ==
  ASSUME RegistryTypeOK,
         \/ StopClearNames \/ StopClearLinks \/ UNCHANGED registryVars
         \/ \E p \in Threads, a \in Actors :
              \/ RegisterActor(p, a) \/ TakeWatchers(p, a)
              \/ \E b \in Actors : LinkCheck(p, a, b) \/ UnlinkActor(p, a, b)
  PROVE  RegistryTypeOK'
<1> USE DEF RegistryTypeOK, nameVars, ghosts
<1>1. CASE StopClearNames \/ StopClearLinks
  BY <1>1 DEF StopClearNames, StopClearLinks
<1>2. ASSUME NEW p \in Threads, NEW a \in Actors, RegisterActor(p, a) \/ TakeWatchers(p, a)
      PROVE  RegistryTypeOK'
  BY SMTT(30), <1>2 DEF RegisterActor, TakeWatchers
<1>3. ASSUME NEW p \in Threads, NEW a \in Actors, NEW b \in Actors,
             LinkCheck(p, a, b) \/ UnlinkActor(p, a, b)
      PROVE  RegistryTypeOK'
  BY <1>3 DEF LinkCheck, UnlinkActor
<1>4. CASE UNCHANGED registryVars
  BY <1>4 DEF registryVars
<1> QED BY <1>1, <1>2, <1>3, <1>4

\* Every step keeps the types.
LEMMA RegistryTypeNext == RegistryTypeOK /\ [RegistryNext]_registryVars => RegistryTypeOK'
  BY TypeContinue, TypeNames, TypeOthers DEF RegistryNext, Continue

\* Type correctness of the registry.
THEOREM RegistryTypeCorrect == RegistrySpec => []RegistryTypeOK
  BY RegistryTypeInit, RegistryTypeNext, PTL DEF RegistrySpec

-----------------------------------------------------------------------------
(* Names.                                                                  *)

\* Every step keeps the reverse entries confirmed.
LEMMA NamesNext ==
  ASSUME RegistryTypeOK, ReverseNames, [RegistryNext]_registryVars
  PROVE  ReverseNames'
<1> USE DEF RegistryTypeOK, ReverseNames
<1>1. ASSUME NEW p \in Threads, NEW n \in Names, NEW a \in Actors, RegisterName(p, n, a)
      PROVE  ReverseNames'
  <2>1. \A b \in Actors : b # a /\ actorToName'[b] # NoName
          => actorToName'[b] = actorToName[b] /\ actorToName[b] # n
    <3>1. /\ Released(n) \in [Actors -> Names \cup {NoName}]
          /\ \A b \in Actors : Released(n)[b] # NoName
               => Released(n)[b] = actorToName[b] /\ actorToName[b] # n
      BY RegistryAssumption
    <3> HIDE DEF Released
    <3> QED BY <1>1, <3>1 DEF RegisterName
  <2>2. actorToName'[a] = n /\ nameToActor'[n] = a
    BY <1>1 DEF RegisterName
  <2>3. \A m \in Names \ {n} : nameToActor'[m] = nameToActor[m]
    BY <1>1 DEF RegisterName
  <2> QED BY <2>1, <2>2, <2>3
<1>2. ASSUME NEW p \in Threads, NEW n \in Names, UnregisterName(p, n)
      PROVE  ReverseNames'
  BY <1>2 DEF UnregisterName
<1>3. ASSUME NEW p \in Threads, ForgetName(p) PROVE ReverseNames'
  <2> DEFINE a == op[p].actor
  <2>1. a \in Actors
    BY <1>3 DEF ForgetName
  <2>2. CASE actorToName[a] = NoName
    BY <1>3, <2>2 DEF ForgetName, nameVars
  <2>3. CASE actorToName[a] # NoName
    BY <1>3, <2>1, <2>3 DEF ForgetName
  <2> QED BY <2>2, <2>3
<1>4. CASE StopClearNames
  BY <1>4 DEF StopClearNames
<1>5. CASE UNCHANGED nameVars
  BY <1>5 DEF nameVars
<1> QED BY ZenonT(40), <1>1, <1>2, <1>3, <1>4, <1>5
        DEF RegistryNext, registryVars, StopClearLinks, LinkInsert, NotifyWatcher, ForgetLinks, EraseActor,
            RegisterActor, TakeWatchers, LinkCheck, UnlinkActor, nameVars

\* For any number of actors, names and threads, GetActorName gives only a name
\* that leads back to the actor.
THEOREM ReverseNamesCorrect == RegistrySpec => []ReverseNames
<1>1. RegistryInit => ReverseNames
  BY DEF RegistryInit, ReverseNames
<1> QED BY <1>1, NamesNext, RegistryTypeCorrect, PTL DEF RegistrySpec

-----------------------------------------------------------------------------
(* Links.                                                                  *)

\* Thread p is telling the watchers it took, w among them, that t is down.
Telling(p, w, t) == op[p].at = "notify" /\ op[p].actor = t /\ w \in op[p].watchers

\* Threads in UnregisterActor work on leaving actors; only those are ever reported
\* down, and only they are gone.
LeaveInv ==
  /\ \A p \in Threads : op[p].at \notin {"idle", "link"} => op[p].actor \in leaving
  /\ \A p \in Threads : op[p].watchers \subseteq used
  /\ downs \subseteq Actors \X leaving
  /\ used \ actors \subseteq leaving
  /\ links \subseteq used \X Actors
  /\ \A t \in Actors : linkMap[t] \subseteq used

\* A link given up in time has left linkMap_ and the lists being worked off.
QuietInv ==
  \A w, t \in Actors : <<w, t>> \in quit =>
    /\ w \notin linkMap[t] /\ <<w, t>> \notin downs
    /\ \A p \in Threads : ~Telling(p, w, t)

\* A link made in time is in linkMap_ until its target leaves, then in a list being
\* worked off, then answered.
AnswerInv ==
  \A w, t \in Actors : <<w, t>> \in links \ late /\ w \notin leaving =>
    IF t \in leaving
    THEN <<w, t>> \in downs \/ \E p \in Threads : Telling(p, w, t)
    ELSE w \in linkMap[t]

LinkInv == RegistryTypeOK /\ LeaveInv /\ QuietInv /\ AnswerInv

\* The invariant of the links holds initially.
LEMMA LinkInit == RegistryInit => LinkInv
  BY RegistryTypeInit DEF RegistryInit, LinkInv, LeaveInv, QuietInv, AnswerInv, Idle

\* The bookkeeping of leaving actors is kept by every step.
LEMMA LeaveNext ==
  ASSUME RegistryTypeOK, LeaveInv, [RegistryNext]_registryVars
  PROVE  LeaveInv'
<1> USE DEF RegistryTypeOK, LeaveInv, nameVars, ghosts
<1>1. ASSUME NEW p \in Threads, LinkInsert(p) PROVE LeaveInv'
  BY <1>1 DEF LinkInsert, Idle
<1>2. ASSUME NEW p \in Threads, NotifyWatcher(p) PROVE LeaveInv'
  <2>1. \A q \in Threads : op'[q].actor = op[q].actor /\ op'[q].watchers \subseteq op[q].watchers
    BY <1>2 DEF NotifyWatcher
  <2>2. \A q \in Threads : op'[q].at \notin {"idle", "link"} => op[q].at \notin {"idle", "link"}
    BY <1>2 DEF NotifyWatcher
  <2>3. downs' \subseteq Actors \X leaving
    BY <1>2 DEF NotifyWatcher
  <2> QED BY <1>2, <2>1, <2>2, <2>3 DEF NotifyWatcher
<1>3. ASSUME NEW p \in Threads, ForgetName(p) \/ ForgetLinks(p) PROVE LeaveInv'
  <2>1. \A q \in Threads :
          /\ op'[q].actor = op[q].actor /\ op'[q].watchers = op[q].watchers
          /\ op'[q].at \notin {"idle", "link"} => op[q].at \notin {"idle", "link"}
    BY <1>3 DEF ForgetName, ForgetLinks
  <2>2. \A t \in Actors : linkMap'[t] \subseteq linkMap[t]
    BY <1>3 DEF ForgetName, ForgetLinks
  <2> QED BY <1>3, <2>1, <2>2 DEF ForgetName, ForgetLinks
<1>4. ASSUME NEW p \in Threads, EraseActor(p) PROVE LeaveInv'
  BY <1>4 DEF EraseActor, Idle
<1>5. ASSUME NEW p \in Threads, NEW a \in Actors, RegisterActor(p, a) \/ TakeWatchers(p, a)
      PROVE  LeaveInv'
  BY SMTT(30), <1>5 DEF RegisterActor, TakeWatchers
<1>6. ASSUME NEW p \in Threads, NEW a \in Actors, NEW b \in Actors,
             LinkCheck(p, a, b) \/ UnlinkActor(p, a, b)
      PROVE  LeaveInv'
  BY <1>6 DEF LinkCheck, UnlinkActor
<1>7. CASE StopClearNames \/ StopClearLinks
  BY <1>7 DEF StopClearNames, StopClearLinks
<1>8. ASSUME NEW p \in Threads, NEW n \in Names,
             UnregisterName(p, n) \/ \E a \in Actors : RegisterName(p, n, a)
      PROVE  LeaveInv'
  BY <1>8 DEF UnregisterName, RegisterName
<1>9. CASE UNCHANGED registryVars
  BY <1>9 DEF registryVars
<1> QED BY <1>1, <1>2, <1>3, <1>4, <1>5, <1>6, <1>7, <1>8, <1>9 DEF RegistryNext

\* A link given up in time stays unanswered.
LEMMA QuietNext ==
  ASSUME RegistryTypeOK, LeaveInv, QuietInv, [RegistryNext]_registryVars
  PROVE  QuietInv'
<1> USE DEF RegistryTypeOK, QuietInv, Telling
<1>1. ASSUME NEW p \in Threads, LinkInsert(p) PROVE QuietInv'
  BY <1>1 DEF LinkInsert, Idle
<1>2. ASSUME NEW p \in Threads, NotifyWatcher(p) PROVE QuietInv'
  <2>1. \A w, t \in Actors, q \in Threads : Telling(q, w, t)' => Telling(q, w, t)
    BY <1>2 DEF NotifyWatcher
  <2>2. \A w, t \in Actors : <<w, t>> \in downs' \ downs => Telling(p, w, t)
    BY <1>2 DEF NotifyWatcher
  <2> QED BY <1>2, <2>1, <2>2 DEF NotifyWatcher
<1>3. ASSUME NEW p \in Threads, ForgetName(p) \/ ForgetLinks(p) PROVE QuietInv'
  <2>1. \A w, t \in Actors, q \in Threads : Telling(q, w, t)' => Telling(q, w, t)
    BY <1>3 DEF ForgetName, ForgetLinks
  <2>2. \A t \in Actors : linkMap'[t] \subseteq linkMap[t]
    BY <1>3 DEF ForgetName, ForgetLinks
  <2> QED BY <1>3, <2>1, <2>2 DEF ForgetName, ForgetLinks, ghosts
<1>4. ASSUME NEW p \in Threads, EraseActor(p) PROVE QuietInv'
  BY <1>4 DEF EraseActor, Idle, ghosts
<1>5. ASSUME NEW p \in Threads, NEW a \in Actors, RegisterActor(p, a) \/ TakeWatchers(p, a)
      PROVE  QuietInv'
  <2>1. CASE RegisterActor(p, a)
    BY <2>1 DEF RegisterActor, ghosts
  <2>2. CASE TakeWatchers(p, a)
    <3>1. \A w, t \in Actors, q \in Threads :
            Telling(q, w, t)' => Telling(q, w, t) \/ (t = a /\ w \in linkMap[a])
      BY <2>2 DEF TakeWatchers
    <3>2. \A w, t \in Actors : w \in linkMap'[t] => w \in linkMap[t]
      BY <2>2 DEF TakeWatchers
    <3> QED BY <2>2, <3>1, <3>2 DEF TakeWatchers
  <2> QED BY <1>5, <2>1, <2>2
<1>6. ASSUME NEW p \in Threads, NEW a \in Actors, NEW b \in Actors,
             LinkCheck(p, a, b) \/ UnlinkActor(p, a, b)
      PROVE  QuietInv'
  BY <1>6 DEF LinkCheck, UnlinkActor, LeaveInv, ghosts
<1>7. CASE StopClearNames \/ StopClearLinks
  BY <1>7 DEF StopClearNames, StopClearLinks, ghosts
<1>8. ASSUME NEW p \in Threads, NEW n \in Names,
             UnregisterName(p, n) \/ \E a \in Actors : RegisterName(p, n, a)
      PROVE  QuietInv'
  BY <1>8 DEF UnregisterName, RegisterName, ghosts
<1>9. CASE UNCHANGED registryVars
  BY <1>9 DEF registryVars
<1> QED BY <1>1, <1>2, <1>3, <1>4, <1>5, <1>6, <1>7, <1>8, <1>9 DEF RegistryNext

\* A link made in time is kept until it is answered.
LEMMA AnswerNext ==
  ASSUME RegistryTypeOK, LeaveInv, AnswerInv, [RegistryNext]_registryVars
  PROVE  AnswerInv'
<1> USE DEF RegistryTypeOK, AnswerInv, Telling
<1>1. ASSUME NEW p \in Threads, LinkInsert(p) PROVE AnswerInv'
  <2>1. \A w, t \in Actors, q \in Threads : Telling(q, w, t) => Telling(q, w, t)'
    BY <1>1 DEF LinkInsert
  <2> QED BY <1>1, <2>1 DEF LinkInsert
<1>2. ASSUME NEW p \in Threads, NotifyWatcher(p) PROVE AnswerInv'
  <2>1. downs \subseteq downs'
    BY <1>2 DEF NotifyWatcher
  <2>2. \A w, t \in Actors, q \in Threads :
          Telling(q, w, t) /\ w \in actors => Telling(q, w, t)' \/ <<w, t>> \in downs'
    BY <1>2 DEF NotifyWatcher
  <2>3. \A w, t \in Actors : <<w, t>> \in links /\ w \notin leaving => w \in actors
    BY DEF LeaveInv
  <2> QED BY <1>2, <2>1, <2>2, <2>3 DEF NotifyWatcher
<1>3. ASSUME NEW p \in Threads, ForgetName(p) \/ ForgetLinks(p) PROVE AnswerInv'
  <2>1. \A w, t \in Actors, q \in Threads : Telling(q, w, t) => Telling(q, w, t)'
    BY <1>3 DEF ForgetName, ForgetLinks
  <2>2. \A w, t \in Actors : w \in linkMap[t] /\ w \notin leaving /\ t \notin leaving => w \in linkMap'[t]
    BY <1>3 DEF ForgetName, ForgetLinks, LeaveInv
  <2> QED BY <1>3, <2>1, <2>2 DEF ForgetName, ForgetLinks, ghosts
<1>4. ASSUME NEW p \in Threads, EraseActor(p) PROVE AnswerInv'
  <2>1. \A w, t \in Actors, q \in Threads : Telling(q, w, t) => Telling(q, w, t)'
    BY <1>4 DEF EraseActor
  <2> QED BY <1>4, <2>1 DEF EraseActor, ghosts
<1>5. ASSUME NEW p \in Threads, NEW a \in Actors, RegisterActor(p, a) \/ TakeWatchers(p, a)
      PROVE  AnswerInv'
  <2>1. \A w, t \in Actors, q \in Threads : Telling(q, w, t) => Telling(q, w, t)'
    BY <1>5 DEF RegisterActor, TakeWatchers
  <2>2. CASE RegisterActor(p, a)
    BY <2>1, <2>2 DEF RegisterActor, ghosts
  <2>3. CASE TakeWatchers(p, a)
    <3>1. \A w \in linkMap[a] : Telling(p, w, a)'
      BY <2>3 DEF TakeWatchers
    <3> QED BY <2>1, <2>3, <3>1 DEF TakeWatchers
  <2> QED BY <1>5, <2>2, <2>3
<1>6. ASSUME NEW p \in Threads, NEW a \in Actors, NEW b \in Actors,
             LinkCheck(p, a, b) \/ UnlinkActor(p, a, b)
      PROVE  AnswerInv'
  <2>1. \A w, t \in Actors, q \in Threads : Telling(q, w, t) => Telling(q, w, t)'
    BY <1>6 DEF LinkCheck, UnlinkActor
  <2> QED BY <1>6, <2>1 DEF LinkCheck, UnlinkActor, ghosts
<1>7. CASE StopClearNames \/ StopClearLinks
  BY <1>7 DEF StopClearNames, StopClearLinks, ghosts
<1>8. ASSUME NEW p \in Threads, NEW n \in Names,
             UnregisterName(p, n) \/ \E a \in Actors : RegisterName(p, n, a)
      PROVE  AnswerInv'
  BY <1>8 DEF UnregisterName, RegisterName, ghosts
<1>9. CASE UNCHANGED registryVars
  BY <1>9 DEF registryVars
<1> QED BY <1>1, <1>2, <1>3, <1>4, <1>5, <1>6, <1>7, <1>8, <1>9 DEF RegistryNext

\* The links' inductive invariant holds in every reachable state.
THEOREM LinkInvCorrect == RegistrySpec => []LinkInv
<1>1. LinkInv /\ [RegistryNext]_registryVars => LinkInv'
  BY RegistryTypeNext, LeaveNext, QuietNext, AnswerNext DEF LinkInv
<1> QED BY <1>1, LinkInit, PTL DEF RegistrySpec

\* For any number of actors and threads, a watcher that unlinked before its target
\* began to unregister is never told that it is down.
THEOREM UnlinkedCorrect == RegistrySpec => []UnlinkedIsQuiet
<1>1. LinkInv => UnlinkedIsQuiet
  BY DEF LinkInv, RegistryTypeOK, QuietInv, UnlinkedIsQuiet
<1> QED BY <1>1, LinkInvCorrect, PTL

\* For any number of actors and threads, a watcher that linked before its target
\* began to unregister has been told by the time nobody works on the target.
THEOREM InformedCorrect == RegistrySpec => []WatchersInformed
<1>1. LinkInv => WatchersInformed
  BY DEF LinkInv, LeaveInv, AnswerInv, Telling, WatchersInformed, Awaited, Gone
<1> QED BY <1>1, LinkInvCorrect, PTL
=============================================================================
