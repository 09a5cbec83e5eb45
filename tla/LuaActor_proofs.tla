--------------------------- MODULE LuaActor_proofs ---------------------------
(***************************************************************************)
(* Proofs about LuaActor for any number of messages and calls and any      *)
(* nesting of run_co: each dispatch in progress keeps its Lua thread in the*)
(* registry under an index of its own, and actor.call returns the answer   *)
(* to that call.                                                           *)
(***************************************************************************)
EXTENDS LuaActor, FiniteSetTheorems, TLAPS

USE DEF Release, Passed   \* names for the code's small steps

-----------------------------------------------------------------------------
(* The inductive invariant.                                                *)

Modes == {"idle", "script", "rejected", "yield", "return", "error", "resume"}

\* Every variable has its type.
TypeOK ==
  /\ running \in BOOLEAN /\ env \in {"open", "closed"}
  /\ registry \in [Refs -> Dispatches \cup {Nil}]
  /\ ref \in [Dispatches -> Refs \cup {Nil}]
  /\ levels \in [Dispatches -> Seq(Calls \cup {Nil})]
  /\ started \in 0..MaxMessages /\ calls \in 0..MaxCalls
  /\ current \in Dispatches \cup {Nil} /\ carry \in Calls \cup {Nil} /\ at \in Nat
  /\ mode \in Modes
  /\ waitMap \in [Calls -> Dispatches \cup {Nil}]
  /\ failed \subseteq Calls /\ got \in [Calls -> {"none", "nil", "answer", "wrong"}]

Active == (Waiters \cup {current}) \ {Nil}
Distinct(q) == \A i, j \in 1..Len(q) : q[i] = q[j] => i = j

\* While messages are dispatched, the free list holds each unused index once.
FreeInv ==
  running /\ env = "open" =>
    /\ free \in Seq(Refs) /\ Distinct(free)
    /\ ToSet(free) = {r \in Refs : registry[r] = Nil}

\* A dispatch waits for one session at most, and not while it runs; a session that is
\* waited for has been handed out.
WaitInv ==
  /\ \A d \in Active : d <= started
  /\ \A s \in Calls : waitMap[s] # Nil =>
       /\ s <= calls /\ waitMap[s] # current
       /\ \A u \in Calls : waitMap[u] = waitMap[s] => u = s

\* The call the innermost Lua coroutine of d waits in.
Top(d) == levels[d][Len(levels[d])]

\* What is passed out is the innermost coroutine's call, what is passed in the answer to
\* it or nothing; a suspended dispatch waits for the session of that call.
ChainInv ==
  /\ mode = "idle" <=> current = Nil
  /\ mode # "idle" => running /\ env = "open" /\ at \in 1..Len(levels[current])
  /\ mode \in {"script", "return", "error"} => at = Len(levels[current])
  /\ mode = "yield" /\ carry # Nil =>
       Top(current) = carry /\ carry <= calls /\ waitMap[carry] = Nil
  /\ mode = "resume" =>
       Top(current) # Nil /\ carry \in {Top(current), Nil} /\ (carry = Nil => Top(current) \in failed)
  /\ \A s \in Calls : waitMap[s] # Nil => levels[waitMap[s]] # <<>> /\ Top(waitMap[s]) = s

LuaInv == TypeOK /\ Anchored /\ FreeInv /\ WaitInv /\ ChainInv

-----------------------------------------------------------------------------
(* Types.                                                                  *)

\* The initial state is well typed.
LEMMA TypeInit == Init => TypeOK
  BY LuaActorAssumption DEF Init, TypeOK, Refs, Dispatches, Calls, Nil, Modes

\* The last element of a sequence taken away.
LEMMA FrontType ==
  ASSUME NEW S, NEW q \in Seq(S), q # <<>>
  PROVE  /\ Front(q) \in Seq(S) /\ Len(Front(q)) = Len(q) - 1
         /\ \A i \in 1..(Len(q) - 1) : Front(q)[i] = q[i]
  BY DEF Front

\* A script's steps keep the types.
LEMMA TypeScript ==
  ASSUME TypeOK, ChainInv, Script
  PROVE  TypeOK'
<1> USE DEF Nil
<1>1. /\ current \in Dispatches /\ levels[current] \in Seq(Calls \cup {Nil})
      /\ at \in 1..Len(levels[current])
  BY DEF Script, ActorCall, OtherYield, RunCo, EndScript, Scripting, TypeOK, ChainInv
<1>2. /\ calls' \in 0..MaxCalls /\ carry' \in Calls \cup {Nil} /\ at' \in Nat /\ mode' \in Modes
  BY <1>1, LuaActorAssumption
     DEF Script, ActorCall, OtherYield, RunCo, EndScript, TypeOK, Modes, Calls, Scripting
<1>3. levels' \in [Dispatches -> Seq(Calls \cup {Nil})]
  <2>1. CASE ActorCall
    <3>1. calls + 1 \in Calls
      BY <2>1, LuaActorAssumption DEF ActorCall, Calls, TypeOK
    <3>2. [levels[current] EXCEPT ![at] = calls + 1] \in Seq(Calls \cup {Nil})
      BY <1>1, <3>1
    <3>3. levels' = [levels EXCEPT ![current] = [levels[current] EXCEPT ![at] = calls + 1]]
      BY <2>1 DEF ActorCall
    <3> QED BY <1>1, <3>2, <3>3 DEF TypeOK
  <2>2. CASE RunCo
    <3>1. Append(levels[current], Nil) \in Seq(Calls \cup {Nil})
      BY <1>1
    <3> QED BY <1>1, <2>2, <3>1 DEF RunCo, TypeOK
  <2>3. CASE OtherYield \/ EndScript
    BY <2>3 DEF OtherYield, EndScript, TypeOK
  <2> QED BY <2>1, <2>2, <2>3 DEF Script
<1> QED BY <1>2, <1>3 DEF Script, ActorCall, OtherYield, RunCo, EndScript, Scripting, luaVars, TypeOK

\* The bridge functions' steps keep the types.
LEMMA TypeBridge ==
  ASSUME TypeOK, ChainInv, Bridge
  PROVE  TypeOK'
<1> USE DEF Nil
<1>1. /\ current \in Dispatches /\ levels[current] \in Seq(Calls \cup {Nil})
      /\ at \in 1..Len(levels[current])
  BY DEF Bridge, PassOut, PassIn, TakeAnswer, LeaveNested, Inside, TypeOK, ChainInv
<1>2. carry' \in Calls \cup {Nil} /\ at' \in Nat /\ mode' \in Modes
  BY <1>1 DEF Bridge, PassOut, PassIn, TakeAnswer, LeaveNested, Inside, TypeOK, Modes
<1>3. levels' \in [Dispatches -> Seq(Calls \cup {Nil})]
  <2>1. CASE TakeAnswer
    <3>1. [levels[current] EXCEPT ![at] = Nil] \in Seq(Calls \cup {Nil})
      BY <1>1
    <3>2. levels' = [levels EXCEPT ![current] = [levels[current] EXCEPT ![at] = Nil]]
      BY <2>1 DEF TakeAnswer
    <3> QED BY <1>1, <3>1, <3>2 DEF TypeOK
  <2>2. CASE LeaveNested
    <3>1. Front(levels[current]) \in Seq(Calls \cup {Nil})
      BY <1>1, FrontType
    <3> QED BY <1>1, <2>2, <3>1 DEF LeaveNested, TypeOK
  <2>3. CASE PassOut \/ PassIn
    BY <2>3 DEF PassOut, PassIn, TypeOK
  <2> QED BY <2>1, <2>2, <2>3 DEF Bridge
<1>4. got' \in [Calls -> {"none", "nil", "answer", "wrong"}]
  BY DEF Bridge, PassOut, PassIn, TakeAnswer, LeaveNested, TypeOK
<1> QED BY <1>2, <1>3, <1>4
        DEF Bridge, PassOut, PassIn, TakeAnswer, LeaveNested, Inside, luaVars, callVars, TypeOK

\* The members of a list, by their places.
LEMMA Members ==
  ASSUME NEW S, NEW q \in Seq(S)
  PROVE  ToSet(q) = {q[i] : i \in 1..Len(q)}
  BY DEF ToSet

\* Popping a list without duplicates removes its head.
LEMMA PopSet ==
  ASSUME NEW S, NEW q \in Seq(S), q # <<>>, Distinct(q)
  PROVE  Tail(q) \in Seq(S) /\ Distinct(Tail(q)) /\ ToSet(Tail(q)) = ToSet(q) \ {Head(q)}
<1>1. Tail(q) \in Seq(S)
  OBVIOUS
<1>2. ToSet(q) = {q[i] : i \in 1..Len(q)} /\ ToSet(Tail(q)) = {Tail(q)[i] : i \in 1..Len(Tail(q))}
  BY <1>1, Members
<1>3. {q[i] : i \in 1..Len(q)} = {Head(q)} \cup {Tail(q)[i] : i \in 1..Len(Tail(q))}
  OBVIOUS
<1>4. Distinct(Tail(q)) /\ Head(q) \notin {Tail(q)[i] : i \in 1..Len(Tail(q))}
  BY DEF Distinct
<1> QED BY <1>1, <1>2, <1>3, <1>4

\* Pushing an element that a list does not hold keeps it without duplicates.
LEMMA PushSet ==
  ASSUME NEW S, NEW q \in Seq(S), Distinct(q), NEW x \in S, x \notin ToSet(q)
  PROVE  <<x>> \o q \in Seq(S) /\ Distinct(<<x>> \o q) /\ ToSet(<<x>> \o q) = ToSet(q) \cup {x}
<1> DEFINE p == <<x>> \o q
<1>1. /\ p \in Seq(S) /\ Len(p) = Len(q) + 1
      /\ \A i \in 1..(Len(q) + 1) : p[i] = IF i = 1 THEN x ELSE q[i - 1]
  OBVIOUS
<1> HIDE DEF p
<1>2. ToSet(q) = {q[i] : i \in 1..Len(q)} /\ ToSet(p) = {p[i] : i \in 1..Len(p)}
  BY <1>1, Members
<1>3. ASSUME NEW i \in 1..Len(p), NEW j \in 1..Len(p), p[i] = p[j] PROVE i = j
  <2>1. \A k \in 2..Len(p) : k - 1 \in 1..Len(q) /\ p[k] = q[k - 1] /\ p[k] # x
    BY <1>1, <1>2
  <2>2. CASE i = 1 \/ j = 1
    BY <1>1, <1>3, <2>1, <2>2
  <2>3. CASE i # 1 /\ j # 1
    <3>1. i \in 2..Len(p) /\ j \in 2..Len(p)
      BY <1>1, <2>3
    <3>2. q[i - 1] = q[j - 1] /\ i - 1 \in 1..Len(q) /\ j - 1 \in 1..Len(q)
      BY <1>3, <2>1, <3>1
    <3>3. i - 1 = j - 1
      BY <3>2 DEF Distinct
    <3> QED BY <3>3
  <2> QED BY <2>2, <2>3
<1>4. ASSUME NEW y \in ToSet(p) PROVE y \in ToSet(q) \cup {x}
  <2>1. PICK i \in 1..(Len(q) + 1) : y = p[i]
    BY <1>1, <1>2
  <2> QED BY <1>1, <1>2, <2>1
<1>5. ASSUME NEW y \in ToSet(q) \cup {x} PROVE y \in ToSet(p)
  <2>1. CASE y = x
    <3>1. 1 \in 1..Len(p) /\ p[1] = x
      BY <1>1
    <3> QED BY <1>2, <2>1, <3>1
  <2>2. CASE y # x
    <3>1. PICK i \in 1..Len(q) : y = q[i]
      BY <1>2, <2>2
    <3>2. i + 1 \in 1..Len(p) /\ p[i + 1] = y
      BY <1>1, <3>1
    <3> QED BY <1>2, <3>2
  <2> QED BY <2>1, <2>2
<1>6. Distinct(p)
  BY <1>3 DEF Distinct
<1> QED BY <1>1, <1>4, <1>5, <1>6 DEF p

\* The registry has room for the next dispatch.
LEMMA FreeIndex ==
  ASSUME LuaInv, running, env = "open", current = Nil, started < MaxMessages
  PROVE  /\ free \in Seq(Refs) /\ free # <<>> /\ Head(free) \in Refs
         /\ registry[Head(free)] = Nil /\ Tail(free) \in Seq(Refs) /\ Distinct(Tail(free))
         /\ ToSet(Tail(free)) = ToSet(free) \ {Head(free)}
<1>1. /\ free \in Seq(Refs) /\ Distinct(free)
      /\ ToSet(free) = {r \in Refs : registry[r] = Nil}
  BY DEF LuaInv, FreeInv
<1>2. ASSUME free = <<>> PROVE FALSE
  <2>1. \A r \in Refs : registry[r] \in Dispatches /\ ref[registry[r]] = r
    BY <1>1, <1>2 DEF ToSet, LuaInv, Anchored, TypeOK
  <2>2. ASSUME NEW r \in Refs PROVE registry[r] \in 1..started
    <3>1. registry[r] \in Active
      BY <2>1 DEF LuaInv, Anchored, Active, Refs, Dispatches, Nil
    <3> QED BY <2>1, <3>1 DEF LuaInv, WaitInv, TypeOK, Dispatches
  <2>3. registry \in [Refs -> 1..started]
    BY <2>2 DEF LuaInv, TypeOK
  <2>4. IsFiniteSet(Refs) /\ Cardinality(Refs) = MaxMessages
    BY LuaActorAssumption, FS_Interval DEF Refs
  <2>5. IsFiniteSet(1..started) /\ Cardinality(1..started) = started
    BY FS_Interval DEF LuaInv, TypeOK
  <2>6. \E x, y \in Refs : x # y /\ registry[x] = registry[y]
    BY <2>3, <2>4, <2>5, FS_PigeonHole
  <2> QED BY <2>1, <2>6
<1>3. Head(free) \in Refs /\ Head(free) \in ToSet(free)
  BY <1>1, <1>2 DEF ToSet
<1>4. Tail(free) \in Seq(Refs) /\ Distinct(Tail(free)) /\ ToSet(Tail(free)) = ToSet(free) \ {Head(free)}
  BY <1>1, <1>2, PopSet
<1> QED BY <1>1, <1>2, <1>3, <1>4

\* The index of the dispatch that runs.
LEMMA CurrentRef ==
  ASSUME LuaInv, mode # "idle"
  PROVE  /\ running /\ env = "open" /\ current \in Dispatches /\ current # Nil
         /\ ref[current] \in Refs /\ registry[ref[current]] = current
         /\ free \in Seq(Refs) /\ ref[current] \notin ToSet(free)
         /\ levels[current] \in Seq(Calls \cup {Nil}) /\ at \in 1..Len(levels[current])
<1>1. /\ running /\ env = "open" /\ current \in Dispatches /\ current # Nil
      /\ levels[current] \in Seq(Calls \cup {Nil}) /\ at \in 1..Len(levels[current])
  BY DEF LuaInv, ChainInv, TypeOK
<1>2. ref[current] \in Refs /\ registry[ref[current]] = current
  BY <1>1 DEF LuaInv, Anchored, TypeOK
<1> QED BY <1>1, <1>2 DEF LuaInv, FreeInv

\* The yield loop's steps keep the types.
LEMMA TypeLoop ==
  ASSUME LuaInv, Loop
  PROVE  TypeOK'
<1>1. TypeOK
  BY DEF LuaInv
<1>2. CASE Dispatch
  <2>1. /\ Head(free) \in Refs /\ started + 1 \in Dispatches /\ started + 1 \in 0..MaxMessages
        /\ <<Nil>> \in Seq(Calls \cup {Nil})
    BY <1>1, <1>2, FreeIndex, LuaActorAssumption DEF Dispatch, Dispatches, TypeOK
  <2>2. /\ registry' = [registry EXCEPT ![Head(free)] = started + 1]
        /\ ref' = [ref EXCEPT ![started + 1] = Head(free)]
        /\ levels' = [levels EXCEPT ![started + 1] = <<Nil>>]
        /\ current' = started + 1 /\ started' = started + 1 /\ at' = 1 /\ carry' = Nil
        /\ mode' \in {"script", "rejected"}
        /\ running' = running /\ env' = env /\ waitMap' = waitMap /\ calls' = calls
        /\ failed' = failed /\ got' = got
    BY <1>2 DEF Dispatch, callVars
  <2> QED BY <1>1, <2>1, <2>2 DEF TypeOK, Modes
<1>3. CASE Rejected \/ EndDispatch
  <2>1. current \in Dispatches /\ <<>> \in Seq(Calls \cup {Nil})
    BY <1>3, CurrentRef DEF Rejected, EndDispatch
  <2>2. /\ registry' \in [Refs -> Dispatches \cup {Nil}] /\ ref' \in [Dispatches -> Refs \cup {Nil}]
        /\ levels' \in [Dispatches -> Seq(Calls \cup {Nil})]
    BY <1>1, <1>3, <2>1 DEF Rejected, EndDispatch, CoReturn, TypeOK
  <2>3. /\ running' = running /\ env' = env /\ started' = started /\ calls' = calls
        /\ waitMap' = waitMap /\ failed' = failed /\ got' = got
        /\ current' = Nil /\ at' = 0 /\ mode' = "idle" /\ carry' = Nil
    BY <1>3 DEF Rejected, EndDispatch, CoReturn, callVars
  <2> QED BY <1>1, <2>2, <2>3 DEF TypeOK, Modes
<1>4. CASE Await
  <2>1. carry \in Calls /\ current \in Dispatches
    BY <1>1, <1>4, CurrentRef DEF Await, TypeOK
  <2> QED BY <1>1, <1>4, <2>1 DEF Await, luaVars, TypeOK, Modes, Nil
<1>5. ASSUME NEW s \in Calls, NEW data \in BOOLEAN, Answer(s, data) PROVE TypeOK'
  <2>1. waitMap[s] \in Dispatches \cup {Nil}
    BY <1>1 DEF TypeOK
  <2>2. carry' \in Calls \cup {Nil} /\ failed' \subseteq Calls
    BY <1>1, <1>5 DEF Answer, TypeOK
  <2> QED BY <1>1, <1>5, <2>1, <2>2 DEF Answer, luaVars, TypeOK, Modes
<1> QED BY <1>2, <1>3, <1>4, <1>5 DEF Loop

\* The end keeps the types.
LEMMA TypeEnd ==
  ASSUME TypeOK, Stop \/ Destroy
  PROVE  TypeOK'
<1>1. CASE Stop
  <2>1. <<>> \in Seq(Calls \cup {Nil})
    OBVIOUS
  <2>2. /\ registry' \in [Refs -> Dispatches \cup {Nil}]
        /\ ref' \in [Dispatches -> Refs \cup {Nil}]
        /\ waitMap' \in [Calls -> Dispatches \cup {Nil}]
    BY <1>1 DEF Stop, DestroyFrames, TypeOK
  <2>3. levels' \in [Dispatches -> Seq(Calls \cup {Nil})]
    BY <1>1, <2>1 DEF Stop, DestroyFrames, TypeOK
  <2> QED BY <1>1, <2>2, <2>3 DEF Stop, runVars, TypeOK
<1>2. CASE Destroy
  <2>1. <<>> \in Seq(Calls \cup {Nil})
    OBVIOUS
  <2>2. /\ ref' \in [Dispatches -> Refs \cup {Nil}]
        /\ levels' \in [Dispatches -> Seq(Calls \cup {Nil})]
        /\ waitMap' \in [Calls -> Dispatches \cup {Nil}]
    BY <1>2, <2>1 DEF Destroy
  <2> QED BY <1>2, <2>2 DEF Destroy, runVars, TypeOK
<1> QED BY <1>1, <1>2

-----------------------------------------------------------------------------
(* The registry.                                                           *)

RegInv == Anchored /\ FreeInv /\ WaitInv

\* The initial state satisfies the invariant.
LEMMA LuaInit == Init => LuaInv
<1> SUFFICES ASSUME Init PROVE LuaInv
  OBVIOUS
<1>1. TypeOK
  BY TypeInit
<1>2. Waiters = {} /\ Active = {}
  BY DEF Init, Waiters, Active, Nil
<1>3. Anchored
  BY <1>2 DEF Init, Anchored, Nil, Dispatches
<1>4. FreeInv
  <2>1. free \in Seq(Refs) /\ Len(free) = MaxMessages /\ \A i \in 1..MaxMessages : free[i] = i
    BY LuaActorAssumption DEF Init, Refs
  <2>2. Distinct(free)
    BY <2>1 DEF Distinct
  <2>3. ToSet(free) = {free[i] : i \in 1..Len(free)}
    BY <2>1, Members
  <2>4. ToSet(free) = Refs
    BY <2>1, <2>3 DEF Refs
  <2>5. Refs = {r \in Refs : registry[r] = Nil}
    BY DEF Init
  <2> QED BY <2>1, <2>2, <2>4, <2>5 DEF FreeInv
<1>5. WaitInv
  BY <1>2 DEF Init, WaitInv
<1>6. ChainInv
  BY DEF Init, ChainInv
<1> QED BY <1>1, <1>3, <1>4, <1>5, <1>6 DEF LuaInv

\* A step that leaves the registry and the dispatches in progress alone.
LEMMA RegFrame ==
  ASSUME LuaInv, UNCHANGED <<running, luaVars, started, current, waitMap>>,
         calls' \in Nat, calls <= calls'
  PROVE  RegInv'
<1>1. Waiters' = Waiters /\ Active' = Active
  BY DEF Waiters, Active
<1>2. /\ registry' = registry /\ ref' = ref /\ env' = env /\ free' = free
  BY DEF luaVars
<1>3. Anchored'
  BY <1>1, <1>2 DEF LuaInv, Anchored
<1>4. FreeInv'
  BY <1>2 DEF LuaInv, FreeInv, Distinct
<1>5. WaitInv'
  BY <1>1 DEF LuaInv, WaitInv, TypeOK, Calls
<1> QED BY <1>3, <1>4, <1>5 DEF RegInv

\* A dispatch takes an index nobody holds.
LEMMA RegDispatch ==
  ASSUME LuaInv, Dispatch
  PROVE  RegInv'
<1> DEFINE d == started + 1
           r == Head(free)
<1> USE DEF Nil
<1>1. /\ TypeOK /\ running /\ env = "open" /\ current = Nil /\ started < MaxMessages
      /\ Anchored /\ WaitInv
  BY DEF Dispatch, LuaInv
<1>2. /\ r \in Refs /\ registry[r] = Nil
      /\ Tail(free) \in Seq(Refs) /\ Distinct(Tail(free)) /\ ToSet(Tail(free)) = ToSet(free) \ {r}
  BY <1>1, FreeIndex
<1>3. /\ d \in Dispatches /\ d # Nil /\ r # Nil /\ started \in Nat
  BY <1>1, <1>2, LuaActorAssumption DEF Dispatches, TypeOK, Refs
<1>4. /\ registry' = [registry EXCEPT ![r] = d] /\ free' = Tail(free)
      /\ ref' = [ref EXCEPT ![d] = r] /\ current' = d /\ started' = d
      /\ running' = running /\ env' = env /\ waitMap' = waitMap /\ calls' = calls
  BY DEF Dispatch, callVars
<1>5. Waiters' = Waiters /\ Active = Waiters /\ Active' = Waiters \cup {d}
  BY <1>1, <1>3, <1>4 DEF Waiters, Active
<1>6. d \notin Waiters
  BY <1>1, <1>3, <1>5 DEF WaitInv
<1>7. ref[d] = Nil
  BY <1>1, <1>3, <1>6 DEF Anchored
<1> HIDE DEF d, r
<1>8. Anchored'
  <2>1. ASSUME NEW e \in Dispatches
        PROVE  IF e = current' \/ e \in Waiters' THEN ref'[e] # Nil /\ registry'[ref'[e]] = e
               ELSE ref'[e] = Nil
    <3>1. CASE e = d
      BY <1>1, <1>2, <1>3, <1>4, <3>1 DEF TypeOK
    <3>2. CASE e # d
      <4>1. ref'[e] = ref[e] /\ ref[e] \in Refs \cup {Nil}
        BY <1>1, <1>3, <1>4, <3>2 DEF TypeOK
      <4>2. IF e \in Waiters THEN ref[e] # Nil /\ registry[ref[e]] = e ELSE ref[e] = Nil
        BY <1>1, <1>3, <1>5 DEF Anchored, Dispatches
      <4>3. CASE e \in Waiters
        <5>1. ref[e] \in Refs /\ ref[e] # r
          BY <1>2, <4>1, <4>2, <4>3 DEF Dispatches
        <5> QED BY <1>1, <1>4, <1>5, <4>1, <4>2, <4>3, <5>1 DEF TypeOK
      <4> QED BY <1>4, <1>5, <3>2, <4>1, <4>2, <4>3
    <3> QED BY <3>1, <3>2
  <2>2. ASSUME NEW i \in Refs, registry'[i] # Nil PROVE ref'[registry'[i]] = i
    <3>1. CASE i = r
      BY <1>1, <1>2, <1>3, <1>4, <3>1 DEF TypeOK
    <3>2. CASE i # r
      <4>1. registry'[i] = registry[i] /\ registry[i] \in Dispatches
        BY <1>1, <1>2, <1>4, <2>2, <3>2 DEF TypeOK
      <4>2. ref[registry[i]] = i
        BY <1>1, <2>2, <4>1 DEF Anchored
      <4>3. registry[i] # d
        BY <1>7, <4>2 DEF Refs
      <4> QED BY <1>1, <1>3, <1>4, <4>1, <4>2, <4>3 DEF TypeOK
    <3> QED BY <3>1, <3>2
  <2> QED BY <2>1, <2>2 DEF Anchored
<1>9. FreeInv'
  <2>1. ToSet(free) = {i \in Refs : registry[i] = Nil}
    BY <1>1 DEF LuaInv, FreeInv
  <2>2. \A i \in Refs : registry'[i] = IF i = r THEN d ELSE registry[i]
    BY <1>1, <1>2, <1>4 DEF TypeOK
  <2>3. ToSet(free') = {i \in Refs : registry'[i] = Nil}
    BY <1>2, <1>3, <1>4, <2>1, <2>2
  <2>4. Distinct(free)'
    BY <1>2, <1>4 DEF Distinct
  <2> QED BY <1>2, <1>4, <2>3, <2>4 DEF FreeInv
<1>10. WaitInv'
  <2>1. \A s \in Calls : waitMap[s] # Nil => waitMap[s] \in Waiters
    BY DEF Waiters
  <2>2. \A e \in Active' : e <= started'
    <3>1. Waiters \subseteq Dispatches
      BY <1>1 DEF Waiters, TypeOK
    <3>2. \A e \in Waiters : e <= started /\ e \in Nat
      BY <1>1, <1>5, <3>1 DEF WaitInv, Dispatches
    <3>3. started' = started + 1 /\ d = started + 1
      BY <1>4 DEF d
    <3> QED BY <1>3, <1>5, <3>2, <3>3
  <2> QED BY <1>1, <1>4, <1>6, <2>1, <2>2 DEF WaitInv
<1> QED BY <1>8, <1>9, <1>10 DEF RegInv

\* co_return gives the index of the dispatch back.
LEMMA RegReturn ==
  ASSUME LuaInv, mode # "idle", CoReturn(current),
         UNCHANGED <<running, started, callVars>>
  PROVE  RegInv'
<1> DEFINE r == ref[current]
<1> USE DEF Nil
<1>1. TypeOK /\ running /\ env = "open" /\ Anchored /\ WaitInv /\ FreeInv
  BY CurrentRef DEF LuaInv
<1>2. /\ current \in Dispatches /\ current # Nil /\ r \in Refs /\ registry[r] = current
      /\ free \in Seq(Refs) /\ r \notin ToSet(free)
  BY CurrentRef
<1>3. /\ registry' = [registry EXCEPT ![r] = Nil] /\ free' = <<r>> \o free
      /\ ref' = [ref EXCEPT ![current] = Nil] /\ current' = Nil /\ env' = env
      /\ running' = running /\ started' = started /\ waitMap' = waitMap /\ calls' = calls
  BY DEF CoReturn, callVars
<1>4. Waiters' = Waiters /\ Active = Waiters \cup {current} /\ Active' = Waiters
  BY <1>2, <1>3 DEF Waiters, Active
<1>5. current \notin Waiters
  BY <1>1, <1>2 DEF WaitInv, Waiters
<1> HIDE DEF r
<1>6. Anchored'
  <2>1. ASSUME NEW e \in Dispatches
        PROVE  IF e = current' \/ e \in Waiters' THEN ref'[e] # Nil /\ registry'[ref'[e]] = e
               ELSE ref'[e] = Nil
    <3>1. CASE e = current
      BY <1>1, <1>2, <1>3, <1>4, <1>5, <3>1 DEF TypeOK
    <3>2. CASE e # current
      <4>0. e # current'
        BY <1>3 DEF Dispatches
      <4>1. ref'[e] = ref[e] /\ ref[e] \in Refs \cup {Nil}
        BY <1>1, <1>2, <1>3, <3>2 DEF TypeOK
      <4>2. IF e \in Waiters THEN ref[e] # Nil /\ registry[ref[e]] = e ELSE ref[e] = Nil
        BY <1>1, <3>2 DEF Anchored
      <4>3. CASE e \in Waiters
        <5>1. ref[e] \in Refs /\ ref[e] # r
          BY <1>2, <3>2, <4>1, <4>2, <4>3
        <5> QED BY <1>1, <1>3, <1>4, <4>0, <4>1, <4>2, <4>3, <5>1 DEF TypeOK
      <4> QED BY <1>4, <4>0, <4>1, <4>2, <4>3
    <3> QED BY <3>1, <3>2
  <2>2. ASSUME NEW i \in Refs, registry'[i] # Nil PROVE ref'[registry'[i]] = i
    <3>1. i # r /\ registry'[i] = registry[i]
      BY <1>1, <1>2, <1>3, <2>2 DEF TypeOK
    <3>2. ref[registry[i]] = i /\ registry[i] \in Dispatches
      BY <1>1, <2>2, <3>1 DEF Anchored, TypeOK
    <3>3. registry[i] # current
      BY <3>1, <3>2 DEF r
    <3> QED BY <1>1, <1>3, <3>1, <3>2, <3>3 DEF TypeOK
  <2> QED BY <2>1, <2>2 DEF Anchored
<1>7. FreeInv'
  <2>1. ToSet(free) = {i \in Refs : registry[i] = Nil} /\ Distinct(free)
    BY <1>1 DEF FreeInv
  <2>2. \A i \in Refs : registry'[i] = IF i = r THEN Nil ELSE registry[i]
    BY <1>1, <1>2, <1>3 DEF TypeOK
  <2>3. free' \in Seq(Refs) /\ Distinct(<<r>> \o free) /\ ToSet(free') = ToSet(free) \cup {r}
    BY <1>2, <1>3, <2>1, PushSet
  <2>4. ToSet(free') = {i \in Refs : registry'[i] = Nil}
    BY <1>2, <2>1, <2>2, <2>3
  <2>5. Distinct(free)'
    BY <1>3, <2>3 DEF Distinct
  <2> QED BY <2>3, <2>4, <2>5 DEF FreeInv
<1>8. WaitInv'
  BY <1>1, <1>3, <1>4 DEF WaitInv, TypeOK, Dispatches
<1> QED BY <1>6, <1>7, <1>8 DEF RegInv

\* A dispatch that waits, or goes on, stays in progress.
LEMMA RegSwitch ==
  ASSUME LuaInv, UNCHANGED <<running, luaVars, started, calls>>,
         Active' = Active, WaitInv'
  PROVE  RegInv'
<1>1. /\ registry' = registry /\ ref' = ref /\ env' = env /\ free' = free
  BY DEF luaVars
<1>2. Anchored'
  <2>1. \A e \in Dispatches : (e = current' \/ e \in Waiters') <=> (e = current \/ e \in Waiters)
    BY DEF Active, Dispatches, Nil
  <2> QED BY <1>1, <2>1 DEF LuaInv, Anchored
<1>3. FreeInv'
  BY <1>1 DEF LuaInv, FreeInv, Distinct
<1> QED BY <1>2, <1>3 DEF RegInv

\* A dispatch that starts to wait gives the worker free.
LEMMA RegAwait ==
  ASSUME LuaInv, Await
  PROVE  RegInv'
<1> USE DEF Nil
<1>1. /\ TypeOK /\ WaitInv /\ current \in Dispatches /\ current # Nil
      /\ carry \in Calls /\ carry <= calls /\ waitMap[carry] = Nil
  BY CurrentRef DEF Await, LuaInv, ChainInv, TypeOK
<1>2. /\ waitMap' = [waitMap EXCEPT ![carry] = current] /\ current' = Nil
      /\ started' = started /\ calls' = calls /\ UNCHANGED <<running, luaVars>>
  BY DEF Await
<1>3. \A s \in Calls : waitMap'[s] = IF s = carry THEN current ELSE waitMap[s]
  BY <1>1, <1>2 DEF TypeOK
<1>4. Waiters' = Waiters \cup {current}
  BY <1>1, <1>3 DEF Waiters
<1>5. Active' = Active
  BY <1>1, <1>2, <1>4 DEF Active
<1>6. WaitInv'
  BY <1>1, <1>2, <1>3, <1>5 DEF WaitInv
<1> QED BY <1>2, <1>5, <1>6, RegSwitch

\* A dispatch that is answered waits no longer, and runs.
LEMMA RegAnswer ==
  ASSUME LuaInv, NEW s \in Calls, NEW data \in BOOLEAN, Answer(s, data)
  PROVE  RegInv'
<1> USE DEF Nil
<1>1. TypeOK /\ WaitInv /\ current = Nil /\ waitMap[s] # Nil
  BY DEF Answer, LuaInv
<1>2. /\ waitMap' = [waitMap EXCEPT ![s] = Nil] /\ current' = waitMap[s]
      /\ started' = started /\ calls' = calls /\ UNCHANGED <<running, luaVars>>
  BY DEF Answer
<1>3. \A u \in Calls : waitMap'[u] = IF u = s THEN Nil ELSE waitMap[u]
  BY <1>1, <1>2 DEF TypeOK
<1>4. \A u \in Calls : waitMap[u] = waitMap[s] => u = s
  BY <1>1 DEF WaitInv
<1>5. Waiters' = Waiters \ {waitMap[s]} /\ waitMap[s] \in Waiters
  BY <1>1, <1>3, <1>4 DEF Waiters
<1>6. Active' = Active
  BY <1>1, <1>2, <1>5 DEF Active
<1>7. WaitInv'
  BY <1>1, <1>2, <1>3, <1>4, <1>6 DEF WaitInv
<1> QED BY <1>2, <1>6, <1>7, RegSwitch

\* When the frames are destroyed, no dispatch is in progress.
LEMMA RegEnd ==
  ASSUME LuaInv, Stop \/ Destroy
  PROVE  RegInv'
<1> USE DEF Nil
<1>1. TypeOK /\ Anchored /\ WaitInv /\ current = Nil /\ current' = Nil /\ env = "open"
  BY DEF Stop, Destroy, runVars, LuaInv
<1>2. \A s \in Calls : waitMap'[s] = Nil
  BY DEF Stop, Destroy, DestroyFrames
<1>3. Waiters' = {} /\ Active' = {}
  BY <1>1, <1>2 DEF Waiters, Active
<1>4. WaitInv'
  BY <1>2, <1>3 DEF WaitInv
<1>5. CASE Destroy
  BY <1>4, <1>5 DEF RegInv, Anchored, FreeInv, Destroy
<1>6. CASE Stop
  <2>1. /\ registry' = [r \in Refs |-> IF registry[r] \in Waiters THEN Nil ELSE registry[r]]
        /\ ref' = [d \in Dispatches |-> IF d \in Waiters THEN Nil ELSE ref[d]]
        /\ running' = FALSE
    BY <1>6 DEF Stop, DestroyFrames
  <2>2. \A d \in Dispatches : ref'[d] = Nil /\ d # current'
    <3>1. \A d \in Dispatches : d # current
      BY <1>1 DEF Dispatches
    <3> QED BY <1>1, <2>1, <3>1 DEF Anchored
  <2>3. ASSUME NEW r \in Refs, registry'[r] # Nil PROVE FALSE
    <3>1. registry[r] \notin Waiters /\ registry[r] # Nil
      BY <2>1, <2>3
    <3>2. registry[r] \in Dispatches /\ ref[registry[r]] = r
      BY <1>1, <3>1 DEF Anchored, TypeOK
    <3>3. ref[registry[r]] = Nil
      BY <1>1, <3>1, <3>2 DEF Anchored, Dispatches
    <3> QED BY <3>2, <3>3 DEF Refs
  <2>4. Anchored'
    BY <1>3, <2>2, <2>3 DEF Anchored
  <2>5. FreeInv'
    BY <2>1 DEF FreeInv
  <2> QED BY <1>4, <2>4, <2>5 DEF RegInv
<1> QED BY <1>5, <1>6

\* Every step keeps the registry's part of the invariant.
LEMMA RegNext ==
  ASSUME LuaInv, Next
  PROVE  RegInv'
<1>1. calls \in Nat
  BY DEF LuaInv, TypeOK
<1>2. CASE Script
  BY <1>1, <1>2, RegFrame DEF Script, ActorCall, OtherYield, RunCo, EndScript, Scripting
<1>3. CASE Bridge
  BY <1>1, <1>3, RegFrame DEF Bridge, PassOut, PassIn, TakeAnswer, LeaveNested, Inside, callVars
<1>4. CASE Rejected \/ EndDispatch
  BY <1>4, RegReturn DEF Rejected, EndDispatch
<1> QED BY <1>2, <1>3, <1>4, RegDispatch, RegAwait, RegAnswer, RegEnd DEF Next, Loop

-----------------------------------------------------------------------------
(* The chain of Lua coroutines.                                            *)

\* Who waits for what is not disturbed by a step inside the dispatch that runs.
LEMMA ChainFrame ==
  ASSUME LuaInv, waitMap' = waitMap,
         \A d \in Dispatches \ {current} : levels'[d] = levels[d]
  PROVE  \A s \in Calls : waitMap'[s] # Nil =>
           levels'[waitMap'[s]] # <<>> /\ Top(waitMap[s])' = s
<1> SUFFICES ASSUME NEW s \in Calls, waitMap[s] # Nil
             PROVE  levels'[waitMap[s]] # <<>> /\ Top(waitMap[s])' = s
  OBVIOUS
<1>1. waitMap[s] \in Dispatches \ {current}
  BY DEF LuaInv, TypeOK, WaitInv
<1>2. levels[waitMap[s]] # <<>> /\ Top(waitMap[s]) = s
  BY DEF LuaInv, ChainInv
<1> QED BY <1>1, <1>2 DEF Top

\* A script's steps keep the chain.
LEMMA ChainScript ==
  ASSUME LuaInv, Script
  PROVE  ChainInv'
<1> USE DEF Nil
<1>1. /\ TypeOK /\ running /\ env = "open" /\ current \in Dispatches /\ current # Nil
      /\ levels[current] \in Seq(Calls \cup {Nil}) /\ at = Len(levels[current])
      /\ at \in 1..Len(levels[current]) /\ mode = "script" /\ calls \in Nat
  BY CurrentRef DEF Script, ActorCall, OtherYield, RunCo, EndScript, Scripting, LuaInv, ChainInv, TypeOK
<1>2. /\ running' = running /\ env' = env /\ current' = current /\ waitMap' = waitMap
      /\ failed' = failed /\ mode' \in {"script", "yield", "return", "error"}
  BY <1>1 DEF Script, ActorCall, OtherYield, RunCo, EndScript, Scripting, luaVars
<1>3. \A d \in Dispatches \ {current} : levels'[d] = levels[d]
  BY <1>1 DEF Script, ActorCall, OtherYield, RunCo, EndScript, TypeOK
<1>4. \A s \in Calls : waitMap'[s] # Nil => levels'[waitMap'[s]] # <<>> /\ Top(waitMap[s])' = s
  BY <1>2, <1>3, ChainFrame
<1>5. CASE ActorCall
  <2>1. /\ calls + 1 \in Calls /\ calls' = calls + 1 /\ carry' = calls + 1 /\ at' = at
        /\ levels'[current] = [levels[current] EXCEPT ![at] = calls + 1] /\ mode' = "yield"
    BY <1>1, <1>5, LuaActorAssumption DEF ActorCall, Calls, TypeOK
  <2>2. Len(levels'[current]) = Len(levels[current]) /\ levels'[current][at] = calls + 1
    BY <1>1, <2>1
  <2>3. waitMap[calls + 1] = Nil
    BY <1>1, <2>1 DEF LuaInv, WaitInv
  <2> QED BY <1>1, <1>2, <1>4, <2>1, <2>2, <2>3 DEF ChainInv, Top
<1>6. CASE RunCo
  <2>1. /\ Len(levels'[current]) = Len(levels[current]) + 1 /\ at' = at + 1 /\ mode' = "script"
    BY <1>1, <1>6 DEF RunCo, TypeOK
  <2> QED BY <1>1, <1>2, <1>4, <2>1 DEF ChainInv, Top
<1>7. CASE OtherYield \/ EndScript
  <2>1. /\ levels' = levels /\ at' = at /\ (mode' = "yield" => carry' = Nil)
        /\ mode' \in {"yield", "return", "error"}
    BY <1>7 DEF OtherYield, EndScript
  <2> QED BY <1>1, <1>2, <1>4, <2>1 DEF ChainInv, Top
<1> QED BY <1>5, <1>6, <1>7 DEF Script

\* The bridge functions' steps keep the chain.
LEMMA ChainBridge ==
  ASSUME LuaInv, Bridge
  PROVE  ChainInv'
<1> USE DEF Nil
<1>1. /\ TypeOK /\ ChainInv /\ running /\ env = "open" /\ current \in Dispatches /\ current # Nil
      /\ levels[current] \in Seq(Calls \cup {Nil})
      /\ at \in 1..Len(levels[current])
  BY CurrentRef DEF Bridge, PassOut, PassIn, TakeAnswer, LeaveNested, Inside, LuaInv, ChainInv
<1>2. /\ running' = running /\ env' = env /\ current' = current /\ waitMap' = waitMap
      /\ failed' = failed /\ calls' = calls
  BY DEF Bridge, PassOut, PassIn, TakeAnswer, LeaveNested, Inside, luaVars, callVars
<1>3. \A d \in Dispatches \ {current} : levels'[d] = levels[d]
  BY <1>1 DEF Bridge, PassOut, PassIn, TakeAnswer, LeaveNested, TypeOK
<1>4. \A s \in Calls : waitMap'[s] # Nil => levels'[waitMap'[s]] # <<>> /\ Top(waitMap[s])' = s
  BY <1>2, <1>3, ChainFrame
<1>5. CASE PassOut
  <2>1. levels' = levels /\ mode' = "yield" /\ mode = "yield" /\ carry' = carry
        /\ at' = at - 1 /\ at > 1
    BY <1>5 DEF PassOut
  <2> QED BY <1>1, <1>2, <1>4, <2>1 DEF ChainInv, Top
<1>6. CASE PassIn
  <2>1. levels' = levels /\ mode' = "resume" /\ mode = "resume" /\ carry' = carry
        /\ at' = at + 1 /\ at < Len(levels[current])
    BY <1>6 DEF PassIn
  <2> QED BY <1>1, <1>2, <1>4, <2>1 DEF ChainInv, Top
<1>7. CASE TakeAnswer
  <2>1. /\ Len(levels'[current]) = Len(levels[current]) /\ at' = at /\ at = Len(levels[current])
        /\ mode' \in {"script", "error"}
    BY <1>1, <1>7 DEF TakeAnswer, TypeOK
  <2> QED BY <1>1, <1>2, <1>4, <2>1 DEF ChainInv, Top
<1>8. CASE LeaveNested
  <2>1. /\ at = Len(levels[current]) /\ at' = at - 1 /\ at > 1 /\ mode' \in {"script", "error"}
        /\ levels'[current] = Front(levels[current])
    BY <1>1, <1>8 DEF LeaveNested, ChainInv, TypeOK
  <2>2. Len(levels'[current]) = Len(levels[current]) - 1
    BY <1>1, <2>1, FrontType
  <2> QED BY <1>1, <1>2, <1>4, <2>1, <2>2 DEF ChainInv, Top
<1> QED BY <1>5, <1>6, <1>7, <1>8 DEF Bridge

\* The yield loop's steps, and the end, keep the chain.
LEMMA ChainLoop ==
  ASSUME LuaInv, Loop \/ Stop \/ Destroy
  PROVE  ChainInv'
<1> USE DEF Nil
<1>1. TypeOK /\ ChainInv /\ WaitInv
  BY DEF LuaInv
<1>2. CASE Dispatch
  <2>1. started + 1 \in Dispatches
    BY <1>1, <1>2, LuaActorAssumption DEF Dispatch, TypeOK, Dispatches
  <2>2. /\ levels' = [levels EXCEPT ![started + 1] = <<Nil>>] /\ current' = started + 1 /\ at' = 1
        /\ carry' = Nil /\ mode' \in {"script", "rejected"} /\ running' /\ env' = "open"
        /\ waitMap' = waitMap
    BY <1>2 DEF Dispatch, callVars
  <2>3. levels'[started + 1] = <<Nil>>
    BY <1>1, <2>1, <2>2 DEF TypeOK
  <2>4. \A s \in Calls : waitMap[s] # Nil => waitMap[s] \in Dispatches \ {started + 1}
    <3> SUFFICES ASSUME NEW s \in Calls, waitMap[s] # Nil
                 PROVE  waitMap[s] \in Dispatches \ {started + 1}
      OBVIOUS
    <3>1. waitMap[s] \in Active /\ waitMap[s] \in Dispatches /\ started \in Nat
      BY <1>1 DEF Active, Waiters, TypeOK
    <3>2. waitMap[s] <= started
      BY <1>1, <3>1 DEF WaitInv
    <3> QED BY <3>1, <3>2 DEF Dispatches
  <2>5. \A s \in Calls : waitMap'[s] # Nil => levels'[waitMap'[s]] # <<>> /\ Top(waitMap[s])' = s
    BY <1>1, <2>2, <2>4 DEF TypeOK, ChainInv, Top
  <2>6. Len(levels'[current']) = 1 /\ current' # Nil
    BY <2>1, <2>2, <2>3 DEF Dispatches
  <2> QED BY <2>2, <2>5, <2>6 DEF ChainInv, Top
<1>3. CASE Rejected \/ EndDispatch
  <2>1. /\ current \in Dispatches /\ current' = Nil /\ mode' = "idle" /\ waitMap' = waitMap
        /\ levels' = [levels EXCEPT ![current] = <<>>]
    BY <1>3, CurrentRef DEF Rejected, EndDispatch, CoReturn, callVars
  <2>2. \A d \in Dispatches \ {current} : levels'[d] = levels[d]
    BY <1>1, <2>1 DEF TypeOK
  <2>3. \A s \in Calls : waitMap'[s] # Nil => levels'[waitMap'[s]] # <<>> /\ Top(waitMap[s])' = s
    BY <2>1, <2>2, ChainFrame
  <2> QED BY <2>1, <2>3 DEF ChainInv, Top
<1>4. CASE Await
  <2>1. /\ carry \in Calls /\ Top(current) = carry /\ levels[current] # <<>>
        /\ current' = Nil /\ mode' = "idle" /\ levels' = levels
        /\ waitMap' = [waitMap EXCEPT ![carry] = current]
    BY <1>1, <1>4, CurrentRef DEF Await, ChainInv, TypeOK
  <2>2. \A s \in Calls : waitMap'[s] # Nil => levels'[waitMap'[s]] # <<>> /\ levels[waitMap'[s]][Len(levels[waitMap'[s]])] = s
    BY <1>1, <2>1 DEF TypeOK, ChainInv, Top
  <2> QED BY <2>1, <2>2 DEF ChainInv, Top
<1>5. ASSUME NEW s \in Calls, NEW data \in BOOLEAN, Answer(s, data) PROVE ChainInv'
  <2>1. /\ waitMap[s] # Nil /\ waitMap[s] \in Dispatches /\ levels[waitMap[s]] # <<>>
        /\ Top(waitMap[s]) = s /\ levels[waitMap[s]] \in Seq(Calls \cup {Nil})
    BY <1>1, <1>5 DEF Answer, ChainInv, TypeOK
  <2>2. /\ waitMap' = [waitMap EXCEPT ![s] = Nil] /\ current' = waitMap[s] /\ at' = 1
        /\ mode' = "resume" /\ levels' = levels /\ running' /\ env' = "open"
        /\ (carry' = s \/ (carry' = Nil /\ s \in failed'))
    BY <1>5 DEF Answer, luaVars
  <2>3. \A u \in Calls : waitMap'[u] # Nil => waitMap'[u] = waitMap[u]
    BY <1>1, <2>2 DEF TypeOK
  <2>4. s # Nil
    BY DEF Calls
  <2> QED BY <1>1, <2>1, <2>2, <2>3, <2>4 DEF ChainInv, Top
<1>6. CASE Stop \/ Destroy
  <2>1. /\ current' = Nil /\ mode' = "idle" /\ \A s \in Calls : waitMap'[s] = Nil
    BY <1>1, <1>6 DEF Stop, Destroy, DestroyFrames, runVars, ChainInv
  <2> QED BY <2>1 DEF ChainInv, Top
<1> QED BY <1>2, <1>3, <1>4, <1>5, <1>6 DEF Loop

-----------------------------------------------------------------------------
(* The properties.                                                         *)

\* Every step keeps the invariant.
LEMMA LuaNext == LuaInv /\ [Next]_vars => LuaInv'
<1> SUFFICES ASSUME LuaInv, [Next]_vars PROVE LuaInv'
  OBVIOUS
<1>1. CASE Next
  <2>1. TypeOK' /\ ChainInv'
    BY <1>1, TypeScript, TypeBridge, TypeLoop, TypeEnd, ChainScript, ChainBridge, ChainLoop
       DEF Next, LuaInv
  <2>2. RegInv'
    BY <1>1, RegNext
  <2> QED BY <2>1, <2>2 DEF LuaInv, RegInv
<1>2. CASE UNCHANGED vars
  <2>1. TypeOK'
    BY <1>2 DEF vars, LuaInv, TypeOK
  <2>2. RegInv'
    BY <1>2, RegFrame DEF vars, luaVars, LuaInv, TypeOK
  <2>3. ChainInv'
    BY <1>2 DEF vars, LuaInv, ChainInv, Top
  <2> QED BY <2>1, <2>2, <2>3 DEF LuaInv, RegInv
<1> QED BY <1>1, <1>2

\* The invariant of a LuaActor holds in every reachable state.
THEOREM LuaInvCorrect == Spec => []LuaInv
  BY LuaInit, LuaNext, PTL DEF Spec

\* For any number of messages and any nesting, each dispatch in progress keeps its Lua
\* thread in the registry under an index of its own, and nothing else is kept.
THEOREM AnchorCorrect == Spec => []Anchored
<1>1. LuaInv => Anchored
  BY DEF LuaInv
<1> QED BY <1>1, LuaInvCorrect, PTL

\* Initially no call has returned.
LEMMA AskerInit == Init => AnswerToAsker
  BY DEF Init, AnswerToAsker

\* actor.call returns what was passed in to its own coroutine.
LEMMA AskerNext == LuaInv /\ AnswerToAsker /\ [Next]_vars => AnswerToAsker'
<1> SUFFICES ASSUME LuaInv, AnswerToAsker, [Next]_vars PROVE AnswerToAsker'
  OBVIOUS
<1>1. failed \subseteq failed'
  BY DEF Next, Script, ActorCall, OtherYield, RunCo, EndScript, Scripting, Bridge, PassOut, PassIn,
     TakeAnswer, LeaveNested, Inside, Loop, Dispatch, Rejected, Await, EndDispatch, Answer, Stop,
     Destroy, callVars, vars
<1>2. CASE TakeAnswer
  <2>1. /\ mode = "resume" /\ at = Len(levels[current]) /\ failed' = failed
        /\ Top(current) # Nil /\ carry \in {Top(current), Nil} /\ (carry = Nil => Top(current) \in failed)
    BY <1>2 DEF TakeAnswer, Inside, callVars, LuaInv, ChainInv
  <2>2. got' = [got EXCEPT ![Top(current)] = IF carry = Nil THEN "nil"
                                             ELSE IF carry = Top(current) THEN "answer" ELSE "wrong"]
    BY <1>2, <2>1 DEF TakeAnswer, Top
  <2> QED BY <2>1, <2>2 DEF AnswerToAsker, LuaInv, TypeOK
<1>3. CASE ~TakeAnswer
  <2>1. got' = got
    BY <1>3 DEF Next, Script, ActorCall, OtherYield, RunCo, EndScript, Scripting, Bridge, PassOut,
       PassIn, LeaveNested, Inside, Loop, Dispatch, Rejected, Await, EndDispatch, Answer, Stop,
       Destroy, vars
  <2> QED BY <1>1, <2>1 DEF AnswerToAsker
<1> QED BY <1>2, <1>3

\* Through any nesting, whatever else the actor handles meanwhile, actor.call returns the
\* answer to that call, and nil only if there was none.
THEOREM AskerCorrect == Spec => []AnswerToAsker
  BY AskerInit, AskerNext, LuaInvCorrect, PTL DEF Spec
=============================================================================
