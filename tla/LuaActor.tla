------------------------------ MODULE LuaActor ------------------------------
(***************************************************************************)
(* A LuaActor: each message runs the script's OnMessage in a Lua coroutine *)
(* of its own, inside a C++ coroutine that turns what the script yields    *)
(* into Call or ClusterCall.  actor.run_co nests further Lua coroutines and*)
(* passes their signals out and the answers in.                            *)
(*                                                                         *)
(* One actor is modelled; it runs one message at a time (SerialActors).    *)
(* Answers come from outside, at most one to a session that is waited for, *)
(* and always one (CoroutineCall: every such call has a timeout).  A Lua   *)
(* coroutine is the number of the call it waits in, the data of an answer  *)
(* the number of the call it answers.                                      *)
(***************************************************************************)
EXTENDS Naturals, Sequences, SequencesExt

CONSTANTS
  MaxMessages,  \* bound on the messages of a behaviour
  MaxCalls,     \* bound on the calls of its scripts
  MaxDepth      \* bound on nested run_co, OnMessage's own coroutine included

ASSUME LuaActorAssumption ==
  MaxMessages \in Nat \ {0} /\ MaxCalls \in Nat /\ MaxDepth \in Nat \ {0}

Dispatches == 1..MaxMessages   \* the C++ coroutines of OnCoroutineMessage
Refs == 1..MaxMessages         \* indexes of the Lua registry
Calls == 1..MaxCalls           \* a call and the session it is given
Nil == 0

VARIABLES
  running,   \* until Stop, its drain done, destroys the frames
  env,       \* env_: open, or closed by lua_close
  registry,  \* what each index holds: a dispatch, whose Lua thread it anchors, or Nil
  free,      \* the indexes luaL_ref hands out, the one freed last first
  ref,       \* thRef of each dispatch, Nil for LUA_NOREF
  levels,    \* its Lua coroutines, OnMessage first; each the call it waits in or Nil
  started, calls,
  current,   \* the dispatch the worker runs, or Nil
  at, mode,  \* which of its coroutines is active and what goes on there
  carry,     \* the value that is passed out or in: a call, or Nil
  waitMap,   \* who waits for each session, or Nil
  failed,    \* history: calls answered without data
  got,       \* history: what actor.call returned
  late       \* history: frames destroyed after lua_close

luaVars  == <<env, registry, free, ref>>
runVars  == <<current, at, mode, carry>>
callVars == <<waitMap, calls, failed>>
vars == <<running, env, registry, free, ref, levels, started, calls, current, at, mode, carry,
          waitMap, failed, got, late>>

Init ==
  /\ running = TRUE /\ env = "open"
  /\ registry = [r \in Refs |-> Nil] /\ free = [r \in Refs |-> r]
  /\ ref = [d \in Dispatches |-> Nil] /\ levels = [d \in Dispatches |-> <<>>]
  /\ started = 0 /\ calls = 0
  /\ current = Nil /\ at = 0 /\ mode = "idle" /\ carry = Nil
  /\ waitMap = [s \in Calls |-> Nil]
  /\ failed = {} /\ got = [c \in Calls |-> "none"] /\ late = {}

-----------------------------------------------------------------------------
(* The registry and the C++ frame.                                         *)

BadRelease(r) == <<r, r>> \o free   \* mutant: a copied LuaRegRef frees the index again
Release(r) == <<r>> \o free         \* ~LuaRegRef: luaL_unref

\* co_return, from whichever line: the locals of the frame are destroyed.
CoReturn(d) ==
  /\ registry' = [registry EXCEPT ![ref[d]] = Nil] /\ free' = Release(ref[d])
  /\ ref' = [ref EXCEPT ![d] = Nil] /\ levels' = [levels EXCEPT ![d] = <<>>]
  /\ current' = Nil /\ at' = 0 /\ mode' = "idle" /\ carry' = Nil
  /\ UNCHANGED env

\* DestroyAllCoroutines with the state open: the waiting frames give up their indexes.
Waiters == {waitMap[s] : s \in Calls} \ {Nil}
DestroyFrames ==
  /\ registry' = [r \in Refs |-> IF registry[r] \in Waiters THEN Nil ELSE registry[r]]
  /\ free' = SetToSeq({ref[d] : d \in Waiters}) \o free
  /\ ref' = [d \in Dispatches |-> IF d \in Waiters THEN Nil ELSE ref[d]]
  /\ levels' = [d \in Dispatches |-> IF d \in Waiters THEN <<>> ELSE levels[d]]
  /\ waitMap' = [s \in Calls |-> Nil]

\* OnCoroutineMessage up to its first lua_resume.
Dispatch ==
  /\ running /\ env = "open" /\ current = Nil /\ started < MaxMessages
  /\ started' = started + 1
  /\ LET d == started + 1  r == Head(free)
     IN /\ registry' = [registry EXCEPT ![r] = d] /\ free' = Tail(free)
        /\ ref' = [ref EXCEPT ![d] = r] /\ levels' = [levels EXCEPT ![d] = <<Nil>>]
        /\ current' = d /\ at' = 1 /\ carry' = Nil
  \* No OnMessage function, no cmsgpack, or a payload that cannot be unpacked.
  /\ mode' \in {"script", "rejected"}
  /\ UNCHANGED <<running, env, callVars, got, late>>

Rejected ==
  /\ mode = "rejected"
  /\ CoReturn(current)
  /\ UNCHANGED <<running, started, callVars, got, late>>

-----------------------------------------------------------------------------
(* What a script does between two yields.                                  *)

Scripting == mode = "script" /\ UNCHANGED <<running, luaVars, started, current, waitMap,
                                            failed, got, late>>

\* actor.call or actor.cluster_call: pack, then coroutine.yield with the signal.
ActorCall ==
  /\ Scripting /\ calls < MaxCalls
  /\ calls' = calls + 1
  /\ levels' = [levels EXCEPT ![current][at] = calls + 1]
  /\ mode' = "yield" /\ carry' = calls + 1
  /\ UNCHANGED at

\* coroutine.yield with no signal, a call to actor 0 or to an empty name.
OtherYield ==
  /\ Scripting
  /\ mode' = "yield" /\ carry' = Nil
  /\ UNCHANGED <<levels, calls, at>>

\* actor.run_co: create a coroutine and resume it.
RunCo ==
  /\ Scripting /\ Len(levels[current]) < MaxDepth
  /\ levels' = [levels EXCEPT ![current] = Append(@, Nil)]
  /\ at' = at + 1
  /\ UNCHANGED <<calls, mode, carry>>

\* The function ends, or an error is raised in it, by a bridge function too.
EndScript ==
  /\ Scripting
  /\ mode' \in {"return", "error"}
  /\ UNCHANGED <<levels, calls, at, carry>>

-----------------------------------------------------------------------------
(* run_co of the coroutine around the active one, and actor.call.          *)

Inside == current # Nil /\ UNCHANGED <<running, luaVars, started, current, callVars, late>>

\* The nested coroutine is not dead: yield its signal.
PassOut ==
  /\ Inside /\ mode = "yield" /\ at > 1
  /\ at' = at - 1
  /\ UNCHANGED <<levels, mode, carry, got>>

BadPassed == Nil      \* mutant: the nested coroutine is resumed with nothing
Passed == carry       \* coroutine.resume(co, respPacked)
PassIn ==
  /\ Inside /\ mode = "resume" /\ at < Len(levels[current])
  /\ at' = at + 1 /\ carry' = Passed
  /\ UNCHANGED <<levels, mode, got>>

\* The end of actor.call; cmsgpack.unpack may raise an error.
TakeAnswer ==
  /\ Inside /\ mode = "resume" /\ at = Len(levels[current])
  /\ LET c == levels[current][at]
     IN got' = [got EXCEPT ![c] = IF carry = Nil THEN "nil"
                                  ELSE IF carry = c THEN "answer" ELSE "wrong"]
  /\ levels' = [levels EXCEPT ![current][at] = Nil]
  /\ mode' \in (IF carry = Nil THEN {"script"} ELSE {"script", "error"})
  /\ carry' = Nil
  /\ UNCHANGED at

\* The nested coroutine is dead: return its result, or raise its error again,
\* which the script around it may catch.
LeaveNested ==
  /\ Inside /\ mode \in {"return", "error"} /\ at > 1
  /\ levels' = [levels EXCEPT ![current] = Front(@)] /\ at' = at - 1
  /\ mode' = "script" \/ (mode = "error" /\ mode' = "error")
  /\ UNCHANGED <<carry, got>>

-----------------------------------------------------------------------------
(* The yield loop.                                                         *)

\* A valid signal: co_await stores the frame and the worker is free.
Await ==
  /\ mode = "yield" /\ at = 1 /\ carry # Nil
  /\ waitMap' = [waitMap EXCEPT ![carry] = current]
  /\ current' = Nil /\ at' = 0 /\ mode' = "idle" /\ carry' = Nil
  /\ UNCHANGED <<running, luaVars, levels, started, calls, failed, got, late>>

\* An invalid one ends the dispatch, as a result or an error of OnMessage does.
EndDispatch ==
  /\ at = 1
  /\ mode \in {"return", "error"} \/ (mode = "yield" /\ carry = Nil)
  /\ CoReturn(current)
  /\ UNCHANGED <<running, started, callVars, got, late>>

\* ResumeWaiting with the answer to s: an error or empty data becomes nil.
Answer(s, data) ==
  /\ running /\ env = "open" /\ current = Nil /\ waitMap[s] # Nil
  /\ waitMap' = [waitMap EXCEPT ![s] = Nil]
  /\ current' = waitMap[s] /\ at' = 1 /\ mode' = "resume"
  /\ IF data THEN carry' = s /\ UNCHANGED failed
     ELSE carry' = Nil /\ failed' = failed \cup {s}
  /\ UNCHANGED <<running, luaVars, levels, started, calls, got, late>>

-----------------------------------------------------------------------------
(* The end.                                                                *)

\* ActorSystem::Stop, once the workers have ended.
Stop ==
  /\ running /\ current = Nil /\ env = "open"
  /\ running' = FALSE
  /\ DestroyFrames
  /\ UNCHANGED <<env, started, calls, runVars, failed, got, late>>

\* The last reference goes: the members of LuaActor, env_ with lua_close among them,
\* are destroyed before the base class, whose destructor destroys the frames.
Destroy ==
  /\ env = "open" /\ current = Nil
  /\ env' = "closed" /\ late' = Waiters
  /\ ref' = [d \in Dispatches |-> Nil] /\ levels' = [d \in Dispatches |-> <<>>]
  /\ waitMap' = [s \in Calls |-> Nil]
  /\ UNCHANGED <<running, registry, free, started, calls, runVars, failed, got>>

-----------------------------------------------------------------------------
Script == ActorCall \/ OtherYield \/ RunCo \/ EndScript
Bridge == PassOut \/ PassIn \/ TakeAnswer \/ LeaveNested
Loop   == Dispatch \/ Rejected \/ Await \/ EndDispatch
            \/ \E s \in Calls, data \in BOOLEAN : Answer(s, data)

Next == Script \/ Bridge \/ Loop \/ Stop \/ Destroy

Spec == Init /\ [][Next]_vars

-----------------------------------------------------------------------------
(* Properties.                                                             *)

\* While the Lua state is open, every dispatch in progress, suspended or not, holds an
\* index of its own under which the registry keeps its Lua thread from the collector,
\* and no other thread is kept.
Anchored ==
  env = "open" =>
    /\ \A d \in Dispatches :
         IF d = current \/ d \in Waiters THEN ref[d] # Nil /\ registry[ref[d]] = d
         ELSE ref[d] = Nil
    /\ \A r \in Refs : registry[r] # Nil => ref[registry[r]] = r

\* Through any nesting, and whatever other messages the actor handles meanwhile,
\* actor.call returns the answer to that call, and nil only if there was none.
AnswerToAsker ==
  \A c \in Calls : /\ got[c] # "wrong"
                   /\ got[c] = "nil" => c \in failed

\* The comment of LuaRegRef: the registry is released while the Lua state is open.
UnrefsOpenState == late = {}
=============================================================================
