# balabala: TLA+ models and proofs

balabala is a C++20 actor framework (`src/net_actor`): actors with a double mailbox run by a pool
of worker threads, Skynet-style coroutines (`co_await Call`, `Sleep`), one timer thread, an
epoll reactor with optional sub-reactors, TCP connections bound to actors, Lua actors, and a
cluster transport over which actors of several nodes call each other. The modules here model its
concurrent core and its protocols, TLC checks them on small instances, and TLAPS proves most of their
safety properties for every instance.

## 1. The system

| component | state | operations | interacts with |
|---|---|---|---|
| Actor scheduler (`ActorSystem.cc`, `Actor.cc`) | `actors_`, per actor two `SpinLockQueue`s and `scheduled_`, `readyQueue_`, `running_`, workers | `Send`, `ProcessOne`, `workerLoop`, `RegisterActor`, `UnregisterActor`, `Start`, `Stop` | everything: the only way into an actor is `Send` |
| Timers (`Timer.cc`) | heap, `timerMap_`, `running_`, a mutex and a condition variable | `SetTimeout`, `SetInterval`, `CancelTimer`, `timerLoop`, `Stop` | called from any thread, calls `Send` |
| Coroutines (`Actor.cc`, `Coroutine.h`) | `nextSessionId_`, `waitMap_`, `responseMap_` per actor | `Call`, `Sleep`, `RespondToCall`, `OnMessage` | `Send`, timers |
| Names and links (`ActorSystem.cc`) | `nameToActor_`, `actorToName_`, `linkMap_` | `RegisterName`, `UnregisterName`, `LinkActor`, `UnlinkActor`, `notifyActorDown` | `UnregisterActor`, `Stop`, `Send` |
| Reactor (`EventLoop.cc`, `Epollor.cc`) | epoll interest, `callbacks_`, `mapConn_`, `pendingTasks_`, an eventfd, `stop_` | `run`, `RunInLoop`, `QueueInLoop`, `AddEvent`, `ModifyEvent*`, `RemoveConnection`, `Stop` | its own thread; workers and the acceptor's loop queue tasks |
| Connections (`ConnectionBase.cc`, `Acceptor.cc`, `Connector.cc`) | socket, `outputBuffer_`, for a dialed one `connecting_` | `Send`, `sendInLoop`, `HandleRead`, `HandleWrite`, `HandleAccept`, `Connect` | reactor callbacks, `SendByFd` |
| fd bindings (`ActorSystem.cc`) | `fdToActor_`, `fdToLoop_` | `BindFdToActor`, `UnbindFd`, `SendByFd` | connections |
| Output buffer (`Buffer.h`) | a vector and two indexes | `Append`, `Peek`, `Retrieve`, `MakeSpace` | one connection, on its loop |
| Packet codec (`ClusterProxy.cc`) | the receive buffer of each fd | `ClusterPacket::Encode`, `Decode`, the gateway's decode loop | connections, in pieces of any size |
| Cluster transport (`ClusterProxy.cc`) | `nodeToFd_`, `fdToNode_`, `knownNodes_` | `ConnectToNode`, handshake, `RegisterNodeFd`, `OnNodeDisconnected`, `SendPacket` | connections, the gateway actor |
| Cluster calls (`Actor.cc`, `ActorSystem.cc`) | sessions of the caller; the transports of a node | `ClusterCall`, `ClusterProxy`, `RespondRemote`, `SendToRemote`, delivery by name | names, calls, the transport |
| Lua (`LuaActor.cc`, `LuaBridge.cc`, `lua/actor_bridge.lua`) | a Lua state per actor, its registry, a Lua coroutine per message | `OnCoroutineMessage`, `actor.call`, `actor.run_co` | calls |
| Locks (`src/Util`) | a spin flag, a queue | `push`, `pop`, `empty` | all of the above |

What makes it hard. Workers, senders, the timer thread and the loops are real threads, and every
structure has a lock of its own: what is checked under one lock is used under another
(`LinkActor`, `UnregisterActor`, `IsMailboxEmpty`, the transport's `connLock_` and `nodesLock_`). The
scheduler avoids double scheduling with one atomic flag and a double check. Answers race timeouts. A stopping
system still runs handlers, which still send. Edge-triggered epoll reports an event once. Everything
between loop, gateway and senders names a connection by its descriptor, and the kernel hands a closed
number out again. An answer from another node finds its call by node, name and session alone, while names
change hands and nodes restart. `PROJECT.json` lists these hazards line by line with the properties that
cover each.

## 2. Modules

| module | models | abstraction |
|---|---|---|
| `SerialActors` | what the scheduler promises: an actor takes one message at a time, FIFO within each of its two mailboxes | the mailboxes are two sequences, the handler the message it works on; either mailbox may be chosen, because a priority message can arrive after the priority mailbox was found empty |
| `ActorScheduler` | `Send` in its four steps, `ProcessOne`, `workerLoop` label by label, `Stop` with join and drain | a spin-locked section or an atomic operation is one step; `shared_ptr` copies keep an unregistered actor alive, Stop's raw pointers do not |
| `Timer` | `TimerManager` with the mutex, the condition variable (no memory, may wake spuriously), the clock | the heap is a set whose top is an earliest entry; time advances in units |
| `CoroutineCall` | sessions, `waitMap_`, `responseMap_`, timers of calls, the end of an actor | builds on SerialActors: one handler step at a time per actor, a FIFO mailbox |
| `LuaActor` | the Lua coroutine of each message, the yield loop, nested `run_co`, the registry of the Lua state, Stop and the destructor | one actor; a script is the choice of what it yields, nests, returns or raises; the answer of a call is the number of the call; builds on CoroutineCall for "one answer or timeout for every call" |
| `ActorRegistry` | name maps and links, lock by lock, by any thread | a message is the fact that it was sent |
| `Reactor` | one connection: acceptor, loop, workers, peer, stop | bytes are units `<<sender, k>>`; the socket is a send buffer of `Room` units |
| `ByteQueue` | what a connection needs of its output buffer | a sequence of bytes |
| `Buffer` | `Buffer.h`: array, two indexes, compaction, growth | `resize` keeps the old bytes and zeroes the new ones |
| `Codec` | `Encode` and `Decode` of a packet as pure operators: field order, length fields, the limit on the body | a byte is a digit of base `Base`, so that "16 bits" and "32 bits" are lengths of a few digits |
| `PacketChannel` | what a cluster connection promises of its packets | sequences of the packets sent, delivered and refused |
| `PacketStream` | one direction of a cluster connection, bytes included, from `SendPacket` to the gateway's decode loop, with a second Connected and packets too long to be sent | composes Buffer and Codec; the loops' steps are those of Reactor, taken whole |
| `ClusterTransport` | one node: dialing thread, loop, gateway, senders, two name maps; the nodes on the other side; the descriptor numbers | a packet arrives whole (PacketStream); a callback is one step, its code running on one thread |
| `ClusterCall` | actors of several nodes that call each other by name, directly or through a `ClusterProxy`; restarts | the network loses and reorders packets (ClusterTransport shows when); a call with its timer is one step (CoroutineCall has the steps) |
| `*_proofs` | the theorems about the module of that name, `ActorSystem_proofs` those about Timer and ActorRegistry, `PacketStream_proofs` those about Buffer and Codec too (section 5) | |
| `MC*` | TLC constants and symmetry | |

The modules depend on each other by what one promises the next. ActorScheduler implements SerialActors under the
refinement mapping that keeps the mailboxes and maps `busy[a]` to the message that the thread inside
`OnMessage` of `a` has in hand (`ImplementsSerialActors`). CoroutineCall relies on that promise and on
nothing else of the scheduler. ClusterCall and LuaActor rely on CoroutineCall. PacketStream implements
ByteQueue (its sender's buffer) and PacketChannel (`sent`, `delivered` and `lost` as they are; a packet is intact if
its fields fit their widths, and the connection is `racing` if the receiver dialed it and is told Connected twice), and ClusterTransport takes packets as whole because of that.

How state corresponds to code. Variables carry the names of the members they stand for, without the underscore
(`priorityMailbox`, `readyQueue`, `scheduled`, `waitMap`, `heap`, `nodeToFd`, `pendingTasks_` as `pending` and its
swapped-out copy as `batch`). `pc[t]` is the place of thread `t` between two atomic steps, so a label
such as `recheckP` is the point between two reads of `workerLoop`. `call[t]` is a `Send` in progress
on thread `t`. Some variables are history only, read by no guard and by no update of the others: `owed` and `load` in ActorScheduler,
`first` and `delivered` in Timer, `resumed` in CoroutineCall, `failed`, `got`, `late` in LuaActor, `leaving`, `links`, `quit`, `downs`, `late`
in ActorRegistry, `accepted`, `received`, `inbox` in Reactor, `taken` in Buffer, `delivered`, `lost` and `broken` in PacketStream,
`told` and `strayed` in ClusterTransport (with the connections named in messages and removals), `asked`, `handled` and the `call` field of messages in ClusterCall. `PROJECT.json`, "map", gives the source
lines of every definition. Definitions whose name begins with `Bad` are the mutants of the
definition that follows them; no action uses them.

## 3. Runs

| run | instance | shows |
|---|---|---|
| `actor_scheduler` | 2 actors, 2 workers, 1 sender, 3 messages, batch 2, 2 drain rounds | serial processing, no lost wakeup, the drain's promise, refinement of SerialActors |
| `actor_scheduler_live` | 1 actor, 2 workers, batch 1 | every message of a running system is taken; Stop returns |
| `stop_use_after_free` | as the first, handlers of the drain may unregister | expected violation |
| `timer` | 2 timers, delays 0 and 2, intervals 0 (none, or refused) and 1, clock to 3 | the heap, cancelling, stopping; every timer fires |
| `coroutine_call` | 2 actors, one may end, 2 calls, sleeps or plain messages, 1 message from outside, 2 answers | answers, timeouts, sessions; every timed wait ends |
| `lua_actor` | 3 messages, 3 calls, 3 nested coroutines | the registry of the Lua state, the way of an answer |
| `actor_registry` | 3 actors, 2 names, 2 threads, two actors may link to the third | names and links |
| `reactor` | both modes, 2 workers, messages of 2 units, a socket of 1 | bytes, tasks, life cycle, liveness |
| `packet_stream` | 4 kinds of packets, 3 sent, perhaps a second Connected, bytes of base 3, bodies up to 26 bytes, a socket of 30, reads of 26, a buffer of 40 | Buffer, the codec and the decode loop |
| `cluster_transport` | 2 other nodes, one dialed, 2 connections on 2 numbers, 2 events of any kind (a fault, a protocol error, a dial, a packet to send) | the maps of the transport |
| `cluster_call` | 2 nodes, 3 actors, 2 names, 2 transports, 2 calls, 2 answers, 1 change of names, 1 restart | calls between nodes |
| `packets_reach_wrong_node` | as `cluster_transport` | expected violation |

What the properties say:

- `SerialProcessing`: no two threads, workers or the draining one, are in `ProcessOne` of one actor.
  `NoLostWakeup`: a registered actor with a message has a queue entry, or a thread that is bound to
  make one or to look again. `StopDrains`: every message that waited at an actor when the workers had been joined has been given to its handler when
  Stop returns, if these and the messages pushed to the same actor since are no more than the drain's rounds of a batch
  (`3 * 64` in the code), however many wait for others. In the run 3 messages meet a budget of 4; it also holds with `MaxBatch = 1`,
  where an actor can have more than its budget of 2. `MessagesHandled`, `StopTerminates`: liveness.
- `MapMatchesHeap`: `timerMap_` holds exactly the uncancelled timers of the heap. `NeverEarly`: a
  timeout is delivered once and not before its delay, the k-th tick not before k intervals.
  `CancelIsFinal`: after `CancelTimer` only what was already collected is sent. `QuietAfterStop`,
  `SetTimerFires`, `StopReturns`: nothing is sent after Stop, every timer fires, and Stop returns
  even when its notification falls between the predicate and the sleep.
- `ResponsesMatch`: a response reaches only the coroutine that asked, from the actor it asked or its
  own timer. `ResumedOnce`, `NeverStranded`: answer and timeout may race, but the coroutine is resumed once
  and something that will resume it exists all the time. `NoLeftoverTimer`, `CallResponseTaken`:
  nothing is left behind by a finished call. `WaitEnds`: liveness, mutual calls included.
- `Anchored`: while the Lua state is open, each message in progress has one index of the registry, which keeps its Lua
  thread from the collector, and no ended one has any; freed twice, an index would be given to two
  messages. `AnswerToAsker`: `actor.call` returns the answer to that call through every level of `run_co`, whatever the actor
  handled in between, and nil only if there was no answer, or one without data.
- `ReverseNames`: whatever order names are taken, taken over and given up in, an entry of
  `actorToName_` is confirmed by `nameToActor_`. (The converse does not hold: an actor with two names
  keeps one reverse entry, and the other name outlives it.) `WatchersInformed`, `UnlinkedIsQuiet`:
  a link that was in place before the exit is answered; a link given up before is not.
- `BytesInOrder`: what the peer read, the socket holds, the output buffer holds and `sendInLoop` has
  still to write is, concatenated, what the loop accepted. `NoLostTask`: a queued task will be looked
  at. `Lifecycle`: Connected first, Disconnected at most once and last. `BufferedIsWatched`: on a loop
  that accepts its own connections, buffered data is watched for writing. `BufferDrains`,
  `CloseIsNoticed`, `LoopEnds`: liveness.
- `ImplementsByteQueue`: Buffer gives up the bytes it took, in order, through compaction and growth.
  `ImplementsPacketChannel`: packets arrive one for one, in order and as sent, however the stream is cut; a packet
  whose names or body exceed their fields may arrive changed or end the channel, one whose length is no positive `int` is not sent, and
  nothing else suffers for either. Only where the receiver is told Connected a second time may the channel end at any packet.
  `NothingStuck`: what was sent is delivered in the end, or the connection has ended with an error, or that Connected threw part of a packet away.
- `MapsAgree`: `nodeToFd_` and `fdToNode_` are inverse to each other. `MappedIsServed`: a mapped number stands for a
  connection the loop serves, with that node, or its end is still in the gateway's mailbox. `AliveIsMapped`: a node listed alive
  can be sent to. `ClosedIsForgotten`: no node stays mapped to a connection that is gone or that the node has closed.
  All but `AliveIsMapped` speak of behaviours in which no removal that the gateway asked for has hit a later connection with
  its number (`strayed`; section 4, 9).
- `NoInterference`: ClusterCall, calls through a proxy and sleeps of one actor share one session counter and one
  `waitMap_`; an answer that is about to resume a coroutine belongs to what it waits for, or was asked for by somebody else
  (a former holder of the name, the process before its restart). `HandledOnce`: a request is taken up at most
  once, though two transports are tried. `NeverStranded`: as in CoroutineCall, through losses, restarts and changes of names.

The two expected violations are the first two entries of section 4.

Bounds and why they are enough. The scheduler's races are between one releasing worker, one other
worker and one sender: two workers, one sender and three messages (two for one actor, so that
the batch limit and the double check both happen) reach each of its labels; a third message lets a handler
send during the drain. The batch (64 in the code) and the drain rounds (3) are 2, so that both limits are
hit. Two timers suffice for "an earlier one is added" and for ties; the clock runs past both delays.
Two calls allow a call in progress on both actors, and two in progress on one; two answers allow one
call to be answered twice. Three Lua messages allow two to take an index that a third gave up. One thread per
racing operation and a third actor as the shared target cover the registry. A message of two units
and room for one force a partial write, EAGAIN, buffering and HandleWrite. In PacketStream a packet that is sent has between 24
and 31 bytes, so that a socket of 30 and reads of 26 cut it at any place, put parts of two into one read, and can complete two at once; a buffer
of 40 has to compact and to grow; in base 3 a name of 9 bytes and a body of 27 are over their limits, and 41 bytes are no positive `int`. Two connections and two numbers
are what it takes for two connections with one node at once, for one after the other on the same number, and for a dialed and an
accepted one that cross; two events are what it takes for a removal to hit the wrong one (two protocol errors, or one and a FIN). With
`MaxEvents = 3` the same four properties were checked once (2.7 million states), and the three invariants with three connections (1.6 million
with two numbers; with one number and `MaxEvents = 3` 0.4 million). Two calls let one be in progress when another, or the process after a restart, uses the same session.
Deadlock checking is off everywhere because a stopped system, and one whose budgets of messages are used up, does stop.

Fairness. Threads that have work keep running (weak fairness per worker, sender in the middle of a call,
timer thread, loop thread, gateway, dialing thread), handlers return, the clock advances, a notified waiter wakes, the peer
reads, a connect() is answered. What the application decides (registering, sending, calling, answering, stopping) and what
the network may do (closing, resetting, sending) has none. No strong fairness is
assumed: the spin locks are held for a bounded number of instructions and each locked section is one
step. LuaActor and ClusterCall are checked for safety only: that a call ends is `WaitEnds` of CoroutineCall.

## 4. What the code does not keep

Statements that comments, documents or the evident purpose of the code make and that do not hold. Each is a definition of the
module named; the first two are runs, and for each of the others TLC finds a counterexample in about a minute at most when the
definition is put into the configuration given (as an invariant, `DialIsReported` as a property).

1. `NoUseAfterFree` (run `stop_use_after_free`): Stop's drain uses raw pointers that a handler's `UnregisterActor` can
   free (`ActorSystem.cc:58`; `ActorSystem.h:149` says the store is made to avoid that).
2. `PacketsReachTheirNode` (run `packets_reach_wrong_node`): the task of a cross-thread `Send` finds its connection by
   number again; if the number was reused meanwhile, the packet goes to another node
   (`ConnectionBase.cc:97`, whose comment says the data is dropped).
3. `UnrefsOpenState` (LuaActor, `LuaActor.cfg`): when the last reference to a Lua actor goes while a script waits in a call,
   `~LuaActor` closes the Lua state with its member `env_`, and only then `~Actor` destroys the suspended frame, whose `LuaRegRef` calls
   `luaL_unref` on the closed state. `LuaActor.cc:16-19` argues that this cannot happen, for `Stop` only; `UnregisterActor`
   does not destroy frames before.
4. `SleepsToNearest` (Timer, `Timer.cfg`): a notification for a nearer timer does not shorten the timer thread's sleep,
   because the predicate of `wait_for` asks whether a timer is already due (`Timer.cc:115`).
5. `ResponsesAreTaken` (CoroutineCall, `CoroutineCall.cfg`): each `Sleep` leaves its wakeup message in `responseMap_`, since
   `SleepAwaiter::await_resume` takes nothing out.
6. `EveryLinkAnswered` (ActorRegistry, `ActorRegistry.cfg`): a link inserted after its target was
   unregistered is never answered (`ActorSystem.cc:349`).
7. `NeverUnwrittenAtR` (Reactor, `SubLoops = {TRUE}`): with sub-reactors, a `Send` that runs before
   the connection's `AddEvent` cannot arm EPOLLOUT, and the rest of its data stays in the buffer
   (`EventLoop.cc:114`, `227`).
8. `ConnectedIsReachable`, `ConnectedOnce`, `DialIsReported` (ClusterTransport, `ClusterTransport.cfg`): when two nodes connect to each
   other at once, the end of the replaced connection, or a handshake read late, can leave a node without a number though a connection
   with it is served (`ClusterProxy.cc:440`, `522`); `Connector.cc:141` may report Connected a second time; an edge
   reported between `AddEvent` and `AddConnectionRaw` (`Connector.cc:121-137`) is lost, and the outcome of the connect is never
   reported.
9. `RemovalsHit` (ClusterTransport, `ClusterTransport.cfg`): a protocol error makes the gateway ask the loop to remove the number it came
   on (`ClusterProxy.cc:253-260`). Another protocol error (what Decode refuses comes in several pieces, and each can be refused
   anew) or a FIN behind it (`ConnectionBase.cc:132-143`) has that number removed as well. The removal of the gateway that comes after the
   other can hit the next connection with the number, which is closed without a word to the gateway: its node stays mapped, and a further
   connection on the number leaves it to two nodes in `nodeToFd_`. So `MapsAgree`, `MappedIsServed` and `ClosedIsForgotten` are promised
   only until then.
10. `AnswersTheAsker` (ClusterCall, `ClusterCall.cfg`): after a name was taken over or a node restarted, an answer to the former caller
   resumes a coroutine of the present one that happens to wait for the same session.
11. `DataArrives` (ClusterCall, `ClusterCall.cfg`): `SendToRemote` moves the payload into the packet it builds for the first transport
   (`ActorSystem.cc:490`); if that one refuses it, the next sends a packet without data. It also sends none of what a message holds in
   a shared buffer, which `ClusterProxy.cc:40` does.

Besides: when `Connector.cc:141` reports Connected a second time after data has come (item 8), the gateway empties the receive buffer with
what there is of a packet (`ClusterProxy.cc:233`) and decodes what follows from the middle; a packet of 2 GB or more is dropped, since its
length is no positive `int` (`ClusterProxy.cc:428`, `ConnectionBase.cc:58`), and `SendPacket` returns true; a reset connection is neither reported nor removed (`ConnectionBase.cc:130`), so that a node stays mapped to it, which is why
`ClosedIsForgotten` speaks of closed ones; a failed connect closes its number before the removal of its entry runs, so that an accept in
between can lose its connection; a successful answer without data is a timeout to a Lua script (`LuaActor.cc:226`).

## 5. Proofs

All theorems are about the specification without fairness, for any constants that satisfy the assumption of the
module (`SchedulerAssumption`, `TimerAssumption`, `CallAssumption`, `RegistryAssumption`, `ReactorAssumption`,
`BufferAssumption`, `CodecAssumption`, `StreamAssumption`, `TransportAssumption`, `ClusterCallAssumption`, `LuaActorAssumption`: thread
kinds are disjoint, bounds are naturals, special values are distinct, and the like). One of them leaves a case out: `StreamAssumption` has
sessions of 32 bits, as their type has, but also packets of less than 4 GB. Of a longer one `Encode` would cut the length in front, and the
packets behind it would be lost too; the code does not refuse it. Packets of 2 to 4 GB are not left out: they are the ones `RefusePacket`
loses. Every proof module has a theorem of type correctness, which is why only
few runs evaluate `TypeOK`. None of the other properties is inductive as the runs state it, so each theorem
rests on an invariant that adds what the code knows implicitly.

`ActorScheduler_proofs`: `InvCorrect` (`[]IInv`), `SerialCorrect` (`SerialProcessing`), `WakeupCorrect`
(`NoLostWakeup`). `SerialProcessing` says nothing of the worker that has the actor's id in
hand but has not begun, nor of the queue entry another worker could pop. `IInv` adds the right to run an
actor as a token: `TokenInv` says that `readyQueue_` has no duplicates and that of a queue entry, a
`Send` that has won `scheduled_`, and a worker between its pop and its release there is at most one for
each actor, and only with `scheduled_` set. `WakeInv` says that a worker that cleared `scheduled_`
and has already passed one of the two reads of its double check has missed nothing: a message in a queue
it has passed belongs to a `Send` that has yet to try `scheduled_`, or to one that has found it set.
`FreshInv` says that an id that was not handed out is known to nobody, and `JoinInv` that workers are off before
Start and exited once Stop has joined them, which is why the drain runs alone. Each part has one lemma per group of actions
(`TokenSend`, `WakeWorker`, ...), and frame lemmas for the actions that do not concern it.
`Refinement` (`Spec => ImplementsSerialActors`): the initial states map to
initial states, and each action maps to `Deliver`, `Begin`, `Finish` or a stutter. That a pop is a `Begin` needs
`SerialProcessing` (otherwise `busy` could already hold a message), and `HandInv`: a thread inside
`OnMessage` has an actor and a message in hand. Together with `IInv` they are `RInv` (`RInvCorrect`).
`DrainCorrect` (`StopDrains`): the drain makes a bounded number of rounds of bounded batches, so that it is a matter of counting.
`load[a]` is how many messages waited at `a` when the drain began and how many were pushed to it since,
so that `Done(a) == load[a] - Waiting(a)` is how many were taken from it: a push raises both terms (`PushWaits`), a pop of `a` lowers
`Waiting(a)` alone (`PopWaits`), and `Done(a)` never falls (`DoneGrows`). An actor that still owes a message has given up a full batch in
every completed round, which makes `Done(a)` at least the `Quota` of the rounds and of the batch in progress (`QuotaInv`), and a
visit that found something has set `anyProcessed`, so that another round follows (`ProgressInv`). When Stop has returned, an actor that
owes a message would have `Done(a) >= MaxRounds * MaxBatch` and one more waiting, so that `load[a]` is above the budget. `NumberInv`,
that every message has a number of its own and is at one place, and `OwedInv`, that what is owed is on nobody's way, keep a message that
was taken from being owed again. `DrainInv` is the conjunction (`DrainInvCorrect`). Nothing is assumed of `MaxSends`.

`ActorSystem_proofs`, Timer: `MapCorrect` (`MapMatchesHeap`) from `StoreInv`, which adds which stage of `addTimer` a timer in the heap
or a cancelled one has passed; `CancelCorrect` (`CancelIsFinal`) from it; `NeverEarlyCorrect`
(`NeverEarly`) from `ExpiryInv`, that an entry still to fire expires no earlier than the messages made so far
allow; `QuietCorrect` (`QuietAfterStop`) from the fact that the thread has ended when it was joined.

`CoroutineCall_proofs` has three layers. `SessionInv` says that a session not handed out is in no map and has no
timer, and that the awaiters work on one that was: it gives `ResumedOnceCorrect`. `MatchInv` adds `AskInv`, that a
request with a session (in a mailbox, being handled, or kept in a frame) belongs to a call its sender
made to its receiver, and `FiredInv`, that a timeout in a mailbox came from a timer that fired: it gives
`ResponsesMatchCorrect`. `WaitInv` adds the three properties of timers and waits:
`NeverStrandedCorrect`, `NoLeftoverTimerCorrect`, `CallResponseTakenCorrect`. That a resumed sleep leaves no running
timer follows only from the layer below: nobody but its timer can have answered it.

`ActorSystem_proofs`, ActorRegistry: `ReverseNamesCorrect` (`ReverseNames`); `LinkInvCorrect` (`[]LinkInv`) with
`UnlinkedCorrect` (`UnlinkedIsQuiet`) and `InformedCorrect` (`WatchersInformed`). `LinkInv` follows a link through its
stages: in `linkMap_` until the target leaves, then in the list a thread is working off, then answered
(`AnswerInv`); one given up in time is at none of these places (`QuietInv`).

`Reactor_proofs`: `Reactor_NoLostTask` is inductive with the types. `Reactor_BytesInOrder` needs `OrderInv`, that `sendInLoop`
has something left to write only in its own step, and `Accepting`, what the loop has in hand then. `Reactor_Lifecycle` and
`Reactor_BufferedIsWatched` follow from `Shape`, which relates the stage of the connection's setup, the round of the loop, the removal
under way and the epoll interest to one another. Concatenation is taken as a whole (`Cat`), with its associativity as a lemma.

`LuaActor_proofs`: `LuaInvCorrect` (`[]LuaInv`) gives `AnchorCorrect` (`Anchored`) and `AskerCorrect` (`AnswerToAsker`). `FreeInv`: the free list
of the Lua registry holds each unused index once, and no used one. That the list is not empty when a message is dispatched is not a
guard of the code but a count: the messages in progress hold different indexes and are fewer than the indexes (the pigeonhole principle of
`FiniteSetTheorems`). `WaitInv`: a dispatch waits for one session at most, and not while it runs. `ChainInv`: what `run_co` passes
outwards is the call of the innermost Lua coroutine, and what is passed back in is the answer to that call, or nothing after a failure.

`PacketStream_proofs` has four layers. Buffer: `Buffer_InBounds` (both indexes stay inside the array and in order) and `Buffer_Queue`
(`ImplementsByteQueue`): the bytes between the indexes are the queue, compaction and growth are stutters. Codec: `Codec_RoundTrip`. A
string is `At` a position of another; a cursor that stands in front of what `Str16`, `U32` ... wrote reads it and stands behind it
(`ReadIntAt`, `ReadStrAt`), seven times in a row for a packet (`FieldsOf`). Of other bytes, a name that did not fit its length included,
`Decode` at least makes a packet within the bytes, asks for more or gives up (`DecodeType`), and takes as many bytes as the length
in front says (`DecodeConsumes`). The line: `Line` says of a string `s`, the encodings of all packets sent one behind another, where
each packet begins (`off`) and where the messages in the gateway's mailbox are cut (`cut`); the receive buffer is the piece from the next
packet to the first cut, and what lies behind the last cut is in the socket and in the output buffer. A Connected
is a message without data, a cut that adds nothing. One lemma for each operation on the
line (`LineSend`, `LineRead`, `LineRecv`, `LineDecode`) and one for each action (`StepSend` ...) make `StreamInv` inductive
(`Stream_Invariant`), together with `ConnectedFirst`: unless the dialing thread has sent a second one, a Connected is in front of all data,
and finds the receive buffer empty. That, or `racing`, is what the refinement
needs when a Connected is taken up. `LineAhead` then says what `Decode` sees, the beginning of the packet that is due, and `Stream_PacketChannel`
(`ImplementsPacketChannel`) follows step by step: a well-formed packet that is due is decoded as it was sent, and an error
can only be the fault of a due packet that is not. `Stream_ByteQueue` is `ImplementsByteQueue` for the connection's own use of its buffer,
as the run checks it.

`ClusterTransport_proofs`: `ClusterTransport_MapsAgree` and `ClusterTransport_MappedIsServed` from one invariant, `MapsInv`, for any number
of protocol errors. Its `Core`, which holds until a removal has strayed, adds to the agreement of the maps that news of a number reach the
gateway in the order of its owners (`InOrder`) and that whoever is mapped, or is to be mapped by a handshake in the mailbox, is served and not about to be
removed (`MappedServed`, `GreetsServed`). The rest holds whatever the removals hit: numbers in tasks and tables are held
(`NumbersHold`), the handshake of a connection is in front of its garbage (`GreetsFirst`), and none comes behind it (`Silent`). The
work is to show that a step in which no removal strays keeps the `Core`: the loop's own removals, which may run after the gateway's,
never hit a connection that is mapped, and a gateway's removal that finds its own connection finds one that it has already unmapped.
`ClusterTransport_AliveIsMapped` has a small invariant of its own about the gateway's two sections and holds whatever the removals hit.

`ClusterCall_proofs`: `SessionInv` says that whatever carries a call's number (packet, forward, message, timer, wait) carries the
session that call was given (`CarryInv`), and that each call has its own session of its asker and is waited for at one place
(`AskInv`): it gives `ClusterCall_NoInterference`. With it `ClusterCall_NeverStranded` is inductive. `ClusterCall_HandledOnce` rests
on `PlaceInv`: the request of a call is in at most one of proxy, wire and mailbox, and in none once it was taken up.

Only model-checked: all liveness (`MessagesHandled`, `StopTerminates`, `SetTimerFires`, `StopReturns`, `WaitEnds`, `BufferDrains`,
`CloseIsNoticed`, `LoopEnds`, `NothingStuck`, `ClosedIsForgotten`), which this prover does not reach, and the counterexamples of section 4.

## 6. Not modelled

- The high-water warning, metrics and `CollectActorStats`: they change no decision.
- `BindFdToActor`, `UnbindFd`, `GetEventLoopByFd`: one map each under one lock. In ClusterTransport one actor owns every
  connection, so that a stale binding of a reused number names the right one.
- Of the transport: `pendingNodeId_`, which only `GetNodeIdByFd` reads and nobody calls that; a `connect()` that succeeds or
  fails at once; running out of descriptors; the in-process `LoopbackTransport`; a plain `SendToRemote` outside a call.
- Of Lua: the loading of scripts, the bridge functions that only send, and coroutines a script creates and resumes itself instead of with
  `run_co` (their yields end in the script).
- Of a cluster connection: a second handshake that a peer sends after a protocol error on the same connection, and data in front of a reset that
  the loop still reads (a reset takes the place of what was not read).
- `SendToActor` with a message that was received and is handed on: it would keep its `sessionId` and `isResponse` (`Actor.cc:195`), and an
  answer to it would go to the actor that handed it on. Every caller in the repository passes a new message.
- The `UnbindFd` of `HandleRead` (`ConnectionBase.cc:138`): after it no message of the connection reaches the actor, so that the code does
  less than Reactor allows, and `Lifecycle` is shown without its help.
- `TcpServer`, `TcpClient`: they start and stop the parts modelled, in sequence.
- The wrap-around of 32-bit sessions and ids.
- Memory order: every atomic of the scheduler is sequentially consistent in the code, and the queues are locked.
- `Message`, `MessageBuffer`: value types.
- `src/net`, the predecessor of `net_actor`; the gateway and the launcher, entry points without state;
  vendored code (spdlog, sol2, Lua), which is most of the repository.

## 7. Plan

Done: the modules of section 2 and the proofs of section 5. What is left, in this order:

1. A `SendToRemote` outside a call, as an action of ClusterCall (tried: with its bounds of today the state space more than
   doubles, to 5 million states, so that the instance has to be split first), and the `LoopbackTransport`, a send with its
   receipt in one step.
2. Bindings of descriptors to several actors: ClusterTransport with more than one owner of connections.
3. Deferred: `TcpServer::Stop` as the composition of ActorScheduler's Stop and Reactor's Stop.
