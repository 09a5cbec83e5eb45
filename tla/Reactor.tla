------------------------------ MODULE Reactor -------------------------------
(***************************************************************************)
(* One connection of an EventLoop: Acceptor::HandleAccept, the loop thread *)
(* (run, runPendingTasks), QueueInLoop from workers, ConnectionBase::Send, *)
(* sendInLoop, HandleRead and HandleWrite, RemoveConnection and Stop.      *)
(*                                                                         *)
(* epoll is edge triggered: an edge, or EPOLL_CTL_ADD or MOD of a ready fd, *)
(* lets epoll_wait report once what is then ready.  The socket is a bounded *)
(* send buffer and a stream of received units.  A message is a sequence of  *)
(* units <<sender, k>>.                                                     *)
(***************************************************************************)
EXTENDS Naturals, Sequences

CONSTANTS
  Senders,     \* worker threads; each sends one message to the connection
  Size,        \* units of a message
  Room,        \* units the socket's send buffer holds
  MaxRecv,     \* bound on the units the peer sends
  SubLoops     \* subset of BOOLEAN: TRUE, the connection lives on a SubReactor

ASSUME ReactorAssumption ==
  /\ Size \in Nat \ {0} /\ Room \in Nat \ {0} /\ MaxRecv \in Nat
  /\ SubLoops \subseteq BOOLEAN
  /\ Senders \cap {"add", "remove"} = {}      \* the tasks of senders are their names

VARIABLES
  sub,                 \* the acceptor runs on another loop than the connection
  acc,                 \* how far HandleAccept got
  conn,                \* the fd is in mapConn_
  callback, interest,  \* callbacks_ has the fd; the events epoll watches
  edge,                \* epoll has the fd on its list of ready ones
  pending, batch,      \* pendingTasks_, the tasks of this round
  wake,                \* the eventfd counter is not zero
  sender,              \* ready, pushed (not yet woken the loop), done
  pc,                  \* the loop thread
  firedIn, firedOut,   \* the events epoll_wait reported for the fd
  firedWake,           \* and for the eventfd, not yet handled
  rest,                \* what sendInLoop has still to write
  output,              \* outputBuffer_
  kernel,              \* the socket's send buffer
  received,            \* what the peer has read
  peer,                \* open, closed (FIN), reset (RST)
  rx, sentRx,          \* units the peer sent: unread, so far
  inbox,               \* what the bound actor was told
  accepted,            \* units in the order sendInLoop took them
  stop

connVars == <<conn, callback, interest>>
taskVars == <<pending, batch, wake, sender>>
fired == <<firedIn, firedOut, firedWake>>
loopVars == <<pc, fired>>
sendVars == <<rest, output, kernel, accepted>>
peerVars == <<received, peer, rx, sentRx>>
vars == <<sub, acc, conn, callback, interest, edge, pending, batch, wake, sender,
          pc, firedIn, firedOut, firedWake, rest, output, kernel, received, peer, rx, sentRx,
          inbox, accepted, stop>>

Init ==
  /\ sub \in SubLoops /\ acc = "none"
  /\ conn = FALSE /\ callback = FALSE /\ interest = "none"
  /\ edge = FALSE
  /\ pending = <<>> /\ batch = <<>> /\ wake = FALSE
  /\ sender = [w \in Senders |-> "ready"]
  /\ pc = "tasks" /\ firedIn = FALSE /\ firedOut = FALSE /\ firedWake = FALSE
  /\ rest = <<>> /\ output = <<>> /\ kernel = <<>> /\ accepted = <<>>
  /\ received = <<>> /\ peer = "open" /\ rx = 0 /\ sentRx = 0
  /\ inbox = <<>> /\ stop = "no"

Units(w) == [k \in 1..Size |-> <<w, k>>]
Readable == rx > 0 \/ peer # "open"
Writable == Len(kernel) < Room \/ peer = "reset"

\* epoll_ctl ADD or MOD with the given events.
Watch(events) ==
  /\ interest' = events
  /\ edge' = (Readable \/ (events = "RW" /\ Writable))

BadModifyKeep(events) ==            \* mutant: an existing callback means "already watched"
  IF callback THEN UNCHANGED <<interest, edge>> ELSE Watch(events)

\* ModifyEventKeepCallback on the loop thread: without a callback it returns.
ModifyKeep(events) ==
  IF callback THEN Watch(events) ELSE UNCHANGED <<interest, edge>>

-----------------------------------------------------------------------------
(* HandleAccept, on the loop of the connection (single reactor) or on the  *)
(* main loop, a thread of its own.                                         *)

AcceptConnection ==
  /\ acc = "none"
  /\ sub \/ pc = "poll"
  /\ acc' = "added" /\ conn' = TRUE
  /\ pc' = IF sub THEN pc ELSE "accept"
  /\ UNCHANGED <<sub, callback, interest, edge, taskVars, fired, sendVars,
                 peerVars, inbox, stop>>

\* BindFdToActor, then Send(Connected).
TellConnected ==
  /\ acc = "added"
  /\ acc' = "told" /\ inbox' = Append(inbox, "Connected")
  /\ UNCHANGED <<sub, connVars, edge, taskVars, loopVars, sendVars, peerVars, stop>>

\* AddEvent: on the loop thread at once, otherwise through the task queue.
AddEvent ==
  /\ acc = "told" /\ acc' = "done"
  /\ \/ /\ ~sub
        /\ Watch("R") /\ callback' = TRUE
        /\ pc' = "swap"
        /\ UNCHANGED <<pending, wake>>
     \/ /\ sub
        /\ pending' = Append(pending, "add") /\ wake' = TRUE
        /\ UNCHANGED <<callback, interest, edge, pc>>
  /\ UNCHANGED <<sub, conn, batch, sender, fired, sendVars, peerVars, inbox,
                 stop>>

-----------------------------------------------------------------------------
(* Send from a worker: QueueInLoop pushes the task and then writes the     *)
(* eventfd.  The actor knows the fd once it was told Connected.            *)

WorkerSend(w) ==
  /\ sender[w] = "ready" /\ acc \in {"told", "done"}
  /\ IF conn
     THEN pending' = Append(pending, w) /\ sender' = [sender EXCEPT ![w] = "pushed"]
     ELSE UNCHANGED pending /\ sender' = [sender EXCEPT ![w] = "done"]
  /\ UNCHANGED <<sub, acc, connVars, edge, batch, wake, loopVars, sendVars, peerVars,
                 inbox, stop>>

BadWakeup == wake \/ pc = "poll"    \* mutant: only a loop that waits is woken
Wakeup == TRUE                      \* the eventfd keeps its count

WorkerWake(w) ==
  /\ sender[w] = "pushed"
  /\ wake' = Wakeup
  /\ sender' = [sender EXCEPT ![w] = "done"]
  /\ UNCHANGED <<sub, acc, connVars, edge, pending, batch, loopVars, sendVars, peerVars,
                 inbox, stop>>

-----------------------------------------------------------------------------
(* run.                                                                    *)

ReadyIn == edge /\ Readable
ReadyOut == edge /\ interest = "RW" /\ Writable

\* epoll_wait.
Wait ==
  /\ pc = "poll"
  /\ wake \/ ReadyIn \/ ReadyOut
  /\ firedIn' = ReadyIn /\ firedOut' = ReadyOut /\ firedWake' = wake
  /\ edge' = FALSE
  /\ pc' = "events"
  /\ UNCHANGED <<sub, acc, connVars, taskVars, sendVars, peerVars, inbox, stop>>

\* The eventfd's callback empties it, before or after the callback of the fd.
HandleWakeup ==
  /\ pc \in {"events", "swap"} /\ firedWake
  /\ firedWake' = FALSE /\ wake' = FALSE
  /\ UNCHANGED <<sub, acc, connVars, edge, pending, batch, sender, pc, firedIn, firedOut,
                 sendVars, peerVars, inbox, stop>>

\* The callback of HandleAccept: EPOLLIN first, then EPOLLOUT.
Dispatch ==
  /\ pc = "events"
  /\ pc' = IF ~(callback /\ conn) THEN "swap"
           ELSE IF firedIn THEN "read" ELSE IF firedOut THEN "write" ELSE "swap"
  /\ UNCHANGED <<sub, acc, connVars, edge, taskVars, fired, sendVars,
                 peerVars, inbox, stop>>

AfterRead == IF firedOut THEN "write" ELSE "swap"

BadAfterClose == "read"             \* mutant: the loop goes on after recv returned 0
AfterClose == AfterRead

BadRemoveLater == pending           \* mutant: the connection stays
RemoveLater == Append(pending, "remove")

\* HandleRead, one recv at a time.
HandleRead ==
  /\ pc = "read"
  /\ \/ /\ rx > 0 /\ peer # "reset"               \* all of it, up to the buffer size
        /\ rx' = 0 /\ inbox' = Append(inbox, "NetworkRecv")
        /\ UNCHANGED <<pc, pending>>
     \/ /\ rx = 0 /\ peer = "open"                \* EAGAIN
        /\ pc' = AfterRead
        /\ UNCHANGED <<rx, pending, inbox>>
     \/ /\ rx = 0 /\ peer = "closed"              \* Disconnected, RemoveConnection
        /\ inbox' = Append(inbox, "Disconnected")
        /\ pending' = RemoveLater
        /\ pc' = AfterClose
        /\ UNCHANGED rx
     \/ /\ peer = "reset"                         \* any other errno: return
        /\ pc' = AfterRead
        /\ UNCHANGED <<rx, pending, inbox>>
  /\ UNCHANGED <<sub, acc, connVars, edge, batch, wake, sender, fired,
                 sendVars, received, peer, sentRx, stop>>

Prefix(s, n) == SubSeq(s, 1, n)
Suffix(s, n) == SubSeq(s, n + 1, Len(s))
\* How many units one write can take.
Takes(s) == {n \in 1..Len(s) : Len(kernel) + n <= Room}

HandleWrite ==
  /\ pc = "write"
  /\ \/ /\ output # <<>> /\ peer # "reset"
        /\ \E n \in Takes(output) :
             /\ kernel' = kernel \o Prefix(output, n)
             /\ output' = Suffix(output, n)
        /\ UNCHANGED <<interest, edge, pc>>
     \/ /\ output # <<>> /\ peer # "reset" /\ Takes(output) = {}   \* EAGAIN
        /\ ModifyKeep("RW")
        /\ pc' = "swap"
        /\ UNCHANGED <<kernel, output>>
     \/ /\ output # <<>> /\ peer = "reset"        \* write error: return
        /\ pc' = "swap"
        /\ UNCHANGED <<interest, edge, kernel, output>>
     \/ /\ output = <<>>
        /\ ModifyKeep("R")
        /\ pc' = "swap"
        /\ UNCHANGED <<kernel, output>>
  /\ UNCHANGED <<sub, acc, conn, callback, taskVars, fired, rest, accepted,
                 peerVars, inbox, stop>>

-----------------------------------------------------------------------------
(* runPendingTasks.                                                        *)

Swap ==
  /\ pc = "swap" /\ ~firedWake
  /\ batch' = pending /\ pending' = <<>>
  /\ pc' = "tasks"
  /\ firedIn' = FALSE /\ firedOut' = FALSE
  /\ UNCHANGED <<sub, acc, connVars, edge, wake, sender, firedWake, sendVars, peerVars,
                 inbox, stop>>

\* No task is left, or run is at its start: run looks at stop_ before the next round.
LoopTop ==
  /\ pc = "tasks" /\ batch = <<>>
  /\ pc' = IF stop = "no" THEN "poll" ELSE "ended"
  /\ UNCHANGED <<sub, acc, connVars, edge, taskVars, fired,
                 sendVars, peerVars, inbox, stop>>

NextTask(task) ==
  /\ pc = "tasks" /\ batch # <<>>
  /\ Head(batch) = task
  /\ batch' = Tail(batch)

RunAdd ==
  /\ NextTask("add")
  /\ Watch("R") /\ callback' = TRUE
  /\ UNCHANGED <<sub, acc, conn, pending, wake, sender, loopVars, sendVars, peerVars, inbox,
                 stop>>

RunRemove ==
  /\ NextTask("remove")
  /\ conn' = FALSE /\ callback' = FALSE /\ interest' = "none" /\ edge' = FALSE
  /\ UNCHANGED <<sub, acc, pending, wake, sender, loopVars, sendVars, peerVars,
                 inbox, stop>>

\* The task of Send looks the connection up again; without one the data is dropped.
RunSend(w) ==
  /\ NextTask(w)
  /\ IF conn
     THEN /\ rest' = Units(w) /\ accepted' = accepted \o Units(w)
          /\ pc' = "send"
     ELSE UNCHANGED <<rest, accepted, pc>>
  /\ UNCHANGED <<sub, acc, connVars, edge, pending, wake, sender, fired,
                 output, kernel, peerVars, inbox, stop>>

BadWriteDirectly == peer = "open"   \* mutant: past what is buffered
\* outputBuffer_.Empty() && CanWriteDirectly()
WriteDirectly == output = <<>>

\* sendInLoop.
SendInLoop ==
  /\ pc = "send"
  /\ \/ /\ WriteDirectly /\ peer # "reset"
        /\ \E n \in Takes(rest) :
             /\ kernel' = kernel \o Prefix(rest, n)
             /\ rest' = Suffix(rest, n)
             /\ pc' = IF n = Len(rest) THEN "tasks" ELSE "send"
        /\ UNCHANGED <<interest, edge, output>>
     \/ /\ WriteDirectly /\ peer = "reset"   \* write error: return
        /\ rest' = <<>> /\ pc' = "tasks"
        /\ UNCHANGED <<interest, edge, output, kernel>>
     \/ /\ WriteDirectly => peer # "reset" /\ Takes(rest) = {}
        /\ output' = output \o rest /\ rest' = <<>>
        /\ ModifyKeep("RW")
        /\ pc' = "tasks"
        /\ UNCHANGED kernel
  /\ UNCHANGED <<sub, acc, conn, callback, taskVars, fired, accepted,
                 peerVars, inbox, stop>>

-----------------------------------------------------------------------------
(* Stop, and the peer.                                                     *)

StopSet ==
  /\ stop = "no" /\ stop' = "set"
  /\ UNCHANGED <<sub, acc, connVars, edge, taskVars, loopVars, sendVars, peerVars,
                 inbox>>

BadStopWakes == wake                \* mutant: the flag alone
StopWakes == TRUE

StopWakeup ==
  /\ stop = "set" /\ stop' = "woken"
  /\ wake' = StopWakes
  /\ UNCHANGED <<sub, acc, connVars, edge, pending, batch, sender, loopVars, sendVars,
                 peerVars, inbox>>

\* The peer reads; a socket that was full becomes writable.
PeerRead ==
  /\ peer # "reset" /\ kernel # <<>>
  /\ received' = Append(received, Head(kernel)) /\ kernel' = Tail(kernel)
  /\ edge' = (edge \/ (interest = "RW" /\ Len(kernel) = Room))
  /\ UNCHANGED <<sub, acc, connVars, taskVars, loopVars, rest, output, accepted, peer, rx,
                 sentRx, inbox, stop>>

PeerSend ==
  /\ peer = "open" /\ conn /\ sentRx < MaxRecv
  /\ rx' = rx + 1 /\ sentRx' = sentRx + 1
  /\ edge' = (interest # "none")
  /\ UNCHANGED <<sub, acc, connVars, taskVars, loopVars, sendVars, received, peer, inbox,
                 stop>>

\* FIN, or RST, which may follow a FIN.
PeerGoes(how) ==
  /\ conn
  /\ peer = "open" \/ (peer = "closed" /\ how = "reset")
  /\ peer' = how
  /\ edge' = (interest # "none")
  /\ UNCHANGED <<sub, acc, connVars, taskVars, loopVars, sendVars, received, rx, sentRx,
                 inbox, stop>>

-----------------------------------------------------------------------------
AcceptStep == AcceptConnection \/ TellConnected \/ AddEvent
LoopStep ==
  \/ LoopTop \/ Wait \/ HandleWakeup \/ Dispatch \/ HandleRead \/ HandleWrite \/ Swap
  \/ RunAdd \/ RunRemove \/ SendInLoop
  \/ \E w \in Senders : RunSend(w)

Next ==
  \/ AcceptStep \/ LoopStep \/ StopSet \/ StopWakeup \/ PeerRead \/ PeerSend
  \/ PeerGoes("closed") \/ PeerGoes("reset")
  \/ \E w \in Senders : WorkerSend(w) \/ WorkerWake(w)

Spec == Init /\ [][Next]_vars

\* The threads run; the peer reads what it is sent.
Fairness ==
  /\ WF_vars(LoopStep) /\ WF_vars(TellConnected \/ AddEvent) /\ WF_vars(StopWakeup)
  /\ WF_vars(PeerRead)
  /\ \A w \in Senders : WF_vars(WorkerWake(w))

FairSpec == Spec /\ Fairness

-----------------------------------------------------------------------------
(* Properties.                                                             *)

Tasks == Senders \cup {"add", "remove"}
AllUnits == Senders \X (1..Size)
InLoop == {"accept", "events", "read", "write", "swap"}   \* before runPendingTasks

TypeOK ==
  /\ sub \in BOOLEAN /\ acc \in {"none", "added", "told", "done"}
  /\ conn \in BOOLEAN /\ callback \in BOOLEAN /\ interest \in {"none", "R", "RW"}
  /\ edge \in BOOLEAN
  /\ pending \in Seq(Tasks) /\ batch \in Seq(Tasks) /\ wake \in BOOLEAN
  /\ sender \in [Senders -> {"ready", "pushed", "done"}]
  /\ pc \in {"poll", "tasks", "send", "ended"} \cup InLoop
  /\ firedIn \in BOOLEAN /\ firedOut \in BOOLEAN /\ firedWake \in BOOLEAN
  /\ rest \in Seq(AllUnits) /\ output \in Seq(AllUnits) /\ accepted \in Seq(AllUnits)
  /\ kernel \in Seq(AllUnits) /\ Len(kernel) <= Room /\ received \in Seq(AllUnits)
  /\ peer \in {"open", "closed", "reset"} /\ rx \in Nat /\ sentRx \in Nat
  /\ inbox \in Seq({"Connected", "NetworkRecv", "Disconnected"})
  /\ stop \in {"no", "set", "woken"}

\* The bytes of the messages reach the peer whole and in the order in which the
\* loop took the messages, whichever of direct write, buffer and HandleWrite
\* carried them.
BytesInOrder ==
  peer # "reset" => received \o kernel \o output \o rest = accepted

\* A task that was queued is not forgotten: the loop has still to look at the queue
\* in this round, or something will end its epoll_wait.
NoLostTask ==
  pending # <<>> /\ pc # "ended" =>
    wake \/ pc \in InLoop \/ \E w \in Senders : sender[w] = "pushed"

\* The actor is told Connected first, Disconnected at most once and last.
Lifecycle ==
  \A i \in 1..Len(inbox) :
    /\ inbox[i] = "Connected" <=> i = 1
    /\ inbox[i] = "Disconnected" => i = Len(inbox)

\* "There is no state with unwritten data and R": between two rounds of a loop that
\* accepted the connection itself, unwritten data is watched for writing.
BufferedIsWatched ==
  (~sub /\ pc = "poll" /\ output # <<>> /\ conn) => interest = "RW"

\* The same sentence of runPendingTasks for any connection: a Send that ran before the
\* AddEvent of another thread could arm nothing, and AddEvent then watches for R only.
NeverUnwrittenAtR == (pc = "poll" /\ output # <<>> /\ conn) => interest # "R"

\* What is buffered is written as long as the peer reads and the loop runs.
BufferDrains ==
  (~sub /\ output # <<>>) ~> (output = <<>> \/ peer # "open" \/ stop # "no")

\* After the peer's FIN the connection is removed.
CloseIsNoticed ==
  (acc = "done" /\ peer = "closed") ~> (~conn \/ peer = "reset" \/ stop # "no")

\* Stop ends the loop thread, whatever it waits for.
LoopEnds == (stop # "no") ~> (pc = "ended")
=============================================================================
