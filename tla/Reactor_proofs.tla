---------------------------- MODULE Reactor_proofs ----------------------------
(***************************************************************************)
(* Theorems about Reactor for any number of workers, sizes of messages and *)
(* of the socket's buffer, on a single loop and on a sub loop.             *)
(***************************************************************************)
EXTENDS Reactor, SequenceTheorems, TLAPS

USE ReactorAssumption DEF Wakeup, StopWakes, RemoveLater, AfterClose, WriteDirectly

-----------------------------------------------------------------------------
(* Sequences.                                                              *)

\* What a partial write takes and what it leaves.
LEMMA Cut ==
  ASSUME NEW S, NEW s \in Seq(S), NEW n \in 1..Len(s)
  PROVE  /\ Prefix(s, n) \in Seq(S) /\ Suffix(s, n) \in Seq(S) /\ Len(Prefix(s, n)) = n
         /\ Prefix(s, n) \o Suffix(s, n) = s
         /\ n = Len(s) => Suffix(s, n) = <<>>
<1>1. Len(s) \in Nat /\ \A i \in 1..Len(s) : s[i] \in S
  BY ElementOfSeq
<1>2. Prefix(s, n) \in Seq(S) /\ Len(Prefix(s, n)) = n
  BY <1>1, SubSeqProperties DEF Prefix
<1>3. Suffix(s, n) \in Seq(S)
  BY <1>1, SubSeqProperties DEF Suffix
<1>4. SubSeq(s, 1, n) \o SubSeq(s, n + 1, Len(s)) = SubSeq(s, 1, Len(s))
  BY <1>1, ConcatAdjacentSubSeq
<1>5. n = Len(s) => Suffix(s, n) = <<>>
  BY <1>1, SubSeqEmpty DEF Suffix
<1> QED
  BY <1>2, <1>3, <1>4, <1>5, SubSeqFull DEF Prefix, Suffix

LEMMA HeadBack ==
  ASSUME NEW S, NEW s \in Seq(S), s # <<>>
  PROVE  <<Head(s)>> \o Tail(s) = s
<1>1. Len(s) \in Nat \ {0} /\ 1 \in 1..Len(s)
  BY EmptySeq
<1>2. SubSeq(s, 1, Len(s)) = <<s[1]>> \o SubSeq(s, 2, Len(s))
  BY <1>1, SubSeqRecursiveFirst
<1>3. Head(s) = s[1] /\ Tail(s) = SubSeq(s, 2, Len(s))
  BY <1>1, TailIsSubSeq
<1> QED
  BY <1>2, <1>3, SubSeqFull

-----------------------------------------------------------------------------
(* Types.                                                                  *)

LEMMA UnitsTyped == ASSUME NEW w \in Senders PROVE Units(w) \in Seq(AllUnits)
<1>1. Units(w) \in [1..Size -> AllUnits] /\ Size \in Nat
  BY DEF Units, AllUnits
<1> QED
  BY <1>1, SeqDef

\* What a write adds to the socket's buffer fits.
LEMMA Written ==
  ASSUME TypeOK, NEW s \in Seq(AllUnits), NEW n \in Takes(s)
  PROVE  /\ kernel \o Prefix(s, n) \in Seq(AllUnits)
         /\ Len(kernel \o Prefix(s, n)) <= Room
         /\ Suffix(s, n) \in Seq(AllUnits) /\ n \in 1..Len(s)
<1>1. n \in 1..Len(s) /\ Len(kernel) + n <= Room
  BY DEF Takes
<1>2. Prefix(s, n) \in Seq(AllUnits) /\ Len(Prefix(s, n)) = n /\ Suffix(s, n) \in Seq(AllUnits)
  BY <1>1, Cut
<1> QED
  BY <1>1, <1>2, ConcatProperties DEF TypeOK

LEMMA InitTyped == Init => TypeOK
<1> SUFFICES ASSUME Init PROVE TypeOK
  OBVIOUS
<1>1. /\ pending \in Seq(Tasks) /\ batch \in Seq(Tasks)
      /\ rest \in Seq(AllUnits) /\ output \in Seq(AllUnits) /\ accepted \in Seq(AllUnits)
      /\ kernel \in Seq(AllUnits) /\ received \in Seq(AllUnits)
      /\ inbox \in Seq({"Connected", "NetworkRecv", "Disconnected"})
  BY EmptySeq DEF Init
<1>2. Len(kernel) <= Room
  BY EmptySeq DEF Init
<1> QED
  BY <1>1, <1>2 DEF Init, TypeOK

LEMMA AcceptTyped == ASSUME TypeOK, AcceptStep PROVE TypeOK'
<1>1. CASE AcceptConnection
  BY <1>1 DEF AcceptConnection, TypeOK, taskVars, fired, sendVars, peerVars, InLoop
<1>2. CASE TellConnected
  BY <1>2 DEF TellConnected, TypeOK, connVars, taskVars, loopVars, fired, sendVars, peerVars
<1>3. CASE AddEvent
  <2>1. pending' \in Seq(Tasks)
    <3>1. "add" \in Tasks
      BY DEF Tasks
    <3>2. pending' \in {pending, Append(pending, "add")}
      BY <1>3 DEF AddEvent
    <3>3. pending \in Seq(Tasks)
      BY DEF TypeOK
    <3> QED
      BY <3>1, <3>2, <3>3, AppendProperties
  <2>2. edge' \in BOOLEAN /\ interest' \in {"none", "R", "RW"}
    BY <1>3 DEF AddEvent, Watch, TypeOK
  <2>3. wake' \in BOOLEAN /\ callback' \in BOOLEAN /\ acc' = "done" /\ pc' \in {pc, "swap"}
    BY <1>3 DEF AddEvent, TypeOK
  <2>4. UNCHANGED <<sub, conn, batch, sender, fired, sendVars, peerVars, inbox, stop>>
    BY <1>3 DEF AddEvent
  <2> QED
    BY <2>1, <2>2, <2>3, <2>4 DEF TypeOK, fired, sendVars, peerVars, InLoop
<1> QED
  BY <1>1, <1>2, <1>3 DEF AcceptStep

LEMMA ReadTyped == ASSUME TypeOK, HandleRead PROVE TypeOK'
<1>1. /\ pc' \in {"read", "write", "swap"} /\ rx' \in Nat /\ pending' \in Seq(Tasks)
      /\ inbox' \in Seq({"Connected", "NetworkRecv", "Disconnected"})
  <2>1. pc' \in {"read", "write", "swap"} /\ rx' \in Nat
    BY DEF HandleRead, TypeOK, AfterRead
  <2>2. pending' \in Seq(Tasks)
    <3>1. "remove" \in Tasks /\ pending \in Seq(Tasks)
      BY DEF Tasks, TypeOK
    <3>2. pending' \in {pending, Append(pending, "remove")}
      BY DEF HandleRead
    <3> QED
      BY <3>1, <3>2, AppendProperties
  <2>3. inbox' \in Seq({"Connected", "NetworkRecv", "Disconnected"})
    <3>1. inbox' \in {inbox, Append(inbox, "NetworkRecv"), Append(inbox, "Disconnected")}
      BY DEF HandleRead
    <3>2. inbox \in Seq({"Connected", "NetworkRecv", "Disconnected"})
      BY DEF TypeOK
    <3> QED
      BY <3>1, <3>2, AppendProperties
  <2> QED
    BY <2>1, <2>2, <2>3
<1>2. UNCHANGED <<sub, acc, connVars, edge, batch, wake, sender, fired, sendVars, received,
                  peer, sentRx, stop>>
  BY DEF HandleRead
<1> QED
  BY <1>1, <1>2 DEF TypeOK, connVars, fired, sendVars, InLoop

LEMMA WriteTyped == ASSUME TypeOK, HandleWrite PROVE TypeOK'
<1>1. kernel' \in Seq(AllUnits) /\ Len(kernel') <= Room /\ output' \in Seq(AllUnits)
  <2>1. CASE kernel' = kernel /\ output' = output
    BY <2>1 DEF TypeOK
  <2>2. ASSUME NEW n \in Takes(output), kernel' = kernel \o Prefix(output, n),
               output' = Suffix(output, n)
        PROVE  kernel' \in Seq(AllUnits) /\ Len(kernel') <= Room /\ output' \in Seq(AllUnits)
    BY <2>2, Written DEF TypeOK
  <2> QED
    BY <2>1, <2>2 DEF HandleWrite
<1>2. interest' \in {"none", "R", "RW"} /\ edge' \in BOOLEAN /\ pc' \in {"write", "swap"}
  BY DEF HandleWrite, ModifyKeep, Watch, Readable, Writable, TypeOK
<1>3. UNCHANGED <<sub, acc, conn, callback, taskVars, fired, rest, accepted, peerVars, inbox,
                  stop>>
  BY DEF HandleWrite
<1> QED
  BY <1>1, <1>2, <1>3 DEF TypeOK, taskVars, fired, peerVars, InLoop

LEMMA NextTaskTyped ==
  ASSUME TypeOK, NEW task, NextTask(task)
  PROVE  /\ batch # <<>> /\ task = batch[1] /\ pc = "tasks"
         /\ batch' \in Seq(Tasks) /\ Len(batch') = Len(batch) - 1
         /\ \A i \in 1..Len(batch') : batch'[i] = batch[i + 1]
BY HeadTailProperties DEF NextTask, TypeOK

LEMMA SendTyped == ASSUME TypeOK, SendInLoop PROVE TypeOK'
<1>1. /\ kernel' \in Seq(AllUnits) /\ Len(kernel') <= Room
      /\ output' \in Seq(AllUnits) /\ rest' \in Seq(AllUnits)
  <2>1. ASSUME NEW n \in Takes(rest), kernel' = kernel \o Prefix(rest, n),
               rest' = Suffix(rest, n), output' = output
        PROVE  /\ kernel' \in Seq(AllUnits) /\ Len(kernel') <= Room
               /\ output' \in Seq(AllUnits) /\ rest' \in Seq(AllUnits)
    BY <2>1, Written DEF TypeOK
  <2>2. CASE kernel' = kernel /\ rest' = <<>> /\ output' \in {output, output \o rest}
    <3>1. <<>> \in Seq(AllUnits) /\ output \o rest \in Seq(AllUnits)
      BY EmptySeq, ConcatProperties DEF TypeOK
    <3> QED
      BY <2>2, <3>1 DEF TypeOK
  <2> QED
    BY <2>1, <2>2 DEF SendInLoop
<1>2. interest' \in {"none", "R", "RW"} /\ edge' \in BOOLEAN /\ pc' \in {"tasks", "send"}
  BY DEF SendInLoop, ModifyKeep, Watch, Readable, Writable, TypeOK
<1>3. UNCHANGED <<sub, acc, conn, callback, taskVars, fired, accepted, peerVars, inbox, stop>>
  BY DEF SendInLoop
<1> QED
  BY <1>1, <1>2, <1>3 DEF TypeOK, taskVars, fired, peerVars

LEMMA TaskTyped ==
  ASSUME TypeOK, RunAdd \/ RunRemove \/ \E w \in Senders : RunSend(w)
  PROVE  TypeOK'
<1>0. batch' \in Seq(Tasks)
  BY NextTaskTyped DEF RunAdd, RunRemove, RunSend
<1>1. CASE RunAdd
  <2>1. interest' = "R" /\ edge' \in BOOLEAN /\ callback' = TRUE
    BY <1>1 DEF RunAdd, Watch
  <2>2. UNCHANGED <<sub, acc, conn, pending, wake, sender, loopVars, sendVars, peerVars, inbox,
                    stop>>
    BY <1>1 DEF RunAdd
  <2> QED
    BY <1>0, <2>1, <2>2 DEF TypeOK, loopVars, fired, sendVars, peerVars
<1>2. CASE RunRemove
  <2>1. conn' \in BOOLEAN /\ callback' \in BOOLEAN /\ interest' = "none" /\ edge' \in BOOLEAN
    BY <1>2 DEF RunRemove
  <2>2. UNCHANGED <<sub, acc, pending, wake, sender, loopVars, sendVars, peerVars, inbox, stop>>
    BY <1>2 DEF RunRemove
  <2> QED
    BY <1>0, <2>1, <2>2 DEF TypeOK, loopVars, fired, sendVars, peerVars
<1>3. ASSUME NEW w \in Senders, RunSend(w) PROVE TypeOK'
  <2>1. Units(w) \in Seq(AllUnits)
    BY UnitsTyped
  <2>2. rest' \in Seq(AllUnits) /\ accepted' \in Seq(AllUnits) /\ pc' \in {"tasks", "send"}
    <3>1. accepted \o Units(w) \in Seq(AllUnits)
      BY <2>1, ConcatProperties DEF TypeOK
    <3> QED
      BY <1>3, <2>1, <3>1 DEF RunSend, NextTask, TypeOK
  <2>3. UNCHANGED <<sub, acc, connVars, edge, pending, wake, sender, fired, output, kernel,
                    peerVars, inbox, stop>>
    BY <1>3 DEF RunSend
  <2> QED
    BY <1>0, <2>2, <2>3 DEF TypeOK, connVars, fired, peerVars
<1> QED
  BY <1>1, <1>2, <1>3

LEMMA LoopTyped ==
  ASSUME TypeOK, LoopTop \/ Wait \/ HandleWakeup \/ Dispatch \/ Swap
  PROVE  TypeOK'
<1>1. CASE LoopTop
  BY <1>1 DEF LoopTop, TypeOK, connVars, taskVars, fired, sendVars, peerVars
<1>2. CASE Wait
  <2>1. firedIn' \in BOOLEAN /\ firedOut' \in BOOLEAN /\ firedWake' \in BOOLEAN
    BY <1>2 DEF Wait, ReadyIn, ReadyOut, TypeOK
  <2>2. edge' \in BOOLEAN /\ pc' = "events"
    BY <1>2 DEF Wait
  <2>3. UNCHANGED <<sub, acc, connVars, taskVars, sendVars, peerVars, inbox, stop>>
    BY <1>2 DEF Wait
  <2> QED
    BY <2>1, <2>2, <2>3 DEF TypeOK, connVars, taskVars, sendVars, peerVars, InLoop
<1>3. CASE HandleWakeup
  <2>1. firedWake' \in BOOLEAN /\ wake' \in BOOLEAN
    BY <1>3 DEF HandleWakeup
  <2>2. UNCHANGED <<sub, acc, connVars, edge, pending, batch, sender, pc, firedIn, firedOut,
                    sendVars, peerVars, inbox, stop>>
    BY <1>3 DEF HandleWakeup
  <2> QED
    BY <2>1, <2>2 DEF TypeOK, connVars, sendVars, peerVars
<1>4. CASE Dispatch
  BY <1>4 DEF Dispatch, TypeOK, connVars, taskVars, fired, sendVars, peerVars, InLoop
<1>5. CASE Swap
  <2>1. pending' \in Seq(Tasks) /\ batch' \in Seq(Tasks)
    BY <1>5, EmptySeq DEF Swap, TypeOK
  <2>2. pc' = "tasks" /\ firedIn' \in BOOLEAN /\ firedOut' \in BOOLEAN
    BY <1>5 DEF Swap
  <2>3. UNCHANGED <<sub, acc, connVars, edge, wake, sender, firedWake, sendVars, peerVars, inbox,
                    stop>>
    BY <1>5 DEF Swap
  <2> QED
    BY <2>1, <2>2, <2>3 DEF TypeOK, connVars, sendVars, peerVars
<1> QED
  BY <1>1, <1>2, <1>3, <1>4, <1>5

LEMMA OtherTyped ==
  ASSUME TypeOK,
         \/ StopSet \/ StopWakeup \/ PeerSend \/ PeerGoes("closed") \/ PeerGoes("reset")
         \/ \E w \in Senders : WorkerSend(w) \/ WorkerWake(w)
  PROVE  TypeOK'
<1>1. CASE StopSet
  BY <1>1 DEF StopSet, TypeOK, connVars, taskVars, loopVars, fired, sendVars, peerVars
<1>2. CASE StopWakeup
  BY <1>2 DEF StopWakeup, TypeOK, connVars, loopVars, fired, sendVars, peerVars
<1>3. CASE PeerSend
  <2>1. edge' \in BOOLEAN /\ rx' \in Nat /\ sentRx' \in Nat
    BY <1>3 DEF PeerSend, TypeOK
  <2>2. UNCHANGED <<sub, acc, connVars, taskVars, loopVars, sendVars, received, peer, inbox, stop>>
    BY <1>3 DEF PeerSend
  <2> QED
    BY <2>1, <2>2 DEF TypeOK, connVars, taskVars, loopVars, fired, sendVars
<1>4. CASE PeerGoes("closed") \/ PeerGoes("reset")
  <2>1. edge' \in BOOLEAN /\ peer' \in {"closed", "reset"}
    BY <1>4 DEF PeerGoes
  <2>2. UNCHANGED <<sub, acc, connVars, taskVars, loopVars, sendVars, received, rx, sentRx, inbox,
                    stop>>
    BY <1>4 DEF PeerGoes
  <2> QED
    BY <2>1, <2>2 DEF TypeOK, connVars, taskVars, loopVars, fired, sendVars
<1>5. ASSUME NEW w \in Senders, WorkerSend(w) PROVE TypeOK'
  <2>1. pending' \in Seq(Tasks) /\ sender' \in [Senders -> {"ready", "pushed", "done"}]
    <3>1. w \in Tasks /\ Append(pending, w) \in Seq(Tasks)
      BY AppendProperties DEF Tasks, TypeOK
    <3> QED
      BY <1>5, <3>1 DEF WorkerSend, TypeOK
  <2> QED
    BY <1>5, <2>1 DEF WorkerSend, TypeOK, connVars, loopVars, fired, sendVars, peerVars
<1>6. ASSUME NEW w \in Senders, WorkerWake(w) PROVE TypeOK'
  BY <1>6 DEF WorkerWake, TypeOK, connVars, loopVars, fired, sendVars, peerVars
<1> QED
  BY <1>1, <1>2, <1>3, <1>4, <1>5, <1>6

LEMMA PeerReadTyped ==
  ASSUME TypeOK, PeerRead
  PROVE  /\ TypeOK' /\ kernel # <<>>
         /\ Head(kernel) \in AllUnits /\ Tail(kernel) \in Seq(AllUnits)
<1>1. /\ kernel # <<>> /\ kernel \in Seq(AllUnits)
      /\ received' = Append(received, Head(kernel)) /\ kernel' = Tail(kernel)
  BY DEF PeerRead, TypeOK
<1>2. /\ Head(kernel) \in AllUnits /\ Tail(kernel) \in Seq(AllUnits)
      /\ Len(Tail(kernel)) = Len(kernel) - 1 /\ Len(kernel) \in Nat
  BY <1>1, HeadTailProperties
<1>3. received' \in Seq(AllUnits) /\ Len(kernel') <= Room
  BY <1>1, <1>2, AppendProperties DEF TypeOK
<1>4. edge' \in BOOLEAN
  BY DEF PeerRead, TypeOK
<1>5. UNCHANGED <<sub, acc, connVars, taskVars, loopVars, rest, output, accepted, peer, rx,
                  sentRx, inbox, stop>>
  BY DEF PeerRead
<1> QED
  BY <1>1, <1>2, <1>3, <1>4, <1>5 DEF TypeOK, connVars, taskVars, loopVars, fired

LEMMA NextTyped == TypeOK /\ [Next]_vars => TypeOK'
<1> SUFFICES ASSUME TypeOK, [Next]_vars PROVE TypeOK'
  OBVIOUS
<1>1. CASE Next
  BY <1>1, AcceptTyped, ReadTyped, WriteTyped, SendTyped, TaskTyped, LoopTyped, OtherTyped,
     PeerReadTyped DEF Next, LoopStep
<1>2. CASE UNCHANGED vars
  BY <1>2 DEF vars, TypeOK
<1> QED
  BY <1>1, <1>2

\* The state of connection, loop, workers and peer keeps its types; the socket never holds
\* more than its room.
THEOREM Reactor_TypeOK == Spec => []TypeOK
<1> QED
  BY InitTyped, NextTyped, PTL DEF Spec

-----------------------------------------------------------------------------
(* No task is lost.                                                        *)

LEMMA WorkersKeepTasks ==
  ASSUME TypeOK, NoLostTask, NEW w \in Senders, WorkerSend(w) \/ WorkerWake(w)
  PROVE  NoLostTask'
<1>1. CASE WorkerSend(w) /\ conn
  <2>1. sender'[w] = "pushed"
    BY <1>1 DEF WorkerSend, TypeOK
  <2> QED
    BY <2>1 DEF NoLostTask
<1>2. CASE WorkerSend(w) /\ ~conn
  <2>1. UNCHANGED <<pending, wake, pc>> /\ sender' = [sender EXCEPT ![w] = "done"]
    BY <1>2 DEF WorkerSend, loopVars
  <2>2. sender[w] = "ready"
    BY <1>2 DEF WorkerSend
  <2>3. \A v \in Senders : sender[v] = "pushed" => sender'[v] = "pushed"
    BY <2>1, <2>2 DEF TypeOK
  <2> QED
    BY <2>1, <2>3 DEF NoLostTask
<1>3. CASE WorkerWake(w)
  BY <1>3 DEF WorkerWake, NoLostTask
<1> QED
  BY <1>1, <1>2, <1>3

LEMMA LoopKeepsTasks ==
  ASSUME NoLostTask, LoopStep
  PROVE  NoLostTask'
<1>1. CASE Swap
  BY <1>1 DEF Swap, NoLostTask
<1>2. CASE HandleRead
  BY <1>2 DEF HandleRead, AfterRead, InLoop, NoLostTask
<1>3. CASE HandleWakeup \/ Dispatch \/ HandleWrite
  <2>1. pc' \in InLoop
    BY <1>3 DEF HandleWakeup, Dispatch, HandleWrite, InLoop
  <2> QED
    BY <2>1 DEF NoLostTask
<1>4. CASE Wait
  BY <1>4 DEF Wait, InLoop, NoLostTask
<1>5. CASE LoopTop \/ RunAdd \/ RunRemove \/ SendInLoop \/ \E w \in Senders : RunSend(w)
  <2>1. pc \in {"tasks", "send"} /\ UNCHANGED <<pending, wake, sender>>
    BY <1>5 DEF LoopTop, RunAdd, RunRemove, SendInLoop, RunSend, NextTask, taskVars
  <2> QED
    BY <2>1 DEF NoLostTask, InLoop
<1> QED
  BY <1>1, <1>2, <1>3, <1>4, <1>5 DEF LoopStep

\* A queued task is looked at in this round, or something will end the loop's wait.
THEOREM Reactor_NoLostTask == Spec => []NoLostTask
<1>1. Init => NoLostTask
  BY DEF Init, NoLostTask
<1>2. TypeOK /\ NoLostTask /\ [Next]_vars => NoLostTask'
  <2> SUFFICES ASSUME TypeOK, NoLostTask, [Next]_vars PROVE NoLostTask'
    OBVIOUS
  <2>1. CASE AcceptConnection
    BY <2>1 DEF AcceptConnection, taskVars, InLoop, NoLostTask
  <2>2. CASE TellConnected
    BY <2>2 DEF TellConnected, taskVars, loopVars, NoLostTask
  <2>3. CASE AddEvent
    BY <2>3 DEF AddEvent, InLoop, NoLostTask
  <2>4. CASE LoopStep
    BY <2>4, LoopKeepsTasks
  <2>5. CASE StopSet \/ PeerRead \/ PeerSend \/ PeerGoes("closed") \/ PeerGoes("reset")
    <3>1. UNCHANGED <<pending, wake, sender, pc>>
      BY <2>5 DEF StopSet, PeerRead, PeerSend, PeerGoes, taskVars, loopVars
    <3> QED
      BY <3>1 DEF NoLostTask
  <2>6. CASE StopWakeup
    BY <2>6 DEF StopWakeup, NoLostTask
  <2>7. CASE \E w \in Senders : WorkerSend(w) \/ WorkerWake(w)
    BY <2>7, WorkersKeepTasks
  <2>8. CASE UNCHANGED vars
    BY <2>8 DEF vars, NoLostTask
  <2> QED
    BY <2>1, <2>2, <2>3, <2>4, <2>5, <2>6, <2>7, <2>8 DEF Next, AcceptStep
<1> QED
  BY <1>1, <1>2, Reactor_TypeOK, PTL DEF Spec

-----------------------------------------------------------------------------
(* The bytes keep their order.                                             *)

\* Concatenation under a name, so that the provers take it as a whole.
Cat(s, t) == s \o t

LEMMA CatTyped ==
  ASSUME NEW S, NEW s \in Seq(S), NEW t \in Seq(S)
  PROVE  Cat(s, t) \in Seq(S) /\ Cat(s, <<>>) = s
BY ConcatProperties, ConcatEmptySeq DEF Cat

LEMMA CatAssociative ==
  ASSUME NEW S, NEW s \in Seq(S), NEW t \in Seq(S), NEW u \in Seq(S)
  PROVE  Cat(Cat(s, t), u) = Cat(s, Cat(t, u))
BY ConcatAssociative DEF Cat

\* A part of s that moves from the front of s to the end of b stays where it was.
LEMMA Moved ==
  ASSUME NEW S, NEW a \in Seq(S), NEW b \in Seq(S), NEW s \in Seq(S), NEW n \in 1..Len(s)
  PROVE  Cat(Cat(a, Cat(b, Prefix(s, n))), Suffix(s, n)) = Cat(Cat(a, b), s)
<1>1. Prefix(s, n) \in Seq(S) /\ Suffix(s, n) \in Seq(S)
  BY Cut
<1>2. Cat(Prefix(s, n), Suffix(s, n)) = s
  BY Cut DEF Cat
<1>3. Cat(a, b) \in Seq(S) /\ Cat(a, Cat(b, Prefix(s, n))) = Cat(Cat(a, b), Prefix(s, n))
  BY <1>1, CatTyped, CatAssociative
<1> QED
  BY <1>1, <1>2, <1>3, CatAssociative

Line == Cat(Cat(Cat(received, kernel), output), rest)

LEMMA LineIs == BytesInOrder <=> (peer # "reset" => Line = accepted)
BY DEF BytesInOrder, Line, Cat

LEMMA LineIsNext == BytesInOrder' <=> (peer' # "reset" => Line' = accepted')
BY DEF BytesInOrder, Line, Cat

\* While the loop thread accepts it does nothing else.
Accepting == ~sub /\ acc \in {"added", "told"} => pc = "accept"

LEMMA KeepsAccepting == Accepting /\ [Next]_vars => Accepting'
<1> SUFFICES ASSUME Accepting, [Next]_vars PROVE Accepting'
  OBVIOUS
<1>1. CASE AcceptStep
  BY <1>1 DEF AcceptStep, AcceptConnection, TellConnected, AddEvent, loopVars, Accepting
<1>2. CASE LoopStep
  <2>1. UNCHANGED <<sub, acc>>
    BY <1>2 DEF LoopStep, LoopTop, Wait, HandleWakeup, Dispatch, HandleRead, HandleWrite, Swap,
      RunAdd, RunRemove, SendInLoop, RunSend
  <2>2. pc # "accept"
    BY <1>2 DEF LoopStep, LoopTop, Wait, HandleWakeup, Dispatch, HandleRead, HandleWrite, Swap,
      RunAdd, RunRemove, SendInLoop, RunSend, NextTask
  <2> QED
    BY <2>1, <2>2 DEF Accepting
<1>3. CASE ~(AcceptStep \/ LoopStep)
  <2>1. UNCHANGED <<sub, acc, pc>>
    BY <1>3 DEF Next, StopSet, StopWakeup, PeerRead, PeerSend, PeerGoes, WorkerSend, WorkerWake,
      loopVars, vars
  <2> QED
    BY <2>1 DEF Accepting
<1> QED
  BY <1>1, <1>2, <1>3

OrderInv == BytesInOrder /\ (pc # "send" => rest = <<>>)

LEMMA WriteKeepsOrder ==
  ASSUME TypeOK, OrderInv, HandleWrite
  PROVE  OrderInv'
<1>0. UNCHANGED <<rest, accepted, peer, received>> /\ pc = "write" /\ pc' \in {"write", "swap"}
  BY DEF HandleWrite, peerVars
<1>1. CASE kernel' = kernel /\ output' = output
  BY <1>0, <1>1 DEF OrderInv, BytesInOrder
<1>2. ASSUME NEW n \in Takes(output), kernel' = kernel \o Prefix(output, n),
             output' = Suffix(output, n)
      PROVE  OrderInv'
  <2>1. kernel' = Cat(kernel, Prefix(output, n))
    BY <1>2 DEF Cat
  <2>2. n \in 1..Len(output) /\ received \in Seq(AllUnits) /\ kernel \in Seq(AllUnits)
        /\ output \in Seq(AllUnits)
    BY DEF Takes, TypeOK
  <2>3. Cat(Cat(received, kernel'), output') = Cat(Cat(received, kernel), output)
    BY <1>2, <2>1, <2>2, Moved
  <2>4. Line' = Line
    BY <1>0, <2>3 DEF Line
  <2> QED
    BY <1>0, <2>4, LineIs, LineIsNext DEF OrderInv
<1> QED
  BY <1>1, <1>2 DEF HandleWrite

LEMMA SendKeepsOrder ==
  ASSUME TypeOK, OrderInv, SendInLoop
  PROVE  OrderInv'
<1>0. UNCHANGED <<accepted, peer, received>>
  BY DEF SendInLoop, peerVars
<1>1. /\ received \in Seq(AllUnits) /\ kernel \in Seq(AllUnits) /\ output \in Seq(AllUnits)
      /\ rest \in Seq(AllUnits)
  BY DEF TypeOK
<1>2. ASSUME NEW n \in Takes(rest), output = <<>>, output' = output,
             kernel' = kernel \o Prefix(rest, n), rest' = Suffix(rest, n),
             pc' = IF n = Len(rest) THEN "tasks" ELSE "send"
      PROVE  OrderInv'
  <2>1. n \in 1..Len(rest)
    BY DEF Takes
  <2>2. kernel' = Cat(kernel, Prefix(rest, n))
    BY <1>2 DEF Cat
  <2>3. Cat(Cat(received, kernel'), rest') = Cat(Cat(received, kernel), rest)
    BY <1>1, <1>2, <2>1, <2>2, Moved
  <2>4. kernel' \in Seq(AllUnits)
    BY <1>1, <2>1, <2>2, Cut, CatTyped
  <2>5. Cat(received, kernel) \in Seq(AllUnits) /\ Cat(received, kernel') \in Seq(AllUnits)
    BY <1>1, <2>4, CatTyped
  <2>6. Cat(Cat(received, kernel), <<>>) = Cat(received, kernel)
        /\ Cat(Cat(received, kernel'), <<>>) = Cat(received, kernel')
    BY <2>5, CatTyped
  <2>7. Line' = Line
    BY <1>0, <1>2, <2>3, <2>6 DEF Line
  <2>8. n = Len(rest) => rest' = <<>>
    BY <1>1, <1>2, <2>1, Cut
  <2> QED
    BY <1>0, <1>2, <2>7, <2>8, LineIs, LineIsNext DEF OrderInv
<1>3. CASE peer = "reset" /\ rest' = <<>>
  BY <1>0, <1>3 DEF OrderInv, BytesInOrder
<1>4. CASE output' = output \o rest /\ rest' = <<>> /\ kernel' = kernel
  <2>1. output' = Cat(output, rest)
    BY <1>4 DEF Cat
  <2>2. Cat(received, kernel) \in Seq(AllUnits)
    BY <1>1, CatTyped
  <2>3. Cat(Cat(Cat(received, kernel), output), rest) = Cat(Cat(received, kernel), output')
    BY <1>1, <2>1, <2>2, CatAssociative
  <2>4. output' \in Seq(AllUnits)
    BY <1>1, <2>1, CatTyped
  <2>5. Cat(Cat(received, kernel), output') \in Seq(AllUnits)
    BY <2>2, <2>4, CatTyped
  <2>6. Cat(Cat(Cat(received, kernel), output'), <<>>) = Cat(Cat(received, kernel), output')
    BY <2>5, CatTyped
  <2>7. Line' = Line
    BY <1>0, <1>4, <2>3, <2>6 DEF Line
  <2> QED
    BY <1>0, <1>4, <2>7, LineIs, LineIsNext DEF OrderInv
<1> QED
  BY <1>2, <1>3, <1>4 DEF SendInLoop

LEMMA TakeKeepsOrder ==
  ASSUME TypeOK, OrderInv, NEW w \in Senders, RunSend(w)
  PROVE  OrderInv'
<1>0. pc = "tasks" /\ rest = <<>> /\ UNCHANGED <<received, kernel, output, peer>>
  BY DEF RunSend, NextTask, OrderInv, peerVars
<1>1. CASE conn
  <2>1. rest' = Units(w) /\ accepted' = Cat(accepted, Units(w)) /\ pc' = "send"
    BY <1>1 DEF RunSend, Cat
  <2>2. received \in Seq(AllUnits) /\ kernel \in Seq(AllUnits) /\ output \in Seq(AllUnits)
    BY DEF TypeOK
  <2>3. Cat(Cat(received, kernel), output) \in Seq(AllUnits)
    BY <2>2, CatTyped
  <2>4. Line = Cat(Cat(received, kernel), output)
    BY <1>0, <2>3, CatTyped DEF Line
  <2>5. Line' = Cat(Line, Units(w))
    BY <1>0, <2>1, <2>4 DEF Line
  <2> QED
    BY <1>0, <2>1, <2>5, LineIs, LineIsNext DEF OrderInv
<1>2. CASE ~conn
  BY <1>0, <1>2 DEF RunSend, OrderInv, BytesInOrder
<1> QED
  BY <1>1, <1>2

LEMMA ReadKeepsOrder ==
  ASSUME TypeOK, OrderInv, PeerRead
  PROVE  OrderInv'
<1>1. UNCHANGED <<rest, output, accepted, peer, pc>>
  BY DEF PeerRead, loopVars
<1>2. kernel # <<>> /\ received \in Seq(AllUnits) /\ kernel \in Seq(AllUnits)
  BY DEF PeerRead, TypeOK
<1>3. Head(kernel) \in AllUnits /\ Tail(kernel) \in Seq(AllUnits)
  BY PeerReadTyped
<1>4. received' = Cat(received, <<Head(kernel)>>) /\ kernel' = Tail(kernel)
  BY <1>2, <1>3, AppendIsConcat DEF PeerRead, Cat
<1>5. <<Head(kernel)>> \in Seq(AllUnits)
  BY <1>3
<1>6. ASSUME NEW h \in Seq(AllUnits), NEW t \in Seq(AllUnits)
      PROVE  Cat(Cat(received, h), t) = Cat(received, Cat(h, t))
  BY <1>2, CatAssociative
<1>7. Cat(<<Head(kernel)>>, Tail(kernel)) = kernel
  BY <1>2, HeadBack DEF Cat
<1>8. Cat(Cat(received, <<Head(kernel)>>), Tail(kernel))
          = Cat(received, Cat(<<Head(kernel)>>, Tail(kernel)))
  BY <1>3, <1>5, <1>6
<1>9. Line' = Line
  BY <1>1, <1>4, <1>7, <1>8 DEF Line
<1> QED
  BY <1>1, <1>9, LineIs, LineIsNext DEF OrderInv

\* The peer reads the messages whole and in the order in which the loop took them.
THEOREM Reactor_BytesInOrder == Spec => []BytesInOrder
<1>1. Init => OrderInv
  BY ConcatEmptySeq, EmptySeq DEF Init, OrderInv, BytesInOrder
<1>2. TypeOK /\ Accepting /\ OrderInv /\ [Next]_vars => OrderInv'
  <2> SUFFICES ASSUME TypeOK, Accepting, OrderInv, [Next]_vars PROVE OrderInv'
    OBVIOUS
  <2>1. CASE HandleWrite
    BY <2>1, WriteKeepsOrder
  <2>2. CASE SendInLoop
    BY <2>2, SendKeepsOrder
  <2>3. CASE \E w \in Senders : RunSend(w)
    BY <2>3, TakeKeepsOrder
  <2>4. CASE PeerRead
    BY <2>4, ReadKeepsOrder
  <2>5. CASE \/ AcceptStep \/ LoopTop \/ Wait \/ HandleWakeup \/ Dispatch \/ HandleRead \/ Swap
             \/ RunAdd \/ RunRemove
    <3>1. UNCHANGED <<rest, output, kernel, accepted, received, peer>>
      BY <2>5 DEF AcceptStep, AcceptConnection, TellConnected, AddEvent, LoopTop, Wait,
        HandleWakeup, Dispatch, HandleRead, Swap, RunAdd, RunRemove, sendVars, peerVars
    <3>2. pc' = "send" => pc = "send"
      BY <2>5 DEF AcceptStep, AcceptConnection, TellConnected, AddEvent, LoopTop, Wait,
        HandleWakeup, Dispatch, HandleRead, AfterRead, Swap, RunAdd, RunRemove, loopVars
    <3>3. pc = "send" => pc' = "send"
      BY <2>5 DEF Accepting, AcceptStep, AcceptConnection, TellConnected, AddEvent, LoopTop, Wait,
        HandleWakeup, Dispatch, HandleRead, AfterRead, Swap, RunAdd, RunRemove, NextTask, loopVars
    <3> QED
      BY <3>1, <3>2, <3>3 DEF OrderInv, BytesInOrder
  <2>6. CASE \/ StopSet \/ StopWakeup \/ PeerSend \/ PeerGoes("closed") \/ PeerGoes("reset")
             \/ \E w \in Senders : WorkerSend(w) \/ WorkerWake(w)
    <3>1. UNCHANGED <<rest, output, kernel, accepted, received, pc>>
      BY <2>6 DEF StopSet, StopWakeup, PeerSend, PeerGoes, WorkerSend, WorkerWake, sendVars,
        peerVars, loopVars
    <3>2. peer' # "reset" => peer # "reset"
      BY <2>6 DEF StopSet, StopWakeup, PeerSend, PeerGoes, WorkerSend, WorkerWake, peerVars
    <3> QED
      BY <3>1, <3>2 DEF OrderInv, BytesInOrder
  <2>7. CASE UNCHANGED vars
    BY <2>7 DEF vars, OrderInv, BytesInOrder
  <2> QED
    BY <2>1, <2>2, <2>3, <2>4, <2>5, <2>6, <2>7 DEF Next, LoopStep
<1>3. OrderInv => BytesInOrder
  BY DEF OrderInv
<1>4. Init => Accepting
  BY DEF Init, Accepting
<1> QED
  BY <1>1, <1>2, <1>3, <1>4, KeepsAccepting, Reactor_TypeOK, PTL DEF Spec

-----------------------------------------------------------------------------
(* What the actor is told, and what is buffered.                           *)

Has(seq, x) == \E i \in 1..Len(seq) : seq[i] = x

\* How far the connection has got.
Setup ==
  /\ acc = "none" => ~conn
  /\ acc \in {"none", "added"} <=> inbox = <<>>
  /\ acc # "done" => ~callback
  /\ Has(pending, "add") \/ Has(batch, "add") => sub /\ acc = "done"
  /\ pc = "accept" <=> ~sub /\ acc \in {"added", "told"}

\* What the loop thread knows at each place.
Rounds ==
  /\ pc \notin {"tasks", "send"} => batch = <<>>
  /\ pc \in {"read", "write"} => callback /\ conn
  /\ pc = "send" => conn

\* After Disconnected the connection is gone, or its removal is on the way and nothing is
\* read before.
Leaving ==
  Has(inbox, "Disconnected") =>
    \/ ~conn /\ pc # "read"
    \/ pc \in {"write", "swap"} /\ Has(pending, "remove")
    \/ pc \in {"tasks", "send"} /\ Has(batch, "remove")

\* On its own loop a connection is watched from its accept on, for writing while it has data.
Watched ==
  ~sub => /\ conn /\ pc # "accept" => callback
          /\ acc # "done" => output = <<>>
          /\ conn /\ output # <<>> => interest = "RW"

Shape == Setup /\ Rounds /\ Leaving /\ Watched

LEMMA HasNone == \A x : ~Has(<<>>, x)
BY DEF Has

LEMMA HasAppend ==
  ASSUME NEW S, NEW s \in Seq(S), NEW e \in S, NEW x
  PROVE  Has(Append(s, e), x) <=> Has(s, x) \/ x = e
<1> DEFINE t == Append(s, e)
<1>1. /\ Len(t) = Len(s) + 1 /\ t[Len(s) + 1] = e /\ \A i \in 1..Len(s) : t[i] = s[i]
      /\ Len(s) \in Nat
  BY AppendProperties
<1> HIDE DEF t
<1>2. Has(t, x) <=> Has(s, x) \/ x = e
  BY <1>1 DEF Has
<1> QED
  BY <1>2 DEF t

LEMMA HasRest ==
  ASSUME TypeOK, NEW task, NextTask(task), NEW x
  PROVE  Has(batch, x) <=> x = task \/ Has(batch', x)
<1>1. /\ Len(batch) \in Nat \ {0} /\ Len(batch') = Len(batch) - 1 /\ batch[1] = task
      /\ \A i \in 1..Len(batch') : batch'[i] = batch[i + 1]
  BY NextTaskTyped, EmptySeq DEF TypeOK
<1>2. ASSUME Has(batch, x), x # task PROVE Has(batch', x)
  <2>1. PICK i \in 1..Len(batch) : batch[i] = x
    BY <1>2 DEF Has
  <2>2. i - 1 \in 1..Len(batch') /\ batch'[i - 1] = x
    BY <1>1, <1>2, <2>1
  <2> QED
    BY <2>2 DEF Has
<1>3. ASSUME Has(batch', x) PROVE Has(batch, x)
  <2>1. PICK i \in 1..Len(batch') : batch'[i] = x
    BY <1>3 DEF Has
  <2>2. i + 1 \in 1..Len(batch) /\ batch[i + 1] = x
    BY <1>1, <2>1
  <2> QED
    BY <2>2 DEF Has
<1>4. Has(batch, task)
  BY <1>1 DEF Has
<1> QED
  BY <1>2, <1>3, <1>4

LEMMA AcceptShape ==
  ASSUME TypeOK, Shape, AcceptStep
  PROVE  Shape'
<1> USE DEF Shape
<1>1. CASE AcceptConnection
  <2>1. UNCHANGED <<sub, callback, interest, pending, batch, output, inbox>>
    BY <1>1 DEF AcceptConnection, taskVars, sendVars
  <2>2. /\ acc = "none" /\ acc' = "added" /\ conn' = TRUE /\ ~conn /\ inbox = <<>> /\ ~callback
        /\ pc' = (IF sub THEN pc ELSE "accept") /\ (sub \/ pc = "poll")
    BY <1>1 DEF AcceptConnection, Setup
  <2>3. ~Has(inbox, "Disconnected")
    BY <2>2, HasNone
  <2>4. Setup'
    BY <2>1, <2>2 DEF Setup
  <2>5. Rounds' /\ Leaving' /\ Watched'
    BY <2>1, <2>2, <2>3 DEF Rounds, Leaving, Watched
  <2> QED
    BY <2>4, <2>5
<1>2. CASE TellConnected
  <2>1. UNCHANGED <<sub, conn, callback, interest, pending, batch, pc, output>>
    BY <1>2 DEF TellConnected, connVars, taskVars, loopVars, sendVars
  <2>2. acc = "added" /\ acc' = "told" /\ inbox = <<>> /\ inbox' = Append(inbox, "Connected")
    BY <1>2 DEF TellConnected, Setup
  <2>3. inbox' # <<>> /\ ~Has(inbox', "Disconnected")
    <3>1. inbox \in Seq({"Connected", "NetworkRecv", "Disconnected"})
      BY DEF TypeOK
    <3>2. ~Has(inbox, "Disconnected")
      BY <2>2, HasNone
    <3>3. inbox' # <<>>
      BY <2>2, <3>1, AppendProperties
    <3>4. ~Has(Append(inbox, "Connected"), "Disconnected")
      BY <3>1, <3>2, HasAppend
    <3> QED
      BY <2>2, <3>3, <3>4
  <2>4. Setup'
    BY <2>1, <2>2, <2>3 DEF Setup
  <2>5. Rounds' /\ Leaving' /\ Watched'
    BY <2>1, <2>2, <2>3 DEF Rounds, Leaving, Watched
  <2> QED
    BY <2>4, <2>5
<1>3. CASE AddEvent
  <2>1. UNCHANGED <<sub, conn, batch, output, inbox>> /\ acc = "told" /\ acc' = "done"
    BY <1>3 DEF AddEvent, sendVars
  <2>2. CASE ~sub
    <3>1. /\ callback' = TRUE /\ pc' = "swap" /\ pending' = pending /\ pc = "accept"
          /\ output = <<>>
      BY <1>3, <2>1, <2>2 DEF AddEvent, Setup, Watched
    <3>2. Setup' /\ Rounds'
      BY <2>1, <2>2, <3>1 DEF Setup, Rounds
    <3>3. Leaving' /\ Watched'
      BY <2>1, <2>2, <3>1 DEF Leaving, Watched
    <3> QED
      BY <3>2, <3>3
  <2>3. CASE sub
    <3>1. /\ pending' = Append(pending, "add")
          /\ UNCHANGED <<callback, interest, pc>>
      BY <1>3, <2>3 DEF AddEvent
    <3>2. pending \in Seq(Tasks) /\ "add" \in Tasks
      BY DEF TypeOK, Tasks
    <3>3. Has(pending', "remove") <=> Has(pending, "remove")
      BY <3>1, <3>2, HasAppend
    <3>4. Setup' /\ Rounds'
      BY <2>1, <2>3, <3>1 DEF Setup, Rounds
    <3>5. Leaving' /\ Watched'
      BY <2>1, <2>3, <3>1, <3>3 DEF Leaving, Watched
    <3> QED
      BY <3>4, <3>5
  <2> QED
    BY <2>2, <2>3 DEF TypeOK
<1> QED
  BY <1>1, <1>2, <1>3 DEF AcceptStep

LEMMA ReadShape ==
  ASSUME TypeOK, Shape, HandleRead
  PROVE  Shape'
<1> USE DEF Shape
<1>1. UNCHANGED <<sub, acc, conn, callback, interest, batch, output>> /\ pc = "read"
  BY DEF HandleRead, connVars, sendVars
<1>2. callback /\ conn /\ acc = "done" /\ inbox # <<>> /\ batch = <<>>
  BY <1>1 DEF Setup, Rounds, TypeOK
<1>3. ~Has(inbox, "Disconnected")
  BY <1>1, <1>2 DEF Leaving
<1>4. pc' \in {"read", "write", "swap"}
  BY <1>1 DEF HandleRead, AfterRead
<1>5. /\ inbox \in Seq({"Connected", "NetworkRecv", "Disconnected"})
      /\ pending \in Seq(Tasks) /\ "remove" \in Tasks
  BY DEF TypeOK, Tasks
<1>6. \/ inbox' = inbox /\ pending' = pending
      \/ inbox' = Append(inbox, "NetworkRecv") /\ pending' = pending
      \/ /\ inbox' = Append(inbox, "Disconnected") /\ pending' = Append(pending, "remove")
         /\ pc' \in {"write", "swap"}
  BY DEF HandleRead, AfterRead
<1>7. inbox' # <<>> /\ (Has(pending', "add") <=> Has(pending, "add"))
  <2>1. CASE pending' = pending
    <3>1. CASE inbox' = inbox
      BY <1>2, <2>1, <3>1
    <3>2. CASE inbox' = Append(inbox, "NetworkRecv")
      BY <1>5, <2>1, <3>2, AppendProperties
    <3>3. CASE inbox' = Append(inbox, "Disconnected")
      BY <1>5, <2>1, <3>3, AppendProperties
    <3> QED
      BY <1>6, <3>1, <3>2, <3>3
  <2>2. CASE inbox' = Append(inbox, "Disconnected") /\ pending' = Append(pending, "remove")
    BY <1>5, <2>2, HasAppend, AppendProperties
  <2> QED
    BY <1>6, <2>1, <2>2
<1>8. Has(inbox', "Disconnected") => pc' \in {"write", "swap"} /\ Has(pending', "remove")
  <2>1. CASE inbox' = inbox
    BY <1>3, <2>1
  <2>2. CASE inbox' = Append(inbox, "NetworkRecv")
    BY <1>3, <1>5, <2>2, HasAppend
  <2>3. CASE pending' = Append(pending, "remove") /\ pc' \in {"write", "swap"}
    BY <1>5, <2>3, HasAppend
  <2> QED
    BY <1>6, <2>1, <2>2, <2>3
<1>9. Setup' /\ Rounds'
  BY <1>1, <1>2, <1>4, <1>7 DEF Setup, Rounds
<1>10. Leaving' /\ Watched'
  BY <1>1, <1>2, <1>8 DEF Leaving, Watched
<1> QED
  BY <1>9, <1>10

LEMMA WriteShape ==
  ASSUME TypeOK, Shape, HandleWrite
  PROVE  Shape'
<1> USE DEF Shape
<1>1. UNCHANGED <<sub, acc, conn, callback, pending, batch, inbox>> /\ pc = "write"
  BY DEF HandleWrite, taskVars
<1>2. pc' \in {"write", "swap"}
  BY <1>1 DEF HandleWrite
<1>3. callback /\ conn /\ batch = <<>>
  BY <1>1 DEF Rounds
<1>4. /\ output = <<>> => output' = <<>>
      /\ output' # <<>> => interest' = interest \/ interest' = "RW"
  BY <1>1, <1>3 DEF HandleWrite, ModifyKeep, Watch
<1>5. Setup' /\ Rounds'
  BY <1>1, <1>2, <1>3 DEF Setup, Rounds
<1>6. Leaving' /\ Watched'
  BY <1>1, <1>2, <1>3, <1>4 DEF Leaving, Watched
<1> QED
  BY <1>5, <1>6

LEMMA SendShape ==
  ASSUME TypeOK, Shape, SendInLoop
  PROVE  Shape'
<1> USE DEF Shape
<1>1. UNCHANGED <<sub, acc, conn, callback, pending, batch, inbox>> /\ pc = "send"
  BY DEF SendInLoop, taskVars
<1>2. pc' \in {"tasks", "send"}
  BY DEF SendInLoop
<1>3. conn /\ (~sub => callback /\ acc = "done")
  BY <1>1 DEF Rounds, Watched, Setup, TypeOK
<1>4. UNCHANGED <<interest, output>> \/ (callback => interest' = "RW")
  BY DEF SendInLoop, ModifyKeep, Watch
<1>5. Setup' /\ Rounds'
  BY <1>1, <1>2, <1>3 DEF Setup, Rounds
<1>6. Leaving' /\ Watched'
  BY <1>1, <1>2, <1>3, <1>4 DEF Leaving, Watched
<1> QED
  BY <1>5, <1>6

LEMMA TaskShape ==
  ASSUME TypeOK, Shape, RunAdd \/ RunRemove \/ \E w \in Senders : RunSend(w)
  PROVE  Shape'
<1> USE DEF Shape
<1>1. UNCHANGED <<sub, acc, pending, inbox, output>> /\ pc = "tasks"
  BY DEF RunAdd, RunRemove, RunSend, NextTask, sendVars
<1>2. CASE RunAdd
  <2>1. UNCHANGED <<conn, pc>> /\ callback' = TRUE /\ NextTask("add")
    BY <1>2 DEF RunAdd, loopVars
  <2>2. Has(batch, "add") /\ (Has(batch', "add") => Has(batch, "add"))
        /\ (Has(batch', "remove") <=> Has(batch, "remove"))
    BY <2>1, HasRest
  <2>3. sub /\ acc = "done"
    BY <2>2 DEF Setup
  <2>4. Setup' /\ Rounds'
    BY <1>1, <2>1, <2>2, <2>3 DEF Setup, Rounds
  <2>5. Leaving' /\ Watched'
    BY <1>1, <2>1, <2>2, <2>3 DEF Leaving, Watched
  <2> QED
    BY <2>4, <2>5
<1>3. CASE RunRemove
  <2>1. conn' = FALSE /\ callback' = FALSE /\ NextTask("remove") /\ UNCHANGED pc
    BY <1>3 DEF RunRemove, loopVars
  <2>2. Has(batch', "add") => Has(batch, "add")
    BY <2>1, HasRest
  <2>3. Setup' /\ Rounds'
    BY <1>1, <2>1, <2>2 DEF Setup, Rounds
  <2>4. Leaving' /\ Watched'
    BY <1>1, <2>1 DEF Leaving, Watched
  <2> QED
    BY <2>3, <2>4
<1>4. ASSUME NEW w \in Senders, RunSend(w) PROVE Shape'
  <2>0. w # "remove" /\ w # "add"
    OBVIOUS
  <2>1. UNCHANGED <<conn, callback, interest>> /\ NextTask(w)
        /\ (pc' = pc \/ (pc' = "send" /\ conn))
    <3>1. NextTask(w) /\ UNCHANGED connVars
      BY <1>4 DEF RunSend
    <3>2. pc' = pc \/ (pc' = "send" /\ conn)
      BY <1>4 DEF RunSend
    <3> QED
      BY <3>1, <3>2 DEF connVars
  <2>2. (Has(batch', "add") => Has(batch, "add"))
        /\ (Has(batch', "remove") <=> Has(batch, "remove"))
    BY <2>0, <2>1, HasRest
  <2>3. Setup' /\ Rounds'
    BY <1>1, <2>1, <2>2 DEF Setup, Rounds
  <2>4. Leaving' /\ Watched'
    BY <1>1, <2>1, <2>2 DEF Leaving, Watched
  <2> QED
    BY <2>3, <2>4
<1> QED
  BY <1>2, <1>3, <1>4

LEMMA LoopShape ==
  ASSUME TypeOK, Shape, LoopTop \/ Wait \/ HandleWakeup \/ Dispatch \/ Swap
  PROVE  Shape'
<1> USE DEF Shape
<1>1. UNCHANGED <<sub, acc, conn, callback, interest, inbox, output>>
  BY DEF LoopTop, Wait, HandleWakeup, Dispatch, Swap, connVars, sendVars
<1>2. CASE Swap
  <2>1. pc = "swap" /\ pc' = "tasks" /\ batch' = pending /\ pending' = <<>> /\ ~Has(<<>>, "add")
    BY <1>2, HasNone DEF Swap
  <2>2. Setup' /\ Rounds'
    BY <1>1, <2>1 DEF Setup, Rounds
  <2>3. Leaving' /\ Watched'
    BY <1>1, <2>1 DEF Leaving, Watched
  <2> QED
    BY <2>2, <2>3
<1>3. CASE HandleWakeup
  <2>1. UNCHANGED <<pc, pending, batch>>
    BY <1>3 DEF HandleWakeup
  <2> QED
    BY <1>1, <2>1 DEF Setup, Rounds, Leaving, Watched
<1>4. CASE LoopTop
  <2>1. UNCHANGED <<pending, batch>> /\ batch = <<>> /\ pc = "tasks" /\ pc' \in {"poll", "ended"}
        /\ ~Has(batch, "remove")
    BY <1>4, HasNone DEF LoopTop, taskVars
  <2>2. Setup' /\ Rounds'
    BY <1>1, <2>1 DEF Setup, Rounds
  <2>3. Leaving' /\ Watched'
    BY <1>1, <2>1 DEF Leaving, Watched
  <2> QED
    BY <2>2, <2>3
<1>5. CASE Wait \/ Dispatch
  <2>1. /\ UNCHANGED <<pending, batch>> /\ pc \in {"poll", "events"}
        /\ pc' \in {"events", "read", "write", "swap"}
        /\ pc' \in {"read", "write"} => callback /\ conn
    BY <1>5 DEF Wait, Dispatch, taskVars
  <2>2. Setup' /\ Rounds'
    BY <1>1, <2>1 DEF Setup, Rounds
  <2>3. Leaving' /\ Watched'
    BY <1>1, <2>1 DEF Leaving, Watched
  <2> QED
    BY <2>2, <2>3
<1> QED
  BY <1>2, <1>3, <1>4, <1>5

LEMMA OtherShape ==
  ASSUME TypeOK, Shape,
         \/ StopSet \/ StopWakeup \/ PeerRead \/ PeerSend \/ PeerGoes("closed")
         \/ PeerGoes("reset") \/ \E w \in Senders : WorkerSend(w) \/ WorkerWake(w)
  PROVE  Shape'
<1> USE DEF Shape
<1>1. UNCHANGED <<sub, acc, conn, callback, interest, inbox, output, batch, pc>>
  BY DEF StopSet, StopWakeup, PeerRead, PeerSend, PeerGoes, WorkerSend, WorkerWake, connVars,
    taskVars, loopVars, sendVars
<1>2. (Has(pending', "add") <=> Has(pending, "add"))
      /\ (Has(pending', "remove") <=> Has(pending, "remove"))
  <2>1. CASE pending' = pending
    BY <2>1
  <2>2. ASSUME NEW w \in Senders, pending' = Append(pending, w)
        PROVE  (Has(pending', "add") <=> Has(pending, "add"))
               /\ (Has(pending', "remove") <=> Has(pending, "remove"))
    <3>1. w \in Tasks /\ pending \in Seq(Tasks) /\ w # "add" /\ w # "remove"
      BY DEF Tasks, TypeOK
    <3> QED
      BY <2>2, <3>1, HasAppend
  <2> QED
    BY <2>1, <2>2 DEF StopSet, StopWakeup, PeerRead, PeerSend, PeerGoes, WorkerSend, WorkerWake,
      taskVars
<1>3. Setup' /\ Rounds'
  BY <1>1, <1>2 DEF Setup, Rounds
<1>4. Leaving' /\ Watched'
  BY <1>1, <1>2 DEF Leaving, Watched
<1> QED
  BY <1>3, <1>4

LEMMA ShapeStep == TypeOK /\ Shape /\ [Next]_vars => Shape'
<1> SUFFICES ASSUME TypeOK, Shape, [Next]_vars PROVE Shape'
  OBVIOUS
<1>1. CASE Next
  BY <1>1, AcceptShape, ReadShape, WriteShape, SendShape, TaskShape, LoopShape, OtherShape
     DEF Next, LoopStep
<1>2. CASE UNCHANGED vars
  BY <1>2 DEF vars, Shape, Setup, Rounds, Leaving, Watched
<1> QED
  BY <1>1, <1>2

LEMMA InitShape == Init => Shape
BY HasNone DEF Init, Shape, Setup, Rounds, Leaving, Watched

LEMMA AlwaysShape == Spec => [](TypeOK /\ Shape)
<1> QED
  BY InitShape, ShapeStep, Reactor_TypeOK, PTL DEF Spec

\* What a new message to the actor may be.
LEMMA LifecycleAppend ==
  ASSUME TypeOK, Lifecycle, NEW m \in {"Connected", "NetworkRecv", "Disconnected"},
         inbox' = Append(inbox, m), m = "Connected" <=> inbox = <<>>,
         ~Has(inbox, "Disconnected")
  PROVE  Lifecycle'
<1>1. /\ inbox \in Seq({"Connected", "NetworkRecv", "Disconnected"}) /\ Len(inbox) \in Nat
      /\ inbox = <<>> <=> Len(inbox) = 0
  BY EmptySeq DEF TypeOK
<1>2. /\ Len(inbox') = Len(inbox) + 1 /\ inbox'[Len(inbox) + 1] = m
      /\ \A i \in 1..Len(inbox) : inbox'[i] = inbox[i]
  BY <1>1, AppendProperties
<1> SUFFICES ASSUME NEW i \in 1..Len(inbox')
             PROVE  /\ inbox'[i] = "Connected" <=> i = 1
                    /\ inbox'[i] = "Disconnected" => i = Len(inbox')
  BY DEF Lifecycle
<1>3. CASE i \in 1..Len(inbox)
  <2>1. inbox'[i] = inbox[i] /\ inbox[i] # "Disconnected"
    BY <1>2, <1>3 DEF Has
  <2> QED
    BY <1>3, <2>1 DEF Lifecycle
<1>4. CASE i = Len(inbox) + 1
  BY <1>1, <1>2, <1>4
<1> QED
  BY <1>1, <1>2, <1>3, <1>4

\* The actor is told Connected first, Disconnected at most once and last.
THEOREM Reactor_Lifecycle == Spec => []Lifecycle
<1>1. Init => Lifecycle
  BY DEF Init, Lifecycle
<1>2. TypeOK /\ Shape /\ Lifecycle /\ [Next]_vars => Lifecycle'
  <2> SUFFICES ASSUME TypeOK, Shape, Lifecycle, [Next]_vars PROVE Lifecycle'
    OBVIOUS
  <2>1. CASE inbox' = inbox
    BY <2>1 DEF Lifecycle
  <2>2. CASE TellConnected
    <3>1. inbox' = Append(inbox, "Connected") /\ inbox = <<>> /\ ~Has(inbox, "Disconnected")
      BY <2>2, HasNone DEF TellConnected, Shape, Setup
    <3> QED
      BY <3>1, LifecycleAppend
  <2>3. ASSUME HandleRead, NEW m \in {"NetworkRecv", "Disconnected"}, inbox' = Append(inbox, m)
        PROVE  Lifecycle'
    <3>1. pc = "read" /\ acc = "done"
      BY <2>3 DEF HandleRead, Shape, Setup, Rounds, TypeOK
    <3>2. inbox # <<>> /\ ~Has(inbox, "Disconnected")
      BY <3>1 DEF Shape, Setup, Leaving
    <3> QED
      BY <2>3, <3>2, LifecycleAppend
  <2> QED
    BY <2>1, <2>2, <2>3 DEF Next, AcceptStep, AcceptConnection, AddEvent, LoopStep, LoopTop, Wait,
      HandleWakeup, Dispatch, HandleRead, HandleWrite, Swap, RunAdd, RunRemove, SendInLoop, RunSend,
      StopSet, StopWakeup, PeerRead, PeerSend, PeerGoes, WorkerSend, WorkerWake, vars
<1> QED
  BY <1>1, <1>2, AlwaysShape, PTL DEF Spec

\* Between two rounds of a loop that accepted the connection, unwritten data is watched for.
THEOREM Reactor_BufferedIsWatched == Spec => []BufferedIsWatched
<1>1. Shape => BufferedIsWatched
  BY DEF Shape, Watched, BufferedIsWatched
<1> QED
  BY <1>1, AlwaysShape, PTL
=============================================================================
