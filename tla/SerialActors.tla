---------------------------- MODULE SerialActors ----------------------------
(***************************************************************************)
(* What the actor system promises the author of an actor: two FIFO         *)
(* mailboxes per actor and one handler at a time.  Nothing is said here of *)
(* threads, the ready queue or the scheduled_ flag; ActorScheduler         *)
(* implements this specification.                                          *)
(***************************************************************************)
EXTENDS Sequences

CONSTANTS Actors, Msgs, NoMsg

VARIABLES priority, normal,   \* the mailboxes of each actor
          busy                \* the message each actor's handler works on

vars == <<priority, normal, busy>>

Init ==
  /\ priority = [a \in Actors |-> <<>>]
  /\ normal = [a \in Actors |-> <<>>]
  /\ busy = [a \in Actors |-> NoMsg]

\* A message reaches the back of the mailbox its sender chose.
Deliver(a, m) ==
  /\ \/ priority' = [priority EXCEPT ![a] = Append(@, m)] /\ UNCHANGED normal
     \/ normal' = [normal EXCEPT ![a] = Append(@, m)] /\ UNCHANGED priority
  /\ UNCHANGED busy

\* An actor that handles nothing takes the front of a mailbox.  A priority
\* message that arrives while the priority mailbox is found empty may be
\* overtaken by one normal message, so either mailbox may be chosen.
Begin(a) ==
  /\ busy[a] = NoMsg
  /\ \/ /\ priority[a] # <<>>
        /\ busy' = [busy EXCEPT ![a] = Head(priority[a])]
        /\ priority' = [priority EXCEPT ![a] = Tail(@)]
        /\ UNCHANGED normal
     \/ /\ normal[a] # <<>>
        /\ busy' = [busy EXCEPT ![a] = Head(normal[a])]
        /\ normal' = [normal EXCEPT ![a] = Tail(@)]
        /\ UNCHANGED priority

\* The handler returns, or throws and the message is dropped.
Finish(a) ==
  /\ busy[a] # NoMsg
  /\ busy' = [busy EXCEPT ![a] = NoMsg]
  /\ UNCHANGED <<priority, normal>>

Next == \E a \in Actors : Begin(a) \/ Finish(a) \/ \E m \in Msgs : Deliver(a, m)

Spec == Init /\ [][Next]_vars
=============================================================================
