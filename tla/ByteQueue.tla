----------------------------- MODULE ByteQueue ------------------------------
(***************************************************************************)
(* What a connection needs of its output buffer: a queue of bytes that     *)
(* takes strings at the end and gives up any number of bytes in front.     *)
(***************************************************************************)
EXTENDS Naturals, Sequences

CONSTANT Byte
VARIABLES queue, taken      \* taken: how many bytes it gave up

Init == queue = <<>> /\ taken = 0

Put ==
  /\ queue' \in Seq(Byte) /\ Len(queue) < Len(queue')
  /\ SubSeq(queue', 1, Len(queue)) = queue
  /\ UNCHANGED taken

Take ==
  \E n \in 1..Len(queue) :
    queue' = SubSeq(queue, n + 1, Len(queue)) /\ taken' = taken + n

Next == Put \/ Take
Spec == Init /\ [][Next]_<<queue, taken>>
=============================================================================
