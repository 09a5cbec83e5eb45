--------------------------- MODULE PacketChannel ----------------------------
(***************************************************************************)
(* What a cluster connection promises for the packets of one direction:    *)
(* those it carries arrive one for one and in order, each as it was sent.  *)
(* A packet that does not fit its format may arrive changed or end the     *)
(* channel; no other packet suffers for it while the channel lasts.  A     *)
(* packet it does not carry is lost, and nobody is told.  When the thread  *)
(* that dialed raced the loop the channel may end at any packet.           *)
(***************************************************************************)
EXTENDS Naturals, Sequences

CONSTANTS
  Intact(_),       \* the packet fits its format
  Carried(_)       \* the packet is short enough to be sent at all
VARIABLES
  sent, delivered, broken,
  lost,            \* packets that were not carried
  racing           \* the receiver dialed, and is told Connected twice

Init ==
  /\ sent = <<>> /\ delivered = <<>> /\ broken = FALSE /\ lost = <<>>
  /\ racing \in BOOLEAN

Due == sent[Len(delivered) + 1]
Extends(q, r) == Len(r) = Len(q) + 1 /\ SubSeq(r, 1, Len(q)) = q

Put ==
  /\ Extends(sent, sent') /\ Carried(sent'[Len(sent')])
  /\ UNCHANGED <<delivered, broken, lost, racing>>

Lose ==
  /\ Extends(lost, lost') /\ ~Carried(lost'[Len(lost')])
  /\ UNCHANGED <<sent, delivered, broken, racing>>

Get ==
  /\ ~broken /\ Len(delivered) < Len(sent)
  /\ Extends(delivered, delivered')
  /\ Intact(Due) => delivered'[Len(delivered')] = Due
  /\ UNCHANGED <<sent, broken, lost, racing>>

Break ==
  /\ ~broken /\ Len(delivered) < Len(sent) /\ (racing \/ ~Intact(Due))
  /\ broken' = TRUE
  /\ UNCHANGED <<sent, delivered, lost, racing>>

\* A broken channel promises nothing more.
Noise == broken /\ Extends(delivered, delivered') /\ UNCHANGED <<sent, broken, lost, racing>>

Next == Put \/ Lose \/ Get \/ Break \/ Noise
Spec == Init /\ [][Next]_<<sent, delivered, broken, lost, racing>>
=============================================================================
