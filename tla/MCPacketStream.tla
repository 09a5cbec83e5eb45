--------------------------- MODULE MCPacketStream ---------------------------
(* TLC instances of PacketStream: bytes are digits of base 3, so that a     *)
(* name of 9 bytes no longer fits its length of two, and 41 bytes are no    *)
(* positive int.                                                            *)
EXTENDS PacketStream

MCByte == CodecByte
LongName == <<0, 0, 1, 0, 0, 0, 0, 0, 0>>

MCPackets ==
  { Packet(<< <<>>, <<1>>, <<>>, <<2>> >>, 80, TRUE, <<1>>),
    Packet(<< <<>>, <<>>, LongName, <<>> >>, 1, FALSE, <<>>),
    Packet(<< <<>>, <<>>, <<>>, <<>> >>, 2, FALSE, <<0, 0, 0, 0, 0, 0, 0, 0, 0, 0>>),
    Packet(<< <<>>, <<>>, <<>>, <<>> >>, 3, FALSE,
           <<0, 0, 0, 0, 0, 0, 0, 0, 0, 0, 0, 0, 0, 0, 0, 0, 0, 0, 0, 0>>) }
=============================================================================
