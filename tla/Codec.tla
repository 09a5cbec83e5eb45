------------------------------- MODULE Codec --------------------------------
(***************************************************************************)
(* ClusterPacketCodec: a packet as bytes behind its length, and back.      *)
(*                                                                         *)
(* A byte is a digit 0..Base-1 (the code's Base is 256).  Integers take as *)
(* many bytes as in the code and lose what does not fit: a U16 is a number *)
(* modulo Base^2, a U32 one modulo Base^4.                                 *)
(***************************************************************************)
EXTENDS Naturals, Sequences

CONSTANTS
  Base,
  MaxBody      \* the largest body Decode takes, 16 MB

ASSUME CodecAssumption == Base \in Nat /\ Base >= 2 /\ MaxBody \in Nat

CodecByte == 0..(Base - 1)
Strings == Seq(CodecByte)
Limit16 == Base * Base              \* what an integer of two or of four bytes stays below
Limit32 == Limit16 * Limit16

\* ClusterPacket.  names: sourceNodeId, targetNodeId, sourceActorName, targetActorName.
Packet(names, sessionId, isResponse, data) ==
  [names |-> names, sessionId |-> sessionId, isResponse |-> isResponse, data |-> data]

AnyPacket ==
  [names : Strings \X Strings \X Strings \X Strings,
   sessionId : Nat, isResponse : BOOLEAN, data : Strings]

kMinBodyLen == 2 + 2 + 2 + 2 + 4 + 1 + 4

-----------------------------------------------------------------------------
(* Encode.                                                                 *)

U8(v) == <<v % Base>>
U16(v) == U8(v \div Base) \o U8(v)
U32(v) == U16(v \div Limit16) \o U16(v)
Str16(s) == U16(Len(s)) \o s
BadStr32(s) == Str16(s)             \* mutant: the short length for the data
Str32(s) == U32(Len(s)) \o s

Encode(p) ==
  LET body == Str16(p.names[1]) \o Str16(p.names[2]) \o Str16(p.names[3])
              \o Str16(p.names[4]) \o U32(p.sessionId)
              \o U8(IF p.isResponse THEN 1 ELSE 0) \o Str32(p.data)
  IN U32(Len(body)) \o body

-----------------------------------------------------------------------------
(* Decode.  A cursor says whether reading went well so far, the position   *)
(* of the next byte, and the value just read.  A read that would pass the  *)
(* end fails, and so does every later one.                                 *)

From(i) == [ok |-> TRUE, pos |-> i, val |-> 0]
Failed == [ok |-> FALSE, pos |-> 0, val |-> 0]
Fits(c, n, end) == c.ok /\ c.pos + n - 1 <= end

Number(bytes, i, n) ==              \* PeekU32 and its like: big-endian, n bytes
  CASE n = 1 -> bytes[i]
    [] n = 2 -> bytes[i] * Base + bytes[i + 1]
    [] n = 4 -> ((bytes[i] * Base + bytes[i + 1]) * Base + bytes[i + 2]) * Base + bytes[i + 3]

ReadInt(bytes, n, c, end) ==        \* ReadU8, ReadU32
  IF Fits(c, n, end) THEN [ok |-> TRUE, pos |-> c.pos + n, val |-> Number(bytes, c.pos, n)]
  ELSE Failed

ReadStr(bytes, n, c, end) ==        \* ReadStr16, ReadStr32: n bytes of length
  LET l == ReadInt(bytes, n, c, end)
  IN IF l.ok /\ Fits(l, l.val, end)
     THEN [ok |-> TRUE, pos |-> l.pos + l.val,
           val |-> SubSeq(bytes, l.pos, l.pos + l.val - 1)]
     ELSE Failed

\* One field behind another.  (The set of one element makes TLC evaluate cursor once.)
Read(field, bytes, cursor, end) ==
  CHOOSE d \in {CASE field = "str2" -> ReadStr(bytes, 2, c, end)
                  [] field = "str4" -> ReadStr(bytes, 4, c, end)
                  [] field = "int4" -> ReadInt(bytes, 4, c, end)
                  [] field = "int1" -> ReadInt(bytes, 1, c, end) : c \in {cursor}} : TRUE

\* The body's fields in the order of Encode.
Fields(bytes, end) ==
  LET sourceNode == Read("str2", bytes, From(5), end)
      targetNode == Read("str2", bytes, sourceNode, end)
      sourceName == Read("str2", bytes, targetNode, end)
      targetName == Read("str2", bytes, sourceName, end)
      sessionId == Read("int4", bytes, targetName, end)
      flags == Read("int1", bytes, sessionId, end)
      data == Read("str4", bytes, flags, end)
  IN [ok |-> data.ok,
      packet |-> Packet(<<sourceNode.val, targetNode.val, sourceName.val, targetName.val>>,
                        sessionId.val, flags.val % 2 = 1, data.val)]

BodyRefused(body) == body > MaxBody \/ body < kMinBodyLen

Whole(bytes, body) == Len(bytes) >= 4 + body

More == [status |-> "more"]
Error == [status |-> "error"]
\* Decode: more bytes needed (0), protocol error (-1), or a packet and its size.
Decode(bytes) ==
  IF Len(bytes) < 4 THEN More
  ELSE LET body == Number(bytes, 1, 4)
       IN IF BodyRefused(body) THEN Error
          ELSE IF ~Whole(bytes, body) THEN More
          ELSE LET f == Fields(bytes, 4 + body)
               IN IF f.ok
                  THEN [status |-> "packet", packet |-> f.packet, consumed |-> 4 + body]
                  ELSE Error
=============================================================================
