------------------------ MODULE PacketStream_proofs -------------------------
(***************************************************************************)
(* Theorems about Buffer, Codec and PacketStream, for every Base, size of  *)
(* the buffer, of the socket and of a recv, and for all packets.           *)
(*                                                                         *)
(* Buffer: its indexes stay in the vector, and it is a queue of bytes.     *)
(* Codec: what Encode writes, Decode reads, with anything behind it.       *)
(* PacketStream: the bytes on the way are the encodings of the packets     *)
(* sent and not yet decoded, cut at places that do not matter; so the      *)
(* connection is a channel of packets.                                     *)
(***************************************************************************)
EXTENDS PacketStream, SequenceTheorems, TLAPS

-----------------------------------------------------------------------------
(* Buffer.                                                                 *)

\* The indexes stay in the vector.
BufferInv == BufferTypeOK /\ IndexesInBounds

-----------------------------------------------------------------------------
(* What Write, NewSize and Contents are.                                   *)

\* Write leaves the bytes before the place it writes at.
LEMMA WriteType ==
  ASSUME NEW n \in Nat, NEW bytes \in [0..(n - 1) -> Byte], NEW at \in Nat, NEW s \in Seq(Byte)
  PROVE  /\ Write(bytes, at, s) \in [0..(n - 1) -> Byte]
         /\ \A i \in 0..(n - 1) :
              i < at => Write(bytes, at, s)[i] = bytes[i]
<1>1. ASSUME NEW i \in 0..(n - 1), at <= i, i < at + Len(s)
      PROVE  s[i - at + 1] \in Byte
  <2>1. i - at + 1 \in 1..Len(s)
    BY <1>1
  <2> QED
    BY <2>1, ElementOfSeq
<1>2. DOMAIN bytes = 0..(n - 1)
  OBVIOUS
<1> QED
  BY <1>1, <1>2 DEF Write

\* Write puts the string where it says.
LEMMA Written ==
  ASSUME NEW n \in Nat, NEW bytes \in [0..(n - 1) -> Byte], NEW at \in Nat, NEW s \in Seq(Byte),
         NEW k \in 1..Len(s), at + k <= n
  PROVE  Write(bytes, at, s)[at + k - 1] = s[k]
<1>1. Len(s) \in Nat
  BY LenProperties
<1>2. /\ at + k - 1 \in 0..(n - 1) /\ at <= at + k - 1 /\ at + k - 1 < at + Len(s)
      /\ (at + k - 1) - at + 1 = k
  BY <1>1
<1>3. DOMAIN bytes = 0..(n - 1)
  OBVIOUS
<1> HIDE DEF Write
<1>4. Write(bytes, at, s)[at + k - 1] = s[(at + k - 1) - at + 1]
  BY <1>2, <1>3 DEF Write
<1> QED
  BY <1>2, <1>4

\* The vector grows to what the string needs.
LEMMA NewSizeSuffices ==
  ASSUME BufferInv, NEW len \in Nat
  PROVE  NewSize(len) \in Nat /\ NewSize(len) >= size /\ NewSize(len) >= writerIndex + len
BY BufferAssumption DEF BufferInv, BufferTypeOK, IndexesInBounds, NewSize

LEMMA FunctionIsSeq ==
  ASSUME NEW n \in Nat, NEW g \in [1..n -> Byte]
  PROVE  g \in Seq(Byte) /\ Len(g) = n
OBVIOUS

Typed ==
  /\ Contents \in Seq(Byte) /\ Len(Contents) = ReadableBytes /\ ReadableBytes \in Nat
  /\ \A k \in 1..ReadableBytes : Contents[k] = memory[readerIndex + k - 1]

\* The readable bytes, as a sequence.
LEMMA ContentsType == BufferInv => Typed
<1> SUFFICES ASSUME BufferInv PROVE Typed
  OBVIOUS
<1>1. ReadableBytes \in Nat
  BY BufferAssumption DEF BufferInv, BufferTypeOK, IndexesInBounds, ReadableBytes
<1>2. \A k \in 1..ReadableBytes : readerIndex + k - 1 \in 0..(size - 1)
  BY BufferAssumption DEF BufferInv, BufferTypeOK, IndexesInBounds, ReadableBytes
<1>3. Contents \in [1..ReadableBytes -> Byte]
  BY <1>2 DEF Contents, BufferInv, BufferTypeOK
<1> QED
  BY <1>1, <1>3, FunctionIsSeq DEF Contents, Typed

LEMMA ContentsTypeNext == BufferInv' => Typed'
BY ContentsType, PTL

-----------------------------------------------------------------------------
(* Append.  Each way keeps the invariant, keeps the bytes that were there, *)
(* and adds as many as it was given.                                       *)

Extended(s) ==
  /\ ReadableBytes' = ReadableBytes + Len(s)
  /\ \A k \in 1..ReadableBytes : Contents'[k] = Contents[k]
  /\ \A k \in 1..Len(s) : Contents'[ReadableBytes + k] = s[k]

\* Append, when there is room behind the bytes.
LEMMA InPlace ==
  ASSUME BufferInv, NEW s \in Seq(Byte), AppendInPlace(s)
  PROVE  BufferInv' /\ Extended(s)
<1> USE BufferAssumption
<1>0. Len(s) \in Nat
  BY LenProperties
<1>1. /\ size \in Nat /\ readerIndex \in Nat /\ writerIndex \in Nat /\ taken \in Nat
      /\ readerIndex <= writerIndex
      /\ memory \in [0..(size - 1) -> Byte]
  BY DEF BufferInv, BufferTypeOK, IndexesInBounds
<1>2. memory' \in [0..(size - 1) -> Byte]
  BY <1>1, WriteType DEF AppendInPlace
<1>3. BufferInv'
  BY <1>0, <1>1, <1>2 DEF BufferInv, BufferTypeOK, IndexesInBounds, AppendInPlace, WritableBytes
<1>4. ReadableBytes' = ReadableBytes + Len(s)
  BY <1>0, <1>1 DEF ReadableBytes, AppendInPlace
<1>5. ASSUME NEW k \in 1..ReadableBytes PROVE Contents'[k] = Contents[k]
  <2>1. readerIndex + k - 1 \in 0..(size - 1) /\ readerIndex + k - 1 < writerIndex
    BY <1>1 DEF ReadableBytes, BufferInv, IndexesInBounds
  <2>2. memory'[readerIndex + k - 1] = memory[readerIndex + k - 1]
    BY <1>1, <2>1, WriteType DEF AppendInPlace
  <2>3. k \in 1..ReadableBytes'
    BY <1>0, <1>1, <1>4 DEF ReadableBytes
  <2> QED
    BY <2>2, <2>3 DEF Contents, AppendInPlace
<1>6. ASSUME NEW k \in 1..Len(s) PROVE Contents'[ReadableBytes + k] = s[k]
  <2>1. writerIndex + k <= size
    BY <1>0, <1>1 DEF AppendInPlace, WritableBytes
  <2>2. memory'[writerIndex + k - 1] = s[k]
    BY <1>1, <2>1, Written DEF AppendInPlace
  <2>3. /\ readerIndex + (ReadableBytes + k) - 1 = writerIndex + k - 1
        /\ ReadableBytes + k \in 1..ReadableBytes'
    BY <1>0, <1>1, <1>4 DEF ReadableBytes
  <2> QED
    BY <2>2, <2>3 DEF Contents, AppendInPlace
<1> QED
  BY <1>3, <1>4, <1>5, <1>6 DEF Extended

\* Append, when the vector must grow.
LEMMA Grow ==
  ASSUME BufferInv, NEW s \in Seq(Byte), AppendGrow(s)
  PROVE  BufferInv' /\ Extended(s)
<1> USE BufferAssumption
<1>0. Len(s) \in Nat
  BY LenProperties
<1>1. /\ size \in Nat /\ readerIndex \in Nat /\ writerIndex \in Nat /\ taken \in Nat
      /\ readerIndex <= writerIndex /\ writerIndex <= size /\ Prepend <= readerIndex
      /\ memory \in [0..(size - 1) -> Byte]
  BY DEF BufferInv, BufferTypeOK, IndexesInBounds
<1> DEFINE larger == [i \in 0..(size' - 1) |-> IF i < size THEN memory[i] ELSE Zero]
<1>2. size' \in Nat /\ size' >= size /\ size' >= writerIndex + Len(s)
  BY <1>0, NewSizeSuffices DEF AppendGrow
<1>3. larger \in [0..(size' - 1) -> Byte]
  <2>1. ASSUME NEW i \in 0..(size' - 1) PROVE larger[i] \in Byte
    <3>1. CASE i < size
      <4>1. i \in 0..(size - 1)
        BY <1>1, <1>2, <3>1
      <4> QED
        BY <1>1, <3>1, <4>1
    <3>2. CASE ~(i < size)
      BY <3>2
    <3> QED
      BY <3>1, <3>2
  <2> QED
    BY <2>1
<1>4. memory' = Write(larger, writerIndex, s)
  BY DEF AppendGrow
<1>same. \A i \in 0..(size' - 1) : i < size => larger[i] = memory[i]
  OBVIOUS
<1> HIDE DEF larger
<1>front. \A i \in 0..(size' - 1) : i < writerIndex => Write(larger, writerIndex, s)[i] = larger[i]
  <2>1. DOMAIN larger = 0..(size' - 1)
    BY <1>3
  <2> QED
    BY <1>1, <2>1 DEF Write
<1>5. memory' \in [0..(size' - 1) -> Byte]
  BY <1>1, <1>2, <1>3, <1>4, WriteType
<1>6. writerIndex' = writerIndex + Len(s) /\ readerIndex' = readerIndex /\ taken' = taken
  BY DEF AppendGrow
<1>7. BufferInv'
  <2>1. writerIndex' \in Nat /\ readerIndex' <= writerIndex' /\ writerIndex' <= size'
    BY <1>0, <1>1, <1>2, <1>6
  <2> QED
    BY <1>1, <1>2, <1>5, <1>6, <2>1 DEF BufferInv, BufferTypeOK, IndexesInBounds
<1>8. ReadableBytes' = ReadableBytes + Len(s)
  BY <1>0, <1>1, <1>6 DEF ReadableBytes
<1>9. ASSUME NEW k \in 1..ReadableBytes PROVE Contents'[k] = Contents[k]
  <2>0. readerIndex + k - 1 \in Nat /\ readerIndex + k - 1 < writerIndex
    BY <1>1 DEF ReadableBytes
  <2>1. /\ readerIndex + k - 1 \in 0..(size' - 1) /\ readerIndex + k - 1 < writerIndex
        /\ readerIndex + k - 1 < size
    BY <1>1, <1>2, <2>0
  <2>2. memory'[readerIndex + k - 1] = larger[readerIndex + k - 1]
    BY <1>4, <1>front, <2>1
  <2>3. larger[readerIndex + k - 1] = memory[readerIndex + k - 1]
    BY <1>same, <2>1
  <2>4. k \in 1..ReadableBytes'
    BY <1>0, <1>1, <1>8 DEF ReadableBytes
  <2> QED
    BY <1>6, <2>2, <2>3, <2>4 DEF Contents
<1>10. ASSUME NEW k \in 1..Len(s) PROVE Contents'[ReadableBytes + k] = s[k]
  <2>1. writerIndex + k <= size'
    BY <1>0, <1>1, <1>2
  <2>2. Write(larger, writerIndex, s)[writerIndex + k - 1] = s[k]
    <3>1. writerIndex \in Nat /\ size' \in Nat
      BY <1>1, <1>2
    <3> QED
      BY <1>3, <2>1, <3>1, Written
  <2>3. /\ readerIndex + (ReadableBytes + k) - 1 = writerIndex + k - 1
        /\ ReadableBytes + k \in 1..ReadableBytes'
    BY <1>0, <1>1, <1>8 DEF ReadableBytes
  <2> QED
    BY <1>4, <1>6, <2>2, <2>3 DEF Contents
<1> QED
  BY <1>7, <1>8, <1>9, <1>10 DEF Extended

\* Append, when moving the bytes to the front makes room.
LEMMA Compact ==
  ASSUME BufferInv, NEW s \in Seq(Byte), AppendCompact(s)
  PROVE  BufferInv' /\ Extended(s)
<1> USE BufferAssumption
<1>0. Len(s) \in Nat
  BY LenProperties
<1>1. /\ size \in Nat /\ readerIndex \in Nat /\ writerIndex \in Nat /\ taken \in Nat
      /\ readerIndex <= writerIndex /\ writerIndex <= size /\ Prepend <= readerIndex
      /\ memory \in [0..(size - 1) -> Byte]
  BY DEF BufferInv, BufferTypeOK, IndexesInBounds
<1>2. /\ Contents \in Seq(Byte) /\ Len(Contents) = ReadableBytes /\ ReadableBytes \in Nat
  BY ContentsType DEF Typed
<1> DEFINE moved == Write(memory, Prepend, Contents)
<1>3. moved \in [0..(size - 1) -> Byte]
  BY <1>1, <1>2, WriteType
<1>4. memory' = Write(moved, Prepend + ReadableBytes, s)
  BY DEF AppendCompact
<1>5. Prepend + ReadableBytes \in Nat
  BY <1>2
<1>6. memory' \in [0..(size - 1) -> Byte]
  BY <1>1, <1>3, <1>4, <1>5, WriteType
<1>7. /\ size' = size /\ taken' = taken /\ readerIndex' = Prepend
      /\ writerIndex' = Prepend + ReadableBytes + Len(s)
      /\ size - writerIndex + readerIndex >= Len(s) + Prepend
  BY <1>0, <1>1 DEF AppendCompact, TooSmall, WritableBytes
<1>8. BufferInv'
  BY <1>0, <1>1, <1>2, <1>6, <1>7 DEF BufferInv, BufferTypeOK, IndexesInBounds, ReadableBytes
<1>9. ReadableBytes' = ReadableBytes + Len(s)
  BY <1>0, <1>1, <1>7 DEF ReadableBytes
<1>10. ASSUME NEW k \in 1..ReadableBytes PROVE Contents'[k] = Contents[k]
  <2>1. /\ Prepend + k - 1 \in 0..(size - 1) /\ Prepend + k - 1 < Prepend + ReadableBytes
        /\ Prepend <= Prepend + k - 1
    BY <1>1 DEF ReadableBytes
  <2>2. memory'[Prepend + k - 1] = moved[Prepend + k - 1]
    BY <1>1, <1>3, <1>4, <1>5, <2>1, WriteType
  <2>3. moved[Prepend + k - 1] = Contents[(Prepend + k - 1) - Prepend + 1]
    BY <1>1, <1>2, <2>1 DEF Write
  <2>4. (Prepend + k - 1) - Prepend + 1 = k
    BY <1>2
  <2>5. k \in 1..ReadableBytes'
    BY <1>0, <1>2, <1>9
  <2> QED
    BY <1>7, <2>2, <2>3, <2>4, <2>5 DEF Contents
<1>11. ASSUME NEW k \in 1..Len(s) PROVE Contents'[ReadableBytes + k] = s[k]
  <2> DEFINE at == Prepend + ReadableBytes
  <2>1. at + k <= size
    BY <1>0, <1>1, <1>2, <1>7 DEF ReadableBytes
  <2>2. memory'[at + k - 1] = s[k]
    BY <1>1, <1>3, <1>4, <1>5, <2>1, Written
  <2>3. /\ Prepend + (ReadableBytes + k) - 1 = at + k - 1
        /\ ReadableBytes + k \in 1..ReadableBytes'
    BY <1>0, <1>2, <1>9
  <2> QED
    BY <1>7, <2>2, <2>3 DEF Contents
<1> QED
  BY <1>8, <1>9, <1>10, <1>11 DEF Extended

\* Whichever way, the string is behind what was there.
LEMMA AppendExtends ==
  ASSUME BufferInv, NEW s \in Seq(Byte), BufferAppend(s)
  PROVE  BufferInv' /\ Extended(s) /\ Len(s) \in Nat \ {0} /\ taken' = taken
<1>1. Len(s) \in Nat \ {0}
  BY EmptySeq, LenProperties DEF BufferAppend
<1> QED
  BY <1>1, InPlace, Grow, Compact DEF BufferAppend, AppendInPlace, AppendGrow, AppendCompact

\* Append puts the new bytes behind the old ones.
LEMMA AppendConcat ==
  ASSUME BufferInv, NEW s \in Seq(Byte), BufferAppend(s)
  PROVE  Contents' = Contents \o s
<1>1. BufferInv' /\ Extended(s)
  BY AppendExtends
<1>2. Contents \in Seq(Byte) /\ Len(Contents) = ReadableBytes /\ ReadableBytes \in Nat
  BY ContentsType DEF Typed
<1>3. Contents' \in Seq(Byte) /\ Len(Contents') = ReadableBytes'
  BY <1>1, ContentsTypeNext DEF Typed
<1>4. /\ Contents \o s \in Seq(Byte) /\ Len(Contents \o s) = ReadableBytes + Len(s)
      /\ \A i \in 1..(ReadableBytes + Len(s)) :
           (Contents \o s)[i] = IF i <= ReadableBytes THEN Contents[i] ELSE s[i - ReadableBytes]
  BY <1>2, ConcatProperties
<1>5. ASSUME NEW i \in 1..(ReadableBytes + Len(s)) PROVE Contents'[i] = (Contents \o s)[i]
  <2>0. Len(s) \in Nat
    BY LenProperties
  <2>1. CASE i <= ReadableBytes
    BY <1>1, <1>2, <1>4, <2>1 DEF Extended
  <2>2. CASE i > ReadableBytes
    <3>1. i - ReadableBytes \in 1..Len(s) /\ ReadableBytes + (i - ReadableBytes) = i
      BY <1>2, <2>0, <2>2
    <3>2. Contents'[ReadableBytes + (i - ReadableBytes)] = s[i - ReadableBytes]
      BY <1>1, <3>1 DEF Extended
    <3> QED
      BY <1>2, <1>4, <2>2, <3>1, <3>2
  <2> QED
    BY <1>2, <2>1, <2>2
<1> QED
  BY <1>1, <1>3, <1>4, <1>5, SeqEqual DEF Extended

-----------------------------------------------------------------------------
LEMMA RetrieveInv ==
  ASSUME BufferInv, NEW n \in 1..ReadableBytes, Retrieve(n)
  PROVE  BufferInv'
<1> QED
  BY BufferAssumption DEF BufferInv, BufferTypeOK, IndexesInBounds, Retrieve, Front, ReadableBytes

LEMMA BufferInitInv == BufferInit => BufferInv
BY BufferAssumption DEF BufferInit, BufferInv, BufferTypeOK, IndexesInBounds

LEMMA BufferNextInv == BufferInv /\ [BufferNext]_bufferVars => BufferInv'
<1> SUFFICES ASSUME BufferInv, [BufferNext]_bufferVars PROVE BufferInv'
  OBVIOUS
<1>1. CASE \E s \in Seq(Byte) : BufferAppend(s)
  BY <1>1, AppendExtends
<1>2. CASE \E n \in 1..ReadableBytes : Retrieve(n)
  BY <1>2, RetrieveInv
<1>3. CASE UNCHANGED bufferVars
  BY <1>3 DEF bufferVars, BufferInv, BufferTypeOK, IndexesInBounds
<1> QED
  BY <1>1, <1>2, <1>3 DEF BufferNext

\* The indexes of a Buffer never leave its vector: no append and no retrieval reads or
\* writes outside, however the vector grew.
THEOREM Buffer_InBounds == BufferSpec => [](BufferTypeOK /\ IndexesInBounds)
<1>1. BufferSpec => []BufferInv
  BY BufferInitInv, BufferNextInv, PTL DEF BufferSpec
<1> QED
  BY <1>1, PTL DEF BufferInv

-----------------------------------------------------------------------------
LEMMA AppendIsPut ==
  ASSUME BufferInv, NEW s \in Seq(Byte), BufferAppend(s)
  PROVE  Queue!Put
<1>1. BufferInv' /\ Extended(s) /\ Len(s) \in Nat \ {0} /\ taken' = taken
  BY AppendExtends
<1>2. Contents \in Seq(Byte) /\ Len(Contents) = ReadableBytes /\ ReadableBytes \in Nat
  BY ContentsType DEF Typed
<1>3. Contents' \in Seq(Byte) /\ Len(Contents') = ReadableBytes'
  BY <1>1, ContentsTypeNext DEF Typed
<1>4. Len(Contents) < Len(Contents')
  BY <1>1, <1>2, <1>3 DEF Extended
<1>5. SubSeq(Contents', 1, Len(Contents)) = Contents
  <2> DEFINE front == SubSeq(Contents', 1, Len(Contents))
  <2>1. \A i \in 1..Len(Contents) : Contents'[i] \in Byte
    BY <1>2, <1>3, <1>4, ElementOfSeq
  <2>2. /\ front \in Seq(Byte) /\ Len(front) = Len(Contents)
        /\ \A i \in 1..Len(Contents) : front[i] = Contents'[i]
    BY <1>2, <2>1, SubSeqProperties
  <2>3. \A i \in 1..Len(front) : front[i] = Contents[i]
    BY <1>1, <1>2, <2>2 DEF Extended
  <2> QED
    BY <1>2, <2>2, <2>3, SeqEqual
<1> QED
  BY <1>1, <1>3, <1>4, <1>5 DEF Queue!Put

\* Retrieve gives up the first n bytes.
LEMMA RetrieveDrops ==
  ASSUME BufferInv, NEW n \in 1..ReadableBytes, Retrieve(n)
  PROVE  /\ Contents' = SubSeq(Contents, n + 1, Len(Contents))
         /\ ReadableBytes = Len(Contents) /\ Contents \in Seq(Byte)
<1>1. BufferInv'
  BY RetrieveInv
<1>2. /\ Contents \in Seq(Byte) /\ Len(Contents) = ReadableBytes /\ ReadableBytes \in Nat
      /\ \A k \in 1..ReadableBytes : Contents[k] = memory[readerIndex + k - 1]
  BY ContentsType DEF Typed
<1>3. /\ Contents' \in Seq(Byte) /\ Len(Contents') = ReadableBytes'
      /\ \A k \in 1..ReadableBytes' : Contents'[k] = memory'[readerIndex' + k - 1]
  BY <1>1, ContentsTypeNext DEF Typed
<1>4. ReadableBytes' = ReadableBytes - n
  BY BufferAssumption DEF BufferInv, BufferTypeOK, Retrieve, Front, ReadableBytes
<1> DEFINE back == SubSeq(Contents, n + 1, Len(Contents))
<1>5. \A i \in (n + 1)..Len(Contents) : Contents[i] \in Byte
  BY <1>2, ElementOfSeq
<1>6. /\ back \in Seq(Byte) /\ Len(back) = ReadableBytes - n
      /\ \A i \in 1..(ReadableBytes - n) : back[i] = Contents[n + i]
  <2>1. /\ n + 1 \in Int /\ Len(Contents) \in Int
    BY <1>2
  <2>2. /\ back \in Seq(Byte)
        /\ Len(back) = IF n + 1 <= Len(Contents) THEN Len(Contents) - (n + 1) + 1 ELSE 0
        /\ \A i \in 1..(Len(Contents) - (n + 1) + 1) : back[i] = Contents[(n + 1) + i - 1]
    BY <1>5, <2>1, SubSeqProperties
  <2>3. \A i \in 1..(ReadableBytes - n) : (n + 1) + i - 1 = n + i
    BY <1>2
  <2>4. Len(Contents) - (n + 1) + 1 = ReadableBytes - n
    BY <1>2
  <2> QED
    BY <1>2, <2>2, <2>3, <2>4
<1>7. ASSUME NEW i \in 1..(ReadableBytes - n) PROVE Contents'[i] = back[i]
  <2>1. n < ReadableBytes
    BY <1>2
  <2>2. readerIndex' = readerIndex + n /\ memory' = memory
    BY <2>1 DEF Retrieve, Front
  <2>3. Contents'[i] = memory[readerIndex + n + i - 1]
    BY <1>3, <1>4, <2>2
  <2>4. n + i \in 1..ReadableBytes /\ readerIndex + n + i - 1 = readerIndex + (n + i) - 1
    BY <1>2 DEF BufferInv, BufferTypeOK
  <2>5. back[i] = memory[readerIndex + n + i - 1]
    BY <1>2, <1>6, <2>4
  <2> QED
    BY <2>3, <2>5
<1>8. Contents' = back
  BY <1>3, <1>4, <1>6, <1>7, SeqEqual
<1> QED
  BY <1>2, <1>8

LEMMA RetrieveIsTake ==
  ASSUME BufferInv, NEW n \in 1..ReadableBytes, Retrieve(n)
  PROVE  Queue!Take
<1>1. taken' = taken + n
  BY DEF Retrieve
<1> QED
  BY <1>1, RetrieveDrops DEF Queue!Take

LEMMA BufferInitQueue == BufferInit => Queue!Init
<1> SUFFICES ASSUME BufferInit PROVE Queue!Init
  OBVIOUS
<1>1. Contents \in Seq(Byte) /\ Len(Contents) = 0
  BY BufferInitInv, ContentsType, BufferAssumption DEF BufferInit, ReadableBytes, Typed
<1>2. Contents = <<>>
  BY <1>1, EmptySeq
<1> QED
  BY <1>2 DEF Queue!Init, BufferInit

\* Moving the bytes to the front, growing the vector and resetting the indexes lose,
\* repeat and reorder nothing: for its connection a Buffer is a queue of bytes.
THEOREM Buffer_Queue == BufferSpec => ImplementsByteQueue
<1>1. BufferInit => Queue!Init
  BY BufferInitQueue
<1>2. BufferInv /\ [BufferNext]_bufferVars => [Queue!Next]_<<Contents, taken>>
  <2> SUFFICES ASSUME BufferInv, [BufferNext]_bufferVars
               PROVE  Queue!Put \/ Queue!Take \/ UNCHANGED <<Contents, taken>>
    BY DEF Queue!Next
  <2>1. CASE \E s \in Seq(Byte) : BufferAppend(s)
    BY <2>1, AppendIsPut
  <2>2. CASE \E n \in 1..ReadableBytes : Retrieve(n)
    BY <2>2, RetrieveIsTake
  <2>3. CASE UNCHANGED bufferVars
    BY <2>3 DEF bufferVars, Contents, ReadableBytes
  <2> QED
    BY <2>1, <2>2, <2>3 DEF BufferNext
<1> QED
  BY <1>1, <1>2, BufferInitInv, BufferNextInv, PTL DEF BufferSpec, ImplementsByteQueue, Queue!Spec

-----------------------------------------------------------------------------
(* Codec: integers as bytes.                                               *)

\* Division with remainder, and that there is one result.
LEMMA Quotient ==
  ASSUME NEW v \in Nat, NEW b \in Nat \ {0}
  PROVE  /\ v \div b \in Nat /\ v % b \in 0..(b - 1)
         /\ v = b * (v \div b) + (v % b)
OBVIOUS

\* A quotient stays below what the number is below.
LEMMA QuotientBelow ==
  ASSUME NEW v \in Nat, NEW b \in Nat \ {0}, NEW c \in Nat, v < b * c
  PROVE  v \div b < c
OBVIOUS

LEMMA QuotientUnique ==
  ASSUME NEW v \in Nat, NEW b \in Nat \ {0}, NEW q \in Nat, NEW r \in 0..(b - 1), v = b * q + r
  PROVE  v \div b = q /\ v % b = r
<1>1. v % b \in 0..(b - 1) /\ v \div b \in Nat /\ v = b * (v \div b) + (v % b)
  BY Quotient
<1> DEFINE p == v \div b
<1> DEFINE t == v % b
<1> HIDE DEF p, t
<1>2. p \in Nat /\ t \in 0..(b - 1) /\ b * p + t = b * q + r
  BY <1>1 DEF p, t
<1>3. \A x, y \in Nat : x < y => b * x + b <= b * y
  <2> SUFFICES ASSUME NEW x \in Nat, NEW y \in Nat, x < y PROVE b * x + b <= b * y
    OBVIOUS
  <2>1. b * (x + 1) <= b * y
    OBVIOUS
  <2>2. b * (x + 1) = b * x + b
    OBVIOUS
  <2> QED
    BY <2>1, <2>2
<1>4. b * p \in Nat /\ b * q \in Nat
  BY <1>2
<1>5. ~(p < q) /\ ~(q < p)
  BY <1>2, <1>3, <1>4
<1>6. p = q
  BY <1>2, <1>5
<1> QED
  BY <1>2, <1>4, <1>6 DEF p, t

\* What fits loses nothing.
LEMMA SmallModulus ==
  ASSUME NEW v \in Nat, NEW b \in Nat, v < b
  PROVE  v % b = v
OBVIOUS

\* What two and four digits stay below.
LEMMA Limits == Limit16 \in Nat \ {0} /\ Limit32 \in Nat \ {0} /\ Limit16 < Limit32 /\ Base < Limit16
<1>1. Base \in Nat /\ Base >= 2
  BY CodecAssumption
<1>2. \A b \in Nat : b >= 2 => b * b \in Nat /\ b * b > b
  OBVIOUS
<1> QED
  BY <1>1, <1>2 DEF Limit16, Limit32

\* A number as bytes, big-endian, and back.
LEMMA ByteOf ==
  ASSUME NEW v \in Nat
  PROVE  U8(v) \in Strings /\ Len(U8(v)) = 1 /\ U8(v)[1] = v % Base
BY CodecAssumption, Quotient DEF U8, Strings, CodecByte

\* The digits of an integer of two bytes, and of four.
LEMMA TwoBytesOf ==
  ASSUME NEW v \in Nat
  PROVE  /\ U16(v) \in Strings /\ Len(U16(v)) = 2
         /\ U16(v)[1] = (v \div Base) % Base /\ U16(v)[2] = v % Base
<1>1. v \div Base \in Nat
  BY CodecAssumption
<1> DEFINE a == U8(v \div Base)
<1> DEFINE b == U8(v)
<1>2. /\ a \in Strings /\ Len(a) = 1 /\ a[1] = (v \div Base) % Base
      /\ b \in Strings /\ Len(b) = 1 /\ b[1] = v % Base
  BY <1>1, ByteOf
<1> HIDE DEF a, b
<1>3. /\ a \o b \in Strings /\ Len(a \o b) = 2 /\ (a \o b)[1] = a[1] /\ (a \o b)[2] = b[1]
  <2>1. /\ a \o b \in Seq(CodecByte) /\ Len(a \o b) = Len(a) + Len(b)
        /\ \A i \in 1..(Len(a) + Len(b)) : (a \o b)[i] = IF i <= Len(a) THEN a[i] ELSE b[i - Len(a)]
    BY <1>2, ConcatProperties DEF Strings
  <2> QED
    BY <1>2, <2>1 DEF Strings
<1> QED
  BY <1>2, <1>3 DEF U16, a, b

LEMMA FourBytesOf ==
  ASSUME NEW v \in Nat
  PROVE  /\ U32(v) \in Strings /\ Len(U32(v)) = 4
         /\ U32(v)[1] = ((v \div Limit16) \div Base) % Base /\ U32(v)[2] = (v \div Limit16) % Base
         /\ U32(v)[3] = (v \div Base) % Base /\ U32(v)[4] = v % Base
<1>1. v \div Limit16 \in Nat
  BY Limits
<1> DEFINE a == U16(v \div Limit16)
<1> DEFINE b == U16(v)
<1>2. /\ a \in Strings /\ Len(a) = 2
      /\ a[1] = ((v \div Limit16) \div Base) % Base /\ a[2] = (v \div Limit16) % Base
      /\ b \in Strings /\ Len(b) = 2 /\ b[1] = (v \div Base) % Base /\ b[2] = v % Base
  BY <1>1, TwoBytesOf
<1> HIDE DEF a, b
<1>3. /\ a \o b \in Strings /\ Len(a \o b) = 4 /\ (a \o b)[1] = a[1] /\ (a \o b)[2] = a[2]
      /\ (a \o b)[3] = b[1] /\ (a \o b)[4] = b[2]
  <2>1. /\ a \o b \in Seq(CodecByte) /\ Len(a \o b) = Len(a) + Len(b)
        /\ \A i \in 1..(Len(a) + Len(b)) : (a \o b)[i] = IF i <= Len(a) THEN a[i] ELSE b[i - Len(a)]
    BY <1>2, ConcatProperties DEF Strings
  <2> QED
    BY <1>2, <2>1 DEF Strings
<1> QED
  BY <1>2, <1>3 DEF U32, a, b

\* Its digits give the number again.
LEMMA TwoDigits ==
  ASSUME NEW v \in Nat, v < Limit16
  PROVE  ((v \div Base) % Base) * Base + (v % Base) = v
<1>1. Base \in Nat \ {0}
  BY CodecAssumption
<1>2. v \div Base \in Nat /\ v = Base * (v \div Base) + (v % Base) /\ v % Base \in Nat
  BY <1>1, Quotient
<1>3. v \div Base < Base
  BY <1>1, QuotientBelow DEF Limit16
<1>4. (v \div Base) % Base = v \div Base
  BY <1>1, <1>2, <1>3, SmallModulus
<1> QED
  BY <1>1, <1>2, <1>4

LEMMA FourDigits ==
  ASSUME NEW v \in Nat, v < Limit32
  PROVE  (((((v \div Limit16) \div Base) % Base) * Base + ((v \div Limit16) % Base)) * Base
           + ((v \div Base) % Base)) * Base + (v % Base) = v
<1> DEFINE h == v \div Limit16
<1> DEFINE l == v % Limit16
<1>1. Base \in Nat \ {0} /\ Limit16 \in Nat \ {0} /\ Limit16 = Base * Base
  BY CodecAssumption, Limits DEF Limit16
<1>2. h \in Nat /\ l \in Nat /\ l < Limit16 /\ v = Limit16 * h + l
  <2>1. v \div Limit16 \in Nat /\ v % Limit16 \in 0..(Limit16 - 1)
        /\ v = Limit16 * (v \div Limit16) + (v % Limit16)
    BY <1>1, Quotient
  <2> HIDE DEF h, l
  <2>2. h \in Nat /\ l \in 0..(Limit16 - 1) /\ v = Limit16 * h + l
    BY <2>1 DEF h, l
  <2> QED
    BY <1>1, <2>2
<1>3. h < Limit16
  BY <1>1, QuotientBelow DEF Limit32
<1> HIDE DEF h, l
<1>4. ((h \div Base) % Base) * Base + (h % Base) = h
  BY <1>2, <1>3, TwoDigits
<1>5. ((l \div Base) % Base) * Base + (l % Base) = l
  BY <1>2, TwoDigits
<1>6. l % Base = v % Base /\ (l \div Base) % Base = (v \div Base) % Base
  <2> DEFINE q == l \div Base
  <2> DEFINE r == l % Base
  <2>1. q \in Nat /\ r \in 0..(Base - 1) /\ l = Base * q + r
    BY <1>1, <1>2, Quotient
  <2> HIDE DEF q, r
  <2>2. Base * h \in Nat /\ Base * h + q \in Nat
    BY <1>1, <1>2, <2>1
  <2>3. Limit16 * h = Base * (Base * h)
    BY <1>1, <1>2
  <2>4. Base * (Base * h + q) = Base * (Base * h) + Base * q
    BY <1>1, <2>1, <2>2
  <2>5. v = Base * (Base * h + q) + r
    BY <1>1, <1>2, <2>1, <2>2, <2>3, <2>4
  <2>6. v \div Base = Base * h + q /\ v % Base = r
    BY <1>1, <2>1, <2>2, <2>5, QuotientUnique
  <2>7. q % Base \in 0..(Base - 1) /\ q \div Base \in Nat /\ q = Base * (q \div Base) + (q % Base)
    BY <1>1, <2>1, Quotient
  <2>8. (Base * h + q) % Base = q % Base
    <3>1. h + (q \div Base) \in Nat
      BY <1>2, <2>7
    <3>2. Base * h + q = Base * (h + (q \div Base)) + (q % Base)
      BY <1>1, <1>2, <2>7
    <3> QED
      BY <1>1, <2>2, <2>7, <3>1, <3>2, QuotientUnique
  <2> QED
    BY <2>6, <2>8 DEF q, r
<1> QED
  BY <1>1, <1>2, <1>4, <1>5, <1>6 DEF h

-----------------------------------------------------------------------------
(* Codec: reading what was written.                                        *)

\* The bytes from i on begin with s.
At(bytes, i, s) == i + Len(s) <= Len(bytes) + 1 /\ \A k \in 1..Len(s) : bytes[i + k - 1] = s[k]

\* Where two strings are, one is behind the other.
LEMMA AtSplit ==
  ASSUME NEW bytes \in Strings, NEW i \in Nat \ {0}, NEW s \in Strings, NEW t \in Strings,
         At(bytes, i, s \o t)
  PROVE  At(bytes, i, s) /\ At(bytes, i + Len(s), t)
<1>1. /\ Len(s) \in Nat /\ Len(t) \in Nat /\ Len(bytes) \in Nat /\ Len(s \o t) = Len(s) + Len(t)
      /\ \A k \in 1..(Len(s) + Len(t)) : (s \o t)[k] = IF k <= Len(s) THEN s[k] ELSE t[k - Len(s)]
  BY ConcatProperties, LenProperties DEF Strings
<1>2. At(bytes, i, s)
  <2>1. ASSUME NEW k \in 1..Len(s) PROVE bytes[i + k - 1] = s[k]
    BY <1>1 DEF At
  <2> QED
    BY <1>1, <2>1 DEF At
<1>3. At(bytes, i + Len(s), t)
  <2>1. ASSUME NEW k \in 1..Len(t) PROVE bytes[(i + Len(s)) + k - 1] = t[k]
    <3>1. Len(s) + k \in 1..Len(s \o t) /\ ~(Len(s) + k <= Len(s)) /\ (Len(s) + k) - Len(s) = k
      BY <1>1
    <3>2. bytes[i + (Len(s) + k) - 1] = t[k]
      BY <1>1, <3>1 DEF At
    <3>3. i + (Len(s) + k) - 1 = (i + Len(s)) + k - 1
      BY <1>1
    <3> QED
      BY <3>2, <3>3
  <2> QED
    BY <1>1, <2>1 DEF At
<1> QED
  BY <1>2, <1>3

\* PeekU8, PeekU16, PeekU32 of what U8, U16, U32 wrote.
LEMMA NumberOne ==
  ASSUME NEW bytes \in Strings, NEW i \in Nat \ {0}, NEW v \in Nat, v < Base, At(bytes, i, U8(v))
  PROVE  Number(bytes, i, 1) = v
<1>1. bytes[i + 1 - 1] = v % Base
  BY ByteOf DEF At
<1>2. v % Base = v
  BY CodecAssumption, SmallModulus
<1> QED
  BY <1>1, <1>2 DEF Number

LEMMA NumberTwo ==
  ASSUME NEW bytes \in Strings, NEW i \in Nat \ {0}, NEW v \in Nat, v < Limit16, At(bytes, i, U16(v))
  PROVE  Number(bytes, i, 2) = v
<1>1. bytes[i + 1 - 1] = (v \div Base) % Base /\ bytes[i + 2 - 1] = v % Base
  BY TwoBytesOf DEF At
<1>2. i + 1 - 1 = i /\ i + 2 - 1 = i + 1
  OBVIOUS
<1>3. Number(bytes, i, 2) = bytes[i] * Base + bytes[i + 1]
  BY DEF Number
<1> QED
  BY <1>1, <1>2, <1>3, TwoDigits

LEMMA NumberFour ==
  ASSUME NEW bytes \in Strings, NEW i \in Nat \ {0}, NEW v \in Nat, v < Limit32,
         \A k \in 1..4 : bytes[i + k - 1] = U32(v)[k]
  PROVE  Number(bytes, i, 4) = v
<1>1. /\ bytes[i + 1 - 1] = ((v \div Limit16) \div Base) % Base
      /\ bytes[i + 2 - 1] = (v \div Limit16) % Base
      /\ bytes[i + 3 - 1] = (v \div Base) % Base /\ bytes[i + 4 - 1] = v % Base
  BY FourBytesOf
<1>2. i + 1 - 1 = i /\ i + 2 - 1 = i + 1 /\ i + 3 - 1 = i + 2 /\ i + 4 - 1 = i + 3
  OBVIOUS
<1>3. Number(bytes, i, 4)
        = ((bytes[i] * Base + bytes[i + 1]) * Base + bytes[i + 2]) * Base + bytes[i + 3]
  BY DEF Number
<1> QED
  BY <1>1, <1>2, <1>3, FourDigits

\* A cursor behind a field that was read well.
Cursor(i, v) == [ok |-> TRUE, pos |-> i, val |-> v]

\* A cursor in front of an integer or a string reads it and stands behind it.
LEMMA ReadIntAt ==
  ASSUME NEW bytes \in Strings, NEW i \in Nat \ {0}, NEW x, NEW end \in Nat, NEW n \in Nat,
         i + n <= end + 1, NEW v, Number(bytes, i, n) = v
  PROVE  ReadInt(bytes, n, Cursor(i, x), end) = Cursor(i + n, v)
<1>1. Cursor(i, x).ok = TRUE /\ Cursor(i, x).pos = i
  BY DEF Cursor
<1>2. Fits(Cursor(i, x), n, end)
  BY <1>1 DEF Fits
<1> QED
  BY <1>1, <1>2 DEF ReadInt, Cursor

LEMMA ReadStrAt ==
  ASSUME NEW bytes \in Strings, NEW i \in Nat \ {0}, NEW x, NEW end \in Nat, NEW n \in Nat,
         NEW s \in Strings, Number(bytes, i, n) = Len(s), At(bytes, i + n, s),
         i + n + Len(s) <= end + 1
  PROVE  ReadStr(bytes, n, Cursor(i, x), end) = Cursor(i + n + Len(s), s)
<1>0. Len(s) \in Nat /\ Len(bytes) \in Nat
  BY LenProperties DEF Strings
<1>1. ReadInt(bytes, n, Cursor(i, x), end) = Cursor(i + n, Len(s))
  BY <1>0, ReadIntAt
<1>2. SubSeq(bytes, i + n, i + n + Len(s) - 1) = s
  <2> DEFINE t == SubSeq(bytes, i + n, i + n + Len(s) - 1)
  <2>1. \A j \in (i + n)..(i + n + Len(s) - 1) : bytes[j] \in CodecByte
    <3> TAKE j \in (i + n)..(i + n + Len(s) - 1)
    <3>1. j \in 1..Len(bytes)
      BY <1>0 DEF At
    <3> QED
      BY <3>1, ElementOfSeq DEF Strings
  <2>2. i + n \in Int /\ i + n + Len(s) - 1 \in Int
    BY <1>0
  <2>3. /\ t \in Strings
        /\ Len(t) = IF i + n <= i + n + Len(s) - 1
                    THEN (i + n + Len(s) - 1) - (i + n) + 1 ELSE 0
        /\ \A k \in 1..((i + n + Len(s) - 1) - (i + n) + 1) : t[k] = bytes[(i + n) + k - 1]
    BY <2>1, <2>2, SubSeqProperties DEF Strings
  <2> HIDE DEF t
  <2>4. (i + n + Len(s) - 1) - (i + n) + 1 = Len(s)
    BY <1>0
  <2>5. Len(t) = Len(s)
    BY <1>0, <2>3, <2>4
  <2>6. \A k \in 1..Len(s) : t[k] = s[k]
    BY <2>3, <2>4 DEF At
  <2>7. t = s
    BY <2>3, <2>5, <2>6, SeqEqual DEF Strings
  <2> QED
    BY <2>7 DEF t
<1>3. Cursor(i + n, Len(s)).ok = TRUE /\ Cursor(i + n, Len(s)).pos = i + n
      /\ Cursor(i + n, Len(s)).val = Len(s)
  BY DEF Cursor
<1>4. Fits(Cursor(i + n, Len(s)), Len(s), end)
  BY <1>0, <1>3 DEF Fits
<1> QED
  BY <1>1, <1>2, <1>3, <1>4 DEF ReadStr, Cursor

\* Read is the reader of its field.
LEMMA ReadField ==
  ASSUME NEW bytes, NEW c, NEW end
  PROVE  /\ Read("str2", bytes, c, end) = ReadStr(bytes, 2, c, end)
         /\ Read("str4", bytes, c, end) = ReadStr(bytes, 4, c, end)
         /\ Read("int4", bytes, c, end) = ReadInt(bytes, 4, c, end)
         /\ Read("int1", bytes, c, end) = ReadInt(bytes, 1, c, end)
BY DEF Read

LEMMA ReadStr16At ==
  ASSUME NEW bytes \in Strings, NEW i \in Nat \ {0}, NEW x, NEW end \in Nat, NEW s \in Strings,
         Len(s) < Limit16, At(bytes, i, Str16(s)),
         NEW j \in Nat \ {0}, j = i + 2 + Len(s), j <= end + 1
  PROVE  Read("str2", bytes, Cursor(i, x), end) = Cursor(j, s)
<1>0. Len(s) \in Nat
  BY LenProperties DEF Strings
<1>1. At(bytes, i, U16(Len(s))) /\ At(bytes, i + 2, s)
  BY <1>0, AtSplit, TwoBytesOf DEF Str16
<1> QED
  BY <1>0, <1>1, NumberTwo, ReadStrAt, ReadField

LEMMA ReadStr32At ==
  ASSUME NEW bytes \in Strings, NEW i \in Nat \ {0}, NEW x, NEW end \in Nat, NEW s \in Strings,
         Len(s) < Limit32, At(bytes, i, Str32(s)), i + 4 + Len(s) <= end + 1
  PROVE  Read("str4", bytes, Cursor(i, x), end) = Cursor(i + 4 + Len(s), s)
<1>0. Len(s) \in Nat
  BY LenProperties DEF Strings
<1>1. At(bytes, i, U32(Len(s))) /\ At(bytes, i + 4, s)
  BY <1>0, AtSplit, FourBytesOf DEF Str32
<1>2. \A k \in 1..4 : bytes[i + k - 1] = U32(Len(s))[k]
  BY <1>0, <1>1, FourBytesOf DEF At
<1>3. Number(bytes, i, 4) = Len(s)
  BY <1>0, <1>2, NumberFour
<1> QED
  BY <1>0, <1>1, <1>3, ReadStrAt, ReadField

-----------------------------------------------------------------------------
(* Codec: the fields of a packet.                                          *)

Flag(p) == IF p.isResponse THEN 1 ELSE 0
Body(p) ==
  Str16(p.names[1]) \o Str16(p.names[2]) \o Str16(p.names[3]) \o Str16(p.names[4])
    \o U32(p.sessionId) \o U8(Flag(p)) \o Str32(p.data)

\* The parts of a packet and of its encoding.
LEMMA PacketFields ==
  ASSUME NEW p \in AnyPacket
  PROVE  /\ p.names[1] \in Strings /\ p.names[2] \in Strings
         /\ p.names[3] \in Strings /\ p.names[4] \in Strings
         /\ p.sessionId \in Nat /\ p.isResponse \in BOOLEAN /\ p.data \in Strings
         /\ Flag(p) \in {0, 1}
         /\ p = Packet(<<p.names[1], p.names[2], p.names[3], p.names[4]>>,
                       p.sessionId, p.isResponse, p.data)
<1>1. p.names \in Strings \X Strings \X Strings \X Strings
  BY DEF AnyPacket
<1>2. p.names = <<p.names[1], p.names[2], p.names[3], p.names[4]>>
  BY <1>1
<1>3. p = Packet(p.names, p.sessionId, p.isResponse, p.data)
  BY DEF AnyPacket, Packet
<1> QED
  BY <1>1, <1>2, <1>3 DEF AnyPacket, Flag

LEMMA Concat ==
  ASSUME NEW s \in Strings, NEW t \in Strings
  PROVE  s \o t \in Strings /\ Len(s \o t) = Len(s) + Len(t)
BY ConcatProperties DEF Strings

LEMMA Str16Type ==
  ASSUME NEW s \in Strings
  PROVE  Str16(s) \in Strings /\ Len(Str16(s)) = 2 + Len(s) /\ Len(s) \in Nat
<1>1. Len(s) \in Nat
  BY LenProperties DEF Strings
<1>2. U16(Len(s)) \in Strings /\ Len(U16(Len(s))) = 2
  BY <1>1, TwoBytesOf
<1>3. U16(Len(s)) \o s \in Strings /\ Len(U16(Len(s)) \o s) = Len(U16(Len(s))) + Len(s)
  BY <1>2, Concat
<1> QED
  BY <1>1, <1>2, <1>3 DEF Str16

LEMMA Str32Type ==
  ASSUME NEW s \in Strings
  PROVE  Str32(s) \in Strings /\ Len(Str32(s)) = 4 + Len(s) /\ Len(s) \in Nat
<1>1. Len(s) \in Nat
  BY LenProperties DEF Strings
<1>2. U32(Len(s)) \in Strings /\ Len(U32(Len(s))) = 4
  BY <1>1, FourBytesOf
<1>3. U32(Len(s)) \o s \in Strings /\ Len(U32(Len(s)) \o s) = Len(U32(Len(s))) + Len(s)
  BY <1>2, Concat
<1> QED
  BY <1>1, <1>2, <1>3 DEF Str32

\* Where the fields of a body are.
Laid(bytes, p) ==
  LET n == p.names
      i2 == 5 + (2 + Len(n[1]))
      i3 == i2 + (2 + Len(n[2]))
      i4 == i3 + (2 + Len(n[3]))
      i5 == i4 + (2 + Len(n[4]))
  IN /\ At(bytes, 5, Str16(n[1])) /\ At(bytes, i2, Str16(n[2]))
     /\ At(bytes, i3, Str16(n[3])) /\ At(bytes, i4, Str16(n[4]))
     /\ At(bytes, i5, U32(p.sessionId)) /\ At(bytes, i5 + 4, U8(Flag(p)))
     /\ At(bytes, i5 + 5, Str32(p.data))

LEMMA BodyType ==
  ASSUME NEW p \in AnyPacket
  PROVE  /\ Body(p) \in Strings
         /\ Len(Body(p)) = (2 + Len(p.names[1])) + (2 + Len(p.names[2])) + (2 + Len(p.names[3]))
                           + (2 + Len(p.names[4])) + 4 + 1 + (4 + Len(p.data))
         /\ \A bytes \in Strings : At(bytes, 5, Body(p)) => Laid(bytes, p)
<1> DEFINE x1 == Str16(p.names[1])
<1> DEFINE x2 == Str16(p.names[2])
<1> DEFINE x3 == Str16(p.names[3])
<1> DEFINE x4 == Str16(p.names[4])
<1> DEFINE x5 == U32(p.sessionId)
<1> DEFINE x6 == U8(Flag(p))
<1> DEFINE x7 == Str32(p.data)
<1>0. /\ Len(p.names[1]) \in Nat /\ Len(p.names[2]) \in Nat
      /\ Len(p.names[3]) \in Nat /\ Len(p.names[4]) \in Nat /\ Len(p.data) \in Nat
  BY PacketFields, Str16Type, Str32Type
<1>1. /\ x1 \in Strings /\ Len(x1) = 2 + Len(p.names[1])
      /\ x2 \in Strings /\ Len(x2) = 2 + Len(p.names[2])
      /\ x3 \in Strings /\ Len(x3) = 2 + Len(p.names[3])
      /\ x4 \in Strings /\ Len(x4) = 2 + Len(p.names[4])
  BY PacketFields, Str16Type
<1>2. x5 \in Strings /\ Len(x5) = 4
  BY PacketFields, FourBytesOf
<1>3. x6 \in Strings /\ Len(x6) = 1
  BY PacketFields, ByteOf DEF Flag
<1>4. x7 \in Strings /\ Len(x7) = 4 + Len(p.data)
  BY PacketFields, Str32Type
<1>5. Body(p) = x1 \o x2 \o x3 \o x4 \o x5 \o x6 \o x7
  BY DEF Body
<1>same. ASSUME NEW bytes
         PROVE  Laid(bytes, p) <=>
                  LET i2 == 5 + Len(x1)
                      i3 == i2 + Len(x2)
                      i4 == i3 + Len(x3)
                      i5 == i4 + Len(x4)
                  IN /\ At(bytes, 5, x1) /\ At(bytes, i2, x2)
                     /\ At(bytes, i3, x3) /\ At(bytes, i4, x4)
                     /\ At(bytes, i5, x5) /\ At(bytes, i5 + 4, x6)
                     /\ At(bytes, i5 + 5, x7)
  BY <1>1 DEF Laid
<1> HIDE DEF x1, x2, x3, x4, x5, x6, x7
<1> DEFINE y2 == x1 \o x2
<1> DEFINE y3 == y2 \o x3
<1> DEFINE y4 == y3 \o x4
<1> DEFINE y5 == y4 \o x5
<1> DEFINE y6 == y5 \o x6
<1> DEFINE y7 == y6 \o x7
<1>y2. y2 \in Strings /\ Len(y2) = Len(x1) + Len(x2)
  BY <1>1, Concat
<1> HIDE DEF y2
<1>y3. y3 \in Strings /\ Len(y3) = Len(y2) + Len(x3)
  BY <1>1, <1>y2, Concat
<1> HIDE DEF y3
<1>y4. y4 \in Strings /\ Len(y4) = Len(y3) + Len(x4)
  BY <1>1, <1>y3, Concat
<1> HIDE DEF y4
<1>y5. y5 \in Strings /\ Len(y5) = Len(y4) + Len(x5)
  BY <1>2, <1>y4, Concat
<1> HIDE DEF y5
<1>y6. y6 \in Strings /\ Len(y6) = Len(y5) + Len(x6)
  BY <1>3, <1>y5, Concat
<1> HIDE DEF y6
<1>y7. y7 \in Strings /\ Len(y7) = Len(y6) + Len(x7)
  BY <1>4, <1>y6, Concat
<1> HIDE DEF y7
<1>6. Body(p) = y7
  BY <1>5 DEF y2, y3, y4, y5, y6, y7
<1>7. ASSUME NEW bytes \in Strings, At(bytes, 5, y7) PROVE Laid(bytes, p)
  <2>s. x1 \in Strings /\ x2 \in Strings /\ x3 \in Strings /\ x4 \in Strings
    BY <1>1
  <2>0. /\ Len(x1) \in Nat /\ Len(x2) \in Nat /\ Len(x3) \in Nat /\ Len(x4) \in Nat
    BY <1>0, <1>1
  <2>6. At(bytes, 5, y6) /\ At(bytes, 5 + Len(y6), x7)
    BY <1>4, <1>7, <1>y6, AtSplit DEF y7
  <2>5. At(bytes, 5, y5) /\ At(bytes, 5 + Len(y5), x6)
    BY <1>3, <2>6, <1>y5, AtSplit DEF y6
  <2>4. At(bytes, 5, y4) /\ At(bytes, 5 + Len(y4), x5)
    BY <1>2, <2>5, <1>y4, AtSplit DEF y5
  <2>3. At(bytes, 5, y3) /\ At(bytes, 5 + Len(y3), x4)
    BY <1>7, <2>s, <2>4, <1>y3, AtSplit DEF y4
  <2>2. At(bytes, 5, y2) /\ At(bytes, 5 + Len(y2), x3)
    BY <1>7, <2>s, <2>3, <1>y2, AtSplit DEF y3
  <2>1. At(bytes, 5, x1) /\ At(bytes, 5 + Len(x1), x2)
    BY <1>7, <2>s, <2>2, AtSplit DEF y2
  <2>7. /\ 5 + Len(y2) = (5 + Len(x1)) + Len(x2)
        /\ 5 + Len(y3) = ((5 + Len(x1)) + Len(x2)) + Len(x3)
        /\ 5 + Len(y4) = (((5 + Len(x1)) + Len(x2)) + Len(x3)) + Len(x4)
        /\ 5 + Len(y5) = (((5 + Len(x1)) + Len(x2)) + Len(x3)) + Len(x4) + 4
        /\ 5 + Len(y6) = (((5 + Len(x1)) + Len(x2)) + Len(x3)) + Len(x4) + 5
    BY <1>2, <1>3, <1>y2, <1>y3, <1>y4, <1>y5, <1>y6, <2>0
  <2> QED
    BY <1>same, <2>1, <2>2, <2>3, <2>4, <2>5, <2>6, <2>7
<1> QED
  BY <1>0, <1>1, <1>2, <1>3, <1>4, <1>6, <1>7, <1>y2, <1>y3, <1>y4, <1>y5, <1>y6, <1>y7

\* A body is never shorter than kMinBodyLen.
LEMMA BodyLength ==
  ASSUME NEW p \in AnyPacket
  PROVE  Len(Body(p)) \in Nat /\ Len(Body(p)) >= kMinBodyLen /\ Len(p.data) \in Nat
<1> DEFINE l1 == Len(p.names[1])
<1> DEFINE l2 == Len(p.names[2])
<1> DEFINE l3 == Len(p.names[3])
<1> DEFINE l4 == Len(p.names[4])
<1> DEFINE l7 == Len(p.data)
<1>1. l1 \in Nat /\ l2 \in Nat /\ l3 \in Nat /\ l4 \in Nat /\ l7 \in Nat
  BY PacketFields, Str16Type
<1>2. Len(Body(p)) = (2 + l1) + (2 + l2) + (2 + l3) + (2 + l4) + 4 + 1 + (4 + l7)
  BY BodyType
<1> HIDE DEF l1, l2, l3, l4, l7
<1>3. Len(Body(p)) \in Nat /\ Len(Body(p)) >= 17
  BY <1>1, <1>2
<1> QED
  BY <1>1, <1>3 DEF kMinBodyLen, l7

\* An encoded packet: the length of the body, the body.
LEMMA EncodeType ==
  ASSUME NEW p \in AnyPacket
  PROVE  /\ Encode(p) = U32(Len(Body(p))) \o Body(p)
         /\ Encode(p) \in Strings /\ Len(Encode(p)) = 4 + Len(Body(p))
         /\ Len(Body(p)) \in Nat /\ Len(Body(p)) >= kMinBodyLen
<1>1. Body(p) \in Strings /\ Len(Body(p)) \in Nat
  BY BodyType, LenProperties DEF Strings
<1>2. Encode(p) = U32(Len(Body(p))) \o Body(p)
  BY DEF Encode, Body, Flag
<1>3. U32(Len(Body(p))) \in Strings /\ Len(U32(Len(Body(p)))) = 4
  BY <1>1, FourBytesOf
<1> QED
  BY <1>1, <1>2, <1>3, Concat, BodyLength

\* The packet fits its length fields, but for the limit on the body.
Fitting(p) == /\ \A i \in 1..4 : Len(p.names[i]) < Limit16
              /\ p.sessionId < Limit32 /\ Len(Body(p)) < Limit32

\* The flag's bit.
LEMMA FlagBit ==
  ASSUME NEW b \in BOOLEAN, NEW f, f = IF b THEN 1 ELSE 0
  PROVE  ((f % 2) = 1) = b
<1>1. 1 % 2 = 1 /\ 0 % 2 = 0
  OBVIOUS
<1>2. CASE b = TRUE
  <2>1. (f % 2) = 1
    BY <1>1, <1>2
  <2> QED
    BY <2>1, <1>2
<1>3. CASE b = FALSE
  <2>1. ~((f % 2) = 1)
    BY <1>1, <1>3
  <2> QED
    BY <2>1, <1>3
<1> QED
  BY <1>2, <1>3

\* Decode's reads follow Encode's writes.
LEMMA FieldsOf ==
  ASSUME NEW p \in AnyPacket, Fitting(p), NEW bytes \in Strings, Laid(bytes, p),
         NEW end, end = 4 + Len(Body(p))
  PROVE  Fields(bytes, end) = [ok |-> TRUE, packet |-> p]
<1> DEFINE s1 == p.names[1]
<1> DEFINE s2 == p.names[2]
<1> DEFINE s3 == p.names[3]
<1> DEFINE s4 == p.names[4]
<1> DEFINE session == p.sessionId
<1> DEFINE flag == Flag(p)
<1> DEFINE data == p.data
<1> DEFINE i2 == 5 + (2 + Len(s1))
<1> DEFINE i3 == i2 + (2 + Len(s2))
<1> DEFINE i4 == i3 + (2 + Len(s3))
<1> DEFINE i5 == i4 + (2 + Len(s4))
<1> DEFINE c1 == From(5)
<1> DEFINE c2 == Read("str2", bytes, c1, end)
<1> DEFINE c3 == Read("str2", bytes, c2, end)
<1> DEFINE c4 == Read("str2", bytes, c3, end)
<1> DEFINE c5 == Read("str2", bytes, c4, end)
<1> DEFINE c6 == Read("int4", bytes, c5, end)
<1> DEFINE c7 == Read("int1", bytes, c6, end)
<1> DEFINE c8 == Read("str4", bytes, c7, end)
<1>0. Fields(bytes, end)
        = [ok |-> c8.ok,
           packet |-> Packet(<<c2.val, c3.val, c4.val, c5.val>>, c6.val, (c7.val % 2) = 1, c8.val)]
  BY DEF Fields
<1>1. /\ s1 \in Strings /\ s2 \in Strings /\ s3 \in Strings /\ s4 \in Strings
      /\ data \in Strings /\ session \in Nat /\ flag \in {0, 1}
      /\ p = Packet(<<s1, s2, s3, s4>>, session, p.isResponse, data)
  BY PacketFields
<1>2. /\ Len(s1) < Limit16 /\ Len(s2) < Limit16 /\ Len(s3) < Limit16 /\ Len(s4) < Limit16
      /\ session < Limit32
  BY DEF Fitting
<1>3. /\ At(bytes, 5, Str16(s1)) /\ At(bytes, i2, Str16(s2))
      /\ At(bytes, i3, Str16(s3)) /\ At(bytes, i4, Str16(s4))
      /\ At(bytes, i5, U32(session)) /\ At(bytes, i5 + 4, U8(flag))
      /\ At(bytes, i5 + 5, Str32(data))
  BY DEF Laid
<1>4. /\ end = 4 + ((2 + Len(s1)) + (2 + Len(s2)) + (2 + Len(s3)) + (2 + Len(s4))
                    + 4 + 1 + (4 + Len(data)))
      /\ end < 4 + Limit32 /\ Limit32 \in Nat
  <2>1. Len(Body(p)) = (2 + Len(s1)) + (2 + Len(s2)) + (2 + Len(s3)) + (2 + Len(s4))
                       + 4 + 1 + (4 + Len(data))
    BY BodyType
  <2>2. Len(Body(p)) < Limit32 /\ Limit32 \in Nat /\ Len(Body(p)) \in Nat
    BY BodyLength, Limits DEF Fitting
  <2> HIDE DEF s1, s2, s3, s4, data
  <2> QED
    BY <2>1, <2>2
<1>flag. ((flag % 2) = 1) = p.isResponse
  BY PacketFields, FlagBit DEF Flag
<1> HIDE DEF s1, s2, s3, s4, session, flag, data
<1>5. /\ Len(s1) \in Nat /\ Len(s2) \in Nat /\ Len(s3) \in Nat /\ Len(s4) \in Nat
      /\ Len(data) \in Nat
  BY <1>1, Str16Type
<1>6. /\ i2 = 5 + 2 + Len(s1) /\ i3 = i2 + 2 + Len(s2)
      /\ i4 = i3 + 2 + Len(s3) /\ i5 = i4 + 2 + Len(s4)
  BY <1>5
<1> HIDE DEF i2, i3, i4, i5
<1>7. i2 \in Nat \ {0} /\ i3 \in Nat \ {0} /\ i4 \in Nat \ {0} /\ i5 \in Nat \ {0}
  BY <1>5, <1>6
<1>8. /\ end \in Nat /\ end + 1 = i5 + 9 + Len(data) /\ Len(data) < Limit32
  BY <1>4, <1>5, <1>6, <1>7
<1>9. i2 <= end + 1 /\ i3 <= end + 1 /\ i4 <= end + 1 /\ i5 <= end + 1
  BY <1>5, <1>6, <1>7, <1>8
<1>c1. c1 = Cursor(5, 0)
  BY DEF From, Cursor
<1> HIDE DEF c1
<1>c2. c2 = Cursor(i2, s1)
  <2>1. /\ s1 \in Strings /\ Len(s1) < Limit16 /\ At(bytes, 5, Str16(s1))
        /\ i2 \in Nat \ {0} /\ end \in Nat /\ i2 = 5 + 2 + Len(s1) /\ i2 <= end + 1
    BY <1>1, <1>2, <1>3, <1>6, <1>7, <1>8, <1>9
  <2>2. Read("str2", bytes, Cursor(5, 0), end) = Cursor(i2, s1)
    BY <2>1, ReadStr16At
  <2> QED
    BY <1>c1, <2>2
<1> HIDE DEF c2
<1>c3. c3 = Cursor(i3, s2)
  <2>1. /\ s2 \in Strings /\ Len(s2) < Limit16 /\ At(bytes, i2, Str16(s2))
        /\ i2 \in Nat \ {0} /\ i3 \in Nat \ {0} /\ end \in Nat /\ i3 = i2 + 2 + Len(s2) /\ i3 <= end + 1
    BY <1>1, <1>2, <1>3, <1>6, <1>7, <1>8, <1>9
  <2>2. Read("str2", bytes, Cursor(i2, s1), end) = Cursor(i3, s2)
    BY <2>1, ReadStr16At
  <2> QED
    BY <1>c2, <2>2
<1> HIDE DEF c3
<1>c4. c4 = Cursor(i4, s3)
  <2>1. /\ s3 \in Strings /\ Len(s3) < Limit16 /\ At(bytes, i3, Str16(s3))
        /\ i3 \in Nat \ {0} /\ i4 \in Nat \ {0} /\ end \in Nat /\ i4 = i3 + 2 + Len(s3) /\ i4 <= end + 1
    BY <1>1, <1>2, <1>3, <1>6, <1>7, <1>8, <1>9
  <2>2. Read("str2", bytes, Cursor(i3, s2), end) = Cursor(i4, s3)
    BY <2>1, ReadStr16At
  <2> QED
    BY <1>c3, <2>2
<1> HIDE DEF c4
<1>c5. c5 = Cursor(i5, s4)
  <2>1. /\ s4 \in Strings /\ Len(s4) < Limit16 /\ At(bytes, i4, Str16(s4))
        /\ i4 \in Nat \ {0} /\ i5 \in Nat \ {0} /\ end \in Nat /\ i5 = i4 + 2 + Len(s4) /\ i5 <= end + 1
    BY <1>1, <1>2, <1>3, <1>6, <1>7, <1>8, <1>9
  <2>2. Read("str2", bytes, Cursor(i4, s3), end) = Cursor(i5, s4)
    BY <2>1, ReadStr16At
  <2> QED
    BY <1>c4, <2>2
<1> HIDE DEF c5
<1>c6. c6 = Cursor(i5 + 4, session)
  <2>1. \A k \in 1..4 : bytes[i5 + k - 1] = U32(session)[k]
    BY <1>1, <1>3, FourBytesOf DEF At
  <2>2. Number(bytes, i5, 4) = session
    BY <1>1, <1>2, <1>7, <2>1, NumberFour
  <2>3. i5 + 4 <= end + 1
    BY <1>5, <1>7, <1>8
  <2> QED
    BY <1>7, <1>8, <1>c5, <2>2, <2>3, ReadIntAt, ReadField
<1> HIDE DEF c6
<1>c7. c7 = Cursor(i5 + 5, flag)
  <2> DEFINE i6 == i5 + 4
  <2>1. i6 \in Nat \ {0} /\ i6 + 1 <= end + 1 /\ i6 + 1 = i5 + 5
    BY <1>5, <1>7, <1>8
  <2>2. At(bytes, i6, U8(flag)) /\ c6 = Cursor(i6, session)
    BY <1>3, <1>c6
  <2> HIDE DEF i6
  <2>3. Number(bytes, i6, 1) = flag
    BY <1>1, <2>1, <2>2, NumberOne, CodecAssumption
  <2> QED
    BY <1>8, <2>1, <2>2, <2>3, ReadIntAt, ReadField
<1> HIDE DEF c7
<1>c8. c8 = Cursor(i5 + 9 + Len(data), data)
  <2> DEFINE i7 == i5 + 5
  <2>1. i7 \in Nat \ {0} /\ i7 + 4 + Len(data) <= end + 1 /\ i7 + 4 + Len(data) = i5 + 9 + Len(data)
    BY <1>5, <1>7, <1>8
  <2>2. At(bytes, i7, Str32(data)) /\ c7 = Cursor(i7, flag)
    BY <1>3, <1>c7
  <2> HIDE DEF i7
  <2> QED
    BY <1>1, <1>8, <2>1, <2>2, ReadStr32At
<1> HIDE DEF c8
<1>10. /\ c2.val = s1 /\ c3.val = s2 /\ c4.val = s3 /\ c5.val = s4
       /\ c6.val = session /\ c7.val = flag /\ c8.val = data /\ c8.ok = TRUE
  BY <1>c2, <1>c3, <1>c4, <1>c5, <1>c6, <1>c7, <1>c8 DEF Cursor
<1>11. Fields(bytes, end)
         = [ok |-> TRUE, packet |-> Packet(<<s1, s2, s3, s4>>, session, (flag % 2) = 1, data)]
  BY <1>0, <1>10
<1> QED
  BY <1>1, <1>11, <1>flag

-----------------------------------------------------------------------------
(* Codec: Decode of any bytes, and of an encoded packet.                   *)

\* A cursor that may have failed; if not, it is at a position and has a value of S.
CursorOf(c, S) == c.ok \in BOOLEAN /\ (c.ok => c.pos \in Nat \ {0} /\ c.val \in S)

\* What is read is a number, whatever the bytes are.
LEMMA NumberType ==
  ASSUME NEW bytes \in Strings, NEW i \in Nat \ {0}, NEW n \in {1, 2, 4}, i + n - 1 <= Len(bytes)
  PROVE  Number(bytes, i, n) \in Nat
<1>1. Len(bytes) \in Nat /\ Base \in Nat
  BY LenProperties, CodecAssumption DEF Strings
<1>2. \A j \in 1..Len(bytes) : bytes[j] \in Nat
  BY ElementOfSeq, CodecAssumption DEF Strings, CodecByte
<1>3. CASE n = 1
  BY <1>1, <1>2, <1>3 DEF Number
<1>4. CASE n = 2
  <2>1. bytes[i] \in Nat /\ bytes[i + 1] \in Nat
    BY <1>1, <1>2, <1>4
  <2> QED
    BY <1>1, <1>4, <2>1 DEF Number
<1>5. CASE n = 4
  <2> DEFINE a == bytes[i]
  <2> DEFINE b == bytes[i + 1]
  <2> DEFINE c == bytes[i + 2]
  <2> DEFINE d == bytes[i + 3]
  <2>1. a \in Nat /\ b \in Nat /\ c \in Nat /\ d \in Nat
    BY <1>1, <1>2, <1>5
  <2>2. Number(bytes, i, 4) = ((a * Base + b) * Base + c) * Base + d
    BY DEF Number
  <2> HIDE DEF a, b, c, d
  <2>3. a * Base + b \in Nat
    BY <1>1, <2>1
  <2>4. (a * Base + b) * Base + c \in Nat
    BY <1>1, <2>1, <2>3
  <2>5. ((a * Base + b) * Base + c) * Base + d \in Nat
    BY <1>1, <2>1, <2>4
  <2> QED
    BY <1>5, <2>2, <2>5
<1> QED
  BY <1>3, <1>4, <1>5

\* Every read gives a cursor within the bytes, or fails.
LEMMA ReadIntType ==
  ASSUME NEW bytes \in Strings, NEW end \in Nat, end <= Len(bytes), NEW n \in {1, 2, 4},
         NEW c, NEW S, CursorOf(c, S)
  PROVE  /\ CursorOf(ReadInt(bytes, n, c, end), Nat)
         /\ ReadInt(bytes, n, c, end).ok => c.ok
<1>0. Len(bytes) \in Nat
  BY LenProperties DEF Strings
<1>1. CASE Fits(c, n, end)
  <2>1. c.ok /\ c.pos + n - 1 <= end /\ c.pos \in Nat \ {0}
    BY <1>1 DEF Fits, CursorOf
  <2> DEFINE i == c.pos
  <2>2. i \in Nat \ {0} /\ i + n - 1 <= Len(bytes)
    BY <1>0, <2>1
  <2>3. ReadInt(bytes, n, c, end) = [ok |-> TRUE, pos |-> i + n, val |-> Number(bytes, i, n)]
    BY <1>1 DEF ReadInt
  <2> HIDE DEF i
  <2>4. Number(bytes, i, n) \in Nat
    BY <2>2, NumberType
  <2>5. i + n \in Nat \ {0}
    BY <2>2
  <2> QED
    BY <2>1, <2>3, <2>4, <2>5 DEF CursorOf
<1>2. CASE ~Fits(c, n, end)
  <2>1. ReadInt(bytes, n, c, end) = Failed
    BY <1>2 DEF ReadInt
  <2> QED
    BY <2>1 DEF Failed, CursorOf
<1> QED
  BY <1>1, <1>2

LEMMA ReadStrType ==
  ASSUME NEW bytes \in Strings, NEW end \in Nat, end <= Len(bytes), NEW n \in {2, 4},
         NEW c, NEW S, CursorOf(c, S)
  PROVE  /\ CursorOf(ReadStr(bytes, n, c, end), Strings)
         /\ ReadStr(bytes, n, c, end).ok => c.ok
<1> DEFINE l == ReadInt(bytes, n, c, end)
<1>1. CursorOf(l, Nat) /\ (l.ok => c.ok)
  BY ReadIntType
<1>2. ReadStr(bytes, n, c, end)
        = IF l.ok /\ Fits(l, l.val, end)
          THEN [ok |-> TRUE, pos |-> l.pos + l.val, val |-> SubSeq(bytes, l.pos, l.pos + l.val - 1)]
          ELSE Failed
  BY DEF ReadStr
<1> HIDE DEF l
<1>3. CASE l.ok /\ Fits(l, l.val, end)
  <2>1. l.pos \in Nat \ {0} /\ l.val \in Nat /\ l.pos + l.val - 1 <= end /\ c.ok
    BY <1>1, <1>3 DEF Fits, CursorOf
  <2>2. \A j \in l.pos..(l.pos + l.val - 1) : bytes[j] \in CodecByte
    <3> TAKE j \in l.pos..(l.pos + l.val - 1)
    <3>1. Len(bytes) \in Nat
      BY LenProperties DEF Strings
    <3>2. j \in 1..Len(bytes)
      BY <2>1, <3>1
    <3> QED
      BY <3>2, ElementOfSeq DEF Strings
  <2>3. SubSeq(bytes, l.pos, l.pos + l.val - 1) \in Strings
    <3>1. l.pos \in Int /\ l.pos + l.val - 1 \in Int
      BY <2>1
    <3> QED
      BY <2>2, <3>1, SubSeqProperties DEF Strings
  <2>4. l.pos + l.val \in Nat \ {0}
    BY <2>1
  <2> QED
    BY <1>2, <1>3, <2>1, <2>3, <2>4 DEF CursorOf
<1>4. CASE ~(l.ok /\ Fits(l, l.val, end))
  <2>1. ReadStr(bytes, n, c, end) = Failed
    BY <1>2, <1>4
  <2> QED
    BY <2>1 DEF Failed, CursorOf
<1> QED
  BY <1>3, <1>4

\* If all fields can be read they are a packet.
LEMMA FieldsType ==
  ASSUME NEW bytes \in Strings, NEW end \in Nat, end <= Len(bytes)
  PROVE  /\ Fields(bytes, end).ok \in BOOLEAN
         /\ Fields(bytes, end).ok => Fields(bytes, end).packet \in AnyPacket
<1> DEFINE c1 == From(5)
<1> DEFINE c2 == Read("str2", bytes, c1, end)
<1> DEFINE c3 == Read("str2", bytes, c2, end)
<1> DEFINE c4 == Read("str2", bytes, c3, end)
<1> DEFINE c5 == Read("str2", bytes, c4, end)
<1> DEFINE c6 == Read("int4", bytes, c5, end)
<1> DEFINE c7 == Read("int1", bytes, c6, end)
<1> DEFINE c8 == Read("str4", bytes, c7, end)
<1>0. Fields(bytes, end)
        = [ok |-> c8.ok,
           packet |-> Packet(<<c2.val, c3.val, c4.val, c5.val>>, c6.val, (c7.val % 2) = 1, c8.val)]
  BY DEF Fields
<1>1. CursorOf(c1, Nat)
  BY DEF From, CursorOf
<1> HIDE DEF c1
<1>2. CursorOf(c2, Strings)
  BY <1>1, ReadStrType, ReadField
<1> HIDE DEF c2
<1>3. CursorOf(c3, Strings) /\ (c3.ok => c2.ok)
  BY <1>2, ReadStrType, ReadField
<1> HIDE DEF c3
<1>4. CursorOf(c4, Strings) /\ (c4.ok => c3.ok)
  BY <1>3, ReadStrType, ReadField
<1> HIDE DEF c4
<1>5. CursorOf(c5, Strings) /\ (c5.ok => c4.ok)
  BY <1>4, ReadStrType, ReadField
<1> HIDE DEF c5
<1>6. CursorOf(c6, Nat) /\ (c6.ok => c5.ok)
  <2>1. 4 \in {1, 2, 4}
    OBVIOUS
  <2>2. CursorOf(ReadInt(bytes, 4, c5, end), Nat) /\ (ReadInt(bytes, 4, c5, end).ok => c5.ok)
    BY <1>5, <2>1, ReadIntType
  <2> QED
    BY <2>2, ReadField
<1> HIDE DEF c6
<1>7. CursorOf(c7, Nat) /\ (c7.ok => c6.ok)
  <2>1. 1 \in {1, 2, 4}
    OBVIOUS
  <2>2. CursorOf(ReadInt(bytes, 1, c6, end), Nat) /\ (ReadInt(bytes, 1, c6, end).ok => c6.ok)
    BY <1>6, <2>1, ReadIntType
  <2> QED
    BY <2>2, ReadField
<1> HIDE DEF c7
<1>8. CursorOf(c8, Strings) /\ (c8.ok => c7.ok)
  BY <1>7, ReadStrType, ReadField
<1> HIDE DEF c8
<1>9. ASSUME c8.ok
      PROVE  Packet(<<c2.val, c3.val, c4.val, c5.val>>, c6.val, (c7.val % 2) = 1, c8.val) \in AnyPacket
  <2>1. /\ c2.val \in Strings /\ c3.val \in Strings /\ c4.val \in Strings /\ c5.val \in Strings
        /\ c6.val \in Nat /\ c8.val \in Strings
    BY <1>2, <1>3, <1>4, <1>5, <1>6, <1>7, <1>8, <1>9 DEF CursorOf
  <2>2. ((c7.val % 2) = 1) \in BOOLEAN
    OBVIOUS
  <2>3. <<c2.val, c3.val, c4.val, c5.val>> \in Strings \X Strings \X Strings \X Strings
    BY <2>1
  <2> QED
    BY <2>1, <2>2, <2>3 DEF Packet, AnyPacket
<1> QED
  BY <1>0, <1>8, <1>9 DEF CursorOf

\* What Decode may say.
Outcome(bytes) ==
  [status : {"packet"}, packet : AnyPacket, consumed : 1..Len(bytes)] \cup {More, Error}

\* Decode gives up, asks for more or returns a packet that lies within the bytes.
LEMMA DecodeType ==
  ASSUME NEW bytes \in Strings
  PROVE  Decode(bytes) \in Outcome(bytes)
<1>0. Len(bytes) \in Nat
  BY LenProperties DEF Strings
<1>1. CASE Len(bytes) < 4
  BY <1>1 DEF Decode, Outcome
<1>2. CASE ~(Len(bytes) < 4)
  <2> DEFINE body == Number(bytes, 1, 4)
  <2> DEFINE f == Fields(bytes, 4 + body)
  <2>1. body \in Nat
    BY <1>0, <1>2, NumberType
  <2>2. Decode(bytes)
          = IF BodyRefused(body) THEN Error
            ELSE IF ~Whole(bytes, body) THEN More
            ELSE IF f.ok THEN [status |-> "packet", packet |-> f.packet, consumed |-> 4 + body]
            ELSE Error
    BY <1>2 DEF Decode
  <2> HIDE DEF body
  <2>3. CASE BodyRefused(body)
    BY <2>2, <2>3 DEF Outcome
  <2>4. CASE ~BodyRefused(body) /\ ~Whole(bytes, body)
    BY <2>2, <2>4 DEF Outcome
  <2>5. CASE ~BodyRefused(body) /\ Whole(bytes, body)
    <3>1. 4 + body \in Nat /\ 4 + body <= Len(bytes) /\ 4 + body \in 1..Len(bytes)
      BY <1>0, <2>1, <2>5 DEF Whole
    <3>2. f.ok \in BOOLEAN /\ (f.ok => f.packet \in AnyPacket)
      BY <3>1, FieldsType
    <3> HIDE DEF f
    <3> QED
      BY <2>2, <2>5, <3>1, <3>2 DEF Outcome
  <2> QED
    BY <2>3, <2>4, <2>5
<1> QED
  BY <1>1, <1>2

(* Decoding what was encoded. *)
\* The bytes are the beginning of p's encoding, or have it and more.
Begins(bytes, p) ==
  \A k \in 1..Len(bytes) : k <= Len(Encode(p)) => bytes[k] = Encode(p)[k]

\* The first four bytes of an encoding are the length of its body.
LEMMA DecodeHead ==
  ASSUME NEW bytes \in Strings, NEW p \in AnyPacket, Len(Body(p)) < Limit32,
         Begins(bytes, p), Len(bytes) >= 4
  PROVE  Number(bytes, 1, 4) = Len(Body(p))
<1>0. Len(bytes) \in Nat
  BY LenProperties DEF Strings
<1> DEFINE h == U32(Len(Body(p)))
<1>1. /\ Len(Body(p)) \in Nat /\ Encode(p) = h \o Body(p)
      /\ Len(Encode(p)) = 4 + Len(Body(p)) /\ Body(p) \in Strings
  BY EncodeType, BodyType
<1>2. h \in Strings /\ Len(h) = 4
  BY <1>1, FourBytesOf
<1>3. \A k \in 1..4 : Encode(p)[k] = h[k]
  <2>1. \A i \in 1..(Len(h) + Len(Body(p))) :
          (h \o Body(p))[i] = IF i <= Len(h) THEN h[i] ELSE Body(p)[i - Len(h)]
    BY <1>1, <1>2, ConcatProperties DEF Strings
  <2> HIDE DEF h
  <2> QED
    BY <1>1, <1>2, <2>1
<1> HIDE DEF h
<1>4. \A k \in 1..4 : bytes[1 + k - 1] = h[k]
  <2> TAKE k \in 1..4
  <2>1. k \in 1..Len(bytes) /\ k <= Len(Encode(p)) /\ 1 + k - 1 = k
    BY <1>0, <1>1
  <2>2. bytes[k] = Encode(p)[k]
    BY <2>1 DEF Begins
  <2> QED
    BY <1>3, <2>1, <2>2
<1> QED
  BY <1>1, <1>4, NumberFour DEF h

\* However the packet was built, its length leads Decode to the end of it.
LEMMA DecodeConsumes ==
  ASSUME NEW bytes \in Strings, NEW p \in AnyPacket, Len(Body(p)) < Limit32, Begins(bytes, p),
         Decode(bytes).status = "packet"
  PROVE  Decode(bytes).consumed = Len(Encode(p)) /\ Len(Encode(p)) <= Len(bytes)
<1>0. Len(bytes) \in Nat /\ Len(Body(p)) \in Nat /\ Len(Encode(p)) = 4 + Len(Body(p))
  BY LenProperties, EncodeType DEF Strings
<1>1. ~(Len(bytes) < 4)
  BY DEF Decode, More
<1>2. Number(bytes, 1, 4) = Len(Body(p))
  BY <1>0, <1>1, DecodeHead
<1> DEFINE body == Len(Body(p))
<1> DEFINE f == Fields(bytes, 4 + body)
<1>3. Decode(bytes)
        = IF BodyRefused(body) THEN Error
          ELSE IF ~Whole(bytes, body) THEN More
          ELSE IF f.ok THEN [status |-> "packet", packet |-> f.packet, consumed |-> 4 + body]
          ELSE Error
  BY <1>1, <1>2 DEF Decode
<1> HIDE DEF f, body
<1>4. Whole(bytes, body) /\ Decode(bytes).consumed = 4 + body
  BY <1>3 DEF Error, More
<1> QED
  BY <1>0, <1>4 DEF Whole, body

\* A well-formed packet comes out as it went in, as soon as all of it is there.
LEMMA DecodeWellFormed ==
  ASSUME NEW bytes \in Strings, NEW p \in AnyPacket, Fitting(p), Len(Body(p)) <= MaxBody,
         Begins(bytes, p)
  PROVE  Decode(bytes) = IF Len(bytes) < Len(Encode(p)) THEN More
                         ELSE [status |-> "packet", packet |-> p, consumed |-> Len(Encode(p))]
<1>0. /\ Len(bytes) \in Nat /\ Len(Body(p)) \in Nat /\ Len(Encode(p)) = 4 + Len(Body(p))
      /\ Len(Body(p)) >= kMinBodyLen /\ kMinBodyLen = 17 /\ Len(Body(p)) < Limit32
  BY LenProperties, EncodeType DEF Strings, kMinBodyLen, Fitting
<1>1. CASE Len(bytes) < 4
  BY <1>0, <1>1 DEF Decode
<1>2. CASE ~(Len(bytes) < 4)
  <2>1. Number(bytes, 1, 4) = Len(Body(p))
    BY <1>0, <1>2, DecodeHead
  <2> DEFINE body == Len(Body(p))
  <2> DEFINE f == Fields(bytes, 4 + body)
  <2>2. Decode(bytes)
          = IF BodyRefused(body) THEN Error
            ELSE IF ~Whole(bytes, body) THEN More
            ELSE IF f.ok THEN [status |-> "packet", packet |-> f.packet, consumed |-> 4 + body]
            ELSE Error
    BY <1>2, <2>1 DEF Decode
  <2>3. ~BodyRefused(body)
    BY <1>0, CodecAssumption DEF BodyRefused
  <2>4. CASE Len(bytes) < Len(Encode(p))
    <3>1. ~Whole(bytes, body)
      BY <1>0, <2>4 DEF Whole
    <3> QED
      BY <2>2, <2>3, <2>4, <3>1
  <2>5. CASE ~(Len(bytes) < Len(Encode(p)))
    <3>1. Whole(bytes, body)
      BY <1>0, <2>5 DEF Whole
    <3>2. At(bytes, 1, U32(Len(Body(p))) \o Body(p))
      <4>1. Len(bytes) >= Len(Encode(p)) /\ Encode(p) \in Strings
        BY <1>0, <2>5, EncodeType
      <4>2. \A k \in 1..Len(Encode(p)) : bytes[1 + k - 1] = Encode(p)[k]
        BY <1>0, <4>1 DEF Begins
      <4> QED
        BY <1>0, <4>1, <4>2, EncodeType DEF At
    <3>3. At(bytes, 5, Body(p))
      <4> DEFINE h == U32(Len(Body(p)))
      <4> DEFINE b == Body(p)
      <4>1. h \in Strings /\ Len(h) = 4 /\ b \in Strings
        BY <1>0, FourBytesOf, BodyType
      <4>3. At(bytes, 1, h \o b)
        BY <3>2
      <4> HIDE DEF h, b
      <4>5. 1 \in Nat \ {0}
        OBVIOUS
      <4>2. At(bytes, 1 + Len(h), b)
        BY <4>1, <4>3, <4>5, AtSplit
      <4>4. At(bytes, 5, b)
        BY <4>1, <4>2
      <4> QED
        BY <4>4 DEF b
    <3>4. f = [ok |-> TRUE, packet |-> p]
      BY <3>3, BodyType, FieldsOf
    <3> HIDE DEF f
    <3> QED
      BY <1>0, <2>2, <2>3, <2>5, <3>1, <3>4
  <2> QED
    BY <2>4, <2>5
<1> QED
  BY <1>1, <1>2

\* What Encode writes Decode reads: of an encoded packet that fits its format, whatever
\* bytes follow, Decode returns the packet and its size.
THEOREM Codec_RoundTrip ==
  ASSUME NEW p \in AnyPacket, WellFormed(p), p.sessionId < Limit32,
         Len(Encode(p)) - 4 < Limit32, NEW rest \in Strings
  PROVE  Decode(Encode(p) \o rest)
           = [status |-> "packet", packet |-> p, consumed |-> Len(Encode(p))]
<1> DEFINE e == Encode(p)
<1> DEFINE b == e \o rest
<1>1. /\ e \in Strings /\ Len(e) = 4 + Len(Body(p)) /\ Len(Body(p)) \in Nat /\ Len(e) \in Nat
  BY EncodeType
<1>2. Fitting(p) /\ Len(Body(p)) <= MaxBody
  BY <1>1, CodecAssumption DEF WellFormed, Fitting
<1>3. /\ b \in Strings /\ Len(b) = Len(e) + Len(rest) /\ Len(rest) \in Nat
      /\ \A k \in 1..(Len(e) + Len(rest)) : b[k] = IF k <= Len(e) THEN e[k] ELSE rest[k - Len(e)]
  BY <1>1, ConcatProperties, LenProperties DEF Strings
<1> HIDE DEF b
<1>4. Begins(b, p)
  BY <1>3 DEF Begins
<1>5. Decode(b) = IF Len(b) < Len(e) THEN More
                  ELSE [status |-> "packet", packet |-> p, consumed |-> Len(e)]
  BY <1>2, <1>3, <1>4, DecodeWellFormed
<1>6. ~(Len(b) < Len(e))
  BY <1>1, <1>3
<1> QED
  BY <1>5, <1>6 DEF b

-----------------------------------------------------------------------------
(* Pieces of a string.                                                     *)

\* What lies between two positions of s.
Piece(s, i, j) == SubSeq(s, i + 1, j)

\* Pieces are strings; adjacent ones join; a piece of a piece is a piece.
LEMMA PieceType ==
  ASSUME NEW s \in Strings, NEW i \in Nat, NEW j \in Nat, i <= j, j <= Len(s)
  PROVE  /\ Piece(s, i, j) \in Strings /\ Len(Piece(s, i, j)) = j - i
         /\ \A k \in 1..(j - i) : Piece(s, i, j)[k] = s[i + k]
<1>0. Len(s) \in Nat
  BY LenProperties DEF Strings
<1> DEFINE t == SubSeq(s, i + 1, j)
<1>1. \A k \in (i + 1)..j : s[k] \in CodecByte
  <2> TAKE k \in (i + 1)..j
  <2>1. k \in 1..Len(s)
    BY <1>0
  <2> QED
    BY <2>1, ElementOfSeq DEF Strings
<1>2. /\ t \in Seq(CodecByte) /\ Len(t) = IF i + 1 <= j THEN j - (i + 1) + 1 ELSE 0
      /\ \A k \in 1..(j - (i + 1) + 1) : t[k] = s[(i + 1) + k - 1]
  <2>1. i + 1 \in Int /\ j \in Int
    OBVIOUS
  <2> QED
    BY <1>1, <2>1, SubSeqProperties
<1> HIDE DEF t
<1>3. j - (i + 1) + 1 = j - i /\ \A k \in 1..(j - i) : (i + 1) + k - 1 = i + k
  OBVIOUS
<1>4. Len(t) = j - i
  BY <1>2
<1> QED
  BY <1>2, <1>3, <1>4 DEF t, Piece, Strings

LEMMA PieceConcat ==
  ASSUME NEW s \in Strings, NEW i \in Nat, NEW j \in Nat, NEW k \in Nat, i <= j, j <= k, k <= Len(s)
  PROVE  Piece(s, i, j) \o Piece(s, j, k) = Piece(s, i, k)
<1>0. Len(s) \in Nat
  BY LenProperties DEF Strings
<1>1. /\ i + 1 \in 1..(Len(s) + 1) /\ j \in ((i + 1) - 1)..Len(s) /\ k \in j..Len(s)
  BY <1>0
<1> QED
  BY <1>1, ConcatAdjacentSubSeq DEF Strings, Piece

LEMMA Cut ==
  ASSUME NEW s \in Strings, NEW n \in 0..Len(s)
  PROVE  /\ Prefix(s, n) \in Strings /\ Suffix(s, n) \in Strings
         /\ Len(Prefix(s, n)) = n /\ Len(Suffix(s, n)) = Len(s) - n
         /\ Prefix(s, n) \o Suffix(s, n) = s
<1>0. /\ Len(s) \in Nat /\ n \in Nat /\ 0 \in Nat /\ n - 0 = n
      /\ 0 <= n /\ n <= Len(s) /\ Len(s) <= Len(s)
  BY LenProperties DEF Strings
<1>1. Prefix(s, n) = Piece(s, 0, n) /\ Suffix(s, n) = Piece(s, n, Len(s))
  BY DEF Prefix, Suffix, Piece
<1>2. /\ Piece(s, 0, n) \in Strings /\ Len(Piece(s, 0, n)) = n
      /\ Piece(s, n, Len(s)) \in Strings /\ Len(Piece(s, n, Len(s))) = Len(s) - n
  BY <1>0, PieceType
<1>3. Piece(s, 0, n) \o Piece(s, n, Len(s)) = Piece(s, 0, Len(s))
  BY <1>0, PieceConcat
<1>4. Piece(s, 0, Len(s)) = s
  BY SubSeqFull DEF Piece, Strings
<1> QED
  BY <1>1, <1>2, <1>3, <1>4

LEMMA CutPiece ==
  ASSUME NEW s \in Strings, NEW i \in Nat, NEW j \in Nat, i <= j, j <= Len(s), NEW n \in 0..(j - i)
  PROVE  /\ Prefix(Piece(s, i, j), n) = Piece(s, i, i + n)
         /\ Suffix(Piece(s, i, j), n) = Piece(s, i + n, j)
<1>0. Len(s) \in Nat /\ n \in Nat /\ i + n \in Nat /\ i <= i + n /\ i + n <= j /\ i + n <= Len(s)
  BY LenProperties DEF Strings
<1> DEFINE t == Piece(s, i, j)
<1> DEFINE a == Piece(s, i, i + n)
<1> DEFINE b == Piece(s, i + n, j)
<1>1. /\ a \in Strings /\ Len(a) = n /\ b \in Strings /\ Len(b) = j - (i + n)
  <2>1. Len(a) = (i + n) - i /\ a \in Strings /\ Len(b) = j - (i + n) /\ b \in Strings
    BY <1>0, PieceType
  <2> QED
    BY <1>0, <2>1
<1>2. t = a \o b
  BY <1>0, PieceConcat
<1>3. t \in Strings /\ Len(t) = n + Len(b)
  <2>1. t \in Strings /\ Len(t) = j - i
    BY PieceType
  <2> QED
    BY <1>0, <1>1, <2>1
<1> HIDE DEF t, a, b
<1>4. \A k \in 1..(Len(a) + Len(b)) : t[k] = IF k <= Len(a) THEN a[k] ELSE b[k - Len(a)]
  BY <1>1, <1>2, ConcatProperties DEF Strings
<1>5. Len(b) \in Nat /\ n \in 0..Len(t)
  BY <1>0, <1>1, <1>3
<1>6. Prefix(t, n) = a
  <2>1. /\ Prefix(t, n) = Piece(t, 0, n)
        /\ Piece(t, 0, n) \in Strings /\ Len(Piece(t, 0, n)) = n - 0
        /\ \A k \in 1..(n - 0) : Piece(t, 0, n)[k] = t[0 + k]
    <3>1. 0 \in Nat /\ 0 <= n /\ n <= Len(t)
      BY <1>0, <1>5
    <3> QED
      BY <1>0, <1>3, <3>1, PieceType DEF Prefix, Piece
  <2> DEFINE u == Piece(t, 0, n)
  <2> HIDE DEF u
  <2>2. u \in Strings /\ Len(u) = n /\ \A k \in 1..n : u[k] = a[k]
    <3>1. \A k \in 1..n : k \in 1..(Len(a) + Len(b)) /\ k <= Len(a) /\ 0 + k = k
      BY <1>0, <1>1, <1>5
    <3> QED
      BY <1>0, <1>4, <2>1, <3>1 DEF u
  <2>3. u = a
    BY <1>1, <2>2, SeqEqual DEF Strings
  <2> QED
    BY <2>1, <2>3 DEF u
<1>7. Suffix(t, n) = b
  <2>1. /\ Suffix(t, n) = Piece(t, n, Len(t))
        /\ Piece(t, n, Len(t)) \in Strings /\ Len(Piece(t, n, Len(t))) = Len(t) - n
        /\ \A k \in 1..(Len(t) - n) : Piece(t, n, Len(t))[k] = t[n + k]
    <3>1. n <= Len(t) /\ Len(t) <= Len(t) /\ Len(t) \in Nat
      BY <1>0, <1>3, <1>5
    <3> QED
      BY <1>0, <1>3, <3>1, PieceType DEF Suffix, Piece
  <2> DEFINE u == Piece(t, n, Len(t))
  <2> HIDE DEF u
  <2>2. u \in Strings /\ Len(u) = Len(b) /\ \A k \in 1..Len(b) : u[k] = b[k]
    <3>1. \A k \in 1..Len(b) : n + k \in 1..(Len(a) + Len(b)) /\ ~(n + k <= Len(a)) /\ (n + k) - Len(a) = k
      BY <1>0, <1>1, <1>5
    <3>2. Len(t) - n = Len(b)
      BY <1>0, <1>3, <1>5
    <3>3. u \in Strings /\ Len(u) = Len(b) /\ \A k \in 1..Len(b) : u[k] = t[n + k]
      BY <2>1, <3>2 DEF u
    <3> QED
      BY <1>4, <3>1, <3>3
  <2>3. u = b
    BY <1>1, <2>2, SeqEqual DEF Strings
  <2> QED
    BY <2>1, <2>3 DEF u
<1> QED
  BY <1>6, <1>7 DEF t, a, b

\* A longer stream has the same pieces, and what is new at its end.
LEMMA PieceLonger ==
  ASSUME NEW s \in Strings, NEW t \in Strings, NEW i \in Nat, NEW j \in Nat, i <= j, j <= Len(s)
  PROVE  /\ s \o t \in Strings /\ Len(s \o t) = Len(s) + Len(t)
         /\ Piece(s \o t, i, j) = Piece(s, i, j)
         /\ Piece(s \o t, i, Len(s \o t)) = Piece(s, i, Len(s)) \o t
<1>0. Len(s) \in Nat /\ Len(t) \in Nat /\ 0 \in Nat
  BY LenProperties DEF Strings
<1> DEFINE w == s \o t
<1>1. /\ w \in Strings /\ Len(w) = Len(s) + Len(t)
      /\ \A k \in 1..(Len(s) + Len(t)) : w[k] = IF k <= Len(s) THEN s[k] ELSE t[k - Len(s)]
  BY ConcatProperties DEF Strings
<1> HIDE DEF w
<1>2. ASSUME NEW m \in Nat, i <= m, m <= Len(s) PROVE Piece(w, i, m) = Piece(s, i, m)
  <2>1. /\ Piece(s, i, m) \in Strings /\ Len(Piece(s, i, m)) = m - i
        /\ \A k \in 1..(m - i) : Piece(s, i, m)[k] = s[i + k]
    BY <1>2, PieceType
  <2>2. m <= Len(w)
    BY <1>0, <1>1, <1>2
  <2>3. /\ Piece(w, i, m) \in Strings /\ Len(Piece(w, i, m)) = m - i
        /\ \A k \in 1..(m - i) : Piece(w, i, m)[k] = w[i + k]
    BY <1>1, <1>2, <2>2, PieceType
  <2>4. \A k \in 1..(m - i) : i + k \in 1..(Len(s) + Len(t)) /\ i + k <= Len(s)
    BY <1>0, <1>2
  <2>5. \A k \in 1..(m - i) : Piece(w, i, m)[k] = Piece(s, i, m)[k]
    BY <1>1, <2>1, <2>3, <2>4
  <2> QED
    BY <2>1, <2>3, <2>5, SeqEqual DEF Strings
<1>3. Piece(w, Len(s), Len(w)) = t
  <2>1. Len(s) <= Len(w) /\ Len(w) <= Len(w) /\ Len(w) \in Nat /\ Len(w) - Len(s) = Len(t)
    BY <1>0, <1>1
  <2> DEFINE u == Piece(w, Len(s), Len(w))
  <2>2. /\ u \in Strings /\ Len(u) = Len(w) - Len(s)
        /\ \A k \in 1..(Len(w) - Len(s)) : u[k] = w[Len(s) + k]
    BY <1>0, <1>1, <2>1, PieceType
  <2> HIDE DEF u
  <2>3. \A k \in 1..Len(t) :
          /\ Len(s) + k \in 1..(Len(s) + Len(t)) /\ ~(Len(s) + k <= Len(s))
          /\ (Len(s) + k) - Len(s) = k
    BY <1>0
  <2>4. Len(u) = Len(t) /\ \A k \in 1..Len(t) : u[k] = t[k]
    BY <1>1, <2>1, <2>2, <2>3
  <2>5. u = t
    BY <2>2, <2>4, SeqEqual DEF Strings
  <2> QED
    BY <2>5 DEF u
<1>4. Piece(w, i, Len(w)) = Piece(s, i, Len(s)) \o t
  <2>1. i <= Len(s) /\ Len(s) <= Len(w) /\ Len(w) <= Len(w) /\ Len(w) \in Nat
    BY <1>0, <1>1
  <2>2. Piece(w, i, Len(s)) \o Piece(w, Len(s), Len(w)) = Piece(w, i, Len(w))
    BY <1>0, <1>1, <2>1, PieceConcat
  <2>3. Piece(w, i, Len(s)) = Piece(s, i, Len(s))
    BY <1>0, <1>2, <2>1
  <2> QED
    BY <1>3, <2>2, <2>3
<1> QED
  BY <1>1, <1>2, <1>4 DEF w

-----------------------------------------------------------------------------
(* PacketStream: the invariant, and what a step does with the bytes.       *)

StreamTypeOK ==
  /\ kernel \in Strings /\ Len(kernel) <= Room
  /\ mailbox \in Seq(Strings) /\ recvBuffer \in Strings
  /\ sent \in Seq(Packets) /\ lost \in Seq(Packets) /\ delivered \in Seq(AnyPacket)
  /\ again \in {"never", "due", "told"}
  /\ broken \in BOOLEAN /\ link \in {"up", "removing", "down"} /\ pc \in {"idle", "decode"}

\* Packet i of q lies in the stream s behind off[i].
Laying(s, off, q) ==
  /\ off \in [1..(Len(q) + 1) -> 0..Len(s)] /\ off[Len(q) + 1] = Len(s)
  /\ \A i \in 1..Len(q) :
       off[i + 1] = off[i] + Len(Encode(q[i])) /\ At(s, off[i] + 1, Encode(q[i]))

\* Message i of m is the piece of s from cut[i] to cut[i + 1].
Cutting(s, cut, m) ==
  /\ cut \in [1..(Len(m) + 1) -> 0..Len(s)]
  /\ \A i \in 1..Len(m) : cut[i] <= cut[i + 1] /\ m[i] = Piece(s, cut[i], cut[i + 1])

\* s is the encoding of the packets q one behind another.  The first d of them are gone;
\* the others lie in the receive buffer r, in the messages m and in w, in this order.
Line(s, off, cut, q, m, d, r, w) ==
  /\ Laying(s, off, q) /\ Cutting(s, cut, m)
  /\ off[d + 1] <= cut[1] /\ r = Piece(s, off[d + 1], cut[1])
  /\ w = Piece(s, cut[Len(m) + 1], Len(s))

Lined(q, m, d, r, w) == \E s \in Strings : \E off, cut : Line(s, off, cut, q, m, d, r, w)
LineInv ==
  ~broken => /\ link = "up" /\ Len(delivered) <= Len(sent)
             /\ Lined(sent, mailbox, Len(delivered), recvBuffer, kernel \o Contents)
StreamInv == BufferInv /\ StreamTypeOK /\ LineInv

\* Until the dialing thread adds its own, Connected is the first message and finds nothing
\* in the receive buffer.
ConnectedFirst ==
  again # "told" => \A i \in 1..Len(mailbox) : mailbox[i] = Connected => i = 1 /\ recvBuffer = <<>>

LEMMA Assoc ==
  ASSUME NEW s \in Strings, NEW t \in Strings, NEW u \in Strings
  PROVE  (s \o t) \o u = s \o (t \o u)
BY ConcatAssociative DEF Strings

LEMMA BytesAreStrings == Seq(Byte) = Strings
BY StreamAssumption DEF Strings

\* What StreamAssumption says of a packet, in terms of its body.
LEMMA PacketsFit ==
  ASSUME NEW p \in Packets
  PROVE  /\ p \in AnyPacket /\ p.sessionId < Limit32 /\ Len(Body(p)) < Limit32
         /\ Encode(p) \in Strings /\ Len(Encode(p)) = 4 + Len(Body(p)) /\ Len(Body(p)) \in Nat
         /\ Len(Encode(p)) \in Nat /\ Len(Encode(p)) >= 4
<1>1. p \in AnyPacket /\ p.sessionId < Limit32 /\ Len(Encode(p)) < Limit32
  BY StreamAssumption
<1>2. Encode(p) \in Strings /\ Len(Encode(p)) = 4 + Len(Body(p)) /\ Len(Body(p)) \in Nat
  BY <1>1, EncodeType
<1>3. Limit32 \in Nat
  BY Limits
<1> QED
  BY <1>1, <1>2, <1>3

\* The readable bytes are a string too.
LEMMA BufferType ==
  ASSUME BufferInv
  PROVE  Contents \in Strings /\ Len(Contents) = ReadableBytes /\ ReadableBytes \in Nat
BY ContentsType, BytesAreStrings DEF Typed

LEMMA BufferTypeNext == BufferInv' => (Contents \in Strings /\ Len(Contents) = ReadableBytes)'
<1>1. BufferInv => (Contents \in Strings /\ Len(Contents) = ReadableBytes)
  BY BufferType
<1> QED
  BY <1>1, PTL

\* Without a step of the buffer its bytes stay.
LEMMA BufferSame ==
  ASSUME BufferInv, UNCHANGED bufferVars
  PROVE  BufferInv' /\ Contents' = Contents
BY DEF BufferInv, BufferTypeOK, IndexesInBounds, bufferVars, Contents, ReadableBytes

\* sendInLoop writes at once what the socket takes, and only with an empty buffer.
LEMMA DirectBytes ==
  ASSUME BufferInv, StreamTypeOK, NEW bytes \in Strings
  PROVE  /\ Direct(bytes) \in 0..Len(bytes) /\ Direct(bytes) <= Room - Len(kernel)
         /\ Contents = <<>> \/ Direct(bytes) = 0
<1> DEFINE n == Direct(bytes)
<1>1. Len(bytes) \in Nat
  BY LenProperties DEF Strings
<1>2. /\ Contents \in Strings /\ Len(Contents) = ReadableBytes
      /\ Len(kernel) \in Nat /\ Len(kernel) <= Room /\ Room \in Nat
  BY BufferType, LenProperties, StreamAssumption DEF StreamTypeOK, Strings
<1>3. n \in 0..Len(bytes) /\ n <= Room - Len(kernel)
  <2>1. n = IF Empty THEN (IF Len(bytes) < Room - Len(kernel) THEN Len(bytes) ELSE Room - Len(kernel)) ELSE 0
    BY DEF Direct, Least
  <2> HIDE DEF n
  <2> QED
    BY <1>1, <1>2, <2>1
<1>4. Contents = <<>> \/ n = 0
  <2>1. CASE Empty
    <3>1. Len(Contents) = 0
      BY <1>2, <2>1 DEF Empty, ReadableBytes, BufferInv, BufferTypeOK
    <3> QED
      BY <1>2, <3>1, EmptySeq DEF Strings
  <2>2. CASE ~Empty
    BY <2>2 DEF Direct
  <2> QED
    BY <2>1, <2>2
<1> QED
  BY <1>3, <1>4

\* The bytes of a packet go behind what is in the socket and in the buffer.
LEMMA SendBytes ==
  ASSUME BufferInv, StreamTypeOK, NEW p \in Packets, SendPacket(p)
  PROVE  /\ BufferInv' /\ kernel' \in Strings /\ Len(kernel') <= Room
         /\ kernel' \o Contents' = (kernel \o Contents) \o Encode(p)
<1> DEFINE bytes == Encode(p)
<1> DEFINE n == Direct(bytes)
<1> DEFINE a == Prefix(bytes, n)
<1> DEFINE b == Suffix(bytes, n)
<1>1. bytes \in Strings /\ Len(bytes) \in Nat
  BY PacketsFit
<1>2. /\ kernel' = kernel \o a
      /\ IF n < Len(bytes) THEN BufferAppend(b) ELSE UNCHANGED bufferVars
  BY DEF SendPacket
<1>3. /\ Contents \in Strings /\ kernel \in Strings /\ Len(kernel) \in Nat
      /\ Len(kernel) <= Room /\ Room \in Nat
  BY BufferType, LenProperties, StreamAssumption DEF StreamTypeOK, Strings
<1> HIDE DEF bytes
<1>4. n \in 0..Len(bytes) /\ n <= Room - Len(kernel)
  BY <1>1, DirectBytes
<1>5. Contents = <<>> \/ n = 0
  BY <1>1, DirectBytes
<1> HIDE DEF n
<1>6. a \in Strings /\ b \in Strings /\ Len(a) = n /\ Len(b) = Len(bytes) - n /\ a \o b = bytes
  BY <1>1, <1>4, Cut
<1> HIDE DEF a, b
<1>7. BufferInv' /\ Contents' = Contents \o b
  <2>1. CASE n < Len(bytes)
    BY <1>2, <1>6, <2>1, AppendExtends, AppendConcat, BytesAreStrings
  <2>2. CASE ~(n < Len(bytes))
    <3>1. Len(b) = 0
      BY <1>1, <1>4, <1>6, <2>2
    <3>2. b = <<>>
      BY <1>6, <3>1, EmptySeq DEF Strings
    <3>3. Contents \o b = Contents
      BY <1>3, <3>2, ConcatEmptySeq DEF Strings
    <3> QED
      BY <1>2, <2>2, <3>3, BufferSame
  <2> QED
    BY <2>1, <2>2
<1>8. kernel' \in Strings /\ Len(kernel') <= Room
  <2>1. kernel \o a \in Strings /\ Len(kernel \o a) = Len(kernel) + Len(a)
    BY <1>3, <1>6, Concat
  <2> QED
    BY <1>1, <1>2, <1>3, <1>4, <1>6, <2>1
<1>9. (kernel \o a) \o (Contents \o b) = (kernel \o Contents) \o bytes
  <2>1. CASE Contents = <<>>
    <3>1. Contents \o b = b /\ kernel \o Contents = kernel
      BY <1>3, <1>6, <2>1, ConcatEmptySeq DEF Strings
    <3>2. (kernel \o a) \o b = kernel \o (a \o b)
      BY <1>3, <1>6, Assoc
    <3> QED
      BY <1>6, <3>1, <3>2
  <2>2. CASE n = 0
    <3>1. a = <<>>
      BY <1>6, <2>2, EmptySeq DEF Strings
    <3>2. kernel \o a = kernel /\ a \o b = b
      BY <1>3, <1>6, <3>1, ConcatEmptySeq DEF Strings
    <3>3. kernel \o (Contents \o b) = (kernel \o Contents) \o b
      BY <1>3, <1>6, Assoc
    <3> QED
      BY <1>6, <3>2, <3>3
  <2> QED
    BY <1>5, <2>1, <2>2
<1> QED
  BY <1>2, <1>7, <1>8, <1>9 DEF bytes

\* HandleWrite moves bytes from the buffer to the socket.
LEMMA WriteBytes ==
  ASSUME BufferInv, StreamTypeOK, HandleWrite
  PROVE  /\ BufferInv' /\ kernel' \in Strings /\ Len(kernel') <= Room
         /\ kernel' \o Contents' = kernel \o Contents
<1> DEFINE n == Least(ReadableBytes, Room - Len(kernel))
<1> DEFINE a == Prefix(Contents, n)
<1> DEFINE b == Suffix(Contents, n)
<1>1. kernel' = kernel \o a /\ Retrieve(n)
  BY DEF HandleWrite
<1>2. /\ Contents \in Strings /\ Len(Contents) = ReadableBytes /\ ReadableBytes \in Nat
      /\ kernel \in Strings /\ Len(kernel) \in Nat /\ Len(kernel) <= Room /\ Room \in Nat
  BY BufferType, LenProperties, StreamAssumption DEF StreamTypeOK, Strings
<1>3. n \in 1..ReadableBytes
  BY <1>1 DEF Retrieve
<1>4. n <= Room - Len(kernel)
  <2>1. n = IF ReadableBytes < Room - Len(kernel) THEN ReadableBytes ELSE Room - Len(kernel)
    BY DEF Least
  <2> HIDE DEF n
  <2> QED
    BY <1>2, <2>1
<1> HIDE DEF n
<1>5. BufferInv' /\ Contents' = b
  BY <1>1, <1>3, RetrieveInv, RetrieveDrops DEF Suffix
<1>6. a \in Strings /\ b \in Strings /\ Len(a) = n /\ a \o b = Contents
  <2>1. n \in 0..Len(Contents)
    BY <1>2, <1>3
  <2> QED
    BY <1>2, <2>1, Cut
<1> HIDE DEF a, b
<1>7. kernel \o a \in Strings /\ Len(kernel \o a) = Len(kernel) + n
  BY <1>2, <1>6, Concat
<1>8. (kernel \o a) \o b = kernel \o (a \o b)
  BY <1>2, <1>6, Assoc
<1> QED
  BY <1>1, <1>2, <1>3, <1>4, <1>5, <1>6, <1>7, <1>8

\* HandleRead takes a piece of what the socket holds.
LEMMA ReadBytes ==
  ASSUME StreamTypeOK, Contents \in Strings, HandleRead
  PROVE  \E n \in 1..Len(kernel) :
           /\ mailbox' = Append(mailbox, Prefix(kernel \o Contents, n))
           /\ kernel' \o Contents = Suffix(kernel \o Contents, n)
           /\ kernel' \in Strings /\ Len(kernel') <= Room
           /\ Prefix(kernel \o Contents, n) \in Strings
<1> DEFINE n == Least(RecvSize, Len(kernel))
<1> DEFINE a == Prefix(kernel, n)
<1> DEFINE b == Suffix(kernel, n)
<1>1. mailbox' = Append(mailbox, a) /\ kernel' = b
  BY DEF HandleRead
<1>2. /\ kernel \in Strings /\ Len(kernel) \in Nat \ {0} /\ Len(kernel) <= Room /\ Room \in Nat
      /\ RecvSize \in Nat \ {0}
  BY EmptySeq, StreamAssumption DEF StreamTypeOK, Strings, HandleRead
<1>3. n \in 1..Len(kernel)
  BY <1>2 DEF Least
<1> HIDE DEF n
<1>4. a \in Strings /\ b \in Strings /\ Len(a) = n /\ Len(b) = Len(kernel) - n /\ a \o b = kernel
  BY <1>2, <1>3, Cut
<1> DEFINE w == kernel \o Contents
<1> HIDE DEF a, b
<1> DEFINE c == b \o Contents
<1>5. w = a \o c /\ c \in Strings /\ Len(c) \in Nat /\ Len(a) \in Nat
  <2>1. c \in Strings
    BY <1>4, Concat
  <2>2. w = a \o c
    <3>1. (a \o b) \o Contents = a \o (b \o Contents)
      BY <1>4, Assoc
    <3> QED
      BY <1>4, <3>1
  <2> QED
    BY <1>4, <2>1, <2>2, LenProperties DEF Strings
<1>6. Prefix(w, n) = a /\ Suffix(w, n) = c
  <2> HIDE DEF c, w
  <2> DEFINE m == Len(a)
  <2>0. m = n /\ m \in Nat /\ 0 \in Nat /\ 0 <= m /\ m <= m /\ m <= Len(a)
    BY <1>4, <1>5
  <2> HIDE DEF m
  <2>1. /\ Piece(a \o c, 0, m) = Piece(a, 0, m)
    BY <1>4, <1>5, <2>0, PieceLonger
  <2>2. Piece(a \o c, m, Len(a \o c)) = Piece(a, m, Len(a)) \o c
    BY <1>4, <1>5, <2>0, PieceLonger
  <2>3. Piece(a, 0, m) = a
    BY <1>4, <2>0, SubSeqFull DEF Piece, Strings
  <2>4. Piece(a, m, Len(a)) = <<>>
    BY <1>4, <2>0, SubSeqEmpty DEF Piece
  <2>5. <<>> \o c = c
    BY <1>5, ConcatEmptySeq DEF Strings
  <2>6. Prefix(w, n) = Piece(a \o c, 0, m) /\ Suffix(w, n) = Piece(a \o c, m, Len(a \o c))
    BY <1>5, <2>0 DEF Prefix, Suffix, Piece
  <2> QED
    BY <2>1, <2>2, <2>3, <2>4, <2>5, <2>6
<1>7. Len(b) <= Room
  BY <1>2, <1>3, <1>4
<1> QED
  BY <1>1, <1>3, <1>4, <1>6, <1>7

-----------------------------------------------------------------------------
(* Packets laid one behind another, and cut into messages.                 *)

\* Another packet at the end.
LEMMA LayMore ==
  ASSUME NEW s \in Strings, NEW q \in Seq(Packets), NEW off, Laying(s, off, q),
         NEW p \in Packets
  PROVE  \E off2 : /\ Laying(s \o Encode(p), off2, Append(q, p))
                   /\ \A i \in 1..(Len(q) + 1) : off2[i] = off[i]
<1> DEFINE e == Encode(p)
<1> DEFINE t == s \o e
<1> DEFINE r == Append(q, p)
<1> DEFINE n == Len(q)
<1>1. /\ n \in Nat /\ Len(s) \in Nat /\ e \in Strings /\ Len(e) \in Nat
      /\ t \in Strings /\ Len(t) = Len(s) + Len(e)
  BY PacketsFit, Concat, LenProperties DEF Strings
<1>2. Len(r) = n + 1 /\ r[n + 1] = p /\ \A i \in 1..n : r[i] = q[i]
  BY AppendProperties
<1>3. \A k \in 1..(Len(s) + Len(e)) : t[k] = IF k <= Len(s) THEN s[k] ELSE e[k - Len(s)]
  BY <1>1, ConcatProperties DEF Strings
<1>4. /\ off \in [1..(n + 1) -> 0..Len(s)] /\ off[n + 1] = Len(s)
      /\ \A i \in 1..n : off[i + 1] = off[i] + Len(Encode(q[i])) /\ At(s, off[i] + 1, Encode(q[i]))
  BY DEF Laying
<1>5. At(t, Len(s) + 1, e)
  <2> HIDE DEF e, t
  <2>1. \A k \in 1..Len(e) : /\ (Len(s) + 1) + k - 1 \in 1..(Len(s) + Len(e))
                             /\ ~((Len(s) + 1) + k - 1 <= Len(s)) /\ ((Len(s) + 1) + k - 1) - Len(s) = k
    BY <1>1
  <2>2. (Len(s) + 1) + Len(e) <= Len(t) + 1
    BY <1>1
  <2> QED
    BY <1>3, <2>1, <2>2 DEF At
<1>6. ASSUME NEW i \in 1..n PROVE At(t, off[i] + 1, Encode(q[i]))
  <2> DEFINE x == Encode(q[i])
  <2> DEFINE o == off[i]
  <2>1. x \in Strings /\ Len(x) \in Nat
    <3>1. q[i] \in Packets
      BY <1>1, ElementOfSeq
    <3> QED
      BY <3>1, PacketsFit
  <2>2. o \in Nat /\ At(s, o + 1, x)
    <3>1. i \in 1..(n + 1)
      BY <1>1
    <3>2. off[i] \in 0..Len(s)
      BY <1>4, <3>1
    <3> QED
      BY <1>1, <1>4, <3>2
  <2> HIDE DEF x, o, e, t
  <2>3. (o + 1) + Len(x) <= Len(s) + 1 /\ \A k \in 1..Len(x) : s[(o + 1) + k - 1] = x[k]
    BY <2>2 DEF At
  <2>4. \A k \in 1..Len(x) : (o + 1) + k - 1 \in 1..(Len(s) + Len(e)) /\ (o + 1) + k - 1 <= Len(s)
    BY <1>1, <2>1, <2>2, <2>3
  <2>5. (o + 1) + Len(x) <= Len(t) + 1
    BY <1>1, <2>1, <2>2, <2>3
  <2>6. At(t, o + 1, x)
    BY <1>3, <2>3, <2>4, <2>5 DEF At
  <2> QED
    BY <2>6 DEF x, o
<1> DEFINE off2 == [i \in 1..(n + 2) |-> IF i = n + 2 THEN Len(t) ELSE off[i]]
<1> HIDE DEF e, t, r, n
<1>7. /\ off2 \in [1..(Len(r) + 1) -> 0..Len(t)] /\ off2[Len(r) + 1] = Len(t)
      /\ \A i \in 1..(n + 1) : off2[i] = off[i]
  BY <1>1, <1>2, <1>4
<1> HIDE DEF off2
<1>8. ASSUME NEW i \in 1..Len(r)
      PROVE  off2[i + 1] = off2[i] + Len(Encode(r[i])) /\ At(t, off2[i] + 1, Encode(r[i]))
  <2>1. CASE i \in 1..n
    <3>1. off2[i] = off[i] /\ off2[i + 1] = off[i + 1] /\ r[i] = q[i]
      BY <1>1, <1>2, <1>7, <2>1
    <3> QED
      BY <1>4, <1>6, <2>1, <3>1
  <2>2. CASE i = n + 1
    <3>1. off2[i] = Len(s) /\ off2[i + 1] = Len(s) + Len(e) /\ r[i] = p
      <4>1. i \in 1..(n + 1) /\ i + 1 = Len(r) + 1
        BY <1>1, <1>2, <2>2
      <4> QED
        BY <1>1, <1>2, <1>4, <1>7, <2>2, <4>1
    <3> QED
      BY <1>5, <3>1 DEF e
  <2> QED
    BY <1>1, <1>2, <2>1, <2>2
<1>9. Laying(t, off2, r)
  BY <1>7, <1>8 DEF Laying
<1> QED
  BY <1>7, <1>9 DEF e, t, r, n

\* A longer stream is cut where it was.
LEMMA CutLonger ==
  ASSUME NEW s \in Strings, NEW t \in Strings, NEW m \in Seq(Strings), NEW cut, Cutting(s, cut, m)
  PROVE  Cutting(s \o t, cut, m)
<1> DEFINE w == s \o t
<1>1. Len(s) \in Nat /\ Len(t) \in Nat /\ w \in Strings /\ Len(w) = Len(s) + Len(t) /\ Len(m) \in Nat
  BY Concat, LenProperties DEF Strings
<1>2. /\ cut \in [1..(Len(m) + 1) -> 0..Len(s)]
      /\ \A i \in 1..Len(m) : cut[i] <= cut[i + 1] /\ m[i] = Piece(s, cut[i], cut[i + 1])
  BY DEF Cutting
<1>3. cut \in [1..(Len(m) + 1) -> 0..Len(w)]
  BY <1>1, <1>2
<1>4. ASSUME NEW i \in 1..Len(m) PROVE m[i] = Piece(w, cut[i], cut[i + 1])
  <2> DEFINE a == cut[i]
  <2> DEFINE b == cut[i + 1]
  <2>1. a \in Nat /\ b \in Nat /\ a <= b /\ b <= Len(s)
    BY <1>1, <1>2
  <2> HIDE DEF a, b
  <2>2. Piece(w, a, b) = Piece(s, a, b)
    BY <2>1, PieceLonger
  <2> QED
    BY <1>2, <2>2 DEF a, b
<1> QED
  BY <1>2, <1>3, <1>4 DEF Cutting

\* Another message at the end.
LEMMA CutMore ==
  ASSUME NEW s \in Strings, NEW m \in Seq(Strings), NEW cut, Cutting(s, cut, m),
         NEW j \in 0..Len(s), cut[Len(m) + 1] <= j
  PROVE  \E cut2 : /\ Cutting(s, cut2, Append(m, Piece(s, cut[Len(m) + 1], j)))
                   /\ cut2[1] = cut[1] /\ cut2[Len(m) + 2] = j
<1> DEFINE n == Len(m)
<1> DEFINE x == Piece(s, cut[n + 1], j)
<1> DEFINE r == Append(m, x)
<1>1. n \in Nat /\ Len(s) \in Nat
  BY LenProperties DEF Strings
<1>2. /\ cut \in [1..(n + 1) -> 0..Len(s)]
      /\ \A i \in 1..n : cut[i] <= cut[i + 1] /\ m[i] = Piece(s, cut[i], cut[i + 1])
  BY DEF Cutting
<1>3. x \in Strings
  <2> DEFINE a == cut[n + 1]
  <2>1. a \in Nat /\ j \in Nat /\ a <= j /\ j <= Len(s)
    BY <1>1, <1>2
  <2> HIDE DEF a
  <2>2. Piece(s, a, j) \in Strings
    BY <2>1, PieceType
  <2> QED
    BY <2>2 DEF a
<1> HIDE DEF x
<1>4. Len(r) = n + 1 /\ r[n + 1] = x /\ \A i \in 1..n : r[i] = m[i]
  BY <1>3, AppendProperties
<1> DEFINE cut2 == [i \in 1..(n + 2) |-> IF i = n + 2 THEN j ELSE cut[i]]
<1> HIDE DEF r, n
<1>5. /\ cut2 \in [1..(Len(r) + 1) -> 0..Len(s)] /\ cut2[n + 2] = j
      /\ \A i \in 1..(n + 1) : cut2[i] = cut[i]
  BY <1>1, <1>2, <1>4
<1> HIDE DEF cut2
<1>6. ASSUME NEW i \in 1..Len(r)
      PROVE  cut2[i] <= cut2[i + 1] /\ r[i] = Piece(s, cut2[i], cut2[i + 1])
  <2>1. CASE i \in 1..n
    <3>1. cut2[i] = cut[i] /\ cut2[i + 1] = cut[i + 1] /\ r[i] = m[i]
      <4>1. i \in 1..(n + 1) /\ i + 1 \in 1..(n + 1)
        BY <1>1, <2>1
      <4> QED
        BY <1>4, <1>5, <2>1, <4>1
    <3> QED
      BY <1>2, <2>1, <3>1
  <2>2. CASE i = n + 1
    <3>1. cut2[i] = cut[n + 1] /\ cut2[i + 1] = j /\ r[i] = x
      <4>1. i \in 1..(n + 1) /\ i + 1 = n + 2
        BY <1>1, <2>2
      <4> QED
        BY <1>4, <1>5, <2>2, <4>1
    <3> QED
      BY <3>1 DEF x, n
  <2> QED
    BY <1>1, <1>4, <2>1, <2>2
<1>7. Cutting(s, cut2, r)
  BY <1>5, <1>6 DEF Cutting
<1>8. cut2[1] = cut[1]
  BY <1>1, <1>5
<1> QED
  BY <1>5, <1>7, <1>8 DEF r, n, x

\* The first message is taken.
LEMMA CutTail ==
  ASSUME NEW s \in Strings, NEW m \in Seq(Strings), m # <<>>, NEW cut, Cutting(s, cut, m)
  PROVE  /\ Head(m) = Piece(s, cut[1], cut[2]) /\ cut[1] <= cut[2]
         /\ \E cut2 : /\ Cutting(s, cut2, Tail(m)) /\ cut2[1] = cut[2]
                      /\ cut2[Len(Tail(m)) + 1] = cut[Len(m) + 1]
<1> DEFINE n == Len(m)
<1> DEFINE r == Tail(m)
<1>1. n \in Nat \ {0} /\ Len(s) \in Nat
  BY LenProperties, EmptySeq DEF Strings
<1>2. /\ cut \in [1..(n + 1) -> 0..Len(s)]
      /\ \A i \in 1..n : cut[i] <= cut[i + 1] /\ m[i] = Piece(s, cut[i], cut[i + 1])
  BY DEF Cutting
<1>3. Head(m) = m[1] /\ Len(r) = n - 1 /\ \A i \in 1..(n - 1) : r[i] = m[i + 1]
  BY HeadTailProperties
<1> DEFINE cut2 == [i \in 1..n |-> cut[i + 1]]
<1> HIDE DEF r, n
<1>4. cut2 \in [1..(Len(r) + 1) -> 0..Len(s)] /\ \A i \in 1..n : cut2[i] = cut[i + 1]
  BY <1>1, <1>2, <1>3
<1> HIDE DEF cut2
<1>5. ASSUME NEW i \in 1..Len(r)
      PROVE  cut2[i] <= cut2[i + 1] /\ r[i] = Piece(s, cut2[i], cut2[i + 1])
  <2>1. i \in 1..n /\ i + 1 \in 1..n /\ i \in 1..(n - 1)
    BY <1>1, <1>3
  <2>2. cut2[i] = cut[i + 1] /\ cut2[i + 1] = cut[(i + 1) + 1] /\ r[i] = m[i + 1]
    BY <1>3, <1>4, <2>1
  <2> QED
    BY <1>2, <2>1, <2>2
<1>6. Cutting(s, cut2, r)
  BY <1>4, <1>5 DEF Cutting
<1>7. cut2[1] = cut[2] /\ cut2[Len(r) + 1] = cut[n + 1]
  <2>1. 1 \in 1..n /\ n \in 1..n /\ Len(r) + 1 = n /\ 1 + 1 = 2
    BY <1>1, <1>3
  <2> QED
    BY <1>4, <2>1
<1>8. Head(m) = Piece(s, cut[1], cut[2]) /\ cut[1] <= cut[2]
  <2>1. 1 \in 1..n /\ 1 + 1 = 2
    BY <1>1
  <2> QED
    BY <1>2, <1>3, <2>1
<1> QED
  BY <1>6, <1>7, <1>8 DEF r, n

LEMMA PieceStays ==
  ASSUME NEW s \in Strings, NEW t \in Strings, NEW i \in Nat, NEW j \in Nat, i <= j, j <= Len(s)
  PROVE  Piece(s \o t, i, j) = Piece(s, i, j)
BY PieceLonger

\* The line at the beginning: nothing sent, nothing on the way.
LEMMA LineStart == Lined(<<>>, <<>>, 0, <<>>, <<>>)
<1> DEFINE o == [i \in {1} |-> 0]
<1>1. Len(<<>>) = 0 /\ <<>> \in Strings /\ 0 + 1 = 1 /\ 1..1 = {1} /\ 1..0 = {} /\ 0..0 = {0}
  BY DEF Strings
<1>2. Piece(<<>>, 0, 0) = <<>>
  BY <1>1, SubSeqEmpty DEF Piece
<1>3. o[1] = 0 /\ o \in [1..1 -> 0..0]
  BY <1>1
<1> HIDE DEF o
<1>4. Laying(<<>>, o, <<>>) /\ Cutting(<<>>, o, <<>>)
  BY <1>1, <1>3 DEF Laying, Cutting
<1>5. Line(<<>>, o, o, <<>>, <<>>, 0, <<>>, <<>>)
  BY <1>1, <1>2, <1>3, <1>4 DEF Line
<1> QED
  BY <1>1, <1>5 DEF Lined

\* A packet joins the line at its end.
LEMMA LineSend ==
  ASSUME NEW q \in Seq(Packets), NEW m \in Seq(Strings), NEW d \in 0..Len(q),
         NEW r \in Strings, NEW w \in Strings, Lined(q, m, d, r, w), NEW p \in Packets
  PROVE  Lined(Append(q, p), m, d, r, w \o Encode(p))
<1>0. PICK s \in Strings : \E off, cut : Line(s, off, cut, q, m, d, r, w)
  BY DEF Lined
<1>1. PICK off, cut : Line(s, off, cut, q, m, d, r, w)
  BY <1>0
<1> DEFINE e == Encode(p)
<1> DEFINE t == s \o e
<1>2. /\ Laying(s, off, q) /\ Cutting(s, cut, m)
      /\ off[d + 1] <= cut[1] /\ r = Piece(s, off[d + 1], cut[1])
      /\ w = Piece(s, cut[Len(m) + 1], Len(s))
  BY <1>1 DEF Line
<1>3. e \in Strings /\ Len(s) \in Nat /\ Len(m) \in Nat /\ Len(q) \in Nat
  BY PacketsFit, LenProperties DEF Strings
<1>4. PICK off2 : Laying(t, off2, Append(q, p)) /\ \A i \in 1..(Len(q) + 1) : off2[i] = off[i]
  BY <1>2, LayMore
<1> HIDE DEF e
<1>5. Cutting(t, cut, m) /\ t \in Strings
  BY <1>2, <1>3, CutLonger, Concat
<1>6. off2[d + 1] = off[d + 1]
  <2>1. d + 1 \in 1..(Len(q) + 1)
    BY <1>3
  <2> QED
    BY <1>4, <2>1
<1> DEFINE a == off[d + 1]
<1> DEFINE b == cut[1]
<1> DEFINE c == cut[Len(m) + 1]
<1>7. a \in Nat /\ b \in Nat /\ c \in Nat /\ a <= b /\ b <= Len(s) /\ c <= Len(s)
  <2>1. d + 1 \in 1..(Len(q) + 1) /\ 1 \in 1..(Len(m) + 1) /\ Len(m) + 1 \in 1..(Len(m) + 1)
    BY <1>3
  <2>2. a \in 0..Len(s) /\ b \in 0..Len(s) /\ c \in 0..Len(s)
    BY <1>2, <2>1 DEF Laying, Cutting
  <2> QED
    BY <1>2, <1>3, <2>2
<1>8. r = Piece(s, a, b) /\ w = Piece(s, c, Len(s))
  BY <1>2
<1> HIDE DEF a, b, c
<1>9. Piece(t, a, b) = Piece(s, a, b) /\ Piece(t, c, Len(t)) = Piece(s, c, Len(s)) \o e
  <2>1. Piece(s \o e, a, b) = Piece(s, a, b)
    <3>1. s \in Strings /\ e \in Strings /\ a \in Nat /\ b \in Nat /\ a <= b /\ b <= Len(s)
      BY <1>3, <1>7
    <3> QED
      BY <3>1, PieceStays
  <2>2. c <= c
    BY <1>7
  <2>3. Piece(s \o e, c, Len(s \o e)) = Piece(s, c, Len(s)) \o e
    BY <1>3, <1>7, <2>2, PieceLonger
  <2> QED
    BY <2>1, <2>3
<1>10. Line(t, off2, cut, Append(q, p), m, d, r, w \o e)
  BY <1>2, <1>4, <1>5, <1>6, <1>8, <1>9 DEF Line, a, b, c
<1> QED
  BY <1>5, <1>10 DEF Lined, e

\* A recv makes a message of any part of what is in front of the socket.
LEMMA LineRead ==
  ASSUME NEW q \in Seq(Packets), NEW m \in Seq(Strings), NEW d \in 0..Len(q),
         NEW r \in Strings, NEW w \in Strings, Lined(q, m, d, r, w), NEW n \in 0..Len(w)
  PROVE  Lined(q, Append(m, Prefix(w, n)), d, r, Suffix(w, n))
<1>0. PICK s \in Strings : \E off, cut : Line(s, off, cut, q, m, d, r, w)
  BY DEF Lined
<1>1. PICK off, cut : Line(s, off, cut, q, m, d, r, w)
  BY <1>0
<1>2. /\ Laying(s, off, q) /\ Cutting(s, cut, m)
      /\ off[d + 1] <= cut[1] /\ r = Piece(s, off[d + 1], cut[1])
      /\ w = Piece(s, cut[Len(m) + 1], Len(s))
  BY <1>1 DEF Line
<1> DEFINE c == cut[Len(m) + 1]
<1> DEFINE z == Len(s)
<1>3. z \in Nat /\ c \in 0..z /\ Len(m) \in Nat
  <2>1. z \in Nat /\ Len(m) \in Nat /\ Len(m) + 1 \in 1..(Len(m) + 1)
    BY LenProperties DEF Strings
  <2> QED
    BY <1>2, <2>1 DEF Cutting
<1>4. w = Piece(s, c, z) /\ z <= z /\ c <= z /\ c \in Nat
  BY <1>2, <1>3
<1> HIDE DEF c
<1>5. Len(w) = z - c
  BY <1>3, <1>4, PieceType
<1> DEFINE j == c + n
<1>6. n \in 0..(z - c) /\ j \in 0..z /\ c <= j
  BY <1>3, <1>5
<1>7. Prefix(w, n) = Piece(s, c, j) /\ Suffix(w, n) = Piece(s, j, z)
  BY <1>3, <1>4, <1>6, CutPiece
<1> HIDE DEF j
<1> DEFINE x == Piece(s, c, j)
<1> DEFINE m2 == Append(m, x)
<1>8. PICK cut2 : Cutting(s, cut2, m2) /\ cut2[1] = cut[1] /\ cut2[Len(m) + 2] = j
  BY <1>2, <1>6, CutMore DEF c
<1>9. Len(m2) = Len(m) + 1
  <2>1. x \in Strings
    <3>1. j \in Nat /\ j <= Len(s)
      BY <1>3, <1>6
    <3> QED
      BY <1>4, <1>6, <3>1, PieceType
  <2> HIDE DEF x
  <2> QED
    BY <2>1, AppendProperties
<1> HIDE DEF m2
<1>10. (Len(m) + 1) + 1 = Len(m) + 2
  BY <1>3
<1>11. Line(s, off, cut2, q, m2, d, r, Piece(s, j, z))
  BY <1>2, <1>8, <1>9, <1>10 DEF Line
<1> QED
  BY <1>7, <1>11 DEF Lined, m2

\* The gateway puts the first message behind its buffer.
LEMMA LineRecv ==
  ASSUME NEW q \in Seq(Packets), NEW m \in Seq(Strings), NEW d \in 0..Len(q),
         NEW r \in Strings, NEW w \in Strings, Lined(q, m, d, r, w), m # <<>>
  PROVE  Lined(q, Tail(m), d, r \o Head(m), w)
<1>0. PICK s \in Strings : \E off, cut : Line(s, off, cut, q, m, d, r, w)
  BY DEF Lined
<1>1. PICK off, cut : Line(s, off, cut, q, m, d, r, w)
  BY <1>0
<1>2. /\ Laying(s, off, q) /\ Cutting(s, cut, m)
      /\ off[d + 1] <= cut[1] /\ r = Piece(s, off[d + 1], cut[1])
      /\ w = Piece(s, cut[Len(m) + 1], Len(s))
  BY <1>1 DEF Line
<1>3. Head(m) = Piece(s, cut[1], cut[2]) /\ cut[1] <= cut[2]
  BY <1>2, CutTail
<1>4. PICK cut2 : /\ Cutting(s, cut2, Tail(m)) /\ cut2[1] = cut[2]
                  /\ cut2[Len(Tail(m)) + 1] = cut[Len(m) + 1]
  BY <1>2, CutTail
<1> DEFINE a == off[d + 1]
<1> DEFINE b == cut[1]
<1> DEFINE c == cut[2]
<1>5. a \in Nat /\ b \in Nat /\ c \in Nat /\ a <= b /\ b <= c /\ c <= Len(s)
  <2>1. Len(s) \in Nat /\ Len(q) \in Nat /\ Len(m) \in Nat \ {0}
    BY LenProperties, EmptySeq DEF Strings
  <2>2. d + 1 \in 1..(Len(q) + 1) /\ 1 \in 1..(Len(m) + 1) /\ 2 \in 1..(Len(m) + 1)
    BY <2>1
  <2>3. a \in 0..Len(s) /\ b \in 0..Len(s) /\ c \in 0..Len(s)
    BY <1>2, <2>2 DEF Laying, Cutting
  <2> QED
    BY <1>2, <1>3, <2>1, <2>3
<1>6. r = Piece(s, a, b) /\ Head(m) = Piece(s, b, c)
  BY <1>2, <1>3
<1> HIDE DEF a, b, c
<1>7. Piece(s, a, b) \o Piece(s, b, c) = Piece(s, a, c) /\ a <= c
  BY <1>5, PieceConcat
<1>8. Line(s, off, cut2, q, Tail(m), d, r \o Head(m), w)
  BY <1>2, <1>4, <1>6, <1>7 DEF Line, a, b, c
<1> QED
  BY <1>8 DEF Lined

\* What waits to be decoded begins with the next packet; with none left it is nothing.
LEMMA LineAhead ==
  ASSUME NEW q \in Seq(Packets), NEW m \in Seq(Strings), NEW d \in 0..Len(q),
         NEW r \in Strings, NEW w \in Strings, Lined(q, m, d, r, w)
  PROVE  /\ d < Len(q) => Begins(r, q[d + 1])
         /\ d = Len(q) => Len(r) = 0
<1>0. PICK s \in Strings : \E off, cut : Line(s, off, cut, q, m, d, r, w)
  BY DEF Lined
<1>1. PICK off, cut : Line(s, off, cut, q, m, d, r, w)
  BY <1>0
<1> DEFINE a == off[d + 1]
<1> DEFINE b == cut[1]
<1>2. /\ Laying(s, off, q) /\ Cutting(s, cut, m) /\ a <= b /\ r = Piece(s, a, b)
  BY <1>1 DEF Line
<1>3. a \in Nat /\ b \in Nat /\ b <= Len(s) /\ Len(s) \in Nat /\ Len(q) \in Nat
  <2>1. Len(s) \in Nat /\ Len(q) \in Nat /\ Len(m) \in Nat
    BY LenProperties DEF Strings
  <2>2. d + 1 \in 1..(Len(q) + 1) /\ 1 \in 1..(Len(m) + 1)
    BY <2>1
  <2>3. a \in 0..Len(s) /\ b \in 0..Len(s)
    BY <1>2, <2>2 DEF Laying, Cutting
  <2> QED
    BY <2>1, <2>3
<1> HIDE DEF b
<1>4. Len(r) = b - a /\ \A k \in 1..(b - a) : r[k] = s[a + k]
  <2> HIDE DEF a
  <2> QED
    BY <1>2, <1>3, PieceType
<1>5. ASSUME d < Len(q) PROVE Begins(r, q[d + 1])
  <2> DEFINE e == Encode(q[d + 1])
  <2>1. At(s, a + 1, e)
    <3>1. d + 1 \in 1..Len(q)
      BY <1>3, <1>5
    <3> QED
      BY <1>2, <3>1 DEF Laying
  <2> HIDE DEF e, a
  <2>2. ASSUME NEW k \in 1..Len(r), k <= Len(e) PROVE r[k] = e[k]
    <3>1. k \in 1..Len(e) /\ k \in 1..(b - a) /\ (a + 1) + k - 1 = a + k
      BY <1>2, <1>3, <1>4, <2>2
    <3> QED
      BY <1>4, <2>1, <3>1 DEF At
  <2> QED
    BY <2>2 DEF Begins, e
<1>6. ASSUME d = Len(q) PROVE Len(r) = 0
  <2>1. a = Len(s)
    BY <1>2, <1>6 DEF Laying
  <2> QED
    BY <1>2, <1>3, <1>4, <2>1
<1> QED
  BY <1>5, <1>6

\* The packet in front leaves the line with exactly its bytes.
LEMMA LineDecode ==
  ASSUME NEW q \in Seq(Packets), NEW m \in Seq(Strings), NEW d \in 0..Len(q), d < Len(q),
         NEW r \in Strings, NEW w \in Strings, Lined(q, m, d, r, w),
         NEW n, n = Len(Encode(q[d + 1])), n <= Len(r)
  PROVE  Lined(q, m, d + 1, Suffix(r, n), w)
<1>0. PICK s \in Strings : \E off, cut : Line(s, off, cut, q, m, d, r, w)
  BY DEF Lined
<1>1. PICK off, cut : Line(s, off, cut, q, m, d, r, w)
  BY <1>0
<1> DEFINE a == off[d + 1]
<1> DEFINE b == cut[1]
<1>2. /\ Laying(s, off, q) /\ Cutting(s, cut, m) /\ a <= b /\ r = Piece(s, a, b)
      /\ w = Piece(s, cut[Len(m) + 1], Len(s))
  BY <1>1 DEF Line
<1>3. a \in Nat /\ b \in Nat /\ b <= Len(s) /\ Len(s) \in Nat /\ Len(q) \in Nat
  <2>1. Len(s) \in Nat /\ Len(q) \in Nat /\ Len(m) \in Nat
    BY LenProperties DEF Strings
  <2>2. d + 1 \in 1..(Len(q) + 1) /\ 1 \in 1..(Len(m) + 1)
    BY <2>1
  <2>3. a \in 0..Len(s) /\ b \in 0..Len(s)
    BY <1>2, <2>2 DEF Laying, Cutting
  <2> QED
    BY <2>1, <2>3
<1>4. d + 1 \in 1..Len(q) /\ n \in Nat
  <2>1. d + 1 \in 1..Len(q)
    BY <1>3
  <2>2. q[d + 1] \in Packets
    BY <2>1, ElementOfSeq
  <2> DEFINE p == q[d + 1]
  <2> HIDE DEF p
  <2>3. p \in Packets => Len(Encode(p)) \in Nat
    BY PacketsFit
  <2> QED
    BY <2>1, <2>2, <2>3 DEF p
<1>5. off[(d + 1) + 1] = a + n
  BY <1>2, <1>4 DEF Laying
<1> HIDE DEF a, b
<1>6. Len(r) = b - a
  BY <1>2, <1>3, PieceType
<1>7. n \in 0..(b - a) /\ a + n <= b
  BY <1>3, <1>4, <1>6
<1>8. Suffix(r, n) = Piece(s, a + n, b)
  BY <1>2, <1>3, <1>7, CutPiece
<1>9. Line(s, off, cut, q, m, d + 1, Suffix(r, n), w)
  BY <1>2, <1>5, <1>7, <1>8 DEF Line, b
<1> QED
  BY <1>9 DEF Lined

-----------------------------------------------------------------------------
(* PacketStream: the steps.                                                *)

\* Nothing taken from the front.
LEMMA EmptyCut ==
  ASSUME NEW w \in Strings
  PROVE  Prefix(w, 0) = <<>> /\ Suffix(w, 0) = w
<1>1. Len(w) \in Nat
  BY LenProperties DEF Strings
<1>2. SubSeq(w, 1, 0) = <<>>
  BY SubSeqEmpty
<1>3. SubSeq(w, 0 + 1, Len(w)) = w
  <2> DEFINE t == SubSeq(w, 1, Len(w))
  <2>1. \A i \in 1..Len(w) : w[i] \in CodecByte
    BY ElementOfSeq DEF Strings
  <2>2. /\ t \in Seq(CodecByte) /\ Len(t) = (IF 1 <= Len(w) THEN Len(w) - 1 + 1 ELSE 0)
        /\ \A i \in 1..(Len(w) - 1 + 1) : t[i] = w[1 + i - 1]
    <3>1. 1 \in Int /\ Len(w) \in Int
      BY <1>1
    <3> QED
      BY <2>1, <3>1, SubSeqProperties
  <2> HIDE DEF t
  <2>3. Len(t) = Len(w) /\ \A i \in 1..Len(w) : t[i] = w[i]
    <3>1. \A i \in 1..Len(w) : i \in 1..(Len(w) - 1 + 1) /\ 1 + i - 1 = i
      BY <1>1
    <3> QED
      BY <1>1, <2>2, <3>1
  <2>4. t = w
    BY <2>2, <2>3, SeqEqual DEF Strings
  <2>5. 0 + 1 = 1
    OBVIOUS
  <2> QED
    BY <2>4, <2>5 DEF t
<1> QED
  BY <1>2, <1>3 DEF Prefix, Suffix

LEMMA StreamInitInv == StreamInit => StreamInv
<1> SUFFICES ASSUME StreamInit PROVE StreamInv
  OBVIOUS
<1>1. BufferInv
  BY BufferInitInv DEF StreamInit
<1>2. Contents = <<>>
  <2>1. Contents \in Strings /\ Len(Contents) = 0
    BY <1>1, BufferType, BufferAssumption DEF StreamInit, BufferInit, ReadableBytes
  <2> QED
    BY <2>1, EmptySeq DEF Strings
<1>3. <<>> \o <<>> = <<>> /\ Len(<<>>) = 0 /\ <<>> \in Strings
  BY DEF Strings
<1>4. StreamTypeOK
  <2>1. <<Connected>> \in Seq(Strings) /\ <<>> \in Seq(Packets) /\ <<>> \in Seq(AnyPacket)
    BY <1>3 DEF Connected
  <2>2. 0 <= Room
    BY StreamAssumption
  <2> QED
    BY <1>3, <2>1, <2>2 DEF StreamInit, StreamTypeOK
<1>5. LineInv
  <2>1. Append(<<>>, Prefix(<<>>, 0)) = <<Connected>> /\ Suffix(<<>>, 0) = <<>>
    <3>1. Prefix(<<>>, 0) = <<>> /\ Suffix(<<>>, 0) = <<>>
      BY <1>3, EmptyCut
    <3>2. Append(<<>>, <<>>) = << <<>> >>
      OBVIOUS
    <3> QED
      BY <3>1, <3>2 DEF Connected
  <2>2. Lined(<<>>, Append(<<>>, Prefix(<<>>, 0)), 0, <<>>, Suffix(<<>>, 0))
    <3>1. /\ <<>> \in Seq(Packets) /\ <<>> \in Seq(Strings) /\ 0 \in 0..Len(<<>>)
          /\ <<>> \in Strings
      BY <1>3
    <3> QED
      BY <3>1, LineStart, LineRead
  <2>3. Lined(<<>>, <<Connected>>, 0, <<>>, <<>>)
    BY <2>1, <2>2
  <2> QED
    BY <1>2, <1>3, <2>3 DEF StreamInit, LineInv
<1> QED
  BY <1>1, <1>4, <1>5 DEF StreamInv

\* The invariant, as the steps use it.
LEMMA LineFacts ==
  ASSUME StreamInv
  PROVE  /\ BufferInv /\ StreamTypeOK /\ Contents \in Strings /\ kernel \in Strings
         /\ kernel \o Contents \in Strings
         /\ mailbox \in Seq(Strings) /\ sent \in Seq(Packets) /\ recvBuffer \in Strings
         /\ lost \in Seq(Packets) /\ again \in {"never", "due", "told"}
         /\ delivered \in Seq(AnyPacket) /\ Len(delivered) \in Nat /\ Len(sent) \in Nat
         /\ ~broken => /\ link = "up" /\ Len(delivered) \in 0..Len(sent)
                       /\ Lined(sent, mailbox, Len(delivered), recvBuffer, kernel \o Contents)
<1>1. BufferInv /\ StreamTypeOK /\ LineInv
  BY DEF StreamInv
<1>2. /\ kernel \in Strings /\ mailbox \in Seq(Strings) /\ sent \in Seq(Packets)
      /\ recvBuffer \in Strings /\ delivered \in Seq(AnyPacket)
      /\ lost \in Seq(Packets) /\ again \in {"never", "due", "told"}
  BY <1>1 DEF StreamTypeOK
<1>3. Contents \in Strings
  BY <1>1, BufferType
<1>4. kernel \o Contents \in Strings
  BY <1>2, <1>3, Concat
<1>5. Len(delivered) \in Nat /\ Len(sent) \in Nat
  BY <1>2, LenProperties
<1>6. ~broken => /\ link = "up" /\ Len(delivered) \in 0..Len(sent)
                 /\ Lined(sent, mailbox, Len(delivered), recvBuffer, kernel \o Contents)
  BY <1>1, <1>5 DEF LineInv
<1> QED
  BY <1>1, <1>2, <1>3, <1>4, <1>5, <1>6

\* What is left of the invariant once the parts are typed.
LEMMA Assemble ==
  ASSUME BufferInv', StreamTypeOK',
         ~broken' => /\ link' = "up" /\ Len(delivered') <= Len(sent')
                     /\ Lined(sent', mailbox', Len(delivered'), recvBuffer', kernel' \o Contents')
  PROVE  StreamInv'
BY DEF StreamInv, LineInv

\* One lemma for each action: it keeps the invariant.
LEMMA StepSend ==
  ASSUME StreamInv, NEW p \in Packets, SendPacket(p)
  PROVE  StreamInv'
<1> DEFINE w == kernel \o Contents
<1> USE LineFacts
<1>1. /\ sent' = Append(sent, p)
      /\ UNCHANGED <<link, mailbox, again, lost, pc, recvBuffer, delivered, broken>>
  BY DEF SendPacket, gatewayVars
<1>2. /\ BufferInv' /\ kernel' \in Strings /\ Len(kernel') <= Room
      /\ kernel' \o Contents' = w \o Encode(p)
  BY SendBytes
<1>3. sent' \in Seq(Packets) /\ Len(sent') = Len(sent) + 1
  BY <1>1, AppendProperties
<1>4. StreamTypeOK'
  BY <1>1, <1>2, <1>3 DEF StreamTypeOK
<1>5. ASSUME ~broken
      PROVE  Lined(sent', mailbox', Len(delivered'), recvBuffer', kernel' \o Contents')
  <2>1. Lined(sent, mailbox, Len(delivered), recvBuffer, w)
    BY <1>5
  <2> DEFINE d == Len(delivered)
  <2>2. d \in 0..Len(sent) /\ w \in Strings
    BY <1>5
  <2> HIDE DEF d, w
  <2>3. Lined(Append(sent, p), mailbox, d, recvBuffer, w \o Encode(p))
    BY <2>1, <2>2, LineSend DEF d
  <2> QED
    BY <1>1, <1>2, <2>3 DEF d
<1> QED
  BY <1>1, <1>2, <1>3, <1>4, <1>5, Assemble

LEMMA StepWrite ==
  ASSUME StreamInv, HandleWrite
  PROVE  StreamInv'
<1>1. UNCHANGED <<link, mailbox, again, pc, recvBuffer, delivered, broken, sent, lost>>
  BY DEF HandleWrite, gatewayVars, sentVars
<1>2. /\ BufferInv' /\ kernel' \in Strings /\ Len(kernel') <= Room
      /\ kernel' \o Contents' = kernel \o Contents
  BY LineFacts, WriteBytes
<1>3. StreamTypeOK'
  BY <1>1, <1>2, LineFacts DEF StreamTypeOK
<1>4. ~broken' => /\ link' = "up" /\ Len(delivered') <= Len(sent')
                  /\ Lined(sent', mailbox', Len(delivered'), recvBuffer', kernel' \o Contents')
  <2>1. ~broken => /\ link = "up" /\ Len(delivered) <= Len(sent)
                   /\ Lined(sent, mailbox, Len(delivered), recvBuffer, kernel \o Contents)
    BY LineFacts
  <2> QED
    BY <1>1, <1>2, <2>1
<1> QED
  BY <1>2, <1>3, <1>4, Assemble

LEMMA StepRead ==
  ASSUME StreamInv, HandleRead
  PROVE  StreamInv'
<1> DEFINE w == kernel \o Contents
<1>1. UNCHANGED <<bufferVars, link, again, pc, recvBuffer, delivered, broken, sent, lost>>
  BY DEF HandleRead, gatewayVars, sentVars
<1>2. PICK n \in 1..Len(kernel) :
           /\ mailbox' = Append(mailbox, Prefix(w, n))
           /\ kernel' \o Contents = Suffix(w, n)
           /\ kernel' \in Strings /\ Len(kernel') <= Room
           /\ Prefix(w, n) \in Strings
  BY LineFacts, ReadBytes
<1>3. BufferInv' /\ Contents' = Contents
  BY <1>1, LineFacts, BufferSame
<1>4. mailbox' \in Seq(Strings)
  BY <1>2, LineFacts, AppendProperties
<1>5. StreamTypeOK'
  BY <1>1, <1>2, <1>4, LineFacts DEF StreamTypeOK
<1>6. w \in Strings /\ n \in 0..Len(w)
  <2>1. w \in Strings /\ Len(w) = Len(kernel) + Len(Contents)
    BY LineFacts, Concat
  <2>2. Len(kernel) \in Nat /\ Len(Contents) \in Nat
    BY LineFacts, LenProperties DEF Strings
  <2> QED
    BY <2>1, <2>2
<1>7. ASSUME ~broken
      PROVE  Lined(sent', mailbox', Len(delivered'), recvBuffer', kernel' \o Contents')
  <2> DEFINE d == Len(delivered)
  <2>1. Lined(sent, mailbox, d, recvBuffer, w) /\ d \in 0..Len(sent)
    BY <1>7, LineFacts
  <2> HIDE DEF d, w
  <2>2. Lined(sent, Append(mailbox, Prefix(w, n)), d, recvBuffer, Suffix(w, n))
    BY <1>6, <2>1, LineFacts, LineRead
  <2> QED
    BY <1>1, <1>2, <1>3, <2>2 DEF d
<1> QED
  BY <1>1, <1>3, <1>5, <1>7, LineFacts, Assemble

LEMMA StepRemove ==
  ASSUME StreamInv, RunRemove
  PROVE  StreamInv' /\ broken
<1>1. broken /\ broken' = broken
  BY LineFacts DEF RunRemove, gatewayVars
<1>2. BufferInv'
  BY LineFacts, BufferSame DEF RunRemove
<1>3. StreamTypeOK'
  <2>1. /\ kernel' = <<>> /\ link' = "down"
        /\ UNCHANGED <<mailbox, again, pc, recvBuffer, delivered, broken, sent, lost>>
    BY DEF RunRemove, gatewayVars, sentVars
  <2>2. <<>> \in Strings /\ Len(<<>>) = 0
    BY DEF Strings
  <2> QED
    BY <2>1, <2>2, LineFacts, StreamAssumption DEF StreamTypeOK
<1> QED
  BY <1>1, <1>2, <1>3, LineFacts, Assemble

LEMMA StepRecv ==
  ASSUME StreamInv, NetworkRecv
  PROVE  StreamInv'
<1> DEFINE w == kernel \o Contents
<1> DEFINE d == Len(delivered)
<1>1. /\ mailbox # <<>> /\ pc' = "decode"
      /\ recvBuffer' = recvBuffer \o Head(mailbox) /\ mailbox' = Tail(mailbox)
      /\ UNCHANGED <<bufferVars, kernel, link, again, sent, lost, delivered, broken>>
  BY DEF NetworkRecv, sentVars
<1>2. BufferInv' /\ Contents' = Contents
  BY <1>1, LineFacts, BufferSame
<1>3. mailbox' \in Seq(Strings) /\ Head(mailbox) \in Strings
  BY <1>1, LineFacts, HeadTailProperties
<1>4. recvBuffer' \in Strings
  BY <1>1, <1>3, LineFacts, Concat
<1>5. StreamTypeOK'
  BY <1>1, <1>3, <1>4, LineFacts DEF StreamTypeOK
<1>6. ASSUME ~broken
      PROVE  Lined(sent', mailbox', Len(delivered'), recvBuffer', kernel' \o Contents')
  <2>1. Lined(sent, mailbox, d, recvBuffer, w) /\ d \in 0..Len(sent) /\ w \in Strings
    BY <1>6, LineFacts
  <2> HIDE DEF d, w
  <2>2. Lined(sent, Tail(mailbox), d, recvBuffer \o Head(mailbox), w)
    BY <1>1, <2>1, LineFacts, LineRecv
  <2> QED
    BY <1>1, <1>2, <2>2 DEF d, w
<1> QED
  BY <1>1, <1>2, <1>5, <1>6, LineFacts, Assemble

LEMMA StepRefuse ==
  ASSUME StreamInv, NEW p \in Packets, RefusePacket(p)
  PROVE  StreamInv'
<1>1. /\ lost' = Append(lost, p)
      /\ UNCHANGED <<bufferVars, kernel, link, mailbox, again, pc, recvBuffer, delivered, broken, sent>>
  BY DEF RefusePacket, gatewayVars
<1>2. BufferInv' /\ Contents' = Contents
  BY <1>1, LineFacts, BufferSame
<1>3. lost' \in Seq(Packets)
  BY <1>1, LineFacts, AppendProperties
<1>4. StreamTypeOK'
  BY <1>1, <1>3, LineFacts DEF StreamTypeOK
<1> QED
  BY <1>1, <1>2, <1>4, LineFacts, Assemble

\* A Connected message is a piece of no bytes in the line.
LEMMA StepAgain ==
  ASSUME StreamInv, ConnectedAgain
  PROVE  StreamInv'
<1> DEFINE w == kernel \o Contents
<1> DEFINE d == Len(delivered)
<1>1. /\ again' = "told" /\ mailbox' = Append(mailbox, <<>>)
      /\ UNCHANGED <<bufferVars, kernel, link, pc, recvBuffer, delivered, broken, sent, lost>>
  BY DEF ConnectedAgain, Connected, gatewayVars, sentVars
<1>2. BufferInv' /\ Contents' = Contents
  BY <1>1, LineFacts, BufferSame
<1>3. <<>> \in Strings
  BY DEF Strings
<1>4. mailbox' \in Seq(Strings)
  BY <1>1, <1>3, LineFacts, AppendProperties
<1>5. StreamTypeOK'
  BY <1>1, <1>4, LineFacts DEF StreamTypeOK
<1>6. ASSUME ~broken
      PROVE  Lined(sent', mailbox', Len(delivered'), recvBuffer', kernel' \o Contents')
  <2>1. Lined(sent, mailbox, d, recvBuffer, w) /\ d \in 0..Len(sent) /\ w \in Strings
    BY <1>6, LineFacts
  <2> HIDE DEF d, w
  <2>2. 0 \in 0..Len(w)
    BY <2>1, LenProperties DEF Strings
  <2>3. Lined(sent, Append(mailbox, Prefix(w, 0)), d, recvBuffer, Suffix(w, 0))
    BY <2>1, <2>2, LineFacts, LineRead
  <2>4. Prefix(w, 0) = <<>> /\ Suffix(w, 0) = w
    BY <2>1, EmptyCut
  <2> QED
    BY <1>1, <1>2, <2>3, <2>4 DEF d, w
<1> QED
  BY <1>1, <1>2, <1>5, <1>6, LineFacts, Assemble

\* Connected takes nothing out of the line when no part of a packet waits.
LEMMA StepConnected ==
  ASSUME StreamInv, GatewayConnected
  PROVE  StreamInv'
<1> DEFINE w == kernel \o Contents
<1> DEFINE d == Len(delivered)
<1>1. /\ mailbox # <<>> /\ Head(mailbox) = <<>>
      /\ recvBuffer' = <<>> /\ mailbox' = Tail(mailbox)
      /\ UNCHANGED <<bufferVars, kernel, link, again, sent, lost, pc, delivered>>
  BY DEF GatewayConnected, Connected, sentVars
<1>2. broken' = (broken \/ recvBuffer # <<>>) /\ broken' \in BOOLEAN
  BY DEF GatewayConnected
<1>3. BufferInv' /\ Contents' = Contents
  BY <1>1, LineFacts, BufferSame
<1>4. mailbox' \in Seq(Strings) /\ <<>> \in Strings
  BY <1>1, LineFacts, HeadTailProperties DEF Strings
<1>5. StreamTypeOK'
  BY <1>1, <1>2, <1>4, LineFacts DEF StreamTypeOK
<1>6. ASSUME ~broken'
      PROVE  /\ ~broken
             /\ Lined(sent', mailbox', Len(delivered'), recvBuffer', kernel' \o Contents')
  <2>1. ~broken /\ recvBuffer = <<>>
    BY <1>2, <1>6
  <2>2. Lined(sent, mailbox, d, recvBuffer, w) /\ d \in 0..Len(sent) /\ w \in Strings
    BY <2>1, LineFacts
  <2> HIDE DEF d, w
  <2>3. Lined(sent, Tail(mailbox), d, recvBuffer \o Head(mailbox), w)
    BY <1>1, <2>2, LineFacts, LineRecv
  <2>4. recvBuffer \o Head(mailbox) = <<>>
    BY <1>1, <2>1
  <2> QED
    BY <1>1, <1>3, <2>1, <2>3, <2>4 DEF d, w
<1> QED
  BY <1>1, <1>3, <1>5, <1>6, LineFacts, Assemble

\* What waits in front of the gateway is the beginning of the packet that is due.
LEMMA DueWaits ==
  ASSUME StreamInv, ~broken, recvBuffer # <<>>
  PROVE  Len(delivered) < Len(sent)
<1> DEFINE d == Len(delivered)
<1> DEFINE w == kernel \o Contents
<1>1. Lined(sent, mailbox, d, recvBuffer, w) /\ d \in 0..Len(sent) /\ w \in Strings
  BY LineFacts
<1> HIDE DEF w
<1>2. d = Len(sent) => Len(recvBuffer) = 0
  <2> HIDE DEF d
  <2> QED
    BY <1>1, LineFacts, LineAhead
<1>3. Len(recvBuffer) # 0
  BY LineFacts, EmptySeq DEF Strings
<1> QED
  BY <1>1, <1>2, <1>3, LineFacts

\* The packet that is due, and what Decode says of the bytes in front.
LEMMA DueNext ==
  ASSUME StreamInv, ~broken, Decode(recvBuffer) # More
  PROVE  /\ Len(delivered) < Len(sent) /\ sent[Len(delivered) + 1] \in Packets
         /\ Begins(recvBuffer, sent[Len(delivered) + 1])
<1> DEFINE d == Len(delivered)
<1> DEFINE w == kernel \o Contents
<1>1. Lined(sent, mailbox, d, recvBuffer, w) /\ d \in 0..Len(sent) /\ w \in Strings
  BY LineFacts
<1> HIDE DEF w
<1>2. d < Len(sent) => Begins(recvBuffer, sent[d + 1])
  <2> HIDE DEF d
  <2> QED
    BY <1>1, LineFacts, LineAhead
<1>3. d = Len(sent) => Len(recvBuffer) = 0
  <2> HIDE DEF d
  <2> QED
    BY <1>1, LineFacts, LineAhead
<1>4. ~(Len(recvBuffer) = 0)
  BY DEF Decode
<1>5. d < Len(sent)
  BY <1>1, <1>3, <1>4, LineFacts
<1>6. sent[d + 1] \in Packets
  <2>1. d + 1 \in 1..Len(sent)
    BY <1>1, <1>5, LineFacts
  <2> QED
    BY <2>1, LineFacts, ElementOfSeq
<1> QED
  BY <1>2, <1>5, <1>6

\* A packet that fits its format is decoded as it was sent.
LEMMA DueIntact ==
  ASSUME StreamInv, ~broken, Decode(recvBuffer) # More, WellFormed(sent[Len(delivered) + 1])
  PROVE  /\ Decode(recvBuffer).status = "packet"
         /\ Decode(recvBuffer).packet = sent[Len(delivered) + 1]
<1> DEFINE p == sent[Len(delivered) + 1]
<1>1. p \in Packets /\ Begins(recvBuffer, p) /\ WellFormed(p)
  BY DueNext
<1> HIDE DEF p
<1>2. /\ p \in AnyPacket /\ p.sessionId < Limit32 /\ Len(Body(p)) < Limit32
      /\ Len(Encode(p)) = 4 + Len(Body(p)) /\ Len(Body(p)) \in Nat
  BY <1>1, PacketsFit
<1>3. Fitting(p)
  BY <1>1, <1>2 DEF Fitting, WellFormed
<1>4. Len(Body(p)) <= MaxBody
  BY <1>1, <1>2, CodecAssumption DEF WellFormed
<1>5. Decode(recvBuffer) = IF Len(recvBuffer) < Len(Encode(p)) THEN More
                           ELSE [status |-> "packet", packet |-> p, consumed |-> Len(Encode(p))]
  BY <1>1, <1>2, <1>3, <1>4, LineFacts, DecodeWellFormed
<1> QED
  BY <1>5 DEF p

\* Append extends a sequence by its last element.
LEMMA AppendExtended ==
  ASSUME NEW S, NEW q \in Seq(S), NEW x \in S
  PROVE  /\ Append(q, x) \in Seq(S) /\ Len(Append(q, x)) = Len(q) + 1
         /\ SubSeq(Append(q, x), 1, Len(q)) = q /\ Append(q, x)[Len(q) + 1] = x
<1> DEFINE r == Append(q, x)
<1> DEFINE n == Len(q)
<1>1. /\ r \in Seq(S) /\ Len(r) = n + 1 /\ r[n + 1] = x /\ \A i \in 1..n : r[i] = q[i]
      /\ n \in Nat
  BY AppendProperties, LenProperties
<1> HIDE DEF r
<1>2. \A i \in 1..n : r[i] \in S
  BY <1>1, ElementOfSeq
<1> HIDE DEF n
<1> DEFINE t == SubSeq(r, 1, n)
<1>3. /\ t \in Seq(S) /\ Len(t) = (IF 1 <= n THEN n - 1 + 1 ELSE 0)
      /\ \A i \in 1..(n - 1 + 1) : t[i] = r[1 + i - 1]
  <2>1. 1 \in Int /\ n \in Int
    BY <1>1
  <2> QED
    BY <1>2, <2>1, SubSeqProperties
<1> HIDE DEF t
<1>4. Len(t) = n /\ \A i \in 1..n : t[i] = q[i]
  <2>1. \A i \in 1..n : i \in 1..(n - 1 + 1) /\ 1 + i - 1 = i
    BY <1>1
  <2> QED
    BY <1>1, <1>3, <2>1
<1>5. t = q
  BY <1>3, <1>4, SeqEqual DEF n
<1> QED
  BY <1>1, <1>5 DEF t, r, n

\* Decode takes as many bytes as the packet that is due has.
LEMMA StepDecodePacket ==
  ASSUME StreamInv, DecodePacket
  PROVE  /\ StreamInv'
         /\ Len(delivered') = Len(delivered) + 1
         /\ SubSeq(delivered', 1, Len(delivered)) = delivered
         /\ delivered'[Len(delivered')] = Decode(recvBuffer).packet
<1> DEFINE w == kernel \o Contents
<1> DEFINE o == Decode(recvBuffer)
<1>1. /\ o.status = "packet" /\ delivered' = Append(delivered, o.packet)
      /\ recvBuffer' = Suffix(recvBuffer, o.consumed) /\ pc' = "decode"
      /\ UNCHANGED <<bufferVars, kernel, link, mailbox, again, sent, lost, broken>>
  BY DEF DecodePacket, Unread, AfterDecode, sentVars
<1>2. BufferInv' /\ Contents' = Contents
  BY <1>1, LineFacts, BufferSame
<1>3. o.packet \in AnyPacket /\ o.consumed \in 1..Len(recvBuffer)
  <2>1. o \in Outcome(recvBuffer)
    BY LineFacts, DecodeType
  <2> HIDE DEF o
  <2> QED
    BY <1>1, <2>1 DEF Outcome, More, Error
<1>4. recvBuffer' \in Strings
  <2> DEFINE n == o.consumed
  <2>1. n \in 0..Len(recvBuffer)
    BY <1>3
  <2> HIDE DEF n
  <2>2. Suffix(recvBuffer, n) \in Strings
    BY <2>1, LineFacts, Cut
  <2> QED
    BY <1>1, <2>2 DEF n
<1>5. /\ delivered' \in Seq(AnyPacket) /\ Len(delivered') = Len(delivered) + 1
      /\ delivered'[Len(delivered) + 1] = o.packet
      /\ \A i \in 1..Len(delivered) : delivered'[i] = delivered[i]
  <2> DEFINE x == o.packet
  <2>1. x \in AnyPacket
    BY <1>3
  <2> HIDE DEF x
  <2>2. /\ Append(delivered, x) \in Seq(AnyPacket) /\ Len(Append(delivered, x)) = Len(delivered) + 1
        /\ Append(delivered, x)[Len(delivered) + 1] = x
        /\ \A i \in 1..Len(delivered) : Append(delivered, x)[i] = delivered[i]
    BY <2>1, LineFacts, AppendProperties
  <2> QED
    BY <1>1, <2>2 DEF x
<1>6. StreamTypeOK'
  BY <1>1, <1>4, <1>5, LineFacts DEF StreamTypeOK
<1>7. ASSUME ~broken
      PROVE  /\ Len(delivered) < Len(sent)
             /\ Lined(sent', mailbox', Len(delivered'), recvBuffer', kernel' \o Contents')
  <2> DEFINE d == Len(delivered)
  <2> DEFINE p == sent[d + 1]
  <2> DEFINE n == o.consumed
  <2>0. Decode(recvBuffer) # More
    BY <1>1 DEF More
  <2>1. d < Len(sent) /\ p \in Packets /\ Begins(recvBuffer, p)
    BY <1>7, <2>0, DueNext
  <2>2. n = Len(Encode(p)) /\ n <= Len(recvBuffer)
    <3> HIDE DEF p
    <3>1. p \in AnyPacket /\ Len(Body(p)) < Limit32
      BY <2>1, PacketsFit
    <3> QED
      BY <1>1, <2>1, <3>1, LineFacts, DecodeConsumes
  <2>3. Lined(sent, mailbox, d, recvBuffer, w) /\ d \in 0..Len(sent) /\ w \in Strings
    BY <1>7, LineFacts
  <2>4. n = Len(Encode(sent[d + 1]))
    BY <2>2
  <2> HIDE DEF d, w, n, p
  <2>5. Lined(sent, mailbox, d + 1, Suffix(recvBuffer, n), w)
    BY <2>1, <2>2, <2>3, <2>4, LineFacts, LineDecode
  <2> QED
    BY <1>1, <1>2, <1>5, <2>1, <2>5 DEF d, w, n
<1>8. StreamInv'
  BY <1>1, <1>2, <1>5, <1>6, <1>7, LineFacts, Assemble
<1>9. SubSeq(delivered', 1, Len(delivered)) = delivered
  <2> DEFINE x == o.packet
  <2>1. delivered \in Seq(AnyPacket) /\ x \in AnyPacket
    BY <1>3, LineFacts
  <2> HIDE DEF x
  <2>2. SubSeq(Append(delivered, x), 1, Len(delivered)) = delivered
    BY <2>1, AppendExtended
  <2> QED
    BY <1>1, <2>2 DEF x
<1> QED
  BY <1>5, <1>8, <1>9

LEMMA StepDecodeMore ==
  ASSUME StreamInv, DecodeMore
  PROVE  StreamInv'
<1>1. /\ pc' = "idle"
      /\ UNCHANGED <<bufferVars, kernel, link, mailbox, again, sent, lost, recvBuffer, delivered, broken>>
  BY DEF DecodeMore, sentVars
<1>2. BufferInv' /\ Contents' = Contents
  BY <1>1, LineFacts, BufferSame
<1>3. StreamTypeOK'
  BY <1>1, LineFacts DEF StreamTypeOK
<1> QED
  BY <1>1, <1>2, <1>3, LineFacts, Assemble

LEMMA StepDecodeError ==
  ASSUME StreamInv, DecodeError
  PROVE  StreamInv'
<1>1. /\ pc' = "idle" /\ recvBuffer' = <<>> /\ broken'
      /\ link' = IF link = "up" THEN "removing" ELSE link
      /\ UNCHANGED <<bufferVars, kernel, mailbox, again, sent, lost, delivered>> /\ broken' = TRUE
  BY DEF DecodeError, sentVars
<1>2. BufferInv'
  BY <1>1, LineFacts, BufferSame
<1>3. <<>> \in Strings
  BY DEF Strings
<1>4. StreamTypeOK'
  BY <1>1, <1>3, LineFacts DEF StreamTypeOK
<1> QED
  BY <1>1, <1>2, <1>4, Assemble

-----------------------------------------------------------------------------
(* PacketStream: the channel and the queue.                                *)

channelVars == <<sent, delivered, broken, lost, again # "never">>

\* The steps of the channel.  To send a packet is to put it in.
LEMMA SendIsPut ==
  ASSUME StreamInv, NEW p \in Packets, SendPacket(p)
  PROVE  Channel!Put
<1>1. sent' = Append(sent, p) /\ Carried(p) /\ UNCHANGED <<delivered, broken, lost, again>>
  BY DEF SendPacket, gatewayVars
<1>2. sent \in Seq(Packets)
  BY LineFacts
<1>3. /\ Len(Append(sent, p)) = Len(sent) + 1 /\ SubSeq(Append(sent, p), 1, Len(sent)) = sent
      /\ Append(sent, p)[Len(sent) + 1] = p
  BY <1>2, AppendExtended
<1>4. Carried(sent'[Len(sent')])
  BY <1>1, <1>3
<1> QED
  BY <1>1, <1>3, <1>4 DEF Channel!Put, Channel!Extends

\* A refused packet is lost.
LEMMA RefuseIsLose ==
  ASSUME StreamInv, NEW p \in Packets, RefusePacket(p)
  PROVE  Channel!Lose
<1>1. lost' = Append(lost, p) /\ ~Carried(p) /\ UNCHANGED <<sent, delivered, broken, again>>
  BY DEF RefusePacket, gatewayVars
<1>2. lost \in Seq(Packets)
  BY LineFacts
<1>3. /\ Len(Append(lost, p)) = Len(lost) + 1 /\ SubSeq(Append(lost, p), 1, Len(lost)) = lost
      /\ Append(lost, p)[Len(lost) + 1] = p
  BY <1>2, AppendExtended
<1>4. ~Carried(lost'[Len(lost')])
  BY <1>1, <1>3
<1> QED
  BY <1>1, <1>3, <1>4 DEF Channel!Lose, Channel!Extends

\* To decode one is to get it, as it was sent if it fits its format.
LEMMA DecodePacketIsGet ==
  ASSUME StreamInv, DecodePacket
  PROVE  Channel!Get \/ Channel!Noise
<1>1. UNCHANGED <<sent, lost, again, broken>> /\ Decode(recvBuffer).status = "packet"
  BY DEF DecodePacket, sentVars
<1>2. /\ Len(delivered') = Len(delivered) + 1 /\ SubSeq(delivered', 1, Len(delivered)) = delivered
      /\ delivered'[Len(delivered')] = Decode(recvBuffer).packet
  BY StepDecodePacket
<1>3. Decode(recvBuffer) # More
  BY <1>1 DEF More
<1>4. CASE broken
  BY <1>1, <1>2, <1>4 DEF Channel!Noise, Channel!Extends
<1>5. CASE ~broken
  <2>1. Len(delivered) < Len(sent)
    BY <1>3, <1>5, DueNext
  <2>2. WellFormed(sent[Len(delivered) + 1]) => delivered'[Len(delivered')] = sent[Len(delivered) + 1]
    BY <1>2, <1>3, <1>5, DueIntact
  <2> QED
    BY <1>1, <1>2, <1>5, <2>1, <2>2 DEF Channel!Get, Channel!Extends, Channel!Due
<1> QED
  BY <1>4, <1>5

\* An error can only be the fault of the packet that is due.
LEMMA DecodeErrorIsBreak ==
  ASSUME StreamInv, DecodeError
  PROVE  Channel!Break \/ UNCHANGED channelVars
<1>1. UNCHANGED <<sent, delivered, lost, again>> /\ broken' = TRUE /\ Decode(recvBuffer) = Error
  BY DEF DecodeError, sentVars
<1>2. Decode(recvBuffer) # More /\ Decode(recvBuffer).status # "packet"
  BY <1>1 DEF More, Error
<1>3. CASE broken
  <2>1. broken = TRUE
    BY <1>3, LineFacts DEF StreamTypeOK
  <2> QED
    BY <1>1, <2>1 DEF channelVars
<1>4. CASE ~broken
  <2>1. Len(delivered) < Len(sent)
    BY <1>2, <1>4, DueNext
  <2>2. ~WellFormed(sent[Len(delivered) + 1])
    BY <1>2, <1>4, DueIntact
  <2> QED
    BY <1>1, <1>4, <2>1, <2>2 DEF Channel!Break, Channel!Due
<1> QED
  BY <1>3, <1>4

\* The first Connected drops nothing; only a second one may.
LEMMA ConnectedIsBreak ==
  ASSUME StreamInv, ConnectedFirst, GatewayConnected
  PROVE  Channel!Break \/ UNCHANGED channelVars
<1>1. /\ mailbox # <<>> /\ Head(mailbox) = Connected
      /\ UNCHANGED <<sent, delivered, lost, again>> /\ broken' = (broken \/ recvBuffer # <<>>)
  BY DEF GatewayConnected, sentVars
<1>2. CASE broken \/ recvBuffer = <<>>
  <2>1. broken' = broken
    <3>1. broken \in BOOLEAN
      BY LineFacts DEF StreamTypeOK
    <3> QED
      BY <1>1, <1>2, <3>1
  <2> QED
    BY <1>1, <2>1 DEF channelVars
<1>3. CASE ~broken /\ recvBuffer # <<>>
  <2>1. 1 \in 1..Len(mailbox) /\ mailbox[1] = Connected
    BY <1>1, LineFacts, HeadTailProperties, EmptySeq, LenProperties
  <2>2. again = "told"
    BY <1>3, <2>1 DEF ConnectedFirst
  <2>3. Len(delivered) < Len(sent)
    BY <1>3, DueWaits
  <2> QED
    BY <1>1, <1>3, <2>2, <2>3 DEF Channel!Break
<1> QED
  BY <1>2, <1>3

\* A message leaves the mailbox at its front, or joins it at its end and is not empty.
LEMMA FirstRecv ==
  ASSUME StreamInv, ConnectedFirst, mailbox # <<>>, mailbox' = Tail(mailbox), again' = again,
         Head(mailbox) # Connected \/ recvBuffer' = <<>>
  PROVE  ConnectedFirst'
<1>1. /\ mailbox \in Seq(Strings) /\ Len(mailbox) \in Nat \ {0} /\ mailbox[1] = Head(mailbox)
      /\ Len(Tail(mailbox)) = Len(mailbox) - 1
      /\ \A i \in 1..Len(Tail(mailbox)) : Tail(mailbox)[i] = mailbox[i + 1]
  BY LineFacts, HeadTailProperties, EmptySeq, LenProperties
<1>2. ASSUME again # "told", NEW i \in 1..Len(Tail(mailbox)), Tail(mailbox)[i] = Connected
      PROVE  FALSE
  <2>1. i + 1 \in 1..Len(mailbox) /\ i + 1 # 1 /\ mailbox[i + 1] = Connected
    BY <1>1, <1>2
  <2> QED
    BY <1>2, <2>1 DEF ConnectedFirst
<1> QED
  BY <1>2 DEF ConnectedFirst, Connected

LEMMA FirstRead ==
  ASSUME StreamInv, ConnectedFirst, HandleRead
  PROVE  ConnectedFirst'
<1> DEFINE n == Least(RecvSize, Len(kernel))
<1> DEFINE b == Prefix(kernel, n)
<1>1. mailbox' = Append(mailbox, b) /\ again' = again /\ recvBuffer' = recvBuffer
  BY DEF HandleRead, gatewayVars
<1>2. b \in Strings /\ b # Connected
  <2>1. kernel \in Strings /\ kernel # <<>> /\ Len(kernel) \in Nat /\ Len(kernel) # 0
    BY LineFacts, EmptySeq, LenProperties DEF HandleRead, Strings
  <2>2. n \in 1..Len(kernel)
    BY <2>1, StreamAssumption DEF Least
  <2> HIDE DEF n
  <2>3. Prefix(kernel, n) \in Strings /\ Len(Prefix(kernel, n)) = n
    BY <2>1, <2>2, Cut
  <2> QED
    BY <2>2, <2>3 DEF Connected
<1> HIDE DEF b
<1>3. /\ mailbox \in Seq(Strings) /\ Len(mailbox) \in Nat
      /\ Len(Append(mailbox, b)) = Len(mailbox) + 1 /\ Append(mailbox, b)[Len(mailbox) + 1] = b
      /\ \A i \in 1..Len(mailbox) : Append(mailbox, b)[i] = mailbox[i]
  BY <1>2, LineFacts, AppendProperties, LenProperties
<1>4. ASSUME again # "told", NEW i \in 1..Len(Append(mailbox, b)), Append(mailbox, b)[i] = Connected
      PROVE  i = 1 /\ recvBuffer = <<>>
  <2>1. i # Len(mailbox) + 1
    BY <1>2, <1>3, <1>4
  <2>2. i \in 1..Len(mailbox)
    BY <1>3, <2>1
  <2> QED
    BY <1>3, <1>4, <2>2 DEF ConnectedFirst
<1> QED
  BY <1>1, <1>4 DEF ConnectedFirst, Connected

\* A packet was decoded: the buffer was not empty, and so Connected had been handled.
LEMMA FirstDecode ==
  ASSUME StreamInv, ConnectedFirst, DecodePacket
  PROVE  ConnectedFirst'
<1>1. UNCHANGED <<mailbox, again>> /\ Decode(recvBuffer) # More
  BY DEF DecodePacket, sentVars, More
<1>2. recvBuffer # <<>>
  BY <1>1 DEF Decode
<1> QED
  BY <1>1, <1>2 DEF ConnectedFirst, Connected

\* Every step keeps the invariant and is a step of the channel, or none.
LEMMA StreamStep ==
  ASSUME StreamInv, ConnectedFirst, [StreamNext]_streamVars
  PROVE  StreamInv' /\ ConnectedFirst' /\ [Channel!Next]_channelVars
<1> DEFINE Same == UNCHANGED <<mailbox, again, recvBuffer>>
<1>0. Same => ConnectedFirst'
  BY DEF ConnectedFirst, Connected
<1>1. ASSUME NEW p \in Packets, SendPacket(p)
      PROVE  StreamInv' /\ ConnectedFirst' /\ [Channel!Next]_channelVars
  <2>1. Same
    BY <1>1 DEF SendPacket, gatewayVars
  <2> QED
    BY <1>0, <1>1, <2>1, StepSend, SendIsPut DEF Channel!Next
<1>2. ASSUME NEW p \in Packets, RefusePacket(p)
      PROVE  StreamInv' /\ ConnectedFirst' /\ [Channel!Next]_channelVars
  <2>1. Same
    BY <1>2 DEF RefusePacket, gatewayVars
  <2> QED
    BY <1>0, <1>2, <2>1, StepRefuse, RefuseIsLose DEF Channel!Next
<1>3. CASE HandleWrite
  <2>1. Same /\ UNCHANGED channelVars
    BY <1>3 DEF HandleWrite, channelVars, gatewayVars, sentVars
  <2> QED
    BY <1>0, <1>3, <2>1, StepWrite
<1>4. CASE HandleRead
  <2>1. UNCHANGED channelVars
    BY <1>4 DEF HandleRead, channelVars, gatewayVars, sentVars
  <2> QED
    BY <1>4, <2>1, StepRead, FirstRead
<1>5. CASE ConnectedAgain
  <2>1. ConnectedFirst'
    BY <1>5 DEF ConnectedAgain, ConnectedFirst
  <2>2. UNCHANGED channelVars
    BY <1>5 DEF ConnectedAgain, channelVars, gatewayVars, sentVars
  <2> QED
    BY <1>5, <2>1, <2>2, StepAgain
<1>6. CASE RunRemove
  <2>1. Same /\ UNCHANGED channelVars
    BY <1>6 DEF RunRemove, channelVars, gatewayVars, sentVars
  <2> QED
    BY <1>0, <1>6, <2>1, StepRemove
<1>7. CASE GatewayConnected
  <2>1. ConnectedFirst'
    BY <1>7, FirstRecv DEF GatewayConnected
  <2> QED
    BY <1>7, <2>1, StepConnected, ConnectedIsBreak DEF Channel!Next
<1>8. CASE NetworkRecv
  <2>1. ConnectedFirst'
    BY <1>8, FirstRecv DEF NetworkRecv
  <2>2. UNCHANGED channelVars
    BY <1>8 DEF NetworkRecv, channelVars, sentVars
  <2> QED
    BY <1>8, <2>1, <2>2, StepRecv
<1>9. CASE DecodePacket
  BY <1>9, StepDecodePacket, DecodePacketIsGet, FirstDecode DEF Channel!Next
<1>10. CASE DecodeMore
  <2>1. Same /\ UNCHANGED channelVars
    BY <1>10 DEF DecodeMore, channelVars, sentVars
  <2> QED
    BY <1>0, <1>10, <2>1, StepDecodeMore
<1>11. CASE DecodeError
  <2>1. ConnectedFirst'
    BY <1>11 DEF DecodeError, ConnectedFirst, Connected
  <2> QED
    BY <1>11, <2>1, StepDecodeError, DecodeErrorIsBreak DEF Channel!Next
<1>12. CASE UNCHANGED streamVars
  <2>1. /\ UNCHANGED <<bufferVars, kernel, link, mailbox, again, sent, lost>>
        /\ UNCHANGED <<pc, recvBuffer, delivered, broken>>
    BY <1>12 DEF streamVars, gatewayVars, sentVars
  <2>2. BufferInv' /\ Contents' = Contents
    BY <2>1, LineFacts, BufferSame
  <2>3. StreamTypeOK'
    BY <2>1, LineFacts DEF StreamTypeOK
  <2>4. StreamInv'
    BY <2>1, <2>2, <2>3, LineFacts, Assemble
  <2> QED
    BY <1>0, <2>1, <2>4 DEF channelVars
<1> QED
  BY <1>1, <1>2, <1>3, <1>4, <1>5, <1>6, <1>7, <1>8, <1>9, <1>10, <1>11, <1>12
     DEF StreamNext, Gateway

\* On the way from SendPacket to the gateway no byte is lost, doubled or moved: until a
\* decoding error or a second Connected that finds part of a packet, receive buffer,
\* mailbox, socket and output buffer together hold the encodings of exactly the packets
\* carried and not yet decoded, in order; and the link is up.  The first Connected comes
\* before all bytes.
THEOREM Stream_Invariant == StreamSpec => [](StreamInv /\ ConnectedFirst)
<1>1. StreamInit => StreamInv /\ ConnectedFirst
  <2>1. StreamInit => ConnectedFirst
    BY DEF StreamInit, ConnectedFirst
  <2> QED
    BY <2>1, StreamInitInv
<1>2. (StreamInv /\ ConnectedFirst) /\ [StreamNext]_streamVars => (StreamInv /\ ConnectedFirst)'
  BY StreamStep
<1> QED
  BY <1>1, <1>2, PTL DEF StreamSpec

\* For every size of the buffers, of a recv and of the packets below 4 GB: packets below
\* 2 GB that fit their format arrive one for one, in order, as they were sent; only a packet
\* that does not may arrive changed or end the connection, a packet of 2 GB or more is lost
\* and harms no other, and only where the dialing thread raced the loop may a second
\* Connected end this.
THEOREM Stream_PacketChannel == StreamSpec => ImplementsPacketChannel
<1>1. StreamInit => Channel!Init
  BY DEF StreamInit, Channel!Init
<1>2. StreamInv /\ ConnectedFirst /\ [StreamNext]_streamVars => [Channel!Next]_channelVars
  BY StreamStep
<1> QED
  BY <1>1, <1>2, Stream_Invariant, PTL DEF StreamSpec, ImplementsPacketChannel, Channel!Spec, channelVars

\* Every step is one of the queue of bytes, or none.
LEMMA StreamBuffer ==
  ASSUME StreamInv, [StreamNext]_streamVars
  PROVE  [Queue!Next]_<<Contents, taken>>
<1> SUFFICES Queue!Put \/ Queue!Take \/ UNCHANGED bufferVars
  BY DEF Queue!Next, bufferVars, Contents, ReadableBytes
<1>0. BufferInv
  BY LineFacts
<1>1. ASSUME NEW p \in Packets, SendPacket(p) PROVE Queue!Put \/ UNCHANGED bufferVars
  <2> DEFINE b == Suffix(Encode(p), Direct(Encode(p)))
  <2>1. BufferAppend(b) \/ UNCHANGED bufferVars
    BY <1>1 DEF SendPacket
  <2>2. b \in Seq(Byte)
    <3> DEFINE bytes == Encode(p)
    <3> DEFINE n == Direct(bytes)
    <3>1. bytes \in Strings
      BY PacketsFit
    <3> HIDE DEF bytes
    <3>2. n \in 0..Len(bytes)
      BY <1>0, <3>1, LineFacts, DirectBytes
    <3> HIDE DEF n
    <3>3. Suffix(bytes, n) \in Strings
      BY <3>1, <3>2, Cut
    <3> QED
      BY <3>3, BytesAreStrings DEF bytes, n
  <2> HIDE DEF b
  <2> QED
    BY <1>0, <2>1, <2>2, AppendIsPut
<1>2. ASSUME HandleWrite PROVE Queue!Take
  <2> DEFINE n == Least(ReadableBytes, Room - Len(kernel))
  <2>1. Retrieve(n)
    BY <1>2 DEF HandleWrite
  <2>2. n \in 1..ReadableBytes
    BY <2>1 DEF Retrieve
  <2> HIDE DEF n
  <2> QED
    BY <1>0, <2>1, <2>2, RetrieveIsTake
<1>3. ASSUME NEW p \in Packets, RefusePacket(p) PROVE UNCHANGED bufferVars
  BY <1>3 DEF RefusePacket
<1>4. ASSUME HandleRead \/ ConnectedAgain \/ RunRemove PROVE UNCHANGED bufferVars
  BY <1>4 DEF HandleRead, ConnectedAgain, RunRemove
<1>5. ASSUME Gateway \/ UNCHANGED streamVars PROVE UNCHANGED bufferVars
  BY <1>5 DEF Gateway, GatewayConnected, NetworkRecv, DecodePacket, DecodeMore, DecodeError, streamVars
<1> QED
  BY <1>1, <1>2, <1>3, <1>4, <1>5 DEF StreamNext

\* The steps of the connection use its output buffer as a queue of bytes.
THEOREM Stream_ByteQueue == StreamSpec => ImplementsByteQueue
<1>1. StreamInit => Queue!Init
  <2>1. BufferInit => Queue!Init
    BY BufferInitQueue
  <2> QED
    BY <2>1 DEF StreamInit
<1>2. StreamInv /\ [StreamNext]_streamVars => [Queue!Next]_<<Contents, taken>>
  BY StreamBuffer
<1> QED
  BY <1>1, <1>2, Stream_Invariant, PTL DEF StreamSpec, ImplementsByteQueue, Queue!Spec
=============================================================================
