------------------------------- MODULE Buffer -------------------------------
(***************************************************************************)
(* Buffer.h: a vector with two indexes.  What is to be sent lies between   *)
(* readerIndex and writerIndex; the space in front of it is reused by      *)
(* moving the data back, and only if that is not enough the vector grows.  *)
(***************************************************************************)
EXTENDS Naturals, Sequences

CONSTANTS
  Byte,
  Zero,         \* what resize() fills a vector with
  Prepend,      \* kCheapPrepend
  InitialSize   \* kInitialSize

ASSUME BufferAssumption ==
  /\ Zero \in Byte
  /\ Prepend \in Nat /\ InitialSize \in Nat

VARIABLES
  memory, size,              \* buffer_ and buffer_.size(); indexes begin at 0
  readerIndex, writerIndex,
  taken                      \* history: how many bytes were retrieved

bufferVars == <<memory, size, readerIndex, writerIndex, taken>>

BufferInit ==
  /\ size = Prepend + InitialSize
  /\ memory = [i \in 0..(size - 1) |-> Zero]
  /\ readerIndex = Prepend /\ writerIndex = Prepend
  /\ taken = 0

ReadableBytes == writerIndex - readerIndex
WritableBytes == size - writerIndex
Empty == readerIndex = writerIndex
\* The bytes Peek() points at.
Contents == [k \in 1..ReadableBytes |-> memory[readerIndex + k - 1]]

\* MakeSpace: the space in front and behind together does not do.
TooSmall(len) == WritableBytes + readerIndex < len + Prepend

NewSize(len) == IF 2 * size > writerIndex + len THEN 2 * size ELSE writerIndex + len

Write(bytes, at, s) ==              \* memcpy behind the index at
  [i \in DOMAIN bytes |-> IF at <= i /\ i < at + Len(s) THEN s[i - at + 1] ELSE bytes[i]]

AppendInPlace(s) ==
  /\ WritableBytes >= Len(s)
  /\ memory' = Write(memory, writerIndex, s)
  /\ writerIndex' = writerIndex + Len(s)
  /\ UNCHANGED <<size, readerIndex, taken>>

AppendGrow(s) ==
  /\ WritableBytes < Len(s) /\ TooSmall(Len(s))
  /\ size' = NewSize(Len(s))
  /\ memory' = Write([i \in 0..(size' - 1) |-> IF i < size THEN memory[i] ELSE Zero],
                     writerIndex, s)
  /\ writerIndex' = writerIndex + Len(s)
  /\ UNCHANGED <<readerIndex, taken>>

AppendCompact(s) ==
  /\ WritableBytes < Len(s) /\ ~TooSmall(Len(s))
  /\ memory' = Write(Write(memory, Prepend, Contents), Prepend + ReadableBytes, s)
  /\ readerIndex' = Prepend
  /\ writerIndex' = Prepend + ReadableBytes + Len(s)
  /\ UNCHANGED <<size, taken>>

\* Append(data, len); nothing happens for len = 0.
BufferAppend(s) ==
  /\ s # <<>>
  /\ AppendInPlace(s) \/ AppendGrow(s) \/ AppendCompact(s)

BadFront(n) == IF n < ReadableBytes THEN Prepend ELSE readerIndex   \* mutant: branches swapped
\* The new readerIndex; RetrieveAll resets it.
Front(n) == IF n < ReadableBytes THEN readerIndex + n ELSE Prepend

Retrieve(n) ==
  /\ n \in 1..ReadableBytes
  /\ readerIndex' = Front(n)
  /\ writerIndex' = IF n < ReadableBytes THEN writerIndex ELSE Prepend
  /\ taken' = taken + n
  /\ UNCHANGED <<memory, size>>

BufferNext ==
  \/ \E s \in Seq(Byte) : BufferAppend(s)
  \/ \E n \in 1..ReadableBytes : Retrieve(n)

BufferSpec == BufferInit /\ [][BufferNext]_bufferVars

-----------------------------------------------------------------------------
BufferTypeOK ==
  /\ taken \in Nat /\ size \in Nat /\ readerIndex \in Nat /\ writerIndex \in Nat
  /\ memory \in [0..(size - 1) -> Byte]

\* The indexes stay in the vector and in order, whatever is appended and retrieved:
\* memcpy and write() never leave it.
IndexesInBounds ==
  Prepend <= readerIndex /\ readerIndex <= writerIndex /\ writerIndex <= size

\* Moving, growing and resetting the indexes lose, repeat and reorder no byte: the
\* buffer is a queue.
Queue == INSTANCE ByteQueue WITH queue <- Contents
ImplementsByteQueue == Queue!Spec
=============================================================================
