------------------------------- MODULE Buffer -------------------------------
(***************************************************************************)
(* Buffer (zdq_buffer.h, zdq_buffer.cpp): a vector of bytes of which those *)
(* from readIndex_ to writeIndex_ are readable.  The sizes of the code,    *)
(* defaultSize, move_line and the 65536 bytes of extrabuf, are constants.  *)
(***************************************************************************)
EXTENDS Naturals, Sequences

CONSTANTS
  Byte,
  defaultSize,  \* size of the vector at first
  move_line,    \* how much space before readIndex_ is tolerated
  extrabuf,     \* size of the second buffer of readFd
  MaxReadable   \* bound: readable bytes

ASSUME BufferAssumption ==
  /\ defaultSize \in Nat /\ move_line \in Nat /\ extrabuf \in Nat /\ MaxReadable \in Nat
  /\ Byte # {}

VARIABLES
  v_buff_,      \* v_buff_[i + 1] is the byte at index i
  readIndex_, writeIndex_,
  input,        \* history: what was last appended or read
  result        \* history: what the last retrieveAsString returned

bufferVars == <<v_buff_, readIndex_, writeIndex_, input, result>>

readBuffSize == writeIndex_ - readIndex_
writeBuffSize == Len(v_buff_) - writeIndex_

Readable == SubSeq(v_buff_, readIndex_ + 1, writeIndex_)

\* The bytes that resize adds are zero; they are never readable.
Blank == CHOOSE b \in Byte : TRUE

-----------------------------------------------------------------------------
\* v with the bytes of s from index w on, grown as far as they need.
Overwritten(v, w, s) ==
  [i \in 1..(IF w + Len(s) > Len(v) THEN w + Len(s) ELSE Len(v)) |->
    IF i \in w + 1..w + Len(s) THEN s[i - w]
    ELSE IF i <= Len(v) THEN v[i] ELSE Blank]

append(s) ==
  /\ v_buff_' = Overwritten(v_buff_, writeIndex_, s)
  /\ writeIndex_' = writeIndex_ + Len(s)
  /\ input' = s
  /\ UNCHANGED <<readIndex_, result>>

\* readv fills the free space, then extrabuf, which is then appended.  A
\* buffer with more free space than extrabuf does without it.
ReadableAtOnce == IF writeBuffSize < extrabuf THEN writeBuffSize + extrabuf ELSE writeBuffSize

SpillForgotten(s) ==
  IF Len(s) <= writeBuffSize THEN writeIndex_ + Len(s) ELSE Len(v_buff_)
WrittenTo(s) ==
  IF Len(s) <= writeBuffSize THEN writeIndex_ + Len(s)
  ELSE Len(v_buff_) + (Len(s) - writeBuffSize)

readFd(s) ==
  /\ Len(s) <= ReadableAtOnce
  /\ v_buff_' = Overwritten(v_buff_, writeIndex_, s)
  /\ writeIndex_' = WrittenTo(s)
  /\ input' = s
  /\ UNCHANGED <<readIndex_, result>>

\* movetohead copies the readable bytes to the front.
MoveIndexes(r) == readIndex_' = 0 /\ writeIndex_' = writeIndex_ - r

movetohead(r) ==
  /\ v_buff_' = Overwritten(v_buff_, 0, SubSeq(v_buff_, r + 1, writeIndex_))
  /\ MoveIndexes(r)

MoveNever(r) == FALSE
MustMove(r) == r > move_line

BackToHead == readIndex_' = 0 /\ writeIndex_' = 0

Advance(len) ==
  \/ /\ len < readBuffSize /\ MustMove(readIndex_ + len)
     /\ movetohead(readIndex_ + len)
  \/ /\ len < readBuffSize /\ ~MustMove(readIndex_ + len)
     /\ readIndex_' = readIndex_ + len
     /\ UNCHANGED <<v_buff_, writeIndex_>>
  \/ len = readBuffSize /\ BackToHead /\ UNCHANGED v_buff_

retrieve(len) == Advance(len) /\ UNCHANGED <<input, result>>

Peek(len) == SubSeq(v_buff_, readIndex_ + 1, readIndex_ + len)

\* Also retrieveAllAsString, with all that is readable.
retrieveAsString(len) == result' = Peek(len) /\ Advance(len) /\ UNCHANGED input

-----------------------------------------------------------------------------
Input == UNION {[1..n -> Byte] : n \in 0..MaxReadable}

BufferInit ==
  /\ v_buff_ = [i \in 1..defaultSize |-> Blank]
  /\ readIndex_ = 0 /\ writeIndex_ = 0 /\ input = <<>> /\ result = <<>>

BufferNext ==
  \/ \E s \in Input :
       /\ readBuffSize + Len(s) <= MaxReadable
       /\ append(s) \/ readFd(s)
  \/ \E len \in 0..readBuffSize : retrieve(len) \/ retrieveAsString(len)

BufferSpec == BufferInit /\ [][BufferNext]_bufferVars

-----------------------------------------------------------------------------
\* "Case 1" and "case 2": an empty buffer starts again at the head, the space
\* wasted before the readable bytes is bounded, whatever is appended and
\* retrieved, and so is the vector, in which the indexes stay.
WasteBounded ==
  /\ readIndex_ <= writeIndex_ /\ writeIndex_ <= Len(v_buff_)
  /\ readIndex_ = writeIndex_ => readIndex_ = 0
  /\ readIndex_ <= move_line
  /\ \/ Len(v_buff_) <= defaultSize
     \/ Len(v_buff_) <= move_line + MaxReadable

\* The bytes come out as they went in, through the moves to the head, the
\* reuse of freed space and the spill of readFd into extrabuf.
BQ == INSTANCE ByteQueue WITH bytes <- Readable
BytesImplemented == BQ!BQSpec
=============================================================================
