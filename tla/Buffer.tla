------------------------------- MODULE Buffer -------------------------------
(***************************************************************************)
(* Buffer: a vector of bytes with two indices into it.  The bytes between  *)
(* readerIndex_ and writerIndex_ are readable, the ones before can be      *)
(* prepended to, the ones behind can be written.                           *)
(*                                                                         *)
(* The object is a record; each method is an operator from the object to   *)
(* the object, so that methods call each other as they do in the code.     *)
(* What an assertion demands of the caller is a guard of the action; what  *)
(* an assertion says the class itself guarantees is a property.            *)
(***************************************************************************)
EXTENDS Naturals, Sequences

CONSTANTS
  Byte,           \* the values of a char, 0 among them
  kCheapPrepend,
  kInitialSize,
  MaxLen,         \* bound: bytes handed over by one call
  MaxSize         \* bound: buffer_.size()

ASSUME ByteAssumption == 0 \in Byte
ASSUME SizesAssumption == kCheapPrepend \in Nat /\ kInitialSize \in Nat
ASSUME BoundsAssumption == MaxLen \in Nat /\ MaxSize \in Nat

VARIABLES
  buf,   \* [buffer |-> buffer_, reader |-> readerIndex_, writer |-> writerIndex_]
  peak   \* the most bytes the buffer was ever asked to hold

vars == <<buf, peak>>

Data == UNION {[1..n -> Byte] : n \in 0..MaxLen}
Lengths == 0..MaxLen

readableBytes(b) == b.writer - b.reader
writableBytes(b) == Len(b.buffer) - b.writer
prependableBytes(b) == b.reader

\* The readable bytes: toStringPiece().
content(b) == [i \in 1..readableBytes(b) |-> b.buffer[b.reader + i]]

-----------------------------------------------------------------------------
(* std::vector and std::copy.                                               *)

resize(bytes, n) == [i \in 1..n |-> IF i <= Len(bytes) THEN bytes[i] ELSE 0]

\* bytes with data copied to the positions after at.
copy(bytes, at, data) ==
  [i \in 1..Len(bytes) |->
     IF i > at /\ i <= at + Len(data) THEN data[i - at] ELSE bytes[i]]

-----------------------------------------------------------------------------
(* The methods.                                                             *)

New ==
  [buffer |-> [i \in 1..(kCheapPrepend + kInitialSize) |-> 0],
   reader |-> kCheapPrepend, writer |-> kCheapPrepend]

\* Faulty: makes no allowance for the prepend space.
makeSpaceTight(b, len) ==
  IF writableBytes(b) + prependableBytes(b) < len
  THEN [b EXCEPT !.buffer = resize(@, b.writer + len)]
  ELSE [buffer |-> copy(b.buffer, kCheapPrepend, content(b)),
        reader |-> kCheapPrepend, writer |-> kCheapPrepend + readableBytes(b)]

\* Faulty: moves the indices and leaves the bytes.
makeSpaceNoCopy(b, len) ==
  IF writableBytes(b) + prependableBytes(b) < len + kCheapPrepend
  THEN [b EXCEPT !.buffer = resize(@, b.writer + len)]
  ELSE [b EXCEPT !.reader = kCheapPrepend, !.writer = kCheapPrepend + readableBytes(b)]

\* Faulty: resizes to what is asked for, not to what is asked for on top.
makeSpaceShort(b, len) ==
  IF writableBytes(b) + prependableBytes(b) < len + kCheapPrepend
  THEN [b EXCEPT !.buffer = resize(@, len)]
  ELSE [buffer |-> copy(b.buffer, kCheapPrepend, content(b)),
        reader |-> kCheapPrepend, writer |-> kCheapPrepend + readableBytes(b)]

\* Faulty: never moves the readable bytes to the front.
makeSpaceGrow(b, len) == [b EXCEPT !.buffer = resize(@, b.writer + len)]

\* Grows the vector, unless moving the readable bytes to the front makes enough room.
makeSpace(b, len) ==
  IF writableBytes(b) + prependableBytes(b) < len + kCheapPrepend
  THEN [b EXCEPT !.buffer = resize(@, b.writer + len)]
  ELSE [buffer |-> copy(b.buffer, kCheapPrepend, content(b)),
        reader |-> kCheapPrepend, writer |-> kCheapPrepend + readableBytes(b)]

ensureWritableBytes(b, len) == IF writableBytes(b) < len THEN makeSpace(b, len) ELSE b

\* beginWrite() filled with data, then hasWritten().
hasWritten(b, data) ==
  [buffer |-> copy(b.buffer, b.writer, data),
   reader |-> b.reader, writer |-> b.writer + Len(data)]

append(b, data) == hasWritten(ensureWritableBytes(b, Len(data)), data)

prepend(b, data) ==
  [buffer |-> copy(b.buffer, b.reader - Len(data), data),
   reader |-> b.reader - Len(data), writer |-> b.writer]

retrieveAll(b) ==
  [buffer |-> b.buffer, reader |-> kCheapPrepend, writer |-> kCheapPrepend]

retrieve(b, len) ==
  IF len < readableBytes(b) THEN [b EXCEPT !.reader = @ + len] ELSE retrieveAll(b)

unwrite(b, len) == [b EXCEPT !.writer = @ - len]

shrink(b, reserve) ==
  append(ensureWritableBytes(New, readableBytes(b) + reserve), content(b))

-----------------------------------------------------------------------------
(* The calls a user can make; the guards are the assertions on arguments.   *)

Asked(n) == peak' = IF n > peak THEN n ELSE peak

Call(b) == buf' = b /\ Len(b.buffer) <= MaxSize

Append_ == \E data \in Data :
  Call(append(buf, data)) /\ Asked(readableBytes(buf) + Len(data))

EnsureWritable == \E len \in Lengths :
  Call(ensureWritableBytes(buf, len)) /\ Asked(readableBytes(buf) + len)

HasWritten == \E data \in Data :
  /\ Len(data) <= writableBytes(buf)
  /\ Call(hasWritten(buf, data)) /\ UNCHANGED peak

Prepend_ == \E data \in Data :
  /\ Len(data) <= prependableBytes(buf)
  /\ Call(prepend(buf, data)) /\ UNCHANGED peak

Retrieve == \E len \in Lengths :
  /\ len <= readableBytes(buf)
  /\ Call(retrieve(buf, len)) /\ UNCHANGED peak

RetrieveAll == Call(retrieveAll(buf)) /\ UNCHANGED peak

Unwrite == \E len \in Lengths :
  /\ len <= readableBytes(buf)
  /\ Call(unwrite(buf, len)) /\ UNCHANGED peak

Shrink == \E reserve \in Lengths :
  Call(shrink(buf, reserve)) /\ Asked(readableBytes(buf) + reserve)

Init == buf = New /\ peak = 0

Next ==
  \/ Append_ \/ EnsureWritable \/ HasWritten \/ Prepend_
  \/ Retrieve \/ RetrieveAll \/ Unwrite \/ Shrink

Spec == Init /\ [][Next]_vars

-----------------------------------------------------------------------------
(* Properties.                                                              *)

Object == [buffer : Seq(Byte), reader : Nat, writer : Nat]

\* The vector holds bytes and the indices stay ordered inside it, so that no method reads
\* or writes outside the vector (every method of Buffer).
TypeOK ==
  /\ buf \in Object
  /\ buf.reader <= buf.writer /\ buf.writer <= Len(buf.buffer)
  /\ peak \in Nat

\* The assertions of ensureWritableBytes and makeSpace hold for every request: there is
\* enough room afterwards, bytes are only moved to the front, and none is lost.
SpaceIsMade ==
  \A len \in Lengths :
    LET b == ensureWritableBytes(buf, len) IN
    /\ writableBytes(b) >= len
    /\ content(b) = content(buf)
    /\ b.reader # buf.reader => kCheapPrepend < buf.reader

\* Memory stays proportional to the use: the vector never outgrows twice the most the
\* buffer was ever asked to hold, however long it is appended to and retrieved from
\* (makeSpace).
GrowthBounded ==
  \/ Len(buf.buffer) <= kCheapPrepend + kInitialSize
  \/ Len(buf.buffer) <= kCheapPrepend + 2 * peak

\* Every method does to the readable bytes what it is named for: append and hasWritten add
\* exactly the bytes given at the end, prepend at the front, retrieve and unwrite take as
\* many as asked from either end, shrink takes none.
MethodsActAsQueue ==
  /\ \A data \in Data :
       /\ content(append(buf, data)) = content(buf) \o data
       /\ Len(data) <= writableBytes(buf) =>
            content(hasWritten(buf, data)) = content(buf) \o data
       /\ Len(data) <= prependableBytes(buf) =>
            content(prepend(buf, data)) = data \o content(buf)
  /\ \A len \in Lengths : len <= readableBytes(buf) =>
       /\ content(retrieve(buf, len)) = SubSeq(content(buf), len + 1, readableBytes(buf))
       /\ content(unwrite(buf, len)) = SubSeq(content(buf), 1, readableBytes(buf) - len)
  /\ \A reserve \in Lengths : content(shrink(buf, reserve)) = content(buf)

Queue == INSTANCE ByteQueue WITH queue <- content(buf)

\* A Buffer is a queue of bytes: every method changes the readable bytes as the queue
\* does, and growing, moving and shrinking the vector do not change them.
ImplementsByteQueue == Queue!Spec
=============================================================================
