------------------------------- MODULE Codec -------------------------------
(***************************************************************************)
(* The input path of a connection: TcpConnection reads a length and a body *)
(* into inputBuffer_, and the codec behind its message callback cuts the   *)
(* buffer into messages.  Both read the length at the front of the buffer, *)
(* each for itself.                                                        *)
(*                                                                         *)
(* An integer is four bytes, most significant first, in two's complement;  *)
(* a byte has Base values.  The other side writes whole frames; async_read *)
(* completes when all it asked for has come.  A round of the loop in       *)
(* onMessage is a step.                                                    *)
(***************************************************************************)
EXTENDS Integers, Sequences, FiniteSets

CONSTANTS
  Base,                    \* 256 in the code
  kCheapPrepend, kInitialSize,
  LengthMax, ProtobufMax,  \* kMaxMessageLen of the two codecs
  Payloads,                \* bound: the strings and serialised messages that are sent
  Negatives,               \* bound: the negative lengths that are sent
  MaxFrames                \* bound: frames the other side sends

Byte == 0..(Base - 1)
Words == Base * Base * Base * Base
SizeWords == Words * Words      \* a size_t is twice as long as an integer
kHeaderLen == 4

\* Room for a header on either side of a new buffer, and for the lengths in an integer
\* (Buffer.h:14, Codec.h:33, ProtobufCodec.h:38).
ASSUME BytesAssumption == Base \in Nat /\ Base >= 4
ASSUME SizesAssumption ==
  /\ kCheapPrepend \in Nat /\ kInitialSize \in Nat
  /\ kHeaderLen <= kCheapPrepend /\ kHeaderLen <= kInitialSize
ASSUME LimitsAssumption ==
  LengthMax \in Nat /\ ProtobufMax \in Nat /\ 2 * kHeaderLen + 2 <= ProtobufMax
ASSUME PayloadsAssumption ==
  /\ Payloads \subseteq Seq(Byte)
  /\ \A s \in Payloads : Len(s) + 2 * kHeaderLen + 2 < Words \div 2
ASSUME NegativesAssumption == Negatives \subseteq -(Words \div 2)..-1

VARIABLES
  codec,        \* "length" or "protobuf"
  wire,         \* bytes sent and not read
  sent,         \* what was sent: [message, is], see Kinds
  inputBuffer,
  pc,           \* the operation under way: "header", "body", "callback", or "closed", or
                \* "past": the body is read to behind the end of the vector
  want,         \* the argument of readBody, unless that is a negative number
  shut,         \* "yes" once the codec called shutdown()
  delivered,    \* messages given to the user's callback
  failed        \* what ended the process, see Failures

vars == <<codec, wire, sent, inputBuffer, pc, want, shut, delivered, failed>>

B == INSTANCE Buffer WITH
  MaxLen <- 0, MaxSize <- 0, buf <- inputBuffer, peak <- 0

\* What the codec makes of a frame: a message, a message without a byte, a length it
\* refuses, or (protobuf) a body it cannot parse.
Kinds == {"good", "empty", "refused", "unparsable"}

\* Nothing, the method of Buffer whose assertion failed, the exception from resize, or a
\* write behind the vector.
Failures == {"none", "hasWritten", "makeSpace", "ensureWritableBytes", "length_error", "overrun"}

-----------------------------------------------------------------------------
(* Integers on the wire, and messages.                                      *)

hostToNetwork(n) ==
  LET low == n % Words
      upper == low \div Base
      middle == upper \div Base IN
  <<middle \div Base, middle % Base, upper % Base, low % Base>>

networkToHost(bytes) ==
  LET n == ((bytes[1] * Base + bytes[2]) * Base + bytes[3]) * Base + bytes[4] IN
  IF n >= Words \div 2 THEN n - Words ELSE n

peekInt32(b) == networkToHost(B!content(b))

appendInt32(b, n) == B!append(b, hostToNetwork(n))

prependInt32(b, n) == B!prepend(b, hostToNetwork(n))

kMinMessageLen == IF codec = "length" THEN 0 ELSE 2 * kHeaderLen + 2

kMaxMessageLen == IF codec = "length" THEN LengthMax ELSE ProtobufMax

\* zlib's checksum: some function of the bytes, here their sum.
adler32(bytes) ==
  (1 + Cardinality({p \in (1..Len(bytes)) \X Byte : p[2] < bytes[p[1]]})) % (Words \div 2)

\* A type's name is a letter and the terminating zero; the program knows the first type.
KnownTypes == {<<1>>}
NewTypes == {<<2>>}

\* The buffer of ProtobufCodec::send with name, serialised message and checksum, without
\* the length in front.
Body(type, payload) ==
  LET named == B!append(appendInt32(B!New, Len(type) + 1), Append(type, 0))
      full == B!hasWritten(B!ensureWritableBytes(named, Len(payload)), payload) IN
  appendInt32(full, adler32(B!content(full)))

\* The message in data, or <<>> when there is none.  ParseFromArray's result is not looked
\* at: whatever the bytes are, there is a message.
parse(data) ==
  LET len == Len(data)
      nameLen == networkToHost(data) IN
  IF /\ adler32(SubSeq(data, 1, len - kHeaderLen)) =
          networkToHost(SubSeq(data, len - kHeaderLen + 1, len))
     /\ nameLen >= 2 /\ nameLen <= len - 2 * kHeaderLen
     /\ SubSeq(data, kHeaderLen + 1, kHeaderLen + nameLen - 1) \in KnownTypes
  THEN <<SubSeq(data, kHeaderLen + 1, kHeaderLen + nameLen - 1),
         SubSeq(data, kHeaderLen + nameLen + 1, len - kHeaderLen)>>
  ELSE <<>>

-----------------------------------------------------------------------------
(* The other side.                                                          *)

Init ==
  /\ codec \in {"length", "protobuf"}
  /\ wire = <<>> /\ sent = <<>> /\ delivered = <<>>
  /\ inputBuffer = B!New /\ pc = "header" /\ want = 0 /\ shut = "no" /\ failed = "none"

Sends(bytes, message, is) ==
  /\ Len(sent) < MaxFrames /\ pc # "closed" /\ failed = "none"
  /\ wire' = wire \o bytes /\ sent' = Append(sent, [message |-> message, is |-> is])
  /\ UNCHANGED <<codec, inputBuffer, pc, want, shut, delivered, failed>>

\* A frame for LengthHeaderCodec, whose own send() does nothing.
SendString == \E s \in Payloads :
  /\ codec = "length"
  /\ Sends(hostToNetwork(Len(s)) \o s, s,
           IF Len(s) > LengthMax THEN "refused" ELSE IF Len(s) = 0 THEN "empty" ELSE "good")

\* ProtobufCodec::send, which knows no longest message.
send == \E type \in KnownTypes \cup NewTypes, payload \in Payloads :
  LET buff == Body(type, payload) IN
  /\ codec = "protobuf"
  /\ Sends(B!content(prependInt32(buff, B!readableBytes(buff))), <<type, payload>>,
           IF B!readableBytes(buff) > ProtobufMax THEN "refused"
           ELSE IF type \in KnownTypes THEN "good" ELSE "unparsable")

\* A frame damaged on the way or sent by something else: a negative length, a length too
\* small for the protobuf codec, a wrong checksum.
SendDamaged ==
  \/ \E len \in Negatives : Sends(hostToNetwork(len), <<>>, "refused")
  \/ codec = "protobuf" /\ Sends(hostToNetwork(1) \o <<1>>, <<>>, "refused")
  \/ /\ codec = "protobuf"
     /\ LET body == B!content(Body(<<1>>, <<>>)) IN
        Sends(hostToNetwork(Len(body)) \o [body EXCEPT ![Len(body)] = (@ + 1) % Base],
              <<>>, "unparsable")

-----------------------------------------------------------------------------
(* TcpConnection.                                                           *)

Reads(state, n) == failed = "none" /\ pc = state /\ Len(wire) >= n
Takes(n) == wire' = SubSeq(wire, n + 1, Len(wire))
Fails(how) == failed' = how /\ UNCHANGED <<inputBuffer, pc, want>>

size_t(n) == n % SizeWords
max_size == SizeWords \div 2 - 1

HeaderFits == B!writableBytes(inputBuffer) >= kHeaderLen

\* ensureWritableBytes and readBody with a negative length: as a size_t it is more than the
\* vector has room for, and makeSpace is called.  The sums there are taken modulo SizeWords.
\* Either they ask for more than a vector can have, or they cut the vector to less than
\* writerIndex_: then writableBytes() wraps to exactly len, the assertion holds and the
\* body is read to behind the vector.  Or len + kCheapPrepend wraps to so little that
\* bytes are only moved, if there is space to move them to, which is not enough.
EnsureNegative(b, len) ==
  LET grows == size_t(B!writableBytes(b) + B!prependableBytes(b)) < size_t(len + kCheapPrepend)
      size == size_t(b.writer + len) IN
  \/ grows /\ size > max_size /\ Fails("length_error")
  \/ /\ grows /\ size <= max_size
     /\ inputBuffer' = [b EXCEPT !.buffer = B!resize(@, size)] /\ pc' = "past"
     /\ UNCHANGED <<want, failed>>
  \/ ~grows /\ b.reader <= kCheapPrepend /\ Fails("makeSpace")
  \/ ~grows /\ b.reader > kCheapPrepend /\ Fails("ensureWritableBytes")

\* Faulty: makes no room for the body.
readHeaderNoSpace ==
  /\ Reads("header", kHeaderLen) /\ Takes(kHeaderLen)
  /\ LET b == B!hasWritten(inputBuffer, SubSeq(wire, 1, kHeaderLen))
         len == peekInt32(b) IN
     \/ ~HeaderFits /\ Fails("hasWritten")
     \/ HeaderFits /\ len < 0 /\ EnsureNegative(b, len)
     \/ /\ HeaderFits /\ len >= 0
        /\ inputBuffer' = b /\ want' = len /\ pc' = "body" /\ UNCHANGED failed
  /\ UNCHANGED <<codec, sent, shut, delivered>>

\* The header is read without making room for it; hasWritten asserts that there was some.
readHeader ==
  /\ Reads("header", kHeaderLen) /\ Takes(kHeaderLen)
  /\ LET b == B!hasWritten(inputBuffer, SubSeq(wire, 1, kHeaderLen))
         len == peekInt32(b) IN
     \/ ~HeaderFits /\ Fails("hasWritten")
     \/ HeaderFits /\ len < 0 /\ EnsureNegative(b, len)
     \/ /\ HeaderFits /\ len >= 0
        /\ inputBuffer' = B!ensureWritableBytes(b, len)
        /\ want' = len /\ pc' = "body" /\ UNCHANGED failed
  /\ UNCHANGED <<codec, sent, shut, delivered>>

\* A read that asks for more than the vector has room for, once more has come than that:
\* the bytes are written behind the vector.  Either nothing else is there, and the read goes
\* on (a body of nearly SizeWords bytes never ends, a header ends in readHeader), or the
\* process does not survive it.
readPast ==
  /\ failed = "none"
  /\ \/ pc = "header" /\ ~HeaderFits /\ Len(wire) > B!writableBytes(inputBuffer)
     \/ pc = "past" /\ wire # <<>>
  /\ failed' = "overrun"
  /\ UNCHANGED <<codec, wire, sent, inputBuffer, pc, want, shut, delivered>>

\* Faulty: leaves the last byte for later.
readBodyShort ==
  /\ Reads("body", want) /\ want > 0 /\ Takes(want - 1)
  /\ inputBuffer' = B!hasWritten(inputBuffer, SubSeq(wire, 1, want - 1))
  /\ pc' = "callback" /\ UNCHANGED <<codec, sent, want, shut, delivered, failed>>

readBody ==
  /\ Reads("body", want) /\ Takes(want)
  /\ inputBuffer' = B!hasWritten(inputBuffer, SubSeq(wire, 1, want))
  /\ pc' = "callback" /\ UNCHANGED <<codec, sent, want, shut, delivered, failed>>

\* The read ends with an error; handleClose().
ReadFails ==
  /\ failed = "none" /\ pc \in {"header", "body", "past"}
  /\ pc' = "closed" /\ UNCHANGED <<codec, wire, sent, inputBuffer, want, shut, delivered, failed>>

-----------------------------------------------------------------------------
(* The codecs: a round of the loop of onMessage, or its end, after which    *)
(* readBody's handler calls readHeader().                                   *)

InCallback(which) == failed = "none" /\ pc = "callback" /\ codec = which

bodyLen == peekInt32(inputBuffer)

Returns == pc' = "header" /\ UNCHANGED <<inputBuffer, shut, delivered>>

Refuses == pc' = "header" /\ shut' = "yes" /\ UNCHANGED <<inputBuffer, delivered>>

Delivers(message, b) ==
  delivered' = Append(delivered, message) /\ inputBuffer' = b /\ UNCHANGED <<pc, shut>>

\* Faulty: refuses the longest message.
RefusedLonger == bodyLen >= kMaxMessageLen \/ bodyLen < kMinMessageLen

Refused == bodyLen > kMaxMessageLen \/ bodyLen < kMinMessageLen

\* Faulty: wants a byte more.
CompleteLater == B!readableBytes(inputBuffer) > bodyLen + kHeaderLen

Complete == B!readableBytes(inputBuffer) >= bodyLen + kHeaderLen

LengthOnMessage ==
  /\ InCallback("length")
  /\ LET more == B!readableBytes(inputBuffer) > kHeaderLen
         b == B!retrieve(inputBuffer, kHeaderLen) IN
     \/ (more => ~Refused /\ ~Complete) /\ Returns
     \/ more /\ Refused /\ Refuses
     \/ /\ more /\ ~Refused /\ Complete
        /\ Delivers(SubSeq(B!content(b), 1, bodyLen), B!retrieve(b, bodyLen))
  /\ UNCHANGED <<codec, wire, sent, want, failed>>

\* Faulty: leaves the message in the buffer.
ProtobufRetrieveNothing(b, len) == b

ProtobufRetrieve(b, len) == B!retrieve(b, len + kHeaderLen)

\* A frame that is not complete or that cannot be parsed stays in front, and the loop goes
\* round again.
ProtobufOnMessage ==
  /\ InCallback("protobuf")
  /\ LET more == B!readableBytes(inputBuffer) >= kMinMessageLen + kHeaderLen
         message == parse(SubSeq(B!content(inputBuffer), kHeaderLen + 1, kHeaderLen + bodyLen)) IN
     \/ ~more /\ Returns
     \/ more /\ Refused /\ Refuses
     \/ /\ more /\ ~Refused
        /\ IF Complete /\ message # <<>>
           THEN Delivers(message, ProtobufRetrieve(inputBuffer, bodyLen))
           ELSE UNCHANGED <<inputBuffer, pc, shut, delivered>>
  /\ UNCHANGED <<codec, wire, sent, want, failed>>

onMessage == LengthOnMessage \/ ProtobufOnMessage

Next ==
  \/ SendString \/ send \/ SendDamaged
  \/ readHeader \/ readBody \/ readPast \/ ReadFails \/ onMessage

(* The loop's thread goes on with the handler it is in.                     *)
Spec == Init /\ [][Next]_vars /\ WF_vars(onMessage)

-----------------------------------------------------------------------------
(* Properties.                                                              *)

Only(kinds) == \A i \in 1..Len(sent) : sent[i].is \in kinds

\* Every variable holds a value of its member.  The indices stay inside the vector unless a
\* negative length has cut it, and the body of any other length fits behind them
\* (readHeader, ensureWritableBytes); whether a header fits is GoodTrafficIsSafe's question.
TypeOK ==
  /\ codec \in {"length", "protobuf"}
  /\ pc \in {"header", "body", "past", "callback", "closed"}
  /\ wire \in Seq(Byte) /\ want \in Nat /\ shut \in {"yes", "no"} /\ failed \in Failures
  /\ \A i \in 1..Len(sent) : sent[i].is \in Kinds
  /\ inputBuffer \in B!Object /\ inputBuffer.reader <= inputBuffer.writer
  /\ pc \in {"header", "body", "callback"} => inputBuffer.writer <= Len(inputBuffer.buffer)
  /\ pc = "body" => want <= B!writableBytes(inputBuffer)

\* The callback gets the messages that were sent, whole and in order, and none that was
\* sent behind a frame the codec refuses or cannot parse, although the connection reads on
\* after shutdown() (onMessage, readBody).
DeliveredInOrder ==
  /\ Len(delivered) <= Len(sent)
  /\ \A i \in 1..Len(delivered) :
       sent[i].is \in {"good", "empty"} /\ delivered[i] = sent[i].message

\* No message waits in the buffer for the next one to come, unless an empty message was
\* sent to LengthHeaderCodec: its loop leaves a lone header in the buffer, and from then on
\* the connection reads past the frame and delivers one message late, but never two.
AtMostOneBehind ==
  LET blocked == \/ pc = "header" /\ Len(wire) < kHeaderLen
                 \/ pc = "body" /\ Len(wire) < want IN
  blocked /\ failed = "none" /\ Only({"good", "empty"}) =>
    /\ Len(sent) - Len(delivered) <= 1
    /\ Only({"good"}) => Len(delivered) = Len(sent)

\* Ordinary traffic meets no assertion, is not shut down and is read into the vector:
\* although readHeader makes no room for the four bytes it reads, room is always left for
\* them (readHeader, onMessage).
GoodTrafficIsSafe == Only({"good"}) =>
  /\ failed = "none" /\ shut = "no" /\ pc # "past"
  /\ pc = "header" => HeaderFits

\* onMessage returns to the loop for every frame that can be parsed: ProtobufCodec would
\* spin on a frame that is not complete, and readBody never hands it one.
OnMessageReturns ==
  LET Parsable == Only(Kinds \ {"unparsable"}) IN
  (pc = "callback" /\ Parsable) ~> (pc # "callback" \/ ~Parsable)
=============================================================================
