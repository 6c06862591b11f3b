---------------------------- MODULE BufferProofs ----------------------------
(***************************************************************************)
(* Proofs about Buffer.                                                    *)
(***************************************************************************)
EXTENDS Buffer, SequenceTheorems, TLAPS

USE ByteAssumption, SizesAssumption, BoundsAssumption

\* A function on 1..n is a sequence of length n.
LEMMA FunctionIsSeq ==
  ASSUME NEW S, NEW n \in Nat, NEW f \in [1..n -> S]
  PROVE  f \in Seq(S) /\ Len(f) = n
  OBVIOUS

\* Sequences of equal length with equal elements are equal.
LEMMA SameSeq ==
  ASSUME NEW S, NEW s \in Seq(S), NEW t \in Seq(S), Len(s) = Len(t),
         \A i \in 1..Len(s) : s[i] = t[i]
  PROVE  s = t
  OBVIOUS

\* The bytes of a concatenation.
LEMMA Concat ==
  ASSUME NEW S, NEW s \in Seq(S), NEW t \in Seq(S)
  PROVE  /\ s \o t \in Seq(S)
         /\ Len(s \o t) = Len(s) + Len(t)
         /\ \A i \in 1..(Len(s) + Len(t)) :
              (s \o t)[i] = IF i <= Len(s) THEN s[i] ELSE t[i - Len(s)]
  OBVIOUS

\* An object whose indices are ordered and inside its vector.
Sound(b) == b \in Object /\ b.reader <= b.writer /\ b.writer <= Len(b.buffer)

LEMMA ResizeType ==
  ASSUME NEW s \in Seq(Byte), NEW n \in Nat
  PROVE  /\ resize(s, n) \in Seq(Byte)
         /\ Len(resize(s, n)) = n
         /\ \A i \in 1..n : i <= Len(s) => resize(s, n)[i] = s[i]
  BY FunctionIsSeq DEF resize

LEMMA CopyType ==
  ASSUME NEW s \in Seq(Byte), NEW at \in Nat, NEW d \in Seq(Byte)
  PROVE  /\ copy(s, at, d) \in Seq(Byte)
         /\ Len(copy(s, at, d)) = Len(s)
         /\ \A i \in 1..Len(s) : copy(s, at, d)[i] =
              IF i > at /\ i <= at + Len(d) THEN d[i - at] ELSE s[i]
  BY FunctionIsSeq DEF copy

LEMMA ContentType ==
  ASSUME NEW b, Sound(b)
  PROVE  /\ content(b) \in Seq(Byte)
         /\ readableBytes(b) \in Nat
         /\ Len(content(b)) = readableBytes(b)
         /\ \A i \in 1..readableBytes(b) : content(b)[i] = b.buffer[b.reader + i]
<1> DEFINE n == b.writer - b.reader
<1>1. /\ b.buffer \in Seq(Byte) /\ b.reader \in Nat /\ b.writer \in Nat
      /\ b.reader <= b.writer /\ b.writer <= Len(b.buffer)
  BY DEF Sound, Object
<1>2. n \in Nat
  BY <1>1
<1>3. \A i \in 1..n : b.buffer[b.reader + i] \in Byte
  BY <1>1
<1>4. content(b) \in [1..n -> Byte]
  BY <1>3 DEF content, readableBytes
<1>5. content(b) \in Seq(Byte) /\ Len(content(b)) = n
  BY <1>2, <1>4, FunctionIsSeq
<1> QED
  BY <1>2, <1>5 DEF content, readableBytes

\* The components of a sound object, and what makes a record a sound one.
LEMMA Parts ==
  ASSUME NEW b, Sound(b)
  PROVE  /\ b = [buffer |-> b.buffer, reader |-> b.reader, writer |-> b.writer]
         /\ b.buffer \in Seq(Byte) /\ b.reader \in Nat /\ b.writer \in Nat
         /\ Len(b.buffer) \in Nat
         /\ b.reader <= b.writer /\ b.writer <= Len(b.buffer)
  BY DEF Sound, Object

\* Objects with the same readable bytes have the same content.
LEMMA SameContent ==
  ASSUME NEW b, Sound(b), NEW c, Sound(c),
         readableBytes(b) = readableBytes(c),
         \A i \in 1..readableBytes(b) : b.buffer[b.reader + i] = c.buffer[c.reader + i]
  PROVE  content(b) = content(c)
  BY DEF content

-----------------------------------------------------------------------------
(* What each method does.                                                   *)

\* makeSpace makes the room that was asked for, when there was not enough, keeps the
\* readable bytes, and at most doubles what the buffer is asked to hold.
LEMMA MakeSpace ==
  ASSUME NEW b, Sound(b), NEW len \in Nat, writableBytes(b) < len
  PROVE  LET e == makeSpace(b, len) IN
         /\ Sound(e)
         /\ writableBytes(e) >= len
         /\ content(e) = content(b)
         /\ e.reader # b.reader => kCheapPrepend < b.reader
         /\ Len(e.buffer) >= Len(b.buffer)
         /\ \/ Len(e.buffer) = Len(b.buffer)
            \/ Len(e.buffer) <= kCheapPrepend + 2 * (readableBytes(b) + len)
<1> DEFINE e == makeSpace(b, len)
<1>0. /\ b = [buffer |-> b.buffer, reader |-> b.reader, writer |-> b.writer]
      /\ b.buffer \in Seq(Byte) /\ b.reader \in Nat /\ b.writer \in Nat
      /\ Len(b.buffer) \in Nat
      /\ b.reader <= b.writer /\ b.writer <= Len(b.buffer)
  BY Parts
<1>1. CASE writableBytes(b) + prependableBytes(b) < len + kCheapPrepend
  <2> DEFINE n == b.writer + len
  <2>1. e = [buffer |-> resize(b.buffer, n), reader |-> b.reader, writer |-> b.writer]
    BY <1>0, <1>1 DEF makeSpace
  <2>2. n \in Nat /\ Len(b.buffer) < n
    BY <1>0 DEF writableBytes
  <2>3. /\ resize(b.buffer, n) \in Seq(Byte)
        /\ Len(resize(b.buffer, n)) = n
        /\ \A i \in 1..n : i <= Len(b.buffer) => resize(b.buffer, n)[i] = b.buffer[i]
    BY <1>0, <2>2, ResizeType
  <2>4. /\ e.buffer = resize(b.buffer, n) /\ e.reader = b.reader /\ e.writer = b.writer
        /\ Sound(e)
    BY <1>0, <2>1, <2>2, <2>3 DEF Sound, Object
  <2>5. writableBytes(e) >= len
    BY <1>0, <2>3, <2>4 DEF writableBytes
  <2>6. content(e) = content(b)
    <3>1. readableBytes(e) = readableBytes(b)
      BY <2>4 DEF readableBytes
    <3>2. \A i \in 1..readableBytes(b) : e.buffer[e.reader + i] = b.buffer[b.reader + i]
      <4> SUFFICES ASSUME NEW i \in 1..(b.writer - b.reader)
                   PROVE  resize(b.buffer, n)[b.reader + i] = b.buffer[b.reader + i]
        BY <2>4 DEF readableBytes
      <4>1. b.reader + i \in 1..n /\ b.reader + i <= Len(b.buffer)
        BY <1>0, <2>2, SMTT(30)
      <4> QED
        BY <2>3, <4>1
    <3> QED
      BY <2>4, <3>1, <3>2, SameContent
  <2>7. Len(e.buffer) <= kCheapPrepend + 2 * (readableBytes(b) + len)
    <3>1. Len(e.buffer) = b.writer + len /\ readableBytes(b) = b.writer - b.reader
      BY <2>3, <2>4 DEF readableBytes
    <3>2. (Len(b.buffer) - b.writer) + b.reader < len + kCheapPrepend
      BY <1>1 DEF writableBytes, prependableBytes
    <3>3. /\ b.reader \in Nat /\ b.writer \in Nat /\ Len(b.buffer) \in Nat /\ kCheapPrepend \in Nat
          /\ b.reader <= b.writer /\ b.writer <= Len(b.buffer)
      BY <1>0
    <3> DEFINE w == b.writer
               r == b.reader
               l == Len(b.buffer)
    <3>4. /\ w \in Nat /\ r \in Nat /\ l \in Nat /\ kCheapPrepend \in Nat
          /\ r <= w /\ r <= l /\ (l - w) + r < len + kCheapPrepend
      BY <3>2, <3>3
    <3> HIDE DEF w, r, l
    <3>5. w + len <= kCheapPrepend + 2 * ((w - r) + len)
      BY <3>4
    <3> QED
      BY <3>1, <3>5 DEF w, r
  <2>8. Len(e.buffer) >= Len(b.buffer)
    BY <1>0, <2>2, <2>3, <2>4
  <2> QED
    BY <2>4, <2>5, <2>6, <2>7, <2>8
<1>2. CASE ~(writableBytes(b) + prependableBytes(b) < len + kCheapPrepend)
  <2> DEFINE c == copy(b.buffer, kCheapPrepend, content(b))
             n == readableBytes(b)
  <2>1. e = [buffer |-> c, reader |-> kCheapPrepend, writer |-> kCheapPrepend + n]
    BY <1>2 DEF makeSpace
  <2>2. /\ content(b) \in Seq(Byte) /\ n \in Nat /\ Len(content(b)) = n
        /\ \A i \in 1..n : content(b)[i] = b.buffer[b.reader + i]
    BY ContentType
  <2>3. /\ c \in Seq(Byte) /\ Len(c) = Len(b.buffer)
        /\ \A i \in 1..Len(b.buffer) : c[i] =
             IF i > kCheapPrepend /\ i <= kCheapPrepend + Len(content(b))
             THEN content(b)[i - kCheapPrepend] ELSE b.buffer[i]
    <3>1. b.buffer \in Seq(Byte) /\ content(b) \in Seq(Byte)
      BY <1>0, <2>2
    <3>2. kCheapPrepend \in Nat
      BY <1>0
    <3> QED
      BY <3>1, <3>2, CopyType, Zenon
  <2>4. kCheapPrepend < b.reader
    BY <1>0, <1>2 DEF writableBytes, prependableBytes
  <2>5. kCheapPrepend + n + len <= Len(b.buffer)
    <3>1. writableBytes(b) = Len(b.buffer) - b.writer /\ prependableBytes(b) = b.reader
      BY DEF writableBytes, prependableBytes
    <3>2. len + kCheapPrepend <= (Len(b.buffer) - b.writer) + b.reader
      BY <1>0, <1>2, <3>1
    <3>3. n = b.writer - b.reader
      BY DEF readableBytes
    <3>4. b.writer \in Nat /\ b.reader \in Nat /\ Len(b.buffer) \in Nat /\ kCheapPrepend \in Nat
      BY <1>0
    <3> HIDE DEF n
    <3> QED
      BY <3>2, <3>3, <3>4, SMTT(30)
  <2> HIDE DEF c, n, e
  <2>6. /\ e.buffer = c /\ e.reader = kCheapPrepend /\ e.writer = kCheapPrepend + n
        /\ Sound(e)
    BY <2>1, <2>2, <2>3, <2>5 DEF Sound, Object
  <2>7. writableBytes(e) >= len
    BY <1>0, <2>2, <2>3, <2>5, <2>6 DEF writableBytes
  <2>8. content(e) = content(b)
    <3>1. readableBytes(e) = n
      BY <2>2, <2>6 DEF readableBytes
    <3>2. \A i \in 1..n : e.buffer[e.reader + i] = b.buffer[b.reader + i]
      <4> SUFFICES ASSUME NEW i \in 1..n PROVE c[kCheapPrepend + i] = b.buffer[b.reader + i]
        BY <2>6
      <4>1. kCheapPrepend + i \in 1..Len(b.buffer)
        <5>1. kCheapPrepend \in Nat /\ n \in Nat /\ Len(b.buffer) \in Nat
          BY <1>0, <2>2
        <5> QED
          BY <2>5, <5>1
      <4>2. kCheapPrepend + i > kCheapPrepend /\ kCheapPrepend + i <= kCheapPrepend + n
        BY <2>2
      <4>3. c[kCheapPrepend + i] = content(b)[(kCheapPrepend + i) - kCheapPrepend]
        BY <2>2, <2>3, <4>1, <4>2, Zenon
      <4>4. (kCheapPrepend + i) - kCheapPrepend = i
        BY <2>2
      <4> QED
        BY <2>2, <4>3, <4>4
    <3> QED
      BY <2>6, <3>1, <3>2, SameContent DEF n
  <2>9. Len(e.buffer) = Len(b.buffer) /\ Len(e.buffer) >= Len(b.buffer)
    BY <1>0, <2>3, <2>6
  <2> QED
    BY <2>4, <2>6, <2>7, <2>8, <2>9 DEF e
<1> QED
  BY <1>1, <1>2

\* The same for ensureWritableBytes, which asks for room only when there is too little.
LEMMA EnsureWritableBytes ==
  ASSUME NEW b, Sound(b), NEW len \in Nat
  PROVE  LET e == ensureWritableBytes(b, len) IN
         /\ Sound(e)
         /\ writableBytes(e) >= len
         /\ content(e) = content(b)
         /\ e.reader # b.reader => kCheapPrepend < b.reader
         /\ Len(e.buffer) >= Len(b.buffer)
         /\ \/ Len(e.buffer) = Len(b.buffer)
            \/ Len(e.buffer) <= kCheapPrepend + 2 * (readableBytes(b) + len)
<1>1. CASE writableBytes(b) < len
  BY <1>1, MakeSpace DEF ensureWritableBytes
<1>2. CASE ~(writableBytes(b) < len)
  <2>1. writableBytes(b) >= len
    BY <1>2, Parts DEF writableBytes
  <2> QED
    BY <1>2, <2>1, Parts DEF ensureWritableBytes
<1> QED
  BY <1>1, <1>2

\* hasWritten makes the bytes written at beginWrite() readable.
LEMMA HasWrittenLemma ==
  ASSUME NEW b, Sound(b), NEW data \in Seq(Byte), Len(data) <= writableBytes(b)
  PROVE  LET e == hasWritten(b, data) IN
         /\ Sound(e)
         /\ content(e) = content(b) \o data
         /\ Len(e.buffer) = Len(b.buffer)
<1> DEFINE e == hasWritten(b, data)
           c == copy(b.buffer, b.writer, data)
           n == readableBytes(b)
<1>0. /\ b = [buffer |-> b.buffer, reader |-> b.reader, writer |-> b.writer]
      /\ b.buffer \in Seq(Byte) /\ b.reader \in Nat /\ b.writer \in Nat
      /\ Len(b.buffer) \in Nat /\ Len(data) \in Nat
      /\ b.reader <= b.writer /\ b.writer <= Len(b.buffer)
  BY Parts
<1>1. e = [buffer |-> c, reader |-> b.reader, writer |-> b.writer + Len(data)]
  BY <1>0 DEF hasWritten
<1>2. /\ c \in Seq(Byte) /\ Len(c) = Len(b.buffer)
      /\ \A i \in 1..Len(b.buffer) : c[i] =
           IF i > b.writer /\ i <= b.writer + Len(data) THEN data[i - b.writer] ELSE b.buffer[i]
  BY <1>0, CopyType, ZenonT(40)
<1>3. /\ content(b) \in Seq(Byte) /\ n \in Nat /\ Len(content(b)) = n
      /\ \A i \in 1..n : content(b)[i] = b.buffer[b.reader + i]
  BY ContentType
<1>4. b.writer + Len(data) <= Len(b.buffer)
  BY <1>0 DEF writableBytes
<1>5. n = b.writer - b.reader
  BY DEF readableBytes
<1> HIDE DEF e, c, n
<1>6. /\ e.buffer = c /\ e.reader = b.reader /\ e.writer = b.writer + Len(data)
      /\ Sound(e)
  BY <1>0, <1>1, <1>2, <1>4 DEF Sound, Object
<1>7. /\ content(e) \in Seq(Byte) /\ readableBytes(e) = n + Len(data)
      /\ Len(content(e)) = n + Len(data)
      /\ \A i \in 1..(n + Len(data)) : content(e)[i] = c[b.reader + i]
  <2>1. readableBytes(e) = n + Len(data)
    BY <1>0, <1>5, <1>6 DEF readableBytes
  <2> QED
    BY <1>6, <2>1, ContentType
<1>8. /\ content(b) \o data \in Seq(Byte)
      /\ Len(content(b) \o data) = n + Len(data)
      /\ \A i \in 1..(n + Len(data)) :
           (content(b) \o data)[i] = IF i <= n THEN content(b)[i] ELSE data[i - n]
  BY <1>3, Concat
<1>9. \A i \in 1..(n + Len(data)) : content(e)[i] = (content(b) \o data)[i]
  <2> SUFFICES ASSUME NEW i \in 1..(n + Len(data))
               PROVE  c[b.reader + i] = IF i <= n THEN content(b)[i] ELSE data[i - n]
    BY <1>7, <1>8
  <2>1. b.reader + i \in 1..Len(b.buffer)
    BY <1>0, <1>3, <1>4, <1>5, SMTT(30)
  <2>2. CASE i <= n
    <3>1. ~(b.reader + i > b.writer) /\ i \in 1..n
      BY <1>0, <1>3, <1>5, <2>2
    <3>2. c[b.reader + i] = b.buffer[b.reader + i]
      BY <1>2, <2>1, <3>1, Zenon
    <3> QED
      BY <1>3, <2>2, <3>1, <3>2
  <2>3. CASE ~(i <= n)
    <3>1. b.reader + i > b.writer /\ b.reader + i <= b.writer + Len(data)
      BY <1>0, <1>3, <1>5, <2>3, SMTT(30)
    <3>2. c[b.reader + i] = data[(b.reader + i) - b.writer]
      BY <1>2, <2>1, <3>1, Zenon
    <3>3. (b.reader + i) - b.writer = i - n
      BY <1>0, <1>3, <1>5
    <3> QED
      BY <2>3, <3>2, <3>3
  <2> QED
    BY <2>2, <2>3
<1>10. content(e) = content(b) \o data
  BY <1>7, <1>8, <1>9, SameSeq, Zenon
<1> QED
  BY <1>2, <1>6, <1>10 DEF e

\* append adds the bytes at the end.
LEMMA AppendLemma ==
  ASSUME NEW b, Sound(b), NEW data \in Seq(Byte)
  PROVE  LET e == append(b, data) IN
         /\ Sound(e)
         /\ content(e) = content(b) \o data
         /\ Len(e.buffer) >= Len(b.buffer)
         /\ \/ Len(e.buffer) = Len(b.buffer)
            \/ Len(e.buffer) <= kCheapPrepend + 2 * (readableBytes(b) + Len(data))
<1> DEFINE m == ensureWritableBytes(b, Len(data))
<1>1. Len(data) \in Nat
  OBVIOUS
<1>2. /\ Sound(m) /\ writableBytes(m) >= Len(data)
      /\ content(m) = content(b)
      /\ Len(m.buffer) >= Len(b.buffer)
      /\ \/ Len(m.buffer) = Len(b.buffer)
         \/ Len(m.buffer) <= kCheapPrepend + 2 * (readableBytes(b) + Len(data))
  BY <1>1, EnsureWritableBytes
<1> HIDE DEF m
<1>3. Len(data) <= writableBytes(m)
  BY <1>1, <1>2, Parts DEF writableBytes
<1>4. /\ Sound(hasWritten(m, data))
      /\ content(hasWritten(m, data)) = content(m) \o data
      /\ Len(hasWritten(m, data).buffer) = Len(m.buffer)
  BY <1>2, <1>3, HasWrittenLemma
<1>5. append(b, data) = hasWritten(m, data)
  BY DEF append, m
<1> QED
  BY <1>2, <1>4, <1>5

\* prepend adds the bytes at the front.
LEMMA PrependLemma ==
  ASSUME NEW b, Sound(b), NEW data \in Seq(Byte), Len(data) <= prependableBytes(b)
  PROVE  LET e == prepend(b, data) IN
         /\ Sound(e)
         /\ content(e) = data \o content(b)
         /\ Len(e.buffer) = Len(b.buffer)
<1> DEFINE e == prepend(b, data)
           c == copy(b.buffer, b.reader - Len(data), data)
           n == readableBytes(b)
           k == Len(data)
           r == b.reader - Len(data)
<1>0. /\ b = [buffer |-> b.buffer, reader |-> b.reader, writer |-> b.writer]
      /\ b.buffer \in Seq(Byte) /\ b.reader \in Nat /\ b.writer \in Nat
      /\ Len(b.buffer) \in Nat /\ k \in Nat
      /\ b.reader <= b.writer /\ b.writer <= Len(b.buffer)
  BY Parts
<1>1. r \in Nat /\ r + k = b.reader
  BY <1>0 DEF prependableBytes
<1>2. e = [buffer |-> c, reader |-> r, writer |-> b.writer]
  BY <1>0 DEF prepend
<1>3. /\ c \in Seq(Byte) /\ Len(c) = Len(b.buffer)
      /\ \A i \in 1..Len(b.buffer) : c[i] =
           IF i > r /\ i <= r + k THEN data[i - r] ELSE b.buffer[i]
  <2>1. b.buffer \in Seq(Byte) /\ r \in Nat
    BY <1>0, <1>1
  <2> QED
    BY <2>1, CopyType, Zenon
<1>4. /\ content(b) \in Seq(Byte) /\ n \in Nat /\ Len(content(b)) = n
      /\ \A i \in 1..n : content(b)[i] = b.buffer[b.reader + i]
  BY ContentType
<1>5. n = b.writer - b.reader
  BY DEF readableBytes
<1>a. k = Len(data)
  OBVIOUS
<1> HIDE DEF e, c, n, k, r
<1>6. /\ e.buffer = c /\ e.reader = r /\ e.writer = b.writer
      /\ Sound(e)
  BY <1>0, <1>1, <1>2, <1>3 DEF Sound, Object
<1>7. /\ content(e) \in Seq(Byte)
      /\ Len(content(e)) = k + n
      /\ \A i \in 1..(k + n) : content(e)[i] = c[r + i]
  <2>1. readableBytes(e) = k + n
    BY <1>0, <1>1, <1>5, <1>6 DEF readableBytes
  <2> QED
    BY <1>6, <2>1, ContentType
<1>8. /\ data \o content(b) \in Seq(Byte)
      /\ Len(data \o content(b)) = k + n
      /\ \A i \in 1..(k + n) :
           (data \o content(b))[i] = IF i <= k THEN data[i] ELSE content(b)[i - k]
  BY <1>4, <1>a, Concat
<1>9. \A i \in 1..(k + n) : content(e)[i] = (data \o content(b))[i]
  <2> SUFFICES ASSUME NEW i \in 1..(k + n)
               PROVE  c[r + i] = IF i <= k THEN data[i] ELSE content(b)[i - k]
    BY <1>7, <1>8
  <2>a. /\ r \in Nat /\ k \in Nat /\ n \in Nat /\ r + k = b.reader
        /\ (r + k) + n <= Len(b.buffer) /\ Len(b.buffer) \in Nat
    <3>1. b.reader + n = b.writer
      BY <1>0, <1>5
    <3> QED
      BY <1>0, <1>1, <1>4, <3>1
  <2>1. r + i \in 1..Len(b.buffer)
    BY <2>a
  <2>2. CASE i <= k
    <3>1. r + i > r /\ r + i <= r + k
      BY <2>a, <2>2
    <3>2. c[r + i] = data[(r + i) - r]
      <4>1. c[r + i] = IF r + i > r /\ r + i <= r + k THEN data[(r + i) - r] ELSE b.buffer[r + i]
        BY <1>3, <2>1, Zenon
      <4> QED
        BY <3>1, <4>1, Zenon
    <3>3. (r + i) - r = i
      BY <2>a
    <3> QED
      BY <2>2, <3>2, <3>3
  <2>3. CASE ~(i <= k)
    <3>1. ~(r + i <= r + k) /\ i - k \in 1..n /\ b.reader + (i - k) = r + i
      BY <2>a, <2>3
    <3>2. c[r + i] = b.buffer[r + i]
      BY <1>3, <2>1, <3>1, Zenon
    <3> QED
      BY <1>4, <2>3, <3>1, <3>2
  <2> QED
    BY <2>2, <2>3
<1>10. content(e) = data \o content(b)
  BY <1>7, <1>8, <1>9, SameSeq, Zenon
<1> QED
  BY <1>3, <1>6, <1>10 DEF e

\* retrieve takes bytes from the front.  The vector must be large enough for the
\* prepend space, which it is from the start on.
LEMMA RetrieveLemma ==
  ASSUME NEW b, Sound(b), kCheapPrepend <= Len(b.buffer),
         NEW len \in Nat, len <= readableBytes(b)
  PROVE  LET e == retrieve(b, len) IN
         /\ Sound(e)
         /\ content(e) = SubSeq(content(b), len + 1, readableBytes(b))
         /\ Len(e.buffer) = Len(b.buffer)
<1> DEFINE e == retrieve(b, len)
           n == readableBytes(b)
           s == SubSeq(content(b), len + 1, n)
<1>0. /\ b = [buffer |-> b.buffer, reader |-> b.reader, writer |-> b.writer]
      /\ b.buffer \in Seq(Byte) /\ b.reader \in Nat /\ b.writer \in Nat
      /\ Len(b.buffer) \in Nat
      /\ b.reader <= b.writer /\ b.writer <= Len(b.buffer)
  BY Parts
<1>1. /\ content(b) \in Seq(Byte) /\ n \in Nat /\ Len(content(b)) = n
      /\ \A i \in 1..n : content(b)[i] = b.buffer[b.reader + i]
  BY ContentType
<1>2. n = b.writer - b.reader
  BY DEF readableBytes
<1>3. /\ s \in Seq(Byte) /\ Len(s) = n - len
      /\ \A i \in 1..(n - len) : s[i] = content(b)[len + i]
  <2> DEFINE c == content(b)
  <2>1. c \in Seq(Byte) /\ n \in Nat /\ Len(c) = n /\ len <= n
    BY <1>1
  <2> HIDE DEF c, n
  <2>2. s = SubSeq(c, len + 1, n)
    BY DEF c
  <2> HIDE DEF s
  <2>3. /\ s \in Seq(Byte) /\ Len(s) = n - len
        /\ \A i \in 1..(n - len) : s[i] = c[len + i]
    BY <2>1, <2>2, SMTT(30)
  <2> QED
    BY <2>3 DEF c
<1>4. CASE len < n
  <2>1. e = [buffer |-> b.buffer, reader |-> b.reader + len, writer |-> b.writer]
    BY <1>0, <1>4 DEF retrieve
  <2> HIDE DEF e, n, s
  <2>2. /\ e.buffer = b.buffer /\ e.reader = b.reader + len /\ e.writer = b.writer
        /\ Sound(e)
    BY <1>0, <1>2, <1>4, <2>1 DEF Sound, Object
  <2>3. /\ content(e) \in Seq(Byte)
        /\ Len(content(e)) = n - len
        /\ \A i \in 1..(n - len) : content(e)[i] = b.buffer[(b.reader + len) + i]
    <3>1. readableBytes(e) = n - len
      BY <1>0, <1>2, <2>2 DEF readableBytes
    <3> QED
      BY <2>2, <3>1, ContentType
  <2>4. \A i \in 1..(n - len) : content(e)[i] = s[i]
    <3> SUFFICES ASSUME NEW i \in 1..(n - len)
                 PROVE  b.buffer[(b.reader + len) + i] = content(b)[len + i]
      BY <1>3, <2>3
    <3>1. len + i \in 1..n /\ b.reader + (len + i) = (b.reader + len) + i
      BY <1>0, <1>1
    <3> QED
      BY <1>1, <3>1
  <2>5. content(e) = s
    BY <1>3, <2>3, <2>4, SameSeq, Zenon
  <2> QED
    BY <2>2, <2>5 DEF e, s, n
<1>5. CASE ~(len < n)
  <2>1. e = [buffer |-> b.buffer, reader |-> kCheapPrepend, writer |-> kCheapPrepend]
    BY <1>5 DEF retrieve, retrieveAll
  <2> HIDE DEF e
  <2>2. /\ e.buffer = b.buffer /\ e.reader = kCheapPrepend /\ e.writer = kCheapPrepend
        /\ Sound(e)
    BY <1>0, <2>1 DEF Sound, Object
  <2>3. content(e) \in Seq(Byte) /\ Len(content(e)) = 0
    BY <2>2, ContentType DEF readableBytes
  <2>4. Len(s) = 0
    BY <1>1, <1>3, <1>5
  <2> HIDE DEF s, n
  <2>5. content(e) = s
    BY <1>3, <2>3, <2>4, SameSeq
  <2> QED
    BY <2>2, <2>5 DEF e, s, n
<1> QED
  BY <1>4, <1>5

\* retrieveAll empties the buffer.
LEMMA RetrieveAllLemma ==
  ASSUME NEW b, Sound(b), kCheapPrepend <= Len(b.buffer)
  PROVE  LET e == retrieveAll(b) IN
         /\ Sound(e)
         /\ content(e) = <<>>
         /\ Len(e.buffer) = Len(b.buffer)
<1> DEFINE e == retrieveAll(b)
<1>1. b.buffer \in Seq(Byte) /\ Len(b.buffer) \in Nat
  BY Parts
<1>2. e = [buffer |-> b.buffer, reader |-> kCheapPrepend, writer |-> kCheapPrepend]
  BY DEF retrieveAll
<1> HIDE DEF e
<1>3. /\ e.buffer = b.buffer /\ e.reader = kCheapPrepend /\ e.writer = kCheapPrepend
      /\ Sound(e)
  BY <1>1, <1>2 DEF Sound, Object
<1>4. content(e) \in Seq(Byte) /\ Len(content(e)) = 0
  BY <1>3, ContentType DEF readableBytes
<1>5. content(e) = <<>>
  BY <1>4
<1> QED
  BY <1>3, <1>5 DEF e

\* unwrite takes bytes from the end.
LEMMA UnwriteLemma ==
  ASSUME NEW b, Sound(b), NEW len \in Nat, len <= readableBytes(b)
  PROVE  LET e == unwrite(b, len) IN
         /\ Sound(e)
         /\ content(e) = SubSeq(content(b), 1, readableBytes(b) - len)
         /\ Len(e.buffer) = Len(b.buffer)
<1> DEFINE e == unwrite(b, len)
           n == readableBytes(b)
           s == SubSeq(content(b), 1, n - len)
<1>0. /\ b = [buffer |-> b.buffer, reader |-> b.reader, writer |-> b.writer]
      /\ b.buffer \in Seq(Byte) /\ b.reader \in Nat /\ b.writer \in Nat
      /\ Len(b.buffer) \in Nat
      /\ b.reader <= b.writer /\ b.writer <= Len(b.buffer)
  BY Parts
<1>1. /\ content(b) \in Seq(Byte) /\ n \in Nat /\ Len(content(b)) = n
      /\ \A i \in 1..n : content(b)[i] = b.buffer[b.reader + i]
  BY ContentType
<1>2. n = b.writer - b.reader
  BY DEF readableBytes
<1>3. /\ s \in Seq(Byte) /\ Len(s) = n - len
      /\ \A i \in 1..(n - len) : s[i] = content(b)[i]
  BY <1>1
<1>4. e = [buffer |-> b.buffer, reader |-> b.reader, writer |-> b.writer - len]
  BY <1>0 DEF unwrite
<1> HIDE DEF e, n, s
<1>5. /\ e.buffer = b.buffer /\ e.reader = b.reader /\ e.writer = b.writer - len
      /\ Sound(e)
  BY <1>0, <1>2, <1>4 DEF Sound, Object, readableBytes, n
<1>6. /\ content(e) \in Seq(Byte)
      /\ Len(content(e)) = n - len
      /\ \A i \in 1..(n - len) : content(e)[i] = b.buffer[b.reader + i]
  <2>1. readableBytes(e) = n - len
    BY <1>0, <1>2, <1>5 DEF readableBytes
  <2> QED
    BY <1>5, <2>1, ContentType
<1>7. \A i \in 1..(n - len) : content(e)[i] = s[i]
  <2> SUFFICES ASSUME NEW i \in 1..(n - len) PROVE b.buffer[b.reader + i] = content(b)[i]
    BY <1>3, <1>6
  <2>1. i \in 1..n
    BY <1>1
  <2> QED
    BY <1>1, <2>1
<1>8. content(e) = s
  BY <1>3, <1>6, <1>7, SameSeq, Zenon
<1> QED
  BY <1>5, <1>8 DEF e, s, n

\* A new buffer is empty and has the space the constructor promises.
LEMMA NewLemma ==
  /\ Sound(New) /\ content(New) = <<>>
  /\ Len(New.buffer) = kCheapPrepend + kInitialSize
  /\ readableBytes(New) = 0
<1> DEFINE v == [i \in 1..(kCheapPrepend + kInitialSize) |-> 0]
<1>1. v \in Seq(Byte) /\ Len(v) = kCheapPrepend + kInitialSize
  BY FunctionIsSeq
<1> HIDE DEF v
<1>2. New = [buffer |-> v, reader |-> kCheapPrepend, writer |-> kCheapPrepend]
  BY DEF New, v
<1>3. /\ New.buffer = v /\ New.reader = kCheapPrepend /\ New.writer = kCheapPrepend
      /\ Sound(New)
  BY <1>1, <1>2 DEF Sound, Object
<1>4. readableBytes(New) = 0
  BY <1>3 DEF readableBytes
<1>5. content(New) \in Seq(Byte) /\ Len(content(New)) = 0
  BY <1>3, <1>4, ContentType
<1> QED
  BY <1>1, <1>3, <1>4, <1>5

\* shrink keeps the readable bytes; its vector fits them and the reserve.
LEMMA ShrinkLemma ==
  ASSUME NEW b, Sound(b), NEW reserve \in Nat
  PROVE  LET e == shrink(b, reserve) IN
         /\ Sound(e)
         /\ content(e) = content(b)
         /\ Len(e.buffer) >= kCheapPrepend + kInitialSize
         /\ \/ Len(e.buffer) = kCheapPrepend + kInitialSize
            \/ Len(e.buffer) <= kCheapPrepend + 2 * (readableBytes(b) + reserve)
<1> DEFINE n == readableBytes(b)
           m == ensureWritableBytes(New, n + reserve)
<1>1. content(b) \in Seq(Byte) /\ n \in Nat /\ Len(content(b)) = n
  BY ContentType
<1>2. /\ Sound(m)
      /\ content(m) = <<>>
      /\ writableBytes(m) >= n + reserve
      /\ Len(m.buffer) >= kCheapPrepend + kInitialSize
      /\ \/ Len(m.buffer) = kCheapPrepend + kInitialSize
         \/ Len(m.buffer) <= kCheapPrepend + 2 * (n + reserve)
  <2>1. n + reserve \in Nat
    BY <1>1
  <2>2. 0 + (n + reserve) = n + reserve
    BY <1>1
  <2> QED
    BY <2>1, <2>2, NewLemma, EnsureWritableBytes
<1> HIDE DEF m
<1>3. Len(content(b)) <= writableBytes(m)
  BY <1>1, <1>2, Parts, SMTT(30) DEF writableBytes
<1>4. append(m, content(b)) = hasWritten(m, content(b))
  <2>1. ~(writableBytes(m) < Len(content(b)))
    BY <1>1, <1>2, <1>3, Parts, SMTT(30) DEF writableBytes
  <2> QED
    BY <2>1 DEF append, ensureWritableBytes
<1>5. /\ Sound(hasWritten(m, content(b)))
      /\ content(hasWritten(m, content(b))) = content(m) \o content(b)
      /\ Len(hasWritten(m, content(b)).buffer) = Len(m.buffer)
  BY <1>1, <1>2, <1>3, HasWrittenLemma
<1>6. <<>> \o content(b) = content(b)
  BY <1>1
<1>7. shrink(b, reserve) = hasWritten(m, content(b))
  BY <1>4 DEF shrink, m
<1> QED
  BY <1>2, <1>5, <1>6, <1>7

-----------------------------------------------------------------------------
(* The invariant: the vector never gets smaller than a new one, which is    *)
(* what retrieveAll needs to put its indices inside it.                     *)

Roomy == kCheapPrepend + kInitialSize <= Len(buf.buffer)

Inv == TypeOK /\ Roomy /\ GrowthBounded

LEMMA DataAreSeqs == \A data \in Data : data \in Seq(Byte) /\ Len(data) \in Nat
<1> SUFFICES ASSUME NEW data \in Data PROVE data \in Seq(Byte) /\ Len(data) \in Nat
  OBVIOUS
<1>1. PICK n \in 0..MaxLen : data \in [1..n -> Byte]
  BY DEF Data
<1>2. n \in Nat
  OBVIOUS
<1> QED
  BY <1>1, <1>2, FunctionIsSeq

\* A call whose object is sound, roomy and within the bound for what was asked keeps Inv.
LEMMA CallKeepsInv ==
  ASSUME Inv, NEW e, Sound(e), buf' = e, NEW n \in Nat,
         kCheapPrepend + kInitialSize <= Len(e.buffer),
         \/ Len(e.buffer) = Len(buf.buffer)
         \/ Len(e.buffer) = kCheapPrepend + kInitialSize
         \/ Len(e.buffer) <= kCheapPrepend + 2 * n,
         Asked(n)
  PROVE  Inv'
<1>1. peak \in Nat /\ peak' \in Nat /\ n <= peak' /\ peak <= peak'
  BY DEF Inv, TypeOK, Asked
<1>2. TypeOK'
  BY <1>1 DEF TypeOK, Sound
<1>3. Len(e.buffer) \in Nat /\ Len(buf.buffer) \in Nat
  BY Parts DEF Inv, TypeOK, Object
<1>4. Roomy'
  BY DEF Roomy
<1>5. \/ Len(e.buffer) <= kCheapPrepend + kInitialSize
      \/ Len(e.buffer) <= kCheapPrepend + 2 * peak'
  BY <1>1, <1>3, SMTT(30) DEF Inv, GrowthBounded
<1> QED
  BY <1>2, <1>4, <1>5 DEF Inv, GrowthBounded

\* Calls that ask for no room: the vector keeps its size.
LEMMA QuietCallKeepsInv ==
  ASSUME Inv, NEW e, Sound(e), buf' = e, Len(e.buffer) = Len(buf.buffer), UNCHANGED peak
  PROVE  Inv'
<1>1. Asked(0)
  BY DEF Inv, TypeOK, Asked
<1>2. kCheapPrepend + kInitialSize <= Len(e.buffer)
  BY DEF Inv, Roomy
<1> QED
  BY <1>1, <1>2, CallKeepsInv

LEMMA InvFacts ==
  ASSUME Inv
  PROVE  /\ Sound(buf)
         /\ Len(buf.buffer) \in Nat
         /\ readableBytes(buf) \in Nat
         /\ kCheapPrepend <= Len(buf.buffer)
<1>1. Sound(buf)
  BY DEF Inv, TypeOK, Sound
<1>2. Len(buf.buffer) \in Nat
  BY <1>1, Parts
<1> QED
  BY <1>1, <1>2, ContentType DEF Inv, Roomy

\* The readable bytes after a step are those of the queue after a step of the queue.
LEMMA StepLemma ==
  ASSUME Inv, Next
  PROVE  Inv' /\ (Queue!Next \/ UNCHANGED content(buf))
<1>0. /\ Sound(buf)
      /\ Len(buf.buffer) \in Nat
      /\ readableBytes(buf) \in Nat
      /\ kCheapPrepend <= Len(buf.buffer)
      /\ kCheapPrepend + kInitialSize <= Len(buf.buffer)
      /\ Len(content(buf)) = readableBytes(buf)
  BY InvFacts, ContentType DEF Inv, Roomy
<1>1. CASE Append_
  <2>1. PICK data \in Data : Call(append(buf, data)) /\ Asked(readableBytes(buf) + Len(data))
    BY <1>1 DEF Append_
  <2>2. data \in Seq(Byte) /\ Len(data) \in Nat
    BY DataAreSeqs
  <2> DEFINE e == append(buf, data)
  <2>3. /\ Sound(e) /\ content(e) = content(buf) \o data
        /\ Len(e.buffer) >= Len(buf.buffer)
        /\ \/ Len(e.buffer) = Len(buf.buffer)
           \/ Len(e.buffer) <= kCheapPrepend + 2 * (readableBytes(buf) + Len(data))
    BY <1>0, <2>2, AppendLemma
  <2>4. buf' = e
    BY <2>1 DEF Call
  <2> HIDE DEF e
  <2>5. kCheapPrepend + kInitialSize <= Len(e.buffer) /\ readableBytes(buf) + Len(data) \in Nat
    <3>1. Len(e.buffer) \in Nat
      BY <2>3, Parts
    <3> QED
      BY <1>0, <2>2, <2>3, <3>1
  <2>6. Inv'
    BY <2>1, <2>3, <2>4, <2>5, CallKeepsInv
  <2>7. content(buf)' = content(buf) \o data
    BY <2>3, <2>4
  <2> QED
    BY <2>6, <2>7 DEF Queue!Next, Queue!AppendBytes
<1>2. CASE EnsureWritable
  <2>1. PICK len \in Lengths :
          Call(ensureWritableBytes(buf, len)) /\ Asked(readableBytes(buf) + len)
    BY <1>2 DEF EnsureWritable
  <2>2. len \in Nat
    BY DEF Lengths
  <2> DEFINE e == ensureWritableBytes(buf, len)
  <2>3. /\ Sound(e) /\ content(e) = content(buf)
        /\ Len(e.buffer) >= Len(buf.buffer)
        /\ \/ Len(e.buffer) = Len(buf.buffer)
           \/ Len(e.buffer) <= kCheapPrepend + 2 * (readableBytes(buf) + len)
    <3>1. Sound(buf)
      BY <1>0
    <3> QED
      BY <2>2, <3>1, EnsureWritableBytes, SMTT(30)
  <2>4. buf' = e
    BY <2>1 DEF Call
  <2> HIDE DEF e
  <2>5. kCheapPrepend + kInitialSize <= Len(e.buffer) /\ readableBytes(buf) + len \in Nat
    <3>1. Len(e.buffer) \in Nat
      BY <2>3, Parts
    <3> QED
      BY <1>0, <2>2, <2>3, <3>1, SMTT(30)
  <2>6. Inv'
    BY <2>1, <2>3, <2>4, <2>5, CallKeepsInv
  <2>7. content(buf)' = content(buf)
    BY <2>3, <2>4
  <2> QED
    BY <2>6, <2>7
<1>3. CASE HasWritten
  <2>1. PICK data \in Data : Len(data) <= writableBytes(buf) /\ Call(hasWritten(buf, data))
    BY <1>3 DEF HasWritten
  <2>2. data \in Seq(Byte)
    BY DataAreSeqs
  <2> DEFINE e == hasWritten(buf, data)
  <2>3. Sound(e) /\ content(e) = content(buf) \o data /\ Len(e.buffer) = Len(buf.buffer)
    BY <1>0, <2>1, <2>2, HasWrittenLemma
  <2>4. buf' = e /\ UNCHANGED peak
    BY <1>3, <2>1 DEF Call, HasWritten
  <2> HIDE DEF e
  <2>5. Inv'
    BY <2>3, <2>4, QuietCallKeepsInv
  <2>6. content(buf)' = content(buf) \o data
    BY <2>3, <2>4
  <2> QED
    BY <2>5, <2>6 DEF Queue!Next, Queue!AppendBytes
<1>4. CASE Prepend_
  <2>1. PICK data \in Data : Len(data) <= prependableBytes(buf) /\ Call(prepend(buf, data))
    BY <1>4 DEF Prepend_
  <2>2. data \in Seq(Byte)
    BY DataAreSeqs
  <2> DEFINE e == prepend(buf, data)
  <2>3. Sound(e) /\ content(e) = data \o content(buf) /\ Len(e.buffer) = Len(buf.buffer)
    BY <1>0, <2>1, <2>2, PrependLemma
  <2>4. buf' = e /\ UNCHANGED peak
    BY <1>4, <2>1 DEF Call, Prepend_
  <2> HIDE DEF e
  <2>5. Inv'
    BY <2>3, <2>4, QuietCallKeepsInv
  <2>6. content(buf)' = data \o content(buf)
    BY <2>3, <2>4
  <2> QED
    BY <2>5, <2>6 DEF Queue!Next, Queue!PrependBytes
<1>5. CASE Retrieve
  <2>1. PICK len \in Lengths : len <= readableBytes(buf) /\ Call(retrieve(buf, len))
    BY <1>5 DEF Retrieve
  <2>2. len \in Nat /\ len \in 0..Len(content(buf))
    BY <1>0, <2>1 DEF Lengths
  <2> DEFINE e == retrieve(buf, len)
  <2>3. /\ Sound(e) /\ Len(e.buffer) = Len(buf.buffer)
        /\ content(e) = SubSeq(content(buf), len + 1, Len(content(buf)))
    BY <1>0, <2>1, <2>2, RetrieveLemma
  <2>4. buf' = e /\ UNCHANGED peak
    BY <1>5, <2>1 DEF Call, Retrieve
  <2> HIDE DEF e
  <2>5. Inv'
    BY <2>3, <2>4, QuietCallKeepsInv
  <2>6. content(buf)' = SubSeq(content(buf), len + 1, Len(content(buf)))
    BY <2>3, <2>4
  <2> QED
    BY <2>2, <2>5, <2>6 DEF Queue!Next, Queue!RetrieveBytes
<1>6. CASE RetrieveAll
  <2> DEFINE e == retrieveAll(buf)
             n == Len(content(buf))
  <2>1. Sound(e) /\ content(e) = <<>> /\ Len(e.buffer) = Len(buf.buffer)
    BY <1>0, RetrieveAllLemma
  <2>2. buf' = e /\ UNCHANGED peak
    BY <1>6 DEF Call, RetrieveAll
  <2>3. n \in 0..n /\ SubSeq(content(buf), n + 1, n) = <<>>
    BY <1>0, ContentType
  <2> HIDE DEF e
  <2>4. Inv'
    BY <2>1, <2>2, QuietCallKeepsInv
  <2>5. content(buf)' = SubSeq(content(buf), n + 1, n)
    BY <2>1, <2>2, <2>3
  <2> QED
    BY <2>3, <2>4, <2>5 DEF Queue!Next, Queue!RetrieveBytes
<1>7. CASE Unwrite
  <2>1. PICK len \in Lengths : len <= readableBytes(buf) /\ Call(unwrite(buf, len))
    BY <1>7 DEF Unwrite
  <2>2. len \in Nat /\ len \in 0..Len(content(buf))
    BY <1>0, <2>1 DEF Lengths
  <2> DEFINE e == unwrite(buf, len)
  <2>3. /\ Sound(e) /\ Len(e.buffer) = Len(buf.buffer)
        /\ content(e) = SubSeq(content(buf), 1, Len(content(buf)) - len)
    BY <1>0, <2>1, <2>2, UnwriteLemma
  <2>4. buf' = e /\ UNCHANGED peak
    BY <1>7, <2>1 DEF Call, Unwrite
  <2> HIDE DEF e
  <2>5. Inv'
    BY <2>3, <2>4, QuietCallKeepsInv
  <2>6. content(buf)' = SubSeq(content(buf), 1, Len(content(buf)) - len)
    BY <2>3, <2>4
  <2> QED
    BY <2>2, <2>5, <2>6 DEF Queue!Next, Queue!UnwriteBytes
<1>8. CASE Shrink
  <2>1. PICK reserve \in Lengths :
          Call(shrink(buf, reserve)) /\ Asked(readableBytes(buf) + reserve)
    BY <1>8 DEF Shrink
  <2>2. reserve \in Nat
    BY DEF Lengths
  <2> DEFINE e == shrink(buf, reserve)
  <2>3. /\ Sound(e) /\ content(e) = content(buf)
        /\ Len(e.buffer) >= kCheapPrepend + kInitialSize
        /\ \/ Len(e.buffer) = kCheapPrepend + kInitialSize
           \/ Len(e.buffer) <= kCheapPrepend + 2 * (readableBytes(buf) + reserve)
    BY <1>0, <2>2, ShrinkLemma
  <2>4. buf' = e
    BY <2>1 DEF Call
  <2> HIDE DEF e
  <2>5. kCheapPrepend + kInitialSize <= Len(e.buffer) /\ readableBytes(buf) + reserve \in Nat
    <3>1. Len(e.buffer) \in Nat
      BY <2>3, Parts
    <3> QED
      BY <1>0, <2>2, <2>3, <3>1
  <2>6. Inv'
    BY <2>1, <2>3, <2>4, <2>5, CallKeepsInv
  <2>7. content(buf)' = content(buf)
    BY <2>3, <2>4
  <2> QED
    BY <2>6, <2>7
<1> QED
  BY <1>1, <1>2, <1>3, <1>4, <1>5, <1>6, <1>7, <1>8 DEF Next

LEMMA InitLemma == Init => Inv /\ Queue!Init
<1> SUFFICES ASSUME Init PROVE Inv /\ Queue!Init
  OBVIOUS
<1>1. buf = New /\ peak = 0
  BY DEF Init
<1>2. TypeOK
  BY <1>1, NewLemma DEF TypeOK, Sound
<1>3. Roomy /\ GrowthBounded
  BY <1>1, NewLemma DEF Roomy, GrowthBounded
<1> QED
  BY <1>1, <1>2, <1>3, NewLemma DEF Inv, Queue!Init

LEMMA StutterLemma == Inv /\ UNCHANGED vars => Inv' /\ UNCHANGED content(buf)
<1> SUFFICES ASSUME Inv, UNCHANGED vars PROVE Inv' /\ UNCHANGED content(buf)
  OBVIOUS
<1>1. buf' = buf /\ peak' = peak
  BY DEF vars
<1> QED
  BY <1>1 DEF Inv, TypeOK, Roomy, GrowthBounded

-----------------------------------------------------------------------------
(* The theorems.                                                            *)

\* The inductive invariant holds in every state of a Buffer.
THEOREM InvHolds == Spec => []Inv
<1>1. Inv /\ [Next]_vars => Inv'
  BY StepLemma, StutterLemma
<1> QED
  BY <1>1, InitLemma, PTL DEF Spec

\* readerIndex_ and writerIndex_ stay ordered and inside the vector, for every sequence of
\* calls, so no method of Buffer touches memory outside it.
THEOREM IndicesStayInside == Spec => []TypeOK
<1>1. Inv => TypeOK
  BY DEF Inv
<1> QED
  BY <1>1, InvHolds, PTL

\* The memory a Buffer takes is at most twice the most it was ever asked to hold
\* (makeSpace).
THEOREM GrowthIsBounded == Spec => []GrowthBounded
<1>1. Inv => GrowthBounded
  BY DEF Inv
<1> QED
  BY <1>1, InvHolds, PTL

\* The assertions inside ensureWritableBytes and makeSpace never fail, and making room
\* keeps every readable byte.
THEOREM SpaceIsAlwaysMade == Spec => []SpaceIsMade
<1>1. Inv => SpaceIsMade
  BY InvFacts, EnsureWritableBytes DEF SpaceIsMade, Lengths
<1> QED
  BY <1>1, InvHolds, PTL

\* append, hasWritten, prepend, retrieve, unwrite and shrink change the readable bytes as
\* their names say, in every reachable state and for every argument.
THEOREM MethodsAreRight == Spec => []MethodsActAsQueue
<1>1. Inv => MethodsActAsQueue
  <2> SUFFICES ASSUME Inv PROVE MethodsActAsQueue
    OBVIOUS
  <2>0. Sound(buf) /\ kCheapPrepend <= Len(buf.buffer)
    BY InvFacts
  <2>1. \A data \in Data : content(append(buf, data)) = content(buf) \o data
    BY <2>0, DataAreSeqs, AppendLemma
  <2>2. \A data \in Data : Len(data) <= writableBytes(buf) =>
          content(hasWritten(buf, data)) = content(buf) \o data
    BY <2>0, DataAreSeqs, HasWrittenLemma
  <2>3. \A data \in Data : Len(data) <= prependableBytes(buf) =>
          content(prepend(buf, data)) = data \o content(buf)
    BY <2>0, DataAreSeqs, PrependLemma
  <2>4. \A len \in Lengths : len \in Nat
    BY DEF Lengths
  <2>5. \A len \in Lengths : len <= readableBytes(buf) =>
          content(retrieve(buf, len)) = SubSeq(content(buf), len + 1, readableBytes(buf))
    BY <2>0, <2>4, RetrieveLemma
  <2>6. \A len \in Lengths : len <= readableBytes(buf) =>
          content(unwrite(buf, len)) = SubSeq(content(buf), 1, readableBytes(buf) - len)
    BY <2>0, <2>4, UnwriteLemma
  <2>7. \A reserve \in Lengths : content(shrink(buf, reserve)) = content(buf)
    BY <2>0, <2>4, ShrinkLemma
  <2> QED
    BY <2>1, <2>2, <2>3, <2>5, <2>6, <2>7 DEF MethodsActAsQueue
<1> QED
  BY <1>1, InvHolds, PTL

\* A Buffer implements the queue of bytes of module ByteQueue.
THEOREM BufferIsByteQueue == Spec => ImplementsByteQueue
<1>1. Inv /\ [Next]_vars => [Queue!Next]_(content(buf))
  BY StepLemma, StutterLemma
<1> QED
  BY <1>1, InitLemma, InvHolds, PTL DEF Spec, ImplementsByteQueue, Queue!Spec
=============================================================================
