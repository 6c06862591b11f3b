---------------------------- MODULE CodecProofs ----------------------------
(***************************************************************************)
(* Proofs about Codec, for any bytes, limits, strings and messages and any *)
(* number of frames.                                                       *)
(***************************************************************************)
EXTENDS Codec, FiniteSetTheorems, SequenceTheorems, TLAPS

-----------------------------------------------------------------------------
(* Integers.                                                                *)

\* Division with remainder.
LEMMA DivMod ==
  ASSUME NEW a \in Nat, NEW b \in Nat \ {0}
  PROVE  /\ a \div b \in Nat /\ a % b \in 0..(b - 1)
         /\ a = (a \div b) * b + (a % b)
OBVIOUS

\* The quotient of a product's part.
LEMMA DivLess ==
  ASSUME NEW a \in Nat, NEW b \in Nat \ {0}, NEW c \in Nat, a < c * b
  PROVE  a \div b < c
<1>1. a \div b \in Nat /\ (a \div b) * b <= a
  BY DivMod
<1> DEFINE q == a \div b
<1>2. q \in Nat /\ q * b <= a
  BY <1>1
<1> HIDE DEF q
<1>3. SUFFICES ASSUME q >= c PROVE FALSE
  BY <1>2 DEF q
<1>4. q * b >= c * b
  BY <1>2, <1>3
<1> QED
  BY <1>2, <1>4

\* Numbers that one byte more or less does not make too large.
LEMMA WordsFacts ==
  /\ Base \in Nat \ {0} /\ Base * Base \in Nat \ {0} /\ Base * Base * Base \in Nat \ {0}
  /\ Words \in Nat \ {0} /\ Words = (Base * Base * Base) * Base
  /\ Words \div 2 \in Nat /\ Words >= 256 /\ 128 <= Words \div 2 /\ Words \div 2 < Words
<1>1. Base \in Nat /\ Base >= 4
  BY BytesAssumption
<1>2. Base * Base \in Nat /\ Base * Base >= 16
  BY <1>1
<1> DEFINE b2 == Base * Base
<1>3. b2 * Base \in Nat /\ b2 * Base >= 64
  <2>1. b2 \in Nat /\ b2 >= 16
    BY <1>2
  <2> HIDE DEF b2
  <2> QED
    BY <1>1, <2>1
<1> DEFINE b3 == b2 * Base
<1>4. b3 * Base \in Nat /\ b3 * Base >= 256
  <2>1. b3 \in Nat /\ b3 >= 64
    BY <1>3
  <2> HIDE DEF b3
  <2> QED
    BY <1>1, <2>1
<1>5. Words \in Nat /\ Words >= 256
  BY <1>4 DEF Words
<1>6. Words \div 2 \in Nat /\ 128 <= Words \div 2 /\ Words \div 2 < Words
  <2> DEFINE w == Words
  <2>1. w \in Nat /\ w >= 256
    BY <1>5
  <2> HIDE DEF w
  <2>2. w \div 2 \in Nat /\ 128 <= w \div 2 /\ w \div 2 < w
    BY <2>1
  <2> QED
    BY <2>2 DEF w
<1> QED
  BY <1>1, <1>2, <1>3, <1>5, <1>6 DEF Words

\* What four bytes stand for, most significant first.
Unsigned(a, b, c, d) == ((a * Base + b) * Base + c) * Base + d
Signed(n) == IF n >= Words \div 2 THEN n - Words ELSE n

\* Four bytes are a number below Words.
LEMMA UnsignedType ==
  ASSUME NEW a \in Byte, NEW b \in Byte, NEW c \in Byte, NEW d \in Byte
  PROVE  Unsigned(a, b, c, d) \in 0..(Words - 1)
<1>1. ASSUME NEW p \in Nat, NEW m \in Nat, p < m, NEW e \in Byte
      PROVE  p * Base + e \in Nat /\ p * Base + e < m * Base
  <2>1. Base \in Nat /\ Base > 0 /\ e \in Nat /\ e < Base
    BY BytesAssumption DEF Byte
  <2>2. (p + 1) * Base <= m * Base
    BY <1>1, <2>1
  <2>3. (p + 1) * Base = p * Base + Base
    BY <2>1
  <2> QED
    BY <2>1, <2>2, <2>3
<1>2. a \in Nat /\ a < Base /\ Base \in Nat
  BY BytesAssumption DEF Byte
<1>3. a * Base + b \in Nat /\ a * Base + b < Base * Base
  BY <1>1, <1>2
<1>4. (a * Base + b) * Base + c \in Nat /\ (a * Base + b) * Base + c < Base * Base * Base
  BY <1>1, <1>3, WordsFacts
<1>5. Unsigned(a, b, c, d) \in Nat /\ Unsigned(a, b, c, d) < Base * Base * Base * Base
  BY <1>1, <1>4, WordsFacts DEF Unsigned
<1> QED
  BY <1>5, WordsFacts DEF Words

\* What networkToHost makes of four bytes, and of different last bytes.
LEMMA NetworkType ==
  ASSUME NEW bytes, bytes[1] \in Byte, bytes[2] \in Byte, bytes[3] \in Byte, bytes[4] \in Byte
  PROVE  /\ networkToHost(bytes) \in Int
         /\ networkToHost(bytes) = Signed(Unsigned(bytes[1], bytes[2], bytes[3], bytes[4]))
<1>1. networkToHost(bytes) = Signed(Unsigned(bytes[1], bytes[2], bytes[3], bytes[4]))
  BY DEF networkToHost, Signed, Unsigned
<1>2. Unsigned(bytes[1], bytes[2], bytes[3], bytes[4]) \in 0..(Words - 1)
  BY UnsignedType
<1> QED
  BY <1>1, <1>2, WordsFacts DEF Signed

\* hostToNetwork writes four bytes from which networkToHost reads the number again.
LEMMA RoundTrip ==
  ASSUME NEW n \in Int, n \in 0..(Words \div 2 - 1) \/ n \in -(Words \div 2)..-1
  PROVE  /\ hostToNetwork(n) \in Seq(Byte) /\ Len(hostToNetwork(n)) = 4
         /\ networkToHost(hostToNetwork(n)) = n
<1> DEFINE low == n % Words
           upper == low \div Base
           middle == upper \div Base
           top == middle \div Base
<1>1. low \in 0..(Words - 1) /\ Signed(low) = n
  <2>1. CASE n \in 0..(Words \div 2 - 1)
    <3>1. low = n
      BY <2>1, WordsFacts
    <3> QED
      BY <2>1, <3>1, WordsFacts DEF Signed
  <2>2. CASE n \in -(Words \div 2)..-1
    <3>1. low = Words + n
      BY <2>2, WordsFacts
    <3>2. Words + n >= Words \div 2
      BY <2>2, WordsFacts
    <3> QED
      BY <2>2, <3>1, <3>2, WordsFacts DEF Signed
  <2> QED
    BY <2>1, <2>2
<1>2. low \in Nat /\ low < (Base * Base * Base) * Base
  BY <1>1, WordsFacts
<1> HIDE DEF low
<1>3. upper \in Nat /\ upper < (Base * Base) * Base /\ low % Base \in 0..(Base - 1)
      /\ low = upper * Base + (low % Base)
  BY <1>2, DivMod, DivLess, WordsFacts
<1> HIDE DEF upper
<1>4. middle \in Nat /\ middle < Base * Base /\ upper % Base \in 0..(Base - 1)
      /\ upper = middle * Base + (upper % Base)
  BY <1>3, DivMod, DivLess, WordsFacts
<1> HIDE DEF middle
<1>5. top \in Nat /\ top < Base /\ middle % Base \in 0..(Base - 1)
      /\ middle = top * Base + (middle % Base)
  BY <1>4, DivMod, DivLess, WordsFacts
<1> HIDE DEF top
<1>6. hostToNetwork(n) = <<top, middle % Base, upper % Base, low % Base>>
  BY DEF hostToNetwork, top, middle, upper, low
<1>7. top \in Byte /\ middle % Base \in Byte /\ upper % Base \in Byte /\ low % Base \in Byte
  BY <1>3, <1>4, <1>5, WordsFacts DEF Byte
<1>8. Unsigned(top, middle % Base, upper % Base, low % Base) = low
  BY <1>3, <1>4, <1>5 DEF Unsigned
<1>9. networkToHost(hostToNetwork(n)) = Signed(low)
  BY <1>6, <1>7, <1>8, NetworkType
<1> QED
  BY <1>1, <1>6, <1>7, <1>9

-----------------------------------------------------------------------------
(* Sequences.                                                               *)

\* The elements of s behind the first a, up to b.
Part(s, a, b) == SubSeq(s, a + 1, b)

\* What a part of a sequence is.
LEMMA PartType ==
  ASSUME NEW S, NEW s \in Seq(S), NEW a \in Nat, NEW b \in Nat, a <= b, b <= Len(s)
  PROVE  /\ Part(s, a, b) \in Seq(S) /\ Len(Part(s, a, b)) = b - a
         /\ \A i \in 1..(b - a) : Part(s, a, b)[i] = s[a + i]
<1> DEFINE m == a + 1
<1>1. /\ m \in Int /\ b \in Int /\ Len(s) \in Nat /\ (b - m) + 1 = b - a
      /\ (IF m <= b THEN (b - m) + 1 ELSE 0) = b - a
  BY LenProperties
<1>2. ASSUME NEW i \in m..b PROVE s[i] \in S
  <2>1. i \in 1..Len(s)
    BY <1>1
  <2> QED
    BY <2>1, ElementOfSeq
<1> HIDE DEF m
<1>3. /\ SubSeq(s, m, b) \in Seq(S) /\ Len(SubSeq(s, m, b)) = b - a
      /\ \A i \in 1..((b - m) + 1) : SubSeq(s, m, b)[i] = s[(m + i) - 1]
  BY <1>1, <1>2, SubSeqProperties
<1>4. ASSUME NEW i \in 1..(b - a)
      PROVE  SubSeq(s, m, b)[i] = s[a + i]
  <2>1. (m + i) - 1 = a + i
    BY DEF m
  <2> QED
    BY <1>1, <1>3, <2>1
<1> QED
  BY <1>3, <1>4 DEF Part, m

\* The elements of a concatenation.
LEMMA Concat ==
  ASSUME NEW S, NEW s \in Seq(S), NEW t \in Seq(S)
  PROVE  /\ s \o t \in Seq(S) /\ Len(s \o t) = Len(s) + Len(t)
         /\ \A i \in 1..Len(s) : (s \o t)[i] = s[i]
         /\ \A i \in 1..Len(t) : (s \o t)[Len(s) + i] = t[i]
<1>1. Len(s) \in Nat /\ Len(t) \in Nat
  BY LenProperties
<1>2. /\ s \o t \in Seq(S) /\ Len(s \o t) = Len(s) + Len(t)
      /\ \A i \in 1..(Len(s) + Len(t)) : (s \o t)[i] = IF i <= Len(s) THEN s[i] ELSE t[i - Len(s)]
  BY ConcatProperties
<1>3. ASSUME NEW i \in 1..Len(s)
      PROVE  (s \o t)[i] = s[i]
  BY <1>1, <1>2
<1>4. ASSUME NEW i \in 1..Len(t)
      PROVE  (s \o t)[Len(s) + i] = t[i]
  <2>1. Len(s) + i \in 1..(Len(s) + Len(t)) /\ ~(Len(s) + i <= Len(s)) /\ (Len(s) + i) - Len(s) = i
    BY <1>1
  <2> QED
    BY <1>2, <2>1
<1> QED
  BY <1>2, <1>3, <1>4

\* A part of a concatenation that lies in its first half.
LEMMA PartOfFirst ==
  ASSUME NEW S, NEW s \in Seq(S), NEW t \in Seq(S), NEW a \in Nat, NEW b \in Nat,
         a <= b, b <= Len(s)
  PROVE  Part(s \o t, a, b) = Part(s, a, b)
<1> DEFINE u == s \o t
           p == Part(u, a, b)
           q == Part(s, a, b)
<1>1. u \in Seq(S) /\ b <= Len(u) /\ \A i \in 1..Len(s) : u[i] = s[i]
  BY Concat, LenProperties
<1> HIDE DEF u
<1>2. p \in Seq(S) /\ Len(p) = b - a /\ \A i \in 1..(b - a) : p[i] = u[a + i]
  <2>1. u \in Seq(S) /\ b <= Len(u)
    BY <1>1
  <2> QED
    BY <2>1, PartType
<1>3. q \in Seq(S) /\ Len(q) = b - a /\ \A i \in 1..(b - a) : q[i] = s[a + i]
  BY PartType
<1> HIDE DEF p, q
<1>4. ASSUME NEW i \in 1..(b - a)
      PROVE  p[i] = q[i]
  <2>1. a + i \in 1..Len(s)
    BY LenProperties
  <2> QED
    BY <1>1, <1>2, <1>3, <2>1
<1>5. p = q
  BY <1>2, <1>3, <1>4, SeqEqual
<1> QED
  BY <1>5 DEF p, q, u

\* A part of a concatenation that lies in its second half.
LEMMA PartOfSecond ==
  ASSUME NEW S, NEW s \in Seq(S), NEW t \in Seq(S), NEW a \in Nat, NEW b \in Nat,
         a <= b, b <= Len(t)
  PROVE  Part(s \o t, Len(s) + a, Len(s) + b) = Part(t, a, b)
<1> DEFINE u == s \o t
           c == Len(s) + a
           d == Len(s) + b
           p == Part(u, c, d)
           q == Part(t, a, b)
<1>1. Len(s) \in Nat /\ Len(t) \in Nat
  BY LenProperties
<1>2. u \in Seq(S) /\ Len(u) = Len(s) + Len(t) /\ \A i \in 1..Len(t) : u[Len(s) + i] = t[i]
  BY Concat
<1>3. c \in Nat /\ d \in Nat /\ c <= d /\ d - c = b - a /\ d <= Len(s) + Len(t)
  BY <1>1
<1>4. ASSUME NEW i \in 1..(b - a)
      PROVE  c + i = Len(s) + (a + i) /\ a + i \in 1..Len(t)
  BY <1>1
<1> HIDE DEF u, c, d
<1>5. p \in Seq(S) /\ Len(p) = b - a /\ \A i \in 1..(b - a) : p[i] = u[c + i]
  <2>1. u \in Seq(S) /\ c \in Nat /\ d \in Nat /\ c <= d /\ d <= Len(u)
    BY <1>2, <1>3
  <2>2. p \in Seq(S) /\ Len(p) = d - c /\ \A i \in 1..(d - c) : p[i] = u[c + i]
    BY <2>1, PartType
  <2> QED
    BY <1>3, <2>2
<1>6. q \in Seq(S) /\ Len(q) = b - a /\ \A i \in 1..(b - a) : q[i] = t[a + i]
  BY PartType
<1> HIDE DEF p, q
<1>7. ASSUME NEW i \in 1..(b - a)
      PROVE  p[i] = q[i]
  <2>1. p[i] = u[c + i] /\ q[i] = t[a + i]
    BY <1>5, <1>6
  <2>2. u[Len(s) + (a + i)] = t[a + i]
    BY <1>2, <1>4
  <2> QED
    BY <1>4, <2>1, <2>2
<1>8. p = q
  BY <1>5, <1>6, <1>7, SeqEqual
<1> QED
  BY <1>8 DEF p, q, u, c, d

\* A part of a part.
LEMMA PartOfPart ==
  ASSUME NEW S, NEW s \in Seq(S), NEW m \in Nat, NEW n \in Nat, m <= n, n <= Len(s),
         NEW a \in Nat, NEW b \in Nat, a <= b, m + b <= n
  PROVE  Part(Part(s, m, n), a, b) = Part(s, m + a, m + b)
<1> DEFINE t == Part(s, m, n)
           c == m + a
           d == m + b
           p == Part(t, a, b)
           q == Part(s, c, d)
<1>1. t \in Seq(S) /\ Len(t) = n - m /\ \A i \in 1..(n - m) : t[i] = s[m + i]
  BY PartType
<1>2. c \in Nat /\ d \in Nat /\ c <= d /\ d <= Len(s) /\ d - c = b - a /\ b <= n - m
  BY LenProperties
<1>3. ASSUME NEW i \in 1..(b - a)
      PROVE  c + i = m + (a + i) /\ a + i \in 1..(n - m)
  OBVIOUS
<1> HIDE DEF t, c, d
<1>4. p \in Seq(S) /\ Len(p) = b - a /\ \A i \in 1..(b - a) : p[i] = t[a + i]
  <2>1. t \in Seq(S) /\ b <= Len(t)
    BY <1>1, <1>2
  <2> QED
    BY <2>1, PartType, ZenonT(40)
<1>5. q \in Seq(S) /\ Len(q) = b - a /\ \A i \in 1..(b - a) : q[i] = s[c + i]
  <2>1. q \in Seq(S) /\ Len(q) = d - c /\ \A i \in 1..(d - c) : q[i] = s[c + i]
    <3>1. c \in Nat /\ d \in Nat /\ c <= d /\ d <= Len(s)
      BY <1>2
    <3> QED
      BY <3>1, PartType, ZenonT(40)
  <2> QED
    BY <1>2, <2>1
<1> HIDE DEF p, q
<1>6. ASSUME NEW i \in 1..(b - a)
      PROVE  p[i] = q[i]
  BY <1>1, <1>3, <1>4, <1>5
<1>7. p = q
  BY <1>4, <1>5, <1>6, SeqEqual
<1> QED
  BY <1>7 DEF p, q, t, c, d

\* A sequence is its first elements and the others.
LEMMA PartsMake ==
  ASSUME NEW S, NEW s \in Seq(S), NEW a \in Nat, a <= Len(s)
  PROVE  /\ Part(s, 0, a) \o Part(s, a, Len(s)) = s
         /\ Part(s, 0, a) = SubSeq(s, 1, a) /\ Part(s, a, Len(s)) = SubSeq(s, a + 1, Len(s))
<1>1. Len(s) \in Nat
  BY LenProperties
<1>2. 1 \in 1..(Len(s) + 1) /\ a \in (1 - 1)..Len(s) /\ Len(s) \in a..Len(s) /\ 0 + 1 = 1
  BY <1>1
<1>3. SubSeq(s, 1, a) \o SubSeq(s, a + 1, Len(s)) = SubSeq(s, 1, Len(s))
  BY <1>2, ConcatAdjacentSubSeq
<1>4. SubSeq(s, 1, Len(s)) = s
  BY SubSeqFull
<1>5. Part(s, 0, a) = SubSeq(s, 1, a) /\ Part(s, a, Len(s)) = SubSeq(s, a + 1, Len(s))
  BY <1>2 DEF Part
<1> QED
  BY <1>3, <1>4, <1>5

-----------------------------------------------------------------------------
(* The methods of Buffer, from the proofs about it.                         *)

L == INSTANCE BufferProofs WITH MaxLen <- 0, MaxSize <- 0, buf <- inputBuffer, peak <- 0

Content(b) == B!content(b)
Room(b) == B!writableBytes(b)
Full == kCheapPrepend + kInitialSize

\* An object whose indices are ordered and inside its vector, which never shrinks.
Sound(b) == b \in B!Object /\ b.reader <= b.writer /\ b.writer <= Len(b.buffer) /\ Full <= Len(b.buffer)

\* Behind the last byte the indices are where a new buffer has them.
Fresh(b) == b.reader = kCheapPrepend /\ b.writer = kCheapPrepend

\* The sizes are those that module Buffer assumes.
LEMMA Sizes ==
  /\ 0 \in Byte /\ kCheapPrepend \in Nat /\ kInitialSize \in Nat /\ Full \in Nat
  /\ kHeaderLen = 4 /\ 4 <= kCheapPrepend /\ 4 <= kInitialSize
BY BytesAssumption, SizesAssumption DEF Byte, Full, kHeaderLen

\* Sound objects are sound in the proofs about Buffer.
LEMMA SoundIs ==
  ASSUME NEW b
  PROVE  /\ Sound(b) <=> L!Sound(b) /\ Full <= Len(b.buffer)
         /\ Sound(b) => /\ b.reader \in Nat /\ b.writer \in Nat /\ Len(b.buffer) \in Nat
                        /\ b.buffer \in Seq(Byte)
BY DEF Sound, L!Sound, B!Object, L!Object

\* The readable bytes, and those that can be written.
LEMMA ContentType ==
  ASSUME NEW b, Sound(b)
  PROVE  /\ Content(b) \in Seq(Byte) /\ Len(Content(b)) = B!readableBytes(b)
         /\ B!readableBytes(b) \in Nat /\ Room(b) \in Nat
         /\ Fresh(b) => Len(Content(b)) = 0 /\ Room(b) >= 4
<1>1. /\ L!content(b) \in Seq(Byte) /\ L!readableBytes(b) \in Nat
      /\ Len(L!content(b)) = L!readableBytes(b)
  BY L!ContentType, Sizes, SoundIs
<1>2. L!content(b) = Content(b) /\ L!readableBytes(b) = B!readableBytes(b)
  BY DEF L!content, B!content, L!readableBytes, B!readableBytes, Content
<1>3. Room(b) \in Nat /\ B!readableBytes(b) = b.writer - b.reader /\ Room(b) = Len(b.buffer) - b.writer
  BY SoundIs DEF Room, B!writableBytes, B!readableBytes, Sound
<1>4. Fresh(b) => Len(Content(b)) = 0 /\ Room(b) >= 4
  BY <1>1, <1>2, <1>3, Sizes, SoundIs DEF Fresh, Sound, Full
<1> QED
  BY <1>1, <1>2, <1>3, <1>4

\* A new buffer.
LEMMA NewIs == Sound(B!New) /\ Content(B!New) = <<>> /\ Fresh(B!New)
<1>1. L!Sound(L!New) /\ L!content(L!New) = <<>> /\ Len(L!New.buffer) = kCheapPrepend + kInitialSize
  BY L!NewLemma, Sizes
<1>2. L!New = B!New /\ L!content(L!New) = Content(B!New)
  BY DEF L!New, B!New, L!content, B!content, L!readableBytes, B!readableBytes, Content
<1>3. Fresh(B!New)
  BY DEF B!New, Fresh
<1> QED
  BY <1>1, <1>2, <1>3, SoundIs, Sizes DEF Full

\* ensureWritableBytes makes room and moves bytes to the front only.
LEMMA Ensure ==
  ASSUME NEW b, Sound(b), NEW len \in Nat
  PROVE  LET e == B!ensureWritableBytes(b, len) IN
         /\ Sound(e) /\ Room(e) >= len /\ Content(e) = Content(b)
         /\ b.reader = kCheapPrepend => e.reader = kCheapPrepend
<1> DEFINE e == B!ensureWritableBytes(b, len)
<1>1. LET f == L!ensureWritableBytes(b, len) IN
      /\ L!Sound(f) /\ L!writableBytes(f) >= len /\ L!content(f) = L!content(b)
      /\ f.reader # b.reader => kCheapPrepend < b.reader
      /\ Len(f.buffer) >= Len(b.buffer)
  BY L!EnsureWritableBytes, Sizes, SoundIs
<1>2. L!ensureWritableBytes(b, len) = e
  BY DEF L!ensureWritableBytes, B!ensureWritableBytes, L!writableBytes, B!writableBytes, L!makeSpace,
     B!makeSpace, L!resize, B!resize, L!copy, B!copy, L!readableBytes, B!readableBytes,
     L!prependableBytes, B!prependableBytes, L!content, B!content
<1>3. L!writableBytes(e) = Room(e) /\ L!content(e) = Content(e) /\ L!content(b) = Content(b)
  BY DEF L!writableBytes, B!writableBytes, L!content, B!content, L!readableBytes, B!readableBytes,
     Content, Room
<1>4. /\ L!Sound(e) /\ Room(e) >= len /\ Content(e) = Content(b)
      /\ e.reader # b.reader => kCheapPrepend < b.reader
      /\ Len(e.buffer) >= Len(b.buffer)
  BY <1>1, <1>2, <1>3
<1> HIDE DEF e
<1>5. Sound(e)
  BY <1>4, SoundIs, Sizes, SMTT(30) DEF L!Sound, L!Object
<1>6. b.reader = kCheapPrepend => e.reader = kCheapPrepend
  BY <1>4, Sizes
<1> QED
  BY <1>4, <1>5, <1>6 DEF e

\* hasWritten puts bytes at the end.
LEMMA HasWritten ==
  ASSUME NEW b, Sound(b), NEW data \in Seq(Byte), Len(data) <= Room(b)
  PROVE  LET e == B!hasWritten(b, data) IN
         /\ Sound(e) /\ Content(e) = Content(b) \o data
         /\ e.reader = b.reader /\ Room(e) = Room(b) - Len(data)
<1> DEFINE e == B!hasWritten(b, data)
<1>1. L!writableBytes(b) = Room(b)
  BY DEF L!writableBytes, B!writableBytes, Room
<1>2. LET f == L!hasWritten(b, data) IN
      L!Sound(f) /\ L!content(f) = L!content(b) \o data /\ Len(f.buffer) = Len(b.buffer)
  BY <1>1, L!HasWrittenLemma, Sizes, SoundIs
<1>3. L!hasWritten(b, data) = e
  BY DEF L!hasWritten, B!hasWritten, L!copy, B!copy
<1>4. L!content(e) = Content(e) /\ L!content(b) = Content(b)
  BY DEF L!content, B!content, L!readableBytes, B!readableBytes, Content
<1>5. e.reader = b.reader /\ e.writer = b.writer + Len(data)
  BY DEF B!hasWritten
<1>6. L!Sound(e) /\ Content(e) = Content(b) \o data /\ Len(e.buffer) = Len(b.buffer)
  BY <1>2, <1>3, <1>4
<1> HIDE DEF e
<1>7. Sound(e) /\ Room(e) = Room(b) - Len(data)
  BY <1>5, <1>6, SoundIs, Sizes DEF Room, B!writableBytes
<1> QED
  BY <1>5, <1>6, <1>7 DEF e

\* append makes room first.
LEMMA Appends ==
  ASSUME NEW b, Sound(b), NEW data \in Seq(Byte)
  PROVE  LET e == B!append(b, data) IN
         /\ Sound(e) /\ Content(e) = Content(b) \o data
         /\ b.reader = kCheapPrepend => e.reader = kCheapPrepend
<1> DEFINE m == B!ensureWritableBytes(b, Len(data))
<1>1. Len(data) \in Nat
  OBVIOUS
<1>2. /\ Sound(m) /\ Room(m) >= Len(data) /\ Content(m) = Content(b)
      /\ b.reader = kCheapPrepend => m.reader = kCheapPrepend
  BY <1>1, Ensure
<1>3. B!append(b, data) = B!hasWritten(m, data)
  BY DEF B!append
<1> HIDE DEF m
<1>4. Len(data) <= Room(m)
  BY <1>1, <1>2, ContentType
<1> QED
  BY <1>2, <1>3, <1>4, HasWritten

\* prepend puts bytes in front.
LEMMA Prepends ==
  ASSUME NEW b, Sound(b), NEW data \in Seq(Byte), Len(data) <= b.reader
  PROVE  Content(B!prepend(b, data)) = data \o Content(b)
<1>1. L!prependableBytes(b) = b.reader
  BY DEF L!prependableBytes
<1>2. L!content(L!prepend(b, data)) = data \o L!content(b)
  BY <1>1, L!PrependLemma, Sizes, SoundIs
<1>3. L!prepend(b, data) = B!prepend(b, data)
  BY DEF L!prepend, B!prepend, L!copy, B!copy
<1>4. \A e : L!content(e) = Content(e)
  BY DEF L!content, B!content, L!readableBytes, B!readableBytes, Content
<1> QED
  BY <1>2, <1>3, <1>4

\* retrieve takes bytes from the front.
LEMMA Retrieves ==
  ASSUME NEW b, Sound(b), NEW len \in Nat, len <= Len(Content(b))
  PROVE  LET e == B!retrieve(b, len) IN
         /\ Sound(e) /\ Content(e) = Part(Content(b), len, Len(Content(b)))
         /\ len = Len(Content(b)) => Fresh(e)
<1> DEFINE e == B!retrieve(b, len)
<1>1. len <= L!readableBytes(b) /\ L!readableBytes(b) = B!readableBytes(b)
      /\ B!readableBytes(b) = Len(Content(b)) /\ B!readableBytes(b) \in Nat
      /\ kCheapPrepend <= Len(b.buffer) /\ L!content(b) = Content(b)
  BY ContentType, SoundIs, Sizes
  DEF L!readableBytes, B!readableBytes, Sound, Full, L!content, B!content, Content
<1>2. LET f == L!retrieve(b, len) IN
      /\ L!Sound(f) /\ Len(f.buffer) = Len(b.buffer)
      /\ L!content(f) = SubSeq(L!content(b), len + 1, L!readableBytes(b))
  BY <1>1, L!RetrieveLemma, Sizes, SoundIs
<1>3. L!retrieve(b, len) = e
  BY DEF L!retrieve, B!retrieve, L!retrieveAll, B!retrieveAll, L!readableBytes, B!readableBytes
<1>4. L!content(e) = Content(e)
  BY DEF L!content, B!content, L!readableBytes, B!readableBytes, Content
<1>5. len = Len(Content(b)) => Fresh(e)
  BY <1>1 DEF B!retrieve, B!retrieveAll, Fresh
<1> HIDE DEF e
<1> QED
  BY <1>1, <1>2, <1>3, <1>4, <1>5, SoundIs DEF e, Part

-----------------------------------------------------------------------------
(* Frames: how the bytes that are under way make up what was sent.          *)

\* The bounds of the codec c, and what it makes of a body.
Least(c) == IF c = "length" THEN 0 ELSE 2 * kHeaderLen + 2
Most(c) == IF c = "length" THEN LengthMax ELSE ProtobufMax
Message(c, data) == IF c = "length" THEN data ELSE parse(data)

Messages == Seq(Byte) \cup (Seq(Byte) \X Seq(Byte))
Frame == [message : Messages, is : Kinds]

\* The bytes x are a frame that the codec c takes for f.
IsFrame(c, x, f) ==
  /\ x \in Seq(Byte) /\ Len(x) >= 4
  /\ f.is = "refused" => ~(networkToHost(x) \in Least(c)..Most(c))
  /\ f.is # "refused" => networkToHost(x) \in Least(c)..Most(c) /\ Len(x) = networkToHost(x) + 4
  /\ f.is = "unparsable" => c # "length" /\ parse(Part(x, 4, Len(x))) = <<>>
  /\ f.is \in {"good", "empty"} => f.message = Message(c, Part(x, 4, Len(x)))
  /\ f.is = "good" => IF c = "length" THEN Len(x) > 4 ELSE parse(Part(x, 4, Len(x))) # <<>>
  /\ f.is = "empty" => c = "length"

\* off[i] bytes of s belong to the frames behind d up to i.
Cut(c, s, fs, d, off) ==
  /\ off \in [d..Len(fs) -> Nat] /\ off[d] = 0 /\ off[Len(fs)] = Len(s)
  /\ \A i \in d..Len(fs) : \A j \in d..Len(fs) : i < j => off[i] + 4 <= off[j]
  /\ \A i \in (d + 1)..Len(fs) : IsFrame(c, Part(s, off[i - 1], off[i]), fs[i])

\* The bytes s are the frames of fs behind the first d.
Frames(c, s, fs, d) == \E off : Cut(c, s, fs, d, off)

\* One more frame at the end.
LEMMA AddFrame ==
  ASSUME NEW c, NEW s \in Seq(Byte), NEW fs \in Seq(Frame), NEW d \in 0..Len(fs),
         Frames(c, s, fs, d), NEW x, NEW f \in Frame, IsFrame(c, x, f)
  PROVE  Frames(c, s \o x, Append(fs, f), d)
<1> DEFINE n == Len(fs)
           gs == Append(fs, f)
           u == s \o x
<1>1. n \in Nat /\ d \in Nat /\ d <= n /\ Len(s) \in Nat
  BY LenProperties
<1>2. gs \in Seq(Frame) /\ Len(gs) = n + 1 /\ gs[n + 1] = f /\ \A i \in 1..n : gs[i] = fs[i]
  BY <1>1
<1>3. x \in Seq(Byte) /\ Len(x) >= 4 /\ Len(x) \in Nat
  BY LenProperties DEF IsFrame
<1>4. u \in Seq(Byte) /\ Len(u) = Len(s) + Len(x)
  BY <1>3, Concat
<1>5. PICK off : Cut(c, s, fs, d, off)
  BY DEF Frames
<1>6. /\ off \in [d..n -> Nat] /\ off[d] = 0 /\ off[n] = Len(s)
      /\ \A i \in d..n : \A j \in d..n : i < j => off[i] + 4 <= off[j]
      /\ \A i \in (d + 1)..n : IsFrame(c, Part(s, off[i - 1], off[i]), fs[i])
  BY <1>5 DEF Cut
<1> DEFINE off2 == [i \in d..(n + 1) |-> IF i <= n THEN off[i] ELSE Len(u)]
<1>7. ASSUME NEW i \in d..n
      PROVE  off2[i] = off[i] /\ off[i] \in Nat /\ off[i] <= Len(s)
  <2>1. off2[i] = off[i] /\ off[i] \in Nat
    <3>1. i \in d..(n + 1) /\ i <= n
      BY <1>1
    <3>2. off2[i] = off[i]
      BY <3>1
    <3> HIDE DEF off2
    <3> QED
      BY <1>6, <3>2
  <2>2. off[i] <= Len(s)
    <3>1. CASE i = n
      BY <1>6, <3>1
    <3>2. CASE i < n
      <4>1. n \in d..n
        BY <1>1
      <4>2. off[i] + 4 <= off[n]
        BY <1>6, <3>2, <4>1
      <4> QED
        BY <1>1, <1>6, <2>1, <4>2
    <3> QED
      BY <1>1, <3>1, <3>2
  <2> QED
    BY <2>1, <2>2
<1>8. off2[n + 1] = Len(u) /\ off2 \in [d..(n + 1) -> Nat]
  <2>1. n + 1 \in d..(n + 1) /\ ~(n + 1 <= n) /\ Len(u) \in Nat
    BY <1>1, <1>3, <1>4
  <2>2. off2[n + 1] = Len(u)
    BY <2>1
  <2>3. ASSUME NEW i \in d..(n + 1)
        PROVE  (IF i <= n THEN off[i] ELSE Len(u)) \in Nat
    <3>1. CASE i <= n
      <4>1. i \in d..n
        BY <1>1, <3>1
      <4> QED
        BY <1>6, <3>1, <4>1
    <3>2. CASE ~(i <= n)
      BY <2>1, <3>2
    <3> QED
      BY <3>1, <3>2
  <2>4. off2 \in [d..(n + 1) -> Nat]
    BY <2>3, Zenon
  <2> QED
    BY <2>2, <2>4
<1> HIDE DEF off2, gs, u
<1>9. off2[d] = 0 /\ off2[Len(gs)] = Len(u)
  <2>1. d \in d..n
    BY <1>1
  <2> QED
    BY <1>2, <1>6, <1>7, <1>8, <2>1
<1>10. ASSUME NEW i \in d..(n + 1), NEW j \in d..(n + 1), i < j
       PROVE  off2[i] + 4 <= off2[j]
  <2>1. i \in d..n
    BY <1>1, <1>10
  <2>2. CASE j = n + 1
    <3>1. off2[i] \in Nat /\ off2[i] <= Len(s)
      BY <1>7, <2>1
    <3>2. off2[j] = Len(s) + Len(x)
      BY <1>4, <1>8, <2>2
    <3> QED
      BY <1>1, <1>3, <3>1, <3>2
  <2>3. CASE j # n + 1
    <3>1. j \in d..n
      BY <1>1, <2>3
    <3> QED
      BY <1>6, <1>7, <1>10, <2>1, <3>1
  <2> QED
    BY <2>2, <2>3
<1>11. ASSUME NEW i \in (d + 1)..(n + 1)
       PROVE  IsFrame(c, Part(u, off2[i - 1], off2[i]), gs[i])
  <2>1. i - 1 \in d..n /\ i \in Nat
    BY <1>1
  <2>2. CASE i = n + 1
    <3>1. off2[i - 1] = Len(s) + 0 /\ off2[i] = Len(s) + Len(x)
      <4>1. i - 1 = n
        BY <1>1, <2>2
      <4> QED
        BY <1>1, <1>4, <1>6, <1>7, <1>8, <2>1, <2>2, <4>1
    <3>2. Part(u, Len(s) + 0, Len(s) + Len(x)) = Part(x, 0, Len(x))
      BY <1>3, PartOfSecond DEF u
    <3>3. Part(x, 0, Len(x)) = x
      BY <1>3, SubSeqFull DEF Part
    <3> QED
      BY <1>2, <2>2, <3>1, <3>2, <3>3
  <2>3. CASE i # n + 1
    <3>1. i \in (d + 1)..n /\ i \in d..n /\ i \in 1..n /\ i - 1 < i
      BY <1>1, <2>3
    <3>2. /\ off2[i - 1] = off[i - 1] /\ off2[i] = off[i] /\ off[i] \in Nat /\ off[i - 1] \in Nat
          /\ off[i] <= Len(s)
      BY <1>7, <2>1, <3>1
    <3>3. off[i - 1] <= off[i]
      <4>1. off[i - 1] + 4 <= off[i]
        BY <1>6, <2>1, <3>1
      <4> QED
        BY <3>2, <4>1
    <3>4. Part(u, off[i - 1], off[i]) = Part(s, off[i - 1], off[i])
      BY <1>3, <3>2, <3>3, PartOfFirst DEF u
    <3> QED
      BY <1>2, <1>6, <3>1, <3>2, <3>4
  <2> QED
    BY <2>2, <2>3
<1>12. Cut(c, u, gs, d, off2)
  BY <1>2, <1>8, <1>9, <1>10, <1>11 DEF Cut
<1> QED
  BY <1>12 DEF Frames, u, gs

\* Fewer bytes than a header are no frame.
LEMMA NoFrame ==
  ASSUME NEW c, NEW s \in Seq(Byte), NEW fs \in Seq(Frame), NEW d \in 0..Len(fs),
         Frames(c, s, fs, d), Len(s) < 4
  PROVE  d = Len(fs)
<1>1. Len(fs) \in Nat /\ Len(s) \in Nat
  BY LenProperties
<1>2. PICK off : Cut(c, s, fs, d, off)
  BY DEF Frames
<1>3. SUFFICES ASSUME d < Len(fs) PROVE FALSE
  BY <1>1
<1>4. d \in d..Len(fs) /\ Len(fs) \in d..Len(fs)
  BY <1>1
<1>5. off[d] + 4 <= off[Len(fs)] /\ off[d] = 0 /\ off[Len(fs)] = Len(s)
  BY <1>2, <1>3, <1>4 DEF Cut
<1> QED
  BY <1>1, <1>5

\* The first frame, and the bytes behind it.
LEMMA FirstFrame ==
  ASSUME NEW c, NEW s \in Seq(Byte), NEW fs \in Seq(Frame), NEW d \in 0..Len(fs),
         Frames(c, s, fs, d), Len(s) > 0
  PROVE  /\ d < Len(fs)
         /\ \E m \in 4..Len(s) : /\ IsFrame(c, Part(s, 0, m), fs[d + 1])
                                 /\ Frames(c, Part(s, m, Len(s)), fs, d + 1)
<1> DEFINE n == Len(fs)
           e == d + 1
<1>1. n \in Nat /\ d \in Nat /\ d <= n /\ Len(s) \in Nat
  BY LenProperties
<1>2. PICK off : Cut(c, s, fs, d, off)
  BY DEF Frames
<1>3. /\ off \in [d..n -> Nat] /\ off[d] = 0 /\ off[n] = Len(s)
      /\ \A i \in d..n : \A j \in d..n : i < j => off[i] + 4 <= off[j]
      /\ \A i \in (d + 1)..n : IsFrame(c, Part(s, off[i - 1], off[i]), fs[i])
  BY <1>2 DEF Cut
<1>4. d < n
  BY <1>1, <1>3
<1>5. e \in Nat /\ e \in d..n /\ d \in d..n /\ n \in d..n /\ e \in (d + 1)..n /\ e - 1 = d /\ d < e
  BY <1>1, <1>4
<1> DEFINE m == off[e]
           t == Part(s, m, Len(s))
<1>6. ASSUME NEW i \in e..n
      PROVE  i \in d..n /\ off[i] \in Nat /\ m <= off[i] /\ off[i] <= Len(s)
  <2>1. i \in d..n /\ off[i] \in Nat /\ m \in Nat
    <3> HIDE DEF e
    <3>1. i \in d..n
      BY <1>1, <1>5
    <3> QED
      BY <1>3, <1>5, <3>1
  <2>2. m <= off[i]
    <3>1. CASE i = e
      BY <2>1, <3>1
    <3>2. CASE e < i
      <4>1. off[e] + 4 <= off[i]
        BY <1>3, <1>5, <2>1, <3>2
      <4> QED
        BY <2>1, <4>1
    <3> QED
      BY <1>1, <3>1, <3>2
  <2>3. off[i] <= Len(s)
    <3>1. CASE i = n
      BY <1>1, <1>3, <3>1
    <3>2. CASE i < n
      <4>1. off[i] + 4 <= off[n]
        BY <1>3, <1>5, <2>1, <3>2
      <4> QED
        BY <1>1, <1>3, <2>1, <4>1
    <3> QED
      BY <1>1, <3>1, <3>2
  <2> QED
    BY <2>1, <2>2, <2>3
<1>7. m \in 4..Len(s) /\ m \in Nat
  <2>1. e \in e..n
    BY <1>5
  <2>2. m \in Nat /\ m <= Len(s)
    BY <1>6, <2>1
  <2>3. off[d] + 4 <= off[e]
    BY <1>3, <1>5
  <2> QED
    BY <1>1, <1>3, <2>2, <2>3
<1>8. IsFrame(c, Part(s, 0, m), fs[e])
  BY <1>3, <1>5
<1> HIDE DEF m
<1>9. t \in Seq(Byte) /\ Len(t) = Len(s) - m
  <2> DEFINE k == Len(s)
  <2>1. m \in Nat /\ k \in Nat /\ m <= k /\ k <= Len(s)
    BY <1>1, <1>7
  <2> HIDE DEF k
  <2>2. Part(s, m, k) \in Seq(Byte) /\ Len(Part(s, m, k)) = k - m
    BY <2>1, PartType
  <2> QED
    BY <2>2 DEF k
<1> HIDE DEF t, e
<1> DEFINE off2 == [i \in e..n |-> off[i] - m]
<1>10. ASSUME NEW i \in e..n
       PROVE  off2[i] = off[i] - m /\ off2[i] \in Nat
  BY <1>6, <1>7
<1>11. off2 \in [e..n -> Nat]
  BY <1>10
<1> HIDE DEF off2
<1>12. off2[e] = 0 /\ off2[n] = Len(t)
  <2>1. e \in e..n /\ n \in e..n
    BY <1>1, <1>5
  <2>2. off2[e] = off[e] - m /\ off2[n] = off[n] - m
    BY <1>10, <2>1
  <2>3. off[n] = Len(s) /\ off[e] = m
    BY <1>3 DEF m
  <2> QED
    BY <1>7, <1>9, <2>2, <2>3
<1>13. ASSUME NEW i \in e..n, NEW j \in e..n, i < j
       PROVE  off2[i] + 4 <= off2[j]
  <2>1. off[i] + 4 <= off[j]
    BY <1>3, <1>6, <1>13
  <2>2. off2[i] = off[i] - m /\ off2[j] = off[j] - m
    BY <1>10
  <2>3. off[i] \in Nat /\ off[j] \in Nat
    BY <1>6
  <2> QED
    BY <1>7, <2>1, <2>2, <2>3, SMTT(30)
<1>14. ASSUME NEW i \in (e + 1)..n
       PROVE  IsFrame(c, Part(t, off2[i - 1], off2[i]), fs[i])
  <2>1. i \in e..n /\ i - 1 \in e..n /\ i - 1 < i /\ i \in (d + 1)..n
    BY <1>1, <1>5
  <2>2. IsFrame(c, Part(s, off[i - 1], off[i]), fs[i])
    BY <1>3, <2>1
  <2>3. off2[i - 1] <= off2[i] /\ off2[i] \in Nat /\ off2[i - 1] \in Nat
    <3>1. off2[i - 1] + 4 <= off2[i]
      BY <1>13, <2>1
    <3> QED
      BY <1>10, <2>1, <3>1
  <2>4. m + off2[i] <= Len(s) /\ m + off2[i] = off[i] /\ m + off2[i - 1] = off[i - 1]
    <3>1. off2[i] = off[i] - m /\ off2[i - 1] = off[i - 1] - m
      BY <1>10, <2>1
    <3>2. off[i] \in Nat /\ off[i - 1] \in Nat /\ off[i] <= Len(s)
      BY <1>6, <2>1
    <3> QED
      BY <1>7, <3>1, <3>2
  <2> DEFINE a == off2[i - 1]
             b == off2[i]
             k == Len(s)
  <2>5. /\ k \in Nat /\ m \in Nat /\ m <= k /\ k <= Len(s)
        /\ a \in Nat /\ b \in Nat /\ a <= b /\ m + b <= k
    BY <1>1, <1>7, <2>3, <2>4
  <2> HIDE DEF a, b, k
  <2>6. Part(Part(s, m, k), a, b) = Part(s, m + a, m + b)
    BY <2>5, PartOfPart
  <2> QED
    BY <2>2, <2>4, <2>6 DEF a, b, k, t
<1>15. Cut(c, t, fs, e, off2)
  BY <1>11, <1>12, <1>13, <1>14 DEF Cut
<1>16. Frames(c, t, fs, e)
  BY <1>15 DEF Frames
<1> QED
  BY <1>4, <1>7, <1>8, <1>16 DEF e, t

-----------------------------------------------------------------------------
(* What the other side sends are frames.                                    *)

\* The number in the first four bytes does not depend on what follows.
LEMMA Front ==
  ASSUME NEW s \in Seq(Byte), Len(s) >= 4
  PROVE  /\ networkToHost(s) \in Int
         /\ \A t \in Seq(Byte) : networkToHost(s \o t) = networkToHost(s)
         /\ \A n \in 4..Len(s) : networkToHost(Part(s, 0, n)) = networkToHost(s)
<1>1. Len(s) \in Nat /\ 1 \in 1..Len(s) /\ 2 \in 1..Len(s) /\ 3 \in 1..Len(s) /\ 4 \in 1..Len(s)
  BY LenProperties
<1>2. s[1] \in Byte /\ s[2] \in Byte /\ s[3] \in Byte /\ s[4] \in Byte
  BY <1>1, ElementOfSeq
<1>3. ASSUME NEW t, t[1] = s[1], t[2] = s[2], t[3] = s[3], t[4] = s[4]
      PROVE  networkToHost(t) = networkToHost(s)
  BY <1>3 DEF networkToHost
<1>4. ASSUME NEW t \in Seq(Byte)
      PROVE  networkToHost(s \o t) = networkToHost(s)
  <2>1. \A i \in 1..Len(s) : (s \o t)[i] = s[i]
    BY Concat
  <2> QED
    BY <1>1, <1>3, <2>1
<1>5. ASSUME NEW n \in 4..Len(s)
      PROVE  networkToHost(Part(s, 0, n)) = networkToHost(s)
  <2>1. 0 \in Nat /\ n \in Nat /\ 0 <= n /\ n <= Len(s)
    BY <1>1
  <2>2. \A i \in 1..(n - 0) : Part(s, 0, n)[i] = s[0 + i]
    BY <2>1, PartType, Zenon
  <2>3. ASSUME NEW i \in 1..n
        PROVE  Part(s, 0, n)[i] = s[i]
    BY <2>1, <2>2
  <2>4. 1 \in 1..n /\ 2 \in 1..n /\ 3 \in 1..n /\ 4 \in 1..n
    BY <1>1
  <2> QED
    BY <1>3, <2>3, <2>4
<1> QED
  BY <1>2, <1>4, <1>5, NetworkType

\* A checksum fits into an integer.
LEMMA ChecksumType ==
  ASSUME NEW bytes \in Seq(Byte)
  PROVE  adler32(bytes) \in 0..(Words \div 2 - 1)
<1> DEFINE P == {p \in (1..Len(bytes)) \X Byte : p[2] < bytes[p[1]]}
<1>1. IsFiniteSet(1..Len(bytes)) /\ IsFiniteSet(Byte)
  BY LenProperties, FS_Interval, BytesAssumption DEF Byte
<1>2. IsFiniteSet((1..Len(bytes)) \X Byte)
  BY <1>1, FS_Product
<1>3. Cardinality(P) \in Nat
  <2>1. P \subseteq (1..Len(bytes)) \X Byte
    OBVIOUS
  <2> QED
    BY <1>2, <2>1, FS_Subset, FS_CardinalityType
<1> DEFINE k == 1 + Cardinality(P)
           w == Words \div 2
<1>4. k \in Nat /\ w \in Nat \ {0}
  BY <1>3, WordsFacts
<1>5. adler32(bytes) = k % w
  BY DEF adler32
<1> HIDE DEF k, w
<1>6. k % w \in 0..(w - 1)
  BY <1>4
<1> QED
  BY <1>5, <1>6 DEF w

\* The length of the type's name, the name and the message.
Text(t, payload) == (hostToNetwork(2) \o <<t, 0>>) \o payload

\* Where they are in it.
LEMMA TextIs ==
  ASSUME NEW t \in Byte, NEW payload \in Seq(Byte)
  PROVE  /\ Text(t, payload) \in Seq(Byte) /\ Len(Text(t, payload)) = 6 + Len(payload)
         /\ networkToHost(Text(t, payload)) = 2
         /\ Part(Text(t, payload), 4, 5) = <<t>>
         /\ Part(Text(t, payload), 6, 6 + Len(payload)) = payload
<1> DEFINE h == hostToNetwork(2)
           name == <<t, 0>>
           front == h \o name
<1>1. h \in Seq(Byte) /\ Len(h) = 4 /\ networkToHost(h) = 2
  BY RoundTrip, WordsFacts
<1>2. name \in Seq(Byte) /\ Len(name) = 2 /\ Part(name, 0, 1) = <<t>>
  <2>1. name \in Seq(Byte) /\ Len(name) = 2
    BY Sizes
  <2>2. SubSeq(name, 1, 1) = <<t>>
    <3>1. 1 \in 1..Len(name) /\ name[1] = t
      BY <2>1
    <3> HIDE DEF name
    <3>2. 1 \in Int /\ \A i \in 1..1 : name[i] \in Byte
      BY <3>1
    <3>3. /\ SubSeq(name, 1, 1) \in Seq(Byte)
          /\ Len(SubSeq(name, 1, 1)) = IF 1 <= 1 THEN 1 - 1 + 1 ELSE 0
          /\ \A i \in 1..(1 - 1 + 1) : SubSeq(name, 1, 1)[i] = name[1 + i - 1]
      BY <3>2, SubSeqProperties
    <3>4. Len(SubSeq(name, 1, 1)) = 1 /\ SubSeq(name, 1, 1)[1] = t
      BY <3>1, <3>3
    <3> DEFINE u == SubSeq(name, 1, 1)
    <3> HIDE DEF u
    <3>5. u \in Seq(Byte) /\ Len(u) = 1 /\ u[1] = t
      BY <3>3, <3>4 DEF u
    <3>6. u = <<t>>
      BY <3>5
    <3> QED
      BY <3>6 DEF u
  <2>3. 0 + 1 = 1
    OBVIOUS
  <2> QED
    BY <2>1, <2>2, <2>3 DEF Part
<1> HIDE DEF h, name
<1>3. front \in Seq(Byte) /\ Len(front) = 6
  <2>1. front \in Seq(Byte) /\ Len(front) = Len(h) + Len(name)
    BY <1>1, <1>2, Concat
  <2> QED
    BY <1>1, <1>2, <2>1
<1>4. networkToHost(front) = 2
  <2>1. Len(h) >= 4
    BY <1>1
  <2>2. networkToHost(front) = networkToHost(h)
    BY <1>1, <1>2, <2>1, Front
  <2> QED
    BY <1>1, <2>2
<1>5. Part(front, Len(h) + 0, Len(h) + 1) = Part(name, 0, 1)
  <2>1. 0 \in Nat /\ 1 \in Nat /\ 0 <= 1 /\ 1 <= Len(name)
    BY <1>2
  <2> QED
    BY <1>1, <1>2, <2>1, PartOfSecond, ZenonT(40)
<1>6. Part(front, 4, 5) = <<t>>
  <2>1. Len(h) + 0 = 4 /\ Len(h) + 1 = 5
    BY <1>1
  <2> QED
    BY <1>2, <1>5, <2>1
<1> HIDE DEF front
<1>7. Len(payload) \in Nat
  BY LenProperties
<1>8. front \o payload \in Seq(Byte) /\ Len(front \o payload) = 6 + Len(payload)
  <2>1. front \o payload \in Seq(Byte) /\ Len(front \o payload) = Len(front) + Len(payload)
    BY <1>3, Concat
  <2> QED
    BY <1>3, <2>1
<1>9. networkToHost(front \o payload) = 2
  <2>1. Len(front) >= 4
    BY <1>3
  <2>2. networkToHost(front \o payload) = networkToHost(front)
    BY <1>3, <2>1, Front
  <2> QED
    BY <1>4, <2>2
<1>10. Part(front \o payload, 4, 5) = <<t>>
  <2>1. 4 \in Nat /\ 5 \in Nat /\ 4 <= 5 /\ 5 <= Len(front)
    BY <1>3
  <2>2. front \in Seq(Byte) /\ payload \in Seq(Byte)
    BY <1>3
  <2>3. Part(front \o payload, 4, 5) = Part(front, 4, 5)
    BY <2>1, <2>2, PartOfFirst, ZenonT(40)
  <2> QED
    BY <1>6, <2>3
<1>11. Part(front \o payload, Len(front) + 0, Len(front) + Len(payload)) = Part(payload, 0, Len(payload))
  <2>1. 0 \in Nat /\ 0 <= Len(payload) /\ Len(payload) <= Len(payload)
    BY <1>7
  <2> QED
    BY <1>3, <1>7, <2>1, PartOfSecond, ZenonT(40)
<1>12. Part(payload, 0, Len(payload)) = payload
  BY SubSeqFull DEF Part
<1>13. Len(front) + 0 = 6 /\ Len(front) + Len(payload) = 6 + Len(payload)
  BY <1>3
<1>14. Text(t, payload) = front \o payload
  BY DEF Text, front, h, name
<1> QED
  BY <1>8, <1>9, <1>10, <1>11, <1>12, <1>13, <1>14

\* What send() puts into its buffer.
LEMMA BodyIs ==
  ASSUME NEW t \in Byte, NEW payload \in Seq(Byte)
  PROVE  LET buff == Body(<<t>>, payload) IN
         /\ Sound(buff) /\ buff.reader = kCheapPrepend
         /\ Content(buff) = Text(t, payload) \o hostToNetwork(adler32(Text(t, payload)))
<1> DEFINE b1 == B!append(B!New, hostToNetwork(2))
           b2 == B!append(b1, <<t, 0>>)
           b3 == B!ensureWritableBytes(b2, Len(payload))
           b4 == B!hasWritten(b3, payload)
           sum == hostToNetwork(adler32(Content(b4)))
           b5 == B!append(b4, sum)
<1>1. Body(<<t>>, payload) = b5
  <2>1. Len(<<t>>) + 1 = 2
    OBVIOUS
  <2>2. Append(<<t>>, 0) = <<t, 0>>
    <3>1. <<t>> \in Seq(Byte) /\ Len(<<t>>) = 1 /\ <<t>>[1] = t /\ 0 \in Byte
      BY Sizes
    <3> DEFINE s == <<t>>
               u == Append(s, 0)
    <3>2. u \in Seq(Byte) /\ Len(u) = Len(s) + 1
          /\ \A i \in 1..(Len(s) + 1) : u[i] = IF i = Len(s) + 1 THEN 0 ELSE s[i]
      BY <3>1, AppendProperties
    <3>3. Len(u) = 2 /\ u[1] = t /\ u[2] = 0
      BY <3>1, <3>2
    <3> HIDE DEF u
    <3>4. u = <<t, 0>>
      BY <3>2, <3>3
    <3> QED
      BY <3>4 DEF u
  <2> QED
    BY <2>1, <2>2 DEF Body, appendInt32, Content
<1>2. Sound(b1) /\ Content(b1) = <<>> \o hostToNetwork(2) /\ b1.reader = kCheapPrepend
  <2>1. hostToNetwork(2) \in Seq(Byte)
    BY RoundTrip, WordsFacts
  <2> QED
    BY <2>1, NewIs, Appends DEF Fresh
<1> HIDE DEF b1
<1>3. Content(b1) = hostToNetwork(2)
  <2>1. hostToNetwork(2) \in Seq(Byte)
    BY RoundTrip, WordsFacts
  <2> QED
    BY <1>2, <2>1, ConcatEmptySeq
<1>4. Sound(b2) /\ Content(b2) = hostToNetwork(2) \o <<t, 0>> /\ b2.reader = kCheapPrepend
  <2>1. <<t, 0>> \in Seq(Byte)
    BY Sizes
  <2> QED
    BY <1>2, <1>3, <2>1, Appends
<1> HIDE DEF b2
<1>5. /\ Sound(b3) /\ Content(b3) = hostToNetwork(2) \o <<t, 0>> /\ b3.reader = kCheapPrepend
      /\ Len(payload) <= Room(b3)
  <2>1. Len(payload) \in Nat
    BY LenProperties
  <2>2. Sound(b3) /\ Room(b3) >= Len(payload) /\ Content(b3) = Content(b2) /\ b3.reader = kCheapPrepend
    BY <1>4, <2>1, Ensure
  <2> HIDE DEF b3
  <2>3. Room(b3) \in Nat
    BY <2>2, ContentType
  <2> QED
    BY <1>4, <2>1, <2>2, <2>3
<1> HIDE DEF b3
<1>6. Sound(b4) /\ Content(b4) = Text(t, payload) /\ b4.reader = kCheapPrepend
  BY <1>5, HasWritten DEF Text
<1> HIDE DEF b4
<1>7. sum \in Seq(Byte)
  BY <1>6, TextIs, ChecksumType, RoundTrip
<1> HIDE DEF sum
<1>8. Sound(b5) /\ Content(b5) = Content(b4) \o sum /\ b5.reader = kCheapPrepend
  BY <1>6, <1>7, Appends
<1> QED
  BY <1>1, <1>6, <1>8 DEF sum

\* What parse() makes of a body with these four bytes at its end.
LEMMA ParseIs ==
  ASSUME NEW t \in Byte, NEW payload \in Seq(Byte), NEW sum \in Seq(Byte), Len(sum) = 4
  PROVE  /\ Text(t, payload) \o sum \in Seq(Byte)
         /\ Len(Text(t, payload) \o sum) = 10 + Len(payload)
         /\ parse(Text(t, payload) \o sum) =
              IF adler32(Text(t, payload)) = networkToHost(sum) /\ t = 1
              THEN <<<<t>>, payload>> ELSE <<>>
<1> DEFINE text == Text(t, payload)
           n == Len(payload)
           data == text \o sum
<1>1. /\ text \in Seq(Byte) /\ Len(text) = 6 + n /\ networkToHost(text) = 2
      /\ Part(text, 4, 5) = <<t>> /\ Part(text, 6, 6 + n) = payload
  BY TextIs
<1>2. n \in Nat
  BY LenProperties
<1> HIDE DEF text, n
<1>3. data \in Seq(Byte) /\ Len(data) = 10 + n
  <2>1. data \in Seq(Byte) /\ Len(data) = Len(text) + Len(sum)
    BY <1>1, Concat
  <2> QED
    BY <1>1, <1>2, <2>1
<1>4. networkToHost(data) = 2
  <2>1. Len(text) >= 4
    BY <1>1, <1>2
  <2>2. networkToHost(data) = networkToHost(text)
    BY <1>1, <2>1, Front
  <2> QED
    BY <1>1, <2>2
<1>5. Part(data, 4, 5) = <<t>>
  <2>1. Part(data, 4, 5) = Part(text, 4, 5)
    BY <1>1, <1>2, PartOfFirst
  <2> QED
    BY <1>1, <2>1
<1>6. Part(data, 6, 6 + n) = payload
  <2>1. Part(data, 6, 6 + n) = Part(text, 6, 6 + n)
    BY <1>1, <1>2, PartOfFirst
  <2> QED
    BY <1>1, <2>1
<1>7. Part(data, 0, 6 + n) = text
  <2>1. Part(data, 0, 6 + n) = Part(text, 0, 6 + n)
    BY <1>1, <1>2, PartOfFirst
  <2>2. Part(text, 0, Len(text)) = text
    BY <1>1, SubSeqFull DEF Part
  <2> QED
    BY <1>1, <2>1, <2>2
<1>8. Part(data, 6 + n, 10 + n) = sum
  <2>1. Part(data, Len(text) + 0, Len(text) + 4) = Part(sum, 0, 4)
    <3>1. 0 \in Nat /\ 4 \in Nat /\ 0 <= 4 /\ 4 <= Len(sum)
      OBVIOUS
    <3>2. text \in Seq(Byte) /\ sum \in Seq(Byte)
      BY <1>1
    <3> QED
      BY <3>1, <3>2, PartOfSecond, Zenon
  <2>2. Part(sum, 0, Len(sum)) = sum
    BY SubSeqFull DEF Part
  <2>3. Len(text) + 0 = 6 + n /\ Len(text) + 4 = 10 + n
    BY <1>1, <1>2
  <2> QED
    BY <2>1, <2>2, <2>3
<1> HIDE DEF data
<1> DEFINE len == Len(data)
           nameLen == networkToHost(data)
<1>9. /\ SubSeq(data, 1, len - kHeaderLen) = text
      /\ SubSeq(data, len - kHeaderLen + 1, len) = sum
      /\ SubSeq(data, kHeaderLen + 1, kHeaderLen + nameLen - 1) = <<t>>
      /\ SubSeq(data, kHeaderLen + nameLen + 1, len - kHeaderLen) = payload
  <2>1. /\ 1 = 0 + 1 /\ len - kHeaderLen = 6 + n /\ len - kHeaderLen + 1 = (6 + n) + 1 /\ len = 10 + n
        /\ kHeaderLen + 1 = 4 + 1 /\ kHeaderLen + nameLen - 1 = 5 /\ kHeaderLen + nameLen + 1 = 6 + 1
    BY <1>2, <1>3, <1>4 DEF kHeaderLen
  <2> QED
    BY <1>5, <1>6, <1>7, <1>8, <2>1, Zenon DEF Part
<1>10. nameLen >= 2 /\ nameLen <= len - 2 * kHeaderLen
  BY <1>2, <1>3, <1>4 DEF kHeaderLen
<1>11. <<t>> \in KnownTypes <=> t = 1
  BY DEF KnownTypes
<1>12. parse(data) = IF adler32(text) = networkToHost(sum) /\ t = 1 THEN <<<<t>>, payload>> ELSE <<>>
  BY <1>9, <1>10, <1>11, Zenon DEF parse
<1> QED
  BY <1>3, <1>12 DEF data, text, n

\* A number and the bytes behind it.
LEMMA Headed ==
  ASSUME NEW n \in Int, n \in 0..(Words \div 2 - 1), NEW data \in Seq(Byte)
  PROVE  LET x == hostToNetwork(n) \o data IN
         /\ x \in Seq(Byte) /\ Len(x) = 4 + Len(data) /\ Len(x) >= 4
         /\ networkToHost(x) = n /\ Part(x, 4, Len(x)) = data
<1> DEFINE h == hostToNetwork(n)
           x == h \o data
<1>1. h \in Seq(Byte) /\ Len(h) = 4 /\ networkToHost(h) = n
  BY RoundTrip
<1>2. Len(data) \in Nat
  BY LenProperties
<1> HIDE DEF h
<1>3. x \in Seq(Byte) /\ Len(x) = Len(h) + Len(data)
  BY <1>1, Concat
<1>4. networkToHost(x) = networkToHost(h)
  <2>1. Len(h) >= 4
    BY <1>1
  <2> QED
    BY <1>1, <2>1, Front
<1>5. Part(x, Len(h) + 0, Len(h) + Len(data)) = Part(data, 0, Len(data))
  <2>1. 0 \in Nat /\ 0 <= Len(data) /\ Len(data) <= Len(data)
    BY <1>2
  <2>2. h \in Seq(Byte)
    BY <1>1
  <2> QED
    BY <1>2, <2>1, <2>2, PartOfSecond, ZenonT(40)
<1>6. Part(data, 0, Len(data)) = data
  BY SubSeqFull DEF Part
<1>7. Len(h) + 0 = 4
  BY <1>1
<1> HIDE DEF x
<1>8. Part(x, 4, Len(x)) = data
  BY <1>3, <1>5, <1>6, <1>7
<1>9. Len(x) = 4 + Len(data) /\ Len(x) >= 4
  BY <1>1, <1>2, <1>3
<1> QED
  BY <1>1, <1>3, <1>4, <1>8, <1>9 DEF x, h

\* SendString sends frames.
LEMMA StringFrame ==
  ASSUME NEW s \in Payloads, NEW f,
         f = [message |-> s,
              is |-> IF Len(s) > LengthMax THEN "refused" ELSE IF Len(s) = 0 THEN "empty" ELSE "good"]
  PROVE  f \in Frame /\ IsFrame("length", hostToNetwork(Len(s)) \o s, f)
<1>1. s \in Seq(Byte) /\ Len(s) \in Nat /\ Len(s) \in 0..(Words \div 2 - 1)
  <2>1. s \in Seq(Byte) /\ Len(s) + 2 * kHeaderLen + 2 < Words \div 2
    BY PayloadsAssumption
  <2>2. Len(s) \in Nat
    BY <2>1, LenProperties
  <2> QED
    BY <2>1, <2>2, WordsFacts DEF kHeaderLen
<1> DEFINE x == hostToNetwork(Len(s)) \o s
           n == Len(s)
<1>2. /\ x \in Seq(Byte) /\ Len(x) = 4 + n /\ Len(x) >= 4
      /\ networkToHost(x) = n /\ Part(x, 4, Len(x)) = s
  BY <1>1, Headed
<1> HIDE DEF x
<1>3. /\ f.message = s /\ f = [message |-> f.message, is |-> f.is]
      /\ f.is = IF n > LengthMax THEN "refused" ELSE IF n = 0 THEN "empty" ELSE "good"
  OBVIOUS
<1>4. f \in Frame
  <2>1. s \in Messages
    BY <1>1 DEF Messages
  <2>2. f.is \in Kinds
    BY <1>3 DEF Kinds
  <2> QED
    BY <1>3, <2>1, <2>2 DEF Frame
<1>5. LengthMax \in Nat /\ Least("length") = 0 /\ Most("length") = LengthMax
  BY LimitsAssumption DEF Least, Most
<1>6. Message("length", Part(x, 4, Len(x))) = s
  BY <1>2 DEF Message
<1>7. n \in Nat /\ (n \in 0..LengthMax <=> ~(n > LengthMax))
  BY <1>1, <1>5
<1> HIDE DEF n
<1>8. /\ f.is = "refused" => ~(networkToHost(x) \in Least("length")..Most("length"))
      /\ f.is # "refused" =>
           networkToHost(x) \in Least("length")..Most("length") /\ Len(x) = networkToHost(x) + 4
      /\ f.is = "good" => Len(x) > 4
      /\ f.is # "unparsable"
  BY <1>2, <1>3, <1>5, <1>7
<1>9. IsFrame("length", x, f)
  BY <1>2, <1>3, <1>6, <1>8 DEF IsFrame
<1> QED
  BY <1>4, <1>9 DEF x

\* ProtobufCodec::send sends frames.
LEMMA MessageFrame ==
  ASSUME NEW t \in {1, 2}, NEW payload \in Payloads, NEW f,
         LET buff == Body(<<t>>, payload) IN
         f = [message |-> <<<<t>>, payload>>,
              is |-> IF B!readableBytes(buff) > ProtobufMax THEN "refused"
                     ELSE IF <<t>> \in KnownTypes THEN "good" ELSE "unparsable"]
  PROVE  LET buff == Body(<<t>>, payload)
             x == Content(prependInt32(buff, B!readableBytes(buff))) IN
         f \in Frame /\ x \in Seq(Byte) /\ IsFrame("protobuf", x, f)
<1> DEFINE buff == Body(<<t>>, payload)
           n == B!readableBytes(buff)
           text == Text(t, payload)
           sum == hostToNetwork(adler32(text))
           data == text \o sum
           x == Content(prependInt32(buff, n))
<1>1. t \in Byte
  BY BytesAssumption DEF Byte
<1>2. payload \in Seq(Byte) /\ Len(payload) \in Nat /\ Len(payload) + 10 < Words \div 2
  <2>1. payload \in Seq(Byte) /\ Len(payload) + 2 * kHeaderLen + 2 < Words \div 2
    BY PayloadsAssumption
  <2>2. Len(payload) \in Nat
    BY <2>1, LenProperties
  <2> QED
    BY <2>1, <2>2, WordsFacts DEF kHeaderLen
<1>3. Sound(buff) /\ buff.reader = kCheapPrepend /\ Content(buff) = data
  BY <1>1, <1>2, BodyIs
<1>4. sum \in Seq(Byte) /\ Len(sum) = 4 /\ networkToHost(sum) = adler32(text)
  <2>1. adler32(text) \in 0..(Words \div 2 - 1)
    BY <1>1, <1>2, TextIs, ChecksumType
  <2>2. adler32(text) \in Int
    BY <2>1, WordsFacts
  <2> QED
    BY <2>1, <2>2, RoundTrip
<1> HIDE DEF sum
<1>5. /\ data \in Seq(Byte) /\ Len(data) = 10 + Len(payload)
      /\ parse(data) = IF t = 1 THEN <<<<t>>, payload>> ELSE <<>>
  BY <1>1, <1>2, <1>4, ParseIs
<1> HIDE DEF text, data, buff
<1>6. n = Len(data)
  BY <1>3, ContentType
<1>7. n \in 0..(Words \div 2 - 1) /\ n \in Int /\ n \in Nat /\ n >= 10
  BY <1>2, <1>5, <1>6, WordsFacts
<1> HIDE DEF n
<1>8. x = hostToNetwork(n) \o data
  <2>1. hostToNetwork(n) \in Seq(Byte) /\ Len(hostToNetwork(n)) <= buff.reader
    BY <1>3, <1>7, RoundTrip, Sizes
  <2>2. Content(B!prepend(buff, hostToNetwork(n))) = hostToNetwork(n) \o Content(buff)
    BY <1>3, <2>1, Prepends
  <2> QED
    BY <1>3, <2>2 DEF prependInt32
<1> HIDE DEF x
<1>9. /\ x \in Seq(Byte) /\ Len(x) = 4 + Len(data) /\ Len(x) >= 4
      /\ networkToHost(x) = n /\ Part(x, 4, Len(x)) = data
  BY <1>5, <1>7, <1>8, Headed
<1>10. <<t>> \in KnownTypes <=> t = 1
  BY DEF KnownTypes
<1>11. /\ f.message = <<<<t>>, payload>> /\ f = [message |-> f.message, is |-> f.is]
       /\ f.is = IF n > ProtobufMax THEN "refused" ELSE IF t = 1 THEN "good" ELSE "unparsable"
  BY <1>10 DEF n, buff
<1>12. f \in Frame
  <2>1. <<t>> \in Seq(Byte)
    BY <1>1
  <2>2. f.message \in Messages
    BY <1>2, <1>11, <2>1 DEF Messages
  <2>3. f.is \in Kinds
    BY <1>11 DEF Kinds
  <2> QED
    BY <1>11, <2>2, <2>3 DEF Frame
<1>13. ProtobufMax \in Nat /\ Least("protobuf") = 10 /\ Most("protobuf") = ProtobufMax
  BY LimitsAssumption DEF Least, Most, kHeaderLen
<1>14. Message("protobuf", Part(x, 4, Len(x))) = parse(data)
  BY <1>9 DEF Message
<1>15. n \in 10..ProtobufMax <=> ~(n > ProtobufMax)
  BY <1>7, <1>13
<1>16. Len(x) = n + 4
  BY <1>5, <1>6, <1>7, <1>9
<1>17. /\ f.is = "refused" => ~(networkToHost(x) \in Least("protobuf")..Most("protobuf"))
       /\ f.is # "refused" =>
            networkToHost(x) \in Least("protobuf")..Most("protobuf") /\ Len(x) = networkToHost(x) + 4
       /\ f.is = "unparsable" => t # 1
       /\ f.is = "good" => t = 1
       /\ f.is # "empty"
  BY <1>9, <1>11, <1>13, <1>15, <1>16
<1>18. <<<<t>>, payload>> # <<>>
  OBVIOUS
<1>19. IsFrame("protobuf", x, f)
  BY <1>5, <1>9, <1>11, <1>14, <1>17, <1>18 DEF IsFrame
<1> QED
  BY <1>9, <1>12, <1>19 DEF x, n, buff

\* Four bytes of which the last differs are another number.
LEMMA OtherByte ==
  ASSUME NEW a \in Byte, NEW b \in Byte, NEW c \in Byte, NEW d \in Byte, NEW e \in Byte, d # e
  PROVE  Signed(Unsigned(a, b, c, d)) # Signed(Unsigned(a, b, c, e))
<1> DEFINE high == (a * Base + b) * Base + c
           m == high * Base + d
           n == high * Base + e
<1>1. Unsigned(a, b, c, d) = m /\ Unsigned(a, b, c, e) = n
  BY DEF Unsigned
<1>2. m \in 0..(Words - 1) /\ n \in 0..(Words - 1)
  BY <1>1, UnsignedType
<1>3. high * Base \in Int /\ d \in Int /\ e \in Int
  <2>1. a \in Int /\ b \in Int /\ c \in Int /\ d \in Int /\ e \in Int /\ Base \in Int
    BY BytesAssumption DEF Byte
  <2>2. a * Base \in Int
    BY <2>1
  <2>3. (a * Base + b) * Base \in Int
    BY <2>1, <2>2
  <2>4. high \in Int
    BY <2>1, <2>3
  <2> HIDE DEF high
  <2> QED
    BY <2>1, <2>4
<1>4. m # n
  <2> DEFINE k == high * Base
  <2> HIDE DEF k
  <2>1. k + d # k + e
    BY <1>3 DEF k
  <2> QED
    BY <2>1 DEF k
<1> HIDE DEF m, n
<1> QED
  BY <1>1, <1>2, <1>4, WordsFacts DEF Signed

\* SendDamaged sends what no codec takes for a message.
LEMMA DamagedFrames ==
  LET refused == [message |-> <<>>, is |-> "refused"]
      unparsable == [message |-> <<>>, is |-> "unparsable"]
      body == Content(Body(<<1>>, <<>>))
      damaged == [body EXCEPT ![Len(body)] = (@ + 1) % Base] IN
  /\ refused \in Frame /\ unparsable \in Frame
  /\ \A c : \A n \in Negatives : IsFrame(c, hostToNetwork(n), refused)
  /\ IsFrame("protobuf", hostToNetwork(1) \o <<1>>, refused)
  /\ IsFrame("protobuf", hostToNetwork(Len(body)) \o damaged, unparsable)
<1> DEFINE refused == [message |-> <<>>, is |-> "refused"]
           unparsable == [message |-> <<>>, is |-> "unparsable"]
           body == Content(Body(<<1>>, <<>>))
           damaged == [body EXCEPT ![Len(body)] = (@ + 1) % Base]
<1>1. 1 \in Byte /\ <<>> \in Seq(Byte) /\ Len(<<>>) = 0
  BY BytesAssumption DEF Byte
<1>2. refused \in Frame /\ unparsable \in Frame
  <2>1. <<>> \in Messages
    BY <1>1 DEF Messages
  <2> QED
    BY <2>1 DEF Frame, Kinds
<1>3. \A c : Least(c) \in Nat
  BY DEF Least, kHeaderLen
<1>4. Least("protobuf") = 10 /\ ProtobufMax \in Nat /\ 10 <= ProtobufMax /\ Most("protobuf") = ProtobufMax
  BY LimitsAssumption DEF Least, Most, kHeaderLen
<1>5. ASSUME NEW c, NEW n \in Negatives
      PROVE  IsFrame(c, hostToNetwork(n), refused)
  <2> DEFINE x == hostToNetwork(n)
  <2>0. n \in Int /\ n \in -(Words \div 2)..-1 /\ n < 0
    BY NegativesAssumption, WordsFacts
  <2>1. x \in Seq(Byte) /\ Len(x) = 4 /\ networkToHost(x) = n
    BY <2>0, RoundTrip
  <2> HIDE DEF x
  <2>2. Len(x) >= 4
    BY <2>1
  <2>3. ~(networkToHost(x) \in Least(c)..Most(c))
    BY <1>3, <2>0, <2>1
  <2> QED
    BY <2>1, <2>2, <2>3 DEF IsFrame, x
<1>6. IsFrame("protobuf", hostToNetwork(1) \o <<1>>, refused)
  <2> DEFINE x == hostToNetwork(1) \o <<1>>
  <2>1. <<1>> \in Seq(Byte) /\ 1 \in Int /\ 1 \in 0..(Words \div 2 - 1)
    BY <1>1, WordsFacts
  <2>2. x \in Seq(Byte) /\ Len(x) >= 4 /\ networkToHost(x) = 1
    BY <2>1, Headed
  <2> HIDE DEF x
  <2>3. ~(networkToHost(x) \in Least("protobuf")..Most("protobuf"))
    BY <1>4, <2>2
  <2> QED
    BY <2>2, <2>3 DEF IsFrame, x
<1>7. IsFrame("protobuf", hostToNetwork(Len(body)) \o damaged, unparsable)
  <2> DEFINE text == Text(1, <<>>)
             sum == hostToNetwork(adler32(text))
             last == (sum[4] + 1) % Base
             sum2 == [sum EXCEPT ![4] = last]
  <2>1. text \in Seq(Byte) /\ Len(text) = 6
    <3>1. text \in Seq(Byte) /\ Len(text) = 6 + Len(<<>>)
      BY <1>1, TextIs
    <3> QED
      BY <1>1, <3>1
  <2>2. sum \in Seq(Byte) /\ Len(sum) = 4 /\ networkToHost(sum) = adler32(text)
    <3>1. adler32(text) \in 0..(Words \div 2 - 1)
      BY <2>1, ChecksumType
    <3>2. adler32(text) \in Int
      BY <3>1, WordsFacts
    <3> QED
      BY <3>1, <3>2, RoundTrip
  <2>3. body = text \o sum
    BY <1>1, BodyIs
  <2> HIDE DEF text, sum, body
  <2>4. sum[1] \in Byte /\ sum[2] \in Byte /\ sum[3] \in Byte /\ sum[4] \in Byte
    <3>1. 1 \in 1..Len(sum) /\ 2 \in 1..Len(sum) /\ 3 \in 1..Len(sum) /\ 4 \in 1..Len(sum)
      BY <2>2
    <3> QED
      BY <2>2, <3>1, ElementOfSeq
  <2>5. last \in Byte /\ last # sum[4]
    <3> DEFINE k == sum[4]
    <3>1. k \in 0..(Base - 1) /\ Base \in Nat /\ Base >= 4
      BY <2>4, BytesAssumption DEF Byte
    <3> HIDE DEF k
    <3>2. CASE k = Base - 1
      <4>1. k + 1 = Base
        BY <3>1, <3>2
      <4>2. (k + 1) % Base = 0
        BY <3>1, <4>1
      <4> QED
        BY <3>1, <3>2, <4>2 DEF k, Byte
    <3>3. CASE k # Base - 1
      <4>1. (k + 1) % Base = k + 1
        BY <3>1, <3>3
      <4> QED
        BY <3>1, <3>3, <4>1 DEF k, Byte
    <3> QED
      BY <3>2, <3>3
  <2> HIDE DEF last
  <2>6. /\ sum2 \in Seq(Byte) /\ Len(sum2) = 4
        /\ sum2[1] = sum[1] /\ sum2[2] = sum[2] /\ sum2[3] = sum[3] /\ sum2[4] = last
    <3>1. 4 \in 1..Len(sum)
      BY <2>2
    <3>2. /\ sum2 \in Seq(Byte) /\ Len(sum2) = Len(sum)
          /\ \A j \in 1..Len(sum) : sum2[j] = IF j = 4 THEN last ELSE sum[j]
      BY <2>2, <2>5, <3>1, ExceptSeq
    <3> HIDE DEF sum2
    <3> QED
      BY <2>2, <3>2
  <2> HIDE DEF sum2
  <2>7. networkToHost(sum2) # adler32(text)
    <3>1. networkToHost(sum) = Signed(Unsigned(sum[1], sum[2], sum[3], sum[4]))
      BY <2>4, NetworkType
    <3>2. networkToHost(sum2) = Signed(Unsigned(sum[1], sum[2], sum[3], last))
      BY <2>4, <2>5, <2>6, NetworkType
    <3>3. Signed(Unsigned(sum[1], sum[2], sum[3], sum[4])) # Signed(Unsigned(sum[1], sum[2], sum[3], last))
      BY <2>4, <2>5, OtherByte
    <3> QED
      BY <2>2, <3>1, <3>2, <3>3
  <2>8. /\ text \o sum \in Seq(Byte) /\ Len(text \o sum) = 10
        /\ \A i \in 1..6 : (text \o sum)[i] = text[i]
        /\ \A i \in 1..4 : (text \o sum)[6 + i] = sum[i]
    <3>0. text \in Seq(Byte) /\ sum \in Seq(Byte)
      BY <2>1, <2>2
    <3>1. /\ text \o sum \in Seq(Byte) /\ Len(text \o sum) = Len(text) + Len(sum)
          /\ \A i \in 1..Len(text) : (text \o sum)[i] = text[i]
          /\ \A i \in 1..Len(sum) : (text \o sum)[Len(text) + i] = sum[i]
      BY <3>0, Concat
    <3> DEFINE u == text \o sum
               k == Len(text)
               n == Len(sum)
    <3>2. k = 6 /\ n = 4
      BY <2>1, <2>2
    <3> HIDE DEF u, k, n
    <3>3. u \in Seq(Byte) /\ Len(u) = k + n /\ (\A i \in 1..k : u[i] = text[i]) /\ \A i \in 1..n : u[k + i] = sum[i]
      BY <3>1 DEF u, k, n
    <3>4. u \in Seq(Byte) /\ Len(u) = 10 /\ (\A i \in 1..6 : u[i] = text[i]) /\ \A i \in 1..4 : u[6 + i] = sum[i]
      BY <3>2, <3>3
    <3> QED
      BY <3>4 DEF u
  <2>9. /\ text \o sum2 \in Seq(Byte) /\ Len(text \o sum2) = 10
        /\ \A i \in 1..6 : (text \o sum2)[i] = text[i]
        /\ \A i \in 1..4 : (text \o sum2)[6 + i] = sum2[i]
    <3>0. text \in Seq(Byte) /\ sum2 \in Seq(Byte)
      BY <2>1, <2>6
    <3>1. /\ text \o sum2 \in Seq(Byte) /\ Len(text \o sum2) = Len(text) + Len(sum2)
          /\ \A i \in 1..Len(text) : (text \o sum2)[i] = text[i]
          /\ \A i \in 1..Len(sum2) : (text \o sum2)[Len(text) + i] = sum2[i]
      BY <3>0, Concat
    <3> DEFINE u == text \o sum2
               k == Len(text)
               n == Len(sum2)
    <3>2. k = 6 /\ n = 4
      BY <2>1, <2>6
    <3> HIDE DEF u, k, n
    <3>3. u \in Seq(Byte) /\ Len(u) = k + n /\ (\A i \in 1..k : u[i] = text[i]) /\ \A i \in 1..n : u[k + i] = sum2[i]
      BY <3>1 DEF u, k, n
    <3>4. u \in Seq(Byte) /\ Len(u) = 10 /\ (\A i \in 1..6 : u[i] = text[i]) /\ \A i \in 1..4 : u[6 + i] = sum2[i]
      BY <3>2, <3>3
    <3> QED
      BY <3>4 DEF u
  <2>10. /\ damaged \in Seq(Byte) /\ Len(damaged) = 10
         /\ \A i \in 1..10 : damaged[i] = IF i = 10 THEN last ELSE body[i]
    <3>1. body[10] = sum[4] /\ Len(body) = 10 /\ body \in Seq(Byte)
      <4>1. 4 \in 1..4 /\ 6 + 4 = 10
        OBVIOUS
      <4> QED
        BY <2>3, <2>8, <4>1
    <3>2. (body[Len(body)] + 1) % Base = last
      BY <3>1 DEF last
    <3>3. damaged = [body EXCEPT ![Len(body)] = last]
      BY <3>2
    <3>4. Len(body) \in 1..Len(body)
      BY <3>1
    <3> HIDE DEF damaged
    <3>5. /\ damaged \in Seq(Byte) /\ Len(damaged) = Len(body)
          /\ \A i \in 1..Len(body) : damaged[i] = IF i = Len(body) THEN last ELSE body[i]
      BY <2>5, <3>1, <3>3, <3>4, ExceptSeq
    <3> QED
      BY <3>1, <3>5
  <2> HIDE DEF damaged
  <2>11. ASSUME NEW i \in 1..10
         PROVE  damaged[i] = (text \o sum2)[i]
    <3>1. CASE i \in 1..6
      <4>1. i # 10 /\ damaged[i] = IF i = 10 THEN last ELSE body[i]
        BY <2>10, <3>1
      <4>2. body[i] = text[i] /\ (text \o sum2)[i] = text[i]
        BY <2>3, <2>8, <2>9, <3>1
      <4> QED
        BY <4>1, <4>2
    <3>2. CASE i \in 7..10
      <4> DEFINE j == i - 6
      <4>1. j \in 1..4 /\ 6 + j = i
        BY <3>2
      <4> HIDE DEF j
      <4>2. (text \o sum2)[i] = sum2[j] /\ body[i] = sum[j]
        BY <2>3, <2>8, <2>9, <4>1
      <4>3. i = 10 <=> j = 4
        BY <4>1
      <4>4. sum2[j] = IF j = 4 THEN last ELSE sum[j]
        <5>1. j = 1 \/ j = 2 \/ j = 3 \/ j = 4
          BY <4>1
        <5> QED
          BY <2>6, <5>1
      <4> QED
        BY <2>10, <4>2, <4>3, <4>4
    <3>3. i \in 1..6 \/ i \in 7..10
      OBVIOUS
    <3> QED
      BY <3>1, <3>2, <3>3
  <2>12. damaged = text \o sum2
    <3>1. Len(damaged) = Len(text \o sum2) /\ \A i \in 1..Len(damaged) : damaged[i] = (text \o sum2)[i]
      BY <2>9, <2>10, <2>11
    <3> QED
      BY <2>9, <2>10, <3>1, SeqEqual
  <2>13. parse(damaged) = <<>>
    <3>1. parse(text \o sum2) = IF adler32(text) = networkToHost(sum2) /\ 1 = 1 THEN <<<<1>>, <<>>>> ELSE <<>>
      BY <1>1, <2>6, ParseIs DEF text
    <3> QED
      BY <2>7, <2>12, <3>1
  <2> DEFINE x == hostToNetwork(10) \o damaged
  <2>14. 10 \in Int /\ 10 \in 0..(Words \div 2 - 1)
    BY WordsFacts
  <2>15. /\ x \in Seq(Byte) /\ Len(x) = 4 + Len(damaged) /\ Len(x) >= 4
         /\ networkToHost(x) = 10 /\ Part(x, 4, Len(x)) = damaged
    BY <2>10, <2>14, Headed
  <2> HIDE DEF x
  <2>16. networkToHost(x) \in Least("protobuf")..Most("protobuf") /\ Len(x) = networkToHost(x) + 4
    BY <1>4, <2>10, <2>15
  <2>17. IsFrame("protobuf", x, unparsable)
    BY <2>13, <2>15, <2>16 DEF IsFrame
  <2>18. Len(body) = 10
    BY <2>3, <2>8
  <2> QED
    BY <2>17, <2>18 DEF x
<1> QED
  BY <1>2, <1>5, <1>6, <1>7

-----------------------------------------------------------------------------
(* What the steps do.                                                       *)

\* No negative length has cut the vector.
Whole == pc \in {"header", "body", "callback"}

\* Every variable has its type; until the vector is cut the buffer is sound and has room for
\* the body that is being read.
Types ==
  /\ codec \in {"length", "protobuf"} /\ pc \in {"header", "body", "past", "callback", "closed"}
  /\ wire \in Seq(Byte) /\ want \in Nat /\ shut \in {"yes", "no"} /\ failed \in Failures
  /\ sent \in Seq(Frame)
  /\ inputBuffer \in B!Object /\ inputBuffer.reader <= inputBuffer.writer
  /\ Whole => Sound(inputBuffer)
  /\ pc = "body" => want <= Room(inputBuffer)

\* The other side sends the bytes x, which are the frame f.
Sending(x, f) ==
  /\ x \in Seq(Byte) /\ f \in Frame /\ IsFrame(codec, x, f) /\ failed = "none" /\ pc # "closed"
  /\ wire' = wire \o x /\ sent' = Append(sent, f)
  /\ UNCHANGED <<codec, inputBuffer, pc, want, shut, delivered, failed>>

\* n bytes move from the wire to the buffer.
Moving(n) ==
  /\ pc \in {"header", "body"} /\ pc' \in {"body", "callback"}
  /\ n <= Len(wire) /\ wire' = Part(wire, n, Len(wire))
  /\ Sound(inputBuffer') /\ Content(inputBuffer') = Content(inputBuffer) \o Part(wire, 0, n)
  /\ failed = "none" /\ UNCHANGED <<codec, sent, shut, delivered, failed>>

\* An assertion or exception of the buffer or a write behind it ends the process.
Ending ==
  /\ failed = "none" /\ failed' \in Failures \ {"none"} /\ wire' \in Seq(Byte)
  /\ UNCHANGED <<codec, sent, inputBuffer, pc, want, shut, delivered>>

\* A negative length cuts the vector.
Cutting ==
  /\ failed = "none" /\ pc' = "past" /\ wire' \in Seq(Byte)
  /\ inputBuffer' \in B!Object /\ inputBuffer'.reader <= inputBuffer'.writer
  /\ UNCHANGED <<codec, sent, want, shut, delivered, failed>>

\* A message leaves the buffer.
Delivering(message) ==
  LET c == Content(inputBuffer)
      len == networkToHost(c) IN
  /\ Len(c) >= 4 /\ len \in Least(codec)..Most(codec) /\ len + 4 <= Len(c)
  /\ message = Message(codec, Part(c, 4, len + 4)) /\ (codec # "length" => message # <<>>)
  /\ Sound(inputBuffer') /\ Content(inputBuffer') = Part(c, len + 4, Len(c))
  /\ len + 4 = Len(c) => Fresh(inputBuffer')
  /\ delivered' = Append(delivered, message) /\ failed = "none" /\ pc = "callback"
  /\ UNCHANGED <<codec, wire, sent, pc, want, shut, failed>>

\* The sending actions send frames.
LEMMA SendingStep ==
  ASSUME Types, SendString \/ send \/ SendDamaged
  PROVE  \E x, f : Sending(x, f)
<1>1. ASSUME NEW bytes, NEW message, NEW is, Sends(bytes, message, is),
             [message |-> message, is |-> is] \in Frame,
             IsFrame(codec, bytes, [message |-> message, is |-> is])
      PROVE  Sending(bytes, [message |-> message, is |-> is])
  BY <1>1 DEF Sends, Sending, IsFrame
<1>2. CASE SendString
  <2>1. PICK s \in Payloads :
          /\ codec = "length"
          /\ Sends(hostToNetwork(Len(s)) \o s, s,
                   IF Len(s) > LengthMax THEN "refused" ELSE IF Len(s) = 0 THEN "empty" ELSE "good")
    BY <1>2 DEF SendString
  <2> DEFINE is == IF Len(s) > LengthMax THEN "refused" ELSE IF Len(s) = 0 THEN "empty" ELSE "good"
             f == [message |-> s, is |-> is]
  <2>2. f \in Frame /\ IsFrame("length", hostToNetwork(Len(s)) \o s, f)
    BY StringFrame
  <2> HIDE DEF is
  <2>3. Sending(hostToNetwork(Len(s)) \o s, f)
    BY <1>1, <2>1, <2>2 DEF is
  <2> QED
    BY <2>3
<1>3. CASE send
  <2>1. PICK type \in KnownTypes \cup NewTypes, payload \in Payloads :
          LET buff == Body(type, payload) IN
          /\ codec = "protobuf"
          /\ Sends(B!content(prependInt32(buff, B!readableBytes(buff))), <<type, payload>>,
                   IF B!readableBytes(buff) > ProtobufMax THEN "refused"
                   ELSE IF type \in KnownTypes THEN "good" ELSE "unparsable")
    BY <1>3 DEF send
  <2>2. PICK t \in {1, 2} : type = <<t>>
    BY DEF KnownTypes, NewTypes
  <2> DEFINE buff == Body(<<t>>, payload)
             is == IF B!readableBytes(buff) > ProtobufMax THEN "refused"
                   ELSE IF <<t>> \in KnownTypes THEN "good" ELSE "unparsable"
             f == [message |-> <<<<t>>, payload>>, is |-> is]
             x == Content(prependInt32(buff, B!readableBytes(buff)))
  <2>3. f \in Frame /\ IsFrame("protobuf", x, f)
    BY MessageFrame
  <2>4. codec = "protobuf" /\ Sends(x, <<<<t>>, payload>>, is)
    BY <2>1, <2>2 DEF Content
  <2> HIDE DEF is, x
  <2>5. Sending(x, f)
    BY <1>1, <2>3, <2>4
  <2> QED
    BY <2>5
<1>4. CASE SendDamaged
  <2> DEFINE body == Content(Body(<<1>>, <<>>))
             damaged == [body EXCEPT ![Len(body)] = (@ + 1) % Base]
  <2>1. \/ \E n \in Negatives : Sends(hostToNetwork(n), <<>>, "refused")
        \/ codec = "protobuf" /\ Sends(hostToNetwork(1) \o <<1>>, <<>>, "refused")
        \/ codec = "protobuf" /\ Sends(hostToNetwork(Len(body)) \o damaged, <<>>, "unparsable")
    BY <1>4 DEF SendDamaged, Content
  <2>2. /\ [message |-> <<>>, is |-> "refused"] \in Frame
        /\ [message |-> <<>>, is |-> "unparsable"] \in Frame
        /\ \A n \in Negatives : IsFrame(codec, hostToNetwork(n), [message |-> <<>>, is |-> "refused"])
        /\ IsFrame("protobuf", hostToNetwork(1) \o <<1>>, [message |-> <<>>, is |-> "refused"])
        /\ IsFrame("protobuf", hostToNetwork(Len(body)) \o damaged, [message |-> <<>>, is |-> "unparsable"])
    BY DamagedFrames
  <2> HIDE DEF body, damaged
  <2>3. CASE \E n \in Negatives : Sends(hostToNetwork(n), <<>>, "refused")
    <3>1. PICK n \in Negatives : Sends(hostToNetwork(n), <<>>, "refused")
      BY <2>3
    <3>2. Sending(hostToNetwork(n), [message |-> <<>>, is |-> "refused"])
      BY <1>1, <2>2, <3>1
    <3> QED
      BY <3>2
  <2>4. CASE codec = "protobuf" /\ Sends(hostToNetwork(1) \o <<1>>, <<>>, "refused")
    <3>1. Sending(hostToNetwork(1) \o <<1>>, [message |-> <<>>, is |-> "refused"])
      BY <1>1, <2>2, <2>4
    <3> QED
      BY <3>1
  <2>5. CASE codec = "protobuf" /\ Sends(hostToNetwork(Len(body)) \o damaged, <<>>, "unparsable")
    <3>1. Sending(hostToNetwork(Len(body)) \o damaged, [message |-> <<>>, is |-> "unparsable"])
      BY <1>1, <2>2, <2>5
    <3> QED
      BY <3>1
  <2> QED
    BY <2>1, <2>3, <2>4, <2>5
<1> QED
  BY <1>2, <1>3, <1>4

\* What a negative length does to a sound buffer.
LEMMA EnsureNegativeStep ==
  ASSUME NEW b, Sound(b), NEW len \in Int, EnsureNegative(b, len)
  PROVE  \/ \E how \in Failures \ {"none"} : Fails(how)
         \/ /\ inputBuffer' \in B!Object /\ inputBuffer'.reader <= inputBuffer'.writer
            /\ pc' = "past" /\ UNCHANGED <<want, failed>>
<1> DEFINE size == size_t(b.writer + len)
           cut == [b EXCEPT !.buffer = B!resize(@, size)]
<1>1. \/ Fails("length_error") \/ Fails("makeSpace") \/ Fails("ensureWritableBytes")
      \/ inputBuffer' = cut /\ pc' = "past" /\ UNCHANGED <<want, failed>>
  BY DEF EnsureNegative
<1>2. b.writer \in Nat /\ b \in B!Object /\ b.reader <= b.writer /\ b.buffer \in Seq(Byte)
  BY SoundIs DEF Sound
<1>3. size \in Nat
  <2>1. SizeWords \in Nat \ {0}
    BY WordsFacts DEF SizeWords
  <2> DEFINE a == b.writer + len
  <2>2. a \in Int
    BY <1>2
  <2> HIDE DEF a
  <2>3. a % SizeWords \in Nat
    BY <2>1, <2>2
  <2> QED
    BY <2>3 DEF a, size_t
<1> HIDE DEF size
<1>4. B!resize(b.buffer, size) \in Seq(Byte)
  <2>1. L!resize(b.buffer, size) \in Seq(Byte)
    BY <1>2, <1>3, L!ResizeType, Sizes
  <2> QED
    BY <2>1 DEF L!resize, B!resize
<1>5. cut \in B!Object /\ cut.reader <= cut.writer
  BY <1>2, <1>4 DEF B!Object
<1> HIDE DEF cut
<1> QED
  BY <1>1, <1>5 DEF Failures

\* readHeader moves four bytes and wants what they say.  Or it ends the process, when there
\* is no room or the length is negative, or the negative length cuts the vector.
LEMMA ReadHeaderStep ==
  ASSUME Types, readHeader
  PROVE  LET c == Content(inputBuffer) \o Part(wire, 0, 4) IN
         /\ pc = "header" /\ Len(wire) >= 4
         /\ \/ Ending /\ (Room(inputBuffer) < 4 \/ networkToHost(c) < 0)
            \/ Cutting /\ networkToHost(c) < 0
            \/ /\ Moving(4) /\ pc' = "body" /\ want' = networkToHost(c)
               /\ want' \in Nat /\ want' <= Room(inputBuffer')
<1> DEFINE head == Part(wire, 0, 4)
           c == Content(inputBuffer) \o head
           b == B!hasWritten(inputBuffer, SubSeq(wire, 1, kHeaderLen))
<1>0. pc = "header"
  BY DEF readHeader, Reads
<1>1. /\ Sound(inputBuffer) /\ wire \in Seq(Byte) /\ Len(wire) \in Nat /\ Room(inputBuffer) \in Nat
      /\ Content(inputBuffer) \in Seq(Byte) /\ Len(Content(inputBuffer)) \in Nat
  BY <1>0, ContentType, LenProperties DEF Types, Whole
<1>2. failed = "none" /\ pc = "header" /\ Len(wire) >= 4
  BY <1>0 DEF readHeader, Reads, kHeaderLen
<1>3. /\ head \in Seq(Byte) /\ Len(head) = 4
      /\ SubSeq(wire, 1, kHeaderLen) = head
      /\ SubSeq(wire, kHeaderLen + 1, Len(wire)) = Part(wire, 4, Len(wire))
  <2>1. 0 \in Nat /\ 4 \in Nat /\ 0 <= 4 /\ 4 <= Len(wire)
    BY <1>1, <1>2
  <2>2. wire \in Seq(Byte)
    BY <1>1
  <2>3. Part(wire, 0, 4) \in Seq(Byte) /\ Len(Part(wire, 0, 4)) = 4 - 0
    BY <2>1, <2>2, PartType, ZenonT(40)
  <2> QED
    BY <2>3 DEF Part, kHeaderLen
<1>4. wire' = Part(wire, 4, Len(wire)) /\ wire' \in Seq(Byte)
  <2>1. wire' = Part(wire, 4, Len(wire))
    BY <1>3 DEF readHeader, Takes
  <2>2. 4 \in Nat /\ 4 <= Len(wire) /\ Len(wire) <= Len(wire)
    BY <1>1, <1>2
  <2>3. Part(wire, 4, Len(wire)) \in Seq(Byte)
    BY <1>1, <2>2, PartType
  <2> QED
    BY <2>1, <2>3
<1>5. /\ UNCHANGED <<codec, sent, shut, delivered>>
      /\ \/ ~(Room(inputBuffer) >= 4) /\ Fails("hasWritten")
         \/ Room(inputBuffer) >= 4 /\ peekInt32(b) < 0 /\ EnsureNegative(b, peekInt32(b))
         \/ /\ Room(inputBuffer) >= 4 /\ peekInt32(b) >= 0
            /\ inputBuffer' = B!ensureWritableBytes(b, peekInt32(b))
            /\ want' = peekInt32(b) /\ pc' = "body" /\ UNCHANGED failed
  BY DEF readHeader, HeaderFits, kHeaderLen, Room
<1>6. Room(inputBuffer) >= 4 => Sound(b) /\ Content(b) = c
  <2>1. Room(inputBuffer) >= 4 => Len(head) <= Room(inputBuffer)
    BY <1>1, <1>3
  <2>2. b = B!hasWritten(inputBuffer, head)
    BY <1>3
  <2> HIDE DEF head, b
  <2> QED
    BY <1>1, <1>3, <2>1, <2>2, HasWritten
<1>7. c \in Seq(Byte) /\ Len(c) >= 4 /\ networkToHost(c) \in Int
  <2> DEFINE d == Content(inputBuffer)
  <2>1. d \in Seq(Byte) /\ head \in Seq(Byte)
    BY <1>1, <1>3
  <2> HIDE DEF d, head
  <2>2. d \o head \in Seq(Byte) /\ Len(d \o head) = Len(d) + Len(head)
    BY <2>1, Concat
  <2>3. Len(d) \in Nat /\ Len(head) = 4
    BY <1>1, <1>3 DEF d
  <2> DEFINE e == d \o head
  <2>4. e \in Seq(Byte) /\ Len(e) >= 4
    BY <2>2, <2>3
  <2> HIDE DEF e
  <2>5. networkToHost(e) \in Int
    BY <2>4, Front
  <2> QED
    BY <2>4, <2>5 DEF d, e
<1> HIDE DEF b, c
<1>8. Room(inputBuffer) >= 4 => peekInt32(b) = networkToHost(c)
  BY <1>6 DEF peekInt32, Content
<1>9. CASE ~(Room(inputBuffer) >= 4) /\ Fails("hasWritten")
  <2>1. Ending
    BY <1>2, <1>4, <1>5, <1>9 DEF Ending, Fails, Failures
  <2> QED
    BY <1>1, <1>2, <1>9, <2>1 DEF c
<1>10. CASE Room(inputBuffer) >= 4 /\ peekInt32(b) < 0 /\ EnsureNegative(b, peekInt32(b))
  <2>1. networkToHost(c) < 0
    BY <1>8, <1>10
  <2>2. \/ \E how \in Failures \ {"none"} : Fails(how)
        \/ /\ inputBuffer' \in B!Object /\ inputBuffer'.reader <= inputBuffer'.writer
           /\ pc' = "past" /\ UNCHANGED <<want, failed>>
    BY <1>6, <1>7, <1>8, <1>10, EnsureNegativeStep
  <2>3. Ending \/ Cutting
    <3>1. CASE \E how \in Failures \ {"none"} : Fails(how)
      BY <1>2, <1>4, <1>5, <3>1 DEF Ending, Fails
    <3>2. CASE /\ inputBuffer' \in B!Object /\ inputBuffer'.reader <= inputBuffer'.writer
               /\ pc' = "past" /\ UNCHANGED <<want, failed>>
      BY <1>2, <1>4, <1>5, <3>2 DEF Cutting
    <3> QED
      BY <2>2, <3>1, <3>2
  <2> QED
    BY <1>2, <2>1, <2>3 DEF c
<1>11. CASE /\ Room(inputBuffer) >= 4 /\ peekInt32(b) >= 0
            /\ inputBuffer' = B!ensureWritableBytes(b, peekInt32(b))
            /\ want' = peekInt32(b) /\ pc' = "body" /\ UNCHANGED failed
  <2> DEFINE len == networkToHost(c)
  <2>1. len \in Nat /\ want' = len /\ inputBuffer' = B!ensureWritableBytes(b, len)
    BY <1>7, <1>8, <1>11
  <2> HIDE DEF len
  <2>2. Sound(inputBuffer') /\ Room(inputBuffer') >= len /\ Content(inputBuffer') = Content(b)
    BY <1>6, <1>11, <2>1, Ensure
  <2>3. want' <= Room(inputBuffer')
    <3>1. Room(inputBuffer') \in Nat
      BY <2>2, ContentType
    <3> QED
      BY <2>1, <2>2, <3>1
  <2>4. Moving(4)
    BY <1>2, <1>4, <1>5, <1>6, <1>11, <2>2 DEF Moving, c
  <2> QED
    BY <1>2, <1>11, <2>1, <2>3, <2>4 DEF c, len
<1> QED
  BY <1>5, <1>9, <1>10, <1>11

\* readPast ends the process.
LEMMA ReadPastStep ==
  ASSUME Types, readPast
  PROVE  /\ Ending
         /\ (pc = "header" /\ ~(Room(inputBuffer) >= 4)) \/ pc = "past"
BY DEF Types, readPast, HeaderFits, Ending, Failures, Room, kHeaderLen

\* readBody moves as many bytes as it wants.
LEMMA ReadBodyStep ==
  ASSUME Types, readBody
  PROVE  pc = "body" /\ Moving(want) /\ pc' = "callback" /\ UNCHANGED want
<1>1. /\ failed = "none" /\ pc = "body" /\ want <= Len(wire) /\ want \in Nat /\ want <= Room(inputBuffer)
      /\ Sound(inputBuffer) /\ wire \in Seq(Byte) /\ Len(wire) \in Nat
  BY LenProperties DEF readBody, Reads, Types, Whole
<1> DEFINE data == Part(wire, 0, want)
<1>2. data \in Seq(Byte) /\ Len(data) <= Room(inputBuffer)
  <2>1. 0 \in Nat /\ 0 <= want
    BY <1>1
  <2>2. data \in Seq(Byte) /\ Len(data) = want - 0
    BY <1>1, <2>1, PartType
  <2> QED
    BY <1>1, <2>2
<1>3. SubSeq(wire, 1, want) = data /\ SubSeq(wire, want + 1, Len(wire)) = Part(wire, want, Len(wire))
  BY <1>1, PartsMake
<1>4. inputBuffer' = B!hasWritten(inputBuffer, data)
  BY <1>3 DEF readBody
<1> HIDE DEF data
<1>5. Sound(inputBuffer') /\ Content(inputBuffer') = Content(inputBuffer) \o data
  BY <1>1, <1>2, <1>4, HasWritten
<1>6. wire' = Part(wire, want, Len(wire)) /\ pc' = "callback" /\ UNCHANGED <<codec, sent, want, shut, delivered, failed>>
  BY <1>3 DEF readBody, Takes
<1> QED
  BY <1>1, <1>5, <1>6 DEF Moving, data

\* A round of onMessage that leaves the buffer alone: the loop goes round, or it ends with
\* too little in the buffer, or with a length that the codec refuses.
Leaving ==
  LET c == Content(inputBuffer)
      len == networkToHost(c)
      refused == Len(c) >= 4 /\ ~(len \in Least(codec)..Most(codec)) IN
  /\ failed = "none" /\ pc = "callback"
  /\ \/ UNCHANGED <<pc, shut>>
     \/ /\ pc' = "header" /\ UNCHANGED shut
        /\ Len(c) <= (IF codec = "length" THEN 4 ELSE 13) \/ Len(c) < len + 4
     \/ pc' = "header" /\ shut' = "yes" /\ refused
  /\ UNCHANGED <<codec, wire, sent, inputBuffer, want, delivered, failed>>

\* What the buffer holds when there is a whole frame in it, and what is left behind it.
LEMMA FrontOfBuffer ==
  ASSUME NEW b, Sound(b), NEW len \in Nat, len + 4 <= Len(Content(b))
  PROVE  LET c == Content(b)
             first == B!retrieve(b, 4)
             both == B!retrieve(first, len)
             whole == B!retrieve(b, len + 4) IN
         /\ SubSeq(Content(first), 1, len) = Part(c, 4, len + 4)
         /\ Sound(both) /\ Content(both) = Part(c, len + 4, Len(c))
         /\ len + 4 = Len(c) => Fresh(both)
         /\ Sound(whole) /\ Content(whole) = Part(c, len + 4, Len(c))
         /\ len + 4 = Len(c) => Fresh(whole)
<1> DEFINE c == Content(b)
           n == Len(c)
           first == B!retrieve(b, 4)
           both == B!retrieve(first, len)
           whole == B!retrieve(b, len + 4)
           d == Content(first)
           k == n - 4
<1>1. c \in Seq(Byte) /\ n \in Nat
  BY ContentType, LenProperties
<1>2. 4 \in Nat /\ len + 4 \in Nat /\ len + 4 <= n /\ 4 <= n /\ k \in Nat /\ len <= k /\ n <= n
  BY <1>1
<1>3. Sound(whole) /\ Content(whole) = Part(c, len + 4, n) /\ (len + 4 = n => Fresh(whole))
  BY <1>2, Retrieves
<1>4. Sound(first) /\ d = Part(c, 4, n)
  BY <1>2, Retrieves
<1> HIDE DEF first, c
<1>5. d \in Seq(Byte) /\ Len(d) = k
  <2>1. n \in Nat /\ n <= Len(c) /\ 4 <= n /\ 4 \in Nat
    BY <1>1, <1>2
  <2> HIDE DEF n
  <2>2. c \in Seq(Byte)
    BY <1>1
  <2>3. Part(c, 4, n) \in Seq(Byte) /\ Len(Part(c, 4, n)) = n - 4
    BY <2>1, <2>2, PartType, ZenonT(40)
  <2> QED
    BY <1>4, <2>3
<1>6. Sound(both) /\ Content(both) = Part(d, len, k) /\ (len = k => Fresh(both))
  <2>1. len <= Len(Content(first))
    BY <1>2, <1>5
  <2>2. /\ Sound(both) /\ Content(both) = Part(d, len, Len(d))
        /\ len = Len(d) => Fresh(both)
    BY <1>4, <2>1, Retrieves
  <2> QED
    BY <1>5, <2>2
<1> HIDE DEF n, k, d, both, whole
<1>7. Part(Part(c, 4, n), 0, len) = Part(c, 4 + 0, 4 + len)
  <2>1. 0 \in Nat /\ 0 <= len /\ 4 + len <= n /\ n <= Len(c)
    BY <1>1, <1>2 DEF n
  <2> QED
    BY <1>1, <1>2, <2>1, PartOfPart
<1>8. Part(Part(c, 4, n), len, k) = Part(c, 4 + len, 4 + k)
  <2>1. 4 + k <= n /\ n <= Len(c)
    BY <1>1, <1>2 DEF n, k
  <2> QED
    BY <1>1, <1>2, <2>1, PartOfPart
<1>9. 4 + 0 = 4 /\ 4 + len = len + 4 /\ 4 + k = n /\ 0 + 1 = 1 /\ (len + 4 = n => len = k)
  BY <1>1, <1>2 DEF k
<1>10. Part(d, 0, len) = SubSeq(d, 1, len)
  BY <1>9, Zenon DEF Part
<1>11. SubSeq(d, 1, len) = Part(c, 4, len + 4) /\ Part(d, len, k) = Part(c, len + 4, n)
  BY <1>4, <1>7, <1>8, <1>9, <1>10
<1> QED
  BY <1>3, <1>6, <1>9, <1>11 DEF c, n, d, both, whole, first

\* A round of onMessage leaves the buffer alone or delivers the message in front.
LEMMA OnMessageStep ==
  ASSUME Types, onMessage
  PROVE  Leaving \/ \E message : Delivering(message)
<1> DEFINE c == Content(inputBuffer)
           len == networkToHost(c)
           n == Len(c)
<1>0. pc = "callback"
  BY DEF onMessage, LengthOnMessage, ProtobufOnMessage, InCallback
<1>1. Sound(inputBuffer) /\ c \in Seq(Byte) /\ n \in Nat /\ n = B!readableBytes(inputBuffer)
  BY <1>0, ContentType, LenProperties DEF Types, Whole
<1>2. bodyLen = len /\ kMinMessageLen = Least(codec) /\ kMaxMessageLen = Most(codec)
  BY DEF bodyLen, peekInt32, Content, kMinMessageLen, kMaxMessageLen, Least, Most
<1>3. n >= 4 => len \in Int
  BY <1>1, Front
<1>4. Least(codec) \in Nat /\ Most(codec) \in Nat
  BY LimitsAssumption DEF Least, Most, kHeaderLen
<1>5. (Refused <=> len > Most(codec) \/ len < Least(codec)) /\ (Complete <=> n >= len + 4)
  BY <1>1, <1>2 DEF Refused, Complete, kHeaderLen
<1>6. n >= 4 => (~Refused <=> len \in Least(codec)..Most(codec))
  BY <1>3, <1>4, <1>5
<1>7. n >= 4 /\ ~Refused => len \in Nat
  BY <1>3, <1>4, <1>5
<1>8. CASE LengthOnMessage
  <2> DEFINE b == B!retrieve(inputBuffer, kHeaderLen)
  <2>1. /\ codec = "length" /\ failed = "none" /\ pc = "callback"
        /\ UNCHANGED <<codec, wire, sent, want, failed>>
        /\ \/ (n > 4 => ~Refused /\ ~Complete) /\ Returns
           \/ n > 4 /\ Refused /\ Refuses
           \/ /\ n > 4 /\ ~Refused /\ Complete
              /\ Delivers(SubSeq(Content(b), 1, len), B!retrieve(b, len))
    BY <1>1, <1>2, <1>8 DEF LengthOnMessage, InCallback, Content, kHeaderLen
  <2>2. CASE (n > 4 => ~Refused /\ ~Complete) /\ Returns
    <3>1. n <= 4 \/ n < len + 4
      BY <1>1, <1>5, <1>7, <2>2
    <3>2. Leaving
      BY <2>1, <2>2, <3>1 DEF Leaving, Returns
    <3> QED
      BY <3>2
  <2>3. CASE n > 4 /\ Refused /\ Refuses
    <3>1. n >= 4 /\ ~(len \in Least(codec)..Most(codec))
      BY <1>1, <1>6, <2>3
    <3>2. Leaving
      BY <2>1, <2>3, <3>1 DEF Leaving, Refuses
    <3> QED
      BY <3>2
  <2>4. CASE /\ n > 4 /\ ~Refused /\ Complete
             /\ Delivers(SubSeq(Content(b), 1, len), B!retrieve(b, len))
    <3>1. n >= 4 /\ len \in Least(codec)..Most(codec) /\ len \in Nat /\ len + 4 <= n
      BY <1>1, <1>5, <1>6, <1>7, <2>4
    <3> DEFINE data == Part(c, 4, len + 4)
               e == B!retrieve(b, len)
    <3>2. /\ SubSeq(Content(b), 1, len) = data /\ Sound(e) /\ Content(e) = Part(c, len + 4, n)
          /\ len + 4 = n => Fresh(e)
      BY <1>1, <3>1, FrontOfBuffer DEF kHeaderLen
    <3>3. delivered' = Append(delivered, data) /\ inputBuffer' = e /\ UNCHANGED <<pc, shut>>
      BY <2>4, <3>2 DEF Delivers
    <3>4. data = Message(codec, data)
      BY <2>1 DEF Message
    <3> HIDE DEF e, data
    <3>5. Delivering(data)
      BY <2>1, <3>1, <3>2, <3>3, <3>4 DEF Delivering, data
    <3> QED
      BY <3>5
  <2> QED
    BY <2>1, <2>2, <2>3, <2>4
<1>9. CASE ProtobufOnMessage
  <2> DEFINE data == SubSeq(Content(inputBuffer), kHeaderLen + 1, kHeaderLen + bodyLen)
             message == parse(data)
  <2>1. /\ codec = "protobuf" /\ failed = "none" /\ pc = "callback"
        /\ UNCHANGED <<codec, wire, sent, want, failed>>
        /\ \/ ~(n >= kMinMessageLen + kHeaderLen) /\ Returns
           \/ n >= kMinMessageLen + kHeaderLen /\ Refused /\ Refuses
           \/ /\ n >= kMinMessageLen + kHeaderLen /\ ~Refused
              /\ IF Complete /\ message # <<>>
                 THEN Delivers(message, ProtobufRetrieve(inputBuffer, bodyLen))
                 ELSE UNCHANGED <<inputBuffer, pc, shut, delivered>>
    BY <1>1, <1>9 DEF ProtobufOnMessage, InCallback, Content
  <2>2. kMinMessageLen + kHeaderLen = 14
    BY <1>2, <2>1 DEF Least, kHeaderLen
  <2> HIDE DEF message
  <2>3. CASE ~(n >= kMinMessageLen + kHeaderLen) /\ Returns
    <3>1. n <= 13
      BY <1>1, <2>2, <2>3
    <3>2. Leaving
      BY <2>1, <2>3, <3>1 DEF Leaving, Returns
    <3> QED
      BY <3>2
  <2>4. CASE n >= kMinMessageLen + kHeaderLen /\ Refused /\ Refuses
    <3>1. n >= 4 /\ ~(len \in Least(codec)..Most(codec))
      BY <1>1, <1>6, <2>2, <2>4
    <3>2. Leaving
      BY <2>1, <2>4, <3>1 DEF Leaving, Refuses
    <3> QED
      BY <3>2
  <2>5. CASE /\ n >= kMinMessageLen + kHeaderLen /\ ~Refused /\ Complete /\ message # <<>>
             /\ Delivers(message, ProtobufRetrieve(inputBuffer, bodyLen))
    <3>1. n >= 4 /\ len \in Least(codec)..Most(codec) /\ len \in Nat /\ len + 4 <= n
      BY <1>1, <1>5, <1>6, <1>7, <2>2, <2>5
    <3> DEFINE e == B!retrieve(inputBuffer, len + 4)
    <3>2. Sound(e) /\ Content(e) = Part(c, len + 4, n) /\ (len + 4 = n => Fresh(e))
      BY <1>1, <3>1, FrontOfBuffer
    <3>3. delivered' = Append(delivered, message) /\ inputBuffer' = e /\ UNCHANGED <<pc, shut>>
      BY <1>2, <2>5 DEF Delivers, ProtobufRetrieve, kHeaderLen
    <3>4. message = Message(codec, Part(c, 4, len + 4))
      <4>1. kHeaderLen + 1 = 4 + 1 /\ kHeaderLen + bodyLen = len + 4
        BY <1>2, <3>1 DEF kHeaderLen
      <4>2. data = Part(c, 4, len + 4)
        BY <4>1, Zenon DEF Part
      <4> QED
        BY <2>1, <4>2 DEF Message, message
    <3> HIDE DEF e
    <3>5. Delivering(message)
      BY <2>1, <2>5, <3>1, <3>2, <3>3, <3>4 DEF Delivering
    <3> QED
      BY <3>5
  <2>6. CASE UNCHANGED <<inputBuffer, pc, shut, delivered>>
    <3>1. Leaving
      BY <2>1, <2>6 DEF Leaving
    <3> QED
      BY <3>1
  <2> QED
    BY <2>1, <2>3, <2>4, <2>5, <2>6
<1> QED
  BY <1>8, <1>9 DEF onMessage

-----------------------------------------------------------------------------
(* Types.                                                                   *)

\* The new buffer and the empty sequences have their types.
LEMMA TypesInit == Init => Types
<1> SUFFICES ASSUME Init PROVE Types
  OBVIOUS
<1>1. Sound(inputBuffer)
  BY NewIs DEF Init
<1>2. <<>> \in Seq(Byte) /\ <<>> \in Seq(Frame)
  BY EmptySeq
<1> QED
  BY <1>1, <1>2 DEF Init, Types, Whole, Sound, Failures

\* What ends the process changes no other type.
LEMMA EndingTypes ==
  ASSUME Types, Ending
  PROVE  Types'
BY DEF Ending, Types, Whole, Room, B!writableBytes

\* Every step keeps the types.
LEMMA TypesNext == Types /\ [Next]_vars => Types'
<1> SUFFICES ASSUME Types, [Next]_vars PROVE Types'
  OBVIOUS
<1>1. /\ wire \in Seq(Byte) /\ sent \in Seq(Frame) /\ want \in Nat /\ Len(wire) \in Nat
  BY LenProperties DEF Types
<1>2. ASSUME NEW x, NEW f, Sending(x, f)
      PROVE  Types'
  <2>1. wire \o x \in Seq(Byte)
    BY <1>1, <1>2, Concat DEF Sending
  <2>2. Append(sent, f) \in Seq(Frame)
    BY <1>1, <1>2, AppendProperties DEF Sending
  <2> QED
    BY <1>2, <2>1, <2>2 DEF Sending, Types, Whole, Room, B!writableBytes
<1>3. ASSUME NEW n \in Nat, Moving(n)
      PROVE  wire' \in Seq(Byte)
  <2> DEFINE k == Len(wire)
  <2>1. k \in Nat /\ n <= k /\ k <= Len(wire) /\ wire' = Part(wire, n, k)
    BY <1>1, <1>3 DEF Moving
  <2> HIDE DEF k
  <2>2. Part(wire, n, k) \in Seq(Byte)
    BY <1>1, <2>1, PartType
  <2> QED
    BY <2>1, <2>2
<1>4. CASE readHeader
  <2>1. CASE Ending
    BY <2>1, EndingTypes
  <2>3. CASE Cutting
    BY <2>3 DEF Cutting, Types, Whole
  <2>2. CASE Moving(4) /\ pc' = "body" /\ want' \in Nat /\ want' <= Room(inputBuffer')
    <3>1. wire' \in Seq(Byte)
      BY <1>3, <2>2
    <3> QED
      BY <2>2, <3>1 DEF Moving, Types, Sound
  <2> QED
    BY <1>4, <2>1, <2>2, <2>3, ReadHeaderStep
<1>5. CASE readBody
  <2>1. Moving(want) /\ pc' = "callback" /\ UNCHANGED want
    BY <1>5, ReadBodyStep
  <2>2. wire' \in Seq(Byte)
    BY <1>1, <1>3, <2>1
  <2> QED
    BY <2>1, <2>2 DEF Moving, Types, Sound
<1>6. CASE ReadFails
  BY <1>6 DEF ReadFails, Types, Whole
<1>7. CASE onMessage
  <2>1. CASE Leaving
    BY <2>1 DEF Leaving, Types, Whole, Room, B!writableBytes
  <2>2. ASSUME NEW message, Delivering(message)
        PROVE  Types'
    BY <2>2 DEF Delivering, Types, Sound
  <2> QED
    BY <1>7, <2>1, <2>2, OnMessageStep
<1>8. CASE UNCHANGED vars
  BY <1>8 DEF vars, Types, Whole, Room, B!writableBytes
<1>9. CASE SendString \/ send \/ SendDamaged
  BY <1>2, <1>9, SendingStep
<1>10. CASE readPast
  BY <1>10, ReadPastStep, EndingTypes
<1> QED
  BY <1>4, <1>5, <1>6, <1>7, <1>8, <1>9, <1>10 DEF Next

\* Every variable has its type, in every state.
LEMMA TypesHold == Spec => []Types
<1>1. Init => Types
  BY TypesInit
<1>2. Types /\ [Next]_vars => Types'
  BY TypesNext
<1> QED
  BY <1>1, <1>2, PTL DEF Spec

\* The type invariant of the runs: whatever the other side sends, the indices stay inside the
\* vector and the body being read fits into it, unless a negative length has cut the vector
\* (readHeader, ensureWritableBytes, onMessage).
THEOREM TypeCorrect == Spec => []TypeOK
<1>1. Types => TypeOK
  <2> SUFFICES ASSUME Types PROVE TypeOK
    OBVIOUS
  <2>1. Whole => inputBuffer.writer <= Len(inputBuffer.buffer)
    BY DEF Types, Sound
  <2>2. ASSUME NEW i \in 1..Len(sent)
        PROVE  sent[i].is \in Kinds
    <3>1. sent[i] \in Frame
      BY ElementOfSeq DEF Types
    <3> QED
      BY <3>1 DEF Frame
  <2> QED
    BY <2>1, <2>2 DEF Types, TypeOK, Whole, Room
<1> QED
  BY <1>1, TypesHold, PTL

-----------------------------------------------------------------------------
(* Messages come in order.                                                  *)

\* What was read and not retrieved, and what was not read.
Stream == Content(inputBuffer) \o wire

\* What was delivered was sent, in this order, and the bytes under way are the frames that
\* were sent since, until the vector is cut.
Delivery ==
  /\ delivered \in Seq(Messages) /\ Len(delivered) <= Len(sent)
  /\ \A i \in 1..Len(delivered) :
       sent[i].is \in {"good", "empty"} /\ delivered[i] = sent[i].message
  /\ failed = "none" /\ Whole => Frames(codec, Stream, sent, Len(delivered))

\* The types of what was sent and delivered.
LEMMA SentType ==
  ASSUME Types, Delivery
  PROVE  /\ wire \in Seq(Byte) /\ sent \in Seq(Frame) /\ codec \in {"length", "protobuf"}
         /\ Len(delivered) \in 0..Len(sent) /\ Len(delivered) \in Nat /\ Len(sent) \in Nat
<1>1. Len(delivered) \in Nat /\ Len(sent) \in Nat
  BY LenProperties DEF Types, Delivery
<1> QED
  BY <1>1 DEF Types, Delivery

\* The types of the sequences.
LEMMA StreamType ==
  ASSUME Types, Delivery, Whole
  PROVE  /\ Content(inputBuffer) \in Seq(Byte) /\ Len(Content(inputBuffer)) \in Nat
         /\ wire \in Seq(Byte) /\ Len(wire) \in Nat
         /\ Stream \in Seq(Byte) /\ Len(Stream) = Len(Content(inputBuffer)) + Len(wire)
         /\ Len(delivered) \in 0..Len(sent) /\ Len(delivered) \in Nat /\ Len(sent) \in Nat
         /\ sent \in Seq(Frame) /\ codec \in {"length", "protobuf"}
<1>1. Content(inputBuffer) \in Seq(Byte) /\ wire \in Seq(Byte)
  BY ContentType DEF Types, Whole
<1>2. Stream \in Seq(Byte) /\ Len(Stream) = Len(Content(inputBuffer)) + Len(wire)
  BY <1>1, Concat DEF Stream
<1> QED
  BY <1>1, <1>2, SentType, LenProperties

\* When four bytes or more are at the front, they are the header of the first frame.
LEMMA FrontOfStream ==
  ASSUME Types, Delivery, Whole, failed = "none", NEW s \in Seq(Byte), Len(s) >= 4, NEW t \in Seq(Byte),
         Stream = s \o t
  PROVE  /\ Len(delivered) < Len(sent) /\ sent[Len(delivered) + 1] \in Frame
         /\ \E m \in 4..Len(Stream) :
              /\ IsFrame(codec, Part(Stream, 0, m), sent[Len(delivered) + 1])
              /\ Len(Part(Stream, 0, m)) = m
              /\ Frames(codec, Part(Stream, m, Len(Stream)), sent, Len(delivered) + 1)
              /\ networkToHost(Part(Stream, 0, m)) = networkToHost(s)
<1> DEFINE d == Len(delivered)
<1>1. Stream \in Seq(Byte) /\ Len(Stream) \in Nat /\ d \in 0..Len(sent) /\ d \in Nat /\ sent \in Seq(Frame)
  BY StreamType
<1>2. Len(Stream) = Len(s) + Len(t) /\ Len(s) \in Nat /\ Len(t) \in Nat
  BY Concat, LenProperties
<1>3. Len(Stream) > 0 /\ Len(Stream) >= 4
  BY <1>2
<1>4. Frames(codec, Stream, sent, d)
  BY DEF Delivery
<1> HIDE DEF d
<1>5. /\ d < Len(sent)
      /\ \E m \in 4..Len(Stream) : /\ IsFrame(codec, Part(Stream, 0, m), sent[d + 1])
                                   /\ Frames(codec, Part(Stream, m, Len(Stream)), sent, d + 1)
  BY <1>1, <1>3, <1>4, FirstFrame
<1>6. PICK m \in 4..Len(Stream) : /\ IsFrame(codec, Part(Stream, 0, m), sent[d + 1])
                                  /\ Frames(codec, Part(Stream, m, Len(Stream)), sent, d + 1)
  BY <1>5
<1>7. networkToHost(Part(Stream, 0, m)) = networkToHost(Stream)
  BY <1>1, <1>3, Front
<1>8. networkToHost(Stream) = networkToHost(s)
  BY Front
<1>9. Len(Part(Stream, 0, m)) = m
  <2>1. 0 \in Nat /\ m \in Nat /\ 0 <= m /\ m <= Len(Stream)
    BY <1>1
  <2>2. Stream \in Seq(Byte)
    BY <1>1
  <2>3. Len(Part(Stream, 0, m)) = m - 0
    BY <2>1, <2>2, PartType, Zenon
  <2> QED
    BY <2>1, <2>3
<1>10. sent[d + 1] \in Frame
  <2>1. d + 1 \in 1..Len(sent)
    BY <1>1, <1>5
  <2> QED
    BY <1>1, <2>1, ElementOfSeq
<1> QED
  BY <1>5, <1>6, <1>7, <1>8, <1>9, <1>10 DEF d

\* Moving bytes from the wire to the buffer leaves the stream as it is.
LEMMA MovingStream ==
  ASSUME Types, Delivery, NEW n \in Nat, Moving(n)
  PROVE  /\ Stream' = Stream /\ Part(wire, 0, n) \in Seq(Byte) /\ Len(Part(wire, 0, n)) = n
         /\ Stream = (Content(inputBuffer) \o Part(wire, 0, n)) \o Part(wire, n, Len(wire))
         /\ Part(wire, n, Len(wire)) \in Seq(Byte)
<1> DEFINE p == Part(wire, 0, n)
           k == Len(wire)
           q == Part(wire, n, k)
           c == Content(inputBuffer)
<1>1. c \in Seq(Byte) /\ wire \in Seq(Byte) /\ k \in Nat /\ n <= k /\ k <= k
  BY StreamType DEF Moving, Whole
<1>2. p \in Seq(Byte) /\ Len(p) = n
  <2>1. 0 \in Nat /\ 0 <= n
    OBVIOUS
  <2>2. Part(wire, 0, n) \in Seq(Byte) /\ Len(Part(wire, 0, n)) = n - 0
    BY <1>1, <2>1, PartType
  <2> QED
    BY <2>2
<1>3. q \in Seq(Byte)
  <2> HIDE DEF k
  <2>1. k <= Len(wire)
    BY DEF k
  <2>2. Part(wire, n, k) \in Seq(Byte)
    BY <1>1, <2>1, PartType
  <2> QED
    BY <2>2
<1>4. p \o q = wire
  BY <1>1, PartsMake
<1>5. wire' = q /\ Content(inputBuffer') = c \o p
  BY DEF Moving
<1>6. Stream' = Content(inputBuffer') \o wire'
  BY DEF Stream, Content, B!content, B!readableBytes
<1> HIDE DEF p, q, c
<1>7. (c \o p) \o q = c \o (p \o q)
  <2>1. c \in Seq(Byte) /\ p \in Seq(Byte) /\ q \in Seq(Byte)
    BY <1>1, <1>2, <1>3
  <2> QED
    BY <2>1, ConcatAssociative, SMTT(30)
<1>8. Stream = c \o wire
  BY DEF Stream, c
<1> QED
  BY <1>2, <1>3, <1>4, <1>5, <1>6, <1>7, <1>8 DEF p, q, c

\* At the start no byte is under way and nothing was sent.
LEMMA DeliveryInit == Init => Delivery
<1> SUFFICES ASSUME Init PROVE Delivery
  OBVIOUS
<1>1. /\ wire = <<>> /\ sent = <<>> /\ delivered = <<>> /\ Content(inputBuffer) = <<>>
  BY NewIs DEF Init
<1>2. <<>> \in Seq(Byte) /\ Len(<<>>) = 0 /\ <<>> \in Seq(Messages)
  BY EmptySeq
<1>3. Stream = <<>>
  BY <1>1, <1>2, ConcatEmptySeq DEF Stream
<1> DEFINE off == [i \in 0..0 |-> 0]
<1>4. Cut(codec, <<>>, <<>>, 0, off)
  <2>1. off \in [0..0 -> Nat] /\ off[0] = 0
    OBVIOUS
  <2> HIDE DEF off
  <2>2. \A i \in 0..0 : \A j \in 0..0 : ~(i < j)
    OBVIOUS
  <2>3. (0 + 1)..0 = {}
    OBVIOUS
  <2> QED
    BY <1>2, <2>1, <2>2, <2>3 DEF Cut
<1>5. Frames(codec, Stream, sent, Len(delivered))
  BY <1>1, <1>2, <1>3, <1>4 DEF Frames
<1> QED
  BY <1>1, <1>2, <1>5 DEF Delivery

\* Sending adds a frame behind the others.
LEMMA DeliverySending ==
  ASSUME Types, Delivery, NEW x, NEW f, Sending(x, f)
  PROVE  Delivery'
<1> DEFINE c == Content(inputBuffer)
           n == Len(sent)
<1>1. /\ wire \in Seq(Byte) /\ Len(delivered) \in 0..n /\ n \in Nat /\ sent \in Seq(Frame)
      /\ x \in Seq(Byte) /\ f \in Frame /\ failed = "none"
  BY SentType DEF Sending
<1>2. ASSUME Whole
      PROVE  c \in Seq(Byte) /\ Stream \in Seq(Byte) /\ Stream' = Stream \o x
  <2>0. c \in Seq(Byte) /\ Stream \in Seq(Byte)
    BY <1>2, StreamType
  <2>1. Stream' = c \o (wire \o x)
    BY DEF Sending, Stream, Content, B!content, B!readableBytes
  <2>2. Stream = c \o wire
    BY DEF Stream
  <2> HIDE DEF c
  <2>3. c \in Seq(Byte) /\ wire \in Seq(Byte) /\ x \in Seq(Byte)
    BY <1>1, <2>0
  <2>4. (c \o wire) \o x = c \o (wire \o x)
    BY <2>3, ConcatAssociative, SMTT(30)
  <2> QED
    BY <2>0, <2>1, <2>2, <2>4 DEF c
<1>3. Whole => Frames(codec, Stream, sent, Len(delivered))
  BY DEF Sending, Delivery
<1>4. Whole => Frames(codec, Stream \o x, Append(sent, f), Len(delivered))
  BY <1>1, <1>2, <1>3, AddFrame DEF Sending
<1>5. /\ sent' = Append(sent, f) /\ Len(sent') = n + 1 /\ \A i \in 1..n : sent'[i] = sent[i]
  BY <1>1, AppendProperties DEF Sending
<1>6. codec' = codec /\ delivered' = delivered
  BY DEF Sending
<1>7. Whole' => Frames(codec', Stream', sent', Len(delivered'))
  <2>1. Whole' <=> Whole
    BY DEF Sending, Whole
  <2> QED
    BY <1>2, <1>4, <1>5, <1>6, <2>1
<1>8. Len(delivered') <= Len(sent')
  BY <1>1, <1>5, <1>6
<1>9. ASSUME NEW i \in 1..Len(delivered')
      PROVE  sent'[i].is \in {"good", "empty"} /\ delivered'[i] = sent'[i].message
  <2>1. i \in 1..Len(delivered) /\ i \in 1..n
    BY <1>1, <1>6
  <2> QED
    BY <1>5, <1>6, <2>1 DEF Delivery
<1> QED
  BY <1>6, <1>7, <1>8, <1>9 DEF Delivery

\* What changes neither the stream nor what was sent and delivered keeps them related.
LEMMA DeliveryKept ==
  ASSUME Delivery, UNCHANGED <<codec, sent, delivered>>,
         failed' = "none" /\ Whole' => failed = "none" /\ Whole /\ Stream' = Stream
  PROVE  Delivery'
BY DEF Delivery

\* The codec delivers the message of the first frame.
LEMMA DeliveryDelivering ==
  ASSUME Types, Delivery, NEW message, Delivering(message)
  PROVE  Delivery'
<1> DEFINE c == Content(inputBuffer)
           len == networkToHost(c)
           d == Len(delivered)
           f == sent[d + 1]
<1>0. Whole
  BY DEF Delivering, Whole
<1>1. /\ c \in Seq(Byte) /\ wire \in Seq(Byte) /\ Stream \in Seq(Byte) /\ d \in 0..Len(sent)
      /\ d \in Nat /\ Len(sent) \in Nat /\ sent \in Seq(Frame) /\ Stream = c \o wire /\ Len(c) \in Nat
      /\ Len(wire) \in Nat /\ Len(Stream) = Len(c) + Len(wire) /\ codec \in {"length", "protobuf"}
  BY <1>0, StreamType DEF Stream
<1>2. /\ Len(c) >= 4 /\ len \in Least(codec)..Most(codec) /\ len + 4 <= Len(c)
      /\ message = Message(codec, Part(c, 4, len + 4)) /\ (codec # "length" => message # <<>>)
      /\ Content(inputBuffer') = Part(c, len + 4, Len(c))
      /\ delivered' = Append(delivered, message) /\ failed = "none"
      /\ UNCHANGED <<codec, wire, sent, failed>>
  BY DEF Delivering
<1>3. len \in Nat
  <2>1. Least(codec) \in Nat /\ len \in Int
    BY <1>1, <1>2, Front DEF Least, kHeaderLen
  <2> QED
    BY <1>2, <2>1
<1>4. /\ d < Len(sent) /\ f \in Frame
      /\ \E m \in 4..Len(Stream) :
           /\ IsFrame(codec, Part(Stream, 0, m), f) /\ Len(Part(Stream, 0, m)) = m
           /\ Frames(codec, Part(Stream, m, Len(Stream)), sent, d + 1)
           /\ networkToHost(Part(Stream, 0, m)) = len
  BY <1>0, <1>1, <1>2, FrontOfStream
<1>5. PICK m \in 4..Len(Stream) :
           /\ IsFrame(codec, Part(Stream, 0, m), f) /\ Len(Part(Stream, 0, m)) = m
           /\ Frames(codec, Part(Stream, m, Len(Stream)), sent, d + 1)
           /\ networkToHost(Part(Stream, 0, m)) = len
  BY <1>4
<1> DEFINE x == Part(Stream, 0, m)
<1> HIDE DEF c, len, d
<1>6. f.is # "refused" /\ m = len + 4
  BY <1>2, <1>5 DEF IsFrame
<1>7. Part(x, 4, m) = Part(c, 4, len + 4)
  <2>1. Part(Part(Stream, 0, m), 4, m) = Part(Stream, 0 + 4, 0 + m)
    <3> DEFINE z == 0
               k == 4
    <3>1. z \in Nat /\ m \in Nat /\ z <= m /\ m <= Len(Stream) /\ k \in Nat /\ k <= m /\ z + m <= m
      BY <1>1
    <3> HIDE DEF z, k
    <3>2. Stream \in Seq(Byte)
      BY <1>1
    <3>3. Part(Part(Stream, z, m), k, m) = Part(Stream, z + k, z + m)
      BY ONLY <3>1, <3>2, PartOfPart
    <3> QED
      BY <3>3 DEF z, k
  <2>2. Part(c \o wire, 4, m) = Part(c, 4, m)
    <3>1. m \in Nat /\ 4 \in Nat /\ 4 <= m /\ m <= Len(c)
      BY <1>1, <1>2, <1>6
    <3> QED
      BY <1>1, <3>1, PartOfFirst
  <2>3. 0 + 4 = 4 /\ 0 + m = m
    BY <1>1
  <2> QED
    BY <1>1, <1>6, <2>1, <2>2, <2>3
<1>8. f.is \in {"good", "empty"} /\ message = f.message
  <2>1. f.is \in Kinds
    BY <1>4 DEF Frame
  <2>2. f.is # "unparsable"
    <3>1. SUFFICES ASSUME f.is = "unparsable" PROVE FALSE
      OBVIOUS
    <3>2. codec # "length" /\ parse(Part(x, 4, m)) = <<>>
      BY <1>5, <3>1 DEF IsFrame
    <3>3. message = parse(Part(x, 4, m))
      BY <1>2, <1>7, <3>2 DEF Message
    <3> QED
      BY <1>2, <3>2, <3>3
  <2>3. f.is \in {"good", "empty"}
    BY <1>6, <2>1, <2>2 DEF Kinds
  <2>4. f.message = Message(codec, Part(x, 4, m))
    BY <1>5, <2>3 DEF IsFrame
  <2> QED
    BY <1>2, <1>7, <2>3, <2>4
<1>9. Stream' = Part(Stream, m, Len(Stream))
  <2>1. Stream' = Part(c, m, Len(c)) \o wire
    BY <1>2, <1>6 DEF Stream, Content, B!content, B!readableBytes
  <2> DEFINE k == Len(c)
             n == Len(Stream)
             p == Part(Stream, m, k)
             q == Part(Stream, k, n)
             rest == Part(Stream, m, n)
  <2>2. m \in Nat /\ k \in Nat /\ n \in Nat /\ m <= k /\ k <= n /\ n <= Len(Stream) /\ k <= Len(c)
    BY <1>1, <1>2, <1>6
  <2>3. p = Part(c, m, k)
    BY <1>1, <2>2, PartOfFirst
  <2>4. q = wire
    <3>1. Part(c \o wire, Len(c) + 0, Len(c) + Len(wire)) = Part(wire, 0, Len(wire))
      <4>1. 0 \in Nat /\ 0 <= Len(wire) /\ Len(wire) <= Len(wire)
        BY <1>1
      <4> QED
        BY <1>1, <4>1, PartOfSecond
    <3>2. Part(wire, 0, Len(wire)) = wire
      BY <1>1, SubSeqFull DEF Part
    <3>3. Len(c) + 0 = k /\ Len(c) + Len(wire) = n
      BY <1>1
    <3> QED
      BY <1>1, <3>1, <3>2, <3>3
  <2>5. p \o q = rest
    <3>1. m + 1 \in 1..(Len(Stream) + 1) /\ k \in ((m + 1) - 1)..Len(Stream) /\ n \in k..Len(Stream)
      BY <2>2
    <3> HIDE DEF k, n
    <3>2. SubSeq(Stream, m + 1, k) \o SubSeq(Stream, k + 1, n) = SubSeq(Stream, m + 1, n)
      BY <1>1, <3>1, ConcatAdjacentSubSeq
    <3> QED
      BY <3>2 DEF Part
  <2> QED
    BY <2>1, <2>3, <2>4, <2>5
<1>10. /\ delivered' \in Seq(Messages) /\ Len(delivered') = d + 1 /\ delivered'[d + 1] = message
       /\ \A i \in 1..d : delivered'[i] = delivered[i]
  <2>1. message \in Messages
    BY <1>4, <1>8 DEF Frame
  <2>2. /\ Append(delivered, message) \in Seq(Messages) /\ Len(Append(delivered, message)) = d + 1
        /\ Append(delivered, message)[d + 1] = message
        /\ \A i \in 1..d : Append(delivered, message)[i] = delivered[i]
    BY <2>1, AppendProperties DEF Delivery, d
  <2> QED
    BY <1>2, <2>2
<1>11. ASSUME NEW i \in 1..Len(delivered')
       PROVE  sent'[i].is \in {"good", "empty"} /\ delivered'[i] = sent'[i].message
  <2>1. CASE i = d + 1
    BY <1>2, <1>8, <1>10, <2>1
  <2>2. CASE i # d + 1
    <3>1. i \in 1..d
      BY <1>1, <1>10, <2>2
    <3>2. sent[i].is \in {"good", "empty"} /\ delivered[i] = sent[i].message
      BY <3>1 DEF Delivery, d
    <3> QED
      BY <1>2, <1>10, <3>1, <3>2
  <2> QED
    BY <2>1, <2>2
<1>12. Frames(codec', Stream', sent', Len(delivered')) /\ Len(delivered') <= Len(sent')
  BY <1>1, <1>2, <1>4, <1>5, <1>9, <1>10
<1> QED
  BY <1>10, <1>11, <1>12 DEF Delivery

\* Every step keeps what is delivered and what is under way in order.
LEMMA DeliveryNext == Types /\ Delivery /\ [Next]_vars => Delivery'
<1> SUFFICES ASSUME Types, Delivery, [Next]_vars PROVE Delivery'
  OBVIOUS
<1>1. CASE SendString \/ send \/ SendDamaged
  BY <1>1, SendingStep, DeliverySending
<1>2. ASSUME NEW n \in Nat, Moving(n)
      PROVE  Delivery'
  <2>1. Stream' = Stream
    BY <1>2, MovingStream
  <2> QED
    BY <1>2, <2>1, DeliveryKept DEF Moving, Whole
<1>3. CASE readHeader
  <2>1. CASE Ending \/ Cutting
    BY <2>1, DeliveryKept DEF Ending, Cutting, Whole, Failures
  <2> QED
    BY <1>2, <1>3, <2>1, ReadHeaderStep
<1>4. CASE readBody
  <2>1. want \in Nat
    BY DEF Types
  <2> QED
    BY <1>2, <1>4, <2>1, ReadBodyStep
<1>5. ASSUME UNCHANGED <<codec, wire, sent, inputBuffer, delivered, failed>>, Whole' => Whole
      PROVE  Delivery'
  <2>1. Stream' = Stream
    BY <1>5 DEF Stream, Content, B!content, B!readableBytes
  <2> QED
    BY <1>5, <2>1, DeliveryKept
<1>6. CASE ReadFails
  BY <1>5, <1>6 DEF ReadFails, Whole
<1>7. CASE onMessage
  <2>1. CASE Leaving
    BY <1>5, <2>1 DEF Leaving, Whole
  <2> QED
    BY <1>7, <2>1, OnMessageStep, DeliveryDelivering
<1>8. CASE UNCHANGED vars
  BY <1>5, <1>8 DEF vars, Whole
<1>9. CASE readPast
  BY <1>9, ReadPastStep, DeliveryKept DEF Ending
<1> QED
  BY <1>1, <1>3, <1>4, <1>6, <1>7, <1>8, <1>9 DEF Next

\* The callback gets the messages that were sent, whole and in order, and none that was sent
\* behind a frame the codec refuses or cannot parse: the length at the front of the buffer
\* is always that of the first frame not delivered (readHeader, readBody, onMessage).
THEOREM MessagesComeInOrder == Spec => []DeliveredInOrder
<1>1. Init => Types /\ Delivery
  BY TypesInit, DeliveryInit
<1>2. (Types /\ Delivery) /\ [Next]_vars => (Types /\ Delivery)'
  BY TypesNext, DeliveryNext
<1>3. Delivery => DeliveredInOrder
  BY DEF Delivery, DeliveredInOrder
<1> QED
  BY <1>1, <1>2, <1>3, PTL DEF Spec

-----------------------------------------------------------------------------
(* Ordinary traffic.                                                        *)

Ordinary == Only({"good", "empty"})
Mixed == ~Only({"good"})

\* While only messages were sent, the buffer holds what the operation under way has left in
\* it: nothing, or, once an empty message was sent, one header too many.
Position ==
  LET n == Len(Content(inputBuffer))
      len == networkToHost(Content(inputBuffer)) IN
  /\ shut = "no"
  /\ pc = "header" => (n = 0 /\ Fresh(inputBuffer)) \/ (n = 4 /\ Mixed)
  /\ pc = "body" => want = len /\ (n = 4 \/ (n = 8 /\ Mixed))
  /\ pc = "callback" =>
       \/ n = 0 /\ Fresh(inputBuffer)
       \/ n >= 4 /\ n = len + 4
       \/ Mixed /\ (n = 4 \/ (n >= 4 /\ n = len + 8))

Control ==
  /\ Only({"good"}) => failed = "none"
  /\ failed = "none" /\ Ordinary => Position /\ pc # "past"

Inv == Types /\ Delivery /\ Control

\* Good messages only are ordinary.
LEMMA GoodIsOrdinary == Only({"good"}) => Ordinary
BY DEF Only, Ordinary

\* The first frame under way, when only messages were sent: its length is one the codec
\* takes, and all its bytes are sent.
LEMMA OrdinaryFront ==
  ASSUME Types, Delivery, Whole, failed = "none", Ordinary, NEW s \in Seq(Byte), Len(s) >= 4,
         NEW t \in Seq(Byte), Stream = s \o t
  PROVE  LET len == networkToHost(s) IN
         /\ len \in Least(codec)..Most(codec) /\ len \in Nat /\ len + 4 <= Len(Stream)
         /\ Len(delivered) < Len(sent)
         /\ Len(Stream) - (len + 4) < 4 => Len(sent) = Len(delivered) + 1
         /\ codec = "length" /\ len = 0 => Mixed
<1> DEFINE len == networkToHost(s)
           d == Len(delivered)
           f == sent[d + 1]
<1>1. /\ Stream \in Seq(Byte) /\ Len(Stream) \in Nat /\ d \in 0..Len(sent) /\ d \in Nat /\ Len(sent) \in Nat
      /\ sent \in Seq(Frame) /\ codec \in {"length", "protobuf"}
  BY StreamType, LenProperties
<1>2. /\ d < Len(sent) /\ f \in Frame
      /\ \E m \in 4..Len(Stream) :
           /\ IsFrame(codec, Part(Stream, 0, m), f) /\ Len(Part(Stream, 0, m)) = m
           /\ Frames(codec, Part(Stream, m, Len(Stream)), sent, d + 1)
           /\ networkToHost(Part(Stream, 0, m)) = len
  BY FrontOfStream
<1>3. PICK m \in 4..Len(Stream) :
           /\ IsFrame(codec, Part(Stream, 0, m), f) /\ Len(Part(Stream, 0, m)) = m
           /\ Frames(codec, Part(Stream, m, Len(Stream)), sent, d + 1)
           /\ networkToHost(Part(Stream, 0, m)) = len
  BY <1>2
<1>4. d + 1 \in 1..Len(sent)
  BY <1>1, <1>2
<1>5. f.is \in {"good", "empty"}
  BY <1>4 DEF Ordinary, Only
<1> HIDE DEF len, d
<1>6. len \in Least(codec)..Most(codec) /\ m = len + 4
  BY <1>3, <1>5 DEF IsFrame
<1>7. len \in Nat
  <2>1. Least(codec) \in Nat
    BY DEF Least, kHeaderLen
  <2> QED
    BY <1>6, <2>1
<1>8. ASSUME Len(Stream) - (len + 4) < 4
      PROVE  Len(sent) = d + 1
  <2> DEFINE k == Len(Stream)
             rest == Part(Stream, m, k)
  <2>1. m \in Nat /\ k \in Nat /\ m <= k /\ k <= Len(Stream)
    BY <1>1
  <2> HIDE DEF k
  <2>2. rest \in Seq(Byte) /\ Len(rest) = k - m
    <3>1. Stream \in Seq(Byte)
      BY <1>1
    <3>2. Part(Stream, m, k) \in Seq(Byte) /\ Len(Part(Stream, m, k)) = k - m
      BY ONLY <2>1, <3>1, PartType
    <3> QED
      BY <3>2
  <2>3. Len(rest) < 4
    BY <1>6, <1>8, <2>2 DEF k
  <2>4. Frames(codec, rest, sent, d + 1)
    BY <1>3 DEF k
  <2> HIDE DEF rest
  <2> DEFINE e == d + 1
  <2>5. e \in 0..Len(sent)
    BY <1>1, <1>4
  <2> HIDE DEF e
  <2>6. Frames(codec, rest, sent, e)
    BY <2>4 DEF e
  <2>7. e = Len(sent)
    BY <1>1, <2>2, <2>3, <2>5, <2>6, NoFrame
  <2> QED
    BY <2>7 DEF e
<1>9. ASSUME codec = "length", len = 0
      PROVE  Mixed
  <2>1. f.is # "good"
    BY <1>3, <1>6, <1>9 DEF IsFrame
  <2> QED
    BY <1>4, <2>1 DEF Mixed, Only
<1> QED
  BY <1>1, <1>2, <1>6, <1>7, <1>8, <1>9 DEF len, d

\* The same for the bytes in the buffer.
LEMMA OrdinaryBuffer ==
  ASSUME Types, Delivery, Whole, failed = "none", Ordinary, Len(Content(inputBuffer)) >= 4
  PROVE  LET len == networkToHost(Content(inputBuffer)) IN
         /\ len \in Least(codec)..Most(codec) /\ len \in Nat /\ len + 4 <= Len(Stream)
         /\ Len(delivered) < Len(sent)
         /\ Len(Stream) - (len + 4) < 4 => Len(sent) = Len(delivered) + 1
         /\ codec = "length" /\ len = 0 => Mixed
<1> DEFINE c == Content(inputBuffer)
<1>1. c \in Seq(Byte) /\ wire \in Seq(Byte) /\ Stream = c \o wire
  BY StreamType DEF Stream
<1> QED
  BY <1>1, OrdinaryFront

\* At the start the buffer is new.
LEMMA ControlInit == Init => Control
<1> SUFFICES ASSUME Init PROVE Control
  OBVIOUS
<1>1. Content(inputBuffer) = <<>> /\ Fresh(inputBuffer)
  BY NewIs DEF Init
<1>2. Len(<<>>) = 0
  OBVIOUS
<1>3. Len(Content(inputBuffer)) = 0
  BY <1>1, <1>2
<1> QED
  BY <1>1, <1>3 DEF Init, Control, Position

\* Sending takes no kind of frame away.
LEMMA ControlSending ==
  ASSUME Types, Delivery, Control, NEW x, NEW f, Sending(x, f)
  PROVE  Control'
<1>1. /\ Len(sent) \in Nat /\ Len(sent') = Len(sent) + 1 /\ \A i \in 1..Len(sent) : sent'[i] = sent[i]
  BY SentType, AppendProperties DEF Sending
<1>2. ASSUME NEW kinds, \A i \in 1..Len(sent') : sent'[i].is \in kinds
      PROVE  \A i \in 1..Len(sent) : sent[i].is \in kinds
  <2> SUFFICES ASSUME NEW i \in 1..Len(sent) PROVE sent[i].is \in kinds
    OBVIOUS
  <2>1. i \in 1..Len(sent')
    BY <1>1
  <2> QED
    BY <1>1, <1>2, <2>1
<1>3. (Only({"good"})' => Only({"good"})) /\ (Ordinary' => Ordinary) /\ (Mixed => Mixed')
  BY <1>2 DEF Only, Ordinary, Mixed
<1>4. UNCHANGED <<pc, want, shut, failed, inputBuffer, Content(inputBuffer)>>
  BY DEF Sending, Content, B!content, B!readableBytes
<1>5. (Fresh(inputBuffer))' <=> Fresh(inputBuffer)
  BY <1>4 DEF Fresh
<1>6. (Position /\ (Mixed => Mixed') => Position') /\ pc' = pc
  BY <1>4, <1>5 DEF Position
<1> QED
  BY <1>3, <1>4, <1>6 DEF Control

\* What was sent is not changed by the other steps, and neither is its kind.
LEMMA KindsKept ==
  ASSUME UNCHANGED sent
  PROVE  (Only({"good"})' <=> Only({"good"})) /\ (Ordinary' <=> Ordinary) /\ (Mixed' <=> Mixed)
BY DEF Only, Ordinary, Mixed

\* readHeader finds room for the header, and a length that is not negative.
LEMMA ControlReadHeader ==
  ASSUME Types, Delivery, Control, readHeader
  PROVE  Control'
<1> DEFINE c == Content(inputBuffer)
           c2 == c \o Part(wire, 0, 4)
<1>1. pc = "header" /\ Len(wire) >= 4 /\ Whole
  BY ReadHeaderStep DEF Whole
<1>2. c \in Seq(Byte) /\ Len(c) \in Nat /\ wire \in Seq(Byte) /\ Len(wire) \in Nat
  BY <1>1, StreamType
<1>3. ASSUME Ordinary, failed = "none"
      PROVE  networkToHost(c2) \in Nat
  <2> DEFINE p == Part(wire, 0, 4)
             k == Len(wire)
             q == Part(wire, 4, k)
  <2>5. p \in Seq(Byte) /\ Len(p) = 4
    <3>1. 0 \in Nat /\ 4 \in Nat /\ 0 <= 4 /\ 4 <= Len(wire)
      BY <1>1, <1>2
    <3>2. wire \in Seq(Byte)
      BY <1>2
    <3>3. p \in Seq(Byte) /\ Len(p) = 4 - 0
      BY <3>1, <3>2, PartType, ZenonT(40)
    <3> QED
      BY <3>3
  <2>6. q \in Seq(Byte)
    <3>1. 4 \in Nat /\ k \in Nat /\ 4 <= k /\ k <= Len(wire)
      BY <1>1, <1>2
    <3> HIDE DEF k
    <3>2. Part(wire, 4, k) \in Seq(Byte)
      BY <1>2, <3>1, PartType
    <3> QED
      BY <3>2
  <2>7. p \o q = wire
    <3>1. 4 \in Nat /\ 4 <= Len(wire)
      BY <1>1, <1>2
    <3> QED
      BY <1>2, <3>1, PartsMake
  <2> HIDE DEF p, q, c
  <2>8. (c \o p) \o q = Stream
    <3>1. (c \o p) \o q = c \o (p \o q)
      BY <1>2, <2>5, <2>6, ConcatAssociative
    <3> QED
      BY <2>7, <3>1 DEF Stream, c
  <2> DEFINE s == c \o p
  <2>9. s \in Seq(Byte) /\ Len(s) >= 4
    <3>0. c \in Seq(Byte) /\ p \in Seq(Byte)
      BY <1>2, <2>5
    <3>1. s \in Seq(Byte) /\ Len(s) = Len(c) + Len(p)
      BY <3>0, Concat
    <3> QED
      BY <1>2, <2>5, <3>1
  <2>10. Stream = s \o q
    BY <2>8
  <2> HIDE DEF s
  <2>11. networkToHost(s) \in Nat
    BY <1>1, <1>3, <2>6, <2>9, <2>10, OrdinaryFront
  <2> QED
    BY <2>11 DEF s, p, c
<1>5. CASE Ending /\ (Room(inputBuffer) < 4 \/ networkToHost(c2) < 0)
  <2>1. SUFFICES ASSUME Only({"good"}) PROVE FALSE
    BY <1>5, KindsKept DEF Control, Ending
  <2>2. failed = "none" /\ Ordinary /\ Position /\ ~Mixed
    BY <1>5, <2>1, GoodIsOrdinary DEF Control, Ending, Mixed
  <2>3. Len(c) = 0 /\ Fresh(inputBuffer)
    BY <1>1, <2>2 DEF Position
  <2>4. Room(inputBuffer) >= 4 /\ Room(inputBuffer) \in Nat
    BY <1>1, <2>3, ContentType DEF Types
  <2>5. networkToHost(c2) \in Nat
    BY <1>3, <2>2
  <2> HIDE DEF c2
  <2> QED
    BY <1>5, <2>4, <2>5
<1>6. CASE Cutting /\ networkToHost(c2) < 0
  <2>1. failed = "none" /\ failed' = "none" /\ sent' = sent
    BY <1>6 DEF Cutting
  <2> SUFFICES ASSUME Ordinary PROVE FALSE
    BY <2>1, KindsKept DEF Control
  <2>2. networkToHost(c2) \in Nat
    BY <1>3, <2>1
  <2> HIDE DEF c2
  <2> QED
    BY <1>6, <2>2
<1>4. CASE Moving(4) /\ pc' = "body" /\ want' = networkToHost(c2)
  <2>1. /\ Content(inputBuffer') = c2 /\ failed = "none" /\ failed' = "none" /\ shut' = shut
        /\ sent' = sent
    BY <1>4 DEF Moving
  <2>2. Len(c2) = Len(c) + 4
    <3>1. Part(wire, 0, 4) \in Seq(Byte) /\ Len(Part(wire, 0, 4)) = 4
      BY <1>4, MovingStream
    <3> DEFINE p == Part(wire, 0, 4)
    <3>2. c \in Seq(Byte) /\ p \in Seq(Byte)
      BY <1>2, <3>1
    <3> HIDE DEF p, c
    <3>3. Len(c \o p) = Len(c) + Len(p)
      BY <3>2, Concat
    <3> QED
      BY <3>1, <3>3 DEF p
  <2>3. ASSUME Ordinary, Position
        PROVE  Position'
    <3>1. Len(c) = 0 \/ (Len(c) = 4 /\ Mixed)
      BY <1>1, <2>3 DEF Position
    <3>2. Len(c2) = 4 \/ (Len(c2) = 8 /\ Mixed')
      <4>1. Mixed' <=> Mixed
        BY <2>1, KindsKept
      <4> HIDE DEF c, c2
      <4>2. CASE Len(c) = 0
        BY <2>2, <4>2
      <4>3. CASE Len(c) = 4 /\ Mixed
        BY <2>2, <4>1, <4>3
      <4> QED
        BY <3>1, <4>2, <4>3
    <3>3. shut' = "no"
      BY <2>1, <2>3 DEF Position
    <3> HIDE DEF c2
    <3> QED
      BY <1>4, <2>1, <3>2, <3>3 DEF Position
  <2> QED
    BY <1>4, <2>1, <2>3, KindsKept DEF Control
<1> QED
  BY <1>4, <1>5, <1>6, ReadHeaderStep

\* readBody reads what the length at the front says.
LEMMA ControlReadBody ==
  ASSUME Types, Delivery, Control, readBody
  PROVE  Control'
<1> DEFINE c == Content(inputBuffer)
           p == Part(wire, 0, want)
           c2 == c \o p
<1>1. pc = "body" /\ Moving(want) /\ pc' = "callback" /\ want \in Nat
  BY ReadBodyStep DEF Types
<1>2. /\ c \in Seq(Byte) /\ Len(c) \in Nat /\ p \in Seq(Byte) /\ Len(p) = want
      /\ Content(inputBuffer') = c2 /\ failed = "none" /\ failed' = "none" /\ shut' = shut
      /\ sent' = sent
  BY <1>1, StreamType, MovingStream DEF Moving, Whole
<1> HIDE DEF c, p
<1>3. Len(c2) = Len(c) + want
  <2>1. Len(c \o p) = Len(c) + Len(p)
    BY <1>2, Concat
  <2> QED
    BY <1>2, <2>1
<1>4. Len(c) >= 4 => networkToHost(c2) = networkToHost(c)
  BY <1>2, Front
<1> HIDE DEF c2
<1>5. ASSUME Ordinary, Position
      PROVE  Position'
  <2>1. want = networkToHost(c) /\ (Len(c) = 4 \/ (Len(c) = 8 /\ Mixed)) /\ shut = "no"
    BY <1>1, <1>5 DEF Position, c
  <2>2. Mixed' <=> Mixed
    BY <1>2, KindsKept
  <2>3. /\ Len(c2) >= 4 /\ networkToHost(c2) = want
        /\ Len(c2) = want + 4 \/ (Mixed' /\ Len(c2) = want + 8)
    <3>1. CASE Len(c) = 4
      BY <1>1, <1>3, <1>4, <2>1, <3>1
    <3>2. CASE Len(c) = 8 /\ Mixed
      <4>1. Len(c2) = want + 8 /\ Len(c2) >= 4 /\ networkToHost(c2) = want
        BY <1>1, <1>3, <1>4, <2>1, <3>2
      <4> QED
        BY <2>2, <3>2, <4>1
    <3> QED
      BY <2>1, <3>1, <3>2
  <2> QED
    BY <1>1, <1>2, <2>1, <2>3 DEF Position
<1> QED
  BY <1>1, <1>2, <1>5, KindsKept DEF Control

\* onMessage ends with the buffer empty, or with a header that an empty message left.
LEMMA ControlLeaving ==
  ASSUME Types, Delivery, Control, Leaving
  PROVE  Control'
<1> DEFINE c == Content(inputBuffer)
           n == Len(c)
           len == networkToHost(c)
<1>0. Whole
  BY DEF Leaving, Whole
<1>1. /\ n \in Nat /\ codec \in {"length", "protobuf"}
  BY <1>0, StreamType
<1>2. /\ failed = "none" /\ pc = "callback" /\ UNCHANGED <<codec, sent, inputBuffer, failed, want>>
      /\ \/ UNCHANGED <<pc, shut>>
         \/ /\ pc' = "header" /\ UNCHANGED shut
            /\ n <= (IF codec = "length" THEN 4 ELSE 13) \/ n < len + 4
         \/ pc' = "header" /\ shut' = "yes" /\ n >= 4 /\ ~(len \in Least(codec)..Most(codec))
  BY DEF Leaving
<1>3. Content(inputBuffer') = c /\ ((Fresh(inputBuffer))' <=> Fresh(inputBuffer))
  BY <1>2 DEF Content, B!content, B!readableBytes, Fresh
<1>4. (Ordinary' <=> Ordinary) /\ (Mixed' <=> Mixed)
  BY <1>2, KindsKept
<1>5. ASSUME Ordinary, Position
      PROVE  Position'
  <2>1. shut = "no" /\ \/ n = 0 /\ Fresh(inputBuffer)
                       \/ n >= 4 /\ n = len + 4
                       \/ Mixed /\ (n = 4 \/ (n >= 4 /\ n = len + 8))
    BY <1>2, <1>5 DEF Position
  <2>2. n >= 4 => /\ len \in Least(codec)..Most(codec) /\ len \in Nat
                  /\ codec = "length" /\ len = 0 => Mixed
    BY <1>0, <1>2, <1>5, OrdinaryBuffer
  <2>3. codec # "length" => Least(codec) = 10
    BY DEF Least, kHeaderLen
  <2> HIDE DEF c, n, len
  <2>4. CASE UNCHANGED <<pc, shut>>
    BY <1>2, <1>3, <1>4, <2>1, <2>4 DEF Position, c, n, len
  <2>5. CASE /\ pc' = "header" /\ UNCHANGED shut
             /\ n <= (IF codec = "length" THEN 4 ELSE 13) \/ n < len + 4
    <3>1. (n = 0 /\ Fresh(inputBuffer)) \/ (n = 4 /\ Mixed)
      <4>1. CASE n = 0 /\ Fresh(inputBuffer)
        BY <4>1
      <4>2. CASE n >= 4
        <5>1. n = len + 4 \/ (Mixed /\ (n = 4 \/ n = len + 8))
          BY <2>1, <4>2
        <5>2. len \in Nat /\ len >= Least(codec)
          BY <2>2, <2>3, <4>2 DEF Least
        <5>3. CASE codec = "length"
          <6>1. n = 4
            BY <1>1, <2>5, <4>2, <5>1, <5>2, <5>3
          <6>2. Mixed
            <7>1. CASE n = len + 4
              BY <2>2, <4>2, <5>2, <5>3, <6>1, <7>1
            <7> QED
              BY <5>1, <7>1
          <6> QED
            BY <6>1, <6>2
        <5>4. CASE codec # "length"
          <6>1. len >= 10
            BY <2>3, <5>2, <5>4
          <6>2. n = 4 /\ Mixed
            BY <1>1, <2>5, <5>1, <5>2, <5>4, <6>1
          <6> QED
            BY <6>2
        <5> QED
          BY <5>3, <5>4
      <4> QED
        BY <2>1, <4>1, <4>2
    <3> QED
      BY <1>2, <1>3, <1>4, <2>1, <2>5, <3>1 DEF Position, c, n
  <2>6. CASE n >= 4 /\ ~(len \in Least(codec)..Most(codec))
    BY <2>2, <2>6
  <2> QED
    BY <1>2, <2>4, <2>5, <2>6
<1> QED
  BY <1>2, <1>4, <1>5, KindsKept DEF Control

\* A delivered message leaves the buffer empty, or with a header too many.
LEMMA ControlDelivering ==
  ASSUME Types, Delivery, Control, NEW message, Delivering(message)
  PROVE  Control'
<1> DEFINE c == Content(inputBuffer)
           n == Len(c)
           len == networkToHost(c)
           c2 == Content(inputBuffer')
<1>0. Whole
  BY DEF Delivering, Whole
<1>1. /\ n \in Nat /\ c \in Seq(Byte)
  BY <1>0, StreamType
<1>2. /\ n >= 4 /\ len + 4 <= n /\ failed = "none" /\ pc = "callback"
      /\ c2 = Part(c, len + 4, n) /\ (len + 4 = n => Fresh(inputBuffer'))
      /\ UNCHANGED <<sent, pc, shut, failed>>
  BY DEF Delivering
<1>3. (Ordinary' <=> Ordinary) /\ (Mixed' <=> Mixed)
  BY <1>2, KindsKept
<1>4. ASSUME Ordinary, Position
      PROVE  Position'
  <2>1. len \in Nat
    BY <1>0, <1>2, <1>4, OrdinaryBuffer
  <2>2. Len(c2) = n - (len + 4)
    <3> DEFINE a == len + 4
    <3>1. a \in Nat /\ n \in Nat /\ a <= n /\ n <= Len(c)
      BY <1>1, <1>2, <2>1
    <3> HIDE DEF a, c, n, c2
    <3>2. Len(Part(c, a, n)) = n - a
      BY <1>1, <3>1, PartType
    <3> QED
      BY <1>2, <3>2 DEF a
  <2>3. shut = "no" /\ (n = len + 4 \/ (Mixed /\ (n = 4 \/ n = len + 8)))
    BY <1>2, <1>4 DEF Position
  <2> HIDE DEF c, n, len, c2
  <2>4. (Len(c2) = 0 /\ Fresh(inputBuffer')) \/ (Mixed' /\ Len(c2) = 4)
    <3>1. CASE n = len + 4
      BY <1>1, <1>2, <2>2, <3>1
    <3>2. CASE Mixed /\ n = 4
      BY <1>1, <1>2, <2>1, <2>2, <3>2
    <3>3. CASE Mixed /\ n = len + 8
      BY <1>1, <1>3, <2>1, <2>2, <3>3
    <3> QED
      BY <2>3, <3>1, <3>2, <3>3
  <2>5. (Fresh(inputBuffer))' <=> Fresh(inputBuffer')
    BY DEF Fresh
  <2> QED
    BY <1>2, <2>3, <2>4, <2>5 DEF Position, c2
<1> QED
  BY <1>2, <1>3, <1>4, KindsKept DEF Control

\* The inductive invariant.
LEMMA InvInit == Init => Inv
BY TypesInit, DeliveryInit, ControlInit DEF Inv

\* Every step keeps it.
LEMMA InvNext == Inv /\ [Next]_vars => Inv'
<1> SUFFICES ASSUME Types, Delivery, Control, [Next]_vars PROVE Control'
  BY TypesNext, DeliveryNext DEF Inv
<1>1. CASE SendString \/ send \/ SendDamaged
  BY <1>1, SendingStep, ControlSending
<1>2. CASE readHeader
  BY <1>2, ControlReadHeader
<1>3. CASE readBody
  BY <1>3, ControlReadBody
<1>4. CASE ReadFails
  <2>1. (Only({"good"})' <=> Only({"good"})) /\ (Ordinary' <=> Ordinary)
    BY <1>4, KindsKept DEF ReadFails
  <2>2. pc' = "closed" /\ UNCHANGED <<shut, failed>>
    BY <1>4 DEF ReadFails
  <2>3. Position => Position'
    BY <2>2 DEF Position
  <2> QED
    BY <2>1, <2>2, <2>3 DEF Control
<1>5. CASE onMessage
  BY <1>5, OnMessageStep, ControlLeaving, ControlDelivering
<1>7. CASE readPast
  <2>1. Ending /\ ((pc = "header" /\ ~(Room(inputBuffer) >= 4)) \/ pc = "past")
    BY <1>7, ReadPastStep
  <2>2. SUFFICES ASSUME Only({"good"}) PROVE FALSE
    BY <2>1, KindsKept DEF Control, Ending, Failures
  <2>3. Position /\ pc # "past" /\ ~Mixed
    BY <2>1, <2>2, GoodIsOrdinary DEF Control, Ending, Mixed
  <2>4. pc = "header" /\ Sound(inputBuffer) /\ Fresh(inputBuffer)
    BY <2>1, <2>3 DEF Position, Types, Whole
  <2> QED
    BY <2>1, <2>4, ContentType
<1>6. CASE UNCHANGED vars
  <2>1. UNCHANGED <<sent, pc, want, shut, failed, inputBuffer, Content(inputBuffer)>>
    BY <1>6 DEF vars, Content, B!content, B!readableBytes
  <2>2. /\ Only({"good"})' <=> Only({"good"})
        /\ Ordinary' <=> Ordinary
        /\ Mixed' <=> Mixed
        /\ (Fresh(inputBuffer))' <=> Fresh(inputBuffer)
    BY <2>1, KindsKept DEF Fresh
  <2>3. Position => Position'
    BY <2>1, <2>2 DEF Position
  <2> QED
    BY <2>1, <2>2, <2>3 DEF Control
<1> QED
  BY <1>1, <1>2, <1>3, <1>4, <1>5, <1>6, <1>7 DEF Next

\* It holds in every state.
LEMMA InvHolds == Spec => []Inv
<1>1. Init => Inv
  BY InvInit
<1>2. Inv /\ [Next]_vars => Inv'
  BY InvNext
<1> QED
  BY <1>1, <1>2, PTL DEF Spec

\* Ordinary traffic meets no assertion, is not shut down and is read into the vector:
\* although readHeader makes no room for the four bytes it reads, room is always left for
\* them (readHeader, onMessage).
THEOREM OrdinaryTrafficIsSafe == Spec => []GoodTrafficIsSafe
<1>1. Inv => GoodTrafficIsSafe
  <2> SUFFICES ASSUME Types, Control, Only({"good"})
               PROVE  /\ failed = "none" /\ shut = "no" /\ pc # "past"
                      /\ pc = "header" => HeaderFits
    BY DEF Inv, GoodTrafficIsSafe
  <2>1. failed = "none" /\ Position /\ pc # "past" /\ ~Mixed
    BY GoodIsOrdinary DEF Control, Mixed
  <2>2. ASSUME pc = "header"
        PROVE  HeaderFits
    <3>1. Sound(inputBuffer) /\ Fresh(inputBuffer)
      BY <2>1, <2>2 DEF Position, Types, Whole
    <3>2. Room(inputBuffer) >= 4
      BY <3>1, ContentType
    <3> QED
      BY <3>2 DEF HeaderFits, Room, kHeaderLen
  <2> QED
    BY <2>1, <2>2 DEF Position
<1> QED
  BY <1>1, InvHolds, PTL

\* No message waits in the buffer for the next one, unless an empty one was sent to
\* LengthHeaderCodec; and then one message at most is late (onMessage, readBody).
THEOREM DeliveryKeepsUp == Spec => []AtMostOneBehind
<1>1. Inv => AtMostOneBehind
  <2> DEFINE c == Content(inputBuffer)
             n == Len(c)
             w == Len(wire)
             len == networkToHost(c)
  <2> SUFFICES ASSUME Inv, failed = "none", Ordinary,
                      \/ pc = "header" /\ w < 4
                      \/ pc = "body" /\ w < want
               PROVE  /\ Len(sent) - Len(delivered) <= 1
                      /\ Only({"good"}) => Len(delivered) = Len(sent)
    BY DEF AtMostOneBehind, Ordinary, kHeaderLen
  <2>1. Types /\ Delivery /\ Position
    BY DEF Inv, Control
  <2>0. Whole
    BY DEF Whole
  <2>2. /\ n \in Nat /\ w \in Nat /\ Len(Stream) = n + w /\ Stream \in Seq(Byte)
        /\ Len(delivered) \in 0..Len(sent) /\ Len(delivered) \in Nat /\ Len(sent) \in Nat
        /\ sent \in Seq(Frame)
    BY <2>0, <2>1, StreamType
  <2>3. n >= 4 => /\ len \in Nat /\ len + 4 <= Len(Stream)
                  /\ Len(Stream) - (len + 4) < 4 => Len(sent) = Len(delivered) + 1
    BY <2>0, <2>1, OrdinaryBuffer
  <2>4. Frames(codec, Stream, sent, Len(delivered))
    BY <2>0, <2>1 DEF Delivery
  <2>5. CASE pc = "header" /\ w < 4
    <3>1. n = 0 \/ (n = 4 /\ Mixed)
      BY <2>1, <2>5 DEF Position
    <3>2. CASE n = 0
      <4>1. Len(Stream) < 4
        BY <2>2, <2>5, <3>2
      <4>2. Len(delivered) = Len(sent)
        BY <2>2, <2>4, <4>1, NoFrame
      <4> QED
        BY <2>2, <4>2
    <3>3. CASE n = 4 /\ Mixed
      <4>1. Len(sent) = Len(delivered) + 1
        BY <2>2, <2>3, <2>5, <3>3
      <4> QED
        BY <2>2, <3>3, <4>1 DEF Mixed
    <3> QED
      BY <3>1, <3>2, <3>3
  <2>6. CASE pc = "body" /\ w < want
    <3>1. want = len /\ (n = 4 \/ (n = 8 /\ Mixed))
      BY <2>1, <2>6 DEF Position
    <3>2. n = 8 /\ Mixed
      <4>1. n # 4
        <5>1. SUFFICES ASSUME n = 4 PROVE FALSE
          OBVIOUS
        <5>2. len \in Nat /\ len + 4 <= n + w /\ w < len
          BY <2>2, <2>3, <2>6, <3>1, <5>1
        <5> HIDE DEF n, w, len
        <5> QED
          BY <2>2, <5>1, <5>2
      <4> QED
        BY <3>1, <4>1
    <3>3. Len(sent) = Len(delivered) + 1
      BY <2>2, <2>3, <2>6, <3>1, <3>2
    <3> QED
      BY <2>2, <3>2, <3>3 DEF Mixed
  <2> QED
    BY <2>5, <2>6
<1> QED
  BY <1>1, InvHolds, PTL

=============================================================================
