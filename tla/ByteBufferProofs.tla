-------------------------- MODULE ByteBufferProofs --------------------------
(***************************************************************************)
(* A buffer of any kind, with any limits, for any calls.                   *)
(***************************************************************************)
EXTENDS ByteBuffer, SequenceTheorems, TLAPS

\* A copy of bytes that lie within the memory is the sequence of these bytes.
LEMMA CopyIsSeq ==
  ASSUME NEW b, Laid(b), NEW from \in Nat, NEW n \in Nat, from + n <= b.datalen
  PROVE  /\ Copy(b, from, n) \in Seq(Byte)
         /\ Len(Copy(b, from, n)) = n
         /\ \A i \in 1 .. n : Copy(b, from, n)[i] = b.data[from + i - 1]
<1>1. \A i \in 1 .. n : from + i - 1 \in 0 .. b.datalen - 1
  BY DEF Laid
<1>2. \A i \in 1 .. n : b.data[from + i - 1] \in Byte
  BY <1>1 DEF Laid, Memory
<1> QED BY <1>2 DEF Copy

\* Reading keeps the bytes in use within the memory.
LEMMA TossedLaid ==
  ASSUME NEW b, Laid(b), NEW n \in Nat
  PROVE  /\ Laid(Tossed(b, n))
         /\ Tossed(b, n).data = b.data /\ Tossed(b, n).datalen = b.datalen
         /\ Tossed(b, n).head = b.head + Reading(b, n)
         /\ Tossed(b, n).used = b.used - Reading(b, n)
         /\ Reading(b, n) \in 0 .. b.used
BY DEF Laid, Tossed, Reading, Buffer

\* Moving the bytes in use to the front keeps them within the memory, and makes
\* all the room behind them that there is.
LEMMA CompactedLaid ==
  ASSUME NEW b, Laid(b), NEW n \in Nat
  PROVE  /\ Laid(Compacted(b, n))
         /\ Compacted(b, n).datalen = b.datalen /\ Compacted(b, n).used = b.used
         /\ \/ Compacted(b, n) = b /\ b.datalen - b.actually_used >= n
            \/ /\ Compacted(b, n).head = 0
               /\ \A i \in 0 .. b.used - 1 : Compacted(b, n).data[i] = b.data[b.head + i]
<1>1. CASE b.datalen - b.actually_used >= n
  BY <1>1 DEF Compacted
<1>2. CASE ~(b.datalen - b.actually_used >= n)
  <2> DEFINE d == [i \in 0 .. b.datalen - 1 |->
                     IF i < b.used THEN b.data[b.head + i] ELSE b.data[i]]
  <2>1. d \in Memory(b.datalen)
    BY DEF Laid, Memory
  <2>2. Compacted(b, n) = Buffer(d, b.datalen, 0, b.used, b.used)
    BY <1>2 DEF Compacted
  <2>3. \A i \in 0 .. b.used - 1 : d[i] = b.data[b.head + i]
    BY DEF Laid
  <2> HIDE DEF d
  <2> QED BY <2>1, <2>2, <2>3 DEF Laid, Buffer
<1> QED BY <1>1, <1>2

\* realloc keeps the bytes in use where they are and leaves room for the write.
LEMMA GrownLaid ==
  ASSUME NEW b, Laid(b), NEW n \in Nat, blocksize \in Nat, b.head = 0, NEW r \in Grown(b, n)
  PROVE  /\ Laid(r)
         /\ r.head = 0 /\ r.used = b.used /\ r.datalen = NewSize(b, n)
         /\ r.datalen >= b.datalen + n
         /\ \A i \in 0 .. b.used - 1 : r.data[i] = b.data[i]
<1>0. PICK fill \in Byte :
      r = Buffer([i \in 0 .. NewSize(b, n) - 1 |-> IF i < b.datalen THEN b.data[i] ELSE fill],
                 NewSize(b, n), 0, b.used, b.actually_used)
  BY DEF Grown
<1> DEFINE d == [i \in 0 .. NewSize(b, n) - 1 |-> IF i < b.datalen THEN b.data[i] ELSE fill]
<1>1. NewSize(b, n) \in Nat /\ NewSize(b, n) >= b.datalen + n
  BY DEF NewSize, Laid
<1>2. d \in Memory(NewSize(b, n))
  BY <1>1 DEF Laid, Memory
<1>3. \A i \in 0 .. b.used - 1 : d[i] = b.data[i]
  <2>1. \A i \in 0 .. b.used - 1 : i < b.datalen /\ i \in 0 .. NewSize(b, n) - 1
    BY <1>1 DEF Laid
  <2> QED BY <2>1
<1>4. r = Buffer(d, NewSize(b, n), 0, b.used, b.actually_used)
  BY <1>0
<1> HIDE DEF d
<1> QED BY <1>1, <1>2, <1>3, <1>4 DEF Laid, Buffer

\* A write that fits puts its bytes behind those in use, and touches no other.
LEMMA StoredLaid ==
  ASSUME NEW b, Laid(b), NEW s \in Seq(Byte), b.actually_used + Len(s) <= b.datalen
  PROVE  /\ Laid(Stored(b, s))
         /\ Stored(b, s).datalen = b.datalen /\ Stored(b, s).head = b.head
         /\ Stored(b, s).used = b.used + Len(s)
         /\ \A i \in 0 .. b.head + b.used - 1 : Stored(b, s).data[i] = b.data[i]
         /\ \A i \in 1 .. Len(s) : Stored(b, s).data[b.head + b.used + i - 1] = s[i]
<1> DEFINE end == b.head + b.used
           d == [i \in 0 .. b.datalen - 1 |->
                  IF i \in end .. end + Len(s) - 1 THEN s[i - end + 1] ELSE b.data[i]]
<1>1. Len(s) \in Nat /\ end \in Nat /\ end + Len(s) <= b.datalen /\ b.datalen \in Nat
  BY DEF Laid
<1>2. d \in Memory(b.datalen)
  BY <1>1 DEF Laid, Memory
<1>3. \A i \in 0 .. b.head + b.used - 1 : d[i] = b.data[i]
  <2> TAKE i \in 0 .. b.head + b.used - 1
  <2>1. i \in Int /\ 0 <= i /\ i < end
    <3>1. b.head \in Nat /\ b.used \in Nat
      BY DEF Laid
    <3> QED BY ONLY <3>1, i \in 0 .. b.head + b.used - 1
  <2>2. i \in 0 .. b.datalen - 1
    BY ONLY <1>1, <2>1
  <2>3. i \notin end .. end + Len(s) - 1
    BY ONLY <1>1, <2>1
  <2> QED BY <2>2, <2>3
<1>4. \A i \in 1 .. Len(s) : d[b.head + b.used + i - 1] = s[i]
  <2> TAKE i \in 1 .. Len(s)
  <2> DEFINE j == end + i - 1
  <2>1. j \in 0 .. b.datalen - 1 /\ j \in end .. end + Len(s) - 1
    BY <1>1
  <2>2. j - end + 1 = i
    BY <1>1
  <2>3. d[j] = s[j - end + 1]
    BY <2>1
  <2> QED BY <2>2, <2>3
<1>5. Stored(b, s) = Buffer(d, b.datalen, b.head, b.used + Len(s), b.actually_used + Len(s))
  BY DEF Stored
<1> HIDE DEF d, end
<1>6. /\ Stored(b, s).data = d /\ Stored(b, s).datalen = b.datalen /\ Stored(b, s).head = b.head
      /\ Stored(b, s).used = b.used + Len(s) /\ Stored(b, s).actually_used = b.actually_used + Len(s)
  BY <1>5 DEF Buffer
<1>7. Laid(Stored(b, s))
  BY <1>1, <1>2, <1>6 DEF Laid, end
<1> QED BY ONLY <1>3, <1>4, <1>6, <1>7, Zenon

-----------------------------------------------------------------------------
\* A copy that is cut in two, and two copies that are put together.
LEMMA CopyCut ==
  ASSUME NEW b, Laid(b), NEW from \in Nat, NEW k \in Nat, from + k <= b.datalen, NEW j \in 0 .. k
  PROVE  /\ SubSeq(Copy(b, from, k), 1, j) = Copy(b, from, j)
         /\ SubSeq(Copy(b, from, k), j + 1, k) = Copy(b, from + j, k - j)
         /\ Copy(b, from, j) \o Copy(b, from + j, k - j) = Copy(b, from, k)
<1> DEFINE whole == Copy(b, from, k)
           front == Copy(b, from, j)
           rest == Copy(b, from + j, k - j)
<1>1. /\ whole \in Seq(Byte) /\ Len(whole) = k
      /\ \A i \in 1 .. k : whole[i] = b.data[from + i - 1]
  BY CopyIsSeq
<1>2. /\ front \in Seq(Byte) /\ Len(front) = j
      /\ \A i \in 1 .. j : front[i] = b.data[from + i - 1]
  <2>1. j \in Nat /\ from + j <= b.datalen
    BY DEF Laid
  <2> QED BY <2>1, CopyIsSeq
<1>3. /\ rest \in Seq(Byte) /\ Len(rest) = k - j
      /\ \A i \in 1 .. k - j : rest[i] = b.data[from + j + i - 1]
  <2>1. from + j \in Nat /\ k - j \in Nat /\ (from + j) + (k - j) <= b.datalen
    BY DEF Laid
  <2> QED BY <2>1, CopyIsSeq
<1> HIDE DEF whole, front, rest
<1>4. \A i \in 1 .. k : whole[i] \in Byte
  BY <1>1
<1>5. SubSeq(whole, 1, j) = front
  <2>1. /\ SubSeq(whole, 1, j) \in Seq(Byte) /\ Len(SubSeq(whole, 1, j)) = j
        /\ \A i \in 1 .. j : SubSeq(whole, 1, j)[i] = whole[i]
    BY <1>1
  <2> QED BY <2>1, <1>1, <1>2, SeqEqual
<1>6. SubSeq(whole, j + 1, k) = rest
  <2>1. /\ SubSeq(whole, j + 1, k) \in Seq(Byte) /\ Len(SubSeq(whole, j + 1, k)) = k - j
        /\ \A i \in 1 .. k - j : SubSeq(whole, j + 1, k)[i] = whole[j + i]
    <3>1. j + 1 \in Int /\ k \in Int /\ \A i \in j + 1 .. k : whole[i] \in Byte
      BY <1>4
    <3>2. /\ SubSeq(whole, j + 1, k) \in Seq(Byte)
          /\ Len(SubSeq(whole, j + 1, k)) = IF j + 1 <= k THEN k - (j + 1) + 1 ELSE 0
          /\ \A i \in 1 .. k - (j + 1) + 1 : SubSeq(whole, j + 1, k)[i] = whole[j + 1 + i - 1]
      BY <3>1, SubSeqProperties
    <3> QED BY <3>2
  <2>2. \A i \in 1 .. k - j : whole[j + i] = rest[i]
    <3> TAKE i \in 1 .. k - j
    <3>1. j + i \in 1 .. k /\ from + (j + i) - 1 = from + j + i - 1
      OBVIOUS
    <3> QED BY <3>1, <1>1, <1>3
  <2> QED BY <2>1, <2>2, <1>3, SeqEqual
<1>7. front \o rest = whole
  <2>1. /\ front \o rest \in Seq(Byte) /\ Len(front \o rest) = k
        /\ \A i \in 1 .. k : (front \o rest)[i] = IF i <= j THEN front[i] ELSE rest[i - j]
    <3> HIDE DEF front, rest, whole
    <3>1. front \in Seq(Byte) /\ Len(front) = j /\ rest \in Seq(Byte) /\ Len(rest) = k - j
      BY <1>2, <1>3
    <3>2. /\ front \o rest \in Seq(Byte) /\ Len(front \o rest) = Len(front) + Len(rest)
          /\ \A i \in 1 .. Len(front) + Len(rest) :
               (front \o rest)[i] = IF i <= Len(front) THEN front[i] ELSE rest[i - Len(front)]
      BY <3>1, ConcatProperties
    <3>3. Len(front) + Len(rest) = k
      BY <3>1
    <3>4. front \o rest \in Seq(Byte) /\ Len(front \o rest) = k
      BY <3>2, <3>3
    <3>5. \A i \in 1 .. k : (front \o rest)[i] = IF i <= j THEN front[i] ELSE rest[i - j]
      <4>1. Len(front) = j
        BY <3>1
      <4> QED BY ONLY <3>2, <3>3, <4>1, Zenon
    <3> QED BY <3>4, <3>5
  <2>2. \A i \in 1 .. k : whole[i] = IF i <= j THEN front[i] ELSE rest[i - j]
    <3> TAKE i \in 1 .. k
    <3>1. CASE i <= j
      <4>1. i \in 1 .. j
        BY <3>1
      <4>2. whole[i] = b.data[from + i - 1] /\ front[i] = b.data[from + i - 1]
        BY <4>1, <1>1, <1>2
      <4> QED BY <3>1, <4>2
    <3>2. CASE ~(i <= j)
      <4>1. i - j \in 1 .. k - j /\ from + j + (i - j) - 1 = from + i - 1
        BY <3>2
      <4>2. rest[i - j] = b.data[from + j + (i - j) - 1]
        BY <4>1, <1>3
      <4> QED BY <4>1, <4>2, <3>2, <1>1
    <3> QED BY <3>1, <3>2
  <2> QED BY <2>1, <2>2, <1>1, SeqEqual
<1> QED BY <1>5, <1>6, <1>7 DEF whole, front, rest

\* What is in use, and what was read, are sequences of bytes.
LEMMA Views ==
  ASSUME NEW b, Laid(b)
  PROVE  /\ Content(b) \in Seq(Byte) /\ Len(Content(b)) = b.used
         /\ Past(b) \in Seq(Byte) /\ Len(Past(b)) = b.head
         /\ b.head = 0 => Past(b) = <<>>
         /\ b.used = 0 => Content(b) = <<>>
         /\ Past(b) \o Content(b) = Copy(b, 0, b.actually_used)
<1>1. /\ b.head \in Nat /\ b.used \in Nat /\ 0 \in Nat /\ b.datalen \in Nat
      /\ 0 + b.head <= b.datalen /\ b.head + b.used <= b.datalen
      /\ 0 + b.actually_used <= b.datalen /\ b.head \in 0 .. b.actually_used
      /\ b.actually_used \in Nat /\ b.actually_used - b.head = b.used /\ 0 + b.head = b.head
  BY DEF Laid
<1>2. Content(b) \in Seq(Byte) /\ Len(Content(b)) = b.used
  BY <1>1, CopyIsSeq DEF Content
<1>3. Past(b) \in Seq(Byte) /\ Len(Past(b)) = b.head
  BY <1>1, CopyIsSeq DEF Past
<1>4. Past(b) \o Content(b) = Copy(b, 0, b.actually_used)
  <2>1. Copy(b, 0, b.head) \o Copy(b, 0 + b.head, b.actually_used - b.head)
          = Copy(b, 0, b.actually_used)
    BY <1>1, CopyCut
  <2> QED BY <1>1, <2>1 DEF Past, Content
<1> QED BY <1>2, <1>3, <1>4, EmptySeq

-----------------------------------------------------------------------------
\* Reading moves bytes from the content to the past.
LEMMA TossedViews ==
  ASSUME NEW b, Laid(b), NEW n \in Nat
  PROVE  /\ Content(Tossed(b, n)) = Queue!Rest(Content(b), n)
         /\ Past(Tossed(b, n)) = Past(b) \o Queue!Front(Content(b), n)
         /\ Copy(b, b.head, Reading(b, n)) = Queue!Front(Content(b), n)
         /\ Past(Tossed(b, n)) \o Content(Tossed(b, n)) = Past(b) \o Content(b)
<1> DEFINE r == Reading(b, n)
           t == Tossed(b, n)
<1>1. /\ Laid(t) /\ t.data = b.data /\ t.datalen = b.datalen
      /\ t.head = b.head + r /\ t.used = b.used - r /\ r \in 0 .. b.used
      /\ t.actually_used = b.actually_used
  BY TossedLaid DEF Tossed, Buffer
<1>2. Len(Content(b)) = b.used /\ Queue!Reading(Content(b), n) = r
  BY Views DEF Queue!Reading, Reading, Laid
<1>3. /\ b.head \in Nat /\ b.used \in Nat /\ b.head + b.used <= b.datalen
      /\ 0 \in Nat /\ b.head + r \in Nat /\ 0 + (b.head + r) <= b.datalen
      /\ b.head \in 0 .. b.head + r /\ (b.head + r) - b.head = r /\ 0 + b.head = b.head
  BY <1>1 DEF Laid
<1>4. \A from, k : Copy(t, from, k) = Copy(b, from, k)
  BY <1>1 DEF Copy
<1> HIDE DEF r, t
<1>5. /\ SubSeq(Content(b), 1, r) = Copy(b, b.head, r)
      /\ SubSeq(Content(b), r + 1, b.used) = Copy(b, b.head + r, b.used - r)
  <2>1. b.head \in Nat /\ b.used \in Nat /\ b.head + b.used <= b.datalen /\ r \in 0 .. b.used
    BY <1>1, <1>3
  <2> QED BY ONLY <2>1, Laid(b), CopyCut, Zenon DEF Content
<1>6. Copy(b, 0, b.head) \o Copy(b, 0 + b.head, (b.head + r) - b.head) = Copy(b, 0, b.head + r)
  BY <1>3, CopyCut, Zenon
<1>7. Past(t) \o Content(t) = Past(b) \o Content(b)
  BY <1>1, <1>4, Views
<1>8. /\ Queue!Front(Content(b), n) = Copy(b, b.head, r)
      /\ Queue!Rest(Content(b), n) = Copy(b, b.head + r, b.used - r)
  BY <1>2, <1>5 DEF Queue!Front, Queue!Rest
<1>9. Content(t) = Copy(b, b.head + r, b.used - r) /\ Past(t) = Copy(b, 0, b.head + r)
  BY <1>1, <1>4 DEF Content, Past
<1>10. Past(t) = Past(b) \o Copy(b, b.head, r)
  BY <1>3, <1>6, <1>9 DEF Past
<1> QED BY <1>7, <1>8, <1>9, <1>10 DEF r, t

\* Two buffers with the same bytes in use have the same content.
LEMMA SameContent ==
  ASSUME NEW b, NEW c, Laid(b), Laid(c), b.used = c.used,
         \A i \in 0 .. b.used - 1 : b.data[b.head + i] = c.data[c.head + i]
  PROVE  Content(b) = Content(c)
<1>1. \A i \in 1 .. b.used : b.data[b.head + i - 1] = c.data[c.head + i - 1]
  <2> TAKE i \in 1 .. b.used
  <2>1. i - 1 \in 0 .. b.used - 1 /\ b.head + (i - 1) = b.head + i - 1
        /\ c.head + (i - 1) = c.head + i - 1
    BY DEF Laid
  <2> QED BY <2>1
<1> QED BY <1>1 DEF Content, Copy

\* Moving the bytes in use keeps the content; what was read is forgotten.
LEMMA CompactedViews ==
  ASSUME NEW b, Laid(b), NEW n \in Nat
  PROVE  /\ Content(Compacted(b, n)) = Content(b)
         /\ Past(Compacted(b, n)) \in {Past(b), <<>>}
         /\ ~Fits(Compacted(b, n), n) => Compacted(b, n).head = 0
         /\ b.datalen - b.actually_used < n => Past(Compacted(b, n)) = <<>>
<1> DEFINE c == Compacted(b, n)
<1>1. /\ Laid(c) /\ c.datalen = b.datalen /\ c.used = b.used
      /\ \/ c = b /\ b.datalen - b.actually_used >= n
         \/ c.head = 0 /\ \A i \in 0 .. b.used - 1 : c.data[i] = b.data[b.head + i]
  BY CompactedLaid
<1> HIDE DEF c
<1>2. CASE c = b /\ b.datalen - b.actually_used >= n
  <2>1. ~(b.datalen - b.actually_used < n)
    BY <1>2 DEF Laid
  <2> QED BY <2>1, <1>2, <1>1 DEF c, Fits, Laid
<1>3. CASE c.head = 0 /\ \A i \in 0 .. b.used - 1 : c.data[i] = b.data[b.head + i]
  <2>1. \A i \in 0 .. b.used - 1 : b.data[b.head + i] = c.data[c.head + i]
    BY <1>3
  <2> QED BY <2>1, <1>1, <1>3, SameContent, Views DEF c
<1> QED BY <1>1, <1>2, <1>3

\* realloc keeps the content.
LEMMA GrownViews ==
  ASSUME NEW b, Laid(b), NEW n \in Nat, blocksize \in Nat, b.head = 0, NEW r \in Grown(b, n)
  PROVE  Content(r) = Content(b) /\ Past(r) = <<>> /\ Past(b) = <<>>
<1>1. /\ Laid(r) /\ r.head = 0 /\ r.used = b.used
      /\ \A i \in 0 .. b.used - 1 : r.data[i] = b.data[i]
  BY GrownLaid
<1>2. \A i \in 0 .. b.used - 1 : b.data[b.head + i] = r.data[r.head + i]
  BY <1>1
<1> QED BY <1>1, <1>2, SameContent, Views

\* A write that fits adds its bytes at the end of the content.
LEMMA StoredViews ==
  ASSUME NEW b, Laid(b), NEW s \in Seq(Byte), b.actually_used + Len(s) <= b.datalen
  PROVE  Content(Stored(b, s)) = Content(b) \o s /\ Past(Stored(b, s)) = Past(b)
<1> DEFINE w == Stored(b, s)
<1>1. /\ Laid(w) /\ w.datalen = b.datalen /\ w.head = b.head /\ w.used = b.used + Len(s)
      /\ \A i \in 0 .. b.head + b.used - 1 : w.data[i] = b.data[i]
      /\ \A i \in 1 .. Len(s) : w.data[b.head + b.used + i - 1] = s[i]
  BY StoredLaid
<1> HIDE DEF w
<1>2. /\ b.head \in Nat /\ b.used \in Nat /\ Len(s) \in Nat /\ b.datalen \in Nat
      /\ b.head + b.used <= b.datalen /\ b.head + (b.used + Len(s)) <= b.datalen
  BY DEF Laid
<1>3. Past(w) = Past(b)
  <2>1. \A i \in 1 .. b.head : w.data[0 + i - 1] = b.data[0 + i - 1]
    <3> TAKE i \in 1 .. b.head
    <3>1. 0 + i - 1 \in 0 .. b.head + b.used - 1
      BY <1>2
    <3> QED BY <3>1, <1>1
  <2> QED BY <2>1, <1>1 DEF Past, Copy
<1>4. Content(w) = Content(b) \o s
  <2>1. /\ Content(w) \in Seq(Byte) /\ Len(Content(w)) = b.used + Len(s)
        /\ Content(b) \in Seq(Byte) /\ Len(Content(b)) = b.used
    BY <1>1, Views
  <2>2. /\ Content(b) \o s \in Seq(Byte) /\ Len(Content(b) \o s) = b.used + Len(s)
        /\ \A i \in 1 .. b.used + Len(s) :
             (Content(b) \o s)[i] = IF i <= b.used THEN Content(b)[i] ELSE s[i - b.used]
    BY <2>1, ConcatProperties
  <2>3. \A i \in 1 .. b.used + Len(s) : Content(w)[i] = (Content(b) \o s)[i]
    <3> TAKE i \in 1 .. b.used + Len(s)
    <3>1. Content(w)[i] = w.data[b.head + i - 1]
      BY <1>1 DEF Content, Copy
    <3>2. CASE i <= b.used
      <4>1. b.head + i - 1 \in 0 .. b.head + b.used - 1 /\ i \in 1 .. b.used
        BY <3>2, <1>2
      <4>2. Content(b)[i] = b.data[b.head + i - 1]
        BY <4>1 DEF Content, Copy
      <4> QED BY <4>1, <4>2, <3>1, <3>2, <2>2, <1>1
    <3>3. CASE ~(i <= b.used)
      <4>1. i - b.used \in 1 .. Len(s) /\ b.head + b.used + (i - b.used) - 1 = b.head + i - 1
        BY <3>3, <1>2
      <4>2. w.data[b.head + b.used + (i - b.used) - 1] = s[i - b.used]
        BY <4>1, <1>1
      <4> QED BY <4>1, <4>2, <3>1, <3>3, <2>2
    <3> QED BY <3>2, <3>3
  <2> QED BY <2>1, <2>2, <2>3, SeqEqual
<1> QED BY <1>3, <1>4 DEF w

\* How far a buffer can grow.
Bounded(n) == max_len > 0 => n < max_len + (IF blocksize > max_len THEN blocksize ELSE max_len)

\* A write that is refused loses no byte still to be read; one that is accepted
\* adds its bytes at the end.
LEMMA RefusedViews ==
  ASSUME NEW b, Laid(b), NEW s \in Seq(Byte), NEW c \in Refused(b, s)
  PROVE  /\ Laid(c) /\ c.datalen = b.datalen
         /\ Content(c) = Content(b) /\ Past(c) = <<>>
         /\ c.datalen - c.actually_used < Len(s)
<1>1. c = Compacted(b, Len(s)) /\ ~Fits(Compacted(b, Len(s)), Len(s)) /\ Len(s) \in Nat
  BY DEF Refused
<1>2. /\ Laid(c) /\ c.datalen = b.datalen /\ Content(c) = Content(b) /\ c.head = 0
  BY <1>1, CompactedLaid, CompactedViews
<1>3. c.datalen - c.actually_used < Len(s)
  BY <1>1, <1>2 DEF Fits, Laid
<1> QED BY <1>2, <1>3, Views

\* A write that is taken adds its bytes at the end of the content.
LEMMA WrittenViews ==
  ASSUME NEW b, Laid(b), NEW s \in Seq(Byte), NEW w \in Written(b, s),
         blocksize \in Nat, max_len \in Nat
  PROVE  /\ Laid(w)
         /\ Content(w) = Content(b) \o s /\ Past(w) \in {Past(b), <<>>}
         /\ b.datalen - b.actually_used < Len(s) => Past(w) = <<>>
         /\ w.datalen = b.datalen \/ Bounded(w.datalen)
<1> DEFINE n == Len(s)
           c == Compacted(b, n)
<1>1. n \in Nat
  OBVIOUS
<1>2. /\ Laid(c) /\ c.datalen = b.datalen /\ c.used = b.used
      /\ (c = b /\ b.datalen - b.actually_used >= n) \/ c.head = 0
      /\ Content(c) = Content(b) /\ Past(c) \in {Past(b), <<>>}
      /\ ~Fits(c, n) => c.head = 0
      /\ b.datalen - b.actually_used < n => Past(c) = <<>>
  BY <1>1, CompactedLaid, CompactedViews
<1>3. PICK r \in IF MayGrow(c, n) THEN Grown(c, n) ELSE IF Fits(c, n) THEN {c} ELSE {} :
        w = Stored(r, s)
  BY DEF Written
<1> HIDE DEF n, c
<1>4. CASE MayGrow(c, n)
  <2>1. r \in Grown(c, n) /\ c.head = 0 /\ ~Fits(c, n)
    BY <1>2, <1>3, <1>4 DEF MayGrow
  <2>2. /\ Laid(r) /\ r.head = 0 /\ r.used = c.used /\ r.datalen = NewSize(c, n)
        /\ r.datalen >= c.datalen + n
    BY <1>1, <1>2, <2>1, GrownLaid
  <2>3. Content(r) = Content(c) /\ Past(r) = <<>>
    BY <1>1, <1>2, <2>1, GrownViews
  <2>4. r.actually_used + n <= r.datalen
    BY <1>1, <1>2, <2>1, <2>2 DEF Laid
  <2>5. /\ Laid(w) /\ w.datalen = r.datalen /\ Content(w) = Content(r) \o s /\ Past(w) = Past(r)
    BY <1>3, <2>2, <2>4, StoredLaid, StoredViews DEF n
  <2>6. Bounded(r.datalen)
    <3> SUFFICES ASSUME max_len > 0
                 PROVE  r.datalen < max_len + (IF blocksize > max_len THEN blocksize ELSE max_len)
      BY DEF Bounded
    <3>1. c.used + n <= max_len /\ c.datalen < c.used + n /\ c.datalen \in Nat /\ c.used \in Nat
      BY <1>1, <1>2, <1>4, <2>1 DEF MayGrow, Fits, Laid
    <3>2. r.datalen = c.datalen + (IF blocksize > n THEN blocksize ELSE n)
      BY <2>2 DEF NewSize
    <3> QED BY <1>1, <3>1, <3>2
  <2> QED BY <1>2, <2>3, <2>5, <2>6 DEF n
<1>5. CASE ~MayGrow(c, n)
  <2>1. r = c /\ Fits(c, n)
    BY <1>3, <1>5
  <2>2. c.actually_used + n <= c.datalen
    BY <1>1, <1>2, <2>1 DEF Laid, Fits
  <2>3. /\ Laid(w) /\ w.datalen = c.datalen /\ Content(w) = Content(c) \o s /\ Past(w) = Past(c)
    BY <1>2, <1>3, <2>1, <2>2, StoredLaid, StoredViews DEF n
  <2> QED BY <1>2, <2>3 DEF n
<1> QED BY <1>4, <1>5

\* switch_buffer_zero leaves nothing.
LEMMA ZeroViews ==
  ASSUME NEW b, Laid(b)
  PROVE  /\ Laid(switch_buffer_zero(b)) /\ switch_buffer_zero(b).datalen = b.datalen
         /\ Content(switch_buffer_zero(b)) = <<>> /\ Past(switch_buffer_zero(b)) = <<>>
<1>1. /\ Laid(switch_buffer_zero(b)) /\ switch_buffer_zero(b).datalen = b.datalen
      /\ switch_buffer_zero(b).head = 0 /\ switch_buffer_zero(b).used = 0
  BY DEF Laid, switch_buffer_zero, Buffer
<1> QED BY <1>1, Views

\* Rewinding brings the past back to the content.
LEMMA RewoundViews ==
  ASSUME NEW b, Laid(b)
  PROVE  /\ Laid(Rewound(b)) /\ Rewound(b).datalen = b.datalen /\ Rewound(b).head = 0
         /\ Content(Rewound(b)) = Past(b) \o Content(b) /\ Past(Rewound(b)) = <<>>
<1>1. /\ Laid(Rewound(b)) /\ Rewound(b).data = b.data /\ Rewound(b).head = 0
      /\ Rewound(b).datalen = b.datalen /\ Rewound(b).used = b.actually_used
  BY DEF Laid, Rewound, Buffer
<1>2. Content(Rewound(b)) = Copy(b, 0, b.actually_used)
  BY <1>1 DEF Content, Copy
<1> QED BY <1>1, <1>2, Views

-----------------------------------------------------------------------------
\* The inductive invariant: the layout, what the limits are, and the bound.
BufferInv ==
  /\ BufferLayout
  /\ max_len \in Nat /\ blocksize \in Nat
  /\ CapacityBounded

\* What the invariant comes from, for a step that leaves the settings alone.
LEMMA InvFrom ==
  ASSUME BufferInv, UNCHANGED settings, loops' \in Int, Laid(buf'),
         \/ buf'.datalen = buf.datalen \/ Bounded(buf'.datalen) \/ buf'.datalen \in Starts
  PROVE  BufferInv'
BY DEF BufferInv, BufferLayout, CapacityBounded, Bounded, settings, Laid, Memory

\* The invariant, and the initial state of the queue, at creation.
LEMMA BufferInit == BbInit => BufferInv /\ Queue!QInit
<1> SUFFICES ASSUME BbInit PROVE BufferInv /\ Queue!QInit
  OBVIOUS
<1>1. PICK n \in Starts : \E d \in Memory(n) :
        buf = IF kind = "partition" THEN Whole(d, n) ELSE switch_buffer_zero(Whole(d, n))
  BY DEF BbInit
<1>2. n \in Nat /\ max_len \in Nat /\ blocksize \in Nat
  BY BufferAssumption DEF BbInit
<1>3. Laid(buf) /\ buf.datalen = n /\ buf.head = 0
  BY <1>1, <1>2 DEF Whole, Buffer, switch_buffer_zero, Laid
<1>4. BufferInv
  BY <1>2, <1>3 DEF BufferInv, BufferLayout, CapacityBounded, BbInit
<1>5. Queue!QInit
  BY <1>3, Views DEF Queue!QInit, BbInit
<1> QED BY <1>4, <1>5

\* switch_buffer_toss, switch_buffer_read and switch_buffer_peek.
LEMMA TossSteps ==
  ASSUME BufferInv, switch_buffer_toss \/ switch_buffer_read \/ switch_buffer_peek
  PROVE  BufferInv' /\ Queue!QNext
<1>1. Laid(buf) /\ loops \in Int
  BY DEF BufferInv, BufferLayout
<1>2. CASE switch_buffer_toss
  <2>1. PICK n \in Sizes : buf' = Tossed(buf, n)
    BY <1>2 DEF switch_buffer_toss
  <2>2. n \in Nat
    BY BufferAssumption
  <2>3. Laid(buf') /\ buf'.datalen = buf.datalen /\ UNCHANGED <<settings, loops, got>>
    BY <1>1, <1>2, <2>1, <2>2, TossedLaid DEF switch_buffer_toss
  <2>4. Queue!Take(n)
    BY <1>1, <2>1, <2>2, <2>3, TossedViews DEF Queue!Take
  <2> QED BY <1>1, <2>3, <2>4, InvFrom DEF Queue!QNext, settings
<1>3. CASE switch_buffer_read
  <2>1. PICK n \in Sizes : buf' = Tossed(buf, n) /\ got' = Copy(buf, buf.head, Reading(buf, n))
    BY <1>3 DEF switch_buffer_read
  <2>2. n \in Nat
    BY BufferAssumption
  <2>3. Laid(buf') /\ buf'.datalen = buf.datalen /\ UNCHANGED <<settings, loops>>
    BY <1>1, <1>3, <2>1, <2>2, TossedLaid DEF switch_buffer_read
  <2>4. Queue!Take(n)
    BY <1>1, <2>1, <2>2, <2>3, TossedViews DEF Queue!Take
  <2> QED BY <1>1, <2>3, <2>4, InvFrom DEF Queue!QNext, settings
<1>4. CASE switch_buffer_peek
  <2>1. PICK n \in Sizes : got' = Copy(buf, buf.head, Reading(buf, n))
    BY <1>4 DEF switch_buffer_peek
  <2>2. n \in Nat /\ UNCHANGED <<settings, buf, loops>>
    BY BufferAssumption, <1>4 DEF switch_buffer_peek
  <2>3. Queue!Peek(n)
    BY <1>1, <2>1, <2>2, TossedViews DEF Queue!Peek
  <2> QED BY <1>1, <2>2, <2>3, InvFrom DEF Queue!QNext, settings
<1> QED BY <1>2, <1>3, <1>4

\* switch_buffer_read_loop and switch_buffer_set_loops.
LEMMA LoopSteps ==
  ASSUME BufferInv, switch_buffer_read_loop \/ switch_buffer_set_loops
  PROVE  BufferInv' /\ [Queue!QNext]_(Queue!qvars)
<1>1. Laid(buf) /\ loops \in Int
  BY DEF BufferInv, BufferLayout
<1>2. CASE switch_buffer_read_loop
  <2>1. PICK n \in Sizes :
          /\ Reading(buf, n) = 0
          /\ IF loops' = 0 THEN buf' = buf /\ got' = <<>>
             ELSE /\ buf' = Tossed(Rewound(buf), n)
                  /\ got' = Copy(buf, 0, Reading(Rewound(buf), n))
    BY <1>2 DEF switch_buffer_read_loop
  <2>2. n \in Nat /\ UNCHANGED settings /\ loops' \in Int
    BY BufferAssumption, <1>1, <1>2 DEF switch_buffer_read_loop
  <2>3. CASE loops' = 0
    <3>1. buf' = buf /\ got' = <<>>
      BY <2>1, <2>3
    <3>2. Queue!Front(Content(buf), n) = <<>>
      <4>1. Queue!Front(Content(buf), n) = Copy(buf, buf.head, 0)
        BY <1>1, <2>1, <2>2, TossedViews
      <4> QED BY <4>1 DEF Copy
    <3>3. Queue!Peek(n)
      BY <3>1, <3>2 DEF Queue!Peek
    <3> QED BY <1>1, <2>2, <3>1, <3>3, InvFrom DEF Queue!QNext, settings
  <2>4. CASE loops' # 0
    <3> DEFINE r == Rewound(buf)
    <3>1. /\ Laid(r) /\ r.datalen = buf.datalen /\ r.head = 0
          /\ Content(r) = Past(buf) \o Content(buf) /\ Past(r) = <<>>
      BY <1>1, RewoundViews
    <3>2. r.data = buf.data
      BY DEF Rewound, Buffer
    <3> HIDE DEF r
    <3>3. buf' = Tossed(r, n) /\ got' = Copy(r, r.head, Reading(r, n))
      BY <2>1, <2>4, <3>1, <3>2 DEF r, Copy
    <3>4. /\ Content(buf') = Queue!Rest(Content(r), n)
          /\ Past(buf') = Past(r) \o Queue!Front(Content(r), n)
          /\ got' = Queue!Front(Content(r), n)
      BY <2>2, <3>1, <3>3, TossedViews
    <3>5. Past(buf') = Queue!Front(Content(r), n)
      <4>1. Laid(buf') /\ Content(buf') \in Seq(Byte)
        BY <2>2, <3>1, <3>3, TossedLaid, Views
      <4>2. Queue!Front(Content(r), n) \in Seq(Byte)
        <5>1. Queue!Front(Content(r), n) = Copy(r, 0, Reading(r, n))
          BY <2>2, <3>1, TossedViews
        <5>2. Reading(r, n) \in Nat /\ 0 + Reading(r, n) <= r.datalen
          BY <2>2, <3>1 DEF Laid, Reading
        <5> QED BY <5>1, <5>2, <3>1, CopyIsSeq
      <4> QED BY <4>2, <3>1, <3>4, ConcatEmptySeq
    <3>6. Queue!Replay(n)
      BY <3>1, <3>4, <3>5 DEF Queue!Replay
    <3>7. Laid(buf') /\ buf'.datalen = buf.datalen
      BY <2>2, <3>1, <3>3, TossedLaid
    <3> QED BY <2>2, <3>6, <3>7, InvFrom DEF Queue!QNext, settings
  <2> QED BY <2>3, <2>4
<1>3. CASE switch_buffer_set_loops
  <2>1. loops' \in Int /\ UNCHANGED <<settings, buf, got>>
    BY <1>3, BufferAssumption DEF switch_buffer_set_loops
  <2> QED BY <1>1, <2>1, InvFrom DEF Queue!qvars, settings
<1> QED BY <1>2, <1>3

\* What may be written is a sequence of bytes.
LEMMA TextsAreSeqs == ASSUME NEW s \in Texts PROVE s \in Seq(Byte) /\ Len(s) \in Nat
<1>1. PICK n \in Sizes : s \in [1 .. n -> Byte]
  BY DEF Texts
<1>2. n \in Nat
  BY BufferAssumption
<1> QED BY <1>1, <1>2

\* The three writes.
LEMMA WriteSteps ==
  ASSUME BufferInv, switch_buffer_write \/ switch_buffer_zwrite \/ switch_buffer_slide_write
  PROVE  BufferInv' /\ Queue!QNext
<1>1. Laid(buf) /\ loops \in Int /\ blocksize \in Nat /\ max_len \in Nat
  BY DEF BufferInv, BufferLayout
<1>2. kind # "partition" /\ UNCHANGED <<settings, loops, got>>
  BY DEF switch_buffer_write, switch_buffer_zwrite, switch_buffer_slide_write, Writing
<1>3. ASSUME NEW s \in Texts, buf' \in Written(buf, s)
      PROVE  BufferInv' /\ Queue!QNext
  <2>1. s \in Seq(Byte)
    BY TextsAreSeqs
  <2>2. /\ Laid(buf')
        /\ buf'.datalen = buf.datalen \/ Bounded(buf'.datalen)
        /\ Content(buf') = Content(buf) \o s /\ Past(buf') \in {Past(buf), <<>>}
    BY <1>1, <1>3, <2>1, WrittenViews
  <2>3. Queue!Put(s)
    BY <1>2, <2>2 DEF Queue!Put
  <2>4. BufferInv'
    BY <1>1, <1>2, <2>2, InvFrom
  <2>5. Queue!QNext
    BY <1>2, <2>3 DEF Queue!QNext, settings
  <2> QED BY <2>4, <2>5
<1>4. CASE switch_buffer_write
  <2>1. PICK s \in Texts : buf' \in Write(buf, s)
    BY <1>4 DEF switch_buffer_write
  <2>2. CASE buf' \in Refused(buf, s)
    <3>1. s \in Seq(Byte)
      BY TextsAreSeqs
    <3>2. Laid(buf') /\ buf'.datalen = buf.datalen /\ Content(buf') = Content(buf) /\ Past(buf') = <<>>
      BY <1>1, <2>2, <3>1, RefusedViews
    <3>3. Queue!Forget
      BY <1>2, <3>2 DEF Queue!Forget
    <3> QED BY <1>1, <1>2, <3>2, <3>3, InvFrom DEF Queue!QNext, settings
  <2> QED BY <1>3, <2>1, <2>2 DEF Write
<1>5. CASE switch_buffer_zwrite
  <2>1. PICK s \in Texts : \/ buf' \in Written(buf, s)
                          \/ \E c \in Refused(buf, s) : buf' \in Write(switch_buffer_zero(c), s)
    BY <1>5 DEF switch_buffer_zwrite
  <2>2. ASSUME NEW c \in Refused(buf, s), buf' \in Write(switch_buffer_zero(c), s)
        PROVE  BufferInv' /\ Queue!QNext
    <3> DEFINE z == switch_buffer_zero(c)
    <3>1. s \in Seq(Byte)
      BY TextsAreSeqs
    <3>2. Laid(c) /\ c.datalen = buf.datalen
      BY <1>1, <3>1, RefusedViews
    <3>3. Laid(z) /\ z.datalen = buf.datalen /\ Content(z) = <<>> /\ Past(z) = <<>>
      BY <3>2, ZeroViews
    <3> HIDE DEF z
    <3>4. buf' \in Written(z, s) \/ buf' \in Refused(z, s)
      BY <2>2 DEF Write, z
    <3>5. /\ Laid(buf')
          /\ buf'.datalen = buf.datalen \/ Bounded(buf'.datalen)
          /\ Content(buf') \in {<<>> \o s, <<>>} /\ Past(buf') = <<>>
      BY <1>1, <3>1, <3>3, <3>4, WrittenViews, RefusedViews
    <3>6. Queue!Renew(s)
      BY <1>2, <3>1, <3>5, ConcatEmptySeq DEF Queue!Renew
    <3>7. BufferInv'
      BY <1>1, <1>2, <3>5, InvFrom
    <3>8. Queue!QNext
      BY <1>2, <3>6 DEF Queue!QNext, settings
    <3> QED BY <3>7, <3>8
  <2> QED BY <1>3, <2>1, <2>2
<1>6. CASE switch_buffer_slide_write
  <2>1. PICK s \in Texts : \/ buf' \in Written(buf, s)
                          \/ \E c \in Refused(buf, s) : buf' \in Write(Tossed(c, Len(s)), s)
    BY <1>6 DEF switch_buffer_slide_write
  <2>2. ASSUME NEW c \in Refused(buf, s), buf' \in Write(Tossed(c, Len(s)), s)
        PROVE  BufferInv' /\ Queue!QNext
    <3> DEFINE t == Tossed(c, Len(s))
    <3>1. s \in Seq(Byte) /\ Len(s) \in Nat
      BY TextsAreSeqs
    <3>2. /\ Laid(c) /\ c.datalen = buf.datalen /\ Content(c) = Content(buf)
          /\ c.datalen - c.actually_used < Len(s)
      BY <1>1, <3>1, RefusedViews
    <3>3. /\ Laid(t) /\ t.datalen = buf.datalen /\ Content(t) = Queue!Rest(Content(buf), Len(s))
          /\ t.actually_used = c.actually_used
      BY <3>1, <3>2, TossedLaid, TossedViews DEF Tossed, Buffer
    <3> HIDE DEF t
    <3>4. buf' \in Written(t, s) \/ buf' \in Refused(t, s)
      BY <2>2 DEF Write, t
    <3>5. t.datalen - t.actually_used < Len(s)
      BY <3>2, <3>3
    <3>6. /\ Laid(buf')
          /\ buf'.datalen = buf.datalen \/ Bounded(buf'.datalen)
          /\ Content(buf') \in {Content(t) \o s, Content(t)} /\ Past(buf') = <<>>
      BY <1>1, <3>1, <3>3, <3>4, <3>5, WrittenViews, RefusedViews
    <3>7. Queue!Slide(s)
      BY <1>2, <3>3, <3>6 DEF Queue!Slide
    <3>8. BufferInv'
      BY <1>1, <1>2, <3>6, InvFrom
    <3>9. Queue!QNext
      BY <1>2, <3>7 DEF Queue!QNext, settings
    <3> QED BY <3>8, <3>9
  <2> QED BY <1>3, <2>1, <2>2
<1> QED BY <1>4, <1>5, <1>6

\* switch_buffer_zero and switch_buffer_set_partition_data.
LEMMA OtherSteps ==
  ASSUME BufferInv, Zero \/ SetPartition
  PROVE  BufferInv' /\ Queue!QNext
<1>1. Laid(buf) /\ loops \in Int
  BY DEF BufferInv, BufferLayout
<1>2. CASE Zero
  <2>1. UNCHANGED <<settings, loops, got>> /\ buf' = switch_buffer_zero(buf)
    BY <1>2 DEF Zero
  <2>2. Laid(buf') /\ buf'.datalen = buf.datalen /\ Content(buf') = <<>> /\ Past(buf') = <<>>
    BY <1>1, <2>1, ZeroViews
  <2>3. Queue!Clear
    BY <2>1, <2>2 DEF Queue!Clear
  <2> QED BY <1>1, <2>1, <2>2, <2>3, InvFrom DEF Queue!QNext, settings
<1>3. CASE SetPartition
  <2>1. kind = "partition" /\ UNCHANGED <<settings, loops, got>>
    BY <1>3 DEF SetPartition
  <2>2. \/ \E n \in Starts : \E d \in Memory(n) : buf' = Whole(d, n)
        \/ buf' = Whole(buf.data, buf.datalen)
    BY <1>3 DEF SetPartition
  <2>3. /\ Laid(buf') /\ buf'.head = 0
        /\ buf'.datalen = buf.datalen \/ buf'.datalen \in Starts
    <3>1. ASSUME NEW n \in Starts, NEW d \in Memory(n), buf' = Whole(d, n)
          PROVE  Laid(buf') /\ buf'.head = 0 /\ buf'.datalen \in Starts
      BY <3>1, BufferAssumption DEF Laid, Whole, Buffer
    <3>2. ASSUME buf' = Whole(buf.data, buf.datalen)
          PROVE  Laid(buf') /\ buf'.head = 0 /\ buf'.datalen = buf.datalen
      BY <1>1, <3>2 DEF Laid, Whole, Buffer
    <3> QED BY <2>2, <3>1, <3>2
  <2>4. Queue!Exchange
    BY <2>1, <2>3, Views DEF Queue!Exchange
  <2> QED BY <1>1, <2>1, <2>3, <2>4, InvFrom DEF Queue!QNext, settings
<1> QED BY <1>2, <1>3

\* Every step keeps the invariant and is a step of the queue, or none of it.
LEMMA BufferStep == BufferInv /\ [BbNext]_bbvars => BufferInv' /\ [Queue!QNext]_(Queue!qvars)
<1> SUFFICES ASSUME BufferInv, [BbNext]_bbvars
             PROVE  BufferInv' /\ [Queue!QNext]_(Queue!qvars)
  OBVIOUS
<1>1. CASE BbNext
  BY <1>1, TossSteps, LoopSteps, WriteSteps, OtherSteps DEF BbNext
<1>2. CASE UNCHANGED bbvars
  BY <1>2 DEF bbvars, settings, BufferInv, BufferLayout, CapacityBounded, Queue!qvars
<1> QED BY <1>1, <1>2

\* The bytes in use always lie within the memory (BufferLayout).
THEOREM LayoutCorrect == BbSpec => []BufferLayout
<1>1. BufferInv => BufferLayout
  BY DEF BufferInv
<1> QED BY <1>1, BufferInit, BufferStep, PTL DEF BbSpec

\* No buffer outgrows its limit by more than a block or a write (CapacityBounded).
THEOREM CapacityCorrect == BbSpec => []CapacityBounded
<1>1. BufferInv => CapacityBounded
  BY DEF BufferInv
<1> QED BY <1>1, BufferInit, BufferStep, PTL DEF BbSpec

\* Every buffer is a queue of bytes (IsByteQueue).
THEOREM ImplementsByteQueue == BbSpec => IsByteQueue
<1> QED BY BufferInit, BufferStep, PTL DEF BbSpec, IsByteQueue, Queue!QSpec
=============================================================================
