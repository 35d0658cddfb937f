----------------------------- MODULE WireProofs -----------------------------
(***************************************************************************)
(* What Wire and ByteBuf promise, proved for all frames, capacities, pieces *)
(* and widths: the buffers are queues of bytes; parse_header reads what     *)
(* encode_header writes and takes nothing else; the three ways to read a    *)
(* header agree; masking in blocks is undone by unmasking byte by byte; and *)
(* the five invariants of Wire, from the inductive invariant WireInv.       *)
(***************************************************************************)
EXTENDS Wire, BasicLemmas

-----------------------------------------------------------------------------
(* Buffers: seen through AsSlice one is a queue, whatever the cursor, the
   capacity and the compactions are, and it grows only if it must.        *)

\* The fields of a buffer that the operations make.
LEMMA BufFields ==
    ASSUME NEW b, BufOK(b)
    PROVE  /\ b.data \in Seq(Nat)
           /\ b.head \in Nat
           /\ b.capacity \in Nat
           /\ Len(b.data) \in Nat
           /\ b.head <= Len(b.data)
           /\ b.head = Len(b.data) => b.head = 0
           /\ Len(b.data) <= b.capacity
BY DEF BufOK, Buf

\* A buffer made of such fields.
LEMMA BufOfFields ==
    ASSUME NEW d \in Seq(Nat), NEW h \in Nat, NEW c \in Nat,
           h <= Len(d), h = Len(d) => h = 0, Len(d) <= c
    PROVE  BufOK([data |-> d, head |-> h, capacity |-> c])
BY DEF BufOK, Buf

\* A new buffer is such a buffer, and empty (CursorBuf::with_capacity).
LEMMA WithCapacityOK ==
    ASSUME NEW n \in Nat
    PROVE  BufOK(WithCapacity(n)) /\ AsSlice(WithCapacity(n)) = <<>>
<1>1. BufOK(WithCapacity(n))
  BY EmptySeq DEF BufOK, Buf, WithCapacity
<1>2. AsSlice(WithCapacity(n)) = SubSeq(<<>>, 1, 0)
  BY EmptySeq DEF AsSlice, WithCapacity
<1>3. SubSeq(<<>>, 1, 0) = <<>>
  BY SubSeqEmpty
<1> QED  BY <1>1, <1>2, <1>3

\* What can be read is a sequence of as many bytes as len says (CursorBuf::as_slice, len).
LEMMA AsSliceType ==
    ASSUME NEW b, BufOK(b)
    PROVE  /\ AsSlice(b) \in Seq(Nat)
           /\ Len(AsSlice(b)) = BufLen(b)
           /\ BufLen(b) \in Nat
           /\ BufLen(b) = Len(b.data) - b.head
           /\ \A i \in 1 .. BufLen(b) : AsSlice(b)[i] = b.data[b.head + i]
<1> DEFINE h == b.head
           d == b.data
<1>1. d \in Seq(Nat) /\ h \in Nat /\ Len(d) \in Nat /\ h <= Len(d)
  BY BufFields
<1>2. AsSlice(b) = SubSeq(d, h + 1, Len(d)) /\ BufLen(b) = Len(d) - h
  BY DEF AsSlice, BufLen
<1> HIDE DEF d, h
<1>3. \A i \in h + 1 .. Len(d) : d[i] \in Nat
  BY <1>1, ElementOfSeq
<1>4. /\ SubSeq(d, h + 1, Len(d)) \in Seq(Nat)
      /\ Len(SubSeq(d, h + 1, Len(d))) = IF h + 1 <= Len(d) THEN Len(d) - (h + 1) + 1 ELSE 0
      /\ \A i \in 1 .. Len(d) - (h + 1) + 1 : SubSeq(d, h + 1, Len(d))[i] = d[h + 1 + i - 1]
  BY <1>1, <1>3, SubSeqProperties
<1>5. Len(AsSlice(b)) = BufLen(b) /\ BufLen(b) \in Nat
  BY <1>1, <1>2, <1>4
<1>6. \A i \in 1 .. BufLen(b) : AsSlice(b)[i] = d[h + i]
  <2> TAKE i \in 1 .. BufLen(b)
  <2>1. i \in 1 .. Len(d) - (h + 1) + 1 /\ h + 1 + i - 1 = h + i
    BY <1>1, <1>2
  <2> QED  BY <1>2, <1>4, <2>1
<1> QED  BY <1>2, <1>4, <1>5, <1>6 DEF d, h

\* compact_tx_if_needed moves the unread bytes and changes none of them; afterwards
\* there is room, or nothing in front of the cursor to make room of.
LEMMA CompactKeeps ==
    ASSUME NEW b, BufOK(b), NEW extra \in Nat
    PROVE  /\ BufOK(CompactIfNeeded(b, extra))
           /\ AsSlice(CompactIfNeeded(b, extra)) = AsSlice(b)
           /\ CompactIfNeeded(b, extra).capacity = b.capacity
           /\ \/ CompactIfNeeded(b, extra).head = 0
              \/ Len(CompactIfNeeded(b, extra).data) + extra <= b.capacity
<1> DEFINE c == CompactIfNeeded(b, extra)
<1>1. CASE Len(b.data) + extra > b.capacity /\ b.head > 0
  <2>1. c = [data |-> AsSlice(b), head |-> 0, capacity |-> b.capacity]
    BY <1>1 DEF CompactIfNeeded, Compact
  <2> HIDE DEF c
  <2>2. c.data = AsSlice(b) /\ c.head = 0 /\ c.capacity = b.capacity
    BY <2>1
  <2>3. Len(AsSlice(b)) \in Nat /\ Len(AsSlice(b)) <= b.capacity
    BY AsSliceType, BufFields
  <2>4. BufOK(c)
    <3>1. AsSlice(b) \in Seq(Nat) /\ b.capacity \in Nat
      BY AsSliceType, BufFields
    <3>2. ASSUME NEW d \in Seq(Nat), NEW k \in Nat, Len(d) <= k
          PROVE  BufOK([data |-> d, head |-> 0, capacity |-> k])
      <4>1. Len(d) \in Nat /\ 0 \in Nat /\ 0 <= Len(d)
        BY LenProperties
      <4> QED  BY <3>2, <4>1, BufOfFields
    <3> QED  BY <2>1, <2>3, <3>1, <3>2
  <2>5. AsSlice(c) = SubSeq(AsSlice(b), 1, Len(AsSlice(b)))
    BY <2>2 DEF AsSlice
  <2>6. AsSlice(c) = AsSlice(b)
    BY <2>5, AsSliceType, SubSeqFull
  <2> QED  BY <2>2, <2>4, <2>6 DEF c
<1>2. CASE ~(Len(b.data) + extra > b.capacity /\ b.head > 0)
  <2>1. c = b
    BY <1>2 DEF CompactIfNeeded
  <2>2. b.head = 0 \/ Len(b.data) + extra <= b.capacity
    BY <1>2, BufFields
  <2> QED  BY <2>1, <2>2
<1> QED  BY <1>1, <1>2

\* Bytes are appended behind the unread ones (Vec::extend_from_slice).
LEMMA PushAppends ==
    ASSUME NEW b, BufOK(b), NEW bytes \in Seq(Nat)
    PROVE  /\ BufOK(Push(b, bytes))
           /\ AsSlice(Push(b, bytes)) = AsSlice(b) \o bytes
           /\ Len(b.data) + Len(bytes) <= b.capacity => Push(b, bytes).capacity = b.capacity
<1> DEFINE c == Push(b, bytes)
           need == Len(b.data) + Len(bytes)
           room == IF need <= b.capacity THEN b.capacity
                   ELSE IF need > 2 * b.capacity THEN need ELSE 2 * b.capacity
<1>1. c = [data |-> b.data \o bytes, head |-> b.head, capacity |-> room]
  BY DEF Push
<1>2. Len(bytes) \in Nat
  BY LenProperties
<1>3. room \in Nat /\ need <= room
  BY <1>2, BufFields
<1>4. /\ b.data \o bytes \in Seq(Nat)
      /\ Len(b.data \o bytes) = need
      /\ \A i \in 1 .. need : (b.data \o bytes)[i] =
             IF i <= Len(b.data) THEN b.data[i] ELSE bytes[i - Len(b.data)]
  BY BufFields, ConcatProperties
<1>5. b.head <= need /\ (b.head = need => b.head = 0)
  BY <1>2, BufFields
<1> HIDE DEF c, room
<1>6. c.data = b.data \o bytes /\ c.head = b.head /\ c.capacity = room
  BY <1>1
<1>7. BufOK(c)
  BY <1>1, <1>3, <1>4, <1>5, BufFields, BufOfFields
<1>8. BufLen(c) = BufLen(b) + Len(bytes)
  <2>1. BufLen(c) = Len(c.data) - c.head /\ BufLen(b) = Len(b.data) - b.head
    BY <1>7, AsSliceType
  <2>2. Len(c.data) = Len(b.data) + Len(bytes) /\ c.head = b.head
    BY <1>4, <1>6
  <2>3. b.head \in Nat /\ Len(b.data) \in Nat
    BY BufFields
  <2> QED  BY <1>2, <2>1, <2>2, <2>3
<1>9. /\ AsSlice(b) \o bytes \in Seq(Nat)
      /\ Len(AsSlice(b) \o bytes) = BufLen(b) + Len(bytes)
      /\ \A i \in 1 .. BufLen(b) + Len(bytes) : (AsSlice(b) \o bytes)[i] =
             IF i <= BufLen(b) THEN AsSlice(b)[i] ELSE bytes[i - BufLen(b)]
  <2>1. ASSUME NEW u \in Seq(Nat)
        PROVE  /\ u \o bytes \in Seq(Nat)
               /\ Len(u \o bytes) = Len(u) + Len(bytes)
               /\ \A i \in 1 .. Len(u) + Len(bytes) :
                     (u \o bytes)[i] = IF i <= Len(u) THEN u[i] ELSE bytes[i - Len(u)]
    BY ConcatProperties
  <2>2. AsSlice(b) \in Seq(Nat) /\ Len(AsSlice(b)) = BufLen(b)
    BY AsSliceType
  <2> QED  BY <2>1, <2>2
<1>10. ASSUME NEW i \in 1 .. BufLen(b) + Len(bytes)
       PROVE  AsSlice(c)[i] = (AsSlice(b) \o bytes)[i]
  <2>1. AsSlice(c)[i] = (b.data \o bytes)[b.head + i]
    BY <1>6, <1>7, <1>8, AsSliceType
  <2>2. b.head + i \in 1 .. need
    BY <1>2, AsSliceType, BufFields
  <2>3. CASE i <= BufLen(b)
    <3> DEFINE j == b.head + i
    <3>1. j <= Len(b.data)
      BY <1>2, <2>3, AsSliceType, BufFields
    <3>2. AsSlice(b)[i] = b.data[j]
      BY <1>2, <2>3, AsSliceType
    <3>3. j \in 1 .. need
      BY <2>2
    <3> HIDE DEF j
    <3>4. (b.data \o bytes)[j] = b.data[j]
      BY <1>4, <3>1, <3>3
    <3> QED  BY <1>9, <2>1, <2>3, <3>2, <3>4 DEF j
  <2>4. CASE ~(i <= BufLen(b))
    <3> DEFINE j == b.head + i
    <3>1. j > Len(b.data)
      BY <1>2, <2>4, AsSliceType, BufFields
    <3>2. j - Len(b.data) = i - BufLen(b)
      BY <1>2, AsSliceType, BufFields
    <3>3. j \in 1 .. need /\ Len(b.data) \in Nat
      BY <2>2, BufFields
    <3> HIDE DEF j
    <3>4. (b.data \o bytes)[j] = bytes[j - Len(b.data)]
      BY <1>4, <3>1, <3>3
    <3> QED  BY <1>9, <2>1, <2>4, <3>2, <3>4 DEF j
  <2> QED  BY <2>3, <2>4
<1>11. AsSlice(c) = AsSlice(b) \o bytes
  <2> DEFINE u == AsSlice(c)
             v == AsSlice(b) \o bytes
  <2>1. u \in Seq(Nat) /\ v \in Seq(Nat) /\ Len(u) = Len(v)
    BY <1>7, <1>8, <1>9, AsSliceType
  <2>2. \A i \in 1 .. Len(u) : u[i] = v[i]
    BY <1>9, <1>10, <2>1
  <2> HIDE DEF u, v
  <2>3. u = v
    BY <2>1, <2>2, SeqEqual
  <2> QED  BY <2>3 DEF u, v
<1> QED  BY <1>6, <1>7, <1>11 DEF c, room

\* feed_recv appends what it is given to what is unread, and the buffer grows only if
\* the two together do not fit (CursorBuf::extend_from_slice).
THEOREM ExtendAppends ==
    ASSUME NEW b, BufOK(b), NEW bytes \in Seq(Nat)
    PROVE  /\ BufOK(Extend(b, bytes))
           /\ AsSlice(Extend(b, bytes)) = AsSlice(b) \o bytes
           /\ BufLen(b) + Len(bytes) <= b.capacity => Extend(b, bytes).capacity = b.capacity
<1>1. CASE bytes = <<>>
  <2>1. AsSlice(b) \o bytes = AsSlice(b)
    BY <1>1, AsSliceType, ConcatEmptySeq
  <2> QED  BY <1>1, <2>1 DEF Extend
<1>2. CASE bytes # <<>>
  <2> DEFINE c == CompactIfNeeded(b, Len(bytes))
  <2>1. Extend(b, bytes) = Push(c, bytes)
    BY <1>2 DEF Extend
  <2>2. Len(bytes) \in Nat
    BY LenProperties
  <2>3. /\ BufOK(c)
        /\ AsSlice(c) = AsSlice(b)
        /\ c.capacity = b.capacity
        /\ c.head = 0 \/ Len(c.data) + Len(bytes) <= b.capacity
    BY <2>2, CompactKeeps
  <2> HIDE DEF c
  <2>4. BufLen(c) = BufLen(b) /\ BufLen(c) = Len(c.data) - c.head
    BY <2>3, AsSliceType
  <2>5. BufLen(b) + Len(bytes) <= b.capacity => Len(c.data) + Len(bytes) <= c.capacity
    BY <2>2, <2>3, <2>4, BufFields
  <2> QED  BY <1>2, <2>1, <2>3, <2>5, PushAppends
<1> QED  BY <1>1, <1>2

\* write_frame leaves the bytes that wait to be sent as they are and puts the header
\* and the payload behind them, compacted or not.
THEOREM WriteAppends ==
    ASSUME NEW b, BufOK(b),
           NEW header \in Seq(Nat), NEW payload \in Seq(Nat)
    PROVE  LET c == Push(Push(CompactIfNeeded(b, Len(header) + Len(payload)), header), payload)
           IN  BufOK(c) /\ AsSlice(c) = (AsSlice(b) \o header) \o payload
<1> DEFINE r == CompactIfNeeded(b, Len(header) + Len(payload))
<1>1. Len(header) + Len(payload) \in Nat
  BY LenProperties
<1>2. BufOK(r) /\ AsSlice(r) = AsSlice(b)
  BY <1>1, CompactKeeps
<1> HIDE DEF r
<1>3. BufOK(Push(r, header)) /\ AsSlice(Push(r, header)) = AsSlice(b) \o header
  BY <1>2, PushAppends
<1>4. /\ BufOK(Push(Push(r, header), payload))
      /\ AsSlice(Push(Push(r, header), payload)) = (AsSlice(b) \o header) \o payload
  BY <1>3, PushAppends
<1> QED  BY <1>4 DEF r

\* What consume and ack_tx leave is what follows the bytes consumed; the buffer that
\* is empty is reset, and no other byte is touched (CursorBuf::consume).
THEOREM ConsumeDrops ==
    ASSUME NEW b, BufOK(b), NEW n \in 0 .. BufLen(b)
    PROVE  /\ BufOK(Consume(b, n))
           /\ AsSlice(Consume(b, n)) = SubSeq(AsSlice(b), n + 1, BufLen(b))
           /\ Consume(b, n).capacity = b.capacity
<1> DEFINE c == Consume(b, n)
           rest == SubSeq(AsSlice(b), n + 1, BufLen(b))
<1>1. n \in Nat /\ n <= BufLen(b) /\ BufLen(b) \in Nat
  BY AsSliceType
<1>2. CASE b.head + n = Len(b.data)
  <2>1. c = WithCapacity(b.capacity)
    BY <1>2 DEF Consume
  <2>2. BufOK(c) /\ AsSlice(c) = <<>> /\ c.capacity = b.capacity
    BY <2>1, WithCapacityOK, BufFields DEF WithCapacity
  <2>3. BufLen(b) < n + 1
    BY <1>1, <1>2, AsSliceType, BufFields
  <2>4. rest = <<>>
    BY <1>1, <2>3, SubSeqEmpty
  <2> QED  BY <2>2, <2>4
<1>3. CASE b.head + n # Len(b.data)
  <2>1. c = [data |-> b.data, head |-> b.head + n, capacity |-> b.capacity]
    BY <1>3 DEF Consume
  <2>2. b.head + n \in Nat /\ b.head + n <= Len(b.data)
    BY <1>1, AsSliceType, BufFields
  <2> HIDE DEF c
  <2>3. BufOK(c) /\ c.data = b.data /\ c.head = b.head + n /\ c.capacity = b.capacity
    BY <1>3, <2>1, <2>2, BufFields, BufOfFields
  <2>4. BufLen(c) = BufLen(b) - n /\ BufLen(c) \in Nat
    BY <1>1, <2>3, AsSliceType, BufFields
  <2>5. ASSUME NEW i \in n + 1 .. BufLen(b) PROVE AsSlice(b)[i] \in Nat
    <3>1. i \in 1 .. BufLen(b)
      BY <1>1
    <3>2. AsSlice(b) \in Seq(Nat) /\ Len(AsSlice(b)) = BufLen(b)
      BY AsSliceType
    <3> QED  BY <3>1, <3>2, ElementOfSeq
  <2>6. /\ rest \in Seq(Nat)
        /\ Len(rest) = IF n + 1 <= BufLen(b) THEN BufLen(b) - (n + 1) + 1 ELSE 0
        /\ \A i \in 1 .. BufLen(b) - (n + 1) + 1 : rest[i] = AsSlice(b)[n + 1 + i - 1]
    BY <1>1, <2>5, SubSeqProperties
  <2> HIDE DEF rest
  <2>7. Len(rest) = BufLen(c)
    BY <1>1, <2>4, <2>6
  <2>8. ASSUME NEW i \in 1 .. BufLen(c)
        PROVE  AsSlice(c)[i] = rest[i]
    <3>1. /\ i \in 1 .. BufLen(b) - (n + 1) + 1
          /\ n + 1 + i - 1 = n + i
          /\ n + i \in 1 .. BufLen(b)
          /\ b.head + n + i = b.head + (n + i)
      BY <1>1, <2>4, BufFields
    <3>2. AsSlice(c)[i] = b.data[b.head + n + i]
      BY <2>3, AsSliceType
    <3>3. AsSlice(b)[n + i] = b.data[b.head + (n + i)]
      BY <3>1, AsSliceType
    <3> QED  BY <2>6, <3>1, <3>2, <3>3
  <2>9. AsSlice(c) \in Seq(Nat) /\ Len(AsSlice(c)) = BufLen(c)
    BY <2>3, AsSliceType
  <2>10. AsSlice(c) = rest
    BY <2>6, <2>7, <2>8, <2>9, SeqEqual
  <2> QED  BY <2>3, <2>10 DEF c, rest
<1> QED  BY <1>2, <1>3

-----------------------------------------------------------------------------
(* Xor of bytes.                                                          *)

\* A byte is the sum of its bits.
LEMMA ByteBits ==
    ASSUME NEW a \in Byte
    PROVE  \E a7, a6, a5, a4, a3, a2, a1, a0 \in {0, 1} :
               a = 128 * a7 + 64 * a6 + 32 * a5 + 16 * a4 + 8 * a3 + 4 * a2 + 2 * a1 + a0
<1> DEFINE bit(w) == (a \div w) % 2
<1>1. /\ bit(128) \in {0, 1} /\ bit(64) \in {0, 1} /\ bit(32) \in {0, 1} /\ bit(16) \in {0, 1}
      /\ bit(8) \in {0, 1} /\ bit(4) \in {0, 1} /\ bit(2) \in {0, 1} /\ bit(1) \in {0, 1}
  BY DEF Byte
<1>2. a = 128 * bit(128) + 64 * bit(64) + 32 * bit(32) + 16 * bit(16) + 8 * bit(8)
          + 4 * bit(4) + 2 * bit(2) + bit(1)
  BY DEF Byte
<1> HIDE DEF bit
<1>. QED  BY <1>1, <1>2

\* Division and remainder give the bits back, one by one.
LEMMA BitsOf ==
    ASSUME NEW a7 \in {0, 1}, NEW a6 \in {0, 1}, NEW a5 \in {0, 1}, NEW a4 \in {0, 1},
           NEW a3 \in {0, 1}, NEW a2 \in {0, 1}, NEW a1 \in {0, 1}, NEW a0 \in {0, 1},
           NEW a,
           a = 128 * a7 + 64 * a6 + 32 * a5 + 16 * a4 + 8 * a3 + 4 * a2 + 2 * a1 + a0
    PROVE  /\ a \in Byte
           /\ (a \div 128) % 2 = a7 /\ (a \div 64) % 2 = a6
           /\ (a \div 32) % 2 = a5 /\ (a \div 16) % 2 = a4
           /\ (a \div 8) % 2 = a3 /\ (a \div 4) % 2 = a2
           /\ (a \div 2) % 2 = a1 /\ (a \div 1) % 2 = a0
<1>1. a \in Byte
  BY DEF Byte
<1>2. (a \div 128) % 2 = a7
  OBVIOUS
<1>3. (a \div 64) % 2 = a6
  OBVIOUS
<1>4. (a \div 32) % 2 = a5
  OBVIOUS
<1>5. (a \div 16) % 2 = a4
  OBVIOUS
<1>6. (a \div 8) % 2 = a3
  OBVIOUS
<1>7. (a \div 4) % 2 = a2
  OBVIOUS
<1>8. (a \div 2) % 2 = a1
  OBVIOUS
<1>9. (a \div 1) % 2 = a0
  OBVIOUS
<1>. QED  BY <1>1, <1>2, <1>3, <1>4, <1>5, <1>6, <1>7, <1>8, <1>9

\* Xor of bytes is a byte, and a second one with the same key undoes the first.
LEMMA XorInverse ==
    ASSUME NEW a \in Byte, NEW b \in Byte
    PROVE  Xor(a, b) \in Byte /\ Xor(Xor(a, b), b) = a
<1>1. PICK a7, a6, a5, a4, a3, a2, a1, a0 \in {0, 1} :
         a = 128 * a7 + 64 * a6 + 32 * a5 + 16 * a4 + 8 * a3 + 4 * a2 + 2 * a1 + a0
  BY ByteBits
<1>2. PICK b7, b6, b5, b4, b3, b2, b1, b0 \in {0, 1} :
         b = 128 * b7 + 64 * b6 + 32 * b5 + 16 * b4 + 8 * b3 + 4 * b2 + 2 * b1 + b0
  BY ByteBits
<1> DEFINE x(p, q) == IF p = q THEN 0 ELSE 1
           c == 128 * x(a7, b7) + 64 * x(a6, b6) + 32 * x(a5, b5) + 16 * x(a4, b4)
                + 8 * x(a3, b3) + 4 * x(a2, b2) + 2 * x(a1, b1) + x(a0, b0)
<1>3. \A p, q \in {0, 1} : x(p, q) \in {0, 1} /\ x(x(p, q), q) = p
  OBVIOUS
<1>4. /\ (a \div 128) % 2 = a7 /\ (a \div 64) % 2 = a6
      /\ (a \div 32) % 2 = a5 /\ (a \div 16) % 2 = a4
      /\ (a \div 8) % 2 = a3 /\ (a \div 4) % 2 = a2
      /\ (a \div 2) % 2 = a1 /\ (a \div 1) % 2 = a0
  BY <1>1, BitsOf
<1>5. /\ (b \div 128) % 2 = b7 /\ (b \div 64) % 2 = b6
      /\ (b \div 32) % 2 = b5 /\ (b \div 16) % 2 = b4
      /\ (b \div 8) % 2 = b3 /\ (b \div 4) % 2 = b2
      /\ (b \div 2) % 2 = b1 /\ (b \div 1) % 2 = b0
  BY <1>2, BitsOf
<1>6. Xor(a, b) = c
  BY <1>4, <1>5 DEF Xor, XorBit
<1>7. /\ c \in Byte
      /\ (c \div 128) % 2 = x(a7, b7) /\ (c \div 64) % 2 = x(a6, b6)
      /\ (c \div 32) % 2 = x(a5, b5) /\ (c \div 16) % 2 = x(a4, b4)
      /\ (c \div 8) % 2 = x(a3, b3) /\ (c \div 4) % 2 = x(a2, b2)
      /\ (c \div 2) % 2 = x(a1, b1) /\ (c \div 1) % 2 = x(a0, b0)
  <2>1. PICK c7, c6, c5, c4, c3, c2, c1, c0 \in {0, 1} :
           /\ c7 = x(a7, b7) /\ c6 = x(a6, b6) /\ c5 = x(a5, b5) /\ c4 = x(a4, b4)
           /\ c3 = x(a3, b3) /\ c2 = x(a2, b2) /\ c1 = x(a1, b1) /\ c0 = x(a0, b0)
    <3> HIDE DEF x
    <3>. QED  BY <1>3
  <2>2. c = 128 * c7 + 64 * c6 + 32 * c5 + 16 * c4 + 8 * c3 + 4 * c2 + 2 * c1 + c0
    BY <2>1
  <2> HIDE DEF x, c
  <2>3. /\ c \in Byte
        /\ (c \div 128) % 2 = c7 /\ (c \div 64) % 2 = c6
        /\ (c \div 32) % 2 = c5 /\ (c \div 16) % 2 = c4
        /\ (c \div 8) % 2 = c3 /\ (c \div 4) % 2 = c2
        /\ (c \div 2) % 2 = c1 /\ (c \div 1) % 2 = c0
    BY <2>2, BitsOf
  <2>. QED  BY <2>1, <2>3
<1>8. Xor(c, b) = 128 * x(x(a7, b7), b7) + 64 * x(x(a6, b6), b6) + 32 * x(x(a5, b5), b5)
                  + 16 * x(x(a4, b4), b4) + 8 * x(x(a3, b3), b3) + 4 * x(x(a2, b2), b2)
                  + 2 * x(x(a1, b1), b1) + x(x(a0, b0), b0)
  <2> HIDE DEF c
  <2>. QED  BY <1>5, <1>7 DEF Xor, XorBit
<1> HIDE DEF x, c
<1>9. Xor(c, b) = a
  BY <1>1, <1>3, <1>8
<1>. QED  BY <1>6, <1>7, <1>9

-----------------------------------------------------------------------------
(* Lengths as digits.                                                     *)

\* The parameters of the length fields.
LEMMA BaseFacts == Base \in Nat /\ Base >= 2 /\ Base <= 256 /\ Short \in Nat /\ Short <= Base
BY WireAssumption

\* A number, without its last digit and with it.
LEMMA DivType ==
    ASSUME NEW n \in Nat
    PROVE  n \div Base \in Nat /\ n % Base \in 0 .. Base - 1 /\ n = Base * (n \div Base) + (n % Base)
<1>1. Base \in Nat \ {0} /\ n \in Int
  BY BaseFacts
<1>2. n \div Base \in Int /\ n % Base \in 0 .. Base - 1 /\ n = Base * (n \div Base) + (n % Base)
  BY <1>1, DivMod
<1>3. n \div Base >= 0
  <2> DEFINE q == n \div Base
             r == n % Base
  <2>1. q \in Int /\ r \in 0 .. Base - 1 /\ n = Base * q + r
    BY <1>2
  <2> HIDE DEF q, r
  <2>2. SUFFICES ASSUME q <= -1 PROVE FALSE
    BY <2>1 DEF q
  <2>3. Base * (-1 - q) >= 0
    BY <1>1, <2>1, <2>2
  <2>4. Base * q = - Base - Base * (-1 - q)
    BY <1>1, <2>1
  <2>. QED  BY <1>1, <2>1, <2>3, <2>4
<1>. QED  BY <1>2, <1>3

\* q[i] is n without its last i digits, for i up to k.
Divides(q, n, k) ==
    /\ q \in [0 .. k -> Nat]
    /\ q[0] = n
    /\ \A i \in 1 .. k : q[i] = q[i - 1] \div Base

\* The recursive definition of Without has a solution.
LEMMA WithoutDivides ==
    ASSUME NEW n \in Nat, NEW k \in Nat
    PROVE  \E q : Divides(q, n, k) /\ Without(n, k) = q[k]
<1> DEFINE step == [x \in Nat \X Nat |-> x[1] \div Base]
           body(g) == [i \in 0 .. k |-> IF i = 0 THEN n ELSE g[i - 1] \div Base]
<1>1. step \in [Nat \X Nat -> Nat]
  BY DivType
<1>2. PICK f : Recursion(f, Nat, n, k, step)
  <2> HIDE DEF step
  <2>. QED  BY <1>1, RecursiveFunction
<1>3. f \in [0 .. k -> Nat] /\ f[0] = n
  BY <1>2 DEF Recursion
<1>4. ASSUME NEW i \in 1 .. k PROVE f[i] = f[i - 1] \div Base
  <2>1. f[i - 1] \in Nat /\ i \in Nat
    BY <1>3
  <2>2. step[<<f[i - 1], i>>] = f[i - 1] \div Base
    BY <2>1
  <2> HIDE DEF step
  <2>. QED  BY <1>2, <2>2 DEF Recursion
<1>5. f = body(f)
  <2>1. ASSUME NEW i \in 0 .. k PROVE f[i] = body(f)[i]
    <3>1. CASE i = 0
      BY <1>3, <3>1
    <3>2. CASE i # 0
      BY <1>4, <3>2
    <3>. QED  BY <3>1, <3>2
  <2>2. f = [i \in 0 .. k |-> f[i]]
    BY <1>3
  <2>. QED  BY <2>1, <2>2
<1> DEFINE c == CHOOSE g : g = body(g)
<1>6. c = body(c)
  <2> HIDE DEF body
  <2>. QED  BY <1>5
<1>7. Without(n, k) = c[k]
  BY DEF Without
<1> HIDE DEF c
<1>8. DOMAIN c = 0 .. k /\ c = [i \in 0 .. k |-> c[i]] /\ c[0] = n
  <2>1. DOMAIN c = 0 .. k
    BY <1>6
  <2>2. body(c)[0] = n
    OBVIOUS
  <2>3. c = [i \in 0 .. k |-> c[i]]
    BY <1>6, <2>1
  <2>. QED  BY <1>6, <2>1, <2>2, <2>3
<1>9. ASSUME NEW i \in 1 .. k PROVE c[i] = c[i - 1] \div Base
  <2>1. body(c)[i] = c[i - 1] \div Base
    OBVIOUS
  <2> HIDE DEF body
  <2>. QED  BY <1>6, <2>1
<1>10. \A i \in Nat : i <= k => c[i] \in Nat
  <2> DEFINE T == {i \in Nat : i <= k => c[i] \in Nat}
  <2>1. 0 \in T
    BY <1>8
  <2>2. ASSUME NEW j \in Nat, j \in T PROVE j + 1 \in T
    <3> SUFFICES ASSUME j + 1 <= k PROVE c[j + 1] \in Nat
      OBVIOUS
    <3>1. c[j] \in Nat /\ j + 1 \in 1 .. k /\ (j + 1) - 1 = j
      BY <2>2
    <3>2. c[j + 1] = c[j] \div Base
      BY <1>9, <3>1
    <3>. QED  BY <3>1, <3>2, DivType
  <2> HIDE DEF T
  <2>3. Nat \subseteq T
    BY <2>1, <2>2, Induct
  <2>. QED  BY <2>3 DEF T
<1>11. Divides(c, n, k)
  <2>1. \A i \in 0 .. k : c[i] \in Nat
    BY <1>10
  <2>. QED  BY <1>8, <1>9, <2>1 DEF Divides
<1>. QED  BY <1>7, <1>11

\* One digit less at a time.
LEMMA WithoutEquations ==
    ASSUME NEW n \in Nat, NEW k \in Nat
    PROVE  /\ Without(n, 0) = n
           /\ Without(n, k) \in Nat
           /\ Without(n, k + 1) = Without(n, k) \div Base
<1>1. Without(n, 0) = n
  <2>1. PICK q : Divides(q, n, 0) /\ Without(n, 0) = q[0]
    BY WithoutDivides
  <2>. QED  BY <2>1 DEF Divides
<1>2. PICK q : Divides(q, n, k) /\ Without(n, k) = q[k]
  BY WithoutDivides
<1>3. PICK p : Divides(p, n, k + 1) /\ Without(n, k + 1) = p[k + 1]
  <2>1. k + 1 \in Nat
    OBVIOUS
  <2>. QED  BY <2>1, WithoutDivides
<1>4. p[k] = q[k]
  <2> DEFINE T == {i \in Nat : i <= k => p[i] = q[i]}
  <2>1. 0 \in T
    BY <1>2, <1>3 DEF Divides
  <2>2. ASSUME NEW j \in Nat, j \in T PROVE j + 1 \in T
    <3> SUFFICES ASSUME j + 1 <= k PROVE p[j + 1] = q[j + 1]
      OBVIOUS
    <3>1. p[j] = q[j] /\ j + 1 \in 1 .. k /\ j + 1 \in 1 .. k + 1 /\ (j + 1) - 1 = j
      BY <2>2
    <3>2. q[j + 1] = q[j] \div Base
      BY <1>2, <3>1 DEF Divides
    <3>3. p[j + 1] = p[j] \div Base
      BY <1>3, <3>1 DEF Divides
    <3>. QED  BY <3>1, <3>2, <3>3
  <2> HIDE DEF T
  <2>3. Nat \subseteq T
    BY <2>1, <2>2, Induct
  <2>4. k \in T
    BY <2>3
  <2>. QED  BY <2>4 DEF T
<1>5. p[k + 1] = p[k] \div Base
  <2>1. k + 1 \in 1 .. k + 1 /\ (k + 1) - 1 = k
    OBVIOUS
  <2>. QED  BY <1>3, <2>1 DEF Divides
<1>6. q[k] \in Nat
  BY <1>2 DEF Divides
<1>. QED  BY <1>1, <1>2, <1>3, <1>4, <1>5, <1>6

\* The number with one digit more.
LEMMA DivIs ==
    ASSUME NEW q \in Nat, NEW r \in 0 .. Base - 1
    PROVE  Base * q + r \in Nat /\ (Base * q + r) \div Base = q /\ (Base * q + r) % Base = r
<1> DEFINE a == Base * q + r
<1>1. a \in Nat
  <2>1. Base * q \in Nat
    BY BaseFacts
  <2>. QED  BY <2>1, BaseFacts
<1>2. a \div Base \in Nat /\ a % Base \in 0 .. Base - 1 /\ a = Base * (a \div Base) + (a % Base)
  <2> HIDE DEF a
  <2>. QED  BY <1>1, DivType
<1>3. Base \in Nat \ {0}
  BY BaseFacts
<1> DEFINE p == a \div Base
           t == a % Base
<1>4. p \in Int /\ q \in Int /\ t \in 0 .. Base - 1 /\ Base * q + r = Base * p + t
  BY <1>2
<1> HIDE DEF p, t
<1>5. q = p /\ r = t
  BY <1>3, <1>4, DivModUnique
<1>. QED  BY <1>1, <1>5 DEF p, t

\* A bound on a number without its last digit.
LEMMA DivLess ==
    ASSUME NEW n \in Nat, NEW A \in Nat
    PROVE  (n \div Base < A) <=> (n < A * Base)
<1> DEFINE q == n \div Base
           r == n % Base
<1>1. q \in Nat /\ r \in 0 .. Base - 1 /\ n = Base * q + r
  BY DivType
<1>2. Base \in Nat /\ Base >= 2
  BY BaseFacts
<1> HIDE DEF q, r
<1>3. ASSUME q < A PROVE n < A * Base
  <2>1. (q + 1) * Base <= A * Base /\ (q + 1) * Base = q * Base + Base
    <3>1. q + 1 \in Nat /\ q + 1 <= A /\ q <= q
      BY <1>1, <1>3
    <3>. QED  BY <1>1, <1>2, <3>1, Product
  <2>2. Base * q = q * Base /\ q * Base \in Int /\ A * Base \in Int
    BY <1>1, <1>2
  <2>. QED  BY <1>1, <1>2, <2>1, <2>2
<1>4. ASSUME A <= q PROVE A * Base <= n
  <2>1. A * Base <= q * Base
    BY <1>1, <1>2, <1>4, Product
  <2>2. Base * q = q * Base /\ q * Base \in Int /\ A * Base \in Int
    BY <1>1, <1>2
  <2>. QED  BY <1>1, <1>2, <2>1, <2>2
<1>5. A * Base \in Int
  BY <1>2
<1>. QED  BY <1>1, <1>3, <1>4, <1>5 DEF q

\* v[i] is the value of the first i digits of s.
Evaluates(v, s) ==
    /\ v \in [0 .. Len(s) -> Nat]
    /\ v[0] = 0
    /\ \A i \in 1 .. Len(s) : v[i] = Base * v[i - 1] + s[i]

\* The recursive definition of FromBe has a solution.
LEMMA FromBeEvaluates ==
    ASSUME NEW s \in Seq(Nat)
    PROVE  \E v : Evaluates(v, s) /\ FromBe(s) = v[Len(s)]
<1> DEFINE N == Len(s)
           digit(i) == IF i \in 1 .. Len(s) THEN s[i] ELSE 0
           step == [x \in Nat \X Nat |-> Base * x[1] + digit(x[2])]
           body(g) == [i \in 0 .. Len(s) |-> IF i = 0 THEN 0 ELSE Base * g[i - 1] + s[i]]
<1>0. N \in Nat /\ N = Len(s) /\ \A i \in 1 .. Len(s) : s[i] \in Nat
  BY LenProperties, ElementOfSeq
<1>1. \A a \in Nat, d \in Nat : Base * a + d \in Nat
  BY BaseFacts
<1>2. step \in [Nat \X Nat -> Nat]
  <2>1. \A i \in Nat : digit(i) \in Nat
    BY <1>0
  <2> HIDE DEF digit
  <2>. QED  BY <1>1, <2>1
<1> HIDE DEF N
<1>3. PICK f : Recursion(f, Nat, 0, N, step)
  <2> HIDE DEF step
  <2>1. 0 \in Nat
    OBVIOUS
  <2>. QED  BY <1>0, <1>2, <2>1, RecursiveFunction
<1>4. f \in [0 .. N -> Nat] /\ f[0] = 0
  BY <1>3 DEF Recursion
<1>5. ASSUME NEW i \in 1 .. N PROVE f[i] = Base * f[i - 1] + s[i]
  <2>1. f[i - 1] \in Nat /\ i \in Nat
    <3>1. i - 1 \in 0 .. N /\ i \in Nat
      BY <1>0
    <3>. QED  BY <1>4, <3>1
  <2>2. step[<<f[i - 1], i>>] = Base * f[i - 1] + s[i]
    BY <1>0, <2>1
  <2> HIDE DEF step
  <2>. QED  BY <1>3, <2>2 DEF Recursion
<1>6. f = body(f)
  <2>1. ASSUME NEW i \in 0 .. N PROVE f[i] = body(f)[i]
    <3>1. CASE i = 0
      BY <1>0, <1>4, <3>1
    <3>2. CASE i # 0
      <4>1. i \in 1 .. N /\ i \in 0 .. Len(s)
        BY <1>0, <3>2
      <4>. QED  BY <1>5, <3>2, <4>1
    <3>. QED  BY <3>1, <3>2
  <2>2. f = [i \in 0 .. N |-> f[i]]
    BY <1>4
  <2>. QED  BY <1>0, <2>1, <2>2
<1> DEFINE c == CHOOSE g : g = body(g)
<1>7. c = body(c)
  <2> HIDE DEF body
  <2>. QED  BY <1>6
<1>8. FromBe(s) = c[Len(s)]
  BY DEF FromBe
<1> HIDE DEF c
<1>9. DOMAIN c = 0 .. N /\ c = [i \in 0 .. N |-> c[i]] /\ c[0] = 0
  <2>1. DOMAIN c = 0 .. N
    BY <1>0, <1>7
  <2>2. body(c)[0] = 0
    BY <1>0
  <2>3. c = [i \in 0 .. N |-> c[i]]
    BY <1>0, <1>7, <2>1
  <2>. QED  BY <1>7, <2>1, <2>2, <2>3
<1>10. ASSUME NEW i \in 1 .. N PROVE c[i] = Base * c[i - 1] + s[i]
  <2>1. body(c)[i] = Base * c[i - 1] + s[i]
    BY <1>0
  <2> HIDE DEF body
  <2>. QED  BY <1>7, <2>1
<1>11. \A i \in Nat : i <= N => c[i] \in Nat
  <2> DEFINE T == {i \in Nat : i <= N => c[i] \in Nat}
  <2>1. 0 \in T
    BY <1>9
  <2>2. ASSUME NEW j \in Nat, j \in T PROVE j + 1 \in T
    <3> SUFFICES ASSUME j + 1 <= N PROVE c[j + 1] \in Nat
      OBVIOUS
    <3>1. c[j] \in Nat /\ j + 1 \in 1 .. N /\ (j + 1) - 1 = j
      BY <1>0, <2>2
    <3>2. c[j + 1] = Base * c[j] + s[j + 1] /\ s[j + 1] \in Nat
      BY <1>0, <1>10, <3>1
    <3>. QED  BY <1>1, <3>1, <3>2
  <2> HIDE DEF T
  <2>3. Nat \subseteq T
    BY <2>1, <2>2, Induct
  <2>. QED  BY <2>3 DEF T
<1>12. Evaluates(c, s)
  <2>1. \A i \in 0 .. N : c[i] \in Nat
    BY <1>0, <1>11
  <2>2. c \in [0 .. N -> Nat]
    BY <1>9, <2>1
  <2>. QED  BY <1>0, <1>9, <1>10, <2>2 DEF Evaluates
<1>. QED  BY <1>8, <1>12

\* The digits of a number are digits, as many as are asked for.
LEMMA ToBeType ==
    ASSUME NEW n \in Nat, NEW k \in Nat
    PROVE  /\ ToBe(n, k) \in Seq(0 .. Base - 1)
           /\ Len(ToBe(n, k)) = k
           /\ \A i \in 1 .. k : ToBe(n, k)[i] = Without(n, k - i) % Base
<1>1. ASSUME NEW i \in 1 .. k PROVE Without(n, k - i) % Base \in 0 .. Base - 1
  <2>1. k - i \in Nat
    OBVIOUS
  <2>2. Without(n, k - i) \in Nat
    BY <2>1, WithoutEquations
  <2>. QED  BY <2>2, DivType
<1>2. ToBe(n, k) \in [1 .. k -> 0 .. Base - 1]
  BY <1>1 DEF ToBe
<1>. QED  BY <1>2 DEF ToBe

\* from_be_bytes of to_be_bytes is the number, if it has no more digits than that.
LEMMA FromTo ==
    ASSUME NEW n \in Nat, NEW k \in Nat, Without(n, k) = 0
    PROVE  FromBe(ToBe(n, k)) = n
<1> DEFINE s == ToBe(n, k)
<1>1. s \in Seq(0 .. Base - 1) /\ Len(s) = k /\ \A i \in 1 .. k : s[i] = Without(n, k - i) % Base
  BY ToBeType
<1> HIDE DEF s
<1>2. s \in Seq(Nat)
  <2>1. 0 .. Base - 1 \subseteq Nat
    BY BaseFacts
  <2>2. \A i \in 1 .. Len(s) : s[i] \in Nat
    BY <1>1, <2>1, ElementOfSeq
  <2>. QED  BY <1>1, <2>2
<1>3. PICK v : Evaluates(v, s) /\ FromBe(s) = v[Len(s)]
  BY <1>2, FromBeEvaluates
<1> DEFINE T == {i \in Nat : i <= k => v[i] = Without(n, k - i)}
<1>4. 0 \in T
  BY <1>3 DEF Evaluates
<1>5. ASSUME NEW j \in Nat, j \in T PROVE j + 1 \in T
  <2> SUFFICES ASSUME j + 1 <= k PROVE v[j + 1] = Without(n, k - (j + 1))
    OBVIOUS
  <2> DEFINE m == k - (j + 1)
             w == Without(n, m)
  <2>1. m \in Nat /\ m + 1 = k - j /\ j + 1 \in 1 .. Len(s) /\ (j + 1) - 1 = j /\ j + 1 \in 1 .. k
    BY <1>1
  <2>2. v[j] = Without(n, k - j)
    BY <1>5
  <2>3. w \in Nat /\ Without(n, m + 1) = w \div Base
    <3> HIDE DEF m
    <3>. QED  BY <2>1, WithoutEquations
  <2>4. v[j + 1] = Base * v[j] + s[j + 1]
    BY <1>3, <2>1 DEF Evaluates
  <2>5. s[j + 1] = w % Base
    BY <1>1, <2>1
  <2> HIDE DEF m, w
  <2>6. w = Base * (w \div Base) + (w % Base)
    BY <2>3, DivType
  <2>7. v[j + 1] = w
    BY <2>1, <2>2, <2>3, <2>4, <2>5, <2>6
  <2>. QED  BY <2>7 DEF w, m
<1> HIDE DEF T
<1>6. k \in T
  BY <1>4, <1>5, Induct
<1>7. v[k] = Without(n, 0)
  <2>1. k - k = 0 /\ k <= k
    OBVIOUS
  <2>. QED  BY <1>6, <2>1 DEF T
<1>8. Without(n, 0) = n
  BY WithoutEquations
<1>. QED  BY <1>1, <1>3, <1>7, <1>8 DEF s

\* to_be_bytes of from_be_bytes is the bytes; the first one is what is left of the number.
LEMMA ToFrom ==
    ASSUME NEW s \in Seq(0 .. Base - 1)
    PROVE  /\ FromBe(s) \in Nat
           /\ ToBe(FromBe(s), Len(s)) = s
           /\ Without(FromBe(s), Len(s)) = 0
           /\ Len(s) > 0 => Without(FromBe(s), Len(s) - 1) = s[1]
<1> DEFINE k == Len(s)
           n == FromBe(s)
<1>1. k \in Nat /\ \A i \in 1 .. k : s[i] \in 0 .. Base - 1 /\ s[i] \in Nat
  BY LenProperties, ElementOfSeq, BaseFacts
<1>2. s \in Seq(Nat)
  BY <1>1
<1>3. PICK v : Evaluates(v, s) /\ FromBe(s) = v[Len(s)]
  BY <1>2, FromBeEvaluates
<1>4. \A i \in 0 .. k : v[i] \in Nat
  BY <1>3 DEF Evaluates
<1>5. n \in Nat /\ n = v[k]
  BY <1>1, <1>3, <1>4
<1>6. ASSUME NEW i \in 1 .. k PROVE v[i] \div Base = v[i - 1] /\ v[i] % Base = s[i]
  <2>1. v[i] = Base * v[i - 1] + s[i] /\ v[i - 1] \in Nat /\ s[i] \in 0 .. Base - 1
    BY <1>1, <1>3, <1>4 DEF Evaluates
  <2>. QED  BY <2>1, DivIs
<1> HIDE DEF n, k
<1> DEFINE T == {j \in Nat : j <= k => Without(n, j) = v[k - j]}
<1>7. 0 \in T
  <2>1. 0 \in Nat /\ k - 0 = k
    BY <1>1
  <2>2. Without(n, 0) = n
    BY <1>5, <2>1, WithoutEquations
  <2>. QED  BY <1>5, <2>1, <2>2
<1>8. ASSUME NEW j \in Nat, j \in T PROVE j + 1 \in T
  <2> SUFFICES ASSUME j + 1 <= k PROVE Without(n, j + 1) = v[k - (j + 1)]
    OBVIOUS
  <2>1. Without(n, j) = v[k - j] /\ k - j \in 1 .. k /\ (k - j) - 1 = k - (j + 1)
    BY <1>1, <1>8
  <2>2. Without(n, j + 1) = Without(n, j) \div Base
    BY <1>5, WithoutEquations
  <2>3. v[k - j] \div Base = v[(k - j) - 1]
    BY <1>6, <2>1
  <2>. QED  BY <2>1, <2>2, <2>3
<1> HIDE DEF T
<1>9. Nat \subseteq T
  BY <1>7, <1>8, Induct
<1>10. \A j \in 0 .. k : Without(n, j) = v[k - j]
  BY <1>1, <1>9 DEF T
<1>11. Without(n, k) = 0
  <2>1. k \in 0 .. k /\ k - k = 0
    BY <1>1
  <2>2. v[0] = 0
    BY <1>3 DEF Evaluates
  <2>. QED  BY <1>10, <2>1, <2>2
<1>12. ToBe(n, k) = s
  <2>1. /\ ToBe(n, k) \in Seq(0 .. Base - 1) /\ Len(ToBe(n, k)) = k
        /\ \A i \in 1 .. k : ToBe(n, k)[i] = Without(n, k - i) % Base
    BY <1>1, <1>5, ToBeType
  <2>2. ASSUME NEW i \in 1 .. k PROVE ToBe(n, k)[i] = s[i]
    <3>1. k - i \in 0 .. k /\ k - (k - i) = i
      BY <1>1
    <3>2. Without(n, k - i) = v[i]
      BY <1>10, <3>1
    <3>. QED  BY <1>6, <2>1, <3>2
  <2> DEFINE t == ToBe(n, k)
  <2> HIDE DEF t
  <2>3. t \in Seq(0 .. Base - 1) /\ Len(t) = Len(s) /\ \A i \in 1 .. Len(t) : t[i] = s[i]
    BY <2>1, <2>2 DEF t, k
  <2>4. t = s
    BY <2>3, SeqEqual
  <2>. QED  BY <2>4 DEF t
<1>13. ASSUME k > 0 PROVE Without(n, k - 1) = s[1]
  <2>1. k - 1 \in 0 .. k /\ k - (k - 1) = 1 /\ 1 \in 1 .. k
    BY <1>1, <1>13
  <2>2. v[0] = 0 /\ v[1] = Base * v[1 - 1] + s[1]
    BY <1>3, <2>1 DEF Evaluates, k
  <2>3. v[1] = s[1]
    BY <1>1, <2>1, <2>2, BaseFacts
  <2>. QED  BY <1>10, <2>1, <2>3
<1>. QED  BY <1>5, <1>11, <1>12, <1>13 DEF n, k

\* When nothing is left of a number, nothing is left of it later.
LEMMA WithoutZero ==
    ASSUME NEW n \in Nat, NEW k \in Nat, Without(n, k) = 0
    PROVE  Without(n, k + 1) = 0
<1>1. Without(n, k + 1) = 0 \div Base
  BY WithoutEquations
<1>2. 0 \div Base < 1
  <2>1. 0 < 1 * Base
    BY BaseFacts
  <2>. QED  BY <2>1, DivLess
<1>3. 0 \div Base \in Nat
  BY DivType
<1>. QED  BY <1>1, <1>2, <1>3

\* A bound on what is left of a number, one digit more.
LEMMA WithoutLess ==
    ASSUME NEW n \in Nat, NEW k \in Nat, NEW A \in Nat
    PROVE  (Without(n, k + 1) < A) <=> (Without(n, k) < A * Base)
<1>1. Without(n, k) \in Nat /\ Without(n, k + 1) = Without(n, k) \div Base
  BY WithoutEquations
<1>. QED  BY <1>1, DivLess

\* The lengths that 2 bytes hold, which are more than those of 7 bits.
LEMMA TwoDigits ==
    ASSUME NEW n \in Nat
    PROVE  /\ Base * Base \in Nat
           /\ Short < Base * Base
           /\ (n < Base * Base) <=> (Without(n, 2) = 0)
<1>1. Base * Base \in Nat /\ Short < Base * Base
  <2>1. 2 * Base <= Base * Base
    BY BaseFacts, Product
  <2>2. Base * Base \in Int
    BY BaseFacts
  <2>. QED  BY <2>1, <2>2, BaseFacts
<1>2. 1 * Base = Base /\ 0 + 1 = 1 /\ 1 + 1 = 2 /\ Base \in Nat
  BY BaseFacts
<1>3. (Without(n, 0 + 1) < Base) <=> (Without(n, 0) < Base * Base)
  BY <1>2, WithoutLess
<1>4. (Without(n, 1 + 1) < 1) <=> (Without(n, 1) < 1 * Base)
  BY WithoutLess
<1>5. Without(n, 0) = n
  BY WithoutEquations
<1>6. Without(n, 2) \in Nat
  BY WithoutEquations
<1>. QED  BY <1>1, <1>2, <1>3, <1>4, <1>5, <1>6

\* The lengths whose first bit of 64 is 0.
LEMMA LongestLength ==
    ASSUME NEW n \in Nat
    PROVE  /\ Base \div 2 \in Nat /\ Base \div 2 >= 1 /\ Base \div 2 < Base
           /\ Longest \in Int
           /\ (n <= Longest) <=> (Without(n, 7) < Base \div 2)
<1> DEFINE A0 == Base \div 2
           A1 == A0 * Base
           A2 == A1 * Base
           A3 == A2 * Base
           A4 == A3 * Base
           A5 == A4 * Base
           A6 == A5 * Base
           A7 == A6 * Base
<1>0. Base \in Nat /\ \A a \in Nat : a * Base \in Nat
  BY BaseFacts
<1>1. A0 \in Nat /\ A0 >= 1 /\ A0 < Base
  BY BaseFacts
<1> HIDE DEF A0
<1>2. A1 \in Nat
  BY <1>0, <1>1
<1> HIDE DEF A1
<1>3. A2 \in Nat
  BY <1>0, <1>2
<1> HIDE DEF A2
<1>4. A3 \in Nat
  BY <1>0, <1>3
<1> HIDE DEF A3
<1>5. A4 \in Nat
  BY <1>0, <1>4
<1> HIDE DEF A4
<1>6. A5 \in Nat
  BY <1>0, <1>5
<1> HIDE DEF A5
<1>7. A6 \in Nat
  BY <1>0, <1>6
<1> HIDE DEF A6
<1>8. A7 \in Nat
  BY <1>0, <1>7
<1> HIDE DEF A7
<1>9. Longest = A7 - 1
  BY DEF Longest, A7, A6, A5, A4, A3, A2, A1, A0
<1>10. (Without(n, 6 + 1) < A0) <=> (Without(n, 6) < A1)
  BY <1>1, WithoutLess DEF A1
<1>11. (Without(n, 5 + 1) < A1) <=> (Without(n, 5) < A2)
  BY <1>2, WithoutLess DEF A2
<1>12. (Without(n, 4 + 1) < A2) <=> (Without(n, 4) < A3)
  BY <1>3, WithoutLess DEF A3
<1>13. (Without(n, 3 + 1) < A3) <=> (Without(n, 3) < A4)
  BY <1>4, WithoutLess DEF A4
<1>14. (Without(n, 2 + 1) < A4) <=> (Without(n, 2) < A5)
  BY <1>5, WithoutLess DEF A5
<1>15. (Without(n, 1 + 1) < A5) <=> (Without(n, 1) < A6)
  BY <1>6, WithoutLess DEF A6
<1>16. (Without(n, 0 + 1) < A6) <=> (Without(n, 0) < A7)
  BY <1>7, WithoutLess DEF A7
<1>17. Without(n, 0) = n
  BY WithoutEquations
<1>18. /\ 6 + 1 = 7 /\ 5 + 1 = 6 /\ 4 + 1 = 5 /\ 3 + 1 = 4 /\ 2 + 1 = 3 /\ 1 + 1 = 2 /\ 0 + 1 = 1
  OBVIOUS
<1>19. (Without(n, 7) < A0) <=> (n < A7)
  BY <1>10, <1>11, <1>12, <1>13, <1>14, <1>15, <1>16, <1>17, <1>18
<1>20. (n <= Longest) <=> (Without(n, 7) < A0)
  BY <1>8, <1>9, <1>19
<1>21. Longest \in Int
  BY <1>8, <1>9
<1>. QED  BY <1>1, <1>20, <1>21 DEF A0

\* 8 bytes hold them, and those of 2 bytes are among them.
LEMMA LongLengths ==
    ASSUME NEW n \in Nat
    PROVE  /\ n <= Longest => Without(n, 8) = 0
           /\ n < Base * Base => n <= Longest
<1>1. ASSUME n <= Longest PROVE Without(n, 8) = 0
  <2>1. Without(n, 7) < Base \div 2 /\ Base \div 2 < Base /\ Base \div 2 \in Nat
    BY <1>1, LongestLength
  <2>2. Without(n, 7) \in Nat /\ Without(n, 7 + 1) \in Nat
    <3>1. 7 \in Nat /\ 7 + 1 \in Nat
      OBVIOUS
    <3>. QED  BY <3>1, WithoutEquations
  <2>3. (Without(n, 7 + 1) < 1) <=> (Without(n, 7) < 1 * Base)
    BY WithoutLess
  <2>4. 7 + 1 = 8 /\ 1 * Base = Base /\ Base \in Nat
    BY BaseFacts
  <2>. QED  BY <2>1, <2>2, <2>3, <2>4
<1>2. ASSUME n < Base * Base PROVE n <= Longest
  <2>1. Without(n, 2) = 0
    BY <1>2, TwoDigits
  <2>2. 2 + 1 = 3 /\ 3 + 1 = 4 /\ 4 + 1 = 5 /\ 5 + 1 = 6 /\ 6 + 1 = 7
    OBVIOUS
  <2>3. Without(n, 3) = 0
    BY <2>1, <2>2, WithoutZero
  <2>4. Without(n, 4) = 0
    BY <2>2, <2>3, WithoutZero
  <2>5. Without(n, 5) = 0
    BY <2>2, <2>4, WithoutZero
  <2>6. Without(n, 6) = 0
    BY <2>2, <2>5, WithoutZero
  <2>7. Without(n, 7) = 0
    BY <2>2, <2>6, WithoutZero
  <2>. QED  BY <2>7, LongestLength
<1>. QED  BY <1>1, <1>2

-----------------------------------------------------------------------------
(* Reading a header.                                                      *)

\* The beginning of a sequence.
LEMMA PrefixFacts ==
    ASSUME NEW S, NEW b \in Seq(S), NEW n \in 0 .. Len(b)
    PROVE  /\ Prefix(b, n) \in Seq(S)
           /\ Len(Prefix(b, n)) = n
           /\ \A i \in 1 .. n : Prefix(b, n)[i] = b[i]
           /\ \A i, j \in Nat : (1 <= i /\ j <= n) => SubSeq(Prefix(b, n), i, j) = SubSeq(b, i, j)
<1> DEFINE c == Prefix(b, n)
<1>1. Len(b) \in Nat
  BY LenProperties
<1>2. c \in Seq(S) /\ Len(c) = n /\ \A i \in 1 .. n : c[i] = b[i]
  BY <1>1, SubSeqProperties DEF Prefix
<1> HIDE DEF c
<1>3. ASSUME NEW i \in Nat, NEW j \in Nat, 1 <= i, j <= n
      PROVE  SubSeq(c, i, j) = SubSeq(b, i, j)
  <2>1. i <= j + 1 => /\ SubSeq(c, i, j) \in Seq(S) /\ SubSeq(b, i, j) \in Seq(S)
                      /\ Len(SubSeq(c, i, j)) = j - i + 1 /\ Len(SubSeq(b, i, j)) = j - i + 1
                      /\ \A k \in 1 .. j - i + 1 : SubSeq(c, i, j)[k] = c[i + k - 1]
                                                   /\ SubSeq(b, i, j)[k] = b[i + k - 1]
    BY <1>1, <1>2, <1>3
  <2>2. CASE i <= j + 1
    <3>1. \A k \in 1 .. j - i + 1 : i + k - 1 \in 1 .. n
      BY <1>1, <1>3
    <3>2. \A k \in 1 .. j - i + 1 : SubSeq(c, i, j)[k] = SubSeq(b, i, j)[k]
      BY <1>2, <2>1, <2>2, <3>1
    <3> DEFINE x == SubSeq(c, i, j)
               y == SubSeq(b, i, j)
    <3>3. x \in Seq(S) /\ y \in Seq(S) /\ Len(x) = Len(y) /\ \A k \in 1 .. Len(x) : x[k] = y[k]
      BY <2>1, <2>2, <3>2
    <3> HIDE DEF x, y
    <3>4. x = y
      BY <3>3, SeqEqual
    <3>. QED  BY <3>4 DEF x, y
  <2>3. CASE ~(i <= j + 1)
    BY <2>3
  <2>. QED  BY <2>2, <2>3
<1>. QED  BY <1>2, <1>3 DEF c

\* A byte is a number.
LEMMA ByteIsNat == \A x \in Byte : x \in Nat
BY DEF Byte

\* What the second byte of a header says (header_size_from_byte1).
LEMMA ByteTypes ==
    ASSUME NEW b1 \in Byte
    PROVE  /\ LenField(b1) \in {0, 2, 8}
           /\ HeaderSize(b1) \in Nat
           /\ HeaderSize(b1) = 2 + LenField(b1) + (IF Masked(b1) THEN 4 ELSE 0)
           /\ HeaderSize(b1) >= 2 + LenField(b1)
           /\ Len7(b1) \in 0 .. 127 /\ Len7(b1) \in Nat
BY BaseFacts DEF Byte, LenField, HeaderSize, Masked, Len7

\* The length field is read alike in every beginning that holds it.
LEMMA LenOnPrefix ==
    ASSUME NEW b \in Seq(Byte), NEW n \in 0 .. Len(b), n >= 2, n >= 2 + LenField(b[2])
    PROVE  /\ PayloadLen(Prefix(b, n)) = PayloadLen(b)
           /\ LenOk(Prefix(b, n)) <=> LenOk(b)
<1> DEFINE c == Prefix(b, n)
<1>1. /\ Len(b) \in Nat /\ b[2] \in Byte
      /\ c[2] = b[2]
      /\ 2 + LenField(b[2]) \in Nat /\ LenField(b[2]) \in {0, 2, 8}
      /\ SubSeq(c, 3, 2 + LenField(b[2])) = SubSeq(b, 3, 2 + LenField(b[2]))
      /\ LenField(b[2]) = 8 => c[3] = b[3]
  <2>1. Len(b) \in Nat /\ 2 \in 1 .. Len(b)
    BY LenProperties
  <2>2. b[2] \in Byte
    BY <2>1, ElementOfSeq
  <2>3. LenField(b[2]) \in {0, 2, 8}
    BY <2>2, ByteTypes
  <2>4. \A i \in 1 .. n : c[i] = b[i]
    BY PrefixFacts
  <2>5. \A i, j \in Nat : (1 <= i /\ j <= n) => SubSeq(c, i, j) = SubSeq(b, i, j)
    BY PrefixFacts
  <2> HIDE DEF c
  <2>6. 2 + LenField(b[2]) \in Nat /\ 2 + LenField(b[2]) <= n
    BY <2>3
  <2>7. SubSeq(c, 3, 2 + LenField(b[2])) = SubSeq(b, 3, 2 + LenField(b[2]))
    <3>1. 3 \in Nat /\ 1 <= 3
      OBVIOUS
    <3>. QED  BY <2>5, <2>6, <3>1
  <2>8. 2 \in 1 .. n /\ (LenField(b[2]) = 8 => 3 \in 1 .. n)
    BY <2>1
  <2>. QED  BY <2>1, <2>2, <2>3, <2>4, <2>6, <2>7, <2>8
<1> HIDE DEF c
<1>2. PayloadLen(c) = PayloadLen(b)
  BY <1>1 DEF PayloadLen
<1>3. LenOk(c) <=> LenOk(b)
  BY <1>1, <1>2 DEF LenOk
<1>. QED  BY <1>2, <1>3 DEF c

\* The two bytes that every header has.
LEMMA FirstBytes ==
    ASSUME NEW b \in Seq(Byte), Len(b) >= 2
    PROVE  Len(b) \in Nat /\ b[1] \in Byte /\ b[2] \in Byte
<1>1. Len(b) \in Nat /\ 1 \in 1 .. Len(b) /\ 2 \in 1 .. Len(b)
  BY LenProperties
<1>. QED  BY <1>1, ElementOfSeq

\* A length that is read is a number.
LEMMA FieldType ==
    ASSUME NEW b \in Seq(Byte), Len(b) >= 2, Len(b) >= 2 + LenField(b[2])
    PROVE  PayloadLen(b) \in Nat
<1>1. Len(b) \in Nat /\ b[2] \in Byte
  BY FirstBytes
<1>2. LenField(b[2]) \in {0, 2, 8} /\ Len7(b[2]) \in Nat
  BY <1>1, ByteTypes
<1>3. CASE LenField(b[2]) = 0
  BY <1>2, <1>3 DEF PayloadLen
<1>4. CASE LenField(b[2]) # 0
  <2> DEFINE d == SubSeq(b, 3, 2 + LenField(b[2]))
  <2>1. d \in Seq(Byte)
    BY <1>1, <1>2, <1>4
  <2> HIDE DEF d
  <2>2. d \in Seq(Nat) /\ Len(d) \in Nat
    <3>1. Len(d) \in Nat /\ \A i \in 1 .. Len(d) : d[i] \in Nat
      <4>1. Len(d) \in Nat /\ \A i \in 1 .. Len(d) : d[i] \in Byte
        BY <2>1, LenProperties, ElementOfSeq
      <4>. QED  BY <4>1, ByteIsNat
    <3>. QED  BY <2>1, <3>1
  <2>3. PICK v : Evaluates(v, d) /\ FromBe(d) = v[Len(d)]
    BY <2>2, FromBeEvaluates
  <2>4. FromBe(d) \in Nat
    BY <2>2, <2>3 DEF Evaluates
  <2>. QED  BY <1>4, <2>4 DEF PayloadLen, d
<1>. QED  BY <1>3, <1>4

\* parse_header gives one of three answers; what it takes is at least a header long.
LEMMA ParseCases ==
    ASSUME NEW b \in Seq(Byte)
    PROVE  /\ ParseHeader(b).result \in {"more", "err", "ok"}
           /\ ParseHeader(b).result = "more" => ParseHeader(b) = More
           /\ ParseHeader(b).result = "err" => ParseHeader(b) = Bad
           /\ ParseHeader(b).result = "ok" =>
                 /\ Len(b) >= 2 /\ Len(b) >= HeaderSize(b[2])
                 /\ ~Rsv(b[1]) /\ b[1] % 16 \in OpCodes
                 /\ LenOk(b)
                 /\ IsControl(b[1] % 16) => (b[1] >= 128 /\ PayloadLen(b) <= Short)
                 /\ ParseHeader(b) =
                       [result |-> "ok", fin |-> b[1] >= 128, op |-> b[1] % 16,
                        payload_len |-> PayloadLen(b),
                        mask |-> SubSeq(b, 3 + LenField(b[2]), HeaderSize(b[2])),
                        size |-> HeaderSize(b[2])]
<1>1. CASE Len(b) < 2
  BY <1>1 DEF ParseHeader, More
<1>2. CASE Len(b) >= 2 /\ (Rsv(b[1]) \/ b[1] % 16 \notin OpCodes)
  BY <1>2, FirstBytes DEF ParseHeader, Bad
<1>3. CASE Len(b) >= 2 /\ ~Rsv(b[1]) /\ b[1] % 16 \in OpCodes
  <2>1. Len(b) \in Nat /\ b[1] \in Byte /\ b[2] \in Byte
    BY <1>3, FirstBytes
  <2>2. LenField(b[2]) \in {0, 2, 8} /\ HeaderSize(b[2]) \in Nat
    BY <2>1, ByteTypes
  <2>3. CASE Len(b) < 2 + LenField(b[2])
    BY <1>3, <2>1, <2>2, <2>3 DEF ParseHeader, More
  <2>4. CASE Len(b) >= 2 + LenField(b[2])
    <3>1. PayloadLen(b) \in Nat /\ Short \in Nat /\ b[1] \in Nat
      <4>1. PayloadLen(b) \in Nat
        BY <1>3, <2>4, FieldType
      <4>2. b[1] \in Nat
        BY <2>1, ByteIsNat
      <4>. QED  BY <4>1, <4>2, BaseFacts
    <3>. QED  BY <1>3, <2>1, <2>2, <2>4, <3>1 DEF ParseHeader, More, Bad
  <2>. QED  BY <2>1, <2>2, <2>3, <2>4
<1>. QED
  <2>1. Len(b) \in Nat
    BY LenProperties
  <2>. QED  BY <1>1, <1>2, <1>3, <2>1

\* parse_header asks for no more than the second byte says: the unreachable! of feed_one.
LEMMA ParseWhole ==
    ASSUME NEW b \in Seq(Byte), Len(b) >= 2, Len(b) >= HeaderSize(b[2])
    PROVE  ParseHeader(b).result # "more"
<1>1. Len(b) \in Nat /\ b[2] \in Byte
  BY FirstBytes
<1>2. LenField(b[2]) \in {0, 2, 8} /\ HeaderSize(b[2]) \in Nat /\ HeaderSize(b[2]) >= 2 + LenField(b[2])
  BY <1>1, ByteTypes
<1>3. Len(b) >= 2 + LenField(b[2])
  BY <1>1, <1>2
<1>. QED  BY <1>1, <1>2, <1>3 DEF ParseHeader, Bad

\* What parse_header says of some bytes, unless it wants more, it says of those and more.
LEMMA ParseStable ==
    ASSUME NEW b \in Seq(Byte), NEW n \in 0 .. Len(b), ParseHeader(Prefix(b, n)).result # "more"
    PROVE  ParseHeader(b) = ParseHeader(Prefix(b, n))
<1> DEFINE c == Prefix(b, n)
<1>1. c \in Seq(Byte) /\ Len(c) = n /\ \A i \in 1 .. n : c[i] = b[i]
  BY PrefixFacts
<1>2. \A i, j \in Nat : (1 <= i /\ j <= n) => SubSeq(c, i, j) = SubSeq(b, i, j)
  BY PrefixFacts
<1>3. n >= 2
  <2>1. SUFFICES ASSUME n < 2 PROVE ParseHeader(c) = More
    BY DEF More
  <2> HIDE DEF c
  <2>. QED  BY <1>1, <2>1 DEF ParseHeader
<1>4. Len(b) \in Nat /\ b[1] \in Byte /\ b[2] \in Byte /\ Len(b) >= 2 /\ n <= Len(b) /\ n \in Nat
  <2>1. Len(b) \in Nat /\ Len(b) >= 2
    BY <1>3, LenProperties
  <2>. QED  BY <2>1, FirstBytes
<1>5. c[1] = b[1] /\ c[2] = b[2]
  BY <1>1, <1>3
<1>6. /\ LenField(b[2]) \in {0, 2, 8} /\ HeaderSize(b[2]) \in Nat
      /\ HeaderSize(b[2]) >= 2 + LenField(b[2])
  BY <1>4, ByteTypes
<1>7. ASSUME n >= 2 + LenField(b[2])
      PROVE  PayloadLen(c) = PayloadLen(b) /\ (LenOk(c) <=> LenOk(b))
  BY <1>3, <1>7, LenOnPrefix
<1>8. ASSUME n >= HeaderSize(b[2])
      PROVE  SubSeq(c, 3 + LenField(b[2]), HeaderSize(b[2]))
             = SubSeq(b, 3 + LenField(b[2]), HeaderSize(b[2]))
  <2>1. 3 + LenField(b[2]) \in Nat /\ 1 <= 3 + LenField(b[2])
    BY <1>6
  <2>. QED  BY <1>2, <1>6, <1>8, <2>1
<1>9. ParseHeader(c).result # "more"
  OBVIOUS
<1> HIDE DEF c
<1>10. CASE Rsv(b[1]) \/ b[1] % 16 \notin OpCodes
  <2>1. ParseHeader(b) = Bad
    BY <1>4, <1>10 DEF ParseHeader
  <2>2. ParseHeader(c) = Bad
    BY <1>1, <1>3, <1>4, <1>5, <1>10 DEF ParseHeader
  <2>. QED  BY <2>1, <2>2 DEF c
<1>11. CASE ~(Rsv(b[1]) \/ b[1] % 16 \notin OpCodes)
  <2>1. n >= 2 + LenField(b[2])
    <3>1. SUFFICES ASSUME n < 2 + LenField(b[2]) PROVE ParseHeader(c) = More
      BY <1>4, <1>6, <1>9 DEF More
    <3>. QED  BY <1>1, <1>3, <1>4, <1>5, <1>6, <1>11, <3>1 DEF ParseHeader
  <2>2. PayloadLen(c) = PayloadLen(b) /\ (LenOk(c) <=> LenOk(b)) /\ Len(b) >= 2 + LenField(b[2])
    BY <1>4, <1>6, <1>7, <2>1
  <2>3. CASE ~LenOk(b) \/ (IsControl(b[1] % 16) /\ (b[1] < 128 \/ PayloadLen(b) > Short))
    <3>1. ParseHeader(b) = Bad
      BY <1>4, <1>6, <1>11, <2>2, <2>3 DEF ParseHeader
    <3>2. ParseHeader(c) = Bad
      BY <1>1, <1>3, <1>4, <1>5, <1>6, <1>11, <2>1, <2>2, <2>3 DEF ParseHeader
    <3>. QED  BY <3>1, <3>2 DEF c
  <2>4. CASE ~(~LenOk(b) \/ (IsControl(b[1] % 16) /\ (b[1] < 128 \/ PayloadLen(b) > Short)))
    <3>1. n >= HeaderSize(b[2])
      <4>1. SUFFICES ASSUME n < HeaderSize(b[2]) PROVE ParseHeader(c) = More
        BY <1>4, <1>6, <1>9 DEF More
      <4>. QED  BY <1>1, <1>3, <1>4, <1>5, <1>6, <1>11, <2>1, <2>2, <2>4, <4>1 DEF ParseHeader
    <3>2. Len(b) >= HeaderSize(b[2])
      BY <1>4, <1>6, <3>1
    <3> DEFINE ok == [result |-> "ok", fin |-> b[1] >= 128, op |-> b[1] % 16,
                      payload_len |-> PayloadLen(b),
                      mask |-> SubSeq(b, 3 + LenField(b[2]), HeaderSize(b[2])),
                      size |-> HeaderSize(b[2])]
    <3>3. ParseHeader(b) = ok
      BY <1>4, <1>6, <1>11, <2>2, <2>4, <3>2 DEF ParseHeader
    <3>4. ParseHeader(c) = ok
      <4>1. SubSeq(c, 3 + LenField(c[2]), HeaderSize(c[2]))
            = SubSeq(b, 3 + LenField(b[2]), HeaderSize(b[2]))
        BY <1>5, <1>8, <3>1
      <4>2. ~(n < 2) /\ ~(n < 2 + LenField(c[2])) /\ ~(n < HeaderSize(c[2]))
        BY <1>3, <1>4, <1>5, <1>6, <2>1, <3>1
      <4>. QED  BY <1>1, <1>5, <1>11, <2>2, <2>4, <4>1, <4>2 DEF ParseHeader
    <3>. QED  BY <3>3, <3>4 DEF c
  <2>. QED  BY <2>3, <2>4
<1>. QED  BY <1>10, <1>11 DEF c

\* So does parse_server_data_header_fast.
LEMMA FastStable ==
    ASSUME NEW b \in Seq(Byte), NEW n \in 0 .. Len(b), FastHeader(Prefix(b, n)).result # "more"
    PROVE  FastHeader(b) = FastHeader(Prefix(b, n))
<1> DEFINE c == Prefix(b, n)
<1>1. c \in Seq(Byte) /\ Len(c) = n /\ \A i \in 1 .. n : c[i] = b[i]
  BY PrefixFacts
<1>3. n >= 2
  <2>1. SUFFICES ASSUME n < 2 PROVE FastHeader(c) = More
    BY DEF More
  <2> HIDE DEF c
  <2>. QED  BY <1>1, <2>1 DEF FastHeader
<1>4. Len(b) \in Nat /\ b[1] \in Byte /\ b[2] \in Byte /\ Len(b) >= 2 /\ n <= Len(b) /\ n \in Nat
  <2>1. Len(b) \in Nat /\ Len(b) >= 2
    BY <1>3, LenProperties
  <2>. QED  BY <2>1, FirstBytes
<1>5. c[1] = b[1] /\ c[2] = b[2]
  BY <1>1, <1>3
<1>6. /\ LenField(b[2]) \in {0, 2, 8} /\ HeaderSize(b[2]) \in Nat
      /\ HeaderSize(b[2]) >= 2 + LenField(b[2])
  BY <1>4, ByteTypes
<1>7. ASSUME n >= 2 + LenField(b[2])
      PROVE  PayloadLen(c) = PayloadLen(b) /\ (LenOk(c) <=> LenOk(b))
  BY <1>3, <1>7, LenOnPrefix
<1>9. FastHeader(c).result # "more"
  OBVIOUS
<1> HIDE DEF c
<1> DEFINE early == \/ Rsv(b[1]) \/ Masked(b[2]) \/ b[1] < 128
                    \/ b[1] % 16 \in OpCodes \ {Text, Binary} \/ b[1] % 16 \notin OpCodes
                    \/ LenField(b[2]) = 8
<1> DEFINE answer == IF Rsv(b[1]) \/ Masked(b[2]) THEN Bad
                     ELSE IF b[1] < 128 \/ b[1] % 16 \in OpCodes \ {Text, Binary}
                     THEN [result |-> "fallback"]
                     ELSE IF b[1] % 16 \notin OpCodes THEN Bad ELSE [result |-> "fallback"]
<1>10. CASE early
  <2>1. FastHeader(b) = answer
    BY <1>4, <1>10 DEF FastHeader
  <2>2. FastHeader(c) = answer
    BY <1>1, <1>3, <1>4, <1>5, <1>10 DEF FastHeader
  <2>. QED  BY <2>1, <2>2 DEF c
<1>11. CASE ~early
  <2>1. n >= 2 + LenField(b[2])
    <3>1. SUFFICES ASSUME n < 2 + LenField(b[2]) PROVE FastHeader(c) = More
      BY <1>4, <1>6, <1>9 DEF More
    <3>. QED  BY <1>1, <1>3, <1>4, <1>5, <1>6, <1>11, <3>1 DEF FastHeader
  <2>2. PayloadLen(c) = PayloadLen(b) /\ (LenOk(c) <=> LenOk(b)) /\ Len(b) >= 2 + LenField(b[2])
    BY <1>4, <1>6, <1>7, <2>1
  <2> DEFINE full == IF ~LenOk(b) THEN Bad
                     ELSE [result |-> "ok", op |-> b[1] % 16, payload_len |-> PayloadLen(b),
                           size |-> HeaderSize(b[2])]
  <2>3. FastHeader(b) = full
    BY <1>4, <1>6, <1>11, <2>2 DEF FastHeader
  <2>4. FastHeader(c) = full
    BY <1>1, <1>3, <1>4, <1>5, <1>6, <1>11, <2>1, <2>2 DEF FastHeader
  <2>. QED  BY <2>3, <2>4 DEF c
<1>. QED  BY <1>10, <1>11 DEF c

\* What the streaming parser reads in a header, if it has gathered one.
LEMMA StreamIs ==
    ASSUME NEW b \in Seq(Byte)
    PROVE  /\ (Len(b) < 2 \/ Len(b) < HeaderSize(b[2])) => StreamHeader(b) = More
           /\ ~(Len(b) < 2 \/ Len(b) < HeaderSize(b[2])) =>
                 /\ ParseHeader(b).result \in {"ok", "err"}
                 /\ StreamHeader(b) = IF ParseHeader(b).result = "ok" /\ ParseHeader(b).mask # <<>>
                                      THEN Bad ELSE ParseHeader(b)
<1>1. CASE Len(b) < 2 \/ Len(b) < HeaderSize(b[2])
  BY <1>1 DEF StreamHeader
<1>2. CASE ~(Len(b) < 2 \/ Len(b) < HeaderSize(b[2]))
  <2>1. Len(b) \in Nat /\ Len(b) >= 2
    BY <1>2, LenProperties
  <2>2. b[2] \in Byte
    BY <2>1, FirstBytes
  <2>3. HeaderSize(b[2]) \in Nat /\ HeaderSize(b[2]) >= 2
    BY <2>2, ByteTypes
  <2> DEFINE n == HeaderSize(b[2])
             c == Prefix(b, n)
  <2>4. n \in 0 .. Len(b) /\ n >= 2
    BY <1>2, <2>1, <2>3
  <2> HIDE DEF n
  <2>5. c \in Seq(Byte) /\ Len(c) = n /\ c[2] = b[2]
    BY <2>4, PrefixFacts
  <2>6. ParseHeader(c).result # "more"
    <3> HIDE DEF c
    <3>. QED  BY <2>4, <2>5, ParseWhole DEF n
  <2>7. ParseHeader(b) = ParseHeader(c)
    BY <2>4, <2>6, ParseStable
  <2>8. StreamHeader(b) = IF ParseHeader(c).result = "more" THEN [result |-> "unreachable"]
                          ELSE IF ParseHeader(c).result = "ok" /\ ParseHeader(c).mask # <<>>
                          THEN Bad ELSE ParseHeader(c)
    BY <1>2 DEF StreamHeader, n, c
  <2>9. ParseHeader(b).result \in {"more", "ok", "err"}
    BY ParseCases
  <2> HIDE DEF c
  <2>. QED  BY <1>2, <2>6, <2>7, <2>8, <2>9
<1>. QED  BY <1>1, <1>2

\* There is a key if the mask bit says so.
LEMMA MaskField ==
    ASSUME NEW b \in Seq(Byte), Len(b) >= 2, Len(b) >= HeaderSize(b[2])
    PROVE  SubSeq(b, 3 + LenField(b[2]), HeaderSize(b[2])) = <<>> <=> ~Masked(b[2])
<1>1. Len(b) \in Nat /\ b[2] \in Byte
  BY FirstBytes
<1>2. /\ LenField(b[2]) \in {0, 2, 8} /\ HeaderSize(b[2]) \in Nat
      /\ HeaderSize(b[2]) = 2 + LenField(b[2]) + (IF Masked(b[2]) THEN 4 ELSE 0)
  BY <1>1, ByteTypes
<1> DEFINE l == LenField(b[2])
           h == HeaderSize(b[2])
           m == SubSeq(b, 3 + l, h)
<1> HIDE DEF l, h
<1>3. l \in {0, 2, 8} /\ h \in Nat /\ h = 2 + l + (IF Masked(b[2]) THEN 4 ELSE 0) /\ h <= Len(b)
  BY <1>1, <1>2 DEF l, h
<1>4. Len(m) = h - l - 2 /\ m \in Seq(Byte)
  BY <1>1, <1>3
<1>5. m = <<>> <=> Len(m) = 0
  <2> HIDE DEF m
  <2>. QED  BY <1>4, EmptySeq
<1>6. m = <<>> <=> ~Masked(b[2])
  BY <1>3, <1>4, <1>5
<1>. QED  BY <1>6 DEF m, l, h

\* parse_server_data_header_fast on a complete length field, and on none.
LEMMA FastCases ==
    ASSUME NEW b \in Seq(Byte)
    PROVE  /\ FastHeader(b).result \in {"more", "err", "ok", "fallback"}
           /\ FastHeader(b).result = "ok" =>
                 /\ Len(b) >= 2 /\ ~Rsv(b[1]) /\ ~Masked(b[2]) /\ b[1] >= 128
                 /\ b[1] % 16 \in {Text, Binary}
                 /\ LenField(b[2]) # 8 /\ Len(b) >= 2 + LenField(b[2]) /\ LenOk(b)
                 /\ FastHeader(b) = [result |-> "ok", op |-> b[1] % 16, payload_len |-> PayloadLen(b),
                                     size |-> HeaderSize(b[2])]
           /\ FastHeader(b).result = "err" =>
                 /\ Len(b) >= 2
                 /\ \/ Rsv(b[1]) \/ Masked(b[2])
                    \/ b[1] % 16 \notin OpCodes
                    \/ Len(b) >= 2 + LenField(b[2]) /\ ~LenOk(b)
           /\ (/\ Len(b) >= 2 /\ ~Rsv(b[1]) /\ ~Masked(b[2]) /\ b[1] >= 128
               /\ b[1] % 16 \in {Text, Binary}
               /\ LenField(b[2]) # 8 /\ Len(b) >= 2 + LenField(b[2]) /\ LenOk(b)) =>
                 FastHeader(b).result = "ok"
<1>1. CASE Len(b) < 2
  BY <1>1, LenProperties DEF FastHeader, More
<1>2. CASE Len(b) >= 2
  <2>1. Len(b) \in Nat /\ b[1] \in Byte /\ b[2] \in Byte
    BY <1>2, FirstBytes
  <2>2. LenField(b[2]) \in {0, 2, 8} /\ b[1] \in Nat
    BY <2>1, ByteTypes, ByteIsNat
  <2>3. {Text, Binary} \subseteq OpCodes
    BY DEF OpCodes
  <2>. QED  BY <1>2, <2>1, <2>2, <2>3 DEF FastHeader, More, Bad
<1>3. Len(b) \in Nat
  BY LenProperties
<1>. QED  BY <1>1, <1>2, <1>3

\* Text and Binary are opcodes, and not of control frames.
LEMMA DataOps == \A op \in {Text, Binary} : op \in OpCodes /\ ~IsControl(op)
BY DEF OpCodes, IsControl, Text, Binary, Close, Ping, Pong, Continuation

\* The fields of what parse_header takes.
LEMMA ParseFields ==
    ASSUME NEW b \in Seq(Byte), ParseHeader(b).result = "ok"
    PROVE  /\ Len(b) >= 2 /\ Len(b) >= HeaderSize(b[2])
           /\ ~Rsv(b[1]) /\ b[1] % 16 \in OpCodes
           /\ LenOk(b)
           /\ IsControl(b[1] % 16) => (b[1] >= 128 /\ PayloadLen(b) <= Short)
           /\ ParseHeader(b).fin = (b[1] >= 128)
           /\ ParseHeader(b).op = b[1] % 16
           /\ ParseHeader(b).payload_len = PayloadLen(b)
           /\ ParseHeader(b).mask = SubSeq(b, 3 + LenField(b[2]), HeaderSize(b[2]))
           /\ ParseHeader(b).size = HeaderSize(b[2])
<1> DEFINE v == b[1] >= 128
           m == SubSeq(b, 3 + LenField(b[2]), HeaderSize(b[2]))
<1>1. /\ Len(b) >= 2 /\ Len(b) >= HeaderSize(b[2])
      /\ ~Rsv(b[1]) /\ b[1] % 16 \in OpCodes
      /\ LenOk(b)
      /\ IsControl(b[1] % 16) => (b[1] >= 128 /\ PayloadLen(b) <= Short)
  BY ParseCases
<1>2. ParseHeader(b) = [result |-> "ok", fin |-> v, op |-> b[1] % 16,
                        payload_len |-> PayloadLen(b), mask |-> m, size |-> HeaderSize(b[2])]
  BY ParseCases
<1> HIDE DEF v, m
<1>3. /\ ParseHeader(b).fin = v
      /\ ParseHeader(b).op = b[1] % 16
      /\ ParseHeader(b).payload_len = PayloadLen(b)
      /\ ParseHeader(b).mask = m
      /\ ParseHeader(b).size = HeaderSize(b[2])
  BY <1>2
<1>. QED  BY <1>1, <1>3 DEF v, m

\* The fast way takes only what the streaming parser takes, and takes it alike.
LEMMA FastTakes ==
    ASSUME NEW b \in Seq(Byte), FastHeader(b).result = "ok"
    PROVE  /\ StreamHeader(b).result = "ok" /\ StreamHeader(b).fin
           /\ StreamHeader(b).op = FastHeader(b).op
           /\ StreamHeader(b).payload_len = FastHeader(b).payload_len
           /\ StreamHeader(b).size = FastHeader(b).size
<1>1. /\ Len(b) >= 2 /\ ~Rsv(b[1]) /\ ~Masked(b[2]) /\ b[1] >= 128
      /\ b[1] % 16 \in {Text, Binary}
      /\ LenField(b[2]) # 8 /\ Len(b) >= 2 + LenField(b[2]) /\ LenOk(b)
      /\ FastHeader(b) = [result |-> "ok", op |-> b[1] % 16, payload_len |-> PayloadLen(b),
                          size |-> HeaderSize(b[2])]
  BY FastCases
<1>2. Len(b) \in Nat /\ b[2] \in Byte
  BY <1>1, FirstBytes
<1>3. LenField(b[2]) \in {0, 2, 8} /\ HeaderSize(b[2]) = 2 + LenField(b[2]) /\ HeaderSize(b[2]) \in Nat
  BY <1>1, <1>2, ByteTypes
<1>4. b[1] % 16 \in OpCodes /\ ~IsControl(b[1] % 16)
  BY <1>1, DataOps
<1>5. ParseHeader(b) = [result |-> "ok", fin |-> b[1] >= 128, op |-> b[1] % 16,
                        payload_len |-> PayloadLen(b),
                        mask |-> SubSeq(b, 3 + LenField(b[2]), HeaderSize(b[2])),
                        size |-> HeaderSize(b[2])]
  <2>1. ~(Len(b) < 2) /\ ~(Len(b) < 2 + LenField(b[2])) /\ ~(Len(b) < HeaderSize(b[2]))
    BY <1>1, <1>2, <1>3
  <2>. QED  BY <1>1, <1>4, <2>1 DEF ParseHeader
<1>6. SubSeq(b, 3 + LenField(b[2]), HeaderSize(b[2])) = <<>>
  BY <1>1, <1>3, MaskField
<1>7. ~(Len(b) < 2 \/ Len(b) < HeaderSize(b[2]))
  BY <1>1, <1>2, <1>3
<1>8. ParseHeader(b).mask = <<>>
  BY <1>5, <1>6
<1>9. StreamHeader(b) = ParseHeader(b)
  <2> HIDE DEF Bad
  <2>. QED  BY <1>7, <1>8, StreamIs
<1>10. ParseHeader(b).result = "ok"
  BY <1>5
<1>11. /\ ParseHeader(b).fin = (b[1] >= 128)
       /\ ParseHeader(b).op = b[1] % 16
       /\ ParseHeader(b).payload_len = PayloadLen(b)
       /\ ParseHeader(b).size = HeaderSize(b[2])
  BY <1>10, ParseFields
<1>12. /\ FastHeader(b).op = b[1] % 16
       /\ FastHeader(b).payload_len = PayloadLen(b)
       /\ FastHeader(b).size = HeaderSize(b[2])
  BY <1>1
<1>. QED  BY <1>1, <1>9, <1>10, <1>11, <1>12

\* What it refuses, the streaming parser refuses or waits for.
LEMMA FastRefuses ==
    ASSUME NEW b \in Seq(Byte), FastHeader(b).result = "err"
    PROVE  StreamHeader(b).result \in {"more", "err"}
<1>1. /\ Len(b) >= 2
      /\ \/ Rsv(b[1]) \/ Masked(b[2])
         \/ b[1] % 16 \notin OpCodes
         \/ Len(b) >= 2 + LenField(b[2]) /\ ~LenOk(b)
  BY FastCases
<1>2. SUFFICES ASSUME ~(Len(b) < 2 \/ Len(b) < HeaderSize(b[2])), ParseHeader(b).result = "ok"
               PROVE  ParseHeader(b).mask # <<>>
  BY StreamIs DEF More, Bad
<1>3. /\ ~Rsv(b[1]) /\ b[1] % 16 \in OpCodes /\ LenOk(b)
      /\ Len(b) >= 2 /\ Len(b) >= HeaderSize(b[2])
      /\ ParseHeader(b).mask = SubSeq(b, 3 + LenField(b[2]), HeaderSize(b[2]))
  BY <1>2, ParseCases
<1>4. Masked(b[2])
  BY <1>1, <1>3
<1>. QED  BY <1>3, <1>4, MaskField

\* It takes every unfragmented data frame with a short length field.
LEMMA FastComplete ==
    ASSUME NEW b \in Seq(Byte), StreamHeader(b).result = "ok", StreamHeader(b).fin,
           StreamHeader(b).op \in {Text, Binary}, StreamHeader(b).size < 10
    PROVE  FastHeader(b).result = "ok"
<1>1. ~(Len(b) < 2 \/ Len(b) < HeaderSize(b[2]))
  BY StreamIs DEF More
<1>2. StreamHeader(b) = ParseHeader(b) /\ ParseHeader(b).result = "ok" /\ ParseHeader(b).mask = <<>>
  BY <1>1, StreamIs DEF Bad
<1>3. /\ Len(b) >= 2 /\ Len(b) >= HeaderSize(b[2])
      /\ ~Rsv(b[1]) /\ b[1] % 16 \in OpCodes
      /\ LenOk(b)
      /\ ParseHeader(b).fin = (b[1] >= 128)
      /\ ParseHeader(b).op = b[1] % 16
      /\ ParseHeader(b).mask = SubSeq(b, 3 + LenField(b[2]), HeaderSize(b[2]))
      /\ ParseHeader(b).size = HeaderSize(b[2])
  BY <1>2, ParseFields
<1>4. /\ b[1] >= 128 /\ b[1] % 16 \in {Text, Binary} /\ HeaderSize(b[2]) < 10
      /\ SubSeq(b, 3 + LenField(b[2]), HeaderSize(b[2])) = <<>>
  <2>1. ParseHeader(b).fin /\ ParseHeader(b).op \in {Text, Binary} /\ ParseHeader(b).size < 10
    BY <1>2
  <2>. QED  BY <1>2, <1>3, <2>1
<1>5. ~Masked(b[2])
  BY <1>3, <1>4, MaskField
<1>6. Len(b) \in Nat /\ b[2] \in Byte
  BY <1>3, FirstBytes
<1>7. /\ LenField(b[2]) \in {0, 2, 8} /\ HeaderSize(b[2]) \in Nat
      /\ HeaderSize(b[2]) >= 2 + LenField(b[2])
  BY <1>6, ByteTypes
<1>8. LenField(b[2]) # 8 /\ Len(b) >= 2 + LenField(b[2])
  BY <1>3, <1>4, <1>6, <1>7
<1>. QED  BY <1>3, <1>4, <1>5, <1>8, FastCases

\* The streaming parser takes what parse_header takes, if it is not masked.
LEMMA StreamTakes ==
    ASSUME NEW b \in Seq(Byte)
    PROVE  /\ StreamHeader(b).result # "unreachable"
           /\ (StreamHeader(b).result = "ok") = (ParseHeader(b).result = "ok" /\ ParseHeader(b).mask = <<>>)
<1>1. CASE Len(b) < 2 \/ Len(b) < HeaderSize(b[2])
  <2>1. StreamHeader(b) = More
    BY <1>1, StreamIs
  <2>2. ParseHeader(b).result # "ok"
    <3>1. SUFFICES ASSUME ParseHeader(b).result = "ok" PROVE FALSE
      OBVIOUS
    <3>2. Len(b) >= 2 /\ Len(b) >= HeaderSize(b[2])
      BY <3>1, ParseCases
    <3>3. Len(b) \in Nat /\ b[2] \in Byte
      BY <3>2, FirstBytes
    <3>4. HeaderSize(b[2]) \in Nat
      BY <3>3, ByteTypes
    <3>. QED  BY <1>1, <3>2, <3>3, <3>4
  <2>. QED  BY <2>1, <2>2 DEF More
<1>2. CASE ~(Len(b) < 2 \/ Len(b) < HeaderSize(b[2]))
  BY <1>2, StreamIs DEF Bad
<1>. QED  BY <1>1, <1>2

-----------------------------------------------------------------------------
(* Writing a header.                                                      *)

\* A header as a sequence: two bytes, a length field and a mask.
LEMMA Parts ==
    ASSUME NEW S, NEW x \in S, NEW y \in S, NEW t \in Seq(S), NEW m \in Seq(S)
    PROVE  LET e == <<x>> \o (<<y>> \o t) \o m
           IN  /\ e \in Seq(S)
               /\ Len(e) = 2 + Len(t) + Len(m)
               /\ e[1] = x /\ e[2] = y
               /\ \A i \in 1 .. Len(t) : e[2 + i] = t[i]
               /\ \A i \in 1 .. Len(m) : e[2 + Len(t) + i] = m[i]
               /\ SubSeq(e, 3, 2 + Len(t)) = t
               /\ SubSeq(e, 3 + Len(t), Len(e)) = m
<1> DEFINE u == <<y>> \o t
           v == <<x>> \o u
           e == v \o m
<1>0. <<x>> \in Seq(S) /\ <<y>> \in Seq(S) /\ Len(<<x>>) = 1 /\ Len(<<y>>) = 1 /\ <<x>>[1] = x /\ <<y>>[1] = y
  BY Single
<1>1. /\ u \in Seq(S) /\ Len(u) = 1 + Len(t) /\ Len(t) \in Nat
      /\ u[1] = y /\ \A i \in 1 .. Len(t) : u[1 + i] = t[i]
  <2> DEFINE w == <<y>>
  <2>1. w \in Seq(S) /\ Len(w) = 1 /\ w[1] = y
    BY <1>0
  <2> HIDE DEF w
  <2>2. /\ w \o t \in Seq(S) /\ Len(t) \in Nat /\ Len(w \o t) = 1 + Len(t)
        /\ (w \o t)[1] = y /\ \A i \in 1 .. Len(t) : (w \o t)[1 + i] = t[i]
    <3>1. /\ w \o t \in Seq(S) /\ Len(t) \in Nat /\ Len(w \o t) = Len(w) + Len(t)
          /\ \A i \in 1 .. Len(w) : (w \o t)[i] = w[i]
          /\ \A i \in 1 .. Len(t) : (w \o t)[Len(w) + i] = t[i]
      <4>1. w \in Seq(S)
        BY <2>1
      <4>. QED  BY <4>1, Cat
    <3>2. 1 \in 1 .. Len(w)
      BY <2>1
    <3>. QED  BY <2>1, <3>1, <3>2
  <2>. QED  BY <2>2 DEF w
<1> HIDE DEF u
<1>2. /\ v \in Seq(S) /\ Len(v) = 2 + Len(t)
      /\ v[1] = x /\ v[2] = y /\ \A i \in 1 .. Len(t) : v[2 + i] = t[i]
  <2> DEFINE w == <<x>>
  <2>1. w \in Seq(S) /\ Len(w) = 1 /\ w[1] = x
    BY <1>0
  <2> HIDE DEF w
  <2>2. /\ w \o u \in Seq(S) /\ Len(w \o u) = 1 + Len(u)
        /\ (w \o u)[1] = x /\ \A i \in 1 .. Len(u) : (w \o u)[1 + i] = u[i]
    <3>1. /\ w \o u \in Seq(S) /\ Len(w \o u) = Len(w) + Len(u)
          /\ \A i \in 1 .. Len(w) : (w \o u)[i] = w[i]
          /\ \A i \in 1 .. Len(u) : (w \o u)[Len(w) + i] = u[i]
      <4>1. w \in Seq(S) /\ u \in Seq(S)
        BY <1>1, <2>1
      <4>. QED  BY <4>1, Cat
    <3>2. 1 \in 1 .. Len(w)
      BY <2>1
    <3>. QED  BY <2>1, <3>1, <3>2
  <2>3. (w \o u)[2] = y
    <3>1. 1 \in 1 .. Len(u) /\ 1 + 1 = 2
      BY <1>1
    <3>. QED  BY <1>1, <2>2, <3>1
  <2>4. \A i \in 1 .. Len(t) : (w \o u)[2 + i] = t[i]
    <3> SUFFICES ASSUME NEW i \in 1 .. Len(t) PROVE (w \o u)[2 + i] = t[i]
      OBVIOUS
    <3>1. 1 + i \in 1 .. Len(u) /\ 1 + (1 + i) = 2 + i
      BY <1>1
    <3>2. (w \o u)[1 + (1 + i)] = u[1 + i]
      BY <2>2, <3>1
    <3>. QED  BY <1>1, <3>1, <3>2
  <2>. QED  BY <1>1, <2>2, <2>3, <2>4 DEF w
<1> HIDE DEF v
<1>3. /\ e \in Seq(S) /\ Len(m) \in Nat /\ Len(e) = 2 + Len(t) + Len(m)
      /\ \A i \in 1 .. Len(v) : e[i] = v[i]
      /\ \A i \in 1 .. Len(m) : e[Len(v) + i] = m[i]
  <2>1. /\ e \in Seq(S) /\ Len(m) \in Nat /\ Len(e) = Len(v) + Len(m)
        /\ \A i \in 1 .. Len(v) : e[i] = v[i]
        /\ \A i \in 1 .. Len(m) : e[Len(v) + i] = m[i]
    <3>1. v \in Seq(S)
      BY <1>2
    <3>. QED  BY <3>1, Cat
  <2> HIDE DEF e
  <2>. QED  BY <1>2, <2>1
<1>4. /\ e[1] = x /\ e[2] = y
      /\ \A i \in 1 .. Len(t) : e[2 + i] = t[i]
      /\ \A i \in 1 .. Len(m) : e[2 + Len(t) + i] = m[i]
  <2>1. 1 \in 1 .. Len(v) /\ 2 \in 1 .. Len(v) /\ \A i \in 1 .. Len(t) : 2 + i \in 1 .. Len(v)
    BY <1>1, <1>2
  <2>. QED  BY <1>2, <1>3, <2>1
<1> HIDE DEF e
<1>5. SubSeq(e, 3, 2 + Len(t)) = t
  <2> DEFINE z == SubSeq(e, 3, 2 + Len(t))
  <2>1. /\ z \in Seq(S) /\ Len(z) = Len(t)
        /\ \A i \in 1 .. Len(t) : z[i] = e[3 + i - 1]
    BY <1>1, <1>3
  <2>2. \A i \in 1 .. Len(t) : 3 + i - 1 = 2 + i
    BY <1>1
  <2> HIDE DEF z
  <2>3. \A i \in 1 .. Len(z) : z[i] = t[i]
    BY <1>4, <2>1, <2>2
  <2>4. z = t
    BY <2>1, <2>3, SeqEqual
  <2>. QED  BY <2>4 DEF z
<1>6. SubSeq(e, 3 + Len(t), Len(e)) = m
  <2> DEFINE z == SubSeq(e, 3 + Len(t), Len(e))
  <2>1. /\ z \in Seq(S) /\ Len(z) = Len(m)
        /\ \A i \in 1 .. Len(m) : z[i] = e[3 + Len(t) + i - 1]
    BY <1>1, <1>3
  <2>2. \A i \in 1 .. Len(m) : 3 + Len(t) + i - 1 = 2 + Len(t) + i
    BY <1>1, <1>3
  <2> HIDE DEF z
  <2>3. \A i \in 1 .. Len(z) : z[i] = m[i]
    BY <1>4, <2>1, <2>2
  <2>4. z = m
    BY <2>1, <2>3, SeqEqual
  <2>. QED  BY <2>4 DEF z
<1>. QED  BY <1>3, <1>4, <1>5, <1>6 DEF e, v, u

\* Every prefix of at least two elements is such a sequence.
LEMMA PartsOf ==
    ASSUME NEW S, NEW b \in Seq(S), NEW l \in Nat, NEW h \in Nat, 2 + l <= h, h <= Len(b)
    PROVE  LET e == <<b[1]>> \o (<<b[2]>> \o SubSeq(b, 3, 2 + l)) \o SubSeq(b, 3 + l, h)
           IN  e \in Seq(S) /\ Len(e) = h /\ Prefix(b, h) = e
<1> DEFINE t == SubSeq(b, 3, 2 + l)
           m == SubSeq(b, 3 + l, h)
           x == b[1]
           y == b[2]
<1>1. Len(b) \in Nat
  BY LenProperties
<1>2. x \in S /\ y \in S
  <2>1. 1 \in 1 .. Len(b) /\ 2 \in 1 .. Len(b)
    BY <1>1
  <2>. QED  BY <2>1, ElementOfSeq
<1>3. /\ t \in Seq(S) /\ Len(t) = l /\ \A i \in 1 .. l : t[i] = b[2 + i]
  <2>1. t \in Seq(S) /\ Len(t) = l /\ \A i \in 1 .. l : t[i] = b[3 + i - 1]
    BY <1>1
  <2>2. \A i \in 1 .. l : 3 + i - 1 = 2 + i
    OBVIOUS
  <2> HIDE DEF t
  <2>. QED  BY <2>1, <2>2
<1>4. /\ m \in Seq(S) /\ Len(m) = h - l - 2 /\ \A i \in 1 .. h - l - 2 : m[i] = b[2 + l + i]
  <2>1. m \in Seq(S) /\ Len(m) = h - l - 2 /\ \A i \in 1 .. h - l - 2 : m[i] = b[3 + l + i - 1]
    BY <1>1
  <2>2. \A i \in 1 .. h - l - 2 : 3 + l + i - 1 = 2 + l + i
    OBVIOUS
  <2> HIDE DEF m
  <2>. QED  BY <2>1, <2>2
<1> HIDE DEF t, m, x, y
<1> DEFINE e == <<x>> \o (<<y>> \o t) \o m
<1>5. /\ e \in Seq(S)
      /\ Len(e) = 2 + Len(t) + Len(m)
      /\ e[1] = x /\ e[2] = y
      /\ \A i \in 1 .. Len(t) : e[2 + i] = t[i]
      /\ \A i \in 1 .. Len(m) : e[2 + Len(t) + i] = m[i]
  <2>1. t \in Seq(S) /\ m \in Seq(S)
    BY <1>3, <1>4
  <2>. QED  BY <1>2, <2>1, Parts
<1> HIDE DEF e
<1>6. Len(e) = h
  BY <1>3, <1>4, <1>5
<1>7. h \in 0 .. Len(b)
  BY <1>1
<1>8. /\ Prefix(b, h) \in Seq(S) /\ Len(Prefix(b, h)) = h /\ \A i \in 1 .. h : Prefix(b, h)[i] = b[i]
  BY <1>7, PrefixFacts
<1>9. ASSUME NEW i \in 1 .. h PROVE e[i] = b[i]
  <2>1. CASE i = 1
    BY <1>5, <2>1 DEF x
  <2>2. CASE i = 2
    BY <1>5, <2>2 DEF y
  <2>3. CASE i > 2 /\ i <= 2 + l
    <3>1. i - 2 \in 1 .. l /\ 2 + (i - 2) = i
      BY <2>3
    <3>. QED  BY <1>3, <1>5, <3>1
  <2>4. CASE i > 2 + l
    <3>1. i - 2 - l \in 1 .. h - l - 2 /\ 2 + l + (i - 2 - l) = i
      BY <2>4
    <3>. QED  BY <1>3, <1>4, <1>5, <3>1
  <2>. QED  BY <2>1, <2>2, <2>3, <2>4
<1>10. Prefix(b, h) = e
  <2> DEFINE z == Prefix(b, h)
  <2> HIDE DEF z
  <2>1. z \in Seq(S) /\ Len(z) = Len(e) /\ \A i \in 1 .. Len(z) : z[i] = e[i]
    BY <1>6, <1>8, <1>9 DEF z
  <2>2. z = e
    BY <1>5, <2>1, SeqEqual
  <2>. QED  BY <2>2 DEF z
<1>. QED  BY <1>5, <1>6, <1>10 DEF e, x, y, t, m

\* No key, or 4 bytes
Keys == {<<>>} \cup [1 .. 4 -> Byte]

\* A function on 1 .. k is a sequence.
LEMMA FunctionIsSeq ==
    ASSUME NEW S, NEW k \in Nat, NEW f \in [1 .. k -> S]
    PROVE  f \in Seq(S) /\ Len(f) = k
OBVIOUS

\* A key is a sequence of 4 bytes, or of none.
LEMMA KeyFacts ==
    ASSUME NEW key \in Keys
    PROVE  key \in Seq(Byte) /\ Len(key) \in {0, 4} /\ (key = <<>> <=> Len(key) = 0)
<1>1. CASE key = <<>>
  BY <1>1, EmptySeq
<1>2. CASE key \in [1 .. 4 -> Byte]
  <2>1. key \in Seq(Byte) /\ Len(key) = 4
    BY <1>2, FunctionIsSeq
  <2>2. key # <<>>
    BY <2>1, EmptySeq
  <2>. QED  BY <2>1, <2>2
<1>. QED  BY <1>1, <1>2 DEF Keys

\* How a length is encoded.
FieldOf(n) == IF n <= Short THEN <<>> ELSE IF n < Base * Base THEN ToBe(n, 2) ELSE ToBe(n, 8)
\* The second byte of a header
Second(key, n) ==
    (IF key = <<>> THEN 0 ELSE 128)
    + (IF n <= Short THEN n ELSE IF n < Base * Base THEN Short + 1 ELSE Short + 2)
\* The first byte of a header
First(fin, op) == IF fin THEN 128 + op ELSE op

\* The parts of the header that encode_header writes.
LEMMA EncodeIs ==
    ASSUME NEW fin \in BOOLEAN, NEW op \in OpCodes, NEW key \in Keys, NEW n \in Nat
    PROVE  /\ First(fin, op) \in Byte /\ Second(key, n) \in Byte
           /\ FieldOf(n) \in Seq(Byte)
           /\ EncodeHeader(fin, op, key, n)
              = <<First(fin, op)>> \o (<<Second(key, n)>> \o FieldOf(n)) \o key
<1>1. First(fin, op) \in Byte
  BY DEF First, Byte, OpCodes, Continuation, Text, Binary, Close, Ping, Pong
<1>2. Second(key, n) \in Byte
  BY WireAssumption DEF Second, Byte
<1>3. FieldOf(n) \in Seq(Byte)
  <2>1. \A k \in Nat : ToBe(n, k) \in Seq(0 .. Base - 1)
    BY ToBeType
  <2>2. \A x \in 0 .. Base - 1 : x \in Byte
    BY BaseFacts DEF Byte
  <2>3. \A k \in Nat : ToBe(n, k) \in Seq(Byte)
    <3> SUFFICES ASSUME NEW k \in Nat PROVE ToBe(n, k) \in Seq(Byte)
      OBVIOUS
    <3> DEFINE t == ToBe(n, k)
    <3>1. t \in Seq(0 .. Base - 1)
      BY <2>1
    <3> HIDE DEF t
    <3>2. \A i \in 1 .. Len(t) : t[i] \in Byte
      BY <2>2, <3>1, ElementOfSeq
    <3>3. t \in Seq(Byte)
      BY <3>1, <3>2
    <3>. QED  BY <3>3 DEF t
  <2>4. <<>> \in Seq(Byte)
    BY EmptySeq
  <2>. QED  BY <2>3, <2>4 DEF FieldOf
<1>4. EncodeHeader(fin, op, key, n)
      = <<First(fin, op)>> \o (<<Second(key, n)>> \o FieldOf(n)) \o key
  <2> DEFINE bit == IF key = <<>> THEN 0 ELSE 128
             y == Second(key, n)
  <2>1. CASE n <= Short
    <3>1. EncodeHeader(fin, op, key, n) = <<First(fin, op)>> \o <<bit + n>> \o key
      BY <2>1 DEF EncodeHeader, First
    <3>2. bit + n = y /\ FieldOf(n) = <<>>
      BY <2>1 DEF Second, FieldOf
    <3>3. <<y>> \o <<>> = <<y>>
      <4> HIDE DEF y
      <4>1. <<y>> \in Seq({y})
        OBVIOUS
      <4>. QED  BY <4>1, ConcatEmptySeq
    <3>. QED  BY <3>1, <3>2, <3>3
  <2>2. CASE n > Short /\ n < Base * Base
    <3>0. ~(n <= Short)
      BY <2>2, BaseFacts
    <3>1. EncodeHeader(fin, op, key, n) = <<First(fin, op)>> \o (<<bit + Short + 1>> \o ToBe(n, 2)) \o key
      BY <2>2, <3>0 DEF EncodeHeader, First
    <3>2. bit + Short + 1 = y /\ FieldOf(n) = ToBe(n, 2)
      BY <2>2, <3>0, BaseFacts DEF Second, FieldOf
    <3>. QED  BY <3>1, <3>2
  <2>3. CASE n > Short /\ ~(n < Base * Base)
    <3>0. ~(n <= Short)
      BY <2>3, BaseFacts
    <3>1. EncodeHeader(fin, op, key, n) = <<First(fin, op)>> \o (<<bit + Short + 2>> \o ToBe(n, 8)) \o key
      BY <2>3, <3>0 DEF EncodeHeader, First
    <3>2. bit + Short + 2 = y /\ FieldOf(n) = ToBe(n, 8)
      BY <2>3, <3>0, BaseFacts DEF Second, FieldOf
    <3>. QED  BY <3>1, <3>2
  <2>. QED  BY <2>1, <2>2, <2>3, BaseFacts
<1>. QED  BY <1>1, <1>2, <1>3, <1>4

\* A length field is as long as the second byte says, which says whether a key follows.
LEMMA SecondSays ==
    ASSUME NEW key \in Keys, NEW n \in Nat
    PROVE  LET y == Second(key, n)
           IN  /\ LenField(y) = Len(FieldOf(n))
               /\ LenField(y) = IF n <= Short THEN 0 ELSE IF n < Base * Base THEN 2 ELSE 8
               /\ Masked(y) <=> key # <<>>
               /\ HeaderSize(y) = 2 + Len(FieldOf(n)) + Len(key)
               /\ n <= Short => Len7(y) = n
<1> DEFINE y == Second(key, n)
           a == IF n <= Short THEN n ELSE IF n < Base * Base THEN Short + 1 ELSE Short + 2
<1>0. Short \in Nat /\ Short <= 125
  BY WireAssumption
<1>1. a \in 0 .. 127 /\ y = (IF key = <<>> THEN 0 ELSE 128) + a
  BY <1>0 DEF Second
<1>2. Len7(y) = a /\ (Masked(y) <=> key # <<>>)
  <2> HIDE DEF a, y
  <2>. QED  BY <1>1 DEF Len7, Masked
<1>3. LenField(y) = IF n <= Short THEN 0 ELSE IF n < Base * Base THEN 2 ELSE 8
  <2> HIDE DEF y
  <2>. QED  BY <1>0, <1>2 DEF LenField
<1>4. Len(FieldOf(n)) = IF n <= Short THEN 0 ELSE IF n < Base * Base THEN 2 ELSE 8
  <2>1. Len(ToBe(n, 2)) = 2 /\ Len(ToBe(n, 8)) = 8
    BY ToBeType
  <2>2. n <= Short => FieldOf(n) = <<>>
    BY DEF FieldOf
  <2>3. (~(n <= Short) /\ n < Base * Base) => FieldOf(n) = ToBe(n, 2)
    BY DEF FieldOf
  <2>4. (~(n <= Short) /\ ~(n < Base * Base)) => FieldOf(n) = ToBe(n, 8)
    BY DEF FieldOf
  <2>. QED  BY <2>1, <2>2, <2>3, <2>4, EmptySeq
<1>5. Len(key) = IF key = <<>> THEN 0 ELSE 4
  BY KeyFacts
<1>6. HeaderSize(y) = 2 + Len(FieldOf(n)) + Len(key)
  <2> HIDE DEF y
  <2>. QED  BY <1>2, <1>3, <1>4, <1>5 DEF HeaderSize
<1>7. n <= Short => Len7(y) = n
  BY <1>2
<1> HIDE DEF y
<1>. QED  BY <1>2, <1>3, <1>4, <1>6, <1>7 DEF y

\* What the first byte of such a header says.
LEMMA FirstSays ==
    ASSUME NEW fin \in BOOLEAN, NEW op \in OpCodes
    PROVE  /\ ~Rsv(First(fin, op))
           /\ First(fin, op) % 16 = op
           /\ (First(fin, op) >= 128) = fin
BY DEF First, Rsv, OpCodes, Continuation, Text, Binary, Close, Ping, Pong

\* A number that is one digit.
LEMMA SmallMod ==
    ASSUME NEW x \in Nat, x < Base
    PROVE  x % Base = x
<1>1. Base \in Nat \ {0} /\ 0 \in Int /\ x \in 0 .. Base - 1 /\ x \in Int /\ x = Base * 0 + x
  BY BaseFacts
<1>. QED  BY <1>1, ModIs

\* What encode_header writes, its own length included.
LEMMA EncodeFacts ==
    ASSUME NEW fin \in BOOLEAN, NEW op \in OpCodes, NEW key \in Keys, NEW n \in Nat, n <= Longest
    PROVE  LET e == EncodeHeader(fin, op, key, n)
           IN  /\ e \in Seq(Byte) /\ Len(e) >= 2
               /\ e[1] = First(fin, op) /\ e[2] = Second(key, n)
               /\ HeaderSize(e[2]) = Len(e)
               /\ PayloadLen(e) = n
               /\ LenOk(e)
               /\ SubSeq(e, 3 + LenField(e[2]), HeaderSize(e[2])) = key
<1> DEFINE x == First(fin, op)
           y == Second(key, n)
           t == FieldOf(n)
           e == EncodeHeader(fin, op, key, n)
<1>1. x \in Byte /\ y \in Byte /\ t \in Seq(Byte) /\ e = <<x>> \o (<<y>> \o t) \o key
  BY EncodeIs
<1>2. key \in Seq(Byte) /\ Len(key) \in Nat /\ Len(t) \in Nat
  BY <1>1, KeyFacts, LenProperties
<1>3. /\ LenField(y) = Len(t)
      /\ LenField(y) = IF n <= Short THEN 0 ELSE IF n < Base * Base THEN 2 ELSE 8
      /\ Masked(y) <=> key # <<>>
      /\ HeaderSize(y) = 2 + Len(t) + Len(key)
      /\ n <= Short => Len7(y) = n
  BY SecondSays
<1>4. /\ (n <= Short => t = <<>>)
      /\ (~(n <= Short) /\ n < Base * Base) => t = ToBe(n, 2)
      /\ (~(n <= Short) /\ ~(n < Base * Base)) => t = ToBe(n, 8)
  BY DEF FieldOf
<1> HIDE DEF x, y, t
<1>5. /\ e \in Seq(Byte)
      /\ Len(e) = 2 + Len(t) + Len(key)
      /\ e[1] = x /\ e[2] = y
      /\ \A i \in 1 .. Len(t) : e[2 + i] = t[i]
      /\ SubSeq(e, 3, 2 + Len(t)) = t
      /\ SubSeq(e, 3 + Len(t), Len(e)) = key
  <2>1. x \in Byte /\ y \in Byte /\ t \in Seq(Byte) /\ key \in Seq(Byte)
    BY <1>1, <1>2
  <2> DEFINE f == <<x>> \o (<<y>> \o t) \o key
  <2>2. /\ f \in Seq(Byte)
        /\ Len(f) = 2 + Len(t) + Len(key)
        /\ f[1] = x /\ f[2] = y
        /\ \A i \in 1 .. Len(t) : f[2 + i] = t[i]
        /\ SubSeq(f, 3, 2 + Len(t)) = t
        /\ SubSeq(f, 3 + Len(t), Len(f)) = key
    BY <2>1, Parts
  <2>3. e = f
    BY <1>1
  <2> HIDE DEF e, f
  <2>. QED  BY <2>2, <2>3
<1> HIDE DEF e
<1>6. Len(e) >= 2 /\ HeaderSize(e[2]) = Len(e) /\ LenField(e[2]) = Len(t)
  BY <1>2, <1>3, <1>5
<1>7. SubSeq(e, 3 + LenField(e[2]), HeaderSize(e[2])) = key
  BY <1>5, <1>6
<1>8. PayloadLen(e) = n /\ LenOk(e)
  <2>1. CASE n <= Short
    <3>1. LenField(e[2]) = 0 /\ Len7(e[2]) = n
      BY <1>3, <1>5, <2>1
    <3>. QED  BY <3>1 DEF PayloadLen, LenOk
  <2>2. CASE ~(n <= Short) /\ n < Base * Base
    <3>1. LenField(e[2]) = 2 /\ t = ToBe(n, 2) /\ Len(t) = 2
      BY <1>3, <1>4, <1>5, <2>2
    <3>2. PayloadLen(e) = FromBe(t)
      <4>1. SubSeq(e, 3, 2 + LenField(e[2])) = t /\ LenField(e[2]) # 0
        BY <1>5, <1>6, <3>1
      <4>. QED  BY <4>1 DEF PayloadLen
    <3>3. Without(n, 2) = 0
      BY <2>2, TwoDigits
    <3>4. PayloadLen(e) = n
      BY <3>1, <3>2, <3>3, FromTo
    <3>5. n > Short
      BY <2>2, BaseFacts
    <3>. QED  BY <3>1, <3>4, <3>5 DEF LenOk
  <2>3. CASE ~(n <= Short) /\ ~(n < Base * Base)
    <3>1. LenField(e[2]) = 8 /\ t = ToBe(n, 8) /\ Len(t) = 8
      BY <1>3, <1>4, <1>5, <2>3
    <3>2. PayloadLen(e) = FromBe(t)
      <4>1. SubSeq(e, 3, 2 + LenField(e[2])) = t /\ LenField(e[2]) # 0
        BY <1>5, <1>6, <3>1
      <4>. QED  BY <4>1 DEF PayloadLen
    <3>3. Without(n, 8) = 0
      BY LongLengths
    <3>4. PayloadLen(e) = n
      BY <3>1, <3>2, <3>3, FromTo
    <3>5. e[3] < Base \div 2
      <4>1. e[3] = t[1]
        <5>1. 1 \in 1 .. Len(t) /\ 2 + 1 = 3
          <6>1. Len(t) = 8
            BY <3>1
          <6>. QED  BY <6>1
        <5>. QED  BY <1>5, <5>1
      <4>2. t[1] = Without(n, 7) % Base
        <5>1. 1 \in 1 .. 8 /\ 8 - 1 = 7 /\ 8 \in Nat
          OBVIOUS
        <5>2. ToBe(n, 8)[1] = Without(n, 8 - 1) % Base
          BY <5>1, ToBeType
        <5>. QED  BY <3>1, <5>1, <5>2
      <4>3. Without(n, 7) < Base \div 2 /\ Base \div 2 < Base /\ Base \div 2 \in Nat
        BY LongestLength
      <4>4. Without(n, 7) \in Nat
        BY WithoutEquations
      <4>5. Without(n, 7) < Base
        BY <4>3, <4>4, BaseFacts
      <4>6. Without(n, 7) % Base = Without(n, 7)
        BY <4>4, <4>5, SmallMod
      <4>. QED  BY <4>1, <4>2, <4>3, <4>6
    <3>6. n >= Base * Base
      BY <2>3, TwoDigits
    <3>. QED  BY <3>1, <3>4, <3>5, <3>6 DEF LenOk
  <2>. QED  BY <2>1, <2>2, <2>3
<1>. QED  BY <1>5, <1>6, <1>7, <1>8 DEF e, x, y

\* parse_header reads what encode_header writes, whatever follows.
THEOREM ParseEncoded ==
    ASSUME NEW fin \in BOOLEAN, NEW op \in OpCodes, NEW key \in Keys, NEW n \in Nat,
           Legal(fin, op, n),
           NEW b \in Seq(Byte), StartsWith(b, EncodeHeader(fin, op, key, n))
    PROVE  /\ ParseHeader(b).result = "ok"
           /\ ParseHeader(b).fin = fin
           /\ ParseHeader(b).op = op
           /\ ParseHeader(b).payload_len = n
           /\ ParseHeader(b).mask = key
           /\ ParseHeader(b).size = Len(EncodeHeader(fin, op, key, n))
<1> DEFINE e == EncodeHeader(fin, op, key, n)
<1>0. n <= Longest /\ (IsControl(op) => (fin /\ n <= Short))
  BY DEF Legal
<1>1. /\ e \in Seq(Byte) /\ Len(e) >= 2
      /\ e[1] = First(fin, op) /\ e[2] = Second(key, n)
      /\ HeaderSize(e[2]) = Len(e)
      /\ PayloadLen(e) = n
      /\ LenOk(e)
      /\ SubSeq(e, 3 + LenField(e[2]), HeaderSize(e[2])) = key
  BY <1>0, EncodeFacts
<1> HIDE DEF e
<1>2. ~Rsv(e[1]) /\ e[1] % 16 = op /\ (e[1] >= 128) = fin
  BY <1>1, FirstSays
<1>3. Len(e) \in Nat /\ e[1] \in Byte /\ e[2] \in Byte
  BY <1>1, FirstBytes
<1>4. LenField(e[2]) \in {0, 2, 8} /\ HeaderSize(e[2]) \in Nat /\ HeaderSize(e[2]) >= 2 + LenField(e[2])
  BY <1>3, ByteTypes
<1>5. /\ ~(Len(e) < 2) /\ ~(Len(e) < 2 + LenField(e[2])) /\ ~(Len(e) < HeaderSize(e[2]))
  BY <1>1, <1>3, <1>4
<1>6. ~(IsControl(e[1] % 16) /\ (e[1] < 128 \/ PayloadLen(e) > Short))
  <2>1. e[1] \in Nat /\ Short \in Nat
    BY <1>3, ByteIsNat, BaseFacts
  <2>2. ASSUME fin PROVE ~(e[1] < 128)
    <3>1. e[1] >= 128
      BY <1>2, <2>2
    <3>. QED  BY <2>1, <3>1
  <2>. QED  BY <1>0, <1>1, <1>2, <2>1, <2>2
<1>7. ParseHeader(e).result = "ok"
  BY <1>1, <1>2, <1>5, <1>6 DEF ParseHeader
<1>8. /\ ParseHeader(e).fin = (e[1] >= 128)
      /\ ParseHeader(e).op = e[1] % 16
      /\ ParseHeader(e).payload_len = PayloadLen(e)
      /\ ParseHeader(e).mask = SubSeq(e, 3 + LenField(e[2]), HeaderSize(e[2]))
      /\ ParseHeader(e).size = HeaderSize(e[2])
  BY <1>1, <1>7, ParseFields
<1>9. Len(e) \in 0 .. Len(b) /\ Prefix(b, Len(e)) = e
  BY <1>3, LenProperties DEF StartsWith, e
<1>10. ParseHeader(b) = ParseHeader(e)
  <2>1. ParseHeader(Prefix(b, Len(e))).result # "more"
    BY <1>7, <1>9
  <2>. QED  BY <1>9, <2>1, ParseStable
<1>. QED  BY <1>1, <1>2, <1>7, <1>8, <1>10 DEF e

\* A sequence whose elements are in T.
LEMMA SeqOver ==
    ASSUME NEW S, NEW T, NEW s \in Seq(S), \A i \in 1 .. Len(s) : s[i] \in T
    PROVE  s \in Seq(T)
<1>1. Len(s) \in Nat /\ s \in [1 .. Len(s) -> S]
  BY LenProperties
<1>2. s \in [1 .. Len(s) -> T]
  BY <1>1
<1>. QED  BY <1>1, <1>2, FunctionIsSeq

\* The first byte is made of what is read of it.
LEMMA FirstBack ==
    ASSUME NEW x \in Byte, ~Rsv(x)
    PROVE  First(x >= 128, x % 16) = x
<1>1. CASE x >= 128
  BY <1>1 DEF First, Rsv, Byte
<1>2. CASE ~(x >= 128)
  BY <1>2 DEF First, Rsv, Byte
<1>. QED  BY <1>1, <1>2

\* So is the second one.
LEMMA SecondParts ==
    ASSUME NEW y \in Byte
    PROVE  y = (IF Masked(y) THEN 128 ELSE 0) + Len7(y) /\ Len7(y) \in Nat
BY DEF Masked, Len7, Byte

\* What parse_header takes is what encode_header writes for the header that it gives.
THEOREM EncodesParsed ==
    ASSUME NEW b \in Seq(Byte), Scaled(b), ParseHeader(b).result = "ok"
    PROVE  LET h == ParseHeader(b)
           IN  /\ h.fin \in BOOLEAN /\ h.op \in OpCodes /\ h.mask \in Keys /\ h.payload_len \in Nat
               /\ Legal(h.fin, h.op, h.payload_len)
               /\ StartsWith(b, EncodeHeader(h.fin, h.op, h.mask, h.payload_len))
<1> DEFINE h == ParseHeader(b)
           l == LenField(b[2])
           z == HeaderSize(b[2])
           m == SubSeq(b, 3 + l, z)
           d == SubSeq(b, 3, 2 + l)
           n == PayloadLen(b)
<1>1. /\ Len(b) >= 2 /\ Len(b) >= z
      /\ ~Rsv(b[1]) /\ b[1] % 16 \in OpCodes
      /\ LenOk(b)
      /\ IsControl(b[1] % 16) => (b[1] >= 128 /\ n <= Short)
      /\ h.fin = (b[1] >= 128)
      /\ h.op = b[1] % 16
      /\ h.payload_len = n
      /\ h.mask = m
      /\ h.size = z
  BY ParseFields
<1>2. Len(b) \in Nat /\ b[1] \in Byte /\ b[2] \in Byte
  BY <1>1, FirstBytes
<1>3. /\ l \in {0, 2, 8} /\ l \in Nat /\ z \in Nat
      /\ z = 2 + l + (IF Masked(b[2]) THEN 4 ELSE 0) /\ 2 + l <= z
  BY <1>2, ByteTypes
<1>4. n \in Nat
  <2>1. Len(b) >= 2 + LenField(b[2])
    BY <1>1, <1>2, <1>3
  <2>. QED  BY <1>1, <2>1, FieldType
<1>5. Len7(b[2]) <= Short + 2 /\ \A i \in 3 .. Len(b) : b[i] < Base
  BY <1>1 DEF Scaled
<1>6. b[2] = (IF Masked(b[2]) THEN 128 ELSE 0) + Len7(b[2]) /\ Len7(b[2]) \in Nat
  BY <1>2, SecondParts
<1>7. /\ l = 0 => Len7(b[2]) <= Short
      /\ l = 2 => Len7(b[2]) = Short + 1
      /\ l = 8 => Len7(b[2]) = Short + 2
  BY <1>5, <1>6, BaseFacts DEF LenField
<1>8. /\ LenOk(b) /\ (l = 2 => n > Short) /\ (l = 8 => (b[3] < Base \div 2 /\ n >= Base * Base))
      /\ n = IF l = 0 THEN Len7(b[2]) ELSE FromBe(d)
  BY <1>1 DEF LenOk, PayloadLen
<1> HIDE DEF l, z, n, h
<1>9. /\ d \in Seq(Byte) /\ Len(d) = l /\ \A i \in 1 .. l : d[i] = b[2 + i]
  <2>1. d \in Seq(Byte) /\ Len(d) = l /\ \A i \in 1 .. l : d[i] = b[3 + i - 1]
    BY <1>1, <1>2, <1>3
  <2>2. \A i \in 1 .. l : 3 + i - 1 = 2 + i
    BY <1>3
  <2> HIDE DEF d
  <2>. QED  BY <2>1, <2>2
<1>10. m \in Seq(Byte) /\ Len(m) = z - l - 2
  BY <1>1, <1>2, <1>3
<1>11. m \in Keys /\ (m = <<>> <=> ~Masked(b[2]))
  <2> HIDE DEF m
  <2>1. CASE Masked(b[2])
    <3>1. Len(m) = 4
      BY <1>3, <1>10, <2>1
    <3>2. m \in [1 .. 4 -> Byte]
      <4>1. m \in [1 .. Len(m) -> Byte]
        BY <1>10, LenProperties
      <4>. QED  BY <3>1, <4>1
    <3>3. m # <<>>
      BY <3>1, EmptySeq
    <3>. QED  BY <2>1, <3>2, <3>3 DEF Keys
  <2>2. CASE ~Masked(b[2])
    <3>1. Len(m) = 0
      BY <1>3, <1>10, <2>2
    <3>2. m = <<>>
      BY <1>10, <3>1, EmptySeq
    <3>. QED  BY <2>2, <3>2 DEF Keys
  <2>. QED  BY <2>1, <2>2
<1>12. d \in Seq(0 .. Base - 1)
  <2>1. ASSUME NEW i \in 1 .. l PROVE d[i] \in 0 .. Base - 1
    <3>1. 2 + i \in 3 .. Len(b) /\ 2 + i \in 1 .. Len(b)
      BY <1>1, <1>2, <1>3
    <3>2. b[2 + i] < Base /\ b[2 + i] \in Nat
      BY <1>5, <3>1, ElementOfSeq, ByteIsNat
    <3>. QED  BY <1>9, <3>2, BaseFacts
  <2> HIDE DEF d
  <2>2. d \in Seq(Byte) /\ \A i \in 1 .. Len(d) : d[i] \in 0 .. Base - 1
    BY <1>9, <2>1
  <2>. QED  BY <2>2, SeqOver
<1>13. n <= Longest /\ FieldOf(n) = d /\ Second(m, n) = b[2]
  <2> HIDE DEF m, d
  <2>0. Base * Base \in Nat /\ Short < Base * Base /\ Short \in Nat
    BY TwoDigits, BaseFacts
  <2>1. CASE l = 0
    <3>1. n = Len7(b[2]) /\ n <= Short /\ n < Base * Base
      BY <1>4, <1>7, <1>8, <2>0, <2>1
    <3>2. d = <<>>
      BY <1>9, <2>1, EmptySeq
    <3>3. FieldOf(n) = <<>>
      BY <3>1 DEF FieldOf
    <3>4. Second(m, n) = b[2]
      BY <1>6, <1>11, <3>1 DEF Second
    <3>5. n <= Longest
      BY <1>4, <3>1, LongLengths
    <3>. QED  BY <3>2, <3>3, <3>4, <3>5
  <2>2. CASE l = 2
    <3>1. n = FromBe(d) /\ Len(d) = 2 /\ n > Short /\ ~(n <= Short)
      BY <1>4, <1>8, <1>9, <2>0, <2>2
    <3>2. ToBe(FromBe(d), Len(d)) = d /\ Without(FromBe(d), Len(d)) = 0
      BY <1>12, ToFrom
    <3>3. ToBe(n, 2) = d /\ Without(n, 2) = 0
      BY <3>1, <3>2
    <3>4. n < Base * Base
      BY <1>4, <3>3, TwoDigits
    <3>5. FieldOf(n) = d
      BY <3>1, <3>3, <3>4 DEF FieldOf
    <3>6. Second(m, n) = b[2]
      BY <1>6, <1>7, <1>11, <2>0, <2>2, <3>1, <3>4 DEF Second
    <3>7. n <= Longest
      BY <1>4, <3>4, LongLengths
    <3>. QED  BY <3>5, <3>6, <3>7
  <2>3. CASE l = 8
    <3>1. n = FromBe(d) /\ Len(d) = 8 /\ n >= Base * Base /\ ~(n < Base * Base) /\ ~(n <= Short)
      BY <1>4, <1>8, <1>9, <2>0, <2>3
    <3>2. ToBe(FromBe(d), Len(d)) = d /\ (Len(d) > 0 => Without(FromBe(d), Len(d) - 1) = d[1])
      BY <1>12, ToFrom
    <3>3. ToBe(n, 8) = d /\ Without(n, 8 - 1) = d[1]
      BY <3>1, <3>2
    <3>4. d[1] = b[3]
      <4>1. 1 \in 1 .. l /\ 2 + 1 = 3
        BY <2>3
      <4>. QED  BY <1>9, <4>1
    <3>5. Without(n, 7) < Base \div 2
      <4>1. 8 - 1 = 7
        OBVIOUS
      <4>. QED  BY <1>8, <2>3, <3>3, <3>4, <4>1
    <3>6. FieldOf(n) = d
      BY <3>1, <3>3 DEF FieldOf
    <3>7. Second(m, n) = b[2]
      BY <1>6, <1>7, <1>11, <2>0, <2>3, <3>1 DEF Second
    <3>8. n <= Longest
      BY <1>4, <3>5, LongestLength
    <3>. QED  BY <3>6, <3>7, <3>8
  <2>. QED  BY <1>3, <2>1, <2>2, <2>3
<1>14. h.fin \in BOOLEAN
  BY <1>1
<1>15. First(h.fin, h.op) = b[1]
  <2>1. First(b[1] >= 128, b[1] % 16) = b[1]
    BY <1>1, <1>2, FirstBack
  <2>. QED  BY <1>1, <2>1
<1>16. Legal(h.fin, h.op, h.payload_len)
  BY <1>1, <1>13 DEF Legal
<1>17. h.op \in OpCodes /\ h.mask \in Keys /\ h.payload_len \in Nat
  BY <1>1, <1>4, <1>11
<1> DEFINE e == EncodeHeader(h.fin, h.op, h.mask, h.payload_len)
<1>18. e = <<b[1]>> \o (<<b[2]>> \o d) \o m
  <2>1. e = <<First(h.fin, h.op)>> \o (<<Second(h.mask, h.payload_len)>> \o FieldOf(h.payload_len)) \o h.mask
    BY <1>14, <1>17, EncodeIs
  <2>. QED  BY <1>1, <1>13, <1>15, <2>1
<1>19. Len(e) = z /\ Prefix(b, z) = e
  <2>1. l \in Nat /\ z \in Nat /\ 2 + l <= z /\ z <= Len(b)
    BY <1>1, <1>2, <1>3
  <2> DEFINE f == <<b[1]>> \o (<<b[2]>> \o SubSeq(b, 3, 2 + l)) \o SubSeq(b, 3 + l, z)
  <2>2. Len(f) = z /\ Prefix(b, z) = f
    BY <2>1, PartsOf
  <2>3. e = f
    BY <1>18
  <2> HIDE DEF e, f
  <2>. QED  BY <2>2, <2>3
<1>20. StartsWith(b, e)
  <2> HIDE DEF e
  <2>. QED  BY <1>1, <1>2, <1>3, <1>19 DEF StartsWith
<1>. QED  BY <1>14, <1>16, <1>17, <1>20 DEF h

-----------------------------------------------------------------------------
(* Masking.                                                               *)

\* The place in the key of byte i, whether it is in a block or after the blocks.
LEMMA MaskPlace ==
    ASSUME NEW n \in Nat, NEW i \in 1 .. n
    PROVE  /\ n - (n % Lanes) \in Nat
           /\ ((i - 1) % Lanes) + 1 \in 1 .. Lanes
           /\ ((((i - 1) % Lanes) + 1) - 1) % 4 = (i - 1) % 4
           /\ (i - (n - (n % Lanes)) - 1) % 4 = (i - 1) % 4
           /\ ((i - 1) % 4) + 1 \in 1 .. 4
<1>1. Lanes \in Nat \ {0} /\ Lanes % 4 = 0
  BY WireAssumption
<1>2. n % Lanes \in 0 .. Lanes - 1 /\ n \div Lanes \in Int /\ n = Lanes * (n \div Lanes) + (n % Lanes)
  BY <1>1, DivMod
<1>3. n \div Lanes >= 0
  <2>1. SUFFICES ASSUME n \div Lanes <= -1 PROVE FALSE
    BY <1>2
  <2>2. -1 - (n \div Lanes) \in Nat
    BY <1>2, <2>1
  <2>3. Lanes * (-1 - (n \div Lanes)) >= 0
    <3>1. ASSUME NEW u \in Nat PROVE Lanes * u >= 0
      BY <1>1
    <3>. QED  BY <2>2, <3>1
  <2>4. Lanes * (-1 - (n \div Lanes)) = -Lanes - Lanes * (n \div Lanes)
    BY <1>1, <1>2
  <2>. QED  BY <1>1, <1>2, <2>3, <2>4
<1>4. n - (n % Lanes) \in Nat
  <2>1. ASSUME NEW u \in Nat PROVE Lanes * u \in Nat
    BY <1>1
  <2>2. Lanes * (n \div Lanes) \in Nat
    BY <1>2, <1>3, <2>1
  <2>. QED  BY <1>2, <2>2
<1>5. (i - 1) % Lanes \in 0 .. Lanes - 1 /\ (i - 1) % 4 \in 0 .. 3
  <2>1. i - 1 \in Int /\ 4 \in Nat \ {0} /\ 4 - 1 = 3
    OBVIOUS
  <2>2. (i - 1) % Lanes \in 0 .. Lanes - 1
    BY <1>1, <2>1, DivMod
  <2>3. (i - 1) % 4 \in 0 .. 4 - 1
    BY <2>1, DivMod
  <2>. QED  BY <2>2, <2>3
<1>6. ((((i - 1) % Lanes) + 1) - 1) % 4 = (i - 1) % 4
  <2>1. (((i - 1) % Lanes) + 0) % 4 = ((i - 1) + 0) % 4
    <3>1. i - 1 \in Int /\ 0 \in Int /\ 4 \in Nat \ {0}
      OBVIOUS
    <3>. QED  BY <1>1, <3>1, ModAdd
  <2>2. (((i - 1) % Lanes) + 1) - 1 = ((i - 1) % Lanes) + 0 /\ (i - 1) + 0 = i - 1
    BY <1>5
  <2>. QED  BY <2>1, <2>2
<1>7. (i - (n - (n % Lanes)) - 1) % 4 = (i - 1) % 4
  <2> DEFINE r == Lanes \div 4
             q == n \div Lanes
  <2>1. r \in Int /\ Lanes = 4 * r
    BY <1>1, DivMod
  <2>2. q \in Int
    BY <1>2
  <2>3. n - (n % Lanes) = Lanes * q
    BY <1>1, <1>2
  <2> HIDE DEF r, q
  <2>4. Lanes * q = 4 * (r * q) /\ r * q \in Int
    BY <2>1, <2>2
  <2> DEFINE k == -(r * q)
  <2>5. k \in Int /\ i - (n - (n % Lanes)) - 1 = (i - 1) + 4 * k
    BY <2>3, <2>4
  <2> HIDE DEF k
  <2>6. ((i - 1) + 4 * k) % 4 = (i - 1) % 4
    <3>1. i - 1 \in Int /\ 4 \in Nat \ {0}
      OBVIOUS
    <3>. QED  BY <2>5, <3>1, ModShift
  <2>. QED  BY <2>5, <2>6
<1>8. ((i - 1) % Lanes) + 1 \in 1 .. Lanes /\ ((i - 1) % 4) + 1 \in 1 .. 4
  <2>1. ASSUME NEW m \in Nat, NEW r \in 0 .. m - 1 PROVE r + 1 \in 1 .. m
    OBVIOUS
  <2>2. (i - 1) % 4 \in 0 .. 4 - 1 /\ 4 \in Nat
    BY <1>5
  <2>. QED  BY <1>1, <1>5, <2>1, <2>2
<1>. QED  BY <1>4, <1>6, <1>7, <1>8

\* Masking in blocks and a rest is masking byte by byte.
LEMMA MaskBytes ==
    ASSUME NEW p \in Seq(Byte), NEW key \in [1 .. 4 -> Byte]
    PROVE  MaskInplace(p, key) = [i \in 1 .. Len(p) |-> Xor(p[i], key[((i - 1) % 4) + 1])]
<1> DEFINE blocks == Len(p) - (Len(p) % Lanes)
           wide == [i \in 1 .. Lanes |-> key[((i - 1) % 4) + 1]]
<1>1. ASSUME NEW i \in 1 .. Len(p)
      PROVE  (IF i <= blocks THEN wide[((i - 1) % Lanes) + 1] ELSE key[((i - blocks - 1) % 4) + 1])
             = key[((i - 1) % 4) + 1]
  <2>0. Len(p) \in Nat
    BY LenProperties
  <2>1. /\ ((i - 1) % Lanes) + 1 \in 1 .. Lanes
        /\ ((((i - 1) % Lanes) + 1) - 1) % 4 = (i - 1) % 4
        /\ (i - blocks - 1) % 4 = (i - 1) % 4
    BY <2>0, MaskPlace
  <2>2. wide[((i - 1) % Lanes) + 1] = key[(((((i - 1) % Lanes) + 1) - 1) % 4) + 1]
    BY <2>1
  <2>3. wide[((i - 1) % Lanes) + 1] = key[((i - 1) % 4) + 1]
    BY <2>1, <2>2
  <2> HIDE DEF wide, blocks
  <2>. QED  BY <2>1, <2>3
<1>2. MaskInplace(p, key)
      = [i \in 1 .. Len(p) |->
            Xor(p[i], IF i <= blocks THEN wide[((i - 1) % Lanes) + 1]
                      ELSE key[((i - blocks - 1) % 4) + 1])]
  BY DEF MaskInplace
<1> HIDE DEF blocks, wide
<1>. QED  BY <1>1, <1>2

\* What masking writes is as long, of bytes, and the peer unmasks it to what it was.
THEOREM UnmaskMasked ==
    ASSUME NEW p \in Seq(Byte), NEW key \in [1 .. 4 -> Byte]
    PROVE  /\ MaskInplace(p, key) \in Seq(Byte)
           /\ Len(MaskInplace(p, key)) = Len(p)
           /\ Unmask(MaskInplace(p, key), key) = p
<1> DEFINE m == MaskInplace(p, key)
           at(i) == key[((i - 1) % 4) + 1]
<1>0. Len(p) \in Nat
  BY LenProperties
<1>1. ASSUME NEW i \in 1 .. Len(p)
      PROVE  Xor(p[i], at(i)) \in Byte /\ Xor(Xor(p[i], at(i)), at(i)) = p[i]
  <2>1. p[i] \in Byte
    BY ElementOfSeq
  <2>2. ((i - 1) % 4) + 1 \in 1 .. 4
    BY <1>0, MaskPlace
  <2>3. at(i) \in Byte
    BY <2>2
  <2>. QED  BY <2>1, <2>3, XorInverse
<1>2. m = [i \in 1 .. Len(p) |-> Xor(p[i], at(i))]
  BY MaskBytes
<1>3. key # <<>>
  <2>1. Len(key) = 4
    BY FunctionIsSeq
  <2>. QED  BY <2>1, EmptySeq
<1> HIDE DEF m
<1>4. m \in [1 .. Len(p) -> Byte]
  BY <1>1, <1>2
<1>5. m \in Seq(Byte) /\ Len(m) = Len(p)
  BY <1>0, <1>4, FunctionIsSeq
<1>6. Unmask(m, key) = [i \in 1 .. Len(m) |-> Xor(m[i], at(i))]
  BY <1>3 DEF Unmask
<1> HIDE DEF at
<1>7. Unmask(m, key) = [i \in 1 .. Len(p) |-> p[i]]
  BY <1>1, <1>2, <1>5, <1>6
<1>8. p = [i \in 1 .. Len(p) |-> p[i]]
  <2>1. p \in [1 .. Len(p) -> Byte]
    BY LenProperties
  <2>. QED  BY <2>1
<1>. QED  BY <1>5, <1>7, <1>8 DEF m

-----------------------------------------------------------------------------
(* The bytes of frames.                                                   *)

\* What is noted of a frame that is written.
Entry == [frame : Frames, key : Keys, bytes : Seq(Byte)]

\* c gathers the bytes of the frames of w.
Concats(c, w) ==
    /\ c \in [0 .. Len(w) -> Seq(Byte)]
    /\ c[0] = <<>>
    /\ \A i \in 1 .. Len(w) : c[i] = c[i - 1] \o w[i].bytes

\* The recursive definition of BytesOf has a solution.
LEMMA BytesConcat ==
    ASSUME NEW w \in Seq(Entry)
    PROVE  \E c : Concats(c, w) /\ BytesOf(w) = c[Len(w)]
<1> DEFINE B == Seq(Byte)
           N == Len(w)
           step == [x \in B \X Nat |-> IF x[2] \in 1 .. N THEN x[1] \o w[x[2]].bytes ELSE x[1]]
           body(g) == [i \in 0 .. N |-> IF i = 0 THEN <<>> ELSE g[i - 1] \o w[i].bytes]
<1>0. N \in Nat /\ <<>> \in B
  BY LenProperties, EmptySeq
<1>1. \A i \in 1 .. N : w[i].bytes \in B
  <2>1. ASSUME NEW i \in 1 .. N PROVE w[i] \in Entry
    BY ElementOfSeq
  <2>. QED  BY <2>1 DEF Entry
<1>2. \A i \in 1 .. N : \A u \in B : u \o w[i].bytes \in B
  BY <1>1, Cat
<1>3. step \in [B \X Nat -> B]
  <2> HIDE DEF B, N
  <2>. QED  BY <1>2
<1>4. PICK f : Recursion(f, B, <<>>, N, step)
  <2> DEFINE e == <<>>
  <2>1. e \in B
    BY <1>0
  <2> HIDE DEF step, B, N, e
  <2>2. \E f : Recursion(f, B, e, N, step)
    BY <1>0, <1>3, <2>1, RecursiveFunction
  <2>. QED  BY <2>2 DEF e
<1> HIDE DEF B, N
<1>5. f \in [0 .. N -> B] /\ f[0] = <<>>
  BY <1>4 DEF Recursion
<1>6. ASSUME NEW i \in 1 .. N PROVE f[i] = f[i - 1] \o w[i].bytes
  <2>1. f[i - 1] \in B /\ i \in Nat
    BY <1>0, <1>5
  <2>2. step[<<f[i - 1], i>>] = f[i - 1] \o w[i].bytes
    BY <2>1
  <2> HIDE DEF step
  <2>. QED  BY <1>4, <2>2 DEF Recursion
<1>7. f = body(f)
  <2>1. ASSUME NEW i \in 0 .. N PROVE f[i] = body(f)[i]
    <3>1. CASE i = 0
      BY <1>5, <3>1
    <3>2. CASE i # 0
      <4>1. i \in 1 .. N
        BY <1>0, <3>2
      <4> HIDE DEF step
      <4>. QED  BY <1>6, <3>2, <4>1
    <3>. QED  BY <3>1, <3>2
  <2>2. f = [i \in 0 .. N |-> f[i]]
    BY <1>5
  <2>. QED  BY <2>1, <2>2
<1> DEFINE c == CHOOSE g : g = body(g)
<1>8. c = body(c)
  <2> HIDE DEF body
  <2>. QED  BY <1>7
<1>9. BytesOf(w) = c[N]
  BY DEF BytesOf, N
<1> HIDE DEF c
<1>10. DOMAIN c = 0 .. N /\ c = [i \in 0 .. N |-> c[i]] /\ c[0] = <<>>
  <2>1. DOMAIN c = 0 .. N
    BY <1>8
  <2>2. body(c)[0] = <<>>
    BY <1>0
  <2>3. c = [i \in 0 .. N |-> c[i]]
    BY <1>8, <2>1
  <2> HIDE DEF body
  <2>. QED  BY <1>8, <2>1, <2>2, <2>3
<1>11. ASSUME NEW i \in 1 .. N PROVE c[i] = c[i - 1] \o w[i].bytes
  <2>1. body(c)[i] = c[i - 1] \o w[i].bytes
    BY <1>0
  <2> HIDE DEF body
  <2>. QED  BY <1>8, <2>1
<1>12. \A i \in Nat : i <= N => c[i] \in B
  <2> DEFINE T == {i \in Nat : i <= N => c[i] \in B}
  <2>1. 0 \in T
    BY <1>0, <1>10
  <2>2. ASSUME NEW n \in Nat, n \in T PROVE n + 1 \in T
    <3> SUFFICES ASSUME n + 1 <= N PROVE c[n + 1] \in B
      OBVIOUS
    <3>1. c[n] \in B /\ n + 1 \in 1 .. N /\ (n + 1) - 1 = n
      BY <1>0, <2>2
    <3>2. c[n + 1] = c[n] \o w[n + 1].bytes
      BY <1>11, <3>1
    <3>. QED  BY <1>2, <3>1, <3>2
  <2> HIDE DEF T
  <2>3. Nat \subseteq T
    BY <2>1, <2>2, Induct
  <2>. QED  BY <2>3 DEF T
<1>13. Concats(c, w)
  <2>1. \A i \in 0 .. N : c[i] \in B
    BY <1>0, <1>12
  <2>2. c \in [0 .. N -> B]
    BY <1>10, <2>1
  <2>. QED  BY <1>10, <1>11, <2>2 DEF Concats, N, B
<1>. QED  BY <1>9, <1>13 DEF N

\* Such a function is determined by its equations, up to a common length.
LEMMA ConcatsAgree ==
    ASSUME NEW v \in Seq(Entry), NEW w \in Seq(Entry), Len(v) <= Len(w),
           \A i \in 1 .. Len(v) : v[i] = w[i],
           NEW c, Concats(c, v), NEW d, Concats(d, w)
    PROVE  c[Len(v)] = d[Len(v)]
<1>0. Len(v) \in Nat /\ Len(w) \in Nat
  BY LenProperties
<1> DEFINE T == {i \in Nat : i <= Len(v) => c[i] = d[i]}
<1>1. 0 \in T
  BY DEF Concats
<1>2. ASSUME NEW n \in Nat, n \in T PROVE n + 1 \in T
  <2> SUFFICES ASSUME n + 1 <= Len(v) PROVE c[n + 1] = d[n + 1]
    OBVIOUS
  <2>1. c[n] = d[n] /\ n + 1 \in 1 .. Len(v) /\ n + 1 \in 1 .. Len(w) /\ (n + 1) - 1 = n
    BY <1>0, <1>2
  <2>2. c[n + 1] = c[n] \o v[n + 1].bytes
    BY <2>1 DEF Concats
  <2>3. d[n + 1] = d[n] \o w[n + 1].bytes
    BY <2>1 DEF Concats
  <2>. QED  BY <2>1, <2>2, <2>3
<1> HIDE DEF T
<1>3. Nat \subseteq T
  BY <1>1, <1>2, Induct
<1>. QED  BY <1>0, <1>3 DEF T

\* The bytes of frames are bytes; those of no frame are none.
LEMMA BytesOfType ==
    ASSUME NEW w \in Seq(Entry)
    PROVE  BytesOf(w) \in Seq(Byte)
<1>1. PICK c : Concats(c, w) /\ BytesOf(w) = c[Len(w)]
  BY BytesConcat
<1>2. Len(w) \in 0 .. Len(w)
  BY LenProperties
<1>. QED  BY <1>1, <1>2 DEF Concats

\* The bytes of no frame.
LEMMA BytesOfNone == BytesOf(<<>>) = <<>>
<1>1. <<>> \in Seq(Entry) /\ Len(<<>>) = 0
  BY EmptySeq
<1>2. PICK c : Concats(c, <<>>) /\ BytesOf(<<>>) = c[Len(<<>>)]
  BY <1>1, BytesConcat
<1>. QED  BY <1>1, <1>2 DEF Concats

\* The bytes of a frame that is written follow those of the others.
LEMMA BytesOfAppend ==
    ASSUME NEW w \in Seq(Entry), NEW x \in Entry
    PROVE  BytesOf(Append(w, x)) = BytesOf(w) \o x.bytes
<1> DEFINE v == Append(w, x)
<1>0. Len(w) \in Nat
  BY LenProperties
<1>1. /\ v \in Seq(Entry) /\ Len(v) = Len(w) + 1
      /\ \A i \in 1 .. Len(w) : v[i] = w[i]
      /\ v[Len(w) + 1] = x
  BY AppendProperties
<1> HIDE DEF v
<1>2. PICK c : Concats(c, w) /\ BytesOf(w) = c[Len(w)]
  BY BytesConcat
<1>3. PICK d : Concats(d, v) /\ BytesOf(v) = d[Len(v)]
  BY <1>1, BytesConcat
<1>4. Len(w) <= Len(v) /\ \A i \in 1 .. Len(w) : w[i] = v[i]
  BY <1>0, <1>1
<1>5. c[Len(w)] = d[Len(w)]
  BY <1>1, <1>2, <1>3, <1>4, ConcatsAgree
<1>6. Len(w) + 1 \in 1 .. Len(v) /\ (Len(w) + 1) - 1 = Len(w)
  BY <1>0, <1>1
<1>7. d[Len(w) + 1] = d[Len(w)] \o v[Len(w) + 1].bytes
  BY <1>3, <1>6 DEF Concats
<1>. QED  BY <1>1, <1>2, <1>3, <1>5, <1>7 DEF v

\* The bytes of the first frame are first.
LEMMA BytesOfTail ==
    ASSUME NEW w \in Seq(Entry), w # <<>>
    PROVE  /\ Head(w) \in Entry /\ Tail(w) \in Seq(Entry)
           /\ Head(w).bytes \in Seq(Byte)
           /\ BytesOf(w) = Head(w).bytes \o BytesOf(Tail(w))
<1> DEFINE t == Tail(w)
           b == Head(w).bytes
<1>0. Len(w) \in Nat /\ Len(w) >= 1
  BY LenProperties, EmptySeq
<1>1. /\ t \in Seq(Entry) /\ Len(t) = Len(w) - 1
      /\ \A i \in 1 .. Len(t) : t[i] = w[i + 1]
      /\ Head(w) = w[1] /\ Head(w) \in Entry
  <2>1. t \in Seq(Entry) /\ Len(t) = Len(w) - 1 /\ \A i \in 1 .. Len(t) : t[i] = w[i + 1]
    BY HeadTailProperties
  <2>2. Head(w) = w[1] /\ Head(w) \in Entry
    BY HeadTailProperties
  <2>. QED  BY <2>1, <2>2
<1>2. b \in Seq(Byte)
  BY <1>1 DEF Entry
<1> HIDE DEF t, b
<1>3. PICK c : Concats(c, w) /\ BytesOf(w) = c[Len(w)]
  BY BytesConcat
<1>4. PICK d : Concats(d, t) /\ BytesOf(t) = d[Len(t)]
  BY <1>1, BytesConcat
<1> DEFINE T == {i \in Nat : i <= Len(t) => c[i + 1] = b \o d[i]}
<1>5. 0 \in T
  <2>1. c[0] = <<>> /\ d[0] = <<>>
    BY <1>3, <1>4 DEF Concats
  <2>2. 1 \in 1 .. Len(w) /\ 1 - 1 = 0 /\ 0 + 1 = 1
    BY <1>0
  <2>3. c[1] = c[0] \o w[1].bytes
    BY <1>3, <2>2 DEF Concats
  <2>4. w[1].bytes = b
    BY <1>1 DEF b
  <2>5. <<>> \o b = b /\ b \o <<>> = b
    BY <1>2, ConcatEmptySeq
  <2>. QED  BY <2>1, <2>2, <2>3, <2>4, <2>5
<1>6. ASSUME NEW n \in Nat, n \in T PROVE n + 1 \in T
  <2> SUFFICES ASSUME n + 1 <= Len(t) PROVE c[(n + 1) + 1] = b \o d[n + 1]
    OBVIOUS
  <2>1. /\ c[n + 1] = b \o d[n] /\ n + 1 \in 1 .. Len(t) /\ (n + 1) - 1 = n
        /\ (n + 1) + 1 \in 1 .. Len(w) /\ ((n + 1) + 1) - 1 = n + 1
        /\ n \in 0 .. Len(t)
    BY <1>0, <1>1, <1>6
  <2>2. c[(n + 1) + 1] = c[n + 1] \o w[(n + 1) + 1].bytes
    BY <1>3, <2>1 DEF Concats
  <2>3. d[n + 1] = d[n] \o t[n + 1].bytes /\ d[n] \in Seq(Byte)
    BY <1>4, <2>1 DEF Concats
  <2>4. w[(n + 1) + 1] = t[n + 1] /\ t[n + 1] \in Entry
    <3>1. w[(n + 1) + 1] = t[n + 1]
      BY <1>1, <2>1
    <3>2. t[n + 1] \in Entry
      BY <1>1, <2>1, ElementOfSeq
    <3>. QED  BY <3>1, <3>2
  <2>5. t[n + 1].bytes \in Seq(Byte)
    BY <2>4 DEF Entry
  <2>6. (b \o d[n]) \o t[n + 1].bytes = b \o (d[n] \o t[n + 1].bytes)
    <3>1. ASSUME NEW u \in Seq(Byte), NEW x \in Seq(Byte) PROVE (b \o u) \o x = b \o (u \o x)
      BY <1>2, Assoc
    <3>. QED  BY <2>3, <2>5, <3>1
  <2>. QED  BY <2>1, <2>2, <2>3, <2>4, <2>6
<1> HIDE DEF T
<1>7. Nat \subseteq T
  BY <1>5, <1>6, Induct
<1>8. Len(t) \in Nat /\ Len(t) + 1 = Len(w)
  BY <1>0, <1>1
<1>9. c[Len(t) + 1] = b \o d[Len(t)]
  BY <1>7, <1>8 DEF T
<1>. QED  BY <1>1, <1>2, <1>3, <1>4, <1>8, <1>9 DEF t, b

-----------------------------------------------------------------------------
(* The inductive invariant.                                               *)

\* A buffer of bytes
BytesBuf(b) == BufOK(b) /\ b.data \in Seq(Byte)

\* What is known of a frame that was written and not yet read: its bytes are its header
\* and as many bytes as its payload has, which the reader unmasks to it; the client
\* wrote what it may send, the peer did not mask.
EntryOK(x, by) ==
    LET header == HeaderOf(x.frame, x.key)
    IN  /\ x \in Entry
        /\ Legal(x.frame.fin, x.frame.op, Len(x.frame.payload))
        /\ Len(x.bytes) = Len(header) + Len(x.frame.payload)
        /\ StartsWith(x.bytes, header)
        /\ Unmask(SubSeq(x.bytes, Len(header) + 1, Len(x.bytes)), x.key) = x.frame.payload
        /\ by = "client" => Sendable(x.frame)
        /\ by = "server" => x.key = <<>>

\* Types, and what is known of every frame written.
StateTypes ==
    /\ role \in {"client", "server"}
    /\ BytesBuf(tx) /\ BytesBuf(recv_buf)
    /\ broken \in BOOLEAN /\ (broken => role = "server")
    /\ written \in Seq(Entry)
    /\ \A i \in 1 .. Len(written) : EntryOK(written[i], role)

\* The key of a frame is the places after all those of the keys before it.
Used == (drawn - 1) * PoolBytes + mask_pool_cursor

\* The pool is the last one drawn; each was drawn for some key, but the first one before any.
MaskTypes ==
    /\ keys \in Seq({<<>>} \cup [1 .. 4 -> Nat])
    /\ Len(keys) <= MaxFrames
    /\ drawn \in Nat /\ drawn >= 1
    /\ drawn <= Len(keys) \/ (drawn = 1 /\ mask_pool_cursor = 0)
    /\ mask_pool = Fill(drawn - 1)
    /\ mask_pool_cursor \in 0 .. PoolBytes

\* The places of the keys ks are among the first used ones, and no two keys share one.
Places(ks, used) ==
    /\ \A i \in 1 .. Len(ks), k \in 1 .. 4 : ks[i][k] \in 1 .. used
    /\ \A i, j \in 1 .. Len(ks), k, l \in 1 .. 4 : ks[i][k] = ks[j][l] => i = j

\* So they are for the client, which alone draws keys.
MaskPlaces == role = "client" => Places(keys, Used)

\* The bytes on the way are those of the frames not yet read, and of what is no header; until
\* a header is refused, which leaves in the buffer what was gathered of it.
Streams(s, w, broke) ==
    IF broke THEN \E raw \in Raws : s = BytesOf(w) \o raw ELSE s = BytesOf(w)

Stream == parser.header # Bad => Streams(OnTheWay, written, broken)

\* The parser holds bytes, and is not used by a client that only writes.
ParserTypes ==
    /\ parser.partial \in Seq(Byte) /\ parser.payload \in Seq(Byte)
    /\ parser = [partial |-> parser.partial, header |-> parser.header, payload |-> parser.payload]
    /\ role = "client" => parser = Idle

\* The parser gathers a header that is not complete, or
Gathers ==
    /\ parser.header = More
    /\ parser.payload = <<>>
    /\ Len(parser.partial) < 2 \/ Len(parser.partial) < HeaderSize(parser.partial[2])

\* it has read the header of the first frame and gathers its payload, or
Reads ==
    /\ role = "server"
    /\ parser.header.result = "ok"
    /\ written # <<>>
    /\ LET f == Head(written).frame
           h == parser.header
       IN  /\ h.fin = f.fin /\ h.op = f.op /\ h.payload_len = Len(f.payload)
           /\ parser.partial = HeaderOf(f, <<>>)
           /\ Len(parser.payload) <= Len(f.payload)

\* it has refused what is no header.
Refused ==
    /\ parser.header = Bad
    /\ parser.payload = <<>>
    /\ broken
    /\ written = <<>>

ParserState == Gathers \/ Reads \/ Refused

\* The inductive invariant.
WireInv == StateTypes /\ MaskTypes /\ MaskPlaces /\ Stream /\ ParserTypes /\ ParserState

-----------------------------------------------------------------------------
(* Concatenation.                                                         *)

\* Bytes are numbers.
LEMMA SeqOfByte ==
    ASSUME NEW s \in Seq(Byte)
    PROVE  s \in Seq(Nat) /\ Len(s) \in Nat
<1>1. \A i \in 1 .. Len(s) : s[i] \in Nat
  BY ElementOfSeq, ByteIsNat
<1>. QED  BY <1>1, SeqOver, LenProperties

\* Equal sequences have equal parts of equal lengths.
LEMMA CatEqual ==
    ASSUME NEW S, NEW s \in Seq(S), NEW t \in Seq(S), NEW u \in Seq(S), NEW v \in Seq(S),
           s \o t = u \o v, Len(s) = Len(u)
    PROVE  s = u /\ t = v
<1>1. SubSeq(s \o t, 1, Len(s)) = s /\ SubSeq(s \o t, Len(s) + 1, Len(s \o t)) = t
  BY SplitCat
<1>2. SubSeq(u \o v, 1, Len(u)) = u /\ SubSeq(u \o v, Len(u) + 1, Len(u \o v)) = v
  BY SplitCat
<1>. QED  BY <1>1, <1>2

\* Concatenation, as an operator that the provers do not expand.
Join(s, t) == s \o t

\* Concatenation is associative.
LEMMA JoinAssoc ==
    ASSUME NEW S, NEW s \in Seq(S), NEW t \in Seq(S), NEW u \in Seq(S)
    PROVE  Join(Join(s, t), u) = Join(s, Join(t, u))
BY Assoc DEF Join

\* Its type, its length, and its beginning.
LEMMA JoinType ==
    ASSUME NEW S, NEW s \in Seq(S), NEW t \in Seq(S)
    PROVE  /\ Join(s, t) \in Seq(S)
           /\ Len(s) \in Nat /\ Len(t) \in Nat
           /\ Len(Join(s, t)) = Len(s) + Len(t)
           /\ Prefix(Join(s, t), Len(s)) = s
           /\ StartsWith(Join(s, t), s)
<1>1. Join(s, t) \in Seq(S) /\ Len(s) \in Nat /\ Len(t) \in Nat /\ Len(Join(s, t)) = Len(s) + Len(t)
  BY Cat DEF Join
<1>2. Prefix(Join(s, t), Len(s)) = s
  BY SplitCat DEF Join, Prefix
<1>3. StartsWith(Join(s, t), s)
  BY <1>1, <1>2 DEF StartsWith
<1>. QED  BY <1>1, <1>2, <1>3

\* Nothing before or after.
LEMMA JoinNone ==
    ASSUME NEW S, NEW s \in Seq(S)
    PROVE  Join(s, <<>>) = s /\ Join(<<>>, s) = s
BY ConcatEmptySeq DEF Join

\* Equal sequences have equal parts of equal lengths.
LEMMA JoinEqual ==
    ASSUME NEW S, NEW s \in Seq(S), NEW t \in Seq(S), NEW u \in Seq(S), NEW v \in Seq(S),
           Join(s, t) = Join(u, v), Len(s) = Len(u)
    PROVE  s = u /\ t = v
BY CatEqual DEF Join

\* Four parts, grouped in other ways.
LEMMA JoinFour ==
    ASSUME NEW S, NEW p \in Seq(S), NEW q \in Seq(S), NEW r \in Seq(S), NEW t \in Seq(S)
    PROVE  /\ Join(Join(Join(p, q), r), t) \in Seq(S)
           /\ Join(Join(Join(p, q), r), t) = Join(Join(p, q), Join(r, t))
           /\ Join(Join(Join(p, q), r), t) = Join(p, Join(q, Join(r, t)))
<1>1. Join(p, q) \in Seq(S) /\ Join(r, t) \in Seq(S)
  BY JoinType
<1>2. Join(Join(p, q), r) \in Seq(S)
  BY <1>1, JoinType
<1>3. Join(Join(Join(p, q), r), t) \in Seq(S)
  BY <1>2, JoinType
<1>4. Join(Join(Join(p, q), r), t) = Join(Join(p, q), Join(r, t))
  BY <1>1, JoinAssoc
<1>5. Join(Join(p, q), Join(r, t)) = Join(p, Join(q, Join(r, t)))
  BY <1>1, JoinAssoc
<1>. QED  BY <1>3, <1>4, <1>5

\* What starts with s is s and a rest.
LEMMA StartsJoin ==
    ASSUME NEW S, NEW b \in Seq(S), NEW s \in Seq(S), StartsWith(b, s)
    PROVE  LET t == SubSeq(b, Len(s) + 1, Len(b))
           IN  t \in Seq(S) /\ b = Join(s, t) /\ Len(t) = Len(b) - Len(s)
<1>1. Len(s) \in 0 .. Len(b)
  BY LenProperties DEF StartsWith
<1>2. SubSeq(b, 1, Len(s)) = s
  BY DEF StartsWith, Prefix
<1>. QED  BY <1>1, <1>2, Split DEF Join

\* What starts with s still does when more follows.
LEMMA StartsMore ==
    ASSUME NEW S, NEW b \in Seq(S), NEW s \in Seq(S), NEW t \in Seq(S), StartsWith(b, s)
    PROVE  StartsWith(Join(b, t), s)
<1> DEFINE u == SubSeq(b, Len(s) + 1, Len(b))
<1>1. u \in Seq(S) /\ b = Join(s, u)
  BY StartsJoin
<1> HIDE DEF u
<1>2. Join(b, t) = Join(s, Join(u, t)) /\ Join(u, t) \in Seq(S)
  BY <1>1, JoinAssoc, JoinType
<1>. QED  BY <1>2, JoinType

\* The first n elements of a sequence and the others.
LEMMA PrefixJoin ==
    ASSUME NEW S, NEW b \in Seq(S), NEW n \in 0 .. Len(b)
    PROVE  LET t == SubSeq(b, n + 1, Len(b))
           IN  /\ Prefix(b, n) \in Seq(S) /\ Len(Prefix(b, n)) = n
               /\ t \in Seq(S) /\ b = Join(Prefix(b, n), t)
BY Split DEF Join, Prefix

\* The parts of a frame.
LEMMA FrameFacts ==
    ASSUME NEW f \in Frames
    PROVE  /\ f.fin \in BOOLEAN /\ f.op \in OpCodes /\ f.payload \in Seq(Byte)
           /\ Len(f.payload) \in Nat /\ Len(f.payload) <= Longest
           /\ f = [fin |-> f.fin, op |-> f.op, payload |-> f.payload]
<1>1. f \in [fin : BOOLEAN, op : OpCodes, payload : Seq(Byte)] /\ Len(f.payload) <= Longest
  BY WireAssumption
<1>2. f.fin \in BOOLEAN /\ f.op \in OpCodes /\ f.payload \in Seq(Byte)
  BY <1>1
<1>3. Len(f.payload) \in Nat
  BY <1>2, LenProperties
<1>4. f = [fin |-> f.fin, op |-> f.op, payload |-> f.payload]
  BY <1>1
<1>. QED  BY <1>1, <1>2, <1>3, <1>4

\* A header is at least 2 bytes.
LEMMA HeaderType ==
    ASSUME NEW f \in Frames, NEW key \in Keys
    PROVE  HeaderOf(f, key) \in Seq(Byte) /\ Len(HeaderOf(f, key)) \in Nat /\ Len(HeaderOf(f, key)) >= 2
<1>1. /\ f.fin \in BOOLEAN /\ f.op \in OpCodes
      /\ Len(f.payload) \in Nat /\ Len(f.payload) <= Longest
  BY FrameFacts
<1>2. HeaderOf(f, key) \in Seq(Byte) /\ Len(HeaderOf(f, key)) >= 2
  BY <1>1, EncodeFacts DEF HeaderOf
<1>. QED  BY <1>2, LenProperties

-----------------------------------------------------------------------------
(* Buffers of bytes.                                                        *)

\* What can be read of a buffer of bytes are bytes.
LEMMA SliceOfBytes ==
    ASSUME NEW b, BytesBuf(b)
    PROVE  /\ BufOK(b) /\ AsSlice(b) \in Seq(Byte)
           /\ Len(AsSlice(b)) = BufLen(b) /\ BufLen(b) \in Nat
           /\ \A i \in 1 .. Len(b.data) : b.data[i] \in Byte
<1>1. BufOK(b) /\ b.data \in Seq(Byte)
  BY DEF BytesBuf
<1>2. b.head \in Nat /\ Len(b.data) \in Nat /\ b.head <= Len(b.data)
  BY <1>1, BufFields
<1>3. b.head \in 0 .. Len(b.data)
  BY <1>2
<1>4. SubSeq(b.data, b.head + 1, Len(b.data)) \in Seq(Byte)
  <2>1. ASSUME NEW d \in Seq(Byte), NEW h \in 0 .. Len(d)
        PROVE  SubSeq(d, h + 1, Len(d)) \in Seq(Byte)
    BY Split
  <2>. QED  BY <1>1, <1>3, <2>1
<1>5. \A i \in 1 .. Len(b.data) : b.data[i] \in Byte
  <2>1. ASSUME NEW d \in Seq(Byte) PROVE \A i \in 1 .. Len(d) : d[i] \in Byte
    BY ElementOfSeq
  <2>. QED  BY <1>1, <2>1
<1>. QED  BY <1>1, <1>4, <1>5, AsSliceType DEF AsSlice

\* A new buffer of bytes is empty.
LEMMA NewBytes ==
    ASSUME NEW n \in Nat
    PROVE  BytesBuf(WithCapacity(n)) /\ AsSlice(WithCapacity(n)) = <<>>
<1>1. BufOK(WithCapacity(n)) /\ AsSlice(WithCapacity(n)) = <<>>
  BY WithCapacityOK
<1>2. WithCapacity(n).data \in Seq(Byte)
  BY EmptySeq DEF WithCapacity
<1>. QED  BY <1>1, <1>2 DEF BytesBuf

\* Bytes that are pushed follow the unread ones.
LEMMA PushBytes ==
    ASSUME NEW b, BytesBuf(b), NEW bytes \in Seq(Byte)
    PROVE  BytesBuf(Push(b, bytes)) /\ AsSlice(Push(b, bytes)) = Join(AsSlice(b), bytes)
<1>1. BufOK(b) /\ b.data \in Seq(Byte)
  BY DEF BytesBuf
<1>2. bytes \in Seq(Nat)
  BY SeqOfByte
<1>3. BufOK(Push(b, bytes)) /\ AsSlice(Push(b, bytes)) = AsSlice(b) \o bytes
  BY <1>1, <1>2, PushAppends
<1>4. Push(b, bytes).data = b.data \o bytes
  BY DEF Push
<1>5. b.data \o bytes \in Seq(Byte)
  <2>1. ASSUME NEW d \in Seq(Byte) PROVE d \o bytes \in Seq(Byte)
    BY Cat
  <2>. QED  BY <1>1, <2>1
<1>. QED  BY <1>3, <1>4, <1>5 DEF BytesBuf, Join

\* Compaction keeps the unread bytes.
LEMMA CompactBytes ==
    ASSUME NEW b, BytesBuf(b), NEW extra \in Nat
    PROVE  BytesBuf(CompactIfNeeded(b, extra)) /\ AsSlice(CompactIfNeeded(b, extra)) = AsSlice(b)
<1>1. BufOK(b) /\ b.data \in Seq(Byte) /\ AsSlice(b) \in Seq(Byte)
  BY SliceOfBytes DEF BytesBuf
<1>2. BufOK(CompactIfNeeded(b, extra)) /\ AsSlice(CompactIfNeeded(b, extra)) = AsSlice(b)
  BY <1>1, CompactKeeps
<1>3. CompactIfNeeded(b, extra).data \in Seq(Byte)
  <2>1. CASE Len(b.data) + extra > b.capacity /\ b.head > 0
    <3>1. CompactIfNeeded(b, extra) = [data |-> AsSlice(b), head |-> 0, capacity |-> b.capacity]
      BY <2>1 DEF CompactIfNeeded, Compact
    <3>2. CompactIfNeeded(b, extra).data = AsSlice(b)
      BY <3>1
    <3>. QED  BY <1>1, <3>2
  <2>2. CASE ~(Len(b.data) + extra > b.capacity /\ b.head > 0)
    BY <1>1, <2>2 DEF CompactIfNeeded
  <2>. QED  BY <2>1, <2>2
<1>. QED  BY <1>2, <1>3 DEF BytesBuf

\* Bytes that extend a buffer follow the unread ones.
LEMMA ExtendBytes ==
    ASSUME NEW b, BytesBuf(b), NEW bytes \in Seq(Byte)
    PROVE  BytesBuf(Extend(b, bytes)) /\ AsSlice(Extend(b, bytes)) = Join(AsSlice(b), bytes)
<1>1. CASE bytes = <<>>
  <2>1. AsSlice(b) \in Seq(Byte)
    BY SliceOfBytes
  <2>2. Join(AsSlice(b), bytes) = AsSlice(b)
    BY <1>1, <2>1, JoinNone
  <2>. QED  BY <1>1, <2>2 DEF Extend
<1>2. CASE bytes # <<>>
  <2>1. Extend(b, bytes) = Push(CompactIfNeeded(b, Len(bytes)), bytes)
    BY <1>2 DEF Extend
  <2>2. Len(bytes) \in Nat
    BY LenProperties
  <2>. QED  BY <2>1, <2>2, CompactBytes, PushBytes
<1>. QED  BY <1>1, <1>2

\* What was unread is what is consumed, and what is left.
LEMMA ConsumeBytes ==
    ASSUME NEW b, BytesBuf(b), NEW n \in 0 .. BufLen(b)
    PROVE  /\ BytesBuf(Consume(b, n))
           /\ Prefix(AsSlice(b), n) \in Seq(Byte)
           /\ Len(Prefix(AsSlice(b), n)) = n
           /\ AsSlice(Consume(b, n)) \in Seq(Byte)
           /\ Join(Prefix(AsSlice(b), n), AsSlice(Consume(b, n))) = AsSlice(b)
<1>1. /\ BufOK(b) /\ AsSlice(b) \in Seq(Byte)
      /\ Len(AsSlice(b)) = BufLen(b) /\ BufLen(b) \in Nat /\ b.data \in Seq(Byte)
  BY SliceOfBytes DEF BytesBuf
<1>2. BufOK(Consume(b, n)) /\ AsSlice(Consume(b, n)) = SubSeq(AsSlice(b), n + 1, BufLen(b))
  BY <1>1, ConsumeDrops
<1>3. Consume(b, n).data \in Seq(Byte)
  <2>1. <<>> \in Seq(Byte)
    BY EmptySeq
  <2>. QED  BY <1>1, <2>1 DEF Consume, WithCapacity
<1>4. ASSUME NEW d \in Seq(Byte), NEW k \in 0 .. Len(d)
      PROVE  /\ SubSeq(d, 1, k) \in Seq(Byte) /\ Len(SubSeq(d, 1, k)) = k
             /\ SubSeq(d, 1, k) \o SubSeq(d, k + 1, Len(d)) = d
  BY Split
<1>5. /\ Prefix(AsSlice(b), n) \in Seq(Byte) /\ Len(Prefix(AsSlice(b), n)) = n
      /\ Prefix(AsSlice(b), n) \o SubSeq(AsSlice(b), n + 1, BufLen(b)) = AsSlice(b)
  BY <1>1, <1>4 DEF Prefix
<1>6. BytesBuf(Consume(b, n))
  BY <1>2, <1>3 DEF BytesBuf
<1>7. AsSlice(Consume(b, n)) \in Seq(Byte)
  BY <1>6, SliceOfBytes
<1>. QED  BY <1>2, <1>5, <1>6, <1>7 DEF Join

-----------------------------------------------------------------------------
(* The stream.                                                            *)

\* What is no header is bytes too.
LEMMA RawsAreBytes == \A raw \in Raws : raw \in Seq(Byte)
BY RawsAssumption

\* The bytes of the first frame come first.
LEMMA StreamsTail ==
    ASSUME NEW w \in Seq(Entry), w # <<>>, NEW br \in BOOLEAN, NEW s, Streams(s, w, br)
    PROVE  /\ Head(w) \in Entry /\ Tail(w) \in Seq(Entry) /\ Head(w).bytes \in Seq(Byte)
           /\ \E rest \in Seq(Byte) : s = Join(Head(w).bytes, rest) /\ Streams(rest, Tail(w), br)
<1> DEFINE h == Head(w).bytes
           t == BytesOf(Tail(w))
<1>1. Head(w) \in Entry /\ Tail(w) \in Seq(Entry) /\ h \in Seq(Byte) /\ BytesOf(w) = Join(h, t)
  BY BytesOfTail DEF Join
<1>2. t \in Seq(Byte)
  BY <1>1, BytesOfType
<1> HIDE DEF h, t
<1>3. CASE br
  <2>1. PICK raw \in Raws : s = Join(BytesOf(w), raw)
    BY <1>3 DEF Streams, Join
  <2>2. raw \in Seq(Byte)
    BY RawsAreBytes
  <2>3. Join(Join(h, t), raw) = Join(h, Join(t, raw))
    BY <1>1, <1>2, <2>2, JoinAssoc
  <2>4. Join(t, raw) \in Seq(Byte)
    BY <1>2, <2>2, JoinType
  <2>5. Streams(Join(t, raw), Tail(w), br)
    BY <1>3 DEF Streams, t, Join
  <2>. QED  BY <1>1, <2>1, <2>3, <2>4, <2>5 DEF h
<1>4. CASE ~br
  <2>1. s = Join(h, t)
    BY <1>1, <1>4 DEF Streams
  <2>2. Streams(t, Tail(w), br)
    BY <1>4 DEF Streams, t
  <2>. QED  BY <1>1, <1>2, <2>1, <2>2 DEF h
<1>. QED  BY <1>3, <1>4

\* When the bytes of the first frame are taken, those of the others follow.
LEMMA StreamsDrop ==
    ASSUME NEW w \in Seq(Entry), w # <<>>, NEW br \in BOOLEAN,
           NEW p \in Seq(Byte), NEW q \in Seq(Byte), Streams(Join(p, q), w, br),
           Len(p) = Len(Head(w).bytes)
    PROVE  p = Head(w).bytes /\ Streams(q, Tail(w), br)
<1> DEFINE h == Head(w).bytes
           s == Join(p, q)
<1>1. Streams(s, w, br)
  OBVIOUS
<1> HIDE DEF s
<1>2. h \in Seq(Byte) /\ \E rest \in Seq(Byte) : s = Join(h, rest) /\ Streams(rest, Tail(w), br)
  BY <1>1, StreamsTail
<1> HIDE DEF h
<1>3. PICK rest \in Seq(Byte) : s = Join(h, rest) /\ Streams(rest, Tail(w), br)
  BY <1>2
<1>4. Join(p, q) = Join(h, rest) /\ Len(p) = Len(h)
  BY <1>3 DEF s, h
<1>5. p = h /\ q = rest
  BY <1>2, <1>4, JoinEqual
<1>. QED  BY <1>3, <1>5 DEF h

\* The bytes of a new frame come last.
LEMMA StreamsAppend ==
    ASSUME NEW w \in Seq(Entry), NEW s, Streams(s, w, FALSE), NEW x \in Entry
    PROVE  Streams(Join(s, x.bytes), Append(w, x), FALSE)
BY BytesOfAppend DEF Streams, Join

\* Then those that are no header.
LEMMA StreamsBreak ==
    ASSUME NEW w \in Seq(Entry), NEW s, Streams(s, w, FALSE), NEW raw \in Raws
    PROVE  Streams(Join(s, raw), w, TRUE)
BY DEF Streams, Join

\* Without a frame there is nothing, or only what is no header.
LEMMA StreamsNone ==
    ASSUME NEW br \in BOOLEAN, NEW s, Streams(s, <<>>, br)
    PROVE  IF br THEN s \in Raws ELSE s = <<>>
<1>1. \A raw \in Raws : <<>> \o raw = raw
  BY RawsAreBytes, ConcatEmptySeq
<1>. QED  BY <1>1, BytesOfNone DEF Streams

-----------------------------------------------------------------------------

\* The parts of the bytes of a frame.
LEMMA EntryParts ==
    ASSUME NEW x, NEW by, EntryOK(x, by)
    PROVE  LET header == HeaderOf(x.frame, x.key)
               body == SubSeq(x.bytes, Len(header) + 1, Len(x.bytes))
           IN  /\ x \in Entry /\ x.frame \in Frames /\ x.key \in Keys /\ x.bytes \in Seq(Byte)
               /\ header \in Seq(Byte) /\ body \in Seq(Byte) /\ x.bytes = Join(header, body)
               /\ Len(body) = Len(x.frame.payload)
               /\ Unmask(body, x.key) = x.frame.payload
<1> DEFINE header == HeaderOf(x.frame, x.key)
           body == SubSeq(x.bytes, Len(header) + 1, Len(x.bytes))
<1>1. /\ x \in Entry /\ Len(x.bytes) = Len(header) + Len(x.frame.payload)
      /\ StartsWith(x.bytes, header) /\ Unmask(body, x.key) = x.frame.payload
  BY DEF EntryOK
<1>2. x.frame \in Frames /\ x.key \in Keys /\ x.bytes \in Seq(Byte)
  BY <1>1 DEF Entry
<1>3. header \in Seq(Byte) /\ Len(header) \in Nat
  BY <1>2, HeaderType
<1>4. Len(x.frame.payload) \in Nat
  BY <1>2, FrameFacts
<1> HIDE DEF header
<1>5. body \in Seq(Byte) /\ x.bytes = Join(header, body) /\ Len(body) = Len(x.bytes) - Len(header)
  BY <1>1, <1>2, <1>3, StartsJoin
<1> HIDE DEF body
<1>6. Len(body) = Len(x.frame.payload)
  BY <1>1, <1>3, <1>4, <1>5
<1>. QED  BY <1>1, <1>2, <1>3, <1>5, <1>6 DEF body, header

\* The header of a frame, and its bytes, are read as what was written, whatever follows.
LEMMA EntryParse ==
    ASSUME NEW x, NEW by, EntryOK(x, by), NEW b \in Seq(Byte), StartsWith(b, HeaderOf(x.frame, x.key))
    PROVE  /\ ParseHeader(b).result = "ok"
           /\ ParseHeader(b).fin = x.frame.fin
           /\ ParseHeader(b).op = x.frame.op
           /\ ParseHeader(b).payload_len = Len(x.frame.payload)
           /\ ParseHeader(b).mask = x.key
           /\ ParseHeader(b).size = Len(HeaderOf(x.frame, x.key))
<1>1. x.frame \in Frames /\ x.key \in Keys
  BY EntryParts
<1>2. x.frame.fin \in BOOLEAN /\ x.frame.op \in OpCodes /\ Len(x.frame.payload) \in Nat
  BY <1>1, FrameFacts
<1>3. Legal(x.frame.fin, x.frame.op, Len(x.frame.payload))
  BY DEF EntryOK
<1>. QED  BY <1>1, <1>2, <1>3, ParseEncoded DEF HeaderOf

\* The bytes of a frame start with its header, whatever follows.
LEMMA EntryStarts ==
    ASSUME NEW x, NEW by, EntryOK(x, by), NEW rest \in Seq(Byte)
    PROVE  Join(x.bytes, rest) \in Seq(Byte) /\ StartsWith(Join(x.bytes, rest), HeaderOf(x.frame, x.key))
<1>1. /\ x.bytes \in Seq(Byte) /\ HeaderOf(x.frame, x.key) \in Seq(Byte)
      /\ StartsWith(x.bytes, HeaderOf(x.frame, x.key))
  BY EntryParts DEF EntryOK
<1>2. ASSUME NEW b \in Seq(Byte) PROVE Join(b, rest) \in Seq(Byte)
  BY JoinType
<1>. QED  BY <1>1, <1>2, StartsMore

\* The bytes of a sequence after a part of it.
LEMMA ReadBody ==
    ASSUME NEW S, NEW b \in Seq(S), NEW t \in Seq(S), NEW u \in Seq(S), NEW v \in Seq(S), NEW r \in Seq(S),
           Join(b, t) = Join(Join(u, v), r), Len(u) + Len(v) <= Len(b)
    PROVE  /\ SubSeq(b, Len(u) + 1, Len(u) + Len(v)) = v
           /\ Prefix(b, Len(u) + Len(v)) = Join(u, v)
<1> DEFINE n == Len(u) + Len(v)
<1>1. Join(u, v) \in Seq(S) /\ Len(Join(u, v)) = n /\ Len(u) \in Nat /\ Len(v) \in Nat
  BY JoinType
<1>2. n \in 0 .. Len(b)
  BY <1>1, LenProperties
<1> DEFINE p == Prefix(b, n)
           q == SubSeq(b, n + 1, Len(b))
<1>3. p \in Seq(S) /\ q \in Seq(S) /\ Len(p) = n /\ Join(p, q) = b
  BY <1>2, PrefixJoin
<1>4. \A i, j \in Nat : (1 <= i /\ j <= n) => SubSeq(p, i, j) = SubSeq(b, i, j)
  BY <1>2, PrefixFacts
<1> HIDE DEF p, q
<1>5. Join(p, Join(q, t)) = Join(Join(u, v), r) /\ Join(q, t) \in Seq(S)
  BY <1>3, JoinAssoc, JoinType
<1>6. p = Join(u, v)
  BY <1>1, <1>3, <1>5, JoinEqual
<1>7. SubSeq(Join(u, v), Len(u) + 1, n) = v
  <2>1. SubSeq(u \o v, Len(u) + 1, Len(u \o v)) = v
    BY SplitCat
  <2>. QED  BY <1>1, <2>1 DEF Join
<1>8. SubSeq(b, Len(u) + 1, n) = SubSeq(p, Len(u) + 1, n)
  <2>1. Len(u) + 1 \in Nat /\ n \in Nat /\ 1 <= Len(u) + 1 /\ n <= n
    BY <1>1
  <2>. QED  BY <1>4, <2>1
<1>. QED  BY <1>6, <1>7, <1>8 DEF p

-----------------------------------------------------------------------------
(* What the peer reads.                                                   *)

\* The bytes on the way are concatenations of bytes.
LEMMA Way ==
    ASSUME WireInv
    PROVE  LET p == parser.partial
               q == parser.payload
               r == AsSlice(recv_buf)
               t == AsSlice(tx)
           IN  /\ p \in Seq(Byte) /\ q \in Seq(Byte) /\ r \in Seq(Byte) /\ t \in Seq(Byte)
               /\ BytesBuf(tx) /\ BytesBuf(recv_buf)
               /\ Len(r) = BufLen(recv_buf) /\ Len(t) = BufLen(tx)
               /\ written \in Seq(Entry) /\ broken \in BOOLEAN
               /\ parser.header # Bad => Streams(Join(Join(Join(p, q), r), t), written, broken)
<1>1. /\ BytesBuf(tx) /\ BytesBuf(recv_buf) /\ parser.partial \in Seq(Byte) /\ parser.payload \in Seq(Byte)
      /\ written \in Seq(Entry) /\ broken \in BOOLEAN /\ (parser.header # Bad => Streams(OnTheWay, written, broken))
  BY DEF WireInv, StateTypes, ParserTypes, Stream
<1>2. /\ AsSlice(tx) \in Seq(Byte) /\ AsSlice(recv_buf) \in Seq(Byte)
      /\ Len(AsSlice(recv_buf)) = BufLen(recv_buf) /\ Len(AsSlice(tx)) = BufLen(tx)
  BY <1>1, SliceOfBytes
<1>3. OnTheWay = Join(Join(Join(parser.partial, parser.payload), AsSlice(recv_buf)), AsSlice(tx))
  BY DEF OnTheWay, Join
<1>. QED  BY <1>1, <1>2, <1>3

\* A header is refused only after what is no header was written.
LEMMA NotRefused ==
    ASSUME WireInv, ~broken \/ parser.header.result # "err"
    PROVE  parser.header # Bad
BY DEF WireInv, ParserState, Gathers, Reads, Refused, More, Bad

\* What is known of the first frame not yet read.
LEMMA FirstEntry ==
    ASSUME WireInv, written # <<>>
    PROVE  EntryOK(Head(written), role)
<1>1. written \in Seq(Entry) /\ \A i \in 1 .. Len(written) : EntryOK(written[i], role)
  BY DEF WireInv, StateTypes
<1>2. Len(written) \in Nat /\ Len(written) # 0
  BY <1>1, LenProperties, EmptySeq
<1>3. 1 \in 1 .. Len(written)
  BY <1>2
<1>4. Head(written) = written[1]
  BY <1>1, HeadTailProperties
<1>. QED  BY <1>1, <1>3, <1>4

\* The parser of the model is idle while the client writes.
LEMMA ClientIdle ==
    ASSUME WireInv, role = "client"
    PROVE  ~broken /\ parser = Idle /\ parser.header = More /\ parser.partial = <<>> /\ parser.payload = <<>>
BY DEF WireInv, StateTypes, ParserTypes, Idle

\* What a peer reads is the first frame written.
LEMMA ArrivedIs ==
    ASSUME WireInv, NEW f \in Arrived
    PROVE  /\ role = "client"
           /\ written # <<>>
           /\ f.frame = Head(written).frame
           /\ f.key = Head(written).key
           /\ f.size = Len(Head(written).bytes)
           /\ f.size \in 0 .. BufLen(recv_buf)
<1> DEFINE b == AsSlice(recv_buf)
           t == AsSlice(tx)
           h == ParseHeader(b)
           size == h.size + h.payload_len
<1>1. /\ role # "server" /\ h.result = "ok" /\ ~(Len(b) < size)
      /\ f = [frame |-> [fin |-> h.fin, op |-> h.op,
                         payload |-> Unmask(SubSeq(b, h.size + 1, size), h.mask)],
              key |-> h.mask, size |-> size]
  BY DEF Arrived
<1>2. role = "client"
  BY <1>1 DEF WireInv, StateTypes
<1>3. ~broken /\ parser.partial = <<>> /\ parser.payload = <<>>
  BY <1>2, ClientIdle
<1>4. /\ b \in Seq(Byte) /\ t \in Seq(Byte) /\ written \in Seq(Entry)
      /\ Len(b) = BufLen(recv_buf)
      /\ Streams(Join(Join(Join(<<>>, <<>>), b), t), written, FALSE)
  BY <1>3, NotRefused, Way
<1> HIDE DEF b, t, h, size
<1>5. Join(Join(Join(<<>>, <<>>), b), t) = Join(b, t)
  <2>1. <<>> \in Seq(Byte)
    BY EmptySeq
  <2>. QED  BY <1>4, <2>1, JoinNone
<1>6. Streams(Join(b, t), written, FALSE) /\ Join(b, t) \in Seq(Byte)
  BY <1>4, <1>5, JoinType
<1>7. Len(b) >= 2
  BY <1>1, <1>4, ParseFields DEF h
<1>8. written # <<>>
  <2>1. SUFFICES ASSUME written = <<>> PROVE FALSE
    OBVIOUS
  <2>2. Join(b, t) = <<>>
    BY <1>6, <2>1, StreamsNone
  <2>3. Len(Join(b, t)) = 0
    BY <2>2, EmptySeq
  <2>4. Len(Join(b, t)) = Len(b) + Len(t) /\ Len(b) \in Nat /\ Len(t) \in Nat
    BY <1>4, JoinType
  <2>. QED  BY <1>7, <2>3, <2>4
<1> DEFINE x == Head(written)
           header == HeaderOf(x.frame, x.key)
           body == SubSeq(x.bytes, Len(header) + 1, Len(x.bytes))
<1>9. EntryOK(x, role)
  BY <1>8, FirstEntry
<1>10. PICK rest \in Seq(Byte) : Join(b, t) = Join(x.bytes, rest)
  <2> DEFINE z == Join(b, t)
  <2>1. FALSE \in BOOLEAN /\ written \in Seq(Entry) /\ Streams(z, written, FALSE)
    BY <1>4, <1>6
  <2> HIDE DEF z
  <2>2. \E rest \in Seq(Byte) : z = Join(Head(written).bytes, rest) /\ Streams(rest, Tail(written), FALSE)
    BY <1>8, <2>1, StreamsTail
  <2>. QED  BY <2>2 DEF z
<1> HIDE DEF x
<1>11. /\ x.frame \in Frames /\ x.key \in Keys /\ x.bytes \in Seq(Byte)
       /\ header \in Seq(Byte) /\ body \in Seq(Byte) /\ x.bytes = Join(header, body)
       /\ Len(body) = Len(x.frame.payload)
       /\ Unmask(body, x.key) = x.frame.payload
  BY <1>9, EntryParts
<1>12. StartsWith(Join(b, t), header)
  BY <1>9, <1>10, EntryStarts
<1> HIDE DEF header, body
<1> DEFINE g == ParseHeader(Join(b, t))
<1>13. /\ g.fin = x.frame.fin /\ g.op = x.frame.op /\ g.payload_len = Len(x.frame.payload)
       /\ g.mask = x.key /\ g.size = Len(header)
  BY <1>6, <1>9, <1>12, EntryParse DEF header
<1>14. g = h
  <2>1. Prefix(Join(b, t), Len(b)) = b /\ Len(b) \in 0 .. Len(Join(b, t))
    <3>1. b \in Seq(Byte) /\ t \in Seq(Byte)
      BY <1>4
    <3>2. /\ Prefix(Join(b, t), Len(b)) = b
          /\ Len(Join(b, t)) = Len(b) + Len(t) /\ Len(b) \in Nat /\ Len(t) \in Nat
      BY <3>1, JoinType
    <3>. QED  BY <3>2
  <2>2. ParseHeader(Prefix(Join(b, t), Len(b))).result # "more"
    BY <1>1, <2>1 DEF h
  <2>3. ParseHeader(Join(b, t)) = ParseHeader(Prefix(Join(b, t), Len(b)))
    BY <1>6, <2>1, <2>2, ParseStable
  <2>. QED  BY <2>1, <2>3 DEF h
<1> HIDE DEF g
<1>15. h.size = Len(header) /\ h.payload_len = Len(body) /\ size = Len(header) + Len(body)
  BY <1>11, <1>13, <1>14 DEF size
<1>16. Len(header) \in Nat /\ Len(body) \in Nat /\ Len(x.bytes) = Len(header) + Len(body)
  BY <1>11, JoinType
<1>17. Len(b) \in Nat /\ size \in 0 .. Len(b)
  BY <1>1, <1>4, <1>15, <1>16, LenProperties
<1>18. SubSeq(b, h.size + 1, size) = body
  <2>1. Join(b, t) = Join(Join(header, body), rest) /\ Len(header) + Len(body) <= Len(b)
    BY <1>10, <1>11, <1>15, <1>17
  <2>2. SubSeq(b, Len(header) + 1, Len(header) + Len(body)) = body
    <3>1. b \in Seq(Byte) /\ t \in Seq(Byte) /\ header \in Seq(Byte) /\ body \in Seq(Byte)
      BY <1>4, <1>11
    <3>. QED  BY <2>1, <3>1, ReadBody
  <2>. QED  BY <1>15, <2>2
<1>19. [fin |-> h.fin, op |-> h.op, payload |-> Unmask(SubSeq(b, h.size + 1, size), h.mask)] = x.frame
  <2>1. x.frame = [fin |-> x.frame.fin, op |-> x.frame.op, payload |-> x.frame.payload]
    BY <1>11, FrameFacts
  <2>2. h.fin = x.frame.fin /\ h.op = x.frame.op /\ h.mask = x.key
    BY <1>13, <1>14
  <2>3. Unmask(SubSeq(b, h.size + 1, size), h.mask) = x.frame.payload
    BY <1>11, <1>18, <2>2
  <2>. QED  BY <2>1, <2>2, <2>3, Zenon
<1>20. f.frame = x.frame /\ f.key = x.key /\ f.size = size
  <2>1. f = [frame |-> x.frame, key |-> x.key, size |-> size]
    BY <1>1, <1>13, <1>14, <1>19
  <2>. QED  BY <2>1
<1>. QED  BY <1>2, <1>4, <1>8, <1>15, <1>16, <1>17, <1>20 DEF x

-----------------------------------------------------------------------------
(* What the invariant says.                                                 *)

\* The invariant implies TypeOK.
LEMMA InvTypeOK ==
    ASSUME WireInv
    PROVE  TypeOK
<1>1. BytesBuf(tx) /\ BytesBuf(recv_buf) /\ role \in {"client", "server"} /\ (broken => role = "server")
  BY DEF WireInv, StateTypes
<1>3. mask_pool_cursor \in 0 .. PoolBytes
  BY DEF WireInv, MaskTypes
<1>4. ASSUME NEW b \in {tx, recv_buf}
      PROVE  BufOK(b) /\ \A i \in 1 .. Len(b.data) : b.data[i] \in Byte
  BY <1>1, <1>4, SliceOfBytes
<1>. QED  BY <1>1, <1>3, <1>4 DEF TypeOK

\* The invariant implies StreamIntact.
LEMMA InvStreamIntact ==
    ASSUME WireInv
    PROVE  StreamIntact
<1>1. written \in Seq(Entry) /\ (parser.header # Bad => Streams(OnTheWay, written, broken))
  BY DEF WireInv, StateTypes, Stream
<1>2. CASE broken /\ parser.header # Bad
  <2>1. PICK raw \in Raws : OnTheWay = Join(BytesOf(written), raw)
    BY <1>1, <1>2 DEF Streams, Join
  <2>2. StartsWith(Join(BytesOf(written), raw), BytesOf(written))
    BY <1>1, BytesOfType, RawsAreBytes, JoinType
  <2>. QED  BY <1>2, <2>1, <2>2 DEF StreamIntact
<1>3. CASE ~broken
  BY <1>1, <1>3, NotRefused DEF Streams, StreamIntact
<1>4. CASE broken /\ parser.header = Bad
  <2>1. written = <<>>
    BY <1>4 DEF WireInv, ParserState, Gathers, Reads, Refused, More, Bad
  <2>2. OnTheWay \in Seq(Byte)
    BY Way, JoinType DEF OnTheWay, Join
  <2>3. Len(<<>>) = 0 /\ Len(OnTheWay) \in Nat /\ Prefix(OnTheWay, 0) = <<>>
    BY <2>2, EmptySeq, LenProperties, PrefixFacts
  <2>4. StartsWith(OnTheWay, <<>>)
    BY <2>3 DEF StartsWith
  <2>. QED  BY <1>4, <2>1, <2>4, BytesOfNone DEF StreamIntact
<1>. QED  BY <1>2, <1>3, <1>4

\* parse_close_payload takes every code that is_valid_endpoint_sent does.
LEMMA CloseCode ==
    ASSUME NEW p \in Seq(Byte), Len(p) >= 2, IsValidEndpointSent(CodeOf(p))
    PROVE  ParseClosePayload(p) = "code"
<1>1. IsValidReceived(CodeOf(p))
  BY DEF IsValidEndpointSent, IsValidReceived
<1>2. Len(p) \in Nat
  BY LenProperties
<1>3. Len(p) # 0 /\ Len(p) # 1
  <2>1. \A n \in Nat : n >= 2 => (n # 0 /\ n # 1)
    OBVIOUS
  <2>. QED  BY <1>2, <2>1, Zenon
<1>4. p # <<>>
  BY <1>3, EmptySeq
<1>. QED  BY <1>1, <1>3, <1>4 DEF ParseClosePayload

\* A Close frame that send_close lets through has a payload that is taken.
LEMMA CloseSent ==
    ASSUME NEW f \in Frames, Sendable(f), f.op = Close
    PROVE  ParseClosePayload(f.payload) = "code"
<1>1. f.payload \in Seq(Byte)
  BY FrameFacts
<1>2. Len(f.payload) >= 2 /\ IsValidEndpointSent(CodeOf(f.payload))
  BY DEF Sendable
<1>. QED  BY <1>1, <1>2, CloseCode

\* The invariant implies ReadAsWritten.
LEMMA InvReadAsWritten ==
    ASSUME WireInv
    PROVE  ReadAsWritten
<1>1. ASSUME NEW f \in Arrived
      PROVE  /\ written # <<>>
             /\ f.frame = Head(written).frame
             /\ f.key = Head(written).key
             /\ f.frame.op = Close => ParseClosePayload(f.frame.payload) = "code"
  <2>1. role = "client" /\ written # <<>> /\ f.frame = Head(written).frame /\ f.key = Head(written).key
    BY ArrivedIs
  <2>2. EntryOK(Head(written), role)
    BY <2>1, FirstEntry
  <2>3. Head(written).frame \in Frames /\ Sendable(Head(written).frame)
    BY <2>1, <2>2, EntryParts DEF EntryOK
  <2>. QED  BY <2>1, <2>3, CloseSent
<1>2. CASE Gathers
  <2>1. parser.header.result # "ok" /\ parser.header.result # "err"
    BY <1>2 DEF Gathers, More
  <2>. QED  BY <1>1, <2>1 DEF ReadAsWritten
<1>3. CASE Reads
  <2> DEFINE f == Head(written).frame
             h == parser.header
  <2>1. /\ h.result = "ok" /\ written # <<>>
        /\ h.fin = f.fin /\ h.op = f.op /\ h.payload_len = Len(f.payload)
    BY <1>3 DEF Reads
  <2> HIDE DEF f, h
  <2>2. <<h.fin, h.op, h.payload_len>> = <<f.fin, f.op, Len(f.payload)>>
    BY <2>1
  <2>3. h.result # "err"
    BY <2>1
  <2>. QED  BY <1>1, <2>1, <2>2, <2>3 DEF ReadAsWritten, f, h
<1>4. CASE Refused
  <2>1. parser.header.result # "ok" /\ broken /\ written = <<>>
    BY <1>4 DEF Refused, Bad
  <2>. QED  BY <1>1, <2>1 DEF ReadAsWritten
<1>. QED  BY <1>2, <1>3, <1>4 DEF WireInv, ParserState

\* The invariant implies HeadersAgree.
LEMMA InvHeadersAgree ==
    ASSUME WireInv
    PROVE  HeadersAgree
<1> DEFINE b == Join(parser.partial, AsSlice(recv_buf))
           n == Len(b) - 1
           before == Prefix(b, n)
           s == StreamHeader(b)
           f == FastHeader(b)
           p == ParseHeader(b)
<1>1. b \in Seq(Byte)
  BY Way, JoinType
<1>2. SUFFICES ASSUME b # <<>>
               PROVE  /\ s.result # "unreachable"
                      /\ (s.result = "ok") = (p.result = "ok" /\ p.mask = <<>>)
                      /\ f.result = "ok" =>
                            (s.result = "ok" /\ s.fin
                             /\ <<s.op, s.payload_len, s.size>> = <<f.op, f.payload_len, f.size>>)
                      /\ f.result = "err" => s.result \in {"more", "err"}
                      /\ (s.result = "ok" /\ s.fin /\ s.op \in {Text, Binary} /\ s.size < 10) =>
                            f.result = "ok"
                      /\ ParseHeader(before).result # "more" => ParseHeader(before) = p
                      /\ FastHeader(before).result # "more" => FastHeader(before) = f
  BY DEF HeadersAgree, Join
<1> HIDE DEF b
<1>3. n \in 0 .. Len(b)
  BY <1>1, <1>2, LenProperties, EmptySeq
<1>4. s.result # "unreachable" /\ (s.result = "ok") = (p.result = "ok" /\ p.mask = <<>>)
  BY <1>1, StreamTakes
<1>5. ASSUME f.result = "ok"
      PROVE  s.result = "ok" /\ s.fin
             /\ <<s.op, s.payload_len, s.size>> = <<f.op, f.payload_len, f.size>>
  <2>1. s.result = "ok" /\ s.fin /\ s.op = f.op /\ s.payload_len = f.payload_len /\ s.size = f.size
    BY <1>1, <1>5, FastTakes
  <2> HIDE DEF s, f
  <2>. QED  BY <2>1
<1>6. f.result = "err" => s.result \in {"more", "err"}
  BY <1>1, FastRefuses
<1>7. (s.result = "ok" /\ s.fin /\ s.op \in {Text, Binary} /\ s.size < 10) => f.result = "ok"
  BY <1>1, FastComplete
<1> HIDE DEF n
<1>8. ParseHeader(before).result # "more" => ParseHeader(before) = p
  BY <1>1, <1>3, ParseStable
<1>9. FastHeader(before).result # "more" => FastHeader(before) = f
  BY <1>1, <1>3, FastStable
<1> HIDE DEF before, s, f, p
<1>. QED  BY <1>4, <1>5, <1>6, <1>7, <1>8, <1>9

\* The invariant implies MaskKeysFresh.
LEMMA InvMaskKeysFresh ==
    ASSUME WireInv
    PROVE  MaskKeysFresh
<1>1. role = "client" =>
        \A i, j \in 1 .. Len(keys), k, l \in 1 .. 4 : keys[i][k] = keys[j][l] => i = j
  BY DEF WireInv, MaskPlaces, Places
<1>. QED  BY <1>1 DEF MaskKeysFresh

-----------------------------------------------------------------------------
(* What is written.                                                       *)

\* A part that moves from what follows to what is before.
LEMMA JoinMove ==
    ASSUME NEW S, NEW a \in Seq(S), NEW r \in Seq(S), NEW x \in Seq(S), NEW y \in Seq(S)
    PROVE  Join(Join(a, Join(r, x)), y) = Join(Join(a, r), Join(x, y))
<1>1. Join(a, r) \in Seq(S) /\ Join(r, x) \in Seq(S)
  BY JoinType
<1>2. Join(a, Join(r, x)) = Join(Join(a, r), x)
  BY JoinAssoc
<1>3. Join(Join(Join(a, r), x), y) = Join(Join(a, r), Join(x, y))
  BY <1>1, JoinAssoc
<1>. QED  BY <1>2, <1>3

\* A frame as it is written.
LEMMA MakeEntry ==
    ASSUME NEW f \in Frames, NEW key \in Keys, NEW body \in Seq(Byte), NEW by,
           Legal(f.fin, f.op, Len(f.payload)),
           Len(body) = Len(f.payload), Unmask(body, key) = f.payload,
           by = "client" => Sendable(f), by = "server" => key = <<>>
    PROVE  EntryOK([frame |-> f, key |-> key, bytes |-> Join(HeaderOf(f, key), body)], by)
<1> DEFINE header == HeaderOf(f, key)
           bytes == Join(header, body)
           x == [frame |-> f, key |-> key, bytes |-> bytes]
<1>1. header \in Seq(Byte)
  BY HeaderType
<1> HIDE DEF header
<1>2. bytes \in Seq(Byte) /\ Len(bytes) = Len(header) + Len(body) /\ StartsWith(bytes, header)
  BY <1>1, JoinType
<1>3. SubSeq(bytes, Len(header) + 1, Len(bytes)) = body
  BY <1>1, SplitCat DEF Join
<1> HIDE DEF bytes
<1>4. x.frame = f /\ x.key = key /\ x.bytes = bytes /\ x \in Entry
  BY <1>2 DEF Entry
<1> HIDE DEF x
<1>5. EntryOK(x, by)
  BY <1>2, <1>3, <1>4 DEF EntryOK, header
<1>. QED  BY <1>5 DEF x, bytes, header

\* What the client sends is what the protocol allows.
LEMMA SendableLegal ==
    ASSUME NEW f \in Frames, Sendable(f)
    PROVE  Legal(f.fin, f.op, Len(f.payload))
<1>1. Len(f.payload) <= Longest
  BY FrameFacts
<1>. QED  BY <1>1 DEF Sendable, Legal

\* Without a key there is nothing to unmask.
LEMMA NoMask ==
    ASSUME NEW body
    PROVE  Unmask(body, <<>>) = body
BY DEF Unmask

\* A frame more: the first one stays.
LEMMA AppendEntry ==
    ASSUME NEW w \in Seq(Entry), NEW by, \A i \in 1 .. Len(w) : EntryOK(w[i], by),
           NEW x, EntryOK(x, by)
    PROVE  /\ Append(w, x) \in Seq(Entry)
           /\ \A i \in 1 .. Len(Append(w, x)) : EntryOK(Append(w, x)[i], by)
           /\ Append(w, x) # <<>>
           /\ w # <<>> => Head(Append(w, x)) = Head(w)
<1> DEFINE v == Append(w, x)
<1>0. x \in Entry /\ Len(w) \in Nat
  BY LenProperties DEF EntryOK
<1>1. /\ v \in Seq(Entry) /\ Len(v) = Len(w) + 1
      /\ \A i \in 1 .. Len(w) : v[i] = w[i]
      /\ v[Len(w) + 1] = x
  BY <1>0, AppendProperties
<1> HIDE DEF v
<1>2. ASSUME NEW i \in 1 .. Len(v) PROVE EntryOK(v[i], by)
  <2>1. CASE i = Len(w) + 1
    <3>1. v[i] = x
      BY <1>1, <2>1
    <3>. QED  BY <3>1
  <2>2. CASE i # Len(w) + 1
    <3>1. i \in 1 .. Len(w)
      BY <1>0, <1>1, <2>2
    <3>2. v[i] = w[i]
      BY <1>1, <3>1
    <3>. QED  BY <3>1, <3>2
  <2>. QED  BY <2>1, <2>2
<1>3. Len(v) # 0 /\ v # <<>>
  <2>1. Len(v) # 0
    BY <1>0, <1>1
  <2>. QED  BY <2>1, EmptySeq
<1>4. ASSUME w # <<>> PROVE Head(v) = Head(w)
  <2>1. Head(w) = w[1] /\ Len(w) # 0
    BY <1>4, HeadTailProperties, EmptySeq
  <2>2. Head(v) = v[1]
    BY <1>1, <1>3, HeadTailProperties
  <2>3. 1 \in 1 .. Len(w)
    BY <1>0, <2>1
  <2>. QED  BY <1>1, <2>1, <2>2, <2>3
<1>. QED  BY <1>1, <1>2, <1>3, <1>4 DEF v

\* A frame less.
LEMMA TailEntries ==
    ASSUME NEW w \in Seq(Entry), w # <<>>, NEW by, \A i \in 1 .. Len(w) : EntryOK(w[i], by)
    PROVE  Tail(w) \in Seq(Entry) /\ \A i \in 1 .. Len(Tail(w)) : EntryOK(Tail(w)[i], by)
<1> DEFINE t == Tail(w)
<1>0. Len(w) \in Nat
  BY LenProperties
<1>1. t \in Seq(Entry) /\ Len(t) = Len(w) - 1 /\ \A i \in 1 .. Len(t) : t[i] = w[i + 1]
  BY HeadTailProperties
<1> HIDE DEF t
<1>2. ASSUME NEW i \in 1 .. Len(t) PROVE EntryOK(t[i], by)
  <2>1. i + 1 \in 1 .. Len(w)
    BY <1>0, <1>1
  <2>2. t[i] = w[i + 1]
    BY <1>1
  <2>. QED  BY <2>1, <2>2
<1>. QED  BY <1>1, <1>2 DEF t

-----------------------------------------------------------------------------
(* The pool of random bytes.                                                *)

\* The key of the next frame is the 4 places after those used.
LEMMA NextKey ==
    ASSUME MaskTypes, Len(keys) < MaxFrames
    PROVE  LET d == IF Exhausted THEN drawn + 1 ELSE drawn
               c == 4 + (IF Exhausted THEN 0 ELSE mask_pool_cursor)
               used == (d - 1) * PoolBytes + c
           IN  /\ d \in 1 .. Len(keys) + 1
               /\ Pool = Fill(d - 1)
               /\ c \in 4 .. PoolBytes
               /\ used \in Nat /\ Used \in Nat /\ Used + 4 <= used
               /\ \A i \in 1 .. 4 : NextPlaces[i] = used - 4 + i
               /\ NextPlaces \in [1 .. 4 -> Nat]
               /\ NextMask \in [1 .. 4 -> Byte]
<1> DEFINE d == IF Exhausted THEN drawn + 1 ELSE drawn
           c == 4 + (IF Exhausted THEN 0 ELSE mask_pool_cursor)
           used == (d - 1) * PoolBytes + c
<1>1. /\ PoolBytes \in Nat /\ PoolBytes >= 4 /\ MaxFrames \in Nat
      /\ Random \in [1 .. MaxFrames * PoolBytes -> Byte]
  BY WireAssumption
<1>2. /\ Len(keys) \in Nat /\ drawn \in Nat /\ drawn >= 1 /\ mask_pool_cursor \in 0 .. PoolBytes
      /\ drawn <= Len(keys) \/ (drawn = 1 /\ mask_pool_cursor = 0)
      /\ mask_pool = Fill(drawn - 1)
  BY LenProperties DEF MaskTypes
<1>3. Exhausted <=> mask_pool_cursor + 4 > PoolBytes
  BY DEF Exhausted
<1>4. d \in 1 .. Len(keys) + 1 /\ d \in Nat /\ d <= MaxFrames
  BY <1>1, <1>2, <1>3
<1>5. Pool = Fill(d - 1)
  <2>1. CASE Exhausted
    BY <1>2, <2>1 DEF Pool
  <2>2. CASE ~Exhausted
    BY <1>2, <2>2 DEF Pool
  <2>. QED  BY <2>1, <2>2
<1>6. c \in 4 .. PoolBytes
  BY <1>1, <1>2, <1>3
<1>7. /\ (d - 1) * PoolBytes \in Nat
      /\ (d - 1) * PoolBytes + PoolBytes <= MaxFrames * PoolBytes
  <2>1. ASSUME NEW e \in Nat, e + 1 <= MaxFrames
        PROVE  e * PoolBytes \in Nat /\ e * PoolBytes + PoolBytes <= MaxFrames * PoolBytes
    <3>1. e * PoolBytes \in Nat /\ (e + 1) * PoolBytes = e * PoolBytes + PoolBytes
      BY <1>1, Product
    <3>2. (e + 1) * PoolBytes <= MaxFrames * PoolBytes
      BY <1>1, <2>1, Product
    <3>. QED  BY <3>1, <3>2
  <2>2. d - 1 \in Nat /\ (d - 1) + 1 <= MaxFrames
    BY <1>4
  <2> HIDE DEF d
  <2>. QED  BY <2>1, <2>2
<1>8. (drawn - 1) * PoolBytes \in Nat /\ drawn * PoolBytes = (drawn - 1) * PoolBytes + PoolBytes
  <2>1. ASSUME NEW e \in Nat
        PROVE  e * PoolBytes \in Nat /\ (e + 1) * PoolBytes = e * PoolBytes + PoolBytes
    BY <1>1, Product
  <2>2. drawn - 1 \in Nat /\ (drawn - 1) + 1 = drawn
    BY <1>2
  <2>. QED  BY <2>1, <2>2
<1>9. used \in Nat /\ Used \in Nat /\ Used + 4 <= used
  <2>1. Used = (drawn - 1) * PoolBytes + mask_pool_cursor
    BY DEF Used
  <2>2. used \in Nat /\ Used \in Nat
    BY <1>1, <1>2, <1>6, <1>7, <1>8, <2>1
  <2>3. CASE Exhausted
    <3>1. d - 1 = drawn /\ c = 4
      BY <1>2, <2>3
    <3>2. used = drawn * PoolBytes + 4
      BY <3>1
    <3>. QED  BY <1>1, <1>2, <1>8, <2>1, <2>2, <3>2
  <2>4. CASE ~Exhausted
    <3>1. d = drawn /\ c = 4 + mask_pool_cursor
      BY <2>4
    <3>2. used = (drawn - 1) * PoolBytes + (4 + mask_pool_cursor)
      BY <3>1
    <3>. QED  BY <1>1, <1>2, <1>8, <2>1, <2>2, <3>2
  <2>. QED  BY <2>2, <2>3, <2>4
<1> DEFINE a == c - 4
<1>10. a = (IF Exhausted THEN 0 ELSE mask_pool_cursor) /\ a \in Nat /\ a + 4 <= PoolBytes
  BY <1>1, <1>2, <1>6
<1>11. NextPlaces = [i \in 1 .. 4 |-> Pool[a + i]]
  BY <1>10 DEF NextPlaces
<1>12. \A i \in 1 .. 4 : NextPlaces[i] = used - 4 + i
  <2>0. c = a + 4 /\ (d - 1) * PoolBytes \in Nat /\ Fill(d - 1) = [i \in 1 .. PoolBytes |-> (d - 1) * PoolBytes + i]
    BY <1>6, <1>7 DEF Fill
  <2> HIDE DEF a, c, d
  <2> TAKE i \in 1 .. 4
  <2>1. a + i \in 1 .. PoolBytes
    BY <1>1, <1>10
  <2>2. Pool[a + i] = (d - 1) * PoolBytes + (a + i)
    BY <1>5, <2>0, <2>1
  <2>3. NextPlaces[i] = Pool[a + i]
    BY <1>11
  <2>4. used - 4 + i = (d - 1) * PoolBytes + (a + i)
    BY <1>10, <2>0
  <2>. QED  BY <2>2, <2>3, <2>4
<1>13. used <= MaxFrames * PoolBytes /\ MaxFrames * PoolBytes \in Nat
  <2>1. MaxFrames * PoolBytes \in Nat
    BY <1>1
  <2>2. (d - 1) * PoolBytes + c <= (d - 1) * PoolBytes + PoolBytes
    BY <1>1, <1>6, <1>7
  <2>. QED  BY <1>1, <1>6, <1>7, <2>1, <2>2
<1> HIDE DEF used, a, c, d
<1>14. NextPlaces \in [1 .. 4 -> Nat] /\ \A i \in 1 .. 4 : NextPlaces[i] \in 1 .. MaxFrames * PoolBytes
  <2>1. ASSUME NEW i \in 1 .. 4
        PROVE  NextPlaces[i] \in Nat /\ NextPlaces[i] \in 1 .. MaxFrames * PoolBytes
    <3>1. used >= 4
      BY <1>9
    <3>. QED  BY <1>9, <1>12, <1>13, <3>1
  <2>2. NextPlaces = [i \in 1 .. 4 |-> NextPlaces[i]]
    BY <1>11
  <2>. QED  BY <2>1, <2>2
<1>15. NextMask \in [1 .. 4 -> Byte]
  <2>1. \A i \in 1 .. 4 : Random[NextPlaces[i]] \in Byte
    BY <1>1, <1>14
  <2>. QED  BY <2>1 DEF NextMask
<1>. QED  BY <1>4, <1>5, <1>6, <1>9, <1>12, <1>14, <1>15 DEF used, c, d

-----------------------------------------------------------------------------
(* The actions keep the invariant.                                        *)

\* The initial state.
LEMMA WireStart ==
    ASSUME Init
    PROVE  WireInv
<1>0. <<>> \in Seq(Byte) /\ <<>> \in Seq(Entry) /\ Len(<<>>) = 0
  BY EmptySeq
<1>1. BytesBuf(tx) /\ BytesBuf(recv_buf) /\ AsSlice(tx) = <<>> /\ AsSlice(recv_buf) = <<>>
  BY NewBytes, WireAssumption DEF Init
<1>2. StateTypes
  <2>1. \A i \in 1 .. Len(written) : EntryOK(written[i], role)
    BY <1>0 DEF Init
  <2>. QED  BY <1>0, <1>1, <2>1 DEF Init, StateTypes
<1>3. keys \in Seq({<<>>} \cup [1 .. 4 -> Nat]) /\ Len(keys) = 0
  BY <1>0, EmptySeq DEF Init
<1>5. MaskTypes
  <2>1. Len(keys) <= MaxFrames
    BY <1>3, WireAssumption
  <2>2. /\ drawn \in Nat /\ drawn >= 1 /\ drawn = 1 /\ mask_pool_cursor = 0
        /\ mask_pool = Fill(drawn - 1) /\ mask_pool_cursor \in 0 .. PoolBytes
    BY WireAssumption DEF Init
  <2>. QED  BY <1>3, <2>1, <2>2 DEF MaskTypes
<1>6. MaskPlaces
  BY <1>3 DEF MaskPlaces, Places
<1>7. /\ parser.partial = <<>> /\ parser.payload = <<>> /\ parser.header = More /\ parser = Idle
      /\ written = <<>> /\ broken = FALSE
  BY DEF Init, Idle
<1>8. Stream
  <2>1. Join(Join(Join(<<>>, <<>>), <<>>), <<>>) = <<>>
    BY <1>0, JoinNone
  <2>2. OnTheWay = <<>>
    BY <1>1, <1>7, <2>1 DEF OnTheWay, Join
  <2>. QED  BY <1>7, <2>2, BytesOfNone DEF Stream, Streams
<1>9. ParserTypes
  BY <1>0, <1>7 DEF ParserTypes, Idle
<1>10. ParserState
  <2>1. Len(parser.partial) < 2
    BY <1>0, <1>7
  <2>. QED  BY <1>7, <2>1 DEF ParserState, Gathers
<1>. QED  BY <1>2, <1>5, <1>6, <1>8, <1>9, <1>10 DEF WireInv

\* A step that draws no key.
LEMMA MaskKept ==
    ASSUME WireInv, role' = role, UNCHANGED maskVars
    PROVE  MaskTypes' /\ MaskPlaces'
<1>1. /\ role' = role /\ keys' = keys /\ drawn' = drawn /\ mask_pool' = mask_pool
      /\ mask_pool_cursor' = mask_pool_cursor
  BY DEF maskVars
<1>2. MaskTypes'
  BY <1>1 DEF WireInv, MaskTypes, Fill
<1>3. Used' = Used
  BY <1>1 DEF Used
<1>4. MaskPlaces'
  BY <1>1, <1>3 DEF WireInv, MaskPlaces
<1>. QED  BY <1>2, <1>4

\* The invariant after a step, from its parts.
LEMMA WireNext ==
    ASSUME WireInv, role' = role, MaskTypes', MaskPlaces',
           BytesBuf(tx'), BytesBuf(recv_buf'),
           broken' \in BOOLEAN, broken' => role = "server",
           written' \in Seq(Entry), \A i \in 1 .. Len(written') : EntryOK(written'[i], role),
           parser'.partial \in Seq(Byte), parser'.payload \in Seq(Byte),
           parser' = [partial |-> parser'.partial, header |-> parser'.header, payload |-> parser'.payload],
           role = "client" => parser' = Idle,
           ParserState',
           parser'.header # Bad =>
               Streams(Join(Join(Join(parser'.partial, parser'.payload), AsSlice(recv_buf')), AsSlice(tx')),
                       written', broken')
    PROVE  WireInv'
<1>1. StateTypes'
  BY DEF WireInv, StateTypes
<1>2. ParserTypes'
  BY DEF ParserTypes, Idle
<1>3. Stream'
  BY DEF Stream, OnTheWay, Join, Bad
<1>. QED  BY <1>1, <1>2, <1>3 DEF WireInv

\* What a step that leaves the frames and the parser alone needs not say.
LEMMA ParserKept ==
    ASSUME WireInv, role' = role, parser' = parser, written' = written, broken' = broken
    PROVE  ParserState'
<1>1. ParserState
  BY DEF WireInv
<1>. QED  BY <1>1 DEF ParserState, Gathers, Reads, Refused

\* The parts of the invariant that a step keeps one by one.
LEMMA InvParts ==
    ASSUME WireInv
    PROVE  /\ role \in {"client", "server"}
           /\ BytesBuf(tx) /\ BytesBuf(recv_buf)
           /\ broken \in BOOLEAN /\ (broken => role = "server")
           /\ written \in Seq(Entry)
           /\ \A i \in 1 .. Len(written) : EntryOK(written[i], role)
           /\ parser.partial \in Seq(Byte) /\ parser.payload \in Seq(Byte)
           /\ parser = [partial |-> parser.partial, header |-> parser.header, payload |-> parser.payload]
           /\ role = "client" => parser = Idle
BY DEF WireInv, StateTypes, ParserTypes

\* Bytes are sent and received.
LEMMA TransferStep ==
    ASSUME WireInv, NEW n, Transfer(n)
    PROVE  WireInv'
<1> DEFINE p == parser.partial
           q == parser.payload
           r == AsSlice(recv_buf)
           t == AsSlice(tx)
           x == Prefix(t, n)
           y == AsSlice(Consume(tx, n))
<1>1. /\ n \in 1 .. BufLen(tx)
      /\ recv_buf' = Extend(recv_buf, x) /\ tx' = Consume(tx, n)
      /\ role' = role /\ UNCHANGED maskVars /\ parser' = parser /\ written' = written /\ broken' = broken
  BY DEF Transfer
<1>2. /\ p \in Seq(Byte) /\ q \in Seq(Byte) /\ r \in Seq(Byte) /\ t \in Seq(Byte)
      /\ BytesBuf(tx) /\ BytesBuf(recv_buf)
      /\ parser.header # Bad => Streams(Join(Join(Join(p, q), r), t), written, broken)
  BY Way
<1>3. n \in 0 .. BufLen(tx)
  BY <1>1
<1>4. BytesBuf(tx') /\ x \in Seq(Byte) /\ y \in Seq(Byte) /\ Join(x, y) = t /\ AsSlice(tx') = y
  BY <1>1, <1>2, <1>3, ConsumeBytes
<1> HIDE DEF x, y, r, t, p, q
<1>5. BytesBuf(recv_buf') /\ AsSlice(recv_buf') = Join(r, x)
  BY <1>1, <1>2, <1>4, ExtendBytes DEF r
<1>6. Join(p, q) \in Seq(Byte)
  BY <1>2, JoinType
<1>7. Join(Join(Join(p, q), Join(r, x)), y) = Join(Join(Join(p, q), r), t)
  BY <1>2, <1>4, <1>6, JoinMove
<1>8. parser'.header # Bad =>
        Streams(Join(Join(Join(parser'.partial, parser'.payload), AsSlice(recv_buf')), AsSlice(tx')),
                written', broken')
  BY <1>1, <1>2, <1>4, <1>5, <1>7 DEF p, q
<1>9. MaskTypes' /\ MaskPlaces' /\ ParserState'
  BY <1>1, MaskKept, ParserKept
<1>. QED  BY <1>1, <1>4, <1>5, <1>8, <1>9, InvParts, WireNext

\* The parser takes a piece of the payload of the first frame.
LEMMA FeedPayloadStep ==
    ASSUME WireInv, FeedPayload
    PROVE  WireInv'
<1> DEFINE p == parser.partial
           q == parser.payload
           r == AsSlice(recv_buf)
           t == AsSlice(tx)
           remaining == parser.header.payload_len - Len(parser.payload)
           take == IF remaining <= BufLen(recv_buf) THEN remaining ELSE BufLen(recv_buf)
           x == Prefix(r, take)
           y == AsSlice(Consume(recv_buf, take))
<1>1. /\ parser.header.result = "ok" /\ take > 0
      /\ recv_buf' = Consume(recv_buf, take)
      /\ parser' = [parser EXCEPT !.payload = @ \o x]
      /\ role' = role /\ tx' = tx /\ UNCHANGED maskVars /\ written' = written /\ broken' = broken
  BY DEF FeedPayload
<1>2. /\ p \in Seq(Byte) /\ q \in Seq(Byte) /\ r \in Seq(Byte) /\ t \in Seq(Byte)
      /\ BytesBuf(tx) /\ BytesBuf(recv_buf) /\ Len(r) = BufLen(recv_buf)
      /\ Streams(Join(Join(Join(p, q), r), t), written, broken)
  BY <1>1, NotRefused, Way
<1>3. Reads
  <2>1. ~Gathers /\ ~Refused
    BY <1>1 DEF Gathers, Refused, More, Bad
  <2>. QED  BY <2>1 DEF WireInv, ParserState
<1> DEFINE f == Head(written).frame
<1>4. /\ role = "server" /\ written # <<>>
      /\ parser.header.fin = f.fin /\ parser.header.op = f.op
      /\ parser.header.payload_len = Len(f.payload)
      /\ p = HeaderOf(f, <<>>) /\ Len(q) <= Len(f.payload)
  BY <1>3 DEF Reads
<1>5. Len(f.payload) \in Nat
  <2>1. f \in Frames
    BY <1>4, FirstEntry, EntryParts
  <2>. QED  BY <2>1, FrameFacts
<1>6. Len(q) \in Nat /\ BufLen(recv_buf) \in Nat
  BY <1>2, LenProperties, SliceOfBytes
<1>7. take \in 0 .. BufLen(recv_buf) /\ Len(q) + take <= Len(f.payload)
  <2>1. remaining = Len(f.payload) - Len(q)
    BY <1>4
  <2> HIDE DEF remaining, f, q
  <2>2. remaining \in Nat
    BY <1>4, <1>5, <1>6, <2>1
  <2>. QED  BY <1>5, <1>6, <2>1, <2>2
<1> HIDE DEF take, f
<1>8. BytesBuf(recv_buf') /\ x \in Seq(Byte) /\ Len(x) = take /\ y \in Seq(Byte) /\ Join(x, y) = r /\ AsSlice(recv_buf') = y
  BY <1>1, <1>2, <1>7, ConsumeBytes
<1> HIDE DEF x, y
<1>9. /\ parser' = [partial |-> p, header |-> parser.header, payload |-> Join(q, x)]
  <2>1. parser = [partial |-> p, header |-> parser.header, payload |-> q]
    BY InvParts
  <2>2. parser' = [parser EXCEPT !.payload = Join(parser.payload, x)]
    BY <1>1 DEF Join
  <2> HIDE DEF p
  <2>. QED  BY <2>1, <2>2
<1>10. parser'.partial = p /\ parser'.header = parser.header /\ parser'.payload = Join(q, x)
  BY <1>9
<1>11. Join(q, x) \in Seq(Byte) /\ Len(Join(q, x)) = Len(q) + take
  BY <1>2, <1>8, JoinType
<1> HIDE DEF p, q, r, t
<1>12. Join(Join(p, Join(q, x)), y) = Join(Join(p, q), r)
  BY <1>2, <1>8, JoinMove
<1>13. Streams(Join(Join(Join(parser'.partial, parser'.payload), AsSlice(recv_buf')), AsSlice(tx')),
               written', broken')
  BY <1>1, <1>2, <1>8, <1>10, <1>12 DEF t
<1>14. Reads'
  <2>1. Len(parser'.payload) <= Len(f.payload)
    BY <1>7, <1>10, <1>11
  <2>. QED  BY <1>1, <1>4, <1>10, <2>1 DEF Reads, f
<1>15. MaskTypes' /\ MaskPlaces'
  BY <1>1, MaskKept
<1>16. ParserState' /\ role # "client"
  BY <1>4, <1>14 DEF ParserState
<1>17. parser'.partial \in Seq(Byte) /\ parser'.payload \in Seq(Byte)
  BY <1>2, <1>10, <1>11
<1>18. parser' = [partial |-> parser'.partial, header |-> parser'.header, payload |-> parser'.payload]
  BY <1>9, <1>10
<1>. QED  BY <1>1, <1>2, <1>8, <1>13, <1>15, <1>16, <1>17, <1>18, InvParts, WireNext

\* The parser has all of the first frame.
LEMMA FeedEndStep ==
    ASSUME WireInv, FeedEnd
    PROVE  WireInv'
<1> DEFINE p == parser.partial
           q == parser.payload
           r == AsSlice(recv_buf)
           t == AsSlice(tx)
           x == Head(written)
<1>1. /\ parser.header.result = "ok" /\ Len(q) = parser.header.payload_len
      /\ parser' = Idle
      /\ written' = IF written = <<>> THEN written ELSE Tail(written)
      /\ role' = role /\ tx' = tx /\ UNCHANGED maskVars /\ recv_buf' = recv_buf /\ broken' = broken
  BY DEF FeedEnd
<1>2. /\ p \in Seq(Byte) /\ q \in Seq(Byte) /\ r \in Seq(Byte) /\ t \in Seq(Byte)
      /\ BytesBuf(tx) /\ BytesBuf(recv_buf) /\ written \in Seq(Entry) /\ broken \in BOOLEAN
      /\ Streams(Join(Join(Join(p, q), r), t), written, broken)
  BY <1>1, NotRefused, Way
<1>3. Reads
  <2>1. ~Gathers /\ ~Refused
    BY <1>1 DEF Gathers, Refused, More, Bad
  <2>. QED  BY <2>1 DEF WireInv, ParserState
<1>4. /\ role = "server" /\ written # <<>> /\ p = HeaderOf(x.frame, <<>>) /\ Len(q) = Len(x.frame.payload)
  BY <1>1, <1>3 DEF Reads
<1>5. EntryOK(x, role)
  BY <1>4, FirstEntry
<1> HIDE DEF p, q, r, t, x
<1>6. p = HeaderOf(x.frame, x.key) /\ Len(x.bytes) = Len(HeaderOf(x.frame, x.key)) + Len(x.frame.payload)
  BY <1>4, <1>5 DEF EntryOK
<1>7. Join(p, q) \in Seq(Byte) /\ Len(Join(p, q)) = Len(p) + Len(q) /\ Join(r, t) \in Seq(Byte)
  BY <1>2, JoinType
<1>8. Len(Join(p, q)) = Len(x.bytes)
  BY <1>4, <1>6, <1>7
<1>9. Streams(Join(Join(p, q), Join(r, t)), written, broken)
  <2>1. Join(Join(Join(p, q), r), t) = Join(Join(p, q), Join(r, t))
    BY <1>2, JoinFour
  <2>. QED  BY <1>2, <2>1
<1>10. Streams(Join(r, t), Tail(written), broken)
  BY <1>2, <1>4, <1>7, <1>8, <1>9, StreamsDrop DEF x
<1>11. parser'.partial = <<>> /\ parser'.payload = <<>> /\ parser'.header = More
  BY <1>1 DEF Idle
<1>12. <<>> \in Seq(Byte) /\ Len(<<>>) = 0
  BY EmptySeq
<1>13. Join(Join(Join(<<>>, <<>>), r), t) = Join(r, t)
  BY <1>2, <1>12, JoinNone
<1>14. written' = Tail(written)
  BY <1>1, <1>4
<1>15. Streams(Join(Join(Join(parser'.partial, parser'.payload), AsSlice(recv_buf')), AsSlice(tx')),
               written', broken')
  BY <1>1, <1>10, <1>11, <1>13, <1>14 DEF r, t
<1>16. written' \in Seq(Entry) /\ \A i \in 1 .. Len(written') : EntryOK(written'[i], role)
  BY <1>2, <1>4, <1>14, InvParts, TailEntries
<1>17. MaskTypes' /\ MaskPlaces'
  BY <1>1, MaskKept
<1>18. ParserState'
  <2>1. Len(parser'.partial) < 2
    BY <1>11, <1>12
  <2>. QED  BY <1>11, <2>1 DEF ParserState, Gathers
<1>19. parser' = [partial |-> parser'.partial, header |-> parser'.header, payload |-> parser'.payload]
  BY <1>1, <1>11 DEF Idle
<1>. QED  BY <1>1, <1>2, <1>11, <1>12, <1>15, <1>16, <1>17, <1>18, <1>19, InvParts, WireNext

\* The peer has all of the first frame of the client.
LEMMA PeerReadsStep ==
    ASSUME WireInv, PeerReads
    PROVE  WireInv'
<1> DEFINE r == AsSlice(recv_buf)
           t == AsSlice(tx)
<1>1. PICK f \in Arrived :
        /\ recv_buf' = Consume(recv_buf, f.size)
        /\ written' = IF written = <<>> THEN written ELSE Tail(written)
        /\ role' = role /\ tx' = tx /\ UNCHANGED maskVars /\ parser' = parser /\ broken' = broken
  BY DEF PeerReads
<1>2. /\ role = "client" /\ written # <<>>
      /\ f.size = Len(Head(written).bytes) /\ f.size \in 0 .. BufLen(recv_buf)
  BY ArrivedIs
<1>3. /\ ~broken /\ parser.partial = <<>> /\ parser.payload = <<>> /\ parser = Idle
  BY <1>2, ClientIdle
<1>4. /\ r \in Seq(Byte) /\ t \in Seq(Byte) /\ <<>> \in Seq(Byte)
      /\ BytesBuf(tx) /\ BytesBuf(recv_buf) /\ written \in Seq(Entry) /\ broken \in BOOLEAN
      /\ Streams(Join(Join(Join(<<>>, <<>>), r), t), written, broken)
  BY <1>3, NotRefused, Way
<1> DEFINE n == f.size
           x == Prefix(r, n)
           y == AsSlice(Consume(recv_buf, n))
<1>5. BytesBuf(recv_buf') /\ x \in Seq(Byte) /\ Len(x) = n /\ y \in Seq(Byte) /\ Join(x, y) = r /\ AsSlice(recv_buf') = y
  BY <1>1, <1>2, <1>4, ConsumeBytes
<1> HIDE DEF n, x, y, r, t
<1>6. Join(Join(Join(<<>>, <<>>), r), t) = Join(x, Join(y, t)) /\ Join(y, t) \in Seq(Byte)
  <2>1. Join(Join(Join(<<>>, <<>>), r), t) = Join(r, t)
    BY <1>4, JoinNone
  <2>2. Join(Join(x, y), t) = Join(x, Join(y, t))
    BY <1>4, <1>5, JoinAssoc
  <2>3. Join(y, t) \in Seq(Byte)
    BY <1>4, <1>5, JoinType
  <2>. QED  BY <1>5, <2>1, <2>2, <2>3
<1>7. Streams(Join(y, t), Tail(written), broken)
  <2>1. Streams(Join(x, Join(y, t)), written, broken) /\ Len(x) = Len(Head(written).bytes)
    BY <1>2, <1>4, <1>5, <1>6 DEF n
  <2>. QED  BY <1>2, <1>4, <1>5, <1>6, <2>1, StreamsDrop
<1>8. Join(Join(Join(<<>>, <<>>), y), t) = Join(y, t)
  BY <1>4, <1>5, JoinNone
<1>9. written' = Tail(written) /\ parser'.partial = <<>> /\ parser'.payload = <<>>
  BY <1>1, <1>2, <1>3
<1>10. Streams(Join(Join(Join(parser'.partial, parser'.payload), AsSlice(recv_buf')), AsSlice(tx')),
               written', broken')
  BY <1>1, <1>5, <1>7, <1>8, <1>9 DEF t
<1>11. written' \in Seq(Entry) /\ \A i \in 1 .. Len(written') : EntryOK(written'[i], role)
  BY <1>2, <1>4, <1>9, InvParts, TailEntries
<1>12. MaskTypes' /\ MaskPlaces'
  BY <1>1, MaskKept
<1>13. ParserState'
  <2>1. Len(parser'.partial) < 2 /\ parser'.header = More
    BY <1>1, <1>2, <1>9, ClientIdle, EmptySeq
  <2>. QED  BY <1>9, <2>1 DEF ParserState, Gathers
<1>14. parser' = [partial |-> parser'.partial, header |-> parser'.header, payload |-> parser'.payload]
  BY <1>1, InvParts
<1>. QED  BY <1>1, <1>3, <1>4, <1>5, <1>9, <1>10, <1>11, <1>12, <1>13, <1>14, InvParts, WireNext

\* What was to be sent is followed by more.
LEMMA WayGrows ==
    ASSUME WireInv, NEW z \in Seq(Byte)
    PROVE  LET pq == Join(parser.partial, parser.payload)
               r == AsSlice(recv_buf)
               t == AsSlice(tx)
           IN  Join(Join(pq, r), Join(t, z)) = Join(Join(Join(pq, r), t), z)
<1> DEFINE pq == Join(parser.partial, parser.payload)
           r == AsSlice(recv_buf)
           t == AsSlice(tx)
<1>1. pq \in Seq(Byte) /\ r \in Seq(Byte) /\ t \in Seq(Byte)
  BY Way, JoinType
<1> HIDE DEF pq, r, t
<1>2. Join(pq, r) \in Seq(Byte)
  BY <1>1, JoinType
<1>3. Join(Join(pq, r), Join(t, z)) = Join(Join(Join(pq, r), t), z)
  BY <1>1, <1>2, JoinAssoc
<1>. QED  BY <1>3 DEF pq, r, t

\* The peer writes a frame.
LEMMA PeerFrameStep ==
    ASSUME WireInv, NEW f \in Frames, PeerFrame(f)
    PROVE  WireInv'
<1> DEFINE bytes == HeaderOf(f, <<>>) \o f.payload
           x == [frame |-> f, key |-> <<>>, bytes |-> bytes]
           s == Join(Join(Join(parser.partial, parser.payload), AsSlice(recv_buf)), AsSlice(tx))
<1>1. /\ role = "server" /\ ~broken /\ Len(keys) < MaxFrames
      /\ Legal(f.fin, f.op, Len(f.payload))
      /\ tx' = Push(tx, bytes) /\ keys' = Append(keys, <<>>) /\ written' = Append(written, x)
      /\ role' = role /\ mask_pool' = mask_pool /\ mask_pool_cursor' = mask_pool_cursor
      /\ drawn' = drawn /\ recv_buf' = recv_buf /\ parser' = parser /\ broken' = broken
  BY DEF PeerFrame
<1>2. EntryOK(x, role) /\ x.bytes = bytes
  <2>1. f.payload \in Seq(Byte) /\ <<>> \in Keys
    BY FrameFacts DEF Keys
  <2>2. Unmask(f.payload, <<>>) = f.payload /\ role # "client"
    BY <1>1, NoMask
  <2>3. EntryOK([frame |-> f, key |-> <<>>, bytes |-> Join(HeaderOf(f, <<>>), f.payload)], role)
    BY <1>1, <2>1, <2>2, MakeEntry
  <2>. QED  BY <2>3 DEF Join
<1> HIDE DEF x, bytes
<1>3. x \in Entry /\ bytes \in Seq(Byte)
  BY <1>2, EntryParts
<1>4. /\ BytesBuf(tx) /\ BytesBuf(recv_buf) /\ written \in Seq(Entry)
      /\ Streams(s, written, FALSE) /\ broken = FALSE
  BY <1>1, NotRefused, Way
<1>5. BytesBuf(tx') /\ AsSlice(tx') = Join(AsSlice(tx), bytes)
  BY <1>1, <1>3, <1>4, PushBytes
<1>6. Streams(Join(s, bytes), written', FALSE)
  <2> HIDE DEF s
  <2>. QED  BY <1>1, <1>2, <1>3, <1>4, StreamsAppend
<1>7. Join(Join(Join(parser'.partial, parser'.payload), AsSlice(recv_buf')), AsSlice(tx')) = Join(s, bytes)
  BY <1>1, <1>3, <1>5, WayGrows
<1>8. Streams(Join(Join(Join(parser'.partial, parser'.payload), AsSlice(recv_buf')), AsSlice(tx')),
              written', broken')
  BY <1>1, <1>4, <1>6, <1>7
<1>9. /\ written' \in Seq(Entry) /\ \A i \in 1 .. Len(written') : EntryOK(written'[i], role)
      /\ written' # <<>> /\ (written # <<>> => Head(written') = Head(written))
  BY <1>1, <1>2, <1>4, InvParts, AppendEntry
<1>10. MaskTypes' /\ MaskPlaces'
  <2>1. MaskTypes
    BY DEF WireInv
  <2>2. keys \in Seq({<<>>} \cup [1 .. 4 -> Nat]) /\ <<>> \in {<<>>} \cup [1 .. 4 -> Nat]
    BY <2>1 DEF MaskTypes
  <2>3. keys' \in Seq({<<>>} \cup [1 .. 4 -> Nat]) /\ Len(keys') = Len(keys) + 1 /\ Len(keys) \in Nat
    <3> DEFINE K == {<<>>} \cup [1 .. 4 -> Nat]
               e == <<>>
    <3>1. keys \in Seq(K) /\ e \in K /\ keys' = Append(keys, e)
      BY <1>1, <2>2
    <3> HIDE DEF K, e
    <3>2. keys' \in Seq(K) /\ Len(keys') = Len(keys) + 1 /\ Len(keys) \in Nat
      BY <3>1, AppendProperties, LenProperties
    <3>. QED  BY <3>2 DEF K
  <2>4. /\ drawn' \in Nat /\ drawn' >= 1 /\ Len(keys') <= MaxFrames
        /\ drawn' <= Len(keys') \/ (drawn' = 1 /\ mask_pool_cursor' = 0)
    <3>1. /\ drawn \in Nat /\ drawn >= 1 /\ MaxFrames \in Nat
          /\ drawn <= Len(keys) \/ (drawn = 1 /\ mask_pool_cursor = 0)
      BY <2>1, WireAssumption DEF MaskTypes
    <3>. QED  BY <1>1, <2>3, <3>1
  <2>5. mask_pool' = Fill(drawn' - 1) /\ mask_pool_cursor' \in 0 .. PoolBytes
    BY <1>1, <2>1 DEF MaskTypes
  <2>6. MaskTypes'
    BY <2>3, <2>4, <2>5 DEF MaskTypes, Fill
  <2>. QED  BY <1>1, <2>6 DEF MaskPlaces
<1>11. ParserState'
  <2>1. CASE Gathers
    BY <1>1, <2>1 DEF ParserState, Gathers
  <2>2. CASE Reads
    BY <1>1, <1>9, <2>2 DEF ParserState, Reads
  <2>3. CASE Refused
    BY <1>1, <2>3 DEF Refused
  <2>. QED  BY <2>1, <2>2, <2>3 DEF WireInv, ParserState
<1>. QED  BY <1>1, <1>4, <1>5, <1>8, <1>9, <1>10, <1>11, InvParts, WireNext

\* The peer writes what is no header.
LEMMA PeerBreaksStep ==
    ASSUME WireInv, NEW raw \in Raws, PeerBreaks(raw)
    PROVE  WireInv'
<1> DEFINE s == Join(Join(Join(parser.partial, parser.payload), AsSlice(recv_buf)), AsSlice(tx))
<1>1. /\ role = "server" /\ ~broken /\ broken' = TRUE /\ tx' = Push(tx, raw)
      /\ role' = role /\ UNCHANGED maskVars /\ recv_buf' = recv_buf /\ parser' = parser
      /\ written' = written
  BY DEF PeerBreaks
<1>2. raw \in Seq(Byte)
  BY RawsAreBytes
<1>3. /\ BytesBuf(tx) /\ BytesBuf(recv_buf) /\ written \in Seq(Entry) /\ Streams(s, written, FALSE)
  BY <1>1, NotRefused, Way
<1>4. BytesBuf(tx') /\ AsSlice(tx') = Join(AsSlice(tx), raw)
  BY <1>1, <1>2, <1>3, PushBytes
<1>5. Streams(Join(s, raw), written, TRUE)
  <2> HIDE DEF s
  <2>. QED  BY <1>3, StreamsBreak
<1>6. Join(Join(Join(parser'.partial, parser'.payload), AsSlice(recv_buf')), AsSlice(tx')) = Join(s, raw)
  BY <1>1, <1>2, <1>4, WayGrows
<1>7. Streams(Join(Join(Join(parser'.partial, parser'.payload), AsSlice(recv_buf')), AsSlice(tx')),
              written', broken')
  BY <1>1, <1>5, <1>6
<1>8. ParserState'
  <2>1. CASE Gathers
    BY <1>1, <2>1 DEF ParserState, Gathers
  <2>2. CASE Reads
    BY <1>1, <2>2 DEF ParserState, Reads
  <2>3. CASE Refused
    BY <1>1, <2>3 DEF Refused
  <2>. QED  BY <2>1, <2>2, <2>3 DEF WireInv, ParserState
<1>9. MaskTypes' /\ MaskPlaces'
  BY <1>1, MaskKept
<1>. QED  BY <1>1, <1>3, <1>4, <1>7, <1>8, <1>9, InvParts, WireNext

\* The places of a new key are after all of the others.
LEMMA PlacesGrow ==
    ASSUME NEW ks \in Seq({<<>>} \cup [1 .. 4 -> Nat]), NEW used \in Nat, Places(ks, used),
           NEW key \in [1 .. 4 -> Nat], NEW last \in Nat, used + 4 <= last,
           \A i \in 1 .. 4 : key[i] = last - 4 + i
    PROVE  Places(Append(ks, key), last)
<1> DEFINE K == {<<>>} \cup [1 .. 4 -> Nat]
           v == Append(ks, key)
           N == Len(ks)
<1>1. ks \in Seq(K) /\ key \in K
  OBVIOUS
<1> HIDE DEF K
<1>2. N \in Nat /\ Len(v) = N + 1 /\ v[N + 1] = key /\ \A i \in 1 .. N : v[i] = ks[i]
  BY <1>1, AppendProperties, LenProperties
<1> HIDE DEF v, N
<1>3. ASSUME NEW i \in 1 .. N, NEW k \in 1 .. 4
      PROVE  v[i][k] \in Nat /\ v[i][k] \in 1 .. last /\ v[i][k] <= used
  <2>1. ks[i][k] \in 1 .. used
    BY DEF Places, N
  <2>. QED  BY <1>2, <2>1
<1>4. ASSUME NEW k \in 1 .. 4
      PROVE  v[N + 1][k] \in 1 .. last /\ v[N + 1][k] > used /\ v[N + 1][k] = last - 4 + k
  <2>1. v[N + 1][k] = last - 4 + k
    BY <1>2
  <2>2. last - 4 + k \in 1 .. last /\ last - 4 + k > used
    OBVIOUS
  <2>. QED  BY <2>1, <2>2
<1>5. ASSUME NEW i \in 1 .. Len(v) PROVE i \in 1 .. N \/ i = N + 1
  BY <1>2
<1>6. ASSUME NEW i \in 1 .. Len(v), NEW k \in 1 .. 4 PROVE v[i][k] \in 1 .. last
  BY <1>3, <1>4, <1>5
<1>7. ASSUME NEW i \in 1 .. Len(v), NEW j \in 1 .. Len(v), NEW k \in 1 .. 4, NEW l \in 1 .. 4,
             v[i][k] = v[j][l]
      PROVE  i = j
  <2>1. CASE i \in 1 .. N /\ j \in 1 .. N
    <3>1. v[i] = ks[i] /\ v[j] = ks[j]
      BY <1>2, <2>1
    <3>2. ks[i][k] = ks[j][l]
      BY <1>7, <3>1
    <3>. QED  BY <2>1, <3>2 DEF Places, N
  <2>2. CASE i = N + 1 /\ j = N + 1
    BY <2>2
  <2>3. CASE i \in 1 .. N /\ j = N + 1
    <3>1. v[i][k] \in Nat /\ v[i][k] <= used
      BY <1>3, <2>3
    <3>2. v[j][l] > used
      BY <1>4, <2>3
    <3>. QED  BY <1>7, <3>1, <3>2
  <2>4. CASE i = N + 1 /\ j \in 1 .. N
    <3>1. v[j][l] \in Nat /\ v[j][l] <= used
      BY <1>3, <2>4
    <3>2. v[i][k] > used
      BY <1>4, <2>4
    <3>. QED  BY <1>7, <3>1, <3>2
  <2>. QED  BY <1>5, <2>1, <2>2, <2>3, <2>4
<1>. QED  BY <1>6, <1>7 DEF Places, v

\* The client writes a frame.
LEMMA WriteFrameStep ==
    ASSUME WireInv, NEW f \in Frames, WriteFrame(f)
    PROVE  WireInv'
<1> DEFINE key == NextMask
           header == HeaderOf(f, key)
           payload == MaskInplace(f.payload, key)
           room == CompactIfNeeded(tx, Len(header) + Len(payload))
           bytes == header \o payload
           x == [frame |-> f, key |-> key, bytes |-> bytes]
           s == Join(Join(Join(parser.partial, parser.payload), AsSlice(recv_buf)), AsSlice(tx))
           c == 4 + (IF Exhausted THEN 0 ELSE mask_pool_cursor)
           d == IF Exhausted THEN drawn + 1 ELSE drawn
<1>1. /\ role = "client" /\ Sendable(f) /\ Len(keys) < MaxFrames
      /\ mask_pool' = Pool /\ mask_pool_cursor' = c /\ drawn' = d
      /\ keys' = Append(keys, NextPlaces)
      /\ tx' = Push(Push(room, header), payload) /\ written' = Append(written, x)
      /\ role' = role /\ recv_buf' = recv_buf /\ parser' = parser /\ broken' = broken
  BY DEF WriteFrame
<1>2. MaskTypes /\ MaskPlaces
  BY DEF WireInv
<1> DEFINE used == (d - 1) * PoolBytes + c
<1>3. /\ d \in 1 .. Len(keys) + 1 /\ Pool = Fill(d - 1) /\ c \in 4 .. PoolBytes
      /\ used \in Nat /\ Used \in Nat /\ Used + 4 <= used
      /\ \A i \in 1 .. 4 : NextPlaces[i] = used - 4 + i
      /\ NextPlaces \in [1 .. 4 -> Nat] /\ key \in [1 .. 4 -> Byte]
  BY <1>1, <1>2, NextKey
<1> HIDE DEF c, d
<1>4. MaskTypes' /\ MaskPlaces'
  <2> DEFINE K == {<<>>} \cup [1 .. 4 -> Nat]
             z == NextPlaces
  <2>1. keys \in Seq(K) /\ z \in K /\ keys' = Append(keys, z)
    BY <1>1, <1>2, <1>3 DEF MaskTypes
  <2> HIDE DEF K, z
  <2>2. keys' \in Seq(K) /\ Len(keys') = Len(keys) + 1 /\ Len(keys) \in Nat
    BY <2>1, AppendProperties, LenProperties
  <2>3. MaxFrames \in Nat
    BY WireAssumption
  <2>4. Len(keys') <= MaxFrames /\ drawn' \in Nat /\ drawn' >= 1 /\ drawn' <= Len(keys')
    BY <1>1, <1>3, <2>2, <2>3
  <2>5. mask_pool' = Fill(drawn' - 1) /\ mask_pool_cursor' \in 0 .. PoolBytes
    BY <1>1, <1>3, WireAssumption
  <2>6. MaskTypes'
    BY <2>2, <2>4, <2>5 DEF MaskTypes, Fill, K
  <2>7. Used' = used
    BY <1>1 DEF Used
  <2> HIDE DEF used
  <2>8. Places(keys, Used) /\ keys \in Seq({<<>>} \cup [1 .. 4 -> Nat])
    BY <1>1, <1>2 DEF MaskPlaces, MaskTypes
  <2>9. Places(Append(keys, NextPlaces), used)
    BY <1>3, <2>8, PlacesGrow
  <2>. QED  BY <1>1, <2>6, <2>7, <2>9 DEF MaskPlaces
<1> HIDE DEF key, used
<1>5. /\ key \in Keys /\ f.payload \in Seq(Byte) /\ payload \in Seq(Byte)
      /\ Len(payload) = Len(f.payload) /\ Unmask(payload, key) = f.payload
  BY <1>3, FrameFacts, UnmaskMasked DEF Keys
<1>6. header \in Seq(Byte) /\ Len(header) \in Nat
  BY <1>5, HeaderType
<1>7. EntryOK(x, role) /\ x.bytes = bytes
  <2>1. Legal(f.fin, f.op, Len(f.payload)) /\ role # "server"
    BY <1>1, SendableLegal
  <2> HIDE DEF payload
  <2>2. EntryOK([frame |-> f, key |-> key, bytes |-> Join(header, payload)], role)
    BY <1>1, <1>5, <2>1, MakeEntry
  <2>. QED  BY <2>2 DEF Join
<1> HIDE DEF x, payload, header
<1>8. x \in Entry /\ bytes = Join(header, payload)
  BY <1>7, EntryParts DEF Join
<1>9. /\ BytesBuf(tx) /\ BytesBuf(recv_buf) /\ written \in Seq(Entry) /\ AsSlice(tx) \in Seq(Byte)
      /\ Streams(s, written, FALSE) /\ broken = FALSE
  BY <1>1, NotRefused, Way, ClientIdle
<1>10. Len(header) + Len(payload) \in Nat
  BY <1>5, <1>6, LenProperties
<1>11. BytesBuf(room) /\ AsSlice(room) = AsSlice(tx)
  BY <1>9, <1>10, CompactBytes
<1> HIDE DEF room
<1>12. BytesBuf(Push(room, header)) /\ AsSlice(Push(room, header)) = Join(AsSlice(tx), header)
  BY <1>6, <1>11, PushBytes
<1>13. BytesBuf(tx') /\ AsSlice(tx') = Join(Join(AsSlice(tx), header), payload)
  BY <1>1, <1>5, <1>12, PushBytes
<1> HIDE DEF bytes
<1>14. AsSlice(tx') = Join(AsSlice(tx), bytes) /\ bytes \in Seq(Byte)
  <2>1. Join(Join(AsSlice(tx), header), payload) = Join(AsSlice(tx), Join(header, payload))
    <3> DEFINE t == AsSlice(tx)
    <3>1. t \in Seq(Byte) /\ header \in Seq(Byte) /\ payload \in Seq(Byte)
      BY <1>5, <1>6, <1>9
    <3> HIDE DEF t
    <3>2. Join(Join(t, header), payload) = Join(t, Join(header, payload))
      BY <3>1, JoinAssoc
    <3>. QED  BY <3>2 DEF t
  <2>2. Join(header, payload) \in Seq(Byte)
    BY <1>5, <1>6, JoinType
  <2>. QED  BY <1>8, <1>13, <2>1, <2>2
<1>15. Streams(Join(s, bytes), written', FALSE)
  <2> HIDE DEF s
  <2>. QED  BY <1>1, <1>7, <1>8, <1>9, StreamsAppend
<1>16. Join(Join(Join(parser'.partial, parser'.payload), AsSlice(recv_buf')), AsSlice(tx')) = Join(s, bytes)
  BY <1>1, <1>14, WayGrows
<1>17. Streams(Join(Join(Join(parser'.partial, parser'.payload), AsSlice(recv_buf')), AsSlice(tx')),
               written', broken')
  BY <1>1, <1>9, <1>15, <1>16
<1>18. written' \in Seq(Entry) /\ \A i \in 1 .. Len(written') : EntryOK(written'[i], role)
  BY <1>1, <1>7, <1>9, InvParts, AppendEntry
<1>19. ParserState'
  <2>1. Gathers
    <3>1. ~Reads /\ ~Refused
      BY <1>1, <1>9 DEF Reads, Refused
    <3>. QED  BY <3>1 DEF WireInv, ParserState
  <2>. QED  BY <1>1, <2>1 DEF ParserState, Gathers
<1>. QED  BY <1>1, <1>4, <1>9, <1>13, <1>17, <1>18, <1>19, InvParts, WireNext

\* What a parser that gathers a header has so far is the beginning of the stream.
LEMMA HeaderRead ==
    ASSUME WireInv, role = "server",
           NEW have \in Seq(Byte), NEW rest \in Seq(Byte),
           Streams(Join(have, rest), written, broken),
           Len(have) > 0,
           Len(have) >= 2 => Len(have) <= HeaderSize(have[2])
    PROVE  LET h == StreamHeader(have)
               f == Head(written).frame
           IN  \/ h = More /\ (Len(have) < 2 \/ Len(have) < HeaderSize(have[2]))
               \/ /\ h.result = "ok" /\ written # <<>>
                  /\ h.fin = f.fin /\ h.op = f.op /\ h.payload_len = Len(f.payload)
                  /\ have = HeaderOf(f, <<>>)
               \/ h = Bad /\ broken /\ written = <<>>
<1> DEFINE h == StreamHeader(have)
           f == Head(written).frame
           g == ParseHeader(have)
           b == Join(have, rest)
<1>0. Len(have) \in Nat /\ written \in Seq(Entry) /\ broken \in BOOLEAN
  BY LenProperties, Way
<1>1. CASE Len(have) < 2 \/ Len(have) < HeaderSize(have[2])
  <2>1. h = More
    BY <1>1, StreamIs
  <2>. QED  BY <1>1, <2>1
<1>2. CASE ~(Len(have) < 2 \/ Len(have) < HeaderSize(have[2]))
  <2>1. Len(have) >= 2 /\ Len(have) = HeaderSize(have[2])
    <3>1. Len(have) >= 2
      BY <1>0, <1>2
    <3>2. HeaderSize(have[2]) \in Nat
      BY <3>1, FirstBytes, ByteTypes
    <3>. QED  BY <1>0, <1>2, <3>1, <3>2
  <2>2. /\ g.result \in {"ok", "err"}
        /\ h = IF g.result = "ok" /\ g.mask # <<>> THEN Bad ELSE g
    BY <1>2, StreamIs
  <2>3. b \in Seq(Byte) /\ Len(b) = Len(have) + Len(rest) /\ Prefix(b, Len(have)) = have /\ Len(rest) \in Nat
    BY JoinType
  <2>4. Len(have) \in 0 .. Len(b)
    BY <1>0, <2>3
  <2>5. ParseHeader(b) = g
    <3> HIDE DEF b
    <3>1. ParseHeader(Prefix(b, Len(have))).result # "more"
      <4>1. g.result # "more"
        BY <2>2
      <4>. QED  BY <2>3, <4>1
    <3>2. ParseHeader(b) = ParseHeader(Prefix(b, Len(have)))
      BY <2>3, <2>4, <3>1, ParseStable
    <3>. QED  BY <2>3, <3>2
  <2>6. CASE written # <<>>
    <3> DEFINE x == Head(written)
    <3>1. EntryOK(x, role)
      BY <2>6, FirstEntry
    <3>2. x.key = <<>>
      BY <3>1 DEF EntryOK
    <3>3. PICK more \in Seq(Byte) : b = Join(x.bytes, more)
      BY <1>0, <2>6, StreamsTail
    <3>4. StartsWith(b, HeaderOf(x.frame, x.key))
      BY <3>1, <3>3, EntryStarts
    <3> HIDE DEF b
    <3>5. /\ g.result = "ok" /\ g.fin = f.fin /\ g.op = f.op /\ g.payload_len = Len(f.payload)
          /\ g.mask = <<>> /\ g.size = Len(HeaderOf(f, <<>>))
      BY <2>3, <2>5, <3>1, <3>2, <3>4, EntryParse
    <3>6. h = g
      BY <2>2, <3>5
    <3>7. Len(have) = Len(HeaderOf(f, <<>>))
      <4>1. g.size = HeaderSize(have[2])
        BY <3>5, ParseFields
      <4>. QED  BY <2>1, <3>5, <4>1
    <3>8. have = HeaderOf(f, <<>>)
      <4>1. Prefix(b, Len(HeaderOf(f, <<>>))) = HeaderOf(f, <<>>)
        BY <3>2, <3>4 DEF StartsWith
      <4>. QED  BY <2>3, <3>7, <4>1
    <3> HIDE DEF g, h, f
    <3>9. h.result = "ok" /\ h.fin = f.fin /\ h.op = f.op /\ h.payload_len = Len(f.payload)
      BY <3>5, <3>6
    <3>. QED  BY <2>6, <3>8, <3>9 DEF h, f
  <2>7. CASE written = <<>> /\ ~broken
    <3>1. b = <<>>
      BY <1>0, <2>7, StreamsNone
    <3> HIDE DEF b
    <3>2. Len(b) = 0
      BY <3>1, EmptySeq
    <3>. QED  BY <1>0, <2>1, <2>3, <3>2
  <2>8. CASE written = <<>> /\ broken
    <3>1. b \in Raws
      BY <1>0, <2>8, StreamsNone
    <3> HIDE DEF b
    <3>2. ~(g.result = "ok" /\ g.mask = <<>>)
      <4>1. SUFFICES ASSUME g.result = "ok", g.mask = <<>> PROVE FALSE
        OBVIOUS
      <4> DEFINE k == ParseHeader(b)
                 e == EncodeHeader(k.fin, k.op, <<>>, k.payload_len)
      <4>2. k.result = "ok" /\ k.mask = <<>>
        BY <2>5, <4>1
      <4>3. Scaled(b)
        BY <3>1, RawsAssumption
      <4>4. /\ k.fin \in BOOLEAN /\ k.op \in OpCodes /\ k.mask \in Keys /\ k.payload_len \in Nat
            /\ Legal(k.fin, k.op, k.payload_len)
            /\ StartsWith(b, EncodeHeader(k.fin, k.op, k.mask, k.payload_len))
        BY <2>3, <4>2, <4>3, EncodesParsed
      <4>5. StartsWith(b, e)
        BY <4>2, <4>4
      <4>6. k.payload_len <= Longest /\ k.payload_len \in 0 .. Longest
        <5>1. k.payload_len <= Longest
          BY <4>4 DEF Legal
        <5>2. Longest \in Int
          BY <4>4, LongestLength
        <5> HIDE DEF k
        <5>. QED  BY <4>4, <5>1, <5>2
      <4> HIDE DEF k
      <4>7. StartsWith(b, <<IF k.fin THEN 128 + k.op ELSE k.op>>)
        <5> DEFINE one == <<First(k.fin, k.op)>>
        <5>1. <<>> \in Keys
          BY DEF Keys
        <5>2. e \in Seq(Byte) /\ Len(e) >= 2 /\ e[1] = First(k.fin, k.op)
          BY <4>4, <4>6, <5>1, EncodeFacts
        <5> HIDE DEF e
        <5>3. Len(e) \in Nat /\ Len(e) <= Len(b) /\ Prefix(b, Len(e)) = e
          BY <4>5, <5>2, LenProperties DEF StartsWith
        <5>4. Len(b) >= 2 /\ b[1] = First(k.fin, k.op)
          <6>1. Len(e) \in 0 .. Len(b) /\ 1 \in 1 .. Len(e) /\ Len(b) \in Nat
            BY <1>0, <2>3, <5>2, <5>3
          <6>2. Prefix(b, Len(e))[1] = b[1]
            BY <2>3, <6>1, PrefixFacts
          <6>. QED  BY <5>2, <5>3, <6>1, <6>2
        <5>5. Len(one) = 1 /\ Prefix(b, 1) = one
          <6>1. 1 \in 0 .. Len(b)
            BY <1>0, <2>3, <5>4
          <6>2. Prefix(b, 1) \in Seq(Byte) /\ Len(Prefix(b, 1)) = 1 /\ \A i \in 1 .. 1 : Prefix(b, 1)[i] = b[i]
            BY <2>3, <6>1, PrefixFacts
          <6>3. First(k.fin, k.op) \in Byte
            BY <4>4, <5>1, EncodeIs
          <6>4. one \in Seq(Byte) /\ Len(one) = 1 /\ one[1] = First(k.fin, k.op)
            BY <6>3, Single
          <6> DEFINE y == Prefix(b, 1)
          <6> HIDE DEF one, y
          <6>5. y \in Seq(Byte) /\ Len(y) = Len(one) /\ \A i \in 1 .. Len(y) : y[i] = one[i]
            BY <5>4, <6>2, <6>4 DEF y
          <6>6. y = one
            BY <6>4, <6>5, SeqEqual
          <6>. QED  BY <6>4, <6>6 DEF y
        <5>6. StartsWith(b, one)
          BY <1>0, <2>3, <5>4, <5>5 DEF StartsWith
        <5>. QED  BY <5>6 DEF First
      <4>. QED  BY <3>1, <4>4, <4>5, <4>6, <4>7, RawsAssumption
    <3>3. h = Bad
      <4>1. CASE g.result = "ok"
        BY <2>2, <3>2, <4>1
      <4>2. CASE g.result = "err"
        <5>1. g = Bad
          BY <4>2, ParseCases
        <5>. QED  BY <2>2, <5>1
      <4>. QED  BY <2>2, <4>1, <4>2
    <3>. QED  BY <2>8, <3>3
  <2>. QED  BY <2>6, <2>7, <2>8
<1>. QED  BY <1>1, <1>2

\* The parser takes what there is of a header.
LEMMA FeedHeaderStep ==
    ASSUME WireInv, FeedHeader
    PROVE  WireInv'
<1> DEFINE p == parser.partial
           q == parser.payload
           r == AsSlice(recv_buf)
           t == AsSlice(tx)
           all == Join(p, r)
           want == IF Len(all) < 2 THEN 2 ELSE HeaderSize(all[2])
           k == IF want <= Len(all) THEN want ELSE Len(all)
           have == Prefix(all, k)
           n == Len(have) - Len(p)
<1>1. /\ role = "server" /\ parser.header = More /\ BufLen(recv_buf) > 0
      /\ recv_buf' = IF StreamHeader(have) = Bad THEN recv_buf ELSE Consume(recv_buf, n)
      /\ parser' = [partial |-> have, header |-> StreamHeader(have), payload |-> q]
      /\ role' = role /\ tx' = tx /\ UNCHANGED maskVars /\ written' = written /\ broken' = broken
  BY DEF FeedHeader, Join
<1>2. /\ p \in Seq(Byte) /\ q \in Seq(Byte) /\ r \in Seq(Byte) /\ t \in Seq(Byte)
      /\ BytesBuf(tx) /\ BytesBuf(recv_buf) /\ Len(r) = BufLen(recv_buf)
      /\ Streams(Join(Join(Join(p, q), r), t), written, broken)
  BY <1>1, NotRefused, Way DEF More
<1>3. Gathers
  <2>1. ~Reads /\ ~Refused
    BY <1>1 DEF Reads, Refused, More, Bad
  <2>. QED  BY <2>1 DEF WireInv, ParserState
<1>4. q = <<>> /\ (Len(p) < 2 \/ Len(p) < HeaderSize(p[2]))
  BY <1>3 DEF Gathers
<1> HIDE DEF p, q, r, t
<1>5. all \in Seq(Byte) /\ Len(all) = Len(p) + Len(r) /\ Len(p) \in Nat /\ Len(r) \in Nat
  BY <1>2, JoinType
<1>6. Len(p) >= 2 => all[2] = p[2]
  <2>1. \A i \in 1 .. Len(p) : (p \o r)[i] = p[i]
    BY <1>2, Cat
  <2>. QED  BY <1>5, <2>1 DEF Join
<1>7. Len(all) >= 2 => HeaderSize(all[2]) \in Nat /\ HeaderSize(all[2]) >= 2
  <2> HIDE DEF all
  <2>1. ASSUME Len(all) >= 2 PROVE HeaderSize(all[2]) \in Nat /\ HeaderSize(all[2]) >= 2
    <3>1. all[2] \in Byte
      BY <1>5, <2>1, FirstBytes
    <3> DEFINE y == all[2]
    <3>2. y \in Byte
      BY <3>1
    <3> HIDE DEF y
    <3>3. LenField(y) \in {0, 2, 8} /\ HeaderSize(y) \in Nat /\ HeaderSize(y) >= 2 + LenField(y)
      BY <3>2, ByteTypes
    <3>4. HeaderSize(y) \in Nat /\ HeaderSize(y) >= 2
      BY <3>3
    <3>. QED  BY <3>4 DEF y
  <2>. QED  BY <2>1
<1> HIDE DEF all
<1>8. want \in Nat /\ want >= 2 /\ Len(all) \in Nat
  BY <1>5, <1>7
<1>9. Len(p) < want
  <2>1. CASE Len(p) < 2
    BY <1>5, <1>8, <2>1
  <2>2. CASE Len(p) >= 2
    <3>1. Len(all) >= 2 /\ all[2] = p[2] /\ want = HeaderSize(all[2])
      BY <1>5, <1>6, <2>2
    <3>2. Len(p) < HeaderSize(p[2])
      BY <1>4, <1>5, <2>2
    <3>. QED  BY <3>1, <3>2
  <2>. QED  BY <1>5, <2>1, <2>2
<1>10. k \in Nat /\ k <= Len(all) /\ k > Len(p) /\ k \in 0 .. Len(all) /\ (k <= want)
  <2> HIDE DEF want
  <2>. QED  BY <1>1, <1>2, <1>5, <1>8, <1>9
<1>11. Len(all) >= 2 => k <= HeaderSize(all[2])
  <2>1. ASSUME Len(all) >= 2 PROVE want = HeaderSize(all[2])
    BY <1>8, <2>1
  <2> HIDE DEF want, k
  <2>. QED  BY <1>10, <2>1
<1> HIDE DEF want, k
<1>12. have \in Seq(Byte) /\ Len(have) = k /\ \A i \in 1 .. k : have[i] = all[i]
  BY <1>5, <1>10, PrefixFacts
<1>13. n \in 0 .. BufLen(recv_buf) /\ n = k - Len(p)
  <2> HIDE DEF have
  <2>. QED  BY <1>2, <1>5, <1>10, <1>12
<1> HIDE DEF n
<1> DEFINE x == Prefix(r, n)
           y == AsSlice(Consume(recv_buf, n))
<1>14. /\ BytesBuf(Consume(recv_buf, n)) /\ x \in Seq(Byte) /\ Len(x) = n /\ y \in Seq(Byte)
       /\ Join(x, y) = r
  BY <1>2, <1>13, ConsumeBytes DEF r
<1>27. BytesBuf(recv_buf') /\ (StreamHeader(have) # Bad => AsSlice(recv_buf') = y)
  BY <1>1, <1>2, <1>14
<1> HIDE DEF x, y
<1>15. have = Join(p, x) /\ Join(have, y) = all
  <2>1. Join(p, x) \in Seq(Byte) /\ Len(Join(p, x)) = Len(p) + Len(x)
    BY <1>2, <1>14, JoinType
  <2>2. Join(Join(p, x), y) = all
    <3>1. Join(Join(p, x), y) = Join(p, Join(x, y))
      BY <1>2, <1>14, JoinAssoc
    <3>. QED  BY <1>14, <3>1 DEF all
  <2>3. Len(Join(p, x)) = k
    BY <1>5, <1>10, <1>13, <1>14, <2>1
  <2>4. Prefix(Join(Join(p, x), y), Len(Join(p, x))) = Join(p, x)
    BY <1>14, <2>1, JoinType
  <2>. QED  BY <2>2, <2>3, <2>4
<1> HIDE DEF have
<1>16. Join(Join(Join(p, q), r), t) = Join(have, Join(y, t)) /\ Join(y, t) \in Seq(Byte)
  <2>1. Join(p, q) = p
    BY <1>2, <1>4, JoinNone
  <2>2. Join(Join(have, y), t) = Join(have, Join(y, t)) /\ Join(y, t) \in Seq(Byte)
    BY <1>2, <1>12, <1>14, JoinAssoc, JoinType
  <2>. QED  BY <1>15, <2>1, <2>2 DEF all
<1>17. Streams(Join(have, Join(y, t)), written, broken)
  BY <1>2, <1>16
<1>18. Len(have) > 0 /\ (Len(have) >= 2 => Len(have) <= HeaderSize(have[2]))
  <2>1. Len(have) > 0
    BY <1>5, <1>10, <1>12
  <2>2. ASSUME Len(have) >= 2 PROVE Len(have) <= HeaderSize(have[2])
    <3>1. 2 \in 1 .. k /\ Len(all) >= 2
      BY <1>8, <1>10, <1>12, <2>2
    <3>2. have[2] = all[2]
      BY <1>12, <3>1
    <3>. QED  BY <1>11, <1>12, <3>1, <3>2
  <2>. QED  BY <2>1, <2>2
<1> DEFINE h == StreamHeader(have)
           f == Head(written).frame
<1>19. \/ h = More /\ (Len(have) < 2 \/ Len(have) < HeaderSize(have[2]))
       \/ /\ h.result = "ok" /\ written # <<>>
          /\ h.fin = f.fin /\ h.op = f.op /\ h.payload_len = Len(f.payload)
          /\ have = HeaderOf(f, <<>>)
       \/ h = Bad /\ broken /\ written = <<>>
  BY <1>1, <1>12, <1>16, <1>17, <1>18, HeaderRead
<1> HIDE DEF h
<1>20. parser' = [partial |-> have, header |-> h, payload |-> <<>>]
  BY <1>1, <1>4 DEF h, q
<1>21. parser'.partial = have /\ parser'.header = h /\ parser'.payload = <<>>
  BY <1>20
<1>22. parser'.header # Bad =>
         Streams(Join(Join(Join(parser'.partial, parser'.payload), AsSlice(recv_buf')), AsSlice(tx')),
                 written', broken')
  <2>1. Join(have, <<>>) = have
    BY <1>12, JoinNone
  <2>2. Join(Join(have, y), t) = Join(have, Join(y, t))
    BY <1>2, <1>12, <1>14, JoinAssoc
  <2>. QED  BY <1>1, <1>17, <1>21, <1>27, <2>1, <2>2 DEF t, h
<1>23. ParserState'
  <2>1. CASE h = More /\ (Len(have) < 2 \/ Len(have) < HeaderSize(have[2]))
    BY <1>21, <2>1 DEF ParserState, Gathers
  <2>2. CASE /\ h.result = "ok" /\ written # <<>>
             /\ h.fin = f.fin /\ h.op = f.op /\ h.payload_len = Len(f.payload)
             /\ have = HeaderOf(f, <<>>)
    <3>1. Len(<<>>) <= Len(f.payload)
      <4>1. f \in Frames
        BY <2>2, FirstEntry, EntryParts
      <4>2. Len(f.payload) \in Nat /\ Len(<<>>) = 0
        BY <4>1, FrameFacts, EmptySeq
      <4> HIDE DEF f
      <4>. QED  BY <4>2
    <3>2. Reads'
      BY <1>1, <1>21, <2>2, <3>1 DEF Reads
    <3>. QED  BY <3>2 DEF ParserState
  <2>3. CASE h = Bad /\ broken /\ written = <<>>
    BY <1>1, <1>21, <2>3 DEF ParserState, Refused
  <2>. QED  BY <1>19, <2>1, <2>2, <2>3
<1>24. MaskTypes' /\ MaskPlaces'
  BY <1>1, MaskKept
<1>25. parser'.partial \in Seq(Byte) /\ parser'.payload \in Seq(Byte) /\ role # "client"
  BY <1>1, <1>12, <1>21, EmptySeq
<1>26. parser' = [partial |-> parser'.partial, header |-> parser'.header, payload |-> parser'.payload]
  BY <1>20, <1>21
<1>. QED  BY <1>1, <1>2, <1>22, <1>23, <1>24, <1>25, <1>26, <1>27, InvParts, WireNext

-----------------------------------------------------------------------------
(* The invariant, and the properties that follow from it.                 *)

\* WireInv is an invariant: it holds initially and every action keeps it, whatever the frames,
\* the pieces in which they travel, the capacities, the size of the pool and the lanes.
THEOREM WireInvariant == Spec => []WireInv
<1>1. Init => WireInv
  BY WireStart
<1>2. WireInv /\ [Next]_vars => WireInv'
  <2> SUFFICES ASSUME WireInv, [Next]_vars PROVE WireInv'
    OBVIOUS
  <2>1. ASSUME NEW f \in Frames, WriteFrame(f) PROVE WireInv'
    BY <2>1, WriteFrameStep
  <2>2. ASSUME NEW f \in Frames, PeerFrame(f) PROVE WireInv'
    BY <2>2, PeerFrameStep
  <2>3. ASSUME NEW raw \in Raws, PeerBreaks(raw) PROVE WireInv'
    BY <2>3, PeerBreaksStep
  <2>4. ASSUME NEW n \in Pieces \cup {BufLen(tx)}, Transfer(n) PROVE WireInv'
    BY <2>4, TransferStep
  <2>5. CASE FeedHeader
    BY <2>5, FeedHeaderStep
  <2>6. CASE FeedPayload
    BY <2>6, FeedPayloadStep
  <2>7. CASE FeedEnd
    BY <2>7, FeedEndStep
  <2>8. CASE PeerReads
    BY <2>8, PeerReadsStep
  <2>9. CASE UNCHANGED vars
    <3>1. /\ role' = role /\ tx' = tx /\ recv_buf' = recv_buf /\ parser' = parser
          /\ written' = written /\ broken' = broken /\ UNCHANGED maskVars
      BY <2>9 DEF vars, maskVars
    <3>2. MaskTypes' /\ MaskPlaces' /\ ParserState'
      BY <3>1, MaskKept, ParserKept
    <3>3. parser'.header # Bad =>
            Streams(Join(Join(Join(parser'.partial, parser'.payload), AsSlice(recv_buf')), AsSlice(tx')),
                    written', broken')
      BY <3>1, Way
    <3>. QED  BY <3>1, <3>2, <3>3, InvParts, WireNext
  <2>. QED  BY <2>1, <2>2, <2>3, <2>4, <2>5, <2>6, <2>7, <2>8, <2>9 DEF Next
<1>. QED  BY <1>1, <1>2, PTL DEF Spec

\* The cursors of the two buffers are within their data, which are bytes within the
\* capacity, and an empty buffer is reset; the pool is read within its bounds.
THEOREM WireTypeOK == Spec => []TypeOK
BY WireInvariant, InvTypeOK, PTL

\* No byte is lost, repeated or moved by compaction, growth or reset of tx_buf and CursorBuf,
\* or by the parser, in whatever pieces the bytes of the frames leave and arrive.
THEOREM WireStreamIntact == Spec => []StreamIntact
BY WireInvariant, InvStreamIntact, PTL

\* What is read is the frame that was written, unmasked, at every length; a header that
\* the protocol allows is never refused by feed_one, and one that it does not is never taken.
THEOREM WireReadAsWritten == Spec => []ReadAsWritten
BY WireInvariant, InvReadAsWritten, PTL

\* parse_header, parse_server_data_header_fast and feed_one agree on everything that arrives,
\* and the unreachable! of feed_one is not reached.
THEOREM WireHeadersAgree == Spec => []HeadersAgree
BY WireInvariant, InvHeadersAgree, PTL

\* next_mask gives no random byte to two frames, however often the pool is drawn.
THEOREM WireMaskKeysFresh == Spec => []MaskKeysFresh
BY WireInvariant, InvMaskKeysFresh, PTL

=============================================================================
