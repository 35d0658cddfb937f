--------------------------- MODULE RecvRingProofs ---------------------------
(***************************************************************************)
(* What the receive path promises, for every ring, buffer size and number   *)
(* of bytes: no buffer is lost or given back twice, slot i of the ring      *)
(* holds buffer i, a receive is armed again only with a full ring, and the  *)
(* parser is given the peer's bytes in order.                               *)
(*                                                                          *)
(* The counters head and tail wrap around.  The invariants speak of what    *)
(* they would be if they did not: F gives every pending CQE the number of   *)
(* buffers taken before its first one, since the ring was set up, and G the *)
(* number of bytes.                                                         *)
(***************************************************************************)
EXTENDS RecvRing, BasicLemmas, FiniteSetTheorems, FunctionTheorems

\* The CQEs that have not been handled, in order.
All == buf \o cq

\* How many buffers a CQE covers, for one without a buffer too.
Width(c) == IF c.res = "data" THEN SliceCount(c) ELSE 0

\* The driver is at a slice of the first CQE.
Work == {"read", "recycle", "publish"}

PhaseInv ==
    /\ phase \in {"submit", "wait"} => buf = <<>>
    /\ phase \in Work => /\ buf # <<>>
                         /\ Head(buf).res = "data"
                         /\ index < SliceCount(Head(buf))
    /\ phase \notin Work => index = 0 /\ ~first_err
    /\ phase = "read" => ~closed /\ Head(buf).n > 0
    /\ first_err => ws = "Closing" \/ failed

\* A CQE covers at least one buffer and as many as its bytes need; one without bytes is
\* the last.
CqeOK(c) ==
    /\ c.res # "data" => ~c.more /\ c.n = 0
    /\ c.res = "data" => /\ SliceCount(c) \in 1 .. Entries
                         /\ c.n <= SliceCount(c) * BufSize
    /\ c.n > 0 => \A k \in 0 .. SliceCount(c) - 1 : k * BufSize < c.n
    /\ c.n = 0 => ~c.more

CqeInv ==
    \A i \in 1 .. Len(All) : CqeOK(All[i]) /\ (~All[i].more => i = Len(All))

\* While the kernel has the receive no CQE has ended it; once the driver has seen the
\* CQE that did, that one is all there is.
ArmInv ==
    /\ karmed => armed /\ \A i \in 1 .. Len(All) : All[i].more
    /\ ~armed => Len(All) = IF phase \in Work THEN 1 ELSE 0

\* F[i] buffers were taken before those of the i-th CQE, F[Len(All) + 1] so far, and
\* F[1] + index were given back: head and tail follow, and the first buffer of a CQE.
Ring(F) ==
    /\ F \in [1 .. Len(All) + 1 -> Nat]
    /\ \A i \in 1 .. Len(All) : F[i + 1] = F[i] + Width(All[i])
    /\ \A i, j \in 1 .. Len(All) + 1 : i <= j => F[i] <= F[j]
    /\ head = F[Len(All) + 1] % TailMod
    /\ tail = (F[1] + index + Entries) % TailMod
    /\ F[Len(All) + 1] \in F[1] + index .. F[1] + index + Entries
    /\ \A i \in 1 .. Len(All) : All[i].res = "data" => All[i].bid = F[i] % Entries

\* TypeOK without what was delivered.
RingType ==
    /\ slot \in [Bids -> Bids]
    /\ mem \in [Bids -> Seq(1 .. MaxBytes)]
    /\ tail \in 0 .. TailMod - 1
    /\ head \in 0 .. TailMod - 1
    /\ karmed \in BOOLEAN
    /\ cq \in Seq(CqeType)
    /\ sent \in 0 .. MaxBytes
    /\ taken \in 0 .. sent
    /\ fin \in BOOLEAN
    /\ armed \in BOOLEAN
    /\ closed \in BOOLEAN
    /\ ws \in {"Connecting", "Open", "Closing"}
    /\ phase \in {"submit", "wait", "dispatch", "read", "recycle", "publish"}
    /\ buf \in Seq(CqeType)
    /\ index \in 0 .. Entries
    /\ first_err \in BOOLEAN
    /\ bundle \in BOOLEAN
    /\ failed \in BOOLEAN

Core == RingType /\ PhaseInv /\ CqeInv /\ ArmInv /\ SlotHoldsItsBuffer

-----------------------------------------------------------------------------
(* The pending CQEs, and how the actions change them.                       *)

LEMMA Sizes ==
    /\ Entries \in Nat \ {0} /\ TailMod \in Nat \ {0} /\ Entries < TailMod
    /\ BufSize \in Nat \ {0} /\ MaxBytes \in Nat
BY RecvRingAssumption

LEMMA AllType ==
    ASSUME RingType
    PROVE  /\ All \in Seq(CqeType)
           /\ Len(All) \in Nat
           /\ \A i \in 1 .. Len(All) : All[i] \in CqeType
<1>1. buf \in Seq(CqeType) /\ cq \in Seq(CqeType)
  BY DEF RingType
<1>2. All \in Seq(CqeType)
  BY <1>1, Cat DEF All
<1> QED  BY <1>2, LenProperties, ElementOfSeq

LEMMA CqeFields ==
    ASSUME NEW c \in CqeType
    PROVE  /\ c.res \in {"data", "nobufs", "eof", "err"} /\ c.bid \in Bids
           /\ c.n \in Nat /\ c.n <= MaxBytes /\ c.more \in BOOLEAN
BY RecvRingAssumption DEF CqeType

\* The kernel appends a CQE.
LEMMA AllAppend ==
    ASSUME RingType, NEW c \in CqeType, cq' = Append(cq, c), buf' = buf
    PROVE  /\ cq' \in Seq(CqeType)
           /\ Len(All') = Len(All) + 1
           /\ \A i \in 1 .. Len(All) : All'[i] = All[i]
           /\ All'[Len(All) + 1] = c
<1>1. buf \in Seq(CqeType) /\ cq \in Seq(CqeType)
  BY DEF RingType
<1>2. All' = buf \o Append(cq, c)
  BY DEF All
<1> QED  BY <1>1, <1>2, CatAppend DEF All

\* The driver is done with the first CQE.
LEMMA AllTail ==
    ASSUME RingType, buf # <<>>, buf' = Tail(buf), cq' = cq
    PROVE  /\ buf' \in Seq(CqeType)
           /\ Len(All) \in Nat \ {0}
           /\ Len(All') = Len(All) - 1
           /\ \A i \in 1 .. Len(All) - 1 : All'[i] = All[i + 1]
<1>1. buf \in Seq(CqeType) /\ cq \in Seq(CqeType)
  BY DEF RingType
<1>2. All' = Tail(buf) \o cq
  BY DEF All
<1> QED  BY <1>1, <1>2, CatTail DEF All

LEMMA AllHead ==
    ASSUME RingType, buf # <<>>
    PROVE  Len(All) \in Nat \ {0} /\ All[1] = Head(buf) /\ Head(buf) \in CqeType
<1>1. buf \in Seq(CqeType) /\ cq \in Seq(CqeType)
  BY DEF RingType
<1> QED  BY <1>1, CatTail DEF All

\* drain_completions moves the CQEs and changes none.
LEMMA AllDrain ==
    ASSUME RingType, buf = <<>>, buf' = cq, cq' = <<>>
    PROVE  All' = All
<1>1. cq \in Seq(CqeType)
  BY DEF RingType
<1>2. <<>> \o cq = cq /\ cq \o <<>> = cq
  BY <1>1, ConcatEmptySeq
<1> QED  BY <1>2 DEF All

\* What F says of the free buffers.
LEMMA RingAvailable ==
    ASSUME RingType, NEW F, Ring(F)
    PROVE  /\ F[1] \in Nat /\ F[Len(All) + 1] \in Nat /\ index \in Nat
           /\ Available = (F[1] + index + Entries) - F[Len(All) + 1]
           /\ Available \in 0 .. Entries
<1>1. Len(All) \in Nat
  BY AllType
<1>2. index \in Nat
  BY DEF RingType
<1> DEFINE t == F[1] + index + Entries
           h == F[Len(All) + 1]
<1>3. 1 \in 1 .. Len(All) + 1 /\ Len(All) + 1 \in 1 .. Len(All) + 1
  BY <1>1
<1>4. F[1] \in Nat /\ h \in Nat
  BY <1>3 DEF Ring
<1>5. h <= t /\ t - h <= Entries /\ t \in Nat
  <2>1. h \in F[1] + index .. F[1] + index + Entries
    BY DEF Ring
  <2> HIDE DEF h
  <2> QED  BY <1>2, <1>4, <2>1, Sizes
<1>6. head = h % TailMod /\ tail = t % TailMod
  BY DEF Ring
<1> HIDE DEF t, h
<1>7. t - h < TailMod /\ h \in Int /\ t \in Int
  BY <1>4, <1>5, Sizes
<1>8. ((t % TailMod) - (h % TailMod)) % TailMod = t - h
  BY <1>5, <1>7, Sizes, ModDistance
<1>9. Available = t - h
  BY <1>6, <1>8 DEF Available
<1>10. t - h \in 0 .. Entries
  BY <1>5, <1>7, Sizes
<1>11. Available = (F[1] + index + Entries) - F[Len(All) + 1]
  BY <1>9 DEF t, h
<1>12. F[Len(All) + 1] \in Nat
  BY <1>4 DEF h
<1>13. Available \in 0 .. Entries
  BY <1>9, <1>10
<1> QED  BY <1>2, <1>4, <1>11, <1>12, <1>13

\* The i-th slot from head on.
LEMMA RingSlotAt ==
    ASSUME RingType, NEW F, Ring(F), NEW i \in Nat
    PROVE  SlotAt(i) = (F[Len(All) + 1] + i) % Entries /\ SlotAt(i) \in Bids
<1> DEFINE h == F[Len(All) + 1]
<1>1. h \in Int /\ i \in Int
  BY RingAvailable
<1>2. head = h % TailMod
  BY DEF Ring
<1> HIDE DEF h
<1>3. ((h % TailMod) + i) % Entries = (h + i) % Entries
  BY <1>1, RecvRingAssumption, ModAdd
<1>4. SlotAt(i) = (h + i) % Entries
  BY <1>2, <1>3 DEF SlotAt
<1> DEFINE x == h + i
<1>5. x \in Int
  BY <1>1
<1> HIDE DEF x
<1>6. x % Entries \in 0 .. Entries - 1
  BY <1>5, Sizes, DivMod
<1> QED  BY <1>4, <1>6 DEF Bids, h, x

\* Counters after a step of k.
LEMMA Wraps ==
    ASSUME NEW x \in Nat, NEW k \in Nat
    PROVE  /\ ((x % TailMod) + k) % TailMod = (x + k) % TailMod
           /\ (x + k) % TailMod \in 0 .. TailMod - 1
<1>1. TailMod % TailMod = 0
  <2>1. TailMod = TailMod * 1 + 0 /\ 0 \in 0 .. TailMod - 1 /\ 1 \in Int /\ TailMod \in Int
    BY Sizes
  <2> QED  BY <2>1, Sizes, ModIs
<1>2. ((x % TailMod) + k) % TailMod = (x + k) % TailMod
  <2>1. x \in Int /\ k \in Int
    OBVIOUS
  <2> QED  BY <1>1, <2>1, Sizes, ModAdd
<1> DEFINE y == x + k
<1>3. y \in Int
  OBVIOUS
<1> HIDE DEF y
<1>4. y % TailMod \in 0 .. TailMod - 1
  BY <1>3, Sizes, DivMod
<1> QED  BY <1>2, <1>4 DEF y

-----------------------------------------------------------------------------
(* Steps that leave the pending CQEs, or take one, or append one.            *)

LEMMA RingSame ==
    ASSUME NEW F, Ring(F), All' = All, UNCHANGED <<index, head, tail, bundle>>
    PROVE  Ring(F)'
<1>1. \A c : Width(c)' = Width(c)
  BY DEF Width, SliceCount
<1> QED  BY <1>1 DEF Ring

\* The function with one more value, w after the last, and the one without the first.
Extend(F, k, w) == [i \in 1 .. k + 1 |-> IF i = k + 1 THEN F[k] + w ELSE F[i]]

Drop(F, k) == [i \in 1 .. k - 1 |-> F[i + 1]]

\* The kernel appends a CQE and takes its buffers.
LEMMA RingAppend ==
    ASSUME RingType, NEW F, Ring(F), NEW c \in CqeType, NEW w \in Nat,
           cq' = Append(cq, c), UNCHANGED <<buf, index, tail, bundle>>,
           Width(c) = w, w <= Available,
           head' = (head + w) % TailMod,
           c.res = "data" => c.bid = F[Len(All) + 1] % Entries,
           NEW F2, F2 = Extend(F, Len(All) + 1, w)
    PROVE  Ring(F2)'
<1> DEFINE n == Len(All)
           h == F[n + 1]
<1>1. /\ n \in Nat /\ h \in Nat /\ F[1] \in Nat /\ index \in Nat
      /\ Available = (F[1] + index + Entries) - h /\ Entries \in Nat
  BY AllType, RingAvailable, Sizes
<1>2. /\ Len(All') = n + 1
      /\ \A i \in 1 .. n : All'[i] = All[i]
      /\ All'[n + 1] = c
  BY AllAppend
<1>3. /\ F \in [1 .. n + 1 -> Nat]
      /\ \A i \in 1 .. n : F[i + 1] = F[i] + Width(All[i])
      /\ \A i, j \in 1 .. n + 1 : i <= j => F[i] <= F[j]
      /\ head = h % TailMod
      /\ tail = (F[1] + index + Entries) % TailMod
      /\ h \in F[1] + index .. F[1] + index + Entries
      /\ \A i \in 1 .. n : All[i].res = "data" => All[i].bid = F[i] % Entries
  BY DEF Ring
<1>4. F2 = [i \in 1 .. n + 2 |-> IF i = n + 2 THEN h + w ELSE F[i]]
  <2>1. F2 = [i \in 1 .. (n + 1) + 1 |-> IF i = (n + 1) + 1 THEN h + w ELSE F[i]]
    BY DEF Extend
  <2>2. (n + 1) + 1 = n + 2
    BY <1>1
  <2> HIDE DEF n, h
  <2> QED  BY <2>1, <2>2
<1>6. head' = (h + w) % TailMod
  BY <1>1, <1>3, Wraps
<1> HIDE DEF n, h
<1>7. F2[n + 2] = h + w /\ \A i \in 1 .. n + 1 : F2[i] = F[i]
  <2>1. n \in Nat
    BY <1>1
  <2> QED  BY <1>4, <2>1
<1>8. F2 \in [1 .. n + 2 -> Nat]
  <2>1. ASSUME NEW i \in 1 .. n + 2 PROVE (IF i = n + 2 THEN h + w ELSE F[i]) \in Nat
    BY <1>1, <1>3
  <2> QED  BY <1>4, <2>1
<1>9. ASSUME NEW i \in 1 .. n + 1 PROVE F2[i + 1] = F2[i] + Width(All'[i])
  <2>1. CASE i = n + 1
    <3>1. i + 1 = n + 2 /\ F2[i] = h /\ All'[i] = c
      BY <1>1, <1>2, <1>7, <2>1 DEF h
    <3> QED  BY <1>7, <3>1
  <2>2. CASE i # n + 1
    <3>1. i \in 1 .. n /\ i + 1 \in 1 .. n + 1
      BY <1>1, <2>2
    <3> QED  BY <1>2, <1>3, <1>7, <3>1
  <2> QED  BY <2>1, <2>2
<1>10. ASSUME NEW i \in 1 .. n + 2, NEW j \in 1 .. n + 2, i <= j PROVE F2[i] <= F2[j]
  <2>1. CASE j = n + 2
    <3>1. CASE i = n + 2
      BY <1>1, <1>7, <2>1, <3>1
    <3>2. CASE i # n + 2
      <4>1. i \in 1 .. n + 1 /\ n + 1 \in 1 .. n + 1 /\ i <= n + 1
        BY <1>1, <3>2
      <4>2. F[i] <= h /\ F[i] \in Nat
        BY <1>3, <4>1 DEF h
      <4> QED  BY <1>1, <1>7, <2>1, <4>1, <4>2
    <3> QED  BY <3>1, <3>2
  <2>2. CASE j # n + 2
    <3>1. i \in 1 .. n + 1 /\ j \in 1 .. n + 1
      BY <1>1, <1>10, <2>2
    <3> QED  BY <1>3, <1>7, <1>10, <3>1
  <2> QED  BY <2>1, <2>2
<1>11. F2[n + 2] \in F2[1] + index .. F2[1] + index + Entries
  <2>1. F2[1] = F[1]
    BY <1>1, <1>7
  <2>2. h + w \in F[1] + index .. F[1] + index + Entries
    BY <1>1, <1>3, SMTT(40)
  <2> QED  BY <1>7, <2>1, <2>2
<1>12. ASSUME NEW i \in 1 .. n + 1, All'[i].res = "data" PROVE All'[i].bid = F2[i] % Entries
  <2>1. CASE i = n + 1
    <3>1. All'[i] = c /\ F2[i] = h
      BY <1>1, <1>2, <1>7, <2>1 DEF h
    <3> QED  BY <1>12, <3>1 DEF h, n
  <2>2. CASE i # n + 1
    <3>1. i \in 1 .. n
      BY <1>1, <2>2
    <3> QED  BY <1>2, <1>3, <1>7, <1>12, <3>1
  <2> QED  BY <2>1, <2>2
<1>13. tail' = (F2[1] + index' + Entries) % TailMod
  <2>1. F2[1] = F[1]
    BY <1>1, <1>7
  <2> QED  BY <1>3, <2>1
<1>14. Len(All') = n + 1 /\ (n + 1) + 1 = n + 2
  BY <1>1, <1>2
<1> DEFINE m == n + 1
<1>15. /\ Len(All') = m /\ F2 \in [1 .. m + 1 -> Nat]
       /\ \A i \in 1 .. m : F2[i + 1] = F2[i] + Width(All[i])'
  <2>1. \A i \in 1 .. m : Width(All[i])' = Width(All'[i])
    BY DEF Width, SliceCount
  <2>2. /\ Len(All') = m /\ F2 \in [1 .. m + 1 -> Nat]
        /\ \A i \in 1 .. m : F2[i + 1] = F2[i] + Width(All'[i])
    BY <1>8, <1>9, <1>14
  <2> HIDE DEF m
  <2> QED  BY <2>1, <2>2
<1>16. /\ \A i, j \in 1 .. m + 1 : i <= j => F2[i] <= F2[j]
       /\ head' = F2[m + 1] % TailMod
  BY <1>6, <1>7, <1>10, <1>14
<1>17. /\ F2[m + 1] \in F2[1] + index' .. F2[1] + index' + Entries
       /\ \A i \in 1 .. m : All'[i].res = "data" => All'[i].bid = F2[i] % Entries
  BY <1>11, <1>12, <1>14
<1> HIDE DEF m
<1> QED  BY <1>13, <1>15, <1>16, <1>17 DEF Ring

\* The driver has given back the buffers of the first CQE.
LEMMA RingPop ==
    ASSUME RingType, NEW F, Ring(F), buf # <<>>, buf' = Tail(buf), index' = 0,
           UNCHANGED <<cq, head, bundle>>, index <= Width(Head(buf)),
           Width(Head(buf)) \in Nat,
           tail' = (F[1] + Width(Head(buf)) + Entries) % TailMod,
           NEW F2, F2 = Drop(F, Len(All) + 1)
    PROVE  Ring(F2)'
<1> DEFINE n == Len(All)
           h == F[n + 1]
           w == Width(Head(buf))
<1>1. /\ n \in Nat \ {0} /\ h \in Nat /\ F[1] \in Nat /\ index \in Nat /\ w \in Nat
      /\ Entries \in Nat /\ index <= w
  BY AllHead, RingAvailable, Sizes
<1>2. /\ Len(All') = n - 1
      /\ \A i \in 1 .. n - 1 : All'[i] = All[i + 1]
      /\ All[1] = Head(buf)
  BY AllTail, AllHead
<1>3. /\ F \in [1 .. n + 1 -> Nat]
      /\ \A i \in 1 .. n : F[i + 1] = F[i] + Width(All[i])
      /\ \A i, j \in 1 .. n + 1 : i <= j => F[i] <= F[j]
      /\ head = h % TailMod
      /\ h \in F[1] + index .. F[1] + index + Entries
      /\ \A i \in 1 .. n : All[i].res = "data" => All[i].bid = F[i] % Entries
  BY DEF Ring
<1>4. F2 = [i \in 1 .. n |-> F[i + 1]]
  <2>1. F2 = [i \in 1 .. (n + 1) - 1 |-> F[i + 1]]
    BY DEF Drop
  <2>2. (n + 1) - 1 = n
    BY <1>1
  <2> HIDE DEF n
  <2> QED  BY <2>1, <2>2
<1>5. \A i \in 1 .. n - 1 : Width(All[i])' = Width(All'[i])
  BY DEF Width, SliceCount
<1>6. tail' = (F[1] + w + Entries) % TailMod
  OBVIOUS
<1> HIDE DEF n, h, w
<1>7. \A i \in 1 .. n : F2[i] = F[i + 1]
  BY <1>4
<1>8. n \in Nat /\ n >= 1 /\ 1 \in 1 .. n /\ 1 + 1 = 2 /\ 2 \in 1 .. n + 1 /\ n + 1 \in 1 .. n + 1
  BY <1>1
<1>9. F2 \in [1 .. n -> Nat]
  <2>1. \A i \in 1 .. n : F[i + 1] \in Nat
    BY <1>3, <1>8
  <2> QED  BY <1>4, <2>1
<1>10. F2[1] = F[2] /\ F[2] = F[1] + w /\ F2[n] = h
  <2>1. F2[1] = F[2]
    BY <1>7, <1>8
  <2>2. F[2] = F[1] + w
    <3>1. F[1 + 1] = F[1] + Width(All[1])
      BY <1>3, <1>8
    <3> QED  BY <1>2, <1>8, <3>1 DEF w
  <2>3. F2[n] = h
    <3>1. n \in 1 .. n
      BY <1>8
    <3> QED  BY <1>7, <3>1 DEF h
  <2> QED  BY <2>1, <2>2, <2>3
<1>11. ASSUME NEW i \in 1 .. n - 1
       PROVE  /\ F2[i + 1] = F2[i] + Width(All'[i])
              /\ All'[i].res = "data" => All'[i].bid = F2[i] % Entries
  <2> DEFINE k == i + 1
  <2>1. k \in 1 .. n /\ i \in 1 .. n
    BY <1>8
  <2>2. All'[i] = All[k]
    BY <1>2
  <2> HIDE DEF k
  <2>3. F[k + 1] = F[k] + Width(All[k]) /\ (All[k].res = "data" => All[k].bid = F[k] % Entries)
    BY <1>3, <2>1
  <2>4. F2[k] = F[k + 1] /\ F2[i] = F[k]
    BY <1>7, <2>1 DEF k
  <2> QED  BY <2>2, <2>3, <2>4 DEF k
<1>12. ASSUME NEW i \in 1 .. n, NEW j \in 1 .. n, i <= j PROVE F2[i] <= F2[j]
  <2>1. i + 1 \in 1 .. n + 1 /\ j + 1 \in 1 .. n + 1 /\ i + 1 <= j + 1
    BY <1>8, <1>12
  <2>2. F[i + 1] <= F[j + 1]
    BY <1>3, <2>1
  <2> QED  BY <1>7, <2>2
<1>13. F2[n] \in F2[1] .. F2[1] + Entries
  <2>1. F[2] <= h
    BY <1>3, <1>8 DEF h
  <2>2. h <= F[1] + w + Entries
    <3>1. h <= F[1] + index + Entries
      BY <1>1, <1>3
    <3> QED  BY <1>1, <3>1
  <2>3. h \in F[1] + w .. F[1] + w + Entries
    BY <1>1, <1>10, <2>1, <2>2
  <2> QED  BY <1>10, <2>3
<1> DEFINE m == n - 1
<1>14. Len(All') = m /\ m + 1 = n
  BY <1>2, <1>8
<1>15. /\ F2 \in [1 .. m + 1 -> Nat]
       /\ \A i \in 1 .. m : F2[i + 1] = F2[i] + Width(All'[i])
       /\ \A i \in 1 .. m : All'[i].res = "data" => All'[i].bid = F2[i] % Entries
       /\ \A i, j \in 1 .. m + 1 : i <= j => F2[i] <= F2[j]
       /\ head' = F2[m + 1] % TailMod
  BY <1>3, <1>9, <1>10, <1>11, <1>12, <1>14
<1>16. \A i \in 1 .. m : F2[i + 1] = F2[i] + Width(All[i])'
  BY <1>5, <1>15
<1>17. tail' = (F2[1] + index' + Entries) % TailMod
  <2>1. F[1] + w + Entries = F2[1] + 0 + Entries
    BY <1>1, <1>10
  <2> QED  BY <1>6, <2>1
<1>18. F2[m + 1] \in F2[1] + index' .. F2[1] + index' + Entries
  <2>1. F2[1] \in Nat /\ F2[1] + 0 = F2[1]
    BY <1>1, <1>10
  <2> QED  BY <1>13, <1>14, <2>1
<1> HIDE DEF m
<1> QED  BY <1>14, <1>15, <1>16, <1>17, <1>18 DEF Ring

\* One more buffer of the first CQE is given back, and not the last of them.
LEMMA RingNextSlice ==
    ASSUME RingType, NEW F, Ring(F), buf # <<>>, index + 1 <= Width(Head(buf)),
           Width(Head(buf)) \in Nat, index' = index + 1, tail' = (tail + 1) % TailMod,
           All' = All, UNCHANGED <<head, bundle>>
    PROVE  Ring(F)'
<1> DEFINE n == Len(All)
           w == Width(Head(buf))
<1>1. /\ n \in Nat \ {0} /\ F[1] \in Nat /\ F[n + 1] \in Nat /\ index \in Nat /\ w \in Nat
      /\ Entries \in Nat
  BY AllHead, RingAvailable, Sizes
<1>2. F[n + 1] \in F[1] + (index + 1) .. F[1] + (index + 1) + Entries
  <2>1. F[n + 1] \in F[1] + index .. F[1] + index + Entries
    BY DEF Ring
  <2>2. 1 \in 1 .. n /\ 1 + 1 \in 1 .. n + 1 /\ n + 1 \in 1 .. n + 1 /\ 1 + 1 <= n + 1
    BY <1>1
  <2>3. F[1 + 1] = F[1] + Width(All[1]) /\ F[1 + 1] <= F[n + 1]
    BY <2>2 DEF Ring
  <2>4. F[1] + w <= F[n + 1]
    BY <2>3, AllHead
  <2> HIDE DEF n, w
  <2>5. F[n + 1] <= F[1] + index + Entries
    BY <1>1, <2>1
  <2>6. index + 1 <= w
    BY DEF w
  <2> QED  BY <1>1, <2>4, <2>5, <2>6
<1>3. tail' = (F[1] + (index + 1) + Entries) % TailMod
  <2> DEFINE f == F[1]
             t == f + index + Entries
  <2>1. t \in Nat /\ f + (index + 1) + Entries = t + 1
    <3>1. f \in Nat /\ index \in Nat /\ Entries \in Nat
      BY <1>1
    <3> HIDE DEF f
    <3> QED  BY <3>1
  <2>2. tail = t % TailMod
    BY DEF Ring
  <2> HIDE DEF t
  <2>3. ((t % TailMod) + 1) % TailMod = (t + 1) % TailMod
    BY <2>1, Wraps
  <2> QED  BY <2>1, <2>2, <2>3
<1>4. \A i \in 1 .. n : Width(All[i])' = Width(All[i])
  BY DEF Width, SliceCount
<1> QED  BY <1>2, <1>3, <1>4 DEF Ring

\* A pending CQE stays what it is when others come and go.
LEMMA CqeOKSame ==
    ASSUME NEW c, CqeOK(c), bundle' = bundle
    PROVE  CqeOK(c)'
BY DEF CqeOK, SliceCount

LEMMA CqeSame ==
    ASSUME CqeInv, All' = All, bundle' = bundle
    PROVE  CqeInv'
<1> DEFINE a == All
<1>1. \A i \in 1 .. Len(a) : CqeOK(a[i]) /\ (~a[i].more => i = Len(a))
  BY DEF CqeInv
<1>2. All' = a
  OBVIOUS
<1> HIDE DEF a
<1>3. ASSUME NEW i \in 1 .. Len(All'), NEW c, c = a[i] PROVE CqeOK(c)'
  BY <1>1, <1>2, <1>3, CqeOKSame
<1>4. \A i \in 1 .. Len(All') : CqeOK(All[i])'
  BY <1>2, <1>3 DEF CqeOK, SliceCount
<1> QED  BY <1>1, <1>2, <1>4 DEF CqeInv

LEMMA CqeAppend ==
    ASSUME RingType, CqeInv, ArmInv, karmed, NEW c \in CqeType,
           cq' = Append(cq, c), buf' = buf, bundle' = bundle, CqeOK(c)'
    PROVE  CqeInv'
<1> DEFINE n == Len(All)
<1>1. n \in Nat
  BY AllType
<1>2. /\ Len(All') = n + 1
      /\ \A i \in 1 .. n : All'[i] = All[i]
      /\ All'[n + 1] = c
  BY AllAppend
<1>3. \A i \in 1 .. n : CqeOK(All[i]) /\ All[i].more
  BY DEF CqeInv, ArmInv
<1> HIDE DEF n
<1>4. ASSUME NEW i \in 1 .. n + 1 PROVE CqeOK(All[i])' /\ (~All'[i].more => i = n + 1)
  <2>1. CASE i = n + 1
    <3>1. All'[i] = c
      BY <1>2, <2>1
    <3>2. CqeOK(All[i])'
      BY <3>1 DEF CqeOK, SliceCount
    <3> QED  BY <2>1, <3>2
  <2>2. CASE i # n + 1
    <3>1. i \in 1 .. n
      BY <1>1, <2>2
    <3>2. All'[i] = All[i] /\ CqeOK(All[i]) /\ All[i].more
      BY <1>2, <1>3, <3>1
    <3>3. PICK d : d = All[i]
      OBVIOUS
    <3>4. CqeOK(d)'
      BY <3>2, <3>3, CqeOKSame
    <3>5. CqeOK(All[i])'
      BY <3>2, <3>3, <3>4 DEF CqeOK, SliceCount
    <3> QED  BY <3>2, <3>5
  <2> QED  BY <2>1, <2>2
<1> QED  BY <1>2, <1>4 DEF CqeInv

LEMMA CqePop ==
    ASSUME RingType, CqeInv, buf # <<>>, buf' = Tail(buf), cq' = cq, bundle' = bundle
    PROVE  CqeInv'
<1> DEFINE n == Len(All)
<1>1. n \in Nat \ {0}
  BY AllHead
<1>2. Len(All') = n - 1 /\ \A i \in 1 .. n - 1 : All'[i] = All[i + 1]
  BY AllTail
<1>3. \A i \in 1 .. n : CqeOK(All[i]) /\ (~All[i].more => i = n)
  BY DEF CqeInv
<1> HIDE DEF n
<1>4. ASSUME NEW i \in 1 .. n - 1 PROVE CqeOK(All[i])' /\ (~All'[i].more => i = n - 1)
  <2>1. i + 1 \in 1 .. n /\ (i + 1 = n => i = n - 1)
    BY <1>1
  <2>2. PICK d : d = All[i + 1]
    OBVIOUS
  <2>3. CqeOK(d) /\ (~d.more => i = n - 1) /\ All'[i] = d
    BY <1>2, <1>3, <2>1, <2>2
  <2>4. CqeOK(d)'
    BY <2>3, CqeOKSame
  <2>5. CqeOK(All[i])'
    BY <2>3, <2>4 DEF CqeOK, SliceCount
  <2> QED  BY <2>3, <2>5
<1> QED  BY <1>2, <1>4 DEF CqeInv

\* The receive ends with the CQE that says so.
LEMMA ArmAppend ==
    ASSUME RingType, ArmInv, karmed, NEW c \in CqeType,
           cq' = Append(cq, c), buf' = buf, armed' = armed, karmed' = c.more
    PROVE  ArmInv'
<1>1. armed /\ \A i \in 1 .. Len(All) : All[i].more
  BY DEF ArmInv
<1>2. /\ Len(All) \in Nat
      /\ Len(All') = Len(All) + 1
      /\ \A i \in 1 .. Len(All) : All'[i] = All[i]
      /\ All'[Len(All) + 1] = c
  BY AllAppend, AllType
<1>3. ASSUME karmed', NEW i \in 1 .. Len(All') PROVE All'[i].more
  <2>1. CASE i = Len(All) + 1
    BY <1>2, <1>3, <2>1
  <2>2. CASE i # Len(All) + 1
    <3>1. i \in 1 .. Len(All)
      BY <1>2, <2>2
    <3> QED  BY <1>1, <1>2, <3>1
  <2> QED  BY <2>1, <2>2
<1> QED  BY <1>1, <1>3 DEF ArmInv

-----------------------------------------------------------------------------
(* The kernel fills buffers.                                                *)

\* The bytes of the i-th buffer of n bytes from byte first on.
LEMMA ChunkType ==
    ASSUME NEW first \in Nat \ {0}, NEW n \in Nat, NEW i \in Nat, i * BufSize < n,
           first + n <= MaxBytes + 1
    PROVE  /\ Chunk(first, n, i) \in Seq(1 .. MaxBytes)
           /\ Len(Chunk(first, n, i)) =
                 IF n - i * BufSize < BufSize THEN n - i * BufSize ELSE BufSize
           /\ \A j \in 1 .. Len(Chunk(first, n, i)) :
                 Chunk(first, n, i)[j] = first + i * BufSize + j - 1
<1> DEFINE p == i * BufSize
           len == IF n - p < BufSize THEN n - p ELSE BufSize
<1>1. p \in Nat /\ p < n /\ BufSize \in Nat \ {0} /\ MaxBytes \in Nat
  BY Sizes
<1>2. Chunk(first, n, i) = [j \in 1 .. len |-> first + p + j - 1]
  BY DEF Chunk
<1> HIDE DEF p
<1>3. len \in Nat /\ len <= n - p
  BY <1>1
<1> HIDE DEF len
<1>4. \A j \in 1 .. len : first + p + j - 1 \in 1 .. MaxBytes
  BY <1>1, <1>3
<1>5. [j \in 1 .. len |-> first + p + j - 1] \in [1 .. len -> 1 .. MaxBytes]
  BY <1>4
<1>6. /\ Chunk(first, n, i) \in Seq(1 .. MaxBytes) /\ Len(Chunk(first, n, i)) = len
      /\ \A j \in 1 .. len : Chunk(first, n, i)[j] = first + p + j - 1
  BY <1>2, <1>3, <1>5
<1> QED  BY <1>6 DEF p, len

\* Where a receive of n bytes goes: used buffers, from head on.
Fills(n, used, more, h) ==
    /\ n \in 1 .. sent - taken
    /\ used \in 1 .. Available
    /\ n <= used * BufSize
    /\ \A k \in 0 .. used - 1 : k * BufSize < n
    /\ more \in BOOLEAN
    /\ Cqe("data", h % Entries, n, more) \in CqeType
    /\ SliceCount(Cqe("data", h % Entries, n, more)) = used
    /\ cq' = Append(cq, Cqe("data", h % Entries, n, more))
    /\ karmed' = more
    /\ head' = (head + used) % TailMod
    /\ taken' = taken + n
    /\ mem' \in [Bids -> Seq(1 .. MaxBytes)]
    /\ \A i \in 0 .. used - 1 : mem'[(h + i) % Entries] = Chunk(taken + 1, n, i)
    /\ \A b \in Bids : (\A i \in 0 .. used - 1 : (h + i) % Entries # b) => mem'[b] = mem[b]

LEMMA KernelRecvFills ==
    ASSUME Core, NEW F, Ring(F), KernelRecv
    PROVE  \E n, used, more : Fills(n, used, more, F[Len(All) + 1])
<1> DEFINE h == F[Len(All) + 1]
<1>0. RingType
  BY DEF Core
<1>1. /\ h \in Nat /\ Available \in 0 .. Entries /\ Entries \in Nat \ {0}
      /\ BufSize \in Nat \ {0} /\ MaxBytes \in Nat
      /\ sent \in Nat /\ sent <= MaxBytes /\ taken \in Nat /\ taken <= sent
  BY <1>0, RingAvailable, Sizes DEF RingType
<1>2. \A i \in Nat : SlotAt(i) = (h + i) % Entries /\ slot[SlotAt(i)] = (h + i) % Entries
  BY <1>0, RingSlotAt DEF Core, SlotHoldsItsBuffer
<1>3. PICK n \in 1 .. sent - taken :
          LET used == CeilDiv(n, BufSize)
          IN  /\ used <= IF bundle THEN Available ELSE 1
              /\ mem' = [b \in Bids |->
                    IF \E i \in 0 .. used - 1 : slot[SlotAt(i)] = b
                    THEN Chunk(taken + 1, n, CHOOSE i \in 0 .. used - 1 : slot[SlotAt(i)] = b)
                    ELSE mem[b]]
              /\ head' = (head + used) % TailMod
              /\ taken' = taken + n
              /\ \E more \in BOOLEAN :
                    /\ karmed' = more
                    /\ cq' = Append(cq, Cqe("data", slot[SlotAt(0)], n, more))
  BY DEF KernelRecv
<1> DEFINE used == CeilDiv(n, BufSize)
<1>4. PICK more \in BOOLEAN :
         karmed' = more /\ cq' = Append(cq, Cqe("data", slot[SlotAt(0)], n, more))
  BY <1>3
<1>5. /\ used <= IF bundle THEN Available ELSE 1
      /\ head' = (head + used) % TailMod
      /\ taken' = taken + n
      /\ Available > 0
  BY <1>3 DEF KernelRecv
<1>6. mem' = [b \in Bids |->
                 IF \E i \in 0 .. used - 1 : slot[SlotAt(i)] = b
                 THEN Chunk(taken + 1, n, CHOOSE i \in 0 .. used - 1 : slot[SlotAt(i)] = b)
                 ELSE mem[b]]
  BY <1>3
<1>7. n \in Nat /\ n > 0 /\ taken + n <= sent
  BY <1>1
<1>8. used \in Nat /\ n <= used * BufSize /\ used * BufSize < n + BufSize /\ used > 0
  BY <1>1, <1>7, CeilDivBounds DEF CeilDiv
<1> DEFINE c == Cqe("data", h % Entries, n, more)
<1>9. SliceCount(c) = used
  <2>1. c.n = n
    BY DEF Cqe
  <2>2. CASE bundle
    BY <1>7, <2>1, <2>2 DEF SliceCount
  <2>3. CASE ~bundle
    <3>1. used = 1
      BY <1>5, <1>8, <2>3
    <3> QED  BY <2>3, <3>1 DEF SliceCount
  <2> QED  BY <2>2, <2>3
<1>10. h % Entries \in Bids
  <2>1. h \in Int
    BY <1>1
  <2> HIDE DEF h
  <2> QED  BY <2>1, Sizes, DivMod DEF Bids
<1>11. c \in CqeType
  <2>1. n \in 0 .. MaxBytes
    BY <1>1, <1>7
  <2> HIDE DEF h
  <2> QED  BY <1>10, <2>1 DEF Cqe, CqeType
<1>12. slot[SlotAt(0)] = h % Entries
  <2>1. slot[SlotAt(0)] = (h + 0) % Entries /\ h + 0 = h
    BY <1>1, <1>2
  <2> QED  BY <2>1
<1>13. cq' = Append(cq, c)
  BY <1>4, <1>12
<1> HIDE DEF h, used, c
<1>14. used \in 1 .. Available
  BY <1>1, <1>5, <1>8
<1>15. ASSUME NEW k \in 0 .. used - 1 PROVE k * BufSize < n /\ k \in Nat
  <2>1. k \in Nat /\ used - 1 \in Nat /\ k <= used - 1 /\ BufSize \in Nat
    BY <1>1, <1>8
  <2>2. k * BufSize <= (used - 1) * BufSize
    BY <2>1, Product
  <2>3. (used - 1) * BufSize = used * BufSize - BufSize
    BY <1>1, <1>8
  <2>4. k * BufSize \in Nat /\ used * BufSize \in Nat
    BY <1>1, <1>8, <2>1
  <2> QED  BY <1>1, <1>7, <1>8, <2>1, <2>2, <2>3, <2>4
<1>16. ASSUME NEW i \in 0 .. used - 1, NEW k \in 0 .. used - 1,
              (h + i) % Entries = (h + k) % Entries
       PROVE  i = k
  <2> DEFINE a == h + i
             b == h + k
  <2>1. a \in Int /\ b \in Int /\ a - b < Entries /\ b - a < Entries
    BY <1>1, <1>14
  <2>2. a % Entries = b % Entries
    BY <1>16
  <2> HIDE DEF a, b
  <2>3. a = b
    BY <1>1, <2>1, <2>2, ModInjective
  <2> QED  BY <1>1, <1>14, <2>3 DEF a, b
<1>17. \A i \in 0 .. used - 1 : slot[SlotAt(i)] = (h + i) % Entries /\ (h + i) % Entries \in Bids
  <2> TAKE i \in 0 .. used - 1
  <2>1. i \in Nat
    BY <1>15
  <2> DEFINE x == h + i
  <2>2. x \in Int
    BY <1>1, <2>1
  <2> HIDE DEF x
  <2>3. x % Entries \in Bids
    BY <1>1, <2>2, DivMod DEF Bids
  <2> QED  BY <1>2, <2>1, <2>3 DEF x
<1>18. ASSUME NEW i \in 0 .. used - 1
       PROVE  mem'[(h + i) % Entries] = Chunk(taken + 1, n, i)
  <2> DEFINE b == (h + i) % Entries
             k == CHOOSE k \in 0 .. used - 1 : slot[SlotAt(k)] = b
  <2>1. b \in Bids /\ slot[SlotAt(i)] = b
    BY <1>17
  <2>2. k \in 0 .. used - 1 /\ slot[SlotAt(k)] = b
    BY <2>1
  <2>3. (h + k) % Entries = b
    BY <1>17, <2>2
  <2>4. mem'[b] = Chunk(taken + 1, n, k)
    BY <1>6, <2>1, <2>2
  <2> HIDE DEF k
  <2>5. k = i
    BY <1>16, <2>2, <2>3
  <2> QED  BY <2>4, <2>5
<1>19. ASSUME NEW b \in Bids, \A i \in 0 .. used - 1 : (h + i) % Entries # b
       PROVE  mem'[b] = mem[b]
  <2>1. ~(\E i \in 0 .. used - 1 : slot[SlotAt(i)] = b)
    BY <1>17, <1>19
  <2> QED  BY <1>6, <2>1
<1>20. mem' \in [Bids -> Seq(1 .. MaxBytes)]
  <2>1. ASSUME NEW b \in Bids PROVE mem'[b] \in Seq(1 .. MaxBytes)
    <3>1. CASE \E i \in 0 .. used - 1 : (h + i) % Entries = b
      <4>1. PICK i \in 0 .. used - 1 : (h + i) % Entries = b
        BY <3>1
      <4>2. mem'[b] = Chunk(taken + 1, n, i)
        BY <1>18, <4>1
      <4>3. i * BufSize < n /\ i \in Nat
        BY <1>15
      <4>4. taken + 1 \in Nat \ {0} /\ (taken + 1) + n <= MaxBytes + 1
        BY <1>1, <1>7
      <4>5. Chunk(taken + 1, n, i) \in Seq(1 .. MaxBytes)
        BY <1>7, <4>3, <4>4, ChunkType
      <4> QED  BY <4>2, <4>5
    <3>2. CASE ~(\E i \in 0 .. used - 1 : (h + i) % Entries = b)
      <4>1. mem'[b] = mem[b]
        BY <1>19, <3>2
      <4> QED  BY <1>0, <4>1 DEF RingType
    <3> QED  BY <3>1, <3>2
  <2>2. mem' = [b \in Bids |-> mem'[b]]
    BY <1>6
  <2> QED  BY <2>1, <2>2
<1>21. Fills(n, used, more, h)
  BY <1>4, <1>5, <1>8, <1>9, <1>11, <1>13, <1>14, <1>15, <1>18, <1>19, <1>20 DEF Fills, c
<1> QED  BY <1>21 DEF h

-----------------------------------------------------------------------------
(* One step of each action keeps the core invariant and the ring counters.   *)

\* A step that leaves the ring and the pending CQEs alone.
LEMMA Quiet ==
    ASSUME Core, NEW F, Ring(F), RingType', PhaseInv', ArmInv', All' = All,
           UNCHANGED <<index, head, tail, bundle, slot>>
    PROVE  Core' /\ Ring(F)'
<1>1. Ring(F)'
  BY RingSame
<1>2. CqeInv'
  BY CqeSame DEF Core
<1>3. SlotHoldsItsBuffer'
  BY DEF Core, SlotHoldsItsBuffer
<1> QED  BY <1>1, <1>2, <1>3 DEF Core

LEMMA ArmSame ==
    ASSUME ArmInv, All' = All, UNCHANGED <<armed, karmed>>,
           phase \in Work <=> phase' \in Work
    PROVE  ArmInv'
BY DEF ArmInv

LEMMA PeerStep ==
    ASSUME Core, NEW F, Ring(F), PeerSend \/ PeerClose
    PROVE  Core' /\ Ring(F)'
<1>1. UNCHANGED <<ringVars, kernelVars, driverVars>>
  BY DEF PeerSend, PeerClose
<1>2. UNCHANGED <<slot, mem, tail, head, karmed, cq, armed, closed, ws, phase, buf, index,
                  first_err, bundle, failed>>
  BY <1>1 DEF ringVars, kernelVars, driverVars, streamVars
<1>3. RingType /\ PhaseInv /\ ArmInv
  BY DEF Core
<1>4. All' = All
  BY <1>2 DEF All
<1>5. sent' \in 0 .. MaxBytes /\ taken' \in 0 .. sent' /\ fin' \in BOOLEAN
  <2>1. sent \in Nat /\ sent <= MaxBytes /\ taken \in Nat /\ taken <= sent /\ MaxBytes \in Nat
    BY <1>3, Sizes DEF RingType
  <2>2. fin \in BOOLEAN
    BY <1>3 DEF RingType
  <2>3. CASE PeerSend
    <3>1. sent < MaxBytes /\ sent' = sent + 1 /\ taken' = taken /\ fin' = fin
      BY <2>3 DEF PeerSend
    <3>2. sent' \in 0 .. MaxBytes /\ taken' \in 0 .. sent'
      BY <2>1, <3>1
    <3> QED  BY <2>2, <3>1, <3>2
  <2>4. CASE PeerClose
    <3>1. sent' = sent /\ taken' = taken /\ fin' = TRUE
      BY <2>4 DEF PeerClose
    <3>2. sent' \in 0 .. MaxBytes /\ taken' \in 0 .. sent'
      BY <2>1, <3>1
    <3> QED  BY <3>1, <3>2
  <2> QED  BY <2>3, <2>4
<1>6. RingType'
  BY <1>2, <1>3, <1>5 DEF RingType
<1>7. PhaseInv'
  BY <1>2, <1>3 DEF PhaseInv, SliceCount
<1>8. ArmInv'
  BY <1>2, <1>3, <1>4, ArmSame
<1> QED  BY <1>2, <1>4, <1>6, <1>7, <1>8, Quiet

\* submit_conn_ops, drain_completions and the end of a pump.
LEMMA PumpStep ==
    ASSUME Core, NEW F, Ring(F), Rearm \/ Drain \/ EndPump
    PROVE  Core' /\ Ring(F)' /\ All' = All
<1>1. UNCHANGED <<slot, mem, tail, head, closed, ws, index, first_err, bundle, failed,
                  sent, taken, fin>>
  BY DEF Rearm, Drain, EndPump, ringVars, kernelVars, peerVars, streamVars
<1>2. RingType /\ PhaseInv /\ ArmInv
  BY DEF Core
<1>3. phase \notin Work /\ phase' \notin Work
  BY DEF Rearm, Drain, EndPump, Work
<1>4. All' = All
  <2>1. CASE Rearm \/ EndPump
    BY <2>1 DEF Rearm, EndPump, All, kernelVars
  <2>2. CASE Drain
    <3>1. buf = <<>> /\ buf' = cq /\ cq' = <<>>
      BY <1>2, <2>2 DEF Drain, PhaseInv
    <3> QED  BY <1>2, <3>1, AllDrain
  <2> QED  BY <2>1, <2>2
<1>5. RingType'
  <2>1. CASE Rearm
    BY <1>1, <1>2, <2>1 DEF Rearm, RingType
  <2>2. CASE Drain
    <3>1. <<>> \in Seq(CqeType)
      OBVIOUS
    <3> QED  BY <1>1, <1>2, <2>2, <3>1 DEF Drain, RingType
  <2>3. CASE EndPump
    BY <1>1, <1>2, <2>3 DEF EndPump, RingType, kernelVars
  <2> QED  BY <2>1, <2>2, <2>3
<1>6. PhaseInv'
  <2>1. phase' \in {"submit", "wait"} => buf' = <<>>
    BY <1>2 DEF Rearm, Drain, EndPump, PhaseInv
  <2>2. phase' # "read"
    BY <1>3 DEF Work
  <2>3. index = 0 /\ ~first_err
    BY <1>2, <1>3 DEF PhaseInv
  <2> QED  BY <1>1, <1>3, <2>1, <2>2, <2>3 DEF PhaseInv
<1>7. ArmInv'
  <2>1. CASE UNCHANGED <<armed, karmed>>
    BY <1>2, <1>3, <1>4, <2>1, ArmSame
  <2>2. CASE ~(UNCHANGED <<armed, karmed>>)
    <3>1. ~armed /\ armed' /\ karmed'
      BY <2>2 DEF Rearm, Drain, EndPump, kernelVars
    <3>2. Len(All') = 0
      BY <1>2, <1>3, <1>4, <3>1 DEF ArmInv
    <3>3. \A i \in 1 .. Len(All') : All'[i].more
      BY <3>2
    <3> QED  BY <3>1, <3>3 DEF ArmInv
  <2> QED  BY <2>1, <2>2
<1> QED  BY <1>1, <1>4, <1>5, <1>6, <1>7, Quiet

LEMMA SendCqeStep ==
    ASSUME Core, NEW F, Ring(F), OnSendCqe
    PROVE  Core' /\ Ring(F)'
<1>1. UNCHANGED <<slot, mem, tail, head, karmed, cq, armed, ws, phase, buf, index, first_err,
                  bundle, sent, taken, fin>>
  BY DEF OnSendCqe, ringVars, kernelVars, peerVars
<1>2. RingType /\ PhaseInv /\ ArmInv /\ phase = "dispatch"
  BY DEF Core, OnSendCqe
<1>3. closed' \in BOOLEAN /\ failed' \in BOOLEAN /\ (failed => failed')
  <2>1. PICK err \in BOOLEAN : closed' = AfterCqe(err) /\ failed' = (failed \/ (err /\ ~closed))
    BY DEF OnSendCqe
  <2> QED  BY <2>1 DEF AfterCqe
<1>4. All' = All
  BY <1>1 DEF All
<1>5. RingType'
  BY <1>1, <1>2, <1>3 DEF RingType
<1>6. PhaseInv'
  BY <1>1, <1>2, <1>3 DEF PhaseInv, SliceCount, Work
<1>7. ArmInv'
  BY <1>1, <1>2, <1>4, ArmSame
<1> QED  BY <1>1, <1>4, <1>5, <1>6, <1>7, Quiet

\* The first CQE, the one that on_recv_cqe handles.
LEMMA FirstCqe ==
    ASSUME Core, buf # <<>>
    PROVE  /\ Head(buf) \in CqeType /\ CqeOK(Head(buf)) /\ Len(All) \in Nat \ {0}
           /\ All[1] = Head(buf)
           /\ ~Head(buf).more => Len(All) = 1 /\ ~karmed
           /\ Width(Head(buf)) \in Nat
<1>1. Len(All) \in Nat \ {0} /\ All[1] = Head(buf) /\ Head(buf) \in CqeType
  BY AllHead DEF Core
<1>2. 1 \in 1 .. Len(All)
  BY <1>1
<1>3. CqeOK(All[1]) /\ (~All[1].more => 1 = Len(All))
  BY <1>2 DEF Core, CqeInv
<1>4. karmed => All[1].more
  BY <1>2 DEF Core, ArmInv
<1>5. Width(Head(buf)) \in Nat
  BY <1>1, <1>3 DEF Width, CqeOK
<1> QED  BY <1>1, <1>3, <1>4, <1>5

LEMMA NoBufferStep ==
    ASSUME Core, NEW F, Ring(F), OnRecvCqeNoBuffer, NEW F2, F2 = Drop(F, Len(All) + 1)
    PROVE  Core' /\ Ring(F2)' /\ Len(All') = 0
<1>1. UNCHANGED <<slot, mem, tail, head, karmed, cq, ws, phase, index, first_err,
                  bundle, failed, sent, taken, fin>>
  BY DEF OnRecvCqeNoBuffer, ringVars, kernelVars, peerVars, streamVars
<1>2. RingType /\ PhaseInv /\ CqeInv /\ ArmInv /\ phase = "dispatch" /\ buf # <<>>
  BY DEF Core, OnRecvCqeNoBuffer
<1>3. buf' = Tail(buf) /\ ~armed' /\ armed' \in BOOLEAN /\ closed' \in BOOLEAN
  <2>1. closed' = AfterCqe(Head(buf).res # "nobufs")
    BY DEF OnRecvCqeNoBuffer
  <2>2. AfterCqe(Head(buf).res # "nobufs") \in BOOLEAN
    BY DEF AfterCqe
  <2> QED  BY <2>1, <2>2 DEF OnRecvCqeNoBuffer
<1>4. ~Head(buf).more /\ Width(Head(buf)) = 0
  <2>1. Head(buf).res # "data"
    BY DEF OnRecvCqeNoBuffer
  <2> QED  BY <1>2, <2>1, FirstCqe DEF CqeOK, Width
<1>5. Len(All) = 1 /\ ~karmed
  BY <1>2, <1>4, FirstCqe
<1>6. buf' \in Seq(CqeType) /\ Len(All') = 0
  BY <1>1, <1>2, <1>3, <1>5, AllTail
<1>7. index = 0
  BY <1>2 DEF PhaseInv, Work
<1>8. Ring(F2)'
  <2>1. F[1] \in Nat
    BY <1>2, RingAvailable
  <2>2. tail = (F[1] + index + Entries) % TailMod
    BY DEF Ring
  <2>3. tail' = (F[1] + Width(Head(buf)) + Entries) % TailMod
    BY <1>1, <1>4, <1>7, <2>2
  <2>4. index <= Width(Head(buf)) /\ Width(Head(buf)) \in Nat /\ index' = 0
    BY <1>1, <1>4, <1>7
  <2> QED  BY <1>1, <1>2, <1>3, <2>3, <2>4, RingPop
<1>9. CqeInv'
  BY <1>1, <1>2, <1>3, CqePop
<1>10. ArmInv'
  <2>1. phase' \notin Work
    BY <1>1, <1>2 DEF Work
  <2> QED  BY <1>1, <1>5, <1>6, <2>1 DEF ArmInv
<1>11. PhaseInv'
  BY <1>1, <1>2, <1>7 DEF PhaseInv, Work
<1>12. RingType'
  BY <1>1, <1>2, <1>3, <1>6 DEF RingType
<1>13. SlotHoldsItsBuffer'
  BY <1>1 DEF Core, SlotHoldsItsBuffer
<1> QED  BY <1>6, <1>8, <1>9, <1>10, <1>11, <1>12, <1>13 DEF Core

LEMMA RecvCqeStep ==
    ASSUME Core, NEW F, Ring(F), OnRecvCqe
    PROVE  Core' /\ Ring(F)'
<1>1. UNCHANGED <<slot, mem, tail, head, karmed, cq, closed, ws, buf, index, first_err,
                  bundle, failed, sent, taken, fin>>
  BY DEF OnRecvCqe, ringVars, kernelVars, peerVars, streamVars
<1>2. /\ RingType /\ PhaseInv /\ ArmInv /\ phase = "dispatch" /\ buf # <<>>
      /\ Head(buf).res = "data"
  BY DEF Core, OnRecvCqe
<1>3. armed' = (armed /\ Head(buf).more)
  BY DEF OnRecvCqe
<1>4. phase' = IF closed \/ Head(buf).n = 0 THEN "recycle" ELSE "read"
  BY DEF OnRecvCqe
<1>5. All' = All
  BY <1>1 DEF All
<1>6. /\ Len(All) \in Nat \ {0} /\ Head(buf).n \in Nat
      /\ ~Head(buf).more => Len(All) = 1 /\ ~karmed
      /\ SliceCount(Head(buf)) \in 1 .. Entries
  BY <1>2, FirstCqe, CqeFields DEF CqeOK
<1>7. RingType'
  <2>1. armed' \in BOOLEAN /\ phase' \in {"recycle", "read"}
    BY <1>3, <1>4
  <2> QED  BY <1>1, <1>2, <2>1 DEF RingType
<1>8. PhaseInv'
  <2>1. index = 0 /\ ~first_err
    BY <1>2 DEF PhaseInv, Work
  <2>2. index < SliceCount(Head(buf))
    BY <1>6, <2>1, Sizes
  <2>4. phase' = "read" => ~closed /\ Head(buf).n > 0
    BY <1>4, <1>6
  <2>5. phase' \in Work /\ phase' \notin {"submit", "wait"}
    BY <1>4 DEF Work
  <2>6. SliceCount(Head(buf))' = SliceCount(Head(buf))
    BY <1>1 DEF SliceCount
  <2> QED  BY <1>1, <1>2, <2>1, <2>2, <2>4, <2>5, <2>6 DEF PhaseInv
<1>9. ArmInv'
  <2>1. phase' \in Work /\ phase \notin Work
    BY <1>2, <1>4 DEF Work
  <2>2. armed
    BY <1>2, <1>6, <2>1 DEF ArmInv
  <2>3. ~armed' => Len(All') = 1 /\ ~karmed'
    BY <1>1, <1>3, <1>5, <1>6, <2>2
  <2> QED  BY <1>1, <1>2, <1>5, <2>1, <2>3 DEF ArmInv
<1> QED  BY <1>1, <1>5, <1>7, <1>8, <1>9, Quiet

LEMMA ReadStep ==
    ASSUME Core, NEW F, Ring(F), ReadSlice
    PROVE  Core' /\ Ring(F)'
<1>1. UNCHANGED <<slot, mem, tail, head, karmed, cq, armed, closed, buf, index,
                  bundle, sent, taken, fin>>
  BY DEF ReadSlice, ringVars, kernelVars, peerVars
<1>2. RingType /\ PhaseInv /\ ArmInv /\ phase = "read" /\ phase' = "recycle"
  BY DEF Core, ReadSlice
<1>3. /\ ws' \in {"Connecting", "Open", "Closing"} /\ first_err' \in BOOLEAN
      /\ failed' \in BOOLEAN
      /\ first_err' => ws' = "Closing" \/ failed'
  <2>1. /\ ws \in {"Connecting", "Open", "Closing"} /\ first_err \in BOOLEAN
        /\ failed \in BOOLEAN
        /\ first_err => ws = "Closing" \/ failed
    BY <1>2 DEF RingType, PhaseInv
  <2>2. CASE first_err
    BY <2>1, <2>2 DEF ReadSlice
  <2>3. CASE ~first_err
    BY <2>1, <2>3 DEF ReadSlice, OnSlice
  <2> QED  BY <2>2, <2>3
<1>4. All' = All
  BY <1>1 DEF All
<1>5. RingType'
  BY <1>1, <1>2, <1>3 DEF RingType
<1>6. PhaseInv'
  BY <1>1, <1>2, <1>3 DEF PhaseInv, SliceCount, Work
<1>7. ArmInv'
  BY <1>1, <1>2, <1>4, ArmSame DEF Work
<1> QED  BY <1>1, <1>4, <1>5, <1>6, <1>7, Quiet

\* The slice the driver is at: its buffer, and the slot that it goes back to.
LEMMA SliceSlot ==
    ASSUME Core, NEW F, Ring(F), phase \in Work
    PROVE  /\ F[1] \in Nat /\ index \in Nat
           /\ SliceBid(Head(buf), index) = (F[1] + index) % Entries
           /\ tail % Entries = (F[1] + index) % Entries
           /\ (F[1] + index) % Entries \in Bids
<1>1. RingType /\ buf # <<>> /\ Head(buf).res = "data"
  BY DEF Core, PhaseInv
<1> DEFINE f == F[1]
           x == f + index
<1>2. f \in Nat /\ index \in Nat
  BY <1>1, RingAvailable
<1>3. Head(buf).bid = f % Entries
  <2>1. Len(All) \in Nat \ {0} /\ All[1] = Head(buf)
    BY <1>1, AllHead
  <2>2. 1 \in 1 .. Len(All)
    BY <2>1
  <2> QED  BY <1>1, <2>1, <2>2 DEF Ring
<1>4. tail = (x + Entries) % TailMod
  BY DEF Ring
<1> HIDE DEF f
<1>5. x \in Int /\ f \in Int /\ index \in Int /\ Entries % Entries = 0
  <2>1. Entries = Entries * 1 + 0 /\ 0 \in 0 .. Entries - 1 /\ 1 \in Int /\ Entries \in Int
    BY Sizes
  <2>2. Entries % Entries = 0
    BY <2>1, Sizes, ModIs
  <2> QED  BY <1>2, <2>2
<1>6. ((f % Entries) + index) % Entries = x % Entries
  BY <1>5, Sizes, ModAdd
<1> HIDE DEF x
<1>7. x % Entries \in Bids
  BY <1>5, Sizes, DivMod DEF Bids
<1> DEFINE y == x + Entries
<1>8. y \in Int /\ 0 \in Int /\ y = x + Entries * 1 /\ 1 \in Int
  BY <1>5, Sizes
<1>9. (x + Entries * 1) % Entries = x % Entries
  BY <1>5, <1>8, Sizes, ModShift
<1> HIDE DEF y
<1>10. ((y % TailMod) + 0) % Entries = (y + 0) % Entries
  <2>1. y \in Int /\ 0 \in Int
    BY <1>8
  <2> QED  BY <2>1, RecvRingAssumption, ModAdd
<1>11. (y % TailMod) + 0 = y % TailMod /\ y + 0 = y
  <2>1. y % TailMod \in 0 .. TailMod - 1
    BY <1>8, Sizes, DivMod
  <2> QED  BY <1>8, <2>1, Sizes
<1>12. tail % Entries = x % Entries
  BY <1>4, <1>8, <1>9, <1>10, <1>11 DEF y
<1>13. SliceBid(Head(buf), index) = x % Entries
  BY <1>3, <1>6 DEF SliceBid
<1> QED  BY <1>2, <1>7, <1>12, <1>13 DEF x, f

LEMMA WriteStep ==
    ASSUME Core, NEW F, Ring(F), WriteEntry
    PROVE  Core' /\ Ring(F)'
<1>1. UNCHANGED <<mem, tail, head, karmed, cq, armed, closed, ws, buf, index, first_err,
                  bundle, failed, sent, taken, fin>>
  BY DEF WriteEntry, streamVars, kernelVars, peerVars
<1>2. RingType /\ PhaseInv /\ ArmInv /\ phase = "recycle" /\ phase' = "publish"
  BY DEF Core, WriteEntry
<1> DEFINE b == SliceBid(Head(buf), index)
<1>3. tail % Entries = b /\ b \in Bids
  BY <1>2, SliceSlot DEF Work
<1>4. slot' = [slot EXCEPT ![tail % Entries] = b]
  BY DEF WriteEntry
<1>5. slot \in [Bids -> Bids] /\ \A i \in Bids : slot[i] = i
  BY <1>2 DEF RingType, Core, SlotHoldsItsBuffer
<1> HIDE DEF b
<1>6. slot' = slot
  BY <1>3, <1>4, <1>5
<1>7. All' = All
  BY <1>1 DEF All
<1>8. RingType'
  BY <1>1, <1>2, <1>6 DEF RingType
<1>9. PhaseInv'
  BY <1>1, <1>2 DEF PhaseInv, SliceCount, Work
<1>10. ArmInv'
  BY <1>1, <1>2, <1>7, ArmSame DEF Work
<1> QED  BY <1>1, <1>6, <1>7, <1>8, <1>9, <1>10, Quiet

\* The next slice of the first CQE.
LEMMA NextSliceStep ==
    ASSUME Core, NEW F, Ring(F), PublishTail, MoreSlices
    PROVE  Core' /\ Ring(F)' /\ All' = All
<1>1. UNCHANGED <<slot, mem, head, karmed, cq, armed, closed, ws, buf, first_err,
                  bundle, failed, sent, taken, fin>>
  BY DEF PublishTail, streamVars, kernelVars, peerVars
<1>2. RingType /\ PhaseInv /\ ArmInv /\ phase = "publish" /\ CqeInv
  BY DEF Core, PublishTail
<1>3. /\ index' = index + 1 /\ tail' = (tail + 1) % TailMod
      /\ phase' = (IF closed THEN "recycle" ELSE "read")
      /\ index + 1 < SliceCount(Head(buf))
  BY DEF PublishTail, MoreSlices
<1>4. buf # <<>> /\ Head(buf).res = "data" /\ index < SliceCount(Head(buf))
  BY <1>2 DEF PhaseInv, Work
<1>5. All' = All
  BY <1>1 DEF All
<1>6. /\ SliceCount(Head(buf)) \in 1 .. Entries /\ index \in Nat /\ tail \in Nat
      /\ Head(buf).n \in Nat /\ Entries \in Nat
  BY <1>2, <1>4, FirstCqe, CqeFields, Sizes DEF CqeOK, RingType
<1>7. Width(Head(buf)) = SliceCount(Head(buf))
  BY <1>4 DEF Width
<1>8. Ring(F)'
  <2>1. index + 1 <= Width(Head(buf)) /\ Width(Head(buf)) \in Nat
    BY <1>3, <1>6, <1>7
  <2> QED  BY <1>1, <1>2, <1>3, <1>4, <1>5, <2>1, RingNextSlice
<1>9. RingType'
  <2>1. tail' \in 0 .. TailMod - 1
    <3>1. tail' = (tail + 1) % TailMod /\ tail \in Nat
      BY <1>3, <1>6
    <3>2. (tail + 1) % TailMod \in 0 .. TailMod - 1
      BY <3>1, Wraps
    <3> QED  BY <3>1, <3>2
  <2>2. index' \in 0 .. Entries
    BY <1>3, <1>6
  <2>3. phase' \in {"recycle", "read"}
    BY <1>3
  <2> QED  BY <1>1, <1>2, <2>1, <2>2, <2>3 DEF RingType
<1>10. PhaseInv'
  <2>1. SliceCount(Head(buf))' = SliceCount(Head(buf))
    BY <1>1 DEF SliceCount
  <2>2. phase' \in Work /\ phase' \notin {"submit", "wait"}
    BY <1>3 DEF Work
  <2>3. phase' = "read" => ~closed' /\ Head(buf').n > 0
    <3>1. Head(buf).n = 0 => SliceCount(Head(buf)) = 1
      BY DEF SliceCount
    <3>2. Head(buf).n > 0
      BY <1>3, <1>6, <3>1
    <3> QED  BY <1>1, <1>3, <3>2
  <2>4. index' < SliceCount(Head(buf))'
    BY <1>3, <2>1
  <2>5. first_err' => ws' = "Closing" \/ failed'
    BY <1>1, <1>2 DEF PhaseInv
  <2> QED  BY <1>1, <1>4, <2>2, <2>3, <2>4, <2>5 DEF PhaseInv
<1>11. ArmInv'
  BY <1>1, <1>2, <1>3, <1>5, ArmSame DEF Work
<1>12. CqeInv'
  BY <1>1, <1>2, <1>5, CqeSame
<1>13. SlotHoldsItsBuffer'
  BY <1>1 DEF Core, SlotHoldsItsBuffer
<1> QED  BY <1>5, <1>8, <1>9, <1>10, <1>11, <1>12, <1>13 DEF Core

\* The last slice of the first CQE.
LEMMA LastSliceStep ==
    ASSUME Core, NEW F, Ring(F), PublishTail, ~MoreSlices, NEW F2, F2 = Drop(F, Len(All) + 1)
    PROVE  Core' /\ Ring(F2)' /\ index + 1 = SliceCount(Head(buf))
<1>1. UNCHANGED <<slot, mem, head, karmed, cq, armed, ws, bundle, failed, sent, taken, fin>>
  BY DEF PublishTail, streamVars, kernelVars, peerVars
<1>2. RingType /\ PhaseInv /\ ArmInv /\ phase = "publish" /\ CqeInv
  BY DEF Core, PublishTail
<1>3. /\ index' = 0 /\ tail' = (tail + 1) % TailMod /\ phase' = "dispatch"
      /\ buf' = Tail(buf) /\ first_err' = FALSE
      /\ ~(index + 1 < SliceCount(Head(buf)))
  BY DEF PublishTail, MoreSlices
<1>4. buf # <<>> /\ Head(buf).res = "data" /\ index < SliceCount(Head(buf))
  BY <1>2 DEF PhaseInv, Work
<1>5. closed' \in BOOLEAN
  <2>1. closed' = AfterCqe(first_err \/ Head(buf).n = 0)
    BY DEF PublishTail
  <2>2. AfterCqe(first_err \/ Head(buf).n = 0) \in BOOLEAN
    BY DEF AfterCqe
  <2> QED  BY <2>1, <2>2
<1>6. /\ SliceCount(Head(buf)) \in 1 .. Entries /\ index \in Nat /\ tail \in Nat
      /\ Entries \in Nat
  BY <1>2, <1>4, FirstCqe, Sizes DEF CqeOK, RingType
<1>7. Width(Head(buf)) = index + 1 /\ SliceCount(Head(buf)) = index + 1
  BY <1>3, <1>4, <1>6 DEF Width
<1>8. Len(All) \in Nat \ {0} /\ buf' \in Seq(CqeType) /\ Len(All') = Len(All) - 1
  BY <1>1, <1>2, <1>3, <1>4, AllTail
<1>9. Ring(F2)'
  <2> DEFINE f == F[1]
             t == f + index + Entries
  <2>1. f \in Nat
    BY <1>2, RingAvailable
  <2>2. tail = t % TailMod
    BY DEF Ring
  <2> HIDE DEF f
  <2>3. t \in Nat /\ f + (index + 1) + Entries = t + 1
    BY <1>6, <2>1
  <2> HIDE DEF t
  <2>4. ((t % TailMod) + 1) % TailMod = (t + 1) % TailMod
    BY <2>3, Wraps
  <2>5. tail' = (f + Width(Head(buf)) + Entries) % TailMod
    BY <1>3, <1>7, <2>2, <2>3, <2>4
  <2>6. index <= Width(Head(buf)) /\ Width(Head(buf)) \in Nat
    BY <1>6, <1>7
  <2> QED  BY <1>1, <1>2, <1>3, <1>4, <2>5, <2>6, RingPop DEF f
<1>10. RingType'
  <2>1. tail' \in 0 .. TailMod - 1
    <3>1. tail' = (tail + 1) % TailMod /\ tail \in Nat
      BY <1>3, <1>6
    <3>2. (tail + 1) % TailMod \in 0 .. TailMod - 1
      BY <3>1, Wraps
    <3> QED  BY <3>1, <3>2
  <2>2. index' \in 0 .. Entries
    BY <1>3, <1>6
  <2>3. first_err' \in BOOLEAN
    BY <1>3
  <2> QED  BY <1>1, <1>2, <1>3, <1>5, <1>8, <2>1, <2>2, <2>3 DEF RingType
<1>11. PhaseInv'
  BY <1>3 DEF PhaseInv, Work
<1>12. ArmInv'
  <2>1. ASSUME karmed PROVE armed /\ \A i \in 1 .. Len(All') : All'[i].more
    <3>1. armed /\ \A i \in 1 .. Len(All) : All[i].more
      BY <1>2, <2>1 DEF ArmInv
    <3>2. \A i \in 1 .. Len(All) - 1 : All'[i] = All[i + 1] /\ i + 1 \in 1 .. Len(All)
      BY <1>1, <1>2, <1>3, <1>4, <1>8, AllTail
    <3> QED  BY <1>8, <3>1, <3>2
  <2>2. ASSUME ~armed PROVE Len(All') = 0
    <3>1. Len(All) = 1
      BY <1>2, <2>2 DEF ArmInv, Work
    <3> QED  BY <1>8, <3>1
  <2>3. phase' \notin Work
    BY <1>3 DEF Work
  <2> QED  BY <1>1, <2>1, <2>2, <2>3 DEF ArmInv
<1>13. CqeInv'
  BY <1>1, <1>2, <1>3, <1>4, CqePop
<1>14. SlotHoldsItsBuffer'
  BY <1>1 DEF Core, SlotHoldsItsBuffer
<1> QED  BY <1>7, <1>9, <1>10, <1>11, <1>12, <1>13, <1>14 DEF Core

\* What the kernel does in each of its steps: the CQE c, the w buffers it takes from
\* the h-th on, and what it writes to them.
Gives(c, w, h) ==
    /\ karmed /\ c \in CqeType /\ w \in Nat /\ w <= Available /\ Width(c) = w
    /\ cq' = Append(cq, c) /\ karmed' = c.more
    /\ head' = (head + w) % TailMod
    /\ c.res = "data" => c.bid = h % Entries
    /\ taken' = taken + c.n /\ taken + c.n <= sent
    /\ CqeOK(c)'
    /\ mem' \in [Bids -> Seq(1 .. MaxBytes)]
    /\ c.n > 0 => \A i \in 0 .. w - 1 : mem'[(h + i) % Entries] = Chunk(taken + 1, c.n, i)
    /\ \A b \in Bids : (\A i \in 0 .. w - 1 : (h + i) % Entries # b) => mem'[b] = mem[b]
    /\ UNCHANGED <<slot, tail, sent, fin, armed, closed, ws, phase, buf, index, first_err,
                   bundle, delivered, failed>>

LEMMA RecvGives ==
    ASSUME Core, NEW F, Ring(F), KernelRecv
    PROVE  \E c, w : Gives(c, w, F[Len(All) + 1])
<1> DEFINE h == F[Len(All) + 1]
<1>1. PICK n, used, more : Fills(n, used, more, h)
  BY KernelRecvFills
<1>2. RingType /\ Available \in 0 .. Entries
  BY RingAvailable DEF Core
<1> HIDE DEF h
<1>0. PICK c : c = Cqe("data", h % Entries, n, more)
  OBVIOUS
<1>3. c.res = "data" /\ c.bid = h % Entries /\ c.n = n /\ c.more = more
  BY <1>0 DEF Cqe
<1>4. c \in CqeType /\ SliceCount(c) = used
  BY <1>0, <1>1 DEF Fills
<1>5. cq' = Append(cq, c)
  BY <1>0, <1>1 DEF Fills
<1>6. UNCHANGED <<slot, tail, sent, fin, armed, closed, ws, phase, buf, index, first_err,
                  bundle, delivered, failed>> /\ karmed
  BY DEF KernelRecv, driverVars, streamVars
<1>7. /\ n \in Nat /\ n > 0 /\ taken + n <= sent
      /\ used \in 1 .. Entries /\ used \in Nat /\ used <= Available
  BY <1>1, <1>2, Sizes DEF Fills, RingType
<1>8. n <= used * BufSize /\ \A k \in 0 .. used - 1 : k * BufSize < n
  BY <1>1 DEF Fills
<1>9. SliceCount(c)' = used
  BY <1>4, <1>6 DEF SliceCount
<1>10. CqeOK(c)'
  <2>1. n # 0
    BY <1>7
  <2>2. (SliceCount(c) \in 1 .. Entries)' /\ (c.n <= SliceCount(c) * BufSize)'
    BY <1>3, <1>7, <1>8, <1>9
  <2>3. (\A k \in 0 .. SliceCount(c) - 1 : k * BufSize < c.n)'
    BY <1>3, <1>8, <1>9
  <2> QED  BY <1>3, <2>1, <2>2, <2>3 DEF CqeOK
<1>11. Width(c) = used
  BY <1>3, <1>4 DEF Width
<1>12. /\ karmed' = more /\ head' = (head + used) % TailMod /\ taken' = taken + n
       /\ mem' \in [Bids -> Seq(1 .. MaxBytes)]
       /\ \A i \in 0 .. used - 1 : mem'[(h + i) % Entries] = Chunk(taken + 1, n, i)
       /\ \A b \in Bids : (\A i \in 0 .. used - 1 : (h + i) % Entries # b) => mem'[b] = mem[b]
  BY <1>1 DEF Fills
<1>13. Gives(c, used, h)
  BY <1>3, <1>4, <1>5, <1>6, <1>7, <1>10, <1>11, <1>12 DEF Gives
<1> QED  BY <1>13 DEF h

\* ENOBUFS, end of stream and any other error: a CQE of no bytes.
LEMMA EndGives ==
    ASSUME Core, NEW F, Ring(F), KernelNoBufs \/ KernelEof \/ KernelError
    PROVE  \E c, w : Gives(c, w, F[Len(All) + 1])
<1> DEFINE h == F[Len(All) + 1]
<1>1. RingType /\ Available \in 0 .. Entries /\ h \in Nat
  BY RingAvailable DEF Core
<1>2. UNCHANGED <<slot, mem, tail, sent, taken, fin, armed, closed, ws, phase, buf, index,
                  first_err, bundle, delivered, failed>> /\ karmed /\ ~karmed' /\ karmed' \in BOOLEAN
  BY DEF KernelNoBufs, KernelEof, KernelError, ringVars, peerVars, driverVars, streamVars
<1>3. /\ sent \in Nat /\ taken \in Nat /\ taken <= sent
      /\ head \in 0 .. TailMod - 1 /\ mem \in [Bids -> Seq(1 .. MaxBytes)]
  BY <1>1 DEF RingType
<1>4. 0 \in Bids /\ 0 \in 0 .. MaxBytes /\ Entries \in Nat \ {0}
  BY Sizes DEF Bids
<1>5. (head + 0) % TailMod = head
  <2>1. head = TailMod * 0 + head /\ 0 \in Int /\ head \in Int /\ head + 0 = head
    BY <1>3, Sizes
  <2>2. head % TailMod = head
    BY <1>3, <2>1, Sizes, ModIs
  <2> QED  BY <2>1, <2>2
<1>6. slot[SlotAt(0)] = h % Entries /\ h % Entries \in Bids
  <2>1. SlotAt(0) = (h + 0) % Entries /\ SlotAt(0) \in Bids /\ h + 0 = h
    BY <1>1, RingSlotAt
  <2> HIDE DEF h
  <2> QED  BY <2>1 DEF Core, SlotHoldsItsBuffer
<1> HIDE DEF h
<1>7. ASSUME NEW c \in CqeType, NEW w \in {0, 1}, w <= Available, c.n = 0, c.more = FALSE,
             c.res = "data" => c.bid = h % Entries /\ w = 1,
             c.res # "data" => w = 0,
             cq' = Append(cq, c), head' = (head + w) % TailMod
      PROVE  Gives(c, w, h)
  <2>1. SliceCount(c)' = 1 /\ SliceCount(c) = 1
    BY <1>7 DEF SliceCount
  <2>2. CqeOK(c)'
    <3>1. 1 \in 1 .. Entries /\ 0 <= 1 * BufSize
      BY <1>4, Sizes
    <3>2. (SliceCount(c) \in 1 .. Entries)' /\ (c.n <= SliceCount(c) * BufSize)'
      BY <1>7, <2>1, <3>1
    <3> QED  BY <1>2, <1>7, <3>2 DEF CqeOK
  <2>3. Width(c) = w
    BY <1>7, <2>1 DEF Width
  <2>4. taken' = taken + c.n /\ taken + c.n <= sent /\ w \in Nat /\ ~(c.n > 0)
    BY <1>2, <1>3, <1>7
  <2>5. mem' \in [Bids -> Seq(1 .. MaxBytes)] /\ \A b \in Bids : mem'[b] = mem[b]
    BY <1>2, <1>3
  <2>6. karmed' = c.more
    BY <1>2, <1>7
  <2>7. UNCHANGED <<slot, tail, sent, fin, armed, closed, ws, phase, buf, index, first_err,
                    bundle, delivered, failed>> /\ karmed
    BY <1>2
  <2> QED  BY <1>7, <2>2, <2>3, <2>4, <2>5, <2>6, <2>7 DEF Gives
<1>8. CASE KernelNoBufs \/ KernelError
           \/ (KernelEof /\ cq' = Append(cq, Cqe("eof", 0, 0, FALSE)) /\ head' = head)
  <2>1. PICK r \in {"nobufs", "eof", "err"} :
            cq' = Append(cq, Cqe(r, 0, 0, FALSE)) /\ head' = head
    BY <1>8 DEF KernelNoBufs, KernelError
  <2> DEFINE c == Cqe(r, 0, 0, FALSE)
  <2>2. c \in CqeType
    BY <1>4 DEF Cqe, CqeType
  <2>3. c.n = 0 /\ c.more = FALSE /\ c.res = r
    BY DEF Cqe
  <2>4. cq' = Append(cq, c)
    BY <2>1
  <2> HIDE DEF c
  <2>5. 0 <= Available /\ head' = (head + 0) % TailMod /\ 0 \in {0, 1}
    BY <1>1, <1>5, <2>1, Sizes
  <2>6. r # "data"
    OBVIOUS
  <2>7. Gives(c, 0, h)
    BY <1>7, <2>1, <2>2, <2>3, <2>4, <2>5, <2>6
  <2> QED  BY <2>7 DEF h
<1>9. CASE KernelEof /\ ~(cq' = Append(cq, Cqe("eof", 0, 0, FALSE)) /\ head' = head)
  <2>1. /\ Available > 0
        /\ cq' = Append(cq, Cqe("data", slot[SlotAt(0)], 0, FALSE))
        /\ head' = (head + 1) % TailMod
    BY <1>9 DEF KernelEof
  <2> DEFINE c == Cqe("data", h % Entries, 0, FALSE)
  <2>2. c \in CqeType
    BY <1>4, <1>6 DEF Cqe, CqeType
  <2>3. c.n = 0 /\ c.more = FALSE /\ c.res = "data" /\ c.bid = h % Entries
    BY DEF Cqe
  <2>4. cq' = Append(cq, c)
    BY <1>6, <2>1
  <2> HIDE DEF c
  <2>5. 1 <= Available /\ 1 \in {0, 1}
    BY <1>1, <2>1, Sizes
  <2>6. Gives(c, 1, h)
    BY <1>7, <2>1, <2>2, <2>3, <2>4, <2>5
  <2> QED  BY <2>6 DEF h
<1> QED  BY <1>8, <1>9

LEMMA KernelStep ==
    ASSUME Core, NEW F, Ring(F), NEW c, NEW w, Gives(c, w, F[Len(All) + 1]),
           NEW F2, F2 = Extend(F, Len(All) + 1, w)
    PROVE  Core' /\ Ring(F2)'
<1>1. /\ karmed /\ c \in CqeType /\ w \in Nat /\ w <= Available /\ Width(c) = w
      /\ cq' = Append(cq, c) /\ karmed' = c.more
      /\ head' = (head + w) % TailMod
      /\ c.res = "data" => c.bid = F[Len(All) + 1] % Entries
  BY DEF Gives
<1>2. /\ taken' = taken + c.n /\ taken + c.n <= sent /\ CqeOK(c)'
      /\ mem' \in [Bids -> Seq(1 .. MaxBytes)]
  BY DEF Gives
<1>3. UNCHANGED <<slot, tail, sent, fin, armed, closed, ws, phase, buf, index, first_err,
                  bundle, failed>>
  BY DEF Gives
<1>4. RingType /\ PhaseInv /\ ArmInv /\ CqeInv
  BY DEF Core
<1>5. Ring(F2)'
  BY <1>1, <1>3, <1>4, RingAppend
<1>6. ArmInv'
  BY <1>1, <1>3, <1>4, ArmAppend
<1>7. CqeInv'
  BY <1>1, <1>2, <1>3, <1>4, CqeAppend
<1>8. PhaseInv'
  BY <1>3, <1>4 DEF PhaseInv, SliceCount
<1>9. RingType'
  <2>1. head' \in 0 .. TailMod - 1
    <3>1. head \in Nat
      BY <1>4 DEF RingType
    <3>2. (head + w) % TailMod \in 0 .. TailMod - 1
      BY <1>1, <3>1, Wraps
    <3> QED  BY <1>1, <3>2
  <2>2. karmed' \in BOOLEAN /\ cq' \in Seq(CqeType)
    BY <1>1, <1>3, <1>4, AllAppend, CqeFields
  <2>3. taken' \in 0 .. sent
    <3>1. c.n \in Nat /\ taken \in Nat /\ sent \in Nat
      BY <1>1, <1>4, CqeFields DEF RingType
    <3> QED  BY <1>2, <3>1
  <2> QED  BY <1>2, <1>3, <1>4, <2>1, <2>2, <2>3 DEF RingType
<1>10. SlotHoldsItsBuffer'
  BY <1>3 DEF Core, SlotHoldsItsBuffer
<1> QED  BY <1>5, <1>6, <1>7, <1>8, <1>9, <1>10 DEF Core

LEMMA StutterStep ==
    ASSUME Core, NEW F, Ring(F), UNCHANGED vars
    PROVE  Core' /\ Ring(F)'
<1>1. UNCHANGED <<slot, mem, tail, head, karmed, cq, armed, closed, ws, phase, buf, index,
                  first_err, bundle, failed, sent, taken, fin>>
  BY DEF vars, ringVars, kernelVars, peerVars, driverVars, streamVars
<1>2. RingType /\ PhaseInv /\ ArmInv
  BY DEF Core
<1>3. All' = All
  BY <1>1 DEF All
<1>4. RingType' /\ PhaseInv'
  BY <1>1, <1>2 DEF RingType, PhaseInv, SliceCount
<1>5. ArmInv'
  BY <1>1, <1>2, <1>3, ArmSame
<1> QED  BY <1>1, <1>3, <1>4, <1>5, Quiet

LEMMA InitCore ==
    ASSUME Init, NEW F, F = [i \in 1 .. 1 |-> 0]
    PROVE  Core /\ Ring(F)
<1>1. All = <<>> /\ Len(All) = 0
  <2>1. <<>> \in Seq(CqeType)
    OBVIOUS
  <2>2. <<>> \o <<>> = <<>>
    BY <2>1, ConcatEmptySeq
  <2> QED  BY <2>2 DEF Init, All
<1>2. RingType
  <2>1. slot \in [Bids -> Bids] /\ mem \in [Bids -> Seq(1 .. MaxBytes)]
    <3>1. <<>> \in Seq(1 .. MaxBytes)
      OBVIOUS
    <3> QED  BY <3>1 DEF Init
  <2>2. /\ tail \in 0 .. TailMod - 1 /\ head \in 0 .. TailMod - 1
        /\ sent \in 0 .. MaxBytes /\ taken \in 0 .. sent /\ index \in 0 .. Entries
    BY Sizes DEF Init
  <2>3. <<>> \in Seq(CqeType)
    OBVIOUS
  <2>4. bundle \in BOOLEAN
    BY RecvRingAssumption DEF Init
  <2> QED  BY <2>1, <2>2, <2>3, <2>4 DEF Init, RingType
<1>3. PhaseInv /\ SlotHoldsItsBuffer
  BY DEF Init, PhaseInv, Work, SlotHoldsItsBuffer
<1>4. CqeInv /\ ArmInv
  BY <1>1 DEF Init, CqeInv, ArmInv
<1>5. Ring(F)
  <2>1. /\ 1 .. 0 + 1 = 1 .. 1 /\ F[1] = 0 /\ F \in [1 .. 1 -> Nat]
        /\ \A i \in 1 .. 0 : FALSE
        /\ \A i, j \in 1 .. 1 : i = 1 /\ j = 1
        /\ 0 <= 0
    OBVIOUS
  <2>2. 0 % TailMod = 0 /\ (0 + 0 + Entries) % TailMod = Entries
    <3>1. 0 = TailMod * 0 + 0 /\ 0 \in Int /\ 0 \in 0 .. TailMod - 1
      BY Sizes
    <3>2. 0 % TailMod = 0
      BY <3>1, Sizes, ModIs
    <3>3. /\ Entries = TailMod * 0 + Entries /\ Entries \in Int /\ Entries \in 0 .. TailMod - 1
          /\ 0 + 0 + Entries = Entries
      BY Sizes
    <3>4. Entries % TailMod = Entries
      BY <3>1, <3>3, Sizes, ModIs
    <3> QED  BY <3>2, <3>3, <3>4
  <2>3. 0 \in 0 + 0 .. 0 + 0 + Entries /\ 0 + 1 = 1
    BY Sizes
  <2>4. head = 0 /\ tail = Entries /\ index = 0
    BY DEF Init
  <2> QED  BY <1>1, <2>1, <2>2, <2>3, <2>4 DEF Ring
<1> QED  BY <1>2, <1>3, <1>4, <1>5 DEF Core

\* What the ring's theorems need of the inductive invariant.
RingInv == Core /\ \E F : Ring(F)

-----------------------------------------------------------------------------
(* Where every buffer is.                                                   *)

\* The first slice of the i-th CQE that has not been given back.
From(i) == IF i = 1 /\ buf # <<>> THEN index ELSE 0

\* Between the oldest buffer not given back and the newest one the kernel may take,
\* two buffers are never the same.
LEMMA OnePosition ==
    ASSUME NEW b \in Nat, NEW p \in b .. b + Entries - 1, NEW q \in b .. b + Entries - 1,
           p % Entries = q % Entries
    PROVE  p = q
<1>1. p \in Int /\ q \in Int /\ p - q < Entries /\ q - p < Entries
  BY Sizes
<1> QED  BY <1>1, Sizes, ModInjective

\* The buffers of the i-th CQE are numbered F[i] + From(i) to F[i + 1] - 1.
LEMMA HeldPositions ==
    ASSUME Core, NEW F, Ring(F), NEW i \in 1 .. Len(All), All[i].res = "data"
    PROVE  /\ F[i] \in Nat /\ F[i + 1] \in Nat /\ From(i) \in Nat
           /\ F[1] + index <= F[i] + From(i)
           /\ F[i + 1] <= F[Len(All) + 1]
           /\ \A b \in HeldBy(All[i], From(i)) :
                 \E p \in F[i] + From(i) .. F[i + 1] - 1 : b = p % Entries
           /\ \A p \in F[i] + From(i) .. F[i + 1] - 1 : p % Entries \in HeldBy(All[i], From(i))
<1> DEFINE n == Len(All)
           c == All[i]
           f == F[i]
           g == F[i + 1]
           s == SliceCount(c)
           o == From(i)
<1>1. RingType /\ PhaseInv /\ CqeInv
  BY DEF Core
<1>2. n \in Nat /\ index \in Nat /\ F[1] \in Nat
  BY <1>1, AllType, RingAvailable
<1>3. i \in 1 .. n + 1 /\ i + 1 \in 1 .. n + 1 /\ n + 1 \in 1 .. n + 1 /\ i \in Nat
  BY <1>2
<1>4. /\ f \in Nat /\ g \in Nat /\ g = f + s /\ c.bid = f % Entries
      /\ g <= F[n + 1]
  <2>1. F \in [1 .. n + 1 -> Nat] /\ g = f + Width(c) /\ c.bid = f % Entries
    BY DEF Ring
  <2>2. g <= F[n + 1]
    <3>1. i + 1 <= n + 1
      BY <1>2
    <3> QED  BY <1>3, <3>1 DEF Ring
  <2> QED  BY <1>3, <2>1, <2>2 DEF Width
<1>5. s \in Nat
  BY <1>1 DEF CqeInv, CqeOK
<1>6. o \in Nat
  BY <1>2 DEF From
<1>7. F[1] + index <= f + o
  <2>1. CASE i = 1
    <3>1. CASE buf = <<>>
      <4>1. index = 0
        BY <1>1, <3>1 DEF PhaseInv
      <4> QED  BY <1>2, <2>1, <4>1 DEF From
    <3>2. CASE buf # <<>>
      BY <1>2, <2>1, <3>2 DEF From
    <3> QED  BY <3>1, <3>2
  <2>2. CASE i # 1
    <3>1. 1 \in 1 .. n /\ 2 \in 1 .. n + 1 /\ 2 <= i /\ 1 + 1 = 2
      BY <1>2, <2>2
    <3>2. F[2] <= f /\ F[2] \in Nat
      BY <1>3, <3>1 DEF Ring
    <3>3. F[2] = F[1] + Width(All[1])
      BY <3>1 DEF Ring
    <3>4. Width(All[1]) \in Nat /\ index <= Width(All[1])
      <4>1. CqeOK(All[1])
        BY <1>1, <3>1 DEF CqeInv
      <4>2. CASE phase \in Work
        <5>1. buf # <<>> /\ Head(buf).res = "data" /\ index < SliceCount(Head(buf))
          BY <1>1, <4>2 DEF PhaseInv
        <5>2. All[1] = Head(buf)
          BY <1>1, <5>1, AllHead
        <5>3. SliceCount(Head(buf)) \in 1 .. Entries
          BY <4>1, <5>1, <5>2 DEF CqeOK
        <5> QED  BY <1>2, <5>1, <5>2, <5>3 DEF Width
      <4>3. CASE phase \notin Work
        <5>1. index = 0
          BY <1>1, <4>3 DEF PhaseInv
        <5>2. Width(All[1]) \in Nat
          BY <4>1 DEF Width, CqeOK
        <5> QED  BY <5>1, <5>2
      <4> QED  BY <4>2, <4>3
    <3> HIDE DEF n, f, o
    <3> QED  BY <1>2, <1>4, <1>6, <3>2, <3>3, <3>4
  <2> QED  BY <2>1, <2>2
<1>8. HeldBy(c, o) = {(c.bid + k) % Entries : k \in o .. s - 1}
  BY DEF HeldBy, SliceBid
<1> HIDE DEF n, c, f, g, s, o
<1>9. ASSUME NEW k \in Nat PROVE (c.bid + k) % Entries = (f + k) % Entries
  <2>1. Entries % Entries = 0
    <3>1. Entries = Entries * 1 + 0 /\ 0 \in 0 .. Entries - 1 /\ 1 \in Int /\ Entries \in Int
      BY Sizes
    <3> QED  BY <3>1, Sizes, ModIs
  <2>2. f \in Int /\ k \in Int
    BY <1>4
  <2>3. ((f % Entries) + k) % Entries = (f + k) % Entries
    BY <2>1, <2>2, Sizes, ModAdd
  <2> QED  BY <1>4, <2>3
<1>10. ASSUME NEW b \in HeldBy(c, o) PROVE \E p \in f + o .. g - 1 : b = p % Entries
  <2>1. PICK k \in o .. s - 1 : b = (c.bid + k) % Entries
    BY <1>8
  <2>2. k \in Nat /\ f + k \in f + o .. g - 1
    <3>1. f \in Nat /\ g = f + s
      BY <1>4
    <3> QED  BY <1>5, <1>6, <3>1
  <2>3. b = (f + k) % Entries
    BY <1>9, <2>1, <2>2
  <2> QED  BY <2>2, <2>3
<1>11. ASSUME NEW p \in f + o .. g - 1 PROVE p % Entries \in HeldBy(c, o)
  <2> DEFINE k == p - f
  <2>1. k \in o .. s - 1 /\ k \in Nat /\ f + k = p
    <3>1. f \in Nat /\ g = f + s
      BY <1>4
    <3> QED  BY <1>5, <1>6, <3>1
  <2> HIDE DEF k
  <2>2. (c.bid + k) % Entries = p % Entries
    BY <1>9, <2>1
  <2> QED  BY <1>8, <2>1, <2>2
<1>12. f \in Nat /\ g \in Nat /\ g <= F[n + 1]
  BY <1>4
<1> QED  BY <1>6, <1>7, <1>10, <1>11, <1>12 DEF n, c, f, g, o

\* Every buffer not given back belongs to a CQE.
LEMMA Covered ==
    ASSUME Core, NEW F, Ring(F), NEW p \in F[1] + index .. F[Len(All) + 1] - 1
    PROVE  \E i \in 1 .. Len(All) :
               All[i].res = "data" /\ p \in F[i] + From(i) .. F[i + 1] - 1
<1> DEFINE n == Len(All)
<1>1. RingType /\ PhaseInv
  BY DEF Core
<1>2. n \in Nat /\ index \in Nat /\ F[1] \in Nat /\ F[n + 1] \in Nat
  BY <1>1, AllType, RingAvailable
<1>3. p \in Int /\ F[1] + index <= p /\ p < F[n + 1]
  BY <1>2
<1>4. F \in [1 .. n + 1 -> Nat] /\ \A i \in 1 .. n : F[i + 1] = F[i] + Width(All[i])
  BY DEF Ring
<1> HIDE DEF n
<1> DEFINE T == {k \in 1 .. n + 1 : p < F[k]}
<1>5. T \subseteq Nat /\ n + 1 \in T
  BY <1>2, <1>3
<1>6. PICK k \in T : \A y \in T : ~(y < k)
  BY <1>5, Least
<1>7. k \in 1 .. n + 1 /\ p < F[k]
  OBVIOUS
<1>8. k # 1
  BY <1>2, <1>3, <1>7
<1> DEFINE i == k - 1
<1>9. i \in 1 .. n /\ i \in 1 .. n + 1 /\ i < k /\ i + 1 = k
  BY <1>2, <1>7, <1>8
<1> HIDE DEF i
<1>10. F[i] \in Nat /\ ~(p < F[i])
  BY <1>4, <1>6, <1>9
<1>11. F[i + 1] = F[i] + Width(All[i]) /\ F[i + 1] \in Nat
  BY <1>4, <1>7, <1>9
<1>12. All[i].res = "data"
  <2>1. Width(All[i]) # 0
    BY <1>3, <1>7, <1>9, <1>10, <1>11
  <2> QED  BY <2>1 DEF Width
<1>13. F[i] + From(i) <= p
  <2>1. CASE i = 1 /\ buf # <<>>
    BY <1>3, <2>1 DEF From
  <2>2. CASE ~(i = 1 /\ buf # <<>>)
    BY <1>3, <1>10, <2>2 DEF From
  <2> QED  BY <2>1, <2>2
<1>14. From(i) \in Nat
  BY <1>2 DEF From
<1>15. p \in F[i] + From(i) .. F[i + 1] - 1
  BY <1>3, <1>7, <1>9, <1>10, <1>11, <1>13, <1>14
<1> QED  BY <1>9, <1>12, <1>15 DEF n

\* The buffers the kernel may take.
Free == {slot[SlotAt(i)] : i \in 0 .. Available - 1}

LEMMA FreePositions ==
    ASSUME Core, NEW F, Ring(F)
    PROVE  /\ Cardinality(Free) = Available
           /\ \A b \in Free :
                 \E p \in F[Len(All) + 1] .. F[1] + index + Entries - 1 : b = p % Entries
           /\ \A p \in F[Len(All) + 1] .. F[1] + index + Entries - 1 : p % Entries \in Free
<1> DEFINE h == F[Len(All) + 1]
           b0 == F[1] + index
           D == 0 .. Available - 1
           f == [i \in D |-> slot[SlotAt(i)]]
<1>1. RingType
  BY DEF Core
<1>2. /\ h \in Nat /\ F[1] \in Nat /\ index \in Nat
      /\ Available = (F[1] + index + Entries) - h /\ Available \in 0 .. Entries
  BY <1>1, RingAvailable
<1>3. h \in F[1] + index .. F[1] + index + Entries
  BY DEF Ring
<1>4. ASSUME NEW i \in Nat PROVE slot[SlotAt(i)] = (h + i) % Entries
  BY <1>1, RingSlotAt DEF Core, SlotHoldsItsBuffer
<1>5. /\ b0 \in Nat /\ h \in b0 .. b0 + Entries /\ Available = (b0 + Entries) - h
      /\ Available \in Nat
  BY <1>2, <1>3, Sizes
<1>6. Free = {slot[SlotAt(i)] : i \in D}
  BY DEF Free
<1> HIDE DEF h, b0
<1>7. \A i \in D : i \in Nat /\ h + i \in h .. b0 + Entries - 1 /\ h + i \in b0 .. b0 + Entries - 1
  BY <1>5, Sizes
<1>8. \A i \in D : f[i] = (h + i) % Entries
  BY <1>4, <1>7
<1>9. ASSUME NEW i \in D, NEW j \in D, f[i] = f[j] PROVE i = j
  <2> DEFINE p == h + i
             q == h + j
  <2>1. p \in b0 .. b0 + Entries - 1 /\ q \in b0 .. b0 + Entries - 1 /\ b0 \in Nat
    BY <1>5, <1>7
  <2>2. p % Entries = q % Entries
    BY <1>8, <1>9
  <2> HIDE DEF p, q
  <2>3. p = q
    BY <2>1, <2>2, OnePosition
  <2>4. h \in Nat /\ i \in Nat /\ j \in Nat
    BY <1>2, <1>7
  <2> QED  BY <2>3, <2>4 DEF p, q
<1>10. Cardinality(Free) = Available
  <2>1. f \in Surjection(D, Free) /\ f \in Injection(D, Free)
    <3>1. f \in [D -> Free] /\ \A t \in Free : \E x \in D : f[x] = t
      BY <1>6
    <3> HIDE DEF f
    <3> QED  BY <1>9, <3>1, Fun_IsInj, Fun_IsSurj
  <2>2. IsFiniteSet(D) /\ Cardinality(D) = Available
    <3>1. 0 \in Int /\ Available - 1 \in Int
      BY <1>5
    <3>2. /\ IsFiniteSet(0 .. Available - 1)
          /\ Cardinality(0 .. Available - 1) = IF 0 > Available - 1 THEN 0 ELSE (Available - 1) - 0 + 1
      BY <3>1, FS_Interval
    <3> QED  BY <1>5, <3>2
  <2> HIDE DEF f, D
  <2> QED  BY <2>1, <2>2, FS_Surjection
<1>11. ASSUME NEW b \in Free PROVE \E p \in h .. b0 + Entries - 1 : b = p % Entries
  <2>1. PICK i \in D : b = slot[SlotAt(i)]
    BY <1>6
  <2> QED  BY <1>4, <1>7, <2>1
<1>12. ASSUME NEW p \in h .. b0 + Entries - 1 PROVE p % Entries \in Free
  <2> DEFINE i == p - h
  <2>1. i \in D /\ i \in Nat /\ h + i = p
    BY <1>5, <1>2, Sizes
  <2> HIDE DEF i
  <2> QED  BY <1>4, <1>6, <2>1
<1> QED  BY <1>10, <1>11, <1>12 DEF h, b0

\* The five conjuncts of EveryBufferOnce.
LEMMA BuffersOnce == RingInv => EveryBufferOnce
<1> SUFFICES ASSUME RingInv PROVE EveryBufferOnce
  OBVIOUS
<1>1. Core /\ RingType
  BY DEF RingInv, Core
<1>2. PICK F : Ring(F)
  BY DEF RingInv
<1> DEFINE n == Len(All)
           h == F[n + 1]
           b0 == F[1] + index
           Held(i) == HeldBy(All[i], From(i))
<1>3. /\ n \in Nat /\ h \in Nat /\ F[1] \in Nat /\ index \in Nat
      /\ Available \in 0 .. Entries
  BY <1>1, <1>2, AllType, RingAvailable
<1>4. h \in F[1] + index .. F[1] + index + Entries
  BY <1>2 DEF Ring
<1>5. b0 \in Nat /\ h \in b0 .. b0 + Entries
  BY <1>3, <1>4
<1>6. /\ Cardinality(Free) = Available
      /\ \A b \in Free : \E p \in h .. b0 + Entries - 1 : b = p % Entries
      /\ \A p \in h .. b0 + Entries - 1 : p % Entries \in Free
  BY <1>1, <1>2, FreePositions
<1>7. ASSUME NEW i \in Data(All)
      PROVE  /\ i \in 1 .. n /\ F[i] \in Nat /\ F[i + 1] \in Nat /\ From(i) \in Nat
             /\ b0 <= F[i] + From(i) /\ F[i + 1] <= h
             /\ \A b \in Held(i) : \E p \in F[i] + From(i) .. F[i + 1] - 1 : b = p % Entries
             /\ \A p \in F[i] + From(i) .. F[i + 1] - 1 : p % Entries \in Held(i)
  <2>1. i \in 1 .. n /\ All[i].res = "data"
    BY DEF Data
  <2> QED  BY <1>1, <1>2, <2>1, HeldPositions
<1>8. ASSUME NEW p \in b0 .. h - 1
      PROVE  \E i \in Data(All) : p \in F[i] + From(i) .. F[i + 1] - 1
  <2>1. PICK i \in 1 .. n : All[i].res = "data" /\ p \in F[i] + From(i) .. F[i + 1] - 1
    BY <1>1, <1>2, Covered
  <2>2. i \in Data(All)
    BY <2>1 DEF Data
  <2> QED  BY <2>1, <2>2
<1>9. ASSUME NEW i \in Data(All), NEW j \in Data(All), i < j
      PROVE  F[i + 1] <= F[j]
  <2>1. i + 1 \in 1 .. n + 1 /\ j \in 1 .. n + 1 /\ i + 1 <= j
    BY <1>3, <1>7, <1>9
  <2> QED  BY <1>2, <2>1 DEF Ring
<1> HIDE DEF n, h, b0, Held
<1>10. ASSUME NEW i \in Data(All), NEW b \in Held(i), NEW j \in Data(All), b \in Held(j), i < j
       PROVE  FALSE
  <2>1. PICK p \in F[i] + From(i) .. F[i + 1] - 1 : b = p % Entries
    BY <1>7
  <2>2. PICK q \in F[j] + From(j) .. F[j + 1] - 1 : b = q % Entries
    BY <1>7, <1>10
  <2>3. /\ F[i] \in Nat /\ F[i + 1] \in Nat /\ From(i) \in Nat /\ b0 <= F[i] + From(i)
        /\ F[i + 1] <= h
    BY <1>7
  <2>4. /\ F[j] \in Nat /\ F[j + 1] \in Nat /\ From(j) \in Nat /\ b0 <= F[j] + From(j)
        /\ F[j + 1] <= h
    BY <1>7
  <2>5. F[i + 1] <= F[j]
    BY <1>9, <1>10
  <2>6. /\ p \in b0 .. b0 + Entries - 1 /\ q \in b0 .. b0 + Entries - 1 /\ p # q
    BY <1>5, <2>3, <2>4, <2>5, Sizes
  <2>7. p = q
    <3>1. p % Entries = q % Entries
      BY <2>1, <2>2
    <3> QED  BY <1>5, <2>6, <3>1, OnePosition
  <2> QED  BY <2>6, <2>7
<1>11. ASSUME NEW i \in Data(All) PROVE Held(i) \cap Free = {}
  <2> SUFFICES ASSUME NEW b \in Held(i), b \in Free PROVE FALSE
    OBVIOUS
  <2>1. PICK p \in F[i] + From(i) .. F[i + 1] - 1 : b = p % Entries
    BY <1>7
  <2>2. PICK q \in h .. b0 + Entries - 1 : b = q % Entries
    BY <1>6
  <2>3. /\ F[i] \in Nat /\ F[i + 1] \in Nat /\ From(i) \in Nat /\ b0 <= F[i] + From(i)
        /\ F[i + 1] <= h
    BY <1>7
  <2>4. /\ p \in b0 .. b0 + Entries - 1 /\ q \in b0 .. b0 + Entries - 1 /\ p # q
    BY <1>5, <2>3, Sizes
  <2>5. p = q
    <3>1. p % Entries = q % Entries
      BY <2>1, <2>2
    <3> QED  BY <1>5, <2>4, <3>1, OnePosition
  <2> QED  BY <2>4, <2>5
<1>12. ASSUME NEW i \in Data(All), NEW j \in Data(All), i # j PROVE Held(i) \cap Held(j) = {}
  <2> SUFFICES ASSUME NEW b \in Held(i), b \in Held(j) PROVE FALSE
    OBVIOUS
  <2>1. i < j \/ j < i
    BY <1>3, <1>7, <1>12
  <2> QED  BY <1>10, <2>1
<1>13. Free \cup UNION {Held(i) : i \in Data(All)} = Bids
  <2>1. ASSUME NEW b \in Bids PROVE b \in Free \cup UNION {Held(i) : i \in Data(All)}
    <3>1. b \in 0 .. Entries - 1
      BY DEF Bids
    <3>2. b0 \in Int
      BY <1>5
    <3>3. PICK p \in b0 .. b0 + Entries - 1 : p % Entries = b
      BY <3>1, <3>2, Sizes, ModSurjective
    <3>4. CASE p < h
      <4>1. p \in b0 .. h - 1
        BY <1>5, <3>4, Sizes
      <4>2. PICK i \in Data(All) : p \in F[i] + From(i) .. F[i + 1] - 1
        BY <1>8, <4>1
      <4> QED  BY <1>7, <3>3, <4>2
    <3>5. CASE ~(p < h)
      <4>1. p \in h .. b0 + Entries - 1
        BY <1>5, <3>5, Sizes
      <4> QED  BY <1>6, <3>3, <4>1
    <3> QED  BY <3>4, <3>5
  <2>2. ASSUME NEW p \in Int PROVE p % Entries \in Bids
    BY Sizes, DivMod DEF Bids
  <2>3. ASSUME NEW b \in Free PROVE b \in Bids
    <3>1. PICK p \in h .. b0 + Entries - 1 : b = p % Entries
      BY <1>6
    <3>2. p \in Int
      OBVIOUS
    <3> QED  BY <2>2, <3>1, <3>2
  <2>4. ASSUME NEW i \in Data(All), NEW b \in Held(i) PROVE b \in Bids
    <3>1. PICK p \in F[i] + From(i) .. F[i + 1] - 1 : b = p % Entries
      BY <1>7
    <3>2. p \in Int
      OBVIOUS
    <3> QED  BY <2>2, <3>1, <3>2
  <2> QED  BY <2>1, <2>3, <2>4
<1>14. Available <= Entries
  BY <1>3, Sizes
<1>15. /\ Cardinality(Free) = Available
       /\ \A i \in Data(All) : HeldBy(All[i], From(i)) \cap Free = {}
       /\ \A i, j \in Data(All) :
             i # j => HeldBy(All[i], From(i)) \cap HeldBy(All[j], From(j)) = {}
       /\ Free \cup UNION {HeldBy(All[i], From(i)) : i \in Data(All)} = Bids
  BY <1>6, <1>11, <1>12, <1>13 DEF Held
<1> QED  BY <1>14, <1>15 DEF EveryBufferOnce, All, From, Free

-----------------------------------------------------------------------------
(* The bytes.                                                               *)

\* G[i] bytes were received before those of the i-th CQE.
Bytes(G) ==
    /\ G \in [1 .. Len(All) + 1 -> Nat]
    /\ \A i \in 1 .. Len(All) : G[i + 1] = G[i] + All[i].n
    /\ \A i, j \in 1 .. Len(All) + 1 : i <= j => G[i] <= G[j]
    /\ G[Len(All) + 1] = taken

\* The buffers not given back hold the bytes of their CQE.
Off(i) == IF i = 1 THEN index ELSE 0

Holds(F, G) ==
    \A i \in 1 .. Len(All) :
        All[i].res = "data" /\ All[i].n > 0 =>
            \A k \in Off(i) .. SliceCount(All[i]) - 1 :
                mem[(F[i] + k) % Entries] = Chunk(G[i] + 1, All[i].n, k)

\* How much of the first CQE has been read.
Smaller(a, b) == IF a <= b THEN a ELSE b

Offset ==
    IF phase = "read" THEN index * BufSize
    ELSE IF phase \in {"recycle", "publish"} THEN Smaller(Head(buf).n, (index + 1) * BufSize)
    ELSE 0

\* The parser has everything up to there, or it has failed and gets no more.
Stopped == ws = "Closing" /\ (closed \/ first_err)

UpToDate(G) ==
    /\ Len(delivered) = G[1] + Offset
    /\ ~first_err
    /\ closed => ~karmed /\ G[1] = taken

Position(G) == failed \/ (DeliveredInOrder /\ (Stopped \/ UpToDate(G)))

Stream(F, G) ==
    /\ Bytes(G)
    /\ Holds(F, G)
    /\ delivered \in Seq(1 .. MaxBytes)
    /\ Position(G)

LEMMA BytesFirst ==
    ASSUME RingType, NEW G, Bytes(G)
    PROVE  /\ G[1] \in Nat /\ Len(All) \in Nat /\ G[1] <= taken /\ taken \in Nat
           /\ buf # <<>> => /\ G[2] = G[1] + Head(buf).n /\ G[2] <= taken
                            /\ Head(buf).n \in Nat
<1>1. Len(All) \in Nat /\ taken \in Nat
  BY AllType DEF RingType
<1>2. 1 \in 1 .. Len(All) + 1 /\ Len(All) + 1 \in 1 .. Len(All) + 1 /\ 1 <= Len(All) + 1
  BY <1>1
<1>3. G[1] \in Nat /\ G[1] <= taken
  BY <1>2 DEF Bytes
<1>4. ASSUME buf # <<>>
      PROVE  G[2] = G[1] + Head(buf).n /\ G[2] <= taken /\ Head(buf).n \in Nat
  <2>1. Len(All) \in Nat \ {0} /\ All[1] = Head(buf) /\ Head(buf) \in CqeType
    BY <1>4, AllHead
  <2>2. 1 \in 1 .. Len(All) /\ 2 \in 1 .. Len(All) + 1 /\ 2 <= Len(All) + 1 /\ 1 + 1 = 2
    BY <2>1
  <2>3. G[2] = G[1] + Head(buf).n
    BY <2>1, <2>2 DEF Bytes
  <2>4. G[2] <= taken
    BY <1>2, <2>2 DEF Bytes
  <2> QED  BY <2>1, <2>3, <2>4, CqeFields
<1> QED  BY <1>1, <1>3, <1>4

LEMMA BytesSame ==
    ASSUME NEW G, Bytes(G), All' = All, taken' = taken
    PROVE  Bytes(G)'
BY DEF Bytes

LEMMA BytesAppend ==
    ASSUME RingType, NEW G, Bytes(G), NEW c \in CqeType,
           cq' = Append(cq, c), buf' = buf, taken' = taken + c.n,
           NEW G2, G2 = Extend(G, Len(All) + 1, c.n)
    PROVE  /\ Bytes(G2)'
           /\ G2[Len(All) + 1] = taken
           /\ \A i \in 1 .. Len(All) + 1 : G2[i] = G[i]
<1> DEFINE n == Len(All)
           h == G[n + 1]
           w == c.n
<1>1. n \in Nat /\ h \in Nat /\ w \in Nat /\ h = taken
  BY AllType, CqeFields DEF Bytes, RingType
<1>2. /\ Len(All') = n + 1
      /\ \A i \in 1 .. n : All'[i] = All[i]
      /\ All'[n + 1] = c
  BY AllAppend
<1>3. /\ G \in [1 .. n + 1 -> Nat]
      /\ \A i \in 1 .. n : G[i + 1] = G[i] + All[i].n
      /\ \A i, j \in 1 .. n + 1 : i <= j => G[i] <= G[j]
  BY DEF Bytes
<1>4. G2 = [i \in 1 .. n + 2 |-> IF i = n + 2 THEN h + w ELSE G[i]]
  <2>1. G2 = [i \in 1 .. (n + 1) + 1 |-> IF i = (n + 1) + 1 THEN h + w ELSE G[i]]
    BY DEF Extend
  <2>2. (n + 1) + 1 = n + 2
    BY <1>1
  <2> HIDE DEF n, h, w
  <2> QED  BY <2>1, <2>2
<1> HIDE DEF n, h
<1>7. G2[n + 2] = h + w /\ \A i \in 1 .. n + 1 : G2[i] = G[i]
  <2>1. n \in Nat
    BY <1>1
  <2> QED  BY <1>4, <2>1
<1>8. G2 \in [1 .. n + 2 -> Nat]
  <2>1. ASSUME NEW i \in 1 .. n + 2 PROVE (IF i = n + 2 THEN h + w ELSE G[i]) \in Nat
    BY <1>1, <1>3
  <2> QED  BY <1>4, <2>1
<1>9. ASSUME NEW i \in 1 .. n + 1 PROVE G2[i + 1] = G2[i] + All'[i].n
  <2>1. CASE i = n + 1
    <3>1. i + 1 = n + 2 /\ G2[i] = h /\ All'[i] = c
      BY <1>1, <1>2, <1>7, <2>1 DEF h
    <3> QED  BY <1>7, <3>1
  <2>2. CASE i # n + 1
    <3>1. i \in 1 .. n /\ i + 1 \in 1 .. n + 1
      BY <1>1, <2>2
    <3> QED  BY <1>2, <1>3, <1>7, <3>1
  <2> QED  BY <2>1, <2>2
<1>10. ASSUME NEW i \in 1 .. n + 2, NEW j \in 1 .. n + 2, i <= j PROVE G2[i] <= G2[j]
  <2>1. CASE j = n + 2
    <3>1. CASE i = n + 2
      BY <1>1, <1>7, <2>1, <3>1
    <3>2. CASE i # n + 2
      <4>1. i \in 1 .. n + 1 /\ n + 1 \in 1 .. n + 1 /\ i <= n + 1
        BY <1>1, <3>2
      <4>2. G[i] <= h /\ G[i] \in Nat
        BY <1>3, <4>1 DEF h
      <4> QED  BY <1>1, <1>7, <2>1, <4>1, <4>2
    <3> QED  BY <3>1, <3>2
  <2>2. CASE j # n + 2
    <3>1. i \in 1 .. n + 1 /\ j \in 1 .. n + 1
      BY <1>1, <1>10, <2>2
    <3> QED  BY <1>3, <1>7, <1>10, <3>1
  <2> QED  BY <2>1, <2>2
<1>11. Len(All') + 1 = n + 2 /\ Len(All') = n + 1
  BY <1>1, <1>2
<1>12. G2[n + 2] = taken'
  BY <1>1, <1>7
<1>13. Bytes(G2)'
  BY <1>8, <1>9, <1>10, <1>11, <1>12 DEF Bytes
<1>14. G2[n + 1] = taken
  <2>1. n + 1 \in 1 .. n + 1
    BY <1>1
  <2> QED  BY <1>1, <1>7, <2>1 DEF h
<1> QED  BY <1>7, <1>13, <1>14 DEF n

LEMMA BytesPop ==
    ASSUME RingType, NEW G, Bytes(G), buf # <<>>, buf' = Tail(buf), UNCHANGED <<cq, taken>>,
           NEW G2, G2 = Drop(G, Len(All) + 1)
    PROVE  /\ Bytes(G2)' /\ G2[1] = G[2] /\ G2[1] = G[1] + Head(buf).n
           /\ \A i \in 1 .. Len(All) : G2[i] = G[i + 1]
<1> DEFINE n == Len(All)
<1>1. n \in Nat \ {0}
  BY AllHead
<1>2. Len(All') = n - 1 /\ \A i \in 1 .. n - 1 : All'[i] = All[i + 1]
  BY AllTail
<1>3. /\ G \in [1 .. n + 1 -> Nat]
      /\ \A i \in 1 .. n : G[i + 1] = G[i] + All[i].n
      /\ \A i, j \in 1 .. n + 1 : i <= j => G[i] <= G[j]
      /\ G[n + 1] = taken
  BY DEF Bytes
<1>4. G2 = [i \in 1 .. n |-> G[i + 1]]
  <2>1. G2 = [i \in 1 .. (n + 1) - 1 |-> G[i + 1]]
    BY DEF Drop
  <2>2. (n + 1) - 1 = n
    BY <1>1
  <2> HIDE DEF n
  <2> QED  BY <2>1, <2>2
<1>5. G[2] = G[1] + Head(buf).n
  BY BytesFirst
<1> HIDE DEF n
<1>7. \A i \in 1 .. n : G2[i] = G[i + 1]
  BY <1>4
<1>8. n \in Nat /\ n >= 1 /\ 1 \in 1 .. n /\ 1 + 1 = 2 /\ n \in 1 .. n
  BY <1>1
<1>9. G2 \in [1 .. n -> Nat]
  <2>1. ASSUME NEW i \in 1 .. n PROVE G[i + 1] \in Nat
    <3>1. i + 1 \in 1 .. n + 1
      BY <1>8
    <3> QED  BY <1>3, <3>1
  <2> QED  BY <1>4, <2>1
<1>10. ASSUME NEW i \in 1 .. n - 1 PROVE G2[i + 1] = G2[i] + All'[i].n
  <2> DEFINE k == i + 1
  <2>1. k \in 1 .. n /\ i \in 1 .. n
    BY <1>8
  <2>2. All'[i] = All[k]
    BY <1>2
  <2> HIDE DEF k
  <2>3. G[k + 1] = G[k] + All[k].n
    BY <1>3, <2>1
  <2>4. G2[k] = G[k + 1] /\ G2[i] = G[k]
    BY <1>7, <2>1 DEF k
  <2> QED  BY <2>2, <2>3, <2>4 DEF k
<1>11. ASSUME NEW i \in 1 .. n, NEW j \in 1 .. n, i <= j PROVE G2[i] <= G2[j]
  <2>1. i + 1 \in 1 .. n + 1 /\ j + 1 \in 1 .. n + 1 /\ i + 1 <= j + 1
    BY <1>8, <1>11
  <2>2. G[i + 1] <= G[j + 1]
    BY <1>3, <2>1
  <2> QED  BY <1>7, <2>2
<1>12. G2[n] = taken'
  BY <1>3, <1>7, <1>8
<1>13. Len(All') + 1 = n /\ Len(All') = n - 1
  BY <1>2, <1>8
<1>14. Bytes(G2)'
  BY <1>9, <1>10, <1>11, <1>12, <1>13 DEF Bytes
<1>15. G2[1] = G[2]
  BY <1>7, <1>8
<1> QED  BY <1>5, <1>7, <1>14, <1>15 DEF n

\* What the buffers hold does not change while the driver moves along the first CQE.
LEMMA HoldsSame ==
    ASSUME RingType, NEW F, NEW G, Holds(F, G), All' = All, UNCHANGED <<mem, bundle>>,
           index' = index \/ index' = index + 1
    PROVE  Holds(F, G)'
<1> SUFFICES ASSUME NEW i \in 1 .. Len(All), All[i].res = "data", All[i].n > 0,
                    NEW k \in Off(i)' .. SliceCount(All[i])' - 1
             PROVE  mem'[(F[i] + k) % Entries] = Chunk(G[i] + 1, All[i].n, k)
  BY DEF Holds
<1>1. SliceCount(All[i])' = SliceCount(All[i])
  BY DEF SliceCount
<1>2. index \in Nat /\ index' \in Nat /\ index <= index'
  BY DEF RingType
<1>3. Off(i) \in Nat /\ Off(i)' \in Nat /\ Off(i) <= Off(i)'
  BY <1>2 DEF Off
<1>4. k \in Off(i) .. SliceCount(All[i]) - 1
  BY <1>1, <1>3
<1> QED  BY <1>4 DEF Holds

\* The kernel writes only to buffers that no pending CQE covers.
LEMMA HoldsAppend ==
    ASSUME Core, NEW F, Ring(F), NEW G, Bytes(G), Holds(F, G),
           NEW c, NEW w, Gives(c, w, F[Len(All) + 1]),
           NEW F2, F2 = Extend(F, Len(All) + 1, w),
           NEW G2, G2 = Extend(G, Len(All) + 1, c.n)
    PROVE  Holds(F2, G2)'
<1> DEFINE n == Len(All)
           h == F[n + 1]
           b0 == F[1] + index
<1>1. RingType /\ PhaseInv
  BY DEF Core
<1>2. /\ c \in CqeType /\ w \in Nat /\ w <= Available /\ Width(c) = w
      /\ cq' = Append(cq, c) /\ UNCHANGED <<buf, index, bundle>> /\ taken' = taken + c.n
  BY DEF Gives
<1>3. /\ c.n > 0 => \A i \in 0 .. w - 1 : mem'[(h + i) % Entries] = Chunk(taken + 1, c.n, i)
      /\ \A b \in Bids : (\A i \in 0 .. w - 1 : (h + i) % Entries # b) => mem'[b] = mem[b]
  BY DEF Gives
<1>4. /\ Len(All') = n + 1
      /\ \A i \in 1 .. n : All'[i] = All[i]
      /\ All'[n + 1] = c
  BY <1>1, <1>2, AllAppend
<1>5. /\ n \in Nat /\ h \in Nat /\ F[1] \in Nat /\ index \in Nat
      /\ Available = (F[1] + index + Entries) - h /\ Entries \in Nat
  BY <1>1, AllType, RingAvailable, Sizes
<1>6. G2[n + 1] = taken /\ \A i \in 1 .. n + 1 : G2[i] = G[i]
  BY <1>1, <1>2, BytesAppend
<1>7. \A i \in 1 .. n + 1 : F2[i] = F[i]
  <2>1. F2 = [i \in 1 .. (n + 1) + 1 |-> IF i = (n + 1) + 1 THEN h + w ELSE F[i]]
    BY DEF Extend
  <2>2. n \in Nat
    BY <1>5
  <2> HIDE DEF n, h
  <2> QED  BY <2>1, <2>2
<1>8. b0 \in Nat /\ b0 <= h /\ h + w <= b0 + Entries
  <2>1. h \in F[1] + index .. F[1] + index + Entries
    BY DEF Ring
  <2> HIDE DEF h, n
  <2> QED  BY <1>2, <1>5, <2>1, SMTT(40)
<1>9. ASSUME NEW i \in 1 .. n, All[i].res = "data", All[i].n > 0,
             NEW k \in Off(i) .. SliceCount(All[i]) - 1
      PROVE  mem'[(F[i] + k) % Entries] = Chunk(G[i] + 1, All[i].n, k)
  <2>1. mem[(F[i] + k) % Entries] = Chunk(G[i] + 1, All[i].n, k)
    BY <1>9 DEF Holds
  <2>2. From(i) = Off(i)
    <3>1. buf = <<>> => index = 0
      BY <1>1 DEF PhaseInv
    <3> QED  BY <3>1 DEF From, Off
  <2>3. /\ F[i] \in Nat /\ From(i) \in Nat /\ b0 <= F[i] + From(i)
        /\ F[i + 1] <= h /\ F[i + 1] \in Nat
    BY <1>9, HeldPositions
  <2>4. F[i + 1] = F[i] + SliceCount(All[i]) /\ SliceCount(All[i]) \in Nat
    <3>1. F[i + 1] = F[i] + Width(All[i])
      BY DEF Ring
    <3>2. CqeOK(All[i])
      BY DEF Core, CqeInv
    <3> QED  BY <1>9, <3>1, <3>2 DEF Width, CqeOK
  <2> HIDE DEF b0, h, n
  <2> DEFINE p == F[i] + k
  <2>5. k \in Nat /\ p \in Nat /\ b0 <= p /\ p < h
    <3>1. k \in Int /\ From(i) <= k /\ k <= SliceCount(All[i]) - 1 /\ b0 \in Nat /\ h \in Nat
      BY <1>5, <1>8, <2>2, <2>3, <2>4
    <3> QED  BY <2>3, <2>4, <3>1, SMTT(40)
  <2> HIDE DEF p
  <2>6. ASSUME NEW j \in 0 .. w - 1 PROVE (h + j) % Entries # p % Entries
    <3> DEFINE q == h + j
    <3>1. q \in b0 .. b0 + Entries - 1 /\ p \in b0 .. b0 + Entries - 1 /\ p # q
      BY <1>2, <1>5, <1>8, <2>5
    <3> HIDE DEF q
    <3>2. q % Entries # p % Entries
      BY <1>8, <3>1, OnePosition
    <3> QED  BY <3>2 DEF q
  <2>7. p % Entries \in Bids
    <3>1. p \in Int
      BY <2>5
    <3> QED  BY <3>1, Sizes, DivMod DEF Bids
  <2>8. mem'[p % Entries] = mem[p % Entries]
    BY <1>3, <2>6, <2>7
  <2> QED  BY <2>1, <2>8 DEF p
<1>10. ASSUME NEW i \in 1 .. n + 1, All'[i].res = "data", All'[i].n > 0,
              NEW k \in Off(i)' .. SliceCount(All[i])' - 1
       PROVE  mem'[(F2[i] + k) % Entries] = Chunk(G2[i] + 1, All'[i].n, k)
  <2>1. SliceCount(All[i])' = SliceCount(All'[i]) /\ Off(i)' = Off(i)
    BY <1>2 DEF SliceCount, Off
  <2>2. CASE i = n + 1
    <3>1. All'[i] = c /\ F2[i] = h /\ G2[i] = taken
      BY <1>4, <1>5, <1>6, <1>7, <2>2
    <3>2. w = SliceCount(c)
      BY <1>2, <1>10, <3>1 DEF Width
    <3>3. Off(i) \in Nat
      BY <1>5 DEF Off
    <3>4. k \in 0 .. w - 1
      BY <1>2, <2>1, <3>1, <3>2, <3>3
    <3> HIDE DEF h, n
    <3> QED  BY <1>3, <1>10, <3>1, <3>4
  <2>3. CASE i # n + 1
    <3>1. i \in 1 .. n
      BY <1>5, <2>3
    <3>2. All'[i] = All[i] /\ F2[i] = F[i] /\ G2[i] = G[i]
      BY <1>4, <1>6, <1>7, <3>1
    <3> QED  BY <1>9, <1>10, <2>1, <3>1, <3>2
  <2> QED  BY <2>2, <2>3
<1> HIDE DEF n
<1> QED  BY <1>4, <1>10 DEF Holds

LEMMA HoldsPop ==
    ASSUME Core, NEW F, NEW G, Bytes(G), Holds(F, G), buf # <<>>, buf' = Tail(buf), index' = 0,
           UNCHANGED <<cq, taken, mem, bundle>>,
           NEW F2, F2 = Drop(F, Len(All) + 1),
           NEW G2, G2 = Drop(G, Len(All) + 1)
    PROVE  Holds(F2, G2)'
<1> DEFINE n == Len(All)
<1>1. RingType
  BY DEF Core
<1>2. n \in Nat \ {0}
  BY <1>1, AllHead
<1>3. Len(All') = n - 1 /\ \A i \in 1 .. n - 1 : All'[i] = All[i + 1]
  BY <1>1, AllTail
<1>4. \A i \in 1 .. n : F2[i] = F[i + 1] /\ G2[i] = G[i + 1]
  <2>1. F2 = [i \in 1 .. (n + 1) - 1 |-> F[i + 1]] /\ G2 = [i \in 1 .. (n + 1) - 1 |-> G[i + 1]]
    BY DEF Drop
  <2>2. (n + 1) - 1 = n
    BY <1>2
  <2> HIDE DEF n
  <2> QED  BY <2>1, <2>2
<1>5. ASSUME NEW i \in 1 .. n, All[i].res = "data", All[i].n > 0,
             NEW k \in Off(i) .. SliceCount(All[i]) - 1
      PROVE  mem[(F[i] + k) % Entries] = Chunk(G[i] + 1, All[i].n, k)
  BY <1>5 DEF Holds
<1> HIDE DEF n
<1>6. ASSUME NEW i \in 1 .. n - 1, All'[i].res = "data", All'[i].n > 0,
             NEW k \in Off(i)' .. SliceCount(All[i])' - 1
      PROVE  mem'[(F2[i] + k) % Entries] = Chunk(G2[i] + 1, All'[i].n, k)
  <2>1. SliceCount(All[i])' = SliceCount(All'[i]) /\ Off(i)' = 0
    BY DEF SliceCount, Off
  <2> DEFINE m == i + 1
  <2>2. m \in 1 .. n /\ i \in 1 .. n /\ m # 1
    BY <1>2
  <2>3. All'[i] = All[m] /\ F2[i] = F[m] /\ G2[i] = G[m]
    BY <1>3, <1>4, <2>2
  <2> HIDE DEF m
  <2>4. Off(m) = 0
    BY <2>2 DEF Off
  <2> QED  BY <1>5, <1>6, <2>1, <2>2, <2>3, <2>4
<1> QED  BY <1>3, <1>6 DEF Holds

\* A step that delivers nothing and does not change how much has been read.
LEMMA PositionSame ==
    ASSUME NEW G, Position(G), UNCHANGED <<delivered, failed, ws, closed, first_err>>,
           Offset' = Offset, NEW G2, G2[1] = G[1],
           closed /\ ~karmed => ~karmed' /\ taken' = taken
    PROVE  Position(G2)'
<1>1. failed' = failed /\ (DeliveredInOrder => DeliveredInOrder') /\ (Stopped => Stopped')
  BY DEF DeliveredInOrder, Stopped
<1>2. UpToDate(G) => UpToDate(G2)'
  BY DEF UpToDate
<1> QED  BY <1>1, <1>2 DEF Position

LEMMA OffsetIdle ==
    ASSUME RingType
    PROVE  /\ phase \notin Work => Offset = 0
           /\ phase = "read" => Offset = index * BufSize
           /\ phase \in {"recycle", "publish"} =>
                 Offset = Smaller(Head(buf).n, (index + 1) * BufSize)
BY DEF Offset, Work, RingType

LEMMA StreamPeer ==
    ASSUME Core, NEW F, NEW G, Stream(F, G), PeerSend \/ PeerClose
    PROVE  Stream(F, G)'
<1>1. UNCHANGED <<mem, cq, closed, ws, phase, buf, index, first_err, bundle, delivered, failed>>
  BY DEF PeerSend, PeerClose, ringVars, kernelVars, driverVars, streamVars
<1>2. taken' = taken /\ karmed' = karmed
  BY DEF PeerSend, PeerClose, kernelVars
<1>3. All' = All /\ Offset' = Offset
  BY <1>1 DEF All, Offset
<1>4. RingType
  BY DEF Core
<1>5. Bytes(G)' /\ Holds(F, G)'
  BY <1>1, <1>2, <1>3, <1>4, BytesSame, HoldsSame DEF Stream
<1>6. Position(G)'
  BY <1>1, <1>2, <1>3, PositionSame DEF Stream, Position
<1> QED  BY <1>1, <1>5, <1>6 DEF Stream

LEMMA StreamKernel ==
    ASSUME Core, NEW F, Ring(F), NEW G, Stream(F, G), NEW c, NEW w, Gives(c, w, F[Len(All) + 1]),
           NEW F2, F2 = Extend(F, Len(All) + 1, w),
           NEW G2, G2 = Extend(G, Len(All) + 1, c.n)
    PROVE  Stream(F2, G2)'
<1>1. /\ UNCHANGED <<sent, fin, closed, ws, phase, buf, index, first_err, bundle, delivered, failed>>
      /\ c \in CqeType /\ cq' = Append(cq, c) /\ taken' = taken + c.n /\ taken + c.n <= sent
  BY DEF Gives
<1>2. RingType
  BY DEF Core
<1>3. Bytes(G) /\ Holds(F, G) /\ Position(G)
  BY DEF Stream
<1>4. Bytes(G2)' /\ G2[1] = G[1]
  <2>1. 1 \in 1 .. Len(All) + 1
    BY <1>2, AllType
  <2> QED  BY <1>1, <1>2, <1>3, <2>1, BytesAppend
<1>5. Holds(F2, G2)'
  BY <1>3, HoldsAppend
<1>6. Offset' = Offset
  BY <1>1 DEF Offset
<1>7. karmed
  BY DEF Gives
<1>8. Position(G2)'
  BY <1>1, <1>3, <1>4, <1>6, <1>7, PositionSame
<1>9. (delivered \in Seq(1 .. MaxBytes))'
  BY <1>1 DEF Stream
<1> QED  BY <1>4, <1>5, <1>8, <1>9 DEF Stream

LEMMA StreamPump ==
    ASSUME Core, Core', NEW F, NEW G, Stream(F, G), Rearm \/ Drain \/ EndPump, All' = All
    PROVE  Stream(F, G)'
<1>1. UNCHANGED <<mem, closed, ws, index, first_err, bundle, delivered, failed, sent, taken, fin>>
  BY DEF Rearm, Drain, EndPump, ringVars, kernelVars, peerVars, streamVars
<1>2. phase \notin Work /\ phase' \notin Work
  BY DEF Rearm, Drain, EndPump, Work
<1>3. RingType /\ RingType'
  BY DEF Core
<1>4. Offset = 0 /\ Offset' = 0
  <2>1. Offset = 0
    BY <1>2, <1>3, OffsetIdle
  <2>2. (phase \notin Work => Offset = 0)'
    BY <1>3, OffsetIdle, PTL
  <2> QED  BY <1>2, <2>1, <2>2
<1>5. Bytes(G)' /\ Holds(F, G)'
  BY <1>1, <1>3, BytesSame, HoldsSame DEF Stream
<1>6. closed /\ ~karmed => ~karmed'
  BY DEF Rearm, Drain, EndPump, kernelVars
<1>7. Position(G)'
  BY <1>1, <1>4, <1>6, PositionSame DEF Stream
<1> QED  BY <1>1, <1>5, <1>7 DEF Stream

\* A failed Send closes the connection and is remembered in failed.
LEMMA StreamSendCqe ==
    ASSUME Core, NEW F, NEW G, Stream(F, G), OnSendCqe
    PROVE  Stream(F, G)'
<1>1. UNCHANGED <<mem, cq, karmed, ws, phase, buf, index, first_err, bundle, delivered, sent, taken, fin>>
  BY DEF OnSendCqe, ringVars, kernelVars, peerVars
<1>2. RingType /\ phase = "dispatch" /\ ~first_err
  BY DEF Core, OnSendCqe, PhaseInv, Work
<1>3. All' = All /\ Offset' = Offset
  BY <1>1 DEF All, Offset
<1>4. PICK err \in BOOLEAN : closed' = AfterCqe(err) /\ failed' = (failed \/ (err /\ ~closed))
  BY DEF OnSendCqe
<1>5. Bytes(G)' /\ Holds(F, G)'
  BY <1>1, <1>2, <1>3, BytesSame, HoldsSame DEF Stream
<1>6. Position(G)'
  <2>1. CASE failed'
    BY <2>1 DEF Position
  <2>2. CASE ~failed'
    <3>1. ~failed /\ (closed' => closed) /\ (closed /\ ws = "Closing" => closed')
      BY <1>4, <2>2 DEF AfterCqe
    <3>2. DeliveredInOrder' /\ (Stopped => Stopped')
      BY <1>1, <1>2, <3>1 DEF Stream, Position, DeliveredInOrder, Stopped
    <3>3. UpToDate(G) => UpToDate(G)'
      BY <1>1, <1>3, <3>1 DEF UpToDate
    <3> QED  BY <3>1, <3>2, <3>3 DEF Stream, Position
  <2> QED  BY <2>1, <2>2
<1> QED  BY <1>1, <1>5, <1>6 DEF Stream

LEMMA StreamNoBuffer ==
    ASSUME Core, NEW F, NEW G, Stream(F, G), OnRecvCqeNoBuffer,
           NEW F2, F2 = Drop(F, Len(All) + 1), NEW G2, G2 = Drop(G, Len(All) + 1)
    PROVE  Stream(F2, G2)'
<1>1. UNCHANGED <<mem, cq, karmed, ws, phase, index, first_err, bundle, delivered, failed, sent, taken, fin>>
  BY DEF OnRecvCqeNoBuffer, ringVars, kernelVars, peerVars, streamVars
<1>2. /\ RingType /\ phase = "dispatch" /\ ~first_err /\ index = 0
      /\ buf # <<>> /\ buf' = Tail(buf) /\ Head(buf).res # "data"
      /\ closed' = AfterCqe(Head(buf).res # "nobufs")
  BY DEF Core, OnRecvCqeNoBuffer, PhaseInv, Work
<1>3. Bytes(G) /\ Holds(F, G) /\ Position(G)
  BY DEF Stream
<1>4. CqeOK(Head(buf)) /\ (~Head(buf).more => Len(All) = 1)
  BY <1>2, FirstCqe
<1>5. Head(buf).n = 0 /\ Len(All) = 1 /\ ~karmed
  BY <1>2, <1>4, FirstCqe DEF CqeOK
<1>6. Bytes(G2)' /\ G2[1] = G[2] /\ G2[1] = G[1] + Head(buf).n
  BY <1>1, <1>2, <1>3, BytesPop
<1>7. G2[1] = G[1] /\ G[1] = taken
  <2>1. G[1] \in Nat
    BY <1>2, <1>3, BytesFirst
  <2>2. G[2] = taken
    <3>1. Len(All) + 1 = 2
      BY <1>5
    <3> QED  BY <1>3, <3>1 DEF Bytes
  <2>3. Head(buf).n = 0 /\ G[1] + 0 = G[1]
    BY <1>5, <2>1
  <2> QED  BY <1>6, <2>2, <2>3
<1>8. Holds(F2, G2)'
  BY <1>1, <1>2, <1>3, HoldsPop
<1>9. Offset = 0 /\ Offset' = 0
  BY <1>1, <1>2 DEF Offset
<1>10. Position(G2)'
  <2>1. CASE failed
    BY <1>1, <2>1 DEF Position
  <2>2. CASE ~failed
    <3>1. DeliveredInOrder' /\ (Stopped => Stopped')
      BY <1>1, <1>2, <1>3, <2>2 DEF Position, DeliveredInOrder, Stopped, AfterCqe
    <3>3. UpToDate(G) => UpToDate(G2)'
      BY <1>1, <1>5, <1>7, <1>9 DEF UpToDate
    <3> QED  BY <1>3, <2>2, <3>1, <3>3 DEF Position
  <2> QED  BY <2>1, <2>2
<1>11. (delivered \in Seq(1 .. MaxBytes))'
  BY <1>1 DEF Stream
<1> QED  BY <1>6, <1>8, <1>10, <1>11 DEF Stream

\* Nothing is left to read for a connection that ended.
LEMMA ClosedNoBytes ==
    ASSUME Core, NEW G, Bytes(G), buf # <<>>, G[1] = taken
    PROVE  Head(buf).n = 0
<1>1. RingType
  BY DEF Core
<1>2. /\ G[1] \in Nat /\ G[2] = G[1] + Head(buf).n /\ G[2] <= taken /\ Head(buf).n \in Nat
      /\ taken \in Nat
  BY <1>1, BytesFirst
<1> QED  BY <1>2

LEMMA StreamRecvCqe ==
    ASSUME Core, NEW F, NEW G, Stream(F, G), OnRecvCqe
    PROVE  Stream(F, G)'
<1>1. UNCHANGED <<mem, cq, karmed, closed, ws, buf, index, first_err, bundle, delivered, failed,
                  sent, taken, fin>>
  BY DEF OnRecvCqe, ringVars, kernelVars, peerVars, streamVars
<1>2. /\ RingType /\ phase = "dispatch" /\ ~first_err /\ index = 0 /\ buf # <<>>
      /\ phase' = IF closed \/ Head(buf).n = 0 THEN "recycle" ELSE "read"
  BY DEF Core, OnRecvCqe, PhaseInv, Work
<1>3. Bytes(G) /\ Holds(F, G) /\ Position(G)
  BY DEF Stream
<1>4. All' = All
  BY <1>1 DEF All
<1>5. Bytes(G)' /\ Holds(F, G)'
  BY <1>1, <1>2, <1>3, <1>4, BytesSame, HoldsSame
<1>6. Offset = 0
  BY <1>2 DEF Offset
<1>7. ASSUME Head(buf).n = 0 \/ ~closed PROVE Offset' = 0
  <2>1. CASE Head(buf).n = 0
    <3>1. phase' = "recycle" /\ Offset' = Smaller(0, (0 + 1) * BufSize)
      BY <1>1, <1>2, <2>1 DEF Offset
    <3>2. Smaller(0, (0 + 1) * BufSize) = 0
      <4>1. 0 <= (0 + 1) * BufSize
        BY Sizes
      <4> QED  BY <4>1 DEF Smaller
    <3> QED  BY <3>1, <3>2
  <2>2. CASE Head(buf).n # 0
    <3>1. phase' = "read" /\ Offset' = 0 * BufSize
      BY <1>1, <1>2, <1>7, <2>2 DEF Offset
    <3> QED  BY <3>1, Sizes
  <2> QED  BY <2>1, <2>2
<1>8. Position(G)'
  <2>1. CASE failed
    BY <1>1, <2>1 DEF Position
  <2>2. CASE ~failed
    <3>1. DeliveredInOrder' /\ (Stopped => Stopped')
      BY <1>1, <1>3, <2>2 DEF Position, DeliveredInOrder, Stopped
    <3>2. UpToDate(G) => UpToDate(G)'
      <4> SUFFICES ASSUME UpToDate(G) PROVE UpToDate(G)'
        OBVIOUS
      <4>1. Head(buf).n = 0 \/ ~closed
        BY <1>2, <1>3, ClosedNoBytes DEF UpToDate
      <4>2. Offset' = Offset
        BY <1>6, <1>7, <4>1
      <4> QED  BY <1>1, <4>2 DEF UpToDate
    <3> QED  BY <1>3, <2>2, <3>1, <3>2 DEF Position
  <2> QED  BY <2>1, <2>2
<1>9. (delivered \in Seq(1 .. MaxBytes))'
  BY <1>1 DEF Stream
<1> QED  BY <1>5, <1>8, <1>9 DEF Stream

LEMMA StreamWrite ==
    ASSUME Core, NEW F, NEW G, Stream(F, G), WriteEntry
    PROVE  Stream(F, G)'
<1>1. UNCHANGED <<mem, cq, karmed, closed, ws, buf, index, first_err, bundle, delivered, failed,
                  sent, taken, fin>>
  BY DEF WriteEntry, kernelVars, peerVars, streamVars
<1>2. RingType /\ phase = "recycle" /\ phase' = "publish"
  BY DEF Core, WriteEntry
<1>3. Bytes(G) /\ Holds(F, G) /\ Position(G)
  BY DEF Stream
<1>4. All' = All /\ Offset' = Offset
  BY <1>1, <1>2 DEF All, Offset
<1>5. Bytes(G)' /\ Holds(F, G)'
  BY <1>1, <1>2, <1>3, <1>4, BytesSame, HoldsSame
<1>6. Position(G)'
  BY <1>1, <1>3, <1>4, PositionSame
<1>7. (delivered \in Seq(1 .. MaxBytes))'
  BY <1>1 DEF Stream
<1> QED  BY <1>5, <1>6, <1>7 DEF Stream

LEMMA StreamNextSlice ==
    ASSUME Core, NEW F, NEW G, Stream(F, G), PublishTail, MoreSlices
    PROVE  Stream(F, G)'
<1>1. UNCHANGED <<mem, cq, karmed, closed, ws, buf, first_err, bundle, delivered, failed,
                  sent, taken, fin>>
  BY DEF PublishTail, kernelVars, peerVars, streamVars
<1>2. /\ RingType /\ phase = "publish" /\ index' = index + 1
      /\ phase' = (IF closed THEN "recycle" ELSE "read")
      /\ index + 1 < SliceCount(Head(buf))
      /\ buf # <<>>
  BY DEF Core, PublishTail, MoreSlices, PhaseInv, Work
<1>3. Bytes(G) /\ Holds(F, G) /\ Position(G)
  BY DEF Stream
<1>4. All' = All
  BY <1>1 DEF All
<1>5. Bytes(G)' /\ Holds(F, G)'
  BY <1>1, <1>2, <1>3, <1>4, BytesSame, HoldsSame
<1>6. CqeOK(Head(buf)) /\ Head(buf).n \in Nat /\ index \in Nat
  BY <1>2, FirstCqe, CqeFields DEF RingType
<1>7. Head(buf).n > 0
  <2>1. Head(buf).n = 0 => SliceCount(Head(buf)) = 1
    BY DEF SliceCount
  <2> QED  BY <1>2, <1>6, <2>1
<1>8. (index + 1) * BufSize < Head(buf).n
  <2>1. Head(buf).res = "data"
    BY <1>2 DEF Core, PhaseInv, Work
  <2>2. SliceCount(Head(buf)) \in Nat
    BY <1>6, <2>1 DEF CqeOK
  <2>3. index + 1 \in 0 .. SliceCount(Head(buf)) - 1
    BY <1>2, <1>6, <2>2
  <2> QED  BY <1>6, <1>7, <2>3 DEF CqeOK
<1>9. Offset = (index + 1) * BufSize
  <2> DEFINE x == (index + 1) * BufSize
  <2>1. Offset = Smaller(Head(buf).n, x)
    BY <1>2 DEF Offset
  <2>2. x \in Nat /\ x < Head(buf).n
    BY <1>6, <1>8, Sizes
  <2> HIDE DEF x
  <2>3. Smaller(Head(buf).n, x) = x
    BY <1>6, <2>2 DEF Smaller
  <2> QED  BY <2>1, <2>3 DEF x
<1>10. ~closed => Offset' = Offset
  <2>1. ~closed => Offset' = (index + 1) * BufSize
    BY <1>2 DEF Offset
  <2> QED  BY <1>9, <2>1
<1>11. Position(G)'
  <2>1. CASE failed
    BY <1>1, <2>1 DEF Position
  <2>2. CASE ~failed
    <3>1. DeliveredInOrder' /\ (Stopped => Stopped')
      BY <1>1, <1>3, <2>2 DEF Position, DeliveredInOrder, Stopped
    <3>2. UpToDate(G) => UpToDate(G)'
      <4> SUFFICES ASSUME UpToDate(G) PROVE UpToDate(G)'
        OBVIOUS
      <4>1. ~closed
        <5>1. closed => Head(buf).n = 0
          BY <1>2, <1>3, ClosedNoBytes DEF UpToDate
        <5> QED  BY <1>7, <5>1
      <4>2. Offset' = Offset
        BY <1>10, <4>1
      <4> QED  BY <1>1, <4>2 DEF UpToDate
    <3> QED  BY <1>3, <2>2, <3>1, <3>2 DEF Position
  <2> QED  BY <2>1, <2>2
<1>12. (delivered \in Seq(1 .. MaxBytes))'
  BY <1>1 DEF Stream
<1> QED  BY <1>5, <1>11, <1>12 DEF Stream

LEMMA StreamLastSlice ==
    ASSUME Core, NEW F, NEW G, Stream(F, G), PublishTail, ~MoreSlices,
           index + 1 = SliceCount(Head(buf)),
           NEW F2, F2 = Drop(F, Len(All) + 1), NEW G2, G2 = Drop(G, Len(All) + 1)
    PROVE  Stream(F2, G2)'
<1>1. UNCHANGED <<mem, cq, karmed, ws, bundle, delivered, failed, sent, taken, fin>>
  BY DEF PublishTail, kernelVars, peerVars, streamVars
<1>2. /\ RingType /\ phase = "publish" /\ phase' = "dispatch"
      /\ buf # <<>> /\ buf' = Tail(buf) /\ Head(buf).res = "data" /\ index' = 0
      /\ first_err' = FALSE
      /\ closed' = AfterCqe(first_err \/ Head(buf).n = 0)
  BY DEF Core, PublishTail, PhaseInv, Work
<1>3. Bytes(G) /\ Holds(F, G) /\ Position(G)
  BY DEF Stream
<1>4. /\ CqeOK(Head(buf)) /\ (~Head(buf).more => Len(All) = 1)
      /\ Head(buf).n \in Nat /\ index \in Nat
  BY <1>2, FirstCqe, CqeFields DEF RingType
<1>5. Bytes(G2)' /\ G2[1] = G[2] /\ G2[1] = G[1] + Head(buf).n
  BY <1>1, <1>2, <1>3, BytesPop
<1>6. Holds(F2, G2)'
  BY <1>1, <1>2, <1>3, HoldsPop
<1>7. Offset' = 0
  BY <1>2 DEF Offset
<1>8. Offset = Head(buf).n
  <2> DEFINE x == (index + 1) * BufSize
  <2>1. Offset = Smaller(Head(buf).n, x)
    BY <1>2 DEF Offset
  <2>2. Head(buf).n <= x
    BY <1>2, <1>4 DEF CqeOK
  <2> HIDE DEF x
  <2> QED  BY <2>1, <2>2 DEF Smaller
<1>9. Head(buf).n = 0 => ~karmed /\ G2[1] = taken
  <2> SUFFICES ASSUME Head(buf).n = 0 PROVE ~karmed /\ G2[1] = taken
    OBVIOUS
  <2>1. ~karmed /\ ~Head(buf).more
    BY <1>2, <1>4, FirstCqe DEF CqeOK
  <2>2. Len(All) + 1 = 2
    <3>1. Len(All) = 1
      BY <1>4, <2>1
    <3> QED  BY <3>1
  <2> QED  BY <1>3, <1>5, <2>1, <2>2 DEF Bytes
<1>10. Position(G2)'
  <2>1. CASE failed
    BY <1>1, <2>1 DEF Position
  <2>2. CASE ~failed
    <3>1. DeliveredInOrder' /\ (Stopped => Stopped')
      BY <1>1, <1>2, <1>3, <2>2 DEF Position, DeliveredInOrder, Stopped, AfterCqe
    <3>2. UpToDate(G) => UpToDate(G2)'
      <4> SUFFICES ASSUME UpToDate(G) PROVE UpToDate(G2)'
        OBVIOUS
      <4>1. Len(delivered) = G[1] + Offset /\ ~first_err /\ (closed => G[1] = taken)
        BY DEF UpToDate
      <4>2. Len(delivered') = G2[1] + 0
        <5>1. G[1] \in Nat
          BY <1>2, <1>3, BytesFirst
        <5> QED  BY <1>1, <1>4, <1>5, <1>8, <4>1, <5>1
      <4>3. closed' => Head(buf).n = 0
        <5>1. closed => Head(buf).n = 0
          BY <1>2, <1>3, <4>1, ClosedNoBytes
        <5> QED  BY <1>2, <4>1, <5>1 DEF AfterCqe
      <4> QED  BY <1>1, <1>2, <1>7, <1>9, <4>2, <4>3 DEF UpToDate
    <3> QED  BY <1>3, <2>2, <3>1, <3>2 DEF Position
  <2> QED  BY <2>1, <2>2
<1>11. (delivered \in Seq(1 .. MaxBytes))'
  BY <1>1 DEF Stream
<1> QED  BY <1>5, <1>6, <1>10, <1>11 DEF Stream

\* The slice that for_each_recv_slice reads: the bytes after those read before.
SliceLen ==
    IF Head(buf).n - index * BufSize < BufSize THEN Head(buf).n - index * BufSize ELSE BufSize

Slice == SubSeq(mem[SliceBid(Head(buf), index)], 1, SliceLen)

LEMMA SliceBytes ==
    ASSUME Core, NEW F, Ring(F), NEW G, Stream(F, G), phase = "read"
    PROVE  /\ Slice \in Seq(1 .. MaxBytes) /\ Len(Slice) = SliceLen /\ SliceLen \in Nat
           /\ index * BufSize \in Nat /\ index * BufSize < Head(buf).n
           /\ \A j \in 1 .. SliceLen : Slice[j] = G[1] + index * BufSize + j
<1> DEFINE c == Head(buf)
           p == index * BufSize
           len == SliceLen
           x == Slice
           s == Chunk(G[1] + 1, c.n, index)
<1>1. RingType /\ buf # <<>> /\ c.res = "data" /\ index < SliceCount(c) /\ c.n > 0
  BY DEF Core, PhaseInv, Work
<1>2. /\ CqeOK(c) /\ c.n \in Nat /\ index \in Nat /\ SliceCount(c) \in Nat
      /\ Len(All) \in Nat \ {0} /\ All[1] = c
  <2>1. CqeOK(c) /\ c.n \in Nat /\ index \in Nat /\ Len(All) \in Nat \ {0} /\ All[1] = c
    BY <1>1, FirstCqe, CqeFields DEF RingType
  <2>2. SliceCount(c) \in Nat
    BY <1>1, <2>1 DEF CqeOK
  <2> QED  BY <2>1, <2>2
<1>3. /\ G[1] \in Nat /\ G[1] + c.n <= taken /\ taken \in Nat /\ taken <= MaxBytes
      /\ MaxBytes \in Nat /\ BufSize \in Nat \ {0}
  <2>1. G[1] \in Nat /\ G[2] = G[1] + c.n /\ G[2] <= taken /\ taken \in Nat
    BY <1>1, BytesFirst DEF Stream
  <2>2. taken <= sent /\ sent <= MaxBytes /\ sent \in Nat
    BY <1>1, Sizes DEF RingType
  <2> HIDE DEF c
  <2> QED  BY <2>1, <2>2, Sizes
<1>4. index \in 0 .. SliceCount(c) - 1
  BY <1>1, <1>2
<1>5. p \in Nat /\ p < c.n
  <2>1. p < c.n
    BY <1>1, <1>2, <1>4 DEF CqeOK
  <2> QED  BY <1>2, <2>1, Sizes
<1>6. mem[SliceBid(c, index)] = s
  <2>1. 1 \in 1 .. Len(All) /\ Off(1) = index
    BY <1>2 DEF Off
  <2>2. index \in Off(1) .. SliceCount(All[1]) - 1
    BY <1>2, <1>4, <2>1
  <2>3. mem[(F[1] + index) % Entries] = Chunk(G[1] + 1, All[1].n, index)
    BY <1>1, <1>2, <2>1, <2>2 DEF Stream, Holds
  <2>4. SliceBid(c, index) = (F[1] + index) % Entries
    BY SliceSlot DEF Work
  <2> QED  BY <1>2, <2>3, <2>4
<1>7. /\ s \in Seq(1 .. MaxBytes) /\ Len(s) = len
      /\ \A j \in 1 .. len : s[j] = (G[1] + 1) + p + j - 1
  <2> DEFINE g == G[1]
             m == c.n
             f == g + 1
  <2>1. /\ g \in Nat /\ m \in Nat /\ g + m <= taken /\ taken \in Nat /\ taken <= MaxBytes
        /\ MaxBytes \in Nat /\ index \in Nat /\ p < m
    BY <1>2, <1>3, <1>5
  <2>2. len = (IF m - index * BufSize < BufSize THEN m - index * BufSize ELSE BufSize)
    BY DEF SliceLen
  <2> HIDE DEF c, g, m, len
  <2>3. f \in Nat \ {0} /\ f + m <= MaxBytes + 1
    <3> HIDE DEF p
    <3> QED  BY <2>1
  <2> HIDE DEF f
  <2>4. m \in Nat /\ index \in Nat /\ index * BufSize < m
    BY <2>1
  <2>5. /\ Chunk(f, m, index) \in Seq(1 .. MaxBytes)
        /\ Len(Chunk(f, m, index)) =
              (IF m - index * BufSize < BufSize THEN m - index * BufSize ELSE BufSize)
        /\ \A j \in 1 .. Len(Chunk(f, m, index)) :
              Chunk(f, m, index)[j] = f + index * BufSize + j - 1
    BY <2>3, <2>4, ChunkType
  <2> QED  BY <2>2, <2>5 DEF f, m, g
<1>8. len \in Nat /\ len > 0
  <2>1. len = (IF c.n - p < BufSize THEN c.n - p ELSE BufSize)
    BY DEF SliceLen
  <2> HIDE DEF p, c, len
  <2> QED  BY <1>2, <1>3, <1>5, <2>1
<1>11. x = SubSeq(s, 1, len)
  BY <1>6 DEF Slice
<1> HIDE DEF s, len, x, c
<1>9. x \in Seq(1 .. MaxBytes) /\ Len(x) = len /\ \A j \in 1 .. len : x[j] = s[j]
  <2>1. s \in Seq(1 .. MaxBytes) /\ len \in 0 .. Len(s)
    BY <1>7, <1>8
  <2>2. /\ SubSeq(s, 1, len) \in Seq(1 .. MaxBytes) /\ Len(SubSeq(s, 1, len)) = len
        /\ \A j \in 1 .. len : SubSeq(s, 1, len)[j] = s[j]
    BY <2>1, Split
  <2> QED  BY <1>11, <2>2
<1>10. ASSUME NEW j \in 1 .. len PROVE x[j] = G[1] + p + j
  <2>1. x[j] = (G[1] + 1) + p + j - 1
    BY <1>7, <1>9
  <2>2. p \in Nat /\ j \in Nat /\ G[1] \in Nat
    BY <1>3, <1>5, <1>8
  <2> HIDE DEF p
  <2> QED  BY <2>1, <2>2
<1> QED  BY <1>5, <1>8, <1>9, <1>10 DEF len, x, c

LEMMA StreamRead ==
    ASSUME Core, NEW F, Ring(F), NEW G, Stream(F, G), ReadSlice
    PROVE  Stream(F, G)'
<1>1. UNCHANGED <<mem, cq, karmed, closed, buf, index, bundle, sent, taken, fin>>
  BY DEF ReadSlice, ringVars, kernelVars, peerVars
<1>2. RingType /\ phase = "read" /\ phase' = "recycle" /\ ~closed
  BY DEF Core, ReadSlice, PhaseInv
<1>3. Bytes(G) /\ Holds(F, G) /\ Position(G) /\ delivered \in Seq(1 .. MaxBytes)
  BY DEF Stream
<1>4. All' = All
  BY <1>1 DEF All
<1>5. Bytes(G)' /\ Holds(F, G)'
  BY <1>1, <1>2, <1>3, <1>4, BytesSame, HoldsSame
<1>6. CASE first_err
  <2>1. UNCHANGED <<delivered, failed, first_err, ws>>
    BY <1>6 DEF ReadSlice
  <2>2. Position(G)'
    BY <1>1, <1>3, <1>6, <2>1 DEF Position, Stopped, UpToDate, DeliveredInOrder
  <2> QED  BY <1>3, <1>5, <2>1, <2>2 DEF Stream
<1>7. CASE ~first_err
  <2>1. PICK len : len = SliceLen
    OBVIOUS
  <2>2. PICK x : x = Slice
    OBVIOUS
  <2>3. delivered' = delivered \o x /\ OnSlice
    BY <1>7, <2>1, <2>2 DEF ReadSlice, Slice, SliceLen
  <2>4. /\ x \in Seq(1 .. MaxBytes) /\ Len(x) = len /\ len \in Nat
        /\ index * BufSize \in Nat /\ index * BufSize < Head(buf).n
        /\ \A j \in 1 .. len : x[j] = G[1] + index * BufSize + j
    <3>1. /\ Slice \in Seq(1 .. MaxBytes) /\ Len(Slice) = SliceLen /\ SliceLen \in Nat
          /\ index * BufSize \in Nat /\ index * BufSize < Head(buf).n
          /\ \A j \in 1 .. SliceLen : Slice[j] = G[1] + index * BufSize + j
      BY <1>2, SliceBytes
    <3> QED  BY <2>1, <2>2, <3>1
  <2>5. /\ delivered' \in Seq(1 .. MaxBytes) /\ Len(delivered) \in Nat
        /\ Len(delivered') = Len(delivered) + len
        /\ \A i \in 1 .. Len(delivered) : delivered'[i] = delivered[i]
        /\ \A i \in 1 .. len : delivered'[Len(delivered) + i] = x[i]
    <3>1. delivered \in Seq(1 .. MaxBytes) /\ x \in Seq(1 .. MaxBytes)
      BY <1>3, <2>4
    <3>2. /\ delivered \o x \in Seq(1 .. MaxBytes) /\ Len(delivered) \in Nat
          /\ Len(delivered \o x) = Len(delivered) + Len(x)
          /\ \A i \in 1 .. Len(delivered) : (delivered \o x)[i] = delivered[i]
          /\ \A i \in 1 .. Len(x) : (delivered \o x)[Len(delivered) + i] = x[i]
      BY <3>1, Cat
    <3>3. Len(x) = len /\ delivered' = delivered \o x
      BY <2>3, <2>4
    <3> QED  BY <3>2, <3>3
  <2>6. Position(G)'
    <3>1. CASE failed'
      BY <3>1 DEF Position
    <3>2. CASE ~failed'
      <4>1. /\ ~failed /\ (first_err' => ws' = "Closing")
        BY <2>3, <3>2 DEF OnSlice
      <4>2. DeliveredInOrder /\ UpToDate(G)
        BY <1>2, <1>3, <1>7, <4>1 DEF Position, Stopped
      <4> DEFINE p == index * BufSize
                 n == Head(buf).n
      <4>3. Len(delivered) = G[1] + p /\ G[1] \in Nat /\ n \in Nat
        <5>1. Offset = p
          BY <1>2 DEF Offset
        <5>2. G[1] \in Nat
          BY <1>2, <1>3, BytesFirst
        <5>3. n \in Nat
          BY <1>2, <1>3, BytesFirst DEF Core, PhaseInv, Work
        <5> QED  BY <4>2, <5>1, <5>2, <5>3 DEF UpToDate
      <4>4. p \in Nat /\ p < n /\ \A j \in 1 .. len : x[j] = G[1] + p + j
        BY <2>4
      <4>5. len = (IF n - p < BufSize THEN n - p ELSE BufSize)
        BY <2>1 DEF SliceLen
      <4>6. Offset' = Smaller(n, (index + 1) * BufSize)
        BY <1>1, <1>2 DEF Offset
      <4>7. (index + 1) * BufSize = p + BufSize
        <5>1. index \in Nat /\ BufSize \in Nat
          BY <1>2, Sizes DEF RingType
        <5> QED  BY <5>1
      <4> HIDE DEF p, n
      <4>8. DeliveredInOrder'
        <5>1. ASSUME NEW i \in 1 .. Len(delivered') PROVE delivered'[i] = i
          <6>1. CASE i <= Len(delivered)
            <7>1. i \in 1 .. Len(delivered)
              BY <2>5, <6>1
            <7> QED  BY <2>5, <4>1, <4>2, <7>1 DEF DeliveredInOrder
          <6>2. CASE ~(i <= Len(delivered))
            <7> DEFINE j == i - Len(delivered)
            <7>1. j \in 1 .. len /\ Len(delivered) + j = i
              BY <2>4, <2>5, <6>2
            <7> HIDE DEF j
            <7>2. delivered'[i] = G[1] + p + j
              BY <2>5, <4>4, <7>1
            <7> QED  BY <4>3, <7>1, <7>2
          <6> QED  BY <6>1, <6>2
        <5> QED  BY <5>1 DEF DeliveredInOrder
      <4>9. Len(delivered') = G[1] + Offset'
        <5>1. Offset' = p + len
          BY <4>3, <4>4, <4>5, <4>6, <4>7, Sizes DEF Smaller
        <5> QED  BY <2>4, <2>5, <4>3, <4>4, <5>1
      <4>10. first_err' => Stopped'
        BY <4>1 DEF Stopped
      <4>11. ~first_err' => UpToDate(G)'
        BY <1>1, <1>2, <4>9 DEF UpToDate
      <4> QED  BY <4>8, <4>10, <4>11 DEF Position
    <3> QED  BY <3>1, <3>2
  <2> QED  BY <1>5, <2>5, <2>6 DEF Stream
<1> QED  BY <1>6, <1>7

\* The inductive invariant.
RecvInv == Core /\ \E F, G : Ring(F) /\ Stream(F, G)

LEMMA RecvInvInit == Init => RecvInv
<1> SUFFICES ASSUME Init PROVE RecvInv
  OBVIOUS
<1>1. PICK F : F = [i \in 1 .. 1 |-> 0]
  OBVIOUS
<1>2. Core /\ Ring(F)
  BY <1>1, InitCore
<1>3. All = <<>> /\ Len(All) = 0
  <2>1. <<>> \in Seq(CqeType)
    OBVIOUS
  <2>2. <<>> \o <<>> = <<>>
    BY <2>1, ConcatEmptySeq
  <2> QED  BY <2>2 DEF Init, All
<1>4. Bytes(F)
  <2>1. /\ 1 .. 0 + 1 = 1 .. 1 /\ F[1] = 0 /\ F \in [1 .. 1 -> Nat]
        /\ \A i, j \in 1 .. 1 : i = 1 /\ j = 1
        /\ \A i \in 1 .. 0 : FALSE /\ 0 <= 0 /\ 0 + 1 = 1
    BY <1>1
  <2>2. taken = 0
    BY DEF Init
  <2> QED  BY <1>3, <2>1, <2>2 DEF Bytes
<1>5. Holds(F, F)
  BY <1>3 DEF Holds
<1>6. delivered \in Seq(1 .. MaxBytes) /\ Position(F)
  <2>1. <<>> \in Seq(1 .. MaxBytes) /\ Len(<<>>) = 0 /\ 0 + 0 = 0 /\ F[1] = 0
    BY <1>1
  <2>2. Offset = 0
    BY DEF Init, Offset
  <2>3. delivered = <<>> /\ ~first_err /\ ~closed
    BY DEF Init
  <2>4. DeliveredInOrder
    BY <2>1, <2>3 DEF DeliveredInOrder
  <2>5. UpToDate(F)
    BY <2>1, <2>2, <2>3 DEF UpToDate
  <2> QED  BY <2>1, <2>3, <2>4, <2>5 DEF Position
<1> QED  BY <1>2, <1>4, <1>5, <1>6 DEF RecvInv, Stream

LEMMA RecvInvNext == RecvInv /\ [Next]_vars => RecvInv'
<1> SUFFICES ASSUME RecvInv, [Next]_vars PROVE RecvInv'
  OBVIOUS
<1>1. Core
  BY DEF RecvInv
<1>2. PICK F, G : Ring(F) /\ Stream(F, G)
  BY DEF RecvInv
<1>3. CASE PeerSend \/ PeerClose
  BY <1>1, <1>2, <1>3, PeerStep, StreamPeer DEF RecvInv
<1>4. CASE Rearm \/ Drain \/ EndPump
  <2>1. Core' /\ Ring(F)' /\ All' = All
    BY <1>1, <1>2, <1>4, PumpStep
  <2>2. Stream(F, G)'
    BY <1>1, <1>2, <1>4, <2>1, StreamPump
  <2> QED  BY <2>1, <2>2 DEF RecvInv
<1>5. CASE OnSendCqe
  BY <1>1, <1>2, <1>5, SendCqeStep, StreamSendCqe DEF RecvInv
<1>6. CASE OnRecvCqe
  BY <1>1, <1>2, <1>6, RecvCqeStep, StreamRecvCqe DEF RecvInv
<1>7. CASE ReadSlice
  BY <1>1, <1>2, <1>7, ReadStep, StreamRead DEF RecvInv
<1>8. CASE WriteEntry
  BY <1>1, <1>2, <1>8, WriteStep, StreamWrite DEF RecvInv
<1>9. PICK F2, G2 : F2 = Drop(F, Len(All) + 1) /\ G2 = Drop(G, Len(All) + 1)
  OBVIOUS
<1>10. CASE OnRecvCqeNoBuffer
  <2>1. Core' /\ Ring(F2)'
    BY <1>1, <1>2, <1>9, <1>10, NoBufferStep
  <2>2. Stream(F2, G2)'
    BY <1>1, <1>2, <1>9, <1>10, StreamNoBuffer
  <2> QED  BY <2>1, <2>2 DEF RecvInv
<1>11. CASE PublishTail /\ MoreSlices
  BY <1>1, <1>2, <1>11, NextSliceStep, StreamNextSlice DEF RecvInv
<1>12. CASE PublishTail /\ ~MoreSlices
  <2>1. Core' /\ Ring(F2)' /\ index + 1 = SliceCount(Head(buf))
    BY <1>1, <1>2, <1>9, <1>12, LastSliceStep
  <2>2. Stream(F2, G2)'
    BY <1>1, <1>2, <1>9, <1>12, <2>1, StreamLastSlice
  <2> QED  BY <2>1, <2>2 DEF RecvInv
<1>13. CASE KernelRecv \/ KernelNoBufs \/ KernelEof \/ KernelError
  <2>1. PICK c, w : Gives(c, w, F[Len(All) + 1])
    BY <1>1, <1>2, <1>13, RecvGives, EndGives
  <2>2. PICK F3, G3 : F3 = Extend(F, Len(All) + 1, w) /\ G3 = Extend(G, Len(All) + 1, c.n)
    OBVIOUS
  <2>3. Core' /\ Ring(F3)'
    BY <1>1, <1>2, <2>1, <2>2, KernelStep
  <2>4. Stream(F3, G3)'
    BY <1>1, <1>2, <2>1, <2>2, StreamKernel
  <2> QED  BY <2>3, <2>4 DEF RecvInv
<1>14. CASE UNCHANGED vars
  <2>1. Core' /\ Ring(F)'
    BY <1>1, <1>2, <1>14, StutterStep
  <2>2. UNCHANGED <<mem, cq, karmed, closed, ws, phase, buf, index, first_err, bundle, delivered, failed,
                    sent, taken, fin>>
    BY <1>14 DEF vars, ringVars, kernelVars, peerVars, driverVars, streamVars
  <2>3. All' = All /\ Offset' = Offset /\ RingType
    BY <1>1, <2>2 DEF All, Offset, Core
  <2>4. Bytes(G)' /\ Holds(F, G)' /\ Position(G)'
    BY <1>2, <2>2, <2>3, BytesSame, HoldsSame, PositionSame DEF Stream
  <2>5. Stream(F, G)'
    BY <1>2, <2>2, <2>4 DEF Stream
  <2> QED  BY <2>1, <2>5 DEF RecvInv
<1> QED  BY <1>3, <1>4, <1>5, <1>6, <1>7, <1>8, <1>10, <1>11, <1>12, <1>13, <1>14
         DEF Next, Kernel, Driver

LEMMA RecvInvHolds == Spec => []RecvInv
BY RecvInvInit, RecvInvNext, PTL DEF Spec

LEMMA RecvInvRing == RecvInv => RingInv
BY DEF RecvInv, RingInv

-----------------------------------------------------------------------------
(* The theorems.                                                            *)

\* Ring slot i always holds buffer i, whatever the size of the ring and however the
\* kernel's and the driver's steps alternate: (start_bid + index) & mask in
\* for_each_recv_slice is the buffer the kernel filled.
THEOREM RecvRingSlots == Spec => []SlotHoldsItsBuffer
<1>1. RecvInv => SlotHoldsItsBuffer
  BY DEF RecvInv, Core
<1> QED  BY <1>1, RecvInvHolds, PTL

\* Every buffer is with the kernel or covered by exactly one CQE, in every reachable
\* state: recycle_recv_buffers loses none and gives none back twice on any path.
THEOREM RecvRingBuffers == Spec => []EveryBufferOnce
BY RecvInvHolds, RecvInvRing, BuffersOnce, PTL

\* try_rearm_multishot arms a receive again only when every buffer is back in the ring,
\* so that ENOBUFS cannot follow at once.
THEOREM RecvRingRearm == Spec => RearmFindsFullRing
<1>1. ASSUME RecvInv, [Next]_vars PROVE [~armed /\ armed' => Available = Entries]_vars
  <2>1. SUFFICES ASSUME Next, ~armed, armed' PROVE Available = Entries
    BY <1>1
  <2>2. Rearm
    <3>1. CASE PeerSend \/ PeerClose \/ OnSendCqe
      BY <2>1, <3>1 DEF PeerSend, PeerClose, OnSendCqe, driverVars
    <3>2. CASE Kernel
      BY <2>1, <3>2 DEF Kernel, KernelRecv, KernelNoBufs, KernelEof, KernelError, driverVars
    <3>3. CASE Drain \/ EndPump \/ OnRecvCqeNoBuffer \/ OnRecvCqe
      BY <2>1, <3>3 DEF Drain, EndPump, OnRecvCqeNoBuffer, OnRecvCqe
    <3>4. CASE ReadSlice \/ WriteEntry \/ PublishTail
      BY <2>1, <3>4 DEF ReadSlice, WriteEntry, PublishTail
    <3> QED  BY <2>1, <3>1, <3>2, <3>3, <3>4 DEF Next, Driver
  <2>3. RingType /\ phase \notin Work /\ index = 0
    BY <1>1, <2>2 DEF RecvInv, Core, PhaseInv, Rearm, Work
  <2>4. Len(All) = 0
    BY <1>1, <2>1, <2>3 DEF RecvInv, Core, ArmInv
  <2>5. PICK F : Ring(F)
    BY <1>1 DEF RecvInv
  <2>6. F[1] \in Nat /\ Available = (F[1] + index + Entries) - F[Len(All) + 1]
    BY <2>3, <2>5, RingAvailable
  <2> QED  BY <2>3, <2>4, <2>6, Sizes
<1> QED  BY <1>1, RecvInvHolds, PTL DEF Spec, RearmFindsFullRing

\* The receive path stays within its types, the bytes given to the parser included:
\* what for_each_recv_slice reads is always what the kernel wrote.
THEOREM RecvRingTypeOK == Spec => []TypeOK
<1>1. RecvInv => TypeOK
  BY DEF RecvInv, Core, RingType, Stream, TypeOK
<1> QED  BY <1>1, RecvInvHolds, PTL

\* Until the connection fails, the parser is given the peer's bytes in order, none
\* skipped and none twice, in both receive modes, across ENOBUFS, errors in the middle of
\* a bundle and connections that close and open again.
THEOREM RecvRingInOrder == Spec => []DeliveredInOrder
<1>1. RecvInv => DeliveredInOrder
  BY DEF RecvInv, Stream, Position, DeliveredInOrder
<1> QED  BY <1>1, RecvInvHolds, PTL

=============================================================================
