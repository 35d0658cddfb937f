--------------------------- MODULE WsClientProofs ---------------------------
(***************************************************************************)
(* What the WebSocket client delivers and answers is what the frames of the *)
(* peer mean, for every script of frames, however their bytes are cut into  *)
(* chunks, whichever calls read them and whatever the limits; it writes one *)
(* Close at most, and its internal errors do not happen.                    *)
(***************************************************************************)
EXTENDS WsClient, BasicLemmas

-----------------------------------------------------------------------------
(* The inductive invariant.                                                 *)

N == Len(frames)

\* The peer's frames: the response to the upgrade, then others.
FramesOK ==
    /\ frames \in Seq(Frame \cup Upgrades)
    /\ N \in Nat \ {0}
    /\ frames[1] \in Upgrades
    /\ \A i \in 2 .. N : frames[i] \in Frame

\* W are the bytes of the frames, one after the other; frame i ends at E[i].
IsWire(W, E) ==
    /\ W \in Seq(Byte)
    /\ E \in [0 .. N -> Nat]
    /\ E[0] = 0
    /\ E[N] = Len(W)
    /\ \A i \in 1 .. N :
          /\ E[i] = E[i - 1] + FrameLen(frames[i])
          /\ \A k \in 1 .. FrameLen(frames[i]) : W[E[i - 1] + k] = <<i, k>>

\* What is known of the frames read: between messages nothing is gathered.
Known ==
    {m \in [out : Seq(MessageType), pings : Seq(Seq(Byte)), op : Data \cup {"None"},
            acc : Seq(Byte), over : BOOLEAN] : m.op = "None" => m.acc = <<>>}

\* M[i] is what the first i frames mean.
IsMeaning(M) ==
    /\ M \in [0 .. N -> Known]
    /\ M[0] = Unread
    /\ \A i \in 1 .. N : M[i] = Read(M[i - 1], i)

\* s is the part of W that begins after a bytes.
Piece(W, s, a) ==
    /\ s \in Seq(Byte)
    /\ a \in Nat
    /\ a + Len(s) <= Len(W)
    /\ \A k \in 1 .. Len(s) : s[k] = W[a + k]

\* r begins after a bytes, and g and s follow, to the end.
PlacedAt(W, r, g, s, a) ==
    /\ Piece(W, r, a)
    /\ Piece(W, g, a + Len(r))
    /\ Piece(W, s, a + Len(r) + Len(g))
    /\ a + Len(r) + Len(g) + Len(s) = Len(W)

\* The receive buffer begins after a bytes, the chunk and what has not arrived follow.
Placed(W, a) == PlacedAt(W, recv_buf, ingress, stream, a)

\* The first n bytes of the payload of frame i.
Part(i, n) == SubSeq(Payload(i), 1, n)

\* The message in progress is the one of m.
KeepsMessage(m) == msg_opcode = m.op /\ (m.op # "None" => msg_buf = m.acc)

\* Frame i is next, the parser has gathered nothing or a part of its header.
InHeader(W, E, M, i, a) ==
    /\ E[i - 1] + Len(parser.partial) = a + borrowed
    /\ Piece(W, parser.partial, E[i - 1])
    /\ KeepsMessage(M[i - 1])

\* The payload of frame i is being read.
InPayload(E, M, i, a) ==
    LET f == frames[i]
        m == M[i - 1]
        read == f.len - parser.remaining
    IN  /\ i <= N
        /\ borrowed = 0
        /\ a + parser.remaining = E[i]
        /\ parser.remaining <= f.len
        /\ ~HeaderBad(f)
        /\ f.op \in Control => f.fin
        /\ f.len <= MaxFrame
        /\ cur_opcode = f.op
        /\ cur_fin = f.fin
        /\ f.op \in Control => (ctl_buf = Part(i, read) /\ KeepsMessage(m))
        /\ f.op \notin Control =>
              /\ (f.op = "Cont") = (m.op # "None")
              /\ Len(m.acc) + f.len <= MaxMessage
              /\ msg_opcode = OpOf(m, f)
              /\ msg_buf = m.acc \o Part(i, read)

\* The Pongs of tx are one for each element of pings, in order.
AnswersIn(tx, pings) ==
    LET pongs == {k \in 1 .. Len(tx) : tx[k].op = "Pong"}
    IN  \E at \in [1 .. Len(pings) -> pongs] :
            /\ \A k \in pongs : \E j \in 1 .. Len(pings) : at[j] = k
            /\ \A j, k \in 1 .. Len(pings) : j < k => at[j] < at[k]
            /\ \A k \in 1 .. Len(pings) : tx[at[k]].payload = pings[k]

\* The frames before frame i are read, and it is next or in progress; a drain that has
\* returned has left no complete frame.
Live(W, E, M, i, a) ==
    /\ i \in 1 .. N + 1
    /\ ~M[i - 1].over
    /\ delivered \o batch = M[i - 1].out
    /\ AutoPong => AnswersIn(tx_buf, M[i - 1].pings)
    /\ (state = "Connecting") = (i = 1)
    /\ Placed(W, a)
    /\ parser.st = "Payload" => InPayload(E, M, i, a)
    /\ parser.st # "Payload" => InHeader(W, E, M, i, a)
    /\ (pc = "ready" /\ call \in {"data", "batch"} /\ i <= N) => a + Len(recv_buf) < E[i]

\* From the first j frames on, nothing more is known.
Settled(M, j) == \A k \in j .. N : M[k].out = M[j].out /\ M[k].pings = M[j].pings

\* The connection is over: what the frames mean was delivered and answered.
Over(W, E, M, j) ==
    /\ j \in 0 .. N
    /\ delivered = M[j].out
    /\ AutoPong => AnswersIn(tx_buf, M[j].pings)
    /\ Settled(M, j)
    /\ E[j] <= Len(W) - Len(stream)
    /\ Piece(W, stream, Len(W) - Len(stream))

IsOver == failed \/ state = "Closed"

Story(W, E, M) ==
    /\ IsOver => \E j : Over(W, E, M, j)
    /\ ~IsOver => \E i, a : Live(W, E, M, i, a)

\* Where a call is, and what it has left behind.
PhaseInv ==
    /\ failed => pc = "ready" /\ state \in {"Closing", "Closed"}
    /\ pc \in {"ingress", "direct", "poll"} => last_emitted = "None"
    /\ pc \in {"ingress", "direct"} => BetweenFrames
    /\ pc \in {"ingress", "direct", "loop"} => call \in {"data", "batch"}
    /\ pc = "poll" => call \in {"poll", "data", "batch"}
    /\ pc = "ingress" => recv_buf = <<>>
    /\ (pc # "ingress" /\ ~failed) => ingress = <<>>
    /\ batch # <<>> => (pc \in {"ingress", "direct"} /\ call = "batch")
    /\ last_emitted = "None" => borrowed = 0
    /\ last_emitted # "None" => parser = Idle
    /\ last_emitted = "Message" => msg_opcode = "None"
    /\ (state \in {"Connecting", "Closed"} /\ ~failed) => parser = Idle
    /\ parser.st = "Idle" => parser = Idle

\* One Close, written when an open connection begins to close, and no frame of the
\* caller's after it.
CloseOK(tx, st, refused) ==
    LET closes == {k \in 1 .. Len(tx) : tx[k].op = "Close"}
    IN  /\ \A j, k \in closes : j = k
        /\ st \in {"Connecting", "Open"} => closes = {}
        /\ st = "Closing" \/ (st = "Closed" /\ ~refused) => closes # {}
        /\ \A j \in closes, k \in 1 .. Len(tx) : j < k => tx[k].op = "Pong"

CloseInv == CloseOK(tx_buf, state, frames[1].bad = "header")

\* All of it, about the wire W with the ends E and the meanings M.
Good(W, E, M) ==
    /\ TypeOK
    /\ FramesOK
    /\ PhaseInv
    /\ CloseInv
    /\ IsWire(W, E)
    /\ IsMeaning(M)
    /\ Story(W, E, M)

WsInv == \E W, E, M : Good(W, E, M)

-----------------------------------------------------------------------------
(* Frames and their bytes.                                                  *)

\* The assumptions on the configuration.
LEMMA Bounds ==
    /\ Scripts \subseteq Seq(Frame)
    /\ MaxFrame \in Nat /\ MaxMessage \in Nat /\ BatchCapacity \in Nat \ {0}
    /\ AutoPong \in BOOLEAN
BY WsClientAssumption

\* The fields of a frame, and what its header and all of it take.
LEMMA FrameFields ==
    ASSUME NEW f \in Frame \cup Upgrades
    PROVE  /\ f.op \in Data \cup Control \cup {"Cont", "Upgrade"}
           /\ f.fin \in BOOLEAN
           /\ f.len \in Nat
           /\ f.bad \in {"no", "header", "late", "payload"}
           /\ f.bad = "late" => (~f.fin \/ f.op \in Control)
           /\ f.bad = "payload" => f.len > 0
           /\ HeaderLen(f) \in {2, 3}
           /\ FrameLen(f) \in Nat
           /\ FrameLen(f) = HeaderLen(f) + f.len
           /\ FrameLen(f) >= 2
<1>1. CASE f \in Frame
  BY <1>1 DEF Frame, HeaderLen, FrameLen
<1>2. CASE f \in Upgrades
  <2>1. f.op = "Upgrade" /\ f.len = 0 /\ f.bad \in {"no", "header"}
    BY <1>2 DEF Upgrades
  <2>2. f.fin = TRUE /\ f.wide = FALSE
    BY <1>2 DEF Upgrades
  <2>3. HeaderLen(f) = 2
    BY <2>2 DEF HeaderLen
  <2>4. FrameLen(f) = HeaderLen(f) + f.len
    BY DEF FrameLen
  <2>5. f.fin \in BOOLEAN
    BY <2>2
  <2> QED  BY <2>1, <2>3, <2>4, <2>5
<1> QED  BY <1>1, <1>2

\* Frame i, and what the kinds of frames have in common.
LEMMA FrameAt ==
    ASSUME FramesOK, NEW i \in 1 .. N
    PROVE  /\ frames[i].op \in Data \cup Control \cup {"Cont", "Upgrade"}
           /\ frames[i].fin \in BOOLEAN
           /\ frames[i].len \in Nat
           /\ frames[i].bad \in {"no", "header", "late", "payload"}
           /\ frames[i].bad = "late" => (~frames[i].fin \/ frames[i].op \in Control)
           /\ frames[i].bad = "payload" => frames[i].len > 0
           /\ HeaderLen(frames[i]) \in {2, 3}
           /\ FrameLen(frames[i]) \in Nat
           /\ FrameLen(frames[i]) = HeaderLen(frames[i]) + frames[i].len
           /\ FrameLen(frames[i]) >= 2
           /\ i # 1 => frames[i].op # "Upgrade"
           /\ i = 1 => (frames[i].op = "Upgrade" /\ frames[i].fin /\ frames[i].len = 0
                        /\ HeaderLen(frames[i]) = 2)
<1>1. frames[i] \in Frame \cup Upgrades
  BY DEF FramesOK, N
<1>2. i # 1 => frames[i] \in Frame
  BY DEF FramesOK
<1>3. i # 1 => frames[i].op # "Upgrade"
  BY <1>2 DEF Frame, Data, Control
<1>4. i = 1 => (frames[i].op = "Upgrade" /\ frames[i].fin /\ frames[i].len = 0
                /\ HeaderLen(frames[i]) = 2)
  BY DEF FramesOK, Upgrades, HeaderLen
<1>5. PICK f \in Frame \cup Upgrades : f = frames[i]
  BY <1>1
<1> QED  BY <1>3, <1>4, <1>5, FrameFields

\* The response to the upgrade is refused or not.
LEMMA UpgradeBad ==
    ASSUME FramesOK
    PROVE  HeaderBad(frames[1]) <=> frames[1].bad = "header"
<1>1. frames[1].bad \in {"no", "header"}
  BY DEF FramesOK, Upgrades
<1> QED  BY <1>1 DEF HeaderBad

\* A byte.
LEMMA ByteType ==
    ASSUME NEW i \in Nat, NEW k \in Nat
    PROVE  <<i, k>> \in Byte
BY DEF Byte

\* The payload of a frame.
LEMMA PayloadType ==
    ASSUME FramesOK, NEW i \in 1 .. N
    PROVE  /\ Payload(i) \in Seq(Byte)
           /\ Len(Payload(i)) = frames[i].len
           /\ \A k \in 1 .. frames[i].len : Payload(i)[k] = <<i, HeaderLen(frames[i]) + k>>
<1>1. frames[i].len \in Nat /\ HeaderLen(frames[i]) \in Nat /\ i \in Nat
  BY FrameAt DEF FramesOK
<1> DEFINE n == frames[i].len
           h == HeaderLen(frames[i])
           p == [k \in 1 .. n |-> <<i, h + k>>]
<1>2. Payload(i) = p
  BY DEF Payload
<1>3. n \in Nat /\ h \in Nat
  BY <1>1
<1> HIDE DEF n, h
<1>4. \A k \in 1 .. n : <<i, h + k>> \in Byte
  BY <1>1, <1>3, ByteType
<1>5. p \in Seq(Byte)
  BY <1>3, <1>4, IsASeq
<1>6. Len(p) = n
  BY <1>3, <1>5
<1> QED  BY <1>2, <1>5, <1>6 DEF n, h

\* The first n bytes of a payload.
LEMMA PartType ==
    ASSUME FramesOK, NEW i \in 1 .. N, NEW n \in 0 .. frames[i].len
    PROVE  /\ Part(i, n) \in Seq(Byte)
           /\ Len(Part(i, n)) = n
           /\ \A k \in 1 .. n : Part(i, n)[k] = <<i, HeaderLen(frames[i]) + k>>
           /\ n = frames[i].len => Part(i, n) = Payload(i)
           /\ n = 0 => Part(i, n) = <<>>
<1> DEFINE p == Payload(i)
<1>1. /\ p \in Seq(Byte)
      /\ Len(p) = frames[i].len
      /\ \A k \in 1 .. frames[i].len : p[k] = <<i, HeaderLen(frames[i]) + k>>
  BY PayloadType
<1>2. frames[i].len \in Nat
  BY FrameAt
<1>3. Part(i, n) = SubSeq(p, 1, n)
  BY DEF Part
<1> HIDE DEF p
<1>4. /\ SubSeq(p, 1, n) \in Seq(Byte)
      /\ Len(SubSeq(p, 1, n)) = n
      /\ \A k \in 1 .. n : SubSeq(p, 1, n)[k] = p[k]
  BY <1>1, <1>2, Split
<1>5. \A k \in 1 .. n : k \in 1 .. frames[i].len
  BY <1>2
<1>6. n = frames[i].len => SubSeq(p, 1, n) = p
  BY <1>1, SubSeqFull
<1>7. n = 0 => SubSeq(p, 1, n) = <<>>
  BY <1>4, EmptySeq
<1> QED  BY <1>1, <1>3, <1>4, <1>5, <1>6, <1>7 DEF p

-----------------------------------------------------------------------------
(* Pieces of the wire.                                                      *)

\* A piece cut in two: its first n bytes, and the others n bytes later.
LEMMA PieceCut ==
    ASSUME NEW W \in Seq(Byte), NEW s, NEW a, Piece(W, s, a), NEW n \in 0 .. Len(s)
    PROVE  /\ Piece(W, Prefix(s, n), a)
           /\ Len(Prefix(s, n)) = n
           /\ Piece(W, Drop(s, n), a + n)
           /\ Len(Drop(s, n)) = Len(s) - n
<1>1. s \in Seq(Byte) /\ a \in Nat /\ a + Len(s) <= Len(W) /\ Len(s) \in Nat /\ Len(W) \in Nat
  BY LenProperties DEF Piece
<1>2. \A k \in 1 .. Len(s) : s[k] = W[a + k]
  BY DEF Piece
<1> DEFINE p == Prefix(s, n)
           d == Drop(s, n)
<1>3. /\ p \in Seq(Byte) /\ d \in Seq(Byte)
      /\ Len(p) = n /\ Len(d) = Len(s) - n
      /\ \A k \in 1 .. n : p[k] = s[k]
      /\ \A k \in 1 .. Len(s) - n : d[k] = s[n + k]
  BY <1>1, Split DEF Prefix, Drop
<1> HIDE DEF p, d
<1>4. n \in Nat /\ n <= Len(s)
  BY <1>1
<1>5. \A k \in 1 .. n : p[k] = W[a + k]
  BY <1>1, <1>2, <1>3, <1>4, SMTT(40)
<1>6. ASSUME NEW k \in 1 .. Len(s) - n PROVE d[k] = W[(a + n) + k]
  <2>1. n + k \in 1 .. Len(s) /\ a + (n + k) = (a + n) + k
    BY <1>1, <1>4
  <2> QED  BY <1>2, <1>3, <2>1
<1>7. Piece(W, p, a)
  BY <1>1, <1>3, <1>4, <1>5 DEF Piece
<1>8. Piece(W, d, a + n)
  BY <1>1, <1>3, <1>4, <1>6 DEF Piece
<1> QED  BY <1>3, <1>7, <1>8 DEF p, d

\* Two pieces, one after the other.
LEMMA PieceCat ==
    ASSUME NEW W \in Seq(Byte), NEW s, NEW t, NEW a, NEW b, Piece(W, s, a), Piece(W, t, b),
           b = a + Len(s)
    PROVE  Piece(W, s \o t, a) /\ Len(s \o t) = Len(s) + Len(t)
<1>1. /\ s \in Seq(Byte) /\ t \in Seq(Byte) /\ a \in Nat /\ b \in Nat /\ b + Len(t) <= Len(W)
      /\ Len(W) \in Nat
  BY LenProperties DEF Piece
<1>2. \A k \in 1 .. Len(s) : s[k] = W[a + k]
  BY DEF Piece
<1>3. \A k \in 1 .. Len(t) : t[k] = W[b + k]
  BY DEF Piece
<1> DEFINE u == s \o t
<1>4. /\ u \in Seq(Byte) /\ Len(s) \in Nat /\ Len(t) \in Nat /\ Len(u) = Len(s) + Len(t)
      /\ \A k \in 1 .. Len(s) : u[k] = s[k]
      /\ \A k \in 1 .. Len(t) : u[Len(s) + k] = t[k]
  BY <1>1, Cat
<1> HIDE DEF u
<1>5. ASSUME NEW k \in 1 .. Len(u) PROVE u[k] = W[a + k]
  <2>1. CASE k <= Len(s)
    BY <1>2, <1>4, <2>1
  <2>2. CASE ~(k <= Len(s))
    <3>1. PICK j \in 1 .. Len(t) : k = Len(s) + j
      <4>1. k - Len(s) \in 1 .. Len(t) /\ k = Len(s) + (k - Len(s))
        BY <1>4, <2>2
      <4> QED  BY <4>1
    <3>2. u[k] = W[b + j]
      BY <1>3, <1>4, <3>1
    <3>3. b + j = a + k
      BY <1>1, <1>4, <3>1
    <3> QED  BY <3>2, <3>3
  <2> QED  BY <2>1, <2>2
<1>6. a + Len(u) <= Len(W)
  BY <1>1, <1>4
<1> QED  BY <1>1, <1>4, <1>5, <1>6 DEF u, Piece

\* The empty piece.
LEMMA PieceEmpty ==
    ASSUME NEW W \in Seq(Byte), NEW a \in Nat, a <= Len(W)
    PROVE  Piece(W, <<>>, a)
<1>1. <<>> \in Seq(Byte) /\ Len(<<>>) = 0
  BY EmptySeq
<1>2. Len(W) \in Nat
  BY LenProperties
<1> QED  BY <1>1, <1>2 DEF Piece

\* Nothing is dropped.
LEMMA DropNone ==
    ASSUME NEW S, NEW s \in Seq(S)
    PROVE  Drop(s, 0) = s /\ s \o <<>> = s
<1>1. Len(s) \in Nat
  BY LenProperties
<1>2. SubSeq(s, 1, Len(s)) = s
  BY SubSeqFull
<1> QED  BY <1>1, <1>2, ConcatEmptySeq DEF Drop

-----------------------------------------------------------------------------
(* Where frames begin and end.                                              *)

\* Where the frames end.
LEMMA WireEnds ==
    ASSUME FramesOK, NEW W, NEW E, IsWire(W, E)
    PROVE  /\ W \in Seq(Byte) /\ Len(W) \in Nat /\ N \in Nat
           /\ \A i \in 0 .. N : E[i] \in Nat
           /\ E[0] = 0 /\ E[N] = Len(W)
           /\ \A i \in 1 .. N : E[i] = E[i - 1] + FrameLen(frames[i])
BY LenProperties DEF IsWire, FramesOK

\* Frames end in order.
LEMMA WireMono ==
    ASSUME FramesOK, NEW W, NEW E, IsWire(W, E), NEW i \in 0 .. N, NEW j \in i .. N
    PROVE  E[i] <= E[j]
<1> DEFINE T == {n \in Nat : i + n <= N => E[i] <= E[i + n]}
<1>1. N \in Nat /\ \A k \in 0 .. N : E[k] \in Nat
  BY WireEnds
<1>2. 0 \in T
  BY <1>1
<1>3. ASSUME NEW n \in Nat, n \in T PROVE n + 1 \in T
  <2> SUFFICES ASSUME i + (n + 1) <= N PROVE E[i] <= E[i + (n + 1)]
    OBVIOUS
  <2>1. i + n \in 0 .. N /\ i + (n + 1) \in 1 .. N /\ (i + (n + 1)) - 1 = i + n /\ i + n <= N
    BY <1>1
  <2>2. E[i + (n + 1)] = E[i + n] + FrameLen(frames[i + (n + 1)])
    BY <2>1, WireEnds
  <2>3. FrameLen(frames[i + (n + 1)]) \in Nat
    BY <2>1, FrameAt
  <2>4. E[i] <= E[i + n]
    BY <1>3, <2>1
  <2> QED  BY <1>1, <2>1, <2>2, <2>3, <2>4
<1> HIDE DEF T
<1>4. Nat \subseteq T
  BY <1>2, <1>3, Induct
<1>5. j - i \in Nat /\ i + (j - i) = j /\ j <= N
  BY <1>1
<1>6. j - i \in T
  BY <1>4, <1>5
<1> QED  BY <1>5, <1>6 DEF T

\* A frame begins where the one before it ends, and each of its bytes says which it is.
LEMMA WireBytes ==
    ASSUME FramesOK, NEW W, NEW E, IsWire(W, E), NEW i \in 1 .. N
    PROVE  /\ i - 1 \in 0 .. N
           /\ E[i - 1] \in Nat /\ E[i] \in Nat
           /\ E[i] = E[i - 1] + FrameLen(frames[i])
           /\ E[i - 1] < E[i]
           /\ E[i] <= Len(W)
           /\ \A k \in 1 .. FrameLen(frames[i]) : W[E[i - 1] + k] = <<i, k>>
<1>1. N \in Nat /\ i - 1 \in 0 .. N
  BY WireEnds
<1>2. E[i - 1] \in Nat /\ E[i] \in Nat /\ E[i] = E[i - 1] + FrameLen(frames[i])
  BY <1>1, WireEnds
<1>3. FrameLen(frames[i]) \in Nat /\ FrameLen(frames[i]) >= 2
  BY FrameAt
<1>4. E[i] <= E[N] /\ E[N] = Len(W)
  <2>1. i \in 0 .. N /\ N \in i .. N
    BY <1>1
  <2> QED  BY <2>1, WireMono, WireEnds
<1>5. \A k \in 1 .. FrameLen(frames[i]) : W[E[i - 1] + k] = <<i, k>>
  BY DEF IsWire
<1> QED  BY <1>1, <1>2, <1>3, <1>4, <1>5

\* Every byte is one of a frame.
LEMMA WireCovers ==
    ASSUME FramesOK, NEW W, NEW E, IsWire(W, E), NEW o \in 1 .. Len(W)
    PROVE  \E i \in 1 .. N : \E k \in 1 .. FrameLen(frames[i]) : o = E[i - 1] + k
<1> DEFINE P(x) == \E i \in 1 .. N : \E k \in 1 .. FrameLen(frames[i]) : x = E[i - 1] + k
           T == {n \in Nat : n <= N => \A x \in 1 .. E[n] : P(x)}
<1>1. N \in Nat /\ E[0] = 0 /\ E[N] = Len(W) /\ \A k \in 0 .. N : E[k] \in Nat
  BY WireEnds
<1>2. 0 \in T
  BY <1>1
<1>3. ASSUME NEW n \in Nat, n \in T PROVE n + 1 \in T
  <2> SUFFICES ASSUME n + 1 <= N, NEW x \in 1 .. E[n + 1] PROVE P(x)
    OBVIOUS
  <2>1. n + 1 \in 1 .. N /\ n \in 0 .. N /\ (n + 1) - 1 = n
    BY <1>1
  <2>2. E[n + 1] = E[n] + FrameLen(frames[n + 1]) /\ E[n] \in Nat /\ E[n + 1] \in Nat
    BY <2>1, WireEnds
  <2>3. FrameLen(frames[n + 1]) \in Nat
    BY <2>1, FrameAt
  <2>4. CASE x <= E[n]
    <3>1. x \in 1 .. E[n]
      BY <2>2, <2>4
    <3> QED  BY <1>3, <2>1, <3>1
  <2>5. CASE ~(x <= E[n])
    <3>1. x - E[n] \in 1 .. FrameLen(frames[n + 1]) /\ x = E[n] + (x - E[n])
      BY <2>2, <2>3, <2>5
    <3> QED  BY <2>1, <3>1
  <2> QED  BY <2>4, <2>5
<1> HIDE DEF T
<1>4. N \in T
  BY <1>1, <1>2, <1>3, Induct
<1> QED  BY <1>1, <1>4 DEF T

\* What begins where a frame ends is empty at the end of the wire, or begins a frame.
LEMMA Starts ==
    ASSUME FramesOK, NEW W, NEW E, IsWire(W, E), NEW i \in 1 .. N + 1,
           NEW s, Piece(W, s, E[i - 1]), Len(s) > 0
    PROVE  i \in 1 .. N /\ s[1] = <<i, 1>> /\ s[1][1] = i /\ s[1][2] = 1 /\ At(s) = frames[i]
<1>1. N \in Nat /\ E[N] = Len(W) /\ Len(W) \in Nat
  BY WireEnds
<1>2. s \in Seq(Byte) /\ E[i - 1] + Len(s) <= Len(W) /\ E[i - 1] \in Nat /\ Len(s) \in Nat
      /\ \A k \in 1 .. Len(s) : s[k] = W[E[i - 1] + k]
  BY LenProperties DEF Piece
<1>3. i \in 1 .. N
  <2> SUFFICES ASSUME i = N + 1 PROVE FALSE
    BY <1>1
  <2>1. i - 1 = N
    BY <1>1
  <2> QED  BY <1>1, <1>2, <2>1
<1>4. W[E[i - 1] + 1] = <<i, 1>>
  <2>1. 1 \in 1 .. FrameLen(frames[i])
    BY <1>3, FrameAt
  <2> QED  BY <1>3, <2>1, WireBytes
<1>5. s[1] = <<i, 1>>
  BY <1>2, <1>4
<1> QED  BY <1>3, <1>5 DEF At

\* The frame that has not arrived completely.
LEMMA ArrivedIs ==
    ASSUME FramesOK, NEW W, NEW E, IsWire(W, E), NEW p, Piece(W, stream, p),
           p + Len(stream) = Len(W)
    PROVE  /\ Arrived \in 0 .. N
           /\ E[Arrived] <= p
           /\ Arrived # N => p < E[Arrived + 1]
<1>1. N \in Nat /\ E[N] = Len(W) /\ Len(W) \in Nat /\ E[0] = 0
  BY WireEnds
<1>2. stream \in Seq(Byte) /\ p \in Nat /\ Len(stream) \in Nat
      /\ \A k \in 1 .. Len(stream) : stream[k] = W[p + k]
  BY LenProperties DEF Piece
<1>3. CASE stream = <<>>
  <2>1. Arrived = N /\ Len(stream) = 0
    BY <1>3, EmptySeq DEF Arrived, N
  <2> QED  BY <1>1, <1>2, <2>1
<1>4. CASE stream # <<>>
  <2>1. Len(stream) > 0
    BY <1>2, <1>4, EmptySeq
  <2>2. p + 1 \in 1 .. Len(W) /\ stream[1] = W[p + 1]
    BY <1>1, <1>2, <2>1
  <2>0. PICK i \in 1 .. N : \E k \in 1 .. FrameLen(frames[i]) : p + 1 = E[i - 1] + k
    BY <2>2, WireCovers
  <2>3. PICK k \in 1 .. FrameLen(frames[i]) : p + 1 = E[i - 1] + k
    BY <2>0
  <2>4. stream[1] = <<i, k>>
    <3>1. \A x \in 1 .. FrameLen(frames[i]) : W[E[i - 1] + x] = <<i, x>>
      BY WireBytes
    <3> QED  BY <2>2, <2>3, <3>1
  <2>5. Arrived = i - 1
    BY <1>4, <2>4 DEF Arrived
  <2>6. E[i - 1] \in Nat /\ E[i] = E[i - 1] + FrameLen(frames[i]) /\ FrameLen(frames[i]) \in Nat
    BY WireBytes, FrameAt
  <2>7. E[i - 1] <= p /\ p < E[i]
    BY <1>2, <2>3, <2>6
  <2>8. i - 1 \in 0 .. N /\ (i - 1) + 1 = i
    BY <1>1
  <2> QED  BY <2>5, <2>7, <2>8
<1> QED  BY <1>3, <1>4

\* If p is in frame i or at its beginning, i - 1 frames have arrived.
LEMMA ArrivedBefore ==
    ASSUME FramesOK, NEW W, NEW E, IsWire(W, E), NEW p, Piece(W, stream, p),
           p + Len(stream) = Len(W), NEW i \in 1 .. N + 1, E[i - 1] <= p,
           i <= N => p < E[i]
    PROVE  Arrived = i - 1
<1>1. N \in Nat /\ p \in Nat /\ \A k \in 0 .. N : E[k] \in Nat
  BY WireEnds DEF Piece
<1> DEFINE r == Arrived
<1>2. r \in 0 .. N /\ E[r] <= p /\ (r # N => p < E[r + 1])
  BY ArrivedIs
<1> HIDE DEF r
<1>3. CASE r < i - 1
  <2>1. r + 1 \in 0 .. N /\ i - 1 \in (r + 1) .. N /\ r # N /\ i - 1 \in 0 .. N
    BY <1>1, <1>2, <1>3
  <2>2. E[r + 1] <= E[i - 1]
    BY <2>1, WireMono
  <2> QED  BY <1>1, <1>2, <2>1, <2>2
<1>4. CASE r > i - 1
  <2>1. i \in 0 .. N /\ r \in i .. N /\ i <= N
    BY <1>1, <1>2, <1>4
  <2>2. E[i] <= E[r]
    BY <2>1, WireMono
  <2> QED  BY <1>1, <1>2, <2>1, <2>2
<1> QED  BY <1>1, <1>2, <1>3, <1>4 DEF r

-----------------------------------------------------------------------------
(* What frames mean.                                                        *)

\* The fields of what is known.
LEMMA KnownFields ==
    ASSUME NEW m \in Known
    PROVE  /\ m.out \in Seq(MessageType) /\ m.pings \in Seq(Seq(Byte)) /\ m.op \in Data \cup {"None"}
           /\ m.acc \in Seq(Byte) /\ m.over \in BOOLEAN
           /\ m.op = "None" => m.acc = <<>>
BY DEF Known

\* What is known, put together from its fields.
LEMMA KnownOf ==
    ASSUME NEW o \in Seq(MessageType), NEW p \in Seq(Seq(Byte)), NEW q \in Data \cup {"None"},
           NEW c \in Seq(Byte), NEW v \in BOOLEAN, q = "None" => c = <<>>
    PROVE  [out |-> o, pings |-> p, op |-> q, acc |-> c, over |-> v] \in Known
BY DEF Known

\* Before the first frame nothing is known.
LEMMA UnreadKnown == Unread \in Known
<1> DEFINE e == <<>>
           no == FALSE
           q == "None"
<1>1. e \in Seq(MessageType) /\ e \in Seq(Seq(Byte)) /\ e \in Seq(Byte)
  BY EmptySeq
<1>2. no \in BOOLEAN /\ q \in Data \cup {"None"} /\ (q = "None" => e = <<>>)
  OBVIOUS
<1>3. Unread = [out |-> e, pings |-> e, op |-> q, acc |-> e, over |-> no]
  BY DEF Unread
<1> HIDE DEF e, no, q
<1> QED  BY <1>1, <1>2, <1>3, KnownOf

\* Nothing more is known after an error or a Close frame.
LEMMA ReadStops ==
    ASSUME NEW m \in Known, NEW i, m.over \/ Wrong(m, i) \/ frames[i].op = "Close"
    PROVE  /\ Read(m, i) \in Known
           /\ Read(m, i).over
           /\ Read(m, i).out = m.out
           /\ Read(m, i).pings = m.pings
<1>1. Read(m, i) = [m EXCEPT !.over = TRUE]
  BY DEF Read
<1> DEFINE yes == TRUE
<1>2. m \in [out : Seq(MessageType), pings : Seq(Seq(Byte)), op : Data \cup {"None"},
             acc : Seq(Byte), over : BOOLEAN] /\ (m.op = "None" => m.acc = <<>>)
  BY DEF Known
<1> QED  BY <1>1, <1>2 DEF Known

\* A Ping is one more to answer.
LEMMA ReadPing ==
    ASSUME FramesOK, NEW m \in Known, NEW i \in 1 .. N, ~m.over, ~Wrong(m, i),
           frames[i].op = "Ping"
    PROVE  /\ Read(m, i) \in Known
           /\ ~Read(m, i).over
           /\ Read(m, i).out = m.out
           /\ Read(m, i).pings = Append(m.pings, Payload(i))
           /\ Read(m, i).op = m.op
           /\ Read(m, i).acc = m.acc
<1>1. Read(m, i) = [m EXCEPT !.pings = Append(@, Payload(i))]
  BY DEF Read
<1>2. Payload(i) \in Seq(Byte)
  BY PayloadType
<1>3. /\ m \in [out : Seq(MessageType), pings : Seq(Seq(Byte)), op : Data \cup {"None"},
                acc : Seq(Byte), over : BOOLEAN]
      /\ m.op = "None" => m.acc = <<>>
      /\ m.pings \in Seq(Seq(Byte))
  BY DEF Known
<1>4. Append(m.pings, Payload(i)) \in Seq(Seq(Byte))
  BY <1>2, <1>3, AppendProperties
<1> QED  BY <1>1, <1>3, <1>4 DEF Known

\* A Pong and the response to the upgrade tell nothing.
LEMMA ReadNothing ==
    ASSUME NEW m, NEW i, ~m.over, ~Wrong(m, i), frames[i].op \in {"Pong", "Upgrade"}
    PROVE  Read(m, i) = m
BY DEF Read

\* The message that frame i belongs to.
LEMMA OpOfType ==
    ASSUME FramesOK, NEW m \in Known, NEW i \in 1 .. N, ~Wrong(m, i),
           frames[i].op \notin Control \cup {"Upgrade"}
    PROVE  OpOf(m, frames[i]) \in Data /\ m.acc \o Payload(i) \in Seq(Byte)
<1>1. frames[i].op \in Data \cup {"Cont"}
  BY FrameAt
<1>2. m.op \in Data \cup {"None"} /\ m.acc \in Seq(Byte)
  BY DEF Known
<1>3. frames[i].op = "Cont" => m.op # "None"
  BY DEF Wrong
<1>4. m.acc \o Payload(i) \in Seq(Byte)
  BY <1>2, PayloadType, Cat
<1> QED  BY <1>1, <1>2, <1>3, <1>4 DEF OpOf, Data

\* The last frame of a message.
LEMMA ReadLast ==
    ASSUME FramesOK, NEW m \in Known, NEW i \in 1 .. N, ~m.over, ~Wrong(m, i),
           frames[i].op \notin Control \cup {"Upgrade"}, frames[i].fin
    PROVE  /\ Read(m, i) \in Known
           /\ ~Read(m, i).over
           /\ Read(m, i).out = Append(m.out, Message(OpOf(m, frames[i]), m.acc \o Payload(i)))
           /\ Message(OpOf(m, frames[i]), m.acc \o Payload(i)) \in MessageType
           /\ Read(m, i).pings = m.pings
           /\ Read(m, i).op = "None"
           /\ Read(m, i).acc = <<>>
<1> DEFINE msg == Message(OpOf(m, frames[i]), m.acc \o Payload(i))
<1>1. Read(m, i) = [m EXCEPT !.out = Append(@, msg), !.op = "None", !.acc = <<>>]
  BY DEF Read, Control
<1>2. msg \in MessageType
  BY OpOfType DEF Message, MessageType
<1> HIDE DEF msg
<1>3. /\ m \in [out : Seq(MessageType), pings : Seq(Seq(Byte)), op : Data \cup {"None"},
                acc : Seq(Byte), over : BOOLEAN]
      /\ m.out \in Seq(MessageType)
  BY DEF Known
<1>4. Append(m.out, msg) \in Seq(MessageType)
  BY <1>2, <1>3, AppendProperties
<1>5. /\ Read(m, i).out = Append(m.out, msg) /\ Read(m, i).pings = m.pings
      /\ Read(m, i).op = "None" /\ Read(m, i).acc = <<>>
  BY <1>1, <1>3
<1>6. Read(m, i).over = m.over
  BY <1>1, <1>3
<1>7. Read(m, i) = [out |-> Append(m.out, msg), pings |-> m.pings, op |-> "None", acc |-> <<>>,
                    over |-> m.over]
  BY <1>1, <1>3
<1>8. Read(m, i) \in Known
  <2> DEFINE e == <<>>
             q == "None"
             v == m.over
             p == m.pings
             o == Append(m.out, msg)
  <2>1. /\ e \in Seq(Byte) /\ q \in Data \cup {"None"} /\ v \in BOOLEAN /\ p \in Seq(Seq(Byte))
        /\ (q = "None" => e = <<>>) /\ o \in Seq(MessageType)
    BY <1>3, <1>4, EmptySeq
  <2>2. Read(m, i) = [out |-> o, pings |-> p, op |-> q, acc |-> e, over |-> v]
    BY <1>7
  <2> HIDE DEF e, q, v, p, o
  <2> QED  BY <2>1, <2>2, KnownOf
<1> QED  BY <1>2, <1>5, <1>6, <1>8 DEF msg

\* Another frame of a message.
LEMMA ReadFragment ==
    ASSUME FramesOK, NEW m \in Known, NEW i \in 1 .. N, ~m.over, ~Wrong(m, i),
           frames[i].op \notin Control \cup {"Upgrade"}, ~frames[i].fin
    PROVE  /\ Read(m, i) \in Known
           /\ ~Read(m, i).over
           /\ Read(m, i).out = m.out
           /\ Read(m, i).pings = m.pings
           /\ Read(m, i).op = OpOf(m, frames[i])
           /\ Read(m, i).acc = m.acc \o Payload(i)
<1> DEFINE q == OpOf(m, frames[i])
           c == m.acc \o Payload(i)
           p == m.pings
           o == m.out
           v == m.over
<1>1. Read(m, i) = [m EXCEPT !.op = q, !.acc = c]
  BY DEF Read, Control
<1>2. q \in Data /\ c \in Seq(Byte)
  BY OpOfType
<1>3. q \in Data \cup {"None"} /\ (q = "None" => c = <<>>)
  BY <1>2 DEF Data
<1>4. m \in [out : Seq(MessageType), pings : Seq(Seq(Byte)), op : Data \cup {"None"},
             acc : Seq(Byte), over : BOOLEAN]
  BY DEF Known
<1> HIDE DEF q, c
<1>5. Read(m, i) = [out |-> o, pings |-> p, op |-> q, acc |-> c, over |-> v]
  BY <1>1, <1>4
<1>6. o \in Seq(MessageType) /\ p \in Seq(Seq(Byte)) /\ v \in BOOLEAN
  BY <1>4
<1>7. /\ Read(m, i).out = o /\ Read(m, i).pings = p
      /\ Read(m, i).op = q /\ Read(m, i).acc = c
  BY <1>5
<1>8. Read(m, i).over = v
  BY <1>5
<1>9. Read(m, i) \in Known
  <2> HIDE DEF o, p, v
  <2> QED  BY <1>2, <1>3, <1>5, <1>6, KnownOf
<1> QED  BY <1>7, <1>8, <1>9 DEF q, c

\* What a frame may change.
LEMMA ReadGrows ==
    ASSUME FramesOK, NEW m \in Known, NEW i \in 1 .. N
    PROVE  /\ Read(m, i) \in Known
           /\ \/ Read(m, i).out = m.out
              \/ \E x \in MessageType : Read(m, i).out = Append(m.out, x)
           /\ m.over => (Read(m, i).over /\ Read(m, i).out = m.out /\ Read(m, i).pings = m.pings)
<1>1. CASE m.over \/ Wrong(m, i) \/ frames[i].op = "Close"
  BY <1>1, ReadStops
<1>2. CASE ~(m.over \/ Wrong(m, i) \/ frames[i].op = "Close")
  <2>1. CASE frames[i].op = "Ping"
    BY <1>2, <2>1, ReadPing
  <2>2. CASE frames[i].op \in {"Pong", "Upgrade"}
    <3>1. Read(m, i) = m
      BY <1>2, <2>2, ReadNothing
    <3> QED  BY <1>2, <3>1
  <2>3. CASE frames[i].op \notin Control \cup {"Upgrade"}
    <3>1. frames[i].fin \in BOOLEAN
      BY FrameAt
    <3>2. CASE frames[i].fin
      BY <1>2, <2>3, <3>2, ReadLast
    <3>3. CASE ~frames[i].fin
      BY <1>2, <2>3, <3>3, ReadFragment
    <3> QED  BY <3>2, <3>3
  <2> QED  BY <1>2, <2>1, <2>2, <2>3 DEF Control
<1> QED  BY <1>1, <1>2

\* The recursive definition of Meaning has a solution.
LEMMA MeaningIs ==
    ASSUME FramesOK
    PROVE  IsMeaning(Meaning)
<1>1. N \in Nat /\ Len(frames) = N
  BY DEF FramesOK, N
<1> DEFINE step == [x \in Known \X Nat |-> IF x[2] \in 1 .. N THEN Read(x[1], x[2]) ELSE x[1]]
           body(f) == [i \in 0 .. Len(frames) |-> IF i = 0 THEN Unread ELSE Read(f[i - 1], i)]
<1>2. step \in [Known \X Nat -> Known]
  <2>1. \A m \in Known, i \in 1 .. N : Read(m, i) \in Known
    BY ReadGrows
  <2> QED  BY <2>1
<1>3. PICK f \in [0 .. N -> Known] :
         f[0] = Unread /\ \A i \in 1 .. N : f[i] = step[<<f[i - 1], i>>]
  <2> DEFINE u == Unread
             n == N
             K == Known
  <2>1. u \in K /\ n \in Nat /\ step \in [K \X Nat -> K]
    BY <1>1, <1>2, UnreadKnown
  <2> HIDE DEF step, u, n, K
  <2>2. \E f : Recursion(f, K, u, n, step)
    BY <2>1, RecursiveFunction
  <2> QED  BY <2>2 DEF u, n, K, Recursion
<1>4. ASSUME NEW i \in 1 .. N PROVE f[i] = Read(f[i - 1], i)
  <2>1. f[i - 1] \in Known /\ i \in Nat
    BY <1>1, <1>3
  <2>2. step[<<f[i - 1], i>>] = Read(f[i - 1], i)
    BY <2>1
  <2> QED  BY <1>3, <2>2
<1>5. f = body(f)
  <2>1. f = [i \in 0 .. Len(frames) |-> f[i]]
    BY <1>1, <1>3
  <2>2. ASSUME NEW i \in 0 .. Len(frames) PROVE f[i] = body(f)[i]
    <3>1. CASE i = 0
      BY <1>3, <3>1
    <3>2. CASE i # 0
      <4>1. i \in 1 .. N
        BY <1>1, <3>2
      <4> HIDE DEF step
      <4> QED  BY <1>4, <3>2, <4>1
    <3> QED  BY <3>1, <3>2
  <2> QED  BY <2>1, <2>2
<1> DEFINE c == CHOOSE g : g = body(g)
<1>6. c = body(c)
  <2> HIDE DEF body
  <2> QED  BY <1>5
<1>7. Meaning = c
  BY DEF Meaning
<1> HIDE DEF c
<1>8. c[0] = Unread
  <2>1. body(c)[0] = Unread
    BY <1>1
  <2> QED  BY <1>6, <2>1
<1>9. ASSUME NEW i \in 1 .. N PROVE c[i] = Read(c[i - 1], i)
  <2>1. body(c)[i] = Read(c[i - 1], i)
    BY <1>1
  <2> HIDE DEF body
  <2> QED  BY <1>6, <2>1
<1>10. c = [i \in 0 .. N |-> c[i]]
  <2>1. DOMAIN c = 0 .. N
    BY <1>1, <1>6
  <2> QED  BY <1>1, <1>6, <2>1
<1>11. \A i \in 0 .. N : c[i] \in Known
  <2> DEFINE T == {i \in Nat : i <= N => c[i] \in Known}
  <2>1. 0 \in T
    BY <1>8, UnreadKnown
  <2>2. ASSUME NEW n \in Nat, n \in T PROVE n + 1 \in T
    <3> SUFFICES ASSUME n + 1 <= N PROVE c[n + 1] \in Known
      OBVIOUS
    <3>1. c[n] \in Known /\ n + 1 \in 1 .. N /\ (n + 1) - 1 = n
      BY <1>1, <2>2
    <3>2. Read(c[n], n + 1) \in Known
      BY <3>1, ReadGrows
    <3> QED  BY <1>9, <3>1, <3>2
  <2> HIDE DEF T
  <2>3. Nat \subseteq T
    BY <2>1, <2>2, Induct
  <2> QED  BY <1>1, <2>3 DEF T
<1> QED  BY <1>7, <1>8, <1>9, <1>10, <1>11 DEF IsMeaning

\* It has no other.
LEMMA MeaningUnique ==
    ASSUME FramesOK, NEW M, IsMeaning(M), NEW i \in 0 .. N
    PROVE  Meaning[i] = M[i]
<1>1. N \in Nat
  BY DEF FramesOK, N
<1>2. IsMeaning(Meaning)
  BY MeaningIs
<1> DEFINE T == {n \in Nat : n <= N => Meaning[n] = M[n]}
<1>3. 0 \in T
  BY <1>2 DEF IsMeaning
<1>4. ASSUME NEW n \in Nat, n \in T PROVE n + 1 \in T
  <2> SUFFICES ASSUME n + 1 <= N PROVE Meaning[n + 1] = M[n + 1]
    OBVIOUS
  <2>1. n + 1 \in 1 .. N /\ (n + 1) - 1 = n /\ Meaning[n] = M[n]
    BY <1>1, <1>4
  <2>2. Meaning[n + 1] = Read(Meaning[n], n + 1) /\ M[n + 1] = Read(M[n], n + 1)
    BY <1>2, <2>1 DEF IsMeaning
  <2> QED  BY <2>1, <2>2
<1> HIDE DEF T
<1>5. i \in T
  BY <1>1, <1>3, <1>4, Induct
<1> QED  BY <1>1, <1>5 DEF T

\* What is known after each frame comes from what was known before it.
LEMMA MeaningSteps ==
    ASSUME FramesOK, NEW M, IsMeaning(M)
    PROVE  /\ \A i \in 0 .. N : M[i] \in Known
           /\ \A i \in 1 .. N : M[i - 1] \in Known /\ M[i] = Read(M[i - 1], i)
           /\ M[0] = Unread
<1>1. N \in Nat /\ \A i \in 1 .. N : i - 1 \in 0 .. N
  BY DEF FramesOK
<1> QED  BY <1>1 DEF IsMeaning

\* After an error or a Close frame, frame i, nothing more is known.
LEMMA Settles ==
    ASSUME FramesOK, NEW M, IsMeaning(M), NEW i \in 1 .. N,
           Wrong(M[i - 1], i) \/ frames[i].op = "Close"
    PROVE  i - 1 \in 0 .. N /\ Settled(M, i - 1)
<1>1. N \in Nat /\ i - 1 \in 0 .. N
  BY DEF FramesOK
<1> DEFINE j == i - 1
           T == {n \in Nat : (i + n <= N) =>
                    (M[i + n].over /\ M[i + n].out = M[j].out /\ M[i + n].pings = M[j].pings)}
<1>2. M[j] \in Known /\ M[i] = Read(M[j], i)
  BY <1>1, MeaningSteps
<1>3. M[i].over /\ M[i].out = M[j].out /\ M[i].pings = M[j].pings
  BY <1>2, ReadStops
<1>4. 0 \in T
  BY <1>3
<1>5. ASSUME NEW n \in Nat, n \in T PROVE n + 1 \in T
  <2> SUFFICES ASSUME i + (n + 1) <= N
               PROVE  /\ M[i + (n + 1)].over
                      /\ M[i + (n + 1)].out = M[j].out
                      /\ M[i + (n + 1)].pings = M[j].pings
    OBVIOUS
  <2>1. i + n \in 0 .. N /\ i + (n + 1) \in 1 .. N /\ (i + (n + 1)) - 1 = i + n /\ i + n <= N
    BY <1>1
  <2>2. M[i + n] \in Known /\ M[i + (n + 1)] = Read(M[i + n], i + (n + 1))
    BY <2>1, MeaningSteps
  <2>3. M[i + n].over /\ M[i + n].out = M[j].out /\ M[i + n].pings = M[j].pings
    BY <1>5, <2>1
  <2> HIDE DEF T, j
  <2>4. /\ Read(M[i + n], i + (n + 1)).over
        /\ Read(M[i + n], i + (n + 1)).out = M[i + n].out
        /\ Read(M[i + n], i + (n + 1)).pings = M[i + n].pings
    BY <2>2, <2>3, ReadStops
  <2> QED  BY <2>2, <2>3, <2>4
<1> HIDE DEF T
<1>6. Nat \subseteq T
  BY <1>4, <1>5, Induct
<1>7. ASSUME NEW k \in j .. N PROVE M[k].out = M[j].out /\ M[k].pings = M[j].pings
  <2>1. CASE k = j
    BY <2>1
  <2>2. CASE k # j
    <3>1. k - i \in Nat /\ i + (k - i) = k /\ k <= N
      BY <1>1, <2>2
    <3>2. k - i \in T
      BY <1>6, <3>1
    <3> QED  BY <3>1, <3>2 DEF T
  <2> QED  BY <2>1, <2>2
<1> QED  BY <1>1, <1>7 DEF Settled

\* Messages are only added.
LEMMA OutGrows ==
    ASSUME FramesOK, NEW M, IsMeaning(M), NEW i \in 0 .. N
    PROVE  \E t \in Seq(MessageType) : M[N].out = M[i].out \o t
<1>1. N \in Nat
  BY DEF FramesOK
<1> DEFINE T == {n \in Nat : i + n <= N =>
                    \E t \in Seq(MessageType) : M[i + n].out = M[i].out \o t}
<1>2. M[i].out \in Seq(MessageType)
  BY MeaningSteps, KnownFields
<1>3. 0 \in T
  <2>1. M[i].out = M[i].out \o <<>> /\ <<>> \in Seq(MessageType) /\ i + 0 = i
    BY <1>2, ConcatEmptySeq, EmptySeq
  <2> QED  BY <2>1
<1>4. ASSUME NEW n \in Nat, n \in T PROVE n + 1 \in T
  <2> SUFFICES ASSUME i + (n + 1) <= N
               PROVE  \E t \in Seq(MessageType) : M[i + (n + 1)].out = M[i].out \o t
    OBVIOUS
  <2>1. i + n \in 0 .. N /\ i + (n + 1) \in 1 .. N /\ (i + (n + 1)) - 1 = i + n /\ i + n <= N
    BY <1>1
  <2>2. PICK t \in Seq(MessageType) : M[i + n].out = M[i].out \o t
    BY <1>4, <2>1
  <2>3. M[i + n] \in Known /\ M[i + (n + 1)] = Read(M[i + n], i + (n + 1))
    BY <2>1, MeaningSteps
  <2>4. \/ M[i + (n + 1)].out = M[i + n].out
        \/ \E x \in MessageType : M[i + (n + 1)].out = Append(M[i + n].out, x)
    <3>1. PICK m \in Known, k \in 1 .. N : m = M[i + n] /\ k = i + (n + 1)
      BY <2>1, <2>3
    <3>2. \/ Read(m, k).out = m.out
          \/ \E x \in MessageType : Read(m, k).out = Append(m.out, x)
      BY ReadGrows
    <3> QED  BY <2>3, <3>1, <3>2
  <2>5. CASE M[i + (n + 1)].out = M[i + n].out
    BY <2>2, <2>5
  <2>6. ASSUME NEW x \in MessageType, M[i + (n + 1)].out = Append(M[i + n].out, x)
        PROVE  M[i + (n + 1)].out = M[i].out \o Append(t, x) /\ Append(t, x) \in Seq(MessageType)
    <3> DEFINE s == M[i].out
               u == <<x>>
    <3>1. s \in Seq(MessageType) /\ u \in Seq(MessageType) /\ s \o t \in Seq(MessageType)
      BY <1>2, Cat
    <3>2. Append(s \o t, x) = (s \o t) \o u /\ Append(t, x) = t \o u
      BY <3>1, AppendIsConcat
    <3>3. M[i + (n + 1)].out = Append(s \o t, x)
      BY <2>2, <2>6
    <3>4. Append(t, x) \in Seq(MessageType)
      BY AppendProperties
    <3> HIDE DEF s, u
    <3>5. (s \o t) \o u = s \o (t \o u)
      BY <3>1, Assoc
    <3>6. M[i + (n + 1)].out = s \o Append(t, x)
      BY <3>2, <3>3, <3>5
    <3> QED  BY <3>4, <3>6 DEF s
  <2> QED  BY <2>4, <2>5, <2>6
<1> HIDE DEF T
<1>5. Nat \subseteq T
  BY <1>3, <1>4, Induct
<1>6. N - i \in Nat /\ i + (N - i) = N
  BY <1>1
<1>7. N - i \in T
  BY <1>5, <1>6
<1> QED  BY <1>1, <1>6, <1>7 DEF T

-----------------------------------------------------------------------------
(* Frames written.                                                          *)

WrittenType == [op : {"Sent", "Pong", "Close"}, payload : Seq(Byte)]

\* A frame written by the client.
LEMMA WrittenIs ==
    ASSUME NEW op \in {"Sent", "Pong", "Close"}, NEW p \in Seq(Byte)
    PROVE  /\ Written(op, p) \in WrittenType
           /\ Written(op, p).op = op
           /\ Written(op, p).payload = p
BY DEF Written, WrittenType

\* A frame that is no Pong answers nothing.
LEMMA AnswersKept ==
    ASSUME NEW tx \in Seq(WrittenType), NEW w \in WrittenType, w.op # "Pong",
           NEW pings \in Seq(Seq(Byte)), AnswersIn(tx, pings)
    PROVE  AnswersIn(Append(tx, w), pings)
<1> DEFINE ty == Append(tx, w)
           pongs == {k \in 1 .. Len(tx) : tx[k].op = "Pong"}
           qongs == {k \in 1 .. Len(ty) : ty[k].op = "Pong"}
<1>1. Len(tx) \in Nat /\ Len(ty) = Len(tx) + 1 /\ ty[Len(tx) + 1] = w
      /\ \A k \in 1 .. Len(tx) : ty[k] = tx[k]
  BY LenProperties, AppendProperties
<1>2. PICK at \in [1 .. Len(pings) -> pongs] :
         /\ \A k \in pongs : \E j \in 1 .. Len(pings) : at[j] = k
         /\ \A j, k \in 1 .. Len(pings) : j < k => at[j] < at[k]
         /\ \A k \in 1 .. Len(pings) : tx[at[k]].payload = pings[k]
  BY DEF AnswersIn
<1> HIDE DEF ty
<1>3. qongs = pongs
  <2>1. ASSUME NEW k \in qongs PROVE k \in pongs
    BY <1>1
  <2>2. ASSUME NEW k \in pongs PROVE k \in qongs
    BY <1>1
  <2> QED  BY <2>1, <2>2
<1>4. \A k \in 1 .. Len(pings) : ty[at[k]].payload = pings[k]
  <2>1. \A k \in 1 .. Len(pings) : at[k] \in 1 .. Len(tx)
    BY <1>2
  <2> QED  BY <1>1, <1>2, <2>1
<1>5. AnswersIn(ty, pings)
  <2> HIDE DEF pongs
  <2>1. qongs = {k \in 1 .. Len(ty) : ty[k].op = "Pong"}
    OBVIOUS
  <2> HIDE DEF qongs
  <2> QED  BY <1>2, <1>3, <1>4, <2>1 DEF AnswersIn
<1> QED  BY <1>5 DEF ty

\* A Pong answers the next Ping.
LEMMA AnswersNext ==
    ASSUME NEW tx \in Seq(WrittenType), NEW w \in WrittenType, w.op = "Pong",
           NEW pings \in Seq(Seq(Byte)), AnswersIn(tx, pings)
    PROVE  AnswersIn(Append(tx, w), Append(pings, w.payload))
<1> DEFINE ty == Append(tx, w)
           p == w.payload
           qings == Append(pings, p)
           n == Len(pings)
           l == Len(tx)
           pongs == {k \in 1 .. l : tx[k].op = "Pong"}
           qongs == {k \in 1 .. Len(ty) : ty[k].op = "Pong"}
<1>1. /\ l \in Nat /\ Len(ty) = l + 1 /\ ty[l + 1] = w
      /\ \A k \in 1 .. l : ty[k] = tx[k]
  BY LenProperties, AppendProperties
<1>2. p \in Seq(Byte)
  BY DEF WrittenType
<1>3. /\ n \in Nat /\ Len(qings) = n + 1 /\ qings[n + 1] = p
      /\ \A k \in 1 .. n : qings[k] = pings[k]
  BY <1>2, LenProperties, AppendProperties
<1>4. PICK at \in [1 .. n -> pongs] :
         /\ \A k \in pongs : \E j \in 1 .. n : at[j] = k
         /\ \A j, k \in 1 .. n : j < k => at[j] < at[k]
         /\ \A k \in 1 .. n : tx[at[k]].payload = pings[k]
  BY DEF AnswersIn
<1> HIDE DEF ty, qings, n, l
<1>5. ASSUME NEW k \in 1 .. l + 1 PROVE k \in qongs <=> (k \in pongs \/ k = l + 1)
  <2>1. k \in 1 .. Len(ty)
    BY <1>1
  <2>2. CASE k = l + 1
    BY <1>1, <2>1, <2>2
  <2>3. CASE k # l + 1
    <3>1. k \in 1 .. l
      BY <1>1, <2>3
    <3> QED  BY <1>1, <2>1, <2>3, <3>1
  <2> QED  BY <2>2, <2>3
<1>6. \A k \in pongs : k \in 1 .. l
  OBVIOUS
<1>7. \A k \in qongs : k \in 1 .. l + 1
  BY <1>1
<1>8. qongs = {k \in 1 .. Len(ty) : ty[k].op = "Pong"}
  OBVIOUS
<1> HIDE DEF pongs, qongs
<1> DEFINE au == [k \in 1 .. n + 1 |-> IF k = n + 1 THEN l + 1 ELSE at[k]]
<1>9. \A k \in 1 .. n : at[k] \in pongs /\ at[k] \in 1 .. l
  BY <1>4, <1>6
<1>10. l + 1 \in 1 .. l + 1 /\ \A k \in 1 .. l : k \in 1 .. l + 1
  BY <1>1
<1>11. \A k \in 1 .. n + 1 : k = n + 1 \/ k \in 1 .. n
  BY <1>3
<1>12. au \in [1 .. n + 1 -> qongs]
  <2> SUFFICES ASSUME NEW k \in 1 .. n + 1 PROVE au[k] \in qongs
    OBVIOUS
  <2>1. CASE k = n + 1
    BY <1>5, <1>10, <2>1
  <2>2. CASE k # n + 1
    <3>1. k \in 1 .. n
      BY <1>11, <2>2
    <3> QED  BY <1>5, <1>9, <1>10, <2>2, <3>1
  <2> QED  BY <2>1, <2>2
<1>13. /\ au[n + 1] = l + 1 /\ n + 1 \in 1 .. n + 1
       /\ \A k \in 1 .. n : au[k] = at[k] /\ k \in 1 .. n + 1
  BY <1>3
<1> HIDE DEF au
<1>14. ASSUME NEW k \in qongs PROVE \E j \in 1 .. n + 1 : au[j] = k
  <2>1. CASE k = l + 1
    BY <1>13, <2>1
  <2>2. CASE k # l + 1
    <3>1. k \in pongs
      BY <1>5, <1>7, <2>2
    <3>2. PICK j \in 1 .. n : at[j] = k
      BY <1>4, <3>1
    <3> QED  BY <1>13, <3>2
  <2> QED  BY <2>1, <2>2
<1>15. ASSUME NEW j \in 1 .. n + 1, NEW k \in 1 .. n + 1, j < k PROVE au[j] < au[k]
  <2>1. j \in 1 .. n
    BY <1>3, <1>15
  <2>2. CASE k = n + 1
    BY <1>1, <1>9, <1>13, <2>1, <2>2
  <2>3. CASE k # n + 1
    <3>1. k \in 1 .. n
      BY <1>11, <2>3
    <3> QED  BY <1>4, <1>13, <1>15, <2>1, <3>1
  <2> QED  BY <2>2, <2>3
<1>16. ASSUME NEW k \in 1 .. n + 1 PROVE ty[au[k]].payload = qings[k]
  <2>1. CASE k = n + 1
    BY <1>1, <1>3, <1>13, <2>1
  <2>2. CASE k # n + 1
    <3>1. k \in 1 .. n
      BY <1>11, <2>2
    <3>2. au[k] = at[k] /\ at[k] \in 1 .. l /\ qings[k] = pings[k]
      BY <1>3, <1>9, <1>13, <3>1
    <3>3. ty[at[k]] = tx[at[k]]
      BY <1>1, <3>2
    <3> QED  BY <1>4, <3>1, <3>2, <3>3
  <2> QED  BY <2>1, <2>2
<1>17. AnswersIn(ty, qings)
  <2>1. Len(qings) = n + 1
    BY <1>3
  <2>2. /\ au \in [1 .. Len(qings) -> qongs]
        /\ \A k \in qongs : \E j \in 1 .. Len(qings) : au[j] = k
        /\ \A j, k \in 1 .. Len(qings) : j < k => au[j] < au[k]
        /\ \A k \in 1 .. Len(qings) : ty[au[k]].payload = qings[k]
    BY <1>12, <1>14, <1>15, <1>16, <2>1
  <2> QED  BY <1>8, <2>2 DEF AnswersIn
<1> QED  BY <1>17 DEF ty, qings

\* A frame that is no Close, written while no Close was, or a Pong.
LEMMA CloseKept ==
    ASSUME NEW tx \in Seq(WrittenType), NEW st, NEW bad, NEW w \in WrittenType, w.op # "Close",
           CloseOK(tx, st, bad), st = "Open" \/ w.op = "Pong"
    PROVE  CloseOK(Append(tx, w), st, bad)
<1> DEFINE ty == Append(tx, w)
           c == {k \in 1 .. Len(tx) : tx[k].op = "Close"}
           d == {k \in 1 .. Len(ty) : ty[k].op = "Close"}
<1>1. Len(tx) \in Nat /\ Len(ty) = Len(tx) + 1 /\ ty[Len(tx) + 1] = w
      /\ \A k \in 1 .. Len(tx) : ty[k] = tx[k]
  BY LenProperties, AppendProperties
<1>2. /\ \A j, k \in c : j = k
      /\ st \in {"Connecting", "Open"} => c = {}
      /\ st = "Closing" \/ (st = "Closed" /\ ~bad) => c # {}
      /\ \A j \in c, k \in 1 .. Len(tx) : j < k => tx[k].op = "Pong"
  BY DEF CloseOK
<1> HIDE DEF ty
<1>3. d = c
  <2>1. ASSUME NEW k \in d PROVE k \in c
    BY <1>1
  <2>2. ASSUME NEW k \in c PROVE k \in d
    BY <1>1
  <2> QED  BY <2>1, <2>2
<1>4. ASSUME NEW j \in c, NEW k \in 1 .. Len(ty), j < k PROVE ty[k].op = "Pong"
  <2>1. CASE k \in 1 .. Len(tx)
    BY <1>1, <1>2, <1>4, <2>1
  <2>2. CASE k \notin 1 .. Len(tx)
    <3>1. k = Len(tx) + 1
      BY <1>1, <2>2
    <3>2. st # "Open"
      BY <1>2
    <3> QED  BY <1>1, <3>1, <3>2
  <2> QED  BY <2>1, <2>2
<1>5. CloseOK(ty, st, bad)
  <2>1. d = {k \in 1 .. Len(ty) : ty[k].op = "Close"}
    OBVIOUS
  <2> HIDE DEF c, d
  <2> QED  BY <1>2, <1>3, <1>4, <2>1 DEF CloseOK
<1> QED  BY <1>5 DEF ty

\* The first Close: an open connection begins to close.
LEMMA CloseFirst ==
    ASSUME NEW tx \in Seq(WrittenType), NEW bad, NEW w \in WrittenType, w.op = "Close",
           CloseOK(tx, "Open", bad), NEW st \in {"Closing", "Closed"}
    PROVE  CloseOK(Append(tx, w), st, bad)
<1> DEFINE ty == Append(tx, w)
           d == {k \in 1 .. Len(ty) : ty[k].op = "Close"}
<1>1. Len(tx) \in Nat /\ Len(ty) = Len(tx) + 1 /\ ty[Len(tx) + 1] = w
      /\ \A k \in 1 .. Len(tx) : ty[k] = tx[k]
  BY LenProperties, AppendProperties
<1>2. \A k \in 1 .. Len(tx) : tx[k].op # "Close"
  BY DEF CloseOK
<1> HIDE DEF ty
<1>3. d = {Len(tx) + 1}
  <2>1. ASSUME NEW k \in d PROVE k = Len(tx) + 1
    BY <1>1, <1>2
  <2>2. Len(tx) + 1 \in d
    BY <1>1
  <2> QED  BY <2>1, <2>2
<1>4. \A k \in 1 .. Len(ty) : ~(Len(tx) + 1 < k)
  BY <1>1
<1>5. CloseOK(ty, st, bad)
  <2>1. d = {k \in 1 .. Len(ty) : ty[k].op = "Close"}
    OBVIOUS
  <2> HIDE DEF d
  <2> QED  BY <1>3, <1>4, <2>1 DEF CloseOK
<1> QED  BY <1>5 DEF ty

\* The connection that is closing is closed; one that was refused is closed.
LEMMA CloseState ==
    ASSUME NEW tx, NEW bad, NEW st, CloseOK(tx, st, bad),
           st = "Closing" \/ (st = "Connecting" /\ bad)
    PROVE  CloseOK(tx, "Closed", bad)
BY DEF CloseOK

\* The upgrade.
LEMMA CloseUpgrade ==
    ASSUME NEW tx, NEW bad, CloseOK(tx, "Connecting", bad)
    PROVE  CloseOK(tx, "Open", bad)
BY DEF CloseOK

-----------------------------------------------------------------------------
(* What no step changes.                                                    *)

\* The wire and the meaning depend on the frames only, which do not change.
LEMMA SameFrames ==
    ASSUME frames' = frames, FramesOK, NEW W, NEW E, NEW M, IsWire(W, E), IsMeaning(M)
    PROVE  N' = N /\ FramesOK' /\ IsWire(W, E)' /\ IsMeaning(M)'
<1>1. N' = N
  BY DEF N
<1>2. FramesOK'
  BY <1>1 DEF FramesOK
<1>3. IsWire(W, E)'
  BY <1>1 DEF IsWire
<1>4. IsMeaning(M)'
  <2>1. ASSUME NEW m, NEW i PROVE Read(m, i)' = Read(m, i)
    BY Zenon DEF Read, Wrong, Payload, Invalid
  <2>2. \A i \in 1 .. N : Read(M[i - 1], i)' = Read(M[i - 1], i)
    BY <2>1
  <2> QED  BY <1>1, <2>2 DEF IsMeaning
<1> QED  BY <1>1, <1>2, <1>3, <1>4

\* So do the payloads.
LEMMA SamePart ==
    ASSUME frames' = frames, NEW i, NEW n
    PROVE  Part(i, n)' = Part(i, n) /\ Payload(i)' = Payload(i)
<1>1. Payload(i)' = Payload(i)
  BY DEF Payload
<1> QED  BY <1>1 DEF Part

-----------------------------------------------------------------------------
(* The initial state.                                                       *)

\* The bytes of frame i.
FrameBytes(i) == [k \in 1 .. FrameLen(frames[i]) |-> <<i, k>>]

\* The bytes of a frame.
LEMMA FrameBytesType ==
    ASSUME FramesOK, NEW i \in 1 .. N
    PROVE  /\ FrameBytes(i) \in Seq(Byte)
           /\ Len(FrameBytes(i)) = FrameLen(frames[i])
           /\ \A k \in 1 .. FrameLen(frames[i]) : FrameBytes(i)[k] = <<i, k>>
<1> DEFINE n == FrameLen(frames[i])
           p == [k \in 1 .. n |-> <<i, k>>]
<1>1. n \in Nat /\ i \in Nat
  BY FrameAt DEF FramesOK
<1>2. FrameBytes(i) = p
  BY DEF FrameBytes
<1> HIDE DEF n
<1>3. \A k \in 1 .. n : <<i, k>> \in Byte
  BY <1>1, ByteType
<1>4. p \in Seq(Byte)
  BY <1>1, <1>3, IsASeq
<1>5. Len(p) = n
  BY <1>1, <1>4
<1> QED  BY <1>2, <1>4, <1>5 DEF n

\* v[i] are the bytes of the first i frames.
Gathers(v) ==
    /\ v \in [0 .. N -> Seq(Byte)]
    /\ v[0] = <<>>
    /\ \A i \in 1 .. N : v[i] = v[i - 1] \o FrameBytes(i)

\* The recursive definition of the stream has a solution.
LEMMA StreamGathers ==
    ASSUME FramesOK, Init
    PROVE  \E v : Gathers(v) /\ stream = v[N]
<1>1. N \in Nat /\ Len(frames) = N
  BY DEF FramesOK, N
<1> DEFINE B == Seq(Byte)
           step == [x \in B \X Nat |-> IF x[2] \in 1 .. N THEN x[1] \o FrameBytes(x[2]) ELSE x[1]]
           body(f) == [i \in 0 .. Len(frames) |->
                         IF i = 0 THEN <<>>
                         ELSE f[i - 1] \o [k \in 1 .. FrameLen(frames[i]) |-> <<i, k>>]]
           cody(f) == [i \in 0 .. N |-> IF i = 0 THEN <<>> ELSE f[i - 1] \o FrameBytes(i)]
           c == CHOOSE g : g = body(g)
<1>2. stream = c[Len(frames)]
  BY Zenon DEF Init
<1>3. \A g : body(g) = cody(g)
  BY <1>1 DEF FrameBytes
<1> HIDE DEF body
<1>4. \A b \in B, i \in 1 .. N : b \o FrameBytes(i) \in B
  BY FrameBytesType, Cat
<1>5. step \in [B \X Nat -> B]
  BY <1>4
<1>6. <<>> \in B
  BY EmptySeq
<1>7. PICK f \in [0 .. N -> B] :
         f[0] = <<>> /\ \A i \in 1 .. N : f[i] = step[<<f[i - 1], i>>]
  <2> DEFINE e == <<>>
             n == N
  <2>1. e \in B /\ n \in Nat
    BY <1>1, <1>6
  <2> HIDE DEF step, B, e, n
  <2>2. \E f : Recursion(f, B, e, n, step)
    BY <1>5, <2>1, RecursiveFunction
  <2> QED  BY <2>2 DEF e, n, Recursion
<1>8. ASSUME NEW i \in 1 .. N PROVE f[i] = f[i - 1] \o FrameBytes(i)
  <2>1. f[i - 1] \in B /\ i \in Nat
    BY <1>1, <1>7
  <2>2. step[<<f[i - 1], i>>] = f[i - 1] \o FrameBytes(i)
    BY <2>1
  <2> QED  BY <1>7, <2>2
<1>9. f = cody(f)
  <2>1. f = [i \in 0 .. N |-> f[i]]
    BY <1>7
  <2>2. ASSUME NEW i \in 0 .. N PROVE f[i] = cody(f)[i]
    <3>1. CASE i = 0
      BY <1>7, <3>1
    <3>2. CASE i # 0
      <4>1. i \in 1 .. N
        BY <1>1, <3>2
      <4> HIDE DEF step
      <4> QED  BY <1>8, <3>2, <4>1
    <3> QED  BY <3>1, <3>2
  <2> QED  BY <2>1, <2>2
<1>10. c = cody(c)
  <2> HIDE DEF cody
  <2>1. f = body(f)
    BY <1>3, <1>9
  <2>2. c = body(c)
    BY <2>1
  <2> HIDE DEF c
  <2> QED  BY <1>3, <2>2
<1> HIDE DEF c
<1>11. c[0] = <<>>
  <2>1. cody(c)[0] = <<>>
    BY <1>1
  <2> QED  BY <1>10, <2>1
<1>12. ASSUME NEW i \in 1 .. N PROVE c[i] = c[i - 1] \o FrameBytes(i)
  <2>1. cody(c)[i] = c[i - 1] \o FrameBytes(i)
    BY <1>1
  <2> HIDE DEF cody
  <2> QED  BY <1>10, <2>1
<1>13. c = [i \in 0 .. N |-> c[i]]
  <2>1. DOMAIN c = 0 .. N
    BY <1>10
  <2> QED  BY <1>10, <2>1
<1>14. \A i \in 0 .. N : c[i] \in B
  <2> DEFINE T == {i \in Nat : i <= N => c[i] \in B}
  <2>1. 0 \in T
    BY <1>6, <1>11
  <2>2. ASSUME NEW n \in Nat, n \in T PROVE n + 1 \in T
    <3> SUFFICES ASSUME n + 1 <= N PROVE c[n + 1] \in B
      OBVIOUS
    <3>1. c[n] \in B /\ n + 1 \in 1 .. N /\ (n + 1) - 1 = n
      BY <1>1, <2>2
    <3>2. c[n] \o FrameBytes(n + 1) \in B
      BY <1>4, <3>1
    <3> QED  BY <1>12, <3>1, <3>2
  <2> HIDE DEF T
  <2>3. Nat \subseteq T
    BY <2>1, <2>2, Induct
  <2> QED  BY <1>1, <2>3 DEF T
<1>15. Gathers(c)
  BY <1>11, <1>12, <1>13, <1>14 DEF Gathers
<1> QED  BY <1>1, <1>2, <1>15

\* The first bytes gathered stay where they are.
LEMMA GathersPrefix ==
    ASSUME FramesOK, NEW v, Gathers(v), NEW i \in 0 .. N, NEW j \in i .. N
    PROVE  /\ Len(v[i]) <= Len(v[j])
           /\ \A k \in 1 .. Len(v[i]) : v[j][k] = v[i][k]
<1>1. N \in Nat /\ \A x \in 0 .. N : v[x] \in Seq(Byte) /\ Len(v[x]) \in Nat
  BY LenProperties DEF FramesOK, Gathers
<1> DEFINE P(j0) == Len(v[i]) <= Len(v[j0]) /\ \A k \in 1 .. Len(v[i]) : v[j0][k] = v[i][k]
           T == {n \in Nat : i + n <= N => P(i + n)}
<1>2. 0 \in T
  BY <1>1
<1>3. ASSUME NEW n \in Nat, n \in T PROVE n + 1 \in T
  <2> SUFFICES ASSUME i + (n + 1) <= N PROVE P(i + (n + 1))
    OBVIOUS
  <2> DEFINE x == i + n
             y == i + (n + 1)
             t == FrameBytes(y)
  <2>1. x \in 0 .. N /\ y \in 1 .. N /\ y - 1 = x /\ x <= N
    BY <1>1
  <2>2. P(x)
    BY <1>3, <2>1
  <2>3. t \in Seq(Byte)
    BY <2>1, FrameBytesType
  <2>4. v[y] = v[x] \o t
    BY <2>1 DEF Gathers
  <2> HIDE DEF x, y, t
  <2>5. v[x] \in Seq(Byte) /\ Len(v[x]) \in Nat /\ Len(v[i]) \in Nat
    BY <1>1, <2>1
  <2>6. /\ Len(t) \in Nat /\ Len(v[x] \o t) = Len(v[x]) + Len(t)
        /\ \A k \in 1 .. Len(v[x]) : (v[x] \o t)[k] = v[x][k]
    BY <2>3, <2>5, Cat
  <2>7. P(y)
    BY <2>2, <2>4, <2>5, <2>6
  <2> QED  BY <2>7 DEF y
<1> HIDE DEF T
<1>4. Nat \subseteq T
  BY <1>2, <1>3, Induct
<1>5. j - i \in Nat /\ i + (j - i) = j /\ j <= N
  BY <1>1
<1>6. j - i \in T
  BY <1>4, <1>5
<1> QED  BY <1>5, <1>6 DEF T

\* They are the wire.
LEMMA GathersWire ==
    ASSUME FramesOK, NEW v, Gathers(v)
    PROVE  IsWire(v[N], [i \in 0 .. N |-> Len(v[i])])
<1> DEFINE E == [i \in 0 .. N |-> Len(v[i])]
           W == v[N]
<1>1. N \in Nat /\ \A x \in 0 .. N : v[x] \in Seq(Byte) /\ Len(v[x]) \in Nat
  BY LenProperties DEF FramesOK, Gathers
<1>2. W \in Seq(Byte) /\ E \in [0 .. N -> Nat] /\ E[N] = Len(W)
  BY <1>1
<1>3. E[0] = 0
  BY <1>1, EmptySeq DEF Gathers
<1>4. ASSUME NEW i \in 1 .. N
      PROVE  /\ E[i] = E[i - 1] + FrameLen(frames[i])
             /\ \A k \in 1 .. FrameLen(frames[i]) : W[E[i - 1] + k] = <<i, k>>
  <2> DEFINE s == v[i - 1]
             t == FrameBytes(i)
             n == FrameLen(frames[i])
  <2>1. i - 1 \in 0 .. N /\ i \in 0 .. N /\ N \in i .. N
    BY <1>1
  <2>2. s \in Seq(Byte) /\ Len(s) \in Nat
    BY <1>1, <2>1
  <2>3. t \in Seq(Byte) /\ Len(t) = n /\ n \in Nat /\ \A k \in 1 .. n : t[k] = <<i, k>>
    BY FrameBytesType, FrameAt
  <2>4. v[i] = s \o t
    BY DEF Gathers
  <2>5. E[i] = Len(v[i]) /\ E[i - 1] = Len(s)
    BY <2>1
  <2>6. \A k \in 1 .. Len(v[i]) : W[k] = v[i][k]
    BY <2>1, GathersPrefix
  <2> HIDE DEF s, t, n, E, W
  <2>7. /\ Len(s \o t) = Len(s) + Len(t)
        /\ \A k \in 1 .. Len(t) : (s \o t)[Len(s) + k] = t[k]
    BY <2>2, <2>3, Cat
  <2>8. E[i] = E[i - 1] + n
    BY <2>3, <2>4, <2>5, <2>7
  <2>9. ASSUME NEW k \in 1 .. n PROVE W[E[i - 1] + k] = <<i, k>>
    <3>1. Len(s) + k \in 1 .. Len(v[i]) /\ k \in 1 .. Len(t)
      BY <2>2, <2>3, <2>4, <2>7
    <3>2. W[Len(s) + k] = (s \o t)[Len(s) + k]
      BY <2>4, <2>6, <3>1
    <3> QED  BY <2>3, <2>5, <2>7, <3>1, <3>2
  <2> QED  BY <2>8, <2>9 DEF n
<1> HIDE DEF E, W
<1>5. IsWire(W, E)
  BY <1>2, <1>3, <1>4 DEF IsWire
<1> QED  BY <1>5 DEF E, W

\* The frames of the initial state.
LEMMA InitFrames == Init => FramesOK
<1> SUFFICES ASSUME Init PROVE FramesOK
  OBVIOUS
<1>1. PICK u \in Upgrades, rest \in Scripts : frames = <<u>> \o rest
  BY DEF Init
<1> DEFINE F == Frame \cup Upgrades
           s == <<u>>
<1>2. rest \in Seq(Frame)
  BY Bounds
<1>3. s \in Seq(F) /\ Len(s) = 1 /\ s[1] = u
  OBVIOUS
<1>4. rest \in Seq(F)
  <2>1. Len(rest) \in Nat /\ \A k \in 1 .. Len(rest) : rest[k] \in Frame
    BY <1>2, ElementOfSeq, LenProperties
  <2>2. rest = [k \in 1 .. Len(rest) |-> rest[k]]
    BY <1>2
  <2> QED  BY <2>1, <2>2, IsASeq
<1> HIDE DEF s, F
<1>5. /\ s \o rest \in Seq(F) /\ Len(rest) \in Nat /\ Len(s \o rest) = Len(s) + Len(rest)
      /\ \A k \in 1 .. Len(s) : (s \o rest)[k] = s[k]
      /\ \A k \in 1 .. Len(rest) : (s \o rest)[Len(s) + k] = rest[k]
  BY <1>3, <1>4, Cat
<1>6. frames = s \o rest
  BY <1>1 DEF s
<1>7. N = 1 + Len(rest)
  BY <1>3, <1>5, <1>6 DEF N
<1>8. frames[1] = u
  BY <1>3, <1>5, <1>6
<1>9. ASSUME NEW i \in 2 .. N PROVE frames[i] \in Frame
  <2>1. i - 1 \in 1 .. Len(rest) /\ i = Len(s) + (i - 1)
    BY <1>3, <1>5, <1>7
  <2>2. frames[i] = rest[i - 1]
    BY <1>5, <1>6, <2>1
  <2> QED  BY <1>2, <2>1, <2>2, ElementOfSeq
<1>10. frames \in Seq(Frame \cup Upgrades)
  BY <1>5, <1>6 DEF F
<1>11. N \in Nat \ {0}
  BY <1>5, <1>7
<1>12. frames[1] \in Upgrades
  BY <1>1, <1>8
<1> QED  BY <1>9, <1>10, <1>11, <1>12 DEF FramesOK

\* new_client: nothing is read, everything is on its way.
LEMMA InitInv == Init => WsInv
<1> SUFFICES ASSUME Init PROVE WsInv
  OBVIOUS
<1>1. FramesOK
  BY InitFrames
<1>2. PICK v : Gathers(v) /\ stream = v[N]
  BY <1>1, StreamGathers
<1> DEFINE W == v[N]
           E == [i \in 0 .. N |-> Len(v[i])]
           M == Meaning
<1>3. IsWire(W, E) /\ IsMeaning(M)
  BY <1>1, <1>2, GathersWire, MeaningIs
<1>4. stream = W
  BY <1>2
<1> HIDE DEF W, E, M
<1>5. W \in Seq(Byte) /\ Len(W) \in Nat /\ N \in Nat \ {0} /\ E[0] = 0 /\ M[0] = Unread
  BY <1>1, <1>3, WireEnds, MeaningSteps DEF FramesOK
<1>6. Piece(W, W, 0)
  BY <1>5 DEF Piece
<1>7. Piece(W, <<>>, 0) /\ Len(<<>>) = 0
  BY <1>5, PieceEmpty, EmptySeq
<1>8. TypeOK
  <2>1. \A S : <<>> \in Seq(S)
    BY EmptySeq
  <2>2. Idle \in [st : {"Idle", "Header", "Payload"}, partial : Seq(Byte), remaining : Nat]
    BY <2>1 DEF Idle
  <2>3. cur_fin \in BOOLEAN /\ failed \in BOOLEAN
    BY DEF Init
  <2>4. Len(batch) <= BatchCapacity /\ borrowed \in 0 .. Len(recv_buf)
    BY <1>7, Bounds DEF Init
  <2>5. /\ state = "Connecting" /\ parser = Idle /\ recv_buf = <<>> /\ msg_opcode = "None"
        /\ msg_buf = <<>> /\ cur_opcode = "None" /\ ctl_buf = <<>> /\ last_emitted = "None"
        /\ tx_buf = <<>> /\ call = "none" /\ pc = "ready" /\ ingress = <<>> /\ batch = <<>>
        /\ delivered = <<>> /\ marks = <<>>
    BY DEF Init
  <2> QED  BY <1>4, <1>5, <2>1, <2>2, <2>3, <2>4, <2>5 DEF TypeOK
<1>9. PhaseInv
  BY DEF Init, PhaseInv, Idle
<1>10. CloseInv
  <2>1. \A k : k \notin 1 .. Len(<<>>)
    BY <1>7
  <2>2. state = "Connecting" /\ tx_buf = <<>>
    BY DEF Init
  <2> QED  BY <2>1, <2>2 DEF CloseInv, CloseOK
<1>11. Live(W, E, M, 1, 0)
  <2>1. /\ state = "Connecting" /\ parser = Idle /\ recv_buf = <<>> /\ msg_opcode = "None"
        /\ msg_buf = <<>> /\ tx_buf = <<>> /\ call = "none" /\ ingress = <<>> /\ batch = <<>>
        /\ delivered = <<>> /\ borrowed = 0
    BY DEF Init
  <2>2. /\ M[0].out = <<>> /\ M[0].pings = <<>> /\ M[0].op = "None"
        /\ 1 - 1 = 0
    BY <1>5 DEF Unread
  <2>3. ~M[0].over
    BY <1>5 DEF Unread
  <2>4. delivered \o batch = M[0].out
    BY <2>1, <2>2
  <2>5. AnswersIn(tx_buf, M[0].pings)
    <3> DEFINE at == [k \in 1 .. 0 |-> 0]
    <3>1. /\ \A S : at \in [1 .. Len(<<>>) -> S]
          /\ \A k : k \notin 1 .. Len(<<>>)
      BY <1>7
    <3> HIDE DEF at
    <3> QED  BY <2>1, <2>2, <3>1 DEF AnswersIn
  <2>6. Placed(W, 0)
    BY <1>4, <1>5, <1>6, <1>7, <2>1 DEF Placed, PlacedAt
  <2>7. parser.st = "Idle" /\ parser.partial = <<>>
    BY <2>1 DEF Idle
  <2>8. InHeader(W, E, M, 1, 0)
    BY <1>5, <1>7, <2>1, <2>2, <2>7 DEF InHeader, KeepsMessage
  <2>9. 1 \in 1 .. N + 1
    BY <1>5
  <2> QED  BY <2>1, <2>2, <2>3, <2>4, <2>5, <2>6, <2>7, <2>8, <2>9 DEF Live
<1>12. Story(W, E, M)
  <2>1. ~IsOver
    BY DEF Init, IsOver
  <2> QED  BY <1>11, <2>1 DEF Story
<1> QED  BY <1>1, <1>3, <1>8, <1>9, <1>10, <1>12 DEF WsInv, Good

-----------------------------------------------------------------------------
(* What the steps have in common.                                           *)

\* The buffers stay where they are.
LEMMA SamePlaced ==
    ASSUME UNCHANGED <<recv_buf, ingress, stream>>, NEW W, NEW a, Placed(W, a)
    PROVE  Placed(W, a)'
BY DEF Placed, PlacedAt, Piece

\* The header in progress stays the same.
LEMMA SameInHeader ==
    ASSUME UNCHANGED <<parser, borrowed, msg_opcode, msg_buf>>, NEW W, NEW E, NEW M, NEW i, NEW a,
           InHeader(W, E, M, i, a)
    PROVE  InHeader(W, E, M, i, a)'
BY DEF InHeader, Piece, KeepsMessage

\* The payload in progress stays the same.
LEMMA SameInPayload ==
    ASSUME UNCHANGED <<frames, parser, borrowed, msg_opcode, msg_buf, cur_opcode, cur_fin, ctl_buf>>,
           NEW E, NEW M, NEW i, NEW a, InPayload(E, M, i, a)
    PROVE  InPayload(E, M, i, a)'
<1>1. N' = N
  BY DEF N
<1>2. \A n : Part(i, n)' = Part(i, n)
  BY SamePart
<1> QED  BY <1>1, <1>2 DEF InPayload, KeepsMessage

\* The connection stays over.
LEMMA StaysOver ==
    ASSUME NEW W, NEW E, NEW M, UNCHANGED <<frames, tx_buf, delivered>>,
           NEW j, Over(W, E, M, j), Len(stream') <= Len(stream), Len(stream') \in Nat,
           Len(stream) \in Nat, Len(W) \in Nat, j \in 0 .. N => E[j] \in Nat,
           Piece(W, stream', Len(W) - Len(stream'))
    PROVE  Over(W, E, M, j)'
<1>1. N' = N
  BY DEF N
<1>2. /\ j \in 0 .. N
      /\ delivered = M[j].out
      /\ AutoPong => AnswersIn(tx_buf, M[j].pings)
      /\ Settled(M, j)
      /\ E[j] <= Len(W) - Len(stream)
  BY DEF Over
<1>3. E[j] <= Len(W) - Len(stream')
  BY <1>2
<1>4. Settled(M, j)'
  BY <1>1, <1>2 DEF Settled
<1> QED  BY <1>1, <1>2, <1>3, <1>4 DEF Over

\* What a live connection and a wire are.
LEMMA LiveFacts ==
    ASSUME NEW W, NEW E, NEW M, Good(W, E, M), NEW i, NEW a, Live(W, E, M, i, a)
    PROVE  /\ i \in 1 .. N + 1 /\ N \in Nat /\ i - 1 \in 0 .. N /\ i \in Nat
           /\ M[i - 1] \in Known
           /\ E[i - 1] \in Nat
           /\ a \in Nat
           /\ Len(recv_buf) \in Nat /\ Len(ingress) \in Nat /\ Len(stream) \in Nat
           /\ Len(W) \in Nat /\ W \in Seq(Byte)
           /\ borrowed \in 0 .. Len(recv_buf)
<1>1. TypeOK /\ FramesOK /\ IsWire(W, E) /\ IsMeaning(M)
  BY DEF Good
<1>2. i \in 1 .. N + 1 /\ N \in Nat /\ i - 1 \in 0 .. N /\ i \in Nat
  BY <1>1 DEF Live, FramesOK
<1>3. M[i - 1] \in Known /\ E[i - 1] \in Nat
  BY <1>1, <1>2, MeaningSteps, WireEnds
<1>4. a \in Nat
  BY DEF Live, Placed, PlacedAt, Piece
<1>5. Len(recv_buf) \in Nat /\ Len(ingress) \in Nat /\ Len(stream) \in Nat
      /\ borrowed \in 0 .. Len(recv_buf)
  BY <1>1, LenProperties DEF TypeOK
<1> QED  BY <1>1, <1>2, <1>3, <1>4, <1>5, WireEnds

\* clear_after_emit: the frame lent goes, what is in progress stays.
LEMMA Cleared ==
    ASSUME NEW W, NEW E, NEW M, Good(W, E, M), NEW i, NEW a, Live(W, E, M, i, a),
           NEW fed, ClearAfterEmit(fed),
           UNCHANGED <<frames, parser, msg_opcode, cur_opcode, cur_fin>>,
           NEW b, b = a + borrowed
    PROVE  /\ parser.st = "Payload" => InPayload(E, M, i, b)'
           /\ parser.st # "Payload" => InHeader(W, E, M, i, b)'
<1>1. /\ borrowed' = 0 /\ last_emitted' = "None"
      /\ msg_buf' = IF last_emitted = "Message" THEN <<>> ELSE msg_buf
      /\ ctl_buf' = IF last_emitted = "Control" THEN <<>> ELSE ctl_buf
  BY DEF ClearAfterEmit
<1>2. /\ a \in Nat /\ borrowed \in Nat /\ E[i - 1] \in Nat /\ M[i - 1] \in Known
  BY LiveFacts
<1>3. /\ last_emitted = "None" => borrowed = 0
      /\ last_emitted # "None" => parser = Idle
      /\ last_emitted = "Message" => msg_opcode = "None"
  BY DEF Good, PhaseInv
<1>4. ASSUME parser.st = "Payload" PROVE InPayload(E, M, i, b)'
  <2>1. last_emitted = "None"
    BY <1>3, <1>4 DEF Idle
  <2>2. borrowed = 0 /\ b = a
    BY <1>2, <1>3, <2>1
  <2>3. msg_buf' = msg_buf /\ ctl_buf' = ctl_buf
    BY <1>1, <2>1
  <2>4. InPayload(E, M, i, a)
    BY <1>4 DEF Live
  <2>5. InPayload(E, M, i, a)'
    BY <1>1, <2>2, <2>3, <2>4, SameInPayload
  <2> QED  BY <2>2, <2>5
<1>5. ASSUME parser.st # "Payload" PROVE InHeader(W, E, M, i, b)'
  <2>1. InHeader(W, E, M, i, a)
    BY <1>5 DEF Live
  <2>2. E[i - 1] + Len(parser.partial) = a + borrowed /\ Piece(W, parser.partial, E[i - 1])
        /\ KeepsMessage(M[i - 1])
    BY <2>1 DEF InHeader
  <2>3. KeepsMessage(M[i - 1])'
    BY <1>1, <1>3, <2>2 DEF KeepsMessage
  <2>4. b + 0 = a + borrowed
    BY <1>2
  <2>5. E[i - 1] + Len(parser'.partial) = b + borrowed' /\ Piece(W, parser.partial, E[i - 1])'
    BY <1>1, <2>2, <2>4 DEF Piece
  <2> QED  BY <2>3, <2>5 DEF InHeader
<1> QED  BY <1>4, <1>5

-----------------------------------------------------------------------------
(* Calls.                                                                   *)

\* The part of the invariant on the frames, the wire and the meanings stays.
LEMMA GoodNext ==
    ASSUME NEW W, NEW E, NEW M, Good(W, E, M), frames' = frames, TypeOK', PhaseInv', CloseInv',
           Story(W, E, M)'
    PROVE  Good(W, E, M)'
<1>1. FramesOK /\ IsWire(W, E) /\ IsMeaning(M)
  BY DEF Good
<1>2. FramesOK' /\ IsWire(W, E)' /\ IsMeaning(M)'
  BY <1>1, SameFrames
<1> QED  BY <1>2 DEF Good

\* A live connection on which nothing is read.
LEMMA StaysLive ==
    ASSUME NEW W, NEW E, NEW M, NEW i, NEW a, Live(W, E, M, i, a),
           UNCHANGED <<peerVars, recv_buf, borrowed, msgVars, curVars, parser, ingress, delivered, batch>>,
           AutoPong => AnswersIn(tx_buf', M[i - 1].pings),
           (state' = "Connecting") = (state = "Connecting"),
           (pc' = "ready" /\ call' \in {"data", "batch"} /\ i <= N) => a + Len(recv_buf) < E[i]
    PROVE  Live(W, E, M, i, a)'
<1>1. UNCHANGED <<frames, stream, recv_buf, borrowed, msg_opcode, msg_buf, cur_opcode, cur_fin,
                  ctl_buf, parser, ingress, delivered, batch>>
  BY DEF peerVars, msgVars, curVars
<1>2. N' = N
  BY <1>1 DEF N
<1>3. Placed(W, a)'
  BY <1>1, SamePlaced DEF Live
<1>4. parser'.st = "Payload" => InPayload(E, M, i, a)'
  BY <1>1, SameInPayload DEF Live
<1>5. parser'.st # "Payload" => InHeader(W, E, M, i, a)'
  BY <1>1, SameInHeader DEF Live
<1>6. /\ i \in 1 .. N + 1
      /\ delivered \o batch = M[i - 1].out
      /\ ~M[i - 1].over
      /\ (state = "Connecting") = (i = 1)
  BY DEF Live
<1> QED  BY <1>1, <1>2, <1>3, <1>4, <1>5, <1>6 DEF Live

\* send_text, send_binary, send_ping, send_pong
LEMMA SendFrameGood ==
    ASSUME NEW W, NEW E, NEW M, Good(W, E, M), SendFrame
    PROVE  Good(W, E, M)'
<1> DEFINE w == Written("Sent", <<>>)
<1>1. /\ state = "Open" /\ tx_buf' = Append(tx_buf, w)
      /\ UNCHANGED <<state, failed, frames, stream, recv_buf, borrowed, last_emitted, msg_opcode,
                     msg_buf, cur_opcode, cur_fin, ctl_buf, batch, delivered, marks, parser, call,
                     pc, ingress>>
  BY DEF SendFrame, peerVars, bufVars, msgVars, curVars, sinkVars
<1>2. w \in WrittenType /\ w.op = "Sent"
  BY EmptySeq, WrittenIs
<1> HIDE DEF w
<1>3. TypeOK /\ FramesOK /\ PhaseInv /\ CloseInv /\ Story(W, E, M) /\ IsMeaning(M)
  BY DEF Good
<1>4. tx_buf \in Seq(WrittenType)
  BY <1>3 DEF TypeOK, WrittenType
<1>5. tx_buf' \in Seq(WrittenType)
  BY <1>1, <1>2, <1>4, AppendProperties
<1>6. TypeOK'
  BY <1>1, <1>3, <1>5 DEF TypeOK, WrittenType
<1>7. PhaseInv'
  BY <1>1, <1>3 DEF PhaseInv, BetweenFrames
<1>8. CloseInv'
  <2>1. PICK b : b = (frames[1].bad = "header")
    OBVIOUS
  <2>2. CloseOK(tx_buf, state, b)
    BY <1>3, <2>1 DEF CloseInv
  <2>3. CloseOK(Append(tx_buf, w), state, b)
    BY <1>1, <1>2, <1>4, <2>2, CloseKept
  <2> QED  BY <1>1, <2>1, <2>3 DEF CloseInv
<1>9. Story(W, E, M)'
  <2>1. ~failed /\ ~IsOver /\ ~IsOver'
    BY <1>1, <1>3 DEF PhaseInv, IsOver
  <2>2. PICK i, a : Live(W, E, M, i, a)
    BY <1>3, <2>1 DEF Story
  <2>3. M[i - 1].pings \in Seq(Seq(Byte))
    BY <2>2, LiveFacts, KnownFields
  <2>4. AutoPong => AnswersIn(tx_buf', M[i - 1].pings)
    BY <1>1, <1>2, <1>4, <2>2, <2>3, AnswersKept DEF Live
  <2>5. Live(W, E, M, i, a)'
    <3>1. UNCHANGED <<peerVars, recv_buf, borrowed, msgVars, curVars, parser, ingress, delivered, batch>>
      BY <1>1 DEF peerVars, msgVars, curVars
    <3>2. (pc' = "ready" /\ call' \in {"data", "batch"} /\ i <= N) => a + Len(recv_buf) < E[i]
      BY <1>1, <2>2 DEF Live
    <3>3. (state' = "Connecting") = (state = "Connecting")
      BY <1>1
    <3> QED  BY <2>2, <2>4, <3>1, <3>2, <3>3, StaysLive
  <2> QED  BY <2>1, <2>5 DEF Story
<1> QED  BY <1>1, <1>6, <1>7, <1>8, <1>9, GoodNext

\* send_close
LEMMA SendCloseGood ==
    ASSUME NEW W, NEW E, NEW M, Good(W, E, M), SendClose
    PROVE  Good(W, E, M)'
<1> DEFINE w == Written("Close", <<>>)
<1>1. /\ state = "Open" /\ tx_buf' = Append(tx_buf, w) /\ state' = "Closing" /\ pc = "ready"
      /\ UNCHANGED <<failed, frames, stream, recv_buf, borrowed, last_emitted, msg_opcode,
                     msg_buf, cur_opcode, cur_fin, ctl_buf, batch, delivered, marks, parser, call,
                     pc, ingress>>
  BY DEF SendClose, peerVars, bufVars, msgVars, curVars, sinkVars
<1>2. w \in WrittenType /\ w.op = "Close"
  BY EmptySeq, WrittenIs
<1> HIDE DEF w
<1>3. TypeOK /\ FramesOK /\ PhaseInv /\ CloseInv /\ Story(W, E, M) /\ IsMeaning(M)
  BY DEF Good
<1>4. tx_buf \in Seq(WrittenType)
  BY <1>3 DEF TypeOK, WrittenType
<1>5. tx_buf' \in Seq(WrittenType)
  BY <1>1, <1>2, <1>4, AppendProperties
<1>6. TypeOK'
  BY <1>1, <1>3, <1>5 DEF TypeOK, WrittenType
<1>7. PhaseInv'
  BY <1>1, <1>3 DEF PhaseInv
<1>8. CloseInv'
  <2>1. PICK b : b = (frames[1].bad = "header")
    OBVIOUS
  <2>2. PICK st \in {"Closing", "Closed"} : st = state'
    BY <1>1
  <2>3. CloseOK(tx_buf, "Open", b)
    BY <1>1, <1>3, <2>1 DEF CloseInv
  <2>4. CloseOK(Append(tx_buf, w), st, b)
    BY <1>2, <1>4, <2>3, CloseFirst
  <2> QED  BY <1>1, <2>1, <2>2, <2>4 DEF CloseInv
<1>9. Story(W, E, M)'
  <2>1. ~failed /\ ~IsOver /\ ~IsOver'
    BY <1>1, <1>3 DEF PhaseInv, IsOver
  <2>2. PICK i, a : Live(W, E, M, i, a)
    BY <1>3, <2>1 DEF Story
  <2>3. M[i - 1].pings \in Seq(Seq(Byte))
    BY <2>2, LiveFacts, KnownFields
  <2>4. AutoPong => AnswersIn(tx_buf', M[i - 1].pings)
    BY <1>1, <1>2, <1>4, <2>2, <2>3, AnswersKept DEF Live
  <2>5. Live(W, E, M, i, a)'
    <3>1. UNCHANGED <<peerVars, recv_buf, borrowed, msgVars, curVars, parser, ingress, delivered, batch>>
      BY <1>1 DEF peerVars, msgVars, curVars
    <3>2. (pc' = "ready" /\ call' \in {"data", "batch"} /\ i <= N) => a + Len(recv_buf) < E[i]
      BY <1>1, <2>2 DEF Live
    <3>3. (state' = "Connecting") = (state = "Connecting")
      BY <1>1
    <3> QED  BY <2>2, <2>4, <3>1, <3>2, <3>3, StaysLive
  <2> QED  BY <2>1, <2>5 DEF Story
<1> QED  BY <1>1, <1>6, <1>7, <1>8, <1>9, GoodNext

\* What is read or lent leaves the buffer, what arrives joins it or is a chunk.
LEMMA PlacedDrop ==
    ASSUME NEW W \in Seq(Byte), NEW r, NEW s, NEW a, PlacedAt(W, r, <<>>, s, a), NEW n \in 0 .. Len(r)
    PROVE  PlacedAt(W, Drop(r, n), <<>>, s, a + n)
<1>1. Piece(W, r, a) /\ Piece(W, s, a + Len(r) + Len(<<>>)) /\ Len(<<>>) = 0
      /\ a + Len(r) + Len(<<>>) + Len(s) = Len(W)
  BY EmptySeq DEF PlacedAt
<1>2. a \in Nat /\ Len(r) \in Nat /\ Len(s) \in Nat /\ Len(W) \in Nat
  BY <1>1, LenProperties DEF Piece
<1>3. Piece(W, Drop(r, n), a + n) /\ Len(Drop(r, n)) = Len(r) - n
  BY <1>1, PieceCut
<1> DEFINE d == Drop(r, n)
<1> HIDE DEF d
<1>4. Piece(W, d, a + n) /\ Len(d) = Len(r) - n
  BY <1>3 DEF d
<1>5. /\ a + n + Len(d) = a + Len(r) + 0 /\ a + n + Len(d) + 0 = a + Len(r) + 0
      /\ a + n + Len(d) + 0 + Len(s) = Len(W) /\ a + n + Len(d) <= Len(W)
      /\ a + n + Len(d) \in Nat
  BY <1>1, <1>2, <1>4
<1>6. Piece(W, <<>>, a + n + Len(d))
  BY <1>5, PieceEmpty
<1> QED  BY <1>1, <1>4, <1>5, <1>6 DEF PlacedAt, d

\* The next n bytes arrive as a chunk.
LEMMA PlacedChunk ==
    ASSUME NEW W \in Seq(Byte), NEW r, NEW s, NEW a, PlacedAt(W, r, <<>>, s, a), NEW n \in 0 .. Len(s)
    PROVE  PlacedAt(W, r, Prefix(s, n), Drop(s, n), a)
<1>1. Piece(W, r, a) /\ Piece(W, s, a + Len(r) + Len(<<>>)) /\ Len(<<>>) = 0
      /\ a + Len(r) + Len(<<>>) + Len(s) = Len(W)
  BY EmptySeq DEF PlacedAt
<1>2. a \in Nat /\ Len(r) \in Nat /\ Len(s) \in Nat
  BY <1>1, LenProperties DEF Piece
<1>3. Piece(W, s, a + Len(r))
  BY <1>1, <1>2
<1>4. /\ Piece(W, Prefix(s, n), a + Len(r)) /\ Len(Prefix(s, n)) = n
      /\ Piece(W, Drop(s, n), a + Len(r) + n) /\ Len(Drop(s, n)) = Len(s) - n
  BY <1>3, PieceCut
<1>5. a + Len(r) + n + (Len(s) - n) = Len(W)
  BY <1>1, <1>2
<1> QED  BY <1>1, <1>4, <1>5 DEF PlacedAt

\* The chunk goes to the receive buffer.
LEMMA PlacedFeed ==
    ASSUME NEW W \in Seq(Byte), NEW r, NEW g, NEW s, NEW a, PlacedAt(W, r, g, s, a)
    PROVE  PlacedAt(W, r \o g, <<>>, s, a)
<1>1. Piece(W, r, a) /\ Piece(W, g, a + Len(r)) /\ Piece(W, s, a + Len(r) + Len(g))
      /\ a + Len(r) + Len(g) + Len(s) = Len(W)
  BY DEF PlacedAt
<1>2. a \in Nat /\ Len(r) \in Nat /\ Len(g) \in Nat /\ Len(s) \in Nat /\ Len(W) \in Nat
  BY <1>1, LenProperties DEF Piece
<1> DEFINE u == r \o g
<1>3. Piece(W, u, a) /\ Len(u) = Len(r) + Len(g)
  BY <1>1, PieceCat
<1> HIDE DEF u
<1>4. Len(<<>>) = 0
  BY EmptySeq
<1>5. /\ a + Len(u) = a + Len(r) + Len(g) /\ a + Len(u) + 0 = a + Len(r) + Len(g)
      /\ a + Len(u) \in Nat /\ a + Len(u) <= Len(W) /\ a + Len(u) + 0 + Len(s) = Len(W)
  BY <1>1, <1>2, <1>3
<1>6. Piece(W, <<>>, a + Len(u))
  BY <1>5, PieceEmpty
<1> QED  BY <1>1, <1>3, <1>4, <1>5, <1>6 DEF PlacedAt, u

\* The rest of the stream, on a connection that is over.
LEMMA RestPiece ==
    ASSUME NEW W \in Seq(Byte), NEW s, Piece(W, s, Len(W) - Len(s)), NEW n \in 0 .. Len(s)
    PROVE  /\ Piece(W, Drop(s, n), Len(W) - Len(Drop(s, n)))
           /\ Len(Drop(s, n)) <= Len(s)
           /\ Len(Drop(s, n)) \in Nat
           /\ Drop(s, n) \in Seq(Byte)
           /\ Prefix(s, n) \in Seq(Byte)
<1>1. Len(W) \in Nat /\ Len(s) \in Nat /\ s \in Seq(Byte)
  BY LenProperties DEF Piece
<1>2. /\ Piece(W, Drop(s, n), (Len(W) - Len(s)) + n) /\ Len(Drop(s, n)) = Len(s) - n
      /\ Piece(W, Prefix(s, n), Len(W) - Len(s))
  BY PieceCut
<1>3. (Len(W) - Len(s)) + n = Len(W) - (Len(s) - n) /\ Len(s) - n \in Nat /\ Len(s) - n <= Len(s)
  BY <1>1
<1> QED  BY <1>2, <1>3 DEF Piece

\* The stream of a live connection.
LEMMA LiveStream ==
    ASSUME NEW W, NEW E, NEW M, Good(W, E, M)
    PROVE  Piece(W, stream, Len(W) - Len(stream))
<1>1. CASE IsOver
  BY <1>1 DEF Good, Story, Over
<1>2. CASE ~IsOver
  <2>1. PICK i, a : Live(W, E, M, i, a)
    BY <1>2 DEF Good, Story
  <2>2. /\ a \in Nat /\ Len(recv_buf) \in Nat /\ Len(ingress) \in Nat /\ Len(stream) \in Nat
        /\ Len(W) \in Nat
    BY <2>1, LiveFacts
  <2>3. Piece(W, stream, a + Len(recv_buf) + Len(ingress))
        /\ a + Len(recv_buf) + Len(ingress) + Len(stream) = Len(W)
    BY <2>1 DEF Live, Placed, PlacedAt
  <2>4. a + Len(recv_buf) + Len(ingress) = Len(W) - Len(stream)
    BY <2>2, <2>3
  <2> QED  BY <2>3, <2>4
<1> QED  BY <1>1, <1>2

\* feed_recv
LEMMA FeedRecvGood ==
    ASSUME NEW W, NEW E, NEW M, Good(W, E, M), FeedRecv
    PROVE  Good(W, E, M)'
<1>1. PICK n \in 1 .. Len(stream) :
         recv_buf' = recv_buf \o Prefix(stream, n) /\ stream' = Drop(stream, n)
  BY DEF FeedRecv
<1>2. /\ pc = "ready" /\ ~failed /\ call' = "feed"
      /\ UNCHANGED <<state, tx_buf, failed, frames, borrowed, last_emitted, msg_opcode,
                     msg_buf, cur_opcode, cur_fin, ctl_buf, batch, delivered, marks, parser,
                     pc, ingress>>
  BY DEF FeedRecv, CanCall, msgVars, curVars, outVars, sinkVars
<1>3. TypeOK /\ FramesOK /\ PhaseInv /\ CloseInv /\ Story(W, E, M) /\ IsMeaning(M) /\ IsWire(W, E)
  BY DEF Good
<1>4. W \in Seq(Byte) /\ Len(W) \in Nat /\ \A j \in 0 .. N : E[j] \in Nat
  BY <1>3, WireEnds
<1>5. recv_buf \in Seq(Byte) /\ stream \in Seq(Byte) /\ Len(stream) \in Nat /\ Len(recv_buf) \in Nat
      /\ borrowed \in 0 .. Len(recv_buf) /\ ingress = <<>>
  BY <1>2, <1>3, LenProperties DEF TypeOK, PhaseInv
<1>6. n \in 0 .. Len(stream)
  BY <1>5
<1>7. /\ Piece(W, Drop(stream, n), Len(W) - Len(Drop(stream, n)))
      /\ Len(Drop(stream, n)) <= Len(stream)
      /\ Len(Drop(stream, n)) \in Nat
      /\ Drop(stream, n) \in Seq(Byte)
      /\ Prefix(stream, n) \in Seq(Byte)
  BY <1>4, <1>6, LiveStream, RestPiece
<1>8. /\ recv_buf' \in Seq(Byte) /\ Len(recv_buf') \in Nat
      /\ Len(recv_buf') = Len(recv_buf) + Len(Prefix(stream, n))
      /\ Len(Prefix(stream, n)) \in Nat
  BY <1>1, <1>5, <1>7, Cat, LenProperties
<1>9. TypeOK'
  <2>1. borrowed' \in 0 .. Len(recv_buf')
    BY <1>2, <1>5, <1>8
  <2>2. recv_buf' \in Seq(Byte) /\ stream' \in Seq(Byte)
    BY <1>1, <1>7, <1>8
  <2> QED  BY <1>2, <1>3, <2>1, <2>2 DEF TypeOK
<1>10. PhaseInv'
  BY <1>2, <1>3 DEF PhaseInv
<1>11. CloseInv'
  BY <1>2, <1>3 DEF CloseInv
<1>12. Story(W, E, M)'
  <2>1. IsOver' = IsOver
    BY <1>2 DEF IsOver
  <2>2. CASE IsOver
    <3>1. PICK j : Over(W, E, M, j)
      BY <1>3, <2>2 DEF Story
    <3>2. j \in 0 .. N => E[j] \in Nat
      BY <1>4
    <3>3. Over(W, E, M, j)'
      BY <1>1, <1>2, <1>4, <1>5, <1>7, <3>1, <3>2, StaysOver
    <3> QED  BY <2>1, <2>2, <3>3 DEF Story
  <2>3. CASE ~IsOver
    <3>1. PICK i, a : Live(W, E, M, i, a)
      BY <1>3, <2>3 DEF Story
    <3>2. Placed(W, a)'
      <4>1. PlacedAt(W, recv_buf, <<>>, stream, a)
        BY <1>5, <3>1 DEF Live, Placed
      <4>2. PlacedAt(W, recv_buf, Prefix(stream, n), Drop(stream, n), a)
        BY <1>4, <1>6, <4>1, PlacedChunk
      <4>3. PlacedAt(W, recv_buf \o Prefix(stream, n), <<>>, Drop(stream, n), a)
        BY <1>4, <4>2, PlacedFeed
      <4> QED  BY <1>1, <1>2, <1>5, <4>3 DEF Placed
    <3>3. parser'.st = "Payload" => InPayload(E, M, i, a)'
      BY <1>2, <3>1, SameInPayload DEF Live
    <3>4. parser'.st # "Payload" => InHeader(W, E, M, i, a)'
      BY <1>2, <3>1, SameInHeader DEF Live
    <3>5. N' = N
      BY <1>2 DEF N
    <3>6. Live(W, E, M, i, a)'
      BY <1>2, <3>1, <3>2, <3>3, <3>4, <3>5 DEF Live
    <3> QED  BY <2>1, <2>3, <3>6 DEF Story
  <2> QED  BY <2>2, <2>3
<1> QED  BY <1>2, <1>9, <1>10, <1>11, <1>12, GoodNext

\* The buffers after clear_after_emit.
LEMMA ClearedTypes ==
    ASSUME TypeOK, NEW fed \in Seq(Byte), ClearAfterEmit(fed)
    PROVE  /\ recv_buf' = Drop(recv_buf, borrowed) \o fed
           /\ Drop(recv_buf, borrowed) \in Seq(Byte)
           /\ recv_buf' \in Seq(Byte)
           /\ borrowed' = 0 /\ borrowed' \in 0 .. Len(recv_buf')
           /\ msg_buf' \in Seq(Byte) /\ ctl_buf' \in Seq(Byte)
           /\ last_emitted' = "None"
<1>1. /\ recv_buf' = Drop(recv_buf, borrowed) \o fed
      /\ msg_buf' = IF last_emitted = "Message" THEN <<>> ELSE msg_buf
      /\ ctl_buf' = IF last_emitted = "Control" THEN <<>> ELSE ctl_buf
      /\ borrowed' = 0
      /\ last_emitted' = "None"
  BY DEF ClearAfterEmit
<1>2. recv_buf \in Seq(Byte) /\ borrowed \in 0 .. Len(recv_buf) /\ msg_buf \in Seq(Byte)
      /\ ctl_buf \in Seq(Byte)
  BY DEF TypeOK
<1>3. Drop(recv_buf, borrowed) \in Seq(Byte)
  BY <1>2, Split DEF Drop
<1>4. recv_buf' \in Seq(Byte)
  BY <1>1, <1>3, Cat
<1>5. 0 \in 0 .. Len(recv_buf')
  BY <1>4, LenProperties
<1>6. <<>> \in Seq(Byte)
  BY EmptySeq
<1> QED  BY <1>1, <1>2, <1>3, <1>4, <1>5, <1>6

\* The live connection after clear_after_emit.
LEMMA ClearedLive ==
    ASSUME NEW W, NEW E, NEW M, Good(W, E, M), NEW i, NEW a, Live(W, E, M, i, a),
           NEW fed, ClearAfterEmit(fed), NEW b, b = a + borrowed, Placed(W, b)',
           UNCHANGED <<frames, parser, msg_opcode, cur_opcode, cur_fin, state, tx_buf, delivered,
                       batch>>,
           pc' # "ready"
    PROVE  Live(W, E, M, i, b)'
<1>1. /\ parser.st = "Payload" => InPayload(E, M, i, b)'
      /\ parser.st # "Payload" => InHeader(W, E, M, i, b)'
  BY Cleared
<1>2. N' = N
  BY DEF N
<1> QED  BY <1>1, <1>2 DEF Live

\* poll_event and the drains begin.
LEMMA BeginGood ==
    ASSUME NEW W, NEW E, NEW M, Good(W, E, M), NEW c \in {"poll", "data", "batch"}, Begin(c)
    PROVE  Good(W, E, M)'
<1> DEFINE e == <<>>
<1>1. /\ pc = "ready" /\ ~failed /\ call' = c /\ marks' = <<>> /\ ClearAfterEmit(e)
      /\ pc' = IF c = "poll" THEN "poll" ELSE "loop"
      /\ UNCHANGED <<state, tx_buf, failed, frames, stream, msg_opcode, cur_opcode, cur_fin,
                     batch, delivered, parser, ingress>>
  BY DEF Begin, CanCall, peerVars, outVars
<1>2. TypeOK /\ FramesOK /\ PhaseInv /\ CloseInv /\ Story(W, E, M) /\ IsMeaning(M) /\ IsWire(W, E)
  BY DEF Good
<1>3. W \in Seq(Byte) /\ Len(W) \in Nat /\ \A j \in 0 .. N : E[j] \in Nat
  BY <1>2, WireEnds
<1>4. e \in Seq(Byte) /\ marks' \in Seq(BOOLEAN)
  BY <1>1, EmptySeq
<1>5. /\ recv_buf' = Drop(recv_buf, borrowed) \o e
      /\ Drop(recv_buf, borrowed) \in Seq(Byte)
      /\ recv_buf' \in Seq(Byte)
      /\ borrowed' = 0 /\ borrowed' \in 0 .. Len(recv_buf')
      /\ msg_buf' \in Seq(Byte) /\ ctl_buf' \in Seq(Byte)
      /\ last_emitted' = "None"
  BY <1>1, <1>2, <1>4, ClearedTypes
<1>6. recv_buf' = Drop(recv_buf, borrowed)
  BY <1>5, DropNone
<1>7. ingress = <<>> /\ batch = <<>>
  BY <1>1, <1>2 DEF PhaseInv
<1> HIDE DEF e
<1>8. TypeOK'
  BY <1>1, <1>2, <1>4, <1>5 DEF TypeOK
<1>9. PhaseInv'
  BY <1>1, <1>2, <1>5, <1>7 DEF PhaseInv
<1>10. CloseInv'
  BY <1>1, <1>2 DEF CloseInv
<1>11. Story(W, E, M)'
  <2>1. IsOver' = IsOver
    BY <1>1 DEF IsOver
  <2>2. CASE IsOver
    <3>1. PICK j : Over(W, E, M, j)
      BY <1>2, <2>2 DEF Story
    <3>2. j \in 0 .. N => E[j] \in Nat
      BY <1>3
    <3>3. Piece(W, stream', Len(W) - Len(stream')) /\ Len(stream') \in Nat /\ Len(stream) \in Nat
          /\ Len(stream') <= Len(stream)
      BY <1>1, <1>2, LiveStream, LenProperties DEF TypeOK
    <3>4. Over(W, E, M, j)'
      BY <1>1, <1>3, <3>1, <3>2, <3>3, StaysOver
    <3> QED  BY <2>1, <2>2, <3>4 DEF Story
  <2>3. CASE ~IsOver
    <3>1. PICK i, a : Live(W, E, M, i, a)
      BY <1>2, <2>3 DEF Story
    <3>2. PICK b : b = a + borrowed
      OBVIOUS
    <3>3. Placed(W, b)'
      <4>1. PlacedAt(W, recv_buf, <<>>, stream, a)
        BY <1>7, <3>1 DEF Live, Placed
      <4>2. borrowed \in 0 .. Len(recv_buf)
        BY <1>2 DEF TypeOK
      <4>3. PlacedAt(W, Drop(recv_buf, borrowed), <<>>, stream, b)
        BY <1>3, <3>2, <4>1, <4>2, PlacedDrop
      <4> QED  BY <1>1, <1>6, <1>7, <4>3 DEF Placed
    <3>4. Live(W, E, M, i, b)'
      <4>1. pc' # "ready"
        BY <1>1
      <4> QED  BY <1>1, <3>1, <3>2, <3>3, <4>1, ClearedLive
    <3> QED  BY <2>1, <2>3, <3>4 DEF Story
  <2> QED  BY <2>2, <2>3
<1> QED  BY <1>1, <1>8, <1>9, <1>10, <1>11, GoodNext

\* The head of the loop of the drains.
LEMMA LoopGood ==
    ASSUME NEW W, NEW E, NEW M, Good(W, E, M), Loop
    PROVE  Good(W, E, M)'
<1> DEFINE e == <<>>
<1>1. /\ pc = "loop" /\ ClearAfterEmit(e)
      /\ pc' = IF BetweenFrames /\ recv_buf' # <<>> THEN "direct" ELSE "poll"
      /\ UNCHANGED <<state, tx_buf, failed, frames, stream, msg_opcode, cur_opcode, cur_fin,
                     batch, delivered, marks, parser, call, ingress>>
  BY DEF Loop, peerVars, outVars, sinkVars
<1>2. TypeOK /\ FramesOK /\ PhaseInv /\ CloseInv /\ Story(W, E, M) /\ IsMeaning(M) /\ IsWire(W, E)
  BY DEF Good
<1>3. W \in Seq(Byte) /\ Len(W) \in Nat /\ \A j \in 0 .. N : E[j] \in Nat
  BY <1>2, WireEnds
<1>4. e \in Seq(Byte)
  BY EmptySeq
<1>5. /\ recv_buf' = Drop(recv_buf, borrowed) \o e
      /\ Drop(recv_buf, borrowed) \in Seq(Byte)
      /\ recv_buf' \in Seq(Byte)
      /\ borrowed' = 0 /\ borrowed' \in 0 .. Len(recv_buf')
      /\ msg_buf' \in Seq(Byte) /\ ctl_buf' \in Seq(Byte)
      /\ last_emitted' = "None"
  BY <1>1, <1>2, <1>4, ClearedTypes
<1>6. recv_buf' = Drop(recv_buf, borrowed)
  BY <1>5, DropNone
<1>7. ingress = <<>> /\ batch = <<>> /\ ~failed /\ call \in {"data", "batch"}
  BY <1>1, <1>2 DEF PhaseInv
<1> HIDE DEF e
<1>8. TypeOK'
  BY <1>1, <1>2, <1>5 DEF TypeOK
<1>9. PhaseInv'
  <2>1. BetweenFrames' = BetweenFrames
    BY <1>1 DEF BetweenFrames
  <2> QED  BY <1>1, <1>2, <1>5, <1>7, <2>1 DEF PhaseInv
<1>10. CloseInv'
  BY <1>1, <1>2 DEF CloseInv
<1>11. Story(W, E, M)'
  <2>1. IsOver' = IsOver
    BY <1>1 DEF IsOver
  <2>2. CASE IsOver
    <3>1. PICK j : Over(W, E, M, j)
      BY <1>2, <2>2 DEF Story
    <3>2. j \in 0 .. N => E[j] \in Nat
      BY <1>3
    <3>3. Piece(W, stream', Len(W) - Len(stream')) /\ Len(stream') \in Nat /\ Len(stream) \in Nat
          /\ Len(stream') <= Len(stream)
      BY <1>1, <1>2, LiveStream, LenProperties DEF TypeOK
    <3>4. Over(W, E, M, j)'
      BY <1>1, <1>3, <3>1, <3>2, <3>3, StaysOver
    <3> QED  BY <2>1, <2>2, <3>4 DEF Story
  <2>3. CASE ~IsOver
    <3>1. PICK i, a : Live(W, E, M, i, a)
      BY <1>2, <2>3 DEF Story
    <3>2. PICK b : b = a + borrowed
      OBVIOUS
    <3>3. Placed(W, b)'
      <4>1. PlacedAt(W, recv_buf, <<>>, stream, a)
        BY <1>7, <3>1 DEF Live, Placed
      <4>2. borrowed \in 0 .. Len(recv_buf)
        BY <1>2 DEF TypeOK
      <4>3. PlacedAt(W, Drop(recv_buf, borrowed), <<>>, stream, b)
        BY <1>3, <3>2, <4>1, <4>2, PlacedDrop
      <4> QED  BY <1>1, <1>6, <1>7, <4>3 DEF Placed
    <3>4. Live(W, E, M, i, b)'
      <4>1. pc' # "ready"
        BY <1>1
      <4> QED  BY <1>1, <3>1, <3>2, <3>3, <4>1, ClearedLive
    <3> QED  BY <2>1, <2>3, <3>4 DEF Story
  <2> QED  BY <2>2, <2>3
<1> QED  BY <1>1, <1>8, <1>9, <1>10, <1>11, GoodNext

\* A drain begins with a chunk, which it reads where it is, or after what is buffered.
LEMMA BeginIngressGood ==
    ASSUME NEW W, NEW E, NEW M, Good(W, E, M), NEW c \in {"data", "batch"}, BeginIngress(c)
    PROVE  Good(W, E, M)'
<1> DEFINE e == <<>>
           direct == BetweenFrames /\ Drop(recv_buf, borrowed) = <<>>
<1>1. PICK n \in 1 .. Len(stream) :
         /\ stream' = Drop(stream, n)
         /\ IF direct THEN pc' = "ingress" /\ ingress' = Prefix(stream, n) /\ ClearAfterEmit(e)
            ELSE pc' = "loop" /\ UNCHANGED ingress /\ ClearAfterEmit(Prefix(stream, n))
  BY DEF BeginIngress
<1>2. /\ pc = "ready" /\ ~failed /\ call' = c /\ marks' = <<>>
      /\ UNCHANGED <<state, tx_buf, failed, frames, msg_opcode, cur_opcode, cur_fin,
                     batch, delivered, parser>>
  BY DEF BeginIngress, CanCall, outVars
<1>3. TypeOK /\ FramesOK /\ PhaseInv /\ CloseInv /\ Story(W, E, M) /\ IsMeaning(M) /\ IsWire(W, E)
  BY DEF Good
<1>4. W \in Seq(Byte) /\ Len(W) \in Nat /\ \A j \in 0 .. N : E[j] \in Nat
  BY <1>3, WireEnds
<1>5. stream \in Seq(Byte) /\ Len(stream) \in Nat /\ borrowed \in 0 .. Len(recv_buf)
  BY <1>3, LenProperties DEF TypeOK
<1>6. n \in 0 .. Len(stream)
  BY <1>5
<1> DEFINE p == Prefix(stream, n)
           d == Drop(stream, n)
           r == Drop(recv_buf, borrowed)
<1>7. /\ Piece(W, d, Len(W) - Len(d)) /\ Len(d) <= Len(stream) /\ Len(d) \in Nat
      /\ d \in Seq(Byte) /\ p \in Seq(Byte)
  BY <1>4, <1>6, LiveStream, RestPiece
<1>8. ingress = <<>> /\ batch = <<>>
  BY <1>2, <1>3 DEF PhaseInv
<1>9. e \in Seq(Byte) /\ marks' \in Seq(BOOLEAN)
  BY <1>2, EmptySeq
<1>10. PICK f \in Seq(Byte) : f = IF direct THEN e ELSE p
  BY <1>7, <1>9
<1>11. ClearAfterEmit(f) /\ stream' = d /\ ingress' = IF direct THEN p ELSE e
  <2>1. CASE direct
    BY <1>1, <1>10, <2>1
  <2>2. CASE ~direct
    BY <1>1, <1>8, <1>10, <2>2
  <2> QED  BY <2>1, <2>2
<1>12. pc' = IF direct THEN "ingress" ELSE "loop"
  BY <1>1
<1>13. /\ recv_buf' = r \o f /\ r \in Seq(Byte)
       /\ recv_buf' \in Seq(Byte)
       /\ borrowed' = 0 /\ borrowed' \in 0 .. Len(recv_buf')
       /\ msg_buf' \in Seq(Byte) /\ ctl_buf' \in Seq(Byte)
       /\ last_emitted' = "None"
  BY <1>3, <1>11, ClearedTypes
<1>14. direct => (BetweenFrames' /\ recv_buf' = e /\ r = e)
  <2>1. r \o e = r
    BY <1>13, DropNone
  <2> QED  BY <1>2, <1>10, <1>13, <2>1 DEF BetweenFrames
<1>15. TypeOK'
  <2>1. ingress' \in Seq(Byte)
    BY <1>7, <1>9, <1>11
  <2> HIDE DEF d, p, r, direct
  <2> QED  BY <1>2, <1>3, <1>7, <1>9, <1>11, <1>12, <1>13, <2>1 DEF TypeOK
<1>16. PhaseInv'
  <2> HIDE DEF d, p, r, direct
  <2> QED  BY <1>2, <1>3, <1>8, <1>11, <1>12, <1>13, <1>14 DEF PhaseInv
<1>17. CloseInv'
  BY <1>2, <1>3 DEF CloseInv
<1>18. Story(W, E, M)'
  <2>1. IsOver' = IsOver
    BY <1>2 DEF IsOver
  <2>2. CASE IsOver
    <3>1. PICK j : Over(W, E, M, j)
      BY <1>3, <2>2 DEF Story
    <3>2. j \in 0 .. N => E[j] \in Nat
      BY <1>4
    <3>3. Over(W, E, M, j)'
      BY <1>2, <1>4, <1>5, <1>7, <1>11, <3>1, <3>2, StaysOver
    <3> QED  BY <2>1, <2>2, <3>3 DEF Story
  <2>3. CASE ~IsOver
    <3>1. PICK i, a : Live(W, E, M, i, a)
      BY <1>3, <2>3 DEF Story
    <3>2. PICK b : b = a + borrowed
      OBVIOUS
    <3>3. Placed(W, b)'
      <4>1. PlacedAt(W, recv_buf, <<>>, stream, a)
        BY <1>8, <3>1 DEF Live, Placed
      <4>2. PlacedAt(W, r, <<>>, stream, b)
        BY <1>4, <1>5, <3>2, <4>1, PlacedDrop
      <4> HIDE DEF r
      <4>3. PlacedAt(W, r, p, d, b)
        BY <1>4, <1>6, <4>2, PlacedChunk
      <4> HIDE DEF p, d
      <4>4. PlacedAt(W, r \o p, <<>>, d, b)
        BY <1>4, <4>3, PlacedFeed
      <4>5. CASE direct
        BY <1>11, <1>14, <4>3, <4>5 DEF Placed
      <4>6. CASE ~direct
        BY <1>10, <1>11, <1>13, <4>4, <4>6 DEF Placed
      <4> QED  BY <4>5, <4>6
    <3>4. Live(W, E, M, i, b)'
      <4>1. pc' # "ready"
        BY <1>12
      <4> QED  BY <1>2, <1>11, <3>1, <3>2, <3>3, <4>1, ClearedLive
    <3> QED  BY <2>1, <2>3, <3>4 DEF Story
  <2> QED  BY <2>2, <2>3
<1> QED  BY <1>2, <1>15, <1>16, <1>17, <1>18, GoodNext

-----------------------------------------------------------------------------
(* Messages given to the sink, and errors.                                  *)

\* One more mark.
LEMMA AppendMark ==
    ASSUME marks \in Seq(BOOLEAN), NEW v \in BOOLEAN
    PROVE  Append(marks, v) \in Seq(BOOLEAN)
BY AppendProperties

\* A message joins what was delivered and what is in the batch.
LEMMA Pushed ==
    ASSUME TypeOK, batch # <<>> => call = "batch", NEW x \in MessageType, Push(x)
    PROVE  /\ delivered' \in Seq(MessageType)
           /\ batch' \in Seq(MessageType)
           /\ Len(batch') <= BatchCapacity
           /\ marks' \in Seq(BOOLEAN)
           /\ delivered' \o batch' = Append(delivered \o batch, x)
           /\ batch' # <<>> => call = "batch"
<1>1. /\ delivered \in Seq(MessageType) /\ batch \in Seq(MessageType)
      /\ Len(batch) <= BatchCapacity /\ marks \in Seq(BOOLEAN)
  BY DEF TypeOK
<1>2. BatchCapacity \in Nat \ {0} /\ Len(batch) \in Nat
  BY <1>1, Bounds, LenProperties
<1> DEFINE u == <<x>>
           t == delivered \o batch
<1>3. u \in Seq(MessageType) /\ Len(u) = 1 /\ t \in Seq(MessageType)
  BY <1>1, Cat
<1>4. Append(t, x) = t \o u
  BY <1>3, AppendIsConcat
<1>5. CASE call # "batch"
  <2>1. delivered' = Append(delivered, x) /\ batch' = batch /\ marks' = marks /\ batch = <<>>
    BY <1>5 DEF Push
  <2>2. Append(delivered, x) \in Seq(MessageType)
    BY <1>1, AppendProperties
  <2>3. Append(delivered, x) \o batch = Append(delivered, x) /\ t = delivered
    BY <1>1, <2>1, <2>2, ConcatEmptySeq
  <2> HIDE DEF t, u
  <2> QED  BY <1>1, <2>1, <2>2, <2>3 DEF t
<1>6. CASE call = "batch" /\ Len(batch) = BatchCapacity
  <2>1. delivered' = t /\ batch' = u /\ marks' = Append(marks, FALSE)
    BY <1>6 DEF Push
  <2>2. marks' \in Seq(BOOLEAN)
    <3>1. PICK v \in BOOLEAN : v = FALSE
      OBVIOUS
    <3> QED  BY <1>1, <2>1, <3>1, AppendMark
  <2> HIDE DEF t, u
  <2> QED  BY <1>2, <1>3, <1>4, <1>6, <2>1, <2>2 DEF t
<1>7. CASE call = "batch" /\ Len(batch) # BatchCapacity
  <2>1. delivered' = delivered /\ batch' = Append(batch, x) /\ marks' = marks
    BY <1>7 DEF Push
  <2>2. batch' \in Seq(MessageType) /\ Len(batch') = Len(batch) + 1
    BY <1>1, <2>1, AppendProperties
  <2>3. batch' = batch \o u
    BY <1>1, <2>1, AppendIsConcat
  <2> HIDE DEF u
  <2>4. (delivered \o batch) \o u = delivered \o (batch \o u)
    <3>1. delivered \in Seq(MessageType) /\ batch \in Seq(MessageType) /\ u \in Seq(MessageType)
      BY <1>1, <1>3
    <3> HIDE DEF t
    <3> QED  BY ONLY <3>1, Assoc
  <2>5. delivered' \o batch' = Append(t, x)
    BY <1>4, <2>1, <2>3, <2>4
  <2>6. Len(batch') <= BatchCapacity
    BY <1>1, <1>2, <1>7, <2>2
  <2> QED  BY <1>1, <1>7, <2>1, <2>2, <2>5, <2>6
<1> QED  BY <1>5, <1>6, <1>7

\* What is in the batch is delivered.
LEMMA Flushed ==
    ASSUME TypeOK, NEW v \in BOOLEAN, Flush(v)
    PROVE  /\ delivered' = delivered \o batch
           /\ delivered' \in Seq(MessageType)
           /\ batch' = <<>>
           /\ marks' \in Seq(BOOLEAN)
           /\ batch' \in Seq(MessageType)
           /\ Len(batch') <= BatchCapacity
           /\ delivered' \o batch' = delivered \o batch
<1>1. delivered \in Seq(MessageType) /\ batch \in Seq(MessageType) /\ marks \in Seq(BOOLEAN)
  BY DEF TypeOK
<1>2. delivered \o batch \in Seq(MessageType)
  BY <1>1, Cat
<1>3. Append(marks, v) \in Seq(BOOLEAN)
  BY <1>1, AppendMark
<1>4. delivered' = delivered \o batch /\ batch' = <<>> /\ marks' \in Seq(BOOLEAN)
  <2>1. CASE batch = <<>>
    BY <1>1, <2>1, ConcatEmptySeq DEF Flush, sinkVars
  <2>2. CASE batch # <<>>
    BY <1>3, <2>2 DEF Flush
  <2> QED  BY <2>1, <2>2
<1>5. <<>> \in Seq(MessageType) /\ Len(<<>>) = 0 /\ BatchCapacity \in Nat
  BY EmptySeq, Bounds
<1>6. (delivered \o batch) \o <<>> = delivered \o batch
  BY <1>2, ConcatEmptySeq
<1> QED  BY <1>2, <1>4, <1>5, <1>6

\* An error of a connection that is open or closing.
LEMMA Failed ==
    ASSUME TypeOK, CloseInv, state \in {"Open", "Closing"}, frames' = frames, Fail
    PROVE  /\ tx_buf' \in Seq(WrittenType)
           /\ state' = "Closing"
           /\ failed' = TRUE
           /\ pc' = "ready"
           /\ CloseInv'
           /\ \A pings \in Seq(Seq(Byte)) :
                 AnswersIn(tx_buf, pings) => AnswersIn(tx_buf', pings)
<1> DEFINE w == Written("Close", <<>>)
<1>1. /\ tx_buf' = IF state \in {"Closing", "Closed"} THEN tx_buf ELSE Append(tx_buf, w)
      /\ state' = IF state = "Open" THEN "Closing" ELSE state
      /\ failed' = TRUE /\ pc' = "ready"
  BY DEF Fail, QueueClose
<1>2. w \in WrittenType /\ w.op = "Close"
  BY EmptySeq, WrittenIs
<1> HIDE DEF w
<1>3. tx_buf \in Seq(WrittenType)
  BY DEF TypeOK, WrittenType
<1>4. PICK b : b = (frames[1].bad = "header")
  OBVIOUS
<1>5. CloseOK(tx_buf, state, b)
  BY <1>4 DEF CloseInv
<1>6. CASE state = "Open"
  <2>1. tx_buf' = Append(tx_buf, w) /\ state' = "Closing"
    BY <1>1, <1>6
  <2>2. tx_buf' \in Seq(WrittenType)
    BY <1>2, <1>3, <2>1, AppendProperties
  <2>3. PICK st \in {"Closing", "Closed"} : st = state'
    BY <2>1
  <2>4. CloseOK(Append(tx_buf, w), st, b)
    <3>1. CloseOK(tx_buf, "Open", b)
      BY <1>5, <1>6
    <3> QED  BY <1>2, <1>3, <3>1, CloseFirst
  <2>5. CloseInv'
    BY <1>4, <2>1, <2>3, <2>4 DEF CloseInv
  <2>6. \A pings \in Seq(Seq(Byte)) : AnswersIn(tx_buf, pings) => AnswersIn(tx_buf', pings)
    BY <1>2, <1>3, <2>1, AnswersKept
  <2> QED  BY <1>1, <2>1, <2>2, <2>5, <2>6
<1>7. CASE state = "Closing"
  <2>1. tx_buf' = tx_buf /\ state' = state
    BY <1>1, <1>7
  <2>2. CloseInv'
    BY <1>4, <1>5, <2>1 DEF CloseInv
  <2> QED  BY <1>1, <1>3, <1>7, <2>1, <2>2
<1> QED  BY <1>6, <1>7

\* The frame in progress begins within what has arrived.
LEMMA LiveBegins ==
    ASSUME NEW W, NEW E, NEW M, Good(W, E, M), NEW i, NEW a, Live(W, E, M, i, a)
    PROVE  /\ E[i - 1] <= a + Len(recv_buf)
           /\ E[i - 1] <= Len(W) - Len(stream)
           /\ a + Len(recv_buf) + Len(ingress) = Len(W) - Len(stream)
<1>1. FramesOK /\ IsWire(W, E) /\ TypeOK
  BY DEF Good
<1>2. /\ i \in 1 .. N + 1 /\ N \in Nat /\ E[i - 1] \in Nat /\ a \in Nat
      /\ Len(recv_buf) \in Nat /\ Len(ingress) \in Nat /\ Len(stream) \in Nat /\ Len(W) \in Nat
      /\ borrowed \in 0 .. Len(recv_buf)
  BY LiveFacts
<1>3. a + Len(recv_buf) + Len(ingress) + Len(stream) = Len(W)
  BY DEF Live, Placed, PlacedAt
<1>4. E[i - 1] <= a + Len(recv_buf)
  <2>1. CASE parser.st = "Payload"
    <3>1. /\ i <= N /\ a + parser.remaining = E[i] /\ parser.remaining <= frames[i].len
          /\ parser.remaining \in Nat
      BY <1>1, <2>1 DEF Live, InPayload, TypeOK
    <3>2. i \in 1 .. N
      BY <1>2, <3>1
    <3>3. E[i] = E[i - 1] + FrameLen(frames[i])
      BY <1>1, <3>2, WireBytes
    <3>4. FrameLen(frames[i]) >= frames[i].len /\ frames[i].len \in Nat /\ FrameLen(frames[i]) \in Nat
      BY <1>1, <3>2, FrameAt
    <3>5. \A x, y, z, n, l \in Nat : (a + x = y /\ x <= l /\ y = z + n /\ n >= l) => z <= a
      BY <1>2
    <3>6. E[i - 1] <= a
      BY <1>1, <1>2, <3>1, <3>2, <3>3, <3>4, <3>5, WireBytes, SMTT(40)
    <3> QED  BY <1>2, <3>6
  <2>2. CASE parser.st # "Payload"
    <3>1. E[i - 1] + Len(parser.partial) = a + borrowed
      BY <2>2 DEF Live, InHeader
    <3>2. Len(parser.partial) \in Nat
      BY <1>1, LenProperties DEF TypeOK
    <3> QED  BY <1>2, <3>1, <3>2
  <2> QED  BY <2>1, <2>2
<1> QED  BY <1>2, <1>3, <1>4

\* An error in frame i, or a Close, ends the story: what was delivered before is all
\* there is.
LEMMA EndedStory ==
    ASSUME NEW W, NEW E, NEW M, Good(W, E, M), NEW i, NEW a, Live(W, E, M, i, a), i \in 1 .. N,
           Wrong(M[i - 1], i) \/ frames[i].op = "Close", IsOver', UNCHANGED <<frames, stream>>,
           delivered' = M[i - 1].out, AutoPong => AnswersIn(tx_buf', M[i - 1].pings)
    PROVE  Story(W, E, M)'
<1> DEFINE j == i - 1
<1>1. FramesOK /\ IsMeaning(M)
  BY DEF Good
<1>2. j \in 0 .. N /\ Settled(M, j)
  BY <1>1, Settles
<1>3. E[j] <= Len(W) - Len(stream)
  BY LiveBegins
<1>4. Piece(W, stream, Len(W) - Len(stream))
  BY LiveStream
<1>5. N' = N
  BY DEF N
<1>6. Settled(M, j)'
  BY <1>2, <1>5 DEF Settled
<1>7. Over(W, E, M, j)'
  <2>1. delivered' = M[j].out /\ (AutoPong => AnswersIn(tx_buf', M[j].pings))
    OBVIOUS
  <2> HIDE DEF j
  <2> QED  BY <1>2, <1>3, <1>4, <1>5, <1>6, <2>1 DEF Over, Piece
<1> QED  BY <1>7 DEF Story

\* An error that a call returns.
LEMMA FailGood ==
    ASSUME NEW W, NEW E, NEW M, Good(W, E, M), NEW i, NEW a, Live(W, E, M, i, a), i \in 1 .. N,
           Wrong(M[i - 1], i) \/ frames[i].op = "Close", state \in {"Open", "Closing"}, Fail,
           UNCHANGED <<frames, stream, call>>,
           delivered' = M[i - 1].out, batch' = <<>>, marks' \in Seq(BOOLEAN),
           last_emitted' = "None", borrowed' = 0,
           recv_buf' \in Seq(Byte), ingress' \in Seq(Byte),
           parser' \in [st : {"Idle", "Header", "Payload"}, partial : Seq(Byte), remaining : Nat],
           parser'.st = "Idle" => parser' = Idle,
           msg_opcode' \in Data \cup {"None"}, msg_buf' \in Seq(Byte),
           cur_opcode' \in Data \cup Control \cup {"Cont", "None"}, cur_fin' \in BOOLEAN,
           ctl_buf' \in Seq(Byte)
    PROVE  Good(W, E, M)'
<1>1. TypeOK /\ CloseInv
  BY DEF Good
<1>2. /\ tx_buf' \in Seq(WrittenType) /\ state' = "Closing" /\ failed' = TRUE /\ pc' = "ready"
      /\ CloseInv'
      /\ \A pings \in Seq(Seq(Byte)) : AnswersIn(tx_buf, pings) => AnswersIn(tx_buf', pings)
  BY <1>1, Failed
<1>3. M[i - 1].pings \in Seq(Seq(Byte)) /\ M[i - 1].out \in Seq(MessageType)
  BY LiveFacts, KnownFields
<1>4. AutoPong => AnswersIn(tx_buf', M[i - 1].pings)
  BY <1>2, <1>3 DEF Live
<1>5. IsOver'
  BY <1>2 DEF IsOver
<1>6. Story(W, E, M)'
  BY <1>4, <1>5, EndedStory
<1>7. TypeOK'
  <2>1. borrowed' \in 0 .. Len(recv_buf') /\ Len(batch') <= BatchCapacity /\ batch' \in Seq(MessageType)
    BY Bounds, EmptySeq, LenProperties
  <2>2. delivered' \in Seq(MessageType)
    BY <1>3
  <2> QED  BY <1>1, <1>2, <2>1, <2>2 DEF TypeOK, WrittenType
<1>8. PhaseInv'
  BY <1>2 DEF PhaseInv
<1> QED  BY <1>2, <1>6, <1>7, <1>8, GoodNext

\* The frame in progress stays the same.
LEMMA SameFrame ==
    ASSUME NEW W, NEW E, NEW M, NEW i, NEW a, Live(W, E, M, i, a),
           UNCHANGED <<frames, borrowed, msg_opcode, msg_buf, cur_opcode, cur_fin, ctl_buf, parser,
                       tx_buf>>,
           Placed(W, a)', delivered' \o batch' = delivered \o batch,
           (state' = "Connecting") = (state = "Connecting"),
           (pc' = "ready" /\ call' \in {"data", "batch"} /\ i <= N) => a + Len(recv_buf') < E[i]
    PROVE  Live(W, E, M, i, a)'
<1>1. N' = N
  BY DEF N
<1>2. parser'.st = "Payload" => InPayload(E, M, i, a)'
  BY SameInPayload DEF Live
<1>3. parser'.st # "Payload" => InHeader(W, E, M, i, a)'
  BY SameInHeader DEF Live
<1> QED  BY <1>1, <1>2, <1>3 DEF Live

-----------------------------------------------------------------------------
(* Frames read in one piece.                                                *)

\* The bytes of a payload are invalid if the frame says so.
LEMMA InvalidPayload ==
    ASSUME FramesOK, NEW i \in 1 .. N
    PROVE  Invalid(Payload(i)) <=> frames[i].bad = "payload"
<1> DEFINE p == Payload(i)
<1>1. /\ Len(p) = frames[i].len
      /\ \A k \in 1 .. frames[i].len : p[k] = <<i, HeaderLen(frames[i]) + k>>
  BY PayloadType
<1>2. frames[i].len \in Nat /\ (frames[i].bad = "payload" => frames[i].len > 0)
  BY FrameAt
<1> HIDE DEF p
<1>3. \A k \in 1 .. Len(p) : p[k][1] = i
  BY <1>1
<1>4. Invalid(p) <=> \E k \in 1 .. Len(p) : frames[p[k][1]].bad = "payload"
  BY DEF Invalid
<1>5. frames[i].bad = "payload" => 1 \in 1 .. Len(p)
  BY <1>1, <1>2
<1> QED  BY <1>3, <1>4, <1>5 DEF p

\* What the scan of a data frame says of frame i, when no message is in progress.
LEMMA DataFrameIs ==
    ASSUME FramesOK, NEW W, NEW E, IsWire(W, E), NEW i \in 2 .. N + 1, NEW m \in Known,
           m.op = "None", NEW s, Piece(W, s, E[i - 1]), Len(s) > 0,
           NEW header \in {"more", "err", "ok"}, NEW taken,
           header = "more" => Len(s) < HeaderLen(At(s)),
           header = "err" => (Len(s) >= 2 /\ BadHeader(s)),
           header = "ok" => ~BadStart(s),
           taken => Unfragmented(At(s))
    PROVE  LET r == DataFrame(s, header, taken)
           IN  /\ i \in 1 .. N
               /\ r \in {"more", "err", "fallback", "parsed"}
               /\ r = "more" => E[i - 1] + Len(s) < E[i]
               /\ r = "err" => Wrong(m, i)
               /\ r = "parsed" =>
                     /\ ~Wrong(m, i)
                     /\ frames[i].op \in Data
                     /\ frames[i].fin
                     /\ FrameLen(At(s)) \in 0 .. Len(s)
                     /\ E[i - 1] + FrameLen(At(s)) = E[i]
                     /\ Whole(s) = Message(OpOf(m, frames[i]), m.acc \o Payload(i))
<1> DEFINE f == frames[i]
           r == DataFrame(s, header, taken)
           acc == m.acc \o Payload(i)
<1>1. i \in 1 .. N + 1 /\ N \in Nat
  BY DEF FramesOK
<1>2. i \in 1 .. N /\ s[1][1] = i /\ s[1][2] = 1 /\ At(s) = f
  BY <1>1, Starts
<1>3. E[i] = E[i - 1] + FrameLen(f) /\ E[i - 1] \in Nat /\ E[i] \in Nat
  BY <1>2, WireBytes
<1>4. Len(s) \in Nat
  BY LenProperties DEF Piece
<1>5. /\ f.op \in Data \cup Control \cup {"Cont"} /\ f.fin \in BOOLEAN /\ f.len \in Nat
      /\ FrameLen(f) \in Nat /\ FrameLen(f) = HeaderLen(f) + f.len /\ HeaderLen(f) \in Nat
      /\ f.bad = "late" => (~f.fin \/ f.op \in Control)
  <2>1. i # 1
    BY <1>1
  <2> QED  BY <1>2, <2>1, FrameAt
<1>6. Payload(i) \in Seq(Byte) /\ Len(Payload(i)) = f.len
  BY <1>2, PayloadType
<1>7. acc = Payload(i) /\ m.acc = <<>>
  BY <1>6, KnownFields, ConcatEmptySeq
<1>8. Invalid(acc) <=> f.bad = "payload"
  BY <1>2, <1>7, InvalidPayload
<1>9. MaxFrame \in Nat /\ MaxMessage \in Nat
  BY Bounds
<1>10. \A op : (op \in Data => op \notin Control \cup {"Upgrade", "Cont"})
  BY DEF Data, Control
<1>11. Wrong(m, i) <=>
          \/ HeaderBad(f)
          \/ f.op \in Control /\ ~f.fin
          \/ f.len > MaxFrame
          \/ f.op \notin Control \cup {"Upgrade"}
             /\ \/ (f.op = "Cont") # (m.op # "None")
                \/ Len(acc) > MaxMessage
                \/ f.fin /\ OpOf(m, f) = "Text" /\ Invalid(acc)
  BY DEF Wrong
<1> HIDE DEF f, acc
<1>12. r \in {"more", "err", "fallback", "parsed"}
  BY DEF DataFrame
<1>13. BadStart(s) <=> f.bad = "header"
  BY <1>2 DEF BadStart
<1>14. BadHeader(s) <=> (HeaderBad(f) \/ (f.op \in Control /\ ~f.fin))
  BY <1>2 DEF BadHeader
<1>15. taken => (f.fin /\ f.op \in Data)
  BY <1>2 DEF Unfragmented
<1>16. ASSUME r = "more" PROVE E[i - 1] + Len(s) < E[i]
  <2>1. Len(s) < FrameLen(f)
    <3>1. CASE header = "more"
      BY <1>2, <1>4, <1>5, <3>1
    <3>2. CASE header # "more"
      BY <1>2, <1>16, <3>2 DEF DataFrame
    <3> QED  BY <3>1, <3>2
  <2> QED  BY <1>3, <1>4, <1>5, <2>1
<1>17. ASSUME r = "err" PROVE Wrong(m, i)
  <2>1. CASE header = "err"
    BY <1>11, <1>14, <2>1
  <2>2. CASE header # "err"
    <3>1. taken /\ (\/ f.len > MaxFrame \/ f.len > MaxMessage
                    \/ (f.op = "Text" /\ f.bad = "payload"))
      BY <1>2, <1>17, <2>2 DEF DataFrame
    <3>2. f.op \notin Control \cup {"Upgrade"} /\ f.op # "Cont" /\ f.fin
      BY <1>10, <1>15, <3>1
    <3>3. Len(acc) = f.len /\ OpOf(m, f) = f.op
      BY <1>6, <1>7, <3>2 DEF OpOf
    <3> QED  BY <1>8, <1>11, <3>1, <3>2, <3>3
  <2> QED  BY <2>1, <2>2
<1>18. ASSUME r = "parsed"
       PROVE  /\ ~Wrong(m, i)
              /\ f.op \in Data
              /\ f.fin
              /\ FrameLen(At(s)) \in 0 .. Len(s)
              /\ E[i - 1] + FrameLen(At(s)) = E[i]
              /\ Whole(s) = Message(OpOf(m, f), acc)
  <2>1. /\ header = "ok" /\ taken
        /\ ~(f.len > MaxFrame) /\ ~(f.len > MaxMessage) /\ ~(Len(s) < FrameLen(f))
        /\ ~(f.op = "Text" /\ f.bad = "payload")
    BY <1>2, <1>18 DEF DataFrame
  <2>2. f.op \notin Control \cup {"Upgrade"} /\ f.op # "Cont" /\ f.fin /\ f.op \in Data
    BY <1>10, <1>15, <2>1
  <2>3. Len(acc) = f.len /\ OpOf(m, f) = f.op
    BY <1>6, <1>7, <2>2 DEF OpOf
  <2>4. ~HeaderBad(f)
    BY <1>5, <1>10, <1>13, <2>1, <2>2 DEF HeaderBad
  <2>5. ~Wrong(m, i)
    BY <1>8, <1>11, <2>1, <2>2, <2>3, <2>4
  <2>6. FrameLen(f) \in 0 .. Len(s)
    BY <1>4, <1>5, <2>1
  <2>7. Whole(s) = Message(OpOf(m, f), acc)
    BY <1>2, <1>7, <2>3 DEF Whole
  <2> QED  BY <1>2, <1>3, <2>2, <2>5, <2>6, <2>7
<1> QED  BY <1>2, <1>12, <1>16, <1>17, <1>18 DEF f, acc

\* parse_complete_server_data_frame
LEMMA ScanIs ==
    ASSUME FramesOK, NEW W, NEW E, IsWire(W, E), NEW i \in 2 .. N + 1, NEW m \in Known,
           m.op = "None", NEW s, Piece(W, s, E[i - 1]), Len(s) > 0
    PROVE  /\ i \in 1 .. N
           /\ FastFrame(s) \in {"more", "err", "fallback", "parsed"}
           /\ FastFrame(s) = "more" => E[i - 1] + Len(s) < E[i]
           /\ FastFrame(s) = "err" => Wrong(m, i)
           /\ FastFrame(s) = "parsed" =>
                 /\ ~Wrong(m, i)
                 /\ frames[i].op \in Data
                 /\ frames[i].fin
                 /\ FrameLen(At(s)) \in 0 .. Len(s)
                 /\ E[i - 1] + FrameLen(At(s)) = E[i]
                 /\ Whole(s) = Message(OpOf(m, frames[i]), m.acc \o Payload(i))
<1>1. i \in 1 .. N + 1 /\ Len(s) \in Nat
  BY LenProperties DEF FramesOK, Piece
<1>2. i \in 1 .. N /\ At(s) = frames[i]
  BY <1>1, Starts
<1>3. HeaderLen(At(s)) \in {2, 3}
  BY <1>2, FrameAt
<1> DEFINE header == FastHeader(s)
           taken == Unfragmented(At(s)) /\ ~At(s).wide
<1>4. FastFrame(s) = DataFrame(s, header, taken)
  BY DEF FastFrame
<1>5. header \in {"more", "err", "ok"}
  BY DEF FastHeader
<1>6. header = "more" => Len(s) < HeaderLen(At(s))
  BY <1>1, <1>3 DEF FastHeader
<1>7. header = "err" => (Len(s) >= 2 /\ BadHeader(s))
  BY <1>1 DEF FastHeader, BadStart, BadHeader, HeaderBad
<1>8. header = "ok" => ~BadStart(s)
  BY DEF FastHeader
<1>9. taken => Unfragmented(At(s))
  OBVIOUS
<1> HIDE DEF header, taken
<1> QED  BY <1>4, <1>5, <1>6, <1>7, <1>8, <1>9, DataFrameIs

\* try_emit_borrowed_data
LEMMA BorrowedIs ==
    ASSUME FramesOK, NEW W, NEW E, IsWire(W, E), NEW i \in 2 .. N + 1, NEW m \in Known,
           m.op = "None", NEW s, Piece(W, s, E[i - 1]), Len(s) > 0
    PROVE  /\ i \in 1 .. N
           /\ BorrowedFrame(s) \in {"more", "err", "fallback", "parsed"}
           /\ BorrowedFrame(s) = "more" => E[i - 1] + Len(s) < E[i]
           /\ BorrowedFrame(s) = "err" => Wrong(m, i)
           /\ BorrowedFrame(s) = "parsed" =>
                 /\ ~Wrong(m, i)
                 /\ frames[i].op \in Data
                 /\ frames[i].fin
                 /\ FrameLen(At(s)) \in 0 .. Len(s)
                 /\ E[i - 1] + FrameLen(At(s)) = E[i]
                 /\ Whole(s) = Message(OpOf(m, frames[i]), m.acc \o Payload(i))
<1>1. i \in 1 .. N + 1 /\ Len(s) \in Nat
  BY LenProperties DEF FramesOK, Piece
<1>2. i \in 1 .. N /\ At(s) = frames[i]
  BY <1>1, Starts
<1>3. HeaderLen(At(s)) \in {2, 3}
  BY <1>2, FrameAt
<1> DEFINE header == ParseHeader(s)
           taken == Unfragmented(At(s))
<1>4. BorrowedFrame(s) = DataFrame(s, header, taken)
  BY DEF BorrowedFrame
<1>5. header \in {"more", "err", "ok"}
  BY DEF ParseHeader
<1>6. header = "more" => Len(s) < HeaderLen(At(s))
  BY <1>1, <1>3 DEF ParseHeader
<1>7. header = "err" => (Len(s) >= 2 /\ BadHeader(s))
  BY <1>1 DEF ParseHeader, BadStart, BadHeader, HeaderBad
<1>8. header = "ok" => ~BadStart(s)
  BY DEF ParseHeader
<1>9. taken => Unfragmented(At(s))
  OBVIOUS
<1> HIDE DEF header, taken
<1> QED  BY <1>4, <1>5, <1>6, <1>7, <1>8, <1>9, DataFrameIs

\* Between frames the next one begins where the buffer does.
LEMMA BetweenIs ==
    ASSUME NEW W, NEW E, NEW M, Good(W, E, M), NEW i, NEW a, Live(W, E, M, i, a),
           BetweenFrames, borrowed = 0
    PROVE  /\ i \in 2 .. N + 1
           /\ E[i - 1] = a
           /\ M[i - 1] \in Known
           /\ M[i - 1].op = "None"
           /\ parser.partial = <<>>
           /\ parser.st = "Idle"
           /\ Piece(W, recv_buf, E[i - 1])
           /\ Piece(W, ingress, a + Len(recv_buf))
<1>1. /\ i \in 1 .. N + 1 /\ N \in Nat /\ M[i - 1] \in Known /\ E[i - 1] \in Nat /\ a \in Nat
  BY LiveFacts
<1>2. state = "Open" /\ parser = Idle /\ msg_opcode = "None"
  BY DEF BetweenFrames
<1>3. i # 1
  BY <1>2 DEF Live
<1>4. parser.partial = <<>> /\ parser.st = "Idle"
  BY <1>2 DEF Idle
<1>5. InHeader(W, E, M, i, a)
  BY <1>4 DEF Live
<1>6. E[i - 1] + 0 = a + 0 /\ msg_opcode = M[i - 1].op
  BY <1>4, <1>5, EmptySeq DEF InHeader, KeepsMessage
<1>7. E[i - 1] = a
  BY <1>1, <1>6
<1>8. Piece(W, recv_buf, a) /\ Piece(W, ingress, a + Len(recv_buf))
  BY DEF Live, Placed, PlacedAt
<1> QED  BY <1>1, <1>2, <1>3, <1>4, <1>6, <1>7, <1>8

\* A data frame was read whole.
LEMMA WholeRead ==
    ASSUME NEW W, NEW E, NEW M, Good(W, E, M), NEW i, NEW a, Live(W, E, M, i, a),
           BetweenFrames, borrowed = 0, i \in 1 .. N,
           ~Wrong(M[i - 1], i), frames[i].op \in Data, frames[i].fin,
           UNCHANGED <<frames, parser, msg_opcode, state, tx_buf>>,
           NEW b, Placed(W, b)', b + borrowed' = E[i],
           delivered' \o batch' =
              Append(delivered \o batch, Message(OpOf(M[i - 1], frames[i]), M[i - 1].acc \o Payload(i))),
           pc' # "ready" \/ call' = "poll"
    PROVE  Live(W, E, M, i + 1, b)'
<1> DEFINE j == i + 1
           m == M[i - 1]
<1>1. FramesOK /\ IsWire(W, E) /\ IsMeaning(M)
  BY DEF Good
<1>2. /\ i \in 2 .. N + 1 /\ M[i - 1] \in Known /\ parser.partial = <<>> /\ parser.st = "Idle"
  BY BetweenIs
<1>3. N \in Nat /\ E[i] \in Nat /\ E[i] <= Len(W) /\ W \in Seq(Byte)
  BY <1>1, WireBytes, WireEnds
<1>4. j \in 1 .. N + 1 /\ j - 1 = i /\ j # 1
  BY <1>3
<1>5. M[i] = Read(M[i - 1], i)
  BY <1>1, MeaningSteps
<1>6. frames[i].op \notin Control \cup {"Upgrade"}
  BY DEF Data, Control
<1>7. ~M[i - 1].over /\ delivered \o batch = M[i - 1].out
      /\ (AutoPong => AnswersIn(tx_buf, M[i - 1].pings))
  BY DEF Live
<1>8. /\ ~M[i].over
      /\ M[i].out = Append(M[i - 1].out, Message(OpOf(M[i - 1], frames[i]), M[i - 1].acc \o Payload(i)))
      /\ M[i].pings = M[i - 1].pings
      /\ M[i].op = "None"
  BY <1>1, <1>2, <1>5, <1>6, <1>7, ReadLast, SMTT(40)
<1>9. N' = N
  BY DEF N
<1>10. Piece(W, <<>>, E[i]) /\ Len(<<>>) = 0
  BY <1>3, PieceEmpty, EmptySeq
<1>11. msg_opcode = "None" /\ state = "Open"
  BY DEF BetweenFrames
<1>12. KeepsMessage(M[i])'
  BY <1>8, <1>11 DEF KeepsMessage
<1>13. InHeader(W, E, M, j, b)'
  <2>1. E[i] + 0 = E[i]
    BY <1>3
  <2> HIDE DEF j
  <2> QED  BY <1>2, <1>4, <1>10, <1>12, <2>1 DEF InHeader, Piece
<1>14. delivered' \o batch' = M[i].out
  BY <1>7, <1>8
<1> HIDE DEF j
<1>15. Live(W, E, M, j, b)'
  BY <1>2, <1>4, <1>7, <1>8, <1>9, <1>11, <1>13, <1>14 DEF Live
<1> QED  BY <1>15 DEF j

\* A frame is read from the chunk.
LEMMA PlacedSkip ==
    ASSUME NEW W \in Seq(Byte), NEW g, NEW s, NEW a, PlacedAt(W, <<>>, g, s, a), NEW n \in 0 .. Len(g)
    PROVE  PlacedAt(W, <<>>, Drop(g, n), s, a + n)
<1>1. /\ Piece(W, g, a + Len(<<>>)) /\ Piece(W, s, a + Len(<<>>) + Len(g)) /\ Len(<<>>) = 0
      /\ a + Len(<<>>) + Len(g) + Len(s) = Len(W) /\ a \in Nat
  BY EmptySeq DEF PlacedAt, Piece
<1>2. Len(g) \in Nat /\ Len(s) \in Nat /\ Len(W) \in Nat
  BY <1>1, LenProperties DEF Piece
<1>3. Piece(W, g, a)
  BY <1>1
<1> DEFINE d == Drop(g, n)
<1>4. Piece(W, d, a + n) /\ Len(d) = Len(g) - n
  BY <1>3, PieceCut
<1> HIDE DEF d
<1>5. /\ a + n + 0 = a + n /\ a + n + 0 + Len(d) = a + 0 + Len(g)
      /\ a + n + 0 + Len(d) + Len(s) = Len(W) /\ a + n \in Nat /\ a + n <= Len(W)
  BY <1>1, <1>2, <1>4
<1>6. Piece(W, <<>>, a + n)
  BY <1>5, PieceEmpty
<1> QED  BY <1>1, <1>4, <1>5, <1>6 DEF PlacedAt, d

\* Where a scan is.
LEMMA InScan ==
    ASSUME NEW W, NEW E, NEW M, Good(W, E, M), pc \in {"ingress", "direct"}
    PROVE  /\ ~failed /\ state = "Open" /\ ~IsOver /\ BetweenFrames /\ borrowed = 0
           /\ last_emitted = "None" /\ call \in {"data", "batch"}
           /\ parser = Idle /\ msg_opcode = "None"
           /\ \E i, a : Live(W, E, M, i, a)
<1>1. PhaseInv /\ Story(W, E, M)
  BY DEF Good
<1>2. /\ ~failed /\ BetweenFrames /\ last_emitted = "None" /\ borrowed = 0
      /\ call \in {"data", "batch"}
  BY <1>1 DEF PhaseInv
<1>3. state = "Open" /\ parser = Idle /\ msg_opcode = "None"
  BY <1>2 DEF BetweenFrames
<1>4. ~IsOver
  BY <1>2, <1>3 DEF IsOver
<1> QED  BY <1>1, <1>2, <1>3, <1>4 DEF Story

\* try_drain_ingress_data_events and the like: a frame.
LEMMA IngressFrameGood ==
    ASSUME NEW W, NEW E, NEW M, Good(W, E, M), IngressFrame
    PROVE  Good(W, E, M)'
<1> DEFINE n == FrameLen(At(ingress))
           x == Whole(ingress)
<1>1. /\ pc = "ingress" /\ Scan(ingress) = "parsed" /\ Push(x) /\ ingress' = Drop(ingress, n)
      /\ UNCHANGED <<state, tx_buf, failed, frames, stream, recv_buf, borrowed, last_emitted,
                     msg_opcode, msg_buf, cur_opcode, cur_fin, ctl_buf, parser, call, pc>>
  BY DEF IngressFrame, peerVars, bufVars, msgVars, curVars, outVars
<1>2. TypeOK /\ FramesOK /\ PhaseInv /\ CloseInv /\ IsMeaning(M) /\ IsWire(W, E)
  BY DEF Good
<1>3. /\ ~IsOver /\ BetweenFrames /\ borrowed = 0 /\ ~failed
      /\ \E i, a : Live(W, E, M, i, a)
  BY <1>1, InScan
<1>4. PICK i, a : Live(W, E, M, i, a)
  BY <1>3
<1>5. recv_buf = <<>> /\ Len(recv_buf) = 0 /\ (batch # <<>> => call = "batch")
  BY <1>1, <1>2, EmptySeq DEF PhaseInv
<1>6. ingress # <<>> /\ FastFrame(ingress) = "parsed" /\ ingress \in Seq(Byte) /\ Len(ingress) > 0
      /\ Len(ingress) \in Nat
  BY <1>1, <1>2, EmptySeq, LenProperties DEF Scan, TypeOK
<1>7. /\ i \in 2 .. N + 1 /\ E[i - 1] = a /\ M[i - 1] \in Known /\ M[i - 1].op = "None"
      /\ Piece(W, ingress, a + Len(recv_buf)) /\ a \in Nat
  BY <1>3, <1>4, BetweenIs, LiveFacts
<1>8. Piece(W, ingress, E[i - 1])
  BY <1>5, <1>7
<1>9. /\ i \in 1 .. N
      /\ ~Wrong(M[i - 1], i)
      /\ frames[i].op \in Data
      /\ frames[i].fin
      /\ n \in 0 .. Len(ingress)
      /\ E[i - 1] + n = E[i]
      /\ x = Message(OpOf(M[i - 1], frames[i]), M[i - 1].acc \o Payload(i))
  BY <1>2, <1>6, <1>7, <1>8, ScanIs
<1>10. x \in MessageType
  <2>1. frames[i].op \notin Control \cup {"Upgrade"}
    BY <1>9 DEF Data, Control
  <2>2. ~M[i - 1].over
    BY <1>4 DEF Live
  <2> QED  BY <1>2, <1>7, <1>9, <2>1, <2>2, ReadLast
<1> HIDE DEF n, x
<1>11. /\ delivered' \in Seq(MessageType)
       /\ batch' \in Seq(MessageType)
       /\ Len(batch') <= BatchCapacity
       /\ marks' \in Seq(BOOLEAN)
       /\ delivered' \o batch' = Append(delivered \o batch, x)
       /\ batch' # <<>> => call = "batch"
  BY <1>1, <1>2, <1>5, <1>10, Pushed
<1>12. ingress' \in Seq(Byte)
  BY <1>1, <1>6, <1>9, Split DEF Drop
<1>13. TypeOK'
  BY <1>1, <1>2, <1>11, <1>12 DEF TypeOK
<1>14. PhaseInv'
  BY <1>1, <1>2, <1>11 DEF PhaseInv, BetweenFrames
<1>15. CloseInv'
  BY <1>1, <1>2 DEF CloseInv
<1>16. Story(W, E, M)'
  <2>1. ~IsOver'
    BY <1>1, <1>3 DEF IsOver
  <2>2. PICK b : b = a + n
    OBVIOUS
  <2>3. W \in Seq(Byte)
    BY <1>2, WireEnds
  <2>4. Placed(W, b)'
    <3>1. PlacedAt(W, <<>>, ingress, stream, a)
      BY <1>4, <1>5 DEF Live, Placed
    <3>2. PlacedAt(W, <<>>, Drop(ingress, n), stream, b)
      BY <1>9, <2>2, <2>3, <3>1, PlacedSkip
    <3> QED  BY <1>1, <1>5, <3>2 DEF Placed
  <2>5. b + borrowed' = E[i]
    BY <1>1, <1>3, <1>6, <1>7, <1>9, <2>2
  <2>6. pc' # "ready"
    BY <1>1
  <2>7. Live(W, E, M, i + 1, b)'
    BY <1>1, <1>3, <1>4, <1>9, <1>11, <2>4, <2>5, <2>6, WholeRead
  <2> QED  BY <2>1, <2>7 DEF Story
<1> QED  BY <1>1, <1>13, <1>14, <1>15, <1>16, GoodNext

\* try_drain_data_events and the like: a frame.
LEMMA DirectFrameGood ==
    ASSUME NEW W, NEW E, NEW M, Good(W, E, M), DirectFrame
    PROVE  Good(W, E, M)'
<1> DEFINE n == FrameLen(At(recv_buf))
           x == Whole(recv_buf)
<1>1. /\ pc = "direct" /\ Scan(recv_buf) = "parsed" /\ Push(x) /\ recv_buf' = Drop(recv_buf, n)
      /\ UNCHANGED <<state, tx_buf, failed, frames, stream, borrowed, last_emitted,
                     msg_opcode, msg_buf, cur_opcode, cur_fin, ctl_buf, parser, call, pc, ingress>>
  BY DEF DirectFrame, peerVars, msgVars, curVars, outVars
<1>2. TypeOK /\ FramesOK /\ PhaseInv /\ CloseInv /\ IsMeaning(M) /\ IsWire(W, E)
  BY DEF Good
<1>3. /\ ~IsOver /\ BetweenFrames /\ borrowed = 0 /\ ~failed
      /\ \E i, a : Live(W, E, M, i, a)
  BY <1>1, InScan
<1>4. PICK i, a : Live(W, E, M, i, a)
  BY <1>3
<1>5. ingress = <<>> /\ (batch # <<>> => call = "batch")
  BY <1>1, <1>2, <1>3 DEF PhaseInv
<1>6. FastFrame(recv_buf) = "parsed" /\ recv_buf \in Seq(Byte) /\ Len(recv_buf) > 0
      /\ Len(recv_buf) \in Nat
  BY <1>1, <1>2, EmptySeq, LenProperties DEF Scan, TypeOK
<1>7. /\ i \in 2 .. N + 1 /\ E[i - 1] = a /\ M[i - 1] \in Known /\ M[i - 1].op = "None"
      /\ Piece(W, recv_buf, E[i - 1]) /\ a \in Nat
  BY <1>3, <1>4, BetweenIs, LiveFacts
<1>9. /\ i \in 1 .. N
      /\ ~Wrong(M[i - 1], i)
      /\ frames[i].op \in Data
      /\ frames[i].fin
      /\ n \in 0 .. Len(recv_buf)
      /\ E[i - 1] + n = E[i]
      /\ x = Message(OpOf(M[i - 1], frames[i]), M[i - 1].acc \o Payload(i))
  BY <1>2, <1>6, <1>7, ScanIs
<1>10. x \in MessageType
  <2>1. frames[i].op \notin Control \cup {"Upgrade"}
    BY <1>9 DEF Data, Control
  <2>2. ~M[i - 1].over
    BY <1>4 DEF Live
  <2> QED  BY <1>2, <1>7, <1>9, <2>1, <2>2, ReadLast
<1> HIDE DEF n, x
<1>11. /\ delivered' \in Seq(MessageType)
       /\ batch' \in Seq(MessageType)
       /\ Len(batch') <= BatchCapacity
       /\ marks' \in Seq(BOOLEAN)
       /\ delivered' \o batch' = Append(delivered \o batch, x)
       /\ batch' # <<>> => call = "batch"
  BY <1>1, <1>2, <1>5, <1>10, Pushed
<1>12. recv_buf' \in Seq(Byte) /\ borrowed' \in 0 .. Len(recv_buf')
  <2>1. recv_buf' \in Seq(Byte)
    BY <1>1, <1>6, <1>9, Split DEF Drop
  <2> QED  BY <1>1, <1>3, <2>1, LenProperties
<1>13. TypeOK'
  BY <1>1, <1>2, <1>11, <1>12 DEF TypeOK
<1>14. PhaseInv'
  BY <1>1, <1>2, <1>11 DEF PhaseInv, BetweenFrames
<1>15. CloseInv'
  BY <1>1, <1>2 DEF CloseInv
<1>16. Story(W, E, M)'
  <2>1. ~IsOver'
    BY <1>1, <1>3 DEF IsOver
  <2>2. PICK b : b = a + n
    OBVIOUS
  <2>3. W \in Seq(Byte)
    BY <1>2, WireEnds
  <2>4. Placed(W, b)'
    <3>1. PlacedAt(W, recv_buf, <<>>, stream, a)
      BY <1>4, <1>5 DEF Live, Placed
    <3>2. PlacedAt(W, Drop(recv_buf, n), <<>>, stream, b)
      BY <1>9, <2>2, <2>3, <3>1, PlacedDrop
    <3> QED  BY <1>1, <1>5, <3>2 DEF Placed
  <2>5. b + borrowed' = E[i]
    BY <1>1, <1>3, <1>6, <1>7, <1>9, <2>2
  <2>6. pc' # "ready"
    BY <1>1
  <2>7. Live(W, E, M, i + 1, b)'
    BY <1>1, <1>3, <1>4, <1>9, <1>11, <2>4, <2>5, <2>6, WholeRead
  <2> QED  BY <2>1, <2>7 DEF Story
<1> QED  BY <1>1, <1>13, <1>14, <1>15, <1>16, GoodNext

\* What the scan of s meets next, s being all that is left of what was fed.
LEMMA ScanEnds ==
    ASSUME NEW W, NEW E, NEW M, Good(W, E, M), NEW i, NEW a, Live(W, E, M, i, a),
           BetweenFrames, borrowed = 0, NEW s, Piece(W, s, a)
    PROVE  /\ Scan(s) \in {"drained", "more", "err", "fallback", "parsed"}
           /\ Scan(s) = "err" => (i \in 1 .. N /\ Wrong(M[i - 1], i))
           /\ (Scan(s) \in {"drained", "more"} /\ i <= N) => a + Len(s) < E[i]
<1>1. FramesOK /\ IsWire(W, E)
  BY DEF Good
<1>2. /\ i \in 2 .. N + 1 /\ E[i - 1] = a /\ M[i - 1] \in Known /\ M[i - 1].op = "None"
      /\ a \in Nat /\ N \in Nat
  BY BetweenIs, LiveFacts
<1>3. CASE s = <<>>
  <2>1. Scan(s) = "drained" /\ Len(s) = 0
    BY <1>3, EmptySeq DEF Scan
  <2>2. i <= N => a + 0 < E[i]
    <3> SUFFICES ASSUME i <= N PROVE a + 0 < E[i]
      OBVIOUS
    <3>1. i \in 1 .. N
      BY <1>2
    <3>2. E[i - 1] < E[i] /\ E[i] \in Nat
      BY <1>1, <3>1, WireBytes
    <3> QED  BY <1>2, <3>2
  <2> QED  BY <2>1, <2>2
<1>4. CASE s # <<>>
  <2>1. Len(s) > 0 /\ Scan(s) = FastFrame(s)
    BY <1>4, EmptySeq, LenProperties DEF Scan, Piece
  <2>2. Piece(W, s, E[i - 1])
    BY <1>2
  <2>3. /\ i \in 1 .. N
        /\ FastFrame(s) \in {"more", "err", "fallback", "parsed"}
        /\ FastFrame(s) = "more" => E[i - 1] + Len(s) < E[i]
        /\ FastFrame(s) = "err" => Wrong(M[i - 1], i)
    BY <1>1, <1>2, <2>1, <2>2, ScanIs
  <2> QED  BY <1>2, <2>1, <2>3
<1> QED  BY <1>3, <1>4

\* try_drain_ingress_data_events and the like: the end of the scan.
LEMMA IngressEndGood ==
    ASSUME NEW W, NEW E, NEW M, Good(W, E, M), IngressEnd
    PROVE  Good(W, E, M)'
<1>1. PICK r : r = Scan(ingress)
  OBVIOUS
<1>2. /\ pc = "ingress" /\ r # "parsed" /\ Flush(r # "fallback")
      /\ recv_buf' = IF r = "err" THEN recv_buf ELSE recv_buf \o ingress
      /\ ingress' = <<>>
      /\ IF r = "err" THEN Fail
         ELSE pc' = (IF r = "fallback" THEN "loop" ELSE "ready")
              /\ UNCHANGED <<state, tx_buf, failed>>
      /\ UNCHANGED <<frames, stream, borrowed, last_emitted, msg_opcode, msg_buf, cur_opcode,
                     cur_fin, ctl_buf, parser, call>>
  BY <1>1 DEF IngressEnd, peerVars, msgVars, curVars, outVars
<1>3. TypeOK /\ FramesOK /\ PhaseInv /\ CloseInv /\ IsMeaning(M) /\ IsWire(W, E)
  BY DEF Good
<1>4. /\ ~IsOver /\ BetweenFrames /\ borrowed = 0 /\ ~failed /\ state = "Open"
      /\ last_emitted = "None" /\ call \in {"data", "batch"} /\ parser = Idle
      /\ \E i, a : Live(W, E, M, i, a)
  BY <1>2, InScan
<1>5. PICK i, a : Live(W, E, M, i, a)
  BY <1>4
<1>6. recv_buf = <<>> /\ Len(recv_buf) = 0 /\ ingress \in Seq(Byte)
  BY <1>2, <1>3, EmptySeq DEF PhaseInv, TypeOK
<1>7. Piece(W, ingress, a)
  <2>1. a \in Nat /\ Piece(W, ingress, a + Len(recv_buf))
    BY <1>4, <1>5, BetweenIs, LiveFacts
  <2> QED  BY <1>6, <2>1
<1>8. /\ r \in {"drained", "more", "err", "fallback"}
      /\ r = "err" => (i \in 1 .. N /\ Wrong(M[i - 1], i))
      /\ (r \in {"drained", "more"} /\ i <= N) => a + Len(ingress) < E[i]
  BY <1>1, <1>2, <1>4, <1>5, <1>7, ScanEnds
<1>9. /\ delivered' = delivered \o batch /\ delivered' \in Seq(MessageType)
      /\ batch' = <<>> /\ marks' \in Seq(BOOLEAN) /\ batch' \in Seq(MessageType)
      /\ Len(batch') <= BatchCapacity /\ delivered' \o batch' = delivered \o batch
  <2>1. PICK v \in BOOLEAN : v = (r # "fallback")
    OBVIOUS
  <2> QED  BY <1>2, <1>3, <2>1, Flushed
<1>10. <<>> \in Seq(Byte) /\ recv_buf \o ingress = ingress
  BY <1>6, EmptySeq, ConcatEmptySeq
<1>11. recv_buf' \in Seq(Byte) /\ ingress' \in Seq(Byte)
  BY <1>2, <1>6, <1>10
<1>12. CASE r = "err"
  <2>1. delivered' = M[i - 1].out
    BY <1>5, <1>9 DEF Live
  <2>2. /\ parser' \in [st : {"Idle", "Header", "Payload"}, partial : Seq(Byte), remaining : Nat]
        /\ parser'.st = "Idle" => parser' = Idle
        /\ msg_opcode' \in Data \cup {"None"} /\ msg_buf' \in Seq(Byte)
        /\ cur_opcode' \in Data \cup Control \cup {"Cont", "None"} /\ cur_fin' \in BOOLEAN
        /\ ctl_buf' \in Seq(Byte) /\ last_emitted' = "None" /\ borrowed' = 0
    BY <1>2, <1>3, <1>4 DEF TypeOK
  <2>3. Fail /\ i \in 1 .. N /\ Wrong(M[i - 1], i) /\ UNCHANGED <<frames, stream, call>>
    BY <1>2, <1>8, <1>12
  <2> QED  BY <1>4, <1>5, <1>9, <1>11, <2>1, <2>2, <2>3, FailGood
<1>13. CASE r # "err"
  <2>1. /\ pc' = (IF r = "fallback" THEN "loop" ELSE "ready") /\ recv_buf' = ingress
        /\ UNCHANGED <<state, tx_buf, failed>>
    BY <1>2, <1>10, <1>13
  <2>2. TypeOK'
    <3>1. borrowed' \in 0 .. Len(recv_buf')
      BY <1>2, <1>4, <1>11, LenProperties
    <3> QED  BY <1>2, <1>3, <1>9, <1>11, <2>1, <3>1 DEF TypeOK
  <2>3. PhaseInv'
    BY <1>2, <1>3, <1>4, <1>9, <2>1 DEF PhaseInv
  <2>4. CloseInv'
    BY <1>2, <1>3, <2>1 DEF CloseInv
  <2>5. Placed(W, a)'
    <3>1. PlacedAt(W, recv_buf, ingress, stream, a)
      BY <1>5 DEF Live, Placed
    <3>2. PlacedAt(W, recv_buf \o ingress, <<>>, stream, a)
      BY <1>3, <3>1, PlacedFeed, WireEnds
    <3> QED  BY <1>2, <1>10, <2>1, <3>2 DEF Placed
  <2>6. (pc' = "ready" /\ call' \in {"data", "batch"} /\ i <= N) => a + Len(recv_buf') < E[i]
    BY <1>8, <1>13, <2>1
  <2>7. Live(W, E, M, i, a)'
    BY <1>2, <1>5, <1>9, <2>1, <2>5, <2>6, SameFrame
  <2>8. Story(W, E, M)'
    BY <1>4, <2>1, <2>7 DEF Story, IsOver
  <2> QED  BY <1>2, <2>2, <2>3, <2>4, <2>8, GoodNext
<1> QED  BY <1>12, <1>13

\* try_drain_data_events and the like: the end of the scan.
LEMMA DirectEndGood ==
    ASSUME NEW W, NEW E, NEW M, Good(W, E, M), DirectEnd
    PROVE  Good(W, E, M)'
<1>1. PICK r : r = Scan(recv_buf)
  OBVIOUS
<1>2. /\ pc = "direct" /\ r # "parsed" /\ Flush(r # "fallback")
      /\ IF r = "err" THEN Fail ELSE pc' = AfterDirect(r) /\ UNCHANGED <<state, tx_buf, failed>>
      /\ UNCHANGED <<frames, stream, recv_buf, borrowed, last_emitted, msg_opcode, msg_buf,
                     cur_opcode, cur_fin, ctl_buf, parser, call, ingress>>
  BY <1>1 DEF DirectEnd, peerVars, bufVars, msgVars, curVars, outVars
<1>3. TypeOK /\ FramesOK /\ PhaseInv /\ CloseInv /\ IsMeaning(M) /\ IsWire(W, E)
  BY DEF Good
<1>4. /\ ~IsOver /\ BetweenFrames /\ borrowed = 0 /\ ~failed /\ state = "Open"
      /\ last_emitted = "None" /\ call \in {"data", "batch"} /\ parser = Idle
      /\ \E i, a : Live(W, E, M, i, a)
  BY <1>2, InScan
<1>5. PICK i, a : Live(W, E, M, i, a)
  BY <1>4
<1>6. Piece(W, recv_buf, a)
  BY <1>5 DEF Live, Placed, PlacedAt
<1>7. /\ r \in {"drained", "more", "err", "fallback"}
      /\ r = "err" => (i \in 1 .. N /\ Wrong(M[i - 1], i))
      /\ (r \in {"drained", "more"} /\ i <= N) => a + Len(recv_buf) < E[i]
  BY <1>1, <1>2, <1>4, <1>5, <1>6, ScanEnds
<1>8. /\ delivered' = delivered \o batch /\ delivered' \in Seq(MessageType)
      /\ batch' = <<>> /\ marks' \in Seq(BOOLEAN) /\ batch' \in Seq(MessageType)
      /\ Len(batch') <= BatchCapacity /\ delivered' \o batch' = delivered \o batch
  <2>1. PICK v \in BOOLEAN : v = (r # "fallback")
    OBVIOUS
  <2> QED  BY <1>2, <1>3, <2>1, Flushed
<1>9. CASE r = "err"
  <2>1. delivered' = M[i - 1].out
    BY <1>5, <1>8 DEF Live
  <2>2. /\ parser' \in [st : {"Idle", "Header", "Payload"}, partial : Seq(Byte), remaining : Nat]
        /\ parser'.st = "Idle" => parser' = Idle
        /\ msg_opcode' \in Data \cup {"None"} /\ msg_buf' \in Seq(Byte)
        /\ cur_opcode' \in Data \cup Control \cup {"Cont", "None"} /\ cur_fin' \in BOOLEAN
        /\ ctl_buf' \in Seq(Byte) /\ last_emitted' = "None" /\ borrowed' = 0
        /\ recv_buf' \in Seq(Byte) /\ ingress' \in Seq(Byte)
    BY <1>2, <1>3, <1>4 DEF TypeOK
  <2>3. Fail /\ i \in 1 .. N /\ Wrong(M[i - 1], i) /\ UNCHANGED <<frames, stream, call>>
    BY <1>2, <1>7, <1>9
  <2> QED  BY <1>4, <1>5, <1>8, <2>1, <2>2, <2>3, FailGood
<1>10. CASE r # "err"
  <2>1. /\ pc' = (IF r = "drained" THEN "loop" ELSE IF r = "fallback" THEN "poll" ELSE "ready")
        /\ UNCHANGED <<state, tx_buf, failed>>
    BY <1>2, <1>10 DEF AfterDirect
  <2>2. TypeOK'
    BY <1>2, <1>3, <1>8, <2>1 DEF TypeOK
  <2>3. PhaseInv'
    BY <1>2, <1>3, <1>4, <1>8, <2>1 DEF PhaseInv
  <2>4. CloseInv'
    BY <1>2, <1>3, <2>1 DEF CloseInv
  <2>5. Placed(W, a)'
    BY <1>2, <1>5, SamePlaced DEF Live
  <2>6. (pc' = "ready" /\ call' \in {"data", "batch"} /\ i <= N) => a + Len(recv_buf') < E[i]
    BY <1>2, <1>7, <1>10, <2>1
  <2>7. Live(W, E, M, i, a)'
    BY <1>2, <1>5, <1>8, <2>1, <2>5, <2>6, SameFrame
  <2>8. Story(W, E, M)'
    BY <1>4, <2>1, <2>7 DEF Story, IsOver
  <2> QED  BY <1>2, <2>2, <2>3, <2>4, <2>8, GoodNext
<1> QED  BY <1>9, <1>10

-----------------------------------------------------------------------------
(* poll_event.                                                              *)

\* Where poll_event is.
LEMMA InPoll ==
    ASSUME NEW W, NEW E, NEW M, Good(W, E, M), pc = "poll"
    PROVE  /\ ~failed /\ last_emitted = "None" /\ borrowed = 0 /\ ingress = <<>> /\ batch = <<>>
           /\ call \in {"poll", "data", "batch"}
           /\ state # "Closed" => ~IsOver /\ \E i, a : Live(W, E, M, i, a)
<1>1. PhaseInv /\ Story(W, E, M)
  BY DEF Good
<1>2. /\ ~failed /\ last_emitted = "None" /\ borrowed = 0 /\ ingress = <<>> /\ batch = <<>>
      /\ call \in {"poll", "data", "batch"}
  BY <1>1 DEF PhaseInv
<1>3. state # "Closed" => ~IsOver
  BY <1>2 DEF IsOver
<1> QED  BY <1>1, <1>2, <1>3 DEF Story

\* A message is returned, or given to the sink by itself.
LEMMA Surfaced ==
    ASSUME TypeOK, batch = <<>>, NEW x \in MessageType, Surface(x)
    PROVE  /\ delivered' \in Seq(MessageType)
           /\ batch' = <<>>
           /\ batch' \in Seq(MessageType)
           /\ Len(batch') <= BatchCapacity
           /\ marks' \in Seq(BOOLEAN)
           /\ delivered' \o batch' = Append(delivered \o batch, x)
<1>1. delivered \in Seq(MessageType) /\ marks \in Seq(BOOLEAN)
  BY DEF TypeOK
<1>2. /\ delivered' = Append(delivered, x) /\ batch' = batch
      /\ marks' = IF call = "batch" THEN Append(marks, TRUE) ELSE marks
  BY DEF Surface
<1>3. PICK v \in BOOLEAN : v = TRUE
  OBVIOUS
<1>4. marks' \in Seq(BOOLEAN)
  <2>1. Append(marks, v) \in Seq(BOOLEAN)
    BY <1>1, AppendMark
  <2> QED  BY <1>1, <1>2, <1>3, <2>1
<1>5. Append(delivered, x) \in Seq(MessageType)
  BY <1>1, AppendProperties
<1>6. Append(delivered, x) \o <<>> = Append(delivered, x) /\ delivered \o <<>> = delivered
  BY <1>1, <1>5, ConcatEmptySeq
<1>7. <<>> \in Seq(MessageType) /\ Len(<<>>) = 0 /\ BatchCapacity \in Nat
  BY EmptySeq, Bounds
<1>8. delivered' \in Seq(MessageType) /\ batch' = <<>> /\ batch' \in Seq(MessageType)
  BY <1>2, <1>5, <1>7
<1>9. Len(batch') <= BatchCapacity
  BY <1>7, <1>8
<1>10. delivered' \o batch' = Append(delivered \o batch, x)
  BY <1>2, <1>6
<1> QED  BY <1>4, <1>8, <1>9, <1>10

\* poll_event of a connection that is closed.
LEMMA PollClosedGood ==
    ASSUME NEW W, NEW E, NEW M, Good(W, E, M), PollClosed
    PROVE  Good(W, E, M)'
<1>1. /\ pc = "poll" /\ state = "Closed" /\ pc' = "ready"
      /\ UNCHANGED <<state, tx_buf, failed, frames, stream, recv_buf, borrowed, last_emitted,
                     msg_opcode, msg_buf, cur_opcode, cur_fin, ctl_buf, batch, delivered, marks,
                     parser, call, ingress>>
  BY DEF PollClosed, peerVars, bufVars, msgVars, curVars, outVars, sinkVars
<1>2. TypeOK /\ FramesOK /\ PhaseInv /\ CloseInv /\ Story(W, E, M) /\ IsWire(W, E)
  BY DEF Good
<1>3. TypeOK'
  BY <1>1, <1>2 DEF TypeOK
<1>4. PhaseInv'
  BY <1>1, <1>2 DEF PhaseInv
<1>5. CloseInv'
  BY <1>1, <1>2 DEF CloseInv
<1>6. Story(W, E, M)'
  <2>1. IsOver /\ IsOver'
    BY <1>1 DEF IsOver
  <2>2. PICK j : Over(W, E, M, j)
    BY <1>2, <2>1 DEF Story
  <2>3. Len(W) \in Nat /\ Len(stream) \in Nat /\ (j \in 0 .. N => E[j] \in Nat)
    BY <1>2, WireEnds, LenProperties DEF TypeOK
  <2>4. Piece(W, stream', Len(W) - Len(stream')) /\ Len(stream') <= Len(stream) /\ Len(stream') \in Nat
    BY <1>1, <2>2, <2>3 DEF Over
  <2>5. Over(W, E, M, j)'
    BY <1>1, <2>2, <2>3, <2>4, StaysOver
  <2> QED  BY <2>1, <2>5 DEF Story
<1> QED  BY <1>1, <1>3, <1>4, <1>5, <1>6, GoodNext

\* try_emit_borrowed_data
LEMMA PollBorrowedGood ==
    ASSUME NEW W, NEW E, NEW M, Good(W, E, M), PollBorrowed
    PROVE  Good(W, E, M)'
<1> DEFINE n == FrameLen(At(recv_buf))
           x == Whole(recv_buf)
<1>1. PICK r : r = BorrowedFrame(recv_buf)
  OBVIOUS
<1>2. /\ pc = "poll" /\ BetweenFrames /\ recv_buf # <<>>
      /\ UNCHANGED <<frames, stream, recv_buf, msg_opcode, msg_buf, cur_opcode, cur_fin, ctl_buf,
                     parser, call, ingress>>
      /\ \/ /\ r = "more" /\ pc' = "ready"
            /\ UNCHANGED <<borrowed, last_emitted, state, tx_buf, failed, batch, delivered, marks>>
         \/ r = "err" /\ Fail /\ UNCHANGED <<borrowed, last_emitted, batch, delivered, marks>>
         \/ /\ r = "parsed" /\ Surface(x) /\ Emit("Borrowed") /\ borrowed' = n
            /\ UNCHANGED <<state, tx_buf, failed>>
  BY <1>1 DEF PollBorrowed, TryBorrow, peerVars, msgVars, curVars, outVars, sinkVars
<1>3. TypeOK /\ FramesOK /\ PhaseInv /\ CloseInv /\ IsMeaning(M) /\ IsWire(W, E)
  BY DEF Good
<1>4. /\ state = "Open" /\ parser = Idle /\ msg_opcode = "None"
  BY <1>2 DEF BetweenFrames
<1>5. /\ ~failed /\ last_emitted = "None" /\ borrowed = 0 /\ ingress = <<>> /\ batch = <<>>
      /\ call \in {"poll", "data", "batch"} /\ ~IsOver /\ \E i, a : Live(W, E, M, i, a)
  BY <1>2, <1>4, InPoll
<1>6. PICK i, a : Live(W, E, M, i, a)
  BY <1>5
<1>7. /\ i \in 2 .. N + 1 /\ E[i - 1] = a /\ M[i - 1] \in Known /\ M[i - 1].op = "None"
      /\ Piece(W, recv_buf, E[i - 1])
  BY <1>2, <1>5, <1>6, BetweenIs
<1>8. Len(recv_buf) > 0 /\ Len(recv_buf) \in Nat
  BY <1>2, <1>3, EmptySeq, LenProperties DEF TypeOK
<1>9. /\ i \in 1 .. N
      /\ r = "more" => E[i - 1] + Len(recv_buf) < E[i]
      /\ r = "err" => Wrong(M[i - 1], i)
      /\ r = "parsed" =>
            /\ ~Wrong(M[i - 1], i)
            /\ frames[i].op \in Data
            /\ frames[i].fin
            /\ n \in 0 .. Len(recv_buf)
            /\ E[i - 1] + n = E[i]
            /\ x = Message(OpOf(M[i - 1], frames[i]), M[i - 1].acc \o Payload(i))
  BY <1>1, <1>3, <1>7, <1>8, BorrowedIs
<1>10. delivered \in Seq(MessageType) /\ delivered = M[i - 1].out /\ ~M[i - 1].over
  <2>1. delivered \in Seq(MessageType) /\ delivered \o batch = M[i - 1].out /\ ~M[i - 1].over
    BY <1>3, <1>6 DEF Live, TypeOK
  <2> QED  BY <1>5, <2>1, ConcatEmptySeq
<1> HIDE DEF n, x
<1>11. CASE r = "more"
  <2>1. /\ pc' = "ready"
        /\ UNCHANGED <<borrowed, last_emitted, state, tx_buf, failed, batch, delivered, marks>>
    BY <1>2, <1>11
  <2>2. TypeOK'
    BY <1>2, <1>3, <2>1 DEF TypeOK
  <2>3. PhaseInv'
    BY <1>2, <1>3, <1>5, <2>1 DEF PhaseInv
  <2>4. CloseInv'
    BY <1>2, <1>3, <2>1 DEF CloseInv
  <2>5. Placed(W, a)'
    BY <1>2, <1>6, SamePlaced DEF Live
  <2>6. a + Len(recv_buf') < E[i]
    BY <1>2, <1>7, <1>9, <1>11
  <2>7. Live(W, E, M, i, a)'
    BY <1>2, <1>6, <2>1, <2>5, <2>6, SameFrame
  <2>8. Story(W, E, M)'
    BY <1>5, <2>1, <2>7 DEF Story, IsOver
  <2> QED  BY <1>2, <2>2, <2>3, <2>4, <2>8, GoodNext
<1>12. CASE r = "err"
  <2>1. Fail /\ UNCHANGED <<borrowed, last_emitted, batch, delivered, marks>>
    BY <1>2, <1>12
  <2>2. /\ parser' \in [st : {"Idle", "Header", "Payload"}, partial : Seq(Byte), remaining : Nat]
        /\ parser'.st = "Idle" => parser' = Idle
        /\ msg_opcode' \in Data \cup {"None"} /\ msg_buf' \in Seq(Byte)
        /\ cur_opcode' \in Data \cup Control \cup {"Cont", "None"} /\ cur_fin' \in BOOLEAN
        /\ ctl_buf' \in Seq(Byte) /\ last_emitted' = "None" /\ borrowed' = 0
        /\ recv_buf' \in Seq(Byte) /\ ingress' \in Seq(Byte) /\ marks' \in Seq(BOOLEAN)
        /\ batch' = <<>>
    BY <1>2, <1>3, <1>4, <1>5, <2>1 DEF TypeOK
  <2>3. delivered' = M[i - 1].out
    BY <1>10, <2>1
  <2>4. Wrong(M[i - 1], i) /\ UNCHANGED <<frames, stream, call>>
    BY <1>2, <1>9, <1>12
  <2> QED  BY <1>4, <1>6, <1>9, <2>1, <2>2, <2>3, <2>4, FailGood
<1>13. CASE r = "parsed"
  <2>1. /\ Surface(x) /\ borrowed' = n /\ last_emitted' = "Borrowed"
        /\ pc' = (IF call = "poll" THEN "ready" ELSE "loop") /\ UNCHANGED <<state, tx_buf, failed>>
    BY <1>2, <1>13 DEF Emit
  <2>2. /\ ~Wrong(M[i - 1], i) /\ frames[i].op \in Data /\ frames[i].fin
        /\ n \in 0 .. Len(recv_buf) /\ E[i - 1] + n = E[i]
        /\ x = Message(OpOf(M[i - 1], frames[i]), M[i - 1].acc \o Payload(i))
    BY <1>9, <1>13
  <2>3. x \in MessageType
    <3>1. frames[i].op \notin Control \cup {"Upgrade"}
      BY <2>2 DEF Data, Control
    <3> QED  BY <1>3, <1>7, <1>9, <1>10, <2>2, <3>1, ReadLast
  <2>4. /\ delivered' \in Seq(MessageType) /\ batch' = <<>> /\ batch' \in Seq(MessageType)
        /\ Len(batch') <= BatchCapacity /\ marks' \in Seq(BOOLEAN)
        /\ delivered' \o batch' = Append(delivered \o batch, x)
    BY <1>3, <1>5, <2>1, <2>3, Surfaced
  <2>5. TypeOK'
    <3>1. borrowed' \in 0 .. Len(recv_buf')
      BY <1>2, <2>1, <2>2
    <3> QED  BY <1>2, <1>3, <2>1, <2>4, <3>1 DEF TypeOK
  <2>6. PhaseInv'
    BY <1>2, <1>4, <1>5, <2>1, <2>4 DEF PhaseInv
  <2>7. CloseInv'
    BY <1>2, <1>3, <2>1 DEF CloseInv
  <2>8. Placed(W, a)'
    BY <1>2, <1>6, SamePlaced DEF Live
  <2>9. a + borrowed' = E[i]
    BY <1>7, <2>1, <2>2
  <2>10. pc' # "ready" \/ call' = "poll"
    BY <1>2, <2>1
  <2>11. Live(W, E, M, i + 1, a)'
    BY <1>2, <1>5, <1>6, <1>9, <2>1, <2>2, <2>4, <2>8, <2>9, <2>10, WholeRead
  <2>12. Story(W, E, M)'
    BY <1>5, <2>1, <2>11 DEF Story, IsOver
  <2> QED  BY <1>2, <2>5, <2>6, <2>7, <2>12, GoodNext
<1> QED  BY <1>2, <1>11, <1>12, <1>13

\* Frame i is read, the next one begins after it.
LEMMA NextFrame ==
    ASSUME NEW W, NEW E, NEW M, Good(W, E, M), NEW i, i \in 1 .. N, frames' = frames,
           ~M[i].over, delivered' \o batch' = M[i].out,
           AutoPong => AnswersIn(tx_buf', M[i].pings),
           state' # "Connecting", parser' = Idle, KeepsMessage(M[i])',
           NEW b, Placed(W, b)', b + borrowed' = E[i],
           pc' # "ready" \/ call' = "poll"
    PROVE  Live(W, E, M, i + 1, b)'
<1> DEFINE j == i + 1
<1>1. FramesOK /\ IsWire(W, E)
  BY DEF Good
<1>2. N \in Nat /\ E[i] \in Nat /\ E[i] <= Len(W) /\ W \in Seq(Byte)
  BY <1>1, WireBytes, WireEnds
<1>3. j \in 1 .. N + 1 /\ j - 1 = i /\ j # 1
  BY <1>2
<1>4. N' = N
  BY DEF N
<1>5. parser'.partial = <<>> /\ parser'.st = "Idle"
  BY DEF Idle
<1>6. Piece(W, <<>>, E[i]) /\ Len(<<>>) = 0
  BY <1>2, PieceEmpty, EmptySeq
<1>7. InHeader(W, E, M, j, b)'
  <2>1. E[i] + 0 = E[i]
    BY <1>2
  <2> HIDE DEF j
  <2> QED  BY <1>3, <1>5, <1>6, <2>1 DEF InHeader, Piece
<1> HIDE DEF j
<1>8. Live(W, E, M, j, b)'
  BY <1>3, <1>4, <1>5, <1>7 DEF Live
<1> QED  BY <1>8 DEF j

\* advance_handshake
LEMMA AdvanceHandshakeGood ==
    ASSUME NEW W, NEW E, NEW M, Good(W, E, M), AdvanceHandshake
    PROVE  Good(W, E, M)'
<1>1. /\ pc = "poll" /\ state = "Connecting"
      /\ UNCHANGED <<frames, stream, borrowed, msg_opcode, msg_buf, cur_opcode, cur_fin, ctl_buf,
                     tx_buf, batch, delivered, marks, parser, call, ingress>>
      /\ \/ /\ Len(recv_buf) < 2 /\ pc' = "ready"
            /\ UNCHANGED <<recv_buf, last_emitted, state, failed>>
         \/ /\ Len(recv_buf) >= 2 /\ BadHeader(recv_buf) /\ state' = "Closed" /\ failed' = TRUE
            /\ pc' = "ready" /\ UNCHANGED <<recv_buf, last_emitted>>
         \/ /\ Len(recv_buf) >= 2 /\ ~BadHeader(recv_buf) /\ recv_buf' = Drop(recv_buf, 2)
            /\ state' = "Open" /\ Emit("Handshake") /\ failed' = failed
  BY DEF AdvanceHandshake, Advances, peerVars, msgVars, curVars, sinkVars
<1>2. TypeOK /\ FramesOK /\ PhaseInv /\ CloseInv /\ IsMeaning(M) /\ IsWire(W, E)
  BY DEF Good
<1>3. /\ ~failed /\ last_emitted = "None" /\ borrowed = 0 /\ ingress = <<>> /\ batch = <<>>
      /\ call \in {"poll", "data", "batch"} /\ ~IsOver /\ \E i, a : Live(W, E, M, i, a)
  BY <1>1, InPoll
<1>4. PICK i, a : Live(W, E, M, i, a)
  BY <1>3
<1>5. i = 1 /\ parser = Idle /\ 1 \in 1 .. N /\ 1 \in 1 .. N + 1
  BY <1>1, <1>2, <1>3, <1>4 DEF Live, PhaseInv, FramesOK
<1>6. parser.partial = <<>> /\ parser.st = "Idle"
  BY <1>5 DEF Idle
<1>7. a = 0 /\ E[0] = 0 /\ 1 - 1 = 0 /\ E[1] = 2 /\ a \in Nat
  <2>1. E[1 - 1] + Len(<<>>) = a + 0 /\ Len(<<>>) = 0
    BY <1>3, <1>4, <1>5, <1>6, EmptySeq DEF Live, InHeader
  <2>2. E[0] = 0 /\ a \in Nat
    BY <1>2, <1>4, WireEnds, LiveFacts
  <2>3. E[1] = E[1 - 1] + FrameLen(frames[1])
    BY <1>2, <1>5, WireBytes
  <2>4. FrameLen(frames[1]) = 2
    BY <1>2, <1>5, FrameAt
  <2> QED  BY <2>1, <2>2, <2>3, <2>4
<1>8. recv_buf \in Seq(Byte) /\ Len(recv_buf) \in Nat
  BY <1>2, LenProperties DEF TypeOK
<1>9. /\ frames[1].op = "Upgrade" /\ frames[1].len = 0 /\ frames[1].op \notin Control
      /\ frames[1].op \notin {"Ping", "Close"}
  <2>1. frames[1].op = "Upgrade" /\ frames[1].len = 0
    BY <1>2, <1>5, FrameAt
  <2> QED  BY <2>1 DEF Control
<1>10. Len(recv_buf) >= 2 => (BadHeader(recv_buf) <=> frames[1].bad = "header")
  <2> SUFFICES ASSUME Len(recv_buf) >= 2
               PROVE  BadHeader(recv_buf) <=> frames[1].bad = "header"
    OBVIOUS
  <2>1. Piece(W, recv_buf, E[1 - 1])
    BY <1>4, <1>7 DEF Live, Placed, PlacedAt
  <2>2. Len(recv_buf) > 0
    BY <1>8
  <2>3. recv_buf[1][2] = 1 /\ At(recv_buf) = frames[1]
    BY <1>2, <1>5, <2>1, <2>2, Starts
  <2> QED  BY <1>2, <1>9, <2>3, UpgradeBad DEF BadHeader
<1>11. PICK bad : bad = (frames[1].bad = "header")
  OBVIOUS
<1>12. CloseOK(tx_buf, "Connecting", bad)
  BY <1>1, <1>2, <1>11 DEF CloseInv
<1>13. CASE Len(recv_buf) < 2
  <2>1. pc' = "ready" /\ UNCHANGED <<recv_buf, last_emitted, state, failed>>
    BY <1>1, <1>8, <1>13
  <2>2. TypeOK'
    BY <1>1, <1>2, <2>1 DEF TypeOK
  <2>3. PhaseInv'
    BY <1>1, <1>2, <1>3, <2>1 DEF PhaseInv
  <2>4. CloseInv'
    BY <1>1, <1>2, <2>1 DEF CloseInv
  <2>5. Placed(W, a)'
    BY <1>1, <1>4, <2>1, SamePlaced DEF Live
  <2>6. a + Len(recv_buf') < E[i]
    BY <1>5, <1>7, <1>8, <1>13, <2>1
  <2>7. Live(W, E, M, i, a)'
    BY <1>1, <1>4, <2>1, <2>5, <2>6, SameFrame
  <2>8. Story(W, E, M)'
    BY <1>3, <2>1, <2>7 DEF Story, IsOver
  <2> QED  BY <1>1, <2>2, <2>3, <2>4, <2>8, GoodNext
<1>14. CASE Len(recv_buf) >= 2 /\ BadHeader(recv_buf)
  <2>1. state' = "Closed" /\ failed' = TRUE /\ pc' = "ready" /\ UNCHANGED <<recv_buf, last_emitted>>
    BY <1>1, <1>8, <1>14
  <2>2. TypeOK'
    BY <1>1, <1>2, <2>1 DEF TypeOK
  <2>3. PhaseInv'
    BY <1>1, <1>2, <1>3, <2>1 DEF PhaseInv
  <2>4. frames[1].bad = "header"
    BY <1>10, <1>14
  <2>5. CloseInv'
    <3>1. CloseOK(tx_buf, "Closed", bad)
      BY <1>11, <1>12, <2>4, CloseState
    <3> QED  BY <1>1, <1>11, <2>1, <3>1 DEF CloseInv
  <2>6. Wrong(M[i - 1], i)
    BY <1>2, <1>5, <2>4, UpgradeBad DEF Wrong
  <2>7. delivered' = M[i - 1].out /\ (AutoPong => AnswersIn(tx_buf', M[i - 1].pings))
    <3>1. delivered \in Seq(MessageType) /\ delivered \o batch = M[i - 1].out
          /\ (AutoPong => AnswersIn(tx_buf, M[i - 1].pings))
      BY <1>2, <1>4 DEF Live, TypeOK
    <3> QED  BY <1>1, <1>3, <3>1, ConcatEmptySeq
  <2>8. IsOver'
    BY <2>1 DEF IsOver
  <2>9. Story(W, E, M)'
    BY <1>1, <1>4, <1>5, <2>6, <2>7, <2>8, EndedStory
  <2> QED  BY <1>1, <2>2, <2>3, <2>5, <2>9, GoodNext
<1>15. CASE Len(recv_buf) >= 2 /\ ~BadHeader(recv_buf)
  <2>1. /\ recv_buf' = Drop(recv_buf, 2) /\ state' = "Open" /\ last_emitted' = "Handshake"
        /\ pc' = (IF call = "poll" THEN "ready" ELSE "loop") /\ failed' = failed
    BY <1>1, <1>8, <1>15 DEF Emit
  <2>2. 2 \in 0 .. Len(recv_buf)
    BY <1>8, <1>15
  <2>3. TypeOK'
    <3>1. recv_buf' \in Seq(Byte)
      BY <1>8, <2>1, <2>2, Split DEF Drop
    <3>2. borrowed' \in 0 .. Len(recv_buf')
      BY <1>1, <1>3, <3>1, LenProperties
    <3> QED  BY <1>1, <1>2, <2>1, <3>1, <3>2 DEF TypeOK
  <2>4. PhaseInv'
    BY <1>1, <1>3, <1>5, <2>1 DEF PhaseInv
  <2>5. CloseInv'
    <3>1. CloseOK(tx_buf, "Open", bad)
      BY <1>12, CloseUpgrade
    <3> QED  BY <1>1, <1>11, <2>1, <3>1 DEF CloseInv
  <2>6. Placed(W, E[1])'
    <3>1. PlacedAt(W, recv_buf, <<>>, stream, a)
      BY <1>3, <1>4 DEF Live, Placed
    <3>2. PlacedAt(W, Drop(recv_buf, 2), <<>>, stream, a + 2)
      BY <1>2, <2>2, <3>1, PlacedDrop, WireEnds
    <3>3. a + 2 = E[1]
      BY <1>7
    <3> QED  BY <1>1, <1>3, <2>1, <3>2, <3>3 DEF Placed
  <2>7. M[1] = M[0] /\ M[0] = Unread
    <3>1. M[0] = Unread /\ M[1] = Read(M[1 - 1], 1)
      BY <1>2, <1>5, MeaningSteps
    <3>2. ~M[0].over
      BY <1>4, <1>5, <1>7 DEF Live
    <3>3. ~HeaderBad(frames[1]) /\ MaxFrame \in Nat
      BY <1>2, <1>10, <1>15, Bounds, UpgradeBad
    <3>4. ~Wrong(M[0], 1)
      BY <1>9, <3>3 DEF Wrong
    <3>5. Read(M[0], 1) = M[0]
      BY <1>9, <3>2, <3>4, ReadNothing
    <3> QED  BY <1>7, <3>1, <3>5
  <2>8. /\ ~M[1].over /\ delivered' \o batch' = M[1].out
        /\ AutoPong => AnswersIn(tx_buf', M[1].pings)
    BY <1>1, <1>4, <1>5, <1>7, <2>7 DEF Live
  <2>9. KeepsMessage(M[1])'
    <3>1. KeepsMessage(M[0])
      BY <1>4, <1>5, <1>6, <1>7 DEF Live, InHeader
    <3> QED  BY <1>1, <2>7, <3>1 DEF KeepsMessage
  <2>10. PICK b : b = E[1]
    OBVIOUS
  <2>11. b + borrowed' = E[1]
    BY <1>1, <1>3, <1>7, <2>10
  <2>12. (pc' # "ready" \/ call' = "poll") /\ parser' = Idle /\ state' # "Connecting"
    BY <1>1, <1>5, <2>1
  <2>13. Placed(W, b)'
    BY <2>6, <2>10
  <2>14. Live(W, E, M, 1 + 1, b)'
    BY <1>1, <1>5, <2>8, <2>9, <2>11, <2>12, <2>13, NextFrame
  <2>15. Story(W, E, M)'
    BY <1>3, <2>1, <2>14 DEF Story, IsOver
  <2> QED  BY <1>1, <2>3, <2>4, <2>5, <2>15, GoodNext
<1> QED  BY <1>1, <1>13, <1>14, <1>15

\* What the parser holds of a header comes before the buffer.
LEMMA PlacedBack ==
    ASSUME NEW W \in Seq(Byte), NEW r, NEW s, NEW a, PlacedAt(W, r, <<>>, s, a),
           NEW p, NEW c, Piece(W, p, c), c + Len(p) = a
    PROVE  PlacedAt(W, p \o r, <<>>, s, c)
<1>1. /\ Piece(W, r, a) /\ Piece(W, <<>>, a + Len(r)) /\ Piece(W, s, a + Len(r) + Len(<<>>))
      /\ a + Len(r) + Len(<<>>) + Len(s) = Len(W) /\ Len(<<>>) = 0
  BY EmptySeq DEF PlacedAt
<1>2. Len(r) \in Nat /\ Len(s) \in Nat /\ Len(p) \in Nat /\ a \in Nat /\ c \in Nat
  BY <1>1, LenProperties DEF Piece
<1>3. Piece(W, p \o r, c) /\ Len(p \o r) = Len(p) + Len(r)
  BY <1>1, PieceCat
<1>4. c + Len(p \o r) = a + Len(r)
  BY <1>2, <1>3
<1> QED  BY <1>1, <1>3, <1>4 DEF PlacedAt

\* How many bytes of the header that s begins with are needed to read it.
Need(s) == IF Len(s) < 2 \/ s[1][2] # 1 THEN 2 ELSE HeaderLen(At(s))

\* h, what the parser and the buffer hold, begins with the header of frame i.
IsHeader(W, E, M, i, a, h, need) ==
    /\ i \in 2 .. N + 1
    /\ h \in Seq(Byte) /\ Len(h) \in Nat
    /\ PlacedAt(W, h, <<>>, stream, E[i - 1])
    /\ Len(h) = Len(parser.partial) + Len(recv_buf)
    /\ E[i - 1] + Len(parser.partial) = a
    /\ KeepsMessage(M[i - 1])
    /\ need \in {2, 3}
    /\ (Len(h) < need /\ i <= N) => E[i - 1] + Len(h) < E[i]
    /\ Len(h) >= need =>
          /\ i \in 1 .. N
          /\ At(h) = frames[i]
          /\ need = HeaderLen(frames[i])
          /\ BadHeader(h) <=>
               (HeaderBad(frames[i]) \/ (frames[i].op \in Control /\ ~frames[i].fin))

\* The header that feed_one gathers is the one of frame i.
LEMMA HeaderIs ==
    ASSUME NEW W, NEW E, NEW M, Good(W, E, M), NEW i, NEW a, Live(W, E, M, i, a),
           pc = "poll", state \in {"Open", "Closing"}, parser.st \in {"Idle", "Header"},
           NEW h, h = parser.partial \o recv_buf,
           NEW need, need = Need(h)
    PROVE  IsHeader(W, E, M, i, a, h, need)
<1>1. TypeOK /\ FramesOK /\ IsWire(W, E)
  BY DEF Good
<1>2. /\ i \in 1 .. N + 1 /\ N \in Nat /\ E[i - 1] \in Nat /\ a \in Nat /\ W \in Seq(Byte)
      /\ Len(recv_buf) \in Nat
  BY LiveFacts
<1>3. borrowed = 0 /\ ingress = <<>>
  BY InPoll
<1>4. i # 1
  BY DEF Live
<1>5. InHeader(W, E, M, i, a)
  BY DEF Live
<1>6. parser.partial \in Seq(Byte) /\ Len(parser.partial) \in Nat
  BY <1>1, LenProperties DEF TypeOK
<1>7. E[i - 1] + Len(parser.partial) = a /\ Piece(W, parser.partial, E[i - 1]) /\ KeepsMessage(M[i - 1])
  BY <1>2, <1>3, <1>5, <1>6 DEF InHeader
<1>8. PlacedAt(W, h, <<>>, stream, E[i - 1])
  <2>1. PlacedAt(W, recv_buf, <<>>, stream, a)
    BY <1>3 DEF Live, Placed
  <2> QED  BY <1>2, <1>7, <2>1, PlacedBack
<1>9. Piece(W, h, E[i - 1]) /\ h \in Seq(Byte) /\ Len(h) \in Nat
  BY <1>8, LenProperties DEF PlacedAt, Piece
<1>10. Len(h) = Len(parser.partial) + Len(recv_buf)
  BY <1>1, <1>6, Cat DEF TypeOK
<1>11. Len(h) > 0 => (i \in 1 .. N /\ h[1][2] = 1 /\ At(h) = frames[i])
  <2> SUFFICES ASSUME Len(h) > 0 PROVE i \in 1 .. N /\ h[1][2] = 1 /\ At(h) = frames[i]
    OBVIOUS
  <2> QED  BY ONLY <1>1, <1>2, <1>9, Len(h) > 0, Starts
<1>12. i \in 1 .. N =>
          /\ HeaderLen(frames[i]) \in {2, 3} /\ frames[i].len \in Nat
          /\ E[i] = E[i - 1] + FrameLen(frames[i])
          /\ FrameLen(frames[i]) = HeaderLen(frames[i]) + frames[i].len
  BY <1>1, FrameAt, WireBytes
<1>13. need = IF Len(h) < 2 \/ h[1][2] # 1 THEN 2 ELSE HeaderLen(At(h))
  BY DEF Need
<1>14. need \in {2, 3}
  <2>1. CASE Len(h) < 2
    BY <1>13, <2>1
  <2>2. CASE ~(Len(h) < 2)
    BY <1>9, <1>11, <1>12, <1>13, <2>2
  <2> QED  BY <2>1, <2>2
<1>15. ASSUME Len(h) < need, i <= N PROVE E[i - 1] + Len(h) < E[i]
  <2>1. i \in 1 .. N
    BY <1>2, <1>15
  <2>2. need = 2 \/ need = HeaderLen(frames[i])
    BY <1>9, <1>11, <1>13
  <2>3. Len(h) < HeaderLen(frames[i])
    BY <1>9, <1>12, <1>15, <2>1, <2>2
  <2>4. HeaderLen(frames[i]) \in Nat /\ HeaderLen(frames[i]) <= FrameLen(frames[i])
        /\ FrameLen(frames[i]) \in Nat
    BY <1>12, <2>1
  <2>5. \A x, y, z, u \in Nat : (x < y /\ y <= z) => u + x < u + z
    OBVIOUS
  <2>6. E[i - 1] + Len(h) < E[i - 1] + FrameLen(frames[i])
    BY <1>2, <1>9, <2>3, <2>4, <2>5
  <2> QED  BY <1>12, <2>1, <2>6
<1>16. ASSUME Len(h) >= need
       PROVE  /\ i \in 1 .. N /\ At(h) = frames[i] /\ need = HeaderLen(frames[i])
              /\ BadHeader(h) <=>
                   (HeaderBad(frames[i]) \/ (frames[i].op \in Control /\ ~frames[i].fin))
  <2>1. Len(h) > 0 /\ ~(Len(h) < 2)
    BY <1>9, <1>14, <1>16
  <2>2. i \in 1 .. N /\ h[1][2] = 1 /\ At(h) = frames[i]
    BY <1>11, <2>1
  <2>3. need = HeaderLen(frames[i])
    BY <1>13, <2>1, <2>2
  <2> QED  BY <2>2, <2>3 DEF BadHeader
<1>17. i \in 2 .. N + 1
  BY <1>2, <1>4
<1> QED  BY <1>7, <1>8, <1>9, <1>10, <1>14, <1>15, <1>16, <1>17 DEF IsHeader

\* on_frame_start: the frames refused are wrong, and the others are taken.
LEMMA FrameStarts ==
    ASSUME FramesOK, TypeOK, NEW i \in 2 .. N, i \in 1 .. N, NEW m \in Known, KeepsMessage(m),
           StartMessage(frames[i])
    PROVE  /\ msg_opcode' \in Data \cup {"None"} /\ msg_buf' \in Seq(Byte)
           /\ Refused(frames[i]) => Wrong(m, i)
           /\ ~Refused(frames[i]) =>
                 /\ frames[i].len <= MaxFrame
                 /\ frames[i].op \in Control => KeepsMessage(m)'
                 /\ frames[i].op \notin Control =>
                       /\ (frames[i].op = "Cont") = (m.op # "None")
                       /\ Len(m.acc) + frames[i].len <= MaxMessage
                       /\ msg_opcode' = OpOf(m, frames[i])
                       /\ msg_buf' = m.acc
<1> DEFINE f == frames[i]
<1>1. /\ f.op \in Data \cup Control \cup {"Cont", "Upgrade"} /\ f.op # "Upgrade"
      /\ f.len \in Nat
  BY FrameAt
<1>2. /\ m.op \in Data \cup {"None"} /\ m.acc \in Seq(Byte) /\ (m.op = "None" => m.acc = <<>>)
      /\ Len(m.acc) \in Nat
  BY KnownFields, LenProperties
<1>3. MaxFrame \in Nat /\ MaxMessage \in Nat
  BY Bounds
<1>4. msg_opcode = m.op /\ (m.op # "None" => msg_buf = m.acc) /\ msg_buf \in Seq(Byte)
  BY DEF KeepsMessage, TypeOK
<1>5. Len(m.acc \o Payload(i)) = Len(m.acc) + f.len
  <2>1. Payload(i) \in Seq(Byte) /\ Len(Payload(i)) = f.len
    BY PayloadType
  <2> QED  BY <1>2, <2>1, Cat
<1>6. Len(<<>>) = 0 /\ <<>> \in Seq(Byte)
  BY EmptySeq
<1>7. IF f.op \in Data /\ msg_opcode = "None" /\ f.len <= MaxFrame
      THEN msg_opcode' = f.op /\ msg_buf' = <<>>
      ELSE msg_opcode' = msg_opcode /\ msg_buf' = msg_buf
  BY DEF StartMessage, msgVars
<1>8. Wrong(m, i) <=>
         \/ HeaderBad(f)
         \/ f.op \in Control /\ ~f.fin
         \/ f.len > MaxFrame
         \/ /\ f.op \notin Control \cup {"Upgrade"}
            /\ \/ (f.op = "Cont") # (m.op # "None")
               \/ Len(m.acc \o Payload(i)) > MaxMessage
               \/ f.fin /\ OpOf(m, f) = "Text" /\ Invalid(m.acc \o Payload(i))
  BY DEF Wrong
<1>9. Refused(f) <=>
         \/ f.len > MaxFrame
         \/ f.op = "Cont" /\ (msg_opcode = "None" \/ Len(msg_buf) + f.len > MaxMessage)
         \/ f.op \in Data /\ (msg_opcode # "None" \/ f.len > MaxMessage)
  BY DEF Refused
<1> HIDE DEF f
<1>10. msg_opcode' \in Data \cup {"None"} /\ msg_buf' \in Seq(Byte)
  BY <1>2, <1>4, <1>6, <1>7
<1>11. f.op = "Cont" => f.op \notin Control /\ f.op \notin Data
  BY DEF Control, Data
<1>12. f.op \in Data => f.op \notin Control /\ f.op # "Cont" /\ f.op # "Upgrade" /\ f.op # "None"
  BY DEF Control, Data
<1>13. f.op \in Control => f.op \notin Data /\ f.op # "Cont"
  BY DEF Control, Data
<1>14. f.op \in Control \/ f.op = "Cont" \/ f.op \in Data
  BY <1>1
<1>15. Refused(f) => Wrong(m, i)
  <2>1. CASE f.op = "Cont"
    <3>1. CASE m.op = "None"
      BY <1>1, <1>8, <1>11, <2>1, <3>1
    <3>2. CASE m.op # "None"
      BY <1>1, <1>4, <1>5, <1>8, <1>9, <1>11, <2>1, <3>2
    <3> QED  BY <3>1, <3>2
  <2>2. CASE f.op \in Data
    <3>1. CASE m.op = "None"
      <4>1. Len(m.acc) = 0
        BY <1>2, <1>6, <3>1
      <4>2. Len(m.acc \o Payload(i)) = f.len
        BY <1>1, <1>5, <4>1
      <4> QED  BY <1>4, <1>8, <1>9, <1>12, <2>2, <3>1, <4>2
    <3>2. CASE m.op # "None"
      BY <1>8, <1>12, <2>2, <3>2
    <3> QED  BY <3>1, <3>2
  <2>3. CASE f.op \in Control
    BY <1>8, <1>9, <1>13, <2>3
  <2> QED  BY <1>14, <2>1, <2>2, <2>3
<1>16. ASSUME ~Refused(f)
       PROVE  /\ f.len <= MaxFrame
              /\ f.op \in Control => KeepsMessage(m)'
              /\ f.op \notin Control =>
                    /\ (f.op = "Cont") = (m.op # "None")
                    /\ Len(m.acc) + f.len <= MaxMessage
                    /\ msg_opcode' = OpOf(m, f)
                    /\ msg_buf' = m.acc
  <2>1. f.len <= MaxFrame
    BY <1>1, <1>3, <1>9, <1>16
  <2>2. CASE f.op = "Cont"
    <3>1. m.op # "None" /\ ~(Len(m.acc) + f.len > MaxMessage)
      BY <1>4, <1>9, <1>16, <2>2
    <3>2. Len(m.acc) + f.len <= MaxMessage
      BY <1>1, <1>2, <1>3, <3>1
    <3>3. msg_opcode' = m.op /\ msg_buf' = m.acc /\ OpOf(m, f) = m.op
      BY <1>4, <1>7, <1>11, <2>2, <3>1 DEF OpOf
    <3> QED  BY <1>11, <2>1, <2>2, <3>1, <3>2, <3>3
  <2>3. CASE f.op \in Data
    <3>1. m.op = "None" /\ ~(f.len > MaxMessage)
      BY <1>4, <1>9, <1>16, <2>3
    <3>2. m.acc = <<>> /\ Len(m.acc) + f.len <= MaxMessage
      BY <1>1, <1>2, <1>3, <1>6, <3>1
    <3>3. msg_opcode' = f.op /\ msg_buf' = m.acc /\ OpOf(m, f) = f.op
      BY <1>4, <1>7, <1>12, <2>1, <2>3, <3>1, <3>2 DEF OpOf
    <3> QED  BY <1>12, <2>1, <2>3, <3>1, <3>2, <3>3
  <2>4. CASE f.op \in Control
    BY <1>4, <1>7, <1>13, <2>1, <2>4 DEF KeepsMessage
  <2> QED  BY <1>14, <2>2, <2>3, <2>4
<1> QED  BY <1>10, <1>15, <1>16 DEF f

\* advance_frame, feed_one in a header.
LEMMA AdvanceHeaderGood ==
    ASSUME NEW W, NEW E, NEW M, Good(W, E, M), AdvanceHeader
    PROVE  Good(W, E, M)'
<1>1. PICK h : h = parser.partial \o recv_buf
  OBVIOUS
<1>2. PICK need : need = Need(h)
  OBVIOUS
<1> DEFINE f == At(h)
<1>3. /\ pc = "poll" /\ state \in {"Open", "Closing"} /\ parser.st \in {"Idle", "Header"}
      /\ UNCHANGED <<frames, stream, borrowed, last_emitted, batch, delivered, marks, call, ingress>>
      /\ \/ /\ Len(h) < need
            /\ parser' = [Idle EXCEPT !.st = "Header", !.partial = h]
            /\ recv_buf' = <<>> /\ pc' = "ready"
            /\ UNCHANGED <<msg_opcode, msg_buf, cur_opcode, cur_fin, ctl_buf, state, tx_buf, failed>>
         \/ /\ Len(h) >= need /\ BadHeader(h)
            /\ parser' = [Idle EXCEPT !.st = "Header", !.partial = Prefix(h, need)]
            /\ Fail
            /\ UNCHANGED <<recv_buf, msg_opcode, msg_buf, cur_opcode, cur_fin, ctl_buf>>
         \/ /\ Len(h) >= need /\ ~BadHeader(h)
            /\ parser' = [Idle EXCEPT !.st = "Payload", !.remaining = f.len]
            /\ recv_buf' = Drop(h, need)
            /\ StartMessage(f)
            /\ IF Refused(f)
               THEN Fail /\ UNCHANGED <<cur_opcode, cur_fin, ctl_buf>>
               ELSE /\ cur_opcode' = f.op /\ cur_fin' = f.fin
                    /\ ctl_buf' = IF f.op \in Control THEN <<>> ELSE ctl_buf
                    /\ UNCHANGED <<pc, state, tx_buf, failed>>
  BY <1>1, <1>2 DEF AdvanceHeader, Need, Advances, peerVars, msgVars, curVars, outVars, sinkVars
<1>4. TypeOK /\ FramesOK /\ PhaseInv /\ CloseInv /\ IsMeaning(M) /\ IsWire(W, E)
  BY DEF Good
<1>5. /\ ~failed /\ last_emitted = "None" /\ borrowed = 0 /\ ingress = <<>> /\ batch = <<>>
      /\ call \in {"poll", "data", "batch"} /\ ~IsOver /\ \E i, a : Live(W, E, M, i, a)
  BY <1>3, InPoll
<1>6. PICK i, a : Live(W, E, M, i, a)
  BY <1>5
<1>7. /\ i \in 2 .. N + 1 /\ h \in Seq(Byte) /\ Len(h) \in Nat
      /\ PlacedAt(W, h, <<>>, stream, E[i - 1])
      /\ Len(h) = Len(parser.partial) + Len(recv_buf)
      /\ E[i - 1] + Len(parser.partial) = a
      /\ KeepsMessage(M[i - 1])
      /\ need \in {2, 3}
      /\ (Len(h) < need /\ i <= N) => E[i - 1] + Len(h) < E[i]
      /\ Len(h) >= need =>
            /\ i \in 1 .. N /\ At(h) = frames[i] /\ need = HeaderLen(frames[i])
            /\ BadHeader(h) <=>
                 (HeaderBad(frames[i]) \/ (frames[i].op \in Control /\ ~frames[i].fin))
  <2>1. pc = "poll" /\ state \in {"Open", "Closing"} /\ parser.st \in {"Idle", "Header"}
    BY <1>3
  <2>2. IsHeader(W, E, M, i, a, h, need)
    BY <1>1, <1>2, <1>6, <2>1, HeaderIs
  <2> QED  BY <2>2 DEF IsHeader
<1>8. /\ N \in Nat /\ E[i - 1] \in Nat /\ M[i - 1] \in Known /\ W \in Seq(Byte) /\ Len(W) \in Nat
  BY <1>6, LiveFacts
<1>9. delivered \in Seq(MessageType) /\ delivered = M[i - 1].out
  <2>1. delivered \in Seq(MessageType) /\ delivered \o batch = M[i - 1].out
    BY <1>4, <1>6 DEF Live, TypeOK
  <2> QED  BY <1>5, <2>1, ConcatEmptySeq
<1>10. <<>> \in Seq(Byte) /\ Len(<<>>) = 0
  BY EmptySeq
<1>11. N' = N
  BY <1>3 DEF N
<1>12. /\ msg_opcode \in Data \cup {"None"} /\ msg_buf \in Seq(Byte)
       /\ cur_opcode \in Data \cup Control \cup {"Cont", "None"} /\ cur_fin \in BOOLEAN
       /\ ctl_buf \in Seq(Byte) /\ marks \in Seq(BOOLEAN) /\ recv_buf \in Seq(Byte)
  BY <1>4 DEF TypeOK
<1>13. /\ UNCHANGED <<frames, stream, call>> /\ delivered' = M[i - 1].out /\ batch' = <<>>
       /\ marks' \in Seq(BOOLEAN) /\ last_emitted' = "None" /\ borrowed' = 0
       /\ ingress' \in Seq(Byte) /\ ingress' = <<>>
  BY <1>3, <1>5, <1>9, <1>10, <1>12
<1>14. Len(h) < need <=> ~(Len(h) >= need)
  BY <1>7
<1>15. CASE Len(h) < need
  <2>1. /\ parser' = [Idle EXCEPT !.st = "Header", !.partial = h]
        /\ recv_buf' = <<>> /\ pc' = "ready"
        /\ UNCHANGED <<msg_opcode, msg_buf, cur_opcode, cur_fin, ctl_buf, state, tx_buf, failed>>
    BY <1>3, <1>14, <1>15
  <2>2. /\ parser'.st = "Header" /\ parser'.partial = h
        /\ parser' \in [st : {"Idle", "Header", "Payload"}, partial : Seq(Byte), remaining : Nat]
    BY <1>7, <2>1 DEF Idle
  <2>3. TypeOK'
    <3>2. borrowed' \in 0 .. Len(recv_buf')
      BY <1>10, <1>13, <2>1
    <3> QED  BY <1>3, <1>4, <1>10, <2>2, <2>1, <3>2 DEF TypeOK
  <2>4. PhaseInv'
    BY <1>3, <1>4, <1>5, <2>2, <2>1 DEF PhaseInv
  <2>5. CloseInv'
    BY <1>3, <1>4, <2>1 DEF CloseInv
  <2>6. PICK b : b = E[i - 1] + Len(h)
    OBVIOUS
  <2>7. Placed(W, b)'
    <3>1. Len(h) \in 0 .. Len(h)
      BY <1>7
    <3>2. PlacedAt(W, Drop(h, Len(h)), <<>>, stream, b)
      BY <1>7, <1>8, <2>6, <3>1, PlacedDrop
    <3>3. Drop(h, Len(h)) \in Seq(Byte) /\ Len(Drop(h, Len(h))) = Len(h) - Len(h)
      BY <1>7, <3>1, Split DEF Drop
    <3>4. Drop(h, Len(h)) = <<>>
      <4>1. Len(Drop(h, Len(h))) = 0
        BY <1>7, <3>3
      <4> QED  BY <3>3, <4>1, EmptySeq
    <3> QED  BY <1>3, <1>13, <2>1, <3>2, <3>4 DEF Placed
  <2>8. InHeader(W, E, M, i, b)'
    <3>1. E[i - 1] + Len(h) = b + 0
      BY <1>7, <1>8, <2>6
    <3>2. Piece(W, h, E[i - 1])
      BY <1>7 DEF PlacedAt
    <3>3. KeepsMessage(M[i - 1])'
      BY <1>7, <2>1 DEF KeepsMessage
    <3> QED  BY <1>13, <2>2, <3>1, <3>2, <3>3 DEF InHeader, Piece
  <2>9. i <= N => b + Len(recv_buf') < E[i]
    <3>1. b + Len(recv_buf') = b
      BY <1>7, <1>8, <1>10, <2>1, <2>6
    <3> QED  BY <1>7, <1>15, <2>6, <3>1
  <2>10. Live(W, E, M, i, b)'
    <3>1. parser'.st # "Payload"
      BY <2>2
    <3>2. (state' = "Connecting") = (i = 1) /\ i \in 1 .. N' + 1
      BY <1>3, <1>7, <1>8, <1>11, <2>1
    <3>3. ~M[i - 1].over /\ delivered' \o batch' = M[i - 1].out
          /\ (AutoPong => AnswersIn(tx_buf', M[i - 1].pings))
      BY <1>3, <1>6, <2>1 DEF Live
    <3> QED  BY <1>11, <2>7, <2>8, <2>9, <3>1, <3>2, <3>3 DEF Live
  <2>11. Story(W, E, M)'
    BY <1>5, <2>1, <2>10 DEF Story, IsOver
  <2> QED  BY <1>3, <2>3, <2>4, <2>5, <2>11, GoodNext
<1>16. ASSUME Len(h) >= need
       PROVE  need \in 0 .. Len(h) /\ Prefix(h, need) \in Seq(Byte) /\ Drop(h, need) \in Seq(Byte)
              /\ i \in 1 .. N /\ At(h) = frames[i] /\ need = HeaderLen(frames[i])
              /\ PlacedAt(W, Drop(h, need), <<>>, stream, E[i - 1] + need)
  <2>1. need \in 0 .. Len(h)
    BY <1>7, <1>16
  <2>2. Prefix(h, need) \in Seq(Byte) /\ Drop(h, need) \in Seq(Byte)
    BY <1>7, <2>1, Split DEF Prefix, Drop
  <2>3. PlacedAt(W, Drop(h, need), <<>>, stream, E[i - 1] + need)
    BY <1>7, <1>8, <2>1, PlacedDrop
  <2> QED  BY <1>7, <1>16, <2>1, <2>2, <2>3
<1>17. CASE Len(h) >= need /\ BadHeader(h)
  <2>1. /\ parser' = [Idle EXCEPT !.st = "Header", !.partial = Prefix(h, need)] /\ Fail
        /\ UNCHANGED <<recv_buf, msg_opcode, msg_buf, cur_opcode, cur_fin, ctl_buf>>
    BY <1>3, <1>14, <1>17
  <2>2. /\ parser' \in [st : {"Idle", "Header", "Payload"}, partial : Seq(Byte), remaining : Nat]
        /\ parser'.st # "Idle"
    <3>1. PICK p \in Seq(Byte) : p = Prefix(h, need)
      BY <1>16, <1>17
    <3>2. parser' = [Idle EXCEPT !.st = "Header", !.partial = p]
      BY <2>1, <3>1
    <3> QED  BY <3>2 DEF Idle
  <2>3. Wrong(M[i - 1], i)
    BY <1>7, <1>17 DEF Wrong
  <2>4. /\ msg_opcode' \in Data \cup {"None"} /\ msg_buf' \in Seq(Byte)
        /\ cur_opcode' \in Data \cup Control \cup {"Cont", "None"} /\ cur_fin' \in BOOLEAN
        /\ ctl_buf' \in Seq(Byte) /\ recv_buf' \in Seq(Byte)
    BY <1>12, <2>1
  <2> QED  BY <1>3, <1>6, <1>13, <1>16, <1>17, <2>1, <2>2, <2>3, <2>4, FailGood
<1>18. CASE Len(h) >= need /\ ~BadHeader(h)
  <2>1. /\ parser' = [Idle EXCEPT !.st = "Payload", !.remaining = f.len]
        /\ recv_buf' = Drop(h, need) /\ StartMessage(f)
        /\ IF Refused(f)
           THEN Fail /\ UNCHANGED <<cur_opcode, cur_fin, ctl_buf>>
           ELSE /\ cur_opcode' = f.op /\ cur_fin' = f.fin
                /\ ctl_buf' = IF f.op \in Control THEN <<>> ELSE ctl_buf
                /\ UNCHANGED <<pc, state, tx_buf, failed>>
    BY <1>3, <1>14, <1>18
  <2>2. /\ i \in 1 .. N /\ f = frames[i] /\ need = HeaderLen(frames[i]) /\ Drop(h, need) \in Seq(Byte)
        /\ PlacedAt(W, Drop(h, need), <<>>, stream, E[i - 1] + need)
    BY <1>16, <1>18
  <2>3. i \in 2 .. N
    BY <1>7, <1>8, <2>2
  <2> HIDE DEF f
  <2>4. /\ msg_opcode' \in Data \cup {"None"} /\ msg_buf' \in Seq(Byte)
        /\ Refused(f) => Wrong(M[i - 1], i)
        /\ ~Refused(f) =>
              /\ f.len <= MaxFrame
              /\ f.op \in Control => KeepsMessage(M[i - 1])'
              /\ f.op \notin Control =>
                    /\ (f.op = "Cont") = (M[i - 1].op # "None")
                    /\ Len(M[i - 1].acc) + f.len <= MaxMessage
                    /\ msg_opcode' = OpOf(M[i - 1], f)
                    /\ msg_buf' = M[i - 1].acc
    BY <1>4, <1>7, <1>8, <2>1, <2>2, <2>3, FrameStarts
  <2>5. /\ f.op \in Data \cup Control \cup {"Cont"} /\ f.fin \in BOOLEAN
        /\ f.len \in Nat /\ ~HeaderBad(f) /\ (f.op \in Control => f.fin)
        /\ FrameLen(f) = HeaderLen(f) + f.len /\ HeaderLen(f) \in Nat
    <3>1. ~HeaderBad(f) /\ (f.op \in Control => f.fin)
      BY <1>7, <1>18, <2>2
    <3>2. i # 1
      BY <2>3
    <3> QED  BY <1>4, <2>2, <3>1, <3>2, FrameAt
  <2>6. /\ parser' \in [st : {"Idle", "Header", "Payload"}, partial : Seq(Byte), remaining : Nat]
        /\ parser'.st = "Payload" /\ parser'.remaining = f.len /\ recv_buf' \in Seq(Byte)
    <3>1. PICK n \in Nat : n = f.len
      BY <2>5
    <3>2. parser' = [Idle EXCEPT !.st = "Payload", !.remaining = n]
      BY <2>1, <3>1
    <3>3. /\ parser'.st = "Payload" /\ parser'.remaining = n
          /\ parser' \in [st : {"Idle", "Header", "Payload"}, partial : Seq(Byte), remaining : Nat]
      BY <1>10, <3>2 DEF Idle
    <3> QED  BY <2>1, <2>2, <3>1, <3>3
  <2>7. CASE Refused(f)
    <3>1. Fail /\ UNCHANGED <<cur_opcode, cur_fin, ctl_buf>>
      BY <2>1, <2>7
    <3>2. /\ cur_opcode' \in Data \cup Control \cup {"Cont", "None"} /\ cur_fin' \in BOOLEAN
          /\ ctl_buf' \in Seq(Byte)
      BY <1>12, <3>1
    <3> QED  BY <1>3, <1>6, <1>13, <2>2, <2>4, <2>6, <2>7, <3>1, <3>2, FailGood
  <2>8. CASE ~Refused(f)
    <3>1. /\ cur_opcode' = f.op /\ cur_fin' = f.fin
          /\ ctl_buf' = (IF f.op \in Control THEN <<>> ELSE ctl_buf)
          /\ UNCHANGED <<pc, state, tx_buf, failed>>
      BY <2>1, <2>8
    <3>2. TypeOK'
      <4>1. borrowed' \in 0 .. Len(recv_buf')
        BY <1>13, <2>6, LenProperties
      <4>2. ctl_buf' \in Seq(Byte)
        BY <1>10, <1>12, <3>1
      <4>3. cur_opcode' \in Data \cup Control \cup {"Cont", "None"} /\ cur_fin' \in BOOLEAN
        BY <2>5, <3>1
      <4> QED  BY <1>3, <1>4, <2>4, <2>6, <3>1, <4>1, <4>2, <4>3 DEF TypeOK
    <3>3. PhaseInv'
      BY <1>3, <1>4, <1>5, <2>6, <3>1 DEF PhaseInv
    <3>4. CloseInv'
      BY <1>3, <1>4, <3>1 DEF CloseInv
    <3>5. PICK b : b = E[i - 1] + need
      OBVIOUS
    <3>6. Placed(W, b)'
      BY <1>3, <1>13, <2>1, <2>2, <3>5 DEF Placed
    <3>7. InPayload(E, M, i, b)'
      <4>1. b + f.len = E[i]
        <5>1. E[i] = E[i - 1] + FrameLen(f)
          BY <1>4, <2>2, WireBytes
        <5> QED  BY <1>8, <2>2, <2>5, <3>5, <5>1
      <4>2. f.len - f.len = 0 /\ f.len <= f.len
        BY <2>5
      <4>3. Part(i, 0) = <<>> /\ Part(i, 0)' = <<>>
        <5>1. Part(i, 0) = <<>>
          <6>1. 0 \in 0 .. frames[i].len
            BY <2>2, <2>5
          <6> QED  BY <1>4, <2>2, <6>1, PartType
        <5> QED  BY <1>3, <5>1, SamePart
      <4>4. M[i - 1].acc \o <<>> = M[i - 1].acc
        BY <1>8, KnownFields, ConcatEmptySeq
      <4>5. frames'[i] = f /\ i <= N'
        BY <1>3, <1>8, <1>11, <2>2
      <4>6. f.op \in Control => (ctl_buf' = Part(i, 0)' /\ KeepsMessage(M[i - 1])')
        BY <2>4, <2>8, <3>1, <4>3
      <4>7. f.op \notin Control =>
               /\ (f.op = "Cont") = (M[i - 1].op # "None")
               /\ Len(M[i - 1].acc) + f.len <= MaxMessage
               /\ msg_opcode' = OpOf(M[i - 1], f)
               /\ msg_buf' = M[i - 1].acc \o Part(i, 0)'
        BY <2>4, <2>8, <4>3, <4>4
      <4>8. frames'[i].len - parser'.remaining = 0
        BY <2>6, <4>2, <4>5
      <4>9. f.len <= MaxFrame
        BY <2>4, <2>8
      <4> QED  BY <1>13, <2>5, <2>6, <3>1, <4>1, <4>2, <4>5, <4>6, <4>7, <4>8, <4>9
               DEF InPayload
    <3>8. Live(W, E, M, i, b)'
      <4>1. pc' # "ready" /\ parser'.st = "Payload"
        BY <1>3, <2>6, <3>1
      <4>2. (state' = "Connecting") = (i = 1) /\ i \in 1 .. N' + 1
        BY <1>3, <1>7, <1>8, <1>11, <3>1
      <4>3. ~M[i - 1].over /\ delivered' \o batch' = M[i - 1].out
            /\ (AutoPong => AnswersIn(tx_buf', M[i - 1].pings))
        BY <1>3, <1>6, <3>1 DEF Live
      <4> QED  BY <3>6, <3>7, <4>1, <4>2, <4>3 DEF Live
    <3>9. Story(W, E, M)'
      BY <1>5, <3>1, <3>8 DEF Story, IsOver
    <3> QED  BY <1>3, <3>2, <3>3, <3>4, <3>9, GoodNext
  <2> QED  BY <2>7, <2>8
<1> QED  BY <1>3, <1>15, <1>17, <1>18

\* The next n bytes of the payload of frame i are those that the buffer begins with.
LEMMA PartMore ==
    ASSUME FramesOK, NEW W, NEW E, IsWire(W, E), NEW i \in 1 .. N, NEW rem \in Nat,
           rem <= frames[i].len, NEW s, NEW a, Piece(W, s, a), a + rem = E[i],
           NEW n \in Nat, n <= Len(s), n <= rem, NEW q \in Nat, q + rem = frames[i].len
    PROVE  /\ Part(i, q) \o Prefix(s, n) = Part(i, q + n)
           /\ Part(i, q) \in Seq(Byte) /\ Prefix(s, n) \in Seq(Byte)
<1> DEFINE l == frames[i].len
           H == HeaderLen(frames[i])
           u == Part(i, q)
           c == Prefix(s, n)
           t == Part(i, q + n)
<1>1. l \in Nat /\ H \in Nat /\ FrameLen(frames[i]) = H + l
  BY FrameAt
<1>2. /\ E[i - 1] \in Nat /\ E[i] = E[i - 1] + FrameLen(frames[i])
      /\ \A k \in 1 .. FrameLen(frames[i]) : W[E[i - 1] + k] = <<i, k>>
  BY ONLY FramesOK, IsWire(W, E), i \in 1 .. N, WireBytes
<1>3. s \in Seq(Byte) /\ Len(s) \in Nat /\ a \in Nat /\ \A k \in 1 .. Len(s) : s[k] = W[a + k]
  BY LenProperties DEF Piece
<1>4. q \in 0 .. l /\ q + n \in 0 .. l
  BY <1>1
<1>5. u \in Seq(Byte) /\ Len(u) = q /\ \A k \in 1 .. q : u[k] = <<i, H + k>>
  BY <1>4, PartType
<1>6. t \in Seq(Byte) /\ Len(t) = q + n /\ \A k \in 1 .. q + n : t[k] = <<i, H + k>>
  BY <1>4, PartType
<1>7. c \in Seq(Byte) /\ Len(c) = n /\ \A k \in 1 .. n : c[k] = s[k]
  <2>1. n \in 0 .. Len(s)
    BY <1>3
  <2> QED  BY <1>3, <2>1, Split DEF Prefix
<1>8. ASSUME NEW k \in 1 .. n PROVE c[k] = <<i, H + (q + k)>>
  <2>1. k \in Nat /\ k >= 1 /\ k <= rem /\ k \in 1 .. Len(s)
    BY <1>3
  <2>2. c[k] = W[a + k]
    BY <1>3, <1>7, <2>1
  <2>3. \A x, y, z, w, g, j \in Nat :
           (x + y = z /\ z = w + (g + (j + y))) => x + k = w + (g + (j + k))
    BY <2>1
  <2>4. E[i] = E[i - 1] + (H + (q + rem)) /\ E[i] \in Nat
    BY <1>1, <1>2
  <2>5. a + k = E[i - 1] + (H + (q + k))
    <3>1. PICK w \in Nat, z \in Nat, g \in Nat : w = E[i - 1] /\ z = E[i] /\ g = H
      BY <1>1, <1>2, <2>4
    <3>2. a + rem = z /\ z = w + (g + (q + rem)) /\ a \in Nat
      BY <1>3, <2>4, <3>1
    <3>3. a + k = w + (g + (q + k))
      BY <2>3, <3>2
    <3> QED  BY <3>1, <3>3
  <2>6. H + (q + k) \in 1 .. H + l
    BY <1>1, <2>1
  <2> QED  BY <1>1, <1>2, <2>2, <2>5, <2>6
<1> HIDE DEF u, c, t, l, H
<1>9. /\ u \o c \in Seq(Byte) /\ Len(u \o c) = q + n
      /\ \A k \in 1 .. q : (u \o c)[k] = u[k]
      /\ \A k \in 1 .. n : (u \o c)[q + k] = c[k]
  <2>1. /\ u \o c \in Seq(Byte) /\ Len(u \o c) = Len(u) + Len(c)
        /\ \A k \in 1 .. Len(u) : (u \o c)[k] = u[k]
        /\ \A k \in 1 .. Len(c) : (u \o c)[Len(u) + k] = c[k]
    <3>1. u \in Seq(Byte) /\ c \in Seq(Byte)
      BY <1>5, <1>7
    <3> QED  BY ONLY <3>1, Cat
  <2> QED  BY <1>5, <1>7, <2>1
<1>10. ASSUME NEW k \in 1 .. q + n PROVE (u \o c)[k] = t[k]
  <2>1. CASE k \in 1 .. q
    BY <1>5, <1>6, <1>9, <2>1
  <2>2. CASE k \notin 1 .. q
    <3>1. PICK j \in 1 .. n : k = q + j
      <4>1. k - q \in 1 .. n /\ k = q + (k - q)
        BY <2>2
      <4> QED  BY <4>1
    <3> QED  BY <1>6, <1>8, <1>9, <3>1
  <2> QED  BY <2>1, <2>2
<1>11. u \o c = t
  BY <1>6, <1>9, <1>10, SeqEqual
<1> QED  BY <1>5, <1>7, <1>11 DEF u, c, t

\* advance_frame, feed_one in a payload.
LEMMA AdvancePayloadGood ==
    ASSUME NEW W, NEW E, NEW M, Good(W, E, M), AdvancePayload
    PROVE  Good(W, E, M)'
<1>1. PICK rem : rem = parser.remaining
  OBVIOUS
<1>2. PICK n : n = IF Len(recv_buf) < rem THEN Len(recv_buf) ELSE rem
  OBVIOUS
<1>3. PICK chunk : chunk = Prefix(recv_buf, n)
  OBVIOUS
<1>4. /\ pc = "poll" /\ state \in {"Open", "Closing"} /\ parser.st = "Payload" /\ rem > 0
      /\ UNCHANGED <<frames, stream, borrowed, last_emitted, msg_opcode, cur_opcode, cur_fin, state,
                     tx_buf, failed, batch, delivered, marks, call, ingress>>
      /\ \/ n = 0 /\ pc' = "ready" /\ UNCHANGED <<parser, recv_buf, msg_buf, ctl_buf>>
         \/ /\ n > 0
            /\ parser' = [parser EXCEPT !.remaining = rem - n]
            /\ recv_buf' = Drop(recv_buf, n)
            /\ IF cur_opcode \in Control
               THEN ctl_buf' = ctl_buf \o chunk /\ UNCHANGED msg_buf
               ELSE msg_buf' = msg_buf \o chunk /\ UNCHANGED ctl_buf
            /\ UNCHANGED pc
  BY <1>1, <1>2, <1>3 DEF AdvancePayload, Advances, peerVars, outVars, sinkVars
<1>5. TypeOK /\ FramesOK /\ PhaseInv /\ CloseInv /\ IsMeaning(M) /\ IsWire(W, E)
  BY DEF Good
<1>6. /\ ~failed /\ last_emitted = "None" /\ borrowed = 0 /\ ingress = <<>> /\ batch = <<>>
      /\ call \in {"poll", "data", "batch"} /\ ~IsOver /\ \E i, a : Live(W, E, M, i, a)
  BY <1>4, InPoll
<1>7. PICK i, a : Live(W, E, M, i, a)
  BY <1>6
<1> DEFINE f == frames[i]
           m == M[i - 1]
<1>8. /\ i \in 1 .. N + 1 /\ N \in Nat /\ a \in Nat /\ m \in Known /\ W \in Seq(Byte)
      /\ Len(recv_buf) \in Nat
  BY <1>7, LiveFacts
<1>9. InPayload(E, M, i, a)
  BY <1>4, <1>7 DEF Live
<1>10. i \in 1 .. N /\ a + rem = E[i] /\ rem <= f.len /\ rem \in Nat
  <2>1. rem \in Nat
    BY <1>1, <1>5 DEF TypeOK
  <2>2. i <= N /\ a + rem = E[i] /\ rem <= f.len
    BY <1>1, <1>9 DEF InPayload
  <2> QED  BY <1>8, <2>1, <2>2
<1>11. n \in Nat /\ n <= Len(recv_buf) /\ n <= rem /\ (n = 0 => Len(recv_buf) = 0)
  BY <1>2, <1>4, <1>8, <1>10
<1>12. N' = N
  BY <1>4 DEF N
<1>13. CASE n = 0
  <2>1. pc' = "ready" /\ UNCHANGED <<parser, recv_buf, msg_buf, ctl_buf>>
    BY <1>4, <1>13
  <2>2. TypeOK'
    BY <1>4, <1>5, <2>1 DEF TypeOK
  <2>3. PhaseInv'
    BY <1>4, <1>5, <1>6, <2>1 DEF PhaseInv
  <2>4. CloseInv'
    BY <1>4, <1>5 DEF CloseInv
  <2>5. Placed(W, a)'
    BY <1>4, <1>7, <2>1, SamePlaced DEF Live
  <2>6. a + Len(recv_buf') < E[i]
    <3>1. Len(recv_buf') = 0
      BY <1>11, <1>13, <2>1
    <3> QED  BY <1>4, <1>8, <1>10, <3>1
  <2>7. Live(W, E, M, i, a)'
    BY <1>4, <1>7, <2>1, <2>5, <2>6, SameFrame
  <2>8. Story(W, E, M)'
    BY <1>4, <1>6, <2>7 DEF Story, IsOver
  <2> QED  BY <1>4, <2>2, <2>3, <2>4, <2>8, GoodNext
<1>14. CASE n > 0
  <2>1. /\ parser' = [parser EXCEPT !.remaining = rem - n] /\ recv_buf' = Drop(recv_buf, n)
        /\ cur_opcode \in Control => (ctl_buf' = ctl_buf \o chunk /\ msg_buf' = msg_buf)
        /\ cur_opcode \notin Control => (msg_buf' = msg_buf \o chunk /\ ctl_buf' = ctl_buf)
        /\ pc' = pc
    BY <1>4, <1>11, <1>14
  <2>2. PICK k \in Nat : k = rem - n /\ k <= rem
    <3>1. rem - n \in Nat /\ rem - n <= rem
      BY <1>10, <1>11
    <3> QED  BY <3>1
  <2>3. /\ parser' \in [st : {"Idle", "Header", "Payload"}, partial : Seq(Byte), remaining : Nat]
        /\ parser'.st = "Payload" /\ parser'.remaining = k
    <3>1. parser' = [parser EXCEPT !.remaining = k]
      BY <2>1, <2>2
    <3>2. parser \in [st : {"Idle", "Header", "Payload"}, partial : Seq(Byte), remaining : Nat]
      BY <1>5 DEF TypeOK
    <3> QED  BY <1>4, <3>1, <3>2
  <2>4. n \in 0 .. Len(recv_buf) /\ recv_buf \in Seq(Byte)
    BY <1>5, <1>8, <1>11 DEF TypeOK
  <2>5. f.len \in Nat
    BY <1>5, <1>10, FrameAt
  <2>6. PICK q \in Nat : q + rem = f.len /\ q = f.len - rem
    <3>1. f.len - rem \in Nat /\ (f.len - rem) + rem = f.len
      BY <1>10, <2>5
    <3> QED  BY <3>1
  <2>7. f.len - k = q + n /\ k <= f.len
    BY <1>10, <1>11, <2>2, <2>5, <2>6
  <2>8. /\ Part(i, q) \o chunk = Part(i, q + n)
        /\ Part(i, q) \in Seq(Byte) /\ chunk \in Seq(Byte)
    <3>1. Piece(W, recv_buf, a)
      BY <1>7 DEF Live, Placed, PlacedAt
    <3>2. /\ i \in 1 .. N /\ rem \in Nat /\ rem <= frames[i].len /\ a + rem = E[i]
          /\ n \in Nat /\ n <= Len(recv_buf) /\ n <= rem /\ q \in Nat /\ q + rem = frames[i].len
      BY <1>10, <1>11, <2>6
    <3>3. /\ Part(i, q) \o Prefix(recv_buf, n) = Part(i, q + n)
          /\ Part(i, q) \in Seq(Byte) /\ Prefix(recv_buf, n) \in Seq(Byte)
      BY ONLY <1>5, <3>1, <3>2, PartMore
    <3> QED  BY <1>3, <3>3
  <2>9. recv_buf' \in Seq(Byte) /\ borrowed' \in 0 .. Len(recv_buf')
    <3>1. recv_buf' \in Seq(Byte)
      BY <2>1, <2>4, Split DEF Drop
    <3> QED  BY <1>4, <1>6, <3>1, LenProperties
  <2>10. msg_buf' \in Seq(Byte) /\ ctl_buf' \in Seq(Byte)
    <3>1. msg_buf \in Seq(Byte) /\ ctl_buf \in Seq(Byte)
      BY <1>5 DEF TypeOK
    <3>2. msg_buf \o chunk \in Seq(Byte) /\ ctl_buf \o chunk \in Seq(Byte)
      BY <2>8, <3>1, Cat
    <3> QED  BY <2>1, <3>1, <3>2
  <2>11. TypeOK'
    BY <1>4, <1>5, <2>1, <2>3, <2>9, <2>10 DEF TypeOK
  <2>12. PhaseInv'
    BY <1>4, <1>5, <1>6, <2>1, <2>3 DEF PhaseInv
  <2>13. CloseInv'
    BY <1>4, <1>5 DEF CloseInv
  <2>14. PICK b : b = a + n
    OBVIOUS
  <2>15. Placed(W, b)'
    <3>1. PlacedAt(W, recv_buf, <<>>, stream, a)
      BY <1>6, <1>7 DEF Live, Placed
    <3>2. PlacedAt(W, Drop(recv_buf, n), <<>>, stream, b)
      BY <1>8, <2>4, <2>14, <3>1, PlacedDrop
    <3> QED  BY <1>4, <1>6, <2>1, <3>2 DEF Placed
  <2>16. InPayload(E, M, i, b)'
    <3>1. b + k = E[i]
      BY <1>8, <1>10, <1>11, <2>2, <2>14
    <3>2. Part(i, q + n)' = Part(i, q + n)
      BY <1>4, SamePart
    <3>3. /\ ~HeaderBad(f) /\ (f.op \in Control => f.fin) /\ f.len <= MaxFrame
          /\ cur_opcode = f.op /\ cur_fin = f.fin
          /\ f.op \in Control => (ctl_buf = Part(i, q) /\ KeepsMessage(m))
          /\ f.op \notin Control =>
                /\ (f.op = "Cont") = (m.op # "None")
                /\ Len(m.acc) + f.len <= MaxMessage
                /\ msg_opcode = OpOf(m, f)
                /\ msg_buf = m.acc \o Part(i, q)
      BY <1>1, <1>9, <2>6 DEF InPayload
    <3>4. f.op \in Control => (ctl_buf' = Part(i, q + n)' /\ KeepsMessage(m)')
      <4> SUFFICES ASSUME f.op \in Control PROVE ctl_buf' = Part(i, q + n)' /\ KeepsMessage(m)'
        OBVIOUS
      <4>1. ctl_buf' = ctl_buf \o chunk /\ msg_buf' = msg_buf /\ msg_opcode' = msg_opcode
        BY <1>4, <2>1, <3>3
      <4>2. KeepsMessage(m)'
        BY <3>3, <4>1 DEF KeepsMessage
      <4> QED  BY <2>8, <3>2, <3>3, <4>1, <4>2
    <3>5. f.op \notin Control =>
             /\ (f.op = "Cont") = (m.op # "None")
             /\ Len(m.acc) + f.len <= MaxMessage
             /\ msg_opcode' = OpOf(m, f)
             /\ msg_buf' = m.acc \o Part(i, q + n)'
      <4> SUFFICES ASSUME f.op \notin Control
                   PROVE  /\ (f.op = "Cont") = (m.op # "None")
                          /\ Len(m.acc) + f.len <= MaxMessage
                          /\ msg_opcode' = OpOf(m, f)
                          /\ msg_buf' = m.acc \o Part(i, q + n)'
        OBVIOUS
      <4>1. msg_buf' = (m.acc \o Part(i, q)) \o chunk
        BY <2>1, <3>3
      <4>2. m.acc \in Seq(Byte)
        BY <1>8, KnownFields
      <4>3. PICK x \in Seq(Byte), y \in Seq(Byte) : x = m.acc /\ y = Part(i, q)
        BY <2>8, <4>2
      <4>4. (x \o y) \o chunk = x \o (y \o chunk)
        <5>1. chunk \in Seq(Byte)
          BY <2>8
        <5> QED  BY ONLY x \in Seq(Byte), y \in Seq(Byte), <5>1, Assoc
      <4>5. msg_buf' = m.acc \o Part(i, q + n)'
        BY <2>8, <3>2, <4>1, <4>3, <4>4
      <4> QED  BY <1>4, <3>3, <4>5
    <3>6. frames'[i] = f /\ i <= N'
      BY <1>4, <1>8, <1>10, <1>12
    <3>7. frames'[i].len - parser'.remaining = q + n
      BY <2>3, <2>7, <3>6
    <3>8. borrowed' = 0 /\ cur_opcode' = f.op /\ cur_fin' = f.fin
      BY <1>4, <1>6, <3>3
    <3> HIDE DEF f, m
    <3>9. b + parser'.remaining = E[i] /\ parser'.remaining <= f.len
      BY <2>3, <2>7, <3>1
    <3> QED  BY <3>3, <3>4, <3>5, <3>6, <3>7, <3>8, <3>9 DEF InPayload, m
  <2>17. Live(W, E, M, i, b)'
    <3>1. pc' # "ready" /\ parser'.st = "Payload"
      BY <1>4, <2>1, <2>3
    <3>2. (state' = "Connecting") = (i = 1) /\ i \in 1 .. N' + 1
      BY <1>4, <1>7, <1>12 DEF Live
    <3>3. ~M[i - 1].over /\ delivered' \o batch' = M[i - 1].out
          /\ (AutoPong => AnswersIn(tx_buf', M[i - 1].pings))
      BY <1>4, <1>7 DEF Live
    <3> QED  BY <2>15, <2>16, <3>1, <3>2, <3>3 DEF Live
  <2>18. Story(W, E, M)'
    BY <1>4, <1>6, <2>17 DEF Story, IsOver
  <2> QED  BY <1>4, <2>11, <2>12, <2>13, <2>18, GoodNext
<1> QED  BY <1>11, <1>13, <1>14

\* All of the payload of frame i was read.
EndsIn(E, M, i, a) ==
    LET f == frames[i]
        m == M[i - 1]
    IN  /\ i \in 1 .. N
        /\ i # 1
        /\ m \in Known
        /\ ~m.over
        /\ a = E[i]
        /\ ~HeaderBad(f)
        /\ f.op \in Control => f.fin
        /\ f.len <= MaxFrame
        /\ cur_opcode = f.op
        /\ cur_fin = f.fin
        /\ f.op \in Control => (ctl_buf = Payload(i) /\ KeepsMessage(m))
        /\ f.op \notin Control =>
              /\ (f.op = "Cont") = (m.op # "None")
              /\ Len(m.acc) + f.len <= MaxMessage
              /\ msg_opcode = OpOf(m, f)
              /\ msg_buf = m.acc \o Payload(i)

\* on_frame_end
LEMMA AtEnd ==
    ASSUME NEW W, NEW E, NEW M, Good(W, E, M), FrameEnds
    PROVE  /\ pc = "poll" /\ ~failed /\ state \in {"Open", "Closing"}
           /\ \E i, a : Live(W, E, M, i, a) /\ EndsIn(E, M, i, a)
<1>1. TypeOK /\ FramesOK /\ PhaseInv /\ IsWire(W, E)
  BY DEF Good
<1>2. pc = "poll" /\ parser.st = "Payload" /\ parser.remaining = 0 /\ state # "Connecting"
  BY DEF FrameEnds, Advances
<1>3. ~failed
  BY <1>2, InPoll
<1>4. state # "Closed"
  <2>1. parser # Idle
    BY <1>2 DEF Idle
  <2> QED  BY <1>1, <1>3, <2>1 DEF PhaseInv
<1>5. state \in {"Open", "Closing"}
  BY <1>1, <1>2, <1>4 DEF TypeOK
<1>6. PICK i, a : Live(W, E, M, i, a)
  BY <1>2, <1>4, InPoll
<1>7. /\ i \in 1 .. N + 1 /\ N \in Nat /\ a \in Nat /\ M[i - 1] \in Known
  BY <1>6, LiveFacts
<1>8. InPayload(E, M, i, a) /\ ~M[i - 1].over /\ i # 1
  BY <1>2, <1>5, <1>6 DEF Live
<1>9. i \in 1 .. N
  BY <1>7, <1>8 DEF InPayload
<1>10. a + 0 = E[i]
  BY <1>2, <1>8 DEF InPayload
<1>11. a = E[i]
  BY <1>7, <1>10
<1>12. frames[i].len \in Nat
  BY <1>1, <1>9, FrameAt
<1>13. Part(i, frames[i].len) = Payload(i)
  <2>1. frames[i].len \in 0 .. frames[i].len
    BY <1>12
  <2> QED  BY <1>1, <1>9, <2>1, PartType
<1>14. frames[i].len - parser.remaining = frames[i].len
  BY <1>2, <1>12
<1>15. EndsIn(E, M, i, a)
  BY <1>7, <1>8, <1>9, <1>11, <1>13, <1>14 DEF InPayload, EndsIn
<1> QED  BY <1>2, <1>3, <1>5, <1>6, <1>15

\* At the end of a frame, only a text may turn out to be wrong.
LEMMA WrongAtEnd ==
    ASSUME NEW E, NEW M, NEW i, NEW a, FramesOK, EndsIn(E, M, i, a)
    PROVE  Wrong(M[i - 1], i) <=>
              (frames[i].op \notin Control /\ cur_fin /\ msg_opcode = "Text" /\ Invalid(msg_buf))
<1> DEFINE f == frames[i]
           m == M[i - 1]
<1>1. /\ i \in 1 .. N /\ i # 1 /\ m \in Known /\ ~HeaderBad(f) /\ (f.op \in Control => f.fin)
      /\ f.len <= MaxFrame /\ cur_fin = f.fin
      /\ f.op \notin Control =>
            /\ (f.op = "Cont") = (m.op # "None")
            /\ Len(m.acc) + f.len <= MaxMessage
            /\ msg_opcode = OpOf(m, f)
            /\ msg_buf = m.acc \o Payload(i)
  BY DEF EndsIn
<1>2. f.len \in Nat /\ f.op # "Upgrade" /\ MaxFrame \in Nat /\ MaxMessage \in Nat
  BY <1>1, FrameAt, Bounds
<1>3. ~(f.len > MaxFrame)
  BY <1>1, <1>2
<1>4. Len(m.acc \o Payload(i)) = Len(m.acc) + f.len /\ Len(m.acc) \in Nat
  <2>1. m.acc \in Seq(Byte) /\ Payload(i) \in Seq(Byte) /\ Len(Payload(i)) = f.len
    BY <1>1, KnownFields, PayloadType
  <2>2. PICK x \in Seq(Byte), y \in Seq(Byte) : x = m.acc /\ y = Payload(i)
    BY <2>1
  <2>3. Len(x \o y) = Len(x) + Len(y) /\ Len(x) \in Nat
    BY ONLY x \in Seq(Byte), y \in Seq(Byte), Cat
  <2> QED  BY <2>1, <2>2, <2>3
<1>5. f.op \notin Control => ~(Len(m.acc \o Payload(i)) > MaxMessage)
  BY <1>1, <1>2, <1>4
<1>6. Wrong(m, i) <=>
         \/ HeaderBad(f)
         \/ f.op \in Control /\ ~f.fin
         \/ f.len > MaxFrame
         \/ /\ f.op \notin Control \cup {"Upgrade"}
            /\ \/ (f.op = "Cont") # (m.op # "None")
               \/ Len(m.acc \o Payload(i)) > MaxMessage
               \/ f.fin /\ OpOf(m, f) = "Text" /\ Invalid(m.acc \o Payload(i))
  BY DEF Wrong
<1> HIDE DEF f, m
<1>7. Wrong(m, i) <=>
         (f.op \notin Control /\ f.fin /\ OpOf(m, f) = "Text" /\ Invalid(m.acc \o Payload(i)))
  BY <1>1, <1>2, <1>3, <1>5, <1>6
<1>8. Wrong(m, i) <=>
         (f.op \notin Control /\ cur_fin /\ msg_opcode = "Text" /\ Invalid(msg_buf))
  BY <1>1, <1>7
<1> QED  BY <1>8 DEF f, m

\* on_frame_end of a Ping or a Pong.
LEMMA EndPingGood ==
    ASSUME NEW W, NEW E, NEW M, Good(W, E, M), EndPing
    PROVE  Good(W, E, M)'
<1> DEFINE w == Written("Pong", ctl_buf)
<1>1. /\ FrameEnds /\ cur_opcode \in {"Ping", "Pong"}
      /\ tx_buf' = (IF cur_opcode = "Ping" /\ AutoPong THEN Append(tx_buf, w) ELSE tx_buf)
      /\ last_emitted' = "Control" /\ pc' = (IF call = "poll" THEN "ready" ELSE "loop")
      /\ cur_opcode' = "None" /\ parser' = Idle
      /\ UNCHANGED <<frames, stream, recv_buf, borrowed, msg_opcode, msg_buf, cur_fin, ctl_buf, state,
                     failed, batch, delivered, marks, call, ingress>>
  BY DEF EndPing, Emit, PongAuto, peerVars, msgVars, sinkVars
<1>2. TypeOK /\ FramesOK /\ PhaseInv /\ CloseInv /\ IsMeaning(M) /\ IsWire(W, E)
  BY DEF Good
<1>3. /\ pc = "poll" /\ state \in {"Open", "Closing"}
      /\ \E i, a : Live(W, E, M, i, a) /\ EndsIn(E, M, i, a)
  BY <1>1, AtEnd
<1>4. PICK i, a : Live(W, E, M, i, a) /\ EndsIn(E, M, i, a)
  BY <1>3
<1>5. /\ last_emitted = "None" /\ borrowed = 0 /\ ingress = <<>> /\ batch = <<>>
      /\ call \in {"poll", "data", "batch"} /\ ~IsOver
  BY <1>3, InPoll
<1>6. /\ i \in 1 .. N /\ M[i - 1] \in Known /\ ~M[i - 1].over /\ a = E[i] /\ cur_opcode = frames[i].op
      /\ frames[i].op \in Control /\ ctl_buf = Payload(i) /\ KeepsMessage(M[i - 1])
  BY <1>1, <1>4 DEF EndsIn, Control
<1>7. ~Wrong(M[i - 1], i)
  BY <1>2, <1>4, <1>6, WrongAtEnd
<1>8. /\ tx_buf \in Seq(WrittenType) /\ ctl_buf \in Seq(Byte)
  BY <1>2 DEF TypeOK, WrittenType
<1>9. w \in WrittenType /\ w.op = "Pong" /\ w.payload = ctl_buf
  BY <1>8, WrittenIs
<1> HIDE DEF w
<1>10. tx_buf' \in Seq(WrittenType)
  BY <1>1, <1>8, <1>9, AppendProperties
<1>11. TypeOK'
  <2>1. parser' \in [st : {"Idle", "Header", "Payload"}, partial : Seq(Byte), remaining : Nat]
    BY <1>1, EmptySeq DEF Idle
  <2> QED  BY <1>1, <1>2, <1>10, <2>1 DEF TypeOK, WrittenType
<1>12. PhaseInv'
  BY <1>1, <1>2, <1>3, <1>5 DEF PhaseInv
<1>13. CloseInv'
  <2>1. PICK bad : bad = (frames[1].bad = "header")
    OBVIOUS
  <2>2. CloseOK(tx_buf, state, bad)
    BY <1>2, <2>1 DEF CloseInv
  <2>3. CloseOK(Append(tx_buf, w), state, bad)
    BY <1>8, <1>9, <2>2, CloseKept
  <2>4. CloseOK(tx_buf', state, bad)
    BY <1>1, <2>2, <2>3
  <2> QED  BY <1>1, <2>1, <2>4 DEF CloseInv
<1>14. Story(W, E, M)'
  <2>1. M[i] = Read(M[i - 1], i)
    BY <1>2, <1>6, MeaningSteps
  <2>2. delivered' \o batch' = M[i - 1].out /\ (AutoPong => AnswersIn(tx_buf, M[i - 1].pings))
        /\ M[i - 1].pings \in Seq(Seq(Byte))
    BY <1>1, <1>4, <1>6, KnownFields DEF Live
  <2>3. /\ ~M[i].over /\ delivered' \o batch' = M[i].out
        /\ AutoPong => AnswersIn(tx_buf', M[i].pings)
        /\ M[i].op = M[i - 1].op /\ M[i].acc = M[i - 1].acc
    <3>1. CASE cur_opcode = "Ping"
      <4>1. /\ ~M[i].over /\ M[i].out = M[i - 1].out
            /\ M[i].pings = Append(M[i - 1].pings, Payload(i))
            /\ M[i].op = M[i - 1].op /\ M[i].acc = M[i - 1].acc
        <5>1. FramesOK /\ M[i - 1] \in Known /\ i \in 1 .. N /\ ~M[i - 1].over /\ ~Wrong(M[i - 1], i)
              /\ frames[i].op = "Ping"
          BY <1>2, <1>6, <1>7, <3>1
        <5> QED  BY ONLY <2>1, <5>1, ReadPing
      <4>2. ASSUME AutoPong PROVE AnswersIn(tx_buf', M[i].pings)
        <5>1. AnswersIn(Append(tx_buf, w), Append(M[i - 1].pings, w.payload))
          BY <1>8, <1>9, <2>2, <4>2, AnswersNext
        <5> QED  BY <1>1, <1>6, <1>9, <3>1, <4>1, <4>2, <5>1
      <4> QED  BY <2>2, <4>1, <4>2
    <3>2. CASE cur_opcode = "Pong"
      <4>1. Read(M[i - 1], i) = M[i - 1]
        BY <1>6, <1>7, <3>2, ReadNothing
      <4>2. tx_buf' = tx_buf
        BY <1>1, <3>2
      <4> QED  BY <1>6, <2>1, <2>2, <4>1, <4>2
    <3> QED  BY <1>1, <3>1, <3>2
  <2>4. KeepsMessage(M[i])'
    BY <1>1, <1>6, <2>3 DEF KeepsMessage
  <2>5. Placed(W, a)'
    BY <1>1, <1>4, SamePlaced DEF Live
  <2>6. a + borrowed' = E[i]
    <3>1. a \in Nat
      BY <1>4, LiveFacts
    <3> QED  BY <1>1, <1>5, <1>6, <3>1
  <2>7. Live(W, E, M, i + 1, a)'
    <3>1. (pc' # "ready" \/ call' = "poll") /\ state' # "Connecting"
      BY <1>1, <1>3
    <3> QED  BY <1>1, <1>6, <2>3, <2>4, <2>5, <2>6, <3>1, NextFrame
  <2> QED  BY <1>1, <1>5, <2>7 DEF Story, IsOver
<1> QED  BY <1>1, <1>11, <1>12, <1>13, <1>14, GoodNext

\* on_frame_end of a Close, on_received_close.
LEMMA EndCloseGood ==
    ASSUME NEW W, NEW E, NEW M, Good(W, E, M), EndClose
    PROVE  Good(W, E, M)'
<1> DEFINE w == Written("Close", <<>>)
<1>1. /\ FrameEnds /\ cur_opcode = "Close"
      /\ IF Invalid(ctl_buf)
         THEN Fail /\ UNCHANGED last_emitted
         ELSE /\ tx_buf' = (IF state = "Open" THEN Append(tx_buf, w) ELSE tx_buf)
              /\ state' = "Closed" /\ last_emitted' = "Control"
              /\ pc' = (IF call = "poll" THEN "ready" ELSE "loop") /\ failed' = failed
      /\ cur_opcode' = "None" /\ parser' = Idle
      /\ UNCHANGED <<frames, stream, recv_buf, borrowed, msg_opcode, msg_buf, cur_fin, ctl_buf,
                     batch, delivered, marks, call, ingress>>
  BY DEF EndClose, EchoClose, Emit, peerVars, msgVars, sinkVars
<1>2. TypeOK /\ FramesOK /\ PhaseInv /\ CloseInv /\ IsMeaning(M) /\ IsWire(W, E)
  BY DEF Good
<1>3. /\ pc = "poll" /\ ~failed /\ state \in {"Open", "Closing"}
      /\ \E i, a : Live(W, E, M, i, a) /\ EndsIn(E, M, i, a)
  BY <1>1, AtEnd
<1>4. PICK i, a : Live(W, E, M, i, a) /\ EndsIn(E, M, i, a)
  BY <1>3
<1>5. /\ last_emitted = "None" /\ borrowed = 0 /\ ingress = <<>> /\ batch = <<>>
      /\ call \in {"poll", "data", "batch"}
  BY <1>3, InPoll
<1>6. i \in 1 .. N /\ frames[i].op = "Close" /\ M[i - 1] \in Known
  BY <1>1, <1>4 DEF EndsIn
<1>7. delivered' = M[i - 1].out /\ M[i - 1].pings \in Seq(Seq(Byte))
      /\ (AutoPong => AnswersIn(tx_buf, M[i - 1].pings))
  <2>1. delivered \in Seq(MessageType) /\ delivered \o batch = M[i - 1].out
        /\ (AutoPong => AnswersIn(tx_buf, M[i - 1].pings))
    BY <1>2, <1>4 DEF Live, TypeOK
  <2>2. delivered \o <<>> = delivered
    BY <2>1, ConcatEmptySeq
  <2> QED  BY <1>1, <1>5, <1>6, <2>1, <2>2, KnownFields
<1>8. parser' \in [st : {"Idle", "Header", "Payload"}, partial : Seq(Byte), remaining : Nat]
  BY <1>1, EmptySeq DEF Idle
<1>9. /\ msg_opcode' \in Data \cup {"None"} /\ msg_buf' \in Seq(Byte)
      /\ cur_opcode' \in Data \cup Control \cup {"Cont", "None"} /\ cur_fin' \in BOOLEAN
      /\ ctl_buf' \in Seq(Byte) /\ recv_buf' \in Seq(Byte) /\ ingress' \in Seq(Byte)
      /\ marks' \in Seq(BOOLEAN) /\ batch' = <<>> /\ borrowed' = 0
      /\ UNCHANGED <<frames, stream, call>>
  BY <1>1, <1>2, <1>5 DEF TypeOK
<1>10. CASE Invalid(ctl_buf)
  <2>1. Fail /\ last_emitted' = "None"
    BY <1>1, <1>5, <1>10
  <2> QED  BY <1>1, <1>3, <1>4, <1>6, <1>7, <1>8, <1>9, <2>1, FailGood
<1>11. CASE ~Invalid(ctl_buf)
  <2>1. /\ tx_buf' = (IF state = "Open" THEN Append(tx_buf, w) ELSE tx_buf)
        /\ state' = "Closed" /\ last_emitted' = "Control"
        /\ pc' = (IF call = "poll" THEN "ready" ELSE "loop") /\ failed' = failed
    BY <1>1, <1>11
  <2>2. tx_buf \in Seq(WrittenType) /\ w \in WrittenType /\ w.op = "Close"
    BY <1>2, WrittenIs, EmptySeq DEF TypeOK, WrittenType
  <2> HIDE DEF w
  <2>3. tx_buf' \in Seq(WrittenType)
    BY <2>1, <2>2, AppendProperties
  <2>4. TypeOK'
    BY <1>1, <1>2, <1>8, <2>1, <2>3 DEF TypeOK, WrittenType
  <2>5. PhaseInv'
    BY <1>1, <1>2, <1>3, <1>5, <2>1 DEF PhaseInv
  <2>6. CloseInv'
    <3>1. PICK bad : bad = (frames[1].bad = "header")
      OBVIOUS
    <3>2. CloseOK(tx_buf, state, bad)
      BY <1>2, <3>1 DEF CloseInv
    <3>3. PICK st \in {"Closing", "Closed"} : st = "Closed"
      OBVIOUS
    <3>4. CloseOK(tx_buf', "Closed", bad)
      <4>1. CASE state = "Open"
        <5>1. CloseOK(tx_buf, "Open", bad)
          BY <3>2, <4>1
        <5>2. CloseOK(Append(tx_buf, w), st, bad)
          BY <2>2, <5>1, CloseFirst
        <5> QED  BY <2>1, <3>3, <4>1, <5>2
      <4>2. CASE state = "Closing"
        <5>1. CloseOK(tx_buf, "Closed", bad)
          BY <3>2, <4>2, CloseState
        <5> QED  BY <2>1, <4>2, <5>1
      <4> QED  BY <1>3, <4>1, <4>2
    <3> QED  BY <1>1, <2>1, <3>1, <3>4 DEF CloseInv
  <2>7. AutoPong => AnswersIn(tx_buf', M[i - 1].pings)
    <3> SUFFICES ASSUME AutoPong PROVE AnswersIn(tx_buf', M[i - 1].pings)
      OBVIOUS
    <3>1. AnswersIn(Append(tx_buf, w), M[i - 1].pings)
      BY <1>7, <2>2, AnswersKept
    <3> QED  BY <1>7, <2>1, <3>1
  <2>8. IsOver'
    BY <2>1 DEF IsOver
  <2>9. Story(W, E, M)'
    BY <1>1, <1>4, <1>6, <1>7, <2>7, <2>8, EndedStory
  <2> QED  BY <1>1, <2>4, <2>5, <2>6, <2>9, GoodNext
<1> QED  BY <1>10, <1>11

\* on_frame_end of a fragment that is not the last.
LEMMA EndFragmentGood ==
    ASSUME NEW W, NEW E, NEW M, Good(W, E, M), EndFragment
    PROVE  Good(W, E, M)'
<1>1. /\ FrameEnds /\ cur_opcode \notin Control /\ ~cur_fin
      /\ cur_opcode' = "None" /\ parser' = Idle
      /\ UNCHANGED <<frames, stream, recv_buf, borrowed, last_emitted, msg_opcode, msg_buf, cur_fin,
                     ctl_buf, state, tx_buf, failed, batch, delivered, marks, call, pc, ingress>>
  BY DEF EndFragment, peerVars, bufVars, msgVars, outVars, sinkVars
<1>2. TypeOK /\ FramesOK /\ PhaseInv /\ CloseInv /\ IsMeaning(M) /\ IsWire(W, E)
  BY DEF Good
<1>3. /\ pc = "poll" /\ state \in {"Open", "Closing"}
      /\ \E i, a : Live(W, E, M, i, a) /\ EndsIn(E, M, i, a)
  BY <1>1, AtEnd
<1>4. PICK i, a : Live(W, E, M, i, a) /\ EndsIn(E, M, i, a)
  BY <1>3
<1>5. borrowed = 0 /\ last_emitted = "None" /\ ~IsOver
  BY <1>3, InPoll
<1>6. /\ i \in 1 .. N /\ M[i - 1] \in Known /\ ~M[i - 1].over /\ a = E[i]
      /\ frames[i].op \notin Control /\ ~frames[i].fin
      /\ msg_opcode = OpOf(M[i - 1], frames[i]) /\ msg_buf = M[i - 1].acc \o Payload(i)
  BY <1>1, <1>4 DEF EndsIn
<1>7. ~Wrong(M[i - 1], i) /\ frames[i].op \notin Control \cup {"Upgrade"}
  <2>1. frames[i].op # "Upgrade"
    BY <1>2, <1>4, FrameAt DEF EndsIn
  <2> QED  BY <1>1, <1>2, <1>4, <1>6, <2>1, WrongAtEnd
<1>8. TypeOK'
  <2>1. parser' \in [st : {"Idle", "Header", "Payload"}, partial : Seq(Byte), remaining : Nat]
    BY <1>1, EmptySeq DEF Idle
  <2> QED  BY <1>1, <1>2, <2>1 DEF TypeOK
<1>9. PhaseInv'
  BY <1>1, <1>2, <1>3, <1>5 DEF PhaseInv
<1>10. CloseInv'
  BY <1>1, <1>2 DEF CloseInv
<1>11. Story(W, E, M)'
  <2>1. M[i] = Read(M[i - 1], i)
    BY <1>2, <1>6, MeaningSteps
  <2>2. /\ ~M[i].over /\ M[i].out = M[i - 1].out /\ M[i].pings = M[i - 1].pings
        /\ M[i].op = OpOf(M[i - 1], frames[i]) /\ M[i].acc = M[i - 1].acc \o Payload(i)
    <3>1. FramesOK /\ M[i - 1] \in Known /\ i \in 1 .. N /\ ~M[i - 1].over /\ ~Wrong(M[i - 1], i)
          /\ frames[i].op \notin Control \cup {"Upgrade"} /\ ~frames[i].fin
      BY <1>2, <1>6, <1>7
    <3>2. /\ ~Read(M[i - 1], i).over
          /\ Read(M[i - 1], i).out = M[i - 1].out
          /\ Read(M[i - 1], i).pings = M[i - 1].pings
          /\ Read(M[i - 1], i).op = OpOf(M[i - 1], frames[i])
          /\ Read(M[i - 1], i).acc = M[i - 1].acc \o Payload(i)
      BY ONLY <3>1, ReadFragment
    <3> QED  BY <2>1, <3>2
  <2>3. KeepsMessage(M[i])'
    BY <1>1, <1>6, <2>2 DEF KeepsMessage
  <2>4. delivered' \o batch' = M[i].out /\ (AutoPong => AnswersIn(tx_buf', M[i].pings))
    BY <1>1, <1>4, <2>2 DEF Live
  <2>5. Placed(W, a)'
    BY <1>1, <1>4, SamePlaced DEF Live
  <2>6. a + borrowed' = E[i]
    <3>1. a \in Nat
      BY <1>4, LiveFacts
    <3> QED  BY <1>1, <1>5, <1>6, <3>1
  <2>7. Live(W, E, M, i + 1, a)'
    <3>1. pc' # "ready" /\ state' # "Connecting"
      BY <1>1, <1>3
    <3> QED  BY <1>1, <1>6, <2>2, <2>3, <2>4, <2>5, <2>6, <3>1, NextFrame
  <2> QED  BY <1>1, <1>5, <2>7 DEF Story, IsOver
<1> QED  BY <1>1, <1>8, <1>9, <1>10, <1>11, GoodNext

\* on_frame_end of the last frame of a message.
LEMMA EndMessageGood ==
    ASSUME NEW W, NEW E, NEW M, Good(W, E, M), EndMessage
    PROVE  Good(W, E, M)'
<1> DEFINE x == Message(msg_opcode, msg_buf)
<1>1. /\ FrameEnds /\ cur_opcode \notin Control /\ cur_fin
      /\ IF msg_opcode = "Text" /\ Invalid(msg_buf)
         THEN Fail /\ UNCHANGED <<last_emitted, batch, delivered, marks>>
         ELSE /\ Surface(x) /\ last_emitted' = "Message"
              /\ pc' = (IF call = "poll" THEN "ready" ELSE "loop")
              /\ UNCHANGED <<state, tx_buf, failed>>
      /\ msg_opcode' = "None" /\ cur_opcode' = "None" /\ parser' = Idle
      /\ UNCHANGED <<frames, stream, recv_buf, borrowed, msg_buf, cur_fin, ctl_buf, call, ingress>>
  BY DEF EndMessage, Emit, peerVars, outVars, sinkVars
<1>2. TypeOK /\ FramesOK /\ PhaseInv /\ CloseInv /\ IsMeaning(M) /\ IsWire(W, E)
  BY DEF Good
<1>3. /\ pc = "poll" /\ ~failed /\ state \in {"Open", "Closing"}
      /\ \E i, a : Live(W, E, M, i, a) /\ EndsIn(E, M, i, a)
  BY <1>1, AtEnd
<1>4. PICK i, a : Live(W, E, M, i, a) /\ EndsIn(E, M, i, a)
  BY <1>3
<1>5. /\ last_emitted = "None" /\ borrowed = 0 /\ ingress = <<>> /\ batch = <<>>
      /\ call \in {"poll", "data", "batch"} /\ ~IsOver
  BY <1>3, InPoll
<1>6. /\ i \in 1 .. N /\ M[i - 1] \in Known /\ ~M[i - 1].over /\ a = E[i]
      /\ frames[i].op \notin Control /\ frames[i].fin
      /\ msg_opcode = OpOf(M[i - 1], frames[i]) /\ msg_buf = M[i - 1].acc \o Payload(i)
  BY <1>1, <1>4 DEF EndsIn
<1>7. Wrong(M[i - 1], i) <=> (msg_opcode = "Text" /\ Invalid(msg_buf))
  BY <1>1, <1>2, <1>4, <1>6, WrongAtEnd
<1>8. frames[i].op \notin Control \cup {"Upgrade"}
  <2>1. frames[i].op # "Upgrade"
    BY <1>2, <1>4, FrameAt DEF EndsIn
  <2> QED  BY <1>6, <2>1
<1>9. parser' \in [st : {"Idle", "Header", "Payload"}, partial : Seq(Byte), remaining : Nat]
  BY <1>1, EmptySeq DEF Idle
<1>10. /\ msg_opcode' \in Data \cup {"None"} /\ msg_buf' \in Seq(Byte)
       /\ cur_opcode' \in Data \cup Control \cup {"Cont", "None"} /\ cur_fin' \in BOOLEAN
       /\ ctl_buf' \in Seq(Byte) /\ recv_buf' \in Seq(Byte) /\ ingress' \in Seq(Byte)
       /\ borrowed' = 0 /\ UNCHANGED <<frames, stream, call>>
  BY <1>1, <1>2, <1>5 DEF TypeOK
<1> HIDE DEF x
<1>11. CASE Wrong(M[i - 1], i)
  <2>1. Fail /\ UNCHANGED <<last_emitted, batch, delivered, marks>>
    BY <1>1, <1>7, <1>11
  <2>2. last_emitted' = "None" /\ batch' = <<>> /\ marks' \in Seq(BOOLEAN)
    BY <1>2, <1>5, <2>1 DEF TypeOK
  <2>3. delivered' = M[i - 1].out
    <3>1. delivered \in Seq(MessageType) /\ delivered \o batch = M[i - 1].out
      BY <1>2, <1>4 DEF Live, TypeOK
    <3>2. delivered \o <<>> = delivered
      BY <3>1, ConcatEmptySeq
    <3> QED  BY <1>5, <2>1, <3>1, <3>2
  <2> QED  BY <1>1, <1>3, <1>4, <1>6, <1>9, <1>10, <1>11, <2>1, <2>2, <2>3, FailGood
<1>12. CASE ~Wrong(M[i - 1], i)
  <2>1. /\ Surface(x) /\ last_emitted' = "Message"
        /\ pc' = (IF call = "poll" THEN "ready" ELSE "loop") /\ UNCHANGED <<state, tx_buf, failed>>
    BY <1>1, <1>7, <1>12
  <2>2. M[i] = Read(M[i - 1], i)
    BY <1>2, <1>6, MeaningSteps
  <2>3. /\ ~M[i].over /\ M[i].out = Append(M[i - 1].out, x) /\ x \in MessageType
        /\ M[i].pings = M[i - 1].pings /\ M[i].op = "None"
    <3>1. x = Message(OpOf(M[i - 1], frames[i]), M[i - 1].acc \o Payload(i))
      BY <1>6 DEF x
    <3>2. /\ ~Read(M[i - 1], i).over
          /\ Read(M[i - 1], i).out
               = Append(M[i - 1].out, Message(OpOf(M[i - 1], frames[i]), M[i - 1].acc \o Payload(i)))
          /\ Message(OpOf(M[i - 1], frames[i]), M[i - 1].acc \o Payload(i)) \in MessageType
          /\ Read(M[i - 1], i).pings = M[i - 1].pings
          /\ Read(M[i - 1], i).op = "None"
      BY <1>2, <1>6, <1>8, <1>12, ReadLast
    <3> QED  BY <2>2, <3>1, <3>2
  <2>4. /\ delivered' \in Seq(MessageType) /\ batch' = <<>> /\ batch' \in Seq(MessageType)
        /\ Len(batch') <= BatchCapacity /\ marks' \in Seq(BOOLEAN)
        /\ delivered' \o batch' = Append(delivered \o batch, x)
    BY <1>2, <1>5, <2>1, <2>3, Surfaced
  <2>5. TypeOK'
    BY <1>1, <1>2, <1>9, <1>10, <2>1, <2>4 DEF TypeOK
  <2>6. PhaseInv'
    BY <1>1, <1>2, <1>3, <1>5, <2>1, <2>4 DEF PhaseInv
  <2>7. CloseInv'
    BY <1>1, <1>2, <2>1 DEF CloseInv
  <2>8. delivered' \o batch' = M[i].out /\ (AutoPong => AnswersIn(tx_buf', M[i].pings))
    BY <1>4, <2>1, <2>3, <2>4 DEF Live
  <2>9. KeepsMessage(M[i])'
    BY <1>1, <2>3 DEF KeepsMessage
  <2>10. Placed(W, a)'
    BY <1>1, <1>4, SamePlaced DEF Live
  <2>11. a + borrowed' = E[i]
    <3>1. a \in Nat
      BY <1>4, LiveFacts
    <3> QED  BY <1>6, <1>10, <3>1
  <2>12. Live(W, E, M, i + 1, a)'
    <3>1. (pc' # "ready" \/ call' = "poll") /\ state' # "Connecting"
      BY <1>1, <1>3, <2>1
    <3> QED  BY <1>1, <1>6, <2>3, <2>8, <2>9, <2>10, <2>11, <3>1, NextFrame
  <2>13. Story(W, E, M)'
    BY <1>5, <2>1, <2>12 DEF Story, IsOver
  <2> QED  BY <1>1, <2>5, <2>6, <2>7, <2>13, GoodNext
<1> QED  BY <1>11, <1>12

-----------------------------------------------------------------------------
(* Every step keeps the invariant.                                          *)

\* A step that changes nothing.
LEMMA StutterGood ==
    ASSUME NEW W, NEW E, NEW M, Good(W, E, M), UNCHANGED vars
    PROVE  Good(W, E, M)'
<1>1. UNCHANGED <<state, tx_buf, failed, frames, stream, recv_buf, borrowed, last_emitted,
                  msg_opcode, msg_buf, cur_opcode, cur_fin, ctl_buf, batch, delivered, marks,
                  parser, call, pc, ingress>>
  BY DEF vars, peerVars, bufVars, msgVars, curVars, outVars, sinkVars
<1>2. TypeOK /\ FramesOK /\ PhaseInv /\ CloseInv /\ Story(W, E, M) /\ IsWire(W, E)
  BY DEF Good
<1>3. TypeOK'
  BY <1>1, <1>2 DEF TypeOK
<1>4. PhaseInv'
  BY <1>1, <1>2 DEF PhaseInv, BetweenFrames
<1>5. CloseInv'
  BY <1>1, <1>2 DEF CloseInv
<1>6. Story(W, E, M)'
  <2>1. IsOver' = IsOver
    BY <1>1 DEF IsOver
  <2>2. CASE IsOver
    <3>1. PICK j : Over(W, E, M, j)
      BY <1>2, <2>2 DEF Story
    <3>2. Len(W) \in Nat /\ Len(stream) \in Nat /\ (j \in 0 .. N => E[j] \in Nat)
      BY <1>2, WireEnds, LenProperties DEF TypeOK
    <3>3. /\ Piece(W, stream', Len(W) - Len(stream')) /\ Len(stream') <= Len(stream)
          /\ Len(stream') \in Nat
      BY <1>1, <3>1, <3>2 DEF Over
    <3>4. Over(W, E, M, j)'
      BY <1>1, <3>1, <3>2, <3>3, StaysOver
    <3> QED  BY <2>1, <2>2, <3>4 DEF Story
  <2>3. CASE ~IsOver
    <3>1. PICK i, a : Live(W, E, M, i, a)
      BY <1>2, <2>3 DEF Story
    <3>2. Placed(W, a)'
      BY <1>1, <3>1, SamePlaced DEF Live
    <3>3. (pc' = "ready" /\ call' \in {"data", "batch"} /\ i <= N) => a + Len(recv_buf') < E[i]
      BY <1>1, <3>1 DEF Live
    <3>4. Live(W, E, M, i, a)'
      BY <1>1, <3>1, <3>2, <3>3, SameFrame
    <3> QED  BY <2>1, <2>3, <3>4 DEF Story
  <2> QED  BY <2>2, <2>3
<1> QED  BY <1>1, <1>3, <1>4, <1>5, <1>6, GoodNext

\* Every step of the client.
LEMMA NextGood ==
    ASSUME NEW W, NEW E, NEW M, Good(W, E, M), [Next]_vars
    PROVE  Good(W, E, M)'
<1>1. CASE UNCHANGED vars
  BY <1>1, StutterGood
<1>2. CASE Call
  <2>1. ASSUME NEW c \in {"poll", "data", "batch"}, Begin(c) PROVE Good(W, E, M)'
    BY <2>1, BeginGood
  <2>2. ASSUME NEW c \in {"data", "batch"}, BeginIngress(c) PROVE Good(W, E, M)'
    BY <2>2, BeginIngressGood
  <2> QED  BY <1>2, <2>1, <2>2, FeedRecvGood, SendFrameGood, SendCloseGood DEF Call
<1>3. CASE Step
  <2>1. CASE IngressFrame  BY <2>1, IngressFrameGood
  <2>2. CASE IngressEnd  BY <2>2, IngressEndGood
  <2>3. CASE Loop  BY <2>3, LoopGood
  <2>4. CASE DirectFrame  BY <2>4, DirectFrameGood
  <2>5. CASE DirectEnd  BY <2>5, DirectEndGood
  <2>6. CASE PollClosed  BY <2>6, PollClosedGood
  <2>7. CASE PollBorrowed  BY <2>7, PollBorrowedGood
  <2>8. CASE AdvanceHandshake  BY <2>8, AdvanceHandshakeGood
  <2>9. CASE AdvanceHeader  BY <2>9, AdvanceHeaderGood
  <2>10. CASE AdvancePayload  BY <2>10, AdvancePayloadGood
  <2>11. CASE EndPing  BY <2>11, EndPingGood
  <2>12. CASE EndClose  BY <2>12, EndCloseGood
  <2>13. CASE EndFragment  BY <2>13, EndFragmentGood
  <2>14. CASE EndMessage  BY <2>14, EndMessageGood
  <2> QED  BY <1>3, <2>1, <2>2, <2>3, <2>4, <2>5, <2>6, <2>7, <2>8, <2>9, <2>10, <2>11, <2>12, <2>13,
               <2>14 DEF Step
<1> QED  BY <1>1, <1>2, <1>3 DEF Next

\* The bytes of the peer and what its frames mean stay what they are: the invariant is
\* inductive.
LEMMA InvNext == WsInv /\ [Next]_vars => WsInv'
<1> SUFFICES ASSUME WsInv, [Next]_vars PROVE WsInv'
  OBVIOUS
<1>1. PICK W, E, M : Good(W, E, M)
  BY DEF WsInv
<1>2. Good(W, E, M)'
  BY <1>1, NextGood
<1> QED  BY <1>2 DEF WsInv

\* WsInv holds in every state of the client.
THEOREM WsInvariant == Spec => []WsInv
<1>1. Init => WsInv
  BY InitInv
<1>2. WsInv /\ [Next]_vars => WsInv'
  BY InvNext
<1> QED  BY <1>1, <1>2, PTL DEF Spec

-----------------------------------------------------------------------------
(* What follows.                                                            *)

\* A call that has read everything has delivered and answered what the complete frames
\* mean.
LEMMA EverythingRead ==
    ASSUME NEW W, NEW E, NEW M, Good(W, E, M), AllRead
    PROVE  /\ Arrived \in 0 .. N
           /\ delivered = M[Arrived].out
           /\ AutoPong => AnswersIn(tx_buf, M[Arrived].pings)
<1>1. TypeOK /\ FramesOK /\ PhaseInv /\ IsWire(W, E) /\ Story(W, E, M)
  BY DEF Good
<1>2. pc = "ready" /\ (call \in {"data", "batch"} \/ failed)
  BY DEF AllRead
<1>3. Piece(W, stream, Len(W) - Len(stream)) /\ Len(W) \in Nat /\ Len(stream) \in Nat
  BY <1>1, LiveStream, WireEnds, LenProperties DEF TypeOK
<1>4. PICK p : p = Len(W) - Len(stream)
  OBVIOUS
<1>5. Piece(W, stream, p) /\ p + Len(stream) = Len(W) /\ p \in Nat
  BY <1>3, <1>4 DEF Piece
<1>6. Arrived \in 0 .. N /\ (Arrived # N => p < E[Arrived + 1])
  BY <1>1, <1>5, ArrivedIs
<1>7. N \in Nat
  BY <1>1, WireEnds
<1>8. CASE IsOver
  <2>1. PICK j : Over(W, E, M, j)
    BY <1>1, <1>8 DEF Story
  <2>2. /\ j \in 0 .. N /\ delivered = M[j].out /\ (AutoPong => AnswersIn(tx_buf, M[j].pings))
        /\ Settled(M, j) /\ E[j] <= p
    BY <1>4, <2>1 DEF Over
  <2>3. ~(Arrived < j)
    <3> SUFFICES ASSUME Arrived < j PROVE FALSE
      OBVIOUS
    <3>1. PICK k : k = Arrived + 1
      OBVIOUS
    <3>2. k \in 0 .. N /\ j \in k .. N /\ Arrived # N
      BY <1>6, <1>7, <2>2, <3>1
    <3>3. E[k] <= E[j]
      BY <1>1, <3>2, WireMono
    <3>4. E[k] \in Nat /\ E[j] \in Nat
      BY <1>1, <2>2, <3>2, WireEnds
    <3> QED  BY <1>5, <1>6, <2>2, <3>1, <3>2, <3>3, <3>4
  <2>4. Arrived \in j .. N
    BY <1>6, <1>7, <2>2, <2>3
  <2>5. M[Arrived].out = M[j].out /\ M[Arrived].pings = M[j].pings
    BY <2>2, <2>4 DEF Settled
  <2> QED  BY <1>6, <2>2, <2>5
<1>9. CASE ~IsOver
  <2>1. PICK i, a : Live(W, E, M, i, a)
    BY <1>1, <1>9 DEF Story
  <2>2. ~failed /\ call \in {"data", "batch"} /\ ingress = <<>> /\ batch = <<>>
    BY <1>1, <1>2, <1>9 DEF IsOver, PhaseInv
  <2>3. /\ i \in 1 .. N + 1 /\ a \in Nat /\ Len(recv_buf) \in Nat
        /\ E[i - 1] <= Len(W) - Len(stream)
        /\ a + Len(recv_buf) + Len(ingress) = Len(W) - Len(stream)
    BY <2>1, LiveFacts, LiveBegins
  <2>4. a + Len(recv_buf) = p
    <3>1. Len(ingress) = 0
      BY <2>2, EmptySeq
    <3> QED  BY <1>4, <2>3, <3>1
  <2>5. i <= N => p < E[i]
    BY <1>2, <2>1, <2>2, <2>4 DEF Live
  <2>6. Arrived = i - 1
    BY <1>1, <1>4, <1>5, <2>3, <2>5, ArrivedBefore
  <2>7. delivered = M[i - 1].out /\ (AutoPong => AnswersIn(tx_buf, M[i - 1].pings))
    <3>1. delivered \in Seq(MessageType) /\ delivered \o batch = M[i - 1].out
          /\ (AutoPong => AnswersIn(tx_buf, M[i - 1].pings))
      BY <1>1, <2>1 DEF Live, TypeOK
    <3>2. delivered \o <<>> = delivered
      BY <3>1, ConcatEmptySeq
    <3> QED  BY <2>2, <3>1, <3>2
  <2> QED  BY <1>6, <2>6, <2>7
<1> QED  BY <1>8, <1>9

\* What was delivered is a beginning of what all the frames mean.
LEMMA DeliveredBegins ==
    ASSUME NEW W, NEW E, NEW M, Good(W, E, M)
    PROVE  /\ Len(delivered) <= Len(M[N].out)
           /\ delivered = Prefix(M[N].out, Len(delivered))
<1>1. TypeOK /\ FramesOK /\ Story(W, E, M) /\ IsMeaning(M)
  BY DEF Good
<1>2. delivered \in Seq(MessageType) /\ batch \in Seq(MessageType)
  BY <1>1 DEF TypeOK
<1>3. \E t \in Seq(MessageType) : M[N].out = delivered \o t
  <2>1. CASE IsOver
    <3>1. PICK j : Over(W, E, M, j)
      BY <1>1, <2>1 DEF Story
    <3>2. j \in 0 .. N /\ delivered = M[j].out
      BY <3>1 DEF Over
    <3> QED  BY <1>1, <3>2, OutGrows
  <2>2. CASE ~IsOver
    <3>1. PICK i, a : Live(W, E, M, i, a)
      BY <1>1, <2>2 DEF Story
    <3>2. delivered \o batch = M[i - 1].out /\ i - 1 \in 0 .. N
      BY <3>1, LiveFacts DEF Live
    <3>3. PICK j \in 0 .. N : j = i - 1
      BY <3>2
    <3>4. PICK u \in Seq(MessageType) : M[N].out = M[j].out \o u
      BY <1>1, OutGrows
    <3>5. (delivered \o batch) \o u = delivered \o (batch \o u)
      BY ONLY <1>2, u \in Seq(MessageType), Assoc
    <3>6. batch \o u \in Seq(MessageType)
      BY ONLY <1>2, u \in Seq(MessageType), Cat
    <3>7. M[N].out = delivered \o (batch \o u)
      BY <3>2, <3>3, <3>4, <3>5
    <3> QED  BY <3>6, <3>7
  <2> QED  BY <2>1, <2>2
<1>4. PICK t \in Seq(MessageType) : M[N].out = delivered \o t
  BY <1>3
<1>5. SubSeq(delivered \o t, 1, Len(delivered)) = delivered
  BY <1>2, SplitCat
<1>6. Len(delivered \o t) = Len(delivered) + Len(t) /\ Len(delivered) \in Nat /\ Len(t) \in Nat
  BY <1>2, Cat, LenProperties
<1> QED  BY <1>4, <1>5, <1>6 DEF Prefix

\* TypeOK: the state of the client stays within its types, for every script of the peer
\* and every limit.
THEOREM WsTypes == Spec => []TypeOK
<1>1. WsInv => TypeOK
  BY DEF WsInv, Good
<1> QED  BY <1>1, WsInvariant, PTL

\* DeliveredAsSent: the sink is given exactly the messages that the frames mean, however
\* the bytes are cut into chunks and whichever of the three paths reads them
\* (try_drain_ingress_data_events, try_drain_data_events, try_emit_borrowed_data and the
\* streaming parser).
THEOREM WsDelivers == Spec => []DeliveredAsSent
<1>1. WsInv => DeliveredAsSent
  <2> SUFFICES ASSUME WsInv PROVE DeliveredAsSent
    OBVIOUS
  <2>1. PICK W, E, M : Good(W, E, M)
    BY DEF WsInv
  <2>2. FramesOK /\ IsMeaning(M) /\ IsWire(W, E)
    BY <2>1 DEF Good
  <2>3. \A i \in 0 .. N : Meaning[i] = M[i]
    BY <2>2, MeaningUnique
  <2>4. Meaning[N] = M[N]
    BY <2>2, <2>3, WireEnds
  <2>5. Len(delivered) <= Len(M[N].out) /\ delivered = Prefix(M[N].out, Len(delivered))
    BY <2>1, DeliveredBegins
  <2>6. AllRead => delivered = Meaning[Arrived].out
    BY <2>1, <2>3, EverythingRead
  <2>7. Len(frames) = N
    BY DEF N
  <2> QED  BY <2>4, <2>5, <2>6, <2>7 DEF DeliveredAsSent
<1> QED  BY <1>1, WsInvariant, PTL

\* PingsAnswered: each Ping that was read is answered once, in order, with its payload
\* (on_frame_end, auto_pong).
THEOREM WsAnswersPings == Spec => []PingsAnswered
<1>1. WsInv => PingsAnswered
  <2> SUFFICES ASSUME WsInv, AutoPong, AllRead PROVE Answers(Meaning[Arrived].pings)
    BY DEF PingsAnswered
  <2>1. PICK W, E, M : Good(W, E, M)
    BY DEF WsInv
  <2>2. FramesOK /\ IsMeaning(M)
    BY <2>1 DEF Good
  <2>3. Arrived \in 0 .. N /\ AnswersIn(tx_buf, M[Arrived].pings)
    BY <2>1, EverythingRead
  <2>4. Meaning[Arrived] = M[Arrived]
    BY <2>2, <2>3, MeaningUnique
  <2>5. AnswersIn(tx_buf, Meaning[Arrived].pings)
    BY <2>3, <2>4
  <2> QED  BY <2>5 DEF AnswersIn, Answers, Pongs
<1> QED  BY <1>1, WsInvariant, PTL

\* OneClose: at most one Close frame is written, whoever begins to close (send_close,
\* queue_close, on_received_close), one when an open connection closes, and nothing of the
\* caller's after it.
THEOREM WsOneClose == Spec => []OneClose
<1>1. WsInv => OneClose
  <2> SUFFICES ASSUME WsInv PROVE OneClose
    OBVIOUS
  <2>1. PICK W, E, M : Good(W, E, M)
    BY DEF WsInv
  <2>2. FramesOK /\ IsMeaning(M) /\ CloseInv
    BY <2>1 DEF Good
  <2>3. 1 \in 0 .. N /\ 1 \in 1 .. N /\ 1 - 1 = 0
    BY <2>2 DEF FramesOK
  <2>4. frames[1].bad = "header" => Meaning[1].over
    <3> SUFFICES ASSUME frames[1].bad = "header" PROVE Meaning[1].over
      OBVIOUS
    <3>1. M[0] \in Known /\ M[1] = Read(M[0], 1)
      BY <2>2, <2>3, MeaningSteps
    <3>2. Wrong(M[0], 1)
      BY <2>2, UpgradeBad DEF Wrong
    <3>3. Read(M[0], 1).over
      BY <3>1, <3>2, ReadStops
    <3> QED  BY <2>2, <2>3, <3>1, <3>3, MeaningUnique
  <2>5. Meaning[1].over = FALSE => ~(frames[1].bad = "header")
    BY <2>4
  <2> QED  BY <2>2, <2>5 DEF CloseInv, CloseOK, OneClose, Closes
<1> QED  BY <1>1, WsInvariant, PTL

\* NoInternalError: at the end of a frame its opcode and that of its message are known, so
\* on_frame_end never returns an error called Internal.
THEOREM WsNoInternalError == Spec => []NoInternalError
<1>1. WsInv => NoInternalError
  <2> SUFFICES ASSUME WsInv, FrameEnds
               PROVE  cur_opcode # "None" /\ (cur_opcode \notin Control => msg_opcode # "None")
    BY DEF NoInternalError
  <2>1. PICK W, E, M : Good(W, E, M)
    BY DEF WsInv
  <2>2. PICK i, a : EndsIn(E, M, i, a)
    BY <2>1, AtEnd
  <2>3. /\ i \in 1 .. N /\ cur_opcode = frames[i].op
        /\ frames[i].op \notin Control =>
              /\ (frames[i].op = "Cont") = (M[i - 1].op # "None")
              /\ msg_opcode = OpOf(M[i - 1], frames[i])
    BY <2>2 DEF EndsIn
  <2>4. frames[i].op # "None"
    BY <2>1, <2>3, FrameAt DEF Good, Data, Control
  <2> QED  BY <2>3, <2>4 DEF OpOf
<1> QED  BY <1>1, WsInvariant, PTL
=============================================================================
